------------------------------ MODULE Approval ------------------------------
(***************************************************************************)
(* The decision desk of one opportunity: the manager's approval, the       *)
(* VP / CEO gate, rejection, reviewer holds, the admin's revert, the       *)
(* won / lost outcome and the ML service's price write                     *)
(* (apps/api/src/pricing/prediction.controller.ts, engagements.service.ts, *)
(* ml.service.ts, team.service.ts).                                        *)
(*                                                                         *)
(* Every handler runs in one TenantDb.run transaction, and no isolation    *)
(* level is set anywhere, so Postgres runs it READ COMMITTED: each         *)
(* statement sees what is committed when it starts, and the final UPDATE   *)
(* (by id) does not look at the status the handler read.  A handler is     *)
(* therefore a sequence of steps of a request in Req: its reads, each of   *)
(* which may be stale by the time it writes, then its write.  The write is *)
(* one step: the UPDATE of the engagement row holds the row lock until the *)
(* commit, so the rest of the handler is not seen or overtaken by another  *)
(* handler's write.  What revert does to the proposal draft is module      *)
(* ProposalDelivery's.                                                     *)
(***************************************************************************)
EXTENDS Integers, Sequences, EngagementStatuses

CONSTANTS
  Req,             \* requests a process may be serving at the same time
  Price,           \* prices a prediction, a person or the ML model may name
  LineTotals,      \* totals the reviewer's line items may have (discounts < 0)
  Thresholds,      \* amounts an admin may set as a VP or CEO threshold
  MaxPredictions,  \* bound on re-predictions
  Null             \* SQL NULL

ASSUME PriceAssumption     == Price \subseteq Nat
ASSUME LineAssumption      == LineTotals \subseteq Int
ASSUME ThresholdAssumption == Thresholds \subseteq Nat
ASSUME NullAssumption      == Null \notin Nat

VARIABLES
  status,         \* engagements.status
  approvedPrice,  \* engagements.approved_price_cents
  quote,          \* engagement_quotes: the mirrored approval, the tech adjustment
  lineTotal,      \* sum of the quote's live line items
  predictions,    \* the append-only predictions rows: each one's tier price
  gates,          \* tenants: the VP and CEO approval thresholds
  offer,          \* the last manager approval on the thread: price and gate level
  grant,          \* the last final approval since that offer
  tx              \* what each request in flight has read so far

row  == <<status, approvedPrice>>
vars == <<row, quote, lineTotal, predictions, gates, offer, grant, tx>>

-----------------------------------------------------------------------------
Levels  == {"none", "vp", "ceo"}
Choices == {"tier", "custom", "tech_adjusted"}
Money   == Nat \cup {Null}

LevelOf(s) == CASE s = "pending_vp_approval"  -> "vp"
                [] s = "pending_ceo_approval" -> "ceo"
                [] OTHER -> "none"

(* Which statuses a price at or under, above, or far above the thresholds  *)
(* lands in: strict comparisons, the CEO threshold first, NULL = no gate.  *)
LevelRequired(cents, g) ==
  IF g.ceo # Null /\ cents > g.ceo THEN "ceo"
  ELSE IF g.vp # Null /\ cents > g.vp THEN "vp" ELSE "none"

StatusFor_VpForBoth(level) ==
  IF level = "none" THEN "approved" ELSE "pending_vp_approval"

StatusFor(level) == CASE level = "ceo" -> "pending_ceo_approval"
                      [] level = "vp"  -> "pending_vp_approval"
                      [] OTHER -> "approved"

MayDecide(role, level) ==
  \/ role = "admin"
  \/ level = "ceo" /\ role = "ceo"
  \/ level = "vp" /\ role \in {"vp_sales", "ceo"}

AtLeastZero_Unclamped(n) == n

AtLeastZero(n) == IF n < 0 THEN 0 ELSE n

Idle == [op |-> "idle", pred |-> 0, choice |-> "tier", cents |-> Null,
         level |-> "none", target |-> "approved"]

Start(r, op, upd) ==
  /\ tx[r].op = "idle"
  /\ tx' = [tx EXCEPT ![r] = [upd EXCEPT !.op = op]]

At(r, op)    == tx[r].op = op
Advance(r, t) == tx' = [tx EXCEPT ![r] = t]
Finish(r)    == tx' = [tx EXCEPT ![r] = Idle]

-----------------------------------------------------------------------------
(* A scope just submitted, or a proposal already drafted or delivered at   *)
(* an ungated price.                                                       *)
Init ==
  /\ lineTotal = 0
  /\ gates = [vp |-> Null, ceo |-> Null]
  /\ grant = [cents |-> Null, level |-> "none"]
  /\ tx = [r \in Req |-> Idle]
  /\ \/ /\ status = "submitted" /\ approvedPrice = Null
        /\ predictions = <<>>
        /\ offer = [cents |-> Null, level |-> "none"]
     \/ /\ status \in {"draft_ready", "sent"} /\ approvedPrice \in Price
        /\ predictions = <<approvedPrice>>
        /\ offer = [cents |-> approvedPrice, level |-> "none"]
  /\ quote = [approved |-> approvedPrice, tech |-> Null, techPred |-> 0]

-----------------------------------------------------------------------------
(* approve: status guard, then the price, then the thresholds, then write. *)
ApproveBegin(r, p, choice, amount) ==
  /\ p \in 1..Len(predictions)
  /\ status \in CanApproveFrom
  /\ Start(r, "approve:price",
           [Idle EXCEPT !.pred = p, !.choice = choice,
              !.cents = IF choice = "custom" THEN amount
                        ELSE IF choice = "tier" THEN predictions[p] ELSE Null])
  /\ UNCHANGED <<row, quote, lineTotal, predictions, gates, offer, grant>>

(* tech_adjusted must be bound to the named prediction; the three tiers    *)
(* fold in the line items; custom is taken verbatim.                       *)
ApproveResolve_AnyAdjustment(r) ==
  /\ At(r, "approve:price")
  /\ LET t == tx[r]
     IN  Advance(r, [t EXCEPT !.op = "approve:gate",
                       !.cents = CASE t.choice = "custom" -> t.cents
                                   [] t.choice = "tier" -> AtLeastZero(t.cents + lineTotal)
                                   [] OTHER -> quote.tech])
  /\ UNCHANGED <<row, quote, lineTotal, predictions, gates, offer, grant>>

ApproveResolve(r) ==
  /\ At(r, "approve:price")
  /\ LET t == tx[r]
         priced(c) == Advance(r, [t EXCEPT !.op = "approve:gate", !.cents = c])
     IN  CASE t.choice = "custom" -> priced(t.cents)
           [] t.choice = "tier"   -> priced(AtLeastZero(t.cents + lineTotal))
           [] t.choice = "tech_adjusted" ->
                IF quote.tech # Null /\ quote.techPred = t.pred
                THEN priced(quote.tech)
                ELSE Finish(r)
  /\ UNCHANGED <<row, quote, lineTotal, predictions, gates, offer, grant>>

ApproveGate(r) ==
  /\ At(r, "approve:gate")
  /\ Advance(r, [tx[r] EXCEPT !.op = "approve:write",
                   !.level = LevelRequired(tx[r].cents, gates)])
  /\ UNCHANGED <<row, quote, lineTotal, predictions, gates, offer, grant>>

ApproveWrite_NoMirror(r) ==
  /\ At(r, "approve:write")
  /\ approvedPrice' = tx[r].cents
  /\ status' = StatusFor(tx[r].level)
  /\ quote' = quote
  /\ offer' = [cents |-> tx[r].cents, level |-> tx[r].level]
  /\ grant' = [cents |-> Null, level |-> "none"]
  /\ Finish(r)
  /\ UNCHANGED <<lineTotal, predictions, gates>>

ApproveWrite(r) ==
  /\ At(r, "approve:write")
  /\ approvedPrice' = tx[r].cents
  /\ status' = StatusFor(tx[r].level)
  /\ quote' = [quote EXCEPT !.approved = tx[r].cents]
  /\ offer' = [cents |-> tx[r].cents, level |-> tx[r].level]
  /\ grant' = [cents |-> Null, level |-> "none"]
  /\ Finish(r)
  /\ UNCHANGED <<lineTotal, predictions, gates>>

-----------------------------------------------------------------------------
(* finalDecision: the level comes from the status read, the price on the   *)
(* grant event from the same read.                                         *)
FinalBegin_AnyRole(r, role, verdict) ==
  /\ status \in PendingStatuses
  /\ Start(r, verdict, [Idle EXCEPT !.cents = approvedPrice,
                          !.level = IF MayDecide(role, "vp") THEN "vp"
                                    ELSE "none"])
  /\ UNCHANGED <<row, quote, lineTotal, predictions, gates, offer, grant>>

FinalBegin(r, role, verdict) ==
  /\ status \in PendingStatuses
  /\ MayDecide(role, LevelOf(status))
  /\ Start(r, verdict, [Idle EXCEPT !.cents = approvedPrice,
                          !.level = LevelOf(status)])
  /\ UNCHANGED <<row, quote, lineTotal, predictions, gates, offer, grant>>

FinalGrantWrite(r) ==
  /\ At(r, "final:grant")
  /\ status' = "approved"
  /\ grant' = [cents |-> tx[r].cents, level |-> tx[r].level]
  /\ Finish(r)
  /\ UNCHANGED <<approvedPrice, quote, lineTotal, predictions, gates, offer>>

FinalRejectWrite(r) ==
  /\ At(r, "final:reject")
  /\ status' = "rejected"
  /\ approvedPrice' = Null
  /\ quote' = [quote EXCEPT !.approved = Null]
  /\ Finish(r)
  /\ UNCHANGED <<lineTotal, predictions, gates, offer, grant>>

-----------------------------------------------------------------------------
(* reject keeps the approved price: only the final-reject path clears it.  *)
RejectBegin(r) ==
  /\ status \in CanRejectFrom
  /\ Start(r, "reject", Idle)
  /\ UNCHANGED <<row, quote, lineTotal, predictions, gates, offer, grant>>

RejectWrite(r) ==
  /\ At(r, "reject")
  /\ status' = "rejected"
  /\ Finish(r)
  /\ UNCHANGED <<approvedPrice, quote, lineTotal, predictions, gates, offer, grant>>

(* revertApproval: back to pending_approval if a prediction exists.        *)
RevertBegin(r) ==
  /\ status \in CanRevertFrom
  /\ Start(r, "revert", [Idle EXCEPT !.target =
                           IF predictions = <<>> THEN "submitted"
                           ELSE "pending_approval"])
  /\ UNCHANGED <<row, quote, lineTotal, predictions, gates, offer, grant>>

RevertWrite_KeepsPrice(r) ==
  /\ At(r, "revert")
  /\ status' = tx[r].target
  /\ Finish(r)
  /\ UNCHANGED <<approvedPrice, quote, lineTotal, predictions, gates, offer, grant>>

RevertWrite(r) ==
  /\ At(r, "revert")
  /\ status' = tx[r].target
  /\ approvedPrice' = Null
  /\ quote' = [quote EXCEPT !.approved = Null]
  /\ Finish(r)
  /\ UNCHANGED <<lineTotal, predictions, gates, offer, grant>>

(* sendBack, requestClarification, escalate: runReviewerHold.              *)
HoldBegin(r, target) ==
  /\ status \in CanHoldFrom
  /\ status # target
  /\ Start(r, "hold", [Idle EXCEPT !.target = target])
  /\ UNCHANGED <<row, quote, lineTotal, predictions, gates, offer, grant>>

HoldWrite(r) ==
  /\ At(r, "hold")
  /\ status' = tx[r].target
  /\ Finish(r)
  /\ UNCHANGED <<approvedPrice, quote, lineTotal, predictions, gates, offer, grant>>

OutcomeBegin(r, outcome) ==
  /\ status \in CanCloseFrom
  /\ Start(r, "outcome", [Idle EXCEPT !.target = outcome])
  /\ UNCHANGED <<row, quote, lineTotal, predictions, gates, offer, grant>>

OutcomeWrite(r) ==
  /\ At(r, "outcome")
  /\ status' = tx[r].target
  /\ Finish(r)
  /\ UNCHANGED <<approvedPrice, quote, lineTotal, predictions, gates, offer, grant>>

(* The ML prediction, fired for a submitted scope or re-run by an admin    *)
(* (POST /ml/predict, at any status): it calls the ML service outside any  *)
(* transaction and then writes status 'predicted' by id, whatever the      *)
(* status has become.                                                      *)
MlBegin(r) ==
  /\ status = "submitted"
  /\ Start(r, "ml", Idle)
  /\ UNCHANGED <<row, quote, lineTotal, predictions, gates, offer, grant>>

MlRerun(r) ==
  /\ Start(r, "ml:rerun", Idle)
  /\ UNCHANGED <<row, quote, lineTotal, predictions, gates, offer, grant>>

MlWrite(r) ==
  /\ tx[r].op \in {"ml", "ml:rerun"}
  /\ status' = "predicted"
  /\ Finish(r)
  /\ UNCHANGED <<approvedPrice, quote, lineTotal, predictions, gates, offer, grant>>

(* A guard that fails later, a database error, the ML service answering    *)
(* nothing, a crash: the transaction rolls back and nothing is written.    *)
Abort(r) ==
  /\ tx[r].op # "idle"
  /\ Finish(r)
  /\ UNCHANGED <<row, quote, lineTotal, predictions, gates, offer, grant>>

-----------------------------------------------------------------------------
(* Writers of the figures an approval reads; each is a single UPDATE or    *)
(* INSERT.                                                                 *)
Predict(p) ==
  /\ Len(predictions) < MaxPredictions
  /\ predictions' = Append(predictions, p)
  /\ UNCHANGED <<row, quote, lineTotal, gates, offer, grant, tx>>

TechAdjust(p, cents) ==
  /\ p \in 1..Len(predictions)
  /\ quote' = [quote EXCEPT !.tech = cents, !.techPred = p]
  /\ UNCHANGED <<row, lineTotal, predictions, gates, offer, grant, tx>>

EditLineItems(total) ==
  /\ lineTotal' = total
  /\ UNCHANGED <<row, quote, predictions, gates, offer, grant, tx>>

(* updateTenant: a PATCH may carry either threshold alone; the order check *)
(* looks only at the body, never at the stored other threshold.            *)
SetThresholds(vp, ceo) ==
  /\ vp # Null /\ ceo # Null => vp <= ceo
  /\ gates' = [vp |-> vp, ceo |-> ceo]
  /\ UNCHANGED <<row, quote, lineTotal, predictions, offer, grant, tx>>

SetOneThreshold(which, v) ==
  /\ gates' = [gates EXCEPT ![which] = v]
  /\ UNCHANGED <<row, quote, lineTotal, predictions, offer, grant, tx>>

-----------------------------------------------------------------------------
Roles == {"admin", "vp_sales", "ceo"}

Begin(r) ==
  \/ \E p \in 1..MaxPredictions, c \in Choices, a \in Price : ApproveBegin(r, p, c, a)
  \/ \E role \in Roles, v \in {"final:grant", "final:reject"} : FinalBegin(r, role, v)
  \/ RejectBegin(r)
  \/ RevertBegin(r)
  \/ \E t \in HoldStatuses : HoldBegin(r, t)
  \/ \E o \in OutcomeStatuses : OutcomeBegin(r, o)
  \/ MlBegin(r) \/ MlRerun(r)

Continue(r) == ApproveResolve(r) \/ ApproveGate(r)

Write(r) ==
  \/ ApproveWrite(r)
  \/ FinalGrantWrite(r)
  \/ FinalRejectWrite(r)
  \/ RejectWrite(r)
  \/ RevertWrite(r)
  \/ HoldWrite(r)
  \/ OutcomeWrite(r)
  \/ MlWrite(r)

Figures ==
  \/ \E p \in Price : Predict(p)
  \/ \E p \in 1..MaxPredictions, c \in Price : TechAdjust(p, c)
  \/ \E t \in LineTotals : EditLineItems(t)
  \/ \E v, c \in Thresholds \cup {Null} : SetThresholds(v, c)
  \/ \E w \in {"vp", "ceo"}, v \in Thresholds \cup {Null} : SetOneThreshold(w, v)

Next == Figures \/ \E r \in Req : Begin(r) \/ Continue(r) \/ Write(r) \/ Abort(r)

Spec == Init /\ [][Next]_vars

-----------------------------------------------------------------------------
TxOps == {"idle", "approve:price", "approve:gate", "approve:write",
          "final:grant", "final:reject", "reject", "revert", "hold",
          "outcome", "ml", "ml:rerun"}

TxType == [op : TxOps, pred : Nat, choice : Choices, cents : Money,
           level : Levels, target : Statuses]

(* Every column and every request in flight has the shape the handlers     *)
(* assume; in particular a request about to write an approval has a price. *)
TypeOK ==
  /\ status \in Statuses
  /\ approvedPrice \in Money
  /\ quote \in [approved : Money, tech : Money, techPred : Nat]
  /\ lineTotal \in Int
  /\ predictions \in Seq(Nat)
  /\ gates \in [vp : Money, ceo : Money]
  /\ offer \in [cents : Money, level : Levels]
  /\ grant \in [cents : Money, level : Levels]
  /\ tx \in [Req -> TxType]
  /\ \A r \in Req : tx[r].op \in {"approve:gate", "approve:write"} => tx[r].cents \in Nat

(* engagement_quotes.approved_price_cents is the engagement's own approved *)
(* price, however the handlers that write or clear it interleave.          *)
QuoteMirrorsEngagement == quote.approved = approvedPrice

(* What waits for a VP or CEO is exactly what the manager last offered: the *)
(* status names the level of that offer and the price is its price.        *)
PendingShowsTheOffer ==
  status \in PendingStatuses =>
    offer = [cents |-> approvedPrice, level |-> LevelOf(status)]

(* A deal the admin reopened carries no approved price into the next round. *)
ReopenedDealIsUnpriced == status = "pending_approval" => approvedPrice = Null

(* The multi-level gate of packages/shared/src/engagement.ts: a deal is     *)
(* approved only at the price the manager last offered and, when that       *)
(* offer was above a threshold, only after somebody of that level granted   *)
(* that very price.                                                         *)
GateHonoured ==
  status = "approved" =>
    /\ offer.cents = approvedPrice
    /\ offer.level # "none" => grant = offer

(* The stage of the deal a status stands for.                              *)
StageOf(s) == CASE s \in PendingStatuses -> "offered"
                [] s \in {"approved"} \cup DraftStatuses -> "agreed"
                [] s = "sent"     -> "delivered"
                [] s = "closed"   -> "won"
                [] s = "lost"     -> "lost"
                [] s = "rejected" -> "dropped"
                [] s = "expired"  -> "expired"
                [] OTHER          -> "open"

(* The desk keeps the contract of the deal: a price changes by an offer    *)
(* only, an agreement stands at an offer nobody had to sign or the level   *)
(* asked for did, a won deal stays won, a delivered one moves only to its  *)
(* outcome, a rejected one is left only by the admin.                      *)
Deal == INSTANCE DealContract WITH stage <- StageOf(status), price <- approvedPrice,
                                   needs <- offer.level, signed <- grant.level,
                                   NoPrice <- Null
KeepsContract == Deal!Spec
=============================================================================
