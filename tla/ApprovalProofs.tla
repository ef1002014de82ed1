--------------------------- MODULE ApprovalProofs ---------------------------
(***************************************************************************)
(* What holds of the decision desk for every set of requests, prices,      *)
(* thresholds and bounds.                                                  *)
(*   - TypeCorrect, and on top of it the three invariants that survive     *)
(*     any interleaving of the handlers.                                   *)
(*   - GateHonouredSerially, ContractSerially: the multi-level gate, and   *)
(*     the whole contract of a deal, hold if requests are served one at a  *)
(*     time.  (Two at a time break the gate: see the run                   *)
(*     Approval_gate_race.)                                                *)
(*   - OffersHonest, ApprovedIsShown: a page that is up to date offers     *)
(*     what the server accepts, an approval overtaken by new extras asks   *)
(*     for another one, and what a press agreed is what its button said.   *)
(***************************************************************************)
EXTENDS Approval, DealPage, TLAPS

(* What a request record carries to its write, by its operation.           *)
CarriesOK(t) ==
  /\ t \in TxType
  /\ t.op = "hold"    => t.target \in HoldStatuses
  /\ t.op = "outcome" => t.target \in OutcomeStatuses
  /\ t.op = "revert"  => t.target \in {"submitted", "pending_approval"}
  /\ t.op \in {"approve:gate", "approve:write"} => t.cents \in Nat
  /\ t.op = "approve:price" /\ t.choice # "tech_adjusted" => t.cents \in Nat

TxInv  == tx \in [Req -> TxType] /\ \A r \in Req : CarriesOK(tx[r])

DataInv ==
  /\ lineTotal \in Int
  /\ predictions \in Seq(Nat)
  /\ gates \in [vp : Money, ceo : Money]
  /\ quote \in [approved : Money, tech : Money, techPred : Nat]

RowInv ==
  /\ status \in Statuses
  /\ approvedPrice \in Money
  /\ offer \in [cents : Money, level : Levels]
  /\ grant \in [cents : Money, level : Levels]
  /\ QuoteMirrorsEngagement
  /\ PendingShowsTheOffer
  /\ ReopenedDealIsUnpriced

(* The inductive invariant: the type invariant needs CarriesOK, because a  *)
(* write copies its status and price out of the request record.            *)
IInv == TxInv /\ DataInv /\ RowInv

-----------------------------------------------------------------------------
(* Facts about the helpers.                                                *)
LEMMA IdleOK == CarriesOK(Idle) /\ Idle.op = "idle"
  BY NullAssumption
  DEF CarriesOK, Idle, TxType, TxOps, Choices, Money, Levels, Statuses

LEMMA LevelOfType == \A s : LevelOf(s) \in Levels
  BY DEF LevelOf, Levels

LEMMA LevelRequiredType == \A c, g : LevelRequired(c, g) \in Levels
  BY DEF LevelRequired, Levels

LEMMA StatusForType ==
  \A l \in Levels : /\ StatusFor(l) \in Statuses
                    /\ StatusFor(l) \in PendingStatuses => LevelOf(StatusFor(l)) = l
                    /\ StatusFor(l) # "pending_approval"
                    /\ StatusFor(l) = "approved" => l = "none"
  BY DEF StatusFor, LevelOf, Levels, Statuses, PendingStatuses

LEMMA Kinds ==
  /\ HoldStatuses \subseteq Statuses /\ OutcomeStatuses \subseteq Statuses
  /\ "submitted" \in Statuses /\ "pending_approval" \in Statuses
  /\ "rejected" \in Statuses /\ "approved" \in Statuses /\ "predicted" \in Statuses
  /\ \A s \in HoldStatuses \cup OutcomeStatuses
              \cup {"rejected", "approved", "predicted", "submitted"} :
        s \notin PendingStatuses /\ s # "pending_approval"
  /\ "pending_approval" \notin PendingStatuses
  BY DEF HoldStatuses, OutcomeStatuses, Statuses, PendingStatuses

(* Replacing one request's record by a well-formed one keeps TxInv.        *)
LEMMA TxStep ==
  ASSUME TxInv, NEW r \in Req, NEW t, CarriesOK(t), tx' = [tx EXCEPT ![r] = t]
  PROVE  TxInv'
  <1>1. t \in TxType
    BY DEF CarriesOK
  <1>2. tx' \in [Req -> TxType]
    BY <1>1 DEF TxInv
  <1>3. \A q \in Req : CarriesOK(tx'[q])
    <2> TAKE q \in Req
    <2>1. tx'[q] = IF q = r THEN t ELSE tx[q]
      BY DEF TxInv
    <2> QED
      BY <2>1 DEF TxInv
  <1>4. \A q \in Req : CarriesOK(tx[q])'
    BY <1>3 DEF CarriesOK, TxType
  <1> QED
    BY <1>2, <1>4 DEF TxInv

LEMMA FinishStep ==
  ASSUME TxInv, NEW r \in Req, Finish(r)
  PROVE  TxInv'
  BY IdleOK, TxStep DEF Finish

(* Steps that leave the row and the figures alone.                         *)
LEMMA ReadStep ==
  ASSUME IInv, TxInv', UNCHANGED <<row, quote, lineTotal, predictions, gates, offer, grant>>
  PROVE  IInv'
  BY DEF IInv, DataInv, RowInv, QuoteMirrorsEngagement, PendingShowsTheOffer,
         ReopenedDealIsUnpriced, row

(* Steps that move the status to one nobody gates, and nothing else.       *)
LEMMA StatusStep ==
  ASSUME IInv, TxInv', status' \in Statuses, status' \notin PendingStatuses,
         status' # "pending_approval",
         UNCHANGED <<approvedPrice, quote, lineTotal, predictions, gates, offer>>,
         grant' \in [cents : Money, level : Levels]
  PROVE  IInv'
  BY DEF IInv, DataInv, RowInv, QuoteMirrorsEngagement, PendingShowsTheOffer,
         ReopenedDealIsUnpriced

-----------------------------------------------------------------------------
LEMMA InitInvariant == Init => IInv
  <1> SUFFICES ASSUME Init PROVE IInv
    OBVIOUS
  <1>1. /\ status \in {"submitted", "draft_ready", "sent"}
        /\ approvedPrice \in Money
        /\ predictions \in Seq(Nat)
        /\ offer = [cents |-> approvedPrice, level |-> "none"]
    <2>1. CASE status = "submitted" /\ approvedPrice = Null /\ predictions = <<>>
                 /\ offer = [cents |-> Null, level |-> "none"]
      BY <2>1 DEF Money
    <2>2. CASE /\ status \in {"draft_ready", "sent"} /\ approvedPrice \in Price
               /\ predictions = <<approvedPrice>>
               /\ offer = [cents |-> approvedPrice, level |-> "none"]
      BY <2>2, PriceAssumption DEF Money
    <2> QED
      BY <2>1, <2>2 DEF Init
  <1>2. TxInv
    <2>1. tx \in [Req -> TxType] /\ \A r \in Req : tx[r] = Idle
      BY IdleOK DEF Init, CarriesOK
    <2> QED
      BY <2>1, IdleOK DEF TxInv
  <1>3. DataInv
    BY <1>1 DEF Init, DataInv, Money
  <1>4. /\ offer \in [cents : Money, level : Levels]
        /\ grant \in [cents : Money, level : Levels]
    BY <1>1 DEF Init, Money, Levels
  <1>5. status \in Statuses /\ status \notin PendingStatuses /\ status # "pending_approval"
    BY <1>1 DEF Statuses, PendingStatuses, DraftStatuses
  <1>6. QuoteMirrorsEngagement
    BY DEF Init, QuoteMirrorsEngagement
  <1> QED
    BY <1>1, <1>2, <1>3, <1>4, <1>5, <1>6
    DEF IInv, RowInv, PendingShowsTheOffer, ReopenedDealIsUnpriced

(* A request that starts only records what it read.                        *)
LEMMA BeginInvariant ==
  ASSUME IInv, NEW r \in Req, Begin(r)
  PROVE  IInv'
  <1>0. Idle \in TxType /\ TxInv
    BY IdleOK DEF CarriesOK, IInv
  <1>1. ASSUME NEW p \in 1..MaxPredictions, NEW c \in Choices, NEW a \in Price,
               ApproveBegin(r, p, c, a)
        PROVE  IInv'
    <2> DEFINE d == IF c = "custom" THEN a
                    ELSE IF c = "tier" THEN predictions[p] ELSE Null
               t == [Idle EXCEPT !.pred = p, !.choice = c, !.cents = d, !.op = "approve:price"]
    <2>1. p \in Nat /\ p \in 1..Len(predictions)
      BY <1>1 DEF ApproveBegin
    <2>2. d \in Money /\ (c # "tech_adjusted" => d \in Nat)
      BY <2>1, PriceAssumption DEF IInv, DataInv, Money, Choices
    <2>3. CarriesOK(t)
      BY <1>0, <2>1, <2>2 DEF CarriesOK, TxType, TxOps, Idle
    <2>4. tx' = [tx EXCEPT ![r] = t]
      BY <1>1 DEF ApproveBegin, Start, Idle
    <2> QED
      BY <1>0, <1>1, <2>3, <2>4, TxStep, ReadStep DEF ApproveBegin
  <1>2. ASSUME NEW role \in Roles, NEW v \in {"final:grant", "final:reject"},
               FinalBegin(r, role, v)
        PROVE  IInv'
    <2> DEFINE t == [Idle EXCEPT !.cents = approvedPrice, !.level = LevelOf(status), !.op = v]
    <2>1. CarriesOK(t)
      BY <1>0, LevelOfType DEF CarriesOK, TxType, TxOps, Idle, IInv, RowInv
    <2>2. tx' = [tx EXCEPT ![r] = t]
      BY <1>2 DEF FinalBegin, Start, Idle
    <2> QED
      BY <1>0, <1>2, <2>1, <2>2, TxStep, ReadStep DEF FinalBegin
  <1>3. CASE RejectBegin(r)
    <2> DEFINE t == [Idle EXCEPT !.op = "reject"]
    <2>1. CarriesOK(t)
      BY <1>0 DEF CarriesOK, TxType, TxOps, Idle
    <2> QED
      BY <1>0, <1>3, <2>1, TxStep, ReadStep DEF RejectBegin, Start
  <1>4. CASE RevertBegin(r)
    <2> DEFINE s == IF predictions = <<>> THEN "submitted" ELSE "pending_approval"
               t == [Idle EXCEPT !.target = s, !.op = "revert"]
    <2>1. CarriesOK(t)
      BY <1>0, Kinds DEF CarriesOK, TxType, TxOps, Idle
    <2>2. tx' = [tx EXCEPT ![r] = t]
      BY <1>4 DEF RevertBegin, Start, Idle
    <2> QED
      BY <1>0, <1>4, <2>1, <2>2, TxStep, ReadStep DEF RevertBegin
  <1>5. ASSUME NEW s \in HoldStatuses, HoldBegin(r, s)
        PROVE  IInv'
    <2> DEFINE t == [Idle EXCEPT !.target = s, !.op = "hold"]
    <2>1. CarriesOK(t)
      BY <1>0, Kinds DEF CarriesOK, TxType, TxOps, Idle
    <2>2. tx' = [tx EXCEPT ![r] = t]
      BY <1>5 DEF HoldBegin, Start, Idle
    <2> QED
      BY <1>0, <1>5, <2>1, <2>2, TxStep, ReadStep DEF HoldBegin
  <1>6. ASSUME NEW s \in OutcomeStatuses, OutcomeBegin(r, s)
        PROVE  IInv'
    <2> DEFINE t == [Idle EXCEPT !.target = s, !.op = "outcome"]
    <2>1. CarriesOK(t)
      BY <1>0, Kinds DEF CarriesOK, TxType, TxOps, Idle
    <2>2. tx' = [tx EXCEPT ![r] = t]
      BY <1>6 DEF OutcomeBegin, Start, Idle
    <2> QED
      BY <1>0, <1>6, <2>1, <2>2, TxStep, ReadStep DEF OutcomeBegin
  <1>7. CASE MlBegin(r)
    <2> DEFINE t == [Idle EXCEPT !.op = "ml"]
    <2>1. CarriesOK(t)
      BY <1>0 DEF CarriesOK, TxType, TxOps, Idle
    <2> QED
      BY <1>0, <1>7, <2>1, TxStep, ReadStep DEF MlBegin, Start
  <1>8. CASE MlRerun(r)
    <2> DEFINE t == [Idle EXCEPT !.op = "ml:rerun"]
    <2>1. CarriesOK(t)
      BY <1>0 DEF CarriesOK, TxType, TxOps, Idle
    <2> QED
      BY <1>0, <1>8, <2>1, TxStep, ReadStep DEF MlRerun, Start
  <1> QED
    BY <1>1, <1>2, <1>3, <1>4, <1>5, <1>6, <1>7, <1>8 DEF Begin

(* approve's middle steps fix the price, then the level it needs.          *)
LEMMA ContinueInvariant ==
  ASSUME IInv, NEW r \in Req, Continue(r)
  PROVE  IInv'
  <1>0. TxInv /\ CarriesOK(tx[r]) /\ tx[r] \in TxType
    BY DEF IInv, TxInv, CarriesOK
  <1>1. CASE ApproveResolve(r)
    <2>1. tx[r].op = "approve:price" /\ tx[r].choice \in Choices
      BY <1>0, <1>1 DEF ApproveResolve, At, TxType
    <2>2. \/ Finish(r)
          \/ \E c \in Nat :
               Advance(r, [tx[r] EXCEPT !.op = "approve:gate", !.cents = c])
      <3>1. CASE tx[r].choice = "custom"
        BY <1>0, <1>1, <2>1, <3>1 DEF ApproveResolve, CarriesOK
      <3>2. CASE tx[r].choice = "tier"
        <4>1. AtLeastZero(tx[r].cents + lineTotal) \in Nat
          BY <1>0, <2>1, <3>2 DEF IInv, DataInv, AtLeastZero, CarriesOK
        <4> QED
          BY <1>1, <3>2, <4>1 DEF ApproveResolve
      <3>3. CASE tx[r].choice = "tech_adjusted"
        BY <1>1, <3>3 DEF ApproveResolve, IInv, DataInv, Money
      <3> QED
        BY <2>1, <3>1, <3>2, <3>3 DEF Choices
    <2>3. ASSUME NEW c \in Nat,
                 Advance(r, [tx[r] EXCEPT !.op = "approve:gate", !.cents = c])
          PROVE  TxInv'
      <3> DEFINE t == [tx[r] EXCEPT !.op = "approve:gate", !.cents = c]
      <3>1. CarriesOK(t)
        BY <1>0 DEF CarriesOK, TxType, TxOps, Money
      <3> QED
        BY <1>0, <2>3, <3>1, TxStep DEF Advance
    <2> QED
      BY <1>0, <1>1, <2>2, <2>3, FinishStep, ReadStep DEF ApproveResolve
  <1>2. CASE ApproveGate(r)
    <2> DEFINE t == [tx[r] EXCEPT !.op = "approve:write",
                       !.level = LevelRequired(tx[r].cents, gates)]
    <2>1. CarriesOK(t)
      BY <1>0, <1>2, LevelRequiredType DEF ApproveGate, At, CarriesOK, TxType, TxOps
    <2> QED
      BY <1>0, <1>2, <2>1, TxStep, ReadStep DEF ApproveGate, Advance
  <1> QED
    BY <1>1, <1>2 DEF Continue

-----------------------------------------------------------------------------
LEMMA WriteInvariant ==
  ASSUME IInv, NEW r \in Req, Write(r)
  PROVE  IInv'
  <1>0. TxInv /\ CarriesOK(tx[r]) /\ tx[r] \in TxType
    BY DEF IInv, TxInv, CarriesOK
  <1>1. CASE ApproveWrite(r)
    <2>1. tx[r].cents \in Nat /\ tx[r].level \in Levels
      BY <1>0, <1>1 DEF ApproveWrite, At, CarriesOK, TxType
    <2>2. TxInv'
      BY <1>0, <1>1, FinishStep DEF ApproveWrite
    <2>3. DataInv'
      BY <1>1, <2>1 DEF ApproveWrite, IInv, DataInv, Money
    <2>4. RowInv'
      <3>1. /\ status' \in Statuses /\ status' # "pending_approval"
            /\ status' \in PendingStatuses => LevelOf(status') = tx[r].level
        BY <1>1, <2>1, StatusForType DEF ApproveWrite
      <3>2. /\ approvedPrice' \in Money
            /\ offer' = [cents |-> approvedPrice', level |-> tx[r].level]
            /\ offer' \in [cents : Money, level : Levels]
            /\ grant' \in [cents : Money, level : Levels]
        BY <1>1, <2>1 DEF ApproveWrite, Money, Levels
      <3>3. quote'.approved = approvedPrice'
        BY <1>1 DEF ApproveWrite, IInv, DataInv
      <3> QED
        BY <3>1, <3>2, <3>3 DEF RowInv, QuoteMirrorsEngagement, PendingShowsTheOffer,
           ReopenedDealIsUnpriced, LevelOf
    <2> QED
      BY <2>2, <2>3, <2>4 DEF IInv
  <1>2. CASE FinalGrantWrite(r)
    <2>1. grant' \in [cents : Money, level : Levels]
      BY <1>0, <1>2 DEF FinalGrantWrite, TxType
    <2> QED
      BY <1>0, <1>2, <2>1, Kinds, FinishStep, StatusStep DEF FinalGrantWrite
  <1>3. CASE FinalRejectWrite(r)
    <2>1. TxInv'
      BY <1>0, <1>3, FinishStep DEF FinalRejectWrite
    <2>2. DataInv'
      BY <1>3 DEF FinalRejectWrite, IInv, DataInv, Money
    <2>3. quote'.approved = approvedPrice' /\ approvedPrice' = Null
      BY <1>3 DEF FinalRejectWrite, IInv, DataInv
    <2> QED
      BY <1>3, <2>1, <2>2, <2>3, Kinds
      DEF FinalRejectWrite, IInv, RowInv, QuoteMirrorsEngagement, PendingShowsTheOffer,
          ReopenedDealIsUnpriced, Money
  <1>4. CASE RejectWrite(r)
    BY <1>0, <1>4, Kinds, FinishStep, StatusStep DEF RejectWrite, IInv, RowInv
  <1>5. CASE RevertWrite(r)
    <2>1. TxInv'
      BY <1>0, <1>5, FinishStep DEF RevertWrite
    <2>2. DataInv'
      BY <1>5 DEF RevertWrite, IInv, DataInv, Money
    <2>3. quote'.approved = approvedPrice' /\ approvedPrice' = Null
      BY <1>5 DEF RevertWrite, IInv, DataInv
    <2>4. status' \in Statuses /\ status' \notin PendingStatuses
      BY <1>0, <1>5, Kinds DEF RevertWrite, At, CarriesOK
    <2> QED
      BY <1>5, <2>1, <2>2, <2>3, <2>4
      DEF RevertWrite, IInv, RowInv, QuoteMirrorsEngagement, PendingShowsTheOffer,
          ReopenedDealIsUnpriced, Money
  <1>6. CASE HoldWrite(r)
    <2>1. tx[r].target \in HoldStatuses
      BY <1>0, <1>6 DEF HoldWrite, At, CarriesOK
    <2> QED
      BY <1>0, <1>6, <2>1, Kinds, FinishStep, StatusStep DEF HoldWrite, IInv, RowInv
  <1>7. CASE OutcomeWrite(r)
    <2>1. tx[r].target \in OutcomeStatuses
      BY <1>0, <1>7 DEF OutcomeWrite, At, CarriesOK
    <2> QED
      BY <1>0, <1>7, <2>1, Kinds, FinishStep, StatusStep DEF OutcomeWrite, IInv, RowInv
  <1>8. CASE MlWrite(r)
    BY <1>0, <1>8, Kinds, FinishStep, StatusStep DEF MlWrite, IInv, RowInv
  <1> QED
    BY <1>1, <1>2, <1>3, <1>4, <1>5, <1>6, <1>7, <1>8 DEF Write

(* The figures change without touching the row or the requests.            *)
LEMMA FiguresInvariant ==
  ASSUME IInv, Figures
  PROVE  IInv'
  <1>0. ASSUME DataInv', UNCHANGED <<row, offer, grant, tx>>, quote'.approved = quote.approved
        PROVE  IInv'
    BY <1>0 DEF IInv, RowInv, row, TxInv, CarriesOK, QuoteMirrorsEngagement,
       PendingShowsTheOffer, ReopenedDealIsUnpriced
  <1>1. ASSUME NEW p \in Price, Predict(p)
        PROVE  IInv'
    <2>1. predictions' \in Seq(Nat)
      BY <1>1, PriceAssumption DEF Predict, IInv, DataInv
    <2> QED
      BY <1>0, <1>1, <2>1 DEF Predict, IInv, DataInv
  <1>2. ASSUME NEW p \in 1..MaxPredictions, NEW c \in Price, TechAdjust(p, c)
        PROVE  IInv'
    <2>1. p \in Nat /\ c \in Money
      BY <1>2, PriceAssumption DEF TechAdjust, Money
    <2> QED
      BY <1>0, <1>2, <2>1 DEF TechAdjust, IInv, DataInv
  <1>3. ASSUME NEW t \in LineTotals, EditLineItems(t)
        PROVE  IInv'
    BY <1>0, <1>3, LineAssumption DEF EditLineItems, IInv, DataInv
  <1>4. ASSUME NEW v \in Thresholds \cup {Null}, NEW c \in Thresholds \cup {Null},
               SetThresholds(v, c)
        PROVE  IInv'
    BY <1>0, <1>4, ThresholdAssumption DEF SetThresholds, IInv, DataInv, Money
  <1>5. ASSUME NEW w \in {"vp", "ceo"}, NEW v \in Thresholds \cup {Null},
               SetOneThreshold(w, v)
        PROVE  IInv'
    BY <1>0, <1>5, ThresholdAssumption DEF SetOneThreshold, IInv, DataInv, Money
  <1> QED
    BY <1>1, <1>2, <1>3, <1>4, <1>5 DEF Figures

LEMMA StepInvariant == IInv /\ [Next]_vars => IInv'
  <1> SUFFICES ASSUME IInv, [Next]_vars PROVE IInv'
    OBVIOUS
  <1>1. CASE Figures
    BY <1>1, FiguresInvariant
  <1>2. ASSUME NEW r \in Req, Begin(r) PROVE IInv'
    BY <1>2, BeginInvariant
  <1>3. ASSUME NEW r \in Req, Continue(r) PROVE IInv'
    BY <1>3, ContinueInvariant
  <1>4. ASSUME NEW r \in Req, Write(r) PROVE IInv'
    BY <1>4, WriteInvariant
  <1>5. ASSUME NEW r \in Req, Abort(r) PROVE IInv'
    BY <1>5, FinishStep, ReadStep DEF Abort, IInv
  <1>6. CASE UNCHANGED vars
    BY <1>6 DEF vars, row, IInv, TxInv, DataInv, RowInv, CarriesOK,
       QuoteMirrorsEngagement, PendingShowsTheOffer, ReopenedDealIsUnpriced
  <1> QED
    BY <1>1, <1>2, <1>3, <1>4, <1>5, <1>6 DEF Next

LEMMA Inductive == Spec => []IInv
  BY InitInvariant, StepInvariant, PTL DEF Spec

-----------------------------------------------------------------------------
(* Columns and requests keep their shape whatever interleaves.             *)
THEOREM TypeCorrect == Spec => []TypeOK
  <1>1. IInv => TypeOK
    BY DEF IInv, TxInv, DataInv, RowInv, TypeOK, CarriesOK
  <1> QED
    BY Inductive, <1>1, PTL

(* The quote row never disagrees with the engagement on the approved price. *)
THEOREM MirrorCorrect == Spec => []QuoteMirrorsEngagement
  <1>1. IInv => QuoteMirrorsEngagement
    BY DEF IInv, RowInv
  <1> QED
    BY Inductive, <1>1, PTL

(* A VP or CEO looking at a pending deal sees the manager's last offer.    *)
THEOREM PendingCorrect == Spec => []PendingShowsTheOffer
  <1>1. IInv => PendingShowsTheOffer
    BY DEF IInv, RowInv
  <1> QED
    BY Inductive, <1>1, PTL

(* A reopened deal has no approved price left on it.                       *)
THEOREM ReopenCorrect == Spec => []ReopenedDealIsUnpriced
  <1>1. IInv => ReopenedDealIsUnpriced
    BY DEF IInv, RowInv
  <1> QED
    BY Inductive, <1>1, PTL

-----------------------------------------------------------------------------
(* One request at a time.                                                  *)
Serial == \A r, s \in Req : r = s

(* The guard a request passed when it began.                               *)
GuardOf(op) == CASE op \in {"approve:price", "approve:gate", "approve:write"} -> CanApproveFrom
                 [] op \in {"final:grant", "final:reject"} -> PendingStatuses
                 [] op = "reject"  -> CanRejectFrom
                 [] op = "revert"  -> CanRevertFrom
                 [] op = "hold"    -> CanHoldFrom
                 [] op = "outcome" -> CanCloseFrom
                 [] op = "ml"      -> {"submitted"}
                 [] OTHER          -> Statuses

(* With nobody else writing, what a request read is still so when it       *)
(* writes: its guard holds, and the price and level it is about to grant   *)
(* are those of the row.                                                   *)
FreshInv ==
  \A r \in Req :
    /\ status \in GuardOf(tx[r].op)
    /\ tx[r].op = "final:grant" =>
         tx[r].cents = approvedPrice /\ tx[r].level = LevelOf(status)

SerialInv == IInv /\ FreshInv /\ GateHonoured

LEMMA GuardFacts ==
  /\ GuardOf("approve:price") = CanApproveFrom /\ GuardOf("approve:gate") = CanApproveFrom
  /\ GuardOf("approve:write") = CanApproveFrom
  /\ GuardOf("final:grant") = PendingStatuses /\ GuardOf("final:reject") = PendingStatuses
  /\ GuardOf("reject") = CanRejectFrom /\ GuardOf("revert") = CanRevertFrom
  /\ GuardOf("hold") = CanHoldFrom /\ GuardOf("outcome") = CanCloseFrom
  /\ GuardOf("ml") = {"submitted"} /\ GuardOf("ml:rerun") = Statuses
  /\ GuardOf("idle") = Statuses
  BY DEF GuardOf

LEMMA InitSerial == Init => SerialInv
  <1> SUFFICES ASSUME Init PROVE SerialInv
    OBVIOUS
  <1>1. IInv
    BY InitInvariant
  <1>2. \A r \in Req : tx[r].op = "idle"
    BY IdleOK DEF Init
  <1>3. status # "approved"
    BY DEF Init
  <1> QED
    BY <1>1, <1>2, <1>3, GuardFacts DEF SerialInv, FreshInv, GateHonoured, IInv, RowInv

(* A step that leaves the row alone and gives the one request a record     *)
(* whose guard holds.                                                      *)
LEMMA SerialReadStep ==
  ASSUME Serial, SerialInv, IInv', NEW r \in Req, NEW t,
         tx' = [tx EXCEPT ![r] = t], status \in GuardOf(t.op),
         t.op = "final:grant" => t.cents = approvedPrice /\ t.level = LevelOf(status),
         UNCHANGED <<row, offer, grant>>
  PROVE  SerialInv'
  <1>1. \A q \in Req : q = r /\ tx'[q] = t
    BY DEF Serial, SerialInv, IInv, TxInv
  <1>2. FreshInv'
    BY <1>1 DEF FreshInv, row, GuardOf, LevelOf
  <1>3. GateHonoured'
    BY DEF SerialInv, GateHonoured, row
  <1> QED
    BY <1>2, <1>3 DEF SerialInv

(* A step that finishes the one request.                                   *)
LEMMA SerialWriteStep ==
  ASSUME Serial, SerialInv, IInv', NEW r \in Req, Finish(r), GateHonoured'
  PROVE  SerialInv'
  <1>1. \A q \in Req : q = r /\ tx'[q].op = "idle"
    BY IdleOK DEF Serial, Finish, SerialInv, IInv, TxInv
  <1>2. FreshInv'
    BY <1>1, GuardFacts DEF FreshInv, IInv, RowInv
  <1> QED
    BY <1>2 DEF SerialInv

LEMMA SerialBegin ==
  ASSUME Serial, SerialInv, NEW r \in Req, Begin(r)
  PROVE  SerialInv'
  <1>0. IInv' /\ status \in Statuses
    BY BeginInvariant DEF SerialInv, IInv, RowInv
  <1>1. ASSUME NEW p \in 1..MaxPredictions, NEW c \in Choices, NEW a \in Price,
               ApproveBegin(r, p, c, a)
        PROVE  SerialInv'
    <2> DEFINE d == IF c = "custom" THEN a
                    ELSE IF c = "tier" THEN predictions[p] ELSE Null
               t == [Idle EXCEPT !.pred = p, !.choice = c, !.cents = d, !.op = "approve:price"]
    <2>1. tx' = [tx EXCEPT ![r] = t] /\ t.op = "approve:price" /\ status \in CanApproveFrom
      BY <1>1 DEF ApproveBegin, Start, Idle
    <2> HIDE DEF t
    <2> QED
      BY <1>0, <1>1, <2>1, GuardFacts, SerialReadStep DEF ApproveBegin
  <1>2. ASSUME NEW role \in Roles, NEW v \in {"final:grant", "final:reject"},
               FinalBegin(r, role, v)
        PROVE  SerialInv'
    <2> DEFINE t == [Idle EXCEPT !.cents = approvedPrice, !.level = LevelOf(status), !.op = v]
    <2>1. /\ tx' = [tx EXCEPT ![r] = t] /\ status \in PendingStatuses
          /\ t.op = v /\ t.cents = approvedPrice /\ t.level = LevelOf(status)
      BY <1>2 DEF FinalBegin, Start, Idle
    <2> HIDE DEF t
    <2> QED
      BY <1>0, <1>2, <2>1, GuardFacts, SerialReadStep DEF FinalBegin
  <1>3. CASE RejectBegin(r)
    <2> DEFINE t == [Idle EXCEPT !.op = "reject"]
    <2>1. tx' = [tx EXCEPT ![r] = t] /\ t.op = "reject" /\ status \in CanRejectFrom
      BY <1>3 DEF RejectBegin, Start, Idle
    <2> HIDE DEF t
    <2> QED
      BY <1>0, <1>3, <2>1, GuardFacts, SerialReadStep DEF RejectBegin
  <1>4. CASE RevertBegin(r)
    <2> DEFINE s == IF predictions = <<>> THEN "submitted" ELSE "pending_approval"
               t == [Idle EXCEPT !.target = s, !.op = "revert"]
    <2>1. tx' = [tx EXCEPT ![r] = t] /\ t.op = "revert" /\ status \in CanRevertFrom
      BY <1>4 DEF RevertBegin, Start, Idle
    <2> HIDE DEF t
    <2> QED
      BY <1>0, <1>4, <2>1, GuardFacts, SerialReadStep DEF RevertBegin
  <1>5. ASSUME NEW s \in HoldStatuses, HoldBegin(r, s)
        PROVE  SerialInv'
    <2> DEFINE t == [Idle EXCEPT !.target = s, !.op = "hold"]
    <2>1. tx' = [tx EXCEPT ![r] = t] /\ t.op = "hold" /\ status \in CanHoldFrom
      BY <1>5 DEF HoldBegin, Start, Idle
    <2> HIDE DEF t
    <2> QED
      BY <1>0, <1>5, <2>1, GuardFacts, SerialReadStep DEF HoldBegin
  <1>6. ASSUME NEW s \in OutcomeStatuses, OutcomeBegin(r, s)
        PROVE  SerialInv'
    <2> DEFINE t == [Idle EXCEPT !.target = s, !.op = "outcome"]
    <2>1. tx' = [tx EXCEPT ![r] = t] /\ t.op = "outcome" /\ status \in CanCloseFrom
      BY <1>6 DEF OutcomeBegin, Start, Idle
    <2> HIDE DEF t
    <2> QED
      BY <1>0, <1>6, <2>1, GuardFacts, SerialReadStep DEF OutcomeBegin
  <1>7. CASE MlBegin(r)
    <2> DEFINE t == [Idle EXCEPT !.op = "ml"]
    <2>1. tx' = [tx EXCEPT ![r] = t] /\ t.op = "ml" /\ status = "submitted"
      BY <1>7 DEF MlBegin, Start, Idle
    <2> HIDE DEF t
    <2> QED
      BY <1>0, <1>7, <2>1, GuardFacts, SerialReadStep DEF MlBegin
  <1>8. CASE MlRerun(r)
    <2> DEFINE t == [Idle EXCEPT !.op = "ml:rerun"]
    <2>1. tx' = [tx EXCEPT ![r] = t] /\ t.op = "ml:rerun"
      BY <1>8 DEF MlRerun, Start, Idle
    <2>2. status \in GuardOf(t.op)
      BY <2>1, GuardFacts DEF SerialInv, IInv, RowInv
    <2> HIDE DEF t
    <2> QED
      BY <1>0, <1>8, <2>1, <2>2, SerialReadStep DEF MlRerun
  <1> QED
    BY <1>1, <1>2, <1>3, <1>4, <1>5, <1>6, <1>7, <1>8 DEF Begin

LEMMA SerialContinue ==
  ASSUME Serial, SerialInv, NEW r \in Req, Continue(r)
  PROVE  SerialInv'
  <1>0. IInv' /\ tx[r] \in TxType /\ status \in GuardOf(tx[r].op)
    BY ContinueInvariant DEF SerialInv, IInv, TxInv, FreshInv
  <1>1. CASE ApproveGate(r)
    <2> DEFINE t == [tx[r] EXCEPT !.op = "approve:write",
                       !.level = LevelRequired(tx[r].cents, gates)]
    <2>1. tx' = [tx EXCEPT ![r] = t] /\ t.op = "approve:write" /\ status \in CanApproveFrom
      BY <1>0, <1>1, GuardFacts DEF ApproveGate, At, Advance, TxType
    <2> HIDE DEF t
    <2> QED
      BY <1>0, <1>1, <2>1, GuardFacts, SerialReadStep DEF ApproveGate
  <1>2. CASE ApproveResolve(r)
    <2>1. tx[r].op = "approve:price" /\ tx[r].choice \in Choices /\ status \in CanApproveFrom
      BY <1>0, <1>2, GuardFacts DEF ApproveResolve, At, TxType
    <2>2. \/ Finish(r)
          \/ \E c : Advance(r, [tx[r] EXCEPT !.op = "approve:gate", !.cents = c])
      BY <1>2, <2>1 DEF ApproveResolve, Choices
    <2>3. CASE Finish(r)
      <3>1. GateHonoured'
        BY <1>2 DEF ApproveResolve, SerialInv, GateHonoured, row
      <3> QED
        BY <1>0, <2>3, <3>1, SerialWriteStep
    <2>4. ASSUME NEW c, Advance(r, [tx[r] EXCEPT !.op = "approve:gate", !.cents = c])
          PROVE  SerialInv'
      <3> DEFINE t == [tx[r] EXCEPT !.op = "approve:gate", !.cents = c]
      <3>1. tx' = [tx EXCEPT ![r] = t] /\ t.op = "approve:gate"
        BY <1>0, <2>4 DEF Advance, TxType
      <3> HIDE DEF t
      <3> QED
        BY <1>0, <1>2, <2>1, <3>1, GuardFacts, SerialReadStep DEF ApproveResolve
    <2> QED
      BY <2>2, <2>3, <2>4
  <1> QED
    BY <1>1, <1>2 DEF Continue

LEMMA SerialWrite ==
  ASSUME Serial, SerialInv, NEW r \in Req, Write(r)
  PROVE  SerialInv'
  <1>0. IInv' /\ CarriesOK(tx[r]) /\ tx[r] \in TxType
    BY WriteInvariant DEF SerialInv, IInv, TxInv, CarriesOK
  <1>1. CASE ApproveWrite(r)
    <2>1. tx[r].level \in Levels
      BY <1>0 DEF TxType
    <2>2. GateHonoured'
      BY <1>1, <2>1, StatusForType DEF ApproveWrite, GateHonoured
    <2> QED
      BY <1>0, <1>1, <2>2, SerialWriteStep DEF ApproveWrite
  <1>2. CASE FinalGrantWrite(r)
    <2>1. /\ status \in PendingStatuses
          /\ tx[r].cents = approvedPrice /\ tx[r].level = LevelOf(status)
      BY <1>2, GuardFacts DEF FinalGrantWrite, At, SerialInv, FreshInv
    <2>2. offer = [cents |-> approvedPrice, level |-> LevelOf(status)]
      BY <2>1 DEF SerialInv, IInv, RowInv, PendingShowsTheOffer
    <2>3. GateHonoured'
      BY <1>2, <2>1, <2>2 DEF FinalGrantWrite, GateHonoured
    <2> QED
      BY <1>0, <1>2, <2>3, SerialWriteStep DEF FinalGrantWrite
  <1>3. ASSUME status' # "approved", Finish(r)
        PROVE  SerialInv'
    BY <1>0, <1>3, SerialWriteStep DEF GateHonoured
  <1>4. CASE FinalRejectWrite(r)
    BY <1>3, <1>4 DEF FinalRejectWrite
  <1>5. CASE RejectWrite(r)
    BY <1>3, <1>5 DEF RejectWrite
  <1>6. CASE RevertWrite(r)
    BY <1>0, <1>3, <1>6 DEF RevertWrite, At, CarriesOK
  <1>7. CASE HoldWrite(r)
    BY <1>0, <1>3, <1>7, Kinds DEF HoldWrite, At, CarriesOK, HoldStatuses
  <1>8. CASE OutcomeWrite(r)
    BY <1>0, <1>3, <1>8 DEF OutcomeWrite, At, CarriesOK, OutcomeStatuses
  <1>9. CASE MlWrite(r)
    BY <1>3, <1>9 DEF MlWrite
  <1> QED
    BY <1>1, <1>2, <1>4, <1>5, <1>6, <1>7, <1>8, <1>9 DEF Write

LEMMA SerialStep == Serial /\ SerialInv /\ [Next]_vars => SerialInv'
  <1> SUFFICES ASSUME Serial, SerialInv, [Next]_vars PROVE SerialInv'
    OBVIOUS
  <1>0. IInv'
    BY StepInvariant DEF SerialInv
  <1>1. ASSUME UNCHANGED <<row, offer, grant, tx>> PROVE SerialInv'
    BY <1>0, <1>1 DEF SerialInv, FreshInv, GateHonoured, row, GuardOf, LevelOf
  <1>2. CASE Figures
    BY <1>1, <1>2 DEF Figures, Predict, TechAdjust, EditLineItems, SetThresholds, SetOneThreshold
  <1>3. ASSUME NEW r \in Req, Begin(r) PROVE SerialInv'
    BY <1>3, SerialBegin
  <1>4. ASSUME NEW r \in Req, Continue(r) PROVE SerialInv'
    BY <1>4, SerialContinue
  <1>5. ASSUME NEW r \in Req, Write(r) PROVE SerialInv'
    BY <1>5, SerialWrite
  <1>6. ASSUME NEW r \in Req, Abort(r) PROVE SerialInv'
    <2>1. GateHonoured'
      BY <1>6 DEF Abort, SerialInv, GateHonoured, row
    <2> QED
      BY <1>0, <1>6, <2>1, SerialWriteStep DEF Abort
  <1>7. CASE UNCHANGED vars
    BY <1>1, <1>7 DEF vars
  <1> QED
    BY <1>2, <1>3, <1>4, <1>5, <1>6, <1>7 DEF Next

(* The VP / CEO gate holds if requests are served one at a time: an        *)
(* approved deal stands at the price last offered, granted by the level    *)
(* that offer needed.                                                      *)
THEOREM GateHonouredSerially ==
  ASSUME Serial
  PROVE  Spec => []GateHonoured
  <1>1. Init => SerialInv
    BY InitSerial
  <1>2. SerialInv /\ [Next]_vars => SerialInv'
    BY SerialStep
  <1>3. SerialInv => GateHonoured
    BY DEF SerialInv
  <1> QED
    BY <1>1, <1>2, <1>3, PTL DEF Spec

-----------------------------------------------------------------------------
(* The desk implements the contract of the deal.                           *)
LEMMA StageFacts ==
  /\ \A s \in PendingStatuses : StageOf(s) = "offered"
  /\ \A s \in {"approved"} \cup DraftStatuses : StageOf(s) = "agreed"
  /\ \A s \in HoldStatuses : StageOf(s) = "open"
  /\ \A s \in OutcomeStatuses : StageOf(s) \in {"won", "lost"}
  /\ \A s \in CanApproveFrom : StageOf(s) \in {"open", "offered", "agreed"}
  /\ \A s \in CanRejectFrom \cup CanHoldFrom :
        s = "rejected" \/ StageOf(s) \in {"open", "offered", "agreed", "lost"}
  /\ \A s \in CanRevertFrom : StageOf(s) \in {"agreed", "dropped"}
  /\ \A s \in CanCloseFrom : StageOf(s) = "delivered"
  /\ StageOf("rejected") = "dropped" /\ StageOf("submitted") = "open"
  /\ StageOf("pending_approval") = "open" /\ StageOf("predicted") = "open"
  BY DEF StageOf, PendingStatuses, DraftStatuses, HoldStatuses, OutcomeStatuses, CanApproveFrom,
     CanRejectFrom, CanHoldFrom, CanRevertFrom, CanCloseFrom, Statuses, GatherStatuses

LEMMA StatusForStage ==
  \A l \in Levels : StageOf(StatusFor(l)) = IF l = "none" THEN "agreed" ELSE "offered"
  BY DEF StageOf, StatusFor, Levels, PendingStatuses, DraftStatuses

LEMMA InitContract == Init => Deal!Init
  <1> SUFFICES ASSUME Init PROVE Deal!Init
    OBVIOUS
  <1>1. offer.level = "none" /\ grant.level = "none"
    BY DEF Init
  <1>2. CASE status = "submitted"
    BY <1>1, <1>2, StageFacts DEF Init, Deal!Init
  <1>3. CASE status \in {"draft_ready", "sent"}
    <2>1. StageOf(status) \in {"agreed", "delivered"}
      BY <1>3 DEF StageOf, PendingStatuses, DraftStatuses
    <2> QED
      BY <1>1, <1>3, <2>1, PriceAssumption DEF Init, Deal!Init
  <1> QED
    BY <1>2, <1>3 DEF Init

(* A write of the one request is a step of the contract.                   *)
LEMMA WriteContract ==
  ASSUME Serial, SerialInv, NEW r \in Req, Write(r)
  PROVE  Deal!Next \/ UNCHANGED Deal!deal
  <1>0. CarriesOK(tx[r]) /\ tx[r] \in TxType /\ status \in GuardOf(tx[r].op)
    BY DEF SerialInv, IInv, TxInv, FreshInv, CarriesOK
  <1>1. CASE ApproveWrite(r)
    <2>1. tx[r].level \in Levels /\ tx[r].cents \in Nat /\ status \in CanApproveFrom
      BY <1>0, <1>1, GuardFacts DEF ApproveWrite, At, TxType, CarriesOK
    <2>2. /\ StageOf(status) \in {"open", "offered", "agreed"}
          /\ StageOf(status') = IF tx[r].level = "none" THEN "agreed" ELSE "offered"
      BY <1>1, <2>1, StageFacts, StatusForStage DEF ApproveWrite
    <2>3. Deal!Offer
      BY <1>1, <2>1, <2>2 DEF ApproveWrite, Deal!Offer, Deal!Signatories, Levels
    <2> QED
      BY <2>3 DEF Deal!Next
  <1>2. CASE FinalGrantWrite(r)
    <2>1. status \in PendingStatuses /\ tx[r].level = LevelOf(status)
      BY <1>2, GuardFacts DEF FinalGrantWrite, At, SerialInv, FreshInv
    <2>2. offer.level = LevelOf(status)
      BY <2>1 DEF SerialInv, IInv, RowInv, PendingShowsTheOffer
    <2>3. Deal!Sign
      BY <1>2, <2>1, <2>2, StageFacts DEF FinalGrantWrite, Deal!Sign
    <2> QED
      BY <2>3 DEF Deal!Next
  <1>3. CASE FinalRejectWrite(r)
    <2>1. Deal!Refuse
      BY <1>0, <1>3, GuardFacts, StageFacts DEF FinalRejectWrite, At, Deal!Refuse
    <2> QED
      BY <2>1 DEF Deal!Next
  <1>4. CASE RejectWrite(r)
    <2>1. status \in CanRejectFrom /\ status # "rejected"
      BY <1>0, <1>4, GuardFacts DEF RejectWrite, At, CanRejectFrom
    <2>2. Deal!Drop
      BY <1>4, <2>1, StageFacts DEF RejectWrite, Deal!Drop
    <2> QED
      BY <2>2 DEF Deal!Next
  <1>5. CASE RevertWrite(r)
    <2>1. StageOf(status') = "open" /\ status \in CanRevertFrom
      BY <1>0, <1>5, GuardFacts, StageFacts DEF RevertWrite, At, CarriesOK
    <2>2. Deal!Reopen
      BY <1>5, <2>1, StageFacts DEF RevertWrite, Deal!Reopen
    <2> QED
      BY <2>2 DEF Deal!Next
  <1>6. CASE HoldWrite(r)
    <2>1. StageOf(status') = "open" /\ status \in CanHoldFrom /\ status # "rejected"
      BY <1>0, <1>6, GuardFacts, StageFacts DEF HoldWrite, At, CarriesOK, CanHoldFrom
    <2>2. Deal!Hold
      BY <1>6, <2>1, StageFacts DEF HoldWrite, Deal!Hold
    <2> QED
      BY <2>2 DEF Deal!Next
  <1>7. CASE OutcomeWrite(r)
    <2>1. StageOf(status') \in {"won", "lost"} /\ status \in CanCloseFrom
      BY <1>0, <1>7, GuardFacts, StageFacts DEF OutcomeWrite, At, CarriesOK
    <2>2. Deal!Close
      BY <1>7, <2>1, StageFacts DEF OutcomeWrite, Deal!Close
    <2> QED
      BY <2>2 DEF Deal!Next
  <1>8. CASE MlWrite(r)
    <2>1. Deal!Recall
      BY <1>8, StageFacts DEF MlWrite, Deal!Recall
    <2> QED
      BY <2>1 DEF Deal!Next
  <1> QED
    BY <1>1, <1>2, <1>3, <1>4, <1>5, <1>6, <1>7, <1>8 DEF Write

LEMMA StepContract ==
  ASSUME Serial, SerialInv, [Next]_vars
  PROVE  [Deal!Next]_(Deal!deal)
  <1>1. ASSUME UNCHANGED <<row, offer, grant>> PROVE UNCHANGED Deal!deal
    BY <1>1 DEF row, Deal!deal
  <1>2. ASSUME NEW r \in Req, Begin(r) \/ Continue(r) \/ Abort(r) PROVE UNCHANGED Deal!deal
    BY <1>1, <1>2 DEF Begin, Continue, Abort, ApproveBegin, FinalBegin, RejectBegin, RevertBegin,
       HoldBegin, OutcomeBegin, MlBegin, MlRerun, ApproveResolve, ApproveGate
  <1>3. CASE Figures
    BY <1>1, <1>3 DEF Figures, Predict, TechAdjust, EditLineItems, SetThresholds, SetOneThreshold
  <1>4. ASSUME NEW r \in Req, Write(r) PROVE [Deal!Next]_(Deal!deal)
    BY <1>4, WriteContract
  <1>5. CASE UNCHANGED vars
    BY <1>1, <1>5 DEF vars
  <1> QED
    BY <1>2, <1>3, <1>4, <1>5 DEF Next

(* When requests are served one at a time the desk keeps the contract of   *)
(* the deal, whatever the prices, the thresholds and the line items.       *)
THEOREM ContractSerially ==
  ASSUME Serial
  PROVE  Spec => KeepsContract
  <1>1. Init => SerialInv /\ Deal!Init
    BY InitSerial, InitContract
  <1>2. SerialInv /\ [Next]_vars => SerialInv'
    BY SerialStep
  <1>3. SerialInv /\ [Next]_vars => [Deal!Next]_(Deal!deal)
    BY StepContract
  <1> QED
    BY <1>1, <1>2, <1>3, PTL DEF Spec, KeepsContract, Deal!Spec
-----------------------------------------------------------------------------
(* The price focus of an opportunity's page, for any people at it, any     *)
(* thresholds, prices and extras.  The statuses are written out once.      *)
StatusDefs == Statuses = {"ingesting", "issued", "in_progress",
  "pending_vp_approval", "pending_ceo_approval", "returned_to_sales",
  "awaiting_clarification", "escalated", "drafting", "draft_ready", "closed",
  "lost", "submitted", "predicted", "pending_approval", "approved", "sent",
  "rejected", "expired"}

LEMMA StatusList == StatusDefs
BY DEF StatusDefs, Statuses, GatherStatuses, PendingStatuses, HoldStatuses,
       DraftStatuses, OutcomeStatuses

-----------------------------------------------------------------------------
(* Where the deal can be while the page is used, and in which of these      *)
(* statuses the last approval still counts.                                 *)
PageStatuses ==
  {"predicted", "pending_approval", "approved", "rejected", "sent"}
    \cup PendingStatuses \cup HoldStatuses \cup DraftStatuses \cup OutcomeStatuses

Agreeing == PendingStatuses \cup ReapprovableStatuses

(* An agreement that does not know the extras of now is marked as moved.    *)
DealTold ==
  /\ dealSt \in PageStatuses
  /\ dealSt \in Agreeing /\ folded # items => moved

LEMMA GateStatuses == ASSUME NEW n PROVE GateFor(n) \in PendingStatuses \cup {"approved"}
BY DEF GateFor, PendingStatuses

(* What the requests of a page carry.                                       *)
LEMMA OfferFields ==
  ASSUME NEW page, NEW role, NEW r \in OfferedOn(page, role)
  PROVE  /\ r.op \notin {"none", "read"}
         /\ r.op = "hold" => r.to \in HoldStatuses
         /\ r.op = "outcome" => r.to \in OutcomeStatuses
         /\ r.op = "approve" => r \in Approvals(page)
<1> DEFINE P == /\ r.op \notin {"none", "read"}
                /\ r.op = "hold" => r.to \in HoldStatuses
                /\ r.op = "outcome" => r.to \in OutcomeStatuses
                /\ r.op = "approve" => r \in Approvals(page)
<1>1. ASSUME r \in Approvals(page) PROVE P
  BY <1>1 DEF Approvals
<1>2. ASSUME r \in ApprovalActions(page, role) PROVE P
  BY <1>1, <1>2 DEF ApprovalActions
<1>3. ASSUME r \in FinalActions(page, role) PROVE P
  BY <1>3 DEF FinalActions
<1>4. ASSUME r \in HoldActions(page, role) PROVE P
  BY <1>4 DEF HoldActions
<1>5. ASSUME r \in OutcomeActions(page, role) PROVE P
  BY <1>5 DEF OutcomeActions
<1>6. ASSUME r \in LineItemActions(page, role) PROVE P
  BY <1>6 DEF LineItemActions
<1> QED BY <1>2, <1>3, <1>4, <1>5, <1>6 DEF OfferedOn

(* The amount on an approval's button: of the page it stands on.            *)
LEMMA ApprovalFields ==
  ASSUME NEW page, NEW r \in Approvals(page)
  PROVE  /\ r.op = "approve" /\ r.pred = page.pred /\ r.choice \in {"tier", "tech", "custom"}
         /\ r.choice = "tier" => r.sees = TierShown(page)
         /\ r.choice = "tech" => r.sees = page.quote.lodged.cents
BY DEF Approvals

(* A page waits with the request its reader pressed on what it still shows, *)
(* or reads, keeping what it has read so far.                               *)
Pressed ==
  /\ task = [v \in Readers |-> task[v]]
  /\ shown = [v \in Readers |-> shown[v]]
  /\ \A v \in Readers : task[v].op \notin {"none", "read"} =>
       task[v] \in OfferedOn(shown[v], cast[v])
  /\ \A v \in Readers : task[v].op = "read" => DOMAIN task[v] = {"op", "left", "got"}

LEMMA PressedStep ==
  ASSUME Pressed, [DealNext]_pageVars
  PROVE  Pressed'
<1>r. Resting.op = "none"
  BY DEF Resting
<1>1. ASSUME NEW v \in Readers, NEW t, task' = [task EXCEPT ![v] = t],
             UNCHANGED <<cast, shown>>,
             t.op \notin {"none", "read"} => t \in OfferedOn(shown[v], cast[v]),
             t.op = "read" => DOMAIN t = {"op", "left", "got"}
      PROVE  Pressed'
  <2>1. /\ task' = [u \in Readers |-> IF u = v THEN t ELSE task[u]]
        /\ task'[v] = t /\ \A u \in Readers \ {v} : task'[u] = task[u]
    BY <1>1 DEF Pressed
  <2>2. task' = [u \in Readers |-> task'[u]]
    BY <2>1
  <2> QED BY <1>1, <2>1, <2>2 DEF Pressed
<1>2. ASSUME NEW v \in Readers, NEW r \in OfferedOn(shown[v], cast[v]), PressButton(v, r)
      PROVE  Pressed'
  BY <1>2, <1>1, OfferFields DEF PressButton
<1>3. ASSUME NEW v \in Readers, ServeDeal(v) PROVE Pressed'
  <2> DEFINE g == IF task[v].op = "predict" THEN [shown[v] EXCEPT !.pred = dealPreds'] ELSE shown[v]
             t == [op |-> "read", left |-> Reread(task[v]), got |-> g]
  <2>1. UNCHANGED <<cast, shown>>
    BY <1>3 DEF ServeDeal
  <2>2. task' = [task EXCEPT ![v] = t] \/ task' = [task EXCEPT ![v] = Resting]
    BY <1>3 DEF ServeDeal
  <2> HIDE DEF g
  <2>3. t.op = "read" /\ DOMAIN t = {"op", "left", "got"}
    OBVIOUS
  <2> HIDE DEF t
  <2> QED BY <2>1, <2>2, <2>3, <1>1, <1>r
<1>4. ASSUME NEW v \in Readers, Reload(v) PROVE Pressed'
  <2> DEFINE t == [op |-> "read", left |-> Everything, got |-> shown[v]]
  <2>1. t.op = "read" /\ DOMAIN t = {"op", "left", "got"}
    OBVIOUS
  <2>2. task' = [task EXCEPT ![v] = t] /\ UNCHANGED <<cast, shown>>
    BY <1>4 DEF Reload
  <2> HIDE DEF t
  <2> QED BY <2>1, <2>2, <1>1
<1>5. ASSUME NEW v \in Readers, NEW part, ReadPart(v, part) PROVE Pressed'
  <2> DEFINE got == [k \in DOMAIN Now |-> IF k \in part THEN Now[k] ELSE task[v].got[k]]
             t == [[task[v] EXCEPT !.left = @ \ {part}] EXCEPT !.got = got]
  <2>1. task[v].op = "read" /\ DOMAIN task[v] = {"op", "left", "got"}
    BY <1>5 DEF ReadPart, Pressed
  <2>2. CASE task[v].left = {part}
    <3>1. /\ shown' = [shown EXCEPT ![v] = got]
          /\ task' = [task EXCEPT ![v] = Resting] /\ UNCHANGED cast
      BY <1>5, <2>2 DEF ReadPart
    <3> HIDE DEF got
    <3>2. /\ task' = [u \in Readers |-> IF u = v THEN Resting ELSE task[u]]
          /\ shown' = [u \in Readers |-> IF u = v THEN got ELSE shown[u]]
      BY <3>1 DEF Pressed
    <3>3. task' = [u \in Readers |-> task'[u]] /\ shown' = [u \in Readers |-> shown'[u]]
      BY <3>2
    <3>4. task'[v] = Resting /\ \A u \in Readers \ {v} : task'[u] = task[u] /\ shown'[u] = shown[u]
      BY <3>2
    <3> QED BY <3>1, <3>3, <3>4, <1>r DEF Pressed
  <2>3. CASE task[v].left # {part}
    <3>1. /\ task' = [task EXCEPT ![v].left = @ \ {part}, ![v].got = got]
          /\ UNCHANGED <<cast, shown>>
      BY <1>5, <2>3 DEF ReadPart
    <3> HIDE DEF got
    <3>3. task' = [task EXCEPT ![v] = t]
      BY <3>1 DEF Pressed
    <3>2. t.op = "read" /\ DOMAIN t = {"op", "left", "got"}
      BY <2>1
    <3> HIDE DEF t
    <3> QED BY <3>1, <3>2, <3>3, <1>1
  <2> QED BY <2>2, <2>3
<1>6. CASE ProposalMoves \/ UNCHANGED pageVars
  BY <1>6 DEF ProposalMoves, pageVars, Pressed
<1> QED BY <1>2, <1>3, <1>4, <1>5, <1>6 DEF DealNext

LEMMA EffectTells ==
  ASSUME DealTold, NEW page, NEW role, NEW r \in OfferedOn(page, role),
         Accepts(r, role), Effect(r)
  PROVE  DealTold'
<1>1. /\ r.op = "hold" => r.to \in HoldStatuses
      /\ r.op = "outcome" => r.to \in OutcomeStatuses
  BY OfferFields
<1>s. /\ PendingStatuses \cup {"approved"} \subseteq PageStatuses
      /\ HoldStatuses \cup OutcomeStatuses \cup {"approved", "rejected", "pending_approval"}
           \subseteq PageStatuses
      /\ (HoldStatuses \cup OutcomeStatuses \cup {"rejected", "pending_approval"}) \cap Agreeing = {}
  BY DEF PageStatuses, Agreeing, PendingStatuses, HoldStatuses, OutcomeStatuses,
     ReapprovableStatuses, DraftStatuses
<1>2. CASE r.op = "approve"
  <2>1. dealSt' \in PendingStatuses \cup {"approved"} /\ folded' = items'
    BY <1>2, GateStatuses DEF Effect
  <2> QED BY <2>1, <1>s DEF DealTold
<1>3. CASE r.op = "sign"
  <2>1. /\ dealSt \in PendingStatuses /\ dealSt' = "approved"
        /\ UNCHANGED <<items, moved, folded>>
    BY <1>3 DEF Effect, Enter, Accepts
  <2> QED BY <2>1, <1>s DEF DealTold, Agreeing
<1>4. CASE r.op \in {"reject", "refuse", "revert", "hold", "outcome"}
  <2>1. dealSt' \in HoldStatuses \cup OutcomeStatuses \cup {"rejected", "pending_approval"}
    BY <1>1, <1>4 DEF Effect, Enter, WithoutPrice
  <2> QED BY <2>1, <1>s DEF DealTold
<1>5. CASE r.op \in {"predict", "lodge"}
  BY <1>5 DEF Effect, DealTold
<1>6. CASE r.op \in {"add", "remove"}
  <2>1. UNCHANGED dealSt /\ moved'
    BY <1>6 DEF Effect, Itemise
  <2> QED BY <2>1 DEF DealTold
<1> QED BY <1>2, <1>3, <1>4, <1>5, <1>6 DEF Effect

LEMMA DealToldStep ==
  ASSUME DealTold, Pressed, [DealNext]_pageVars
  PROVE  DealTold'
<1>k. UNCHANGED deal => DealTold'
  BY DEF deal, DealTold
<1>1. ASSUME NEW v \in Readers, NEW r \in OfferedOn(shown[v], cast[v]), PressButton(v, r)
      PROVE  DealTold'
  BY <1>1, <1>k DEF PressButton
<1>2. ASSUME NEW v \in Readers, ServeDeal(v) PROVE DealTold'
  <2>1. task[v] \in OfferedOn(shown[v], cast[v])
    BY <1>2 DEF ServeDeal, Pressed
  <2>2. UNCHANGED deal \/ (Accepts(task[v], cast[v]) /\ Effect(task[v]))
    BY <1>2 DEF ServeDeal
  <2> QED BY <2>1, <2>2, <1>k, EffectTells
<1>3. ASSUME NEW v \in Readers, NEW part, Reload(v) \/ ReadPart(v, part) PROVE DealTold'
  BY <1>3, <1>k DEF Reload, ReadPart
<1>4. CASE ProposalMoves
  <2>1. /\ UNCHANGED <<items, moved, folded>>
        /\ dealSt \in {"approved", "drafting", "draft_ready"}
        /\ dealSt' \in {"drafting", "draft_ready", "sent"}
    BY <1>4 DEF ProposalMoves
  <2>2. dealSt \in Agreeing /\ dealSt' \in PageStatuses
    BY <2>1 DEF Agreeing, ReapprovableStatuses, DraftStatuses, PageStatuses
  <2> QED BY <2>1, <2>2 DEF DealTold
<1>5. CASE UNCHANGED pageVars
  BY <1>5, <1>k DEF pageVars
<1> QED BY <1>1, <1>2, <1>3, <1>4, <1>5 DEF DealNext

(* Both hold in every state, whatever is pressed on pages however old.      *)
THEOREM DealInvariants == DealSpec => [](DealTold /\ Pressed)
<1>1. DealInit => DealTold /\ Pressed
  <2> SUFFICES ASSUME DealInit PROVE DealTold /\ Pressed
    OBVIOUS
  <2>1. DealTold
    BY DEF DealInit, DealTold, PageStatuses
  <2>2. task = [v \in Readers |-> task[v]] /\ \A v \in Readers : task[v].op = "none"
    BY DEF DealInit, Resting
  <2>3. shown = [v \in Readers |-> shown[v]]
    BY DEF DealInit
  <2> QED BY <2>1, <2>2, <2>3 DEF Pressed
<1>2. DealTold /\ Pressed /\ [DealNext]_pageVars => (DealTold /\ Pressed)'
  BY DealToldStep, PressedStep
<1> QED BY <1>1, <1>2, PTL DEF DealSpec

-----------------------------------------------------------------------------
(* What the page offers and what the server accepts, role by role and       *)
(* status by status: the two lists are kept apart in the code.              *)
LEMMA OffersAccepted ==
  ASSUME DealTold, NEW role \in DeskRoles, NEW r \in OfferedOn(Now, role)
  PROVE  Accepts(r, role) \/ NeverAccepted(r, role)
<1>n. /\ Now.eng.status = dealSt /\ Now.eng.moved = moved /\ Now.pred = dealPreds
      /\ Now.quote.lodged = lodged /\ Now.lines = items
  BY DEF Now
<1>s. dealSt \in {"predicted", "pending_approval", "approved", "rejected", "sent",
                  "pending_vp_approval", "pending_ceo_approval", "returned_to_sales",
                  "awaiting_clarification", "escalated", "drafting", "draft_ready",
                  "closed", "lost"}
  BY DEF DealTold, PageStatuses, PendingStatuses, HoldStatuses, DraftStatuses, OutcomeStatuses
<1>u. ~DecisionMade(Now) => dealSt \notin {"rejected", "sent", "closed", "lost"}
  BY <1>n DEF DecisionMade, PricingStale, ReapprovableStatuses, ApprovedStatuses,
     DraftStatuses, OutcomeStatuses
<1>1. CASE r \in Approvals(Now) /\ role \in {"admin", "sales_manager"} /\ ~DecisionMade(Now)
  <2>1. r.op = "approve" /\ (r.choice = "tech" => lodged.cents # NoCents /\ lodged.pred = r.pred)
    BY <1>1, <1>n DEF Approvals, TechAdjustedFresh
  <2>2. dealSt \in CanApproveFrom
    BY <1>1, <1>s, <1>u, StatusList DEF StatusDefs, CanApproveFrom
  <2> QED BY <1>1, <2>1, <2>2 DEF Accepts, RolesFor
<1>2. CASE r = [op |-> "reject"] /\ role \in {"admin", "sales_manager"} /\ ~DecisionMade(Now)
  <2>1. dealSt \in CanRejectFrom
    BY <1>2, <1>s, <1>u, StatusList DEF StatusDefs, CanRejectFrom
  <2> QED BY <1>2, <2>1 DEF Accepts, RolesFor
<1>3. CASE r = [op |-> "revert"] /\ role = "admin" /\ DecisionMade(Now)
  <2>1. dealSt \in CanRevertFrom \/ dealSt \in {"sent"} \cup OutcomeStatuses
    BY <1>3, <1>n DEF DecisionMade, ApprovedStatuses, CanRevertFrom
  <2> QED BY <1>3, <2>1 DEF Accepts, RolesFor, NeverAccepted
<1>4. CASE r.op = "lodge" /\ role = "tech_team"
  BY <1>4 DEF Accepts, RolesFor
<1>5. CASE r = [op |-> "predict"] /\ role # "tech_team"
  <2>1. role \in {"admin", "sales_manager", "sales_employee"} \/ role \in {"vp_sales", "ceo"}
    BY <1>5 DEF DeskRoles
  <2> QED BY <1>5, <2>1 DEF Accepts, RolesFor, NeverAccepted
<1>6. CASE r \in FinalActions(Now, role)
  <2>1. r.op \in {"sign", "refuse"} /\ dealSt \in PendingStatuses /\ MaySign(role, dealSt)
    BY <1>6, <1>n DEF FinalActions
  <2> QED BY <2>1 DEF Accepts, RolesFor, MaySign
<1>7. CASE r \in HoldActions(Now, role)
  <2>1. /\ r.op = "hold" /\ r.to \in HoldStatuses /\ role \in {"admin", "sales_manager", "tech_team"}
        /\ dealSt \in {"submitted", "pending_approval", "predicted"}
    BY <1>7, <1>n DEF HoldActions, ReviewableStatuses
  <2>2. dealSt \in CanHoldFrom \ {r.to}
    BY <2>1, StatusList DEF StatusDefs, CanHoldFrom, HoldStatuses
  <2> QED BY <2>1, <2>2 DEF Accepts, RolesFor
<1>8. CASE r \in OutcomeActions(Now, role)
  <2>1. r.op = "outcome" /\ dealSt = "sent" /\ role \in {"admin", "sales_manager", "sales_employee"}
    BY <1>8, <1>n DEF OutcomeActions
  <2> QED BY <2>1 DEF Accepts, RolesFor, CanCloseFrom
<1>9. CASE r \in LineItemActions(Now, role)
  <2>1. /\ r.op \in {"add", "remove"} /\ role \in {"admin", "sales_manager", "tech_team"}
        /\ r.op = "remove" => r.amount \in items
    BY <1>9, <1>n DEF LineItemActions
  <2> QED BY <2>1 DEF Accepts, RolesFor
<1>10. CASE r \in ApprovalActions(Now, role)
  BY <1>10, <1>1, <1>2, <1>3, <1>4, <1>5 DEF ApprovalActions
<1> QED BY <1>6, <1>7, <1>8, <1>9, <1>10 DEF OfferedOn

(* A page that is up to date offers what the server accepts -- but for the  *)
(* two buttons NeverAccepted names -- and shows an approval that extras     *)
(* overtook as one to be given again.                                       *)
THEOREM OffersHonest == DealSpec => []OffersAreHonest
<1>1. DealTold => OffersAreHonest
  <2> SUFFICES ASSUME DealTold PROVE OffersAreHonest
    OBVIOUS
  <2>1. ASSUME dealSt \in ReapprovableStatuses, folded # items PROVE PricingStale(Now)
    BY <2>1 DEF DealTold, Agreeing, PricingStale, Now
  <2> QED BY <2>1, OffersAccepted DEF OffersAreHonest
<1> QED BY <1>1, DealInvariants, PTL

(* Whoever pressed, on however old a page, with whatever predictions since: *)
(* what is agreed is the price of the button, unless the extras or the      *)
(* lodged price it stood on were edited meanwhile.                          *)
THEOREM ApprovedIsShown == DealSpec => ApprovedAsShown
<1> DEFINE AsShown ==
      \A v \in Readers : ServeDeal(v) /\ task[v].op = "approve" /\ Accepts(task[v], cast[v]) =>
        \/ agreed' = task[v].sees
        \/ task[v].choice = "tier" /\ items # shown[v].lines
        \/ task[v].choice = "tech" /\ lodged # shown[v].quote.lodged
<1>1. Pressed => [AsShown]_pageVars
  <2> SUFFICES ASSUME Pressed, NEW v \in Readers, ServeDeal(v), task[v].op = "approve",
                      Accepts(task[v], cast[v])
               PROVE  \/ agreed' = task[v].sees
                      \/ task[v].choice = "tier" /\ items # shown[v].lines
                      \/ task[v].choice = "tech" /\ lodged # shown[v].quote.lodged
    OBVIOUS
  <2>1. task[v] \in Approvals(shown[v])
    BY OfferFields DEF Pressed
  <2>2. agreed' = AgreedPrice(task[v])
    BY DEF ServeDeal, Effect
  <2>3. CASE task[v].choice = "tier"
    BY <2>1, <2>2, <2>3, ApprovalFields DEF AgreedPrice, TierShown
  <2>4. CASE task[v].choice = "tech"
    BY <2>1, <2>2, <2>4, ApprovalFields DEF AgreedPrice
  <2>5. CASE task[v].choice = "custom"
    BY <2>2, <2>5 DEF AgreedPrice
  <2> QED BY <2>1, <2>3, <2>4, <2>5, ApprovalFields
<1> QED BY <1>1, DealInvariants, PTL DEF ApprovedAsShown
=============================================================================
