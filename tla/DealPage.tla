------------------------------ MODULE DealPage ------------------------------
(***************************************************************************)
(* The price focus of an opportunity's page, open with several people at   *)
(* once, over the endpoints behind it (opportunities/[id]/page.tsx,        *)
(* approval-card.tsx, final-approval-card.tsx, reviewer-panels.tsx,        *)
(* deal-outcome-card.tsx, stage.ts): what each page shows, which buttons   *)
(* that offers its reader, what a press sends, and how the page reads the  *)
(* opportunity again, one GET after another, while others go on.           *)
(*                                                                         *)
(* A handler is one step here; how handlers interleave is module Approval, *)
(* what drafting and sending do is module ProposalDelivery.                *)
(***************************************************************************)
EXTENDS Integers, Sequences, FiniteSets, EngagementStatuses

SetsExt == INSTANCE FiniteSetsExt

CONSTANTS Readers,        \* people with the page open
          Casts,          \* who may they be: functions from Readers to a role
          TierPrices,     \* the price of the first, second... prediction
          Typed,          \* prices a person may type in
          ItemAmounts,    \* amounts of pricing extras (discounts < 0)
          VpAbove, CeoAbove, \* the tenant's approval thresholds
          MaxOps,         \* bound: presses of a behaviour
          NoCents

ASSUME DealPageAssumption == /\ TierPrices \in Seq(Nat) /\ TierPrices # <<>>
                             /\ Typed \subseteq Nat /\ ItemAmounts \subseteq Int
                             /\ VpAbove \in Nat /\ CeoAbove \in Nat /\ NoCents \notin Int

VARIABLES cast,    \* the role of each reader
          dealSt,  \* engagements.status
          dealPreds,   \* how many predictions the opportunity has
          lodged,  \* the tech team's price and the prediction it is bound to
          items,   \* amounts of the live line items
          agreed,  \* approved_price_cents
          moved,   \* the thread's last line-item event is after its last approval
          folded,  \* history: the extras the last approval knew
          shown,   \* each page: what its four reads returned last
          task,    \* each page: the operation or refresh in flight
          ops
deal == <<dealSt, dealPreds, lodged, items, agreed, moved, folded>>
pageVars == <<cast, deal, shown, task, ops>>

-----------------------------------------------------------------------------
AtLeastNil(n) == IF n < 0 THEN 0 ELSE n
NotLodged == [cents |-> NoCents, pred |-> 0]

(* What each of the page's GETs answers.                                   *)
Now == [eng |-> [status |-> dealSt, moved |-> moved], pred |-> dealPreds,
        quote |-> [lodged |-> lodged, agreed |-> agreed], lines |-> items]
DeskRoles == {"admin", "sales_manager", "sales_employee", "tech_team", "vp_sales", "ceo"}
Resting == [op |-> "none"]

DealInit ==
  /\ cast \in Casts
  /\ dealSt = "predicted" /\ dealPreds = 1
  /\ lodged = NotLodged /\ items = {} /\ agreed = NoCents
  /\ moved = FALSE /\ folded = {}
  /\ shown = [v \in Readers |-> Now] /\ task = [v \in Readers |-> Resting]
  /\ ops = 0

-----------------------------------------------------------------------------
(* What a page offers.                                                     *)
ApprovedStatuses == {"approved", "sent"} \cup DraftStatuses \cup OutcomeStatuses
(* The mistake the next definition avoids: the prompt in every status the  *)
(* page calls approved.                                                    *)
ReapprovableStatuses_AllApproved == ApprovedStatuses
ReapprovableStatuses == {"approved"} \cup DraftStatuses
ReviewableStatuses == {"submitted", "pending_approval", "predicted"}

(* pricingChangedSinceApproval: the prompt to approve again.               *)
PricingStale(page) == page.eng.moved /\ page.eng.status \in ReapprovableStatuses

DecisionMade(page) ==
  /\ page.eng.status \in ApprovedStatuses \cup {"rejected"}
  /\ ~PricingStale(page)

TechAdjustedFresh(page) == page.quote.lodged.cents # NoCents /\ page.quote.lodged.pred = page.pred

(* The tiers, with the extras folded in, then the tech team's price as it  *)
(* is and a typed one; each carries the amount on its button.              *)
TierShown(page) == AtLeastNil(TierPrices[page.pred] + SetsExt!SumSet(page.lines))
Approvals(page) ==
  {[op |-> "approve", choice |-> "tier", pred |-> page.pred, sees |-> TierShown(page)]}
    \cup {[op |-> "approve", choice |-> "custom", pred |-> page.pred, sees |-> n] : n \in Typed}
    \cup (IF TechAdjustedFresh(page)
          THEN {[op |-> "approve", choice |-> "tech", pred |-> page.pred, sees |-> page.quote.lodged.cents]}
          ELSE {})

ApprovalActions(page, role) ==
  (IF role \in {"admin", "sales_manager"} /\ ~DecisionMade(page)
   THEN Approvals(page) \cup {[op |-> "reject"]} ELSE {})
  \cup (IF role = "admin" /\ DecisionMade(page) THEN {[op |-> "revert"]} ELSE {})
  \cup (IF role = "tech_team" /\ ~DecisionMade(page)
        THEN {[op |-> "lodge", pred |-> page.pred, cents |-> n] : n \in Typed} ELSE {})
  \cup (IF role # "tech_team" THEN {[op |-> "predict"]} ELSE {})

(* FinalApprovalCard: level from the status on the page.                   *)
MaySign(role, st) == \/ role \in {"admin", "ceo"}
                     \/ st = "pending_vp_approval" /\ role = "vp_sales"
FinalActions(page, role) ==
  IF page.eng.status \in PendingStatuses /\ MaySign(role, page.eng.status)
  THEN {[op |-> "sign", sees |-> page.quote.agreed], [op |-> "refuse"]} ELSE {}

(* ReviewerHoldActions: shown on a hold as well, but then disabled.        *)
HoldActions(page, role) ==
  IF role \in {"admin", "sales_manager", "tech_team"} /\ page.eng.status \in ReviewableStatuses
  THEN {[op |-> "hold", to |-> st] : st \in HoldStatuses} ELSE {}

OutcomeActions(page, role) ==
  IF page.eng.status = "sent" /\ role \in {"admin", "sales_manager", "sales_employee"}
  THEN {[op |-> "outcome", to |-> st] : st \in OutcomeStatuses} ELSE {}

LineItemActions(page, role) ==
  IF role \in {"admin", "sales_manager", "tech_team"}
  THEN {[op |-> "add", amount |-> n] : n \in ItemAmounts \ page.lines}
         \cup {[op |-> "remove", amount |-> n] : n \in page.lines}
  ELSE {}

OfferedOn(page, role) ==
  ApprovalActions(page, role) \cup FinalActions(page, role) \cup HoldActions(page, role)
    \cup OutcomeActions(page, role) \cup LineItemActions(page, role)

-----------------------------------------------------------------------------
(* What the server answers: the role guard, then the handler's.            *)
RolesFor(r) == CASE r.op \in {"approve", "reject"} -> {"admin", "sales_manager"}
                [] r.op = "revert" -> {"admin"}
                [] r.op = "lodge" -> {"admin", "tech_team"}
                [] r.op \in {"predict", "outcome"} -> {"admin", "sales_manager", "sales_employee"}
                [] r.op \in {"sign", "refuse"} -> {"admin", "vp_sales", "ceo"}
                [] OTHER -> {"admin", "sales_manager", "tech_team"}

Accepts(r, role) ==
  /\ role \in RolesFor(r)
  /\ CASE r.op = "approve" -> /\ dealSt \in CanApproveFrom
                              /\ r.choice = "tech" => lodged.cents # NoCents /\ lodged.pred = r.pred
       [] r.op = "reject" -> dealSt \in CanRejectFrom
       [] r.op = "revert" -> dealSt \in CanRevertFrom
       [] r.op \in {"sign", "refuse"} -> dealSt \in PendingStatuses /\ MaySign(role, dealSt)
       [] r.op = "hold" -> dealSt \in CanHoldFrom \ {r.to}
       [] r.op = "outcome" -> dealSt \in CanCloseFrom
       [] r.op = "remove" -> r.amount \in items
       [] OTHER -> TRUE

(* The mistake the next definition avoids: the tier of the newest          *)
(* prediction, not of the one the request names.                           *)
AgreedPrice_Newest(r) ==
  CASE r.choice = "tier" -> AtLeastNil(TierPrices[dealPreds] + SetsExt!SumSet(items))
    [] r.choice = "tech" -> lodged.cents
    [] OTHER -> r.sees

(* The named prediction's tier with the line items of now, the lodged      *)
(* price of now, or the typed one.                                         *)
AgreedPrice(r) ==
  CASE r.choice = "tier" -> AtLeastNil(TierPrices[r.pred] + SetsExt!SumSet(items))
    [] r.choice = "tech" -> lodged.cents
    [] OTHER -> r.sees

GateFor(cents) == IF cents > CeoAbove THEN "pending_ceo_approval"
                  ELSE IF cents > VpAbove THEN "pending_vp_approval" ELSE "approved"

Enter(st) == dealSt' = st /\ UNCHANGED <<dealPreds, lodged, items, agreed, moved, folded>>
WithoutPrice(st) == /\ dealSt' = st /\ agreed' = NoCents
                    /\ UNCHANGED <<dealPreds, lodged, items, moved, folded>>
Itemise(amounts) == /\ items' = amounts /\ moved' = TRUE
                    /\ UNCHANGED <<dealSt, dealPreds, lodged, agreed, folded>>

Effect(r) ==
  \/ /\ r.op = "approve" /\ agreed' = AgreedPrice(r) /\ dealSt' = GateFor(AgreedPrice(r))
     /\ moved' = FALSE /\ folded' = items
     /\ UNCHANGED <<dealPreds, lodged, items>>
  \/ r.op = "reject" /\ Enter("rejected")
  \/ r.op = "sign" /\ Enter("approved")
  \/ r.op = "refuse" /\ WithoutPrice("rejected")
  \/ r.op = "revert" /\ WithoutPrice("pending_approval")
  \/ r.op \in {"hold", "outcome"} /\ Enter(r.to)
  \/ /\ r.op = "predict" /\ dealPreds' = dealPreds + 1
     /\ UNCHANGED <<dealSt, lodged, items, agreed, moved, folded>>
  \/ /\ r.op = "lodge" /\ lodged' = [cents |-> r.cents, pred |-> r.pred]
     /\ UNCHANGED <<dealSt, dealPreds, items, agreed, moved, folded>>
  \/ r.op = "add" /\ Itemise(items \cup {r.amount})
  \/ r.op = "remove" /\ Itemise(items \ {r.amount})

-----------------------------------------------------------------------------
(* A press sends what the page shows; the page waits for the answer.       *)
PressButton(v, r) ==
  /\ ops < MaxOps /\ ops' = ops + 1
  /\ task[v] = Resting
  /\ r \in OfferedOn(shown[v], cast[v])
  /\ r.op = "predict" => dealPreds < Len(TierPrices)
  /\ task' = [task EXCEPT ![v] = r]
  /\ UNCHANGED <<cast, deal, shown>>

(* Which reads follow: runPredict asks for the opportunity and the quote,  *)
(* and has the prediction in its answer; everything else asks for all.     *)
(* The two GETs on the quote are taken as one.                             *)
Everything == {{"eng"}, {"pred"}, {"quote", "lines"}}
Reread(r) == IF r.op = "predict" THEN {{"eng"}, {"quote"}} ELSE Everything

(* A refusal shows a banner and reads nothing again.                       *)
ServeDeal(v) ==
  LET r == task[v] IN
  /\ r.op \notin {"none", "read"}
  /\ \/ /\ Accepts(r, cast[v])
        /\ r.op = "predict" => dealPreds < Len(TierPrices)
        /\ Effect(r)
        /\ task' = [task EXCEPT ![v] = [op |-> "read", left |-> Reread(r),
                      got |-> IF r.op = "predict" THEN [shown[v] EXCEPT !.pred = dealPreds'] ELSE shown[v]]]
     \/ /\ ~Accepts(r, cast[v]) /\ UNCHANGED deal
        /\ task' = [task EXCEPT ![v] = Resting]
  /\ UNCHANGED <<cast, shown, ops>>

(* The reads of one refresh end in any order and show together.            *)
ReadPart(v, part) ==
  /\ task[v].op = "read" /\ part \in task[v].left
  /\ LET got == [k \in DOMAIN Now |-> IF k \in part THEN Now[k] ELSE task[v].got[k]] IN
     IF task[v].left = {part}
     THEN shown' = [shown EXCEPT ![v] = got] /\ task' = [task EXCEPT ![v] = Resting]
     ELSE task' = [task EXCEPT ![v].left = @ \ {part}, ![v].got = got] /\ UNCHANGED shown
  /\ UNCHANGED <<cast, deal, ops>>

Reload(v) ==
  /\ task[v] = Resting /\ shown[v] # Now
  /\ ops < MaxOps /\ ops' = ops + 1
  /\ task' = [task EXCEPT ![v] = [op |-> "read", left |-> Everything, got |-> shown[v]]]
  /\ UNCHANGED <<cast, deal, shown>>

(* The proposal goes its way behind the page.                              *)
ProposalMoves ==
  /\ dealSt' = CASE dealSt = "approved" -> "drafting" [] dealSt = "drafting" -> "draft_ready"
                 [] dealSt = "draft_ready" -> "sent" [] OTHER -> dealSt
  /\ dealSt' # dealSt
  /\ UNCHANGED <<cast, dealPreds, lodged, items, agreed, moved, folded, shown, task, ops>>

DealNext == \/ \E v \in Readers : \/ \E r \in OfferedOn(shown[v], cast[v]) : PressButton(v, r)
                                  \/ ServeDeal(v) \/ Reload(v)
                                  \/ \E part \in Everything \cup {{"quote"}} : ReadPart(v, part)
            \/ ProposalMoves

DealSpec == DealInit /\ [][DealNext]_pageVars

-----------------------------------------------------------------------------
DealTypeOK ==
  /\ dealSt \in Statuses /\ dealPreds \in 1 .. Len(TierPrices)
  /\ items \subseteq ItemAmounts /\ agreed \in Int \cup {NoCents} /\ moved \in BOOLEAN
  /\ \A v \in Readers : DOMAIN shown[v] = DOMAIN Now

(* Two buttons a page offers although the server will not have them: the   *)
(* admin's Revert on a deal that was sent, and Re-predict for the VP and   *)
(* the CEO.                                                                *)
NeverAccepted(r, role) ==
  \/ r.op = "revert" /\ dealSt \in {"sent"} \cup OutcomeStatuses
  \/ r.op = "predict" /\ role \in {"vp_sales", "ceo"}

(* Page and server list roles and statuses apart.  A page that shows what  *)
(* is now so offers nobody a press the server refuses, but for those two;  *)
(* and an approval that no longer covers the extras is never shown as      *)
(* settled while it can still be approved again.                           *)
OffersAreHonest ==
  /\ \A role \in DeskRoles : \A r \in OfferedOn(Now, role) :
       Accepts(r, role) \/ NeverAccepted(r, role)
  /\ dealSt \in ReapprovableStatuses /\ folded # items => PricingStale(Now)

(* However old the page and whatever was predicted since, a press that is  *)
(* accepted agrees the price that stood on its button, unless the extras   *)
(* or the lodged price were edited after the page read them.               *)
ApprovedAsShown ==
  [][\A v \in Readers : ServeDeal(v) /\ task[v].op = "approve" /\ Accepts(task[v], cast[v]) =>
       \/ agreed' = task[v].sees
       \/ task[v].choice = "tier" /\ items # shown[v].lines
       \/ task[v].choice = "tech" /\ lodged # shown[v].quote.lodged]_pageVars
=============================================================================
