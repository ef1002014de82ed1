---------------------------- MODULE DealContract ----------------------------
(***************************************************************************)
(* What the decision desk promises of one opportunity, without requests,   *)
(* thresholds, line items or the many statuses of the code: at which price *)
(* it may be agreed, whose signature that takes, and which stages it may   *)
(* leave.  Module Approval is shown to implement it for requests that are  *)
(* served one at a time.                                                   *)
(***************************************************************************)
EXTENDS Integers

CONSTANT NoPrice    \* not a price

VARIABLES stage,    \* open, offered, agreed, delivered, won, lost, dropped or expired
          price,    \* the price it stands at
          needs,    \* the level whose signature the last offer needs
          signed    \* the level that signed it
deal == <<stage, price, needs, signed>>

Signatories == {"vp", "ceo"}

Init == /\ \/ stage = "open" /\ price = NoPrice
           \/ stage \in {"agreed", "delivered"} /\ price \in Nat
        /\ needs = "none" /\ signed = "none"

(* The manager names a price: agreed at once, or to be signed.             *)
Offer == /\ stage \in {"open", "offered", "agreed"}
         /\ price' \in Nat
         /\ needs' \in Signatories \cup {"none"}
         /\ stage' = IF needs' = "none" THEN "agreed" ELSE "offered"
         /\ signed' = "none"

(* The level asked for signs the price offered.                            *)
Sign == /\ stage = "offered" /\ stage' = "agreed"
        /\ signed' = needs
        /\ UNCHANGED <<price, needs>>

Refuse == /\ stage = "offered" /\ stage' = "dropped"
          /\ price' = NoPrice
          /\ UNCHANGED <<needs, signed>>

(* Rejected or put on hold by the desk, also after it was lost.            *)
Drop == /\ stage \in {"open", "offered", "agreed", "lost"} /\ stage' = "dropped"
        /\ UNCHANGED <<price, needs, signed>>

Hold == /\ stage \in {"open", "offered", "agreed", "lost"} /\ stage' = "open"
        /\ UNCHANGED <<price, needs, signed>>

(* The admin takes an agreement or a rejection back: it costs the price.   *)
Reopen == /\ stage \in {"agreed", "dropped"} /\ stage' = "open"
          /\ price' = NoPrice
          /\ UNCHANGED <<needs, signed>>

Close == /\ stage = "delivered" /\ stage' \in {"won", "lost"}
         /\ UNCHANGED <<price, needs, signed>>

(* The admin has the prediction run again, at any stage.                   *)
Recall == /\ stage' = "open"
          /\ UNCHANGED <<price, needs, signed>>

Next == Offer \/ Sign \/ Refuse \/ Drop \/ Hold \/ Reopen \/ Close \/ Recall

Spec == Init /\ [][Next]_deal
=============================================================================
