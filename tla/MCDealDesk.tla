----------------------------- MODULE MCDealDesk -----------------------------
(* The decision desk of module Approval and, beside it, the page that      *)
(* shows its buttons: each behaviour runs one of the two.                  *)
EXTENDS MCApproval, DealPage

CONSTANTS v1, v2

AdminAndTech == v1 :> "admin" @@ v2 :> "tech_team"
MCCasts == {AdminAndTech, v1 :> "sales_manager" @@ v2 :> "admin"}
MCTierPrices == <<10, 20>>
MCItemAmounts == {5}

VARIABLE side
DeskInit == /\ Init /\ DealInit /\ side \in {"desk", "page"}
            /\ side = "desk" => cast = AdminAndTech
            /\ side = "page" => status = "submitted"
DeskNext == \/ side = "desk" /\ Next /\ UNCHANGED <<pageVars, side>>
            \/ side = "page" /\ DealNext /\ UNCHANGED <<vars, side>>
(* Nobody has to do anything.                                              *)
DeskSpec == DeskInit /\ [][DeskNext]_<<vars, pageVars, side>>
=============================================================================
