----------------------------- MODULE MCApproval -----------------------------
(* Bounded instances of Approval.                                          *)
EXTENDS Approval, TLC

MCPrice      == {1, 3}
MCLineTotals == {0, -2}
NoLineItems  == {0}
MCThresholds == {2}
MCReqSymmetry == Permutations(Req)
=============================================================================
