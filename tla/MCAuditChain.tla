---------------------------- MODULE MCAuditChain ----------------------------
(* Small instances of AuditChain. *)
EXTENDS AuditChain, TLC

MCSymmetry == Permutations(EventIds) \cup Permutations(Engagements) \cup Permutations(Callers)
=============================================================================
