------------------------- MODULE MCProposalDelivery -------------------------
(* Small instances of ProposalDelivery and, beside it, of the AI provider  *)
(* that writes the drafts: each behaviour runs one of the two.             *)
EXTENDS ProposalDelivery, LlmCalls

(* One rep at a time with every mishap but a crash; four senders; four      *)
(* requests on the Gamma path.                                              *)
DeskWorlds == {Happenings \ {"crash"},
               {"mark", "send", "crash"}, {"gamma", "crash"}}

-----------------------------------------------------------------------------
(* The panel without calls, from nothing and from a stored key; and a call *)
(* of every provider to every endpoint that refuses some of the fields.    *)
NoCalls == [row |-> NoLlmRow, unknown |-> {}, names |-> TRUE, broken |-> FALSE, deadline |-> TRUE,
            wants |-> {{}}, clicks |-> 3, others |-> 2, calls |-> 1, troubles |-> 0]
StoredRow(p) == [provider |-> p, key |-> IF p \in Keyed THEN "good" ELSE "none", on |-> TRUE]
MCLlmScenes ==
  {NoCalls, [NoCalls EXCEPT !.row = StoredRow("openai"), !.others = 1]}
  \cup {[row |-> StoredRow(p), unknown |-> u, names |-> n, broken |-> b, deadline |-> d,
         wants |-> {OptionalFields}, clicks |-> 0, others |-> 0, calls |-> 1, troubles |-> 2] :
        p \in Choices \ {"manual"}, u \in SUBSET OptionalFields, n, b, d \in BOOLEAN}

-----------------------------------------------------------------------------
VARIABLE desk
DeskInit == /\ desk \in {"proposal", "provider"} /\ Init /\ LlmInit
            /\ desk = "proposal" => llmScene = NoCalls
            /\ desk = "provider" => status = "approved" /\ world = {"mark", "send", "crash"}
DeskNext == \/ desk = "proposal" /\ Next /\ UNCHANGED <<llmVars, desk>>
            \/ desk = "provider" /\ LlmNext /\ UNCHANGED <<vars, desk>>
(* Nobody has to do anything.                                              *)
DeskSpec == DeskInit /\ [][DeskNext]_<<vars, llmVars, desk>>

MCSymmetry == Permutations(Req) \cup Permutations(GenIds)
=============================================================================
