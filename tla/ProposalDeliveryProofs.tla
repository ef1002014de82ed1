----------------------- MODULE ProposalDeliveryProofs -----------------------
(***************************************************************************)
(* The columns keep their shape whatever requests arrive, and the two      *)
(* claims are exclusive among any number of requests of their own kind:    *)
(* one mail, one Gamma call.  And for any endpoint and settings that       *)
(* change meanwhile: what a call tells of its schema is what it sent.      *)
(* And of the workspace: a page at rest shows the row.                     *)
(***************************************************************************)
EXTENDS MCProposalDelivery, ProposalStudio, FiniteSetTheorems, TLAPS

StatusDefs == Statuses = {"ingesting", "issued", "in_progress",
  "pending_vp_approval", "pending_ceo_approval", "returned_to_sales",
  "awaiting_clarification", "escalated", "drafting", "draft_ready", "closed",
  "lost", "submitted", "predicted", "pending_approval", "approved", "sent",
  "rejected", "expired"}

LEMMA StatusList == StatusDefs
BY DEF StatusDefs, Statuses, GatherStatuses, PendingStatuses, HoldStatuses,
       DraftStatuses, OutcomeStatuses

(* A request that moves on keeps tx well typed if its new record is.        *)
LEMMA TxStep ==
  ASSUME NEW r \in Req, NEW t \in Tx, tx \in [Req -> Tx], Advance(r, t)
  PROVE  /\ tx' \in [Req -> Tx]
         /\ tx'[r] = t
         /\ \A s \in Req \ {r} : tx'[s] = tx[s]
BY DEF Advance

LEMMA IdleIsTx == Idle \in Tx /\ Idle.op = "idle"
BY StatusList DEF Idle, Tx, Ops, StatusDefs

RowOK == status \in Statuses /\ claimed \in DraftClaimFrom

TextOK ==
  /\ drafted \in BOOLEAN
  /\ source \in {"manual", "scaffold", "llm", "gamma", Null}
  /\ generation \in GenIds \cup {Null}

EnvOK ==
  /\ jobs \in [GenIds -> {"none", "running", "completed", "failed"}]
  /\ world \in Worlds

OutOK == mails \in Nat /\ reported \in BOOLEAN

TxOK ==
  /\ tx \in [Req -> Tx]
  /\ \A r \in Req : tx[r].op \in {"gamma:track", "poll"} => tx[r].gen \in GenIds

LEMMA TypeParts == (RowOK /\ TextOK /\ EnvOK /\ OutOK /\ TxOK)' => TypeOK'
BY DEF TypeOK, RowOK, TextOK, EnvOK, OutOK, TxOK

LEMMA PartsOfType == TypeOK => RowOK /\ TextOK /\ EnvOK /\ OutOK /\ TxOK
BY DEF TypeOK, RowOK, TextOK, EnvOK, OutOK, TxOK

(* The request's own record: what each step leaves in it.                   *)
LEMMA TxMoves ==
  ASSUME TypeOK, NEW r \in Req, NEW t \in Tx, Advance(r, t),
         t.op \in {"gamma:track", "poll"} => t.gen \in GenIds
  PROVE  TxOK'
<1>1. tx' \in [Req -> Tx] /\ tx'[r] = t /\ \A s \in Req \ {r} : tx'[s] = tx[s]
  BY TxStep DEF TypeOK
<1> QED BY <1>1 DEF TxOK, TypeOK

LEMMA TxFinishes ==
  ASSUME TypeOK, NEW r \in Req, Finish(r)
  PROVE  TxOK'
BY IdleIsTx, TxMoves DEF Finish, Advance

LEMMA TxStays == ASSUME TypeOK, UNCHANGED tx PROVE TxOK'
BY DEF TypeOK, TxOK

(* Setting op and a few columns of a well-typed record.                     *)
LEMMA SetOp ==
  ASSUME NEW u \in Tx, NEW o \in Ops
  PROVE  LET t == [u EXCEPT !.op = o] IN t \in Tx /\ t.op = o /\ t.gen = u.gen
BY DEF Tx

LEMMA SetGen ==
  ASSUME NEW u \in Tx, NEW o \in Ops, NEW g \in GenIds \cup {Null}
  PROVE  LET t == [u EXCEPT !.op = o, !.gen = g] IN t \in Tx /\ t.op = o /\ t.gen = g
BY DEF Tx

LEMMA SetWas ==
  ASSUME NEW u \in Tx, NEW o \in Ops, NEW w \in Statuses
  PROVE  LET t == [u EXCEPT !.op = o, !.was = w] IN t \in Tx /\ t.op = o
BY DEF Tx

-----------------------------------------------------------------------------
(* Type correctness, one lemma per group of handlers.                       *)
LEMMA DraftingType ==
  ASSUME TypeOK, NEW r \in Req, Drafting(r)
  PROVE  TypeOK'
<1>0. tx[r] \in Tx /\ tx[r].was \in Statuses
  BY DEF TypeOK, Tx
<1>s. /\ "draft_ready" \in Statuses /\ "drafting" \in Statuses /\ "approved" \in Statuses
      /\ "sent" \in Statuses /\ DraftClaimFrom \subseteq Statuses
  BY StatusList DEF StatusDefs, DraftClaimFrom
<1>o. /\ "clear" \in Ops /\ "llm:call" \in Ops /\ "gamma:start" \in Ops
      /\ "gamma:track" \in Ops /\ {"llm", "scaffold", "gamma"} \subseteq Ops
  BY DEF Ops
<1>t. RowOK /\ TextOK /\ EnvOK /\ OutOK /\ TxOK
  BY PartsOfType
<1>k. /\ UNCHANGED <<status, claimed>> => RowOK'
      /\ UNCHANGED text => TextOK'
      /\ UNCHANGED env => EnvOK'
      /\ UNCHANGED out => OutOK'
      /\ ReadsOnly => (RowOK /\ TextOK /\ EnvOK /\ OutOK)'
  BY <1>t DEF ReadsOnly, RowOK, TextOK, EnvOK, OutOK, env, text, out
<1>c. ASSUME Claim PROVE RowOK'
  BY <1>c, <1>s, <1>t DEF Claim, RowOK
<1>p. ASSUME NEW src \in {"manual", "scaffold", "llm"}, PersistText(src), UNCHANGED claimed
      PROVE  RowOK' /\ TextOK'
  BY <1>p, <1>s, <1>t DEF PersistText, RowOK, TextOK
<1>1. ASSUME NEW path \in {"llm", "scaffold", "gamma"}, GenerateLoad(r, path)
      PROVE  TypeOK'
  <2>1. path \in Ops /\ status \in Statuses
    BY <1>o, <1>t DEF RowOK
  <2> DEFINE t == [Idle EXCEPT !.op = path, !.was = status]
  <2>2. t \in Tx /\ t.op = path
    BY <2>1, IdleIsTx DEF Tx
  <2>3. Advance(r, t) /\ ReadsOnly
    BY <1>1 DEF GenerateLoad
  <2> HIDE DEF t
  <2>4. TxOK'
    BY <2>2, <2>3, TxMoves
  <2> QED BY <2>3, <2>4, <1>k, TypeParts
<1>2. CASE ScaffoldPersist(r) \/ LlmPersist(r)
  <2>1. RowOK' /\ TextOK'
    BY <1>2, <1>0, <1>p DEF ScaffoldPersist, LlmPersist
  <2>2. TxOK' /\ UNCHANGED <<env, out>>
    BY <1>2, TxFinishes DEF ScaffoldPersist, LlmPersist
  <2> QED BY <2>1, <2>2, <1>k, TypeParts
<1>3. CASE LlmClaim(r)
  <2> DEFINE t == [tx[r] EXCEPT !.op = "llm:call"]
  <2>1. t \in Tx /\ t.op = "llm:call"
    BY <1>0, <1>o, SetOp
  <2>2. Advance(r, t)
    BY <1>3 DEF LlmClaim
  <2> HIDE DEF t
  <2>3. TxOK'
    BY <2>1, <2>2, TxMoves
  <2>4. RowOK' /\ UNCHANGED <<text, env, out>>
    BY <1>3, <1>c DEF LlmClaim
  <2> QED BY <2>3, <2>4, <1>k, TypeParts
<1>4. CASE LlmFail(r) \/ GammaStartFail(r)
  <2>1. RowOK' /\ UNCHANGED <<text, env, out>>
    BY <1>4, <1>0, <1>t DEF LlmFail, GammaStartFail, Rollback, RowOK
  <2>2. TxOK'
    BY <1>4, TxFinishes DEF LlmFail, GammaStartFail
  <2> QED BY <2>1, <2>2, <1>k, TypeParts
<1>5. CASE GammaClaim(r)
  <2> DEFINE t == [tx[r] EXCEPT !.op = "gamma:start"]
  <2>1. t \in Tx /\ t.op = "gamma:start"
    BY <1>0, <1>o, SetOp
  <2>2. Advance(r, t) \/ Finish(r)
    BY <1>5 DEF GammaClaim
  <2> HIDE DEF t
  <2>3. TxOK'
    BY <2>1, <2>2, TxMoves, TxFinishes
  <2>4. RowOK' /\ UNCHANGED <<text, env, out>>
    BY <1>5, <1>c DEF GammaClaim
  <2> QED BY <2>3, <2>4, <1>k, TypeParts
<1>6. ASSUME NEW g \in GenIds, GammaStart(r, g) PROVE TypeOK'
  <2> DEFINE t == [tx[r] EXCEPT !.op = "gamma:track", !.gen = g]
  <2>1. t \in Tx /\ t.gen = g
    <3>1. tx[r] \in Tx /\ "gamma:track" \in Ops
      BY <1>0, <1>o
    <3> QED BY <3>1 DEF Tx
  <2>2. Advance(r, t)
    BY <1>6 DEF GammaStart
  <2> HIDE DEF t
  <2>3. TxOK'
    BY <2>1, <2>2, TxMoves
  <2>4. EnvOK' /\ UNCHANGED <<status, text, out, claimed>>
    BY <1>6, <1>t DEF GammaStart, EnvOK
  <2> QED BY <2>3, <2>4, <1>k, TypeParts
<1>7. CASE GammaTrack(r)
  <2>1. tx[r].gen \in GenIds
    BY <1>7, <1>t DEF GammaTrack, At, TxOK
  <2>2. TextOK' /\ UNCHANGED <<status, env, out, claimed>>
    BY <1>7, <1>t, <2>1 DEF GammaTrack, TextOK
  <2>3. TxOK'
    BY <1>7, TxFinishes DEF GammaTrack
  <2> QED BY <2>2, <2>3, <1>k, TypeParts
<1>8. CASE AcceptManual(r)
  <2>1. RowOK' /\ TextOK'
    BY <1>8, <1>p DEF AcceptManual
  <2>2. TxOK' /\ UNCHANGED <<env, out>>
    BY <1>8, TxStays DEF AcceptManual
  <2> QED BY <2>1, <2>2, <1>k, TypeParts
<1>9. CASE ClearBegin(r)
  <2> DEFINE w == IF status = "sent" THEN "sent" ELSE "approved"
             t == [Idle EXCEPT !.op = "clear", !.was = w]
  <2>1. w \in Statuses
    BY <1>s
  <2>2. Advance(r, t) /\ ReadsOnly
    BY <1>9 DEF ClearBegin
  <2> HIDE DEF w
  <2>3. t \in Tx /\ t.op = "clear"
    BY <2>1, <1>o, SetWas, IdleIsTx
  <2> HIDE DEF t
  <2>4. TxOK'
    BY <2>2, <2>3, TxMoves
  <2> QED BY <2>2, <2>4, <1>k, TypeParts
<1>10. CASE ClearWrite(r)
  <2>1. RowOK' /\ TextOK' /\ UNCHANGED <<env, out>>
    BY <1>10, <1>0, <1>t DEF ClearWrite, RowOK, TextOK
  <2>2. TxOK'
    BY <1>10, TxFinishes DEF ClearWrite
  <2> QED BY <2>1, <2>2, <1>k, TypeParts
<1> QED BY <1>1, <1>2, <1>3, <1>4, <1>5, <1>6, <1>7, <1>8, <1>9, <1>10 DEF Drafting

LEMMA PollingType ==
  ASSUME TypeOK, NEW r \in Req, Polling(r)
  PROVE  TypeOK'
<1>0. tx[r] \in Tx
  BY DEF TypeOK, Tx
<1>s. "draft_ready" \in Statuses /\ "approved" \in Statuses
  BY StatusList DEF StatusDefs
<1>o. "poll" \in Ops /\ "completed" \in Ops /\ "failed" \in Ops /\ "untrack" \in Ops
  BY DEF Ops
<1>t. RowOK /\ TextOK /\ EnvOK /\ OutOK /\ TxOK
  BY PartsOfType
<1>k. /\ UNCHANGED <<status, claimed>> => RowOK'
      /\ UNCHANGED text => TextOK'
      /\ UNCHANGED env => EnvOK'
      /\ UNCHANGED out => OutOK'
      /\ ReadsOnly => (RowOK /\ TextOK /\ EnvOK /\ OutOK)'
  BY <1>t DEF ReadsOnly, RowOK, TextOK, EnvOK, OutOK, env, text, out
<1>1. CASE PollBegin(r)
  <2> DEFINE t == [Idle EXCEPT !.op = "poll", !.gen = generation]
  <2>1. generation \in GenIds
    BY <1>1, <1>t DEF PollBegin, TextOK
  <2>2. t \in Tx /\ t.op = "poll" /\ t.gen = generation
    BY <2>1, <1>o, SetGen, IdleIsTx
  <2>3. Advance(r, t) /\ ReadsOnly
    BY <1>1 DEF PollBegin
  <2> HIDE DEF t
  <2>4. TxOK'
    BY <2>1, <2>2, <2>3, TxMoves
  <2> QED BY <2>3, <2>4, <1>k, TypeParts
<1>2. CASE PollPending(r)
  <2>1. TxOK' /\ ReadsOnly
    BY <1>2, TxFinishes DEF PollPending
  <2> QED BY <2>1, <1>k, TypeParts
<1>3. ASSUME NEW state \in {"completed", "failed"}, PollAnswered(r, state) PROVE TypeOK'
  <2> DEFINE t == [tx[r] EXCEPT !.op = state]
  <2>1. state \in Ops
    BY <1>o
  <2>2. t \in Tx /\ t.op = state
    BY <1>0, <2>1, SetOp
  <2>3. Advance(r, t) /\ ReadsOnly
    BY <1>3 DEF PollAnswered
  <2> HIDE DEF t
  <2>4. TxOK'
    BY <2>2, <2>3, TxMoves
  <2> QED BY <2>3, <2>4, <1>k, TypeParts
<1>4. CASE PollPersist(r)
  <2>1. RowOK' /\ TextOK' /\ UNCHANGED <<env, out>>
    BY <1>4, <1>s, <1>t DEF PollPersist, PersistDeck, RowOK, TextOK
  <2>2. TxOK'
    BY <1>4, TxFinishes DEF PollPersist
  <2> QED BY <2>1, <2>2, <1>k, TypeParts
<1>5. CASE PollRollback(r)
  <2> DEFINE t == [tx[r] EXCEPT !.op = "untrack"]
  <2>1. t \in Tx /\ t.op = "untrack"
    BY <1>0, <1>o, SetOp
  <2>2. Advance(r, t)
    BY <1>5 DEF PollRollback
  <2> HIDE DEF t
  <2>3. TxOK'
    BY <2>1, <2>2, TxMoves
  <2>4. RowOK' /\ UNCHANGED <<text, env, out>>
    BY <1>5, <1>s, <1>t DEF PollRollback, Rollback, RowOK
  <2> QED BY <2>3, <2>4, <1>k, TypeParts
<1>6. CASE PollUntrack(r)
  <2>1. TextOK' /\ UNCHANGED <<status, env, out, claimed>>
    BY <1>6, <1>t DEF PollUntrack, TextOK
  <2>2. TxOK'
    BY <1>6, TxFinishes DEF PollUntrack
  <2> QED BY <2>1, <2>2, <1>k, TypeParts
<1> QED BY <1>1, <1>2, <1>3, <1>4, <1>5, <1>6 DEF Polling

LEMMA SendingType ==
  ASSUME TypeOK, NEW r \in Req, Sending(r)
  PROVE  TypeOK'
<1>0. tx[r] \in Tx /\ tx[r].was \in Statuses
  BY DEF TypeOK, Tx
<1>s. "sent" \in Statuses
  BY StatusList DEF StatusDefs
<1>o. "mark" \in Ops /\ "send" \in Ops /\ "send:mail" \in Ops
  BY DEF Ops
<1>t. RowOK /\ TextOK /\ EnvOK /\ OutOK /\ TxOK
  BY PartsOfType
<1>k. /\ UNCHANGED <<status, claimed>> => RowOK'
      /\ UNCHANGED text => TextOK'
      /\ UNCHANGED env => EnvOK'
      /\ UNCHANGED out => OutOK'
      /\ ReadsOnly => (RowOK /\ TextOK /\ EnvOK /\ OutOK)'
  BY <1>t DEF ReadsOnly, RowOK, TextOK, EnvOK, OutOK, env, text, out
<1>d. ASSUME Deliver, UNCHANGED reported PROVE OutOK'
  BY <1>d, <1>t DEF Deliver, OutOK
<1>1. CASE MarkBegin(r)
  <2> DEFINE t == [Idle EXCEPT !.op = "mark"]
  <2>1. t \in Tx /\ t.op = "mark"
    BY <1>o, SetOp, IdleIsTx
  <2>2. Advance(r, t) /\ ReadsOnly
    BY <1>1 DEF MarkBegin
  <2> HIDE DEF t
  <2>3. TxOK'
    BY <2>1, <2>2, TxMoves
  <2> QED BY <2>2, <2>3, <1>k, TypeParts
<1>2. CASE MarkWrite(r)
  <2>1. RowOK' /\ OutOK' /\ UNCHANGED <<text, env>>
    BY <1>2, <1>s, <1>t DEF MarkWrite, RowOK, OutOK
  <2>2. TxOK'
    BY <1>2, TxFinishes DEF MarkWrite
  <2> QED BY <2>1, <2>2, <1>k, TypeParts
<1>3. CASE SendBegin(r)
  <2> DEFINE t == [Idle EXCEPT !.op = "send", !.was = status]
  <2>1. status \in Statuses
    BY <1>t DEF RowOK
  <2>2. t \in Tx /\ t.op = "send"
    BY <2>1, <1>o, SetWas, IdleIsTx
  <2>3. Advance(r, t) /\ ReadsOnly
    BY <1>3 DEF SendBegin
  <2> HIDE DEF t
  <2>4. TxOK'
    BY <2>2, <2>3, TxMoves
  <2> QED BY <2>3, <2>4, <1>k, TypeParts
<1>4. CASE SendClaim(r)
  <2> DEFINE t == [tx[r] EXCEPT !.op = "send:mail"]
  <2>1. t \in Tx /\ t.op = "send:mail"
    BY <1>0, <1>o, SetOp
  <2>2. Advance(r, t) \/ Finish(r)
    BY <1>4 DEF SendClaim
  <2> HIDE DEF t
  <2>3. TxOK'
    BY <2>1, <2>2, TxMoves, TxFinishes
  <2>4. RowOK' /\ UNCHANGED <<text, env, out>>
    BY <1>4, <1>s, <1>t DEF SendClaim, RowOK
  <2> QED BY <2>3, <2>4, <1>k, TypeParts
<1>5. CASE SendDone(r)
  <2>1. OutOK' /\ UNCHANGED <<status, text, env, claimed>>
    BY <1>5, <1>d DEF SendDone
  <2>2. TxOK'
    BY <1>5, TxFinishes DEF SendDone
  <2> QED BY <2>1, <2>2, <1>k, TypeParts
<1>6. CASE SendFail(r)
  <2>1. RowOK' /\ UNCHANGED <<text, env>>
    BY <1>6, <1>0, <1>t DEF SendFail, RowOK
  <2>2. OutOK'
    BY <1>6, <1>d, <1>t DEF SendFail, OutOK
  <2>3. TxOK'
    BY <1>6, TxFinishes DEF SendFail
  <2> QED BY <2>1, <2>2, <2>3, <1>k, TypeParts
<1> QED BY <1>1, <1>2, <1>3, <1>4, <1>5, <1>6 DEF Sending

LEMMA DeskType ==
  ASSUME TypeOK, Desk
  PROVE  TypeOK'
<1>s. /\ {"approved", "rejected", "pending_approval", "predicted"} \subseteq Statuses
      /\ OutcomeStatuses \subseteq Statuses /\ HoldStatuses \subseteq Statuses
  BY StatusList DEF StatusDefs, OutcomeStatuses, HoldStatuses
<1>t. RowOK /\ TextOK /\ EnvOK /\ OutOK
  BY PartsOfType
<1>1. ASSUME RowOK', TextOK', UNCHANGED <<env, out, tx>> PROVE TypeOK'
  BY <1>1, <1>t, TxStays, TypeParts DEF EnvOK, OutOK, env, out
<1>2. CASE DeskApprove
  BY <1>2, <1>1, <1>s, <1>t DEF DeskApprove, RowOK, TextOK, text
<1>3. CASE DeskReject
  BY <1>3, <1>1, <1>s, <1>t DEF DeskReject, RowOK, TextOK, text
<1>4. CASE DeskRevert
  BY <1>4, <1>1, <1>s, <1>t DEF DeskRevert, RowOK, TextOK, text
<1>5. ASSUME NEW o \in OutcomeStatuses, DeskOutcome(o) PROVE TypeOK'
  BY <1>5, <1>1, <1>s, <1>t DEF DeskOutcome, RowOK, TextOK, text
<1>6. CASE DeskPredict
  BY <1>6, <1>1, <1>s, <1>t DEF DeskPredict, RowOK, TextOK, text
<1>7. ASSUME NEW h \in HoldStatuses, DeskHold(h) PROVE TypeOK'
  BY <1>7, <1>1, <1>s, <1>t DEF DeskHold, RowOK, TextOK, text
<1> QED BY <1>2, <1>3, <1>4, <1>5, <1>6, <1>7 DEF Desk

(* Theorem form of the desk run's TypeOK, for all constants.                *)
THEOREM TypeCorrect == Spec => []TypeOK
<1>1. Init => TypeOK
  <2> SUFFICES ASSUME Init PROVE TypeOK
    OBVIOUS
  <2>1. status \in Statuses /\ "approved" \in DraftClaimFrom
    BY StatusList DEF Init, StatusDefs, DraftClaimFrom
  <2>2. tx \in [Req -> Tx] /\ \A r \in Req : tx[r].op = "idle"
    BY IdleIsTx DEF Init
  <2>3. TextOK /\ EnvOK /\ OutOK /\ claimed = "approved"
    BY DEF Init, TextOK, EnvOK, OutOK
  <2> QED BY <2>1, <2>2, <2>3 DEF TypeOK, TextOK, EnvOK, OutOK
<1>2. TypeOK /\ [Next]_vars => TypeOK'
  <2> SUFFICES ASSUME TypeOK, [Next]_vars PROVE TypeOK'
    OBVIOUS
  <2>1. ASSUME NEW r \in Req, Drafting(r) \/ Polling(r) \/ Sending(r) PROVE TypeOK'
    BY <2>1, DraftingType, PollingType, SendingType
  <2>2. ASSUME NEW g \in GenIds, NEW state \in {"completed", "failed"},
               GammaJobEnds(g, state)
        PROVE  TypeOK'
    BY <2>2 DEF GammaJobEnds, TypeOK, text, out
  <2>3. CASE UNCHANGED vars
    BY <2>3 DEF vars, env, text, out, TypeOK
  <2>4. ASSUME NEW r \in Req, Crash(r) PROVE TypeOK'
    <3>1. TxOK'
      BY <2>4, TxFinishes DEF Crash
    <3>2. (RowOK /\ TextOK /\ EnvOK /\ OutOK)'
      BY <2>4, PartsOfType DEF Crash, ReadsOnly, RowOK, TextOK, EnvOK, OutOK, env, text, out
    <3> QED BY <3>1, <3>2, TypeParts
  <2> QED BY <2>1, <2>2, <2>3, <2>4, DeskType DEF Next
<1> QED BY <1>1, <1>2, PTL DEF Spec

-----------------------------------------------------------------------------
(* The claim of sendViaOutlook while reps only send and mark as sent and    *)
(* Outlook's answers arrive, or the process dies: a mail is in flight or    *)
(* delivered only under status "sent", so another request's claim finds no  *)
(* row.                                                                     *)
MailClaim ==
  /\ \A r \in Req : tx[r].op \in {"idle", "mark", "send", "send:mail"}
  /\ \A r \in Req : tx[r].op \in {"send", "send:mail"} => tx[r].was # "sent"
  /\ \A r \in Req : tx[r].op = "send:mail" => status = "sent" /\ mails = 0
  /\ \A r, s \in Req : tx[r].op = "send:mail" /\ tx[s].op = "send:mail" => r = s
  /\ mails \in {0, 1} /\ (mails = 1 => status = "sent")

LEMMA MailClaimStep ==
  ASSUME SendersOnly, TypeOK, MailClaim, [Next]_vars
  PROVE  MailClaim'
<1>i. Idle.op = "idle"
  BY IdleIsTx
<1>x. tx \in [Req -> Tx]
  BY DEF TypeOK
<1>1. ASSUME NEW r \in Req, Drafting(r) PROVE FALSE
  <2>1. tx[r].op \in {"idle", "mark", "send", "send:mail"}
    BY DEF MailClaim
  <2> QED BY <1>1, <2>1 DEF Drafting, SendersOnly, Arrives, At, GenerateLoad,
       ScaffoldPersist, LlmClaim, LlmPersist, LlmFail, GammaClaim, GammaStart,
       GammaStartFail, GammaTrack, AcceptManual, ClearBegin, ClearWrite
<1>2. ASSUME NEW r \in Req, Polling(r) PROVE FALSE
  <2>1. tx[r].op \in {"idle", "mark", "send", "send:mail"}
    BY DEF MailClaim
  <2> QED BY <1>2, <2>1 DEF Polling, SendersOnly, Arrives, At, PollBegin, PollPending,
       PollAnswered, PollPersist, PollRollback, PollUntrack
<1>3. ~Desk
  BY DEF SendersOnly, Desk, DeskApprove, DeskReject, DeskRevert, DeskHold,
      DeskPredict, DeskOutcome
<1>4. ASSUME NEW r \in Req, NEW t \in Tx, Advance(r, t), t.op \in {"idle", "mark", "send"},
             t.op = "send" => t.was # "sent", UNCHANGED <<status, mails>>
      PROVE  MailClaim'
  <2>1. tx'[r] = t /\ \A s \in Req \ {r} : tx'[s] = tx[s]
    BY <1>4, <1>x, TxStep
  <2> QED BY <1>4, <2>1 DEF MailClaim
<1>5. ASSUME NEW r \in Req, Finish(r), UNCHANGED <<status, mails>>
      PROVE  MailClaim'
  BY <1>5, <1>4, IdleIsTx DEF Finish, Advance
<1>6. ASSUME NEW r \in Req, MarkBegin(r) PROVE MailClaim'
  <2> DEFINE t == [Idle EXCEPT !.op = "mark"]
  <2>1. t \in Tx /\ t.op = "mark"
    BY SetOp, IdleIsTx DEF Ops
  <2>2. Advance(r, t) /\ UNCHANGED <<status, mails>>
    BY <1>6 DEF MarkBegin, ReadsOnly, out
  <2> HIDE DEF t
  <2> QED BY <2>1, <2>2, <1>4
<1>7. ASSUME NEW r \in Req, MarkWrite(r) PROVE MailClaim'
  <2>1. status' = "sent" /\ mails' = mails /\ Finish(r)
    BY <1>7 DEF MarkWrite
  <2>2. tx'[r] = Idle /\ \A s \in Req \ {r} : tx'[s] = tx[s]
    BY <2>1, <1>x, IdleIsTx, TxStep DEF Finish, Advance
  <2> QED BY <2>1, <2>2, <1>i DEF MailClaim
<1>8. ASSUME NEW r \in Req, SendBegin(r) PROVE MailClaim'
  <2> DEFINE t == [Idle EXCEPT !.op = "send", !.was = status]
  <2>1. status \in Statuses /\ status # "sent"
    BY <1>8 DEF SendBegin, TypeOK
  <2>2. t \in Tx /\ t.op = "send" /\ t.was = status
    BY <2>1, IdleIsTx DEF Tx, Ops
  <2>3. Advance(r, t) /\ UNCHANGED <<status, mails>>
    BY <1>8 DEF SendBegin, ReadsOnly, out
  <2> HIDE DEF t
  <2> QED BY <2>1, <2>2, <2>3, <1>4
<1>9. ASSUME NEW r \in Req, SendClaim(r) PROVE MailClaim'
  <2>1. CASE status = "sent"
    BY <1>9, <2>1, <1>5 DEF SendClaim, out
  <2>2. CASE status # "sent"
    <3> DEFINE t == [tx[r] EXCEPT !.op = "send:mail"]
    <3>1. /\ t \in Tx /\ t.op = "send:mail" /\ t.was = tx[r].was /\ tx[r].was # "sent"
      BY <1>9, <1>x DEF Tx, Ops, SendClaim, At, MailClaim
    <3>2. Advance(r, t) /\ status' = "sent" /\ mails' = mails
      BY <1>9, <2>2 DEF SendClaim, out
    <3> HIDE DEF t
    <3>3. tx'[r] = t /\ \A s \in Req \ {r} : tx'[s] = tx[s]
      BY <3>1, <3>2, <1>x, TxStep
    <3>4. mails = 0 /\ \A s \in Req : tx[s].op # "send:mail"
      BY <2>2 DEF MailClaim
    <3> QED BY <3>1, <3>2, <3>3, <3>4 DEF MailClaim
  <2> QED BY <2>1, <2>2
<1>10. ASSUME NEW r \in Req, SendDone(r) \/ SendFail(r) PROVE MailClaim'
  <2>1. /\ tx[r].op = "send:mail" /\ status = "sent" /\ mails = 0
        /\ \A s \in Req \ {r} : tx[s].op # "send:mail"
    BY <1>10 DEF SendDone, SendFail, At, MailClaim
  <2>2. tx'[r] = Idle /\ \A s \in Req \ {r} : tx'[s] = tx[s]
    BY <1>10, <1>x, IdleIsTx, TxStep DEF SendDone, SendFail, Finish, Advance
  <2>3. mails' = mails \/ (status' = "sent" /\ mails' = 1)
    <3>1. CASE SendDone(r)
      BY <3>1, <2>1 DEF SendDone, Deliver
    <3>2. CASE SendFail(r)
      BY <3>2 DEF SendFail, SendersOnly
    <3> QED BY <3>1, <3>2, <1>10
  <2> QED BY <2>1, <2>2, <2>3, <1>i DEF MailClaim
<1>11. ASSUME NEW g \in GenIds, NEW state \in {"completed", "failed"},
              GammaJobEnds(g, state)
       PROVE  MailClaim'
  BY <1>11 DEF GammaJobEnds, MailClaim, out
<1>12. CASE UNCHANGED vars
  BY <1>12 DEF vars, out, MailClaim
<1>13. ASSUME NEW r \in Req, Crash(r) PROVE MailClaim'
  BY <1>13, <1>5 DEF Crash, ReadsOnly, out
<1> QED BY <1>1, <1>2, <1>3, <1>6, <1>7, <1>8, <1>9, <1>10, <1>11, <1>12, <1>13
       DEF Next, Sending

(* What may happen in a behaviour never changes.                            *)
LEMMA WorldStays == [Next]_vars => UNCHANGED world
BY DEF Next, Drafting, Polling, Sending, Desk, GenerateLoad, ScaffoldPersist, LlmClaim,
   LlmPersist, LlmFail, GammaClaim, GammaStart, GammaStartFail, GammaTrack, AcceptManual,
   ClearBegin, ClearWrite, PollBegin, PollPending, PollAnswered, PollPersist, PollRollback,
   PollUntrack, MarkBegin, MarkWrite, SendBegin, SendClaim, SendDone, SendFail, Crash,
   GammaJobEnds, DeskApprove, DeskReject, DeskRevert, DeskHold, DeskPredict, DeskOutcome,
   ReadsOnly, env, vars

(* For any number of requests: pressing "send" or "mark as sent" at the     *)
(* same time, crashes included, mails the client at most once if Outlook's  *)
(* answers arrive.                                                          *)
THEOREM OneMailCorrect == Spec => []OneMail
<1> DEFINE Inv == SendersOnly => MailClaim
<1>1. Init => Inv
  <2> SUFFICES ASSUME Init PROVE MailClaim
    OBVIOUS
  <2>1. \A r \in Req : tx[r].op = "idle"
    BY IdleIsTx DEF Init
  <2>2. mails = 0
    BY DEF Init
  <2> QED BY <2>1, <2>2 DEF MailClaim
<1>2. TypeOK /\ Inv /\ [Next]_vars => Inv'
  BY MailClaimStep, WorldStays DEF SendersOnly
<1>3. Inv => OneMail
  BY DEF MailClaim, OneMail, AtMostOne, InFlight
<1> QED BY <1>1, <1>2, <1>3, TypeCorrect, PTL DEF Spec

-----------------------------------------------------------------------------
(* The claim of generateViaGamma among generations only: past it, the row   *)
(* is "drafting", which the claim's filter does not include.                *)
GammaClaimed ==
  /\ \A r \in Req : tx[r].op \in {"idle", "gamma", "gamma:start", "gamma:track"}
  /\ \A r \in Req : tx[r].op \in {"gamma:start", "gamma:track"} => status = "drafting"
  /\ AtMostOne(InFlight({"gamma:start", "gamma:track"}))

LEMMA GammaClaimedStep ==
  ASSUME GammaOnly, TypeOK, GammaClaimed, [Next]_vars
  PROVE  GammaClaimed'
<1>i. Idle.op = "idle"
  BY IdleIsTx
<1>x. tx \in [Req -> Tx]
  BY DEF TypeOK
<1>u. \A r \in Req : tx[r].op \in {"idle", "gamma", "gamma:start", "gamma:track"}
  BY DEF GammaClaimed
<1>1. ASSUME NEW r \in Req, Polling(r) \/ Sending(r) PROVE FALSE
  <2>1. tx[r].op \in {"idle", "gamma", "gamma:start", "gamma:track"}
    BY <1>u
  <2> QED BY <1>1, <2>1 DEF GammaOnly, Polling, Sending, Arrives, At, PollBegin, PollPending,
       PollAnswered, PollPersist, PollRollback, PollUntrack, MarkBegin, MarkWrite,
       SendBegin, SendClaim, SendDone, SendFail
<1>2. ~Desk
  BY DEF GammaOnly, Desk, DeskApprove, DeskReject, DeskRevert, DeskHold,
      DeskPredict, DeskOutcome
<1>3. ASSUME NEW r \in Req, NEW t \in Tx, Advance(r, t), t.op \in {"idle", "gamma"},
             \/ UNCHANGED status
             \/ tx[r].op \in {"gamma:start", "gamma:track"}
      PROVE  GammaClaimed'
  <2>1. tx'[r] = t /\ \A s \in Req \ {r} : tx'[s] = tx[s]
    BY <1>3, <1>x, TxStep
  <2> QED BY <1>3, <2>1 DEF GammaClaimed, AtMostOne, InFlight
<1>4. ASSUME NEW r \in Req, Finish(r),
             UNCHANGED status \/ tx[r].op \in {"gamma:start", "gamma:track"}
      PROVE  GammaClaimed'
  BY <1>4, <1>3, IdleIsTx DEF Finish, Advance
<1>5. ASSUME NEW r \in Req, NEW path \in {"llm", "scaffold", "gamma"},
             GenerateLoad(r, path)
      PROVE  GammaClaimed'
  <2>1. path = "gamma" /\ status \in Statuses
    BY <1>5 DEF GenerateLoad, Arrives, TypeOK, GammaOnly
  <2> DEFINE t == [Idle EXCEPT !.op = path, !.was = status]
  <2>2. t \in Tx /\ t.op = "gamma"
    BY <2>1, IdleIsTx DEF Tx, Ops
  <2>3. Advance(r, t) /\ UNCHANGED status
    BY <1>5 DEF GenerateLoad, ReadsOnly
  <2> HIDE DEF t
  <2> QED BY <2>2, <2>3, <1>3
<1>6. ASSUME NEW r \in Req, GammaClaim(r) PROVE GammaClaimed'
  <2>1. CASE status \notin DraftClaimFrom
    BY <1>6, <2>1, <1>4 DEF GammaClaim, Claim
  <2>2. CASE status \in DraftClaimFrom
    <3> DEFINE t == [tx[r] EXCEPT !.op = "gamma:start"]
    <3>1. t \in Tx /\ t.op = "gamma:start"
      <4>1. tx[r] \in Tx /\ "gamma:start" \in Ops
        BY <1>x DEF Ops
      <4> QED BY <4>1, SetOp
    <3>2. Advance(r, t) /\ status' = "drafting"
      BY <1>6, <2>2 DEF GammaClaim, Claim
    <3> HIDE DEF t
    <3>3. tx'[r] = t /\ \A s \in Req \ {r} : tx'[s] = tx[s]
      BY <3>1, <3>2, <1>x, TxStep
    <3>4. \A s \in Req : tx[s].op \notin {"gamma:start", "gamma:track"}
      BY <2>2 DEF GammaClaimed, DraftClaimFrom
    <3> QED BY <3>1, <3>2, <3>3, <3>4, <1>u
            DEF GammaClaimed, AtMostOne, InFlight
  <2> QED BY <2>1, <2>2
<1>7. ASSUME NEW r \in Req, NEW g \in GenIds, GammaStart(r, g) PROVE GammaClaimed'
  <2> DEFINE t == [tx[r] EXCEPT !.op = "gamma:track", !.gen = g]
  <2>1. t \in Tx /\ t.op = "gamma:track"
    <3>1. tx[r] \in Tx /\ "gamma:track" \in Ops
      BY <1>x DEF Ops
    <3> QED BY <3>1 DEF Tx
  <2>2. Advance(r, t) /\ status' = status /\ tx[r].op = "gamma:start"
    BY <1>7 DEF GammaStart, At
  <2> HIDE DEF t
  <2>3. tx'[r] = t /\ \A s \in Req \ {r} : tx'[s] = tx[s]
    BY <2>1, <2>2, <1>x, TxStep
  <2> QED BY <2>1, <2>2, <2>3 DEF GammaClaimed, AtMostOne, InFlight
<1>8. ASSUME NEW r \in Req, GammaStartFail(r) \/ GammaTrack(r) PROVE GammaClaimed'
  BY <1>8, <1>4 DEF GammaStartFail, GammaTrack, At
<1>9. ASSUME NEW r \in Req, Drafting(r) PROVE GammaClaimed'
  <2>1. /\ ~ScaffoldPersist(r) /\ ~LlmClaim(r) /\ ~LlmPersist(r) /\ ~LlmFail(r)
        /\ ~AcceptManual(r) /\ ~ClearBegin(r) /\ ~ClearWrite(r)
    BY <1>u DEF GammaOnly, ScaffoldPersist, LlmClaim, LlmPersist, LlmFail, AcceptManual,
                ClearBegin, ClearWrite, At, Arrives
  <2> QED BY <1>9, <2>1, <1>5, <1>6, <1>7, <1>8 DEF Drafting
<1>10. ASSUME NEW g \in GenIds, NEW state \in {"completed", "failed"},
              GammaJobEnds(g, state)
       PROVE  GammaClaimed'
  BY <1>10 DEF GammaJobEnds, GammaClaimed, AtMostOne, InFlight
<1>11. CASE UNCHANGED vars
  BY <1>11 DEF vars, GammaClaimed, AtMostOne, InFlight
<1>12. ASSUME NEW r \in Req, Crash(r) PROVE GammaClaimed'
  BY <1>12, <1>4 DEF Crash, ReadsOnly
<1> QED BY <1>1, <1>2, <1>9, <1>10, <1>11, <1>12 DEF Next

(* For any number of concurrent "generate" requests, one call reaches       *)
(* Gamma at a time.                                                         *)
THEOREM OneGammaStartCorrect == Spec => []OneGammaStart
<1> DEFINE Inv == GammaOnly => GammaClaimed
<1>1. Init => Inv
  <2> SUFFICES ASSUME Init PROVE GammaClaimed
    OBVIOUS
  <2>1. \A r \in Req : tx[r].op = "idle"
    BY IdleIsTx DEF Init
  <2> QED BY <2>1 DEF GammaClaimed, AtMostOne, InFlight
<1>2. TypeOK /\ Inv /\ [Next]_vars => Inv'
  BY GammaClaimedStep, WorldStays DEF GammaOnly
<1>3. Inv => OneGammaStart
  BY DEF GammaClaimed, OneGammaStart
<1> QED BY <1>1, <1>2, <1>3, TypeCorrect, PTL DEF Spec

-----------------------------------------------------------------------------
(* Where a "sent" can come from while one rep works and nothing crashes:    *)
(* from a mail in flight or delivered, from a mark, or from a request that   *)
(* read "sent" and puts it back -- after one of the first two.              *)
SentBacked ==
  /\ status = "sent" => Delivered \/ \E r \in Req : tx[r].op = "send:mail"
  /\ \A r \in Req : tx[r].was = "sent" => Delivered

LEMMA IdleWas == Idle.was = "approved"
BY DEF Idle

(* What reached the client stays with the client.                           *)
LEMMA DeliveredStays ==
  ASSUME TypeOK, [Next]_vars, Delivered
  PROVE  Delivered'
<1>m. mails \in Nat
  BY DEF TypeOK
<1>o. UNCHANGED <<mails, reported>> => Delivered'
  BY DEF Delivered
<1>1. ASSUME NEW r \in Req, Drafting(r) \/ Polling(r) \/ Crash(r) PROVE Delivered'
  <2>1. CASE Drafting(r)
    BY <2>1, <1>o DEF Drafting, GenerateLoad, ScaffoldPersist, LlmClaim, LlmPersist, LlmFail,
       GammaClaim, GammaStart, GammaStartFail, GammaTrack, AcceptManual, ClearBegin,
       ClearWrite, ReadsOnly, out
  <2>2. CASE Polling(r) \/ Crash(r)
    BY <2>2, <1>o DEF Polling, Crash, PollBegin, PollPending, PollAnswered, PollPersist,
       PollRollback, PollUntrack, ReadsOnly, out
  <2> QED BY <1>1, <2>1, <2>2
<1>2. ASSUME NEW r \in Req, Sending(r) PROVE Delivered'
  <2>1. CASE MarkBegin(r) \/ SendBegin(r) \/ SendClaim(r)
    BY <2>1, <1>o DEF MarkBegin, SendBegin, SendClaim, ReadsOnly, out
  <2>2. CASE MarkWrite(r)
    BY <2>2 DEF MarkWrite, Delivered
  <2>3. CASE SendDone(r)
    BY <2>3, <1>m DEF SendDone, Deliver, Delivered
  <2>4. CASE SendFail(r)
    BY <2>4, <1>m DEF SendFail, Deliver, Delivered
  <2> QED BY <1>2, <2>1, <2>2, <2>3, <2>4 DEF Sending
<1>3. CASE Desk
  BY <1>3, <1>o DEF Desk, DeskApprove, DeskReject, DeskRevert, DeskHold, DeskPredict,
     DeskOutcome, out
<1>4. ASSUME NEW g \in GenIds, NEW state \in {"completed", "failed"}, GammaJobEnds(g, state)
      PROVE  Delivered'
  BY <1>4, <1>o DEF GammaJobEnds, out
<1>5. CASE UNCHANGED vars
  BY <1>5, <1>o DEF vars, out
<1> QED BY <1>1, <1>2, <1>3, <1>4, <1>5 DEF Next

LEMMA SentBackedStep ==
  ASSUME OneRep, TypeOK, SentBacked, [Next]_vars
  PROVE  SentBacked'
<1>d. Delivered => Delivered'
  BY DeliveredStays
<1>x. tx \in [Req -> Tx]
  BY DEF TypeOK
<1>i. Idle \in Tx /\ Idle.op = "idle" /\ Idle.was = "approved"
  BY IdleIsTx, IdleWas
<1>1. ASSUME NEW r \in Req, NEW t \in Tx, Advance(r, t), t.was = "sent" => Delivered',
             \/ status' # "sent" \/ Delivered' \/ t.op = "send:mail"
             \/ UNCHANGED status /\ tx[r].op # "send:mail"
      PROVE  SentBacked'
  <2>1. tx'[r] = t /\ \A s \in Req \ {r} : tx'[s] = tx[s]
    BY <1>1, <1>x, TxStep
  <2> QED BY <1>1, <1>d, <2>1 DEF SentBacked
<1>2. ASSUME NEW r \in Req, Finish(r),
             \/ status' # "sent" \/ Delivered'
             \/ UNCHANGED status /\ tx[r].op # "send:mail"
      PROVE  SentBacked'
  BY <1>2, <1>1, <1>i DEF Finish, Advance
(* A request reads while every other one is idle, so no mail is in flight.  *)
<1>3. ASSUME NEW r \in Req, NEW h, Arrives(r, h), status = "sent" PROVE Delivered
  BY <1>3 DEF Arrives, OneRep, SentBacked
(* A request in flight moves on, keeping what it read.                      *)
<1>4. ASSUME NEW r \in Req, NEW o \in Ops, Advance(r, [tx[r] EXCEPT !.op = o]),
             \/ status' # "sent" \/ o = "send:mail"
             \/ UNCHANGED status /\ tx[r].op # "send:mail"
      PROVE  SentBacked'
  <2> DEFINE t == [tx[r] EXCEPT !.op = o]
  <2>1. t \in Tx /\ t.op = o /\ t.was = tx[r].was
    BY <1>x DEF Tx
  <2>2. t.was = "sent" => Delivered'
    BY <2>1, <1>d DEF SentBacked
  <2>3. Advance(r, t)
    BY <1>4
  <2> HIDE DEF t
  <2> QED BY <1>4, <1>1, <2>1, <2>2, <2>3
(* A status restored from what the request read.                            *)
<1>5. ASSUME NEW r \in Req, Finish(r), tx[r].op # "send:mail",
             status' \in {status, tx[r].was}
      PROVE  SentBacked'
  <2>1. tx[r].was = "sent" => Delivered'
    BY <1>d DEF SentBacked
  <2> QED BY <1>5, <1>2, <2>1
<1>o. {"llm:call", "gamma:start", "gamma:track", "completed", "failed", "untrack",
       "send:mail", "mark", "llm", "scaffold", "gamma", "poll", "clear", "send"} \subseteq Ops
  BY DEF Ops
<1>6. ASSUME NEW r \in Req, NEW path \in {"llm", "scaffold", "gamma"}, GenerateLoad(r, path)
      PROVE  SentBacked'
  <2> DEFINE t == [Idle EXCEPT !.op = path, !.was = status]
  <2>1. status \in Statuses
    BY DEF TypeOK
  <2>2. t \in Tx /\ t.op = path /\ t.was = status
    BY <2>1, <1>i, <1>o DEF Tx
  <2>3. Advance(r, t) /\ UNCHANGED status /\ tx[r].op = "idle"
    BY <1>6 DEF GenerateLoad, ReadsOnly, Arrives
  <2>4. status = "sent" => Delivered'
    BY <1>6, <1>3, <1>d DEF GenerateLoad
  <2> HIDE DEF t
  <2> QED BY <2>2, <2>3, <2>4, <1>1
<1>7. ASSUME NEW r \in Req, ScaffoldPersist(r) \/ LlmPersist(r) \/ PollPersist(r)
      PROVE  SentBacked'
  BY <1>7, <1>2 DEF ScaffoldPersist, LlmPersist, PollPersist, PersistText, PersistDeck
<1>8. ASSUME NEW r \in Req, LlmClaim(r) PROVE SentBacked'
  BY <1>8, <1>4, <1>o DEF LlmClaim, Claim, At
<1>9. ASSUME NEW r \in Req, LlmFail(r) \/ GammaStartFail(r) PROVE SentBacked'
  BY <1>9, <1>5 DEF LlmFail, GammaStartFail, Rollback, At
<1>10. ASSUME NEW r \in Req, GammaClaim(r) PROVE SentBacked'
  <2>1. status' # "sent" \/ (UNCHANGED status /\ tx[r].op # "send:mail")
    BY <1>10 DEF GammaClaim, Claim, At
  <2>2. Advance(r, [tx[r] EXCEPT !.op = "gamma:start"]) \/ Finish(r)
    BY <1>10 DEF GammaClaim
  <2> QED BY <2>1, <2>2, <1>2, <1>4, <1>o
<1>11. ASSUME NEW r \in Req, NEW g \in GenIds, GammaStart(r, g) PROVE SentBacked'
  <2> DEFINE t == [tx[r] EXCEPT !.op = "gamma:track", !.gen = g]
  <2>1. t \in Tx /\ t.was = tx[r].was
    <3>1. tx[r] \in Tx /\ "gamma:track" \in Ops
      BY <1>x, <1>o
    <3> QED BY <3>1 DEF Tx
  <2>2. Advance(r, t) /\ UNCHANGED status /\ tx[r].op # "send:mail"
    BY <1>11 DEF GammaStart, At
  <2>3. tx[r].was = "sent" => Delivered'
    BY <1>d DEF SentBacked
  <2> HIDE DEF t
  <2> QED BY <2>1, <2>2, <2>3, <1>1
<1>12. ASSUME NEW r \in Req, GammaTrack(r) \/ PollPending(r) \/ PollUntrack(r)
       PROVE  SentBacked'
  BY <1>12, <1>2 DEF GammaTrack, PollPending, PollUntrack, ReadsOnly, At
<1>13. ASSUME NEW r \in Req, AcceptManual(r) PROVE SentBacked'
  <2>1. status' # "sent" /\ UNCHANGED tx
    BY <1>13 DEF AcceptManual, PersistText
  <2> QED BY <2>1, <1>d DEF SentBacked
<1>14. ASSUME NEW r \in Req, ClearBegin(r) PROVE SentBacked'
  <2> DEFINE w == IF status = "sent" THEN "sent" ELSE "approved"
             t == [Idle EXCEPT !.op = "clear", !.was = w]
  <2>1. w \in Statuses /\ (w = "sent" => status = "sent")
    BY StatusList DEF StatusDefs
  <2>2. Advance(r, t) /\ UNCHANGED status /\ tx[r].op = "idle"
    BY <1>14 DEF ClearBegin, ReadsOnly, Arrives
  <2>3. status = "sent" => Delivered'
    BY <1>14, <1>3, <1>d DEF ClearBegin
  <2> HIDE DEF w
  <2>4. t \in Tx /\ t.was = w
    BY <2>1, <1>i, <1>o DEF Tx
  <2> HIDE DEF t
  <2> QED BY <2>1, <2>2, <2>3, <2>4, <1>1
<1>15. ASSUME NEW r \in Req, ClearWrite(r) PROVE SentBacked'
  BY <1>15, <1>5 DEF ClearWrite, At
<1>16. ASSUME NEW r \in Req, PollBegin(r) \/ MarkBegin(r) PROVE SentBacked'
  <2>1. /\ UNCHANGED status /\ tx[r].op # "send:mail"
        /\ \/ Advance(r, [Idle EXCEPT !.op = "poll", !.gen = generation])
           \/ Advance(r, [Idle EXCEPT !.op = "mark"])
    BY <1>16 DEF PollBegin, MarkBegin, ReadsOnly, Arrives
  <2>2. generation \in GenIds \cup {Null}
    BY DEF TypeOK
  <2> DEFINE t == [Idle EXCEPT !.op = "poll", !.gen = generation]
             u == [Idle EXCEPT !.op = "mark"]
  <2>3. t \in Tx /\ t.was = "approved" /\ u \in Tx /\ u.was = "approved"
    BY <2>2, <1>i, <1>o DEF Tx
  <2>4. Advance(r, t) \/ Advance(r, u)
    BY <2>1
  <2> HIDE DEF t, u
  <2> QED BY <2>1, <2>3, <2>4, <1>1
<1>17. ASSUME NEW r \in Req, NEW state \in {"completed", "failed"}, PollAnswered(r, state)
       PROVE  SentBacked'
  BY <1>17, <1>4, <1>o DEF PollAnswered, ReadsOnly, At
<1>18. ASSUME NEW r \in Req, PollRollback(r) PROVE SentBacked'
  BY <1>18, <1>4, <1>o DEF PollRollback, Rollback, At
<1>19. ASSUME NEW r \in Req, MarkWrite(r) PROVE SentBacked'
  BY <1>19, <1>2 DEF MarkWrite, Delivered
<1>20. ASSUME NEW r \in Req, SendBegin(r) PROVE SentBacked'
  <2> DEFINE t == [Idle EXCEPT !.op = "send", !.was = status]
  <2>1. status \in Statuses /\ status # "sent"
    BY <1>20 DEF SendBegin, TypeOK
  <2>2. t \in Tx /\ t.was = status
    BY <2>1, <1>i, <1>o DEF Tx
  <2>3. Advance(r, t) /\ UNCHANGED status
    BY <1>20 DEF SendBegin, ReadsOnly
  <2> HIDE DEF t
  <2> QED BY <2>1, <2>2, <2>3, <1>1
<1>21. ASSUME NEW r \in Req, SendClaim(r) PROVE SentBacked'
  <2>1. CASE status = "sent"
    BY <1>21, <2>1, <1>2 DEF SendClaim, At
  <2>2. CASE status # "sent"
    BY <1>21, <2>2, <1>4, <1>o DEF SendClaim
  <2> QED BY <2>1, <2>2
<1>22. ASSUME NEW r \in Req, SendDone(r) PROVE SentBacked'
  <2>1. Delivered' /\ Finish(r)
    BY <1>22 DEF SendDone, Deliver, Delivered, TypeOK
  <2> QED BY <2>1, <1>2
<1>23. ASSUME NEW r \in Req, SendFail(r) PROVE SentBacked'
  <2>1. status' = "sent" => tx[r].was = "sent"
    BY <1>23 DEF SendFail
  <2>2. tx[r].was = "sent" => Delivered'
    BY <1>d DEF SentBacked
  <2>3. Finish(r)
    BY <1>23 DEF SendFail
  <2> QED BY <2>1, <2>2, <2>3, <1>2
<1>24. CASE Desk
  <2>1. (status' = "sent" => status = "sent") /\ UNCHANGED tx
    BY <1>24 DEF Desk, DeskApprove, DeskReject, DeskRevert, DeskHold, DeskPredict,
       DeskOutcome, HoldStatuses, OutcomeStatuses
  <2> QED BY <2>1, <1>d DEF SentBacked
<1>25. CASE \/ UNCHANGED vars
            \/ \E g \in GenIds, state \in {"completed", "failed"} : GammaJobEnds(g, state)
  BY <1>25, <1>d DEF GammaJobEnds, vars, SentBacked
<1>26. ASSUME NEW r \in Req, Crash(r) PROVE FALSE
  BY <1>26 DEF Crash, OneRep
<1>27. ASSUME NEW r \in Req, Drafting(r) PROVE SentBacked'
  BY <1>27, <1>6, <1>7, <1>8, <1>9, <1>10, <1>11, <1>12, <1>13, <1>14, <1>15 DEF Drafting
<1>28. ASSUME NEW r \in Req, Polling(r) PROVE SentBacked'
  BY <1>28, <1>7, <1>12, <1>16, <1>17, <1>18 DEF Polling
<1>29. ASSUME NEW r \in Req, Sending(r) PROVE SentBacked'
  BY <1>29, <1>16, <1>19, <1>20, <1>21, <1>22, <1>23 DEF Sending
<1> QED BY <1>24, <1>25, <1>26, <1>27, <1>28, <1>29 DEF Next

(* For any number of requests and any desk moves beside them: while one rep *)
(* works and no process dies, a row that says "sent" has a mail behind it,   *)
(* in flight or delivered, or the rep's own word.                           *)
THEOREM NoPhantomSentCorrect == Spec => []NoPhantomSent
<1> DEFINE Inv == OneRep => SentBacked
<1>1. Init => Inv
  <2> SUFFICES ASSUME Init PROVE SentBacked
    OBVIOUS
  <2>1. \A r \in Req : tx[r].was = "approved"
    BY IdleWas DEF Init
  <2>2. status # "sent"
    BY DEF Init
  <2> QED BY <2>1, <2>2 DEF SentBacked
<1>2. TypeOK /\ Inv /\ [Next]_vars => Inv'
  BY SentBackedStep, WorldStays DEF OneRep
<1>3. Inv => NoPhantomSent
  BY DEF SentBacked, NoPhantomSent, InFlight
<1> QED BY <1>1, <1>2, <1>3, TypeCorrect, PTL DEF Spec
-----------------------------------------------------------------------------
(* What makes the row say no more of the draft than there is, while the     *)
(* requests come one at a time, no process dies and no deal is reverted     *)
(* under a request: a restored status was read together with the text it    *)
(* stands for, and that text is still there.                                *)
Tracked == generation # Null /\ source = "gamma"
Serving == {"llm:call", "gamma:start", "gamma:track"}

OneAtATime == "alone" \in world \/ \A r, s \in Req : r = s
Served     == OneAtATime /\ "crash" \notin world /\ "revert" \notin world

ReadHolds(r) ==
  /\ tx[r].op = "idle" => tx[r].was = "approved"
  /\ tx[r].was = "draft_ready" => drafted
  /\ tx[r].was = "drafting" => Tracked
  /\ tx[r].op = "clear" => tx[r].was \in {"sent", "approved"}
  /\ tx[r].op = "untrack" => status # "drafting"

DraftBacked ==
  /\ \A r, s \in Req : tx[r].op # "idle" /\ tx[s].op # "idle" => r = s
  /\ ReadyMeansDrafted
  /\ status = "drafting" => Tracked \/ \E r \in Req : tx[r].op \in Serving
  /\ \A r \in Req : ReadHolds(r)

LEMMA DraftBackedStep ==
  ASSUME Served, TypeOK, DraftBacked, [Next]_vars
  PROVE  DraftBacked'
<1>x. tx \in [Req -> Tx]
  BY DEF TypeOK
<1>i. Idle \in Tx /\ Idle.op = "idle" /\ Idle.was = "approved"
  BY IdleIsTx, IdleWas
<1>o. {"llm:call", "gamma:start", "gamma:track", "completed", "failed", "untrack",
       "send:mail", "mark", "llm", "scaffold", "gamma", "poll", "clear", "send"} \subseteq Ops
  BY DEF Ops
<1>a. ASSUME NEW r \in Req, NEW h, Arrives(r, h) PROVE \A s \in Req : tx[s].op = "idle"
  BY <1>a DEF Arrives, Served, OneAtATime
<1>b. ASSUME NEW r \in Req, tx[r].op # "idle" PROVE \A s \in Req \ {r} : tx[s].op = "idle"
  BY <1>b DEF DraftBacked
(* With nobody at work, the row has to hold by itself.                      *)
<1>q. ASSUME \A s \in Req : tx'[s].op = "idle" /\ tx'[s].was = "approved",
             ReadyMeansDrafted', status' = "drafting" => Tracked'
      PROVE  DraftBacked'
  BY <1>q DEF DraftBacked, ReadHolds
(* A request starts by reading the row.                                     *)
<1>1. ASSUME NEW r \in Req, NEW h, Arrives(r, h), NEW t \in Tx, Advance(r, t),
             UNCHANGED <<status, text>>, t.op \notin {"idle", "untrack"},
             t.was \in {status, "sent", "approved"},
             t.op = "clear" => t.was \in {"sent", "approved"}
      PROVE  DraftBacked'
  <2>1. \A s \in Req : tx[s].op = "idle" /\ tx[s].was = "approved"
    BY <1>1, <1>a DEF DraftBacked, ReadHolds
  <2>2. tx'[r] = t /\ \A s \in Req \ {r} : tx'[s] = tx[s]
    BY <1>1, <1>x, TxStep
  <2>3. ReadyMeansDrafted' /\ (status' = "drafting" => Tracked')
    BY <1>1, <2>1 DEF DraftBacked, ReadyMeansDrafted, Tracked, Serving, text
  <2>4. ReadHolds(r)'
    BY <1>1, <2>2, <2>3 DEF ReadHolds, ReadyMeansDrafted, Tracked, text
  <2>5. \A s \in Req \ {r} : ReadHolds(s)'
    BY <2>1, <2>2 DEF ReadHolds
  <2> QED BY <2>1, <2>2, <2>3, <2>4, <2>5 DEF DraftBacked
(* A request ends, and nobody is at work.                                   *)
<1>2. ASSUME NEW r \in Req, tx[r].op # "idle", Finish(r), ReadyMeansDrafted',
             status' = "drafting" => Tracked'
      PROVE  DraftBacked'
  <2>1. \A s \in Req \ {r} : tx[s].op = "idle" /\ tx[s].was = "approved"
    BY <1>2, <1>b DEF DraftBacked, ReadHolds
  <2>2. tx'[r] = Idle /\ \A s \in Req \ {r} : tx'[s] = tx[s]
    BY <1>2, <1>i, <1>x, TxStep DEF Finish, Advance
  <2> QED BY <1>2, <1>q, <2>1, <2>2, <1>i
(* A request goes on, and the text is left alone.                           *)
<1>3. ASSUME NEW r \in Req, tx[r].op # "idle", NEW t \in Tx, Advance(r, t),
             t.op \notin {"idle", "clear"}, t.was = tx[r].was, UNCHANGED text,
             ReadyMeansDrafted', status' = "drafting" => Tracked \/ t.op \in Serving,
             t.op = "untrack" => status' # "drafting"
      PROVE  DraftBacked'
  <2>1. \A s \in Req \ {r} : tx[s].op = "idle" /\ tx[s].was = "approved"
    BY <1>3, <1>b DEF DraftBacked, ReadHolds
  <2>2. tx'[r] = t /\ \A s \in Req \ {r} : tx'[s] = tx[s]
    BY <1>3, <1>x, TxStep
  <2>3. ReadHolds(r)'
    BY <1>3, <2>2 DEF DraftBacked, ReadHolds, Tracked, text
  <2>4. \A s \in Req \ {r} : ReadHolds(s)'
    BY <2>1, <2>2 DEF ReadHolds
  <2>5. status' = "drafting" => Tracked' \/ tx'[r].op \in Serving
    BY <1>3, <2>2 DEF Tracked, text
  <2> QED BY <1>3, <2>1, <2>2, <2>3, <2>4, <2>5 DEF DraftBacked
<1>4. ASSUME NEW r \in Req, NEW o \in Ops, tx[r].op # "idle",
             Advance(r, [tx[r] EXCEPT !.op = o]), o \notin {"idle", "clear"},
             UNCHANGED text, ReadyMeansDrafted',
             status' = "drafting" => Tracked \/ o \in Serving,
             o = "untrack" => status' # "drafting"
      PROVE  DraftBacked'
  <2> DEFINE t == [tx[r] EXCEPT !.op = o]
  <2>1. t \in Tx /\ t.op = o /\ t.was = tx[r].was
    BY <1>x DEF Tx
  <2>2. Advance(r, t)
    BY <1>4
  <2> HIDE DEF t
  <2> QED BY <1>4, <1>3, <2>1, <2>2
(* Outside a call to a provider, a row that is drafting is tracked.         *)
<1>t. ASSUME NEW r \in Req, tx[r].op \notin Serving \cup {"idle"}, status = "drafting"
      PROVE  Tracked
  <2>1. \A s \in Req \ {r} : tx[s].op = "idle"
    BY <1>t, <1>b
  <2> QED BY <1>t, <2>1 DEF DraftBacked, Serving
<1>5. ASSUME NEW r \in Req, NEW path \in {"llm", "scaffold", "gamma"}, GenerateLoad(r, path)
      PROVE  DraftBacked'
  <2> DEFINE t == [Idle EXCEPT !.op = path, !.was = status]
  <2>1. status \in Statuses
    BY DEF TypeOK
  <2>2. t \in Tx /\ t.op = path /\ t.was = status
    BY <2>1, <1>i, <1>o DEF Tx
  <2>3. Advance(r, t) /\ UNCHANGED <<status, text>> /\ Arrives(r, path)
    BY <1>5 DEF GenerateLoad, ReadsOnly
  <2> HIDE DEF t
  <2> QED BY <2>2, <2>3, <1>1
<1>6. ASSUME NEW r \in Req, ScaffoldPersist(r) \/ LlmPersist(r) \/ PollPersist(r)
      PROVE  DraftBacked'
  BY <1>6, <1>2 DEF ScaffoldPersist, LlmPersist, PollPersist, PersistText, PersistDeck,
     ReadyMeansDrafted, At
<1>7. ASSUME NEW r \in Req, LlmClaim(r) PROVE DraftBacked'
  <2>1. ReadyMeansDrafted'
    BY <1>7 DEF LlmClaim, Claim, DraftBacked, ReadyMeansDrafted, text
  <2> QED BY <1>7, <1>4, <1>o, <2>1 DEF LlmClaim, At, Serving
(* A failed draft: the status read stands for a text that is still there.   *)
<1>8. ASSUME NEW r \in Req, LlmFail(r) \/ GammaStartFail(r) PROVE DraftBacked'
  <2>1. /\ status' \in {status, tx[r].was} /\ (status = "drafting" => status' = tx[r].was)
        /\ UNCHANGED text /\ Finish(r) /\ tx[r].op # "idle"
    BY <1>8 DEF LlmFail, GammaStartFail, Rollback, At
  <2>2. ReadyMeansDrafted' /\ (status' = "drafting" => Tracked')
    BY <2>1 DEF DraftBacked, ReadHolds, ReadyMeansDrafted, Tracked, text
  <2> QED BY <2>1, <2>2, <1>2
<1>9. ASSUME NEW r \in Req, GammaClaim(r) PROVE DraftBacked'
  <2>1. ReadyMeansDrafted' /\ UNCHANGED text /\ tx[r].op \notin Serving \cup {"idle"}
    BY <1>9 DEF GammaClaim, Claim, At, Serving, DraftBacked, ReadyMeansDrafted, text
  <2>2. CASE status \in DraftClaimFrom
    BY <1>9, <2>1, <2>2, <1>4, <1>o DEF GammaClaim, Serving
  <2>3. CASE status \notin DraftClaimFrom
    <3>1. Finish(r) /\ UNCHANGED status
      BY <1>9, <2>3 DEF GammaClaim, Claim
    <3>2. status' = "drafting" => Tracked'
      BY <2>1, <3>1, <1>t DEF Tracked, text
    <3> QED BY <2>1, <3>1, <3>2, <1>2
  <2> QED BY <2>2, <2>3
<1>10. ASSUME NEW r \in Req, NEW g \in GenIds, GammaStart(r, g) PROVE DraftBacked'
  <2> DEFINE t == [tx[r] EXCEPT !.op = "gamma:track", !.gen = g]
  <2>1. t \in Tx /\ t.op = "gamma:track" /\ t.was = tx[r].was
    <3>1. tx[r] \in Tx /\ "gamma:track" \in Ops
      BY <1>x, <1>o
    <3> QED BY <3>1 DEF Tx
  <2>2. Advance(r, t) /\ UNCHANGED <<status, text>> /\ tx[r].op # "idle" /\ ReadyMeansDrafted'
    BY <1>10 DEF GammaStart, At, DraftBacked, ReadyMeansDrafted, text
  <2> HIDE DEF t
  <2> QED BY <2>1, <2>2, <1>3 DEF Serving
<1>11. ASSUME NEW r \in Req, GammaTrack(r) PROVE DraftBacked'
  <2>1. tx[r].gen \in GenIds /\ tx[r].op # "idle" /\ Finish(r)
    BY <1>11 DEF GammaTrack, At, TypeOK
  <2>2. ReadyMeansDrafted' /\ (status' = "drafting" => Tracked')
    BY <1>11, <2>1, NullAssumption DEF GammaTrack, Tracked, DraftBacked, ReadyMeansDrafted
  <2> QED BY <2>1, <2>2, <1>2
<1>12. ASSUME NEW r \in Req, PollPending(r) PROVE DraftBacked'
  <2>1. tx[r].op \notin Serving \cup {"idle"} /\ Finish(r) /\ UNCHANGED <<status, text>>
    BY <1>12 DEF PollPending, ReadsOnly, At, Serving
  <2>2. ReadyMeansDrafted' /\ (status' = "drafting" => Tracked')
    BY <2>1, <1>t DEF Tracked, DraftBacked, ReadyMeansDrafted, text
  <2> QED BY <2>1, <2>2, <1>2
<1>13. ASSUME NEW r \in Req, PollUntrack(r) PROVE DraftBacked'
  <2>1. tx[r].op # "idle" /\ Finish(r) /\ status' # "drafting" /\ ReadyMeansDrafted'
    BY <1>13 DEF PollUntrack, At, DraftBacked, ReadHolds, ReadyMeansDrafted
  <2> QED BY <2>1, <1>2
<1>14. ASSUME NEW r \in Req, AcceptManual(r) PROVE DraftBacked'
  <2>1. \A s \in Req : tx'[s].op = "idle" /\ tx'[s].was = "approved"
    BY <1>14, <1>a DEF AcceptManual, DraftBacked, ReadHolds
  <2>2. status' = "draft_ready" /\ drafted'
    BY <1>14 DEF AcceptManual, PersistText
  <2> QED BY <2>1, <2>2, <1>q DEF ReadyMeansDrafted
<1>15. ASSUME NEW r \in Req, ClearBegin(r) PROVE DraftBacked'
  <2> DEFINE w == IF status = "sent" THEN "sent" ELSE "approved"
             t == [Idle EXCEPT !.op = "clear", !.was = w]
  <2>1. w \in {"sent", "approved"} /\ w \in Statuses
    BY StatusList DEF StatusDefs
  <2>2. Advance(r, t) /\ UNCHANGED <<status, text>> /\ Arrives(r, "clear")
    BY <1>15 DEF ClearBegin, ReadsOnly
  <2> HIDE DEF w
  <2>3. t \in Tx /\ t.op = "clear" /\ t.was = w
    BY <2>1, <1>i, <1>o DEF Tx
  <2> HIDE DEF t
  <2> QED BY <2>1, <2>2, <2>3, <1>1
<1>16. ASSUME NEW r \in Req, ClearWrite(r) PROVE DraftBacked'
  <2>1. tx[r].op # "idle" /\ Finish(r) /\ status' \in {"sent", "approved"}
    BY <1>16 DEF ClearWrite, At, DraftBacked, ReadHolds
  <2> QED BY <2>1, <1>2 DEF ReadyMeansDrafted
<1>17. ASSUME NEW r \in Req, PollBegin(r) PROVE DraftBacked'
  <2> DEFINE t == [Idle EXCEPT !.op = "poll", !.gen = generation]
  <2>1. generation \in GenIds \cup {Null}
    BY DEF TypeOK
  <2>2. t \in Tx /\ t.op = "poll" /\ t.was = "approved"
    BY <2>1, <1>i, <1>o DEF Tx
  <2>3. Advance(r, t) /\ UNCHANGED <<status, text>> /\ Arrives(r, "poll")
    BY <1>17 DEF PollBegin, ReadsOnly
  <2> HIDE DEF t
  <2> QED BY <2>2, <2>3, <1>1
<1>18. ASSUME NEW r \in Req, MarkBegin(r) PROVE DraftBacked'
  <2> DEFINE t == [Idle EXCEPT !.op = "mark"]
  <2>1. t \in Tx /\ t.op = "mark" /\ t.was = "approved"
    BY <1>i, <1>o DEF Tx
  <2>2. Advance(r, t) /\ UNCHANGED <<status, text>> /\ Arrives(r, "mark")
    BY <1>18 DEF MarkBegin, ReadsOnly
  <2> HIDE DEF t
  <2> QED BY <2>1, <2>2, <1>1
<1>19. ASSUME NEW r \in Req, NEW state \in {"completed", "failed"}, PollAnswered(r, state)
       PROVE  DraftBacked'
  <2>1. /\ tx[r].op \notin Serving \cup {"idle"} /\ UNCHANGED <<status, text>>
        /\ Advance(r, [tx[r] EXCEPT !.op = state])
    BY <1>19 DEF PollAnswered, ReadsOnly, At, Serving
  <2>2. ReadyMeansDrafted' /\ (status' = "drafting" => Tracked)
    BY <2>1, <1>t DEF DraftBacked, ReadyMeansDrafted, text
  <2> QED BY <2>1, <2>2, <1>4, <1>o
<1>20. ASSUME NEW r \in Req, PollRollback(r) PROVE DraftBacked'
  <2>1. /\ tx[r].op # "idle" /\ UNCHANGED text /\ status' # "drafting"
        /\ Advance(r, [tx[r] EXCEPT !.op = "untrack"])
    BY <1>20 DEF PollRollback, Rollback, At
  <2>2. ReadyMeansDrafted'
    BY <1>20 DEF PollRollback, Rollback, DraftBacked, ReadyMeansDrafted, text
  <2> QED BY <2>1, <2>2, <1>4, <1>o
<1>21. ASSUME NEW r \in Req, MarkWrite(r) PROVE DraftBacked'
  BY <1>21, <1>2 DEF MarkWrite, At, ReadyMeansDrafted
<1>22. ASSUME NEW r \in Req, SendBegin(r) PROVE DraftBacked'
  <2> DEFINE t == [Idle EXCEPT !.op = "send", !.was = status]
  <2>1. status \in Statuses
    BY DEF TypeOK
  <2>2. t \in Tx /\ t.op = "send" /\ t.was = status
    BY <2>1, <1>i, <1>o DEF Tx
  <2>3. Advance(r, t) /\ UNCHANGED <<status, text>> /\ Arrives(r, "send")
    BY <1>22 DEF SendBegin, ReadsOnly
  <2> HIDE DEF t
  <2> QED BY <2>2, <2>3, <1>1
<1>23. ASSUME NEW r \in Req, SendClaim(r) PROVE DraftBacked'
  <2>1. tx[r].op # "idle" /\ UNCHANGED text /\ status' = "sent" /\ ReadyMeansDrafted'
    BY <1>23 DEF SendClaim, At, ReadyMeansDrafted
  <2>2. Advance(r, [tx[r] EXCEPT !.op = "send:mail"]) \/ Finish(r)
    BY <1>23 DEF SendClaim
  <2> QED BY <2>1, <2>2, <1>2, <1>4, <1>o
<1>24. ASSUME NEW r \in Req, SendDone(r) \/ SendFail(r) PROVE DraftBacked'
  <2>1. /\ tx[r].op \notin Serving \cup {"idle"} /\ Finish(r) /\ UNCHANGED text
        /\ status' \in {status, tx[r].was}
    BY <1>24 DEF SendDone, SendFail, At, Serving
  <2>2. ReadyMeansDrafted' /\ (status' = "drafting" => Tracked')
    BY <2>1, <1>t DEF DraftBacked, ReadHolds, ReadyMeansDrafted, Tracked, text
  <2> QED BY <2>1, <2>2, <1>2
<1>25. CASE Desk
  <2>1. /\ status' \notin {"drafting", "draft_ready"} /\ UNCHANGED <<text, tx>>
    BY <1>25 DEF Desk, DeskApprove, DeskReject, DeskRevert, DeskHold, DeskPredict,
       DeskOutcome, HoldStatuses, OutcomeStatuses, Served
  <2>2. \A r \in Req : ReadHolds(r)'
    BY <2>1 DEF DraftBacked, ReadHolds, Tracked, text
  <2> QED BY <2>1, <2>2 DEF DraftBacked, ReadyMeansDrafted
<1>26. CASE \/ UNCHANGED vars
            \/ \E g \in GenIds, state \in {"completed", "failed"} : GammaJobEnds(g, state)
  <2>1. UNCHANGED <<status, text, tx>>
    BY <1>26 DEF GammaJobEnds, vars
  <2> QED BY <2>1 DEF DraftBacked, ReadHolds, ReadyMeansDrafted, Tracked, text
<1>27. ASSUME NEW r \in Req, Crash(r) PROVE FALSE
  BY <1>27 DEF Crash, Served
<1>28. ASSUME NEW r \in Req, Drafting(r) PROVE DraftBacked'
  BY <1>28, <1>5, <1>6, <1>7, <1>8, <1>9, <1>10, <1>11, <1>14, <1>15, <1>16 DEF Drafting
<1>29. ASSUME NEW r \in Req, Polling(r) PROVE DraftBacked'
  BY <1>29, <1>6, <1>12, <1>13, <1>17, <1>19, <1>20 DEF Polling
<1>30. ASSUME NEW r \in Req, Sending(r) PROVE DraftBacked'
  BY <1>30, <1>18, <1>21, <1>22, <1>23, <1>24 DEF Sending
<1> QED BY <1>25, <1>26, <1>27, <1>28, <1>29, <1>30 DEF Next

(* While requests come one at a time, for any number of them, any number of *)
(* Gamma generations and every desk move but a revert: a ready row has its   *)
(* text and a drafting row is worked on or tracked.  A revert between a      *)
(* send's read and its release, or a crash, really breaks it.                *)
THEOREM StatusIsTrueCorrect == Spec => [](Served => StatusIsTrue)
<1>1. Init => (Served => DraftBacked)
  <2> SUFFICES ASSUME Init PROVE DraftBacked
    OBVIOUS
  <2>1. \A r \in Req : tx[r].op = "idle" /\ tx[r].was = "approved"
    BY IdleIsTx, IdleWas DEF Init
  <2>2. status # "drafting" /\ ReadyMeansDrafted
    BY DEF Init, ReadyMeansDrafted
  <2> QED BY <2>1, <2>2 DEF DraftBacked, ReadHolds
<1>2. TypeOK /\ (Served => DraftBacked) /\ [Next]_vars => (Served => DraftBacked)'
  BY DraftBackedStep, WorldStays DEF Served, OneAtATime
<1>3. (Served => DraftBacked) => (Served => StatusIsTrue)
  BY DEF DraftBacked, StatusIsTrue, DraftingIsTracked, Tracked, Serving, InFlight, Ops
<1> QED BY <1>1, <1>2, <1>3, TypeCorrect, PTL DEF Spec

-----------------------------------------------------------------------------
(* The AI provider that writes the drafts.                                 *)

(* The scene keeps its fields but the counters.                            *)
SceneOK == /\ llmScene = [n \in LlmFields |-> llmScene[n]]
           /\ llmScene.wants \subseteq SUBSET OptionalFields

(* A request to an endpoint: the fields that are left of the optional      *)
(* ones, each of which can be refused once, against the attempts made.     *)
Carries(c) ==
  /\ c.wants \subseteq OptionalFields
  /\ c.body \subseteq {"seed", "schema"} \/ c.body \subseteq {"effort", "schema"}
Left(body) == (IF "schema" \in body THEN 1 ELSE 0)
              + (IF body \cap {"seed", "effort"} # {} THEN 1 ELSE 0)
CallFields == {"at", "to", "wants", "try", "body", "bundled", "unschema", "troubles"}
Asking(c) ==
  /\ c = [f \in CallFields |-> c[f]] /\ c.at = "asking"
  /\ Carries(c) /\ c.try \in 1 .. LlmAttempts /\ c.troubles \in Nat
  /\ c.bundled \in BOOLEAN /\ c.unschema \in BOOLEAN
  /\ c.bundled => c.body = {}
  /\ c.to \in Compat => ("schema" \in c.body <=> "schema" \in c.wants /\ ~c.unschema)
  /\ c.to = "anthropic" => c.body = {}
  /\ c.try + Left(c.body) <= c.troubles + 3
CallInv ==
  /\ SceneOK /\ LlmRowOK(llm)
  /\ chat.at = "named" => chat.wants \subseteq OptionalFields
  /\ chat.at = "asking" => Asking(chat)
  /\ SchemaTold /\ SchemaSurvives /\ FieldsNeverFail

LEMMA CounterMoves ==
  ASSUME SceneOK, NEW n \in {"clicks", "others", "calls", "troubles"}, Clicks(n)
  PROVE  /\ SceneOK'
         /\ llmScene'.names = llmScene.names /\ llmScene'.broken = llmScene.broken
         /\ llmScene'.unknown = llmScene.unknown /\ llmScene'.wants = llmScene.wants
BY DEF SceneOK, Clicks, LlmFields

(* What a step may do to the call while the scene's facts stay.            *)
SceneStays == /\ SceneOK'
              /\ llmScene'.names = llmScene.names /\ llmScene'.broken = llmScene.broken
              /\ llmScene'.unknown = llmScene.unknown /\ llmScene'.wants = llmScene.wants

LEMMA CallStays ==
  ASSUME CallInv, SceneStays, chat' = chat, LlmRowOK(llm')
  PROVE  CallInv'
BY DEF CallInv, SceneStays, SchemaTold, SchemaSurvives, FieldsNeverFail

(* A provider that needs a key is stored with one.                         *)
LEMMA PutKeeps ==
  ASSUME LlmRowOK(llm), NEW b, MayPut(b)
  PROVE  LlmRowOK(Put(b))
<1>1. ASSUME b.provider \in Keyed PROVE StoredKey(b) # "none"
  <2>1. CASE b.key = "new"
    BY <2>1 DEF StoredKey
  <2>2. CASE b.key = "keep" /\ HasKey(llm)
    BY <2>2 DEF StoredKey, HasKey
  <2> QED BY <1>1, <2>1, <2>2 DEF MayPut
<1> QED BY <1>1 DEF LlmRowOK, Put

LEMMA PanelKeeps ==
  ASSUME CallInv,
         FillIn \/ PressSave \/ PressClear \/ UpsertConfig \/ SavedElsewhere \/ DeleteConfig
           \/ NewMasterKey
  PROVE  CallInv'
<1>1. SceneStays /\ chat' = chat
  <2>1. CASE UNCHANGED llmScene
    BY <2>1 DEF SceneStays, CallInv, SceneOK, FillIn, PressSave, PressClear, UpsertConfig,
                SavedElsewhere, DeleteConfig, NewMasterKey, Clicks
  <2>2. CASE Clicks("clicks") \/ Clicks("others")
    BY <2>2, CounterMoves DEF SceneStays, CallInv, FillIn, PressSave, PressClear, UpsertConfig,
                SavedElsewhere, DeleteConfig, NewMasterKey
  <2> QED BY <2>1, <2>2 DEF FillIn, PressSave, PressClear, UpsertConfig, SavedElsewhere,
                            DeleteConfig, NewMasterKey
<1>2. LlmRowOK(llm')
  <2>1. CASE llm' = llm
    BY <2>1 DEF CallInv
  <2>2. CASE UpsertConfig /\ MayPut(aiPanel.put)
    BY <2>2, PutKeeps DEF CallInv, UpsertConfig
  <2>3. CASE SavedElsewhere
    BY <2>3, PutKeeps DEF CallInv, SavedElsewhere
  <2>4. CASE DeleteConfig
    BY <2>4 DEF DeleteConfig, LlmRowOK
  <2>5. CASE NewMasterKey
    <3>1. llm = [provider |-> llm.provider, key |-> llm.key, on |-> llm.on]
      BY <2>5 DEF NewMasterKey, HasKey, CallInv, LlmRowOK
    <3>2. llm' = [provider |-> llm.provider, key |-> "lost", on |-> llm.on]
      BY <2>5, <3>1 DEF NewMasterKey
    <3> QED BY <3>2 DEF LlmRowOK
  <2> QED BY <2>1, <2>2, <2>3, <2>4, <2>5 DEF FillIn, PressSave, PressClear, UpsertConfig
<1> QED BY <1>1, <1>2, CallStays

(* A call that was not sent, or is over, and says nothing of its schema.   *)
Settled(c) == /\ c.at \notin {"asking", "answered"}
              /\ c.at = "named" => c.wants \subseteq OptionalFields
              /\ c.at = "failed" => c.why \notin {"4xx", "exhausted"}

LEMMA Settles ==
  ASSUME CallInv, SceneStays, NEW c, Settled(c), chat' = c, llm' = llm
  PROVE  CallInv'
BY DEF CallInv, SceneStays, Settled, SchemaTold, SchemaSurvives, FieldsNeverFail

LEMMA Plain ==
  /\ Settled(NoChat) /\ Settled([at |-> "pasting"])
  /\ \A why \in {"config", "http", "trouble", "timeout"} : Settled(Failed(why))
  /\ \A wants \in SUBSET OptionalFields : Settled([at |-> "named", wants |-> wants])
BY DEF Settled, NoChat, Failed

(* A schema that is asked for and known to the endpoint is in the body.    *)
Survives(c) == /\ c.to \in Compat /\ "schema" \in c.wants /\ llmScene.names
               /\ ~llmScene.broken /\ "schema" \notin llmScene.unknown
               => "schema" \in c.body

LEMMA Asks ==
  ASSUME CallInv, SceneStays, NEW c, Asking(c), Survives(c), chat' = c, llm' = llm
  PROVE  CallInv'
BY DEF CallInv, SceneStays, Asking, Survives, SchemaTold, SchemaSurvives, FieldsNeverFail,
       LlmAttempts

LEMMA FirstAsks ==
  ASSUME NEW wants \in SUBSET OptionalFields
  PROVE  Asking(LlmRequest(wants)) /\ Survives(LlmRequest(wants))
<1>1. PICK p : p = llm.provider
  OBVIOUS
<1>2. PICK b : b = FirstBody(p, wants)
  OBVIOUS
<1>3. LlmRequest(wants) = [at |-> "asking", to |-> p, wants |-> wants, try |-> 1, body |-> b,
                           bundled |-> FALSE, unschema |-> FALSE, troubles |-> 0]
  BY <1>1, <1>2 DEF LlmRequest
<1>4. b \subseteq {"seed", "schema"} \/ b \subseteq {"effort", "schema"}
  BY <1>2 DEF FirstBody, OptionalFields
<1>5. p \in Compat => ("schema" \in b <=> "schema" \in wants)
  BY <1>2 DEF FirstBody, OptionalFields, Compat
<1>6. p = "anthropic" => b = {}
  BY <1>2 DEF FirstBody
<1>7. Left(b) \in {0, 1, 2}
  BY DEF Left
<1>8. PICK c : c = LlmRequest(wants)
  OBVIOUS
<1>9. /\ c.at = "asking" /\ c.to = p /\ c.wants = wants /\ c.try = 1 /\ c.body = b
      /\ c.bundled = FALSE /\ c.unschema = FALSE /\ c.troubles = 0
      /\ c = [f \in CallFields |-> c[f]]
  BY <1>3, <1>8 DEF CallFields
<1>10. Carries(c)
  BY <1>4, <1>9 DEF Carries
<1>11. Asking(c)
  <2>1. c.try + Left(c.body) <= c.troubles + 3 /\ c.try \in 1 .. LlmAttempts
    BY <1>7, <1>9 DEF LlmAttempts
  <2>2. c.to \in Compat => ("schema" \in c.body <=> "schema" \in c.wants /\ ~c.unschema)
    BY <1>5, <1>9
  <2>3. c.bundled \in BOOLEAN /\ c.unschema \in BOOLEAN /\ ~c.bundled
    BY <1>9, Zenon
  <2>4. c.to = "anthropic" => c.body = {}
    BY <1>6, <1>9
  <2>5. c.troubles \in Nat
    BY <1>9
  <2> QED BY <1>9, <1>10, <2>1, <2>2, <2>3, <2>4, <2>5 DEF Asking
<1> QED BY <1>5, <1>8, <1>9, <1>11 DEF Survives

LEMMA CallsKeep ==
  ASSUME CallInv, Ask \/ Paste \/ Chat \/ Test
  PROVE  CallInv'
<1>1. SceneStays /\ llm' = llm
  <2>1. CASE UNCHANGED llmScene
    BY <2>1 DEF SceneStays, CallInv, SceneOK, Ask, Paste, Chat, Test
  <2>2. CASE Clicks("calls")
    BY <2>2, CounterMoves DEF SceneStays, CallInv, Ask, Paste, Chat, Test
  <2> QED BY <2>1, <2>2 DEF Ask, Paste, Chat, Test
<1>2. CASE Ask
  <2>1. PICK wants \in llmScene.wants :
          chat' = CASE llm = NoLlmRow \/ ~llm.on -> NoChat
                    [] OTHER -> IF llm.provider = "manual" THEN [at |-> "pasting"]
                                ELSE [at |-> "named", wants |-> wants]
    BY <1>2 DEF Ask
  <2>2. wants \in SUBSET OptionalFields
    BY <2>1 DEF CallInv, SceneOK
  <2>3. chat' \in {NoChat, [at |-> "pasting"], [at |-> "named", wants |-> wants]}
    BY <2>1
  <2> QED BY <1>1, <2>2, <2>3, Plain, Settles
<1>3. CASE Paste
  BY <1>1, <1>3, Plain, Settles DEF Paste
<1>4. CASE Chat \/ Test
  <2>1. PICK wants \in SUBSET OptionalFields : chat' \in {LlmRequest(wants), Failed("config")}
    BY <1>4 DEF Chat, Test, CallInv
  <2>2. CASE chat' = LlmRequest(wants)
    BY <1>1, <2>2, FirstAsks, Asks
  <2> QED BY <1>1, <2>1, <2>2, Plain, Settles
<1> QED BY <1>2, <1>3, <1>4

(* What counts for a request that carries the same body.                   *)
LEMMA SameBody ==
  ASSUME NEW c, Asking(c), NEW d, d = [f \in CallFields |-> d[f]], d.at = "asking",
         d.to = c.to, d.wants = c.wants, d.body = c.body, d.unschema = c.unschema,
         d.bundled \in BOOLEAN, d.bundled => d.body = {}, d.try \in 1 .. LlmAttempts,
         d.troubles \in Nat, d.try + Left(d.body) <= d.troubles + 3
  PROVE  Asking(d) /\ (Survives(c) => Survives(d))
<1>1. Carries(d) /\ d.unschema \in BOOLEAN /\ (d.to = "anthropic" => d.body = {})
  BY DEF Asking, Carries
<1>2. d.to \in Compat => ("schema" \in d.body <=> "schema" \in d.wants /\ ~d.unschema)
  BY DEF Asking
<1>3. Asking(d)
  BY <1>1, <1>2 DEF Asking
<1>4. Survives(c) => Survives(d)
  BY DEF Survives
<1> QED BY <1>3, <1>4

(* A request that goes again: stripped of fields, or after trouble.        *)
LEMMA GoesAgain ==
  ASSUME CallInv, SceneStays, llm' = llm, NEW c, Asking(c), Survives(c),
         c.try + Left(c.body) <= c.troubles + 2, c.try = LlmAttempts => c.troubles >= 2,
         chat' = Again(c)
  PROVE  CallInv'
<1>1. CASE c.try # LlmAttempts
  <2>1. chat' = [c EXCEPT !.try = @ + 1]
    BY <1>1 DEF Again
  <2>2. PICK d : d = [c EXCEPT !.try = @ + 1]
    OBVIOUS
  <2>3. /\ d.at = "asking" /\ d.to = c.to /\ d.wants = c.wants /\ d.try = c.try + 1
        /\ d.body = c.body /\ d.bundled = c.bundled /\ d.unschema = c.unschema
        /\ d.troubles = c.troubles /\ d = [f \in CallFields |-> d[f]]
    BY <2>2 DEF Asking, CallFields
  <2>4. /\ c.try \in 1 .. LlmAttempts /\ c.troubles \in Nat /\ c.bundled \in BOOLEAN
        /\ c.bundled => c.body = {}
    BY DEF Asking
  <2>5. Left(c.body) \in Nat
    BY DEF Left
  <2>6. d.try \in 1 .. LlmAttempts /\ d.try + Left(d.body) <= d.troubles + 3
    BY <1>1, <2>3, <2>4, <2>5 DEF LlmAttempts
  <2> QED BY <2>1, <2>2, <2>3, <2>4, <2>6, SameBody, Asks
<1>2. CASE c.try = LlmAttempts
  BY <1>2 DEF Again, CallInv, SceneStays, SchemaTold, SchemaSurvives, FieldsNeverFail
<1> QED BY <1>1, <1>2

LEMMA Stripped ==
  ASSUME NEW c, Asking(c), NEW fields, c.body \cap fields # {}, NEW d, d = Strip(c, fields)
  PROVE  /\ Asking(d) /\ d.body = c.body \ fields
         /\ d.to = c.to /\ d.wants = c.wants /\ d.try = c.try
         /\ d.try + Left(d.body) <= d.troubles + 2
         /\ d.try = LlmAttempts => d.troubles >= 2
<1>1. PICK b : b = c.body \ fields
  OBVIOUS
<1>2. PICK u \in BOOLEAN : u = (c.unschema \/ "schema" \in fields \cap c.body)
  OBVIOUS
<1>3. d = [c EXCEPT !.body = b, !.unschema = u]
  BY <1>1, <1>2, Zenon DEF Strip
<1>4. /\ d.at = "asking" /\ d.to = c.to /\ d.wants = c.wants /\ d.try = c.try /\ d.body = b
      /\ d.bundled = c.bundled /\ d.unschema = u /\ d.troubles = c.troubles
      /\ d = [f \in CallFields |-> d[f]]
  <2>1. c = [f \in CallFields |-> c[f]] /\ c.at = "asking"
    BY DEF Asking
  <2>2. d = [f \in CallFields |-> d[f]]
    BY <1>3, <2>1
  <2> QED BY <1>3, <2>1, <2>2 DEF CallFields
<1>5. Left(b) + 1 <= Left(c.body) /\ Left(b) \in Nat /\ Left(c.body) \in Nat
  <2>1. Carries(c)
    BY DEF Asking
  <2>2. \E f \in c.body : f \in fields
    OBVIOUS
  <2> QED BY <1>1, <2>1, <2>2 DEF Left, Carries
<1>6. c.try \in Nat /\ c.troubles \in Nat /\ c.try + Left(c.body) <= c.troubles + 3
  BY DEF Asking, LlmAttempts
<1>7. c.try + Left(b) <= c.troubles + 2 /\ c.try + Left(b) <= c.troubles + 3
      /\ (c.try = 4 => c.troubles >= 2)
  BY <1>5, <1>6
<1>8. Carries(d) /\ d.try \in 1 .. LlmAttempts /\ d.troubles \in Nat
      /\ d.bundled \in BOOLEAN /\ d.unschema \in BOOLEAN /\ (d.bundled => d.body = {})
  <2>1. Carries(d)
    BY <1>1, <1>4 DEF Asking, Carries
  <2>2. c.bundled => b = {}
    BY <1>1 DEF Asking
  <2>3. c.try \in 1 .. LlmAttempts /\ c.troubles \in Nat /\ c.bundled \in BOOLEAN
    BY DEF Asking
  <2> QED BY <2>1, <2>2, <2>3, <1>2, <1>4
<1>9. d.to \in Compat => ("schema" \in d.body <=> "schema" \in d.wants /\ ~d.unschema)
  <2>1. c.to \in Compat => ("schema" \in c.body <=> "schema" \in c.wants /\ ~c.unschema)
    BY DEF Asking
  <2>2. c.to \in Compat => ("schema" \in b <=> "schema" \in c.wants /\ ~u)
    BY <2>1, <1>1, <1>2
  <2> QED BY <2>2, <1>4
<1>10. d.to = "anthropic" => d.body = {}
  BY <1>1, <1>4 DEF Asking
<1>11. Asking(d)
  BY <1>4, <1>7, <1>8, <1>9, <1>10 DEF Asking
<1> QED BY <1>1, <1>4, <1>7, <1>11 DEF LlmAttempts

LEMMA RefusesKeeps ==
  ASSUME CallInv, Refuses
  PROVE  CallInv'
<1>1. SceneStays /\ llm' = llm
  BY DEF SceneStays, CallInv, SceneOK, Refuses
<1>2. Asking(chat)
  BY DEF CallInv, Refuses, Sent
<1>3. ASSUME NEW f \in chat.body \cap llmScene.unknown, llmScene.names,
             chat' = Again(Strip(chat, {f}))
      PROVE  CallInv'
  <2>1. PICK d : d = Strip(chat, {f})
    OBVIOUS
  <2>2. Survives(d)
    <3>1. d.to = chat.to /\ d.wants = chat.wants /\ d.body = chat.body \ {f}
      BY <1>2, <1>3, <2>1, Stripped
    <3>2. chat.at = "asking"
      BY <1>2 DEF Asking
    <3> QED BY <1>3, <3>1, <3>2 DEF Survives, CallInv, SchemaSurvives
  <2>3. /\ Asking(d) /\ d.try + Left(d.body) <= d.troubles + 2
        /\ d.try = LlmAttempts => d.troubles >= 2
    BY <1>2, <1>3, <2>1, Stripped
  <2> QED BY <1>1, <1>3, <2>1, <2>2, <2>3, GoesAgain
<1>4. ASSUME ~llmScene.names \/ chat.body \cap llmScene.unknown = {},
             chat.body # {}, ~chat.bundled,
             chat' = Again([Strip(chat, OptionalFields) EXCEPT !.bundled = TRUE])
      PROVE  CallInv'
  <2>1. PICK d : d = Strip(chat, OptionalFields)
    OBVIOUS
  <2>2. chat.body \subseteq OptionalFields
    BY <1>2 DEF Asking, Carries, OptionalFields
  <2>3. /\ Asking(d) /\ d.body = {} /\ d.try + Left(d.body) <= d.troubles + 2
        /\ d.try = LlmAttempts => d.troubles >= 2
    <3>1. chat.body \cap OptionalFields # {} /\ chat.body \ OptionalFields = {}
      BY <1>4, <2>2
    <3>2. /\ Asking(d) /\ d.body = chat.body \ OptionalFields
          /\ d.try + Left(d.body) <= d.troubles + 2 /\ (d.try = LlmAttempts => d.troubles >= 2)
      BY <1>2, <2>1, <3>1, Stripped
    <3> QED BY <3>1, <3>2
  <2>4. PICK e : e = [d EXCEPT !.bundled = TRUE]
    OBVIOUS
  <2>5. /\ e.at = "asking" /\ e.to = d.to /\ e.wants = d.wants /\ e.try = d.try
        /\ e.body = d.body /\ e.bundled = TRUE /\ e.unschema = d.unschema
        /\ e.troubles = d.troubles /\ e = [f \in CallFields |-> e[f]]
    BY <2>3, <2>4 DEF Asking, CallFields
  <2>6. Asking(e) /\ e.body = {} /\ e.try = d.try /\ e.troubles = d.troubles
    BY <2>3, <2>5 DEF Asking, Carries
  <2>7. Survives(e)
    BY <1>4 DEF Survives, Refuses
  <2> QED BY <1>1, <1>4, <2>1, <2>3, <2>4, <2>6, <2>7, GoesAgain
<1>5. ASSUME ~llmScene.names \/ chat.body \cap llmScene.unknown = {},
             chat.body = {} \/ chat.bundled, chat' = Failed("4xx")
      PROVE  CallInv'
  <2>1. llmScene.broken
    BY <1>2, <1>5 DEF Refuses, Asking
  <2> QED
    BY <1>1, <1>5, <2>1 DEF CallInv, SceneStays, Failed, SchemaTold, SchemaSurvives, FieldsNeverFail
<1> QED BY <1>3, <1>4, <1>5 DEF Refuses

LEMMA AnswerKeeps ==
  ASSUME CallInv, EndpointAnswers
  PROVE  CallInv'
<1>1. SceneStays /\ llm' = llm
  BY DEF SceneStays, CallInv, SceneOK, EndpointAnswers
<1>2. Asking(chat) /\ Survives(chat) /\ chat.to \in Compat \cup {"anthropic"}
  BY DEF CallInv, EndpointAnswers, Sent, SchemaSurvives, Survives
<1>3. chat' = [at |-> "answered", wants |-> chat.wants, to |-> chat.to, body |-> chat.body,
               applied |-> "schema" \in chat.wants /\ chat.to \in Compat /\ ~chat.unschema]
  BY DEF EndpointAnswers
<1>4. /\ chat'.at = "answered" /\ chat'.wants = chat.wants
      /\ chat'.to = chat.to /\ chat'.body = chat.body
      /\ chat'.applied = ("schema" \in chat.wants /\ chat.to \in Compat /\ ~chat.unschema)
  BY <1>3
<1>5. SchemaTold'
  BY <1>2, <1>4 DEF SchemaTold, Asking, Compat
<1>6. SchemaSurvives'
  BY <1>1, <1>2, <1>4 DEF SchemaSurvives, Survives, SceneStays
<1> QED BY <1>1, <1>4, <1>5, <1>6 DEF CallInv, SceneStays, FieldsNeverFail

LEMMA TroubleKeeps ==
  ASSUME CallInv, Trouble
  PROVE  CallInv'
<1>1. SceneStays /\ llm' = llm
  BY CounterMoves DEF SceneStays, CallInv, Trouble
<1>2. Asking(chat) /\ Survives(chat)
  BY DEF CallInv, Trouble, SchemaSurvives, Survives
<1>3. PICK c : c = [chat EXCEPT !.troubles = @ + 1]
  OBVIOUS
<1>4. /\ c.at = "asking" /\ c.to = chat.to /\ c.wants = chat.wants /\ c.try = chat.try
      /\ c.body = chat.body /\ c.bundled = chat.bundled /\ c.unschema = chat.unschema
      /\ c.troubles = chat.troubles + 1 /\ c = [f \in CallFields |-> c[f]]
  BY <1>2, <1>3 DEF Asking, CallFields
<1>5. Left(chat.body) \in Nat
  BY DEF Left
<1>6. Asking(c) /\ Survives(c) /\ c.try + Left(c.body) <= c.troubles + 2
  <2>1. /\ chat.try \in 1 .. LlmAttempts /\ chat.troubles \in Nat /\ chat.bundled \in BOOLEAN
        /\ chat.bundled => chat.body = {}
        /\ chat.try + Left(chat.body) <= chat.troubles + 3
    BY <1>2 DEF Asking
  <2>2. c.try + Left(c.body) <= c.troubles + 2 /\ c.try + Left(c.body) <= c.troubles + 3
        /\ c.troubles \in Nat
    BY <1>4, <1>5, <2>1 DEF LlmAttempts
  <2> QED BY <1>2, <1>4, <2>1, <2>2, SameBody
<1>7. chat' = Failed("trouble") \/ (chat' = Again(c) /\ c.try # LlmAttempts)
  <2>1. PICK kind \in {"throttled", "down"}, fits \in BOOLEAN :
          chat' = IF /\ chat.to \in Compat /\ fits
                     /\ IF kind = "throttled" THEN c.try = 1 ELSE c.try < LlmAttempts
                  THEN Again(c) ELSE Failed("trouble")
    BY <1>3 DEF Trouble
  <2> QED BY <2>1 DEF LlmAttempts
<1>8. CASE chat' = Failed("trouble")
  BY <1>1, <1>8, Plain, Settles
<1> QED BY <1>1, <1>6, <1>7, <1>8, GoesAgain

LEMMA EndsKeep ==
  ASSUME CallInv, AnthropicFails \/ TimesOut \/ Show
  PROVE  CallInv'
<1>1. SceneStays /\ llm' = llm
  BY DEF SceneStays, CallInv, SceneOK, AnthropicFails, TimesOut, Show
<1>2. chat' \in {Failed("http"), Failed("timeout"), NoChat}
  BY DEF AnthropicFails, TimesOut, Show
<1> QED BY <1>1, <1>2, Plain, Settles

(* Whatever is saved, deleted or lost meanwhile, for any endpoint.         *)
THEOREM CallInvariant == LlmSpec => []CallInv
<1>1. LlmInit => CallInv
  <2> SUFFICES ASSUME LlmInit PROVE CallInv
    OBVIOUS
  <2>1. SceneOK /\ LlmRowOK(llm)
    BY LlmAssumption DEF LlmInit, SceneOK
  <2> QED BY <2>1 DEF LlmInit, NoChat, CallInv, SchemaTold, SchemaSurvives, FieldsNeverFail
<1>2. CallInv /\ [LlmNext]_llmVars => CallInv'
  <2> SUFFICES ASSUME CallInv, [LlmNext]_llmVars PROVE CallInv'
    OBVIOUS
  <2>1. CASE UNCHANGED llmVars
    BY <2>1, CallStays DEF llmVars, CallInv, SceneStays, SceneOK
  <2> QED BY <2>1, PanelKeeps, CallsKeep, RefusesKeeps, AnswerKeeps, TroubleKeeps, EndsKeep
          DEF LlmNext
<1> QED BY <1>1, <1>2, PTL DEF LlmSpec

(* A provider that needs a key has one, the caller is told of its schema   *)
(* what was on the wire, a field that is refused by name takes no other    *)
(* with it, and fields that are refused never make a call fail.            *)
THEOREM FaithKept == DeskSpec => []CallsKeepFaith
<1>1. CallInv => CallsKeepFaith
  BY DEF CallInv, CallsKeepFaith, LlmRowOK, KeyedHasKey, HasKey
<1>2. DeskInit => LlmInit
  BY DEF DeskInit
<1>3. [DeskNext]_<<vars, llmVars, desk>> => [LlmNext]_llmVars
  BY DEF DeskNext
<1> QED BY <1>1, <1>2, <1>3, CallInvariant, PTL DEF DeskSpec, LlmSpec

-----------------------------------------------------------------------------
(* The workspace page: its presses, its reads, and the row.                *)
PageFields == {"driver", "cur", "pick", "press", "saving", "sending", "read", "late",
               "crossed", "failed", "spinner", "prompt", "dialog"}
DealFields == {"st", "text", "src", "pick", "gen", "pdf"}

PressOK(a) == /\ a = [f \in DOMAIN a |-> a[f]] /\ "op" \in DOMAIN a
              /\ a.op = "writing" => a.n \in Nat
ReadOK(r) == r = [f \in DOMAIN r |-> r[f]] /\ "at" \in DOMAIN r
(* The press that waits for a read waits for one.                          *)
Waits(r) == r # NoRead /\ "press" \in r.ends
Awaited(p) == /\ Waits(p.read) \/ Waits(p.late) => p.press.op = "reading"
              /\ ~(Waits(p.read) /\ Waits(p.late))
PageOK(p) == /\ p = [f \in PageFields |-> p[f]]
             /\ PressOK(p.press) /\ ReadOK(p.read) /\ ReadOK(p.late) /\ Awaited(p)
             /\ p.crossed \in BOOLEAN /\ p.failed \in BOOLEAN
PagesOK == /\ IsFiniteSet(Tabs) /\ pages = [t \in Tabs |-> pages[t]]
           /\ \A t \in Tabs : PageOK(pages[t])

(* The row: a text of Gamma's has its own PDF or none.                     *)
DealOK(d) == /\ d = [f \in DealFields |-> d[f]] /\ d.text \in Int
             /\ d.text > 0 => d.pdf \in {NoDraft, d.text}
RowFits == /\ DealOK(deal) /\ made \in Nat
         /\ deckJob = [f \in {"state", "deck", "n"} |-> deckJob[f]] /\ deckJob.n \in Nat

(* What the row will be for the page when an LLM call that writes for it   *)
(* fails: the status that the call took is given back.                     *)
RestsOn(p, d) == IF p.press.op = "writing" /\ d.st = "drafting"
                 THEN [st |-> p.press.was, text |-> d.text, src |-> d.src] ELSE Shown(d)
(* A page that shows c tells of such a row: it is the row, or the page     *)
(* goes on asking, or nothing is drafted.                                  *)
Tells(c, b) == c = b \/ (b.text = NoDraft /\ b.st # "drafting") \/ c.st = "drafting"

(* Of a tab alone whose answers did not cross: one read is on its way at   *)
(* most, and the page tells of the row, or what the read brings will.      *)
TrueTo(p, d) ==
  ~p.crossed => /\ p.late = NoRead
                /\ p.read = NoRead => Tells(p.cur, RestsOn(p, d)) \/ p.failed
                /\ p.read.at = "shows" => Tells(p.read.cur, RestsOn(p, d))
StudioInv == PagesOK /\ RowFits /\ (Alone => \A t \in Tabs : TrueTo(pages[t], deal))

LEMMA OneTab ==
  ASSUME PagesOK, Alone, NEW t \in Tabs, NEW u \in Tabs
  PROVE  t = u
BY FS_Singleton DEF PagesOK, Alone

(* A page that is another, and the row.                                    *)
LEMMA PageTurns ==
  ASSUME StudioInv, NEW t \in Tabs, NEW x, PageOK(x), Then(t, x), scene' = scene,
         Alone => TrueTo(x, deal'), RowFits'
  PROVE  StudioInv'
<1>1. Tabs' = Tabs /\ (Alone' <=> Alone)
  BY DEF Tabs, Alone
<1>2. pages' = [u \in Tabs |-> IF u = t THEN x ELSE pages[u]]
  BY DEF StudioInv, PagesOK, Then
<1>3. PagesOK'
  BY <1>1, <1>2 DEF StudioInv, PagesOK
<1>4. ASSUME Alone, NEW u \in Tabs PROVE TrueTo(pages'[u], deal')
  BY <1>2, <1>4, OneTab DEF StudioInv
<1> QED BY <1>1, <1>3, <1>4 DEF StudioInv

(* What a page tells stays true while it shows the same and the row rests  *)
(* where it did, or is left without a draft.                               *)
View(p, x) == /\ x.cur = p.cur /\ x.read = p.read /\ x.late = p.late
              /\ x.crossed = p.crossed /\ x.failed = p.failed
LEMMA TellsOn ==
  ASSUME NEW p, NEW d, NEW x, NEW e, TrueTo(p, d), View(p, x),
         NEW b, NEW c, b = RestsOn(p, d), c = RestsOn(x, e),
         c = b \/ (c.text = NoDraft /\ c.st # "drafting")
  PROVE  TrueTo(x, e)
BY DEF TrueTo, View, Tells

(* A page that asks has nothing to tell yet.                               *)
MayAsk(p, ends) == "press" \in ends => p.press.op = "reading" /\ ~Waits(p.read) /\ ~Waits(p.late)
LEMMA Refetches ==
  ASSUME NEW p, PageOK(p), NEW ends, MayAsk(p, ends), NEW d, NEW x, x = Refetch(p, ends)
  PROVE  PageOK(x) /\ TrueTo(x, d) /\ x.press = p.press
<1>1. PICK r : r = [at |-> "asked", ends |-> ends]
  OBVIOUS
<1>2. PICK l : l = IF p.read # NoRead THEN p.read ELSE p.late
  OBVIOUS
<1>3. PICK c \in BOOLEAN : c = Pending(p)
  BY DEF Pending
<1>4. x = [p EXCEPT !.read = r, !.late = l, !.crossed = c]
  BY <1>1, <1>2, <1>3 DEF Refetch
<1>5. /\ x.read = r /\ x.late = l /\ x.crossed = c /\ x.press = p.press /\ x.failed = p.failed
      /\ x = [f \in PageFields |-> x[f]]
  BY <1>4 DEF PageOK, PageFields
<1>6. ReadOK(r) /\ r # NoRead /\ r.at = "asked" /\ ReadOK(l)
  BY <1>1, <1>2 DEF ReadOK, NoRead, PageOK
<1>7. PageOK(x)
  <2>1. r.ends = ends
    BY <1>1
  <2>2. Awaited(x)
    BY <1>2, <1>5, <1>6, <2>1 DEF PageOK, Awaited, MayAsk, Waits
  <2> QED BY <1>5, <1>6, <2>2 DEF PageOK
<1>8. ~c => l = NoRead
  BY <1>2, <1>3 DEF Pending
<1>9. TrueTo(x, d)
  BY <1>5, <1>6, <1>8 DEF TrueTo
<1> QED BY <1>5, <1>7, <1>9
-----------------------------------------------------------------------------
(* The presses.                                                            *)
Idles(a) == a.op # "writing"
LEMMA PressKeeps ==
  ASSUME StudioInv, NEW t \in Tabs, NEW p, p = pages[t], NEW x, PressWith(t, x),
         x = [f \in PageFields |-> x[f]], View(p, x), PressOK(x.press),
         x.press = p.press \/ (p.press = NoPress /\ Idles(x.press))
  PROVE  StudioInv'
<1>0. NoPress.op = "none"
  BY DEF NoPress
<1>1. PageOK(p) /\ PageOK(x)
  BY <1>0 DEF StudioInv, PagesOK, PageOK, View, Awaited
<1>2. Then(t, x) /\ scene' = scene /\ deal' = deal /\ RowFits'
  BY DEF PressWith, Then, studio, StudioInv, RowFits
<1>3. RestsOn(x, deal) = RestsOn(p, deal)
  BY <1>0 DEF RestsOn, Idles
<1>4. ASSUME Alone PROVE TrueTo(x, deal')
  <2>1. PICK b : b = RestsOn(p, deal)
    OBVIOUS
  <2> QED BY <1>2, <1>3, <1>4, <2>1, TellsOn DEF StudioInv
<1> QED BY <1>1, <1>2, <1>4, PageTurns

LEMMA NoPressIs == PressOK(NoPress) /\ Idles(NoPress) /\ ReadOK(NoRead) /\ NoRead.at = "none"
BY DEF NoPress, PressOK, Idles, NoRead, ReadOK

LEMMA ReloadKeeps ==
  ASSUME StudioInv, NEW t \in Tabs, Reload(t)
  PROVE  StudioInv'
<1>1. PICK x : x = NewPage(t) /\ PressWith(t, x)
  BY DEF Reload
<1>2. /\ x = [f \in PageFields |-> x[f]] /\ x.press = NoPress /\ x.read = NoRead /\ x.late = NoRead
      /\ x.crossed = FALSE /\ x.failed = FALSE /\ x.cur = Shown(deal)
  <2>1. PICK d, c, k, n, r : d = DriverOn(scene.roles[t]) /\ c = Shown(deal) /\ n = NoPress /\ r = NoRead
          /\ k = IF d = "gamma" THEN Resolve(NoDeck) ELSE NoDeck
    OBVIOUS
  <2>2. x = [driver |-> d, cur |-> c, pick |-> k, press |-> n, saving |-> n, sending |-> n,
             read |-> r, late |-> r, crossed |-> FALSE, failed |-> FALSE,
             spinner |-> FALSE, prompt |-> FALSE, dialog |-> NoDraft]
    BY <1>1, <2>1 DEF NewPage
  <2> QED BY <2>1, <2>2 DEF PageFields
<1>3. PageOK(x) /\ Then(t, x) /\ scene' = scene /\ deal' = deal /\ RowFits'
  BY <1>1, <1>2, NoPressIs DEF PressWith, Then, studio, StudioInv, RowFits, PageOK, Awaited, Waits
<1>4. RestsOn(x, deal) = Shown(deal)
  BY <1>2, NoPressIs DEF RestsOn, Idles
<1>5. TrueTo(x, deal')
  BY <1>2, <1>3, <1>4, NoPressIs DEF TrueTo, Tells
<1> QED BY <1>3, <1>5, PageTurns

LEMMA PressedKeeps ==
  ASSUME StudioInv, NEW t \in Tabs, Pressed(t)
  PROVE  StudioInv'
<1> PICK p : p = pages[t]
  OBVIOUS
<1>0. PageOK(p) /\ p = [f \in PageFields |-> p[f]]
  BY DEF StudioInv, PagesOK, PageOK
<1>1. ASSUME NEW d, PickDeck(t, d) PROVE StudioInv'
  <2>1. PICK a, x : x = [p EXCEPT !.pick = d, !.saving = a] /\ PressWith(t, x)
    BY <1>1 DEF PickDeck
  <2>2. View(p, x) /\ x.press = p.press /\ x = [f \in PageFields |-> x[f]]
    BY <1>0, <2>1 DEF View, PageFields
  <2> QED BY <1>0, <2>1, <2>2, PressKeeps DEF PageOK
<1>2. ASSUME p.press = NoPress, NEW a, PressOK(a), Idles(a), NEW x, x = [p EXCEPT !.press = a],
             PressWith(t, x)
      PROVE  StudioInv'
  <2>1. View(p, x) /\ x.press = a /\ x = [f \in PageFields |-> x[f]]
    BY <1>0, <1>2 DEF View, PageFields
  <2> QED BY <1>2, <2>1, NoPressIs, PressKeeps
<1>3. ASSUME NEW op, op # "writing", NEW d PROVE PressOK([op |-> op, deck |-> d]) /\ Idles([op |-> op, deck |-> d])
  BY <1>3 DEF PressOK, Idles
<1>4. ASSUME PressGenerate(t) PROVE StudioInv'
  <2>1. PICK a : a = [op |-> "generate", deck |-> Forwarded(p)]
    OBVIOUS
  <2> QED BY <1>2, <1>3, <1>4, <2>1 DEF PressGenerate, Free
<1>5. ASSUME PressMark(t) PROVE StudioInv'
  <2>1. PICK a : a = [op |-> "mark", deck |-> NoDeck]
    OBVIOUS
  <2> QED BY <1>2, <1>3, <1>5, <2>1 DEF PressMark
<1>6. ASSUME NEW op, PressPrompt(t, op) PROVE StudioInv'
  <2>1. CASE op = "cancel"
    <3>1. PICK x : x = [p EXCEPT !.prompt = FALSE] /\ PressWith(t, x)
      BY <1>6, <2>1 DEF PressPrompt
    <3>2. View(p, x) /\ x.press = p.press /\ x = [f \in PageFields |-> x[f]]
      BY <1>0, <3>1 DEF View, PageFields
    <3> QED BY <1>0, <3>1, <3>2, PressKeeps DEF PageOK
  <2>2. CASE op # "cancel"
    <3>1. PICK a : a = [op |-> "paste", deck |-> NoDeck]
      OBVIOUS
    <3> QED BY <1>2, <1>3, <1>6, <2>2, <3>1 DEF PressPrompt, Free
  <2> QED BY <2>1, <2>2
<1>7. ASSUME PressRegenerate(t) PROVE StudioInv'
  <2>1. PICK a : a = [op |-> "clear", deck |-> Forwarded(p)]
    OBVIOUS
  <2>2. PICK y : y = [p EXCEPT !.spinner = TRUE, !.press = a]
    OBVIOUS
  <2>3. PICK x : x = ShowRow(y, p.cur) /\ PressWith(t, x)
    BY <1>7, <2>1, <2>2 DEF PressRegenerate
  <2>4. View(p, y) /\ y.press = a /\ y = [f \in PageFields |-> y[f]]
    BY <1>0, <2>2 DEF View, PageFields
  <2>5. PICK c, b : x = [y EXCEPT !.cur = c, !.spinner = b] /\ c = p.cur
    BY <2>3 DEF ShowRow
  <2>6. View(p, x) /\ x.press = a /\ x = [f \in PageFields |-> x[f]]
    BY <2>4, <2>5 DEF View, PageFields
  <2> QED BY <1>3, <1>7, <2>1, <2>3, <2>6, NoPressIs, PressKeeps DEF PressRegenerate, Free
<1>8. ASSUME NEW d, NEW x, x = [p EXCEPT !.dialog = d] \/ x = [p EXCEPT !.sending = d], PressWith(t, x)
      PROVE  StudioInv'
  <2>1. View(p, x) /\ x.press = p.press /\ x = [f \in PageFields |-> x[f]]
    BY <1>0, <1>8 DEF View, PageFields
  <2> QED BY <1>0, <1>8, <2>1, PressKeeps DEF PageOK
<1>9. ASSUME OpenDialog(t) \/ CloseDialog(t) \/ PressSend(t) PROVE StudioInv'
  BY <1>8, <1>9 DEF OpenDialog, CloseDialog, PressSend
<1> QED BY <1>1, <1>4, <1>5, <1>6, <1>7, <1>9, ReloadKeeps DEF Pressed
-----------------------------------------------------------------------------
(* The server.  The row with another status, another pick, another text.   *)
LEMMA RowTouched ==
  ASSUME NEW d, DealOK(d), NEW s, NEW k, NEW e,
         e = [d EXCEPT !.st = s] \/ e = [d EXCEPT !.pick = k]
  PROVE  /\ DealOK(e) /\ e.text = d.text /\ e.src = d.src
         /\ e.st = s \/ e.st = d.st
         /\ e = [d EXCEPT !.st = s] => e.st = s
         /\ e = [d EXCEPT !.pick = k] => Shown(e) = Shown(d)
BY DEF DealOK, DealFields, Shown

LEMMA PickKeeps ==
  ASSUME StudioInv, NEW t \in Tabs, ServePick(t)
  PROVE  StudioInv'
<1> PICK p, d : p = pages[t] /\ d = p.saving.deck
  OBVIOUS
<1>0. PageOK(p) /\ pages = [u \in Tabs |-> pages[u]]
  BY DEF StudioInv, PagesOK
<1>1. PICK e : /\ deal' = e /\ DealOK(e) /\ Shown(e) = Shown(deal)
  <2>1. CASE deal' = [deal EXCEPT !.pick = d]
    BY <2>1, RowTouched DEF StudioInv, RowFits
  <2> QED BY <2>1 DEF ServePick, StudioInv, RowFits
<1>2. PICK x : /\ Then(t, x) /\ View(p, x) /\ x.press = p.press /\ x = [f \in PageFields |-> x[f]]
  <2>1. PICK n : n = NoPress
    OBVIOUS
  <2>2. PICK x : /\ x = [p EXCEPT !.saving = n] \/ \E k : x = [p EXCEPT !.saving = n, !.pick = k]
                 /\ pages' = [pages EXCEPT ![t] = x]
    BY <1>0, <2>1 DEF ServePick
  <2>3. View(p, x) /\ x.press = p.press /\ x = [f \in PageFields |-> x[f]]
    BY <1>0, <2>2 DEF View, PageFields, PageOK
  <2> QED BY <2>2, <2>3 DEF Then
<1>3. PageOK(x) /\ RowFits' /\ scene' = scene
  BY <1>0, <1>1, <1>2 DEF PageOK, View, ServePick, RowFits, StudioInv, Awaited
<1>4. RestsOn(x, e) = RestsOn(p, deal)
  BY <1>1, <1>2 DEF RestsOn, Shown
<1>5. ASSUME Alone PROVE TrueTo(x, deal')
  <2>1. PICK b : b = RestsOn(p, deal)
    OBVIOUS
  <2> QED BY <1>1, <1>2, <1>4, <1>5, <2>1, TellsOn DEF StudioInv
<1> QED BY <1>2, <1>3, <1>5, PageTurns

(* A page whose press moves on without a read.                             *)
Turned(p, a, x) == /\ PressOK(a) /\ View(p, x) /\ x.press = a /\ x = [f \in PageFields |-> x[f]]
                   /\ a = p.press \/ p.press.op # "reading"
Rested(b, c) == c = b \/ (c.text = NoDraft /\ c.st # "drafting")
LEMMA PressTurns ==
  ASSUME StudioInv, NEW t \in Tabs, NEW p, p = pages[t], NEW a, NEW x, Turned(p, a, x), Then(t, x),
         NEW e, deal' = e, DealOK(e), deckJob' = deckJob, made' \in Nat, scene' = scene,
         Rested(RestsOn(p, deal), RestsOn(x, e))
  PROVE  StudioInv'
<1>1. PageOK(x) /\ RowFits'
  BY DEF StudioInv, PagesOK, PageOK, View, RowFits, Turned, Awaited
<1>2. ASSUME Alone PROVE TrueTo(x, deal')
  <2>1. PICK b, c : b = RestsOn(p, deal) /\ c = RestsOn(x, e)
    OBVIOUS
  <2> QED BY <1>2, <2>1, TellsOn DEF StudioInv, Turned, Rested
<1> QED BY <1>1, <1>2, PageTurns

(* A page that asks once its press was answered.                           *)
LEMMA ReadTurns ==
  ASSUME StudioInv, NEW t \in Tabs, NEW p, PageOK(p), NEW ends, MayAsk(p, ends),
         Then(t, Refetch(p, ends)),
         scene' = scene, RowFits'
  PROVE  StudioInv'
<1>1. PICK x : x = Refetch(p, ends) /\ Then(t, x)
  OBVIOUS
<1>2. PICK d : d = deal'
  OBVIOUS
<1>3. PageOK(x) /\ TrueTo(x, d)
  BY <1>1, Refetches
<1> QED BY <1>1, <1>2, <1>3, PageTurns

(* A press of another kind in the same page.                               *)
LEMMA Presses ==
  ASSUME NEW p, PageOK(p), NEW a, NEW x, x = [p EXCEPT !.press = a]
  PROVE  /\ View(p, x) /\ x.press = a /\ x = [f \in PageFields |-> x[f]]
         /\ PressOK(a) /\ p.press.op # "reading" => PageOK(x)
         /\ p.press.op # "reading" /\ a.op = "reading" => \A ends : MayAsk(x, ends)
<1>1. View(p, x) /\ x.press = a /\ x = [f \in PageFields |-> x[f]]
  BY DEF PageOK, PageFields, View
<1> QED BY <1>1 DEF PageOK, View, Awaited, MayAsk

LEMMA PressMoves ==
  ASSUME NEW a, PressOK(a), NEW o, o # "writing", NEW b, b = [a EXCEPT !.op = o]
  PROVE  PressOK(b) /\ Idles(b) /\ b.op = o
BY DEF PressOK, Idles

LEMMA ClearKeeps ==
  ASSUME StudioInv, NEW t \in Tabs, ServeClear(t)
  PROVE  StudioInv'
<1> PICK p : p = pages[t]
  OBVIOUS
<1>0. PageOK(p) /\ PressOK(p.press) /\ p.press.op = "clear"
  BY DEF StudioInv, PagesOK, PageOK, ServeClear
<1>1. /\ scene' = scene /\ deckJob' = deckJob /\ made' \in Nat
      /\ DealOK(deal)
  BY DEF ServeClear, StudioInv, RowFits
<1>2. CASE /\ deal' = [deal EXCEPT !.st = IF @ = "sent" THEN "sent" ELSE "approved",
                                  !.text = NoDraft, !.src = "none", !.gen = FALSE]
           /\ Then(t, [p EXCEPT !.press.op = "generate"])
  <2>1. PICK a : a = [p.press EXCEPT !.op = "generate"]
    OBVIOUS
  <2>2. PICK x : x = [p EXCEPT !.press = a] /\ Then(t, x)
    BY <1>2, <2>1
  <2>3. PICK s : /\ s \in {"sent", "approved"}
                 /\ deal' = [deal EXCEPT !.st = s, !.text = NoDraft, !.src = "none", !.gen = FALSE]
    BY <1>2
  <2>4. PICK e : /\ e = [deal EXCEPT !.st = s, !.text = NoDraft, !.src = "none", !.gen = FALSE]
                 /\ deal' = e
    BY <2>3
  <2>5. DealOK(e) /\ e.st = s /\ e.text = 0
    <3>1. e.st = s /\ e.text = 0 /\ e = [f \in DealFields |-> e[f]]
      BY <1>1, <2>4 DEF DealOK, DealFields, NoDraft
    <3> QED BY <3>1 DEF DealOK
  <2>6. Rested(RestsOn(p, deal), RestsOn(x, e))
    BY <2>3, <2>5 DEF RestsOn, Shown, Rested, NoDraft
  <2>7. Turned(p, a, x)
    BY <1>0, <2>1, <2>2, PressMoves, Presses DEF Turned
  <2> QED BY <1>1, <2>2, <2>4, <2>5, <2>6, <2>7, PressTurns
<1>3. CASE deal' = deal /\ Then(t, [p EXCEPT !.press = NoPress, !.spinner = FALSE])
  <2>1. PICK a : a = NoPress
    OBVIOUS
  <2>2. PICK x : x = [p EXCEPT !.press = a, !.spinner = FALSE] /\ Then(t, x)
    BY <1>3, <2>1
  <2>3. View(p, x) /\ x.press = a /\ x = [f \in PageFields |-> x[f]]
    BY <1>0, <2>2 DEF PageOK, PageFields, View
  <2>4. RestsOn(x, deal) = RestsOn(p, deal)
    BY <1>0, <2>1, <2>3, NoPressIs DEF RestsOn, Idles
  <2>5. Turned(p, a, x) /\ Rested(RestsOn(p, deal), RestsOn(x, deal))
    BY <1>0, <2>1, <2>3, <2>4, NoPressIs DEF Turned, Rested
  <2> QED BY <1>1, <1>3, <2>2, <2>5, PressTurns
<1> QED BY <1>2, <1>3 DEF ServeClear
LEMMA RefuseTurns ==
  ASSUME StudioInv, NEW t \in Tabs, NEW p, p = pages[t], Refuse(t),
         NEW e, deal' = e, DealOK(e), deckJob' = deckJob, made' \in Nat, scene' = scene,
         p.press.op # "reading", Rested(RestsOn(p, deal), Shown(e))
  PROVE  StudioInv'
<1>1. PICK a : a = NoPress
  OBVIOUS
<1>2. PICK x : x = [p EXCEPT !.press = a] /\ Then(t, x)
  BY <1>1 DEF Refuse, StudioInv, PagesOK, Then
<1>3. Turned(p, a, x)
  BY <1>1, <1>2, Presses, NoPressIs DEF StudioInv, PagesOK, Turned
<1>4. RestsOn(x, e) = Shown(e)
  BY <1>1, <1>3, NoPressIs DEF RestsOn, Idles, Turned
<1> QED BY <1>2, <1>3, <1>4, PressTurns

LEMMA GammaKeeps ==
  ASSUME StudioInv, NEW t \in Tabs, GammaDrafts(t)
  PROVE  StudioInv'
<1> PICK p, k : p = pages[t] /\ k = PickAfter(p.press.deck)
  OBVIOUS
<1>0. PageOK(p) /\ PressOK(p.press) /\ p.press.op = "generate" /\ scene' = scene
      /\ DealOK(deal) /\ made \in Nat
  BY DEF StudioInv, PagesOK, PageOK, GammaDrafts, RowFits
<1>1. CASE /\ made' = made + 1
           /\ deckJob' = [state |-> "running", deck |-> Resolve(p.press.deck), n |-> made + 1]
           /\ deal' = [deal EXCEPT !.st = "drafting", !.src = "gamma", !.gen = TRUE, !.pick = k]
           /\ Then(t, Refetch([p EXCEPT !.press.op = "reading"], {"press"}))
  <2>1. PICK e : e = [deal EXCEPT !.st = "drafting", !.src = "gamma", !.gen = TRUE, !.pick = k] /\ deal' = e
    BY <1>1
  <2>2. DealOK(e)
    <3>1. e.text = deal.text /\ e.pdf = deal.pdf /\ e = [f \in DealFields |-> e[f]]
      BY <1>0, <2>1 DEF DealOK, DealFields
    <3> QED BY <1>0, <3>1 DEF DealOK
  <2>3. RowFits'
    BY <1>0, <1>1, <2>1, <2>2 DEF RowFits
  <2>4. PICK a : a = [p.press EXCEPT !.op = "reading"]
    OBVIOUS
  <2>5. PICK y : y = [p EXCEPT !.press = a]
    OBVIOUS
  <2>6. PageOK(y) /\ \A any : MayAsk(y, any)
    BY <1>0, <2>4, <2>5, PressMoves, Presses
  <2>7. PICK ends : ends = {"press"}
    OBVIOUS
  <2>8. Then(t, Refetch(y, ends))
    BY <1>1, <2>4, <2>5, <2>7
  <2> QED BY <1>0, <2>3, <2>6, <2>8, ReadTurns
<1>2. CASE deal' = [deal EXCEPT !.pick = k] /\ Refuse(t) /\ UNCHANGED <<deckJob, made>>
  <2>1. PICK e : e = [deal EXCEPT !.pick = k] /\ deal' = e
    BY <1>2
  <2>2. DealOK(e) /\ Shown(e) = Shown(deal)
    BY <1>0, <2>1, RowTouched
  <2>3. RestsOn(p, deal) = Shown(deal)
    BY <1>0 DEF RestsOn
  <2> QED BY <1>0, <1>2, <2>1, <2>2, <2>3, RefuseTurns DEF Rested
<1> QED BY <1>1, <1>2 DEF GammaDrafts

LEMMA LlmKeeps ==
  ASSUME StudioInv, NEW t \in Tabs, LlmDrafts(t)
  PROVE  StudioInv'
<1> PICK p : p = pages[t]
  OBVIOUS
<1>0. PageOK(p) /\ PressOK(p.press) /\ p.press.op = "generate" /\ scene' = scene
      /\ DealOK(deal) /\ made \in Nat /\ deckJob' = deckJob
  BY DEF StudioInv, PagesOK, PageOK, LlmDrafts, RowFits
<1>r. RestsOn(p, deal) = Shown(deal)
  BY <1>0 DEF RestsOn
<1>1. CASE Refuse(t) /\ UNCHANGED <<deal, made>>
  BY <1>0, <1>1, <1>r, RefuseTurns DEF Rested
<1>2. CASE Then(t, [p EXCEPT !.press = NoPress, !.prompt = TRUE]) /\ UNCHANGED <<deal, made>>
  <2>1. PICK a : a = NoPress
    OBVIOUS
  <2>2. PICK x : x = [p EXCEPT !.press = a, !.prompt = TRUE] /\ Then(t, x)
    BY <1>2, <2>1
  <2>3. View(p, x) /\ x.press = a /\ x = [f \in PageFields |-> x[f]]
    BY <1>0, <2>2 DEF PageOK, PageFields, View
  <2>4. Turned(p, a, x) /\ RestsOn(x, deal) = Shown(deal)
    BY <1>0, <2>1, <2>3, NoPressIs DEF Turned, RestsOn, Idles
  <2> QED BY <1>0, <1>2, <1>r, <2>2, <2>4, PressTurns DEF Rested
<1>3. CASE /\ made' = made + 1
           /\ deal' = [deal EXCEPT !.st = IF @ \in DraftClaimFrom THEN "drafting" ELSE @]
           /\ Then(t, [p EXCEPT !.press = [op |-> "writing", was |-> deal.st, n |-> made + 1]])
  <2>1. PICK a : a = [op |-> "writing", was |-> deal.st, n |-> made + 1]
    OBVIOUS
  <2>2. PressOK(a) /\ a.op = "writing" /\ a.was = deal.st
    BY <1>0, <2>1 DEF PressOK
  <2>3. PICK x : x = [p EXCEPT !.press = a] /\ Then(t, x)
    BY <1>3, <2>1
  <2>4. Turned(p, a, x)
    BY <1>0, <2>2, <2>3, Presses DEF Turned
  <2>5. PICK s : s = (IF deal.st \in DraftClaimFrom THEN "drafting" ELSE deal.st)
    OBVIOUS
  <2>6. PICK e : e = [deal EXCEPT !.st = s] /\ deal' = e
    BY <1>3, <2>5
  <2>7. DealOK(e) /\ e.st = s /\ e.text = deal.text /\ e.src = deal.src
    BY <1>0, <2>6, RowTouched
  <2>8. RestsOn(x, e) = Shown(deal)
    BY <2>2, <2>4, <2>5, <2>7 DEF RestsOn, Shown, Turned
  <2>9. Rested(RestsOn(p, deal), RestsOn(x, e)) /\ made' \in Nat
    BY <1>0, <1>3, <1>r, <2>8 DEF Rested
  <2> QED BY <1>0, <2>3, <2>4, <2>6, <2>7, <2>9, PressTurns
<1> QED BY <1>1, <1>2, <1>3 DEF LlmDrafts

LEMMA AnswersKeep ==
  ASSUME StudioInv, NEW t \in Tabs, LlmAnswers(t)
  PROVE  StudioInv'
<1> PICK p : p = pages[t]
  OBVIOUS
<1>0. PageOK(p) /\ PressOK(p.press) /\ p.press.op = "writing" /\ scene' = scene /\ p.press.n \in Nat
      /\ DealOK(deal) /\ made \in Nat /\ deckJob' = deckJob /\ made' = made
  BY DEF StudioInv, PagesOK, PageOK, LlmAnswers, RowFits, PressOK
<1>1. CASE /\ deal' = [deal EXCEPT !.st = "draft_ready", !.text = Typed(p.press.n), !.src = "llm"]
           /\ Then(t, Refetch([p EXCEPT !.press = [NoPress EXCEPT !.op = "reading"]], {"press"}))
  <2>1. PICK n \in Int : n = Typed(p.press.n) /\ ~(n > 0)
    BY <1>0 DEF Typed
  <2>2. PICK e : e = [deal EXCEPT !.st = "draft_ready", !.text = n, !.src = "llm"] /\ deal' = e
    BY <1>1, <2>1
  <2>3. DealOK(e)
    <3>1. e.text = n /\ e = [f \in DealFields |-> e[f]]
      BY <1>0, <2>2 DEF DealOK, DealFields
    <3> QED BY <2>1, <3>1 DEF DealOK
  <2>4. RowFits'
    BY <1>0, <2>2, <2>3 DEF RowFits, StudioInv
  <2>5. PICK a, z : z = NoPress /\ a = [z EXCEPT !.op = "reading"]
    OBVIOUS
  <2>6. PICK y : y = [p EXCEPT !.press = a]
    OBVIOUS
  <2>7. PageOK(y) /\ \A any : MayAsk(y, any)
    BY <1>0, <2>5, <2>6, NoPressIs, PressMoves, Presses
  <2>8. PICK ends : ends = {"press"}
    OBVIOUS
  <2>9. Then(t, Refetch(y, ends))
    BY <1>1, <2>5, <2>6, <2>8
  <2> QED BY <1>0, <2>4, <2>7, <2>9, ReadTurns
<1>2. CASE deal' = [deal EXCEPT !.st = IF @ = "drafting" THEN p.press.was ELSE @] /\ Refuse(t)
  <2>1. PICK s : s = (IF deal.st = "drafting" THEN p.press.was ELSE deal.st)
    OBVIOUS
  <2>2. PICK e : e = [deal EXCEPT !.st = s] /\ deal' = e
    BY <1>2, <2>1
  <2>3. DealOK(e) /\ e.st = s /\ e.text = deal.text /\ e.src = deal.src
    BY <1>0, <2>2, RowTouched
  <2>4. RestsOn(p, deal) = Shown(e)
    BY <1>0, <2>1, <2>3 DEF RestsOn, Shown
  <2> QED BY <1>0, <1>2, <2>2, <2>3, <2>4, RefuseTurns DEF Rested
<1> QED BY <1>1, <1>2 DEF LlmAnswers
LEMMA PasteKeeps ==
  ASSUME StudioInv, NEW t \in Tabs, ServePaste(t)
  PROVE  StudioInv'
<1> PICK p : p = pages[t]
  OBVIOUS
<1>0. PageOK(p) /\ p.press.op = "paste" /\ scene' = scene
      /\ DealOK(deal) /\ made \in Nat /\ deckJob' = deckJob
  BY DEF StudioInv, PagesOK, PageOK, ServePaste, RowFits
<1>1. CASE /\ made' = made + 1
           /\ deal' = [deal EXCEPT !.st = "draft_ready", !.text = Typed(made + 1), !.src = "manual"]
           /\ Then(t, Refetch([p EXCEPT !.press = NoPress, !.prompt = FALSE], {}))
  <2>1. PICK n \in Int : n = Typed(made + 1) /\ ~(n > 0)
    BY <1>0 DEF Typed
  <2>2. PICK e : e = [deal EXCEPT !.st = "draft_ready", !.text = n, !.src = "manual"] /\ deal' = e
    BY <1>1, <2>1
  <2>3. DealOK(e)
    <3>1. e.text = n /\ e = [f \in DealFields |-> e[f]]
      BY <1>0, <2>2 DEF DealOK, DealFields
    <3> QED BY <2>1, <3>1 DEF DealOK
  <2>4. RowFits'
    BY <1>0, <1>1, <2>2, <2>3 DEF RowFits, StudioInv
  <2>5. PICK a : a = NoPress
    OBVIOUS
  <2>6. PICK y : y = [p EXCEPT !.press = a, !.prompt = FALSE]
    OBVIOUS
  <2>7. PageOK(y)
    <3>1. View(p, y) /\ y.press = a /\ y = [f \in PageFields |-> y[f]]
      BY <1>0, <2>6 DEF PageOK, PageFields, View
    <3> QED BY <1>0, <2>5, <3>1, NoPressIs DEF PageOK, View, Awaited
  <2>8. PICK ends : ends = {}
    OBVIOUS
  <2>9. Then(t, Refetch(y, ends)) /\ MayAsk(y, ends)
    BY <1>1, <2>5, <2>6, <2>8 DEF MayAsk
  <2> QED BY <1>0, <2>4, <2>7, <2>9, ReadTurns
<1>2. CASE Refuse(t) /\ UNCHANGED <<deal, made>>
  <2>1. RestsOn(p, deal) = Shown(deal)
    BY <1>0 DEF RestsOn
  <2> QED BY <1>0, <1>2, <2>1, RefuseTurns DEF Rested
<1> QED BY <1>1, <1>2 DEF ServePaste

LEMMA MarkKeeps ==
  ASSUME StudioInv, NEW t \in Tabs, ServeMark(t)
  PROVE  StudioInv'
<1> PICK p : p = pages[t]
  OBVIOUS
<1>0. PageOK(p) /\ PressOK(p.press) /\ p.press.op = "mark" /\ scene' = scene
      /\ DealOK(deal) /\ made \in Nat /\ deckJob' = deckJob /\ made' = made
  BY DEF StudioInv, PagesOK, PageOK, ServeMark, RowFits
<1>1. CASE /\ deal' = [deal EXCEPT !.st = "sent"]
           /\ Then(t, Refetch([p EXCEPT !.press.op = "reading"], {"press", "dialog"}))
  <2>1. RowFits'
    BY <1>0, <1>1, RowTouched DEF RowFits, StudioInv
  <2>2. PICK a : a = [p.press EXCEPT !.op = "reading"]
    OBVIOUS
  <2>3. PICK y : y = [p EXCEPT !.press = a]
    OBVIOUS
  <2>4. PageOK(y) /\ \A any : MayAsk(y, any)
    BY <1>0, <2>2, <2>3, PressMoves, Presses
  <2>5. PICK ends : ends = {"press", "dialog"}
    OBVIOUS
  <2>6. Then(t, Refetch(y, ends))
    BY <1>1, <2>2, <2>3, <2>5
  <2> QED BY <1>0, <2>1, <2>4, <2>6, ReadTurns
<1>2. CASE UNCHANGED deal /\ Then(t, [p EXCEPT !.press = NoPress, !.dialog = NoDraft])
  <2>1. PICK a : a = NoPress
    OBVIOUS
  <2>2. PICK x : x = [p EXCEPT !.press = a, !.dialog = NoDraft] /\ Then(t, x)
    BY <1>2, <2>1
  <2>3. View(p, x) /\ x.press = a /\ x = [f \in PageFields |-> x[f]]
    BY <1>0, <2>2 DEF PageOK, PageFields, View
  <2>4. Turned(p, a, x) /\ RestsOn(x, deal) = Shown(deal)
    BY <1>0, <2>1, <2>3, NoPressIs DEF Turned, RestsOn, Idles
  <2>5. RestsOn(p, deal) = Shown(deal)
    BY <1>0 DEF RestsOn
  <2> QED BY <1>0, <1>2, <2>2, <2>4, <2>5, PressTurns DEF Rested
<1> QED BY <1>1, <1>2 DEF ServeMark

LEMMA SendKeeps ==
  ASSUME StudioInv, NEW t \in Tabs, ServeSend(t)
  PROVE  StudioInv'
<1> PICK p, n : p = pages[t] /\ n = NoPress
  OBVIOUS
<1>0. PageOK(p) /\ PressOK(p.press) /\ scene' = scene
      /\ DealOK(deal) /\ made \in Nat /\ deckJob' = deckJob /\ made' = made
  BY DEF StudioInv, PagesOK, PageOK, ServeSend, RowFits
<1>1. PICK y : /\ y = [p EXCEPT !.sending = n]
               /\ \/ deal' = [deal EXCEPT !.st = "sent"] /\ Then(t, Refetch(y, {"dialog"}))
                  \/ deal' = deal /\ Then(t, y)
  BY DEF ServeSend
<1>2. View(p, y) /\ y.press = p.press /\ y = [f \in PageFields |-> y[f]]
  BY <1>0, <1>1 DEF PageOK, PageFields, View
<1>3. PageOK(y)
  BY <1>0, <1>2 DEF PageOK, View, Awaited
<1>4. CASE deal' = [deal EXCEPT !.st = "sent"] /\ Then(t, Refetch(y, {"dialog"}))
  <2>1. RowFits'
    BY <1>0, <1>4, RowTouched DEF RowFits, StudioInv
  <2>2. PICK ends : ends = {"dialog"}
    OBVIOUS
  <2>3. MayAsk(y, ends)
    BY <2>2 DEF MayAsk
  <2> QED BY <1>0, <1>3, <1>4, <2>1, <2>2, <2>3, ReadTurns
<1>5. CASE deal' = deal /\ Then(t, y)
  <2>1. PICK a : a = p.press /\ Turned(p, a, y)
    BY <1>0, <1>2 DEF Turned
  <2>2. RestsOn(y, deal) = RestsOn(p, deal)
    BY <1>2 DEF RestsOn
  <2> QED BY <1>0, <1>5, <2>1, <2>2, PressTurns DEF Rested
<1> QED BY <1>1, <1>4, <1>5

LEMMA RefusedKeeps ==
  ASSUME StudioInv, NEW t \in Tabs, NotDrafted(t)
  PROVE  StudioInv'
<1> PICK p : p = pages[t]
  OBVIOUS
<1>1. /\ p.press.op = "generate" /\ scene' = scene /\ deal' = deal /\ DealOK(deal)
      /\ made' \in Nat /\ deckJob' = deckJob /\ Refuse(t)
  BY DEF NotDrafted, studio, StudioInv, RowFits
<1>2. RestsOn(p, deal) = Shown(deal)
  BY <1>1 DEF RestsOn
<1> QED BY <1>1, <1>2, RefuseTurns DEF Rested

LEMMA ServedKeeps ==
  ASSUME StudioInv, NEW t \in Tabs, ServedAt(t)
  PROVE  StudioInv'
BY PickKeeps, ClearKeeps, GammaKeeps, LlmKeeps, AnswersKeep, RefusedKeeps, PasteKeeps, MarkKeeps,
   SendKeeps DEF ServedAt

-----------------------------------------------------------------------------
(* The reads.                                                              *)
LEMMA TickKeeps ==
  ASSUME StudioInv, NEW t \in Tabs, Tick(t)
  PROVE  StudioInv'
<1>1. PICK p, ends : p = pages[t] /\ ends = {} /\ Then(t, Refetch(p, ends))
  BY DEF Tick
<1>a. MayAsk(p, ends)
  BY <1>1 DEF MayAsk
<1>2. PageOK(p) /\ scene' = scene /\ RowFits'
  BY <1>1 DEF Tick, studio, StudioInv, PagesOK, RowFits
<1> QED BY <1>1, <1>2, <1>a, ReadTurns

(* What is shown is what the newest read brought.                          *)
LEMMA DisplayKeeps ==
  ASSUME StudioInv, NEW t \in Tabs, NEW slot \in Slots, Display(t, slot)
  PROVE  StudioInv'
<1> PICK p, r, n, d : p = pages[t] /\ r = p[slot] /\ n = NoRead /\ d = deal
  OBVIOUS
<1>0. PageOK(p) /\ slot \in {"read", "late"} /\ r.at \in {"shows", "error"} /\ r # n
      /\ scene' = scene /\ deal' = deal /\ RowFits'
  BY NoPressIs DEF Display, studio, StudioInv, PagesOK, RowFits, Slots
<1>1. PICK s : /\ s = IF r.at = "shows" THEN ShowRow(p, r.cur) ELSE p
               /\ Then(t, [s EXCEPT ![slot] = n,
                             !.press = IF "press" \in r.ends THEN NoPress ELSE @,
                             !.dialog = IF "dialog" \in r.ends THEN NoDraft ELSE @,
                             !.failed = r.at = "error"])
  BY DEF Display
<1>2. /\ s = [f \in PageFields |-> s[f]] /\ s.press = p.press /\ s.read = p.read /\ s.late = p.late
      /\ s.crossed = p.crossed
      /\ r.at = "shows" => s.cur = r.cur
      /\ r.at # "shows" => s.cur = p.cur
  <2>1. CASE r.at = "shows"
    <3>1. PICK c, b : s = [p EXCEPT !.cur = c, !.spinner = b] /\ c = r.cur
      BY <1>1, <2>1 DEF ShowRow
    <3> QED BY <1>0, <2>1, <3>1 DEF PageOK, PageFields
  <2> QED BY <1>0, <1>1, <2>1 DEF PageOK
<1>3. PICK a, g, b : /\ a = (IF "press" \in r.ends THEN NoPress ELSE s.press)
                     /\ g = (IF "dialog" \in r.ends THEN NoDraft ELSE s.dialog)
                     /\ b = (r.at = "error") /\ b \in BOOLEAN
  OBVIOUS
<1>4. PICK x : x = [s EXCEPT ![slot] = n, !.press = a, !.dialog = g, !.failed = b] /\ Then(t, x)
  BY <1>1, <1>3
<1>5. /\ x = [f \in PageFields |-> x[f]] /\ x.press = a /\ x.failed = b /\ x.crossed = p.crossed
      /\ x.cur = s.cur
  BY <1>0, <1>2, <1>4 DEF PageFields
<1>6. /\ slot = "read" => x.read = n /\ x.late = p.late
      /\ slot = "late" => x.late = n /\ x.read = p.read
  BY <1>0, <1>2, <1>4 DEF PageFields
<1>7. PressOK(a) /\ (a = p.press \/ (a.op = "none" /\ p.press.op = "reading" /\ Waits(r)))
  <2>1. NoPress.op = "none"
    BY DEF NoPress
  <2>2. r = p.read \/ r = p.late
    BY <1>0
  <2> QED BY <1>0, <1>2, <1>3, <2>1, <2>2, NoPressIs DEF PageOK, Waits, Awaited
<1>8. PageOK(x)
  <2>1. ReadOK(x.read) /\ ReadOK(x.late) /\ ~Waits(n)
    BY <1>0, <1>6, NoPressIs DEF PageOK, Waits
  <2>2. Awaited(x)
    BY <1>0, <1>5, <1>6, <1>7, <2>1 DEF PageOK, Awaited
  <2> QED BY <1>0, <1>3, <1>5, <1>7, <2>1, <2>2 DEF PageOK
<1>9. RestsOn(x, d) = RestsOn(p, d)
  BY <1>5, <1>7 DEF RestsOn
<1>10. ASSUME Alone PROVE TrueTo(x, d)
  <2>1. TrueTo(p, d)
    BY <1>10 DEF StudioInv
  <2>2. CASE p.crossed
    BY <1>5, <2>2 DEF TrueTo
  <2>3. CASE ~p.crossed
    <3>1. slot = "read" /\ r = p.read /\ p.late = n
      BY <1>0, <2>1, <2>3 DEF TrueTo
    <3>2. x.read = n /\ x.late = n /\ n.at = "none" /\ n = NoRead
      BY <1>6, <3>1, NoPressIs
    <3>3. Tells(x.cur, RestsOn(x, d)) \/ x.failed
      BY <1>0, <1>2, <1>3, <1>5, <1>9, <2>1, <2>3, <3>1 DEF TrueTo
    <3> QED BY <3>2, <3>3 DEF TrueTo
  <2> QED BY <2>2, <2>3
<1> QED BY <1>0, <1>4, <1>8, <1>10, PageTurns

(* What a read finds: the row as it is, or as Gamma's answer has left it.  *)
LEMMA PollMoves ==
  ASSUME RowFits, NEW e, e = RowAfterPoll
  PROVE  /\ DealOK(e)
         /\ e # deal => deal.st = "drafting" /\ e.st # "drafting"
<1>1. CASE e = [deal EXCEPT !.st = "draft_ready", !.text = deckJob.n, !.src = "gamma",
                           !.gen = FALSE, !.pdf = deckJob.n] /\ Polls
  <2>1. PICK n \in Nat : n = deckJob.n
    BY DEF RowFits
  <2>2. e.text = n /\ e.pdf = n /\ e.st = "draft_ready" /\ e = [f \in DealFields |-> e[f]]
    BY <1>1, <2>1 DEF RowFits, DealOK, DealFields
  <2>3. DealOK(e)
    BY <2>1, <2>2 DEF DealOK
  <2>4. deal.st = "drafting"
    BY <1>1 DEF Polls
  <2> QED BY <2>2, <2>3, <2>4
<1>2. CASE e = [deal EXCEPT !.st = "approved", !.gen = FALSE] /\ Polls
  <2>1. /\ e.text = deal.text /\ e.pdf = deal.pdf /\ e.st = "approved"
        /\ e = [f \in DealFields |-> e[f]]
    BY <1>2 DEF RowFits, DealOK, DealFields
  <2> QED BY <1>2, <2>1 DEF DealOK, Polls, RowFits
<1>3. CASE e = deal
  BY <1>3 DEF RowFits
<1> QED BY <1>1, <1>2, <1>3 DEF RowAfterPoll

LEMMA ReadKeeps ==
  ASSUME StudioInv, NEW t \in Tabs, NEW slot \in Slots, Read(t, slot)
  PROVE  StudioInv'
<1> PICK p, r, e, d : p = pages[t] /\ r = p[slot] /\ e = deal' /\ d = deal
  OBVIOUS
<1>0. /\ PageOK(p) /\ slot \in {"read", "late"} /\ r.at = "asked" /\ scene' = scene
      /\ pages = [u \in Tabs |-> pages[u]] /\ DealOK(e) /\ RowFits'
      /\ e # d => d.st = "drafting" /\ e.st # "drafting"
  BY PollMoves DEF Read, StudioInv, PagesOK, RowFits, Slots
<1>1. PICK y, x : /\ y = [at |-> "shows", cur |-> Shown(e), ends |-> r.ends] \/ y = [at |-> "error", ends |-> r.ends]
                  /\ x = [p EXCEPT ![slot] = y] /\ pages' = [pages EXCEPT ![t] = x]
  BY <1>0 DEF Read
<1>2. /\ ReadOK(y) /\ y.ends = r.ends /\ y # NoRead /\ y.at \in {"shows", "error"}
      /\ y.at = "shows" => y.cur = Shown(e)
  BY <1>1 DEF ReadOK, NoRead
<1>3. /\ x = [f \in PageFields |-> x[f]] /\ x.press = p.press /\ x.crossed = p.crossed /\ x.cur = p.cur
      /\ x.failed = p.failed
      /\ slot = "read" => x.read = y /\ x.late = p.late
      /\ slot = "late" => x.late = y /\ x.read = p.read
  BY <1>0, <1>1 DEF PageOK, PageFields
<1>4. r # NoRead
  BY <1>0, NoPressIs
<1>5. PageOK(x)
  <2>1. Awaited(x)
    BY <1>0, <1>2, <1>3, <1>4 DEF PageOK, Awaited, Waits
  <2> QED BY <1>0, <1>2, <1>3, <2>1 DEF PageOK
<1>6. Tells(Shown(e), RestsOn(x, e))
  BY DEF Tells, RestsOn, Shown
<1>7. ASSUME Alone PROVE TrueTo(x, e)
  <2>1. TrueTo(p, d)
    BY <1>7 DEF StudioInv
  <2>2. CASE p.crossed
    BY <1>3, <2>2 DEF TrueTo
  <2>3. CASE ~p.crossed
    <3>1. slot = "read" /\ p.late = NoRead
      BY <1>0, <1>4, <2>1, <2>3 DEF TrueTo
    <3> QED BY <1>2, <1>3, <1>6, <3>1 DEF TrueTo
  <2> QED BY <2>2, <2>3
<1>8. Then(t, x)
  BY <1>1 DEF Then
<1> QED BY <1>0, <1>5, <1>7, <1>8, PageTurns

-----------------------------------------------------------------------------
(* The others of the tenant, Gamma, and the time.                          *)
LEMMA RestKeeps ==
  ASSUME StudioInv, pages' = pages, scene' = scene,
         deal' = deal \/ deal' = [deal EXCEPT !.pdf = NoDraft],
         deckJob' = deckJob \/ \E st : deckJob' = [deckJob EXCEPT !.state = st], made' = made
  PROVE  StudioInv'
<1>1. PICK e : e = deal' /\ DealOK(e) /\ Shown(e) = Shown(deal)
  BY DEF StudioInv, RowFits, DealOK, DealFields, Shown, NoDraft
<1>2. RowFits'
  BY <1>1 DEF StudioInv, RowFits
<1>3. Tabs' = Tabs /\ (Alone' <=> Alone) /\ PagesOK'
  BY DEF Tabs, Alone, StudioInv, PagesOK
<1>4. ASSUME Alone, NEW t \in Tabs PROVE TrueTo(pages[t], e)
  <2>1. PICK p, d : p = pages[t] /\ d = deal
    OBVIOUS
  <2>2. e.st = d.st /\ e.text = d.text /\ e.src = d.src
    BY <1>1, <2>1 DEF Shown
  <2>3. RestsOn(p, e) = RestsOn(p, d)
    BY <1>1, <2>1, <2>2 DEF RestsOn
  <2> QED BY <1>4, <2>1, <2>3 DEF StudioInv, TrueTo
<1> QED BY <1>1, <1>2, <1>3, <1>4 DEF StudioInv

LEMMA StudioStarts == StudioInit => StudioInv
<1> SUFFICES ASSUME StudioInit PROVE StudioInv
  OBVIOUS
<1>1. IsFiniteSet(Tabs) /\ pages = [t \in Tabs |-> pages[t]]
  BY StudioAssumption DEF StudioInit, Tabs
<1>2. RowFits
  BY DEF StudioInit, RowFits, DealOK, DealFields, NoDraft, Typed
<1>3. ASSUME NEW t \in Tabs
      PROVE  PageOK(pages[t]) /\ TrueTo(pages[t], deal)
  <2>1. PICK d, c, k, n, r : d = DriverOn(scene.roles[t]) /\ c = Shown(deal) /\ n = NoPress /\ r = NoRead
          /\ k = IF d = "gamma" THEN Resolve(NoDeck) ELSE NoDeck
    OBVIOUS
  <2>2. PICK x : x = [driver |-> d, cur |-> c, pick |-> k, press |-> n, saving |-> n, sending |-> n,
             read |-> r, late |-> r, crossed |-> FALSE, failed |-> FALSE,
             spinner |-> FALSE, prompt |-> FALSE, dialog |-> NoDraft] /\ pages[t] = x
    BY <2>1 DEF NewPage, StudioInit
  <2>3. /\ x = [f \in PageFields |-> x[f]] /\ x.press = n /\ x.read = r /\ x.late = r
        /\ x.crossed = FALSE /\ x.failed = FALSE /\ x.cur = c
    BY <2>2 DEF PageFields
  <2>4. PageOK(x)
    BY <2>1, <2>3, NoPressIs DEF PageOK, Awaited, Waits
  <2>5. RestsOn(x, deal) = c
    BY <2>1, <2>3, NoPressIs DEF RestsOn, Idles
  <2> QED BY <2>1, <2>2, <2>3, <2>4, <2>5, NoPressIs DEF TrueTo, Tells
<1> QED BY <1>1, <1>2, <1>3 DEF StudioInv, PagesOK

(* The page of a tab alone tells of the row, or of what it has asked for,  *)
(* and the row of a deck's text has that deck's PDF or none.               *)
THEOREM StudioInvariant == StudioSpec => []StudioInv
<1>1. ASSUME StudioInv, StudioNext PROVE StudioInv'
  <2>1. CASE \E t \in Tabs : Pressed(t) \/ ServedAt(t) \/ Reads(t)
    BY <1>1, <2>1, PressedKeeps, ServedKeeps, TickKeeps, ReadKeeps, DisplayKeeps DEF Reads
  <2>2. CASE \E d \in Decks : AddDeck(d) \/ SetDefault(d) \/ Archive(d)
    BY <1>1, <2>2, RestKeeps DEF AddDeck, SetDefault, Archive, studio
  <2>3. CASE \E cfg \in Configs : SaveConfig(cfg)
    BY <1>1, <2>3, RestKeeps DEF SaveConfig, studio
  <2>4. CASE DeckJobEnds
    BY <1>1, <2>4, RestKeeps DEF DeckJobEnds
  <2>5. CASE ExportLapses
    BY <1>1, <2>5, RestKeeps DEF ExportLapses
  <2> QED BY <1>1, <2>1, <2>2, <2>3, <2>4, <2>5 DEF StudioNext
<1>2. StudioInv /\ UNCHANGED studioVars => StudioInv'
  BY RestKeeps DEF studioVars, studio
<1> QED BY <1>1, <1>2, StudioStarts, PTL DEF StudioSpec

LEMMA TruePage == StudioInv => QuietPageIsTrue
<1> SUFFICES ASSUME StudioInv, Alone, NEW t \in Tabs, Quiet(pages[t])
             PROVE  \/ pages[t].cur = Shown(deal)
                    \/ deal.text = NoDraft /\ deal.st # "drafting"
                    \/ pages[t].failed \/ pages[t].crossed
  BY DEF QuietPageIsTrue
<1>1. PICK p, d : p = pages[t] /\ d = deal /\ TrueTo(p, d)
  BY DEF StudioInv
<1>2. RestsOn(p, d) = Shown(d) /\ p.read = NoRead /\ p.cur.st # "drafting"
  BY <1>1, NoPressIs DEF Quiet, Pending, RestsOn, Idles
<1>3. Shown(d).st = d.st /\ Shown(d).text = d.text
  BY DEF Shown
<1> QED BY <1>1, <1>2, <1>3 DEF TrueTo, Tells

LEMMA PickedDeck ==
  ASSUME StudioInv, [StudioNext]_studioVars, NEW t \in Tabs, GammaDrafts(t), made' # made,
         pages[t].press.deck \in Active
  PROVE  deckJob'.deck = pages[t].press.deck
<1>1. PICK k : k = pages[t].press.deck /\ Resolve(k) = k
  BY DEF Resolve
<1>2. PICK n : deckJob' = [state |-> "running", deck |-> k, n |-> n]
  BY <1>1 DEF GammaDrafts
<1> QED BY <1>1, <1>2

LEMMA MailedDeck ==
  ASSUME StudioInv, [StudioNext]_studioVars, NEW m \in mailed' \ mailed, m.draft > 0
  PROVE  m.pdf \in {NoDraft, m.draft}
<1>1. PICK t \in Tabs : ServeSend(t)
  <2>1. ASSUME NEW t \in Tabs, Pressed(t) PROVE mailed' = mailed
    BY <2>1, Zenon DEF Pressed, PickDeck, PressGenerate, PressRegenerate, OpenDialog, CloseDialog,
                Reload, PressMark, PressSend, PressPrompt, PressWith, studio
  <2>2. ASSUME NEW t \in Tabs, ServedAt(t), ~ServeSend(t) PROVE mailed' = mailed
    BY <2>2, Zenon DEF ServedAt, ServePick, ServeClear, GammaDrafts, LlmDrafts, LlmAnswers, NotDrafted,
                ServePaste, ServeMark, studio
  <2>3. ASSUME NEW t \in Tabs, Reads(t) PROVE mailed' = mailed
    BY <2>3, Zenon DEF Reads, Tick, Read, Display, studio
  <2>4. ASSUME NEW d \in Decks, AddDeck(d) \/ SetDefault(d) \/ Archive(d) PROVE mailed' = mailed
    BY <2>4, Zenon DEF AddDeck, SetDefault, Archive, studio
  <2>5. ASSUME NEW cfg \in Configs, SaveConfig(cfg) PROVE mailed' = mailed
    BY <2>5, Zenon DEF SaveConfig, studio
  <2>6. ASSUME DeckJobEnds \/ ExportLapses \/ UNCHANGED studioVars PROVE mailed' = mailed
    BY <2>6, Zenon DEF DeckJobEnds, ExportLapses, studioVars, studio
  <2>7. mailed' # mailed
    OBVIOUS
  <2> QED BY <2>1, <2>2, <2>3, <2>4, <2>5, <2>6, <2>7, Zenon DEF StudioNext
<1>2. PICK b : m = [body |-> b, draft |-> deal.text, pdf |-> deal.pdf]
  BY <1>1 DEF ServeSend
<1>3. m.draft = deal.text /\ m.pdf = deal.pdf
  BY <1>2
<1> QED BY <1>3 DEF StudioInv, RowFits, DealOK

(* StudioIsTrue: a page at rest shows the row, and the decks made and      *)
(* mailed are the ones that were picked.                                   *)
THEOREM StudioCorrect == StudioSpec => StudioIsTrue
<1> DEFINE Decked == /\ \A t \in Tabs : GammaDrafts(t) /\ made' # made /\ pages[t].press.deck \in Active =>
                          deckJob'.deck = pages[t].press.deck
                     /\ \A m \in mailed' \ mailed : m.draft > 0 => m.pdf \in {NoDraft, m.draft}
<1>1. ASSUME StudioInv, [StudioNext]_studioVars PROVE [Decked]_studioVars
  BY <1>1, PickedDeck, MailedDeck
<1> QED BY <1>1, StudioInvariant, TruePage, PTL DEF StudioSpec, StudioIsTrue, DecksAreThePicked
=============================================================================
