-------------------------- MODULE ProposalDelivery --------------------------
(***************************************************************************)
(* Drafting and delivering the proposal of one opportunity                 *)
(* (apps/api/src/llm/proposal-draft.service.ts): the LLM, scaffold, Gamma  *)
(* and pasted drafts, the poll that finalises a Gamma deck, clearing,      *)
(* "mark as sent" and the send from the rep's Outlook mailbox.             *)
(*                                                                         *)
(* None of these spans its network call with a transaction: each request   *)
(* reads the row, claims it with a conditional UPDATE, talks to the        *)
(* provider and writes afterwards.  A request in Req walks through those   *)
(* steps; between two of them any other request may run.                   *)
(*                                                                         *)
(* Of the text only its presence matters here; the price it was written    *)
(* from belongs to the desk (module Approval).                             *)
(***************************************************************************)
EXTENDS Integers, FiniteSets, EngagementStatuses

CONSTANTS
  Req,       \* requests in flight at the same time
  GenIds,    \* Gamma generations: bound on the credits spent
  MaxMails,  \* bound on the mails handed to Outlook
  Worlds,    \* what may happen, as sets of events: a behaviour has one of them
  Null

Handlers == {"llm", "scaffold", "manual", "gamma", "poll", "clear", "mark", "send"}
DeskMoves == {"approve", "reject", "revert", "hold", "predict", "outcome"}
Mishaps   == {"lost_reply", "crash"}
Happenings == Handlers \cup DeskMoves \cup Mishaps \cup {"alone"}

ASSUME WorldsAssumption   == Worlds \subseteq SUBSET Happenings
ASSUME MaxMailsAssumption == MaxMails \in Nat
ASSUME NullAssumption     == Null \notin GenIds

VARIABLES
  status,      \* engagements.status
  drafted,     \* proposal_draft is not NULL
  source,      \* proposal_draft_source
  generation,  \* gamma_generation_id
  jobs,        \* the Gamma service: the state of each generation
  mails,       \* mails delivered to the client
  reported,    \* history: a rep marked the proposal as sent
  claimed,     \* history: the status the last claim replaced
  world,       \* the requests, desk moves and mishaps of this behaviour
  tx           \* the requests in flight

text == <<drafted, source, generation>>
out  == <<mails, reported>>
env  == <<jobs, world>>
vars == <<status, text, env, out, claimed, tx>>

-----------------------------------------------------------------------------
Idle == [op |-> "idle", was |-> "approved", gen |-> Null]

(* In a world with "alone" one rep works, and waits for each answer.        *)
Arrives(r, handler) ==
  /\ handler \in world /\ tx[r].op = "idle"
  /\ "alone" \in world => \A s \in Req : tx[s].op = "idle"
At(r, op)     == tx[r].op = op
Advance(r, t) == tx' = [tx EXCEPT ![r] = t]
Finish(r)     == tx' = [tx EXCEPT ![r] = Idle]
ReadsOnly     == UNCHANGED <<status, text, env, out, claimed>>

InFlight(ops) == {r \in Req : tx[r].op \in ops}

(* An approved deal, one still waiting for its VP, or one with a draft.    *)
Init ==
  /\ \/ status \in {"approved", "pending_vp_approval"} /\ drafted = FALSE /\ source = Null
     \/ status = "draft_ready" /\ drafted = TRUE /\ source = "llm"
  /\ generation = Null
  /\ jobs = [g \in GenIds |-> "none"]
  /\ mails = 0 /\ reported = FALSE
  /\ claimed = "approved"
  /\ world \in Worlds
  /\ tx = [r \in Req |-> Idle]

-----------------------------------------------------------------------------
(* persistDraft and persistGammaDraft: by id, whatever the status is now.  *)
PersistText(src) ==
  /\ drafted' = TRUE
  /\ source' = src
  /\ status' = "draft_ready"
  /\ UNCHANGED generation

PersistDeck ==
  /\ drafted' = TRUE
  /\ source' = "gamma"
  /\ status' = "draft_ready"
  /\ generation' = Null

(* rollbackDraftStatus: only a row still in "drafting".                    *)
Rollback(to) == status' = IF status = "drafting" THEN to ELSE status

(* updateMany ... status in (approved, draft_ready, sent) -> drafting      *)
Claim ==
  IF status \in DraftClaimFrom
  THEN status' = "drafting" /\ claimed' = status
  ELSE UNCHANGED <<status, claimed>>

-----------------------------------------------------------------------------
(* generate: loadContext, then the path the tenant's settings choose.      *)
GenerateLoad(r, path) ==
  /\ Arrives(r, path)
  /\ status \in CanDraftFrom
  /\ Advance(r, [Idle EXCEPT !.op = path, !.was = status])
  /\ ReadsOnly

(* Rendered scaffold: persisted with no claim.  Manual provider: a prompt  *)
(* goes back to the browser and nothing is written.                        *)
ScaffoldPersist(r) ==
  /\ At(r, "scaffold")
  /\ PersistText("scaffold")
  /\ Finish(r)
  /\ UNCHANGED <<env, out, claimed>>

(* The LLM path ignores how many rows its claim changed.                   *)
LlmClaim(r) ==
  /\ At(r, "llm")
  /\ Claim
  /\ Advance(r, [tx[r] EXCEPT !.op = "llm:call"])
  /\ UNCHANGED <<text, env, out>>

LlmPersist(r) ==
  /\ At(r, "llm:call")
  /\ PersistText("llm")
  /\ Finish(r)
  /\ UNCHANGED <<env, out, claimed>>

(* The LLM failed or answered nothing.                                     *)
LlmFail_ToApproved(r) ==
  /\ At(r, "llm:call")
  /\ Rollback("approved")
  /\ Finish(r)
  /\ UNCHANGED <<text, env, out, claimed>>

LlmFail(r) ==
  /\ At(r, "llm:call")
  /\ Rollback(tx[r].was)
  /\ Finish(r)
  /\ UNCHANGED <<text, env, out, claimed>>

(* The Gamma path gives up (409) when its claim changed no row.            *)
GammaClaim_CountIgnored(r) ==
  /\ At(r, "gamma")
  /\ Claim
  /\ Advance(r, [tx[r] EXCEPT !.op = "gamma:start"])
  /\ UNCHANGED <<text, env, out>>

GammaClaim(r) ==
  /\ At(r, "gamma")
  /\ Claim
  /\ IF status \in DraftClaimFrom
     THEN Advance(r, [tx[r] EXCEPT !.op = "gamma:start"])
     ELSE Finish(r)
  /\ UNCHANGED <<text, env, out>>

GammaStart(r, g) ==
  /\ At(r, "gamma:start")
  /\ jobs[g] = "none"
  /\ jobs' = [jobs EXCEPT ![g] = "running"]
  /\ Advance(r, [tx[r] EXCEPT !.op = "gamma:track", !.gen = g])
  /\ UNCHANGED <<status, text, out, claimed, world>>

GammaStartFail_NoRollback(r) ==
  /\ At(r, "gamma:start")
  /\ Finish(r)
  /\ ReadsOnly

GammaStartFail(r) ==
  /\ At(r, "gamma:start")
  /\ Rollback(tx[r].was)
  /\ Finish(r)
  /\ UNCHANGED <<text, env, out, claimed>>

GammaTrack(r) ==
  /\ At(r, "gamma:track")
  /\ IF status = "drafting"
     THEN source' = "gamma" /\ generation' = tx[r].gen
     ELSE UNCHANGED <<source, generation>>
  /\ Finish(r)
  /\ UNCHANGED <<status, drafted, env, out, claimed>>

(* The external service finishes or fails a generation.                    *)
GammaJobEnds(g, state) ==
  /\ jobs[g] = "running"
  /\ jobs' = [jobs EXCEPT ![g] = state]
  /\ UNCHANGED <<status, text, out, claimed, world, tx>>

-----------------------------------------------------------------------------
(* getCurrent: the UI's poll reads the row, asks Gamma about the           *)
(* generation it read, and then persists the deck or gives the claim up.   *)
PollBegin(r) ==
  /\ Arrives(r, "poll")
  /\ status = "drafting" /\ source = "gamma" /\ generation # Null
  /\ Advance(r, [Idle EXCEPT !.op = "poll", !.gen = generation])
  /\ ReadsOnly

(* Still running, rate-limited or unreachable: the next poll retries.      *)
PollPending(r) ==
  /\ At(r, "poll")
  /\ Finish(r)
  /\ ReadsOnly

PollAnswered(r, state) ==
  /\ At(r, "poll")
  /\ jobs[tx[r].gen] = state
  /\ Advance(r, [tx[r] EXCEPT !.op = state])
  /\ ReadsOnly

PollPersist(r) ==
  /\ At(r, "completed")
  /\ PersistDeck
  /\ Finish(r)
  /\ UNCHANGED <<env, out, claimed>>

PollRollback(r) ==
  /\ At(r, "failed")
  /\ Rollback("approved")
  /\ Advance(r, [tx[r] EXCEPT !.op = "untrack"])
  /\ UNCHANGED <<text, env, out, claimed>>

(* clearGammaTracking, in a transaction of its own.                        *)
PollUntrack(r) ==
  /\ At(r, "untrack")
  /\ generation' = Null
  /\ Finish(r)
  /\ UNCHANGED <<status, drafted, source, env, out, claimed>>

-----------------------------------------------------------------------------
(* acceptManual: no look at the status.                                    *)
AcceptManual(r) ==
  /\ Arrives(r, "manual")
  /\ PersistText("manual")
  /\ UNCHANGED <<env, out, claimed, tx>>

(* clear: the target follows the status read.                              *)
ClearBegin(r) ==
  /\ Arrives(r, "clear")
  /\ Advance(r, [Idle EXCEPT !.op = "clear",
                   !.was = IF status = "sent" THEN "sent" ELSE "approved"])
  /\ ReadsOnly

ClearWrite_KeepsStatus(r) ==
  /\ At(r, "clear")
  /\ status' = status
  /\ drafted' = FALSE /\ source' = Null /\ generation' = Null
  /\ Finish(r)
  /\ UNCHANGED <<env, out, claimed>>

ClearWrite(r) ==
  /\ At(r, "clear")
  /\ status' = tx[r].was
  /\ drafted' = FALSE /\ source' = Null /\ generation' = Null
  /\ Finish(r)
  /\ UNCHANGED <<env, out, claimed>>

(* markSent                                                                *)
MarkBegin(r) ==
  /\ Arrives(r, "mark")
  /\ drafted /\ status # "sent"
  /\ Advance(r, [Idle EXCEPT !.op = "mark"])
  /\ ReadsOnly

MarkWrite(r) ==
  /\ At(r, "mark")
  /\ status' = "sent"
  /\ reported' = TRUE
  /\ Finish(r)
  /\ UNCHANGED <<text, env, mails, claimed>>

-----------------------------------------------------------------------------
(* sendViaOutlook: read, claim, mail, and release the claim when the mail  *)
(* failed -- or when it arrived and only Outlook's answer got lost.        *)
SendBegin(r) ==
  /\ Arrives(r, "send")
  /\ drafted /\ status # "sent"
  /\ mails + Cardinality(InFlight({"send", "send:mail"})) < MaxMails
  /\ Advance(r, [Idle EXCEPT !.op = "send", !.was = status])
  /\ ReadsOnly

SendClaim_Unconditional(r) ==
  /\ At(r, "send")
  /\ status' = "sent"
  /\ Advance(r, [tx[r] EXCEPT !.op = "send:mail"])
  /\ UNCHANGED <<text, env, out, claimed>>

SendClaim(r) ==
  /\ At(r, "send")
  /\ IF status # "sent"
     THEN status' = "sent" /\ Advance(r, [tx[r] EXCEPT !.op = "send:mail"])
     ELSE UNCHANGED status /\ Finish(r)
  /\ UNCHANGED <<text, env, out, claimed>>

Deliver == mails' = mails + 1

SendDone(r) ==
  /\ At(r, "send:mail")
  /\ Deliver
  /\ Finish(r)
  /\ UNCHANGED <<status, text, env, reported, claimed>>

SendFail_NoRelease(r) ==
  /\ At(r, "send:mail")
  /\ UNCHANGED <<status, mails>>
  /\ Finish(r)
  /\ UNCHANGED <<text, env, reported, claimed>>

SendFail(r) ==
  /\ At(r, "send:mail")
  /\ status' = IF status = "sent" THEN tx[r].was ELSE status
  /\ UNCHANGED mails \/ ("lost_reply" \in world /\ Deliver)
  /\ Finish(r)
  /\ UNCHANGED <<text, env, reported, claimed>>

-----------------------------------------------------------------------------
(* The desk (module Approval), as far as it touches this row: a rejection  *)
(* keeps the draft, a revert drops it only from the drafting states.       *)
DeskApprove ==
  /\ "approve" \in world
  /\ status \in CanApproveFrom
  /\ status' = "approved"
  /\ UNCHANGED <<text, env, out, claimed, tx>>

DeskReject ==
  /\ "reject" \in world
  /\ status \in CanRejectFrom
  /\ status' = "rejected"
  /\ UNCHANGED <<text, env, out, claimed, tx>>

DeskRevert ==
  /\ "revert" \in world
  /\ status \in CanRevertFrom
  /\ status' = "pending_approval"
  /\ IF status \in DraftStatuses
     THEN drafted' = FALSE /\ source' = Null /\ generation' = Null
     ELSE UNCHANGED text
  /\ UNCHANGED <<env, out, claimed, tx>>

DeskHold(s) ==
  /\ "hold" \in world
  /\ status \in CanHoldFrom \ {s}
  /\ status' = s
  /\ UNCHANGED <<text, env, out, claimed, tx>>

(* The ML service's late or re-run prediction.                             *)
DeskPredict ==
  /\ "predict" \in world
  /\ status' = "predicted"
  /\ UNCHANGED <<text, env, out, claimed, tx>>

DeskOutcome(o) ==
  /\ "outcome" \in world
  /\ status \in CanCloseFrom
  /\ status' = o
  /\ UNCHANGED <<text, env, out, claimed, tx>>

(* The process dies: nothing resumes a request, and no sweep looks for one. *)
Crash(r) ==
  /\ "crash" \in world /\ tx[r].op # "idle"
  /\ Finish(r)
  /\ ReadsOnly

-----------------------------------------------------------------------------
Drafting(r) ==
  \/ \E path \in {"llm", "scaffold", "gamma"} : GenerateLoad(r, path)
  \/ ScaffoldPersist(r)
  \/ LlmClaim(r) \/ LlmPersist(r) \/ LlmFail(r)
  \/ GammaClaim(r) \/ (\E g \in GenIds : GammaStart(r, g))
  \/ GammaStartFail(r) \/ GammaTrack(r)
  \/ AcceptManual(r)
  \/ ClearBegin(r) \/ ClearWrite(r)

Polling(r) ==
  \/ PollBegin(r) \/ PollPending(r)
  \/ \E state \in {"completed", "failed"} : PollAnswered(r, state)
  \/ PollPersist(r) \/ PollRollback(r) \/ PollUntrack(r)

Sending(r) ==
  \/ MarkBegin(r) \/ MarkWrite(r)
  \/ SendBegin(r) \/ SendClaim(r) \/ SendDone(r) \/ SendFail(r)

Desk ==
  \/ DeskApprove \/ DeskReject \/ DeskRevert \/ DeskPredict
  \/ \E s \in HoldStatuses : DeskHold(s)
  \/ \E o \in OutcomeStatuses : DeskOutcome(o)

Next ==
  \/ \E r \in Req : Drafting(r) \/ Polling(r) \/ Sending(r) \/ Crash(r)
  \/ \E g \in GenIds, state \in {"completed", "failed"} : GammaJobEnds(g, state)
  \/ Desk

Spec == Init /\ [][Next]_vars

(* A request in flight ends (every provider call has a timeout), Gamma     *)
(* finishes a generation, and while a deck is drafting the UI keeps        *)
(* polling: sooner or later a poll is answered.  Checked without crashes.  *)
Fairness ==
  \A r \in Req :
    /\ WF_vars(LlmClaim(r)) /\ WF_vars(LlmPersist(r) \/ LlmFail(r))
    /\ WF_vars(GammaClaim(r))
    /\ WF_vars((\E g \in GenIds : GammaStart(r, g)) \/ GammaStartFail(r))
    /\ WF_vars(GammaTrack(r))
    /\ WF_vars(ClearWrite(r)) /\ WF_vars(MarkWrite(r)) /\ WF_vars(ScaffoldPersist(r))
    /\ WF_vars(SendClaim(r)) /\ WF_vars(SendDone(r) \/ SendFail(r))
    /\ WF_vars(PollPersist(r)) /\ WF_vars(PollRollback(r)) /\ WF_vars(PollUntrack(r))
    /\ WF_vars(PollPending(r))
    /\ SF_vars(PollBegin(r))
    /\ SF_vars(\E state \in {"completed", "failed"} : PollAnswered(r, state))

(* Gamma ends what it started.                                             *)
GammaFairness ==
  \A g \in GenIds : WF_vars(\E state \in {"completed", "failed"} : GammaJobEnds(g, state))

LiveSpec == Spec /\ Fairness /\ GammaFairness

-----------------------------------------------------------------------------
Ops == {"idle", "llm", "llm:call", "scaffold", "gamma", "gamma:start",
        "gamma:track", "poll", "completed", "failed", "untrack", "clear",
        "mark", "send", "send:mail"}

Tx == [op : Ops, was : Statuses, gen : GenIds \cup {Null}]

(* The columns and requests in flight; a request past Gamma's answer knows *)
(* its generation.                                                         *)
TypeOK ==
  /\ status \in Statuses
  /\ drafted \in BOOLEAN
  /\ source \in {"manual", "scaffold", "llm", "gamma", Null}
  /\ generation \in GenIds \cup {Null}
  /\ jobs \in [GenIds -> {"none", "running", "completed", "failed"}]
  /\ mails \in Nat /\ reported \in BOOLEAN
  /\ claimed \in DraftClaimFrom
  /\ world \in Worlds
  /\ tx \in [Req -> Tx]
  /\ \A r \in Req : tx[r].op \in {"gamma:track", "poll"} => tx[r].gen \in GenIds

Delivered == mails > 0 \/ reported

OneRep == "alone" \in world /\ "crash" \notin world

(* "no phantom 'sent'" (sendViaOutlook): while one rep works and nothing    *)
(* crashes, the row says sent only when the client has the proposal or a    *)
(* mail is on its way.                                                      *)
NoPhantomSent ==
  OneRep /\ status = "sent" => Delivered \/ InFlight({"send:mail"}) # {}

AtMostOne(S) == \A r, s \in S : r = s

SendersOnly == world \subseteq {"mark", "send", "crash"}

(* "can't both email the client": while reps only send and mark as sent,   *)
(* and Outlook's answers arrive, one mail leaves however often they click.  *)
OneMail ==
  SendersOnly =>
    /\ AtMostOne(InFlight({"send:mail"}))
    /\ mails <= 1
    /\ mails > 0 => InFlight({"send:mail"}) = {}

GammaOnly == world \subseteq {"gamma", "crash"}

(* "only ONE call reaches Gamma": of any generate requests on the Gamma     *)
(* path, one at a time is past the claim.                                   *)
OneGammaStart ==
  GammaOnly => AtMostOne(InFlight({"gamma:start", "gamma:track"}))

(* A failed draft puts back the status the claim had replaced: a failed    *)
(* re-draft of a sent proposal does not demote it (rollbackDraftStatus).   *)
RollbackRestoresClaim ==
  [][\A r \in Req : LlmFail(r) \/ GammaStartFail(r) =>
        status' \in {status, claimed}]_vars

(* A proposal shown as ready has a text: no order of drafting, clearing,    *)
(* polling and a released send loses the text and keeps the status.         *)
ReadyMeansDrafted == status = "draft_ready" => drafted

(* "we never leave a half-flipped 'drafting'": a drafting row is being     *)
(* worked on or is tracked by a generation the UI polls.                   *)
DraftingIsTracked ==
  status = "drafting" =>
    \/ generation # Null /\ source = "gamma"
    \/ InFlight(Ops \ {"idle"}) # {}

(* The row never says more of the draft than there is: a text behind a     *)
(* ready one, somebody or something at work behind one that is drafting.   *)
StatusIsTrue == ReadyMeansDrafted /\ DraftingIsTracked

(* A row does not stay in "drafting".                                      *)
DraftingEnds == status = "drafting" ~> status # "drafting"

=============================================================================
