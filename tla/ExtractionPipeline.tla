------------------------- MODULE ExtractionPipeline -------------------------
(***************************************************************************)
(* From an uploaded document to a price prediction, for one opportunity    *)
(* (apps/api/src/extraction/extraction.service.ts, the upload and submit   *)
(* handlers of gathering.service.ts and ml.service.ts).                    *)
(*                                                                         *)
(* A kickoff forks a worker that nobody awaits: it fetches the document,   *)
(* asks the LLM, copies what it found into the answers, checks whether it  *)
(* was the last one (then it asks for the prediction) and publishes the    *)
(* file as ready.  Kickoffs come from the timer of the upload, the retry   *)
(* sweep, the rep's Re-extract button and the client's submit.  Nothing    *)
(* serialises them: each step below is one database transaction.           *)
(*                                                                         *)
(* Modelled for an opportunity with no rate card, whose files get their    *)
(* answers from promoteAnswersFromPoints alone.                            *)
(***************************************************************************)
EXTENDS Integers, FiniteSets

CONSTANTS
  Files, Nodes,   \* documents, and top-level questions of the template
  Tasks,          \* bound on kickoffs and workers running at the same time
  Submit,         \* the submit request, as the caller of a prediction
  MaxAttempts,    \* MAX_RETRY_ATTEMPTS
  MaxClicks,      \* bound on the rep's re-extractions
  Worlds          \* what may go wrong: a behaviour has one of these sets

Mishaps == {"db_error", "ml_error", "restart"}

ASSUME FilesAssumption       == Files # {}
ASSUME MaxAttemptsAssumption == MaxAttempts \in Nat
ASSUME MaxClicksAssumption   == MaxClicks \in Nat
ASSUME SubmitAssumption      == Submit \notin Tasks
ASSUME WorldsAssumption      == Worlds \subseteq SUBSET Mishaps

VARIABLES
  file,     \* engagement_files: extraction_status and extraction_attempts
  timers,   \* files whose upload timer has not fired yet
  answers,  \* engagement_answers: who answered each node
  eng,      \* engagements.status, up to the prediction
  priced,   \* the opportunity has a row in predictions
  calls,    \* who waits for the ML service
  task,     \* the kickoffs and workers
  submit,   \* the client's submit request
  clicks,   \* re-extractions so far
  world

deal   == <<eng, priced, calls>>
others == <<timers, submit, clicks, world>>
vars   == <<file, answers, deal, task, others>>

-----------------------------------------------------------------------------
Terminal == {"ready", "failed", "skipped"}
InFlight == {"processing", "retry_queued"}
Statuses == {"absent", "none"} \cup InFlight \cup Terminal

Working  == {"work", "queue", "spent", "read", "promote", "settle", "gate", "publish"}
Ops      == {"idle", "kick", "claim"} \cup Working

AnyFile  == CHOOSE f \in Files : TRUE
Idle     == [op |-> "idle", f |-> AnyFile, attempts |-> 0,
             points |-> {}, good |-> FALSE]
NoSubmit == [op |-> "idle", f |-> AnyFile, todo |-> {}, enqueued |-> FALSE]

Free(t)        == task[t].op = "idle" /\ t \notin calls
At(t, op)      == task[t].op = op
Advance(t, op) == task' = [task EXCEPT ![t].op = op]
Finish(t)      == task' = [task EXCEPT ![t] = Idle]
Fork(t, op, f) == task' = [task EXCEPT ![t] = [Idle EXCEPT !.op = op, !.f = f]]

SetStatus(f, s) == file' = [file EXCEPT ![f].st = s]
Answered        == {n \in Nodes : answers[n] # "none"}

(* isAllSettled: a file nobody kicked yet counts as settled.               *)
AllSettled == \A f \in Files : file[f].st \notin InFlight

Init ==
  /\ file = [f \in Files |-> [st |-> "absent", attempts |-> 0]]
  /\ timers = {} /\ calls = {}
  /\ answers = [n \in Nodes |-> "none"]
  /\ eng = "gathering" /\ priced = FALSE
  /\ task = [t \in Tasks |-> Idle]
  /\ submit = NoSubmit
  /\ clicks = 0
  /\ world \in Worlds

-----------------------------------------------------------------------------
(* The client.  resolveToken precedes the transaction that writes, so what *)
(* it accepted before the submit may be written at any later time.         *)
ClientAnswer(n) ==
  /\ answers[n] # "form"
  /\ answers' = [answers EXCEPT ![n] = "form"]
  /\ UNCHANGED <<file, deal, task, others>>

Upload(f) ==
  /\ file[f].st = "absent"
  /\ SetStatus(f, "none")
  /\ timers' = timers \cup {f}
  /\ UNCHANGED <<answers, deal, task, submit, clicks, world>>

-----------------------------------------------------------------------------
(* Who calls kickoff: the timer, the sweep over retry_queued rows whose    *)
(* time has come, and the rep (forceExtract).                              *)
TimerKick(t, f) ==
  /\ Free(t) /\ f \in timers
  /\ timers' = timers \ {f}
  /\ Fork(t, "kick", f)
  /\ UNCHANGED <<file, answers, deal, submit, clicks, world>>

SweepKick(t, f) ==
  /\ Free(t) /\ file[f].st = "retry_queued"
  /\ Fork(t, "kick", f)
  /\ UNCHANGED <<file, answers, deal, others>>

Reextract(t, f) ==
  /\ Free(t) /\ file[f].st # "absent" /\ clicks < MaxClicks
  /\ clicks' = clicks + 1
  /\ Fork(t, "kick", f)
  /\ UNCHANGED <<file, answers, deal, timers, submit, world>>

(* kickoff: read the row, then update it by id.  A processing file is left *)
(* alone; the attempts are kept.                                           *)
KickRead(t) ==
  /\ At(t, "kick")
  /\ IF file[task[t].f].st = "processing" THEN Finish(t) ELSE Advance(t, "claim")
  /\ UNCHANGED <<file, answers, deal, others>>

KickClaim(t) ==
  /\ At(t, "claim")
  /\ SetStatus(task[t].f, "processing")
  /\ Advance(t, "work")
  /\ UNCHANGED <<answers, deal, others>>

-----------------------------------------------------------------------------
(* runExtraction.  markSkipped and markFailed, also once the retries are   *)
(* spent; the worker then looks whether it was the last one.               *)
MarkTerminal(t, s) ==
  /\ \/ At(t, "work")
     \/ At(t, "spent") /\ s = "failed"
  /\ SetStatus(task[t].f, s)
  /\ Advance(t, "settle")
  /\ UNCHANGED <<answers, deal, others>>

(* queueForRetry, after a rate limit or a transient storage error: the     *)
(* attempts are read in one transaction and written in another.            *)
QueueRead(t) ==
  /\ At(t, "work")
  /\ task' = [task EXCEPT ![t].op = "queue", ![t].attempts = file[task[t].f].attempts]
  /\ UNCHANGED <<file, answers, deal, others>>

QueueWrite_DropsAtLimit(t) ==
  LET next == task[t].attempts + 1 IN
  /\ At(t, "queue")
  /\ IF next > MaxAttempts
     THEN Finish(t) /\ UNCHANGED file
     ELSE /\ file' = [file EXCEPT ![task[t].f] = [st |-> "retry_queued", attempts |-> next]]
          /\ Finish(t)
  /\ UNCHANGED <<answers, deal, others>>

QueueWrite_NotCounted(t) ==
  LET next == task[t].attempts + 1 IN
  /\ At(t, "queue")
  /\ IF next > MaxAttempts
     THEN Fork(t, "spent", task[t].f) /\ UNCHANGED file
     ELSE /\ file' = [file EXCEPT ![task[t].f] = [st |-> "retry_queued", attempts |-> task[t].attempts]]
          /\ Finish(t)
  /\ UNCHANGED <<answers, deal, others>>

QueueWrite(t) ==
  LET next == task[t].attempts + 1 IN
  /\ At(t, "queue")
  /\ IF next > MaxAttempts
     THEN Fork(t, "spent", task[t].f) /\ UNCHANGED file
     ELSE /\ file' = [file EXCEPT ![task[t].f] = [st |-> "retry_queued", attempts |-> next]]
          /\ Finish(t)
  /\ UNCHANGED <<answers, deal, others>>

(* persistResult, step A: the points found answer some of the nodes.       *)
PersistPoints(t) ==
  /\ At(t, "work")
  /\ SetStatus(task[t].f, "processing")
  /\ \E points \in SUBSET Nodes :
       task' = [task EXCEPT ![t].op = "read", ![t].points = points]
  /\ UNCHANGED <<answers, deal, others>>

(* promoteAnswersFromPoints: read what is answered, keep the rest.         *)
PromoteRead(t) ==
  /\ At(t, "read")
  /\ task' = [task EXCEPT ![t].op = "promote", ![t].points = @ \ Answered]
  /\ UNCHANGED <<file, answers, deal, others>>

(* Then create it.  An answer that arrived in between violates the unique  *)
(* key and aborts the transaction; the error is caught, the batch is gone. *)
PromoteWrite_Upsert(t) ==
  LET new == task[t].points IN
  /\ At(t, "promote")
  /\ answers' = [n \in Nodes |-> IF n \in new
                                 THEN "doc" ELSE answers[n]]
  /\ task' = [task EXCEPT ![t] = [Idle EXCEPT !.op = "settle", !.f = task[t].f, !.good = TRUE]]
  /\ UNCHANGED <<file, deal, others>>

PromoteWrite(t) ==
  LET new == task[t].points IN
  /\ At(t, "promote")
  /\ answers' = [n \in Nodes |-> IF n \in new /\ new \cap Answered = {}
                                 THEN "doc" ELSE answers[n]]
  /\ task' = [task EXCEPT ![t] = [Idle EXCEPT !.op = "settle", !.f = task[t].f, !.good = TRUE]]
  /\ UNCHANGED <<file, deal, others>>

-----------------------------------------------------------------------------
(* settleAndMaybePredict: count the files in flight, then read the deal.   *)
(* A worker on its way to "ready" still has its own file in processing.    *)
AfterSettle(t) == IF task[t].good THEN Advance(t, "publish") ELSE Finish(t)

Settle(t) ==
  /\ At(t, "settle")
  /\ IF AllSettled THEN Advance(t, "gate") ELSE AfterSettle(t)
  /\ UNCHANGED <<file, answers, deal, others>>

Gate(t) ==
  /\ At(t, "gate")
  /\ calls' = IF eng = "submitted" /\ ~priced THEN calls \cup {t} ELSE calls
  /\ AfterSettle(t)
  /\ UNCHANGED <<file, answers, eng, priced, others>>

(* persistResult, step B.                                                  *)
Publish(t) ==
  /\ At(t, "publish")
  /\ file' = [file EXCEPT ![task[t].f] = [st |-> "ready", attempts |-> 0]]
  /\ Finish(t)
  /\ UNCHANGED <<answers, deal, others>>

-----------------------------------------------------------------------------
(* submit: claim, kick what was never or badly extracted, then ask for the *)
(* prediction if there was nothing to kick and nothing is in flight.       *)
SubmitClaim ==
  /\ eng = "gathering"
  /\ eng' = "submitted"
  /\ submit' = [submit EXCEPT !.op = "list"]
  /\ UNCHANGED <<file, answers, priced, calls, task, timers, clicks, world>>

SubmitList ==
  LET stragglers == {f \in Files : file[f].st \in {"none", "failed"}} IN
  /\ submit.op = "list"
  /\ submit' = [submit EXCEPT !.op = "kick", !.todo = stragglers, !.enqueued = stragglers # {}]
  /\ UNCHANGED <<file, answers, deal, task, timers, clicks, world>>

(* kickoffForEngagement awaits one kickoff after the other.                *)
SubmitKickRead(f) ==
  /\ submit.op = "kick" /\ f \in submit.todo
  /\ submit' = [submit EXCEPT !.op = IF file[f].st = "processing" THEN "kick" ELSE "claim",
                              !.todo = @ \ {f}, !.f = f]
  /\ UNCHANGED <<file, answers, deal, task, timers, clicks, world>>

SubmitKickClaim(t) ==
  /\ submit.op = "claim" /\ Free(t)
  /\ submit' = [submit EXCEPT !.op = "kick"]
  /\ SetStatus(submit.f, "processing")
  /\ Fork(t, "work", submit.f)
  /\ UNCHANGED <<answers, deal, timers, clicks, world>>

SubmitCount ==
  /\ submit.op = "kick" /\ submit.todo = {}
  /\ submit' = NoSubmit
  /\ calls' = IF ~submit.enqueued /\ AllSettled THEN calls \cup {Submit} ELSE calls
  /\ UNCHANGED <<file, answers, eng, priced, task, timers, clicks, world>>

-----------------------------------------------------------------------------
(* predictForEngagement: nothing to do for a scope without answers;        *)
(* otherwise the ML service answers and the deal is marked predicted.      *)
MlSkip(c) ==
  /\ c \in calls /\ Answered = {}
  /\ calls' = calls \ {c}
  /\ UNCHANGED <<file, answers, eng, priced, task, others>>

MlWrite(c) ==
  /\ c \in calls /\ Answered # {}
  /\ calls' = calls \ {c}
  /\ eng' = "predicted"
  /\ UNCHANGED <<file, answers, priced, task, others>>

MlFail(c) ==
  /\ "ml_error" \in world
  /\ c \in calls
  /\ calls' = calls \ {c}
  /\ UNCHANGED <<file, answers, eng, priced, task, others>>

(* A prediction of the pricing service leaves a row, not a status.         *)
PriceByHand ==
  /\ ~priced
  /\ priced' = TRUE
  /\ UNCHANGED <<file, answers, eng, calls, task, others>>

-----------------------------------------------------------------------------
(* A database error ends a worker where it is: the load of runExtraction,  *)
(* the catch of markTerminal and the catch of the fork all just log it.    *)
GiveUp(t) ==
  /\ "db_error" \in world
  /\ task[t].op # "idle"
  /\ Finish(t)
  /\ UNCHANGED <<file, answers, deal, others>>

(* The timers, the workers and every request are in memory only.           *)
Restart ==
  /\ "restart" \in world
  /\ timers' = {} /\ calls' = {}
  /\ task' = [t \in Tasks |-> Idle]
  /\ submit' = NoSubmit
  /\ UNCHANGED <<file, answers, eng, priced, clicks, world>>

-----------------------------------------------------------------------------
WorkerStep(t) ==
  \/ KickRead(t) \/ KickClaim(t)
  \/ QueueRead(t) \/ QueueWrite(t)
  \/ \E s \in {"failed", "skipped"} : MarkTerminal(t, s)
  \/ PersistPoints(t) \/ PromoteRead(t) \/ PromoteWrite(t)
  \/ Settle(t) \/ Gate(t) \/ Publish(t)

SubmitStep ==
  \/ SubmitList \/ SubmitCount
  \/ \E f \in Files : SubmitKickRead(f)
  \/ \E t \in Tasks : SubmitKickClaim(t)

MlStep == \E c \in calls : MlSkip(c) \/ MlWrite(c)

Next ==
  \/ \E n \in Nodes : ClientAnswer(n)
  \/ \E f \in Files : Upload(f)
  \/ \E t \in Tasks, f \in Files : TimerKick(t, f) \/ SweepKick(t, f) \/ Reextract(t, f)
  \/ \E t \in Tasks : WorkerStep(t) \/ GiveUp(t)
  \/ SubmitClaim \/ SubmitStep
  \/ MlStep \/ \E c \in calls : MlFail(c)
  \/ PriceByHand \/ Restart

Spec == Init /\ [][Next]_vars

(* Timers fire, the sweep runs every 30 seconds, awaited calls return and  *)
(* forked promises are run.  Client, rep and mishaps owe nothing.  A kick  *)
(* that waits for a slot of Tasks is owed less here than in the code.      *)
Fairness ==
  /\ \A t \in Tasks : WF_vars(WorkerStep(t))
  /\ \A f \in Files : /\ WF_vars(\E t \in Tasks : TimerKick(t, f))
                      /\ WF_vars(\E t \in Tasks : SweepKick(t, f))
  /\ WF_vars(SubmitStep) /\ WF_vars(MlStep)

LiveSpec == Spec /\ Fairness

-----------------------------------------------------------------------------
TypeOK ==
  /\ file \in [Files -> [st : Statuses, attempts : 0..MaxAttempts]]
  /\ timers \subseteq Files
  /\ answers \in [Nodes -> {"none", "form", "doc"}]
  /\ eng \in {"gathering", "submitted", "predicted"} /\ priced \in BOOLEAN
  /\ calls \subseteq Tasks \cup {Submit}
  /\ task \in [Tasks -> [op : Ops, f : Files, attempts : 0..MaxAttempts,
                         points : SUBSET Nodes, good : BOOLEAN]]
  /\ submit \in [op : {"idle", "list", "kick", "claim"}, f : Files,
                 todo : SUBSET Files, enqueued : BOOLEAN]
  /\ clicks \in 0..MaxClicks
  /\ world \in Worlds

(* The worker will write a status; one that marked its file failed or      *)
(* skipped only has the prediction left to ask for.                        *)
StillWrites(t) == task[t].op \in Working /\ (task[t].op \in {"settle", "gate"} => task[t].good)
Calm           == world \cap {"db_error", "restart"} = {}

(* A file in "processing" has a worker that is still going to write its    *)
(* outcome, whoever else is working on the same file: kickoff refuses such *)
(* a file and no sweep looks for it, so a row left behind would stay there *)
(* for good.  Only a database error or a restart of the process leaves one.*)
ProcessingHasWorker ==
  Calm => \A f \in Files : file[f].st = "processing" =>
            \E t \in Tasks : task[t].f = f /\ StillWrites(t)

(* What the client typed is never replaced by what a document says, though *)
(* the promotion decides from answers it read earlier ("the form's answer  *)
(* always wins on conflict").                                              *)
FormAnswerWins == [][\A n \in Nodes : answers[n] = "form" => answers'[n] = "form"]_vars

(* Every uploaded document gets an outcome: the LLM may be rate limited    *)
(* for good, the retries still come to an end.                             *)
UploadsSettle ==
  \A f \in Files :
    file[f].st \notin {"absent"} \cup Terminal /\ Calm
      ~> file[f].st \in Terminal

(* The last document to finish asks for the prediction of a submitted      *)
(* scope ("settleAndMaybePredict triggers it once the last file finishes").*)
PredictionFollows ==
  eng = "submitted" /\ Answered # {} /\ ~AllSettled ~> eng = "predicted" \/ priced
=============================================================================
