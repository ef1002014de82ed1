-------------------------- MODULE ExtractionProofs --------------------------
(***************************************************************************)
(* Proofs about ExtractionPipeline: type correctness, and that a file in   *)
(* "processing" has a worker whenever the database and the process stay    *)
(* up, for any number of files, kickoffs and workers.                      *)
(***************************************************************************)
EXTENDS ExtractionPipeline, TLAPS

(* The record abbreviations are well typed.                                *)
LEMMA RecordTypes ==
  /\ AnyFile \in Files
  /\ Idle \in [op : Ops, f : Files, attempts : 0..MaxAttempts,
               points : SUBSET Nodes, good : BOOLEAN]
  /\ NoSubmit \in [op : {"idle", "list", "kick", "claim"}, f : Files,
                   todo : SUBSET Files, enqueued : BOOLEAN]
<1>1. AnyFile \in Files
  BY FilesAssumption DEF AnyFile
<1>2. 0 \in 0..MaxAttempts
  BY MaxAttemptsAssumption
<1>3. QED
  BY <1>1, <1>2 DEF Idle, NoSubmit, Ops, Working

Task   == [op : Ops, f : Files, attempts : 0..MaxAttempts, points : SUBSET Nodes, good : BOOLEAN]
Tasked == task \in [Tasks -> Task]
Filed  == file \in [Files -> [st : Statuses, attempts : 0..MaxAttempts]]
Rest   == /\ timers \subseteq Files
          /\ answers \in [Nodes -> {"none", "form", "doc"}]
          /\ eng \in {"gathering", "submitted", "predicted"} /\ priced \in BOOLEAN
          /\ calls \subseteq Tasks \cup {Submit}
          /\ submit \in [op : {"idle", "list", "kick", "claim"}, f : Files,
                         todo : SUBSET Files, enqueued : BOOLEAN]
          /\ clicks \in 0..MaxClicks
          /\ world \in Worlds

(* What the operators on one worker and on one file preserve.              *)
LEMMA AdvanceTyped ==
  ASSUME Tasked, NEW t \in Tasks, NEW op \in Ops, Advance(t, op)
  PROVE  Tasked'
BY DEF Tasked, Task, Advance

LEMMA FinishTyped ==
  ASSUME Tasked, NEW t \in Tasks, Finish(t)
  PROVE  Tasked'
BY RecordTypes DEF Tasked, Task, Finish

LEMMA ForkTyped ==
  ASSUME Tasked, NEW t \in Tasks, NEW op \in Ops, NEW f \in Files, Fork(t, op, f)
  PROVE  Tasked'
<1>1. [Idle EXCEPT !.op = op, !.f = f] \in Task
  BY RecordTypes DEF Task
<1>2. QED
  BY <1>1 DEF Tasked, Fork

LEMMA StatusTyped ==
  ASSUME Filed, NEW f \in Files, NEW s \in Statuses, SetStatus(f, s)
  PROVE  Filed'
BY DEF Filed, SetStatus

LEMMA TypeInit == Init => TypeOK
<1>. SUFFICES ASSUME Init PROVE TypeOK
  OBVIOUS
<1>1. 0 \in 0..MaxAttempts /\ 0 \in 0..MaxClicks
  BY MaxAttemptsAssumption, MaxClicksAssumption
<1>2. QED
  BY <1>1, RecordTypes DEF Init, TypeOK, Statuses

LEMMA TypeStep == TypeOK /\ [Next]_vars => TypeOK'
<1>. SUFFICES ASSUME Tasked, Filed, Rest, [Next]_vars PROVE Tasked' /\ Filed' /\ Rest'
  BY DEF TypeOK, Tasked, Task, Filed, Rest
<1>f. \A t \in Tasks : task[t].f \in Files
  BY DEF Tasked, Task
<1>s. /\ {"none", "processing", "failed", "skipped"} \subseteq Statuses
      /\ {"kick", "claim", "work", "spent", "settle", "gate", "publish"} \subseteq Ops
  BY DEF Statuses, InFlight, Terminal, Ops, Working
<1>r. submit.f \in Files /\ submit.todo \subseteq Files
  BY DEF Rest
<1>0. CASE UNCHANGED vars
  BY <1>0 DEF vars, deal, others, Tasked, Filed, Rest
<1>1. ASSUME NEW n \in Nodes, ClientAnswer(n) PROVE Tasked' /\ Filed' /\ Rest'
  <2>1. Tasked'
    BY <1>1 DEF ClientAnswer, Tasked
  <2>2. Filed'
    BY <1>1 DEF ClientAnswer, Filed
  <2>3. Rest'
    BY <1>1 DEF ClientAnswer, deal, others, Rest
  <2>4. QED
    BY <2>1, <2>2, <2>3
<1>2. ASSUME NEW f \in Files, Upload(f) PROVE Tasked' /\ Filed' /\ Rest'
  <2>1. Tasked'
    BY <1>2 DEF Upload, Tasked
  <2>2. Filed'
    BY <1>2, StatusTyped, <1>s DEF Upload
  <2>3. Rest'
    BY <1>2 DEF Upload, deal, others, Rest
  <2>4. QED
    BY <2>1, <2>2, <2>3
<1>3. ASSUME NEW t \in Tasks, NEW f \in Files, TimerKick(t, f) PROVE Tasked' /\ Filed' /\ Rest'
  <2>1. Tasked'
    BY <1>3, ForkTyped, <1>s, <1>f DEF TimerKick
  <2>2. Filed'
    BY <1>3 DEF TimerKick, Filed
  <2>3. Rest'
    BY <1>3 DEF TimerKick, deal, others, Rest
  <2>4. QED
    BY <2>1, <2>2, <2>3
<1>4. ASSUME NEW t \in Tasks, NEW f \in Files, SweepKick(t, f) PROVE Tasked' /\ Filed' /\ Rest'
  <2>1. Tasked'
    BY <1>4, ForkTyped, <1>s, <1>f DEF SweepKick
  <2>2. Filed'
    BY <1>4 DEF SweepKick, Filed
  <2>3. Rest'
    BY <1>4 DEF SweepKick, deal, others, Rest
  <2>4. QED
    BY <2>1, <2>2, <2>3
<1>5. ASSUME NEW t \in Tasks, NEW f \in Files, Reextract(t, f) PROVE Tasked' /\ Filed' /\ Rest'
  <2>1. Tasked'
    BY <1>5, ForkTyped, <1>s, <1>f DEF Reextract
  <2>2. Filed'
    BY <1>5 DEF Reextract, Filed
  <2>3. Rest'
    BY <1>5, MaxClicksAssumption DEF Reextract, deal, others, Rest
  <2>4. QED
    BY <2>1, <2>2, <2>3
<1>6. ASSUME NEW t \in Tasks, KickRead(t) PROVE Tasked' /\ Filed' /\ Rest'
  <2>1. Tasked'
    BY <1>6, FinishTyped, AdvanceTyped, <1>s DEF KickRead
  <2>2. Filed'
    BY <1>6 DEF KickRead, Filed
  <2>3. Rest'
    BY <1>6 DEF KickRead, deal, others, Rest
  <2>4. QED
    BY <2>1, <2>2, <2>3
<1>7. ASSUME NEW t \in Tasks, KickClaim(t) PROVE Tasked' /\ Filed' /\ Rest'
  <2>1. Tasked'
    BY <1>7, AdvanceTyped, <1>s DEF KickClaim
  <2>2. Filed'
    BY <1>7, StatusTyped, <1>s, <1>f DEF KickClaim
  <2>3. Rest'
    BY <1>7 DEF KickClaim, deal, others, Rest
  <2>4. QED
    BY <2>1, <2>2, <2>3
<1>8. ASSUME NEW t \in Tasks, NEW s \in {"failed", "skipped"}, MarkTerminal(t, s)
     PROVE Tasked' /\ Filed' /\ Rest'
  <2>1. Tasked'
    BY <1>8, AdvanceTyped, <1>s DEF MarkTerminal
  <2>2. Filed'
    BY <1>8, StatusTyped, <1>s, <1>f DEF MarkTerminal
  <2>3. Rest'
    BY <1>8 DEF MarkTerminal, deal, others, Rest
  <2>4. QED
    BY <2>1, <2>2, <2>3
<1>9. ASSUME NEW t \in Tasks, QueueRead(t) PROVE Tasked' /\ Filed' /\ Rest'
  <2>1. Tasked'
    <3>. DEFINE read == file[task[t].f].attempts
    <3>1. read \in 0..MaxAttempts
      BY <1>f DEF Filed
    <3>2. task[t] \in Task /\ "queue" \in Ops
      BY DEF Tasked, Ops, Working
    <3>3. [task[t] EXCEPT !.op = "queue", !.attempts = read] \in Task
      BY <3>1, <3>2 DEF Task
    <3>4. task' = [task EXCEPT ![t] = [task[t] EXCEPT !.op = "queue", !.attempts = read]]
      BY <1>9 DEF QueueRead, Tasked
    <3>5. QED
      BY <3>3, <3>4 DEF Tasked
  <2>2. Filed'
    BY <1>9 DEF QueueRead, Filed
  <2>3. Rest'
    BY <1>9 DEF QueueRead, deal, others, Rest
  <2>4. QED
    BY <2>1, <2>2, <2>3
<1>10. ASSUME NEW t \in Tasks, QueueWrite(t) PROVE Tasked' /\ Filed' /\ Rest'
  <2>1. Rest'
    BY <1>10 DEF QueueWrite, deal, others, Rest
  <2>2. CASE task[t].attempts + 1 > MaxAttempts
    BY <1>10, <2>1, <2>2, ForkTyped, <1>f, <1>s DEF QueueWrite, Filed
  <2>3. CASE ~(task[t].attempts + 1 > MaxAttempts)
    <3>1. task[t].attempts \in 0..MaxAttempts
      BY DEF Tasked, Task
    <3>2. task[t].attempts + 1 \in 0..MaxAttempts
      BY <2>3, <3>1, MaxAttemptsAssumption
    <3>3. Filed'
      BY <1>10, <2>3, <3>2 DEF QueueWrite, Filed, Statuses, InFlight
    <3>4. Tasked'
      BY <1>10, <2>3, FinishTyped DEF QueueWrite
    <3>5. QED
      BY <2>1, <3>3, <3>4
  <2>4. QED
    BY <2>2, <2>3
<1>11. ASSUME NEW t \in Tasks, PersistPoints(t) PROVE Tasked' /\ Filed' /\ Rest'
  <2>1. Tasked'
    <3>1. PICK points \in SUBSET Nodes :
            task' = [task EXCEPT ![t].op = "read", ![t].points = points]
      BY <1>11 DEF PersistPoints
    <3>2. task[t] \in Task /\ "read" \in Ops
      BY DEF Tasked, Ops, Working
    <3>3. [task[t] EXCEPT !.op = "read", !.points = points] \in Task
      BY <3>2 DEF Task
    <3>4. task' = [task EXCEPT ![t] = [task[t] EXCEPT !.op = "read", !.points = points]]
      BY <3>1 DEF Tasked
    <3>5. QED
      BY <3>3, <3>4 DEF Tasked
  <2>2. Filed'
    BY <1>11, StatusTyped, <1>s, <1>f DEF PersistPoints
  <2>3. Rest'
    BY <1>11 DEF PersistPoints, deal, others, Rest
  <2>4. QED
    BY <2>1, <2>2, <2>3
<1>12. ASSUME NEW t \in Tasks, PromoteRead(t) PROVE Tasked' /\ Filed' /\ Rest'
  <2>1. Tasked'
    BY <1>12 DEF PromoteRead, Tasked, Task, Ops, Working
  <2>2. Filed'
    BY <1>12 DEF PromoteRead, Filed
  <2>3. Rest'
    BY <1>12 DEF PromoteRead, deal, others, Rest
  <2>4. QED
    BY <2>1, <2>2, <2>3
<1>13. ASSUME NEW t \in Tasks, PromoteWrite(t) PROVE Tasked' /\ Filed' /\ Rest'
  <2>1. Tasked'
    BY <1>13, RecordTypes, <1>f DEF PromoteWrite, Tasked, Task, Ops, Working
  <2>2. Filed'
    BY <1>13 DEF PromoteWrite, Filed
  <2>3. Rest'
    BY <1>13 DEF PromoteWrite, deal, others, Rest
  <2>4. QED
    BY <2>1, <2>2, <2>3
<1>14. ASSUME NEW t \in Tasks, Settle(t) PROVE Tasked' /\ Filed' /\ Rest'
  <2>1. Tasked'
    BY <1>14, FinishTyped, AdvanceTyped, <1>s DEF Settle, AfterSettle
  <2>2. Filed'
    BY <1>14 DEF Settle, Filed
  <2>3. Rest'
    BY <1>14 DEF Settle, deal, others, Rest
  <2>4. QED
    BY <2>1, <2>2, <2>3
<1>15. ASSUME NEW t \in Tasks, Gate(t) PROVE Tasked' /\ Filed' /\ Rest'
  <2>1. Tasked'
    BY <1>15, FinishTyped, AdvanceTyped, <1>s DEF Gate, AfterSettle
  <2>2. Filed'
    BY <1>15 DEF Gate, Filed
  <2>3. Rest'
    BY <1>15 DEF Gate, deal, others, Rest
  <2>4. QED
    BY <2>1, <2>2, <2>3
<1>16. ASSUME NEW t \in Tasks, Publish(t) PROVE Tasked' /\ Filed' /\ Rest'
  <2>1. Tasked'
    BY <1>16, FinishTyped DEF Publish
  <2>2. Filed'
    BY <1>16, MaxAttemptsAssumption, <1>f DEF Publish, Filed, Statuses, Terminal
  <2>3. Rest'
    BY <1>16 DEF Publish, deal, others, Rest
  <2>4. QED
    BY <2>1, <2>2, <2>3
<1>17. ASSUME NEW t \in Tasks, GiveUp(t) PROVE Tasked' /\ Filed' /\ Rest'
  <2>1. Tasked'
    BY <1>17, FinishTyped DEF GiveUp
  <2>2. Filed'
    BY <1>17 DEF GiveUp, Filed
  <2>3. Rest'
    BY <1>17 DEF GiveUp, deal, others, Rest
  <2>4. QED
    BY <2>1, <2>2, <2>3
<1>18. CASE SubmitClaim
  <2>1. Tasked'
    BY <1>18 DEF SubmitClaim, Tasked
  <2>2. Filed'
    BY <1>18 DEF SubmitClaim, Filed
  <2>3. Rest'
    BY <1>18 DEF SubmitClaim, deal, others, Rest
  <2>4. QED
    BY <2>1, <2>2, <2>3
<1>19. CASE SubmitList
  <2>1. Tasked'
    BY <1>19 DEF SubmitList, Tasked
  <2>2. Filed'
    BY <1>19 DEF SubmitList, Filed
  <2>3. Rest'
    BY <1>19 DEF SubmitList, deal, others, Rest
  <2>4. QED
    BY <2>1, <2>2, <2>3
<1>20. CASE SubmitCount
  <2>1. Tasked'
    BY <1>20 DEF SubmitCount, Tasked
  <2>2. Filed'
    BY <1>20 DEF SubmitCount, Filed
  <2>3. Rest'
    BY <1>20, RecordTypes DEF SubmitCount, deal, others, Rest
  <2>4. QED
    BY <2>1, <2>2, <2>3
<1>21. ASSUME NEW f \in Files, SubmitKickRead(f) PROVE Tasked' /\ Filed' /\ Rest'
  <2>1. Tasked'
    BY <1>21 DEF SubmitKickRead, Tasked
  <2>2. Filed'
    BY <1>21 DEF SubmitKickRead, Filed
  <2>3. Rest'
    BY <1>21 DEF SubmitKickRead, deal, others, Rest
  <2>4. QED
    BY <2>1, <2>2, <2>3
<1>22. ASSUME NEW t \in Tasks, SubmitKickClaim(t) PROVE Tasked' /\ Filed' /\ Rest'
  <2>1. Tasked'
    BY <1>22, ForkTyped, <1>s, <1>r DEF SubmitKickClaim
  <2>2. Filed'
    BY <1>22, StatusTyped, <1>s, <1>r DEF SubmitKickClaim
  <2>3. Rest'
    BY <1>22 DEF SubmitKickClaim, deal, others, Rest
  <2>4. QED
    BY <2>1, <2>2, <2>3
<1>23. ASSUME NEW c \in calls, MlSkip(c) PROVE Tasked' /\ Filed' /\ Rest'
  <2>1. Tasked'
    BY <1>23 DEF MlSkip, Tasked
  <2>2. Filed'
    BY <1>23 DEF MlSkip, Filed
  <2>3. Rest'
    BY <1>23 DEF MlSkip, deal, others, Rest
  <2>4. QED
    BY <2>1, <2>2, <2>3
<1>24. ASSUME NEW c \in calls, MlWrite(c) PROVE Tasked' /\ Filed' /\ Rest'
  <2>1. Tasked'
    BY <1>24 DEF MlWrite, Tasked
  <2>2. Filed'
    BY <1>24 DEF MlWrite, Filed
  <2>3. Rest'
    BY <1>24 DEF MlWrite, deal, others, Rest
  <2>4. QED
    BY <2>1, <2>2, <2>3
<1>25. ASSUME NEW c \in calls, MlFail(c) PROVE Tasked' /\ Filed' /\ Rest'
  <2>1. Tasked'
    BY <1>25 DEF MlFail, Tasked
  <2>2. Filed'
    BY <1>25 DEF MlFail, Filed
  <2>3. Rest'
    BY <1>25 DEF MlFail, deal, others, Rest
  <2>4. QED
    BY <2>1, <2>2, <2>3
<1>26. CASE PriceByHand
  <2>1. Tasked'
    BY <1>26 DEF PriceByHand, Tasked
  <2>2. Filed'
    BY <1>26 DEF PriceByHand, Filed
  <2>3. Rest'
    BY <1>26 DEF PriceByHand, deal, others, Rest
  <2>4. QED
    BY <2>1, <2>2, <2>3
<1>27. CASE Restart
  <2>1. Tasked'
    BY <1>27, RecordTypes DEF Restart, Tasked, Task
  <2>2. Filed'
    BY <1>27 DEF Restart, Filed
  <2>3. Rest'
    BY <1>27, RecordTypes DEF Restart, deal, others, Rest
  <2>4. QED
    BY <2>1, <2>2, <2>3
<1>28. QED
  BY <1>0, <1>1, <1>2, <1>3, <1>4, <1>5, <1>6, <1>7, <1>8, <1>9, <1>10, <1>11,
     <1>12, <1>13, <1>14, <1>15, <1>16, <1>17, <1>18, <1>19, <1>20, <1>21, <1>22,
     <1>23, <1>24, <1>25, <1>26, <1>27 DEF Next, WorkerStep, SubmitStep, MlStep

(* Statuses, attempts and the records of the workers keep their range for  *)
(* any number of files and kickoffs; in particular no file is retried more *)
(* than MAX_RETRY_ATTEMPTS times between two successes.                    *)
THEOREM TypeCorrect == Spec => []TypeOK
<1>1. QED
  BY TypeInit, TypeStep, PTL DEF Spec

-----------------------------------------------------------------------------
(* A step of worker t keeps every processing file covered if each file it  *)
(* does not cover itself was covered by somebody else.                     *)
LEMMA StepCovers ==
  ASSUME ProcessingHasWorker, Calm' => Calm, NEW t \in Tasks,
         \A u \in Tasks \ {t} : task'[u] = task[u],
         \A g \in Files : file'[g].st = "processing" =>
           \/ StillWrites(t)' /\ task'[t].f = g
           \/ file[g].st = "processing" /\ ~(StillWrites(t) /\ task[t].f = g)
  PROVE  ProcessingHasWorker'
<1>. SUFFICES ASSUME Calm', NEW g \in Files, file'[g].st = "processing"
              PROVE  \E u \in Tasks : task'[u].f = g /\ StillWrites(u)'
  BY DEF ProcessingHasWorker
<1>1. CASE StillWrites(t)' /\ task'[t].f = g
  BY <1>1
<1>2. CASE file[g].st = "processing" /\ ~(StillWrites(t) /\ task[t].f = g)
  <2>1. PICK u \in Tasks : task[u].f = g /\ StillWrites(u)
    BY <1>2 DEF ProcessingHasWorker
  <2>2. u # t
    BY <1>2, <2>1
  <2>3. task'[u] = task[u]
    BY <2>2
  <2>4. QED
    BY <2>1, <2>3 DEF StillWrites
<1>3. QED
  BY <1>1, <1>2

(* Steps that leave the workers alone, and start no processing.            *)
LEMMA StepElsewhere ==
  ASSUME ProcessingHasWorker, Calm' => Calm, task' = task,
         \A g \in Files : file'[g].st = "processing" => file[g].st = "processing"
  PROVE  ProcessingHasWorker'
BY DEF ProcessingHasWorker, StillWrites

LEMMA CoverStep == TypeOK /\ ProcessingHasWorker /\ [Next]_vars => ProcessingHasWorker'
<1>. SUFFICES ASSUME TypeOK, ProcessingHasWorker, [Next]_vars PROVE ProcessingHasWorker'
  OBVIOUS
<1>t. Tasked /\ Filed /\ submit.f \in Files /\ \A t \in Tasks : task[t].f \in Files
  BY DEF TypeOK, Tasked, Task, Filed
<1>w. world' = world
  BY DEF Next, WorkerStep, SubmitStep, MlStep, vars, deal, others, ClientAnswer, Upload,
     TimerKick, SweepKick, Reextract, KickRead, KickClaim, MarkTerminal, QueueRead,
     QueueWrite, PersistPoints, PromoteRead, PromoteWrite, Settle, Gate, Publish, GiveUp,
     SubmitClaim, SubmitList, SubmitCount, SubmitKickRead, SubmitKickClaim, MlSkip,
     MlWrite, MlFail, PriceByHand, Restart
<1>c. Calm' => Calm
  BY <1>w DEF Calm
<1>1. CASE UNCHANGED vars
  BY <1>1, <1>c, <1>t, StepElsewhere DEF vars
<1>2. ASSUME NEW n \in Nodes, ClientAnswer(n) PROVE ProcessingHasWorker'
  BY <1>2, <1>c, <1>t, StepElsewhere DEF ClientAnswer
<1>3. ASSUME NEW f \in Files, Upload(f) PROVE ProcessingHasWorker'
  BY <1>3, <1>c, <1>t, StepElsewhere DEF Upload, SetStatus, Filed
<1>4. ASSUME NEW t \in Tasks, NEW f \in Files, TimerKick(t, f) PROVE ProcessingHasWorker'
  <2>1. \A u \in Tasks \ {t} : task'[u] = task[u]
    BY <1>4, <1>t DEF TimerKick, Fork, Free, Idle, Tasked
  <2>2. \A g \in Files : file'[g].st = "processing" =>
          \/ StillWrites(t)' /\ task'[t].f = g
          \/ file[g].st = "processing" /\ ~(StillWrites(t) /\ task[t].f = g)
    BY <1>4, <1>t DEF TimerKick, Fork, Free, Idle, StillWrites, Working, Tasked, Task, Filed
  <2>3. QED
    BY <2>1, <2>2, <1>c, StepCovers
<1>5. ASSUME NEW t \in Tasks, NEW f \in Files, SweepKick(t, f) PROVE ProcessingHasWorker'
  <2>1. \A u \in Tasks \ {t} : task'[u] = task[u]
    BY <1>5, <1>t DEF SweepKick, Fork, Free, Idle, Tasked
  <2>2. \A g \in Files : file'[g].st = "processing" =>
          \/ StillWrites(t)' /\ task'[t].f = g
          \/ file[g].st = "processing" /\ ~(StillWrites(t) /\ task[t].f = g)
    BY <1>5, <1>t DEF SweepKick, Fork, Free, Idle, StillWrites, Working, Tasked, Task, Filed
  <2>3. QED
    BY <2>1, <2>2, <1>c, StepCovers
<1>6. ASSUME NEW t \in Tasks, NEW f \in Files, Reextract(t, f) PROVE ProcessingHasWorker'
  <2>1. \A u \in Tasks \ {t} : task'[u] = task[u]
    BY <1>6, <1>t DEF Reextract, Fork, Free, Idle, Tasked
  <2>2. \A g \in Files : file'[g].st = "processing" =>
          \/ StillWrites(t)' /\ task'[t].f = g
          \/ file[g].st = "processing" /\ ~(StillWrites(t) /\ task[t].f = g)
    BY <1>6, <1>t DEF Reextract, Fork, Free, Idle, StillWrites, Working, Tasked, Task, Filed
  <2>3. QED
    BY <2>1, <2>2, <1>c, StepCovers
<1>7. ASSUME NEW t \in Tasks, KickRead(t) PROVE ProcessingHasWorker'
  <2>1. \A u \in Tasks \ {t} : task'[u] = task[u]
    BY <1>7, <1>t DEF KickRead, At, Finish, Advance, Idle, Tasked
  <2>2. \A g \in Files : file'[g].st = "processing" =>
          \/ StillWrites(t)' /\ task'[t].f = g
          \/ file[g].st = "processing" /\ ~(StillWrites(t) /\ task[t].f = g)
    BY <1>7, <1>t DEF KickRead, At, Finish, Advance, Idle, StillWrites, Working, Tasked, Task, Filed
  <2>3. QED
    BY <2>1, <2>2, <1>c, StepCovers
<1>8. ASSUME NEW t \in Tasks, KickClaim(t) PROVE ProcessingHasWorker'
  <2>1. \A u \in Tasks \ {t} : task'[u] = task[u]
    BY <1>8, <1>t DEF KickClaim, At, Advance, SetStatus, Tasked
  <2>2. \A g \in Files : file'[g].st = "processing" =>
          \/ StillWrites(t)' /\ task'[t].f = g
          \/ file[g].st = "processing" /\ ~(StillWrites(t) /\ task[t].f = g)
    BY <1>8, <1>t DEF KickClaim, At, Advance, SetStatus, StillWrites, Working, Tasked, Task, Filed
  <2>3. QED
    BY <2>1, <2>2, <1>c, StepCovers
<1>9. ASSUME NEW t \in Tasks, NEW s \in {"failed", "skipped"}, MarkTerminal(t, s)
     PROVE ProcessingHasWorker'
  <2>1. \A u \in Tasks \ {t} : task'[u] = task[u]
    BY <1>9, <1>t DEF MarkTerminal, At, Advance, SetStatus, Tasked
  <2>2. \A g \in Files : file'[g].st = "processing" =>
          \/ StillWrites(t)' /\ task'[t].f = g
          \/ file[g].st = "processing" /\ ~(StillWrites(t) /\ task[t].f = g)
    BY <1>9, <1>t DEF MarkTerminal, At, Advance, SetStatus, StillWrites, Working, Tasked, Task, Filed
  <2>3. QED
    BY <2>1, <2>2, <1>c, StepCovers
<1>10. ASSUME NEW t \in Tasks, QueueRead(t) PROVE ProcessingHasWorker'
  <2>1. \A u \in Tasks \ {t} : task'[u] = task[u]
    BY <1>10, <1>t DEF QueueRead, At, Tasked
  <2>2. \A g \in Files : file'[g].st = "processing" =>
          \/ StillWrites(t)' /\ task'[t].f = g
          \/ file[g].st = "processing" /\ ~(StillWrites(t) /\ task[t].f = g)
    BY <1>10, <1>t DEF QueueRead, At, StillWrites, Working, Tasked, Task, Filed
  <2>3. QED
    BY <2>1, <2>2, <1>c, StepCovers
<1>11. ASSUME NEW t \in Tasks, QueueWrite(t) PROVE ProcessingHasWorker'
  <2>1. \A u \in Tasks \ {t} : task'[u] = task[u]
    BY <1>11, <1>t DEF QueueWrite, At, Fork, Finish, Idle, Tasked
  <2>2. \A g \in Files : file'[g].st = "processing" =>
          \/ StillWrites(t)' /\ task'[t].f = g
          \/ file[g].st = "processing" /\ ~(StillWrites(t) /\ task[t].f = g)
    <3>1. task[t].op = "queue"
      BY <1>11 DEF QueueWrite, At
    <3>2. CASE task[t].attempts + 1 > MaxAttempts
      <4>1. file' = file /\ task'[t].op = "spent" /\ task'[t].f = task[t].f
        BY <1>11, <1>t, <3>2 DEF QueueWrite, Fork, Idle, Tasked
      <4>2. QED
        BY <3>1, <4>1 DEF StillWrites, Working
    <3>3. CASE ~(task[t].attempts + 1 > MaxAttempts)
      <4>1. file' = [file EXCEPT ![task[t].f] = [st |-> "retry_queued",
                                                 attempts |-> task[t].attempts + 1]]
        BY <1>11, <3>3 DEF QueueWrite
      <4>2. \A g \in Files : file'[g].st = "processing" =>
              g # task[t].f /\ file[g].st = "processing"
        BY <1>t, <4>1 DEF Filed
      <4>3. QED
        BY <4>2
    <3>4. QED
      BY <3>2, <3>3
  <2>3. QED
    BY <2>1, <2>2, <1>c, StepCovers
<1>12. ASSUME NEW t \in Tasks, PersistPoints(t) PROVE ProcessingHasWorker'
  <2>1. \A u \in Tasks \ {t} : task'[u] = task[u]
    BY <1>12, <1>t DEF PersistPoints, At, SetStatus, Tasked
  <2>2. \A g \in Files : file'[g].st = "processing" =>
          \/ StillWrites(t)' /\ task'[t].f = g
          \/ file[g].st = "processing" /\ ~(StillWrites(t) /\ task[t].f = g)
    BY <1>12, <1>t DEF PersistPoints, At, SetStatus, StillWrites, Working, Tasked, Task, Filed
  <2>3. QED
    BY <2>1, <2>2, <1>c, StepCovers
<1>13. ASSUME NEW t \in Tasks, PromoteRead(t) PROVE ProcessingHasWorker'
  <2>1. \A u \in Tasks \ {t} : task'[u] = task[u]
    BY <1>13, <1>t DEF PromoteRead, At, Tasked
  <2>2. \A g \in Files : file'[g].st = "processing" =>
          \/ StillWrites(t)' /\ task'[t].f = g
          \/ file[g].st = "processing" /\ ~(StillWrites(t) /\ task[t].f = g)
    BY <1>13, <1>t DEF PromoteRead, At, StillWrites, Working, Tasked, Task, Filed
  <2>3. QED
    BY <2>1, <2>2, <1>c, StepCovers
<1>14. ASSUME NEW t \in Tasks, PromoteWrite(t) PROVE ProcessingHasWorker'
  <2>1. \A u \in Tasks \ {t} : task'[u] = task[u]
    BY <1>14, <1>t DEF PromoteWrite, At, Idle, Tasked
  <2>2. \A g \in Files : file'[g].st = "processing" =>
          \/ StillWrites(t)' /\ task'[t].f = g
          \/ file[g].st = "processing" /\ ~(StillWrites(t) /\ task[t].f = g)
    BY <1>14, <1>t DEF PromoteWrite, At, Idle, StillWrites, Working, Tasked, Task, Filed
  <2>3. QED
    BY <2>1, <2>2, <1>c, StepCovers
<1>15. ASSUME NEW t \in Tasks, Settle(t) PROVE ProcessingHasWorker'
  <2>1. \A u \in Tasks \ {t} : task'[u] = task[u]
    BY <1>15, <1>t DEF Settle, AfterSettle, At, Advance, Finish, Idle, Tasked
  <2>2. \A g \in Files : file'[g].st = "processing" =>
          \/ StillWrites(t)' /\ task'[t].f = g
          \/ file[g].st = "processing" /\ ~(StillWrites(t) /\ task[t].f = g)
    BY <1>15, <1>t DEF Settle, AfterSettle, At, Advance, Finish, Idle, StillWrites, Working, Tasked, Task, Filed
  <2>3. QED
    BY <2>1, <2>2, <1>c, StepCovers
<1>16. ASSUME NEW t \in Tasks, Gate(t) PROVE ProcessingHasWorker'
  <2>1. \A u \in Tasks \ {t} : task'[u] = task[u]
    BY <1>16, <1>t DEF Gate, AfterSettle, At, Advance, Finish, Idle, Tasked
  <2>2. \A g \in Files : file'[g].st = "processing" =>
          \/ StillWrites(t)' /\ task'[t].f = g
          \/ file[g].st = "processing" /\ ~(StillWrites(t) /\ task[t].f = g)
    BY <1>16, <1>t DEF Gate, AfterSettle, At, Advance, Finish, Idle, StillWrites, Working, Tasked, Task, Filed
  <2>3. QED
    BY <2>1, <2>2, <1>c, StepCovers
<1>17. ASSUME NEW t \in Tasks, Publish(t) PROVE ProcessingHasWorker'
  <2>1. \A u \in Tasks \ {t} : task'[u] = task[u]
    BY <1>17, <1>t DEF Publish, At, Finish, Idle, Tasked
  <2>2. \A g \in Files : file'[g].st = "processing" =>
          \/ StillWrites(t)' /\ task'[t].f = g
          \/ file[g].st = "processing" /\ ~(StillWrites(t) /\ task[t].f = g)
    BY <1>17, <1>t DEF Publish, At, Finish, Idle, StillWrites, Working, Tasked, Task, Filed
  <2>3. QED
    BY <2>1, <2>2, <1>c, StepCovers
<1>18. ASSUME NEW t \in Tasks, GiveUp(t) PROVE ProcessingHasWorker'
  BY <1>18, <1>c DEF GiveUp, Calm, ProcessingHasWorker
<1>19. CASE SubmitClaim
  BY <1>19, <1>c, <1>t, StepElsewhere DEF SubmitClaim
<1>20. CASE SubmitList
  BY <1>20, <1>c, <1>t, StepElsewhere DEF SubmitList
<1>21. CASE SubmitCount
  BY <1>21, <1>c, <1>t, StepElsewhere DEF SubmitCount
<1>22. CASE PriceByHand
  BY <1>22, <1>c, <1>t, StepElsewhere DEF PriceByHand
<1>23. ASSUME NEW f \in Files, SubmitKickRead(f) PROVE ProcessingHasWorker'
  BY <1>23, <1>c, <1>t, StepElsewhere DEF SubmitKickRead
<1>24. ASSUME NEW t \in Tasks, SubmitKickClaim(t) PROVE ProcessingHasWorker'
  <2>1. \A u \in Tasks \ {t} : task'[u] = task[u]
    BY <1>24, <1>t DEF SubmitKickClaim, Fork, Free, SetStatus, Idle, Tasked
  <2>2. \A g \in Files : file'[g].st = "processing" =>
          \/ StillWrites(t)' /\ task'[t].f = g
          \/ file[g].st = "processing" /\ ~(StillWrites(t) /\ task[t].f = g)
    BY <1>24, <1>t DEF SubmitKickClaim, Fork, Free, SetStatus, Idle, StillWrites, Working, Tasked, Task, Filed
  <2>3. QED
    BY <2>1, <2>2, <1>c, StepCovers
<1>25. ASSUME NEW c \in calls, MlSkip(c) PROVE ProcessingHasWorker'
  BY <1>25, <1>c, <1>t, StepElsewhere DEF MlSkip
<1>26. ASSUME NEW c \in calls, MlWrite(c) PROVE ProcessingHasWorker'
  BY <1>26, <1>c, <1>t, StepElsewhere DEF MlWrite
<1>27. ASSUME NEW c \in calls, MlFail(c) PROVE ProcessingHasWorker'
  BY <1>27, <1>c, <1>t, StepElsewhere DEF MlFail
<1>28. CASE Restart
  BY <1>28, <1>c DEF Restart, Calm, ProcessingHasWorker
<1>29. QED
  BY <1>1, <1>2, <1>3, <1>4, <1>5, <1>6, <1>7, <1>8, <1>9, <1>10, <1>11, <1>12,
     <1>13, <1>14, <1>15, <1>16, <1>17, <1>18, <1>19, <1>20, <1>21, <1>22, <1>23,
     <1>24, <1>25, <1>26, <1>27, <1>28 DEF Next, WorkerStep, SubmitStep, MlStep

(* While the database and the process stay up, no file is left in          *)
(* "processing" without somebody who will write its outcome, however many  *)
(* kickoffs of however many files overlap (extraction.service.ts has no    *)
(* lock and no lease on a file).                                           *)
THEOREM ProcessingCovered == Spec => []ProcessingHasWorker
<1>1. Init => ProcessingHasWorker
  BY DEF Init, ProcessingHasWorker
<1>2. TypeOK /\ ProcessingHasWorker /\ [Next]_vars => ProcessingHasWorker'
  BY CoverStep
<1>3. QED
  BY <1>1, <1>2, TypeInit, TypeStep, PTL DEF Spec

-----------------------------------------------------------------------------
(* Who touches an answer: the client, with "form", and a promotion, where   *)
(* its whole batch met no answer at all.                                    *)
LEMMA AnswersMove ==
  ASSUME TypeOK, [Next]_vars
  PROVE  \/ UNCHANGED answers
         \/ \E n \in Nodes : answers' = [answers EXCEPT ![n] = "form"]
         \/ \E new \in SUBSET Nodes :
              answers' = [n \in Nodes |-> IF n \in new /\ new \cap Answered = {}
                                          THEN "doc" ELSE answers[n]]
<1>1. ASSUME NEW n \in Nodes, ClientAnswer(n)
      PROVE  answers' = [answers EXCEPT ![n] = "form"]
  BY <1>1 DEF ClientAnswer
<1>2. ASSUME NEW t \in Tasks, PromoteWrite(t)
      PROVE  \E new \in SUBSET Nodes :
               answers' = [n \in Nodes |-> IF n \in new /\ new \cap Answered = {}
                                           THEN "doc" ELSE answers[n]]
  <2>1. task[t].points \in SUBSET Nodes
    BY DEF TypeOK
  <2> QED BY <1>2, <2>1 DEF PromoteWrite
<1>3. ASSUME NEW t \in Tasks, NEW f \in Files, TimerKick(t, f) \/ SweepKick(t, f) \/ Reextract(t, f)
      PROVE  UNCHANGED answers
  BY <1>3 DEF TimerKick, SweepKick, Reextract
<1>4. ASSUME NEW t \in Tasks, WorkerStep(t) \/ GiveUp(t)
      PROVE  UNCHANGED answers \/ PromoteWrite(t)
  BY <1>4 DEF WorkerStep, KickRead, KickClaim, MarkTerminal, QueueRead, QueueWrite,
     PersistPoints, PromoteRead, Settle, Gate, Publish, GiveUp
<1>5. CASE SubmitClaim \/ SubmitStep \/ PriceByHand \/ Restart \/ UNCHANGED vars
  BY <1>5 DEF SubmitClaim, SubmitStep, SubmitList, SubmitCount, SubmitKickRead,
     SubmitKickClaim, PriceByHand, Restart, vars
<1>6. CASE MlStep \/ \E c \in calls : MlFail(c)
  BY <1>6 DEF MlStep, MlSkip, MlWrite, MlFail
<1>7. ASSUME NEW f \in Files, Upload(f) PROVE UNCHANGED answers
  BY <1>7 DEF Upload
<1> QED BY <1>1, <1>2, <1>3, <1>4, <1>5, <1>6, <1>7 DEF Next

(* What the client typed survives every document, however old the answers   *)
(* are that its promotion decided from.                                     *)
THEOREM FormAnswersStay == Spec => FormAnswerWins
<1> DEFINE Kept == \A n \in Nodes : answers[n] = "form" => answers'[n] = "form"
<1>1. TypeOK /\ [Next]_vars => [Kept]_vars
  <2> SUFFICES ASSUME TypeOK, [Next]_vars, NEW n \in Nodes, answers[n] = "form"
               PROVE  answers'[n] = "form"
    OBVIOUS
  <2>1. answers \in [Nodes -> {"none", "form", "doc"}]
    BY DEF TypeOK
  <2>2. ASSUME NEW new \in SUBSET Nodes,
               answers' = [m \in Nodes |-> IF m \in new /\ new \cap Answered = {}
                                           THEN "doc" ELSE answers[m]]
        PROVE  answers'[n] = "form"
    <3>1. n \in Answered
      BY DEF Answered
    <3> QED BY <2>2, <3>1
  <2> QED BY <2>1, <2>2, AnswersMove
<1> QED BY <1>1, TypeCorrect, PTL DEF Spec, FormAnswerWins
=============================================================================
