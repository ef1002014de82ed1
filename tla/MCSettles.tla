----------------------------- MODULE MCSettles -----------------------------
(* Two kinds of background work side by side, one per behaviour: the       *)
(* nightly audit build and the AI summary.                                 *)
EXTENDS AuditChain, LeadDesk

VARIABLE work
settleVars == <<vars, leadVars, work>>

MCLeadSettings == {[autoOn |-> TRUE, provider |-> "llm"], [autoOn |-> TRUE, provider |-> "manual"],
                   [autoOn |-> FALSE, provider |-> "none"]}

SettleInit == /\ Init /\ LeadInit
              /\ work \in {"chain", "lead"}
              /\ work # "lead" => leadSetting.provider = "none"

SettleNext ==
  \/ work = "chain" /\ NextQuiet /\ UNCHANGED <<leadVars, work>>
  \/ work = "lead" /\ LeadNext /\ UNCHANGED <<vars, work>>

(* The nightly cron runs again and again, a transaction ends, time passes. *)
Chaining == work = "chain"
ChainFairness ==
  /\ WF_vars(Chaining /\ Tick)
  /\ WF_vars(Chaining /\ \E e \in inserting : Commit(e) \/ Rollback(e))
  /\ \A c \in Callers :
       /\ SF_vars(Chaining /\ BuildBegin(c))
       /\ SF_vars(Chaining /\ Quiet /\ BuildRead(c))
       /\ WF_vars(Chaining /\ BuildWrite(c))
       /\ WF_vars(Chaining /\ VerifyLink(c))

SettleSpec == /\ SettleInit /\ [][SettleNext]_settleVars
              /\ ChainFairness /\ LeadFairness
=============================================================================
