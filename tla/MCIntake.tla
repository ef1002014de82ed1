------------------------------ MODULE MCIntake ------------------------------
(* The intake subsystems side by side: each behaviour runs one of them, so *)
(* a run explores their sum and never their product.                       *)
EXTENDS GatheringSession, Ingestion, OdooSync, OutlookMail, OutlookPane,
        NewOpportunity

CONSTANTS l1, l2, t1, t2, t3, d1, d2, j1, j2, m1, m2, b1, b2

VARIABLE part
intakeVars == <<gatheringVars, ingestionVars, odooVars, mailVars, paneVars, newVars, part>>

\* A yes/no question, then a loop over applications with one question each.
Yes == [t |-> "str", v |-> 1]
No  == [t |-> "str", v |-> 2]
MCRule(op, v, g) == [op |-> op, value |-> v, goto |-> g]
MCNode(ty, par, pos, rules) ==
  [type |-> ty, parent |-> par, position |-> pos, required |-> TRUE, options |-> {1, 2},
   rules |-> rules, slug |-> None, yesMaps |-> FALSE]
MCTemplate ==
  [root |-> "q", nodes |->
    [q     |-> MCNode("single_select", None, 0,
                      <<MCRule("eq", Yes, "apps"), MCRule("always", Nothing, END)>>),
     apps  |-> MCNode("loop", None, 1, <<MCRule("always", Nothing, END)>>),
     users |-> MCNode("short_text", "apps", 2, <<MCRule("always", Nothing, END)>>)]]
MCValues == [q |-> {Yes, No}, apps |-> {}, users |-> {Yes}]
MCDevice == t1 :> d1 @@ t2 :> d1 @@ t3 :> d2
MCCrews  == {[tabs |-> {t1}, links |-> {l1}, roam |-> TRUE, iters |-> 2],
             [tabs |-> {t1, t2}, links |-> {l1}, roam |-> FALSE, iters |-> 1],
             [tabs |-> {t1, t3}, links |-> {l1, l2}, roam |-> FALSE, iters |-> 0]}

\* Odoo: requests one by one with faults; answers with arrays; an admin; two at once.
Calm == [jobs |-> {j1}, calm |-> TRUE, sure |-> TRUE, hooks |-> 2, faults |-> TRUE,
         admin |-> FALSE, arrays |-> FALSE, edits |-> 2, now |-> 1]
MCOdooCrews ==
  {Calm, [Calm EXCEPT !.arrays = TRUE, !.edits = 1, !.hooks = 1],
   [Calm EXCEPT !.sure = FALSE, !.faults = FALSE, !.hooks = 0, !.admin = TRUE, !.edits = 1, !.now = 0],
   [Calm EXCEPT !.jobs = {j1, j2}, !.calm = FALSE, !.sure = FALSE, !.hooks = 0, !.faults = FALSE,
                !.edits = 1, !.now = 0]}

\* Outlook: two requests on one mailbox, or one at a time and two mailboxes.
MCMailWorlds == {[reqs |-> {m1, m2}, boxes |-> {b1}, alone |-> FALSE, admin |-> TRUE],
                 [reqs |-> {m1}, boxes |-> {b1, b2}, alone |-> TRUE, admin |-> FALSE]}

\* The page that starts opportunities: its wizard, or two rows of files.
Clicking(c, f) == [clicks |-> c, files |-> f, mishaps |-> 1]
MCStartScenes == {Clicking(6, 0), Clicking(5, 2)}

IntakeInit == /\ GatheringInit /\ IngestionInit /\ OdooInit /\ MailInit /\ PaneInit
              /\ NewInit
              /\ part \in {"gathering", "ingestion", "odoo", "mail", "pane", "start"}
              \* a part that does not run starts in one state
              /\ part # "gathering" => gCrew = (CHOOSE c \in Crews : TRUE)
              /\ part # "odoo" => oCrew = Calm
              /\ part # "mail" => mWorld = (CHOOSE w \in MailWorlds : TRUE)
              /\ part # "pane" => xCache = "none" /\ xHasId
              /\ part # "start" => start = Clicking(6, 0)

(* The parts that stand still while one goes on.                           *)
Idlers(running) ==
  /\ UNCHANGED part /\ part = running
  /\ running # "gathering" => UNCHANGED gatheringVars
  /\ running # "ingestion" => UNCHANGED ingestionVars
  /\ running # "odoo" => UNCHANGED odooVars
  /\ running # "mail" => UNCHANGED mailVars
  /\ running # "pane" => UNCHANGED paneVars
  /\ running # "start" => UNCHANGED newVars
IntakeNext == \/ Idlers("gathering") /\ GatheringNext
              \/ Idlers("ingestion") /\ IngestionNext
              \/ Idlers("odoo") /\ OdooNext
              \/ Idlers("mail") /\ MailNext
              \/ Idlers("pane") /\ PaneNext
              \/ Idlers("start") /\ NewNext

IntakeSpec == IntakeInit /\ [][IntakeNext]_intakeVars

(* What reaches the system twice, by a double click, a second tab, a retry *)
(* or a redelivery, is one submission, one artifact, one deal and one lead *)
(* (submit, receive, createFromEmailIngest, pushOpportunity).              *)
NothingTwice == OneSubmission /\ OneArtifactPerMail /\ OneDealPerMail /\ OneLeadPerDeal

(* What the workspace says of the systems beside it is so: the deal's copy *)
(* of its lead, and the mailbox a mail was sent from.                      *)
MirrorsAreTrue == MirrorIsFresh /\ NamedAsSent
=============================================================================
