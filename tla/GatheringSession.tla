-------------------------- MODULE GatheringSession --------------------------
(***************************************************************************)
(* The questionnaire a client fills in over a magic link: the requests of  *)
(* apps/api/src/gathering/gathering.service.ts, the links minted by        *)
(* engagements.service.ts, and the page apps/web/src/app/g/[token] that    *)
(* sends them from one or several browser tabs.                            *)
(*                                                                         *)
(* Every request runs in two transactions: one looks the token up and      *)
(* binds the device, the next does the work, and reads the loop cursor     *)
(* before it writes the whole of it back.  A page shows a cursor the       *)
(* server computed at some earlier time.                                   *)
(***************************************************************************)
EXTENDS QuestionEngine, TLC

CONSTANTS
  Links, Tabs, Device,     \* magic links; open pages; Device[t] of a page
  Template,                \* the published template of the opportunity
  Values,                  \* Values[n]: what a responder may answer at node n
  MaxIter,                 \* bound on loop iterations; a crew may have less (iters)
  MaxEvents,               \* bound on the counters of the event log
  Crews                    \* who takes part: sets of [tabs, links, roam, iters]

ASSUME GatheringAssumption ==
  /\ MaxIter \in Nat /\ MaxEvents \in Nat \ {0}
  /\ \A c \in Crews : c.tabs \subseteq Tabs /\ c.links \subseteq Links /\ IsFiniteSet(c.links)
  /\ TemplateIssues(Template, {}) = {} /\ None \notin DOMAIN Template.nodes
  /\ \A n \in DOMAIN Template.nodes :
       LET rules == Template.nodes[n].rules IN DOMAIN rules = 1 .. Len(rules)
  \* the rows of a body are finitely many, so one has the lowest position
  /\ \A l \in DOMAIN Template.nodes :
       BodyOf(Template, l) # {} => BodyEntry(Template, l) \in BodyOf(Template, l)

VARIABLES
  gEng,    \* engagements: status, and submitted_at is set
  gLink,   \* gathering_tokens: state and bound device
  gAns,    \* engagement_answers, by <<node, iteration>>
  gLoop,   \* engagements.loop_state
  gTab,    \* the pages
  gLog,    \* how often: scope_submitted, the pricing pipeline
  gShown,  \* history: the iteration the page showed when an answer was typed
  gCare,   \* history: how the responder moved about
  gCrew    \* the pages and links of this behaviour; whether pages roam; iterations

gatheringVars == <<gEng, gLink, gAns, gLoop, gTab, gLog, gShown, gCare, gCrew>>

-----------------------------------------------------------------------------
gNodes     == DOMAIN Template.nodes
Parent(n)  == Template.nodes[n].parent
Loops      == {n \in gNodes : Template.nodes[n].type = "loop"}
Gathering  == {"issued", "in_progress"}

NoRequest  == [op |-> "none"]
Page(view) == [link |-> None, pc |-> "closed", req |-> NoRequest, seen |-> None,
               base |-> <<>>, view |-> view, listed |-> 0, poll |-> AtEnd, polls |-> FALSE]

(* loopAnswers.length of getState: iterations up to the last with answers. *)
Iterations(l, ans) ==
  LET used == {k[2] + 1 : k \in {x \in DOMAIN ans : Parent(x[1]) = l}}
  IN  IF used = {} THEN 0 ELSE CHOOSE m \in used : \A u \in used : u <= m

Cursor(ans, loop) ==
  IF gEng.submittedAt THEN AtEnd ELSE FindCursor(Template, ans, loop)

Upsert(f, k, v) == [x \in DOMAIN f \cup {k} |-> IF x = k THEN v ELSE f[x]]
IterOf(loop, l) == IF l \in DOMAIN loop THEN loop[l].iter ELSE 0

GatheringInit ==
  /\ gEng \in {[status |-> "issued", submittedAt |-> FALSE],
               [status |-> "ingesting", submittedAt |-> FALSE]}
  /\ gLink = [l \in Links |-> [state |-> "none", bound |-> None]]
  /\ gAns = <<>> /\ gLoop = <<>>
  /\ gTab = [t \in Tabs |-> Page(AtEnd)]
  /\ gLog = [submitted |-> 0, runs |-> 0]
  /\ gShown = <<>> /\ gCare = "straight"
  /\ gCrew \in Crews

-----------------------------------------------------------------------------
(* The rep: issue() and issueLinkForExisting() both end here.  Nothing is  *)
(* said of the links that exist already, nor of the opportunity's status.  *)
MintLink(l) ==
  /\ gLink[l].state = "none"
  /\ gLink' = [gLink EXCEPT ![l].state = "active"]
  /\ UNCHANGED <<gEng, gAns, gLoop, gTab, gLog, gShown, gCare>>

Expire(l) ==
  /\ gLink[l].state = "active"
  /\ gLink' = [gLink EXCEPT ![l].state = "expired"]
  /\ UNCHANGED <<gEng, gAns, gLoop, gTab, gLog, gShown, gCare>>

-----------------------------------------------------------------------------
(* The page.  busy keeps it from sending a second request of its own; the  *)
(* poll of an extraction in flight is not held back by it.                 *)
Idle(t)     == gTab[t].pc = "idle"
Send(t, r)  == gTab' = [gTab EXCEPT ![t].pc = "lookup", ![t].req = r]
PageOnly    == UNCHANGED <<gEng, gLink, gAns, gLoop, gLog>>

(* Opened, or reloaded when it said the form is submitted or the link dead. *)
OpenPage(t, l) ==
  /\ gTab[t].pc \in {"closed", "done", "failed"} /\ gLink[l].state # "none"
  /\ gTab[t].pc # "closed" => gTab[t].link = l
  /\ gTab' = [gTab EXCEPT ![t] = [Page(AtEnd) EXCEPT !.pc = "lookup", !.link = l,
                                                      !.req = [op |-> "state"]]]
  /\ gCare' = IF \E u \in Tabs \ {t} : gTab[u].pc # "closed" THEN "strayed" ELSE gCare
  /\ PageOnly /\ UNCHANGED gShown

PressContinue(t, v) ==
  /\ Idle(t) /\ gTab[t].view.kind = "node"
  /\ v \in Values[gTab[t].view.node]
  /\ Send(t, [op |-> "answer", node |-> gTab[t].view.node, val |-> v,
              iter |-> gTab[t].view.iter])
  /\ PageOnly /\ UNCHANGED <<gShown, gCare>>

PressLoopStep(t, action) ==
  /\ Idle(t) /\ gTab[t].view.kind = "loop_step"
  /\ action = "continue" => gTab[t].view.iter < gCrew.iters
  /\ Send(t, [op |-> "loop", loop |-> gTab[t].view.loop, action |-> action])
  /\ PageOnly /\ UNCHANGED <<gShown, gCare>>

PressRemove(t, l, i) ==
  /\ Idle(t) /\ gTab[t].view.kind = "node" /\ i < gTab[t].listed
  /\ Send(t, [op |-> "remove", loop |-> l, iter |-> i])
  /\ gCare' = IF gCare = "straight" THEN "jumped" ELSE gCare
  /\ PageOnly /\ UNCHANGED gShown

(* Submit of the Review overlay, whatever is still unanswered.             *)
PressSubmit(t) ==
  /\ Idle(t) /\ gTab[t].view.kind = "node"
  /\ Send(t, [op |-> "submit"])
  /\ PageOnly /\ UNCHANGED <<gShown, gCare>>

(* Sidebar, Back and Review rows: only the page moves.                     *)
JumpToNode(t, n, i) ==
  /\ Idle(t) /\ gTab[t].view.kind = "node"
  /\ n \notin Loops
  /\ IF Parent(n) = None THEN i = 0 ELSE i < gTab[t].listed
  /\ gTab' = [gTab EXCEPT ![t].view = AtNode(n, Parent(n), i)]
  /\ gCare' = IF gCare = "strayed" \/ (Parent(n) # None /\ i # IterOf(gLoop, Parent(n)))
              THEN "strayed" ELSE "jumped"
  /\ PageOnly /\ UNCHANGED gShown

(* The poll reads the state in a request of its own; its answer replaces   *)
(* the cursor when it arrives, whatever the page showed meanwhile.         *)
Poll(t) ==
  /\ gTab[t].pc \notin {"closed", "failed"} /\ ~gTab[t].polls
  /\ gLink[gTab[t].link].state = "active"
  /\ gLink[gTab[t].link].bound = Device[t]
  /\ gTab' = [gTab EXCEPT ![t].polls = TRUE, ![t].poll = Cursor(gAns, gLoop)]
  /\ PageOnly /\ UNCHANGED <<gShown, gCare>>

PollAnswer(t) ==
  /\ gTab[t].polls
  /\ gTab' = [gTab EXCEPT ![t].polls = FALSE, ![t].poll = AtEnd,
                          ![t].view = gTab[t].poll]
  /\ gCare' = IF gTab[t].poll # Cursor(gAns, gLoop) \/ gTab[t].pc # "idle"
              THEN "strayed" ELSE gCare
  /\ PageOnly /\ UNCHANGED gShown

-----------------------------------------------------------------------------
(* resolveToken: the candidate rows are read first, the device is compared *)
(* or bound in a later transaction with what was read.                     *)
Lookup(t) ==
  /\ gTab[t].pc = "lookup"
  /\ gTab' = IF gLink[gTab[t].link].state = "active"
             THEN [gTab EXCEPT ![t].pc = "bind", ![t].seen = gLink[gTab[t].link].bound]
             ELSE [gTab EXCEPT ![t].pc = "failed", ![t].req = NoRequest]
  /\ PageOnly /\ UNCHANGED <<gShown, gCare>>

Bind(t) ==
  LET first == gTab[t].seen = None
      ok    == first \/ gTab[t].seen = Device[t]
  IN
  /\ gTab[t].pc = "bind"
  /\ gLink' = IF first THEN [gLink EXCEPT ![gTab[t].link].bound = Device[t]] ELSE gLink
  /\ gTab' = [gTab EXCEPT ![t].seen = None,
                          ![t].pc = IF ok THEN "read" ELSE "failed",
                          ![t].req = IF ok THEN @ ELSE NoRequest]
  /\ UNCHANGED <<gEng, gAns, gLoop, gLog, gShown, gCare>>

(* submitAnswer and submitLoopStep read loop_state before they write.      *)
ReadLoop(t) ==
  /\ gTab[t].pc = "read" /\ gTab[t].req.op \in {"answer", "loop"}
  /\ gTab' = [gTab EXCEPT ![t].pc = "write", ![t].base = gLoop]
  /\ PageOnly /\ UNCHANGED <<gShown, gCare>>

(* applyNext, or the submit that next() and submitLoopStep() send when the *)
(* walk has ended.                                                         *)
Respond(t, next) ==
  gTab' = [gTab EXCEPT
    ![t].pc   = IF next.kind = "end" THEN "lookup" ELSE "idle",
    ![t].req  = IF next.kind = "end" THEN [op |-> "submit"] ELSE NoRequest,
    ![t].base = <<>>,
    ![t].view = next,
    ![t].listed = IF next.iter + 1 > @ /\ next.loop # None THEN next.iter + 1 ELSE @]

Refuse(t) == gTab' = [gTab EXCEPT ![t].pc = "failed", ![t].req = NoRequest, ![t].base = <<>>]

GetState(t) ==
  LET next == Cursor(gAns, gLoop)
      more == {Iterations(l, gAns) : l \in Loops} \cup {next.iter + 1, 0}
  IN
  /\ gTab[t].pc = "read" /\ gTab[t].req.op = "state"
  /\ gTab' = [gTab EXCEPT ![t].pc = "idle", ![t].req = NoRequest, ![t].view = next,
                ![t].listed = CHOOSE m \in more : \A x \in more : x <= m]
  /\ PageOnly /\ UNCHANGED <<gShown, gCare>>

(* The iteration an answer lands in is the server's, not the page's.       *)
SubmitAnswer(t) ==
  LET r      == gTab[t].req
      node   == Template.nodes[r.node]
      p      == node.parent
      base   == gTab[t].base
      i      == IF p = None THEN 0 ELSE IterOf(base, p)
      blank  == node.type \in Divider \/ (~node.required /\ r.val \in {Nothing, Empty})
      stored == IF blank THEN Empty ELSE r.val
  IN
  /\ gTab[t].pc = "write" /\ r.op = "answer"
  /\ IF (blank \/ ValidateAnswerShape(node.type, stored))
        /\ ResolveNext(node, stored).kind # "invalid"
     THEN /\ gAns' = Upsert(gAns, <<r.node, i>>, stored)
          /\ gShown' = Upsert(gShown, <<r.node, i>>, r.iter)
          /\ gEng' = [gEng EXCEPT !.status = IF @ = "issued" THEN "in_progress" ELSE @]
          /\ gLoop' = IF p # None /\ p \notin DOMAIN base
                      THEN Upsert(base, p, [iter |-> 0, status |-> "iterating"]) ELSE gLoop
          /\ Respond(t, FindCursor(Template, gAns', gLoop'))
     ELSE Refuse(t) /\ UNCHANGED <<gAns, gShown, gEng, gLoop>>
  /\ UNCHANGED <<gLink, gLog, gCare>>

SubmitLoopStep(t) ==
  LET r  == gTab[t].req
      at == IterOf(gTab[t].base, r.loop)
      to == IF r.action = "continue" THEN [iter |-> at + 1, status |-> "iterating"]
            ELSE [iter |-> at, status |-> "done"]
  IN
  /\ gTab[t].pc = "write" /\ r.op = "loop" /\ to.iter <= MaxIter
  /\ gLoop' = Upsert(gTab[t].base, r.loop, to)
  /\ Respond(t, FindCursor(Template, gAns, gLoop'))
  /\ UNCHANGED <<gEng, gLink, gAns, gLog, gShown, gCare>>

(* Delete the iteration and close the gap.  The page reloads afterwards.   *)
ShiftDown_KeepsGap(f, l, i) ==
  [k \in {x \in DOMAIN f : ~(Parent(x[1]) = l /\ x[2] = i)} |-> f[k]]
ShiftDown(f, l, i) ==
  LET Old(k)  == IF Parent(k[1]) = l /\ k[2] >= i THEN <<k[1], k[2] + 1>> ELSE k
      kept    == {k \in DOMAIN f : ~(Parent(k[1]) = l /\ k[2] = i)}
      renamed == {IF Parent(k[1]) = l /\ k[2] > i THEN <<k[1], k[2] - 1>> ELSE k : k \in kept}
  IN  [k \in renamed |-> f[Old(k)]]

CursorAfterRemoval(at, i) == IF at > i THEN at - 1 ELSE at

RemoveLoopIteration(t) ==
  LET r == gTab[t].req
      shown == ShiftDown(gShown, r.loop, r.iter)
  IN
  /\ gTab[t].pc = "read" /\ r.op = "remove"
  /\ gAns' = ShiftDown(gAns, r.loop, r.iter)
  /\ gShown' = [k \in DOMAIN shown |->
                  IF Parent(k[1]) = r.loop /\ shown[k] > r.iter THEN shown[k] - 1 ELSE shown[k]]
  /\ gLoop' = IF r.loop \in DOMAIN gLoop
              THEN [gLoop EXCEPT ![r.loop].iter = CursorAfterRemoval(@, r.iter)] ELSE gLoop
  /\ Send(t, [op |-> "state"])
  /\ UNCHANGED <<gEng, gLink, gLog, gCare>>

(* The claim: one UPDATE guarded by the status; the link dies with it.     *)
(* Its loser answers the same without a trace.                             *)
Claimable_Any == TRUE
Claimable     == gEng.status \in Gathering
Revoke_Forgotten(l) == gLink
Revoke(l)           == [gLink EXCEPT ![l].state = "revoked"]

SubmitForm(t) ==
  LET won == Claimable
  IN
  /\ gTab[t].pc = "read" /\ gTab[t].req.op = "submit"
  /\ gEng' = IF won THEN [status |-> "submitted", submittedAt |-> TRUE] ELSE gEng
  /\ gLink' = IF won THEN Revoke(gTab[t].link) ELSE gLink
  /\ gLog' = IF won /\ gLog.submitted < MaxEvents
             THEN [gLog EXCEPT !.submitted = @ + 1] ELSE gLog
  /\ gTab' = [gTab EXCEPT ![t].pc = IF won THEN "pipeline" ELSE "done", ![t].req = NoRequest]
  /\ UNCHANGED <<gAns, gLoop, gShown, gCare>>

(* The winner computes the quote, kicks the extraction off, asks for the   *)
(* prediction, syncs to Odoo and classifies, before it answers.            *)
RunPipeline(t) ==
  /\ gTab[t].pc = "pipeline"
  /\ gLog' = [gLog EXCEPT !.runs = IF @ < MaxEvents THEN @ + 1 ELSE @]
  /\ gTab' = [gTab EXCEPT ![t].pc = "done"]
  /\ UNCHANGED <<gEng, gLink, gAns, gLoop, gShown, gCare>>

Serve(t) == \/ Lookup(t) \/ Bind(t) \/ ReadLoop(t) \/ GetState(t) \/ SubmitAnswer(t)
            \/ SubmitLoopStep(t) \/ RemoveLoopIteration(t) \/ SubmitForm(t) \/ RunPipeline(t)

Move(t) == \/ \E v \in UNION {Values[n] : n \in gNodes} : PressContinue(t, v)
           \/ \E a \in {"continue", "done"} : PressLoopStep(t, a)

Browse(t) == \/ \E l \in Loops, i \in 0..MaxIter : PressRemove(t, l, i)
             \/ \E n \in gNodes, i \in 0..MaxIter : JumpToNode(t, n, i)
             \/ Poll(t) \/ PollAnswer(t)

GatheringNext ==
  /\ \/ \E l \in gCrew.links : MintLink(l) \/ Expire(l)
     \/ \E t \in gCrew.tabs : Serve(t) \/ Move(t) \/ PressSubmit(t)
     \/ \E t \in gCrew.tabs : gCrew.roam /\ Browse(t)
     \/ \E t \in gCrew.tabs, l \in gCrew.links : OpenPage(t, l)
  /\ UNCHANGED gCrew

GatheringSpec == GatheringInit /\ [][GatheringNext]_gatheringVars

-----------------------------------------------------------------------------
GatheringTypeOK ==
  /\ gEng.status \in Gathering \cup {"ingesting", "submitted"}
  /\ \A l \in Links : /\ gLink[l].state \in {"none", "active", "expired", "revoked"}
                       /\ gLink[l].bound \in {Device[t] : t \in Tabs} \cup {None}
  /\ DOMAIN gAns \subseteq gNodes \X (0..MaxIter) /\ DOMAIN gShown = DOMAIN gAns
  /\ \A l \in DOMAIN gLoop : gLoop[l].iter \in 0..MaxIter
  /\ \A t \in Tabs : gTab[t].pc \in {"closed", "idle", "lookup", "bind", "read", "write",
                                      "pipeline", "done", "failed"}

(* However many pages, links and impatient clicks, the form is submitted   *)
(* once and priced at most once; it is submitted exactly when the link     *)
(* that did it is dead, and a page that says "submitted" is right.  (Not   *)
(* for an opportunity that was ingested: its form is never claimed.)       *)
OneSubmission ==
  /\ gLog.submitted <= 1 /\ gLog.runs <= gLog.submitted
  /\ gEng.submittedAt <=> gLog.submitted = 1
  /\ gEng.submittedAt <=> \E l \in Links : gLink[l].state = "revoked"
  /\ gEng.status # "ingesting" =>
       ((\E t \in Tabs : gTab[t].pc = "done") => gLog.submitted = 1)

(* No rule leads from outside into a loop's body.  Neither the editor nor  *)
(* the validation sees to it; such a question is shown outside the loop,   *)
(* and its answer is stored in the loop's iteration.                       *)
Enclosed ==
  /\ Template.root \in gNodes => Parent(Template.root) = None
  /\ \A n \in gNodes : Parent(n) = None =>
       \A i \in DOMAIN Template.nodes[n].rules :
         LET to == Template.nodes[n].rules[i].goto IN to \in gNodes => Parent(to) = None

(* With one page, and no jump into another iteration, answers are stored   *)
(* in the iteration the page showed (jumpToNode in page.tsx against        *)
(* submitAnswer and removeLoopIteration), and no iteration is left out.    *)
AnswersWhereShown ==
  gCare # "strayed" =>
    /\ \A k \in DOMAIN gShown : gShown[k] = k[2]
    /\ \A l \in Loops, i \in 0..MaxIter :
         i < Iterations(l, gAns) => \E n \in gNodes : Parent(n) = l /\ <<n, i>> \in DOMAIN gAns

(* With one link, the submission closes it for every page: a request whose *)
(* token was not checked before the submission does not pass the check     *)
(* after it, so nothing said later reaches a scope that is already priced. *)
SubmittedScopeFrozen ==
  [][(gEng.submittedAt /\ Cardinality(gCrew.links) = 1) =>
       \A t \in Tabs : gTab[t].pc \notin {"bind", "read", "write"}
                         => gTab'[t].pc \notin {"bind", "read", "write"}]_gatheringVars

(* Answering an earlier question leaves every other answer alone           *)
(* (jumpToNode's comment in page.tsx).                                     *)
JumpKeepsOthers ==
  [][\A t \in Tabs : (gTab[t].pc = "write" /\ gTab[t].req.op = "answer" /\ gAns' # gAns) =>
        \A k \in DOMAIN gAns : k # <<gTab[t].req.node, gTab[t].req.iter>> => gAns'[k] = gAns[k]
    ]_gatheringVars
=============================================================================
