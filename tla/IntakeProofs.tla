---------------------------- MODULE IntakeProofs ----------------------------
(***************************************************************************)
(* For any number of pages, devices and links: the form is submitted once, *)
(* and with one link nothing passes the token check after it; while a      *)
(* responder keeps to one page, answers go where they were shown.  For any *)
(* number of requests and mailboxes: a disconnected mailbox comes back     *)
(* only by a completed connection, and the answer to a send names the      *)
(* mailbox the mail left from.  For any number of pushes, polls and leads: *)
(* while requests follow one another no deal gets a lead it is not owed,   *)
(* and what is kept of a lead is what Odoo holds once its events are done. *)
(* The add-in makes one deal of a mail, and the page that starts deals     *)
(* loses no link and sends no file that is not there.  Of these parts      *)
(* MCIntake is the composition.                                            *)
(***************************************************************************)
EXTENDS MCIntake, IngestionProofs, FiniteSetTheorems, WellFoundedInduction, TLAPS

(* What the proofs need of the types; a page's request, cursor and view    *)
(* are whatever the walk gives.                                            *)
PageFields == {"link", "pc", "req", "seen", "base", "view", "listed", "poll", "polls"}
LinkStates == {"none", "active", "expired", "revoked"}

Shaped ==
  /\ gTab = [t \in Tabs |-> gTab[t]] /\ \A t \in Tabs : DOMAIN gTab[t] = PageFields
  /\ gLink = [l \in Links |-> gLink[l]]
  /\ \A l \in Links : DOMAIN gLink[l] = {"state", "bound"} /\ gLink[l].state \in LinkStates
  /\ gEng \in [status : Gathering \cup {"ingesting", "submitted"}, submittedAt : BOOLEAN]
  /\ gLog \in [submitted : Nat, runs : Nat]
  /\ gCrew \in Crews

(* A page that was opened is open on a link of this behaviour, and only    *)
(* such a link can have been revoked.                                      *)
Linked ==
  /\ \A t \in Tabs : gTab[t].pc # "closed" => gTab[t].link \in gCrew.links
  /\ \A l \in Links : gLink[l].state = "revoked" => l \in gCrew.links

(* The claim is the status itself: it is submitted when the one event is   *)
(* there and a link is dead, and one page at most still has the pipeline   *)
(* to run.                                                                 *)
Once ==
  /\ gEng.submittedAt <=> gEng.status = "submitted"
  /\ gEng.submittedAt <=> gLog.submitted = 1
  /\ gEng.submittedAt <=> \E l \in Links : gLink[l].state = "revoked"
  /\ gLog.submitted \in {0, 1} /\ gLog.runs \in {0, 1} /\ gLog.runs <= gLog.submitted
  /\ \A t \in Tabs : gTab[t].pc = "pipeline" => gLog.submitted = 1 /\ gLog.runs = 0
  /\ \A t, u \in Tabs : gTab[t].pc = "pipeline" /\ gTab[u].pc = "pipeline" => t = u
  /\ \A t \in Tabs : gTab[t].pc = "done" => gLog.submitted = 1 \/ gEng.status = "ingesting"

GatheringInv == Shaped /\ Linked /\ Once

(* A page moves to pc, on the link it had.                                 *)
PageAt(t, pc) ==
  /\ gTab' = [u \in Tabs |-> gTab'[u]] /\ \A u \in Tabs : DOMAIN gTab'[u] = PageFields
  /\ gTab'[t].pc = pc /\ gTab'[t].link = gTab[t].link
  /\ \A u \in Tabs \ {t} : gTab'[u] = gTab[u]

(* A step of a page that claims nothing and ends nothing: the page may     *)
(* stay where it is, and a first answer may start the opportunity.         *)
Harmless == {"idle", "lookup", "bind", "read", "write", "failed"}

Undecided ==
  /\ gEng' \in [status : Gathering \cup {"ingesting", "submitted"}, submittedAt : BOOLEAN]
  /\ gEng'.submittedAt = gEng.submittedAt
  /\ gEng'.status = gEng.status \/ {gEng.status, gEng'.status} \subseteq Gathering
  /\ gLink' = [l \in Links |-> gLink'[l]]
  /\ \A l \in Links : /\ DOMAIN gLink'[l] = {"state", "bound"}
                      /\ gLink'[l].state = gLink[l].state
  /\ UNCHANGED <<gLog, gCrew>>

LEMMA PageMoves ==
  ASSUME GatheringInv, NEW t \in Tabs, NEW pc, PageAt(t, pc), Undecided,
         pc = gTab[t].pc \/ (pc \in Harmless /\ gTab[t].pc # "closed")
  PROVE  GatheringInv'
<1>1. Shaped'
  BY DEF GatheringInv, Shaped, PageAt, Undecided
<1>2. \A u \in Tabs :
        /\ gTab'[u].pc # "closed" => gTab'[u].link = gTab[u].link /\ gTab[u].pc # "closed"
        /\ gTab'[u].pc \in {"pipeline", "done"} => gTab'[u].pc = gTab[u].pc
  BY DEF PageAt, Harmless
<1>3. Linked'
  BY <1>2 DEF GatheringInv, Linked, Undecided
<1>4. Once'
  BY <1>2 DEF GatheringInv, Once, Undecided, Gathering
<1> QED BY <1>1, <1>3, <1>4 DEF GatheringInv

LEMMA NothingDecided ==
  ASSUME GatheringInv, UNCHANGED <<gEng, gLink, gLog, gCrew>>
  PROVE  Undecided
BY DEF GatheringInv, Shaped, Undecided

(* What the page in it does in such a step.                                *)
Inside == {"bind", "read", "write"}

Goes(t, pc) ==
  /\ Undecided /\ PageAt(t, pc)
  /\ pc = gTab[t].pc \/ (pc \in Harmless /\ gTab[t].pc # "closed")
  /\ pc \in Inside => gTab[t].pc \in Inside \/ gLink[gTab[t].link].state = "active"

(* The presses, and the polls, send or show something.                     *)
Presses(t) ==
  \/ \E v : PressContinue(t, v)
  \/ \E a : PressLoopStep(t, a)
  \/ \E l, i : PressRemove(t, l, i)
  \/ PressSubmit(t)
  \/ \E n, i : JumpToNode(t, n, i)
  \/ Poll(t) \/ PollAnswer(t)

LEMMA PressGoes ==
  ASSUME GatheringInv, NEW t \in Tabs, UNCHANGED gCrew, Presses(t)
  PROVE  \E pc : Goes(t, pc)
<1>u. PageOnly => Undecided
  BY NothingDecided DEF PageOnly
<1>s. ASSUME NEW r, Idle(t), Send(t, r), PageOnly PROVE Goes(t, "lookup")
  <2>1. PageAt(t, "lookup") /\ gTab[t].pc = "idle"
    BY <1>s DEF GatheringInv, Shaped, PageFields, PageAt, Send, Idle
  <2> QED BY <1>s, <1>u, <2>1 DEF Goes, Harmless, Inside
<1>w. PageAt(t, gTab[t].pc) /\ PageOnly => Goes(t, gTab[t].pc)
  BY <1>u DEF Goes
<1>1. ASSUME NEW v, PressContinue(t, v) PROVE Goes(t, "lookup")
  BY <1>1, <1>s DEF PressContinue
<1>2. ASSUME NEW a, PressLoopStep(t, a) PROVE Goes(t, "lookup")
  BY <1>2, <1>s DEF PressLoopStep
<1>3. ASSUME NEW l, NEW i, PressRemove(t, l, i) PROVE Goes(t, "lookup")
  BY <1>3, <1>s DEF PressRemove
<1>4. ASSUME PressSubmit(t) PROVE Goes(t, "lookup")
  BY <1>4, <1>s DEF PressSubmit
<1>5. ASSUME NEW n, NEW i, JumpToNode(t, n, i) PROVE Goes(t, gTab[t].pc)
  <2>1. PageOnly /\ gTab' = [gTab EXCEPT ![t].view = AtNode(n, Parent(n), i)]
    BY <1>5 DEF JumpToNode
  <2>2. PageAt(t, gTab[t].pc)
    BY <2>1 DEF GatheringInv, Shaped, PageFields, PageAt
  <2> QED BY <1>w, <2>1, <2>2
<1>6. ASSUME Poll(t) PROVE Goes(t, gTab[t].pc)
  <2>1. PageAt(t, gTab[t].pc) /\ PageOnly
    BY <1>6 DEF GatheringInv, Shaped, PageFields, PageAt, Poll
  <2> QED BY <1>w, <2>1
<1>7. ASSUME PollAnswer(t) PROVE Goes(t, gTab[t].pc)
  <2>1. PageAt(t, gTab[t].pc) /\ PageOnly
    BY <1>7 DEF GatheringInv, Shaped, PageFields, PageAt, PollAnswer
  <2> QED BY <1>w, <2>1
<1> QED BY <1>1, <1>2, <1>3, <1>4, <1>5, <1>6, <1>7 DEF Presses

(* The requests but the submit.  Only the look-up takes a page past the    *)
(* token check, and an answer reaches no status from which the form could  *)
(* not be claimed any more.                                                *)
Requests(t) ==
  \/ Lookup(t) \/ Bind(t) \/ ReadLoop(t) \/ GetState(t) \/ SubmitAnswer(t)
  \/ SubmitLoopStep(t) \/ RemoveLoopIteration(t)

LEMMA ServeGoes ==
  ASSUME GatheringInv, NEW t \in Tabs, UNCHANGED gCrew, Requests(t)
  PROVE  \E pc : Goes(t, pc)
<1>u. PageOnly => Undecided
  BY NothingDecided DEF PageOnly
<1>r. ASSUME NEW next, Respond(t, next) PROVE \E pc \in {"lookup", "idle"} : PageAt(t, pc)
  <2>1. PageAt(t, IF next.kind = "end" THEN "lookup" ELSE "idle")
    BY <1>r DEF GatheringInv, Shaped, PageFields, PageAt, Respond
  <2> QED BY <2>1
<1>1. CASE Lookup(t)
  <2>1. gTab[t].pc = "lookup" /\ PageOnly
    BY <1>1 DEF Lookup
  <2>2. CASE gLink[gTab[t].link].state = "active"
    <3>1. PageAt(t, "bind")
      BY <1>1, <2>2 DEF GatheringInv, Shaped, PageFields, PageAt, Lookup
    <3> QED BY <1>u, <2>1, <2>2, <3>1 DEF Goes, Harmless
  <2>3. CASE gLink[gTab[t].link].state # "active"
    <3>1. PageAt(t, "failed")
      BY <1>1, <2>3 DEF GatheringInv, Shaped, PageFields, PageAt, Lookup
    <3> QED BY <1>u, <2>1, <3>1 DEF Goes, Harmless, Inside
  <2> QED BY <2>2, <2>3
<1>2. CASE Bind(t)
  <2>1. gTab[t].pc = "bind" /\ UNCHANGED <<gEng, gLog>>
    BY <1>2 DEF Bind
  <2>2. PageAt(t, "read") \/ PageAt(t, "failed")
    BY <1>2 DEF GatheringInv, Shaped, PageFields, PageAt, Bind
  <2>3. /\ gLink' = [l \in Links |-> gLink'[l]]
        /\ \A l \in Links : /\ DOMAIN gLink'[l] = {"state", "bound"}
                            /\ gLink'[l].state = gLink[l].state
    BY <1>2 DEF GatheringInv, Shaped, Bind
  <2>4. Undecided
    BY <2>1, <2>3 DEF GatheringInv, Shaped, Undecided
  <2> QED BY <2>1, <2>2, <2>4 DEF Goes, Harmless, Inside
<1>3. CASE ReadLoop(t)
  <2>1. gTab[t].pc = "read" /\ PageOnly
    BY <1>3 DEF ReadLoop
  <2>2. PageAt(t, "write")
    BY <1>3 DEF GatheringInv, Shaped, PageFields, PageAt, ReadLoop
  <2> QED BY <1>u, <2>1, <2>2 DEF Goes, Harmless, Inside
<1>4. CASE GetState(t)
  <2>1. gTab[t].pc = "read" /\ PageOnly
    BY <1>4 DEF GetState
  <2>2. PageAt(t, "idle")
    <3> DEFINE next == Cursor(gAns, gLoop)
               more == {Iterations(l, gAns) : l \in Loops} \cup {next.iter + 1, 0}
               m == CHOOSE n \in more : \A x \in more : x <= n
    <3>1. gTab' = [gTab EXCEPT ![t].pc = "idle", ![t].req = NoRequest, ![t].view = next,
                              ![t].listed = m]
      BY <1>4, Zenon DEF GetState
    <3> HIDE DEF next, m
    <3> QED BY <3>1 DEF GatheringInv, Shaped, PageFields, PageAt
  <2> QED BY <1>u, <2>1, <2>2 DEF Goes, Harmless, Inside
<1>5. CASE SubmitAnswer(t)
  <2>1. gTab[t].pc = "write" /\ UNCHANGED <<gLink, gLog>>
    BY <1>5 DEF SubmitAnswer
  <2>2. \/ gEng' = [gEng EXCEPT !.status = IF @ = "issued" THEN "in_progress" ELSE @]
        \/ UNCHANGED gEng
    BY <1>5 DEF SubmitAnswer
  <2>3. Respond(t, FindCursor(Template, gAns', gLoop')) \/ Refuse(t)
    BY <1>5, Zenon DEF SubmitAnswer
  <2>4. Refuse(t) => PageAt(t, "failed")
    BY DEF GatheringInv, Shaped, PageFields, PageAt, Refuse
  <2>5. \E pc \in {"lookup", "idle", "failed"} : PageAt(t, pc)
    BY <1>r, <2>3, <2>4
  <2>6. Undecided
    <3>1. CASE UNCHANGED gEng
      BY <2>1, <3>1, NothingDecided
    <3>2. CASE gEng' = [gEng EXCEPT !.status = IF @ = "issued" THEN "in_progress" ELSE @]
      BY <2>1, <3>2 DEF GatheringInv, Shaped, Undecided, Gathering
    <3> QED BY <2>2, <3>1, <3>2
  <2> QED BY <2>1, <2>5, <2>6 DEF Goes, Harmless, Inside
<1>6. CASE SubmitLoopStep(t)
  <2>1. /\ gTab[t].pc = "write" /\ UNCHANGED <<gEng, gLink, gLog>>
        /\ \E next : Respond(t, next)
    BY <1>6 DEF SubmitLoopStep
  <2>2. \E pc \in {"lookup", "idle"} : PageAt(t, pc)
    BY <1>r, <2>1
  <2>3. Undecided
    BY <2>1, NothingDecided
  <2> QED BY <2>1, <2>2, <2>3 DEF Goes, Harmless, Inside
<1>7. CASE RemoveLoopIteration(t)
  <2>1. /\ gTab[t].pc = "read" /\ UNCHANGED <<gEng, gLink, gLog>>
        /\ Send(t, [op |-> "state"])
    BY <1>7 DEF RemoveLoopIteration
  <2>2. PageAt(t, "lookup")
    BY <2>1 DEF GatheringInv, Shaped, PageFields, PageAt, Send
  <2> QED BY <2>1, <2>2, NothingDecided DEF Goes, Harmless, Inside
<1> QED BY <1>1, <1>2, <1>3, <1>4, <1>5, <1>6, <1>7 DEF Requests

(* A page is opened, or opened again on its link.                          *)
LEMMA OpenKeeps ==
  ASSUME GatheringInv, NEW t \in Tabs, NEW l \in gCrew.links, OpenPage(t, l), UNCHANGED gCrew
  PROVE  GatheringInv'
<1>1. /\ gTab' = [u \in Tabs |-> gTab'[u]] /\ \A u \in Tabs : DOMAIN gTab'[u] = PageFields
      /\ gTab'[t].pc = "lookup" /\ gTab'[t].link = l
      /\ \A u \in Tabs \ {t} : gTab'[u] = gTab[u]
  BY DEF GatheringInv, Shaped, PageFields, OpenPage, Page
<1>2. UNCHANGED <<gEng, gLink, gLog>>
  BY DEF OpenPage, PageOnly
<1>3. Shaped'
  BY <1>1, <1>2 DEF GatheringInv, Shaped
<1>4. Linked'
  BY <1>1, <1>2 DEF GatheringInv, Linked
<1>5. Once'
  <2>1. \A u \in Tabs : gTab'[u].pc \in {"pipeline", "done"} => gTab'[u] = gTab[u]
    BY <1>1
  <2> QED BY <1>2, <2>1 DEF GatheringInv, Once
<1> QED BY <1>3, <1>4, <1>5 DEF GatheringInv

(* The rep mints links and time passes: neither makes a dead link alive    *)
(* nor kills one.                                                          *)
LEMMA LinksKeep ==
  ASSUME GatheringInv, NEW l \in gCrew.links, MintLink(l) \/ Expire(l), UNCHANGED gCrew
  PROVE  GatheringInv'
<1>1. l \in Links
  BY GatheringAssumption DEF GatheringInv, Shaped
<1>2. UNCHANGED <<gEng, gTab, gLog>>
  BY DEF MintLink, Expire
<1>3. /\ gLink' = [k \in Links |-> gLink'[k]]
      /\ \A k \in Links : /\ DOMAIN gLink'[k] = {"state", "bound"}
                          /\ gLink'[k].state \in LinkStates
                          /\ gLink'[k].state = "revoked" <=> gLink[k].state = "revoked"
  <2>1. CASE MintLink(l)
    BY <1>1, <2>1 DEF GatheringInv, Shaped, MintLink, LinkStates
  <2>2. CASE Expire(l)
    BY <1>1, <2>2 DEF GatheringInv, Shaped, Expire, LinkStates
  <2> QED BY <2>1, <2>2
<1>4. Shaped'
  BY <1>2, <1>3 DEF GatheringInv, Shaped
<1>5. Linked'
  BY <1>2, <1>3 DEF GatheringInv, Linked
<1>6. Once'
  BY <1>2, <1>3 DEF GatheringInv, Once
<1> QED BY <1>4, <1>5, <1>6 DEF GatheringInv

(* The claim is one UPDATE guarded by the status: the first submit finds   *)
(* it in a gathering state and takes it out for good.                      *)
LEMMA ClaimKeeps ==
  ASSUME GatheringInv, NEW t \in Tabs, SubmitForm(t), UNCHANGED gCrew
  PROVE  GatheringInv'
<1>1. gTab[t].pc = "read" /\ gTab[t].link \in gCrew.links
  BY DEF SubmitForm, GatheringInv, Linked
<1>l. gTab[t].link \in Links
  BY <1>1, GatheringAssumption DEF GatheringInv, Shaped
<1>2. PageAt(t, IF Claimable THEN "pipeline" ELSE "done")
  BY DEF GatheringInv, Shaped, PageFields, PageAt, SubmitForm
<1>3. CASE Claimable
  <2>1. /\ ~gEng.submittedAt /\ gLog.submitted = 0 /\ gLog.runs = 0
        /\ \A l \in Links : gLink[l].state # "revoked"
        /\ \A u \in Tabs : gTab[u].pc \notin {"pipeline", "done"}
    BY <1>3 DEF Claimable, Gathering, GatheringInv, Shaped, Once
  <2>2. gEng' = [status |-> "submitted", submittedAt |-> TRUE]
    BY <1>3 DEF SubmitForm
  <2>3. gLink' = [gLink EXCEPT ![gTab[t].link].state = "revoked"]
    BY <1>3 DEF SubmitForm, Revoke
  <2>4. gLog' = [gLog EXCEPT !.submitted = gLog.submitted + 1]
    BY <1>3, <2>1, GatheringAssumption DEF SubmitForm
  <2>5. gLog'.submitted = 1 /\ gLog'.runs = 0 /\ gLog' \in [submitted : Nat, runs : Nat]
    BY <2>1, <2>4 DEF GatheringInv, Shaped
  <2>6. /\ gLink' = [l \in Links |-> gLink'[l]]
        /\ \A l \in Links : /\ DOMAIN gLink'[l] = {"state", "bound"}
                            /\ gLink'[l].state \in LinkStates
                            /\ gLink'[l].state = "revoked" <=> l = gTab[t].link
    BY <1>l, <2>1, <2>3 DEF GatheringInv, Shaped, LinkStates
  <2>7. gTab'[t].pc = "pipeline" /\ \A u \in Tabs \ {t} : gTab'[u] = gTab[u]
    BY <1>2, <1>3 DEF PageAt
  <2>8. Shaped'
    BY <1>2, <2>2, <2>5, <2>6 DEF GatheringInv, Shaped, PageAt
  <2>9. Linked'
    BY <1>1, <1>2, <2>6 DEF GatheringInv, Linked, PageAt
  <2>10. Once'
    BY <1>l, <2>1, <2>2, <2>5, <2>6, <2>7 DEF Once
  <2> QED BY <2>8, <2>9, <2>10 DEF GatheringInv
<1>4. CASE ~Claimable
  <2>1. UNCHANGED <<gEng, gLink, gLog>>
    BY <1>4 DEF SubmitForm
  <2>2. gEng.status = "ingesting" \/ gLog.submitted = 1
    BY <1>4 DEF Claimable, Gathering, GatheringInv, Shaped, Once
  <2>3. gTab'[t].pc = "done" /\ \A u \in Tabs \ {t} : gTab'[u] = gTab[u]
    BY <1>2, <1>4 DEF PageAt
  <2>4. Shaped'
    BY <1>2, <2>1 DEF GatheringInv, Shaped, PageAt
  <2>5. Linked'
    BY <1>1, <1>2, <2>1 DEF GatheringInv, Linked, PageAt
  <2>6. Once'
    BY <2>1, <2>2, <2>3 DEF GatheringInv, Once
  <2> QED BY <2>4, <2>5, <2>6 DEF GatheringInv
<1> QED BY <1>3, <1>4

(* The winner's pipeline runs once.                                        *)
LEMMA PipelineKeeps ==
  ASSUME GatheringInv, NEW t \in Tabs, RunPipeline(t), UNCHANGED gCrew
  PROVE  GatheringInv'
<1>1. /\ gTab[t].pc = "pipeline" /\ UNCHANGED <<gEng, gLink>>
      /\ gLog.submitted = 1 /\ gLog.runs = 0
  BY DEF RunPipeline, GatheringInv, Once
<1>2. PageAt(t, "done")
  BY DEF GatheringInv, Shaped, PageFields, PageAt, RunPipeline
<1>3. gLog' = [gLog EXCEPT !.runs = gLog.runs + 1]
  BY <1>1, GatheringAssumption DEF RunPipeline, GatheringInv, Shaped
<1>4. gLog'.submitted = 1 /\ gLog'.runs = 1 /\ gLog' \in [submitted : Nat, runs : Nat]
  BY <1>1, <1>3 DEF GatheringInv, Shaped
<1>5. \A u \in Tabs : gTab'[u].pc # "pipeline"
  BY <1>1, <1>2 DEF PageAt, GatheringInv, Once
<1>6. Shaped'
  BY <1>1, <1>2, <1>4 DEF GatheringInv, Shaped, PageAt
<1>7. Linked'
  BY <1>1, <1>2 DEF GatheringInv, Linked, PageAt
<1>8. Once'
  BY <1>1, <1>4, <1>5 DEF GatheringInv, Once
<1> QED BY <1>6, <1>7, <1>8 DEF GatheringInv

(* Whatever pages, devices, links, polls and clicks interleave, with       *)
(* whatever the walk answers.                                              *)
THEOREM GatheringInvariant == GatheringSpec => []GatheringInv
<1>1. GatheringInit => GatheringInv
  <2> SUFFICES ASSUME GatheringInit PROVE GatheringInv
    OBVIOUS
  <2>1. \A t \in Tabs : gTab[t] = Page(AtEnd)
    BY DEF GatheringInit
  <2>2. \A t \in Tabs : gTab[t].pc = "closed" /\ DOMAIN gTab[t] = PageFields
    BY <2>1 DEF Page, PageFields
  <2>3. \A l \in Links : gLink[l].state = "none" /\ DOMAIN gLink[l] = {"state", "bound"}
    BY DEF GatheringInit
  <2>e. PICK st \in {"issued", "ingesting"} : gEng = [status |-> st, submittedAt |-> FALSE]
    BY DEF GatheringInit
  <2>4. /\ gEng \in [status : Gathering \cup {"ingesting", "submitted"}, submittedAt : BOOLEAN]
        /\ ~gEng.submittedAt /\ gEng.status # "submitted"
    BY <2>e DEF Gathering
  <2>5. gLog \in [submitted : Nat, runs : Nat]
    BY DEF GatheringInit
  <2>6. gTab = [t \in Tabs |-> gTab[t]] /\ gLink = [l \in Links |-> gLink[l]]
    BY DEF GatheringInit
  <2>7. Shaped
    BY <2>2, <2>3, <2>4, <2>5, <2>6 DEF GatheringInit, Shaped, LinkStates
  <2> QED BY <2>2, <2>3, <2>4, <2>7 DEF GatheringInit, GatheringInv, Linked, Once
<1>2. GatheringInv /\ [GatheringNext]_gatheringVars => GatheringInv'
  <2> SUFFICES ASSUME GatheringInv, [GatheringNext]_gatheringVars PROVE GatheringInv'
    OBVIOUS
  <2>c. gCrew.tabs \subseteq Tabs
    BY GatheringAssumption DEF GatheringInv, Shaped
  <2>1. CASE GatheringNext
    <3>1. UNCHANGED gCrew
      BY <2>1 DEF GatheringNext
    <3>2. ASSUME NEW t \in gCrew.tabs, Serve(t) \/ Move(t) \/ PressSubmit(t) \/ Browse(t)
          PROVE  GatheringInv'
      <4>1. t \in Tabs
        BY <2>c
      <4>2. (\E pc : Goes(t, pc)) => GatheringInv'
        BY <4>1, PageMoves DEF Goes
      <4>3. CASE Serve(t)
        BY <3>1, <4>1, <4>2, <4>3, ServeGoes, ClaimKeeps, PipelineKeeps DEF Serve, Requests
      <4>4. CASE Move(t) \/ PressSubmit(t) \/ Browse(t)
        BY <3>1, <4>1, <4>2, <4>4, PressGoes DEF Move, Browse, Presses
      <4> QED BY <3>2, <4>3, <4>4
    <3> QED BY <2>1, <2>c, <3>1, <3>2, LinksKeep, OpenKeeps DEF GatheringNext
  <2>2. CASE UNCHANGED gatheringVars
    BY <2>2 DEF gatheringVars, GatheringInv, Shaped, Linked, Once
  <2> QED BY <2>1, <2>2
<1> QED BY <1>1, <1>2, PTL DEF GatheringSpec

(* The form is submitted once and priced at most once, however many pages  *)
(* and links there are and however often they press Submit.                *)
THEOREM SubmittedOnce == GatheringSpec => []OneSubmission
<1>1. GatheringInv => OneSubmission
  BY DEF GatheringInv, Once, OneSubmission
<1> QED BY <1>1, GatheringInvariant, PTL

(* A page gets past the token check only while its link is active.         *)
LEMMA Checked ==
  ASSUME GatheringInv, GatheringNext, NEW t \in Tabs, gTab[t].pc \notin Inside,
         gTab'[t].pc \in Inside
  PROVE  gTab[t].link \in gCrew.links /\ gLink[gTab[t].link].state = "active"
<1>c. gCrew.tabs \subseteq Tabs /\ UNCHANGED gCrew
  BY GatheringAssumption DEF GatheringInv, Shaped, GatheringNext
<1>1. ASSUME NEW u \in Tabs, \E pc : Goes(u, pc)
      PROVE  gTab[t].pc # "closed" /\ gLink[gTab[t].link].state = "active"
  <2>1. PICK pc : Goes(u, pc)
    BY <1>1
  <2>2. u = t
    BY <2>1 DEF Goes, PageAt
  <2> QED BY <2>1, <2>2 DEF Goes, PageAt, Harmless, Inside
<1>2. ASSUME NEW u \in Tabs, SubmitForm(u) \/ RunPipeline(u) PROVE FALSE
  <2>1. gTab'[u].pc \in {"pipeline", "done"} /\ \A v \in Tabs \ {u} : gTab'[v] = gTab[v]
    BY <1>2 DEF GatheringInv, Shaped, PageFields, SubmitForm, RunPipeline
  <2> QED BY <2>1 DEF Inside
<1>3. ASSUME NEW u \in Tabs, NEW l, OpenPage(u, l) PROVE FALSE
  <2>1. gTab'[u].pc = "lookup" /\ \A v \in Tabs \ {u} : gTab'[v] = gTab[v]
    BY <1>3 DEF GatheringInv, Shaped, PageFields, OpenPage, Page
  <2> QED BY <2>1 DEF Inside
<1>4. ASSUME NEW l, MintLink(l) \/ Expire(l) PROVE FALSE
  BY <1>4 DEF MintLink, Expire
<1>5. ASSUME NEW u \in gCrew.tabs, Serve(u) \/ Move(u) \/ PressSubmit(u) \/ Browse(u)
      PROVE  gTab[t].pc # "closed" /\ gLink[gTab[t].link].state = "active"
  <2>1. u \in Tabs
    BY <1>c
  <2>2. CASE Serve(u)
    BY <1>1, <1>2, <1>c, <2>1, <2>2, ServeGoes DEF Serve, Requests
  <2>3. CASE Move(u) \/ PressSubmit(u) \/ Browse(u)
    BY <1>1, <1>c, <2>1, <2>3, PressGoes DEF Move, Browse, Presses
  <2> QED BY <1>5, <2>2, <2>3
<1>6. gTab[t].pc # "closed" /\ gLink[gTab[t].link].state = "active"
  BY <1>3, <1>4, <1>5, <1>c DEF GatheringNext
<1> QED BY <1>6 DEF GatheringInv, Linked

(* With one link nothing passes the token check after the submission: the  *)
(* link that a page is open on is the one that was revoked.                *)
THEOREM ScopeFrozen == GatheringSpec => SubmittedScopeFrozen
<1>1. GatheringInv /\ [GatheringNext]_gatheringVars =>
        [(gEng.submittedAt /\ Cardinality(gCrew.links) = 1) =>
           \A t \in Tabs : gTab[t].pc \notin {"bind", "read", "write"}
                             => gTab'[t].pc \notin {"bind", "read", "write"}]_gatheringVars
  <2> SUFFICES ASSUME GatheringInv, [GatheringNext]_gatheringVars, ~UNCHANGED gatheringVars,
                      gEng.submittedAt, Cardinality(gCrew.links) = 1,
                      NEW t \in Tabs, gTab[t].pc \notin Inside, gTab'[t].pc \in Inside
               PROVE  FALSE
    BY DEF Inside
  <2>1. gTab[t].link \in gCrew.links /\ gLink[gTab[t].link].state = "active"
    BY Checked
  <2>2. PICK l \in Links : gLink[l].state = "revoked"
    BY DEF GatheringInv, Once
  <2>3. l \in gCrew.links
    BY <2>2 DEF GatheringInv, Linked
  <2>4. IsFiniteSet(gCrew.links)
    BY GatheringAssumption DEF GatheringInv, Shaped
  <2>5. PICK k : gCrew.links = {k}
    BY <2>4, FS_Singleton
  <2> QED BY <2>1, <2>2, <2>3, <2>5
<1> QED BY <1>1, GatheringInvariant, PTL DEF GatheringSpec, SubmittedScopeFrozen

-----------------------------------------------------------------------------
(* The walk and what is stored of it.  A set of naturals has a least       *)
(* member.                                                                 *)
Least(S) == CHOOSE n \in S : \A m \in S : n <= m

LEMMA LeastIn ==
  ASSUME NEW T, T \subseteq Nat, T # {}
  PROVE  Least(T) \in T /\ \A m \in T : Least(T) <= m
<1>1. PICK R : R = OpToRel(<, Nat)
  OBVIOUS
<1>2. IsWellFoundedOn(R, Nat)
  BY <1>1, NatLessThanWellFounded
<1>3. PICK n \in T : \A m \in T : ~(<<m, n>> \in R)
  BY <1>2, WFMin
<1>4. R = {ss \in Nat \X Nat : ss[1] < ss[2]}
  BY <1>1 DEF OpToRel
<1>5. \A m \in T : ~(m < n)
  BY <1>3, <1>4
<1>6. \A m \in T : n <= m
  BY <1>5
<1> QED BY <1>6 DEF Least

(* A bounded set of naturals has a greatest member.                        *)
LEMMA GreatestIn ==
  ASSUME NEW T, T \subseteq Nat, T # {}, NEW b \in Nat, \A u \in T : u <= b
  PROVE  \E m \in T : \A u \in T : u <= m
<1>1. PICK U : U = {c \in Nat : \A u \in T : u <= c}
  OBVIOUS
<1>2. PICK c : c \in U /\ \A d \in U : c <= d
  BY <1>1, LeastIn
<1>3. SUFFICES ASSUME c \notin T PROVE FALSE
  BY <1>1, <1>2
<1>4. \A u \in T : u <= c - 1
  BY <1>1, <1>2, <1>3
<1>5. PICK u : u \in T
  OBVIOUS
<1>6. u \in Nat /\ u <= c - 1 /\ c - 1 \in Nat
  BY <1>1, <1>2, <1>4, <1>5
<1> QED BY <1>1, <1>2, <1>4, <1>6

(* Where a walk can lead: to a rule's goal, within any set of nodes that   *)
(* has the first and is closed under next.                                 *)
LEMMA RulesLead ==
  ASSUME NEW n \in gNodes, NEW a, NEW to, to = ResolveNext(Template.nodes[n], a).goto, to # None
  PROVE  \E i \in DOMAIN Template.nodes[n].rules : to = Template.nodes[n].rules[i].goto
<1>1. PICK node : node = Template.nodes[n]
  OBVIOUS
<1>2. PICK hits : hits = Matching(node, a)
  OBVIOUS
<1>3. hits \subseteq DOMAIN node.rules /\ hits \subseteq Nat
  <2>1. hits \subseteq DOMAIN node.rules
    BY <1>2 DEF Matching
  <2>2. DOMAIN node.rules = 1 .. Len(node.rules)
    BY <1>1, GatheringAssumption DEF gNodes
  <2> QED BY <2>1, <2>2
<1>4. to = IF hits = {} \/ node.rules[Least(hits)].goto = END THEN None
           ELSE node.rules[Least(hits)].goto
  BY <1>1, <1>2 DEF ResolveNext, Least
<1>5. hits # {} /\ Least(hits) \in hits
  BY <1>3, <1>4, LeastIn
<1> QED BY <1>1, <1>3, <1>4, <1>5

LEMMA MetWithin ==
  ASSUME NEW next, NEW from, NEW S, S \subseteq DOMAIN next, from \in S,
         \A m \in S : next[m] \in DOMAIN next => next[m] \in S
  PROVE  Stops(next, from) \subseteq S /\ \A n \in Stops(next, from) : next[n] \notin DOMAIN next
BY DEF Stops, Met

(* The walk inside a loop shows a question of its body, or asks for the    *)
(* next round when the first one is answered.                              *)
Asks(w, l, i) == \E n \in BodyOf(Template, l) : w = AtNode(n, l, i)
LEMMA BodyTrue ==
  ASSUME NEW ans, NEW l \in gNodes, NEW i, BodyOf(Template, l) # {},
         NEW w, w = WalkBody(Template, ans, l, i), w # Invalid
  PROVE  Asks(w, l, i) \/ (w = AtStep(l, i) /\ <<BodyEntry(Template, l), i>> \in DOMAIN ans)
<1> DEFINE To(n) == ResolveNext(Template.nodes[n], ans[n, i])
           Next  == [n \in BodyOf(Template, l) |-> IF AnswerAt(ans, n, i) THEN To(n).goto ELSE None]
           Ends  == Stops(Next, BodyEntry(Template, l))
           at    == CHOOSE n \in Ends : TRUE
<1>1. w = IF Ends = {} THEN Invalid
          ELSE IF ~AnswerAt(ans, at, i) THEN AtNode(at, l, i)
          ELSE IF To(at).kind = "invalid" THEN Invalid
          ELSE AtStep(l, i)
  BY DEF WalkBody
<1>2. PICK next, ends, entry : next = Next /\ ends = Ends /\ entry = BodyEntry(Template, l)
  OBVIOUS
<1>3. PICK p : p = at
  OBVIOUS
<1> HIDE DEF at
<1>4. ends # {} /\ p \in ends
  BY <1>1, <1>2, <1>3 DEF at
<1>5. /\ DOMAIN next = BodyOf(Template, l) /\ entry \in DOMAIN next
      /\ None \notin DOMAIN next /\ ends = Stops(next, entry)
      /\ ~AnswerAt(ans, entry, i) => next[entry] = None
  <2>1. /\ DOMAIN next = BodyOf(Template, l) /\ ends = Stops(next, entry)
        /\ ~AnswerAt(ans, entry, i) /\ entry \in DOMAIN next => next[entry] = None
    BY <1>2
  <2>2. entry \in BodyOf(Template, l) /\ None \notin BodyOf(Template, l)
    BY <1>2, GatheringAssumption DEF BodyOf, gNodes
  <2> QED BY <2>1, <2>2
<1>6. p \in DOMAIN next
  BY <1>4, <1>5, MetWithin
<1>7. CASE ~AnswerAt(ans, p, i)
  BY <1>1, <1>2, <1>3, <1>4, <1>5, <1>6, <1>7 DEF Asks
<1>8. CASE AnswerAt(ans, p, i)
  <2>1. w = AtStep(l, i)
    BY <1>1, <1>2, <1>3, <1>4, <1>8
  <2>2. SUFFICES ASSUME ~AnswerAt(ans, entry, i) PROVE FALSE
    BY <1>2, <2>1 DEF AnswerAt
  <2>3. ends \subseteq {entry}
    BY <1>5, <2>2, MetWithin
  <2> QED BY <1>4, <1>8, <2>2, <2>3
<1> QED BY <1>7, <1>8

(* What a cursor says under this loop state and these answers: a question  *)
(* is shown at the iteration its answer will land in, and a round is       *)
(* offered after one that has answers.                                     *)
IterIn(loop, n) == IF Parent(n) = None THEN 0 ELSE IterOf(loop, Parent(n))
Visited(ans, l, i) == \E n \in gNodes : Parent(n) = l /\ <<n, i>> \in DOMAIN ans
Sound(v, ans, loop) ==
  /\ v.kind = "node" => v.node \in gNodes /\ v.iter = IterIn(loop, v.node)
  /\ v.kind = "loop_step" => v.loop \in Loops /\ Visited(ans, v.loop, IterOf(loop, v.loop))

LEMMA CursorTrue ==
  ASSUME Enclosed, NEW ans, NEW loop, NEW c, c = FindCursor(Template, ans, loop)
  PROVE  Sound(c, ans, loop)
<1> DEFINE State(l)  == IF l \in DOMAIN loop THEN loop[l] ELSE [iter |-> 0, status |-> "iterating"]
           IsLoop(n) == Template.nodes[n].type = "loop"
           Enters(n) == IsLoop(n) /\ State(n).status # "done" /\ BodyOf(Template, n) # {}
           Inner(n)  == WalkBody(Template, ans, n, State(n).iter)
           Holds(n)  == IF Enters(n) THEN Inner(n) # Invalid ELSE ~IsLoop(n) /\ ~AnswerAt(ans, n, 0)
           To(n)     == ResolveNext(Template.nodes[n], IF IsLoop(n) THEN Empty ELSE ans[n, 0])
           Next      == [n \in DOMAIN Template.nodes |-> IF Holds(n) THEN None ELSE To(n).goto]
           Ends      == Stops(Next, Template.root)
           at        == CHOOSE n \in Ends : TRUE
<1>1. c = IF Template.root \notin DOMAIN Template.nodes \/ Ends = {} THEN AtEnd
          ELSE IF Enters(at) THEN IF Holds(at) THEN Inner(at) ELSE AtEnd
          ELSE IF Holds(at) \/ To(at).kind = "invalid" THEN AtNode(at, None, 0)
          ELSE AtEnd
  BY DEF FindCursor
<1>2. PICK next, ends, p : next = Next /\ ends = Ends /\ p = at
  OBVIOUS
<1>3. /\ DOMAIN next = gNodes /\ ends = Stops(next, Template.root) /\ None \notin gNodes
      /\ \A n \in gNodes : next[n] = IF Holds(n) THEN None ELSE To(n).goto
  BY <1>2, GatheringAssumption DEF gNodes
<1> HIDE DEF Holds, To
<1>4. ASSUME NEW m \in gNodes, Parent(m) = None, next[m] \in gNodes PROVE Parent(next[m]) = None
  <2>1. PICK to : to = next[m]
    OBVIOUS
  <2>2. to # None /\ to = To(m).goto
    <3>1. to = IF Holds(m) THEN None ELSE To(m).goto
      BY <1>3, <1>4, <2>1
    <3>2. to # None
      BY <1>3, <1>4, <2>1
    <3> QED BY <3>1, <3>2
  <2>3. PICK i \in DOMAIN Template.nodes[m].rules : to = Template.nodes[m].rules[i].goto
    <3>1. PICK a : a = IF IsLoop(m) THEN Empty ELSE ans[m, 0]
      OBVIOUS
    <3>2. to = ResolveNext(Template.nodes[m], a).goto
      BY <2>2, <3>1 DEF To
    <3> QED BY <2>2, <3>2, RulesLead
  <2> QED BY <1>4, <2>1, <2>3 DEF Enclosed
<1>5. PICK S : S = {n \in gNodes : Parent(n) = None}
  OBVIOUS
<1>6. Template.root \in gNodes => ends \subseteq S
  <2>1. Template.root \in gNodes => Template.root \in S
    BY <1>5 DEF Enclosed
  <2>2. S \subseteq DOMAIN next /\ \A m \in S : next[m] \in DOMAIN next => next[m] \in S
    BY <1>3, <1>4, <1>5
  <2> QED BY <1>3, <2>1, <2>2, MetWithin
<1>7. c = AtEnd \/ p \in ends
  BY <1>1, <1>2 DEF gNodes
<1>8. CASE c = AtEnd
  BY <1>8 DEF AtEnd, Sound
<1>9. CASE c # AtEnd
  <2>1. p \in gNodes /\ Parent(p) = None
    BY <1>1, <1>5, <1>6, <1>7, <1>9 DEF gNodes
  <2>2. \/ c = AtNode(p, None, 0)
        \/ Enters(p) /\ Holds(p) /\ c = Inner(p)
    BY <1>1, <1>2, <1>9
  <2>3. CASE c = AtNode(p, None, 0)
    BY <2>1, <2>3 DEF AtNode, Sound, IterIn
  <2>4. CASE Enters(p) /\ Holds(p) /\ c = Inner(p)
    <3>1. PICK i : i = State(p).iter
      OBVIOUS
    <3>2. i = IterOf(loop, p)
      BY <3>1 DEF IterOf
    <3>3. /\ c = WalkBody(Template, ans, p, i) /\ c # Invalid /\ BodyOf(Template, p) # {}
          /\ p \in Loops
      BY <2>1, <2>4, <3>1 DEF Holds, Loops
    <3>4. Asks(c, p, i) \/ (c = AtStep(p, i) /\ <<BodyEntry(Template, p), i>> \in DOMAIN ans)
      BY <2>1, <3>3, BodyTrue
    <3>5. \A n \in BodyOf(Template, p) : n \in gNodes /\ Parent(n) = p
      BY DEF BodyOf, gNodes, Parent
    <3>6. CASE Asks(c, p, i)
      <4>1. PICK n \in BodyOf(Template, p) : c = AtNode(n, p, i)
        BY <3>6 DEF Asks
      <4>2. n \in gNodes /\ Parent(n) = p /\ p # None
        BY <1>3, <2>1, <3>5
      <4>3. c.kind = "node" /\ c.node = n /\ c.iter = i
        BY <4>1 DEF AtNode
      <4> QED BY <3>2, <4>2, <4>3 DEF Sound, IterIn
    <3>7. CASE c = AtStep(p, i) /\ <<BodyEntry(Template, p), i>> \in DOMAIN ans
      <4>1. BodyEntry(Template, p) \in BodyOf(Template, p)
        BY <2>1, <3>3, GatheringAssumption DEF gNodes
      <4>2. c.kind = "loop_step" /\ c.loop = p
        BY <3>7 DEF AtStep
      <4>3. Visited(ans, p, i)
        BY <3>5, <3>7, <4>1 DEF Visited
      <4> QED BY <3>2, <3>3, <4>2, <4>3 DEF Sound
    <3> QED BY <3>4, <3>6, <3>7
  <2> QED BY <2>2, <2>3, <2>4
<1> QED BY <1>8, <1>9

(* While the responder keeps to one page and to the loop's iteration: the  *)
(* page is the only one, what it shows and what it has asked for is sound, *)
(* and no iteration before the loop's own, or before one that has answers, *)
(* is without.                                                             *)
Keys  == gNodes \X (0 .. MaxIter)
Round == [iter : 0 .. MaxIter, status : {"iterating", "done"}]
NoGaps ==
  /\ DOMAIN gAns \subseteq Keys /\ DOMAIN gShown \subseteq Keys
  /\ \A k \in DOMAIN gShown : gShown[k] = k[2]
  /\ gLoop \in [DOMAIN gLoop -> Round]
  /\ \A l \in Loops, i, j \in 0 .. MaxIter :
       j < i /\ Visited(gAns, l, i) => Visited(gAns, l, j)
  /\ \A l \in Loops, j \in 0 .. MaxIter : j < IterOf(gLoop, l) => Visited(gAns, l, j)

ReqTrue(r) ==
  /\ r.op = "answer" => r.node \in gNodes /\ r.iter = IterIn(gLoop, r.node)
  /\ r.op = "loop" => r.loop \in Loops /\ Visited(gAns, r.loop, IterOf(gLoop, r.loop))
  /\ r.op = "remove" => r.loop \in Loops /\ r.iter \in 0 .. MaxIter
PageTrue(q) ==
  /\ q.pc = "idle" => Sound(q.view, gAns, gLoop)
  /\ q.pc \in {"lookup", "bind", "read", "write"} => ReqTrue(q.req)
  /\ q.pc = "write" => q.base = gLoop

Sole      == \A t, u \in Tabs : gTab[t].pc # "closed" /\ gTab[u].pc # "closed" => t = u
ShownTrue == Sole /\ NoGaps /\ \A t \in Tabs : PageTrue(gTab[t])
ShownInv  == gCare # "strayed" => ShownTrue

(* A page moves; the others, if they are open, would not be with it.       *)
PageNow(t, q) ==
  /\ gTab' = [u \in Tabs |-> gTab'[u]] /\ gTab'[t] = q
  /\ \A u \in Tabs \ {t} : gTab'[u] = gTab[u]
Only(t) == gTab[t].pc # "closed" \/ \A u \in Tabs \ {t} : gTab[u].pc = "closed"

LEMMA TurnTrue ==
  ASSUME ShownTrue, NEW t \in Tabs, NEW q, PageNow(t, q), Only(t), NoGaps', PageTrue(q)'
  PROVE  ShownTrue'
<1>1. \A u \in Tabs \ {t} : gTab'[u].pc = "closed"
  BY DEF ShownTrue, Sole, PageNow, Only
<1>2. Sole'
  BY <1>1 DEF Sole
<1>3. ASSUME NEW u \in Tabs PROVE PageTrue(gTab[u])'
  <2>1. PICK p : p = gTab'[u]
    OBVIOUS
  <2>2. CASE u = t
    BY <2>1, <2>2 DEF PageNow, PageTrue
  <2>3. CASE u # t
    BY <1>1, <2>3 DEF PageTrue
  <2> QED BY <2>2, <2>3
<1> QED BY <1>2, <1>3 DEF ShownTrue

Tables == <<gAns, gShown, gLoop>>
LEMMA QuietTurn ==
  ASSUME ShownTrue, NEW t \in Tabs, NEW q, PageNow(t, q), Only(t), UNCHANGED Tables, PageTrue(q)
  PROVE  ShownTrue'
<1>1. NoGaps'
  BY DEF ShownTrue, NoGaps, Tables, Visited, IterOf
<1>2. PageTrue(q)'
  BY DEF PageTrue, ReqTrue, Sound, Tables, Visited, IterOf, IterIn
<1> QED BY <1>1, <1>2, TurnTrue

LEMMA SendTrue ==
  ASSUME Shaped, ShownTrue, NEW t \in Tabs, NEW r, Send(t, r), gTab[t].pc # "closed",
         UNCHANGED Tables, ReqTrue(r)
  PROVE  ShownTrue'
<1>1. PICK q : q = gTab'[t]
  OBVIOUS
<1>2. PageNow(t, q) /\ q.pc = "lookup" /\ q.req = r
  BY <1>1 DEF Send, Shaped, PageNow, PageFields
<1>3. PageTrue(q)
  BY <1>2 DEF PageTrue
<1> QED BY <1>2, <1>3, QuietTurn DEF Only

(* The presses and the polls.                                              *)
Clicks(t) ==
  \/ \E v : PressContinue(t, v)
  \/ \E a : PressLoopStep(t, a)
  \/ \E l \in Loops, i \in 0 .. MaxIter : PressRemove(t, l, i)
  \/ PressSubmit(t)
  \/ \E n \in gNodes : \E i : JumpToNode(t, n, i)
  \/ Poll(t) \/ PollAnswer(t)
  \/ \E l : OpenPage(t, l)

LEMMA CursorsTrue ==
  ASSUME Enclosed PROVE Sound(Cursor(gAns, gLoop), gAns, gLoop)
<1>1. PICK c, ans, loop : c = FindCursor(Template, ans, loop) /\ ans = gAns /\ loop = gLoop
  OBVIOUS
<1>2. Sound(c, gAns, gLoop)
  BY <1>1, CursorTrue
<1>3. Sound(AtEnd, gAns, gLoop)
  BY DEF Sound, AtEnd
<1> QED BY <1>1, <1>2, <1>3 DEF Cursor

LEMMA PressTrue ==
  ASSUME Shaped, Enclosed, ShownTrue, NEW t \in Tabs, gCare' # "strayed",
         Clicks(t)
  PROVE  ShownTrue'
<1>0. /\ PageTrue(gTab[t]) /\ gTab = [u \in Tabs |-> gTab[u]] /\ DOMAIN gTab[t] = PageFields
  BY DEF ShownTrue, Shaped
<1>1. ASSUME NEW v, PressContinue(t, v) PROVE ShownTrue'
  <2>1. PICK r : r = [op |-> "answer", node |-> gTab[t].view.node, val |-> v,
                      iter |-> gTab[t].view.iter]
    OBVIOUS
  <2>2. Send(t, r) /\ gTab[t].pc = "idle" /\ gTab[t].view.kind = "node" /\ UNCHANGED Tables
    BY <1>1, <2>1 DEF PressContinue, Idle, PageOnly, Tables
  <2>3. ReqTrue(r)
    BY <1>0, <2>1, <2>2 DEF PageTrue, Sound, ReqTrue
  <2> QED BY <2>2, <2>3, SendTrue
<1>2. ASSUME NEW a, PressLoopStep(t, a) PROVE ShownTrue'
  <2>1. PICK r : r = [op |-> "loop", loop |-> gTab[t].view.loop, action |-> a]
    OBVIOUS
  <2>2. Send(t, r) /\ gTab[t].pc = "idle" /\ gTab[t].view.kind = "loop_step" /\ UNCHANGED Tables
    BY <1>2, <2>1 DEF PressLoopStep, Idle, PageOnly, Tables
  <2>3. ReqTrue(r)
    BY <1>0, <2>1, <2>2 DEF PageTrue, Sound, ReqTrue
  <2> QED BY <2>2, <2>3, SendTrue
<1>3. ASSUME NEW l \in Loops, NEW i \in 0 .. MaxIter, PressRemove(t, l, i) PROVE ShownTrue'
  <2>1. PICK r : r = [op |-> "remove", loop |-> l, iter |-> i]
    OBVIOUS
  <2>2. Send(t, r) /\ gTab[t].pc = "idle" /\ UNCHANGED Tables
    BY <1>3, <2>1 DEF PressRemove, Idle, PageOnly, Tables
  <2>3. ReqTrue(r)
    BY <2>1 DEF ReqTrue
  <2> QED BY <2>2, <2>3, SendTrue
<1>4. CASE PressSubmit(t)
  <2>1. PICK r : r = [op |-> "submit"]
    OBVIOUS
  <2>2. Send(t, r) /\ gTab[t].pc = "idle" /\ UNCHANGED Tables
    BY <1>4, <2>1 DEF PressSubmit, Idle, PageOnly, Tables
  <2>3. ReqTrue(r)
    BY <2>1 DEF ReqTrue
  <2> QED BY <2>2, <2>3, SendTrue
<1>5. ASSUME NEW n \in gNodes, NEW i, JumpToNode(t, n, i) PROVE ShownTrue'
  <2>1. PICK q, v : q = gTab'[t] /\ v = AtNode(n, Parent(n), i)
    OBVIOUS
  <2>2. /\ PageNow(t, q) /\ q.pc = "idle" /\ q.view = v /\ gTab[t].pc = "idle"
        /\ UNCHANGED Tables
    BY <1>0, <1>5, <2>1 DEF JumpToNode, Idle, PageNow, PageOnly, Tables, PageFields
  <2>3. i = IterIn(gLoop, n)
    BY <1>5 DEF JumpToNode, IterIn
  <2>4. v.kind = "node" /\ v.node = n /\ v.iter = i
    BY <2>1 DEF AtNode
  <2>5. PageTrue(q)
    BY <2>2, <2>3, <2>4 DEF PageTrue, Sound
  <2> QED BY <2>2, <2>5, QuietTurn DEF Only
<1>6. CASE Poll(t)
  <2>1. PICK q : q = gTab'[t]
    OBVIOUS
  <2>2. /\ PageNow(t, q) /\ q.pc = gTab[t].pc /\ q.view = gTab[t].view /\ q.req = gTab[t].req
        /\ q.base = gTab[t].base /\ gTab[t].pc # "closed" /\ UNCHANGED Tables
    BY <1>0, <1>6, <2>1 DEF Poll, PageNow, PageOnly, Tables, PageFields
  <2>3. PageTrue(q)
    BY <1>0, <2>2 DEF PageTrue
  <2> QED BY <2>2, <2>3, QuietTurn DEF Only
<1>7. CASE PollAnswer(t)
  <2>1. PICK q : q = gTab'[t]
    OBVIOUS
  <2>2. /\ PageNow(t, q) /\ q.pc = "idle" /\ q.view = Cursor(gAns, gLoop)
        /\ gTab[t].pc = "idle" /\ UNCHANGED Tables
    BY <1>0, <1>7, <2>1 DEF PollAnswer, PageNow, PageOnly, Tables, PageFields
  <2>3. Sound(q.view, gAns, gLoop)
    BY <2>2, CursorsTrue
  <2>4. PageTrue(q)
    BY <2>2, <2>3 DEF PageTrue
  <2> QED BY <2>2, <2>4, QuietTurn DEF Only
<1>8. ASSUME NEW l, OpenPage(t, l) PROVE ShownTrue'
  <2>1. PICK q : q = gTab'[t]
    OBVIOUS
  <2>2. /\ PageNow(t, q) /\ q.pc = "lookup" /\ q.req = [op |-> "state"] /\ UNCHANGED Tables
        /\ \A u \in Tabs \ {t} : gTab[u].pc = "closed"
    BY <1>0, <1>8, <2>1 DEF OpenPage, PageNow, PageOnly, Tables, Page
  <2>3. PageTrue(q)
    BY <2>2 DEF PageTrue, ReqTrue
  <2> QED BY <2>2, <2>3, QuietTurn DEF Only
<1> QED BY <1>1, <1>2, <1>3, <1>4, <1>5, <1>6, <1>7, <1>8 DEF Clicks

(* The requests that leave the tables alone.                               *)
Reads(t) ==
  \/ Lookup(t) \/ Bind(t) \/ ReadLoop(t) \/ GetState(t) \/ SubmitForm(t) \/ RunPipeline(t)

LEMMA ReadTrue ==
  ASSUME Shaped, Enclosed, ShownTrue, NEW t \in Tabs, Reads(t)
  PROVE  ShownTrue'
<1>0. /\ PageTrue(gTab[t]) /\ gTab = [u \in Tabs |-> gTab[u]] /\ DOMAIN gTab[t] = PageFields
  BY DEF ShownTrue, Shaped
<1>1. PICK q : q = gTab'[t]
  OBVIOUS
<1>2. SUFFICES PageNow(t, q) /\ gTab[t].pc # "closed" /\ UNCHANGED Tables /\ PageTrue(q)
  BY QuietTurn DEF Only
<1>3. CASE Lookup(t)
  <2>1. /\ PageNow(t, q) /\ gTab[t].pc = "lookup" /\ UNCHANGED Tables
        /\ \/ q.pc = "bind" /\ q.req = gTab[t].req
           \/ q.pc = "failed"
    BY <1>0, <1>1, <1>3 DEF Lookup, PageNow, PageOnly, Tables, PageFields
  <2> QED BY <1>0, <2>1 DEF PageTrue
<1>4. CASE Bind(t)
  <2>1. /\ PageNow(t, q) /\ gTab[t].pc = "bind" /\ UNCHANGED Tables
        /\ \/ q.pc = "read" /\ q.req = gTab[t].req
           \/ q.pc = "failed"
    BY <1>0, <1>1, <1>4 DEF Bind, PageNow, Tables, PageFields
  <2> QED BY <1>0, <2>1 DEF PageTrue
<1>5. CASE ReadLoop(t)
  <2>1. /\ PageNow(t, q) /\ gTab[t].pc = "read" /\ UNCHANGED Tables
        /\ q.pc = "write" /\ q.req = gTab[t].req /\ q.base = gLoop
    BY <1>0, <1>1, <1>5 DEF ReadLoop, PageNow, PageOnly, Tables, PageFields
  <2> QED BY <1>0, <2>1 DEF PageTrue
<1>6. CASE GetState(t)
  <2> DEFINE next == Cursor(gAns, gLoop)
             more == {Iterations(l, gAns) : l \in Loops} \cup {next.iter + 1, 0}
             m == CHOOSE n \in more : \A x \in more : x <= n
  <2>1. /\ gTab' = [gTab EXCEPT ![t].pc = "idle", ![t].req = NoRequest, ![t].view = next,
                                ![t].listed = m]
        /\ gTab[t].pc = "read" /\ PageOnly /\ UNCHANGED gShown
    BY <1>6, Zenon DEF GetState
  <2>2. Sound(next, gAns, gLoop)
    BY CursorsTrue
  <2> HIDE DEF next, m
  <2>3. PageNow(t, q) /\ q.pc = "idle" /\ q.view = next /\ UNCHANGED Tables
    BY <1>0, <1>1, <2>1 DEF PageNow, PageOnly, Tables, PageFields
  <2> QED BY <2>1, <2>2, <2>3 DEF PageTrue
<1>7. CASE SubmitForm(t)
  <2>1. /\ PageNow(t, q) /\ gTab[t].pc = "read" /\ UNCHANGED Tables /\ q.pc \in {"pipeline", "done"}
    BY <1>0, <1>1, <1>7 DEF SubmitForm, PageNow, Tables, PageFields
  <2> QED BY <2>1 DEF PageTrue
<1>8. CASE RunPipeline(t)
  <2>1. PageNow(t, q) /\ gTab[t].pc = "pipeline" /\ UNCHANGED Tables /\ q.pc = "done"
    BY <1>0, <1>1, <1>8 DEF RunPipeline, PageNow, Tables, PageFields
  <2> QED BY <2>1 DEF PageTrue
<1> QED BY <1>3, <1>4, <1>5, <1>6, <1>7, <1>8 DEF Reads

(* A request that moves the walk on answers with the new cursor, or has    *)
(* the form submitted.                                                     *)
LEMMA Responds ==
  ASSUME Shaped, NEW t \in Tabs, NEW next, Respond(t, next), NEW q, q = gTab'[t]
  PROVE  /\ PageNow(t, q)
         /\ \/ q.pc = "idle" /\ q.view = next
            \/ q.pc = "lookup" /\ q.req = [op |-> "submit"]
<1>1. PageNow(t, q)
  BY DEF Respond, Shaped, PageNow, PageFields
<1>2. CASE next.kind = "end"
  <2>1. q.pc = "lookup" /\ q.req = [op |-> "submit"]
    BY <1>2 DEF Respond, Shaped, PageFields
  <2> QED BY <1>1, <2>1
<1>3. CASE next.kind # "end"
  <2>1. q.pc = "idle" /\ q.view = next
    BY <1>3 DEF Respond, Shaped, PageFields
  <2> QED BY <1>1, <2>1
<1> QED BY <1>2, <1>3

LEMMA RespondTrue ==
  ASSUME Shaped, Enclosed, ShownTrue, NoGaps', NEW t \in Tabs, gTab[t].pc = "write",
         Respond(t, FindCursor(Template, gAns', gLoop'))
  PROVE  ShownTrue'
<1>1. PICK ans, loop, next :
        ans = gAns' /\ loop = gLoop' /\ next = FindCursor(Template, ans, loop)
  OBVIOUS
<1>2. Sound(next, ans, loop)
  BY <1>1, CursorTrue
<1>3. PICK q : q = gTab'[t]
  OBVIOUS
<1>4. Respond(t, next)
  BY <1>1
<1>5. /\ PageNow(t, q)
      /\ \/ q.pc = "idle" /\ q.view = next
         \/ q.pc = "lookup" /\ q.req = [op |-> "submit"]
  BY <1>3, <1>4, Responds
<1>6. Sound(next, gAns, gLoop)'
  BY <1>1, <1>2 DEF Sound, Visited, IterIn, IterOf
<1>7. PageTrue(q)'
  <2>1. CASE q.pc = "idle" /\ q.view = next
    BY <1>6, <2>1 DEF PageTrue
  <2>2. CASE q.pc = "lookup" /\ q.req = [op |-> "submit"]
    BY <2>2 DEF PageTrue, ReqTrue
  <2> QED BY <1>5, <2>1, <2>2
<1>8. Only(t)
  BY DEF Only
<1>9. PageNow(t, q)
  BY <1>5
<1> QED BY <1>7, <1>8, <1>9, TurnTrue

(* An answer lands where the page showed the question, in the loop's own   *)
(* round.                                                                  *)
LEMMA AnswerTrue ==
  ASSUME Shaped, Enclosed, ShownTrue, NEW t \in Tabs, SubmitAnswer(t)
  PROVE  ShownTrue'
<1> DEFINE r      == gTab[t].req
           node   == Template.nodes[r.node]
           p      == node.parent
           base   == gTab[t].base
           i      == IF p = None THEN 0 ELSE IterOf(base, p)
           blank  == node.type \in Divider \/ (~node.required /\ r.val \in {Nothing, Empty})
           val    == IF blank THEN Empty ELSE r.val
<1>1. /\ gTab[t].pc = "write" /\ r.op = "answer" /\ base = gLoop
      /\ r.node \in gNodes /\ r.iter = IterIn(gLoop, r.node)
  BY DEF SubmitAnswer, ShownTrue, PageTrue, ReqTrue
<1>2. CASE Refuse(t) /\ UNCHANGED Tables
  <2>1. PICK q : q = gTab'[t]
    OBVIOUS
  <2>2. PageNow(t, q) /\ q.pc = "failed"
    BY <1>2, <2>1 DEF Refuse, Shaped, PageNow, PageFields
  <2>3. PageTrue(q)
    BY <2>2 DEF PageTrue
  <2> QED BY <1>1, <1>2, <2>2, <2>3, QuietTurn DEF Only
<1>3. CASE /\ gAns' = Upsert(gAns, <<r.node, i>>, val)
           /\ gShown' = Upsert(gShown, <<r.node, i>>, r.iter)
           /\ gLoop' = IF p # None /\ p \notin DOMAIN base
                       THEN Upsert(base, p, [iter |-> 0, status |-> "iterating"]) ELSE gLoop
           /\ Respond(t, FindCursor(Template, gAns', gLoop'))
  <2>1. PICK n, k : n = r.node /\ k = <<n, r.iter>>
    OBVIOUS
  <2>2. i = r.iter /\ n \in gNodes
    BY <1>1, <2>1 DEF IterIn, Parent
  <2>3. r.iter \in 0 .. MaxIter /\ (Parent(n) # None => r.iter = IterOf(gLoop, Parent(n)))
    BY <1>1, <2>1, GatheringAssumption DEF ShownTrue, NoGaps, Round, IterIn, IterOf
  <2>4. /\ DOMAIN gAns' = DOMAIN gAns \cup {k} /\ DOMAIN gShown' = DOMAIN gShown \cup {k}
        /\ \A x \in DOMAIN gShown' : gShown'[x] = IF x = k THEN r.iter ELSE gShown[x]
    BY <1>3, <2>1, <2>2 DEF Upsert
  <2>5. gLoop' = [x \in DOMAIN gLoop' |-> gLoop'[x]] /\ gLoop' \in [DOMAIN gLoop' -> Round]
    <3>1. PICK new : new = [iter |-> 0, status |-> "iterating"]
      OBVIOUS
    <3>2. new \in Round
      BY <3>1, GatheringAssumption DEF Round
    <3>3. gLoop \in [DOMAIN gLoop -> Round]
      BY DEF ShownTrue, NoGaps
    <3>4. gLoop' = gLoop \/ gLoop' = Upsert(gLoop, p, new)
      BY <1>1, <1>3, <3>1
    <3> QED BY <3>2, <3>3, <3>4 DEF Upsert
  <2>6. \A l : IterOf(gLoop', l) = IterOf(gLoop, l)
    BY <1>1, <1>3 DEF Upsert, IterOf
  <2>7. /\ \A l, j : Visited(gAns', l, j) =>
                       Visited(gAns, l, j) \/ (l = Parent(n) /\ j = r.iter)
        /\ \A l, j : Visited(gAns, l, j) => Visited(gAns', l, j)
    BY <2>1, <2>4 DEF Visited
  <2>8. \A l \in Loops : l # None
    BY GatheringAssumption DEF Loops, gNodes
  <2>9. NoGaps'
    <3>1. DOMAIN gAns' \subseteq Keys /\ DOMAIN gShown' \subseteq Keys
      BY <2>1, <2>2, <2>3, <2>4 DEF ShownTrue, NoGaps, Keys
    <3>2. \A x \in DOMAIN gShown' : gShown'[x] = x[2]
      BY <2>1, <2>4 DEF ShownTrue, NoGaps
    <3>3. ASSUME NEW l \in Loops, NEW a \in 0 .. MaxIter, NEW b \in 0 .. MaxIter,
                 b < a, Visited(gAns', l, a)
          PROVE  Visited(gAns', l, b)
      BY <2>3, <2>7, <2>8, <3>3 DEF ShownTrue, NoGaps
    <3>4. ASSUME NEW l \in Loops, NEW b \in 0 .. MaxIter, b < IterOf(gLoop', l)
          PROVE  Visited(gAns', l, b)
      BY <2>6, <2>7, <3>4 DEF ShownTrue, NoGaps
    <3> QED BY <2>5, <3>1, <3>2, <3>3, <3>4 DEF NoGaps
  <2> QED BY <1>1, <1>3, <2>9, RespondTrue
<1> QED BY <1>2, <1>3, Zenon DEF SubmitAnswer, Tables

(* A round is offered after one that has answers, so the next one leaves   *)
(* none out.                                                               *)
LEMMA StepTrue ==
  ASSUME Shaped, Enclosed, ShownTrue, NEW t \in Tabs, SubmitLoopStep(t)
  PROVE  ShownTrue'
<1> DEFINE to(at) == IF gTab[t].req.action = "continue"
                     THEN [iter |-> at + 1, status |-> "iterating"]
                     ELSE [iter |-> at, status |-> "done"]
<1>1. PICK l, at : l = gTab[t].req.loop /\ at = IterOf(gLoop, l)
  OBVIOUS
<1>2. PICK next : next = to(at)
  OBVIOUS
<1>3. /\ gTab[t].pc = "write" /\ gTab[t].base = gLoop /\ l \in Loops /\ Visited(gAns, l, at)
      /\ gLoop' = Upsert(gLoop, l, next) /\ next.iter <= MaxIter /\ UNCHANGED <<gAns, gShown>>
      /\ Respond(t, FindCursor(Template, gAns', gLoop'))
  BY <1>1, <1>2 DEF SubmitLoopStep, ShownTrue, PageTrue, ReqTrue
<1>4. at \in 0 .. MaxIter
  BY <1>1, GatheringAssumption DEF ShownTrue, NoGaps, Round, IterOf
<1>5. next.iter \in {at, at + 1} /\ next \in Round
  BY <1>2, <1>3, <1>4, GatheringAssumption DEF Round
<1>6. \A m : IterOf(gLoop', m) = IF m = l THEN next.iter ELSE IterOf(gLoop, m)
  BY <1>3 DEF Upsert, IterOf
<1>7. \A m, j : Visited(gAns', m, j) <=> Visited(gAns, m, j)
  BY <1>3 DEF Visited
<1>8. NoGaps'
  <2>1. gLoop' \in [DOMAIN gLoop' -> Round]
    BY <1>3, <1>5 DEF ShownTrue, NoGaps, Upsert
  <2>2. ASSUME NEW m \in Loops, NEW b \in 0 .. MaxIter, b < IterOf(gLoop', m)
        PROVE  Visited(gAns', m, b)
    <3>1. CASE m = l
      <4>1. b < at \/ b = at
        BY <1>4, <1>5, <1>6, <2>2, <3>1
      <4> QED BY <1>1, <1>3, <1>7, <3>1, <4>1 DEF ShownTrue, NoGaps
    <3>2. CASE m # l
      BY <1>6, <1>7, <2>2, <3>2 DEF ShownTrue, NoGaps
    <3> QED BY <3>1, <3>2
  <2> QED BY <1>3, <1>7, <2>1, <2>2 DEF ShownTrue, NoGaps
<1> QED BY <1>3, <1>8, RespondTrue

(* Closing the gap renames the rounds after it, and nothing else.          *)
Before(l, i, k) == IF Parent(k[1]) = l /\ k[2] >= i THEN <<k[1], k[2] + 1>> ELSE k
After(l, i, k)  == IF Parent(k[1]) = l /\ k[2] > i THEN <<k[1], k[2] - 1>> ELSE k

LEMMA Shifted ==
  ASSUME NEW f, DOMAIN f \subseteq Keys, NEW l, NEW i \in 0 .. MaxIter,
         NEW g, g = ShiftDown(f, l, i)
  PROVE  /\ DOMAIN g \subseteq Keys
         /\ \A k \in Keys : k \in DOMAIN g <=> Before(l, i, k) \in DOMAIN f
         /\ \A k \in DOMAIN g : g[k] = f[Before(l, i, k)]
<1>1. PICK kept : kept = {k \in DOMAIN f : ~(Parent(k[1]) = l /\ k[2] = i)}
  OBVIOUS
<1>2. PICK renamed : renamed = {After(l, i, k) : k \in kept}
  OBVIOUS
<1>3. g = [k \in renamed |-> f[Before(l, i, k)]]
  BY <1>1, <1>2 DEF ShiftDown, Before, After
<1>4. ASSUME NEW k \in kept
      PROVE  After(l, i, k) \in Keys /\ Before(l, i, After(l, i, k)) = k
  <2>1. k \in Keys /\ ~(Parent(k[1]) = l /\ k[2] = i)
    BY <1>1
  <2>2. PICK n \in gNodes, m \in 0 .. MaxIter : k = <<n, m>>
    BY <2>1 DEF Keys
  <2>3. CASE Parent(n) = l /\ m > i
    <3>1. After(l, i, k) = <<n, m - 1>> /\ m - 1 \in 0 .. MaxIter /\ m - 1 >= i
      BY <2>2, <2>3, GatheringAssumption DEF After
    <3>2. Before(l, i, <<n, m - 1>>) = <<n, m>>
      BY <2>2, <2>3, <3>1, GatheringAssumption DEF Before
    <3> QED BY <2>2, <3>1, <3>2 DEF Keys
  <2>4. CASE ~(Parent(n) = l /\ m > i)
    <3>1. After(l, i, k) = k
      BY <2>2, <2>4 DEF After
    <3>2. ~(Parent(n) = l /\ m >= i)
      BY <2>1, <2>2, <2>4, GatheringAssumption
    <3>3. Before(l, i, k) = k
      BY <2>2, <3>2 DEF Before
    <3> QED BY <2>1, <3>1, <3>3
  <2> QED BY <2>3, <2>4
<1>5. ASSUME NEW k \in Keys, Before(l, i, k) \in DOMAIN f PROVE k \in renamed
  <2>1. PICK n \in gNodes, m \in 0 .. MaxIter : k = <<n, m>>
    BY DEF Keys
  <2>2. PICK b : b = Before(l, i, k)
    OBVIOUS
  <2>3. CASE Parent(n) = l /\ m >= i
    <3>1. b = <<n, m + 1>>
      BY <2>1, <2>2, <2>3 DEF Before
    <3>2. m + 1 # i /\ m + 1 > i /\ (m + 1) - 1 = m
      BY <2>3, GatheringAssumption
    <3>3. b \in kept
      BY <1>1, <1>5, <2>2, <3>1, <3>2
    <3>4. After(l, i, b) = k
      BY <2>1, <2>3, <3>1, <3>2 DEF After
    <3> QED BY <1>2, <3>3, <3>4
  <2>4. CASE ~(Parent(n) = l /\ m >= i)
    <3>1. b = k
      BY <2>1, <2>2, <2>4 DEF Before
    <3>2. ~(Parent(n) = l /\ m > i) /\ ~(Parent(n) = l /\ m = i)
      BY <2>4, GatheringAssumption
    <3>3. b \in kept
      BY <1>1, <1>5, <2>1, <2>2, <3>1, <3>2
    <3>4. After(l, i, b) = k
      BY <2>1, <3>1, <3>2 DEF After
    <3> QED BY <1>2, <3>3, <3>4
  <2> QED BY <2>3, <2>4
<1>6. DOMAIN g \subseteq Keys
  BY <1>2, <1>3, <1>4
<1>7. \A k \in Keys : k \in DOMAIN g <=> Before(l, i, k) \in DOMAIN f
  BY <1>1, <1>2, <1>3, <1>4, <1>5
<1>8. \A k \in DOMAIN g : g[k] = f[Before(l, i, k)]
  BY <1>3
<1> QED BY <1>6, <1>7, <1>8

(* A round that goes leaves no gap, and each answer keeps the round it was *)
(* typed in, under its new number.                                         *)
LEMMA RemoveTrue ==
  ASSUME Shaped, Enclosed, ShownTrue, NEW t \in Tabs, RemoveLoopIteration(t)
  PROVE  ShownTrue'
<1>1. PICK l, i : l = gTab[t].req.loop /\ i = gTab[t].req.iter
  OBVIOUS
<1>2. gTab[t].pc = "read" /\ l \in Loops /\ i \in 0 .. MaxIter
  BY <1>1 DEF RemoveLoopIteration, ShownTrue, PageTrue, ReqTrue
<1>3. PICK shown : shown = ShiftDown(gShown, l, i)
  OBVIOUS
<1>4. /\ gAns' = ShiftDown(gAns, l, i)
      /\ gShown' = [k \in DOMAIN shown |->
                      IF Parent(k[1]) = l /\ shown[k] > i THEN shown[k] - 1 ELSE shown[k]]
      /\ gLoop' = IF l \in DOMAIN gLoop
                  THEN [gLoop EXCEPT ![l].iter = CursorAfterRemoval(@, i)] ELSE gLoop
      /\ Send(t, [op |-> "state"])
  BY <1>1, <1>3, Zenon DEF RemoveLoopIteration
<1>5. /\ DOMAIN gAns' \subseteq Keys
      /\ \A k \in Keys : k \in DOMAIN gAns' <=> Before(l, i, k) \in DOMAIN gAns
  <2>1. PICK f, g : f = gAns /\ g = gAns'
    OBVIOUS
  <2>2. DOMAIN f \subseteq Keys /\ g = ShiftDown(f, l, i)
    BY <1>4, <2>1 DEF ShownTrue, NoGaps
  <2> QED BY <1>2, <2>1, <2>2, Shifted
<1>6. DOMAIN gShown' \subseteq Keys /\ \A k \in DOMAIN gShown' : gShown'[k] = k[2]
  <2>1. PICK f : f = gShown
    OBVIOUS
  <2>2. DOMAIN f \subseteq Keys /\ shown = ShiftDown(f, l, i)
    BY <1>3, <2>1 DEF ShownTrue, NoGaps
  <2>3. /\ DOMAIN shown \subseteq Keys
        /\ \A k \in Keys : k \in DOMAIN shown <=> Before(l, i, k) \in DOMAIN f
        /\ \A k \in DOMAIN shown : shown[k] = f[Before(l, i, k)]
    BY <1>2, <2>2, Shifted
  <2>4. ASSUME NEW k \in DOMAIN shown
        PROVE  (IF Parent(k[1]) = l /\ shown[k] > i THEN shown[k] - 1 ELSE shown[k]) = k[2]
    <3>1. PICK n \in gNodes, m \in 0 .. MaxIter : k = <<n, m>>
      BY <2>3 DEF Keys
    <3>2. PICK b : b = Before(l, i, k)
      OBVIOUS
    <3>3. shown[k] = b[2]
      BY <2>1, <2>3, <3>2 DEF ShownTrue, NoGaps
    <3>4. CASE Parent(n) = l /\ m >= i
      <4>1. b[2] = m + 1
        BY <3>1, <3>2, <3>4 DEF Before
      <4> QED BY <1>2, <3>1, <3>3, <3>4, <4>1, GatheringAssumption
    <3>5. CASE ~(Parent(n) = l /\ m >= i)
      <4>1. b[2] = m
        BY <3>1, <3>2, <3>5 DEF Before
      <4> QED BY <1>2, <3>1, <3>3, <3>5, <4>1, GatheringAssumption
    <3> QED BY <3>4, <3>5
  <2>5. /\ DOMAIN gShown' = DOMAIN shown
        /\ \A k \in DOMAIN shown : gShown'[k] =
             IF Parent(k[1]) = l /\ shown[k] > i THEN shown[k] - 1 ELSE shown[k]
    BY <1>4
  <2> QED BY <2>3, <2>4, <2>5
<1>7. ASSUME NEW m \in Loops, NEW j \in 0 .. MaxIter
      PROVE  Visited(gAns', m, j) <=> IF m = l /\ j >= i THEN Visited(gAns, m, j + 1)
                                                       ELSE Visited(gAns, m, j)
  <2>1. ASSUME NEW n \in gNodes, Parent(n) = m
        PROVE  <<n, j>> \in DOMAIN gAns' <=>
                 (IF m = l /\ j >= i THEN <<n, j + 1>> ELSE <<n, j>>) \in DOMAIN gAns
    <3>1. <<n, j>> \in Keys
      BY DEF Keys
    <3>2. Before(l, i, <<n, j>>) = IF m = l /\ j >= i THEN <<n, j + 1>> ELSE <<n, j>>
      BY <2>1 DEF Before
    <3> QED BY <1>5, <3>1, <3>2
  <2>2. CASE m = l /\ j >= i
    BY <2>1, <2>2 DEF Visited
  <2>3. CASE ~(m = l /\ j >= i)
    BY <2>1, <2>3 DEF Visited
  <2> QED BY <2>2, <2>3
<1>8. \A m : IterOf(gLoop', m) = IF m = l /\ IterOf(gLoop, m) > i THEN IterOf(gLoop, m) - 1
                                                                 ELSE IterOf(gLoop, m)
  <2>1. gLoop = [m \in DOMAIN gLoop |-> gLoop[m]] /\ gLoop \in [DOMAIN gLoop -> Round]
    BY DEF ShownTrue, NoGaps
  <2>2. CASE l \in DOMAIN gLoop
    <3>1. /\ gLoop' = [gLoop EXCEPT ![l].iter = CursorAfterRemoval(gLoop[l].iter, i)]
          /\ gLoop[l] \in Round
      BY <1>4, <2>1, <2>2
    <3>2. /\ DOMAIN gLoop' = DOMAIN gLoop
          /\ gLoop'[l].iter = CursorAfterRemoval(gLoop[l].iter, i)
          /\ \A m \in DOMAIN gLoop \ {l} : gLoop'[m] = gLoop[m]
      BY <2>1, <2>2, <3>1 DEF Round
    <3> QED BY <2>2, <3>2 DEF IterOf, CursorAfterRemoval
  <2>3. CASE l \notin DOMAIN gLoop
    <3>1. gLoop' = gLoop /\ IterOf(gLoop, l) = 0
      BY <1>4, <2>3 DEF IterOf
    <3> QED BY <1>2, <3>1, GatheringAssumption
  <2> QED BY <2>2, <2>3
<1>9. gLoop' \in [DOMAIN gLoop' -> Round]
  <2>1. gLoop \in [DOMAIN gLoop -> Round]
    BY DEF ShownTrue, NoGaps
  <2>2. CASE l \in DOMAIN gLoop
    <3>1. PICK c : c = CursorAfterRemoval(gLoop[l].iter, i)
      OBVIOUS
    <3>2. gLoop[l].iter \in 0 .. MaxIter /\ gLoop[l] \in Round
      BY <2>1, <2>2 DEF Round
    <3>3. c \in 0 .. MaxIter
      BY <1>2, <3>1, <3>2, GatheringAssumption DEF CursorAfterRemoval
    <3>4. gLoop' = [gLoop EXCEPT ![l].iter = c]
      BY <1>4, <2>2, <3>1
    <3>5. PICK e : e = [gLoop[l] EXCEPT !.iter = c]
      OBVIOUS
    <3>6. e \in Round
      BY <3>2, <3>3, <3>5 DEF Round
    <3>7. gLoop' = [gLoop EXCEPT ![l] = e]
      BY <3>4, <3>5
    <3> QED BY <2>1, <3>6, <3>7
  <2>3. CASE l \notin DOMAIN gLoop
    BY <1>4, <2>1, <2>3
  <2> QED BY <2>2, <2>3
<1>10. NoGaps'
  <2>1. ASSUME NEW m \in Loops, NEW a \in 0 .. MaxIter, NEW b \in 0 .. MaxIter,
               b < a, Visited(gAns', m, a)
        PROVE  Visited(gAns', m, b)
    <3>1. \A c \in 0 .. MaxIter, d \in 0 .. MaxIter :
            d < c /\ Visited(gAns, m, c) => Visited(gAns, m, d)
      BY DEF ShownTrue, NoGaps
    <3>2. Visited(gAns, m, a + 1) => a + 1 \in 0 .. MaxIter
      BY DEF ShownTrue, NoGaps, Visited, Keys
    <3>3. CASE m = l /\ a >= i
      <4>1. Visited(gAns, m, a + 1) /\ a + 1 \in 0 .. MaxIter
        BY <1>7, <2>1, <3>2, <3>3
      <4>2. CASE b >= i
        <5>1. b + 1 \in 0 .. MaxIter /\ b + 1 < a + 1
          BY <2>1, <4>1, GatheringAssumption
        <5>2. Visited(gAns, m, b + 1)
          BY <3>1, <4>1, <5>1
        <5> QED BY <1>7, <3>3, <4>2, <5>2
      <4>3. CASE ~(b >= i)
        <5>1. b < a + 1
          BY <2>1, GatheringAssumption
        <5>2. Visited(gAns, m, b)
          BY <3>1, <4>1, <5>1
        <5> QED BY <1>7, <4>3, <5>2
      <4> QED BY <4>2, <4>3
    <3>4. CASE ~(m = l /\ a >= i)
      <4>1. ~(m = l /\ b >= i)
        BY <1>2, <2>1, <3>4, GatheringAssumption
      <4>2. Visited(gAns, m, b)
        BY <1>7, <2>1, <3>1, <3>4
      <4> QED BY <1>7, <4>1, <4>2
    <3> QED BY <3>3, <3>4
  <2>2. ASSUME NEW m \in Loops, NEW b \in 0 .. MaxIter, b < IterOf(gLoop', m)
        PROVE  Visited(gAns', m, b)
    <3>1. \A c \in 0 .. MaxIter : c < IterOf(gLoop, m) => Visited(gAns, m, c)
      BY DEF ShownTrue, NoGaps
    <3>2. IterOf(gLoop, m) \in 0 .. MaxIter
      BY GatheringAssumption DEF ShownTrue, NoGaps, Round, IterOf
    <3>3. CASE m = l /\ b >= i
      <4>1. IterOf(gLoop, m) > i /\ b + 1 < IterOf(gLoop, m) /\ b + 1 \in 0 .. MaxIter
        BY <1>2, <1>8, <2>2, <3>2, <3>3, GatheringAssumption
      <4> QED BY <1>7, <3>1, <3>3, <4>1
    <3>4. CASE ~(m = l /\ b >= i)
      <4>1. b < IterOf(gLoop, m)
        BY <1>8, <2>2, <3>2, GatheringAssumption
      <4> QED BY <1>7, <3>1, <3>4, <4>1
    <3> QED BY <3>3, <3>4
  <2> QED BY <1>5, <1>6, <1>9, <2>1, <2>2 DEF NoGaps
<1>11. PICK q : q = gTab'[t]
  OBVIOUS
<1>12. PageNow(t, q) /\ q.pc = "lookup" /\ q.req = [op |-> "state"]
  BY <1>4, <1>11 DEF Send, Shaped, PageNow, PageFields
<1>13. PageTrue(q)'
  BY <1>12 DEF PageTrue, ReqTrue
<1>14. Only(t)
  BY <1>2 DEF Only
<1>15. PageNow(t, q)
  BY <1>12
<1> QED BY <1>10, <1>13, <1>14, <1>15, TurnTrue

LEMMA ShownStep ==
  ASSUME GatheringInv, Enclosed, ShownInv, [GatheringNext]_gatheringVars
  PROVE  ShownInv'
<1>1. SUFFICES ASSUME gCare' # "strayed" PROVE ShownTrue'
  BY DEF ShownInv
<1>2. Shaped
  BY DEF GatheringInv
<1>3. CASE UNCHANGED gatheringVars
  <2>1. ShownTrue /\ UNCHANGED <<gTab, gAns, gShown, gLoop>>
    BY <1>1, <1>3 DEF gatheringVars, ShownInv
  <2> QED BY <2>1 DEF ShownTrue, Sole, NoGaps, PageTrue, ReqTrue, Sound, Visited, IterIn, IterOf
<1>4. CASE GatheringNext
  <2>1. gCrew.tabs \subseteq Tabs
    BY <1>2, GatheringAssumption DEF Shaped
  <2>2. ASSUME NEW l, MintLink(l) \/ Expire(l) PROVE ShownTrue'
    <3>1. UNCHANGED <<gTab, gAns, gShown, gLoop, gCare>>
      BY <2>2 DEF MintLink, Expire
    <3>2. ShownTrue
      BY <1>1, <3>1 DEF ShownInv
    <3> QED BY <3>1, <3>2 DEF ShownTrue, Sole, NoGaps, PageTrue, ReqTrue, Sound, Visited,
                               IterIn, IterOf
  <2>3. ASSUME NEW t \in Tabs, Serve(t) PROVE ShownTrue'
    <3>1. gCare' = gCare
      BY <2>3 DEF Serve, Lookup, Bind, ReadLoop, GetState, SubmitAnswer, SubmitLoopStep,
                  RemoveLoopIteration, SubmitForm, RunPipeline
    <3>2. ShownTrue
      BY <1>1, <3>1 DEF ShownInv
    <3> QED BY <1>2, <2>3, <3>2, ReadTrue, AnswerTrue, StepTrue, RemoveTrue DEF Serve, Reads
  <2>4. ASSUME NEW t \in Tabs, Clicks(t) PROVE ShownTrue'
    <3>1. gCare = "strayed" => gCare' = "strayed"
      BY <2>4 DEF Clicks, PressContinue, PressLoopStep, PressRemove, PressSubmit, JumpToNode,
                  Poll, PollAnswer, OpenPage
    <3>2. ShownTrue
      BY <1>1, <3>1 DEF ShownInv
    <3> QED BY <1>1, <1>2, <2>4, <3>2, PressTrue
  <2> QED BY <1>4, <2>1, <2>2, <2>3, <2>4 DEF GatheringNext, Move, Browse, Clicks
<1> QED BY <1>3, <1>4

(* Whatever is pressed, polled and removed: while the responder does not   *)
(* stray, pages, requests and answers agree on the iteration.              *)
THEOREM ShownInvariant == Enclosed => (GatheringSpec => []ShownInv)
<1> SUFFICES ASSUME Enclosed PROVE GatheringSpec => []ShownInv
  OBVIOUS
<1>1. GatheringInit => ShownInv
  <2> SUFFICES ASSUME GatheringInit PROVE ShownTrue
    BY DEF ShownInv
  <2>1. \A t \in Tabs : gTab[t].pc = "closed"
    BY DEF GatheringInit, Page
  <2>2. \A l, i : IterOf(gLoop, l) = 0 /\ ~Visited(gAns, l, i)
    BY DEF GatheringInit, IterOf, Visited
  <2>3. NoGaps
    BY <2>2, GatheringAssumption DEF GatheringInit, NoGaps
  <2> QED BY <2>1, <2>3 DEF ShownTrue, Sole, PageTrue
<1>2. GatheringInv /\ ShownInv /\ [GatheringNext]_gatheringVars => ShownInv'
  BY ShownStep
<1> QED BY <1>1, <1>2, GatheringInvariant, PTL DEF GatheringSpec

(* Answers are stored in the iteration the page showed, and no iteration   *)
(* is left out.                                                            *)
THEOREM AnswersShown == Enclosed => (GatheringSpec => []AnswersWhereShown)
<1>1. ASSUME ShownInv PROVE AnswersWhereShown
  <2> SUFFICES ASSUME gCare # "strayed" PROVE AnswersWhereShown
    BY DEF AnswersWhereShown
  <2>1. NoGaps
    BY <1>1 DEF ShownInv, ShownTrue
  <2>2. ASSUME NEW l \in Loops, NEW i \in 0 .. MaxIter, i < Iterations(l, gAns)
        PROVE  Visited(gAns, l, i)
    <3>1. PICK used : used = {k[2] + 1 : k \in {x \in DOMAIN gAns : Parent(x[1]) = l}}
      OBVIOUS
    <3>2. used \subseteq 1 .. MaxIter + 1
      BY <2>1, <3>1, GatheringAssumption DEF NoGaps, Keys
    <3>3. Iterations(l, gAns) = IF used = {} THEN 0
                                ELSE CHOOSE m \in used : \A u \in used : u <= m
      BY <3>1 DEF Iterations
    <3>4. used # {}
      BY <2>2, <3>3, GatheringAssumption
    <3>5. \E m \in used : \A u \in used : u <= m
      <4>1. used \subseteq Nat /\ MaxIter + 1 \in Nat /\ \A u \in used : u <= MaxIter + 1
        BY <3>2, GatheringAssumption
      <4> QED BY <3>4, <4>1, GreatestIn
    <3>6. PICK m \in used : m = Iterations(l, gAns)
      BY <3>3, <3>4, <3>5
    <3>7. PICK k \in DOMAIN gAns : Parent(k[1]) = l /\ m = k[2] + 1
      BY <3>1, <3>6
    <3>8. PICK n \in gNodes, a \in 0 .. MaxIter : k = <<n, a>>
      BY <2>1, <3>7 DEF NoGaps, Keys
    <3>9. Visited(gAns, l, a) /\ (i < a \/ i = a)
      BY <2>2, <3>6, <3>7, <3>8, GatheringAssumption DEF Visited
    <3> QED BY <2>1, <3>9 DEF NoGaps
  <2> QED BY <2>1, <2>2 DEF AnswersWhereShown, NoGaps, Visited
<1> QED BY <1>1, ShownInvariant, PTL

-----------------------------------------------------------------------------
(* A row, and a request that keeps the mailbox its token came from.        *)
MailRow == [on : BOOLEAN, box : Boxes \cup {NoBox}, of : Boxes \cup {NoBox}, fresh : BOOLEAN,
            refresh : BOOLEAN]
MailReq == [pc : {"idle", "consent", "store", "token", "refresh", "save", "name", "graph"},
            box : Boxes \cup {NoBox}, of : Boxes \cup {NoBox}, named : Boxes \cup {NoBox},
            forced : BOOLEAN]

Holding(q) == \/ q.pc \in {"refresh", "save", "name", "graph"}
              \/ q.pc = "token" /\ q.forced

MailTypes ==
  /\ mRow \in MailRow /\ mReq \in [MailReqs -> MailReq] /\ mWorld \in MailWorlds

(* Every mailbox is one of the user's, and a row that is off names none.   *)
BoxOf(q) ==
  /\ q.pc \in {"consent", "store"} => q.box \in mWorld.boxes
  /\ Holding(q) => q.of \in mWorld.boxes
  /\ ~Holding(q) => q.named = NoBox

Known ==
  /\ ~mRow.on => mRow.box = NoBox
  /\ mRow.on => mRow.of \in mWorld.boxes
  /\ \A r \in MailReqs : BoxOf(mReq[r])
  /\ mWorld.alone => \A r, s \in MailBusy : r = s

(* One request at a time, or one mailbox: what a request carries is what   *)
(* the row holds, so no refresh writes the tokens of one mailbox under the *)
(* name of another.                                                        *)
Undisturbed == mWorld.alone \/ Cardinality(mWorld.boxes) = 1

Carried(q) == q.named \in {NoBox, q.of} /\ (Holding(q) /\ mRow.on => mRow.of = q.of)

Faithful ==
  /\ mRow.on => mRow.box = mRow.of
  /\ \A r \in MailReqs : Carried(mReq[r])
  /\ \A s \in mSent : s[2] = s[1] \/ s[2] = NoBox

MailInv == MailTypes /\ Known /\ (Undisturbed => Faithful)

(* A step of one request, which leaves the row.                            *)
LEMMA RequestKeeps ==
  ASSUME MailInv, NEW r \in MailReqs, NEW q \in MailReq, MailTo(r, q),
         mReq[r].pc # "idle" \/ (mWorld.alone => MailBusy = {}),
         UNCHANGED <<mRow, mWorld>>, BoxOf(q), Undisturbed => Carried(q),
         \A s \in mSent' : s \in mSent \/ (Undisturbed => s[2] = s[1] \/ s[2] = NoBox)
  PROVE  MailInv'
<1>1. mReq' = [mReq EXCEPT ![r] = q] /\ mReq' \in [MailReqs -> MailReq]
  BY DEF MailTo, MailInv, MailTypes
<1>2. mReq'[r] = q /\ \A s \in MailReqs \ {r} : mReq'[s] = mReq[s]
  BY <1>1 DEF MailInv, MailTypes
<1>3. MailTypes'
  BY <1>1 DEF MailInv, MailTypes
<1>4. \A s \in MailReqs : BoxOf(mReq[s])'
  BY <1>2 DEF MailInv, Known, BoxOf, Holding
<1>5. MailBusy' \subseteq MailBusy \cup {r}
  BY <1>2 DEF MailBusy
<1>6. mReq[r].pc # "idle" => r \in MailBusy
  BY DEF MailBusy
<1>7. Known'
  BY <1>4, <1>5, <1>6 DEF MailInv, Known
<1>8. Undisturbed => Faithful'
  <2> SUFFICES ASSUME Undisturbed PROVE Faithful'
    OBVIOUS
  <2>1. \A s \in MailReqs : Carried(mReq[s])'
    BY <1>2 DEF MailInv, Faithful, Carried
  <2> QED BY <2>1 DEF MailInv, Faithful
<1> QED BY <1>3, <1>7, <1>8 DEF MailInv, Undisturbed

(* A step of the row alone: it goes, or a token in it expires.             *)
LEMMA RowKeeps ==
  ASSUME MailInv, mRow' = NoRowYet \/ mRow' = [mRow EXCEPT !.fresh = FALSE],
         UNCHANGED <<mReq, mSent, mWorld>>
  PROVE  MailInv'
<1>0. mRow \in MailRow
  BY DEF MailInv, MailTypes
<1>1. mRow' \in MailRow
  <2>1. CASE mRow' = NoRowYet
    BY <2>1 DEF MailRow, NoRowYet
  <2>2. CASE mRow' = [mRow EXCEPT !.fresh = FALSE]
    BY <1>0, <2>2 DEF MailRow
  <2> QED BY <2>1, <2>2
<1>2. /\ mRow'.on => mRow.on /\ mRow'.of = mRow.of /\ mRow'.box = mRow.box
      /\ ~mRow'.on => mRow'.box = NoBox
  BY DEF MailInv, MailTypes, MailRow, Known, NoRowYet
<1>3. MailTypes'
  BY <1>1 DEF MailInv, MailTypes
<1>4. Known'
  BY <1>2 DEF MailInv, Known, BoxOf, MailBusy
<1>5. Undisturbed => Faithful'
  BY <1>2 DEF MailInv, Faithful, Carried
<1> QED BY <1>3, <1>4, <1>5 DEF MailInv, Undisturbed

(* With one request at a time no other request holds a token; with one     *)
(* mailbox every token is that mailbox's.                                  *)
LEMMA SameBox ==
  ASSUME MailInv, Undisturbed, NEW r \in MailReqs, mReq[r].pc # "idle",
         NEW s \in MailReqs \ {r}, Holding(mReq[s]), NEW b \in mWorld.boxes
  PROVE  mReq[s].of = b
<1>1. s \in MailBusy /\ r \in MailBusy
  BY DEF MailBusy, Holding
<1>2. ~mWorld.alone
  BY <1>1 DEF MailInv, Known
<1>3. IsFiniteSet(mWorld.boxes)
  BY OutlookMailAssumption DEF MailInv, MailTypes
<1>4. PICK k : mWorld.boxes = {k}
  BY <1>2, <1>3, FS_Singleton DEF Undisturbed
<1> QED BY <1>4 DEF MailInv, Known, BoxOf

(* The row is written: by a completed connection, or by a refresh that     *)
(* finds one.                                                              *)
LEMMA ConnectKeeps ==
  ASSUME MailInv, NEW r \in MailReqs, CompleteConnect(r)
  PROVE  MailInv'
<1>1. PICK again \in BOOLEAN :
        mRow' = [on |-> TRUE, box |-> mReq[r].box, of |-> mReq[r].box, fresh |-> TRUE,
                 refresh |-> again]
  BY DEF CompleteConnect
<1>2. /\ mReq[r].pc = "store" /\ mReq' = [mReq EXCEPT ![r] = MailIdle]
      /\ UNCHANGED <<mSent, mWorld>>
  BY DEF CompleteConnect, MailEnds
<1>3. MailIdle \in MailReq /\ mReq[r] \in MailReq
  BY DEF MailIdle, MailReq, MailInv, MailTypes
<1>4. /\ mReq'[r] = MailIdle /\ mReq' \in [MailReqs -> MailReq]
      /\ \A s \in MailReqs \ {r} : mReq'[s] = mReq[s]
  BY <1>2, <1>3 DEF MailInv, MailTypes
<1>5. mReq[r].box \in mWorld.boxes
  BY <1>2 DEF MailInv, Known, BoxOf
<1>6. mRow' \in MailRow /\ mRow'.on /\ mRow'.of = mReq[r].box /\ mRow'.box = mReq[r].box
  BY <1>1, <1>3 DEF MailRow, MailReq
<1>7. MailTypes'
  BY <1>2, <1>4, <1>6 DEF MailInv, MailTypes
<1>8. ~Holding(MailIdle) /\ MailIdle.named = NoBox /\ MailIdle.pc = "idle"
  BY DEF Holding, MailIdle
<1>9. Known'
  <2>1. \A s \in MailReqs : BoxOf(mReq[s])'
    BY <1>2, <1>4, <1>8 DEF MailInv, Known, BoxOf, Holding
  <2>2. MailBusy' \subseteq MailBusy
    BY <1>4, <1>8 DEF MailBusy
  <2> QED BY <1>2, <1>5, <1>6, <2>1, <2>2 DEF MailInv, Known
<1>10. Undisturbed => Faithful'
  <2> SUFFICES ASSUME Undisturbed PROVE Faithful'
    OBVIOUS
  <2>1. \A s \in MailReqs \ {r} : Holding(mReq[s]) => mReq[s].of = mReq[r].box
    BY <1>2, <1>5, SameBox
  <2>2. \A s \in MailReqs : Carried(mReq[s])'
    BY <1>4, <1>6, <1>8, <2>1 DEF MailInv, Faithful, Carried
  <2> QED BY <1>2, <1>6, <2>2 DEF MailInv, Faithful
<1> QED BY <1>2, <1>7, <1>9, <1>10 DEF MailInv, Undisturbed

LEMMA SaveKeeps ==
  ASSUME MailInv, NEW r \in MailReqs, SaveRefreshed(r)
  PROVE  MailInv'
<1> DEFINE to == [mReq[r] EXCEPT !.pc = IF mReq[r].forced THEN "graph" ELSE "name"]
<1>1. mReq[r] \in MailReq /\ mReq[r].pc = "save" /\ UNCHANGED <<mSent, mWorld>>
  BY DEF SaveRefreshed, MailInv, MailTypes
<1>2. CASE ~mRow.on
  <2>1. UNCHANGED mRow /\ MailTo(r, MailIdle)
    BY <1>2 DEF SaveRefreshed, RowToSave, MailEnds, MailTo
  <2>2. MailIdle \in MailReq /\ BoxOf(MailIdle) /\ Carried(MailIdle)
    BY DEF MailIdle, MailReq, BoxOf, Carried, Holding
  <2> QED BY <1>1, <2>1, <2>2, RequestKeeps
<1>3. CASE mRow.on
  <2>1. mRow' = [mRow EXCEPT !.of = mReq[r].of, !.fresh = TRUE]
    BY <1>3 DEF SaveRefreshed, RowToSave
  <2>2. /\ mRow' \in MailRow /\ mRow'.on
        /\ mRow'.of = mReq[r].of /\ mRow'.box = mRow.box
    BY <1>1, <1>3, <2>1 DEF MailInv, MailTypes, MailRow, MailReq
  <2>3. mReq' = [mReq EXCEPT ![r] = to]
    BY <2>2 DEF SaveRefreshed, MailTo
  <2>4. /\ to \in MailReq /\ Holding(to) /\ to.of = mReq[r].of /\ to.named = mReq[r].named
        /\ to.pc \notin {"consent", "store", "idle"}
    BY <1>1 DEF MailReq, Holding
  <2> HIDE DEF to
  <2>5. /\ mReq'[r] = to /\ mReq' \in [MailReqs -> MailReq]
        /\ \A s \in MailReqs \ {r} : mReq'[s] = mReq[s]
    BY <2>3, <2>4 DEF MailInv, MailTypes
  <2>6. Holding(mReq[r]) /\ mReq[r].of \in mWorld.boxes
    BY <1>1 DEF MailInv, Known, BoxOf, Holding
  <2>7. MailTypes'
    BY <1>1, <2>2, <2>5 DEF MailInv, MailTypes
  <2>8. \A s \in MailReqs : BoxOf(mReq[s])'
    BY <1>1, <2>4, <2>5, <2>6 DEF MailInv, Known, BoxOf, Holding
  <2>9. MailBusy' \subseteq MailBusy
    BY <1>1, <2>5 DEF MailBusy
  <2>10. Known'
    BY <1>1, <2>2, <2>6, <2>8, <2>9 DEF MailInv, Known
  <2>11. Undisturbed => Faithful'
    <3> SUFFICES ASSUME Undisturbed PROVE Faithful'
      OBVIOUS
    <3>1. mRow.of = mReq[r].of /\ mRow.box = mRow.of
      BY <1>3, <2>6 DEF MailInv, Faithful, Carried
    <3>2. \A s \in MailReqs : Carried(mReq[s])'
      BY <1>3, <2>2, <2>4, <2>5, <3>1 DEF MailInv, Faithful, Carried
    <3> QED BY <1>1, <2>2, <3>1, <3>2 DEF MailInv, Faithful
  <2> QED BY <1>1, <2>7, <2>10, <2>11 DEF MailInv, Undisturbed
<1>4. mRow.on \in BOOLEAN
  BY DEF MailInv, MailTypes, MailRow
<1> QED BY <1>2, <1>3, <1>4

(* A request that starts, ends or moves on with the token it has.          *)
LEMMA MailIdles ==
  ASSUME MailInv, NEW r \in MailReqs, mReq[r].pc # "idle", MailEnds(r),
         UNCHANGED <<mRow, mSent, mWorld>>
  PROVE  MailInv'
<1>1. MailIdle \in MailReq /\ BoxOf(MailIdle) /\ Carried(MailIdle) /\ MailTo(r, MailIdle)
  BY DEF MailIdle, MailReq, BoxOf, Carried, Holding, MailEnds, MailTo
<1> QED BY <1>1, RequestKeeps

LEMMA StartKeeps ==
  ASSUME MailInv, NEW r \in MailReqs,
         StartSend(r) \/ \E b \in Boxes : Authorize(r, b)
  PROVE  MailInv'
<1>1. CASE StartSend(r)
  <2> DEFINE q == [MailIdle EXCEPT !.pc = "token"]
  <2>1. q \in MailReq /\ q.pc = "token" /\ ~q.forced /\ q.named = NoBox
    BY DEF MailIdle, MailReq
  <2>2. MailTo(r, q) /\ (mWorld.alone => MailBusy = {}) /\ UNCHANGED <<mRow, mSent, mWorld>>
    BY <1>1 DEF StartSend
  <2> HIDE DEF q
  <2>3. BoxOf(q) /\ Carried(q)
    BY <2>1 DEF BoxOf, Carried, Holding
  <2> QED BY <2>1, <2>2, <2>3, RequestKeeps
<1>2. ASSUME NEW b \in Boxes, Authorize(r, b) PROVE MailInv'
  <2> DEFINE q == [MailIdle EXCEPT !.pc = "consent", !.box = b]
  <2>1. q \in MailReq /\ q.pc = "consent" /\ q.named = NoBox /\ q.box = b
    BY DEF MailIdle, MailReq
  <2>2. /\ MailTo(r, q) /\ (mWorld.alone => MailBusy = {}) /\ UNCHANGED <<mRow, mSent, mWorld>>
        /\ b \in mWorld.boxes
    BY <1>2 DEF Authorize
  <2> HIDE DEF q
  <2>3. BoxOf(q) /\ Carried(q)
    BY <2>1, <2>2 DEF BoxOf, Carried, Holding
  <2> QED BY <2>1, <2>2, <2>3, RequestKeeps
<1> QED BY <1>1, <1>2

(* A request that has its token goes on with it, or ends.                  *)
LEMMA CarryKeeps ==
  ASSUME MailInv, NEW r \in MailReqs,
         Exchange(r) \/ Refresh(r) \/ ReadName(r) \/ SendMail(r)
  PROVE  MailInv'
<1> DEFINE q == mReq[r]
<1>0. q \in MailReq /\ BoxOf(q) /\ (Undisturbed => Carried(q))
  BY DEF MailInv, MailTypes, Known, Faithful
<1>1. CASE Exchange(r)
  <2> DEFINE to == [mReq[r] EXCEPT !.pc = "store"]
  <2>1. q.pc = "consent" /\ UNCHANGED <<mRow, mSent, mWorld>> /\ (MailEnds(r) \/ MailTo(r, to))
    BY <1>1 DEF Exchange
  <2>2. to \in MailReq /\ to.pc = "store" /\ to.box = q.box /\ to.named = q.named
    BY <1>0 DEF MailReq
  <2> HIDE DEF to
  <2>3. BoxOf(to) /\ Carried(to)
    BY <1>0, <2>1, <2>2 DEF BoxOf, Carried, Holding
  <2> QED BY <2>1, <2>2, <2>3, MailIdles, RequestKeeps
<1>2. CASE Refresh(r)
  <2> DEFINE to == [mReq[r] EXCEPT !.pc = "save"]
  <2>1. q.pc = "refresh" /\ UNCHANGED <<mRow, mSent, mWorld>> /\ (MailEnds(r) \/ MailTo(r, to))
    BY <1>2 DEF Refresh
  <2>2. to \in MailReq /\ to.pc = "save" /\ to.of = q.of /\ to.named = q.named
    BY <1>0 DEF MailReq
  <2> HIDE DEF to
  <2>3. BoxOf(to) /\ (Undisturbed => Carried(to))
    BY <1>0, <2>1, <2>2 DEF BoxOf, Carried, Holding
  <2> QED BY <2>1, <2>2, <2>3, MailIdles, RequestKeeps
<1>3. CASE ReadName(r)
  <2> DEFINE to == [mReq[r] EXCEPT !.pc = "graph", !.named = mRow.box]
  <2>1. q.pc = "name" /\ UNCHANGED <<mRow, mSent, mWorld>> /\ MailTo(r, to)
    BY <1>3 DEF ReadName
  <2>2. to \in MailReq /\ to.pc = "graph" /\ to.of = q.of /\ to.named = mRow.box
    BY <1>0 DEF MailReq, MailInv, MailTypes, MailRow
  <2> HIDE DEF to
  <2>3. Undisturbed => (mRow.on => mRow.box = q.of)
    BY <1>0, <2>1 DEF MailInv, Faithful, Carried, Holding
  <2>4. BoxOf(to) /\ (Undisturbed => Carried(to))
    BY <1>0, <2>1, <2>2, <2>3 DEF BoxOf, Carried, Holding, MailInv, Known
  <2> QED BY <2>1, <2>2, <2>4, RequestKeeps
<1>4. CASE SendMail(r)
  <2> DEFINE to == [mReq[r] EXCEPT !.pc = "token", !.forced = TRUE]
  <2>1. /\ q.pc = "graph" /\ UNCHANGED <<mRow, mWorld>>
        /\ \/ MailEnds(r) /\ mSent' = mSent \cup {<<q.of, q.named>>}
           \/ MailEnds(r) /\ UNCHANGED mSent
           \/ MailTo(r, to) /\ UNCHANGED mSent
    BY <1>4 DEF SendMail
  <2>2. to \in MailReq /\ to.pc = "token" /\ to.forced /\ to.of = q.of /\ to.named = q.named
    BY <1>0 DEF MailReq
  <2> HIDE DEF to
  <2>3. BoxOf(to) /\ (Undisturbed => Carried(to))
    BY <1>0, <2>1, <2>2 DEF BoxOf, Carried, Holding
  <2>4. \A s \in {<<q.of, q.named>>} : Undisturbed => s[2] = s[1] \/ s[2] = NoBox
    BY <1>0 DEF Carried
  <2>5. MailIdle \in MailReq /\ BoxOf(MailIdle) /\ Carried(MailIdle)
    BY DEF MailIdle, MailReq, BoxOf, Carried, Holding
  <2>6. CASE MailTo(r, MailIdle) /\ mSent' = mSent \cup {<<q.of, q.named>>}
    BY <2>1, <2>4, <2>5, <2>6, RequestKeeps
  <2> QED BY <2>1, <2>2, <2>3, <2>6, MailIdles, RequestKeeps DEF MailEnds, MailTo
<1> QED BY <1>1, <1>2, <1>3, <1>4

(* A stored token is taken as it is, or to be refreshed.  A forced request *)
(* finds the mailbox it had, if it finds a row.                            *)
LEMMA ReadKeeps ==
  ASSUME MailInv, NEW r \in MailReqs, ReadToken(r)
  PROVE  MailInv'
<1> DEFINE to(pc) == [mReq[r] EXCEPT !.pc = pc, !.of = mRow.of]
<1>0. mReq[r] \in MailReq /\ BoxOf(mReq[r]) /\ (Undisturbed => Carried(mReq[r]))
  BY DEF MailInv, MailTypes, Known, Faithful
<1>1. /\ mReq[r].pc = "token" /\ UNCHANGED <<mRow, mSent, mWorld>>
      /\ MailEnds(r) \/ (mRow.on /\ \E pc \in {"name", "refresh"} : MailTo(r, to(pc)))
  BY DEF ReadToken
<1>2. ASSUME mRow.on, NEW pc \in {"name", "refresh"}, MailTo(r, to(pc)) PROVE MailInv'
  <2> DEFINE q == to(pc)
  <2>1. q \in MailReq /\ q.pc = pc /\ q.of = mRow.of /\ q.named = mReq[r].named
    BY <1>0 DEF MailReq, MailInv, MailTypes, MailRow
  <2>2. MailTo(r, q)
    BY <1>2
  <2> HIDE DEF q, to
  <2>3. BoxOf(q) /\ Holding(q)
    BY <1>2, <2>1 DEF BoxOf, Holding, MailInv, Known
  <2>4. Undisturbed => Carried(q)
    BY <1>0, <1>1, <1>2, <2>1 DEF BoxOf, Carried, Holding
  <2> QED BY <1>1, <2>1, <2>2, <2>3, <2>4, RequestKeeps
<1> QED BY <1>1, <1>2, MailIdles

(* Whatever requests, disconnections and refreshes interleave.             *)
THEOREM MailInvariant == MailSpec => []MailInv
<1>1. MailInit => MailInv
  <2> SUFFICES ASSUME MailInit PROVE MailInv
    OBVIOUS
  <2>1. MailIdle \in MailReq /\ BoxOf(MailIdle) /\ Carried(MailIdle) /\ MailIdle.pc = "idle"
    BY DEF MailIdle, MailReq, BoxOf, Carried, Holding
  <2>2. mRow \in MailRow /\ ~mRow.on /\ mRow.box = NoBox
    BY DEF MailInit, NoRowYet, MailRow
  <2>3. MailTypes /\ \A r \in MailReqs : mReq[r] = MailIdle
    BY <2>1, <2>2 DEF MailInit, MailTypes
  <2>4. MailBusy = {} /\ mSent = {}
    BY <2>1, <2>3 DEF MailBusy, MailInit
  <2>5. Known
    BY <2>1, <2>2, <2>3, <2>4 DEF Known
  <2>6. Faithful
    BY <2>1, <2>2, <2>3, <2>4 DEF Faithful
  <2> QED BY <2>3, <2>5, <2>6 DEF MailInv
<1>2. MailInv /\ [MailNext]_mailVars => MailInv'
  <2> SUFFICES ASSUME MailInv, [MailNext]_mailVars PROVE MailInv'
    OBVIOUS
  <2>1. CASE SetAppConfig
    BY <2>1 DEF SetAppConfig, MailInv, MailTypes, Known, BoxOf, MailBusy, Undisturbed, Faithful,
                Carried
  <2>2. CASE ClearAppConfig \/ DisconnectMailbox \/ TokenExpires
    BY <2>2, RowKeeps DEF ClearAppConfig, DisconnectMailbox, TokenExpires
  <2>3. CASE UNCHANGED mailVars
    BY <2>3 DEF mailVars, MailInv, MailTypes, Known, BoxOf, MailBusy, Undisturbed, Faithful,
                Carried
  <2> QED
    BY <2>1, <2>2, <2>3, StartKeeps, CarryKeeps, ReadKeeps, ConnectKeeps, SaveKeeps DEF MailNext
<1> QED BY <1>1, <1>2, PTL DEF MailSpec

(* With one request at a time or one mailbox, the answer to a send names   *)
(* the mailbox the mail left from.                                         *)
THEOREM SendersNamed == MailSpec => []NamedAsSent
<1>1. MailInv => NamedAsSent
  BY DEF MailInv, Undisturbed, Faithful, NamedAsSent
<1> QED BY <1>1, MailInvariant, PTL

(* A refresh that comes back late finds nothing to write: only a completed *)
(* connection makes the row again.                                         *)
THEOREM DisconnectHolds == MailSpec => StaysDisconnected
<1>1. [MailNext]_mailVars =>
        [(~mRow.on /\ mRow'.on) => \E r \in MailReqs : mReq[r].pc = "store"]_mailVars
  <2> SUFFICES ASSUME MailNext, ~mRow.on, mRow'.on
               PROVE  \E r \in MailReqs : mReq[r].pc = "store"
    OBVIOUS
  <2>1. NoRowYet.on = FALSE
    BY DEF NoRowYet
  <2>2. ASSUME NEW r \in MailReqs, SaveRefreshed(r) PROVE FALSE
    BY <2>2 DEF SaveRefreshed, RowToSave
  <2>3. ~(SetAppConfig \/ ClearAppConfig \/ DisconnectMailbox \/ TokenExpires)
    BY <2>1 DEF SetAppConfig, ClearAppConfig, DisconnectMailbox, TokenExpires
  <2>4. PICK r \in MailReqs : CompleteConnect(r)
    BY <2>2, <2>3 DEF MailNext, Authorize, Exchange, StartSend, ReadToken, Refresh, ReadName,
                      SendMail
  <2> QED BY <2>4 DEF CompleteConnect
<1> QED BY <1>1, PTL DEF MailSpec, StaysDisconnected

-----------------------------------------------------------------------------
(* Odoo: what the proof needs of the types.  What is pulled from a lead is *)
(* whatever a revision is.                                                 *)
OdooRec   == [live : BOOLEAN, rev : Nat, wrote : Int, fresh : BOOLEAN,
              by : OdooDeals \cup {NoOdooDeal}]
JobFields == {"pc", "deal", "link", "lead", "todo", "seen", "force"}
Pushing   == {"mate", "lead", "link"}

TableTypes ==
  /\ oRec \in [Leads -> OdooRec] /\ oNow \in Nat /\ oOwed \in [OdooDeals -> Nat]
  /\ oLink = [d \in OdooDeals |-> oLink[d]]
  /\ \A d \in OdooDeals : /\ DOMAIN oLink[d] = {"lead", "pushed", "rev"}
                          /\ oLink[d].lead \in Leads \cup {NoLead}
  /\ oImp = [l \in Leads |-> oImp[l]]
  /\ \A l \in Leads : DOMAIN oImp[l] = {"row", "rev", "deal"} /\ oImp[l].row \in BOOLEAN

OdooTypes ==
  /\ TableTypes
  /\ oJob = [j \in OdooJobs |-> oJob[j]]
  /\ \A j \in OdooJobs : DOMAIN oJob[j] = JobFields /\ oJob[j].force \in BOOLEAN

(* Every lead that is named anywhere is one Odoo has made.                 *)
Exists(l) == l \in Leads /\ oRec[l].rev > 0

JobNames(q) ==
  /\ q.pc \in Pushing => q.deal \in OdooDeals /\ (q.link # NoLead => Exists(q.link))
  /\ q.pc = "link" => Exists(q.lead)
  /\ q.pc \in {"hook", "refresh"} /\ q.link # NoLead /\ q.lead \in Leads => Exists(q.lead)
  /\ q.pc = "page" => \A l \in q.todo : Exists(l)
  /\ q.pc = "promote" => q.lead \in Leads

TablesNamed ==
  /\ \A l \in Leads : ~Exists(l) => oRec[l].by = NoOdooDeal /\ ~oRec[l].live
  /\ \A l \in Leads : oImp[l].row => Exists(l)
  /\ \A d \in OdooDeals : oLink[d].lead # NoLead => Exists(oLink[d].lead)

Named == TablesNamed /\ \A j \in OdooJobs : JobNames(oJob[j])

(* While requests follow one another: a deal without a link is owed a      *)
(* lead, unless its push has just created one; a push that will create one *)
(* is owed it; the lead it created is nobody's yet; and a lead that waits  *)
(* to be promoted is no deal's, so a promotion takes no link away.         *)
Creating(q) == q.pc \in {"mate", "lead"} /\ (q.link = NoLead \/ q.force)
Created(q)  == q.pc = "link" /\ q.lead # q.link
Waiting(l)  == oImp[l].row /\ oImp[l].deal = NoOdooDeal

JobInOrder(q) ==
  /\ \A d \in OdooDeals : Creating(q) /\ d = q.deal => Made(d) < oOwed[d]
  /\ \A l \in Leads : Created(q) /\ l = q.lead => Holder(l) = {} /\ ~oImp[l].row
  /\ q.pc \in Pushing /\ q.link # NoLead => ~Waiting(q.link)
  /\ q.pc = "promote" /\ oImp[q.lead].row => oImp[q.lead].deal = NoOdooDeal

InOrder ==
  /\ \A j, k \in Busy : j = k
  /\ \A d \in OdooDeals : Made(d) <= oOwed[d]
  /\ \A d \in OdooDeals :
       oLink[d].lead = NoLead => \/ Made(d) < oOwed[d]
                                 \/ \E j \in OdooJobs : Created(oJob[j]) /\ oJob[j].deal = d
  /\ \A j \in OdooJobs : JobInOrder(oJob[j])
  /\ \A l \in Leads : Waiting(l) => Holder(l) = {}

OdooInv == OdooTypes /\ Named /\ (oCrew.calm => InOrder)

LEMMA MadeIsFinite ==
  ASSUME NEW d PROVE Made(d) \in Nat
<1>1. IsFiniteSet({l \in Leads : oRec[l].by = d})
  BY OdooAssumption, FS_Subset
<1> QED BY <1>1, FS_CardinalityType DEF Made

(* What most steps do: Odoo's records stay and nobody is made the maker of *)
(* one; a link is dropped only against a lead owed; a lead is imported     *)
(* while no deal has it.                                                   *)
RecsGrow ==
  /\ oRec' \in [Leads -> OdooRec] /\ oNow' \in Nat
  /\ \A l \in Leads : /\ oRec'[l].by = oRec[l].by /\ oRec'[l].rev >= oRec[l].rev
                      /\ oRec'[l].live => oRec'[l].rev > 0

LinksShrink ==
  /\ oLink' = [d \in OdooDeals |-> oLink'[d]] /\ oOwed' \in [OdooDeals -> Nat]
  /\ \A d \in OdooDeals :
       /\ DOMAIN oLink'[d] = {"lead", "pushed", "rev"}
       /\ \/ oLink'[d].lead = oLink[d].lead /\ oOwed'[d] >= oOwed[d]
          \/ oLink'[d].lead = NoLead /\ oOwed'[d] > oOwed[d]

ImportsFollow ==
  /\ oImp' = [l \in Leads |-> oImp'[l]]
  /\ \A l \in Leads :
       /\ DOMAIN oImp'[l] = {"row", "rev", "deal"} /\ oImp'[l].row \in BOOLEAN
       /\ oImp'[l].row => /\ oImp'[l].deal = oImp[l].deal
                          /\ oImp[l].row \/ (Exists(l) /\ Holder(l) = {})

JobMoves(j, q) == oJob' = [oJob EXCEPT ![j] = q]

LEMMA MadeSame ==
  ASSUME RecsGrow, NEW d PROVE Made(d)' = Made(d)
<1>1. {l \in Leads : oRec'[l].by = d} = {l \in Leads : oRec[l].by = d}
  BY DEF RecsGrow
<1> QED BY <1>1 DEF Made

(* What exists goes on existing, and so does what names it.                *)
LEMMA ExistsStays ==
  ASSUME OdooInv, RecsGrow
  PROVE  /\ \A l : Exists(l) => Exists(l)'
         /\ \A l \in Leads : ~Exists(l)' => oRec'[l].by = NoOdooDeal /\ ~oRec'[l].live
<1>1. \A l \in Leads : oRec[l].rev \in Nat /\ oRec'[l].rev \in Nat
  BY DEF OdooInv, OdooTypes, TableTypes, RecsGrow, OdooRec
<1> QED BY <1>1 DEF OdooInv, Named, TablesNamed, RecsGrow, Exists

LEMMA NamesStay ==
  ASSUME OdooInv, RecsGrow, LinksShrink, ImportsFollow
  PROVE  /\ \A l \in Leads : ~Exists(l)' => oRec'[l].by = NoOdooDeal /\ ~oRec'[l].live
         /\ \A l \in Leads : oImp'[l].row => Exists(l)'
         /\ \A d \in OdooDeals : oLink'[d].lead # NoLead => Exists(oLink[d].lead)'
         /\ \A d \in OdooDeals : oLink'[d].lead # NoLead => oLink'[d].lead = oLink[d].lead
<1>1. \A l \in Leads : oImp'[l].row => Exists(l)
  BY DEF OdooInv, Named, TablesNamed, ImportsFollow
<1>2. \A d \in OdooDeals : oLink'[d].lead # NoLead =>
        oLink'[d].lead = oLink[d].lead /\ Exists(oLink[d].lead)
  BY DEF OdooInv, Named, TablesNamed, LinksShrink
<1> QED BY <1>1, <1>2, ExistsStays

LEMMA TablesKeep ==
  ASSUME OdooInv, RecsGrow, LinksShrink, ImportsFollow
  PROVE  /\ TableTypes' /\ TablesNamed'
         /\ \A d \in OdooDeals : oOwed'[d] >= oOwed[d] /\ Made(d)' = Made(d)
         /\ \A l \in Leads : /\ Holder(l)' \subseteq Holder(l)
                             /\ Waiting(l)' => Waiting(l) \/ Holder(l) = {}
<1>1. TableTypes'
  BY DEF OdooInv, OdooTypes, TableTypes, RecsGrow, LinksShrink, ImportsFollow
<1>2. TablesNamed'
  BY NamesStay DEF TablesNamed
<1>3. \A d \in OdooDeals : Made(d)' = Made(d) /\ Made(d) \in Nat
  BY MadeSame, MadeIsFinite
<1>4. \A d \in OdooDeals : oOwed'[d] >= oOwed[d]
  BY DEF LinksShrink, OdooInv, OdooTypes, TableTypes
<1>5. \A l \in Leads : Holder(l)' \subseteq Holder(l)
  BY OdooAssumption DEF LinksShrink, Holder
<1>6. \A l \in Leads : Waiting(l)' => Waiting(l) \/ Holder(l) = {}
  BY DEF ImportsFollow, Waiting
<1> QED BY <1>1, <1>2, <1>3, <1>4, <1>5, <1>6

(* Steps outside the requests: in Odoo, of the admin, of the clock.        *)
LEMMA WorldKeeps ==
  ASSUME OdooInv, RecsGrow, LinksShrink, UNCHANGED <<oImp, oJob, oCrew>>
  PROVE  OdooInv'
<1>1. ImportsFollow
  BY DEF ImportsFollow, OdooInv, OdooTypes, TableTypes
<1>2. OdooTypes' /\ TablesNamed'
  BY <1>1, TablesKeep DEF OdooInv, OdooTypes
<1>3. \A j \in OdooJobs : JobNames(oJob[j])'
  BY ExistsStays DEF OdooInv, Named, JobNames
<1>4. ASSUME InOrder PROVE InOrder'
  <2>1. \A d \in OdooDeals : /\ Made(d) \in Nat /\ oOwed[d] \in Nat /\ oOwed'[d] \in Nat
                             /\ oOwed'[d] >= oOwed[d] /\ Made(d)' = Made(d)
    BY <1>1, <1>2, MadeIsFinite, TablesKeep DEF OdooInv, OdooTypes, TableTypes
  <2>2. \A j, k \in Busy' : j = k
    BY <1>4 DEF InOrder, Busy
  <2>3. \A d \in OdooDeals : Made(d)' <= oOwed'[d]
    BY <1>4, <2>1 DEF InOrder
  <2>4. \A d \in OdooDeals :
          oLink'[d].lead = NoLead => \/ Made(d)' < oOwed'[d]
                                     \/ \E j \in OdooJobs : Created(oJob[j])' /\ oJob'[j].deal = d
    <3> SUFFICES ASSUME NEW d \in OdooDeals, oLink'[d].lead = NoLead
                 PROVE  \/ Made(d)' < oOwed'[d]
                        \/ \E j \in OdooJobs : Created(oJob[j])' /\ oJob'[j].deal = d
      OBVIOUS
    <3>1. CASE oLink[d].lead = NoLead
      BY <1>4, <2>1, <3>1 DEF InOrder, Created
    <3>2. CASE oLink[d].lead # NoLead
      <4>1. oOwed'[d] > oOwed[d]
        BY <3>2 DEF LinksShrink
      <4> QED BY <1>4, <2>1, <4>1 DEF InOrder
    <3> QED BY <3>1, <3>2
  <2>5. \A j \in OdooJobs : JobInOrder(oJob[j])'
    <3> SUFFICES ASSUME NEW j \in OdooJobs PROVE JobInOrder(oJob[j])'
      OBVIOUS
    <3>1. JobInOrder(oJob[j]) /\ JobNames(oJob[j])
      BY <1>4 DEF InOrder, OdooInv, Named
    <3>2. \A d \in OdooDeals : Creating(oJob[j])' /\ d = oJob'[j].deal => Made(d)' < oOwed'[d]
      BY <2>1, <3>1 DEF JobInOrder, Creating
    <3>3. \A l \in Leads : Created(oJob[j])' /\ l = oJob'[j].lead
            => Holder(l)' = {} /\ ~oImp'[l].row
      BY <1>1, <3>1, TablesKeep DEF JobInOrder, Created
    <3> QED BY <3>1, <3>2, <3>3 DEF JobInOrder, Waiting
  <2>6. \A l \in Leads : Waiting(l)' => Holder(l)' = {}
    BY <1>1, <1>4, TablesKeep DEF InOrder
  <2> QED BY <2>2, <2>3, <2>4, <2>5, <2>6 DEF InOrder
<1> QED BY <1>2, <1>3, <1>4 DEF OdooInv, Named

(* A request moves on: what it becomes names what exists, has created      *)
(* nothing that is not recorded yet, is owed what it will create, and      *)
(* started only when nothing else went on, if requests follow one another. *)
Fits(q) ==
  /\ DOMAIN q = JobFields /\ q.force \in BOOLEAN /\ JobNames(q)
  /\ oCrew.calm =>
       /\ ~Created(q)
       /\ q.pc \in Pushing /\ q.link # NoLead => ~Waiting(q.link)
       /\ q.pc = "promote" /\ oImp[q.lead].row => oImp[q.lead].deal = NoOdooDeal

LEMMA JobKeeps ==
  ASSUME OdooInv, NEW j \in OdooJobs, NEW q, RecsGrow, LinksShrink, ImportsFollow,
         JobMoves(j, q), Fits(q), UNCHANGED oCrew,
         oCrew.calm => oJob[j].pc # "idle" \/ Busy = {},
         \A d \in OdooDeals :
           /\ oCrew.calm /\ Creating(q) /\ d = q.deal => Made(d) < oOwed'[d]
           /\ oCrew.calm /\ Created(oJob[j]) /\ d = oJob[j].deal => Made(d) < oOwed'[d],
         q.pc \in Pushing \cup {"promote"} => UNCHANGED oImp
  PROVE  OdooInv'
<1>1. /\ oJob' = [k \in OdooJobs |-> oJob'[k]]
      /\ oJob'[j] = q /\ \A k \in OdooJobs \ {j} : oJob'[k] = oJob[k]
  BY DEF JobMoves, OdooInv, OdooTypes
<1>2. OdooTypes' /\ TablesNamed'
  BY <1>1, TablesKeep DEF OdooInv, OdooTypes, Fits
<1>3. \A k \in OdooJobs : JobNames(oJob[k])'
  BY <1>1, ExistsStays DEF OdooInv, Named, JobNames, Fits
<1>4. ASSUME InOrder, oCrew.calm PROVE InOrder'
  <2>1. \A d \in OdooDeals : /\ Made(d) \in Nat /\ oOwed[d] \in Nat /\ oOwed'[d] \in Nat
                             /\ oOwed'[d] >= oOwed[d] /\ Made(d)' = Made(d)
    BY <1>2, MadeIsFinite, TablesKeep DEF OdooInv, OdooTypes, TableTypes
  <2>2. \A k \in OdooJobs \ {j} : oJob[k].pc = "idle"
    BY <1>4 DEF InOrder, Busy
  <2>3. \A k, m \in Busy' : k = m
    BY <1>1, <2>2 DEF Busy
  <2>4. \A d \in OdooDeals : Made(d)' <= oOwed'[d]
    BY <1>4, <2>1 DEF InOrder
  <2>5. \A d \in OdooDeals : oLink'[d].lead = NoLead => Made(d)' < oOwed'[d]
    <3> SUFFICES ASSUME NEW d \in OdooDeals, oLink'[d].lead = NoLead
                 PROVE  Made(d)' < oOwed'[d]
      OBVIOUS
    <3>1. CASE oLink[d].lead = NoLead
      BY <1>4, <2>1, <2>2, <3>1 DEF InOrder, Created
    <3>2. CASE oLink[d].lead # NoLead
      <4>1. oOwed'[d] > oOwed[d]
        BY <3>2 DEF LinksShrink
      <4> QED BY <1>4, <2>1, <4>1 DEF InOrder
    <3> QED BY <3>1, <3>2
  <2>6. \A k \in OdooJobs \ {j} : JobInOrder(oJob[k])'
    BY <1>1, <2>2 DEF JobInOrder, Creating, Created, Pushing
  <2>7. JobInOrder(oJob[j])'
    <3>1. \A d \in OdooDeals : Creating(oJob[j])' /\ d = oJob'[j].deal => Made(d)' < oOwed'[d]
      <4>1. oJob'[j].deal = q.deal /\ (Creating(oJob[j])' => Creating(q))
        BY <1>1 DEF Creating
      <4>2. \A d \in OdooDeals : Creating(q) /\ d = q.deal => Made(d)' < oOwed'[d]
        BY <1>4, <2>1
      <4> QED BY <4>1, <4>2
    <3>2. ~Created(oJob[j])'
      BY <1>1, <1>4 DEF Created, Fits
    <3>3. /\ q.pc \in Pushing /\ q.link # NoLead => ~Waiting(q.link)'
          /\ q.pc = "promote" /\ oImp'[q.lead].row => oImp'[q.lead].deal = NoOdooDeal
      BY <1>4 DEF Fits, Waiting
    <3> QED BY <1>1, <3>1, <3>2, <3>3 DEF JobInOrder, Waiting
  <2>8. \A l \in Leads : Waiting(l)' => Holder(l)' = {}
    BY <1>4, TablesKeep DEF InOrder
  <2> QED BY <2>3, <2>4, <2>5, <2>6, <2>7, <2>8 DEF InOrder
<1> QED BY <1>2, <1>3, <1>4 DEF OdooInv, Named

(* What a request, and what an event, does to the links and the imports.   *)
LEMMA TablesRest ==
  ASSUME OdooInv, UNCHANGED <<oLink, oImp, oOwed>>
  PROVE  LinksShrink /\ ImportsFollow
BY DEF OdooInv, OdooTypes, TableTypes, LinksShrink, ImportsFollow

LEMMA RecsRest ==
  ASSUME OdooInv, UNCHANGED <<oRec, oNow>>
  PROVE  RecsGrow
<1>1. \A l \in Leads : oRec[l].live => oRec[l].rev > 0
  BY DEF OdooInv, OdooTypes, TableTypes, Named, TablesNamed, Exists
<1> QED BY <1>1 DEF OdooInv, OdooTypes, TableTypes, RecsGrow, OdooRec

LEMMA DropLinks ==
  ASSUME OdooInv, NEW l, oLink' = LinksWithout(l), oOwed' = OwedWithout(l)
  PROVE  LinksShrink
<1>1. /\ oLink' = [d \in OdooDeals |-> IF oLink[d].lead = l THEN NoLink ELSE oLink[d]]
      /\ oOwed' = [d \in OdooDeals |-> IF oLink[d].lead = l THEN oOwed[d] + 1 ELSE oOwed[d]]
  BY DEF LinksWithout, OwedWithout
<1>2. DOMAIN NoLink = {"lead", "pushed", "rev"} /\ NoLink.lead = NoLead
  BY DEF NoLink
<1> HIDE DEF NoLink
<1>3. oOwed' \in [OdooDeals -> Nat]
  BY <1>1 DEF OdooInv, OdooTypes, TableTypes
<1>4. ASSUME NEW d \in OdooDeals
      PROVE  /\ DOMAIN oLink'[d] = {"lead", "pushed", "rev"}
             /\ \/ oLink'[d].lead = oLink[d].lead /\ oOwed'[d] >= oOwed[d]
                \/ oLink'[d].lead = NoLead /\ oOwed'[d] > oOwed[d]
  BY <1>1, <1>2 DEF OdooInv, OdooTypes, TableTypes
<1>5. oLink' = [d \in OdooDeals |-> oLink'[d]]
  BY <1>1
<1> QED BY <1>3, <1>4, <1>5 DEF LinksShrink

LEMMA UnlinkFollows ==
  ASSUME OdooInv, NEW l, HandleUnlink(l)
  PROVE  LinksShrink /\ ImportsFollow
<1>1. LinksShrink
  BY DropLinks DEF HandleUnlink
<1>2. oImp' = [oImp EXCEPT ![l] = NoImport]
  BY DEF HandleUnlink
<1>3. DOMAIN NoImport = {"row", "rev", "deal"} /\ NoImport.row = FALSE
  BY DEF NoImport
<1>4. ImportsFollow
  BY <1>2, <1>3 DEF OdooInv, OdooTypes, TableTypes, ImportsFollow
<1> QED BY <1>1, <1>4

LEMMA ReconcileFollows ==
  ASSUME OdooInv, NEW l, NEW rev, NEW wrote, Reconcile(l, rev, wrote), l \in Leads => Exists(l)
  PROVE  LinksShrink /\ ImportsFollow
<1>0. UNCHANGED oOwed
  BY DEF Reconcile
<1>1. CASE UNCHANGED <<oLink, oImp>>
  BY <1>0, <1>1, TablesRest
<1>2. ASSUME NEW d \in Holder(l), oLink' = [oLink EXCEPT ![d].rev = rev], UNCHANGED oImp
      PROVE  LinksShrink /\ ImportsFollow
  <2>1. LinksShrink
    BY <1>0, <1>2 DEF Holder, OdooInv, OdooTypes, TableTypes, LinksShrink
  <2>2. ImportsFollow
    BY <1>2 DEF OdooInv, OdooTypes, TableTypes, ImportsFollow
  <2> QED BY <2>1, <2>2
<1>3. CASE /\ Holder(l) = {} /\ UNCHANGED oLink
           /\ oImp' = [oImp EXCEPT ![l].row = TRUE, ![l].rev = rev]
  <2>1. LinksShrink
    BY <1>0, <1>3 DEF OdooInv, OdooTypes, TableTypes, LinksShrink
  <2>2. ImportsFollow
    BY <1>3 DEF OdooInv, OdooTypes, TableTypes, ImportsFollow
  <2> QED BY <2>1, <2>2
<1> QED BY <1>1, <1>2, <1>3 DEF Reconcile

(* Three steps do more.  A lead is created: it is nobody's, and the deal   *)
(* was owed it.                                                            *)
LEMMA LeadCreateKeeps ==
  ASSUME OdooInv, NEW j \in OdooJobs, NEW l \in Leads, PushCreate(j, l)
  PROVE  OdooInv'
<1>q. PICK q : q = [oJob[j] EXCEPT !.pc = "link", !.lead = l]
  OBVIOUS
<1>0. PICK e \in OdooDeals : e = oJob[j].deal
  BY DEF PushCreate, OdooInv, Named, JobNames, Pushing
<1>1. /\ oJob[j].pc = "lead" /\ (oJob[j].link = NoLead \/ oJob[j].force) /\ oRec[l].rev = 0
      /\ oRec' = [oRec EXCEPT ![l] = [live |-> TRUE, rev |-> 1, wrote |-> oNow, fresh |-> TRUE,
                                      by |-> e]]
      /\ JobMoves(j, q) /\ UNCHANGED <<oLink, oImp, oNow, oOwed, oCrew>>
  BY <1>0, <1>q DEF PushCreate, NextId, GoOn, JobMoves
<1>2. oJob[j].link # NoLead => Exists(oJob[j].link)
  BY <1>1 DEF OdooInv, Named, JobNames, Pushing
<1>3. /\ oRec[l].by = NoOdooDeal /\ ~Exists(l) /\ ~oImp[l].row /\ Holder(l) = {}
      /\ oJob[j].link # l
  BY <1>1, <1>2, OdooAssumption DEF OdooInv, Named, TablesNamed, Exists, Holder
<1>4. /\ oRec' \in [Leads -> OdooRec] /\ oRec'[l].rev = 1 /\ oRec'[l].by = e
      /\ \A m \in Leads \ {l} : oRec'[m] = oRec[m]
  BY <1>1, <1>2 DEF OdooInv, OdooTypes, TableTypes, OdooRec
<1>5. /\ DOMAIN q = JobFields /\ q.pc = "link" /\ q.lead = l /\ q.link = oJob[j].link
      /\ q.deal = e /\ q.force = oJob[j].force
  BY <1>0, <1>q DEF OdooInv, OdooTypes, JobFields
<1>6. /\ oJob' = [k \in OdooJobs |-> oJob'[k]]
      /\ oJob'[j] = q /\ \A k \in OdooJobs \ {j} : oJob'[k] = oJob[k]
  BY <1>1 DEF JobMoves, OdooInv, OdooTypes
<1>7. OdooTypes'
  BY <1>1, <1>4, <1>5, <1>6 DEF OdooInv, OdooTypes, TableTypes
<1>8. \A m : Exists(m) => Exists(m)'
  BY <1>4 DEF Exists
<1>9. Named'
  <2>1. Exists(l)'
    BY <1>4 DEF Exists
  <2>2. TablesNamed'
    BY <1>1, <1>4, <1>8, <2>1 DEF OdooInv, Named, TablesNamed, Exists
  <2>3. JobNames(q)'
    BY <1>2, <1>5, <1>8, <2>1 DEF JobNames
  <2>4. \A k \in OdooJobs : JobNames(oJob[k])'
    BY <1>6, <1>8, <2>3 DEF OdooInv, Named, JobNames
  <2> QED BY <2>2, <2>4 DEF Named
<1>10. ASSUME oCrew.calm, InOrder PROVE InOrder'
  <2>1. \A d \in OdooDeals : Made(d) \in Nat /\ oOwed[d] \in Nat
    BY MadeIsFinite DEF OdooInv, OdooTypes, TableTypes
  <2>2. \A d \in OdooDeals : Made(d)' = IF d = e THEN Made(d) + 1 ELSE Made(d)
    <3>1. ASSUME NEW d \in OdooDeals \ {e} PROVE Made(d)' = Made(d)
      <4>1. {m \in Leads : oRec'[m].by = d} = {m \in Leads : oRec[m].by = d}
        BY <1>3, <1>4, OdooAssumption
      <4> QED BY <4>1 DEF Made
    <3>2. Made(e)' = Made(e) + 1
      <4> DEFINE S == {m \in Leads : oRec[m].by = e}
      <4>1. {m \in Leads : oRec'[m].by = e} = S \cup {l} /\ l \notin S
        BY <1>3, <1>4, OdooAssumption
      <4>2. IsFiniteSet(S)
        BY OdooAssumption, FS_Subset
      <4>3. Cardinality(S \cup {l}) = Cardinality(S) + 1
        BY <4>1, <4>2, FS_AddElement
      <4> QED BY <4>1, <4>3 DEF Made
    <3> QED BY <3>1, <3>2
  <2>3. \A k \in OdooJobs \ {j} : oJob[k].pc = "idle"
    BY <1>1, <1>10 DEF InOrder, Busy
  <2>4. \A k, m \in Busy' : k = m
    BY <1>6, <2>3 DEF Busy
  <2>5. Made(e) < oOwed[e]
    BY <1>0, <1>1, <1>10 DEF InOrder, JobInOrder, Creating
  <2>6. \A d \in OdooDeals : Made(d)' <= oOwed'[d]
    BY <1>1, <1>10, <2>1, <2>2, <2>5 DEF InOrder
  <2>7. Created(q) /\ oJob'[j] = q /\ q.deal = e
    BY <1>3, <1>5, <1>6 DEF Created
  <2>8. \A d \in OdooDeals :
          oLink'[d].lead = NoLead => \/ Made(d)' < oOwed'[d]
                                     \/ \E k \in OdooJobs : Created(oJob[k])' /\ oJob'[k].deal = d
    <3> SUFFICES ASSUME NEW d \in OdooDeals \ {e}, oLink[d].lead = NoLead
                 PROVE  Made(d) < oOwed[d]
      BY <1>1, <2>2, <2>7 DEF Created
    <3> QED BY <1>0, <1>10, <2>3 DEF InOrder, Created
  <2>9. \A k \in OdooJobs \ {j} : JobInOrder(oJob[k])'
    BY <1>6, <2>3 DEF JobInOrder, Creating, Created, Pushing
  <2>10. JobInOrder(oJob[j])'
    <3>1. \A m \in Leads : m = q.lead => Holder(m)' = {} /\ ~oImp'[m].row
      BY <1>1, <1>3, <1>5 DEF Holder
    <3>2. q.link # NoLead => ~Waiting(q.link)'
      BY <1>1, <1>5, <1>10 DEF InOrder, JobInOrder, Pushing, Waiting
    <3> QED BY <1>5, <1>6, <3>1, <3>2 DEF JobInOrder, Creating, Created, Waiting
  <2>11. \A m \in Leads : Waiting(m)' => Holder(m)' = {}
    BY <1>1, <1>10 DEF InOrder, Waiting, Holder
  <2> QED BY <2>4, <2>6, <2>8, <2>9, <2>10, <2>11 DEF InOrder
<1> QED BY <1>1, <1>7, <1>9, <1>10 DEF OdooInv

(* A lead is linked, by a push or by a promotion, and the request ends.    *)
LEMMA LinkKeeps ==
  ASSUME OdooInv, NEW j \in OdooJobs, NEW d \in OdooDeals, NEW l, Exists(l),
         oLink' = [e \in OdooDeals |-> oLink'[e]], oLink'[d].lead = l,
         \A e \in OdooDeals :
           /\ DOMAIN oLink'[e] = {"lead", "pushed", "rev"}
           /\ e # d => \/ oLink'[e].lead = oLink[e].lead
                       \/ oLink'[e].lead = NoLead /\ ~oCrew.calm,
         oImp' = [m \in Leads |-> oImp'[m]],
         \A m \in Leads :
           /\ DOMAIN oImp'[m] = {"row", "rev", "deal"}
           /\ oImp'[m].row = oImp[m].row
           /\ oCrew.calm /\ Waiting(m)' => Waiting(m) /\ m # l,
         JobMoves(j, OdooIdle), UNCHANGED <<oRec, oNow, oOwed, oCrew>>,
         oJob[j].pc # "idle", oCrew.calm /\ Created(oJob[j]) => oJob[j].deal = d
  PROVE  OdooInv'
<1>1. /\ DOMAIN OdooIdle = JobFields /\ OdooIdle.force \in BOOLEAN /\ OdooIdle.pc = "idle"
      /\ JobNames(OdooIdle) /\ ~Creating(OdooIdle) /\ ~Created(OdooIdle)
  BY DEF OdooIdle, JobFields, JobNames, Creating, Created, Pushing
<1>2. /\ oJob' = [k \in OdooJobs |-> oJob'[k]]
      /\ oJob'[j] = OdooIdle /\ \A k \in OdooJobs \ {j} : oJob'[k] = oJob[k]
  BY DEF JobMoves, OdooInv, OdooTypes
<1>3. \A m : Exists(m)' <=> Exists(m)
  BY DEF Exists
<1>a. l \in Leads /\ l # NoLead
  BY OdooAssumption DEF Exists
<1>b. \A e \in OdooDeals :
        /\ oLink'[e].lead \in {oLink[e].lead, NoLead, l}
        /\ oLink'[e].lead = l => e = d \/ oLink[e].lead = l
        /\ oCrew.calm /\ e # d => oLink'[e].lead = oLink[e].lead
  BY <1>a
<1>4. OdooTypes'
  <2>1. TableTypes'
    BY <1>a, <1>b DEF OdooInv, OdooTypes, TableTypes
  <2> QED BY <1>1, <1>2, <2>1 DEF OdooInv, OdooTypes
<1>5. Named'
  <2>1. TablesNamed'
    <3>1. \A e \in OdooDeals : oLink'[e].lead # NoLead => Exists(oLink'[e].lead)
      BY <1>b DEF OdooInv, Named, TablesNamed
    <3>2. \A e \in OdooDeals : oLink'[e].lead # NoLead => Exists(oLink[e].lead)'
      BY <3>1 DEF Exists
    <3> QED BY <1>3, <3>2 DEF OdooInv, Named, TablesNamed, Exists
  <2>2. JobNames(OdooIdle)'
    BY DEF OdooIdle, JobNames, Pushing
  <2>3. \A k \in OdooJobs : JobNames(oJob[k])'
    BY <1>2, <1>3, <2>2 DEF OdooInv, Named, JobNames
  <2> QED BY <2>1, <2>3 DEF Named
<1>6. ASSUME oCrew.calm, InOrder PROVE InOrder'
  <2>1. \A e \in OdooDeals : Made(e)' = Made(e)
    BY DEF Made
  <2>2. \A k \in OdooJobs \ {j} : oJob[k].pc = "idle"
    BY <1>6 DEF InOrder, Busy
  <2>3. \A k \in OdooJobs : oJob'[k].pc = "idle"
    BY <1>1, <1>2, <2>2
  <2>4. \A k, m \in Busy' : k = m
    BY <2>3 DEF Busy
  <2>5. \A k \in OdooJobs : JobInOrder(oJob[k])'
    BY <2>3 DEF JobInOrder, Creating, Created, Pushing
  <2>6. \A e \in OdooDeals : oLink'[e].lead = NoLead => Made(e)' < oOwed'[e]
    <3> SUFFICES ASSUME NEW e \in OdooDeals, oLink'[e].lead = NoLead
                 PROVE  Made(e) < oOwed[e]
      BY <2>1
    <3>1. e # d /\ oLink[e].lead = NoLead
      BY <1>6, <1>a, <1>b
    <3> QED BY <1>6, <2>2, <3>1 DEF InOrder, Created
  <2>7. \A m \in Leads : Waiting(m)' => Holder(m)' = {}
    <3> SUFFICES ASSUME NEW m \in Leads, Waiting(m)' PROVE Holder(m)' = {}
      OBVIOUS
    <3>1. Waiting(m) /\ m # l
      BY <1>6
    <3>2. Holder(m) = {}
      BY <1>6, <3>1 DEF InOrder
    <3>3. \A e \in OdooDeals : oLink'[e].lead # m
      BY <1>6, <1>b, <3>1, <3>2 DEF Holder
    <3> QED BY <3>3 DEF Holder
  <2> QED BY <1>6, <2>1, <2>4, <2>5, <2>6, <2>7 DEF InOrder
<1> QED BY <1>4, <1>5, <1>6 DEF OdooInv

(* A request that ends without more, having created nothing it leaves      *)
(* without a link.                                                         *)
LEMMA IdleFits == Fits(OdooIdle) /\ OdooIdle.pc = "idle" /\ ~Creating(OdooIdle)
<1>1. /\ DOMAIN OdooIdle = JobFields /\ OdooIdle.force \in BOOLEAN /\ OdooIdle.pc = "idle"
      /\ JobNames(OdooIdle) /\ ~Creating(OdooIdle) /\ ~Created(OdooIdle)
  BY DEF OdooIdle, JobFields, JobNames, Creating, Created, Pushing
<1> QED BY <1>1 DEF Fits, Pushing

LEMMA JobEnds ==
  ASSUME OdooInv, NEW j \in OdooJobs, RecsGrow, LinksShrink, ImportsFollow, Done(j),
         UNCHANGED oCrew, oJob[j].pc # "idle",
         \A d \in OdooDeals :
           oCrew.calm /\ Created(oJob[j]) /\ d = oJob[j].deal => Made(d) < oOwed'[d]
  PROVE  OdooInv'
<1>1. PICK q : q = OdooIdle
  OBVIOUS
<1>2. JobMoves(j, q)
  BY <1>1 DEF Done, GoOn, JobMoves
<1>3. Fits(q) /\ q.pc = "idle" /\ ~Creating(q)
  BY <1>1, IdleFits
<1> QED BY <1>2, <1>3, JobKeeps DEF Pushing

LEMMA PushLinkKeeps ==
  ASSUME OdooInv, NEW j \in OdooJobs, PushLink(j)
  PROVE  OdooInv'
<1>0. PICK d \in OdooDeals : d = oJob[j].deal
  BY DEF PushLink, OdooInv, Named, JobNames, Pushing
<1>1. PICK l : l = oJob[j].lead
  OBVIOUS
<1>2. /\ oJob[j].pc = "link" /\ Exists(l) /\ Done(j)
      /\ oLink' = IF Holder(l) \subseteq {d} THEN PushedLink(d, l) ELSE oLink
      /\ UNCHANGED <<oRec, oImp, oNow, oOwed, oCrew>>
  BY <1>0, <1>1 DEF PushLink, OdooInv, Named, JobNames
<1>3. CASE Holder(l) \subseteq {d}
  <2>1. oLink' = [oLink EXCEPT ![d].lead = l, ![d].pushed = oNow]
    BY <1>2, <1>3 DEF PushedLink
  <2>2. /\ oLink' = [e \in OdooDeals |-> oLink'[e]] /\ oLink'[d].lead = l
        /\ \A e \in OdooDeals : /\ DOMAIN oLink'[e] = {"lead", "pushed", "rev"}
                                /\ e # d => oLink'[e].lead = oLink[e].lead
    BY <2>1 DEF OdooInv, OdooTypes, TableTypes
  <2>3. oCrew.calm => ~Waiting(l)
    <3> SUFFICES ASSUME oCrew.calm PROVE ~Waiting(l)
      OBVIOUS
    <3>1. JobInOrder(oJob[j]) /\ l \in Leads
      BY <1>2 DEF OdooInv, InOrder, Exists
    <3>2. CASE Created(oJob[j])
      BY <1>1, <3>1, <3>2 DEF JobInOrder, Waiting
    <3>3. CASE oJob[j].link = l
      BY <1>2, <3>1, <3>3, OdooAssumption DEF JobInOrder, Pushing
    <3> QED BY <1>1, <1>2, <3>2, <3>3 DEF Created
  <2>4. \A m \in Leads : oCrew.calm /\ Waiting(m)' => Waiting(m) /\ m # l
    BY <1>2, <2>3 DEF Waiting
  <2>5. JobMoves(j, OdooIdle)
    BY <1>2 DEF Done, GoOn, JobMoves
  <2>6. /\ oImp' = [m \in Leads |-> oImp'[m]]
        /\ \A m \in Leads : /\ DOMAIN oImp'[m] = {"row", "rev", "deal"}
                            /\ oImp'[m].row = oImp[m].row
    BY <1>2 DEF OdooInv, OdooTypes, TableTypes
  <2> QED BY <1>0, <1>2, <2>2, <2>4, <2>5, <2>6, LinkKeeps
<1>4. CASE ~(Holder(l) \subseteq {d})
  <2>1. oCrew.calm => ~Created(oJob[j])
    BY <1>1, <1>2, <1>4 DEF OdooInv, InOrder, JobInOrder, Exists
  <2>2. RecsGrow /\ LinksShrink /\ ImportsFollow
    BY <1>2, <1>4, RecsRest, TablesRest
  <2> QED BY <1>2, <2>1, <2>2, JobEnds
<1> QED BY <1>3, <1>4

LEMMA PromoteKeeps ==
  ASSUME OdooInv, NEW j \in OdooJobs, NEW d \in OdooDeals, PromoteWrite(j, d)
  PROVE  OdooInv'
<1>1. PICK l \in Leads : l = oJob[j].lead
  BY DEF PromoteWrite, OdooInv, Named, JobNames
<1>2. oJob[j].pc = "promote" /\ Done(j) /\ UNCHANGED <<oRec, oNow, oOwed, oCrew>>
  BY DEF PromoteWrite
<1>3. CASE oImp[l].row
  <2>1. PICK new : /\ DOMAIN new = {"lead", "pushed", "rev"} /\ new.lead = l
                   /\ oLink' = [LinksWithout(l) EXCEPT ![d] = new]
    <3>1. \A r, p : LET n == [lead |-> l, rev |-> r, pushed |-> p] IN
                      DOMAIN n = {"lead", "pushed", "rev"} /\ n.lead = l
      OBVIOUS
    <3> QED BY <1>1, <1>3, <3>1, Zenon DEF PromoteWrite
  <2>2. oImp' = [oImp EXCEPT ![l].deal = d]
    BY <1>1, <1>3 DEF PromoteWrite
  <2>3. Exists(l)
    BY <1>3 DEF OdooInv, Named, TablesNamed
  <2>4. oCrew.calm => Holder(l) = {}
    BY <1>1, <1>2, <1>3 DEF OdooInv, InOrder, JobInOrder, Waiting
  <2>5. DOMAIN NoLink = {"lead", "pushed", "rev"} /\ NoLink.lead = NoLead
    BY DEF NoLink
  <2> HIDE DEF NoLink
  <2>6. /\ oLink' = [e \in OdooDeals |-> oLink'[e]] /\ oLink'[d].lead = l
        /\ \A e \in OdooDeals : /\ DOMAIN oLink'[e] = {"lead", "pushed", "rev"}
                                /\ e # d => \/ oLink'[e].lead = oLink[e].lead
                                            \/ oLink'[e].lead = NoLead /\ ~oCrew.calm
    BY <2>1, <2>4, <2>5 DEF LinksWithout, Holder, OdooInv, OdooTypes, TableTypes
  <2>7. /\ oImp' = [m \in Leads |-> oImp'[m]]
        /\ \A m \in Leads : /\ DOMAIN oImp'[m] = {"row", "rev", "deal"}
                            /\ oImp'[m].row = oImp[m].row
                            /\ oCrew.calm /\ Waiting(m)' => Waiting(m) /\ m # l
    BY <2>2, OdooAssumption DEF Waiting, OdooInv, OdooTypes, TableTypes
  <2>8. JobMoves(j, OdooIdle) /\ ~Created(oJob[j])
    BY <1>2 DEF Done, GoOn, JobMoves, Created
  <2> QED BY <1>2, <2>3, <2>6, <2>7, <2>8, LinkKeeps
<1>4. CASE ~oImp[l].row
  <2>1. UNCHANGED <<oLink, oImp>>
    BY <1>1, <1>4 DEF PromoteWrite
  <2>2. RecsGrow /\ LinksShrink /\ ImportsFollow /\ ~Created(oJob[j])
    BY <1>2, <2>1, RecsRest, TablesRest DEF Created
  <2> QED BY <1>2, <2>2, JobEnds
<1> QED BY <1>3, <1>4

(* Odoo, the admin and the clock.                                          *)
World ==
  \/ \E l \in Leads : OdooCreates(l) \/ OdooEdits(l) \/ OdooDeletes(l) \/ DeleteRecord(l)
  \/ OdooTick \/ Connect \/ Disconnect
  \/ \E d \in OdooDeals : UnlinkEngagement(d) \/ \E j \in OdooJobs : SetOutcome(j, d)

LEMMA RecMoves ==
  ASSUME OdooInv, NEW l \in Leads, NEW r, oRec' = [oRec EXCEPT ![l] = r], UNCHANGED oNow,
         r \in OdooRec, r.by = oRec[l].by, r.rev >= oRec[l].rev, r.live => r.rev > 0
  PROVE  RecsGrow
<1>1. \A m \in Leads : oRec[m].live => oRec[m].rev > 0
  BY DEF OdooInv, Named, TablesNamed, Exists
<1>2. \A m \in Leads : oRec[m].rev \in Nat
  BY DEF OdooInv, OdooTypes, TableTypes, OdooRec
<1> QED BY <1>1, <1>2 DEF OdooInv, OdooTypes, TableTypes, RecsGrow

LEMMA RecIsWritten ==
  ASSUME OdooInv, NEW l \in Leads, oRec[l].live, UNCHANGED oNow,
         \/ oRec' = [oRec EXCEPT ![l].rev = @ + 1, ![l].wrote = oNow]
         \/ oRec' = [oRec EXCEPT ![l].live = FALSE]
  PROVE  RecsGrow
<1>1. oRec[l] \in OdooRec /\ oNow \in Nat /\ oRec[l].rev > 0
  BY DEF OdooInv, OdooTypes, TableTypes, Named, TablesNamed, Exists
<1>2. CASE oRec' = [oRec EXCEPT ![l].rev = @ + 1, ![l].wrote = oNow]
  <2>1. PICK r : r = [oRec[l] EXCEPT !.rev = @ + 1, !.wrote = oNow]
    OBVIOUS
  <2>2. r \in OdooRec /\ r.by = oRec[l].by /\ r.rev >= oRec[l].rev /\ r.rev > 0
    <3>1. ASSUME NEW o \in OdooRec, NEW p, p = [o EXCEPT !.rev = @ + 1, !.wrote = oNow], o.rev > 0
          PROVE  p \in OdooRec /\ p.by = o.by /\ p.rev >= o.rev /\ p.rev > 0
      <4>1. p.by = o.by /\ p.rev = o.rev + 1 /\ o.rev \in Nat
        BY <3>1 DEF OdooRec
      <4>2. p = [live |-> o.live, rev |-> o.rev + 1, wrote |-> oNow, fresh |-> o.fresh, by |-> o.by]
        BY <3>1 DEF OdooRec
      <4>3. o.live \in BOOLEAN /\ o.fresh \in BOOLEAN /\ o.by \in OdooDeals \cup {NoOdooDeal}
        BY DEF OdooRec
      <4>4. p \in OdooRec
        BY <1>1, <4>1, <4>2, <4>3 DEF OdooRec
      <4> QED BY <3>1, <4>1, <4>4
    <3> QED BY <1>1, <2>1, <3>1
  <2>3. oRec' = [oRec EXCEPT ![l] = r]
    BY <1>2, <2>1 DEF OdooInv, OdooTypes, TableTypes
  <2> QED BY <2>2, <2>3, RecMoves
<1>3. CASE oRec' = [oRec EXCEPT ![l].live = FALSE]
  <2>1. PICK r : r = [oRec[l] EXCEPT !.live = FALSE]
    OBVIOUS
  <2>2. r \in OdooRec /\ r.by = oRec[l].by /\ r.rev >= oRec[l].rev /\ ~r.live
    <3>1. ASSUME NEW o \in OdooRec, NEW p, p = [o EXCEPT !.live = FALSE]
          PROVE  p \in OdooRec /\ p.by = o.by /\ p.rev >= o.rev /\ ~p.live
      <4>1. p.by = o.by /\ p.rev = o.rev /\ o.rev \in Nat /\ p.live = FALSE
        BY <3>1 DEF OdooRec
      <4>2. p \in OdooRec
        BY <3>1 DEF OdooRec
      <4> QED BY <4>1, <4>2
    <3> QED BY <1>1, <2>1, <3>1
  <2>3. oRec' = [oRec EXCEPT ![l] = r]
    BY <1>3, <2>1 DEF OdooInv, OdooTypes, TableTypes
  <2> QED BY <2>2, <2>3, RecMoves
<1> QED BY <1>2, <1>3

LEMMA OdooMoves ==
  ASSUME OdooInv, World
  PROVE  OdooInv'
<1>1. ASSUME NEW l \in Leads, OdooCreates(l) PROVE OdooInv'
  <2>1. PICK r : r = [live |-> TRUE, rev |-> 1, wrote |-> oNow, fresh |-> TRUE, by |-> NoOdooDeal]
    OBVIOUS
  <2>2. /\ oRec[l].rev = 0 /\ oRec' = [oRec EXCEPT ![l] = r]
        /\ UNCHANGED <<oLink, oImp, oJob, oNow, oOwed, oCrew>>
    BY <1>1, <2>1 DEF OdooCreates, NextId
  <2>3. r \in OdooRec /\ r.by = oRec[l].by /\ r.rev >= oRec[l].rev /\ r.rev > 0
    BY <2>1, <2>2 DEF OdooRec, OdooInv, OdooTypes, TableTypes, Named, TablesNamed, Exists
  <2> QED BY <2>2, <2>3, RecMoves, TablesRest, WorldKeeps
<1>2. ASSUME NEW l \in Leads, OdooEdits(l) \/ OdooDeletes(l) PROVE OdooInv'
  <2>1. RecsGrow /\ UNCHANGED <<oLink, oImp, oJob, oOwed, oCrew>>
    BY <1>2, RecIsWritten DEF OdooEdits, OdooDeletes
  <2> QED BY <2>1, TablesRest, WorldKeeps
<1>3. ASSUME NEW l \in Leads, DeleteRecord(l) PROVE OdooInv'
  <2>1. RecsGrow /\ UNCHANGED <<oImp, oJob, oCrew>>
    BY <1>3, RecIsWritten DEF DeleteRecord
  <2>2. LinksShrink
    BY <1>3, DropLinks DEF DeleteRecord
  <2> QED BY <2>1, <2>2, WorldKeeps
<1>4. CASE OdooTick
  <2>1. oNow' \in Nat /\ UNCHANGED <<oRec, oLink, oImp, oJob, oOwed, oCrew>>
    BY <1>4 DEF OdooTick, OdooInv, OdooTypes, TableTypes
  <2>2. RecsGrow
    <3>1. \A m \in Leads : oRec[m].live => oRec[m].rev > 0
      BY DEF OdooInv, Named, TablesNamed, Exists
    <3> QED BY <2>1, <3>1 DEF OdooInv, OdooTypes, TableTypes, RecsGrow, OdooRec
  <2> QED BY <2>1, <2>2, TablesRest, WorldKeeps
<1>5. CASE Connect \/ Disconnect
  <2>1. UNCHANGED <<oRec, oLink, oImp, oJob, oNow, oOwed, oCrew>>
    BY <1>5 DEF Connect, Disconnect
  <2> QED BY <2>1, RecsRest, TablesRest, WorldKeeps
<1>6. ASSUME NEW d \in OdooDeals, UnlinkEngagement(d) PROVE OdooInv'
  <2>1. /\ oLink' = [oLink EXCEPT ![d] = NoLink] /\ UNCHANGED <<oRec, oImp, oJob, oNow, oCrew>>
        /\ oOwed' = IF oLink[d].lead = NoLead THEN oOwed ELSE [oOwed EXCEPT ![d] = @ + 1]
    BY <1>6 DEF UnlinkEngagement
  <2>2. DOMAIN NoLink = {"lead", "pushed", "rev"} /\ NoLink.lead = NoLead
    BY DEF NoLink
  <2> HIDE DEF NoLink
  <2>3. LinksShrink
    BY <2>1, <2>2 DEF LinksShrink, OdooInv, OdooTypes, TableTypes
  <2> QED BY <2>1, <2>3, RecsRest, WorldKeeps
<1>7. ASSUME NEW d \in OdooDeals, NEW j \in OdooJobs, SetOutcome(j, d) PROVE OdooInv'
  <2>1. UNCHANGED <<oLink, oImp, oJob, oOwed, oNow, oCrew>>
    BY <1>7 DEF SetOutcome
  <2>2. RecsGrow
    <3>1. PICK m : m = oLink[d].lead
      OBVIOUS
    <3>2. /\ m \in Leads
          /\ IF oRec[m].live THEN oRec' = [oRec EXCEPT ![m].rev = @ + 1, ![m].wrote = oNow]
             ELSE UNCHANGED oRec
      BY <1>7, <3>1 DEF SetOutcome, OdooInv, OdooTypes, TableTypes
    <3> QED BY <2>1, <3>2, RecIsWritten, RecsRest
  <2> QED BY <2>1, <2>2, TablesRest, WorldKeeps
<1> QED BY <1>1, <1>2, <1>3, <1>4, <1>5, <1>6, <1>7 DEF World

(* A push reads what it will need, and is owed a lead if it will make one; *)
(* then it finds the partner, and writes the lead the link named.          *)
LEMMA PushReadKeeps ==
  ASSUME OdooInv, NEW j \in OdooJobs, NEW d \in OdooDeals, NEW force \in BOOLEAN,
         PushRead(j, d, force)
  PROVE  OdooInv'
<1>1. PICK q : q = [OdooIdle EXCEPT !.pc = IF d \in oMate THEN "lead" ELSE "mate", !.deal = d,
                                    !.link = oLink[d].lead, !.force = force]
  OBVIOUS
<1>2. /\ q.pc \in {"mate", "lead"} /\ q.deal = d /\ q.link = oLink[d].lead /\ q.force = force
      /\ DOMAIN q = JobFields
  BY <1>1 DEF OdooIdle, JobFields
<1>3. /\ JobMoves(j, q) /\ UNCHANGED <<oRec, oLink, oImp, oNow, oCrew>>
      /\ oOwed' = IF force THEN [oOwed EXCEPT ![d] = @ + 1] ELSE oOwed
      /\ oJob[j].pc = "idle" /\ (oCrew.calm => Busy = {})
  BY <1>1 DEF PushRead, MayStart, GoOn, JobMoves
<1>4. RecsGrow /\ ImportsFollow
  BY <1>3, RecsRest DEF OdooInv, OdooTypes, TableTypes, ImportsFollow
<1>5. LinksShrink /\ oOwed'[d] = IF force THEN oOwed[d] + 1 ELSE oOwed[d]
  BY <1>3 DEF OdooInv, OdooTypes, TableTypes, LinksShrink
<1>6. JobNames(q)
  BY <1>2 DEF JobNames, Pushing, OdooInv, Named, TablesNamed
<1>7. oCrew.calm /\ q.link # NoLead => ~Waiting(q.link)
  <2> SUFFICES ASSUME oCrew.calm, q.link # NoLead PROVE ~Waiting(q.link)
    OBVIOUS
  <2>1. q.link \in Leads /\ d \in Holder(q.link)
    BY <1>2 DEF OdooInv, OdooTypes, TableTypes, Holder
  <2> QED BY <2>1 DEF OdooInv, InOrder
<1>8. Fits(q)
  BY <1>2, <1>6, <1>7 DEF Fits, Created, Pushing
<1>9. oCrew.calm /\ Creating(q) => Made(d) < oOwed'[d]
  <2> SUFFICES ASSUME oCrew.calm, Creating(q) PROVE Made(d) < oOwed'[d]
    OBVIOUS
  <2>1. Made(d) \in Nat /\ oOwed[d] \in Nat /\ Made(d) <= oOwed[d]
    BY MadeIsFinite DEF OdooInv, OdooTypes, TableTypes, InOrder
  <2>2. CASE force
    BY <1>5, <2>1, <2>2
  <2>3. CASE ~force
    <3>1. oLink[d].lead = NoLead
      BY <1>2, <2>3 DEF Creating
    <3>2. \A k \in OdooJobs : ~Created(oJob[k])
      BY <1>3 DEF Busy, Created
    <3>3. Made(d) < oOwed[d]
      BY <3>1, <3>2 DEF OdooInv, InOrder
    <3> QED BY <1>5, <2>3, <3>3
  <2> QED BY <2>2, <2>3
<1>10. ~Created(oJob[j])
  BY <1>3 DEF Created
<1> QED BY <1>2, <1>3, <1>4, <1>5, <1>8, <1>9, <1>10, JobKeeps

LEMMA PushMoves ==
  ASSUME OdooInv, NEW j \in OdooJobs, PushPartner(j) \/ PushWrite(j) \/ OdooCallFails(j)
  PROVE  OdooInv'
<1>0. /\ JobNames(oJob[j]) /\ (oCrew.calm => JobInOrder(oJob[j]))
      /\ DOMAIN oJob[j] = JobFields /\ oJob[j].force \in BOOLEAN
  BY DEF OdooInv, OdooTypes, Named, InOrder
<1>1. CASE PushPartner(j)
  <2>1. PICK q : q = [oJob[j] EXCEPT !.pc = "lead"]
    OBVIOUS
  <2>2. /\ q.pc = "lead" /\ q.deal = oJob[j].deal /\ q.link = oJob[j].link
        /\ q.force = oJob[j].force /\ DOMAIN q = JobFields
    BY <1>0, <2>1 DEF JobFields
  <2>3. /\ oJob[j].pc = "mate" /\ JobMoves(j, q)
        /\ UNCHANGED <<oRec, oLink, oImp, oNow, oOwed, oCrew>>
    BY <1>1, <2>1 DEF PushPartner, GoOn, JobMoves
  <2>4. JobNames(q)
    BY <1>0, <2>2, <2>3 DEF JobNames, Pushing
  <2>5. Fits(q)
    BY <1>0, <2>2, <2>3, <2>4 DEF Fits, JobInOrder, Created, Pushing
  <2>6. \A d \in OdooDeals : oCrew.calm /\ Creating(q) /\ d = q.deal => Made(d) < oOwed'[d]
    BY <1>0, <2>2, <2>3 DEF JobInOrder, Creating
  <2>7. ~Created(oJob[j])
    BY <2>3 DEF Created
  <2> QED BY <2>2, <2>3, <2>5, <2>6, <2>7, JobKeeps, RecsRest, TablesRest
<1>2. CASE PushWrite(j)
  <2>1. PICK l : l = oJob[j].link
    OBVIOUS
  <2>2. /\ oJob[j].pc = "lead" /\ l # NoLead
        /\ UNCHANGED <<oLink, oImp, oNow, oOwed, oCrew>>
    BY <1>2, <2>1 DEF PushWrite
  <2>3. Exists(l) /\ l \in Leads /\ ~Created(oJob[j])
    BY <1>0, <2>1, <2>2 DEF JobNames, Pushing, Exists, Created
  <2>4. CASE oRec[l].live
    <3>1. PICK q : q = [oJob[j] EXCEPT !.pc = "link", !.lead = l]
      OBVIOUS
    <3>2. /\ q.pc = "link" /\ q.deal = oJob[j].deal /\ q.link = l /\ q.lead = l
          /\ q.force = oJob[j].force /\ DOMAIN q = JobFields
      BY <1>0, <2>1, <3>1 DEF JobFields
    <3>3. /\ oRec' = [oRec EXCEPT ![l].rev = @ + 1, ![l].wrote = oNow]
          /\ JobMoves(j, q)
      BY <1>2, <2>1, <2>4, <3>1 DEF PushWrite, GoOn, JobMoves
    <3>4. RecsGrow
      BY <2>2, <2>3, <2>4, <3>3, RecIsWritten
    <3>5. JobNames(q)
      BY <1>0, <2>2, <2>3, <3>2 DEF JobNames, Pushing
    <3>6. Fits(q) /\ ~Creating(q)
      BY <1>0, <2>1, <2>2, <3>2, <3>5 DEF Fits, JobInOrder, Created, Creating, Pushing
    <3> QED BY <2>2, <2>3, <3>2, <3>3, <3>4, <3>6, JobKeeps, TablesRest
  <2>5. CASE ~oRec[l].live
    <3>1. Done(j) /\ UNCHANGED oRec
      BY <1>2, <2>1, <2>5 DEF PushWrite
    <3> QED BY <2>2, <2>3, <3>1, JobEnds, RecsRest, TablesRest
  <2> QED BY <2>4, <2>5
<1>3. CASE OdooCallFails(j)
  <2>1. /\ Done(j) /\ oJob[j].pc # "idle" /\ UNCHANGED <<oRec, oLink, oImp, oNow, oCrew>>
        /\ oOwed' = IF Created(oJob[j]) THEN [oOwed EXCEPT ![oJob[j].deal] = @ + 1] ELSE oOwed
    BY <1>3 DEF OdooCallFails, Created
  <2>2. ImportsFollow
    BY <2>1 DEF OdooInv, OdooTypes, TableTypes, ImportsFollow
  <2>3. oOwed' \in [OdooDeals -> Nat] /\ \A d \in OdooDeals : oOwed'[d] >= oOwed[d]
    <3>1. oOwed \in [OdooDeals -> Nat]
      BY DEF OdooInv, OdooTypes, TableTypes
    <3>2. CASE Created(oJob[j])
      <4>1. PICK e \in OdooDeals : e = oJob[j].deal
        BY <1>0, <3>2 DEF JobNames, Created, Pushing
      <4>2. oOwed' = [oOwed EXCEPT ![e] = @ + 1]
        BY <2>1, <3>2, <4>1, Zenon
      <4> QED BY <3>1, <4>2
    <3>3. CASE ~Created(oJob[j])
      BY <2>1, <3>1, <3>3
    <3> QED BY <3>2, <3>3
  <2>4. LinksShrink
    BY <2>1, <2>3 DEF OdooInv, OdooTypes, TableTypes, LinksShrink
  <2>5. ASSUME NEW d \in OdooDeals, oCrew.calm, Created(oJob[j]), d = oJob[j].deal
        PROVE  Made(d) < oOwed'[d]
    <3>1. oOwed'[d] = oOwed[d] + 1
      BY <2>1, <2>5 DEF OdooInv, OdooTypes, TableTypes
    <3>2. Made(d) \in Nat /\ oOwed[d] \in Nat /\ Made(d) <= oOwed[d]
      BY <2>5, MadeIsFinite DEF OdooInv, OdooTypes, TableTypes, InOrder
    <3> QED BY <3>1, <3>2
  <2> QED BY <2>1, <2>2, <2>4, <2>5, JobEnds, RecsRest
<1> QED BY <1>1, <1>2, <1>3

(* The requests that make no lead: they hear of events, read pages, and    *)
(* fetch what is to be promoted.                                           *)
LEMMA QuietKeeps ==
  ASSUME OdooInv, NEW j \in OdooJobs, NEW q, RecsGrow, LinksShrink, ImportsFollow,
         JobMoves(j, q), UNCHANGED oCrew,
         oJob[j].pc # "link", oCrew.calm => oJob[j].pc # "idle" \/ Busy = {},
         DOMAIN q = JobFields, q.force \in BOOLEAN, JobNames(q), q.pc \notin Pushing,
         q.pc = "promote" => ~(oImp[q.lead].row /\ oImp[q.lead].deal # NoOdooDeal)
                             /\ UNCHANGED oImp
  PROVE  OdooInv'
<1>1. ~Creating(q) /\ ~Created(q) /\ ~Created(oJob[j])
  BY DEF Creating, Created, Pushing
<1>2. Fits(q)
  BY <1>1 DEF Fits
<1> QED BY <1>1, <1>2, JobKeeps

(* An event, or a page, at a time.                                         *)
Hooks(j) ==
  \/ HookPass(j) \/ HookUnlink(j) \/ HookFetch(j) \/ HookApply(j) \/ HookDone(j)

LEMMA HooksKeep ==
  ASSUME OdooInv, NEW j \in OdooJobs, Hooks(j)
  PROVE  OdooInv'
<1>0. /\ JobNames(oJob[j]) /\ DOMAIN oJob[j] = JobFields /\ oJob[j].force \in BOOLEAN
      /\ \A l \in Leads : oRec[l].live => Exists(l)
  BY DEF OdooInv, OdooTypes, Named, TablesNamed
<1>1. CASE HookPass(j)
  <2>1. UNCHANGED <<oRec, oLink, oImp, oNow, oOwed, oCrew>> /\ oJob[j].pc = "idle"
        /\ (oCrew.calm => Busy = {})
    BY <1>1 DEF HookPass, MayStart
  <2>2. PICK q : q = [OdooIdle EXCEPT !.pc = "hooks", !.todo = Pending]
    OBVIOUS
  <2>3. JobMoves(j, q) \/ UNCHANGED oJob
    BY <1>1, <2>2 DEF HookPass, GoOn, JobMoves
  <2>4. DOMAIN q = JobFields /\ q.force \in BOOLEAN /\ q.pc = "hooks"
    BY <2>2 DEF OdooIdle, JobFields
  <2>5. JobNames(q)
    BY <2>4 DEF JobNames, Pushing
  <2>6. CASE UNCHANGED oJob
    BY <2>1, <2>6, WorldKeeps, RecsRest, TablesRest
  <2> QED BY <2>1, <2>3, <2>4, <2>5, <2>6, QuietKeeps, RecsRest, TablesRest DEF Pushing
<1>2. CASE HookUnlink(j)
  <2>1. PICK n : n = NextHook(j)
    OBVIOUS
  <2>2. PICK q : q = [oJob[j] EXCEPT !.todo = @ \ {n}]
    OBVIOUS
  <2>3. /\ oJob[j].pc = "hooks" /\ HandleUnlink(oHook[n].lead) /\ JobMoves(j, q)
        /\ UNCHANGED <<oRec, oNow, oCrew>>
    BY <1>2, <2>1, <2>2 DEF HookUnlink, GoOn, JobMoves
  <2>4. DOMAIN q = JobFields /\ q.force \in BOOLEAN /\ q.pc = "hooks"
    BY <1>0, <2>2, <2>3 DEF JobFields
  <2>5. JobNames(q)
    BY <2>4 DEF JobNames, Pushing
  <2>6. LinksShrink /\ ImportsFollow
    BY <2>3, UnlinkFollows
  <2> QED BY <2>3, <2>4, <2>5, <2>6, QuietKeeps, RecsRest DEF Pushing
<1>3. CASE HookFetch(j)
  <2>1. PICK l : l = oHook[NextHook(j)].lead
    OBVIOUS
  <2>2. PICK q : q = [oJob[j] EXCEPT !.pc = "hook", !.lead = l,
                        !.link = IF oRec[l].live /\ Parsed({l}) # {} THEN l ELSE NoLead,
                        !.seen = <<oRec[l].rev, oRec[l].wrote>>]
    OBVIOUS
  <2>3. /\ oJob[j].pc = "hooks" /\ JobMoves(j, q)
        /\ UNCHANGED <<oRec, oLink, oImp, oNow, oOwed, oCrew>>
    BY <1>3, <2>1, <2>2 DEF HookFetch, GoOn, JobMoves
  <2>4. /\ DOMAIN q = JobFields /\ q.force \in BOOLEAN /\ q.pc = "hook" /\ q.lead = l
        /\ q.link # NoLead => oRec[l].live
    BY <1>0, <2>2 DEF JobFields
  <2>5. JobNames(q)
    BY <1>0, <2>4 DEF JobNames, Pushing
  <2> QED BY <2>3, <2>4, <2>5, QuietKeeps, RecsRest, TablesRest DEF Pushing
<1>4. CASE HookApply(j)
  <2>1. PICK n : n = NextHook(j)
    OBVIOUS
  <2>2. PICK q : q = [oJob[j] EXCEPT !.pc = "hooks", !.todo = @ \ {n}, !.seen = Never]
    OBVIOUS
  <2>3. /\ oJob[j].pc = "hook" /\ JobMoves(j, q) /\ UNCHANGED <<oRec, oNow, oCrew>>
        /\ IF oJob[j].link = NoLead THEN HandleUnlink(oJob[j].lead)
           ELSE Reconcile(oJob[j].lead, oJob[j].seen[1], oJob[j].seen[2])
    BY <1>4, <2>1, <2>2 DEF HookApply, GoOn, JobMoves
  <2>4. DOMAIN q = JobFields /\ q.force \in BOOLEAN /\ q.pc = "hooks"
    BY <1>0, <2>2 DEF JobFields
  <2>5. JobNames(q)
    BY <2>4 DEF JobNames, Pushing
  <2>6. LinksShrink /\ ImportsFollow
    BY <1>0, <2>3, UnlinkFollows, ReconcileFollows DEF JobNames
  <2> QED BY <2>3, <2>4, <2>5, <2>6, QuietKeeps, RecsRest DEF Pushing
<1>5. CASE HookDone(j)
  <2>1. /\ Done(j) /\ UNCHANGED <<oRec, oLink, oImp, oNow, oOwed, oCrew>> /\ oJob[j].pc = "hooks"
    BY <1>5 DEF HookDone
  <2>2. ~Created(oJob[j])
    BY <2>1 DEF Created
  <2> QED BY <2>1, <2>2, JobEnds, RecsRest, TablesRest
<1> QED BY <1>1, <1>2, <1>3, <1>4, <1>5 DEF Hooks

(* The poll, the backfill and the refresh of one lead.                     *)
Polls(j) ==
  \/ \E all \in BOOLEAN : PollFetch(j, all)
  \/ PollApply(j) \/ RefreshApply(j)

LEMMA PollsKeep ==
  ASSUME OdooInv, NEW j \in OdooJobs, Polls(j)
  PROVE  OdooInv'
<1>0. /\ JobNames(oJob[j]) /\ DOMAIN oJob[j] = JobFields /\ oJob[j].force \in BOOLEAN
      /\ \A l \in Leads : oRec[l].live => Exists(l)
  BY DEF OdooInv, OdooTypes, Named, TablesNamed
<1>1. ASSUME NEW all \in BOOLEAN, PollFetch(j, all) PROVE OdooInv'
  <2>1. PICK found : found = {l \in Leads : oRec[l].live /\ (all \/ oRec[l].fresh)}
    OBVIOUS
  <2>2. PICK q : q = [OdooIdle EXCEPT !.pc = "page", !.todo = Parsed(found),
                        !.seen = [l \in Leads |-> <<oRec[l].rev, oRec[l].wrote>>]]
    OBVIOUS
  <2>3. /\ JobMoves(j, q) /\ UNCHANGED <<oLink, oImp, oNow, oOwed, oCrew>>
        /\ oJob[j].pc = "idle" /\ (oCrew.calm => Busy = {})
        /\ \/ UNCHANGED oRec
           \/ oRec' = [l \in Leads |-> IF l \in found THEN [oRec[l] EXCEPT !.fresh = FALSE]
                                                     ELSE oRec[l]]
    BY <1>1, <2>1, <2>2 DEF PollFetch, MayStart, GoOn, JobMoves
  <2>4. RecsGrow
    <3>1. CASE UNCHANGED oRec
      BY <2>3, <3>1, RecsRest
    <3>2. CASE oRec' = [l \in Leads |-> IF l \in found THEN [oRec[l] EXCEPT !.fresh = FALSE]
                                                      ELSE oRec[l]]
      <4>1. ASSUME NEW o \in OdooRec, NEW p, p = [o EXCEPT !.fresh = FALSE]
            PROVE  p \in OdooRec /\ p.by = o.by /\ p.rev = o.rev /\ p.live = o.live
        <5>1. p.by = o.by /\ p.rev = o.rev /\ p.live = o.live
          BY <4>1 DEF OdooRec
        <5>2. p \in OdooRec
          BY <4>1 DEF OdooRec
        <5> QED BY <5>1, <5>2
      <4>2. \A l \in Leads : oRec[l] \in OdooRec /\ (oRec[l].live => oRec[l].rev > 0)
        BY <1>0 DEF OdooInv, OdooTypes, TableTypes, Exists
      <4>3. \A l \in Leads : /\ oRec'[l] \in OdooRec /\ oRec'[l].by = oRec[l].by
                             /\ oRec'[l].rev = oRec[l].rev /\ oRec'[l].live = oRec[l].live
        BY <3>2, <4>1, <4>2
      <4>4. \A l \in Leads : oRec[l].rev \in Nat
        BY <4>2 DEF OdooRec
      <4>5. oRec' \in [Leads -> OdooRec] /\ oNow' \in Nat
        BY <2>3, <3>2, <4>3 DEF OdooInv, OdooTypes, TableTypes
      <4> QED BY <4>2, <4>3, <4>4, <4>5 DEF RecsGrow
    <3> QED BY <2>3, <3>1, <3>2
  <2>5. DOMAIN q = JobFields /\ q.force \in BOOLEAN /\ q.pc = "page" /\ q.todo \subseteq found
    BY <2>2 DEF OdooIdle, JobFields, Parsed
  <2>6. JobNames(q)
    BY <1>0, <2>1, <2>5 DEF JobNames, Pushing
  <2> QED BY <2>3, <2>4, <2>5, <2>6, QuietKeeps, TablesRest DEF Pushing
<1>2. CASE PollApply(j)
  <2>1. oJob[j].pc = "page" /\ UNCHANGED <<oRec, oNow, oCrew>> /\ ~Created(oJob[j])
    BY <1>2 DEF PollApply, Created
  <2>2. CASE oJob[j].todo = {}
    <3>1. Done(j) /\ UNCHANGED <<oLink, oImp, oOwed>>
      BY <1>2, <2>2 DEF PollApply
    <3> QED BY <2>1, <3>1, JobEnds, RecsRest, TablesRest
  <2>3. CASE oJob[j].todo # {}
    <3>1. PICK l \in oJob[j].todo :
            /\ Reconcile(l, oJob[j].seen[l][1], oJob[j].seen[l][2])
            /\ GoOn(j, [oJob[j] EXCEPT !.todo = @ \ {l}])
      BY <1>2, <2>3 DEF PollApply
    <3>2. PICK q : q = [oJob[j] EXCEPT !.todo = @ \ {l}]
      OBVIOUS
    <3>3. /\ DOMAIN q = JobFields /\ q.force \in BOOLEAN /\ q.pc = "page"
          /\ q.todo \subseteq oJob[j].todo
      BY <1>0, <2>1, <3>2 DEF JobFields
    <3>4. JobMoves(j, q)
      BY <3>1, <3>2 DEF GoOn, JobMoves
    <3>5. JobNames(q) /\ Exists(l)
      BY <1>0, <2>1, <3>3 DEF JobNames, Pushing
    <3>6. LinksShrink /\ ImportsFollow
      BY <3>1, <3>5, ReconcileFollows
    <3> QED BY <2>1, <3>3, <3>4, <3>5, <3>6, QuietKeeps, RecsRest DEF Pushing
  <2> QED BY <2>2, <2>3
<1>3. CASE RefreshApply(j)
  <2>1. /\ oJob[j].pc = "refresh" /\ Done(j) /\ UNCHANGED <<oRec, oNow, oCrew>>
        /\ IF oJob[j].link = NoLead THEN HandleUnlink(oJob[j].lead)
           ELSE Reconcile(oJob[j].lead, oJob[j].seen[1], oJob[j].seen[2])
    BY <1>3 DEF RefreshApply
  <2>2. LinksShrink /\ ImportsFollow /\ ~Created(oJob[j])
    BY <1>0, <2>1, UnlinkFollows, ReconcileFollows DEF JobNames, Created
  <2> QED BY <2>1, <2>2, JobEnds, RecsRest
<1> QED BY <1>1, <1>2, <1>3 DEF Polls

LEMMA FetchKeeps ==
  ASSUME OdooInv, NEW j \in OdooJobs, NEW l \in Leads, RefreshFetch(j, l) \/ PromoteRead(j, l)
  PROVE  OdooInv'
<1>0. Exists(l) <=> oRec[l].rev > 0
  BY DEF Exists
<1>1. CASE RefreshFetch(j, l)
  <2>1. PICK q : q = [OdooIdle EXCEPT !.pc = "refresh", !.lead = l,
                        !.link = IF oRec[l].live /\ Parsed({l}) # {} THEN l ELSE NoLead,
                        !.seen = <<oRec[l].rev, oRec[l].wrote>>]
    OBVIOUS
  <2>2. /\ JobMoves(j, q) /\ UNCHANGED <<oRec, oLink, oImp, oNow, oOwed, oCrew>>
        /\ oJob[j].pc = "idle" /\ (oCrew.calm => Busy = {}) /\ oImp[l].row
    BY <1>1, <2>1 DEF RefreshFetch, MayStart, GoOn, JobMoves
  <2>3. DOMAIN q = JobFields /\ q.force \in BOOLEAN /\ q.pc = "refresh" /\ q.lead = l
    BY <2>1 DEF OdooIdle, JobFields
  <2>4. Exists(l)
    BY <2>2 DEF OdooInv, Named, TablesNamed
  <2>5. JobNames(q)
    BY <2>3, <2>4 DEF JobNames, Pushing
  <2> QED BY <2>2, <2>3, <2>5, QuietKeeps, RecsRest, TablesRest DEF Pushing
<1>2. CASE PromoteRead(j, l)
  <2>1. PICK q : q = [OdooIdle EXCEPT !.pc = "promote", !.lead = l, !.seen = oImp[l].rev]
    OBVIOUS
  <2>2. /\ JobMoves(j, q) /\ UNCHANGED <<oRec, oLink, oImp, oNow, oOwed, oCrew>>
        /\ oJob[j].pc = "idle" /\ (oCrew.calm => Busy = {}) /\ oImp[l].deal = NoOdooDeal
    BY <1>2, <2>1 DEF PromoteRead, MayStart, GoOn, JobMoves
  <2>3. DOMAIN q = JobFields /\ q.force \in BOOLEAN /\ q.pc = "promote" /\ q.lead = l
    BY <2>1 DEF OdooIdle, JobFields
  <2>4. JobNames(q)
    BY <2>3 DEF JobNames, Pushing
  <2> QED BY <2>2, <2>3, <2>4, QuietKeeps, RecsRest, TablesRest DEF Pushing
<1> QED BY <1>1, <1>2

(* Whatever pushes, promotions, polls, events and edits in Odoo            *)
(* interleave.                                                             *)
THEOREM OdooInvariant == OdooSpec => []OdooInv
<1>1. OdooInit => OdooInv
  <2> SUFFICES ASSUME OdooInit PROVE OdooInv
    OBVIOUS
  <2>1. NoRec \in OdooRec /\ NoRec.rev = 0 /\ ~NoRec.live /\ NoRec.by = NoOdooDeal
    BY DEF NoRec, OdooRec, Never
  <2>2. DOMAIN NoLink = {"lead", "pushed", "rev"} /\ NoLink.lead = NoLead
    BY DEF NoLink
  <2>3. DOMAIN NoImport = {"row", "rev", "deal"} /\ NoImport.row = FALSE
    BY DEF NoImport
  <2> HIDE DEF NoRec, NoLink, NoImport
  <2>4. TableTypes
    BY <2>1, <2>2, <2>3 DEF OdooInit, TableTypes
  <2>5. /\ oJob = [j \in OdooJobs |-> OdooIdle] /\ DOMAIN OdooIdle = JobFields
        /\ OdooIdle.force \in BOOLEAN /\ JobNames(OdooIdle) /\ OdooIdle.pc = "idle"
    BY IdleFits DEF OdooInit, Fits
  <2>6. OdooTypes /\ \A j \in OdooJobs : oJob[j] = OdooIdle
    BY <2>4, <2>5 DEF OdooTypes
  <2>7. /\ \A l \in Leads : oRec[l] = NoRec /\ oImp[l] = NoImport
        /\ \A d \in OdooDeals : oLink[d] = NoLink /\ oOwed[d] = 1
    BY DEF OdooInit
  <2>8. Named
    BY <2>1, <2>2, <2>3, <2>5, <2>6, <2>7 DEF Named, TablesNamed
  <2>9. \A d \in OdooDeals : Made(d) = 0
    <3> SUFFICES ASSUME NEW d \in OdooDeals PROVE Made(d) = 0
      OBVIOUS
    <3>1. {l \in Leads : oRec[l].by = d} = {}
      BY <2>1, <2>7, OdooAssumption
    <3> QED BY <3>1, FS_EmptySet DEF Made
  <2>10. \A j \in OdooJobs : JobInOrder(oJob[j])
    BY <2>5, <2>6 DEF JobInOrder, Creating, Created, Pushing
  <2>11. Busy = {} /\ \A l \in Leads : ~Waiting(l)
    BY <2>3, <2>5, <2>6, <2>7 DEF Busy, Waiting
  <2>12. InOrder
    BY <2>7, <2>9, <2>10, <2>11 DEF InOrder
  <2> QED BY <2>6, <2>8, <2>12 DEF OdooInv
<1>2. OdooInv /\ [OdooNext]_odooVars => OdooInv'
  <2> SUFFICES ASSUME OdooInv, [OdooNext]_odooVars PROVE OdooInv'
    OBVIOUS
  <2>1. CASE UNCHANGED odooVars
    BY <2>1, WorldKeeps, RecsRest, TablesRest DEF odooVars
  <2>2. ASSUME NEW j \in OdooJobs, NEW d \in OdooDeals, AutoSync(j, d) PROVE OdooInv'
    BY <2>2, PushReadKeeps DEF AutoSync
  <2>3. CASE OdooNext
    BY <2>2, <2>3, OdooMoves, PushReadKeeps, PushMoves, LeadCreateKeeps, PushLinkKeeps,
       PromoteKeeps, HooksKeep, PollsKeep, FetchKeeps DEF OdooNext, World, Hooks, Polls
  <2> QED BY <2>1, <2>3
<1> QED BY <1>1, <1>2, PTL DEF OdooSpec

(* As long as requests follow one another, an opportunity gets no lead it  *)
(* is not owed.                                                            *)
THEOREM LeadsOwed == OdooSpec => []OneLeadPerDeal
<1>1. OdooInv => OneLeadPerDeal
  BY DEF OdooInv, InOrder, OneLeadPerDeal
<1> QED BY <1>1, OdooInvariant, PTL

-----------------------------------------------------------------------------
(* The copies of what Odoo holds.  In a world that reports every change,   *)
(* with one request at a time, a copy is true or an event is on its way.   *)
Mirrored == oCrew.calm /\ oCrew.sure /\ ~oCrew.admin

HookRow == [lead : Leads, kind : {"write", "unlink"},
            st : {"pending", "processed", "ignored", "failed"}]
HookTypes == oHook \in Seq(HookRow)

Reported(l, besides) ==
  \E n \in DOMAIN oHook : oHook[n].st = "pending" /\ oHook[n].lead = l /\ n \notin besides

AsInOdoo(l) ==
  /\ ~oRec[l].live => ~oImp[l].row /\ Holder(l) = {}
  /\ (oRec[l].live /\ oImp[l].row /\ Holder(l) = {}) => oImp[l].rev = oRec[l].rev
  /\ \A d \in Holder(l) : oLink[d].rev # oRec[l].rev => oLink[d].pushed = oRec[l].wrote

DealRows == /\ oDeal = [d \in OdooDeals |-> oDeal[d]]
            /\ \A d \in OdooDeals : DOMAIN oDeal[d] = {"st", "rev"}

CopiesTrue ==
  /\ DealRows /\ HookTypes /\ oConn.on
  /\ \A l \in Leads : AsInOdoo(l) \/ Reported(l, {})
  /\ \A l \in Leads : \A d, e \in Holder(l) : d = e
  /\ \A d \in OdooDeals : oDeal[d].st = "none" => oLink[d].lead = NoLead

(* What a request holds of a lead is so, or another event is on its way.   *)
Seen(l, seen) == seen[1] = oRec[l].rev /\ seen[2] = oRec[l].wrote
JobTrue(q) ==
  /\ q.pc \in Pushing =>
       ~q.force /\ q.deal \in OdooDeals /\ oLink[q.deal].lead = q.link /\ oDeal[q.deal].st # "none"
  /\ q.pc = "link" => q.link \in {NoLead, q.lead} /\ q.lead \in Leads /\ Reported(q.lead, {})
  /\ q.pc \in {"hooks", "hook"} => q.todo \subseteq Pending
  /\ q.pc = "hook" =>
       /\ q.todo # {} /\ q.lead = oHook[Least(q.todo)].lead
       /\ q.link # NoLead => \/ Reported(q.lead, {Least(q.todo)})
                             \/ (oRec[q.lead].live /\ Seen(q.lead, q.seen))
  /\ q.pc = "page" => \A l \in q.todo : /\ l \in Leads
                                        /\ Reported(l, {}) \/ (oRec[l].live /\ Seen(l, q.seen[l]))
  /\ q.pc = "promote" => q.seen = oImp[q.lead].rev
  /\ q.pc # "refresh"

MirrorInv == Mirrored => CopiesTrue /\ \A j \in OdooJobs : JobTrue(oJob[j])

-----------------------------------------------------------------------------
(* The events stay, but for one that arrives or one that is handled.       *)
HooksStay == HookTypes' /\ \A n \in DOMAIN oHook : n \in DOMAIN oHook' /\ oHook'[n] = oHook[n]
RecAlike(l) == /\ oRec'[l].live = oRec[l].live /\ oRec'[l].rev = oRec[l].rev
               /\ oRec'[l].wrote = oRec[l].wrote
Announced(l) == Reported(l, {})' /\ \A n \in DOMAIN oHook : Reported(l, {n})'
RecsStep == /\ HooksStay /\ \A l \in Leads : RecAlike(l) \/ Announced(l)
            /\ UNCHANGED <<oLink, oImp, oDeal, oConn>>

LEMMA HooksAre ==
  ASSUME HookTypes
  PROVE  /\ DOMAIN oHook = 1 .. Len(oHook) /\ Len(oHook) \in Nat
         /\ \A n \in DOMAIN oHook : oHook[n] \in HookRow
         /\ \A T \in SUBSET Pending : T # {} => Least(T) \in T /\ Least(T) \in DOMAIN oHook
<1>1. /\ DOMAIN oHook = 1 .. Len(oHook) /\ Len(oHook) \in Nat
      /\ \A n \in DOMAIN oHook : oHook[n] \in HookRow
  BY DEF HookTypes
<1>2. Pending \subseteq Nat /\ Pending \subseteq DOMAIN oHook
  BY <1>1 DEF Pending
<1> QED BY <1>1, <1>2, LeastIn

LEMMA ReportStep ==
  ASSUME HookTypes, oCrew.sure, NEW m \in Leads, NEW kind \in {"write", "unlink"},
         Report(m, kind), \A l \in Leads \ {m} : oRec'[l] = oRec[l],
         UNCHANGED <<oLink, oImp, oDeal, oConn>>
  PROVE  RecsStep /\ Announced(m)
<1>1. PICK e : e = [lead |-> m, kind |-> kind, st |-> "pending"]
  OBVIOUS
<1>2. oHook' = Append(oHook, e) /\ e \in HookRow /\ e.st = "pending" /\ e.lead = m
  BY <1>1 DEF Report, HookRow
<1>3. PICK k : k = Len(oHook) + 1
  OBVIOUS
<1>4. /\ HookTypes' /\ k \in DOMAIN oHook' /\ oHook'[k] = e /\ k \notin DOMAIN oHook
      /\ \A n \in DOMAIN oHook : n \in DOMAIN oHook' /\ oHook'[n] = oHook[n]
  BY <1>2, <1>3, HooksAre DEF HookTypes
<1>5. Announced(m)
  BY <1>2, <1>4 DEF Announced, Reported
<1> QED BY <1>4, <1>5 DEF RecsStep, HooksStay, RecAlike

LEMMA QuietStep ==
  ASSUME HookTypes, \A l \in Leads : RecAlike(l),
         UNCHANGED <<oHook, oLink, oImp, oDeal, oConn>>
  PROVE  RecsStep
BY DEF RecsStep, HooksStay, HookTypes

LEMMA HooksStaying ==
  ASSUME HooksStay
  PROVE  Pending \subseteq Pending' /\ \A l, b : Reported(l, b) => Reported(l, b)'
BY DEF HooksStay, Pending, Reported

(* A copy changes with its record, its import and its links.               *)
TablesAlike(l) ==
  /\ oImp'[l].row = oImp[l].row /\ oImp'[l].rev = oImp[l].rev /\ Holder(l)' = Holder(l)
  /\ \A d \in Holder(l) : oLink'[d].rev = oLink[d].rev /\ oLink'[d].pushed = oLink[d].pushed

LEMMA AlikeTrue ==
  ASSUME NEW l, RecAlike(l), TablesAlike(l), AsInOdoo(l)
  PROVE  AsInOdoo(l)'
BY DEF RecAlike, TablesAlike, AsInOdoo

LEMMA RecsStepKeeps ==
  ASSUME CopiesTrue, RecsStep
  PROVE  CopiesTrue' /\ \A q : JobTrue(q) => JobTrue(q)'
<1>1. /\ UNCHANGED <<oLink, oImp, oDeal, oConn>> /\ HooksStay /\ HookTypes'
      /\ \A l \in Leads : RecAlike(l) \/ Announced(l)
      /\ Pending \subseteq Pending' /\ \A l, b : Reported(l, b) => Reported(l, b)'
  BY HooksStaying DEF RecsStep, HooksStay
<1>2. \A l \in Leads : Holder(l)' = Holder(l) /\ TablesAlike(l)
  BY <1>1 DEF Holder, TablesAlike
<1>3. \A l \in Leads : AsInOdoo(l)' \/ Reported(l, {})'
  BY <1>1, <1>2, AlikeTrue DEF CopiesTrue, Announced
<1>4. CopiesTrue'
  BY <1>1, <1>2, <1>3 DEF CopiesTrue, DealRows
<1>5. ASSUME NEW q, JobTrue(q) PROVE JobTrue(q)'
  <2>1. q.pc \in Pushing => /\ ~q.force /\ q.deal \in OdooDeals /\ oLink'[q.deal].lead = q.link
                            /\ oDeal'[q.deal].st # "none"
    BY <1>1, <1>5 DEF JobTrue
  <2>2. q.pc = "link" => q.link \in {NoLead, q.lead} /\ q.lead \in Leads /\ Reported(q.lead, {})'
    BY <1>1, <1>5 DEF JobTrue
  <2>3. q.pc \in {"hooks", "hook"} => q.todo \subseteq Pending'
    BY <1>1, <1>5 DEF JobTrue
  <2>4. ASSUME q.pc = "hook"
        PROVE  /\ q.todo # {} /\ q.lead = oHook'[Least(q.todo)].lead
               /\ q.link # NoLead => \/ Reported(q.lead, {Least(q.todo)})'
                                     \/ (oRec'[q.lead].live /\ Seen(q.lead, q.seen)')
    <3>1. PICK n : n = Least(q.todo)
      OBVIOUS
    <3>2. q.todo \subseteq Pending /\ q.todo # {} /\ q.lead = oHook[n].lead
      BY <1>5, <2>4, <3>1 DEF JobTrue
    <3>3. n \in DOMAIN oHook /\ oHook'[n] = oHook[n] /\ q.lead \in Leads
      BY <1>1, <3>1, <3>2, HooksAre DEF CopiesTrue, HooksStay, HookRow
    <3>4. q.link # NoLead => Reported(q.lead, {n}) \/ (oRec[q.lead].live /\ Seen(q.lead, q.seen))
      BY <1>5, <2>4, <3>1 DEF JobTrue
    <3>5. q.link # NoLead => Reported(q.lead, {n})' \/ (oRec'[q.lead].live /\ Seen(q.lead, q.seen)')
      <4>1. CASE RecAlike(q.lead)
        <5>1. oRec[q.lead].live /\ Seen(q.lead, q.seen)
                => oRec'[q.lead].live /\ Seen(q.lead, q.seen)'
          BY <4>1 DEF RecAlike, Seen
        <5>2. Reported(q.lead, {n}) => Reported(q.lead, {n})'
          BY <1>1
        <5> QED BY <3>4, <5>1, <5>2
      <4>2. CASE Announced(q.lead)
        BY <3>3, <4>2 DEF Announced
      <4> QED BY <1>1, <3>3, <4>1, <4>2
    <3> QED BY <3>1, <3>2, <3>3, <3>5
  <2>5. ASSUME q.pc = "page", NEW l \in q.todo
        PROVE  l \in Leads /\ (Reported(l, {})' \/ (oRec'[l].live /\ Seen(l, q.seen[l])'))
    <3>1. l \in Leads /\ (Reported(l, {}) \/ (oRec[l].live /\ Seen(l, q.seen[l])))
      BY <1>5, <2>5 DEF JobTrue
    <3>2. CASE RecAlike(l)
      <4>1. PICK s : s = q.seen[l]
        OBVIOUS
      <4>2. oRec[l].live /\ Seen(l, s) => oRec'[l].live /\ Seen(l, s)'
        BY <3>2 DEF RecAlike, Seen
      <4>3. Reported(l, {}) => Reported(l, {})'
        BY <1>1
      <4> QED BY <3>1, <4>1, <4>2, <4>3
    <3>3. CASE Announced(l)
      BY <3>1, <3>3 DEF Announced
    <3> QED BY <1>1, <3>1, <3>2, <3>3
  <2>6. /\ q.pc = "promote" => q.seen = oImp'[q.lead].rev
        /\ q.pc # "refresh"
    BY <1>1, <1>5 DEF JobTrue
  <2> QED BY <2>1, <2>2, <2>3, <2>4, <2>5, <2>6 DEF JobTrue
<1> QED BY <1>4, <1>5

-----------------------------------------------------------------------------
(* While requests follow one another, the one that moves is the only one.  *)
Held == CopiesTrue /\ \A j \in OdooJobs : JobTrue(oJob[j])
MayMove(j) == oJob[j].pc # "idle" \/ Busy = {}

LEMMA RestingTrue ==
  ASSUME NEW q, q.pc = "idle"
  PROVE  JobTrue(q)'
BY DEF JobTrue, Pushing

LEMMA JobStep ==
  ASSUME OdooInv, Mirrored, NEW j \in OdooJobs, NEW q, JobMoves(j, q), MayMove(j), JobTrue(q)',
         CopiesTrue'
  PROVE  Held'
<1>1. oJob' = [k \in OdooJobs |-> oJob'[k]] /\ oJob'[j] = q
      /\ \A k \in OdooJobs \ {j} : oJob'[k] = oJob[k]
  BY DEF OdooInv, OdooTypes, JobMoves
<1>2. \A k \in OdooJobs \ {j} : oJob[k].pc = "idle"
  BY DEF OdooInv, InOrder, Busy, MayMove, Mirrored
<1>3. ASSUME NEW k \in OdooJobs PROVE JobTrue(oJob[k])'
  <2>1. PICK p : p = oJob'[k]
    OBVIOUS
  <2>2. k # j => p.pc = "idle"
    BY <1>1, <1>2, <2>1
  <2>3. k = j => p = q
    BY <1>1, <2>1
  <2>4. JobTrue(p)'
    BY <2>2, <2>3, RestingTrue
  <2>5. oJob[k]' = p'
    BY <2>1
  <2> QED BY <2>4, <2>5 DEF JobTrue
<1> QED BY <1>3 DEF Held

LEMMA IdleStep ==
  ASSUME OdooInv, Mirrored, NEW j \in OdooJobs, Done(j), MayMove(j), CopiesTrue'
  PROVE  Held'
<1>1. JobMoves(j, OdooIdle) /\ OdooIdle.pc = "idle"
  BY DEF Done, GoOn, JobMoves, OdooIdle
<1>2. JobTrue(OdooIdle)'
  BY <1>1, RestingTrue DEF OdooIdle
<1> QED BY <1>1, <1>2, JobStep

LEMMA WorldTrue ==
  ASSUME OdooInv, Mirrored, Held, World
  PROVE  Held'
<1>0. /\ oCrew.sure /\ ~oCrew.admin /\ CopiesTrue /\ HookTypes /\ oConn.on
      /\ oRec = [l \in Leads |-> oRec[l]]
  BY DEF Mirrored, Held, CopiesTrue, OdooInv, OdooTypes, TableTypes
<1>1. ASSUME RecsStep, UNCHANGED oJob PROVE Held'
  <2>1. CopiesTrue' /\ \A q : JobTrue(q) => JobTrue(q)'
    BY <1>0, <1>1, RecsStepKeeps
  <2>2. ASSUME NEW j \in OdooJobs PROVE JobTrue(oJob[j])'
    <3>1. PICK q : q = oJob[j]
      OBVIOUS
    <3>2. JobTrue(q)'
      BY <2>1, <3>1 DEF Held
    <3>3. oJob[j]' = q'
      BY <1>1, <3>1
    <3> QED BY <3>2, <3>3 DEF JobTrue
  <2> QED BY <2>1, <2>2 DEF Held
<1>2. ASSUME NEW l \in Leads, OdooCreates(l) \/ OdooEdits(l) \/ OdooDeletes(l) PROVE Held'
  <2>1. /\ \E kind \in {"write", "unlink"} : Report(l, kind)
        /\ \A m \in Leads \ {l} : oRec'[m] = oRec[m]
        /\ UNCHANGED <<oLink, oImp, oDeal, oConn, oJob>>
    BY <1>0, <1>2 DEF OdooCreates, OdooEdits, OdooDeletes
  <2>2. RecsStep
    BY <1>0, <2>1, ReportStep
  <2> QED BY <1>1, <2>1, <2>2
<1>3. CASE OdooTick
  <2>1. (\A l \in Leads : RecAlike(l)) /\ UNCHANGED <<oHook, oLink, oImp, oDeal, oConn, oJob>>
    BY <1>3 DEF OdooTick, RecAlike
  <2> QED BY <1>0, <1>1, <2>1, QuietStep
<1> QED
  BY <1>0, <1>2, <1>3
  DEF World, DeleteRecord, Connect, Disconnect, UnlinkEngagement, SetOutcome

(* A push, up to its last step.                                            *)
LEMMA PushTrue ==
  ASSUME OdooInv, Mirrored, Held, NEW j \in OdooJobs,
         \/ \E d \in OdooDeals, f \in BOOLEAN : PushRead(j, d, f)
         \/ \E l \in Leads : PushCreate(j, l)
         \/ PushPartner(j) \/ PushWrite(j) \/ OdooCallFails(j)
  PROVE  Held'
<1>0. /\ oCrew.sure /\ ~oCrew.admin /\ oCrew.calm /\ CopiesTrue /\ HookTypes
      /\ oRec = [l \in Leads |-> oRec[l]] /\ JobTrue(oJob[j]) /\ JobNames(oJob[j])
      /\ DOMAIN oJob[j] = JobFields
  BY DEF Mirrored, Held, CopiesTrue, OdooInv, OdooTypes, TableTypes, Named
<1>1. ASSUME NEW q, RecsStep, JobMoves(j, q), MayMove(j), JobTrue(q)' PROVE Held'
  BY <1>0, <1>1, RecsStepKeeps, JobStep
<1>2. ASSUME RecsStep, Done(j), MayMove(j) PROVE Held'
  BY <1>0, <1>2, RecsStepKeeps, IdleStep
<1>3. ASSUME UNCHANGED <<oRec, oHook, oLink, oImp, oDeal, oConn>> PROVE RecsStep
  <2>1. \A l \in Leads : RecAlike(l)
    BY <1>3 DEF RecAlike
  <2> QED BY <1>0, <1>3, <2>1, QuietStep
<1>4. ASSUME NEW d \in OdooDeals, NEW f \in BOOLEAN, PushRead(j, d, f) PROVE Held'
  <2>1. PICK q : q = [OdooIdle EXCEPT !.pc = IF d \in oMate THEN "lead" ELSE "mate", !.deal = d,
                                      !.link = oLink[d].lead, !.force = f]
    OBVIOUS
  <2>2. /\ JobMoves(j, q) /\ MayMove(j) /\ UNCHANGED <<oRec, oHook, oLink, oImp, oDeal, oConn>>
        /\ ~f /\ oDeal[d].st # "none"
    BY <1>0, <1>4, <2>1 DEF PushRead, GoOn, JobMoves, MayMove, MayStart
  <2>3. q.pc \in {"mate", "lead"} /\ q.deal = d /\ q.link = oLink[d].lead /\ ~q.force
    BY <2>1, <2>2 DEF OdooIdle
  <2>4. JobTrue(q)'
    BY <2>2, <2>3 DEF JobTrue
  <2> QED BY <1>1, <1>3, <2>2, <2>4
<1>5. CASE PushPartner(j)
  <2>1. PICK q : q = [oJob[j] EXCEPT !.pc = "lead"]
    OBVIOUS
  <2>2. /\ JobMoves(j, q) /\ MayMove(j) /\ UNCHANGED <<oRec, oHook, oLink, oImp, oDeal, oConn>>
        /\ oJob[j].pc = "mate"
    BY <1>5, <2>1 DEF PushPartner, GoOn, JobMoves, MayMove
  <2>3. /\ q.pc = "lead" /\ q.deal = oJob[j].deal /\ q.link = oJob[j].link
        /\ q.force = oJob[j].force
    BY <1>0, <2>1 DEF JobFields
  <2>4. JobTrue(q)'
    BY <1>0, <2>2, <2>3 DEF JobTrue, Pushing
  <2> QED BY <1>1, <1>3, <2>2, <2>4
<1>6. ASSUME NEW l \in Leads, NEW q, q = [oJob[j] EXCEPT !.pc = "link", !.lead = l],
             oJob[j].pc = "lead", oJob[j].link \in {NoLead, l}, JobMoves(j, q), Report(l, "write"),
             \A m \in Leads \ {l} : oRec'[m] = oRec[m], UNCHANGED <<oLink, oImp, oDeal, oConn>>
      PROVE  Held'
  <2>1. RecsStep /\ Announced(l)
    BY <1>0, <1>6, ReportStep
  <2>2. /\ q.pc = "link" /\ q.deal = oJob[j].deal /\ q.link = oJob[j].link
        /\ q.force = oJob[j].force /\ q.lead = l
    BY <1>0, <1>6 DEF JobFields
  <2>3. JobTrue(q)'
    BY <1>0, <1>6, <2>1, <2>2 DEF JobTrue, Pushing, Announced
  <2>4. MayMove(j)
    BY <1>6 DEF MayMove
  <2> QED BY <1>1, <1>6, <2>1, <2>3, <2>4
<1>7. CASE PushWrite(j)
  <2>1. PICK l : l = oJob[j].link
    OBVIOUS
  <2>2. oJob[j].pc = "lead" /\ l # NoLead /\ l \in Leads
    BY <1>0, <1>7, <2>1 DEF PushWrite, JobNames, Pushing, Exists
  <2>3. CASE oRec[l].live
    <3>1. PICK q : q = [oJob[j] EXCEPT !.pc = "link", !.lead = l]
      OBVIOUS
    <3>2. /\ JobMoves(j, q) /\ Report(l, "write") /\ UNCHANGED <<oLink, oImp, oDeal, oConn>>
          /\ \A m \in Leads \ {l} : oRec'[m] = oRec[m]
      BY <1>0, <1>7, <2>1, <2>3, <3>1 DEF PushWrite, GoOn, JobMoves
    <3> QED BY <1>6, <2>1, <2>2, <3>1, <3>2
  <2>4. CASE ~oRec[l].live
    <3>1. Done(j) /\ UNCHANGED <<oRec, oHook, oLink, oImp, oDeal, oConn>> /\ MayMove(j)
      BY <1>7, <2>1, <2>2, <2>4 DEF PushWrite, MayMove
    <3> QED BY <1>2, <1>3, <3>1
  <2> QED BY <2>3, <2>4
<1>8. ASSUME NEW l \in Leads, PushCreate(j, l) PROVE Held'
  <2>1. PICK q : q = [oJob[j] EXCEPT !.pc = "link", !.lead = l]
    OBVIOUS
  <2>2. /\ JobMoves(j, q) /\ Report(l, "write") /\ UNCHANGED <<oLink, oImp, oDeal, oConn>>
        /\ \A m \in Leads \ {l} : oRec'[m] = oRec[m]
    BY <1>0, <1>8, <2>1 DEF PushCreate, GoOn, JobMoves
  <2>3. oJob[j].pc = "lead" /\ oJob[j].link = NoLead
    BY <1>0, <1>8 DEF PushCreate, JobTrue, Pushing
  <2> QED BY <1>6, <2>1, <2>2, <2>3
<1>9. CASE OdooCallFails(j)
  <2>1. Done(j) /\ UNCHANGED <<oRec, oHook, oLink, oImp, oDeal, oConn>> /\ MayMove(j)
    BY <1>9 DEF OdooCallFails, MayMove
  <2> QED BY <1>2, <1>3, <2>1
<1> QED BY <1>4, <1>5, <1>7, <1>8, <1>9

-----------------------------------------------------------------------------
(* A step on the links and the import of one lead leaves the other copies. *)
OthersAlike(l) ==
  /\ DealRows' /\ \A m \in Leads \ {l} : TablesAlike(m)
  /\ \A d, e \in Holder(l)' : d = e
  /\ \A d \in OdooDeals : oDeal'[d].st = "none" => oLink'[d].lead = NoLead

LEMMA TablesStepKeeps ==
  ASSUME CopiesTrue, UNCHANGED <<oRec, oConn>>, HookTypes', NEW l \in Leads, OthersAlike(l),
         AsInOdoo(l)' \/ Reported(l, {})',
         \A m \in Leads \ {l} : Reported(m, {}) => Reported(m, {})'
  PROVE  CopiesTrue'
<1>1. \A m \in Leads : RecAlike(m)
  BY DEF RecAlike
<1>2. \A m \in Leads \ {l} : AsInOdoo(m)' \/ Reported(m, {})'
  BY <1>1, AlikeTrue DEF CopiesTrue, OthersAlike
<1>3. ASSUME NEW m \in Leads, NEW d \in Holder(m)', NEW e \in Holder(m)' PROVE d = e
  BY <1>3 DEF CopiesTrue, OthersAlike, TablesAlike
<1>4. \A m \in Leads : \A d, e \in Holder(m)' : d = e
  BY <1>3
<1> QED BY <1>2, <1>4 DEF CopiesTrue, OthersAlike

LEMMA RowsAre ==
  ASSUME OdooInv, CopiesTrue
  PROVE  /\ oLink = [d \in OdooDeals |-> oLink[d]] /\ oImp = [l \in Leads |-> oImp[l]]
         /\ \A d \in OdooDeals : DOMAIN oLink[d] = {"lead", "pushed", "rev"}
         /\ \A l \in Leads : DOMAIN oImp[l] = {"row", "rev", "deal"}
         /\ oDeal = [d \in OdooDeals |-> oDeal[d]]
         /\ \A d \in OdooDeals : DOMAIN oDeal[d] = {"st", "rev"}
         /\ NoLead \notin Leads
BY OdooAssumption DEF OdooInv, OdooTypes, TableTypes, CopiesTrue, DealRows

(* A deletion forgets the lead.                                            *)
LEMMA UnlinkTrue ==
  ASSUME OdooInv, CopiesTrue, NEW l \in Leads, HandleUnlink(l)
  PROVE  OthersAlike(l) /\ AsInOdoo(l)'
<1>0. /\ NoLink.lead = NoLead /\ NoImport.row = FALSE
  BY DEF NoLink, NoImport
<1>1. /\ \A d \in OdooDeals : oLink'[d] = IF oLink[d].lead = l THEN NoLink ELSE oLink[d]
      /\ oImp' = [oImp EXCEPT ![l] = NoImport] /\ UNCHANGED oDeal
  BY DEF HandleUnlink, LinksWithout
<1> HIDE DEF NoLink, NoImport
<1>2. Holder(l)' = {} /\ ~oImp'[l].row
  BY <1>0, <1>1, RowsAre DEF Holder
<1>3. ASSUME NEW m \in Leads \ {l} PROVE TablesAlike(m)
  <2>1. \A d \in OdooDeals : (oLink'[d].lead = m <=> oLink[d].lead = m)
                             /\ (oLink[d].lead = m => oLink'[d] = oLink[d])
    BY <1>0, <1>1, RowsAre
  <2>2. oImp'[m] = oImp[m]
    BY <1>1, RowsAre
  <2> QED BY <2>1, <2>2 DEF TablesAlike, Holder
<1>4. \A d \in OdooDeals : oDeal'[d].st = "none" => oLink'[d].lead = NoLead
  BY <1>0, <1>1 DEF CopiesTrue
<1> QED BY <1>1, <1>2, <1>3, <1>4 DEF OthersAlike, AsInOdoo, CopiesTrue, DealRows

(* Reconciling a lead copies what was read of it, or it is an echo.        *)
LEMMA ReconcileTrue ==
  ASSUME OdooInv, CopiesTrue, NEW l \in Leads, NEW rev, NEW wrote, Reconcile(l, rev, wrote),
         UNCHANGED oRec
  PROVE  /\ OthersAlike(l)
         /\ oRec[l].live /\ rev = oRec[l].rev /\ wrote = oRec[l].wrote => AsInOdoo(l)'
<1>0. /\ \A d, e \in Holder(l) : d = e
      /\ \A d \in OdooDeals : oDeal[d].st = "none" => oLink[d].lead = NoLead
      /\ DealRows
  BY DEF CopiesTrue
<1>1. CASE Echo(l, wrote) /\ UNCHANGED <<oLink, oImp, oDeal>>
  <2>1. OthersAlike(l) /\ Holder(l)' = Holder(l)
    BY <1>0, <1>1 DEF OthersAlike, TablesAlike, Holder, DealRows
  <2>2. wrote = oRec[l].wrote => \A d \in Holder(l) : oLink[d].pushed = oRec[l].wrote
    BY <1>0, <1>1 DEF Echo
  <2>3. Holder(l) # {}
    BY <1>1 DEF Echo
  <2> QED BY <1>1, <2>1, <2>2, <2>3 DEF AsInOdoo
<1>2. ASSUME NEW d \in Holder(l), oLink' = [oLink EXCEPT ![d].rev = rev],
             oDeal' = [oDeal EXCEPT ![d].rev = rev], UNCHANGED oImp
      PROVE  /\ OthersAlike(l)
             /\ oRec[l].live /\ rev = oRec[l].rev /\ wrote = oRec[l].wrote => AsInOdoo(l)'
  <2>0. d \in OdooDeals /\ oLink[d].lead = l
    BY DEF Holder
  <2>1. /\ \A e \in OdooDeals : oLink'[e].lead = oLink[e].lead /\ (e # d => oLink'[e] = oLink[e])
        /\ oLink'[d].rev = rev
    BY <1>2, <2>0, RowsAre
  <2>2. /\ \A e \in OdooDeals : oDeal'[e].st = oDeal[e].st
        /\ DealRows'
    BY <1>2, <2>0, RowsAre DEF DealRows
  <2>3. \A m \in Leads : Holder(m)' = Holder(m)
    BY <2>1 DEF Holder
  <2>4. \A m \in Leads \ {l} : TablesAlike(m)
    BY <1>2, <2>0, <2>1, <2>3 DEF TablesAlike, Holder
  <2>5. OthersAlike(l)
    BY <1>0, <2>1, <2>2, <2>3, <2>4 DEF OthersAlike
  <2>6. Holder(l)' = {d}
    BY <1>0, <2>3
  <2> QED BY <2>1, <2>5, <2>6 DEF AsInOdoo
<1>3. ASSUME Holder(l) = {}, oImp' = [oImp EXCEPT ![l].row = TRUE, ![l].rev = rev], UNCHANGED oLink,
             oDeal' = IF oImp[l].deal \in OdooDeals THEN [oDeal EXCEPT ![oImp[l].deal].rev = rev]
                      ELSE oDeal
      PROVE  /\ OthersAlike(l)
             /\ oRec[l].live /\ rev = oRec[l].rev /\ wrote = oRec[l].wrote => AsInOdoo(l)'
  <2>1. /\ oImp'[l].rev = rev /\ \A m \in Leads \ {l} : oImp'[m] = oImp[m]
    BY <1>3, RowsAre
  <2>2. /\ \A e \in OdooDeals : oDeal'[e].st = oDeal[e].st
        /\ DealRows'
    <3>1. PICK d : d = oImp[l].deal
      OBVIOUS
    <3>2. CASE d \in OdooDeals
      BY <1>3, <3>1, <3>2, RowsAre DEF DealRows
    <3>3. CASE d \notin OdooDeals
      BY <1>0, <1>3, <3>1, <3>3 DEF DealRows
    <3> QED BY <3>2, <3>3
  <2>3. \A m \in Leads : Holder(m)' = Holder(m)
    BY <1>3 DEF Holder
  <2>4. OthersAlike(l)
    BY <1>0, <1>3, <2>1, <2>2, <2>3 DEF OthersAlike, TablesAlike
  <2> QED BY <1>3, <2>1, <2>3, <2>4 DEF AsInOdoo
<1> QED BY <1>1, <1>2, <1>3 DEF Reconcile

(* An event is done with.                                                  *)
LEMMA MarkStep ==
  ASSUME HookTypes, NEW n \in DOMAIN oHook, NEW st \in {"processed", "ignored"}, Mark(n, st)
  PROVE  /\ HookTypes' /\ DOMAIN oHook' = DOMAIN oHook
         /\ \A k \in DOMAIN oHook \ {n} : oHook'[k] = oHook[k]
         /\ \A l : Reported(l, {n}) => Reported(l, {})'
         /\ \A l : l # oHook[n].lead /\ Reported(l, {}) => Reported(l, {})'
         /\ \A T \in SUBSET Pending : T \ {n} \subseteq Pending'
<1>1. PICK e : e = [oHook[n] EXCEPT !.st = st]
  OBVIOUS
<1>2. e \in HookRow
  BY <1>1, HooksAre DEF HookRow
<1>3. oHook' = [oHook EXCEPT ![n] = e]
  BY <1>1 DEF Mark
<1>4. /\ HookTypes' /\ DOMAIN oHook' = DOMAIN oHook
      /\ \A k \in DOMAIN oHook \ {n} : oHook'[k] = oHook[k]
  BY <1>2, <1>3 DEF HookTypes
<1> QED BY <1>4 DEF Reported, Pending

(* The link a push records is that of the lead it wrote, whose event is    *)
(* on its way.                                                             *)
LEMMA LinkTrue ==
  ASSUME OdooInv, Mirrored, Held, NEW j \in OdooJobs, PushLink(j)
  PROVE  Held'
<1>1. PICK d, l : d = oJob[j].deal /\ l = oJob[j].lead
  OBVIOUS
<1>2. /\ CopiesTrue /\ HookTypes /\ MayMove(j) /\ Done(j)
      /\ UNCHANGED <<oRec, oConn, oHook, oDeal, oImp>>
      /\ oJob[j].pc = "link" /\ JobTrue(oJob[j])
  BY DEF Held, PushLink, MayMove, CopiesTrue
<1>3. /\ d \in OdooDeals /\ l \in Leads /\ oLink[d].lead \in {NoLead, l} /\ Reported(l, {})
      /\ oDeal[d].st # "none"
  BY <1>1, <1>2 DEF JobTrue, Pushing
<1>4. oLink' = IF Holder(l) \subseteq {d}
               THEN [oLink EXCEPT ![d].lead = l, ![d].pushed = oNow] ELSE oLink
  BY <1>1 DEF PushLink, PushedLink
<1>5. HookTypes' /\ \A m : Reported(m, {}) => Reported(m, {})'
  BY <1>2 DEF HookTypes, Reported
<1>6. OthersAlike(l)
  <2>0. DealRows' /\ \A m \in Leads : oImp'[m] = oImp[m]
    BY <1>2 DEF DealRows, CopiesTrue
  <2>1. CASE ~(Holder(l) \subseteq {d})
    <3>1. oLink' = oLink
      BY <1>4, <2>1
    <3>2. \A m \in Leads : Holder(m)' = Holder(m) /\ TablesAlike(m)
      BY <2>0, <3>1 DEF TablesAlike, Holder
    <3> QED BY <1>2, <1>3, <2>0, <3>1, <3>2 DEF OthersAlike, CopiesTrue
  <2>2. CASE Holder(l) \subseteq {d}
    <3>1. oLink' = [oLink EXCEPT ![d].lead = l, ![d].pushed = oNow]
      BY <1>4, <2>2
    <3>2. oLink'[d].lead = l /\ \A e \in OdooDeals \ {d} : oLink'[e] = oLink[e]
      BY <1>2, <1>3, <3>1, RowsAre
    <3>3. Holder(l)' \subseteq {d}
      BY <2>2, <3>2 DEF Holder
    <3>4. \A m \in Leads \ {l} : TablesAlike(m)
      BY <1>2, <1>3, <2>0, <3>2, RowsAre DEF TablesAlike, Holder
    <3>5. \A e \in OdooDeals : oDeal'[e].st = "none" => oLink'[e].lead = NoLead
      BY <1>2, <1>3, <3>2 DEF CopiesTrue
    <3> QED BY <2>0, <3>3, <3>4, <3>5 DEF OthersAlike
  <2> QED BY <2>1, <2>2
<1>7. CopiesTrue'
  BY <1>2, <1>3, <1>5, <1>6, TablesStepKeeps
<1> QED BY <1>2, <1>7, IdleStep

(* A promotion passes on what the import shows.                            *)
LEMMA PromoteTrue ==
  ASSUME OdooInv, Mirrored, Held, NEW j \in OdooJobs,
         (\E l \in Leads : PromoteRead(j, l)) \/ (\E d \in OdooDeals : PromoteWrite(j, d))
  PROVE  Held'
<1>0. /\ oCrew.calm /\ CopiesTrue /\ HookTypes /\ JobTrue(oJob[j]) /\ JobNames(oJob[j])
      /\ JobInOrder(oJob[j]) /\ \A l \in Leads : Waiting(l) => Holder(l) = {}
  BY DEF Mirrored, Held, CopiesTrue, OdooInv, Named, InOrder
<1>1. ASSUME UNCHANGED <<oRec, oHook, oLink, oImp, oDeal, oConn>> PROVE CopiesTrue'
  <2>1. \A l \in Leads : RecAlike(l)
    BY <1>1 DEF RecAlike
  <2> QED BY <1>0, <1>1, <2>1, QuietStep, RecsStepKeeps
<1>2. ASSUME NEW l \in Leads, PromoteRead(j, l) PROVE Held'
  <2>1. PICK q : q = [OdooIdle EXCEPT !.pc = "promote", !.lead = l, !.seen = oImp[l].rev]
    OBVIOUS
  <2>2. /\ JobMoves(j, q) /\ MayMove(j) /\ UNCHANGED <<oRec, oHook, oLink, oImp, oDeal, oConn>>
    BY <1>0, <1>2, <2>1 DEF PromoteRead, GoOn, JobMoves, MayMove, MayStart
  <2>3. q.pc = "promote" /\ q.lead = l /\ q.seen = oImp'[l].rev
    BY <2>1, <2>2 DEF OdooIdle
  <2>4. JobTrue(q)'
    BY <2>3 DEF JobTrue, Pushing
  <2> QED BY <1>1, <2>2, <2>4, JobStep
<1>3. ASSUME NEW d \in OdooDeals, PromoteWrite(j, d) PROVE Held'
  <2>1. PICK l, r : l = oJob[j].lead /\ r = oJob[j].seen
    OBVIOUS
  <2>2. /\ oJob[j].pc = "promote" /\ oDeal[d].st = "none" /\ Done(j) /\ MayMove(j)
        /\ UNCHANGED <<oRec, oHook, oConn>>
    BY <1>3 DEF PromoteWrite, MayMove
  <2>3. l \in Leads /\ r = oImp[l].rev /\ oLink[d].lead = NoLead
    BY <1>0, <2>1, <2>2 DEF JobNames, JobTrue, CopiesTrue
  <2>4. CASE ~oImp[l].row
    <3>1. CopiesTrue'
      BY <1>1, <1>3, <2>1, <2>2, <2>4 DEF PromoteWrite
    <3> QED BY <2>2, <3>1, IdleStep
  <2>5. CASE oImp[l].row
    <3>1. Holder(l) = {}
      BY <1>0, <2>1, <2>2, <2>3, <2>5 DEF JobInOrder, Waiting
    <3>2. /\ oDeal' = [oDeal EXCEPT ![d] = [st |-> "imported", rev |-> r]]
          /\ oLink' = [LinksWithout(l) EXCEPT ![d] = [lead |-> l, rev |-> r, pushed |-> Never]]
          /\ oImp' = [oImp EXCEPT ![l].deal = d]
      BY <1>3, <2>1, <2>5, <3>1 DEF PromoteWrite
    <3>3. /\ oLink'[d].lead = l /\ oLink'[d].rev = r
          /\ \A e \in OdooDeals \ {d} : oLink'[e] = oLink[e] /\ oLink[e].lead # l
      BY <2>3, <3>1, <3>2 DEF LinksWithout, Holder
    <3>4. /\ oDeal' = [e \in OdooDeals |-> oDeal'[e]] /\ oDeal'[d] = [st |-> "imported", rev |-> r]
          /\ \A e \in OdooDeals \ {d} : oDeal'[e] = oDeal[e]
      BY <1>0, <3>2, RowsAre
    <3>5. DealRows'
      BY <1>0, <3>4 DEF DealRows, CopiesTrue
    <3>6. /\ \A m \in Leads : oImp'[m].row = oImp[m].row /\ oImp'[m].rev = oImp[m].rev
      BY <1>0, <2>3, <3>2, RowsAre
    <3>7. Holder(l)' = {d} /\ \A m \in Leads \ {l} : TablesAlike(m)
      BY <1>0, <2>3, <3>3, <3>6, RowsAre DEF TablesAlike, Holder
    <3>8. \A e \in OdooDeals : oDeal'[e].st = "none" => oLink'[e].lead = NoLead
      BY <1>0, <3>3, <3>4 DEF CopiesTrue
    <3>9. OthersAlike(l)
      BY <3>5, <3>7, <3>8 DEF OthersAlike
    <3>10. AsInOdoo(l) => AsInOdoo(l)'
      BY <2>2, <2>3, <2>5, <3>1, <3>3, <3>6, <3>7 DEF AsInOdoo
    <3>11. HookTypes' /\ \A m : Reported(m, {}) => Reported(m, {})'
      BY <1>0, <2>2 DEF HookTypes, Reported
    <3>12. CopiesTrue'
      BY <1>0, <2>2, <2>3, <3>9, <3>10, <3>11, TablesStepKeeps DEF CopiesTrue
    <3> QED BY <2>2, <3>12, IdleStep
  <2> QED BY <2>4, <2>5
<1> QED BY <1>2, <1>3

(* A pass over the events takes them in their order; until the event it    *)
(* holds is handled, that one is pending still.                            *)
LEMMA HookTrue ==
  ASSUME OdooInv, Mirrored, Held, NEW j \in OdooJobs, HookUnlink(j) \/ HookApply(j)
  PROVE  Held'
<1>1. PICK n, T, l : n = Least(oJob[j].todo) /\ T = oJob[j].todo /\ l = oHook[n].lead
  OBVIOUS
<1>2. /\ CopiesTrue /\ HookTypes /\ MayMove(j) /\ UNCHANGED <<oRec, oConn>>
      /\ oJob[j].pc \in {"hooks", "hook"} /\ T \subseteq Pending /\ T # {}
      /\ DOMAIN oJob[j] = JobFields
      /\ oJob[j].pc = "hook" => /\ l = oJob[j].lead
                                /\ oJob[j].link # NoLead =>
                                     \/ Reported(l, {n})
                                     \/ (oRec[l].live /\ Seen(l, oJob[j].seen))
  BY <1>1 DEF Held, MayMove, CopiesTrue, HookUnlink, HookApply, JobTrue, OdooInv, OdooTypes
<1>3. n \in T /\ n \in DOMAIN oHook /\ l \in Leads
  BY <1>1, <1>2, HooksAre DEF HookRow
<1>4. NextHook(j) = n
  BY <1>1 DEF NextHook, Least
<1>5. PICK st \in {"processed", "ignored"} :
        /\ Mark(n, st)
        /\ HandleUnlink(l) \/ Reconcile(l, oJob[j].seen[1], oJob[j].seen[2])
        /\ oJob[j].link = NoLead \/ oJob[j].pc = "hooks" => HandleUnlink(l)
  BY <1>1, <1>2, <1>4 DEF HookUnlink, HookApply
<1>6. PICK q : /\ JobMoves(j, q) /\ q.pc = "hooks" /\ q.todo = T \ {n}
  <2>1. CASE HookUnlink(j)
    <3>1. PICK q : q = [oJob[j] EXCEPT !.todo = @ \ {n}]
      OBVIOUS
    <3>2. JobMoves(j, q) /\ oJob[j].pc = "hooks"
      BY <1>4, <2>1, <3>1 DEF HookUnlink, GoOn, JobMoves
    <3>3. q.pc = "hooks" /\ q.todo = T \ {n}
      BY <1>1, <1>2, <3>1, <3>2 DEF JobFields
    <3> QED BY <3>2, <3>3
  <2>2. CASE HookApply(j)
    <3>1. PICK q : q = [oJob[j] EXCEPT !.pc = "hooks", !.todo = @ \ {n}, !.seen = Never]
      OBVIOUS
    <3>2. JobMoves(j, q)
      BY <1>4, <2>2, <3>1 DEF HookApply, GoOn, JobMoves
    <3>3. q.pc = "hooks" /\ q.todo = T \ {n}
      BY <1>1, <1>2, <3>1 DEF JobFields
    <3> QED BY <3>2, <3>3
  <2> QED BY <2>1, <2>2
<1>7. /\ HookTypes' /\ \A m : m # l /\ Reported(m, {}) => Reported(m, {})'
      /\ T \ {n} \subseteq Pending'
      /\ Reported(l, {n}) => Reported(l, {})'
  BY <1>1, <1>2, <1>3, <1>5, MarkStep
<1>8. OthersAlike(l) /\ (AsInOdoo(l)' \/ Reported(l, {})')
  <2>1. CASE HandleUnlink(l)
    BY <1>2, <1>3, <2>1, UnlinkTrue
  <2>2. CASE ~HandleUnlink(l)
    <3>1. PICK rev, wrote : rev = oJob[j].seen[1] /\ wrote = oJob[j].seen[2]
      OBVIOUS
    <3>2. /\ Reconcile(l, rev, wrote)
          /\ Reported(l, {n}) \/ (oRec[l].live /\ rev = oRec[l].rev /\ wrote = oRec[l].wrote)
      BY <1>2, <1>5, <2>2, <3>1 DEF Seen
    <3> QED BY <1>2, <1>3, <1>7, <3>2, ReconcileTrue
  <2> QED BY <2>1, <2>2
<1>9. CopiesTrue'
  BY <1>2, <1>3, <1>7, <1>8, TablesStepKeeps
<1>10. JobTrue(q)'
  BY <1>6, <1>7 DEF JobTrue, Pushing
<1> QED BY <1>2, <1>6, <1>9, <1>10, JobStep

LEMMA PassTrue ==
  ASSUME OdooInv, Mirrored, Held, NEW j \in OdooJobs, HookPass(j) \/ HookFetch(j) \/ HookDone(j)
  PROVE  Held'
<1>0. /\ oCrew.calm /\ CopiesTrue /\ HookTypes /\ oConn.on /\ JobTrue(oJob[j])
      /\ DOMAIN oJob[j] = JobFields
  BY DEF Mirrored, Held, CopiesTrue, OdooInv, OdooTypes
<1>1. /\ UNCHANGED <<oRec, oHook, oLink, oImp, oDeal, oConn>> /\ MayMove(j)
  BY <1>0 DEF HookPass, HookFetch, HookDone, MayMove, MayStart
<1>2. CopiesTrue' /\ Pending' = Pending
  <2>1. \A l \in Leads : RecAlike(l)
    BY <1>1 DEF RecAlike
  <2> QED BY <1>0, <1>1, <2>1, QuietStep, RecsStepKeeps DEF Pending
<1>3. CASE HookPass(j)
  <2>1. PICK q : q = [OdooIdle EXCEPT !.pc = "hooks", !.todo = Pending]
    OBVIOUS
  <2>2. JobMoves(j, q)
    BY <1>0, <1>3, <2>1 DEF HookPass, GoOn, JobMoves
  <2>3. q.pc = "hooks" /\ q.todo = Pending
    BY <2>1 DEF OdooIdle
  <2>4. JobTrue(q)'
    BY <1>2, <2>3 DEF JobTrue, Pushing
  <2> QED BY <1>1, <1>2, <2>2, <2>4, JobStep
<1>4. CASE HookFetch(j)
  <2>1. PICK n, l : n = NextHook(j) /\ l = oHook[n].lead
    OBVIOUS
  <2>2. PICK link : link = IF oRec[l].live /\ Parsed({l}) # {} THEN l ELSE NoLead
    OBVIOUS
  <2>3. PICK q : q = [oJob[j] EXCEPT !.pc = "hook", !.lead = l, !.link = link,
                                     !.seen = <<oRec[l].rev, oRec[l].wrote>>]
    OBVIOUS
  <2>4. JobMoves(j, q) /\ oJob[j].pc = "hooks" /\ oJob[j].todo # {}
    BY <1>4, <2>1, <2>2, <2>3 DEF HookFetch, GoOn, JobMoves
  <2>5. /\ q.pc = "hook" /\ q.lead = l /\ q.link = link /\ q.todo = oJob[j].todo
        /\ q.seen = <<oRec[l].rev, oRec[l].wrote>>
    BY <1>0, <2>3 DEF JobFields
  <2>6. n = Least(q.todo) /\ q.todo \subseteq Pending /\ q.todo # {}
    BY <1>0, <2>1, <2>4, <2>5 DEF NextHook, Least, JobTrue
  <2>7. /\ q.lead = oHook'[Least(q.todo)].lead
        /\ q.link # NoLead => oRec'[q.lead].live /\ Seen(q.lead, q.seen)'
    BY <1>1, <2>1, <2>2, <2>5, <2>6 DEF Seen
  <2>8. JobTrue(q)'
    BY <1>2, <2>5, <2>6, <2>7 DEF JobTrue, Pushing
  <2> QED BY <1>1, <1>2, <2>4, <2>8, JobStep
<1>5. CASE HookDone(j)
  BY <1>1, <1>2, <1>5, IdleStep DEF HookDone
<1> QED BY <1>3, <1>4, <1>5

(* A page of leads was read at once; of a lead that changed since, an      *)
(* event is on its way.                                                    *)
LEMMA PollTrue ==
  ASSUME OdooInv, Mirrored, Held, NEW j \in OdooJobs,
         (\E all \in BOOLEAN : PollFetch(j, all)) \/ PollApply(j)
  PROVE  Held'
<1>0. /\ oCrew.calm /\ ~oCrew.admin /\ CopiesTrue /\ HookTypes /\ JobTrue(oJob[j])
      /\ DOMAIN oJob[j] = JobFields /\ oRec = [l \in Leads |-> oRec[l]]
      /\ \A l \in Leads : oRec[l] \in OdooRec
  BY DEF Mirrored, Held, CopiesTrue, OdooInv, OdooTypes, TableTypes
<1>1. ASSUME (\A l \in Leads : RecAlike(l)) /\ UNCHANGED <<oHook, oLink, oImp, oDeal, oConn>>
      PROVE  CopiesTrue'
  BY <1>0, <1>1, QuietStep, RecsStepKeeps
<1>2. ASSUME NEW all \in BOOLEAN, PollFetch(j, all) PROVE Held'
  <2>1. PICK found : found = {l \in Leads : oRec[l].live /\ (all \/ oRec[l].fresh)}
    OBVIOUS
  <2>2. PICK todo, seen : /\ todo = Parsed(found)
                          /\ seen = [l \in Leads |-> <<oRec[l].rev, oRec[l].wrote>>]
    OBVIOUS
  <2>3. PICK q : q = [OdooIdle EXCEPT !.pc = "page", !.todo = todo, !.seen = seen]
    OBVIOUS
  <2>4. /\ JobMoves(j, q) /\ MayMove(j) /\ UNCHANGED <<oHook, oLink, oImp, oDeal, oConn>>
        /\ \/ oRec' = [l \in Leads |-> IF l \in found THEN [oRec[l] EXCEPT !.fresh = FALSE]
                                        ELSE oRec[l]]
           \/ oRec' = oRec
    BY <1>0, <1>2, <2>1, <2>2, <2>3 DEF PollFetch, GoOn, JobMoves, MayMove, MayStart
  <2>5. \A l \in Leads : RecAlike(l)
    BY <1>0, <2>4 DEF RecAlike, OdooRec
  <2>6. CopiesTrue'
    BY <1>1, <2>4, <2>5
  <2>7. q.pc = "page" /\ q.todo = todo /\ q.seen = seen
    BY <2>3 DEF OdooIdle
  <2>8. todo \subseteq found
    BY <2>2 DEF Parsed
  <2>9. \A l \in q.todo : l \in Leads /\ oRec'[l].live /\ Seen(l, q.seen[l])'
    BY <2>1, <2>2, <2>5, <2>7, <2>8 DEF RecAlike, Seen
  <2>10. JobTrue(q)'
    BY <2>7, <2>9 DEF JobTrue, Pushing
  <2> QED BY <2>4, <2>6, <2>10, JobStep
<1>3. CASE PollApply(j) /\ oJob[j].todo = {}
  <2>1. Done(j) /\ MayMove(j) /\ UNCHANGED <<oRec, oHook, oLink, oImp, oDeal, oConn>>
    BY <1>3 DEF PollApply, MayMove
  <2>2. \A l \in Leads : RecAlike(l)
    BY <2>1 DEF RecAlike
  <2> QED BY <1>1, <2>1, <2>2, IdleStep
<1>4. CASE PollApply(j) /\ oJob[j].todo # {}
  <2>1. PICK l \in oJob[j].todo : /\ Reconcile(l, oJob[j].seen[l][1], oJob[j].seen[l][2])
                                  /\ GoOn(j, [oJob[j] EXCEPT !.todo = @ \ {l}])
    BY <1>4 DEF PollApply
  <2>2. PICK rev, wrote : rev = oJob[j].seen[l][1] /\ wrote = oJob[j].seen[l][2]
    OBVIOUS
  <2>3. /\ oJob[j].pc = "page" /\ MayMove(j) /\ UNCHANGED <<oRec, oHook, oConn>>
    BY <1>4 DEF PollApply, MayMove
  <2>4. /\ l \in Leads
        /\ Reported(l, {}) \/ (oRec[l].live /\ rev = oRec[l].rev /\ wrote = oRec[l].wrote)
    BY <1>0, <2>1, <2>2, <2>3 DEF JobTrue, Seen
  <2>5. HookTypes' /\ \A m : Reported(m, {}) => Reported(m, {})'
    BY <1>0, <2>3 DEF HookTypes, Reported
  <2>6. OthersAlike(l) /\ (AsInOdoo(l)' \/ Reported(l, {})')
    BY <1>0, <2>1, <2>2, <2>3, <2>4, <2>5, ReconcileTrue
  <2>7. CopiesTrue'
    BY <1>0, <2>3, <2>4, <2>5, <2>6, TablesStepKeeps
  <2>8. PICK q : q = [oJob[j] EXCEPT !.todo = @ \ {l}]
    OBVIOUS
  <2>9. /\ JobMoves(j, q) /\ q.pc = "page" /\ q.todo = oJob[j].todo \ {l}
        /\ q.seen = oJob[j].seen
    BY <1>0, <2>1, <2>3, <2>8 DEF GoOn, JobMoves, JobFields
  <2>10. ASSUME NEW m \in q.todo
         PROVE  m \in Leads /\ (Reported(m, {})' \/ (oRec'[m].live /\ Seen(m, q.seen[m])'))
    <3>1. m \in Leads /\ (Reported(m, {}) \/ (oRec[m].live /\ Seen(m, q.seen[m])))
      BY <1>0, <2>3, <2>9, <2>10 DEF JobTrue
    <3> QED BY <2>3, <2>5, <3>1 DEF Seen
  <2>11. JobTrue(q)'
    BY <2>9, <2>10 DEF JobTrue, Pushing
  <2> QED BY <2>3, <2>7, <2>9, <2>11, JobStep
<1> QED BY <1>2, <1>3, <1>4

(* Invariant behind the truth of the copies.                               *)
THEOREM MirrorInvariant == OdooSpec => []MirrorInv
<1>1. OdooInit => MirrorInv
  <2> SUFFICES ASSUME OdooInit PROVE CopiesTrue /\ \A j \in OdooJobs : JobTrue(oJob[j])
    BY DEF MirrorInv
  <2>1. /\ NoRec.live = FALSE /\ NoLink.lead = NoLead /\ NoImport.row = FALSE
        /\ OdooIdle.pc = "idle"
    BY DEF NoRec, NoLink, NoImport, OdooIdle
  <2>2. DealRows /\ HookTypes /\ oConn.on
    BY DEF OdooInit, DealRows, HookTypes
  <2> HIDE DEF NoRec, NoLink, NoImport, OdooIdle
  <2>3. /\ \A l \in Leads : ~oRec[l].live /\ ~oImp[l].row
        /\ \A d \in OdooDeals : oLink[d].lead = NoLead
        /\ \A j \in OdooJobs : oJob[j].pc = "idle"
    BY <2>1 DEF OdooInit
  <2>4. \A l \in Leads : Holder(l) = {}
    BY <2>3, OdooAssumption DEF Holder
  <2>5. CopiesTrue
    BY <2>2, <2>3, <2>4 DEF CopiesTrue, AsInOdoo
  <2>6. \A j \in OdooJobs : JobTrue(oJob[j])
    BY <2>3 DEF JobTrue, Pushing
  <2> QED BY <2>5, <2>6
<1>2. OdooInv /\ MirrorInv /\ [OdooNext]_odooVars => MirrorInv'
  <2> SUFFICES ASSUME OdooInv, MirrorInv, [OdooNext]_odooVars PROVE MirrorInv'
    OBVIOUS
  <2>1. UNCHANGED oCrew
    <3>1. ASSUME World PROVE UNCHANGED oCrew
      BY <3>1 DEF World, OdooCreates, OdooEdits, OdooDeletes, DeleteRecord, OdooTick, Connect,
                  Disconnect, UnlinkEngagement, SetOutcome
    <3>2. ASSUME NEW j \in OdooJobs, NEW d \in OdooDeals,
                 (\E f \in BOOLEAN : PushRead(j, d, f)) \/ AutoSync(j, d) \/ PromoteWrite(j, d)
          PROVE  UNCHANGED oCrew
      BY <3>2 DEF PushRead, AutoSync, PromoteWrite
    <3>3. ASSUME NEW j \in OdooJobs, NEW l \in Leads,
                 PushCreate(j, l) \/ RefreshFetch(j, l) \/ PromoteRead(j, l)
          PROVE  UNCHANGED oCrew
      BY <3>3 DEF PushCreate, RefreshFetch, PromoteRead
    <3>4. ASSUME NEW j \in OdooJobs,
                 \/ PushPartner(j) \/ PushWrite(j) \/ PushLink(j) \/ OdooCallFails(j)
                 \/ HookPass(j) \/ HookUnlink(j) \/ HookFetch(j) \/ HookApply(j) \/ HookDone(j)
          PROVE  UNCHANGED oCrew
      BY <3>4 DEF PushPartner, PushWrite, PushLink, OdooCallFails, HookPass, HookUnlink, HookFetch,
                  HookApply, HookDone
    <3>5. ASSUME NEW j \in OdooJobs,
                 (\E all \in BOOLEAN : PollFetch(j, all)) \/ PollApply(j) \/ RefreshApply(j)
          PROVE  UNCHANGED oCrew
      BY <3>5 DEF PollFetch, PollApply, RefreshApply
    <3>6. CASE OdooNext
      BY <3>1, <3>2, <3>3, <3>4, <3>5, <3>6 DEF OdooNext, World
    <3> QED BY <3>6 DEF odooVars
  <2>2. SUFFICES ASSUME Mirrored, Held PROVE Held'
    BY <2>1 DEF MirrorInv, Mirrored, Held
  <2>3. CASE UNCHANGED odooVars
    <3>1. \A j \in OdooJobs : JobTrue(oJob[j])'
      BY <2>3, <2>2 DEF odooVars, Held, JobTrue, Seen, Reported, Pending
    <3> QED
      BY <2>2, <2>3, <3>1 DEF odooVars, Held, CopiesTrue, DealRows, HookTypes, AsInOdoo, Reported,
                              Holder
  <2>4. ASSUME NEW j \in OdooJobs,
               \/ \E l \in Leads : RefreshFetch(j, l)
               \/ RefreshApply(j)
               \/ \E d \in OdooDeals : AutoSync(j, d) \/ SetOutcome(j, d)
        PROVE  Held'
    <3>1. /\ \A l \in Leads : ~RefreshFetch(j, l)
          /\ \A d \in OdooDeals : ~SetOutcome(j, d)
      BY <2>2 DEF RefreshFetch, SetOutcome, Mirrored
    <3>2. oJob[j].pc # "refresh"
      BY <2>2 DEF Held, JobTrue
    <3>3. ~RefreshApply(j)
      BY <3>2 DEF RefreshApply
    <3>4. PICK d \in OdooDeals : AutoSync(j, d)
      BY <2>4, <3>1, <3>3
    <3> QED BY <2>2, <3>4, PushTrue DEF AutoSync
  <2>5. CASE World
    BY <2>2, <2>5, WorldTrue
  <2>6. ASSUME NEW j \in OdooJobs,
               \/ \E d \in OdooDeals, f \in BOOLEAN : PushRead(j, d, f)
               \/ \E l \in Leads : PushCreate(j, l)
               \/ PushPartner(j) \/ PushWrite(j) \/ OdooCallFails(j) \/ PushLink(j)
        PROVE  Held'
    BY <2>2, <2>6, PushTrue, LinkTrue
  <2>7. ASSUME NEW j \in OdooJobs,
               \/ \E l \in Leads : PromoteRead(j, l)
               \/ \E d \in OdooDeals : PromoteWrite(j, d)
               \/ HookPass(j) \/ HookUnlink(j) \/ HookFetch(j) \/ HookApply(j) \/ HookDone(j)
               \/ \E all \in BOOLEAN : PollFetch(j, all)
               \/ PollApply(j)
        PROVE  Held'
    BY <2>2, <2>7, PromoteTrue, HookTrue, PassTrue, PollTrue
  <2>8. CASE OdooNext
    BY <2>4, <2>5, <2>6, <2>7, <2>8 DEF OdooNext, World
  <2> QED BY <2>3, <2>8
<1> QED BY <1>1, <1>2, OdooInvariant, PTL DEF OdooSpec

(* Once every event is handled, what is kept of a lead is what Odoo holds. *)
THEOREM MirrorFresh == OdooSpec => []MirrorIsFresh
<1>1. MirrorInv => MirrorIsFresh
  <2> SUFFICES ASSUME MirrorInv, Mirrored, Settled, NEW l \in Leads PROVE AsInOdoo(l)
    BY DEF MirrorIsFresh, Mirrored, AsInOdoo
  <2>1. ~Reported(l, {})
    BY DEF Settled, Pending, Reported
  <2> QED BY <2>1 DEF MirrorInv, CopiesTrue
<1> QED BY <1>1, MirrorInvariant, PTL

-----------------------------------------------------------------------------
(* The add-in's panes.                                                     *)
PaneRow ==
  [boot : {"loading", "init-error", "no-message", "signin", "ready"}, step : {0, 1, 2, 3},
   auth : {"none", "good", "expired"}, waits : {"none", "preview", "create", "link"},
   made : PaneDeals \cup {NoPaneDeal}, link : BOOLEAN, want : BOOLEAN,
   tmpl : {"idle", "loaded", "error"}]

(* Once the mail landed its opportunity is the only one, and a pane that   *)
(* came to the end, or asks for a link, has the one the server made.       *)
OneMade == xHasId => xDeals = IF xLanded = NoPaneDeal THEN {} ELSE {xLanded}
Told(q) == /\ q.step = 3 \/ q.waits = "link" \/ q.link => q.made # NoPaneDeal
           /\ q.made # NoPaneDeal => q.made \in xDeals
           /\ q.link => xLinks[q.made] > 0
           /\ q.waits = "create" => q.made = NoPaneDeal
PaneInv ==
  /\ xPane \in [Panes -> PaneRow] /\ xCache \in {"none", "good", "expired"}
  /\ xLanded \in PaneDeals \cup {NoPaneDeal} /\ xDeals \subseteq PaneDeals
  /\ xLinks \in [PaneDeals -> Nat]
  /\ OneMade /\ \A p \in Panes : Told(xPane[p])

(* A step of one pane that leaves the server's rows.                       *)
LEMMA PaneMoves ==
  ASSUME PaneInv, NEW p \in Panes, NEW q \in PaneRow, Pane(p, q), UNCHANGED Server, Told(q),
         xCache' \in {"none", "good", "expired"}
  PROVE  PaneInv'
<1>1. xPane' \in [Panes -> PaneRow] /\ xPane'[p] = q /\ \A r \in Panes \ {p} : xPane'[r] = xPane[r]
  BY DEF PaneInv, Pane
<1>2. \A r \in Panes : Told(xPane[r])'
  BY <1>1 DEF PaneInv, Told, Server
<1>3. OneMade'
  BY DEF PaneInv, OneMade, Server
<1> QED BY <1>1, <1>2, <1>3 DEF PaneInv, Server

(* However many panes, sessions and lost answers there are.                *)
THEOREM PaneInvariant == PaneSpec => []PaneInv
<1>1. PaneInit => PaneInv
  <2> SUFFICES ASSUME PaneInit PROVE PaneInv
    OBVIOUS
  <2>1. NewPane \in PaneRow
    BY DEF NewPane, PaneRow
  <2>2. Told(NewPane)
    BY DEF NewPane, Told
  <2> QED BY <2>1, <2>2 DEF PaneInit, PaneInv, OneMade
<1>2. PaneInv /\ [PaneNext]_paneVars => PaneInv'
  <2> SUFFICES ASSUME PaneInv, [PaneNext]_paneVars PROVE PaneInv'
    OBVIOUS
  <2>q. \A p \in Panes : /\ xPane[p] \in PaneRow /\ Told(xPane[p])
    BY DEF PaneInv
  <2>1. CASE UNCHANGED paneVars
    BY <2>1 DEF paneVars, PaneInv, OneMade, Told
  <2>2. CASE SessionExpires
    <3>1. \A p \in Panes : /\ xPane'[p] = [xPane[p] EXCEPT !.auth = Aged(xPane[p].auth)]
                           /\ xPane'[p] \in PaneRow
      BY <2>2, <2>q DEF SessionExpires, PaneRow, Aged
    <3>2. xPane' \in [Panes -> PaneRow]
      BY <2>2, <3>1 DEF SessionExpires
    <3>3. \A p \in Panes : Told(xPane[p])'
      BY <2>2, <2>q, <3>1 DEF SessionExpires, Told, Server, PaneRow
    <3>4. xCache' \in {"none", "good", "expired"}
      BY <2>2 DEF SessionExpires, Aged, PaneInv
    <3> QED BY <2>2, <3>2, <3>3, <3>4 DEF SessionExpires, Server, PaneInv, OneMade
  <2>3. ASSUME NEW p \in Panes, NEW o \in {"message", "no-message", "init-error"}, Boot(p, o)
        PROVE  PaneInv'
    <3> DEFINE q == CASE o # "message" -> [xPane[p] EXCEPT !.boot = o]
                      [] xCache = "none"     -> [xPane[p] EXCEPT !.boot = "signin"]
                      [] OTHER -> [xPane[p] EXCEPT !.auth = xCache, !.waits = "preview"]
    <3>1. q \in PaneRow /\ Told(q)
      BY <2>3, <2>q DEF Boot, PaneRow, Told, PaneInv
    <3>2. Pane(p, q) /\ UNCHANGED <<Server, xCache>>
      BY <2>3 DEF Boot
    <3> HIDE DEF q
    <3> QED BY <3>1, <3>2, PaneMoves DEF PaneInv
  <2>4. ASSUME NEW p \in Panes, Reload(p) PROVE PaneInv'
    <3>1. NewPane \in PaneRow /\ Told(NewPane)
      BY DEF NewPane, PaneRow, Told
    <3> QED BY <2>4, <3>1, PaneMoves DEF Reload, PaneInv
  <2>5. ASSUME NEW p \in Panes, SignIn(p) PROVE PaneInv'
    <3>1. xCache' \in {"none", "good", "expired"}
      BY <2>5 DEF SignIn, PaneInv
    <3>2. PICK c \in {"none", "good", "expired"} : c = xCache'
      BY <3>1
    <3> DEFINE q == [xPane[p] EXCEPT !.auth = c, !.waits = "preview"]
    <3>3. q \in PaneRow /\ Told(q)
      BY <2>5, <2>q DEF SignIn, PaneRow, Told
    <3>4. Pane(p, q) /\ UNCHANGED Server
      BY <2>5, <3>2 DEF SignIn
    <3> HIDE DEF q
    <3> QED BY <3>1, <3>3, <3>4, PaneMoves
  <2>6. ASSUME NEW p \in Panes, PreviewAnswers(p) PROVE PaneInv'
    <3>1. PICK a \in {xPane[p].auth, "none"} :
            Pane(p, [xPane[p] EXCEPT !.auth = a, !.boot = "ready", !.waits = "none"])
      <4>1. CASE xPane[p].auth # "good"
        BY <2>6, <4>1 DEF PreviewAnswers
      <4>2. CASE xPane[p].auth = "good"
        <5>1. [xPane[p] EXCEPT !.auth = xPane[p].auth, !.boot = "ready", !.waits = "none"]
                = [xPane[p] EXCEPT !.boot = "ready", !.waits = "none"]
          BY <2>q DEF PaneRow
        <5> QED BY <2>6, <4>2, <5>1 DEF PreviewAnswers
      <4> QED BY <4>1, <4>2
    <3> DEFINE q == [xPane[p] EXCEPT !.auth = a, !.boot = "ready", !.waits = "none"]
    <3>2. q \in PaneRow /\ Told(q)
      BY <2>q DEF PaneRow, Told
    <3>3. UNCHANGED Server /\ xCache' \in {"none", "good", "expired"}
      BY <2>6 DEF PreviewAnswers, PaneInv
    <3> HIDE DEF q
    <3> QED BY <3>1, <3>2, <3>3, PaneMoves DEF q
  <2>7. ASSUME NEW p \in Panes, SignOut(p) PROVE PaneInv'
    <3> DEFINE q == [xPane[p] EXCEPT !.auth = "none", !.boot = "signin", !.step = 0]
    <3>1. q \in PaneRow
      BY <2>q DEF PaneRow
    <3>2. q.step = 0 /\ q.waits = xPane[p].waits /\ q.made = xPane[p].made /\ q.link = xPane[p].link
      BY <2>q DEF PaneRow
    <3>3. Pane(p, q) /\ UNCHANGED Server /\ xCache' = "none"
      BY <2>7 DEF SignOut
    <3> HIDE DEF q
    <3>4. Told(q)
      BY <2>q, <3>2 DEF Told
    <3> QED BY <3>1, <3>3, <3>4, PaneMoves
  <2>8. ASSUME NEW p \in Panes, Walk(p) PROVE PaneInv'
    <3>1. PICK n \in {0, 1, 2} : Pane(p, [xPane[p] EXCEPT !.step = n])
      <4>1. CASE xPane[p].step \in {0, 1} /\ Pane(p, [xPane[p] EXCEPT !.step = @ + 1])
        BY <4>1
      <4> QED BY <2>8, <4>1 DEF Walk
    <3> DEFINE q == [xPane[p] EXCEPT !.step = n]
    <3>2. q \in PaneRow /\ Told(q)
      BY <2>q DEF PaneRow, Told
    <3>3. UNCHANGED <<Server, xCache>>
      BY <2>8 DEF Walk
    <3> HIDE DEF q
    <3> QED BY <3>1, <3>2, <3>3, PaneMoves DEF PaneInv, q
  <2>9. ASSUME NEW p \in Panes, ChooseLink(p) PROVE PaneInv'
    <3>1. PICK t \in {"loaded", "error"} :
            Pane(p, [xPane[p] EXCEPT !.want = ~@,
                                     !.tmpl = IF @ = "loaded" \/ xPane[p].want THEN @ ELSE t])
      BY <2>9 DEF ChooseLink
    <3> DEFINE q == [xPane[p] EXCEPT !.want = ~@,
                                     !.tmpl = IF @ = "loaded" \/ xPane[p].want THEN @ ELSE t]
    <3>2. q \in PaneRow /\ Told(q)
      BY <2>q DEF PaneRow, Told
    <3>3. Pane(p, q) /\ UNCHANGED <<Server, xCache>>
      BY <2>9, <3>1 DEF ChooseLink
    <3> HIDE DEF q
    <3> QED BY <3>2, <3>3, PaneMoves DEF PaneInv
  <2>10. ASSUME NEW p \in Panes, PressCreate(p) PROVE PaneInv'
    <3> DEFINE q == [xPane[p] EXCEPT !.waits = "create"]
    <3>1. q \in PaneRow /\ Told(q)
      BY <2>10, <2>q DEF PressCreate, PaneRow, Told
    <3>2. Pane(p, q) /\ UNCHANGED <<Server, xCache>>
      BY <2>10 DEF PressCreate
    <3> HIDE DEF q
    <3> QED BY <3>1, <3>2, PaneMoves DEF PaneInv
  <2>11. ASSUME NEW p \in Panes, NEW d \in PaneDeals, CreateAnswers(p, d) PROVE PaneInv'
    <3>1. CASE xPane[p].auth # "good"
      <4> DEFINE q == [xPane[p] EXCEPT !.waits = "none", !.auth = "none", !.boot = "signin",
                                       !.step = 0]
      <4>1. q \in PaneRow
        BY <2>q DEF PaneRow
      <4>2. q.step = 0 /\ q.waits = "none" /\ q.made = xPane[p].made /\ q.link = xPane[p].link
        BY <2>q DEF PaneRow
      <4>3. Pane(p, q) /\ UNCHANGED Server /\ xCache' = "none"
        BY <2>11, <3>1 DEF CreateAnswers
      <4> HIDE DEF q
      <4>4. Told(q)
        BY <2>q, <4>2 DEF Told
      <4> QED BY <4>1, <4>3, <4>4, PaneMoves
    <3>2. CASE xPane[p].auth = "good"
      <4>1. ImportMail(p, d) /\ UNCHANGED xCache
        BY <2>11, <3>2 DEF CreateAnswers
      <4>2. PICK q \in PaneRow :
              /\ Pane(p, q) /\ ~q.link /\ q.made \in {d, NoPaneDeal} /\ q.waits # "create"
              /\ q.step = 3 \/ q.waits = "link" => q.made = d
        <5>1. \/ Pane(p, [xPane[p] EXCEPT !.waits = "link", !.made = d])
              \/ Pane(p, [xPane[p] EXCEPT !.waits = "none", !.made = d, !.step = 3])
              \/ Pane(p, [xPane[p] EXCEPT !.waits = "none"])
          BY <2>11, <3>2 DEF CreateAnswers
        <5>2. /\ xPane[p].waits = "create" /\ xPane[p].made = NoPaneDeal /\ ~xPane[p].link
              /\ xPane[p].step # 3
          BY <2>11, <2>q DEF CreateAnswers, Told
        <5>3. CASE Pane(p, [xPane[p] EXCEPT !.waits = "link", !.made = d])
          <6> DEFINE v == [xPane[p] EXCEPT !.waits = "link", !.made = d]
          <6>1. v \in PaneRow
            BY <2>q DEF PaneRow
          <6>2. v.waits = "link" /\ v.made = d /\ v.link = xPane[p].link
            BY <2>q DEF PaneRow
          <6> HIDE DEF v
          <6>3. Pane(p, v)
            BY <5>3 DEF v
          <6> QED BY <5>2, <6>1, <6>2, <6>3
        <5>4. CASE Pane(p, [xPane[p] EXCEPT !.waits = "none", !.made = d, !.step = 3])
          <6> DEFINE v == [xPane[p] EXCEPT !.waits = "none", !.made = d, !.step = 3]
          <6>1. v \in PaneRow
            BY <2>q DEF PaneRow
          <6>2. v.waits = "none" /\ v.made = d /\ v.link = xPane[p].link
            BY <2>q DEF PaneRow
          <6> HIDE DEF v
          <6>3. Pane(p, v)
            BY <5>4 DEF v
          <6> QED BY <5>2, <6>1, <6>2, <6>3
        <5>5. CASE Pane(p, [xPane[p] EXCEPT !.waits = "none"])
          BY <5>2, <5>5, <2>q DEF PaneRow
        <5> QED BY <5>1, <5>3, <5>4, <5>5
      <4>3. /\ xPane' \in [Panes -> PaneRow] /\ xPane'[p] = q
            /\ \A r \in Panes \ {p} : xPane'[r] = xPane[r]
        BY <4>2 DEF PaneInv, Pane
      <4>4. xDeals' = xDeals \cup {d} /\ xLanded' = d /\ UNCHANGED <<xLinks, xHasId>>
        BY <4>1 DEF ImportMail
      <4>5. OneMade'
        <5> SUFFICES ASSUME xHasId PROVE xDeals \cup {d} = {d}
          BY <4>4, PaneAssumption DEF OneMade
        <5>1. CASE xLanded = NoPaneDeal
          BY <5>1 DEF PaneInv, OneMade
        <5>2. CASE xLanded # NoPaneDeal
          BY <4>1, <5>2 DEF ImportMail, Imported, PaneInv, OneMade
        <5> QED BY <5>1, <5>2
      <4>6. \A r \in Panes : Told(xPane[r])'
        <5> SUFFICES ASSUME NEW r \in Panes PROVE Told(xPane[r])'
          OBVIOUS
        <5>1. CASE r = p
          BY <4>2, <4>3, <4>4, <5>1, PaneAssumption DEF Told
        <5>2. CASE r # p
          BY <4>3, <4>4, <5>2, <2>q DEF Told
        <5> QED BY <5>1, <5>2
      <4> QED BY <4>1, <4>3, <4>4, <4>5, <4>6 DEF PaneInv
    <3> QED BY <3>1, <3>2 DEF PaneInv
  <2>12. ASSUME NEW p \in Panes, LinkAnswers(p) PROVE PaneInv'
    <3>1. PICK ok \in BOOLEAN :
            /\ xLinks' = IF ok THEN [xLinks EXCEPT ![xPane[p].made] = @ + 1] ELSE xLinks
            /\ Pane(p, [xPane[p] EXCEPT !.waits = "none", !.link = ok, !.step = 3])
      BY <2>12 DEF LinkAnswers
    <3> DEFINE q == [xPane[p] EXCEPT !.waits = "none", !.link = ok, !.step = 3]
    <3> DEFINE m == xPane[p].made
    <3>2. xPane[p].waits = "link" /\ UNCHANGED <<xCache, xLanded, xDeals, xHasId>>
      BY <2>12 DEF LinkAnswers
    <3>3. m \in PaneDeals /\ m \in xDeals
      BY <3>2, <2>q DEF Told, PaneRow
    <3>4. /\ q \in PaneRow /\ q.made = m /\ q.waits = "none" /\ (q.link <=> ok)
      <4>1. q \in PaneRow
        BY <2>q DEF PaneRow
      <4>2. q.made = m /\ q.waits = "none" /\ q.link = ok
        BY <2>q DEF PaneRow
      <4> QED BY <4>1, <4>2
    <3>5. /\ xPane' \in [Panes -> PaneRow] /\ xPane'[p] = q
          /\ \A r \in Panes \ {p} : xPane'[r] = xPane[r]
      BY <3>1, <3>4 DEF PaneInv, Pane
    <3>6. /\ xLinks' \in [PaneDeals -> Nat] /\ (ok => xLinks'[m] > 0)
          /\ \A d \in PaneDeals : xLinks'[d] >= xLinks[d]
      BY <3>1, <3>3 DEF PaneInv
    <3>7. \A r \in Panes : Told(xPane[r])'
      <4> HIDE DEF q
      <4> SUFFICES ASSUME NEW r \in Panes PROVE Told(xPane[r])'
        OBVIOUS
      <4>1. CASE r = p
        BY <3>2, <3>3, <3>4, <3>5, <3>6, <4>1, PaneAssumption DEF Told
      <4>2. CASE r # p
        <5>1. xPane[r].link => xPane[r].made \in PaneDeals /\ xLinks[xPane[r].made] \in Nat
          BY <2>q DEF Told, PaneRow, PaneInv
        <5>2. xLinks[xPane[r].made]' >= xLinks[xPane[r].made] \/ ~xPane[r].link
          BY <3>5, <3>6, <4>2, <5>1
        <5>3. xPane[r].link => xLinks[xPane[r].made]' > 0
          BY <3>5, <3>6, <4>2, <5>1, <5>2, <2>q DEF Told, PaneInv
        <5> QED BY <3>2, <3>5, <4>2, <5>3, <2>q DEF Told
      <4> QED BY <4>1, <4>2
    <3> QED BY <3>2, <3>5, <3>6, <3>7 DEF PaneInv, OneMade
  <2> QED
    BY <2>1, <2>2, <2>3, <2>4, <2>5, <2>6, <2>7, <2>8, <2>9, <2>10, <2>11, <2>12 DEF PaneNext
<1> QED BY <1>1, <1>2, PTL DEF PaneSpec

(* A mail with a Message-ID becomes one opportunity, and a pane that says  *)
(* it was created shows that one.                                          *)
THEOREM OneDealOfMail == PaneSpec => []OneDealPerMail
<1>1. PaneInv => OneDealPerMail
  <2> SUFFICES ASSUME PaneInv PROVE OneDealPerMail
    OBVIOUS
  <2>1. xHasId => xDeals = {} \/ xDeals = {xLanded}
    BY DEF PaneInv, OneMade
  <2>2. Cardinality({}) = 0 /\ Cardinality({xLanded}) = 1
    BY FS_EmptySet, FS_Singleton
  <2>3. xHasId => Cardinality(xDeals) <= 1
    BY <2>1, <2>2
  <2> QED BY <2>3 DEF PaneInv, Told, OneDealPerMail
<1> QED BY <1>1, PaneInvariant, PTL

-----------------------------------------------------------------------------
(* A behaviour of the whole is one of each part.                           *)
LEMMA Projections ==
  IntakeSpec => GatheringSpec /\ IngestionSpec /\ OdooSpec /\ MailSpec /\ PaneSpec /\ NewSpec
<1>1. IntakeInit => GatheringInit /\ IngestionInit /\ OdooInit /\ MailInit /\ PaneInit /\ NewInit
  BY DEF IntakeInit
<1>2. [IntakeNext]_intakeVars =>
        /\ [GatheringNext]_gatheringVars /\ [IngestionNext]_ingestionVars
        /\ [OdooNext]_odooVars /\ [MailNext]_mailVars /\ [PaneNext]_paneVars /\ [NewNext]_newVars
  BY DEF IntakeNext, Idlers, intakeVars
<1> QED
  BY <1>1, <1>2, PTL DEF IntakeSpec, GatheringSpec, IngestionSpec, OdooSpec, MailSpec, PaneSpec,
                         NewSpec

(* The same of the intake as a whole: answers are stored where the page    *)
(* showed the question, if no rule leads into a loop from outside.         *)
THEOREM IntakeAnswersShown == Enclosed => (IntakeSpec => []AnswersWhereShown)
BY Projections, AnswersShown, PTL

(* What reaches the system twice is there once: the submission, the        *)
(* artifact of a mail, its opportunity and its lead.                       *)
THEOREM TwiceIsOnce == IntakeSpec => []NothingTwice
BY Projections, SubmittedOnce, MailsOnce, OneDealOfMail, LeadsOwed, PTL DEF NothingTwice

(* What the workspace says of the systems beside it is so.                 *)
THEOREM MirrorsTrue == IntakeSpec => []MirrorsAreTrue
BY Projections, MirrorFresh, SendersNamed, PTL DEF MirrorsAreTrue

-----------------------------------------------------------------------------
(* The page that starts opportunities.  The wizard: a call that was sent   *)
(* is the only one, and under a link that is shown there is none.          *)
Calls == [at : {"none"}] \cup [at : {"sent"}, to : Clients \cup {NoClient},
                                        template : Offered \cup {NoTemplate}]
           \cup [at : {"issued"}, link : Nat \ {0}] \cup [at : {"refused"}]
WizardRow ==
  [step : {1, 2, 3}, to : Clients \cup {NoClient}, template : Offered \cup {NoTemplate},
   call : Calls, link : Nat, lost : Nat]
Owing(w) == (IF w.link # 0 THEN 1 ELSE 0) + (IF w.call.at = "issued" THEN 1 ELSE 0)
WizardInv ==
  /\ wizard \in WizardRow
  /\ issued \in Seq([to : Clients \cup {NoClient}, template : Offered \cup {NoTemplate}])
  /\ Len(issued) = wizard.lost + Owing(wizard)
  /\ LinkStaysShown

(* Only what the wizard does changes it.                                   *)
WizardRests ==
  \/ ToggleMode \/ HandleFiles \/ RemoveArtifact \/ RetryArtifact \/ TypeText \/ SwitchTab
  \/ PressCreateDeal \/ ServeCreate \/ CreateAnswered \/ Leave
  \/ \E n \in DOMAIN preview.reads : PreviewRead(n)
  \/ \E j \in DOMAIN uploads : AddRow(j) \/ Presign(j) \/ Put(j) \/ UploadFails(j)
LEMMA WizardAlone == WizardRests => UNCHANGED <<wizard, issued>>
BY DEF WizardRests, ToggleMode, HandleFiles, RemoveArtifact, RetryArtifact, TypeText, SwitchTab,
       PressCreateDeal, ServeCreate, CreateAnswered, Leave, PreviewRead, AddRow, Presign, Put,
       UploadFails, server

(* A link is counted once, from its issue on.                              *)
LEMMA WizardSteps == WizardInv /\ [NewNext]_newVars => WizardInv'
<1> SUFFICES ASSUME WizardInv, [NewNext]_newVars PROVE WizardInv'
  OBVIOUS
<1>w. wizard \in WizardRow /\ wizard.lost \in Nat /\ wizard.link \in Nat
  BY DEF WizardInv, WizardRow
<1>1. CASE UNCHANGED <<wizard, issued>>
  BY <1>1 DEF WizardInv, LinkStaysShown
<1>2. ASSUME NEW w \in WizardRow, wizard' = w, UNCHANGED issued, w.call.at = wizard.call.at,
             w.call = NotSent <=> wizard.call = NotSent, w.link = wizard.link,
             w.lost = wizard.lost, wizard.link # 0 => w.step = wizard.step
      PROVE  WizardInv'
  BY <1>2 DEF WizardInv, LinkStaysShown, Owing
<1>3. CASE LoadTemplates
  <2>1. (CHOOSE t \in Offered : TRUE) \in Offered
    BY NewAssumption
  <2>2. PICK t \in Offered : wizard' = [wizard EXCEPT !.template = t]
    BY <1>3, <2>1 DEF LoadTemplates
  <2> DEFINE w == [wizard EXCEPT !.template = t]
  <2>3. w \in WizardRow
    BY <1>w DEF WizardRow
  <2>4. w.call = wizard.call /\ w.link = wizard.link /\ w.lost = wizard.lost /\ w.step = wizard.step
    BY <1>w DEF WizardRow
  <2>5. wizard' = w /\ UNCHANGED issued
    BY <1>3, <2>2 DEF LoadTemplates, server
  <2> HIDE DEF w
  <2> QED BY <1>2, <2>3, <2>4, <2>5
<1>4. CASE Jump
  <2>1. PICK n \in 1..3 : n # wizard.step /\ CanJumpTo(n) /\ wizard' = [wizard EXCEPT !.step = n]
    BY <1>4 DEF Jump
  <2>2. wizard.link = 0
    BY <2>1 DEF CanJumpTo, WizardInv, LinkStaysShown
  <2> DEFINE w == [wizard EXCEPT !.step = n]
  <2>3. n \in {1, 2, 3}
    BY <2>1
  <2>4. w \in WizardRow
    BY <1>w, <2>3 DEF WizardRow
  <2>5. w.call = wizard.call /\ w.link = wizard.link /\ w.lost = wizard.lost
    BY <1>w DEF WizardRow
  <2>6. wizard' = w /\ UNCHANGED issued
    BY <1>4, <2>1 DEF Jump, server
  <2> HIDE DEF w
  <2> QED BY <1>2, <2>2, <2>4, <2>5, <2>6
<1>5. CASE TypeClient
  <2>1. PICK c \in Clients : wizard' = [wizard EXCEPT !.to = c]
    BY <1>5 DEF TypeClient
  <2> DEFINE w == [wizard EXCEPT !.to = c]
  <2>3. w \in WizardRow
    BY <1>w DEF WizardRow
  <2>4. w.call = wizard.call /\ w.link = wizard.link /\ w.lost = wizard.lost /\ w.step = wizard.step
    BY <1>w DEF WizardRow
  <2>5. wizard' = w /\ UNCHANGED issued
    BY <1>5, <2>1 DEF TypeClient, server
  <2> HIDE DEF w
  <2> QED BY <1>2, <2>3, <2>4, <2>5
<1>6. CASE ChooseTemplate
  <2>1. PICK t \in Offered : wizard' = [wizard EXCEPT !.template = t]
    BY <1>6 DEF ChooseTemplate
  <2> DEFINE w == [wizard EXCEPT !.template = t]
  <2>3. w \in WizardRow
    BY <1>w DEF WizardRow
  <2>4. w.call = wizard.call /\ w.link = wizard.link /\ w.lost = wizard.lost /\ w.step = wizard.step
    BY <1>w DEF WizardRow
  <2>5. wizard' = w /\ UNCHANGED issued
    BY <1>6, <2>1 DEF ChooseTemplate, server
  <2> HIDE DEF w
  <2> QED BY <1>2, <2>3, <2>4, <2>5
<1>7. CASE PressIssue
  <2> DEFINE c == [at |-> "sent", to |-> wizard.to, template |-> wizard.template]
  <2> DEFINE w == [wizard EXCEPT !.call = c]
  <2>1. c \in Calls /\ c.at = "sent"
    BY <1>w DEF Calls, WizardRow
  <2> HIDE DEF c
  <2>2. w \in WizardRow /\ w.call = c
    BY <1>w, <2>1 DEF WizardRow
  <2>3. w.link = wizard.link /\ w.lost = wizard.lost /\ w.step = wizard.step
    BY <1>w DEF WizardRow
  <2>4. wizard' = w /\ UNCHANGED issued /\ wizard.call = NotSent /\ wizard.step = 2
    BY <1>7 DEF PressIssue, server, c
  <2>5. wizard.link = 0 /\ wizard.call.at = "none"
    BY <2>4 DEF WizardInv, LinkStaysShown, NotSent
  <2> HIDE DEF w
  <2> QED BY <2>1, <2>2, <2>3, <2>4, <2>5 DEF WizardInv, LinkStaysShown, Owing
<1>8. CASE Issue
  <2>1. wizard.call.at = "sent" /\ wizard.link = 0
    BY <1>8 DEF Issue, WizardInv, LinkStaysShown, NotSent
  <2>2. CASE /\ issued' = Append(issued, [to |-> wizard.call.to, template |-> wizard.call.template])
             /\ wizard' = [wizard EXCEPT !.call = [at |-> "issued", link |-> Len(issued')]]
    <3> DEFINE r == [to |-> wizard.call.to, template |-> wizard.call.template]
    <3>1. r \in [to : Clients \cup {NoClient}, template : Offered \cup {NoTemplate}]
      BY <2>1, <1>w DEF WizardRow, Calls
    <3> HIDE DEF r
    <3>2. /\ issued' \in Seq([to : Clients \cup {NoClient}, template : Offered \cup {NoTemplate}])
          /\ Len(issued') = Len(issued) + 1 /\ Len(issued) \in Nat
      BY <2>2, <3>1 DEF WizardInv, r
    <3>3. PICK n \in Nat \ {0} : n = Len(issued')
      BY <3>2
    <3> DEFINE c == [at |-> "issued", link |-> n]
    <3> DEFINE w == [wizard EXCEPT !.call = c]
    <3>4. c \in Calls /\ c.at = "issued"
      BY <3>3 DEF Calls
    <3>5. wizard' = w
      BY <2>2, <3>3
    <3> HIDE DEF c
    <3>6. w \in WizardRow /\ w.call = c
      BY <1>w, <3>4 DEF WizardRow
    <3>7. w.link = wizard.link /\ w.lost = wizard.lost
      BY <1>w DEF WizardRow
    <3> HIDE DEF w
    <3> QED BY <1>w, <2>1, <3>2, <3>4, <3>5, <3>6, <3>7 DEF WizardInv, LinkStaysShown, Owing
  <2>3. CASE UNCHANGED issued /\ wizard' = [wizard EXCEPT !.call = [at |-> "refused"]]
    <3> DEFINE c == [at |-> "refused"]
    <3> DEFINE w == [wizard EXCEPT !.call = c]
    <3>1. c \in Calls /\ c.at = "refused"
      BY DEF Calls
    <3>2. wizard' = w
      BY <2>3
    <3> HIDE DEF c
    <3>3. w \in WizardRow /\ w.call = c
      BY <1>w, <3>1 DEF WizardRow
    <3>4. w.link = wizard.link /\ w.lost = wizard.lost
      BY <1>w DEF WizardRow
    <3> HIDE DEF w
    <3> QED BY <1>w, <2>1, <2>3, <3>1, <3>2, <3>3, <3>4 DEF WizardInv, LinkStaysShown, Owing
  <2> QED BY <1>8, <2>2, <2>3 DEF Issue
<1>9. CASE IssueAnswered
  <2> DEFINE w1 == [wizard EXCEPT !.link = wizard.call.link, !.step = 3, !.call = NotSent]
             w2 == [wizard EXCEPT !.call = NotSent]
             w3 == [wizard EXCEPT !.call = NotSent, !.lost = @ + 1]
  <2>1. UNCHANGED issued /\ wizard.call.at \in {"issued", "refused"}
    BY <1>9 DEF IssueAnswered, server
  <2>2. wizard.link = 0
    BY <2>1 DEF WizardInv, LinkStaysShown, NotSent
  <2>3. NotSent \in Calls /\ NotSent.at = "none"
    BY DEF NotSent, Calls
  <2>4. CASE wizard.call.at = "issued" /\ wizard' = w1
    <3>1. wizard.call.link \in Nat \ {0}
      BY <1>w, <2>4 DEF WizardRow, Calls
    <3>2. PICK l \in Nat \ {0} : l = wizard.call.link
      BY <3>1
    <3>3. w1 = [wizard EXCEPT !.link = l, !.step = 3, !.call = NotSent]
      BY <3>2
    <3>4. w1 \in WizardRow
      <4>1. [wizard EXCEPT !.link = l, !.call = NotSent] \in WizardRow
        BY <1>w, <2>3 DEF WizardRow
      <4>2. w1 = [[wizard EXCEPT !.link = l, !.call = NotSent] EXCEPT !.step = 3]
        BY <1>w, <3>3 DEF WizardRow
      <4> QED BY <4>1, <4>2 DEF WizardRow
    <3>5. w1.call = NotSent /\ w1.link = l /\ w1.lost = wizard.lost /\ w1.step = 3
      BY <1>w, <3>3 DEF WizardRow
    <3> HIDE DEF w1
    <3> QED BY <1>w, <2>1, <2>2, <2>3, <2>4, <3>4, <3>5 DEF WizardInv, LinkStaysShown, Owing
  <2>5. CASE wizard.call.at = "refused" /\ wizard' = w2
    <3>1. w2 \in WizardRow
      BY <1>w, <2>3 DEF WizardRow
    <3>2. w2.call = NotSent /\ w2.link = wizard.link /\ w2.lost = wizard.lost
      BY <1>w DEF WizardRow
    <3> HIDE DEF w2
    <3> QED BY <1>w, <2>1, <2>2, <2>3, <2>5, <3>1, <3>2 DEF WizardInv, LinkStaysShown, Owing
  <2>6. CASE wizard.call.at = "issued" /\ wizard' = w3
    <3>1. w3 \in WizardRow
      <4>1. PICK n \in Nat : n = wizard.lost + 1
        BY <1>w
      <4>2. w3 = [wizard EXCEPT !.call = NotSent, !.lost = n]
        BY <4>1
      <4> HIDE DEF w3
      <4> QED BY <1>w, <2>3, <4>2 DEF WizardRow
    <3>2. w3.call = NotSent /\ w3.link = wizard.link /\ w3.lost = wizard.lost + 1
      BY <1>w DEF WizardRow
    <3> HIDE DEF w3
    <3> QED BY <1>w, <2>1, <2>2, <2>3, <2>6, <3>1, <3>2 DEF WizardInv, LinkStaysShown, Owing
  <2> QED BY <1>9, <2>4, <2>5, <2>6 DEF IssueAnswered
<1>10. WizardRests => WizardInv'
  BY <1>1, WizardAlone
<1>11. UNCHANGED newVars => WizardInv'
  BY <1>1 DEF newVars, server
<1> QED
  BY <1>3, <1>4, <1>5, <1>6, <1>7, <1>8, <1>9, <1>10, <1>11 DEF NewNext, WizardRests

(* The preview: what was asked for last is what is chosen.                 *)
PreviewInv ==
  /\ wizard.template \in Offered \cup {NoTemplate}
  /\ preview \in [of : Offered \cup {NoTemplate}, loading : BOOLEAN,
                  reads : Seq(Offered \cup {NoTemplate})]
  /\ mode # "gone" /\ ~ShowsRail => preview = NoPreview
  /\ ShowsRail => LET reads == preview.reads IN
       /\ reads # <<>> /\ reads[Len(reads)] # NoTemplate => reads[Len(reads)] = wizard.template
       /\ PreviewIsOfChosen

(* An answer counts only when it is to the last question.                 *)
LEMMA PreviewSteps == WizardInv /\ PreviewInv /\ [NewNext]_newVars => PreviewInv'
<1> SUFFICES ASSUME WizardInv, PreviewInv, [NewNext]_newVars PROVE PreviewInv'
  OBVIOUS
<1> DEFINE T == Offered \cup {NoTemplate}
           P == [of : T, loading : BOOLEAN, reads : Seq(T)]
           Last(p) == p.reads[Len(p.reads)]
           Right(p, t) == /\ p.reads # <<>> /\ Last(p) # NoTemplate => Last(p) = t
                          /\ ~p.loading /\ p.of # NoTemplate => p.of = t
<1>t. preview \in P /\ wizard.template \in T /\ NoTemplate \notin Offered
  BY NewAssumption DEF PreviewInv
<1>0. NoPreview \in P /\ \A t : Right(NoPreview, t)
  BY DEF NoPreview
<1>r. ASSUME NEW p \in P, NEW t \in T
      PROVE  Reading(p, t) \in P /\ Right(Reading(p, t), t)
             /\ (t = NoTemplate => Reading(p, t) = NoPreview)
  <2>1. CASE t = NoTemplate
    BY <2>1, <1>0 DEF Reading
  <2>2. CASE t # NoTemplate
    <3> DEFINE s == Append(p.reads, t)
    <3>1. s \in Seq(T) /\ s # <<>> /\ s[Len(s)] = t
      OBVIOUS
    <3> HIDE DEF s
    <3>2. Reading(p, t) = [p EXCEPT !.loading = TRUE, !.reads = s]
      BY <2>2 DEF Reading, s
    <3>3. Reading(p, t) \in P /\ Reading(p, t).reads = s /\ Reading(p, t).loading
      BY <3>1, <3>2
    <3> QED BY <2>2, <3>1, <3>3
  <2> QED BY <2>1, <2>2
<1>k. ASSUME wizard.template' \in T, preview' \in P,
             ShowsRail' => Right(preview', wizard.template'),
             mode' # "gone" /\ ~ShowsRail' => preview' = NoPreview
      PROVE  PreviewInv'
  BY <1>k DEF PreviewInv, PreviewIsOfChosen
<1>h. /\ ShowsRail => Right(preview, wizard.template)
      /\ mode # "gone" /\ ~ShowsRail => preview = NoPreview
  BY DEF PreviewInv, PreviewIsOfChosen
<1>w. wizard \in WizardRow /\ LinkStaysShown
  BY DEF WizardInv
<1> HIDE DEF P, T, Last, Right
<1>1. CASE UNCHANGED <<mode, wizard, preview>>
  BY <1>1, <1>k, <1>t, <1>h DEF ShowsRail
<1>2. ASSUME UNCHANGED <<mode, preview>>, wizard'.template = wizard.template,
             wizard'.link = wizard.link, wizard.link # 0 => wizard'.step = wizard.step
      PROVE  PreviewInv'
  BY <1>2, <1>k, <1>t, <1>h DEF ShowsRail
<1>3. CASE LoadTemplates
  <2>1. (CHOOSE t \in Offered : TRUE) \in Offered
    BY NewAssumption
  <2>2. PICK t \in T : /\ wizard' = [wizard EXCEPT !.template = t]
                       /\ preview' = IF ShowsRail THEN Reading(preview, t) ELSE preview
    BY <1>3, <2>1 DEF LoadTemplates, T, WizardInv, WizardRow
  <2>3. /\ wizard'.template = t /\ wizard'.link = wizard.link /\ wizard'.step = wizard.step
        /\ mode' = mode /\ mode # "gone"
    BY <1>3, <2>2, <1>w DEF LoadTemplates, WizardRow
  <2>4. ShowsRail' <=> ShowsRail
    BY <2>3 DEF ShowsRail
  <2> QED BY <1>k, <1>r, <1>t, <1>h, <2>2, <2>3, <2>4
<1>4. CASE Jump
  <2>1. PICK n \in 1..3 : n # wizard.step /\ CanJumpTo(n) /\ wizard' = [wizard EXCEPT !.step = n]
    BY <1>4 DEF Jump
  <2>2. wizard.link = 0
    BY <2>1, <1>w DEF CanJumpTo, LinkStaysShown
  <2>3. wizard'.template = wizard.template /\ wizard'.link = wizard.link
    BY <2>1, <1>w DEF WizardRow
  <2> QED BY <1>2, <1>4, <2>2, <2>3 DEF Jump
<1>5. CASE TypeClient
  <2>1. PICK c \in Clients : wizard' = [wizard EXCEPT !.to = c]
    BY <1>5 DEF TypeClient
  <2>2. /\ wizard'.template = wizard.template /\ wizard'.link = wizard.link
        /\ wizard'.step = wizard.step
    BY <2>1, <1>w DEF WizardRow
  <2> QED BY <1>2, <1>5, <2>2 DEF TypeClient
<1>6. CASE ChooseTemplate
  <2>1. PICK t \in T : wizard' = [wizard EXCEPT !.template = t] /\ preview' = Reading(preview, t)
    BY <1>6 DEF ChooseTemplate, T
  <2>2. wizard'.template = t /\ wizard'.link = wizard.link /\ wizard'.step = wizard.step
    BY <2>1, <1>w DEF WizardRow
  <2>3. ShowsRail'
    BY <1>6, <2>2 DEF ChooseTemplate, ShowsRail
  <2> QED BY <1>k, <1>r, <1>t, <2>1, <2>2, <2>3
<1>7. CASE PressIssue
  <2>1. PICK c : wizard' = [wizard EXCEPT !.call = c]
    BY <1>7 DEF PressIssue
  <2>2. /\ wizard'.template = wizard.template /\ wizard'.link = wizard.link
        /\ wizard'.step = wizard.step
    BY <2>1, <1>w DEF WizardRow
  <2> QED BY <1>2, <1>7, <2>2 DEF PressIssue
<1>8. CASE Issue
  <2>1. PICK c : wizard' = [wizard EXCEPT !.call = c]
    BY <1>8 DEF Issue
  <2>2. /\ wizard'.template = wizard.template /\ wizard'.link = wizard.link
        /\ wizard'.step = wizard.step
    BY <2>1, <1>w DEF WizardRow
  <2> QED BY <1>2, <1>8, <2>2 DEF Issue
<1>9. CASE IssueAnswered
  <2>1. CASE /\ wizard' = [wizard EXCEPT !.link = wizard.call.link, !.step = 3, !.call = NotSent]
             /\ preview' = NoPreview
    <3>1. wizard'.template = wizard.template
      BY <2>1, <1>w DEF WizardRow
    <3> QED BY <1>k, <1>t, <1>0, <2>1, <3>1
  <2>2. CASE UNCHANGED preview /\ \E n : wizard' = [wizard EXCEPT !.call = NotSent, !.lost = n]
    <3>1. /\ wizard'.template = wizard.template /\ wizard'.link = wizard.link
          /\ wizard'.step = wizard.step
      BY <2>2, <1>w DEF WizardRow
    <3> QED BY <1>2, <1>9, <2>2, <3>1 DEF IssueAnswered
  <2>3. CASE UNCHANGED preview /\ wizard' = [wizard EXCEPT !.call = NotSent]
    <3>1. /\ wizard'.template = wizard.template /\ wizard'.link = wizard.link
          /\ wizard'.step = wizard.step
      BY <2>3, <1>w DEF WizardRow
    <3> QED BY <1>2, <1>9, <2>3, <3>1 DEF IssueAnswered
  <2> QED BY <1>9, <2>1, <2>2, <2>3 DEF IssueAnswered
<1>10. CASE ToggleMode
  <2>1. UNCHANGED wizard /\ mode' # "gone"
    BY <1>10 DEF ToggleMode
  <2>2. ShowsRail' <=> mode # "link" /\ ~(wizard.step = 3 /\ wizard.link # 0)
    BY <1>10, <2>1 DEF ToggleMode, ShowsRail
  <2>3. CASE ShowsRail' /\ mode = "have_it"
    <3>1. preview' = Reading(NoPreview, wizard.template)
      BY <1>10, <2>2, <2>3 DEF ToggleMode
    <3> QED BY <1>k, <1>r, <1>t, <1>0, <2>1, <2>3, <3>1
  <2>4. CASE ~ShowsRail'
    <3>1. preview' = NoPreview
      BY <1>10, <2>2, <2>4 DEF ToggleMode
    <3> QED BY <1>k, <1>t, <1>0, <2>1, <2>4, <3>1
  <2>5. CASE ShowsRail' /\ mode # "have_it"
    <3>1. preview' = NoPreview
      BY <1>10, <2>2, <2>5 DEF ToggleMode
    <3> QED BY <1>k, <1>t, <1>0, <2>1, <2>5, <3>1
  <2> QED BY <2>3, <2>4, <2>5
<1>11. CASE Leave
  <2>1. ~ShowsRail' /\ mode' = "gone" /\ UNCHANGED <<wizard, preview>>
    BY <1>11 DEF Leave, ShowsRail
  <2> QED BY <1>k, <1>t, <2>1
<1>12. ASSUME NEW n \in DOMAIN preview.reads, PreviewRead(n) PROVE PreviewInv'
  <2>1. /\ ShowsRail /\ ShowsRail' /\ UNCHANGED wizard /\ n \in 1..Len(preview.reads)
        /\ preview.reads \in Seq(T) /\ preview.reads # <<>>
    BY <1>12, <1>t DEF PreviewRead, ShowsRail, P
  <2>2. [preview.reads EXCEPT ![n] = NoTemplate] \in Seq(T)
        /\ Len([preview.reads EXCEPT ![n] = NoTemplate]) = Len(preview.reads)
    BY <2>1, <1>t DEF T
  <2> DEFINE reads == [preview.reads EXCEPT ![n] = NoTemplate]
  <2>3. /\ n = Len(preview.reads) => reads[Len(reads)] = NoTemplate
        /\ n # Len(preview.reads) => reads[Len(reads)] = Last(preview)
    BY <2>1, <2>2 DEF Last
  <2>4. PICK got \in {preview.reads[n], NoTemplate} :
          preview' = IF Heard(preview, n) THEN [of |-> got, loading |-> FALSE, reads |-> reads]
                     ELSE [preview EXCEPT !.reads[n] = NoTemplate]
    BY <1>12 DEF PreviewRead
  <2>5. CASE n = Len(preview.reads)
    <3>1. preview' = [of |-> got, loading |-> FALSE, reads |-> reads]
      BY <2>4, <2>5 DEF Heard
    <3>2. got \in T /\ (got # NoTemplate => got = wizard.template)
      BY <2>1, <2>4, <2>5, <1>t, <1>h, <1>12 DEF Right, Last, T, PreviewRead
    <3> HIDE DEF reads
    <3>3. preview' \in P /\ Right(preview', wizard.template)
      BY <2>2, <2>3, <2>5, <3>1, <3>2 DEF P, Right, Last, reads
    <3> QED BY <1>k, <1>t, <2>1, <3>3
  <2>6. CASE n # Len(preview.reads)
    <3>1. preview' = [preview EXCEPT !.reads = reads]
      BY <2>4, <2>6, <1>t DEF Heard, P
    <3> HIDE DEF reads
    <3>2. preview' \in P /\ preview'.reads = reads /\ preview'.of = preview.of
          /\ preview'.loading = preview.loading
      BY <3>1, <2>2, <1>t DEF P, reads
    <3>3. Right(preview', wizard.template)
      BY <2>1, <2>2, <2>3, <2>6, <3>2, <1>h DEF Right, Last, reads
    <3> QED BY <1>k, <1>t, <2>1, <3>2, <3>3
  <2> QED BY <2>5, <2>6
<1>13. CASE \/ HandleFiles \/ RemoveArtifact \/ RetryArtifact \/ TypeText \/ SwitchTab
            \/ PressCreateDeal \/ ServeCreate \/ CreateAnswered
            \/ \E j \in DOMAIN uploads : AddRow(j) \/ Presign(j) \/ Put(j) \/ UploadFails(j)
  <2>1. UNCHANGED <<mode, wizard, preview>>
    BY <1>13 DEF HandleFiles, RemoveArtifact, RetryArtifact, TypeText, SwitchTab, PressCreateDeal,
                 ServeCreate, CreateAnswered, AddRow, Presign, Put, UploadFails
  <2> QED BY <1>1, <2>1
<1>14. UNCHANGED newVars => PreviewInv'
  BY <1>1 DEF newVars
<1> QED
  BY <1>3, <1>4, <1>5, <1>6, <1>7, <1>8, <1>9, <1>10, <1>11, <1>12, <1>13, <1>14 DEF NewNext

(* The form: a row that is ready is stored, so are the rows of every       *)
(* submission and deal, and an uploading row has its upload.               *)
FileRow == [id : Nat, st : {"uploading", "ready", "failed"}]
SubRow == [at : {"sent", "served"}, text : BOOLEAN, rows : SUBSET Nat]
NoSub == [at : {"none"}]
FormState ==
  [tab : {"paste", "drop"}, text : BOOLEAN, rows : SUBSET FileRow, sub : SubRow \cup NoSub]
Upload == [rest : Seq(Nat), row : Nat, at : {"next", "presign", "put"}, here : BOOLEAN]
MadeRow == [text : BOOLEAN, rows : SUBSET Nat]
Budget == [{"clicks", "files", "mishaps"} -> Nat]
Stored(sub) == sub.at # "none" => sub.rows \subseteq stored
FilesInv ==
  /\ start \in Budget /\ form \in FormState /\ strays \subseteq SubRow /\ uploads \in Seq(Upload)
  /\ stored \subseteq Nat /\ made \in Seq(MadeRow)
  /\ \A row \in form.rows : row.st = "ready" => row.id \in stored
  /\ Stored(form.sub) /\ \A s \in strays : s.rows \subseteq stored
  /\ FilesArrived /\ SpinnersTurn

(* A field of the form is written.                                         *)
LEMMA FormTyped ==
  ASSUME NEW f \in FormState
  PROVE  f.rows \in SUBSET FileRow /\ f.sub \in SubRow \cup NoSub
BY DEF FormState

LEMMA RowsWritten ==
  ASSUME NEW f \in FormState, NEW rows \in SUBSET FileRow
  PROVE  \E g \in FormState : g = [f EXCEPT !.rows = rows] /\ g.rows = rows /\ g.sub = f.sub
<1>1. [f EXCEPT !.rows = rows] \in FormState
  BY DEF FormState
<1>2. [f EXCEPT !.rows = rows].rows = rows /\ [f EXCEPT !.rows = rows].sub = f.sub
  BY DEF FormState
<1> QED BY <1>1, <1>2

LEMMA SubWritten ==
  ASSUME NEW f \in FormState, NEW sub \in SubRow \cup NoSub
  PROVE  \E g \in FormState : g = [f EXCEPT !.sub = sub] /\ g.rows = f.rows /\ g.sub = sub
<1>1. [f EXCEPT !.sub = sub] \in FormState
  BY DEF FormState
<1>2. [f EXCEPT !.sub = sub].rows = f.rows /\ [f EXCEPT !.sub = sub].sub = sub
  BY DEF FormState
<1> QED BY <1>1, <1>2

LEMMA TabWritten ==
  ASSUME NEW f \in FormState, NEW tab \in {"paste", "drop"}
  PROVE  \E g \in FormState : g = [f EXCEPT !.tab = tab] /\ g.rows = f.rows /\ g.sub = f.sub
<1>1. [f EXCEPT !.tab = tab] \in FormState
  BY DEF FormState
<1>2. [f EXCEPT !.tab = tab].rows = f.rows /\ [f EXCEPT !.tab = tab].sub = f.sub
  BY DEF FormState
<1> QED BY <1>1, <1>2

(* What handleFiles does to its upload.                                    *)
LEMMA UploadJob == ASSUME NEW files \in Seq(Nat) PROVE Job(files) \in Upload
<1> DEFINE S == Seq(Nat)
<1>1. files \in S
  OBVIOUS
<1> HIDE DEF S
<1>2. Job(files) \in [rest : S, row : Nat, at : {"next", "presign", "put"}, here : BOOLEAN]
  BY <1>1 DEF Job
<1> QED BY <1>2 DEF Upload, S

LEMMA UploadWritten ==
  ASSUME NEW u \in Upload
  PROVE  /\ u.row \in Nat /\ u.rest \in Seq(Nat)
         /\ \A b \in BOOLEAN : [u EXCEPT !.here = b] \in Upload
         /\ \A at \in {"next", "presign", "put"} :
              LET v == [u EXCEPT !.at = at] IN v \in Upload /\ v.at = at /\ v.row = u.row
         /\ \A at \in {"next", "presign", "put"}, n \in Nat :
              [u EXCEPT !.at = at, !.row = n] \in Upload
<1> DEFINE S == Seq(Nat)
<1>1. u \in [rest : S, row : Nat, at : {"next", "presign", "put"}, here : BOOLEAN]
  BY DEF Upload
<1> HIDE DEF S
<1>3. /\ u.row \in Nat /\ u.rest \in S
      /\ \A b \in BOOLEAN :
           [u EXCEPT !.here = b]
             \in [rest : S, row : Nat, at : {"next", "presign", "put"}, here : BOOLEAN]
  BY <1>1
<1>4. \A at \in {"next", "presign", "put"} :
        LET v == [u EXCEPT !.at = at]
        IN  /\ v \in [rest : S, row : Nat, at : {"next", "presign", "put"}, here : BOOLEAN]
            /\ v.at = at /\ v.row = u.row
  BY <1>1
<1>5. \A at \in {"next", "presign", "put"}, n \in Nat :
        [u EXCEPT !.at = at, !.row = n]
          \in [rest : S, row : Nat, at : {"next", "presign", "put"}, here : BOOLEAN]
  BY <1>1
<1> QED BY <1>3, <1>4, <1>5 DEF Upload, S

(* The wizard, the preview and leaving the page do not touch the form.     *)
LEMMA FilesAlone ==
  \/ LoadTemplates \/ Jump \/ TypeClient \/ ChooseTemplate \/ PressIssue \/ Issue \/ IssueAnswered
  \/ Leave \/ \E n \in DOMAIN preview.reads : PreviewRead(n)
  => /\ UNCHANGED <<form, uploads, strays, stored, made>>
     /\ \E n \in {"clicks", "mishaps"} : Fine \/ Spend(n)
BY DEF LoadTemplates, Jump, TypeClient, ChooseTemplate, PressIssue, Issue, IssueAnswered, Leave,
       PreviewRead, server, Fine, Mishap

(* A budget that is spent stays one.                                       *)
LEMMA Spending ==
  ASSUME start \in Budget,
         NEW n \in {"clicks", "files", "mishaps"}, Spend(n)
  PROVE  start' \in Budget
<1>1. start[n] - 1 \in Nat
  BY DEF Spend, Budget
<1> QED BY <1>1 DEF Spend, Budget

(* A row becomes ready with its object, loses its upload only with its     *)
(* mark, and a submission takes the rows that are ready.                   *)
LEMMA FilesSteps == FilesInv /\ [NewNext]_newVars => FilesInv'
<1> SUFFICES ASSUME FilesInv, [NewNext]_newVars PROVE FilesInv'
  OBVIOUS
<1> DEFINE Ready(rows) == \A row \in rows : row.st = "ready" => row.id \in stored
           Turns(rows, ups) == \A row \in rows : row.st = "uploading" =>
                                 \E j \in DOMAIN ups : ups[j].row = row.id /\ ups[j].at # "next"
<1>i. /\ start \in Budget /\ form \in FormState
      /\ strays \subseteq SubRow /\ uploads \in Seq(Upload)
      /\ stored \subseteq Nat /\ made \in Seq(MadeRow)
      /\ Ready(form.rows) /\ Stored(form.sub) /\ \A s \in strays : s.rows \subseteq stored
      /\ FilesArrived /\ Turns(form.rows, uploads)
  BY DEF FilesInv, SpinnersTurn
<1>u. DOMAIN uploads = 1..Len(uploads) /\ \A j \in DOMAIN uploads : uploads[j] \in Upload
  BY <1>i
<1>z. form \in FormState
  BY <1>i
<1>g. form.rows \in SUBSET FileRow /\ form.sub \in SubRow \cup NoSub
  BY <1>z, FormTyped
<1>b. (\E n \in {"clicks", "mishaps", "files"} : Fine \/ Spend(n)) => start' \in Budget
  BY <1>i, Spending DEF Fine
<1>k. ASSUME start' \in Budget, NEW f \in FormState, form' = f, strays' \subseteq SubRow,
             NEW ups \in Seq(Upload), uploads' = ups,
             stored' \subseteq Nat, stored \subseteq stored', UNCHANGED made,
             \A s \in strays' : s.rows \subseteq stored',
             \A row \in f.rows : row.st = "ready" => row.id \in stored',
             f.sub.at # "none" => f.sub.rows \subseteq stored', Turns(f.rows, ups)
      PROVE  FilesInv'
  <2>1. FilesArrived'
    BY <1>i, <1>k DEF FilesArrived
  <2>2. SpinnersTurn'
    BY <1>k DEF SpinnersTurn
  <2>3. Stored(form.sub)'
    BY <1>k DEF Stored
  <2>4. made' \in Seq(MadeRow)
    BY <1>i, <1>k
  <2> QED BY <1>k, <2>1, <2>2, <2>3, <2>4 DEF FilesInv
<1>1. ASSUME UNCHANGED <<form, uploads, strays, stored, made>>, start' \in Budget
      PROVE  FilesInv'
  BY <1>1, <1>i, <1>k DEF Stored
<1>2. CASE ToggleMode
  <2>1. start' \in Budget
    BY <1>2, <1>b DEF ToggleMode
  <2>2. FreshForm \in FormState /\ FreshForm.rows = {} /\ FreshForm.sub.at = "none"
    BY DEF FreshForm, NotSent, FormState, NoSub
  <2> DEFINE ups == [j \in DOMAIN uploads |-> [uploads[j] EXCEPT !.here = FALSE]]
  <2>3. ups \in Seq(Upload)
    <3>1. \A j \in 1..Len(uploads) : [uploads[j] EXCEPT !.here = FALSE] \in Upload
      BY <1>u, UploadWritten
    <3>2. ups = [j \in 1..Len(uploads) |-> [uploads[j] EXCEPT !.here = FALSE]]
      BY <1>i
    <3> QED BY <3>1, <3>2, <1>i
  <2>4. strays' \subseteq SubRow /\ \A s \in strays' : s.rows \subseteq stored
    <3>1. strays' = strays \cup ({form.sub} \ {NotSent})
      BY <1>2 DEF ToggleMode
    <3>2. form.sub \in SubRow \cup NoSub
      BY <1>g
    <3>3. form.sub \in NoSub => form.sub = NotSent
      BY DEF NotSent, NoSub
    <3>4. form.sub \in SubRow => form.sub.rows \subseteq stored
      BY <1>i DEF Stored, SubRow
    <3> QED BY <3>1, <3>2, <3>3, <3>4, <1>i
  <2>5. form' = FreshForm /\ uploads' = ups /\ UNCHANGED <<stored, made>>
    BY <1>2 DEF ToggleMode, server
  <2> HIDE DEF ups, FormState, Upload
  <2> QED BY <1>i, <1>k, <2>1, <2>2, <2>3, <2>4, <2>5
<1>f. ASSUME NEW f \in FormState, form' = f, f.sub = form.sub,
             UNCHANGED <<uploads, strays, stored, made>>, start' \in Budget,
             Ready(f.rows), Turns(f.rows, uploads)
      PROVE  FilesInv'
  <2> QED BY <1>f, <1>i, <1>k DEF Stored
<1>s. ASSUME NEW sub \in SubRow \cup NoSub, form' = [form EXCEPT !.sub = sub],
             UNCHANGED <<uploads, stored, made>>, start' \in Budget, strays' \subseteq SubRow,
             \A s \in strays' : s.rows \subseteq stored,
             sub.at # "none" => sub.rows \subseteq stored
      PROVE  FilesInv'
  <2>1. PICK f \in FormState : f = [form EXCEPT !.sub = sub] /\ f.rows = form.rows /\ f.sub = sub
    BY <1>z, SubWritten
  <2> QED BY <1>s, <1>i, <1>k, <2>1
<1>3. CASE HandleFiles
  <2>1. start' \in Budget
    BY <1>3, <1>b DEF HandleFiles
  <2>2. PICK files \in {<<1>>, <<1, 2>>} : uploads' = Append(uploads, Job(files))
    BY <1>3 DEF HandleFiles
  <2>3. Job(files) \in Upload
    <3>1. <<1>> \in Seq(Nat) /\ <<1, 2>> \in Seq(Nat)
      OBVIOUS
    <3> QED BY <2>2, <3>1, UploadJob
  <2> DEFINE ups == Append(uploads, Job(files))
  <2>4. ups \in Seq(Upload) /\ \A j \in DOMAIN uploads : j \in DOMAIN ups /\ ups[j] = uploads[j]
    BY <2>3, <1>i
  <2>5. PICK f \in FormState :
          f = [form EXCEPT !.tab = "drop"] /\ f.rows = form.rows /\ f.sub = form.sub
    BY <1>z, TabWritten
  <2>6. form' = f /\ UNCHANGED <<strays, stored, made>>
    BY <1>3, <2>5 DEF HandleFiles, server
  <2>7. uploads' = ups
    BY <2>2
  <2>8. Turns(f.rows, ups)
    BY <2>4, <2>5, <1>i
  <2> HIDE DEF ups
  <2> QED BY <1>i, <1>k, <2>1, <2>4, <2>5, <2>6, <2>7, <2>8 DEF Stored
<1>4. ASSUME NEW id, NoneAt(id) \subseteq form.rows
      PROVE  \E f \in FormState : /\ f = [form EXCEPT !.rows = NoneAt(id)] /\ f.sub = form.sub
                          /\ f.rows \subseteq form.rows
  <2>1. NoneAt(id) \in SUBSET FileRow
    BY <1>g, <1>4
  <2> QED BY <1>z, <1>4, <2>1, RowsWritten
<1>n. \A id : NoneAt(id) \subseteq form.rows
  BY DEF NoneAt
<1>5. CASE RemoveArtifact
  <2>1. PICK id : form' = [form EXCEPT !.rows = NoneAt(id)]
    BY <1>5 DEF RemoveArtifact
  <2>2. start' \in Budget /\ UNCHANGED <<uploads, strays, stored, made>>
    BY <1>5, <1>b DEF RemoveArtifact, server
  <2>3. PICK f \in FormState : f = [form EXCEPT !.rows = NoneAt(id)] /\ f.sub = form.sub
                       /\ f.rows \subseteq form.rows
    BY <1>4, <1>n
  <2>4. Ready(f.rows) /\ Turns(f.rows, uploads)
    BY <2>3, <1>i
  <2> QED BY <1>f, <2>1, <2>2, <2>3, <2>4
<1>6. CASE RetryArtifact
  <2>1. PICK id : form' = [form EXCEPT !.rows = NoneAt(id)]
    BY <1>6 DEF RetryArtifact
  <2>2. /\ start' \in Budget /\ UNCHANGED <<strays, stored, made>>
        /\ uploads' = Append(uploads, Job(<<1>>))
    BY <1>6, <1>b DEF RetryArtifact, server
  <2>3. PICK f \in FormState : f = [form EXCEPT !.rows = NoneAt(id)] /\ f.sub = form.sub
                       /\ f.rows \subseteq form.rows
    BY <1>4, <1>n
  <2> DEFINE ups == Append(uploads, Job(<<1>>))
  <2>4. ups \in Seq(Upload) /\ \A j \in DOMAIN uploads : j \in DOMAIN ups /\ ups[j] = uploads[j]
    <3>1. <<1>> \in Seq(Nat)
      OBVIOUS
    <3>2. Job(<<1>>) \in Upload
      BY <3>1, UploadJob
    <3> QED BY <3>2, <1>i
  <2>5. Ready(f.rows) /\ Turns(f.rows, ups)
    BY <2>3, <2>4, <1>i
  <2>6. uploads' = ups /\ form' = f
    BY <2>1, <2>2, <2>3
  <2> HIDE DEF ups
  <2> QED BY <1>i, <1>k, <2>2, <2>3, <2>4, <2>5, <2>6 DEF Stored
<1>7. CASE TypeText \/ SwitchTab
  <2>1. start' \in Budget /\ UNCHANGED <<uploads, strays, stored, made>>
    BY <1>7, <1>b DEF TypeText, SwitchTab, server
  <2>2. PICK f \in FormState : form' = f /\ f.rows = form.rows /\ f.sub = form.sub
    <3>1. CASE form' = [form EXCEPT !.text = TRUE]
      <4>1. form' \in FormState
        BY <3>1, <1>z DEF FormState
      <4>2. form'.rows = form.rows /\ form'.sub = form.sub
        BY <3>1, <1>z DEF FormState
      <4> QED BY <4>1, <4>2
    <3>2. CASE \E tab \in {"paste", "drop"} : form' = [form EXCEPT !.tab = tab]
      <4>1. PICK tab \in {"paste", "drop"} : form' = [form EXCEPT !.tab = tab]
        BY <3>2
      <4> QED BY <4>1, <1>z, TabWritten
    <3> QED BY <1>7, <3>1, <3>2 DEF TypeText, SwitchTab
  <2> QED BY <1>f, <1>i, <2>1, <2>2
<1>8. CASE PressCreateDeal
  <2>1. start' \in Budget /\ UNCHANGED <<uploads, strays, stored, made>>
    BY <1>8, <1>b DEF PressCreateDeal, server
  <2>2. ReadyRows(form.rows) \subseteq stored /\ ReadyRows(form.rows) \subseteq Nat
    BY <1>i DEF ReadyRows
  <2> DEFINE sub == [at |-> "sent", text |-> form.tab = "paste",
                     rows |-> IF form.tab = "paste" THEN {} ELSE ReadyRows(form.rows)]
  <2>3. sub \in SubRow /\ sub.rows \subseteq stored
    BY <2>2 DEF SubRow
  <2>4. form' = [form EXCEPT !.sub = sub]
    BY <1>8 DEF PressCreateDeal
  <2> HIDE DEF sub
  <2> QED BY <1>s, <1>i, <2>1, <2>3, <2>4
<1>9. ASSUME NEW j \in DOMAIN uploads, AddRow(j) PROVE FilesInv'
  <2>1. start' \in Budget /\ UNCHANGED <<strays, stored, made>> /\ start.files \in Nat
    BY <1>9, <1>b, <1>i DEF AddRow, server, Budget
  <2> DEFINE row == [id |-> start.files, st |-> "uploading"]
             up == [uploads[j] EXCEPT !.rest = Tail(@), !.row = start.files, !.at = "presign"]
             ups == [uploads EXCEPT ![j] = up]
  <2>2. up \in Upload /\ up.row = start.files /\ up.at = "presign"
    <3>1. uploads[j] \in Upload /\ uploads[j].rest # <<>> /\ uploads[j].rest \in Seq(Nat)
      BY <1>9, <1>u, UploadWritten DEF AddRow
    <3>r. PICK q \in Seq(Nat) : q = uploads[j].rest
      BY <3>1
    <3>2. PICK r \in Seq(Nat) : r = Tail(uploads[j].rest)
      <4>1. Tail(q) \in Seq(Nat)
        BY <3>1, <3>r
      <4> QED BY <3>r, <4>1
    <3>3. PICK n \in Nat : n = start.files
      BY <2>1
    <3>4. up = [uploads[j] EXCEPT !.rest = r, !.row = n, !.at = "presign"]
      BY <3>2, <3>3
    <3>5. PICK v \in Upload : /\ v = [uploads[j] EXCEPT !.rest = r, !.row = n, !.at = "presign"]
                              /\ v.row = n /\ v.at = "presign"
      <4>1. PICK u \in Upload : u = uploads[j]
        BY <3>1
      <4> DEFINE S == Seq(Nat)
                 R == [rest : S, row : Nat, at : {"next", "presign", "put"}, here : BOOLEAN]
                 v == [u EXCEPT !.rest = r, !.row = n, !.at = "presign"]
      <4>2. u \in R /\ r \in S /\ n \in Nat
        BY DEF Upload
      <4> HIDE DEF S, up
      <4>3. v \in R
        BY <4>2
      <4>4. v.row = n /\ v.at = "presign"
        BY <4>2
      <4>5. R = Upload
        BY DEF Upload, S
      <4> HIDE DEF R, v
      <4>6. v \in Upload
        BY <4>3, <4>5
      <4> QED BY <4>1, <4>4, <4>6 DEF v
    <3> HIDE DEF up
    <3> QED BY <3>3, <3>4, <3>5
  <2>3. row \in FileRow /\ row.st = "uploading" /\ row.id = start.files
    BY <2>1 DEF FileRow
  <2>4. uploads[j].at = "next" /\ uploads' = ups
    <3>1. \E v : /\ v = [uploads[j] EXCEPT !.rest = Tail(@), !.row = start.files, !.at = "presign"]
                 /\ uploads' = [uploads EXCEPT ![j] = v]
      BY <1>9 DEF AddRow
    <3>2. uploads[j].at = "next"
      BY <1>9 DEF AddRow
    <3> QED BY <3>1, <3>2
  <2> HIDE DEF up, row
  <2>5. /\ ups \in Seq(Upload) /\ DOMAIN ups = DOMAIN uploads /\ ups[j] = up
        /\ \A i \in DOMAIN uploads \ {j} : ups[i] = uploads[i]
    BY <2>2, <1>i
  <2>6. PICK f \in FormState :
          form' = f /\ f.sub = form.sub /\ f.rows \subseteq form.rows \cup {row}
    <3>1. form' = IF uploads[j].here THEN [form EXCEPT !.rows = @ \cup {row}] ELSE form
      BY <1>9 DEF AddRow, row
    <3>2. CASE uploads[j].here
      <4>1. form.rows \cup {row} \in SUBSET FileRow
        BY <2>3, <1>g
      <4>2. PICK rows \in SUBSET FileRow : rows = form.rows \cup {row}
        BY <4>1
      <4>3. form' = [form EXCEPT !.rows = rows]
        BY <3>1, <3>2, <4>2
      <4>4. PICK g \in FormState :
              g = [form EXCEPT !.rows = rows] /\ g.rows = rows /\ g.sub = form.sub
        BY <1>z, RowsWritten
      <4> QED BY <4>2, <4>3, <4>4
    <3>3. CASE ~uploads[j].here
      BY <3>1, <3>3, <1>i
    <3> QED BY <3>2, <3>3
  <2>7. Ready(f.rows)
    BY <2>3, <2>6, <1>i
  <2>8. Turns(f.rows, ups)
    BY <2>2, <2>3, <2>4, <2>5, <2>6, <1>i
  <2> HIDE DEF ups
  <2> QED BY <1>i, <1>k, <2>1, <2>4, <2>5, <2>6, <2>7, <2>8 DEF Stored
<1>10. ASSUME NEW j \in DOMAIN uploads, Presign(j) PROVE FilesInv'
  <2>1. start' \in Budget /\ UNCHANGED <<form, strays, stored, made>>
    BY <1>10, <1>b DEF Presign, server
  <2> DEFINE ups == [uploads EXCEPT ![j].at = "put"]
  <2>2. /\ ups \in Seq(Upload) /\ DOMAIN ups = DOMAIN uploads
        /\ \A i \in DOMAIN uploads : ups[i].row = uploads[i].row
        /\ \A i \in DOMAIN uploads : uploads[i].at # "next" => ups[i].at # "next"
    <3> DEFINE v == [uploads[j] EXCEPT !.at = "put"]
    <3>1. v \in Upload /\ v.at = "put" /\ v.row = uploads[j].row
      BY <1>u, UploadWritten
    <3>2. ups = [uploads EXCEPT ![j] = v]
      OBVIOUS
    <3> HIDE DEF v, ups
    <3> QED BY <3>1, <3>2, <1>i
  <2>3. uploads' = ups
    BY <1>10 DEF Presign
  <2>4. Turns(form.rows, ups)
    BY <2>2, <1>i
  <2> HIDE DEF ups
  <2> QED BY <1>i, <1>k, <2>1, <2>2, <2>3, <2>4 DEF Stored
<1>11. ASSUME NEW j \in DOMAIN uploads, Put(j) \/ UploadFails(j) PROVE FilesInv'
  <2>1. uploads[j] \in Upload /\ uploads[j].row \in Nat
    BY <1>u, UploadWritten
  <2>2. /\ start' \in Budget /\ UNCHANGED <<strays, made>>
        /\ stored \subseteq stored' /\ stored' \subseteq stored \cup {uploads[j].row}
    BY <1>11, <1>b DEF Put, UploadFails, Mishap
  <2>3. PICK st \in {"ready", "failed"} :
          /\ form' = [form EXCEPT !.rows = Marked(uploads[j].row, st)]
          /\ st = "ready" => uploads[j].row \in stored'
    BY <1>11 DEF Put, UploadFails
  <2> DEFINE rows == Marked(uploads[j].row, st)
             up == [uploads[j] EXCEPT !.at = "next", !.row = 0]
             ups == [uploads EXCEPT ![j] = up]
  <2>4. rows \in SUBSET FileRow
    BY <1>g DEF Marked, FileRow
  <2>5. \A row \in rows : \/ row \in form.rows /\ row.id # uploads[j].row
                          \/ row.id = uploads[j].row /\ row.st = st
    BY <1>g DEF Marked, FileRow
  <2> HIDE DEF rows
  <2>6. PICK f \in FormState : f = [form EXCEPT !.rows = rows] /\ f.rows = rows /\ f.sub = form.sub
    BY <2>4, <1>z, RowsWritten
  <2>7. up \in Upload
    BY <2>1, UploadWritten
  <2>8. uploads' = ups
    BY <1>11 DEF Put, UploadFails
  <2> HIDE DEF up
  <2>9. /\ ups \in Seq(Upload) /\ DOMAIN ups = DOMAIN uploads
        /\ \A i \in DOMAIN uploads \ {j} : ups[i] = uploads[i]
    BY <2>7, <1>i
  <2>10. \A row \in f.rows : row.st = "ready" => row.id \in stored'
    BY <2>2, <2>3, <2>5, <2>6, <1>i
  <2>11. Turns(f.rows, ups)
    BY <2>3, <2>5, <2>6, <2>9, <1>i
  <2>12. form' = f
    BY <2>3, <2>6 DEF rows
  <2>13. stored' \subseteq Nat
    BY <2>1, <2>2, <1>i
  <2> HIDE DEF ups
  <2> QED BY <1>i, <1>k, <2>2, <2>6, <2>8, <2>9, <2>10, <2>11, <2>12, <2>13 DEF Stored
<1>12. ASSUME NEW s \in SubRow, s.rows \subseteq stored, Create(s)
       PROVE  start' \in Budget /\ made' \in Seq(MadeRow) /\ (UNCHANGED stored => FilesArrived')
  <2>1. start' \in Budget
    BY <1>12, <1>b DEF Create
  <2>2. CASE UNCHANGED made
    BY <2>1, <2>2, <1>i DEF FilesArrived
  <2>3. CASE made' = Append(made, [text |-> s.text, rows |-> s.rows])
    <3> DEFINE m == [text |-> s.text, rows |-> s.rows]
    <3>1. m \in MadeRow /\ m.rows \subseteq stored
      BY <1>12 DEF SubRow, MadeRow
    <3> HIDE DEF m
    <3>2. made' = Append(made, m)
      BY <2>3 DEF m
    <3>3. /\ made' \in Seq(MadeRow) /\ DOMAIN made' = DOMAIN made \cup {Len(made) + 1}
          /\ made'[Len(made) + 1] = m /\ \A d \in DOMAIN made : made'[d] = made[d]
      BY <3>1, <3>2, <1>i
    <3>4. UNCHANGED stored => FilesArrived'
      BY <3>1, <3>3, <1>i DEF FilesArrived
    <3> QED BY <2>1, <3>3, <3>4
  <2> QED BY <1>12, <2>2, <2>3 DEF Create
<1>m. ASSUME NEW f \in FormState, form' = f, f.rows = form.rows,
             f.sub = form.sub \/ f.sub.rows = form.sub.rows,
             f.sub.at # "none" => form.sub.at # "none",
             UNCHANGED <<uploads, stored>>, start' \in Budget, strays' \subseteq SubRow,
             \A s \in strays' : s.rows \subseteq stored, made' \in Seq(MadeRow), FilesArrived'
       PROVE  FilesInv'
  <2>1. SpinnersTurn' /\ Stored(form.sub)'
    BY <1>i, <1>m DEF SpinnersTurn, Stored
  <2> QED BY <1>i, <1>m, <2>1 DEF FilesInv
<1>13. CASE ServeCreate
  <2>1. UNCHANGED <<uploads, stored>>
    BY <1>13 DEF ServeCreate
  <2>2. CASE Create(form.sub) /\ form' = [form EXCEPT !.sub.at = "served"] /\ UNCHANGED strays
    <3>1. form.sub \in SubRow /\ form.sub.rows \subseteq stored
      BY <1>i, <1>g, <2>2 DEF Create, Stored, NoSub
    <3> DEFINE sub == [form.sub EXCEPT !.at = "served"]
    <3>2. sub \in SubRow /\ sub.rows = form.sub.rows
      BY <3>1 DEF SubRow
    <3>3. form' = [form EXCEPT !.sub = sub]
      BY <2>2, <1>i
    <3> HIDE DEF sub
    <3>4. PICK f \in FormState : form' = f /\ f.rows = form.rows /\ f.sub = sub
      BY <3>2, <3>3, <1>z, SubWritten
    <3>5. form.sub.at # "none"
      BY <2>2 DEF Create
    <3>6. start' \in Budget /\ made' \in Seq(MadeRow) /\ FilesArrived'
      BY <1>12, <2>1, <2>2, <3>1
    <3> QED BY <1>m, <1>i, <2>1, <2>2, <3>2, <3>4, <3>5, <3>6
  <2>3. ASSUME NEW s \in strays, Create(s), UNCHANGED form,
               strays' = (strays \ {s}) \cup {[s EXCEPT !.at = "served"]}
        PROVE  FilesInv'
    <3>1. s \in SubRow /\ s.rows \subseteq stored
      BY <1>i
    <3>2. [s EXCEPT !.at = "served"] \in SubRow /\ [s EXCEPT !.at = "served"].rows = s.rows
      BY <3>1 DEF SubRow
    <3>3. strays' \subseteq SubRow /\ \A t \in strays' : t.rows \subseteq stored
      BY <2>3, <3>1, <3>2, <1>i
    <3>4. start' \in Budget /\ made' \in Seq(MadeRow) /\ FilesArrived'
      BY <1>12, <2>1, <2>3, <3>1
    <3> QED BY <1>m, <1>i, <2>1, <2>3, <3>3, <3>4
  <2> QED BY <1>13, <2>2, <2>3 DEF ServeCreate
<1>14. CASE CreateAnswered
  <2>1. start' \in Budget /\ UNCHANGED <<uploads, stored, made>>
    BY <1>14, <1>b DEF CreateAnswered, server, Mishap
  <2>2. strays' \subseteq strays
    BY <1>14 DEF CreateAnswered
  <2>3. CASE form' = [form EXCEPT !.sub = NotSent]
    <3>1. NotSent \in SubRow \cup NoSub /\ NotSent.at = "none"
      BY DEF NotSent, NoSub
    <3>2. strays' \subseteq SubRow /\ \A s \in strays' : s.rows \subseteq stored
      BY <1>i, <2>2
    <3> QED BY <1>s, <2>1, <2>3, <3>1, <3>2
  <2>4. CASE UNCHANGED form
    <3> QED BY <1>k, <1>i, <2>1, <2>2, <2>4 DEF Stored
  <2> QED BY <1>14, <2>3, <2>4 DEF CreateAnswered
<1>15. UNCHANGED newVars => FilesInv'
  <2> SUFFICES ASSUME UNCHANGED newVars PROVE FilesInv'
    OBVIOUS
  <2> QED BY <1>1, <1>i DEF newVars, server
<1>16. ASSUME \/ LoadTemplates \/ Jump \/ TypeClient \/ ChooseTemplate \/ PressIssue \/ Issue
              \/ IssueAnswered \/ Leave \/ \E n \in DOMAIN preview.reads : PreviewRead(n)
       PROVE  FilesInv'
  BY <1>1, <1>16, <1>b, FilesAlone
<1> QED
  BY <1>2, <1>3, <1>5, <1>6, <1>7, <1>8, <1>9, <1>10, <1>11, <1>13, <1>14, <1>15, <1>16 DEF NewNext

(* The page's invariant, part by part.                                     *)
StartInv == WizardInv /\ PreviewInv /\ FilesInv

(* Whatever is clicked, picked, answered, lost or refused, in any order    *)
(* and as often as the rep likes.                                          *)
THEOREM StartInvariant == NewSpec => []StartInv
<1>1. NewInit => StartInv
  <2> SUFFICES ASSUME NewInit PROVE StartInv
    OBVIOUS
  <2>1. WizardInv
    BY DEF NewInit, WizardInv, WizardRow, Calls, NotSent, Owing, LinkStaysShown
  <2>2. PreviewInv
    BY DEF NewInit, PreviewInv, NoPreview, PreviewIsOfChosen
  <2>3. FilesInv
    BY NewAssumption
    DEF NewInit, FilesInv, FormState, Budget, NoSub, FreshForm, NotSent, Stored, FilesArrived,
        SpinnersTurn
  <2> QED BY <2>1, <2>2, <2>3 DEF StartInv
<1>2. StartInv /\ [NewNext]_newVars => StartInv'
  BY WizardSteps, PreviewSteps, FilesSteps DEF StartInv
<1> QED BY <1>1, <1>2, PTL DEF NewSpec

(* Every link that was issued is shown, on its way, or its answer was      *)
(* lost; the preview is of what is chosen; a deal has no file whose bytes  *)
(* never arrived; and what says it is uploading is.                        *)
THEOREM StartsTrue == NewSpec => []StartsAreTrue
<1>1. StartInv => StartsAreTrue
  <2> SUFFICES ASSUME StartInv PROVE StartsAreTrue
    OBVIOUS
  <2>1. LinksAccounted
    <3> DEFINE Holds(x) == IF x = "shown" THEN wizard.link # 0 ELSE wizard.call.at = "issued"
               S == {x \in {"shown", "coming"} : Holds(x)}
    <3>1. Cardinality({}) = 0 /\ Cardinality({"shown"}) = 1 /\ Cardinality({"coming"}) = 1
      BY FS_EmptySet, FS_Singleton
    <3>2. ~(wizard.link # 0 /\ wizard.call.at = "issued")
      BY DEF StartInv, WizardInv, LinkStaysShown, NotSent
    <3>3. Cardinality(S) = Owing(wizard)
      <4>1. CASE wizard.link # 0
        <5>1. S = {"shown"}
          BY <4>1, <3>2
        <5> QED BY <5>1, <4>1, <3>1, <3>2 DEF Owing
      <4>2. CASE wizard.link = 0 /\ wizard.call.at = "issued"
        <5>1. S = {"coming"}
          BY <4>2
        <5> QED BY <5>1, <4>2, <3>1 DEF Owing
      <4>3. CASE wizard.link = 0 /\ wizard.call.at # "issued"
        <5>1. S = {}
          BY <4>3
        <5> QED BY <5>1, <4>3, <3>1 DEF Owing
      <4> QED BY <4>1, <4>2, <4>3
    <3> QED BY <3>3 DEF StartInv, WizardInv, LinksAccounted
  <2>2. PreviewIsOfChosen
    BY DEF StartInv, PreviewInv, PreviewIsOfChosen
  <2> QED BY <2>1, <2>2 DEF StartInv, WizardInv, FilesInv, StartsAreTrue
<1> QED BY <1>1, StartInvariant, PTL

(* The same beside the other parts of the intake.                          *)
THEOREM IntakeStartsTrue == IntakeSpec => []StartsAreTrue
BY Projections, StartsTrue, PTL
=============================================================================
