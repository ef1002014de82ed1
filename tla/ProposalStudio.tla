--------------------------- MODULE ProposalStudio ---------------------------
(***************************************************************************)
(* The proposal workspace of one opportunity, open in one or two tabs      *)
(* (proposal-workspace.tsx), over the draft endpoints and the tenant's     *)
(* library of Gamma decks (proposal-draft, gamma and gamma-template        *)
(* services): the deck picker, generating and regenerating, the poll, the  *)
(* paste-back prompt, and the send dialog.                                 *)
(*                                                                         *)
(* A handler is one step here, but for the long LLM call; how handlers     *)
(* interleave is module ProposalDelivery.  A draft is a number: 0 is none, *)
(* and the decks that Gamma made are the positive ones.                    *)
(***************************************************************************)
EXTENDS Integers, FiniteSets, EngagementStatuses

CONSTANTS Decks,      \* entries of the library
          Desks,      \* what may be: the role in each tab, the provider, the drafter,
                      \* and a bound on the presses and on the acts of others
          MaxDrafts,  \* bound: drafts ever made
          NoDeck

ASSUME StudioAssumption == /\ MaxDrafts \in Nat /\ NoDeck \notin Decks
                           /\ \A d \in Desks : IsFiniteSet(DOMAIN d.roles)

VARIABLES scene,   \* the surroundings of this behaviour
          library, \* which entries exist, are archived; which is the default
          gamma,   \* tenant_gamma_configs: the key, the switch, the drafter
          deal,    \* the engagement, as far as a proposal goes
          deckJob, \* Gamma's current generation
          pages,   \* each tab
          mailed,  \* the mails: whose text, whose PDF
          made, touches
tenant == <<library, gamma>>
studio == <<deal, deckJob, mailed, made>>
studioVars == <<scene, tenant, studio, pages, touches>>

-----------------------------------------------------------------------------
NoDraft == 0
Typed(n) == -n
NoPress == [op |-> "none", deck |-> NoDeck]
NoRead == [at |-> "none"]
Shown(r) == [st |-> r.st, text |-> r.text, src |-> r.src]

Tabs == DOMAIN scene.roles
Senders == {"admin", "sales_manager", "sales_employee"}

(* The configuration is the admin's to read: for the others the page falls *)
(* back to the LLM drafter and shows no picker.                            *)
DriverOn(role) == IF role = "admin" THEN gamma.driver ELSE "llm"

-----------------------------------------------------------------------------
(* The library.  A deck that is not active is passed over.                 *)
Active == {d \in Decks : library[d].state = "active"}
DefaultOf == IF \E d \in Active : library[d].default
             THEN CHOOSE d \in Active : library[d].default ELSE NoDeck

(* The mistake the next definition avoids: the saved pick before the one   *)
(* the request names.                                                      *)
Resolve_SavedFirst(explicit) ==
  IF deal.pick \in Active THEN deal.pick ELSE IF explicit \in Active THEN explicit ELSE DefaultOf

(* resolveGammaTemplate: the request's, the saved one, the default.        *)
Resolve(explicit) ==
  IF explicit \in Active THEN explicit ELSE IF deal.pick \in Active THEN deal.pick ELSE DefaultOf

(* A default that was resolved sticks to a row that had no pick.           *)
PickAfter(explicit) ==
  IF deal.pick = NoDeck /\ explicit \notin Active THEN DefaultOf ELSE deal.pick

NewPage(t) ==
  [driver |-> DriverOn(scene.roles[t]), cur |-> Shown(deal),
   pick |-> IF DriverOn(scene.roles[t]) = "gamma" THEN Resolve(NoDeck) ELSE NoDeck,
   press |-> NoPress, saving |-> NoPress, sending |-> NoPress,
   read |-> NoRead, late |-> NoRead, crossed |-> FALSE, failed |-> FALSE,
   spinner |-> FALSE, prompt |-> FALSE, dialog |-> NoDraft]

InLibrary == [state |-> "active", default |-> FALSE]
NotInLibrary == [state |-> "none", default |-> FALSE]

(* With a deck behind it, a draft has a PDF until Gamma's link lapses.     *)
StudioInit ==
  /\ scene \in Desks
  /\ library = [d \in Decks |-> IF "curate" \in scene.may /\ d # CHOOSE e \in Decks : TRUE
                                THEN NotInLibrary ELSE InLibrary]
  /\ gamma = [key |-> scene.drafter = "gamma", on |-> TRUE, driver |-> scene.drafter]
  /\ \/ deal = [st |-> "approved", text |-> NoDraft, src |-> "none", pick |-> NoDeck,
               gen |-> FALSE, pdf |-> NoDraft] /\ made = 0
     \/ \E src \in {"gamma", "llm"} :
          /\ made = 1
          /\ deal = [st |-> "draft_ready", src |-> src, pick |-> NoDeck, gen |-> FALSE,
                     text |-> IF src = "gamma" THEN 1 ELSE Typed(1),
                     pdf |-> IF src = "gamma" THEN 1 ELSE NoDraft]
  /\ deckJob = [state |-> "none", deck |-> NoDeck, n |-> NoDraft]
  /\ pages = [t \in Tabs |-> NewPage(t)]
  /\ mailed = {} /\ touches = 0

-----------------------------------------------------------------------------
(* The other people of the tenant, each time one act.                      *)
Touch == touches < scene.touches /\ touches' = touches + 1

OnlyDefault(d) == [e \in Decks |-> [library[e] EXCEPT !.default = (e = d)]]

(* create, with or without "default"; one default, by a unique index.      *)
AddDeck(d) ==
  /\ "curate" \in scene.may /\ Touch
  /\ library[d].state = "none"
  /\ \/ library' = [library EXCEPT ![d].state = "active"]
     \/ library' = [OnlyDefault(d) EXCEPT ![d].state = "active"]
  /\ UNCHANGED <<scene, gamma, studio, pages>>

(* update looks whether the entry exists, not whether it is active: a      *)
(* panel loaded before the archiving can still make it the default.        *)
SetDefault(d) ==
  /\ "curate" \in scene.may /\ Touch
  /\ library[d].state # "none"
  /\ library' = OnlyDefault(d)
  /\ UNCHANGED <<scene, gamma, studio, pages>>

Archive(d) ==
  /\ "curate" \in scene.may /\ Touch
  /\ library[d].state = "active"
  /\ library' = [library EXCEPT ![d] = [state |-> "archived", default |-> FALSE]]
  /\ UNCHANGED <<scene, gamma, studio, pages>>

(* upsertConfig refuses a Gamma drafter that has no key.                   *)
SaveConfig(cfg) ==
  /\ "configure" \in scene.may /\ Touch
  /\ cfg.driver = "gamma" => cfg.key
  /\ cfg # gamma /\ gamma' = cfg
  /\ UNCHANGED <<scene, library, studio, pages>>

-----------------------------------------------------------------------------
(* What a tab shows, as far as it decides what can be pressed.             *)
Body(p) == CASE p.spinner -> "spinner" [] p.prompt -> "prompt"
             [] p.cur.st = "drafting" -> "drafting"
             [] p.cur.text # NoDraft -> "draft" [] OTHER -> "idle"
Free(p) == p.press = NoPress /\ p.dialog = NoDraft
(* regenerating goes off as soon as the page shows either status.          *)
ShowRow(p, cur) == [p EXCEPT !.cur = cur,
                             !.spinner = @ /\ cur.st \notin DraftStatuses]

(* refresh: nothing orders the answers of two reads, so the one asked for  *)
(* first may be shown last.  What a read ends is the press that waits for  *)
(* it, or the dialog.  Bound: two reads on their way.                      *)
Pending(p) == p.read # NoRead \/ p.late # NoRead
Room(p) == p.read = NoRead \/ p.late = NoRead
Refetch(p, ends) ==
  [p EXCEPT !.read = [at |-> "asked", ends |-> ends],
            !.late = IF p.read # NoRead THEN p.read ELSE @,
            !.crossed = Pending(p)]

PressWith(t, p) == /\ Touch /\ pages' = [pages EXCEPT ![t] = p]
                   /\ UNCHANGED <<scene, tenant, studio>>

(* The picker is there for the Gamma drafter while nothing is drafted; it  *)
(* flips at once and flips back when the save is refused.                  *)
PickDeck(t, d) ==
  LET p == pages[t]
  IN  /\ p.driver = "gamma" /\ p.dialog = NoDraft
      /\ Body(p) \in {"draft", "idle"} /\ p.saving = NoPress
      /\ d \in Active \ {p.pick}
      /\ PressWith(t, [p EXCEPT !.pick = d, !.saving = [op |-> "pick", deck |-> d, was |-> p.pick]])

ServePick(t) ==
  LET p == pages[t]
      d == p.saving.deck
  IN  /\ p.saving # NoPress
      /\ \/ /\ d \in Active
            /\ deal' = [deal EXCEPT !.pick = d]
            /\ pages' = [pages EXCEPT ![t].saving = NoPress]
         \/ /\ UNCHANGED deal
            /\ pages' = [pages EXCEPT ![t].saving = NoPress, ![t].pick = p.saving.was]
      /\ UNCHANGED <<scene, tenant, deckJob, mailed, made, touches>>

Forwarded(p) == IF p.driver = "gamma" THEN p.pick ELSE NoDeck

PressGenerate(t) == LET p == pages[t] IN
  /\ Free(p) /\ Body(p) = "idle"
  /\ PressWith(t, [p EXCEPT !.press = [op |-> "generate", deck |-> Forwarded(p)]])

(* Regenerate clears first.  The spinner's effect runs before anything is  *)
(* answered.                                                               *)
PressRegenerate(t) == LET p == pages[t] IN
  /\ Free(p) /\ Body(p) = "draft" /\ p.cur.st # "sent"
  /\ PressWith(t, ShowRow([p EXCEPT !.spinner = TRUE,
                                    !.press = [op |-> "clear", deck |-> Forwarded(p)]], p.cur))

OpenDialog(t) == LET p == pages[t] IN
  /\ Free(p) /\ Body(p) = "draft" /\ p.cur.st # "sent"
  /\ scene.roles[t] \in Senders
  /\ PressWith(t, [p EXCEPT !.dialog = p.cur.text])

(* "Mark as sent" in the bar or in the dialog.  "Send via Outlook" is the  *)
(* dialog's own: the page is not busy with it, and a click beside the      *)
(* dialog closes it even then.                                             *)
PressMark(t) == LET p == pages[t] IN
  /\ p.press = NoPress /\ scene.roles[t] \in Senders
  /\ p.dialog # NoDraft \/ (Body(p) = "draft" /\ p.cur.st # "sent")
  /\ PressWith(t, [p EXCEPT !.press = [op |-> "mark", deck |-> NoDeck]])

PressSend(t) == LET p == pages[t] IN
  /\ p.dialog # NoDraft /\ p.sending = NoPress
  /\ PressWith(t, [p EXCEPT !.sending = [op |-> "send", body |-> p.dialog]])

CloseDialog(t) == LET p == pages[t] IN
  /\ p.dialog # NoDraft /\ p.press = NoPress
  /\ PressWith(t, [p EXCEPT !.dialog = NoDraft])

(* The prompt: the AI's answer is pasted and saved, or the card closed.    *)
PressPrompt(t, op) == LET p == pages[t] IN
  /\ Free(p) /\ Body(p) = "prompt"
  /\ IF op = "cancel" THEN PressWith(t, [p EXCEPT !.prompt = FALSE])
     ELSE PressWith(t, [p EXCEPT !.press = [op |-> "paste", deck |-> NoDeck]])

(* A tab is loaded anew once its requests have been answered.              *)
Reload(t) == LET p == pages[t] IN
  /\ p.press = NoPress /\ p.saving = NoPress /\ p.sending = NoPress /\ p # NewPage(t)
  /\ PressWith(t, NewPage(t))

-----------------------------------------------------------------------------
(* The server.  A refusal shows a banner and reads nothing again.          *)
Refuse(t) == pages' = [pages EXCEPT ![t].press = NoPress]
Then(t, p) == pages' = [pages EXCEPT ![t] = p]
SendsHere(t) == scene.roles[t] \in Senders

(* clear: back to "approved" unless sent; the PDF of the deck stays.       *)
ServeClear(t) == LET p == pages[t] IN
  /\ p.press.op = "clear"
  /\ \/ /\ SendsHere(t)
        /\ deal' = [deal EXCEPT !.st = IF @ = "sent" THEN "sent" ELSE "approved",
                              !.text = NoDraft, !.src = "none", !.gen = FALSE]
        /\ Then(t, [p EXCEPT !.press.op = "generate"])
     \/ /\ UNCHANGED deal
        /\ Then(t, [p EXCEPT !.press = NoPress, !.spinner = FALSE])
  /\ UNCHANGED <<scene, tenant, deckJob, mailed, made, touches>>

Drafter == IF gamma.on THEN gamma.driver ELSE "llm"
MayDraft(t) == SendsHere(t) /\ deal.st \in CanDraftFrom

(* generateViaGamma: the pick sticks, the row is claimed, the credit spent *)
(* -- or Gamma, the key or a claim of somebody else refuses.               *)
GammaDrafts(t) == LET p == pages[t] IN
  /\ p.press.op = "generate" /\ MayDraft(t) /\ Drafter = "gamma"
  /\ \/ /\ deal.st \in DraftClaimFrom /\ gamma.key /\ made < MaxDrafts /\ Room(p)
        /\ made' = made + 1
        /\ deckJob' = [state |-> "running", deck |-> Resolve(p.press.deck), n |-> made + 1]
        /\ deal' = [deal EXCEPT !.st = "drafting", !.src = "gamma", !.gen = TRUE,
                              !.pick = PickAfter(p.press.deck)]
        /\ Then(t, Refetch([p EXCEPT !.press.op = "reading"], {"press"}))
     \/ /\ deal' = [deal EXCEPT !.pick = PickAfter(p.press.deck)]
        /\ Refuse(t) /\ UNCHANGED <<deckJob, made>>
  /\ UNCHANGED <<scene, tenant, mailed, touches>>

(* The LLM path: no provider, a prompt to paste by hand, or a long call.   *)
LlmDrafts(t) == LET p == pages[t] IN
  /\ p.press.op = "generate" /\ MayDraft(t) /\ Drafter = "llm"
  /\ \/ scene.provider = "none" /\ Refuse(t) /\ UNCHANGED <<deal, made>>
     \/ /\ scene.provider = "manual"
        /\ Then(t, [p EXCEPT !.press = NoPress, !.prompt = TRUE])
        /\ UNCHANGED <<deal, made>>
     \/ /\ scene.provider = "auto" /\ made < MaxDrafts
        /\ made' = made + 1
        /\ deal' = [deal EXCEPT !.st = IF @ \in DraftClaimFrom THEN "drafting" ELSE @]
        /\ Then(t, [p EXCEPT !.press = [op |-> "writing", was |-> deal.st, n |-> made + 1]])
  /\ UNCHANGED <<scene, tenant, deckJob, mailed, touches>>

LlmAnswers(t) == LET p == pages[t] IN
  /\ p.press.op = "writing"
  /\ \/ /\ Room(p)
        /\ deal' = [deal EXCEPT !.st = "draft_ready", !.text = Typed(p.press.n), !.src = "llm"]
        /\ Then(t, Refetch([p EXCEPT !.press = [NoPress EXCEPT !.op = "reading"]], {"press"}))
     \/ /\ deal' = [deal EXCEPT !.st = IF @ = "drafting" THEN p.press.was ELSE @]
        /\ Refuse(t)
  /\ UNCHANGED <<scene, tenant, deckJob, mailed, made, touches>>

NotDrafted(t) == /\ pages[t].press.op = "generate" /\ ~MayDraft(t)
                 /\ Refuse(t) /\ UNCHANGED <<scene, tenant, studio, touches>>

(* acceptManual: whatever the status; the card closes and the page reads.  *)
ServePaste(t) == LET p == pages[t] IN
  /\ p.press.op = "paste"
  /\ \/ /\ SendsHere(t) /\ made < MaxDrafts /\ made' = made + 1 /\ Room(p)
        /\ deal' = [deal EXCEPT !.st = "draft_ready", !.text = Typed(made + 1), !.src = "manual"]
        /\ Then(t, Refetch([p EXCEPT !.press = NoPress, !.prompt = FALSE], {}))
     \/ Refuse(t) /\ UNCHANGED <<deal, made>>
  /\ UNCHANGED <<scene, tenant, deckJob, mailed, touches>>

(* markSent; the dialog closes either way.                                 *)
ServeMark(t) == LET p == pages[t] IN
  /\ p.press.op = "mark"
  /\ \/ /\ deal.text # NoDraft /\ Room(p) /\ deal' = [deal EXCEPT !.st = "sent"]
        /\ Then(t, Refetch([p EXCEPT !.press.op = "reading"], {"press", "dialog"}))
     \/ UNCHANGED deal /\ Then(t, [p EXCEPT !.press = NoPress, !.dialog = NoDraft])
  /\ UNCHANGED <<scene, tenant, deckJob, mailed, made, touches>>

(* sendViaOutlook: the dialog's text, and the stored PDF with it.          *)
ServeSend(t) == LET p == pages[t]
                   done == [p EXCEPT !.sending = NoPress] IN
  /\ p.sending # NoPress
  /\ \/ /\ deal.text # NoDraft /\ deal.st # "sent" /\ Room(p)
        /\ deal' = [deal EXCEPT !.st = "sent"]
        /\ mailed' = mailed \cup {[body |-> p.sending.body, draft |-> deal.text, pdf |-> deal.pdf]}
        /\ Then(t, Refetch(done, {"dialog"}))
     \/ UNCHANGED <<deal, mailed>> /\ Then(t, done)
  /\ UNCHANGED <<scene, tenant, deckJob, made, touches>>

-----------------------------------------------------------------------------
(* getCurrent asks Gamma about a deck in the making.  A failure reaches    *)
(* the page as an error; an unusable key or switch does not.               *)
Polls == deal.st = "drafting" /\ deal.gen /\ gamma.key /\ gamma.on
RowAfterPoll ==
  CASE Polls /\ deckJob.state = "completed" ->
         [deal EXCEPT !.st = "draft_ready", !.text = deckJob.n, !.src = "gamma",
                      !.gen = FALSE, !.pdf = deckJob.n]
    [] Polls /\ deckJob.state = "failed" -> [deal EXCEPT !.st = "approved", !.gen = FALSE]
    [] OTHER -> deal

Read(t, slot) ==
  /\ pages[t][slot].at = "asked"
  /\ deal' = RowAfterPoll
  /\ \/ /\ ~(Polls /\ deckJob.state = "failed")
        /\ pages' = [pages EXCEPT ![t][slot] =
                       [at |-> "shows", cur |-> Shown(deal'), ends |-> pages[t][slot].ends]]
     \/ /\ Polls /\ deckJob.state # "completed"
        /\ pages' = [pages EXCEPT ![t][slot] = [at |-> "error", ends |-> @.ends]]
  /\ UNCHANGED <<scene, tenant, deckJob, mailed, made, touches>>

(* The interval of a page that shows a draft in the making.  It may be up  *)
(* while a read is on its way; bound: not while one of the interval is.    *)
MayTick(p) == p.late = NoRead /\ (p.read # NoRead => p.read.ends # {})
Tick_OnlyGamma(t) ==
  /\ pages[t].cur.st = "drafting" /\ pages[t].cur.src = "gamma" /\ MayTick(pages[t])
  /\ Then(t, Refetch(pages[t], {}))
  /\ UNCHANGED <<scene, tenant, studio, touches>>

Tick(t) ==
  /\ pages[t].cur.st = "drafting" /\ MayTick(pages[t])
  /\ Then(t, Refetch(pages[t], {}))
  /\ UNCHANGED <<scene, tenant, studio, touches>>

Display(t, slot) ==
  LET p == pages[t]
      ans == p[slot]
      seen == IF ans.at = "shows" THEN ShowRow(p, ans.cur) ELSE p
      done == [seen EXCEPT ![slot] = NoRead,
                           !.press = IF "press" \in ans.ends THEN NoPress ELSE @,
                           !.dialog = IF "dialog" \in ans.ends THEN NoDraft ELSE @,
                           !.failed = ans.at = "error"]
  IN  /\ ans.at \in {"shows", "error"}
      /\ Then(t, done)
      /\ UNCHANGED <<scene, tenant, studio, touches>>

DeckJobEnds ==
  /\ deckJob.state = "running"
  /\ \E st \in {"completed", "failed"} : deckJob' = [deckJob EXCEPT !.state = st]
  /\ UNCHANGED <<scene, tenant, deal, mailed, made, pages, touches>>

(* After six days the link to the PDF is taken for dead.                   *)
ExportLapses ==
  /\ "lapse" \in scene.may
  /\ deal.pdf # NoDraft /\ deal' = [deal EXCEPT !.pdf = NoDraft]
  /\ UNCHANGED <<scene, tenant, deckJob, mailed, made, pages, touches>>

Configs == [key : BOOLEAN, on : BOOLEAN, driver : {"llm", "gamma"}]
Slots == {"read", "late"}

ServedAt(t) == \/ ServePick(t) \/ ServeClear(t) \/ GammaDrafts(t) \/ LlmDrafts(t) \/ LlmAnswers(t)
               \/ NotDrafted(t) \/ ServePaste(t) \/ ServeMark(t) \/ ServeSend(t)
Reads(t) == Tick(t) \/ \E slot \in Slots : Read(t, slot) \/ Display(t, slot)
Pressed(t) == \/ \E d \in Decks : PickDeck(t, d)
              \/ PressGenerate(t) \/ PressRegenerate(t) \/ OpenDialog(t) \/ CloseDialog(t) \/ Reload(t)
              \/ PressMark(t) \/ PressSend(t)
              \/ \E op \in {"paste", "cancel"} : PressPrompt(t, op)

StudioNext == \/ \E t \in Tabs : Pressed(t) \/ ServedAt(t) \/ Reads(t)
              \/ \E d \in Decks : AddDeck(d) \/ SetDefault(d) \/ Archive(d)
              \/ \E cfg \in Configs : SaveConfig(cfg)
              \/ DeckJobEnds \/ ExportLapses

StudioSpec == StudioInit /\ [][StudioNext]_studioVars

(* Requests are answered, the interval fires, and Gamma comes to an end.   *)
StudioFairness ==
  /\ \A t \in {1, 2} :
       /\ WF_studioVars(t \in Tabs /\ ServedAt(t)) /\ WF_studioVars(t \in Tabs /\ Tick(t))
       /\ \A slot \in Slots : /\ WF_studioVars(t \in Tabs /\ Read(t, slot))
                               /\ WF_studioVars(t \in Tabs /\ Display(t, slot))
  /\ WF_studioVars(DeckJobEnds)

-----------------------------------------------------------------------------
Quiet(p) == p.press = NoPress /\ p.sending = NoPress /\ ~Pending(p) /\ p.cur.st # "drafting"
Alone == Cardinality(Tabs) = 1

(* A page that waits for nothing shows the row as it is -- or a draft that *)
(* a regeneration cleared without making another, which the server will    *)
(* not send, or an error because Gamma did not answer the read -- unless   *)
(* it asked again before it was answered, and the answers crossed.         *)
QuietPageIsTrue ==
  Alone => \A t \in Tabs : Quiet(pages[t]) =>
             \/ pages[t].cur = Shown(deal)
             \/ deal.text = NoDraft /\ deal.st # "drafting"
             \/ pages[t].failed \/ pages[t].crossed

(* The deck is made from the entry that the picker showed, saved or not    *)
(* yet, as long as it is in the library; and a deck that is mailed goes    *)
(* with its own PDF or with none, however many were made before it.        *)
DecksAreThePicked ==
  [][/\ \A t \in Tabs : GammaDrafts(t) /\ made' # made /\ pages[t].press.deck \in Active =>
          deckJob'.deck = pages[t].press.deck
     /\ \A m \in mailed' \ mailed : m.draft > 0 => m.pdf \in {NoDraft, m.draft}]_studioVars

(* Whoever made the draft that a page waits for: it shows the end of it,   *)
(* unless Gamma makes it, and is switched off or loses its key meanwhile.  *)
PageSettles ==
  \A who \in {1, 2} :
    (who \in Tabs /\ pages[who].cur.st = "drafting")
      ~> (who \in Tabs => \/ pages[who].cur.st # "drafting"
                          \/ deal.gen /\ ~(gamma.key /\ gamma.on))

StudioIsTrue == []QuietPageIsTrue /\ DecksAreThePicked

(* Statements the code does not meet: of two reads the older answer stays  *)
(* on the page; a text draft goes out with the PDF of an earlier deck; the *)
(* dialog, opened before a pasted draft has been read back, sends the text *)
(* of the one before; and the spinner of a regeneration that failed never  *)
(* ends.                                                                   *)
LastAnswerIsShown ==
  Alone => \A t \in Tabs : Quiet(pages[t]) /\ ~pages[t].failed =>
             pages[t].cur = Shown(deal) \/ (deal.text = NoDraft /\ deal.st # "drafting")
TextDraftsCarryNoPdf == \A m \in mailed : m.draft < 0 => m.pdf = NoDraft
SendsWhatIsStored == \A m \in mailed : Alone => m.body = m.draft
SpinnerWaits == \A t \in Tabs : pages[t].spinner => pages[t].press # NoPress
=============================================================================
