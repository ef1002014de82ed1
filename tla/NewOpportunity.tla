--------------------------- MODULE NewOpportunity ---------------------------
(***************************************************************************)
(* The page a rep starts an opportunity from (opportunities/new): the      *)
(* wizard that issues a scoping link, with its preview of the template,    *)
(* and the form for a deal whose requirements are already there, with its  *)
(* uploads.  Calls are answered while the rep goes on clicking: the other  *)
(* mode, another step, a removal, Create once more.                        *)
(*                                                                         *)
(* A handler is one step here; the transactions of a promotion are module  *)
(* Ingestion.  What the browser downscales and how fields are validated is *)
(* left out: an address is valid or empty.                                 *)
(***************************************************************************)
EXTENDS Integers, Sequences, FiniteSets

CONSTANTS Clients,     \* addresses the rep may type
          Offered,     \* published templates
          NoClient, NoTemplate,
          StartScenes  \* bounds: what is clicked, picked and goes wrong

ASSUME NewAssumption ==
  /\ NoTemplate \notin Offered /\ Offered # {}
  /\ StartScenes \subseteq [{"clicks", "files", "mishaps"} -> Nat]

VARIABLES start,   \* what is left of the bounds
          mode,    \* "link", "have_it", or "gone": the rep has left the page
          wizard,  \* step, fields, the issue on its way and the link shown
          preview, \* the template read for the preview, and the reads on their way
          issued,  \* links issued: address and template
          form,    \* tab, rows and submission of the mounted form
          uploads, \* each handleFiles under way
          strays,  \* submissions of forms that are not mounted any more
          going,   \* router.push was called
          stored,  \* rows whose object is in the bucket
          made     \* deals made from pasted text or uploaded files
server == <<issued, stored, made>>
newVars == <<start, mode, wizard, preview, server, form, uploads, strays, going>>

-----------------------------------------------------------------------------
NotSent == [at |-> "none"]
FreshForm == [tab |-> "paste", text |-> FALSE, rows |-> {}, sub |-> NotSent]
NoPreview == [of |-> NoTemplate, loading |-> FALSE, reads |-> <<>>]
NewInit ==
  /\ start \in StartScenes
  /\ mode = "link"
  /\ wizard = [step |-> 1, to |-> NoClient, template |-> NoTemplate, call |-> NotSent, link |-> 0, lost |-> 0]
  /\ preview = NoPreview
  /\ issued = <<>> /\ stored = {} /\ made = <<>>
  /\ form = FreshForm /\ uploads = <<>> /\ strays = {} /\ going = FALSE

Spend(n) == start[n] > 0 /\ start' = [start EXCEPT ![n] = @ - 1]
Mishap == Spend("mishaps")
Fine == UNCHANGED start

-----------------------------------------------------------------------------
(* The preview reads the template that is chosen and ignores the answer to *)
(* every earlier choice.                                                   *)
ShowsRail == mode = "link" /\ ~(wizard.step = 3 /\ wizard.link # 0)
Reading(p, t) == IF t = NoTemplate THEN NoPreview
                 ELSE [p EXCEPT !.loading = TRUE, !.reads = Append(@, t)]
Heard_Any(p, n) == TRUE
Heard(p, n) == n = Len(p.reads)
PreviewRead(n) ==
  /\ ShowsRail /\ n \in DOMAIN preview.reads /\ preview.reads[n] # NoTemplate
  /\ \E got \in {preview.reads[n], NoTemplate} :
       /\ IF got = NoTemplate THEN Mishap ELSE Fine
       /\ preview' = IF Heard(preview, n) THEN [of |-> got, loading |-> FALSE, reads |-> [preview.reads EXCEPT ![n] = NoTemplate]]
                     ELSE [preview EXCEPT !.reads[n] = NoTemplate]
  /\ UNCHANGED <<mode, wizard, server, form, uploads, strays, going>>

(* The published templates arrive and the first of them is chosen.         *)
LoadTemplates ==
  /\ wizard.template = NoTemplate /\ mode # "gone"
  /\ wizard' = [wizard EXCEPT !.template = CHOOSE t \in Offered : TRUE]
  /\ preview' = IF ShowsRail THEN Reading(preview, wizard'.template) ELSE preview
  /\ UNCHANGED <<start, mode, server, form, uploads, strays, going>>

-----------------------------------------------------------------------------
(* The wizard: its stepper may be jumped along while a call is on its way. *)
CanJumpTo_Anywhere(target) ==
  \/ target <= wizard.step
  \/ wizard.to # NoClient /\ (target = 3 => wizard.template # NoTemplate)
CanJumpTo(target) ==
  \/ target = wizard.step
  \/ IF wizard.link # 0 THEN target = 3
     ELSE target < wizard.step \/ (wizard.to # NoClient /\ (target = 3 => wizard.template # NoTemplate))

Jump == /\ mode = "link" /\ Spend("clicks")
        /\ \E target \in 1..3 : /\ target # wizard.step /\ CanJumpTo(target)
                                /\ wizard' = [wizard EXCEPT !.step = target]
        /\ UNCHANGED <<mode, preview, server, form, uploads, strays, going>>
TypeClient == /\ mode = "link" /\ wizard.step = 1 /\ Spend("clicks")
              /\ \E c \in Clients \ {wizard.to} : wizard' = [wizard EXCEPT !.to = c]
              /\ UNCHANGED <<mode, preview, server, form, uploads, strays, going>>
ChooseTemplate ==
  /\ mode = "link" /\ wizard.step = 2 /\ wizard.template # NoTemplate /\ Spend("clicks")
  /\ \E t \in Offered \ {wizard.template} :
       /\ wizard' = [wizard EXCEPT !.template = t]
       /\ preview' = Reading(preview, t)
  /\ UNCHANGED <<mode, server, form, uploads, strays, going>>

PressIssue ==
  /\ mode = "link" /\ wizard.step = 2 /\ wizard.call = NotSent /\ wizard.template # NoTemplate
  /\ Spend("clicks")
  /\ wizard' = [wizard EXCEPT !.call = [at |-> "sent", to |-> wizard.to, template |-> wizard.template]]
  /\ UNCHANGED <<mode, preview, server, form, uploads, strays, going>>
(* issue: one transaction makes the deal, its token and its event.         *)
Issue ==
  /\ wizard.call.at = "sent"
  /\ \E ok \in BOOLEAN :
       /\ IF ok THEN issued' = Append(issued, [to |-> wizard.call.to, template |-> wizard.call.template]) /\ Fine
                ELSE UNCHANGED issued /\ Mishap
       /\ wizard' = [wizard EXCEPT !.call = IF ok THEN [at |-> "issued", link |-> Len(issued')] ELSE [at |-> "refused"]]
  /\ UNCHANGED <<mode, preview, stored, made, form, uploads, strays, going>>
(* Then the third step, whatever is shown by now; or the error, after a    *)
(* refusal or when the answer is lost.                                     *)
IssueAnswered ==
  /\ wizard.call.at \in {"issued", "refused"}
  /\ \/ /\ wizard.call.at = "issued" /\ Fine
        /\ wizard' = [wizard EXCEPT !.link = wizard.call.link, !.step = 3, !.call = NotSent]
        /\ preview' = NoPreview
     \/ /\ wizard.call.at = "refused" /\ Fine
        /\ wizard' = [wizard EXCEPT !.call = NotSent] /\ UNCHANGED preview
     \/ /\ wizard.call.at = "issued" /\ Mishap
        /\ wizard' = [wizard EXCEPT !.call = NotSent, !.lost = @ + 1] /\ UNCHANGED preview
  /\ UNCHANGED <<mode, server, form, uploads, strays, going>>

(* The two modes: the fields of the wizard outlive the toggle, the form    *)
(* and the preview do not.                                                 *)
ToggleMode ==
  /\ mode # "gone" /\ Spend("clicks")
  /\ mode' = IF mode = "link" THEN "have_it" ELSE "link"
  /\ strays' = strays \cup ({form.sub} \ {NotSent})
  /\ form' = FreshForm
  /\ uploads' = [j \in DOMAIN uploads |-> [uploads[j] EXCEPT !.here = FALSE]]
  /\ preview' = IF mode = "have_it" /\ ~(wizard.step = 3 /\ wizard.link # 0)
                THEN Reading(NoPreview, wizard.template) ELSE NoPreview
  /\ UNCHANGED <<wizard, server, going>>

-----------------------------------------------------------------------------
(* The form.  A pasted screenshot switches to the tab of the files; each   *)
(* handleFiles uploads its files one after the other.                      *)
Marked(id, st) == {IF row.id = id THEN [row EXCEPT !.st = st] ELSE row : row \in form.rows}
NoneAt(id) == {row \in form.rows : row.id # id}
Job(files) == [rest |-> files, row |-> 0, at |-> "next", here |-> TRUE]

HandleFiles ==
  /\ mode = "have_it" /\ Spend("clicks")
  /\ \E files \in {<<1>>, <<1, 2>>} : uploads' = Append(uploads, Job(files))
  /\ form' = [form EXCEPT !.tab = "drop"]
  /\ UNCHANGED <<mode, wizard, preview, server, strays, going>>
AddRow(j) ==
  /\ uploads[j].at = "next" /\ uploads[j].rest # <<>> /\ Spend("files")
  /\ form' = IF uploads[j].here
              THEN [form EXCEPT !.rows = @ \cup {[id |-> start.files, st |-> "uploading"]}] ELSE form
  /\ uploads' = [uploads EXCEPT ![j] = [uploads[j] EXCEPT !.rest = Tail(@), !.row = start.files,
                                                          !.at = "presign"]]
  /\ UNCHANGED <<mode, wizard, preview, server, strays, going>>
Presign(j) ==
  /\ uploads[j].at = "presign" /\ Fine
  /\ uploads' = [uploads EXCEPT ![j].at = "put"]
  /\ UNCHANGED <<mode, wizard, preview, server, form, strays, going>>
(* The object is put and the row is ready; or something fails on the way,  *)
(* the PUT possibly after its object was stored.                           *)
Put(j) ==
  /\ uploads[j].at = "put"
  /\ stored' = stored \cup {uploads[j].row} /\ Fine
  /\ form' = [form EXCEPT !.rows = Marked(uploads[j].row, "ready")]
  /\ uploads' = [uploads EXCEPT ![j] = [@ EXCEPT !.at = "next", !.row = 0]]
  /\ UNCHANGED <<mode, wizard, preview, issued, made, strays, going>>
UploadFails(j) ==
  /\ uploads[j].at \in {"presign", "put"} /\ Mishap
  /\ stored' \in {stored} \cup (IF uploads[j].at = "put" THEN {stored \cup {uploads[j].row}} ELSE {})
  /\ form' = [form EXCEPT !.rows = Marked(uploads[j].row, "failed")]
  /\ uploads' = [uploads EXCEPT ![j] = [@ EXCEPT !.at = "next", !.row = 0]]
  /\ UNCHANGED <<mode, wizard, preview, issued, made, strays, going>>

RemoveArtifact ==
  /\ mode = "have_it" /\ Spend("clicks")
  /\ \E row \in form.rows : /\ row.st # "uploading"
                            /\ form' = [form EXCEPT !.rows = NoneAt(row.id)]
  /\ UNCHANGED <<mode, wizard, preview, server, uploads, strays, going>>
RetryArtifact ==
  /\ mode = "have_it" /\ Spend("clicks")
  /\ \E row \in form.rows : row.st = "failed" /\ form' = [form EXCEPT !.rows = NoneAt(row.id)]
  /\ uploads' = Append(uploads, Job(<<1>>))
  /\ UNCHANGED <<mode, wizard, preview, server, strays, going>>
TypeText == /\ mode = "have_it" /\ form.tab = "paste" /\ ~form.text /\ Spend("clicks")
            /\ form' = [form EXCEPT !.text = TRUE]
            /\ UNCHANGED <<mode, wizard, preview, server, uploads, strays, going>>
SwitchTab == /\ mode = "have_it" /\ Spend("clicks")
             /\ form' = [form EXCEPT !.tab = IF @ = "paste" THEN "drop" ELSE "paste"]
             /\ UNCHANGED <<mode, wizard, preview, server, uploads, strays, going>>

-----------------------------------------------------------------------------
(* Create opportunity: the tab that is shown, its text or the rows that    *)
(* are uploaded.                                                           *)
ReadyRows_All(rows) == {row.id : row \in rows}
ReadyRows(rows) == {row.id : row \in {r \in rows : r.st = "ready"}}
PressCreateDeal ==
  /\ mode = "have_it" /\ form.sub = NotSent /\ Spend("clicks")
  /\ IF form.tab = "paste" THEN form.text ELSE ReadyRows(form.rows) # {}
  /\ form' = [form EXCEPT !.sub = [at |-> "sent", text |-> form.tab = "paste",
                                   rows |-> IF form.tab = "paste" THEN {} ELSE ReadyRows(form.rows)]]
  /\ UNCHANGED <<mode, wizard, preview, server, uploads, strays, going>>

(* ingest/text makes a deal each time; from-ingest answers with the deal   *)
(* of an artifact that was promoted before.                                *)
DealsWith(rows) == {d \in DOMAIN made : made[d].rows \cap rows # {}}
Create(s) ==
  /\ s.at = "sent" /\ Fine
  /\ made' = IF DealsWith(s.rows) # {} THEN made ELSE Append(made, [text |-> s.text, rows |-> s.rows])
ServeCreate ==
  /\ \/ Create(form.sub) /\ form' = [form EXCEPT !.sub.at = "served"] /\ UNCHANGED strays
     \/ \E s \in strays : /\ Create(s) /\ UNCHANGED form
                          /\ strays' = (strays \ {s}) \cup {[s EXCEPT !.at = "served"]}
  /\ UNCHANGED <<mode, wizard, preview, issued, stored, uploads, going>>

(* The page is left for the deal's, some time after; until then the button *)
(* is there again.  A lost answer is shown as an error, if the form is.    *)
CreateAnswered ==
  /\ \/ /\ form.sub.at = "served" /\ Fine
        /\ form' = [form EXCEPT !.sub = NotSent] /\ UNCHANGED strays /\ going' = TRUE
     \/ /\ form.sub # NotSent /\ Mishap
        /\ form' = [form EXCEPT !.sub = NotSent] /\ UNCHANGED <<strays, going>>
     \/ \E s \in strays : /\ s.at = "served" /\ Fine
                          /\ strays' = strays \ {s} /\ UNCHANGED form /\ going' = TRUE
  /\ UNCHANGED <<mode, wizard, preview, server, uploads>>
Leave == /\ going /\ mode' = "gone"
         /\ UNCHANGED <<start, wizard, preview, server, form, uploads, strays, going>>

NewNext ==
  /\ mode # "gone"
  /\ \/ LoadTemplates \/ Jump \/ TypeClient \/ ChooseTemplate \/ PressIssue \/ Issue \/ IssueAnswered
     \/ ToggleMode \/ HandleFiles \/ RemoveArtifact \/ RetryArtifact \/ TypeText \/ SwitchTab
     \/ PressCreateDeal \/ ServeCreate \/ CreateAnswered \/ Leave
     \/ \E n \in DOMAIN preview.reads : PreviewRead(n)
     \/ \E j \in DOMAIN uploads : AddRow(j) \/ Presign(j) \/ Put(j) \/ UploadFails(j)

NewSpec == NewInit /\ [][NewNext]_newVars

-----------------------------------------------------------------------------
(* No link is issued behind the rep's back: each is shown, on its way, or  *)
(* its answer was lost.  The one that is shown -- only once -- stays on    *)
(* the screen, and nothing of the wizard can be started again under it.    *)
LinksAccounted ==
  Len(issued) = wizard.lost + Cardinality({x \in {"shown", "coming"} :
                  IF x = "shown" THEN wizard.link # 0 ELSE wizard.call.at = "issued"})
LinkStaysShown == wizard.link # 0 => wizard.step = 3 /\ wizard.call = NotSent

(* A preview that is not loading is of the template that would be sent.    *)
PreviewIsOfChosen ==
  ShowsRail /\ ~preview.loading /\ preview.of # NoTemplate => preview.of = wizard.template

(* A deal has no file whose bytes never arrived, whatever was picked,      *)
(* removed, retried or still on its way when Create was pressed; and a row *)
(* that says it is uploading is.                                           *)
FilesArrived == \A d \in DOMAIN made : made[d].rows \subseteq stored
SpinnersTurn == \A row \in form.rows : row.st = "uploading" =>
                  \E j \in DOMAIN uploads : uploads[j].row = row.id /\ uploads[j].at # "next"

StartsAreTrue == LinksAccounted /\ LinkStaysShown /\ PreviewIsOfChosen /\ FilesArrived /\ SpinnersTurn

(* Statements the code does not meet: the panel names the address of its   *)
(* link; the page is not left under a link that is shown; one paste is one *)
(* deal; and a deal has every file that was shown as uploaded.             *)
ScopedAsShown == wizard.link # 0 => issued[wizard.link].to = wizard.to
LinkIsKept == ~(wizard.link # 0 /\ mode = "gone")
OnePasteOneDeal == Cardinality({d \in DOMAIN made : made[d].text}) <= 1
NothingLeftOut == [][mode' = "gone" => ReadyRows(form.rows) \subseteq UNION {made[d].rows : d \in DOMAIN made}]_newVars
=============================================================================
