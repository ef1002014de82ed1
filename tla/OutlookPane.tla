----------------------------- MODULE OutlookPane -----------------------------
(***************************************************************************)
(* The Outlook add-in (apps/outlook-addin/src): a task pane that reads an  *)
(* open mail, signs the rep in, previews what the server extracts, creates *)
(* an opportunity and may issue a questionnaire link for it.               *)
(*                                                                         *)
(* A pane is one mounted App component with a token of its own; its calls  *)
(* are asynchronous and may lose their answers; it waits for one at a time *)
(* (a second sign-in while a call is in flight is left out).  The server's *)
(* import of a mail is one step here, keyed by the Message-ID; its own     *)
(* steps are module Ingestion.                                             *)
(***************************************************************************)
EXTENDS Integers, FiniteSets

CONSTANTS
  Panes,        \* panes the rep has open on the same mail
  PaneDeals,    \* opportunities, numbered as they are made
  NoPaneDeal,
  MaxLost,      \* bound on calls whose answer is lost
  MaxSessions   \* bound on the times the rep signs in again

ASSUME PaneAssumption == PaneDeals \subseteq Nat /\ NoPaneDeal \notin PaneDeals

VARIABLES
  xPane,    \* the state of each pane, with the call it waits for
  xCache,   \* localStorage: "none", "good" or "expired" token, shared by the panes
  xLanded,  \* the opportunity the server made of this mail
  xDeals,   \* opportunities made
  xLinks,   \* links issued per opportunity
  xHasId,   \* whether Outlook gives the mail an internetMessageId
  xLost, xSessions

paneVars == <<xPane, xCache, xLanded, xDeals, xLinks, xHasId, xLost, xSessions>>

-----------------------------------------------------------------------------
NewPane == [boot |-> "loading", step |-> 0, auth |-> "none", waits |-> "none", made |-> NoPaneDeal,
            link |-> FALSE, want |-> FALSE, tmpl |-> "idle"]

PaneInit ==
  /\ xPane = [p \in Panes |-> NewPane]
  /\ xCache \in {"none", "good", "expired"}
  /\ xLanded = NoPaneDeal /\ xDeals = {}
  /\ xLinks = [d \in PaneDeals |-> 0]
  /\ xHasId \in BOOLEAN
  /\ xLost = 0 /\ xSessions = 0

Pane(p, q) == xPane' = [xPane EXCEPT ![p] = q]
Server     == <<xLanded, xDeals, xLinks, xHasId>>

(* runBoot: Office answers with the open message, with none, or not within *)
(* ten seconds; a cached session goes straight to the preview.             *)
Boot(p, outcome) ==
  /\ xPane[p].boot = "loading" /\ xPane[p].waits = "none"
  /\ Pane(p, CASE outcome # "message" -> [xPane[p] EXCEPT !.boot = outcome]
               [] xCache = "none"     -> [xPane[p] EXCEPT !.boot = "signin"]
               [] OTHER               -> [xPane[p] EXCEPT !.auth = xCache, !.waits = "preview"])
  /\ UNCHANGED <<Server, xCache, xLost, xSessions>>

Reload(p) ==
  /\ xPane[p].boot \in {"init-error", "no-message"} /\ xLost < MaxLost
  /\ Pane(p, NewPane) /\ xLost' = xLost + 1
  /\ UNCHANGED <<Server, xCache, xSessions>>

(* handleSignIn takes a cached session first, else the dialog's.           *)
SignIn(p) ==
  /\ xPane[p].boot = "signin" /\ xPane[p].waits = "none"
  /\ IF xCache = "none" THEN xSessions < MaxSessions /\ xSessions' = xSessions + 1 /\ xCache' = "good"
                        ELSE UNCHANGED <<xSessions, xCache>>
  /\ Pane(p, [xPane[p] EXCEPT !.auth = xCache', !.waits = "preview"])
  /\ UNCHANGED <<Server, xLost>>

(* The preview's answer.  An expired session clears the session and asks   *)
(* for a new one, and the caller then sets the pane ready all the same.    *)
PreviewAnswers(p) ==
  /\ xPane[p].waits = "preview"
  /\ IF xPane[p].auth # "good"
     THEN /\ Pane(p, [xPane[p] EXCEPT !.auth = "none", !.boot = "ready", !.waits = "none"])
          /\ xCache' = IF xPane[p].auth = "expired" THEN "none" ELSE xCache
     ELSE /\ UNCHANGED xCache
          /\ Pane(p, [xPane[p] EXCEPT !.boot = "ready", !.waits = "none"])   \* extracted or not
  /\ UNCHANGED <<Server, xLost, xSessions>>

SignOut(p) ==
  /\ xPane[p].auth # "none" /\ xSessions < MaxSessions
  /\ xCache' = "none"
  /\ Pane(p, [xPane[p] EXCEPT !.auth = "none", !.boot = "signin", !.step = 0])
  /\ UNCHANGED <<Server, xLost, xSessions>>

Aged(token) == IF token = "good" THEN "expired" ELSE token
SessionExpires == /\ xSessions < MaxSessions
                  /\ xCache' = Aged(xCache)
                  /\ xPane' = [p \in Panes |-> [xPane[p] EXCEPT !.auth = Aged(@)]]
                  /\ UNCHANGED <<Server, xLost, xSessions>>

\* The footer's buttons between the steps; Back is disabled while busy.
Walk(p) ==
  /\ xPane[p].boot = "ready"
  /\ \/ xPane[p].step \in {0, 1} /\ Pane(p, [xPane[p] EXCEPT !.step = @ + 1])
     \/ xPane[p].step = 2 /\ xPane[p].waits \notin {"create", "link"} /\ Pane(p, [xPane[p] EXCEPT !.step = 1])
  /\ UNCHANGED <<Server, xCache, xLost, xSessions>>

(* ensureTemplates: once, and again only after a failure.                  *)
ChooseLink(p) ==
  /\ xPane[p].boot = "ready" /\ xPane[p].step = 2 /\ xPane[p].auth # "none"
  /\ \E t \in {"loaded", "error"} :
       Pane(p, [xPane[p] EXCEPT !.want = ~@, !.tmpl = IF @ = "loaded" \/ xPane[p].want THEN @ ELSE t])
  /\ UNCHANGED <<Server, xCache, xLost, xSessions>>

(* handleCreate, behind a button disabled while busy, after a creation and *)
(* without a template to send.  The request carries the mail and the       *)
(* identity; what the rep edited or queued in the review is not in it.     *)
PressCreate(p) ==
  /\ xPane[p].boot = "ready" /\ xPane[p].step = 2 /\ xPane[p].waits = "none"
  /\ xPane[p].made = NoPaneDeal /\ (xPane[p].want => xPane[p].tmpl = "loaded")
  /\ xPane[p].auth # "none"
  /\ Pane(p, [xPane[p] EXCEPT !.waits = "create"])
  /\ UNCHANGED <<Server, xCache, xLost, xSessions>>

\* POST /opportunities/from-email-ingest: the mail's opportunity, or a new one.
Imported_NoDedupe == NoPaneDeal
Imported == IF xHasId THEN xLanded ELSE NoPaneDeal
ImportMail(p, d) ==
  /\ IF Imported # NoPaneDeal THEN d = Imported ELSE d \in PaneDeals \ xDeals /\ \A e \in PaneDeals \ xDeals : d <= e
  /\ xDeals' = xDeals \cup {d} /\ xLanded' = d
  /\ UNCHANGED <<xLinks, xHasId>>

CreateAnswers(p, d) ==
  /\ xPane[p].waits = "create"
  /\ IF xPane[p].auth = "good"
     THEN /\ ImportMail(p, d)
          /\ UNCHANGED xCache
          /\ \/ /\ Pane(p, IF xPane[p].want
                           THEN [xPane[p] EXCEPT !.waits = "link", !.made = d]
                           ELSE [xPane[p] EXCEPT !.waits = "none", !.made = d, !.step = 3])
                /\ UNCHANGED xLost
             \/ /\ xLost < MaxLost /\ xLost' = xLost + 1
                /\ Pane(p, [xPane[p] EXCEPT !.waits = "none"])
     ELSE /\ xCache' = "none" /\ UNCHANGED <<Server, xLost>>
          /\ Pane(p, [xPane[p] EXCEPT !.waits = "none", !.auth = "none", !.boot = "signin",
                                      !.step = 0])
  /\ UNCHANGED xSessions

\* POST links: a failure is a partial success, and the pane goes on to the end.
LinkAnswers(p) ==
  /\ xPane[p].waits = "link"
  /\ \E ok \in BOOLEAN :
       /\ ok => xPane[p].auth = "good"
       /\ xLinks' = IF ok THEN [xLinks EXCEPT ![xPane[p].made] = @ + 1] ELSE xLinks
       /\ Pane(p, [xPane[p] EXCEPT !.waits = "none", !.link = ok, !.step = 3])
  /\ UNCHANGED <<xCache, xLanded, xDeals, xHasId, xLost, xSessions>>

PaneNext ==
  \/ SessionExpires
  \/ \E p \in Panes :
       \/ \E o \in {"message", "no-message", "init-error"} : Boot(p, o)
       \/ \E d \in PaneDeals : CreateAnswers(p, d)
       \/ Reload(p) \/ SignIn(p) \/ PreviewAnswers(p) \/ SignOut(p) \/ Walk(p) \/ ChooseLink(p)
       \/ PressCreate(p) \/ LinkAnswers(p)

PaneSpec == PaneInit /\ [][PaneNext]_paneVars

-----------------------------------------------------------------------------
PaneTypeOK ==
  /\ xCache \in {"none", "good", "expired"} /\ xDeals \subseteq PaneDeals
  /\ \A p \in Panes : xPane[p].boot \in {"loading", "init-error", "no-message", "signin", "ready"}
                      /\ xPane[p].step \in 0..3 /\ xPane[p].made \in PaneDeals \cup {NoPaneDeal}

(* Whatever answers are lost and however often the rep retries, in one     *)
(* pane or two, a mail with a Message-ID becomes one opportunity, and the  *)
(* page that says it was created shows that one.                           *)
OneDealPerMail ==
  /\ xHasId => Cardinality(xDeals) <= 1
  /\ \A p \in Panes : xPane[p].step = 3 /\ xPane[p].boot = "ready"
                        => xPane[p].made \in xDeals /\ (xPane[p].link => xLinks[xPane[p].made] > 0)
=============================================================================
