------------------------------ MODULE LeadDesk ------------------------------
(***************************************************************************)
(* The lead management of one opportunity: its tickets and follow-ups      *)
(* (lead-management/tickets.service.ts, follow-ups.service.ts), the cached *)
(* AI summary that is regenerated when the activity has moved on           *)
(* (summary.service.ts), and the page's drawer and summary card that call  *)
(* them (lead-management.tsx, lead-summary-inline.tsx, lead-hud.tsx).      *)
(*                                                                         *)
(* A request on a ticket or a follow-up is a transaction of two steps: it  *)
(* reads the row and takes its number in the feed (created_at is the       *)
(* transaction's start), and later commits row and event together.  So a   *)
(* request overlaps another, and an older event can commit after a newer   *)
(* one.  A summary is the chain decide, read the context, stamp the newest *)
(* event, call the model, store; anything may happen between two of them.  *)
(***************************************************************************)
EXTENDS Naturals, FiniteSets, FiniteSetsExt, TLC

CONSTANTS Agents,       \* people at the opportunity page
          Managers,     \* those of them with the admin or sales_manager role
          Tickets,      \* ids of tickets
          FollowUps,    \* ids of follow-ups
          LeadSettings, \* the settings a tenant can have: autoOn and provider
          MaxActivity,  \* bound: requests that take a number in the feed
          None

ASSUME LeadDeskAssumption ==
    /\ Managers \subseteq Agents
    /\ LeadSettings \subseteq [autoOn : BOOLEAN, provider : {"none", "manual", "llm"}]
    /\ MaxActivity \in Nat
    /\ None \notin Agents \cup Tickets \cup FollowUps \cup Nat

VARIABLES leadSetting,   \* the tenant's auto-summary switch and AI provider
          tickets,       \* engagement_tickets: status, and whether resolved_at is set
          followUps,     \* engagement_follow_ups: state and related ticket
          began,         \* how many requests took a number in the feed
          feed,          \* the numbers whose event is committed
          request,       \* agent -> the open ticket or follow-up transaction
          summary,       \* the engagement_summaries row, or None
          marker,        \* the newest summary_generated event: 0, then 1 and 2 in turn
          hot,           \* the row is younger than the 60 s cool-down
          call,          \* agent -> the summary request being served
          panel          \* agent -> the page: open or not, and its paste-back prompt

leadVars == <<leadSetting, tickets, followUps, began, feed, request,
              summary, marker, hot, call, panel>>

leadDeskVars == <<tickets, followUps, began, feed, request>>
rowVars == <<summary, marker, hot>>

OpenStatuses == {"open", "in_progress"}
ClosedStatuses == {"resolved", "wont_fix"}
TicketStatuses == OpenStatuses \cup ClosedStatuses

NoTicket == [status |-> "absent", dated |-> FALSE]
NoFollowUp == [state |-> "absent", about |-> None]
NoRequest == [op |-> "idle"]
NoCall == [stage |-> "idle", auto |-> FALSE, basis |-> None]
Away == [open |-> FALSE, prompt |-> FALSE]

LeadInit ==
    /\ leadSetting \in LeadSettings
    /\ tickets = [t \in Tickets |-> NoTicket]
    /\ followUps = [f \in FollowUps |-> NoFollowUp]
    /\ began = 0
    /\ feed = {}
    /\ request = [a \in Agents |-> NoRequest]
    /\ summary = None
    /\ marker = 0
    /\ hot = FALSE
    /\ call = [a \in Agents |-> NoCall]
    /\ panel = [a \in Agents |-> Away]

(* The mistake the next definition avoids: the event a stored summary emits  *)
(* itself counts as activity.                                                *)
LatestEvent_OwnMarker ==
    IF marker # 0 THEN MaxActivity + marker
    ELSE IF feed = {} THEN None ELSE Max(feed)

(* findLatestNonSummaryEvent: the newest event by created_at, the            *)
(* summary_generated ones left out.                                          *)
LatestEvent == IF feed = {} THEN None ELSE Max(feed)

(* rowToDto's flag: the activity has moved on from what the row is based on. *)
IsStale(row) == /\ LatestEvent # None
                /\ row.basis # None
                /\ LatestEvent # row.basis

-----------------------------------------------------------------------------
(* Tickets and follow-ups: reading the row opens the transaction.           *)

Begin(a, req) ==
    /\ panel[a].open
    /\ request[a] = NoRequest
    /\ began < MaxActivity
    /\ began' = began + 1
    /\ request' = [request EXCEPT ![a] = req @@ [no |-> began + 1]]
    /\ UNCHANGED <<leadSetting, rowVars, tickets, followUps, feed, call, panel>>

RaiseTicket(a) ==
    \E t \in Tickets :
        /\ tickets[t] = NoTicket
        /\ \A b \in Agents : request[b].op = "raise" => request[b].ticket # t
        /\ Begin(a, [op |-> "raise", ticket |-> t])

(* The row buttons, on a list that may be an old one: the request acts on   *)
(* the row the server reads.                                                *)
ChangeStatus(a) ==
    \E t \in Tickets, to \in {"in_progress", "resolved"} :
        /\ tickets[t] # NoTicket
        /\ Begin(a, [op |-> "status", ticket |-> t, to |-> to,
                     existing |-> tickets[t]])

DeleteTicket(a) ==
    \E t \in Tickets :
        /\ a \in Managers
        /\ tickets[t] # NoTicket
        /\ Begin(a, [op |-> "delete", ticket |-> t])

ScheduleFollowUp(a) ==
    \E f \in FollowUps, about \in Tickets \cup {None} :
        /\ followUps[f] = NoFollowUp
        /\ \A b \in Agents : request[b].op = "schedule" => request[b].followUp # f
        /\ about # None => tickets[about] # NoTicket
        /\ Begin(a, [op |-> "schedule", followUp |-> f, about |-> about])

CompleteFollowUp(a) ==
    \E f \in FollowUps :
        /\ followUps[f].state = "pending"
        /\ Begin(a, [op |-> "complete", followUp |-> f])

RemoveFollowUp(a) ==
    \E f \in FollowUps :
        /\ followUps[f] # NoFollowUp
        /\ Begin(a, [op |-> "remove", followUp |-> f])

-----------------------------------------------------------------------------
(* The commit: the write, and the event where the handler emits one.  A row *)
(* that is gone by now fails the transaction and leaves everything alone.   *)

Transitioning(req) == req.to # req.existing.status
Resolving(req) == Transitioning(req) /\ req.to \in ClosedStatuses

PatchedTicket(req) ==
    [status |-> req.to,
     dated |-> \/ Resolving(req)
               \/ /\ tickets[req.ticket].dated
                  /\ ~(Transitioning(req) /\ req.existing.dated)]

Emitted(req) == feed' = feed \cup {req.no}

CommitTicket(a) ==
    LET req == request[a] IN
    /\ req.op \in {"raise", "status", "delete"}
    /\ request' = [request EXCEPT ![a] = NoRequest]
    /\ \/ /\ req.op = "raise"
          /\ tickets' = [tickets EXCEPT ![req.ticket] =
                           [status |-> "open", dated |-> FALSE]]
          /\ Emitted(req)
          /\ UNCHANGED followUps
       \/ /\ req.op = "status"
          /\ tickets[req.ticket] # NoTicket
          /\ tickets' = [tickets EXCEPT ![req.ticket] = PatchedTicket(req)]
          /\ IF Transitioning(req) THEN Emitted(req) ELSE UNCHANGED feed
          /\ UNCHANGED followUps
       \/ /\ req.op = "delete"
          /\ tickets' = [tickets EXCEPT ![req.ticket] = NoTicket]
          /\ followUps' = [f \in FollowUps |->
                             IF followUps[f].about = req.ticket
                             THEN [followUps[f] EXCEPT !.about = None]
                             ELSE followUps[f]]
          /\ UNCHANGED feed
       \/ /\ req.op = "status"
          /\ tickets[req.ticket] = NoTicket
          /\ UNCHANGED <<tickets, followUps, feed>>
    /\ UNCHANGED <<leadSetting, rowVars, began, call, panel>>

CommitFollowUp(a) ==
    LET req == request[a] IN
    /\ req.op \in {"schedule", "complete", "remove"}
    /\ request' = [request EXCEPT ![a] = NoRequest]
    /\ \/ /\ req.op = "schedule"
          /\ req.about # None => tickets[req.about] # NoTicket
          /\ followUps' = [followUps EXCEPT ![req.followUp] =
                             [state |-> "pending", about |-> req.about]]
          /\ Emitted(req)
       \/ /\ req.op = "complete"
          /\ followUps[req.followUp] # NoFollowUp
          /\ followUps' = [followUps EXCEPT ![req.followUp].state = "done"]
          /\ Emitted(req)
       \/ /\ req.op = "remove"
          /\ followUps' = [followUps EXCEPT ![req.followUp] = NoFollowUp]
          /\ UNCHANGED feed
       \/ /\ \/ /\ req.op = "schedule"
                /\ req.about # None
                /\ tickets[req.about] = NoTicket
             \/ /\ req.op = "complete"
                /\ followUps[req.followUp] = NoFollowUp
          /\ UNCHANGED <<followUps, feed>>
    /\ UNCHANGED <<leadSetting, rowVars, tickets, began, call, panel>>

-----------------------------------------------------------------------------
(* The page.                                                                *)

(* Mounting the card reads the cached row and then asks the auto path.      *)
OpenPage(a) ==
    /\ ~panel[a].open
    /\ call[a] = NoCall
    /\ panel' = [panel EXCEPT ![a] = [open |-> TRUE, prompt |-> FALSE]]
    /\ call' = [call EXCEPT ![a] = [NoCall EXCEPT !.stage = "decide", !.auto = TRUE]]
    /\ UNCHANGED <<leadSetting, leadDeskVars, rowVars>>

(* Leaving drops the answer, not the work: a served call runs on.            *)
LeavePage(a) ==
    /\ panel[a].open
    /\ request[a] = NoRequest
    /\ panel' = [panel EXCEPT ![a] = Away]
    /\ UNCHANGED <<leadSetting, leadDeskVars, rowVars, call>>

-----------------------------------------------------------------------------
(* generateIfStale: the reasons to answer from the cache, in order.          *)

MayRegenerate ==
    /\ leadSetting.autoOn
    /\ LatestEvent # None
    /\ ~(summary # None /\ summary.basis = LatestEvent)
    /\ ~(summary # None /\ hot)
    /\ leadSetting.provider = "llm"

AnswerFromCache(a) ==
    /\ call[a].stage = "decide"
    /\ ~MayRegenerate
    /\ call' = [call EXCEPT ![a] = NoCall]
    /\ UNCHANGED <<leadSetting, leadDeskVars, rowVars, panel>>

AutoRegenerate(a) ==
    /\ call[a].stage = "decide"
    /\ MayRegenerate
    /\ call' = [call EXCEPT ![a].stage = "context"]
    /\ UNCHANGED <<leadSetting, leadDeskVars, rowVars, panel>>

(* The Refresh button is disabled while this page's own call runs.           *)
ForceRefresh(a) ==
    /\ panel[a].open
    /\ ~panel[a].prompt
    /\ call[a] = NoCall
    /\ call' = [call EXCEPT ![a].stage = "context"]
    /\ UNCHANGED <<leadSetting, leadDeskVars, rowVars, panel>>

(* generate(): the context is read before the provider is looked at.         *)
LoadContext(a) ==
    /\ call[a].stage = "context"
    /\ \/ /\ leadSetting.provider = "llm"
          /\ call' = [call EXCEPT ![a].stage = "stamp"]
          /\ UNCHANGED panel
       \/ /\ leadSetting.provider = "manual"
          /\ call' = [call EXCEPT ![a] = NoCall]
          /\ panel' = [panel EXCEPT ![a].prompt = @ \/ panel[a].open]
       \/ /\ leadSetting.provider = "none"
          /\ call' = [call EXCEPT ![a] = NoCall]
          /\ UNCHANGED panel
    /\ UNCHANGED <<leadSetting, leadDeskVars, rowVars>>

(* The newest event is noted in a transaction of its own, after the context. *)
StampBasis(a) ==
    /\ call[a].stage = "stamp"
    /\ call' = [call EXCEPT ![a].stage = "model", ![a].basis = LatestEvent]
    /\ UNCHANGED <<leadSetting, leadDeskVars, rowVars, panel>>

(* acceptManual: the pasted text is stamped with the newest event now.       *)
PasteBack(a) ==
    /\ panel[a].prompt
    /\ call[a] = NoCall
    /\ call' = [call EXCEPT ![a].stage = "store", ![a].basis = LatestEvent]
    /\ panel' = [panel EXCEPT ![a].prompt = FALSE]
    /\ UNCHANGED <<leadSetting, leadDeskVars, rowVars>>

(* The model's answer parses to something whatever it says.                  *)
ModelAnswers(a) ==
    /\ call[a].stage = "model"
    /\ call' = [call EXCEPT ![a].stage = "store"]
    /\ UNCHANGED <<leadSetting, leadDeskVars, rowVars, panel>>

(* A provider error: the auto path answers with the cache it read, the       *)
(* button shows the error; nothing is stored, so nothing cools down.         *)
ModelFails(a) ==
    /\ call[a].stage = "model"
    /\ call' = [call EXCEPT ![a] = NoCall]
    /\ UNCHANGED <<leadSetting, leadDeskVars, rowVars, panel>>

StoreSummary(a) ==
    /\ call[a].stage = "store"
    /\ summary' = [basis |-> call[a].basis]
    /\ marker' = IF marker = 1 THEN 2 ELSE 1
    /\ hot' = TRUE
    /\ call' = [call EXCEPT ![a] = NoCall]
    /\ UNCHANGED <<leadSetting, leadDeskVars, panel>>

ClearSummary ==
    /\ summary # None
    /\ began < MaxActivity
    /\ began' = began + 1
    /\ summary' = None
    /\ hot' = FALSE
    /\ UNCHANGED <<leadSetting, tickets, followUps, feed, request, marker, call, panel>>

CoolDown ==
    /\ hot
    /\ hot' = FALSE
    /\ UNCHANGED <<leadSetting, leadDeskVars, summary, marker, call, panel>>

LeadStep(a) ==
    \/ RaiseTicket(a) \/ ChangeStatus(a) \/ DeleteTicket(a)
    \/ ScheduleFollowUp(a) \/ CompleteFollowUp(a) \/ RemoveFollowUp(a)
    \/ CommitTicket(a) \/ CommitFollowUp(a)
    \/ OpenPage(a) \/ LeavePage(a)
    \/ AnswerFromCache(a) \/ AutoRegenerate(a) \/ ForceRefresh(a)
    \/ LoadContext(a) \/ StampBasis(a) \/ PasteBack(a)
    \/ ModelAnswers(a) \/ ModelFails(a) \/ StoreSummary(a)

LeadNext == ClearSummary \/ CoolDown \/ \E a \in Agents : LeadStep(a)

(* The server goes on with what it was asked; the provider answers at last;  *)
(* pages and people promise nothing.                                         *)
LeadFairness ==
    \A a \in Agents :
        /\ WF_leadVars(CommitTicket(a) \/ CommitFollowUp(a))
        /\ WF_leadVars(\/ AnswerFromCache(a) \/ AutoRegenerate(a)
                       \/ LoadContext(a) \/ StampBasis(a) \/ StoreSummary(a))
        /\ SF_leadVars(ModelAnswers(a))

-----------------------------------------------------------------------------
AutoCalls == \E a \in Agents : /\ call[a].stage = "decide"
                               /\ call'[a].stage = "context"

(* However often the page is opened, and however requests, stamps and late   *)
(* answers overlap, the automatic path stops asking the model once the       *)
(* people stop: the event a stored summary emits is not activity, and a row  *)
(* stored late with an older stamp is corrected once and then left alone     *)
(* (findLatestNonSummaryEvent, generateIfStale, persist).                    *)
SummarySettles == <>[][~AutoCalls]_leadVars

-----------------------------------------------------------------------------
(* Statements the comments suggest and overlapping requests refute; no run   *)
(* checks them: a closed ticket is dated and an open one is not; two page    *)
(* loads never pay for two summaries.                                        *)
ResolvedIffDated ==
    \A t \in Tickets : tickets[t] # NoTicket =>
        (tickets[t].status \in ClosedStatuses <=> tickets[t].dated)
TwoOpensOneCall ==
    Cardinality({a \in Agents : call[a].auto /\ call[a].stage \in {"stamp", "model"}}) <= 1
=============================================================================
