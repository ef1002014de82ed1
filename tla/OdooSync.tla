------------------------------ MODULE OdooSync ------------------------------
(***************************************************************************)
(* The two-way synchronisation with an Odoo CRM:                           *)
(* apps/api/src/integrations/odoo (service, client, mapping, controller).  *)
(*                                                                         *)
(* Every call to Odoo is a step of its own between transactions of the     *)
(* program, so a push, a promotion, a poll and a webhook pass interleave   *)
(* at exactly those points.  Time is counted in windows of echo            *)
(* suppression: two instants of the same oNow are less than 30 s apart.    *)
(***************************************************************************)
EXTENDS Integers, Sequences, FiniteSets

CONSTANTS
  OdooDeals,    \* opportunities of the program
  OwnDeals,     \* those made here; the others are made by a promotion
  Leads,        \* crm.lead ids, which Odoo hands out in order
  OdooJobs,     \* requests and background calls
  NoLead, NoOdooDeal,
  OdooCrews,    \* which jobs run together and what they may meet
  MaxRev        \* bound on the revisions a push writes; a crew bounds the changes in Odoo,
                \* the clock and the stored events

ASSUME OdooAssumption ==
  /\ Leads \subseteq Nat /\ NoLead \notin Leads /\ IsFiniteSet(Leads)
  /\ OwnDeals \subseteq OdooDeals /\ NoOdooDeal \notin OdooDeals

VARIABLES
  oRec,    \* Odoo: live, revision, write time, created after the cursor, by which deal's push
  oLink,   \* odoo_entity_links of a deal for crm.lead: lead, last_pushed_at, cached revision
  oMate,   \* deals whose res.partner is linked
  oImp,    \* odoo_imported_opportunities: present, snapshot revision, promoted deal
  oDeal,   \* engagements: exists, Odoo revision its pulled fields show
  oHook,   \* odoo_webhook_events, in order of arrival
  oConn,   \* the connection: configured, auto-sync
  oJob,    \* the requests
  oNow, oEdits,
  oOwed,   \* history: leads a deal may have received, by requests that asked for a new one
  oCrew    \* the world of this behaviour

odooVars == <<oRec, oLink, oMate, oImp, oDeal, oHook, oConn, oJob, oNow, oEdits, oOwed, oCrew>>

-----------------------------------------------------------------------------
Never       == -1
NoLink      == [lead |-> NoLead, pushed |-> Never, rev |-> Never]
NoImport    == [row |-> FALSE, rev |-> Never, deal |-> NoOdooDeal]
NoRec       == [live |-> FALSE, rev |-> 0, wrote |-> Never, fresh |-> FALSE,
                by |-> NoOdooDeal]
OdooIdle    == [pc |-> "idle", deal |-> NoOdooDeal, link |-> NoLead, lead |-> NoLead,
                todo |-> {}, seen |-> Never, force |-> FALSE]

OdooInit ==
  /\ oRec = [l \in Leads |-> NoRec]
  /\ oLink = [d \in OdooDeals |-> NoLink]
  /\ oMate = {}
  /\ oImp = [l \in Leads |-> NoImport]
  /\ oDeal = [d \in OdooDeals |-> [st |-> IF d \in OwnDeals THEN "own" ELSE "none", rev |-> Never]]
  /\ oHook = <<>>
  /\ oConn = [on |-> TRUE, auto |-> TRUE]
  /\ oJob = [j \in OdooJobs |-> OdooIdle]
  /\ oNow = 0 /\ oEdits = 0
  /\ oOwed = [d \in OdooDeals |-> 1]
  /\ oCrew \in OdooCrews

NextId(l)   == oRec[l].rev = 0 /\ \A m \in Leads : m < l => oRec[m].rev > 0
Holder(l)   == {d \in OdooDeals : oLink[d].lead = l}
Made(d)     == Cardinality({l \in Leads : oRec[l].by = d})
Busy        == {j \in OdooJobs : oJob[j].pc # "idle"}

\* A request starts: alone in a calm world, beside the others elsewhere.
MayStart(j) == /\ j \in oCrew.jobs /\ oJob[j].pc = "idle"
               /\ oCrew.calm => Busy = {}
GoOn(j, to) == oJob' = [oJob EXCEPT ![j] = to]
Done(j)     == GoOn(j, OdooIdle)

(* The answer to read and search_read, after parseXmlRpcResponse.  The     *)
(* array pattern of parseArray ends at the first closing data tag, so a    *)
(* record holding an array (a Many2one pair, tag_ids) leaves a list of     *)
(* records that parses as the empty list.  Whether Odoo answers with       *)
(* arrays is Odoo's affair, and a choice of the world here.                *)
Parsed(ls) == IF oCrew.arrays THEN {} ELSE ls

-----------------------------------------------------------------------------
(* Odoo itself: its users create, edit and delete leads; an automation     *)
(* rule reports what happened, if the tenant has one and it arrives.       *)
Report(l, kind) ==
  \/ /\ Len(oHook) < oCrew.hooks
     /\ oHook' = Append(oHook, [lead |-> l, kind |-> kind, st |-> "pending"])
  \/ ~oCrew.sure /\ UNCHANGED oHook

OdooCreates(l) ==
  /\ oEdits < oCrew.edits /\ NextId(l)
  /\ oRec' = [oRec EXCEPT ![l] = [live |-> TRUE, rev |-> 1, wrote |-> oNow, fresh |-> TRUE,
                                  by |-> NoOdooDeal]]
  /\ oEdits' = oEdits + 1
  /\ Report(l, "write")
  /\ UNCHANGED <<oLink, oMate, oImp, oDeal, oConn, oJob, oNow, oOwed, oCrew>>

OdooEdits(l) ==
  /\ oEdits < oCrew.edits /\ oRec[l].live
  /\ oRec' = [oRec EXCEPT ![l].rev = @ + 1, ![l].wrote = oNow]
  /\ oEdits' = oEdits + 1
  /\ Report(l, "write")
  /\ UNCHANGED <<oLink, oMate, oImp, oDeal, oConn, oJob, oNow, oOwed, oCrew>>

OdooDeletes(l) ==
  /\ oEdits < oCrew.edits /\ oRec[l].live
  /\ oRec' = [oRec EXCEPT ![l].live = FALSE]
  /\ oEdits' = oEdits + 1
  /\ Report(l, "unlink")
  /\ UNCHANGED <<oLink, oMate, oImp, oDeal, oConn, oJob, oNow, oOwed, oCrew>>

OdooTick == /\ oNow < oCrew.now /\ oNow' = oNow + 1
            /\ UNCHANGED <<oRec, oLink, oMate, oImp, oDeal, oHook, oConn, oJob, oEdits, oOwed, oCrew>>

(* The admin saves, tests or removes the connection.  disconnect deletes   *)
(* the connection row alone: nothing cascades from it.                     *)
Connect    == /\ ~oConn.on /\ oConn' = [on |-> TRUE, auto |-> TRUE]
              /\ UNCHANGED <<oRec, oLink, oMate, oImp, oDeal, oHook, oJob, oNow, oEdits, oOwed, oCrew>>
Disconnect == /\ oCrew.admin /\ oConn.on /\ oConn' = [on |-> FALSE, auto |-> FALSE]
              /\ UNCHANGED <<oRec, oLink, oMate, oImp, oDeal, oHook, oJob, oNow, oEdits, oOwed, oCrew>>

-----------------------------------------------------------------------------
(* pushEngagement: read the connection and the links ...                   *)
PushRead(j, d, force) ==
  /\ MayStart(j) /\ oConn.on /\ oDeal[d].st # "none" /\ (force => oCrew.admin)
  /\ force => oOwed[d] <= 1
  /\ GoOn(j, [OdooIdle EXCEPT !.pc = IF d \in oMate THEN "lead" ELSE "mate", !.deal = d,
                              !.link = oLink[d].lead, !.force = force])
  /\ oOwed' = IF force THEN [oOwed EXCEPT ![d] = @ + 1] ELSE oOwed
  /\ UNCHANGED <<oRec, oLink, oMate, oImp, oDeal, oHook, oConn, oNow, oEdits, oCrew>>

(* ... find the partner by its address or create it, link it ...           *)
PushPartner(j) ==
  /\ oJob[j].pc = "mate"
  /\ GoOn(j, [oJob[j] EXCEPT !.pc = "lead"])
  /\ oMate' = oMate \cup {oJob[j].deal}
  /\ UNCHANGED <<oRec, oLink, oImp, oDeal, oHook, oConn, oNow, oEdits, oOwed, oCrew>>

(* ... write the lead the link named, or create one ...                    *)
PushWrite(j) ==
  LET l == oJob[j].link IN
  /\ oJob[j].pc = "lead" /\ l # NoLead /\ ~oJob[j].force
  /\ IF oRec[l].live
     THEN /\ oRec[l].rev < MaxRev
          /\ oRec' = [oRec EXCEPT ![l].rev = @ + 1, ![l].wrote = oNow]
          /\ Report(l, "write")
          /\ GoOn(j, [oJob[j] EXCEPT !.pc = "link", !.lead = l])
     ELSE Done(j) /\ UNCHANGED <<oRec, oHook>>   \* Odoo's fault, logged and thrown
  /\ UNCHANGED <<oLink, oMate, oImp, oDeal, oConn, oNow, oEdits, oOwed, oCrew>>

PushCreate(j, l) ==
  /\ oJob[j].pc = "lead" /\ (oJob[j].link = NoLead \/ oJob[j].force)
  /\ NextId(l)
  /\ oRec' = [oRec EXCEPT ![l] = [live |-> TRUE, rev |-> 1, wrote |-> oNow, fresh |-> TRUE,
                                  by |-> oJob[j].deal]]
  /\ Report(l, "write")
  /\ GoOn(j, [oJob[j] EXCEPT !.pc = "link", !.lead = l])
  /\ UNCHANGED <<oLink, oMate, oImp, oDeal, oConn, oNow, oEdits, oOwed, oCrew>>

PushedLink_NoLead(d, l) == [oLink EXCEPT ![d].pushed = oNow]
PushedLink(d, l)        == [oLink EXCEPT ![d].lead = l, ![d].pushed = oNow]

(* ... and record the link, keyed by the deal.  Another deal's link to     *)
(* that lead is a unique violation: the transaction is rolled back.        *)
PushLink(j) ==
  LET d == oJob[j].deal IN
  /\ oJob[j].pc = "link"
  /\ oLink' = IF Holder(oJob[j].lead) \subseteq {d}
              THEN PushedLink(d, oJob[j].lead) ELSE oLink
  /\ Done(j)
  /\ UNCHANGED <<oRec, oMate, oImp, oDeal, oHook, oConn, oNow, oEdits, oOwed, oCrew>>

(* maybeAutoSync pushes from a lifecycle hook when the tenant enabled it;  *)
(* a won or lost deal then calls setOutcome, which writes the linked lead. *)
AutoSync(j, d) == oConn.auto /\ PushRead(j, d, FALSE)
SetOutcome(j, d) ==
  /\ MayStart(j) /\ oConn.on /\ oCrew.admin /\ oLink[d].lead # NoLead
  /\ LET l == oLink[d].lead IN
     IF oRec[l].live THEN oRec' = [oRec EXCEPT ![l].rev = @ + 1, ![l].wrote = oNow] /\ Report(l, "write")
                     ELSE UNCHANGED <<oRec, oHook>>
  /\ oEdits < oCrew.edits /\ oEdits' = oEdits + 1
  /\ UNCHANGED <<oLink, oMate, oImp, oDeal, oConn, oJob, oNow, oOwed, oCrew>>

(* A call to Odoo times out, or the process stops: whatever was written    *)
(* there stays, what follows is not done.                                  *)
OdooCallFails(j) ==
  /\ oCrew.faults /\ oJob[j].pc \in {"mate", "lead", "link", "fetch"}
  /\ Done(j)
  /\ oOwed' = IF oJob[j].pc = "link" /\ oJob[j].lead # oJob[j].link THEN [oOwed EXCEPT ![oJob[j].deal] = @ + 1] ELSE oOwed
  /\ UNCHANGED <<oRec, oLink, oMate, oImp, oDeal, oHook, oConn, oNow, oEdits, oCrew>>

-----------------------------------------------------------------------------
(* unlinkEngagement and deleteRecord drop links on the admin's request.    *)
UnlinkEngagement(d) ==
  /\ oCrew.admin /\ (oLink[d] # NoLink \/ d \in oMate) /\ oOwed[d] <= Cardinality(Leads)
  /\ oLink' = [oLink EXCEPT ![d] = NoLink] /\ oMate' = oMate \ {d}
  /\ oOwed' = IF oLink[d].lead = NoLead THEN oOwed ELSE [oOwed EXCEPT ![d] = @ + 1]
  /\ UNCHANGED <<oRec, oImp, oDeal, oHook, oConn, oJob, oNow, oEdits, oCrew>>

LinksWithout(l) == [d \in OdooDeals |-> IF oLink[d].lead = l THEN NoLink ELSE oLink[d]]
OwedWithout(l)  == [d \in OdooDeals |-> IF oLink[d].lead = l THEN oOwed[d] + 1 ELSE oOwed[d]]

DeleteRecord(l) ==
  /\ oCrew.admin /\ oConn.on /\ oRec[l].live /\ oEdits < oCrew.edits
  /\ oRec' = [oRec EXCEPT ![l].live = FALSE] /\ oEdits' = oEdits + 1
  /\ oLink' = LinksWithout(l) /\ oOwed' = OwedWithout(l)
  /\ Report(l, "unlink")
  /\ UNCHANGED <<oMate, oImp, oDeal, oConn, oJob, oNow, oCrew>>

(* handleOdooUnlink: all that is known of a lead goes.                     *)
HandleUnlink(l) ==
  /\ oLink' = LinksWithout(l) /\ oOwed' = OwedWithout(l)
  /\ oImp' = [oImp EXCEPT ![l] = NoImport]
  /\ UNCHANGED oDeal

-----------------------------------------------------------------------------
(* reconcileFromOdoo: one transaction over a record read before it.        *)
Echo_AnyPush(l, wrote) == \E d \in Holder(l) : oLink[d].pushed # Never
Echo(l, wrote) == \E d \in Holder(l) : oLink[d].pushed # Never /\ oLink[d].pushed = wrote

Reconcile(l, rev, wrote) ==
  /\ UNCHANGED oOwed
  /\ \/ Echo(l, wrote) /\ UNCHANGED <<oLink, oImp, oDeal>>
     \/ /\ ~Echo(l, wrote)
        /\ \/ \E d \in Holder(l) :
                /\ oLink' = [oLink EXCEPT ![d].rev = rev]
                /\ oDeal' = [oDeal EXCEPT ![d].rev = rev]
                /\ UNCHANGED oImp
           \/ /\ Holder(l) = {}
              /\ oImp' = [oImp EXCEPT ![l].row = TRUE, ![l].rev = rev]
              /\ oDeal' = IF oImp[l].deal \in OdooDeals
                          THEN [oDeal EXCEPT ![oImp[l].deal].rev = rev] ELSE oDeal
              /\ UNCHANGED oLink

(* ingestWebhook stored the event; processPendingWebhooks reads at most    *)
(* fifty pending ones and claims none.  Without a connection each is       *)
(* marked failed, and nothing reads a failed event again.                  *)
Pending == {n \in DOMAIN oHook : oHook[n].st = "pending"}
Mark(n, st) == oHook' = [oHook EXCEPT ![n].st = st]

HookPass(j) ==
  /\ MayStart(j) /\ Pending # {}
  /\ IF oConn.on THEN GoOn(j, [OdooIdle EXCEPT !.pc = "hooks", !.todo = Pending]) /\ UNCHANGED oHook
     ELSE /\ oHook' = [n \in DOMAIN oHook |->
                         IF n \in Pending THEN [oHook[n] EXCEPT !.st = "failed"] ELSE oHook[n]]
          /\ UNCHANGED oJob
  /\ UNCHANGED <<oRec, oLink, oMate, oImp, oDeal, oConn, oNow, oEdits, oOwed, oCrew>>

NextHook(j) == CHOOSE n \in oJob[j].todo : \A m \in oJob[j].todo : n <= m

\* An unlink event is believed; any other is checked against Odoo first.
HookUnlink(j) ==
  /\ oJob[j].pc = "hooks" /\ oJob[j].todo # {}
  /\ LET n == NextHook(j) IN
     /\ oHook[n].kind = "unlink"
     /\ HandleUnlink(oHook[n].lead) /\ Mark(n, "processed")
     /\ GoOn(j, [oJob[j] EXCEPT !.todo = @ \ {n}])
  /\ UNCHANGED <<oRec, oMate, oConn, oNow, oEdits, oCrew>>

HookFetch(j) ==
  /\ oJob[j].pc = "hooks" /\ oJob[j].todo # {}
  /\ LET n == NextHook(j) l == oHook[n].lead IN
     /\ oHook[n].kind # "unlink"
     /\ GoOn(j, [oJob[j] EXCEPT !.pc = "hook", !.lead = l,
                   !.link = IF oRec[l].live /\ Parsed({l}) # {} THEN l ELSE NoLead,
                   !.seen = <<oRec[l].rev, oRec[l].wrote>>])
  /\ UNCHANGED <<oRec, oLink, oMate, oImp, oDeal, oHook, oConn, oNow, oEdits, oOwed, oCrew>>

HookApply(j) ==
  /\ oJob[j].pc = "hook"
  /\ LET n == NextHook(j) l == oJob[j].lead IN
     /\ IF oJob[j].link = NoLead
        THEN HandleUnlink(l) /\ Mark(n, "processed")
        ELSE /\ Reconcile(l, oJob[j].seen[1], oJob[j].seen[2])
             /\ Mark(n, IF Echo(l, oJob[j].seen[2]) THEN "ignored" ELSE "processed")
     /\ GoOn(j, [oJob[j] EXCEPT !.pc = "hooks", !.todo = @ \ {n}, !.seen = Never])
  /\ UNCHANGED <<oRec, oMate, oConn, oNow, oEdits, oCrew>>

HookDone(j) ==
  /\ oJob[j].pc = "hooks" /\ oJob[j].todo = {} /\ Done(j)
  /\ UNCHANGED <<oRec, oLink, oMate, oImp, oDeal, oHook, oConn, oNow, oEdits, oOwed, oCrew>>

(* pollOdooChanges and the backfill: a page of leads, reconciled one by    *)
(* one, and the cursor moved past all of them.                             *)
PollFetch(j, all) ==
  /\ MayStart(j) /\ oConn.on /\ (all => oCrew.admin)
  /\ LET found == {l \in Leads : oRec[l].live /\ (all \/ oRec[l].fresh)} IN
     /\ found # {}
     /\ GoOn(j, [OdooIdle EXCEPT !.pc = "page", !.todo = Parsed(found),
                                 !.seen = [l \in Leads |-> <<oRec[l].rev, oRec[l].wrote>>]])
     /\ oRec' = IF all \/ Parsed(found) # {}
                THEN [l \in Leads |-> IF l \in found THEN [oRec[l] EXCEPT !.fresh = FALSE] ELSE oRec[l]]
                ELSE oRec
  /\ UNCHANGED <<oLink, oMate, oImp, oDeal, oHook, oConn, oNow, oEdits, oOwed, oCrew>>

PollApply(j) ==
  /\ oJob[j].pc = "page"
  /\ IF oJob[j].todo = {} THEN Done(j) /\ UNCHANGED <<oLink, oImp, oDeal, oOwed>>
     ELSE \E l \in oJob[j].todo :
            /\ Reconcile(l, oJob[j].seen[l][1], oJob[j].seen[l][2])
            /\ GoOn(j, [oJob[j] EXCEPT !.todo = @ \ {l}])
  /\ UNCHANGED <<oRec, oMate, oHook, oConn, oNow, oEdits, oCrew>>

(* refreshImportedOpportunity: the same for one lead the rep points at.    *)
RefreshFetch(j, l) ==
  /\ MayStart(j) /\ oConn.on /\ oImp[l].row /\ oCrew.admin
  /\ GoOn(j, [OdooIdle EXCEPT !.pc = "refresh", !.lead = l,
                !.link = IF oRec[l].live /\ Parsed({l}) # {} THEN l ELSE NoLead,
                !.seen = <<oRec[l].rev, oRec[l].wrote>>])
  /\ UNCHANGED <<oRec, oLink, oMate, oImp, oDeal, oHook, oConn, oNow, oEdits, oOwed, oCrew>>

RefreshApply(j) ==
  /\ oJob[j].pc = "refresh" /\ Done(j)
  /\ IF oJob[j].link = NoLead THEN HandleUnlink(oJob[j].lead)
     ELSE Reconcile(oJob[j].lead, oJob[j].seen[1], oJob[j].seen[2])
  /\ UNCHANGED <<oRec, oMate, oHook, oConn, oNow, oEdits, oCrew>>

(* promoteImportedOpportunity: the check and the writes are one            *)
(* transaction, which does not stop another from passing the same check.   *)
PromoteRead(j, l) ==
  /\ MayStart(j) /\ oImp[l].row /\ oImp[l].deal = NoOdooDeal
  /\ GoOn(j, [OdooIdle EXCEPT !.pc = "promote", !.lead = l, !.seen = oImp[l].rev])
  /\ UNCHANGED <<oRec, oLink, oMate, oImp, oDeal, oHook, oConn, oNow, oEdits, oOwed, oCrew>>

PromoteWrite(j, d) ==
  LET l == oJob[j].lead IN
  /\ oJob[j].pc = "promote" /\ oDeal[d].st = "none"
  /\ Done(j)
  /\ IF oImp[l].row    \* the row may have gone: the update then fails, and all of it with it
     THEN /\ oDeal' = [oDeal EXCEPT ![d] = [st |-> "imported", rev |-> oJob[j].seen]]
          /\ oLink' = [LinksWithout(l) EXCEPT ![d] = [lead |-> l, rev |-> oJob[j].seen,
                         pushed |-> IF Holder(l) = {} THEN Never
                                    ELSE oLink[CHOOSE h \in Holder(l) : TRUE].pushed]]
          /\ oImp' = [oImp EXCEPT ![l].deal = d]
     ELSE UNCHANGED <<oDeal, oLink, oImp>>
  /\ UNCHANGED <<oRec, oMate, oHook, oConn, oNow, oEdits, oOwed, oCrew>>

-----------------------------------------------------------------------------
OdooNext ==
  \/ \E l \in Leads : OdooCreates(l) \/ OdooEdits(l) \/ OdooDeletes(l) \/ DeleteRecord(l)
  \/ OdooTick \/ Connect \/ Disconnect
  \/ \E d \in OdooDeals : UnlinkEngagement(d)
  \/ \E j \in OdooJobs :
       \/ \E d \in OdooDeals, f \in BOOLEAN : PushRead(j, d, f)
       \/ \E d \in OdooDeals : AutoSync(j, d) \/ SetOutcome(j, d) \/ PromoteWrite(j, d)
       \/ \E l \in Leads : PushCreate(j, l) \/ RefreshFetch(j, l) \/ PromoteRead(j, l)
       \/ PushPartner(j) \/ PushWrite(j) \/ PushLink(j) \/ OdooCallFails(j)
       \/ HookPass(j) \/ HookUnlink(j) \/ HookFetch(j) \/ HookApply(j) \/ HookDone(j)
       \/ \E all \in BOOLEAN : PollFetch(j, all)
       \/ PollApply(j) \/ RefreshApply(j)

OdooSpec == OdooInit /\ [][OdooNext]_odooVars

-----------------------------------------------------------------------------
OdooTypeOK ==
  /\ \A d \in OdooDeals : oLink[d].lead \in Leads \cup {NoLead} /\ oDeal[d].st \in {"none", "own", "imported"}
  /\ \A l \in Leads : oImp[l].deal \in OdooDeals \cup {NoOdooDeal}
  /\ \A j \in OdooJobs : oJob[j].pc \in {"idle", "mate", "lead", "link", "hooks", "hook", "page",
                                         "refresh", "promote"}

(* As long as requests follow one another, an opportunity gets a second    *)
(* lead in Odoo only when somebody asked for it, its link was dropped or   *)
(* the call that created the first one never came back.                    *)
OneLeadPerDeal == oCrew.calm => \A d \in OdooDeals : Made(d) <= oOwed[d]

(* With one request at a time and every change reported, once the events  *)
(* are all handled what is kept of a lead is what Odoo holds, unless the   *)
(* last write there fell in the window in which it passes for an echo.     *)
Settled == Pending = {} /\ Busy = {} /\ \A n \in DOMAIN oHook : oHook[n].st # "failed"
MirrorIsFresh ==
  (oCrew.calm /\ oCrew.sure /\ ~oCrew.admin /\ Settled) =>
    \A l \in Leads :
      /\ ~oRec[l].live => ~oImp[l].row /\ Holder(l) = {}
      /\ (oRec[l].live /\ oImp[l].row /\ Holder(l) = {}) => oImp[l].rev = oRec[l].rev
      /\ \A d \in Holder(l) :
           oLink[d].rev # oRec[l].rev => oLink[d].pushed = oRec[l].wrote

(* Expected to be violated.  handleOdooUnlink "drop[s] all Rhud-side state *)
(* for an Odoo record that was deleted" (odoo.service.ts:1383): unless an  *)
(* admin meddles, a lead some opportunity is linked to stays linked while  *)
(* it exists.                                                              *)
LinkEndsWithRecord ==
  [][~oCrew.admin => \A l \in Leads : (Holder(l) # {} /\ oRec[l].live) => Holder(l)' # {}]_odooVars
=============================================================================
