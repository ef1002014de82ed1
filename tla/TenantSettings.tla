--------------------------- MODULE TenantSettings ---------------------------
(***************************************************************************)
(* The settings of a workspace: the panels of its name and logo, of the    *)
(* approval thresholds and of the e-mail routing, each with a form seeded  *)
(* from the tenant the tab last read; PATCH /tenant/me, which overwrites   *)
(* the fields it is sent and sweeps superseded logos out of the bucket;    *)
(* and who is mailed about an event under the routing that is stored.      *)
(***************************************************************************)
EXTENDS Integers, FiniteSets

CONSTANTS SettingsTabs,  \* settings pages that are open
          SettingsScenes,\* the panel each shows, and how much is done
          Events, DefaultRoutes, \* event -> roles mailed unless overridden
          Values,        \* what may be typed into name, vp and ceo
          Unset

(* Every tab shows one of the panels, or none.                             *)
ASSUME SettingsAssumption ==
  /\ IsFiniteSet(SettingsTabs)
  /\ \A s \in SettingsScenes :
       /\ s = [f \in {"panels", "edits", "saves", "uploads", "api"} |-> s[f]]
       /\ s.panels \in [SettingsTabs -> {"workspace", "limits", "notify", "none"}]

MailRoles == {"sales_employee", "sales_manager", "client"}
ShownRoles == MailRoles \ {"client"}

VARIABLES sScene, tenant, logos, \* the objects under the logo prefix
          tabPage,    \* tab -> what it read, its form, and the save on its way
          upload   \* tab -> the picture on its way
settingsVars == <<sScene, tenant, logos, tabPage, upload>>

-----------------------------------------------------------------------------
(* Routing.  An override replaces the default, an empty one too.           *)
RolesOf(e, routes) == IF e \in DOMAIN routes THEN routes[e] ELSE DefaultRoutes[e]
ResolveRoute(e, t) == IF t.paused THEN {} ELSE RolesOf(e, t.routes)
(* Clients get their proposal from the rep; a deal may have no manager.    *)
Recipients(e, t, managed) ==
  {r \in ResolveRoute(e, t) : /\ r = "sales_manager" => managed
                              /\ r = "client" => e # "proposal_sent"}
Sparse_NoEmpty(routes) ==
  [e \in {x \in DOMAIN routes : routes[x] \notin {DefaultRoutes[x], {}}} |-> routes[e]]
Sparse(routes) == [e \in {x \in DOMAIN routes : routes[x] # DefaultRoutes[x]} |-> routes[e]]

Fields(p) == CASE p = "workspace" -> {"name", "auto"}
               [] p = "limits"    -> {"vp", "ceo"}
               [] p = "notify"    -> {"paused", "routes"}
               [] OTHER           -> {}
FormOf(p, t) == [f \in Fields(p) |-> t[f]]
(* What the panel would send.                                              *)
Body(p, form) == IF p = "notify" THEN [form EXCEPT !.routes = Sparse(@)] ELSE form
CeoAboveVp(vp, ceo) == vp # Unset /\ ceo # Unset => ceo >= vp

NewTenant == [name |-> 1, auto |-> TRUE, vp |-> Unset, ceo |-> Unset,
          paused |-> FALSE, routes |-> <<>>, logo |-> Unset]
NoSave == [at |-> "none"]
PanelIn(t) == sScene.panels[t]
SettingsInit ==
  /\ sScene \in SettingsScenes
  /\ tenant = NewTenant /\ logos = {}
  /\ tabPage = [t \in SettingsTabs |-> [read |-> NewTenant, form |-> FormOf(sScene.panels[t], NewTenant), save |-> NoSave]]
  /\ upload = [t \in SettingsTabs |-> NoSave]
Spends(n) == sScene[n] > 0 /\ sScene' = [sScene EXCEPT ![n] = @ - 1]

-----------------------------------------------------------------------------
(* Filling in.  A box flips one role of the event as the form shows it and *)
(* keeps those it does not show; Reset goes back to the default.  While a  *)
(* save is on its way only the master switch still answers.                *)
Flip(S, r) == IF r \in S THEN S \ {r} ELSE S \cup {r}
Ticked(form, e, r) ==
  [form EXCEPT !.routes = [x \in DOMAIN form.routes \cup {e} |->
     IF x = e THEN Flip(RolesOf(e, form.routes), r) ELSE form.routes[x]]]
Edited(p, form) ==
  CASE p = "workspace" -> {[form EXCEPT !.name = v] : v \in Values} \cup {[form EXCEPT !.auto = ~@]}
    [] p = "limits" -> UNION {{[form EXCEPT !.vp = v], [form EXCEPT !.ceo = v]} : v \in Values \cup {Unset}}
    [] p = "notify" ->
         {[form EXCEPT !.paused = ~@]}
         \cup (IF form.paused THEN {} ELSE
               {Ticked(form, box[1], box[2]) : box \in Events \X ShownRoles})
         \cup {[form EXCEPT !.routes = [x \in DOMAIN form.routes \ {e} |-> form.routes[x]]] : e \in Events}
    [] OTHER -> {}
TypeIn(t) == /\ Spends("edits")
             /\ \E form \in Edited(PanelIn(t), tabPage[t].form) :
                  /\ form # tabPage[t].form
                  /\ tabPage[t].save = NoSave \/ (PanelIn(t) = "notify" /\ form.paused # tabPage[t].form.paused)
                  /\ tabPage' = [tabPage EXCEPT ![t].form = form]
             /\ UNCHANGED <<tenant, logos, upload>>

Dirty(t) == Body(PanelIn(t), tabPage[t].form) # FormOf(PanelIn(t), tabPage[t].read)
PressSettings(t) ==
  LET form == tabPage[t].form
  IN  /\ tabPage[t].save = NoSave /\ Dirty(t) /\ Spends("saves")
      /\ PanelIn(t) = "limits" => CeoAboveVp(form.vp, form.ceo)
      /\ tabPage' = [tabPage EXCEPT ![t].save = [at |-> "sent", body |-> Body(PanelIn(t), form), form |-> form]]
      /\ UNCHANGED <<tenant, logos, upload>>

(* updateTenant: the fields it is sent, the two limits compared only when  *)
(* both are; an API client may send one.                                   *)
Patched(body) == [f \in DOMAIN tenant |-> IF f \in DOMAIN body THEN body[f] ELSE tenant[f]]
UpdateTenant(t) ==
  /\ tabPage[t].save.at = "sent"
  /\ tenant' = Patched(tabPage[t].save.body)
  /\ tabPage' = [tabPage EXCEPT ![t].save.at = "reading"]
  /\ UNCHANGED <<sScene, logos, upload>>
PatchOne == /\ sScene.api /\ Spends("edits")
            /\ \E f \in {"vp", "ceo"}, v \in Values : tenant' = [tenant EXCEPT ![f] = v]
            /\ UNCHANGED <<logos, tabPage, upload>>

(* refreshTenant: the row is read, and later becomes the tab's tenant; a   *)
(* form some field of which has changed is seeded anew.                    *)
ReadRow(c) == [f \in DOMAIN c \cup {"row"} |->
                 CASE f = "at" -> "back" [] f = "row" -> tenant [] OTHER -> c[f]]
Seeded(t, row) ==
  LET p == PanelIn(t)
  IN  [tabPage[t] EXCEPT !.read = row,
         !.form = IF FormOf(p, row) # FormOf(p, tabPage[t].read) THEN FormOf(p, row) ELSE @]
GetTenant(t) ==
  \/ /\ tabPage[t].save.at = "reading"
     /\ tabPage' = [tabPage EXCEPT ![t].save = ReadRow(@)] /\ UNCHANGED <<sScene, tenant, logos, upload>>
  \/ /\ upload[t].at = "reading"
     /\ upload' = [upload EXCEPT ![t] = ReadRow(@)] /\ UNCHANGED <<sScene, tenant, logos, tabPage>>
ShowSaved(t) == /\ tabPage[t].save.at = "back"
                /\ tabPage' = [tabPage EXCEPT ![t] = [Seeded(t, tabPage[t].save.row) EXCEPT !.save = NoSave]]
                /\ UNCHANGED <<sScene, tenant, logos, upload>>
ShowUploaded(t) == /\ upload[t].at = "back"
                   /\ tabPage' = [tabPage EXCEPT ![t] = Seeded(t, upload[t].row)]
                   /\ upload' = [upload EXCEPT ![t] = NoSave]
                   /\ UNCHANGED <<sScene, tenant, logos>>

-----------------------------------------------------------------------------
(* A logo: put into the bucket under a fresh key, stored, and then all     *)
(* others are listed and deleted, if that works.                           *)
Fetched(k, keep) == [at |-> k, keep |-> keep]
PutLogo(t) == /\ PanelIn(t) = "workspace" /\ upload[t] = NoSave /\ Spends("uploads")
              /\ logos' = logos \cup {sScene.uploads}
              /\ upload' = [upload EXCEPT ![t] = Fetched("put", sScene.uploads)]
              /\ UNCHANGED <<tenant, tabPage>>
RemoveLogo(t) == /\ PanelIn(t) = "workspace" /\ upload[t] = NoSave /\ tabPage[t].read.logo # Unset
                 /\ Spends("uploads")
                 /\ upload' = [upload EXCEPT ![t] = Fetched("put", Unset)]
                 /\ UNCHANGED <<tenant, logos, tabPage>>
PatchLogo(t) == /\ upload[t].at = "put"
                /\ tenant' = [tenant EXCEPT !.logo = upload[t].keep]
                /\ upload' = [upload EXCEPT ![t].at = "sweep"]
                /\ UNCHANGED <<sScene, logos, tabPage>>
ListLogos(t) == /\ upload[t].at = "sweep"
                /\ upload' = [upload EXCEPT ![t] = [at |-> "delete", old |-> logos \ {upload[t].keep}]]
                /\ UNCHANGED <<sScene, tenant, logos, tabPage>>
SweepLogos(t) == /\ upload[t].at = "delete"
                 /\ logos' \in {logos \ upload[t].old, logos}
                 /\ upload' = [upload EXCEPT ![t] = [at |-> "reading"]]
                 /\ UNCHANGED <<sScene, tenant, tabPage>>

SettingsNext ==
  \/ PatchOne
  \/ \E t \in SettingsTabs :
       \/ TypeIn(t) \/ PressSettings(t) \/ UpdateTenant(t) \/ GetTenant(t) \/ ShowSaved(t)
       \/ PutLogo(t) \/ RemoveLogo(t) \/ PatchLogo(t) \/ ListLogos(t) \/ SweepLogos(t) \/ ShowUploaded(t)

SettingsSpec == SettingsInit /\ [][SettingsNext]_settingsVars

-----------------------------------------------------------------------------
(* After a save of the routing, each event is mailed to those whose boxes  *)
(* were ticked when Save was pressed, and to nobody while all is paused:   *)
(* what the panel does not send means the default it showed.               *)
Saving(t) == tabPage[t].save.at = "sent" /\ tabPage'[t].save.at = "reading"
MailedAsTicked(t) ==
  LET form == tabPage[t].save.form
  IN  PanelIn(t) = "notify" =>
        \A e \in Events, managed \in BOOLEAN :
          Recipients(e, tenant', managed) \cap ShownRoles =
            {r \in ShownRoles : /\ ~form.paused /\ r \in RolesOf(e, form.routes)
                                /\ r = "sales_manager" => managed}

(* A save leaves alone what the panels beside it changed after the tab     *)
(* read the tenant, whatever its age.                                      *)
LeavesOthers(t) == \A f \in DOMAIN tenant \ Fields(PanelIn(t)) : tenant'[f] = tenant[f]

(* And once the tab has read the tenant back, its form shows what it saved *)
(* -- when nobody else has saved, and no upload reads at the same time.    *)
Alone == Cardinality({t \in SettingsTabs : PanelIn(t) # "none"}) = 1 /\ ~sScene.api
ShowsSaved(t) ==
  Alone /\ tabPage[t].save.at = "back" /\ tabPage'[t].save = NoSave =>
    LET form == tabPage[t].save.form
        now == tabPage'[t].form
    IN  IF PanelIn(t) = "notify"
        THEN now.paused = form.paused /\ \A e \in Events : RolesOf(e, now.routes) = RolesOf(e, form.routes)
        ELSE now = form

(* The thresholds the panel saves are in order, and so are those stored,   *)
(* unless a client has set one of them.  The logo stored is in the bucket, *)
(* as long as one tab uploads.                                             *)
LimitsInOrder == ~sScene.api => CeoAboveVp(tenant.vp, tenant.ceo)
LogoIsThere == Alone => tenant.logo \in logos \cup {Unset}

SettingsHold ==
  [][/\ \A t \in SettingsTabs : Saving(t) => MailedAsTicked(t) /\ LeavesOthers(t)
     /\ \A t \in SettingsTabs : ShowsSaved(t)
     /\ LimitsInOrder' /\ LogoIsThere']_settingsVars

(* Statements the code does not meet, with two tabs, an upload beside a    *)
(* save, or a client that sends one limit.                                 *)
FormStays == [][\A t \in SettingsTabs : tabPage[t].save = NoSave /\ Dirty(t) /\ ~TypeIn(t)
                  => tabPage'[t].form = tabPage[t].form]_settingsVars
LogoNeverDangles == tenant.logo \in logos \cup {Unset}
AlwaysInOrder == CeoAboveVp(tenant.vp, tenant.ceo)
NothingComesBack == [][\A t \in SettingsTabs : Saving(t) =>
   \A f \in Fields(PanelIn(t)) : tabPage[t].save.form[f] = tabPage[t].read[f] => tenant'[f] = tenant[f]]_settingsVars
=============================================================================
