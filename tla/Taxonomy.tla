------------------------------ MODULE Taxonomy ------------------------------
(***************************************************************************)
(* The categories of a tenant and what follows from them: the settings     *)
(* panels of categories and of review routing, the category, routing and   *)
(* classification services, and the chips by which a reviewer classifies   *)
(* an opportunity or hands it to somebody else.                            *)
(*                                                                         *)
(* The services' edits of the tree are one transaction and one step.  A    *)
(* classification reads the categories, asks the LLM, writes, and then     *)
(* routes in a transaction that reads before it writes.                    *)
(***************************************************************************)
EXTENDS Integers, FiniteSets

CONSTANTS CategorySlugs, Members, NoCat,
          Planted,  \* the tree at signup: slug -> [parent, pos]
          Template, \* the tree of the industry template of a reset
          Scenes,   \* what there is: panels, classifications at a time, rules;
                    \* and a bound on the edits
          Bottom    \* the position of a new row: behind all others

(* The trees a tenant starts from have two levels, the rules are of        *)
(* categories and members, and there are finitely many requests at a time. *)
ASSUME TaxonomyAssumption ==
  /\ NoCat \notin CategorySlugs
  /\ \A t \in {Planted, Template} :
       /\ t = [s \in DOMAIN t |-> t[s]] /\ DOMAIN t \subseteq CategorySlugs
       /\ \A s \in DOMAIN t :
            /\ DOMAIN t[s] = {"parent", "pos"}
            /\ t[s].parent # NoCat => t[s].parent \in DOMAIN t /\ t[t[s].parent].parent = NoCat
  /\ \A s \in Scenes : s.rules \subseteq CategorySlugs \X Members /\ IsFiniteSet(DOMAIN s.jobs)

VARIABLES scene,
          tree,   \* the rows that are not archived: slug -> [parent, pos]
          gone,   \* slugs of archived rows
          rules,  \* <<category, reviewer>>; the panel gives each position 0
          team,   \* users who have not been removed
          lead,   \* the opportunity's category, sub-category, and reviewer
          panels, \* the open settings panels, each with the tree it shows
          jobs,   \* classifications on their way
          edited, \* has anybody touched rules, team or reviewer since the last one?
          taxEdits
admin == <<tree, gone, rules, team>>
taxonomyVars == <<scene, admin, lead, panels, jobs, edited, taxEdits>>

-----------------------------------------------------------------------------
Tops(t) == {s \in DOMAIN t : t[s].parent = NoCat}
Kids(t, p) == {s \in DOMAIN t : t[s].parent = p}
Siblings(t, s) == {x \in DOMAIN t : t[x].parent = t[s].parent}
Without(t, S) == [s \in DOMAIN t \ S |-> t[s]]
With(t, s, row) == [x \in DOMAIN t \cup {s} |-> IF x = s THEN row ELSE t[x]]
Row(p, n) == [parent |-> p, pos |-> n]
RulesOf(c) == {u \in Members : <<c, u>> \in rules}

NoJob == [at |-> "none"]
Unclassified == [cat |-> NoCat, sub |-> NoCat, by |-> "nobody", reviewer |-> NoCat]
Panels == DOMAIN scene.panels
Jobs == DOMAIN scene.jobs

TaxonomyInit ==
  /\ scene \in Scenes
  /\ tree = Planted /\ gone = {} /\ team = Members
  /\ rules = scene.rules
  /\ lead = Unclassified
  /\ panels = [a \in Panels |-> [shown |-> Planted, call |-> NoJob]]
  /\ jobs = [j \in Jobs |-> NoJob]
  /\ edited = FALSE /\ taxEdits = 0

TaxEditing == taxEdits < scene.edits /\ taxEdits' = taxEdits + 1

-----------------------------------------------------------------------------
(* The tree.  update can be sent by an API client; the page only renames.  *)
TopParent(p) == p = NoCat \/ p \in Tops(tree)

(* The mistake the next definition avoids: a row with children of its own  *)
(* under another.                                                          *)
MayReparent_WithKids(s, p) == s \in DOMAIN tree /\ p # s /\ TopParent(p)
MayReparent(s, p) == /\ s \in DOMAIN tree /\ p # s /\ TopParent(p)
                     /\ p = NoCat \/ Kids(tree, s) = {}

(* upsertRule takes any row with the slug, archived or not.                *)
MayDo(c) == CASE c.op = "create"  -> c.slug \notin DOMAIN tree /\ TopParent(c.parent)
                [] c.op = "archive" -> c.slug \in DOMAIN tree
                [] c.op = "rule"    -> c.slug \in DOMAIN tree \cup gone /\ c.user \in team
                [] c.op = "unrule"  -> <<c.slug, c.user>> \in rules
                [] OTHER            -> TRUE

CreateRow(s, p) == tree' = With(tree, s, Row(p, Bottom)) /\ UNCHANGED <<gone, rules>>

(* archive takes the children of a top-level row and all their rules.      *)
Archive(s) ==
  LET out == {s} \cup IF tree[s].parent = NoCat THEN Kids(tree, s) ELSE {}
  IN  /\ tree' = Without(tree, out) /\ gone' = gone \cup out
      /\ rules' = {r \in rules : r[1] \notin out}

(* bulkReorder writes what it is sent to the rows that are still there.    *)
Reorder(pos) ==
  /\ tree' = [s \in DOMAIN tree |-> IF s \in DOMAIN pos THEN [tree[s] EXCEPT !.pos = pos[s]] ELSE tree[s]]
  /\ UNCHANGED <<gone, rules>>

Reset == tree' = Template /\ gone' = gone \cup DOMAIN tree /\ rules' = {}

Obey(c) == CASE c.op = "create"  -> CreateRow(c.slug, c.parent)
             [] c.op = "archive" -> Archive(c.slug)
             [] c.op = "reorder" -> Reorder(c.pos)
             [] c.op = "reset"   -> Reset
             [] c.op = "rule"    -> rules' = rules \cup {<<c.slug, c.user>>} /\ UNCHANGED <<tree, gone>>
             [] OTHER            -> rules' = rules \ {<<c.slug, c.user>>} /\ UNCHANGED <<tree, gone>>

-----------------------------------------------------------------------------
(* A settings panel.  Its buttons wait for the call, not for the reading   *)
(* of the tree after it.                                                   *)
Neighbours(t, s, up) ==
  {n \in Siblings(t, s) \ {s} :
     LET lo == IF up THEN n ELSE s
         hi == IF up THEN s ELSE n
     IN  /\ t[lo].pos <= t[hi].pos
         /\ ~ \E m \in Siblings(t, s) : t[lo].pos < t[m].pos /\ t[m].pos < t[hi].pos}
Swapped(t, s, n) == [x \in {s, n} |-> IF x = s THEN t[n].pos ELSE t[s].pos]

Calls(t) ==
  [op : {"create"}, slug : CategorySlugs, parent : Tops(t) \cup {NoCat}]
  \cup [op : {"archive"}, slug : DOMAIN t]
  \cup {[op |-> "reset"]}
  \cup [op : {"rule"}, slug : Tops(t), user : Members]
  \cup [op : {"unrule"}, slug : Tops(t), user : Members]
  \cup UNION {{[op |-> "reorder", slug |-> s, past |-> n, pos |-> Swapped(t, s, n)] :
                 n \in Neighbours(t, s, TRUE) \cup Neighbours(t, s, FALSE)} : s \in DOMAIN t}

PressTaxonomy(a) ==
  /\ panels[a].call = NoJob /\ TaxEditing
  /\ \E c \in Calls(panels[a].shown) :
       /\ c.op = "unrule" => <<c.slug, c.user>> \in rules
       /\ panels' = [panels EXCEPT ![a].call = [at |-> "sent", does |-> c, tree |-> panels[a].shown]]
  /\ UNCHANGED <<scene, admin, lead, jobs, edited>>

(* The server obeys or refuses; only then has the panel a tree to read.    *)
ServeEdit(a) ==
  LET p == panels[a].call
  IN  /\ p.at = "sent"
      /\ IF MayDo(p.does) THEN Obey(p.does) ELSE UNCHANGED <<tree, gone, rules>>
      /\ panels' = [panels EXCEPT ![a].call = IF MayDo(p.does) THEN [at |-> "reading"] ELSE NoJob]
      /\ edited' = (edited \/ rules' # rules)
      /\ UNCHANGED <<scene, team, lead, jobs, taxEdits>>

ShowTree(a) == /\ panels[a].call.at = "reading"
               /\ panels' = [panels EXCEPT ![a] = [shown |-> tree, call |-> NoJob]]
               /\ UNCHANGED <<scene, admin, lead, jobs, edited, taxEdits>>

(* Without the page: update with a parent, and the removal of a member,    *)
(* whose rules and reviews go with the row.                                *)
Update(s, p) == /\ Panels # {} /\ TaxEditing /\ MayReparent(s, p)
                /\ tree' = [tree EXCEPT ![s].parent = p]
                /\ UNCHANGED <<scene, gone, rules, team, lead, panels, jobs, edited>>

RemoveMember(u) ==
  /\ Jobs # {} /\ TaxEditing /\ u \in team /\ team' = team \ {u}
  /\ rules' = {r \in rules : r[2] # u} /\ edited' = TRUE
  /\ lead' = [lead EXCEPT !.reviewer = IF @ = u THEN NoCat ELSE @]
  /\ UNCHANGED <<scene, tree, gone, panels, jobs>>

-----------------------------------------------------------------------------
(* parseClassification: a sub-category of another parent is dropped.       *)
Parse_AnySub(t, cat, sub) ==
  IF cat \notin Tops(t) THEN <<NoCat, NoCat>>
  ELSE <<cat, IF sub \in DOMAIN t THEN sub ELSE NoCat>>
Parse(t, cat, sub) ==
  IF cat \notin Tops(t) THEN <<NoCat, NoCat>>
  ELSE <<cat, IF sub \in Kids(t, cat) THEN sub ELSE NoCat>>

(* On submit, or "Ask AI": the list is read, then the LLM is asked.        *)
AskAi(j) == /\ jobs[j] = NoJob /\ TaxEditing
            /\ jobs' = [jobs EXCEPT ![j] = [at |-> "asking", list |-> tree]]
            /\ UNCHANGED <<scene, admin, lead, panels, edited>>

(* Whatever it answers is written over what is there.                      *)
WriteCategory(j, cat, sub, by) ==
  /\ lead' = [lead EXCEPT !.cat = cat, !.sub = sub, !.by = by]
  /\ jobs' = [jobs EXCEPT ![j] = [at |-> "routing"]]
  /\ edited' = FALSE
AiAnswers(j) ==
  /\ jobs[j].at = "asking"
  /\ \E cat \in CategorySlugs \cup {NoCat}, sub \in CategorySlugs \cup {NoCat} :
       LET found == Parse(jobs[j].list, cat, sub)
       IN  IF found[1] = NoCat THEN jobs' = [jobs EXCEPT ![j] = NoJob] /\ UNCHANGED <<lead, edited>>
           ELSE WriteCategory(j, found[1], found[2], "llm")
  /\ UNCHANGED <<scene, admin, panels, taxEdits>>

(* The picker: a category of the tree it was opened on, or what is stored. *)
Pick(j) ==
  /\ jobs[j] = NoJob /\ TaxEditing
  /\ \E cat \in (Tops(tree) \cup {lead.cat}) \ {NoCat} :
       \E sub \in Kids(tree, cat) \cup {NoCat} \cup (IF cat = lead.cat THEN {lead.sub} ELSE {}) :
         jobs' = [jobs EXCEPT ![j] = [at |-> "picked", cat |-> cat, sub |-> sub]]
  /\ UNCHANGED <<scene, admin, lead, panels, edited>>
ClassifyManual(j) ==
  LET c == jobs[j]
  IN  /\ c.at = "picked"
      /\ IF c.cat \in DOMAIN tree /\ c.sub \in DOMAIN tree \cup {NoCat}
         THEN WriteCategory(j, c.cat, c.sub, "manual")
         ELSE jobs' = [jobs EXCEPT ![j] = NoJob] /\ UNCHANGED <<lead, edited>>
      /\ UNCHANGED <<scene, admin, panels, taxEdits>>

(* applyForEngagement: no rule leaves the reviewer who is there.           *)
Route(j) ==
  /\ jobs[j].at = "routing"
  /\ IF RulesOf(lead.cat) \ {lead.reviewer} = {} THEN jobs' = [jobs EXCEPT ![j] = NoJob]
     ELSE \E u \in RulesOf(lead.cat) :
            jobs' = [jobs EXCEPT ![j] = IF u = lead.reviewer THEN NoJob ELSE [at |-> "assigning", user |-> u]]
  /\ UNCHANGED <<scene, admin, lead, panels, edited, taxEdits>>

Assign(j) ==
  /\ jobs[j].at = "assigning"
  /\ lead' = [lead EXCEPT !.reviewer = IF jobs[j].user \in team THEN jobs[j].user ELSE @]
  /\ jobs' = [jobs EXCEPT ![j] = NoJob]
  /\ UNCHANGED <<scene, admin, panels, edited, taxEdits>>

(* reassignReviewer, to a member or to nobody.                             *)
Reassign(u) == /\ Jobs # {} /\ TaxEditing /\ u \in team \cup {NoCat} /\ u # lead.reviewer
               /\ lead' = [lead EXCEPT !.reviewer = u] /\ edited' = TRUE
               /\ UNCHANGED <<scene, admin, panels, jobs>>

TaxonomyNext ==
  \/ \E a \in Panels : PressTaxonomy(a) \/ ServeEdit(a) \/ ShowTree(a)
  \/ \E s \in CategorySlugs, p \in CategorySlugs \cup {NoCat} : Update(s, p)
  \/ \E j \in Jobs : AskAi(j) \/ AiAnswers(j) \/ Pick(j) \/ ClassifyManual(j) \/ Route(j) \/ Assign(j)
  \/ \E u \in Members \cup {NoCat} : Reassign(u)
  \/ \E u \in Members : RemoveMember(u)

TaxonomySpec == TaxonomyInit /\ [][TaxonomyNext]_taxonomyVars

-----------------------------------------------------------------------------
(* Two levels, whatever panels, clients and resets do to the tree: no row  *)
(* of it hangs under one that is archived or that has a parent itself.     *)
TwoDeep == \A s \in DOMAIN tree : TopParent(tree[s].parent)

(* When nothing is on its way and nobody has touched rules, team or        *)
(* reviewer since the last classification -- the only one at the time --   *)
(* its reviewer is one of those its category is routed to.                 *)
ReviewerIsRouted ==
  LET routed == RulesOf(lead.cat)
  IN  /\ Cardinality(Jobs) = 1 /\ \A j \in Jobs : jobs[j] = NoJob
      /\ ~edited /\ routed # {}
      => lead.reviewer \in routed

(* What the LLM classified is a category of the list it was given, and the *)
(* sub-category one of that category.  And a row that is moved passes its  *)
(* neighbour, as long as the panel is up to date and their positions       *)
(* differ.                                                                 *)
AnswersAreOffered ==
  \A j \in Jobs : jobs[j].at = "asking" /\ lead'.by = "llm" /\ jobs'[j].at = "routing" =>
     /\ lead'.cat \in Tops(jobs[j].list)
     /\ lead'.sub \in Kids(jobs[j].list, lead'.cat) \cup {NoCat}
RowsMove ==
  \A a \in Panels : panels[a].call.at = "sent" /\ panels'[a].call.at = "reading" =>
    LET c == panels[a].call.does
        before(x, y, t) == t[x].pos < t[y].pos
    IN  c.op = "reorder" /\ panels[a].call.tree = tree /\ tree[c.slug].pos # tree[c.past].pos =>
          /\ before(c.slug, c.past, tree') = before(c.past, c.slug, tree)
          /\ \A x \in Siblings(tree, c.slug) \ {c.slug, c.past} :
               before(c.slug, x, tree') = before(c.past, x, tree)

TaxonomyServes ==
  [][TwoDeep' /\ ReviewerIsRouted' /\ AnswersAreOffered /\ RowsMove]_taxonomyVars

(* Statements the code does not meet: rules are about categories that are  *)
(* there; the LLM does not classify over a reviewer's choice; with two     *)
(* classifications at a time, the reviewer is of the last; and a move      *)
(* always moves.                                                           *)
RulesAreLive == \A r \in rules : r[1] \in DOMAIN tree
ChoicesStand == [][lead.by = "manual" => lead'.by = "manual"]_taxonomyVars
LastOneRoutes == (\A j \in Jobs : jobs[j] = NoJob) /\ ~edited /\ RulesOf(lead.cat) # {}
                   => lead.reviewer \in RulesOf(lead.cat)
RowsAlwaysMove == [][\A a \in Panels : panels[a].call.at = "sent" /\ panels'[a].call.at = "reading"
                       /\ panels[a].call.does.op = "reorder" => tree' # tree]_taxonomyVars
=============================================================================
