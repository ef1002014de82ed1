--------------------------- MODULE TemplateEditor ---------------------------
(***************************************************************************)
(* One questionnaire template: the template service (create, update,       *)
(* publish, nodes, bulk import, sample, delete), the editor page with its  *)
(* reloads, the spreadsheet import in front of the bulk import, and the    *)
(* list page with its AI assistant and its two-step delete.  Validation    *)
(* and rules are module QuestionEngine.                                    *)
(*                                                                         *)
(* A handler is one transaction and one step; the page's calls overlap,    *)
(* for only some of its controls wait for the one before.  Ids of nodes    *)
(* are numbers in the order of creation, which is also their position.     *)
(***************************************************************************)
EXTENDS QuestionEngine

CONSTANTS Sheets,     \* spreadsheets at hand: sequences of rows of cells
          SampleTree, \* the nodes of the sample, its loop body included
          Toggles,    \* slugs of services that are there or not
          MaxNodes, MaxEdits \* bounds

VARIABLES tmpl,   \* the template and its nodes
          issued, \* is there an opportunity issued from it?
          editor, \* the page
          edits
templateVars == <<tmpl, issued, editor, edits>>

-----------------------------------------------------------------------------
(* From a sheet to nodes.  A cell is a string of a small set.              *)
NodeTypes == {"section", "single_select", "multi_select", "short_text", "long_text", "number", "file_upload"}
Boolish == {"true", "false", "yes", "no", "y", "n", "0", "1", "required", "optional"}
Negative == {"false", "no", "n", "0", "optional"}
HeaderWords == {"question", "type", "options", "required"} \* of the code's, those the sheets have
IsList(cell) == cell \in {"a;b", ";"}

Rows(s) == DOMAIN s
Cols(s) == IF s = <<>> THEN {} ELSE DOMAIN s[1]
Filled(s, c) == {r \in Rows(s) : s[r][c] # ""}
First(S) == CHOOSE c \in S : \A d \in S : c <= d
Atleast1(n) == IF n < 1 THEN 1 ELSE n

(* autoDetectRoles: the column with the most type names, if they are half  *)
(* of its cells; of the others the first with lists; the first that is all *)
(* yes and no; and the first that is left for the question.                *)
TypeHits(s, c) == Cardinality({r \in Filled(s, c) : s[r][c] \in NodeTypes})
TypeCols(s) == {c \in Cols(s) : Filled(s, c) # {}
                                /\ TypeHits(s, c) >= Atleast1(Cardinality(Filled(s, c)) \div 2)}
TypeCol(s) == IF TypeCols(s) = {} THEN {}
              ELSE {First({c \in TypeCols(s) : \A d \in TypeCols(s) : TypeHits(s, c) >= TypeHits(s, d)})}
Leftmost(S) == IF S = {} THEN {} ELSE {First(S)}
OptsCol(s) == Leftmost({c \in Cols(s) \ TypeCol(s) : \E r \in Rows(s) : IsList(s[r][c])})
ReqCol(s) == Leftmost({c \in Cols(s) \ (TypeCol(s) \cup OptsCol(s)) :
                        Filled(s, c) # {} /\ \A r \in Filled(s, c) : s[r][c] \in Boolish})
QuestionCol(s) == Leftmost({c \in Cols(s) \ (TypeCol(s) \cup OptsCol(s) \cup ReqCol(s)) : Filled(s, c) # {}})

Cell(s, r, col) == IF col = {} THEN "" ELSE s[r][CHOOSE c \in col : TRUE]

(* autoDetectRows leaves out a row of headings, and what is empty.         *)
Headings(s) == Rows(s) # {} /\ Cardinality({c \in Cols(s) : s[1][c] \in HeaderWords}) >= 2
Included(s) == {r \in Rows(s) : Cell(s, r, QuestionCol(s)) # "" /\ ~(r = 1 /\ Headings(s))}

GuessNodeType(q) == CASE q = "describe" -> "long_text" [] q = "how many" -> "number"
                      [] q = "upload" -> "file_upload" [] OTHER -> "short_text"

(* buildNodes, for the rows that the reader left ticked; a list that holds *)
(* nothing gives no options.                                               *)
NodeOfRow(s, r) ==
  LET type == Cell(s, r, TypeCol(s))
      kind == IF type \in NodeTypes THEN type ELSE GuessNodeType(Cell(s, r, QuestionCol(s)))
  IN  [type |-> kind,
       required |-> Cell(s, r, ReqCol(s)) \notin Negative,
       options |-> IF kind \in {"single_select", "multi_select"} /\ Cell(s, r, OptsCol(s)) \notin {"", ";"}
                   THEN {"a", "b"} ELSE {}]

InOrder(S) == [k \in 1..Cardinality(S) |-> CHOOSE r \in S : Cardinality({q \in S : q < r}) = k - 1]
BuildNodes(s, ticked) == [k \in 1..Cardinality(ticked) |-> NodeOfRow(s, InOrder(ticked)[k])]

-----------------------------------------------------------------------------
(* The service.                                                            *)
Always(g) == [op |-> "always", value |-> Nothing, goto |-> g]
NewNode(type, required, options, rules) ==
  [type |-> type, parent |-> None, required |-> required, options |-> options,
   rules |-> rules, slug |-> None, yesMaps |-> FALSE]

Unborn == [st |-> "none", root |-> None, nodes |-> <<>>, next |-> 1]
Tree(t) == [root |-> t.root, nodes |-> t.nodes]
Issues(t) == TemplateIssues(Tree(t), Toggles)

(* addNode: the first node of the top level becomes the root.              *)
WithNode(t) ==
  [t EXCEPT !.nodes = [n \in DOMAIN @ \cup {t.next} |->
                         IF n = t.next THEN NewNode("short_text", TRUE, {}, <<Always(END)>>) ELSE @[n]],
            !.root = IF @ = None THEN t.next ELSE @,
            !.next = @ + 1]

(* A loop takes its body with it, and a root that goes leaves none; rules  *)
(* that lead to what was removed stay.                                     *)
Under(t, n) ==
  LET grow[k \in Nat] == IF k = 0 THEN {n}
                         ELSE LET prev == grow[k - 1]
                              IN  prev \cup {m \in DOMAIN t.nodes : t.nodes[m].parent \in prev}
  IN  grow[Cardinality(DOMAIN t.nodes)]
WithoutNodes(t, gone) ==
  [t EXCEPT !.nodes = [n \in DOMAIN @ \ gone |-> @[n]],
            !.root = IF @ \in gone THEN None ELSE @]

(* importNodes: a chain, each node always leads to the next.               *)
WithImport(t, new, replace) ==
  LET base == IF replace THEN WithoutNodes(t, DOMAIN t.nodes) ELSE t
      at(k) == t.next + k - 1
  IN  [base EXCEPT
        !.nodes = [n \in DOMAIN @ \cup {at(k) : k \in DOMAIN new} |->
                     IF n \in DOMAIN @ THEN @[n]
                     ELSE LET k == n - t.next + 1
                          IN  NewNode(new[k].type, new[k].required, new[k].options,
                                   <<Always(IF k < Len(new) THEN at(k + 1) ELSE END)>>)],
        !.root = IF @ = None THEN t.next ELSE @,
        !.next = @ + Len(new)]

(* seedProphazeSample publishes what validates.                            *)
Sampled == LET t == [st |-> "draft", root |-> 1, nodes |-> SampleTree, next |-> Cardinality(DOMAIN SampleTree) + 1]
           IN  IF Issues(t) = {} THEN [t EXCEPT !.st = "published"] ELSE t

HasRoom(t, k) == t.next + k <= MaxNodes + 1

(* What a call of the page does to the template; a refusal leaves it.      *)
Obeys(c) ==
  /\ tmpl.st \notin {"none", "deleted"}
  /\ CASE c.op \in {"patch", "delete", "root"} -> c.node \in DOMAIN tmpl.nodes
       [] c.op = "publish" -> Issues(tmpl) = {}
       [] OTHER -> TRUE

After(c) ==
  CASE c.op = "add"     -> WithNode(tmpl)
    [] c.op = "import"  -> WithImport(tmpl, c.value, c.node)
    [] c.op = "patch"   -> [tmpl EXCEPT !.nodes[c.node] = [@ EXCEPT ![c.field] = c.value]]
    [] c.op = "delete"  -> WithoutNodes(tmpl, Under(tmpl, c.node))
    [] c.op = "root"    -> [tmpl EXCEPT !.root = c.node]
    [] c.op = "publish" -> [tmpl EXCEPT !.st = "published"]
    [] OTHER -> tmpl

-----------------------------------------------------------------------------
(* The page: what it shows, its calls, its banners, and the delete dialog  *)
(* of the list page with the usage that was read for it.                   *)
NoCall == [op |-> "none", at |-> "none"]
NoPage == [shown |-> Unborn, calls |-> [i \in {1, 2} |-> NoCall], busy |-> FALSE,
           issues |-> {}, clean |-> FALSE, deleting |-> "none"]

TemplateInit == tmpl = Unborn /\ issued = FALSE /\ editor = NoPage /\ edits = 0

Editing == edits < MaxEdits /\ edits' = edits + 1
IsOpen == editor.shown.st # "none"

(* A new template, from the form, by the AI assistant (which creates and   *)
(* then imports, in two calls), or the sample; the editor opens on it.     *)
Create ==
  /\ tmpl.st = "none" /\ Editing
  /\ \/ /\ tmpl' = [Unborn EXCEPT !.st = "draft"]
        /\ editor' = [NoPage EXCEPT !.shown = tmpl']
     \/ /\ tmpl' = [Unborn EXCEPT !.st = "draft"]
        /\ \E s \in Sheets : editor' = [NoPage EXCEPT !.calls[1] =
             [op |-> "import", node |-> TRUE, value |-> BuildNodes(s, Included(s)), at |-> "sent"]]
     \/ tmpl' = Sampled /\ editor' = [NoPage EXCEPT !.shown = tmpl']
  /\ UNCHANGED issued

(* Buttons wait while the page is busy, the controls of a node do not.     *)
Waits(op) == op \in {"add", "import", "publish", "validate"}
Edit(c) ==
  /\ IsOpen /\ Editing
  /\ Waits(c.op) => ~editor.busy
  /\ c.op = "publish" => editor.shown.st # "published"
  /\ \E i \in {1, 2} :
       /\ editor.calls[i] = NoCall /\ (i = 2 => editor.calls[1] # NoCall)
       /\ editor' = [editor EXCEPT !.calls[i] = c,
                                   !.busy = @ \/ c.op \notin {"publish", "validate"},
                                   !.clean = @ /\ c.op \in {"root", "publish", "validate"}]
  /\ UNCHANGED <<tmpl, issued>>

(* The whole list of rules is sent, as the page knows it.                  *)
RuleEdits(n) ==
  LET rules == editor.shown.nodes[n].rules
  IN  {Append(rules, Always(END))}
      \cup {[rules EXCEPT ![i].goto = g] : i \in DOMAIN rules, g \in (DOMAIN editor.shown.nodes \ {n}) \cup {END}}
      \cup {SubSeq(rules, 1, i - 1) \o SubSeq(rules, i + 1, Len(rules)) : i \in DOMAIN rules}

Patch(n, field, v) == [op |-> "patch", node |-> n, field |-> field, value |-> v, at |-> "sent"]
PressPatch(n) ==
  LET node == editor.shown.nodes[n]
  IN  \/ \E v \in {"single_select", "loop", "short_text"} \ {node.type} : Edit(Patch(n, "type", v))
      \/ \E v \in RuleEdits(n) \ {node.rules} : Len(v) <= 2 /\ Edit(Patch(n, "rules", v))
      \/ node.type = "single_select" /\ Edit(Patch(n, "options", {"a", "b"} \ node.options))
      \/ node.type = "loop" /\ \E v \in Toggles \cup {None} : v # node.slug /\ Edit(Patch(n, "slug", v))

PressOn(op, n) == Edit([op |-> op, node |-> n, at |-> "sent"])
PressHeader(op) == Edit([op |-> op, at |-> "sent"])
PressImport(s, r, replace) ==
  LET new == BuildNodes(s, Included(s) \ r)
  IN  IsOpen /\ ~editor.busy /\ edits < MaxEdits /\ new # <<>> /\ QuestionCol(s) # {}
      /\ Edit([op |-> "import", node |-> replace, value |-> new, at |-> "sent"])

(* The server takes a call; after most of them the page reads again.       *)
Serve(i) ==
  LET c == editor.calls[i]
  IN  /\ c.at = "sent"
      /\ c.op = "import" => HasRoom(tmpl, Len(c.value))
      /\ c.op = "add" => HasRoom(tmpl, 1)
      /\ IF Obeys(c) THEN tmpl' = After(c) ELSE UNCHANGED tmpl
      /\ editor' = [editor EXCEPT !.calls[i] =
           CASE ~Obeys(c) /\ c.op = "publish" -> [op |-> c.op, at |-> "issues", found |-> Issues(tmpl)]
             [] ~Obeys(c) -> [op |-> c.op, at |-> "refused"]
             [] c.op = "validate" -> [op |-> c.op, at |-> "issues", found |-> Issues(tmpl)]
             [] OTHER -> [op |-> c.op, at |-> "reading"]]
      /\ UNCHANGED <<issued, edits>>

ReadBack(i) ==
  /\ editor.calls[i].at = "reading"
  /\ editor' = [editor EXCEPT !.calls[i] = [op |-> @.op, at |-> "answer", shows |-> tmpl]]
  /\ UNCHANGED <<tmpl, issued, edits>>

(* Whichever answer is last is shown.  The page stops being busy when any  *)
(* of its calls ends.                                                      *)
ShowAnswer(i) ==
  LET c == editor.calls[i]
      end == [editor EXCEPT !.calls[i] = NoCall,
                            !.busy = @ /\ c.op \in {"publish", "validate"}]
  IN  /\ c.at \in {"answer", "issues", "refused"}
      /\ editor' = CASE c.at = "refused" -> end
                     [] c.at = "answer" /\ c.op = "publish" ->
                          [end EXCEPT !.shown = c.shows, !.issues = {}, !.clean = FALSE]
                     [] c.at = "answer" -> [end EXCEPT !.shown = c.shows]
                     [] c.at = "issues" -> [end EXCEPT !.issues = c.found,
                                                       !.clean = IF c.op = "validate" THEN c.found = {} ELSE @]
      /\ UNCHANGED <<tmpl, issued, edits>>

-----------------------------------------------------------------------------
(* An opportunity is issued from a published template.                     *)
IssueDeal == /\ tmpl.st = "published" /\ ~issued /\ issued' = TRUE
         /\ UNCHANGED <<tmpl, editor, edits>>

(* Delete: the list page asks for the usage, then for a confirmation.      *)
AskDelete ==
  /\ tmpl.st \notin {"none", "deleted"} /\ editor.deleting = "none" /\ Editing
  /\ editor' = [editor EXCEPT !.deleting = IF issued THEN "blocked" ELSE "offered"]
  /\ UNCHANGED <<tmpl, issued>>

(* The mistake the next action avoids: trust in the usage as it was read.  *)
Delete_AsProbed ==
  /\ editor.deleting = "offered"
  /\ tmpl' = [Unborn EXCEPT !.st = "deleted"]
  /\ editor' = [editor EXCEPT !.deleting = "none"]
  /\ UNCHANGED <<issued, edits>>

(* remove counts again.                                                    *)
Delete ==
  /\ editor.deleting = "offered"
  /\ IF issued THEN UNCHANGED tmpl ELSE tmpl' = [Unborn EXCEPT !.st = "deleted"]
  /\ editor' = [editor EXCEPT !.deleting = "none"]
  /\ UNCHANGED <<issued, edits>>

TemplateNext ==
  \/ Create \/ IssueDeal \/ AskDelete \/ Delete
  \/ \E op \in {"add", "publish", "validate"} : PressHeader(op)
  \/ \E n \in DOMAIN editor.shown.nodes : \/ PressPatch(n)
                                          \/ \E op \in {"delete", "root"} : PressOn(op, n)
  \/ \E s \in Sheets, replace \in BOOLEAN : \E r \in SUBSET Rows(s) :
       Cardinality(r) <= 1 /\ PressImport(s, r, replace)
  \/ \E i \in {1, 2} : Serve(i) \/ ReadBack(i) \/ ShowAnswer(i)

-----------------------------------------------------------------------------
(* The root is a node of the tree, a body has its loop, and an opportunity *)
(* its template, whatever was removed between a question and its answer.   *)
TreeHangsTogether ==
  /\ tmpl.root \in DOMAIN tmpl.nodes \cup {None}
  /\ \A n \in DOMAIN tmpl.nodes : tmpl.nodes[n].parent \in DOMAIN tmpl.nodes \cup {None}
  /\ issued => tmpl.st # "deleted"

(* A sheet that replaces the tree can be published at once, but for lists  *)
(* without options, and the client meets its rows in order and then the    *)
(* end, whatever is answered.  What is published was valid when it became  *)
(* so, whatever the page showed.                                           *)
SheetBecomesTheForm ==
  \A i \in {1, 2} :
    LET c == editor.calls[i]
        rows == DOMAIN c.value
        at(k) == tmpl.next + k - 1
    IN  c.op = "import" /\ c.at = "sent" /\ c.node /\ editor'.calls[i].at = "reading" =>
          /\ Issues(tmpl') \subseteq {"select_without_options"}
          /\ tmpl'.root = at(1) /\ Cardinality(DOMAIN tmpl'.nodes) = Len(c.value)
          /\ \A k \in rows, a \in {Nothing, Empty} :
               ResolveNext(tmpl'.nodes[at(k)], a) =
                 IF k = Len(c.value) THEN [kind |-> "end", goto |-> None]
                 ELSE [kind |-> "next", goto |-> at(k + 1)]

TemplateStaysUsable ==
  [][/\ TreeHangsTogether' /\ SheetBecomesTheForm
     /\ tmpl.st # "published" /\ tmpl'.st = "published" => Issues(tmpl') = {}]_templateVars

(* Statements the code does not meet: a template that was published stays  *)
(* valid; the banner "ready to publish" is true of the tree as it is; and  *)
(* a page that waits for nothing shows what is stored.                     *)
PublishedStaysValid == tmpl.st = "published" => Issues(tmpl) = {}
Waiting == \E i \in {1, 2} : editor.calls[i] # NoCall
BannerIsTrue == editor.clean /\ ~Waiting => Issues(tmpl) = {}
EditorIsTrue == IsOpen /\ ~Waiting /\ tmpl.st # "deleted" => editor.shown = tmpl
=============================================================================
