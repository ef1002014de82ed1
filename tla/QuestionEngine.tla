--------------------------- MODULE QuestionEngine ---------------------------
(***************************************************************************)
(* The branching questionnaire, as pure operators: rule evaluation, answer *)
(* shapes and template validation (packages/shared/src/engine.ts), and the *)
(* walk that decides what the responder sees next (findCursor and walkBody *)
(* of apps/api/src/gathering/gathering.service.ts).                        *)
(*                                                                         *)
(* A template is [root, nodes]; nodes maps an id to a record with its      *)
(* type, parent (a loop, or None), position, required flag, options, rules *)
(* (a sequence of [op, value, goto]) and binding: the slug it is bound to  *)
(* and whether its valueMap turns "yes" into a positive number.  A scalar  *)
(* answer is [t, v] with v an integer that stands for the text or is the   *)
(* number; a list is [t |-> "list", v |-> a set of scalars].               *)
(***************************************************************************)
EXTENDS Integers, Sequences, FiniteSets

CONSTANTS END, None   \* the goto that ends a walk; no node, no slug

Nothing == [t |-> "null", v |-> 0]
Empty   == [t |-> "str",  v |-> 0]     \* the empty string

Text    == {"single_select", "short_text", "long_text"}
Divider == {"section", "loop"}

IsScalar(a) == a.t \in {"str", "num", "null"}
IsString(a) == a.t = "str"

(* JavaScript's ===: two arrays are never the same object.                 *)
Same(a, b) == a.t # "list" /\ a.t = b.t /\ a.v = b.v

-----------------------------------------------------------------------------
EvalPredicate(op, answer, value) ==
  \/ op = "always"
  \/ op = "eq"  /\ Same(answer, value)
  \/ op = "neq" /\ ~Same(answer, value)
  \/ op = "in"  /\ value.t = "list" /\ IsScalar(answer) /\ answer \in value.v
  \/ op = "includes" /\ answer.t = "list" /\ IsScalar(value) /\ value \in answer.v
  \/ op = "gt" /\ answer.t = "num" /\ value.t = "num" /\ answer.v > value.v
  \/ op = "lt" /\ answer.t = "num" /\ value.t = "num" /\ answer.v < value.v

(* The first rule that matches decides; no match is an error.              *)
Matching(node, a) ==
  {i \in DOMAIN node.rules :
      EvalPredicate(node.rules[i].op, a, node.rules[i].value)}

ResolveNext(node, a) ==
  LET hits  == Matching(node, a)
      first == CHOOSE i \in hits : \A j \in hits : i <= j
  IN  CASE hits = {}                     -> [kind |-> "invalid", goto |-> None]
        [] hits # {} /\ node.rules[first].goto = END
                                         -> [kind |-> "end", goto |-> None]
        [] OTHER -> [kind |-> "next", goto |-> node.rules[first].goto]

ValidateAnswerShape(type, a) ==
  \/ type \in Text /\ IsString(a)
  \/ type = "multi_select" /\ a.t = "list" /\ \A x \in a.v : IsString(x)
  \/ type = "number" /\ a.t = "num"
  \/ type \in {"file_upload"} \cup Divider /\ a \in {Nothing, Empty}

-----------------------------------------------------------------------------
(* validateTemplate: the issues that keep a template from being published. *)
BodyOf(T, loop) == {n \in DOMAIN T.nodes : T.nodes[n].parent = loop}

(* Reachable along any rule, whatever its condition, and into loop bodies. *)
ReachableFrom(T, root) ==
  LET Succ(n) == {T.nodes[n].rules[i].goto : i \in DOMAIN T.nodes[n].rules}
                 \cup (IF T.nodes[n].type = "loop" THEN BodyOf(T, n) ELSE {})
      grow[k \in Nat] ==
        IF k = 0 THEN {root}
        ELSE LET prev == grow[k - 1]
             IN  prev \cup UNION {Succ(n) \cap DOMAIN T.nodes : n \in prev}
  IN  grow[Cardinality(DOMAIN T.nodes)]

NodeIssues(T, n) ==
  LET node == T.nodes[n]
  IN  {c \in {"select_without_options", "empty_rules", "dangling_goto"} :
        \/ /\ c = "select_without_options"
           /\ node.type \in {"single_select", "multi_select"}
           /\ node.options = {}
        \/ c = "empty_rules" /\ node.rules = <<>>
        \/ /\ c = "dangling_goto"
           /\ \E i \in DOMAIN node.rules :
                node.rules[i].goto \notin DOMAIN T.nodes \cup {END}}

SlugCollision(T) ==
  \E l, b \in DOMAIN T.nodes :
    /\ T.nodes[l].type = "loop" /\ T.nodes[l].slug # None
    /\ T.nodes[b].parent = l /\ T.nodes[b].slug = T.nodes[l].slug

ToggleWithoutMap(T, Binary) ==
  \E n \in DOMAIN T.nodes : T.nodes[n].slug \in Binary /\ ~T.nodes[n].yesMaps

TemplateIssues(T, Binary) ==
  IF DOMAIN T.nodes = {} THEN {"no_nodes"}
  ELSE (UNION {NodeIssues(T, n) : n \in DOMAIN T.nodes}) \cup
       {c \in {"no_root", "root_not_in_nodes", "loop_body_slug_collision",
               "binary_toggle_missing_value_map", "unreachable_node"} :
         \/ c = "no_root" /\ T.root = None
         \/ c = "root_not_in_nodes" /\ T.root \notin DOMAIN T.nodes \cup {None}
         \/ c = "loop_body_slug_collision" /\ SlugCollision(T)
         \/ c = "binary_toggle_missing_value_map" /\ ToggleWithoutMap(T, Binary)
         \/ /\ c = "unreachable_node" /\ T.root \in DOMAIN T.nodes
            /\ DOMAIN T.nodes \ ReachableFrom(T, T.root) # {}}

-----------------------------------------------------------------------------
(* The walk.  ans maps <<node, iteration>> to the stored answer and loop a *)
(* visited loop to [iter, status].  next leads from a node to the one      *)
(* after it, or to none of the nodes: there the walk stops.  One that      *)
(* meets a node twice, which the code's visited sets notice, never does.   *)
Met(next, start) ==
  {n \in DOMAIN next : \A S \in SUBSET DOMAIN next :
     (start \in S /\ \A m \in S : next[m] \in DOMAIN next => next[m] \in S) => n \in S}
Stops(next, start) == {n \in Met(next, start) : next[n] \notin DOMAIN next}

AnswerAt(ans, n, i) == <<n, i>> \in DOMAIN ans

(* Body entry is the child of lowest position.                             *)
BodyEntry(T, loop) ==
  CHOOSE n \in BodyOf(T, loop) :
    \A m \in BodyOf(T, loop) : T.nodes[n].position <= T.nodes[m].position

AtNode(n, loop, i) == [kind |-> "node", node |-> n, loop |-> loop, iter |-> i]
AtStep(loop, i)    == [kind |-> "loop_step", node |-> None, loop |-> loop, iter |-> i]
AtEnd              == [kind |-> "end", node |-> None, loop |-> None, iter |-> 0]
Invalid            == [AtEnd EXCEPT !.kind = "invalid"]

WalkBody(T, ans, loop, i) ==
  LET To(n) == ResolveNext(T.nodes[n], ans[n, i])
      next  == [n \in BodyOf(T, loop) |-> IF AnswerAt(ans, n, i) THEN To(n).goto ELSE None]
      stops == Stops(next, BodyEntry(T, loop))
      at    == CHOOSE n \in stops : TRUE
  IN  IF stops = {} THEN Invalid
      ELSE IF ~AnswerAt(ans, at, i) THEN AtNode(at, loop, i)
      ELSE IF To(at).kind = "invalid" THEN Invalid
      ELSE AtStep(loop, i)

(* A loop is entered until it is done; one with no body, or whose body     *)
(* dead-ends, is passed like a section.                                    *)
FindCursor(T, ans, loop) ==
  LET State(l)  == IF l \in DOMAIN loop THEN loop[l] ELSE [iter |-> 0, status |-> "iterating"]
      IsLoop(n) == T.nodes[n].type = "loop"
      Enters(n) == IsLoop(n) /\ State(n).status # "done" /\ BodyOf(T, n) # {}
      Inner(n)  == WalkBody(T, ans, n, State(n).iter)
      Holds(n)  == IF Enters(n) THEN Inner(n) # Invalid ELSE ~IsLoop(n) /\ ~AnswerAt(ans, n, 0)
      To(n)     == ResolveNext(T.nodes[n], IF IsLoop(n) THEN Empty ELSE ans[n, 0])
      next      == [n \in DOMAIN T.nodes |-> IF Holds(n) THEN None ELSE To(n).goto]
      stops     == Stops(next, T.root)
      at        == CHOOSE n \in stops : TRUE
  IN  IF T.root \notin DOMAIN T.nodes \/ stops = {} THEN AtEnd
      ELSE IF Enters(at) THEN IF Holds(at) THEN Inner(at) ELSE AtEnd
      ELSE IF Holds(at) \/ To(at).kind = "invalid" THEN AtNode(at, None, 0)
      ELSE AtEnd

(* walk of the shared engine, the preview: the nodes passed, in order, or  *)
(* an error when a node comes back or does not exist.                      *)
PreviewWalk(T, ans) ==
  LET answer(n) == IF n \in DOMAIN ans THEN ans[n] ELSE Nothing
      go[k \in Nat, n \in DOMAIN T.nodes \cup {None}] ==
        IF n = None \/ k = 0 THEN [ok |-> FALSE, path |-> <<>>]
        ELSE LET r == ResolveNext(T.nodes[n], answer(n))
                 rest == go[k - 1, IF r.goto \in DOMAIN T.nodes THEN r.goto ELSE None]
             IN  IF r.kind # "next" THEN [ok |-> TRUE, path |-> <<n>>]
                 ELSE [rest EXCEPT !.path = <<n>> \o @]
  IN  IF T.root = None THEN [ok |-> TRUE, path |-> <<>>]
      ELSE go[Cardinality(DOMAIN T.nodes),
              IF T.root \in DOMAIN T.nodes THEN T.root ELSE None]
=============================================================================
