----------------------------- MODULE PriceCases -----------------------------
(***************************************************************************)
(* The pure operators of PriceBook and SiteScope on every small input: a   *)
(* case grows entity by entity, mention by mention, tier by tier and       *)
(* answer by answer, and what the kernel promises is an invariant of it.   *)
(***************************************************************************)
EXTENDS PriceBook, SiteScope

CONSTANTS CaseCard,     \* the card entities are priced on
          SomeEntities, SomeMentions, SomeTiers,
          CaseTemplate, SomeAnswers,   \* <<node, iteration>> -> what may be answered
          SomeItems, SomeVerdicts, SiteCards,
          MaxCase       \* bound: the length of a case

ASSUME CaseAssumption ==
  /\ \A s \in Slugs(CaseCard) : \A i \in DOMAIN CaseCard.lines[s].tiers : CaseCard.lines[s].tiers[i].price \in Int
  /\ \A s \in Slugs(CaseCard) : DOMAIN CaseCard.lines[s].tiers \subseteq Nat
  /\ \A e \in SomeEntities :
       /\ e = [id |-> e.id, slug |-> e.slug, n |-> e.n, method |-> e.method, who |-> e.who]
       /\ e.n \in Int
  /\ \A m \in SomeMentions :
       /\ m = [app |-> m.app, slug |-> m.slug, kind |-> m.kind, n |-> m.n, method |-> m.method,
               who |-> m.who, conf |-> m.conf]
       /\ m.n \in Int /\ m.conf \in Int /\ m.who \in {"internal", "external"}
       /\ m.method \in DOMAIN Specific
  /\ \A m \in DOMAIN Specific : Specific[m] \in Nat
  /\ \A t \in SomeTiers : t.lo \in Int /\ t.hi \in Int
  /\ Len(CaseTemplate) \in Nat /\ DOMAIN CaseTemplate = 1 .. Len(CaseTemplate)
  /\ \A p \in SomeItems : p.looks \in Categories /\ p.kind \in Categories \cup {"page"}
  /\ {"web_fields", "api_fields"} \cap Categories = {}
  /\ \A c \in Categories : Len(Preferred[c]) \in Nat /\ DOMAIN Preferred[c] = 1 .. Len(Preferred[c])
  /\ \A card \in SiteCards : DOMAIN card \subseteq Nat

VARIABLE case
caseVars == <<case>>

Kinds == {"entities", "sources", "mentions", "tiers", "answers", "items"}

CaseInit == \E k \in Kinds :
               case = [kind |-> k, one |-> <<>>, two |-> <<>>, three |-> <<>>, said |-> << >>]

Grow(field, S) == /\ Len(case[field]) < MaxCase
                  /\ \E x \in S : case' = [case EXCEPT ![field] = Append(@, x)]

AddEntity  == case.kind = "entities" /\ Grow("one", SomeEntities)
AddSource  == /\ case.kind = "sources"
              /\ Len(case.one) + Len(case.two) + Len(case.three) < MaxCase + 1
              /\ Grow("one", SomeEntities) \/ Grow("two", SomeEntities) \/ Grow("three", SomeEntities)
AddMention == case.kind = "mentions" /\ Grow("one", SomeMentions)
AddTier    == case.kind = "tiers" /\ Grow("one", SomeTiers)
AddItem    == /\ case.kind = "items"
              /\ Grow("one", SomeItems) \/ (case.one # <<>> /\ Grow("two", SomeVerdicts))
GiveAnswer == /\ case.kind = "answers"
              /\ \E p \in DOMAIN SomeAnswers \ DOMAIN case.said : \E v \in SomeAnswers[p] :
                    case' = [case EXCEPT !.said = (p :> v) @@ @]

CaseNext == AddEntity \/ AddSource \/ AddMention \/ AddTier \/ AddItem \/ GiveAnswer
CaseSpec == CaseInit /\ [][CaseNext]_caseVars

(* What a case is made of.                                                 *)
CaseFits ==
  /\ case.kind \in Kinds
  /\ case = [kind |-> case.kind, one |-> case.one, two |-> case.two, three |-> case.three,
             said |-> case.said]
  /\ case.kind \in {"entities", "sources"} =>
       case.one \in Seq(SomeEntities) /\ case.two \in Seq(SomeEntities) /\ case.three \in Seq(SomeEntities)
  /\ case.kind = "mentions" => case.one \in Seq(SomeMentions)
  /\ case.kind = "tiers" => case.one \in Seq(SomeTiers)
  /\ case.kind = "items" => case.one \in Seq(SomeItems)

-----------------------------------------------------------------------------
(* Applications of one pooled line cost together what one application of   *)
(* their combined scope costs, however the scope is split: "a multi-app    *)
(* opportunity earns the same volume discount a single large app would"    *)
(* (computeBasePrice).                                                     *)
Alike(ents) == \A i, j \in DOMAIN ents : /\ ents[i].slug = ents[j].slug /\ ents[i].method = ents[j].method
                                         /\ ents[i].who = ents[j].who
WithIds(ents) == [i \in DOMAIN ents |-> [ents[i] EXCEPT !.id = i]]
PoolingIgnoresSplit ==
  LET ents == WithIds(case.one)
      one  == [ents[1] EXCEPT !.n = PooledScope(ents, DOMAIN ents)]
  IN  (case.kind = "entities" /\ ents # <<>> /\ Alike(ents) /\ Pools(CaseCard, ents[1])
         /\ PickTier(CaseCard.lines[one.slug].tiers, one.n, one.method, one.who) # NoTier) =>
      BasePrice(CaseCard, ents).total = BasePrice(CaseCard, <<one>>).total

(* What the client typed is never lost or doubled: the merged scope begins *)
(* with the form's entities and holds of every service line as many as the *)
(* richest of form, documents and crawl (computeAndPersistForEngagement).  *)
MergeKeepsTheRichest ==
  case.kind = "sources" =>
    LET merged == MergeScope(case.one, case.two, case.three)
    IN  /\ SubSeq(merged, 1, Len(case.one)) = case.one
        /\ \A s \in {e.slug : e \in SomeEntities} :
             CountSlug(merged, s) =
               Max({CountSlug(case.one, s), CountSlug(case.two, s), CountSlug(case.three, s)})

(* On a card publish accepts, the order in which the tiers are loaded does *)
(* not change a price, when the tiers of a line all name a methodology or  *)
(* none does: publish refuses what would make "pricing order-dependent"    *)
(* (findOverlappingTiers, pickTier).                                       *)
TierOrderIsFree ==
  ( /\ case.kind = "tiers" /\ OverlappingTiers(case.one) = {}
    /\ (\A i \in DOMAIN case.one : case.one[i].method # WildMethod)
         \/ (\A i \in DOMAIN case.one : case.one[i].method = WildMethod) ) =>
  \A e \in SomeEntities :
     e.method # WildMethod => PickTier(case.one, e.n, e.method, e.who)
                                = PickTier(Reverse(case.one), e.n, e.method, e.who)

(* The resolver is "order-independent" (resolveCanonicalScope) where no    *)
(* two methodologies of one application and line have names of one length. *)
Decided(ms) == \A i, j \in DOMAIN ms :
                  (KeyOf(ms[i]) = KeyOf(ms[j]) /\ Specific[ms[i].method] = Specific[ms[j].method])
                     => ms[i].method = ms[j].method
Essence(set) == {[m EXCEPT !.kind = "any"] : m \in set}
MentionOrderIsFree ==
  (case.kind = "mentions" /\ Decided(case.one)) =>
     Essence(ResolveScope(case.one)) = Essence(ResolveScope(Reverse(case.one)))

(* The applications of a loop are priced apart: what was answered for one  *)
(* does not change the scope of another (normaliseScope).                  *)
OfIteration(scope, it) == {e \in scope : e.id[2] = it}
IterationsAreApart ==
  case.kind = "answers" =>
    LET its == {p[2] : p \in DOMAIN case.said} \ {0}
        without(it) == [p \in {q \in DOMAIN case.said : q[2] # it} |-> case.said[p]]
    IN  \A i, j \in its : i # j =>
          OfIteration(NormaliseScope(CaseTemplate, CaseCard, case.said), i)
            = OfIteration(NormaliseScope(CaseTemplate, CaseCard, without(j)), i)

(* Nothing that was crawled disappears on its way to the price, whatever   *)
(* the LLM answers and the card offers (classify, buildSummaries, map).    *)
NothingCrawledIsLost ==
  case.kind = "items" =>
    LET answers == [b \in 0 .. Len(case.two) - 1 |-> case.two[b + 1]]
    IN  \A c \in SiteCards, spa \in BOOLEAN, fields \in {0, 4} :
          NothingDisappears(case.one, answers, c, spa, fields)

(* A price depends on what the scope is and not on how it was written      *)
(* down: not on the split into applications, the order of tiers or of      *)
(* mentions, nor on the answers about another application.                 *)
PriceIsOfTheScope == PoolingIgnoresSplit /\ TierOrderIsFree /\ MentionOrderIsFree /\ IterationsAreApart

(* Nothing the client, a document or the crawl named is dropped on its way *)
(* to the price.                                                           *)
ScopeIsKept == MergeKeepsTheRichest /\ NothingCrawledIsLost
ScopeIsPriced == PriceIsOfTheScope /\ ScopeIsKept

=============================================================================
