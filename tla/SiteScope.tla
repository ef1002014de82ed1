------------------------------ MODULE SiteScope -----------------------------
(***************************************************************************)
(* From crawled items to priced scope, as pure operators: the heuristic    *)
(* category, the overlay of the LLM's batches, the roll-up per category    *)
(* and the mapping onto a rate card's service lines (classifier.service,   *)
(* site-enum.service, mapper.service).                                     *)
(*                                                                         *)
(* An item is [url, kind, looks]: looks is what its path and text suggest. *)
(* A card is a sequence of lines [slug, unit, methods, hints].             *)
(***************************************************************************)
EXTENDS Integers, Sequences, FiniteSets, FiniteSetsExt

CONSTANTS Categories,      \* SITE_URL_CATEGORIES
          Preferred,       \* PREFERRED_SLUGS_BY_CATEGORY: category -> sequence of slugs
          BatchSize,
          NoSlug, AnyMethod

(* What the browser captured as a call or an integration is taken at its   *)
(* word.                                                                   *)
HeuristicOne(p) ==
  IF p.kind # "page" THEN p.kind ELSE p.looks

(* The map is keyed by URL: of two items with one URL the last counts for  *)
(* both.                                                                   *)
ByUrl(items, cat) ==
  [u \in {items[i].url : i \in DOMAIN items} |->
     cat[CHOOSE i \in DOMAIN items : items[i].url = u /\ \A j \in DOMAIN items :
                                        items[j].url = u => j <= i]]

(* A batch answers [idx |-> category], idx counted within the batch; what  *)
(* is out of range or no category is dropped, a failed batch answers       *)
(* nothing.                                                                *)
Batch(i) == (i - 1) \div BatchSize

ParseLlmBatch(items, answers) ==
  [i \in DOMAIN items |->
     LET b == Batch(i) idx == (i - 1) % BatchSize
     IN  IF b \in DOMAIN answers /\ idx \in DOMAIN answers[b]
            /\ answers[b][idx] \in Categories
         THEN answers[b][idx] ELSE NoSlug]

Classify(items, answers) ==
  LET heuristic == [i \in DOMAIN items |-> HeuristicOne(items[i])]
      refined   == ParseLlmBatch(items, answers)
      overlay   == [i \in DOMAIN items |->
                      LET said == {j \in DOMAIN items : /\ items[j].url = items[i].url
                                                        /\ refined[j] # NoSlug}
                      IN  IF said = {} THEN ByUrl(items, heuristic)[items[i].url]
                          ELSE refined[Max(said)]]
  IN  overlay

(* buildSummaries: the items of each category.                             *)
CountOf(cats, c) == Cardinality({i \in DOMAIN cats : cats[i] = c})
Summaries(cats)  == {c \in Categories : CountOf(cats, c) > 0}

-----------------------------------------------------------------------------
SlugsOf(card) == {card[i].slug : i \in DOMAIN card}
LineOf(card, slug) == card[CHOOSE i \in DOMAIN card :
                             /\ card[i].slug = slug
                             /\ \A j \in 1 .. i - 1 : card[j].slug # slug]

FirstIn(seq, S) ==
  LET hits == {i \in DOMAIN seq : seq[i] \in S}
  IN  IF hits = {} THEN NoSlug ELSE seq[Min(hits)]

(* The curated slugs first; on a shell that renders in the browser a text  *)
(* page is a dynamic one; else the first line that hints at the category.  *)
PickSlug(c, card, spa) ==
  LET wanted == IF spa /\ c \in {"cms", "knowledge_base"}
                THEN <<"dynamic">> \o Preferred[c] ELSE Preferred[c]
      hinted == [i \in DOMAIN card |-> IF c \in card[i].hints THEN card[i].slug ELSE NoSlug]
  IN  IF FirstIn(wanted, SlugsOf(card)) # NoSlug THEN FirstIn(wanted, SlugsOf(card))
      ELSE FirstIn(hinted, SlugsOf(card))

PickMethodology(line) ==
  LET named == line.methods \ {AnyMethod}
  IN  IF Cardinality(named) = 1 THEN CHOOSE m \in named : TRUE ELSE AnyMethod

Entity(id, slug, unit, n, method) ==
  [id |-> id, slug |-> slug, unit |-> unit, n |-> n, method |-> method]

OnLine(id, card, slug, n) ==
  Entity(id, slug, LineOf(card, slug).unit, n, PickMethodology(LineOf(card, slug)))

(* map: one entity per category, "other" when no line takes it, and the    *)
(* two derived ones: form fields, and 3 fields to 2 calls.                 *)
MapScope(cats, card, spa, fields) ==
  LET direct == {LET slug == PickSlug(c, card, spa)
                 IN  IF slug = NoSlug THEN Entity(c, "other", "other", CountOf(cats, c), AnyMethod)
                     ELSE OnLine(c, card, slug, CountOf(cats, c)) : c \in Summaries(cats)}
      calls   == CountOf(cats, "api")
      derived == (IF fields > 0 /\ "web_fields" \in SlugsOf(card)
                  THEN {OnLine("web_fields", card, "web_fields", fields)} ELSE {})
            \cup (IF calls > 0 /\ "api_fields" \in SlugsOf(card)
                  THEN {OnLine("api_fields", card, "api_fields", (3 * calls + 1) \div 2)} ELSE {})
  IN  direct \cup derived

-----------------------------------------------------------------------------
(* Nothing that was crawled disappears on its way to the price: the direct *)
(* entities count every item once, those without a line as "other" (map,   *)
(* buildSummaries, classify).                                              *)
NothingDisappears(items, answers, card, spa, fields) ==
  LET cats == Classify(items, answers)
      out  == {e \in MapScope(cats, card, spa, fields) : e.id \in Categories}
  IN  /\ SumFunctionOnSet([e \in out |-> e.n], out) = Len(items)
      /\ \A e \in out : e.slug = "other" \/ e.slug \in SlugsOf(card)

=============================================================================
