------------------------------ MODULE PriceBook -----------------------------
(***************************************************************************)
(* From answers and inferred scope to a priced quote, as pure operators:   *)
(* the pricing kernel (packages/shared pricing.ts), the merge of the three *)
(* sources of scope (quote.service.ts), the scope resolver and the         *)
(* conversion of inferred entities (scope-graph.ts, rate-card-mapper), and *)
(* what publishing a rate card refuses (pricing.service.ts).               *)
(*                                                                         *)
(* A card is [lines |-> [slug -> line], open |-> slugs]; a line has a unit *)
(* model, may pool, and holds its tiers in the order they were loaded.  An *)
(* entity is [id, slug, n, method, who]: n is the dimension its line reads.*)
(***************************************************************************)
EXTENDS Integers, Sequences, FiniteSets, FiniteSetsExt, SequencesExt

CONSTANTS WildMethod,   \* methodology null
          NoApp,        \* an entity without appId
          Specific,     \* methodology -> length of its name
          NoNode,       \* parentNodeId null
          Threshold     \* CONFIDENCE_THRESHOLD, in tenths

Slugs(card) == DOMAIN card.lines
NoTier == [lo |-> 0, hi |-> 0, method |-> WildMethod, who |-> "nobody", price |-> 0]

-----------------------------------------------------------------------------
(* pickTier: the first that fits; null on either side is a wildcard.       *)
Fits(t, n, method, who) == /\ t.who = who
                           /\ WildMethod \in {t.method, method} \/ t.method = method
                           /\ t.lo <= n /\ n <= t.hi

PickTier(tiers, n, method, who) ==
  LET hits == {i \in DOMAIN tiers : Fits(tiers[i], n, method, who)}
  IN  IF hits = {} THEN NoTier ELSE tiers[Min(hits)]

(* The pooling pre-pass: entities of one slug, methodology and customer    *)
(* share the tier of their combined scope.  The result is kept by id: the  *)
(* group that formed last overwrites.                                      *)
Pools(card, e) == /\ e.slug \in Slugs(card)
                  /\ card.lines[e.slug].model = "per_unit" /\ card.lines[e.slug].pool
PoolOf(card, ents, i) ==
  {j \in DOMAIN ents : /\ Pools(card, ents[i]) /\ Pools(card, ents[j])
                       /\ ents[j].slug = ents[i].slug /\ ents[j].method = ents[i].method
                       /\ ents[j].who = ents[i].who}
PooledScope(ents, pool) == SumFunctionOnSet([j \in DOMAIN ents |-> ents[j].n], pool)
PooledTier(card, ents, i) ==
  LET pool == PoolOf(card, ents, i)
  IN  IF Cardinality(pool) < 2 THEN NoTier
      ELSE PickTier(card.lines[ents[i].slug].tiers, PooledScope(ents, pool),
                    ents[i].method, ents[i].who)

TierOf(card, ents, i) ==
  LET byId == {j \in DOMAIN ents : ents[j].id = ents[i].id /\ PooledTier(card, ents, j) # NoTier}
      last == CHOOSE j \in byId : \A k \in byId : Min(PoolOf(card, ents, k)) <= Min(PoolOf(card, ents, j))
  IN  IF byId # {} THEN PooledTier(card, ents, last)
      ELSE PickTier(card.lines[ents[i].slug].tiers, ents[i].n, ents[i].method, ents[i].who)

(* computeBasePrice: a line per entity; what is open-priced, unknown or    *)
(* without a tier costs nothing and says so.                               *)
PriceLine(card, ents, i) ==
  LET e == ents[i]
      line(kind, cents) == [id |-> e.id, slug |-> e.slug, kind |-> kind, cents |-> cents]
  IN  IF e.slug \in card.open THEN line("manual", 0)
      ELSE IF e.slug \notin Slugs(card) \/ TierOf(card, ents, i) = NoTier THEN line("unmatched", 0)
      ELSE line("priced", IF card.lines[e.slug].model = "per_unit"
                          THEN TierOf(card, ents, i).price * e.n ELSE TierOf(card, ents, i).price)

BasePrice(card, ents) ==
  [lines |-> [i \in DOMAIN ents |-> PriceLine(card, ents, i)],
   total |-> SumFunctionOnSet([i \in DOMAIN ents |-> PriceLine(card, ents, i).cents], DOMAIN ents)]

-----------------------------------------------------------------------------
(* publish refuses a card with overlapping tiers; null is a bucket of its  *)
(* own there.                                                              *)
RangesOverlap_Strict(a, b) == a.lo < b.hi /\ b.lo < a.hi
RangesOverlap(a, b) == a.lo <= b.hi /\ b.lo <= a.hi
SameBucket(a, b) == a.method = b.method /\ a.who = b.who
OverlappingTiers(tiers) ==
  {ij \in (DOMAIN tiers) \X (DOMAIN tiers) :
     ij[1] < ij[2] /\ SameBucket(tiers[ij[1]], tiers[ij[2]]) /\ RangesOverlap(tiers[ij[1]], tiers[ij[2]])}
Publishable(card) == \A s \in Slugs(card) : OverlappingTiers(card.lines[s].tiers) = {}

-----------------------------------------------------------------------------
(* normaliseScope.  A node is [id, parent, type, field, slug]; answers map *)
(* <<node, iteration>> to a number, a methodology or a customer type.      *)
Answered(tmpl, answers, parent, iter, field) ==
  {k \in DOMAIN tmpl : /\ tmpl[k].parent = parent /\ tmpl[k].type = "question"
                       /\ tmpl[k].field = field
                       /\ <<tmpl[k].id, iter>> \in DOMAIN answers}
Given(tmpl, answers, k, iter) == answers[<<tmpl[k].id, iter>>]
LastSaid(tmpl, answers, said, iter, default) ==
  IF said = {} THEN default ELSE Given(tmpl, answers, Max(said), iter)

MethodIn(tmpl, answers, parent, iter, default) ==
  LastSaid(tmpl, answers, Answered(tmpl, answers, parent, iter, "methodology"), iter, default)
CustomerIn(tmpl, answers, parent, iter, default) ==
  LET said == {k \in Answered(tmpl, answers, parent, iter, "customer_type") :
                 Given(tmpl, answers, k, iter) \in {"internal", "external"}}
  IN  LastSaid(tmpl, answers, said, iter, default)

(* One entity per positive answer that names a known slug, and one of the  *)
(* loop's own slug for the first positive answer that names none.          *)
ScopeIn(tmpl, card, answers, parent, iter, mainSlug, method, who) ==
  LET positive == {k \in Answered(tmpl, answers, parent, iter, "scope_value") :
                     Given(tmpl, answers, k, iter) > 0}
      entity(id, slug, k) == [id |-> id, slug |-> slug, n |-> Given(tmpl, answers, k, iter),
                              method |-> method, who |-> who]
      drivers == {k \in positive : tmpl[k].slug \in Slugs(card)}
      unnamed == {k \in positive : tmpl[k].slug = ""}
  IN  {entity(<<parent, iter, tmpl[k].id>>, tmpl[k].slug, k) : k \in drivers}
      \cup (IF parent # NoNode /\ unnamed # {} /\ mainSlug \in Slugs(card)
            THEN {entity(<<parent, iter, parent>>, mainSlug, Min(unnamed))} ELSE {})

Iterations(answers, tmpl, loop) ==
  {it \in {p[2] : p \in DOMAIN answers} :
     \E k \in DOMAIN tmpl : tmpl[k].parent = loop /\ <<tmpl[k].id, it>> \in DOMAIN answers}

TopMethod(tmpl, answers) == MethodIn(tmpl, answers, NoNode, 0, WildMethod)
TopWho(tmpl, answers) == CustomerIn(tmpl, answers, NoNode, 0, "external")

NormaliseScope(tmpl, card, answers) ==
  LET method == TopMethod(tmpl, answers)
      who    == TopWho(tmpl, answers)
      loops  == {k \in DOMAIN tmpl : tmpl[k].type = "loop"}
      inLoop(k, it) ==
        ScopeIn(tmpl, card, answers, tmpl[k].id, it, tmpl[k].slug,
                MethodIn(tmpl, answers, tmpl[k].id, it, method),
                CustomerIn(tmpl, answers, tmpl[k].id, it, who))
  IN  ScopeIn(tmpl, card, answers, NoNode, 0, "", method, who)
      \cup UNION {inLoop(p[1], p[2]) : p \in
             {q \in loops \X {r[2] : r \in DOMAIN answers} :
                q[2] \in Iterations(answers, tmpl, tmpl[q[1]].id)}}

-----------------------------------------------------------------------------
(* resolveCanonicalScope over mentions [app, slug, kind, n, method, who,   *)
(* conf]: kind tells a web app's drivers from an API's.                    *)
WebApps(ms) == {ms[i].app : i \in {j \in DOMAIN ms : ms[j].kind = "web"}} \ {NoApp}
LoneApis(ms) == {ms[i].app : i \in {j \in DOMAIN ms : ms[j].kind = "api"}} \ (WebApps(ms) \cup {NoApp})
Consumed(ms, m) == m.app \in WebApps(ms) /\ m.kind = "api" /\ LoneApis(ms) # {}

MoreSpecific(a, b) == Specific[a] > Specific[b]
Survivor(prev, m) ==
  [prev EXCEPT !.n = Max({prev.n, m.n}), !.conf = Max({prev.conf, m.conf}),
               !.who = IF "external" \in {prev.who, m.who} THEN "external" ELSE @,
               !.method = IF MoreSpecific(m.method, @) THEN m.method ELSE @]

KeyOf(m) == <<m.app, m.slug>>
Collapsed(ms, group) ==
  LET upto[i \in Nat] == IF i <= Min(group) THEN ms[Min(group)]
                         ELSE IF i \in group THEN Survivor(upto[i - 1], ms[i]) ELSE upto[i - 1]
  IN  upto[Len(ms)]
ResolveScope(ms) ==
  LET kept == {i \in DOMAIN ms : ~Consumed(ms, ms[i])}
  IN  {Collapsed(ms, {i \in kept : KeyOf(ms[i]) = k}) : k \in {KeyOf(ms[i]) : i \in kept}}

(* Only what is certain enough and on the card becomes scope; ids count    *)
(* within a slug.                                                          *)
ToScopedEntities(ms, card) ==
  LET usable == SelectSeq(ms, LAMBDA m : m.conf >= Threshold /\ m.slug \in Slugs(card))
      nth(i) == Cardinality({j \in 1 .. i - 1 : usable[j].slug = usable[i].slug})
  IN  [i \in DOMAIN usable |->
         [id |-> <<"extracted", usable[i].slug, nth(i)>>, slug |-> usable[i].slug,
          n |-> usable[i].n, method |-> usable[i].method, who |-> usable[i].who]]

-----------------------------------------------------------------------------
(* The merge: of each slug a source adds only what exceeds the sources     *)
(* before it.                                                              *)
CountSlug(ents, s) == Cardinality({i \in DOMAIN ents : ents[i].slug = s})
Surplus(base, extra) ==
  LET seen(i) == Cardinality({j \in 1 .. i - 1 : extra[j].slug = extra[i].slug})
      upto[i \in Nat] == IF i = 0 THEN <<>>
                         ELSE IF seen(i) >= CountSlug(base, extra[i].slug)
                              THEN Append(upto[i - 1], extra[i]) ELSE upto[i - 1]
  IN  upto[Len(extra)]

MergeScope(form, extracted, crawled) ==
  LET baseline == form \o Surplus(form, extracted)
  IN  baseline \o Surplus(baseline, crawled)

-----------------------------------------------------------------------------
(* The regime and its adjustment, in hundredths.                           *)
SelectRegime(closed, config) ==
  IF closed < config.cold THEN "cold_start"
  ELSE IF closed < config.rules THEN "rules"
  ELSE IF closed < config.linear THEN "linear" ELSE "boosted"

(* Regimes that are not built yet fall back to the rules.                  *)
EffectiveRegime(r) == IF r \in {"cold_start", "rules"} THEN r ELSE "rules"

(* The deepest discount the client's history earns, then every modifier.   *)
LoyaltyPct(ladder, lifetime) ==
  LET earned == {r.pct : r \in {x \in ladder : lifetime >= x.from}}
  IN  IF earned = {} THEN 0 ELSE Min(earned)

Round(a, b) == (2 * a + b) \div (2 * b)      \* Math.round(a / b), b > 0
Compose(base, regime, ladder, modifier, lifetime) ==
  LET factor    == IF regime = "cold_start" THEN 10000
                   ELSE (100 + LoyaltyPct(ladder, lifetime)) * modifier
      predicted == Round(base * factor, 10000)
      spread    == IF regime = "cold_start" THEN 0 ELSE Round(predicted, 10)
  IN  [price |-> predicted, low |-> Max({0, predicted - spread}), high |-> predicted + spread]

=============================================================================
