--------------------------- MODULE ScopeInference ---------------------------
(***************************************************************************)
(* How the scope of one file is inferred: the points its extraction left,  *)
(* up to MaxDraws replies of the LLM, the keyword heuristics when there is *)
(* no LLM or nothing came of it, and the cache on the row of the file that *)
(* makes "same doc, same quote" (rate-card-mapper.service, json-extract,   *)
(* and runAndCacheInference of extraction.service).                        *)
(*                                                                         *)
(* QuoteDesk takes the mapper's answer as given and has the corrections of *)
(* the rep; here nobody corrects.  A reply is what the model meant to      *)
(* write (items, considered) and what became of it: cut is the object the  *)
(* output cap fell in (0: none), left the digits that survived of that     *)
(* object's number, broken a complete reply that is no JSON until it is    *)
(* repaired, declined one with no object in it.  A point carries what the  *)
(* patterns of the card find in it.                                        *)
(***************************************************************************)
EXTENDS PriceBook

CONSTANTS InferLines,   \* slug -> [unit, methods, flat, kind]: methods of all its tiers
          Variants,     \* methodology -> sequence of the names it begins, shortest first
          Keywords,     \* sequence of groups, longest token first: [domain, names, aliases]
          Triggers,     \* slugs that a bare "yes" turns on
          UrlSlug,      \* the line that URLs count for
          WhiteBox, ByCustomer, \* the opt-in methodology; customer type -> methodology
          NonScope,     \* categories of points that carry no count
          Docs,         \* name -> [points, cloudy, replies]
          NoDoc, MaxDraws,
          InferTabs,
          InferScenes   \* [tabs, provider, capped, docs, clicks (a bound)]

VARIABLES study, iScene
inferVars == <<study, iScene>>

\* What a run works with and what it concluded.
Resting == [phase |-> "idle", doc |-> NoDoc, hints |-> 0, force |-> FALSE, fork |-> FALSE, draw |-> 1,
            ents |-> {}, clean |-> FALSE, heard |-> FALSE]
NoScope == [ents |-> {}, hash |-> NoDoc, of |-> NoDoc, hints |-> 0, heard |-> FALSE]

\* meant: what the replies so far were about to say.
InferInit == /\ iScene \in InferScenes
             /\ study = [doc |-> NoDoc, hints |-> 0, file |-> NoScope, runs |-> [t \in InferTabs |-> Resting],
                         meant |-> {}, clicks |-> 0]

-----------------------------------------------------------------------------
(* The methodology of a line: the one that was named, else its shortest    *)
(* variant, else the one the customer type calls for.                      *)
TierMethods(slug) == InferLines[slug].methods \ {WildMethod}
ResolveMethod(slug, m) ==
  LET of == SelectSeq(<<m>> \o Variants[m], LAMBDA v : v \in TierMethods(slug))
  IN  IF of = <<>> THEN WildMethod ELSE Head(of)
WhiteOnly(slug) == InferLines[slug].methods = {WhiteBox}
AutoPick(slug, who) == ResolveMethod(slug, IF WhiteOnly(slug) THEN WhiteBox ELSE ByCustomer[who])
MethodOf(slug, m, who) ==
  IF m # WildMethod /\ ResolveMethod(slug, m) # WildMethod THEN ResolveMethod(slug, m)
  ELSE AutoPick(slug, who)

-----------------------------------------------------------------------------
(* parseLlmJson: strict, a slice between braces, the slice repaired, and,  *)
(* when no brace closes, the whole.  Repair drops an open object at the    *)
(* end of a slice and closes the one it must keep.                         *)
RepairedWhole(r) == r.cut = 1
Items(r) == CASE r.declined -> <<>>
              [] r.cut = 0 -> r.items
              [] r.cut = 1 -> <<[r.items[1] EXCEPT !.n = r.left]>>
              [] OTHER     -> SubSeq(r.items, 1, r.cut - 1)

(* parseLlmEntities: unknown slugs and empty counts go, the rest is made   *)
(* to fit the card.                                                        *)
OnCard(e) == e.slug \in DOMAIN InferLines /\ e.n > 0
Fit(e) == [app |-> e.app, slug |-> e.slug, kind |-> InferLines[e.slug].kind, n |-> e.n,
           method |-> MethodOf(e.slug, e.method, e.who), who |-> e.who,
           conf |-> Max({0, Min({10, e.conf})}), src |-> "llm"]
ParseEntities(r) ==
  LET usable == SelectSeq(Items(r), OnCard) IN [i \in DOMAIN usable |-> Fit(usable[i])]
Considered(r) == IF r.cut > 0 THEN {} ELSE r.considered \cap DOMAIN InferLines

(* Only a provider that says "length" is known to have cut a reply short;  *)
(* then the object closed by the repair goes.                              *)
Truncated(r) == r.cut > 0 /\ iScene.capped = "length"
Salvaged_All(r) == ParseEntities(r)
Salvaged(r) ==
  LET ents == ParseEntities(r)
  IN  IF Truncated(r) /\ RepairedWhole(r) /\ ents # <<>> THEN Front(ents) ELSE ents
Kept(r) == (~r.declined /\ ~Truncated(r)) \/ Salvaged(r) # <<>>

-----------------------------------------------------------------------------
(* The heuristics.  A line is named by its driver's keywords and only a    *)
(* line without any by those of its domain; its count comes from a point   *)
(* that names it, the one that fits the unit best.                         *)
Naming(slug, domain) == {g \in DOMAIN Keywords : /\ Keywords[g].domain \in domain
                                                 /\ slug \in Keywords[g].names}
AliasesOf(gs) == IF gs = {} THEN {} ELSE Keywords[Min(gs)].aliases
GroupOf_Longest(slug) == AliasesOf(Naming(slug, BOOLEAN))
GroupOf(slug) ==
  AliasesOf(IF Naming(slug, {FALSE}) # {} THEN Naming(slug, {FALSE}) ELSE Naming(slug, {TRUE}))

Countable(p, slug) == p.n > 0 /\ p.cat \notin NonScope /\ p.words \cap GroupOf(slug) # {}
CountFor(points, slug) ==
  LET score(i) == points[i].fits[InferLines[slug].unit]
      able == {i \in DOMAIN points : Countable(points[i], slug)}
      best == {i \in able : \A j \in able : score(j) <= score(i)}
  IN  IF able = {} THEN 0 ELSE points[Min(best)].n

CustomerOf(points) ==
  LET said == {i \in DOMAIN points : points[i].who # "none"}
  IN  IF said = {} THEN "external" ELSE points[Min(said)].who
UrlCount(doc) ==
  LET sum(f) == FoldFunction(+, 0, [i \in DOMAIN doc.points |-> doc.points[i].urls[f]])
  IN  IF sum("strong") > 0 THEN sum("strong")
      ELSE IF sum("any") >= 2 /\ doc.cloudy THEN sum("any") ELSE 0

Guess(points, slug, n) ==
  [app |-> NoApp, slug |-> slug, kind |-> InferLines[slug].kind, n |-> n,
   method |-> AutoPick(slug, CustomerOf(points)), who |-> CustomerOf(points), conf |-> 7,
   src |-> "heuristic"]
Heuristics(doc) ==
  LET ps      == doc.points
      counted == {s \in DOMAIN InferLines :
                    /\ ~InferLines[s].flat /\ CountFor(ps, s) > 0
                    /\ TierMethods(s) # {} => AutoPick(s, CustomerOf(ps)) # WildMethod}
      flagged == {s \in Triggers \cap DOMAIN InferLines : \E i \in DOMAIN ps : s \in ps[i].yes}
      found   == {Guess(ps, s, CountFor(ps, s)) : s \in counted}
                   \cup {Guess(ps, s, 1) : s \in flagged \ counted}
  IN  found \cup (IF UrlCount(doc) > 0 /\ UrlSlug \in DOMAIN InferLines \ (counted \cup flagged)
                  THEN {Guess(ps, UrlSlug, UrlCount(doc))} ELSE {})
HeuristicInfer == [d \in DOMAIN Docs |-> Heuristics(Docs[d])]

-----------------------------------------------------------------------------
(* Runs.  Set(t, run) is the study with another run in tab t.              *)
Set(t, run) == [study EXCEPT !.runs[t] = run]
RunOf(t) == study.runs[t]
Points(d) == Docs[d].points
InferBusy == {t \in InferTabs : RunOf(t).phase # "idle"}

(* inferEntities after the LLM: what it found is final; else the           *)
(* heuristics speak, but not for a line it looked at and rejected.         *)
Concluded(run, ents, rejected, clean) ==
  LET guesses == {g \in HeuristicInfer[run.doc] : g.slug \notin rejected}
  IN  [run EXCEPT !.phase = "writing", !.clean = clean,
                  !.ents = ResolveScope(IF ents # <<>> THEN ents ELSE SetToSeq(guesses))]

(* runAndCacheInference: nothing to do when the hash covers the points and *)
(* the file holds something; else the LLM is asked, if there is one.       *)
Hit(d, force) == ~force /\ study.file.hash = d /\ study.file.ents # {}
Begun(d, force) ==
  LET run == [Resting EXCEPT !.doc = d, !.hints = study.hints, !.force = force]
  IN  IF Hit(d, force) THEN Resting
      ELSE IF Points(d) = <<>> THEN [run EXCEPT !.phase = "writing", !.clean = TRUE]
      ELSE IF iScene.provider = "manual" THEN Concluded(run, <<>>, {}, TRUE)
      ELSE [run EXCEPT !.phase = "drawing"]

MayClick == study.clicks < iScene.clicks
Clicked(s) == study' = [s EXCEPT !.clicks = @ + 1]
Free(t) == RunOf(t).phase = "idle" /\ Cardinality(InferBusy) < iScene.tabs

(* Re-run mapping, over the points as they are; the page never forces.     *)
RerunInferring(t, force) ==
  /\ MayClick /\ Free(t) /\ study.doc # NoDoc /\ Points(study.doc) # <<>>
  /\ Clicked(Set(t, Begun(study.doc, force)))

(* A kickoff clears what was inferred and reads the document again, unless *)
(* its fork is still at it (status processing).                            *)
Processing == \E t \in InferTabs : RunOf(t).fork
Reextract(t) ==
  /\ MayClick /\ Free(t) /\ ~Processing
  /\ Clicked([Set(t, [Resting EXCEPT !.phase = "reading", !.fork = TRUE]) EXCEPT
                !.doc = NoDoc, !.file = NoScope])

PointsLand(t) ==
  /\ RunOf(t).phase = "reading"
  /\ \E d \in iScene.docs :
        study' = [Set(t, [Begun(d, FALSE) EXCEPT !.fork = @ \/ ~Hit(d, FALSE)]) EXCEPT !.doc = d]

(* Somebody has the card's hints written anew: its version stays.          *)
RewriteHints == MayClick /\ study.hints = 0 /\ Clicked([study EXCEPT !.hints = 1])

(* One reply: kept, drawn again, or given up with a throw.                 *)
GaveUp_Empty(run) == Concluded(run, <<>>, {}, TRUE)
GaveUp(run) == Concluded(run, <<>>, {}, FALSE)
Draw(t) ==
  /\ RunOf(t).phase = "drawing"
  /\ \E r \in Docs[RunOf(t).doc].replies :
        LET run   == [RunOf(t) EXCEPT !.heard = @ \/ (~r.declined /\ r.cut = 0)]
            after == IF Kept(r) THEN Concluded(run, Salvaged(r), Considered(r), TRUE)
                     ELSE IF run.draw < MaxDraws THEN [run EXCEPT !.draw = @ + 1]
                     ELSE GaveUp(run)
        IN  study' = [Set(t, after) EXCEPT !.meant =
                        @ \cup {<<r.items[i].slug, r.items[i].n>> : i \in DOMAIN r.items}]

(* The call itself may fail: a limit, a time-out, a refusal.               *)
CallFails(t) == RunOf(t).phase = "drawing" /\ study' = Set(t, GaveUp(RunOf(t)))

WriteInferred(t) ==
  /\ RunOf(t).phase = "writing"
  /\ LET run == RunOf(t)
     IN  study' = [Set(t, Resting) EXCEPT
                     !.file = [ents |-> run.ents, hash |-> IF run.clean THEN run.doc ELSE NoDoc,
                               of |-> run.doc, hints |-> run.hints, heard |-> run.heard]]

InferNext == /\ UNCHANGED iScene
             /\ \/ \E t \in InferTabs : \/ \E force \in BOOLEAN : RerunInferring(t, force)
                                        \/ Reextract(t) \/ PointsLand(t)
                                        \/ Draw(t) \/ CallFails(t) \/ WriteInferred(t)
                \/ RewriteHints

-----------------------------------------------------------------------------
Inferred == study.file.ents
FromLlm  == {e \in Inferred : e.src = "llm"}
Guessed  == {e \in Inferred : e.src = "heuristic"}

(* No number is made up by a cut reply: what the LLM is said to have found *)
(* on a file it meant to write, where the provider says "length"; "it can  *)
(* only UNDER-count, never invent a wrong number" (llmInfer).              *)
NeverInvents == iScene.capped = "length" => \A e \in FromLlm : <<e.slug, e.n>> \in study.meant

(* What the heuristics count is stated of the line itself: "a slug's scope *)
(* can only come from a point that names that slug's own driver, never a   *)
(* sibling's count" (matchingKeywordGroup, pickScopeValue).  About is what *)
(* a point speaks of, whatever words are in it.                            *)
StatedOf(doc, e) ==
  \/ \E i \in DOMAIN doc.points : doc.points[i].n = e.n /\ e.slug \in doc.points[i].about
  \/ e.n = 1 /\ \E i \in DOMAIN doc.points : e.slug \in doc.points[i].yes
  \/ e.slug = UrlSlug /\ e.n = UrlCount(doc)
OwnCounts == \A e \in Guessed : StatedOf(Docs[study.file.of], e)

(* A fallback is not frozen: while an LLM is there to be asked, guesses    *)
(* that the next run would serve unasked came after a reply that was       *)
(* readable to its end, where the provider says "length"; the result of a  *)
(* failure "must NOT be frozen in the content-addressed cache"             *)
(* (runAndCacheInference).                                                 *)
NothingDegradedFrozen ==
  (study.file.hash # NoDoc /\ Guessed # {} /\ iScene.provider = "llm" /\ iScene.capped = "length")
     => study.file.heard

(* Same document, same scope: what a clean run left is only replaced by a  *)
(* forced one or by reading the document again, at one tab.                *)
SameDocSameScope ==
  (iScene.tabs = 1 /\ study.file.hash # NoDoc /\ Inferred # {} /\ study'.file # study.file) =>
     (study'.doc = NoDoc \/ \E t \in InferTabs : RunOf(t).force)

(* The inferred scope can be priced from: nothing made up, nothing counted *)
(* for another line, no degraded result for good, nothing that drifts.     *)
ScopeIsInferred == /\ [](NeverInvents /\ OwnCounts /\ NothingDegradedFrozen)
                   /\ [][SameDocSameScope]_inferVars

-----------------------------------------------------------------------------
(* What comments promise and the code does not keep.                       *)

(* "It can only UNDER-count" (llmInfer), whoever the provider: Anthropic   *)
(* says "max_tokens" (anthropic.provider), which no guard knows.           *)
AllProvidersGuarded == \A e \in FromLlm : <<e.slug, e.n>> \in study.meant

(* "The mapper will pick up the new ones on its next call (no cache flush  *)
(* needed)" (regenerateHints): a re-run started after the hints changed    *)
(* leaves what was mapped with the old ones.                               *)
HintsAreServed ==
  (iScene.provider = "llm" /\ study'.clicks > study.clicks /\ study'.runs = study.runs)
     => study'.hints # study.hints \/ study.file.hints = study.hints
HintsReach == [][HintsAreServed]_inferVars

(* A result of the heuristics "must NOT be frozen" (runAndCacheInference): *)
(* it is when every entity of a readable reply was unusable, and when no   *)
(* LLM was there to ask, which the hash does not remember.                 *)
GuessesAreNotFrozen == Guessed # {} => study.file.hash = NoDoc

(* The scope on the file is that of its points: a re-run that was waiting  *)
(* for the LLM writes the old document's over a re-extraction's.           *)
ScopeIsOfThePoints == (Inferred # {} /\ InferBusy = {}) => study.file.of = study.doc
=============================================================================
