------------------------------ MODULE QuoteDesk -----------------------------
(***************************************************************************)
(* The scope and the price of one opportunity that came in without a       *)
(* template, as the page and its requests change them: the scope inferred  *)
(* from each file and the rep's corrections, the attached rate card, the   *)
(* quote, the predictions, the extra line items, and what the page shows.  *)
(*                                                                         *)
(* A request is a list of steps still to do, each a statement or a         *)
(* transaction of the code, and what it has read so far.  A deal without a *)
(* template has no answers to promote inferred scope into.  The kernel is  *)
(* PriceBook's.                                                            *)
(***************************************************************************)
EXTENDS PriceBook

CONSTANTS DeskFiles,    \* sequence of the ready files, in the order they are read
          DeskCards,    \* name -> the published rate cards
          NoRateCard,
          Readings,     \* <<file, card>> -> what the mapper may answer: [ents, clean]
          Tabs,         \* bound: requests in flight at once
          Corrections,  \* the scope values a rep types
          Extras,       \* the line items a reviewer may enter: [kind, cents, bps]
          Tuning,       \* [cold, rules, linear, ladder, modifier, lifetime]
          MaxClosed,    \* bound: deals the tenant has closed
          DeskWorlds    \* [tabs, faults, client, clicks]: who is at work, and for how many
                        \* requests (a bound)

ASSUME DeskAssumption == DeskFiles \in Seq(Range(DeskFiles)) /\ IsFiniteSet(Tabs)

VARIABLES inferred,  \* each file: [ents, card]: the entities and the card their hash covers
          card,      \* engagements.rate_card_id
          quote,     \* engagement_quotes.base_total_cents, NoQuote before the first
          pin,       \* closed_engagement_count_snapshot
          preds,     \* the predictions, oldest first: [base, closed, price]
          extras,    \* the extra line items
          closed,    \* how many deals the tenant has closed
          todo,      \* each tab: [steps, job, got, fresh]
          page,      \* what the opportunity page shows
          clicks, dWorld
deskVars == <<inferred, card, quote, pin, preds, extras, closed, todo, page, clicks, dWorld>>

NoQuote == -1
NoPin   == -1
NoPred  == [base |-> NoQuote, closed |-> 0, price |-> 0]
Rest    == [steps |-> <<>>, job |-> [kind |-> "none"], got |-> NoQuote, fresh |-> <<>>]

DeskInit == /\ inferred = [f \in Range(DeskFiles) |-> [ents |-> <<>>, card |-> NoRateCard]]
            /\ card = NoRateCard /\ quote = NoQuote /\ pin = NoPin
            /\ preds = <<>> /\ extras = <<>> /\ closed = 0
            /\ todo = [t \in Tabs |-> Rest]
            /\ page = [base |-> NoQuote, pred |-> NoPred, sum |-> NoQuote, stale |-> FALSE,
                       owner |-> << >>]
            /\ clicks = 0
            /\ dWorld \in DeskWorlds

-----------------------------------------------------------------------------
(* Steps of a request.                                                     *)
Step(do) == [do |-> do]
StepOn(do, f) == [do |-> do, file |-> f]
ComputeSteps == <<Step("scope"), Step("quote")>>
PredictSteps == ComputeSteps \o <<Step("count"), Step("pin"), Step("price")>>
InferSteps(f) == <<StepOn("infer", f), StepOn("merge", f)>>
\* InferSteps of the first file, then of the second, and so on
InferAll == [i \in 1 .. 2 * Len(DeskFiles) |->
               StepOn(IF i % 2 = 1 THEN "infer" ELSE "merge", DeskFiles[(i + 1) \div 2])]

OverrideSteps(f) == <<StepOn("open", f), StepOn("save", f)>> \o ComputeSteps
RerunInference_NoQuote(f) == InferSteps(f)
RerunInference(f) == InferSteps(f) \o ComputeSteps
AttachSteps == <<Step("bind"), Step("context")>> \o InferAll \o ComputeSteps \o PredictSteps
PredictAgain == ComputeSteps \o PredictSteps

Busy == {t \in Tabs : todo[t].job.kind # "none"}

(* A click starts a request; a rep at one tab waits for its answer.        *)
Start(t, job, steps) ==
  /\ clicks < dWorld.clicks /\ t \notin Busy /\ Cardinality(Busy) < dWorld.tabs
  /\ todo' = [todo EXCEPT ![t] = [Rest EXCEPT !.steps = steps, !.job = job]]
  /\ clicks' = clicks + 1
  /\ UNCHANGED <<inferred, card, quote, pin, preds, extras, closed, page, dWorld>>

(* The scope table: a row is a line of the quote; the file it edits is the *)
(* first that held the slug when the page mounted.                         *)
Scope == FlattenSeq([i \in DOMAIN DeskFiles |-> inferred[DeskFiles[i]].ents])

SaveScope(t) ==
  \E i \in DOMAIN Scope, n \in Corrections :
     /\ Scope[i].slug \in DOMAIN page.owner
     /\ page.base # NoQuote /\ n # Scope[i].n
     /\ Start(t, [kind |-> "override", slug |-> Scope[i].slug, app |-> Scope[i].app, n |-> n],
              OverrideSteps(page.owner[Scope[i].slug]))

RerunMapping(t) ==
  \E f \in Range(DeskFiles), force \in BOOLEAN :
     /\ card # NoRateCard
     /\ Start(t, [kind |-> "remap", card |-> card, force |-> force], RerunInference(f))

AttachRateCard(t) ==
  \E c \in DOMAIN DeskCards :
     /\ card = NoRateCard
     /\ Start(t, [kind |-> "attach", card |-> c, force |-> FALSE], AttachSteps)

RunPredict(t) == Start(t, [kind |-> "predict"], PredictAgain)

-----------------------------------------------------------------------------
(* What the steps do.  Next is the rest of the request; a step that throws *)
(* ends a best-effort part or the whole of it.                             *)
Doing(t, do) == todo[t].steps # <<>> /\ Head(todo[t].steps).do = do
FileOf(t) == Head(todo[t].steps).file
Then(t) == todo' = [todo EXCEPT ![t].steps = Tail(@)]
Keep(t, got) == todo' = [todo EXCEPT ![t].steps = Tail(@), ![t].got = got]
Pass(t, n) == todo' = [todo EXCEPT ![t].steps = SubSeq(@, n + 1, Len(@))]
Throw(t) == todo' = [todo EXCEPT ![t].steps = <<>>, ![t].job.kind = IF @ = "attach" THEN @ ELSE "failed"]

FirstOf(ents, slug) == Min({i \in DOMAIN ents : ents[i].slug = slug})
Manual(ents) == SelectSeq(ents, LAMBDA e : e.manual)
HasSlug(ents, slug) == \E i \in DOMAIN ents : ents[i].slug = slug

(* What the rep corrected stays; the mapper speaks for the other slugs.    *)
Overlay_Fresh(prior, fresh) == fresh
Overlay(prior, fresh) ==
  LET kept == Manual(prior) IN kept \o SelectSeq(fresh, LAMBDA e : ~HasSlug(kept, e.slug))

(* runAndCacheInference: nothing to do when the hash still covers what the *)
(* file holds; else the mapper answers, and the file as it is by then is   *)
(* read for what the rep corrected.                                        *)
Infer(t) ==
  /\ Doing(t, "infer")
  /\ LET f == FileOf(t)
         c == todo[t].job.card
     IN  IF inferred[f].card = c /\ inferred[f].ents # <<>> /\ ~todo[t].job.force
         THEN Pass(t, 2)
         ELSE \E r \in Readings[f, c] :
                todo' = [todo EXCEPT
                  ![t].steps = Tail(@),
                  ![t].fresh = [ents |-> Overlay(inferred[f].ents, r.ents),
                                card |-> IF r.clean THEN c ELSE NoRateCard]]
  /\ UNCHANGED <<inferred, card, quote, pin, preds, extras, closed, page, clicks, dWorld>>

Merge(t) ==
  /\ Doing(t, "merge")
  /\ inferred' = [inferred EXCEPT ![FileOf(t)] = todo[t].fresh]
  /\ Then(t)
  /\ UNCHANGED <<card, quote, pin, preds, extras, closed, page, clicks, dWorld>>

(* overrideInferredEntity reads the entities, then writes them back with   *)
(* the first of that slug corrected.                                       *)
Open(t) ==
  /\ Doing(t, "open")
  /\ LET f == FileOf(t)
     IN  IF HasSlug(inferred[f].ents, todo[t].job.slug)
         THEN todo' = [todo EXCEPT ![t].steps = Tail(@), ![t].fresh = inferred[f].ents]
         ELSE Throw(t)
  /\ UNCHANGED <<inferred, card, quote, pin, preds, extras, closed, page, clicks, dWorld>>

Corrected(ents, job) ==
  [ents EXCEPT ![FirstOf(ents, job.slug)].n = job.n, ![FirstOf(ents, job.slug)].manual = TRUE]

Save(t) ==
  /\ Doing(t, "save")
  /\ inferred' = [inferred EXCEPT ![FileOf(t)].ents = Corrected(todo[t].fresh, todo[t].job)]
  /\ Then(t)
  /\ UNCHANGED <<card, quote, pin, preds, extras, closed, page, clicks, dWorld>>

Bind(t) ==
  /\ Doing(t, "bind")
  /\ card' = todo[t].job.card
  /\ Then(t)
  /\ UNCHANGED <<inferred, quote, pin, preds, extras, closed, page, clicks, dWorld>>

\* rerunInferenceForEngagement maps onto the card that is bound when it starts.
Context(t) ==
  /\ Doing(t, "context")
  /\ todo' = [todo EXCEPT ![t].steps = Tail(@), ![t].job.card = card]
  /\ UNCHANGED <<inferred, card, quote, pin, preds, extras, closed, page, clicks, dWorld>>

(* computeAndPersistForEngagement: the form has no answers here and no     *)
(* site was crawled, so the scope is what the files hold.                  *)
AsMention(e) == [slug |-> e.slug, n |-> e.n, method |-> WildMethod, who |-> "external",
                 conf |-> IF e.manual THEN 10 ELSE e.conf]
BaseOf(scope, c) ==
  LET mentions == [i \in DOMAIN scope |-> AsMention(scope[i])]
  IN  BasePrice(c, MergeScope(<<>>, ToScopedEntities(mentions, c), <<>>)).total

Compute(t) ==
  /\ Doing(t, "scope")
  /\ IF card = NoRateCard
     THEN todo' = [todo EXCEPT ![t].steps = SubSeq(@, 3, Len(@)), ![t].got = NoQuote]
     ELSE Keep(t, BaseOf(Scope, DeskCards[card]))
  /\ UNCHANGED <<inferred, card, quote, pin, preds, extras, closed, page, clicks, dWorld>>

(* The best-effort computes may also fail.                                 *)
ComputeFails(t) ==
  /\ dWorld.faults /\ Doing(t, "scope")
  /\ todo' = [todo EXCEPT ![t].steps = SubSeq(@, 3, Len(@)), ![t].got = NoQuote]
  /\ UNCHANGED <<inferred, card, quote, pin, preds, extras, closed, page, clicks, dWorld>>

Persist(t) ==
  /\ Doing(t, "quote")
  /\ quote' = todo[t].got
  /\ Then(t)
  /\ UNCHANGED <<inferred, card, pin, preds, extras, closed, page, clicks, dWorld>>

PinnedCount_Now == closed
PinnedCount == IF pin = NoPin THEN closed ELSE pin

(* predictForEngagement: without a quote it throws; the closed deals are   *)
(* counted and pinned, the price is composed and a row appended.           *)
CountClosed(t) ==
  /\ Doing(t, "count")
  /\ IF todo[t].got = NoQuote THEN Throw(t)
     ELSE todo' = [todo EXCEPT ![t].steps = Tail(@),
                     ![t].fresh = [seen |-> pin, closed |-> PinnedCount]]
  /\ UNCHANGED <<inferred, card, quote, pin, preds, extras, closed, page, clicks, dWorld>>

PinSnapshot(t) ==
  /\ Doing(t, "pin")
  /\ pin' = IF todo[t].fresh.seen = NoPin THEN todo[t].fresh.closed ELSE pin
  /\ Then(t)
  /\ UNCHANGED <<inferred, card, quote, preds, extras, closed, page, clicks, dWorld>>

PriceOf(base, n) ==
  Compose(base, EffectiveRegime(SelectRegime(n, Tuning)),
          Tuning.ladder, Tuning.modifier, Tuning.lifetime).price

Predict(t) ==
  /\ Doing(t, "price")
  /\ LET n == todo[t].fresh.closed
     IN  preds' = Append(preds, [base |-> todo[t].got, closed |-> n,
                                 price |-> PriceOf(todo[t].got, n)])
  /\ Then(t)
  /\ UNCHANGED <<inferred, card, quote, pin, extras, closed, page, clicks, dWorld>>

Latest == IF preds = <<>> THEN NoPred ELSE Last(preds)

-----------------------------------------------------------------------------
(* The answer reaches the page, which reads again what it thinks changed.  *)
Shown == [page EXCEPT !.base = quote, !.pred = Latest]

Answer(t) ==
  /\ todo[t].job.kind # "none" /\ todo[t].steps = <<>>
  /\ page' = CASE todo[t].job.kind = "override" -> [Shown EXCEPT !.sum = quote, !.stale = TRUE]
               [] todo[t].job.kind = "predict"  -> [Shown EXCEPT !.stale = FALSE]
               [] todo[t].job.kind = "attach"   -> Shown
               [] OTHER -> page        \* the documents panel reads its files only
  /\ todo' = [todo EXCEPT ![t] = Rest]
  /\ UNCHANGED <<inferred, card, quote, pin, preds, extras, closed, clicks, dWorld>>

Owners == [s \in {Scope[i].slug : i \in DOMAIN Scope} |->
             DeskFiles[Min({i \in DOMAIN DeskFiles : HasSlug(inferred[DeskFiles[i]].ents, s)})]]

(* The page is opened: the table learns which file owns which slug.        *)
Load ==
  /\ Busy = {}
  /\ page' = [base |-> quote, pred |-> Latest, sum |-> quote, stale |-> FALSE, owner |-> Owners]
  /\ UNCHANGED <<inferred, card, quote, pin, preds, extras, closed, todo, clicks, dWorld>>

-----------------------------------------------------------------------------
(* The extra line items.  A percentage is taken of the base as it is when  *)
(* it is read; create() and update() force the sign of an amount.          *)
Effective(item, base) == IF item.bps # 0 THEN -Round(base * item.bps, 10000) ELSE item.cents
Signed(kind, cents) == IF (kind = "discount") = (cents > 0) THEN -cents ELSE cents

RefreshExtras == page' = [Shown EXCEPT !.sum = quote]

CreateLineItem ==
  /\ quote # NoQuote /\ clicks < dWorld.clicks /\ Len(extras) < 1
  /\ \E x \in Extras :
        /\ x.bps # 0 => x.kind = "discount"
        /\ extras' = Append(extras, [x EXCEPT !.cents =
             IF x.bps # 0 THEN Effective(x, quote) ELSE Signed(x.kind, @)])
  /\ clicks' = clicks + 1
  /\ RefreshExtras
  /\ UNCHANGED <<inferred, card, quote, pin, preds, closed, todo, dWorld>>

(* The page has no button for update; an API client may change the kind,   *)
(* the amount or the percentage.                                           *)
UpdateLineItem ==
  /\ dWorld.client /\ clicks < dWorld.clicks
  /\ \E i \in DOMAIN extras, x \in Extras, withBps \in BOOLEAN :
        extras' = [extras EXCEPT ![i] =
          [kind |-> x.kind,
           cents |-> Signed(x.kind, IF withBps THEN Effective(x, quote) ELSE x.cents),
           bps |-> IF withBps THEN x.bps ELSE @.bps]]
  /\ clicks' = clicks + 1
  /\ UNCHANGED <<inferred, card, quote, pin, preds, closed, todo, page, dWorld>>

RemoveLineItem ==
  /\ \E i \in DOMAIN extras : extras' = RemoveAt(extras, i)
  /\ RefreshExtras
  /\ UNCHANGED <<inferred, card, quote, pin, preds, closed, todo, clicks, dWorld>>

GrandTotal(base) == Max({0, base + MapThenSumSet(LAMBDA i : Effective(extras[i], base), DOMAIN extras)})

(* Other deals of the tenant close.                                        *)
DealCloses ==
  /\ closed < MaxClosed
  /\ closed' = closed + 1
  /\ UNCHANGED <<inferred, card, quote, pin, preds, extras, todo, page, clicks, dWorld>>

Click(t) == SaveScope(t) \/ RerunMapping(t) \/ AttachRateCard(t) \/ RunPredict(t)
Run(t) == \/ Infer(t) \/ Merge(t) \/ Open(t) \/ Save(t) \/ Bind(t) \/ Context(t) \/ Compute(t) \/ ComputeFails(t)
          \/ Persist(t) \/ CountClosed(t) \/ PinSnapshot(t) \/ Predict(t) \/ Answer(t)

DeskNext == \/ \E t \in Tabs : Click(t) \/ Run(t)
            \/ Load \/ CreateLineItem \/ UpdateLineItem \/ RemoveLineItem \/ DealCloses
QuoteDeskSpec == DeskInit /\ [][DeskNext]_deskVars

-----------------------------------------------------------------------------
DeskTypeOK ==
  /\ card \in DOMAIN DeskCards \cup {NoRateCard} /\ quote >= NoQuote /\ pin \in NoPin .. MaxClosed
  /\ \A f \in Range(DeskFiles) : \A i \in DOMAIN inferred[f].ents : inferred[f].ents[i].n > 0
  /\ page.stale \in BOOLEAN /\ clicks <= dWorld.clicks

Calm == dWorld.tabs = 1 /\ ~dWorld.faults

(* When requests do not overlap and no compute fails, the quote is the     *)
(* price of the scope the files hold on the card that is bound, whichever  *)
(* request changed either last (rerunInference, attachRateCard,            *)
(* overrideInferredEntity).                                                *)
QuoteFollowsScope ==
  (Calm /\ Busy = {} /\ card # NoRateCard) => quote = BaseOf(Scope, DeskCards[card])

(* A rep's correction outlives every later inference of the file, forced   *)
(* or not, on this card or another ("Re-extraction shouldn't wipe a rep's  *)
(* correction", runAndCacheInference), when requests do not overlap.       *)
CorrectionsSurvive ==
  [][Calm => \A f \in Range(DeskFiles) :
       \A i \in DOMAIN Manual(inferred[f].ents) :
          LET e == Manual(inferred[f].ents)[i]
          IN  \E j \in DOMAIN Manual(inferred'[f].ents) :
                 LET d == Manual(inferred'[f].ents)[j] IN d.slug = e.slug /\ d.app = e.app]_deskVars

(* "Pin the snapshot exactly once so future re-predicts are stable"        *)
(* (predictForEngagement): however many deals close in between, all        *)
(* predictions of a deal stand on one count, if they do not overlap.       *)
OneRegimePerDeal ==
  dWorld.tabs = 1 => \A i, j \in DOMAIN preds : preds[i].closed = preds[j].closed

(* What the reviewer enters as a discount lowers the price at every base   *)
(* and nothing else does (create, effectiveLineItemCents); update() by an  *)
(* API client is not held to it.                                           *)
DiscountsLower ==
  ~dWorld.client => \A i \in DOMAIN extras, b \in {quote, page.base} \ {NoQuote} :
     IF extras[i].kind = "discount" THEN Effective(extras[i], b) <= 0
     ELSE Effective(extras[i], b) >= 0

(* "Manually override one inferred-entity's pricing inputs": the entity    *)
(* that is corrected is the one of the row the rep typed into              *)
(* (overrideInferredEntity, scope-pricing-table).                          *)
OverrideEditsTheRow ==
  [][\A t \in Tabs :
       (Doing(t, "save") /\ Len(todo'[t].steps) < Len(todo[t].steps)) =>
          \E i \in DOMAIN inferred'[FileOf(t)].ents :
             LET e == inferred'[FileOf(t)].ents[i]
             IN  /\ e.slug = todo[t].job.slug /\ e.app = todo[t].job.app
                 /\ e.n = todo[t].job.n /\ e.manual]_deskVars

(* "Scope/methodology edits re-price the base but NOT the ML prediction -  *)
(* prompt an explicit re-predict": a page whose prediction stands on       *)
(* another base than the quote beside it shows the banner.                 *)
StalePriceIsFlagged ==
  (page.pred # NoPred /\ page.base # page.pred.base) => page.stale

=============================================================================
