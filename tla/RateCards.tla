------------------------------ MODULE RateCards -----------------------------
(***************************************************************************)
(* How a rate card comes to be and goes: the upload modal with its two     *)
(* parsers (rate-card.parser.ts reads the layout it knows, an LLM reads    *)
(* any other), the drafts they save, the hints an LLM writes for a card,   *)
(* the samples, and the pages that publish, archive and delete a card.     *)
(*                                                                         *)
(* A transaction is one step; between two of them, and while an LLM or the *)
(* browser waits, everybody else goes on.  Names, labels and prices are    *)
(* members of small sets; a row of a sheet is what the parser tells apart. *)
(***************************************************************************)
EXTENDS PriceBook

CONSTANTS CardTabs, Details, \* list pages, and pages of one card
          CardScenes, \* who acts, what is uploaded, which provider there is
          Top,        \* rangeMax null, and 1 more than any scope
          Bad,        \* what is not a number in an LLM's reply
          Fixtures    \* sample -> [name, lines, open]

VARIABLES cScene, clicksLeft,
          cards,   \* id -> [name, status, lines, open, context, hints]
          born,    \* ids given so far; 0 is no card
          uses,    \* template and deal -> the card they point at
          modals, details, lists, \* a tab has the list and the modal over it
          regen    \* a regenerate-hints request of an API client
cardPages == <<modals, details, lists, regen>>
cardVars == <<cScene, clicksLeft, cards, born, uses, cardPages>>

-----------------------------------------------------------------------------
(* The structural parser.  in tells whether a row belongs to a service     *)
(* line, to the open-priced section or to neither.                         *)
NothingRead == [in |-> "none", lines |-> <<>>, method |-> WildMethod, open |-> <<>>, warned |-> FALSE]
Devices(s) == s.lines[Len(s.lines)].unit = "devices"

TierRow(row, lo, hi, m, who) ==
  [lo |-> lo, hi |-> hi, method |-> m, who |-> who, price |-> row.prices[who], from |-> row.name]
TakeTiers(s, row, lo, hi, m) ==
  [s EXCEPT !.lines[Len(s.lines)].tiers =
     @ \o LET priced == SelectSeq(<<"internal", "external">>, LAMBDA who : who \in DOMAIN row.prices)
          IN  [i \in DOMAIN priced |-> TierRow(row, lo, hi, m, priced[i])]]

OpenLine(s, row) ==
  [s EXCEPT !.in = "line", !.method = row.method, !.warned = @ \/ row.unit = "other",
            !.lines = Append(@, [slug |-> row.name, unit |-> row.unit, tiers |-> <<>>])]
ReadSheetRow(s, row) ==
  IF row.kind = "open" THEN [s EXCEPT !.in = "open"]
  ELSE IF row.kind = "line" THEN OpenLine(s, row)
  ELSE IF s.in = "open" THEN IF row.name = "" THEN s ELSE [s EXCEPT !.open = Append(@, row.name)]
  ELSE IF s.in = "none" THEN [s EXCEPT !.warned = TRUE]
  ELSE IF row.kind = "head" THEN [s EXCEPT !.method = row.method]
  ELSE IF row.kind = "range" /\ DOMAIN row.prices # {} THEN TakeTiers(s, row, row.lo, row.hi, s.method)
  ELSE IF Devices(s) /\ DOMAIN row.prices # {}
       THEN TakeTiers(s, row, 1, Top, IF row.method = WildMethod THEN s.method ELSE row.method)
  ELSE IF row.kind = "range" THEN [s EXCEPT !.warned = TRUE]
  ELSE s

(* A line of devices becomes one line per label; each counts from 1 up.    *)
SplitDevices(line) ==
  IF line.unit # "devices" \/ line.tiers = <<>> THEN {[slug |-> line.slug, tiers |-> line.tiers]}
  ELSE {[slug  |-> label,
         tiers |-> LET own == SelectSeq(line.tiers, LAMBDA t : t.from = label)
                   IN  [i \in DOMAIN own |-> [own[i] EXCEPT !.lo = 1, !.hi = Top]]] :
          label \in {line.tiers[i].from : i \in DOMAIN line.tiers}}

Draft(name, lines, open, warned) ==
  [ok |-> TRUE, name |-> name, lines |-> lines, open |-> open, warned |-> warned]
NoDraft == [ok |-> FALSE]
Indexed(parts) == UNION {{<<i, l>> : l \in parts[i]} : i \in DOMAIN parts}
ParseCsaas(rows, name) ==
  LET read == FoldLeft(ReadSheetRow, NothingRead, rows)
  IN  Draft(IF name = "" THEN "Imported Rate Card" ELSE name,
            Indexed([i \in DOMAIN read.lines |-> SplitDevices(read.lines[i])]),
            read.open, read.warned)

-----------------------------------------------------------------------------
(* The LLM's reply, coerced: a tier without a number, a customer or a      *)
(* price is dropped, and a line with no tier left; an upper bound that is  *)
(* no number becomes none.                                                 *)
KeepsTier(t) == t.lo # Bad /\ t.who \in {"internal", "external"} /\ t.price >= 0
CoerceTiers(ts) ==
  LET kept == SelectSeq(ts, KeepsTier)
  IN  [i \in DOMAIN kept |-> [kept[i] EXCEPT !.hi = IF @ = Bad THEN Top ELSE @]]
CoerceLine(line) == IF CoerceTiers(line.tiers) = <<>> THEN {}
                    ELSE {[slug |-> line.slug, tiers |-> CoerceTiers(line.tiers)]}
ParseReply(reply, hint) ==
  LET lines == Indexed([i \in DOMAIN reply.lines |-> CoerceLine(reply.lines[i])])
      name == IF reply.name # "" THEN reply.name ELSE IF hint # "" THEN hint ELSE "Imported rate card"
      all == UNION {{reply.lines[i].tiers[k] : k \in DOMAIN reply.lines[i].tiers} : i \in DOMAIN reply.lines}
  IN  IF ~reply.json \/ (lines = {} /\ reply.open = <<>>) THEN NoDraft
      ELSE Draft(name, lines, reply.open,
                 Cardinality(lines) < Len(reply.lines) \/ \E t \in all : ~KeepsTier(t))

-----------------------------------------------------------------------------
(* create: one transaction.  A name has one version only and a slug one    *)
(* row: the unique indexes refuse a second and nothing is kept.            *)
NameTaken(name) == \E c \in DOMAIN cards : cards[c].name = name
SlugTwice(d) == \/ \E p, q \in d.lines : p # q /\ p[2].slug = q[2].slug
                \/ \E i, j \in DOMAIN d.open : i # j /\ d.open[i] = d.open[j]
Storable(d) == d.ok /\ ~NameTaken(d.name) /\ ~SlugTwice(d)

CardOf(d, status) ==
  [name |-> d.name, status |-> status, context |-> FALSE, hints |-> {},
   lines |-> [s \in {p[2].slug : p \in d.lines} |->
                [tiers |-> (CHOOSE p \in d.lines : p[2].slug = s)[2].tiers]],
   open |-> {d.open[i] : i \in DOMAIN d.open}]
PutAt(f, x, v) == [y \in DOMAIN f \cup {x} |-> IF y = x THEN v ELSE f[y]]
Store(card) == born' = born + 1 /\ cards' = PutAt(cards, born + 1, card)

(* A card as it is stored, and what holds of those a tenant starts with.   *)
(* The samples are shipped with the code.                                  *)
CardFields == {"name", "status", "context", "hints", "lines", "open"}
CardsInOrder(cs) ==
  /\ \A n \in DOMAIN cs : cs[n] = [f \in CardFields |-> cs[n][f]]
  /\ \A c, d \in DOMAIN cs : cs[c].name = cs[d].name => c = d
  /\ \A n \in DOMAIN cs : cs[n].status = "published" => Publishable(cs[n])
ASSUME RateCardsAssumption ==
  /\ \A s \in DOMAIN Fixtures : Publishable(CardOf(Fixtures[s], "published"))
  /\ \A s \in CardScenes : /\ DOMAIN s.cards = 1 .. Cardinality(DOMAIN s.cards)
                           /\ IsFiniteSet(DOMAIN s.cards)
                           /\ CardsInOrder(s.cards)

(* The mistake the next definition avoids: the card committed before its   *)
(* lines.                                                                  *)
CreateCard_Piecewise(d, status) ==
  IF Storable(d) THEN Store(CardOf(d, status))
  ELSE IF d.ok /\ ~NameTaken(d.name) THEN Store(CardOf([d EXCEPT !.lines = {}, !.open = <<>>], status))
  ELSE UNCHANGED <<cards, born>>
CreateCard(d, status) == IF Storable(d) THEN Store(CardOf(d, status)) ELSE UNCHANGED <<cards, born>>

-----------------------------------------------------------------------------
NoCardCall == [at |-> "none"]
Call(op, n, name) == [op |-> op, at |-> "sent", card |-> n, name |-> name, warned |-> FALSE]
On(c, at) == [c EXCEPT !.at = at]
CardsClick == clicksLeft > 0 /\ clicksLeft' = clicksLeft - 1
CardsGoOn == UNCHANGED <<cScene, clicksLeft>>
Live(n) == n \in DOMAIN cards

RateCardsInit ==
  /\ cScene \in CardScenes /\ clicksLeft = cScene.clicks
  /\ born = Cardinality(DOMAIN cScene.cards) /\ cards = cScene.cards
  /\ uses = [u \in {"template", "deal"} |-> 0]
  /\ modals = [t \in CardTabs |-> [call |-> NoCardCall, warned |-> FALSE, manual |-> FALSE, saved |-> 0,
                                 at |-> "closed"]]
  /\ details = [d \in Details |-> [card |-> 1, shown |-> IF d \in cScene.who THEN "draft" ELSE "none",
                                   call |-> NoCardCall]]
  /\ lists = [t \in CardTabs |-> [items |-> DOMAIN cards, reading |-> FALSE,
                               pending |-> NoCardCall, call |-> NoCardCall]]
  /\ regen = NoCardCall

-----------------------------------------------------------------------------
(* Hints, after an upload of the structural parser or when asked for: the  *)
(* card is read, the LLM asked, and what it answers written if the card is *)
(* still there.  A line it leaves out keeps the hint it had.               *)
HintsRead(c) == IF ~Live(c.card) THEN On(c, "refused")
                ELSE IF cScene.provider # "auto" \/ DOMAIN cards[c.card].lines = {} THEN On(c, "saved")
                ELSE On(c, "asking hints")

(* The answer has a context or not and covers S of the lines.              *)
HintsWritten(n, context, S) ==
  [cards EXCEPT ![n].context = context, ![n].hints = @ \cup S]

(* What may become of a call and of the cards: the LLM fails or says       *)
(* nothing of use, or its answer is written, if the card is still there.   *)
HintsOutcomes(c) ==
  {<<On(c, "saved"), cards>>}
  \cup IF ~Live(c.card) THEN {<<On(c, "refused"), cards>>}
       ELSE {<<On(c, "saved"), HintsWritten(c.card, covers[1], covers[2])>> :
               covers \in (BOOLEAN \X SUBSET DOMAIN cards[c.card].lines) \ {<<FALSE, {}>>}}

RegenerateHints ==
  /\ regen = NoCardCall /\ "api" \in cScene.who /\ CardsClick
  /\ \E n \in DOMAIN cards : regen' = On(Call("hints", n, ""), "saving")
  /\ UNCHANGED <<cScene, cards, born, uses, modals, details, lists>>
RegenerateReads ==
  /\ regen.at = "saving" /\ regen' = HintsRead(regen)
  /\ CardsGoOn /\ UNCHANGED <<cards, born, uses, modals, details, lists>>
RegenerateWrites ==
  /\ regen.at = "asking hints" /\ \E out \in HintsOutcomes(regen) : regen' = out[1] /\ cards' = out[2]
  /\ CardsGoOn /\ UNCHANGED <<born, uses, modals, details, lists>>
RegenerateEnds ==
  /\ regen.at \in {"saved", "refused"} /\ regen' = NoCardCall
  /\ CardsGoOn /\ UNCHANGED <<cards, born, uses, modals, details, lists>>

-----------------------------------------------------------------------------
(* The upload modal.  Its buttons wait for the call; a click beside it     *)
(* closes it whatever is under way.                                        *)
ModalCalls(m, c) == modals' = [modals EXCEPT ![m].call = c]
OthersOfModal == UNCHANGED <<uses, details, lists, regen>>
OnList(t) == t \in cScene.who /\ modals[t].at = "closed"

(* It opens empty; nobody opens it again before the last upload is done.   *)
OpenModal(m) ==
  /\ OnList(m) /\ modals[m].call = NoCardCall /\ lists[m].pending = NoCardCall /\ CardsClick
  /\ modals' = [modals EXCEPT ![m] = [call |-> NoCardCall, warned |-> FALSE, manual |-> FALSE, saved |-> 0, at |-> "open"]]
  /\ UNCHANGED <<cScene, cards, born>> /\ OthersOfModal
PressUpload(m) ==
  /\ modals[m].at = "open" /\ modals[m].call = NoCardCall /\ ~modals[m].manual /\ CardsClick
  /\ \E op \in {"parse", "ai"}, name \in cScene.names :
       modals' = [modals EXCEPT ![m].call = Call(op, 0, name), ![m].warned = FALSE]
  /\ UNCHANGED <<cScene, cards, born>> /\ OthersOfModal
PressPaste(m) ==
  /\ modals[m].at = "open" /\ modals[m].call = NoCardCall /\ modals[m].manual /\ CardsClick
  /\ \E name \in cScene.names : ModalCalls(m, Call("paste", 0, name))
  /\ UNCHANGED <<cScene, cards, born>> /\ OthersOfModal
CancelManual(m) ==
  /\ modals[m].at = "open" /\ modals[m].call = NoCardCall /\ modals[m].manual /\ CardsClick
  /\ modals' = [modals EXCEPT ![m].manual = FALSE]
  /\ UNCHANGED <<cScene, cards, born>> /\ OthersOfModal
CloseModal(m) ==
  /\ modals[m].at = "open" /\ CardsClick
  /\ modals' = [modals EXCEPT ![m].at = "closed"] /\ lists' = [lists EXCEPT ![m].reading = TRUE]
  /\ UNCHANGED <<cScene, cards, born, uses, details, regen>>

(* What a request makes of a draft: a saved card, or an error.             *)
SaveDraft(m, d, after) ==
  /\ CreateCard(d, "draft")
  /\ ModalCalls(m, [modals[m].call EXCEPT !.at = IF Storable(d) THEN after ELSE "refused",
                                          !.card = IF born' > born THEN born' ELSE 0,
                                          !.warned = d.ok /\ d.warned])
ServeUpload(m) ==
  /\ modals[m].call.at = "sent"
  /\ LET c == modals[m].call
     IN  CASE c.op = "parse" -> SaveDraft(m, ParseCsaas(cScene.rows, c.name), "saving")
           [] c.op = "paste" -> \E r \in cScene.replies : SaveDraft(m, ParseReply(r, c.name), "saved")
           [] OTHER -> /\ ModalCalls(m, On(c, CASE cScene.provider = "auto"   -> "asking reply"
                                                [] cScene.provider = "manual" -> "prompt"
                                                [] OTHER                      -> "refused"))
                       /\ UNCHANGED <<cards, born>>
  /\ CardsGoOn /\ OthersOfModal
ReplyComes(m) ==
  /\ modals[m].call.at = "asking reply"
  /\ \/ \E r \in cScene.replies : SaveDraft(m, ParseReply(r, modals[m].call.name), "saved")
     \/ ModalCalls(m, On(modals[m].call, "refused")) /\ UNCHANGED <<cards, born>>
  /\ CardsGoOn /\ OthersOfModal
UploadHintsRead(m) ==
  /\ modals[m].call.at = "saving" /\ ModalCalls(m, HintsRead(modals[m].call))
  /\ CardsGoOn /\ UNCHANGED <<cards, born>> /\ OthersOfModal
UploadHintsWritten(m) ==
  /\ modals[m].call.at = "asking hints"
  /\ \E out \in HintsOutcomes(modals[m].call) : ModalCalls(m, out[1]) /\ cards' = out[2]
  /\ CardsGoOn /\ UNCHANGED born /\ OthersOfModal

(* The answer: the draft's page, unless there are warnings to be read.     *)
(* The pasted reply's panel closes on warnings only.                       *)
UploadAnswered(m) ==
  /\ modals[m].call.at \in {"saved", "refused", "prompt"}
  /\ LET c == modals[m].call
         stays == c.warned
     IN  modals' = [modals EXCEPT
           ![m].call = NoCardCall,
           ![m].manual = (@ /\ ~(c.at = "saved" /\ stays)) \/ c.at = "prompt",
           ![m].warned = c.at = "saved" /\ stays,
           ![m].saved = IF c.at = "saved" THEN c.card ELSE @,
           ![m].at = IF c.at = "saved" /\ ~stays THEN "draft page" ELSE @]
  /\ CardsGoOn /\ UNCHANGED <<cards, born>> /\ OthersOfModal
OpenAnyway(m) ==
  /\ modals[m].at = "open" /\ modals[m].warned /\ modals[m].call = NoCardCall
  /\ modals' = [modals EXCEPT ![m].at = "draft page"]
  /\ CardsGoOn /\ UNCHANGED <<cards, born>> /\ OthersOfModal

-----------------------------------------------------------------------------
(* A card's own page acts on the status it shows.                          *)
PressOnCard(d) ==
  /\ details[d].call = NoCardCall /\ details[d].shown \in {"draft", "published"} /\ CardsClick
  /\ details' = [details EXCEPT ![d].call =
       Call(IF details[d].shown = "draft" THEN "publish" ELSE "archive", details[d].card, "")]
  /\ UNCHANGED <<cScene, cards, born, uses, modals, lists, regen>>

AnyTiers == \E n \in DOMAIN cards : \E s \in Slugs(cards[n]) : cards[n].lines[s].tiers # <<>>
(* publish takes any other status, archived too, and counts the tiers of   *)
(* all cards.                                                              *)
MayPublish_Unchecked(n) == AnyTiers
MayPublish(n) == AnyTiers /\ Publishable(cards[n])
MayServe(c) == /\ Live(c.card)
               /\ c.op = "publish" => cards[c.card].status = "published" \/ MayPublish(c.card)
ServeCard(d) ==
  /\ details[d].call.at = "sent"
  /\ LET c == details[d].call
         status == IF c.op = "publish" THEN "published" ELSE "archived"
     IN  IF MayServe(c) THEN /\ cards' = [cards EXCEPT ![c.card].status = status]
                             /\ details' = [details EXCEPT ![d].call.at = status]
         ELSE details' = [details EXCEPT ![d].call.at = "refused"] /\ UNCHANGED cards
  /\ CardsGoOn /\ UNCHANGED <<born, uses, modals, lists, regen>>
CardAnswered(d) ==
  /\ details[d].call.at \in {"published", "archived", "refused"}
  /\ details' = [details EXCEPT ![d].call = NoCardCall,
                                ![d].shown = IF details[d].call.at = "refused" THEN @ ELSE details[d].call.at]
  /\ CardsGoOn /\ UNCHANGED <<cards, born, uses, modals, lists, regen>>

-----------------------------------------------------------------------------
(* The list: the samples, and deletion after a look at how many templates  *)
(* point at the card.                                                      *)
OthersOfList == UNCHANGED <<modals, details, regen>>
ListCalls(l, c) == lists' = [lists EXCEPT ![l].call = c]
Refreshing(l) == [lists EXCEPT ![l].reading = TRUE, ![l].call = NoCardCall]

ReadList(l) ==
  /\ lists[l].reading
  /\ lists' = [lists EXCEPT ![l].reading = FALSE, ![l].items = DOMAIN cards]
  /\ CardsGoOn /\ UNCHANGED <<cards, born, uses>> /\ OthersOfList
PressSample(l) ==
  /\ lists[l].call = NoCardCall /\ OnList(l) /\ CardsClick
  /\ \E sample \in DOMAIN Fixtures :
       /\ sample = "csaas" => lists[l].items = {}
       /\ ListCalls(l, Call(sample, 0, ""))
  /\ UNCHANGED <<cScene, cards, born, uses>> /\ OthersOfList

(* One transaction looks for the sample, by name, and makes it; two of     *)
(* them may both look first.                                               *)
LookForSample(l) ==
  /\ lists[l].call.at = "sent" /\ lists[l].call.op \in DOMAIN Fixtures
  /\ LET same == {n \in DOMAIN cards : cards[n].name = Fixtures[lists[l].call.op].name}
     IN  ListCalls(l, IF same = {} THEN On(lists[l].call, "making")
                      ELSE [lists[l].call EXCEPT !.at = "installed", !.card = CHOOSE n \in same : TRUE])
  /\ CardsGoOn /\ UNCHANGED <<cards, born, uses>> /\ OthersOfList
MakeSample(l) ==
  /\ lists[l].call.at = "making"
  /\ LET d == Fixtures[lists[l].call.op]
     IN  /\ CreateCard(d, "published")
         /\ ListCalls(l, IF Storable(d) THEN [lists[l].call EXCEPT !.at = "installed", !.card = born']
                                        ELSE On(lists[l].call, "refused"))
  /\ CardsGoOn /\ UNCHANGED uses /\ OthersOfList
(* The second sample brings a template, in a request of its own, unless    *)
(* the tenant has it; it points at the card, which must still be there.    *)
PointAt_Blindly(u, n) == uses' = PutAt(uses, u, n)
PointAt(u, n) == uses' = IF Live(n) THEN PutAt(uses, u, n) ELSE uses
SampleInstalled(l) ==
  /\ lists[l].call.at \in {"installed", "refused"}
  /\ IF lists[l].call.at = "installed" /\ lists[l].call.op = "prophaze" /\ "sample" \notin DOMAIN uses
     THEN PointAt("sample", lists[l].call.card) ELSE UNCHANGED uses
  /\ lists' = IF lists[l].call.at = "installed" THEN Refreshing(l) ELSE [lists EXCEPT ![l].call = NoCardCall]
  /\ CardsGoOn /\ UNCHANGED <<cards, born>> /\ OthersOfList

(* usage counts templates only, and at this moment.                        *)
StartDelete(l) ==
  /\ lists[l].pending = NoCardCall /\ OnList(l) /\ CardsClick
  /\ \E n \in lists[l].items :
       lists' = [lists EXCEPT ![l].pending = [at |-> "asking", card |-> n, bound |-> 0]]
  /\ UNCHANGED <<cScene, cards, born, uses>> /\ OthersOfList
UsageRead(l) ==
  /\ lists[l].pending.at = "asking"
  /\ lists' = [lists EXCEPT ![l].pending.at = "shown",
                            ![l].pending.bound = Cardinality({u \in DOMAIN uses \ {"deal"} : uses[u] = lists[l].pending.card})]
  /\ CardsGoOn /\ UNCHANGED <<cards, born, uses>> /\ OthersOfList
CancelDelete(l) ==
  /\ lists[l].pending.at = "shown"
  /\ lists' = [lists EXCEPT ![l].pending = NoCardCall]
  /\ CardsGoOn /\ UNCHANGED <<cards, born, uses>> /\ OthersOfList
(* remove: whoever points at the card points at none.                      *)
ConfirmDelete(l) ==
  /\ lists[l].pending.at = "shown"
  /\ LET n == lists[l].pending.card
     IN  IF Live(n)
         THEN /\ cards' = [c \in DOMAIN cards \ {n} |-> cards[c]]
              /\ uses' = [u \in DOMAIN uses |-> IF uses[u] = n THEN 0 ELSE uses[u]]
              /\ lists' = [Refreshing(l) EXCEPT ![l].pending = NoCardCall, ![l].call = lists[l].call]
         ELSE UNCHANGED <<cards, uses, lists>>
  /\ CardsGoOn /\ UNCHANGED born /\ OthersOfList

(* A template is bound to any card, a deal to a published one; the card    *)
(* was chosen from a list read earlier.                                    *)
BindCard ==
  /\ "users" \in cScene.who /\ CardsClick
  /\ \E n \in 1..born :
       \/ PointAt("template", n)
       \/ Live(n) /\ cards[n].status = "published" /\ PointAt("deal", n)
  /\ UNCHANGED <<cScene, cards, born, cardPages>>

RateCardsNext ==
  \/ RegenerateHints \/ RegenerateReads \/ RegenerateWrites \/ RegenerateEnds \/ BindCard
  \/ \E m \in CardTabs : \/ OpenModal(m) \/ PressUpload(m) \/ PressPaste(m) \/ CancelManual(m) \/ CloseModal(m)
                        \/ ServeUpload(m) \/ ReplyComes(m) \/ UploadHintsRead(m)
                        \/ UploadHintsWritten(m) \/ UploadAnswered(m) \/ OpenAnyway(m)
  \/ \E d \in Details : PressOnCard(d) \/ ServeCard(d) \/ CardAnswered(d)
  \/ \E l \in CardTabs : \/ ReadList(l) \/ PressSample(l) \/ LookForSample(l) \/ MakeSample(l)
                       \/ SampleInstalled(l) \/ StartDelete(l) \/ UsageRead(l)
                       \/ CancelDelete(l) \/ ConfirmDelete(l)
RateCardsSpec == RateCardsInit /\ [][RateCardsNext]_cardVars

-----------------------------------------------------------------------------
(* However uploads, samples, deletions and the statuses of several pages   *)
(* interleave: a name stays with one card; an upload that ended in an      *)
(* error has left no card behind, so the corrected sheet can be uploaded   *)
(* under the same name; what points at a card points at one that is there; *)
(* and a published card has no two tiers that fit the same scope in one    *)
(* bucket (pricing.service.ts create, seedFromFixture, publish, remove).   *)
CardsHold ==
  /\ \A c, d \in DOMAIN cards : cards[c].name = cards[d].name => c = d
  /\ \A m \in CardTabs : modals[m].call.at = "refused" => ~Live(modals[m].call.card)
  /\ \A u \in DOMAIN uses : uses[u] # 0 => Live(uses[u])
  /\ \A n \in DOMAIN cards : cards[n].status = "published" => Publishable(cards[n])

(* Statements of comments and dialogs that the code does not keep: a card  *)
(* without tiers is never published (pricing.service.ts:172); a sheet      *)
(* makes one draft (upload-modal.tsx:159); an archived card comes back by  *)
(* a new upload only ([id]/page.tsx:56); whatever the parser cannot place  *)
(* raises a warning (rate-card.parser.ts:21), and so does a bad bound      *)
(* (rate-card-parser.service.ts:344); the dialog names who is unbound.     *)
PublishedPrices == \A n \in DOMAIN cards : cards[n].status = "published" =>
                     \E s \in Slugs(cards[n]) : cards[n].lines[s].tiers # <<>>
OneSheetOneDraft == \A m \in CardTabs : modals[m].call.at = "saved" => modals[m].saved \in {0, modals[m].call.card}
ArchivedStays == [][\A n \in DOMAIN cards \cap DOMAIN cards' :
                      cards[n].status = "archived" => cards'[n].status = "archived"]_cardVars
OddRowsWarn == LET read == FoldLeft(ReadSheetRow, NothingRead, cScene.rows)
                   taken == UNION {{t.from : t \in {l.tiers[i] : i \in DOMAIN l.tiers}} :
                                     l \in {read.lines[i] : i \in DOMAIN read.lines}}
               IN  ~read.warned => \A i \in DOMAIN cScene.rows :
                     DOMAIN cScene.rows[i].prices # {} => cScene.rows[i].name \in taken
BadBoundsWarn == \A r \in cScene.replies :
  (ParseReply(r, "").ok /\ ~ParseReply(r, "").warned) =>
     \A i \in DOMAIN r.lines : \A k \in DOMAIN r.lines[i].tiers : r.lines[i].tiers[k].hi # Bad
DialogCounts == [][\A l \in CardTabs : ConfirmDelete(l) =>
                     lists[l].pending.bound = Cardinality({u \in DOMAIN uses : uses[u] = lists[l].pending.card})]_cardVars
=============================================================================
