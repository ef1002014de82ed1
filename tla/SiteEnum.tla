------------------------------ MODULE SiteEnum ------------------------------
(***************************************************************************)
(* The site-enumeration job of an opportunity: one row, the workers that   *)
(* kickoff, retry and the sweep fire and forget, the mapping of the result *)
(* to a rate card, and the card of the opportunity page that drives them   *)
(* (site-enum.service.ts, site-scope-card.tsx).                            *)
(*                                                                         *)
(* What a crawl found is named by the site it crawled.  A worker's steps   *)
(* are its transactions: the check that nobody else is running and the     *)
(* update that says so are two statements.  The crawl itself is SiteCrawl. *)
(***************************************************************************)
EXTENDS Integers, FiniteSets

CONSTANTS SiteUrls,    \* the sites a rep may type
          Reps,        \* the open opportunity pages
          Runners,     \* bound: workers alive at once
          MaxAttempts, \* MAX_RETRY_ATTEMPTS
          MaxPresses,  \* bound: kickoffs and retries of a behaviour
          OwnCard, TemplateCard, \* rate card of the opportunity, of its template
          NoSite, NoCard

VARIABLES row,      \* the site_enumerations row
          runner,   \* each worker: where it is and the site it read
          pane,     \* each page: the state it last read
          mapping,  \* a mapping in flight: who asked, card, what it read
          presses
enumVars == <<row, runner, pane, mapping, presses>>

EnumInFlight == {"pending", "crawling", "classifying", "retry_queued"}
RowStatuses == EnumInFlight \cup {"ready", "failed", "none"}
RateCards == {OwnCard, TemplateCard} \ {NoCard}

NoRow == [status |-> "none", url |-> NoSite, attempts |-> 0, found |-> NoSite,
          mapped |-> [c \in RateCards |-> NoSite]]
Gone  == [pc |-> "none", url |-> NoSite, tries |-> 0]
NoMap == [by |-> "nobody", card |-> NoCard, found |-> NoSite, rest |-> [c \in RateCards |-> NoSite]]

EnumInit == /\ row = NoRow
            /\ runner = [w \in Runners |-> Gone]
            /\ pane = [r \in Reps |-> [status |-> "none", url |-> NoSite]]
            /\ mapping = NoMap
            /\ presses = 0

-----------------------------------------------------------------------------
(* A worker starts on a free slot.                                         *)
Spawn == \E w \in Runners :
            /\ runner[w].pc = "none"
            /\ runner' = [runner EXCEPT ![w].pc = "look"]

(* kickoff: the same site still in flight is returned as it is; a row with *)
(* another site, or one that ended, starts over without its pages.  Either *)
(* way a worker is fired.                                                  *)
Restart(r, u) == IF r.url = u /\ r.status \in EnumInFlight THEN r
                 ELSE [NoRow EXCEPT !.status = "pending", !.url = u]

Kickoff(u) == /\ row' = Restart(row, u)
              /\ Spawn

(* retry: back to pending with the whole budget, whatever the row does.    *)
Retry == /\ row.status # "none"
         /\ row' = [row EXCEPT !.status = "pending", !.attempts = 0]
         /\ Spawn

(* The minute's sweep fires a worker for a row whose retry is due.         *)
SweepDueRetries == /\ row.status = "retry_queued"
                   /\ Spawn
                   /\ UNCHANGED <<row, pane, mapping, presses>>

-----------------------------------------------------------------------------
(* runEnumeration.                                                         *)
Move(w, pc) == runner' = [runner EXCEPT ![w] = IF pc = "none" THEN Gone ELSE [@ EXCEPT !.pc = pc]]

Running_OrPending(s) == s \in {"pending", "crawling", "classifying"}
Running(s) == s \in {"crawling", "classifying"}

LookAtHead(w) ==
  /\ runner[w].pc = "look"
  /\ IF Running(row.status) THEN Move(w, "none")
     ELSE runner' = [runner EXCEPT ![w] = [pc |-> "claim", url |-> row.url, tries |-> 0]]
  /\ UNCHANGED row

ClaimHead(w) ==
  /\ runner[w].pc = "claim"
  /\ row' = [row EXCEPT !.status = "crawling"]
  /\ Move(w, "crawl")

(* The crawl ends with pages, which are saved, or fails.                   *)
SavePages(w) ==
  /\ runner[w].pc = "crawl"
  /\ row' = [row EXCEPT !.status = "classifying"]
  /\ Move(w, "classify")

CrawlFails(w) ==
  /\ runner[w].pc = "crawl"
  /\ Move(w, "fail")
  /\ UNCHANGED row

(* The roll-up, the summary and the quote against the effective card (the  *)
(* opportunity's own before its template's) are one transaction.           *)
EffectiveCard == IF OwnCard # NoCard THEN OwnCard ELSE TemplateCard

FinishRun(w) ==
  /\ runner[w].pc = "classify"
  /\ row' = [row EXCEPT !.status = "ready", !.attempts = 0, !.found = runner[w].url,
               !.mapped = IF EffectiveCard = NoCard THEN @
                          ELSE [c \in RateCards |-> IF c = EffectiveCard THEN runner[w].url
                                                    ELSE NoSite]]
  /\ Move(w, "none")

(* markFailedOrRetry counts in one transaction and writes in the next.     *)
CountAttempts(w) ==
  /\ runner[w].pc = "fail"
  /\ runner' = [runner EXCEPT ![w].pc = "mark", ![w].tries = row.attempts + 1]
  /\ UNCHANGED row

MarkFailedOrRetry_OneMore(w) ==
  /\ runner[w].pc = "mark"
  /\ row' = IF runner[w].tries > MaxAttempts + 1 THEN [row EXCEPT !.status = "failed"]
            ELSE [row EXCEPT !.status = "retry_queued", !.attempts = runner[w].tries]
  /\ Move(w, "none")
MarkFailedOrRetry(w) ==
  /\ runner[w].pc = "mark"
  /\ row' = IF runner[w].tries > MaxAttempts THEN [row EXCEPT !.status = "failed"]
            ELSE [row EXCEPT !.status = "retry_queued", !.attempts = runner[w].tries]
  /\ Move(w, "none")

Work(w) ==
  /\ \/ LookAtHead(w) \/ ClaimHead(w) \/ SavePages(w) \/ CrawlFails(w)
     \/ FinishRun(w) \/ CountAttempts(w) \/ MarkFailedOrRetry(w)
  /\ UNCHANGED <<pane, mapping, presses>>

-----------------------------------------------------------------------------
(* The card of the page: it polls while it shows a crawl in flight, and    *)
(* its buttons follow what it shows, which may be old by then.             *)
Refresh(r) ==
  /\ pane' = [pane EXCEPT ![r].status = row.status, ![r].url = row.url]
  /\ UNCHANGED <<row, runner, mapping, presses>>

Press(r) == /\ presses < MaxPresses /\ mapping.by # r
            /\ presses' = presses + 1
            /\ UNCHANGED pane

PressCrawl(r, u) ==
  /\ pane[r].status = "none" /\ Press(r)
  /\ Kickoff(u)
  /\ UNCHANGED mapping

PressReCrawl(r) ==
  /\ pane[r].status \in {"ready", "failed"} /\ Press(r)
  /\ Kickoff(pane[r].url)
  /\ UNCHANGED mapping

PressRetry(r) ==
  /\ pane[r].status = "failed" /\ Press(r)
  /\ Retry
  /\ UNCHANGED mapping

(* computeQuote: the template's card, of the row as it is read; the        *)
(* snapshot is written later over what the row held then.                  *)
PressQuote(r) ==
  /\ pane[r].status = "ready" /\ Press(r)
  /\ mapping.by = "nobody" /\ row.status = "ready" /\ TemplateCard # NoCard
  /\ mapping' = [by |-> r, card |-> TemplateCard, found |-> row.found, rest |-> row.mapped]
  /\ UNCHANGED <<row, runner>>

SaveMapping ==
  /\ mapping.by # "nobody"
  /\ row' = [row EXCEPT !.mapped = [mapping.rest EXCEPT ![mapping.card] = mapping.found]]
  /\ mapping' = NoMap
  /\ UNCHANGED <<runner, pane, presses>>

EnumNext == \/ \E w \in Runners : Work(w)
            \/ SweepDueRetries
            \/ \E r \in Reps : \/ Refresh(r) \/ PressReCrawl(r) \/ PressRetry(r) \/ PressQuote(r)
                               \/ \E u \in SiteUrls : PressCrawl(r, u)
            \/ SaveMapping

(* Workers go on and the sweep runs every minute; nobody has to press.     *)
EnumFairness == /\ \A w \in Runners : WF_enumVars(Work(w))
                /\ WF_enumVars(SweepDueRetries)

-----------------------------------------------------------------------------
(* Every crawl in flight ends ready or failed once the clicks stop,        *)
(* however many workers overlap, fail and requeue: no row stays in flight  *)
(* with nobody working on it (kickoff, retry, runEnumeration,              *)
(* markFailedOrRetry).  The process does not die in these behaviours.      *)
EnumerationSettles == (row.status \in EnumInFlight) ~> (row.status \in {"ready", "failed"})

=============================================================================
