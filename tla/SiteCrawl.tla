----------------------------- MODULE SiteCrawl ------------------------------
(***************************************************************************)
(* One crawl of a prospect's web site: the static crawler, the headless    *)
(* browser and the guarded fetch both go through (apps/api/src/site-enum). *)
(*                                                                         *)
(* A site is a record: the links of each page, the URLs it moves           *)
(* elsewhere, those on another host, those on a private address, those     *)
(* robots.txt and the rep's filters exclude, its site maps, its probe      *)
(* paths and the calls its pages make.  The event loop is single-threaded: *)
(* a step is what runs between two awaits, the landing of one fetch        *)
(* together with the refill of the window.                                 *)
(***************************************************************************)
EXTENDS Integers, Sequences, FiniteSets, FiniteSetsExt, SequencesExt

CONSTANTS Sites,       \* the sites a rep may name
          Options,     \* [pages, depth, width, js]: the limits of one crawl
          MaxRedirects,\* redirects followed before a fetch is given up
          MaxRetries,  \* fetches repeated after a 429, a 503 or a network error
          MapLevels    \* bound: nested site-map indexes the model opens

(* Every URL there is has its links; a site's own probe paths are each     *)
(* tried once, and are its own.                                            *)
SiteOK(s) ==
  /\ IsFiniteSet(DOMAIN s.links) /\ s.root \in DOMAIN s.links \ s.offsite
  /\ s.html \subseteq DOMAIN s.links
  /\ \A u \in DOMAIN s.links : s.links[u] \subseteq DOMAIN s.links
  /\ s.usual \in Seq(DOMAIN s.links \ s.offsite)
  /\ \A i, j \in DOMAIN s.usual : s.usual[i] = s.usual[j] => i = j
  /\ s.map \in DOMAIN s.lists /\ DOMAIN s.index = DOMAIN s.lists
  /\ \A m \in DOMAIN s.lists : /\ s.lists[m] \subseteq DOMAIN s.links
                              /\ s.index[m] \in Seq(DOMAIN s.lists)

ASSUME SiteAssumption ==
  /\ \A s \in Sites : SiteOK(s)
  /\ \A o \in Options : /\ o.pages \in Nat \ {0} /\ o.depth \in Nat
                        /\ o.width \in Nat \ {0} /\ o.js \in BOOLEAN
  /\ MaxRetries \in Nat /\ MapLevels \in Nat

VARIABLE crawl

CrawlIdle == [phase |-> "idle"]
CrawlInit == crawl = CrawlIdle

-----------------------------------------------------------------------------
(* fetchWithRetry: 429, 503 and network errors are tried again; the        *)
(* browser navigates once.                                                 *)
Answers(c) == [1 .. IF c.opts.js THEN 1 ELSE MaxRetries + 1 -> {"page", "busy", "net"}]

FetchWithRetry(answers) == \E i \in DOMAIN answers : answers[i] = "page"

(* safeFetch: every hop is checked before it is made, and there are few.   *)
(* The browser checks the address it is given and follows by itself.       *)
Hop(s, u) == LET hop[k \in Nat] == IF k = 0 THEN u ELSE s.moved[hop[k - 1]] IN hop

Landing(s, u) == Hop(s, u)[MaxRedirects]

Reached(c, u) ==
  LET s == c.site
  IN  IF c.opts.js THEN u \notin s.private
      ELSE /\ s.moved[Landing(s, u)] = Landing(s, u)
           /\ \A k \in 0 .. MaxRedirects : Hop(s, u)[k] \notin s.private

(* The links a page shows: of a page that moved, those of its landing.     *)
LinksOf(s, u) == IF Landing(s, u) \in s.html THEN s.links[Landing(s, u)] ELSE {}

-----------------------------------------------------------------------------
(* What may be asked for: robots.txt binds the static crawler only.        *)
Allowed(c, u)  == u \notin c.disallow
Filtered(c, u) == u \in c.site.filtered
Wanted(c, u)   == Allowed(c, u) /\ ~Filtered(c, u)

(* The links of a page that a visitor of this crawl follows.               *)
Followed(c, v) == {u \in LinksOf(c.site, v) : u \notin c.site.offsite /\ Wanted(c, u)}

Landed(c) == {c.pages[i].url : i \in DOMAIN c.pages}
Flying(c) == Cardinality(c.inFlight)

(* crawl, the opening: robots.txt may not answer; the site maps come next. *)
StartCrawl ==
  /\ crawl.phase = "idle"
  /\ \E s \in Sites, o \in Options, robots \in BOOLEAN :
        crawl' = [phase |-> IF o.js THEN "browse" ELSE "maps",
                  site |-> s, opts |-> o, disallow |-> IF robots /\ ~o.js THEN s.robots ELSE {},
                  maps |-> IF o.js THEN <<>> ELSE <<[name |-> s.map, level |-> 0]>>,
                  listed |-> {}, visited |-> {}, queue |-> <<>>, inFlight |-> {},
                  pages |-> <<>>, truncated |-> FALSE, late |-> FALSE,
                  probes |-> <<>>, tried |-> 0, same |-> 0, endpoints |-> {}]

(* discoverSitemapUrls and fetchSitemap: a map lists pages, or is an index *)
(* of further maps.                                                        *)
ReadMap ==
  /\ crawl.phase = "maps" /\ crawl.maps # <<>>
  /\ Head(crawl.maps).level < MapLevels
  /\ LET m == Head(crawl.maps)
         children == crawl.site.index[m.name]
     IN  \/ crawl' = [crawl EXCEPT
                !.maps = [i \in 1 .. Len(children) |->
                            [name |-> children[i], level |-> m.level + 1]] \o Tail(@),
                !.listed = @ \cup crawl.site.lists[m.name]]
         \/ crawl' = [crawl EXCEPT !.maps = Tail(@)]          \* it does not answer

-----------------------------------------------------------------------------
\* Room in the window and under the cap, counting what is in the air.
Room_CapOnly(c) == c.opts.pages - Len(c.pages)
Room(c) == Min({c.opts.width, c.opts.pages - Len(c.pages)}) - Flying(c)

(* The inner loop: take from the queue until the window or the cap is      *)
(* full, passing over what the static crawler may not ask for.             *)
Fill(c) ==
  LET ok(i) == c.opts.js \/ Wanted(c, c.queue[i].url)
      taken(k) == {i \in 1 .. k : ok(i)}
      cut   == CHOOSE k \in 0 .. Len(c.queue) :
                 /\ Cardinality(taken(k)) <= Room(c)
                 /\ k = Len(c.queue) \/ Cardinality(taken(k)) = Room(c)
                 /\ \A j \in 0 .. k - 1 : Cardinality(taken(j)) < Room(c)
  IN  IF Len(c.pages) >= c.opts.pages THEN c
      ELSE [c EXCEPT !.inFlight = @ \cup {c.queue[i] : i \in taken(cut)},
                     !.queue = SubSeq(@, cut + 1, Len(@))]

Root(s) == [url |-> s.root, depth |-> 0]

(* The seeds: what the maps list on this host, then the root.              *)
Seed ==
  /\ \/ crawl.phase = "maps" /\ (crawl.maps = <<>>)
     \/ crawl.phase = "browse" /\ crawl.visited = {}
  /\ LET s     == crawl.site
         urls  == crawl.listed \ s.offsite
         seeds == SetToSeq({[url |-> u, depth |-> 0] : u \in urls})
     IN  crawl' = Fill([crawl EXCEPT
            !.phase = "crawl", !.visited = urls \cup {s.root},
            !.queue = IF s.root \in urls THEN seeds ELSE Append(seeds, Root(s))])

(* What a landed page adds to the frontier.  The static crawler looks at   *)
(* the pages it holds; the browser also counts its queue, and stops at the *)
(* URL that fills the cap.                                                 *)
Frontier(c, item) ==
  LET new  == Followed(c, item.url) \ c.visited
      left == c.opts.pages - Cardinality(c.visited)
      room == IF left < 1 THEN 1 ELSE left
      pick == IF ~c.opts.js \/ Cardinality(new) <= room THEN new
              ELSE CHOOSE n \in SUBSET new : Cardinality(n) = room
      full == Len(c.pages) + (IF c.opts.js THEN Len(c.queue) ELSE 0) >= c.opts.pages
  IN  IF item.depth >= c.opts.depth \/ full THEN {} ELSE pick

Expand(c, item) ==
  LET new == Frontier(c, item)
  IN  [c EXCEPT !.visited = @ \cup new,
                !.queue = @ \o SetToSeq({[url |-> u, depth |-> item.depth + 1] : u \in new})]

Record(c, item, ok) ==
  [c EXCEPT !.pages = Append(@, [url |-> item.url, depth |-> item.depth, ok |-> ok])]

(* After a landing the loop looks at the clock, then refills the window.   *)
Resume(c) == IF c.late THEN [c EXCEPT !.phase = "drain", !.truncated = TRUE]
             ELSE IF c.phase = "drain" THEN c ELSE Fill(c)

Land(item, ok) ==
  LET c == [crawl EXCEPT !.inFlight = @ \ {item}]
  IN  crawl' = Resume(IF ok /\ Reached(c, item.url)
                      THEN Expand(Record(c, item, TRUE), item)
                      ELSE Record(c, item, FALSE))

PageLands ==
  /\ crawl.phase \in {"crawl", "drain"}
  /\ \E item \in crawl.inFlight, a \in Answers(crawl) : Land(item, FetchWithRetry(a))

(* Ten minutes are over: a fetch still waiting for its turn gives up.      *)
TimeIsUp ==
  /\ crawl.phase \in {"crawl", "drain", "probe"} /\ ~crawl.late
  /\ crawl' = [crawl EXCEPT !.late = TRUE]

PageSkipped ==
  /\ crawl.phase \in {"crawl", "drain"} /\ crawl.late
  /\ \E item \in crawl.inFlight :
        crawl' = Resume([crawl EXCEPT !.inFlight = @ \ {item}, !.truncated = TRUE])

(* The browser breaks while it reads a page: the race rejects and the      *)
(* whole crawl is lost.                                                    *)
BrowserBreaks ==
  /\ crawl.phase \in {"crawl", "drain"} /\ crawl.opts.js /\ crawl.inFlight # {}
  /\ crawl' = [crawl EXCEPT !.phase = "failed"]

-----------------------------------------------------------------------------
LoopOver == /\ crawl.phase \in {"crawl", "drain"} /\ crawl.inFlight = {}
            /\ \/ crawl.phase = "drain" \/ crawl.queue = <<>>
               \/ Len(crawl.pages) >= crawl.opts.pages

Cut(c) == c.truncated \/ c.queue # <<>> \/ Len(c.pages) >= c.opts.pages

(* The members of a sequence that are in a set, in their order (filter).   *)
Sifted(s, S) ==
  LET kept[i \in Nat] ==
        IF i = 0 THEN <<>> ELSE IF s[i] \in S THEN Append(kept[i - 1], s[i]) ELSE kept[i - 1]
  IN  kept[Len(s)]

(* A shell that renders its links in the browser gets a few usual paths    *)
(* tried; those its visitors may not read, or it met, are left out.        *)
Probes(c) ==
  LET left == c.opts.pages - Len(c.pages)
      few  == SubSeq(c.site.usual, 1, IF left < Len(c.site.usual) THEN left ELSE Len(c.site.usual))
  IN  IF /\ \E i \in DOMAIN c.pages : c.pages[i].url = c.site.root /\ c.pages[i].ok
         /\ c.site.shell /\ Len(c.pages) <= 3
      THEN Sifted(few, {u \in ToSet(few) : u \notin c.visited /\ Allowed(c, u)}) ELSE <<>>

CrawlEnds ==
  /\ LoopOver /\ ~crawl.opts.js
  /\ crawl' = [crawl EXCEPT !.truncated = Cut(crawl), !.phase = "probe", !.probes = Probes(crawl)]

Probe ==
  /\ crawl.phase = "probe" /\ crawl.probes # <<>>
  /\ LET u == Head(crawl.probes)
         c == [crawl EXCEPT !.probes = Tail(@), !.tried = @ + 1, !.visited = @ \cup {u}]
         there == Reached(c, u) /\ Landing(c.site, u) \in c.site.html
     IN  IF crawl.late THEN crawl' = [c EXCEPT !.truncated = TRUE, !.probes = <<>>]
         ELSE \/ crawl' = c                                     \* no page there
              \/ /\ there
                 /\ crawl' = IF Landing(c.site, u) \in c.site.same THEN [c EXCEPT !.same = @ + 1]
                             ELSE Record(c, [url |-> u, depth |-> 1], TRUE)

ProbesOver ==
  /\ crawl.phase = "probe" /\ crawl.probes = <<>>
  /\ crawl' = [crawl EXCEPT !.phase = "done"]

-----------------------------------------------------------------------------
(* The browser's last steps: pages that render like the root are dropped,  *)
(* and the calls seen at run time are joined with those found in the       *)
(* bundles, looked up as GET.                                              *)
Twin(c, p) == p.url # c.site.root /\ p.ok /\ Landing(c.site, p.url) \in c.site.same

Endpoints(s) ==
  s.calls \cup {[method |-> "bundle", path |-> p] :
                  p \in {x \in s.bundle : [method |-> "GET", path |-> x] \notin s.calls}}

BrowseEnds ==
  /\ LoopOver /\ crawl.opts.js
  /\ LET kept == Sifted(crawl.pages, {p \in ToSet(crawl.pages) : ~Twin(crawl, p)})
         root == \E i \in DOMAIN crawl.pages :
                    crawl.pages[i].url = crawl.site.root /\ crawl.pages[i].ok
     IN  crawl' = [crawl EXCEPT
            !.phase = "done", !.truncated = Cut(crawl),
            !.pages = IF root THEN kept ELSE @,
            !.same = IF root THEN Len(crawl.pages) - Len(kept) ELSE 0,
            !.endpoints = Endpoints(crawl.site)]

(* Every probe gave the root's page back: one shell answers for all.       *)
SpaCatchAll(c) == IF c.opts.js THEN Len(c.pages) = 1 /\ c.same > 0
                  ELSE c.tried > 0 /\ c.same = c.tried

CrawlNext ==
  \/ StartCrawl \/ ReadMap \/ Seed \/ PageLands \/ TimeIsUp \/ PageSkipped
  \/ BrowserBreaks \/ CrawlEnds \/ Probe \/ ProbesOver \/ BrowseEnds

(* Nothing is owed to a crawl: the process may stop in the middle of it.   *)
CrawlSpec == CrawlInit /\ [][CrawlNext]_crawl

-----------------------------------------------------------------------------
Started(c) == c.phase \notin {"idle", "maps", "browse"}

(* What a visitor can reach: the seeds, then the links, d clicks deep.     *)
Seeds(c) == {u \in {c.site.root} \cup IF c.opts.js THEN {} ELSE c.listed \ c.site.offsite :
               c.opts.js \/ Wanted(c, u)}
Clicks(S, links, d) ==
  LET reach[k \in Nat] ==
        IF k = 0 THEN S ELSE reach[k - 1] \cup UNION {links[v] : v \in reach[k - 1]}
  IN  reach[d]

Reachable(c, d) == Clicks(Seeds(c), [v \in DOMAIN c.site.links |-> Followed(c, v)], d)

CapRespected(c) == Len(c.pages) + Flying(c) <= c.opts.pages

NoPageTwice(c) ==
  /\ \A i, j \in DOMAIN c.pages : i # j => c.pages[i].url # c.pages[j].url
  /\ \A f \in c.inFlight : f.url \notin Landed(c)

StaysPolite(c) ==
  \A u \in Landed(c) \cup {f.url : f \in c.inFlight} : u \notin c.site.offsite /\ Allowed(c, u)

(* The rep is told "truncated" when something was left out.  With several  *)
(* fetches in the air a page may be met on a longer path first, so this    *)
(* needs a window of one or a depth that never binds.                      *)
CompleteUnlessSaid(c) ==
  ( /\ c.phase = "done" /\ ~c.truncated
    /\ \A i \in DOMAIN c.pages : c.pages[i].ok
    /\ c.opts.width = 1 \/ c.opts.depth >= Cardinality(DOMAIN c.site.links) ) =>
  \A u \in Reachable(c, c.opts.depth) :
     u \in Landed(c) \/ (c.opts.js /\ Landing(c.site, u) \in c.site.same)

(* A crawl never takes more pages than its cap, fetches no URL twice,      *)
(* keeps to the host and to robots.txt also for what a site map lists and  *)
(* what it probes, and says so when it leaves reachable pages out (crawl,  *)
(* fetchAndExpand).                                                        *)
CrawlIsSound ==
  Started(crawl) => /\ CapRespected(crawl) /\ NoPageTwice(crawl)
                    /\ StaysPolite(crawl) /\ CompleteUnlessSaid(crawl)

(* "Sitemap index: recurse one level only to avoid runaway fetches"        *)
(* (fetchSitemap): no map is opened from below a map of an index.          *)
MapsOneLevelDeep ==
  Started(crawl) \/ crawl.phase = "idle" \/ \A i \in DOMAIN crawl.maps : crawl.maps[i].level <= 1

=============================================================================
