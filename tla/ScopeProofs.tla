----------------------------- MODULE ScopeProofs -----------------------------
(***************************************************************************)
(* Where a scope comes from and what it costs.  A crawl is sound whatever  *)
(* the site, its links, moves, maps and filters, whatever the cap, the     *)
(* depth and the width of the window, and however the fetches land; a      *)
(* price is of the scope whatever the card, the entities, the mentions,    *)
(* the template and the answers.  What is recursive here (the reach of a   *)
(* visitor, a filter, a collapse, a sum over a set) is a function over the *)
(* naturals; AllNaturals, which follows from their order being             *)
(* well-founded, is the induction over it.                                 *)
(***************************************************************************)
EXTENDS SiteCrawl, PriceCases, FiniteSetTheorems, SequenceTheorems, WellFoundedInduction, TLAPS

(* A set with 0 and with every successor of its members has them all.      *)
LEMMA AllNaturals ==
  ASSUME NEW S, 0 \in S, \A n \in Nat : n \in S => n + 1 \in S
  PROVE  \A n \in Nat : n \in S
<1>1. PICK R : R = OpToRel(<, Nat)
  OBVIOUS
<1>2. IsWellFoundedOn(R, Nat)
  BY <1>1, NatLessThanWellFounded
<1>3. PICK T : T = Nat \ S
  OBVIOUS
<1>4. SUFFICES ASSUME T # {} PROVE FALSE
  BY <1>3
<1>5. T \subseteq Nat
  BY <1>3
<1>6. PICK x \in T : \A y \in T : ~(<<y, x>> \in R)
  BY <1>2, <1>4, <1>5, WFMin
<1>7. R = {ss \in Nat \X Nat : ss[1] < ss[2]}
  BY <1>1 DEF OpToRel
<1>8. \A y \in T : ~(y < x)
  BY <1>5, <1>6, <1>7
<1>9. x # 0 /\ x \in Nat /\ x - 1 \in Nat /\ x = (x - 1) + 1
  BY <1>3
<1> QED BY <1>3, <1>8, <1>9

(* The first naturals of a recursion, and what they say of the next.       *)
Began(n, f, A, T) == /\ f = [k \in 0 .. n |-> f[k]] /\ f[0] = A
                     /\ \A k \in Nat : k < n => f[k + 1] = T[<<k, f[k]>>]

(* Two beginnings of one recursion agree where both have begun.            *)
LEMMA BeganAlike ==
  ASSUME NEW n \in Nat, NEW m \in Nat, NEW f, NEW g, NEW A, NEW T, Began(n, f, A, T), Began(m, g, A, T)
  PROVE  \A k \in Nat : k <= n /\ k <= m => f[k] = g[k]
<1>1. PICK S : S = {k \in Nat : k <= n /\ k <= m => f[k] = g[k]}
  OBVIOUS
<1>2. 0 \in S
  BY <1>1 DEF Began
<1>3. ASSUME NEW k \in Nat, k \in S PROVE k + 1 \in S
  <2>1. ASSUME k + 1 <= n, k + 1 <= m PROVE f[k + 1] = g[k + 1]
    <3>1. k < n /\ k < m /\ k <= n /\ k <= m
      BY <2>1
    <3>2. f[k] = g[k]
      BY <1>1, <1>3, <3>1
    <3> QED BY <3>1, <3>2 DEF Began
  <2> QED BY <1>1, <2>1
<1> QED BY <1>1, <1>2, <1>3, AllNaturals

Recurs(g, A, T) == /\ g = [k \in Nat |-> g[k]] /\ g[0] = A
                   /\ \A k \in Nat : g[k + 1] = T[<<k, g[k]>>]

(* A recursion over the naturals has a function that follows it.           *)
LEMMA Recursion ==
  ASSUME NEW A, NEW T
  PROVE  \E g : Recurs(g, A, T)
<1>1. PICK S : S = {n \in Nat : \E f : Began(n, f, A, T)}
  OBVIOUS
<1>2. 0 \in S
  <2>1. Began(0, [k \in 0 .. 0 |-> A], A, T)
    BY DEF Began
  <2> QED BY <1>1, <2>1
<1>3. ASSUME NEW n \in Nat, n \in S PROVE n + 1 \in S
  <2>1. PICK f : Began(n, f, A, T)
    BY <1>1, <1>3
  <2>2. PICK h : h = [k \in 0 .. n + 1 |-> IF k = n + 1 THEN T[<<n, f[n]>>] ELSE f[k]]
    OBVIOUS
  <2>3. h = [k \in 0 .. n + 1 |-> h[k]] /\ h[0] = A
    <3>1. 0 \in 0 .. n + 1 /\ 0 # n + 1
      OBVIOUS
    <3>2. h[0] = A
      BY <2>1, <2>2, <3>1 DEF Began
    <3> QED BY <2>2, <3>2
  <2>4. ASSUME NEW k \in Nat, k < n + 1 PROVE h[k + 1] = T[<<k, h[k]>>]
    <3>0. k <= n /\ k \in 0 .. n + 1 /\ k + 1 \in 0 .. n + 1 /\ k # n + 1
      BY <2>4
    <3>3. h[k] = f[k] /\ h[k + 1] = IF k + 1 = n + 1 THEN T[<<n, f[n]>>] ELSE f[k + 1]
      BY <2>2, <3>0
    <3>1. CASE k = n
      BY <3>0, <3>1, <3>3
    <3>2. CASE k # n
      <4>1. k < n /\ k + 1 # n + 1
        BY <3>0, <3>2
      <4>2. f[k + 1] = T[<<k, f[k]>>]
        BY <2>1, <4>1 DEF Began
      <4> QED BY <3>3, <4>1, <4>2
    <3> QED BY <3>1, <3>2
  <2>5. Began(n + 1, h, A, T)
    BY <2>3, <2>4 DEF Began
  <2> QED BY <1>1, <2>5
<1>4. \A n \in Nat : n \in S
  BY <1>2, <1>3, AllNaturals
<1>5. PICK F : F = [n \in Nat |-> CHOOSE f : Began(n, f, A, T)]
  OBVIOUS
<1>6. \A n \in Nat : Began(n, F[n], A, T)
  <2> SUFFICES ASSUME NEW n \in Nat PROVE Began(n, F[n], A, T)
    OBVIOUS
  <2>1. \E f : Began(n, f, A, T)
    BY <1>1, <1>4
  <2> QED BY <1>5, <2>1
<1>7. PICK g : g = [k \in Nat |-> F[k][k]]
  OBVIOUS
<1>8. g[0] = A
  BY <1>6, <1>7 DEF Began
<1>9. ASSUME NEW k \in Nat PROVE g[k + 1] = T[<<k, g[k]>>]
  <2>1. F[k + 1][k] = F[k][k]
    BY <1>6, BeganAlike
  <2>2. F[k + 1][k + 1] = T[<<k, F[k + 1][k]>>]
    <3>1. Began(k + 1, F[k + 1], A, T) /\ k < k + 1
      BY <1>6
    <3> QED BY <3>1 DEF Began
  <2> QED BY <1>7, <2>1, <2>2
<1>10. g = [k \in Nat |-> g[k]]
  BY <1>7
<1> QED BY <1>8, <1>9, <1>10 DEF Recurs

(* What is kept of a sequence, place by place.                             *)
KeepsOf(s, S, k, r, f) ==
  /\ r \in Seq(S) /\ f \in [1 .. Len(r) -> 1 .. k] /\ Len(r) <= k
  /\ \A i \in 1 .. Len(r) : r[i] = s[f[i]]
  /\ \A i, j \in 1 .. Len(r) : f[i] = f[j] => i = j
  /\ \A m \in 1 .. k : s[m] \in S => \E i \in 1 .. Len(r) : f[i] = m

(* One more place of the sequence, kept or not.                            *)
LEMMA KeepsNext ==
  ASSUME NEW s, NEW S, NEW k \in Nat, NEW r, NEW f, KeepsOf(s, S, k, r, f)
  PROVE  \E h : KeepsOf(s, S, k + 1, IF s[k + 1] \in S THEN Append(r, s[k + 1]) ELSE r, h)
<1>1. CASE s[k + 1] \notin S
  <2>1. f \in [1 .. Len(r) -> 1 .. k + 1] /\ Len(r) <= k + 1
    BY DEF KeepsOf
  <2>2. \A m \in 1 .. k + 1 : s[m] \in S => \E i \in 1 .. Len(r) : f[i] = m
    BY <1>1 DEF KeepsOf
  <2>3. KeepsOf(s, S, k + 1, r, f)
    BY <2>1, <2>2 DEF KeepsOf
  <2> QED BY <1>1, <2>3
<1>2. CASE s[k + 1] \in S
  <2>1. PICK q : q = Append(r, s[k + 1])
    OBVIOUS
  <2>2. /\ q \in Seq(S) /\ Len(q) = Len(r) + 1 /\ Len(r) \in Nat /\ q[Len(r) + 1] = s[k + 1]
        /\ \A i \in 1 .. Len(r) : q[i] = r[i]
    BY <1>2, <2>1 DEF KeepsOf
  <2>3. PICK h : h = [i \in 1 .. Len(q) |-> IF i = Len(q) THEN k + 1 ELSE f[i]]
    OBVIOUS
  <2>4. h[Len(q)] = k + 1 /\ \A i \in 1 .. Len(r) : i \in 1 .. Len(q) /\ h[i] = f[i] /\ f[i] \in 1 .. k
    BY <2>2, <2>3 DEF KeepsOf
  <2>5. \A i \in 1 .. Len(q) : i \in 1 .. Len(r) \/ i = Len(q)
    BY <2>2
  <2>6. h \in [1 .. Len(q) -> 1 .. k + 1]
    <3>1. \A i \in 1 .. Len(q) : h[i] \in 1 .. k + 1
      BY <2>4, <2>5
    <3> QED BY <2>3, <3>1
  <2>7. \A i \in 1 .. Len(q) : q[i] = s[h[i]]
    BY <2>2, <2>4, <2>5 DEF KeepsOf
  <2>8. \A i, j \in 1 .. Len(q) : h[i] = h[j] => i = j
    <3> SUFFICES ASSUME NEW i \in 1 .. Len(q), NEW j \in 1 .. Len(q), h[i] = h[j] PROVE i = j
      OBVIOUS
    <3>1. CASE i \in 1 .. Len(r) /\ j \in 1 .. Len(r)
      BY <2>4, <3>1 DEF KeepsOf
    <3>2. CASE i = Len(q) \/ j = Len(q)
      BY <2>2, <2>4, <2>5, <3>2
    <3> QED BY <2>5, <3>1, <3>2
  <2>9. ASSUME NEW m \in 1 .. k + 1, s[m] \in S PROVE \E i \in 1 .. Len(q) : h[i] = m
    <3>1. CASE m = k + 1
      <4>1. Len(q) \in 1 .. Len(q)
        BY <2>2
      <4> QED BY <2>4, <3>1, <4>1
    <3>2. CASE m # k + 1
      <4>1. m \in 1 .. k
        BY <3>2
      <4>2. PICK i \in 1 .. Len(r) : f[i] = m
        BY <2>9, <4>1 DEF KeepsOf
      <4> QED BY <2>4, <4>2
    <3> QED BY <3>1, <3>2
  <2>10. KeepsOf(s, S, k + 1, q, h)
    BY <2>2, <2>6, <2>7, <2>8, <2>9 DEF KeepsOf
  <2> QED BY <1>2, <2>1, <2>10
<1> QED BY <1>1, <1>2

(* Sifted keeps, in their order and each once, the members of the set.       *)
LEMMA KeptIs ==
  ASSUME NEW s, NEW S, Len(s) \in Nat
  PROVE  \E f : KeepsOf(s, S, Len(s), Sifted(s, S), f)
<1> DEFINE Rec(F) == [i \in Nat |-> IF i = 0 THEN <<>>
                                    ELSE IF s[i] \in S THEN Append(F[i - 1], s[i]) ELSE F[i - 1]]
<1>1. PICK T : T = [p \in Nat \X Seq(S) |->
                      IF s[p[1] + 1] \in S THEN Append(p[2], s[p[1] + 1]) ELSE p[2]]
  OBVIOUS
<1>r. PICK g : Recurs(g, <<>>, T)
  BY Recursion
<1>2. /\ g = [k \in Nat |-> g[k]] /\ g[0] = <<>>
      /\ \A k \in Nat : g[k + 1] = T[<<k, g[k]>>]
  BY <1>r DEF Recurs
<1>3. PICK N : N = {k \in Nat : \E f : KeepsOf(s, S, k, g[k], f)}
  OBVIOUS
<1>4. \A k \in Nat : g[k] \in Seq(S) =>
         g[k + 1] = IF s[k + 1] \in S THEN Append(g[k], s[k + 1]) ELSE g[k]
  <2> SUFFICES ASSUME NEW k \in Nat, g[k] \in Seq(S)
               PROVE  g[k + 1] = IF s[k + 1] \in S THEN Append(g[k], s[k + 1]) ELSE g[k]
    OBVIOUS
  <2>1. <<k, g[k]>> \in Nat \X Seq(S)
    OBVIOUS
  <2> QED BY <1>1, <1>2, <2>1
<1>5. 0 \in N
  <2>1. KeepsOf(s, S, 0, <<>>, <<>>)
    BY DEF KeepsOf
  <2> QED BY <1>2, <1>3, <2>1
<1>6. ASSUME NEW k \in Nat, k \in N PROVE k + 1 \in N
  <2>1. PICK f : KeepsOf(s, S, k, g[k], f)
    BY <1>3, <1>6
  <2>2. g[k] \in Seq(S)
    BY <2>1 DEF KeepsOf
  <2> QED BY <1>3, <1>4, <2>1, <2>2, KeepsNext
<1>7. \A k \in Nat : k \in N
  BY <1>5, <1>6, AllNaturals
<1>8. \A k \in Nat : g[k] \in Seq(S)
  BY <1>3, <1>7 DEF KeepsOf
<1>9. g = Rec(g)
  <2>1. ASSUME NEW i \in Nat
        PROVE  g[i] = IF i = 0 THEN <<>>
                      ELSE IF s[i] \in S THEN Append(g[i - 1], s[i]) ELSE g[i - 1]
    <3>1. CASE i = 0
      BY <1>2, <3>1
    <3>2. CASE i # 0
      <4>1. i - 1 \in Nat /\ (i - 1) + 1 = i
        BY <3>2
      <4> QED BY <1>4, <1>8, <3>2, <4>1
    <3> QED BY <3>1, <3>2
  <2> QED BY <1>2, <2>1
<1>10. PICK c : c = CHOOSE F : F = Rec(F)
  OBVIOUS
<1>11. c = Rec(c)
  BY <1>9, <1>10
<1>12. Sifted(s, S) = c[Len(s)]
  BY <1>10 DEF Sifted
<1>13. \A k \in Nat : c[k] = g[k]
  <2>1. PICK M : M = {k \in Nat : c[k] = g[k]}
    OBVIOUS
  <2>2. 0 \in M
    BY <1>9, <1>11, <2>1
  <2>3. ASSUME NEW k \in Nat, k \in M PROVE k + 1 \in M
    <3>1. c[k + 1] = IF s[k + 1] \in S THEN Append(c[k], s[k + 1]) ELSE c[k]
      <4>1. k + 1 # 0 /\ k + 1 \in Nat /\ (k + 1) - 1 = k
        OBVIOUS
      <4> HIDE DEF Rec
      <4>2. c[k + 1] = Rec(c)[k + 1]
        BY <1>11
      <4> QED BY <4>1, <4>2 DEF Rec
    <3>2. c[k] = g[k]
      BY <2>1, <2>3
    <3>3. c[k + 1] = g[k + 1]
      <4>1. g[k + 1] = IF s[k + 1] \in S THEN Append(g[k], s[k + 1]) ELSE g[k]
        BY <1>4, <1>8
      <4>2. PICK y, z : y = g[k] /\ z = s[k + 1]
        OBVIOUS
      <4> QED BY <3>1, <3>2, <4>1, <4>2
    <3> QED BY <2>1, <3>3
  <2>4. \A k \in Nat : k \in M
    BY <2>2, <2>3, AllNaturals
  <2> QED BY <2>1, <2>4
<1> QED BY <1>3, <1>7, <1>12, <1>13

(* A set of naturals has a least member.                                   *)
LEMMA LeastOf ==
  ASSUME NEW K, K \subseteq Nat, K # {}
  PROVE  \E m \in K : \A n \in K : m <= n
<1>1. PICK R : R = OpToRel(<, Nat)
  OBVIOUS
<1>2. IsWellFoundedOn(R, Nat)
  BY <1>1, NatLessThanWellFounded
<1>3. PICK m \in K : \A n \in K : ~(<<n, m>> \in R)
  BY <1>2, WFMin
<1>4. R = {ss \in Nat \X Nat : ss[1] < ss[2]}
  BY <1>1 DEF OpToRel
<1>5. \A n \in K : ~(n < m)
  BY <1>3, <1>4
<1> QED BY <1>5

CrawlFields == {"phase", "site", "opts", "disallow", "maps", "listed", "visited", "queue",
                "inFlight", "pages", "truncated", "late", "probes", "tried", "same", "endpoints"}
Urls(c) == DOMAIN c.site.links
Steps(c) == [url : Urls(c), depth : Nat]

CrawlFits(c) ==
  /\ c = [f \in CrawlFields |-> c[f]]
  /\ c.site \in Sites /\ c.opts \in Options /\ (c.opts.js => c.disallow = {})
  /\ c.listed \subseteq Urls(c) /\ (c.opts.js => c.listed = {})
  /\ c.visited \subseteq Urls(c) \ c.site.offsite
  /\ c.queue \in Seq(Steps(c)) /\ c.inFlight \subseteq Steps(c) /\ IsFiniteSet(c.inFlight)
  /\ c.pages \in Seq([url : Urls(c), depth : Nat, ok : BOOLEAN])
  /\ c.truncated \in BOOLEAN /\ c.late \in BOOLEAN

(* Nothing is asked for twice.                                             *)
Once(c) ==
  /\ \A i, j \in DOMAIN c.pages : c.pages[i].url = c.pages[j].url => i = j
  /\ \A i, j \in DOMAIN c.queue : c.queue[i].url = c.queue[j].url => i = j
  /\ \A f, g \in c.inFlight : f.url = g.url => f = g
  /\ \A f \in c.inFlight : f.url \in c.visited
  /\ \A i \in DOMAIN c.pages : c.pages[i].url \in c.visited
  /\ \A i \in DOMAIN c.queue : c.queue[i].url \in c.visited
  /\ \A f \in c.inFlight, i \in DOMAIN c.pages : c.pages[i].url # f.url
  /\ \A f \in c.inFlight, i \in DOMAIN c.queue : c.queue[i].url # f.url
  /\ \A i \in DOMAIN c.pages, j \in DOMAIN c.queue : c.pages[i].url # c.queue[j].url

Windowed(c) == Len(c.pages) + Flying(c) <= c.opts.pages /\ Flying(c) <= c.opts.width
Politely(c) == /\ \A f \in c.inFlight : Allowed(c, f.url)
               /\ \A i \in DOMAIN c.pages : Allowed(c, c.pages[i].url)

(* What the loop has met and not passed over.                              *)
Met(c) == {[url |-> c.pages[i].url, depth |-> c.pages[i].depth] : i \in DOMAIN c.pages}
          \cup c.inFlight \cup {c.queue[i] : i \in DOMAIN c.queue}
Reaches(c, u) == c.opts.js \/ Wanted(c, u)
Narrow(c) == c.opts.width = 1

Known(c) == \A u \in c.visited : Reaches(c, u) => \E x \in Met(c) : x.url = u
Seeded(c) == \A u \in Seeds(c) : \E x \in Met(c) : x.url = u /\ x.depth = 0
Chained(c) == \A x \in Met(c) : x.depth > 0 =>
                 \E i \in DOMAIN c.pages : c.pages[i].depth = x.depth - 1
Brimful(c) == IF c.opts.js THEN Cardinality(c.visited) >= c.opts.pages
              ELSE Len(c.pages) >= c.opts.pages
Expanded(c) ==
  \A i \in DOMAIN c.pages :
    LET p == c.pages[i]
    IN  p.ok /\ p.depth < c.opts.depth =>
          \/ Brimful(c)
          \/ \A u \in Followed(c, p.url) :
               \E x \in Met(c) : x.url = u /\ (Narrow(c) => x.depth <= p.depth + 1)
(* One at a time, the loop goes level by level.                            *)
Levelled(c) ==
  Narrow(c) =>
    /\ \A i, j \in DOMAIN c.queue : /\ i <= j => c.queue[i].depth <= c.queue[j].depth
                                    /\ c.queue[j].depth <= c.queue[i].depth + 1
    /\ \A f \in c.inFlight, i \in DOMAIN c.queue :
         f.depth <= c.queue[i].depth /\ c.queue[i].depth <= f.depth + 1
    /\ \A i \in DOMAIN c.pages : /\ \A f \in c.inFlight : c.pages[i].depth <= f.depth
                                 /\ \A j \in DOMAIN c.queue : c.pages[i].depth <= c.queue[j].depth

Looping(c) == Known(c) /\ Seeded(c) /\ Chained(c) /\ Expanded(c) /\ Levelled(c)

Covered(c) ==
  ( /\ ~c.truncated /\ (\A i \in DOMAIN c.pages : c.pages[i].ok)
    /\ c.opts.width = 1 \/ c.opts.depth >= Cardinality(DOMAIN c.site.links) ) =>
  \A u \in Reachable(c, c.opts.depth) :
     u \in Landed(c) \/ (c.opts.js /\ Landing(c.site, u) \in c.site.same)
Probing(c) == /\ c.probes \in Seq(Urls(c) \ (c.visited \cup c.site.offsite))
              /\ \A i, j \in DOMAIN c.probes : c.probes[i] = c.probes[j] => i = j
              /\ \A i \in DOMAIN c.probes : Allowed(c, c.probes[i])
              /\ Len(c.pages) + Len(c.probes) <= c.opts.pages

Phases == {"idle", "maps", "browse", "crawl", "drain", "probe", "done", "failed"}
Unstarted(c) == /\ c.visited = {} /\ c.queue = <<>> /\ c.inFlight = {} /\ c.pages = <<>>
                /\ ~c.truncated /\ c.phase = IF c.opts.js THEN "browse" ELSE "maps"
                /\ c.maps \in Seq([name : DOMAIN c.site.lists, level : Nat])
InPhase(c) ==
  CASE c.phase \in {"maps", "browse"} -> Unstarted(c)
    [] c.phase = "crawl" -> Looping(c) /\ ~c.truncated
    [] c.phase = "drain" -> c.truncated
    [] c.phase = "probe" -> ~c.opts.js /\ c.inFlight = {} /\ Covered(c) /\ Probing(c)
    [] c.phase = "done"  -> c.inFlight = {} /\ Covered(c)
    [] OTHER -> TRUE
CrawlInv ==
  crawl.phase # "idle" => /\ crawl.phase \in Phases
     /\ CrawlFits(crawl) /\ Once(crawl) /\ Windowed(crawl) /\ Politely(crawl) /\ InPhase(crawl)

-----------------------------------------------------------------------------
(* The links a visitor follows are URLs of the site, on its host.          *)
LEMMA FollowedFit ==
  ASSUME NEW c, c.site \in Sites, NEW v
  PROVE  Followed(c, v) \subseteq Urls(c) \ c.site.offsite
<1>1. SiteOK(c.site)
  BY SiteAssumption
<1>2. LinksOf(c.site, v) \subseteq Urls(c)
  BY <1>1 DEF LinksOf, Urls, SiteOK
<1> QED BY <1>2 DEF Followed

(* What is so of the seeds, and of a page's links one click later, is so   *)
(* of all that is reachable.                                               *)
LEMMA ClicksBy ==
  ASSUME NEW U, NEW S, S \subseteq U, NEW links, \A v \in U : links[v] \subseteq U, NEW D \in Nat, NEW P,
         \A u \in S : <<0, u>> \in P,
         \A k \in Nat, v \in U : k < D /\ <<k, v>> \in P =>
            <<k + 1, v>> \in P /\ \A u \in links[v] : <<k + 1, u>> \in P
  PROVE  \A u \in Clicks(S, links, D) : <<D, u>> \in P
<1> DEFINE Rec(F) == [k \in Nat |-> IF k = 0 THEN S
                                    ELSE F[k - 1] \cup UNION {links[v] : v \in F[k - 1]}]
<1>1. PICK T : T = [p \in Nat \X SUBSET U |-> p[2] \cup UNION {links[v] : v \in p[2]}]
  OBVIOUS
<1>r. PICK g : Recurs(g, S, T)
  BY Recursion
<1>2. /\ g = [k \in Nat |-> g[k]] /\ g[0] = S
      /\ \A k \in Nat : g[k + 1] = T[<<k, g[k]>>]
  BY <1>r DEF Recurs
<1>3. PICK N : N = {k \in Nat : /\ g[k] \subseteq U
                                /\ k <= D => \A u \in g[k] : <<k, u>> \in P}
  OBVIOUS
<1>4. ASSUME NEW k \in Nat, g[k] \subseteq U
      PROVE  g[k + 1] = g[k] \cup UNION {links[v] : v \in g[k]}
  <2>1. <<k, g[k]>> \in Nat \X SUBSET U
    BY <1>4
  <2> QED BY <1>1, <1>2, <2>1
<1>5. 0 \in N
  BY <1>2, <1>3
<1>6. ASSUME NEW k \in Nat, k \in N PROVE k + 1 \in N
  <2>1. g[k] \subseteq U /\ g[k + 1] = g[k] \cup UNION {links[v] : v \in g[k]}
    BY <1>3, <1>4, <1>6
  <2>2. g[k + 1] \subseteq U
    BY <2>1
  <2>3. ASSUME k + 1 <= D, NEW u \in g[k + 1] PROVE <<k + 1, u>> \in P
    <3>1. k < D /\ \A v \in g[k] : <<k, v>> \in P
      BY <1>3, <1>6, <2>3
    <3> QED BY <2>1, <2>3, <3>1
  <2> QED BY <1>3, <2>2, <2>3
<1>7. \A k \in Nat : k \in N
  BY <1>5, <1>6, AllNaturals
<1>8. \A k \in Nat : g[k] \subseteq U
  BY <1>3, <1>7
<1>9. g = Rec(g)
  <2>1. ASSUME NEW k \in Nat
        PROVE  g[k] = IF k = 0 THEN S
                      ELSE g[k - 1] \cup UNION {links[v] : v \in g[k - 1]}
    <3>1. CASE k = 0
      BY <1>2, <3>1
    <3>2. CASE k # 0
      <4>1. k - 1 \in Nat /\ (k - 1) + 1 = k
        BY <3>2
      <4> QED BY <1>4, <1>8, <3>2, <4>1
    <3> QED BY <3>1, <3>2
  <2> QED BY <1>2, <2>1
<1>10. PICK f : f = CHOOSE F : F = Rec(F)
  OBVIOUS
<1>11. f = Rec(f)
  BY <1>9, <1>10
<1>12. Clicks(S, links, D) = f[D]
  BY <1>10 DEF Clicks
<1>13. PICK M : M = {k \in Nat : f[k] = g[k]}
  OBVIOUS
<1>14. 0 \in M
  BY <1>9, <1>11, <1>13
<1>15. ASSUME NEW k \in Nat, k \in M PROVE k + 1 \in M
  <2>1. f[k + 1] = f[k] \cup UNION {links[v] : v \in f[k]}
    <3>1. k + 1 # 0 /\ k + 1 \in Nat /\ (k + 1) - 1 = k
      OBVIOUS
    <3> HIDE DEF Rec
    <3>2. f[k + 1] = Rec(f)[k + 1]
      BY <1>11
    <3> QED BY <3>1, <3>2 DEF Rec
  <2>2. f[k] = g[k]
    BY <1>13, <1>15
  <2>3. f[k + 1] = g[k + 1]
    BY <1>4, <1>8, <2>1, <2>2
  <2> QED BY <1>13, <2>3
<1>16. \A k \in Nat : k \in M
  BY <1>14, <1>15, AllNaturals
<1>17. f[D] = g[D] /\ \A u \in g[D] : <<D, u>> \in P
  BY <1>3, <1>7, <1>13, <1>16
<1> QED BY <1>12, <1>17

(* The same of the pages of a site, as a visitor of the crawl clicks.      *)
LEMMA ReachedBy ==
  ASSUME NEW c, c.site \in Sites, Seeds(c) \subseteq Urls(c), NEW D \in Nat, NEW P,
         \A u \in Seeds(c) : <<0, u>> \in P,
         \A k \in Nat, v \in Urls(c) : k < D /\ <<k, v>> \in P =>
            <<k + 1, v>> \in P /\ \A u \in Followed(c, v) : <<k + 1, u>> \in P
  PROVE  \A u \in Reachable(c, D) : <<D, u>> \in P
<1>1. PICK F : F = [v \in Urls(c) |-> Followed(c, v)]
  OBVIOUS
<1>2. \A v \in Urls(c) : F[v] = Followed(c, v) /\ F[v] \subseteq Urls(c)
  BY <1>1, FollowedFit
<1>3. \A k \in Nat, v \in Urls(c) : k < D /\ <<k, v>> \in P =>
        <<k + 1, v>> \in P /\ \A u \in F[v] : <<k + 1, u>> \in P
  BY <1>2
<1>4. Reachable(c, D) = Clicks(Seeds(c), F, D)
  BY <1>1 DEF Reachable, Urls
<1>5. \A u \in Clicks(Seeds(c), F, D) : <<D, u>> \in P
  BY <1>2, <1>3, ClicksBy
<1> QED BY <1>4, <1>5

(* The room in the window is what the cap and the width leave.             *)
LEMMA RoomIs ==
  ASSUME NEW c, CrawlFits(c), Windowed(c)
  PROVE  /\ Room(c) \in Nat /\ Flying(c) \in Nat /\ Len(c.pages) \in Nat
         /\ Room(c) <= c.opts.width - Flying(c)
         /\ Room(c) <= c.opts.pages - Len(c.pages) - Flying(c)
<1>1. Flying(c) \in Nat
  BY FS_CardinalityType DEF CrawlFits, Flying
<1>2. Len(c.pages) \in Nat
  BY DEF CrawlFits
<1>3. c.opts.width \in Nat /\ c.opts.pages \in Nat
  BY SiteAssumption DEF CrawlFits
<1>4. PICK a, b : a = c.opts.width /\ b = c.opts.pages - Len(c.pages)
  OBVIOUS
<1>5. Min({a, b}) \in {a, b} /\ Min({a, b}) <= a /\ Min({a, b}) <= b
  <2>1. a \in Int /\ b \in Int
    BY <1>2, <1>3, <1>4
  <2>2. \E x \in {a, b} : \A y \in {a, b} : x <= y
    BY <2>1
  <2>3. PICK m : m = CHOOSE x \in {a, b} : \A y \in {a, b} : x <= y
    OBVIOUS
  <2>4. m \in {a, b} /\ \A y \in {a, b} : m <= y
    BY <2>2, <2>3
  <2> QED BY <2>3, <2>4 DEF Min
<1> QED BY <1>1, <1>2, <1>3, <1>4, <1>5, SMTT(40) DEF Room, Windowed, Flying

(* The places of the queue that the inner loop takes.                      *)
Taken(c, k) == {i \in 1 .. k : Reaches(c, c.queue[i].url)}
CutAt(c, k) == /\ Cardinality(Taken(c, k)) <= Room(c)
               /\ k = Len(c.queue) \/ Cardinality(Taken(c, k)) = Room(c)
               /\ \A j \in 0 .. k - 1 : Cardinality(Taken(c, j)) < Room(c)

(* How many of the queue are let in grows one by one.                      *)
LEMMA TakenGrows ==
  ASSUME NEW c, NEW k \in Nat
  PROVE  /\ IsFiniteSet(Taken(c, k)) /\ Cardinality(Taken(c, k)) \in Nat
         /\ Cardinality(Taken(c, 0)) = 0
         /\ Cardinality(Taken(c, k + 1)) <= Cardinality(Taken(c, k)) + 1
<1>1. \A n \in Nat : IsFiniteSet(Taken(c, n)) /\ Cardinality(Taken(c, n)) \in Nat
  <2> SUFFICES ASSUME NEW n \in Nat PROVE IsFiniteSet(Taken(c, n))
    BY FS_CardinalityType
  <2>1. IsFiniteSet(1 .. n) /\ Taken(c, n) \subseteq 1 .. n
    BY FS_Interval DEF Taken
  <2> QED BY <2>1, FS_Subset
<1>2. Taken(c, 0) = {}
  BY DEF Taken
<1>3. Taken(c, k + 1) \subseteq Taken(c, k) \cup {k + 1}
  BY DEF Taken
<1>4. /\ IsFiniteSet(Taken(c, k) \cup {k + 1})
      /\ Cardinality(Taken(c, k) \cup {k + 1}) <= Cardinality(Taken(c, k)) + 1
  <2>1. PICK S : S = Taken(c, k)
    OBVIOUS
  <2>2. IsFiniteSet(S) /\ Cardinality(S) \in Nat
    BY <1>1, <2>1
  <2>3. /\ IsFiniteSet(S \cup {k + 1})
        /\ Cardinality(S \cup {k + 1}) = IF k + 1 \in S THEN Cardinality(S) ELSE Cardinality(S) + 1
    BY <2>2, FS_AddElement
  <2> QED BY <2>1, <2>2, <2>3
<1>5. Cardinality(Taken(c, k + 1)) <= Cardinality(Taken(c, k) \cup {k + 1})
  BY <1>3, <1>4, FS_Subset
<1>6. Cardinality(Taken(c, k) \cup {k + 1}) \in Nat /\ k + 1 \in Nat
  BY <1>4, FS_CardinalityType
<1> QED BY <1>1, <1>2, <1>4, <1>5, <1>6, FS_EmptySet

(* There is a place to stop taking: where the room or the queue ends.      *)
LEMMA CutIs ==
  ASSUME NEW c, CrawlFits(c), Windowed(c)
  PROVE  \E k \in 0 .. Len(c.queue) : CutAt(c, k)
<1>1. Room(c) \in Nat /\ Len(c.queue) \in Nat
  <2>1. Len(c.queue) \in Nat
    BY DEF CrawlFits
  <2> QED BY <2>1, RoomIs
<1>2. PICK K : K = {k \in 0 .. Len(c.queue) : k = Len(c.queue) \/ Cardinality(Taken(c, k)) >= Room(c)}
  OBVIOUS
<1>3. K \subseteq Nat /\ Len(c.queue) \in K
  BY <1>1, <1>2
<1>4. PICK m \in K : \A n \in K : m <= n
  BY <1>3, LeastOf
<1>5. m \in 0 .. Len(c.queue) /\ m \in Nat
  BY <1>2
<1>6. \A j \in 0 .. m - 1 : Cardinality(Taken(c, j)) < Room(c)
  <2> SUFFICES ASSUME NEW j \in 0 .. m - 1 PROVE Cardinality(Taken(c, j)) < Room(c)
    OBVIOUS
  <2>1. j \in 0 .. Len(c.queue) /\ j # Len(c.queue) /\ j \in Nat /\ j < m
    BY <1>1, <1>5
  <2>2. j \notin K
    BY <1>3, <1>4, <2>1
  <2> QED BY <1>1, <1>2, <2>1, <2>2, TakenGrows
<1>7. Cardinality(Taken(c, m)) <= Room(c)
  <2>1. CASE m = 0
    BY <1>1, <2>1, TakenGrows
  <2>2. CASE m # 0
    <3>1. m - 1 \in Nat /\ m - 1 \in 0 .. m - 1 /\ (m - 1) + 1 = m
      BY <1>5, <2>2
    <3>2. Cardinality(Taken(c, m)) <= Cardinality(Taken(c, m - 1)) + 1
      BY <3>1, TakenGrows
    <3>3. Cardinality(Taken(c, m - 1)) \in Nat /\ Cardinality(Taken(c, m)) \in Nat
      BY <3>1, <1>5, TakenGrows
    <3> QED BY <1>1, <1>6, <3>1, <3>2, <3>3
  <2> QED BY <2>1, <2>2
<1>8. m = Len(c.queue) \/ Cardinality(Taken(c, m)) = Room(c)
  BY <1>1, <1>2, <1>5, <1>7, TakenGrows
<1> QED BY <1>5, <1>6, <1>7, <1>8 DEF CutAt

(* The window filled from the queue: its first cut places go, and those    *)
(* that may be asked for are in the air.                                   *)
Items(c, k) == {c.queue[i] : i \in Taken(c, k)}
Refilled(c, r, cut) ==
  /\ r = [c EXCEPT !.inFlight = r.inFlight, !.queue = r.queue]
  /\ r.inFlight = c.inFlight \cup Items(c, cut) /\ r.queue = SubSeq(c.queue, cut + 1, Len(c.queue))
  /\ cut \in 0 .. Len(c.queue)
  /\ Cardinality(c.inFlight \cup Items(c, cut)) + Len(c.pages) <= c.opts.pages
  /\ Cardinality(c.inFlight \cup Items(c, cut)) <= c.opts.width

(* What Fill does, place by place, or that it does nothing.                *)
LEMMA FillRefills ==
  ASSUME NEW c, CrawlFits(c), Windowed(c)
  PROVE  \E cut : Refilled(c, Fill(c), cut)
<1>1. CASE Len(c.pages) >= c.opts.pages
  <2>1. Fill(c) = c
    BY <1>1 DEF Fill
  <2>2. Items(c, 0) = {}
    BY DEF Items, Taken
  <2>3. SubSeq(c.queue, 0 + 1, Len(c.queue)) = c.queue
    BY DEF CrawlFits
  <2>4. c = [c EXCEPT !.inFlight = c.inFlight, !.queue = c.queue]
    BY DEF CrawlFits, CrawlFields
  <2>7. c.inFlight \cup Items(c, 0) = c.inFlight /\ 0 \in 0 .. Len(c.queue)
    BY <2>2 DEF CrawlFits
  <2>8. /\ Cardinality(c.inFlight \cup Items(c, 0)) + Len(c.pages) <= c.opts.pages
        /\ Cardinality(c.inFlight \cup Items(c, 0)) <= c.opts.width
    <3>1. Len(c.pages) \in Nat /\ Flying(c) \in Nat /\ c.opts.pages \in Nat
      BY RoomIs, SiteAssumption DEF CrawlFits
    <3>2. Flying(c) + Len(c.pages) <= c.opts.pages /\ Flying(c) <= c.opts.width
      BY <3>1 DEF Windowed
    <3>3. Cardinality(c.inFlight \cup Items(c, 0)) = Flying(c)
      BY <2>7 DEF Flying
    <3> QED BY <3>2, <3>3
  <2>9. Refilled(c, c, 0)
    BY <2>3, <2>4, <2>7, <2>8 DEF Refilled
  <2> QED BY <2>1, <2>9
<1>2. CASE ~(Len(c.pages) >= c.opts.pages)
  <2>1. PICK cut : cut = CHOOSE k \in 0 .. Len(c.queue) : CutAt(c, k)
    OBVIOUS
  <2>2. cut \in 0 .. Len(c.queue) /\ CutAt(c, cut)
    BY <2>1, CutIs
  <2>3. Fill(c) = [c EXCEPT !.inFlight = @ \cup Items(c, cut), !.queue = SubSeq(@, cut + 1, Len(@))]
    BY <1>2, <2>1 DEF Fill, CutAt, Taken, Items, Reaches
  <2>4. cut \in Nat /\ IsFiniteSet(Taken(c, cut))
    BY <2>2, TakenGrows
  <2>5. IsFiniteSet(Items(c, cut)) /\ Cardinality(Items(c, cut)) <= Cardinality(Taken(c, cut))
    <3>1. PICK f : f = [i \in Taken(c, cut) |-> c.queue[i]]
      OBVIOUS
    <3>2. f \in Surjection(Taken(c, cut), Items(c, cut))
      BY <3>1 DEF Surjection, Items
    <3> QED BY <2>4, <3>2, FS_Surjection
  <2>6. IsFiniteSet(c.inFlight)
    BY DEF CrawlFits
  <2>7. Cardinality(c.inFlight \cup Items(c, cut)) <= Flying(c) + Cardinality(Items(c, cut))
    <3>1. Cardinality(c.inFlight \cup Items(c, cut))
            = Cardinality(c.inFlight) + Cardinality(Items(c, cut)) - Cardinality(c.inFlight \cap Items(c, cut))
      BY <2>5, <2>6, FS_Union
    <3>2. Cardinality(c.inFlight \cap Items(c, cut)) \in Nat
      BY <2>6, FS_Intersection, FS_CardinalityType
    <3>3. Cardinality(c.inFlight) \in Nat /\ Cardinality(Items(c, cut)) \in Nat
      BY <2>5, <2>6, FS_CardinalityType
    <3> QED BY <3>1, <3>2, <3>3 DEF Flying
  <2>8. /\ Cardinality(c.inFlight \cup Items(c, cut)) \in Nat /\ Cardinality(Items(c, cut)) \in Nat
        /\ Cardinality(Taken(c, cut)) \in Nat /\ c.opts.width \in Nat /\ c.opts.pages \in Nat
    BY <2>4, <2>5, <2>6, FS_Union, FS_CardinalityType, SiteAssumption DEF CrawlFits
  <2>9. Cardinality(Taken(c, cut)) <= Room(c)
    BY <2>2 DEF CutAt
  <2>10. /\ Room(c) \in Nat /\ Flying(c) \in Nat /\ Len(c.pages) \in Nat
         /\ Room(c) <= c.opts.width - Flying(c)
         /\ Room(c) <= c.opts.pages - Len(c.pages) - Flying(c)
    BY RoomIs
  <2>11. /\ Cardinality(c.inFlight \cup Items(c, cut)) + Len(c.pages) <= c.opts.pages
         /\ Cardinality(c.inFlight \cup Items(c, cut)) <= c.opts.width
    BY <2>5, <2>7, <2>8, <2>9, <2>10, SMTT(40)
  <2>12. Refilled(c, Fill(c), cut)
    <3>1. PICK r, x, y : r = Fill(c) /\ x = c.inFlight \cup Items(c, cut) /\ y = SubSeq(c.queue, cut + 1, Len(c.queue))
      OBVIOUS
    <3>2. r = [c EXCEPT !.inFlight = x, !.queue = y]
      BY <2>3, <3>1
    <3>3. r.inFlight = x /\ r.queue = y
      BY <3>2 DEF CrawlFits, CrawlFields
    <3>4. r = [c EXCEPT !.inFlight = r.inFlight, !.queue = r.queue]
      BY <3>2, <3>3
    <3>5. Refilled(c, r, cut)
      BY <2>2, <2>11, <3>1, <3>3, <3>4 DEF Refilled
    <3> QED BY <3>1, <3>5
  <2> QED BY <2>12
<1> QED BY <1>1, <1>2

(* The site, the limits and what robots.txt and the maps said stay.        *)
SameSite(c, r) == r.site = c.site /\ r.opts = c.opts /\ r.disallow = c.disallow /\ r.listed = c.listed

(* Who sees the same site under the same limits follows the same links.    *)
LEMMA AlikeSees ==
  ASSUME NEW c, NEW r, SameSite(c, r)
  PROVE  /\ Urls(r) = Urls(c) /\ Steps(r) = Steps(c) /\ Seeds(r) = Seeds(c) /\ (Narrow(r) <=> Narrow(c))
         /\ \A u : Reaches(r, u) <=> Reaches(c, u)
         /\ \A u : Allowed(r, u) <=> Allowed(c, u)
         /\ \A v : Followed(r, v) = Followed(c, v)
<1>1. Urls(r) = Urls(c) /\ Steps(r) = Steps(c) /\ (Narrow(r) <=> Narrow(c))
  BY DEF SameSite, Urls, Steps, Narrow
<1>2. \A u : (Wanted(r, u) <=> Wanted(c, u)) /\ (Allowed(r, u) <=> Allowed(c, u))
  BY DEF SameSite, Wanted, Allowed, Filtered
<1>3. Seeds(r) = Seeds(c)
  BY <1>2 DEF SameSite, Seeds
<1>4. \A v : Followed(r, v) = Followed(c, v)
  BY <1>2 DEF SameSite, Followed
<1> QED BY <1>1, <1>2, <1>3, <1>4 DEF SameSite, Reaches

(* What a refill leaves as it was, and what the queue is after it.         *)
LEMMA LetInto ==
  ASSUME NEW c, CrawlFits(c), NEW r, NEW cut, Refilled(c, r, cut)
  PROVE  /\ r = [f \in CrawlFields |-> r[f]] /\ SameSite(c, r)
         /\ r.phase = c.phase /\ r.visited = c.visited /\ r.pages = c.pages
         /\ r.truncated = c.truncated /\ r.late = c.late
         /\ r.queue \in Seq(Steps(c)) /\ c.queue \in Seq(Steps(c)) /\ cut \in Nat
         /\ DOMAIN c.queue \subseteq Nat /\ DOMAIN r.queue \subseteq Nat \ {0}
         /\ \A j \in DOMAIN r.queue : j + cut \in DOMAIN c.queue /\ r.queue[j] = c.queue[j + cut]
         /\ \A i \in DOMAIN c.queue : i > cut => i - cut \in DOMAIN r.queue
         /\ \A f \in r.inFlight : f \in c.inFlight
               \/ \E i \in DOMAIN c.queue : i <= cut /\ f = c.queue[i] /\ Reaches(c, f.url)
         /\ c.inFlight \subseteq r.inFlight
         /\ \A i \in DOMAIN c.queue : i <= cut /\ Reaches(c, c.queue[i].url) => c.queue[i] \in r.inFlight
<1>1. r = [c EXCEPT !.inFlight = r.inFlight, !.queue = r.queue]
  BY DEF Refilled
<1>2. r = [f \in CrawlFields |-> r[f]]
  BY <1>1 DEF CrawlFits, CrawlFields
<1>3. /\ SameSite(c, r) /\ r.phase = c.phase /\ r.visited = c.visited /\ r.pages = c.pages
      /\ r.truncated = c.truncated /\ r.late = c.late
  BY <1>1 DEF CrawlFits, CrawlFields, SameSite
<1>4. PICK q : q = c.queue
  OBVIOUS
<1>5. q \in Seq(Steps(c)) /\ Len(q) \in Nat /\ cut \in 0 .. Len(q) /\ r.queue = SubSeq(q, cut + 1, Len(q))
  <2>1. q \in Seq(Steps(c))
    BY <1>4 DEF CrawlFits
  <2>2. cut \in 0 .. Len(q) /\ r.queue = SubSeq(q, cut + 1, Len(q))
    BY <1>4 DEF Refilled
  <2> QED BY <2>1, <2>2
<1>6. r.queue \in Seq(Steps(c)) /\ Len(r.queue) = Len(q) - cut
      /\ \A j \in 1 .. Len(q) - cut : r.queue[j] = q[j + cut]
  BY <1>5
<1>7. DOMAIN r.queue = 1 .. Len(q) - cut /\ DOMAIN q = 1 .. Len(q)
  BY <1>5, <1>6
<1>8. ASSUME NEW j \in DOMAIN r.queue PROVE j + cut \in DOMAIN q /\ r.queue[j] = q[j + cut]
  <2>1. j \in 1 .. Len(q) - cut
    BY <1>7
  <2>2. j + cut \in 1 .. Len(q)
    BY <1>5, <2>1
  <2> QED BY <1>6, <1>7, <2>1, <2>2
<1>9. \A i \in DOMAIN q : i > cut => i - cut \in DOMAIN r.queue
  BY <1>5, <1>7
<1>10. \A f : f \in r.inFlight <=> f \in c.inFlight \/ \E i \in 1 .. cut : Reaches(c, q[i].url) /\ f = q[i]
  BY <1>4 DEF Refilled, Items, Taken
<1>11. \A i : i \in 1 .. cut <=> i \in DOMAIN q /\ i <= cut
  BY <1>5, <1>7
<1>12. \A f \in r.inFlight : f \in c.inFlight
               \/ \E i \in DOMAIN q : i <= cut /\ f = q[i] /\ Reaches(c, f.url)
  BY <1>10, <1>11
<1>13. \A i \in DOMAIN q : i <= cut /\ Reaches(c, q[i].url) => q[i] \in r.inFlight
  BY <1>10, <1>11
<1>14. cut \in Nat /\ DOMAIN q \subseteq Nat /\ DOMAIN r.queue \subseteq Nat \ {0}
  BY <1>5, <1>7
<1> QED BY <1>2, <1>3, <1>4, <1>5, <1>6, <1>8, <1>9, <1>10, <1>12, <1>13, <1>14

(* A refill respects cap, width, robots.txt and asks for nothing twice.    *)
LEMMA RefillSafe ==
  ASSUME NEW c, CrawlFits(c), Once(c), Politely(c), Windowed(c), NEW r, NEW cut, Refilled(c, r, cut)
  PROVE  CrawlFits(r) /\ Once(r) /\ Politely(r) /\ Windowed(r)
<1>1. PICK q : q = c.queue
  OBVIOUS
<1>2. /\ r = [f \in CrawlFields |-> r[f]] /\ SameSite(c, r)
      /\ r.phase = c.phase /\ r.visited = c.visited /\ r.pages = c.pages
      /\ r.truncated = c.truncated /\ r.late = c.late
      /\ r.queue \in Seq(Steps(c))
      /\ \A j \in DOMAIN r.queue : j + cut \in DOMAIN q /\ r.queue[j] = q[j + cut]
      /\ \A f \in r.inFlight : f \in c.inFlight
            \/ \E i \in DOMAIN q : i <= cut /\ f = q[i] /\ Reaches(c, f.url)
  BY <1>1, LetInto
<1>3. /\ Urls(r) = Urls(c) /\ Steps(r) = Steps(c)
      /\ \A u : Allowed(r, u) <=> Allowed(c, u)
  BY <1>2, AlikeSees
<1>4. cut \in Nat /\ q \in Seq(Steps(c)) /\ DOMAIN q \subseteq Nat /\ DOMAIN r.queue \subseteq Nat \ {0}
  BY <1>1, LetInto
<1>5. IsFiniteSet(r.inFlight)
  <2>1. cut \in Nat /\ IsFiniteSet(Taken(c, cut))
    BY <1>4, TakenGrows
  <2>2. PICK f : f = [i \in Taken(c, cut) |-> q[i]]
    OBVIOUS
  <2>3. f \in Surjection(Taken(c, cut), Items(c, cut))
    BY <1>1, <2>2 DEF Surjection, Items
  <2>4. IsFiniteSet(Items(c, cut)) /\ IsFiniteSet(c.inFlight)
    BY <2>1, <2>3, FS_Surjection DEF CrawlFits
  <2>5. IsFiniteSet(c.inFlight \cup Items(c, cut))
    BY <2>4, FS_Union
  <2> QED BY <2>5 DEF Refilled
<1>6. r.inFlight \subseteq Steps(c)
  <2>1. c.inFlight \subseteq Steps(c) /\ \A i \in DOMAIN q : q[i] \in Steps(c)
    BY <1>4 DEF CrawlFits
  <2> QED BY <1>2, <2>1
<1>7. CrawlFits(r)
  BY <1>2, <1>3, <1>5, <1>6 DEF CrawlFits, SameSite
<1>8. Windowed(r)
  <2>1. /\ Cardinality(r.inFlight) + Len(r.pages) <= r.opts.pages /\ Cardinality(r.inFlight) <= r.opts.width
    BY <1>2 DEF Refilled, SameSite
  <2>2. Cardinality(r.inFlight) \in Nat /\ Len(r.pages) \in Nat /\ r.opts.pages \in Nat
    BY <1>5, <1>7, FS_CardinalityType, SiteAssumption DEF CrawlFits
  <2> QED BY <2>1, <2>2 DEF Windowed, Flying
<1>9. Politely(r)
  <2>1. ASSUME NEW f \in r.inFlight PROVE Allowed(c, f.url)
    <3>1. Reaches(c, f.url) => Allowed(c, f.url)
      BY DEF Reaches, Wanted, Allowed, CrawlFits
    <3> QED BY <1>2, <3>1 DEF Politely
  <2> QED BY <1>2, <1>3, <2>1 DEF Politely
<1>10. Once(r)
  <2>1. \A i \in DOMAIN q, p \in DOMAIN c.pages : c.pages[p].url # q[i].url
    BY <1>1 DEF Once
  <2>2. \A i, j \in DOMAIN q : q[i].url = q[j].url => i = j
    BY <1>1 DEF Once
  <2>3. \A i \in DOMAIN q, f \in c.inFlight : f.url # q[i].url
    BY <1>1 DEF Once
  <2>4. \A i \in DOMAIN q : q[i].url \in c.visited
    BY <1>1 DEF Once
  <2>5. ASSUME NEW i \in DOMAIN r.queue, NEW j \in DOMAIN r.queue, r.queue[i].url = r.queue[j].url PROVE i = j
    <3>0. i + cut \in DOMAIN q /\ j + cut \in DOMAIN q /\ r.queue[i] = q[i + cut] /\ r.queue[j] = q[j + cut]
      BY <1>2
    <3>1. i + cut = j + cut
      <4>1. PICK a, b : a = i + cut /\ b = j + cut
        OBVIOUS
      <4>2. q[a].url = q[b].url /\ a \in DOMAIN q /\ b \in DOMAIN q
        BY <2>5, <3>0, <4>1
      <4> QED BY <2>2, <4>1, <4>2
    <3> QED BY <1>4, <3>1
  <2>6. ASSUME NEW f \in r.inFlight, NEW g \in r.inFlight, f.url = g.url PROVE f = g
    <3>1. CASE f \in c.inFlight /\ g \in c.inFlight
      BY <2>6, <3>1 DEF Once
    <3>2. CASE f \notin c.inFlight /\ g \notin c.inFlight
      <4>1. PICK i \in DOMAIN q, j \in DOMAIN q : f = q[i] /\ g = q[j]
        BY <1>2, <3>2
      <4> QED BY <2>2, <2>6, <4>1
    <3>3. CASE f \in c.inFlight /\ g \notin c.inFlight
      BY <1>2, <2>3, <2>6, <3>3
    <3>4. CASE f \notin c.inFlight /\ g \in c.inFlight
      BY <1>2, <2>3, <2>6, <3>4
    <3> QED BY <3>1, <3>2, <3>3, <3>4
  <2>7. \A f \in r.inFlight : f.url \in c.visited /\ \A p \in DOMAIN c.pages : c.pages[p].url # f.url
    BY <1>2, <2>1, <2>4 DEF Once
  <2>8. ASSUME NEW f \in r.inFlight, NEW j \in DOMAIN r.queue PROVE r.queue[j].url # f.url
    <3>1. CASE f \in c.inFlight
      BY <1>2, <2>3, <3>1
    <3>2. CASE \E i \in DOMAIN q : i <= cut /\ f = q[i]
      <4>1. PICK i \in DOMAIN q : i <= cut /\ f = q[i]
        BY <3>2
      <4>2. i # j + cut
        BY <1>4, <4>1
      <4> QED BY <1>2, <2>2, <4>1, <4>2
    <3> QED BY <1>2, <3>1, <3>2
  <2>9. \A j \in DOMAIN r.queue : r.queue[j].url \in c.visited /\ \A p \in DOMAIN c.pages : c.pages[p].url # r.queue[j].url
    BY <1>2, <2>1, <2>4
  <2>10. /\ \A i, j \in DOMAIN c.pages : c.pages[i].url = c.pages[j].url => i = j
         /\ \A i \in DOMAIN c.pages : c.pages[i].url \in c.visited
    BY DEF Once
  <2>11. \A i \in DOMAIN c.pages, j \in DOMAIN r.queue : c.pages[i].url # r.queue[j].url
    BY <2>9
  <2>12. \A f \in r.inFlight, i \in DOMAIN c.pages : c.pages[i].url # f.url
    BY <2>7
  <2>13. /\ \A f \in r.inFlight : f.url \in c.visited
         /\ \A j \in DOMAIN r.queue : r.queue[j].url \in c.visited
    BY <2>7, <2>9
  <2>14. PICK p, v : p = c.pages /\ v = c.visited /\ p = r.pages /\ v = r.visited
    BY <1>2
  <2>15. /\ \A i, j \in DOMAIN r.pages : r.pages[i].url = r.pages[j].url => i = j
         /\ \A i \in DOMAIN r.pages : r.pages[i].url \in r.visited
         /\ \A i \in DOMAIN r.pages, j \in DOMAIN r.queue : r.pages[i].url # r.queue[j].url
         /\ \A f \in r.inFlight, i \in DOMAIN r.pages : r.pages[i].url # f.url
         /\ \A f \in r.inFlight : f.url \in r.visited
         /\ \A j \in DOMAIN r.queue : r.queue[j].url \in r.visited
    BY <2>10, <2>11, <2>12, <2>13, <2>14
  <2>16. /\ \A i, j \in DOMAIN r.queue : r.queue[i].url = r.queue[j].url => i = j
         /\ \A f, g \in r.inFlight : f.url = g.url => f = g
         /\ \A f \in r.inFlight, j \in DOMAIN r.queue : r.queue[j].url # f.url
    BY <2>5, <2>6, <2>8
  <2> QED BY <2>15, <2>16, Zenon DEF Once
<1> QED BY <1>7, <1>8, <1>9, <1>10

(* A refill keeps what the loop knows of what it met.                      *)
LEMMA RefillLoops ==
  ASSUME NEW c, CrawlFits(c), Looping(c), NEW r, NEW cut, Refilled(c, r, cut)
  PROVE  Looping(r)
<1>1. PICK q : q = c.queue
  OBVIOUS
<1>2. /\ SameSite(c, r) /\ r.visited = c.visited /\ r.pages = c.pages
      /\ \A j \in DOMAIN r.queue : j + cut \in DOMAIN q /\ r.queue[j] = q[j + cut]
      /\ \A i \in DOMAIN q : i > cut => i - cut \in DOMAIN r.queue
      /\ \A f \in r.inFlight : f \in c.inFlight
            \/ \E i \in DOMAIN q : i <= cut /\ f = q[i] /\ Reaches(c, f.url)
      /\ c.inFlight \subseteq r.inFlight
      /\ \A i \in DOMAIN q : i <= cut /\ Reaches(c, q[i].url) => q[i] \in r.inFlight
  BY <1>1, LetInto
<1>3. /\ Seeds(r) = Seeds(c) /\ (Narrow(r) <=> Narrow(c))
      /\ \A u : Reaches(r, u) <=> Reaches(c, u)
      /\ \A v : Followed(r, v) = Followed(c, v)
  BY <1>2, AlikeSees
<1>4. cut \in Nat /\ q \in Seq(Steps(c)) /\ DOMAIN q \subseteq Nat /\ DOMAIN r.queue \subseteq Nat \ {0}
  BY <1>1, LetInto
<1>5. \A x \in Met(r) : x \in Met(c)
  BY <1>1, <1>2 DEF Met
<1>6. ASSUME NEW x \in Met(c), Reaches(c, x.url) PROVE x \in Met(r)
  <2>1. CASE \E i \in DOMAIN q : x = q[i]
    <3>1. PICK i \in DOMAIN q : x = q[i]
      BY <2>1
    <3>2. CASE i <= cut
      BY <1>2, <1>6, <3>1, <3>2 DEF Met
    <3>3. CASE i > cut
      <4>1. i - cut \in DOMAIN r.queue /\ (i - cut) + cut = i
        BY <1>2, <1>4, <3>3
      <4>2. r.queue[i - cut] = x
        BY <1>2, <3>1, <4>1
      <4> QED BY <4>1, <4>2 DEF Met
    <3> QED BY <1>4, <3>2, <3>3
  <2>2. CASE ~\E i \in DOMAIN q : x = q[i]
    BY <1>1, <1>2, <2>2 DEF Met
  <2> QED BY <2>1, <2>2
<1>7. Known(r)
  BY <1>2, <1>3, <1>6 DEF Looping, Known
<1>8. Seeded(r)
  <2>1. \A u \in Seeds(c) : Reaches(c, u)
    BY DEF Seeds, Reaches
  <2> QED BY <1>3, <1>6, <2>1 DEF Looping, Seeded
<1>9. Chained(r)
  BY <1>2, <1>5 DEF Looping, Chained
<1>10. Expanded(r)
  <2> SUFFICES ASSUME NEW i \in DOMAIN r.pages, r.pages[i].ok, r.pages[i].depth < r.opts.depth, ~Brimful(r),
                      NEW u \in Followed(r, r.pages[i].url)
               PROVE  \E x \in Met(r) : x.url = u /\ (Narrow(r) => x.depth <= r.pages[i].depth + 1)
    BY DEF Expanded
  <2>1. ~Brimful(c)
    BY <1>2 DEF Brimful, SameSite
  <2>2. PICK x \in Met(c) : x.url = u /\ (Narrow(c) => x.depth <= c.pages[i].depth + 1)
    BY <1>2, <1>3, <2>1 DEF Looping, Expanded, SameSite
  <2>3. Reaches(c, u)
    BY <1>3 DEF Followed, Reaches
  <2> QED BY <1>2, <1>3, <1>6, <2>2, <2>3
<1>11. Levelled(r)
  <2> SUFFICES ASSUME Narrow(c) PROVE Levelled(r)
    BY <1>3 DEF Levelled
  <2>1. /\ \A i, j \in DOMAIN q : /\ i <= j => q[i].depth <= q[j].depth
                                  /\ q[j].depth <= q[i].depth + 1
        /\ \A f \in c.inFlight, i \in DOMAIN q : f.depth <= q[i].depth /\ q[i].depth <= f.depth + 1
        /\ \A i \in DOMAIN c.pages : /\ \A f \in c.inFlight : c.pages[i].depth <= f.depth
                                     /\ \A j \in DOMAIN q : c.pages[i].depth <= q[j].depth
    BY <1>1 DEF Looping, Levelled
  <2>2. ASSUME NEW i \in DOMAIN r.queue, NEW j \in DOMAIN r.queue
        PROVE  /\ i <= j => r.queue[i].depth <= r.queue[j].depth
               /\ r.queue[j].depth <= r.queue[i].depth + 1
    <3>1. /\ i + cut \in DOMAIN q /\ j + cut \in DOMAIN q
          /\ r.queue[i] = q[i + cut] /\ r.queue[j] = q[j + cut]
      BY <1>2
    <3>2. i <= j => i + cut <= j + cut
      BY <1>4
    <3> QED BY <2>1, <3>1, <3>2
  <2>3. ASSUME NEW f \in r.inFlight, NEW j \in DOMAIN r.queue
        PROVE  f.depth <= r.queue[j].depth /\ r.queue[j].depth <= f.depth + 1
    <3>1. j + cut \in DOMAIN q /\ r.queue[j] = q[j + cut]
      BY <1>2
    <3>2. CASE f \in c.inFlight
      BY <2>1, <3>1, <3>2
    <3>3. CASE f \notin c.inFlight
      <4>1. PICK m \in DOMAIN q : m <= cut /\ f = q[m]
        BY <1>2, <3>3
      <4>2. m <= j + cut
        BY <1>4, <4>1
      <4> QED BY <2>1, <3>1, <4>1, <4>2
    <3> QED BY <3>2, <3>3
  <2>4. ASSUME NEW i \in DOMAIN r.pages
        PROVE  /\ \A f \in r.inFlight : r.pages[i].depth <= f.depth
               /\ \A j \in DOMAIN r.queue : r.pages[i].depth <= r.queue[j].depth
    BY <1>2, <2>1
  <2> QED BY <2>2, <2>3, <2>4 DEF Levelled
<1> QED BY <1>7, <1>8, <1>9, <1>10, <1>11 DEF Looping

(* A finite set as a sequence: each member at one place.                   *)
LEMMA SetToSeqIs ==
  ASSUME NEW S, IsFiniteSet(S), NEW q, q = SetToSeq(S)
  PROVE  /\ q \in Seq(S) /\ Len(q) = Cardinality(S) /\ Cardinality(S) \in Nat
         /\ \A i, j \in DOMAIN q : q[i] = q[j] => i = j
         /\ \A x \in S : \E i \in DOMAIN q : q[i] = x
<1>1. Cardinality(S) \in Nat /\ ExistsBijection(1 .. Cardinality(S), S)
  BY FS_CardinalityType
<1>2. PICK f : f \in Bijection(1 .. Cardinality(S), S)
  BY <1>1 DEF ExistsBijection
<1>3. f \in [1 .. Cardinality(S) -> S] /\ IsInjective(f)
  BY <1>2 DEF Bijection, Injection, IsInjective
<1>4. q \in [1 .. Cardinality(S) -> S] /\ IsInjective(q)
  BY <1>3 DEF SetToSeq
<1>5. q \in Injection(1 .. Cardinality(S), S)
  BY <1>4 DEF Injection, IsInjective
<1>6. IsFiniteSet(1 .. Cardinality(S)) /\ Cardinality(1 .. Cardinality(S)) = Cardinality(S)
  BY <1>1, FS_Interval
<1>7. q \in Surjection(1 .. Cardinality(S), S)
  BY <1>5, <1>6, FS_Injection
<1>8. \A x \in S : \E i \in 1 .. Cardinality(S) : q[i] = x
  BY <1>7 DEF Surjection
<1>9. q \in Seq(S) /\ Len(q) = Cardinality(S) /\ DOMAIN q = 1 .. Cardinality(S)
  BY <1>1, <1>4
<1> QED BY <1>1, <1>4, <1>8, <1>9 DEF IsInjective

(* The URLs of a set, all at one depth.                                    *)
OnePlaceEach(c, q, S, d) ==
  /\ q \in Seq(Steps(c)) /\ Len(q) \in Nat
  /\ \A i \in DOMAIN q : q[i].url \in S /\ q[i].depth = d
  /\ \A i, j \in DOMAIN q : q[i].url = q[j].url => i = j
  /\ \A u \in S : \E i \in DOMAIN q : q[i].url = u

(* URLs of one depth, queued: each at one place.                           *)
LEMMA StepsOf ==
  ASSUME NEW c, c.site \in Sites, NEW S, S \subseteq Urls(c), NEW d \in Nat, NEW q,
         q = SetToSeq({[url |-> u, depth |-> d] : u \in S})
  PROVE  OnePlaceEach(c, q, S, d)
<1>1. PICK T : T = {[url |-> u, depth |-> d] : u \in S}
  OBVIOUS
<1>2. T \subseteq Steps(c) /\ \A x \in T : x = [url |-> x.url, depth |-> d] /\ x.url \in S
  BY <1>1 DEF Steps
<1>3. IsFiniteSet(T)
  <2>1. SiteOK(c.site)
    BY SiteAssumption
  <2>2. IsFiniteSet(S)
    BY <2>1, FS_Subset DEF SiteOK, Urls
  <2>3. PICK f : f = [u \in S |-> [url |-> u, depth |-> d]]
    OBVIOUS
  <2>4. f \in Surjection(S, T)
    BY <1>1, <2>3 DEF Surjection
  <2> QED BY <2>2, <2>4, FS_Surjection
<1>4. /\ q \in Seq(T) /\ Len(q) \in Nat
      /\ \A i, j \in DOMAIN q : q[i] = q[j] => i = j
      /\ \A x \in T : \E i \in DOMAIN q : q[i] = x
  BY <1>1, <1>3, SetToSeqIs
<1>5. q \in Seq(Steps(c)) /\ \A i \in DOMAIN q : q[i] \in T
  <2>1. q \in [1 .. Len(q) -> T] /\ DOMAIN q = 1 .. Len(q)
    BY <1>4
  <2>2. q \in [1 .. Len(q) -> Steps(c)]
    BY <1>2, <2>1
  <2>3. Len(q) \in Nat
    BY <1>4
  <2>4. q \in Seq(Steps(c))
    BY <2>2, <2>3
  <2> QED BY <2>1, <2>4
<1>6. ASSUME NEW i \in DOMAIN q, NEW j \in DOMAIN q, q[i].url = q[j].url PROVE i = j
  <2>1. q[i] = q[j]
    BY <1>2, <1>5, <1>6
  <2> QED BY <1>4, <2>1
<1>7. ASSUME NEW u \in S PROVE \E i \in DOMAIN q : q[i].url = u
  <2>0. [url |-> u, depth |-> d] \in T
    BY <1>1, Zenon
  <2>1. PICK x \in T : x.url = u
    BY <2>0
  <2> QED BY <1>4, <2>1
<1>8. \A x \in T : x.depth = d
  BY <1>1
<1> QED BY <1>2, <1>4, <1>5, <1>6, <1>7, <1>8 DEF OnePlaceEach

(* Where the loop starts: everything met is a seed, none clicked on yet.   *)
SeedAt(c) ==
  LET s     == c.site
      urls  == c.listed \ s.offsite
      seeds == SetToSeq({[url |-> u, depth |-> 0] : u \in urls})
  IN  [c EXCEPT !.phase = "crawl", !.visited = urls \cup {s.root},
                !.queue = IF s.root \in urls THEN seeds ELSE Append(seeds, Root(s))]

(* The queue of the seeds: what the maps list on this host and the root.   *)
LEMMA SeedQueue ==
  ASSUME NEW c, CrawlFits(c), NEW q, q = SeedAt(c).queue, NEW U, U = (c.listed \ c.site.offsite) \cup {c.site.root}
  PROVE  U \subseteq Urls(c) \ c.site.offsite /\ OnePlaceEach(c, q, U, 0)
<1>1. c.site \in Sites /\ c.site.root \in Urls(c) \ c.site.offsite /\ c.listed \subseteq Urls(c)
  <2>1. SiteOK(c.site)
    BY SiteAssumption DEF CrawlFits
  <2> QED BY <2>1 DEF SiteOK, Urls, CrawlFits
<1>2. PICK S : S = c.listed \ c.site.offsite
  OBVIOUS
<1>3. PICK s : s = SetToSeq({[url |-> u, depth |-> 0] : u \in S})
  OBVIOUS
<1>4. /\ s \in Seq(Steps(c)) /\ Len(s) \in Nat
      /\ \A i \in DOMAIN s : s[i].url \in S /\ s[i].depth = 0
      /\ \A i, j \in DOMAIN s : s[i].url = s[j].url => i = j
      /\ \A u \in S : \E i \in DOMAIN s : s[i].url = u
  <2>1. S \subseteq Urls(c) /\ 0 \in Nat /\ c.site \in Sites
    BY <1>1, <1>2
  <2>2. OnePlaceEach(c, s, S, 0)
    BY <1>3, <2>1, StepsOf
  <2> QED BY <2>2 DEF OnePlaceEach
<1>5. q = IF c.site.root \in S THEN s ELSE Append(s, Root(c.site))
  BY <1>2, <1>3 DEF SeedAt, CrawlFits, CrawlFields
<1>6. U \subseteq Urls(c) \ c.site.offsite
  BY <1>1
<1>7. CASE c.site.root \in S
  <2>1. q = s /\ U = S
    BY <1>2, <1>5, <1>7
  <2> QED BY <1>4, <1>6, <2>1 DEF OnePlaceEach
<1>8. CASE c.site.root \notin S
  <2>1. PICK a : a = Root(c.site)
    OBVIOUS
  <2>2. a \in Steps(c) /\ a.url = c.site.root /\ a.depth = 0
    BY <1>1, <2>1 DEF Root, Steps
  <2>3. /\ q \in Seq(Steps(c)) /\ DOMAIN q = 1 .. Len(s) + 1 /\ DOMAIN s = 1 .. Len(s)
        /\ q[Len(s) + 1] = a /\ \A i \in DOMAIN s : q[i] = s[i]
    BY <1>4, <1>5, <1>8, <2>1, <2>2
  <2>4. \A i \in DOMAIN q : i \in DOMAIN s \/ i = Len(s) + 1
    BY <1>4, <2>3
  <2>5. \A i \in DOMAIN q : q[i].url \in U /\ q[i].depth = 0
    BY <1>2, <1>4, <2>2, <2>3, <2>4
  <2>6. ASSUME NEW i \in DOMAIN q, NEW j \in DOMAIN q, q[i].url = q[j].url PROVE i = j
    <3>1. \A k \in DOMAIN s : q[k].url # a.url
      BY <1>4, <1>8, <2>2, <2>3
    <3> QED BY <1>4, <2>3, <2>4, <2>6, <3>1
  <2>7. Len(s) + 1 \in DOMAIN q /\ DOMAIN s \subseteq DOMAIN q
    BY <1>4, <2>3
  <2>8. \A u \in U : \E i \in DOMAIN q : q[i].url = u
    BY <1>2, <1>4, <2>2, <2>3, <2>7
  <2> QED BY <1>6, <2>3, <2>5, <2>6, <2>8 DEF OnePlaceEach
<1> QED BY <1>7, <1>8

(* What the loop knows is so where it starts.                              *)
LEMMA SeedLoops ==
  ASSUME NEW c, CrawlFits(c), Unstarted(c)
  PROVE  /\ CrawlFits(SeedAt(c)) /\ Once(SeedAt(c)) /\ Windowed(SeedAt(c)) /\ Politely(SeedAt(c))
         /\ Looping(SeedAt(c)) /\ SeedAt(c).phase = "crawl" /\ ~SeedAt(c).truncated
<1>1. PICK b, q, U : b = SeedAt(c) /\ q = SeedAt(c).queue /\ U = (c.listed \ c.site.offsite) \cup {c.site.root}
  OBVIOUS
<1>2. /\ q \in Seq(Steps(c)) /\ U \subseteq Urls(c) \ c.site.offsite
      /\ \A i \in DOMAIN q : q[i].url \in U /\ q[i].depth = 0
      /\ \A i, j \in DOMAIN q : q[i].url = q[j].url => i = j
      /\ \A u \in U : \E i \in DOMAIN q : q[i].url = u
  <2>1. U \subseteq Urls(c) \ c.site.offsite /\ OnePlaceEach(c, q, U, 0)
    BY <1>1, SeedQueue
  <2> QED BY <2>1 DEF OnePlaceEach
<1>3. /\ b = [f \in CrawlFields |-> b[f]] /\ SameSite(c, b) /\ b.phase = "crawl" /\ b.visited = U /\ b.queue = q
      /\ b.inFlight = c.inFlight /\ b.pages = c.pages /\ b.truncated = c.truncated /\ b.late = c.late
  BY <1>1 DEF SeedAt, CrawlFits, CrawlFields, SameSite
<1>4. b.inFlight = {} /\ b.pages = <<>> /\ ~b.truncated /\ DOMAIN b.pages = {}
  <2>1. b.inFlight = {} /\ b.pages = <<>> /\ ~b.truncated
    BY <1>3 DEF Unstarted
  <2>2. DOMAIN << >> = {}
    OBVIOUS
  <2> QED BY <2>1, <2>2
<1>5. Urls(b) = Urls(c) /\ Steps(b) = Steps(c) /\ Seeds(b) = Seeds(c)
  BY <1>3, AlikeSees
<1>6. CrawlFits(b)
  BY <1>2, <1>3, <1>5 DEF CrawlFits, SameSite
<1>7. Once(b)
  BY <1>2, <1>3, <1>4 DEF Once
<1>8. Windowed(b)
  <2>1. Flying(b) = 0 /\ Len(b.pages) = 0
    BY <1>4, FS_EmptySet DEF Flying
  <2>2. b.opts.pages \in Nat \ {0} /\ b.opts.width \in Nat \ {0}
    BY <1>6, SiteAssumption DEF CrawlFits
  <2> QED BY <2>1, <2>2 DEF Windowed
<1>9. Politely(b)
  BY <1>4 DEF Politely
<1>m. Met(b) = {q[i] : i \in DOMAIN q}
  BY <1>3, <1>4 DEF Met
<1>10. \A x \in Met(b) : x.depth = 0
  BY <1>2, <1>m
<1>11. \A u \in U : \E x \in Met(b) : x.url = u /\ x.depth = 0
  BY <1>2, <1>m
<1>12. Known(b) /\ Chained(b) /\ Expanded(b)
  <2>1. Known(b)
    BY <1>3, <1>11 DEF Known
  <2>2. Chained(b)
    BY <1>10 DEF Chained
  <2>3. Expanded(b)
    BY <1>4 DEF Expanded
  <2> QED BY <2>1, <2>2, <2>3
<1>13. Seeded(b)
  <2>1. Seeds(c) \subseteq U
    BY <1>1 DEF Seeds
  <2> QED BY <1>5, <1>11, <2>1 DEF Seeded
<1>14. Levelled(b)
  <2>1. \A i \in DOMAIN b.queue : b.queue[i].depth = 0
    BY <1>2, <1>3
  <2>2. /\ \A i, j \in DOMAIN b.queue : /\ i <= j => b.queue[i].depth <= b.queue[j].depth
                                        /\ b.queue[j].depth <= b.queue[i].depth + 1
    BY <2>1
  <2> QED BY <1>4, <2>2 DEF Levelled
<1> QED BY <1>1, <1>3, <1>4, <1>6, <1>7, <1>8, <1>9, <1>12, <1>13, <1>14 DEF Looping

(* Every page and every place of the queue stands for another URL met.     *)
LEMMA MetFit ==
  ASSUME NEW c, CrawlFits(c), Once(c)
  PROVE  /\ IsFiniteSet(c.visited) /\ Cardinality(c.visited) \in Nat /\ Len(c.pages) \in Nat /\ Len(c.queue) \in Nat
         /\ Len(c.pages) + Len(c.queue) <= Cardinality(c.visited)
<1>1. PICK p, q, m, n : p = c.pages /\ q = c.queue /\ m = Len(p) /\ n = Len(q)
  OBVIOUS
<1>2. m \in Nat /\ n \in Nat /\ DOMAIN p = 1 .. m /\ DOMAIN q = 1 .. n
  <2>1. q \in Seq(Steps(c)) /\ p \in Seq([url : Urls(c), depth : Nat, ok : BOOLEAN])
    BY <1>1 DEF CrawlFits
  <2> QED BY <1>1, <2>1
<1>3. IsFiniteSet(c.visited)
  <2>1. SiteOK(c.site)
    BY SiteAssumption DEF CrawlFits
  <2>2. c.visited \subseteq Urls(c)
    BY DEF CrawlFits
  <2> QED BY <2>1, <2>2, FS_Subset DEF SiteOK, Urls
<1>4. PICK f : f = [i \in 1 .. m + n |-> IF i <= m THEN p[i].url ELSE q[i - m].url]
  OBVIOUS
<1>5. /\ \A i \in 1 .. m : p[i].url \in c.visited
      /\ \A i \in 1 .. n : q[i].url \in c.visited
      /\ \A i, j \in 1 .. m : p[i].url = p[j].url => i = j
      /\ \A i, j \in 1 .. n : q[i].url = q[j].url => i = j
      /\ \A i \in 1 .. m, j \in 1 .. n : p[i].url # q[j].url
  BY <1>1, <1>2 DEF Once
<1>6. \A i \in 1 .. m + n : IF i <= m THEN i \in 1 .. m ELSE i - m \in 1 .. n
  BY <1>2
<1>7. f \in [1 .. m + n -> c.visited]
  BY <1>4, <1>5, <1>6
<1>8. ASSUME NEW i \in 1 .. m + n, NEW j \in 1 .. m + n, f[i] = f[j] PROVE i = j
  <2>1. CASE i <= m /\ j <= m
    BY <1>4, <1>5, <1>6, <1>8, <2>1
  <2>2. CASE ~(i <= m) /\ ~(j <= m)
    <3>1. q[i - m].url = q[j - m].url /\ i - m \in 1 .. n /\ j - m \in 1 .. n
      BY <1>4, <1>6, <1>8, <2>2
    <3>2. i - m = j - m
      BY <1>5, <3>1
    <3> QED BY <1>2, <3>2
  <2>3. CASE i <= m /\ ~(j <= m)
    BY <1>4, <1>5, <1>6, <1>8, <2>3
  <2>4. CASE ~(i <= m) /\ j <= m
    BY <1>4, <1>5, <1>6, <1>8, <2>4
  <2> QED BY <2>1, <2>2, <2>3, <2>4
<1>9. f \in Injection(1 .. m + n, c.visited)
  BY <1>7, <1>8 DEF Injection, IsInjective
<1>10. Cardinality(1 .. m + n) = m + n
  BY <1>2, FS_Interval
<1>11. m + n <= Cardinality(c.visited)
  BY <1>3, <1>9, <1>10, FS_Injection
<1> QED BY <1>1, <1>2, <1>3, <1>11, FS_CardinalityType

(* One fetch has landed, well or not: its URL is a page now.               *)
LandedAs(c, item, ok) == Record([c EXCEPT !.inFlight = @ \ {item}], item, ok)

Lands(c, item, ok, b) ==
  /\ b = [f \in CrawlFields |-> b[f]] /\ SameSite(c, b)
  /\ b.phase = c.phase /\ b.visited = c.visited /\ b.queue = c.queue
  /\ b.truncated = c.truncated /\ b.late = c.late
  /\ b.inFlight = c.inFlight \ {item}
  /\ b.pages = Append(c.pages, [url |-> item.url, depth |-> item.depth, ok |-> ok])
  /\ item \in Steps(c) /\ item = [url |-> item.url, depth |-> item.depth]
  /\ item.url \in Urls(c) /\ item.depth \in Nat
  /\ c.pages \in Seq([url : Urls(c), depth : Nat, ok : BOOLEAN]) /\ Len(c.pages) \in Nat
  /\ DOMAIN c.pages = 1 .. Len(c.pages) /\ DOMAIN b.pages = 1 .. Len(c.pages) + 1
  /\ \A i \in DOMAIN c.pages : i \in DOMAIN b.pages /\ b.pages[i] = c.pages[i]
  /\ Len(c.pages) + 1 \in DOMAIN b.pages
  /\ b.pages[Len(c.pages) + 1] = [url |-> item.url, depth |-> item.depth, ok |-> ok]
  /\ Len(b.pages) = Len(c.pages) + 1
  /\ \A i \in DOMAIN b.pages : i \in DOMAIN c.pages \/ i = Len(c.pages) + 1

(* What the landing of one fetch changes.                                  *)
LEMMA LandingIs ==
  ASSUME NEW c, CrawlFits(c), NEW item \in c.inFlight, NEW ok \in BOOLEAN, NEW b, b = LandedAs(c, item, ok)
  PROVE  Lands(c, item, ok, b)
<1>1. /\ b = [f \in CrawlFields |-> b[f]] /\ SameSite(c, b)
      /\ b.phase = c.phase /\ b.visited = c.visited /\ b.queue = c.queue
      /\ b.truncated = c.truncated /\ b.late = c.late
      /\ b.inFlight = c.inFlight \ {item}
      /\ b.pages = Append(c.pages, [url |-> item.url, depth |-> item.depth, ok |-> ok])
  BY DEF LandedAs, Record, CrawlFits, CrawlFields, SameSite
<1>2. item \in Steps(c)
  BY DEF CrawlFits
<1>3. item = [url |-> item.url, depth |-> item.depth] /\ item.url \in Urls(c) /\ item.depth \in Nat
  BY <1>2 DEF Steps
<1>4. PICK p, n, g, P : /\ p = c.pages /\ n = Len(p) /\ P = [url : Urls(c), depth : Nat, ok : BOOLEAN]
                        /\ g = [url |-> item.url, depth |-> item.depth, ok |-> ok]
  OBVIOUS
<1>5. p \in Seq(P)
  BY <1>4 DEF CrawlFits
<1>6. g \in P
  BY <1>3, <1>4
<1>7. n \in Nat /\ DOMAIN p = 1 .. n
  BY <1>4, <1>5
<1>8. PICK s : s = Append(p, g)
  OBVIOUS
<1>9. /\ DOMAIN s = 1 .. n + 1 /\ Len(s) = n + 1 /\ s[n + 1] = g
      /\ \A i \in 1 .. n : s[i] = p[i]
  BY <1>4, <1>5, <1>6, <1>7, <1>8
<1>10. /\ \A i \in 1 .. n : i \in 1 .. n + 1
       /\ n + 1 \in 1 .. n + 1 /\ \A i \in 1 .. n + 1 : i \in 1 .. n \/ i = n + 1
  BY <1>7
<1>11. s = b.pages
  BY <1>1, <1>4, <1>8
<1> QED BY <1>1, <1>2, <1>3, <1>4, <1>5, <1>7, <1>9, <1>10, <1>11 DEF Lands

(* A landing respects cap, width, robots.txt and takes no page twice.      *)
LEMMA LandingSafe ==
  ASSUME NEW c, CrawlFits(c), Once(c), Politely(c), Windowed(c), NEW item \in c.inFlight, NEW ok \in BOOLEAN,
         NEW b, b = LandedAs(c, item, ok)
  PROVE  CrawlFits(b) /\ Once(b) /\ Politely(b) /\ Windowed(b)
<1>1. PICK n, g : n = Len(c.pages) /\ g = [url |-> item.url, depth |-> item.depth, ok |-> ok]
  OBVIOUS
<1>2. /\ b = [f \in CrawlFields |-> b[f]] /\ SameSite(c, b)
      /\ b.phase = c.phase /\ b.visited = c.visited /\ b.queue = c.queue
      /\ b.truncated = c.truncated /\ b.late = c.late
      /\ b.inFlight = c.inFlight \ {item} /\ b.pages = Append(c.pages, g)
      /\ item.url \in Urls(c) /\ item.depth \in Nat
      /\ c.pages \in Seq([url : Urls(c), depth : Nat, ok : BOOLEAN]) /\ n \in Nat /\ Len(b.pages) = n + 1
      /\ \A i \in DOMAIN b.pages : i = n + 1 \/ (i \in DOMAIN c.pages /\ b.pages[i] = c.pages[i])
      /\ b.pages[n + 1] = g
  <2>1. Lands(c, item, ok, b)
    BY LandingIs
  <2> QED BY <1>1, <2>1 DEF Lands
<1>3. Urls(b) = Urls(c) /\ Steps(b) = Steps(c) /\ \A u : Allowed(b, u) <=> Allowed(c, u)
  BY <1>2, AlikeSees
<1>4. g.url = item.url
  BY <1>1
<1>5. IsFiniteSet(c.inFlight) /\ IsFiniteSet(b.inFlight) /\ Flying(b) = Flying(c) - 1 /\ Flying(c) \in Nat
  <2>1. IsFiniteSet(c.inFlight)
    BY DEF CrawlFits
  <2> QED BY <1>2, <2>1, FS_RemoveElement, FS_CardinalityType DEF Flying
<1>6. CrawlFits(b)
  <2>1. g \in [url : Urls(c), depth : Nat, ok : BOOLEAN]
    BY <1>1, <1>2
  <2>2. b.pages \in Seq([url : Urls(b), depth : Nat, ok : BOOLEAN])
    <3>1. PICK P, p : P = [url : Urls(c), depth : Nat, ok : BOOLEAN] /\ p = c.pages
      OBVIOUS
    <3>2. p \in Seq(P) /\ g \in P /\ b.pages = Append(p, g)
      BY <1>2, <2>1, <3>1
    <3>3. b.pages \in Seq(P)
      BY <3>2
    <3> QED BY <1>3, <3>1, <3>3
  <2>3. b.inFlight \subseteq Steps(b)
    BY <1>2, <1>3 DEF CrawlFits
  <2>4. /\ b.site = c.site /\ b.opts = c.opts /\ b.disallow = c.disallow /\ b.listed = c.listed
    BY <1>2 DEF SameSite
  <2>5. /\ c.site \in Sites /\ c.opts \in Options /\ (c.opts.js => c.disallow = {})
        /\ c.listed \subseteq Urls(c) /\ (c.opts.js => c.listed = {})
        /\ c.visited \subseteq Urls(c) \ c.site.offsite /\ c.queue \in Seq(Steps(c))
        /\ c.truncated \in BOOLEAN /\ c.late \in BOOLEAN
    BY DEF CrawlFits
  <2> QED BY <1>2, <1>3, <1>5, <2>2, <2>3, <2>4, <2>5 DEF CrawlFits
<1>7. Windowed(b)
  <2>1. n + Flying(c) <= c.opts.pages /\ Flying(c) <= c.opts.width
    BY <1>1 DEF Windowed
  <2>2. c.opts.pages \in Nat /\ c.opts.width \in Nat /\ b.opts = c.opts
    BY <1>2, SiteAssumption DEF CrawlFits, SameSite
  <2>3. Len(b.pages) + Flying(b) <= c.opts.pages /\ Flying(b) <= c.opts.width
    BY <1>2, <1>5, <2>1, <2>2, SMTT(40)
  <2> QED BY <2>2, <2>3 DEF Windowed
<1>8. Politely(b)
  <2>1. ASSUME NEW i \in DOMAIN b.pages PROVE Allowed(c, b.pages[i].url)
    <3>1. Allowed(c, g.url)
      BY <1>4 DEF Politely
    <3>2. CASE i = n + 1
      BY <1>2, <3>1, <3>2
    <3>3. CASE i # n + 1
      BY <1>2, <3>3 DEF Politely
    <3> QED BY <3>2, <3>3
  <2>2. \A f \in b.inFlight : Allowed(c, f.url)
    BY <1>2 DEF Politely
  <2> QED BY <1>3, <2>1, <2>2 DEF Politely
<1>9. Once(b)
  <2>1. /\ \A i, j \in DOMAIN c.pages : c.pages[i].url = c.pages[j].url => i = j
        /\ \A i \in DOMAIN c.pages : c.pages[i].url \in c.visited
        /\ \A i \in DOMAIN c.pages : c.pages[i].url # g.url
        /\ \A i \in DOMAIN c.pages, j \in DOMAIN c.queue : c.pages[i].url # c.queue[j].url
        /\ \A f \in c.inFlight, i \in DOMAIN c.pages : c.pages[i].url # f.url
    BY <1>4 DEF Once
  <2>2. /\ g.url \in c.visited
        /\ \A j \in DOMAIN c.queue : g.url # c.queue[j].url
        /\ \A f \in b.inFlight : f.url # g.url
    <3>1. item.url \in c.visited /\ \A j \in DOMAIN c.queue : c.queue[j].url # item.url
      BY DEF Once
    <3>2. \A f \in c.inFlight : f.url = item.url => f = item
      BY DEF Once
    <3>3. \A f \in b.inFlight : f \in c.inFlight /\ f # item
      BY <1>2
    <3> QED BY <1>4, <3>1, <3>2, <3>3
  <2>p. /\ b.pages[n + 1].url = g.url
        /\ \A i \in DOMAIN b.pages : i # n + 1 => i \in DOMAIN c.pages /\ b.pages[i].url = c.pages[i].url
    BY <1>2
  <2>3. /\ \A i, j \in DOMAIN c.queue : c.queue[i].url = c.queue[j].url => i = j
        /\ \A f, h \in b.inFlight : f.url = h.url => f = h
        /\ \A f \in b.inFlight : f.url \in c.visited
        /\ \A i \in DOMAIN c.queue : c.queue[i].url \in c.visited
        /\ \A f \in b.inFlight, i \in DOMAIN c.queue : c.queue[i].url # f.url
    BY <1>2 DEF Once
  <2>4. ASSUME NEW i \in DOMAIN b.pages, NEW j \in DOMAIN b.pages, b.pages[i].url = b.pages[j].url PROVE i = j
    <3>1. CASE i = n + 1 /\ j = n + 1
      BY <3>1
    <3>2. CASE i = n + 1 /\ j # n + 1
      BY <2>1, <2>4, <2>p, <3>2
    <3>3. CASE i # n + 1 /\ j = n + 1
      BY <2>1, <2>4, <2>p, <3>3
    <3>4. CASE i # n + 1 /\ j # n + 1
      BY <2>1, <2>4, <2>p, <3>4
    <3> QED BY <3>1, <3>2, <3>3, <3>4
  <2>5. ASSUME NEW i \in DOMAIN b.pages
        PROVE  /\ b.pages[i].url \in c.visited
               /\ \A j \in DOMAIN c.queue : b.pages[i].url # c.queue[j].url
               /\ \A f \in b.inFlight : b.pages[i].url # f.url
    <3>1. CASE i = n + 1
      BY <2>2, <2>p, <3>1
    <3>2. CASE i # n + 1
      <4>1. i \in DOMAIN c.pages /\ b.pages[i].url = c.pages[i].url
        BY <2>p, <3>2
      <4>2. /\ c.pages[i].url \in c.visited
            /\ \A j \in DOMAIN c.queue : c.pages[i].url # c.queue[j].url
        BY <2>1, <4>1
      <4>3. \A f \in b.inFlight : c.pages[i].url # f.url
        BY <1>2, <2>1, <4>1
      <4> QED BY <4>1, <4>2, <4>3
    <3> QED BY <3>1, <3>2
  <2>6. /\ \A i, j \in DOMAIN b.queue : b.queue[i].url = b.queue[j].url => i = j
        /\ \A f, h \in b.inFlight : f.url = h.url => f = h
        /\ \A f \in b.inFlight : f.url \in b.visited
        /\ \A i \in DOMAIN b.queue : b.queue[i].url \in b.visited
        /\ \A f \in b.inFlight, i \in DOMAIN b.queue : b.queue[i].url # f.url
    <3>1. PICK q, v : q = c.queue /\ v = c.visited /\ q = b.queue /\ v = b.visited
      BY <1>2
    <3> QED BY <2>3, <3>1
  <2>7. /\ \A i, j \in DOMAIN b.pages : b.pages[i].url = b.pages[j].url => i = j
        /\ \A i \in DOMAIN b.pages : b.pages[i].url \in b.visited
        /\ \A f \in b.inFlight, i \in DOMAIN b.pages : b.pages[i].url # f.url
        /\ \A i \in DOMAIN b.pages, j \in DOMAIN b.queue : b.pages[i].url # b.queue[j].url
    <3>1. PICK q, v : q = c.queue /\ v = c.visited /\ q = b.queue /\ v = b.visited
      BY <1>2
    <3> QED BY <2>4, <2>5, <3>1
  <2> QED BY <2>6, <2>7, Zenon DEF Once
<1> QED BY <1>6, <1>7, <1>8, <1>9

(* What the new page adds nothing to, and where it stands in the order.    *)
ExpandedAt(c, i) ==
  c.pages[i].ok /\ c.pages[i].depth < c.opts.depth =>
    \/ Brimful(c)
    \/ \A u \in Followed(c, c.pages[i].url) :
         \E x \in Met(c) : x.url = u /\ (Narrow(c) => x.depth <= c.pages[i].depth + 1)
InFront(c, item) ==
  Narrow(c) => /\ c.inFlight = {}
               /\ \A i \in DOMAIN c.queue : item.depth <= c.queue[i].depth /\ c.queue[i].depth <= item.depth + 1
               /\ \A i \in DOMAIN c.pages : c.pages[i].depth <= item.depth

(* What the loop knows survives a landing, before its links are read.      *)
LEMMA LandingLoops ==
  ASSUME NEW c, CrawlFits(c), Windowed(c), Looping(c), NEW item \in c.inFlight, NEW ok \in BOOLEAN,
         NEW b, b = LandedAs(c, item, ok)
  PROVE  /\ Known(b) /\ Seeded(b) /\ Chained(b) /\ Levelled(b) /\ InFront(b, item)
         /\ \A i \in DOMAIN c.pages : ExpandedAt(b, i)
<1>1. PICK n, g : n = Len(c.pages) /\ g = [url |-> item.url, depth |-> item.depth, ok |-> ok]
  OBVIOUS
<1>2. /\ SameSite(c, b) /\ b.visited = c.visited /\ b.queue = c.queue
      /\ b.inFlight = c.inFlight \ {item}
      /\ item = [url |-> item.url, depth |-> item.depth] /\ item.depth \in Nat
      /\ n \in Nat /\ Len(b.pages) = n + 1 /\ n + 1 \in DOMAIN b.pages /\ b.pages[n + 1] = g
      /\ \A i \in DOMAIN c.pages : i \in DOMAIN b.pages /\ b.pages[i] = c.pages[i]
      /\ \A i \in DOMAIN b.pages : i = n + 1 \/ (i \in DOMAIN c.pages /\ b.pages[i] = c.pages[i])
  <2>1. Lands(c, item, ok, b)
    BY LandingIs
  <2> QED BY <1>1, <2>1 DEF Lands
<1>3. g.url = item.url /\ g.depth = item.depth
  BY <1>1
<1>4. /\ Seeds(b) = Seeds(c) /\ (Narrow(b) <=> Narrow(c))
      /\ (\A u : Reaches(b, u) <=> Reaches(c, u)) /\ \A v : Followed(b, v) = Followed(c, v)
  BY <1>2, AlikeSees
<1>5. ASSUME NEW x \in Met(c) PROVE x \in Met(b)
  <2>1. CASE x = item
    <3>1. x = [url |-> b.pages[n + 1].url, depth |-> b.pages[n + 1].depth]
      BY <1>2, <1>3, <2>1
    <3> QED BY <1>2, <3>1 DEF Met
  <2>2. CASE x # item /\ x \in c.inFlight
    BY <1>2, <2>2 DEF Met
  <2>3. CASE \E i \in DOMAIN c.queue : x = c.queue[i]
    BY <1>2, <2>3 DEF Met
  <2>4. CASE \E i \in DOMAIN c.pages : x = [url |-> c.pages[i].url, depth |-> c.pages[i].depth]
    <3>1. PICK i \in DOMAIN c.pages : x = [url |-> c.pages[i].url, depth |-> c.pages[i].depth]
      BY <2>4
    <3>2. i \in DOMAIN b.pages /\ x = [url |-> b.pages[i].url, depth |-> b.pages[i].depth]
      BY <1>2, <3>1
    <3> QED BY <3>2 DEF Met
  <2> QED BY <2>1, <2>2, <2>3, <2>4 DEF Met
<1>6. ASSUME NEW x \in Met(b) PROVE x \in Met(c)
  <2>1. CASE x \in b.inFlight \/ \E i \in DOMAIN b.queue : x = b.queue[i]
    BY <1>2, <2>1 DEF Met
  <2>2. CASE \E i \in DOMAIN b.pages : x = [url |-> b.pages[i].url, depth |-> b.pages[i].depth]
    <3>1. PICK i \in DOMAIN b.pages : x = [url |-> b.pages[i].url, depth |-> b.pages[i].depth]
      BY <2>2
    <3>2. CASE i = n + 1
      <4>1. x = item
        BY <1>2, <1>3, <3>1, <3>2
      <4> QED BY <4>1 DEF Met
    <3>3. CASE i # n + 1
      <4>1. i \in DOMAIN c.pages /\ x = [url |-> c.pages[i].url, depth |-> c.pages[i].depth]
        BY <1>2, <3>1, <3>3
      <4> QED BY <4>1 DEF Met
    <3> QED BY <3>2, <3>3
  <2> QED BY <2>1, <2>2 DEF Met
<1>7. Known(b)
  BY <1>2, <1>4, <1>5 DEF Looping, Known
<1>8. Seeded(b)
  BY <1>4, <1>5 DEF Looping, Seeded
<1>9. Chained(b)
  <2> SUFFICES ASSUME NEW x \in Met(b), x.depth > 0 PROVE \E i \in DOMAIN b.pages : b.pages[i].depth = x.depth - 1
    BY DEF Chained
  <2>1. PICK i \in DOMAIN c.pages : c.pages[i].depth = x.depth - 1
    BY <1>6 DEF Looping, Chained
  <2> QED BY <1>2, <2>1
<1>10. ASSUME Narrow(c) PROVE b.inFlight = {}
  <2>1. Cardinality(c.inFlight) <= 1 /\ IsFiniteSet(c.inFlight)
    BY <1>10 DEF Narrow, Windowed, Flying, CrawlFits
  <2>2. Cardinality(c.inFlight) \in Nat /\ Cardinality(c.inFlight) # 0
    BY <2>1, FS_CardinalityType, FS_EmptySet
  <2>3. IsFiniteSet(b.inFlight) /\ Cardinality(b.inFlight) = Cardinality(c.inFlight) - 1
    BY <1>2, <2>1, FS_RemoveElement, ZenonT(60)
  <2>4. Cardinality(b.inFlight) = 0
    BY <2>1, <2>2, <2>3
  <2> QED BY <2>3, <2>4, FS_EmptySet
<1>11. ASSUME Narrow(c)
       PROVE  /\ \A i, j \in DOMAIN c.queue : /\ i <= j => c.queue[i].depth <= c.queue[j].depth
                                              /\ c.queue[j].depth <= c.queue[i].depth + 1
              /\ \A i \in DOMAIN c.queue : item.depth <= c.queue[i].depth /\ c.queue[i].depth <= item.depth + 1
              /\ \A i \in DOMAIN c.pages : c.pages[i].depth <= item.depth
              /\ \A i \in DOMAIN c.pages, j \in DOMAIN c.queue : c.pages[i].depth <= c.queue[j].depth
  BY <1>11 DEF Looping, Levelled
<1>12. InFront(b, item)
  <2> SUFFICES ASSUME Narrow(c) PROVE InFront(b, item)
    BY <1>4 DEF InFront
  <2>1. ASSUME NEW i \in DOMAIN b.pages PROVE b.pages[i].depth <= item.depth
    <3>1. CASE i = n + 1
      BY <1>2, <1>3, <3>1
    <3>2. CASE i # n + 1
      BY <1>2, <1>11, <3>2
    <3> QED BY <3>1, <3>2
  <2> QED BY <1>2, <1>10, <1>11, <2>1 DEF InFront
<1>13. Levelled(b)
  <2> SUFFICES ASSUME Narrow(c) PROVE Levelled(b)
    BY <1>4 DEF Levelled
  <2>1. ASSUME NEW i \in DOMAIN b.pages, NEW j \in DOMAIN b.queue PROVE b.pages[i].depth <= b.queue[j].depth
    <3>1. CASE i = n + 1
      BY <1>2, <1>3, <1>11, <3>1
    <3>2. CASE i # n + 1
      BY <1>2, <1>11, <3>2
    <3> QED BY <3>1, <3>2
  <2>2. /\ \A i, j \in DOMAIN b.queue : /\ i <= j => b.queue[i].depth <= b.queue[j].depth
                                        /\ b.queue[j].depth <= b.queue[i].depth + 1
    BY <1>2, <1>11
  <2> QED BY <1>10, <2>1, <2>2 DEF Levelled
<1>14. ASSUME NEW i \in DOMAIN c.pages PROVE ExpandedAt(b, i)
  <2> SUFFICES ASSUME b.pages[i].ok, b.pages[i].depth < b.opts.depth, ~Brimful(b),
                      NEW u \in Followed(b, b.pages[i].url)
               PROVE  \E x \in Met(b) : x.url = u /\ (Narrow(b) => x.depth <= b.pages[i].depth + 1)
    BY DEF ExpandedAt
  <2>1. b.pages[i] = c.pages[i] /\ b.opts = c.opts
    BY <1>2 DEF SameSite
  <2>2. ~Brimful(c)
    <3>1. c.opts.pages \in Nat
      BY SiteAssumption DEF CrawlFits
    <3> QED BY <1>1, <1>2, <2>1, <3>1 DEF Brimful
  <2>3. PICK x \in Met(c) : x.url = u /\ (Narrow(c) => x.depth <= c.pages[i].depth + 1)
    BY <1>4, <2>1, <2>2 DEF Looping, Expanded
  <2> QED BY <1>4, <1>5, <2>1, <2>3
<1> QED BY <1>7, <1>8, <1>9, <1>12, <1>13, <1>14

(* A finite set has subsets of every size up to its own.                   *)
LEMMA SubsetOfSize ==
  ASSUME NEW S, IsFiniteSet(S), NEW n \in Nat, n <= Cardinality(S)
  PROVE  \E T \in SUBSET S : Cardinality(T) = n
<1>1. PICK f : f \in Bijection(1 .. Cardinality(S), S)
  BY FS_CardinalityType DEF ExistsBijection
<1>2. Cardinality(S) \in Nat
  BY FS_CardinalityType
<1>3. /\ \A i \in 1 .. Cardinality(S) : f[i] \in S
      /\ \A i, j \in 1 .. Cardinality(S) : f[i] = f[j] => i = j
  BY <1>1 DEF Bijection, Injection, IsInjective
<1>4. PICK T, g : T = {f[i] : i \in 1 .. n} /\ g = [i \in 1 .. n |-> f[i]]
  OBVIOUS
<1>5. \A i \in 1 .. n : i \in 1 .. Cardinality(S)
  BY <1>2
<1>6. g \in Bijection(1 .. n, T)
  <2>1. g \in [1 .. n -> T] /\ \A t \in T : \E i \in 1 .. n : g[i] = t
    BY <1>4
  <2>2. \A i, j \in 1 .. n : g[i] = g[j] => i = j
    BY <1>3, <1>4, <1>5
  <2> QED BY <2>1, <2>2 DEF Bijection, Injection, Surjection, IsInjective
<1>7. IsFiniteSet(1 .. n) /\ Cardinality(1 .. n) = n
  BY FS_Interval
<1>8. Cardinality(T) = n
  BY <1>6, <1>7, FS_Bijection DEF ExistsBijection
<1>9. T \in SUBSET S
  BY <1>3, <1>4, <1>5
<1> QED BY <1>8, <1>9

(* What a page adds: all its new links, unless the cap is met by them.     *)
Capped(c, N) ==
  \/ ~c.opts.js /\ Len(c.pages) >= c.opts.pages
  \/ c.opts.js /\ Len(c.pages) + Len(c.queue) >= c.opts.pages
  \/ c.opts.js /\ Cardinality(c.visited) + Cardinality(N) >= c.opts.pages

(* What Frontier picks: links not met yet; all of them unless brimful.     *)
LEMMA FrontierIs ==
  ASSUME NEW c, CrawlFits(c), Once(c), NEW item \in Steps(c), NEW N, N = Frontier(c, item)
  PROVE  /\ N \subseteq Followed(c, item.url) \ c.visited
         /\ N \subseteq Urls(c) \ c.site.offsite /\ IsFiniteSet(N)
         /\ item.depth < c.opts.depth => Capped(c, N) \/ N = Followed(c, item.url) \ c.visited
         /\ item.depth >= c.opts.depth => N = {}
<1>1. PICK new : new = Followed(c, item.url) \ c.visited
  OBVIOUS
<1>2. new \subseteq Urls(c) \ c.site.offsite
  BY <1>1, FollowedFit DEF CrawlFits
<1>3. IsFiniteSet(Urls(c))
  BY SiteAssumption DEF CrawlFits, SiteOK, Urls
<1>4. IsFiniteSet(new) /\ Cardinality(new) \in Nat
  BY <1>2, <1>3, FS_Subset, FS_CardinalityType
<1>5. PICK left : left = c.opts.pages - Cardinality(c.visited)
  OBVIOUS
<1>6. c.opts.pages \in Nat /\ Cardinality(c.visited) \in Nat /\ c.opts.depth \in Nat
  BY MetFit, SiteAssumption DEF CrawlFits
<1>7. left \in Int
  BY <1>5, <1>6
<1>8. PICK room : room = IF left < 1 THEN 1 ELSE left
  OBVIOUS
<1>9. room \in Nat /\ room >= left
  BY <1>7, <1>8
<1>10. PICK pick : pick = IF ~c.opts.js \/ Cardinality(new) <= room THEN new
                          ELSE CHOOSE n \in SUBSET new : Cardinality(n) = room
  OBVIOUS
<1>11. pick \subseteq new /\ (pick = new \/ (c.opts.js /\ Cardinality(pick) = room))
  <2>1. CASE ~c.opts.js \/ Cardinality(new) <= room
    BY <1>10, <2>1
  <2>2. CASE ~(~c.opts.js \/ Cardinality(new) <= room)
    <3>1. room <= Cardinality(new)
      BY <1>4, <1>9, <2>2
    <3>2. \E T \in SUBSET new : Cardinality(T) = room
      BY <1>4, <1>9, <3>1, SubsetOfSize
    <3> QED BY <1>10, <2>2, <3>2
  <2> QED BY <2>1, <2>2
<1>12. PICK held : held = Len(c.pages) + (IF c.opts.js THEN Len(c.queue) ELSE 0)
  OBVIOUS
<1>13. N = IF item.depth >= c.opts.depth \/ held >= c.opts.pages THEN {} ELSE pick
  <2>1. N = IF \/ item.depth >= c.opts.depth
               \/ Len(c.pages) + (IF c.opts.js THEN Len(c.queue) ELSE 0) >= c.opts.pages THEN {} ELSE pick
    <3>1. PICK x : x = IF ~c.opts.js \/ Cardinality(new) <= room THEN new
                       ELSE CHOOSE n \in SUBSET new : Cardinality(n) = room
      OBVIOUS
    <3>2. pick = x
      BY <1>10, <3>1
    <3> QED BY <1>1, <1>5, <1>8, <3>1, <3>2 DEF Frontier
  <2> QED BY <1>12, <2>1
<1>14. N \subseteq new /\ IsFiniteSet(N)
  BY <1>4, <1>11, <1>13, FS_Subset, FS_EmptySet
<1>15. item.depth \in Nat
  BY DEF Steps
<1>16. CASE held >= c.opts.pages
  <2>1. Len(c.pages) \in Nat /\ Len(c.queue) \in Nat
    BY MetFit
  <2>2. ASSUME ~c.opts.js PROVE Len(c.pages) >= c.opts.pages
    <3>1. held = Len(c.pages)
      BY <1>12, <2>1, <2>2
    <3> QED BY <1>16, <3>1
  <2>3. ASSUME c.opts.js PROVE Len(c.pages) + Len(c.queue) >= c.opts.pages
    <3>1. held = Len(c.pages) + Len(c.queue)
      BY <1>12, <2>3
    <3> QED BY <1>16, <3>1
  <2>4. Capped(c, N)
    BY <2>2, <2>3 DEF Capped
  <2>5. N = {}
    BY <1>13, <1>16
  <2> QED BY <1>1, <1>2, <1>14, <2>4, <2>5
<1>17. CASE ~(held >= c.opts.pages) /\ item.depth >= c.opts.depth
  <2>1. N = {} /\ ~(item.depth < c.opts.depth)
    BY <1>6, <1>13, <1>15, <1>17
  <2> QED BY <1>1, <1>2, <1>14, <2>1
<1>18. CASE ~(held >= c.opts.pages) /\ ~(item.depth >= c.opts.depth)
  <2>1. N = pick
    BY <1>13, <1>18
  <2>2. Capped(c, N) \/ N = new
    <3>1. CASE N # new
      <4>1. c.opts.js /\ Cardinality(N) >= left /\ Cardinality(N) \in Nat
        BY <1>9, <1>11, <2>1, <3>1
      <4>2. Cardinality(c.visited) + Cardinality(N) >= c.opts.pages
        BY <1>5, <1>6, <4>1
      <4> QED BY <4>1, <4>2 DEF Capped
    <3> QED BY <3>1
  <2> QED BY <1>1, <1>2, <1>14, <1>18, <2>2
<1> QED BY <1>16, <1>17, <1>18

(* The frontier joins the queue, one click deeper than its page.           *)
Expands(c, item, e, N, t) ==
  /\ e = [f \in CrawlFields |-> e[f]] /\ SameSite(c, e)
  /\ e.phase = c.phase /\ e.pages = c.pages /\ e.inFlight = c.inFlight
  /\ e.truncated = c.truncated /\ e.late = c.late
  /\ e.visited = c.visited \cup N /\ e.queue = c.queue \o t
  /\ N = Frontier(c, item) /\ OnePlaceEach(c, t, N, item.depth + 1)
  /\ c.queue \in Seq(Steps(c)) /\ e.queue \in Seq(Steps(c))
  /\ DOMAIN c.queue = 1 .. Len(c.queue) /\ Len(c.queue) \in Nat
  /\ \A i \in DOMAIN c.queue : i \in DOMAIN e.queue /\ e.queue[i] = c.queue[i]
  /\ \A i \in DOMAIN t : Len(c.queue) + i \in DOMAIN e.queue /\ e.queue[Len(c.queue) + i] = t[i]
  /\ \A i \in DOMAIN e.queue : \/ i \in DOMAIN c.queue /\ e.queue[i] = c.queue[i]
                               \/ /\ i > Len(c.queue) /\ i - Len(c.queue) \in DOMAIN t
                                  /\ e.queue[i] = t[i - Len(c.queue)]

(* What reading the links of a page changes.                               *)
LEMMA ExpandIs ==
  ASSUME NEW c, CrawlFits(c), Once(c), NEW item \in Steps(c)
  PROVE  \E N, t : Expands(c, item, Expand(c, item), N, t)
<1>1. PICK N : N = Frontier(c, item)
  OBVIOUS
<1>2. PICK t : t = SetToSeq({[url |-> u, depth |-> item.depth + 1] : u \in N})
  OBVIOUS
<1>3. PICK e : e = Expand(c, item)
  OBVIOUS
<1>4. e = [c EXCEPT !.visited = @ \cup N, !.queue = @ \o t]
  BY <1>1, <1>2, <1>3 DEF Expand
<1>5. /\ e = [f \in CrawlFields |-> e[f]] /\ SameSite(c, e)
      /\ e.phase = c.phase /\ e.pages = c.pages /\ e.inFlight = c.inFlight
      /\ e.truncated = c.truncated /\ e.late = c.late
      /\ e.visited = c.visited \cup N /\ e.queue = c.queue \o t
  BY <1>4 DEF CrawlFits, CrawlFields, SameSite
<1>6. OnePlaceEach(c, t, N, item.depth + 1)
  <2>1. N \subseteq Urls(c)
    BY <1>1, FrontierIs
  <2>2. item.depth + 1 \in Nat /\ c.site \in Sites
    BY DEF Steps, CrawlFits
  <2> QED BY <1>2, <2>1, <2>2, StepsOf
<1>7. PICK q, s, m, n : q = c.queue /\ m = Len(q) /\ n = Len(t) /\ s = q \o t
  OBVIOUS
<1>8. q \in Seq(Steps(c)) /\ t \in Seq(Steps(c))
  BY <1>6, <1>7 DEF CrawlFits, OnePlaceEach
<1>9. m \in Nat /\ n \in Nat /\ DOMAIN q = 1 .. m /\ DOMAIN t = 1 .. n
  BY <1>7, <1>8
<1>10. /\ s \in Seq(Steps(c)) /\ DOMAIN s = 1 .. m + n
       /\ \A i \in 1 .. m + n : s[i] = IF i <= m THEN q[i] ELSE t[i - m]
  BY <1>7, <1>8, <1>9
<1>11. \A i \in 1 .. m : i \in 1 .. m + n /\ s[i] = q[i]
  BY <1>9, <1>10
<1>12. \A i \in 1 .. n : m + i \in 1 .. m + n /\ s[m + i] = t[i]
  <2> SUFFICES ASSUME NEW i \in 1 .. n PROVE m + i \in 1 .. m + n /\ s[m + i] = t[i]
    OBVIOUS
  <2>1. m + i \in 1 .. m + n /\ ~(m + i <= m) /\ (m + i) - m = i
    BY <1>9
  <2> QED BY <1>10, <2>1
<1>13. \A i \in 1 .. m + n : \/ i \in 1 .. m /\ s[i] = q[i]
                             \/ i > m /\ i - m \in 1 .. n /\ s[i] = t[i - m]
  BY <1>9, <1>10
<1>14. Expands(c, item, e, N, t)
  <2>1. e.queue = s /\ e.queue = c.queue \o t /\ s \in Seq(Steps(c)) /\ q = c.queue /\ m = Len(c.queue)
    BY <1>5, <1>7, <1>10
  <2>2. /\ \A i \in DOMAIN q : i \in DOMAIN s /\ s[i] = q[i]
        /\ \A i \in DOMAIN t : m + i \in DOMAIN s /\ s[m + i] = t[i]
        /\ \A i \in DOMAIN s : \/ i \in DOMAIN q /\ s[i] = q[i]
                               \/ i > m /\ i - m \in DOMAIN t /\ s[i] = t[i - m]
    BY <1>9, <1>10, <1>11, <1>12, <1>13
  <2>3. q \in Seq(Steps(c)) /\ DOMAIN q = 1 .. m /\ m \in Nat
    BY <1>8, <1>9
  <2>4. /\ \A i \in DOMAIN c.queue : i \in DOMAIN e.queue /\ e.queue[i] = c.queue[i]
        /\ \A i \in DOMAIN t : Len(c.queue) + i \in DOMAIN e.queue /\ e.queue[Len(c.queue) + i] = t[i]
        /\ \A i \in DOMAIN e.queue : \/ i \in DOMAIN c.queue /\ e.queue[i] = c.queue[i]
                                     \/ /\ i > Len(c.queue) /\ i - Len(c.queue) \in DOMAIN t
                                        /\ e.queue[i] = t[i - Len(c.queue)]
    BY <2>1, <2>2
  <2>5. c.queue \in Seq(Steps(c)) /\ DOMAIN c.queue = 1 .. Len(c.queue) /\ Len(c.queue) \in Nat
    BY <2>1, <2>3
  <2> QED BY <1>1, <1>5, <1>6, <2>1, <2>4, <2>5, Zenon DEF Expands
<1> QED BY <1>3, <1>14

(* Reading the links respects cap, width and robots.txt.                   *)
LEMMA ExpandSafe ==
  ASSUME NEW c, CrawlFits(c), Once(c), Politely(c), Windowed(c), NEW item \in Steps(c), NEW e, NEW N, NEW t,
         Expands(c, item, e, N, t)
  PROVE  CrawlFits(e) /\ Once(e) /\ Politely(e) /\ Windowed(e)
<1>1. /\ e = [f \in CrawlFields |-> e[f]] /\ SameSite(c, e)
      /\ e.phase = c.phase /\ e.pages = c.pages /\ e.inFlight = c.inFlight
      /\ e.truncated = c.truncated /\ e.late = c.late
      /\ e.visited = c.visited \cup N /\ e.queue \in Seq(Steps(c))
  BY DEF Expands
<1>2. N \subseteq Urls(c) \ c.site.offsite /\ N \cap c.visited = {}
  BY FrontierIs DEF Expands
<1>3. Urls(e) = Urls(c) /\ Steps(e) = Steps(c) /\ \A u : Allowed(e, u) <=> Allowed(c, u)
  BY <1>1, AlikeSees
<1>4. CrawlFits(e)
  <2>1. e.site = c.site /\ e.opts = c.opts /\ e.disallow = c.disallow /\ e.listed = c.listed
    BY <1>1 DEF SameSite
  <2>2. e.visited \subseteq Urls(c) \ c.site.offsite
    BY <1>1, <1>2 DEF CrawlFits
  <2>3. /\ c.site \in Sites /\ c.opts \in Options /\ (c.opts.js => c.disallow = {})
        /\ c.listed \subseteq Urls(c) /\ (c.opts.js => c.listed = {})
        /\ c.inFlight \subseteq Steps(c) /\ IsFiniteSet(c.inFlight)
        /\ c.pages \in Seq([url : Urls(c), depth : Nat, ok : BOOLEAN])
        /\ c.truncated \in BOOLEAN /\ c.late \in BOOLEAN
    BY DEF CrawlFits
  <2> QED BY <1>1, <1>3, <2>1, <2>2, <2>3 DEF CrawlFits
<1>5. Windowed(e) /\ Politely(e)
  BY <1>1, <1>3 DEF Windowed, Flying, Politely, SameSite
<1>6. PICK q, m : q = c.queue /\ m = Len(q)
  OBVIOUS
<1>7. /\ \A i \in DOMAIN t : t[i].url \in N
      /\ \A i, j \in DOMAIN t : t[i].url = t[j].url => i = j
  BY DEF Expands, OnePlaceEach
<1>8. /\ m \in Nat /\ DOMAIN q = 1 .. m
      /\ \A i \in DOMAIN e.queue : \/ i \in DOMAIN q /\ e.queue[i] = q[i]
                                   \/ i > m /\ i - m \in DOMAIN t /\ e.queue[i] = t[i - m]
      /\ DOMAIN e.queue \subseteq Nat
  <2>1. DOMAIN e.queue \subseteq Nat
    BY <1>1
  <2>2. m \in Nat /\ DOMAIN q = 1 .. m
    BY <1>6 DEF Expands
  <2>3. \A i \in DOMAIN e.queue : \/ i \in DOMAIN q /\ e.queue[i] = q[i]
                                  \/ i > m /\ i - m \in DOMAIN t /\ e.queue[i] = t[i - m]
    BY <1>6 DEF Expands
  <2> QED BY <2>1, <2>2, <2>3
<1>9. /\ \A i, j \in DOMAIN q : q[i].url = q[j].url => i = j
      /\ \A i \in DOMAIN q : q[i].url \in c.visited
      /\ \A f \in c.inFlight, i \in DOMAIN q : q[i].url # f.url
      /\ \A i \in DOMAIN c.pages, j \in DOMAIN q : c.pages[i].url # q[j].url
      /\ \A f \in c.inFlight : f.url \in c.visited
      /\ \A i \in DOMAIN c.pages : c.pages[i].url \in c.visited
  BY <1>6 DEF Once
<1>10. ASSUME NEW i \in DOMAIN e.queue, NEW j \in DOMAIN e.queue, e.queue[i].url = e.queue[j].url PROVE i = j
  <2>1. CASE i \in DOMAIN q /\ j \in DOMAIN q
    BY <1>8, <1>9, <1>10, <2>1
  <2>2. CASE i \in DOMAIN q /\ j \notin DOMAIN q
    <3>1. e.queue[i].url \in c.visited /\ e.queue[j].url \in N
      BY <1>7, <1>8, <1>9, <2>2
    <3> QED BY <1>2, <1>10, <3>1
  <2>3. CASE i \notin DOMAIN q /\ j \in DOMAIN q
    <3>1. e.queue[j].url \in c.visited /\ e.queue[i].url \in N
      BY <1>7, <1>8, <1>9, <2>3
    <3> QED BY <1>2, <1>10, <3>1
  <2>4. CASE i \notin DOMAIN q /\ j \notin DOMAIN q
    <3>1. PICK a, b : a = i - m /\ b = j - m
      OBVIOUS
    <3>2. a \in DOMAIN t /\ b \in DOMAIN t /\ e.queue[i] = t[a] /\ e.queue[j] = t[b]
      BY <1>8, <2>4, <3>1
    <3>3. a = b
      BY <1>7, <1>10, <3>2
    <3> QED BY <1>8, <3>1, <3>3
  <2> QED BY <2>1, <2>2, <2>3, <2>4
<1>11. ASSUME NEW i \in DOMAIN e.queue
       PROVE  /\ e.queue[i].url \in e.visited
              /\ \A f \in c.inFlight : e.queue[i].url # f.url
              /\ \A p \in DOMAIN c.pages : c.pages[p].url # e.queue[i].url
  <2>1. CASE i \in DOMAIN q
    <3>1. e.queue[i] = q[i]
      BY <1>8, <2>1
    <3> QED BY <1>1, <1>9, <2>1, <3>1
  <2>2. CASE i \notin DOMAIN q
    <3>1. e.queue[i].url \in N
      BY <1>7, <1>8, <2>2
    <3> QED BY <1>1, <1>2, <1>9, <3>1
  <2> QED BY <2>1, <2>2
<1>12. /\ \A i, j \in DOMAIN c.pages : c.pages[i].url = c.pages[j].url => i = j
       /\ \A f, g \in c.inFlight : f.url = g.url => f = g
       /\ \A f \in c.inFlight, i \in DOMAIN c.pages : c.pages[i].url # f.url
  BY DEF Once
<1>13. PICK p, F : p = c.pages /\ p = e.pages /\ F = c.inFlight /\ F = e.inFlight
  BY <1>1
<1>14. Once(e)
  <2>1. /\ \A i, j \in DOMAIN p : p[i].url = p[j].url => i = j
        /\ \A f, g \in F : f.url = g.url => f = g
        /\ \A f \in F, i \in DOMAIN p : p[i].url # f.url
    BY <1>12, <1>13
  <2>2. /\ \A f \in F : f.url \in e.visited
        /\ \A i \in DOMAIN p : p[i].url \in e.visited
    BY <1>1, <1>9, <1>13
  <2>3. /\ \A i \in DOMAIN e.queue : e.queue[i].url \in e.visited
        /\ \A f \in F, i \in DOMAIN e.queue : e.queue[i].url # f.url
        /\ \A i \in DOMAIN p, j \in DOMAIN e.queue : p[i].url # e.queue[j].url
    BY <1>11, <1>13
  <2>4. /\ \A i, j \in DOMAIN e.pages : e.pages[i].url = e.pages[j].url => i = j
        /\ \A f, g \in e.inFlight : f.url = g.url => f = g
        /\ \A f \in e.inFlight, i \in DOMAIN e.pages : e.pages[i].url # f.url
        /\ \A f \in e.inFlight : f.url \in e.visited
        /\ \A i \in DOMAIN e.pages : e.pages[i].url \in e.visited
    BY <1>13, <2>1, <2>2
  <2>5. /\ \A i \in DOMAIN e.queue : e.queue[i].url \in e.visited
        /\ \A f \in e.inFlight, i \in DOMAIN e.queue : e.queue[i].url # f.url
        /\ \A i \in DOMAIN e.pages, j \in DOMAIN e.queue : e.pages[i].url # e.queue[j].url
    BY <1>13, <2>3
  <2>6. \A i, j \in DOMAIN e.queue : e.queue[i].url = e.queue[j].url => i = j
    BY <1>10
  <2> QED BY <2>4, <2>5, <2>6, Zenon DEF Once
<1> QED BY <1>4, <1>5, <1>14

(* With its links read, the page that landed is expanded like the others.  *)
LEMMA ExpandLoops ==
  ASSUME NEW c, CrawlFits(c), Once(c), Known(c), Seeded(c), Chained(c), Levelled(c),
         NEW item \in Steps(c), InFront(c, item),
         NEW n \in DOMAIN c.pages, c.pages[n].url = item.url, c.pages[n].depth = item.depth,
         \A i \in DOMAIN c.pages : i # n => ExpandedAt(c, i),
         NEW e, NEW N, NEW t, Expands(c, item, e, N, t)
  PROVE  Looping(e)
<1>1. SameSite(c, e) /\ e.pages = c.pages /\ e.inFlight = c.inFlight /\ e.visited = c.visited \cup N /\ e.opts = c.opts
  BY DEF Expands, SameSite
<1>2. /\ Seeds(e) = Seeds(c) /\ (Narrow(e) <=> Narrow(c))
      /\ (\A u : Reaches(e, u) <=> Reaches(c, u)) /\ \A v : Followed(e, v) = Followed(c, v)
  BY <1>1, AlikeSees
<1>3. PICK q, m, d : q = c.queue /\ m = Len(q) /\ d = item.depth
  OBVIOUS
<1>4. d \in Nat /\ c.opts.depth \in Nat /\ c.opts.pages \in Nat
  BY <1>3, SiteAssumption DEF Steps, CrawlFits
<1>5. /\ \A i \in DOMAIN t : t[i].url \in N /\ t[i].depth = d + 1
      /\ \A u \in N : \E i \in DOMAIN t : t[i].url = u
  BY <1>3 DEF Expands, OnePlaceEach
<1>6. /\ m \in Nat /\ DOMAIN q = 1 .. m
      /\ \A i \in DOMAIN q : i \in DOMAIN e.queue /\ e.queue[i] = q[i]
      /\ \A i \in DOMAIN t : m + i \in DOMAIN e.queue /\ e.queue[m + i] = t[i]
      /\ \A i \in DOMAIN e.queue : \/ i \in DOMAIN q /\ e.queue[i] = q[i]
                                   \/ i > m /\ i - m \in DOMAIN t /\ e.queue[i] = t[i - m]
  BY <1>3 DEF Expands
<1>7. ASSUME NEW x \in Met(c) PROVE x \in Met(e)
  <2>1. CASE \E i \in DOMAIN q : x = q[i]
    <3>1. PICK i \in DOMAIN q : x = q[i]
      BY <2>1
    <3>2. i \in DOMAIN e.queue /\ x = e.queue[i]
      BY <1>6, <3>1
    <3> QED BY <3>2 DEF Met
  <2>2. CASE ~\E i \in DOMAIN q : x = q[i]
    BY <1>1, <1>3, <2>2 DEF Met
  <2> QED BY <2>1, <2>2
<1>8. ASSUME NEW i \in DOMAIN t PROVE t[i] \in Met(e)
  <2>1. m + i \in DOMAIN e.queue /\ e.queue[m + i] = t[i]
    BY <1>6
  <2> QED BY <2>1 DEF Met
<1>9. ASSUME NEW x \in Met(e) PROVE x \in Met(c) \/ \E i \in DOMAIN t : x = t[i]
  <2>1. CASE \E i \in DOMAIN e.queue : x = e.queue[i]
    <3>1. PICK i \in DOMAIN e.queue : x = e.queue[i]
      BY <2>1
    <3>2. CASE i \in DOMAIN q /\ e.queue[i] = q[i]
      BY <1>3, <3>1, <3>2 DEF Met
    <3>3. CASE i - m \in DOMAIN t /\ e.queue[i] = t[i - m]
      BY <3>1, <3>3
    <3> QED BY <1>6, <3>2, <3>3
  <2>2. CASE ~\E i \in DOMAIN e.queue : x = e.queue[i]
    BY <1>1, <2>2 DEF Met
  <2> QED BY <2>1, <2>2
<1>10. Known(e)
  <2> SUFFICES ASSUME NEW u \in e.visited, Reaches(c, u) PROVE \E x \in Met(e) : x.url = u
    BY <1>2 DEF Known
  <2>1. CASE u \in c.visited
    BY <1>7, <2>1 DEF Known
  <2>2. CASE u \in N
    BY <1>5, <1>8, <2>2
  <2> QED BY <1>1, <2>1, <2>2
<1>11. Seeded(e)
  BY <1>2, <1>7 DEF Seeded
<1>12. Chained(e)
  <2> SUFFICES ASSUME NEW x \in Met(e), x.depth > 0 PROVE \E i \in DOMAIN e.pages : e.pages[i].depth = x.depth - 1
    BY DEF Chained
  <2>1. CASE x \in Met(c)
    BY <1>1, <2>1 DEF Chained
  <2>2. CASE \E i \in DOMAIN t : x = t[i]
    <3>1. x.depth - 1 = d
      BY <1>4, <1>5, <2>2
    <3> QED BY <1>1, <1>3, <3>1
  <2> QED BY <1>9, <2>1, <2>2
<1>13. ASSUME Narrow(c)
       PROVE  /\ c.inFlight = {}
              /\ \A i \in DOMAIN q : d <= q[i].depth /\ q[i].depth <= d + 1 /\ q[i].depth \in Nat
              /\ \A i \in DOMAIN c.pages : c.pages[i].depth <= d /\ c.pages[i].depth \in Nat
              /\ \A i, j \in DOMAIN q : i <= j => q[i].depth <= q[j].depth
  <2>1. /\ c.inFlight = {}
        /\ \A i \in DOMAIN q : d <= q[i].depth /\ q[i].depth <= d + 1
        /\ \A i \in DOMAIN c.pages : c.pages[i].depth <= d
    BY <1>3, <1>13 DEF InFront
  <2>2. \A i, j \in DOMAIN q : i <= j => q[i].depth <= q[j].depth
    BY <1>3, <1>13 DEF Levelled
  <2>3. \A i \in DOMAIN q : q[i].depth \in Nat
    <3>1. q \in Seq(Steps(c))
      BY <1>3 DEF CrawlFits
    <3>2. \A i \in DOMAIN q : q[i] \in Steps(c)
      BY <3>1
    <3> QED BY <3>2 DEF Steps
  <2>4. \A i \in DOMAIN c.pages : c.pages[i].depth \in Nat
    <3>1. PICK P : P = [url : Urls(c), depth : Nat, ok : BOOLEAN]
      OBVIOUS
    <3>2. c.pages \in Seq(P)
      BY <3>1 DEF CrawlFits
    <3>3. \A i \in DOMAIN c.pages : c.pages[i] \in P
      BY <3>2
    <3>4. \A x \in P : x.depth \in Nat
      BY <3>1
    <3> QED BY <3>3, <3>4
  <2> QED BY <2>1, <2>2, <2>3, <2>4
<1>14. ASSUME Narrow(c), NEW i \in DOMAIN e.queue
       PROVE  /\ d <= e.queue[i].depth /\ e.queue[i].depth <= d + 1 /\ e.queue[i].depth \in Nat
              /\ i > m => e.queue[i].depth = d + 1
  <2>1. CASE i \in DOMAIN q /\ e.queue[i] = q[i]
    BY <1>6, <1>13, <1>14, <2>1
  <2>2. CASE i > m /\ i - m \in DOMAIN t /\ e.queue[i] = t[i - m]
    BY <1>4, <1>5, <2>2
  <2> QED BY <1>6, <2>1, <2>2
<1>15. Levelled(e)
  <2> SUFFICES ASSUME Narrow(c) PROVE Levelled(e)
    BY <1>2 DEF Levelled
  <2>1. ASSUME NEW i \in DOMAIN e.queue, NEW j \in DOMAIN e.queue
        PROVE  /\ i <= j => e.queue[i].depth <= e.queue[j].depth
               /\ e.queue[j].depth <= e.queue[i].depth + 1
    <3>1. e.queue[j].depth <= e.queue[i].depth + 1
      BY <1>4, <1>14
    <3>2. ASSUME i <= j PROVE e.queue[i].depth <= e.queue[j].depth
      <4>1. CASE j > m
        BY <1>4, <1>14, <4>1
      <4>2. CASE ~(j > m)
        <5>1. j \in DOMAIN q /\ e.queue[j] = q[j]
          BY <1>6, <4>2
        <5>2. i \in DOMAIN q /\ e.queue[i] = q[i]
          <6>1. i \in Nat /\ j \in Nat /\ ~(i > m)
            <7>1. DOMAIN e.queue \subseteq Nat
              BY DEF Expands
            <7>2. i \in Nat /\ j \in Nat
              BY <7>1
            <7> QED BY <1>6, <3>2, <4>2, <7>2
          <6> QED BY <1>6, <6>1
        <5> QED BY <1>13, <3>2, <5>1, <5>2
      <4> QED BY <4>1, <4>2
    <3> QED BY <3>1, <3>2
  <2>2. ASSUME NEW i \in DOMAIN e.pages, NEW j \in DOMAIN e.queue PROVE e.pages[i].depth <= e.queue[j].depth
    BY <1>1, <1>4, <1>13, <1>14
  <2> QED BY <1>1, <1>13, <2>1, <2>2 DEF Levelled
<1>16. /\ IsFiniteSet(c.visited) /\ Cardinality(c.visited) \in Nat /\ IsFiniteSet(N) /\ Cardinality(N) \in Nat
       /\ Cardinality(e.visited) = Cardinality(c.visited) + Cardinality(N)
       /\ N \subseteq Followed(c, item.url) \ c.visited
       /\ d < c.opts.depth => Capped(c, N) \/ N = Followed(c, item.url) \ c.visited
       /\ Len(c.pages) \in Nat /\ Len(c.queue) \in Nat /\ Len(c.pages) + Len(c.queue) <= Cardinality(c.visited)
  <2>1. /\ IsFiniteSet(c.visited) /\ Cardinality(c.visited) \in Nat
        /\ Len(c.pages) \in Nat /\ Len(c.queue) \in Nat /\ Len(c.pages) + Len(c.queue) <= Cardinality(c.visited)
    BY MetFit
  <2>2. N = Frontier(c, item)
    BY DEF Expands
  <2>3. /\ N \subseteq Followed(c, item.url) \ c.visited /\ IsFiniteSet(N)
        /\ item.depth < c.opts.depth => Capped(c, N) \/ N = Followed(c, item.url) \ c.visited
    BY <2>2, FrontierIs
  <2>4. Cardinality(N) \in Nat
    BY <2>3, FS_CardinalityType
  <2>5. c.visited \cap N = {}
    BY <2>3
  <2>6. Cardinality(c.visited \cup N) = Cardinality(c.visited) + Cardinality(N) - Cardinality(c.visited \cap N)
    BY <2>1, <2>3, FS_Union
  <2>7. Cardinality(c.visited \cap N) = 0
    BY <2>5, FS_EmptySet
  <2>8. Cardinality(e.visited) = Cardinality(c.visited) + Cardinality(N)
    BY <1>1, <2>1, <2>4, <2>6, <2>7
  <2> QED BY <1>3, <2>1, <2>3, <2>4, <2>8
<1>17. Brimful(c) => Brimful(e)
  BY <1>1, <1>4, <1>16 DEF Brimful
<1>18. ASSUME NEW i \in DOMAIN e.pages PROVE ExpandedAt(e, i)
  <2> SUFFICES ASSUME e.pages[i].ok, e.pages[i].depth < e.opts.depth, ~Brimful(e),
                      NEW u \in Followed(e, e.pages[i].url)
               PROVE  \E x \in Met(e) : x.url = u /\ (Narrow(e) => x.depth <= e.pages[i].depth + 1)
    BY DEF ExpandedAt
  <2>1. CASE i # n
    <3>1. ExpandedAt(c, i) /\ i \in DOMAIN c.pages
      BY <1>1, <2>1
    <3>2. \E x \in Met(c) : x.url = u /\ (Narrow(c) => x.depth <= c.pages[i].depth + 1)
      BY <1>1, <1>2, <1>17, <3>1 DEF ExpandedAt
    <3> QED BY <1>1, <1>2, <1>7, <3>2
  <2>2. CASE i = n
    <3>1. d < c.opts.depth /\ u \in Followed(c, item.url) /\ e.pages[i].depth = d
      BY <1>1, <1>2, <1>3, <2>2
    <3>2. ~Capped(c, N)
      <4>1. ASSUME c.opts.js PROVE Cardinality(e.visited) < c.opts.pages
        BY <1>1, <1>4, <1>16, <4>1 DEF Brimful
      <4>2. ASSUME ~c.opts.js PROVE ~(Len(c.pages) >= c.opts.pages)
        BY <1>1, <4>2 DEF Brimful
      <4>3. ASSUME c.opts.js PROVE ~(Len(c.pages) + Len(c.queue) >= c.opts.pages)
        <5>1. PICK a, b, v, w, y : /\ a = Len(c.pages) /\ b = Len(c.queue) /\ v = Cardinality(c.visited)
                                   /\ w = Cardinality(N) /\ y = c.opts.pages
          OBVIOUS
        <5>2. v + w < y /\ a \in Nat /\ b \in Nat /\ v \in Nat /\ w \in Nat /\ y \in Nat /\ a + b <= v
          BY <1>4, <1>16, <4>1, <4>3, <5>1
        <5>3. ~(a + b >= y)
          BY <5>2
        <5> QED BY <5>1, <5>3
      <4>4. ASSUME c.opts.js PROVE ~(Cardinality(c.visited) + Cardinality(N) >= c.opts.pages)
        BY <1>4, <1>16, <4>1, <4>4
      <4> QED BY <4>2, <4>3, <4>4 DEF Capped
    <3>3. u \in N \/ u \in c.visited
      BY <1>16, <3>1, <3>2
    <3>4. CASE u \in N
      <4>1. PICK j \in DOMAIN t : t[j].url = u /\ t[j].depth = d + 1
        BY <1>5, <3>4
      <4>2. t[j].depth <= d + 1
        BY <1>4, <4>1
      <4> QED BY <1>8, <3>1, <4>1, <4>2
    <3>5. CASE u \in c.visited
      <4>1. Reaches(c, u)
        BY <3>1 DEF Followed, Reaches
      <4>2. PICK x \in Met(c) : x.url = u
        BY <3>5, <4>1 DEF Known
      <4>3. ASSUME Narrow(c) PROVE x.depth <= d + 1
        <5>1. CASE \E j \in DOMAIN q : x = q[j]
          BY <1>13, <4>3, <5>1
        <5>2. CASE \E j \in DOMAIN c.pages : x = [url |-> c.pages[j].url, depth |-> c.pages[j].depth]
          <6>1. PICK j \in DOMAIN c.pages : x = [url |-> c.pages[j].url, depth |-> c.pages[j].depth]
            BY <5>2
          <6>2. x.depth = c.pages[j].depth /\ c.pages[j].depth <= d /\ c.pages[j].depth \in Nat
            BY <1>13, <4>3, <6>1
          <6> QED BY <1>4, <6>2
        <5> QED BY <1>3, <1>13, <4>3, <5>1, <5>2 DEF Met
      <4> QED BY <1>2, <1>7, <3>1, <4>2, <4>3
    <3> QED BY <3>3, <3>4, <3>5
  <2> QED BY <2>1, <2>2
<1>19. Expanded(e)
  BY <1>18 DEF Expanded, ExpandedAt
<1> QED BY <1>10, <1>11, <1>12, <1>15, <1>19 DEF Looping

Safe(c) == CrawlFits(c) /\ Once(c) /\ Politely(c) /\ Windowed(c)

(* A step that moves no page, no fetch and no place of the queue.          *)
Still(c, r) ==
  /\ r = [f \in CrawlFields |-> r[f]] /\ SameSite(c, r) /\ r.truncated \in BOOLEAN /\ r.late \in BOOLEAN
  /\ r.visited = c.visited /\ r.queue = c.queue /\ r.inFlight = c.inFlight /\ r.pages = c.pages

(* A step that moves no page and no fetch keeps the limits.                *)
LEMMA StillSafe ==
  ASSUME NEW c, NEW r, Safe(c), Still(c, r)
  PROVE  Safe(r)
<1>1. Urls(r) = Urls(c) /\ Steps(r) = Steps(c) /\ \A u : Allowed(r, u) <=> Allowed(c, u)
  BY AlikeSees DEF Still
<1>2. CrawlFits(r)
  BY <1>1 DEF Safe, Still, SameSite, CrawlFits
<1>3. Once(r)
  <2>1. PICK v, q, F, p : /\ v = c.visited /\ q = c.queue /\ F = c.inFlight /\ p = c.pages
                          /\ v = r.visited /\ q = r.queue /\ F = r.inFlight /\ p = r.pages
    BY DEF Still
  <2>2. /\ \A i, j \in DOMAIN p : p[i].url = p[j].url => i = j
        /\ \A i, j \in DOMAIN q : q[i].url = q[j].url => i = j
        /\ \A f, g \in F : f.url = g.url => f = g
        /\ \A f \in F : f.url \in v
        /\ \A i \in DOMAIN p : p[i].url \in v
        /\ \A i \in DOMAIN q : q[i].url \in v
        /\ \A f \in F, i \in DOMAIN p : p[i].url # f.url
        /\ \A f \in F, i \in DOMAIN q : q[i].url # f.url
        /\ \A i \in DOMAIN p, j \in DOMAIN q : p[i].url # q[j].url
    BY <2>1 DEF Safe, Once
  <2> QED BY <2>1, <2>2 DEF Once
<1>4. Windowed(r) /\ Politely(r)
  BY <1>1 DEF Safe, Still, SameSite, Windowed, Flying, Politely
<1> QED BY <1>2, <1>3, <1>4 DEF Safe

(* A step that moves no page and no fetch keeps what the loop knows.       *)
LEMMA StillLoops ==
  ASSUME NEW c, NEW r, Looping(c), Still(c, r)
  PROVE  Looping(r)
<1>1. /\ Seeds(r) = Seeds(c) /\ (Narrow(r) <=> Narrow(c))
      /\ (\A u : Reaches(r, u) <=> Reaches(c, u)) /\ \A v : Followed(r, v) = Followed(c, v)
  BY AlikeSees DEF Still
<1>2. Met(r) = Met(c) /\ (Brimful(r) <=> Brimful(c))
  BY DEF Still, SameSite, Met, Brimful
<1>3. Known(r) /\ Seeded(r) /\ Chained(r)
  BY <1>1, <1>2 DEF Still, Looping, Known, Seeded, Chained
<1>4. Expanded(r)
  <2> SUFFICES ASSUME NEW i \in DOMAIN r.pages PROVE ExpandedAt(r, i)
    BY DEF Expanded, ExpandedAt
  <2>1. i \in DOMAIN c.pages /\ r.pages[i] = c.pages[i] /\ r.opts = c.opts
    BY DEF Still, SameSite
  <2>2. ExpandedAt(c, i)
    BY <2>1 DEF Looping, Expanded, ExpandedAt
  <2>3. PICK g, M : g = c.pages[i] /\ g = r.pages[i] /\ M = Met(c) /\ M = Met(r)
    BY <1>2, <2>1
  <2>4. g.ok /\ g.depth < c.opts.depth =>
          Brimful(c) \/ \A u \in Followed(c, g.url) : \E x \in M : x.url = u /\ (Narrow(c) => x.depth <= g.depth + 1)
    BY <2>2, <2>3 DEF ExpandedAt
  <2>5. g.ok /\ g.depth < r.opts.depth =>
          Brimful(r) \/ \A u \in Followed(r, g.url) : \E x \in M : x.url = u /\ (Narrow(r) => x.depth <= g.depth + 1)
    BY <1>1, <1>2, <2>1, <2>4
  <2> QED BY <2>3, <2>5 DEF ExpandedAt
<1>5. Levelled(r)
  <2>1. PICK q, F, p : /\ q = c.queue /\ F = c.inFlight /\ p = c.pages
                       /\ q = r.queue /\ F = r.inFlight /\ p = r.pages
    BY DEF Still
  <2> SUFFICES ASSUME Narrow(c) PROVE Levelled(r)
    BY <1>1 DEF Levelled
  <2>2. /\ \A i, j \in DOMAIN q : /\ i <= j => q[i].depth <= q[j].depth
                                  /\ q[j].depth <= q[i].depth + 1
        /\ \A f \in F, i \in DOMAIN q : f.depth <= q[i].depth /\ q[i].depth <= f.depth + 1
        /\ \A i \in DOMAIN p : /\ \A f \in F : p[i].depth <= f.depth
                               /\ \A j \in DOMAIN q : p[i].depth <= q[j].depth
    BY <2>1 DEF Looping, Levelled
  <2> QED BY <2>1, <2>2 DEF Levelled
<1> QED BY <1>3, <1>4, <1>5 DEF Looping

(* What the invariant says of a crawl that has been started.               *)
Sound(c) == c.phase \in Phases /\ Safe(c) /\ InPhase(c)

(* A refill of a sound crawl is sound.                                     *)
LEMMA FillSound ==
  ASSUME NEW c, Safe(c), Looping(c), c.phase = "crawl", ~c.truncated
  PROVE  Sound(Fill(c))
<1>1. PICK r, cut : r = Fill(c) /\ Refilled(c, r, cut)
  BY FillRefills DEF Safe
<1>2. Safe(r)
  BY <1>1, RefillSafe DEF Safe
<1>3. Looping(r)
  BY <1>1, RefillLoops DEF Safe
<1>4. r.phase = "crawl" /\ ~r.truncated
  BY <1>1, LetInto DEF Safe
<1>5. InPhase(r) /\ r.phase \in Phases
  BY <1>3, <1>4 DEF InPhase, Phases
<1> QED BY <1>1, <1>2, <1>5 DEF Sound

(* After a landing: the clock, then the refill.                            *)
LEMMA ResumeSound ==
  ASSUME NEW c, Safe(c), c.phase \in {"crawl", "drain"}, c.phase = "drain" => c.truncated,
         c.phase = "crawl" /\ ~c.late => Looping(c) /\ ~c.truncated
  PROVE  Sound(Resume(c))
<1>1. CASE c.late
  <2>1. PICK r : r = [c EXCEPT !.phase = "drain", !.truncated = TRUE]
    OBVIOUS
  <2>2. Still(c, r) /\ r.phase = "drain" /\ r.truncated
    BY <2>1 DEF Safe, CrawlFits, CrawlFields, Still, SameSite
  <2>3. Safe(r)
    BY <2>2, StillSafe
  <2>4. InPhase(r) /\ r.phase \in Phases
    BY <2>2 DEF InPhase, Phases
  <2> QED BY <1>1, <2>1, <2>3, <2>4 DEF Resume, Sound
<1>2. CASE ~c.late /\ c.phase = "drain"
  <2>1. InPhase(c) /\ c.phase \in Phases
    BY <1>2 DEF InPhase, Phases
  <2> QED BY <1>2, <2>1 DEF Resume, Sound
<1>3. CASE ~c.late /\ c.phase = "crawl"
  <2>1. Resume(c) = Fill(c)
    BY <1>3 DEF Resume
  <2> QED BY <1>3, <2>1, FillSound
<1> QED BY <1>1, <1>2, <1>3

(* The first refill, of the seeds.                                         *)
LEMMA SeedSound ==
  ASSUME NEW c, Safe(c), Unstarted(c)
  PROVE  Sound(Fill(SeedAt(c)))
BY SeedLoops, FillSound DEF Safe

(* A page lands, well or not.                                              *)
LEMMA LandSound ==
  ASSUME NEW c, Sound(c), c.phase \in {"crawl", "drain"}, NEW item \in c.inFlight
  PROVE  /\ Sound(Resume(LandedAs(c, item, FALSE)))
         /\ Sound(Resume(Expand(LandedAs(c, item, TRUE), item)))
<1>1. Safe(c)
  BY DEF Sound
<1>2. /\ c.phase = "drain" => c.truncated
      /\ c.phase = "crawl" => Looping(c) /\ ~c.truncated
  BY DEF Sound, InPhase
<1>3. ASSUME NEW ok \in BOOLEAN, NEW b, b = LandedAs(c, item, ok)
      PROVE  /\ Safe(b) /\ b.phase = c.phase /\ b.truncated = c.truncated /\ b.late = c.late
             /\ Lands(c, item, ok, b)
             /\ c.phase = "crawl" => /\ Known(b) /\ Seeded(b) /\ Chained(b) /\ Levelled(b) /\ InFront(b, item)
                                     /\ \A i \in DOMAIN c.pages : ExpandedAt(b, i)
  <2>1. Lands(c, item, ok, b)
    BY <1>1, <1>3, LandingIs DEF Safe
  <2>2. b.phase = c.phase /\ b.truncated = c.truncated /\ b.late = c.late
    BY <2>1 DEF Lands
  <2>3. Safe(b)
    BY <1>1, <1>3, LandingSafe DEF Safe
  <2>4. CASE c.phase = "crawl"
    <3>1. CrawlFits(c) /\ Windowed(c) /\ Looping(c)
      BY <1>1, <1>2, <2>4 DEF Safe
    <3> QED BY <1>3, <2>1, <2>2, <2>3, <3>1, LandingLoops
  <2> QED BY <2>1, <2>2, <2>3, <2>4
<1>4. Sound(Resume(LandedAs(c, item, FALSE)))
  <2>1. PICK b : b = LandedAs(c, item, FALSE)
    OBVIOUS
  <2>2. /\ Safe(b) /\ b.phase = c.phase /\ b.truncated = c.truncated /\ b.late = c.late
        /\ Lands(c, item, FALSE, b)
        /\ c.phase = "crawl" => /\ Known(b) /\ Seeded(b) /\ Chained(b) /\ Levelled(b)
                                /\ \A i \in DOMAIN c.pages : ExpandedAt(b, i)
    BY <1>3, <2>1
  <2>3. ASSUME c.phase = "crawl" PROVE Looping(b)
    <3>1. ASSUME NEW i \in DOMAIN b.pages PROVE ExpandedAt(b, i)
      <4>1. CASE i \in DOMAIN c.pages
        BY <2>2, <2>3, <4>1
      <4>2. CASE i = Len(c.pages) + 1
        <5>1. ~b.pages[i].ok
          BY <2>2, <4>2 DEF Lands
        <5> QED BY <5>1 DEF ExpandedAt
      <4> QED BY <2>2, <4>1, <4>2 DEF Lands
    <3>2. Expanded(b)
      BY <3>1 DEF Expanded, ExpandedAt
    <3> QED BY <2>2, <2>3, <3>2 DEF Looping
  <2> QED BY <1>2, <2>1, <2>2, <2>3, ResumeSound
<1>5. Sound(Resume(Expand(LandedAs(c, item, TRUE), item)))
  <2>1. PICK b, e : b = LandedAs(c, item, TRUE) /\ e = Expand(b, item)
    OBVIOUS
  <2>2. /\ Safe(b) /\ b.phase = c.phase /\ b.truncated = c.truncated /\ b.late = c.late
        /\ Lands(c, item, TRUE, b)
        /\ c.phase = "crawl" => /\ Known(b) /\ Seeded(b) /\ Chained(b) /\ Levelled(b) /\ InFront(b, item)
                                /\ \A i \in DOMAIN c.pages : ExpandedAt(b, i)
    BY <1>3, <2>1
  <2>3. PICK n : n = Len(c.pages) + 1
    OBVIOUS
  <2>4. /\ n \in DOMAIN b.pages /\ b.pages[n].url = item.url /\ b.pages[n].depth = item.depth
        /\ \A i \in DOMAIN b.pages : i \in DOMAIN c.pages \/ i = n
    BY <2>2, <2>3 DEF Lands
  <2>5. item \in Steps(b)
    <3>1. item \in Steps(c) /\ SameSite(c, b)
      BY <2>2 DEF Lands
    <3> QED BY <3>1, AlikeSees
  <2>6. PICK N, t : Expands(b, item, e, N, t)
    BY <2>1, <2>2, <2>5, ExpandIs DEF Safe
  <2>7. Safe(e)
    BY <2>2, <2>5, <2>6, ExpandSafe DEF Safe
  <2>8. e.phase = b.phase /\ e.truncated = b.truncated /\ e.late = b.late
    BY <2>6 DEF Expands
  <2>9. ASSUME c.phase = "crawl" PROVE Looping(e)
    <3>1. /\ CrawlFits(b) /\ Once(b) /\ Known(b) /\ Seeded(b) /\ Chained(b) /\ Levelled(b) /\ InFront(b, item)
          /\ \A i \in DOMAIN b.pages : i # n => ExpandedAt(b, i)
      BY <2>2, <2>4, <2>9 DEF Safe
    <3> QED BY <2>4, <2>5, <2>6, <3>1, ExpandLoops
  <2> QED BY <1>2, <2>1, <2>2, <2>7, <2>8, <2>9, ResumeSound
<1> QED BY <1>4, <1>5

(* A fetch gives up waiting for its turn.                                  *)
LEMMA SkipSound ==
  ASSUME NEW c, Sound(c), c.phase \in {"crawl", "drain"}, c.late, NEW item \in c.inFlight
  PROVE  Sound(Resume([c EXCEPT !.inFlight = @ \ {item}, !.truncated = TRUE]))
<1>1. PICK r : r = [c EXCEPT !.inFlight = @ \ {item}, !.truncated = TRUE]
  OBVIOUS
<1>2. CrawlFits(c) /\ Once(c) /\ Politely(c) /\ Windowed(c)
  BY DEF Sound, Safe
<1>3. /\ r = [f \in CrawlFields |-> r[f]] /\ SameSite(c, r) /\ r.phase = c.phase /\ r.visited = c.visited
      /\ r.queue = c.queue /\ r.pages = c.pages /\ r.late = c.late /\ r.truncated
      /\ r.truncated \in BOOLEAN /\ r.inFlight = c.inFlight \ {item}
  BY <1>1, <1>2 DEF CrawlFits, CrawlFields, SameSite
<1>4. Urls(r) = Urls(c) /\ Steps(r) = Steps(c) /\ \A u : Allowed(r, u) <=> Allowed(c, u)
  BY <1>3, AlikeSees
<1>5. /\ IsFiniteSet(c.inFlight) /\ IsFiniteSet(r.inFlight) /\ Flying(r) = Flying(c) - 1
      /\ Flying(c) \in Nat /\ Flying(r) \in Nat
  <2>1. IsFiniteSet(c.inFlight)
    BY <1>2 DEF CrawlFits
  <2> QED BY <1>3, <2>1, FS_RemoveElement, FS_CardinalityType, ZenonT(60) DEF Flying
<1>6. CrawlFits(r)
  BY <1>2, <1>3, <1>4, <1>5 DEF CrawlFits, SameSite
<1>7. Windowed(r)
  <2>1. Len(c.pages) + Flying(c) <= c.opts.pages /\ Flying(c) <= c.opts.width
    BY <1>2 DEF Windowed
  <2>2. Len(c.pages) \in Nat /\ c.opts.pages \in Nat /\ c.opts.width \in Nat
    BY <1>2, SiteAssumption DEF CrawlFits
  <2>3. Len(c.pages) + Flying(r) <= c.opts.pages /\ Flying(r) <= c.opts.width
    BY <1>5, <2>1, <2>2
  <2> QED BY <1>3, <2>3 DEF Windowed, SameSite
<1>8. Politely(r)
  BY <1>2, <1>3, <1>4 DEF Politely
<1>9. Once(r)
  <2>1. PICK v, q, p : /\ v = c.visited /\ q = c.queue /\ p = c.pages
                       /\ v = r.visited /\ q = r.queue /\ p = r.pages
    BY <1>3
  <2>2. \A f \in r.inFlight : f \in c.inFlight
    BY <1>3
  <2>3. /\ \A i, j \in DOMAIN p : p[i].url = p[j].url => i = j
        /\ \A i, j \in DOMAIN q : q[i].url = q[j].url => i = j
        /\ \A f, g \in r.inFlight : f.url = g.url => f = g
        /\ \A f \in r.inFlight : f.url \in v
        /\ \A i \in DOMAIN p : p[i].url \in v
        /\ \A i \in DOMAIN q : q[i].url \in v
        /\ \A f \in r.inFlight, i \in DOMAIN p : p[i].url # f.url
        /\ \A f \in r.inFlight, i \in DOMAIN q : q[i].url # f.url
        /\ \A i \in DOMAIN p, j \in DOMAIN q : p[i].url # q[j].url
    BY <1>2, <2>1, <2>2 DEF Once
  <2> QED BY <2>1, <2>3 DEF Once
<1>10. Safe(r)
  BY <1>6, <1>7, <1>8, <1>9 DEF Safe
<1> QED BY <1>1, <1>3, <1>10, ResumeSound

(* A chain of clicks as long as its page is deep: every level has a page   *)
(* of its own, so no page is as deep as the site has URLs.                 *)
LEMMA DepthBound ==
  ASSUME NEW c, Safe(c), Chained(c), NEW i \in DOMAIN c.pages
  PROVE  c.pages[i].depth < Cardinality(Urls(c)) /\ Cardinality(Urls(c)) \in Nat
<1>1. PICK p, d, P : p = c.pages /\ d = c.pages[i].depth /\ P = [url : Urls(c), depth : Nat, ok : BOOLEAN]
  OBVIOUS
<1>2. p \in Seq(P)
  BY <1>1 DEF Safe, CrawlFits
<1>3. /\ \A j \in DOMAIN p : p[j] \in P
      /\ \A x \in P : x.depth \in Nat /\ x.url \in Urls(c)
  <2>1. \A j \in DOMAIN p : p[j] \in P
    BY <1>2
  <2>2. \A x \in P : x.depth \in Nat /\ x.url \in Urls(c)
    BY <1>1
  <2> QED BY <2>1, <2>2
<1>4. d \in Nat /\ i \in DOMAIN p /\ p[i].depth = d
  BY <1>1, <1>3
<1>5. ASSUME NEW j \in DOMAIN p, p[j].depth > 0 PROVE \E k \in DOMAIN p : p[k].depth = p[j].depth - 1
  <2>1. PICK x : x = [url |-> p[j].url, depth |-> p[j].depth]
    OBVIOUS
  <2>2. x \in Met(c) /\ x.depth = p[j].depth
    BY <1>1, <2>1 DEF Met
  <2> QED BY <1>1, <1>5, <2>2 DEF Chained
<1>6. PICK S : S = {k \in Nat : k <= d => \E j \in DOMAIN p : p[j].depth = d - k}
  OBVIOUS
<1>7. 0 \in S
  BY <1>4, <1>6
<1>8. ASSUME NEW k \in Nat, k \in S PROVE k + 1 \in S
  <2> SUFFICES ASSUME k + 1 <= d PROVE \E j \in DOMAIN p : p[j].depth = d - (k + 1)
    BY <1>6
  <2>1. k <= d /\ d - k > 0 /\ (d - k) - 1 = d - (k + 1)
    BY <1>4
  <2>2. PICK j \in DOMAIN p : p[j].depth = d - k
    BY <1>6, <1>8, <2>1
  <2> QED BY <1>5, <2>1, <2>2
<1>9. \A k \in Nat : k \in S
  BY <1>7, <1>8, AllNaturals
<1>10. ASSUME NEW l \in 0 .. d PROVE \E j \in DOMAIN p : p[j].depth = l
  <2>1. d - l \in Nat /\ d - l <= d /\ d - (d - l) = l
    BY <1>4
  <2>2. d - l \in S
    BY <1>9, <2>1
  <2> QED BY <1>6, <2>1, <2>2
<1>11. PICK h : h = [l \in 0 .. d |-> CHOOSE j \in DOMAIN p : p[j].depth = l]
  OBVIOUS
<1>12. \A l \in 0 .. d : h[l] \in DOMAIN p /\ p[h[l]].depth = l
  BY <1>10, <1>11
<1>13. PICK f : f = [l \in 0 .. d |-> p[h[l]].url]
  OBVIOUS
<1>14. f \in [0 .. d -> Urls(c)]
  BY <1>3, <1>12, <1>13
<1>15. ASSUME NEW a \in 0 .. d, NEW b \in 0 .. d, f[a] = f[b] PROVE a = b
  <2>1. p[h[a]].url = p[h[b]].url /\ h[a] \in DOMAIN p /\ h[b] \in DOMAIN p
    BY <1>12, <1>13, <1>15
  <2>2. \A j, k \in DOMAIN p : p[j].url = p[k].url => j = k
    BY <1>1 DEF Safe, Once
  <2>3. h[a] = h[b]
    BY <2>1, <2>2
  <2> QED BY <1>12, <2>3
<1>16. f \in Injection(0 .. d, Urls(c))
  BY <1>14, <1>15 DEF Injection, IsInjective
<1>17. IsFiniteSet(Urls(c))
  BY SiteAssumption DEF Safe, CrawlFits, SiteOK, Urls
<1>18. Cardinality(0 .. d) = d + 1
  BY <1>4, FS_Interval
<1>19. Cardinality(0 .. d) <= Cardinality(Urls(c)) /\ Cardinality(Urls(c)) \in Nat
  BY <1>16, <1>17, FS_Injection, FS_CardinalityType
<1> QED BY <1>1, <1>4, <1>18, <1>19

(* The loop ran dry below the cap: every link it met went into the queue.  *)
LEMMA NotBrimful ==
  ASSUME NEW c, Safe(c), Known(c), c.inFlight = {}, c.queue = <<>>, ~(Len(c.pages) >= c.opts.pages)
  PROVE  ~Brimful(c) /\ \A x \in Met(c) : \E i \in DOMAIN c.pages : x = [url |-> c.pages[i].url, depth |-> c.pages[i].depth]
<1>1. \A x \in Met(c) : \E i \in DOMAIN c.pages : x = [url |-> c.pages[i].url, depth |-> c.pages[i].depth]
  <2>1. DOMAIN c.queue = {}
    <3>1. DOMAIN << >> = {}
      OBVIOUS
    <3> QED BY <3>1
  <2> QED BY <2>1 DEF Met
<1>2. CASE c.opts.js
  <2>1. \A u \in c.visited : u \in Landed(c)
    <3> SUFFICES ASSUME NEW u \in c.visited PROVE u \in Landed(c)
      OBVIOUS
    <3>1. PICK x \in Met(c) : x.url = u
      BY <1>2 DEF Known, Reaches
    <3>2. PICK i \in DOMAIN c.pages : x = [url |-> c.pages[i].url, depth |-> c.pages[i].depth]
      BY <1>1
    <3>3. c.pages[i].url = u
      BY <3>1, <3>2
    <3> QED BY <3>3 DEF Landed
  <2>2. Len(c.pages) \in Nat /\ DOMAIN c.pages = 1 .. Len(c.pages)
    BY DEF Safe, CrawlFits
  <2>3. PICK f : f = [i \in 1 .. Len(c.pages) |-> c.pages[i].url]
    OBVIOUS
  <2>4. f \in Surjection(1 .. Len(c.pages), Landed(c))
    BY <2>2, <2>3 DEF Surjection, Landed
  <2>5. IsFiniteSet(1 .. Len(c.pages)) /\ Cardinality(1 .. Len(c.pages)) = Len(c.pages)
    BY <2>2, FS_Interval
  <2>6. IsFiniteSet(Landed(c)) /\ Cardinality(Landed(c)) <= Len(c.pages)
    BY <2>4, <2>5, FS_Surjection
  <2>7. Cardinality(c.visited) <= Cardinality(Landed(c))
    BY <2>1, <2>6, FS_Subset
  <2>8. Cardinality(c.visited) \in Nat /\ Cardinality(Landed(c)) \in Nat /\ c.opts.pages \in Nat
    BY <2>6, MetFit, FS_CardinalityType, SiteAssumption DEF Safe, CrawlFits
  <2>9. ~(Cardinality(c.visited) >= c.opts.pages)
    BY <2>2, <2>6, <2>7, <2>8
  <2> QED BY <1>1, <1>2, <2>9 DEF Brimful
<1>3. CASE ~c.opts.js
  BY <1>1, <1>3 DEF Brimful
<1> QED BY <1>2, <1>3

(* A loop that ran dry below its cap landed on all that can be reached: in *)
(* a window of one the levels come in order, and a depth the site does not *)
(* have binds nobody.                                                      *)
LEMMA LoopCovers ==
  ASSUME NEW c, Safe(c), Looping(c), c.inFlight = {}, ~Cut(c), \A i \in DOMAIN c.pages : c.pages[i].ok,
         c.opts.width = 1 \/ c.opts.depth >= Cardinality(DOMAIN c.site.links)
  PROVE  \A u \in Reachable(c, c.opts.depth) : u \in Landed(c)
<1>1. Known(c) /\ Seeded(c) /\ Chained(c) /\ Expanded(c)
  BY DEF Looping
<1>2. c.queue = <<>> /\ ~(Len(c.pages) >= c.opts.pages)
  BY DEF Cut
<1>3. ~Brimful(c) /\ \A x \in Met(c) : \E i \in DOMAIN c.pages : x = [url |-> c.pages[i].url, depth |-> c.pages[i].depth]
  BY <1>1, <1>2, NotBrimful
<1>4. PICK p, D, Q : p = c.pages /\ D = c.opts.depth /\ Q = [url : Urls(c), depth : Nat, ok : BOOLEAN]
  OBVIOUS
<1>5. D \in Nat /\ c.site \in Sites
  BY <1>4, SiteAssumption DEF Safe, CrawlFits
<1>6. p \in Seq(Q)
  BY <1>4 DEF Safe, CrawlFits
<1>7. \A i \in DOMAIN p : p[i].depth \in Nat /\ p[i].url \in Urls(c)
  <2>1. \A i \in DOMAIN p : p[i] \in Q
    BY <1>6
  <2>2. \A x \in Q : x.depth \in Nat /\ x.url \in Urls(c)
    BY <1>4
  <2> QED BY <2>1, <2>2
<1>8. ASSUME NEW x \in Met(c) PROVE \E i \in DOMAIN p : p[i].url = x.url /\ p[i].depth = x.depth
  BY <1>3, <1>4
<1>9. PICK P : P = {z \in Nat \X Urls(c) :
                      \E i \in DOMAIN p : p[i].url = z[2] /\ (Narrow(c) => p[i].depth <= z[1])}
  OBVIOUS
<1>10. \A k \in Nat, u \in Urls(c) :
         <<k, u>> \in P <=> \E i \in DOMAIN p : p[i].url = u /\ (Narrow(c) => p[i].depth <= k)
  BY <1>9
<1>11. Seeds(c) \subseteq Urls(c)
  <2>1. SiteOK(c.site) /\ c.listed \subseteq Urls(c)
    BY SiteAssumption DEF Safe, CrawlFits
  <2> QED BY <2>1 DEF Seeds, SiteOK, Urls
<1>12. ASSUME NEW u \in Seeds(c) PROVE <<0, u>> \in P
  <2>1. PICK x \in Met(c) : x.url = u /\ x.depth = 0
    BY <1>1 DEF Seeded
  <2>2. PICK i \in DOMAIN p : p[i].url = u /\ p[i].depth = 0
    BY <1>8, <2>1
  <2>3. p[i].depth <= 0 /\ u \in Urls(c) /\ 0 \in Nat
    BY <1>7, <2>2
  <2> QED BY <1>10, <2>2, <2>3
<1>13. ASSUME NEW k \in Nat, NEW v \in Urls(c), k < D, <<k, v>> \in P
       PROVE  <<k + 1, v>> \in P /\ \A u \in Followed(c, v) : <<k + 1, u>> \in P
  <2>1. PICK i \in DOMAIN p : p[i].url = v /\ (Narrow(c) => p[i].depth <= k)
    BY <1>10, <1>13
  <2>2. p[i].depth \in Nat /\ k + 1 \in Nat /\ (p[i].depth <= k => p[i].depth <= k + 1)
    BY <1>7
  <2>3. <<k + 1, v>> \in P
    BY <1>10, <2>1, <2>2
  <2>4. p[i].depth < D
    <3>1. CASE Narrow(c)
      BY <1>5, <1>13, <2>1, <2>2, <3>1
    <3>2. CASE ~Narrow(c)
      <4>1. D >= Cardinality(Urls(c))
        BY <1>4, <3>2 DEF Narrow, Urls
      <4>2. p[i].depth < Cardinality(Urls(c)) /\ Cardinality(Urls(c)) \in Nat
        BY <1>1, <1>4, DepthBound
      <4> QED BY <1>5, <2>2, <4>1, <4>2
    <3> QED BY <3>1, <3>2
  <2>5. ASSUME NEW u \in Followed(c, v) PROVE <<k + 1, u>> \in P
    <3>1. p[i].ok
      BY <1>4
    <3>2. PICK x \in Met(c) : x.url = u /\ (Narrow(c) => x.depth <= p[i].depth + 1)
      <4>1. ExpandedAt(c, i)
        BY <1>1, <1>4 DEF Expanded, ExpandedAt
      <4> QED BY <1>3, <1>4, <2>1, <2>4, <2>5, <3>1, <4>1 DEF ExpandedAt
    <3>3. PICK j \in DOMAIN p : p[j].url = u /\ p[j].depth = x.depth
      BY <1>8, <3>2
    <3>4. p[j].depth \in Nat /\ u \in Urls(c)
      BY <1>7, <3>3
    <3>5. Narrow(c) => p[j].depth <= k + 1
      BY <2>1, <2>2, <3>2, <3>3, <3>4
    <3> QED BY <1>10, <2>2, <3>3, <3>4, <3>5
  <2> QED BY <2>3, <2>5
<1>14. \A u \in Reachable(c, D) : <<D, u>> \in P
  BY <1>5, <1>11, <1>12, <1>13, ReachedBy
<1>15. ASSUME NEW u \in Reachable(c, D) PROVE u \in Landed(c)
  <2>1. <<D, u>> \in P
    BY <1>14
  <2>2. \E i \in DOMAIN p : p[i].url = u
    BY <1>9, <2>1
  <2> QED BY <1>4, <2>2 DEF Landed
<1> QED BY <1>4, <1>15

(* The probe paths are not met yet, allowed, distinct and within the cap.  *)
LEMMA ProbesFit ==
  ASSUME NEW c, Safe(c), NEW r, r = Probes(c)
  PROVE  /\ r \in Seq(Urls(c) \ (c.visited \cup c.site.offsite))
         /\ \A i, j \in DOMAIN r : r[i] = r[j] => i = j
         /\ \A i \in DOMAIN r : Allowed(c, r[i])
         /\ Len(c.pages) + Len(r) <= c.opts.pages
<1>1. PICK X, a, n, y : /\ X = Urls(c) \ (c.visited \cup c.site.offsite) /\ a = c.site.usual
                        /\ n = Len(c.pages) /\ y = c.opts.pages
  OBVIOUS
<1>2. /\ a \in Seq(Urls(c) \ c.site.offsite) /\ Len(a) \in Nat /\ n \in Nat /\ y \in Nat
      /\ \A i, j \in DOMAIN a : a[i] = a[j] => i = j
  <2>1. SiteOK(c.site)
    BY SiteAssumption DEF Safe, CrawlFits
  <2>2. /\ a \in Seq(Urls(c) \ c.site.offsite)
        /\ \A i, j \in DOMAIN a : a[i] = a[j] => i = j
    BY <1>1, <2>1 DEF SiteOK, Urls
  <2>3. n \in Nat
    BY <1>1 DEF Safe, CrawlFits
  <2>4. y \in Nat
    BY <1>1, SiteAssumption DEF Safe, CrawlFits
  <2> QED BY <2>2, <2>3, <2>4
<1>3. n <= y
  <2>1. n + Flying(c) <= y /\ Flying(c) \in Nat
    BY <1>1, RoomIs DEF Safe, Windowed
  <2> QED BY <1>2, <2>1
<1>4. PICK m : m = IF y - n < Len(a) THEN y - n ELSE Len(a)
  OBVIOUS
<1>5. m \in Nat /\ m <= Len(a) /\ n + m <= y
  BY <1>2, <1>3, <1>4
<1>6. PICK few : few = SubSeq(a, 1, m)
  OBVIOUS
<1>7. /\ few \in Seq(Urls(c) \ c.site.offsite) /\ Len(few) = m /\ DOMAIN few = 1 .. m
      /\ \A i \in 1 .. m : few[i] = a[i] /\ i \in DOMAIN a
  BY <1>2, <1>5, <1>6
<1>8. PICK S : S = {u \in ToSet(few) : u \notin c.visited /\ Allowed(c, u)}
  OBVIOUS
<1>9. S \subseteq X /\ \A u \in S : Allowed(c, u)
  <2>1. \A i \in DOMAIN few : few[i] \in Urls(c) \ c.site.offsite
    BY <1>7
  <2> QED BY <1>1, <1>8, <2>1 DEF ToSet
<1>10. r = Sifted(few, S) \/ r = <<>>
  BY <1>1, <1>4, <1>6, <1>8 DEF Probes
<1>11. CASE r = <<>>
  <2>1. r \in Seq(X) /\ DOMAIN r = {} /\ Len(r) = 0
    BY <1>11
  <2> QED BY <1>1, <1>2, <1>3, <2>1
<1>12. CASE r = Sifted(few, S)
  <2>1. PICK f : KeepsOf(few, S, m, r, f)
    BY <1>5, <1>7, <1>12, KeptIs
  <2>2. /\ r \in Seq(S) /\ f \in [1 .. Len(r) -> 1 .. m] /\ Len(r) <= m
        /\ \A i \in 1 .. Len(r) : r[i] = few[f[i]]
        /\ \A i, j \in 1 .. Len(r) : f[i] = f[j] => i = j
    BY <2>1 DEF KeepsOf
  <2>3. DOMAIN r = 1 .. Len(r) /\ Len(r) \in Nat /\ \A i \in DOMAIN r : r[i] \in S
    BY <2>2
  <2>4. r \in Seq(X)
    <3>1. r \in [1 .. Len(r) -> X]
      BY <1>9, <2>2, <2>3
    <3> QED BY <2>3, <3>1
  <2>5. ASSUME NEW i \in DOMAIN r, NEW j \in DOMAIN r, r[i] = r[j] PROVE i = j
    <3>1. f[i] \in 1 .. m /\ f[j] \in 1 .. m
      BY <2>2, <2>3
    <3>2. a[f[i]] = a[f[j]] /\ f[i] \in DOMAIN a /\ f[j] \in DOMAIN a
      BY <1>7, <2>2, <2>3, <2>5, <3>1
    <3>3. f[i] = f[j]
      BY <1>2, <3>2
    <3> QED BY <2>2, <2>3, <3>3
  <2>6. n + Len(r) <= y
    BY <1>2, <1>5, <2>2, <2>3
  <2> QED BY <1>1, <1>9, <2>3, <2>4, <2>5, <2>6
<1> QED BY <1>10, <1>11, <1>12

(* The loop of the static crawler ends.                                    *)
LEMMA EndSound ==
  ASSUME NEW c, Sound(c), c.phase \in {"crawl", "drain"}, ~c.opts.js, c.inFlight = {}
  PROVE  Sound([c EXCEPT !.truncated = Cut(c), !.phase = "probe", !.probes = Probes(c)])
<1>1. PICK r : r = [c EXCEPT !.truncated = Cut(c), !.phase = "probe", !.probes = Probes(c)]
  OBVIOUS
<1>2. Safe(c) /\ CrawlFits(c) /\ (c.phase = "drain" => c.truncated) /\ (c.phase = "crawl" => Looping(c))
  BY DEF Sound, InPhase, Safe
<1>3. Still(c, r) /\ r.phase = "probe" /\ r.truncated = Cut(c) /\ r.probes = Probes(c)
  <2>1. Cut(c) \in BOOLEAN
    BY DEF Cut
  <2> QED BY <1>1, <1>2, <2>1 DEF CrawlFits, CrawlFields, Still, SameSite
<1>4. Safe(r)
  BY <1>2, <1>3, StillSafe
<1>5. Covered(r)
  <2> SUFFICES ASSUME ~r.truncated, \A i \in DOMAIN r.pages : r.pages[i].ok,
                      r.opts.width = 1 \/ r.opts.depth >= Cardinality(DOMAIN r.site.links)
               PROVE  \A u \in Reachable(r, r.opts.depth) : u \in Landed(r)
    BY DEF Covered
  <2>1. ~Cut(c) /\ ~c.truncated
    BY <1>3 DEF Cut
  <2>2. Looping(r)
    BY <1>2, <1>3, <2>1, StillLoops
  <2>3. ~Cut(r) /\ r.inFlight = {}
    BY <1>3, <2>1 DEF Cut, Still, SameSite
  <2> QED BY <1>4, <2>2, <2>3, LoopCovers
<1>6. Probing(r)
  <2>1. Urls(r) = Urls(c) /\ \A u : Allowed(r, u) <=> Allowed(c, u)
    BY <1>3, AlikeSees DEF Still
  <2>2. PICK b : b = Probes(c)
    OBVIOUS
  <2>3. /\ b \in Seq(Urls(c) \ (c.visited \cup c.site.offsite))
        /\ \A i, j \in DOMAIN b : b[i] = b[j] => i = j
        /\ \A i \in DOMAIN b : Allowed(c, b[i])
        /\ Len(c.pages) + Len(b) <= c.opts.pages
    BY <1>2, <2>2, ProbesFit
  <2>4. r.probes = b /\ r.visited = c.visited /\ r.site = c.site /\ r.opts = c.opts /\ r.pages = c.pages
    BY <1>3, <2>2 DEF Still, SameSite
  <2> QED BY <2>1, <2>3, <2>4 DEF Probing
<1>7. ~r.opts.js /\ r.inFlight = {}
  BY <1>3 DEF Still, SameSite
<1>8. InPhase(r) /\ r.phase \in Phases
  BY <1>3, <1>5, <1>6, <1>7 DEF InPhase, Phases
<1> QED BY <1>1, <1>4, <1>8 DEF Sound

(* One probe, whatever comes of it: the path counts as met, and a page     *)
(* there is one more page.                                                 *)
Probed(c, r, u) ==
  /\ r = [f \in CrawlFields |-> r[f]] /\ SameSite(c, r) /\ r.phase = c.phase /\ r.late = c.late
  /\ r.truncated \in BOOLEAN /\ (c.truncated => r.truncated)
  /\ r.visited = c.visited \cup {u} /\ r.queue = c.queue /\ r.inFlight = c.inFlight
  /\ r.probes = Tail(c.probes) \/ r.probes = <<>>
  /\ r.pages = c.pages \/ r.pages = Append(c.pages, [url |-> u, depth |-> 1, ok |-> TRUE])

(* One probe.                                                              *)
LEMMA ProbeSound ==
  ASSUME NEW c, Sound(c), c.phase = "probe", c.probes # <<>>, NEW r, Probed(c, r, Head(c.probes))
  PROVE  Sound(r)
<1>1. PICK b, u, X, p, g : /\ b = c.probes /\ u = Head(c.probes) /\ p = c.pages
                           /\ X = Urls(c) \ (c.visited \cup c.site.offsite)
                           /\ g = [url |-> u, depth |-> 1, ok |-> TRUE]
  OBVIOUS
<1>2. /\ ~c.opts.js /\ c.inFlight = {} /\ Covered(c) /\ Probing(c)
      /\ CrawlFits(c) /\ Once(c) /\ Politely(c) /\ Windowed(c)
  BY DEF Sound, InPhase, Safe
<1>3. /\ r = [f \in CrawlFields |-> r[f]] /\ SameSite(c, r) /\ r.phase = "probe" /\ r.late = c.late
      /\ r.truncated \in BOOLEAN /\ (c.truncated => r.truncated)
      /\ r.visited = c.visited \cup {u} /\ r.queue = c.queue /\ r.inFlight = {}
      /\ r.probes = Tail(b) \/ r.probes = <<>>
      /\ r.pages = p \/ r.pages = Append(p, g)
  BY <1>1, <1>2 DEF Probed
<1>4. /\ b \in Seq(X) /\ b # <<>> /\ \A i, j \in DOMAIN b : b[i] = b[j] => i = j
      /\ \A i \in DOMAIN b : Allowed(c, b[i])
      /\ Len(p) + Len(b) <= c.opts.pages
  BY <1>1, <1>2 DEF Probing
<1>5. /\ Len(b) \in Nat \ {0} /\ DOMAIN b = 1 .. Len(b) /\ u = b[1] /\ 1 \in DOMAIN b /\ u \in X
      /\ Tail(b) \in Seq(X) /\ Len(Tail(b)) = Len(b) - 1
      /\ DOMAIN Tail(b) = 1 .. Len(b) - 1
      /\ \A i \in 1 .. Len(b) - 1 : i + 1 \in DOMAIN b /\ Tail(b)[i] = b[i + 1]
  BY <1>1, <1>4
<1>6. /\ Urls(r) = Urls(c) /\ Steps(r) = Steps(c) /\ Seeds(r) = Seeds(c)
      /\ (\A v : Allowed(r, v) <=> Allowed(c, v)) /\ (\A v : Followed(r, v) = Followed(c, v))
      /\ r.site = c.site /\ r.opts = c.opts
  BY <1>3, AlikeSees DEF SameSite
<1>7. PICK n, Q : n = Len(p) /\ Q = [url : Urls(c), depth : Nat, ok : BOOLEAN]
  OBVIOUS
<1>8. p \in Seq(Q) /\ n \in Nat /\ DOMAIN p = 1 .. n /\ g \in Q /\ g.url = u /\ c.opts.pages \in Nat
  <2>1. p \in Seq(Q)
    BY <1>1, <1>2, <1>7 DEF CrawlFits
  <2>2. u \in Urls(c)
    BY <1>1, <1>5
  <2>3. g \in Q /\ g.url = u
    BY <1>1, <1>7, <2>2
  <2>4. c.opts.pages \in Nat
    BY <1>2, SiteAssumption DEF CrawlFits
  <2> QED BY <1>7, <2>1, <2>3, <2>4
<1>9. /\ r.pages \in Seq(Q) /\ Len(r.pages) \in Nat /\ Len(r.pages) <= n + 1
      /\ \A i \in DOMAIN p : i \in DOMAIN r.pages /\ r.pages[i] = p[i]
      /\ \A i \in DOMAIN r.pages : (i \in DOMAIN p /\ r.pages[i] = p[i]) \/ (i = n + 1 /\ r.pages[i] = g)
  <2>1. CASE r.pages = p
    BY <1>7, <1>8, <2>1
  <2>2. CASE r.pages = Append(p, g)
    <3>1. PICK s : s = r.pages
      OBVIOUS
    <3>2. /\ s \in Seq(Q) /\ Len(s) = n + 1 /\ DOMAIN s = 1 .. n + 1 /\ s[n + 1] = g
          /\ \A i \in 1 .. n : s[i] = p[i]
      BY <1>7, <1>8, <2>2, <3>1
    <3>3. /\ \A i \in 1 .. n : i \in 1 .. n + 1
          /\ \A i \in 1 .. n + 1 : i \in 1 .. n \/ i = n + 1
      BY <1>8
    <3> QED BY <1>8, <3>1, <3>2, <3>3
  <2> QED BY <1>3, <2>1, <2>2
<1>10. CrawlFits(r)
  <2>1. r.visited \subseteq Urls(c) \ c.site.offsite
    BY <1>1, <1>2, <1>3, <1>5 DEF CrawlFits
  <2>2. IsFiniteSet({})
    BY FS_EmptySet
  <2>3. r.pages \in Seq([url : Urls(c), depth : Nat, ok : BOOLEAN])
    BY <1>7, <1>9
  <2>4. /\ c.site \in Sites /\ c.opts \in Options /\ (c.opts.js => c.disallow = {})
        /\ c.listed \subseteq Urls(c) /\ (c.opts.js => c.listed = {})
        /\ c.queue \in Seq(Steps(c)) /\ c.late \in BOOLEAN
    BY <1>2 DEF CrawlFits
  <2>5. r.disallow = c.disallow /\ r.listed = c.listed
    BY <1>3 DEF SameSite
  <2> QED BY <1>3, <1>6, <2>1, <2>2, <2>3, <2>4, <2>5 DEF CrawlFits
<1>11. Windowed(r)
  <2>1. Flying(r) = 0
    BY <1>3, FS_EmptySet DEF Flying
  <2>2. Len(r.pages) <= c.opts.pages
    BY <1>4, <1>5, <1>7, <1>8, <1>9
  <2>3. c.opts.width \in Nat
    BY <1>2, SiteAssumption DEF CrawlFits
  <2> QED BY <1>6, <1>9, <2>1, <2>2, <2>3 DEF Windowed
<1>12. Politely(r)
  <2>1. \A i \in DOMAIN p : Allowed(c, p[i].url)
    BY <1>1, <1>2 DEF Politely
  <2>2. Allowed(c, u)
    BY <1>4, <1>5
  <2>3. ASSUME NEW i \in DOMAIN r.pages PROVE Allowed(c, r.pages[i].url)
    BY <1>8, <1>9, <2>1, <2>2
  <2> QED BY <1>3, <1>6, <2>3 DEF Politely
<1>13. Once(r)
  <2>1. /\ \A i, j \in DOMAIN p : p[i].url = p[j].url => i = j
        /\ \A i \in DOMAIN p : p[i].url \in c.visited
        /\ \A i \in DOMAIN p, j \in DOMAIN c.queue : p[i].url # c.queue[j].url
        /\ \A i, j \in DOMAIN c.queue : c.queue[i].url = c.queue[j].url => i = j
        /\ \A i \in DOMAIN c.queue : c.queue[i].url \in c.visited
    BY <1>1, <1>2 DEF Once
  <2>2. u \notin c.visited
    BY <1>1, <1>5
  <2>3. ASSUME NEW i \in DOMAIN r.pages, NEW j \in DOMAIN r.pages, r.pages[i].url = r.pages[j].url PROVE i = j
    <3>1. CASE i \in DOMAIN p /\ r.pages[i] = p[i] /\ j \in DOMAIN p /\ r.pages[j] = p[j]
      BY <2>1, <2>3, <3>1
    <3>2. CASE i \in DOMAIN p /\ r.pages[i] = p[i] /\ j = n + 1 /\ r.pages[j] = g
      BY <1>8, <2>1, <2>2, <2>3, <3>2
    <3>3. CASE i = n + 1 /\ r.pages[i] = g /\ j \in DOMAIN p /\ r.pages[j] = p[j]
      BY <1>8, <2>1, <2>2, <2>3, <3>3
    <3>4. CASE i = n + 1 /\ j = n + 1
      BY <3>4
    <3> QED BY <1>9, <3>1, <3>2, <3>3, <3>4
  <2>4. ASSUME NEW i \in DOMAIN r.pages
        PROVE  r.pages[i].url \in r.visited /\ \A j \in DOMAIN c.queue : r.pages[i].url # c.queue[j].url
    <3>1. CASE i \in DOMAIN p /\ r.pages[i] = p[i]
      BY <1>3, <2>1, <3>1, ZenonT(60)
    <3>2. CASE r.pages[i] = g
      BY <1>3, <1>8, <2>1, <2>2, <3>2
    <3> QED BY <1>9, <3>1, <3>2
  <2>5. PICK q : q = c.queue /\ q = r.queue
    BY <1>3
  <2>6. /\ \A i, j \in DOMAIN q : q[i].url = q[j].url => i = j
        /\ \A i \in DOMAIN q : q[i].url \in r.visited
        /\ \A i \in DOMAIN r.pages, j \in DOMAIN q : r.pages[i].url # q[j].url
    BY <1>3, <2>1, <2>4, <2>5, ZenonT(60)
  <2>7. /\ \A i, j \in DOMAIN r.pages : r.pages[i].url = r.pages[j].url => i = j
        /\ \A i \in DOMAIN r.pages : r.pages[i].url \in r.visited
    BY <2>3, <2>4
  <2>8. /\ \A i, j \in DOMAIN r.queue : r.queue[i].url = r.queue[j].url => i = j
        /\ \A i \in DOMAIN r.queue : r.queue[i].url \in r.visited
        /\ \A i \in DOMAIN r.pages, j \in DOMAIN r.queue : r.pages[i].url # r.queue[j].url
    BY <2>5, <2>6
  <2>9. /\ \A f, h \in r.inFlight : f.url = h.url => f = h
        /\ \A f \in r.inFlight : f.url \in r.visited
        /\ \A f \in r.inFlight, i \in DOMAIN r.pages : r.pages[i].url # f.url
        /\ \A f \in r.inFlight, i \in DOMAIN r.queue : r.queue[i].url # f.url
    BY <1>3
  <2> QED BY <2>7, <2>8, <2>9, Zenon DEF Once
<1>14. Covered(r)
  <2> SUFFICES ASSUME ~r.truncated, \A i \in DOMAIN r.pages : r.pages[i].ok,
                      r.opts.width = 1 \/ r.opts.depth >= Cardinality(DOMAIN r.site.links),
                      NEW v \in Reachable(r, r.opts.depth)
               PROVE  v \in Landed(r)
    BY DEF Covered
  <2>1. ~c.truncated /\ \A i \in DOMAIN p : p[i].ok
    BY <1>3, <1>9
  <2>2. Reachable(r, r.opts.depth) = Reachable(c, c.opts.depth)
    <3>1. [w \in DOMAIN r.site.links |-> Followed(r, w)] = [w \in DOMAIN c.site.links |-> Followed(c, w)]
      BY <1>6
    <3> QED BY <1>6, <3>1 DEF Reachable
  <2>3. v \in Landed(c)
    BY <1>1, <1>2, <1>6, <2>1, <2>2 DEF Covered
  <2>4. PICK i \in DOMAIN p : p[i].url = v
    BY <1>1, <2>3 DEF Landed
  <2>5. i \in DOMAIN r.pages /\ r.pages[i].url = v
    BY <1>9, <2>4
  <2> QED BY <2>5 DEF Landed
<1>15. Probing(r)
  <2>1. CASE r.probes = <<>>
    <3>1. r.probes \in Seq(Urls(r) \ (r.visited \cup r.site.offsite)) /\ DOMAIN r.probes = {} /\ Len(r.probes) = 0
      BY <2>1
    <3>2. Len(r.pages) + 0 <= r.opts.pages
      BY <1>4, <1>5, <1>6, <1>7, <1>8, <1>9
    <3> QED BY <3>1, <3>2 DEF Probing
  <2>2. CASE r.probes = Tail(b)
    <3>1. PICK s : s = Tail(b) /\ s = r.probes
      BY <2>2
    <3>2. /\ s \in Seq(X) /\ Len(s) = Len(b) - 1 /\ DOMAIN s = 1 .. Len(b) - 1
          /\ \A i \in DOMAIN s : i + 1 \in DOMAIN b /\ s[i] = b[i + 1] /\ i + 1 # 1
      BY <1>5, <3>1
    <3>3. ASSUME NEW i \in DOMAIN s PROVE s[i] \in X \ {u} /\ Allowed(c, s[i])
      <4>1. i + 1 \in DOMAIN b /\ s[i] = b[i + 1] /\ i + 1 # 1
        BY <3>2
      <4>2. b[i + 1] # b[1]
        BY <1>4, <1>5, <4>1
      <4>3. s[i] \in X
        BY <3>2
      <4> QED BY <1>4, <1>5, <4>1, <4>2, <4>3
    <3>4. PICK Y : Y = Urls(r) \ (r.visited \cup r.site.offsite)
      OBVIOUS
    <3>5. X \ {u} \subseteq Y
      BY <1>1, <1>3, <1>6, <3>4
    <3>6. s \in Seq(Y)
      <4>1. Len(s) \in Nat /\ s \in [1 .. Len(s) -> X]
        BY <3>2
      <4>2. s \in [1 .. Len(s) -> Y]
        BY <3>2, <3>3, <3>5, <4>1
      <4> QED BY <4>1, <4>2
    <3>7. ASSUME NEW i \in DOMAIN s, NEW j \in DOMAIN s, s[i] = s[j] PROVE i = j
      <4>1. i + 1 = j + 1
        BY <1>4, <3>2, <3>7
      <4>2. i \in Nat /\ j \in Nat
        BY <1>5, <3>2
      <4> QED BY <4>1, <4>2
    <3>8. Len(r.pages) + Len(s) <= r.opts.pages
      BY <1>4, <1>5, <1>6, <1>7, <1>8, <1>9, <3>2
    <3> QED BY <1>6, <3>1, <3>3, <3>4, <3>6, <3>7, <3>8 DEF Probing
  <2> QED BY <1>3, <2>1, <2>2
<1>16. InPhase(r) /\ r.phase \in Phases
  <2>1. ~r.opts.js
    BY <1>2, <1>6
  <2> QED BY <1>3, <1>14, <1>15, <2>1 DEF InPhase, Phases
<1> QED BY <1>10, <1>11, <1>12, <1>13, <1>16 DEF Sound, Safe

(* The pages that are left when those that render like the root go.        *)
Trimmed(c, k, f) ==
  /\ k \in Seq([url : Urls(c), depth : Nat, ok : BOOLEAN]) /\ Len(k) \in Nat /\ Len(k) <= Len(c.pages)
  /\ \A i \in DOMAIN k : f[i] \in DOMAIN c.pages /\ k[i] = c.pages[f[i]]
  /\ \A i, j \in DOMAIN k : f[i] = f[j] => i = j
  /\ \A m \in DOMAIN c.pages : Twin(c, c.pages[m]) \/ \E i \in DOMAIN k : k[i] = c.pages[m]

(* The twins of the root go: what is left, place by place.                 *)
LEMMA TrimmedIs ==
  ASSUME NEW c, Safe(c), NEW k, k = Sifted(c.pages, {p \in ToSet(c.pages) : ~Twin(c, p)})
  PROVE  \E f : Trimmed(c, k, f)
<1>1. PICK P, p, S, n : /\ P = [url : Urls(c), depth : Nat, ok : BOOLEAN] /\ p = c.pages /\ n = Len(p)
                        /\ S = {x \in ToSet(c.pages) : ~Twin(c, x)}
  OBVIOUS
<1>2. p \in Seq(P)
  BY <1>1 DEF Safe, CrawlFits
<1>3. n \in Nat /\ DOMAIN p = 1 .. n /\ \A i \in DOMAIN p : p[i] \in P
  <2>1. n = Len(p)
    BY <1>1
  <2> QED BY <1>2, <2>1
<1>4. PICK f : KeepsOf(p, S, n, k, f)
  BY <1>1, <1>3, KeptIs
<1>5. /\ k \in Seq(S) /\ f \in [1 .. Len(k) -> 1 .. n] /\ Len(k) <= n
      /\ \A i \in 1 .. Len(k) : k[i] = p[f[i]]
      /\ \A i, j \in 1 .. Len(k) : f[i] = f[j] => i = j
      /\ \A m \in 1 .. n : p[m] \in S => \E i \in 1 .. Len(k) : f[i] = m
  BY <1>4 DEF KeepsOf
<1>6. Len(k) \in Nat /\ DOMAIN k = 1 .. Len(k) /\ k \in [1 .. Len(k) -> S]
  <2>1. k \in Seq(S)
    BY <1>5
  <2>2. Len(k) \in Nat /\ DOMAIN k = 1 .. Len(k)
    BY <2>1
  <2>3. \A i \in 1 .. Len(k) : k[i] \in S
    BY <2>1
  <2>4. k \in [1 .. Len(k) -> S]
    BY <2>1, LenProperties
  <2> QED BY <2>2, <2>4
<1>7. S \subseteq P
  BY <1>1, <1>3 DEF ToSet
<1>8. k \in Seq(P)
  <2>1. k \in [1 .. Len(k) -> P]
    BY <1>6, <1>7
  <2> QED BY <1>6, <2>1
<1>9. ASSUME NEW m \in DOMAIN p PROVE Twin(c, p[m]) \/ \E i \in DOMAIN k : k[i] = p[m]
  <2>1. CASE p[m] \in S
    <3>1. PICK i \in 1 .. Len(k) : f[i] = m
      BY <1>3, <1>5, <2>1
    <3> QED BY <1>5, <1>6, <3>1
  <2>2. CASE p[m] \notin S
    BY <1>1, <2>2 DEF ToSet
  <2> QED BY <2>1, <2>2
<1>10. \A i \in DOMAIN k : f[i] \in DOMAIN p /\ k[i] = p[f[i]]
  BY <1>3, <1>5, <1>6
<1>11. Trimmed(c, k, f)
  BY <1>1, <1>5, <1>6, <1>8, <1>9, <1>10 DEF Trimmed
<1> QED BY <1>11

Browsed(c, r) ==
  /\ r = [f \in CrawlFields |-> r[f]] /\ SameSite(c, r) /\ r.phase = "done" /\ r.late = c.late
  /\ r.truncated = Cut(c) /\ r.visited = c.visited /\ r.queue = c.queue /\ r.inFlight = c.inFlight
  /\ r.pages = c.pages \/ \E f : Trimmed(c, r.pages, f)

(* The loop of the browser ends; its twins count as landed on the root.    *)
LEMMA BrowseSound ==
  ASSUME NEW c, Sound(c), c.phase \in {"crawl", "drain"}, c.opts.js, c.inFlight = {}, NEW r, Browsed(c, r)
  PROVE  Sound(r)
<1>1. /\ CrawlFits(c) /\ Once(c) /\ Politely(c) /\ Windowed(c) /\ Safe(c)
      /\ (c.phase = "drain" => c.truncated) /\ (c.phase = "crawl" => Looping(c))
  BY DEF Sound, InPhase, Safe
<1>2. PICK p, k, f : /\ p = c.pages /\ k = r.pages
                     /\ k = p => f = [i \in DOMAIN p |-> i]
                     /\ k # p => Trimmed(c, k, f)
  <2>1. CASE r.pages = c.pages
    BY <2>1
  <2>2. CASE r.pages # c.pages
    BY <2>2 DEF Browsed
  <2> QED BY <2>1, <2>2
<1>3. PICK P : P = [url : Urls(c), depth : Nat, ok : BOOLEAN]
  OBVIOUS
<1>4. p \in Seq(P) /\ Len(p) \in Nat
  <2>1. p \in Seq(P)
    BY <1>1, <1>2, <1>3 DEF CrawlFits
  <2> QED BY <2>1
<1>5. /\ k \in Seq(P) /\ Len(k) \in Nat /\ Len(k) <= Len(p)
      /\ \A i \in DOMAIN k : f[i] \in DOMAIN p /\ k[i] = p[f[i]]
      /\ \A i, j \in DOMAIN k : f[i] = f[j] => i = j
      /\ \A m \in DOMAIN p : Twin(c, p[m]) \/ \E i \in DOMAIN k : k[i] = p[m]
  <2>1. CASE k = p
    BY <1>2, <1>4, <2>1
  <2>2. CASE k # p
    BY <1>2, <1>3, <2>2 DEF Trimmed
  <2> QED BY <2>1, <2>2
<1>6. /\ r = [g \in CrawlFields |-> r[g]] /\ SameSite(c, r) /\ r.phase = "done" /\ r.late = c.late
      /\ r.truncated = Cut(c) /\ r.visited = c.visited /\ r.queue = c.queue /\ r.inFlight = {} /\ c.inFlight = {}
      /\ r.site = c.site /\ r.opts = c.opts /\ r.disallow = c.disallow /\ r.listed = c.listed
  BY DEF Browsed, SameSite
<1>7. /\ Urls(r) = Urls(c) /\ Steps(r) = Steps(c) /\ Seeds(r) = Seeds(c)
      /\ (\A u : Allowed(r, u) <=> Allowed(c, u)) /\ \A v : Followed(r, v) = Followed(c, v)
  BY <1>6, AlikeSees
<1>8. CrawlFits(r)
  <2>1. Cut(c) \in BOOLEAN
    BY DEF Cut
  <2>2. r.pages \in Seq([url : Urls(c), depth : Nat, ok : BOOLEAN])
    BY <1>2, <1>3, <1>5
  <2>3. /\ c.site \in Sites /\ c.opts \in Options /\ (c.opts.js => c.disallow = {})
        /\ c.listed \subseteq Urls(c) /\ (c.opts.js => c.listed = {})
        /\ c.visited \subseteq Urls(c) \ c.site.offsite
        /\ c.queue \in Seq(Steps(c)) /\ c.late \in BOOLEAN
    BY <1>1 DEF CrawlFits
  <2>4. IsFiniteSet({})
    BY FS_EmptySet
  <2> QED BY <1>6, <1>7, <2>1, <2>2, <2>3, <2>4 DEF CrawlFits
<1>9. Windowed(r)
  <2>1. Flying(r) = Flying(c)
    BY <1>6 DEF Flying
  <2>2. Len(p) + Flying(c) <= c.opts.pages /\ Flying(c) <= c.opts.width
    BY <1>1, <1>2 DEF Windowed
  <2>3. Flying(c) \in Nat /\ c.opts.pages \in Nat
    BY <1>1, RoomIs, SiteAssumption DEF CrawlFits
  <2>4. Len(k) + Flying(c) <= c.opts.pages
    BY <1>4, <1>5, <2>2, <2>3
  <2> QED BY <1>2, <1>6, <2>1, <2>2, <2>4 DEF Windowed
<1>10. Politely(r)
  <2>1. \A i \in DOMAIN p : Allowed(c, p[i].url)
    BY <1>1, <1>2 DEF Politely
  <2>2. \A i \in DOMAIN k : Allowed(c, k[i].url)
    BY <1>5, <2>1
  <2> QED BY <1>2, <1>6, <1>7, <2>2 DEF Politely
<1>11. Once(r)
  <2>1. /\ \A i, j \in DOMAIN p : p[i].url = p[j].url => i = j
        /\ \A i \in DOMAIN p : p[i].url \in c.visited
        /\ \A i \in DOMAIN p, j \in DOMAIN c.queue : p[i].url # c.queue[j].url
        /\ \A i, j \in DOMAIN c.queue : c.queue[i].url = c.queue[j].url => i = j
        /\ \A i \in DOMAIN c.queue : c.queue[i].url \in c.visited
    BY <1>1, <1>2 DEF Once
  <2>2. ASSUME NEW i \in DOMAIN k, NEW j \in DOMAIN k, k[i].url = k[j].url PROVE i = j
    <3>1. f[i] \in DOMAIN p /\ f[j] \in DOMAIN p /\ p[f[i]].url = p[f[j]].url
      BY <1>5, <2>2
    <3>2. f[i] = f[j]
      BY <2>1, <3>1
    <3> QED BY <1>5, <3>2
  <2>3. ASSUME NEW i \in DOMAIN k
        PROVE  k[i].url \in c.visited /\ \A j \in DOMAIN c.queue : k[i].url # c.queue[j].url
    BY <1>5, <2>1
  <2>4. PICK q, v : q = c.queue /\ q = r.queue /\ v = c.visited /\ v = r.visited
    BY <1>6
  <2>5. /\ \A i, j \in DOMAIN q : q[i].url = q[j].url => i = j
        /\ \A i \in DOMAIN q : q[i].url \in v
        /\ \A i, j \in DOMAIN k : k[i].url = k[j].url => i = j
        /\ \A i \in DOMAIN k : k[i].url \in v
        /\ \A i \in DOMAIN k, j \in DOMAIN q : k[i].url # q[j].url
    BY <2>1, <2>2, <2>3, <2>4
  <2>6. /\ \A i, j \in DOMAIN r.queue : r.queue[i].url = r.queue[j].url => i = j
        /\ \A i \in DOMAIN r.queue : r.queue[i].url \in r.visited
        /\ \A i, j \in DOMAIN r.pages : r.pages[i].url = r.pages[j].url => i = j
        /\ \A i \in DOMAIN r.pages : r.pages[i].url \in r.visited
        /\ \A i \in DOMAIN r.pages, j \in DOMAIN r.queue : r.pages[i].url # r.queue[j].url
    BY <1>2, <2>4, <2>5
  <2>7. /\ \A g, h \in r.inFlight : g.url = h.url => g = h
        /\ \A g \in r.inFlight : g.url \in r.visited
        /\ \A g \in r.inFlight, i \in DOMAIN r.pages : r.pages[i].url # g.url
        /\ \A g \in r.inFlight, i \in DOMAIN r.queue : r.queue[i].url # g.url
    BY <1>6
  <2> QED BY <2>6, <2>7, Zenon DEF Once
<1>12. Covered(r)
  <2> SUFFICES ASSUME ~r.truncated, \A i \in DOMAIN r.pages : r.pages[i].ok,
                      r.opts.width = 1 \/ r.opts.depth >= Cardinality(DOMAIN r.site.links),
                      NEW u \in Reachable(r, r.opts.depth)
               PROVE  u \in Landed(r) \/ (r.opts.js /\ Landing(r.site, u) \in r.site.same)
    BY DEF Covered
  <2>1. ~Cut(c) /\ ~c.truncated
    BY <1>6 DEF Cut
  <2>2. Looping(c)
    BY <1>1, <2>1
  <2>3. \A m \in DOMAIN p : p[m].ok
    <3> SUFFICES ASSUME NEW m \in DOMAIN p PROVE p[m].ok
      OBVIOUS
    <3>1. CASE Twin(c, p[m])
      BY <3>1 DEF Twin
    <3>2. CASE ~Twin(c, p[m])
      BY <1>2, <1>5, <3>2
    <3> QED BY <3>1, <3>2
  <2>4. Reachable(r, r.opts.depth) = Reachable(c, c.opts.depth)
    <3>1. [w \in DOMAIN r.site.links |-> Followed(r, w)] = [w \in DOMAIN c.site.links |-> Followed(c, w)]
      BY <1>6, <1>7
    <3> QED BY <1>6, <1>7, <3>1 DEF Reachable
  <2>5. c.opts.width = 1 \/ c.opts.depth >= Cardinality(DOMAIN c.site.links)
    BY <1>6
  <2>6. \A i \in DOMAIN c.pages : c.pages[i].ok
    BY <1>2, <2>3
  <2>7. u \in Landed(c)
    BY <1>1, <1>6, <2>1, <2>2, <2>4, <2>5, <2>6, LoopCovers
  <2>8. PICK m \in DOMAIN p : p[m].url = u
    BY <1>2, <2>7 DEF Landed
  <2>9. CASE Twin(c, p[m])
    BY <1>6, <2>8, <2>9 DEF Twin
  <2>10. CASE \E i \in DOMAIN k : k[i] = p[m]
    <3>1. \E i \in DOMAIN r.pages : r.pages[i].url = u
      BY <1>2, <2>8, <2>10
    <3> QED BY <3>1 DEF Landed
  <2> QED BY <1>5, <2>9, <2>10
<1>13. InPhase(r) /\ r.phase \in Phases
  BY <1>6, <1>12 DEF InPhase, Phases
<1> QED BY <1>8, <1>9, <1>10, <1>11, <1>13 DEF Sound, Safe

-----------------------------------------------------------------------------
(* The invariant: a crawl that was started is sound.                       *)
LEMMA CrawlInvSays == CrawlInv <=> (crawl.phase # "idle" => Sound(crawl))
BY DEF CrawlInv, Sound, Safe

(* A crawl starts.                                                         *)
LEMMA CrawlStarts ==
  ASSUME StartCrawl
  PROVE  Sound(crawl')
<1>1. PICK s \in Sites, o \in Options, robots \in BOOLEAN :
        crawl' = [phase |-> IF o.js THEN "browse" ELSE "maps",
                  site |-> s, opts |-> o, disallow |-> IF robots /\ ~o.js THEN s.robots ELSE {},
                  maps |-> IF o.js THEN <<>> ELSE <<[name |-> s.map, level |-> 0]>>,
                  listed |-> {}, visited |-> {}, queue |-> <<>>, inFlight |-> {},
                  pages |-> <<>>, truncated |-> FALSE, late |-> FALSE,
                  probes |-> <<>>, tried |-> 0, same |-> 0, endpoints |-> {}]
  BY DEF StartCrawl
<1>2. PICK r : r = crawl'
  OBVIOUS
<1>3. /\ r = [f \in CrawlFields |-> r[f]] /\ r.site = s /\ r.opts = o
      /\ r.phase = (IF o.js THEN "browse" ELSE "maps")
      /\ r.maps = (IF o.js THEN <<>> ELSE <<[name |-> s.map, level |-> 0]>>)
      /\ (o.js => r.disallow = {}) /\ r.listed = {} /\ r.visited = {} /\ r.queue = <<>> /\ r.inFlight = {}
      /\ r.pages = <<>> /\ ~r.truncated /\ r.truncated \in BOOLEAN /\ r.late \in BOOLEAN
  BY <1>1, <1>2 DEF CrawlFields
<1>4. SiteOK(s) /\ o.pages \in Nat /\ o.width \in Nat
  BY SiteAssumption
<1>5. IsFiniteSet({}) /\ Cardinality({}) = 0 /\ DOMAIN << >> = {} /\ Len(<< >>) = 0
  BY FS_EmptySet
<1>6. CrawlFits(r)
  <2>1. << >> \in Seq(Steps(r)) /\ << >> \in Seq([url : Urls(r), depth : Nat, ok : BOOLEAN])
    OBVIOUS
  <2> QED BY <1>3, <1>5, <2>1 DEF CrawlFits
<1>7. Once(r) /\ Politely(r) /\ Windowed(r)
  <2>1. DOMAIN r.pages = {} /\ DOMAIN r.queue = {} /\ r.inFlight = {} /\ Len(r.pages) = 0
    BY <1>3, <1>5
  <2>2. Once(r) /\ Politely(r)
    BY <2>1, Zenon DEF Once, Politely
  <2>3. Flying(r) = 0
    BY <1>5, <2>1 DEF Flying
  <2>4. Windowed(r)
    BY <1>3, <1>4, <2>1, <2>3 DEF Windowed
  <2> QED BY <2>2, <2>4
<1>8. r.maps \in Seq([name : DOMAIN r.site.lists, level : Nat])
  <2>1. PICK M, m : M = [name : DOMAIN s.lists, level : Nat] /\ m = [name |-> s.map, level |-> 0]
    OBVIOUS
  <2>2. s.map \in DOMAIN s.lists
    BY <1>4 DEF SiteOK
  <2>3. m \in M
    BY <2>1, <2>2
  <2>4. r.maps = <<>> \/ r.maps = <<m>>
    BY <1>3, <2>1
  <2>5. <<>> \in Seq(M) /\ <<m>> \in Seq(M)
    BY <2>3
  <2>6. r.maps \in Seq(M)
    BY <2>4, <2>5
  <2> QED BY <1>3, <2>1, <2>6
<1>9. Unstarted(r)
  BY <1>3, <1>8 DEF Unstarted
<1>10. InPhase(r) /\ r.phase \in Phases
  BY <1>3, <1>9 DEF InPhase, Phases
<1> QED BY <1>2, <1>6, <1>7, <1>10 DEF Sound, Safe

(* A site map is read, or does not answer.                                 *)
LEMMA MapRead ==
  ASSUME Sound(crawl), ReadMap
  PROVE  Sound(crawl')
<1>1. PICK c, r : c = crawl /\ r = crawl'
  OBVIOUS
<1>2. c.phase = "maps" /\ c.maps # <<>> /\ Safe(c) /\ CrawlFits(c) /\ Unstarted(c)
  BY <1>1 DEF ReadMap, Sound, InPhase, Safe
<1>3. PICK m : m = Head(c.maps)
  OBVIOUS
<1>4. PICK kids : kids = c.site.index[m.name]
  OBVIOUS
<1>5. PICK more : more = [i \in 1 .. Len(kids) |-> [name |-> kids[i], level |-> m.level + 1]]
  OBVIOUS
<1>6. \/ r = [c EXCEPT !.maps = more \o Tail(@), !.listed = @ \cup c.site.lists[m.name]]
      \/ r = [c EXCEPT !.maps = Tail(@)]
  <2>1. \/ r = [c EXCEPT !.maps = [i \in 1 .. Len(kids) |-> [name |-> kids[i], level |-> m.level + 1]] \o Tail(c.maps),
                         !.listed = c.listed \cup c.site.lists[m.name]]
        \/ r = [c EXCEPT !.maps = Tail(c.maps)]
    BY <1>1, <1>3, <1>4 DEF ReadMap
  <2> QED BY <1>5, <2>1
<1>7. PICK M : M = [name : DOMAIN c.site.lists, level : Nat]
  OBVIOUS
<1>8. c.maps \in Seq(M)
  BY <1>2, <1>7 DEF Unstarted
<1>9. m \in M /\ Tail(c.maps) \in Seq(M)
  BY <1>2, <1>3, <1>8
<1>10. m.name \in DOMAIN c.site.lists /\ m.level \in Nat
  BY <1>7, <1>9
<1>11. SiteOK(c.site)
  BY <1>2, SiteAssumption DEF CrawlFits
<1>12. kids \in Seq(DOMAIN c.site.lists) /\ c.site.lists[m.name] \subseteq Urls(c)
  BY <1>4, <1>10, <1>11 DEF SiteOK, Urls
<1>13. more \in Seq(M)
  <2>1. Len(kids) \in Nat /\ \A i \in 1 .. Len(kids) : kids[i] \in DOMAIN c.site.lists
    BY <1>12
  <2>2. \A i \in 1 .. Len(kids) : [name |-> kids[i], level |-> m.level + 1] \in M
    BY <1>7, <1>10, <2>1
  <2>3. more \in [1 .. Len(kids) -> M]
    BY <1>5, <2>2
  <2> QED BY <2>1, <2>3
<1>14. more \o Tail(c.maps) \in Seq(M)
  BY <1>9, <1>13
<1>15. /\ r = [f \in CrawlFields |-> r[f]] /\ r.maps \in Seq(M)
       /\ (r.listed = c.listed \/ r.listed = c.listed \cup c.site.lists[m.name])
       /\ r.phase = c.phase /\ r.site = c.site /\ r.opts = c.opts /\ r.disallow = c.disallow
       /\ r.visited = c.visited /\ r.queue = c.queue /\ r.inFlight = c.inFlight /\ r.pages = c.pages
       /\ r.truncated = c.truncated /\ r.late = c.late
  <2>1. CASE r = [c EXCEPT !.maps = Tail(@)]
    BY <1>2, <1>9, <2>1 DEF CrawlFits, CrawlFields
  <2>2. CASE r = [c EXCEPT !.maps = more \o Tail(@), !.listed = @ \cup c.site.lists[m.name]]
    <3>1. PICK y, z : y = more \o Tail(c.maps) /\ z = c.listed \cup c.site.lists[m.name]
      OBVIOUS
    <3>2. r = [c EXCEPT !.maps = y, !.listed = z]
      BY <2>2, <3>1
    <3> QED BY <1>2, <1>14, <3>1, <3>2 DEF CrawlFits, CrawlFields
  <2> QED BY <1>6, <2>1, <2>2
<1>16. ~c.opts.js
  BY <1>2 DEF Unstarted
<1>17. Urls(r) = Urls(c) /\ Steps(r) = Steps(c)
  BY <1>15 DEF Urls, Steps
<1>18. CrawlFits(r)
  <2>1. r.listed \subseteq Urls(c)
    BY <1>2, <1>12, <1>15 DEF CrawlFits
  <2> QED BY <1>2, <1>15, <1>16, <1>17, <2>1 DEF CrawlFits
<1>19. Unstarted(r)
  BY <1>2, <1>7, <1>15 DEF Unstarted
<1>20. Once(r) /\ Politely(r) /\ Windowed(r)
  <2>1. /\ r.visited = {} /\ r.queue = <<>> /\ r.inFlight = {} /\ r.pages = <<>>
    BY <1>19 DEF Unstarted
  <2>2. IsFiniteSet({}) /\ Cardinality({}) = 0 /\ DOMAIN << >> = {} /\ Len(<< >>) = 0
    BY FS_EmptySet
  <2>3. r.opts.pages \in Nat /\ r.opts.width \in Nat
    BY <1>18, SiteAssumption DEF CrawlFits
  <2> QED BY <2>1, <2>2, <2>3 DEF Once, Politely, Windowed, Flying
<1>21. InPhase(r) /\ r.phase \in Phases
  BY <1>2, <1>15, <1>19 DEF InPhase, Phases
<1> QED BY <1>1, <1>18, <1>20, <1>21 DEF Sound, Safe

(* What is covered stays so while no page and no link moves.               *)
LEMMA StillCovered ==
  ASSUME NEW c, NEW r, Still(c, r), r.truncated = c.truncated, Covered(c)
  PROVE  Covered(r)
<1>1. SameSite(c, r) /\ r.site = c.site /\ r.opts = c.opts /\ r.pages = c.pages
  BY DEF Still, SameSite
<1>2. Reachable(r, r.opts.depth) = Reachable(c, c.opts.depth)
  <2>1. Seeds(r) = Seeds(c) /\ \A v : Followed(r, v) = Followed(c, v)
    BY <1>1, AlikeSees
  <2>2. [w \in DOMAIN r.site.links |-> Followed(r, w)] = [w \in DOMAIN c.site.links |-> Followed(c, w)]
    BY <1>1, <2>1
  <2> QED BY <1>1, <2>1, <2>2 DEF Reachable
<1>3. Landed(r) = Landed(c)
  BY <1>1 DEF Landed
<1> QED BY <1>1, <1>2, <1>3 DEF Covered

(* The ten minutes are over.                                               *)
LEMMA LateSound ==
  ASSUME Sound(crawl), TimeIsUp
  PROVE  Sound(crawl')
<1>1. PICK c, r : c = crawl /\ r = crawl'
  OBVIOUS
<1>2. Safe(c) /\ CrawlFits(c) /\ InPhase(c) /\ c.phase \in {"crawl", "drain", "probe"}
  BY <1>1 DEF TimeIsUp, Sound, Safe
<1>3. r = [c EXCEPT !.late = TRUE]
  BY <1>1 DEF TimeIsUp
<1>4. Still(c, r) /\ r.phase = c.phase /\ r.truncated = c.truncated /\ r.probes = c.probes
  BY <1>2, <1>3 DEF CrawlFits, CrawlFields, Still, SameSite
<1>5. Safe(r)
  BY <1>2, <1>4, StillSafe
<1>6. CASE c.phase \in {"crawl", "drain"}
  <2>1. InPhase(r) /\ r.phase \in Phases
    BY <1>2, <1>4, <1>6, StillLoops DEF InPhase, Phases
  <2> QED BY <1>1, <1>5, <2>1 DEF Sound
<1>7. CASE c.phase = "probe"
  <2>1. ~c.opts.js /\ c.inFlight = {} /\ Covered(c) /\ Probing(c)
    BY <1>2, <1>7 DEF InPhase
  <2>2. Covered(r)
    BY <1>4, <2>1, StillCovered
  <2>3. Probing(r)
    <3>1. Urls(r) = Urls(c) /\ \A u : Allowed(r, u) <=> Allowed(c, u)
      BY <1>4, AlikeSees DEF Still
    <3>2. PICK b : b = c.probes /\ b = r.probes
      BY <1>4
    <3>3. r.visited = c.visited /\ r.site = c.site /\ r.opts = c.opts /\ r.pages = c.pages
      BY <1>4 DEF Still, SameSite
    <3> QED BY <2>1, <3>1, <3>2, <3>3 DEF Probing
  <2>4. InPhase(r) /\ r.phase \in Phases
    BY <1>4, <1>7, <2>1, <2>2, <2>3 DEF InPhase, Phases, Still, SameSite
  <2> QED BY <1>1, <1>5, <2>4 DEF Sound
<1> QED BY <1>2, <1>6, <1>7

(* The browser breaks.                                                     *)
LEMMA BreakSound ==
  ASSUME Sound(crawl), BrowserBreaks
  PROVE  Sound(crawl')
<1>1. PICK c, r : c = crawl /\ r = crawl'
  OBVIOUS
<1>2. Safe(c) /\ CrawlFits(c) /\ r = [c EXCEPT !.phase = "failed"]
  BY <1>1 DEF BrowserBreaks, Sound, Safe
<1>3. Still(c, r) /\ r.phase = "failed"
  BY <1>2 DEF CrawlFits, CrawlFields, Still, SameSite
<1>4. Safe(r)
  BY <1>2, <1>3, StillSafe
<1>5. InPhase(r) /\ r.phase \in Phases
  BY <1>3 DEF InPhase, Phases
<1> QED BY <1>1, <1>4, <1>5 DEF Sound

(* The probes are over.                                                    *)
LEMMA ProbesOverSound ==
  ASSUME Sound(crawl), ProbesOver
  PROVE  Sound(crawl')
<1>1. PICK c, r : c = crawl /\ r = crawl'
  OBVIOUS
<1>2. /\ Safe(c) /\ CrawlFits(c) /\ InPhase(c) /\ c.phase = "probe"
      /\ r = [c EXCEPT !.phase = "done"]
  BY <1>1 DEF ProbesOver, Sound, Safe
<1>3. Still(c, r) /\ r.phase = "done" /\ r.truncated = c.truncated
  BY <1>2 DEF CrawlFits, CrawlFields, Still, SameSite
<1>4. Safe(r)
  BY <1>2, <1>3, StillSafe
<1>5. c.inFlight = {} /\ Covered(c)
  BY <1>2 DEF InPhase
<1>6. Covered(r) /\ r.inFlight = {}
  BY <1>3, <1>5, StillCovered DEF Still
<1>7. InPhase(r) /\ r.phase \in Phases
  BY <1>3, <1>6 DEF InPhase, Phases
<1> QED BY <1>1, <1>4, <1>7 DEF Sound

(* The seeds are queued.                                                   *)
LEMMA SeedStep ==
  ASSUME Sound(crawl), Seed
  PROVE  Sound(crawl')
<1>1. Safe(crawl) /\ Unstarted(crawl)
  BY DEF Seed, Sound, InPhase
<1>2. crawl' = Fill(SeedAt(crawl))
  BY DEF Seed, SeedAt
<1> QED BY <1>1, <1>2, SeedSound

(* A fetch lands.                                                          *)
LEMMA LandStep ==
  ASSUME Sound(crawl), PageLands
  PROVE  Sound(crawl')
<1>1. PICK item, ok : item \in crawl.inFlight /\ Land(item, ok)
  BY DEF PageLands
<1>2. crawl.phase \in {"crawl", "drain"}
  BY DEF PageLands
<1>3. \/ crawl' = Resume(Expand(LandedAs(crawl, item, TRUE), item))
      \/ crawl' = Resume(LandedAs(crawl, item, FALSE))
  BY <1>1 DEF Land, LandedAs
<1> QED BY <1>1, <1>2, <1>3, LandSound

(* A fetch is skipped.                                                     *)
LEMMA SkipStep ==
  ASSUME Sound(crawl), PageSkipped
  PROVE  Sound(crawl')
<1>1. PICK item \in crawl.inFlight :
        crawl' = Resume([crawl EXCEPT !.inFlight = @ \ {item}, !.truncated = TRUE])
  BY DEF PageSkipped
<1>2. crawl.phase \in {"crawl", "drain"} /\ crawl.late
  BY DEF PageSkipped
<1> QED BY <1>1, <1>2, SkipSound

(* The static loop ends.                                                   *)
LEMMA EndStep ==
  ASSUME Sound(crawl), CrawlEnds
  PROVE  Sound(crawl')
<1>1. crawl.phase \in {"crawl", "drain"} /\ ~crawl.opts.js /\ crawl.inFlight = {}
  BY DEF CrawlEnds, LoopOver
<1>2. crawl' = [crawl EXCEPT !.truncated = Cut(crawl), !.phase = "probe", !.probes = Probes(crawl)]
  BY DEF CrawlEnds
<1> QED BY <1>1, <1>2, EndSound

(* A path is probed.                                                       *)
LEMMA ProbeStep ==
  ASSUME Sound(crawl), Probe
  PROVE  Sound(crawl')
<1>1. PICK c, r, u : c = crawl /\ r = crawl' /\ u = Head(crawl.probes)
  OBVIOUS
<1>2. CrawlFits(c) /\ c.phase = "probe" /\ c.probes # <<>>
  BY <1>1 DEF Probe, Sound, Safe
<1>3. PICK b : b = [c EXCEPT !.probes = Tail(@), !.tried = @ + 1, !.visited = @ \cup {u}]
  OBVIOUS
<1>4. \/ r = [b EXCEPT !.truncated = TRUE, !.probes = <<>>]
      \/ r = b
      \/ r = [b EXCEPT !.same = @ + 1]
      \/ r = Record(b, [url |-> u, depth |-> 1], TRUE)
  BY <1>1, <1>3 DEF Probe
<1>5. PICK x, y, z : x = Tail(c.probes) /\ y = c.tried + 1 /\ z = c.visited \cup {u}
  OBVIOUS
<1>6. b = [c EXCEPT !.probes = x, !.tried = y, !.visited = z]
  BY <1>3, <1>5
<1>7. /\ b = [f \in CrawlFields |-> b[f]] /\ SameSite(c, b) /\ b.phase = c.phase /\ b.late = c.late
      /\ b.truncated = c.truncated /\ c.truncated \in BOOLEAN
      /\ b.visited = z /\ b.queue = c.queue /\ b.inFlight = c.inFlight
      /\ b.probes = x /\ b.pages = c.pages
  BY <1>2, <1>6 DEF CrawlFits, CrawlFields, SameSite
<1>8. /\ r = [f \in CrawlFields |-> r[f]] /\ SameSite(b, r) /\ r.phase = b.phase /\ r.late = b.late
      /\ r.truncated \in BOOLEAN /\ (b.truncated => r.truncated)
      /\ r.visited = b.visited /\ r.queue = b.queue /\ r.inFlight = b.inFlight
      /\ r.probes = b.probes \/ r.probes = <<>>
      /\ r.pages = b.pages \/ r.pages = Append(b.pages, [url |-> u, depth |-> 1, ok |-> TRUE])
  <2>1. CASE r = [b EXCEPT !.truncated = TRUE, !.probes = <<>>]
    BY <1>7, <2>1 DEF CrawlFields, SameSite
  <2>2. CASE r = b
    BY <1>7, <2>2 DEF SameSite
  <2>3. CASE r = [b EXCEPT !.same = @ + 1]
    <3>1. PICK w : w = b.same + 1
      OBVIOUS
    <3>2. r = [b EXCEPT !.same = w]
      BY <2>3, <3>1
    <3> QED BY <1>7, <3>2 DEF CrawlFields, SameSite
  <2>4. CASE r = Record(b, [url |-> u, depth |-> 1], TRUE)
    <3>1. PICK w : w = Append(b.pages, [url |-> u, depth |-> 1, ok |-> TRUE])
      OBVIOUS
    <3>2. r = [b EXCEPT !.pages = w]
      BY <2>4, <3>1 DEF Record
    <3> QED BY <1>7, <3>1, <3>2 DEF CrawlFields, SameSite
  <2> QED BY <1>4, <2>1, <2>2, <2>3, <2>4
<1>9. Probed(c, r, Head(c.probes))
  <2>1. SameSite(c, r)
    BY <1>7, <1>8 DEF SameSite
  <2>2. u = Head(c.probes)
    BY <1>1
  <2> QED BY <1>5, <1>7, <1>8, <2>1, <2>2 DEF Probed
<1> QED BY <1>1, <1>2, <1>9, ProbeSound

(* The browser has been everywhere.                                        *)
LEMMA BrowseStep ==
  ASSUME Sound(crawl), BrowseEnds
  PROVE  Sound(crawl')
<1>1. PICK c, r, k : c = crawl /\ r = crawl' /\ k = Sifted(crawl.pages, {p \in ToSet(crawl.pages) : ~Twin(crawl, p)})
  OBVIOUS
<1>2. Safe(c) /\ CrawlFits(c) /\ c.phase \in {"crawl", "drain"} /\ c.opts.js /\ c.inFlight = {}
  BY <1>1 DEF BrowseEnds, LoopOver, Sound, Safe
<1>3. PICK t, p, n, e : /\ t = Cut(c) /\ p \in {k, c.pages}
                        /\ r = [c EXCEPT !.phase = "done", !.truncated = t, !.pages = p, !.same = n, !.endpoints = e]
  <2>1. PICK root : root = (\E i \in DOMAIN c.pages : c.pages[i].url = c.site.root /\ c.pages[i].ok)
    OBVIOUS
  <2>2. r = [c EXCEPT !.phase = "done", !.truncated = Cut(c),
                      !.pages = IF root THEN k ELSE @,
                      !.same = IF root THEN Len(c.pages) - Len(k) ELSE 0,
                      !.endpoints = Endpoints(c.site)]
    BY <1>1, <2>1 DEF BrowseEnds
  <2> QED BY <2>2
<1>4. /\ r = [f \in CrawlFields |-> r[f]] /\ SameSite(c, r) /\ r.phase = "done" /\ r.late = c.late
      /\ r.truncated = Cut(c) /\ r.visited = c.visited /\ r.queue = c.queue /\ r.inFlight = c.inFlight
      /\ r.pages = p
  BY <1>2, <1>3 DEF CrawlFits, CrawlFields, SameSite
<1>5. \E f : Trimmed(c, k, f)
  BY <1>1, <1>2, TrimmedIs
<1>6. Browsed(c, r)
  <2>1. r.pages = c.pages \/ \E f : Trimmed(c, r.pages, f)
    BY <1>3, <1>4, <1>5
  <2> QED BY <1>4, <2>1 DEF Browsed
<1> QED BY <1>1, <1>2, <1>6, BrowseSound

-----------------------------------------------------------------------------
(* No step of a crawl breaks the invariant.                                *)
LEMMA CrawlNextSound ==
  ASSUME CrawlInv, [CrawlNext]_crawl
  PROVE  CrawlInv'
<1>1. crawl.phase # "idle" => Sound(crawl)
  BY CrawlInvSays
<1>2. SUFFICES ASSUME CrawlNext PROVE Sound(crawl')
  BY DEF CrawlInv, Sound, Safe
<1>3. CASE StartCrawl
  BY <1>3, CrawlStarts
<1>4. ASSUME crawl.phase # "idle" PROVE Sound(crawl')
  <2>1. Sound(crawl)
    BY <1>1, <1>4
  <2> QED BY <1>2, <1>3, <2>1, MapRead, SeedStep, LandStep, LateSound, SkipStep, BreakSound,
             EndStep, ProbeStep, ProbesOverSound, BrowseStep DEF CrawlNext
<1>5. CASE crawl.phase = "idle"
  BY <1>2, <1>3, <1>5 DEF CrawlNext, ReadMap, Seed, PageLands, TimeIsUp, PageSkipped, BrowserBreaks,
                          CrawlEnds, Probe, ProbesOver, BrowseEnds, LoopOver
<1> QED BY <1>4, <1>5

(* The invariant says that the crawl is sound.                             *)
LEMMA CrawlInvSound ==
  ASSUME CrawlInv
  PROVE  CrawlIsSound
<1> SUFFICES ASSUME Started(crawl)
             PROVE  /\ CapRespected(crawl) /\ NoPageTwice(crawl)
                    /\ StaysPolite(crawl) /\ CompleteUnlessSaid(crawl)
  BY DEF CrawlIsSound
<1>1. PICK c : c = crawl
  OBVIOUS
<1>2. CrawlFits(c) /\ Once(c) /\ Politely(c) /\ Windowed(c) /\ InPhase(c)
  BY <1>1, CrawlInvSays DEF Sound, Safe, Started
<1>3. CapRespected(c)
  BY <1>2 DEF Windowed, CapRespected
<1>4. NoPageTwice(c)
  BY <1>2 DEF Once, NoPageTwice, Landed
<1>5. StaysPolite(c)
  <2>1. c.visited \subseteq Urls(c) \ c.site.offsite
    BY <1>2 DEF CrawlFits
  <2>2. \A i \in DOMAIN c.pages : c.pages[i].url \in c.visited /\ Allowed(c, c.pages[i].url)
    BY <1>2 DEF Once, Politely
  <2>3. \A f \in c.inFlight : f.url \in c.visited /\ Allowed(c, f.url)
    BY <1>2 DEF Once, Politely
  <2> QED BY <2>1, <2>2, <2>3 DEF StaysPolite, Landed
<1>6. CompleteUnlessSaid(c)
  BY <1>2 DEF InPhase, Covered, CompleteUnlessSaid
<1> QED BY <1>1, <1>3, <1>4, <1>5, <1>6

(* Cap, width and robots.txt are kept, nothing is asked for twice, and the *)
(* loop knows of every link it met, in every phase of a crawl of any site  *)
(* under any limits.                                                       *)
THEOREM CrawlInvariant == CrawlSpec => []CrawlInv
<1>1. CrawlInit => CrawlInv
  BY DEF CrawlInit, CrawlIdle, CrawlInv
<1>2. CrawlInv /\ [CrawlNext]_crawl => CrawlInv'
  BY CrawlNextSound
<1> QED BY <1>1, <1>2, PTL DEF CrawlSpec

(* A crawl of any site, under any limits, takes no more pages than its     *)
(* cap, fetches no URL twice, keeps to the host and to robots.txt, and     *)
(* says so when it leaves out a page that can be reached (crawl,           *)
(* fetchAndExpand).                                                        *)
THEOREM CrawlCorrect == CrawlSpec => []CrawlIsSound
<1>1. CrawlInv => CrawlIsSound
  BY CrawlInvSound
<1> QED BY <1>1, CrawlInvariant, PTL

-----------------------------------------------------------------------------
(* Which member of a set the sums take first.                              *)
Foremost(T) == CHOOSE x \in T : TRUE

(* A sum over a finite set, taken apart member by member.                  *)
SumsUp(g, w, S) ==
  /\ g[{}] = 0
  /\ \A T \in SUBSET S : /\ g[T] \in Int
                         /\ T # {} => g[T] = w[Foremost(T)] + g[T \ {Foremost(T)}]

(* What holds of no member and of any members with those that follow the   *)
(* foremost holds of all.                                                  *)
LEMMA ByForemost ==
  ASSUME NEW S, IsFiniteSet(S), NEW P, {} \in P,
         \A T \in SUBSET S : T # {} /\ T \ {Foremost(T)} \in P => T \in P
  PROVE  SUBSET S \subseteq P
<1>1. PICK N : N = {n \in Nat : \A T \in SUBSET S : Cardinality(T) <= n => T \in P}
  OBVIOUS
<1>2. \A T \in SUBSET S : IsFiniteSet(T) /\ Cardinality(T) \in Nat
  BY FS_Subset, FS_CardinalityType
<1>3. 0 \in N
  <2>1. ASSUME NEW T \in SUBSET S, Cardinality(T) <= 0 PROVE T \in P
    <3>1. T = {}
      BY <1>2, <2>1, FS_EmptySet
    <3> QED BY <3>1
  <2>2. \A T \in SUBSET S : Cardinality(T) <= 0 => T \in P
    BY <2>1
  <2> QED BY <1>1, <2>2
<1>4. ASSUME NEW n \in Nat, n \in N PROVE n + 1 \in N
  <2>1. ASSUME NEW T \in SUBSET S, Cardinality(T) <= n + 1 PROVE T \in P
    <3>1. CASE T = {}
      BY <3>1
    <3>2. CASE T # {}
      <4>1. Foremost(T) \in T
        BY <3>2 DEF Foremost
      <4>2. Cardinality(T \ {Foremost(T)}) = Cardinality(T) - 1
        BY <1>2, <4>1, FS_RemoveElement
      <4>3. Cardinality(T \ {Foremost(T)}) <= n
        BY <1>2, <2>1, <4>2
      <4>4. T \ {Foremost(T)} \in P
        BY <1>1, <1>4, <4>3
      <4> QED BY <3>2, <4>4
    <3> QED BY <3>1, <3>2
  <2> QED BY <1>1, <2>1
<1>5. \A n \in Nat : n \in N
  BY <1>3, <1>4, AllNaturals
<1>6. ASSUME NEW T \in SUBSET S PROVE T \in P
  BY <1>1, <1>2, <1>5
<1> QED BY <1>6

(* The sum over a set is the one the steps from its foremost members make. *)
LEMMA SumOver ==
  ASSUME NEW S, IsFiniteSet(S), NEW w, \A x \in S : w[x] \in Int
  PROVE  \E g : SumsUp(g, w, S) /\ SumFunctionOnSet(w, S) = g[S]
<1> DEFINE Step(g, T) == IF T = {} THEN 0 ELSE w[Foremost(T)] + g[T \ {Foremost(T)}]
           Begun(n) == \E g \in [SUBSET S -> Int] :
                         \A T \in SUBSET S : Cardinality(T) <= n => g[T] = Step(g, T)
<1>0. \A T \in SUBSET S : IsFiniteSet(T) /\ Cardinality(T) \in Nat
  BY FS_Subset, FS_CardinalityType
<1>1. \A T \in SUBSET S : T # {} => /\ Foremost(T) \in T /\ T \ {Foremost(T)} \in SUBSET S
                                    /\ w[Foremost(T)] \in Int
                                    /\ Cardinality(T \ {Foremost(T)}) = Cardinality(T) - 1
  <2> SUFFICES ASSUME NEW T \in SUBSET S, T # {}
               PROVE  /\ Foremost(T) \in T /\ T \ {Foremost(T)} \in SUBSET S
                      /\ w[Foremost(T)] \in Int
                      /\ Cardinality(T \ {Foremost(T)}) = Cardinality(T) - 1
    OBVIOUS
  <2>1. Foremost(T) \in T
    BY DEF Foremost
  <2>2. Cardinality(T \ {Foremost(T)}) = Cardinality(T) - 1
    BY <1>0, <2>1, FS_RemoveElement
  <2> QED BY <2>1, <2>2
<1>2. PICK N : N = {n \in Nat : Begun(n)}
  OBVIOUS
<1>3. 0 \in N
  <2>1. PICK g : g = [T \in SUBSET S |-> 0]
    OBVIOUS
  <2>2. ASSUME NEW T \in SUBSET S, Cardinality(T) <= 0 PROVE g[T] = Step(g, T)
    <3>1. T = {}
      BY <1>0, <2>2, FS_EmptySet
    <3> QED BY <2>1, <3>1
  <2>3. g \in [SUBSET S -> Int]
    BY <2>1
  <2>4. Begun(0)
    BY <2>2, <2>3
  <2> QED BY <1>2, <2>4
<1>4. ASSUME NEW n \in Nat, n \in N PROVE n + 1 \in N
  <2>1. PICK g \in [SUBSET S -> Int] : \A T \in SUBSET S : Cardinality(T) <= n => g[T] = Step(g, T)
    BY <1>2, <1>4
  <2>2. PICK h : h = [T \in SUBSET S |-> IF Cardinality(T) <= n THEN g[T] ELSE Step(g, T)]
    OBVIOUS
  <2>3. \A T \in SUBSET S : Step(g, T) \in Int
    <3> SUFFICES ASSUME NEW T \in SUBSET S PROVE Step(g, T) \in Int
      OBVIOUS
    <3>1. CASE T = {}
      BY <3>1
    <3>2. CASE T # {}
      <4>1. w[Foremost(T)] \in Int /\ g[T \ {Foremost(T)}] \in Int
        BY <1>1, <3>2
      <4> QED BY <3>2, <4>1
    <3> QED BY <3>1, <3>2
  <2>4. h \in [SUBSET S -> Int]
    BY <2>2, <2>3
  <2>5. ASSUME NEW T \in SUBSET S, Cardinality(T) <= n + 1 PROVE h[T] = Step(h, T)
    <3>1. h[T] = Step(g, T)
      BY <2>1, <2>2
    <3>2. CASE T = {}
      BY <3>1, <3>2
    <3>3. CASE T # {}
      <4>1. /\ T \ {Foremost(T)} \in SUBSET S /\ Cardinality(T \ {Foremost(T)}) = Cardinality(T) - 1
            /\ Cardinality(T) \in Nat
        BY <1>0, <1>1, <3>3
      <4>2. Cardinality(T \ {Foremost(T)}) <= n
        BY <2>5, <4>1
      <4>3. h[T \ {Foremost(T)}] = g[T \ {Foremost(T)}]
        BY <2>2, <4>1, <4>2
      <4> QED BY <3>1, <3>3, <4>3
    <3> QED BY <3>2, <3>3
  <2>6. Begun(n + 1)
    BY <2>4, <2>5
  <2>7. n + 1 \in Nat
    OBVIOUS
  <2> HIDE DEF Begun
  <2> QED BY <1>2, <2>6, <2>7
<1>5. \A n \in Nat : n \in N
  <2> HIDE DEF Begun
  <2> QED BY <1>3, <1>4, AllNaturals
<1>6. Begun(Cardinality(S))
  BY <1>0, <1>2, <1>5
<1>7. PICK g \in [SUBSET S -> Int] : \A T \in SUBSET S : g[T] = Step(g, T)
  <2>1. \A T \in SUBSET S : Cardinality(T) <= Cardinality(S)
    BY FS_Subset
  <2> QED BY <1>6, <2>1
<1>8. g = [T \in SUBSET S |-> Step(g, T)]
  BY <1>7
<1>9. PICK c : c = CHOOSE f : f = [T \in SUBSET S |-> Step(f, T)]
  OBVIOUS
<1>10. c = [T \in SUBSET S |-> Step(c, T)]
  BY <1>8, <1>9
<1>11. SumFunctionOnSet(w, S) = c[S]
  BY <1>9 DEF SumFunctionOnSet, FoldFunctionOnSet, MapThenFoldSet, Foremost
<1>12. \A T \in SUBSET S : c[T] = Step(c, T)
  BY <1>10
<1>13. PICK P : P = {T \in SUBSET S : c[T] = g[T]}
  OBVIOUS
<1>14. {} \in P
  BY <1>7, <1>12, <1>13
<1>15. ASSUME NEW T \in SUBSET S, T # {}, T \ {Foremost(T)} \in P PROVE T \in P
  BY <1>7, <1>12, <1>13, <1>15
<1>16. c[S] = g[S]
  <2>1. SUBSET S \subseteq P
    BY <1>14, <1>15, ByForemost
  <2> QED BY <1>13, <2>1
<1>17. SumsUp(g, w, S)
  <2>1. g[{}] = 0
    BY <1>7
  <2> QED BY <1>7, <2>1 DEF SumsUp
<1> QED BY <1>11, <1>16, <1>17

(* A common factor leaves the sum.                                         *)
LEMMA SumScaled ==
  ASSUME NEW S, IsFiniteSet(S), NEW v, \A x \in S : v[x] \in Int, NEW p \in Int,
         NEW w, \A x \in S : w[x] = p * v[x]
  PROVE  SumFunctionOnSet(v, S) \in Int /\ SumFunctionOnSet(w, S) = p * SumFunctionOnSet(v, S)
<1>1. \A x \in S : w[x] \in Int
  OBVIOUS
<1>2. PICK g : SumsUp(g, v, S) /\ SumFunctionOnSet(v, S) = g[S]
  BY SumOver
<1>3. PICK h : SumsUp(h, w, S) /\ SumFunctionOnSet(w, S) = h[S]
  BY <1>1, SumOver
<1>4. PICK P : P = {T \in SUBSET S : h[T] = p * g[T]}
  OBVIOUS
<1>5. {} \in P
  BY <1>2, <1>3, <1>4 DEF SumsUp
<1>6. ASSUME NEW T \in SUBSET S, T # {}, T \ {Foremost(T)} \in P PROVE T \in P
  <2>1. PICK x, R : x = Foremost(T) /\ R = T \ {Foremost(T)}
    OBVIOUS
  <2>2. x \in S /\ R \in SUBSET S
    BY <1>6, <2>1 DEF Foremost
  <2>3. g[T] = v[x] + g[R] /\ h[T] = w[x] + h[R] /\ g[R] \in Int
    BY <1>2, <1>3, <1>6, <2>1, <2>2 DEF SumsUp
  <2>4. h[R] = p * g[R] /\ w[x] = p * v[x] /\ v[x] \in Int
    BY <1>4, <1>6, <2>1, <2>2
  <2>5. \A a, b \in Int : p * (a + b) = p * a + p * b
    OBVIOUS
  <2> QED BY <1>4, <2>3, <2>4, <2>5
<1>7. S \in P
  BY <1>5, <1>6, ByForemost
<1> QED BY <1>2, <1>3, <1>4, <1>7 DEF SumsUp

(* The sum over one member is what it is.                                  *)
LEMMA SumOfOne ==
  ASSUME NEW x, NEW w, w[x] \in Int
  PROVE  SumFunctionOnSet(w, {x}) = w[x]
<1>1. IsFiniteSet({x})
  BY FS_Singleton
<1>2. PICK g : SumsUp(g, w, {x}) /\ SumFunctionOnSet(w, {x}) = g[{x}]
  BY <1>1, SumOver
<1>3. Foremost({x}) = x /\ {x} \ {x} = {}
  BY DEF Foremost
<1> QED BY <1>2, <1>3 DEF SumsUp

(* The tier that is picked is one of the card's, or none.                  *)
LEMMA TierPicked ==
  ASSUME NEW tiers, DOMAIN tiers \subseteq Nat, NEW n, NEW method, NEW who
  PROVE  \/ PickTier(tiers, n, method, who) = NoTier
         \/ \E i \in DOMAIN tiers : PickTier(tiers, n, method, who) = tiers[i]
<1>1. PICK hits : hits = {i \in DOMAIN tiers : Fits(tiers[i], n, method, who)}
  OBVIOUS
<1>2. PickTier(tiers, n, method, who) = IF hits = {} THEN NoTier ELSE tiers[Min(hits)]
  BY <1>1 DEF PickTier
<1>3. hits # {} => Min(hits) \in hits
  BY <1>1, LeastOf DEF Min
<1> QED BY <1>1, <1>2, <1>3

-----------------------------------------------------------------------------
(* What is pooled costs what its scope costs together.                     *)
LEMMA PoolingHolds == CaseFits => PoolingIgnoresSplit
<1> SUFFICES ASSUME CaseFits PROVE PoolingIgnoresSplit
  OBVIOUS
<1>1. PICK ents : ents = WithIds(case.one)
  OBVIOUS
<1>2. PICK one : one = [ents[1] EXCEPT !.n = PooledScope(ents, DOMAIN ents)]
  OBVIOUS
<1>3. SUFFICES ASSUME case.kind = "entities", ents # <<>>, Alike(ents), Pools(CaseCard, ents[1]),
                      PickTier(CaseCard.lines[one.slug].tiers, one.n, one.method, one.who) # NoTier
               PROVE  BasePrice(CaseCard, ents).total = BasePrice(CaseCard, <<one>>).total
  BY <1>1, <1>2 DEF PoolingIgnoresSplit
<1>4. case.one \in Seq(SomeEntities)
  BY <1>3 DEF CaseFits
<1>5. PICK n : n = Len(case.one)
  OBVIOUS
<1>6. n \in Nat /\ DOMAIN case.one = 1 .. n /\ DOMAIN ents = 1 .. n
  BY <1>1, <1>4, <1>5 DEF WithIds
<1>7. \A i \in 1 .. n :
         /\ ents[i] = [id |-> i, slug |-> ents[i].slug, n |-> ents[i].n, method |-> ents[i].method,
                       who |-> ents[i].who]
         /\ ents[i].n \in Int /\ ents[i].id = i
  <2> SUFFICES ASSUME NEW i \in 1 .. n
               PROVE  /\ ents[i] = [id |-> i, slug |-> ents[i].slug, n |-> ents[i].n,
                                    method |-> ents[i].method, who |-> ents[i].who]
                      /\ ents[i].n \in Int /\ ents[i].id = i
    OBVIOUS
  <2>1. PICK e : e = case.one[i]
    OBVIOUS
  <2>2. e \in SomeEntities
    BY <1>4, <1>6, <2>1
  <2>3. /\ e = [id |-> e.id, slug |-> e.slug, n |-> e.n, method |-> e.method, who |-> e.who]
        /\ e.n \in Int
    BY <2>2, CaseAssumption
  <2>4. ents[i] = [e EXCEPT !.id = i]
    BY <1>1, <1>6, <2>1 DEF WithIds
  <2> QED BY <2>3, <2>4
<1>8. 1 <= n /\ 1 \in 1 .. n
  <2>1. n # 0
    BY <1>1, <1>3, <1>4, <1>5 DEF WithIds
  <2> QED BY <1>6, <2>1
<1>9. PICK s, m, q, p : s = ents[1].slug /\ m = ents[1].method /\ q = ents[1].who
                        /\ p = PooledScope(ents, DOMAIN ents)
  OBVIOUS
<1>10. \A i \in 1 .. n : ents[i].slug = s /\ ents[i].method = m /\ ents[i].who = q
  BY <1>3, <1>6, <1>8, <1>9 DEF Alike
<1>11. one = [id |-> 1, slug |-> s, n |-> p, method |-> m, who |-> q]
  <2>1. PICK e : e = ents[1]
    OBVIOUS
  <2>2. e = [id |-> 1, slug |-> s, n |-> e.n, method |-> m, who |-> q]
    BY <1>7, <1>8, <1>9, <2>1
  <2>3. one = [e EXCEPT !.n = p]
    BY <1>2, <1>9, <2>1
  <2> QED BY <2>2, <2>3
<1>12. \A i \in 1 .. n : Pools(CaseCard, ents[i]) /\ PoolOf(CaseCard, ents, i) = 1 .. n
  <2>1. \A i \in 1 .. n : Pools(CaseCard, ents[i])
    BY <1>3, <1>8, <1>9, <1>10 DEF Pools
  <2> QED BY <1>6, <1>10, <2>1 DEF PoolOf
<1>13. PICK t : t = PickTier(CaseCard.lines[s].tiers, p, m, q)
  OBVIOUS
<1>14. t # NoTier /\ s \in Slugs(CaseCard) /\ CaseCard.lines[s].model = "per_unit"
  BY <1>3, <1>8, <1>9, <1>11, <1>13 DEF Pools
<1>15. t.price \in Int
  <2>1. DOMAIN CaseCard.lines[s].tiers \subseteq Nat
    BY <1>14, CaseAssumption
  <2>2. \E i \in DOMAIN CaseCard.lines[s].tiers : t = CaseCard.lines[s].tiers[i]
    BY <1>13, <1>14, <2>1, TierPicked
  <2> QED BY <1>14, <2>2, CaseAssumption
<1>16. PICK v : v = [j \in DOMAIN ents |-> ents[j].n]
  OBVIOUS
<1>17. p = SumFunctionOnSet(v, 1 .. n) /\ (\A j \in 1 .. n : v[j] \in Int) /\ IsFiniteSet(1 .. n)
  <2>1. p = SumFunctionOnSet(v, 1 .. n)
    BY <1>6, <1>9, <1>16 DEF PooledScope
  <2>2. \A j \in 1 .. n : v[j] \in Int
    BY <1>6, <1>7, <1>16
  <2>3. IsFiniteSet(1 .. n)
    BY <1>6, FS_Interval
  <2> QED BY <2>1, <2>2, <2>3
<1>18. \A i \in 1 .. n : TierOf(CaseCard, ents, i) = t
  <2> SUFFICES ASSUME NEW i \in 1 .. n PROVE TierOf(CaseCard, ents, i) = t
    OBVIOUS
  <2>1. PICK byId : byId = {j \in DOMAIN ents : /\ ents[j].id = ents[i].id
                                                /\ PooledTier(CaseCard, ents, j) # NoTier}
    OBVIOUS
  <2>2. byId = {j \in {i} : PooledTier(CaseCard, ents, j) # NoTier}
    BY <1>6, <1>7, <2>1
  <2>3. Cardinality(1 .. n) = n
    BY <1>6, FS_Interval
  <2>4. CASE n < 2
    <3>1. n = 1 /\ i = 1
      BY <1>6, <1>8, <2>4
    <3>2. byId = {}
      BY <1>12, <2>2, <2>3, <2>4 DEF PooledTier
    <3>3. p = ents[1].n
      <4>1. 1 .. 1 = {1}
        OBVIOUS
      <4>2. p = v[1]
        BY <1>17, <3>1, <4>1, SumOfOne
      <4> QED BY <1>6, <1>8, <1>16, <4>2
    <3> QED BY <1>9, <1>10, <1>13, <2>1, <3>1, <3>2, <3>3 DEF TierOf
  <2>5. CASE ~(n < 2)
    <3>1. PooledTier(CaseCard, ents, i) = t
      BY <1>6, <1>9, <1>10, <1>12, <1>13, <2>3, <2>5 DEF PooledTier
    <3>2. byId = {i}
      BY <1>14, <2>2, <3>1
    <3>3. PICK last : last = CHOOSE j \in byId : \A k \in byId :
                         Min(PoolOf(CaseCard, ents, k)) <= Min(PoolOf(CaseCard, ents, j))
      OBVIOUS
    <3>4. Min(1 .. n) \in Nat
      <4>1. 1 .. n \subseteq Nat /\ 1 .. n # {}
        BY <1>6, <1>8
      <4>2. \E x \in 1 .. n : \A y \in 1 .. n : x <= y
        BY <4>1, LeastOf
      <4>3. Min(1 .. n) \in 1 .. n
        BY <4>2 DEF Min
      <4> QED BY <4>1, <4>3
    <3>5. last = i
      BY <1>12, <3>2, <3>3, <3>4
    <3>6. TierOf(CaseCard, ents, i) = PooledTier(CaseCard, ents, last)
      BY <2>1, <3>2, <3>3 DEF TierOf
    <3> QED BY <3>1, <3>5, <3>6
  <2> QED BY <2>4, <2>5
<1>19. PICK f : f = IF s \in CaseCard.open THEN 0 ELSE t.price
  OBVIOUS
<1>20. f \in Int
  BY <1>15, <1>19
<1>21. \A i \in 1 .. n : PriceLine(CaseCard, ents, i).cents = f * ents[i].n
  <2> SUFFICES ASSUME NEW i \in 1 .. n PROVE PriceLine(CaseCard, ents, i).cents = f * ents[i].n
    OBVIOUS
  <2>1. ents[i].slug = s /\ TierOf(CaseCard, ents, i) = t /\ ents[i].n \in Int
    BY <1>7, <1>10, <1>18
  <2>2. CASE s \in CaseCard.open
    <3>1. PriceLine(CaseCard, ents, i).cents = 0
      BY <2>1, <2>2 DEF PriceLine
    <3> QED BY <1>19, <2>1, <2>2, <3>1
  <2>3. CASE s \notin CaseCard.open
    <3>1. PriceLine(CaseCard, ents, i).cents = t.price * ents[i].n
      BY <1>14, <2>1, <2>3 DEF PriceLine
    <3> QED BY <1>19, <2>3, <3>1
  <2> QED BY <2>2, <2>3
<1>22. BasePrice(CaseCard, ents).total = f * p
  <2>1. PICK w : w = [i \in DOMAIN ents |-> PriceLine(CaseCard, ents, i).cents]
    OBVIOUS
  <2>2. \A i \in 1 .. n : w[i] = f * v[i]
    BY <1>6, <1>16, <1>21, <2>1
  <2>3. SumFunctionOnSet(w, 1 .. n) = f * p
    BY <1>17, <1>20, <2>2, SumScaled
  <2> QED BY <1>6, <2>1, <2>3 DEF BasePrice
<1>23. p \in Int
  <2>1. PICK g : SumsUp(g, v, 1 .. n) /\ SumFunctionOnSet(v, 1 .. n) = g[1 .. n]
    BY <1>17, SumOver
  <2> QED BY <1>17, <2>1 DEF SumsUp
<1>24. TierOf(CaseCard, <<one>>, 1) = t
  <2>1. DOMAIN <<one>> = {1} /\ <<one>>[1] = one
    OBVIOUS
  <2>2. PoolOf(CaseCard, <<one>>, 1) \subseteq {1}
    BY <2>1 DEF PoolOf
  <2>3. Cardinality(PoolOf(CaseCard, <<one>>, 1)) < 2
    <3>1. IsFiniteSet({1}) /\ Cardinality({1}) = 1
      BY FS_Singleton
    <3>2. Cardinality(PoolOf(CaseCard, <<one>>, 1)) \in Nat /\ Cardinality(PoolOf(CaseCard, <<one>>, 1)) <= 1
      BY <2>2, <3>1, FS_Subset, FS_CardinalityType
    <3> QED BY <3>2
  <2>4. PooledTier(CaseCard, <<one>>, 1) = NoTier
    BY <2>3 DEF PooledTier
  <2>5. {j \in DOMAIN <<one>> : /\ <<one>>[j].id = <<one>>[1].id
                                /\ PooledTier(CaseCard, <<one>>, j) # NoTier} = {}
    BY <2>1, <2>4
  <2> QED BY <1>11, <1>13, <2>1, <2>5 DEF TierOf
<1>25. PriceLine(CaseCard, <<one>>, 1).cents = f * p
  <2>1. <<one>>[1] = one
    OBVIOUS
  <2> QED BY <1>11, <1>14, <1>15, <1>19, <1>23, <1>24, <2>1 DEF PriceLine
<1>26. BasePrice(CaseCard, <<one>>).total = f * p
  <2>1. PICK w : w = [i \in DOMAIN <<one>> |-> PriceLine(CaseCard, <<one>>, i).cents]
    OBVIOUS
  <2>2. DOMAIN <<one>> = {1}
    OBVIOUS
  <2>3. w[1] = f * p /\ w[1] \in Int
    BY <1>20, <1>23, <1>25, <2>1, <2>2
  <2>4. SumFunctionOnSet(w, {1}) = w[1]
    BY <2>3, SumOfOne
  <2> QED BY <2>1, <2>2, <2>3, <2>4 DEF BasePrice
<1> QED BY <1>22, <1>26

-----------------------------------------------------------------------------
(* At most one tier of such a card fits, wherever it stands.               *)
LEMMA TierOrderHolds == CaseFits => TierOrderIsFree
<1> SUFFICES ASSUME CaseFits PROVE TierOrderIsFree
  OBVIOUS
<1>1. PICK ts : ts = case.one
  OBVIOUS
<1>2. SUFFICES ASSUME case.kind = "tiers", OverlappingTiers(ts) = {},
                      \/ \A i \in DOMAIN ts : ts[i].method # WildMethod
                      \/ \A i \in DOMAIN ts : ts[i].method = WildMethod,
                      NEW e \in SomeEntities, e.method # WildMethod
               PROVE  PickTier(ts, e.n, e.method, e.who) = PickTier(Reverse(ts), e.n, e.method, e.who)
  BY <1>1 DEF TierOrderIsFree
<1>3. ts \in Seq(SomeTiers) /\ e.n \in Int
  BY <1>1, <1>2, CaseAssumption DEF CaseFits
<1>4. PICK n, rs : n = Len(ts) /\ rs = Reverse(ts)
  OBVIOUS
<1>5. /\ n \in Nat /\ DOMAIN ts = 1 .. n /\ DOMAIN rs = 1 .. n
      /\ \A i \in 1 .. n : rs[i] = ts[(n - i) + 1] /\ (n - i) + 1 \in 1 .. n
  <2>1. n \in Nat /\ DOMAIN ts = 1 .. n
    BY <1>3, <1>4
  <2>2. rs = [i \in 1 .. n |-> ts[(n - i) + 1]]
    BY <1>4 DEF Reverse
  <2> QED BY <2>1, <2>2
<1>6. PICK hits, mirrored : /\ hits = {i \in DOMAIN ts : Fits(ts[i], e.n, e.method, e.who)}
                            /\ mirrored = {i \in DOMAIN rs : Fits(rs[i], e.n, e.method, e.who)}
  OBVIOUS
<1>7. \A i \in 1 .. n : ts[i].lo \in Int /\ ts[i].hi \in Int
  BY <1>3, <1>5, CaseAssumption
<1>8. ASSUME NEW i \in hits, NEW j \in hits PROVE ~(i < j)
  <2>1. /\ i \in 1 .. n /\ j \in 1 .. n
        /\ Fits(ts[i], e.n, e.method, e.who) /\ Fits(ts[j], e.n, e.method, e.who)
    BY <1>5, <1>6
  <2>2. ts[i].method = ts[j].method /\ ts[i].who = ts[j].who
    BY <1>2, <1>5, <2>1 DEF Fits
  <2>3. RangesOverlap(ts[i], ts[j])
    <3>1. ts[i].lo <= e.n /\ e.n <= ts[i].hi /\ ts[j].lo <= e.n /\ e.n <= ts[j].hi
      BY <2>1 DEF Fits
    <3> QED BY <1>3, <1>7, <2>1, <3>1 DEF RangesOverlap
  <2>4. SUFFICES ASSUME i < j PROVE FALSE
    OBVIOUS
  <2>5. <<i, j>> \in OverlappingTiers(ts)
    BY <1>5, <2>1, <2>2, <2>3, <2>4 DEF OverlappingTiers, SameBucket
  <2> QED BY <1>2, <2>5
<1>9. \A i \in hits : hits = {i}
  <2>1. hits \subseteq 1 .. n
    BY <1>5, <1>6
  <2>2. ASSUME NEW i \in hits, NEW j \in hits PROVE i = j
    <3>1. i \in Int /\ j \in Int
      BY <1>5, <2>1
    <3> QED BY <1>8, <3>1
  <2> QED BY <2>2
<1>10. \A i \in 1 .. n : i \in mirrored <=> (n - i) + 1 \in hits
  BY <1>5, <1>6
<1>11. \A i \in 1 .. n : i = (n - ((n - i) + 1)) + 1
  BY <1>5
<1>12. CASE hits = {}
  <2>1. mirrored = {}
    BY <1>5, <1>6, <1>10, <1>12
  <2> QED BY <1>4, <1>6, <1>12, <2>1 DEF PickTier
<1>13. CASE hits # {}
  <2>1. PICK i : i \in hits /\ hits = {i}
    BY <1>9, <1>13
  <2>2. i \in 1 .. n
    BY <1>5, <1>6, <2>1
  <2>3. PICK k : k = (n - i) + 1
    OBVIOUS
  <2>4. k \in 1 .. n /\ (n - k) + 1 = i
    BY <1>5, <2>2, <2>3
  <2>5. mirrored = {k}
    <3>1. k \in mirrored
      BY <1>10, <2>1, <2>4
    <3>2. ASSUME NEW l \in mirrored PROVE l = k
      <4>1. l \in 1 .. n /\ (n - l) + 1 = i
        BY <1>5, <1>6, <1>10, <2>1
      <4> QED BY <1>5, <2>3, <4>1
    <3> QED BY <3>1, <3>2
  <2>6. Min({i}) = i /\ Min({k}) = k
    BY <1>5, <2>2, <2>4 DEF Min
  <2>7. PickTier(ts, e.n, e.method, e.who) = ts[i]
    BY <1>6, <2>1, <2>6 DEF PickTier
  <2>8. PickTier(rs, e.n, e.method, e.who) = rs[k]
    BY <1>6, <2>5, <2>6 DEF PickTier
  <2> QED BY <1>4, <1>5, <2>4, <2>7, <2>8
<1> QED BY <1>12, <1>13

-----------------------------------------------------------------------------
(* How many of a slug there are among the first of a sequence.             *)
Among(ents, k, s) == Cardinality({i \in 1 .. k : ents[i].slug = s})

(* There are none among none.                                              *)
LEMMA AmongNone ==
  ASSUME NEW ents, NEW s
  PROVE  Among(ents, 0, s) = 0
<1>1. {i \in 1 .. 0 : ents[i].slug = s} = {}
  OBVIOUS
<1> QED BY <1>1, FS_EmptySet DEF Among

(* How many there are is a natural number.                                 *)
LEMMA AmongNat ==
  ASSUME NEW ents, NEW k \in Nat, NEW s
  PROVE  Among(ents, k, s) \in Nat
<1>1. PICK A : A = {i \in 1 .. k : ents[i].slug = s}
  OBVIOUS
<1>2. A \subseteq 1 .. k /\ IsFiniteSet(1 .. k)
  BY <1>1, FS_Interval
<1> QED BY <1>1, <1>2, FS_Subset, FS_CardinalityType DEF Among

(* One more of a sequence counts for its own slug alone.                   *)
LEMMA AmongNext ==
  ASSUME NEW ents, NEW k \in Nat, NEW s, NEW l, l = k + 1
  PROVE  Among(ents, l, s) = IF ents[l].slug = s THEN Among(ents, k, s) + 1 ELSE Among(ents, k, s)
<1>1. PICK A, B : A = {i \in 1 .. k : ents[i].slug = s} /\ B = {i \in 1 .. l : ents[i].slug = s}
  OBVIOUS
<1>2. IsFiniteSet(A)
  <2>1. A \subseteq 1 .. k /\ IsFiniteSet(1 .. k)
    BY <1>1, FS_Interval
  <2> QED BY <2>1, FS_Subset
<1>3. l \notin A
  BY <1>1
<1>4. B = IF ents[l].slug = s THEN A \cup {l} ELSE A
  <2>1. 1 .. l = (1 .. k) \cup {l}
    OBVIOUS
  <2> QED BY <1>1, <2>1
<1>5. Cardinality(A \cup {l}) = Cardinality(A) + 1
  BY <1>2, <1>3, FS_AddElement
<1> QED BY <1>1, <1>4, <1>5 DEF Among

(* Counting goes on in what is appended.                                   *)
LEMMA AmongBoth ==
  ASSUME NEW E, NEW p \in Seq(E), NEW q \in Seq(E), NEW s
  PROVE  /\ CountSlug(p, s) = Among(p, Len(p), s) /\ CountSlug(p, s) \in Nat
         /\ CountSlug(p \o q, s) = CountSlug(p, s) + CountSlug(q, s)
<1>1. \A r \in Seq(E) : CountSlug(r, s) = Among(r, Len(r), s) /\ CountSlug(r, s) \in Nat
  <2> SUFFICES ASSUME NEW r \in Seq(E)
               PROVE  CountSlug(r, s) = Among(r, Len(r), s) /\ CountSlug(r, s) \in Nat
    OBVIOUS
  <2>1. Len(r) \in Nat /\ DOMAIN r = 1 .. Len(r)
    OBVIOUS
  <2>2. CountSlug(r, s) = Among(r, Len(r), s)
    BY <2>1 DEF CountSlug, Among
  <2> QED BY <2>1, <2>2, AmongNat
<1>2. PICK r, m : r = p \o q /\ m = Len(p)
  OBVIOUS
<1>3. /\ r \in Seq(E) /\ Len(r) = m + Len(q) /\ m \in Nat /\ Len(q) \in Nat
      /\ \A i \in 1 .. m : r[i] = p[i]
      /\ \A k \in 1 .. Len(q) : r[m + k] = q[k]
  BY <1>2
<1>4. PICK N : N = {k \in Nat : k <= Len(q) => Among(r, m + k, s) = Among(p, m, s) + Among(q, k, s)}
  OBVIOUS
<1>5. 0 \in N
  <2>1. Among(r, m, s) = Among(p, m, s)
    BY <1>3 DEF Among
  <2>2. Among(q, 0, s) = 0 /\ Among(p, m, s) \in Nat /\ m + 0 = m
    BY <1>3, AmongNone, AmongNat
  <2> QED BY <1>4, <2>1, <2>2
<1>6. ASSUME NEW k \in Nat, k \in N PROVE k + 1 \in N
  <2> SUFFICES ASSUME k + 1 <= Len(q)
               PROVE  Among(r, m + (k + 1), s) = Among(p, m, s) + Among(q, k + 1, s)
    BY <1>4
  <2>1. Among(r, m + k, s) = Among(p, m, s) + Among(q, k, s)
    BY <1>3, <1>4, <1>6
  <2>2. PICK x, y, z : x = m + k /\ y = m + (k + 1) /\ z = k + 1
    OBVIOUS
  <2>3. x \in Nat /\ y = x + 1 /\ z \in 1 .. Len(q) /\ y = m + z
    BY <1>3, <2>2
  <2>4. r[y] = q[z]
    BY <1>3, <2>3
  <2>5. Among(q, z, s) = IF q[z].slug = s THEN Among(q, k, s) + 1 ELSE Among(q, k, s)
    BY <2>2, AmongNext
  <2>6. Among(r, y, s) = IF r[y].slug = s THEN Among(r, x, s) + 1 ELSE Among(r, x, s)
    BY <2>3, AmongNext
  <2>7. Among(q, k, s) \in Nat /\ Among(p, m, s) \in Nat
    BY <1>3, AmongNat
  <2> QED BY <2>1, <2>2, <2>4, <2>5, <2>6, <2>7
<1>7. Among(r, m + Len(q), s) = Among(p, m, s) + Among(q, Len(q), s)
  <2>1. \A k \in Nat : k \in N
    BY <1>5, <1>6, AllNaturals
  <2>2. Len(q) \in N /\ Len(q) <= Len(q)
    BY <1>3, <2>1
  <2> QED BY <1>4, <2>2
<1> QED BY <1>1, <1>2, <1>3, <1>7

(* A base and what exceeds it hold of a slug what the richer one holds.    *)
LEMMA SurplusIs ==
  ASSUME NEW E, NEW base \in Seq(E), NEW extra \in Seq(E), NEW slug
  PROVE  /\ Surplus(base, extra) \in Seq(E)
         /\ CountSlug(base \o Surplus(base, extra), slug)
              = IF CountSlug(base, slug) >= CountSlug(extra, slug)
                THEN CountSlug(base, slug) ELSE CountSlug(extra, slug)
<1> DEFINE Kept(i) == Cardinality({j \in 1 .. i - 1 : extra[j].slug = extra[i].slug})
                        >= CountSlug(base, extra[i].slug)
           Rec(F) == [i \in Nat |-> IF i = 0 THEN <<>>
                                    ELSE IF Kept(i) THEN Append(F[i - 1], extra[i]) ELSE F[i - 1]]
<1>1. PICK n : n = Len(extra)
  OBVIOUS
<1>2. n \in Nat /\ \A i \in 1 .. n : extra[i] \in E
  BY <1>1
<1>3. PICK K : K = {i \in Nat : Kept(i)}
  OBVIOUS
<1>e. PICK X : X = {extra[i] : i \in Nat}
  OBVIOUS
<1>4. PICK T : T = [p \in Nat \X Seq(X) |->
                      IF p[1] + 1 \in K THEN Append(p[2], extra[p[1] + 1]) ELSE p[2]]
  OBVIOUS
<1>5. PICK g : Recurs(g, <<>>, T)
  BY Recursion
<1>6. g = [k \in Nat |-> g[k]] /\ g[0] = <<>> /\ \A k \in Nat : g[k + 1] = T[<<k, g[k]>>]
  BY <1>5 DEF Recurs
<1>7. PICK M : M = {k \in Nat : g[k] \in Seq(X)}
  OBVIOUS
<1>8. \A k \in Nat : k \in M =>
        g[k + 1] = IF k + 1 \in K THEN Append(g[k], extra[k + 1]) ELSE g[k]
  <2> SUFFICES ASSUME NEW k \in Nat, k \in M
               PROVE  g[k + 1] = IF k + 1 \in K THEN Append(g[k], extra[k + 1]) ELSE g[k]
    OBVIOUS
  <2>1. <<k, g[k]>> \in Nat \X Seq(X)
    BY <1>7
  <2> QED BY <1>4, <1>6, <2>1
<1>9. 0 \in M
  <2>1. <<>> \in Seq(X)
    OBVIOUS
  <2> QED BY <1>6, <1>7, <2>1
<1>10. ASSUME NEW k \in Nat, k \in M PROVE k + 1 \in M
  <2>1. g[k] \in Seq(X) /\ extra[k + 1] \in X
    BY <1>7, <1>10, <1>e
  <2>2. Append(g[k], extra[k + 1]) \in Seq(X)
    BY <2>1
  <2>3. g[k + 1] \in Seq(X)
    BY <1>8, <1>10, <2>1, <2>2
  <2> QED BY <1>7, <2>3
<1>11. \A k \in Nat : k \in M
  BY <1>9, <1>10, AllNaturals
<1>12. g = Rec(g)
  <2>1. ASSUME NEW i \in Nat
        PROVE  g[i] = IF i = 0 THEN <<>>
                      ELSE IF Kept(i) THEN Append(g[i - 1], extra[i]) ELSE g[i - 1]
    <3>1. CASE i = 0
      BY <1>6, <3>1
    <3>2. CASE i # 0
      <4>1. i - 1 \in Nat /\ (i - 1) + 1 = i /\ (i \in K <=> Kept(i))
        BY <1>3, <3>2
      <4>2. g[i] = IF i \in K THEN Append(g[i - 1], extra[i]) ELSE g[i - 1]
        BY <1>8, <1>11, <4>1
      <4> HIDE DEF Kept
      <4> QED BY <3>2, <4>1, <4>2
    <3> QED BY <3>1, <3>2
  <2> HIDE DEF Kept
  <2> QED BY <1>6, <2>1
<1>13. PICK c : c = CHOOSE F : F = Rec(F)
  OBVIOUS
<1>14. c = Rec(c)
  BY <1>12, <1>13
<1>15. Surplus(base, extra) = c[n]
  BY <1>1, <1>13 DEF Surplus
<1>16. /\ c[0] = <<>>
       /\ \A k \in Nat : c[k + 1] = IF Kept(k + 1) THEN Append(c[k], extra[k + 1]) ELSE c[k]
  <2> HIDE DEF Kept
  <2>1. c[0] = <<>>
    BY <1>14
  <2>2. ASSUME NEW k \in Nat
        PROVE  c[k + 1] = IF Kept(k + 1) THEN Append(c[k], extra[k + 1]) ELSE c[k]
    <3>1. k + 1 # 0 /\ k + 1 \in Nat /\ (k + 1) - 1 = k
      OBVIOUS
    <3> HIDE DEF Rec
    <3>2. c[k + 1] = Rec(c)[k + 1]
      BY <1>14
    <3> QED BY <3>1, <3>2 DEF Rec
  <2> QED BY <2>1, <2>2
<1> DEFINE Exceeds(k) ==
             /\ c[k] \in Seq(E)
             /\ \A s : CountSlug(c[k], s) = IF Among(extra, k, s) >= CountSlug(base, s)
                                            THEN Among(extra, k, s) - CountSlug(base, s) ELSE 0
<1>17. PICK N : N = {k \in Nat : k <= n => Exceeds(k)}
  OBVIOUS
<1>18. \A s : CountSlug(base, s) \in Nat
  BY AmongBoth
<1>19. 0 \in N
  <2>1. <<>> \in Seq(E) /\ Len(<<>>) = 0
    OBVIOUS
  <2>2. \A s : CountSlug(<<>>, s) = 0 /\ Among(extra, 0, s) = 0
    <3> SUFFICES ASSUME NEW s PROVE CountSlug(<<>>, s) = 0 /\ Among(extra, 0, s) = 0
      OBVIOUS
    <3>1. CountSlug(<<>>, s) = Among(<<>>, 0, s)
      BY <2>1, AmongBoth
    <3> QED BY <3>1, AmongNone
  <2>3. \A s : CountSlug(<<>>, s) = IF Among(extra, 0, s) >= CountSlug(base, s)
                                     THEN Among(extra, 0, s) - CountSlug(base, s) ELSE 0
    BY <1>18, <2>2
  <2>4. Exceeds(0)
    BY <1>16, <2>1, <2>3
  <2> HIDE DEF Exceeds
  <2> QED BY <1>17, <2>4
<1>20. ASSUME NEW k \in Nat, k \in N PROVE k + 1 \in N
  <2> SUFFICES ASSUME k + 1 <= n
               PROVE  /\ c[k + 1] \in Seq(E)
                      /\ \A s : CountSlug(c[k + 1], s) = IF Among(extra, k + 1, s) >= CountSlug(base, s)
                                  THEN Among(extra, k + 1, s) - CountSlug(base, s) ELSE 0
    BY <1>17
  <2>1. PICK e, r : e = extra[k + 1] /\ r = c[k]
    OBVIOUS
  <2>2. e \in E /\ r \in Seq(E)
    BY <1>2, <1>17, <1>20, <2>1
  <2>3. \A s : CountSlug(r, s) = IF Among(extra, k, s) >= CountSlug(base, s)
                                 THEN Among(extra, k, s) - CountSlug(base, s) ELSE 0
    BY <1>2, <1>17, <1>20, <2>1
  <2>4. Kept(k + 1) <=> Among(extra, k, e.slug) >= CountSlug(base, e.slug)
    BY <2>1 DEF Among
  <2> HIDE DEF Kept
  <2>5. c[k + 1] = IF Kept(k + 1) THEN r \o <<e>> ELSE r
    <3>1. Append(r, e) = r \o <<e>>
      BY <2>2
    <3> QED BY <1>16, <2>1, <3>1
  <2>6. \A s : CountSlug(r \o <<e>>, s) = CountSlug(r, s) + IF e.slug = s THEN 1 ELSE 0
    <3> SUFFICES ASSUME NEW s
                 PROVE  CountSlug(r \o <<e>>, s) = CountSlug(r, s) + IF e.slug = s THEN 1 ELSE 0
      OBVIOUS
    <3>1. <<e>> \in Seq(E) /\ Len(<<e>>) = 1 /\ <<e>>[1] = e
      BY <2>2
    <3>2. CountSlug(<<e>>, s) = Among(<<e>>, 1, s)
      <4>1. CountSlug(<<e>>, s) = Among(<<e>>, Len(<<e>>), s)
        BY <3>1, AmongBoth
      <4> QED BY <3>1, <4>1
    <3>3. Among(<<e>>, 1, s) = IF e.slug = s THEN Among(<<e>>, 0, s) + 1 ELSE Among(<<e>>, 0, s)
      <4>1. 0 \in Nat /\ 1 = 0 + 1
        OBVIOUS
      <4> QED BY <3>1, <4>1, AmongNext
    <3>4. Among(<<e>>, 0, s) = 0
      BY AmongNone
    <3>5. CountSlug(r \o <<e>>, s) = CountSlug(r, s) + CountSlug(<<e>>, s)
      <4>1. PICK o : o = <<e>>
        OBVIOUS
      <4>2. o \in Seq(E)
        BY <3>1, <4>1
      <4>3. CountSlug(r \o o, s) = CountSlug(r, s) + CountSlug(o, s)
        BY <2>2, <4>2, AmongBoth
      <4> QED BY <4>1, <4>3
    <3> QED BY <3>2, <3>3, <3>4, <3>5
  <2>7. \A s : /\ Among(extra, k + 1, s) = IF e.slug = s THEN Among(extra, k, s) + 1 ELSE Among(extra, k, s)
               /\ Among(extra, k, s) \in Nat
    <3>1. PICK l : l = k + 1
      OBVIOUS
    <3>2. \A s : Among(extra, l, s) = IF extra[l].slug = s THEN Among(extra, k, s) + 1 ELSE Among(extra, k, s)
      BY <3>1, AmongNext
    <3> QED BY <2>1, <3>1, <3>2, AmongNat
  <2>8. c[k + 1] \in Seq(E)
    BY <2>2, <2>5
  <2>9. ASSUME NEW s
        PROVE  CountSlug(c[k + 1], s) = IF Among(extra, k + 1, s) >= CountSlug(base, s)
                                        THEN Among(extra, k + 1, s) - CountSlug(base, s) ELSE 0
    <3>1. PICK a, b, had : a = Among(extra, k, s) /\ b = CountSlug(base, s) /\ had = CountSlug(r, s)
      OBVIOUS
    <3>2. a \in Nat /\ b \in Nat /\ had = IF a >= b THEN a - b ELSE 0
      BY <1>18, <2>3, <2>7, <3>1
    <3>3. CASE e.slug = s
      <4>1. Among(extra, k + 1, s) = a + 1 /\ CountSlug(r \o <<e>>, s) = had + 1
        BY <2>6, <2>7, <3>1, <3>3
      <4>2. Kept(k + 1) <=> a >= b
        BY <2>4, <3>1, <3>3
      <4>3. CountSlug(c[k + 1], s) = IF a >= b THEN had + 1 ELSE had
        BY <2>5, <3>1, <4>1, <4>2
      <4> QED BY <3>1, <3>2, <4>1, <4>3
    <3>4. CASE e.slug # s
      <4>1. Among(extra, k + 1, s) = a /\ CountSlug(r \o <<e>>, s) = had
        <5>1. Among(extra, k + 1, s) = a
          BY <2>7, <3>1, <3>4
        <5>2. CountSlug(r \o <<e>>, s) = had + 0 /\ had \in Int
          <6>1. CountSlug(r \o <<e>>, s) = CountSlug(r, s) + 0
            BY <2>6, <3>4
          <6>2. had \in Int
            BY <3>2
          <6> QED BY <3>1, <6>1, <6>2
        <5> QED BY <5>1, <5>2
      <4>2. CountSlug(c[k + 1], s) = had
        BY <2>5, <3>1, <4>1
      <4> QED BY <3>1, <3>2, <4>1, <4>2
    <3> QED BY <3>3, <3>4
  <2> QED BY <2>8, <2>9
<1>21. \A k \in Nat : k \in N
  BY <1>19, <1>20, AllNaturals
<1>22. /\ c[n] \in Seq(E)
       /\ \A s : CountSlug(c[n], s) = IF Among(extra, n, s) >= CountSlug(base, s)
                                      THEN Among(extra, n, s) - CountSlug(base, s) ELSE 0
  BY <1>2, <1>17, <1>21
<1>23. /\ CountSlug(base \o c[n], slug) = CountSlug(base, slug) + CountSlug(c[n], slug)
       /\ CountSlug(extra, slug) = Among(extra, n, slug) /\ CountSlug(extra, slug) \in Nat
  <2>1. PICK r : r = c[n]
    OBVIOUS
  <2>2. r \in Seq(E)
    BY <1>22, <2>1
  <2>3. CountSlug(base \o r, slug) = CountSlug(base, slug) + CountSlug(r, slug)
    BY <2>2, AmongBoth
  <2>4. CountSlug(extra, slug) = Among(extra, Len(extra), slug) /\ CountSlug(extra, slug) \in Nat
    BY AmongBoth
  <2> QED BY <1>1, <2>1, <2>3, <2>4
<1> QED BY <1>15, <1>18, <1>22, <1>23

(* The merged scope begins with the form and is as rich as the richest.    *)
LEMMA MergeHolds == CaseFits => MergeKeepsTheRichest
<1> SUFFICES ASSUME CaseFits, case.kind = "sources"
             PROVE  LET merged == MergeScope(case.one, case.two, case.three)
                    IN  /\ SubSeq(merged, 1, Len(case.one)) = case.one
                        /\ \A s \in {e.slug : e \in SomeEntities} :
                             CountSlug(merged, s) =
                               Max({CountSlug(case.one, s), CountSlug(case.two, s), CountSlug(case.three, s)})
  BY DEF MergeKeepsTheRichest
<1>1. PICK a, b, d : a = case.one /\ b = case.two /\ d = case.three
  OBVIOUS
<1>2. a \in Seq(SomeEntities) /\ b \in Seq(SomeEntities) /\ d \in Seq(SomeEntities)
  BY <1>1 DEF CaseFits
<1>3. PICK p, q : p = a \o Surplus(a, b) /\ q = p \o Surplus(p, d)
  OBVIOUS
<1>4. Surplus(a, b) \in Seq(SomeEntities) /\ p \in Seq(SomeEntities)
  <2>1. Surplus(a, b) \in Seq(SomeEntities)
    BY <1>2, SurplusIs
  <2> QED BY <1>2, <1>3, <2>1
<1>5. Surplus(p, d) \in Seq(SomeEntities)
  BY <1>2, <1>4, SurplusIs
<1>6. MergeScope(a, b, d) = q
  BY <1>3 DEF MergeScope
<1>7. SubSeq(q, 1, Len(a)) = a
  <2>1. q \in Seq(SomeEntities) /\ Len(a) <= Len(p) /\ Len(p) <= Len(q) /\ Len(a) \in Nat
    BY <1>2, <1>3, <1>4, <1>5
  <2>2. \A i \in 1 .. Len(a) : q[i] = a[i]
    BY <1>2, <1>3, <1>4, <1>5
  <2>3. SubSeq(q, 1, Len(a)) \in Seq(SomeEntities) /\ Len(SubSeq(q, 1, Len(a))) = Len(a)
        /\ \A i \in 1 .. Len(a) : SubSeq(q, 1, Len(a))[i] = q[i]
    BY <2>1
  <2> QED BY <1>2, <2>2, <2>3, SeqEqual
<1>8. ASSUME NEW s
      PROVE  CountSlug(q, s) = Max({CountSlug(a, s), CountSlug(b, s), CountSlug(d, s)})
  <2>1. PICK x, y, z : x = CountSlug(a, s) /\ y = CountSlug(b, s) /\ z = CountSlug(d, s)
    OBVIOUS
  <2>2. x \in Nat /\ y \in Nat /\ z \in Nat
    BY <1>2, <2>1, AmongBoth
  <2>3. CountSlug(p, s) = IF x >= y THEN x ELSE y
    <3>1. CountSlug(a \o Surplus(a, b), s) = IF CountSlug(a, s) >= CountSlug(b, s)
                                             THEN CountSlug(a, s) ELSE CountSlug(b, s)
      BY <1>2, SurplusIs
    <3> QED BY <1>3, <2>1, <3>1
  <2>4. CountSlug(q, s) = IF CountSlug(p, s) >= z THEN CountSlug(p, s) ELSE z
    <3>1. CountSlug(p \o Surplus(p, d), s) = IF CountSlug(p, s) >= CountSlug(d, s)
                                             THEN CountSlug(p, s) ELSE CountSlug(d, s)
      BY <1>2, <1>4, SurplusIs
    <3> QED BY <1>3, <2>1, <3>1
  <2>5. Max({x, y, z}) = IF CountSlug(p, s) >= z THEN CountSlug(p, s) ELSE z
    BY <2>2, <2>3 DEF Max
  <2> QED BY <2>1, <2>4, <2>5
<1> QED BY <1>1, <1>6, <1>7, <1>8

-----------------------------------------------------------------------------
(* A mention, or what some became together.                                *)
MentionRow == [app : {m.app : m \in SomeMentions}, slug : {m.slug : m \in SomeMentions},
               kind : {m.kind : m \in SomeMentions}, n : Int, method : DOMAIN Specific,
               who : {"internal", "external"}, conf : Int]

(* What may be mentioned is a row.                                         *)
LEMMA MentionRows == SomeMentions \subseteq MentionRow
<1> SUFFICES ASSUME NEW m \in SomeMentions PROVE m \in MentionRow
  OBVIOUS
<1>1. m = [app |-> m.app, slug |-> m.slug, kind |-> m.kind, n |-> m.n, method |-> m.method,
           who |-> m.who, conf |-> m.conf]
  BY CaseAssumption
<1>2. /\ m.n \in Int /\ m.conf \in Int /\ m.who \in {"internal", "external"}
      /\ m.method \in DOMAIN Specific
  BY CaseAssumption
<1> QED BY <1>1, <1>2 DEF MentionRow

(* The larger of two.                                                      *)
LEMMA MaxOfTwo ==
  ASSUME NEW a \in Int, NEW b \in Int
  PROVE  Max({a, b}) = IF a >= b THEN a ELSE b
BY DEF Max

(* A survivor, field by field.                                             *)
LEMMA SurvivorIs ==
  ASSUME NEW prev \in MentionRow, NEW m \in MentionRow
  PROVE  /\ Survivor(prev, m) \in MentionRow
         /\ Survivor(prev, m).app = prev.app /\ Survivor(prev, m).slug = prev.slug
         /\ Survivor(prev, m).n = IF prev.n >= m.n THEN prev.n ELSE m.n
         /\ Survivor(prev, m).conf = IF prev.conf >= m.conf THEN prev.conf ELSE m.conf
         /\ Survivor(prev, m).who = IF "external" \in {prev.who, m.who} THEN "external" ELSE prev.who
         /\ Survivor(prev, m).method = IF Specific[m.method] > Specific[prev.method]
                                       THEN m.method ELSE prev.method
<1>1. PICK n, c, w, h :
         /\ n = IF prev.n >= m.n THEN prev.n ELSE m.n
         /\ c = IF prev.conf >= m.conf THEN prev.conf ELSE m.conf
         /\ w = IF "external" \in {prev.who, m.who} THEN "external" ELSE prev.who
         /\ h = IF Specific[m.method] > Specific[prev.method] THEN m.method ELSE prev.method
  OBVIOUS
<1>2. Max({prev.n, m.n}) = n /\ Max({prev.conf, m.conf}) = c
  BY <1>1, MaxOfTwo DEF MentionRow
<1>3. n \in Int /\ c \in Int /\ w \in {"internal", "external"} /\ h \in DOMAIN Specific
  BY <1>1 DEF MentionRow
<1>4. prev = [app |-> prev.app, slug |-> prev.slug, kind |-> prev.kind, n |-> prev.n,
              method |-> prev.method, who |-> prev.who, conf |-> prev.conf]
  BY DEF MentionRow
<1>5. Survivor(prev, m) = [app |-> prev.app, slug |-> prev.slug, kind |-> prev.kind, n |-> n,
                           method |-> h, who |-> w, conf |-> c]
  <2>1. Survivor(prev, m) = [prev EXCEPT !.n = n, !.conf = c, !.who = w, !.method = h]
    BY <1>1, <1>2 DEF Survivor, MoreSpecific
  <2> QED BY <1>4, <2>1
<1>6. Survivor(prev, m) \in MentionRow
  BY <1>3, <1>5 DEF MentionRow
<1> QED BY <1>1, <1>5, <1>6

(* What the mentions of one key become, whatever their order.              *)
Speaks(r, M) ==
  /\ r \in MentionRow /\ M \subseteq MentionRow
  /\ \A m \in M : r.app = m.app /\ r.slug = m.slug
  /\ (\E m \in M : r.n = m.n) /\ (\A m \in M : m.n <= r.n)
  /\ (\E m \in M : r.conf = m.conf) /\ (\A m \in M : m.conf <= r.conf)
  /\ r.who = "external" <=> \E m \in M : m.who = "external"
  /\ \E m \in M : r.method = m.method
  /\ \A m \in M : Specific[m.method] <= Specific[r.method]

(* A mention speaks for itself.                                            *)
LEMMA SpeaksAlone ==
  ASSUME NEW m \in MentionRow
  PROVE  Speaks(m, {m})
<1>1. m.n \in Int /\ m.conf \in Int /\ m.method \in DOMAIN Specific
  BY DEF MentionRow
<1>2. Specific[m.method] \in Nat
  BY <1>1, CaseAssumption
<1> QED BY <1>1, <1>2 DEF Speaks

(* A survivor speaks for whom it spoke for and for the mention it took in. *)
LEMMA SpeaksOn ==
  ASSUME NEW r, NEW M, Speaks(r, M), NEW m \in MentionRow, m.app = r.app, m.slug = r.slug
  PROVE  Speaks(Survivor(r, m), M \cup {m})
<1>1. PICK s : s = Survivor(r, m)
  OBVIOUS
<1>2. r \in MentionRow
  BY DEF Speaks
<1>3. /\ s \in MentionRow /\ s.app = r.app /\ s.slug = r.slug
      /\ s.n = IF r.n >= m.n THEN r.n ELSE m.n
      /\ s.conf = IF r.conf >= m.conf THEN r.conf ELSE m.conf
      /\ s.who = IF "external" \in {r.who, m.who} THEN "external" ELSE r.who
      /\ s.method = IF Specific[m.method] > Specific[r.method] THEN m.method ELSE r.method
  BY <1>1, <1>2, SurvivorIs
<1>4. \A x \in MentionRow : x.n \in Int /\ x.conf \in Int /\ Specific[x.method] \in Nat
  BY CaseAssumption DEF MentionRow
<1>5. M \subseteq MentionRow
  BY DEF Speaks
<1>6. \A x \in M \cup {m} : s.app = x.app /\ s.slug = x.slug
  BY <1>3 DEF Speaks
<1>7. (\E x \in M \cup {m} : s.n = x.n) /\ (\A x \in M \cup {m} : x.n <= s.n)
  <2>1. (\E x \in M : r.n = x.n) /\ (\A x \in M : x.n <= r.n /\ x.n \in Int)
    BY <1>4, <1>5 DEF Speaks
  <2> QED BY <1>2, <1>3, <1>4, <2>1
<1>8. (\E x \in M \cup {m} : s.conf = x.conf) /\ (\A x \in M \cup {m} : x.conf <= s.conf)
  <2>1. (\E x \in M : r.conf = x.conf) /\ (\A x \in M : x.conf <= r.conf /\ x.conf \in Int)
    BY <1>4, <1>5 DEF Speaks
  <2> QED BY <1>2, <1>3, <1>4, <2>1
<1>9. s.who = "external" <=> \E x \in M \cup {m} : x.who = "external"
  <2>1. r.who = "external" <=> \E x \in M : x.who = "external"
    BY DEF Speaks
  <2> QED BY <1>3, <2>1
<1>10. /\ \E x \in M \cup {m} : s.method = x.method
       /\ \A x \in M \cup {m} : Specific[x.method] <= Specific[s.method]
  <2>1. /\ \E x \in M : r.method = x.method
        /\ \A x \in M : Specific[x.method] <= Specific[r.method] /\ Specific[x.method] \in Nat
    BY <1>4, <1>5 DEF Speaks
  <2>2. Specific[r.method] \in Nat /\ Specific[m.method] \in Nat
    BY <1>2, <1>4
  <2> QED BY <1>3, <2>1, <2>2
<1>11. M \cup {m} \subseteq MentionRow
  BY <1>5
<1>12. Speaks(s, M \cup {m})
  BY <1>3, <1>6, <1>7, <1>8, <1>9, <1>10, <1>11 DEF Speaks
<1> QED BY <1>1, <1>12

(* Two that speak for the same mentions say the same of them.              *)
LEMMA SpeakAlike ==
  ASSUME NEW r, NEW q, NEW M, Speaks(r, M), Speaks(q, M),
         \A x, y \in M : Specific[x.method] = Specific[y.method] => x.method = y.method
  PROVE  [r EXCEPT !.kind = "any"] = [q EXCEPT !.kind = "any"]
<1>1. r \in MentionRow /\ q \in MentionRow /\ M \subseteq MentionRow
  BY DEF Speaks
<1>2. \A x \in MentionRow : x.n \in Int /\ x.conf \in Int /\ Specific[x.method] \in Nat
  BY CaseAssumption DEF MentionRow
<1>3. r.app = q.app /\ r.slug = q.slug
  BY DEF Speaks
<1>4. r.n = q.n
  <2>1. r.n <= q.n /\ q.n <= r.n
    BY DEF Speaks
  <2> QED BY <1>1, <1>2, <2>1
<1>5. r.conf = q.conf
  <2>1. r.conf <= q.conf /\ q.conf <= r.conf
    BY DEF Speaks
  <2> QED BY <1>1, <1>2, <2>1
<1>6. r.who = q.who
  <2>1. r.who = "external" <=> q.who = "external"
    BY DEF Speaks
  <2>2. r.who \in {"internal", "external"} /\ q.who \in {"internal", "external"}
    BY <1>1 DEF MentionRow
  <2> QED BY <2>1, <2>2
<1>7. r.method = q.method
  <2>1. PICK x \in M : r.method = x.method
    BY DEF Speaks
  <2>2. PICK y \in M : q.method = y.method
    BY DEF Speaks
  <2>3. Specific[x.method] <= Specific[y.method] /\ Specific[y.method] <= Specific[x.method]
    BY <2>1, <2>2 DEF Speaks
  <2>4. Specific[x.method] = Specific[y.method]
    BY <1>1, <1>2, <2>3
  <2> QED BY <2>1, <2>2, <2>4
<1> QED BY <1>1, <1>3, <1>4, <1>5, <1>6, <1>7 DEF MentionRow

(* The mentions of one key, collapsed in their order.                      *)
LEMMA CollapsedIs ==
  ASSUME NEW ms \in Seq(SomeMentions), NEW group, group \subseteq DOMAIN ms, group # {},
         \A i, j \in group : KeyOf(ms[i]) = KeyOf(ms[j])
  PROVE  Speaks(Collapsed(ms, group), {ms[i] : i \in group})
<1> DEFINE Rec(F) == [i \in Nat |-> IF i <= Min(group) THEN ms[Min(group)]
                                    ELSE IF i \in group THEN Survivor(F[i - 1], ms[i]) ELSE F[i - 1]]
<1>1. PICK n, f : n = Len(ms) /\ f = Min(group)
  OBVIOUS
<1>2. /\ n \in Nat /\ DOMAIN ms = 1 .. n /\ group \subseteq 1 .. n
      /\ \A i \in group : ms[i] \in MentionRow
  BY <1>1, MentionRows
<1>3. f \in group /\ f \in Nat /\ f # 0 /\ f <= n /\ \A i \in group : i \in Nat /\ f <= i
  <2>1. group \subseteq Nat
    BY <1>2
  <2>2. f \in group /\ \A i \in group : f <= i
    BY <1>1, <2>1, LeastOf DEF Min
  <2> QED BY <1>2, <2>2
<1>4. PICK T : T = [p \in Nat \X MentionRow |->
                      IF p[1] + 1 <= f THEN ms[f]
                      ELSE IF p[1] + 1 \in group THEN Survivor(p[2], ms[p[1] + 1]) ELSE p[2]]
  OBVIOUS
<1>5. PICK g : Recurs(g, ms[f], T)
  BY Recursion
<1>6. g = [k \in Nat |-> g[k]] /\ g[0] = ms[f] /\ \A k \in Nat : g[k + 1] = T[<<k, g[k]>>]
  BY <1>5 DEF Recurs
<1>7. PICK M : M = {k \in Nat : g[k] \in MentionRow}
  OBVIOUS
<1>8. \A k \in Nat : k \in M =>
        g[k + 1] = IF k + 1 <= f THEN ms[f]
                   ELSE IF k + 1 \in group THEN Survivor(g[k], ms[k + 1]) ELSE g[k]
  <2> SUFFICES ASSUME NEW k \in Nat, k \in M
               PROVE  g[k + 1] = IF k + 1 <= f THEN ms[f]
                                 ELSE IF k + 1 \in group THEN Survivor(g[k], ms[k + 1]) ELSE g[k]
    OBVIOUS
  <2>1. <<k, g[k]>> \in Nat \X MentionRow
    BY <1>7
  <2> QED BY <1>4, <1>6, <2>1
<1>9. 0 \in M
  BY <1>2, <1>3, <1>6, <1>7
<1>10. ASSUME NEW k \in Nat, k \in M PROVE k + 1 \in M
  <2>1. g[k] \in MentionRow /\ ms[f] \in MentionRow
    BY <1>2, <1>3, <1>7, <1>10
  <2>2. k + 1 \in group => Survivor(g[k], ms[k + 1]) \in MentionRow
    BY <1>2, <2>1, SurvivorIs
  <2>3. g[k + 1] \in MentionRow
    BY <1>8, <1>10, <2>1, <2>2
  <2> QED BY <1>7, <2>3
<1>11. \A k \in Nat : k \in M
  BY <1>9, <1>10, AllNaturals
<1>12. g = Rec(g)
  <2>1. ASSUME NEW i \in Nat
        PROVE  g[i] = IF i <= Min(group) THEN ms[Min(group)]
                      ELSE IF i \in group THEN Survivor(g[i - 1], ms[i]) ELSE g[i - 1]
    <3>1. CASE i = 0
      BY <1>1, <1>3, <1>6, <3>1
    <3>2. CASE i # 0
      <4>1. PICK k : k = i - 1
        OBVIOUS
      <4>2. k \in Nat /\ k + 1 = i /\ k \in M
        BY <1>11, <3>2, <4>1
      <4>3. g[k + 1] = IF k + 1 <= f THEN ms[f]
                       ELSE IF k + 1 \in group THEN Survivor(g[k], ms[k + 1]) ELSE g[k]
        BY <1>8, <4>2
      <4> QED BY <1>1, <4>1, <4>2, <4>3
    <3> QED BY <3>1, <3>2
  <2> QED BY <1>6, <2>1
<1>13. PICK c : c = CHOOSE F : F = Rec(F)
  OBVIOUS
<1>14. c = Rec(c)
  BY <1>12, <1>13
<1>15. Collapsed(ms, group) = c[n]
  BY <1>1, <1>13 DEF Collapsed
<1>16. /\ c[0] = ms[f]
       /\ \A k \in Nat : c[k + 1] = IF k + 1 <= f THEN ms[f]
                           ELSE IF k + 1 \in group THEN Survivor(c[k], ms[k + 1]) ELSE c[k]
  <2>1. c[0] = ms[f]
    BY <1>1, <1>3, <1>14
  <2>2. ASSUME NEW k \in Nat
        PROVE  c[k + 1] = IF k + 1 <= f THEN ms[f]
                          ELSE IF k + 1 \in group THEN Survivor(c[k], ms[k + 1]) ELSE c[k]
    <3>1. k + 1 \in Nat /\ (k + 1) - 1 = k
      OBVIOUS
    <3> HIDE DEF Rec
    <3>2. c[k + 1] = Rec(c)[k + 1]
      BY <1>14
    <3> QED BY <1>1, <3>1, <3>2 DEF Rec
  <2> QED BY <2>1, <2>2
<1> DEFINE Upto(k) == {ms[i] : i \in {j \in group : j <= k}}
<1>17. PICK N : N = {k \in Nat : IF k <= f THEN c[k] = ms[f] ELSE Speaks(c[k], Upto(k))}
  OBVIOUS
<1>18. 0 \in N
  BY <1>3, <1>16, <1>17
<1>19. Upto(f) = {ms[f]}
  BY <1>3
<1>20. Speaks(ms[f], Upto(f))
  <2>1. ms[f] \in MentionRow
    BY <1>2, <1>3
  <2> QED BY <1>19, <2>1, SpeaksAlone
<1>21. ASSUME NEW k \in Nat, k \in N PROVE k + 1 \in N
  <2>1. CASE k + 1 <= f
    <3> HIDE DEF Upto
    <3>1. c[k + 1] = ms[f]
      BY <1>16, <2>1
    <3> QED BY <1>17, <2>1, <3>1
  <2>2. CASE ~(k + 1 <= f)
    <3> HIDE DEF Upto
    <3>1. Speaks(c[k], Upto(k))
      <4>1. CASE k = f
        BY <1>3, <1>17, <1>20, <1>21, <4>1
      <4>2. CASE k # f
        <5>1. ~(k <= f)
          BY <1>3, <2>2, <4>2
        <5> QED BY <1>17, <1>21, <5>1
      <4> QED BY <4>1, <4>2
    <3>2. CASE k + 1 \in group
      <4>1. c[k + 1] = Survivor(c[k], ms[k + 1])
        BY <1>16, <2>2, <3>2
      <4>2. Upto(k + 1) = Upto(k) \cup {ms[k + 1]}
        <5>1. {j \in group : j <= k + 1} = {j \in group : j <= k} \cup {k + 1}
          BY <1>3, <3>2
        <5> QED BY <5>1 DEF Upto
      <4>3. ms[f] \in Upto(k)
        BY <1>3, <2>2 DEF Upto
      <4>4. c[k].app = ms[f].app /\ c[k].slug = ms[f].slug
        BY <3>1, <4>3 DEF Speaks
      <4>5. ms[k + 1].app = ms[f].app /\ ms[k + 1].slug = ms[f].slug
        <5>1. KeyOf(ms[k + 1]) = KeyOf(ms[f])
          BY <1>3, <3>2
        <5> QED BY <5>1 DEF KeyOf
      <4>6. Speaks(Survivor(c[k], ms[k + 1]), Upto(k) \cup {ms[k + 1]})
        BY <1>2, <3>1, <3>2, <4>4, <4>5, SpeaksOn
      <4>7. Speaks(c[k + 1], Upto(k + 1))
        BY <4>1, <4>2, <4>6
      <4> QED BY <1>17, <2>2, <4>7
    <3>3. CASE k + 1 \notin group
      <4>1. c[k + 1] = c[k]
        BY <1>16, <2>2, <3>3
      <4>2. {j \in group : j <= k + 1} = {j \in group : j <= k}
        <5>1. \A j \in group : j <= k + 1 <=> j <= k
          BY <1>3, <3>3
        <5> QED BY <5>1
      <4>3. Upto(k + 1) = Upto(k)
        BY <4>2 DEF Upto
      <4> QED BY <1>17, <2>2, <3>1, <4>1, <4>3
    <3> QED BY <3>2, <3>3
  <2> QED BY <2>1, <2>2
<1>22. \A k \in Nat : k \in N
  BY <1>18, <1>21, AllNaturals
<1>23. Speaks(c[n], Upto(n))
  <2>1. CASE n <= f
    <3>1. n = f
      BY <1>2, <1>3, <2>1
    <3>2. c[n] = ms[f]
      BY <1>2, <1>17, <1>22, <2>1
    <3> QED BY <1>20, <3>1, <3>2
  <2>2. CASE ~(n <= f)
    <3> HIDE DEF Upto
    <3> QED BY <1>2, <1>17, <1>22, <2>2
  <2> QED BY <2>1, <2>2
<1>24. Upto(n) = {ms[i] : i \in group}
  <2>1. {j \in group : j <= n} = group
    BY <1>2
  <2> QED BY <2>1
<1> QED BY <1>15, <1>23, <1>24

(* What the resolver makes of a key.                                       *)
GroupOf(ms, k) == {i \in DOMAIN ms : ~Consumed(ms, ms[i]) /\ KeyOf(ms[i]) = k}
KeysOf(ms) == {KeyOf(ms[i]) : i \in {j \in DOMAIN ms : ~Consumed(ms, ms[j])}}

(* Resolving collapses the mentions of every key that is not consumed.     *)
LEMMA ResolvedIs ==
  ASSUME NEW ms
  PROVE  ResolveScope(ms) = {Collapsed(ms, GroupOf(ms, k)) : k \in KeysOf(ms)}
<1>1. PICK kept : kept = {i \in DOMAIN ms : ~Consumed(ms, ms[i])}
  OBVIOUS
<1>2. \A k : GroupOf(ms, k) = {i \in kept : KeyOf(ms[i]) = k}
  BY <1>1 DEF GroupOf
<1>3. KeysOf(ms) = {KeyOf(ms[i]) : i \in kept}
  BY <1>1 DEF KeysOf
<1>4. ResolveScope(ms) = {Collapsed(ms, {i \in kept : KeyOf(ms[i]) = k}) : k \in {KeyOf(ms[i]) : i \in kept}}
  BY <1>1 DEF ResolveScope
<1>5. PICK K, F, G :
        /\ K = KeysOf(ms) /\ F = [k \in K |-> Collapsed(ms, GroupOf(ms, k))]
        /\ G = [k \in K |-> Collapsed(ms, {i \in kept : KeyOf(ms[i]) = k})]
  OBVIOUS
<1>6. F = G
  BY <1>2, <1>5
<1>7. {Collapsed(ms, GroupOf(ms, k)) : k \in KeysOf(ms)} = {F[k] : k \in K}
  BY <1>5
<1>8. ResolveScope(ms) = {G[k] : k \in K}
  BY <1>3, <1>4, <1>5
<1> QED BY <1>6, <1>7, <1>8

(* What is resolved depends on which mentions there are.                   *)
LEMMA MentionOrderHolds == CaseFits => MentionOrderIsFree
<1> SUFFICES ASSUME CaseFits, case.kind = "mentions", Decided(case.one)
             PROVE  Essence(ResolveScope(case.one)) = Essence(ResolveScope(Reverse(case.one)))
  BY DEF MentionOrderIsFree
<1>1. PICK ms, rs, n : ms = case.one /\ rs = Reverse(ms) /\ n = Len(ms)
  OBVIOUS
<1>2. ms \in Seq(SomeMentions)
  BY <1>1 DEF CaseFits
<1>3. /\ n \in Nat /\ DOMAIN ms = 1 .. n /\ DOMAIN rs = 1 .. n /\ rs \in Seq(SomeMentions)
      /\ \A i \in 1 .. n : rs[i] = ms[(n - i) + 1] /\ (n - i) + 1 \in 1 .. n /\ (n - ((n - i) + 1)) + 1 = i
  <2>1. n \in Nat /\ DOMAIN ms = 1 .. n
    BY <1>1, <1>2
  <2>2. rs = [i \in 1 .. n |-> ms[(n - i) + 1]]
    BY <1>1 DEF Reverse
  <2>3. \A i \in 1 .. n : (n - i) + 1 \in 1 .. n /\ (n - ((n - i) + 1)) + 1 = i
    BY <2>1
  <2>4. \A i \in 1 .. n : rs[i] \in SomeMentions
    BY <1>2, <2>1, <2>2, <2>3
  <2>5. rs \in Seq(SomeMentions)
    BY <2>1, <2>2, <2>4
  <2> QED BY <2>1, <2>2, <2>3, <2>5
<1>4. \A i \in 1 .. n : ms[i] = rs[(n - i) + 1]
  BY <1>3
<1>5. WebApps(ms) = WebApps(rs)
  BY <1>3, <1>4 DEF WebApps
<1>6. LoneApis(ms) = LoneApis(rs)
  BY <1>3, <1>4, <1>5 DEF LoneApis
<1>7. \A m : Consumed(ms, m) <=> Consumed(rs, m)
  BY <1>5, <1>6 DEF Consumed
<1>8. KeysOf(ms) = KeysOf(rs)
  BY <1>3, <1>4, <1>7 DEF KeysOf
<1>9. ASSUME NEW k \in KeysOf(ms)
      PROVE  [Collapsed(ms, GroupOf(ms, k)) EXCEPT !.kind = "any"]
               = [Collapsed(rs, GroupOf(rs, k)) EXCEPT !.kind = "any"]
  <2>1. PICK A, B : A = GroupOf(ms, k) /\ B = GroupOf(rs, k)
    OBVIOUS
  <2>2. /\ A \subseteq DOMAIN ms /\ B \subseteq DOMAIN rs
        /\ \A i, j \in A : KeyOf(ms[i]) = KeyOf(ms[j])
        /\ \A i, j \in B : KeyOf(rs[i]) = KeyOf(rs[j])
    BY <2>1 DEF GroupOf
  <2>3. A # {} /\ B # {}
    <3>1. k \in KeysOf(rs)
      BY <1>8
    <3> QED BY <2>1, <3>1 DEF GroupOf, KeysOf
  <2>4. {ms[i] : i \in A} = {rs[i] : i \in B}
    <3>1. \A i \in 1 .. n : i \in A <=> (n - i) + 1 \in B
      BY <1>3, <1>4, <1>7, <2>1 DEF GroupOf
    <3> QED BY <1>3, <1>4, <2>2, <3>1
  <2>5. PICK M : M = {ms[i] : i \in A}
    OBVIOUS
  <2>6. Speaks(Collapsed(ms, A), M)
    BY <1>2, <2>2, <2>3, <2>5, CollapsedIs
  <2>7. Speaks(Collapsed(rs, B), M)
    <3>1. Speaks(Collapsed(rs, B), {rs[i] : i \in B})
      BY <1>3, <2>2, <2>3, CollapsedIs
    <3> QED BY <2>4, <2>5, <3>1
  <2>8. \A x, y \in M : Specific[x.method] = Specific[y.method] => x.method = y.method
    BY <1>1, <2>2, <2>5 DEF Decided
  <2> QED BY <2>1, <2>6, <2>7, <2>8, SpeakAlike
<1>10. PICK K, F, G :
         /\ K = KeysOf(ms)
         /\ F = [k \in K |-> [Collapsed(ms, GroupOf(ms, k)) EXCEPT !.kind = "any"]]
         /\ G = [k \in K |-> [Collapsed(rs, GroupOf(rs, k)) EXCEPT !.kind = "any"]]
  OBVIOUS
<1>11. F = G
  BY <1>9, <1>10
<1>12. Essence(ResolveScope(ms)) = {F[k] : k \in K}
  BY <1>10, ResolvedIs DEF Essence
<1>13. Essence(ResolveScope(rs)) = {G[k] : k \in K}
  BY <1>8, <1>10, ResolvedIs DEF Essence
<1> QED BY <1>1, <1>11, <1>12, <1>13

-----------------------------------------------------------------------------
(* A set of places has a last.                                             *)
LEMMA LastOf ==
  ASSUME NEW n \in Nat, NEW S, S \subseteq 1 .. n, S # {}
  PROVE  Max(S) \in S /\ \A x \in S : x <= Max(S)
<1>1. PICK K : K = {k \in Nat : n - k \in S}
  OBVIOUS
<1>2. K # {}
  <2>1. PICK x \in S : TRUE
    OBVIOUS
  <2>2. n - x \in Nat /\ n - (n - x) = x
    BY <2>1
  <2> QED BY <1>1, <2>1, <2>2
<1>3. PICK m \in K : \A k \in K : m <= k
  BY <1>1, <1>2, LeastOf
<1>4. ASSUME NEW x \in S PROVE x <= n - m
  <2>1. n - x \in Nat /\ n - (n - x) = x
    OBVIOUS
  <2>2. n - x \in K /\ m \in Nat
    BY <1>1, <2>1
  <2>3. m <= n - x
    BY <1>3, <2>2
  <2> QED BY <2>2, <2>3
<1>5. n - m \in S /\ \A x \in S : x \in Int
  BY <1>1, <1>3
<1>6. \E x \in S : \A y \in S : x >= y
  BY <1>4, <1>5
<1>7. Max(S) \in S /\ \A y \in S : Max(S) >= y
  BY <1>6 DEF Max
<1> QED BY <1>5, <1>7

(* The least of some naturals is one of them.                              *)
LEMMA FirstOf ==
  ASSUME NEW S, S \subseteq Nat, S # {}
  PROVE  Min(S) \in S
BY LeastOf DEF Min

(* Two sets of answers say the same of an iteration.                       *)
SameAt(a, b, it) == \A x : /\ <<x, it>> \in DOMAIN a <=> <<x, it>> \in DOMAIN b
                           /\ <<x, it>> \in DOMAIN a => a[<<x, it>>] = b[<<x, it>>]

(* What answers say the same of an iteration they answer alike in it.      *)
LEMMA AnsweredAlike ==
  ASSUME NEW a, NEW b, NEW it, SameAt(a, b, it), NEW tmpl, NEW parent, NEW field
  PROVE  /\ Answered(tmpl, a, parent, it, field) = Answered(tmpl, b, parent, it, field)
         /\ \A k \in Answered(tmpl, a, parent, it, field) : Given(tmpl, a, k, it) = Given(tmpl, b, k, it)
BY DEF SameAt, Answered, Given

(* ... and of its methodology and of its customers.                        *)
LEMMA SaidAlike ==
  ASSUME NEW a, NEW b, NEW it, SameAt(a, b, it), NEW parent, NEW default
  PROVE  /\ MethodIn(CaseTemplate, a, parent, it, default) = MethodIn(CaseTemplate, b, parent, it, default)
         /\ CustomerIn(CaseTemplate, a, parent, it, default) = CustomerIn(CaseTemplate, b, parent, it, default)
<1>1. ASSUME NEW said, said \subseteq DOMAIN CaseTemplate,
             \A k \in said : Given(CaseTemplate, a, k, it) = Given(CaseTemplate, b, k, it)
      PROVE  LastSaid(CaseTemplate, a, said, it, default) = LastSaid(CaseTemplate, b, said, it, default)
  <2>1. CASE said = {}
    BY <2>1 DEF LastSaid
  <2>2. CASE said # {}
    <3>1. Max(said) \in said
      BY <1>1, <2>2, LastOf, CaseAssumption
    <3> QED BY <1>1, <2>2, <3>1 DEF LastSaid
  <2> QED BY <2>1, <2>2
<1>2. PICK M, C : M = Answered(CaseTemplate, a, parent, it, "methodology")
                  /\ C = Answered(CaseTemplate, a, parent, it, "customer_type")
  OBVIOUS
<1>3. /\ M = Answered(CaseTemplate, b, parent, it, "methodology")
      /\ C = Answered(CaseTemplate, b, parent, it, "customer_type")
      /\ \A k \in M \cup C : Given(CaseTemplate, a, k, it) = Given(CaseTemplate, b, k, it)
  BY <1>2, AnsweredAlike
<1>4. M \subseteq DOMAIN CaseTemplate /\ C \subseteq DOMAIN CaseTemplate
  BY <1>2 DEF Answered
<1>5. MethodIn(CaseTemplate, a, parent, it, default) = MethodIn(CaseTemplate, b, parent, it, default)
  <2>1. LastSaid(CaseTemplate, a, M, it, default) = LastSaid(CaseTemplate, b, M, it, default)
    BY <1>1, <1>3, <1>4
  <2> QED BY <1>2, <1>3, <2>1 DEF MethodIn
<1>6. PICK D : D = {k \in C : Given(CaseTemplate, a, k, it) \in {"internal", "external"}}
  OBVIOUS
<1>7. D = {k \in C : Given(CaseTemplate, b, k, it) \in {"internal", "external"}}
  BY <1>3, <1>6
<1>8. CustomerIn(CaseTemplate, a, parent, it, default) = CustomerIn(CaseTemplate, b, parent, it, default)
  <2>1. LastSaid(CaseTemplate, a, D, it, default) = LastSaid(CaseTemplate, b, D, it, default)
    BY <1>1, <1>3, <1>4, <1>6
  <2>2. CustomerIn(CaseTemplate, a, parent, it, default) = LastSaid(CaseTemplate, a, D, it, default)
    BY <1>2, <1>6 DEF CustomerIn
  <2>3. CustomerIn(CaseTemplate, b, parent, it, default) = LastSaid(CaseTemplate, b, D, it, default)
    BY <1>3, <1>7 DEF CustomerIn
  <2> QED BY <2>1, <2>2, <2>3
<1> QED BY <1>5, <1>8

(* ... and the scope of the iteration is the same, and only its own.       *)
LEMMA ScopeAlike ==
  ASSUME NEW a, NEW b, NEW it, SameAt(a, b, it), NEW parent, NEW slug, NEW method, NEW who
  PROVE  /\ ScopeIn(CaseTemplate, CaseCard, a, parent, it, slug, method, who)
              = ScopeIn(CaseTemplate, CaseCard, b, parent, it, slug, method, who)
         /\ \A e \in ScopeIn(CaseTemplate, CaseCard, a, parent, it, slug, method, who) : e.id[2] = it
<1>1. PICK A : A = Answered(CaseTemplate, a, parent, it, "scope_value")
  OBVIOUS
<1>2. /\ A = Answered(CaseTemplate, b, parent, it, "scope_value")
      /\ \A k \in A : Given(CaseTemplate, a, k, it) = Given(CaseTemplate, b, k, it)
  BY <1>1, AnsweredAlike
<1>3. PICK P : P = {k \in A : Given(CaseTemplate, a, k, it) > 0}
  OBVIOUS
<1>4. P = {k \in A : Given(CaseTemplate, b, k, it) > 0}
  BY <1>2, <1>3
<1>5. PICK D, U : D = {k \in P : CaseTemplate[k].slug \in Slugs(CaseCard)}
                  /\ U = {k \in P : CaseTemplate[k].slug = ""}
  OBVIOUS
<1>6. P \subseteq Nat
  BY <1>1, <1>3, CaseAssumption DEF Answered
<1>7. U # {} => Min(U) \in U
  BY <1>5, <1>6, FirstOf
<1> DEFINE Row(ans, id, s, k) == [id |-> id, slug |-> s, n |-> Given(CaseTemplate, ans, k, it),
                                  method |-> method, who |-> who]
<1>8. PICK X : X = {Row(a, <<parent, it, CaseTemplate[k].id>>, CaseTemplate[k].slug, k) : k \in D}
  OBVIOUS
<1>9. X = {Row(b, <<parent, it, CaseTemplate[k].id>>, CaseTemplate[k].slug, k) : k \in D}
  BY <1>2, <1>3, <1>5, <1>8
<1>10. PICK Y : Y = IF parent # NoNode /\ U # {} /\ slug \in Slugs(CaseCard)
                    THEN {Row(a, <<parent, it, parent>>, slug, Min(U))} ELSE {}
  OBVIOUS
<1>11. Y = IF parent # NoNode /\ U # {} /\ slug \in Slugs(CaseCard)
           THEN {Row(b, <<parent, it, parent>>, slug, Min(U))} ELSE {}
  BY <1>2, <1>3, <1>5, <1>7, <1>10
<1>12. ScopeIn(CaseTemplate, CaseCard, a, parent, it, slug, method, who) = X \cup Y
  BY <1>1, <1>3, <1>5, <1>8, <1>10 DEF ScopeIn
<1>13. ScopeIn(CaseTemplate, CaseCard, b, parent, it, slug, method, who) = X \cup Y
  BY <1>2, <1>4, <1>5, <1>9, <1>11 DEF ScopeIn
<1>14. \A e \in X : e.id[2] = it
  BY <1>8
<1>15. \A e \in Y : e.id[2] = it
  BY <1>10
<1> QED BY <1>12, <1>13, <1>14, <1>15

(* What an iteration of a loop makes of the answers.                       *)
InLoop(ans, k, it) ==
  ScopeIn(CaseTemplate, CaseCard, ans, CaseTemplate[k].id, it, CaseTemplate[k].slug,
          MethodIn(CaseTemplate, ans, CaseTemplate[k].id, it, TopMethod(CaseTemplate, ans)),
          CustomerIn(CaseTemplate, ans, CaseTemplate[k].id, it, TopWho(CaseTemplate, ans)))
Runs(ans, it) == {k \in DOMAIN CaseTemplate : /\ CaseTemplate[k].type = "loop"
                                              /\ it \in Iterations(ans, CaseTemplate, CaseTemplate[k].id)}

(* The scope of an iteration is what the loops that run it make of it.     *)
LEMMA IterationIs ==
  ASSUME NEW ans, NEW it, it # 0
  PROVE  OfIteration(NormaliseScope(CaseTemplate, CaseCard, ans), it)
           = UNION {InLoop(ans, k, it) : k \in Runs(ans, it)}
<1>1. PICK L, I : /\ L = {k \in DOMAIN CaseTemplate : CaseTemplate[k].type = "loop"}
                  /\ I = {r[2] : r \in DOMAIN ans}
  OBVIOUS
<1>2. PICK Q : Q = {q \in L \X I : q[2] \in Iterations(ans, CaseTemplate, CaseTemplate[q[1]].id)}
  OBVIOUS
<1>3. PICK Z, s, m, w : /\ Z = ScopeIn(CaseTemplate, CaseCard, ans, NoNode, 0, s, m, w)
                        /\ s = "" /\ m = TopMethod(CaseTemplate, ans) /\ w = TopWho(CaseTemplate, ans)
  OBVIOUS
<1>4. NormaliseScope(CaseTemplate, CaseCard, ans) = Z \cup UNION {InLoop(ans, q[1], q[2]) : q \in Q}
  BY <1>1, <1>2, <1>3 DEF NormaliseScope, InLoop
<1>5. \A j : SameAt(ans, ans, j)
  BY DEF SameAt
<1>6. \A e \in Z : e.id[2] # it
  <2>1. SameAt(ans, ans, 0)
    BY <1>5
  <2>2. Z = ScopeIn(CaseTemplate, CaseCard, ans, NoNode, 0, s, m, w)
    BY <1>3, Zenon
  <2>3. \A e \in ScopeIn(CaseTemplate, CaseCard, ans, NoNode, 0, s, m, w) : e.id[2] = 0
    BY <2>1, ScopeAlike
  <2> QED BY <2>2, <2>3
<1>7. \A k, j : \A e \in InLoop(ans, k, j) : e.id[2] = j
  BY <1>5, ScopeAlike DEF InLoop
<1>8. \A k : k \in Runs(ans, it) <=> <<k, it>> \in Q
  <2>1. \A k : k \in Runs(ans, it) <=> k \in L /\ it \in Iterations(ans, CaseTemplate, CaseTemplate[k].id)
    BY <1>1 DEF Runs
  <2>2. \A k : it \in Iterations(ans, CaseTemplate, CaseTemplate[k].id) => it \in I
    BY <1>1 DEF Iterations
  <2>3. \A k : <<k, it>> \in Q <=>
               k \in L /\ it \in I /\ it \in Iterations(ans, CaseTemplate, CaseTemplate[k].id)
    BY <1>2
  <2> QED BY <2>1, <2>2, <2>3
<1>9. ASSUME NEW e, e \in OfIteration(NormaliseScope(CaseTemplate, CaseCard, ans), it)
      PROVE  e \in UNION {InLoop(ans, k, it) : k \in Runs(ans, it)}
  <2>1. e \in NormaliseScope(CaseTemplate, CaseCard, ans) /\ e.id[2] = it
    BY <1>9 DEF OfIteration
  <2>2. PICK q \in Q : e \in InLoop(ans, q[1], q[2])
    BY <1>4, <1>6, <2>1
  <2>3. q[2] = it /\ q = <<q[1], q[2]>>
    BY <1>2, <1>7, <2>1, <2>2
  <2>4. q[1] \in Runs(ans, it)
    BY <1>8, <2>3
  <2> QED BY <2>2, <2>3, <2>4
<1>10. ASSUME NEW k \in Runs(ans, it), NEW e \in InLoop(ans, k, it)
       PROVE  e \in OfIteration(NormaliseScope(CaseTemplate, CaseCard, ans), it)
  <2>1. <<k, it>> \in Q /\ <<k, it>>[1] = k /\ <<k, it>>[2] = it
    BY <1>8
  <2>2. e \in UNION {InLoop(ans, q[1], q[2]) : q \in Q}
    BY <2>1
  <2>3. e.id[2] = it
    BY <1>7
  <2> QED BY <1>4, <2>2, <2>3 DEF OfIteration
<1> QED BY <1>9, <1>10

(* A loop runs for what was answered in it.                                *)
LEMMA IterationsAre ==
  ASSUME NEW ans, NEW it, NEW id
  PROVE  it \in Iterations(ans, CaseTemplate, id) <=>
           \E k \in DOMAIN CaseTemplate : CaseTemplate[k].parent = id /\ <<CaseTemplate[k].id, it>> \in DOMAIN ans
<1>1. ASSUME NEW k \in DOMAIN CaseTemplate, <<CaseTemplate[k].id, it>> \in DOMAIN ans
      PROVE  it \in {p[2] : p \in DOMAIN ans}
  <2>1. PICK p : p = <<CaseTemplate[k].id, it>>
    OBVIOUS
  <2>2. p[2] = it /\ p \in DOMAIN ans
    BY <1>1, <2>1
  <2> QED BY <2>2
<1> QED BY <1>1 DEF Iterations

(* An iteration is what was answered for it and at the top.                *)
LEMMA IterationsHold == IterationsAreApart
<1> SUFFICES ASSUME case.kind = "answers",
                    NEW i \in {p[2] : p \in DOMAIN case.said} \ {0},
                    NEW j \in {p[2] : p \in DOMAIN case.said} \ {0}, i # j
             PROVE  OfIteration(NormaliseScope(CaseTemplate, CaseCard, case.said), i)
                      = OfIteration(NormaliseScope(CaseTemplate, CaseCard,
                          [p \in {q \in DOMAIN case.said : q[2] # j} |-> case.said[p]]), i)
  BY DEF IterationsAreApart
<1>1. PICK a, b : a = case.said /\ b = [p \in {q \in DOMAIN a : q[2] # j} |-> a[p]]
  OBVIOUS
<1>2. SameAt(a, b, i) /\ SameAt(a, b, 0)
  BY <1>1 DEF SameAt
<1>3. TopMethod(CaseTemplate, a) = TopMethod(CaseTemplate, b) /\ TopWho(CaseTemplate, a) = TopWho(CaseTemplate, b)
  BY <1>2, SaidAlike DEF TopMethod, TopWho
<1>4. \A k : InLoop(a, k, i) = InLoop(b, k, i)
  <2> SUFFICES ASSUME NEW k PROVE InLoop(a, k, i) = InLoop(b, k, i)
    OBVIOUS
  <2>1. PICK id, m, w : /\ id = CaseTemplate[k].id
                        /\ m = MethodIn(CaseTemplate, a, id, i, TopMethod(CaseTemplate, a))
                        /\ w = CustomerIn(CaseTemplate, a, id, i, TopWho(CaseTemplate, a))
    OBVIOUS
  <2>2. /\ m = MethodIn(CaseTemplate, b, id, i, TopMethod(CaseTemplate, b))
        /\ w = CustomerIn(CaseTemplate, b, id, i, TopWho(CaseTemplate, b))
    BY <1>2, <1>3, <2>1, SaidAlike
  <2>3. ScopeIn(CaseTemplate, CaseCard, a, id, i, CaseTemplate[k].slug, m, w)
          = ScopeIn(CaseTemplate, CaseCard, b, id, i, CaseTemplate[k].slug, m, w)
    BY <1>2, ScopeAlike
  <2> QED BY <2>1, <2>2, <2>3 DEF InLoop
<1>5. Runs(a, i) = Runs(b, i)
  <2>1. \A id : i \in Iterations(a, CaseTemplate, id) <=>
                  \E k \in DOMAIN CaseTemplate : CaseTemplate[k].parent = id /\ <<CaseTemplate[k].id, i>> \in DOMAIN a
    BY IterationsAre
  <2>2. \A id : i \in Iterations(b, CaseTemplate, id) <=>
                  \E k \in DOMAIN CaseTemplate : CaseTemplate[k].parent = id /\ <<CaseTemplate[k].id, i>> \in DOMAIN b
    BY IterationsAre
  <2>3. \A id : i \in Iterations(a, CaseTemplate, id) <=> i \in Iterations(b, CaseTemplate, id)
    BY <1>2, <2>1, <2>2 DEF SameAt
  <2> QED BY <2>3 DEF Runs
<1>6. PICK F, G, R : /\ R = Runs(a, i) /\ F = [k \in R |-> InLoop(a, k, i)]
                     /\ G = [k \in R |-> InLoop(b, k, i)]
  OBVIOUS
<1>7. F = G
  BY <1>4, <1>6
<1>8. OfIteration(NormaliseScope(CaseTemplate, CaseCard, a), i) = UNION {F[k] : k \in R}
  BY <1>6, IterationIs
<1>9. OfIteration(NormaliseScope(CaseTemplate, CaseCard, b), i) = UNION {G[k] : k \in R}
  BY <1>5, <1>6, IterationIs
<1> QED BY <1>1, <1>7, <1>8, <1>9

-----------------------------------------------------------------------------
(* Every item gets one of the categories.                                  *)
LEMMA ClassifyFits ==
  ASSUME NEW items \in Seq(SomeItems), NEW answers
  PROVE  /\ DOMAIN Classify(items, answers) = DOMAIN items
         /\ \A i \in DOMAIN items : Classify(items, answers)[i] \in Categories
<1>1. PICK n, rough, fine : /\ n = Len(items)
                            /\ rough = [i \in DOMAIN items |-> HeuristicOne(items[i])]
                            /\ fine = ParseLlmBatch(items, answers)
  OBVIOUS
<1>2. n \in Nat /\ DOMAIN items = 1 .. n /\ \A i \in 1 .. n : items[i] \in SomeItems
  BY <1>1
<1>3. PICK said : said = [i \in DOMAIN items |-> {j \in DOMAIN items : /\ items[j].url = items[i].url
                                                                      /\ fine[j] # NoSlug}]
  OBVIOUS
<1>4. Classify(items, answers) = [i \in DOMAIN items |->
         IF said[i] = {} THEN ByUrl(items, rough)[items[i].url] ELSE fine[Max(said[i])]]
  BY <1>1, <1>3 DEF Classify
<1>5. \A i \in 1 .. n : rough[i] \in Categories
  BY <1>1, <1>2, CaseAssumption DEF HeuristicOne
<1>6. \A i \in 1 .. n : fine[i] = NoSlug \/ fine[i] \in Categories
  BY <1>1, <1>2 DEF ParseLlmBatch
<1>7. ASSUME NEW i \in 1 .. n PROVE Classify(items, answers)[i] \in Categories
  <2>1. Classify(items, answers)[i] = IF said[i] = {} THEN ByUrl(items, rough)[items[i].url]
                                      ELSE fine[Max(said[i])]
    BY <1>2, <1>4
  <2>2. CASE said[i] # {}
    <3>1. said[i] \subseteq 1 .. n
      BY <1>2, <1>3
    <3>2. Max(said[i]) \in said[i]
      BY <1>2, <2>2, <3>1, LastOf
    <3>3. fine[Max(said[i])] # NoSlug
      BY <1>2, <1>3, <3>2
    <3> QED BY <1>6, <2>1, <2>2, <3>1, <3>2, <3>3
  <2>3. CASE said[i] = {}
    <3>1. PICK u, S : u = items[i].url /\ S = {j \in DOMAIN items : items[j].url = u}
      OBVIOUS
    <3>2. S \subseteq 1 .. n /\ i \in S
      BY <1>2, <3>1
    <3>3. Max(S) \in S /\ \A j \in S : j <= Max(S)
      BY <1>2, <3>2, LastOf
    <3>4. \E k \in DOMAIN items : items[k].url = u /\ \A j \in DOMAIN items : items[j].url = u => j <= k
      BY <3>1, <3>3
    <3>5. PICK k : k = CHOOSE h \in DOMAIN items :
                          items[h].url = u /\ \A j \in DOMAIN items : items[j].url = u => j <= h
      OBVIOUS
    <3>6. k \in 1 .. n
      BY <1>2, <3>4, <3>5
    <3>7. u \in {items[h].url : h \in DOMAIN items}
      BY <1>2, <3>1
    <3>8. ByUrl(items, rough)[u] = rough[k]
      BY <3>5, <3>7 DEF ByUrl
    <3> QED BY <1>5, <2>1, <2>3, <3>1, <3>6, <3>8
  <2> QED BY <2>2, <2>3
<1> QED BY <1>2, <1>4, <1>7

(* What is found of a sequence in a set is of the set.                     *)
LEMMA FirstInIs ==
  ASSUME NEW seq, DOMAIN seq \subseteq Nat, NEW S
  PROVE  FirstIn(seq, S) = NoSlug \/ FirstIn(seq, S) \in S
<1>1. PICK hits : hits = {i \in DOMAIN seq : seq[i] \in S}
  OBVIOUS
<1>2. hits # {} => Min(hits) \in hits
  BY <1>1, FirstOf
<1>3. FirstIn(seq, S) = IF hits = {} THEN NoSlug ELSE seq[Min(hits)]
  BY <1>1 DEF FirstIn
<1> QED BY <1>1, <1>2, <1>3

(* A picked slug is one of the card.                                       *)
LEMMA SlugPicked ==
  ASSUME NEW c \in Categories, NEW card \in SiteCards, NEW spa \in BOOLEAN
  PROVE  PickSlug(c, card, spa) = NoSlug \/ PickSlug(c, card, spa) \in SlugsOf(card)
<1>1. PICK wanted, hinted :
         /\ wanted = IF spa /\ c \in {"cms", "knowledge_base"} THEN <<"dynamic">> \o Preferred[c] ELSE Preferred[c]
         /\ hinted = [i \in DOMAIN card |-> IF c \in card[i].hints THEN card[i].slug ELSE NoSlug]
  OBVIOUS
<1>2. DOMAIN wanted \subseteq Nat
  <2>1. Len(Preferred[c]) \in Nat /\ DOMAIN Preferred[c] = 1 .. Len(Preferred[c])
    BY CaseAssumption
  <2>2. DOMAIN (<<"dynamic">> \o Preferred[c]) \subseteq Nat
    <3>1. <<"dynamic">> \o Preferred[c]
            = [i \in 1 .. Len(<<"dynamic">>) + Len(Preferred[c]) |->
                 IF i <= Len(<<"dynamic">>) THEN <<"dynamic">>[i] ELSE Preferred[c][i - Len(<<"dynamic">>)]]
      OBVIOUS
    <3> QED BY <3>1
  <2> QED BY <1>1, <2>1, <2>2
<1>3. DOMAIN hinted \subseteq Nat
  BY <1>1, CaseAssumption
<1>4. PickSlug(c, card, spa) = IF FirstIn(wanted, SlugsOf(card)) # NoSlug THEN FirstIn(wanted, SlugsOf(card))
                               ELSE FirstIn(hinted, SlugsOf(card))
  BY <1>1 DEF PickSlug
<1> QED BY <1>2, <1>3, <1>4, FirstInIs

(* What is counted category by category is counted once.                   *)
LEMMA CountedOnce ==
  ASSUME NEW n \in Nat, NEW cats, DOMAIN cats = 1 .. n, NEW C, NEW F,
         C = {c \in Categories : CountOf(cats, c) > 0}, \A i \in 1 .. n : cats[i] \in Categories,
         \A c \in C : F[c].id = c /\ F[c].n = CountOf(cats, c), NEW out, out = {F[c] : c \in C}
  PROVE  SumFunctionOnSet([e \in out |-> e.n], out) = n
<1> DEFINE Here(T) == {i \in 1 .. n : \E e \in T : cats[i] = e.id}
<1>1. IsFiniteSet(1 .. n) /\ Cardinality(1 .. n) = n
  BY FS_Interval
<1>2. \A c : IsFiniteSet({i \in 1 .. n : cats[i] = c}) /\ CountOf(cats, c) = Cardinality({i \in 1 .. n : cats[i] = c})
  <2> SUFFICES ASSUME NEW c
               PROVE  /\ IsFiniteSet({i \in 1 .. n : cats[i] = c})
                      /\ CountOf(cats, c) = Cardinality({i \in 1 .. n : cats[i] = c})
    OBVIOUS
  <2>1. {i \in 1 .. n : cats[i] = c} \in SUBSET (1 .. n)
    OBVIOUS
  <2> QED BY <1>1, <2>1, FS_Subset DEF CountOf
<1>3. \A c : CountOf(cats, c) \in Nat
  <2> SUFFICES ASSUME NEW c PROVE CountOf(cats, c) \in Nat
    OBVIOUS
  <2>1. PICK S : S = {i \in 1 .. n : cats[i] = c}
    OBVIOUS
  <2>2. IsFiniteSet(S) /\ CountOf(cats, c) = Cardinality(S)
    BY <1>2, <2>1
  <2> QED BY <2>2, FS_CardinalityType
<1>4. \A i \in 1 .. n : cats[i] \in C
  <2> SUFFICES ASSUME NEW i \in 1 .. n PROVE cats[i] \in C
    OBVIOUS
  <2>1. PICK S : S = {j \in 1 .. n : cats[j] = cats[i]}
    OBVIOUS
  <2>2. i \in S /\ IsFiniteSet(S) /\ CountOf(cats, cats[i]) = Cardinality(S)
    BY <1>2, <2>1
  <2>3. Cardinality(S) # 0
    BY <2>2, FS_EmptySet
  <2>4. CountOf(cats, cats[i]) > 0
    BY <1>3, <2>2, <2>3
  <2> QED BY <2>4
<1>5. IsFiniteSet(out)
  <2>1. PICK f : f = [i \in 1 .. n |-> F[cats[i]]]
    OBVIOUS
  <2>2. \A c \in C : \E i \in 1 .. n : cats[i] = c
    <3> SUFFICES ASSUME NEW c \in C, \A i \in 1 .. n : cats[i] # c PROVE FALSE
      OBVIOUS
    <3>1. {i \in 1 .. n : cats[i] = c} = {}
      OBVIOUS
    <3>2. CountOf(cats, c) = 0
      BY <1>2, <3>1, FS_EmptySet
    <3> QED BY <3>2
  <2>3. f \in [1 .. n -> out]
    BY <1>4, <2>1
  <2>4. \A e \in out : \E i \in 1 .. n : f[i] = e
    BY <2>1, <2>2
  <2>5. f \in Surjection(1 .. n, out)
    BY <2>3, <2>4 DEF Surjection
  <2> QED BY <1>1, <2>5, FS_Surjection
<1>6. PICK w : w = [e \in out |-> e.n]
  OBVIOUS
<1>7. \A e \in out : e.id \in C /\ e.n = CountOf(cats, e.id) /\ e = F[e.id] /\ w[e] = e.n
  BY <1>6
<1>8. \A e \in out : w[e] \in Int
  BY <1>3, <1>7
<1>9. PICK g : SumsUp(g, w, out) /\ SumFunctionOnSet(w, out) = g[out]
  <2> HIDE DEF Here
  <2>1. \A S : IsFiniteSet(S) /\ (\A x \in S : w[x] \in Int) =>
              \E g : SumsUp(g, w, S) /\ SumFunctionOnSet(w, S) = g[S]
    BY SumOver
  <2> QED BY <1>5, <1>8, <2>1
<1>10. PICK P : P = {T \in SUBSET out : g[T] = Cardinality(Here(T))}
  OBVIOUS
<1>11. {} \in P
  <2>1. Here({}) = {}
    OBVIOUS
  <2>2. g[{}] = 0
    BY <1>9 DEF SumsUp
  <2> QED BY <1>10, <2>1, <2>2, FS_EmptySet
<1>12. ASSUME NEW T \in SUBSET out, T # {}, T \ {Foremost(T)} \in P PROVE T \in P
  <2>1. PICK x, R : x = Foremost(T) /\ R = T \ {x}
    OBVIOUS
  <2>2. x \in T /\ x \in out /\ R \in SUBSET out /\ R \in P /\ T = R \cup {x} /\ x \notin R
    BY <1>12, <2>1 DEF Foremost
  <2>3. g[T] = w[x] + g[R]
    BY <1>9, <1>12, <2>1 DEF SumsUp
  <2>4. PICK A, B : A = {i \in 1 .. n : cats[i] = x.id} /\ B = Here(R)
    OBVIOUS
  <2>5. w[x] = Cardinality(A)
    BY <1>2, <1>7, <2>2, <2>4
  <2>6. g[R] = Cardinality(B)
    BY <1>10, <2>2, <2>4
  <2>7. Here(T) = A \cup B
    BY <2>2, <2>4
  <2>8. A \cap B = {}
    <3>1. \A e \in R : e.id # x.id
      BY <1>7, <2>2
    <3> QED BY <2>4, <3>1
  <2>9. IsFiniteSet(A) /\ IsFiniteSet(B)
    <3>1. A \in SUBSET (1 .. n) /\ B \in SUBSET (1 .. n)
      BY <2>4
    <3> QED BY <1>1, <3>1, FS_Subset
  <2>10. Cardinality(A \cup B) = Cardinality(A) + Cardinality(B)
    <3>1. Cardinality(A \cup B) = Cardinality(A) + Cardinality(B) - Cardinality(A \cap B)
      BY <2>9, FS_Union
    <3>2. Cardinality(A \cap B) = 0 /\ Cardinality(A) \in Nat /\ Cardinality(B) \in Nat
      BY <2>8, <2>9, FS_EmptySet, FS_CardinalityType
    <3> QED BY <3>1, <3>2
  <2>11. g[T] = Cardinality(Here(T))
    BY <2>3, <2>5, <2>6, <2>7, <2>10
  <2> HIDE DEF Here
  <2> QED BY <1>10, <2>11
<1>13. out \in P
  <2> HIDE DEF Here
  <2>1. \A T \in SUBSET out : T # {} /\ T \ {Foremost(T)} \in P => T \in P
    BY <1>12
  <2>2. SUBSET out \subseteq P
    <3>1. \A S : /\ IsFiniteSet(S) /\ {} \in P
                 /\ \A T \in SUBSET S : T # {} /\ T \ {Foremost(T)} \in P => T \in P
                 => SUBSET S \subseteq P
      BY ByForemost
    <3> QED BY <1>5, <1>11, <2>1, <3>1
  <2> QED BY <2>2
<1>14. Here(out) = 1 .. n
  <2>1. \A i \in 1 .. n : F[cats[i]] \in out /\ F[cats[i]].id = cats[i]
    BY <1>4
  <2> QED BY <2>1
<1>15. g[out] = n
  <2> HIDE DEF Here
  <2> QED BY <1>1, <1>10, <1>13, <1>14
<1> QED BY <1>6, <1>9, <1>15

(* Each item that was crawled is counted once, on a line of the card or as *)
(* "other".                                                                *)
LEMMA CrawledHolds == CaseFits => NothingCrawledIsLost
<1> SUFFICES ASSUME CaseFits, case.kind = "items", NEW answers,
                    NEW card \in SiteCards, NEW spa \in BOOLEAN, NEW fields
             PROVE  NothingDisappears(case.one, answers, card, spa, fields)
  BY DEF NothingCrawledIsLost
<1>1. PICK items, n, cats : items = case.one /\ n = Len(items) /\ cats = Classify(items, answers)
  OBVIOUS
<1>2. items \in Seq(SomeItems) /\ n \in Nat /\ DOMAIN items = 1 .. n
  BY <1>1 DEF CaseFits
<1>3. DOMAIN cats = 1 .. n /\ \A i \in 1 .. n : cats[i] \in Categories
  BY <1>1, <1>2, ClassifyFits
<1>4. PICK C : C = Summaries(cats)
  OBVIOUS
<1>5. PICK F : F = [c \in C |-> IF PickSlug(c, card, spa) = NoSlug
                                THEN Entity(c, "other", "other", CountOf(cats, c), AnyMethod)
                                ELSE OnLine(c, card, PickSlug(c, card, spa), CountOf(cats, c))]
  OBVIOUS
<1>6. PICK D : D = MapScope(cats, card, spa, fields) \ {F[c] : c \in C}
  OBVIOUS
<1>7. {F[c] : c \in C} \subseteq MapScope(cats, card, spa, fields)
  BY <1>4, <1>5 DEF MapScope
<1>8. \A e \in D : e.id \in {"web_fields", "api_fields"}
  BY <1>4, <1>5, <1>6 DEF MapScope, OnLine, Entity
<1>9. \A c \in C : /\ c \in Categories /\ F[c].id = c /\ F[c].n = CountOf(cats, c)
                   /\ F[c].slug = "other" \/ F[c].slug \in SlugsOf(card)
  <2> SUFFICES ASSUME NEW c \in C
               PROVE  /\ c \in Categories /\ F[c].id = c /\ F[c].n = CountOf(cats, c)
                      /\ F[c].slug = "other" \/ F[c].slug \in SlugsOf(card)
    OBVIOUS
  <2>1. c \in Categories
    BY <1>4 DEF Summaries
  <2>2. PickSlug(c, card, spa) = NoSlug \/ PickSlug(c, card, spa) \in SlugsOf(card)
    BY <2>1, SlugPicked
  <2> QED BY <1>5, <2>1, <2>2 DEF OnLine, Entity
<1>10. PICK out : out = {e \in MapScope(cats, card, spa, fields) : e.id \in Categories}
  OBVIOUS
<1>11. out = {F[c] : c \in C}
  <2>1. \A e \in D : e.id \notin Categories
    BY <1>8, CaseAssumption
  <2> QED BY <1>6, <1>7, <1>9, <1>10, <2>1
<1>12. SumFunctionOnSet([e \in out |-> e.n], out) = n
  <2>1. C = {c \in Categories : CountOf(cats, c) > 0}
    BY <1>4 DEF Summaries
  <2> QED BY <1>2, <1>3, <1>9, <1>11, <2>1, CountedOnce
<1>13. \A e \in out : e.slug = "other" \/ e.slug \in SlugsOf(card)
  BY <1>9, <1>11
<1> QED BY <1>1, <1>10, <1>12, <1>13 DEF NothingDisappears

-----------------------------------------------------------------------------
(* A case is made of what cases are made of.                               *)
LEMMA CaseFitsNext == CaseFits /\ [CaseNext]_caseVars => CaseFits'
<1> SUFFICES ASSUME CaseFits, [CaseNext]_caseVars PROVE CaseFits'
  OBVIOUS
<1> DEFINE Longer(S) == \/ \E x \in S : case' = [case EXCEPT !.one = Append(case.one, x)]
                        \/ \E x \in S : case' = [case EXCEPT !.two = Append(case.two, x)]
                        \/ \E x \in S : case' = [case EXCEPT !.three = Append(case.three, x)]
<1>1. /\ \A S : Grow("one", S) => \E x \in S : case' = [case EXCEPT !.one = Append(case.one, x)]
      /\ \A S : Grow("two", S) => \E x \in S : case' = [case EXCEPT !.two = Append(case.two, x)]
      /\ \A S : Grow("three", S) => \E x \in S : case' = [case EXCEPT !.three = Append(case.three, x)]
  BY DEF Grow
<1>2. ASSUME case.kind \in {"entities", "sources"}, Longer(SomeEntities) PROVE CaseFits'
  <2>1. /\ case.one \in Seq(SomeEntities) /\ case.two \in Seq(SomeEntities)
        /\ case.three \in Seq(SomeEntities)
    BY <1>2 DEF CaseFits
  <2>2. PICK c : /\ c = [kind |-> case.kind, one |-> case.one, two |-> case.two, three |-> case.three,
                         said |-> case.said]
                 /\ c = case
    BY DEF CaseFits
  <2>3. PICK x \in SomeEntities : \/ case' = [c EXCEPT !.one = Append(c.one, x)]
                                  \/ case' = [c EXCEPT !.two = Append(c.two, x)]
                                  \/ case' = [c EXCEPT !.three = Append(c.three, x)]
    BY <1>2, <2>2
  <2>4. /\ Append(c.one, x) \in Seq(SomeEntities) /\ Append(c.two, x) \in Seq(SomeEntities)
        /\ Append(c.three, x) \in Seq(SomeEntities)
    BY <2>1, <2>2
  <2>5. /\ case'.kind = case.kind
        /\ case'.one \in Seq(SomeEntities) /\ case'.two \in Seq(SomeEntities)
        /\ case'.three \in Seq(SomeEntities)
        /\ case' = [kind |-> case'.kind, one |-> case'.one, two |-> case'.two, three |-> case'.three,
                    said |-> case'.said]
    BY <2>1, <2>2, <2>3, <2>4
  <2> QED BY <1>2, <2>5 DEF CaseFits, Kinds
<1>3. ASSUME NEW k \in {"mentions", "tiers"}, case.kind = k, NEW S,
             S = IF k = "mentions" THEN SomeMentions ELSE SomeTiers,
             \E x \in S : case' = [case EXCEPT !.one = Append(case.one, x)]
      PROVE  CaseFits'
  <2>1. case.one \in Seq(S)
    BY <1>3 DEF CaseFits
  <2>2. PICK c : /\ c = [kind |-> case.kind, one |-> case.one, two |-> case.two, three |-> case.three,
                         said |-> case.said]
                 /\ c = case
    BY DEF CaseFits
  <2>3. PICK x \in S : case' = [c EXCEPT !.one = Append(c.one, x)]
    BY <1>3, <2>2
  <2>4. Append(c.one, x) \in Seq(S)
    BY <2>1, <2>2
  <2>5. /\ case'.kind = case.kind /\ case'.one \in Seq(S)
        /\ case' = [kind |-> case'.kind, one |-> case'.one, two |-> case'.two, three |-> case'.three,
                    said |-> case'.said]
    BY <2>2, <2>3, <2>4
  <2> QED BY <1>3, <2>5 DEF CaseFits, Kinds
<1>4. CASE AddEntity \/ AddSource
  BY <1>1, <1>2, <1>4 DEF AddEntity, AddSource
<1>5. CASE AddMention \/ AddTier
  BY <1>1, <1>3, <1>5 DEF AddMention, AddTier
<1>6. CASE AddItem
  BY <1>6 DEF AddItem, Grow, CaseFits, Kinds
<1>7. CASE GiveAnswer
  BY <1>7 DEF GiveAnswer, CaseFits, Kinds
<1>8. CASE UNCHANGED caseVars
  BY <1>8 DEF caseVars, CaseFits
<1> QED BY <1>4, <1>5, <1>6, <1>7, <1>8 DEF CaseNext

(* A case fits what cases are made of, however it grows.                   *)
THEOREM CaseInvariant == CaseSpec => []CaseFits
<1>1. CaseInit => CaseFits
  BY DEF CaseInit, CaseFits, Kinds
<1> QED BY <1>1, CaseFitsNext, PTL DEF CaseSpec

(* For any card, entities, mentions, tiers, template, answers and items: a *)
(* price is of the scope and not of how it is written down, and of what    *)
(* was named nothing is dropped on its way to the price.                   *)
THEOREM ScopeCorrect == CaseSpec => []ScopeIsPriced
<1>1. CaseFits => ScopeIsPriced
  BY PoolingHolds, TierOrderHolds, MentionOrderHolds, IterationsHold, MergeHolds, CrawledHolds
     DEF ScopeIsPriced, PriceIsOfTheScope, ScopeIsKept
<1> QED BY <1>1, CaseInvariant, PTL

=============================================================================
