-------------------------- MODULE AuditChainProofs --------------------------
(***************************************************************************)
(* For any number of callers, events and engagements: the links of a       *)
(* tenant form one chain of disjoint windows.                              *)
(***************************************************************************)
EXTENDS AuditChain, TLAPS

(* The type invariant is stated here with the windows as plain sets: it is *)
(* all the chain argument needs of it.                                     *)
LEMMA AdvanceType ==
  ASSUME NEW u \in Tx, NEW k \in Nat, NEW q \in Seq(SUBSET Event)
  PROVE  LET t == [u EXCEPT !.i = k, !.prev = q]
         IN  t \in Tx /\ t.op = u.op /\ t.n = u.n /\ t.i = k
BY DEF Tx

(* The tables, the links and every build and verify in flight keep their  *)
(* types, for any number of callers and events.                            *)
THEOREM TypeCorrect == Spec => []TypeOK
<1>1. Init => TypeOK
  <2> SUFFICES ASSUME Init PROVE TypeOK
    OBVIOUS
  <2>1. Idle \in Tx /\ Idle.n = 0 /\ Idle.op = "idle"
    BY DEF Idle, Genesis, Tx
  <2>2. tx \in [Callers -> Tx] /\ \A c \in Callers : tx[c].n = 0 /\ tx[c].op = "idle"
    <3> HIDE DEF Idle
    <3> QED BY <2>1 DEF Init
  <2>3. links \in Seq(Link) /\ Len(links) = 0
    BY DEF Init
  <2> QED BY <2>2, <2>3, ClockAssumption DEF Init, TypeOK
<1>2. TypeOK /\ [Next]_vars => TypeOK'
  <2> SUFFICES ASSUME TypeOK, [Next]_vars PROVE TypeOK'
    OBVIOUS
  <2> USE ClockAssumption
  <2>1. CASE Tick
    BY <2>1 DEF Tick, TypeOK
  <2>2. ASSUME NEW id \in EventIds, NEW g \in Engagements, Emit(id, g) PROVE TypeOK'
    BY <2>2 DEF Emit, TypeOK, Event
  <2>3. ASSUME NEW e \in inserting, Commit(e) \/ Rollback(e) PROVE TypeOK'
    BY <2>3 DEF Commit, Rollback, TypeOK
  <2>4. ASSUME NEW e \in events, Tamper(e) PROVE TypeOK'
    <3>1. e \in Event /\ [e EXCEPT !.body = "rewritten"] \in Event
      BY DEF TypeOK, Event
    <3>2. e.id \in EventIds
      BY <3>1 DEF Event
    <3>3. events' \subseteq Event /\ altered' \subseteq EventIds
      BY <2>4, <3>1, <3>2 DEF Tamper, TypeOK
    <3> QED BY <2>4, <3>3 DEF Tamper, TypeOK
  <2>5. ASSUME NEW g \in Engagements, Remove(g) PROVE TypeOK'
    BY <2>5 DEF Remove, TypeOK
  <2>6. ASSUME NEW c \in Callers, Chain(c) PROVE TypeOK'
    <3> DEFINE Step(t) == tx' = [tx EXCEPT ![c] = t]
    <3>0. ASSUME NEW t \in Tx, Step(t), t.op = "build:write" => t.window # {},
                 t.op = "verify" => t.i \in 1..t.n, t.n <= Len(links),
                 UNCHANGED table, links' \in Seq(Link), Len(links) <= Len(links')
          PROVE  TypeOK'
      <4>1. \A d \in Callers : tx[d].n \in Nat
        BY DEF TypeOK, Tx
      <4>2. Len(links) \in Nat /\ Len(links') \in Nat
        BY <3>0 DEF TypeOK
      <4>3. t.n \in Nat
        BY DEF Tx
      <4> QED BY <3>0, <4>1, <4>2, <4>3 DEF TypeOK, table
    <3>idle. Idle \in Tx /\ Idle.op = "idle" /\ Idle.n = 0
      BY DEF Idle, Genesis, Tx
    <3>c. /\ tx[c] \in Tx /\ links \in Seq(Link) /\ Len(links) \in Nat
          /\ tx[c].n \in Nat /\ tx[c].i \in Nat /\ tx[c].n <= Len(links)
          /\ tx[c].op = "verify" => tx[c].i \in 1..tx[c].n
      BY DEF TypeOK, Tx
    <3>1. CASE BuildBegin(c)
      <4> DEFINE t == [Idle EXCEPT !.op = "build:read", !.n = Len(links)]
      <4>1. t \in Tx /\ t.op = "build:read" /\ t.n = Len(links)
        BY <3>c, <3>idle DEF Tx
      <4>2. Step(t) /\ UNCHANGED table /\ links' \in Seq(Link) /\ Len(links) <= Len(links')
        BY <3>1, <3>c DEF BuildBegin
      <4> HIDE DEF t, Step
      <4> QED BY <4>1, <4>2, <3>0
    <3>2. CASE BuildRead(c)
      <4>1. Fresh(tx[c].n) \in SUBSET Event
        BY DEF Fresh, TypeOK
      <4> DEFINE t == [tx[c] EXCEPT !.op = "build:write", !.window = Fresh(tx[c].n)]
      <4>2. t \in Tx /\ t.window = Fresh(tx[c].n) /\ t.op = "build:write" /\ t.n <= Len(links)
        <5>1. t \in Tx
          BY <3>c, <4>1 DEF Tx
        <5> QED BY <5>1, <3>c DEF Tx
      <4>3. UNCHANGED table /\ links' \in Seq(Link) /\ Len(links) <= Len(links')
        BY <3>2, <3>c DEF BuildRead
      <4>4. CASE Fresh(tx[c].n) = {}
        <5>1. Step(Idle)
          BY <3>2, <4>4 DEF BuildRead
        <5> HIDE DEF Step
        <5> QED BY <5>1, <4>3, <3>0, <3>idle
      <4>5. CASE Fresh(tx[c].n) # {}
        <5>1. Step(t)
          BY <3>2, <4>5 DEF BuildRead
        <5> HIDE DEF Step, t
        <5> QED BY <5>1, <4>2, <4>3, <4>5, <3>0
      <4> QED BY <4>4, <4>5
    <3>3. CASE BuildWrite(c)
      <4>1. links' \in Seq(Link) /\ Len(links) <= Len(links')
        <5>1. CASE Len(links) = tx[c].n
          <6>1. PICK first, last \in tx[c].window : links' = Append(links, NewLink(c, first, last))
            BY <3>3, <5>1 DEF BuildWrite
          <6>2. tx[c].window \in SUBSET Event
            BY <3>c DEF Tx
          <6>3. first.at \in 0..MaxClock /\ last.at \in 0..MaxClock
            BY <6>2 DEF Event
          <6>4. PrevRoot(tx[c].n) \in Seq(SUBSET Event)
            <7>1. CASE tx[c].n = 0
              BY <7>1 DEF PrevRoot, Genesis
            <7>2. CASE tx[c].n # 0
              <8>1. links[tx[c].n] \in Link
                BY <7>2, <3>c
              <8> QED BY <7>2, <8>1 DEF PrevRoot, Link
            <7> QED BY <7>1, <7>2
          <6>5. Root(PrevRoot(tx[c].n), tx[c].window) \in Seq(SUBSET Event)
            BY <6>2, <6>4 DEF Root
          <6>6. NewLink(c, first, last) \in Link
            BY <6>2, <6>3, <6>5 DEF NewLink, Link
          <6> QED BY <6>1, <6>6 DEF TypeOK
        <5>2. CASE Len(links) # tx[c].n
          BY <3>3, <5>2 DEF BuildWrite, TypeOK
        <5> QED BY <5>1, <5>2
      <4>2. Step(Idle) /\ UNCHANGED table
        BY <3>3 DEF BuildWrite
      <4> HIDE DEF Step
      <4> QED BY <4>1, <4>2, <3>0, <3>idle
    <3>4. CASE VerifyBegin(c)
      <4> DEFINE t == [Idle EXCEPT !.op = "verify", !.n = Len(links), !.i = 1,
                                   !.known = altered]
      <4>1. t \in Tx /\ t.op = "verify" /\ t.n = Len(links) /\ t.i \in 1..t.n
        <5>1. altered \in SUBSET EventIds /\ Len(links) # 0
          BY <3>4, <3>c DEF TypeOK, VerifyBegin
        <5> HIDE DEF Idle
        <5>2. t \in Tx /\ t.op = "verify" /\ t.n = Len(links) /\ t.i = 1
          BY <3>c, <3>idle, <5>1 DEF Tx
        <5> HIDE DEF t
        <5> QED BY <5>1, <5>2, <3>c
      <4>2. Step(t) /\ UNCHANGED table /\ links' \in Seq(Link) /\ Len(links) <= Len(links')
        BY <3>4, <3>c DEF VerifyBegin
      <4> HIDE DEF t, Step
      <4> QED BY <4>1, <4>2, <3>0
    <3>5. CASE VerifyLink(c)
      <4>1. CASE VerifyOk(c) \/ VerifyFail(c)
        <5>1. Step(Idle)
          BY <3>5, <4>1 DEF VerifyLink
        <5>2. UNCHANGED table /\ links' \in Seq(Link) /\ Len(links) <= Len(links')
          BY <3>5, <3>c DEF VerifyLink
        <5> HIDE DEF Step
        <5> QED BY <5>1, <5>2, <3>0, <3>idle, <3>c
      <4>2. CASE ~(VerifyOk(c) \/ VerifyFail(c))
        <5> DEFINE t == [tx[c] EXCEPT !.i = tx[c].i + 1, !.prev = links[tx[c].i].root]
        <5>1. Step(t)
          BY <3>5, <4>2 DEF VerifyLink
        <5>4. UNCHANGED table /\ links' \in Seq(Link) /\ Len(links) <= Len(links')
          BY <3>5, <3>c DEF VerifyLink
        <5>2. links[tx[c].i].root \in Seq(SUBSET Event)
          <6>1. tx[c].i \in 1..Len(links)
            BY <3>5, <3>c DEF VerifyLink
          <6>2. links[tx[c].i] \in Link
            BY <6>1, <3>c
          <6> QED BY <6>2 DEF Link
        <5>3. t \in Tx /\ t.op = "verify" /\ t.n <= Len(links) /\ t.i \in 1..t.n
          <6>1. tx[c].i \in 1..tx[c].n /\ tx[c].i # tx[c].n /\ tx[c].n <= Len(links)
            BY <3>5, <4>2 DEF VerifyLink, VerifyOk, VerifyFail, TypeOK
          <6>2. t \in Tx /\ t.op = tx[c].op /\ t.n = tx[c].n /\ t.i = tx[c].i + 1
            <7>1. tx[c].i + 1 \in Nat
              BY <3>c
            <7> QED BY <7>1, <5>2, <3>c, AdvanceType
          <6> QED BY <6>1, <6>2, <3>5, <3>c DEF VerifyLink
        <5> HIDE DEF t, Step
        <5> QED BY <5>1, <5>3, <5>4, <3>0
      <4> QED BY <4>1, <4>2
    <3> QED BY <2>6, <3>1, <3>2, <3>3, <3>4, <3>5 DEF Chain
  <2>7. CASE UNCHANGED vars
    BY <2>7 DEF vars, table, TypeOK
  <2> QED BY <2>1, <2>2, <2>3, <2>4, <2>5, <2>6, <2>7 DEF Next, Writers
<1> QED BY <1>1, <1>2, PTL DEF Spec

-----------------------------------------------------------------------------
(* ChainLinked is not inductive: a build about to insert must have read     *)
(* only events newer than the link it read, which is still there, unchanged.*)
ChainInv ==
  /\ ChainLinked
  /\ \A c \in Callers :
       tx[c].op = "build:write" => \A e \in tx[c].window : e.at > LastTo(tx[c].n)

(* A new last link keeps the chain linked when its window starts after the  *)
(* end of the link before it.                                               *)
LEMMA ExtendChain ==
  ASSUME TypeOK, ChainLinked, NEW l \in Link, links' = Append(links, l),
         l.root = Root(PrevRoot(Len(links)), l.covers),
         l.from <= l.to, LastTo(Len(links)) < l.from
  PROVE  ChainLinked'
<1> DEFINE n == Len(links)
<1>1. links \in Seq(Link) /\ n \in Nat /\ Len(links') = n + 1
  BY DEF TypeOK
<1>2. DOMAIN links = 1..n /\ DOMAIN links' = 1..(n + 1)
  BY <1>1
<1>3. \A i \in 1..n : links'[i] = links[i]
  BY <1>1
<1>4. links'[n + 1] = l
  BY <1>1
<1>5. \A i \in 1..(n + 1) : PrevRoot(i - 1)' = PrevRoot(i - 1)
  BY <1>1, <1>3 DEF PrevRoot
<1>6. ASSUME NEW i \in 1..(n + 1)
      PROVE  links'[i].root = Root(PrevRoot(i - 1)', links'[i].covers)
  <2>1. CASE i = n + 1
    BY <2>1, <1>1, <1>4, <1>5
  <2>2. CASE i # n + 1
    BY <2>2, <1>1, <1>2, <1>3, <1>5 DEF ChainLinked
  <2> QED BY <2>1, <2>2
<1>7. \A i \in 1..n : links[i].from \in Nat /\ links[i].to \in Nat
  <2> SUFFICES ASSUME NEW i \in 1..n PROVE links[i].from \in Nat /\ links[i].to \in Nat
    OBVIOUS
  <2>1. links[i] \in Link
    BY <1>1
  <2> QED BY <2>1, ClockAssumption DEF Link
<1>8. l.from \in Nat /\ l.to \in Nat
  BY ClockAssumption DEF Link
<1>9. ASSUME NEW i \in 1..n PROVE links[i].to < l.from
  <2>1. LastTo(n) = links[n].to
    BY <1>1 DEF LastTo
  <2>2. links[i].to <= links[n].to
    <3>1. CASE i = n
      BY <3>1, <1>7
    <3>2. CASE i < n
      <4>1. n \in 1..n
        BY <1>1
      <4>2. links[i].to < links[n].from
        BY <3>2, <4>1, <1>2 DEF ChainLinked
      <4>3. links[i].from <= links[i].to
        BY <1>2 DEF ChainLinked
      <4>4. links[n].from <= links[n].to
        BY <4>1, <1>2 DEF ChainLinked
      <4> QED BY <4>1, <4>2, <4>4, <1>7
    <3> QED BY <3>1, <3>2, <1>1
  <2> QED BY <2>1, <2>2, <1>1, <1>7, <1>8
<1>10. \A i \in 1..(n + 1) : links'[i].from <= links'[i].to
  BY <1>1, <1>2, <1>3, <1>4 DEF ChainLinked
<1>11. ASSUME NEW i \in 1..(n + 1), NEW j \in 1..(n + 1), i < j
       PROVE  links'[i].to < links'[j].from
  <2>1. i \in 1..n
    BY <1>1, <1>11
  <2>2. CASE j = n + 1
    BY <2>1, <2>2, <1>3, <1>4, <1>9
  <2>3. CASE j # n + 1
    <3>1. j \in 1..n
      BY <1>1, <2>3
    <3> QED BY <2>1, <3>1, <1>2, <1>3, <1>11 DEF ChainLinked
  <2> QED BY <2>2, <2>3
<1> QED BY <1>2, <1>6, <1>10, <1>11 DEF ChainLinked

(* Builds that overlap keep the chain and what each of them has read apart  *)
(* from it: the strengthening of ChainLinked is an invariant.               *)
THEOREM ChainInvariant == Spec => []ChainInv
<1>1. Init => ChainInv
  BY DEF Init, ChainInv, ChainLinked, Idle
<1>2. TypeOK /\ TypeOK' /\ ChainInv /\ [Next]_vars => ChainInv'
  <2> SUFFICES ASSUME TypeOK, TypeOK', ChainInv, [Next]_vars PROVE ChainInv'
    OBVIOUS
  <2>1. ASSUME UNCHANGED <<links, tx>> PROVE ChainInv'
    BY <2>1 DEF ChainInv, ChainLinked, PrevRoot, LastTo, Root, Genesis
  <2>2. ASSUME NEW c \in Callers, UNCHANGED links,
               \A d \in Callers \ {c} : tx'[d] = tx[d],
               tx'[c].op = "build:write" =>
                 \A e \in tx'[c].window : e.at > LastTo(tx'[c].n)
        PROVE  ChainInv'
    BY <2>2 DEF ChainInv, ChainLinked, PrevRoot, LastTo, Root, Genesis
  <2>3. ASSUME NEW c \in Callers, BuildWrite(c), Len(links) = tx[c].n PROVE ChainInv'
    <3> DEFINE n == Len(links)
    <3>1. PICK first, last \in tx[c].window :
            /\ \A e \in tx[c].window : first.at <= e.at /\ e.at <= last.at
            /\ links' = Append(links, NewLink(c, first, last))
      BY <2>3 DEF BuildWrite
    <3>2. /\ links \in Seq(Link) /\ n \in Nat /\ tx[c] \in Tx
          /\ links' \in Seq(Link) /\ Len(links') = n + 1
      BY <3>1 DEF TypeOK
    <3>3. NewLink(c, first, last) \in Link
      <4>1. links'[n + 1] = NewLink(c, first, last) /\ n + 1 \in 1..Len(links')
        BY <3>1, <3>2
      <4> QED BY <4>1, <3>2
    <3>4. first.at <= last.at /\ LastTo(n) < first.at
      <4>1. first \in Event /\ last \in Event
        BY <3>2 DEF Tx
      <4>2. first.at \in Nat /\ last.at \in Nat
        BY <4>1, ClockAssumption DEF Event
      <4>3. first.at > LastTo(n)
        BY <2>3 DEF ChainInv, BuildWrite
      <4> QED BY <3>1, <4>3
    <3>5. ChainLinked'
      <4>1. /\ NewLink(c, first, last).from = first.at
            /\ NewLink(c, first, last).to = last.at
            /\ NewLink(c, first, last).covers = tx[c].window
            /\ NewLink(c, first, last).root = Root(PrevRoot(n), tx[c].window)
        BY <2>3 DEF NewLink
      <4>2. ChainLinked
        BY DEF ChainInv
      <4> QED BY <3>1, <3>3, <3>4, <4>1, <4>2, ExtendChain
    <3>6. ASSUME NEW d \in Callers, tx'[d].op = "build:write",
                 NEW e \in tx'[d].window
          PROVE  e.at > LastTo(tx[d].n)'
      <4>1. d # c
        BY <2>3, <3>6 DEF BuildWrite, Idle, TypeOK
      <4>2. tx'[d] = tx[d]
        BY <2>3, <4>1 DEF BuildWrite, TypeOK
      <4>3. tx[d].n \in Nat /\ tx[d].n <= n
        BY DEF TypeOK, Tx
      <4>4. LastTo(tx[d].n)' = LastTo(tx[d].n)
        BY <3>1, <3>2, <4>2, <4>3 DEF LastTo
      <4> QED BY <3>6, <4>2, <4>4 DEF ChainInv
    <3> QED BY <3>5, <3>6 DEF ChainInv
  <2>4. ASSUME NEW c \in Callers, Chain(c) PROVE ChainInv'
    <3>0. tx \in [Callers -> Tx]
      BY DEF TypeOK
    <3>1. CASE BuildBegin(c)
      BY <3>0, <3>1, <2>2 DEF BuildBegin, Idle
    <3>2. CASE BuildRead(c)
      <4>1. UNCHANGED links /\ \A d \in Callers \ {c} : tx'[d] = tx[d]
        BY <3>0, <3>2 DEF BuildRead
      <4>2. CASE Fresh(tx[c].n) = {}
        BY <3>0, <3>2, <4>1, <4>2, <2>2 DEF BuildRead, Idle
      <4>3. CASE Fresh(tx[c].n) # {}
        <5>1. tx'[c].window = Fresh(tx[c].n) /\ tx'[c].n = tx[c].n
          BY <3>0, <3>2, <4>3 DEF BuildRead, Tx
        <5>2. \A e \in tx'[c].window : e.at > LastTo(tx'[c].n)
          BY <5>1 DEF Fresh
        <5> QED BY <4>1, <5>2, <2>2
      <4> QED BY <4>2, <4>3
    <3>3. CASE BuildWrite(c)
      <4>1. CASE Len(links) = tx[c].n
        BY <3>3, <4>1, <2>3
      <4>2. CASE Len(links) # tx[c].n
        BY <3>0, <3>3, <4>2, <2>2 DEF BuildWrite, Idle
      <4> QED BY <4>1, <4>2
    <3>4. CASE VerifyBegin(c)
      BY <3>0, <3>4, <2>2 DEF VerifyBegin, Idle
    <3>5. CASE VerifyLink(c)
      <4>1. UNCHANGED links /\ \A d \in Callers \ {c} : tx'[d] = tx[d]
        BY <3>0, <3>5 DEF VerifyLink
      <4>2. tx'[c].op # "build:write"
        <5>1. CASE VerifyOk(c) \/ VerifyFail(c)
          BY <3>0, <3>5, <5>1 DEF VerifyLink, Idle
        <5>2. CASE ~(VerifyOk(c) \/ VerifyFail(c))
          <6>1. tx'[c].op = tx[c].op
            BY <3>0, <3>5, <5>2 DEF VerifyLink, Tx
          <6> QED BY <6>1, <3>5 DEF VerifyLink
        <5> QED BY <5>1, <5>2
      <4> QED BY <4>1, <4>2, <2>2
    <3> QED BY <2>4, <3>1, <3>2, <3>3, <3>4, <3>5 DEF Chain
  <2>5. ASSUME Writers \/ (\E g \in Engagements : Remove(g)) \/ UNCHANGED vars
        PROVE  UNCHANGED <<links, tx>>
    BY <2>5 DEF Writers, Tick, Emit, Commit, Rollback, Tamper, Remove, vars
  <2> QED BY <2>1, <2>4, <2>5 DEF Next
<1> QED BY <1>1, <1>2, TypeCorrect, PTL DEF Spec

(* The links hash each other in and their windows are disjoint and in order,*)
(* whatever builds overlap: theorem form of the builds run's ChainLinked.   *)
THEOREM ChainCorrect == Spec => []ChainLinked
<1>1. ChainInv => ChainLinked
  BY DEF ChainInv
<1> QED BY <1>1, ChainInvariant, PTL

-----------------------------------------------------------------------------
(* What a verify that ends well shows.  An event can be in the table, in a  *)
(* link, or in the window a build has read and not written yet.             *)
Hashed(g) == \E i \in DOMAIN links : g \in links[i].covers
InHand(g) == \E c \in Callers : tx[c].op = "build:write" /\ g \in tx[c].window
Cited(g)  == Hashed(g) \/ InHand(g)

(* An id names one event: a row still in the table is the one a link or a   *)
(* build saw, or what a superuser made of it.                               *)
Identity ==
  /\ \A e \in events \cup inserting : e.id \notin unused
  /\ \A g \in Event : Cited(g) => g.id \notin unused
  /\ altered \cap unused = {}
  /\ \A f \in inserting :
       /\ f.id \notin altered
       /\ \A e \in events : e.id # f.id
       /\ \A e \in inserting : e.id = f.id => e = f
       /\ \A g \in Event : Cited(g) => g.id # f.id
  /\ \A e, f \in events : e.id = f.id => e = f
  /\ \A e \in events, g \in Event :
       Cited(g) /\ e.id = g.id => e = g \/ e = [g EXCEPT !.body = "rewritten"]

(* An altered event lies in the sealed period, so no build about to insert  *)
(* a link carries it, and the row that is left of it is in no link.         *)
AlteredApart ==
  /\ \A e \in Event : (e \in events \/ InHand(e)) /\ e.id \in altered =>
       e.at <= LastTo(Len(links))
  /\ \A e \in events : e.id \in altered => ~Hashed(e)

(* The links a verify has passed cover nothing it knew to be altered.       *)
Passed ==
  \A c \in Callers : tx[c].op = "verify" =>
    /\ tx[c].known \subseteq altered
    /\ \A j \in 1..(tx[c].i - 1) : \A e \in links[j].covers : e.id \notin tx[c].known

(* A step of a build or a verify: the table is only read, a window comes    *)
(* from it, and a link from the window of the build that inserts it.        *)
LEMMA ChainMoves ==
  ASSUME TypeOK, NEW c \in Callers, Chain(c)
  PROVE  /\ UNCHANGED table
         /\ \A d \in Callers \ {c} : tx'[d] = tx[d]
         /\ tx'[c].op = "build:write" => tx'[c].window \subseteq events
         /\ \/ links' = links
            \/ /\ tx[c].op = "build:write" /\ tx[c].n = Len(links)
               /\ \E l : links' = Append(links, l) /\ l.covers = tx[c].window
<1>x. tx \in [Callers -> Tx] /\ tx[c] \in Tx
  BY DEF TypeOK
<1>i. Idle.op = "idle"
  BY DEF Idle
<1>1. CASE BuildBegin(c)
  BY <1>1, <1>x DEF BuildBegin, Idle
<1>2. CASE BuildRead(c)
  <2>1. CASE Fresh(tx[c].n) = {}
    BY <1>2, <2>1, <1>x, <1>i DEF BuildRead
  <2>2. CASE Fresh(tx[c].n) # {}
    <3>1. tx'[c].window = Fresh(tx[c].n)
      BY <1>2, <2>2, <1>x DEF BuildRead, Tx
    <3> QED BY <1>2, <2>2, <3>1, <1>x DEF BuildRead, Fresh
  <2> QED BY <2>1, <2>2
<1>3. CASE BuildWrite(c)
  <2>1. /\ UNCHANGED table /\ tx'[c].op = "idle"
        /\ \A d \in Callers \ {c} : tx'[d] = tx[d]
    BY <1>3, <1>x, <1>i DEF BuildWrite
  <2>2. CASE Len(links) = tx[c].n
    <3>1. PICK first, last \in tx[c].window : links' = Append(links, NewLink(c, first, last))
      BY <1>3, <2>2 DEF BuildWrite
    <3>2. NewLink(c, first, last).covers = tx[c].window
      BY DEF NewLink
    <3> QED BY <1>3, <2>1, <2>2, <3>1, <3>2 DEF BuildWrite
  <2>3. CASE Len(links) # tx[c].n
    BY <1>3, <2>1, <2>3 DEF BuildWrite
  <2> QED BY <2>2, <2>3
<1>4. CASE VerifyBegin(c)
  BY <1>4, <1>x DEF VerifyBegin, Idle
<1>5. CASE VerifyLink(c)
  <2>1. CASE VerifyOk(c) \/ VerifyFail(c)
    BY <1>5, <2>1, <1>x, <1>i DEF VerifyLink
  <2>2. CASE ~(VerifyOk(c) \/ VerifyFail(c))
    <3>1. tx'[c].op = tx[c].op
      BY <1>5, <2>2, <1>x DEF VerifyLink, Tx
    <3> QED BY <1>5, <3>1, <1>x DEF VerifyLink
  <2> QED BY <2>1, <2>2
<1> QED BY <1>1, <1>2, <1>3, <1>4, <1>5 DEF Chain

(* What an appended link changes.                                           *)
LEMMA Appended ==
  ASSUME TypeOK, NEW l, links' = Append(links, l)
  PROVE  /\ Len(links) \in Nat /\ Len(links') = Len(links) + 1
         /\ \A i \in 1..Len(links) : links'[i] = links[i]
         /\ links'[Len(links) + 1] = l
         /\ DOMAIN links = 1..Len(links) /\ DOMAIN links' = 1..(Len(links) + 1)
BY DEF TypeOK

LEMMA CitedMoves ==
  ASSUME TypeOK, NEW c \in Callers, Chain(c), NEW g
  PROVE  /\ InHand(g)' => InHand(g) \/ g \in events
         /\ Hashed(g)' => Hashed(g) \/ (tx[c].op = "build:write" /\ tx[c].n = Len(links)
                                         /\ g \in tx[c].window)
<1>1. InHand(g)' => InHand(g) \/ g \in events
  BY ChainMoves DEF InHand
<1>2. CASE links' = links
  BY <1>1, <1>2 DEF Hashed
<1>3. ASSUME tx[c].op = "build:write", tx[c].n = Len(links),
             NEW l, links' = Append(links, l), l.covers = tx[c].window, Hashed(g)'
      PROVE  Hashed(g) \/ g \in tx[c].window
  <2>1. PICK i \in DOMAIN links' : g \in links'[i].covers
    BY <1>3 DEF Hashed
  <2>2. CASE i = Len(links) + 1
    BY <1>3, <2>1, <2>2, Appended
  <2>3. CASE i # Len(links) + 1
    <3>1. i \in DOMAIN links /\ links'[i] = links[i]
      BY <1>3, <2>1, <2>3, Appended
    <3> QED BY <2>1, <3>1 DEF Hashed
  <2> QED BY <2>2, <2>3
<1> QED BY <1>1, <1>2, <1>3, ChainMoves

LEMMA IdentityStep ==
  ASSUME TypeOK, Identity, [Next]_vars
  PROVE  Identity'
<1>c. ASSUME UNCHANGED <<links, tx>> PROVE \A g : Cited(g)' <=> Cited(g)
  BY <1>c DEF Cited, Hashed, InHand
<1>e. events \subseteq Event /\ inserting \subseteq Event
  BY DEF TypeOK
<1>1. CASE Tick \/ UNCHANGED vars
  <2>1. UNCHANGED <<unused, inserting, events, altered, links, tx>>
    BY <1>1 DEF Tick, vars, table
  <2> QED BY <2>1, <1>c DEF Identity
<1>2. ASSUME NEW id \in EventIds, NEW g \in Engagements, Emit(id, g) PROVE Identity'
  <2> DEFINE new == [id |-> id, eng |-> g, at |-> clock, body |-> "written"]
  <2>1. /\ id \in unused /\ unused' = unused \ {id} /\ inserting' = inserting \cup {new}
        /\ new.id = id /\ UNCHANGED <<events, altered, links, tx>>
    BY <1>2 DEF Emit
  <2> HIDE DEF new
  <2> QED BY <2>1, <1>c DEF Identity
<1>3. ASSUME NEW e \in inserting, Commit(e) \/ Rollback(e) PROVE Identity'
  <2>1. /\ inserting' = inserting \ {e} /\ events' \in {events, events \cup {e}}
        /\ UNCHANGED <<unused, altered, links, tx>>
    BY <1>3 DEF Commit, Rollback
  <2> QED BY <2>1, <1>c, <1>e DEF Identity
<1>4. ASSUME NEW g \in Engagements, Remove(g) PROVE Identity'
  <2>1. events' \subseteq events /\ UNCHANGED <<unused, inserting, altered, links, tx>>
    BY <1>4 DEF Remove
  <2> QED BY <2>1, <1>c DEF Identity
<1>5. ASSUME NEW e \in events, Tamper(e) PROVE Identity'
  <2> DEFINE f == [e EXCEPT !.body = "rewritten"]
  <2>1. f.id = e.id /\ e \in Event /\ f \in Event
    BY <1>e DEF Event
  <2>2. /\ altered' \subseteq altered \cup {e.id} /\ UNCHANGED <<unused, inserting, links, tx>>
        /\ \/ events' = events \ {e}
           \/ e.body = "written" /\ events' = (events \ {e}) \cup {f}
    BY <1>5 DEF Tamper
  <2>3. ASSUME e.body = "written", NEW g \in Event, Cited(g), g.id = e.id
        PROVE  f = [g EXCEPT !.body = "rewritten"]
    BY <2>1, <2>3 DEF Identity, Event
  <2> HIDE DEF f
  <2>4. CASE events' = events \ {e}
    BY <2>1, <2>2, <2>4, <1>c DEF Identity
  <2>5. CASE e.body = "written" /\ events' = (events \ {e}) \cup {f}
    <3>1. \A h \in events' : h = f \/ (h \in events /\ h.id # e.id)
      BY <2>5 DEF Identity
    <3>2. \A h, k \in events' : h.id = k.id => h = k
      BY <3>1, <2>1 DEF Identity
    <3>3. \A h \in events', g \in Event :
            Cited(g)' /\ h.id = g.id => h = g \/ h = [g EXCEPT !.body = "rewritten"]
      BY <3>1, <2>1, <2>2, <2>3, <2>5, <1>c DEF Identity
    <3> QED BY <3>1, <3>2, <3>3, <2>1, <2>2, <1>c DEF Identity
  <2> QED BY <2>2, <2>4, <2>5
<1>6. ASSUME NEW c \in Callers, Chain(c) PROVE Identity'
  <2>1. UNCHANGED <<unused, inserting, events, altered>>
    BY <1>6, ChainMoves DEF table
  <2>2. \A g \in Event : Cited(g)' => Cited(g) \/ g \in events
    BY <1>6, CitedMoves DEF Cited, InHand
  <2> QED BY <2>1, <2>2 DEF Identity
<1> QED BY <1>1, <1>2, <1>3, <1>4, <1>5, <1>6 DEF Next, Writers

(* The end of the sealed period only moves on.                              *)
LEMMA LastToGrows ==
  ASSUME TypeOK, TypeOK', ChainLinked', links' = links \/ \E l : links' = Append(links, l)
  PROVE  /\ LastTo(Len(links)) \in Int /\ LastTo(Len(links))' \in Int
         /\ LastTo(Len(links)) <= LastTo(Len(links))'
<1> DEFINE n == Len(links)
<1>1. links \in Seq(Link) /\ n \in Nat /\ links' \in Seq(Link)
  BY DEF TypeOK
<1>2. \A i \in DOMAIN links' : links'[i].from \in Nat /\ links'[i].to \in Nat
  <2> SUFFICES ASSUME NEW i \in DOMAIN links' PROVE links'[i].from \in Nat /\ links'[i].to \in Nat
    OBVIOUS
  <2>1. links'[i] \in Link
    BY <1>1
  <2> QED BY <2>1, ClockAssumption DEF Link
<1>3. CASE links' = links
  <2>1. LastTo(n) \in Int
    BY <1>1, <1>2, <1>3 DEF LastTo
  <2> QED BY <2>1, <1>3 DEF LastTo
<1>4. ASSUME NEW l, links' = Append(links, l)
      PROVE  /\ LastTo(n) \in Int /\ LastTo(n)' \in Int
             /\ LastTo(n) <= LastTo(n)'
  <2>1. /\ Len(links') = n + 1 /\ DOMAIN links' = 1..(n + 1)
        /\ \A i \in 1..n : links'[i] = links[i]
    BY <1>4, Appended
  <2>2. LastTo(n)' = links'[n + 1].to /\ links'[n + 1].from <= links'[n + 1].to
    BY <2>1, <1>1 DEF LastTo, ChainLinked
  <2>3. CASE n = 0
    BY <2>1, <2>2, <2>3, <1>2 DEF LastTo
  <2>4. CASE n # 0
    <3>1. n \in DOMAIN links' /\ LastTo(n) = links'[n].to
      BY <2>1, <2>4, <1>1 DEF LastTo
    <3>2. links'[n].to < links'[n + 1].from
      BY <3>1, <2>1, <1>1 DEF ChainLinked
    <3>3. n + 1 \in DOMAIN links'
      BY <2>1, <1>1
    <3> QED BY <3>1, <3>2, <3>3, <2>2, <1>2
  <2> QED BY <2>3, <2>4
<1> QED BY <1>3, <1>4

LEMMA AlteredStep ==
  ASSUME TypeOK, TypeOK', ChainInv, ChainInv', Identity, AlteredApart, [Next]_vars
  PROVE  AlteredApart'
<1>e. events \subseteq Event /\ inserting \subseteq Event
  BY DEF TypeOK
<1>c. ASSUME UNCHANGED <<links, tx>>
      PROVE  /\ \A g : (InHand(g)' <=> InHand(g)) /\ (Hashed(g)' <=> Hashed(g))
             /\ LastTo(Len(links))' = LastTo(Len(links))
  BY <1>c DEF Hashed, InHand, LastTo
<1>1. ASSUME UNCHANGED <<links, tx, altered>>, events' \subseteq events \cup inserting
      PROVE  AlteredApart'
  BY <1>1, <1>c, <1>e DEF AlteredApart, Identity
<1>2. CASE Tick \/ UNCHANGED vars
  BY <1>1, <1>2 DEF Tick, vars, table
<1>3. ASSUME NEW id \in EventIds, NEW g \in Engagements, Emit(id, g) PROVE AlteredApart'
  BY <1>1, <1>3 DEF Emit
<1>4. ASSUME NEW e \in inserting, Commit(e) \/ Rollback(e) PROVE AlteredApart'
  BY <1>1, <1>4 DEF Commit, Rollback
<1>5. ASSUME NEW g \in Engagements, Remove(g) PROVE AlteredApart'
  BY <1>1, <1>5 DEF Remove
<1>6. ASSUME NEW e \in events, Tamper(e) PROVE AlteredApart'
  <2> DEFINE f == [e EXCEPT !.body = "rewritten"]
  <2>1. f.id = e.id /\ f.at = e.at /\ f.body = "rewritten" /\ e \in Event /\ f \in Event
    BY <1>e DEF Event
  <2>2. /\ altered' = IF e.at <= LastTo(Len(links)) THEN altered \cup {e.id} ELSE altered
        /\ UNCHANGED <<links, tx>>
        /\ \/ events' = events \ {e}
           \/ e.body = "written" /\ events' = (events \ {e}) \cup {f}
    BY <1>6 DEF Tamper
  <2> HIDE DEF f
  <2>3. \A h \in events' : (h = f /\ e.body = "written") \/ (h \in events /\ h.id # e.id)
    BY <2>2 DEF Identity
  <2>4. ASSUME NEW g \in Event, Cited(g), g.id = e.id PROVE g.at = e.at
    BY <2>4 DEF Identity, Event
  <2>5. ASSUME e.body = "written" PROVE ~Cited(f)
    BY <2>1, <2>5 DEF Identity, Event
  <2>6. ASSUME NEW h \in events', h.id \in altered' PROVE ~Hashed(h)'
    BY <2>1, <2>2, <2>3, <2>5, <2>6, <1>c DEF AlteredApart, Cited
  <2>7. ASSUME NEW h \in Event, h \in events' \/ InHand(h)', h.id \in altered'
        PROVE  h.at <= LastTo(Len(links))'
    <3>1. CASE h.id = e.id
      <4>1. h.at = e.at
        BY <2>1, <2>2, <2>3, <2>4, <2>7, <3>1, <1>c DEF Cited
      <4> QED BY <4>1, <3>1, <2>1, <2>2, <2>7, <1>c DEF AlteredApart
    <3>2. CASE h.id # e.id
      <4>1. h.id \in altered /\ (h \in events \/ InHand(h))
        BY <2>1, <2>2, <2>3, <2>7, <3>2, <1>c
      <4> QED BY <4>1, <2>2, <1>c DEF AlteredApart
    <3> QED BY <3>1, <3>2
  <2> QED BY <2>6, <2>7 DEF AlteredApart
<1>7. ASSUME NEW c \in Callers, Chain(c) PROVE AlteredApart'
  <2>1. /\ UNCHANGED <<events, altered>>
        /\ links' = links \/ \E l : links' = Append(links, l)
    BY <1>7, ChainMoves DEF table
  <2>2. /\ LastTo(Len(links)) \in Int /\ LastTo(Len(links))' \in Int
        /\ LastTo(Len(links)) <= LastTo(Len(links))'
    BY <2>1, LastToGrows DEF ChainInv
  <2>3. ASSUME NEW e \in Event, e \in events \/ InHand(e)', e.id \in altered
        PROVE  e.at <= LastTo(Len(links))'
    <3>1. e.at <= LastTo(Len(links)) /\ e.at \in Int
      BY <1>7, <2>3, CitedMoves, ClockAssumption DEF AlteredApart, Event
    <3> QED BY <3>1, <2>2
  <2>4. ASSUME NEW e \in events, e.id \in altered, Hashed(e)' PROVE FALSE
    <3>1. tx[c].op = "build:write" /\ tx[c].n = Len(links) /\ e \in tx[c].window
      BY <1>7, <2>4, CitedMoves DEF AlteredApart
    <3>2. e.at > LastTo(Len(links)) /\ InHand(e)
      BY <3>1 DEF ChainInv, InHand
    <3>3. e.at <= LastTo(Len(links)) /\ e.at \in Int
      BY <2>4, <3>2, <1>e, ClockAssumption DEF AlteredApart, Event
    <3> QED BY <3>2, <3>3, <2>2
  <2> QED BY <2>1, <2>3, <2>4 DEF AlteredApart
<1> QED BY <1>2, <1>3, <1>4, <1>5, <1>6, <1>7 DEF Next, Writers

LEMMA SameLast ==
  ASSUME NEW S, NEW s \in Seq(S), NEW t \in Seq(S), NEW a \in S, NEW b \in S,
         Append(s, a) = Append(t, b)
  PROVE  a = b
<1>1. Len(Append(s, a)) = Len(s) + 1 /\ Len(Append(t, b)) = Len(t) + 1
  OBVIOUS
<1>2. Len(s) = Len(t)
  BY <1>1
<1>3. Append(s, a)[Len(s) + 1] = a /\ Append(t, b)[Len(t) + 1] = b
  OBVIOUS
<1> QED BY <1>2, <1>3

(* A link that reconciles covers rows that are there, as they were sealed.  *)
LEMMA ReconciledIntact ==
  ASSUME TypeOK, ChainInv, AlteredApart, NEW c \in Callers, tx[c].op = "verify",
         Reconciles(c)
  PROVE  \A e \in links[tx[c].i].covers : e.id \notin altered
<1> DEFINE i == tx[c].i
<1>1. /\ i \in DOMAIN links /\ i \in Nat \ {0} /\ i <= Len(links)
      /\ links \in Seq(Link) /\ links[i] \in Link
      /\ tx[c].prev \in Seq(SUBSET Event)
  <2>1. i \in 1..tx[c].n /\ tx[c].n <= Len(links) /\ tx[c].n \in Nat
    BY DEF TypeOK, Tx
  <2>2. links \in Seq(Link) /\ Len(links) \in Nat /\ tx[c] \in Tx
    BY DEF TypeOK
  <2>3. i \in 1..Len(links)
    BY <2>1, <2>2
  <2> QED BY <2>2, <2>3 DEF Tx
<1>2. Append(tx[c].prev, InWindow(i)) = links[i].root
  BY DEF Reconciles, Root
<1>3. links[i].root = Append(PrevRoot(i - 1), links[i].covers)
  BY <1>1 DEF ChainInv, ChainLinked, Root
<1>4. PrevRoot(i - 1) \in Seq(SUBSET Event)
  <2>1. CASE i = 1
    BY <2>1 DEF PrevRoot, Genesis
  <2>2. CASE i # 1
    <3>1. i - 1 \in 1..Len(links) /\ i - 1 # 0
      BY <2>2, <1>1
    <3>2. links[i - 1] \in Link
      BY <3>1, <1>1
    <3> QED BY <3>1, <3>2 DEF PrevRoot, Link
  <2> QED BY <2>1, <2>2
<1>5. links[i].covers \in SUBSET Event /\ InWindow(i) \in SUBSET Event
  BY <1>1 DEF Link, InWindow, TypeOK
<1>6. InWindow(i) = links[i].covers
  <2> HIDE DEF i
  <2> QED BY <1>2, <1>3, <1>4, <1>1, <1>5, SameLast
<1>7. ASSUME NEW e \in links[i].covers PROVE e.id \notin altered
  <2>1. e \in events /\ Hashed(e)
    BY <1>1, <1>6, <1>7 DEF InWindow, Hashed
  <2> QED BY <2>1 DEF AlteredApart
<1> QED BY <1>7

(* What a caller knows to be altered still is, and what is sealed stays so. *)
LEMMA SealedStays ==
  ASSUME TypeOK, [Next]_vars
  PROVE  /\ altered \subseteq altered'
         /\ Len(links) \in Nat
         /\ \A j \in 1..Len(links) : links'[j] = links[j]
<1>0. links \in Seq(Link) /\ Len(links) \in Nat
  BY DEF TypeOK
<1>1. ASSUME NEW c \in Callers, Chain(c)
      PROVE  altered' = altered /\ \A j \in 1..Len(links) : links'[j] = links[j]
  <2>1. altered' = altered
    BY <1>1, ChainMoves DEF table
  <2>2. links' = links \/ \E l : links' = Append(links, l)
    BY <1>1, ChainMoves
  <2> QED BY <2>1, <2>2, Appended
<1>2. ASSUME Writers \/ (\E g \in Engagements : Remove(g)) \/ UNCHANGED vars
      PROVE  altered \subseteq altered' /\ links' = links
  BY <1>2 DEF Writers, Tick, Emit, Commit, Rollback, Tamper, Remove, vars, table
<1> QED BY <1>0, <1>1, <1>2 DEF Next

LEMMA PassedStep ==
  ASSUME TypeOK, ChainInv, AlteredApart, Passed, [Next]_vars
  PROVE  Passed'
<1>0. /\ altered \subseteq altered'
      /\ \A j \in 1..Len(links) : links'[j] = links[j]
  BY SealedStays
<1>t. \A d \in Callers : /\ tx[d] \in Tx /\ tx[d].n <= Len(links)
                         /\ tx[d].op = "verify" => tx[d].i \in 1..tx[d].n
                         /\ tx[d].n \in Nat /\ Len(links) \in Nat
  BY DEF TypeOK, Tx
<1>1. ASSUME NEW d \in Callers, tx'[d] = tx[d], tx[d].op = "verify"
      PROVE  /\ tx'[d].known \subseteq altered'
             /\ \A j \in 1..(tx'[d].i - 1) :
                  \A e \in links'[j].covers : e.id \notin tx'[d].known
  <2>1. tx[d].known \subseteq altered'
    BY <1>0, <1>1 DEF Passed
  <2>2. ASSUME NEW j \in 1..(tx[d].i - 1) PROVE links'[j] = links[j]
    <3>1. j \in 1..Len(links)
      BY <1>1, <1>t, <2>2
    <3> QED BY <3>1, <1>0
  <2> QED BY <2>1, <2>2, <1>1 DEF Passed
<1>2. ASSUME NEW c \in Callers, Chain(c),
             tx'[c].op = "verify" =>
               /\ tx'[c].known \subseteq altered'
               /\ \A j \in 1..(tx'[c].i - 1) :
                    \A e \in links'[j].covers : e.id \notin tx'[c].known
      PROVE  Passed'
  <2>1. \A d \in Callers \ {c} : tx'[d] = tx[d]
    BY <1>2, ChainMoves
  <2> QED BY <2>1, <1>1, <1>2 DEF Passed
<1>3. ASSUME Writers \/ (\E g \in Engagements : Remove(g)) \/ UNCHANGED vars
      PROVE  Passed'
  <2>1. tx' = tx
    BY <1>3 DEF Writers, Tick, Emit, Commit, Rollback, Tamper, Remove, vars
  <2> QED BY <2>1, <1>1 DEF Passed
<1>4. ASSUME NEW c \in Callers, Chain(c) PROVE Passed'
  <2>x. tx \in [Callers -> Tx] /\ tx[c] \in Tx
    BY DEF TypeOK
  <2>i. Idle.op = "idle"
    BY DEF Idle
  <2>1. CASE BuildBegin(c)
    BY <1>2, <1>4, <2>1, <2>x DEF BuildBegin, Idle
  <2>2. CASE BuildRead(c)
    <3>1. tx'[c].op \in {"idle", "build:write"}
      <4>1. CASE Fresh(tx[c].n) = {}
        BY <2>2, <4>1, <2>x, <2>i DEF BuildRead
      <4>2. CASE Fresh(tx[c].n) # {}
        BY <2>2, <4>2, <2>x DEF BuildRead, Tx
      <4> QED BY <4>1, <4>2
    <3> QED BY <1>2, <1>4, <3>1
  <2>3. CASE BuildWrite(c)
    BY <1>2, <1>4, <2>3, <2>x, <2>i DEF BuildWrite
  <2>4. CASE VerifyBegin(c)
    <3>1. tx'[c].known = altered /\ tx'[c].i = 1
      BY <2>4, <2>x DEF VerifyBegin, Idle
    <3> QED BY <1>2, <1>4, <3>1, <1>0
  <2>5. CASE VerifyLink(c)
    <3>1. CASE VerifyOk(c) \/ VerifyFail(c)
      BY <1>2, <1>4, <2>5, <3>1, <2>x, <2>i DEF VerifyLink
    <3>2. CASE ~(VerifyOk(c) \/ VerifyFail(c))
      <4>1. /\ tx[c].op = "verify" /\ Reconciles(c)
            /\ tx'[c] = [tx[c] EXCEPT !.i = tx[c].i + 1, !.prev = links[tx[c].i].root]
        BY <2>5, <3>2, <2>x DEF VerifyLink, VerifyFail
      <4>2. tx'[c].known = tx[c].known /\ tx'[c].i = tx[c].i + 1
        BY <4>1, <2>x DEF Tx
      <4>3. links' = links
        BY <2>5 DEF VerifyLink
      <4>4. \A e \in links[tx[c].i].covers : e.id \notin tx[c].known
        BY <4>1, ReconciledIntact DEF Passed
      <4>5. ASSUME NEW j \in 1..tx[c].i, NEW e \in links[j].covers
            PROVE  e.id \notin tx[c].known
        <5>1. tx[c].i \in Nat
          BY <2>x DEF Tx
        <5>2. CASE j = tx[c].i
          BY <5>2, <4>4, <4>5
        <5>3. CASE j # tx[c].i
          BY <5>1, <5>3, <4>1, <4>5 DEF Passed
        <5> QED BY <5>2, <5>3
      <4>6. tx'[c].i - 1 = tx[c].i
        BY <4>2, <2>x DEF Tx
      <4>7. tx'[c].known \subseteq altered'
        BY <4>1, <4>2, <1>0 DEF Passed
      <4>8. \A j \in 1..(tx'[c].i - 1) :
              \A e \in links'[j].covers : e.id \notin tx'[c].known
        <5>1. \A j \in 1..tx[c].i :
                \A e \in links[j].covers : e.id \notin tx[c].known
          BY <4>5
        <5> QED BY <5>1, <4>2, <4>3, <4>6
      <4> QED BY <1>2, <1>4, <4>7, <4>8
    <3> QED BY <3>1, <3>2
  <2> QED BY <1>4, <2>1, <2>2, <2>3, <2>4, <2>5 DEF Chain
<1> QED BY <1>3, <1>4 DEF Next

(* Whatever writers, deletes, superusers, builds and verifies interleave:   *)
(* ids name one event, altered events stay apart from the links and from    *)
(* builds in flight, and a verify has passed no link it knew to be altered. *)
THEOREM VerifyInvariant == Spec => [](Identity /\ AlteredApart /\ Passed)
<1>1. Init => Identity /\ AlteredApart /\ Passed
  <2> SUFFICES ASSUME Init PROVE Identity /\ AlteredApart /\ Passed
    OBVIOUS
  <2>1. /\ \A c \in Callers : tx[c].op = "idle"
        /\ \A g : ~Cited(g)
    <3>1. \A c \in Callers : tx[c].op = "idle"
      BY DEF Init, Idle
    <3>2. DOMAIN links = {}
      BY DEF Init
    <3> QED BY <3>1, <3>2 DEF Cited, Hashed, InHand
  <2> QED BY <2>1 DEF Init, Identity, AlteredApart, Passed
<1>2. /\ TypeOK /\ TypeOK' /\ ChainInv /\ ChainInv'
      /\ Identity /\ AlteredApart /\ Passed /\ [Next]_vars
      => Identity' /\ AlteredApart' /\ Passed'
  BY IdentityStep, AlteredStep, PassedStep
<1> QED BY <1>1, <1>2, TypeCorrect, ChainInvariant, PTL DEF Spec

(* A verify that ends well checked only links none of whose events it knew  *)
(* to be altered: theorem form of the verify run's VerifyExposesTampering.  *)
THEOREM TamperingExposed == Spec => VerifyExposesTampering
<1> DEFINE Exposed == \A c \in Callers : VerifyLink(c) /\ VerifyOk(c) =>
              \A i \in 1..tx[c].n : \A e \in links[i].covers : e.id \notin tx[c].known
<1>1. TypeOK /\ ChainInv /\ AlteredApart /\ Passed => Exposed
  <2> SUFFICES ASSUME TypeOK, ChainInv, AlteredApart, Passed,
                      NEW c \in Callers, VerifyOk(c),
                      NEW i \in 1..tx[c].n, NEW e \in links[i].covers
               PROVE  e.id \notin tx[c].known
    OBVIOUS
  <2>1. tx[c].op = "verify" /\ Reconciles(c) /\ tx[c].i = tx[c].n /\ tx[c].n \in Nat
    BY DEF VerifyOk, TypeOK, Tx
  <2>2. CASE i = tx[c].i
    BY <2>1, <2>2, ReconciledIntact DEF Passed
  <2>3. CASE i # tx[c].i
    <3>1. i \in 1..(tx[c].i - 1)
      BY <2>1, <2>3
    <3> QED BY <2>1, <3>1 DEF Passed
  <2> QED BY <2>2, <2>3
<1> QED BY <1>1, TypeCorrect, ChainInvariant, VerifyInvariant, PTL DEF Spec, VerifyExposesTampering
=============================================================================
