----------------------------- MODULE AuditChain -----------------------------
(***************************************************************************)
(* The audit hash chain of one tenant (apps/api/src/audit/): build() seals *)
(* the thread events newer than the last link into a new link, verify()    *)
(* re-derives every stored link.  Every query filters by tenant, so the    *)
(* chains of two tenants never touch each other.                           *)
(*                                                                         *)
(* Both run READ COMMITTED, one statement at a time, beside handlers that  *)
(* stamp created_at when they insert an event and make it visible only     *)
(* when they commit.  sha256 is taken as collision free: a root is the     *)
(* sequence of the event lists hashed into it, and since the lists are     *)
(* sorted by (created_at, id) each list stands for its set.                *)
(***************************************************************************)
EXTENDS Integers, Sequences, FiniteSets

CONSTANTS
  EventIds,     \* ids thread events may get
  Engagements,  \* opportunities of the tenant
  Callers,      \* requests or cron runs that may build or verify at once
  MaxClock,     \* bound on the created_at clock
  Tampering     \* may a superuser rewrite a stored event?

ASSUME ClockAssumption     == MaxClock \in Nat
ASSUME TamperingAssumption == Tampering \in BOOLEAN

VARIABLES
  clock,      \* created_at of the next insert, in milliseconds
  unused,     \* uuids not drawn yet
  live,       \* engagements not removed
  inserting,  \* events stamped by a transaction that has not committed
  events,     \* thread_events as a reader sees it
  links,      \* audit_chain_links, by sequence
  tx,         \* what each build or verify in flight has read
  altered     \* history: ids of events of a sealed period a superuser rewrote

table == <<clock, unused, live, inserting, events, altered>>
vars  == <<table, links, tx>>

-----------------------------------------------------------------------------
Genesis   == <<>>
Event     == [id : EventIds, eng : Engagements, at : 0..MaxClock,
              body : {"written", "rewritten"}]
LastTo(n) == IF n = 0 THEN -1 ELSE links[n].to
PrevRoot(n) == IF n = 0 THEN Genesis ELSE links[n].root

(* computeRoot: the previous root with the events of this window.          *)
Root(prev, window) == Append(prev, window)

Sealed == UNION {links[i].covers : i \in DOMAIN links}

Idle == [op |-> "idle", n |-> 0, i |-> 0, window |-> {}, prev |-> Genesis,
         known |-> {}]

Init ==
  /\ clock = 0
  /\ unused = EventIds
  /\ live = Engagements
  /\ inserting = {} /\ events = {} /\ altered = {}
  /\ links = <<>>
  /\ tx = [c \in Callers |-> Idle]

-----------------------------------------------------------------------------
(* The writers: emitWithin inside a handler's transaction, then its commit *)
(* or rollback; the hard delete of an engagement, which cascades to its    *)
(* events and waits for inserts that reference it.                         *)
Tick ==
  /\ clock < MaxClock
  /\ clock' = clock + 1
  /\ UNCHANGED <<unused, live, inserting, events, altered, links, tx>>

Emit(id, g) ==
  /\ clock < MaxClock
  /\ g \in live
  /\ id \in unused
  /\ unused' = unused \ {id}
  /\ inserting' = inserting \cup {[id |-> id, eng |-> g, at |-> clock, body |-> "written"]}
  /\ UNCHANGED <<clock, live, events, altered, links, tx>>

Commit(e) ==
  /\ e \in inserting
  /\ inserting' = inserting \ {e}
  /\ events' = events \cup {e}
  /\ UNCHANGED <<clock, unused, live, altered, links, tx>>

Rollback(e) ==
  /\ e \in inserting
  /\ inserting' = inserting \ {e}
  /\ UNCHANGED <<clock, unused, live, events, altered, links, tx>>

Remove(g) ==
  /\ g \in live
  /\ \A e \in inserting : e.eng # g
  /\ live' = live \ {g}
  /\ events' = {e \in events : e.eng # g}
  /\ UNCHANGED <<clock, unused, inserting, altered, links, tx>>

(* What the chain is for: history rewritten behind the application's back. *)
Tamper(e) ==
  /\ Tampering
  /\ e \in events
  /\ altered' = IF e.at <= LastTo(Len(links)) THEN altered \cup {e.id} ELSE altered
  /\ \/ events' = events \ {e}
     \/ /\ e.body = "written"
        /\ events' = (events \ {e}) \cup {[e EXCEPT !.body = "rewritten"]}
  /\ UNCHANGED <<clock, unused, live, inserting, links, tx>>

-----------------------------------------------------------------------------
(* build(): the last link, then the events strictly newer than it, then    *)
(* the insert, which the unique (tenant, sequence) index may refuse.       *)
BuildBegin(c) ==
  /\ tx[c].op = "idle"
  /\ tx' = [tx EXCEPT ![c] = [Idle EXCEPT !.op = "build:read", !.n = Len(links)]]
  /\ UNCHANGED <<table, links>>

Fresh_OneMillisecondLater(n) == {e \in events : e.at > LastTo(n) + 1}
Fresh(n) == {e \in events : e.at > LastTo(n)}

BuildRead(c) ==
  /\ tx[c].op = "build:read"
  /\ tx' = [tx EXCEPT ![c] =
       IF Fresh(tx[c].n) = {} THEN Idle
       ELSE [tx[c] EXCEPT !.op = "build:write", !.window = Fresh(tx[c].n)]]
  /\ UNCHANGED <<table, links>>

NewLink(c, first, last) ==
  [from |-> first.at, to |-> last.at, covers |-> tx[c].window,
   root |-> Root(PrevRoot(tx[c].n), tx[c].window)]

BuildWrite_NoUniqueIndex(c) ==
  /\ tx[c].op = "build:write"
  /\ \E first, last \in tx[c].window :
       /\ \A e \in tx[c].window : first.at <= e.at /\ e.at <= last.at
       /\ links' = Append(links, NewLink(c, first, last))
  /\ tx' = [tx EXCEPT ![c] = Idle]
  /\ UNCHANGED table

BuildWrite(c) ==
  /\ tx[c].op = "build:write"
  /\ IF Len(links) = tx[c].n
     THEN \E first, last \in tx[c].window :
            /\ \A e \in tx[c].window : first.at <= e.at /\ e.at <= last.at
            /\ links' = Append(links, NewLink(c, first, last))
     ELSE links' = links
  /\ tx' = [tx EXCEPT ![c] = Idle]
  /\ UNCHANGED table

-----------------------------------------------------------------------------
(* verify(): the links, then one query per link over its closed window,    *)
(* stopping at the first that does not reconcile.                          *)
VerifyBegin(c) ==
  /\ tx[c].op = "idle"
  /\ links # <<>>
  /\ tx' = [tx EXCEPT ![c] = [Idle EXCEPT !.op = "verify", !.n = Len(links),
                                 !.i = 1, !.known = altered]]
  /\ UNCHANGED <<table, links>>

InWindow_HalfOpen(i) == {e \in events : links[i].from <= e.at /\ e.at < links[i].to}
InWindow(i) == {e \in events : links[i].from <= e.at /\ e.at <= links[i].to}

Reconciles_CountOnly(c) ==
  LET i == tx[c].i IN Cardinality(InWindow(i)) = Cardinality(links[i].covers)
Reconciles(c) ==
  LET i == tx[c].i
  IN  /\ Cardinality(InWindow(i)) = Cardinality(links[i].covers)
      /\ Root(tx[c].prev, InWindow(i)) = links[i].root

VerifyOk(c)   == tx[c].op = "verify" /\ Reconciles(c) /\ tx[c].i = tx[c].n
VerifyFail(c) == tx[c].op = "verify" /\ ~Reconciles(c)

VerifyLink(c) ==
  /\ tx[c].op = "verify"
  /\ tx' = [tx EXCEPT ![c] =
       IF VerifyOk(c) \/ VerifyFail(c) THEN Idle
       ELSE [tx[c] EXCEPT !.i = tx[c].i + 1, !.prev = links[tx[c].i].root]]
  /\ UNCHANGED <<table, links>>

-----------------------------------------------------------------------------
Writers ==
  \/ Tick
  \/ \E id \in EventIds, g \in Engagements : Emit(id, g)
  \/ \E e \in inserting : Commit(e) \/ Rollback(e)
  \/ \E e \in events : Tamper(e)

Chain(c) ==
  \/ BuildBegin(c) \/ BuildRead(c) \/ BuildWrite(c)
  \/ VerifyBegin(c) \/ VerifyLink(c)

Next ==
  \/ Writers
  \/ \E g \in Engagements : Remove(g)
  \/ \E c \in Callers : Chain(c)

Spec == Init /\ [][Next]_vars

(* Nobody removes an engagement: what is left are inserts in flight.       *)
SpecKept == Init /\ [][Writers \/ \E c \in Callers : Chain(c)]_vars

(* A quiet hour: no insert in flight when a build reads its events, and    *)
(* the clock past the newest of them.                                      *)
Quiet == inserting = {} /\ \A e \in events : e.at < clock
NextQuiet ==
  \/ Writers
  \/ \E c \in Callers :
       \/ Chain(c) /\ ~BuildRead(c)
       \/ Quiet /\ BuildRead(c)

SpecQuiet == Init /\ [][NextQuiet]_vars

-----------------------------------------------------------------------------
Link == [from : 0..MaxClock, to : 0..MaxClock, covers : SUBSET Event,
         root : Seq(SUBSET Event)]

Tx == [op : {"idle", "build:read", "build:write", "verify"}, n : Nat, i : Nat,
       window : SUBSET Event, prev : Seq(SUBSET Event), known : SUBSET EventIds]

(* The columns, and what a caller has in hand: in particular a build about *)
(* to insert a link has at least one event for it.                         *)
TypeOK ==
  /\ clock \in 0..MaxClock
  /\ unused \subseteq EventIds /\ live \subseteq Engagements
  /\ inserting \subseteq Event /\ events \subseteq Event
  /\ altered \subseteq EventIds
  /\ links \in Seq(Link)
  /\ tx \in [Callers -> Tx]
  /\ \A c \in Callers :
       /\ tx[c].n <= Len(links)
       /\ tx[c].op = "build:write" => tx[c].window # {}
       /\ tx[c].op = "verify" => tx[c].i \in 1..tx[c].n

(* However builds from the cron and from the admin's button overlap, each  *)
(* link hashes in the root before it and its window lies wholly after      *)
(* every earlier one, so no event can be sealed twice.                     *)
ChainLinked ==
  /\ \A i \in DOMAIN links :
       /\ links[i].root = Root(PrevRoot(i - 1), links[i].covers)
       /\ links[i].from <= links[i].to
  /\ \A i, j \in DOMAIN links : i < j => links[i].to < links[j].from

(* audit.service.ts: "the first mismatch identifies which link diverged": a *)
(* verify that ends well had no event sealed by a link it checked altered   *)
(* before it began.                                                         *)
VerifyExposesTampering ==
  [][\A c \in Callers : VerifyLink(c) /\ VerifyOk(c) =>
        \A i \in 1..tx[c].n : \A e \in links[i].covers : e.id \notin tx[c].known]_vars

(* Without a superuser at work and with builds in quiet hours, verify never *)
(* raises a divergence.                                                     *)
NoDivergence ==
  [][\A c \in Callers : VerifyLink(c) => ~VerifyFail(c)]_vars

(* With builds in quiet hours every committed event ends in the chain.      *)
EveryEventSealed ==
  \A id \in EventIds :
    (\E e \in events : e.id = id) ~> (\E e \in Sealed : e.id = id)

(* audit.service.ts: "a successful verify is durable proof that the audit   *)
(* trail wasn't mutated": no event older than the newest link's end had     *)
(* been altered before a verify that ends well began.                       *)
VerifyProvesTrail ==
  [][\A c \in Callers : VerifyLink(c) /\ VerifyOk(c) =>
        \A e \in events : e.at < links[tx[c].n].from => e.id \notin tx[c].known]_vars
=============================================================================
