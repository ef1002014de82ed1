-------------------------- MODULE IngestionProofs --------------------------
(***************************************************************************)
(* For any number of artifacts, opportunities and requests, dying anywhere *)
(* and deleted at any time: a mail is one artifact, an artifact is in the  *)
(* files of the opportunity it points at, and an opportunity comes out of  *)
(* an import whole or by the death of the request that made it.            *)
(***************************************************************************)
EXTENDS Ingestion, FiniteSetTheorems, TLAPS

(* The fields that a guard or an update names, without the records.        *)
LEMMA RowsTyped ==
  ASSUME IngestionTypeOK
  PROVE  /\ \A a \in Arts : iArt[a] \in ArtRow /\ iArt[a].deal \in Deals \cup {NoDeal}
         /\ \A d \in Deals : iDeal[d] \in DealRow
         /\ \A r \in Reqs : /\ iReq[r] \in ReqRow /\ iReq[r].ids \subseteq Arts
                            /\ iReq[r].deal \in Deals \cup {NoDeal}
                            /\ iReq[r].ext \in Mails \cup {NoId} /\ iReq[r].content \in BOOLEAN
BY DEF IngestionTypeOK, ArtRow, ReqRow

(* The initial rows are rows.                                              *)
LEMMA BlankRows ==
  NoArt \in ArtRow /\ NoRow \in DealRow /\ IdleReq \in ReqRow
BY DEF NoArt, NoRow, IdleReq, ArtRow, DealRow, ReqRow

ArtsTyped ==
  iArt \in [Arts -> ArtRow] /\ \A a \in Arts : iArt[a].status = "none" => iArt[a] = NoArt
DealsTyped ==
  iDeal \in [Deals -> DealRow] /\ \A d \in Deals : iDeal[d].st = "none" => iDeal[d] = NoRow
ReqsTyped ==
  /\ iReq \in [Reqs -> ReqRow]
  /\ \A r \in Reqs : iReq[r].pc \in {"attach", "kickoff"} => iReq[r].deal \in Deals

(* Rows that agree on every column are equal.                              *)
LEMMA SameRows ==
  /\ \A v, w \in DealRow : v.st = w.st /\ v.files = w.files /\ v.extra = w.extra
                            /\ v.event = w.event /\ v.kicked = w.kicked => v = w
  /\ \A v, w \in ArtRow : v.status = w.status /\ v.ext = w.ext /\ v.content = w.content
                           /\ v.deal = w.deal => v = w
BY DEF DealRow, ArtRow

(* The type invariant, table by table.                                     *)
LEMMA TablesTyped ==
  IngestionTypeOK <=> ArtsTyped /\ DealsTyped /\ ReqsTyped /\ iDeleted \in 0..Deletions
BY DEF IngestionTypeOK, ArtsTyped, DealsTyped, ReqsTyped

(* A row of a table is replaced.                                           *)
LEMMA ReqWritten ==
  ASSUME ReqsTyped, NEW r \in Reqs, NEW q \in ReqRow, iReq' = [iReq EXCEPT ![r] = q],
         q.pc \in {"attach", "kickoff"} => q.deal \in Deals
  PROVE  ReqsTyped' /\ iReq'[r] = q /\ \A s \in Reqs \ {r} : iReq'[s] = iReq[s]
<1>1. iReq' \in [Reqs -> ReqRow] /\ iReq'[r] = q /\ \A s \in Reqs \ {r} : iReq'[s] = iReq[s]
  BY DEF ReqsTyped
<1> QED BY <1>1 DEF ReqsTyped

LEMMA DealWritten ==
  ASSUME DealsTyped, NEW d \in Deals, NEW v \in DealRow, iDeal' = [iDeal EXCEPT ![d] = v],
         v.st # "none"
  PROVE  DealsTyped' /\ iDeal'[d] = v /\ \A e \in Deals \ {d} : iDeal'[e] = iDeal[e]
<1>1. iDeal' \in [Deals -> DealRow] /\ iDeal'[d] = v /\ \A e \in Deals \ {d} : iDeal'[e] = iDeal[e]
  BY DEF DealsTyped
<1> QED BY <1>1 DEF DealsTyped

LEMMA ArtWritten ==
  ASSUME ArtsTyped, NEW a \in Arts, NEW row \in ArtRow, Insert(a, row), row.status # "none"
  PROVE  ArtsTyped' /\ iArt'[a] = row /\ \A b \in Arts \ {a} : iArt'[b] = iArt[b]
<1>1. iArt' \in [Arts -> ArtRow] /\ iArt'[a] = row /\ \A b \in Arts \ {a} : iArt'[b] = iArt[b]
  BY DEF ArtsTyped, Insert
<1> QED BY <1>1 DEF ArtsTyped

(* A step of a request changes where it is and nothing else.               *)
LEMMA MovesTyped ==
  ASSUME NEW q \in ReqRow, NEW pc \in {"idle", "receive", "insert", "check", "create", "attach",
                                      "kickoff", "done", "failed"}
  PROVE  [q EXCEPT !.pc = pc] \in ReqRow /\ [q EXCEPT !.pc = pc].pc = pc
         /\ [q EXCEPT !.pc = pc].deal = q.deal
BY DEF ReqRow

(* The columns keep their types; a row that is not there says nothing, and *)
(* a request that created an opportunity knows which.                      *)
THEOREM IngestionTypes == IngestionSpec => []IngestionTypeOK
<1>1. IngestionInit => IngestionTypeOK
  <2> SUFFICES ASSUME IngestionInit PROVE IngestionTypeOK
    OBVIOUS
  <2>1. IdleReq.pc = "idle"
    BY DEF IdleReq
  <2> QED BY <2>1, BlankRows, IngestionAssumption DEF IngestionInit, IngestionTypeOK
<1>2. IngestionTypeOK /\ [IngestionNext]_ingestionVars => IngestionTypeOK'
  <2> SUFFICES ASSUME IngestionTypeOK, [IngestionNext]_ingestionVars PROVE IngestionTypeOK'
    OBVIOUS
  <2>t. /\ iArt \in [Arts -> ArtRow] /\ iDeal \in [Deals -> DealRow] /\ iReq \in [Reqs -> ReqRow]
        /\ \A a \in Arts : iArt[a].status = "none" => iArt[a] = NoArt
        /\ \A d \in Deals : iDeal[d].st = "none" => iDeal[d] = NoRow
        /\ \A r \in Reqs : iReq[r].pc \in {"attach", "kickoff"} => iReq[r].deal \in Deals
        /\ iDeleted \in 0..Deletions /\ Deletions \in Nat
    BY IngestionAssumption DEF IngestionTypeOK
  <2>p. ArtsTyped /\ DealsTyped /\ ReqsTyped
    BY TablesTyped
  <2>k. (ArtsTyped /\ DealsTyped /\ ReqsTyped /\ iDeleted \in 0..Deletions)'
          => IngestionTypeOK'
    BY TablesTyped DEF IngestionTypeOK, ArtsTyped, DealsTyped, ReqsTyped
  <2>u. /\ UNCHANGED iArt => ArtsTyped'
        /\ UNCHANGED iDeal => DealsTyped'
        /\ UNCHANGED iReq => ReqsTyped'
        /\ UNCHANGED iDeleted => iDeleted' \in 0..Deletions
    BY <2>p, <2>t DEF ArtsTyped, DealsTyped, ReqsTyped
  <2>r. ASSUME NEW r \in Reqs, NEW q \in ReqRow, iReq' = [iReq EXCEPT ![r] = q],
               q.pc \in {"attach", "kickoff"} => q.deal \in Deals,
               UNCHANGED <<iArt, iDeal, iDeleted>>
        PROVE  IngestionTypeOK'
    <3>1. ReqsTyped'
      BY <2>r, <2>p, ReqWritten
    <3> QED BY <2>r, <2>u, <2>k, <3>1
  <2>s. ASSUME NEW r \in Reqs,
               NEW pc \in {"idle", "receive", "insert", "check", "create", "done", "failed"},
               Step(r, pc), UNCHANGED <<iArt, iDeal, iDeleted>>
        PROVE  IngestionTypeOK'
    <3> DEFINE q == [iReq[r] EXCEPT !.pc = pc]
    <3>1. q \in ReqRow /\ q.pc = pc
      <4>1. iReq[r] \in ReqRow
        BY RowsTyped
      <4>2. pc \in {"idle", "receive", "insert", "check", "create", "attach", "kickoff",
                   "done", "failed"}
        BY <2>s
      <4> HIDE <2>s, <2>t
      <4> QED BY <4>1, <4>2, MovesTyped
    <3>2. iReq' = [iReq EXCEPT ![r] = q]
      BY <2>s, <2>t DEF Step
    <3> HIDE DEF q
    <3> QED BY <2>r, <2>s, <3>1, <3>2
  <2>1. ASSUME NEW r \in Reqs, NEW e \in Mails \cup {NoId}, NEW c \in BOOLEAN, StartImport(r, e, c)
        PROVE  IngestionTypeOK'
    <3> DEFINE q == [IdleReq EXCEPT !.pc = "receive", !.ext = e, !.content = c]
    <3>1. q \in ReqRow /\ q.pc = "receive"
      BY DEF IdleReq, ReqRow
    <3>2. iReq' = [iReq EXCEPT ![r] = q] /\ UNCHANGED <<iArt, iDeal, iDeleted>>
      BY <2>1 DEF StartImport
    <3> HIDE DEF q
    <3> QED BY <2>r, <3>1, <3>2
  <2>2. ASSUME NEW r \in Reqs, NEW ids \in SUBSET Arts, StartPromote(r, ids) PROVE IngestionTypeOK'
    <3> DEFINE q == [IdleReq EXCEPT !.pc = "check", !.ids = ids]
    <3>1. q \in ReqRow /\ q.pc = "check"
      BY DEF IdleReq, ReqRow
    <3>2. iReq' = [iReq EXCEPT ![r] = q] /\ UNCHANGED <<iArt, iDeal, iDeleted>>
      BY <2>2 DEF StartPromote
    <3> HIDE DEF q
    <3> QED BY <2>r, <3>1, <3>2
  <2>3. ASSUME NEW r \in Reqs, ReceiveLookup(r) PROVE IngestionTypeOK'
    <3>1. CASE iReq[r].ext # NoId /\ Landed(iReq[r].ext) # {}
      <4> DEFINE S == Landed(iReq[r].ext)
                 q == [iReq[r] EXCEPT !.pc = "check", !.ids = S]
      <4>1. S \in SUBSET Arts
        BY DEF Landed
      <4>2. q \in ReqRow /\ q.pc = "check"
        <5> HIDE DEF S
        <5> QED BY <4>1, <2>t DEF ReqRow
      <4>3. iReq' = [iReq EXCEPT ![r] = q] /\ UNCHANGED <<iArt, iDeal, iDeleted>>
        BY <2>3, <3>1, <2>t DEF ReceiveLookup, ReqRow
      <4> HIDE DEF q
      <4> QED BY <2>r, <4>2, <4>3
    <3>2. CASE ~(iReq[r].ext # NoId /\ Landed(iReq[r].ext) # {})
      BY <2>3, <2>s, <3>2 DEF ReceiveLookup
    <3> QED BY <3>1, <3>2
  <2>4. ASSUME NEW r \in Reqs, PromoteCheck(r) PROVE IngestionTypeOK'
    <3> DEFINE done == {a \in iReq[r].ids : iArt[a].status = "promoted" /\ iArt[a].deal # NoDeal}
    <3>1. CASE done # {}
      <4>1. PICK a \in done : iReq' = [iReq EXCEPT ![r].pc = "done", ![r].deal = iArt[a].deal]
        BY <2>4, <3>1 DEF PromoteCheck
      <4> DEFINE e == iArt[a].deal
                 q == [iReq[r] EXCEPT !.pc = "done", !.deal = e]
      <4>2. e \in Deals \cup {NoDeal}
        BY <4>1, RowsTyped
      <4>3. q \in ReqRow /\ q.pc = "done"
        <5> HIDE DEF e
        <5> QED BY <4>2, <2>t DEF ReqRow
      <4>4. iReq' = [iReq EXCEPT ![r] = q] /\ UNCHANGED <<iArt, iDeal, iDeleted>>
        BY <2>4, <4>1, <2>t DEF PromoteCheck, ReqRow
      <4> HIDE DEF q
      <4> QED BY <2>r, <4>3, <4>4
    <3>2. CASE done = {}
      BY <2>4, <2>s, <3>2 DEF PromoteCheck
    <3> QED BY <3>1, <3>2
  <2>5. ASSUME NEW r \in Reqs, Crash(r) PROVE IngestionTypeOK'
    BY <2>5, <2>s DEF Crash, Failed
  <2>6. ASSUME NEW r \in Reqs, AttachArtifacts(r) PROVE IngestionTypeOK'
    <3>1. CASE iDeal[iReq[r].deal].st = "live"
      <4> DEFINE d == iReq[r].deal
                 S == {a \in iReq[r].ids : iArt[a].content}
                 v == [iDeal[d] EXCEPT !.files = S, !.event = TRUE]
                 row(a) == [iArt[a] EXCEPT !.status = "promoted", !.deal = d]
      <4>1. d \in Deals /\ S \subseteq Arts
        BY <2>6, <2>t, RowsTyped DEF AttachArtifacts
      <4>2. iDeal[d].st = "live" /\ d \in Deals \cup {NoDeal}
        BY <3>1, <4>1
      <4>3. /\ iArt' = [a \in Arts |-> IF a \in iReq[r].ids THEN row(a) ELSE iArt[a]]
            /\ UNCHANGED iDeleted
        BY <2>6, <3>1 DEF AttachArtifacts
      <4>4. v \in DealRow /\ v.st = "live" /\ iDeal' = [iDeal EXCEPT ![d] = v]
        <5>1. iDeal[d] \in DealRow /\ iDeal' = [iDeal EXCEPT ![d].files = S, ![d].event = TRUE]
          BY <2>6, <3>1, <2>t, <4>1 DEF AttachArtifacts
        <5> HIDE DEF d, S
        <5>2. v \in DealRow /\ v.st = "live"
          BY <5>1, <4>1, <4>2 DEF DealRow
        <5>3. iDeal' = [iDeal EXCEPT ![d] = v]
          BY <5>1, <4>1, <2>t DEF DealRow
        <5> QED BY <5>2, <5>3
      <4>5. DealsTyped'
        <5> HIDE DEF v, d
        <5> QED BY <4>4, <4>1, <2>p, DealWritten
      <4>6. ArtsTyped'
        <5> HIDE DEF d
        <5>1. \A a \in Arts : row(a) \in ArtRow /\ row(a).status = "promoted"
          BY <2>t, <4>2 DEF ArtRow
        <5> HIDE DEF row
        <5>2. \A a \in Arts : iArt'[a] = IF a \in iReq[r].ids THEN row(a) ELSE iArt[a]
          BY <4>3
        <5>3. iArt' \in [Arts -> ArtRow]
          BY <4>3, <5>1, <2>t
        <5> QED BY <5>1, <5>2, <5>3, <2>t DEF ArtsTyped
      <4>7. ReqsTyped'
        <5> DEFINE q == [iReq[r] EXCEPT !.pc = "kickoff"]
        <5>1. q \in ReqRow /\ q.deal = d
          BY <2>t, MovesTyped
        <5>2. iReq' = [iReq EXCEPT ![r] = q]
          BY <2>6, <3>1, <2>t DEF AttachArtifacts, Step, AfterAttach
        <5> HIDE DEF q, d
        <5> QED BY <5>1, <5>2, <4>1, <2>p, ReqWritten
      <4> QED BY <4>3, <4>5, <4>6, <4>7, <2>u, <2>k
    <3>2. CASE iDeal[iReq[r].deal].st # "live"
      BY <2>6, <2>s, <3>2 DEF AttachArtifacts, Failed
    <3> QED BY <3>1, <3>2
  <2>7. ASSUME NEW r \in Reqs, Kickoff(r) PROVE IngestionTypeOK'
    <3> DEFINE d == iReq[r].deal
               k == iDeal[d].kicked \/ iDeal[d].st = "live"
               v == [iDeal[d] EXCEPT !.kicked = k]
               q == [iReq[r] EXCEPT !.pc = "done"]
    <3>1. d \in Deals /\ iDeal[d] \in DealRow /\ iDeal[d].st \in {"none", "live", "deleted"}
      BY <2>7, <2>t DEF Kickoff, DealRow
    <3>2. iDeal' = [iDeal EXCEPT ![d] = v]
      BY <2>7, <3>1, <2>t DEF Kickoff, DealRow
    <3>3. /\ q \in ReqRow /\ q.pc = "done"
          /\ iReq' = [iReq EXCEPT ![r] = q] /\ UNCHANGED <<iArt, iDeleted>>
      BY <2>7, <2>t, MovesTyped DEF Kickoff, Step
    <3>4. k \in BOOLEAN /\ (iDeal[d].st = "none" => k = FALSE)
      <4>1. iDeal[d].st = "none" => iDeal[d].kicked = FALSE
        BY <3>1, <2>t DEF NoRow
      <4>2. iDeal[d].kicked \in BOOLEAN
        BY <3>1 DEF DealRow
      <4> QED BY <4>1, <4>2
    <3>5. v \in DealRow /\ v.st = iDeal[d].st
      <4> HIDE DEF k, d
      <4> QED BY <3>1, <3>4 DEF DealRow
    <3>6. iDeal[d].st = "none" => v = NoRow
      <4>1. CASE iDeal[d].st = "none"
        <5>1. iDeal[d] = NoRow /\ k = FALSE
          BY <4>1, <3>1, <3>4, <2>t
        <5>2. [NoRow EXCEPT !.kicked = FALSE] = NoRow
          BY BlankRows, SameRows DEF NoRow, DealRow
        <5> QED BY <5>1, <5>2
      <4> QED BY <4>1
    <3>7. DealsTyped'
      <4> HIDE DEF v, d
      <4>1. /\ iDeal' \in [Deals -> DealRow] /\ iDeal'[d] = v
            /\ \A e \in Deals \ {d} : iDeal'[e] = iDeal[e]
        BY <3>1, <3>2, <3>5, <2>t
      <4> QED BY <4>1, <3>5, <3>6, <2>t DEF DealsTyped
    <3>8. ReqsTyped'
      <4> HIDE DEF q
      <4> QED BY <3>3, <2>p, ReqWritten
    <3> QED BY <3>3, <3>7, <3>8, <2>u, <2>k
  <2>8. ASSUME NEW r \in Reqs, NEW a \in Arts, ReceiveInsert(r, a) PROVE IngestionTypeOK'
    <3>1. CASE UniqueIndexRefuses(iReq[r].ext)
      BY <2>8, <2>s, <3>1 DEF ReceiveInsert, Failed
    <3>2. CASE ~UniqueIndexRefuses(iReq[r].ext)
      <4> DEFINE e == iReq[r].ext
                 c == iReq[r].content
                 row == [status |-> "received", ext |-> e, content |-> c, deal |-> NoDeal]
                 q == [iReq[r] EXCEPT !.pc = "check", !.ids = {a}]
      <4>1. Insert(a, row) /\ UNCHANGED <<iDeal, iDeleted>>
        BY <2>8, <3>2 DEF ReceiveInsert
      <4>2. row \in ArtRow /\ row.status # "none"
        <5>1. e \in Mails \cup {NoId} /\ c \in BOOLEAN
          BY RowsTyped
        <5> HIDE DEF e, c
        <5> QED BY <5>1 DEF ArtRow
      <4>3. q \in ReqRow /\ q.pc = "check"
        BY <2>t DEF ReqRow
      <4>4. iReq' = [iReq EXCEPT ![r] = q]
        BY <2>8, <3>2, <2>t DEF ReceiveInsert, ReqRow
      <4> HIDE DEF row, q
      <4>5. ArtsTyped' /\ ReqsTyped'
        BY <4>1, <4>2, <4>3, <4>4, <2>p, ArtWritten, ReqWritten
      <4> QED BY <4>1, <4>5, <2>u, <2>k
    <3> QED BY <3>1, <3>2
  <2>9. ASSUME NEW r \in Reqs, NEW d \in Deals, CreateFromIngest(r, d) PROVE IngestionTypeOK'
    <3> DEFINE v == [iDeal[d] EXCEPT !.st = "live"]
               q == [iReq[r] EXCEPT !.pc = "attach", !.deal = d]
    <3>1. v \in DealRow /\ v.st = "live"
      BY <2>t DEF DealRow
    <3>4. q \in ReqRow /\ q.deal = d
      BY <2>t DEF ReqRow
    <3>2. iDeal' = [iDeal EXCEPT ![d] = v] /\ iReq' = [iReq EXCEPT ![r] = q]
          /\ UNCHANGED <<iArt, iDeleted>>
      BY <2>9, <2>t DEF CreateFromIngest, DealRow, ReqRow
    <3> HIDE DEF v, q
    <3>3. DealsTyped' /\ ReqsTyped'
      BY <3>1, <3>2, <3>4, <2>p, DealWritten, ReqWritten
    <3> QED BY <3>2, <3>3, <2>u, <2>k
  <2>10. ASSUME NEW a \in Arts, FilePresign(a) PROVE IngestionTypeOK'
    <3> DEFINE row == [NoArt EXCEPT !.status = "received", !.content = TRUE]
    <3>1. row \in ArtRow /\ row.status = "received"
      BY DEF NoArt, ArtRow
    <3>2. Insert(a, row) /\ UNCHANGED <<iDeal, iReq, iDeleted>>
      BY <2>10 DEF FilePresign
    <3> HIDE DEF row
    <3>3. ArtsTyped'
      BY <3>1, <3>2, <2>p, ArtWritten
    <3> QED BY <3>2, <3>3, <2>u, <2>k
  <2>11. ASSUME NEW d \in Deals, DeleteOpportunity(d) PROVE IngestionTypeOK'
    <3> DEFINE v == [NoRow EXCEPT !.st = "deleted"]
               row(a) == [iArt[a] EXCEPT !.deal = NoDeal]
    <3>1. v \in DealRow /\ v.st = "deleted"
      BY DEF NoRow, DealRow
    <3>2. /\ iDeal' = [iDeal EXCEPT ![d] = v] /\ UNCHANGED iReq
          /\ iArt' = [a \in Arts |-> IF iArt[a].deal = d THEN row(a) ELSE iArt[a]]
          /\ iDeleted' \in 0..Deletions
      BY <2>11, <2>t DEF DeleteOpportunity
    <3>3. \A a \in Arts : row(a) \in ArtRow /\ row(a).status = iArt[a].status
      BY <2>t DEF ArtRow
    <3>4. \A a \in Arts : iArt[a].deal = d /\ iArt[a].status = "none" => row(a) = NoArt
      <4>1. \A a \in Arts : /\ row(a).ext = iArt[a].ext /\ row(a).content = iArt[a].content
                           /\ row(a).deal = NoDeal
        BY <2>t DEF ArtRow
      <4>2. NoArt.deal = NoDeal
        BY DEF NoArt
      <4> HIDE DEF row
      <4> QED BY <4>1, <4>2, <2>t, <3>3, BlankRows, SameRows
    <3> HIDE DEF v, row
    <3>5. DealsTyped'
      BY <3>1, <3>2, <2>p, DealWritten
    <3>6. /\ iArt' \in [Arts -> ArtRow]
          /\ \A a \in Arts : iArt'[a] = IF iArt[a].deal = d THEN row(a) ELSE iArt[a]
      BY <3>2, <3>3, <2>t
    <3>7. ArtsTyped'
      BY <3>3, <3>4, <3>6, <2>t DEF ArtsTyped
    <3> QED BY <3>2, <3>5, <3>7, <2>u, <2>k
  <2>13. ASSUME NEW d \in Deals, AttachToExisting(d) PROVE IngestionTypeOK'
    <3> DEFINE v == [iDeal[d] EXCEPT !.extra = TRUE]
    <3>1. v \in DealRow /\ v.st = "live"
      BY <2>13, <2>t DEF DealRow, AttachToExisting
    <3>2. iDeal' = [iDeal EXCEPT ![d] = v] /\ UNCHANGED <<iArt, iReq, iDeleted>>
      BY <2>13, <2>t DEF AttachToExisting, DealRow
    <3> HIDE DEF v
    <3>3. DealsTyped'
      BY <3>1, <3>2, <2>p, DealWritten
    <3> QED BY <3>2, <3>3, <2>u, <2>k
  <2>12. CASE UNCHANGED ingestionVars
    BY <2>12 DEF ingestionVars, IngestionTypeOK
  <2> QED BY <2>1, <2>2, <2>3, <2>4, <2>5, <2>6, <2>7, <2>8, <2>9, <2>10, <2>11, <2>12, <2>13
          DEF IngestionNext, Fresh
<1> QED BY <1>1, <1>2, PTL DEF IngestionSpec
-----------------------------------------------------------------------------
(* Two rows of one mail are one row.                                       *)
OnePerMail ==
  \A a, b \in Arts : Row(a) /\ Row(b) /\ iArt[a].ext = iArt[b].ext /\ iArt[a].ext # NoId => a = b

(* An artifact points at a live opportunity that has it.                   *)
Pointed ==
  \A a \in Arts : iArt[a].deal # NoDeal =>
    /\ iArt[a].status = "promoted" /\ iDeal[iArt[a].deal].st = "live"
    /\ iDeal[iArt[a].deal].event
    /\ iArt[a].content => a \in iDeal[iArt[a].deal].files

(* The opportunity of a request that has not attached yet is its own and   *)
(* is bare.                                                                *)
Underway ==
  /\ \A r \in Reqs : iReq[r].pc = "attach" =>
       /\ iDeal[iReq[r].deal].st # "none"
       /\ iDeal[iReq[r].deal].files = {} /\ ~iDeal[iReq[r].deal].event
       /\ \A a \in Arts : iArt[a].deal # iReq[r].deal
  /\ \A r, s \in Reqs : iReq[r].pc = "attach" /\ iReq[s].pc = "attach"
                        /\ iReq[r].deal = iReq[s].deal => r = s

ImportInv == OnePerMail /\ Pointed /\ Underway /\ ImportedWhole

(* A request that moves without touching a table: it has not made an       *)
(* opportunity yet, is leaving with the one it was handed, or dies.        *)
LEMMA RequestMoves ==
  ASSUME IngestionTypeOK, ImportInv, NEW r \in Reqs, NEW q \in ReqRow,
         iReq' = [iReq EXCEPT ![r] = q], UNCHANGED <<iArt, iDeal>>,
         q.pc \notin {"attach", "kickoff"}, iReq[r].pc # "failed",
         iReq[r].pc \in {"attach", "kickoff"} => q.pc = "failed" /\ q.deal = iReq[r].deal
  PROVE  ImportInv'
<1>1. iReq'[r] = q /\ \A s \in Reqs \ {r} : iReq'[s] = iReq[s]
  BY DEF IngestionTypeOK
<1>2. OnePerMail' /\ Pointed'
  BY DEF ImportInv, OnePerMail, Pointed, Row
<1>3. Underway'
  <2>1. \A s \in Reqs : iReq'[s].pc = "attach" => s # r /\ iReq'[s] = iReq[s]
    BY <1>1
  <2> QED BY <2>1 DEF ImportInv, Underway
<1>4. ImportedWhole'
  <2> SUFFICES ASSUME NEW d \in Deals, iDeal[d].st = "live"
               PROVE  (RequestAt(d, "attach") \/ Complete(d) \/ LeftBare(d))'
    BY DEF ImportedWhole
  <2>1. ASSUME NEW s \in Reqs, iReq[s].deal = d, iReq[s].pc \in {"attach", "kickoff"}
        PROVE  RequestAt(d, iReq[s].pc)' \/ RequestAt(d, "failed")'
    BY <1>1, <2>1 DEF RequestAt
  <2>2. RequestAt(d, "failed") => RequestAt(d, "failed")'
    BY <1>1 DEF RequestAt
  <2>3. CASE RequestAt(d, "attach")
    <3>1. PICK s \in Reqs : iReq[s].deal = d /\ iReq[s].pc = "attach"
      BY <2>3 DEF RequestAt
    <3>2. RequestAt(d, "attach")' \/ RequestAt(d, "failed")'
      BY <2>1, <3>1
    <3>3. iDeal[d].files = {} /\ ~iDeal[d].event
      BY <3>1 DEF ImportInv, Underway
    <3> QED BY <3>2, <3>3 DEF LeftBare
  <2>4. CASE Complete(d)
    <3>1. RequestAt(d, "kickoff") => RequestAt(d, "kickoff")' \/ RequestAt(d, "failed")'
      BY <2>1 DEF RequestAt
    <3> QED BY <2>2, <2>4, <3>1 DEF Complete
  <2>5. CASE LeftBare(d)
    BY <2>2, <2>5 DEF LeftBare
  <2> QED BY <2>3, <2>4, <2>5 DEF ImportInv, ImportedWhole
<1> QED BY <1>2, <1>3, <1>4 DEF ImportInv

(* A new artifact, of no opportunity: it changes nothing an import relies  *)
(* on, and no opportunity that is whole had it before it was there.        *)
LEMMA ArtifactLands ==
  ASSUME IngestionTypeOK, ImportInv, NEW a \in Arts, NEW row \in ArtRow, ~Row(a),
         Insert(a, row), row.status # "none", row.deal = NoDeal,
         row.ext # NoId => Landed(row.ext) = {}, UNCHANGED iDeal,
         \A r \in Reqs : \/ iReq'[r] = iReq[r]
                         \/ /\ iReq[r].pc \notin {"attach", "kickoff", "failed"}
                            /\ iReq'[r].pc \notin {"attach", "kickoff", "failed"}
  PROVE  ImportInv'
<1>1. iArt'[a] = row /\ \A b \in Arts \ {a} : iArt'[b] = iArt[b]
  BY DEF IngestionTypeOK, Insert
<1>2. \A d \in Deals : d # NoDeal
  BY IngestionAssumption
<1>3. OnePerMail'
  BY <1>1 DEF ImportInv, OnePerMail, Landed, Row
<1>4. Pointed'
  BY <1>1 DEF ImportInv, Pointed
<1>5. Underway'
  <2>1. \A r \in Reqs : iReq'[r].pc = "attach" => iReq'[r] = iReq[r] /\ iReq[r].deal \in Deals
    BY DEF IngestionTypeOK
  <2> QED BY <1>1, <1>2, <2>1 DEF ImportInv, Underway
<1>6. ImportedWhole'
  <2> SUFFICES ASSUME NEW d \in Deals, iDeal[d].st = "live"
               PROVE  (RequestAt(d, "attach") \/ Complete(d) \/ LeftBare(d))'
    BY DEF ImportedWhole
  <2>1. \A pc \in {"attach", "kickoff", "failed"} : RequestAt(d, pc) => RequestAt(d, pc)'
    BY DEF RequestAt
  <2>2. iDeal[d].files \subseteq Arts
    BY DEF IngestionTypeOK, DealRow
  <2>3. Complete(d) => Complete(d)'
    <3>1. Complete(d) => a \notin iDeal[d].files
      BY DEF Complete, Row
    <3> QED BY <1>1, <2>1, <2>2, <3>1 DEF Complete
  <2>4. LeftBare(d) => LeftBare(d)'
    BY <2>1 DEF LeftBare
  <2> QED BY <2>1, <2>3, <2>4 DEF ImportInv, ImportedWhole
<1> QED BY <1>3, <1>4, <1>5, <1>6 DEF ImportInv

(* An opportunity's row is written, or removed, by a step that makes no    *)
(* request an importer of it: what the others are stays as it is.          *)
LEMMA OthersStay ==
  ASSUME IngestionTypeOK, NEW d \in Deals, NEW e \in Deals, e # d, iDeal'[e] = iDeal[e],
         \A a \in Arts : iArt[a].status = "promoted" => iArt'[a].status = "promoted",
         \A r \in Reqs : iReq[r].deal = e /\ iReq[r].pc \in {"attach", "kickoff", "failed"}
                            => iReq'[r] = iReq[r],
         RequestAt(e, "attach") \/ Complete(e) \/ LeftBare(e)
  PROVE  (RequestAt(e, "attach") \/ Complete(e) \/ LeftBare(e))'
<1>1. \A pc \in {"attach", "kickoff", "failed"} : RequestAt(e, pc) => RequestAt(e, pc)'
  BY DEF RequestAt
<1>2. iDeal[e].files \subseteq Arts
  BY DEF IngestionTypeOK, DealRow
<1>3. Complete(e) => Complete(e)'
  BY <1>1, <1>2 DEF Complete
<1>4. LeftBare(e) => LeftBare(e)'
  BY <1>1 DEF LeftBare
<1> QED BY <1>1, <1>3, <1>4

(* promote, up to its answer: an opportunity is created bare and belongs   *)
(* to the one request that created it.                                     *)
LEMMA CreateKeeps ==
  ASSUME IngestionTypeOK, ImportInv, NEW r \in Reqs, NEW d \in Deals, CreateFromIngest(r, d)
  PROVE  ImportInv'
<1>1. /\ iReq[r].pc = "create" /\ UNCHANGED iArt
      /\ iDeal[d].st = "none" /\ iDeal[d].files = {} /\ ~iDeal[d].event
      /\ \A a \in Arts : iArt[a].deal # d
  <2>1. iReq[r].pc = "create" /\ iDeal[d].st = "none" /\ UNCHANGED iArt
    BY DEF CreateFromIngest
  <2>2. iDeal[d] = NoRow
    BY <2>1 DEF IngestionTypeOK
  <2>3. \A a \in Arts : iArt[a].deal # d
    BY <2>1, IngestionAssumption DEF ImportInv, Pointed
  <2> QED BY <2>1, <2>2, <2>3 DEF NoRow
<1>2. /\ iReq'[r].pc = "attach" /\ iReq'[r].deal = d
      /\ \A s \in Reqs \ {r} : iReq'[s] = iReq[s]
  BY DEF CreateFromIngest, IngestionTypeOK, ReqRow
<1>3. /\ iDeal'[d].st = "live" /\ iDeal'[d].files = {} /\ ~iDeal'[d].event
      /\ \A e \in Deals \ {d} : iDeal'[e] = iDeal[e]
  BY <1>1 DEF CreateFromIngest, IngestionTypeOK, DealRow
<1>4. OnePerMail'
  BY <1>1 DEF ImportInv, OnePerMail, Row
<1>5. Pointed'
  <2>1. \A a \in Arts : iArt[a].deal # NoDeal => iDeal'[iArt[a].deal] = iDeal[iArt[a].deal]
    BY <1>1, <1>3, RowsTyped
  <2> QED BY <1>1, <2>1 DEF ImportInv, Pointed
<1>6. Underway'
  <2>1. \A s \in Reqs \ {r} : iReq[s].pc = "attach" =>
          iReq[s].deal \in Deals \ {d} /\ iDeal'[iReq[s].deal] = iDeal[iReq[s].deal]
    BY <1>1, <1>3 DEF ImportInv, Underway, IngestionTypeOK
  <2> QED BY <1>1, <1>2, <1>3, <2>1 DEF ImportInv, Underway
<1>7. ImportedWhole'
  <2> SUFFICES ASSUME NEW e \in Deals, iDeal'[e].st = "live"
               PROVE  (RequestAt(e, "attach") \/ Complete(e) \/ LeftBare(e))'
    BY DEF ImportedWhole
  <2>1. CASE e = d
    BY <1>2, <2>1 DEF RequestAt
  <2>2. CASE e # d
    <3>1. iDeal'[e] = iDeal[e] /\ (RequestAt(e, "attach") \/ Complete(e) \/ LeftBare(e))
      BY <1>3, <2>2 DEF ImportInv, ImportedWhole
    <3>2. \A s \in Reqs : iReq[s].pc \in {"attach", "kickoff", "failed"} => iReq'[s] = iReq[s]
      BY <1>1, <1>2
    <3>3. \A a \in Arts : iArt[a].status = "promoted" => iArt'[a].status = "promoted"
      BY <1>1
    <3> QED BY <2>2, <3>1, <3>2, <3>3, OthersStay
  <2> QED BY <2>1, <2>2
<1> QED BY <1>4, <1>5, <1>6, <1>7 DEF ImportInv

(* The attachment: artifacts leave the opportunities they were in only for *)
(* this one, which gets a file for each of them that has content.          *)
LEMMA AttachKeeps ==
  ASSUME IngestionTypeOK, ImportInv, NEW r \in Reqs, AttachArtifacts(r),
         iDeal[iReq[r].deal].st = "live"
  PROVE  ImportInv'
<1> DEFINE d == iReq[r].deal
           ids == iReq[r].ids
<1>1. /\ iReq[r].pc = "attach" /\ d \in Deals /\ d # NoDeal /\ ids \subseteq Arts
      /\ \A a \in Arts : iArt[a].deal # d
      /\ \A s \in Reqs \ {r} : iReq[s].pc = "attach" => iReq[s].deal \in Deals \ {d}
  <2>1. iReq[r].pc = "attach"
    BY DEF AttachArtifacts
  <2>2. d \in Deals /\ ids \subseteq Arts
    BY <2>1, RowsTyped DEF IngestionTypeOK
  <2> QED BY <2>1, <2>2, IngestionAssumption DEF ImportInv, Underway, IngestionTypeOK
<1>2. /\ iReq'[r].pc = "kickoff" /\ iReq'[r].deal = d
      /\ \A s \in Reqs \ {r} : iReq'[s] = iReq[s]
  BY DEF AttachArtifacts, Step, AfterAttach, IngestionTypeOK, ReqRow
<1>3. /\ iDeal'[d].st = "live" /\ iDeal'[d].files = {a \in ids : iArt[a].content}
      /\ iDeal'[d].event
      /\ \A e \in Deals \ {d} : iDeal'[e] = iDeal[e]
  <2> DEFINE S == {a \in ids : iArt[a].content}
  <2>1. /\ iDeal' = [iDeal EXCEPT ![d].files = S, ![d].event = TRUE]
        /\ iDeal[d].st = "live"
    BY DEF AttachArtifacts
  <2>2. iDeal \in [Deals -> DealRow] /\ iDeal[d] \in DealRow
    BY <1>1 DEF IngestionTypeOK
  <2> HIDE DEF d, ids, S
  <2>3. iDeal'[d].st = "live" /\ iDeal'[d].files = S /\ iDeal'[d].event
    BY <1>1, <2>1, <2>2 DEF DealRow
  <2>4. \A e \in Deals \ {d} : iDeal'[e] = iDeal[e]
    BY <1>1, <2>1, <2>2
  <2> QED BY <2>3, <2>4 DEF S
<1>4. /\ \A a \in ids : iArt'[a].status = "promoted" /\ iArt'[a].deal = d
      /\ \A a \in Arts \ ids : iArt'[a] = iArt[a]
      /\ \A a \in Arts : iArt'[a].ext = iArt[a].ext /\ iArt'[a].content = iArt[a].content
  <2> DEFINE row(a) == [iArt[a] EXCEPT !.status = "promoted", !.deal = d]
  <2>1. iArt' = [a \in Arts |-> IF a \in ids THEN row(a) ELSE iArt[a]]
    BY DEF AttachArtifacts
  <2>2. \A a \in Arts : iArt[a] \in ArtRow
    BY RowsTyped
  <2> HIDE DEF d, ids
  <2>3. \A a \in Arts : /\ row(a).status = "promoted" /\ row(a).deal = d
                        /\ row(a).ext = iArt[a].ext /\ row(a).content = iArt[a].content
    BY <2>2 DEF ArtRow
  <2> HIDE DEF row
  <2> QED BY <1>1, <2>1, <2>3
<1>5. \A a \in Arts : iArt'[a].ext # NoId => Row(a)
  BY <1>4 DEF IngestionTypeOK, Row, NoArt
<1> HIDE DEF d, ids
<1>6. OnePerMail'
  <2>1. \A a, b \in Arts : iArt'[a].ext = iArt'[b].ext /\ iArt'[a].ext # NoId => a = b
    BY <1>4, <1>5 DEF ImportInv, OnePerMail
  <2> QED BY <2>1 DEF OnePerMail
<1>7. Pointed'
  <2> SUFFICES ASSUME NEW a \in Arts, iArt'[a].deal # NoDeal
               PROVE  (/\ iArt[a].status = "promoted" /\ iDeal[iArt[a].deal].st = "live"
                       /\ iDeal[iArt[a].deal].event
                       /\ iArt[a].content => a \in iDeal[iArt[a].deal].files)'
    BY DEF Pointed
  <2>1. CASE a \in ids
    BY <1>3, <1>4, <2>1
  <2>2. CASE a \notin ids
    <3>1. iArt'[a] = iArt[a] /\ iArt[a].deal \in Deals \ {d}
      BY <1>1, <1>4, <2>2, RowsTyped
    <3> QED BY <1>3, <3>1 DEF ImportInv, Pointed
  <2> QED BY <2>1, <2>2
<1>8. Underway'
  <2>1. \A s \in Reqs : iReq'[s].pc = "attach" => s # r /\ iReq'[s] = iReq[s]
    BY <1>2
  <2>2. \A s \in Reqs \ {r} : iReq[s].pc = "attach" =>
          /\ iReq[s].deal # d /\ iDeal'[iReq[s].deal] = iDeal[iReq[s].deal]
          /\ \A a \in Arts : iArt'[a].deal # iReq[s].deal
    BY <1>1, <1>3, <1>4 DEF ImportInv, Underway
  <2> QED BY <2>1, <2>2 DEF ImportInv, Underway
<1>9. ImportedWhole'
  <2> SUFFICES ASSUME NEW e \in Deals, iDeal'[e].st = "live"
               PROVE  (RequestAt(e, "attach") \/ Complete(e) \/ LeftBare(e))'
    BY DEF ImportedWhole
  <2>1. CASE e = d
    <3>1. RequestAt(e, "kickoff")'
      BY <1>2, <2>1 DEF RequestAt
    <3> QED BY <1>3, <1>4, <2>1, <3>1 DEF Complete
  <2>2. CASE e # d
    <3>1. iDeal'[e] = iDeal[e] /\ (RequestAt(e, "attach") \/ Complete(e) \/ LeftBare(e))
      BY <1>3, <2>2 DEF ImportInv, ImportedWhole
    <3>2. \A s \in Reqs : iReq[s].deal = e => iReq'[s] = iReq[s]
      BY <1>2, <2>2 DEF d
    <3>3. \A a \in Arts : iArt[a].status = "promoted" => iArt'[a].status = "promoted"
      BY <1>4
    <3> QED BY <1>1, <2>2, <3>1, <3>2, <3>3, OthersStay
  <2> QED BY <2>1, <2>2
<1> QED BY <1>6, <1>7, <1>8, <1>9 DEF ImportInv

(* The end of promote, the deletion and the reviewer's upload: what they   *)
(* write of an opportunity is not what makes it whole, or removes it.      *)
LEMMA KickoffKeeps ==
  ASSUME IngestionTypeOK, ImportInv, NEW r \in Reqs, Kickoff(r)
  PROVE  ImportInv'
<1> DEFINE d == iReq[r].deal
<1>1. iReq[r].pc = "kickoff" /\ d \in Deals /\ UNCHANGED iArt
  BY DEF Kickoff, IngestionTypeOK
<1>2. /\ iReq'[r].pc = "done" /\ iReq'[r].deal = d
      /\ \A s \in Reqs \ {r} : iReq'[s] = iReq[s]
  BY DEF Kickoff, Step, IngestionTypeOK, ReqRow
<1>3. /\ iDeal'[d].st = iDeal[d].st /\ iDeal'[d].files = iDeal[d].files
      /\ iDeal'[d].event = iDeal[d].event /\ (iDeal[d].st = "live" => iDeal'[d].kicked)
      /\ \A e \in Deals \ {d} : iDeal'[e] = iDeal[e]
  BY <1>1 DEF Kickoff, IngestionTypeOK, DealRow
<1>4. \A e \in Deals : /\ iDeal'[e].st = iDeal[e].st /\ iDeal'[e].files = iDeal[e].files
                       /\ iDeal'[e].event = iDeal[e].event
  BY <1>3
<1>5. OnePerMail'
  BY <1>1 DEF ImportInv, OnePerMail, Row
<1>6. Pointed'
  <2>1. \A a \in Arts : iArt[a].deal # NoDeal => iArt[a].deal \in Deals
    BY RowsTyped
  <2> QED BY <1>1, <1>4, <2>1 DEF ImportInv, Pointed
<1>7. Underway'
  <2>1. \A s \in Reqs : iReq'[s].pc = "attach" =>
          iReq'[s] = iReq[s] /\ iReq[s].pc = "attach" /\ iReq[s].deal \in Deals
    BY <1>2 DEF IngestionTypeOK
  <2> QED BY <1>1, <1>4, <2>1 DEF ImportInv, Underway
<1>8. ImportedWhole'
  <2> SUFFICES ASSUME NEW e \in Deals, iDeal'[e].st = "live"
               PROVE  (RequestAt(e, "attach") \/ Complete(e) \/ LeftBare(e))'
    BY DEF ImportedWhole
  <2>1. RequestAt(e, "attach") \/ Complete(e) \/ LeftBare(e)
    BY <1>4 DEF ImportInv, ImportedWhole
  <2>2. CASE e = d
    <3>1. \A pc \in {"attach", "failed"} : RequestAt(e, pc) => RequestAt(e, pc)'
      BY <1>1, <1>2 DEF RequestAt
    <3>2. Complete(e) => Complete(e)'
      BY <1>1, <1>3, <2>2 DEF Complete
    <3>3. LeftBare(e) => LeftBare(e)'
      BY <1>3, <2>2, <3>1 DEF LeftBare
    <3> QED BY <2>1, <3>1, <3>2, <3>3
  <2>3. CASE e # d
    <3>1. \A s \in Reqs : iReq[s].deal = e => iReq'[s] = iReq[s]
      BY <1>2, <2>3
    <3> QED BY <1>1, <1>3, <2>1, <2>3, <3>1, OthersStay
  <2> QED BY <2>2, <2>3
<1> QED BY <1>5, <1>6, <1>7, <1>8 DEF ImportInv

(* A deletion un-points the artifacts of that opportunity and no others.   *)
LEMMA DeletionKeeps ==
  ASSUME IngestionTypeOK, ImportInv, NEW d \in Deals, DeleteOpportunity(d)
  PROVE  ImportInv'
<1>1. /\ iDeal'[d].st = "deleted" /\ iDeal'[d].files = {} /\ ~iDeal'[d].event
      /\ \A e \in Deals \ {d} : iDeal'[e] = iDeal[e]
      /\ UNCHANGED iReq
  BY DEF DeleteOpportunity, IngestionTypeOK, NoRow
<1>2. \A a \in Arts :
        /\ iArt'[a].status = iArt[a].status /\ iArt'[a].ext = iArt[a].ext
        /\ iArt'[a].content = iArt[a].content
        /\ iArt'[a].deal = IF iArt[a].deal = d THEN NoDeal ELSE iArt[a].deal
  BY DEF DeleteOpportunity, IngestionTypeOK, ArtRow
<1>3. OnePerMail'
  BY <1>2 DEF ImportInv, OnePerMail, Row
<1>4. Pointed'
  <2>1. \A a \in Arts : iArt'[a].deal # NoDeal =>
          iArt'[a].deal = iArt[a].deal /\ iArt[a].deal \in Deals \ {d}
    BY <1>2, RowsTyped
  <2> QED BY <1>1, <1>2, <2>1 DEF ImportInv, Pointed
<1>5. Underway'
  <2>1. \A s \in Reqs : iReq[s].pc = "attach" =>
          iReq[s].deal \in Deals /\ iReq[s].deal # NoDeal
    BY IngestionAssumption DEF IngestionTypeOK
  <2>2. \A s \in Reqs : iReq[s].pc = "attach" => \A a \in Arts : iArt'[a].deal # iReq[s].deal
    BY <1>2, <2>1 DEF ImportInv, Underway
  <2>3. \A s \in Reqs : iReq[s].pc = "attach" =>
          /\ iDeal'[iReq[s].deal].st # "none"
          /\ iDeal'[iReq[s].deal].files = {} /\ ~iDeal'[iReq[s].deal].event
    BY <1>1, <2>1 DEF ImportInv, Underway
  <2> QED BY <1>1, <2>2, <2>3 DEF ImportInv, Underway
<1>6. ImportedWhole'
  <2> SUFFICES ASSUME NEW e \in Deals, iDeal'[e].st = "live"
               PROVE  (RequestAt(e, "attach") \/ Complete(e) \/ LeftBare(e))'
    BY DEF ImportedWhole
  <2>1. e # d /\ iDeal'[e] = iDeal[e]
    BY <1>1
  <2>2. RequestAt(e, "attach") \/ Complete(e) \/ LeftBare(e)
    BY <2>1 DEF ImportInv, ImportedWhole
  <2> QED BY <1>1, <1>2, <2>1, <2>2, OthersStay
<1> QED BY <1>3, <1>4, <1>5, <1>6 DEF ImportInv

(* A reviewer's upload is a file of no artifact.                           *)
LEMMA ExistingKeeps ==
  ASSUME IngestionTypeOK, ImportInv, NEW d \in Deals, AttachToExisting(d)
  PROVE  ImportInv'
<1>1. /\ \A e \in Deals : /\ iDeal'[e].st = iDeal[e].st /\ iDeal'[e].files = iDeal[e].files
                          /\ iDeal'[e].event = iDeal[e].event
                          /\ iDeal'[e].kicked = iDeal[e].kicked
      /\ UNCHANGED <<iArt, iReq>>
  BY DEF AttachToExisting, IngestionTypeOK, DealRow
<1>2. OnePerMail'
  BY <1>1 DEF ImportInv, OnePerMail, Row
<1>3. Pointed'
  <2>1. \A a \in Arts : iArt[a].deal # NoDeal => iArt[a].deal \in Deals
    BY RowsTyped
  <2> QED BY <1>1, <2>1 DEF ImportInv, Pointed
<1>4. Underway'
  <2>1. \A s \in Reqs : iReq[s].pc = "attach" => iReq[s].deal \in Deals
    BY DEF IngestionTypeOK
  <2> QED BY <1>1, <2>1 DEF ImportInv, Underway
<1>5. ImportedWhole'
  <2>1. \A e \in Deals : /\ Complete(e) => Complete(e)'
                         /\ LeftBare(e) => LeftBare(e)'
                         /\ RequestAt(e, "attach") => RequestAt(e, "attach")'
    BY <1>1 DEF Complete, LeftBare, RequestAt
  <2> QED BY <1>1, <2>1 DEF ImportInv, ImportedWhole
<1> QED BY <1>2, <1>3, <1>4, <1>5 DEF ImportInv

-----------------------------------------------------------------------------
(* The invariant of imports: one row per mail, pointers and files agree,   *)
(* an opportunity under way is bare and nobody else's.                     *)
THEOREM ImportInvariant == IngestionSpec => []ImportInv
<1>1. IngestionInit => ImportInv
  BY DEF IngestionInit, ImportInv, OnePerMail, Pointed, Underway, ImportedWhole,
         NoArt, NoRow, IdleReq, Row
<1>2. IngestionTypeOK /\ ImportInv /\ [IngestionNext]_ingestionVars => ImportInv'
  <2> SUFFICES ASSUME IngestionTypeOK, ImportInv, [IngestionNext]_ingestionVars
               PROVE  ImportInv'
    OBVIOUS
  <2>q. /\ iReq \in [Reqs -> ReqRow]
        /\ \A r \in Reqs : iReq[r] \in ReqRow /\ iReq[r].ids \subseteq Arts
    BY DEF IngestionTypeOK, ReqRow
  <2>s. ASSUME NEW r \in Reqs, NEW pc \in {"insert", "create", "failed"},
               Step(r, pc), UNCHANGED <<iArt, iDeal>>, iReq[r].pc # "failed",
               iReq[r].pc \in {"attach", "kickoff"} => pc = "failed"
        PROVE  ImportInv'
    <3> DEFINE q == [iReq[r] EXCEPT !.pc = pc]
    <3>1. q \in ReqRow /\ q.pc = pc /\ q.deal = iReq[r].deal
      <4>1. iReq[r] \in ReqRow
        BY <2>q
      <4>2. pc \in {"idle", "receive", "insert", "check", "create", "attach", "kickoff",
                   "done", "failed"}
        BY <2>s
      <4> HIDE <2>s, <2>q
      <4> QED BY <4>1, <4>2, MovesTyped
    <3>2. iReq' = [iReq EXCEPT ![r] = q]
      BY <2>s, <2>q DEF Step
    <3> HIDE DEF q
    <3>3. q.pc \notin {"attach", "kickoff"}
      BY <3>1
    <3> QED BY <2>s, <3>1, <3>2, <3>3, RequestMoves
  <2>1. ASSUME NEW r \in Reqs, NEW e \in Mails \cup {NoId}, NEW c \in BOOLEAN, StartImport(r, e, c)
        PROVE  ImportInv'
    <3> DEFINE q == [IdleReq EXCEPT !.pc = "receive", !.ext = e, !.content = c]
    <3>1. q \in ReqRow /\ q.pc = "receive"
      BY DEF IdleReq, ReqRow
    <3>2. iReq' = [iReq EXCEPT ![r] = q] /\ iReq[r].pc = "idle" /\ UNCHANGED <<iArt, iDeal>>
      BY <2>1 DEF StartImport
    <3> HIDE DEF q
    <3> QED BY <3>1, <3>2, RequestMoves
  <2>2. ASSUME NEW r \in Reqs, NEW ids \in SUBSET Arts, StartPromote(r, ids) PROVE ImportInv'
    <3> DEFINE q == [IdleReq EXCEPT !.pc = "check", !.ids = ids]
    <3>1. q \in ReqRow /\ q.pc = "check"
      BY DEF IdleReq, ReqRow
    <3>2. iReq' = [iReq EXCEPT ![r] = q] /\ iReq[r].pc = "idle" /\ UNCHANGED <<iArt, iDeal>>
      BY <2>2 DEF StartPromote
    <3> HIDE DEF q
    <3> QED BY <3>1, <3>2, RequestMoves
  <2>3. ASSUME NEW r \in Reqs, ReceiveLookup(r) PROVE ImportInv'
    <3>1. CASE iReq[r].ext # NoId /\ Landed(iReq[r].ext) # {}
      <4> DEFINE S == Landed(iReq[r].ext)
                 q == [iReq[r] EXCEPT !.pc = "check", !.ids = S]
      <4>1. S \in SUBSET Arts
        BY DEF Landed
      <4>2. q \in ReqRow /\ q.pc = "check"
        <5> HIDE DEF S
        <5> QED BY <4>1, <2>q DEF ReqRow
      <4>3. /\ iReq' = [iReq EXCEPT ![r] = q] /\ iReq[r].pc = "receive"
            /\ UNCHANGED <<iArt, iDeal>>
        BY <2>3, <3>1, <2>q DEF ReceiveLookup, ReqRow
      <4> HIDE DEF q
      <4> QED BY <4>2, <4>3, RequestMoves
    <3>2. CASE ~(iReq[r].ext # NoId /\ Landed(iReq[r].ext) # {})
      BY <2>3, <2>s, <3>2 DEF ReceiveLookup
    <3> QED BY <3>1, <3>2
  <2>4. ASSUME NEW r \in Reqs, PromoteCheck(r) PROVE ImportInv'
    <3> DEFINE done == {a \in iReq[r].ids : iArt[a].status = "promoted" /\ iArt[a].deal # NoDeal}
    <3>1. CASE done # {}
      <4>1. PICK a \in done : iReq' = [iReq EXCEPT ![r].pc = "done", ![r].deal = iArt[a].deal]
        BY <2>4, <3>1 DEF PromoteCheck
      <4> DEFINE e == iArt[a].deal
                 q == [iReq[r] EXCEPT !.pc = "done", !.deal = e]
      <4>2. e \in Deals \cup {NoDeal}
        BY <4>1, <2>q, RowsTyped
      <4>3. q \in ReqRow /\ q.pc = "done"
        <5> HIDE DEF e
        <5> QED BY <4>2, <2>q DEF ReqRow
      <4>4. /\ iReq' = [iReq EXCEPT ![r] = q] /\ iReq[r].pc = "check"
            /\ UNCHANGED <<iArt, iDeal>>
        BY <2>4, <4>1, <2>q DEF PromoteCheck, ReqRow
      <4> HIDE DEF q
      <4> QED BY <4>3, <4>4, RequestMoves
    <3>2. CASE done = {}
      BY <2>4, <2>s, <3>2 DEF PromoteCheck
    <3> QED BY <3>1, <3>2
  <2>5. ASSUME NEW r \in Reqs, Crash(r) PROVE ImportInv'
    BY <2>5, <2>s DEF Crash, Failed
  <2>6. ASSUME NEW r \in Reqs, AttachArtifacts(r) PROVE ImportInv'
    <3>1. CASE iDeal[iReq[r].deal].st # "live"
      BY <2>6, <2>s, <3>1 DEF AttachArtifacts, Failed
    <3> QED BY <2>6, <3>1, AttachKeeps
  <2>8. ASSUME NEW r \in Reqs, NEW a \in Arts, ReceiveInsert(r, a) PROVE ImportInv'
    <3>1. CASE UniqueIndexRefuses(iReq[r].ext)
      BY <2>8, <2>s, <3>1 DEF ReceiveInsert, Failed
    <3>2. CASE ~UniqueIndexRefuses(iReq[r].ext)
      <4> DEFINE e == iReq[r].ext
                 c == iReq[r].content
                 row == [status |-> "received", ext |-> e, content |-> c, deal |-> NoDeal]
      <4>1. Insert(a, row) /\ UNCHANGED iDeal /\ ~Row(a)
        BY <2>8, <3>2 DEF ReceiveInsert
      <4>2. /\ row \in ArtRow /\ row.status # "none" /\ row.deal = NoDeal
            /\ row.ext # NoId => Landed(row.ext) = {}
        <5>1. e \in Mails \cup {NoId} /\ c \in BOOLEAN /\ (e # NoId => Landed(e) = {})
          BY <3>2, RowsTyped DEF UniqueIndexRefuses
        <5> HIDE DEF e, c
        <5> QED BY <5>1 DEF ArtRow
      <4>3. \A s \in Reqs : \/ iReq'[s] = iReq[s]
                            \/ /\ iReq[s].pc \notin {"attach", "kickoff", "failed"}
                               /\ iReq'[s].pc \notin {"attach", "kickoff", "failed"}
        BY <2>8, <3>2, <2>q DEF ReceiveInsert, ReqRow
      <4> HIDE DEF row
      <4> QED BY <4>1, <4>2, <4>3, ArtifactLands
    <3> QED BY <3>1, <3>2
  <2>10. ASSUME NEW a \in Arts, FilePresign(a) PROVE ImportInv'
    <3> DEFINE row == [NoArt EXCEPT !.status = "received", !.content = TRUE]
    <3>1. row \in ArtRow /\ row.status = "received" /\ row.deal = NoDeal /\ row.ext = NoId
      BY DEF NoArt, ArtRow
    <3>2. Insert(a, row) /\ ~Row(a) /\ UNCHANGED <<iDeal, iReq>>
      BY <2>10 DEF FilePresign
    <3> HIDE DEF row
    <3> QED BY <3>1, <3>2, ArtifactLands
  <2>11. CASE UNCHANGED ingestionVars
    BY <2>11 DEF ingestionVars, ImportInv, OnePerMail, Pointed, Underway, ImportedWhole, Row,
                 RequestAt, Complete, LeftBare
  <2> QED BY <2>1, <2>2, <2>3, <2>4, <2>5, <2>6, <2>8, <2>10, <2>11, CreateKeeps, KickoffKeeps,
             DeletionKeeps, ExistingKeeps
          DEF IngestionNext, Fresh
<1> QED BY <1>1, <1>2, IngestionTypes, PTL DEF IngestionSpec

(* A live opportunity is still with the request that attaches to it, has   *)
(* its artifacts and its event and its extraction was kicked off, or was   *)
(* left where it is by the death of the request that made it.              *)
THEOREM ImportsWhole == IngestionSpec => []ImportedWhole
<1>1. ImportInv => ImportedWhole
  BY DEF ImportInv
<1> QED BY <1>1, ImportInvariant, PTL

(* A mail delivered, imported and promoted any number of times, in any     *)
(* order, is one artifact, in the files of the opportunity it points at.   *)
THEOREM MailsOnce == IngestionSpec => []OneArtifactPerMail
<1>1. ImportInv => OneArtifactPerMail
  <2> SUFFICES ASSUME ImportInv PROVE OneArtifactPerMail
    OBVIOUS
  <2>1. ASSUME NEW m \in Mails PROVE Cardinality(Landed(m)) <= 1
    <3>1. CASE Landed(m) = {}
      BY <3>1, FS_EmptySet
    <3>2. CASE Landed(m) # {}
      <4>1. PICK a : a \in Landed(m)
        BY <3>2
      <4>2. \A b \in Landed(m) : b = a
        BY <4>1, IngestionAssumption DEF ImportInv, OnePerMail, Landed
      <4>3. Landed(m) = {a}
        BY <4>1, <4>2
      <4> QED BY <4>3, FS_Singleton
    <3> QED BY <3>1, <3>2
  <2> QED BY <2>1 DEF ImportInv, Pointed, OneArtifactPerMail
<1> QED BY <1>1, ImportInvariant, PTL
=============================================================================
