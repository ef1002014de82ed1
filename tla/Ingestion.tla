------------------------------ MODULE Ingestion ------------------------------
(***************************************************************************)
(* Opportunities made from something a rep pasted, dropped or imported:    *)
(* apps/api/src/ingestion (service and controller), the from-ingest and    *)
(* email-import routes of engagements.controller.ts and the deletion of    *)
(* engagements.service.ts.                                                 *)
(*                                                                         *)
(* An artifact is landed by one transaction and promoted by three: the     *)
(* idempotency check, the creation of a bare opportunity, the attachment   *)
(* of the artifacts.  A request may die between any two of them.           *)
(***************************************************************************)
EXTENDS Integers, FiniteSets

CONSTANTS
  Arts, Deals, Reqs,   \* artifact rows, opportunities, requests
  Mails,               \* Message-IDs; a paste has none
  NoId, NoDeal,        \* no Message-ID, no opportunity
  Deletions            \* bound on deletions by a rep

ASSUME IngestionAssumption ==
  NoId \notin Mails /\ NoDeal \notin Deals /\ Deletions \in Nat

VARIABLES
  iArt,     \* ingestion_artifacts: status, external_id, text or file present, opportunity
  iDeal,    \* engagements: exists, files by origin or without, event, kickoff
  iReq,     \* the requests
  iDeleted  \* deletions so far

ingestionVars == <<iArt, iDeal, iReq, iDeleted>>

-----------------------------------------------------------------------------
NoArt    == [status |-> "none", ext |-> NoId, content |-> FALSE, deal |-> NoDeal]
NoRow    == [st |-> "none", files |-> {}, extra |-> FALSE, event |-> FALSE, kicked |-> FALSE]
IdleReq  == [pc |-> "idle", ext |-> NoId, content |-> FALSE, ids |-> {}, deal |-> NoDeal]

Fresh(S, f, blank) == {x \in S : f[x] = blank}
Row(a)             == iArt[a].status # "none"
Landed(ext)        == {a \in Arts : Row(a) /\ iArt[a].ext = ext}

IngestionInit ==
  /\ iArt = [a \in Arts |-> NoArt]
  /\ iDeal = [d \in Deals |-> NoRow]
  /\ iReq = [r \in Reqs |-> IdleReq]
  /\ iDeleted = 0

Step(r, pc)   == iReq' = [iReq EXCEPT ![r].pc = pc]
Failed(r)     == Step(r, "failed")
Insert(a, row) == iArt' = [iArt EXCEPT ![a] = row]

-----------------------------------------------------------------------------
(* POST /ingest/text and the import of a mail: land, then promote.  An     *)
(* empty text is refused by the controller; a mail body may be empty.      *)
StartImport(r, ext, content) ==
  /\ iReq[r].pc = "idle"
  /\ ext = NoId => content
  /\ iReq' = [iReq EXCEPT ![r] = [IdleReq EXCEPT !.pc = "receive", !.ext = ext,
                                                 !.content = content]]
  /\ UNCHANGED <<iArt, iDeal, iDeleted>>

(* POST /ingest/file/presign: the row names an object not uploaded yet.    *)
FilePresign(a) ==
  /\ ~Row(a)
  /\ Insert(a, [NoArt EXCEPT !.status = "received", !.content = TRUE])
  /\ UNCHANGED <<iDeal, iReq, iDeleted>>

(* POST /opportunities/from-ingest over rows the rep selected.             *)
StartPromote(r, ids) ==
  /\ iReq[r].pc = "idle" /\ ids # {} /\ \A a \in ids : Row(a)
  /\ iReq' = [iReq EXCEPT ![r] = [IdleReq EXCEPT !.pc = "check", !.ids = ids]]
  /\ UNCHANGED <<iArt, iDeal, iDeleted>>

(* receive: look the Message-ID up, in a transaction of its own.           *)
ReceiveLookup(r) ==
  /\ iReq[r].pc = "receive"
  /\ IF iReq[r].ext # NoId /\ Landed(iReq[r].ext) # {}
     THEN iReq' = [iReq EXCEPT ![r].pc = "check", ![r].ids = Landed(iReq[r].ext)]
     ELSE Step(r, "insert")
  /\ UNCHANGED <<iArt, iDeal, iDeleted>>

UniqueIndexRefuses_Never(ext) == FALSE
UniqueIndexRefuses(ext) == ext # NoId /\ Landed(ext) # {}

(* The unique index refuses a second row; the statement that then looks    *)
(* for the first one runs in the transaction the refusal aborted.          *)
ReceiveInsert(r, a) ==
  LET q == iReq[r] IN
  /\ q.pc = "insert" /\ ~Row(a)
  /\ IF UniqueIndexRefuses(q.ext)
     THEN Failed(r) /\ UNCHANGED iArt
     ELSE /\ Insert(a, [status |-> "received", ext |-> q.ext, content |-> q.content,
                        deal |-> NoDeal])
          /\ iReq' = [iReq EXCEPT ![r].pc = "check", ![r].ids = {a}]
  /\ UNCHANGED <<iDeal, iDeleted>>

-----------------------------------------------------------------------------
(* promote: if any of the artifacts belongs to a live opportunity, that    *)
(* opportunity is the answer, for all of them.                             *)
PromoteCheck(r) ==
  LET q    == iReq[r]
      done == {a \in q.ids : iArt[a].status = "promoted" /\ iArt[a].deal # NoDeal}
  IN
  /\ q.pc = "check"
  /\ IF done # {}
     THEN \E a \in done : iReq' = [iReq EXCEPT ![r].pc = "done", ![r].deal = iArt[a].deal]
     ELSE Step(r, "create")
  /\ UNCHANGED <<iArt, iDeal, iDeleted>>

CreateFromIngest(r, d) ==
  /\ iReq[r].pc = "create" /\ iDeal[d].st = "none"
  /\ iDeal' = [iDeal EXCEPT ![d].st = "live"]
  /\ iReq' = [iReq EXCEPT ![r].pc = "attach", ![r].deal = d]
  /\ UNCHANGED <<iArt, iDeleted>>

AfterAttach_Done == "done"
AfterAttach      == "kickoff"

(* A file per artifact that has content; every artifact is re-pointed and  *)
(* marked, whatever it said before; one event.                             *)
AttachArtifacts(r) ==
  LET q == iReq[r] IN
  /\ q.pc = "attach"
  /\ IF iDeal[q.deal].st = "live"
     THEN /\ iArt' = [a \in Arts |-> IF a \in q.ids
                        THEN [iArt[a] EXCEPT !.status = "promoted", !.deal = q.deal]
                        ELSE iArt[a]]
          /\ iDeal' = [iDeal EXCEPT ![q.deal].files = {a \in q.ids : iArt[a].content},
                                    ![q.deal].event = TRUE]
          /\ Step(r, AfterAttach)
     ELSE Failed(r) /\ UNCHANGED <<iArt, iDeal>>
  /\ UNCHANGED iDeleted

Kickoff(r) ==
  /\ iReq[r].pc = "kickoff"
  /\ iDeal' = [iDeal EXCEPT ![iReq[r].deal].kicked = @ \/ iDeal[iReq[r].deal].st = "live"]
  /\ Step(r, "done")
  /\ UNCHANGED <<iArt, iDeleted>>

-----------------------------------------------------------------------------
(* remove(): children go with the row, artifacts are only un-pointed.      *)
DeleteOpportunity(d) ==
  /\ iDeal[d].st = "live" /\ iDeleted < Deletions
  /\ iDeal' = [iDeal EXCEPT ![d] = [NoRow EXCEPT !.st = "deleted"]]
  /\ iArt' = [a \in Arts |-> IF iArt[a].deal = d THEN [iArt[a] EXCEPT !.deal = NoDeal]
                             ELSE iArt[a]]
  /\ iDeleted' = iDeleted + 1
  /\ UNCHANGED iReq

(* presignFileForEngagement, the reviewer's attachment: files of no        *)
(* artifact.                                                               *)
AttachToExisting(d) ==
  /\ iDeal[d].st = "live" /\ ~iDeal[d].extra
  /\ iDeal' = [iDeal EXCEPT ![d].extra = TRUE]
  /\ UNCHANGED <<iArt, iReq, iDeleted>>

(* The process dies under a request, or a promotion without a usable       *)
(* client address is refused.                                              *)
Crash(r) ==
  /\ iReq[r].pc \notin {"idle", "done", "failed"}
  /\ Failed(r)
  /\ UNCHANGED <<iArt, iDeal, iDeleted>>

IngestionNext ==
  \/ \E r \in Reqs, e \in Mails \cup {NoId}, c \in BOOLEAN : StartImport(r, e, c)
  \/ \E r \in Reqs, ids \in SUBSET Arts : StartPromote(r, ids)
  \/ \E r \in Reqs : ReceiveLookup(r) \/ PromoteCheck(r) \/ AttachArtifacts(r)
                     \/ Kickoff(r) \/ Crash(r)
  \/ \E r \in Reqs, a \in Fresh(Arts, iArt, NoArt) : ReceiveInsert(r, a)
  \/ \E r \in Reqs, d \in Fresh(Deals, iDeal, NoRow) : CreateFromIngest(r, d)
  \/ \E a \in Arts : FilePresign(a)
  \/ \E d \in Deals : DeleteOpportunity(d) \/ AttachToExisting(d)

IngestionSpec == IngestionInit /\ [][IngestionNext]_ingestionVars

-----------------------------------------------------------------------------
ArtRow  == [status : {"none", "received", "promoted"}, ext : Mails \cup {NoId},
            content : BOOLEAN, deal : Deals \cup {NoDeal}]
DealRow == [st : {"none", "live", "deleted"}, files : SUBSET Arts, extra : BOOLEAN,
            event : BOOLEAN, kicked : BOOLEAN]
ReqRow  == [pc : {"idle", "receive", "insert", "check", "create", "attach", "kickoff", "done",
                  "failed"},
            ext : Mails \cup {NoId}, content : BOOLEAN, ids : SUBSET Arts,
            deal : Deals \cup {NoDeal}]

(* The columns and the requests; a row that is not there says nothing, and *)
(* from its creation on a request has the opportunity it made.             *)
IngestionTypeOK ==
  /\ iArt \in [Arts -> ArtRow] /\ iDeal \in [Deals -> DealRow] /\ iReq \in [Reqs -> ReqRow]
  /\ iDeleted \in 0..Deletions
  /\ \A a \in Arts : iArt[a].status = "none" => iArt[a] = NoArt
  /\ \A d \in Deals : iDeal[d].st = "none" => iDeal[d] = NoRow
  /\ \A r \in Reqs : iReq[r].pc \in {"attach", "kickoff"} => iReq[r].deal \in Deals

(* A mail delivered or imported twice is one artifact, and an artifact     *)
(* that points at an opportunity is in its files, whoever attached it and  *)
(* however often opportunities were deleted and requests died.             *)
OneArtifactPerMail ==
  /\ \A m \in Mails : Cardinality(Landed(m)) <= 1
  /\ \A a \in Arts : iArt[a].deal # NoDeal =>
       /\ iArt[a].status = "promoted" /\ iDeal[iArt[a].deal].st = "live"
       /\ iDeal[iArt[a].deal].event
       /\ iArt[a].content => a \in iDeal[iArt[a].deal].files

RequestAt(d, pc) == \E r \in Reqs : iReq[r].deal = d /\ iReq[r].pc = pc
Complete(d) ==
  /\ iDeal[d].event
  /\ \A a \in iDeal[d].files : iArt[a].status = "promoted"
  /\ iDeal[d].kicked \/ RequestAt(d, "kickoff") \/ RequestAt(d, "failed")
LeftBare(d) == iDeal[d].files = {} /\ ~iDeal[d].event /\ RequestAt(d, "failed")

(* An opportunity comes out of an import whole: it is still being put      *)
(* together by a request, or its artifacts and its event are in place and  *)
(* its extraction was kicked off, or the very request that made it died.   *)
ImportedWhole ==
  \A d \in Deals : iDeal[d].st = "live" => RequestAt(d, "attach") \/ Complete(d) \/ LeftBare(d)

(* promote: "Re-creating from the same email is a no-op that hands back    *)
(* the original opportunity" (ingestion.service.ts).                       *)
CreateTwiceIsOnce ==
  \A m \in Mails : \A d, e \in Deals :
    (\E a \in Landed(m) : a \in iDeal[d].files \cap iDeal[e].files) => d = e
=============================================================================
