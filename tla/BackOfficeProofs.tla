-------------------------- MODULE BackOfficeProofs --------------------------
(***************************************************************************)
(* For any number of persons, roles, links, invites and requests at once:  *)
(* a session that the guard lets through speaks for the role its user has  *)
(* now, and an invite lets in one user.  For any number of rate cards,     *)
(* pages, uploads and samples: the cards a tenant has stay in order.  For  *)
(* any files, readings, tabs and requests: the quote at rest is the price  *)
(* of the scope, and the predictions of a deal stand on one count.  For    *)
(* any categories, panels and classifications: the tree of categories      *)
(* stays two levels deep, and a lead goes to whom its category is routed.  *)
(* For any tabs and panels of the settings: a save mails those who were    *)
(* ticked, leaves the other panels' fields alone, and shows what it saved. *)
(***************************************************************************)
EXTENDS Accounts, RateCards, QuoteDesk, Taxonomy, TenantSettings,
        FiniteSetTheorems, SequenceTheorems, TLAPS

(* What a request in flight carries, given the links and invites there are.*)
Carries(a, l, i) ==
  /\ a \in AskingRow
  /\ a.op # "idle" => a.who \in Persons \/ a.op \in {"resend", "revoke"}
  /\ a.op \in {"login", "ask"} => a.row.id # 0
  /\ a.op = "ask" => a.kind \in {"magic", "reset"}
  /\ a.op \in {"spend", "role", "remove"} => a.key # 0
  /\ a.op = "spend" => a.n \in 1..l
  /\ a.op \in {"resend", "revoke", "accept", "accept:tx", "join"} => a.n \in 1..i

LEMMA TypeAsCarried ==
  AccountsTypeOK <=>
    /\ crowd \in Crowds /\ lastId \in Nat
    /\ users \in [Persons -> UserRow] /\ links \in Seq(LinkRow) /\ invites \in Seq(InviteRow)
    /\ sessions \subseteq SessionRow
    /\ \A p \in Persons : users[p].id = 0 => users[p] = NoUser
    /\ asking \in [crowd.reqs -> AskingRow]
    /\ \A r \in crowd.reqs : Carries(asking[r], Len(links), Len(invites))
BY DEF AccountsTypeOK, Carries

LEMMA SilentCarries ==
  /\ Silent.op = "idle" /\ \A l, i \in Nat : Carries(Silent, l, i)
  /\ NoUser \in UserRow
<1>1. NoUser \in UserRow
  BY DEF NoUser, UserRow, RoleNames
<1> QED BY <1>1 DEF Silent, Carries, AskingRow, AskingOps, RoleNames, LinkKinds

(* A step that closes, opens or moves on one request and keeps the rows as *)
(* they are declared.                                                      *)
LEMMA TypeStep ==
  ASSUME AccountsTypeOK, NEW r \in crowd.reqs, NEW a,
         asking' = [asking EXCEPT ![r] = a], Carries(a, Len(links'), Len(invites')),
         crowd' = crowd, lastId' \in Nat,
         users' \in [Persons -> UserRow],
         \A p \in Persons : users'[p].id = 0 => users'[p] = NoUser,
         links' \in Seq(LinkRow), Len(links) <= Len(links'),
         invites' \in Seq(InviteRow), Len(invites) <= Len(invites'),
         sessions' \subseteq SessionRow
  PROVE  AccountsTypeOK'
<1>1. /\ crowd \in Crowds /\ asking \in [crowd.reqs -> AskingRow]
      /\ \A q \in crowd.reqs : Carries(asking[q], Len(links), Len(invites))
      /\ links \in Seq(LinkRow) /\ invites \in Seq(InviteRow)
  BY TypeAsCarried
<1>2. /\ Len(links) \in Nat /\ Len(links') \in Nat
      /\ Len(invites) \in Nat /\ Len(invites') \in Nat
  BY <1>1
<1>3. a \in AskingRow
  BY DEF Carries
<1>4. asking' \in [crowd.reqs -> AskingRow]
  BY <1>1, <1>3
<1>5. ASSUME NEW q \in crowd.reqs PROVE Carries(asking'[q], Len(links'), Len(invites'))
  <2>1. CASE q = r
    BY <2>1, <1>1
  <2>2. CASE q # r
    <3>1. asking'[q] = asking[q] /\ asking[q].n \in Nat
      BY <2>2, <1>1 DEF AskingRow
    <3>2. Carries(asking[q], Len(links), Len(invites))
      BY <1>1
    <3> QED BY <3>1, <3>2, <1>2 DEF Carries
  <2> QED BY <2>1, <2>2
<1> QED BY <1>1, <1>4, <1>5 DEF AccountsTypeOK, Carries

(* The rows, element by element.                                           *)
LEMMA Rows ==
  ASSUME AccountsTypeOK
  PROVE  /\ \A p \in Persons : users[p] \in UserRow /\ users[p].id \in Nat /\ users[p].tv \in Nat
         /\ Len(links) \in Nat /\ Len(invites) \in Nat
         /\ \A l \in 1..Len(links) : links[l] \in LinkRow
         /\ \A n \in 1..Len(invites) : invites[n] \in InviteRow
         /\ \A r \in crowd.reqs : asking[r] \in AskingRow /\ Carries(asking[r], Len(links), Len(invites))
         /\ DOMAIN asking = crowd.reqs
BY TypeAsCarried DEF UserRow

(* A user after a step: as before, removed, new, proven or bumped.         *)
LEMMA ProvenType ==
  ASSUME NEW u \in UserRow, NEW kind
  PROVE  /\ Proven(u, kind) \in UserRow /\ Proven(u, kind).id = u.id
         /\ Proven(u, kind).role = u.role
         /\ Proven(u, kind).tv = IF kind = "reset" THEN u.tv + 1 ELSE u.tv
<1>1. CASE kind = "reset"
  <2>1. Proven(u, kind) = [u EXCEPT !.verified = TRUE, !.tv = u.tv + 1]
    BY <1>1 DEF Proven, UserRow
  <2>2. u.tv + 1 \in Nat
    BY DEF UserRow
  <2> QED BY <1>1, <2>1, <2>2 DEF UserRow
<1>2. CASE kind # "reset"
  <2>1. Proven(u, kind) = [u EXCEPT !.verified = TRUE, !.tv = u.tv]
    BY <1>2 DEF Proven, UserRow
  <2> QED BY <1>2, <2>1 DEF UserRow
<1> QED BY <1>1, <1>2

LEMMA SessionType ==
  ASSUME NEW p \in Persons, NEW u \in UserRow, u.id # 0
  PROVE  Session(p, u) \in SessionRow
BY DEF Session, SessionRow, UserRow

LEMMA SpentType ==
  ASSUME AccountsTypeOK, NEW a \in AskingRow
  PROVE  Spent(a) \in Seq(LinkRow) /\ Len(Spent(a)) = Len(links)
<1> DEFINE f == [l \in 1..Len(links) |->
               IF l = a.n THEN [links[l] EXCEPT !.state = "spent"] ELSE links[l]]
<1>1. \A l \in 1..Len(links) : f[l] \in LinkRow
  BY Rows DEF LinkRow
<1>2. Len(links) \in Nat
  BY Rows
<1>3. f \in [1..Len(links) -> LinkRow]
  BY <1>1
<1> HIDE DEF f
<1>4. f \in Seq(LinkRow) /\ Len(f) = Len(links)
  BY <1>2, <1>3
<1> QED BY <1>4 DEF Spent, f

LEMMA GoneType ==
  ASSUME AccountsTypeOK, NEW id
  PROVE  NoLinksOf(id) \in Seq(LinkRow) /\ Len(NoLinksOf(id)) = Len(links)
<1> DEFINE f == [l \in 1..Len(links) |->
               IF links[l].id = id THEN [links[l] EXCEPT !.state = "gone"] ELSE links[l]]
<1>1. \A l \in 1..Len(links) : f[l] \in LinkRow
  BY Rows DEF LinkRow
<1>2. Len(links) \in Nat
  BY Rows
<1>3. f \in [1..Len(links) -> LinkRow]
  BY <1>1
<1> HIDE DEF f
<1>4. f \in Seq(LinkRow) /\ Len(f) = Len(links)
  BY <1>2, <1>3
<1> QED BY <1>4 DEF NoLinksOf, f

-----------------------------------------------------------------------------
(* What a request reads when it is opened.                                 *)
LEMMA AskTypeStep ==
  ASSUME AccountsTypeOK, NEW r \in crowd.reqs, AskFor(r)
  PROVE  AccountsTypeOK'
<1>r. /\ \A p \in Persons : users[p] \in UserRow /\ users[p].id \in Nat
      /\ \A l \in 1..Len(links) : links[l] \in LinkRow
      /\ \A n \in 1..Len(invites) : invites[n] \in InviteRow
      /\ RoleNames = Roles \cup {"admin", "none"} /\ \A s \in sessions : s \in SessionRow
      /\ \A p \in Persons : users[p].id = 0 => users[p] = NoUser
      /\ users \in [Persons -> UserRow] /\ links \in Seq(LinkRow) /\ invites \in Seq(InviteRow)
      /\ sessions \subseteq SessionRow /\ lastId \in Nat
      /\ Len(links) \in Nat /\ Len(invites) \in Nat
  BY Rows, TypeAsCarried DEF RoleNames
<1>1. ASSUME NEW op, NEW u, Opens(r, op, u), Carries([u EXCEPT !.op = op], Len(links), Len(invites)),
             UNCHANGED <<users, links, invites, sessions, lastId, crowd>>
      PROVE  AccountsTypeOK'
  <2> DEFINE a == [u EXCEPT !.op = op]
  <2>1. /\ asking' = [asking EXCEPT ![r] = a] /\ crowd' = crowd
        /\ Carries(a, Len(links'), Len(invites'))
        /\ Len(links) <= Len(links') /\ Len(invites) <= Len(invites')
    BY <1>1, <1>r DEF Opens
  <2> HIDE DEF a
  <2> QED BY <2>1, <1>1, <1>r, TypeStep
<1>2. ASSUME NEW p \in Persons, Login(r, p) PROVE AccountsTypeOK'
  <2>1. users[p].id # 0
    BY <1>2, <1>r DEF Login, NoUser
  <2>2. Carries([[Silent EXCEPT !.who = p, !.row = users[p]] EXCEPT !.op = "login"],
                Len(links), Len(invites))
    BY <2>1, <1>r DEF Carries, Silent, AskingRow, AskingOps, RoleNames, LinkKinds
  <2> QED BY <1>1, <1>2, <2>2 DEF Login
<1>3. ASSUME NEW p \in Persons, SignUp(r, p) PROVE AccountsTypeOK'
  <2>1. Carries([[Silent EXCEPT !.who = p] EXCEPT !.op = "signup"], Len(links), Len(invites))
    BY SilentCarries DEF Carries, Silent, AskingRow, AskingOps, RoleNames, LinkKinds
  <2> QED BY <1>1, <1>3, <2>1 DEF SignUp
<1>4. ASSUME NEW p \in Persons, NEW kind \in {"magic", "reset"}, Request(r, kind, p) PROVE AccountsTypeOK'
  <2>0. users[p].id # 0
    BY <1>4, <1>r DEF Request
  <2>1. Carries([[Silent EXCEPT !.who = p, !.kind = kind, !.row = users[p]] EXCEPT !.op = "ask"],
                Len(links), Len(invites))
    BY <2>0, <1>4, <1>r DEF Carries, Silent, AskingRow, AskingOps, RoleNames, LinkKinds
  <2> QED BY <1>1, <1>4, <2>1 DEF Request
<1>5. ASSUME NEW l \in 1..Len(links), Present(r, l) PROVE AccountsTypeOK'
  <2>1. links[l].who \in Persons /\ links[l].kind \in LinkKinds /\ links[l].id \in Nat \ {0}
        /\ l \in Nat
    BY <1>r DEF LinkRow
  <2>2. Carries([[Silent EXCEPT !.who = links[l].who, !.kind = links[l].kind, !.n = l, !.key = links[l].id]
                  EXCEPT !.op = "spend"], Len(links), Len(invites))
    BY <2>1, SilentCarries DEF Carries, Silent, AskingRow, AskingOps, RoleNames, LinkKinds
  <2> QED BY <1>1, <1>5, <2>2 DEF Present
<1>6. ASSUME NEW n \in 1..Len(invites), Accept(r, n) PROVE AccountsTypeOK'
  <2>1. invites[n].who \in Persons /\ invites[n].role \in RoleNames /\ n \in Nat
    BY <1>r DEF InviteRow
  <2>2. Carries([[Silent EXCEPT !.who = invites[n].who, !.role = invites[n].role, !.n = n]
                  EXCEPT !.op = "accept"], Len(links), Len(invites))
    BY <2>1, SilentCarries DEF Carries, Silent, AskingRow, AskingOps, RoleNames, LinkKinds
  <2> QED BY <1>1, <1>6, <2>2 DEF Accept
<1>7. ASSUME NEW p \in Persons, NEW s \in sessions, RemoveBegin(r, s, p) PROVE AccountsTypeOK'
  <2>1. users[p].id # 0
    BY <1>7, <1>r DEF RemoveBegin, Ours, NoUser
  <2>2. Carries([[Silent EXCEPT !.who = p, !.key = users[p].id] EXCEPT !.op = "remove"],
                Len(links), Len(invites))
    BY <2>1, <1>r, SilentCarries DEF Carries, Silent, AskingRow, AskingOps, RoleNames, LinkKinds
  <2> QED BY <1>1, <1>7, <2>2 DEF RemoveBegin
<1>8. ASSUME NEW p \in Persons, NEW role \in Roles, NEW s \in sessions, Invite(r, s, p, role)
      PROVE  AccountsTypeOK'
  <2>1. Carries([[Silent EXCEPT !.who = p, !.role = role] EXCEPT !.op = "invite"],
                Len(links), Len(invites))
    BY <1>r, SilentCarries DEF Carries, Silent, AskingRow, AskingOps, RoleNames, LinkKinds
  <2> QED BY <1>1, <1>8, <2>1 DEF Invite
<1>9. ASSUME NEW p \in Persons, NEW role \in Roles, NEW s \in sessions, RoleBegin(r, s, p, role)
      PROVE  AccountsTypeOK'
  <2>1. users[p].id # 0
    BY <1>9, <1>r DEF RoleBegin, Ours, NoUser
  <2>2. Carries([[Silent EXCEPT !.who = p, !.role = role, !.key = users[p].id] EXCEPT !.op = "role"],
                Len(links), Len(invites))
    BY <2>1, <1>r, SilentCarries DEF Carries, Silent, AskingRow, AskingOps, RoleNames, LinkKinds
  <2> QED BY <1>1, <1>9, <2>2 DEF RoleBegin
<1>10. ASSUME NEW n \in 1..Len(invites), NEW op \in {"resend", "revoke"}, NEW s \in sessions,
              Touch(r, s, op, n)
       PROVE  AccountsTypeOK'
  <2>1. n \in Nat /\ n \in 1..Len(invites) /\ op \in AskingOps
    BY <1>r DEF AskingOps
  <2>2. Carries([[Silent EXCEPT !.n = n] EXCEPT !.op = op], Len(links), Len(invites))
    BY <2>1, <1>10, SilentCarries DEF Carries, Silent, AskingRow, RoleNames, LinkKinds
  <2> QED BY <1>1, <1>10, <2>2 DEF Touch
<1> QED BY <1>2, <1>3, <1>4, <1>5, <1>6, <1>7, <1>8, <1>9, <1>10 DEF AskFor

(* What a request writes when it goes on.                                  *)
LEMMA ProceedTypeStep ==
  ASSUME AccountsTypeOK, NEW r \in crowd.reqs, Proceed(r)
  PROVE  AccountsTypeOK'
<1> DEFINE a == asking[r]
<1>r. /\ \A p \in Persons : users[p] \in UserRow /\ users[p].id \in Nat /\ users[p].tv \in Nat
      /\ \A n \in 1..Len(invites) : invites[n] \in InviteRow
      /\ \A p \in Persons : users[p].id = 0 => users[p] = NoUser
      /\ users \in [Persons -> UserRow] /\ links \in Seq(LinkRow) /\ invites \in Seq(InviteRow)
      /\ sessions \subseteq SessionRow /\ lastId \in Nat
      /\ Len(links) \in Nat /\ Len(invites) \in Nat
      /\ asking \in [crowd.reqs -> AskingRow]
  BY Rows, TypeAsCarried
<1>a. /\ a \in AskingRow /\ a.who \in Persons \cup {Nobody} /\ a.row \in UserRow /\ a.n \in Nat
      /\ a.key \in Nat /\ a.role \in RoleNames
      /\ a.op # "idle" => a.who \in Persons \/ a.op \in {"resend", "revoke"}
      /\ a.op \in {"login", "ask"} => a.row.id # 0
      /\ a.op = "ask" => a.kind \in {"magic", "reset"}
      /\ a.op \in {"spend", "role", "remove"} => a.key # 0
      /\ a.op = "spend" => a.n \in 1..Len(links)
      /\ a.op \in {"resend", "revoke", "accept", "accept:tx", "join"} => a.n \in 1..Len(invites)
  BY Rows DEF Carries, AskingRow
<1>u. ASSUME NEW p, NEW u \in UserRow, u.id # 0 \/ u = NoUser, users' = [users EXCEPT ![p] = u]
      PROVE  /\ users' \in [Persons -> UserRow]
             /\ \A q \in Persons : users'[q].id = 0 => users'[q] = NoUser
  BY <1>u, <1>r
<1>1. ASSUME Closes(r), crowd' = crowd, lastId' \in Nat,
             users' \in [Persons -> UserRow],
             \A p \in Persons : users'[p].id = 0 => users'[p] = NoUser,
             links' \in Seq(LinkRow), Len(links) <= Len(links'),
             invites' \in Seq(InviteRow), Len(invites) <= Len(invites'),
             sessions' \subseteq SessionRow
      PROVE  AccountsTypeOK'
  <2>1. Len(links') \in Nat /\ Len(invites') \in Nat
    BY <1>1
  <2>2. Carries(Silent, Len(links'), Len(invites'))
    BY <2>1, SilentCarries
  <2> QED BY <2>2, <1>1, TypeStep DEF Closes
<1>n. ASSUME NEW op, Next_(r, op), Carries([a EXCEPT !.op = op], Len(links'), Len(invites')),
             UNCHANGED <<crowd, lastId, invites, sessions>>,
             users' \in [Persons -> UserRow],
             \A p \in Persons : users'[p].id = 0 => users'[p] = NoUser,
             links' \in Seq(LinkRow), Len(links) <= Len(links')
      PROVE  AccountsTypeOK'
  <2> DEFINE b == [a EXCEPT !.op = op]
  <2>1. asking' = [asking EXCEPT ![r] = b]
    BY <1>n, <1>r, <1>a DEF Next_
  <2>2. Carries(b, Len(links'), Len(invites'))
    BY <1>n
  <2>3. /\ crowd' = crowd /\ lastId' \in Nat /\ invites' \in Seq(InviteRow)
        /\ Len(invites) <= Len(invites') /\ sessions' \subseteq SessionRow
    BY <1>n, <1>r
  <2> HIDE DEF b, a
  <2> QED BY <2>1, <2>2, <2>3, <1>n, TypeStep
<1>2. CASE SignedIn(r)
  <2>1. Session(a.who, a.row) \in SessionRow
    BY <1>2, <1>a, SessionType DEF SignedIn, Is
  <2> QED BY <1>1, <1>2, <1>r, <2>1 DEF SignedIn, Issue
<1>3. CASE SignUpWrite(r)
  <2> DEFINE u == [id |-> lastId + 1, role |-> "admin", tv |-> 0, verified |-> FALSE, home |-> "own"]
             k == Link("verify", a.who, lastId + 1)
  <2>1. u \in UserRow /\ u.id # 0
    BY <1>r DEF UserRow, RoleNames
  <2>2. k \in LinkRow
    BY <1>3, <1>a, <1>r DEF SignUpWrite, Is, Link, LinkRow, LinkKinds
  <2>3. users' = [users EXCEPT ![a.who] = u] /\ links' = Append(links, k) /\ Closes(r)
        /\ lastId' = lastId + 1 /\ UNCHANGED <<invites, sessions, crowd>>
    BY <1>3 DEF SignUpWrite
  <2> HIDE DEF u, k, a
  <2>4. links' \in Seq(LinkRow) /\ Len(links) <= Len(links')
    BY <1>r, <2>2, <2>3
  <2>5. lastId' \in Nat /\ crowd' = crowd /\ invites' = invites /\ sessions' = sessions
    BY <1>r, <2>3
  <2>u. /\ users' \in [Persons -> UserRow]
        /\ \A q \in Persons : users'[q].id = 0 => users'[q] = NoUser
    BY <1>u, <2>1, <2>3
  <2> QED BY <1>1, <1>r, <2>u, <2>3, <2>4, <2>5
<1>4. CASE RequestWrite(r)
  <2> DEFINE k == Link(a.kind, a.who, a.row.id)
  <2>1. k \in LinkRow
    BY <1>4, <1>a, <1>r DEF RequestWrite, Is, Link, LinkRow, LinkKinds, UserRow
  <2>2. links' = Append(links, k) /\ Closes(r) /\ UNCHANGED <<users, invites, sessions, lastId, crowd>>
    BY <1>4 DEF RequestWrite
  <2> HIDE DEF k
  <2> QED BY <1>1, <1>r, <2>1, <2>2
<1>5. CASE Spend(r)
  <2> DEFINE u == Proven(users[a.who], a.kind)
  <2>1. a.who \in Persons /\ users[a.who] \in UserRow /\ users[a.who].id # 0
    BY <1>5, <1>a, <1>r DEF Spend, Is
  <2>2. u \in UserRow /\ u.id # 0
    BY <2>1, ProvenType
  <2>3. Session(a.who, u) \in SessionRow
    BY <2>1, <2>2, SessionType
  <2>4. links' \in Seq(LinkRow) /\ Len(links') = Len(links)
    BY <1>5, <1>a, SpentType DEF Spend
  <2>5. users' = [users EXCEPT ![a.who] = u] /\ sessions' = sessions \cup {Session(a.who, u)}
        /\ Closes(r) /\ UNCHANGED <<invites, lastId, crowd>>
    BY <1>5 DEF Spend, Issue
  <2> HIDE DEF u, a
  <2>6. lastId' \in Nat /\ crowd' = crowd /\ invites' = invites /\ sessions' \subseteq SessionRow
    BY <1>r, <2>3, <2>5
  <2>u. /\ users' \in [Persons -> UserRow]
        /\ \A q \in Persons : users'[q].id = 0 => users'[q] = NoUser
    BY <1>u, <2>2, <2>5
  <2> QED BY <1>1, <1>r, <2>u, <2>4, <2>5, <2>6
<1>6. CASE Verify(r)
  <2>1. a.op = "spend" /\ a.who \in Persons /\ a.key # 0
    BY <1>6, <1>a DEF Verify, Is
  <2>2. links' \in Seq(LinkRow) /\ Len(links') = Len(links)
    BY <1>6, <1>a, <1>r, SpentType DEF Verify
  <2>3. /\ users' \in [Persons -> UserRow]
        /\ \A p \in Persons : users'[p].id = 0 => users'[p] = NoUser
    <3>1. CASE users[a.who].id = a.key
      <4>1. Proven(users[a.who], "verify") \in UserRow /\ Proven(users[a.who], "verify").id # 0
        BY <2>1, <3>1, <1>r, ProvenType
      <4>2. users' = [users EXCEPT ![a.who] = Proven(users[a.who], "verify")]
        BY <1>6, <3>1, <2>1, <1>r DEF Verify
      <4> QED BY <4>1, <4>2, <1>r
    <3>2. CASE users[a.who].id # a.key
      BY <1>6, <3>2, <1>r DEF Verify
    <3> QED BY <3>1, <3>2
  <2>4. Carries([a EXCEPT !.op = "verified"], Len(links'), Len(invites'))
    BY <2>1, <1>a DEF Carries, AskingRow, AskingOps
  <2>5. Next_(r, "verified") /\ UNCHANGED <<invites, sessions, lastId, crowd>>
    BY <1>6 DEF Verify
  <2> HIDE DEF a
  <2> QED BY <1>n, <1>r, <2>2, <2>3, <2>4, <2>5
<1>7. CASE Verified(r)
  <2>1. a.who \in Persons /\ users[a.who].id # 0
    BY <1>7, <1>a, <1>r DEF Verified, Is
  <2>2. Session(a.who, users[a.who]) \in SessionRow
    BY <2>1, <1>r, SessionType
  <2> QED BY <1>1, <1>7, <1>r, <2>2 DEF Verified, Issue
<1>8. CASE InviteWrite(r)
  <2> DEFINE i == [who |-> a.who, role |-> a.role, key |-> 1, accepted |-> FALSE,
                   revoked |-> FALSE, expired |-> FALSE, joined |-> 0]
  <2>1. i \in InviteRow
    BY <1>8, <1>a DEF InviteWrite, Is, InviteRow
  <2>2. invites' = Append(invites, i) /\ Closes(r) /\ UNCHANGED <<users, links, sessions, lastId, crowd>>
    BY <1>8 DEF InviteWrite
  <2> HIDE DEF i
  <2> QED BY <1>1, <1>r, <2>1, <2>2
<1>9. ASSUME NEW i \in InviteRow, a.n \in 1..Len(invites), invites' = [invites EXCEPT ![a.n] = i]
      PROVE  invites' \in Seq(InviteRow) /\ Len(invites') = Len(invites)
  BY <1>9, <1>r
<1>10. CASE Resend(r)
  <2> DEFINE k == invites[a.n].key + 1
             i == [invites[a.n] EXCEPT !.key = k, !.expired = FALSE]
  <2>1. a.n \in 1..Len(invites) /\ invites[a.n] \in InviteRow
    BY <1>10, <1>a, <1>r DEF Resend, Is
  <2>0. k \in Nat
    BY <2>1 DEF InviteRow
  <2>2. i \in InviteRow
    <3> HIDE DEF k
    <3> QED BY <2>0, <2>1 DEF InviteRow
  <2>3. invites' = [invites EXCEPT ![a.n] = i]
    BY <1>10, <2>1, <1>r DEF Resend, InviteRow
  <2> HIDE DEF i
  <2>4. invites' \in Seq(InviteRow) /\ Len(invites') = Len(invites)
    BY <1>9, <2>1, <2>2, <2>3
  <2> QED BY <1>1, <1>10, <1>r, <2>4 DEF Resend
<1>11. CASE Revoke(r)
  <2> DEFINE i == [invites[a.n] EXCEPT !.revoked = TRUE]
  <2>1. a.n \in 1..Len(invites) /\ invites[a.n] \in InviteRow
    BY <1>11, <1>a, <1>r DEF Revoke, Is
  <2>2. i \in InviteRow
    BY <2>1 DEF InviteRow
  <2>3. invites' = [invites EXCEPT ![a.n] = i]
    BY <1>11, <2>1, <1>r DEF Revoke, InviteRow
  <2> HIDE DEF i
  <2>4. invites' \in Seq(InviteRow) /\ Len(invites') = Len(invites)
    BY <1>9, <2>1, <2>2, <2>3
  <2> QED BY <1>1, <1>11, <1>r, <2>4 DEF Revoke
<1>12. CASE AcceptLook(r)
  <2>1. Carries([a EXCEPT !.op = "accept:tx"], Len(links'), Len(invites'))
    BY <1>12, <1>a DEF AcceptLook, Is, Carries, AskingRow, AskingOps
  <2> HIDE DEF a
  <2> QED BY <1>n, <1>12, <1>r, <2>1 DEF AcceptLook
<1>13. CASE AcceptCheck(r)
  <2>1. Carries([a EXCEPT !.op = "join"], Len(links'), Len(invites'))
    BY <1>13, <1>a DEF AcceptCheck, Is, Carries, AskingRow, AskingOps
  <2> HIDE DEF a
  <2> QED BY <1>n, <1>13, <1>r, <2>1 DEF AcceptCheck
<1>14. CASE AcceptWrite(r)
  <2> DEFINE k == invites[a.n].joined + 1
             i == [invites[a.n] EXCEPT !.accepted = TRUE, !.joined = k]
             u == [id |-> lastId + 1, role |-> a.role, tv |-> 0, verified |-> TRUE, home |-> "ours"]
             s == [who |-> a.who, id |-> lastId + 1, role |-> a.role, tv |-> 0]
  <2>1. a.n \in 1..Len(invites) /\ invites[a.n] \in InviteRow /\ a.who \in Persons
    BY <1>14, <1>a, <1>r DEF AcceptWrite, Is
  <2>0. k \in Nat
    BY <2>1 DEF InviteRow
  <2>2. i \in InviteRow
    <3> HIDE DEF k
    <3> QED BY <2>0, <2>1 DEF InviteRow
  <2>3. u \in UserRow /\ u.id # 0
    BY <1>r, <1>a DEF UserRow
  <2>4. s \in SessionRow
    BY <1>r, <1>a, <2>1 DEF SessionRow
  <2>5. invites' = [invites EXCEPT ![a.n] = i]
    BY <1>14, <2>1, <1>r DEF AcceptWrite, InviteRow
  <2>6. users' = [users EXCEPT ![a.who] = u] /\ sessions' = sessions \cup {s} /\ Closes(r)
        /\ lastId' = lastId + 1 /\ UNCHANGED <<links, crowd>>
    BY <1>14 DEF AcceptWrite, Joins
  <2> HIDE DEF i, u, s, a
  <2>7. invites' \in Seq(InviteRow) /\ Len(invites') = Len(invites)
    BY <1>9, <2>1, <2>2, <2>5
  <2>8. lastId' \in Nat /\ crowd' = crowd /\ links' = links /\ sessions' \subseteq SessionRow
    BY <1>r, <2>4, <2>6
  <2>u. /\ users' \in [Persons -> UserRow]
        /\ \A q \in Persons : users'[q].id = 0 => users'[q] = NoUser
    BY <1>u, <2>3, <2>6
  <2> QED BY <1>1, <1>r, <2>u, <2>6, <2>7, <2>8
<1>15. CASE RoleWrite(r)
  <2> DEFINE k == users[a.who].tv + 1
             u == [users[a.who] EXCEPT !.role = a.role, !.tv = k]
  <2>1. a.who \in Persons /\ users[a.who] \in UserRow /\ users[a.who].id # 0
    BY <1>15, <1>a, <1>r DEF RoleWrite, Is
  <2>0. k \in Nat
    BY <2>1 DEF UserRow
  <2>2. u \in UserRow /\ u.id # 0
    <3> HIDE DEF k
    <3> QED BY <2>0, <2>1, <1>a DEF UserRow
  <2>3. users' = [users EXCEPT ![a.who] = u]
    BY <1>15, <2>1, <1>r DEF RoleWrite, UserRow
  <2>4. Closes(r) /\ UNCHANGED <<links, invites, sessions, lastId, crowd>>
    BY <1>15 DEF RoleWrite
  <2> HIDE DEF u, a
  <2>u. /\ users' \in [Persons -> UserRow]
        /\ \A q \in Persons : users'[q].id = 0 => users'[q] = NoUser
    BY <1>u, <2>2, <2>3
  <2> QED BY <1>1, <1>r, <2>u, <2>4
<1>16. CASE RemoveWrite(r)
  <2>1. links' \in Seq(LinkRow) /\ Len(links') = Len(links)
    BY <1>16, GoneType DEF RemoveWrite
  <2>2. users' = [users EXCEPT ![a.who] = NoUser] /\ Closes(r)
        /\ UNCHANGED <<invites, sessions, lastId, crowd>>
    BY <1>16 DEF RemoveWrite
  <2> HIDE DEF a
  <2>u. /\ users' \in [Persons -> UserRow]
        /\ \A q \in Persons : users'[q].id = 0 => users'[q] = NoUser
    BY <1>u, <2>2, SilentCarries
  <2> QED BY <1>1, <1>r, <2>u, <2>1, <2>2
<1>17. CASE GiveUp(r)
  BY <1>1, <1>17, <1>r DEF GiveUp
<1> QED BY <1>2, <1>3, <1>4, <1>5, <1>6, <1>7, <1>8, <1>10, <1>11, <1>12, <1>13, <1>14,
           <1>15, <1>16, <1>17 DEF Proceed

(* The tables are as declared, and a request in flight has what its next   *)
(* step uses.                                                              *)
THEOREM AccountsTypes == AccountsSpec => []AccountsTypeOK
<1>1. AccountsInit => AccountsTypeOK
  <2> SUFFICES ASSUME AccountsInit PROVE AccountsTypeOK
    OBVIOUS
  <2> DEFINE f == [id |-> 1, role |-> "admin", tv |-> 0, verified |-> TRUE, home |-> "ours"]
  <2>1. f \in UserRow /\ f.id # 0
    BY DEF UserRow, RoleNames
  <2>2. users = [p \in Persons |-> IF p = Founder THEN f ELSE NoUser]
    BY DEF AccountsInit
  <2>3. /\ links = <<>> /\ invites = <<>> /\ sessions = {} /\ lastId = 1 /\ crowd \in Crowds
        /\ asking = [r \in crowd.reqs |-> Silent]
    BY DEF AccountsInit
  <2> HIDE DEF f
  <2>4. /\ users \in [Persons -> UserRow]
        /\ \A p \in Persons : users[p].id = 0 => users[p] = NoUser
    BY <2>1, <2>2, SilentCarries
  <2>5. \A r \in crowd.reqs : asking[r] \in AskingRow /\ Carries(asking[r], Len(links), Len(invites))
    BY <2>3, SilentCarries DEF Carries
  <2> QED BY <2>3, <2>4, <2>5, TypeAsCarried
<1>2. AccountsTypeOK /\ [AccountsNext]_acctVars => AccountsTypeOK'
  <2> SUFFICES ASSUME AccountsTypeOK, [AccountsNext]_acctVars PROVE AccountsTypeOK'
    OBVIOUS
  <2>r. /\ links \in Seq(LinkRow) /\ invites \in Seq(InviteRow)
        /\ Len(links) \in Nat /\ Len(invites) \in Nat /\ DOMAIN asking = crowd.reqs
    BY Rows, TypeAsCarried
  <2>0. ASSUME UNCHANGED <<users, sessions, asking, lastId, crowd>>,
               links' \in Seq(LinkRow), Len(links') = Len(links),
               invites' \in Seq(InviteRow), Len(invites') = Len(invites)
        PROVE  AccountsTypeOK'
    BY <2>0 DEF AccountsTypeOK
  <2>1. ASSUME NEW r \in DOMAIN asking, AskFor(r) \/ Proceed(r) PROVE AccountsTypeOK'
    BY <2>1, <2>r, AskTypeStep, ProceedTypeStep
  <2>2. CASE Browse \/ UNCHANGED acctVars
    BY <2>0, <2>2, <2>r DEF Browse, acctVars
  <2>3. ASSUME NEW l \in 1..Len(links), LinkExpires(l) PROVE AccountsTypeOK'
    <3> DEFINE k == [links[l] EXCEPT !.state = "expired"]
    <3>1. k \in LinkRow
      BY Rows DEF LinkRow
    <3>2. links' = [links EXCEPT ![l] = k]
      BY <2>3, <2>r DEF LinkExpires
    <3> HIDE DEF k
    <3>3. links' \in Seq(LinkRow) /\ Len(links') = Len(links)
      BY <2>r, <3>1, <3>2
    <3> QED BY <2>0, <2>3, <2>r, <3>3 DEF LinkExpires
  <2>4. ASSUME NEW n \in 1..Len(invites), InviteExpires(n) PROVE AccountsTypeOK'
    <3> DEFINE k == [invites[n] EXCEPT !.expired = TRUE]
    <3>1. k \in InviteRow
      BY Rows DEF InviteRow
    <3>2. invites' = [invites EXCEPT ![n] = k]
      BY <2>4, <2>r DEF InviteExpires
    <3> HIDE DEF k
    <3>3. invites' \in Seq(InviteRow) /\ Len(invites') = Len(invites)
      BY <2>r, <3>1, <3>2
    <3> QED BY <2>0, <2>4, <2>r, <3>3 DEF InviteExpires
  <2> QED BY <2>1, <2>2, <2>3, <2>4 DEF AccountsNext
<1> QED BY <1>1, <1>2, PTL DEF AccountsSpec

-----------------------------------------------------------------------------
(* RolesAreCurrent is not inductive.  What is: a session made from a row   *)
(* that still has its id carries no later version than the row, and the    *)
(* role of the row if it carries its version.  Ids only grow, so a session *)
(* of a removed user never meets another one of the same address.  A       *)
(* sign-in about to be signed is bound by the same.                        *)
Speaks(s) ==
  /\ s.id <= lastId
  /\ s.id = users[s.who].id =>
       /\ s.tv <= users[s.who].tv
       /\ s.tv = users[s.who].tv => s.role = users[s.who].role

SignsTruly ==
  /\ \A p \in Persons : users[p].id <= lastId
  /\ \A s \in sessions : Speaks(s)
  /\ \A r \in crowd.reqs : asking[r].op = "login" => Speaks(Session(asking[r].who, asking[r].row))

(* What a step may do to the row of a person.                              *)
Follows(u, v) ==
  \/ v = NoUser
  \/ v.id > lastId
  \/ /\ v.id = u.id
     /\ \/ v.tv = u.tv /\ v.role = u.role
        \/ v.tv > u.tv

LEMMA SpeaksOn ==
  ASSUME NEW s \in SessionRow, Speaks(s), lastId \in Nat, lastId' \in Nat, lastId <= lastId',
         users[s.who].tv \in Nat, users'[s.who].tv \in Nat, users'[s.who].id \in Nat,
         Follows(users[s.who], users'[s.who])
  PROVE  Speaks(s)'
<1>1. s.id \in Nat \ {0} /\ s.tv \in Nat /\ s.id <= lastId'
  BY DEF SessionRow, Speaks
<1>2. CASE users'[s.who] = NoUser
  BY <1>1, <1>2 DEF Speaks, NoUser
<1>3. CASE users'[s.who].id > lastId
  BY <1>1, <1>3 DEF Speaks
<1>4. CASE users'[s.who].id = users[s.who].id
  BY <1>1, <1>4, <1>2, <1>3 DEF Speaks, Follows
<1> QED BY <1>2, <1>3, <1>4 DEF Follows

LEMMA SpeaksNow ==
  ASSUME NEW p, NEW u, users[p] = u, u.id <= lastId, u.tv \in Nat
  PROVE  Speaks(Session(p, u))
BY DEF Speaks, Session

(* A step that only signs what it has, and leaves the rows to follow.      *)
LEMMA SignsStep ==
  ASSUME AccountsTypeOK, AccountsTypeOK', SignsTruly, crowd' = crowd,
         lastId <= lastId',
         \A p \in Persons : Follows(users[p], users'[p]) /\ users'[p].id <= lastId',
         \A s \in sessions' : s \in sessions \/ Speaks(s)',
         \A r \in crowd.reqs : asking'[r].op = "login" =>
            \/ asking'[r] = asking[r]
            \/ Speaks(Session(asking[r].who, asking[r].row))'
  PROVE  SignsTruly'
<1>r. /\ lastId \in Nat /\ lastId' \in Nat /\ sessions \subseteq SessionRow
      /\ \A p \in Persons : users[p].tv \in Nat /\ users'[p].tv \in Nat /\ users'[p].id \in Nat
  BY DEF AccountsTypeOK, UserRow
<1>1. ASSUME NEW s \in SessionRow, Speaks(s) PROVE Speaks(s)'
  <2>1. s.who \in Persons
    BY DEF SessionRow
  <2> QED BY <1>1, <1>r, <2>1, SpeaksOn
<1>2. \A s \in sessions' : Speaks(s)'
  BY <1>1, <1>r DEF SignsTruly
<1>3. ASSUME NEW r \in crowd.reqs, asking'[r].op = "login"
      PROVE  Speaks(Session(asking[r].who, asking[r].row))'
  <2>1. CASE asking'[r] = asking[r]
    <3>1. asking[r].op = "login" /\ asking[r] \in AskingRow /\ Carries(asking[r], Len(links), Len(invites))
      BY <1>3, <2>1, Rows
    <3>2. Session(asking[r].who, asking[r].row) \in SessionRow
      BY <3>1, SessionType DEF Carries, AskingRow
    <3>3. Speaks(Session(asking[r].who, asking[r].row))
      BY <3>1 DEF SignsTruly
    <3>4. PICK s \in SessionRow : s = Session(asking[r].who, asking[r].row)
      BY <3>2
    <3>5. Speaks(s)'
      BY <3>3, <3>4, <1>1
    <3>6. s = Session(asking[r].who, asking[r].row)'
      BY <2>1, <3>4 DEF Session
    <3> QED BY <3>5, <3>6 DEF Speaks
  <2>2. CASE Speaks(Session(asking[r].who, asking[r].row))'
    BY <2>2
  <2> QED BY <1>3, <2>1, <2>2
<1> QED BY <1>2, <1>3 DEF SignsTruly

LEMMA SignsAskStep ==
  ASSUME AccountsTypeOK, AccountsTypeOK', SignsTruly, NEW r \in crowd.reqs, AskFor(r)
  PROVE  SignsTruly'
<1>r. /\ \A p \in Persons : users[p].id \in Nat /\ users[p].tv \in Nat
      /\ lastId \in Nat /\ asking \in [crowd.reqs -> AskingRow]
  BY Rows, TypeAsCarried
<1>1. UNCHANGED <<users, sessions, lastId, crowd>> /\ \A q \in crowd.reqs \ {r} : asking'[q] = asking[q]
  <2>1. ASSUME NEW op, NEW u, Opens(r, op, u) PROVE \A q \in crowd.reqs \ {r} : asking'[q] = asking[q]
    BY <2>1, <1>r DEF Opens
  <2> QED BY <2>1 DEF AskFor, Login, SignUp, Request, Present, Accept, RemoveBegin, Invite, RoleBegin, Touch
<1>2. ASSUME asking'[r].op = "login"
      PROVE  \E p \in Persons : asking'[r].who = p /\ asking'[r].row = users[p]
  <2>1. ASSUME NEW p \in Persons, Login(r, p) PROVE asking'[r].who = p /\ asking'[r].row = users[p]
    BY <2>1, <1>r DEF Login, Opens, Silent
  <2>2. ASSUME NEW p \in Persons, SignUp(r, p) PROVE FALSE
    BY <2>2, <1>2, <1>r DEF SignUp, Opens, Silent
  <2>3. ASSUME NEW p \in Persons, NEW kind, Request(r, kind, p) PROVE FALSE
    BY <2>3, <1>2, <1>r DEF Request, Opens, Silent
  <2>4. ASSUME NEW l, Present(r, l) PROVE FALSE
    BY <2>4, <1>2, <1>r DEF Present, Opens, Silent
  <2>5. ASSUME NEW n, Accept(r, n) PROVE FALSE
    BY <2>5, <1>2, <1>r DEF Accept, Opens, Silent
  <2>6. ASSUME NEW p, NEW s, RemoveBegin(r, s, p) PROVE FALSE
    BY <2>6, <1>2, <1>r DEF RemoveBegin, Opens, Silent
  <2>7. ASSUME NEW p, NEW s, NEW role, Invite(r, s, p, role) PROVE FALSE
    BY <2>7, <1>2, <1>r DEF Invite, Opens, Silent
  <2>8. ASSUME NEW p, NEW s, NEW role, RoleBegin(r, s, p, role) PROVE FALSE
    BY <2>8, <1>2, <1>r DEF RoleBegin, Opens, Silent
  <2>9. ASSUME NEW n, NEW s, NEW op \in {"resend", "revoke"}, Touch(r, s, op, n) PROVE FALSE
    BY <2>9, <1>2, <1>r DEF Touch, Opens, Silent
  <2> QED BY <2>1, <2>2, <2>3, <2>4, <2>5, <2>6, <2>7, <2>8, <2>9 DEF AskFor
<1>3. asking'[r].op = "login" => Speaks(Session(asking[r].who, asking[r].row))'
  <2> SUFFICES ASSUME asking'[r].op = "login"
               PROVE  Speaks(Session(asking[r].who, asking[r].row))'
    OBVIOUS
  <2>1. PICK p \in Persons : asking'[r].who = p /\ asking'[r].row = users[p]
    BY <1>2
  <2> QED BY <1>1, <1>r, <2>1 DEF SignsTruly, Speaks, Session
<1>4. \A p \in Persons : Follows(users[p], users'[p]) /\ users'[p].id <= lastId'
  BY <1>1 DEF Follows, SignsTruly
<1> QED BY <1>1, <1>r, <1>3, <1>4, SignsStep DEF SignsTruly

LEMMA SignsProceedStep ==
  ASSUME AccountsTypeOK, AccountsTypeOK', SignsTruly, NEW r \in crowd.reqs, Proceed(r)
  PROVE  SignsTruly'
<1> DEFINE a == asking[r]
<1>r. /\ \A p \in Persons : users[p] \in UserRow /\ users[p].id \in Nat /\ users[p].tv \in Nat
      /\ lastId \in Nat /\ asking \in [crowd.reqs -> AskingRow] /\ users \in [Persons -> UserRow]
      /\ a \in AskingRow
  BY Rows, TypeAsCarried
<1>w. /\ a.op # "idle" => a.who \in Persons \/ a.op \in {"resend", "revoke"}
      /\ a.op \in {"spend", "role", "remove"} => a.key # 0
  BY Rows DEF Carries
<1>s. Silent.op = "idle"
  BY DEF Silent
<1>0. /\ \A q \in crowd.reqs \ {r} : asking'[q] = asking[q]
      /\ asking'[r].op # "login" /\ crowd' = crowd
  <2>1. ASSUME Closes(r) PROVE asking'[r].op # "login" /\ \A q \in crowd.reqs \ {r} : asking'[q] = asking[q]
    BY <2>1, <1>r, <1>s DEF Closes
  <2>2. ASSUME NEW op \in {"accept:tx", "join", "verified"}, Next_(r, op)
        PROVE  asking'[r].op # "login" /\ \A q \in crowd.reqs \ {r} : asking'[q] = asking[q]
    BY <2>2, <1>r DEF Next_, AskingRow
  <2>3. Closes(r) \/ Next_(r, "accept:tx") \/ Next_(r, "join") \/ Next_(r, "verified")
    BY DEF Proceed, SignedIn, SignUpWrite, RequestWrite, Spend, Verify, Verified, InviteWrite,
           Resend, Revoke, AcceptLook, AcceptCheck, AcceptWrite, RoleWrite, RemoveWrite, GiveUp
  <2>4. crowd' = crowd
    BY DEF Proceed, SignedIn, SignUpWrite, RequestWrite, Spend, Verify, Verified, InviteWrite,
           Resend, Revoke, AcceptLook, AcceptCheck, AcceptWrite, RoleWrite, RemoveWrite, GiveUp
  <2> QED BY <2>1, <2>2, <2>3, <2>4
<1>1. ASSUME lastId <= lastId',
             \A p \in Persons : Follows(users[p], users'[p]) /\ users'[p].id <= lastId',
             \A s \in sessions' : s \in sessions \/ Speaks(s)'
      PROVE  SignsTruly'
  <2> HIDE DEF a
  <2> QED BY <1>0, <1>1, SignsStep
(* One row replaced by a row that follows it.                              *)
<1>u. ASSUME NEW p, NEW u, users' = [users EXCEPT ![p] = u], lastId' \in {lastId, lastId + 1},
             Follows(users[p], u), u.id <= lastId'
      PROVE  /\ lastId <= lastId'
             /\ \A q \in Persons : Follows(users[q], users'[q]) /\ users'[q].id <= lastId'
  <2> SUFFICES ASSUME NEW q \in Persons PROVE Follows(users[q], users'[q]) /\ users'[q].id <= lastId'
    BY <1>u, <1>r
  <2>1. CASE q = p
    BY <2>1, <1>u, <1>r
  <2>2. CASE q # p
    BY <2>2, <1>u, <1>r DEF Follows, SignsTruly
  <2> QED BY <2>1, <2>2
<1>k. ASSUME UNCHANGED <<users, lastId>>
      PROVE  /\ lastId <= lastId'
             /\ \A q \in Persons : Follows(users[q], users'[q]) /\ users'[q].id <= lastId'
  BY <1>k, <1>r DEF Follows, SignsTruly
<1>2. CASE SignedIn(r)
  <2>1. UNCHANGED <<users, lastId>> /\ sessions' = sessions \cup {Session(a.who, a.row)}
        /\ a.op = "login"
    BY <1>2 DEF SignedIn, Issue, Is
  <2>2. Speaks(Session(a.who, a.row))
    BY <2>1 DEF SignsTruly
  <2>3. \A s \in sessions' : s \in sessions \/ Speaks(s)'
    BY <2>1, <2>2 DEF Speaks
  <2> QED BY <1>1, <1>k, <2>1, <2>3
<1>3. CASE SignUpWrite(r)
  <2> DEFINE u == [id |-> lastId + 1, role |-> "admin", tv |-> 0, verified |-> FALSE, home |-> "own"]
  <2>1. users' = [users EXCEPT ![a.who] = u] /\ lastId' = lastId + 1 /\ sessions' = sessions
    BY <1>3 DEF SignUpWrite
  <2>2. Follows(users[a.who], u) /\ u.id <= lastId'
    BY <2>1, <1>r DEF Follows
  <2> HIDE DEF u
  <2>u. /\ lastId <= lastId'
       /\ \A q \in Persons : Follows(users[q], users'[q]) /\ users'[q].id <= lastId'
    BY <1>u, <2>1, <2>2
  <2> QED BY <1>1, <2>u, <2>1, <2>2
<1>4. CASE \/ RequestWrite(r) \/ InviteWrite(r) \/ Resend(r) \/ Revoke(r)
           \/ AcceptLook(r) \/ AcceptCheck(r) \/ GiveUp(r)
  <2>1. UNCHANGED <<users, lastId, sessions>>
    BY <1>4 DEF RequestWrite, InviteWrite, Resend, Revoke, AcceptLook, AcceptCheck, GiveUp
  <2> QED BY <1>1, <1>k, <2>1
<1>5. CASE Spend(r)
  <2> DEFINE u == Proven(users[a.who], a.kind)
  <2>1. /\ users' = [users EXCEPT ![a.who] = u] /\ lastId' = lastId
        /\ sessions' = sessions \cup {Session(a.who, u)} /\ a.who \in Persons
    BY <1>5, <1>w DEF Spend, Issue, Is
  <2>2. u.id = users[a.who].id /\ u.role = users[a.who].role /\ u.tv \in Nat
        /\ (u.tv = users[a.who].tv \/ u.tv > users[a.who].tv)
    BY <2>1, <1>r, ProvenType
  <2>3. Follows(users[a.who], u) /\ u.id <= lastId'
    BY <2>1, <2>2, <1>r DEF Follows, SignsTruly
  <2> DEFINE s == Session(a.who, u)
  <2>4. users'[a.who] = u /\ s.who = a.who /\ s.id = u.id /\ s.tv = u.tv /\ s.role = u.role
    BY <2>1, <1>r DEF Session
  <2>5. \A k \in sessions' : k \in sessions \/ k = s
    BY <2>1
  <2> HIDE DEF u, s
  <2>6. \A k \in sessions' : k \in sessions \/ Speaks(k)'
    BY <2>2, <2>3, <2>4, <2>5 DEF Speaks
  <2>u. /\ lastId <= lastId'
       /\ \A q \in Persons : Follows(users[q], users'[q]) /\ users'[q].id <= lastId'
    BY <1>u, <2>1, <2>3
  <2> QED BY <1>1, <2>u, <2>1, <2>3, <2>6
<1>6. CASE Verify(r)
  <2>1. a.who \in Persons /\ lastId' = lastId /\ sessions' = sessions
    BY <1>6, <1>w DEF Verify, Is
  <2>2. CASE users[a.who].id = a.key
    <3> DEFINE u == Proven(users[a.who], "verify")
    <3>1. users' = [users EXCEPT ![a.who] = u]
      BY <1>6, <2>1, <2>2, <1>r DEF Verify
    <3>2. u.id = users[a.who].id /\ u.role = users[a.who].role /\ u.tv = users[a.who].tv
      BY <2>1, <1>r, ProvenType
    <3>3. Follows(users[a.who], u) /\ u.id <= lastId'
      BY <2>1, <3>2, <1>r DEF Follows, SignsTruly
    <3> HIDE DEF u
    <3>u. /\ lastId <= lastId'
         /\ \A q \in Persons : Follows(users[q], users'[q]) /\ users'[q].id <= lastId'
      BY <1>u, <2>1, <3>1, <3>3
    <3> QED BY <1>1, <3>u, <2>1, <3>1, <3>3
  <2>3. CASE users[a.who].id # a.key
    <3>1. users' = users
      BY <1>6, <2>3 DEF Verify
    <3> QED BY <1>1, <1>k, <2>1, <3>1
  <2> QED BY <2>2, <2>3
<1>7. CASE Verified(r)
  <2>1. UNCHANGED <<users, lastId>> /\ a.who \in Persons
        /\ sessions' = sessions \cup {Session(a.who, users[a.who])}
    BY <1>7, <1>w DEF Verified, Issue, Is
  <2>2. Speaks(Session(a.who, users[a.who]))
    BY <2>1, <1>r, SpeaksNow DEF SignsTruly
  <2>3. \A s \in sessions' : s \in sessions \/ Speaks(s)'
    BY <2>1, <2>2 DEF Speaks
  <2> QED BY <1>1, <1>k, <2>1, <2>3
<1>8. CASE AcceptWrite(r)
  <2> DEFINE u == [id |-> lastId + 1, role |-> a.role, tv |-> 0, verified |-> TRUE, home |-> "ours"]
             s == [who |-> a.who, id |-> lastId + 1, role |-> a.role, tv |-> 0]
  <2>1. users' = [users EXCEPT ![a.who] = u] /\ lastId' = lastId + 1 /\ sessions' = sessions \cup {s}
        /\ a.who \in Persons
    BY <1>8, <1>w DEF AcceptWrite, Joins, Is
  <2>2. Follows(users[a.who], u) /\ u.id <= lastId'
    BY <2>1, <1>r DEF Follows
  <2>3. users'[a.who] = u /\ s.who = a.who /\ s.id = u.id /\ s.tv = u.tv /\ s.role = u.role
        /\ u.tv = 0 /\ u.id = lastId'
    BY <2>1, <1>r
  <2> HIDE DEF u, s
  <2>4. \A k \in sessions' : k \in sessions \/ Speaks(k)'
    BY <2>1, <2>3, <1>r DEF Speaks
  <2>u. /\ lastId <= lastId'
       /\ \A q \in Persons : Follows(users[q], users'[q]) /\ users'[q].id <= lastId'
    BY <1>u, <2>1, <2>2
  <2> QED BY <1>1, <2>u, <2>1, <2>4
<1>9. CASE RoleWrite(r)
  <2> DEFINE u == [users[a.who] EXCEPT !.role = a.role, !.tv = users[a.who].tv + 1]
  <2>1. users' = [users EXCEPT ![a.who] = u] /\ lastId' = lastId /\ sessions' = sessions
        /\ a.who \in Persons
    BY <1>9, <1>w, <1>r DEF RoleWrite, Is, UserRow
  <2>2. u.id = users[a.who].id /\ u.tv = users[a.who].tv + 1
    BY <2>1, <1>r DEF UserRow
  <2> HIDE DEF u
  <2>3. Follows(users[a.who], u) /\ u.id <= lastId'
    BY <2>1, <2>2, <1>r DEF Follows, SignsTruly
  <2>u. /\ lastId <= lastId'
       /\ \A q \in Persons : Follows(users[q], users'[q]) /\ users'[q].id <= lastId'
    BY <1>u, <2>1, <2>3
  <2> QED BY <1>1, <2>u, <2>1, <2>3
<1>10. CASE RemoveWrite(r)
  <2>1. users' = [users EXCEPT ![a.who] = NoUser] /\ lastId' = lastId /\ sessions' = sessions
    BY <1>10 DEF RemoveWrite
  <2>2. Follows(users[a.who], NoUser) /\ NoUser.id <= lastId'
    BY <2>1, <1>r DEF Follows, NoUser
  <2>u. /\ lastId <= lastId'
       /\ \A q \in Persons : Follows(users[q], users'[q]) /\ users'[q].id <= lastId'
    BY <1>u, <2>1, <2>2
  <2> QED BY <1>1, <2>u, <2>1, <2>2
<1> QED BY <1>2, <1>3, <1>4, <1>5, <1>6, <1>7, <1>8, <1>9, <1>10 DEF Proceed

(* Whatever sign-ins, links, role changes and removals overlap: a session  *)
(* that the guard lets through has the role its user has now.              *)
THEOREM SessionsSpeak == AccountsSpec => []SignsTruly
<1>1. AccountsInit => SignsTruly
  <2> SUFFICES ASSUME AccountsInit PROVE SignsTruly
    OBVIOUS
  <2>1. \A p \in Persons : users[p].id <= lastId
    BY DEF AccountsInit, NoUser
  <2>2. sessions = {} /\ \A r \in crowd.reqs : asking[r].op = "idle"
    BY DEF AccountsInit, Silent
  <2> QED BY <2>1, <2>2 DEF SignsTruly
<1>2. /\ AccountsTypeOK /\ AccountsTypeOK' /\ SignsTruly /\ [AccountsNext]_acctVars
      => SignsTruly'
  <2> SUFFICES ASSUME AccountsTypeOK, AccountsTypeOK', SignsTruly, [AccountsNext]_acctVars
               PROVE  SignsTruly'
    OBVIOUS
  <2>1. ASSUME NEW r \in DOMAIN asking, AskFor(r) \/ Proceed(r) PROVE SignsTruly'
    BY <2>1, Rows, SignsAskStep, SignsProceedStep
  <2>2. ASSUME UNCHANGED <<users, sessions, asking, lastId, crowd>> PROVE SignsTruly'
    BY <2>2 DEF SignsTruly, Speaks, Session
  <2> QED BY <2>1, <2>2 DEF AccountsNext, Browse, LinkExpires, InviteExpires, acctVars
<1> QED BY <1>1, <1>2, AccountsTypes, PTL DEF AccountsSpec

-----------------------------------------------------------------------------
(* Why one invite lets in one user.  With one request at a time the mark   *)
(* its transaction looked for is still missing when it writes; with no     *)
(* removals the user the first one made stands in the way of the second.   *)
Careful == Cardinality(crowd.reqs) = 1 \/ "remove" \notin crowd.ops

AsksFor(a, i) ==
  /\ a.op = "remove" => "remove" \in crowd.ops
  /\ a.op \in {"accept", "accept:tx", "join"} => a.who = i[a.n].who

JoinsOnce ==
  /\ \A n \in 1..Len(invites) : invites[n].joined > 0 => invites[n].accepted
  /\ \A r \in crowd.reqs : AsksFor(asking[r], invites)
  /\ Careful => \A n \in 1..Len(invites) : invites[n].joined <= 1
  /\ Cardinality(crowd.reqs) = 1 =>
       \A r \in crowd.reqs : asking[r].op = "join" => ~invites[asking[r].n].accepted
  /\ "remove" \notin crowd.ops =>
       \A n \in 1..Len(invites) : invites[n].joined > 0 => users[invites[n].who] # NoUser

LEMMA AloneMeans ==
  ASSUME AccountsTypeOK, Cardinality(crowd.reqs) = 1
  PROVE  \A q, r \in crowd.reqs : q = r
<1>1. IsFiniteSet(crowd.reqs)
  BY AccountsAssumption DEF AccountsTypeOK
<1>2. \E x : crowd.reqs = {x}
  BY <1>1, FS_Singleton
<1> QED BY <1>2

(* A step that lets nobody in.                                             *)
LEMMA JoinsStep ==
  ASSUME AccountsTypeOK, AccountsTypeOK', JoinsOnce, crowd' = crowd,
         Len(invites) <= Len(invites'),
         \A n \in 1..Len(invites) : /\ invites'[n].who = invites[n].who
                                    /\ invites'[n].joined = invites[n].joined
                                    /\ invites'[n].accepted = invites[n].accepted,
         \A n \in 1..Len(invites') : n \in 1..Len(invites) \/ invites'[n].joined = 0,
         "remove" \notin crowd.ops => \A p \in Persons : users[p] # NoUser => users'[p] # NoUser,
         \A r \in crowd.reqs :
            \/ asking'[r] = asking[r]
            \/ /\ AsksFor(asking'[r], invites)
               /\ asking'[r].op = "join" => ~invites[asking'[r].n].accepted
               /\ asking'[r].op \in {"accept", "accept:tx", "join"}
                    => asking'[r].n \in 1..Len(invites)
  PROVE  JoinsOnce'
<1>r. /\ Len(invites) \in Nat
      /\ \A n \in 1..Len(invites) : invites[n].who \in Persons /\ invites[n].joined \in Nat
      /\ \A r \in crowd.reqs : asking[r].op \in {"accept", "accept:tx", "join"}
            => asking[r].n \in 1..Len(invites)
  BY Rows DEF AccountsTypeOK, InviteRow
<1>p. Len(invites') \in Nat
  BY DEF AccountsTypeOK
<1>k. \A n \in 1..Len(invites) : n \in 1..Len(invites')
  BY <1>r, <1>p
<1>1. \A n \in 1..Len(invites') : invites'[n].joined > 0 => invites'[n].accepted
  BY <1>r DEF JoinsOnce
<1>2. ASSUME NEW r \in crowd.reqs
      PROVE  /\ asking'[r].op = "remove" => "remove" \in crowd.ops
             /\ asking'[r].op \in {"accept", "accept:tx", "join"}
                  => asking'[r].who = invites'[asking'[r].n].who
  BY <1>r DEF JoinsOnce, AsksFor
<1>3. Careful => \A n \in 1..Len(invites') : invites'[n].joined <= 1
  BY <1>r DEF JoinsOnce
<1>4. Cardinality(crowd.reqs) = 1 =>
         \A r \in crowd.reqs : asking'[r].op = "join" => ~invites'[asking'[r].n].accepted
  BY <1>r DEF JoinsOnce
<1>5. "remove" \notin crowd.ops =>
         \A n \in 1..Len(invites') : invites'[n].joined > 0 => users'[invites'[n].who] # NoUser
  BY <1>r DEF JoinsOnce
<1> QED BY <1>1, <1>2, <1>3, <1>4, <1>5 DEF JoinsOnce, Careful, AsksFor

(* Opening a request lets nobody in.                                       *)
LEMMA JoinsAskStep ==
  ASSUME AccountsTypeOK, AccountsTypeOK', JoinsOnce, NEW r \in crowd.reqs, AskFor(r)
  PROVE  JoinsOnce'
<1>r. asking \in [crowd.reqs -> AskingRow] /\ Len(invites) \in Nat
  BY Rows, TypeAsCarried
<1>1. UNCHANGED <<users, invites, crowd>> /\ \A q \in crowd.reqs \ {r} : asking'[q] = asking[q]
  <2>1. ASSUME NEW op, NEW u, Opens(r, op, u) PROVE \A q \in crowd.reqs \ {r} : asking'[q] = asking[q]
    BY <2>1, <1>r DEF Opens
  <2> QED BY <2>1 DEF AskFor, Login, SignUp, Request, Present, Accept, RemoveBegin, Invite, RoleBegin, Touch
<1>2. \/ asking'[r].op \notin {"remove", "accept", "accept:tx", "join"}
      \/ asking'[r].op = "remove" /\ "remove" \in crowd.ops
      \/ /\ asking'[r].op = "accept" /\ asking'[r].n \in 1..Len(invites)
         /\ asking'[r].who = invites[asking'[r].n].who
  <2>1. ASSUME NEW p, Login(r, p) PROVE asking'[r].op = "login"
    BY <2>1, <1>r DEF Login, Opens, Silent
  <2>2. ASSUME NEW p, SignUp(r, p) PROVE asking'[r].op = "signup"
    BY <2>2, <1>r DEF SignUp, Opens, Silent
  <2>3. ASSUME NEW p, NEW kind, Request(r, kind, p) PROVE asking'[r].op = "ask"
    BY <2>3, <1>r DEF Request, Opens, Silent
  <2>4. ASSUME NEW l, Present(r, l) PROVE asking'[r].op = "spend"
    BY <2>4, <1>r DEF Present, Opens, Silent
  <2>5. ASSUME NEW n \in 1..Len(invites), Accept(r, n)
        PROVE  asking'[r].op = "accept" /\ asking'[r].n = n /\ asking'[r].who = invites[n].who
    BY <2>5, <1>r DEF Accept, Opens, Silent
  <2>6. ASSUME NEW p, NEW s, RemoveBegin(r, s, p) PROVE asking'[r].op = "remove" /\ "remove" \in crowd.ops
    BY <2>6, <1>r DEF RemoveBegin, Opens, Silent
  <2>7. ASSUME NEW p, NEW s, NEW role, Invite(r, s, p, role) PROVE asking'[r].op = "invite"
    BY <2>7, <1>r DEF Invite, Opens, Silent
  <2>8. ASSUME NEW p, NEW s, NEW role, RoleBegin(r, s, p, role) PROVE asking'[r].op = "role"
    BY <2>8, <1>r DEF RoleBegin, Opens, Silent
  <2>9. ASSUME NEW n, NEW s, NEW op \in {"resend", "revoke"}, Touch(r, s, op, n) PROVE asking'[r].op = op
    BY <2>9, <1>r DEF Touch, Opens, Silent
  <2> QED BY <2>1, <2>2, <2>3, <2>4, <2>5, <2>6, <2>7, <2>8, <2>9 DEF AskFor
<1> QED BY <1>r, <1>1, <1>2, JoinsStep DEF AsksFor

(* Going on lets in one user, by acceptInvite's write.                     *)
LEMMA JoinsProceedStep ==
  ASSUME AccountsTypeOK, AccountsTypeOK', JoinsOnce, NEW r \in crowd.reqs, Proceed(r)
  PROVE  JoinsOnce'
<1> DEFINE a == asking[r]
<1>r. /\ asking \in [crowd.reqs -> AskingRow] /\ Len(invites) \in Nat /\ a \in AskingRow
      /\ \A n \in 1..Len(invites) : invites[n] \in InviteRow
      /\ users \in [Persons -> UserRow] /\ invites \in Seq(InviteRow) /\ lastId \in Nat
      /\ a.op \in {"resend", "revoke", "accept", "accept:tx", "join"} => a.n \in 1..Len(invites)
  BY Rows, TypeAsCarried DEF Carries
<1>s. Silent.op = "idle"
  BY DEF Silent
<1>c. crowd' = crowd
  BY DEF Proceed, SignedIn, SignUpWrite, RequestWrite, Spend, Verify, Verified, InviteWrite,
         Resend, Revoke, AcceptLook, AcceptCheck, AcceptWrite, RoleWrite, RemoveWrite, GiveUp
(* The request closes or goes on; what its invite says is looked at.       *)
<1>a. ASSUME Closes(r) \/ Next_(r, "verified") \/ AcceptLook(r) \/ AcceptCheck(r)
      PROVE  \A q \in crowd.reqs :
               \/ asking'[q] = asking[q]
               \/ /\ AsksFor(asking'[q], invites)
                  /\ asking'[q].op = "join" => ~invites[asking'[q].n].accepted
                  /\ asking'[q].op \in {"accept", "accept:tx", "join"}
                       => asking'[q].n \in 1..Len(invites)
  <2> SUFFICES ASSUME NEW q \in crowd.reqs
               PROVE  \/ asking'[q] = asking[q]
                      \/ /\ AsksFor(asking'[q], invites)
                         /\ asking'[q].op = "join" => ~invites[asking'[q].n].accepted
                         /\ asking'[q].op \in {"accept", "accept:tx", "join"}
                              => asking'[q].n \in 1..Len(invites)
    OBVIOUS
  <2>1. CASE q # r
    BY <2>1, <1>a, <1>r DEF Closes, Next_, AcceptLook, AcceptCheck
  <2>2. CASE q = r /\ Closes(r)
    BY <2>2, <1>r, <1>s DEF Closes, AsksFor
  <2>3. CASE q = r /\ Next_(r, "verified")
    <3>1. asking'[q].op = "verified"
      BY <2>3, <1>r DEF Next_, AskingRow
    <3> QED BY <3>1 DEF AsksFor
  <2>4. CASE q = r /\ AcceptLook(r)
    <3>1. asking'[q].op = "accept:tx" /\ asking'[q].n = a.n /\ asking'[q].who = a.who /\ a.op = "accept"
      BY <2>4, <1>r DEF AcceptLook, Next_, Is, AskingRow
    <3> QED BY <2>4, <3>1, <1>r DEF AsksFor, JoinsOnce
  <2>5. CASE q = r /\ AcceptCheck(r)
    <3>1. asking'[q].op = "join" /\ asking'[q].n = a.n /\ asking'[q].who = a.who /\ a.op = "accept:tx"
      BY <2>5, <1>r DEF AcceptCheck, Next_, Is, AskingRow
    <3>2. ~invites[a.n].accepted
      BY <2>5 DEF AcceptCheck, Standing, OpenInvite
    <3> QED BY <2>5, <3>1, <3>2, <1>r DEF AsksFor, JoinsOnce
  <2> QED BY <1>a, <2>1, <2>2, <2>3, <2>4, <2>5
<1>1. ASSUME Closes(r) \/ Next_(r, "verified") \/ AcceptLook(r) \/ AcceptCheck(r), invites' = invites,
             "remove" \notin crowd.ops => \A p \in Persons : users[p] # NoUser => users'[p] # NoUser
      PROVE  JoinsOnce'
  <2> HIDE DEF a
  <2> QED BY <1>1, <1>a, <1>c, <1>r, JoinsStep
(* A row that is written is somebody.                                      *)
<1>u. ASSUME NEW p, NEW u, u.id # 0, users' = [users EXCEPT ![p] = u]
      PROVE  \A q \in Persons : users[q] # NoUser => users'[q] # NoUser
  BY <1>u, <1>r DEF NoUser
<1>2. CASE SignedIn(r) \/ RequestWrite(r) \/ Verified(r) \/ GiveUp(r)
  BY <1>1, <1>2 DEF SignedIn, RequestWrite, Verified, GiveUp
<1>3. CASE AcceptLook(r) \/ AcceptCheck(r)
  BY <1>1, <1>3 DEF AcceptLook, AcceptCheck
<1>w. /\ a.op # "idle" => a.who \in Persons \/ a.op \in {"resend", "revoke"}
      /\ a.op \in {"spend", "role", "remove"} => a.key # 0
      /\ \A p \in Persons : users[p] \in UserRow
  BY Rows DEF Carries
<1>4. CASE SignUpWrite(r)
  <2> DEFINE u == [id |-> lastId + 1, role |-> "admin", tv |-> 0, verified |-> FALSE, home |-> "own"]
  <2>1. users' = [users EXCEPT ![a.who] = u] /\ Closes(r) /\ invites' = invites
    BY <1>4 DEF SignUpWrite
  <2>2. u.id # 0
    BY <1>r
  <2> HIDE DEF u
  <2>3. \A q \in Persons : users[q] # NoUser => users'[q] # NoUser
    BY <1>u, <2>1, <2>2
  <2> QED BY <1>1, <2>1, <2>3
<1>5. CASE Spend(r)
  <2> DEFINE u == Proven(users[a.who], a.kind)
  <2>1. users' = [users EXCEPT ![a.who] = u] /\ Closes(r) /\ invites' = invites
    BY <1>5 DEF Spend
  <2>2. u.id # 0
    BY <1>5, <1>w, ProvenType DEF Spend, Is
  <2> HIDE DEF u
  <2>3. \A q \in Persons : users[q] # NoUser => users'[q] # NoUser
    BY <1>u, <2>1, <2>2
  <2> QED BY <1>1, <2>1, <2>3
<1>6. CASE Verify(r)
  <2>1. Next_(r, "verified") /\ invites' = invites /\ a.who \in Persons /\ a.key # 0
    BY <1>6, <1>w DEF Verify, Is
  <2>2. \A q \in Persons : users[q] # NoUser => users'[q] # NoUser
    <3>1. CASE users[a.who].id = a.key
      <4> DEFINE u == Proven(users[a.who], "verify")
      <4>1. users' = [users EXCEPT ![a.who] = u]
        BY <1>6, <2>1, <3>1, <1>r DEF Verify
      <4>2. u.id # 0
        BY <2>1, <3>1, <1>w, ProvenType
      <4> HIDE DEF u
      <4> QED BY <1>u, <4>1, <4>2
    <3>2. CASE users[a.who].id # a.key
      BY <1>6, <3>2 DEF Verify
    <3> QED BY <3>1, <3>2
  <2> QED BY <1>1, <2>1, <2>2
<1>7. CASE RoleWrite(r)
  <2> DEFINE u == [users[a.who] EXCEPT !.role = a.role, !.tv = users[a.who].tv + 1]
  <2>1. users' = [users EXCEPT ![a.who] = u] /\ Closes(r) /\ invites' = invites
    BY <1>7, <1>w, <1>r DEF RoleWrite, Is, UserRow
  <2>2. u.id # 0
    BY <1>7, <1>w DEF RoleWrite, Is, UserRow
  <2> HIDE DEF u
  <2>3. \A q \in Persons : users[q] # NoUser => users'[q] # NoUser
    BY <1>u, <2>1, <2>2
  <2> QED BY <1>1, <2>1, <2>3
<1>8. CASE RemoveWrite(r)
  <2>1. "remove" \in crowd.ops
    BY <1>8 DEF RemoveWrite, Is, JoinsOnce, AsksFor
  <2> QED BY <1>1, <1>8, <2>1 DEF RemoveWrite
(* The invites change, and nobody is let in.                               *)
<1>9. ASSUME Closes(r), UNCHANGED users, NEW n \in 1..Len(invites), NEW i,
             invites' = [invites EXCEPT ![n] = i],
             i.who = invites[n].who, i.joined = invites[n].joined, i.accepted = invites[n].accepted
      PROVE  JoinsOnce'
  <2>1. /\ Len(invites') = Len(invites)
        /\ \A m \in 1..Len(invites) : /\ invites'[m].who = invites[m].who
                                      /\ invites'[m].joined = invites[m].joined
                                      /\ invites'[m].accepted = invites[m].accepted
    BY <1>9, <1>r
  <2> HIDE DEF a
  <2> QED BY <1>9, <2>1, <1>a, <1>c, <1>r, JoinsStep
<1>10. CASE Resend(r)
  <2> DEFINE i == [invites[a.n] EXCEPT !.key = invites[a.n].key + 1, !.expired = FALSE]
  <2>1. a.n \in 1..Len(invites) /\ invites[a.n] \in InviteRow
    BY <1>10, <1>r DEF Resend, Is
  <2>2. i.who = invites[a.n].who /\ i.joined = invites[a.n].joined /\ i.accepted = invites[a.n].accepted
    BY <2>1 DEF InviteRow
  <2>3. invites' = [invites EXCEPT ![a.n] = i] /\ Closes(r) /\ users' = users
    BY <1>10, <2>1, <1>r DEF Resend, InviteRow
  <2> HIDE DEF i
  <2> QED BY <1>9, <2>1, <2>2, <2>3
<1>11. CASE Revoke(r)
  <2> DEFINE i == [invites[a.n] EXCEPT !.revoked = TRUE]
  <2>1. a.n \in 1..Len(invites) /\ invites[a.n] \in InviteRow
    BY <1>11, <1>r DEF Revoke, Is
  <2>2. i.who = invites[a.n].who /\ i.joined = invites[a.n].joined /\ i.accepted = invites[a.n].accepted
    BY <2>1 DEF InviteRow
  <2>3. invites' = [invites EXCEPT ![a.n] = i] /\ Closes(r) /\ users' = users
    BY <1>11, <2>1, <1>r DEF Revoke, InviteRow
  <2> HIDE DEF i
  <2> QED BY <1>9, <2>1, <2>2, <2>3
<1>12. CASE InviteWrite(r)
  <2> DEFINE i == [who |-> a.who, role |-> a.role, key |-> 1, accepted |-> FALSE,
                   revoked |-> FALSE, expired |-> FALSE, joined |-> 0]
  <2>1. invites' = Append(invites, i) /\ i.joined = 0 /\ Closes(r) /\ users' = users
    BY <1>12 DEF InviteWrite
  <2> HIDE DEF i
  <2>2. /\ Len(invites') = Len(invites) + 1
        /\ \A m \in 1..Len(invites) : invites'[m] = invites[m]
        /\ invites'[Len(invites) + 1] = i
    BY <2>1, <1>r
  <2>3. \A n \in 1..Len(invites') : n \in 1..Len(invites) \/ invites'[n].joined = 0
    BY <2>1, <2>2, <1>r
  <2>4. Len(invites) <= Len(invites')
    BY <2>2, <1>r
  <2> HIDE DEF a
  <2> QED BY <2>1, <2>2, <2>3, <2>4, <1>a, <1>c, <1>r, JoinsStep
(* The one step that lets somebody in.                                     *)
<1>13. CASE AcceptWrite(r)
  <2> DEFINE n == a.n
             i == [invites[n] EXCEPT !.accepted = TRUE, !.joined = invites[n].joined + 1]
             u == [id |-> lastId + 1, role |-> a.role, tv |-> 0, verified |-> TRUE, home |-> "ours"]
  <2>1. /\ a.op = "join" /\ n \in 1..Len(invites) /\ invites[n] \in InviteRow
        /\ a.who \in Persons /\ a.who = invites[n].who /\ users[a.who] = NoUser
    BY <1>13, <1>r, <1>w DEF AcceptWrite, Is, JoinsOnce, AsksFor
  <2>2. /\ invites' = [invites EXCEPT ![n] = i] /\ users' = [users EXCEPT ![a.who] = u] /\ Closes(r)
    BY <1>13, <2>1, <1>r DEF AcceptWrite, Joins, InviteRow
  <2>3. i.who = invites[n].who /\ i.accepted /\ i.joined = invites[n].joined + 1
        /\ invites[n].joined \in Nat
    BY <2>1 DEF InviteRow
  <2>4. u.id # 0
    BY <1>r
  <2> HIDE DEF i, u
  <2>5. /\ Len(invites') = Len(invites) /\ invites'[n] = i
        /\ \A m \in 1..Len(invites) : m # n => invites'[m] = invites[m]
        /\ \A m \in 1..Len(invites) : invites'[m].who = invites[m].who
    BY <2>1, <2>2, <2>3, <1>r
  <2>6. \A q \in Persons : (users[q] # NoUser \/ q = a.who) => users'[q] # NoUser
    BY <2>2, <2>4, <1>r DEF NoUser
  <2>7. asking'[r].op = "idle" /\ \A q \in crowd.reqs \ {r} : asking'[q] = asking[q]
    BY <2>2, <1>r, <1>s DEF Closes
  <2>8. Careful => invites[n].joined = 0
    <3>1. CASE Cardinality(crowd.reqs) = 1
      BY <2>1, <2>3, <3>1 DEF JoinsOnce
    <3>2. CASE "remove" \notin crowd.ops
      BY <2>1, <2>3, <3>2 DEF JoinsOnce
    <3> QED BY <3>1, <3>2 DEF Careful
  <2>9. \A m \in 1..Len(invites') : invites'[m].joined > 0 => invites'[m].accepted
    BY <2>3, <2>5 DEF JoinsOnce
  <2>10. Careful => \A m \in 1..Len(invites') : invites'[m].joined <= 1
    BY <2>3, <2>5, <2>8 DEF JoinsOnce
  <2>11. \A q \in crowd.reqs : AsksFor(asking'[q], invites')
    <3> SUFFICES ASSUME NEW q \in crowd.reqs PROVE AsksFor(asking'[q], invites')
      OBVIOUS
    <3>1. CASE q = r
      BY <2>7, <3>1 DEF AsksFor
    <3>2. CASE q # r
      <4>1. asking'[q] = asking[q] /\ AsksFor(asking[q], invites)
        BY <2>7, <3>2 DEF JoinsOnce
      <4>2. asking[q].op \in {"accept", "accept:tx", "join"} => asking[q].n \in 1..Len(invites)
        BY Rows DEF Carries
      <4> QED BY <4>1, <4>2, <2>5, <1>c DEF AsksFor
    <3> QED BY <3>1, <3>2
  <2>12. Cardinality(crowd.reqs) = 1 =>
          \A q \in crowd.reqs : asking'[q].op = "join" => ~invites'[asking'[q].n].accepted
    BY <2>7, AloneMeans
  <2>13. "remove" \notin crowd.ops =>
          \A m \in 1..Len(invites') : invites'[m].joined > 0 => users'[invites'[m].who] # NoUser
    <3> SUFFICES ASSUME "remove" \notin crowd.ops, NEW m \in 1..Len(invites'), invites'[m].joined > 0
                 PROVE  users'[invites'[m].who] # NoUser
      OBVIOUS
    <3>1. CASE m = n
      BY <2>1, <2>3, <2>5, <2>6, <3>1
    <3>2. CASE m # n
      <4>1. invites'[m] = invites[m] /\ m \in 1..Len(invites) /\ invites[m].who \in Persons
        BY <2>5, <3>2, Rows DEF InviteRow
      <4>2. users[invites[m].who] # NoUser
        BY <4>1 DEF JoinsOnce
      <4> QED BY <4>1, <4>2, <2>6
    <3> QED BY <3>1, <3>2
  <2> HIDE DEF a
  <2> QED BY <2>9, <2>10, <2>11, <2>12, <2>13, <1>c DEF JoinsOnce, AsksFor, Careful
<1> QED BY <1>2, <1>3, <1>4, <1>5, <1>6, <1>7, <1>8, <1>10, <1>11, <1>12, <1>13 DEF Proceed

(* Whatever requests, resends, revocations and role changes overlap, the    *)
(* two reasons above hold.                                                 *)
THEOREM InvitesHold == AccountsSpec => []JoinsOnce
<1>1. AccountsInit => JoinsOnce
  <2> SUFFICES ASSUME AccountsInit PROVE JoinsOnce
    OBVIOUS
  <2>1. Len(invites) = 0 /\ \A r \in crowd.reqs : asking[r].op = "idle"
    BY DEF AccountsInit, Silent
  <2> QED BY <2>1 DEF JoinsOnce, AsksFor
<1>2. AccountsTypeOK /\ AccountsTypeOK' /\ JoinsOnce /\ [AccountsNext]_acctVars => JoinsOnce'
  <2> SUFFICES ASSUME AccountsTypeOK, AccountsTypeOK', JoinsOnce, [AccountsNext]_acctVars
               PROVE  JoinsOnce'
    OBVIOUS
  <2>r. Len(invites) \in Nat /\ DOMAIN asking = crowd.reqs /\ invites \in Seq(InviteRow)
    BY Rows, TypeAsCarried
  <2>1. ASSUME NEW r \in DOMAIN asking, AskFor(r) \/ Proceed(r) PROVE JoinsOnce'
    BY <2>1, <2>r, JoinsAskStep, JoinsProceedStep
  <2>2. ASSUME UNCHANGED <<users, asking, crowd, invites>> PROVE JoinsOnce'
    BY <2>2 DEF JoinsOnce, AsksFor, Careful
  <2>3. ASSUME NEW n \in 1..Len(invites), InviteExpires(n) PROVE JoinsOnce'
    <3> DEFINE i == [invites[n] EXCEPT !.expired = TRUE]
    <3>1. /\ i.who = invites[n].who /\ i.joined = invites[n].joined
          /\ i.accepted = invites[n].accepted
      BY Rows DEF InviteRow
    <3>2. invites' = [invites EXCEPT ![n] = i] /\ UNCHANGED <<users, asking, crowd>>
      BY <2>3 DEF InviteExpires
    <3> HIDE DEF i
    <3>3. /\ Len(invites') = Len(invites)
          /\ \A m \in 1..Len(invites) : /\ invites'[m].who = invites[m].who
                                        /\ invites'[m].joined = invites[m].joined
                                        /\ invites'[m].accepted = invites[m].accepted
      BY <2>r, <3>1, <3>2
    <3> QED BY <2>r, <3>2, <3>3, JoinsStep
  <2> QED BY <2>1, <2>2, <2>3 DEF AccountsNext, Browse, LinkExpires, acctVars
<1> QED BY <1>1, <1>2, AccountsTypes, PTL DEF AccountsSpec

(* A session the guard lets through has its user's role of today, and one  *)
(* invite lets in one user: theorem form of the run's AccessIsCurrent.     *)
THEOREM AccessCurrent == AccountsSpec => []AccessIsCurrent
<1>1. AccountsTypeOK /\ SignsTruly /\ JoinsOnce => AccessIsCurrent
  <2> SUFFICES ASSUME AccountsTypeOK, SignsTruly, JoinsOnce PROVE AccessIsCurrent
    OBVIOUS
  <2>1. RolesAreCurrent
    BY DEF RolesAreCurrent, SignsTruly, Speaks, Passes
  <2>2. OneUserPerInvite
    BY DEF OneUserPerInvite, JoinsOnce, Careful
  <2> QED BY <2>1, <2>2 DEF AccessIsCurrent
<1> QED BY <1>1, AccountsTypes, SessionsSpeak, InvitesHold, PTL

-----------------------------------------------------------------------------
(* The rate cards.                                                          *)
(* Ids are given once, and a stored card keeps the shape it got.           *)
CardsOK(cs, b) == b \in Nat /\ DOMAIN cs \subseteq 1 .. b /\ CardsInOrder(cs)

(* A request that carries a card's id: none before its card was made, one  *)
(* that is gone if it was refused.                                         *)
RequestFields == {"op", "at", "card", "name", "warned"}
RequestShape(c) == c # NoCardCall => c = [f \in RequestFields |-> c[f]]
Unmade == {"sent", "asking reply", "prompt"}
UploadOK(c, b, ids) ==
  RequestShape(c) /\ (c # NoCardCall =>
    /\ c.card \in 0 .. b
    /\ c.at \in Unmade => c.card = 0
    /\ c.at = "refused" => c.card \notin ids)
ModalFields == {"call", "warned", "manual", "saved", "at"}
Modals ==
  /\ DOMAIN modals = CardTabs
  /\ \A m \in CardTabs : /\ modals[m] = [f \in ModalFields |-> modals[m][f]]
                         /\ UploadOK(modals[m].call, born, DOMAIN cards)

SampleOK(c) == RequestShape(c) /\ (c.at = "making" => c.op \in DOMAIN Fixtures)
ListFields == {"items", "reading", "pending", "call"}
Lists ==
  /\ DOMAIN lists = CardTabs
  /\ \A l \in CardTabs : lists[l] = [f \in ListFields |-> lists[l][f]] /\ SampleOK(lists[l].call)

Users == \A u \in DOMAIN uses : uses[u] # 0 => Live(uses[u])
CardInv == CardsOK(cards, born) /\ Modals /\ Lists /\ Users

-----------------------------------------------------------------------------
(* What a step may do to the cards: those that are there stay in order, an *)
(* id that is gone stays so.                                               *)
CardsMove == /\ CardsOK(cards', born') /\ born <= born'
             /\ \A n \in 0 .. born : n \in DOMAIN cards' => n \in DOMAIN cards

LEMMA CardsRest ==
  ASSUME CardInv, cards' = cards, born' = born
  PROVE  CardsMove
BY DEF CardsMove, CardInv, CardsOK

LEMMA CreateMoves ==
  ASSUME CardsOK(cards, born), NEW d, NEW s, CreateCard(d, s),
         s = "published" => Publishable(CardOf(d, s))
  PROVE  /\ CardsMove /\ DOMAIN cards \subseteq DOMAIN cards' /\ (born' > born <=> Storable(d))
         /\ born' \in {born, born + 1}
<1>1. CASE ~Storable(d)
  BY <1>1 DEF CreateCard, CardsMove, CardsOK
<1>2. CASE Storable(d)
  <2>1. PICK k : k = CardOf(d, s)
    OBVIOUS
  <2>2. /\ k.name = d.name /\ k.status = s /\ k = [f \in CardFields |-> k[f]]
        /\ \A c \in DOMAIN cards : cards[c].name # d.name
    BY <1>2, <2>1 DEF CardOf, CardFields, Storable, NameTaken
  <2>3. born' = born + 1 /\ cards' = PutAt(cards, born + 1, k)
    BY <1>2, <2>1 DEF CreateCard, Store
  <2>4. /\ DOMAIN cards' = DOMAIN cards \cup {born + 1} /\ cards'[born + 1] = k
        /\ \A c \in DOMAIN cards : cards'[c] = cards[c]
    BY <2>3 DEF PutAt, CardsOK
  <2>5. born + 1 \notin DOMAIN cards /\ born \in Nat
    BY DEF CardsOK
  <2>6. \A n \in DOMAIN cards' : cards'[n] = [f \in CardFields |-> cards'[n][f]]
    BY <2>2, <2>4 DEF CardsOK, CardsInOrder
  <2>7. \A c, e \in DOMAIN cards' : cards'[c].name = cards'[e].name => c = e
    BY <2>2, <2>4 DEF CardsOK, CardsInOrder
  <2>8. \A n \in DOMAIN cards' : cards'[n].status = "published" => Publishable(cards'[n])
    BY <2>1, <2>2, <2>4 DEF CardsOK, CardsInOrder
  <2>9. DOMAIN cards' \subseteq 1 .. born'
    BY <2>3, <2>4, <2>5 DEF CardsOK
  <2> QED BY <1>2, <2>3, <2>4, <2>5, <2>6, <2>7, <2>8, <2>9 DEF CardsMove, CardsOK, CardsInOrder
<1> QED BY <1>1, <1>2

(* Whatever changes beside them, the lines decide.                         *)
LEMMA SameLines ==
  ASSUME NEW a, NEW b, a.lines = b.lines, Publishable(a)
  PROVE  Publishable(b)
BY DEF Publishable, Slugs

LEMMA ChangeMoves ==
  ASSUME CardsOK(cards, born), born' = born, NEW n \in DOMAIN cards, DOMAIN cards' = DOMAIN cards,
         \A c \in DOMAIN cards \ {n} : cards'[c] = cards[c],
         cards'[n] = [f \in CardFields |-> cards'[n][f]],
         cards'[n].name = cards[n].name, cards'[n].lines = cards[n].lines,
         cards'[n].status = "published" => cards[n].status = "published" \/ Publishable(cards[n])
  PROVE  CardsMove
<1>1. cards'[n].status = "published" => Publishable(cards'[n])
  BY SameLines DEF CardsOK, CardsInOrder
<1>2. \A c \in DOMAIN cards' : cards'[c].status = "published" => Publishable(cards'[c])
  BY <1>1 DEF CardsOK, CardsInOrder
<1>3. \A c, e \in DOMAIN cards' : cards'[c].name = cards'[e].name => c = e
  BY DEF CardsOK, CardsInOrder
<1>4. \A c \in DOMAIN cards' : cards'[c] = [f \in CardFields |-> cards'[c][f]]
  BY DEF CardsOK, CardsInOrder
<1> QED BY <1>2, <1>3, <1>4 DEF CardsMove, CardsOK, CardsInOrder

(* The hints.                                                              *)
LEMMA HintsMove ==
  ASSUME CardsOK(cards, born), born' = born, NEW n \in DOMAIN cards, NEW x, NEW S,
         cards' = HintsWritten(n, x, S)
  PROVE  CardsMove /\ DOMAIN cards' = DOMAIN cards
<1>1. cards[n] = [f \in CardFields |-> cards[n][f]]
  BY DEF CardsOK, CardsInOrder
<1>2. DOMAIN cards' = DOMAIN cards /\ \A k \in DOMAIN cards \ {n} : cards'[k] = cards[k]
  BY DEF HintsWritten
<1>3. cards'[n] = [[cards[n] EXCEPT !.context = x] EXCEPT !.hints = cards[n].hints \cup S]
  BY <1>1 DEF HintsWritten, CardFields
<1>4. /\ cards'[n] = [f \in CardFields |-> cards'[n][f]]
      /\ cards'[n].name = cards[n].name /\ cards'[n].lines = cards[n].lines
      /\ cards'[n].status = cards[n].status
  BY <1>1, <1>3 DEF CardFields
<1> QED BY <1>2, <1>4, ChangeMoves

LEMMA OutcomeMoves ==
  ASSUME CardsOK(cards, born), born' = born, NEW c, NEW out \in HintsOutcomes(c), cards' = out[2]
  PROVE  /\ CardsMove /\ DOMAIN cards' = DOMAIN cards
         /\ \E at \in {"saved", "refused"} : /\ out[1] = On(c, at)
                                             /\ at = "refused" => ~Live(c.card)
<1>1. CASE out = <<On(c, "saved"), cards>> \/ (out = <<On(c, "refused"), cards>> /\ ~Live(c.card))
  BY <1>1 DEF CardsMove, CardsOK
<1>2. ASSUME Live(c.card), NEW x, NEW S, out = <<On(c, "saved"), HintsWritten(c.card, x, S)>>
      PROVE  CardsMove /\ DOMAIN cards' = DOMAIN cards /\ out[1] = On(c, "saved")
  BY <1>2, HintsMove DEF Live
<1>3. \/ out = <<On(c, "saved"), cards>>
      \/ out = <<On(c, "refused"), cards>> /\ ~Live(c.card)
      \/ /\ Live(c.card)
         /\ \E p \in BOOLEAN \X SUBSET DOMAIN cards[c.card].lines :
              out = <<On(c, "saved"), HintsWritten(c.card, p[1], p[2])>>
  BY DEF HintsOutcomes
<1> QED BY <1>1, <1>2, <1>3

-----------------------------------------------------------------------------
(* What stays while somebody else goes on.                                 *)
LEMMA UploadStays ==
  ASSUME CardsOK(cards, born), CardsMove, NEW c, UploadOK(c, born, DOMAIN cards)
  PROVE  UploadOK(c, born', DOMAIN cards')
BY DEF CardsMove, CardsOK, UploadOK

LEMMA ModalsRest ==
  ASSUME CardInv, CardsMove, modals' = modals
  PROVE  Modals'
BY UploadStays DEF CardInv, Modals

LEMMA ListsRest ==
  ASSUME CardInv, lists' = lists
  PROVE  Lists'
BY DEF CardInv, Lists

LEMMA UsersRest ==
  ASSUME CardInv, uses' = uses, DOMAIN cards \subseteq DOMAIN cards'
  PROVE  Users'
BY DEF CardInv, Users, Live

(* One modal moves, one list moves.                                        *)
LEMMA ModalMoves ==
  ASSUME CardInv, CardsMove, NEW m \in CardTabs, DOMAIN modals' = CardTabs,
         \A t \in CardTabs \ {m} : modals'[t] = modals[t],
         modals'[m] = [f \in ModalFields |-> modals'[m][f]],
         UploadOK(modals'[m].call, born', DOMAIN cards')
  PROVE  Modals'
<1>1. \A t \in CardTabs \ {m} : UploadOK(modals'[t].call, born', DOMAIN cards')
  BY UploadStays DEF CardInv, Modals
<1>2. \A t \in CardTabs : modals'[t] = [f \in ModalFields |-> modals'[t][f]]
  BY DEF CardInv, Modals
<1> QED BY <1>1, <1>2 DEF Modals

LEMMA ListMoves ==
  ASSUME CardInv, NEW l \in CardTabs, DOMAIN lists' = CardTabs,
         \A t \in CardTabs \ {l} : lists'[t] = lists[t],
         lists'[l] = [f \in ListFields |-> lists'[l][f]], SampleOK(lists'[l].call)
  PROVE  Lists'
<1>1. \A t \in CardTabs : lists'[t] = [f \in ListFields |-> lists'[t][f]]
  BY DEF CardInv, Lists
<1>2. \A t \in CardTabs : SampleOK(lists'[t].call)
  BY DEF CardInv, Lists
<1> QED BY <1>1, <1>2 DEF Lists

(* A call that is made, and one that goes on.                              *)
LEMMA Made ==
  ASSUME CardsOK(cards, born), NEW op, NEW name
  PROVE  /\ UploadOK(Call(op, 0, name), born, DOMAIN cards)
         /\ op \in DOMAIN Fixtures => SampleOK(Call(op, 0, name))
<1>1. PICK c : c = Call(op, 0, name)
  OBVIOUS
<1>2. c.card = 0 /\ c.at = "sent" /\ c.op = op /\ c = [f \in RequestFields |-> c[f]]
  BY <1>1 DEF Call, RequestFields
<1>4. UploadOK(c, born, DOMAIN cards)
  BY <1>2 DEF UploadOK, RequestShape, CardsOK
<1>5. op \in DOMAIN Fixtures => SampleOK(c)
  BY <1>2 DEF SampleOK, RequestShape
<1> QED BY <1>1, <1>4, <1>5

LEMMA NotIdle ==
  ASSUME NEW c, c.at # "none"
  PROVE  c # NoCardCall
BY DEF NoCardCall

LEMMA OnIs ==
  ASSUME NEW c, RequestShape(c), c.at # "none", NEW at
  PROVE  /\ On(c, at) = [f \in RequestFields |-> On(c, at)[f]] /\ On(c, at).at = at
         /\ On(c, at).op = c.op /\ On(c, at).card = c.card
<1>1. c = [f \in RequestFields |-> c[f]]
  BY DEF RequestShape, NoCardCall
<1> QED BY <1>1 DEF On, RequestFields

-----------------------------------------------------------------------------
(* The modal's presses.                                                    *)
LEMMA PressesKeep ==
  ASSUME CardInv, NEW m \in CardTabs,
         OpenModal(m) \/ PressUpload(m) \/ PressPaste(m) \/ CancelManual(m) \/ CloseModal(m)
           \/ OpenAnyway(m)
  PROVE  CardInv'
<1>1. CardsMove /\ Users'
  BY CardsRest, UsersRest DEF OpenModal, PressUpload, PressPaste, CancelManual, CloseModal,
     OpenAnyway, OthersOfModal
<1>2. Lists'
  <2>1. CASE CloseModal(m)
    <3>1. lists' = [lists EXCEPT ![m].reading = TRUE]
      BY <2>1 DEF CloseModal
    <3>2. DOMAIN lists = CardTabs /\ lists[m] = [f \in ListFields |-> lists[m][f]]
      BY DEF CardInv, Lists
    <3>3. /\ DOMAIN lists' = CardTabs /\ \A t \in CardTabs \ {m} : lists'[t] = lists[t]
          /\ lists'[m] = [f \in ListFields |-> lists'[m][f]] /\ lists'[m].call = lists[m].call
      BY <3>1, <3>2 DEF ListFields
    <3> QED BY <3>3, ListMoves DEF CardInv, Lists
  <2> QED BY <2>1, ListsRest DEF OpenModal, PressUpload, PressPaste, CancelManual, OpenAnyway,
                                 OthersOfModal
<1>3. /\ DOMAIN modals = CardTabs /\ modals[m] = [f \in ModalFields |-> modals[m][f]]
      /\ UploadOK(modals[m].call, born, DOMAIN cards) /\ CardsOK(cards, born)
  BY DEF CardInv, Modals
<1>4. Modals'
  <2>1. CASE OpenModal(m)
    <3>1. /\ DOMAIN modals' = CardTabs /\ \A t \in CardTabs \ {m} : modals'[t] = modals[t]
          /\ modals'[m] = [f \in ModalFields |-> modals'[m][f]] /\ modals'[m].call = NoCardCall
      BY <1>3, <2>1 DEF OpenModal, ModalFields
    <3> QED BY <1>1, <3>1, ModalMoves DEF UploadOK, RequestShape
  <2>2. ASSUME NEW op, NEW name, modals' = [modals EXCEPT ![m].call = Call(op, 0, name)]
        PROVE  Modals'
    <3>1. /\ DOMAIN modals' = CardTabs /\ \A t \in CardTabs \ {m} : modals'[t] = modals[t]
          /\ modals'[m] = [f \in ModalFields |-> modals'[m][f]]
          /\ modals'[m].call = Call(op, 0, name)
      BY <1>3, <2>2 DEF ModalFields
    <3> QED BY <1>1, <1>3, <3>1, ModalMoves, UploadStays, Made
  <2>3. ASSUME NEW op, NEW name,
               modals' = [modals EXCEPT ![m].call = Call(op, 0, name), ![m].warned = FALSE]
        PROVE  Modals'
    <3>1. /\ DOMAIN modals' = CardTabs /\ \A t \in CardTabs \ {m} : modals'[t] = modals[t]
          /\ modals'[m] = [f \in ModalFields |-> modals'[m][f]]
          /\ modals'[m].call = Call(op, 0, name)
      BY <1>3, <2>3 DEF ModalFields
    <3> QED BY <1>1, <1>3, <3>1, ModalMoves, UploadStays, Made
  <2>4. CASE CancelManual(m) \/ CloseModal(m) \/ OpenAnyway(m)
    <3>1. \/ modals' = [modals EXCEPT ![m].manual = FALSE]
          \/ modals' = [modals EXCEPT ![m].at = "closed"]
          \/ modals' = [modals EXCEPT ![m].at = "draft page"]
      BY <2>4 DEF CancelManual, CloseModal, OpenAnyway
    <3>2. /\ DOMAIN modals' = CardTabs /\ \A t \in CardTabs \ {m} : modals'[t] = modals[t]
          /\ modals'[m] = [f \in ModalFields |-> modals'[m][f]]
          /\ modals'[m].call = modals[m].call
      BY <1>3, <3>1 DEF ModalFields
    <3> QED BY <1>1, <1>3, <3>2, ModalMoves, UploadStays
  <2> QED BY <2>1, <2>2, <2>3, <2>4 DEF PressUpload, PressPaste, ModalCalls
<1> QED BY <1>1, <1>2, <1>4 DEF CardInv, CardsMove

(* A request of the modal that moves on, the rest as CardsMove says.       *)
LEMMA CallMoves ==
  ASSUME CardInv, CardsMove, DOMAIN cards \subseteq DOMAIN cards', OthersOfModal,
         NEW m \in CardTabs,
         NEW c, UploadOK(c, born', DOMAIN cards'), ModalCalls(m, c)
  PROVE  CardInv'
<1>1. DOMAIN modals = CardTabs /\ modals[m] = [f \in ModalFields |-> modals[m][f]]
  BY DEF CardInv, Modals
<1>2. /\ DOMAIN modals' = CardTabs /\ \A t \in CardTabs \ {m} : modals'[t] = modals[t]
      /\ modals'[m] = [f \in ModalFields |-> modals'[m][f]] /\ modals'[m].call = c
  BY <1>1 DEF ModalCalls, ModalFields
<1>3. Modals'
  BY <1>2, ModalMoves
<1> QED BY <1>3, ListsRest, UsersRest DEF OthersOfModal, CardInv, CardsMove

LEMMA SaveKeeps ==
  ASSUME CardInv, NEW m \in CardTabs, modals[m].call.at \in Unmade, NEW d,
         NEW after \in {"saving", "saved"}, SaveDraft(m, d, after), OthersOfModal
  PROVE  CardInv'
<1>1. PICK c : c = modals[m].call
  OBVIOUS
<1>2. UploadOK(c, born, DOMAIN cards) /\ c.at \in Unmade /\ CardsOK(cards, born)
  BY <1>1 DEF CardInv, Modals
<1>3. c = [f \in RequestFields |-> c[f]] /\ c.card = 0
  <2>1. c # NoCardCall
    BY <1>2, NotIdle DEF Unmade
  <2> QED BY <1>2, <2>1 DEF UploadOK, RequestShape
<1>4. /\ CardsMove /\ DOMAIN cards \subseteq DOMAIN cards' /\ (born' > born <=> Storable(d))
      /\ born' \in {born, born + 1}
  BY <1>2, CreateMoves DEF SaveDraft
<1>5. PICK at, n : /\ at = IF Storable(d) THEN after ELSE "refused"
                   /\ n = IF born' > born THEN born' ELSE 0
  OBVIOUS
<1>6. PICK e : e = [c EXCEPT !.at = IF Storable(d) THEN after ELSE "refused",
                             !.card = IF born' > born THEN born' ELSE 0,
                             !.warned = d.ok /\ d.warned]
  OBVIOUS
<1>7. ModalCalls(m, e)
  BY <1>1, <1>6 DEF SaveDraft
<1>8. e = [f \in RequestFields |-> e[f]] /\ e.at = at /\ e.card = n
  <2>1. PICK w : w = (d.ok /\ d.warned)
    OBVIOUS
  <2>2. e = [c EXCEPT !.at = at, !.card = n, !.warned = w]
    BY <1>5, <1>6, <2>1, Zenon
  <2> QED BY <1>3, <2>2 DEF RequestFields
<1>9. n \in 0 .. born' /\ (at = "refused" => n = 0) /\ at \notin Unmade
  <2>1. born \in Nat /\ born' \in Nat
    BY <1>2, <1>4 DEF CardsOK
  <2>2. CASE Storable(d)
    <3>1. at = after
      BY <1>5, <2>2, Zenon
    <3>2. n = born'
      BY <1>4, <1>5, <2>2, Zenon
    <3>3. n \in 0 .. born'
      BY <2>1, <3>2
    <3>4. at = "refused" => n = 0
      BY <3>1, <3>2
    <3>5. at \notin Unmade
      BY <3>1 DEF Unmade
    <3> QED BY <3>3, <3>4, <3>5
  <2>3. CASE ~Storable(d)
    <3>1. at = "refused"
      BY <1>5, <2>3, Zenon
    <3>2. n = 0
      BY <1>4, <1>5, <2>3, Zenon
    <3>3. n \in 0 .. born'
      BY <2>1, <3>2
    <3>4. at = "refused" => n = 0
      BY <3>1, <3>2
    <3>5. at \notin Unmade
      BY <3>1 DEF Unmade
    <3> QED BY <3>3, <3>4, <3>5
  <2> QED BY <2>2, <2>3
<1>10. 0 \notin DOMAIN cards'
  BY <1>4 DEF CardsMove, CardsOK
<1>11. UploadOK(e, born', DOMAIN cards')
  BY <1>8, <1>9, <1>10 DEF UploadOK, RequestShape
<1> QED BY <1>4, <1>7, <1>11, CallMoves

(* A call that is refused, asks, or gets its hints.                        *)
LEMMA AskKeeps ==
  ASSUME CardInv, NEW m \in CardTabs, OthersOfModal, cards' = cards, born' = born, NEW at,
         NEW c, c = modals[m].call, c.at # "none", ModalCalls(m, On(c, at)),
         at \in Unmade => c.card = 0, at = "refused" => ~Live(c.card)
  PROVE  CardInv'
<1>1. RequestShape(c) /\ UploadOK(c, born, DOMAIN cards)
  BY DEF CardInv, Modals, UploadOK
<1>2. c # NoCardCall
  BY NotIdle
<1>3. PICK e : e = On(c, at)
  OBVIOUS
<1>4. e = [f \in RequestFields |-> e[f]] /\ e.at = at /\ e.card = c.card
  BY <1>1, <1>3, OnIs
<1>5. UploadOK(e, born', DOMAIN cards')
  BY <1>1, <1>2, <1>4 DEF UploadOK, RequestShape, Live
<1> QED BY <1>3, <1>5, CardsRest, CallMoves

LEMMA ServesKeep ==
  ASSUME CardInv, NEW m \in CardTabs,
         ServeUpload(m) \/ ReplyComes(m) \/ UploadHintsRead(m) \/ UploadHintsWritten(m)
  PROVE  CardInv'
<1>1. PICK c : c = modals[m].call
  OBVIOUS
<1>2. UploadOK(c, born, DOMAIN cards) /\ CardsOK(cards, born)
  BY <1>1 DEF CardInv, Modals
<1>3. ASSUME c.at \in Unmade PROVE c.card = 0 /\ ~Live(c.card)
  <2>1. c # NoCardCall
    BY <1>3, NotIdle DEF Unmade
  <2> QED BY <1>2, <1>3, <2>1 DEF UploadOK, CardsOK, Live
<1>4. CASE ServeUpload(m)
  <2>1. c.at = "sent" /\ OthersOfModal
    BY <1>1, <1>4 DEF ServeUpload
  <2>2. CASE c.op = "parse"
    BY <1>1, <1>4, <2>1, <2>2, SaveKeeps DEF ServeUpload, Unmade
  <2>3. CASE c.op = "paste"
    BY <1>1, <1>4, <2>1, <2>3, SaveKeeps DEF ServeUpload, Unmade
  <2>4. CASE c.op \notin {"parse", "paste"}
    <3>1. PICK at : at = CASE cScene.provider = "auto"   -> "asking reply"
                           [] cScene.provider = "manual" -> "prompt"
                           [] OTHER                      -> "refused"
      OBVIOUS
    <3>2. ModalCalls(m, On(c, at)) /\ cards' = cards /\ born' = born
      BY <1>1, <1>4, <2>4, <3>1 DEF ServeUpload
    <3>3. c.at # "none" /\ c.at \in Unmade
      BY <2>1 DEF Unmade
    <3> QED BY <1>1, <1>3, <2>1, <3>2, <3>3, AskKeeps
  <2> QED BY <2>2, <2>3, <2>4
<1>5. CASE ReplyComes(m)
  <2>1. c.at = "asking reply" /\ OthersOfModal
    BY <1>1, <1>5 DEF ReplyComes
  <2>2. CASE \E r \in cScene.replies : SaveDraft(m, ParseReply(r, c.name), "saved")
    BY <1>1, <2>1, <2>2, SaveKeeps DEF Unmade
  <2>3. CASE ModalCalls(m, On(c, "refused")) /\ UNCHANGED <<cards, born>>
    <3>1. c.at # "none" /\ c.at \in Unmade
      BY <2>1 DEF Unmade
    <3> QED BY <1>1, <1>3, <2>1, <2>3, <3>1, AskKeeps DEF Unmade
  <2> QED BY <1>1, <1>5, <2>2, <2>3 DEF ReplyComes
<1>6. CASE UploadHintsRead(m)
  <2>1. c.at = "saving" /\ OthersOfModal /\ cards' = cards /\ born' = born
    BY <1>1, <1>6 DEF UploadHintsRead
  <2>2. PICK at \in {"refused", "saved", "asking hints"} :
          ModalCalls(m, On(c, at)) /\ (at = "refused" => ~Live(c.card))
    BY <1>1, <1>6 DEF UploadHintsRead, HintsRead
  <2>3. at \notin Unmade /\ c.at # "none"
    BY <2>1 DEF Unmade
  <2> QED BY <1>1, <2>1, <2>2, <2>3, AskKeeps
<1>7. CASE UploadHintsWritten(m)
  <2>1. PICK out \in HintsOutcomes(c) : ModalCalls(m, out[1]) /\ cards' = out[2]
    BY <1>1, <1>7 DEF UploadHintsWritten
  <2>2. c.at = "asking hints" /\ OthersOfModal /\ born' = born
    BY <1>1, <1>7 DEF UploadHintsWritten
  <2>3. c # NoCardCall /\ RequestShape(c)
    BY <1>2, <2>2, NotIdle DEF UploadOK
  <2>4. PICK at \in {"saved", "refused"} :
          /\ CardsMove /\ DOMAIN cards' = DOMAIN cards
          /\ out[1] = On(c, at) /\ (at = "refused" => ~Live(c.card))
    BY <1>2, <2>1, <2>2, OutcomeMoves
  <2>5. PICK e : e = On(c, at)
    OBVIOUS
  <2>6. e = [f \in RequestFields |-> e[f]] /\ e.at = at /\ e.card = c.card
    <3>1. c.at # "none"
      BY <2>2
    <3> QED BY <2>3, <2>5, <3>1, OnIs
  <2>7. at \notin Unmade
    BY DEF Unmade
  <2>8. UploadOK(e, born', DOMAIN cards')
    BY <1>2, <2>2, <2>3, <2>4, <2>6, <2>7 DEF UploadOK, RequestShape, Live
  <2> QED BY <2>1, <2>2, <2>4, <2>5, <2>8, CallMoves
<1> QED BY <1>4, <1>5, <1>6, <1>7

LEMMA AnsweredKeeps ==
  ASSUME CardInv, NEW m \in CardTabs, UploadAnswered(m)
  PROVE  CardInv'
<1>1. CardsMove /\ Users' /\ Lists'
  BY CardsRest, UsersRest, ListsRest DEF UploadAnswered, OthersOfModal
<1>2. DOMAIN modals = CardTabs /\ modals[m] = [f \in ModalFields |-> modals[m][f]]
  BY DEF CardInv, Modals
<1>3. PICK a, b, n, w : modals' = [modals EXCEPT ![m].call = NoCardCall, ![m].manual = a,
                                     ![m].warned = b, ![m].saved = n, ![m].at = w]
  BY DEF UploadAnswered
<1>4. /\ DOMAIN modals' = CardTabs /\ \A t \in CardTabs \ {m} : modals'[t] = modals[t]
      /\ modals'[m] = [f \in ModalFields |-> modals'[m][f]] /\ modals'[m].call = NoCardCall
  BY <1>2, <1>3 DEF ModalFields
<1>5. Modals'
  BY <1>1, <1>4, ModalMoves DEF UploadOK, RequestShape
<1> QED BY <1>1, <1>5 DEF CardInv, CardsMove

-----------------------------------------------------------------------------
(* The hints asked for by hand, and the page of one card.                  *)
LEMMA BesidesKeep ==
  ASSUME CardInv, CardsMove, DOMAIN cards \subseteq DOMAIN cards', uses' = uses,
         modals' = modals, lists' = lists
  PROVE  CardInv'
BY ModalsRest, ListsRest, UsersRest DEF CardInv, CardsMove

LEMMA RegenerateKeeps ==
  ASSUME CardInv, RegenerateHints \/ RegenerateReads \/ RegenerateWrites \/ RegenerateEnds
  PROVE  CardInv'
<1>1. uses' = uses /\ modals' = modals /\ lists' = lists /\ born' = born
  BY DEF RegenerateHints, RegenerateReads, RegenerateWrites, RegenerateEnds
<1>2. CASE cards' = cards
  BY <1>1, <1>2, CardsRest, BesidesKeep
<1>3. CASE RegenerateWrites
  <2>1. PICK out \in HintsOutcomes(regen) : cards' = out[2]
    BY <1>3 DEF RegenerateWrites
  <2>2. CardsMove /\ DOMAIN cards' = DOMAIN cards
    BY <1>1, <2>1, OutcomeMoves DEF CardInv
  <2> QED BY <1>1, <2>2, BesidesKeep
<1> QED BY <1>2, <1>3 DEF RegenerateHints, RegenerateReads, RegenerateEnds

LEMMA PagesKeep ==
  ASSUME CardInv, NEW d \in Details, PressOnCard(d) \/ ServeCard(d) \/ CardAnswered(d)
  PROVE  CardInv'
<1>1. uses' = uses /\ modals' = modals /\ lists' = lists /\ born' = born
  BY DEF PressOnCard, ServeCard, CardAnswered
<1>2. CASE cards' = cards
  BY <1>1, <1>2, CardsRest, BesidesKeep
<1>3. CASE ServeCard(d) /\ MayServe(details[d].call)
  <2>1. PICK c, n, status : /\ c = details[d].call /\ n = c.card
                            /\ status = IF c.op = "publish" THEN "published" ELSE "archived"
    OBVIOUS
  <2>2. cards' = [cards EXCEPT ![n].status = status] /\ n \in DOMAIN cards
    BY <1>3, <2>1 DEF ServeCard, MayServe, Live
  <2>3. status = "published" => cards[n].status = "published" \/ Publishable(cards[n])
    BY <1>3, <2>1 DEF MayServe, MayPublish
  <2>4. cards[n] = [f \in CardFields |-> cards[n][f]] /\ CardsOK(cards, born)
    BY <2>2 DEF CardInv, CardsOK, CardsInOrder
  <2>5. /\ DOMAIN cards' = DOMAIN cards /\ \A k \in DOMAIN cards \ {n} : cards'[k] = cards[k]
        /\ cards'[n] = [f \in CardFields |-> cards'[n][f]]
        /\ cards'[n].name = cards[n].name /\ cards'[n].lines = cards[n].lines
        /\ cards'[n].status = status
    BY <2>2, <2>4 DEF CardFields
  <2>6. CardsMove
    BY <1>1, <2>2, <2>3, <2>4, <2>5, ChangeMoves
  <2> QED BY <1>1, <2>5, <2>6, BesidesKeep
<1> QED BY <1>2, <1>3 DEF PressOnCard, ServeCard, CardAnswered

-----------------------------------------------------------------------------
(* The lists, the samples and the deletions.                               *)
LEMMA BindKeeps ==
  ASSUME CardInv, NEW u, NEW n, PointAt(u, n), cards' = cards
  PROVE  Users'
<1>1. CASE Live(n)
  <2>1. /\ DOMAIN uses' = DOMAIN uses \cup {u} /\ uses'[u] = n
        /\ \A v \in DOMAIN uses \ {u} : uses'[v] = uses[v]
    BY <1>1 DEF PointAt, PutAt
  <2> QED BY <1>1, <2>1 DEF CardInv, Users, Live
<1>2. CASE ~Live(n)
  BY <1>2, UsersRest DEF PointAt
<1> QED BY <1>1, <1>2

LEMMA ListCallMoves ==
  ASSUME CardInv, NEW l \in CardTabs, NEW e, SampleOK(e), lists' = [lists EXCEPT ![l].call = e]
  PROVE  Lists'
<1>1. DOMAIN lists = CardTabs /\ lists[l] = [f \in ListFields |-> lists[l][f]]
  BY DEF CardInv, Lists
<1>2. /\ DOMAIN lists' = CardTabs /\ \A t \in CardTabs \ {l} : lists'[t] = lists[t]
      /\ lists'[l] = [f \in ListFields |-> lists'[l][f]] /\ lists'[l].call = e
  BY <1>1 DEF ListFields
<1> QED BY <1>2, ListMoves

LEMMA InstalledIs ==
  ASSUME NEW c, RequestShape(c), c.at # "none", NEW n,
         NEW e, e = [c EXCEPT !.at = "installed", !.card = n]
  PROVE  SampleOK(e)
<1>1. c = [f \in RequestFields |-> c[f]]
  BY NotIdle DEF RequestShape
<1>2. e = [f \in RequestFields |-> e[f]] /\ e.at = "installed"
  BY <1>1 DEF RequestFields
<1> QED BY <1>2 DEF SampleOK, RequestShape

LEMMA LooksKeep ==
  ASSUME CardInv, NEW l \in CardTabs,
         ReadList(l) \/ PressSample(l) \/ LookForSample(l) \/ StartDelete(l) \/ UsageRead(l)
           \/ CancelDelete(l)
  PROVE  CardInv'
<1>1. CardsMove /\ Users' /\ Modals'
  BY CardsRest, UsersRest, ModalsRest
     DEF ReadList, PressSample, LookForSample, StartDelete, UsageRead, CancelDelete, OthersOfList
<1>2. /\ DOMAIN lists = CardTabs /\ lists[l] = [f \in ListFields |-> lists[l][f]]
      /\ SampleOK(lists[l].call) /\ CardsOK(cards, born)
  BY DEF CardInv, Lists
<1>3. PICK c : c = lists[l].call
  OBVIOUS
<1>4. ASSUME NEW e, SampleOK(e), lists' = [lists EXCEPT ![l].call = e]
      PROVE  Lists'
  BY <1>4, ListCallMoves
<1>5. ASSUME PressSample(l) PROVE Lists'
  BY <1>2, <1>4, <1>5, Made DEF PressSample, ListCalls
<1>6. ASSUME LookForSample(l) PROVE Lists'
  <2>1. c.at = "sent" /\ c.op \in DOMAIN Fixtures
    BY <1>3, <1>6 DEF LookForSample
  <2>2. RequestShape(c) /\ c.at # "none"
    BY <1>2, <1>3, <2>1 DEF SampleOK
  <2>3. ASSUME lists' = [lists EXCEPT ![l].call = On(c, "making")] PROVE Lists'
    <3>1. PICK e : e = On(c, "making")
      OBVIOUS
    <3>2. e = [f \in RequestFields |-> e[f]] /\ e.at = "making" /\ e.op = c.op
      BY <2>2, <3>1, OnIs
    <3> QED BY <1>4, <2>1, <2>3, <3>1, <3>2 DEF SampleOK, RequestShape
  <2>4. ASSUME NEW n, lists' = [lists EXCEPT ![l].call = [c EXCEPT !.at = "installed", !.card = n]]
        PROVE  Lists'
    <3>1. PICK e : e = [c EXCEPT !.at = "installed", !.card = n]
      OBVIOUS
    <3>2. SampleOK(e)
      BY <2>2, <3>1, InstalledIs
    <3> QED BY <1>4, <2>4, <3>1, <3>2
  <2> QED BY <1>3, <1>6, <2>3, <2>4 DEF LookForSample, ListCalls
<1>7. ASSUME ReadList(l) \/ StartDelete(l) \/ UsageRead(l) \/ CancelDelete(l) PROVE Lists'
  <2>1. \/ lists' = [lists EXCEPT ![l].reading = FALSE, ![l].items = DOMAIN cards]
        \/ \E p : lists' = [lists EXCEPT ![l].pending = p]
        \/ \E b : lists' = [lists EXCEPT ![l].pending.at = "shown", ![l].pending.bound = b]
    BY <1>7 DEF ReadList, StartDelete, UsageRead, CancelDelete
  <2>2. /\ DOMAIN lists' = CardTabs /\ \A t \in CardTabs \ {l} : lists'[t] = lists[t]
        /\ lists'[l] = [f \in ListFields |-> lists'[l][f]] /\ lists'[l].call = lists[l].call
    BY <1>2, <2>1 DEF ListFields
  <2>3. SampleOK(lists'[l].call)
    BY <1>2, <2>2 DEF SampleOK, RequestShape
  <2> QED BY <2>2, <2>3, ListMoves
<1>8. Lists'
  BY <1>5, <1>6, <1>7
<1> QED BY <1>1, <1>8 DEF CardInv, CardsMove

LEMMA MakesKeep ==
  ASSUME CardInv, NEW l \in CardTabs, MakeSample(l)
  PROVE  CardInv'
<1>1. PICK c : c = lists[l].call
  OBVIOUS
<1>2. /\ DOMAIN lists = CardTabs /\ lists[l] = [f \in ListFields |-> lists[l][f]]
      /\ SampleOK(c) /\ CardsOK(cards, born) /\ c.at = "making"
  BY <1>1 DEF CardInv, Lists, MakeSample
<1>3. c.op \in DOMAIN Fixtures /\ RequestShape(c) /\ c.at # "none"
  BY <1>2 DEF SampleOK
<1>4. PICK d : d = Fixtures[c.op]
  OBVIOUS
<1>5. Publishable(CardOf(d, "published"))
  BY <1>3, <1>4, RateCardsAssumption
<1>6. CreateCard(d, "published") /\ OthersOfList /\ uses' = uses
  BY <1>1, <1>4 DEF MakeSample
<1>7. CardsMove /\ DOMAIN cards \subseteq DOMAIN cards'
  BY <1>2, <1>5, <1>6, CreateMoves
<1>8. ASSUME lists' = [lists EXCEPT ![l].call = On(c, "refused")] PROVE Lists'
  <2>1. PICK e : e = On(c, "refused")
    OBVIOUS
  <2>2. e = [f \in RequestFields |-> e[f]] /\ e.at = "refused"
    BY <1>3, <2>1, OnIs
  <2>3. SampleOK(e)
    BY <2>2 DEF SampleOK, RequestShape
  <2> QED BY <1>8, <2>1, <2>3, ListCallMoves
<1>9. ASSUME NEW n, lists' = [lists EXCEPT ![l].call = [c EXCEPT !.at = "installed", !.card = n]]
      PROVE  Lists'
  <2>1. PICK e : e = [c EXCEPT !.at = "installed", !.card = n]
    OBVIOUS
  <2> QED BY <1>3, <1>9, <2>1, InstalledIs, ListCallMoves
<1>10. Lists'
  BY <1>1, <1>4, <1>8, <1>9 DEF MakeSample, ListCalls
<1> QED BY <1>6, <1>7, <1>10, ModalsRest, UsersRest DEF CardInv, CardsMove, OthersOfList

LEMMA InstalledKeeps ==
  ASSUME CardInv, NEW l \in CardTabs, SampleInstalled(l)
  PROVE  CardInv'
<1>1. CardsMove /\ Modals' /\ cards' = cards
  BY CardsRest, ModalsRest DEF SampleInstalled, OthersOfList
<1>2. Users'
  BY <1>1, BindKeeps, UsersRest DEF SampleInstalled
<1>3. DOMAIN lists = CardTabs /\ lists[l] = [f \in ListFields |-> lists[l][f]]
  BY DEF CardInv, Lists
<1>4. \/ lists' = [lists EXCEPT ![l].reading = TRUE, ![l].call = NoCardCall]
      \/ lists' = [lists EXCEPT ![l].call = NoCardCall]
  BY DEF SampleInstalled, Refreshing
<1>5. /\ DOMAIN lists' = CardTabs /\ \A t \in CardTabs \ {l} : lists'[t] = lists[t]
      /\ lists'[l] = [f \in ListFields |-> lists'[l][f]] /\ lists'[l].call = NoCardCall
  BY <1>3, <1>4 DEF ListFields
<1>6. SampleOK(NoCardCall)
  BY DEF SampleOK, RequestShape, NoCardCall
<1>7. Lists'
  BY <1>5, <1>6, ListMoves
<1> QED BY <1>1, <1>2, <1>7 DEF CardInv, CardsMove

LEMMA DeletesKeep ==
  ASSUME CardInv, NEW l \in CardTabs, ConfirmDelete(l)
  PROVE  CardInv'
<1>1. PICK n : n = lists[l].pending.card
  OBVIOUS
<1>2. CASE ~Live(n)
  BY <1>1, <1>2, CardsRest, BesidesKeep DEF ConfirmDelete, OthersOfList
<1>3. CASE Live(n)
  <2>1. /\ cards' = [c \in DOMAIN cards \ {n} |-> cards[c]] /\ born' = born /\ modals' = modals
        /\ uses' = [u \in DOMAIN uses |-> IF uses[u] = n THEN 0 ELSE uses[u]]
        /\ lists' = [Refreshing(l) EXCEPT ![l].pending = NoCardCall, ![l].call = lists[l].call]
    BY <1>1, <1>3 DEF ConfirmDelete, OthersOfList
  <2>2. DOMAIN cards' = DOMAIN cards \ {n} /\ \A c \in DOMAIN cards' : cards'[c] = cards[c]
    BY <2>1
  <2>3. CardsMove
    BY <2>1, <2>2 DEF CardInv, CardsOK, CardsInOrder, CardsMove
  <2>4. Users'
    BY <2>1, <2>2 DEF CardInv, Users, Live
  <2>5. /\ DOMAIN lists = CardTabs /\ lists[l] = [f \in ListFields |-> lists[l][f]]
        /\ SampleOK(lists[l].call)
    BY DEF CardInv, Lists
  <2>6. /\ DOMAIN lists' = CardTabs /\ \A t \in CardTabs \ {l} : lists'[t] = lists[t]
        /\ lists'[l] = [f \in ListFields |-> lists'[l][f]] /\ lists'[l].call = lists[l].call
    BY <2>1, <2>5 DEF Refreshing, ListFields
  <2>7. Lists'
    BY <2>5, <2>6, ListMoves
  <2> QED BY <2>1, <2>3, <2>4, <2>7, ModalsRest DEF CardInv, CardsMove
<1> QED BY <1>2, <1>3

LEMMA BindCardKeeps ==
  ASSUME CardInv, BindCard
  PROVE  CardInv'
<1>1. CardsMove /\ Modals' /\ Lists'
  BY CardsRest, ModalsRest, ListsRest DEF BindCard, cardPages
<1>2. Users'
  BY BindKeeps DEF BindCard
<1> QED BY <1>1, <1>2 DEF CardInv, CardsMove

(* Whatever uploads, samples, deletions and pages interleave.              *)
THEOREM CardInvariant == RateCardsSpec => []CardInv
<1>1. RateCardsInit => CardInv
  <2> SUFFICES ASSUME RateCardsInit PROVE CardInv
    OBVIOUS
  <2>1. CardsOK(cards, born)
    <3>1. DOMAIN cards = 1 .. born /\ born \in Nat /\ CardsInOrder(cards)
      BY RateCardsAssumption, FS_CardinalityType DEF RateCardsInit
    <3> QED BY <3>1 DEF CardsOK
  <2>2. Modals
    BY DEF RateCardsInit, Modals, UploadOK, RequestShape, ModalFields
  <2>3. Lists
    BY DEF RateCardsInit, Lists, SampleOK, RequestShape, ListFields, NoCardCall
  <2>4. Users
    BY DEF RateCardsInit, Users
  <2> QED BY <2>1, <2>2, <2>3, <2>4 DEF CardInv
<1>2. CardInv /\ [RateCardsNext]_cardVars => CardInv'
  <2> SUFFICES ASSUME CardInv, [RateCardsNext]_cardVars PROVE CardInv'
    OBVIOUS
  <2>1. CASE UNCHANGED cardVars
    BY <2>1, CardsRest, BesidesKeep DEF cardVars, cardPages
  <2> QED
    BY <2>1, PressesKeep, ServesKeep, AnsweredKeeps, RegenerateKeeps, PagesKeep, LooksKeep,
       MakesKeep, InstalledKeeps, DeletesKeep, BindCardKeeps DEF RateCardsNext
<1> QED BY <1>1, <1>2, PTL DEF RateCardsSpec

(* A name stays with one card, a refused upload left none behind, what     *)
(* points at a card points at one that is there, and no published card has *)
(* two tiers for one scope.                                                *)
THEOREM CardsCorrect == RateCardsSpec => []CardsHold
<1>1. CardInv => CardsHold
  <2> SUFFICES ASSUME CardInv PROVE CardsHold
    OBVIOUS
  <2>1. ASSUME NEW m \in CardTabs, modals[m].call.at = "refused"
        PROVE  ~Live(modals[m].call.card)
    BY <2>1, NotIdle DEF CardInv, Modals, UploadOK, Live
  <2> QED BY <2>1 DEF CardInv, CardsOK, CardsInOrder, Users, CardsHold
<1> QED BY <1>1, CardInvariant, PTL

-----------------------------------------------------------------------------
(* The steps of a request, and which may come after which.                 *)
Edits == {"bind", "context", "infer", "merge", "open", "save"}
Priced == {"count", "pin", "price"}
StepNames == Edits \cup Priced \cup {"scope", "quote"}
IsSeq(s) == \E S : s \in Seq(S)
Succ(a, b) ==
  /\ b # "open"
  /\ a = "open" => b = "save"
  /\ a = "infer" <=> b = "merge"
  /\ a = "scope" <=> b = "quote"
  /\ a = "count" <=> b = "pin"
  /\ a = "pin" <=> b = "price"
Owes(s) == \E k \in 1 .. Len(s) : s[k].do = "scope"
At(s, do) == s # <<>> /\ s[1].do = do

(* Whatever edits is followed by a compute, and no edit and no compute     *)
(* comes after a count.                                                    *)
Shape(s) ==
  /\ IsSeq(s) /\ \A i \in 1 .. Len(s) : s[i].do \in StepNames
  /\ \A i \in 1 .. Len(s) : i < Len(s) => Succ(s[i].do, s[i + 1].do)
  /\ \A i \in 1 .. Len(s) : s[i].do \in {"scope", "infer"} => i < Len(s)
  /\ \A i \in 1 .. Len(s) : s[i].do \in Edits => \E k \in 1 .. Len(s) : i < k /\ s[k].do = "scope"
  /\ \A i, k \in 1 .. Len(s) : i < k /\ s[i].do \in Priced => s[k].do \in Priced

LEMMA NotEmpty ==
  ASSUME NEW S, NEW r \in Seq(S), Len(r) # 0
  PROVE  r # <<>>
BY EmptySeq

(* What is left of a request keeps the shape.                              *)
LEMMA Suffix ==
  ASSUME NEW s, Shape(s), NEW n \in 1 .. Len(s), NEW r, r = SubSeq(s, n + 1, Len(s))
  PROVE  /\ Shape(r)
         /\ Owes(s) /\ (\A i \in 1 .. n : s[i].do # "scope") => Owes(r)
         /\ s[n].do \in Edits => Owes(r)
         /\ s[n].do \in Priced => ~Owes(r)
         /\ \A do \in StepNames : At(r, do) => Succ(s[n].do, do)
         /\ s[n].do = "scope" => At(r, "quote")
<1>0. PICK S : s \in Seq(S)
  BY DEF Shape, IsSeq
<1>1. Len(s) \in Nat /\ \A i \in 1 .. Len(s) : s[i] \in S
  BY <1>0
<1>2. /\ r \in Seq(S) /\ Len(r) = Len(s) - n
      /\ \A i \in 1 .. Len(s) - n : r[i] = s[i + n]
  <2>1. \A i \in n + 1 .. Len(s) : s[i] \in S
    BY <1>1
  <2>2. n + 1 \in Int /\ Len(s) \in Int
    BY <1>1
  <2>3. /\ r \in Seq(S) /\ Len(r) = IF n + 1 <= Len(s) THEN Len(s) - (n + 1) + 1 ELSE 0
        /\ \A i \in 1 .. Len(s) - (n + 1) + 1 : r[i] = s[n + 1 + i - 1]
    BY <2>1, <2>2, SubSeqProperties
  <2> QED BY <1>1, <2>3
<1>3. \A k \in 1 .. Len(s) : k > n => k - n \in 1 .. Len(r) /\ r[k - n] = s[k]
  BY <1>1, <1>2
<1>4. \A i \in 1 .. Len(r) : i + n \in 1 .. Len(s) /\ r[i] = s[i + n]
  BY <1>1, <1>2
<1>5. Shape(r)
  <2>1. \A i \in 1 .. Len(r) : i < Len(r) => Succ(r[i].do, r[i + 1].do)
    <3> SUFFICES ASSUME NEW i \in 1 .. Len(r), i < Len(r) PROVE Succ(r[i].do, r[i + 1].do)
      OBVIOUS
    <3>1. i + 1 \in 1 .. Len(s) - n /\ i + n \in 1 .. Len(s) /\ i + n < Len(s)
      BY <1>1, <1>2
    <3>2. r[i] = s[i + n] /\ r[i + 1] = s[(i + 1) + n] /\ (i + 1) + n = (i + n) + 1
      BY <1>1, <1>2, <3>1
    <3> QED BY <3>1, <3>2 DEF Shape
  <2>2. \A i \in 1 .. Len(r) : r[i].do \in {"scope", "infer"} => i < Len(r)
    BY <1>1, <1>2, <1>4 DEF Shape
  <2>3. ASSUME NEW i \in 1 .. Len(r), r[i].do \in Edits
        PROVE  \E k \in 1 .. Len(r) : i < k /\ r[k].do = "scope"
    <3>1. i + n \in 1 .. Len(s) /\ s[i + n].do \in Edits
      BY <1>4, <2>3
    <3>2. PICK k \in 1 .. Len(s) : i + n < k /\ s[k].do = "scope"
      BY <3>1 DEF Shape
    <3>3. k - n \in 1 .. Len(r) /\ i < k - n /\ r[k - n].do = "scope"
      <4>1. k > n /\ i < k - n
        BY <1>1, <1>2, <3>2
      <4> QED BY <1>3, <3>2, <4>1
    <3> QED BY <3>3
  <2>4. \A i, k \in 1 .. Len(r) : i < k /\ r[i].do \in Priced => r[k].do \in Priced
    BY <1>1, <1>2, <1>4 DEF Shape
  <2>5. \A i \in 1 .. Len(r) : r[i].do \in StepNames
    BY <1>4 DEF Shape
  <2> QED BY <1>2, <2>1, <2>2, <2>3, <2>4, <2>5 DEF Shape, IsSeq
<1>6. Owes(s) /\ (\A i \in 1 .. n : s[i].do # "scope") => Owes(r)
  <2> SUFFICES ASSUME Owes(s), \A i \in 1 .. n : s[i].do # "scope" PROVE Owes(r)
    OBVIOUS
  <2>1. PICK k \in 1 .. Len(s) : s[k].do = "scope"
    BY DEF Owes
  <2>2. k > n
    BY <1>1, <2>1
  <2> QED BY <1>3, <2>1, <2>2 DEF Owes
<1>7. s[n].do \in Edits => Owes(r)
  <2> SUFFICES ASSUME s[n].do \in Edits PROVE Owes(r)
    OBVIOUS
  <2>1. PICK k \in 1 .. Len(s) : n < k /\ s[k].do = "scope"
    BY DEF Shape
  <2> QED BY <1>3, <2>1 DEF Owes
<1>8. s[n].do \in Priced => ~Owes(r)
  <2> SUFFICES ASSUME s[n].do \in Priced, NEW i \in 1 .. Len(r), r[i].do = "scope" PROVE FALSE
    BY DEF Owes
  <2>1. i + n \in 1 .. Len(s) /\ n < i + n /\ s[i + n].do = "scope"
    BY <1>4, <1>1
  <2>2. s[i + n].do \in Priced
    BY <2>1 DEF Shape
  <2> QED BY <2>1, <2>2 DEF Priced
<1>9. r # <<>> => 1 \in 1 .. Len(r) /\ n < Len(s) /\ r[1] = s[n + 1]
  BY <1>1, <1>2
<1>10. \A do \in StepNames : At(r, do) => Succ(s[n].do, do)
  BY <1>9 DEF At, Shape
<1>11. s[n].do = "scope" => At(r, "quote")
  <2> SUFFICES ASSUME s[n].do = "scope" PROVE At(r, "quote")
    OBVIOUS
  <2>1. n < Len(s) /\ Succ(s[n].do, s[n + 1].do)
    BY DEF Shape
  <2>2. 1 \in 1 .. Len(r) /\ r[1] = s[n + 1]
    BY <1>1, <1>2, <2>1
  <2>3. r # <<>>
    <3>1. Len(r) # 0
      BY <1>1, <1>2, <2>1
    <3> QED BY <1>2, <3>1, NotEmpty
  <2> QED BY <2>1, <2>2, <2>3 DEF At, Succ
<1> QED BY <1>5, <1>6, <1>7, <1>8, <1>10, <1>11

-----------------------------------------------------------------------------
(* A tab and its request.                                                  *)
TabFields == {"steps", "job", "got", "fresh"}
TabOK(w) ==
  /\ w = [f \in TabFields |-> w[f]]
  /\ w.job = [f \in DOMAIN w.job |-> w.job[f]] /\ "kind" \in DOMAIN w.job
  /\ w.job.kind = "none" => w.steps = <<>>
  /\ Shape(w.steps)
TodoOK ==
  /\ DOMAIN todo = Tabs /\ \A t \in Tabs : TabOK(todo[t])
  /\ dWorld.tabs = 1 => \A t, u \in Busy : t = u

(* The price on file, and what a request that is about to store one got.   *)
Current == card # NoRateCard => quote = BaseOf(Scope, DeskCards[card])
Due(got) == card # NoRateCard => got = BaseOf(Scope, DeskCards[card])
Settling(w) ==
  /\ Owes(w.steps) \/ At(w.steps, "quote") \/ Current
  /\ At(w.steps, "quote") => Due(w.got)
  /\ At(w.steps, "open") => Current
QuoteInv == Calm => /\ Busy = {} => Current
                    /\ \A t \in Busy : Settling(todo[t])

(* The count a request has, read when none or the same was pinned.         *)
Pinning(w) ==
  /\ At(w.steps, "pin") => /\ w.fresh.seen = pin /\ w.fresh.closed # NoPin
                           /\ pin # NoPin => w.fresh.closed = pin
  /\ At(w.steps, "price") => w.fresh.closed = pin /\ pin # NoPin
PinInv == /\ preds \in Seq(Range(preds)) /\ closed \in Nat
          /\ dWorld.tabs = 1 =>
               /\ \A i \in 1 .. Len(preds) : preds[i].closed = pin /\ pin # NoPin
               /\ \A t \in Tabs : Pinning(todo[t])

LEMMA TabStep ==
  ASSUME TodoOK, NEW t \in Busy, NEW w, TabOK(w), todo' = [todo EXCEPT ![t] = w],
         dWorld' = dWorld, w.job.kind # "none"
  PROVE  /\ TodoOK' /\ Busy' = Busy /\ todo'[t] = w
         /\ \A u \in Tabs \ {t} : todo'[u] = todo[u]
<1>1. t \in Tabs /\ todo[t].job.kind # "none"
  BY DEF Busy
<1>2. DOMAIN todo' = Tabs /\ todo'[t] = w /\ \A u \in Tabs \ {t} : todo'[u] = todo[u]
  BY <1>1 DEF TodoOK
<1>3. Busy' = Busy
  BY <1>1, <1>2 DEF Busy
<1> QED BY <1>2, <1>3 DEF TodoOK

(* A step of a request alone at work settles the rest.                     *)
LEMMA SettleStep ==
  ASSUME TodoOK, QuoteInv, NEW t \in Busy, dWorld' = dWorld, Busy' = Busy,
         Calm /\ Settling(todo[t]) => Settling(todo[t])'
  PROVE  QuoteInv'
<1>1. Calm' <=> Calm
  BY DEF Calm
<1>2. ASSUME Calm, NEW u \in Busy PROVE u = t
  BY <1>2 DEF TodoOK, Calm
<1> QED BY <1>1, <1>2 DEF QuoteInv

LEMMA PinStep ==
  ASSUME TodoOK, PinInv, NEW t \in Busy, dWorld' = dWorld, Busy' = Busy, TodoOK',
         preds' \in Seq(Range(preds')), closed' = closed,
         dWorld.tabs = 1 /\ Pinning(todo[t])
           /\ (\A i \in 1 .. Len(preds) : preds[i].closed = pin /\ pin # NoPin)
           => /\ Pinning(todo[t])'
              /\ \A i \in 1 .. Len(preds') : preds'[i].closed = pin' /\ pin' # NoPin
  PROVE  PinInv'
<1>1. ASSUME dWorld.tabs = 1, NEW u \in Tabs PROVE Pinning(todo[u])'
  <2>1. CASE u = t
    BY <1>1, <2>1 DEF PinInv
  <2>2. CASE u # t
    <3>1. u \notin Busy'
      BY <1>1, <2>2 DEF TodoOK
    <3>2. todo'[u].steps = <<>>
      BY <3>1 DEF Busy, TodoOK, TabOK
    <3> QED BY <3>2 DEF Pinning, At
  <2> QED BY <2>1, <2>2
<1> QED BY <1>1 DEF PinInv, Busy

-----------------------------------------------------------------------------
(* The steps of a request.                                                 *)
DeskInv == TodoOK /\ QuoteInv /\ PinInv

LEMMA DoingIs ==
  ASSUME TodoOK, NEW t \in Tabs, NEW do \in StepNames, Doing(t, do)
  PROVE  /\ t \in Busy /\ TabOK(todo[t]) /\ 1 \in 1 .. Len(todo[t].steps)
         /\ todo[t].steps[1].do = do /\ At(todo[t].steps, do)
         /\ Tail(todo[t].steps) = SubSeq(todo[t].steps, 2, Len(todo[t].steps))
<1>1. PICK s : s = todo[t].steps
  OBVIOUS
<1>2. TabOK(todo[t]) /\ IsSeq(s) /\ s # <<>> /\ Head(s).do = do
  BY <1>1 DEF TodoOK, TabOK, Shape, Doing
<1>S. PICK S : s \in Seq(S)
  BY <1>2 DEF IsSeq
<1>3. Head(s) = s[1] /\ Len(s) \in Nat \ {0} /\ Tail(s) = SubSeq(s, 2, Len(s))
  BY <1>2, <1>S, EmptySeq, TailIsSubSeq
<1>4. t \in Busy
  BY <1>1, <1>2 DEF TabOK, Busy
<1> QED BY <1>1, <1>2, <1>3, <1>4 DEF At

(* A request that goes on, n steps further or at its end.                  *)
Further(w, t, n) == w.steps = SubSeq(todo[t].steps, n + 1, Len(todo[t].steps))
IsTab(w) == /\ w = [f \in TabFields |-> w[f]]
            /\ w.job = [f \in DOMAIN w.job |-> w.job[f]] /\ "kind" \in DOMAIN w.job
            /\ w.job.kind # "none"

LEMMA GoesOn ==
  ASSUME TodoOK, NEW t \in Busy, NEW w, IsTab(w), dWorld' = dWorld,
         w.steps = <<>> \/ \E n \in 1 .. Len(todo[t].steps) : Further(w, t, n),
         todo' = [todo EXCEPT ![t] = w]
  PROVE  /\ TodoOK' /\ Busy' = Busy /\ todo'[t] = w
<1>1. TabOK(todo[t])
  BY DEF TodoOK, Busy
<1>2. Shape(<<>>)
  BY EmptySeq DEF Shape, IsSeq
<1>3. Shape(w.steps)
  BY <1>1, <1>2, Suffix DEF TabOK, Further
<1>4. TabOK(w)
  BY <1>3 DEF TabOK, IsTab
<1> QED BY <1>4, TabStep DEF IsTab

LEMMA EditStep ==
  ASSUME DeskInv, NEW t \in Busy, NEW w, IsTab(w), NEW n \in 1 .. Len(todo[t].steps),
         todo[t].steps[n].do \in Edits, Further(w, t, n), todo' = [todo EXCEPT ![t] = w],
         UNCHANGED <<pin, preds, closed, dWorld>>
  PROVE  DeskInv'
<1>1. TodoOK' /\ Busy' = Busy /\ todo'[t] = w
  BY GoesOn DEF DeskInv
<1>2. Shape(todo[t].steps)
  BY DEF DeskInv, TodoOK, TabOK, Busy
<1>3. Owes(w.steps) /\ \A do \in StepNames : At(w.steps, do) => Succ(todo[t].steps[n].do, do)
  BY <1>2, Suffix DEF Further
<1>4. ~At(w.steps, "quote") /\ ~At(w.steps, "open") /\ ~At(w.steps, "pin") /\ ~At(w.steps, "price")
  BY <1>3 DEF Succ, Edits, StepNames, Priced
<1>5. Settling(todo[t])'
  BY <1>1, <1>3, <1>4 DEF Settling
<1>6. Pinning(todo[t])'
  BY <1>1, <1>4 DEF Pinning
<1>7. QuoteInv'
  BY <1>1, <1>5, SettleStep DEF DeskInv
<1>8. PinInv'
  BY <1>1, <1>6, PinStep DEF DeskInv, PinInv
<1> QED BY <1>1, <1>7, <1>8 DEF DeskInv

-----------------------------------------------------------------------------
(* The tab after a step, field by field.                                   *)
Turned(t, s, j, g, h) == [steps |-> s, job |-> j, got |-> g, fresh |-> h]
Turns(t, s, j, g, h) == todo' = [todo EXCEPT ![t] = Turned(t, s, j, g, h)]
IsJob(j) == j = [f \in DOMAIN j |-> j[f]] /\ "kind" \in DOMAIN j /\ j.kind # "none"

LEMMA TabIs ==
  ASSUME NEW t, NEW s, NEW j, NEW g, NEW h, IsJob(j), NEW w, w = Turned(t, s, j, g, h)
  PROVE  IsTab(w) /\ w.steps = s /\ w.got = g /\ w.fresh = h
BY DEF Turned, IsTab, IsJob, TabFields

LEMMA JobOf ==
  ASSUME TodoOK, NEW t \in Busy
  PROVE  IsJob(todo[t].job) /\ todo[t] = [f \in TabFields |-> todo[t][f]] /\ DOMAIN todo = Tabs
BY DEF TodoOK, TabOK, Busy, IsJob

LEMMA TurnForms ==
  ASSUME TodoOK, NEW t \in Busy, NEW w, w = todo[t]
  PROVE  /\ Then(t) => Turns(t, Tail(w.steps), w.job, w.got, w.fresh)
         /\ \A g : Keep(t, g) => Turns(t, Tail(w.steps), w.job, g, w.fresh)
         /\ \A n : Pass(t, n) =>
             Turns(t, SubSeq(w.steps, n + 1, Len(w.steps)), w.job, w.got, w.fresh)
         /\ \A h : todo' = [todo EXCEPT ![t].steps = Tail(@), ![t].fresh = h]
              => Turns(t, Tail(w.steps), w.job, w.got, h)
         /\ \A r, g : todo' = [todo EXCEPT ![t].steps = r, ![t].got = g]
              => Turns(t, r, w.job, g, w.fresh)
         /\ Throw(t) => \E j : IsJob(j) /\ Turns(t, <<>>, j, w.got, w.fresh)
<1>1. IsJob(w.job) /\ w = [f \in TabFields |-> w[f]] /\ DOMAIN todo = Tabs
  BY JobOf
<1>2. Then(t) => Turns(t, Tail(w.steps), w.job, w.got, w.fresh)
  BY <1>1 DEF Then, Turns, Turned, TabFields
<1>3. \A g : Keep(t, g) => Turns(t, Tail(w.steps), w.job, g, w.fresh)
  BY <1>1 DEF Keep, Turns, Turned, TabFields
<1>4. \A n : Pass(t, n) => Turns(t, SubSeq(w.steps, n + 1, Len(w.steps)), w.job, w.got, w.fresh)
  BY <1>1 DEF Pass, Turns, Turned, TabFields
<1>5. \A h : todo' = [todo EXCEPT ![t].steps = Tail(@), ![t].fresh = h]
              => Turns(t, Tail(w.steps), w.job, w.got, h)
  BY <1>1 DEF Turns, Turned, TabFields
<1>7. \A r, g : todo' = [todo EXCEPT ![t].steps = r, ![t].got = g]
              => Turns(t, r, w.job, g, w.fresh)
  BY <1>1 DEF Turns, Turned, TabFields
<1>6. ASSUME Throw(t) PROVE \E j : IsJob(j) /\ Turns(t, <<>>, j, w.got, w.fresh)
  <2>1. PICK j : j = [w.job EXCEPT !.kind = IF @ = "attach" THEN @ ELSE "failed"]
    OBVIOUS
  <2>2. IsJob(j)
    BY <1>1, <2>1 DEF IsJob
  <2>3. Turns(t, <<>>, j, w.got, w.fresh)
    <3>1. PICK v : v = [w EXCEPT !.steps = <<>>]
      OBVIOUS
    <3>2. /\ v = [f \in TabFields |-> v[f]]
          /\ v.steps = <<>> /\ v.job = w.job /\ v.got = w.got /\ v.fresh = w.fresh
      BY <1>1, <3>1 DEF TabFields
    <3>3. PICK x : x = [v EXCEPT !.job = j]
      OBVIOUS
    <3>4. /\ x = [f \in TabFields |-> x[f]]
          /\ x.steps = <<>> /\ x.job = j /\ x.got = w.got /\ x.fresh = w.fresh
      BY <3>2, <3>3 DEF TabFields
    <3>5. x = Turned(t, <<>>, j, w.got, w.fresh)
      BY <3>4 DEF Turned, TabFields
    <3>6. PICK td : td = [todo EXCEPT ![t] = v]
      OBVIOUS
    <3>7. td[t] = v /\ [td EXCEPT ![t] = x] = [todo EXCEPT ![t] = x]
      BY <1>1, <3>6, JobOf DEF Busy
    <3>8. todo' = [td EXCEPT ![t] = x]
      <4>1. PICK y : y = IF todo[t].job.kind = "attach" THEN todo[t].job.kind ELSE "failed"
        OBVIOUS
      <4>2. todo' = [td EXCEPT ![t] = [td[t] EXCEPT !.job = [td[t].job EXCEPT !.kind = y]]]
        BY <1>6, <3>1, <3>6, <4>1 DEF Throw
      <4>3. j = [w.job EXCEPT !.kind = y]
        BY <2>1, <4>1
      <4> QED BY <3>2, <3>3, <3>7, <4>2, <4>3
    <3> QED BY <3>5, <3>7, <3>8 DEF Turns
  <2> QED BY <2>2, <2>3
<1> QED BY <1>2, <1>3, <1>4, <1>5, <1>6, <1>7

-----------------------------------------------------------------------------
(* A request's own steps: the edits.                                       *)
LEMMA EditsKeep ==
  ASSUME DeskInv, NEW t \in Tabs,
         Infer(t) \/ Merge(t) \/ Open(t) \/ Save(t) \/ Bind(t) \/ Context(t)
  PROVE  DeskInv'
<1>0. PICK w : w = todo[t]
  OBVIOUS
<1>1. PICK do \in Edits : Doing(t, do) /\ (Open(t) => do = "open") /\ (Infer(t) => do = "infer")
  <2>1. CASE Infer(t)
    BY <2>1 DEF Infer, Open, Doing, Edits
  <2>2. CASE Open(t)
    BY <2>2 DEF Infer, Open, Doing, Edits
  <2>3. CASE ~Infer(t) /\ ~Open(t)
    BY <2>3 DEF Merge, Save, Bind, Context, Edits
  <2> QED BY <2>1, <2>2, <2>3
<1>2. /\ t \in Busy /\ Shape(w.steps) /\ w.steps[1].do = do /\ At(w.steps, do)
      /\ 1 \in 1 .. Len(w.steps) /\ Tail(w.steps) = SubSeq(w.steps, 2, Len(w.steps))
  BY <1>0, <1>1, DoingIs DEF DeskInv, StepNames, TabOK
<1>3. IsJob(w.job)
  BY <1>0, <1>2, JobOf DEF DeskInv
<1>4. UNCHANGED <<quote, pin, preds, closed, dWorld>>
  BY DEF Infer, Merge, Open, Save, Bind, Context
<1>5. ASSUME NEW j, NEW g, NEW h, IsJob(j), Turns(t, Tail(w.steps), j, g, h) PROVE DeskInv'
  <2>1. PICK v : v = Turned(t, Tail(w.steps), j, g, h)
    OBVIOUS
  <2>2. IsTab(v) /\ v.steps = Tail(w.steps)
    BY <1>5, <2>1, TabIs
  <2>3. Further(v, t, 1) /\ todo' = [todo EXCEPT ![t] = v]
    <3>1. todo' = [todo EXCEPT ![t] = v]
      BY <1>5, <2>1 DEF Turns
    <3>2. 1 + 1 = 2
      OBVIOUS
    <3> QED BY <1>0, <1>2, <2>2, <3>1, <3>2 DEF Further
  <2>4. /\ t \in Busy /\ 1 \in 1 .. Len(todo[t].steps) /\ todo[t].steps[1].do \in Edits
        /\ UNCHANGED <<pin, preds, closed, dWorld>>
    BY <1>0, <1>2, <1>4
  <2> QED BY <2>2, <2>3, <2>4, EditStep
<1>6. CASE Merge(t) \/ Save(t) \/ Bind(t)
  BY <1>0, <1>2, <1>3, <1>5, <1>6, TurnForms DEF Merge, Save, Bind, DeskInv
<1>7. CASE Open(t)
  <2>1. ASSUME NEW h, todo' = [todo EXCEPT ![t].steps = Tail(@), ![t].fresh = h] PROVE DeskInv'
    BY <1>0, <1>2, <1>3, <1>5, <2>1, TurnForms DEF DeskInv
  <2>2. ASSUME Throw(t) PROVE DeskInv'
    <3>1. PICK j : IsJob(j) /\ Turns(t, <<>>, j, w.got, w.fresh)
      BY <1>0, <1>2, <2>2, TurnForms DEF DeskInv
    <3>2. PICK v : v = Turned(t, <<>>, j, w.got, w.fresh)
      OBVIOUS
    <3>3. IsTab(v) /\ v.steps = <<>> /\ todo' = [todo EXCEPT ![t] = v]
      BY <3>1, <3>2, TabIs DEF Turns
    <3>4. TodoOK' /\ Busy' = Busy /\ todo'[t] = v
      BY <1>2, <1>4, <3>3, GoesOn DEF DeskInv
    <3>5. Calm /\ Settling(todo[t]) => Settling(todo[t])'
      <4>1. Settling(todo[t]) => Current
        BY <1>0, <1>1, <1>2, <1>7 DEF Settling
      <4>2. Current => Current'
        BY <1>4, <1>7 DEF Current, Open, Scope
      <4> QED BY <3>3, <3>4, <4>1, <4>2 DEF Settling, At
    <3>6. Pinning(todo[t])'
      BY <3>3, <3>4 DEF Pinning, At
    <3>7. QuoteInv'
      BY <1>2, <1>4, <3>4, <3>5, SettleStep DEF DeskInv
    <3>8. PinInv'
      BY <1>2, <1>4, <3>4, <3>6, PinStep DEF DeskInv, PinInv
    <3> QED BY <3>4, <3>7, <3>8 DEF DeskInv
  <2> QED BY <1>7, <2>1, <2>2 DEF Open
<1>8. CASE Context(t)
  <2>1. PICK j : j = [w.job EXCEPT !.card = card]
    OBVIOUS
  <2>2. IsJob(j)
    BY <1>3, <2>1 DEF IsJob
  <2>3. Turns(t, Tail(w.steps), j, w.got, w.fresh)
    <3>1. PICK v : v = [w EXCEPT !.steps = Tail(@)]
      OBVIOUS
    <3>2. /\ w = [f \in TabFields |-> w[f]] /\ DOMAIN todo = Tabs
          /\ v = [f \in TabFields |-> v[f]]
          /\ v.steps = Tail(w.steps) /\ v.job = w.job /\ v.got = w.got /\ v.fresh = w.fresh
      <4>1. w = [f \in TabFields |-> w[f]] /\ DOMAIN todo = Tabs
        BY <1>0, <1>2, JobOf DEF DeskInv
      <4> QED BY <3>1, <4>1 DEF TabFields
    <3>3. PICK x : x = [v EXCEPT !.job = j]
      OBVIOUS
    <3>4. /\ x = [f \in TabFields |-> x[f]]
          /\ x.steps = Tail(w.steps) /\ x.job = j /\ x.got = w.got /\ x.fresh = w.fresh
      BY <3>2, <3>3 DEF TabFields
    <3>5. x = Turned(t, Tail(w.steps), j, w.got, w.fresh)
      BY <3>4 DEF Turned, TabFields
    <3>6. PICK td : td = [todo EXCEPT ![t] = v]
      OBVIOUS
    <3>7. td[t] = v /\ [td EXCEPT ![t] = x] = [todo EXCEPT ![t] = x]
      BY <3>2, <3>6
    <3>8. todo' = [td EXCEPT ![t] = [td[t] EXCEPT !.job = [td[t].job EXCEPT !.card = card]]]
      BY <1>0, <1>8, <3>1, <3>6 DEF Context
    <3>9. todo' = [td EXCEPT ![t] = x]
      BY <2>1, <3>2, <3>3, <3>7, <3>8
    <3> QED BY <3>5, <3>7, <3>9 DEF Turns
  <2> QED BY <1>5, <2>2, <2>3
<1>9. CASE Infer(t)
  <2>1. ASSUME NEW h, todo' = [todo EXCEPT ![t].steps = Tail(@), ![t].fresh = h] PROVE DeskInv'
    BY <1>0, <1>2, <1>3, <1>5, <2>1, TurnForms DEF DeskInv
  <2>2. ASSUME Pass(t, 2) PROVE DeskInv'
    <3>0. PICK r : r = SubSeq(w.steps, 2 + 1, Len(w.steps))
      OBVIOUS
    <3>1. PICK v : v = Turned(t, r, w.job, w.got, w.fresh)
      OBVIOUS
    <3>2. IsTab(v) /\ v.steps = r
      BY <1>3, <3>1, TabIs
    <3>3. Turns(t, r, w.job, w.got, w.fresh)
      BY <1>0, <1>2, <2>2, <3>0, TurnForms DEF DeskInv
    <3>5. todo' = [todo EXCEPT ![t] = v]
      BY <3>1, <3>3 DEF Turns
    <3>4. 2 \in 1 .. Len(w.steps) /\ w.steps[2].do = "merge"
      <4>1. do = "infer" /\ Len(w.steps) \in Nat
        BY <1>1, <1>2, <1>9 DEF Shape
      <4>2. 1 < Len(w.steps) /\ Succ(w.steps[1].do, w.steps[1 + 1].do)
        BY <1>2, <4>1 DEF Shape
      <4> QED BY <1>2, <4>1, <4>2 DEF Succ
    <3>6. /\ t \in Busy /\ 2 \in 1 .. Len(todo[t].steps) /\ todo[t].steps[2].do \in Edits
          /\ UNCHANGED <<pin, preds, closed, dWorld>> /\ Further(v, t, 2)
      BY <1>0, <1>2, <1>4, <3>0, <3>2, <3>4 DEF Further, Edits
    <3> QED BY <3>2, <3>5, <3>6, EditStep
  <2> QED BY <1>9, <2>1, <2>2 DEF Infer
<1> QED BY <1>6, <1>7, <1>8, <1>9

After(s, n) == SubSeq(s, n + 1, Len(s))

(* Any step that moves the request on and keeps what is on file: the head  *)
(* it leaves and the head it comes to.                                     *)
MovesOn(t, do, g, h, n, r) ==
  /\ t \in Tabs /\ do \in StepNames /\ Doing(t, do) /\ dWorld' = dWorld
  /\ n \in 1 .. Len(todo[t].steps) /\ r = After(todo[t].steps, n)
  /\ Turns(t, r, todo[t].job, g, h)
LEMMA MoveOn ==
  ASSUME DeskInv, NEW t, NEW do, NEW g, NEW h, NEW n, NEW r, MovesOn(t, do, g, h, n, r)
  PROVE  /\ TodoOK' /\ Busy' = Busy /\ t \in Busy
         /\ todo'[t].steps = r /\ todo'[t].got = g /\ todo'[t].fresh = h
         /\ At(todo[t].steps, do) /\ todo[t].steps[1].do = do /\ Shape(todo[t].steps)
         /\ \A e \in StepNames : At(r, e) => Succ(todo[t].steps[n].do, e)
<1>a. /\ t \in Tabs /\ do \in StepNames /\ Doing(t, do) /\ dWorld' = dWorld
      /\ n \in 1 .. Len(todo[t].steps) /\ r = After(todo[t].steps, n)
      /\ Turns(t, r, todo[t].job, g, h)
  BY DEF MovesOn
<1>1. /\ t \in Busy /\ TabOK(todo[t]) /\ todo[t].steps[1].do = do /\ At(todo[t].steps, do)
      /\ IsJob(todo[t].job)
  BY <1>a, DoingIs, JobOf DEF DeskInv
<1>j. PICK j : j = todo[t].job
  OBVIOUS
<1>k. IsJob(j)
  BY <1>1, <1>j
<1>2. PICK w : w = Turned(t, r, j, g, h)
  OBVIOUS
<1>3. IsTab(w) /\ w.steps = r /\ w.got = g /\ w.fresh = h
  BY <1>k, <1>2, TabIs
<1>4. todo' = [todo EXCEPT ![t] = w] /\ Further(w, t, n)
  BY <1>a, <1>j, <1>2, <1>3 DEF Turns, Further, After
<1>5. TodoOK' /\ Busy' = Busy /\ todo'[t] = w
  BY <1>a, <1>1, <1>3, <1>4, GoesOn DEF DeskInv
<1>6. \A e \in StepNames : At(r, e) => Succ(todo[t].steps[n].do, e)
  <2>1. PICK s : s = todo[t].steps
    OBVIOUS
  <2>2. Shape(s) /\ n \in 1 .. Len(s) /\ r = SubSeq(s, n + 1, Len(s))
    BY <1>a, <1>1, <2>1 DEF TabOK, After
  <2> QED BY <2>1, <2>2, Suffix
<1> QED BY <1>1, <1>3, <1>5, <1>6 DEF TabOK

(* A compute that finds no card, fails or has the price.                   *)
LEMMA ComputesKeep ==
  ASSUME DeskInv, NEW t \in Tabs, Compute(t) \/ ComputeFails(t)
  PROVE  DeskInv'
<1>1. /\ Doing(t, "scope") /\ "scope" \in StepNames
      /\ UNCHANGED <<inferred, card, quote, pin, preds, closed, dWorld>>
  BY DEF Compute, ComputeFails, StepNames
<1>2. PICK w : w = todo[t]
  OBVIOUS
<1>3. /\ t \in Busy /\ Shape(w.steps) /\ w.steps[1].do = "scope"
      /\ 1 \in 1 .. Len(w.steps) /\ Tail(w.steps) = SubSeq(w.steps, 1 + 1, Len(w.steps))
  <2>1. 1 + 1 = 2
    OBVIOUS
  <2> QED BY <1>1, <1>2, <2>1, DoingIs DEF DeskInv, TabOK
<1>4. 2 \in 1 .. Len(w.steps) /\ w.steps[2].do = "quote"
  <2>1. 1 < Len(w.steps) /\ Succ(w.steps[1].do, w.steps[1 + 1].do) /\ Len(w.steps) \in Nat
    BY <1>3 DEF Shape
  <2> QED BY <1>3, <2>1 DEF Succ
<1>5. Current' <=> Current
  BY <1>1 DEF Current, Scope
<1>6. ASSUME NEW r, r = SubSeq(w.steps, 2 + 1, Len(w.steps)), Turns(t, r, w.job, NoQuote, w.fresh),
             Calm => card = NoRateCard
      PROVE  DeskInv'
  <2>1. /\ TodoOK' /\ Busy' = Busy /\ todo'[t].steps = r /\ todo'[t].got = NoQuote
        /\ \A e \in StepNames : At(r, e) => Succ(w.steps[2].do, e)
    <3>1. MovesOn(t, "scope", NoQuote, w.fresh, 2, r)
      BY <1>1, <1>2, <1>4, <1>6 DEF MovesOn, After
    <3> QED BY <1>2, <3>1, MoveOn
  <2>2. ~At(r, "quote") /\ ~At(r, "open") /\ ~At(r, "pin") /\ ~At(r, "price")
    BY <1>4, <2>1 DEF Succ, StepNames, Edits, Priced
  <2>3. Calm => Settling(todo[t])'
    BY <1>1, <1>6, <2>1, <2>2 DEF Settling, Current
  <2>4. Pinning(todo[t])'
    BY <2>1, <2>2 DEF Pinning
  <2>5. QuoteInv'
    BY <1>1, <1>3, <2>1, <2>3, SettleStep DEF DeskInv
  <2>6. PinInv'
    BY <1>1, <1>3, <2>1, <2>4, PinStep DEF DeskInv, PinInv
  <2> QED BY <2>1, <2>5, <2>6 DEF DeskInv
<1>7. ASSUME NEW g, g = BaseOf(Scope, DeskCards[card]), Keep(t, g) PROVE DeskInv'
  <2>0. Turns(t, Tail(w.steps), w.job, g, w.fresh)
    BY <1>2, <1>3, <1>7, TurnForms DEF DeskInv
  <2>1. /\ TodoOK' /\ Busy' = Busy /\ todo'[t].steps = Tail(w.steps) /\ todo'[t].got = g
        /\ \A e \in StepNames : At(Tail(w.steps), e) => Succ(w.steps[1].do, e)
    <3>1. MovesOn(t, "scope", g, w.fresh, 1, Tail(w.steps))
      BY <1>1, <1>2, <1>3, <2>0 DEF MovesOn, After
    <3> QED BY <1>2, <3>1, MoveOn
  <2>2. ~At(Tail(w.steps), "open") /\ ~At(Tail(w.steps), "pin") /\ ~At(Tail(w.steps), "price")
    BY <1>3, <2>1 DEF Succ, StepNames, Edits, Priced
  <2>3. At(Tail(w.steps), "quote")
    BY <1>3, Suffix
  <2>4. Due(todo[t].got)'
    BY <1>1, <1>7, <2>1 DEF Due, Scope
  <2>5. Settling(todo[t])'
    BY <2>1, <2>2, <2>3, <2>4 DEF Settling
  <2>6. Pinning(todo[t])'
    BY <2>1, <2>2 DEF Pinning
  <2>7. QuoteInv'
    BY <1>1, <1>3, <2>1, <2>5, SettleStep DEF DeskInv
  <2>8. PinInv'
    BY <1>1, <1>3, <2>1, <2>6, PinStep DEF DeskInv, PinInv
  <2> QED BY <2>1, <2>7, <2>8 DEF DeskInv
<1>8. ASSUME NEW r, r = SubSeq(w.steps, 3, Len(w.steps)),
             todo' = [todo EXCEPT ![t].steps = r, ![t].got = NoQuote],
             Calm => card = NoRateCard
      PROVE  DeskInv'
  <2>2. Turns(t, r, w.job, NoQuote, w.fresh)
    BY <1>2, <1>3, <1>8, TurnForms DEF DeskInv
  <2>3. 2 + 1 = 3
    OBVIOUS
  <2> QED BY <1>6, <1>8, <2>2, <2>3
<1>9. CASE Compute(t) /\ card # NoRateCard
  BY <1>7, <1>9 DEF Compute
<1>10. CASE Compute(t) /\ card = NoRateCard
  <2>1. todo' = [todo EXCEPT ![t].steps = SubSeq(w.steps, 3, Len(w.steps)), ![t].got = NoQuote]
    BY <1>2, <1>10 DEF Compute
  <2> QED BY <1>8, <1>10, <2>1
<1>11. CASE ComputeFails(t)
  <2>1. todo' = [todo EXCEPT ![t].steps = SubSeq(w.steps, 3, Len(w.steps)), ![t].got = NoQuote]
    BY <1>2, <1>11 DEF ComputeFails
  <2> QED BY <1>8, <1>11, <2>1 DEF ComputeFails, Calm
<1> QED BY <1>9, <1>10, <1>11

(* What a step by one from a single head comes to.                         *)
LEMMA OneOn ==
  ASSUME DeskInv, NEW t \in Tabs, NEW do \in StepNames, Doing(t, do), NEW w, w = todo[t],
         NEW g, NEW h, Turns(t, Tail(w.steps), w.job, g, h), dWorld' = dWorld
  PROVE  /\ TodoOK' /\ Busy' = Busy /\ t \in Busy
         /\ todo'[t].steps = Tail(w.steps) /\ todo'[t].got = g /\ todo'[t].fresh = h
         /\ At(w.steps, do) /\ w.steps[1].do = do /\ Shape(w.steps) /\ 1 \in 1 .. Len(w.steps)
         /\ \A e \in StepNames : At(Tail(w.steps), e) => Succ(do, e)
<1>1. 1 \in 1 .. Len(w.steps) /\ Tail(w.steps) = SubSeq(w.steps, 2, Len(w.steps)) /\ 1 + 1 = 2
  BY DoingIs DEF DeskInv
<1>2. MovesOn(t, do, g, h, 1, Tail(w.steps))
  BY <1>1 DEF MovesOn, After
<1> QED BY <1>1, <1>2, MoveOn

(* Storing the price a compute got.                                        *)
LEMMA PersistKeeps ==
  ASSUME DeskInv, NEW t \in Tabs, Persist(t)
  PROVE  DeskInv'
<1>1. /\ Doing(t, "quote") /\ "quote" \in StepNames /\ quote' = todo[t].got
      /\ UNCHANGED <<inferred, card, pin, preds, closed, dWorld>>
  BY DEF Persist, StepNames
<1>2. PICK w : w = todo[t]
  OBVIOUS
<1>3. Turns(t, Tail(w.steps), w.job, w.got, w.fresh)
  BY <1>1, <1>2, DoingIs, TurnForms DEF Persist, DeskInv
<1>4. /\ TodoOK' /\ Busy' = Busy /\ t \in Busy /\ todo'[t].steps = Tail(w.steps)
      /\ At(w.steps, "quote")
      /\ \A e \in StepNames : At(Tail(w.steps), e) => Succ("quote", e)
  BY <1>1, <1>2, <1>3, OneOn
<1>5. /\ ~At(Tail(w.steps), "quote") /\ ~At(Tail(w.steps), "open")
      /\ ~At(Tail(w.steps), "pin") /\ ~At(Tail(w.steps), "price")
  BY <1>4 DEF Succ, StepNames, Edits, Priced
<1>6. Settling(todo[t]) => Current'
  BY <1>1, <1>2, <1>4 DEF Settling, Due, Current, Scope
<1>7. Settling(todo[t]) => Settling(todo[t])'
  BY <1>4, <1>5, <1>6 DEF Settling
<1>8. Pinning(todo[t])'
  BY <1>4, <1>5 DEF Pinning
<1>9. QuoteInv'
  BY <1>1, <1>4, <1>7, SettleStep DEF DeskInv
<1>10. PinInv'
  BY <1>1, <1>4, <1>8, PinStep DEF DeskInv, PinInv
<1> QED BY <1>4, <1>9, <1>10 DEF DeskInv

(* From the count on nothing is edited or computed any more.               *)
LEMMA PricedIsSettled ==
  ASSUME DeskInv, NEW t \in Tabs, NEW do \in Priced, Doing(t, do), Settling(todo[t])
  PROVE  Current
<1>1. PICK s : s = todo[t].steps
  OBVIOUS
<1>2. At(s, do) /\ s[1].do = do /\ 1 \in 1 .. Len(s) /\ Shape(s)
  BY <1>1, DoingIs DEF DeskInv, TabOK, StepNames
<1>3. ~Owes(s)
  <2> SUFFICES ASSUME NEW k \in 1 .. Len(s), s[k].do = "scope" PROVE FALSE
    BY DEF Owes
  <2>1. k # 1
    BY <1>2 DEF Priced
  <2>2. s[k].do \in Priced
    BY <1>2, <2>1 DEF Shape
  <2> QED BY <2>2 DEF Priced
<1>4. ~At(s, "quote")
  BY <1>2 DEF At, Priced
<1> QED BY <1>1, <1>3, <1>4 DEF Settling

(* Count, pin and price.                                                   *)
LEMMA PricesKeep ==
  ASSUME DeskInv, NEW t \in Tabs, CountClosed(t) \/ PinSnapshot(t) \/ Predict(t)
  PROVE  DeskInv'
<1>1. PICK do \in Priced : /\ Doing(t, do) /\ (CountClosed(t) => do = "count")
                           /\ (PinSnapshot(t) => do = "pin") /\ (Predict(t) => do = "price")
  <2>1. CASE CountClosed(t)
    BY <2>1 DEF CountClosed, PinSnapshot, Predict, Doing, Priced
  <2>2. CASE PinSnapshot(t)
    BY <2>2 DEF CountClosed, PinSnapshot, Predict, Doing, Priced
  <2>3. CASE Predict(t)
    BY <2>3 DEF CountClosed, PinSnapshot, Predict, Doing, Priced
  <2> QED BY <2>1, <2>2, <2>3
<1>2. PICK w : w = todo[t]
  OBVIOUS
<1>3. UNCHANGED <<inferred, card, quote, closed, dWorld>>
  BY DEF CountClosed, PinSnapshot, Predict
<1>4. Current => Current'
  BY <1>3 DEF Current, Scope
<1>5. t \in Busy /\ At(w.steps, do)
  BY <1>1, <1>2, DoingIs DEF DeskInv, StepNames
<1>6. ASSUME TodoOK', Busy' = Busy, ~At(todo'[t].steps, "quote"), ~At(todo'[t].steps, "open")
      PROVE  QuoteInv'
  <2>1. Calm /\ Settling(todo[t]) => Settling(todo[t])'
    BY <1>1, <1>4, <1>6, PricedIsSettled DEF Settling
  <2> QED BY <1>3, <1>5, <1>6, <2>1, SettleStep DEF DeskInv
<1>7. CASE CountClosed(t) /\ w.got = NoQuote
  <2>1. PICK j : IsJob(j) /\ Turns(t, <<>>, j, w.got, w.fresh)
    BY <1>2, <1>5, <1>7, TurnForms DEF CountClosed, DeskInv
  <2>2. PICK v : v = Turned(t, <<>>, j, w.got, w.fresh)
    OBVIOUS
  <2>3. IsTab(v) /\ v.steps = <<>> /\ todo' = [todo EXCEPT ![t] = v]
    BY <2>1, <2>2, TabIs DEF Turns
  <2>4. TodoOK' /\ Busy' = Busy /\ todo'[t] = v
    BY <1>3, <1>5, <2>3, GoesOn DEF DeskInv
  <2>5. QuoteInv'
    BY <1>6, <2>3, <2>4 DEF At
  <2>6. Pinning(todo[t])'
    BY <2>3, <2>4 DEF Pinning, At
  <2>7. pin' = pin /\ preds' = preds
    BY <1>7 DEF CountClosed
  <2>8. PinInv'
    BY <1>3, <1>5, <2>4, <2>6, <2>7, PinStep DEF DeskInv, PinInv
  <2> QED BY <2>4, <2>5, <2>8 DEF DeskInv
<1>8. PICK h : h = IF CountClosed(t) THEN [seen |-> pin, closed |-> PinnedCount] ELSE w.fresh
  OBVIOUS
<1>9. ASSUME ~(CountClosed(t) /\ w.got = NoQuote) PROVE DeskInv'
  <2>1. Turns(t, Tail(w.steps), w.job, w.got, h)
    <3>1. CASE CountClosed(t)
      <4>1. todo' = [todo EXCEPT ![t].steps = Tail(@), ![t].fresh = h]
        BY <1>2, <1>8, <1>9, <3>1 DEF CountClosed
      <4> QED BY <1>2, <1>5, <4>1, TurnForms DEF DeskInv
    <3>2. CASE ~CountClosed(t)
      <4>1. Then(t)
        BY <3>2 DEF PinSnapshot, Predict
      <4> QED BY <1>2, <1>5, <1>8, <3>2, <4>1, TurnForms DEF DeskInv
    <3> QED BY <3>1, <3>2
  <2>2. /\ TodoOK' /\ Busy' = Busy /\ todo'[t].steps = Tail(w.steps) /\ todo'[t].fresh = h
        /\ \A e \in StepNames : At(Tail(w.steps), e) => Succ(do, e)
    <3>1. do \in StepNames
      BY DEF StepNames
    <3>2. Doing(t, do) /\ dWorld' = dWorld
      BY <1>1, <1>3
    <3>3. MovesOn(t, do, w.got, h, 1, Tail(w.steps)) /\ w.steps[1].do = do
      <4>1. /\ 1 \in 1 .. Len(w.steps) /\ Tail(w.steps) = SubSeq(w.steps, 2, Len(w.steps))
            /\ w.steps[1].do = do /\ 1 + 1 = 2
        BY <1>2, <3>1, <3>2, DoingIs DEF DeskInv
      <4> QED BY <1>2, <2>1, <3>1, <3>2, <4>1 DEF MovesOn, After
    <3> QED BY <1>2, <3>3, MoveOn
  <2>3. /\ ~At(Tail(w.steps), "quote") /\ ~At(Tail(w.steps), "open")
        /\ At(Tail(w.steps), "pin") => do = "count"
        /\ At(Tail(w.steps), "price") => do = "pin"
    BY <2>2 DEF Succ, StepNames, Edits, Priced
  <2>4. QuoteInv'
    BY <1>6, <2>2, <2>3
  <2>5. CASE CountClosed(t)
    <3>1. pin' = pin /\ preds' = preds
      BY <2>5 DEF CountClosed
    <3>2. h.seen = pin /\ h.closed # NoPin /\ (pin # NoPin => h.closed = pin)
      BY <1>8, <2>5 DEF PinnedCount, NoPin, DeskInv, PinInv
    <3>3. Pinning(todo[t])'
      BY <1>1, <2>2, <2>3, <2>5, <3>1, <3>2 DEF Pinning
    <3>4. PinInv'
      BY <1>3, <1>5, <2>2, <3>1, <3>3, PinStep DEF DeskInv, PinInv
    <3> QED BY <2>2, <2>4, <3>4 DEF DeskInv
  <2>6. CASE PinSnapshot(t)
    <3>1. /\ preds' = preds /\ h = w.fresh /\ do = "pin"
          /\ pin' = IF h.seen = NoPin THEN h.closed ELSE pin
      BY <1>1, <1>2, <1>8, <2>6 DEF PinSnapshot, CountClosed, Doing
    <3>2. Pinning(todo[t]) => pin' = h.closed /\ pin' # NoPin /\ (pin # NoPin => pin' = pin)
      BY <1>2, <1>5, <3>1 DEF Pinning
    <3>3. Pinning(todo[t]) => Pinning(todo[t])'
      BY <2>2, <2>3, <3>1, <3>2 DEF Pinning
    <3>4. PinInv'
      BY <1>3, <1>5, <2>2, <3>1, <3>2, <3>3, PinStep DEF DeskInv, PinInv
    <3> QED BY <2>2, <2>4, <3>4 DEF DeskInv
  <2>7. CASE Predict(t)
    <3>1. PICK p : /\ preds' = Append(preds, p) /\ p.closed = w.fresh.closed
      BY <1>2, <2>7 DEF Predict
    <3>2. pin' = pin /\ h = w.fresh /\ do = "price"
      BY <1>1, <1>2, <1>8, <2>7 DEF Predict, CountClosed, Doing
    <3>3. /\ Len(preds) \in Nat /\ preds' \in Seq(Range(preds) \cup {p})
          /\ Len(preds') = Len(preds) + 1 /\ preds'[Len(preds) + 1] = p
          /\ \A i \in 1 .. Len(preds) : preds'[i] = preds[i]
      BY <3>1, AppendProperties, SeqMonotonic DEF DeskInv, PinInv
    <3>4. preds' \in Seq(Range(preds'))
      <4>1. \A i \in 1 .. Len(preds') : preds'[i] \in Range(preds')
        BY <3>3 DEF Range
      <4> QED BY <3>3, <4>1
    <3>5. Pinning(todo[t]) => p.closed = pin /\ pin # NoPin
      BY <1>2, <1>5, <3>1, <3>2 DEF Pinning
    <3>6. ASSUME Pinning(todo[t]), \A i \in 1 .. Len(preds) : preds[i].closed = pin /\ pin # NoPin
          PROVE  \A i \in 1 .. Len(preds') : preds'[i].closed = pin' /\ pin' # NoPin
      BY <3>2, <3>3, <3>5, <3>6
    <3>7. Pinning(todo[t])'
      BY <2>2, <2>3, <3>2 DEF Pinning
    <3>8. PinInv'
      BY <1>3, <1>5, <2>2, <3>2, <3>4, <3>6, <3>7, PinStep DEF DeskInv
    <3> QED BY <2>2, <2>4, <3>8 DEF DeskInv
  <2> QED BY <2>5, <2>6, <2>7
<1> QED BY <1>7, <1>9

-----------------------------------------------------------------------------
(* An answer, a click, and the rest of the desk.                           *)
LEMMA AnswerKeeps ==
  ASSUME DeskInv, NEW t \in Tabs, Answer(t)
  PROVE  DeskInv'
<1>1. /\ t \in Busy /\ todo[t].steps = <<>> /\ todo' = [todo EXCEPT ![t] = Rest]
      /\ UNCHANGED <<inferred, card, quote, pin, preds, closed, dWorld>>
  BY DEF Answer, Busy
<1>2. /\ DOMAIN todo' = Tabs /\ todo'[t] = Rest /\ \A u \in Tabs \ {t} : todo'[u] = todo[u]
  BY <1>1 DEF DeskInv, TodoOK
<1>3. TabOK(Rest)
  <2>1. Shape(<<>>)
    BY EmptySeq DEF Shape, IsSeq
  <2>2. Rest = [f \in TabFields |-> Rest[f]] /\ Rest.steps = <<>> /\ Rest.job = [kind |-> "none"]
    BY DEF Rest, TabFields
  <2>3. [kind |-> "none"] = [f \in DOMAIN [kind |-> "none"] |-> [kind |-> "none"][f]]
    OBVIOUS
  <2> QED BY <2>1, <2>2, <2>3 DEF TabOK
<1>4. Busy' = Busy \ {t}
  BY <1>1, <1>2 DEF Busy, Rest
<1>5. TodoOK'
  BY <1>1, <1>2, <1>3, <1>4 DEF DeskInv, TodoOK
<1>6. QuoteInv'
  <2> SUFFICES ASSUME Calm PROVE QuoteInv'
    BY <1>1 DEF QuoteInv, Calm
  <2>1. Settling(todo[t]) /\ Busy \subseteq {t}
    BY <1>1 DEF DeskInv, TodoOK, QuoteInv, Calm
  <2>2. ~Owes(todo[t].steps) /\ ~At(todo[t].steps, "quote")
    BY <1>1, EmptySeq DEF Owes, At
  <2>3. Current'
    BY <1>1, <2>1, <2>2 DEF Settling, Current, Scope
  <2> QED BY <1>4, <2>1, <2>3 DEF QuoteInv
<1>7. PinInv'
  <2>1. Pinning(Rest)'
    BY DEF Pinning, At, Rest
  <2>2. \A u \in Tabs : Pinning(todo[u]) => Pinning(todo[u])'
    BY <1>1, <1>2, <2>1 DEF Pinning
  <2> QED BY <1>1, <2>2 DEF DeskInv, PinInv
<1> QED BY <1>5, <1>6, <1>7 DEF DeskInv

(* A request of that shape that starts with an edit or a compute.          *)
LEMMA StartKeeps ==
  ASSUME DeskInv, NEW t \in Tabs, NEW j, IsJob(j), NEW s, Shape(s), Start(t, j, s),
         \A do \in {"quote", "pin", "price"} : ~At(s, do)
  PROVE  DeskInv'
<1>1. /\ t \notin Busy /\ Cardinality(Busy) < dWorld.tabs
      /\ UNCHANGED <<inferred, card, quote, pin, preds, closed, dWorld>>
  BY DEF Start
<1>2. PICK w : w = [Rest EXCEPT !.steps = s, !.job = j]
  OBVIOUS
<1>3. w = [f \in TabFields |-> w[f]] /\ w.steps = s /\ w.job = j
  BY <1>2 DEF Rest, TabFields
<1>4. TabOK(w) /\ w.job.kind # "none"
  BY <1>3 DEF TabOK, IsJob
<1>5. todo' = [todo EXCEPT ![t] = w]
  BY <1>2 DEF Start
<1>6. /\ DOMAIN todo' = Tabs /\ todo'[t] = w /\ \A u \in Tabs \ {t} : todo'[u] = todo[u]
  BY <1>5 DEF DeskInv, TodoOK
<1>7. Busy' = Busy \cup {t}
  BY <1>4, <1>6 DEF Busy
<1>8. dWorld.tabs = 1 => Busy = {}
  <2>1. IsFiniteSet(Busy)
    BY DeskAssumption, FS_Subset DEF Busy
  <2>2. Cardinality(Busy) \in Nat /\ (Cardinality(Busy) = 0 => Busy = {})
    BY <2>1, FS_CardinalityType, FS_EmptySet
  <2> QED BY <1>1, <2>2
<1>9. TodoOK'
  BY <1>1, <1>4, <1>6, <1>7, <1>8 DEF DeskInv, TodoOK
<1>10. QuoteInv'
  <2> SUFFICES ASSUME Calm PROVE QuoteInv'
    BY <1>1 DEF QuoteInv, Calm
  <2>1. Busy = {} /\ Current
    BY <1>8 DEF DeskInv, QuoteInv, Calm
  <2>2. Current'
    BY <1>1, <2>1 DEF Current, Scope
  <2>3. Settling(todo[t])'
    BY <1>3, <1>6, <2>2 DEF Settling
  <2> QED BY <1>7, <2>1, <2>3 DEF QuoteInv
<1>11. PinInv'
  <2>1. Pinning(todo[t])'
    BY <1>3, <1>6 DEF Pinning
  <2>2. \A u \in Tabs \ {t} : Pinning(todo[u]) => Pinning(todo[u])'
    BY <1>1, <1>6 DEF Pinning
  <2> QED BY <1>1, <2>1, <2>2 DEF DeskInv, PinInv
<1> QED BY <1>9, <1>10, <1>11 DEF DeskInv

(* What is not about requests.                                             *)
LEMMA RestKeep ==
  ASSUME DeskInv, UNCHANGED <<inferred, card, quote, pin, preds, todo, dWorld>>, closed' \in Nat
  PROVE  DeskInv'
<1>1. TodoOK' /\ Busy' = Busy
  BY DEF DeskInv, TodoOK, Busy
<1>2. \A w : Settling(w) <=> Settling(w)'
  BY DEF Settling, Current, Due, Scope
<1>3. Current' <=> Current
  BY DEF Current, Scope
<1>4. QuoteInv'
  BY <1>1, <1>3 DEF DeskInv, QuoteInv, Calm, Settling, Due, Scope
<1>5. PinInv'
  BY DEF DeskInv, PinInv, Pinning
<1> QED BY <1>1, <1>4, <1>5 DEF DeskInv

-----------------------------------------------------------------------------
(* The requests' steps have that shape.                                    *)
LEMMA Joined ==
  ASSUME NEW a, IsSeq(a), a # <<>>, NEW b, Shape(b), b # <<>>, NEW s, s = a \o b,
         \A i \in 1 .. Len(a) : i < Len(a) => Succ(a[i].do, a[i + 1].do),
         Succ(a[Len(a)].do, b[1].do),
         \A i \in 1 .. Len(a) : a[i].do \in StepNames \ Priced /\ (a[i].do \in Edits => Owes(b))
  PROVE  /\ Shape(s) /\ s # <<>> /\ s[1] = a[1] /\ IsSeq(s)
         /\ Owes(b) => Owes(s)
<1>1. PICK S, T : a \in Seq(S) /\ b \in Seq(T)
  BY DEF Shape, IsSeq
<1>2. PICK U : U = S \cup T
  OBVIOUS
<1>3. a \in Seq(U) /\ b \in Seq(U)
  BY <1>1, <1>2, SeqMonotonic
<1>4. /\ Len(a) \in Nat \ {0} /\ Len(b) \in Nat \ {0}
  BY <1>1, EmptySeq
<1>5. /\ s \in Seq(U) /\ Len(s) = Len(a) + Len(b)
      /\ \A i \in 1 .. Len(a) + Len(b) : s[i] = IF i <= Len(a) THEN a[i] ELSE b[i - Len(a)]
  BY <1>3, ConcatProperties
<1>6. /\ \A i \in 1 .. Len(a) : i \in 1 .. Len(s) /\ s[i] = a[i]
      /\ \A i \in 1 .. Len(b) : i + Len(a) \in 1 .. Len(s) /\ s[i + Len(a)] = b[i]
      /\ \A i \in 1 .. Len(s) :
           i \notin 1 .. Len(a) => i - Len(a) \in 1 .. Len(b) /\ s[i] = b[i - Len(a)]
  BY <1>4, <1>5
<1>7. \A i \in 1 .. Len(s) : i < Len(s) => Succ(s[i].do, s[i + 1].do)
  <2> SUFFICES ASSUME NEW i \in 1 .. Len(s), i < Len(s) PROVE Succ(s[i].do, s[i + 1].do)
    OBVIOUS
  <2>1. CASE i < Len(a)
    <3>1. i \in 1 .. Len(a) /\ i + 1 \in 1 .. Len(a)
      BY <1>4, <2>1
    <3> QED BY <1>6, <2>1, <3>1
  <2>2. CASE i = Len(a)
    <3>1. /\ i \in 1 .. Len(a) /\ i + 1 \notin 1 .. Len(a)
          /\ i + 1 \in 1 .. Len(s) /\ (i + 1) - Len(a) = 1
      BY <1>4, <1>5, <2>2
    <3> QED BY <1>6, <2>2, <3>1
  <2>3. CASE i > Len(a)
    <3>1. PICK k : k = i - Len(a)
      OBVIOUS
    <3>2. k \in 1 .. Len(b) /\ k < Len(b) /\ k + 1 \in 1 .. Len(b) /\ k + Len(a) = i
      BY <1>4, <1>5, <2>3, <3>1
    <3>3. (k + 1) + Len(a) = i + 1
      <4>1. Len(a) \in Int /\ Len(b) \in Int
        BY <1>4
      <4>2. k \in Int
        BY <3>2, <4>1
      <4>3. i = k + Len(a)
        BY <3>2
      <4> QED BY <4>1, <4>2, <4>3
    <3>4. s[k + Len(a)] = b[k] /\ s[(k + 1) + Len(a)] = b[k + 1]
      BY <1>6, <3>2
    <3>5. s[i] = b[k] /\ s[i + 1] = b[k + 1]
      BY <3>2, <3>3, <3>4
    <3> QED BY <3>2, <3>5 DEF Shape
  <2> QED BY <1>4, <2>1, <2>2, <2>3
<1>8. \A i \in 1 .. Len(s) : s[i].do \in {"scope", "infer"} => i < Len(s)
  <2> SUFFICES ASSUME NEW i \in 1 .. Len(s), s[i].do \in {"scope", "infer"} PROVE i < Len(s)
    OBVIOUS
  <2>1. CASE i \in 1 .. Len(a)
    BY <1>4, <1>5, <2>1
  <2>2. CASE i \notin 1 .. Len(a)
    <3>1. i - Len(a) \in 1 .. Len(b) /\ i - Len(a) < Len(b)
      BY <1>6, <2>2 DEF Shape
    <3> QED BY <1>4, <1>5, <3>1
  <2> QED BY <2>1, <2>2
<1>9. ASSUME Owes(b) PROVE \E k \in 1 .. Len(s) : Len(a) < k /\ s[k].do = "scope"
  <2>1. PICK k \in 1 .. Len(b) : b[k].do = "scope"
    BY <1>9 DEF Owes
  <2>2. k + Len(a) \in 1 .. Len(s) /\ s[k + Len(a)].do = "scope" /\ Len(a) < k + Len(a)
    BY <1>4, <1>6, <2>1
  <2> QED BY <2>2
<1>10. ASSUME NEW i \in 1 .. Len(s), s[i].do \in Edits
       PROVE  \E k \in 1 .. Len(s) : i < k /\ s[k].do = "scope"
  <2>1. CASE i \in 1 .. Len(a)
    <3>1. PICK k \in 1 .. Len(s) : Len(a) < k /\ s[k].do = "scope"
      BY <1>6, <1>9, <1>10, <2>1
    <3>2. i < k
      BY <1>4, <2>1, <3>1
    <3> QED BY <3>1, <3>2
  <2>2. CASE i \notin 1 .. Len(a)
    <3>1. i - Len(a) \in 1 .. Len(b) /\ b[i - Len(a)].do \in Edits
      BY <1>6, <1>10, <2>2
    <3>2. PICK k \in 1 .. Len(b) : i - Len(a) < k /\ b[k].do = "scope"
      BY <3>1 DEF Shape
    <3>3. k + Len(a) \in 1 .. Len(s) /\ s[k + Len(a)].do = "scope" /\ i < k + Len(a)
      BY <1>4, <1>6, <3>2
    <3> QED BY <3>3
  <2> QED BY <2>1, <2>2
<1>11. ASSUME NEW i \in 1 .. Len(s), NEW k \in 1 .. Len(s), i < k, s[i].do \in Priced
       PROVE  s[k].do \in Priced
  <2>1. i \notin 1 .. Len(a)
    BY <1>6, <1>11
  <2>2. k \notin 1 .. Len(a)
    BY <1>4, <1>11, <2>1
  <2>3. /\ i - Len(a) \in 1 .. Len(b) /\ k - Len(a) \in 1 .. Len(b) /\ i - Len(a) < k - Len(a)
        /\ s[i] = b[i - Len(a)] /\ s[k] = b[k - Len(a)]
    BY <1>4, <1>6, <1>11, <2>1, <2>2
  <2> QED BY <1>11, <2>3 DEF Shape
<1>12. \A i \in 1 .. Len(s) : s[i].do \in StepNames
  BY <1>6 DEF Shape
<1>13. Shape(s) /\ IsSeq(s)
  BY <1>5, <1>7, <1>8, <1>10, <1>11, <1>12 DEF Shape, IsSeq
<1>14. s # <<>> /\ s[1] = a[1]
  <2>1. Len(s) # 0 /\ 1 \in 1 .. Len(a)
    BY <1>4, <1>5
  <2> QED BY <1>5, <1>6, <2>1, NotEmpty
<1>15. Owes(b) => Owes(s)
  BY <1>9 DEF Owes
<1> QED BY <1>13, <1>14, <1>15

LEMMA ComputeShape ==
  /\ Shape(ComputeSteps) /\ Owes(ComputeSteps) /\ ComputeSteps # <<>>
  /\ ComputeSteps[1].do = "scope" /\ Len(ComputeSteps) = 2 /\ ComputeSteps[2].do = "quote"
<1>1. PICK x, y : x = Step("scope") /\ y = Step("quote")
  OBVIOUS
<1>2. PICK s : s = <<x, y>>
  OBVIOUS
<1>3. x.do = "scope" /\ y.do = "quote" /\ ComputeSteps = s
  BY <1>1, <1>2 DEF Step, ComputeSteps
<1>4. s \in Seq({x, y}) /\ Len(s) = 2 /\ s[1] = x /\ s[2] = y /\ s # <<>>
  BY <1>2
<1>5. \A i \in 1 .. Len(s) : i = 1 \/ i = 2
  BY <1>4
<1>6. Owes(s)
  BY <1>3, <1>4 DEF Owes
<1>7. \A i \in 1 .. Len(s) : i < Len(s) => Succ(s[i].do, s[i + 1].do)
  BY <1>3, <1>4, <1>5 DEF Succ
<1>8. \A i \in 1 .. Len(s) : s[i].do \in {"scope", "infer"} => i < Len(s)
  BY <1>3, <1>4, <1>5
<1>9. \A i \in 1 .. Len(s) : s[i].do \in StepNames /\ s[i].do \notin Edits /\ s[i].do \notin Priced
  BY <1>3, <1>4, <1>5 DEF StepNames, Edits, Priced
<1>10. IsSeq(s)
  BY <1>4 DEF IsSeq
<1>11. Shape(s)
  BY <1>7, <1>8, <1>9, <1>10 DEF Shape
<1> QED BY <1>3, <1>4, <1>6, <1>11

LEMMA PricedShape ==
  ASSUME NEW s, s = <<Step("count"), Step("pin"), Step("price")>>
  PROVE  Shape(s) /\ s # <<>> /\ s[1].do = "count"
<1>1. PICK x, y, z : x = Step("count") /\ y = Step("pin") /\ z = Step("price")
  OBVIOUS
<1>2. x.do = "count" /\ y.do = "pin" /\ z.do = "price" /\ s = <<x, y, z>>
  BY <1>1 DEF Step
<1>3. s \in Seq({x, y, z}) /\ Len(s) = 3 /\ s[1] = x /\ s[2] = y /\ s[3] = z /\ s # <<>>
  BY <1>2
<1>4. \A i \in 1 .. Len(s) : i = 1 \/ i = 2 \/ i = 3
  BY <1>3
<1>5. \A i \in 1 .. Len(s) : i < Len(s) => Succ(s[i].do, s[i + 1].do)
  BY <1>2, <1>3, <1>4 DEF Succ
<1>6. \A i \in 1 .. Len(s) : s[i].do \in Priced /\ s[i].do \notin {"scope", "infer"}
                              /\ s[i].do \notin Edits /\ s[i].do \in StepNames
  BY <1>2, <1>3, <1>4 DEF StepNames, Edits, Priced
<1>7. IsSeq(s)
  BY <1>3 DEF IsSeq
<1> QED BY <1>2, <1>3, <1>5, <1>6, <1>7 DEF Shape

LEMMA ComputeThen ==
  ASSUME NEW b, Shape(b), b # <<>>, b[1].do \in {"scope", "count"}
  PROVE  /\ Shape(ComputeSteps \o b) /\ ComputeSteps \o b # <<>> /\ IsSeq(ComputeSteps \o b)
         /\ (ComputeSteps \o b)[1].do = "scope"
<1>1. PICK a : a = ComputeSteps
  OBVIOUS
<1>2. /\ Shape(a) /\ a # <<>> /\ Len(a) = 2 /\ a[1].do = "scope" /\ a[2].do = "quote" /\ IsSeq(a)
  BY <1>1, ComputeShape DEF Shape
<1>3. \A i \in 1 .. Len(a) : a[i].do \in StepNames \ Priced /\ a[i].do \notin Edits
  BY <1>2 DEF StepNames, Priced, Edits
<1>4. Succ(a[Len(a)].do, b[1].do)
  BY <1>2 DEF Succ
<1>5. \A i \in 1 .. Len(a) : i < Len(a) => Succ(a[i].do, a[i + 1].do)
  BY <1>2 DEF Shape
<1>6. PICK s : s = a \o b
  OBVIOUS
<1>7. Shape(s) /\ s # <<>> /\ s[1] = a[1] /\ IsSeq(s)
  BY <1>2, <1>3, <1>4, <1>5, <1>6, Joined
<1> QED BY <1>1, <1>2, <1>6, <1>7

LEMMA PredictShape ==
  /\ Shape(PredictSteps) /\ PredictSteps # <<>> /\ PredictSteps[1].do = "scope"
  /\ Shape(PredictAgain) /\ PredictAgain # <<>> /\ PredictAgain[1].do = "scope"
<1>1. PICK c : c = <<Step("count"), Step("pin"), Step("price")>>
  OBVIOUS
<1>2. Shape(c) /\ c # <<>> /\ c[1].do = "count"
  BY <1>1, PricedShape
<1>3. Shape(PredictSteps) /\ PredictSteps # <<>> /\ PredictSteps[1].do = "scope"
  BY <1>1, <1>2, ComputeThen DEF PredictSteps
<1> QED BY <1>3, ComputeThen DEF PredictAgain

(* Two edits before a compute.                                             *)
LEMMA TwoEdits ==
  ASSUME NEW x, NEW y, x.do \in Edits, y.do \in Edits, Succ(x.do, y.do), Succ(y.do, "scope"),
         NEW s, s = <<x, y>> \o ComputeSteps
  PROVE  Shape(s) /\ s # <<>> /\ s[1].do = x.do
<1>1. PICK a : a = <<x, y>>
  OBVIOUS
<1>2. a \in Seq({x, y}) /\ Len(a) = 2 /\ a[1] = x /\ a[2] = y /\ a # <<>>
  BY <1>1
<1>3. IsSeq(a)
  BY <1>2 DEF IsSeq
<1>4. \A i \in 1 .. Len(a) : i = 1 \/ i = 2
  BY <1>2
<1>5. \A i \in 1 .. Len(a) : i < Len(a) => Succ(a[i].do, a[i + 1].do)
  BY <1>2, <1>4
<1>6. \A i \in 1 .. Len(a) : a[i].do \in StepNames \ Priced
  BY <1>2, <1>4 DEF StepNames, Edits, Priced
<1>7. PICK b : b = ComputeSteps
  OBVIOUS
<1>8. Shape(b) /\ b # <<>> /\ Owes(b) /\ b[1].do = "scope"
  BY <1>7, ComputeShape
<1>9. s = a \o b /\ Succ(a[Len(a)].do, b[1].do)
  BY <1>1, <1>2, <1>7, <1>8
<1> QED BY <1>2, <1>3, <1>5, <1>6, <1>8, <1>9, Joined

(* The parity of what follows, and of twice a number.                      *)
LEMMA Parity ==
  ASSUME NEW i \in Nat
  PROVE  /\ i % 2 = 1 <=> (i + 1) % 2 # 1
         /\ (i + 2) % 2 = i % 2
         /\ (2 * i) % 2 = 0
<1>1. (i + 2) % 2 = i % 2
  OBVIOUS
<1>2. (2 * i) % 2 = 0
  OBVIOUS
<1>3. i % 2 = 1 <=> (i + 1) % 2 # 1
  <2>1. i % 2 \in {0, 1}
    OBVIOUS
  <2>2. CASE i % 2 = 0
    <3>1. (i + 1) % 2 = 1
      BY <2>2
    <3> QED BY <2>2, <3>1
  <2>3. CASE i % 2 = 1
    <3>1. (i + 1) % 2 = 0
      BY <2>3
    <3> QED BY <2>3, <3>1
  <2> QED BY <2>1, <2>2, <2>3
<1> QED BY <1>1, <1>2, <1>3

(* The inferences of all files: infer, merge, infer, merge.                *)
LEMMA InferAllIs ==
  /\ IsSeq(InferAll) /\ Len(InferAll) = 2 * Len(DeskFiles) /\ Len(DeskFiles) \in Nat
  /\ \A i \in 1 .. Len(InferAll) : InferAll[i].do = IF i % 2 = 1 THEN "infer" ELSE "merge"
<1>1. PICK n : n = 2 * Len(DeskFiles)
  OBVIOUS
<1>2. n \in Nat /\ Len(DeskFiles) \in Nat
  BY <1>1, DeskAssumption
<1>3. PICK S : S = {StepOn(IF i % 2 = 1 THEN "infer" ELSE "merge", DeskFiles[(i + 1) \div 2]) :
                      i \in 1 .. n}
  OBVIOUS
<1>4. InferAll \in Seq(S) /\ Len(InferAll) = n
  BY <1>1, <1>2, <1>3 DEF InferAll
<1>5. \A i \in 1 .. n : InferAll[i].do = IF i % 2 = 1 THEN "infer" ELSE "merge"
  BY <1>1 DEF InferAll, StepOn
<1> QED BY <1>1, <1>2, <1>4, <1>5 DEF IsSeq

(* Bind, context and the inferences, before any compute.                   *)
LEMMA BindThenInfer ==
  ASSUME NEW x, x = <<Step("bind"), Step("context")>> \o InferAll
  PROVE  /\ IsSeq(x) /\ x # <<>> /\ x[1].do = "bind" /\ Len(x) \in Nat \ {0}
         /\ \A i \in 1 .. Len(x) : x[i].do \in {"bind", "context", "infer", "merge"}
         /\ \A i \in 1 .. Len(x) : i < Len(x) => Succ(x[i].do, x[i + 1].do)
         /\ Succ(x[Len(x)].do, "scope")
<1>1. PICK a, b : a = <<Step("bind"), Step("context")>> /\ b = InferAll
  OBVIOUS
<1>2. /\ a \in Seq({Step("bind"), Step("context")}) /\ Len(a) = 2
      /\ a[1].do = "bind" /\ a[2].do = "context"
  BY <1>1 DEF Step
<1>3. PICK m \in Nat : /\ IsSeq(b) /\ Len(b) = 2 * m
                       /\ \A i \in 1 .. Len(b) : b[i].do = IF i % 2 = 1 THEN "infer" ELSE "merge"
  BY <1>1, InferAllIs
<1>4. PICK S : a \in Seq(S) /\ b \in Seq(S)
  <2>1. PICK T : b \in Seq(T)
    BY <1>3 DEF IsSeq
  <2>2. PICK U : U = {Step("bind"), Step("context")} \cup T
    OBVIOUS
  <2>3. {Step("bind"), Step("context")} \subseteq U /\ T \subseteq U
    BY <2>2
  <2>4. a \in Seq(U)
    BY <1>2, <2>3, SeqMonotonic
  <2>5. b \in Seq(U)
    BY <2>1, <2>3, SeqMonotonic
  <2> QED BY <2>4, <2>5
<1>5. /\ x \in Seq(S) /\ Len(x) = 2 + 2 * m
      /\ \A i \in 1 .. 2 + 2 * m : x[i] = IF i <= 2 THEN a[i] ELSE b[i - 2]
  BY <1>1, <1>2, <1>3, <1>4, ConcatProperties
<1>6. /\ x[1].do = "bind" /\ x[2].do = "context"
      /\ \A i \in 3 .. Len(x) : x[i].do = IF i % 2 = 1 THEN "infer" ELSE "merge"
  <2>1. x[1] = a[1] /\ x[2] = a[2]
    BY <1>3, <1>5
  <2>2. ASSUME NEW i \in 3 .. Len(x) PROVE x[i].do = IF i % 2 = 1 THEN "infer" ELSE "merge"
    <3>1. PICK k : k = i - 2
      OBVIOUS
    <3>2. k \in 1 .. Len(b) /\ x[i] = b[k] /\ k \in Nat /\ i = k + 2
      BY <1>3, <1>5, <3>1
    <3>3. k % 2 = i % 2
      BY <3>2, Parity
    <3> QED BY <1>3, <3>2, <3>3
  <2> QED BY <1>2, <2>1, <2>2
<1>7. ASSUME NEW i \in 1 .. Len(x), i < Len(x) PROVE Succ(x[i].do, x[i + 1].do)
  <2>1. CASE i = 1
    BY <1>6, <2>1 DEF Succ
  <2>2. CASE i = 2
    <3>1. 3 \in 3 .. Len(x) /\ 3 % 2 = 1
      BY <1>5, <1>7, <2>2
    <3>2. x[3].do = "infer"
      BY <1>6, <3>1
    <3>3. i + 1 = 3
      BY <2>2
    <3>4. x[i].do = "context" /\ x[i + 1].do = "infer"
      BY <1>6, <2>2, <3>2, <3>3
    <3> QED BY <3>4 DEF Succ
  <2>3. CASE i > 2
    <3>0. i \in Nat /\ i \in 3 .. Len(x) /\ i + 1 \in 3 .. Len(x)
      BY <1>5, <1>7, <2>3
    <3>1. i % 2 = 1 <=> (i + 1) % 2 # 1
      BY <3>0, Parity
    <3>2. \/ x[i].do = "infer" /\ x[i + 1].do = "merge"
          \/ x[i].do = "merge" /\ x[i + 1].do = "infer"
      BY <1>6, <3>0, <3>1
    <3> QED BY <3>2 DEF Succ
  <2>4. i = 1 \/ i = 2 \/ i > 2
    BY <1>5
  <2> QED BY <2>1, <2>2, <2>3, <2>4
<1>8. \A i \in 1 .. Len(x) : x[i].do \in {"bind", "context", "infer", "merge"}
  <2> SUFFICES ASSUME NEW i \in 1 .. Len(x) PROVE x[i].do \in {"bind", "context", "infer", "merge"}
    OBVIOUS
  <2>1. i = 1 \/ i = 2 \/ i \in 3 .. Len(x)
    BY <1>5
  <2> QED BY <1>6, <2>1
<1>9. Succ(x[Len(x)].do, "scope")
  <2>1. CASE m = 0
    BY <1>5, <1>6, <2>1 DEF Succ
  <2>2. CASE m # 0
    <3>0. m + 1 \in Nat /\ Len(x) = 2 * (m + 1) /\ Len(x) \in 3 .. Len(x)
      BY <1>5, <2>2
    <3>1. Len(x) \in 3 .. Len(x) /\ Len(x) % 2 = 0
      BY <3>0, Parity
    <3>2. x[Len(x)].do = "merge"
      BY <1>6, <3>1
    <3> QED BY <3>2 DEF Succ
  <2> QED BY <2>1, <2>2
<1>10. IsSeq(x) /\ x # <<>> /\ Len(x) \in Nat \ {0}
  BY <1>5, NotEmpty DEF IsSeq
<1> QED BY <1>6, <1>7, <1>8, <1>9, <1>10

LEMMA AttachShape == Shape(AttachSteps) /\ AttachSteps # <<>> /\ AttachSteps[1].do = "bind"
<1>1. PICK x, c, r : /\ x = <<Step("bind"), Step("context")>> \o InferAll
                     /\ c = ComputeSteps /\ r = PredictSteps
  OBVIOUS
<1>2. /\ IsSeq(x) /\ x # <<>> /\ x[1].do = "bind" /\ Len(x) \in Nat \ {0}
      /\ \A i \in 1 .. Len(x) : x[i].do \in {"bind", "context", "infer", "merge"}
      /\ \A i \in 1 .. Len(x) : i < Len(x) => Succ(x[i].do, x[i + 1].do)
      /\ Succ(x[Len(x)].do, "scope")
  BY <1>1, BindThenInfer
<1>3. PICK b : b = c \o r
  OBVIOUS
<1>4. Shape(b) /\ b # <<>> /\ b[1].do = "scope"
  BY <1>1, <1>3, PredictShape DEF PredictAgain
<1>5. Owes(b)
  <2>1. PICK S : b \in Seq(S)
    BY <1>4 DEF Shape, IsSeq
  <2>2. 1 \in 1 .. Len(b)
    BY <1>4, <2>1, EmptySeq
  <2> QED BY <1>4, <2>2 DEF Owes
<1>6. AttachSteps = x \o b
  <2>1. IsSeq(x) /\ IsSeq(c) /\ IsSeq(r)
    BY <1>1, <1>2, ComputeShape, PredictShape DEF Shape
  <2>2. PICK S, T, U : x \in Seq(S) /\ c \in Seq(T) /\ r \in Seq(U)
    BY <2>1 DEF IsSeq
  <2>3. PICK V : V = S \cup T \cup U
    OBVIOUS
  <2>4. x \in Seq(V) /\ c \in Seq(V) /\ r \in Seq(V)
    BY <2>2, <2>3, SeqMonotonic
  <2>5. (x \o c) \o r = x \o (c \o r)
    BY <2>4, ConcatAssociative
  <2> QED BY <1>1, <1>3, <2>5 DEF AttachSteps
<1>7. \A i \in 1 .. Len(x) : x[i].do \in StepNames \ Priced
  BY <1>2 DEF StepNames, Edits, Priced
<1>8. PICK s : s = x \o b
  OBVIOUS
<1>9. Shape(s) /\ s # <<>> /\ s[1] = x[1]
  <2>1. Succ(x[Len(x)].do, b[1].do)
    BY <1>2, <1>4
  <2>2. \A i \in 1 .. Len(x) : x[i].do \in StepNames \ Priced /\ (x[i].do \in Edits => Owes(b))
    BY <1>5, <1>7
  <2>3. IsSeq(x) /\ x # <<>> /\ \A i \in 1 .. Len(x) : i < Len(x) => Succ(x[i].do, x[i + 1].do)
    BY <1>2
  <2>4. Shape(b) /\ b # <<>>
    BY <1>4
  <2> QED BY <1>8, <2>1, <2>2, <2>3, <2>4, Joined
<1> QED BY <1>2, <1>6, <1>8, <1>9

(* A click starts a request of that shape.                                 *)
LEMMA ClicksKeep ==
  ASSUME DeskInv, NEW t \in Tabs, Click(t)
  PROVE  DeskInv'
<1>1. ASSUME NEW s, Shape(s), s # <<>>, s[1].do \in Edits \cup {"scope"},
             NEW j, IsJob(j), Start(t, j, s)
      PROVE  DeskInv'
  <2>1. \A do \in {"quote", "pin", "price"} : ~At(s, do)
    BY <1>1 DEF At, Edits
  <2> QED BY <1>1, <2>1, StartKeeps
<1>2. ASSUME SaveScope(t) PROVE DeskInv'
  <2>1. PICK i \in DOMAIN Scope, n \in Corrections :
          Start(t, [kind |-> "override", slug |-> Scope[i].slug, app |-> Scope[i].app, n |-> n],
                OverrideSteps(page.owner[Scope[i].slug]))
    BY <1>2 DEF SaveScope
  <2>2. PICK sl, ap, f : sl = Scope[i].slug /\ ap = Scope[i].app /\ f = page.owner[Scope[i].slug]
    OBVIOUS
  <2>3. PICK j : j = [kind |-> "override", slug |-> sl, app |-> ap, n |-> n]
    OBVIOUS
  <2>4. IsJob(j)
    BY <2>3 DEF IsJob
  <2>5. PICK x, y : x = StepOn("open", f) /\ y = StepOn("save", f)
    OBVIOUS
  <2>6. x.do = "open" /\ y.do = "save"
    BY <2>5 DEF StepOn
  <2>7. PICK s : s = <<x, y>> \o ComputeSteps
    OBVIOUS
  <2>8. Shape(s) /\ s # <<>> /\ s[1].do = "open"
    <3>1. /\ x.do \in Edits /\ y.do \in Edits
          /\ Succ(x.do, y.do) /\ Succ(y.do, "scope")
      BY <2>6 DEF Succ, Edits
    <3> QED BY <2>6, <2>7, <3>1, TwoEdits
  <2>9. Start(t, j, s)
    BY <2>1, <2>2, <2>3, <2>5, <2>7 DEF OverrideSteps
  <2> QED BY <1>1, <2>4, <2>8, <2>9 DEF Edits
<1>3. ASSUME RerunMapping(t) PROVE DeskInv'
  <2>1. PICK f \in Range(DeskFiles), force \in BOOLEAN :
          Start(t, [kind |-> "remap", card |-> card, force |-> force], RerunInference(f))
    BY <1>3 DEF RerunMapping
  <2>2. PICK cd : cd = card
    OBVIOUS
  <2>3. PICK j : j = [kind |-> "remap", card |-> cd, force |-> force]
    OBVIOUS
  <2>4. IsJob(j)
    BY <2>3 DEF IsJob
  <2>5. PICK x, y : x = StepOn("infer", f) /\ y = StepOn("merge", f)
    OBVIOUS
  <2>6. x.do = "infer" /\ y.do = "merge"
    BY <2>5 DEF StepOn
  <2>7. PICK s : s = <<x, y>> \o ComputeSteps
    OBVIOUS
  <2>8. Shape(s) /\ s # <<>> /\ s[1].do = "infer"
    <3>1. /\ x.do \in Edits /\ y.do \in Edits
          /\ Succ(x.do, y.do) /\ Succ(y.do, "scope")
      BY <2>6 DEF Succ, Edits
    <3> QED BY <2>6, <2>7, <3>1, TwoEdits
  <2>9. Start(t, j, s)
    BY <2>1, <2>2, <2>3, <2>5, <2>7 DEF RerunInference, InferSteps
  <2> QED BY <1>1, <2>4, <2>8, <2>9 DEF Edits
<1>4. ASSUME AttachRateCard(t) PROVE DeskInv'
  <2>1. PICK c \in DOMAIN DeskCards :
          Start(t, [kind |-> "attach", card |-> c, force |-> FALSE], AttachSteps)
    BY <1>4 DEF AttachRateCard
  <2>2. PICK j : j = [kind |-> "attach", card |-> c, force |-> FALSE]
    OBVIOUS
  <2>3. IsJob(j) /\ Start(t, j, AttachSteps)
    BY <2>1, <2>2 DEF IsJob
  <2> QED BY <1>1, <2>3, AttachShape DEF Edits
<1>5. ASSUME RunPredict(t) PROVE DeskInv'
  <2>1. PICK j : j = [kind |-> "predict"]
    OBVIOUS
  <2>2. IsJob(j) /\ Start(t, j, PredictAgain)
    BY <1>5, <2>1 DEF IsJob, RunPredict
  <2> QED BY <1>1, <2>2, PredictShape
<1> QED BY <1>2, <1>3, <1>4, <1>5 DEF Click

(* Whatever requests run, one tab or many.                                 *)
THEOREM DeskInvariant == QuoteDeskSpec => []DeskInv
<1>1. DeskInit => DeskInv
  <2> SUFFICES ASSUME DeskInit PROVE DeskInv
    OBVIOUS
  <2>1. DOMAIN todo = Tabs /\ \A t \in Tabs : todo[t] = Rest
    BY DEF DeskInit
  <2>2. TabOK(Rest)
    <3>1. Shape(<<>>)
      BY EmptySeq DEF Shape, IsSeq
    <3>2. Rest = [f \in TabFields |-> Rest[f]] /\ Rest.steps = <<>> /\ Rest.job = [kind |-> "none"]
      BY DEF Rest, TabFields
    <3>3. [kind |-> "none"] = [f \in DOMAIN [kind |-> "none"] |-> [kind |-> "none"][f]]
      OBVIOUS
    <3> QED BY <3>1, <3>2, <3>3 DEF TabOK
  <2>3. Busy = {}
    BY <2>1 DEF Busy, Rest
  <2>4. TodoOK
    BY <2>1, <2>2, <2>3 DEF TodoOK
  <2>5. QuoteInv
    BY <2>3 DEF QuoteInv, Current, DeskInit
  <2>6. \A t \in Tabs : Pinning(todo[t])
    BY <2>1 DEF Pinning, At, Rest
  <2>7. preds = <<>> /\ closed = 0
    BY DEF DeskInit
  <2>8. preds \in Seq(Range(preds)) /\ Len(preds) = 0
    BY <2>7, EmptySeq
  <2> QED BY <2>4, <2>5, <2>6, <2>7, <2>8 DEF DeskInv, PinInv
<1>2. DeskInv /\ [DeskNext]_deskVars => DeskInv'
  <2> SUFFICES ASSUME DeskInv, [DeskNext]_deskVars PROVE DeskInv'
    OBVIOUS
  <2>0. closed \in Nat
    BY DEF DeskInv, PinInv
  <2>1. CASE UNCHANGED deskVars
    BY <2>0, <2>1, RestKeep DEF deskVars
  <2>2. ASSUME NEW t \in Tabs, Run(t) PROVE DeskInv'
    BY <2>2, EditsKeep, ComputesKeep, PersistKeeps, PricesKeep, AnswerKeeps DEF Run
  <2>3. CASE Load \/ CreateLineItem \/ UpdateLineItem \/ RemoveLineItem
    BY <2>0, <2>3, RestKeep DEF Load, CreateLineItem, UpdateLineItem, RemoveLineItem
  <2>4. CASE DealCloses
    BY <2>0, <2>4, RestKeep DEF DealCloses
  <2> QED BY <2>1, <2>2, <2>3, <2>4, ClicksKeep DEF DeskNext
<1> QED BY <1>1, <1>2, PTL DEF QuoteDeskSpec

(* At rest the quote is the price of the scope on file (see the definition *)
(* in QuoteDesk for when).                                                 *)
THEOREM QuoteCorrect == QuoteDeskSpec => []QuoteFollowsScope
<1>1. DeskInv => QuoteFollowsScope
  BY DEF DeskInv, QuoteInv, Current, QuoteFollowsScope
<1> QED BY <1>1, DeskInvariant, PTL

(* All predictions of a deal stand on one count, if they do not overlap.   *)
THEOREM RegimeCorrect == QuoteDeskSpec => []OneRegimePerDeal
<1>1. DeskInv => OneRegimePerDeal
  <2> SUFFICES ASSUME DeskInv, dWorld.tabs = 1, NEW i \in DOMAIN preds, NEW j \in DOMAIN preds
               PROVE  preds[i].closed = preds[j].closed
    BY DEF OneRegimePerDeal
  <2>1. DOMAIN preds = 1 .. Len(preds)
    BY DEF DeskInv, PinInv
  <2> QED BY <2>1 DEF DeskInv, PinInv
<1> QED BY <1>1, DeskInvariant, PTL

-----------------------------------------------------------------------------
(* The tree of categories: its rows, the calls of the panels, the rules    *)
(* and the classifications.                                                *)
RowFields == {"parent", "pos"}
TreeOK(t) ==
  /\ t = [s \in DOMAIN t |-> t[s]] /\ DOMAIN t \subseteq CategorySlugs
  /\ \A s \in DOMAIN t : /\ DOMAIN t[s] = RowFields
                         /\ t[s].parent = NoCat \/ t[s].parent \in Tops(t)
CallOK(c) == c.at = "sent" => c.does \in Calls(c.tree)
PanelsOK ==
  /\ panels = [a \in Panels |-> panels[a]]
  /\ \A a \in Panels : DOMAIN panels[a] = {"shown", "call"} /\ CallOK(panels[a].call)

(* Rules are of members; and until somebody touches them, the one          *)
(* classification at a time has routed the lead or is about to.            *)
RulesOK == team \subseteq Members /\ \A r \in rules : r = <<r[1], r[2]>> /\ r[2] \in team
RoutedFor(j) ==
  /\ jobs[j].at \notin {"routing", "assigning"} =>
       (RulesOf(lead.cat) # {} => lead.reviewer \in RulesOf(lead.cat))
  /\ jobs[j].at = "assigning" => jobs[j].user \in RulesOf(lead.cat)
JobsOK ==
  /\ jobs = [j \in Jobs |-> jobs[j]] /\ DOMAIN lead = {"cat", "sub", "by", "reviewer"}
  /\ \A j \in Jobs : Jobs = {j} /\ ~edited => RoutedFor(j)
TaxInv == scene \in Scenes /\ TreeOK(tree) /\ PanelsOK /\ RulesOK /\ JobsOK

(* What a panel can send.                                                  *)
LEMMA CallShapes ==
  ASSUME NEW t, NEW c \in Calls(t)
  PROVE  /\ c.op = "create" => c.slug \in CategorySlugs
         /\ c.op = "reorder" => \E s, n \in DOMAIN t :
              s # n /\ c = [op |-> "reorder", slug |-> s, past |-> n, pos |-> Swapped(t, s, n)]
<1> DEFINE Moves(s) == {[op |-> "reorder", slug |-> s, past |-> n, pos |-> Swapped(t, s, n)] :
                          n \in Neighbours(t, s, TRUE) \cup Neighbours(t, s, FALSE)}
<1>1. PICK moves : moves = UNION {Moves(s) : s \in DOMAIN t}
  OBVIOUS
<1>2. ASSUME c \in moves
      PROVE  \E s, n \in DOMAIN t :
               s # n /\ c = [op |-> "reorder", slug |-> s, past |-> n, pos |-> Swapped(t, s, n)]
  <2>1. PICK s \in DOMAIN t : c \in Moves(s)
    BY <1>1, <1>2
  <2>2. PICK n \in Neighbours(t, s, TRUE) \cup Neighbours(t, s, FALSE) :
          c = [op |-> "reorder", slug |-> s, past |-> n, pos |-> Swapped(t, s, n)]
    BY <2>1
  <2>3. n \in DOMAIN t /\ n # s
    BY <2>2 DEF Neighbours, Siblings
  <2> QED BY <2>2, <2>3
<1> DEFINE Creates == [op : {"create"}, slug : CategorySlugs, parent : Tops(t) \cup {NoCat}]
           Archives == [op : {"archive"}, slug : DOMAIN t]
           Ruled    == [op : {"rule"}, slug : Tops(t), user : Members]
           Unruled  == [op : {"unrule"}, slug : Tops(t), user : Members]
<1>3. Calls(t) = Creates \cup Archives \cup {[op |-> "reset"]} \cup Ruled \cup Unruled
                 \cup UNION {Moves(s) : s \in DOMAIN t}
  BY DEF Calls
<1>10. Calls(t) = Creates \cup Archives \cup {[op |-> "reset"]} \cup Ruled \cup Unruled \cup moves
  BY <1>1, <1>3
<1> HIDE DEF Moves, Creates, Archives, Ruled, Unruled
<1>4. CASE c \in moves
  <2>1. PICK s, n \in DOMAIN t :
          s # n /\ c = [op |-> "reorder", slug |-> s, past |-> n, pos |-> Swapped(t, s, n)]
    BY <1>2, <1>4
  <2>2. c.op = "reorder"
    BY <2>1
  <2> QED BY <2>1, <2>2
<1>5 CASE c \in Creates
  <2>1. c.op = "create" /\ c.slug \in CategorySlugs
    BY <1>5 DEF Creates
  <2> QED BY <2>1
<1>6 CASE c \in Archives
  <2>1. c.op = "archive"
    BY <1>6 DEF Archives
  <2> QED BY <2>1
<1>7. CASE c = [op |-> "reset"]
  <2>1. c.op = "reset"
    BY <1>7
  <2> QED BY <2>1
<1>8 CASE c \in Ruled
  <2>1. c.op = "rule"
    BY <1>8 DEF Ruled
  <2> QED BY <2>1
<1>9 CASE c \in Unruled
  <2>1. c.op = "unrule"
    BY <1>9 DEF Unruled
  <2> QED BY <2>1
<1> QED BY <1>10, <1>4, <1>5, <1>6, <1>7, <1>8, <1>9

(* The tree.                                                               *)
LEMMA ObeyKeeps ==
  ASSUME TreeOK(tree), NEW t, NEW c \in Calls(t), MayDo(c), Obey(c)
  PROVE  TreeOK(tree')
<1>1. PICK old, new : old = tree /\ new = tree'
  OBVIOUS
<1>2. TreeOK(old)
  BY <1>1
<1>3. SUFFICES TreeOK(new)
  BY <1>1
<1>4. CASE c.op = "create"
  <2>1. c.slug \in CategorySlugs
    BY <1>4, CallShapes
  <2>2. /\ c.slug \notin DOMAIN old /\ (c.parent = NoCat \/ c.parent \in Tops(old))
        /\ new = With(old, c.slug, Row(c.parent, Bottom))
    BY <1>1, <1>4 DEF MayDo, TopParent, Obey, CreateRow
  <2>3. /\ DOMAIN new = DOMAIN old \cup {c.slug} /\ new = [s \in DOMAIN new |-> new[s]]
        /\ \A s \in DOMAIN old : new[s] = old[s]
        /\ new[c.slug] = [parent |-> c.parent, pos |-> Bottom]
    BY <2>2 DEF With, Row
  <2>4. Tops(old) \subseteq Tops(new)
    BY <2>3 DEF Tops
  <2> QED BY <1>2, <2>1, <2>2, <2>3, <2>4 DEF TreeOK, RowFields
<1>5. CASE c.op = "archive"
  <2>1. PICK out : out = {c.slug} \cup IF old[c.slug].parent = NoCat THEN Kids(old, c.slug) ELSE {}
    OBVIOUS
  <2>2. new = Without(old, out) /\ c.slug \in DOMAIN old
    BY <1>1, <1>5, <2>1 DEF MayDo, Obey, Archive
  <2>3. /\ DOMAIN new = DOMAIN old \ out /\ new = [s \in DOMAIN new |-> new[s]]
        /\ \A s \in DOMAIN new : new[s] = old[s]
    BY <2>2 DEF Without
  <2>4. ASSUME NEW s \in DOMAIN new, new[s].parent # NoCat PROVE new[s].parent \in Tops(new)
    <3>1. PICK p : p = old[s].parent
      OBVIOUS
    <3>2. /\ s \in DOMAIN old /\ s \notin out
          /\ p # NoCat /\ p \in DOMAIN old /\ old[p].parent = NoCat
      BY <1>2, <2>3, <2>4, <3>1 DEF TreeOK, Tops
    <3>3. p # c.slug
      BY <2>1, <3>1, <3>2 DEF Kids
    <3>4. c.slug # NoCat
      BY <1>2, <2>2, TaxonomyAssumption DEF TreeOK
    <3>5. p \notin Kids(old, c.slug)
      BY <3>2, <3>4 DEF Kids
    <3> QED BY <2>1, <2>3, <3>1, <3>2, <3>3, <3>5 DEF Tops
  <2> QED BY <1>2, <2>3, <2>4 DEF TreeOK
<1>6. CASE c.op = "reorder"
  <2>1. new = [s \in DOMAIN old |-> IF s \in DOMAIN c.pos THEN [old[s] EXCEPT !.pos = c.pos[s]]
                                    ELSE old[s]]
    BY <1>1, <1>6 DEF Obey, Reorder
  <2>2. \A s \in DOMAIN old : DOMAIN new[s] = RowFields /\ new[s].parent = old[s].parent
    BY <1>2, <2>1 DEF TreeOK, RowFields
  <2>3. DOMAIN new = DOMAIN old /\ Tops(new) = Tops(old)
    BY <2>1, <2>2 DEF Tops
  <2> QED BY <1>2, <2>1, <2>2, <2>3 DEF TreeOK
<1>7. CASE c.op = "reset"
  <2>1. new = Template
    BY <1>1, <1>7 DEF Obey, Reset
  <2> QED BY <2>1, TaxonomyAssumption DEF TreeOK, Tops, RowFields
<1>8. CASE c.op \notin {"create", "archive", "reorder", "reset"}
  <2>1. new = old
    BY <1>1, <1>8 DEF Obey
  <2> QED BY <1>2, <2>1
<1> QED BY <1>4, <1>5, <1>6, <1>7, <1>8

LEMMA ReparentKeeps ==
  ASSUME TreeOK(tree), NEW s, NEW p, MayReparent(s, p), tree' = [tree EXCEPT ![s].parent = p]
  PROVE  TreeOK(tree')
<1>1. PICK old, new : old = tree /\ new = tree'
  OBVIOUS
<1>2. TreeOK(old) /\ new = [old EXCEPT ![s].parent = p]
  BY <1>1
<1>3. /\ s \in DOMAIN old /\ p # s /\ (p = NoCat \/ p \in Tops(old))
      /\ p = NoCat \/ Kids(old, s) = {}
  BY <1>1 DEF MayReparent, TopParent
<1>4. /\ DOMAIN new = DOMAIN old /\ new = [x \in DOMAIN new |-> new[x]]
      /\ \A x \in DOMAIN old \ {s} : new[x] = old[x]
      /\ DOMAIN new[s] = RowFields /\ new[s].parent = p
  BY <1>2, <1>3 DEF TreeOK, RowFields
<1>5. ASSUME NEW x \in DOMAIN new, new[x].parent # NoCat PROVE new[x].parent \in Tops(new)
  <2>1. CASE x = s
    BY <1>3, <1>4, <1>5, <2>1 DEF Tops
  <2>2. CASE x # s
    <3>1. x \in DOMAIN old /\ new[x].parent = old[x].parent /\ old[x].parent \in Tops(old)
      BY <1>2, <1>4, <1>5, <2>2 DEF TreeOK
    <3>2. old[x].parent = s => p = NoCat
      BY <1>3, <3>1 DEF Kids
    <3> QED BY <1>3, <1>4, <3>1, <3>2 DEF Tops
  <2> QED BY <2>1, <2>2
<1> QED BY <1>1, <1>2, <1>4, <1>5 DEF TreeOK

(* The panels.                                                             *)
LEMMA PanelsKeep ==
  ASSUME PanelsOK, scene' = scene, [TaxonomyNext]_taxonomyVars
  PROVE  PanelsOK'
<1>1. CASE panels' = panels
  BY <1>1 DEF PanelsOK, Panels, CallOK
<1>2. ASSUME NEW a \in Panels, PressTaxonomy(a) PROVE PanelsOK'
  <2>1. PICK t, c, k : /\ t = panels[a].shown /\ c \in Calls(t)
                       /\ k = [at |-> "sent", does |-> c, tree |-> t]
                       /\ panels' = [panels EXCEPT ![a].call = k]
    BY <1>2 DEF PressTaxonomy
  <2>2. CallOK(k)
    BY <2>1 DEF CallOK
  <2> QED BY <2>1, <2>2 DEF PanelsOK, Panels
<1>3. ASSUME NEW a \in Panels, ServeEdit(a) PROVE PanelsOK'
  <2>1. PICK k \in {NoJob, [at |-> "reading"]} : panels' = [panels EXCEPT ![a].call = k]
    BY <1>3 DEF ServeEdit
  <2>2. CallOK(k)
    BY <2>1 DEF CallOK, NoJob
  <2> QED BY <2>1, <2>2 DEF PanelsOK, Panels
<1>4. ASSUME NEW a \in Panels, ShowTree(a) PROVE PanelsOK'
  <2>1. PICK k : k = [shown |-> tree, call |-> NoJob] /\ panels' = [panels EXCEPT ![a] = k]
    BY <1>4 DEF ShowTree
  <2>2. DOMAIN k = {"shown", "call"} /\ CallOK(k.call)
    BY <2>1 DEF CallOK, NoJob
  <2> QED BY <2>1, <2>2 DEF PanelsOK, Panels
<1>5. ASSUME NEW j \in Jobs, \/ AskAi(j) \/ AiAnswers(j) \/ Pick(j) \/ ClassifyManual(j)
                         \/ Route(j) \/ Assign(j)
      PROVE  panels' = panels
  BY <1>5 DEF AskAi, AiAnswers, Pick, ClassifyManual, Route, Assign
<1>6. ASSUME NEW s, NEW p, Update(s, p) PROVE panels' = panels
  BY <1>6 DEF Update
<1>7. ASSUME NEW u, Reassign(u) \/ RemoveMember(u) PROVE panels' = panels
  BY <1>7 DEF Reassign, RemoveMember
<1> QED BY <1>1, <1>2, <1>3, <1>4, <1>5, <1>6, <1>7 DEF TaxonomyNext, taxonomyVars

(* Routing.                                                                *)
LEMMA RulesKeep ==
  ASSUME RulesOK, PanelsOK, [TaxonomyNext]_taxonomyVars
  PROVE  RulesOK'
<1>1. CASE UNCHANGED <<rules, team>>
  BY <1>1 DEF RulesOK
<1>2. ASSUME NEW a \in Panels, ServeEdit(a) PROVE RulesOK'
  <2>1. team' = team
    BY <1>2 DEF ServeEdit
  <2>2. PICK c : c = panels[a].call.does
    OBVIOUS
  <2>3. UNCHANGED rules \/ (MayDo(c) /\ Obey(c))
    BY <1>2, <2>2 DEF ServeEdit
  <2>4. CASE MayDo(c) /\ Obey(c)
    <3>1. rules' \subseteq rules \/ (rules' = rules \cup {<<c.slug, c.user>>} /\ c.user \in team)
      BY <2>4 DEF MayDo, Obey, CreateRow, Archive, Reorder, Reset
    <3> QED BY <2>1, <3>1 DEF RulesOK
  <2> QED BY <2>1, <2>3, <2>4 DEF RulesOK
<1>3. ASSUME NEW u, RemoveMember(u) PROVE RulesOK'
  BY <1>3 DEF RemoveMember, RulesOK
<1>4. ASSUME NEW a \in Panels, PressTaxonomy(a) \/ ShowTree(a) PROVE UNCHANGED <<rules, team>>
  BY <1>4 DEF PressTaxonomy, ShowTree, admin
<1>5. ASSUME NEW j \in Jobs, \/ AskAi(j) \/ AiAnswers(j) \/ Pick(j) \/ ClassifyManual(j)
                            \/ Route(j) \/ Assign(j)
      PROVE  UNCHANGED <<rules, team>>
  BY <1>5 DEF AskAi, AiAnswers, Pick, ClassifyManual, Route, Assign, admin
<1>6. ASSUME NEW s, NEW p, Update(s, p) PROVE UNCHANGED <<rules, team>>
  BY <1>6 DEF Update
<1>7. ASSUME NEW u, Reassign(u) PROVE UNCHANGED <<rules, team>>
  BY <1>7 DEF Reassign, admin
<1> QED BY <1>1, <1>2, <1>3, <1>4, <1>5, <1>6, <1>7 DEF TaxonomyNext, taxonomyVars, admin

(* A classification takes its next step; others leave what it relies on.   *)
LEMMA JobsKeep ==
  ASSUME RulesOK, JobsOK, scene' = scene, [TaxonomyNext]_taxonomyVars
  PROVE  JobsOK'
<1>0. /\ jobs = [j \in Jobs |-> jobs[j]] /\ DOMAIN lead = {"cat", "sub", "by", "reviewer"}
      /\ Jobs' = Jobs
  BY DEF JobsOK, Jobs
<1>1. CASE UNCHANGED <<lead, jobs>> /\ (edited' \/ UNCHANGED <<rules, edited>>)
  BY <1>1, <1>0 DEF JobsOK, RoutedFor, RulesOf
<1>2. ASSUME NEW r, lead' = [lead EXCEPT !.reviewer = r], edited', jobs' = jobs PROVE JobsOK'
  BY <1>0, <1>2 DEF JobsOK
<1>3. ASSUME NEW j \in Jobs, NEW k, jobs' = [jobs EXCEPT ![j] = k],
             UNCHANGED <<rules, lead, edited>>, k.at \notin {"routing", "assigning"},
             jobs[j].at \notin {"routing", "assigning"}
      PROVE  JobsOK'
  BY <1>0, <1>3 DEF JobsOK, RoutedFor, RulesOf
<1>4. ASSUME NEW j \in Jobs, NEW cat, NEW sub, NEW by, WriteCategory(j, cat, sub, by) PROVE JobsOK'
  <2>1. PICK k : k = [at |-> "routing"] /\ jobs' = [jobs EXCEPT ![j] = k]
    BY <1>4 DEF WriteCategory
  <2>2. jobs' = [i \in Jobs |-> jobs'[i]] /\ jobs'[j].at = "routing"
    BY <1>0, <2>1
  <2>3. DOMAIN lead' = {"cat", "sub", "by", "reviewer"}
    BY <1>0, <1>4 DEF WriteCategory
  <2>4. ASSUME NEW i \in Jobs, Jobs = {i} PROVE RoutedFor(i)'
    BY <2>2, <2>4 DEF RoutedFor
  <2> QED BY <1>0, <2>2, <2>3, <2>4 DEF JobsOK
<1>5. ASSUME NEW j \in Jobs, AskAi(j) PROVE JobsOK'
  <2>1. PICK k : k = [at |-> "asking", list |-> tree] /\ jobs' = [jobs EXCEPT ![j] = k]
    BY <1>5 DEF AskAi
  <2>2. /\ UNCHANGED <<rules, lead, edited>> /\ k.at \notin {"routing", "assigning"}
        /\ jobs[j].at \notin {"routing", "assigning"}
    BY <1>5, <2>1 DEF AskAi, admin, NoJob
  <2> QED BY <1>3, <2>1, <2>2
<1>6. ASSUME NEW j \in Jobs, AiAnswers(j) PROVE JobsOK'
  <2>1. jobs[j].at = "asking" /\ UNCHANGED rules
    BY <1>6 DEF AiAnswers, admin
  <2>2. \/ jobs' = [jobs EXCEPT ![j] = NoJob] /\ UNCHANGED <<lead, edited>>
        \/ \E cat, sub : WriteCategory(j, cat, sub, "llm")
    BY <1>6 DEF AiAnswers
  <2> QED BY <1>3, <1>4, <2>1, <2>2 DEF NoJob
<1>7. ASSUME NEW j \in Jobs, Pick(j) PROVE JobsOK'
  <2>1. PICK cat : \E sub :
          jobs' = [jobs EXCEPT ![j] = [at |-> "picked", cat |-> cat, sub |-> sub]]
    BY <1>7, Zenon DEF Pick
  <2>2. PICK sub : jobs' = [jobs EXCEPT ![j] = [at |-> "picked", cat |-> cat, sub |-> sub]]
    BY <2>1
  <2>3. PICK k : k = [at |-> "picked", cat |-> cat, sub |-> sub] /\ jobs' = [jobs EXCEPT ![j] = k]
    BY <2>2
  <2>4. /\ UNCHANGED <<rules, lead, edited>> /\ k.at \notin {"routing", "assigning"}
        /\ jobs[j].at \notin {"routing", "assigning"}
    BY <1>7, <2>3 DEF Pick, admin, NoJob
  <2> QED BY <1>3, <2>3, <2>4
<1>8. ASSUME NEW j \in Jobs, ClassifyManual(j) PROVE JobsOK'
  <2>1. jobs[j].at = "picked" /\ UNCHANGED rules
    BY <1>8 DEF ClassifyManual, admin
  <2>2. \/ jobs' = [jobs EXCEPT ![j] = NoJob] /\ UNCHANGED <<lead, edited>>
        \/ WriteCategory(j, jobs[j].cat, jobs[j].sub, "manual")
    BY <1>8 DEF ClassifyManual
  <2> QED BY <1>3, <1>4, <2>1, <2>2 DEF NoJob
<1>9. ASSUME NEW j \in Jobs, Route(j) PROVE JobsOK'
  <2>1. jobs[j].at = "routing" /\ UNCHANGED <<rules, lead, edited>>
    BY <1>9 DEF Route, admin
  <2>2. CASE RulesOf(lead.cat) \ {lead.reviewer} = {} /\ jobs' = [jobs EXCEPT ![j] = NoJob]
    <3>1. jobs' = [i \in Jobs |-> jobs'[i]] /\ jobs'[j].at = "none" /\ lead' = lead
      BY <1>0, <2>1, <2>2 DEF NoJob
    <3>2. RulesOf(lead.cat) # {} => lead.reviewer \in RulesOf(lead.cat)
      BY <2>2
    <3>3. RulesOf(lead.cat)' = RulesOf(lead.cat)
      BY <2>1, <3>1 DEF RulesOf
    <3>4. ASSUME NEW i \in Jobs, Jobs = {i} PROVE RoutedFor(i)'
      BY <3>1, <3>2, <3>3, <3>4 DEF RoutedFor
    <3> QED BY <1>0, <3>1, <3>4 DEF JobsOK
  <2>3. ASSUME NEW u \in RulesOf(lead.cat), jobs' = [jobs EXCEPT ![j] =
                 IF u = lead.reviewer THEN NoJob ELSE [at |-> "assigning", user |-> u]]
        PROVE  JobsOK'
    BY <1>0, <2>1, <2>3 DEF JobsOK, RoutedFor, RulesOf, NoJob
  <2> QED BY <1>9, <2>2, <2>3 DEF Route
<1>10. ASSUME NEW j \in Jobs, Assign(j) PROVE JobsOK'
  <2>1. /\ jobs[j].at = "assigning" /\ UNCHANGED <<rules, edited>>
        /\ jobs' = [jobs EXCEPT ![j] = NoJob]
        /\ lead' = [lead EXCEPT !.reviewer = IF jobs[j].user \in team THEN jobs[j].user ELSE @]
    BY <1>10 DEF Assign, admin
  <2>2. ASSUME Jobs = {j}, ~edited PROVE RoutedFor(j)'
    <3>1. jobs[j].user \in RulesOf(lead.cat)
      BY <2>1, <2>2 DEF JobsOK, RoutedFor
    <3>2. jobs[j].user \in team
      BY <3>1 DEF RulesOK, RulesOf
    <3>3. lead'.cat = lead.cat /\ lead'.reviewer = jobs[j].user /\ jobs'[j] = NoJob
      BY <1>0, <2>1, <3>2
    <3> QED BY <2>1, <3>1, <3>3 DEF RoutedFor, RulesOf, NoJob
  <2>3. jobs' = [i \in Jobs' |-> jobs'[i]] /\ DOMAIN lead' = {"cat", "sub", "by", "reviewer"}
    BY <1>0, <2>1
  <2> QED BY <1>0, <2>1, <2>2, <2>3 DEF JobsOK
<1>11. ASSUME NEW a \in Panels, PressTaxonomy(a) \/ ServeEdit(a) \/ ShowTree(a) PROVE JobsOK'
  <2>1. CASE PressTaxonomy(a) \/ ShowTree(a)
    BY <1>1, <2>1 DEF PressTaxonomy, ShowTree, admin
  <2>2. CASE ServeEdit(a)
    <3>1. UNCHANGED <<lead, jobs>> /\ edited' = (edited \/ rules' # rules)
      BY <2>2 DEF ServeEdit
    <3>2. edited \in BOOLEAN => (edited' \/ UNCHANGED <<rules, edited>>)
      BY <3>1
    <3> QED BY <1>0, <3>1 DEF JobsOK, RoutedFor, RulesOf
  <2> QED BY <1>11, <2>1, <2>2
<1>12. ASSUME NEW s, NEW p, Update(s, p) PROVE JobsOK'
  BY <1>1, <1>12 DEF Update
<1>13. ASSUME NEW u, Reassign(u) PROVE JobsOK'
  BY <1>2, <1>13 DEF Reassign
<1>14. ASSUME NEW u, RemoveMember(u) PROVE JobsOK'
  <2>1. PICK r : lead' = [lead EXCEPT !.reviewer = r]
    BY <1>14 DEF RemoveMember
  <2> QED BY <1>2, <1>14, <2>1 DEF RemoveMember
<1>15. CASE UNCHANGED taxonomyVars
  BY <1>1, <1>15 DEF taxonomyVars, admin
<1> QED BY <1>5, <1>6, <1>7, <1>8, <1>9, <1>10, <1>11, <1>12, <1>13, <1>14, <1>15
        DEF TaxonomyNext

(* The tree of every tenant has two levels, a panel sends what its own     *)
(* tree offers, and a classification that nobody has interfered with has   *)
(* routed the lead or is about to.                                         *)
THEOREM TaxonomyInvariant == TaxonomySpec => []TaxInv
<1>1. TaxonomyInit => TaxInv
  <2> SUFFICES ASSUME TaxonomyInit PROVE TaxInv
    OBVIOUS
  <2>1. TreeOK(tree)
    BY TaxonomyAssumption DEF TaxonomyInit, TreeOK, Tops, RowFields
  <2>2. PanelsOK
    BY DEF TaxonomyInit, PanelsOK, CallOK, NoJob
  <2>3. RulesOK /\ RulesOf(NoCat) = {}
    BY TaxonomyAssumption DEF TaxonomyInit, RulesOK, RulesOf
  <2>4. JobsOK
    BY <2>3 DEF TaxonomyInit, JobsOK, RoutedFor, Unclassified, NoJob
  <2> QED BY <2>1, <2>2, <2>3, <2>4 DEF TaxonomyInit, TaxInv
<1>2. TaxInv /\ [TaxonomyNext]_taxonomyVars => TaxInv'
  <2> SUFFICES ASSUME TaxInv, [TaxonomyNext]_taxonomyVars PROVE TaxInv'
    OBVIOUS
  <2>1. scene' = scene
    BY DEF TaxonomyNext, taxonomyVars, PressTaxonomy, ServeEdit, ShowTree, Update, RemoveMember,
           AskAi, AiAnswers, Pick, ClassifyManual, Route, Assign, Reassign
  <2>2. PanelsOK' /\ RulesOK' /\ JobsOK'
    BY <2>1, PanelsKeep, RulesKeep, JobsKeep DEF TaxInv
  <2>3. TreeOK(tree')
    <3>1. ASSUME NEW a \in Panels, ServeEdit(a) PROVE TreeOK(tree')
      <4>1. PICK c, t : c = panels[a].call.does /\ t = panels[a].call.tree
        OBVIOUS
      <4>2. c \in Calls(t)
        BY <3>1, <4>1 DEF ServeEdit, TaxInv, PanelsOK, CallOK
      <4>3. tree' = tree \/ (MayDo(c) /\ Obey(c))
        BY <3>1, <4>1 DEF ServeEdit
      <4>4. TreeOK(tree)
        BY DEF TaxInv
      <4> QED BY <4>2, <4>3, <4>4, ObeyKeeps
    <3>2. ASSUME NEW s, NEW p, Update(s, p) PROVE TreeOK(tree')
      BY <3>2, ReparentKeeps DEF Update, TaxInv
    <3>3. ASSUME NEW u, Reassign(u) \/ RemoveMember(u) PROVE tree' = tree
      BY <3>3 DEF Reassign, RemoveMember, admin
    <3>4. ASSUME NEW j \in Jobs, \/ AskAi(j) \/ AiAnswers(j) \/ Pick(j) \/ ClassifyManual(j)
                                \/ Route(j) \/ Assign(j)
          PROVE  tree' = tree
      BY <3>4 DEF AskAi, AiAnswers, Pick, ClassifyManual, Route, Assign, admin
    <3>5. ASSUME NEW a \in Panels, PressTaxonomy(a) \/ ShowTree(a) PROVE tree' = tree
      BY <3>5 DEF PressTaxonomy, ShowTree, admin
    <3>6. CASE tree' = tree
      BY <3>6 DEF TaxInv
    <3> QED BY <3>1, <3>2, <3>3, <3>4, <3>5, <3>6 DEF TaxonomyNext, taxonomyVars, admin
  <2>4. TreeOK(tree)'
    BY <2>3 DEF TreeOK
  <2> QED BY <2>1, <2>2, <2>4 DEF TaxInv
<1> QED BY <1>1, <1>2, PTL DEF TaxonomySpec

LEMMA AnswersOffered ==
  ASSUME JobsOK, [TaxonomyNext]_taxonomyVars, scene' = scene
  PROVE  AnswersAreOffered
<1>0. jobs = [i \in Jobs |-> jobs[i]] /\ DOMAIN lead = {"cat", "sub", "by", "reviewer"}
  BY DEF JobsOK
<1> SUFFICES ASSUME NEW j \in Jobs, jobs[j].at = "asking", lead'.by = "llm",
                    jobs'[j].at = "routing"
             PROVE  /\ lead'.cat \in Tops(jobs[j].list)
                    /\ lead'.sub \in Kids(jobs[j].list, lead'.cat) \cup {NoCat}
  BY DEF AnswersAreOffered
<1>1. ASSUME NEW i \in Jobs, NEW k, jobs' = [jobs EXCEPT ![i] = k],
             i = j => k.at # "routing"
      PROVE  FALSE
  BY <1>0, <1>1
<1>2. ASSUME NEW i \in Jobs, NEW cat, NEW sub, NEW by, WriteCategory(i, cat, sub, by)
      PROVE  i = j /\ lead'.cat = cat /\ lead'.sub = sub
  BY <1>0, <1>2 DEF WriteCategory
<1>3. ASSUME NEW i \in Jobs, AiAnswers(i)
      PROVE  /\ lead'.cat \in Tops(jobs[j].list)
             /\ lead'.sub \in Kids(jobs[j].list, lead'.cat) \cup {NoCat}
  <2>1. PICK cat : \E sub :
          LET found == Parse(jobs[i].list, cat, sub)
          IN  IF found[1] = NoCat
              THEN jobs' = [jobs EXCEPT ![i] = NoJob] /\ UNCHANGED <<lead, edited>>
              ELSE WriteCategory(i, found[1], found[2], "llm")
    BY <1>3, Zenon DEF AiAnswers
  <2>2. PICK sub, found :
          /\ found = Parse(jobs[i].list, cat, sub)
          /\ IF found[1] = NoCat
             THEN jobs' = [jobs EXCEPT ![i] = NoJob] /\ UNCHANGED <<lead, edited>>
             ELSE WriteCategory(i, found[1], found[2], "llm")
    BY <2>1
  <2>3. found[1] # NoCat
    BY <1>1, <2>2 DEF NoJob
  <2>4. i = j /\ lead'.cat = found[1] /\ lead'.sub = found[2]
    BY <1>2, <2>2, <2>3
  <2>5. /\ found = <<cat, IF sub \in Kids(jobs[j].list, cat) THEN sub ELSE NoCat>>
        /\ cat \in Tops(jobs[j].list)
    BY <2>2, <2>3, <2>4 DEF Parse
  <2> QED BY <2>4, <2>5
<1>4. ASSUME NEW i \in Jobs, ClassifyManual(i) PROVE FALSE
  <2>1. \/ jobs' = [jobs EXCEPT ![i] = NoJob]
        \/ WriteCategory(i, jobs[i].cat, jobs[i].sub, "manual")
    BY <1>4 DEF ClassifyManual
  <2>2. i # j
    BY <1>4 DEF ClassifyManual
  <2> QED BY <1>1, <1>2, <2>1, <2>2 DEF NoJob
<1>5. ASSUME NEW i \in Jobs, AskAi(i) \/ Pick(i) \/ Route(i) \/ Assign(i) PROVE FALSE
  <2>1. i # j
    BY <1>5 DEF AskAi, Pick, Route, Assign, NoJob
  <2>2. \E k : jobs' = [jobs EXCEPT ![i] = k]
    BY <1>5 DEF AskAi, Pick, Route, Assign
  <2> QED BY <1>1, <2>1, <2>2
<1>6. jobs' # jobs
  OBVIOUS
<1>7. ASSUME NEW a, PressTaxonomy(a) \/ ServeEdit(a) \/ ShowTree(a) PROVE FALSE
  BY <1>6, <1>7 DEF PressTaxonomy, ServeEdit, ShowTree
<1>8. ASSUME NEW s, NEW p, Update(s, p) PROVE FALSE
  BY <1>6, <1>8 DEF Update
<1>9. ASSUME NEW u, Reassign(u) \/ RemoveMember(u) PROVE FALSE
  BY <1>6, <1>9 DEF Reassign, RemoveMember
<1> QED BY <1>3, <1>4, <1>5, <1>6, <1>7, <1>8, <1>9 DEF TaxonomyNext, taxonomyVars

LEMMA MovesPass ==
  ASSUME TreeOK(tree), PanelsOK, [TaxonomyNext]_taxonomyVars, scene' = scene
  PROVE  RowsMove
<1>0. panels = [i \in Panels |-> panels[i]]
  BY DEF PanelsOK
<1> SUFFICES ASSUME NEW a \in Panels, NEW c, c = panels[a].call.does,
                    panels[a].call.at = "sent", panels'[a].call.at = "reading",
                    c.op = "reorder", panels[a].call.tree = tree,
                    tree[c.slug].pos # tree[c.past].pos
             PROVE  /\ (tree'[c.slug].pos < tree'[c.past].pos)
                         = (tree[c.past].pos < tree[c.slug].pos)
                    /\ \A x \in Siblings(tree, c.slug) \ {c.slug, c.past} :
                         (tree'[c.slug].pos < tree'[x].pos) = (tree[c.past].pos < tree[x].pos)
  BY DEF RowsMove
<1>1. PICK s, n \in DOMAIN tree :
        s # n /\ c = [op |-> "reorder", slug |-> s, past |-> n, pos |-> Swapped(tree, s, n)]
  BY CallShapes DEF PanelsOK, CallOK
<1>2. ServeEdit(a)
  <2>1. ASSUME NEW i \in Panels, NEW k, jobs' = jobs, panels' = [panels EXCEPT ![i] = k],
               i = a => k.call.at # "reading"
        PROVE  FALSE
    BY <1>0, <2>1
  <2>2. panels' # panels
    OBVIOUS
  <2>3. ASSUME NEW i \in Panels, ServeEdit(i) PROVE i = a
    BY <1>0, <2>2, <2>3 DEF ServeEdit
  <2>4. ASSUME NEW i \in Panels, PressTaxonomy(i) \/ ShowTree(i) PROVE FALSE
    <3>1. i # a
      BY <2>4 DEF PressTaxonomy, ShowTree, NoJob
    <3> QED BY <1>0, <2>4, <3>1 DEF PressTaxonomy, ShowTree
  <2>5. ASSUME NEW j, \/ AskAi(j) \/ AiAnswers(j) \/ Pick(j) \/ ClassifyManual(j)
                     \/ Route(j) \/ Assign(j)
        PROVE  FALSE
    BY <2>2, <2>5 DEF AskAi, AiAnswers, Pick, ClassifyManual, Route, Assign
  <2>6. ASSUME NEW x, NEW p, Update(x, p) PROVE FALSE
    BY <2>2, <2>6 DEF Update
  <2>7. ASSUME NEW u, Reassign(u) \/ RemoveMember(u) PROVE FALSE
    BY <2>2, <2>7 DEF Reassign, RemoveMember
  <2> QED BY <2>2, <2>3, <2>4, <2>5, <2>6, <2>7 DEF TaxonomyNext, taxonomyVars
<1>3. PICK pos : pos = Swapped(tree, s, n)
  OBVIOUS
<1>4. tree' = [x \in DOMAIN tree |-> IF x \in DOMAIN pos THEN [tree[x] EXCEPT !.pos = pos[x]]
                                     ELSE tree[x]]
  BY <1>1, <1>2, <1>3 DEF ServeEdit, MayDo, Obey, Reorder
<1>5. DOMAIN pos = {s, n} /\ pos[s] = tree[n].pos /\ pos[n] = tree[s].pos
  BY <1>1, <1>3 DEF Swapped
<1>6. tree'[s].pos = tree[n].pos /\ tree'[n].pos = tree[s].pos
  BY <1>1, <1>4, <1>5 DEF TreeOK, RowFields
<1>7. ASSUME NEW x \in DOMAIN tree \ {s, n} PROVE tree'[x] = tree[x]
  BY <1>4, <1>5, <1>7
<1>8. c.slug = s /\ c.past = n /\ Siblings(tree, s) \subseteq DOMAIN tree
  BY <1>1 DEF Siblings
<1> QED BY <1>6, <1>7, <1>8

(* TaxonomyServes: no row hangs under an archived one or in a third level, *)
(* a lead is routed by its category's rules, an answer of the LLM is one   *)
(* of the list it was shown, and a moved row passes its neighbour.         *)
THEOREM TaxonomyCorrect == TaxonomySpec => TaxonomyServes
<1> DEFINE Clauses == TwoDeep' /\ ReviewerIsRouted' /\ AnswersAreOffered /\ RowsMove
<1>1. ASSUME TaxInv, TaxInv', [TaxonomyNext]_taxonomyVars PROVE [Clauses]_taxonomyVars
  <2>1. scene' = scene
    BY <1>1 DEF TaxonomyNext, taxonomyVars, PressTaxonomy, ServeEdit, ShowTree, Update,
                RemoveMember, AskAi, AiAnswers, Pick, ClassifyManual, Route, Assign, Reassign
  <2>2. TwoDeep'
    BY <1>1 DEF TaxInv, TreeOK, TwoDeep, TopParent, Tops
  <2>3. ReviewerIsRouted'
    <3>1. SUFFICES ASSUME Cardinality(Jobs)' = 1, (\A j \in Jobs : jobs[j] = NoJob)', ~edited',
                          RulesOf(lead.cat)' # {}
                   PROVE  lead'.reviewer \in RulesOf(lead.cat)'
      BY DEF ReviewerIsRouted
    <3>2. PICK J : J = Jobs' /\ Cardinality(J) = 1
      BY <3>1
    <3>3. IsFiniteSet(J)
      BY <1>1, <3>2, TaxonomyAssumption DEF TaxInv, Jobs
    <3>4. PICK j : J = {j}
      BY <3>2, <3>3, FS_Singleton
    <3>5. RoutedFor(j)'
      BY <1>1, <3>1, <3>2, <3>4 DEF TaxInv, JobsOK
    <3> QED BY <3>1, <3>2, <3>4, <3>5 DEF RoutedFor, NoJob
  <2>4. AnswersAreOffered
    BY <1>1, <2>1, AnswersOffered DEF TaxInv
  <2>5. RowsMove
    BY <1>1, <2>1, MovesPass DEF TaxInv
  <2> QED BY <2>2, <2>3, <2>4, <2>5
<1>2. TaxonomySpec => [][TaxonomyNext]_taxonomyVars
  BY DEF TaxonomySpec
<1> QED BY <1>1, <1>2, TaxonomyInvariant, PTL DEF TaxonomyServes

-----------------------------------------------------------------------------
(* The tenant's row, the settings' panels in several tabs, and the logo.   *)
SceneFields == {"panels", "edits", "saves", "uploads", "api"}
PanelNames == {"workspace", "limits", "notify", "none"}
TenantFields == {"name", "auto", "vp", "ceo", "paused", "routes", "logo"}
SceneOK == /\ sScene = [f \in SceneFields |-> sScene[f]]
           /\ sScene.panels \in [SettingsTabs -> PanelNames]

(* A page and its save: what is sent is the form as it was when Save was   *)
(* pressed, and it differs from what the page last read -- or the page has *)
(* read it meanwhile, for an upload, and then shows it.                    *)
FormOK(p, form) == form = [f \in Fields(p) |-> form[f]]
SaveOK(p, w, s) ==
  /\ s = [f \in DOMAIN s |-> s[f]] /\ {"at", "body", "form"} \subseteq DOMAIN s
  /\ s.at \in {"sent", "reading", "back"}
  /\ FormOK(p, s.form) /\ s.body = Body(p, s.form)
  /\ p = "limits" => CeoAboveVp(s.form.vp, s.form.ceo)
  /\ FormOf(p, w.read) # s.body \/ (p # "notify" /\ w.form = s.form)
PageOK(p, w) ==
  /\ w = [f \in {"read", "form", "save"} |-> w[f]] /\ FormOK(p, w.form)
  /\ w.save # NoSave => SaveOK(p, w, w.save)
PagesOK == /\ tabPage = [t \in SettingsTabs |-> tabPage[t]]
           /\ \A t \in SettingsTabs : PageOK(PanelIn(t), tabPage[t])

(* What the row holds: with one panel at work, what its save wrote.        *)
Echoes(p, s, n) == /\ s.at = "reading" => FormOf(p, n) = s.body
                   /\ s.at = "back" => FormOf(p, s.row) = s.body
RowOK == /\ tenant = [f \in TenantFields |-> tenant[f]]
         /\ LimitsInOrder
         /\ Alone => \A t \in SettingsTabs : Echoes(PanelIn(t), tabPage[t].save, tenant)

(* The bucket: with one panel at work, the logo of the row is not swept.   *)
UploadFits(u) == /\ u = [f \in DOMAIN u |-> u[f]] /\ "at" \in DOMAIN u
                 /\ u.at \in {"put", "sweep"} => u.keep \in logos \cup {Unset} /\ "keep" \in DOMAIN u
                 /\ u.at = "sweep" => tenant.logo = u.keep
                 /\ u.at = "delete" => tenant.logo \notin u.old
LogosOK == /\ upload = [t \in SettingsTabs |-> upload[t]]
           /\ \A t \in SettingsTabs : PanelIn(t) # "workspace" => upload[t] = NoSave
           /\ Alone => /\ tenant.logo \in logos \cup {Unset}
                       /\ \A t \in SettingsTabs : UploadFits(upload[t])
SettingsInv == SceneOK /\ PagesOK /\ RowOK /\ LogosOK

(* The scene: only its counters go down.                                   *)
LEMMA ScenesKeep ==
  ASSUME SceneOK, [SettingsNext]_settingsVars
  PROVE  SceneOK' /\ sScene'.panels = sScene.panels /\ sScene'.api = sScene.api
<1>1. ASSUME NEW n \in {"edits", "saves", "uploads"}, Spends(n)
      PROVE  SceneOK' /\ sScene'.panels = sScene.panels /\ sScene'.api = sScene.api
  BY <1>1 DEF Spends, SceneOK, SceneFields
<1>2. CASE sScene' = sScene
  BY <1>2 DEF SceneOK
<1>3. CASE PatchOne
  BY <1>1, <1>3 DEF PatchOne
<1>4. ASSUME NEW t, TypeIn(t) \/ PressSettings(t)
      PROVE  \E n \in {"edits", "saves", "uploads"} : Spends(n)
  BY <1>4 DEF TypeIn, PressSettings
<1>5. ASSUME NEW t, PutLogo(t) \/ RemoveLogo(t)
      PROVE  \E n \in {"edits", "saves", "uploads"} : Spends(n)
  BY <1>5 DEF PutLogo, RemoveLogo
<1>6. ASSUME NEW t, \/ UpdateTenant(t) \/ GetTenant(t) \/ ShowSaved(t) \/ PatchLogo(t)
                    \/ ListLogos(t) \/ SweepLogos(t) \/ ShowUploaded(t)
      PROVE  sScene' = sScene
  BY <1>6 DEF UpdateTenant, GetTenant, ShowSaved, PatchLogo, ListLogos, SweepLogos, ShowUploaded
<1> QED BY <1>1, <1>2, <1>3, <1>4, <1>5, <1>6 DEF SettingsNext, settingsVars

LEMMA OnePanel ==
  ASSUME SceneOK, Alone, NEW a \in SettingsTabs, NEW b \in SettingsTabs,
         PanelIn(a) # "none", PanelIn(b) # "none"
  PROVE  a = b
<1>1. PICK S : S = {t \in SettingsTabs : PanelIn(t) # "none"}
  OBVIOUS
<1>2. IsFiniteSet(S)
  BY <1>1, SettingsAssumption, FS_Subset
<1>3. PICK x : S = {x}
  BY <1>1, <1>2, FS_Singleton DEF Alone
<1> QED BY <1>1, <1>3

(* Filling in leaves a form of the panel's fields.                         *)
LEMMA EditedForms ==
  ASSUME NEW p \in PanelNames, NEW form, FormOK(p, form), NEW f \in Edited(p, form)
  PROVE  FormOK(p, f)
<1>1. ASSUME NEW k, NEW v, f = [form EXCEPT ![k] = v] PROVE FormOK(p, f)
  BY <1>1 DEF FormOK
<1>2. CASE p = "workspace"
  <2>1. \E k, v : f = [form EXCEPT ![k] = v]
    BY <1>2 DEF Edited
  <2> QED BY <1>1, <2>1
<1>3. CASE p = "limits"
  <2>1. f \in UNION {{[form EXCEPT !.vp = v], [form EXCEPT !.ceo = v]} : v \in Values \cup {Unset}}
    BY <1>3 DEF Edited
  <2>2. PICK v : f \in {[form EXCEPT !.vp = v], [form EXCEPT !.ceo = v]}
    BY <2>1
  <2> QED BY <1>1, <2>2
<1>4. CASE p = "notify"
  <2> DEFINE Unrouted(e) == [form EXCEPT !.routes = [x \in DOMAIN form.routes \ {e} |-> form.routes[x]]]
  <2>1. \/ f = [form EXCEPT !.paused = ~@]
        \/ f \in {Ticked(form, box[1], box[2]) : box \in Events \X ShownRoles}
        \/ f \in {Unrouted(e) : e \in Events}
    BY <1>4 DEF Edited
  <2>2. CASE f = [form EXCEPT !.paused = ~@]
    BY <2>2 DEF FormOK
  <2>3. ASSUME NEW e, NEW r, f = Ticked(form, e, r) PROVE FormOK(p, f)
    BY <2>3 DEF Ticked, FormOK
  <2>4. ASSUME NEW e, f = Unrouted(e) PROVE FormOK(p, f)
    BY <2>4 DEF FormOK
  <2> HIDE DEF Unrouted
  <2> QED BY <2>1, <2>2, <2>3, <2>4
<1>5. CASE p = "none"
  BY <1>5 DEF Edited
<1> QED BY <1>2, <1>3, <1>4, <1>5 DEF PanelNames

LEMMA BodyFields ==
  ASSUME NEW p, NEW form, FormOK(p, form)
  PROVE  FormOK(p, Body(p, form)) /\ (p # "notify" => Body(p, form) = form)
BY DEF FormOK, Body

(* The pages.                                                              *)
LEMMA TypeKeeps ==
  ASSUME NEW p \in PanelNames, NEW w, PageOK(p, w), NEW f \in Edited(p, w.form),
         w.save = NoSave \/ p = "notify"
  PROVE  PageOK(p, [w EXCEPT !.form = f])
<1>1. FormOK(p, f)
  BY EditedForms DEF PageOK
<1>2. PICK x : x = [w EXCEPT !.form = f]
  OBVIOUS
<1>3. /\ x = [g \in {"read", "form", "save"} |-> x[g]]
      /\ x.form = f /\ x.read = w.read /\ x.save = w.save
  BY <1>2 DEF PageOK
<1>4. x.save # NoSave => SaveOK(p, x, x.save)
  BY <1>3 DEF PageOK, SaveOK
<1> QED BY <1>1, <1>2, <1>3, <1>4 DEF PageOK

LEMMA SettingsSaveKeeps ==
  ASSUME NEW p, NEW w, PageOK(p, w), NEW s, s # NoSave => SaveOK(p, w, s)
  PROVE  PageOK(p, [w EXCEPT !.save = s])
<1>1. PICK x : x = [w EXCEPT !.save = s]
  OBVIOUS
<1>2. /\ x = [g \in {"read", "form", "save"} |-> x[g]]
      /\ x.form = w.form /\ x.read = w.read /\ x.save = s
  BY <1>1 DEF PageOK
<1>3. x.save # NoSave => SaveOK(p, x, x.save)
  BY <1>2 DEF SaveOK
<1> QED BY <1>1, <1>2, <1>3 DEF PageOK

LEMMA SeedKeeps ==
  ASSUME NEW p, NEW w, PageOK(p, w), NEW row, NEW s, s = w.save \/ s = NoSave,
         s # NoSave => p # "notify",
         NEW form, form = IF FormOf(p, row) # FormOf(p, w.read) THEN FormOf(p, row) ELSE w.form
  PROVE  PageOK(p, [read |-> row, form |-> form, save |-> s])
<1>1. PICK x : x = [read |-> row, form |-> form, save |-> s]
  OBVIOUS
<1>2. /\ x = [g \in {"read", "form", "save"} |-> x[g]]
      /\ x.form = form /\ x.read = row /\ x.save = s
  BY <1>1
<1>3. FormOK(p, form)
  BY DEF PageOK, FormOK, FormOf
<1>4. ASSUME s # NoSave PROVE SaveOK(p, x, s)
  <2>1. SaveOK(p, w, s)
    BY <1>4 DEF PageOK
  <2>2. s.body = s.form
    BY <1>4, <2>1, BodyFields DEF SaveOK
  <2>3. FormOf(p, row) # s.body \/ form = s.form
    BY <1>4, <2>1, <2>2 DEF SaveOK
  <2> QED BY <1>2, <1>4, <2>1, <2>3 DEF SaveOK
<1> QED BY <1>1, <1>2, <1>3, <1>4 DEF PageOK

LEMMA SeededIs ==
  ASSUME NEW t, PageOK(PanelIn(t), tabPage[t]), NEW row
  PROVE  Seeded(t, row) =
           [read |-> row,
            form |-> IF FormOf(PanelIn(t), row) # FormOf(PanelIn(t), tabPage[t].read)
                     THEN FormOf(PanelIn(t), row) ELSE tabPage[t].form,
            save |-> tabPage[t].save]
<1>1. PICK w, p : w = tabPage[t] /\ p = PanelIn(t)
  OBVIOUS
<1>2. w = [f \in {"read", "form", "save"} |-> w[f]]
  BY <1>1 DEF PageOK
<1>3. PICK form : form = IF FormOf(p, row) # FormOf(p, w.read) THEN FormOf(p, row) ELSE w.form
  OBVIOUS
<1>4. Seeded(t, row) =
        [w EXCEPT !.read = row,
                  !.form = IF FormOf(p, row) # FormOf(p, w.read) THEN FormOf(p, row) ELSE @]
  BY <1>1, Zenon DEF Seeded
<1>5. Seeded(t, row) = [read |-> row, form |-> form, save |-> w.save]
  BY <1>2, <1>3, <1>4
<1> QED BY <1>1, <1>3, <1>4, <1>5

LEMMA SettingsPagesKeep ==
  ASSUME SceneOK, PagesOK, LogosOK, [SettingsNext]_settingsVars
  PROVE  PagesOK'
<1>0. /\ sScene'.panels = sScene.panels /\ tabPage = [t \in SettingsTabs |-> tabPage[t]]
      /\ \A t \in SettingsTabs : PanelIn(t) \in PanelNames /\ PageOK(PanelIn(t), tabPage[t])
  BY ScenesKeep DEF PagesOK, SceneOK, PanelIn
<1>1. CASE UNCHANGED tabPage
  BY <1>0, <1>1 DEF PagesOK, PanelIn, PageOK
<1>2. ASSUME NEW t \in SettingsTabs, NEW x, tabPage' = [tabPage EXCEPT ![t] = x], PageOK(PanelIn(t), x)
      PROVE  PagesOK'
  <2>1. ASSUME NEW u \in SettingsTabs PROVE PageOK(PanelIn(u), tabPage'[u]) /\ PanelIn(u)' = PanelIn(u)
    BY <1>0, <1>2 DEF PanelIn
  <2>2. tabPage' = [u \in SettingsTabs |-> tabPage'[u]]
    BY <1>0, <1>2
  <2> QED BY <2>1, <2>2 DEF PagesOK, PageOK
<1>3. ASSUME NEW t \in SettingsTabs, TypeIn(t) PROVE PagesOK'
  <2>1. PICK p, w : p = PanelIn(t) /\ w = tabPage[t]
    OBVIOUS
  <2>2. PICK f \in Edited(p, w.form) : /\ w.save = NoSave \/ p = "notify"
                                       /\ tabPage' = [tabPage EXCEPT ![t].form = f]
    BY <1>3, <2>1 DEF TypeIn
  <2>3. tabPage' = [tabPage EXCEPT ![t] = [w EXCEPT !.form = f]]
    BY <1>0, <2>1, <2>2
  <2> QED BY <1>0, <1>2, <2>1, <2>2, <2>3, TypeKeeps
<1>4. ASSUME NEW t \in SettingsTabs, NEW s, tabPage' = [tabPage EXCEPT ![t].save = s],
             s # NoSave => SaveOK(PanelIn(t), tabPage[t], s)
      PROVE  PagesOK'
  <2>1. PICK p, w : p = PanelIn(t) /\ w = tabPage[t]
    OBVIOUS
  <2>2. tabPage' = [tabPage EXCEPT ![t] = [w EXCEPT !.save = s]]
    BY <1>0, <1>4, <2>1
  <2>3. PageOK(p, [w EXCEPT !.save = s])
    BY <1>0, <1>4, <2>1, SettingsSaveKeeps
  <2> QED BY <1>2, <2>1, <2>2, <2>3
<1>5. ASSUME NEW t \in SettingsTabs, PressSettings(t) PROVE PagesOK'
  <2>1. PICK p, w : p = PanelIn(t) /\ w = tabPage[t]
    OBVIOUS
  <2>2. PICK s : s = [at |-> "sent", body |-> Body(p, w.form), form |-> w.form]
    OBVIOUS
  <2>3. /\ tabPage' = [tabPage EXCEPT ![t].save = s] /\ Body(p, w.form) # FormOf(p, w.read)
        /\ p = "limits" => CeoAboveVp(w.form.vp, w.form.ceo)
    BY <1>5, <2>1, <2>2 DEF PressSettings, Dirty
  <2>4. FormOK(p, w.form)
    BY <1>0, <2>1 DEF PageOK
  <2>5. SaveOK(p, w, s)
    BY <2>2, <2>3, <2>4 DEF SaveOK
  <2> QED BY <1>4, <2>1, <2>3, <2>5
<1>6. ASSUME NEW t \in SettingsTabs, UpdateTenant(t) PROVE PagesOK'
  <2>1. PICK p, w, s : p = PanelIn(t) /\ w = tabPage[t] /\ s = w.save
    OBVIOUS
  <2>2. SaveOK(p, w, s)
    BY <1>0, <1>6, <2>1 DEF UpdateTenant, PageOK, NoSave
  <2>3. PICK x : x = [s EXCEPT !.at = "reading"]
    OBVIOUS
  <2>4. tabPage' = [tabPage EXCEPT ![t].save = x]
    BY <1>0, <1>6, <2>1, <2>3 DEF UpdateTenant
  <2>5. SaveOK(p, w, x)
    BY <2>2, <2>3 DEF SaveOK
  <2> QED BY <1>4, <2>1, <2>4, <2>5
<1>7. ASSUME NEW t \in SettingsTabs, GetTenant(t) PROVE PagesOK'
  <2>1. PICK p, w, s : p = PanelIn(t) /\ w = tabPage[t] /\ s = w.save
    OBVIOUS
  <2>2. PICK x : x = ReadRow(s)
    OBVIOUS
  <2>3. CASE s.at = "reading" /\ tabPage' = [tabPage EXCEPT ![t].save = x]
    <3>1. SaveOK(p, w, s)
      BY <1>0, <2>1, <2>3 DEF PageOK, NoSave
    <3>2. /\ x = [f \in DOMAIN x |-> x[f]] /\ DOMAIN x = DOMAIN s \cup {"row"}
          /\ x.at = "back" /\ x.body = s.body /\ x.form = s.form
      BY <2>2, <3>1 DEF ReadRow, SaveOK
    <3>3. SaveOK(p, w, x)
      BY <3>1, <3>2 DEF SaveOK
    <3> QED BY <1>4, <2>1, <2>3, <3>3
  <2> QED BY <1>1, <1>7, <2>1, <2>2, <2>3 DEF GetTenant
<1>8. ASSUME NEW t \in SettingsTabs, ShowSaved(t) PROVE PagesOK'
  <2>1. PICK p, w, row : p = PanelIn(t) /\ w = tabPage[t] /\ row = w.save.row
    OBVIOUS
  <2>2. PICK form : form = IF FormOf(p, row) # FormOf(p, w.read) THEN FormOf(p, row) ELSE w.form
    OBVIOUS
  <2>3. tabPage' = [tabPage EXCEPT ![t] = [Seeded(t, row) EXCEPT !.save = NoSave]]
    BY <1>8, <2>1 DEF ShowSaved
  <2>4. Seeded(t, row) = [read |-> row, form |-> form, save |-> w.save]
    BY <1>0, <2>1, <2>2, SeededIs
  <2>5. [Seeded(t, row) EXCEPT !.save = NoSave] = [read |-> row, form |-> form, save |-> NoSave]
    BY <2>4
  <2>6. PageOK(p, [read |-> row, form |-> form, save |-> NoSave])
    BY <1>0, <2>1, <2>2, SeedKeeps
  <2> QED BY <1>2, <2>1, <2>3, <2>5, <2>6
<1>9. ASSUME NEW t \in SettingsTabs, ShowUploaded(t) PROVE PagesOK'
  <2>1. PICK p, w, row : p = PanelIn(t) /\ w = tabPage[t] /\ row = upload[t].row
    OBVIOUS
  <2>2. PICK form : form = IF FormOf(p, row) # FormOf(p, w.read) THEN FormOf(p, row) ELSE w.form
    OBVIOUS
  <2>3. tabPage' = [tabPage EXCEPT ![t] = Seeded(t, row)]
    BY <1>9, <2>1 DEF ShowUploaded
  <2>4. Seeded(t, row) = [read |-> row, form |-> form, save |-> w.save]
    BY <1>0, <2>1, <2>2, SeededIs
  <2>5. p = "workspace"
    BY <1>9, <2>1 DEF ShowUploaded, LogosOK, NoSave
  <2>6. PICK s : s = w.save
    OBVIOUS
  <2>7. PageOK(p, [read |-> row, form |-> form, save |-> s])
    BY <1>0, <2>1, <2>2, <2>5, <2>6, SeedKeeps
  <2> QED BY <1>2, <2>1, <2>3, <2>4, <2>6, <2>7
<1>10. ASSUME NEW t, PutLogo(t) \/ RemoveLogo(t) \/ PatchLogo(t) \/ ListLogos(t) \/ SweepLogos(t)
       PROVE  UNCHANGED tabPage
  BY <1>10 DEF PutLogo, RemoveLogo, PatchLogo, ListLogos, SweepLogos
<1>11. CASE PatchOne
  BY <1>1, <1>11 DEF PatchOne
<1> QED BY <1>1, <1>3, <1>5, <1>6, <1>7, <1>8, <1>9, <1>10, <1>11 DEF SettingsNext, settingsVars

(* Who touches a save, and who the row.                                    *)
LEMMA SaveMoves ==
  ASSUME PagesOK, [SettingsNext]_settingsVars, NEW t \in SettingsTabs
  PROVE  \/ tabPage'[t].save = tabPage[t].save
         \/ PressSettings(t) \/ UpdateTenant(t) \/ ShowSaved(t)
         \/ /\ tabPage[t].save.at = "reading" /\ tenant' = tenant
            /\ tabPage'[t].save = ReadRow(tabPage[t].save)
<1> DEFINE Goal == \/ tabPage'[t].save = tabPage[t].save
                   \/ PressSettings(t) \/ UpdateTenant(t) \/ ShowSaved(t)
                   \/ /\ tabPage[t].save.at = "reading" /\ tenant' = tenant
                      /\ tabPage'[t].save = ReadRow(tabPage[t].save)
<1>0. /\ tabPage = [u \in SettingsTabs |-> tabPage[u]]
      /\ tabPage[t] = [f \in {"read", "form", "save"} |-> tabPage[t][f]]
  BY DEF PagesOK, PageOK
<1>1. CASE UNCHANGED tabPage
  BY <1>1
<1>2. ASSUME NEW a, NEW x, tabPage' = [tabPage EXCEPT ![a] = x], a # t PROVE Goal
  BY <1>0, <1>2
<1>3. ASSUME NEW a, TypeIn(a) PROVE Goal
  <2>1. PICK f : tabPage' = [tabPage EXCEPT ![a].form = f]
    BY <1>3 DEF TypeIn
  <2>2. PICK x : x = [tabPage[a] EXCEPT !.form = f] /\ tabPage' = [tabPage EXCEPT ![a] = x]
    BY <1>0, <2>1
  <2>3. CASE a = t
    BY <1>0, <2>2, <2>3
  <2> QED BY <1>2, <2>2, <2>3
<1>4. ASSUME NEW a, PressSettings(a) \/ UpdateTenant(a) \/ ShowSaved(a) PROVE Goal
  <2>1. PICK x : tabPage' = [tabPage EXCEPT ![a] = x]
    BY <1>0, <1>4 DEF PressSettings, UpdateTenant, ShowSaved
  <2> QED BY <1>2, <1>4, <2>1
<1>5. ASSUME NEW a, GetTenant(a) PROVE Goal
  <2>1. PICK k : k = ReadRow(tabPage[a].save)
    OBVIOUS
  <2>2. CASE /\ tabPage[a].save.at = "reading" /\ tenant' = tenant
             /\ tabPage' = [tabPage EXCEPT ![a].save = k]
    <3>1. PICK x : x = [tabPage[a] EXCEPT !.save = k] /\ tabPage' = [tabPage EXCEPT ![a] = x]
      BY <1>0, <2>2
    <3>2. CASE a = t
      BY <1>0, <2>1, <2>2, <3>1, <3>2
    <3> QED BY <1>2, <3>1, <3>2
  <2> QED BY <1>1, <1>5, <2>1, <2>2 DEF GetTenant
<1>6. ASSUME NEW a \in SettingsTabs, ShowUploaded(a) PROVE Goal
  <2>1. PICK row : tabPage' = [tabPage EXCEPT ![a] = Seeded(a, row)]
    BY <1>6 DEF ShowUploaded
  <2>2. Seeded(a, row).save = tabPage[a].save
    BY SeededIs DEF PagesOK
  <2>3. CASE a = t
    BY <1>0, <2>1, <2>2, <2>3
  <2> QED BY <1>2, <2>1, <2>3
<1>7. ASSUME NEW a, PutLogo(a) \/ RemoveLogo(a) \/ PatchLogo(a) \/ ListLogos(a) \/ SweepLogos(a)
      PROVE  UNCHANGED tabPage
  BY <1>7 DEF PutLogo, RemoveLogo, PatchLogo, ListLogos, SweepLogos
<1>8. CASE PatchOne
  BY <1>1, <1>8 DEF PatchOne
<1> QED BY <1>1, <1>3, <1>4, <1>5, <1>6, <1>7, <1>8 DEF SettingsNext, settingsVars

LEMMA RowMoves ==
  ASSUME [SettingsNext]_settingsVars
  PROVE  \/ UNCHANGED tenant
         \/ PatchOne
         \/ \E t \in SettingsTabs : UpdateTenant(t) \/ PatchLogo(t)
BY DEF SettingsNext, settingsVars, TypeIn, PressSettings, GetTenant, ShowSaved, PutLogo,
       RemoveLogo, ListLogos, SweepLogos, ShowUploaded

(* A save writes the fields of its panel and no others.                    *)
LEMMA SaveWrites ==
  ASSUME PagesOK, tenant = [f \in TenantFields |-> tenant[f]],
         NEW t \in SettingsTabs, UpdateTenant(t), PanelIn(t) \in PanelNames
  PROVE  LET p == PanelIn(t)
             s == tabPage[t].save
         IN  /\ SaveOK(p, tabPage[t], s) /\ tabPage'[t].save = [s EXCEPT !.at = "reading"]
             /\ tenant' = [f \in TenantFields |-> tenant'[f]]
             /\ FormOf(p, tenant') = s.body
             /\ \A f \in TenantFields \ Fields(p) : tenant'[f] = tenant[f]
<1>1. PICK p, s, w : p = PanelIn(t) /\ s = tabPage[t].save /\ w = tabPage[t]
  OBVIOUS
<1>2. SaveOK(p, w, s)
  BY <1>1 DEF UpdateTenant, PagesOK, PageOK, NoSave
<1>3. DOMAIN s.body = Fields(p) /\ FormOK(p, s.body)
  BY <1>2, BodyFields DEF SaveOK, FormOK
<1>4. tenant' = [f \in TenantFields |-> IF f \in Fields(p) THEN s.body[f] ELSE tenant[f]]
  BY <1>1, <1>3 DEF UpdateTenant, Patched
<1>5. Fields(p) \subseteq TenantFields
  BY <1>1 DEF Fields, PanelNames, TenantFields
<1>6. FormOf(p, tenant') = s.body
  BY <1>3, <1>4, <1>5 DEF FormOf, FormOK
<1>7. tabPage'[t].save = [s EXCEPT !.at = "reading"]
  <2>1. /\ tabPage = [u \in SettingsTabs |-> tabPage[u]]
        /\ tabPage[t] = [f \in {"read", "form", "save"} |-> tabPage[t][f]]
    BY DEF PagesOK, PageOK
  <2>2. PICK x : x = [s EXCEPT !.at = "reading"]
    OBVIOUS
  <2>3. tabPage' = [tabPage EXCEPT ![t].save = x]
    BY <1>1, <2>1, <2>2 DEF UpdateTenant
  <2> QED BY <2>1, <2>2, <2>3
<1> QED BY <1>1, <1>2, <1>4, <1>6, <1>7

LEMMA NoneEchoes ==
  ASSUME NEW w, NEW n, PageOK("none", w)
  PROVE  Echoes("none", w.save, n)
<1>1. Fields("none") = {}
  BY DEF Fields
<1>2. CASE w.save = NoSave
  BY <1>2 DEF Echoes, NoSave
<1>3. CASE w.save # NoSave
  <2>1. PICK s : s = w.save /\ SaveOK("none", w, s)
    BY <1>3 DEF PageOK
  <2>2. FormOK("none", s.form) /\ s.body = Body("none", s.form)
    BY <2>1 DEF SaveOK
  <2>3. FormOK("none", s.body)
    BY <2>2, BodyFields
  <2>4. \A x : FormOf("none", x) = s.body
    BY <1>1, <2>3 DEF FormOK, FormOf
  <2> QED BY <2>1, <2>4 DEF Echoes
<1> QED BY <1>2, <1>3

LEMMA RowKeeps ==
  ASSUME SceneOK, PagesOK, PagesOK', RowOK, [SettingsNext]_settingsVars
  PROVE  RowOK'
<1>0. /\ sScene'.panels = sScene.panels /\ sScene'.api = sScene.api
      /\ tenant = [f \in TenantFields |-> tenant[f]]
      /\ \A t \in SettingsTabs : PanelIn(t) \in PanelNames /\ PanelIn(t)' = PanelIn(t)
      /\ Alone' = Alone
  BY ScenesKeep DEF RowOK, SceneOK, PanelIn, Alone
<1>1. ASSUME NEW a, PatchLogo(a)
      PROVE  /\ tenant' = [f \in TenantFields |-> tenant'[f]]
             /\ \A f \in TenantFields \ {"logo"} : tenant'[f] = tenant[f]
  BY <1>0, <1>1 DEF PatchLogo
<1>2. tenant' = [f \in TenantFields |-> tenant'[f]]
  <2>1. CASE PatchOne
    <3>1. PICK f, v : tenant' = [tenant EXCEPT ![f] = v]
      BY <2>1 DEF PatchOne
    <3> QED BY <1>0, <3>1
  <2> QED BY <1>0, <1>1, <2>1, RowMoves, SaveWrites
<1>3. ASSUME ~sScene.api PROVE CeoAboveVp(tenant'.vp, tenant'.ceo)
  <2>1. ASSUME tenant'.vp = tenant.vp, tenant'.ceo = tenant.ceo
        PROVE  CeoAboveVp(tenant'.vp, tenant'.ceo)
    BY <1>3, <2>1 DEF RowOK, LimitsInOrder
  <2>2. ASSUME NEW t \in SettingsTabs, UpdateTenant(t) PROVE CeoAboveVp(tenant'.vp, tenant'.ceo)
    <3>1. PICK p, s, w : p = PanelIn(t) /\ s = tabPage[t].save /\ w = tabPage[t]
      OBVIOUS
    <3>2. /\ SaveOK(p, w, s) /\ FormOf(p, tenant') = s.body
          /\ \A f \in TenantFields \ Fields(p) : tenant'[f] = tenant[f]
      BY <1>0, <2>2, <3>1, SaveWrites
    <3>3. CASE p = "limits"
      <4>1. Fields(p) = {"vp", "ceo"} /\ s.body = s.form /\ CeoAboveVp(s.form.vp, s.form.ceo)
        BY <3>2, <3>3, BodyFields DEF Fields, SaveOK
      <4>2. tenant'.vp = s.form.vp /\ tenant'.ceo = s.form.ceo
        BY <3>2, <4>1 DEF FormOf
      <4> QED BY <4>1, <4>2
    <3>4. CASE p # "limits"
      <4>1. {"vp", "ceo"} \subseteq TenantFields \ Fields(p)
        BY <1>0, <3>1, <3>4 DEF Fields, PanelNames, TenantFields
      <4> QED BY <2>1, <3>2, <4>1
    <3> QED BY <3>3, <3>4
  <2>3. ~PatchOne
    BY <1>3 DEF PatchOne
  <2>4. ASSUME NEW a, PatchLogo(a) PROVE CeoAboveVp(tenant'.vp, tenant'.ceo)
    BY <1>1, <2>1, <2>4 DEF TenantFields
  <2> QED BY <2>1, <2>2, <2>3, <2>4, RowMoves
<1>4. ASSUME Alone, NEW t \in SettingsTabs
      PROVE  Echoes(PanelIn(t)', tabPage'[t].save, tenant')
  <2>0. PICK p, w, s : p = PanelIn(t) /\ w = tabPage[t] /\ s = tabPage[t].save
    OBVIOUS
  <2>1. p \in PanelNames /\ PanelIn(t)' = p /\ PageOK(p, w) /\ Echoes(p, s, tenant)
    BY <1>0, <1>4, <2>0 DEF PagesOK, RowOK
  <2>2. CASE p = "none"
    <3>1. PageOK("none", tabPage'[t])
      BY <2>1, <2>2 DEF PagesOK
    <3>2. PICK x, n : x = tabPage'[t] /\ n = tenant'
      OBVIOUS
    <3> QED BY <2>1, <2>2, <3>1, <3>2, NoneEchoes
  <2>3. CASE p # "none" /\ UpdateTenant(t)
    <3>1. SaveOK(p, w, s) /\ tabPage'[t].save = [s EXCEPT !.at = "reading"] /\ FormOf(p, tenant') = s.body
      BY <1>0, <2>0, <2>3, SaveWrites
    <3>2. tabPage'[t].save.at = "reading" /\ tabPage'[t].save.body = s.body
      BY <3>1 DEF SaveOK
    <3> QED BY <2>1, <3>1, <3>2 DEF Echoes
  <2>4. ASSUME p # "none", ~UpdateTenant(t) PROVE FormOf(p, tenant') = FormOf(p, tenant)
    <3>1. ASSUME \A f \in Fields(p) : tenant'[f] = tenant[f]
          PROVE  FormOf(p, tenant') = FormOf(p, tenant)
      BY <3>1 DEF FormOf
    <3>2. ASSUME NEW a \in SettingsTabs, UpdateTenant(a) PROVE FormOf(p, tenant') = FormOf(p, tenant)
      <4>1. a # t /\ PanelIn(a) = "none"
        BY <1>4, <2>0, <2>4, <3>2, OnePanel
      <4>2. Fields("none") = {}
        BY DEF Fields
      <4>3. \A f \in TenantFields : tenant'[f] = tenant[f]
        BY <1>0, <3>2, <4>1, <4>2, SaveWrites
      <4> QED BY <2>1, <3>1, <4>3 DEF Fields, PanelNames, TenantFields
    <3>3. ASSUME NEW a, PatchLogo(a) PROVE FormOf(p, tenant') = FormOf(p, tenant)
      <4>1. Fields(p) \subseteq TenantFields \ {"logo"}
        BY <2>1 DEF Fields, PanelNames, TenantFields
      <4> QED BY <1>1, <3>1, <3>3, <4>1
    <3>4. ~PatchOne
      BY <1>4 DEF PatchOne, Alone
    <3> QED BY <3>1, <3>2, <3>3, <3>4, RowMoves
  <2>5. CASE p # "none" /\ ~UpdateTenant(t)
    <3>1. CASE tabPage'[t].save = s
      BY <2>1, <2>4, <2>5, <3>1 DEF Echoes
    <3>2. CASE PressSettings(t)
      <4>1. tabPage'[t].save.at = "sent"
        BY <2>0, <2>1, <3>2 DEF PressSettings, PagesOK, PageOK
      <4> QED BY <4>1 DEF Echoes
    <3>3. CASE ShowSaved(t)
      <4>1. tabPage'[t].save = NoSave
        <5>1. PICK row : tabPage' = [tabPage EXCEPT ![t] = [Seeded(t, row) EXCEPT !.save = NoSave]]
          BY <3>3 DEF ShowSaved
        <5>2. [Seeded(t, row) EXCEPT !.save = NoSave].save = NoSave
          BY SeededIs DEF PagesOK
        <5> QED BY <5>1, <5>2 DEF PagesOK
      <4> QED BY <4>1 DEF Echoes, NoSave
    <3>4. CASE s.at = "reading" /\ tenant' = tenant /\ tabPage'[t].save = ReadRow(s)
      <4>1. SaveOK(p, w, s)
        BY <2>0, <2>1, <3>4 DEF PageOK, NoSave
      <4>2. PICK k : k = ReadRow(s)
        OBVIOUS
      <4>3. DOMAIN k = DOMAIN s \cup {"row"} /\ "body" \in DOMAIN s
        BY <4>1, <4>2 DEF ReadRow, SaveOK
      <4>4. k.at = "back" /\ k.row = tenant /\ k.body = s.body
        BY <4>1, <4>2, <4>3 DEF ReadRow, SaveOK
      <4> QED BY <2>1, <3>4, <4>2, <4>4 DEF Echoes
    <3> QED BY <2>0, <2>5, <3>1, <3>2, <3>3, <3>4, SaveMoves
  <2> QED BY <2>2, <2>3, <2>5
<1> QED BY <1>0, <1>2, <1>3, <1>4 DEF RowOK, LimitsInOrder

(* The bucket.                                                             *)
LEMMA LogosKeep ==
  ASSUME SceneOK, PagesOK, RowOK, LogosOK, [SettingsNext]_settingsVars
  PROVE  LogosOK'
<1>0. /\ sScene'.panels = sScene.panels /\ sScene'.api = sScene.api
      /\ tenant = [f \in TenantFields |-> tenant[f]] /\ upload = [t \in SettingsTabs |-> upload[t]]
      /\ \A t \in SettingsTabs : PanelIn(t) \in PanelNames /\ PanelIn(t)' = PanelIn(t)
      /\ Alone' = Alone
  BY ScenesKeep DEF RowOK, SceneOK, PanelIn, Alone, LogosOK
<1>1. ASSUME UNCHANGED <<logos, upload>>, tenant'.logo = tenant.logo PROVE LogosOK'
  <2>1. \A u : UploadFits(u)' = UploadFits(u)
    BY <1>1 DEF UploadFits
  <2> QED BY <1>0, <1>1, <2>1 DEF LogosOK
<1>2. ASSUME NEW a \in SettingsTabs, NEW u, upload' = [upload EXCEPT ![a] = u],
             PanelIn(a) = "workspace",
             Alone => tenant'.logo \in logos' \cup {Unset} /\ UploadFits(u)'
      PROVE  LogosOK'
  <2>1. upload'[a] = u /\ \A t \in SettingsTabs \ {a} : upload'[t] = upload[t]
    BY <1>0, <1>2
  <2>2. ASSUME Alone, NEW t \in SettingsTabs PROVE UploadFits(upload[t])'
    <3>1. CASE t = a
      BY <1>2, <2>1, <2>2, <3>1 DEF UploadFits
    <3>2. CASE t # a
      <4>1. upload'[t] = NoSave
        BY <1>0, <1>2, <2>1, <2>2, <3>2, OnePanel DEF LogosOK
      <4> QED BY <4>1 DEF UploadFits, NoSave
    <3> QED BY <3>1, <3>2
  <2>3. upload' = [t \in SettingsTabs |-> upload'[t]]
    BY <1>0, <1>2
  <2>4. ASSUME NEW t \in SettingsTabs, PanelIn(t)' # "workspace" PROVE upload'[t] = NoSave
    BY <1>0, <1>2, <2>1, <2>4 DEF LogosOK
  <2> QED BY <1>0, <1>2, <2>2, <2>3, <2>4 DEF LogosOK
<1>3. ASSUME NEW t \in SettingsTabs, upload[t].at \in {"put", "sweep", "delete", "reading", "back"}
      PROVE  PanelIn(t) = "workspace"
  BY <1>3 DEF LogosOK, NoSave
<1>4. ASSUME Alone PROVE tenant.logo \in logos \cup {Unset} /\ \A t \in SettingsTabs : UploadFits(upload[t])
  BY <1>4 DEF LogosOK
<1>5. ASSUME NEW a \in SettingsTabs, PutLogo(a) PROVE LogosOK'
  <2>1. PICK n : n = sScene.uploads
    OBVIOUS
  <2>2. PICK u : u = [at |-> "put", keep |-> n]
    OBVIOUS
  <2>3. /\ upload' = [upload EXCEPT ![a] = u] /\ logos' = logos \cup {n} /\ tenant' = tenant
        /\ PanelIn(a) = "workspace"
    BY <1>5, <2>1, <2>2 DEF PutLogo, Fetched
  <2>4. UploadFits(u)'
    BY <2>2, <2>3 DEF UploadFits
  <2> QED BY <1>2, <1>4, <2>3, <2>4
<1>6. ASSUME NEW a \in SettingsTabs, RemoveLogo(a) PROVE LogosOK'
  <2>1. PICK u : u = [at |-> "put", keep |-> Unset]
    OBVIOUS
  <2>2. /\ upload' = [upload EXCEPT ![a] = u] /\ logos' = logos /\ tenant' = tenant
        /\ PanelIn(a) = "workspace"
    BY <1>6, <2>1 DEF RemoveLogo, Fetched
  <2>3. UploadFits(u)'
    BY <2>1, <2>2 DEF UploadFits
  <2> QED BY <1>2, <1>4, <2>2, <2>3
<1>7. ASSUME NEW a \in SettingsTabs, PatchLogo(a) PROVE LogosOK'
  <2>1. PICK o : o = upload[a]
    OBVIOUS
  <2>2. PICK u : u = [o EXCEPT !.at = "sweep"]
    OBVIOUS
  <2>3. upload' = [upload EXCEPT ![a] = u] /\ logos' = logos /\ tenant'.logo = o.keep /\ o.at = "put"
    BY <1>0, <1>7, <2>1, <2>2 DEF PatchLogo, TenantFields
  <2>4. ASSUME Alone PROVE tenant'.logo \in logos' \cup {Unset} /\ UploadFits(u)'
    <3>1. /\ o = [f \in DOMAIN o |-> o[f]] /\ {"at", "keep"} \subseteq DOMAIN o
          /\ o.keep \in logos \cup {Unset}
      BY <1>4, <2>1, <2>3, <2>4 DEF UploadFits
    <3>2. /\ u = [f \in DOMAIN u |-> u[f]] /\ DOMAIN u = DOMAIN o
          /\ u.at = "sweep" /\ u.keep = o.keep
      BY <2>2, <3>1
    <3> QED BY <2>3, <3>1, <3>2 DEF UploadFits
  <2> QED BY <1>2, <1>3, <2>1, <2>3, <2>4
<1>8. ASSUME NEW a \in SettingsTabs, ListLogos(a) PROVE LogosOK'
  <2>1. PICK u : u = [at |-> "delete", old |-> logos \ {upload[a].keep}]
    OBVIOUS
  <2>2. /\ upload' = [upload EXCEPT ![a] = u] /\ logos' = logos /\ tenant' = tenant
        /\ upload[a].at = "sweep"
    BY <1>8, <2>1 DEF ListLogos
  <2>3. ASSUME Alone PROVE UploadFits(u)'
    BY <1>4, <2>1, <2>2, <2>3 DEF UploadFits
  <2> QED BY <1>2, <1>3, <1>4, <2>2, <2>3
<1>9. ASSUME NEW a \in SettingsTabs, SweepLogos(a) PROVE LogosOK'
  <2>1. PICK u : u = [at |-> "reading"]
    OBVIOUS
  <2>2. /\ upload' = [upload EXCEPT ![a] = u] /\ logos' \in {logos \ upload[a].old, logos}
        /\ tenant' = tenant /\ upload[a].at = "delete"
    BY <1>9, <2>1 DEF SweepLogos
  <2>3. ASSUME Alone PROVE tenant'.logo \in logos' \cup {Unset} /\ UploadFits(u)'
    BY <1>4, <2>1, <2>2, <2>3 DEF UploadFits
  <2> QED BY <1>2, <1>3, <2>2, <2>3
<1>10. ASSUME NEW a \in SettingsTabs, GetTenant(a) PROVE LogosOK'
  <2>1. PICK o, u : o = upload[a] /\ u = ReadRow(o)
    OBVIOUS
  <2>2. CASE /\ o.at = "reading" /\ upload' = [upload EXCEPT ![a] = u]
             /\ UNCHANGED <<tenant, logos>>
    <3>1. ASSUME Alone PROVE UploadFits(u)'
      <4>1. "at" \in DOMAIN o
        BY <1>4, <2>1, <3>1 DEF UploadFits
      <4>2. u = [f \in DOMAIN u |-> u[f]] /\ "at" \in DOMAIN u /\ u.at = "back"
        BY <2>1, <4>1 DEF ReadRow
      <4> QED BY <4>2 DEF UploadFits
    <3> QED BY <1>2, <1>3, <1>4, <2>1, <2>2, <3>1
  <2> QED BY <1>1, <1>10, <2>1, <2>2 DEF GetTenant
<1>11. ASSUME NEW a \in SettingsTabs, ShowUploaded(a) PROVE LogosOK'
  <2>1. PICK u : u = NoSave
    OBVIOUS
  <2>2. /\ upload' = [upload EXCEPT ![a] = u] /\ UNCHANGED <<tenant, logos>>
        /\ upload[a].at = "back"
    BY <1>11, <2>1 DEF ShowUploaded
  <2>3. UploadFits(u)'
    BY <2>1 DEF UploadFits, NoSave
  <2> QED BY <1>2, <1>3, <1>4, <2>2, <2>3
<1>12. ASSUME NEW a \in SettingsTabs, UpdateTenant(a) PROVE LogosOK'
  <2>1. "logo" \in TenantFields \ Fields(PanelIn(a))
    BY <1>0 DEF Fields, PanelNames, TenantFields
  <2>2. tenant'.logo = tenant.logo
    BY <1>0, <1>12, <2>1, SaveWrites
  <2> QED BY <1>1, <1>12, <2>2 DEF UpdateTenant
<1>13. CASE PatchOne
  <2>1. PICK f \in {"vp", "ceo"}, v \in Values : tenant' = [tenant EXCEPT ![f] = v]
    BY <1>13 DEF PatchOne
  <2>2. tenant'.logo = tenant.logo
    BY <1>0, <2>1
  <2> QED BY <1>1, <1>13, <2>2 DEF PatchOne
<1>14. ASSUME NEW a, TypeIn(a) \/ PressSettings(a) \/ ShowSaved(a)
       PROVE  UNCHANGED <<tenant, logos, upload>>
  BY <1>14 DEF TypeIn, PressSettings, ShowSaved
<1>15. CASE UNCHANGED settingsVars
  BY <1>1, <1>15 DEF settingsVars
<1> QED BY <1>1, <1>5, <1>6, <1>7, <1>8, <1>9, <1>10, <1>11, <1>12, <1>13, <1>14, <1>15
        DEF SettingsNext

(* Whatever panels are open, and whatever they save, upload and read.      *)
THEOREM SettingsInvariant == SettingsSpec => []SettingsInv
<1>1. SettingsInit => SettingsInv
  <2> SUFFICES ASSUME SettingsInit PROVE SettingsInv
    OBVIOUS
  <2>1. SceneOK
    BY SettingsAssumption DEF SettingsInit, SceneOK, SceneFields, PanelNames
  <2>2. PagesOK
    <3>1. ASSUME NEW t \in SettingsTabs, NEW p, p = PanelIn(t) PROVE PageOK(p, tabPage[t])
      <4>1. tabPage[t] = [read |-> NewTenant, form |-> FormOf(p, NewTenant), save |-> NoSave]
        BY <3>1 DEF SettingsInit, PanelIn
      <4>2. FormOK(p, FormOf(p, NewTenant))
        BY DEF FormOK, FormOf
      <4> QED BY <4>1, <4>2 DEF PageOK
    <3>2. tabPage = [t \in SettingsTabs |-> tabPage[t]]
      BY DEF SettingsInit
    <3> QED BY <3>1, <3>2 DEF PagesOK
  <2>3. RowOK
    <3>1. tenant = [f \in TenantFields |-> tenant[f]] /\ tenant.vp = Unset
      BY DEF SettingsInit, NewTenant, TenantFields
    <3>2. \A t \in SettingsTabs : tabPage[t].save = NoSave
      BY DEF SettingsInit
    <3> QED BY <3>1, <3>2 DEF RowOK, LimitsInOrder, CeoAboveVp, Echoes, NoSave
  <2>4. LogosOK
    BY DEF SettingsInit, LogosOK, UploadFits, NoSave, NewTenant
  <2> QED BY <2>1, <2>2, <2>3, <2>4 DEF SettingsInv
<1>2. SettingsInv /\ [SettingsNext]_settingsVars => SettingsInv'
  BY ScenesKeep, SettingsPagesKeep, RowKeeps, LogosKeep DEF SettingsInv
<1> QED BY <1>1, <1>2, PTL DEF SettingsSpec

(* The routing that is stored mails those whose boxes were ticked.         *)
LEMMA MailsTicked ==
  ASSUME NEW form, NEW n, n.paused = form.paused, n.routes = Sparse(form.routes),
         NEW e, NEW managed \in BOOLEAN
  PROVE  Recipients(e, n, managed) \cap ShownRoles =
           {r \in ShownRoles : /\ ~form.paused /\ r \in RolesOf(e, form.routes)
                               /\ r = "sales_manager" => managed}
<1>1. RolesOf(e, n.routes) = RolesOf(e, form.routes)
  BY DEF RolesOf, Sparse
<1>2. ResolveRoute(e, n) = IF form.paused THEN {} ELSE RolesOf(e, form.routes)
  BY <1>1 DEF ResolveRoute
<1>3. "client" \notin ShownRoles
  BY DEF ShownRoles
<1> QED BY <1>2, <1>3 DEF Recipients

LEMMA SavesAsTicked ==
  ASSUME SettingsInv, [SettingsNext]_settingsVars, NEW t \in SettingsTabs, Saving(t)
  PROVE  MailedAsTicked(t) /\ LeavesOthers(t)
<1>1. UpdateTenant(t)
  <2>1. tabPage[t].save # NoSave /\ tabPage[t].save.at = "sent" /\ tabPage'[t].save.at = "reading"
    BY DEF Saving, NoSave
  <2> QED BY <2>1, SaveMoves DEF SettingsInv, PressSettings, ShowSaved
<1>2. PICK p, s, w, n : p = PanelIn(t) /\ s = tabPage[t].save /\ w = tabPage[t] /\ n = tenant'
  OBVIOUS
<1>3. /\ SaveOK(p, w, s) /\ FormOf(p, n) = s.body /\ DOMAIN tenant = TenantFields
      /\ \A f \in TenantFields \ Fields(p) : tenant'[f] = tenant[f]
  BY <1>1, <1>2, SaveWrites DEF SettingsInv, SceneOK, PanelIn, RowOK
<1>4. LeavesOthers(t)
  BY <1>2, <1>3 DEF LeavesOthers
<1>5. ASSUME p = "notify" PROVE n.paused = s.form.paused /\ n.routes = Sparse(s.form.routes)
  <2>1. s.form = [f \in {"paused", "routes"} |-> s.form[f]]
    BY <1>3, <1>5 DEF SaveOK, FormOK, Fields
  <2>2. s.body = [s.form EXCEPT !.routes = Sparse(@)]
    BY <1>3, <1>5 DEF SaveOK, Body
  <2>3. s.body.paused = s.form.paused /\ s.body.routes = Sparse(s.form.routes)
    BY <2>1, <2>2
  <2>4. FormOf(p, n).paused = n.paused /\ FormOf(p, n).routes = n.routes
    BY <1>5 DEF FormOf, Fields
  <2> QED BY <1>3, <2>3, <2>4
<1>6. MailedAsTicked(t)
  <2>1. PICK form : form = s.form
    OBVIOUS
  <2> QED BY <1>2, <1>5, <2>1, MailsTicked DEF MailedAsTicked
<1> QED BY <1>4, <1>6

LEMMA SavedShows ==
  ASSUME SettingsInv, [SettingsNext]_settingsVars, NEW t \in SettingsTabs
  PROVE  ShowsSaved(t)
<1> SUFFICES ASSUME Alone, tabPage[t].save.at = "back", tabPage'[t].save = NoSave
             PROVE  LET form == tabPage[t].save.form
                        now == tabPage'[t].form
                    IN  IF PanelIn(t) = "notify"
                        THEN /\ now.paused = form.paused
                             /\ \A e \in Events : RolesOf(e, now.routes) = RolesOf(e, form.routes)
                        ELSE now = form
  BY DEF ShowsSaved
<1>1. ShowSaved(t)
  <2>1. tabPage[t].save # NoSave /\ tabPage[t].save.at = "back" /\ tabPage'[t].save = NoSave
    BY DEF NoSave
  <2> QED BY <2>1, SaveMoves DEF SettingsInv, PressSettings, UpdateTenant
<1>2. PICK p, s, w, row : p = PanelIn(t) /\ s = tabPage[t].save /\ w = tabPage[t] /\ row = s.row
  OBVIOUS
<1>3. /\ PageOK(p, w) /\ SaveOK(p, w, s) /\ FormOf(p, row) = s.body
      /\ tabPage = [u \in SettingsTabs |-> tabPage[u]]
  BY <1>2 DEF SettingsInv, PagesOK, PageOK, RowOK, Echoes, NoSave
<1>4. PICK now : /\ now = IF FormOf(p, row) # FormOf(p, w.read) THEN FormOf(p, row) ELSE w.form
                 /\ tabPage'[t].form = now
  <2>1. tabPage' = [tabPage EXCEPT ![t] = [Seeded(t, row) EXCEPT !.save = NoSave]]
    BY <1>1, <1>2 DEF ShowSaved
  <2>2. PICK y : /\ y = IF FormOf(p, row) # FormOf(p, w.read) THEN FormOf(p, row) ELSE w.form
                 /\ Seeded(t, row) = [read |-> row, form |-> y, save |-> w.save]
    BY <1>2, <1>3, SeededIs
  <2>3. PICK x : x = [Seeded(t, row) EXCEPT !.save = NoSave] /\ x.form = y
    <3>1. PICK none, z : none = NoSave /\ z = [read |-> row, form |-> y, save |-> w.save]
      OBVIOUS
    <3>2. [z EXCEPT !.save = none].form = y
      BY <3>1
    <3>3. [Seeded(t, row) EXCEPT !.save = NoSave].form = y
      BY <2>2, <3>1, <3>2
    <3> QED BY <3>3
  <2>4. tabPage'[t] = x
    BY <1>3, <2>1, <2>3
  <2> QED BY <2>2, <2>3, <2>4
<1>5. CASE p # "notify"
  <2>1. s.body = s.form
    BY <1>3, <1>5, BodyFields DEF SaveOK
  <2>2. now = s.form
    BY <1>3, <1>4, <1>5, <2>1 DEF SaveOK
  <2> QED BY <1>2, <1>4, <1>5, <2>2
<1>6. CASE p = "notify"
  <2>1. s.form = [f \in {"paused", "routes"} |-> s.form[f]]
    BY <1>3, <1>6 DEF SaveOK, FormOK, Fields
  <2>2. s.body = [s.form EXCEPT !.routes = Sparse(@)]
    BY <1>3, <1>6 DEF SaveOK, Body
  <2>3. s.body.paused = s.form.paused /\ s.body.routes = Sparse(s.form.routes)
    BY <2>1, <2>2
  <2>4. now = s.body
    BY <1>3, <1>4, <1>6 DEF SaveOK
  <2>5. \A e : RolesOf(e, Sparse(s.form.routes)) = RolesOf(e, s.form.routes)
    BY DEF RolesOf, Sparse
  <2> QED BY <1>2, <1>4, <1>6, <2>3, <2>4, <2>5
<1> QED BY <1>5, <1>6

(* SettingsHold: a save of the routing mails those who were ticked and     *)
(* leaves the other panels' fields alone; the form shows what was saved;   *)
(* the limits stored are in order, and the logo is in the bucket.          *)
THEOREM SettingsCorrect == SettingsSpec => SettingsHold
<1> DEFINE Clauses == /\ \A t \in SettingsTabs : Saving(t) => MailedAsTicked(t) /\ LeavesOthers(t)
                      /\ \A t \in SettingsTabs : ShowsSaved(t)
                      /\ LimitsInOrder' /\ LogoIsThere'
<1>1. ASSUME SettingsInv, SettingsInv', [SettingsNext]_settingsVars PROVE [Clauses]_settingsVars
  <2>1. LimitsInOrder' /\ LogoIsThere'
    BY <1>1 DEF SettingsInv, RowOK, LogosOK, LogoIsThere
  <2> QED BY <1>1, <2>1, SavesAsTicked, SavedShows
<1>2. SettingsSpec => [][SettingsNext]_settingsVars
  BY DEF SettingsSpec
<1> QED BY <1>1, <1>2, SettingsInvariant, PTL DEF SettingsHold
=============================================================================
