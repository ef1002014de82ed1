------------------------------ MODULE Accounts ------------------------------
(***************************************************************************)
(* Accounts of one workspace: sign-up, sign-in, one-time links, invites,   *)
(* roles and removal, and the sessions a browser holds (auth.service.ts,   *)
(* team.service.ts, unscoped-db.ts, jwt-auth.guard.ts, auth-context.tsx).  *)
(*                                                                         *)
(* A token is a signed copy of the user row it was made from; the guard    *)
(* compares only the user's id and token_version with the row of today.    *)
(* A request's steps are its transactions, or the statements of one that   *)
(* another request can come between.  Hashing and mail are left out: a     *)
(* link is known by its place in the table.                                *)
(***************************************************************************)
EXTENDS Integers, Sequences, FiniteSets

CONSTANTS Persons,      \* e-mail addresses
          Founder,      \* the workspace's first admin
          Roles,        \* roles an admin may give
          LinkLimit,    \* findFreshMagicLinks, findFreshPasswordResets: LIMIT
          Crowds,       \* requests in flight and operations, per behaviour
          MaxBumps, MaxLinks, MaxInvites, MaxUsers, \* bounds
          Nobody

ASSUME AccountsAssumption ==
  /\ Founder \in Persons /\ Nobody \notin Persons
  /\ MaxBumps \in Nat
  /\ \A k \in Crowds : IsFiniteSet(k.reqs)

VARIABLES users,     \* users, by their unique e-mail
          links,     \* magic_links, password_resets and verification tokens
          invites,   \* invites; joined counts the users one made
          sessions,  \* every token ever signed
          asking,    \* requests in flight: the step and what was read
          browser,   \* one tab: stored token, /auth/me in flight, user shown
          lastId,    \* ids handed out
          crowd
acctVars == <<users, links, invites, sessions, asking, browser, lastId, crowd>>

NoUser    == [id |-> 0, role |-> "none", tv |-> 0, verified |-> FALSE, home |-> "none"]
NoSession == [who |-> Nobody, id |-> 0, role |-> "none", tv |-> 0]
Silent    == [op |-> "idle", who |-> Nobody, row |-> NoUser, kind |-> "none", n |-> 0, key |-> 0,
              role |-> "none"]

AccountsInit ==
  /\ crowd \in Crowds
  /\ users = [p \in Persons |-> IF p = Founder
                THEN [id |-> 1, role |-> "admin", tv |-> 0, verified |-> TRUE, home |-> "ours"]
                ELSE NoUser]
  /\ links = <<>> /\ invites = <<>> /\ sessions = {}
  /\ asking = [r \in crowd.reqs |-> Silent]
  /\ browser = [token |-> NoSession, me |-> NoSession, shown |-> Nobody]
  /\ lastId = 1

-----------------------------------------------------------------------------
Opens(r, op, upd) == /\ op \in crowd.ops
                     /\ asking[r].op = "idle"
                     /\ asking' = [asking EXCEPT ![r] = [upd EXCEPT !.op = op]]
Is(r, op)   == asking[r].op = op
Next_(r, op) == asking' = [asking EXCEPT ![r].op = op]
Closes(r)   == asking' = [asking EXCEPT ![r] = Silent]

(* issueJwt signs what its caller read or wrote.                           *)
Session(p, u) == [who |-> p, id |-> u.id, role |-> u.role, tv |-> u.tv]
Issue(p, u)   == sessions' = sessions \cup {Session(p, u)}

(* JwtAuthGuard: the user still exists and no bump came since.             *)
Passes(s) == s.who \in Persons /\ users[s.who].id = s.id /\ users[s.who].tv = s.tv
IsAdmin(s) == Passes(s) /\ s.role = "admin" /\ users[s.who].home = "ours"

(* The rows of a kind a link is looked up in: only the newest LinkLimit.   *)
Usable(l) == LET k == links[l]
             IN  /\ k.state = "fresh"
                 /\ users[k.who].id = k.id
                 /\ k.kind = "verify" => ~users[k.who].verified
Newer(l)  == {m \in (l + 1)..Len(links) : links[m].kind = links[l].kind /\ Usable(m)}
Fresh(l)  == Usable(l) /\ Cardinality(Newer(l)) < LinkLimit

Link(kind, p, id) == [kind |-> kind, who |-> p, id |-> id, state |-> "fresh"]

(* The rows that go with their user; the others keep their place.          *)
NoLinksOf(id) ==
  [l \in 1..Len(links) |->
     IF links[l].id = id THEN [links[l] EXCEPT !.state = "gone"] ELSE links[l]]

-----------------------------------------------------------------------------
(* loginWithPassword: the row is read before the slow hash, signed after.  *)
Login(r, p) == /\ users[p].verified
               /\ Opens(r, "login", [Silent EXCEPT !.who = p, !.row = users[p]])
               /\ UNCHANGED <<users, links, invites, sessions, browser, lastId, crowd>>

SignedIn(r) == /\ Is(r, "login")
               /\ Issue(asking[r].who, asking[r].row)
               /\ Closes(r)
               /\ UNCHANGED <<users, links, invites, browser, lastId, crowd>>

(* signup: a workspace of one's own; unverified until its link is used.    *)
SignUp(r, p) == /\ users[p] = NoUser
                /\ Opens(r, "signup", [Silent EXCEPT !.who = p])
                /\ UNCHANGED <<users, links, invites, sessions, browser, lastId, crowd>>

(* users.email is unique: a second row is refused by the database.         *)
SignUpWrite(r) ==
  LET p == asking[r].who
  IN  /\ Is(r, "signup")
      /\ users[p] = NoUser /\ lastId < MaxUsers /\ Len(links) < MaxLinks
      /\ users' = [users EXCEPT ![p] = [id |-> lastId + 1, role |-> "admin", tv |-> 0,
                                        verified |-> FALSE, home |-> "own"]]
      /\ links' = Append(links, Link("verify", p, lastId + 1))
      /\ lastId' = lastId + 1
      /\ Closes(r)
      /\ UNCHANGED <<invites, sessions, browser, crowd>>

(* requestMagicLink, requestPasswordReset: nothing happens for an unknown  *)
(* address; the row's user must still be there when it is inserted.        *)
Request(r, kind, p) ==
  /\ users[p] # NoUser
  /\ Opens(r, "ask", [Silent EXCEPT !.who = p, !.kind = kind, !.row = users[p]])
  /\ UNCHANGED <<users, links, invites, sessions, browser, lastId, crowd>>

RequestWrite(r) ==
  LET a == asking[r]
  IN  /\ Is(r, "ask")
      /\ users[a.who].id = a.row.id /\ Len(links) < MaxLinks
      /\ links' = Append(links, Link(a.kind, a.who, a.row.id))
      /\ Closes(r)
      /\ UNCHANGED <<users, invites, sessions, browser, lastId, crowd>>

(* consumeMagicLink, resetPassword, verifyEmail: find the row, then spend  *)
(* it by id, whether or not somebody has done so meanwhile.                *)
Present(r, l) == /\ Fresh(l)
                 /\ Opens(r, "spend", [Silent EXCEPT !.who = links[l].who, !.kind = links[l].kind,
                                                     !.n = l, !.key = links[l].id])
                 /\ UNCHANGED <<users, links, invites, sessions, browser, lastId, crowd>>

Spent(a) == [l \in 1..Len(links) |->
               IF l = a.n THEN [links[l] EXCEPT !.state = "spent"] ELSE links[l]]
Proven(u, kind) == [u EXCEPT !.verified = TRUE, !.tv = IF kind = "reset" THEN @ + 1 ELSE @]

Spend(r) ==
  LET a == asking[r]
      u == Proven(users[a.who], a.kind)
  IN  /\ Is(r, "spend") /\ a.kind # "verify"
      /\ users[a.who].id = a.key /\ u.tv <= MaxBumps
      /\ links' = Spent(a)
      /\ users' = [users EXCEPT ![a.who] = u]
      /\ Issue(a.who, u)
      /\ Closes(r)
      /\ UNCHANGED <<invites, browser, lastId, crowd>>

(* verifyEmail reads the user again, by its address, before it signs.      *)
Verify(r) ==
  LET a == asking[r]
      there == users[a.who].id = a.key
  IN  /\ Is(r, "spend") /\ a.kind = "verify"
      /\ links' = IF there THEN Spent(a) ELSE links
      /\ users' = IF there THEN [users EXCEPT ![a.who] = Proven(@, "verify")] ELSE users
      /\ Next_(r, "verified")
      /\ UNCHANGED <<invites, sessions, browser, lastId, crowd>>

Verified(r) == /\ Is(r, "verified")
               /\ users[asking[r].who] # NoUser
               /\ Issue(asking[r].who, users[asking[r].who])
               /\ Closes(r)
               /\ UNCHANGED <<users, links, invites, browser, lastId, crowd>>

-----------------------------------------------------------------------------
(* createInvite: no account anywhere, then no open invite here; an expired *)
(* invite is still open, for the check and for the unique index.           *)
OpenInvite(i) == ~i.accepted /\ ~i.revoked
Standing(i)   == OpenInvite(i) /\ ~i.expired

Invite(r, s, p, role) ==
  /\ IsAdmin(s) /\ users[p] = NoUser
  /\ Opens(r, "invite", [Silent EXCEPT !.who = p, !.role = role])
  /\ UNCHANGED <<users, links, invites, sessions, browser, lastId, crowd>>

InviteWrite(r) ==
  LET a == asking[r]
  IN  /\ Is(r, "invite") /\ Len(invites) < MaxInvites
      /\ \A n \in 1..Len(invites) : invites[n].who = a.who => ~OpenInvite(invites[n])
      /\ invites' = Append(invites, [who |-> a.who, role |-> a.role, key |-> 1, accepted |-> FALSE,
                                     revoked |-> FALSE, expired |-> FALSE, joined |-> 0])
      /\ Closes(r)
      /\ UNCHANGED <<users, links, sessions, browser, lastId, crowd>>

(* resendInvite and revokeInvite look at the row and update it by id.      *)
Touch(r, s, op, n) ==
  /\ op \in {"resend", "revoke"} /\ IsAdmin(s)
  /\ OpenInvite(invites[n])
  /\ Opens(r, op, [Silent EXCEPT !.n = n])
  /\ UNCHANGED <<users, links, invites, sessions, browser, lastId, crowd>>

Resend(r) == /\ Is(r, "resend")
             /\ invites[asking[r].n].key < 2
             /\ invites' = [invites EXCEPT ![asking[r].n].key = @ + 1,
                                           ![asking[r].n].expired = FALSE]
             /\ Closes(r)
             /\ UNCHANGED <<users, links, sessions, browser, lastId, crowd>>

Revoke(r) == /\ Is(r, "revoke")
             /\ invites' = [invites EXCEPT ![asking[r].n].revoked = TRUE]
             /\ Closes(r)
             /\ UNCHANGED <<users, links, sessions, browser, lastId, crowd>>

(* acceptInvite: the row of the token, no account by now, the row again in *)
(* the transaction, then the user and the mark on the invite.              *)
Accept(r, n) ==
  /\ Standing(invites[n])
  /\ Opens(r, "accept", [Silent EXCEPT !.who = invites[n].who, !.role = invites[n].role, !.n = n])
  /\ UNCHANGED <<users, links, invites, sessions, browser, lastId, crowd>>

AcceptLook(r) == /\ Is(r, "accept")
                 /\ users[asking[r].who] = NoUser
                 /\ Next_(r, "accept:tx")
                 /\ UNCHANGED <<users, links, invites, sessions, browser, lastId, crowd>>

AcceptCheck(r) == /\ Is(r, "accept:tx")
                  /\ Standing(invites[asking[r].n])
                  /\ Next_(r, "join")
                  /\ UNCHANGED <<users, links, invites, sessions, browser, lastId, crowd>>

Joins(p, role) == users' = [users EXCEPT ![p] = [id |-> lastId + 1, role |-> role, tv |-> 0,
                                                 verified |-> TRUE, home |-> "ours"]]

AcceptWrite(r) ==
  LET a == asking[r]
  IN  /\ Is(r, "join")
      /\ users[a.who] = NoUser /\ lastId < MaxUsers
      /\ Joins(a.who, a.role)
      /\ lastId' = lastId + 1
      /\ sessions' = sessions \cup {[who |-> a.who, id |-> lastId + 1, role |-> a.role, tv |-> 0]}
      /\ invites' = [invites EXCEPT ![a.n].accepted = TRUE, ![a.n].joined = @ + 1]
      /\ Closes(r)
      /\ UNCHANGED <<links, browser, crowd>>

-----------------------------------------------------------------------------
(* updateUserRole, deactivateUser: the count of admins, then the write.    *)
Ours   == {p \in Persons : users[p].home = "ours"}
Admins == {p \in Ours : users[p].role = "admin"}
LastAdmin(p) == p \in Admins /\ Cardinality(Admins) <= 1

RoleBegin(r, s, p, role) ==
  /\ IsAdmin(s) /\ p \in Ours
  /\ role # "admin" => ~LastAdmin(p)
  /\ Opens(r, "role", [Silent EXCEPT !.who = p, !.role = role, !.key = users[p].id])
  /\ UNCHANGED <<users, links, invites, sessions, browser, lastId, crowd>>

RoleWrite_NoBump(r) ==
  LET a == asking[r]
  IN  /\ Is(r, "role") /\ users[a.who].id = a.key /\ users[a.who].tv < MaxBumps
      /\ users' = [users EXCEPT ![a.who].role = a.role]
      /\ Closes(r)
      /\ UNCHANGED <<links, invites, sessions, browser, lastId, crowd>>

RoleWrite(r) ==
  LET a == asking[r]
  IN  /\ Is(r, "role") /\ users[a.who].id = a.key /\ users[a.who].tv < MaxBumps
      /\ users' = [users EXCEPT ![a.who].role = a.role, ![a.who].tv = @ + 1]
      /\ Closes(r)
      /\ UNCHANGED <<links, invites, sessions, browser, lastId, crowd>>

RemoveBegin(r, s, p) ==
  /\ IsAdmin(s) /\ p \in Ours /\ users[p].id # s.id
  /\ ~LastAdmin(p)
  /\ Opens(r, "remove", [Silent EXCEPT !.who = p, !.key = users[p].id])
  /\ UNCHANGED <<users, links, invites, sessions, browser, lastId, crowd>>

(* The user's links go with the row; deals the user holds refuse it.       *)
RemoveWrite(r) ==
  LET a == asking[r]
  IN  /\ Is(r, "remove") /\ users[a.who].id = a.key
      /\ users' = [users EXCEPT ![a.who] = NoUser]
      /\ links' = NoLinksOf(a.key)
      /\ Closes(r)
      /\ UNCHANGED <<invites, sessions, browser, lastId, crowd>>

(* A check of a later statement fails, or the request dies.                *)
GiveUp(r) == /\ asking[r].op # "idle"
             /\ Closes(r)
             /\ UNCHANGED <<users, links, invites, sessions, browser, lastId, crowd>>

LinkExpires(l) == /\ links[l].state = "fresh"
                  /\ links' = [links EXCEPT ![l].state = "expired"]
                  /\ UNCHANGED <<users, invites, sessions, asking, browser, lastId, crowd>>

InviteExpires(n) == /\ ~invites[n].expired
                    /\ invites' = [invites EXCEPT ![n].expired = TRUE]
                    /\ UNCHANGED <<users, links, sessions, asking, browser, lastId, crowd>>

-----------------------------------------------------------------------------
(* AuthProvider: a page load asks /auth/me with the stored token; a 401    *)
(* drops whatever token is stored when it arrives.                         *)
PageLoads == /\ browser.token # NoSession
             /\ browser' = [browser EXCEPT !.me = browser.token, !.shown = Nobody]

MeAnswers == /\ browser.me # NoSession
             /\ browser' = IF Passes(browser.me)
                           THEN [browser EXCEPT !.me = NoSession, !.shown = browser.me.who]
                           ELSE [browser EXCEPT !.me = NoSession, !.token = NoSession]

(* signIn stores and shows at once: the sign-in page only for nobody, the  *)
(* page of an e-mailed link whoever is signed in, while /auth/me is out.   *)
Shows(s)     == browser' = [browser EXCEPT !.token = s, !.shown = s.who]
FromLogin(s) == browser.shown = Nobody /\ browser.me = NoSession /\ Shows(s)
FromLink(s)  == Shows(s)

SignsOut == /\ browser.shown # Nobody
            /\ browser' = [browser EXCEPT !.token = NoSession, !.shown = Nobody]

Browse == /\ "browse" \in crowd.ops
          /\ \/ PageLoads \/ MeAnswers \/ SignsOut
             \/ \E s \in sessions : FromLogin(s) \/ FromLink(s)
          /\ UNCHANGED <<users, links, invites, sessions, asking, lastId, crowd>>

AskFor(r) ==
  \/ \E p \in Persons : \/ Login(r, p) \/ SignUp(r, p)
                        \/ \E kind \in {"magic", "reset"} : Request(r, kind, p)
  \/ \E l \in 1..Len(links) : Present(r, l)
  \/ \E n \in 1..Len(invites) : Accept(r, n)
  \/ \E s \in sessions : \/ \E p \in Persons : RemoveBegin(r, s, p)
                         \/ \E p \in Persons, role \in Roles : Invite(r, s, p, role)
                                                              \/ RoleBegin(r, s, p, role)
                         \/ \E n \in 1..Len(invites), op \in {"resend", "revoke"} : Touch(r, s, op, n)

Proceed(r) ==
  \/ SignedIn(r) \/ SignUpWrite(r) \/ RequestWrite(r) \/ Spend(r) \/ Verify(r) \/ Verified(r)
  \/ InviteWrite(r) \/ Resend(r) \/ Revoke(r)
  \/ AcceptLook(r) \/ AcceptCheck(r) \/ AcceptWrite(r)
  \/ RoleWrite(r) \/ RemoveWrite(r) \/ GiveUp(r)

AccountsNext == \/ \E r \in DOMAIN asking : AskFor(r) \/ Proceed(r)
                \/ Browse
                \/ \E l \in 1..Len(links) : LinkExpires(l)
                \/ \E n \in 1..Len(invites) : InviteExpires(n)

AccountsSpec == AccountsInit /\ [][AccountsNext]_acctVars

-----------------------------------------------------------------------------
RoleNames  == Roles \cup {"admin", "none"}
LinkKinds  == {"magic", "reset", "verify"}
AskingOps  == {"idle", "login", "signup", "ask", "spend", "verified", "invite", "resend", "revoke",
               "accept", "accept:tx", "join", "role", "remove"}
UserRow    == [id : Nat, role : RoleNames, tv : Nat, verified : BOOLEAN,
               home : {"none", "ours", "own"}]
LinkRow    == [kind : LinkKinds, who : Persons, id : Nat \ {0},
               state : {"fresh", "spent", "expired", "gone"}]
InviteRow  == [who : Persons, role : RoleNames, key : Nat, accepted : BOOLEAN, revoked : BOOLEAN,
               expired : BOOLEAN, joined : Nat]
SessionRow == [who : Persons, id : Nat \ {0}, role : RoleNames, tv : Nat]
AskingRow  == [op : AskingOps, who : Persons \cup {Nobody}, row : UserRow,
               kind : LinkKinds \cup {"none"}, n : Nat, key : Nat, role : RoleNames]

(* A row without an id is no row; a request that goes on with a link or an *)
(* invite, or that changes a user, has one.                                *)
AccountsTypeOK ==
  /\ crowd \in Crowds /\ lastId \in Nat
  /\ users \in [Persons -> UserRow] /\ links \in Seq(LinkRow) /\ invites \in Seq(InviteRow)
  /\ sessions \subseteq SessionRow /\ asking \in [crowd.reqs -> AskingRow]
  /\ \A p \in Persons : users[p].id = 0 => users[p] = NoUser
  /\ \A r \in crowd.reqs :
       /\ asking[r].op # "idle" => asking[r].who \in Persons \/ asking[r].op \in {"resend", "revoke"}
       /\ asking[r].op \in {"login", "ask"} => asking[r].row.id # 0
       /\ asking[r].op = "ask" => asking[r].kind \in {"magic", "reset"}
       /\ asking[r].op \in {"spend", "role", "remove"} => asking[r].key # 0
       /\ asking[r].op = "spend" => asking[r].n \in 1..Len(links)
       /\ asking[r].op \in {"resend", "revoke", "accept", "accept:tx", "join"}
            => asking[r].n \in 1..Len(invites)

(* "the new role takes effect ... instead of lingering for the full token  *)
(* TTL": a session the guard lets through speaks for the role the user has *)
(* now, whatever sign-ins, resets and role changes came between.           *)
RolesAreCurrent == \A s \in sessions : Passes(s) => s.role = users[s.who].role

(* "Race-safety: if someone else accepted in the meantime": one invite lets *)
(* in one user, also when that user is removed and the link used again.    *)
(* (A removal between two accepts that have both passed the check lets in  *)
(* two: removals and accepts are not let run at the same time here.)       *)
OneUserPerInvite ==
  (Cardinality(crowd.reqs) = 1 \/ "remove" \notin crowd.ops) =>
    \A n \in 1..Len(invites) : invites[n].joined <= 1
AccessIsCurrent == RolesAreCurrent /\ OneUserPerInvite

(* Statements the code does not meet: two admins demoting each other leave *)
(* none, and a late 401 takes the token of the user who is shown.          *)
AdminRemains == Admins # {}
ShownIsSignedIn == browser.shown # Nobody => browser.shown = browser.token.who
=============================================================================
