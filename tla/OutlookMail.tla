----------------------------- MODULE OutlookMail -----------------------------
(***************************************************************************)
(* The user's Microsoft mailbox: apps/api/src/integrations/outlook.        *)
(* A user connects through OAuth, tokens are kept in one row per user and  *)
(* refreshed while mail is sent.  The identity provider and Graph are      *)
(* modelled by what the code does with their answers.                      *)
(***************************************************************************)
EXTENDS Integers, FiniteSets

CONSTANTS
  Boxes,        \* mailboxes the user may pick at Microsoft
  MailReqs,     \* concurrent requests
  NoBox,
  MailWorlds,   \* which requests run, how many mailboxes the user has
  MaxGrants     \* bound on tokens granted, per behaviour

ASSUME OutlookMailAssumption ==
  /\ NoBox \notin Boxes
  /\ \A w \in MailWorlds : /\ w.boxes \subseteq Boxes /\ IsFiniteSet(w.boxes)
                           /\ w.alone \in BOOLEAN

VARIABLES
  mApp,     \* tenant_outlook_apps: credentials saved
  mRow,     \* user_integrations: mailbox, owner of the tokens, expiry, refresh token
  mReq,     \* the requests
  mGrants,  \* tokens granted so far
  mSent,    \* history: pairs <<mailbox a mail left from, mailbox the answer names>>
  mWorld

mailVars == <<mApp, mRow, mReq, mGrants, mSent, mWorld>>

-----------------------------------------------------------------------------
NoRowYet  == [on |-> FALSE, box |-> NoBox, of |-> NoBox, fresh |-> FALSE, refresh |-> FALSE]
MailIdle  == [pc |-> "idle", box |-> NoBox, of |-> NoBox, named |-> NoBox, forced |-> FALSE]

MailInit ==
  /\ mApp = TRUE /\ mRow = NoRowYet
  /\ mReq = [r \in MailReqs |-> MailIdle]
  /\ mGrants = 0 /\ mSent = {}
  /\ mWorld \in MailWorlds

MailBusy    == {r \in MailReqs : mReq[r].pc # "idle"}
MailEnds(r) == mReq' = [mReq EXCEPT ![r] = MailIdle]
MailTo(r, q) == mReq' = [mReq EXCEPT ![r] = q]

(* The admin saves the app's credentials, or clears them: every connection *)
(* of the tenant goes with them.                                           *)
SetAppConfig == /\ mApp' = TRUE /\ ~mApp
                /\ UNCHANGED <<mRow, mReq, mGrants, mSent, mWorld>>
ClearAppConfig == /\ mApp /\ mWorld.admin /\ mApp' = FALSE /\ mRow' = NoRowYet
                  /\ UNCHANGED <<mReq, mGrants, mSent, mWorld>>

(* authorizeUrl signs the state, the user consents for a mailbox ...       *)
Authorize(r, b) ==
  /\ mApp /\ r \in mWorld.reqs /\ mReq[r].pc = "idle" /\ b \in mWorld.boxes
  /\ mWorld.alone => MailBusy = {}
  /\ MailTo(r, [MailIdle EXCEPT !.pc = "consent", !.box = b])
  /\ UNCHANGED <<mApp, mRow, mGrants, mSent, mWorld>>

(* ... and the callback verifies the state (it lives ten minutes) and      *)
(* exchanges the code; a bad one redirects with an error ...               *)
Exchange(r) ==
  /\ mReq[r].pc = "consent"
  /\ \/ MailEnds(r) /\ UNCHANGED mGrants
     \/ /\ mApp /\ mGrants < MaxGrants
        /\ mGrants' = mGrants + 1
        /\ MailTo(r, [mReq[r] EXCEPT !.pc = "store"])
  /\ UNCHANGED <<mApp, mRow, mSent, mWorld>>

(* ... and stores the tokens with the name of their mailbox.  An answer    *)
(* without a refresh token clears the one stored.                          *)
CompleteConnect_KeepsName(r) ==
  /\ mReq[r].pc = "store"
  /\ mRow' = [on |-> TRUE, box |-> IF mRow.on THEN mRow.box ELSE mReq[r].box, of |-> mReq[r].box,
              fresh |-> TRUE, refresh |-> TRUE]
  /\ MailEnds(r)
  /\ UNCHANGED <<mApp, mGrants, mSent, mWorld>>

CompleteConnect(r) ==
  /\ mReq[r].pc = "store"
  /\ \E again \in BOOLEAN :
       mRow' = [on |-> TRUE, box |-> mReq[r].box, of |-> mReq[r].box, fresh |-> TRUE,
                refresh |-> again]
  /\ MailEnds(r)
  /\ UNCHANGED <<mApp, mGrants, mSent, mWorld>>

DisconnectMailbox == /\ mRow.on /\ mRow' = NoRowYet
                     /\ UNCHANGED <<mApp, mReq, mGrants, mSent, mWorld>>

TokenExpires == /\ mRow.on /\ mRow.fresh /\ mRow' = [mRow EXCEPT !.fresh = FALSE]
                /\ UNCHANGED <<mApp, mReq, mGrants, mSent, mWorld>>

-----------------------------------------------------------------------------
(* sendMail: a token, the name of the mailbox, the call to Graph, one      *)
(* forced refresh when Graph calls the token expired.                      *)
StartSend(r) ==
  /\ mApp /\ r \in mWorld.reqs /\ mReq[r].pc = "idle"
  /\ mWorld.alone => MailBusy = {}
  /\ MailTo(r, [MailIdle EXCEPT !.pc = "token"])
  /\ UNCHANGED <<mApp, mRow, mGrants, mSent, mWorld>>

(* getFreshAccessToken: the stored token while it is good, else a refresh. *)
ReadToken(r) ==
  /\ mReq[r].pc = "token"
  /\ \/ (~mRow.on \/ (~mRow.refresh /\ (mReq[r].forced \/ ~mRow.fresh))) /\ MailEnds(r)
     \/ /\ mRow.on
        /\ MailTo(r, IF mRow.fresh /\ ~mReq[r].forced
                     THEN [mReq[r] EXCEPT !.pc = "name", !.of = mRow.of]
                     ELSE [mReq[r] EXCEPT !.pc = "refresh", !.of = mRow.of])
        /\ (mRow.fresh /\ ~mReq[r].forced) \/ mRow.refresh
  /\ UNCHANGED <<mApp, mRow, mGrants, mSent, mWorld>>

(* The refreshed tokens go into the row that is there now, which is        *)
(* updated, never created: without one the request fails.                  *)
Refresh(r) ==
  /\ mReq[r].pc = "refresh"
  /\ \/ MailEnds(r) /\ UNCHANGED mGrants
     \/ /\ mGrants < MaxGrants /\ mGrants' = mGrants + 1
        /\ MailTo(r, [mReq[r] EXCEPT !.pc = "save"])
  /\ UNCHANGED <<mApp, mRow, mSent, mWorld>>

RowToSave_Upsert(r) == [mRow EXCEPT !.on = TRUE, !.of = mReq[r].of, !.fresh = TRUE]
RowToSave(r) == IF mRow.on THEN [mRow EXCEPT !.of = mReq[r].of, !.fresh = TRUE] ELSE mRow

SaveRefreshed(r) ==
  /\ mReq[r].pc = "save"
  /\ mRow' = RowToSave(r)
  /\ IF mRow'.on
     THEN MailTo(r, [mReq[r] EXCEPT !.pc = IF mReq[r].forced THEN "graph" ELSE "name"])
     ELSE MailEnds(r)
  /\ UNCHANGED <<mApp, mGrants, mSent, mWorld>>

ReadName(r) ==
  /\ mReq[r].pc = "name"
  /\ MailTo(r, [mReq[r] EXCEPT !.pc = "graph", !.named = mRow.box])
  /\ UNCHANGED <<mApp, mRow, mGrants, mSent, mWorld>>

(* Graph accepts, refuses, or calls the token expired.                     *)
SendMail(r) ==
  /\ mReq[r].pc = "graph"
  /\ \/ MailEnds(r) /\ mSent' = mSent \cup {<<mReq[r].of, mReq[r].named>>}
     \/ MailEnds(r) /\ UNCHANGED mSent
     \/ /\ ~mReq[r].forced /\ UNCHANGED mSent
        /\ MailTo(r, [mReq[r] EXCEPT !.pc = "token", !.forced = TRUE])
  /\ UNCHANGED <<mApp, mRow, mGrants, mWorld>>

MailNext ==
  \/ SetAppConfig \/ ClearAppConfig \/ DisconnectMailbox \/ TokenExpires
  \/ \E r \in MailReqs :
       \/ \E b \in Boxes : Authorize(r, b)
       \/ Exchange(r) \/ CompleteConnect(r) \/ StartSend(r) \/ ReadToken(r)
       \/ Refresh(r) \/ SaveRefreshed(r) \/ ReadName(r) \/ SendMail(r)

MailSpec == MailInit /\ [][MailNext]_mailVars

-----------------------------------------------------------------------------
MailTypeOK ==
  /\ mRow.box \in Boxes \cup {NoBox} /\ mRow.of \in Boxes \cup {NoBox} /\ mGrants \in 0..MaxGrants
  /\ \A r \in MailReqs : mReq[r].pc \in {"idle", "consent", "store", "token", "refresh", "save",
                                         "name", "graph"}

(* The answer to a send names the mailbox the mail left from, which the    *)
(* proposal's record keeps, unless the user reconnects to another mailbox  *)
(* while a request is in flight.                                           *)
NamedAsSent ==
  (mWorld.alone \/ Cardinality(mWorld.boxes) = 1) =>
    \A s \in mSent : s[2] = s[1] \/ s[2] = NoBox

(* A disconnected mailbox stays disconnected whatever refresh was under    *)
(* way: only a completed connection makes the row again.                   *)
StaysDisconnected ==
  [][(~mRow.on /\ mRow'.on) => \E r \in MailReqs : mReq[r].pc = "store"]_mailVars
=============================================================================
