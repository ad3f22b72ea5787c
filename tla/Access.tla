-------------------------------- MODULE Access --------------------------------
(***************************************************************************)
(* Who may use the dashboard: the accounts and SSO principals of           *)
(* users.json with their epochs, the sessions that embed an epoch, and the *)
(* bootstrap of the first account.  Each change of an identity is one      *)
(* critical section of credMu that stores its candidate first; verifying a *)
(* password and issuing the session are not one step, and sessions.json is *)
(* written on a best effort.                                               *)
(***************************************************************************)
EXTENDS Absence, Integers

CONSTANTS
    Users,          \* local account names
    Principals,     \* SSO identities
    SessionTokens,  \* session cookies alive at the same time
    Logins,         \* sign-ins and password changes in flight
    MaxEpoch        \* bound: changes of identities

Accounts == Users \cup Principals

VARIABLES
    row,            \* g.users and g.oidcPrincipals
    counter,        \* g.epochCounter
    store,          \* users.json
    setup,          \* g.setupRequired
    sso,            \* OIDC is configured
    session,        \* g.sessions
    kept,           \* sessions.json
    login,          \* verified, with the epoch read then, not committed yet
    wiping          \* identities whose sessions a handler is about to wipe

accessVars == <<row, counter, store, setup, sso, session, kept, login, wiping>>

AccountRow == [epoch: 0..MaxEpoch, admin: BOOLEAN, profile: {"role", "none"}]
Rows == [Accounts -> AccountRow \cup {None}]
Store == [row: Rows, counter: 0..MaxEpoch]
(* revoked is history: the identity's password, role or existence has       *)
(* changed, with the change acknowledged, since the epoch was read.         *)
Carrier == [sub: Accounts, epoch: 0..MaxEpoch, revoked: BOOLEAN]
Login == [sub: Accounts, epoch: 0..MaxEpoch, revoked: BOOLEAN, for: {"session", "password"}]

ASSUME AccessConstants ==
    /\ Users \cap Principals = {}
    /\ MaxEpoch \in Nat
    /\ None \notin Store \cup AccountRow

(* saveUsersFile of a candidate, published once the save succeeded.        *)
PublishUsers(rows, n) ==
    /\ row' = rows /\ counter' = n /\ store' = [row |-> rows, counter |-> n]

(* A failed save leaves the live state; the file may have been renamed and *)
(* only the sync of its directory have failed.                             *)
SaveFails(rows, n) ==
    /\ store' \in {store, [row |-> rows, counter |-> n]}
    /\ UNCHANGED <<row, counter>>

Mark(f, i) == [x \in DOMAIN f |-> IF f[x] # None /\ f[x].sub = i
                                  THEN [f[x] EXCEPT !.revoked = TRUE] ELSE f[x]]

(* The identity i gets row r and the store the next epoch; requests are    *)
(* the sign-ins and changes that stay in flight.                           *)
NextEpoch(r) == [r EXCEPT !.epoch = counter + 1]
Replace(i, r, requests) ==
    LET rows == [row EXCEPT ![i] = r] IN
    /\ counter < MaxEpoch
    /\ \/ /\ PublishUsers(rows, counter + 1)
          /\ session' = Mark(session, i) /\ kept' = Mark(kept, i) /\ login' = Mark(requests, i)
          /\ wiping' = wiping \cup {i}
       \/ /\ SaveFails(rows, counter + 1)
          /\ login' = requests
          /\ UNCHANGED <<session, kept, wiping>>
    /\ UNCHANGED <<setup, sso>>

-----------------------------------------------------------------------------
(* Sessions.                                                               *)

(* saveSessionsLocked: a failure is logged and the file stays behind.      *)
SaveSessions == kept' \in {session', kept}

(* authGate.wrap: the session's epoch must be the one of the live row.     *)
Live(s) == row[s.sub] # None /\ row[s.sub].epoch = s.epoch
Accepted(t) == session[t] # None /\ Live(session[t])

MayAdminister(r) == r.profile = "role" /\ r.admin
Administrator(t) == Accepted(t) /\ MayAdminister(row[session[t].sub])
SomeAdministrator == \E t \in SessionTokens : Administrator(t)

(* Mutant: the session takes the epoch the account has when it is issued.  *)
SessionOfNow(k) ==
    [sub |-> login[k].sub, revoked |-> login[k].revoked,
     epoch |-> IF row[login[k].sub] = None THEN 0 ELSE row[login[k].sub].epoch]

(* newSessionFor, with the epoch that was read with the verdict.           *)
SessionOf(k) == [sub |-> login[k].sub, epoch |-> login[k].epoch, revoked |-> login[k].revoked]
IssueSession(k, t) ==
    /\ login[k] # None /\ login[k].for = "session"
    /\ session[t] = None /\ kept[t] = None
    /\ session' = [session EXCEPT ![t] = SessionOf(k)]
    /\ SaveSessions
    /\ login' = [login EXCEPT ![k] = None]
    /\ UNCHANGED <<row, counter, store, setup, sso, wiping>>

(* A request with a dead session drops it; logout drops a live one.        *)
DropSession(t) ==
    /\ session[t] # None
    /\ session' = [session EXCEPT ![t] = None]
    /\ SaveSessions
    /\ UNCHANGED <<row, counter, store, setup, sso, login, wiping>>

(* renewSession rewrites the file.                                         *)
RenewSession(t) ==
    /\ Accepted(t) /\ kept # session
    /\ kept' = session
    /\ UNCHANGED <<row, counter, store, setup, sso, session, login, wiping>>

(* Expiry takes a session out of the map and out of what the file yields.  *)
SessionExpires(t) ==
    /\ session[t] # None \/ kept[t] # None
    /\ session' = [session EXCEPT ![t] = None]
    /\ kept' = [kept EXCEPT ![t] = None]
    /\ UNCHANGED <<row, counter, store, setup, sso, login, wiping>>

(* deleteUserSessions, after the durable change.                           *)
WipeSessions(i) ==
    /\ i \in wiping
    /\ wiping' = wiping \ {i}
    /\ session' = [t \in SessionTokens |->
          IF session[t] # None /\ session[t].sub = i THEN None ELSE session[t]]
    /\ IF session' = session THEN UNCHANGED kept ELSE SaveSessions
    /\ UNCHANGED <<row, counter, store, setup, sso, login>>

-----------------------------------------------------------------------------
(* Signing in.                                                             *)

NewRow(admin) == [epoch |-> counter + 1, admin |-> admin, profile |-> "role"]
NoLogin(k) == login[k] = None
Begins(k, i, for) ==
    login' = [login EXCEPT ![k] = [sub |-> i, epoch |-> row'[i].epoch, revoked |-> FALSE, for |-> for]]

(* authenticate: one read of the row, the epoch with the hash.  The same   *)
(* read starts a sign-in and a self-service change of the password, which  *)
(* needs a live session of the account.                                    *)
Authenticate(k, u, for) ==
    /\ NoLogin(k) /\ ~setup /\ row[u] # None
    /\ for = "password" => \E t \in SessionTokens : Accepted(t) /\ session[t].sub = u
    /\ UNCHANGED row
    /\ Begins(k, u, for)
    /\ UNCHANGED <<counter, store, setup, sso, session, kept, wiping>>

(* handleSetup: the holder of the bootstrap token makes the first account. *)
Setup(k, u) ==
    LET rows == [row EXCEPT ![u] = NewRow(TRUE)] IN
    /\ setup /\ NoLogin(k) /\ row[u] = None /\ counter < MaxEpoch
    /\ \/ /\ PublishUsers(rows, counter + 1)
          /\ setup' = FALSE
          /\ Begins(k, u, "session")
       \/ SaveFails(rows, counter + 1) /\ UNCHANGED <<setup, login>>
    /\ UNCHANGED <<sso, session, kept, wiping>>

(* upsertOIDCPrincipal: a first sign-in makes the row, a later one takes   *)
(* the provider's role and keeps the epoch.                                *)
SsoSignIn(k, p, admin) ==
    LET n == IF row[p] = None THEN counter + 1 ELSE counter
        rows == [row EXCEPT ![p] = IF row[p] = None THEN NewRow(admin)
                                   ELSE [row[p] EXCEPT !.admin = admin]] IN
    /\ sso /\ NoLogin(k) /\ n <= MaxEpoch
    /\ \/ PublishUsers(rows, n) /\ Begins(k, p, "session")
       \/ SaveFails(rows, n) /\ UNCHANGED login
    /\ UNCHANGED <<setup, sso, session, kept, wiping>>

-----------------------------------------------------------------------------
(* Changes of identities.                                                  *)

(* setPasswordCAS of handleChangePassword: the epoch of the verification   *)
(* must still be the account's.                                            *)
ChangePassword(k) ==
    LET u == login[k].sub
        done == [login EXCEPT ![k] = None] IN
    /\ login[k] # None /\ login[k].for = "password"
    /\ IF row[u] # None /\ row[u].epoch = login[k].epoch
       THEN Replace(u, NextEpoch(row[u]), done)
       ELSE /\ login' = done
            /\ UNCHANGED <<row, counter, store, setup, sso, session, kept, wiping>>

(* setPassword and revokeSessions of an administrator.                     *)
ResetOrRevoke(u) ==
    /\ SomeAdministrator /\ row[u] # None
    /\ Replace(u, NextEpoch(row[u]), login)

Admins == {u \in Users : row[u] # None /\ row[u].admin}
LastAdmin(u) == Admins = {u}

SetRole(u, admin) ==
    /\ SomeAdministrator /\ row[u] # None
    /\ ~admin => ~LastAdmin(u)
    /\ Replace(u, [NextEpoch(row[u]) EXCEPT !.admin = admin], login)

DeleteUser(u) ==
    /\ \E t \in SessionTokens : Administrator(t) /\ session[t].sub # u
    /\ row[u] # None /\ ~LastAdmin(u)
    /\ Replace(u, None, login)

(* createUser leaves the sessions alone.                                   *)
CreateUser(u, admin) ==
    LET rows == [row EXCEPT ![u] = NewRow(admin)] IN
    /\ SomeAdministrator /\ row[u] = None /\ counter < MaxEpoch
    /\ PublishUsers(rows, counter + 1) \/ SaveFails(rows, counter + 1)
    /\ UNCHANGED <<setup, sso, session, kept, login, wiping>>

(* narrowToPreset and setCapabilities: read live, so the epoch stays.      *)
SetProfile(u, profile) ==
    LET rows == [row EXCEPT ![u].profile = profile] IN
    /\ SomeAdministrator /\ row[u] # None
    /\ PublishUsers(rows, counter) \/ SaveFails(rows, counter)
    /\ UNCHANGED <<setup, sso, session, kept, login, wiping>>

-----------------------------------------------------------------------------
(* newAuthGate: the process starts with the files, and with or without an  *)
(* identity provider and an environment password for a fresh store.        *)
AccessRestart(withSso, env) ==
    /\ sso' = withSso
    /\ IF store # None
       THEN /\ row' = store.row /\ counter' = store.counter
            /\ setup' = FALSE /\ UNCHANGED store
       ELSE \/ /\ env \in Users /\ counter < MaxEpoch
               /\ PublishUsers([row EXCEPT ![env] = NewRow(TRUE)], 1)
               /\ setup' = FALSE
            \/ env = None /\ setup' = ~withSso /\ UNCHANGED <<row, counter, store>>
    /\ session' = kept
    /\ login' = [k \in Logins |-> None]
    /\ wiping' = {}
    /\ UNCHANGED kept

AccessInit ==
    /\ row = [i \in Accounts |-> None] /\ counter = 0 /\ store = None
    /\ setup = TRUE /\ sso = FALSE
    /\ session = [t \in SessionTokens |-> None] /\ kept = session
    /\ login = [k \in Logins |-> None]
    /\ wiping = {}

SessionStep(t) == DropSession(t) \/ RenewSession(t) \/ SessionExpires(t)

LoginStep(k) ==
    \/ \E t \in SessionTokens : IssueSession(k, t)
    \/ \E u \in Users : Setup(k, u) \/ Authenticate(k, u, "session") \/ Authenticate(k, u, "password")
    \/ \E p \in Principals, admin \in BOOLEAN : SsoSignIn(k, p, admin)
    \/ ChangePassword(k)

AdminStep ==
    \/ \E i \in Accounts : ResetOrRevoke(i)
    \/ \E u \in Users : \/ DeleteUser(u)
                         \/ \E admin \in BOOLEAN : SetRole(u, admin) \/ CreateUser(u, admin)
                         \/ \E profile \in {"role", "none"} : SetProfile(u, profile)

AccessNext ==
    \/ \E t \in SessionTokens : SessionStep(t)
    \/ \E k \in Logins : LoginStep(k)
    \/ \E i \in Accounts : WipeSessions(i)
    \/ AdminStep
    \/ \E withSso \in BOOLEAN, env \in Users \cup {None} : AccessRestart(withSso, env)

AccessSpec == AccessInit /\ [][AccessNext]_accessVars

-----------------------------------------------------------------------------
(* Properties                                                              *)

AccessTypeOK ==
    /\ row \in Rows /\ counter \in 0..MaxEpoch
    /\ store \in Store \cup {None}
    /\ setup \in BOOLEAN /\ sso \in BOOLEAN
    /\ session \in [SessionTokens -> Carrier \cup {None}]
    /\ kept \in [SessionTokens -> Carrier \cup {None}]
    /\ login \in [Logins -> Login \cup {None}]
    /\ wiping \subseteq Accounts

(* Whatever carries an epoch that is still accepted, in memory, in the     *)
(* file a restart reads, or in a sign-in or password change in flight, got *)
(* it after the last acknowledged change of its identity: a revocation     *)
(* survives restarts, lost session writes and a name that is used again    *)
(* (authGate.wrap, setPasswordCAS, deleteUser).                            *)
RevokedStaysOut ==
    /\ \A t \in SessionTokens : session[t] # None /\ Live(session[t]) => ~session[t].revoked
    /\ \A t \in SessionTokens : kept[t] # None /\ Live(kept[t]) => ~kept[t].revoked
    /\ \A k \in Logins : login[k] # None /\ Live(login[k]) => ~login[k].revoked

(* First-run setup is open only while there is no account (newAuthGate,    *)
(* handleSetup).                                                           *)
SetupOnlyFresh == setup => \A i \in Accounts : row[i] = None
=============================================================================
