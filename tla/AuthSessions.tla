------------------------------ MODULE AuthSessions ------------------------------
(***************************************************************************)
(* The sessions of accounts: families of single-use refresh tokens, their  *)
(* rotation and the reuse of a rotated one, logout, logout of every        *)
(* device, the password and its reset tokens, and the changes of account   *)
(* status that end sessions.                                               *)
(*                                                                         *)
(* A handler reads documents, verifies or hashes a password, and only then *)
(* writes: each request in progress holds what it read in `request`, and   *)
(* its write is a later step.  A transaction that writes a document two    *)
(* requests want is one action (its loser is retried or refused by the     *)
(* filter).  Two kinds of writes are not atomic and are several steps: the *)
(* updateMany of a logout-all, which runs outside any transaction, and the *)
(* replacement of reset tokens, whose transaction writes the tokens of its *)
(* snapshot and inserts one that no other transaction conflicts with.      *)
(*                                                                         *)
(* Data kept abstract: a token is the document that stores its hash, a     *)
(* password is the number of changes before it, deletion_requested (set    *)
(* and left inside one transaction) is absent, and so are access tokens.   *)
(* Expiry is left out: a date that has passed only refuses a refresh, a    *)
(* detection or a reset that a client may as well never ask for.           *)
(***************************************************************************)
EXTENDS Integers, FiniteSets

CONSTANTS
    Users,          \* accounts, all registered
    Tokens,         \* identifiers of PasswordResetToken documents
    Requests,       \* requests that may be in progress at once
    MaxSession,     \* bound: AuthSession documents
    MaxPassword,    \* bound: changes of one password
    None            \* the null of the documents

ASSUME ConstantsAssumption == MaxSession \in Nat /\ MaxPassword \in Nat

VARIABLES
    account,        \* User.status
    password,       \* AuthIdentity.passwordHash
    session,        \* AuthSession documents, in the order of expiresAt
    token,          \* PasswordResetToken documents
    request         \* what each request in progress has read

vars == <<account, password, session, token, request>>

-----------------------------------------------------------------------------
(* The documents and the requests.                                         *)

Ids == 1..MaxSession

\* "ended" stands for logout and the five reasons of a revocation of every
\* session, which no handler tells apart.
Revocations == {"rotated", "reuse", "ended"}

\* usedAt and replacedBySession are set by the write that sets "rotated";
\* proof is history: the password its login verified.
Session ==
    [user : Users, family : Ids, revoked : Revocations \cup {None},
     next : Ids \cup {None}, compromised : BOOLEAN, proof : Nat]

ResetToken == [user : Users, state : {"usable", "used", "revoked"}]

ASSUME NoneAssumption == None \notin Session \cup ResetToken \cup Ids \cup Revocations \cup Nat

Idle == [kind |-> "idle"]

Request ==
    {Idle}
    \cup [kind : {"login"}, user : Users, proof : Nat \cup {None}]
    \cup [kind : {"rotate", "reuse"}, session : Ids]
    \cup [kind : {"logout_all"}, user : Users, families : SUBSET Ids]
    \cup [kind : {"change"}, user : Users, proof : Nat]
    \cup [kind : {"forgot"}, user : Users, seen : SUBSET Tokens]
    \cup [kind : {"mail"}, token : Tokens]
    \cup [kind : {"reset"}, token : Tokens, proof : Nat]

TypeOK ==
    /\ account \in [Users -> {"active", "disabled", "closed"}]
    /\ password \in [Users -> Nat]
    /\ session \in [Ids -> Session \cup {None}]
    /\ token \in [Tokens -> ResetToken \cup {None}]
    /\ request \in [Requests -> Request]

-----------------------------------------------------------------------------
(* Helpers.                                                                *)

Exists(s) == session[s] # None
Live(s)   == Exists(s) /\ session[s].revoked = None

LiveOf(u)       == {s \in Ids : Live(s) /\ session[s].user = u}
FamilyOf(f)     == {s \in Ids : Exists(s) /\ session[s].family = f}
OpenFamilies(u) == {session[s].family : s \in LiveOf(u)}

Usable(t)   == token[t] # None /\ token[t].state = "usable"
UsableOf(u) == {t \in Tokens : Usable(t) /\ token[t].user = u}

\* The next document to be inserted: its expiresAt is later than all others.
Fresh(n) == \A m \in Ids : Exists(m) <=> m < n

NewSession(u, f, proof) ==
    [user |-> u, family |-> f, revoked |-> None, next |-> None,
     compromised |-> FALSE, proof |-> proof]

\* Every revocation filters on revokedAt: null.
Revoked(S, reason) ==
    [s \in Ids |-> IF s \in S /\ Live(s) THEN [session[s] EXCEPT !.revoked = reason]
                                         ELSE session[s]]

\* authenticate: the account is active, and someone opened a session that is
\* live or that the password in force opened.
Authenticated(u) ==
    /\ account[u] = "active"
    /\ \E s \in Ids : Exists(s) /\ session[s].user = u
                      /\ (Live(s) \/ session[s].proof = password[u])

Receive(r, what) == request[r] = Idle /\ request' = [request EXCEPT ![r] = what]
Done(r)          == request' = [request EXCEPT ![r] = Idle]

\* The request is refused, fails, or its process dies.
Abandon(r) ==
    /\ request[r] # Idle
    /\ Done(r)
    /\ UNCHANGED <<account, password, session, token>>

-----------------------------------------------------------------------------
Init ==
    /\ account = [u \in Users |-> "active"]
    /\ password = [u \in Users |-> 0]
    /\ session = [s \in Ids |-> None]
    /\ token = [t \in Tokens |-> None]
    /\ request = [r \in Requests |-> Idle]

-----------------------------------------------------------------------------
(* Login.                                                                  *)

\* loginUser reads the account, and checks later the status it read here.
StartLogin(r, u) ==
    /\ account[u] = "active"
    /\ Receive(r, [kind |-> "login", user |-> u, proof |-> None])
    /\ UNCHANGED <<account, password, session, token>>

\* The identity is read and the password verified against its hash.
VerifyPassword(r) ==
    /\ request[r].kind = "login" /\ request[r].proof = None
    /\ request' = [request EXCEPT ![r].proof = password[request[r].user]]
    /\ UNCHANGED <<account, password, session, token>>

Verified(q) == q.proof # None

\* createInitialAuthSession: a family of its own, outside any transaction.
OpenSession(r, s) ==
    /\ request[r].kind = "login" /\ Verified(request[r])
    /\ Fresh(s)
    /\ session' = [session EXCEPT ![s] = NewSession(request[r].user, s, request[r].proof)]
    /\ Done(r)
    /\ UNCHANGED <<account, password, token>>

-----------------------------------------------------------------------------
(* Rotation and reuse.                                                     *)

\* Mutant of Consumable: the transaction trusts the read made before it.
ConsumableOnce(s) == Exists(s)

\* Mutant of Consumable: usedAt is in the filter, revokedAt is not.
ConsumableUnused(s) == Exists(s) /\ session[s].next = None

\* The filter of the write that consumes a session.
Consumable(s) == Live(s) /\ session[s].next = None /\ ~session[s].compromised

\* rotateAuthSession reads the session, then the status of its user.
StartRotation(r, s) ==
    /\ Consumable(s)
    /\ account[session[s].user] = "active"
    /\ Receive(r, [kind |-> "rotate", session |-> s])
    /\ UNCHANGED <<account, password, session, token>>

\* The transaction: the session is consumed and its successor inserted.
Rotate(r, n) ==
    /\ request[r].kind = "rotate"
    /\ LET s == request[r].session
       IN  /\ Consumable(s)
           /\ Fresh(n)
           /\ session' = [session EXCEPT
                            ![s].revoked = "rotated", ![s].next = n,
                            ![n] = NewSession(session[s].user, session[s].family,
                                              session[s].proof)]
    /\ Done(r)
    /\ UNCHANGED <<account, password, token>>

\* A token that was rotated before is presented again.
DetectReuse(r, s) ==
    /\ Exists(s) /\ ~session[s].compromised
    /\ session[s].revoked = "rotated" /\ session[s].next # None
    /\ Receive(r, [kind |-> "reuse", session |-> s])
    /\ UNCHANGED <<account, password, session, token>>

\* Mutant of Tainted: the generations that came before keep no mark.
TaintedLive(f) == {s \in FamilyOf(f) : Live(s)}

\* The generations marked by compromiseAuthSessionFamily.
Tainted(f) == FamilyOf(f)

\* compromiseAuthSessionFamily, in its own transaction.
Compromise(r) ==
    /\ request[r].kind = "reuse"
    /\ LET f == session[request[r].session].family
       IN  session' = [s \in Ids |->
                         IF s \in Tainted(f)
                         THEN [Revoked(FamilyOf(f), "reuse")[s] EXCEPT !.compromised = TRUE]
                         ELSE Revoked(FamilyOf(f), "reuse")[s]]
    /\ Done(r)
    /\ UNCHANGED <<account, password, token>>

\* revokeCurrentAuthSession: one conditional update, whatever the account.
Logout(s) ==
    /\ Live(s)
    /\ session' = Revoked({s}, "ended")
    /\ UNCHANGED <<account, password, token, request>>

-----------------------------------------------------------------------------
(* Revocation of every session of an account.                              *)

\* revokeAllUserAuthSessions within the transaction of its caller.
RevokeAll(u) == session' = Revoked(LiveOf(u), "ended")

\* revokeAllUserAuthSessions without a transaction: logoutAll, and the
\* administrator's revokePlatformUserSessions, which asks for no status.
StartLogoutAll(r, u) ==
    /\ LiveOf(u) # {}
    /\ Receive(r, [kind |-> "logout_all", user |-> u, families |-> OpenFamilies(u)])
    /\ UNCHANGED <<account, password, session, token>>

\* The documents ahead of the walk.  It follows the index on user, revokedAt
\* and expiresAt: what lies behind it is revoked already, and the successor of
\* a session it found rotated expires later, so it still lies ahead.
Remaining(q) == {s \in Ids : Live(s) /\ session[s].family \in q.families}

\* The updateMany comes to one more document; a login of the meantime may be
\* met too.
RevokeNext(r, s) ==
    /\ request[r].kind = "logout_all"
    /\ s \in LiveOf(request[r].user)
    /\ session' = Revoked({s}, "ended")
    /\ UNCHANGED <<account, password, token, request>>

FinishLogoutAll(r) ==
    /\ request[r].kind = "logout_all"
    /\ Remaining(request[r]) = {}
    /\ Done(r)
    /\ UNCHANGED <<account, password, session, token>>

\* disablePlatformUser and enablePlatformUser.
DisableUser(u) ==
    /\ account[u] = "active"
    /\ account' = [account EXCEPT ![u] = "disabled"]
    /\ RevokeAll(u)
    /\ UNCHANGED <<password, token, request>>

EnableUser(u) ==
    /\ account[u] = "disabled"
    /\ account' = [account EXCEPT ![u] = "active"]
    /\ UNCHANGED <<password, session, token, request>>

\* requestCurrentUserClosure, admitted by a session that may be revoked since:
\* its transaction asks for the status again.  No reset token is revoked.
CloseAccount(u) ==
    /\ account[u] = "active"
    /\ \E s \in Ids : Exists(s) /\ session[s].user = u
    /\ account' = [account EXCEPT ![u] = "closed"]
    /\ RevokeAll(u)
    /\ UNCHANGED <<password, token, request>>

-----------------------------------------------------------------------------
(* Password change.                                                        *)

StartChange(r, u) ==
    /\ Authenticated(u)
    /\ Receive(r, [kind |-> "change", user |-> u, proof |-> password[u]])
    /\ UNCHANGED <<account, password, session, token>>

\* Mutant of Unchanged: the hash is not part of the filter.
UnchangedIgnored(u, proof) == TRUE

\* The hash read before is part of the filter of the update.
Unchanged(u, proof) == password[u] = proof

\* The transaction of changeUserPassword.
ChangePassword(r) ==
    /\ request[r].kind = "change"
    /\ LET u == request[r].user
       IN  /\ account[u] = "active"
           /\ Unchanged(u, request[r].proof)
           /\ password[u] < MaxPassword
           /\ password' = [password EXCEPT ![u] = @ + 1]
           /\ RevokeAll(u)
    /\ Done(r)
    /\ UNCHANGED <<account, token>>

-----------------------------------------------------------------------------
(* Password reset.                                                         *)

\* forgotUserPassword reads the account, and its transaction begins.
StartForgot(r, u) ==
    /\ account[u] # "closed"
    /\ Receive(r, [kind |-> "forgot", user |-> u, seen |-> UsableOf(u)])
    /\ UNCHANGED <<account, password, session, token>>

\* The transaction begins later than the read of the account, or is retried on
\* a new snapshot because a token it writes was written by someone else.
TakeSnapshot(r) ==
    /\ request[r].kind = "forgot"
    /\ request[r].seen # UsableOf(request[r].user)
    /\ request' = [request EXCEPT ![r].seen = UsableOf(request[r].user)]
    /\ UNCHANGED <<account, password, session, token>>

\* createPasswordResetToken commits: the tokens it saw are revoked, one is
\* inserted, and its e-mail is on the way.
CreateResetToken(r, t) ==
    /\ request[r].kind = "forgot"
    /\ request[r].seen \subseteq UsableOf(request[r].user)
    /\ token[t] = None
    /\ token' = [x \in Tokens |->
                   IF x = t THEN [user |-> request[r].user, state |-> "usable"]
                   ELSE IF x \in request[r].seen THEN [token[x] EXCEPT !.state = "revoked"]
                   ELSE token[x]]
    /\ request' = [request EXCEPT ![r] = [kind |-> "mail", token |-> t]]
    /\ UNCHANGED <<account, password, session>>

\* The filter of revokePasswordResetToken.
Withdrawable(t) == Usable(t)

\* The e-mail failed: its token is withdrawn unless it was used or replaced.
CompensateForgot(r) ==
    /\ request[r].kind = "mail"
    /\ Withdrawable(request[r].token)
    /\ token' = [token EXCEPT ![request[r].token].state = "revoked"]
    /\ Done(r)
    /\ UNCHANGED <<account, password, session>>

\* resetUserPassword reads the token, the account and the hash.
StartReset(r, t) ==
    /\ Usable(t)
    /\ account[token[t].user] # "closed"
    /\ Receive(r, [kind |-> "reset", token |-> t, proof |-> password[token[t].user]])
    /\ UNCHANGED <<account, password, session, token>>

\* Its transaction: the token is consumed by a filter.
ResetPassword(r) ==
    /\ request[r].kind = "reset"
    /\ LET t == request[r].token
           u == token[t].user
       IN  /\ Usable(t)
           /\ Unchanged(u, request[r].proof)
           /\ account[u] # "closed"
           /\ password[u] < MaxPassword
           /\ token' = [token EXCEPT ![t].state = "used"]
           /\ password' = [password EXCEPT ![u] = @ + 1]
           /\ RevokeAll(u)
    /\ Done(r)
    /\ UNCHANGED account

-----------------------------------------------------------------------------
SessionNext ==
    \E r \in Requests :
        \/ \E u \in Users : StartLogin(r, u) \/ StartLogoutAll(r, u)
        \/ VerifyPassword(r) \/ Compromise(r) \/ FinishLogoutAll(r) \/ Abandon(r)
        \/ \E s \in Ids :
             \/ OpenSession(r, s) \/ StartRotation(r, s) \/ Rotate(r, s)
             \/ DetectReuse(r, s) \/ RevokeNext(r, s)

PasswordNext ==
    \E r \in Requests :
        \/ \E u \in Users : StartChange(r, u) \/ StartForgot(r, u)
        \/ ChangePassword(r) \/ TakeSnapshot(r) \/ CompensateForgot(r) \/ ResetPassword(r)
        \/ \E t \in Tokens : CreateResetToken(r, t) \/ StartReset(r, t)

AccountNext == \E u \in Users : DisableUser(u) \/ EnableUser(u) \/ CloseAccount(u)

LogoutNext == \E s \in Ids : Logout(s)

Next == SessionNext \/ LogoutNext \/ PasswordNext \/ AccountNext

Spec == Init /\ [][Next]_vars

-----------------------------------------------------------------------------
(* Safety.                                                                 *)

\* A login never forks: at most one generation of a family is live, and a
\* rotated one is followed by a later generation of the same family, whatever
\* refreshes of several tabs were in progress.
OneLiveGeneration ==
    /\ \A s, t \in Ids : Live(s) /\ Live(t) /\ session[s].family = session[t].family => s = t
    /\ \A s \in Ids : Exists(s) /\ session[s].next # None =>
         /\ session[s].next > s
         /\ Exists(session[s].next)
         /\ session[session[s].next].family = session[s].family

\* A family is compromised as a whole: once a reuse was detected in it no
\* generation is live or unmarked, even one whose insertion was in progress.
CompromisedWhole ==
    \A s, t \in Ids :
        Exists(s) /\ Exists(t) /\ session[s].family = session[t].family
        /\ session[s].compromised => session[t].compromised /\ ~Live(t)

-----------------------------------------------------------------------------
(* Action properties.                                                      *)

\* The first reason of a revocation, the successor of a rotated session and
\* the answer given to a reset token are history: no concurrent revocation or
\* compensation rewrites them (the detection of a reuse reads them).
HistoryKept ==
    [][/\ \A s \in Ids : Exists(s) /\ ~Live(s) =>
             session'[s].revoked = session[s].revoked /\ session'[s].next = session[s].next
       /\ \A t \in Tokens : token[t] # None /\ token[t].state \in {"used", "revoked"} =>
             token'[t] = token[t]]_vars

\* A family that has no live session left, after a logout, a revocation of all
\* or a reuse, never has one again: no refresh in progress revives it.
NoRevival ==
    [][\A f \in Ids : FamilyOf(f) # {} /\ (\A s \in FamilyOf(f) : ~Live(s))
          => \A s \in FamilyOf(f)' : ~Live(s)']_vars

\* A password moves only by one request that proved the password in force at
\* that moment, or by a reset token that was usable until then and is spent
\* by it.
PasswordMoves ==
    [][\A u \in Users : password'[u] # password[u] =>
          \E r \in Requests :
             /\ request[r].kind \in {"change", "reset"} /\ request[r].proof = password[u]
             /\ request'[r] = Idle
             /\ request[r].kind = "reset" =>
                  /\ Usable(request[r].token)
                  /\ token'[request[r].token].state = "used"]_vars

-----------------------------------------------------------------------------
(* What a family of sessions is to its user: one login.                    *)

\* Two live generations at once, or a family marked in part, are no login.
Standing(f) ==
    LET family == FamilyOf(f)
        live   == {s \in family : Live(s)}
        marked == {s \in family : session[s].compromised}
    IN  IF family = {} THEN "none"
        ELSE IF marked = {} /\ live = {} THEN "ended"
        ELSE IF marked = {} /\ \E s \in live : live = {s} THEN "open"
        ELSE IF marked = family /\ live = {} THEN "compromised"
        ELSE "torn"

HoldersOf(f) == {session[s].user : s \in FamilyOf(f)}

Login == INSTANCE LoginLife WITH
    Logins   <- Ids,
    standing <- [f \in Ids |-> Standing(f)],
    holders  <- [f \in Ids |-> HoldersOf(f)]

\* Whatever refreshes, detections and revocations are in progress, a family of
\* sessions is one login of one user: it rotates without a trace, ends once,
\* and neither a refresh nor a login brings it back.
FamiliesAreLogins == Login!Spec

=============================================================================
