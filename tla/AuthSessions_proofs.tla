-------------------------- MODULE AuthSessions_proofs --------------------------
(***************************************************************************)
(* TLAPS proofs about AuthSessions, for every set of accounts, of reset    *)
(* tokens and of requests in progress, and every bound.                    *)
(*                                                                         *)
(* A step changes the sessions in one of five ways (SessionStep): not at   *)
(* all, by opening one, by rotating one, by compromising a family or by    *)
(* revoking some.  What is proved of the sessions is proved way by way.    *)
(***************************************************************************)
EXTENDS AuthSessions, TLAPS

-----------------------------------------------------------------------------
(* Types.                                                                  *)

\* Revoking keeps the documents well formed.
LEMMA RevokedType ==
  ASSUME TypeOK, NEW S, NEW reason \in Revocations
  PROVE  /\ Revoked(S, reason) \in [Ids -> Session \cup {None}]
         /\ \A s \in Ids : Exists(s) => Revoked(S, reason)[s] \in Session
<1>1. \A s \in Ids : Live(s) => [session[s] EXCEPT !.revoked = reason] \in Session
  BY DEF TypeOK, Live, Exists, Session
<1>2. \A s \in Ids : Exists(s) => session[s] \in Session
  BY DEF TypeOK, Exists
<1> QED  BY <1>1, <1>2 DEF Revoked, TypeOK

\* So does the document a login or a rotation inserts.
LEMMA NewSessionType ==
  ASSUME NEW u \in Users, NEW f \in Ids, NEW proof \in Nat
  PROVE  NewSession(u, f, proof) \in Session
BY DEF NewSession, Session

\* What a request in progress holds, by its kind.
LEMMA RequestFields ==
  ASSUME TypeOK, NEW r \in Requests
  PROVE  /\ request[r].kind = "login" =>
              request[r] \in [kind : {"login"}, user : Users, proof : Nat \cup {None}]
         /\ request[r].kind \in {"rotate", "reuse"} => request[r].session \in Ids
         /\ request[r].kind \in {"logout_all", "change", "forgot"} => request[r].user \in Users
         /\ request[r].kind \in {"mail", "reset"} => request[r].token \in Tokens
         /\ request[r].kind = "forgot" =>
              request[r] \in [kind : {"forgot"}, user : Users, seen : SUBSET Tokens]
BY DEF TypeOK, Request, Idle

\* A request may be received or ended.
LEMMA RequestType ==
  ASSUME TypeOK, NEW r \in Requests, NEW what \in Request
  PROVE  /\ Receive(r, what) => request' \in [Requests -> Request]
         /\ Done(r) => request' \in [Requests -> Request]
BY DEF Receive, Done, TypeOK, Request, Idle

LEMMA InitType == Init => TypeOK
BY DEF Init, TypeOK, Request

LEMMA SessionType == TypeOK /\ SessionNext => TypeOK'
<1> SUFFICES ASSUME TypeOK, SessionNext PROVE TypeOK'
  OBVIOUS
<1> PICK r \in Requests :
      \/ \E u \in Users : StartLogin(r, u) \/ StartLogoutAll(r, u)
      \/ VerifyPassword(r) \/ Compromise(r) \/ FinishLogoutAll(r) \/ Abandon(r)
      \/ \E s \in Ids :
           \/ OpenSession(r, s) \/ StartRotation(r, s) \/ Rotate(r, s)
           \/ DetectReuse(r, s) \/ RevokeNext(r, s)
  BY DEF SessionNext
<1>1. ASSUME NEW u \in Users, StartLogin(r, u) PROVE TypeOK'
  <2>1. [kind |-> "login", user |-> u, proof |-> None] \in Request
    BY DEF Request
  <2> QED  BY <1>1, <2>1, RequestType DEF StartLogin, TypeOK
<1>2. ASSUME NEW u \in Users, StartLogoutAll(r, u) PROVE TypeOK'
  <2>1. \A s \in LiveOf(u) : session[s].family \in Ids
    BY DEF LiveOf, Live, Exists, TypeOK, Session
  <2>2. [kind |-> "logout_all", user |-> u, families |-> OpenFamilies(u)] \in Request
    BY <2>1 DEF Request, OpenFamilies
  <2> QED  BY <1>2, <2>2, RequestType DEF StartLogoutAll, TypeOK
<1>3. CASE VerifyPassword(r)
  <2>1. request[r] \in [kind : {"login"}, user : Users, proof : Nat \cup {None}]
    BY <1>3, RequestFields DEF VerifyPassword
  <2>2. password[request[r].user] \in Nat
    BY <2>1 DEF TypeOK
  <2>3. [request[r] EXCEPT !.proof = password[request[r].user]] \in Request
    BY <2>1, <2>2 DEF Request
  <2>4. request' \in [Requests -> Request]
    BY <1>3, <2>3 DEF VerifyPassword, TypeOK
  <2> QED  BY <1>3, <2>4 DEF VerifyPassword, TypeOK
<1>4. CASE Compromise(r)
  <2> DEFINE f == session[request[r].session].family
  <2> DEFINE R == Revoked(FamilyOf(f), "reuse")
  <2> HIDE DEF f
  <2>1. R \in [Ids -> Session \cup {None}]
    BY RevokedType DEF Revocations
  <2>2. \A s \in FamilyOf(f) : R[s] \in Session
    BY RevokedType DEF FamilyOf, Revocations
  <2> HIDE DEF R
  <2>3. \A s \in FamilyOf(f) : [R[s] EXCEPT !.compromised = TRUE] \in Session
    BY <2>2 DEF Session
  <2>4. session' = [s \in Ids |-> IF s \in FamilyOf(f)
                                  THEN [R[s] EXCEPT !.compromised = TRUE] ELSE R[s]]
    BY <1>4 DEF Compromise, Tainted, f, R
  <2>5. session' \in [Ids -> Session \cup {None}]
    BY <2>1, <2>3, <2>4
  <2>6. request' \in [Requests -> Request]
    BY <1>4, RequestType DEF Compromise, Request
  <2> QED  BY <1>4, <2>5, <2>6 DEF Compromise, TypeOK
<1>5. CASE FinishLogoutAll(r) \/ Abandon(r)
  <2>1. request' \in [Requests -> Request]
    BY <1>5, RequestType DEF FinishLogoutAll, Abandon, Request
  <2> QED  BY <1>5, <2>1 DEF FinishLogoutAll, Abandon, TypeOK
<1>6. ASSUME NEW s \in Ids, OpenSession(r, s) PROVE TypeOK'
  <2>1. request[r] \in [kind : {"login"}, user : Users, proof : Nat]
    BY <1>6, RequestFields DEF OpenSession, Verified
  <2>2. NewSession(request[r].user, s, request[r].proof) \in Session
    BY <2>1, NewSessionType
  <2>3. session' \in [Ids -> Session \cup {None}]
    BY <1>6, <2>2 DEF OpenSession, TypeOK
  <2>4. request' \in [Requests -> Request]
    BY <1>6, RequestType DEF OpenSession, Request
  <2> QED  BY <1>6, <2>3, <2>4 DEF OpenSession, TypeOK
<1>7. ASSUME NEW s \in Ids, StartRotation(r, s) \/ DetectReuse(r, s) PROVE TypeOK'
  <2>1. \A k \in {"rotate", "reuse"} : [kind |-> k, session |-> s] \in Request
    BY DEF Request
  <2>2. request' \in [Requests -> Request]
    BY <1>7, <2>1, RequestType DEF StartRotation, DetectReuse
  <2> QED  BY <1>7, <2>2 DEF StartRotation, DetectReuse, TypeOK
<1>8. ASSUME NEW n \in Ids, Rotate(r, n) PROVE TypeOK'
  <2> DEFINE s == request[r].session
  <2>1. s \in Ids /\ session[s] \in Session
    BY <1>8, RequestFields DEF Rotate, Consumable, Live, Exists, TypeOK
  <2> HIDE DEF s
  <2>2. NewSession(session[s].user, session[s].family, session[s].proof) \in Session
    BY <2>1, NewSessionType DEF Session
  <2>3. [[session[s] EXCEPT !.revoked = "rotated"] EXCEPT !.next = n] \in Session
    BY <2>1 DEF Session, Revocations
  <2>4. session' = [session EXCEPT
                      ![s].revoked = "rotated", ![s].next = n,
                      ![n] = NewSession(session[s].user, session[s].family, session[s].proof)]
    BY <1>8 DEF Rotate, s
  <2>5. session' \in [Ids -> Session \cup {None}]
    BY <2>1, <2>2, <2>3, <2>4 DEF TypeOK
  <2>6. request' \in [Requests -> Request]
    BY <1>8, RequestType DEF Rotate, Request
  <2> QED  BY <1>8, <2>5, <2>6 DEF Rotate, TypeOK
<1>9. ASSUME NEW s \in Ids, RevokeNext(r, s) PROVE TypeOK'
  <2>1. session' \in [Ids -> Session \cup {None}]
    BY <1>9, RevokedType DEF RevokeNext, Revocations
  <2> QED  BY <1>9, <2>1 DEF RevokeNext, TypeOK
<1> QED  BY <1>1, <1>2, <1>3, <1>4, <1>5, <1>6, <1>7, <1>8, <1>9

LEMMA LogoutType == TypeOK /\ LogoutNext => TypeOK'
<1> SUFFICES ASSUME TypeOK, NEW s \in Ids, Logout(s) PROVE TypeOK'
  BY DEF LogoutNext
<1>1. session' \in [Ids -> Session \cup {None}]
  BY RevokedType DEF Logout, Revocations
<1> QED  BY <1>1 DEF Logout, TypeOK

LEMMA AccountType == TypeOK /\ AccountNext => TypeOK'
<1> SUFFICES ASSUME TypeOK, NEW u \in Users,
                    DisableUser(u) \/ EnableUser(u) \/ CloseAccount(u)
             PROVE  TypeOK'
  BY DEF AccountNext
<1>1. session' \in [Ids -> Session \cup {None}]
  BY RevokedType DEF DisableUser, EnableUser, CloseAccount, RevokeAll, Revocations, TypeOK
<1> QED  BY <1>1 DEF DisableUser, EnableUser, CloseAccount, TypeOK

\* A password moved is still a number of changes.
LEMMA MovedType ==
  ASSUME TypeOK, NEW u, password' = [password EXCEPT ![u] = @ + 1]
  PROVE  password' \in [Users -> Nat]
<1>1. \A x \in Users : password[x] + 1 \in Nat
  BY DEF TypeOK
<1> QED  BY <1>1 DEF TypeOK

LEMMA PasswordType == TypeOK /\ PasswordNext => TypeOK'
<1> SUFFICES ASSUME TypeOK, PasswordNext PROVE TypeOK'
  OBVIOUS
<1> PICK r \in Requests :
      \/ \E u \in Users : StartChange(r, u) \/ StartForgot(r, u)
      \/ ChangePassword(r) \/ TakeSnapshot(r) \/ CompensateForgot(r) \/ ResetPassword(r)
      \/ \E t \in Tokens : CreateResetToken(r, t) \/ StartReset(r, t)
  BY DEF PasswordNext
<1>1. ASSUME NEW u \in Users, StartChange(r, u) \/ StartForgot(r, u) PROVE TypeOK'
  <2>1. /\ [kind |-> "change", user |-> u, proof |-> password[u]] \in Request
        /\ [kind |-> "forgot", user |-> u, seen |-> UsableOf(u)] \in Request
    BY DEF Request, TypeOK, UsableOf
  <2>2. request' \in [Requests -> Request]
    BY <1>1, <2>1, RequestType DEF StartChange, StartForgot
  <2> QED  BY <1>1, <2>2 DEF StartChange, StartForgot, TypeOK
<1>2. CASE ChangePassword(r)
  <2>1. session' \in [Ids -> Session \cup {None}]
    BY <1>2, RevokedType DEF ChangePassword, RevokeAll, Revocations
  <2>2. request' \in [Requests -> Request]
    BY <1>2, RequestType DEF ChangePassword, Request
  <2>3. password' \in [Users -> Nat]
    BY <1>2, MovedType DEF ChangePassword
  <2> QED  BY <1>2, <2>1, <2>2, <2>3 DEF ChangePassword, TypeOK
<1>3. CASE TakeSnapshot(r)
  <2>1. request[r] \in [kind : {"forgot"}, user : Users, seen : SUBSET Tokens]
    BY <1>3, RequestFields DEF TakeSnapshot
  <2>2. [request[r] EXCEPT !.seen = UsableOf(request[r].user)] \in Request
    BY <2>1 DEF Request, UsableOf
  <2>3. request' \in [Requests -> Request]
    BY <1>3, <2>2 DEF TakeSnapshot, TypeOK
  <2> QED  BY <1>3, <2>3 DEF TakeSnapshot, TypeOK
<1>4. CASE CompensateForgot(r)
  <2>1. \A t \in Tokens : Usable(t) => [token[t] EXCEPT !.state = "revoked"] \in ResetToken
    BY DEF Usable, TypeOK, ResetToken
  <2>2. token' \in [Tokens -> ResetToken \cup {None}]
    BY <1>4, <2>1 DEF CompensateForgot, Withdrawable, TypeOK
  <2>3. request' \in [Requests -> Request]
    BY <1>4, RequestType DEF CompensateForgot, Request
  <2> QED  BY <1>4, <2>2, <2>3 DEF CompensateForgot, TypeOK
<1>5. CASE ResetPassword(r)
  <2>1. \A t \in Tokens : Usable(t) => [token[t] EXCEPT !.state = "used"] \in ResetToken
    BY DEF Usable, TypeOK, ResetToken
  <2>2. token' \in [Tokens -> ResetToken \cup {None}]
    BY <1>5, <2>1 DEF ResetPassword, TypeOK
  <2>3. session' \in [Ids -> Session \cup {None}]
    BY <1>5, RevokedType DEF ResetPassword, RevokeAll, Revocations
  <2>4. request' \in [Requests -> Request]
    BY <1>5, RequestType DEF ResetPassword, Request
  <2>5. password' \in [Users -> Nat]
    BY <1>5, MovedType DEF ResetPassword
  <2> QED  BY <1>5, <2>2, <2>3, <2>4, <2>5 DEF ResetPassword, TypeOK
<1>6. ASSUME NEW t \in Tokens, CreateResetToken(r, t) PROVE TypeOK'
  <2>1. request[r] \in [kind : {"forgot"}, user : Users, seen : SUBSET Tokens]
    BY <1>6, RequestFields DEF CreateResetToken
  <2>2. [user |-> request[r].user, state |-> "usable"] \in ResetToken
    BY <2>1 DEF ResetToken
  <2>3. \A x \in Tokens : x \in request[r].seen =>
          [token[x] EXCEPT !.state = "revoked"] \in ResetToken
    BY <1>6 DEF CreateResetToken, UsableOf, Usable, TypeOK, ResetToken
  <2>4. token' \in [Tokens -> ResetToken \cup {None}]
    BY <1>6, <2>2, <2>3 DEF CreateResetToken, TypeOK
  <2>5. [kind |-> "mail", token |-> t] \in Request
    BY DEF Request
  <2>6. request' \in [Requests -> Request]
    BY <1>6, <2>5 DEF CreateResetToken, TypeOK
  <2> QED  BY <1>6, <2>4, <2>6 DEF CreateResetToken, TypeOK
<1>7. ASSUME NEW t \in Tokens, StartReset(r, t) PROVE TypeOK'
  <2>1. token[t] \in ResetToken
    BY <1>7 DEF StartReset, Usable, TypeOK
  <2>2. [kind |-> "reset", token |-> t, proof |-> password[token[t].user]] \in Request
    BY <2>1 DEF Request, TypeOK, ResetToken
  <2>3. request' \in [Requests -> Request]
    BY <1>7, <2>2, RequestType DEF StartReset
  <2> QED  BY <1>7, <2>3 DEF StartReset, TypeOK
<1> QED  BY <1>1, <1>2, <1>3, <1>4, <1>5, <1>6, <1>7

LEMMA StepType == TypeOK /\ [Next]_vars => TypeOK'
<1>1. TypeOK /\ UNCHANGED vars => TypeOK'
  BY DEF TypeOK, vars
<1> QED  BY <1>1, SessionType, LogoutType, AccountType, PasswordType DEF Next

-----------------------------------------------------------------------------
(* The invariant.  Sessions are inserted in order and a login founds its    *)
(* family with its own identifier: a family is named by a document that     *)
(* exists, so no login ever joins one.                                      *)

FamilyFounded == \A s \in Ids : Exists(s) => Exists(session[s].family)

Inv == TypeOK /\ FamilyFounded /\ OneLiveGeneration /\ CompromisedWhole

\* The ways a step changes the sessions.
Withdraws ==
    \E u \in Users : \E S \in SUBSET LiveOf(u) : session' = Revoked(S, "ended")
Opens     == \E r \in Requests, s \in Ids : OpenSession(r, s)
Rotates   == \E r \in Requests, n \in Ids : Rotate(r, n)
Taints    == \E r \in Requests : Compromise(r)

SessionStep == session' = session \/ Withdraws \/ Opens \/ Rotates \/ Taints

LEMMA StepKinds == TypeOK /\ [Next]_vars => SessionStep
<1> SUFFICES ASSUME TypeOK, [Next]_vars PROVE SessionStep
  OBVIOUS
<1> USE DEF SessionStep
<1>1. \A u \in Users : \A s \in LiveOf(u) : {s} \in SUBSET LiveOf(u)
  OBVIOUS
<1>2. ASSUME NEW u \in Users, RevokeAll(u) PROVE Withdraws
  BY <1>2 DEF RevokeAll, Withdraws
<1>3. CASE SessionNext
  <2>1. ASSUME NEW r \in Requests, NEW s \in Ids, RevokeNext(r, s) PROVE Withdraws
    <3>1. request[r].user \in Users /\ {s} \in SUBSET LiveOf(request[r].user)
      BY <1>1, <2>1, RequestFields DEF RevokeNext
    <3> QED  BY <2>1, <3>1 DEF RevokeNext, Withdraws
  <2> QED
    BY <1>3, <2>1 DEF SessionNext, StartLogin, StartLogoutAll, VerifyPassword, FinishLogoutAll,
                      Abandon, StartRotation, DetectReuse, Opens, Rotates, Taints
<1>4. CASE LogoutNext
  <2>1. PICK s \in Ids : Logout(s)
    BY <1>4 DEF LogoutNext
  <2>2. session[s].user \in Users /\ {s} \in SUBSET LiveOf(session[s].user)
    BY <2>1 DEF Logout, LiveOf, Live, Exists, TypeOK, Session
  <2> QED  BY <2>1, <2>2 DEF Logout, Withdraws
<1>5. CASE PasswordNext
  <2>1. ASSUME NEW r \in Requests, ChangePassword(r) PROVE Withdraws
    BY <1>2, <2>1, RequestFields DEF ChangePassword
  <2>2. ASSUME NEW r \in Requests, ResetPassword(r) PROVE Withdraws
    <3>1. request[r].token \in Tokens
      BY <2>2, RequestFields DEF ResetPassword
    <3>2. token[request[r].token].user \in Users
      BY <2>2, <3>1 DEF ResetPassword, Usable, TypeOK, ResetToken
    <3> QED  BY <1>2, <2>2, <3>2 DEF ResetPassword
  <2> QED
    BY <1>5, <2>1, <2>2 DEF PasswordNext, StartChange, StartForgot, TakeSnapshot,
                            CompensateForgot, CreateResetToken, StartReset
<1>6. CASE AccountNext
  BY <1>2, <1>6 DEF AccountNext, DisableUser, EnableUser, CloseAccount
<1>7. CASE UNCHANGED vars
  BY <1>7 DEF vars
<1> QED  BY <1>3, <1>4, <1>5, <1>6, <1>7 DEF Next

\* Revoking changes the reason of live sessions, and nothing else.
LEMMA RevokedFields ==
  ASSUME TypeOK, NEW S, NEW reason \in Revocations, NEW s \in Ids
  PROVE  LET d == Revoked(S, reason)[s]
         IN  /\ d = None <=> session[s] = None
             /\ Exists(s) =>
                  /\ d.user = session[s].user /\ d.family = session[s].family
                  /\ d.next = session[s].next /\ d.compromised = session[s].compromised
                  /\ d.revoked = IF s \in S /\ Live(s) THEN reason ELSE session[s].revoked
<1>1. Exists(s) => session[s] \in Session /\ Revoked(S, reason)[s] \in Session
  BY RevokedType DEF TypeOK, Exists
<1>2. ~Exists(s) => Revoked(S, reason)[s] = None
  BY DEF Revoked, Exists, Live
<1>3. None \notin Session /\ None \notin Revocations
  BY NoneAssumption
<1>4. Exists(s) => /\ Revoked(S, reason)[s] # None
                   /\ session[s] # None
  BY <1>1, <1>3
<1>5. Exists(s) =>
        LET d == Revoked(S, reason)[s]
        IN  /\ d.user = session[s].user /\ d.family = session[s].family
            /\ d.next = session[s].next /\ d.compromised = session[s].compromised
            /\ d.revoked = IF s \in S /\ Live(s) THEN reason ELSE session[s].revoked
  BY <1>1 DEF Revoked, Session
<1> QED  BY <1>2, <1>4, <1>5 DEF Exists

\* What a revocation leaves of the sessions.
LEMMA WithdrawsEffect ==
  ASSUME TypeOK, Withdraws, NEW s \in Ids
  PROVE  /\ Exists(s)' <=> Exists(s)
         /\ Live(s)' => Live(s)
         /\ Exists(s) => /\ session'[s].user = session[s].user
                         /\ session'[s].family = session[s].family
                         /\ session'[s].next = session[s].next
                         /\ session'[s].compromised = session[s].compromised
                         /\ ~Live(s) => session'[s].revoked = session[s].revoked
<1> PICK u \in Users : \E S \in SUBSET LiveOf(u) : session' = Revoked(S, "ended")
  BY DEF Withdraws
<1> PICK S \in SUBSET LiveOf(u) : session' = Revoked(S, "ended")
  OBVIOUS
<1> "ended" \in Revocations /\ "ended" # None
  BY NoneAssumption DEF Revocations
<1> QED  BY RevokedFields DEF Exists, Live

\* What the detection of a reuse leaves of them: one family is marked and ended.
LEMMA TaintsEffect ==
  ASSUME TypeOK, Taints
  PROVE  \E f :
           \A s \in Ids :
             /\ Exists(s)' <=> Exists(s)
             /\ Live(s)' => Live(s)
             /\ Exists(s) =>
                  /\ session'[s].user = session[s].user
                  /\ session'[s].family = session[s].family
                  /\ session'[s].next = session[s].next
                  /\ ~Live(s) => session'[s].revoked = session[s].revoked
                  /\ session[s].family = f => ~Live(s)' /\ session'[s].compromised
                  /\ session[s].family # f => session'[s] = session[s]
<1> PICK r \in Requests : Compromise(r)
  BY DEF Taints
<1> DEFINE f == session[request[r].session].family
<1> HIDE DEF f
<1> DEFINE R == Revoked(FamilyOf(f), "reuse")
<1>1. session' = [s \in Ids |-> IF s \in FamilyOf(f)
                                THEN [R[s] EXCEPT !.compromised = TRUE] ELSE R[s]]
  BY DEF Compromise, Tainted, f
<1>2. \A s \in Ids : Exists(s) => R[s] \in Session
  BY RevokedType DEF Revocations
<1>3. \A s \in Ids :
        /\ R[s] = None <=> session[s] = None
        /\ Exists(s) => /\ R[s].user = session[s].user
                        /\ R[s].family = session[s].family /\ R[s].next = session[s].next
                        /\ R[s].revoked = IF s \in FamilyOf(f) /\ Live(s)
                                          THEN "reuse" ELSE session[s].revoked
  BY RevokedFields DEF Revocations
<1>4. \A s \in Ids : s \notin FamilyOf(f) => R[s] = session[s]
  BY DEF Revoked, TypeOK
<1>5. "reuse" # None /\ None \notin Session
  BY NoneAssumption DEF Revocations
<1> HIDE DEF R
<1>6. ASSUME NEW s \in Ids, s \in FamilyOf(f)
      PROVE  /\ Exists(s) /\ Exists(s)' /\ ~Live(s)' /\ session'[s].compromised
             /\ session'[s].user = session[s].user
             /\ session'[s].family = session[s].family /\ session'[s].next = session[s].next
             /\ ~Live(s) => session'[s].revoked = session[s].revoked
  <2>1. Exists(s)
    BY <1>6 DEF FamilyOf
  <2>2. session'[s] = [R[s] EXCEPT !.compromised = TRUE]
    BY <1>1, <1>6
  <2>3. /\ session'[s] \in Session /\ session'[s].compromised
        /\ session'[s].user = R[s].user
        /\ session'[s].family = R[s].family /\ session'[s].next = R[s].next
        /\ session'[s].revoked = R[s].revoked
    BY <1>2, <2>1, <2>2 DEF Session
  <2> QED  BY <1>3, <1>5, <1>6, <2>1, <2>3 DEF Exists, Live
<1>7. ASSUME NEW s \in Ids, s \notin FamilyOf(f)
      PROVE  session'[s] = session[s] /\ (Exists(s) => session[s].family # f)
  BY <1>1, <1>4, <1>7 DEF FamilyOf
<1>8. \A s \in Ids : s \in FamilyOf(f) <=> Exists(s) /\ session[s].family = f
  BY DEF FamilyOf
<1> QED  BY <1>6, <1>7, <1>8 DEF Exists, Live

\* A login inserts the first session of a new family.
LEMMA OpensEffect ==
  ASSUME TypeOK, Opens
  PROVE  \E n \in Ids :
           /\ Fresh(n)
           /\ Exists(n)' /\ session'[n].family = n /\ session'[n].next = None
           /\ ~session'[n].compromised /\ Live(n)' /\ session'[n].user \in Users
           /\ \A s \in Ids : s # n => session'[s] = session[s]
<1> PICK r \in Requests, n \in Ids : OpenSession(r, n)
  BY DEF Opens
<1>1. session' = [session EXCEPT ![n] = NewSession(request[r].user, n, request[r].proof)]
  BY DEF OpenSession
<1>2. NewSession(request[r].user, n, request[r].proof) \in Session
  <2>1. request[r] \in [kind : {"login"}, user : Users, proof : Nat]
    BY RequestFields DEF OpenSession, Verified
  <2> QED  BY <2>1, NewSessionType
<1>3. session'[n] = NewSession(request[r].user, n, request[r].proof)
  BY <1>1 DEF TypeOK
<1>4. Exists(n)'
  BY <1>2, <1>3, NoneAssumption DEF Exists
<1>5. session'[n].user \in Users
  BY <1>2, <1>3 DEF Session
<1> QED  BY <1>1, <1>3, <1>4, <1>5 DEF OpenSession, NewSession, TypeOK, Live

\* A rotation consumes a live session and inserts its successor.
LEMMA RotatesEffect ==
  ASSUME TypeOK, Rotates
  PROVE  \E s, n \in Ids :
           /\ Fresh(n) /\ Live(s) /\ ~session[s].compromised /\ session[s].next = None
           /\ Exists(s)' /\ ~Live(s)' /\ session'[s].family = session[s].family
           /\ session'[s].next = n /\ ~session'[s].compromised
           /\ session'[s].user = session[s].user /\ session'[n].user = session[s].user
           /\ Exists(n)' /\ Live(n)' /\ session'[n].family = session[s].family
           /\ session'[n].next = None /\ ~session'[n].compromised
           /\ \A m \in Ids : m # s /\ m # n => session'[m] = session[m]
<1> PICK r \in Requests, n \in Ids : Rotate(r, n)
  BY DEF Rotates
<1>1. request[r].session \in Ids
  BY RequestFields DEF Rotate
<1> PICK s \in Ids : s = request[r].session
  BY <1>1
<1>2. /\ Consumable(s) /\ Fresh(n)
      /\ session' = [session EXCEPT
                       ![s].revoked = "rotated", ![s].next = n,
                       ![n] = NewSession(session[s].user, session[s].family, session[s].proof)]
  BY DEF Rotate
<1>3. session[s] \in Session /\ s # n
  BY <1>2, ConstantsAssumption DEF Consumable, Live, Exists, Fresh, TypeOK, Ids
<1>4. session'[s] = [[session[s] EXCEPT !.revoked = "rotated"] EXCEPT !.next = n]
  BY <1>2, <1>3 DEF TypeOK
<1>5. session'[n] = NewSession(session[s].user, session[s].family, session[s].proof)
  BY <1>2, <1>3 DEF TypeOK
<1>6. \A m \in Ids : m # s /\ m # n => session'[m] = session[m]
  BY <1>2 DEF TypeOK
<1>7. session'[n] \in Session
  <2>1. session[s].user \in Users /\ session[s].family \in Ids /\ session[s].proof \in Nat
    BY <1>3 DEF Session
  <2> QED  BY <1>5, <2>1, NewSessionType
<1>8. /\ session'[s] \in Session /\ session'[s].revoked = "rotated"
      /\ session'[s].family = session[s].family /\ session'[s].next = n
      /\ session'[s].compromised = session[s].compromised
      /\ session'[s].user = session[s].user
  BY <1>3, <1>4 DEF Session, Revocations
<1>9. "rotated" # None /\ None \notin Session
  BY NoneAssumption DEF Revocations
<1>10. Exists(s)' /\ ~Live(s)' /\ Exists(n)'
  BY <1>7, <1>8, <1>9 DEF Exists, Live
<1>11. /\ session'[n].family = session[s].family /\ session'[n].user = session[s].user
       /\ session'[n].next = None /\ ~session'[n].compromised
       /\ session'[n].revoked = None
  BY <1>5 DEF NewSession
<1>12. Live(s) /\ session[s].next = None /\ ~session[s].compromised
  BY <1>2 DEF Consumable
<1> WITNESS s \in Ids, n \in Ids
<1> QED  BY <1>2, <1>6, <1>8, <1>10, <1>11, <1>12 DEF Live

LEMMA FoundedStep == Inv /\ SessionStep => FamilyFounded'
<1> SUFFICES ASSUME Inv, SessionStep PROVE FamilyFounded'
  OBVIOUS
<1> USE DEF Inv, FamilyFounded
<1>0. \A s \in Ids : Exists(s) => session[s].family \in Ids
  BY DEF TypeOK, Session, Exists
<1>1. CASE session' = session
  BY <1>1 DEF Exists
<1>2. CASE Withdraws
  BY <1>0, <1>2, WithdrawsEffect
<1>3. CASE Opens
  BY <1>0, <1>3, OpensEffect DEF Exists
<1>4. CASE Rotates
  BY <1>0, <1>4, RotatesEffect DEF Exists, Live
<1>5. CASE Taints
  BY <1>0, <1>5, TaintsEffect
<1> QED  BY <1>1, <1>2, <1>3, <1>4, <1>5 DEF SessionStep

LEMMA OneLiveStep == Inv /\ SessionStep => OneLiveGeneration'
<1> SUFFICES ASSUME Inv, SessionStep PROVE OneLiveGeneration'
  OBVIOUS
<1> USE DEF Inv, OneLiveGeneration
<1>0. \A s \in Ids : Exists(s) =>
         session[s].family \in Ids /\ session[s].next \in Ids \cup {None}
  BY DEF TypeOK, Session, Exists
<1>1. CASE session' = session
  BY <1>1 DEF Exists, Live
<1>2. CASE Withdraws
  BY <1>0, <1>2, WithdrawsEffect DEF Live
<1>3. CASE Opens
  <2> PICK n \in Ids :
        /\ Fresh(n)
        /\ Exists(n)' /\ session'[n].family = n /\ session'[n].next = None
        /\ \A s \in Ids : s # n => session'[s] = session[s]
    BY <1>3, OpensEffect
  <2>1. ~Exists(n)
    BY ConstantsAssumption DEF Fresh, Ids
  <2>2. \A s \in Ids : Exists(s) => session[s].family # n
    BY <2>1 DEF FamilyFounded
  <2> QED  BY <1>0, <2>1, <2>2 DEF Exists, Live
<1>4. CASE Rotates
  <2> PICK s, n \in Ids :
        /\ Fresh(n) /\ Live(s)
        /\ Exists(s)' /\ ~Live(s)' /\ session'[s].family = session[s].family
        /\ session'[s].next = n
        /\ Exists(n)' /\ session'[n].family = session[s].family /\ session'[n].next = None
        /\ \A m \in Ids : m # s /\ m # n => session'[m] = session[m]
    BY <1>4, RotatesEffect
  <2>1. ~Exists(n) /\ s < n
    BY ConstantsAssumption DEF Fresh, Ids, Live
  <2>2. \A x, y \in Ids : Live(x)' /\ Live(y)' /\ (session[x].family = session[y].family)'
                          => x = y
    BY <2>1 DEF Exists, Live
  <2>3. \A x \in Ids : Exists(x)' /\ session'[x].next # None =>
           \E y \in Ids : /\ y = session'[x].next /\ y > x /\ Exists(y)'
                          /\ session'[y].family = session'[x].family
    <3> SUFFICES ASSUME NEW x \in Ids, Exists(x)', session'[x].next # None
                 PROVE  \E y \in Ids : /\ y = session'[x].next /\ y > x /\ Exists(y)'
                                       /\ session'[y].family = session'[x].family
      OBVIOUS
    <3>1. CASE x = s
      BY <2>1, <3>1
    <3>2. CASE x # s
      <4>1. x # n /\ session'[x] = session[x] /\ Exists(x)
        BY <3>2 DEF Exists
      <4>2. PICK y \in Ids : y = session[x].next /\ y > x /\ Exists(y)
                             /\ session[y].family = session[x].family
        BY <1>0, <4>1
      <4>3. y # n
        BY <2>1, <4>2
      <4>4. Exists(y)' /\ session'[y].family = session[y].family
        BY <4>2, <4>3 DEF Exists
      <4> QED  BY <4>1, <4>2, <4>4
    <3> QED  BY <3>1, <3>2
  <2> QED  BY <2>2, <2>3 DEF Exists
<1>5. CASE Taints
  BY <1>0, <1>5, TaintsEffect DEF Live
<1> QED  BY <1>1, <1>2, <1>3, <1>4, <1>5 DEF SessionStep

LEMMA CompromisedStep == Inv /\ SessionStep => CompromisedWhole'
<1> SUFFICES ASSUME Inv, SessionStep PROVE CompromisedWhole'
  OBVIOUS
<1> USE DEF Inv, CompromisedWhole
<1>1. CASE session' = session
  BY <1>1 DEF Exists, Live
<1>2. CASE Withdraws
  BY <1>2, WithdrawsEffect
<1>3. CASE Opens
  <2> PICK n \in Ids :
        /\ Fresh(n)
        /\ Exists(n)' /\ session'[n].family = n /\ ~session'[n].compromised
        /\ \A s \in Ids : s # n => session'[s] = session[s]
    BY <1>3, OpensEffect
  <2>1. ~Exists(n)
    BY ConstantsAssumption DEF Fresh, Ids
  <2>2. \A s \in Ids : Exists(s) => session[s].family # n
    BY <2>1 DEF FamilyFounded
  <2> QED  BY <2>2 DEF Exists, Live
<1>4. CASE Rotates
  <2> PICK s, n \in Ids :
        /\ Live(s) /\ Exists(s)' /\ session'[s].family = session[s].family
        /\ ~session[s].compromised /\ ~session'[s].compromised
        /\ Exists(n)' /\ session'[n].family = session[s].family /\ ~session'[n].compromised
        /\ \A m \in Ids : m # s /\ m # n => session'[m] = session[m]
    BY <1>4, RotatesEffect
  <2>1. \A m \in Ids : Exists(m) /\ session[m].family = session[s].family
                       => ~session[m].compromised
    BY DEF Live
  <2> QED  BY <2>1 DEF Exists, Live
<1>5. CASE Taints
  BY <1>5, TaintsEffect
<1> QED  BY <1>1, <1>2, <1>3, <1>4, <1>5 DEF SessionStep

-----------------------------------------------------------------------------
(* The theorems.                                                           *)

\* Inv holds at the start and every step of every request keeps it.
THEOREM Inductive == (Init => Inv) /\ (Inv /\ [Next]_vars => Inv')
<1>1. Init => Inv
  BY InitType DEF Init, Inv, FamilyFounded, OneLiveGeneration, CompromisedWhole, Exists, Live
<1>2. Inv /\ [Next]_vars => Inv'
  BY StepType, StepKinds, FoundedStep, OneLiveStep, CompromisedStep DEF Inv
<1> QED  BY <1>1, <1>2

\* Inv holds in every state of every behaviour.
THEOREM Invariance == Spec => []Inv
BY Inductive, PTL DEF Spec

\* The documents and what requests have read keep their types.
THEOREM TypeCorrect == Spec => []TypeOK
<1>1. Inv => TypeOK
  BY DEF Inv
<1> QED  BY Invariance, <1>1, PTL

\* A login never forks, for any number of refreshes in progress at once
\* (rotateAuthSession).
THEOREM NoFork == Spec => []OneLiveGeneration
<1>1. Inv => OneLiveGeneration
  BY DEF Inv
<1> QED  BY Invariance, <1>1, PTL

\* A family in which a reuse was detected is ended and marked as a whole
\* (compromiseAuthSessionFamily).
THEOREM WholeFamily == Spec => []CompromisedWhole
<1>1. Inv => CompromisedWhole
  BY DEF Inv
<1> QED  BY Invariance, <1>1, PTL

\* No step brings back to life a family whose last session was revoked
\* (rotateAuthSession against logout, revokeAllUserAuthSessions and reuse).
THEOREM NeverRevived == Spec => NoRevival
<1>1. Inv /\ [Next]_vars =>
        [\A f \in Ids : FamilyOf(f) # {} /\ (\A s \in FamilyOf(f) : ~Live(s))
          => \A s \in FamilyOf(f)' : ~Live(s)']_vars
  <2> SUFFICES ASSUME Inv, SessionStep, NEW f \in Ids,
                      FamilyOf(f) # {}, \A s \in FamilyOf(f) : ~Live(s),
                      NEW x \in Ids, Exists(x)', session'[x].family = f
               PROVE  ~Live(x)'
    BY StepKinds DEF FamilyOf, Inv
  <2> \A s \in Ids : Exists(s) /\ session[s].family = f => ~Live(s)
    BY DEF FamilyOf
  <2>0. Exists(f)
    BY DEF Inv, FamilyFounded, FamilyOf
  <2>1. CASE session' = session
    BY <2>1 DEF Exists, Live
  <2>2. CASE Withdraws
    BY <2>2, WithdrawsEffect DEF Inv
  <2>3. CASE Opens
    <3> PICK n \in Ids : Fresh(n) /\ session'[n].family = n
                         /\ \A s \in Ids : s # n => session'[s] = session[s]
      BY <2>3, OpensEffect DEF Inv
    <3>1. n # f
      BY <2>0, ConstantsAssumption DEF Fresh, Ids
    <3> QED  BY <3>1 DEF Exists, Live
  <2>4. CASE Rotates
    BY <2>4, RotatesEffect DEF Inv, Exists, Live
  <2>5. CASE Taints
    BY <2>5, TaintsEffect DEF Inv
  <2> QED  BY <2>1, <2>2, <2>3, <2>4, <2>5 DEF SessionStep
<1> QED  BY Invariance, <1>1, PTL DEF Spec, NoRevival

\* A reset token that was answered is never written again.
LEMMA TokensKept ==
  ASSUME TypeOK, [Next]_vars, NEW t \in Tokens,
         token[t] # None, token[t].state \in {"used", "revoked"}
  PROVE  token'[t] = token[t]
<1>1. ~Usable(t)
  BY DEF Usable
<1>2. CASE PasswordNext
  <2> PICK r \in Requests :
        \/ \E u \in Users : StartChange(r, u) \/ StartForgot(r, u)
        \/ ChangePassword(r) \/ TakeSnapshot(r) \/ CompensateForgot(r) \/ ResetPassword(r)
        \/ \E x \in Tokens : CreateResetToken(r, x) \/ StartReset(r, x)
    BY <1>2 DEF PasswordNext
  <2>1. CASE CompensateForgot(r)
    BY <1>1, <2>1 DEF CompensateForgot, Withdrawable, TypeOK
  <2>2. CASE ResetPassword(r)
    BY <1>1, <2>2 DEF ResetPassword, TypeOK
  <2>3. ASSUME NEW x \in Tokens, CreateResetToken(r, x) PROVE token'[t] = token[t]
    BY <1>1, <2>3 DEF CreateResetToken, UsableOf
  <2> QED  BY <2>1, <2>2, <2>3 DEF StartChange, StartForgot, ChangePassword, TakeSnapshot, StartReset
<1>3. CASE SessionNext
  BY <1>3 DEF SessionNext, StartLogin, StartLogoutAll, VerifyPassword, Compromise, FinishLogoutAll,
              Abandon, OpenSession, StartRotation, Rotate, DetectReuse, RevokeNext
<1>4. CASE LogoutNext \/ AccountNext \/ UNCHANGED vars
  BY <1>4 DEF LogoutNext, Logout, AccountNext, DisableUser, EnableUser, CloseAccount, vars
<1> QED  BY <1>2, <1>3, <1>4 DEF Next

\* No step changes the reason or the successor of a revoked session.
LEMMA SessionsKept ==
  ASSUME Inv, SessionStep, NEW s \in Ids, Exists(s), ~Live(s)
  PROVE  session'[s].revoked = session[s].revoked /\ session'[s].next = session[s].next
<1>1. CASE Withdraws
  BY <1>1, WithdrawsEffect DEF Inv
<1>2. CASE Opens
  <2> PICK n \in Ids : Fresh(n) /\ \A m \in Ids : m # n => session'[m] = session[m]
    BY <1>2, OpensEffect DEF Inv
  <2> QED  BY ConstantsAssumption DEF Fresh, Ids
<1>3. CASE Rotates
  <2> PICK x, n \in Ids :
        Fresh(n) /\ Live(x) /\ \A m \in Ids : m # x /\ m # n => session'[m] = session[m]
    BY <1>3, RotatesEffect DEF Inv
  <2> QED  BY ConstantsAssumption DEF Fresh, Ids
<1>4. CASE Taints
  BY <1>4, TaintsEffect DEF Inv
<1> QED  BY <1>1, <1>2, <1>3, <1>4 DEF SessionStep

\* What ended a session and what answered a reset token is never rewritten.
THEOREM HistoryNeverRewritten == Spec => HistoryKept
<1>1. Inv /\ [Next]_vars =>
        [/\ \A s \in Ids : Exists(s) /\ ~Live(s) =>
              session'[s].revoked = session[s].revoked /\ session'[s].next = session[s].next
         /\ \A t \in Tokens : token[t] # None /\ token[t].state \in {"used", "revoked"} =>
              token'[t] = token[t]]_vars
  BY StepKinds, SessionsKept, TokensKept DEF Inv
<1> QED  BY Invariance, <1>1, PTL DEF Spec, HistoryKept

\* A password is moved by the holder of the password in force or of a usable
\* reset token (changeUserPassword, resetUserPassword).
THEOREM PasswordMovedByProof == Spec => PasswordMoves
<1>1. Inv /\ [Next]_vars =>
        [\A u \in Users : password'[u] # password[u] =>
          \E r \in Requests :
             /\ request[r].kind \in {"change", "reset"} /\ request[r].proof = password[u]
             /\ request'[r] = Idle
             /\ request[r].kind = "reset" =>
                  /\ Usable(request[r].token)
                  /\ token'[request[r].token].state = "used"]_vars
  <2> SUFFICES ASSUME Inv, [Next]_vars, NEW u \in Users, password'[u] # password[u]
               PROVE  \E r \in Requests :
                        /\ request[r].kind \in {"change", "reset"}
                        /\ request[r].proof = password[u]
                        /\ request'[r] = Idle
                        /\ request[r].kind = "reset" =>
                             /\ Usable(request[r].token)
                             /\ token'[request[r].token].state = "used"
    OBVIOUS
  <2>1. \E r \in Requests : ChangePassword(r) \/ ResetPassword(r)
    <3>1. CASE SessionNext
      BY <3>1 DEF SessionNext, StartLogin, StartLogoutAll, VerifyPassword, Compromise, Abandon,
                  FinishLogoutAll, OpenSession, StartRotation, Rotate, DetectReuse, RevokeNext
    <3>2. CASE PasswordNext
      BY <3>2 DEF PasswordNext, StartChange, StartForgot, TakeSnapshot, CompensateForgot,
                  CreateResetToken, StartReset
    <3>3. CASE LogoutNext \/ AccountNext \/ UNCHANGED vars
      BY <3>3 DEF LogoutNext, Logout, AccountNext, DisableUser, EnableUser, CloseAccount, vars
    <3> QED  BY <3>1, <3>2, <3>3 DEF Next
  <2> PICK r \in Requests : ChangePassword(r) \/ ResetPassword(r)
    BY <2>1
  <2> request'[r] = Idle
    BY DEF ChangePassword, ResetPassword, Done, Inv, TypeOK
  <2>2. CASE ChangePassword(r)
    BY <2>2 DEF ChangePassword, Unchanged, Inv, TypeOK
  <2>3. CASE ResetPassword(r)
    <3>1. request[r].token \in Tokens /\ token[request[r].token] \in ResetToken
      BY <2>3, RequestFields DEF ResetPassword, Usable, Inv, TypeOK
    <3>2. token'[request[r].token] = [token[request[r].token] EXCEPT !.state = "used"]
      BY <2>3, <3>1 DEF ResetPassword, Inv, TypeOK
    <3>3. token'[request[r].token].state = "used"
      BY <3>1, <3>2 DEF ResetToken
    <3> QED  BY <2>3, <3>3 DEF ResetPassword, Unchanged, Inv, TypeOK
  <2> QED  BY <2>2, <2>3
<1> QED  BY Invariance, <1>1, PTL DEF Spec, PasswordMoves

-----------------------------------------------------------------------------
(* A family of sessions is one login.                                      *)

\* Where a login stands, read on any of the sessions of its family.
LEMMA StandingIs ==
  ASSUME Inv, NEW f \in Ids
  PROVE  /\ FamilyOf(f) = {} => Standing(f) = "none"
         /\ \A s \in FamilyOf(f) :
              /\ session[s].compromised => Standing(f) = "compromised"
              /\ Live(s) => Standing(f) = "open"
         /\ FamilyOf(f) # {} /\ (\A s \in FamilyOf(f) : ~Live(s) /\ ~session[s].compromised)
              => Standing(f) = "ended"
<1> DEFINE live   == {s \in FamilyOf(f) : Live(s)}
           marked == {s \in FamilyOf(f) : session[s].compromised}
<1>1. ASSUME NEW s \in FamilyOf(f), session[s].compromised
      PROVE  marked = FamilyOf(f) /\ live = {} /\ marked # {}
  BY <1>1 DEF Inv, CompromisedWhole, FamilyOf
<1>2. ASSUME NEW s \in FamilyOf(f), Live(s) PROVE live = {s} /\ marked = {}
  BY <1>2 DEF Inv, CompromisedWhole, OneLiveGeneration, FamilyOf
<1> QED  BY <1>1, <1>2 DEF Standing

\* The same of the next state.
LEMMA StandingThen ==
  ASSUME Inv', NEW f \in Ids
  PROVE  /\ FamilyOf(f)' = {} => Standing(f)' = "none"
         /\ \A s \in FamilyOf(f)' :
              /\ session'[s].compromised => Standing(f)' = "compromised"
              /\ Live(s)' => Standing(f)' = "open"
         /\ FamilyOf(f)' # {} /\ (\A s \in FamilyOf(f)' : ~Live(s)' /\ ~session'[s].compromised)
              => Standing(f)' = "ended"
<1> DEFINE live   == {s \in FamilyOf(f)' : Live(s)'}
           marked == {s \in FamilyOf(f)' : session'[s].compromised}
<1>1. ASSUME NEW s \in FamilyOf(f)', session'[s].compromised
      PROVE  marked = FamilyOf(f)' /\ live = {} /\ marked # {}
  BY <1>1 DEF Inv, CompromisedWhole, FamilyOf
<1>2. ASSUME NEW s \in FamilyOf(f)', Live(s)' PROVE live = {s} /\ marked = {}
  BY <1>2 DEF Inv, CompromisedWhole, OneLiveGeneration, FamilyOf
<1> QED  BY <1>1, <1>2 DEF Standing

\* Sessions that keep their mark and their liveness keep their login.
LEMMA LoginKept ==
  ASSUME Inv, Inv', NEW f \in Ids, FamilyOf(f)' = FamilyOf(f),
         \A s \in FamilyOf(f) :
           /\ session'[s].user = session[s].user
           /\ session'[s].compromised <=> session[s].compromised
           /\ Live(s)' <=> Live(s)
  PROVE  Standing(f)' = Standing(f) /\ HoldersOf(f)' = HoldersOf(f)
<1>1. HoldersOf(f)' = HoldersOf(f)
  BY DEF HoldersOf
<1>2. CASE FamilyOf(f) = {}
  BY <1>1, <1>2, StandingIs, StandingThen
<1>3. CASE \E s \in FamilyOf(f) : session[s].compromised \/ Live(s)
  BY <1>1, <1>3, StandingIs, StandingThen
<1>4. CASE /\ FamilyOf(f) # {}
           /\ \A s \in FamilyOf(f) : ~Live(s) /\ ~session[s].compromised
  BY <1>1, <1>4, StandingIs, StandingThen
<1> QED  BY <1>1, <1>2, <1>3, <1>4

\* A document that did not change stays in its family, or out of it.
LEMMA Untouched ==
  ASSUME Inv, Inv', NEW f \in Ids,
         \A s \in Ids : session'[s] = session[s] \/ (s \notin FamilyOf(f) /\ s \notin FamilyOf(f)')
  PROVE  Standing(f)' = Standing(f) /\ HoldersOf(f)' = HoldersOf(f)
<1>1. FamilyOf(f)' = FamilyOf(f)
  BY DEF FamilyOf, Exists
<1>2. \A s \in FamilyOf(f) : session'[s] = session[s] /\ s \in Ids
  BY DEF FamilyOf
<1> QED  BY <1>1, <1>2, LoginKept DEF Live, Exists

Same(f) == Standing(f)' = Standing(f) /\ HoldersOf(f)' = HoldersOf(f)

\* A login that opens is new.
LEMMA OpenedLogin ==
  ASSUME Inv, Inv', Opens
  PROVE  \E n \in Ids, u \in Users :
           /\ Standing(n) = "none" /\ Standing(n)' = "open" /\ HoldersOf(n)' = {u}
           /\ \A f \in Ids \ {n} : Same(f)
<1>1. PICK n \in Ids :
        /\ Fresh(n)
        /\ Exists(n)' /\ session'[n].family = n /\ Live(n)' /\ session'[n].user \in Users
        /\ \A s \in Ids : s # n => session'[s] = session[s]
  BY OpensEffect DEF Inv
<1>2. ~Exists(n) /\ \A s \in Ids : Exists(s) => session[s].family # n
  BY <1>1, ConstantsAssumption DEF Fresh, Ids, Inv, FamilyFounded
<1>3. FamilyOf(n) = {} /\ FamilyOf(n)' = {n}
  BY <1>1, <1>2 DEF FamilyOf, Exists
<1>4. /\ Standing(n) = "none" /\ Standing(n)' = "open"
      /\ HoldersOf(n)' = {session'[n].user}
  BY <1>1, <1>3, StandingIs, StandingThen DEF HoldersOf
<1>5. ASSUME NEW f \in Ids \ {n} PROVE Same(f)
  <2>1. n \notin FamilyOf(f) /\ n \notin FamilyOf(f)'
    BY <1>1, <1>2, <1>5 DEF FamilyOf
  <2> QED  BY <1>1, <2>1, Untouched DEF Same
<1> QED  BY <1>1, <1>4, <1>5

\* A rotation leaves no trace in any login.
LEMMA RotatedLogin ==
  ASSUME Inv, Inv', Rotates, NEW f \in Ids
  PROVE  Same(f)
<1>1. PICK s, n \in Ids :
        /\ Fresh(n) /\ Live(s)
        /\ Exists(s)' /\ session'[s].family = session[s].family
        /\ session'[s].user = session[s].user /\ session'[n].user = session[s].user
        /\ Exists(n)' /\ Live(n)' /\ session'[n].family = session[s].family
        /\ \A m \in Ids : m # s /\ m # n => session'[m] = session[m]
  BY RotatesEffect DEF Inv
<1>2. ~Exists(n) /\ Exists(s) /\ s # n
  BY <1>1, ConstantsAssumption DEF Fresh, Ids, Live
<1>3. CASE f = session[s].family
  <2>1. s \in FamilyOf(f) /\ n \in FamilyOf(f)'
    BY <1>1, <1>2, <1>3 DEF FamilyOf
  <2>2. FamilyOf(f)' = FamilyOf(f) \cup {n}
    BY <1>1, <1>2, <1>3 DEF FamilyOf, Exists
  <2>3. Standing(f) = "open" /\ Standing(f)' = "open"
    BY <1>1, <2>1, StandingIs, StandingThen
  <2>4. \A m \in FamilyOf(f) : session'[m].user = session[m].user
    BY <1>1, <1>2 DEF FamilyOf
  <2>5. HoldersOf(f)' = HoldersOf(f)
    BY <1>1, <2>1, <2>2, <2>4 DEF HoldersOf
  <2> QED  BY <2>3, <2>5 DEF Same
<1>4. CASE f # session[s].family
  <2>1. \A m \in {s, n} : m \notin FamilyOf(f) /\ m \notin FamilyOf(f)'
    BY <1>1, <1>2, <1>4 DEF FamilyOf
  <2> QED  BY <1>1, <2>1, Untouched DEF Same
<1> QED  BY <1>3, <1>4

\* A reuse exposes one login, unless it was exposed before.
LEMMA TaintedLogin ==
  ASSUME Inv, Inv', Taints
  PROVE  \/ \A f \in Ids : Same(f)
         \/ \E f \in Ids :
              /\ Standing(f) \in {"open", "ended"} /\ Standing(f)' = "compromised"
              /\ HoldersOf(f)' = HoldersOf(f)
              /\ \A g \in Ids \ {f} : Same(g)
<1>1. PICK f :
        \A s \in Ids :
          /\ Exists(s)' <=> Exists(s)
          /\ Exists(s) => /\ session'[s].user = session[s].user
                          /\ session'[s].family = session[s].family
                          /\ session[s].family = f => ~Live(s)' /\ session'[s].compromised
                          /\ session[s].family # f => session'[s] = session[s]
  BY TaintsEffect DEF Inv
<1>2. \A g \in Ids : FamilyOf(g)' = FamilyOf(g)
  BY <1>1 DEF FamilyOf
<1>3. ASSUME NEW g \in Ids, g # f PROVE Same(g)
  <2>1. \A s \in FamilyOf(g) : session'[s] = session[s]
    BY <1>1, <1>3 DEF FamilyOf
  <2> QED  BY <1>2, <2>1, LoginKept DEF Same, Live, Exists
<1>4. CASE f \notin Ids
  BY <1>3, <1>4
<1>5. CASE f \in Ids
  <2>1. \A s \in FamilyOf(f) : session'[s].compromised /\ session'[s].user = session[s].user
    BY <1>1 DEF FamilyOf
  <2>2. HoldersOf(f)' = HoldersOf(f)
    BY <1>2, <1>5, <2>1 DEF HoldersOf
  <2>3. CASE FamilyOf(f) = {}
    BY <1>2, <1>3, <1>5, <2>2, <2>3, StandingIs, StandingThen DEF Same
  <2>4. CASE FamilyOf(f) # {}
    <3>1. Standing(f)' = "compromised"
      BY <1>2, <1>5, <2>1, <2>4, StandingThen
    <3>2. Standing(f) \in {"open", "ended", "compromised"}
      BY <1>5, <2>4, StandingIs
    <3> QED  BY <1>3, <1>5, <2>2, <3>1, <3>2 DEF Same
  <2> QED  BY <2>3, <2>4
<1> QED  BY <1>4, <1>5

\* A revocation ends some logins of one user.
LEMMA WithdrawnLogin ==
  ASSUME Inv, Inv', Withdraws
  PROVE  \E u \in Users : \A f \in Ids :
           \/ Same(f)
           \/ /\ Standing(f) = "open" /\ Standing(f)' = "ended"
              /\ u \in HoldersOf(f) /\ HoldersOf(f)' = HoldersOf(f)
<1>1. PICK u \in Users : \E S \in SUBSET LiveOf(u) : session' = Revoked(S, "ended")
  BY DEF Withdraws
<1>2. PICK S \in SUBSET LiveOf(u) : session' = Revoked(S, "ended")
  BY <1>1
<1>3. \A s \in Ids :
        /\ Exists(s)' <=> Exists(s)
        /\ Live(s)' => Live(s)
        /\ Exists(s) => /\ session'[s].user = session[s].user
                        /\ session'[s].family = session[s].family
                        /\ session'[s].compromised = session[s].compromised
  BY WithdrawsEffect DEF Inv
<1>4. \A s \in Ids : s \notin S => session'[s] = session[s]
  BY <1>2 DEF Revoked, Inv, TypeOK
<1>5. SUFFICES ASSUME NEW f \in Ids, ~Same(f)
               PROVE  /\ Standing(f) = "open" /\ Standing(f)' = "ended"
                      /\ u \in HoldersOf(f) /\ HoldersOf(f)' = HoldersOf(f)
  OBVIOUS
<1>6. FamilyOf(f)' = FamilyOf(f)
  BY <1>3 DEF FamilyOf
<1>7. HoldersOf(f)' = HoldersOf(f)
  BY <1>3, <1>6 DEF HoldersOf, FamilyOf
<1>8. PICK s \in FamilyOf(f) : Live(s) /\ ~Live(s)'
  <2>1. SUFFICES ASSUME \A s \in FamilyOf(f) : Live(s) => Live(s)' PROVE FALSE
    OBVIOUS
  <2>2. \A s \in FamilyOf(f) :
          /\ session'[s].user = session[s].user
          /\ session'[s].compromised <=> session[s].compromised
          /\ Live(s)' <=> Live(s)
    BY <1>3, <2>1 DEF FamilyOf
  <2> QED  BY <1>5, <1>6, <2>2, LoginKept DEF Same
<1>9. s \in S /\ session[s].user = u
  BY <1>4, <1>8 DEF FamilyOf, Live, Exists, LiveOf
<1>10. u \in HoldersOf(f) /\ Standing(f) = "open"
  BY <1>8, <1>9, StandingIs DEF HoldersOf
<1>11. \A t \in FamilyOf(f) : ~Live(t)' /\ ~session'[t].compromised
  <2> SUFFICES ASSUME NEW t \in FamilyOf(f) PROVE ~Live(t)' /\ ~session'[t].compromised
    OBVIOUS
  <2>1. t # s => ~Live(t)
    BY <1>8 DEF Inv, OneLiveGeneration, FamilyOf
  <2>2. ~session[t].compromised
    BY <1>8 DEF Inv, CompromisedWhole, FamilyOf
  <2> QED  BY <1>3, <1>8, <2>1, <2>2 DEF FamilyOf
<1>12. Standing(f)' = "ended"
  BY <1>6, <1>8, <1>11, StandingThen
<1> QED  BY <1>7, <1>10, <1>12

\* The refinement, one step.
LEMMA LoginStep ==
  ASSUME Inv, Inv', SessionStep
  PROVE  [Login!Next]_(Login!vars)
<1> DEFINE standing == [f \in Ids |-> Standing(f)]
           holders  == [f \in Ids |-> HoldersOf(f)]
<1>a. /\ standing' = [f \in Ids |-> Standing(f)']
      /\ holders' = [f \in Ids |-> HoldersOf(f)']
  OBVIOUS
<1>b. ASSUME \A f \in Ids : Same(f) PROVE UNCHANGED Login!vars
  <2>1. standing' = standing /\ holders' = holders
    BY <1>a, <1>b DEF Same
  <2> QED  BY <2>1 DEF Login!vars
<1>1. CASE session' = session
  <2>1. \A f \in Ids : Same(f)
    BY <1>1, Untouched DEF Same
  <2> QED  BY <1>b, <2>1
<1>2. CASE Opens
  <2>1. PICK n \in Ids, u \in Users :
          /\ Standing(n) = "none" /\ Standing(n)' = "open" /\ HoldersOf(n)' = {u}
          /\ \A f \in Ids \ {n} : Same(f)
    BY <1>2, OpenedLogin
  <2>2. standing' = [f \in Ids |-> IF f \in {n} THEN "open" ELSE standing[f]]
    BY <1>a, <2>1 DEF Same
  <2>3. holders' = [holders EXCEPT ![n] = {u}]
    BY <1>a, <2>1 DEF Same
  <2>4. standing[n] = "none"
    BY <2>1
  <2>5. Login!Open(n, u)
    BY <2>2, <2>3, <2>4 DEF Login!Open, Login!Move
  <2> QED  BY <2>5 DEF Login!Next
<1>3. CASE Rotates
  BY <1>3, <1>b, RotatedLogin
<1>4. CASE Taints
  <2>1. CASE \A f \in Ids : Same(f)
    BY <1>b, <2>1
  <2>2. ASSUME NEW f \in Ids,
               Standing(f) \in {"open", "ended"}, Standing(f)' = "compromised",
               HoldersOf(f)' = HoldersOf(f), \A g \in Ids \ {f} : Same(g)
        PROVE  Login!Expose(f)
    <3>1. standing' = [g \in Ids |-> IF g \in {f} THEN "compromised" ELSE standing[g]]
      BY <1>a, <2>2 DEF Same
    <3>2. holders' = holders
      BY <1>a, <2>2 DEF Same
    <3>3. standing[f] \in {"open", "ended"}
      BY <2>2
    <3> QED  BY <3>1, <3>2, <3>3 DEF Login!Expose, Login!Move
  <2> QED  BY <1>4, <2>1, <2>2, TaintedLogin DEF Login!Next
<1>5. CASE Withdraws
  <2>1. PICK u \in Users : \A f \in Ids :
          \/ Same(f)
          \/ /\ Standing(f) = "open" /\ Standing(f)' = "ended"
             /\ u \in HoldersOf(f) /\ HoldersOf(f)' = HoldersOf(f)
    BY <1>5, WithdrawnLogin
  <2> DEFINE L == {f \in Ids : ~Same(f)}
  <2>2. standing' = [f \in Ids |-> IF f \in L THEN "ended" ELSE standing[f]]
    BY <1>a, <2>1 DEF Same
  <2>3. holders' = holders
    BY <1>a, <2>1 DEF Same
  <2>4. L \in SUBSET {f \in Ids : standing[f] = "open" /\ u \in holders[f]}
    BY <2>1
  <2>5. Login!End(u)
    BY <2>2, <2>3, <2>4 DEF Login!End, Login!Move, Login!OpenOf
  <2> QED  BY <2>5 DEF Login!Next
<1> QED  BY <1>1, <1>2, <1>3, <1>4, <1>5 DEF SessionStep

\* Families of sessions, with their rotations, reuses and revocations in
\* progress, implement logins that open, end or are compromised, once
\* (rotateAuthSession, compromiseAuthSessionFamily, revokeAllUserAuthSessions).
THEOREM SessionsImplementLogins == Spec => FamiliesAreLogins
<1>1. Init => Login!Init
  <2> SUFFICES ASSUME Init PROVE Login!Init
    OBVIOUS
  <2>1. \A f \in Ids : FamilyOf(f) = {}
    BY DEF Init, FamilyOf, Exists
  <2>2. \A f \in Ids : Standing(f) = "none" /\ HoldersOf(f) = {}
    BY <2>1 DEF Standing, HoldersOf
  <2> QED  BY <2>2 DEF Login!Init
<1>2. Inv /\ Inv' /\ [Next]_vars => [Login!Next]_(Login!vars)
  BY StepKinds, LoginStep DEF Inv
<1> QED  BY <1>1, <1>2, Invariance, PTL DEF Spec, FamiliesAreLogins, Login!Spec

=============================================================================
