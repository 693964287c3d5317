-------------------------- MODULE PlatformTeam_proofs --------------------------
(***************************************************************************)
(* TLAPS proofs about PlatformTeam, for every set of users, roles and      *)
(* invitations and any number of open transactions.                        *)
(***************************************************************************)
EXTENDS PlatformTeam, FiniteSetTheorems, TLAPS

-----------------------------------------------------------------------------
(* The invariant.  An open transaction was decided on a snapshot; what it   *)
(* found there about the documents it writes is still true when it commits. *)

FounderKept ==
    /\ member[Founder] = [status |-> "active", role |-> "super_admin"]
    /\ account[Founder] = "active"

OnePending ==
    /\ \A i, j \in Invites :
          Pending(i) /\ Pending(j) /\ invitation[i].email = invitation[j].email => i = j
    /\ \A i \in Invites : Pending(i) => ~Current(invitation[i].email)

Managing == {"set_role", "suspend", "reactivate", "revoke"}

SoundManagement(t) ==
    t.kind \in Managing =>
        /\ Current(t.user)
        /\ t.user # Founder
        /\ member[t.user].role = "super_admin" => t.super
        /\ t.kind = "set_role" /\ t.role = "super_admin" => t.super

SoundAnswer(t) ==
    t.kind \in {"revoke_invitation", "resend"} => Pending(t.inv)

SoundAcceptance(t) ==
    t.kind \in {"accept", "accept_new"} =>
        /\ Pending(t.inv)
        /\ invitation[t.inv].email = t.user
        /\ ~Current(t.user)
        /\ invitation[t.inv].role = "super_admin" => t.super

SoundInvitation(t) ==
    t.kind = "invite" =>
        /\ ~Current(t.user)
        /\ PendingFor(t.user) = t.lapsed

Sound(t) ==
    SoundManagement(t) /\ SoundAnswer(t) /\ SoundAcceptance(t) /\ SoundInvitation(t)

Inv == TypeOK /\ FounderKept /\ OnePending /\ \A t \in open : Sound(t)

-----------------------------------------------------------------------------
(* What a step may change, given the keys W that it writes.                *)

Frame(W) ==
    /\ \A u \in Users : <<"member", u>> \notin W => member'[u] = member[u]
    /\ \A u \in Users :
          Current(u)' /\ ~Current(u) => \E i \in PendingFor(u) : <<"invitation", i>> \in W
    /\ \A i \in Invites : <<"invitation", i>> \notin W =>
          \/ /\ Pending(i) /\ Pending(i)'
             /\ invitation'[i].email = invitation[i].email
             /\ invitation'[i].role = invitation[i].role
          \/ ~Pending(i) /\ ~Pending(i)'
          \/ ~Pending(i) /\ Pending(i)' /\ <<"address", invitation'[i].email>> \in W
    /\ \A i \in Invites : <<"invitation", i>> \in W /\ Pending(i)' =>
          Pending(i) /\ invitation'[i].email = invitation[i].email

\* First committer wins: what an open transaction found is still true after a
\* step that writes none of its keys.
LEMMA FrameKeeps ==
  ASSUME OnePending, NEW W, Frame(W), NEW t \in Transaction, Sound(t),
         Writes(t) \cap W = {}
  PROVE  Sound(t)'
<1>1. SoundManagement(t)'
  <2> SUFFICES ASSUME t.kind \in Managing PROVE SoundManagement(t)'
    BY DEF SoundManagement
  <2>1. t.user \in Users /\ <<"member", t.user>> \notin W
    BY DEF Writes, MemberKey, Transaction, Managing
  <2>2. member'[t.user] = member[t.user]
    BY <2>1 DEF Frame
  <2> QED  BY <2>2 DEF Sound, SoundManagement, Current
<1>2. SoundAnswer(t)'
  <2> SUFFICES ASSUME t.kind \in {"revoke_invitation", "resend"} PROVE Pending(t.inv)'
    BY DEF SoundAnswer
  <2>1. t.inv \in Invites /\ <<"invitation", t.inv>> \notin W
    BY DEF Writes, Transaction
  <2> QED  BY <2>1 DEF Frame, Sound, SoundAnswer
<1>3. SoundAcceptance(t)'
  <2> SUFFICES ASSUME t.kind \in {"accept", "accept_new"} PROVE SoundAcceptance(t)'
    BY DEF SoundAcceptance
  <2>1. /\ t.inv \in Invites /\ <<"invitation", t.inv>> \notin W
        /\ t.user \in Users
    BY DEF Writes, Transaction
  <2>2. /\ Pending(t.inv) /\ invitation[t.inv].email = t.user /\ ~Current(t.user)
        /\ invitation[t.inv].role = "super_admin" => t.super
    BY DEF Sound, SoundAcceptance
  <2>3. /\ Pending(t.inv)' /\ invitation'[t.inv].email = t.user
        /\ invitation'[t.inv].role = invitation[t.inv].role
    BY <2>1, <2>2 DEF Frame
  <2>4. ~Current(t.user)'
    <3> SUFFICES ASSUME Current(t.user)' PROVE FALSE
      OBVIOUS
    <3>1. PICK i \in PendingFor(t.user) : <<"invitation", i>> \in W
      BY <2>1, <2>2 DEF Frame
    <3>2. i = t.inv
      BY <2>1, <2>2, <3>1 DEF OnePending, PendingFor
    <3> QED  BY <2>1, <3>1, <3>2
  <2> QED  BY <2>2, <2>3, <2>4 DEF SoundAcceptance
<1>4. SoundInvitation(t)'
  <2> SUFFICES ASSUME t.kind = "invite" PROVE SoundInvitation(t)'
    BY DEF SoundInvitation
  <2>1. /\ t.user \in Users /\ t.lapsed \subseteq Invites
        /\ <<"address", t.user>> \notin W
        /\ \A i \in t.lapsed : <<"invitation", i>> \notin W
    BY DEF Writes, Transaction
  <2>2. ~Current(t.user) /\ PendingFor(t.user) = t.lapsed
    BY DEF Sound, SoundInvitation
  <2>3. ~Current(t.user)'
    BY <2>1, <2>2 DEF Frame
  <2>4. \A i \in t.lapsed : i \in PendingFor(t.user)'
    BY <2>1, <2>2 DEF Frame, PendingFor
  <2>5. \A i \in Invites : Pending(i)' /\ invitation'[i].email = t.user => i \in t.lapsed
    <3> SUFFICES ASSUME NEW i \in Invites, Pending(i)', invitation'[i].email = t.user
                 PROVE  i \in PendingFor(t.user)
      BY <2>2
    <3> QED  BY <2>1 DEF Frame, PendingFor
  <2>6. PendingFor(t.user)' = t.lapsed
    BY <2>4, <2>5 DEF PendingFor
  <2> QED  BY <2>3, <2>6 DEF SoundInvitation
<1> QED  BY <1>1, <1>2, <1>3, <1>4 DEF Sound

-----------------------------------------------------------------------------
(* Beginning a transaction.                                                *)

\* An open transaction more, nothing written.
LEMMA BeginKeeps ==
  ASSUME Inv, NEW t \in Transaction, Sound(t), Begin(t)
  PROVE  Inv'
<1>1. TypeOK'
  BY DEF Inv, TypeOK, Begin
<1>2. FounderKept' /\ OnePending'
  BY DEF Inv, FounderKept, OnePending, Pending, Current, Begin
<1>3. \A o \in open' : Sound(o)'
  <2> SUFFICES ASSUME NEW o \in open' PROVE Sound(o)'
    OBVIOUS
  <2>1. Sound(o)
    BY DEF Inv, Begin
  <2>2. Sound(o)' <=> Sound(o)
    BY DEF Begin, Sound, SoundManagement, SoundAnswer, SoundAcceptance, SoundInvitation,
           Pending, PendingFor, Current
  <2> QED  BY <2>1, <2>2
<1> QED  BY <1>1, <1>2, <1>3 DEF Inv

\* A manager that may touch a super administrator is one.
LEMMA ManagerSound ==
  ASSUME NEW a \in Users, NEW u \in Users, Manager(a, u), FounderKept
  PROVE  Current(u) /\ u # Founder /\ (member[u].role = "super_admin" => IsSuper(a))
BY DEF Manager, CanManage, IsFounder, FounderKept, Current

LEMMA TeamStep == Inv /\ TeamNext => Inv'
<1> SUFFICES ASSUME Inv, NEW a \in Users, NEW u \in Users,
                    \/ \E r \in Roles : UpdateMemberRole(a, u, r)
                    \/ SuspendMember(a, u) \/ ReactivateMember(a, u) \/ RevokeMember(a, u)
             PROVE  Inv'
  BY DEF TeamNext
<1> USE DEF Inv
<1>0. IsSuper(a) \in BOOLEAN
  BY DEF IsSuper, LegacyAuthority, HoldsRole
<1>1. ASSUME NEW r \in Roles, UpdateMemberRole(a, u, r) PROVE Inv'
  <2> DEFINE t == [kind |-> "set_role", super |-> IsSuper(a), user |-> u, role |-> r]
  <2>1. t \in Transaction
    BY <1>0 DEF Transaction
  <2>2. r = "super_admin" => IsSuper(a)
    BY <1>1 DEF UpdateMemberRole, CanAssign
  <2>3. Sound(t)
    BY <1>1, <2>2, ManagerSound DEF UpdateMemberRole, Sound, SoundManagement, SoundAnswer,
       SoundAcceptance, SoundInvitation
  <2>4. Begin(t)
    BY <1>1 DEF UpdateMemberRole
  <2> QED  BY <2>1, <2>3, <2>4, BeginKeeps
<1>2. ASSUME NEW k \in {"suspend", "reactivate", "revoke"}, Manager(a, u),
             Begin([kind |-> k, super |-> IsSuper(a), user |-> u])
      PROVE  Inv'
  <2> DEFINE t == [kind |-> k, super |-> IsSuper(a), user |-> u]
  <2>1. t \in Transaction
    BY <1>0 DEF Transaction
  <2>2. Sound(t)
    BY <1>2, ManagerSound DEF Sound, SoundManagement, SoundAnswer, SoundAcceptance,
       SoundInvitation
  <2> QED  BY <1>2, <2>1, <2>2, BeginKeeps
<1> QED
  BY <1>1, <1>2 DEF SuspendMember, ReactivateMember, RevokeMember

LEMMA RoleStep == Inv /\ RoleNext => Inv'
<1> SUFFICES ASSUME Inv, NEW a \in Users, NEW ps \in SUBSET (Permissions \ Reserved),
                    \/ CreateRole(a, ps)
                    \/ \E c \in Custom : UpdateRole(a, c, ps) \/ ArchiveRole(a, c)
             PROVE  Inv'
  BY DEF RoleNext
<1> USE DEF Sound, SoundManagement, SoundAnswer, SoundAcceptance, SoundInvitation, Managing
<1>1. CASE CreateRole(a, ps)
  <2> DEFINE t == [kind |-> "create_role", permissions |-> ps]
  <2>1. t \in Transaction /\ Sound(t)
    BY DEF Transaction
  <2> QED  BY <1>1, <2>1, BeginKeeps DEF CreateRole
<1>2. ASSUME NEW c \in Custom, UpdateRole(a, c, ps) PROVE Inv'
  <2> DEFINE t == [kind |-> "update_role", role |-> c, permissions |-> ps]
  <2>1. t \in Transaction /\ Sound(t)
    BY DEF Transaction
  <2> QED  BY <1>2, <2>1, BeginKeeps DEF UpdateRole
<1>3. ASSUME NEW c \in Custom, ArchiveRole(a, c) PROVE Inv'
  <2> DEFINE t == [kind |-> "archive_role", role |-> c]
  <2>1. t \in Transaction /\ Sound(t)
    BY DEF Transaction
  <2> QED  BY <1>3, <2>1, BeginKeeps DEF ArchiveRole
<1> QED  BY <1>1, <1>2, <1>3

\* An invitation that loadAcceptableInvitation lets through.
LEMMA VouchedSound ==
  ASSUME NEW i \in Invites, Vouched(i), invitation[i].role = "super_admin"
  PROVE  IsSuper(invitation[i].by)
BY DEF Vouched, CanAssign

\* The transactions about invitations, Lapse and the list left aside.
LEMMA InvitationBegins ==
  ASSUME Inv,
         \/ \E a, u \in Users, r \in Roles : Invite(a, u, r)
         \/ \E a \in Users, i \in Invites : RevokeInvitation(a, i) \/ ResendInvitation(a, i)
         \/ \E u \in Users, i \in Invites : AcceptInvitation(u, i)
         \/ \E i \in Invites : AcceptNewInvitation(i)
  PROVE  Inv'
<1> USE DEF Sound, SoundManagement, SoundAnswer, SoundAcceptance, SoundInvitation, Managing
<1>0. \A a : IsSuper(a) \in BOOLEAN
  BY DEF IsSuper, LegacyAuthority, HoldsRole
<1>1. ASSUME NEW a \in Users, NEW u \in Users, NEW r \in Roles, Invite(a, u, r) PROVE Inv'
  <2> DEFINE t == [kind |-> "invite", user |-> u, role |-> r, by |-> a,
                   lapsed |-> {i \in PendingFor(u) : invitation[i].lapsed}]
  <2>1. t \in Transaction
    BY DEF Transaction, PendingFor
  <2>2. ~Current(u) /\ PendingFor(u) = {i \in PendingFor(u) : invitation[i].lapsed}
    BY <1>1 DEF Invite, NoneActive
  <2>3. Sound(t)
    BY <2>2
  <2> QED  BY <1>1, <2>1, <2>3, BeginKeeps DEF Invite
<1>2. ASSUME NEW k \in {"revoke_invitation", "resend"}, NEW i \in Invites, Answerable(i),
             Begin([kind |-> k, inv |-> i])
      PROVE  Inv'
  <2> DEFINE t == [kind |-> k, inv |-> i]
  <2>1. t \in Transaction
    BY DEF Transaction
  <2>2. Sound(t)
    BY <1>2 DEF Answerable
  <2> QED  BY <1>2, <2>1, <2>2, BeginKeeps
<1>3. ASSUME NEW k \in {"accept", "accept_new"}, NEW i \in Invites, Answerable(i), Vouched(i),
             Begin([kind |-> k, super |-> IsSuper(invitation[i].by),
                    user |-> invitation[i].email, inv |-> i])
      PROVE  Inv'
  <2> DEFINE t == [kind |-> k, super |-> IsSuper(invitation[i].by),
                   user |-> invitation[i].email, inv |-> i]
  <2>1. Pending(i)
    BY <1>3 DEF Answerable
  <2>2. invitation[i].email \in Users
    BY <2>1, NoneAssumption DEF Inv, TypeOK, Pending, Invitation
  <2>3. t \in Transaction
    BY <1>0, <2>2 DEF Transaction
  <2>4. ~Current(invitation[i].email)
    BY <2>1 DEF Inv, OnePending
  <2>5. Sound(t)
    BY <1>3, <2>1, <2>4, VouchedSound
  <2> QED  BY <1>3, <2>3, <2>5, BeginKeeps
<1> QED
  BY <1>1, <1>2, <1>3 DEF RevokeInvitation, ResendInvitation, AcceptInvitation,
     AcceptNewInvitation

-----------------------------------------------------------------------------
(* Writes.                                                                 *)

\* What a step that writes W leaves open was sound and still is.
LEMMA WriteKeeps ==
  ASSUME Inv, NEW W, Frame(W), TypeOK', FounderKept', OnePending',
         \A o \in open' : o \in open /\ Writes(o) \cap W = {}
  PROVE  Inv'
<1>1. \A o \in open' : Sound(o)'
  <2> SUFFICES ASSUME NEW o \in open' PROVE Sound(o)'
    OBVIOUS
  <2>1. o \in Transaction /\ Sound(o) /\ OnePending /\ Writes(o) \cap W = {}
    BY DEF Inv, TypeOK
  <2> QED  BY <2>1, FrameKeeps
<1> QED  BY <1>1 DEF Inv

LEMMA LapseStep == ASSUME Inv, NEW i \in Invites, Lapse(i) PROVE Inv'
<1>1. /\ invitation[i] \in Invitation /\ Pending(i)
      /\ invitation' = [invitation EXCEPT ![i].lapsed = TRUE]
      /\ UNCHANGED <<account, member, role, open>>
  BY NoneAssumption DEF Inv, TypeOK, Lapse, Answerable, Pending
<1>2. invitation'[i] \in Invitation
  BY <1>1 DEF Pending, Invitation, Inv, TypeOK
<1>3. \A j \in Invites : j # i => invitation'[j] = invitation[j]
  BY <1>1 DEF Inv, TypeOK
<1>4. TypeOK'
  BY <1>1, <1>2, <1>3 DEF Inv, TypeOK
<1>5. /\ invitation'[i] # None
      /\ invitation'[i].status = "pending"
      /\ invitation'[i].email = invitation[i].email
      /\ invitation'[i].role = invitation[i].role
  BY <1>1, <1>2, NoneAssumption DEF Pending, Invitation, Inv, TypeOK
<1>6. Frame({})
  BY <1>1, <1>3, <1>5 DEF Frame, Pending, Current
<1>7. OnePending' /\ FounderKept'
  BY <1>1, <1>3, <1>5 DEF Inv, OnePending, FounderKept, Pending, Current
<1>8. \A o \in open' : o \in open /\ Writes(o) \cap {} = {}
  BY <1>1
<1> QED  BY <1>4, <1>6, <1>7, <1>8, WriteKeeps

LEMMA ListStep == ASSUME Inv, ListInvitations PROVE Inv'
<1> DEFINE L == LapsedPending
<1> DEFINE W == {<<"invitation", i>> : i \in L}
<1>1. /\ L \subseteq Invites
      /\ \A i \in L : invitation'[i] = [status |-> "expired"]
      /\ \A i \in Invites \ L : invitation'[i] = invitation[i]
      /\ DOMAIN invitation' = Invites
      /\ UNCHANGED <<account, member, role>>
      /\ open' = {t \in open : \A i \in L : <<"invitation", i>> \notin Writes(t)}
  BY DEF ListInvitations, Expired, LapsedPending
<1>2. invitation' \in [Invites -> Invitation \cup {None}]
  <2>1. \A i \in Invites : invitation'[i] \in Invitation \cup {None}
    BY <1>1 DEF Inv, TypeOK, Invitation
  <2> QED  BY <2>1 DEF ListInvitations, Expired
<1>3. \A o \in open' : o \in open /\ Writes(o) \cap W = {}
  BY <1>1
<1>4. TypeOK'
  BY <1>1, <1>2, <1>3 DEF Inv, TypeOK
<1>5. \A i \in Invites : Pending(i)' <=> (Pending(i) /\ i \notin L)
  BY <1>1 DEF Pending
<1>6. \A i \in Invites : <<"invitation", i>> \in W <=> i \in L
  BY <1>1
<1>7. Frame(W)
  <2> HIDE DEF L, W
  <2> QED  BY <1>1, <1>5, <1>6 DEF Frame, Current
<1>8. OnePending' /\ FounderKept'
  <2> HIDE DEF L, W
  <2> QED  BY <1>1, <1>5 DEF Inv, OnePending, FounderKept, Current
<1> HIDE DEF W
<1> QED  BY <1>3, <1>4, <1>7, <1>8, WriteKeeps

LEMMA InvitationStep == Inv /\ InvitationNext => Inv'
BY InvitationBegins, LapseStep, ListStep DEF InvitationNext

\* The account of the founder is neither disabled nor closed.
LEMMA AccountStep == Inv /\ AccountNext => Inv'
<1> SUFFICES ASSUME Inv, NEW a \in Users, NEW u \in Users,
                    Register(u) \/ CloseAccount(u) \/ DisableUser(a, u) \/ EnableUser(a, u)
             PROVE  Inv'
  BY DEF AccountNext
<1>1. UNCHANGED <<member, role, invitation>> /\ open' \subseteq open
  BY DEF Register, CloseAccount, DisableUser, EnableUser
<1>2. TypeOK'
  BY <1>1 DEF Inv, TypeOK, Register, CloseAccount, DisableUser, EnableUser
<1>3. FounderKept'
  BY <1>1, ConstantsAssumption DEF Inv, TypeOK, FounderKept, Register, CloseAccount,
     DisableUser, EnableUser, Protected, IsFounder, Current
<1>4. OnePending' /\ Frame({})
  BY <1>1 DEF Inv, OnePending, Frame, Pending, Current
<1>5. \A o \in open' : o \in open /\ Writes(o) \cap {} = {}
  BY <1>1
<1> QED  BY <1>2, <1>3, <1>4, <1>5, WriteKeeps

-----------------------------------------------------------------------------
(* Commits: first committer wins.                                          *)

LEMMA SurvivorsDisjoint ==
  ASSUME NEW t, Commit(t)
  PROVE  \A o \in open' : o \in open /\ Writes(o) \cap Writes(t) = {}
BY DEF Commit, Surviving

\* A manager's transaction moves a member who is not the founder.
LEMMA MemberCommit == ASSUME Inv, NEW t \in open, CommitMember(t) PROVE Inv'
<1>1. /\ t \in Transaction /\ Sound(t) /\ t.kind \in Managing
      /\ UNCHANGED <<account, role, invitation>>
  BY DEF Inv, TypeOK, CommitMember, Managing
<1>2. /\ t.user \in Users /\ Current(t.user) /\ t.user # Founder
      /\ Writes(t) = {<<"member", t.user>>}
  BY <1>1 DEF Transaction, Managing, Sound, SoundManagement, Writes, MemberKey
<1>3. member[t.user] \in [status : {"active", "suspended", "revoked"}, role : Roles]
  BY <1>2 DEF Inv, TypeOK, Member, NoMember, Current
<1>4. t.kind = "set_role" => t.role \in Roles
  BY <1>1 DEF Transaction
<1>5. /\ member'[t.user] \in Member
      /\ \A u \in Users \ {t.user} : member'[u] = member[u]
      /\ member' \in [Users -> Member]
  BY <1>2, <1>3, <1>4 DEF CommitMember, Inv, TypeOK, Member
<1>6. TypeOK'
  BY <1>1, <1>5, SurvivorsDisjoint DEF Inv, TypeOK, CommitMember
<1>7. FounderKept'
  BY <1>1, <1>2, <1>5, ConstantsAssumption DEF Inv, FounderKept
<1>8. OnePending'
  <2>1. \A i \in Invites : Pending(i) => invitation[i].email \in Users \ {t.user}
    BY <1>2, NoneAssumption DEF Inv, TypeOK, OnePending, Pending, Invitation
  <2>2. \A i \in Invites : Pending(i) =>
           member'[invitation[i].email].status \notin {"active", "suspended"}
    BY <1>5, <2>1 DEF Inv, OnePending, Current
  <2> QED  BY <1>1, <2>2 DEF Inv, OnePending, Pending, Current
<1>9. Frame(Writes(t))
  BY <1>1, <1>2, <1>5 DEF Frame, Pending, Current
<1> QED  BY <1>6, <1>7, <1>8, <1>9, SurvivorsDisjoint, WriteKeeps DEF CommitMember

LEMMA RoleCommit == ASSUME Inv, NEW t \in open, CommitRole(t) PROVE Inv'
<1>1. t \in Transaction /\ UNCHANGED <<account, member, invitation>>
  BY DEF Inv, TypeOK, CommitRole
<1>2. role' \in [Custom -> Role]
  <2>1. CASE t.kind = "create_role"
    BY <1>1, <2>1 DEF CommitRole, Inv, TypeOK, Role, Transaction
  <2>2. CASE t.kind \in {"update_role", "archive_role"}
    <3>1. t.role \in Custom /\ role[t.role] \in Role
      BY <1>1, <2>2 DEF Transaction, Inv, TypeOK
    <3>2. t.kind = "update_role" => t.permissions \in SUBSET (Permissions \ Reserved)
      BY <1>1 DEF Transaction
    <3> QED  BY <2>2, <3>1, <3>2 DEF CommitRole, Inv, TypeOK, Role
  <2> QED  BY <2>1, <2>2 DEF CommitRole
<1>3. TypeOK'
  BY <1>1, <1>2, SurvivorsDisjoint DEF Inv, TypeOK, CommitRole
<1>4. FounderKept' /\ OnePending' /\ Frame(Writes(t))
  BY <1>1 DEF Inv, FounderKept, OnePending, Frame, Pending, Current
<1> QED  BY <1>3, <1>4, SurvivorsDisjoint, WriteKeeps DEF CommitRole

LEMMA InvitationCommit == ASSUME Inv, NEW t \in open, CommitInvitation(t) PROVE Inv'
<1>1. t \in Transaction /\ Sound(t) /\ UNCHANGED <<account, member, role>>
  BY DEF Inv, TypeOK, CommitInvitation
<1>2. FounderKept'
  BY <1>1 DEF Inv, FounderKept
<1>3. CASE t.kind = "invite"
  <2>1. /\ t.user \in Users /\ t.role \in Roles /\ t.by \in Users /\ t.lapsed \subseteq Invites
        /\ ~Current(t.user) /\ PendingFor(t.user) = t.lapsed
        /\ Writes(t) = {<<"address", t.user>>} \cup {<<"invitation", i>> : i \in t.lapsed}
    BY <1>1, <1>3 DEF Transaction, Sound, SoundInvitation, Writes
  <2>2. PICK n \in Invites :
          /\ invitation[n] = None
          /\ invitation' = [Expired(t.lapsed) EXCEPT ![n] =
               [status |-> "pending", email |-> t.user, role |-> t.role,
                by |-> t.by, lapsed |-> FALSE]]
    BY <1>3 DEF CommitInvitation
  <2> DEFINE new == [status |-> "pending", email |-> t.user, role |-> t.role,
                     by |-> t.by, lapsed |-> FALSE]
  <2>3. new \in Invitation /\ [status |-> "expired"] \in Invitation
    BY <2>1 DEF Invitation
  <2>4. n \notin t.lapsed
    BY <2>1, <2>2 DEF PendingFor, Pending
  <2>5. /\ invitation'[n] = new
        /\ \A i \in t.lapsed : invitation'[i] = [status |-> "expired"]
        /\ \A i \in Invites \ t.lapsed : i # n => invitation'[i] = invitation[i]
        /\ DOMAIN invitation' = Invites
        /\ \A i \in Invites : invitation'[i] \in Invitation \cup {None}
    BY <2>1, <2>2, <2>3, <2>4 DEF Expired, Inv, TypeOK
  <2>6. invitation' \in [Invites -> Invitation \cup {None}]
    BY <2>2, <2>5 DEF Expired
  <2>7. TypeOK'
    BY <1>1, <2>6, SurvivorsDisjoint DEF CommitInvitation, Inv, TypeOK
  <2>8. Pending(n)' /\ ~Pending(n) /\ invitation'[n].email = t.user
    BY <2>2, <2>3, <2>5, NoneAssumption DEF Pending
  <2>9. \A i \in Invites : i # n =>
           /\ Pending(i)' <=> (Pending(i) /\ i \notin t.lapsed)
           /\ Pending(i)' => invitation'[i] = invitation[i]
    BY <2>5 DEF Pending
  <2>10. \A i \in Invites : i # n /\ Pending(i)' => invitation'[i].email # t.user
    BY <2>1, <2>9 DEF PendingFor
  <2>11. OnePending'
    <3>1. \A i, j \in Invites :
             Pending(i)' /\ Pending(j)' /\ invitation'[i].email = invitation'[j].email => i = j
      BY <2>8, <2>9, <2>10 DEF Inv, OnePending
    <3>2. \A i \in Invites : Pending(i)' => ~Current(invitation'[i].email)
      BY <2>1, <2>8, <2>9 DEF Inv, OnePending
    <3>3. \A u : Current(u)' <=> Current(u)
      BY <1>1 DEF Current
    <3> QED  BY <3>1, <3>2, <3>3 DEF OnePending
  <2>12. /\ \A i \in Invites : <<"invitation", i>> \in Writes(t) <=> i \in t.lapsed
         /\ \A u \in Users : <<"address", u>> \in Writes(t) <=> u = t.user
    BY <2>1
  <2>13. \A i \in t.lapsed : ~Pending(i)'
    BY <2>5 DEF Pending
  <2>14. Frame(Writes(t))
    <3> HIDE DEF new
    <3>1. \A u : Current(u)' <=> Current(u)
      BY <1>1 DEF Current
    <3>2. \A i \in Invites : <<"invitation", i>> \notin Writes(t) =>
            \/ /\ Pending(i) /\ Pending(i)'
               /\ invitation'[i].email = invitation[i].email
               /\ invitation'[i].role = invitation[i].role
            \/ ~Pending(i) /\ ~Pending(i)'
            \/ ~Pending(i) /\ Pending(i)' /\ <<"address", invitation'[i].email>> \in Writes(t)
      <4> SUFFICES ASSUME NEW i \in Invites, i \notin t.lapsed
                   PROVE
            \/ /\ Pending(i) /\ Pending(i)'
               /\ invitation'[i].email = invitation[i].email
               /\ invitation'[i].role = invitation[i].role
            \/ ~Pending(i) /\ ~Pending(i)'
            \/ ~Pending(i) /\ Pending(i)' /\ <<"address", invitation'[i].email>> \in Writes(t)
        BY <2>12
      <4>1. CASE i = n  BY <4>1, <2>1, <2>8, <2>12
      <4>2. CASE i # n  BY <4>2, <2>9
      <4> QED  BY <4>1, <4>2
    <3>3. \A i \in Invites : <<"invitation", i>> \in Writes(t) /\ Pending(i)' =>
            Pending(i) /\ invitation'[i].email = invitation[i].email
      BY <2>12, <2>13
    <3> QED  BY <1>1, <3>1, <3>2, <3>3 DEF Frame
  <2> QED  BY <1>2, <2>7, <2>11, <2>14, SurvivorsDisjoint, WriteKeeps DEF CommitInvitation
<1>4. CASE t.kind \in {"revoke_invitation", "resend"}
  <2>1. /\ t.inv \in Invites /\ Pending(t.inv)
        /\ Writes(t) = {<<"invitation", t.inv>>}
    BY <1>1, <1>4 DEF Transaction, Sound, SoundAnswer, Writes
  <2>2. invitation[t.inv] \in Invitation
    BY <2>1 DEF Inv, TypeOK, Pending
  <2> DEFINE old == invitation[t.inv]
  <2>3. /\ invitation'[t.inv] \in Invitation
        /\ \A i \in Invites : i # t.inv => invitation'[i] = invitation[i]
        /\ invitation' \in [Invites -> Invitation \cup {None}]
        /\ Pending(t.inv)' => invitation'[t.inv].email = invitation[t.inv].email
    <3>1. CASE t.kind = "revoke_invitation"
      <4>1. invitation' = [invitation EXCEPT ![t.inv] = [status |-> "revoked"]]
        BY <1>4, <3>1 DEF CommitInvitation
      <4>2. [status |-> "revoked"] \in Invitation
        BY DEF Invitation
      <4> QED  BY <2>1, <4>1, <4>2 DEF Inv, TypeOK, Pending
    <3>2. CASE t.kind = "resend"
      <4>1. invitation' = [invitation EXCEPT ![t.inv] = [old EXCEPT !.lapsed = FALSE]]
        BY <1>4, <2>1, <3>2 DEF CommitInvitation
      <4>2. /\ [old EXCEPT !.lapsed = FALSE] \in Invitation
            /\ [old EXCEPT !.lapsed = FALSE].email = old.email
        BY <2>1, <2>2 DEF Invitation, Pending
      <4> HIDE DEF old
      <4>3. /\ invitation'[t.inv] = [old EXCEPT !.lapsed = FALSE]
            /\ \A i \in Invites : i # t.inv => invitation'[i] = invitation[i]
            /\ invitation' \in [Invites -> Invitation \cup {None}]
        BY <2>1, <4>1, <4>2 DEF Inv, TypeOK
      <4> QED  BY <4>2, <4>3 DEF old
    <3> QED  BY <1>4, <3>1, <3>2
  <2>4. TypeOK'
    BY <1>1, <2>3, SurvivorsDisjoint DEF CommitInvitation, Inv, TypeOK
  <2>5. \A i \in Invites : Pending(i)' =>
           Pending(i) /\ invitation'[i].email = invitation[i].email
    BY <2>1, <2>3 DEF Pending
  <2>6. OnePending'
    BY <1>1, <2>5 DEF Inv, OnePending, Current
  <2>7. Frame(Writes(t))
    BY <1>1, <2>1, <2>3, <2>5 DEF Frame, Current, Pending
  <2> QED  BY <1>2, <2>4, <2>6, <2>7, SurvivorsDisjoint, WriteKeeps DEF CommitInvitation
<1> QED  BY <1>3, <1>4 DEF CommitInvitation

LEMMA AcceptanceCommit == ASSUME Inv, NEW t \in open, CommitAcceptance(t) PROVE Inv'
<1>1. /\ t \in Transaction /\ Sound(t) /\ t.kind \in {"accept", "accept_new"}
      /\ UNCHANGED role
  BY DEF Inv, TypeOK, CommitAcceptance
<1>2. /\ t.inv \in Invites /\ t.user \in Users
      /\ Pending(t.inv) /\ invitation[t.inv].email = t.user /\ ~Current(t.user)
      /\ <<"invitation", t.inv>> \in Writes(t) /\ <<"member", t.user>> \in Writes(t)
      /\ \A i : <<"invitation", i>> \in Writes(t) => i = t.inv
      /\ \A u : <<"member", u>> \in Writes(t) => u = t.user
  BY <1>1 DEF Transaction, Sound, SoundAcceptance, Writes
<1>3. invitation[t.inv].role \in Roles
  BY <1>2, NoneAssumption DEF Inv, TypeOK, Pending, Invitation
<1>4. /\ member'[t.user] = [status |-> "active", role |-> invitation[t.inv].role]
      /\ \A u \in Users \ {t.user} : member'[u] = member[u]
      /\ member' \in [Users -> Member]
  BY <1>2, <1>3 DEF CommitAcceptance, Joined, Member, Inv, TypeOK
<1>5. /\ invitation'[t.inv] = [status |-> "accepted"]
      /\ \A i \in Invites \ {t.inv} : invitation'[i] = invitation[i]
      /\ invitation' \in [Invites -> Invitation \cup {None}]
  BY <1>2 DEF CommitAcceptance, Invitation, Inv, TypeOK
<1>6. /\ account' \in [Users -> {"absent", "active", "disabled", "closed"}]
      /\ account[Founder] = "active" => account'[Founder] = "active"
  BY <1>2, ConstantsAssumption DEF CommitAcceptance, Inv, TypeOK
<1>7. TypeOK'
  BY <1>1, <1>4, <1>5, <1>6, SurvivorsDisjoint DEF CommitAcceptance, Inv, TypeOK
<1>8. t.user # Founder
  BY <1>2 DEF Inv, FounderKept, Current
<1>9. FounderKept'
  BY <1>4, <1>6, <1>8, ConstantsAssumption DEF Inv, FounderKept
<1>10. ~Pending(t.inv)' /\ \A i \in Invites \ {t.inv} : Pending(i)' <=> Pending(i)
  BY <1>5 DEF Pending
<1>11. OnePending'
  <2>1. \A i \in Invites \ {t.inv} : Pending(i) => invitation[i].email # t.user
    BY <1>2 DEF Inv, OnePending
  <2>2. \A i \in Invites : Pending(i) => invitation[i].email \in Users
    BY NoneAssumption DEF Inv, TypeOK, Pending, Invitation
  <2>3. \A u \in Users \ {t.user} : Current(u)' <=> Current(u)
    BY <1>4 DEF Current
  <2>4. \A i \in Invites : Pending(i)' =>
           /\ Pending(i) /\ invitation'[i].email = invitation[i].email
           /\ invitation[i].email \in Users \ {t.user}
    BY <1>5, <1>10, <2>1, <2>2
  <2>5. \A i \in Invites : Pending(i) => ~Current(invitation[i].email)
    BY DEF Inv, OnePending
  <2>6. \A i \in Invites : Pending(i)' =>
           member'[invitation'[i].email].status \notin {"active", "suspended"}
    BY <2>3, <2>4, <2>5 DEF Current
  <2>7. \A i, j \in Invites :
           Pending(i)' /\ Pending(j)' /\ invitation'[i].email = invitation'[j].email => i = j
    BY <2>4 DEF Inv, OnePending
  <2> QED  BY <2>6, <2>7 DEF OnePending, Current
<1>12. Frame(Writes(t))
  <2>1. \A u \in Users :
          Current(u)' /\ ~Current(u) =>
            \E i \in PendingFor(u) : <<"invitation", i>> \in Writes(t)
    BY <1>2, <1>4 DEF Current, PendingFor
  <2> QED  BY <1>2, <1>4, <1>5, <1>10, <2>1 DEF Frame
<1> QED  BY <1>7, <1>9, <1>11, <1>12, SurvivorsDisjoint, WriteKeeps DEF CommitAcceptance

LEMMA AbortStep == ASSUME Inv, NEW t \in open, Abort(t) PROVE Inv'
<1>1. UNCHANGED <<account, member, role, invitation>> /\ open' \subseteq open
  BY DEF Abort
<1>2. TypeOK' /\ FounderKept' /\ OnePending' /\ Frame({})
  BY <1>1 DEF Inv, TypeOK, FounderKept, OnePending, Frame, Pending, Current
<1>3. \A o \in open' : o \in open /\ Writes(o) \cap {} = {}
  BY <1>1
<1> QED  BY <1>2, <1>3, WriteKeeps

-----------------------------------------------------------------------------
(* Theorems.                                                               *)

\* The invariant holds after the bootstrap.
LEMMA InitInv == Init => Inv
<1> SUFFICES ASSUME Init PROVE Inv
  OBVIOUS
<1>1. TypeOK
  BY ConstantsAssumption DEF Init, TypeOK, NoMember, NoRole, Member, Role, Roles, System
<1>2. FounderKept
  BY ConstantsAssumption DEF Init, FounderKept
<1>3. OnePending
  BY DEF Init, OnePending, Pending
<1> QED  BY <1>1, <1>2, <1>3 DEF Init, Inv

\* Every operation, commit, abort and lapse keeps the invariant: what an open
\* transaction found about the documents it writes is still true.
THEOREM Inductive == Inv /\ [Next]_vars => Inv'
<1> SUFFICES ASSUME Inv, [Next]_vars PROVE Inv'
  OBVIOUS
<1>1. CASE UNCHANGED vars
  <2>1. TypeOK' /\ FounderKept' /\ OnePending'
    BY <1>1 DEF vars, Inv, TypeOK, FounderKept, OnePending, Pending, Current
  <2>2. Frame({}) /\ \A o \in open' : o \in open /\ Writes(o) \cap {} = {}
    BY <1>1 DEF vars, Frame, Pending, Current
  <2> QED  BY <2>1, <2>2, WriteKeeps
<1>2. CASE CommitNext
  BY <1>2, MemberCommit, RoleCommit, InvitationCommit, AcceptanceCommit, AbortStep
     DEF CommitNext
<1> QED
  BY <1>1, <1>2, TeamStep, RoleStep, InvitationStep, AccountStep DEF Next

THEOREM Invariance == Spec => []Inv
BY InitInv, Inductive, PTL DEF Spec

\* The type invariant.
THEOREM TypeCorrect == Spec => []TypeOK
<1>1. Inv => TypeOK
  BY DEF Inv
<1> QED  BY <1>1, Invariance, PTL

\* SuperRemains: an active super administrator with an active account, always.
THEOREM SuperRemainsHolds == Spec => []SuperRemains
<1>1. Inv => SuperRemains
  BY ConstantsAssumption DEF Inv, FounderKept, SuperRemains, ActiveSupers
<1> QED  BY <1>1, Invariance, PTL

\* NoSecondWayIn: one pending invitation of an address, none of a member.
THEOREM WayInUnique == Spec => []NoSecondWayIn
<1>1. ASSUME Inv, NEW u \in Users
      PROVE  Cardinality(PendingFor(u)) <= 1 /\ (Current(u) => PendingFor(u) = {})
  <2>1. \A i, j \in PendingFor(u) : i = j
    BY <1>1 DEF Inv, OnePending, PendingFor
  <2>2. Current(u) => PendingFor(u) = {}
    BY <1>1 DEF Inv, OnePending, PendingFor
  <2>3. CASE PendingFor(u) = {}
    <3>1. Cardinality(PendingFor(u)) = 0
      BY <2>3, FS_EmptySet
    <3> QED  BY <2>2, <3>1
  <2>4. CASE PendingFor(u) # {}
    <3>1. PICK i : PendingFor(u) = {i}
      BY <2>1, <2>4
    <3>2. Cardinality({i}) = 1
      BY FS_Singleton
    <3> QED  BY <2>2, <3>1, <3>2
  <2> QED  BY <2>3, <2>4
<1>2. Inv => NoSecondWayIn
  BY <1>1 DEF NoSecondWayIn
<1> QED  BY <1>2, Invariance, PTL

\* SupersByPeers: a super administrator is made, demoted or suspended only by a
\* transaction of a super administrator, or on the invitation of one.
THEOREM SupersMovedByPeers == Spec => SupersByPeers
<1>1. ASSUME Inv, [Next]_vars, NEW u \in Users, u \in Supers \cup Supers', member'[u] # member[u]
      PROVE  \E t \in open \ open' : t.kind \in Granting /\ t.super /\ t.user = u
  <2>1. PICK t \in open : CommitMember(t) \/ CommitAcceptance(t)
    BY <1>1 DEF Next, vars, TeamNext, RoleNext, InvitationNext, AccountNext, CommitNext,
       UpdateMemberRole, SuspendMember, ReactivateMember, RevokeMember, CreateRole,
       UpdateRole, ArchiveRole, Invite, RevokeInvitation, ResendInvitation,
       AcceptInvitation, AcceptNewInvitation, Begin, Lapse, ListInvitations, Register,
       CloseAccount, DisableUser, EnableUser, CommitRole, CommitInvitation, Abort
  <2>2. t \in Transaction /\ Sound(t) /\ t \notin open'
    BY <1>1, <2>1 DEF Inv, TypeOK, CommitMember, CommitAcceptance, Commit, Surviving
  <2>3. CASE CommitMember(t)
    <3>1. t.kind \in Managing /\ t.user \in Users
      BY <2>2, <2>3 DEF CommitMember, Managing, Transaction
    <3>2. t.user = u
      BY <1>1, <2>3, <3>1 DEF CommitMember, Inv, TypeOK
    <3>3. member[u].role = "super_admin" => t.super
      BY <2>2, <3>1, <3>2 DEF Sound, SoundManagement
    <3>4. u \in Supers' => member'[u].role = "super_admin"
      BY DEF Supers
    <3>5. u \in Supers => member[u].role = "super_admin"
      BY DEF Supers
    <3>6. member[u] \in Member
      BY <1>1 DEF Inv, TypeOK
    <3>7. \/ member'[u].role = member[u].role
          \/ t.kind = "set_role" /\ member'[u].role = t.role
      BY <1>1, <2>3, <3>2, <3>6 DEF CommitMember, Member, NoMember, Inv, TypeOK
    <3>8. t.super
      BY <1>1, <2>2, <3>1, <3>3, <3>4, <3>5, <3>7 DEF Sound, SoundManagement
    <3> QED  BY <2>2, <3>1, <3>2, <3>8 DEF Granting, Managing
  <2>4. CASE CommitAcceptance(t)
    <3>1. /\ t.kind \in {"accept", "accept_new"} /\ t.user \in Users
          /\ ~Current(t.user)
          /\ invitation[t.inv].role = "super_admin" => t.super
      BY <2>2, <2>4 DEF CommitAcceptance, Transaction, Sound, SoundAcceptance
    <3>2. t.user = u
      BY <1>1, <2>4, <3>1 DEF CommitAcceptance, Inv, TypeOK
    <3>3. member'[u].role = invitation[t.inv].role
      BY <1>1, <2>4, <3>2 DEF CommitAcceptance, Joined, Inv, TypeOK
    <3>4. u \in Supers'
      BY <1>1, <3>1, <3>2 DEF Supers
    <3> QED  BY <2>2, <3>1, <3>2, <3>3, <3>4 DEF Supers, Granting
  <2> QED  BY <2>1, <2>3, <2>4
<1>2. Inv /\ [Next]_vars =>
        [\A u \in Users :
           (u \in Supers \cup Supers' /\ member'[u] # member[u]) =>
              \E t \in open \ open' : t.kind \in Granting /\ t.super /\ t.user = u]_vars
  BY <1>1
<1> QED  BY <1>2, Invariance, PTL DEF Spec, SupersByPeers

=============================================================================
