----------------------------- MODULE PlatformTeam -----------------------------
(***************************************************************************)
(* Who administers the platform: the members of its team, the system and   *)
(* custom roles they hold, the invitations that bring them in, the founder *)
(* and the accounts behind them.                                           *)
(*                                                                         *)
(* Every operation runs in a MongoDB transaction.  A transaction reads a   *)
(* snapshot: the authority of its actor, the member, role or invitation it *)
(* is about, what it counts.  It commits unless a document or a unique key *)
(* it writes was written since; then it aborts and is retried from its     *)
(* first read.  What it only read may have changed: two transactions that  *)
(* write different documents both commit, even when each would have        *)
(* refused after the other.  Begin is the snapshot and every check made on *)
(* it; `open` holds the transactions that passed their checks; Commit      *)
(* writes, and aborts the open transactions it conflicts with.             *)
(*                                                                         *)
(* Data kept abstract: an e-mail is its user; the permissions of the       *)
(* registry are the consultations, one for the mutations a preset may hold *)
(* (team and accounts) and one for the reserved ones; an expiry is a lapse  *)
(* that happens once; a link that a resend replaced is refused, so an      *)
(* answer presents the latest one; of the memberships of a user only the   *)
(* latest is kept, the earlier ones being revoked.  An account is written  *)
(* by single guarded updates, one action each.                             *)
(***************************************************************************)
EXTENDS Integers, FiniteSets

CONSTANTS
    Users,          \* e-mail identities, registered or not
    Founder,        \* the account of the seed
    Legacy,         \* accounts whose User.platformRole is super_admin
    Consultations,  \* permissions to read
    Presets,        \* ordinary system roles
    PresetOf,       \* the permissions of each of them
    Custom,         \* identifiers of custom roles
    Invites,        \* identifiers of PlatformInvitation documents
    InFlight,       \* bound: open transactions
    None            \* the null of the documents

Permissions == Consultations \cup {"manage", "reserved"}
Reserved    == {"reserved"}
System      == Presets \cup {"super_admin"}
Roles       == System \cup Custom

ASSUME ConstantsAssumption ==
    /\ IsFiniteSet(Users)
    /\ Founder \in Legacy /\ Legacy \subseteq Users
    /\ "super_admin" \notin Presets \cup Custom
    /\ Presets \cap Custom = {}
    /\ PresetOf \in [Presets -> SUBSET (Permissions \ Reserved)]
    /\ InFlight \in Nat

VARIABLES
    account,        \* User.status of each identity
    member,         \* the latest PlatformTeamMember of each user
    role,           \* custom PlatformRole documents
    invitation,     \* PlatformInvitation documents
    open            \* transactions that passed their checks and not yet committed

vars == <<account, member, role, invitation, open>>

-----------------------------------------------------------------------------
(* The documents and the transactions.                                     *)

NoMember == [status |-> "none", role |-> "super_admin"]

Member ==
    {NoMember} \cup [status : {"active", "suspended", "revoked"}, role : Roles]

NoRole == [status |-> "absent", permissions |-> {}]

Role == [status : {"absent", "active", "archived"},
         permissions : SUBSET (Permissions \ Reserved)]

\* Of an invitation that was answered nothing but its status is read.
Invitation ==
    [status : {"pending"}, email : Users, role : Roles, by : Users, lapsed : BOOLEAN]
    \cup [status : {"accepted", "revoked", "expired"}]

ASSUME NoneAssumption == None \notin Invitation

\* `super` is what loadActorAuthorization said of the actor, or of the inviter
\* whose invitation is accepted, on the snapshot.
Transaction ==
    [kind : {"set_role"}, super : BOOLEAN, user : Users, role : Roles]
    \cup [kind : {"suspend", "reactivate", "revoke"}, super : BOOLEAN, user : Users]
    \cup [kind : {"create_role"}, permissions : SUBSET (Permissions \ Reserved)]
    \cup [kind : {"update_role"}, role : Custom,
          permissions : SUBSET (Permissions \ Reserved)]
    \cup [kind : {"archive_role"}, role : Custom]
    \cup [kind : {"invite"}, user : Users, role : Roles, by : Users,
          lapsed : SUBSET Invites]
    \cup [kind : {"revoke_invitation", "resend"}, inv : Invites]
    \cup [kind : {"accept", "accept_new"}, super : BOOLEAN, user : Users, inv : Invites]

TypeOK ==
    /\ account \in [Users -> {"absent", "active", "disabled", "closed"}]
    /\ member \in [Users -> Member]
    /\ role \in [Custom -> Role]
    /\ invitation \in [Invites -> Invitation \cup {None}]
    /\ open \subseteq Transaction

-----------------------------------------------------------------------------
(* Roles, authority and what it allows.                                    *)

RoleActive(r) == r \in System \/ (r \in Custom /\ role[r].status = "active")

\* The super administrator holds the whole registry whatever its document says.
PermissionsOf(r) ==
    IF r = "super_admin" THEN Permissions
    ELSE IF r \in Presets THEN PresetOf[r] ELSE role[r].permissions

Current(u)    == member[u].status \in {"active", "suspended"}
Historical(u) == member[u].status = "revoked"

\* The transitional authority of an account that never was in the team.
LegacyAuthority(u) == u \in Legacy /\ ~Current(u) /\ ~Historical(u)

\* A role that is not active makes the resolution fail, which refuses.
HoldsRole(u) == member[u].status = "active" /\ RoleActive(member[u].role)

IsSuper(u) ==
    LegacyAuthority(u) \/ (HoldsRole(u) /\ member[u].role = "super_admin")

Power(u) ==
    IF IsSuper(u) THEN Permissions
    ELSE IF HoldsRole(u) THEN PermissionsOf(member[u].role) ELSE {}

IsFounder(u) == u = Founder /\ Current(u)

StrictlyBelow(a, r) == PermissionsOf(r) \subseteq Power(a) /\ PermissionsOf(r) # Power(a)

\* assertActorCanManageMember
CanManage(a, u) ==
    /\ ~IsFounder(u)
    /\ u # a
    /\ \/ IsSuper(a)
       \/ /\ member[u].role # "super_admin"
          /\ RoleActive(member[u].role)
          /\ StrictlyBelow(a, member[u].role)

\* assertActorCanAssignRole
CanAssign(a, r) ==
    /\ RoleActive(r)
    /\ \/ IsSuper(a)
       \/ r # "super_admin" /\ StrictlyBelow(a, r)

ActiveSupers == {u \in Users : member[u] = [status |-> "active", role |-> "super_admin"]}

\* assertActiveSuperAdminCanLoseActiveStatus
CanLoseSuper(u) == u \in ActiveSupers => Cardinality(ActiveSupers) > 1

\* Permission sets of the active roles but one: no custom role repeats one.
ActiveSetsBut(c) ==
    {PermissionsOf(r) : r \in {q \in Roles \ {c} : RoleActive(q)}}

Pending(i) == invitation[i] # None /\ invitation[i].status = "pending"
Answerable(i) == Pending(i) /\ ~invitation[i].lapsed
PendingFor(u) == {i \in Invites : Pending(i) /\ invitation[i].email = u}

\* authenticate read an active account, which may have been disabled since:
\* the transaction does not read it again.
Authenticated(a) == account[a] # "absent"

-----------------------------------------------------------------------------
(* The bootstrap: the founder is a super administrator of the team, the    *)
(* other former super administrators have no membership yet.               *)

Init ==
    /\ account = [u \in Users |-> IF u \in Legacy THEN "active" ELSE "absent"]
    /\ member = [u \in Users |->
                   IF u = Founder THEN [status |-> "active", role |-> "super_admin"]
                   ELSE NoMember]
    /\ role = [c \in Custom |-> NoRole]
    /\ invitation = [i \in Invites |-> None]
    /\ open = {}

-----------------------------------------------------------------------------
(* What each operation checks on its snapshot, and the transaction it      *)
(* leaves to commit.                                                       *)

Begin(t) ==
    /\ Cardinality(open) < InFlight
    /\ open' = open \cup {t}
    /\ UNCHANGED <<account, member, role, invitation>>

Manager(a, u) ==
    /\ Authenticated(a)
    /\ "manage" \in Power(a)
    /\ Current(u)
    /\ CanManage(a, u)

UpdateMemberRole(a, u, r) ==
    /\ Manager(a, u)
    /\ CanAssign(a, r)
    /\ member[u].role # r
    /\ r # "super_admin" => CanLoseSuper(u)
    /\ Begin([kind |-> "set_role", super |-> IsSuper(a), user |-> u, role |-> r])

SuspendMember(a, u) ==
    /\ Manager(a, u)
    /\ member[u].status = "active"
    /\ CanLoseSuper(u)
    /\ Begin([kind |-> "suspend", super |-> IsSuper(a), user |-> u])

ReactivateMember(a, u) ==
    /\ Manager(a, u)
    /\ member[u].status = "suspended"
    /\ CanAssign(a, member[u].role)
    /\ Begin([kind |-> "reactivate", super |-> IsSuper(a), user |-> u])

RevokeMember(a, u) ==
    /\ Manager(a, u)
    /\ CanLoseSuper(u)
    /\ Begin([kind |-> "revoke", super |-> IsSuper(a), user |-> u])

\* assertCanGovernCustomPlatformRoles and the permission of the operation.
Governor(a) ==
    /\ Authenticated(a)
    /\ "reserved" \in Power(a)
    /\ IsSuper(a) \/ IsFounder(a)

\* assertCustomPlatformRolePermissions
Grantable(a, ps) == IsSuper(a) \/ (ps \subseteq Power(a) /\ ps # Power(a))

CreateRole(a, ps) ==
    /\ Governor(a)
    /\ Grantable(a, ps)
    /\ ps \notin ActiveSetsBut(None)
    /\ Begin([kind |-> "create_role", permissions |-> ps])

\* assertCustomPlatformRoleIsMutable
Mutable(a, c) ==
    /\ role[c].status = "active"
    /\ IsSuper(a) \/ StrictlyBelow(a, c)

UpdateRole(a, c, ps) ==
    /\ Governor(a)
    /\ Mutable(a, c)
    /\ Grantable(a, ps)
    /\ ps \notin ActiveSetsBut(c)
    /\ Begin([kind |-> "update_role", role |-> c, permissions |-> ps])

ArchiveRole(a, c) ==
    /\ Governor(a)
    /\ Mutable(a, c)
    /\ ~\E u \in Users : Current(u) /\ member[u].role = c
    /\ Begin([kind |-> "archive_role", role |-> c])

\* Once the lapsed ones are marked expired, the address has no pending one.
NoneActive(u) == \A i \in PendingFor(u) : invitation[i].lapsed

Invite(a, u, r) ==
    /\ Authenticated(a)
    /\ "manage" \in Power(a)
    /\ CanAssign(a, r)
    /\ ~Current(u)
    /\ NoneActive(u)
    /\ Begin([kind |-> "invite", user |-> u, role |-> r, by |-> a,
              lapsed |-> {i \in PendingFor(u) : invitation[i].lapsed}])

RevokeInvitation(a, i) ==
    /\ Authenticated(a)
    /\ "manage" \in Power(a)
    /\ Answerable(i)
    /\ Begin([kind |-> "revoke_invitation", inv |-> i])

ResendInvitation(a, i) ==
    /\ Authenticated(a)
    /\ "manage" \in Power(a)
    /\ Answerable(i)
    /\ CanAssign(a, invitation[i].role)
    /\ Begin([kind |-> "resend", inv |-> i])

\* loadAcceptableInvitation asks again for the authority of the inviter.
Vouched(i) ==
    /\ account[invitation[i].by] = "active"
    /\ CanAssign(invitation[i].by, invitation[i].role)

AcceptInvitation(u, i) ==
    /\ account[u] = "active"
    /\ Answerable(i)
    /\ Vouched(i)
    /\ invitation[i].email = u
    /\ ~Current(u)
    /\ Begin([kind |-> "accept", super |-> IsSuper(invitation[i].by),
              user |-> u, inv |-> i])

AcceptNewInvitation(i) ==
    /\ Answerable(i)
    /\ Vouched(i)
    /\ account[invitation[i].email] = "absent"
    /\ Begin([kind |-> "accept_new", super |-> IsSuper(invitation[i].by),
              user |-> invitation[i].email, inv |-> i])

-----------------------------------------------------------------------------
(* Commit and abort.                                                       *)

\* Mutant of MemberKey: a role and a status are two fields, saved apart.
MemberField(t) ==
    IF t.kind = "set_role" THEN <<"member role", t.user>> ELSE <<"member", t.user>>

\* A membership is saved as one document.
MemberKey(t) == <<"member", t.user>>

\* The documents and unique keys a transaction writes: a membership stands
\* for the key of its user, an address for its pending invitation.
Writes(t) ==
    CASE t.kind \in {"set_role", "suspend", "reactivate", "revoke"} -> {MemberKey(t)}
      [] t.kind = "create_role" -> {}
      [] t.kind \in {"update_role", "archive_role"} -> {<<"role", t.role>>}
      [] t.kind = "invite" ->
            {<<"address", t.user>>} \cup {<<"invitation", i>> : i \in t.lapsed}
      [] t.kind \in {"revoke_invitation", "resend"} -> {<<"invitation", t.inv>>}
      [] t.kind = "accept" -> {<<"invitation", t.inv>>, <<"member", t.user>>}
      [] t.kind = "accept_new" ->
            {<<"invitation", t.inv>>, <<"member", t.user>>, <<"account", t.user>>}

\* First committer wins.
Surviving(t) == {o \in open \ {t} : Writes(o) \cap Writes(t) = {}}

Commit(t) == t \in open /\ open' = Surviving(t)

\* createPlatformMembership
Joined(r) == [status |-> "active", role |-> r]

CommitMember(t) ==
    /\ Commit(t)
    /\ \/ t.kind = "set_role" /\ member' = [member EXCEPT ![t.user].role = t.role]
       \/ t.kind = "suspend" /\ member' = [member EXCEPT ![t.user].status = "suspended"]
       \/ t.kind = "reactivate" /\ member' = [member EXCEPT ![t.user].status = "active"]
       \/ t.kind = "revoke" /\ member' = [member EXCEPT ![t.user].status = "revoked"]
    /\ UNCHANGED <<account, role, invitation>>

CommitRole(t) ==
    /\ Commit(t)
    /\ \/ /\ t.kind = "create_role"
          /\ \E c \in Custom :
                /\ role[c] = NoRole
                /\ role' = [role EXCEPT ![c] =
                              [status |-> "active", permissions |-> t.permissions]]
       \/ /\ t.kind = "update_role"
          /\ role' = [role EXCEPT ![t.role].permissions = t.permissions]
       \/ /\ t.kind = "archive_role"
          /\ role' = [role EXCEPT ![t.role].status = "archived"]
    /\ UNCHANGED <<account, member, invitation>>

\* Mutant of Expired: the lapsed invitations of the address stay pending.
ExpiredNone(lapsed) == invitation

\* expirePendingPlatformInvitations
Expired(lapsed) ==
    [i \in Invites |-> IF i \in lapsed THEN [status |-> "expired"]
                       ELSE invitation[i]]

CommitInvitation(t) ==
    /\ Commit(t)
    /\ \/ /\ t.kind = "invite"
          /\ \E i \in Invites :
                /\ invitation[i] = None
                /\ invitation' = [Expired(t.lapsed) EXCEPT ![i] =
                     [status |-> "pending", email |-> t.user, role |-> t.role,
                      by |-> t.by, lapsed |-> FALSE]]
       \/ /\ t.kind = "revoke_invitation"
          /\ invitation' = [invitation EXCEPT ![t.inv] = [status |-> "revoked"]]
       \/ /\ t.kind = "resend"
          /\ invitation' = [invitation EXCEPT ![t.inv].lapsed = FALSE]
    /\ UNCHANGED <<account, member, role>>

\* The membership and the answer are written together, the account too when
\* the invited person had none.
CommitAcceptance(t) ==
    /\ Commit(t)
    /\ t.kind \in {"accept", "accept_new"}
    /\ member' = [member EXCEPT ![t.user] = Joined(invitation[t.inv].role)]
    /\ invitation' = [invitation EXCEPT ![t.inv] = [status |-> "accepted"]]
    /\ account' = IF t.kind = "accept_new" THEN [account EXCEPT ![t.user] = "active"]
                  ELSE account
    /\ UNCHANGED role

\* A write conflict with what is not modelled, or the death of the process.
Abort(t) ==
    /\ t \in open
    /\ open' = open \ {t}
    /\ UNCHANGED <<account, member, role, invitation>>

-----------------------------------------------------------------------------
(* Time, and the writes that are no transaction of the team.               *)

Lapse(i) ==
    /\ Answerable(i)
    /\ invitation' = [invitation EXCEPT ![i].lapsed = TRUE]
    /\ UNCHANGED <<account, member, role, open>>

LapsedPending == {i \in Invites : Pending(i) /\ invitation[i].lapsed}

\* The list first marks every lapsed invitation.
ListInvitations ==
    /\ LapsedPending # {}
    /\ invitation' = Expired(LapsedPending)
    /\ open' = {t \in open : \A i \in LapsedPending : <<"invitation", i>> \notin Writes(t)}
    /\ UNCHANGED <<account, member, role>>

Register(u) ==
    /\ account[u] = "absent"
    /\ account' = [account EXCEPT ![u] = "active"]
    /\ open' = {t \in open : <<"account", u>> \notin Writes(t)}
    /\ UNCHANGED <<member, role, invitation>>

\* Mutant of Protected: the last active super administrator is protected.
ProtectedLast(u) == ActiveSupers = {u}

\* assertUserIsNotPlatformFounder
Protected(u) == IsFounder(u)

DisableUser(a, u) ==
    /\ Authenticated(a) /\ "manage" \in Power(a)
    /\ u # a
    /\ account[u] = "active"
    /\ ~Protected(u)
    /\ account' = [account EXCEPT ![u] = "disabled"]
    /\ UNCHANGED <<member, role, invitation, open>>

EnableUser(a, u) ==
    /\ Authenticated(a) /\ "manage" \in Power(a)
    /\ account[u] = "disabled"
    /\ account' = [account EXCEPT ![u] = "active"]
    /\ UNCHANGED <<member, role, invitation, open>>

\* The former super administrators, counted by the flag of their account.
ActiveLegacy == {u \in Legacy : account[u] = "active"}

\* The closure leaves the membership of the team as it is.
CloseAccount(u) ==
    /\ account[u] = "active"
    /\ ~Protected(u)
    /\ u \in Legacy => Cardinality(ActiveLegacy) > 1
    /\ account' = [account EXCEPT ![u] = "closed"]
    /\ UNCHANGED <<member, role, invitation, open>>

-----------------------------------------------------------------------------

TeamNext ==
    \E a, u \in Users :
        \/ \E r \in Roles : UpdateMemberRole(a, u, r)
        \/ SuspendMember(a, u)
        \/ ReactivateMember(a, u)
        \/ RevokeMember(a, u)

RoleNext ==
    \E a \in Users, ps \in SUBSET (Permissions \ Reserved) :
        \/ CreateRole(a, ps)
        \/ \E c \in Custom : UpdateRole(a, c, ps) \/ ArchiveRole(a, c)

InvitationNext ==
    \/ \E a, u \in Users, r \in Roles : Invite(a, u, r)
    \/ \E a \in Users, i \in Invites : RevokeInvitation(a, i) \/ ResendInvitation(a, i)
    \/ \E u \in Users, i \in Invites : AcceptInvitation(u, i)
    \/ \E i \in Invites : AcceptNewInvitation(i) \/ Lapse(i)
    \/ ListInvitations

AccountNext ==
    \/ \E u \in Users : Register(u) \/ CloseAccount(u)
    \/ \E a, u \in Users : DisableUser(a, u) \/ EnableUser(a, u)

CommitNext ==
    \E t \in open :
        CommitMember(t) \/ CommitRole(t) \/ CommitInvitation(t)
        \/ CommitAcceptance(t) \/ Abort(t)

Next == TeamNext \/ RoleNext \/ InvitationNext \/ AccountNext \/ CommitNext

Spec == Init /\ [][Next]_vars

-----------------------------------------------------------------------------
(* Properties.                                                             *)

\* Whatever is suspended, revoked, demoted, disabled or closed, and in whatever
\* order, an active super administrator with an active account remains: the
\* founder.  The counts that guard the last one are no protection under
\* snapshot isolation; the founder policy of every operation is.
SuperRemains == \E u \in ActiveSupers : account[u] = "active"

\* An address has at most one pending invitation, and none once its user is in
\* the team: a member who is removed cannot come back through an older link.
NoSecondWayIn ==
    \A u \in Users :
        /\ Cardinality(PendingFor(u)) <= 1
        /\ Current(u) => PendingFor(u) = {}

\* The transactions that write a membership.
Granting == {"set_role", "suspend", "reactivate", "revoke", "accept", "accept_new"}

Supers == {u \in Users : Current(u) /\ member[u].role = "super_admin"}

\* Nobody becomes, stops being or is suspended as a super administrator but by a
\* transaction whose actor, or inviter, was one when it was decided: in
\* particular one decided against an ordinary member never reaches the super
\* administrator he was made meanwhile.
SupersByPeers ==
    [][\A u \in Users :
          (u \in Supers \cup Supers' /\ member'[u] # member[u]) =>
             \E t \in open \ open' : t.kind \in Granting /\ t.super /\ t.user = u]_vars


=============================================================================
