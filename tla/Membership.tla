------------------------------- MODULE Membership -------------------------------
(***************************************************************************)
(* Who belongs to a workspace: memberships and their roles, the counter of *)
(* seats (UsageMetric "members"), invitations, custom roles, ownership     *)
(* transfer and its single-use authorization, workspace suspension,        *)
(* archive and closure, and the closure of an account.                     *)
(*                                                                         *)
(* A request passes its middlewares (authenticate, loadWorkspaceContext,   *)
(* the permission, the access mode, the feature, the delegation of the     *)
(* role) and only then runs its transaction, which reads again some of     *)
(* what they read and not the rest.  Admit(r) is the first half; a request *)
(* that is not delayed runs at once, a delayed one waits in `admitted`     *)
(* while anything else happens.                                            *)
(*                                                                         *)
(* Transactions run under snapshot isolation.  Two that write the same     *)
(* document (a membership, the counter, an invitation, the workspace, the  *)
(* unique key of an address) conflict and one is retried; two that do not  *)
(* leave what one of their orders leaves, because the documents they only  *)
(* read (a role, the entitlement, the account) are read as Admit(r) does,  *)
(* before the other commits.  So a transaction is one action.              *)
(*                                                                         *)
(* Data kept abstract: an e-mail is its user, a permission set is the role *)
(* that carries it, an expiry is a lapse that happens once, the effective  *)
(* entitlement is a plan that changes on its own (SubscriptionLifecycle).  *)
(***************************************************************************)
EXTENDS Integers, FiniteSets

CONSTANTS
    Workspaces,     \* workspaces that may exist
    Users,          \* e-mail identities, registered or not
    Invites,        \* identifiers of WorkspaceInvitation documents
    Custom,         \* custom roles a workspace may create
    Managing,       \* roles that carry the member and role permissions
    Plans,          \* effective entitlements a workspace may have
    Baseline,       \* the entitlement of a workspace without a contract
    SeatLimit,      \* the members limit of each plan
    Team,           \* plans with the team_management feature
    InFlight,       \* bound: requests admitted and not run yet
    MaxToken,       \* bound: resends of one invitation
    MaxAuth,        \* bound: transfer authorizations of one workspace
    None            \* the null of the documents

System == {"owner", "admin"}
Roles  == System \cup Custom

ASSUME ConstantsAssumption ==
    /\ IsFiniteSet(Users)
    /\ Managing \subseteq Roles
    /\ "owner" \in Managing
    /\ "owner" \notin Custom
    /\ Baseline \in Plans
    /\ SeatLimit \in [Plans -> Nat]
    /\ SeatLimit[Baseline] >= 1
    /\ Team \subseteq Plans
    /\ InFlight \in Nat /\ MaxToken \in Nat /\ MaxAuth \in Nat

VARIABLES
    account,        \* User.status of each identity
    status,         \* Workspace.status
    plan,           \* the effective entitlement of each workspace
    roles,          \* custom roles of each workspace
    member,         \* WorkspaceMember documents
    seats,          \* UsageMetric "members" of each workspace
    invitation,     \* WorkspaceInvitation documents
    authorization,  \* Workspace.ownershipTransferAuthorization
    version,        \* Workspace.ownershipVersion
    admitted        \* requests that passed their middlewares

vars == <<account, status, plan, roles, member, seats, invitation,
          authorization, version, admitted>>

-----------------------------------------------------------------------------
(* The documents and the requests.                                         *)

Absent == [status |-> "none", role |-> "none"]

Member ==
    {Absent} \cup [status : {"active", "suspended", "removed"}, role : Roles]

Invitation ==
    [ws : Workspaces, email : Users, role : Roles,
     status : {"pending", "accepted", "revoked", "expired"},
     lapsed : BOOLEAN, token : Nat]

Authorization ==
    [id : Nat, state : {"none", "active", "expired", "revoked", "consumed"}]

ASSUME NoneAssumption == None \notin Invitation

Request ==
    [kind : {"create"}, actor : Users, ws : Workspaces]
    \cup [kind : {"close_account"}, actor : Users]
    \cup [kind : {"archive"}, actor : Users, ws : Workspaces]
    \cup [kind : {"suspend", "remove"}, actor : Users, ws : Workspaces, user : Users]
    \cup [kind : {"set_role", "invite"}, actor : Users, ws : Workspaces,
          user : Users, role : Roles]
    \cup [kind : {"revoke", "resend"}, actor : Users, ws : Workspaces, inv : Invites]
    \cup [kind : {"accept"}, actor : Users, inv : Invites, token : 0..MaxToken]
    \cup [kind : {"create_role", "delete_role"}, actor : Users,
          ws : Workspaces, role : Custom]
    \cup [kind : {"transfer"}, actor : Users, ws : Workspaces, user : Users,
          role : Roles, auth : 0..MaxAuth]

TypeOK ==
    /\ account \in [Users -> {"absent", "active", "closed"}]
    /\ status \in [Workspaces -> {"absent", "active", "suspended", "archived", "closed"}]
    /\ plan \in [Workspaces -> Plans]
    /\ roles \in [Workspaces -> [Custom -> {"absent", "live", "deleted"}]]
    /\ member \in [Workspaces -> [Users -> Member]]
    /\ seats \in [Workspaces -> Nat]
    /\ invitation \in [Invites -> Invitation \cup {None}]
    /\ authorization \in [Workspaces -> Authorization]
    /\ version \in [Workspaces -> Nat]
    /\ admitted \subseteq Request

-----------------------------------------------------------------------------
(* Helpers.                                                                *)

\* active and suspended members both occupy a seat.
Holds(w, u) == member[w][u].status \in {"active", "suspended"}
Holders(w)  == {u \in Users : Holds(w, u)}

IsOwner(w, u) == Holds(w, u) /\ member[w][u].role = "owner"
Owners(w)     == {u \in Users : IsOwner(w, u)}

\* Role.findOne({_id, workspace}), as the services call it: a role that was
\* soft-deleted is still found.
RoleFound(w, r) == r \in System \cup {c \in Custom : roles[w][c] # "absent"}

\* The delegation middleware also asks for deletedAt: null.
RoleLive(w, r) == r \in System \cup {c \in Custom : roles[w][c] = "live"}

Pending(i)      == invitation[i] # None /\ invitation[i].status = "pending"
PendingFor(w, u) ==
    {i \in Invites : Pending(i) /\ invitation[i].ws = w /\ invitation[i].email = u}

\* No membership, or a removed one.
Outsider(w, u) == ~Holds(w, u)

\* Mutant of SeatFree: an off by one in the bound of the filter.
SeatAtLimit(w) == seats[w] <= SeatLimit[plan[w]]

\* reserveUsageMetricWithinLimit(1): value <= limit - 1.
SeatFree(w) == seats[w] + 1 <= SeatLimit[plan[w]]

\* getWorkspaceEffectiveEntitlement throws once the baseline is canceled.
Entitled(w) == status[w] # "closed"

Seat(r) == [status |-> "active", role |-> r]

\* A member who leaves keeps the document and its role.
Left(m) == [m EXCEPT !.status = "removed"]

-----------------------------------------------------------------------------
(* Middlewares.                                                            *)

Context(a, w) ==
    /\ account[a] = "active"
    /\ status[w] = "active"
    /\ member[w][a].status = "active"

Manages(a, w) ==
    /\ Context(a, w)
    /\ member[w][a].role \in Managing
    /\ plan[w] \in Team

\* enforceWorkspaceAccessMode() without allowDuringRemediation.
Compliant(w) == seats[w] <= SeatLimit[plan[w]]

Admissible(r) ==
    \/ /\ r.kind \in {"create", "close_account", "accept"}
       /\ account[r.actor] = "active"
    \/ r.kind = "archive" /\ Context(r.actor, r.ws)
    \/ r.kind \in {"remove", "revoke"} /\ Manages(r.actor, r.ws)
    \/ /\ r.kind \in {"suspend", "resend", "create_role", "delete_role"}
       /\ Manages(r.actor, r.ws) /\ Compliant(r.ws)
    \/ /\ r.kind \in {"set_role", "invite"}
       /\ Manages(r.actor, r.ws) /\ Compliant(r.ws)
       /\ RoleLive(r.ws, r.role)
    \/ /\ r.kind = "transfer"
       /\ Context(r.actor, r.ws)
       /\ member[r.ws][r.actor].role = "owner"
       /\ authorization[r.ws] = [id |-> r.auth, state |-> "active"]

\* The request passed its middlewares and its transaction comes later.
Admit(r) ==
    /\ Cardinality(admitted) < InFlight
    /\ r \notin admitted
    /\ Admissible(r)
    /\ admitted' = admitted \cup {r}
    /\ UNCHANGED <<account, status, plan, roles, member, seats, invitation,
                   authorization, version>>

\* The transaction of a request refuses it, or its process dies.
Drop(r) ==
    /\ r \in admitted
    /\ admitted' = admitted \ {r}
    /\ UNCHANGED <<account, status, plan, roles, member, seats, invitation,
                   authorization, version>>

\* The transaction of a request: right after its middlewares, or later.
Served(r) ==
    \/ Admissible(r) /\ UNCHANGED admitted
    \/ r \in admitted /\ admitted' = admitted \ {r}

-----------------------------------------------------------------------------
Init ==
    /\ account = [u \in Users |-> "absent"]
    /\ status = [w \in Workspaces |-> "absent"]
    /\ plan = [w \in Workspaces |-> Baseline]
    /\ roles = [w \in Workspaces |-> [r \in Custom |-> "absent"]]
    /\ member = [w \in Workspaces |-> [u \in Users |-> Absent]]
    /\ seats = [w \in Workspaces |-> 0]
    /\ invitation = [i \in Invites |-> None]
    /\ authorization = [w \in Workspaces |-> [id |-> 0, state |-> "none"]]
    /\ version = [w \in Workspaces |-> 0]
    /\ admitted = {}

-----------------------------------------------------------------------------
(* Workspaces.                                                             *)

\* registerUser
Register(u) ==
    /\ account[u] = "absent"
    /\ account' = [account EXCEPT ![u] = "active"]
    /\ UNCHANGED <<status, plan, roles, member, seats, invitation,
                   authorization, version, admitted>>

\* createWorkspace: workspace, system roles, owner, baseline, first seat.  The
\* transaction reads nothing of the account.
CreateWorkspace(a, w) ==
    /\ status[w] = "absent"
    /\ Served([kind |-> "create", actor |-> a, ws |-> w])
    /\ status' = [status EXCEPT ![w] = "active"]
    /\ member' = [member EXCEPT ![w][a] = Seat("owner")]
    /\ SeatFree(w)
    /\ seats' = [seats EXCEPT ![w] = @ + 1]
    /\ UNCHANGED <<account, plan, roles, invitation, authorization, version>>

Marked(S, to) ==
    [i \in Invites |-> IF i \in S THEN [invitation[i] EXCEPT !.status = to]
                                  ELSE invitation[i]]

PendingIn(W) == {i \in Invites : Pending(i) /\ invitation[i].ws \in W}

\* archiveWorkspaceByOwner: the owner is read again, the contracts are
\* canceled (the baseline stays), the pending invitations revoked.
ArchiveWorkspace(a, w) ==
    /\ member[w][a] = Seat("owner")
    /\ status[w] = "active"
    /\ Served([kind |-> "archive", actor |-> a, ws |-> w])
    /\ status' = [status EXCEPT ![w] = "archived"]
    /\ plan' = [plan EXCEPT ![w] = Baseline]
    /\ invitation' = Marked(PendingIn({w}), "revoked")
    /\ UNCHANGED <<account, roles, member, seats, authorization, version>>

\* closeWorkspaceByPlatform: terminal, the baseline is canceled too.
CloseWorkspace(w) ==
    /\ status[w] \in {"active", "suspended", "archived"}
    /\ status' = [status EXCEPT ![w] = "closed"]
    /\ invitation' = Marked(PendingIn({w}), "revoked")
    /\ UNCHANGED <<account, plan, roles, member, seats, authorization,
                   version, admitted>>

\* suspendPlatformWorkspace, reactivatePlatformWorkspace: the status alone.
ToggleSuspension(w) ==
    /\ \/ status[w] = "active" /\ status' = [status EXCEPT ![w] = "suspended"]
       \/ status[w] = "suspended" /\ status' = [status EXCEPT ![w] = "active"]
    /\ UNCHANGED <<account, plan, roles, member, seats, invitation,
                   authorization, version, admitted>>

\* A contract starts, changes or ends (module SubscriptionLifecycle).
ChangeEntitlement(w, p) ==
    /\ status[w] \in {"active", "suspended"}
    /\ plan[w] # p
    /\ plan' = [plan EXCEPT ![w] = p]
    /\ UNCHANGED <<account, status, roles, member, seats, invitation,
                   authorization, version, admitted>>

-----------------------------------------------------------------------------
(* Custom roles.                                                           *)

\* createWorkspaceRole: every creation has a key of its own.
CreateRole(a, w, r) ==
    /\ roles[w][r] = "absent"
    /\ Served([kind |-> "create_role", actor |-> a, ws |-> w, role |-> r])
    /\ roles' = [roles EXCEPT ![w][r] = "live"]
    /\ UNCHANGED <<account, status, plan, member, seats, invitation,
                   authorization, version>>

RoleUsed(w, r) ==
    \/ \E u \in Users : Holds(w, u) /\ member[w][u].role = r
    \/ \E i \in Invites : Pending(i) /\ invitation[i].ws = w /\ invitation[i].role = r

\* deleteWorkspaceRole: refused while a member or an invitation uses it.
DeleteRole(a, w, r) ==
    /\ roles[w][r] = "live"
    /\ ~RoleUsed(w, r)
    /\ Served([kind |-> "delete_role", actor |-> a, ws |-> w, role |-> r])
    /\ roles' = [roles EXCEPT ![w][r] = "deleted"]
    /\ UNCHANGED <<account, status, plan, member, seats, invitation,
                   authorization, version>>

-----------------------------------------------------------------------------
(* Members.                                                                *)

\* Mutant of Mutable: the owner is administered like any member.
MutableOwner(a, w, u) == member[w][u] # Absent /\ u # a

\* assertMutableMembership: neither the owner nor oneself.
Mutable(a, w, u) ==
    /\ member[w][u] # Absent
    /\ member[w][u].role # "owner"
    /\ u # a

SetMemberRole(a, w, u, r) ==
    /\ Mutable(a, w, u)
    /\ member[w][u].status = "active"
    /\ RoleFound(w, r) /\ r # "owner"
    /\ Served([kind |-> "set_role", actor |-> a, ws |-> w, user |-> u, role |-> r])
    /\ member' = [member EXCEPT ![w][u].role = r]
    /\ UNCHANGED <<account, status, plan, roles, seats, invitation,
                   authorization, version>>

\* suspendWorkspaceMember: the seat is kept.
SuspendMember(a, w, u) ==
    /\ Mutable(a, w, u)
    /\ member[w][u].status = "active"
    /\ Served([kind |-> "suspend", actor |-> a, ws |-> w, user |-> u])
    /\ member' = [member EXCEPT ![w][u].status = "suspended"]
    /\ UNCHANGED <<account, status, plan, roles, seats, invitation,
                   authorization, version>>

\* removeWorkspaceMember and releaseCurrentUsageMetric(1).
RemoveMember(a, w, u) ==
    /\ Mutable(a, w, u)
    /\ Holds(w, u)
    /\ seats[w] >= 1
    /\ Served([kind |-> "remove", actor |-> a, ws |-> w, user |-> u])
    /\ member' = [member EXCEPT ![w][u] = Left(@)]
    /\ seats' = [seats EXCEPT ![w] = @ - 1]
    /\ UNCHANGED <<account, status, plan, roles, invitation, authorization, version>>

-----------------------------------------------------------------------------
(* Invitations.                                                            *)

\* Its window of seven days ends.
InvitationLapses(i) ==
    /\ Pending(i) /\ ~invitation[i].lapsed
    /\ invitation' = [invitation EXCEPT ![i].lapsed = TRUE]
    /\ UNCHANGED <<account, status, plan, roles, member, seats,
                   authorization, version, admitted>>

Lapsed(S) == {i \in S : invitation[i].lapsed}

\* Mutant of NoneLeft: the pending invitation is not looked for.
AnyLeft(w, u) == TRUE

\* Every pending invitation of the address has lapsed.
NoneLeft(w, u) == PendingFor(w, u) = Lapsed(PendingFor(w, u))

\* createWorkspaceInvitation: lapsed invitations of the address are expired
\* first, one that is still pending refuses the creation.
Invite(a, w, u, r, i) ==
    /\ RoleFound(w, r) /\ r # "owner"
    /\ Outsider(w, u)
    /\ NoneLeft(w, u)
    /\ invitation[i] = None
    /\ Served([kind |-> "invite", actor |-> a, ws |-> w, user |-> u, role |-> r])
    /\ invitation' =
         [Marked(Lapsed(PendingFor(w, u)), "expired") EXCEPT ![i] =
            [ws |-> w, email |-> u, role |-> r, status |-> "pending",
             lapsed |-> FALSE, token |-> 0]]
    /\ UNCHANGED <<account, status, plan, roles, member, seats, authorization, version>>

\* listPendingWorkspaceInvitations normalises what has lapsed.
ListInvitations(a, w) ==
    /\ Manages(a, w)
    /\ Lapsed(PendingIn({w})) # {}
    /\ invitation' = Marked(Lapsed(PendingIn({w})), "expired")
    /\ UNCHANGED <<account, status, plan, roles, member, seats,
                   authorization, version, admitted>>

RevokeInvitation(a, w, i) ==
    /\ Pending(i) /\ invitation[i].ws = w /\ ~invitation[i].lapsed
    /\ Served([kind |-> "revoke", actor |-> a, ws |-> w, inv |-> i])
    /\ invitation' = Marked({i}, "revoked")
    /\ UNCHANGED <<account, status, plan, roles, member, seats, authorization, version>>

\* resendWorkspaceInvitation: a new token makes the link sent before useless.
ResendInvitation(a, w, i) ==
    /\ Pending(i) /\ invitation[i].ws = w /\ ~invitation[i].lapsed
    /\ invitation[i].token < MaxToken
    /\ Served([kind |-> "resend", actor |-> a, ws |-> w, inv |-> i])
    /\ invitation' = [invitation EXCEPT ![i].token = @ + 1]
    /\ UNCHANGED <<account, status, plan, roles, member, seats, authorization, version>>

\* Mutant of Acceptable: only the token is compared.
AcceptableToken(i, token) == invitation[i] # None /\ invitation[i].token = token

\* loadAcceptableInvitation, and again by finalizeInvitationAcceptance.
Acceptable(i, token) ==
    /\ Pending(i)
    /\ invitation[i].token = token
    /\ ~invitation[i].lapsed

\* loadAcceptableRole, activateWorkspaceMembership, and the acceptance.
Join(u, i, token) ==
    /\ Acceptable(i, token)
    /\ invitation[i].email = u
    /\ LET w == invitation[i].ws
           r == invitation[i].role
       IN  /\ Entitled(w) /\ plan[w] \in Team
           /\ RoleFound(w, r) /\ r # "owner"
           /\ Outsider(w, u)
           /\ SeatFree(w)
           /\ seats' = [seats EXCEPT ![w] = @ + 1]
           /\ member' = [member EXCEPT ![w][u] = Seat(r)]
    /\ invitation' = Marked({i}, "accepted")
    /\ UNCHANGED <<status, plan, roles, authorization, version>>

\* acceptWorkspaceInvitation: the account is only read for its address, the
\* workspace not at all.
AcceptInvitation(u, i, token) ==
    /\ Join(u, i, token)
    /\ Served([kind |-> "accept", actor |-> u, inv |-> i, token |-> token])
    /\ UNCHANGED account

\* acceptNewWorkspaceInvitation: no session, the account is created with it.
AcceptNewInvitation(u, i, token) ==
    /\ account[u] = "absent"
    /\ Join(u, i, token)
    /\ account' = [account EXCEPT ![u] = "active"]
    /\ UNCHANGED admitted

-----------------------------------------------------------------------------
(* Ownership.                                                              *)

\* authorizeWorkspaceOwnershipTransfer, by a super administrator.
Authorize(w) ==
    /\ status[w] = "active"
    /\ authorization[w].state # "active"
    /\ authorization[w].id < MaxAuth
    /\ authorization' = [authorization EXCEPT ![w] =
                           [id |-> @.id + 1, state |-> "active"]]
    /\ UNCHANGED <<account, status, plan, roles, member, seats, invitation,
                   version, admitted>>

\* revokeWorkspaceOwnershipTransferAuthorization, or its ttl ends.
EndAuthorization(w) ==
    /\ authorization[w].state = "active"
    /\ \E to \in {"revoked", "expired"} :
         authorization' = [authorization EXCEPT ![w].state = to]
    /\ UNCHANGED <<account, status, plan, roles, member, seats, invitation,
                   version, admitted>>

\* Mutant of StillAuthorized: revokedAt and consumedAt are not compared.
SameAuthorization(w, id) == authorization[w].id = id

\* The filter of the write on the workspace.
StillAuthorized(w, id) == authorization[w] = [id |-> id, state |-> "active"]

\* consumedAt is set by the write that moves the ownership.
Consumed(auth) == [auth EXCEPT !.state = "consumed"]

\* transferWorkspaceOwnership: the status of the workspace is not read, and
\* the role of the former owner is read like RoleFound.
TransferOwnership(a, w, u, r, id) ==
    /\ RoleFound(w, r) /\ r # "owner"
    /\ member[w][a] = Seat("owner")
    /\ member[w][u].status = "active" /\ u # a
    /\ {v \in Users : member[w][v] = Seat("owner")} = {a}
    /\ StillAuthorized(w, id)
    /\ Served([kind |-> "transfer", actor |-> a, ws |-> w, user |-> u,
               role |-> r, auth |-> id])
    /\ authorization' = [authorization EXCEPT ![w] = Consumed(@)]
    /\ version' = [version EXCEPT ![w] = @ + 1]
    /\ member' = [member EXCEPT ![w] =
                    [@ EXCEPT ![a].role = r, ![u].role = "owner"]]
    /\ UNCHANGED <<account, status, plan, roles, seats, invitation>>

-----------------------------------------------------------------------------
(* Closure of an account.                                                  *)

\* Workspaces in service that an account owns, and those it belongs to.
Owned(a)     == {w \in Workspaces : IsOwner(w, a) /\ status[w] \in {"active", "suspended"}}
BelongsTo(a) == {w \in Workspaces : Holds(w, a)}

\* Mutant of Freed: only owned workspaces give their seat back.
FreedOwned(a) == Owned(a)

\* The workspaces whose seat counter is released.
Freed(a) == BelongsTo(a)

\* requestCurrentUserClosure: owned workspaces are archived, every membership
\* is removed with its seat, invitations are revoked, the account is closed.
CloseAccount(a) ==
    /\ account[a] = "active"
    /\ \A w \in Freed(a) : seats[w] >= 1
    /\ Served([kind |-> "close_account", actor |-> a])
    /\ status' = [w \in Workspaces |-> IF w \in Owned(a) THEN "archived" ELSE status[w]]
    /\ plan' = [w \in Workspaces |-> IF w \in Owned(a) THEN Baseline ELSE plan[w]]
    /\ member' = [w \in Workspaces |->
                    IF w \in BelongsTo(a)
                    THEN [member[w] EXCEPT ![a] = Left(@)]
                    ELSE member[w]]
    /\ seats' = [w \in Workspaces |-> IF w \in Freed(a) THEN seats[w] - 1 ELSE seats[w]]
    /\ invitation' =
         Marked(PendingIn(Owned(a)) \cup {i \in Invites : Pending(i) /\ invitation[i].email = a},
                "revoked")
    /\ account' = [account EXCEPT ![a] = "closed"]
    /\ UNCHANGED <<roles, authorization, version>>

-----------------------------------------------------------------------------
WorkspaceNext ==
    \E w \in Workspaces :
        \/ CloseWorkspace(w) \/ ToggleSuspension(w)
        \/ Authorize(w) \/ EndAuthorization(w)
        \/ \E p \in Plans : ChangeEntitlement(w, p)
        \/ \E a \in Users : CreateWorkspace(a, w) \/ ArchiveWorkspace(a, w)

RoleNext ==
    \E a \in Users, w \in Workspaces, r \in Custom :
        CreateRole(a, w, r) \/ DeleteRole(a, w, r)

MemberNext ==
    \E a, u \in Users, w \in Workspaces :
        \/ SuspendMember(a, w, u) \/ RemoveMember(a, w, u)
        \/ \E r \in Roles : SetMemberRole(a, w, u, r)
        \/ \E r \in Roles, id \in 0..MaxAuth : TransferOwnership(a, w, u, r, id)

InvitationNext ==
    \E i \in Invites :
        \/ InvitationLapses(i)
        \/ \E u \in Users, token \in 0..MaxToken :
             AcceptInvitation(u, i, token) \/ AcceptNewInvitation(u, i, token)
        \/ \E a \in Users, w \in Workspaces :
             \/ RevokeInvitation(a, w, i) \/ ResendInvitation(a, w, i)
             \/ ListInvitations(a, w)
             \/ \E u \in Users, r \in Roles : Invite(a, w, u, r, i)

AccountNext == \E u \in Users : Register(u) \/ CloseAccount(u)

AdmissionNext == \E r \in Request : Admit(r) \/ Drop(r)

Next ==
    \/ WorkspaceNext \/ RoleNext \/ MemberNext
    \/ InvitationNext \/ AccountNext \/ AdmissionNext

Spec == Init /\ [][Next]_vars

-----------------------------------------------------------------------------
(* Safety.                                                                 *)

\* The counter of seats is exactly the number of members that occupy one,
\* through every path: creation, acceptance, reactivation of a removed
\* member, removal, closure of an account over several workspaces.
SeatsAreMembers == \A w \in Workspaces : seats[w] = Cardinality(Holders(w))

\* A workspace in service has exactly one owner, who is active, and no
\* workspace ever has two, whatever transfers, removals, suspensions and
\* closures were admitted before.
OneOwner ==
    \A w \in Workspaces :
        /\ \A u, v \in Owners(w) : u = v
        /\ \A u \in Owners(w) : member[w][u].status = "active"
        /\ status[w] \in {"active", "suspended"} => Owners(w) # {}

\* An address has at most one pending invitation to a workspace, and none
\* once its user occupies a seat there: a forgotten link never lets someone
\* who left, or is suspended, come back or in.
OneWayIn ==
    \A w \in Workspaces, u \in Users :
        /\ \A i, j \in PendingFor(w, u) : i = j
        /\ Holds(w, u) => PendingFor(w, u) = {}

\* Transfers never outnumber the authorizations issued, the active one not
\* counted: an authorization is spent at most once.
AuthorizationSpentOnce ==
    \A w \in Workspaces :
        version[w] <= authorization[w].id
                        - (IF authorization[w].state = "active" THEN 1 ELSE 0)

-----------------------------------------------------------------------------
(* Action properties.                                                      *)

\* The owner of a workspace changes only under an authorization that is
\* active at that moment and consumed by the change, or leaves by closing the
\* account, which takes the workspace out of service.
OwnershipMoves ==
    [][\A w \in Workspaces :
          Owners(w) # {} /\ Owners(w)' # Owners(w) =>
             \/ /\ authorization[w].state = "active"
                /\ authorization'[w] = [authorization[w] EXCEPT !.state = "consumed"]
                /\ Owners(w)' # {}
             \/ /\ Owners(w)' = {}
                /\ status'[w] \in {"archived", "closed"}]_vars

\* An invitation is answered once: it only leaves pending, and it is accepted
\* exactly when its addressee takes a seat with the role it offers.
InvitationStep(i) ==
    invitation[i] # None =>
        LET old == invitation[i]
            new == invitation'[i]
        IN  /\ old.status # "pending" => new = old
            /\ new.status = "accepted" /\ old.status = "pending" =>
                 /\ Outsider(old.ws, old.email)
                 /\ member'[old.ws][old.email] = Seat(old.role)
                 /\ seats'[old.ws] = seats[old.ws] + 1

InvitationAnsweredOnce == [][\A i \in Invites : InvitationStep(i)]_vars

-----------------------------------------------------------------------------
(* The seats implement the abstract ledger.                                *)

Ledger == INSTANCE SeatLedger WITH
    holders  <- [w \in Workspaces |-> Holders(w)],
    capacity <- [w \in Workspaces |-> SeatLimit[plan[w]]]

\* The bounded update of a counter and the memberships written with it behave
\* like seats taken one by one below the capacity in force.
SeatsFollowLedger == Ledger!Spec

=============================================================================
