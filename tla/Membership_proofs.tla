--------------------------- MODULE Membership_proofs ---------------------------
(***************************************************************************)
(* TLAPS proofs about Membership, for every set of workspaces, addresses,  *)
(* invitations, custom roles and plans, and any number of delayed requests.*)
(***************************************************************************)
EXTENDS Membership, FiniteSetTheorems, TLAPS

-----------------------------------------------------------------------------
(* Types.                                                                  *)

\* A request that runs leaves no more requests behind than there were.
LEMMA ServedAdmits ==
  ASSUME NEW r, Served(r)
  PROVE  admitted' \subseteq admitted
BY DEF Served

\* Marking some existing invitations keeps the documents well formed.
LEMMA MarkedType ==
  ASSUME TypeOK, NEW S, \A i \in S : i \in Invites => invitation[i] # None,
         NEW to \in {"pending", "accepted", "revoked", "expired"}
  PROVE  Marked(S, to) \in [Invites -> Invitation \cup {None}]
<1>1. \A i \in Invites : i \in S => [invitation[i] EXCEPT !.status = to] \in Invitation
  BY DEF TypeOK, Invitation
<1> QED  BY <1>1 DEF Marked, TypeOK

\* The documents a transaction writes.
LEMMA SeatType ==
  ASSUME NEW r \in Roles
  PROVE  Seat(r) \in Member
BY DEF Seat, Member

LEMMA LeftType ==
  ASSUME NEW m \in Member, m # Absent
  PROVE  Left(m) \in Member
BY DEF Left, Member

LEMMA InitType == Init => TypeOK
BY ConstantsAssumption, NoneAssumption
DEF Init, TypeOK, Member, Absent, Authorization

LEMMA WorkspaceType == TypeOK /\ WorkspaceNext => TypeOK'
<1> SUFFICES ASSUME TypeOK, WorkspaceNext PROVE TypeOK'
  OBVIOUS
<1> PICK w \in Workspaces :
        \/ CloseWorkspace(w) \/ ToggleSuspension(w)
        \/ Authorize(w) \/ EndAuthorization(w)
        \/ \E p \in Plans : ChangeEntitlement(w, p)
        \/ \E a \in Users : CreateWorkspace(a, w) \/ ArchiveWorkspace(a, w)
  BY DEF WorkspaceNext
<1>1. CASE CloseWorkspace(w)
  <2>1. invitation' \in [Invites -> Invitation \cup {None}]
    BY <1>1, MarkedType DEF CloseWorkspace, PendingIn, Pending
  <2> QED  BY <1>1, <2>1 DEF CloseWorkspace, TypeOK
<1>2. CASE ToggleSuspension(w)
  BY <1>2 DEF ToggleSuspension, TypeOK
<1>3. CASE Authorize(w)
  BY <1>3 DEF Authorize, TypeOK, Authorization
<1>4. CASE EndAuthorization(w)
  <2>1. \A to \in {"revoked", "expired"} :
          [authorization[w] EXCEPT !.state = to] \in Authorization
    BY DEF TypeOK, Authorization
  <2>2. authorization' \in [Workspaces -> Authorization]
    BY <1>4, <2>1 DEF EndAuthorization, TypeOK
  <2> QED  BY <1>4, <2>2 DEF EndAuthorization, TypeOK
<1>5. ASSUME NEW p \in Plans, ChangeEntitlement(w, p) PROVE TypeOK'
  BY <1>5 DEF ChangeEntitlement, TypeOK
<1>6. ASSUME NEW a \in Users, CreateWorkspace(a, w) PROVE TypeOK'
  <2>1. Seat("owner") \in Member
    BY SeatType DEF Roles, System
  <2>2. admitted' \subseteq admitted
    BY <1>6, ServedAdmits DEF CreateWorkspace
  <2> QED  BY <1>6, <2>1, <2>2 DEF CreateWorkspace, TypeOK
<1>7. ASSUME NEW a \in Users, ArchiveWorkspace(a, w) PROVE TypeOK'
  <2>1. invitation' \in [Invites -> Invitation \cup {None}]
    BY <1>7, MarkedType DEF ArchiveWorkspace, PendingIn, Pending
  <2>2. admitted' \subseteq admitted
    BY <1>7, ServedAdmits DEF ArchiveWorkspace
  <2> QED  BY <1>7, <2>1, <2>2, ConstantsAssumption DEF ArchiveWorkspace, TypeOK
<1> QED  BY <1>1, <1>2, <1>3, <1>4, <1>5, <1>6, <1>7

LEMMA RoleType == TypeOK /\ RoleNext => TypeOK'
<1> SUFFICES ASSUME TypeOK, NEW a \in Users, NEW w \in Workspaces, NEW r \in Custom,
                    CreateRole(a, w, r) \/ DeleteRole(a, w, r)
             PROVE  TypeOK'
  BY DEF RoleNext
<1>1. CASE CreateRole(a, w, r)
  BY <1>1, ServedAdmits DEF CreateRole, TypeOK
<1>2. CASE DeleteRole(a, w, r)
  BY <1>2, ServedAdmits DEF DeleteRole, TypeOK
<1> QED  BY <1>1, <1>2

LEMMA MemberType == TypeOK /\ MemberNext => TypeOK'
<1> SUFFICES ASSUME TypeOK, NEW a \in Users, NEW u \in Users, NEW w \in Workspaces,
                    \/ SuspendMember(a, w, u) \/ RemoveMember(a, w, u)
                    \/ \E r \in Roles : SetMemberRole(a, w, u, r)
                    \/ \E r \in Roles, id \in 0..MaxAuth : TransferOwnership(a, w, u, r, id)
             PROVE  TypeOK'
  BY DEF MemberNext
<1> /\ member[w][u] \in Member /\ member[w][a] \in Member
    /\ member \in [Workspaces -> [Users -> Member]]
  BY DEF TypeOK
<1>1. CASE SuspendMember(a, w, u)
  <2>1. [member[w][u] EXCEPT !.status = "suspended"] \in Member
    BY <1>1 DEF SuspendMember, Mutable, Member
  <2>2. member' \in [Workspaces -> [Users -> Member]]
    BY <1>1, <2>1 DEF SuspendMember
  <2> QED  BY <1>1, <2>2, ServedAdmits DEF SuspendMember, TypeOK
<1>2. CASE RemoveMember(a, w, u)
  <2>1. Left(member[w][u]) \in Member
    BY <1>2, LeftType DEF RemoveMember, Mutable
  <2>2. member' \in [Workspaces -> [Users -> Member]]
    BY <1>2, <2>1 DEF RemoveMember
  <2> QED  BY <1>2, <2>2, ServedAdmits DEF RemoveMember, TypeOK
<1>3. ASSUME NEW r \in Roles, SetMemberRole(a, w, u, r) PROVE TypeOK'
  <2>1. [member[w][u] EXCEPT !.role = r] \in Member
    BY <1>3 DEF SetMemberRole, Mutable, Member
  <2>2. member' \in [Workspaces -> [Users -> Member]]
    BY <1>3, <2>1 DEF SetMemberRole
  <2> QED  BY <1>3, <2>2, ServedAdmits DEF SetMemberRole, TypeOK
<1>4. ASSUME NEW r \in Roles, NEW id \in 0..MaxAuth, TransferOwnership(a, w, u, r, id)
      PROVE  TypeOK'
  <2>1. /\ [member[w][a] EXCEPT !.role = r] \in Member
        /\ [member[w][u] EXCEPT !.role = "owner"] \in Member
    BY <1>4 DEF TransferOwnership, Seat, Member, Absent, Roles, System
  <2>2. member' \in [Workspaces -> [Users -> Member]]
    BY <1>4, <2>1 DEF TransferOwnership
  <2>3. [authorization[w] EXCEPT !.state = "consumed"] \in Authorization
    BY DEF TypeOK, Authorization
  <2>a. Consumed(authorization[w]) \in Authorization
    BY <2>3 DEF Consumed
  <2>4. authorization' \in [Workspaces -> Authorization]
    BY <1>4, <2>a DEF TransferOwnership, TypeOK
  <2>5. version' \in [Workspaces -> Nat]
    BY <1>4 DEF TransferOwnership, TypeOK
  <2>6. admitted' \subseteq admitted
    BY <1>4, ServedAdmits DEF TransferOwnership
  <2> QED  BY <1>4, <2>2, <2>4, <2>5, <2>6 DEF TransferOwnership, TypeOK
<1> QED  BY <1>1, <1>2, <1>3, <1>4

\* What accepting an invitation writes is well formed.
LEMMA JoinType ==
  ASSUME TypeOK, NEW u \in Users, NEW i \in Invites, NEW token, Join(u, i, token)
  PROVE  /\ member' \in [Workspaces -> [Users -> Member]]
         /\ seats' \in [Workspaces -> Nat]
         /\ invitation' \in [Invites -> Invitation \cup {None}]
<1>1. invitation[i] \in Invitation
  BY DEF Join, Acceptable, Pending, TypeOK
<1>2. invitation[i].ws \in Workspaces /\ Seat(invitation[i].role) \in Member
  BY <1>1, SeatType DEF Invitation
<1>3. invitation' \in [Invites -> Invitation \cup {None}]
  BY MarkedType DEF Join, Acceptable, Pending
<1>4. /\ seats' = [seats EXCEPT ![invitation[i].ws] = @ + 1]
      /\ member' = [member EXCEPT ![invitation[i].ws][u] = Seat(invitation[i].role)]
  BY DEF Join
<1>5. seats' \in [Workspaces -> Nat]
  BY <1>2, <1>4 DEF TypeOK
<1>6. ASSUME NEW w \in Workspaces, NEW s \in Member,
             member' = [member EXCEPT ![w][u] = s]
      PROVE  member' \in [Workspaces -> [Users -> Member]]
  BY <1>6 DEF TypeOK
<1>7. member' \in [Workspaces -> [Users -> Member]]
  BY <1>2, <1>4, <1>6
<1> QED  BY <1>3, <1>5, <1>7

LEMMA InvitationType == TypeOK /\ InvitationNext => TypeOK'
<1> SUFFICES ASSUME TypeOK, InvitationNext PROVE TypeOK'
  OBVIOUS
<1> PICK i \in Invites :
      \/ InvitationLapses(i)
      \/ \E u \in Users, token \in 0..MaxToken :
           AcceptInvitation(u, i, token) \/ AcceptNewInvitation(u, i, token)
      \/ \E a \in Users, w \in Workspaces :
           \/ RevokeInvitation(a, w, i) \/ ResendInvitation(a, w, i)
           \/ ListInvitations(a, w)
           \/ \E u \in Users, r \in Roles : Invite(a, w, u, r, i)
  BY DEF InvitationNext
<1>1. CASE InvitationLapses(i)
  <2>1. [invitation[i] EXCEPT !.lapsed = TRUE] \in Invitation
    BY <1>1 DEF InvitationLapses, Pending, TypeOK, Invitation
  <2> QED  BY <1>1, <2>1 DEF InvitationLapses, TypeOK
<1>2. ASSUME NEW u \in Users, NEW token \in 0..MaxToken, AcceptInvitation(u, i, token)
      PROVE  TypeOK'
  <2>1. Join(u, i, token) /\ admitted' \subseteq admitted
    BY <1>2, ServedAdmits DEF AcceptInvitation
  <2> QED  BY <1>2, <2>1, JoinType DEF AcceptInvitation, Join, TypeOK
<1>3. ASSUME NEW u \in Users, NEW token \in 0..MaxToken, AcceptNewInvitation(u, i, token)
      PROVE  TypeOK'
  <2>1. Join(u, i, token)
    BY <1>3 DEF AcceptNewInvitation
  <2> QED  BY <1>3, <2>1, JoinType DEF AcceptNewInvitation, Join, TypeOK
<1>4. ASSUME NEW a \in Users, NEW w \in Workspaces, RevokeInvitation(a, w, i)
      PROVE  TypeOK'
  <2>1. invitation' \in [Invites -> Invitation \cup {None}] /\ admitted' \subseteq admitted
    BY <1>4, MarkedType, ServedAdmits DEF RevokeInvitation, Pending
  <2> QED  BY <1>4, <2>1 DEF RevokeInvitation, TypeOK
<1>5. ASSUME NEW a \in Users, NEW w \in Workspaces, ResendInvitation(a, w, i)
      PROVE  TypeOK'
  <2>1. invitation[i] \in Invitation /\ invitation[i].token + 1 \in Nat
    BY <1>5 DEF ResendInvitation, Pending, TypeOK, Invitation
  <2>2. admitted' \subseteq admitted
    BY <1>5, ServedAdmits DEF ResendInvitation
  <2>3. [invitation[i] EXCEPT !.token = invitation[i].token + 1] \in Invitation
    BY <2>1 DEF Invitation
  <2>4. invitation' \in [Invites -> Invitation \cup {None}]
    BY <1>5, <2>3 DEF ResendInvitation, TypeOK
  <2> QED  BY <1>5, <2>2, <2>4 DEF ResendInvitation, TypeOK
<1>6. ASSUME NEW a \in Users, NEW w \in Workspaces, ListInvitations(a, w)
      PROVE  TypeOK'
  <2>1. invitation' \in [Invites -> Invitation \cup {None}]
    BY <1>6, MarkedType DEF ListInvitations, Lapsed, PendingIn, Pending
  <2> QED  BY <1>6, <2>1 DEF ListInvitations, TypeOK
<1>7. ASSUME NEW a \in Users, NEW w \in Workspaces, NEW u \in Users, NEW r \in Roles,
             Invite(a, w, u, r, i)
      PROVE  TypeOK'
  <2>1. Marked(Lapsed(PendingFor(w, u)), "expired") \in [Invites -> Invitation \cup {None}]
    BY MarkedType DEF Lapsed, PendingFor, Pending
  <2>2. [ws |-> w, email |-> u, role |-> r, status |-> "pending",
         lapsed |-> FALSE, token |-> 0] \in Invitation
    BY DEF Invitation
  <2>3. admitted' \subseteq admitted
    BY <1>7, ServedAdmits DEF Invite
  <2> QED  BY <1>7, <2>1, <2>2, <2>3 DEF Invite, TypeOK
<1> QED  BY <1>1, <1>2, <1>3, <1>4, <1>5, <1>6, <1>7

LEMMA AccountType == TypeOK /\ AccountNext => TypeOK'
<1> SUFFICES ASSUME TypeOK, NEW u \in Users, Register(u) \/ CloseAccount(u)
             PROVE  TypeOK'
  BY DEF AccountNext
<1>1. CASE Register(u)
  BY <1>1 DEF Register, TypeOK
<1>2. CASE CloseAccount(u)
  <2>1. \A w \in BelongsTo(u) : Left(member[w][u]) \in Member
    BY LeftType DEF BelongsTo, Holds, Absent, TypeOK
  <2>2. member' \in [Workspaces -> [Users -> Member]]
    BY <1>2, <2>1 DEF CloseAccount, TypeOK
  <2>3. invitation' \in [Invites -> Invitation \cup {None}]
    BY <1>2, MarkedType DEF CloseAccount, PendingIn, Pending
  <2>4. seats' \in [Workspaces -> Nat]
    BY <1>2 DEF CloseAccount, TypeOK
  <2>5. plan' \in [Workspaces -> Plans]
    BY <1>2, ConstantsAssumption DEF CloseAccount, TypeOK
  <2>6. admitted' \subseteq admitted
    BY <1>2, ServedAdmits DEF CloseAccount
  <2> QED  BY <1>2, <2>2, <2>3, <2>4, <2>5, <2>6 DEF CloseAccount, TypeOK
<1> QED  BY <1>1, <1>2

LEMMA AdmissionType == TypeOK /\ AdmissionNext => TypeOK'
BY DEF AdmissionNext, Admit, Drop, TypeOK

LEMMA StepType == TypeOK /\ [Next]_vars => TypeOK'
<1>1. TypeOK /\ UNCHANGED vars => TypeOK'
  BY DEF vars, TypeOK
<1> QED
  BY <1>1, WorkspaceType, RoleType, MemberType, InvitationType, AccountType,
     AdmissionType DEF Next

-----------------------------------------------------------------------------
(* What exists before what.  A workspace that was never created has no     *)
(* member, no invitation and no request on its way.                        *)

Personal == {"create", "close_account", "accept"}

Known ==
    /\ \A w \in Workspaces : status[w] = "absent" =>
         /\ \A u \in Users : member[w][u] = Absent
         /\ \A i \in Invites : invitation[i] # None => invitation[i].ws # w
    /\ \A r \in admitted : r.kind \notin Personal => status[r.ws] # "absent"

\* A request of a workspace runs in a workspace that exists.
LEMMA ServedKnown ==
  ASSUME Known, NEW r, Served(r), r.kind \notin Personal
  PROVE  status[r.ws] # "absent"
BY DEF Known, Served, Admissible, Manages, Context, Personal

\* Marking an invitation moves it nowhere.
LEMMA MarkedKeeps ==
  ASSUME TypeOK, NEW S, \A j \in S : j \in Invites => invitation[j] # None,
         NEW to \in {"pending", "accepted", "revoked", "expired"}, NEW i \in Invites
  PROVE  /\ Marked(S, to)[i] # None <=> invitation[i] # None
         /\ invitation[i] # None =>
              /\ Marked(S, to)[i].ws = invitation[i].ws
              /\ Marked(S, to)[i].email = invitation[i].email
              /\ Marked(S, to)[i].role = invitation[i].role
<1>1. CASE i \in S
  <2>1. invitation[i] \in Invitation
    BY <1>1 DEF TypeOK
  <2>2. [invitation[i] EXCEPT !.status = to] \in Invitation
    BY <2>1 DEF Invitation
  <2> QED  BY <1>1, <2>1, <2>2, NoneAssumption DEF Marked, Invitation
<1>2. CASE i \notin S
  BY <1>2 DEF Marked
<1> QED  BY <1>1, <1>2

\* What a step may do to an absent workspace, to an invitation and to the
\* requests on their way.
Faithful ==
    /\ \A w \in Workspaces : status'[w] = "absent" =>
         status[w] = "absent" /\ member'[w] = member[w]
    /\ \A i \in Invites : invitation'[i] # None =>
         \/ invitation[i] # None /\ invitation'[i].ws = invitation[i].ws
         \/ status'[invitation'[i].ws] # "absent"
    /\ \/ admitted' \subseteq admitted
       \/ \E r \in Request : Admissible(r) /\ admitted' = admitted \cup {r}

LEMMA KnownKept == TypeOK /\ Known /\ Faithful => Known'
<1> SUFFICES ASSUME TypeOK, Known, Faithful PROVE Known'
  OBVIOUS
<1>1. ASSUME NEW w \in Workspaces, status'[w] = "absent"
      PROVE  /\ \A u \in Users : member'[w][u] = Absent
             /\ \A i \in Invites : invitation'[i] # None => invitation'[i].ws # w
  BY <1>1 DEF Known, Faithful
<1>2. ASSUME NEW r \in admitted', r.kind \notin Personal
      PROVE  status'[r.ws] # "absent"
  <2>1. r \in Request
    BY <1>2 DEF Faithful, TypeOK
  <2>2. r.ws \in Workspaces
    BY <1>2, <2>1 DEF Request, Personal
  <2>3. r \in admitted \/ Admissible(r)
    BY <1>2 DEF Faithful
  <2>4. status[r.ws] # "absent"
    BY <1>2, <2>3 DEF Known, Admissible, Manages, Context, Personal
  <2> QED  BY <2>2, <2>4 DEF Faithful
<1> QED  BY <1>1, <1>2 DEF Known

LEMMA WorkspaceFaithful == TypeOK /\ WorkspaceNext => Faithful
<1> SUFFICES ASSUME TypeOK, WorkspaceNext PROVE Faithful
  OBVIOUS
<1> PICK w \in Workspaces :
        \/ CloseWorkspace(w) \/ ToggleSuspension(w)
        \/ Authorize(w) \/ EndAuthorization(w)
        \/ \E p \in Plans : ChangeEntitlement(w, p)
        \/ \E a \in Users : CreateWorkspace(a, w) \/ ArchiveWorkspace(a, w)
  BY DEF WorkspaceNext
<1>a. \A S \in SUBSET Invites : (\A i \in S : Pending(i)) =>
        \A i \in Invites : Marked(S, "revoked")[i] # None =>
          invitation[i] # None /\ Marked(S, "revoked")[i].ws = invitation[i].ws
  BY MarkedKeeps DEF Pending
<1>b. PendingIn({w}) \in SUBSET Invites /\ \A i \in PendingIn({w}) : Pending(i)
  BY DEF PendingIn
<1>1. CASE CloseWorkspace(w)
  BY <1>1, <1>a, <1>b DEF CloseWorkspace, Faithful, TypeOK
<1>2. CASE ToggleSuspension(w)
  BY <1>2 DEF ToggleSuspension, Faithful, TypeOK
<1>3. CASE Authorize(w) \/ EndAuthorization(w)
  BY <1>3 DEF Authorize, EndAuthorization, Faithful
<1>4. ASSUME NEW p \in Plans, ChangeEntitlement(w, p) PROVE Faithful
  BY <1>4 DEF ChangeEntitlement, Faithful
<1>5. ASSUME NEW a \in Users, CreateWorkspace(a, w) PROVE Faithful
  <2>1. admitted' \subseteq admitted
    BY <1>5, ServedAdmits DEF CreateWorkspace
  <2> QED  BY <1>5, <2>1 DEF CreateWorkspace, Faithful, TypeOK
<1>6. ASSUME NEW a \in Users, ArchiveWorkspace(a, w) PROVE Faithful
  <2>1. admitted' \subseteq admitted
    BY <1>6, ServedAdmits DEF ArchiveWorkspace
  <2> QED  BY <1>6, <2>1, <1>a, <1>b DEF ArchiveWorkspace, Faithful, TypeOK
<1> QED  BY <1>1, <1>2, <1>3, <1>4, <1>5, <1>6

LEMMA RoleFaithful == TypeOK /\ RoleNext => Faithful
<1> SUFFICES ASSUME NEW a \in Users, NEW w \in Workspaces, NEW r \in Custom,
                    CreateRole(a, w, r) \/ DeleteRole(a, w, r)
             PROVE  Faithful
  BY DEF RoleNext
<1>1. admitted' \subseteq admitted
  BY ServedAdmits DEF CreateRole, DeleteRole
<1> QED  BY <1>1 DEF CreateRole, DeleteRole, Faithful

LEMMA MemberFaithful == TypeOK /\ Known /\ MemberNext => Faithful
<1> SUFFICES ASSUME TypeOK, Known, NEW a \in Users, NEW u \in Users, NEW w \in Workspaces,
                    \/ SuspendMember(a, w, u) \/ RemoveMember(a, w, u)
                    \/ \E r \in Roles : SetMemberRole(a, w, u, r)
                    \/ \E r \in Roles, id \in 0..MaxAuth : TransferOwnership(a, w, u, r, id)
             PROVE  Faithful
  BY DEF MemberNext
<1>1. /\ UNCHANGED <<status, invitation>>
      /\ \A v \in Workspaces : v # w => member'[v] = member[v]
  BY DEF SuspendMember, RemoveMember, SetMemberRole, TransferOwnership, TypeOK
<1>2. admitted' \subseteq admitted
  BY ServedAdmits DEF SuspendMember, RemoveMember, SetMemberRole, TransferOwnership
<1>3. status[w] # "absent"
  <2>1. CASE SuspendMember(a, w, u)
    BY <2>1, ServedKnown DEF SuspendMember, Personal
  <2>2. CASE RemoveMember(a, w, u)
    BY <2>2, ServedKnown DEF RemoveMember, Personal
  <2>3. ASSUME NEW r \in Roles, SetMemberRole(a, w, u, r) PROVE status[w] # "absent"
    BY <2>3, ServedKnown DEF SetMemberRole, Personal
  <2>4. ASSUME NEW r \in Roles, NEW id \in 0..MaxAuth, TransferOwnership(a, w, u, r, id)
        PROVE  status[w] # "absent"
    BY <2>4, ServedKnown DEF TransferOwnership, Personal
  <2> QED  BY <2>1, <2>2, <2>3, <2>4
<1> QED  BY <1>1, <1>2, <1>3 DEF Faithful

LEMMA JoinFaithful ==
  ASSUME TypeOK, Known, NEW u \in Users, NEW i \in Invites, NEW token, Join(u, i, token)
  PROVE  /\ \A w \in Workspaces : status'[w] = "absent" =>
              status[w] = "absent" /\ member'[w] = member[w]
         /\ \A j \in Invites : invitation'[j] # None =>
              invitation[j] # None /\ invitation'[j].ws = invitation[j].ws
<1> DEFINE w == invitation[i].ws
<1>1. invitation[i] # None /\ w \in Workspaces
  BY DEF Join, Acceptable, Pending, TypeOK, Invitation
<1>2. status[w] # "absent" /\ UNCHANGED status
  BY <1>1 DEF Known, Join
<1>3. \A v \in Workspaces : v # w => member'[v] = member[v]
  BY <1>1 DEF Join, TypeOK
<1>4. \A j \in Invites : invitation'[j] # None =>
        invitation[j] # None /\ invitation'[j].ws = invitation[j].ws
  BY <1>1, MarkedKeeps DEF Join
<1> QED  BY <1>2, <1>3, <1>4

LEMMA InvitationFaithful == TypeOK /\ Known /\ InvitationNext => Faithful
<1> SUFFICES ASSUME TypeOK, Known, InvitationNext PROVE Faithful
  OBVIOUS
<1> PICK i \in Invites :
      \/ InvitationLapses(i)
      \/ \E u \in Users, token \in 0..MaxToken :
           AcceptInvitation(u, i, token) \/ AcceptNewInvitation(u, i, token)
      \/ \E a \in Users, w \in Workspaces :
           \/ RevokeInvitation(a, w, i) \/ ResendInvitation(a, w, i)
           \/ ListInvitations(a, w)
           \/ \E u \in Users, r \in Roles : Invite(a, w, u, r, i)
  BY DEF InvitationNext
<1>1. CASE InvitationLapses(i)
  <2>1. invitation[i] \in Invitation
    BY <1>1 DEF InvitationLapses, Pending, TypeOK
  <2>2. [invitation[i] EXCEPT !.lapsed = TRUE].ws = invitation[i].ws
    BY <2>1 DEF Invitation
  <2>3. \A j \in Invites : invitation'[j] # None =>
          invitation[j] # None /\ invitation'[j].ws = invitation[j].ws
    BY <1>1, <2>2 DEF InvitationLapses, Pending, TypeOK
  <2> QED  BY <1>1, <2>3 DEF InvitationLapses, Faithful
<1>2. ASSUME NEW u \in Users, NEW token \in 0..MaxToken, AcceptInvitation(u, i, token)
      PROVE  Faithful
  BY <1>2, JoinFaithful, ServedAdmits DEF AcceptInvitation, Faithful
<1>3. ASSUME NEW u \in Users, NEW token \in 0..MaxToken, AcceptNewInvitation(u, i, token)
      PROVE  Faithful
  BY <1>3, JoinFaithful DEF AcceptNewInvitation, Faithful
<1>4. ASSUME NEW a \in Users, NEW w \in Workspaces, RevokeInvitation(a, w, i)
      PROVE  Faithful
  <2>1. \A j \in Invites : invitation'[j] # None =>
          invitation[j] # None /\ invitation'[j].ws = invitation[j].ws
    BY <1>4, MarkedKeeps DEF RevokeInvitation, Pending
  <2> QED  BY <1>4, <2>1, ServedAdmits DEF RevokeInvitation, Faithful
<1>5. ASSUME NEW a \in Users, NEW w \in Workspaces, ResendInvitation(a, w, i)
      PROVE  Faithful
  <2>1. invitation[i] # None /\ invitation[i] \in Invitation
    BY <1>5 DEF ResendInvitation, Pending, TypeOK
  <2>2. [invitation[i] EXCEPT !.token = @ + 1].ws = invitation[i].ws
    BY <2>1 DEF Invitation
  <2>3. \A j \in Invites : invitation'[j] # None =>
          invitation[j] # None /\ invitation'[j].ws = invitation[j].ws
    BY <1>5, <2>1, <2>2 DEF ResendInvitation, TypeOK
  <2> QED  BY <1>5, <2>3, ServedAdmits DEF ResendInvitation, Faithful
<1>6. ASSUME NEW a \in Users, NEW w \in Workspaces, ListInvitations(a, w)
      PROVE  Faithful
  <2>1. \A j \in Invites : invitation'[j] # None =>
          invitation[j] # None /\ invitation'[j].ws = invitation[j].ws
    BY <1>6, MarkedKeeps DEF ListInvitations, Lapsed, PendingIn, Pending
  <2> QED  BY <1>6, <2>1 DEF ListInvitations, Faithful
<1>7. ASSUME NEW a \in Users, NEW w \in Workspaces, NEW u \in Users, NEW r \in Roles,
             Invite(a, w, u, r, i)
      PROVE  Faithful
  <2> DEFINE M == Marked(Lapsed(PendingFor(w, u)), "expired")
             d == [ws |-> w, email |-> u, role |-> r, status |-> "pending",
                   lapsed |-> FALSE, token |-> 0]
  <2>1. \A j \in Invites : M[j] # None => invitation[j] # None /\ M[j].ws = invitation[j].ws
    BY MarkedKeeps DEF Lapsed, PendingFor, Pending
  <2>2. status[w] # "absent" /\ UNCHANGED <<status, member>>
    BY <1>7, ServedKnown DEF Invite, Personal
  <2>3. M \in [Invites -> Invitation \cup {None}]
    BY MarkedType DEF Lapsed, PendingFor, Pending
  <2>4. invitation' = [M EXCEPT ![i] = d] /\ d.ws = w
    BY <1>7 DEF Invite
  <2> HIDE DEF M, d
  <2>5. \A j \in Invites : invitation'[j] = IF j = i THEN d ELSE M[j]
    BY <2>3, <2>4
  <2>6. admitted' \subseteq admitted
    BY <1>7, ServedAdmits DEF Invite
  <2> QED  BY <2>1, <2>2, <2>4, <2>5, <2>6 DEF Faithful
<1> QED  BY <1>1, <1>2, <1>3, <1>4, <1>5, <1>6, <1>7

LEMMA AccountFaithful == TypeOK /\ Known /\ AccountNext => Faithful
<1> SUFFICES ASSUME TypeOK, Known, NEW u \in Users, Register(u) \/ CloseAccount(u)
             PROVE  Faithful
  BY DEF AccountNext
<1>1. CASE Register(u)
  BY <1>1 DEF Register, Faithful
<1>2. CASE CloseAccount(u)
  <2>1. \A w \in Workspaces : status[w] = "absent" => w \notin BelongsTo(u)
    BY DEF Known, BelongsTo, Holds, Absent
  <2>2. \A w \in Workspaces : status'[w] = "absent" =>
          status[w] = "absent" /\ member'[w] = member[w]
    BY <1>2, <2>1 DEF CloseAccount, TypeOK
  <2>3. \A j \in Invites : invitation'[j] # None =>
          invitation[j] # None /\ invitation'[j].ws = invitation[j].ws
    BY <1>2, MarkedKeeps DEF CloseAccount, PendingIn, Pending
  <2>4. admitted' \subseteq admitted
    BY <1>2, ServedAdmits DEF CloseAccount
  <2> QED  BY <2>2, <2>3, <2>4 DEF Faithful
<1> QED  BY <1>1, <1>2

LEMMA AdmissionFaithful == AdmissionNext => Faithful
<1> SUFFICES ASSUME NEW r \in Request, Admit(r) \/ Drop(r) PROVE Faithful
  BY DEF AdmissionNext
<1> QED  BY DEF Admit, Drop, Faithful

LEMMA StepKnown == TypeOK /\ Known /\ [Next]_vars => Known'
<1>1. UNCHANGED vars => Faithful
  BY DEF vars, Faithful
<1>2. TypeOK /\ Known /\ [Next]_vars => Faithful
  BY <1>1, WorkspaceFaithful, RoleFaithful, MemberFaithful, InvitationFaithful,
     AccountFaithful, AdmissionFaithful DEF Next
<1> QED  BY <1>2, KnownKept

-----------------------------------------------------------------------------
(* The transactions that write a membership, and what the others leave.    *)

InService(w) == status[w] \in {"active", "suspended"}

\* No membership and no counter is written, no workspace enters service.
Bystander ==
    /\ UNCHANGED <<member, seats>>
    /\ \A w \in Workspaces : InService(w)' => InService(w)

LEMMA MemberWriters ==
  ASSUME TypeOK, [Next]_vars
  PROVE  \/ Bystander
         \/ \E a \in Users, w \in Workspaces : CreateWorkspace(a, w)
         \/ MemberNext
         \/ \E u \in Users, i \in Invites, token \in 0..MaxToken : Join(u, i, token)
         \/ \E u \in Users : CloseAccount(u)
<1>1. ASSUME WorkspaceNext
      PROVE  Bystander \/ \E a \in Users, w \in Workspaces : CreateWorkspace(a, w)
  <2> PICK w \in Workspaces :
        \/ CloseWorkspace(w) \/ ToggleSuspension(w)
        \/ Authorize(w) \/ EndAuthorization(w)
        \/ \E p \in Plans : ChangeEntitlement(w, p)
        \/ \E a \in Users : CreateWorkspace(a, w) \/ ArchiveWorkspace(a, w)
    BY <1>1 DEF WorkspaceNext
  <2>1. CASE CloseWorkspace(w)
    BY <2>1 DEF CloseWorkspace, Bystander, InService, TypeOK
  <2>2. CASE ToggleSuspension(w)
    BY <2>2 DEF ToggleSuspension, Bystander, InService, TypeOK
  <2>3. CASE Authorize(w) \/ EndAuthorization(w)
    BY <2>3 DEF Authorize, EndAuthorization, Bystander, InService
  <2>4. CASE \E p \in Plans : ChangeEntitlement(w, p)
    BY <2>4 DEF ChangeEntitlement, Bystander, InService
  <2>5. ASSUME NEW a \in Users, ArchiveWorkspace(a, w) PROVE Bystander
    BY <2>5 DEF ArchiveWorkspace, Bystander, InService, TypeOK
  <2> QED  BY <2>1, <2>2, <2>3, <2>4, <2>5
<1>2. ASSUME RoleNext PROVE Bystander
  BY <1>2 DEF RoleNext, CreateRole, DeleteRole, Bystander, InService
<1>3. ASSUME InvitationNext
      PROVE  \/ Bystander
             \/ \E u \in Users, i \in Invites, token \in 0..MaxToken : Join(u, i, token)
  <2> PICK i \in Invites :
      \/ InvitationLapses(i)
      \/ \E u \in Users, token \in 0..MaxToken :
           AcceptInvitation(u, i, token) \/ AcceptNewInvitation(u, i, token)
      \/ \E a \in Users, w \in Workspaces :
           \/ RevokeInvitation(a, w, i) \/ ResendInvitation(a, w, i)
           \/ ListInvitations(a, w)
           \/ \E u \in Users, r \in Roles : Invite(a, w, u, r, i)
    BY <1>3 DEF InvitationNext
  <2>1. CASE InvitationLapses(i)
    BY <2>1 DEF InvitationLapses, Bystander, InService
  <2>2. ASSUME NEW u \in Users, NEW token \in 0..MaxToken,
               AcceptInvitation(u, i, token) \/ AcceptNewInvitation(u, i, token)
        PROVE  Join(u, i, token)
    BY <2>2 DEF AcceptInvitation, AcceptNewInvitation
  <2>3. ASSUME NEW a \in Users, NEW w \in Workspaces,
               \/ RevokeInvitation(a, w, i) \/ ResendInvitation(a, w, i)
               \/ ListInvitations(a, w)
        PROVE  Bystander
    BY <2>3 DEF RevokeInvitation, ResendInvitation, ListInvitations, Bystander, InService
  <2>4. ASSUME NEW a \in Users, NEW w \in Workspaces, NEW u \in Users, NEW r \in Roles,
               Invite(a, w, u, r, i)
        PROVE  Bystander
    BY <2>4 DEF Invite, Bystander, InService
  <2> QED  BY <2>1, <2>2, <2>3, <2>4
<1>4. ASSUME AccountNext PROVE Bystander \/ \E u \in Users : CloseAccount(u)
  BY <1>4 DEF AccountNext, Register, Bystander, InService
<1>5. ASSUME AdmissionNext PROVE Bystander
  BY <1>5 DEF AdmissionNext, Admit, Drop, Bystander, InService
<1>6. ASSUME UNCHANGED vars PROVE Bystander
  BY <1>6 DEF vars, Bystander, InService
<1> QED  BY <1>1, <1>2, <1>3, <1>4, <1>5, <1>6 DEF Next

-----------------------------------------------------------------------------
(* Seats.                                                                  *)

SameSeats ==
    /\ seats' = seats
    /\ \A v \in Workspaces : Holders(v)' = Holders(v)

TakesSeat(w, u) ==
    /\ u \notin Holders(w) /\ SeatFree(w)
    /\ UNCHANGED plan
    /\ seats' = [seats EXCEPT ![w] = @ + 1]
    /\ \A v \in Workspaces :
         Holders(v)' = IF v = w THEN Holders(v) \cup {u} ELSE Holders(v)

LeavesSeats(W, u) ==
    /\ \A v \in W : u \in Holders(v) /\ seats[v] >= 1
    /\ \A v \in Workspaces : seats'[v] = IF v \in W THEN seats[v] - 1 ELSE seats[v]
    /\ \A v \in Workspaces :
         Holders(v)' = IF v \in W THEN Holders(v) \ {u} ELSE Holders(v)

\* Every step leaves the seats alone, gives one user a seat below the limit
\* in force, or takes from one user the seats of some workspaces.
LEMMA SeatStep ==
  ASSUME TypeOK, Known, [Next]_vars
  PROVE  \/ SameSeats
         \/ \E w \in Workspaces, u \in Users : TakesSeat(w, u)
         \/ \E W \in SUBSET Workspaces, u \in Users : LeavesSeats(W, u)
<1>1. Bystander => SameSeats
  BY DEF Bystander, SameSeats, Holders, Holds
<1>2. ASSUME NEW a \in Users, NEW w \in Workspaces, CreateWorkspace(a, w)
      PROVE  TakesSeat(w, a)
  <2>1. a \notin Holders(w)
    BY <1>2 DEF CreateWorkspace, Known, Holders, Holds, Absent
  <2>2. \A v \in Workspaces :
          Holders(v)' = IF v = w THEN Holders(v) \cup {a} ELSE Holders(v)
    BY <1>2 DEF CreateWorkspace, Holders, Holds, Seat, TypeOK
  <2> QED  BY <1>2, <2>1, <2>2 DEF CreateWorkspace, TakesSeat
<1>3. ASSUME MemberNext
      PROVE  SameSeats \/ \E W \in SUBSET Workspaces, u \in Users : LeavesSeats(W, u)
  <2> PICK a \in Users, u \in Users, w \in Workspaces :
        \/ SuspendMember(a, w, u) \/ RemoveMember(a, w, u)
        \/ \E r \in Roles : SetMemberRole(a, w, u, r)
        \/ \E r \in Roles, id \in 0..MaxAuth : TransferOwnership(a, w, u, r, id)
    BY <1>3 DEF MemberNext
  <2>a. member[w][u] \in Member /\ member[w][a] \in Member
    BY DEF TypeOK
  <2>1. CASE SuspendMember(a, w, u)
    <3>1. [member[w][u] EXCEPT !.status = "suspended"].status = "suspended"
      BY <2>a DEF Member, Absent
    <3> QED  BY <2>1, <3>1 DEF SuspendMember, SameSeats, Holders, Holds, TypeOK
  <2>2. CASE RemoveMember(a, w, u)
    <3>1. Left(member[w][u]).status = "removed"
      BY <2>a DEF Left, Member, Absent
    <3>2. \A v \in Workspaces :
            Holders(v)' = IF v \in {w} THEN Holders(v) \ {u} ELSE Holders(v)
      BY <2>2, <3>1 DEF RemoveMember, Holders, Holds, TypeOK
    <3>3. LeavesSeats({w}, u)
      BY <2>2, <3>2 DEF RemoveMember, LeavesSeats, Holders, TypeOK
    <3> QED  BY <3>3
  <2>3. ASSUME NEW r \in Roles, SetMemberRole(a, w, u, r) PROVE SameSeats
    <3>1. [member[w][u] EXCEPT !.role = r].status = member[w][u].status
      BY <2>a DEF Member, Absent
    <3> QED  BY <2>3, <3>1 DEF SetMemberRole, SameSeats, Holders, Holds, TypeOK
  <2>4. ASSUME NEW r \in Roles, NEW id \in 0..MaxAuth, TransferOwnership(a, w, u, r, id)
        PROVE  SameSeats
    <3>1. /\ [member[w][a] EXCEPT !.role = r].status = member[w][a].status
          /\ [member[w][u] EXCEPT !.role = "owner"].status = member[w][u].status
      BY <2>a DEF Member, Absent
    <3>2. \A v \in Workspaces, x \in Users : member'[v][x].status = member[v][x].status
      BY <2>4, <3>1 DEF TransferOwnership, TypeOK
    <3> QED  BY <2>4, <3>2 DEF TransferOwnership, SameSeats, Holders, Holds
  <2> QED  BY <2>1, <2>2, <2>3, <2>4
<1>4. ASSUME NEW u \in Users, NEW i \in Invites, NEW token \in 0..MaxToken, Join(u, i, token)
      PROVE  \E w \in Workspaces : TakesSeat(w, u)
  <2> DEFINE w == invitation[i].ws
             r == invitation[i].role
  <2>1. w \in Workspaces
    BY <1>4 DEF Join, Acceptable, Pending, TypeOK, Invitation
  <2>2. /\ Outsider(w, u) /\ SeatFree(w) /\ UNCHANGED plan
        /\ seats' = [seats EXCEPT ![w] = @ + 1]
        /\ member' = [member EXCEPT ![w][u] = Seat(r)]
    BY <1>4 DEF Join
  <2> HIDE DEF w, r
  <2>3. \A v \in Workspaces :
          Holders(v)' = IF v = w THEN Holders(v) \cup {u} ELSE Holders(v)
    BY <2>1, <2>2 DEF Holders, Holds, Seat, TypeOK
  <2>4. TakesSeat(w, u)
    BY <2>2, <2>3 DEF TakesSeat, Outsider, Holders
  <2> QED  BY <2>1, <2>4
<1>5. ASSUME NEW u \in Users, CloseAccount(u)
      PROVE  LeavesSeats(BelongsTo(u), u)
  <2>1. \A v \in BelongsTo(u) : Left(member[v][u]).status = "removed"
    BY DEF BelongsTo, Left, TypeOK, Member, Absent
  <2>2. \A v \in Workspaces, x \in Users :
          member'[v][x] = IF v \in BelongsTo(u) /\ x = u THEN Left(member[v][x])
                                                         ELSE member[v][x]
    BY <1>5 DEF CloseAccount, TypeOK
  <2>3. \A v \in Workspaces :
          Holders(v)' = IF v \in BelongsTo(u) THEN Holders(v) \ {u} ELSE Holders(v)
    BY <2>1, <2>2 DEF Holders, Holds
  <2>4. \A v \in BelongsTo(u) : u \in Holders(v)
    BY DEF BelongsTo, Holders
  <2> QED  BY <1>5, <2>3, <2>4 DEF CloseAccount, LeavesSeats, Freed
<1>6. \A u \in Users : BelongsTo(u) \in SUBSET Workspaces
  BY DEF BelongsTo
<1> QED  BY <1>1, <1>2, <1>3, <1>4, <1>5, <1>6, MemberWriters

\* The counter follows the members: one more user, or one user less.
LEMMA StepSeats == TypeOK /\ Known /\ SeatsAreMembers /\ [Next]_vars => SeatsAreMembers'
<1> SUFFICES ASSUME TypeOK, Known, SeatsAreMembers, [Next]_vars,
                    NEW w \in Workspaces
             PROVE  seats'[w] = Cardinality(Holders(w)')
  BY DEF SeatsAreMembers
<1>a. /\ seats[w] = Cardinality(Holders(w)) /\ seats[w] \in Nat
      /\ IsFiniteSet(Holders(w))
  BY FS_Subset, ConstantsAssumption DEF SeatsAreMembers, Holders, TypeOK
<1>1. CASE SameSeats
  BY <1>1, <1>a DEF SameSeats
<1>2. ASSUME NEW v \in Workspaces, NEW u \in Users, TakesSeat(v, u)
      PROVE  seats'[w] = Cardinality(Holders(w)')
  <2>1. CASE v = w
    <3>1. Cardinality(Holders(w) \cup {u}) = Cardinality(Holders(w)) + 1
      BY <1>2, <1>a, <2>1, FS_AddElement DEF TakesSeat
    <3> QED  BY <1>2, <1>a, <2>1, <3>1 DEF TakesSeat, TypeOK
  <2>2. CASE v # w
    BY <1>2, <1>a, <2>2 DEF TakesSeat, TypeOK
  <2> QED  BY <2>1, <2>2
<1>3. ASSUME NEW W \in SUBSET Workspaces, NEW u \in Users, LeavesSeats(W, u)
      PROVE  seats'[w] = Cardinality(Holders(w)')
  <2>1. CASE w \in W
    <3>1. Cardinality(Holders(w) \ {u}) = Cardinality(Holders(w)) - 1
      BY <1>3, <1>a, <2>1, FS_RemoveElement DEF LeavesSeats
    <3> QED  BY <1>3, <1>a, <2>1, <3>1 DEF LeavesSeats
  <2>2. CASE w \notin W
    BY <1>3, <1>a, <2>2 DEF LeavesSeats
  <2> QED  BY <2>1, <2>2
<1> QED  BY <1>1, <1>2, <1>3, SeatStep

\* In the ledger's terms: nothing but a new contract, a seat taken below the
\* capacity, or the seats one user gives back.
LEMMA LedgerStep ==
  ASSUME TypeOK, TypeOK', Known, SeatsAreMembers, [Next]_vars
  PROVE  [Ledger!Next]_(Ledger!vars)
<1> DEFINE holders  == [v \in Workspaces |-> Holders(v)]
           capacity == [v \in Workspaces |-> SeatLimit[plan[v]]]
<1>a. /\ holders' = [v \in Workspaces |-> Holders(v)']
      /\ capacity' = [v \in Workspaces |-> SeatLimit[plan'[v]]]
      /\ capacity' \in [Workspaces -> Nat]
  BY ConstantsAssumption DEF TypeOK
<1>1. CASE SameSeats
  <2>1. holders' = holders
    BY <1>1, <1>a DEF SameSeats
  <2>2. Ledger!Recontract
    BY <1>a, <2>1 DEF Ledger!Recontract
  <2> QED  BY <2>2 DEF Ledger!Next
<1>2. ASSUME NEW w \in Workspaces, NEW u \in Users, TakesSeat(w, u)
      PROVE  Ledger!Take(w, u)
  <2>1. u \notin holders[w] /\ Cardinality(holders[w]) = seats[w]
    BY <1>2 DEF TakesSeat, SeatsAreMembers
  <2>2. SeatLimit[plan[w]] \in Nat /\ seats[w] \in Nat
    BY ConstantsAssumption DEF TypeOK
  <2>3. Cardinality(holders[w]) < capacity[w]
    BY <1>2, <2>1, <2>2 DEF TakesSeat, SeatFree
  <2>4. capacity' = capacity
    BY <1>2, <1>a DEF TakesSeat
  <2>5. holders' = [holders EXCEPT ![w] = @ \cup {u}]
    BY <1>2, <1>a DEF TakesSeat
  <2>6. \A S : Ledger!Cardinality(S) = Cardinality(S)
    BY DEF Ledger!Cardinality, Cardinality
  <2> QED  BY <2>1, <2>3, <2>4, <2>5, <2>6 DEF Ledger!Take
<1>3. ASSUME NEW W \in SUBSET Workspaces, NEW u \in Users, LeavesSeats(W, u)
      PROVE  Ledger!Release(u, W)
  <2>1. holders' = [v \in Workspaces |-> IF v \in W THEN holders[v] \ {u} ELSE holders[v]]
    BY <1>3, <1>a DEF LeavesSeats
  <2> QED  BY <1>a, <2>1 DEF Ledger!Release
<1> QED  BY <1>1, <1>2, <1>3, SeatStep DEF Ledger!Next

LEMMA LedgerInit == Init => Ledger!Init
<1> SUFFICES ASSUME Init PROVE Ledger!Init
  OBVIOUS
<1>1. \A w \in Workspaces : Holders(w) = {}
  BY DEF Init, Holders, Holds, Absent
<1>2. \A w \in Workspaces : SeatLimit[plan[w]] \in Nat
  BY ConstantsAssumption DEF Init
<1> QED  BY <1>1, <1>2 DEF Ledger!Init

-----------------------------------------------------------------------------
(* Owners.                                                                 *)

\* A step that is not a transfer keeps or empties the owners of a workspace
\* that has some, and empties those of workspaces that leave service only.
KeepsOwner(w) ==
    /\ Owners(w)' = Owners(w)
    /\ \A u \in Owners(w) : member'[w][u] = member[w][u]
    /\ InService(w)' => InService(w)

LosesOwner(w) == Owners(w)' = {} /\ status'[w] \in {"archived", "closed"}

GivesOwner(w) ==
    /\ authorization[w].state = "active"
    /\ authorization'[w] = [authorization[w] EXCEPT !.state = "consumed"]
    /\ \E u \in Users : Owners(w)' = {u} /\ member'[w][u].status = "active"

FirstOwner(w) ==
    /\ Owners(w) = {}
    /\ \E u \in Users : Owners(w)' = {u} /\ member'[w][u].status = "active"

\* The roles and statuses of the owners change through these doors only.
LEMMA OwnerStep ==
  ASSUME TypeOK, Known, OneOwner, [Next]_vars, NEW w \in Workspaces
  PROVE  KeepsOwner(w) \/ LosesOwner(w) \/ GivesOwner(w) \/ FirstOwner(w)
<1>1. Bystander => KeepsOwner(w)
  BY DEF Bystander, KeepsOwner, Owners, IsOwner, Holds
<1>2. ASSUME NEW a \in Users, NEW v \in Workspaces, CreateWorkspace(a, v)
      PROVE  FirstOwner(w) \/ KeepsOwner(w)
  <2>1. CASE v = w
    <3>1. Owners(w) = {}
      BY <1>2, <2>1 DEF CreateWorkspace, Known, Owners, IsOwner, Holds, Absent
    <3>2. Owners(w)' = {a} /\ member'[w][a].status = "active"
      BY <1>2, <2>1 DEF CreateWorkspace, Known, Owners, IsOwner, Holds, Absent, Seat, TypeOK
    <3> QED  BY <3>1, <3>2 DEF FirstOwner
  <2>2. CASE v # w
    BY <1>2, <2>2 DEF CreateWorkspace, KeepsOwner, Owners, IsOwner, Holds, InService, TypeOK
  <2> QED  BY <2>1, <2>2
<1>3. ASSUME MemberNext PROVE GivesOwner(w) \/ KeepsOwner(w)
  <2> PICK a \in Users, u \in Users, v \in Workspaces :
        \/ SuspendMember(a, v, u) \/ RemoveMember(a, v, u)
        \/ \E r \in Roles : SetMemberRole(a, v, u, r)
        \/ \E r \in Roles, id \in 0..MaxAuth : TransferOwnership(a, v, u, r, id)
    BY <1>3 DEF MemberNext
  <2>a. member[v][u] \in Member /\ member[v][a] \in Member
    BY DEF TypeOK
  <2>1. CASE SuspendMember(a, v, u)
    <3>1. [member[v][u] EXCEPT !.status = "suspended"].role = member[v][u].role
      BY <2>a DEF Member, Absent
    <3>2. \A x \in Users, y \in Workspaces : ~(x = u /\ y = v) => member'[y][x] = member[y][x]
      BY <2>1 DEF SuspendMember, TypeOK
    <3>3. member[v][u].role # "owner" /\ member'[v][u].role # "owner" /\ UNCHANGED status
      BY <2>1, <3>1 DEF SuspendMember, Mutable, TypeOK
    <3> QED  BY <3>2, <3>3 DEF KeepsOwner, Owners, IsOwner, Holds, InService
  <2>2. CASE RemoveMember(a, v, u)
    <3>1. Left(member[v][u]).role = member[v][u].role
      BY <2>a DEF Left, Member, Absent
    <3>2. \A x \in Users, y \in Workspaces : ~(x = u /\ y = v) => member'[y][x] = member[y][x]
      BY <2>2 DEF RemoveMember, TypeOK
    <3>3. member[v][u].role # "owner" /\ member'[v][u].role # "owner" /\ UNCHANGED status
      BY <2>2, <3>1 DEF RemoveMember, Mutable, TypeOK
    <3> QED  BY <3>2, <3>3 DEF KeepsOwner, Owners, IsOwner, Holds, InService
  <2>3. ASSUME NEW r \in Roles, SetMemberRole(a, v, u, r) PROVE KeepsOwner(w)
    <3>1. [member[v][u] EXCEPT !.role = r].role = r
      BY <2>a DEF Member, Absent
    <3>2. \A x \in Users, y \in Workspaces : ~(x = u /\ y = v) => member'[y][x] = member[y][x]
      BY <2>3 DEF SetMemberRole, TypeOK
    <3>3. member[v][u].role # "owner" /\ member'[v][u].role # "owner" /\ UNCHANGED status
      BY <2>3, <3>1 DEF SetMemberRole, Mutable, TypeOK
    <3> QED  BY <3>2, <3>3 DEF KeepsOwner, Owners, IsOwner, Holds, InService
  <2>4. ASSUME NEW r \in Roles, NEW id \in 0..MaxAuth, TransferOwnership(a, v, u, r, id)
        PROVE  GivesOwner(w) \/ KeepsOwner(w)
    <3>1. CASE v = w
      <4>1. /\ member'[w][a] = [member[w][a] EXCEPT !.role = r]
            /\ member'[w][u] = [member[w][u] EXCEPT !.role = "owner"]
            /\ \A x \in Users \ {a, u} : member'[w][x] = member[w][x]
        BY <2>4, <3>1 DEF TransferOwnership, TypeOK
      <4>a. /\ member[w][a] = [status |-> "active", role |-> "owner"]
            /\ member[w][u] = [status |-> "active", role |-> member[w][u].role]
        BY <2>4, <2>a, <3>1 DEF TransferOwnership, Member, Absent, Seat
      <4>2. /\ member'[w][a].role = r
            /\ member'[w][u].role = "owner" /\ member'[w][u].status = "active"
        BY <4>1, <4>a
      <4>3. a \in Owners(w) /\ r # "owner" /\ u # a
        BY <2>4, <3>1 DEF TransferOwnership, Owners, IsOwner, Holds, Seat
      <4>4. \A x \in Owners(w) : x = a
        BY <4>3 DEF OneOwner
      <4>5. IsOwner(w, u)' /\ ~IsOwner(w, a)'
        BY <4>2, <4>3 DEF IsOwner, Holds
      <4>6. \A x \in Users : x # u => ~IsOwner(w, x)'
        BY <4>1, <4>4, <4>5 DEF Owners, IsOwner, Holds
      <4>7. Owners(w)' = {u}
        BY <4>5, <4>6 DEF Owners
      <4>8. authorization[w].state = "active"
        BY <2>4, <3>1 DEF TransferOwnership, StillAuthorized
      <4>9. authorization'[w] = [authorization[w] EXCEPT !.state = "consumed"]
        BY <2>4, <3>1 DEF TransferOwnership, Consumed, TypeOK
      <4> QED  BY <4>2, <4>7, <4>8, <4>9 DEF GivesOwner
    <3>2. CASE v # w
      <4>1. member'[w] = member[w] /\ UNCHANGED status
        BY <2>4, <3>2 DEF TransferOwnership, TypeOK
      <4> QED  BY <4>1 DEF KeepsOwner, Owners, IsOwner, Holds, InService
    <3> QED  BY <3>1, <3>2
  <2> QED  BY <2>1, <2>2, <2>3, <2>4
<1>4. ASSUME NEW u \in Users, NEW i \in Invites, NEW token \in 0..MaxToken, Join(u, i, token)
      PROVE  KeepsOwner(w)
  <2> DEFINE v == invitation[i].ws
             r == invitation[i].role
  <2>1. v \in Workspaces
    BY <1>4 DEF Join, Acceptable, Pending, TypeOK, Invitation
  <2>2. /\ Outsider(v, u) /\ r # "owner" /\ UNCHANGED status
        /\ member' = [member EXCEPT ![v][u] = Seat(r)]
    BY <1>4 DEF Join
  <2> HIDE DEF v, r
  <2>3. \A x \in Users, y \in Workspaces : ~(x = u /\ y = v) => member'[y][x] = member[y][x]
    BY <2>2 DEF TypeOK
  <2>4. member'[v][u].role # "owner" /\ ~Holds(v, u)
    BY <2>1, <2>2 DEF Seat, TypeOK, Outsider
  <2> QED  BY <2>2, <2>3, <2>4 DEF KeepsOwner, Owners, IsOwner, Holds, InService
<1>5. ASSUME NEW u \in Users, CloseAccount(u)
      PROVE  KeepsOwner(w) \/ LosesOwner(w)
  <2>1. \A v \in Workspaces, x \in Users :
          member'[v][x] = IF v \in BelongsTo(u) /\ x = u THEN Left(member[v][x])
                                                         ELSE member[v][x]
    BY <1>5 DEF CloseAccount, TypeOK
  <2>2. ~Holds(w, u)'
    <3>1. Left(member[w][u]).status = "removed"
      BY DEF Left, TypeOK, Member, Absent
    <3> QED  BY <2>1, <3>1 DEF BelongsTo, Holds
  <2>3. Owners(w)' = Owners(w) \ {u}
    BY <2>1, <2>2 DEF Owners, IsOwner, Holds
  <2>4. CASE u \in Owners(w)
    <3>1. Owners(w)' = {}
      BY <2>3, <2>4 DEF OneOwner
    <3>2. status'[w] = IF InService(w) THEN "archived" ELSE status[w]
      BY <1>5, <2>4 DEF CloseAccount, Owned, Owners, InService
    <3>3. status[w] # "absent"
      BY <2>4 DEF Known, Owners, IsOwner, Holds, Absent
    <3> QED  BY <3>1, <3>2, <3>3 DEF LosesOwner, InService, TypeOK
  <2>5. CASE u \notin Owners(w)
    <3>1. w \notin Owned(u)
      BY <2>5 DEF Owned, Owners
    <3>2. status'[w] = status[w]
      BY <1>5, <3>1 DEF CloseAccount, TypeOK
    <3>3. \A x \in Owners(w) : member'[w][x] = member[w][x]
      BY <2>1, <2>5 DEF Owners
    <3> QED  BY <2>3, <2>5, <3>2, <3>3 DEF KeepsOwner, InService
  <2> QED  BY <2>4, <2>5
<1> QED  BY <1>1, <1>2, <1>3, <1>4, <1>5, MemberWriters

LEMMA StepOwner == TypeOK /\ Known /\ OneOwner /\ [Next]_vars => OneOwner'
<1> SUFFICES ASSUME TypeOK, Known, OneOwner, [Next]_vars, NEW w \in Workspaces
             PROVE  /\ \A u, v \in Owners(w)' : u = v
                    /\ \A u \in Owners(w)' : member'[w][u].status = "active"
                    /\ InService(w)' => Owners(w)' # {}
  BY DEF OneOwner, InService
<1>1. CASE KeepsOwner(w)
  BY <1>1 DEF KeepsOwner, OneOwner, InService
<1>2. CASE LosesOwner(w)
  BY <1>2 DEF LosesOwner, InService
<1>3. CASE GivesOwner(w)
  BY <1>3 DEF GivesOwner
<1>4. CASE FirstOwner(w)
  BY <1>4 DEF FirstOwner
<1> QED  BY <1>1, <1>2, <1>3, <1>4, OwnerStep

\* The body of OwnershipMoves, of one step.
LEMMA StepMoves ==
  ASSUME TypeOK, Known, OneOwner, [Next]_vars, NEW w \in Workspaces,
         Owners(w) # {}, Owners(w)' # Owners(w)
  PROVE  \/ /\ authorization[w].state = "active"
            /\ authorization'[w] = [authorization[w] EXCEPT !.state = "consumed"]
            /\ Owners(w)' # {}
         \/ /\ Owners(w)' = {}
            /\ status'[w] \in {"archived", "closed"}
BY OwnerStep DEF KeepsOwner, LosesOwner, GivesOwner, FirstOwner

-----------------------------------------------------------------------------
(* Ways into a workspace.                                                  *)

\* Nothing becomes pending, and no one takes a seat.
NarrowsWays ==
    /\ \A w \in Workspaces, u \in Users : PendingFor(w, u)' \subseteq PendingFor(w, u)
    /\ \A w \in Workspaces, u \in Users : Holds(w, u)' => Holds(w, u)

\* Marked invitations are no longer pending, the others are as they were.
LEMMA MarkedPending ==
  ASSUME TypeOK, NEW S, \A i \in S : i \in Invites => invitation[i] # None,
         NEW to \in {"accepted", "revoked", "expired"},
         invitation' = Marked(S, to),
         NEW w \in Workspaces, NEW u \in Users
  PROVE  PendingFor(w, u)' = PendingFor(w, u) \ S
<1>1. ASSUME NEW i \in Invites, i \in S
      PROVE  invitation'[i] # None /\ invitation'[i].status = to
  <2>1. invitation[i] \in Invitation
    BY <1>1 DEF TypeOK
  <2>2. invitation'[i] = [invitation[i] EXCEPT !.status = to]
    BY <1>1 DEF Marked
  <2>3. [invitation[i] EXCEPT !.status = to] \in Invitation
    BY <2>1 DEF Invitation
  <2>4. [invitation[i] EXCEPT !.status = to].status = to
    BY <2>1 DEF Invitation
  <2> QED  BY <2>2, <2>3, <2>4, NoneAssumption
<1>2. \A i \in Invites : i \notin S => invitation'[i] = invitation[i]
  BY DEF Marked
<1> QED  BY <1>1, <1>2 DEF PendingFor, Pending

\* Suspensions, removals, role changes and transfers give no one a seat.
LEMMA MemberNarrows ==
  TypeOK /\ MemberNext => \A w \in Workspaces, u \in Users : Holds(w, u)' => Holds(w, u)
<1> SUFFICES ASSUME TypeOK, NEW a \in Users, NEW u \in Users, NEW v \in Workspaces,
                    \/ SuspendMember(a, v, u) \/ RemoveMember(a, v, u)
                    \/ \E r \in Roles : SetMemberRole(a, v, u, r)
                    \/ \E r \in Roles, id \in 0..MaxAuth : TransferOwnership(a, v, u, r, id),
                    NEW w \in Workspaces, NEW x \in Users, Holds(w, x)'
             PROVE  Holds(w, x)
  BY DEF MemberNext
<1>a. member[v][u] \in Member /\ member[v][a] \in Member
  BY DEF TypeOK
<1>1. CASE SuspendMember(a, v, u)
  BY <1>1 DEF SuspendMember, Holds, TypeOK
<1>2. CASE RemoveMember(a, v, u)
  BY <1>2 DEF RemoveMember, Holds, TypeOK
<1>3. ASSUME NEW r \in Roles, SetMemberRole(a, v, u, r) PROVE Holds(w, x)
  BY <1>3 DEF SetMemberRole, Holds, TypeOK
<1>4. ASSUME NEW r \in Roles, NEW id \in 0..MaxAuth, TransferOwnership(a, v, u, r, id)
      PROVE  Holds(w, x)
  <2>1. member[v][a].status = "active" /\ member[v][u].status = "active"
    BY <1>4 DEF TransferOwnership, Seat
  <2>2. x \notin {a, u} \/ w # v => member'[w][x] = member[w][x]
    BY <1>4 DEF TransferOwnership, TypeOK
  <2> QED  BY <2>1, <2>2 DEF Holds
<1> QED  BY <1>1, <1>2, <1>3, <1>4

\* What is left of the ways in after each step.
LEMMA WaysStep ==
  ASSUME TypeOK, Known, [Next]_vars
  PROVE  \/ NarrowsWays
         \/ \E a \in Users, w \in Workspaces : CreateWorkspace(a, w)
         \/ \E u \in Users, i \in Invites, token \in 0..MaxToken : Join(u, i, token)
         \/ \E a, u \in Users, w \in Workspaces, r \in Roles, i \in Invites :
              Invite(a, w, u, r, i)
<1> DEFINE Narrow == \A w \in Workspaces, u \in Users :
                        PendingFor(w, u)' \subseteq PendingFor(w, u)
           Seated == \A w \in Workspaces, u \in Users : Holds(w, u)' => Holds(w, u)
<1>a. UNCHANGED invitation => Narrow
  BY DEF PendingFor, Pending
<1>b. UNCHANGED member => Seated
  BY DEF Holds
<1>c. \A S \in SUBSET Invites : \A to \in {"accepted", "revoked", "expired"} :
        (\A i \in S : Pending(i)) /\ invitation' = Marked(S, to) => Narrow
  BY MarkedPending DEF Pending
<1>d. NarrowsWays <=> Narrow /\ Seated
  BY DEF NarrowsWays
<1>e. \A w \in Workspaces : /\ PendingIn({w}) \in SUBSET Invites
                            /\ \A i \in PendingIn({w}) : Pending(i)
  BY DEF PendingIn
<1> HIDE DEF Narrow, Seated
<1>1. ASSUME WorkspaceNext
      PROVE  NarrowsWays \/ \E a \in Users, w \in Workspaces : CreateWorkspace(a, w)
  <2> PICK w \in Workspaces :
        \/ CloseWorkspace(w) \/ ToggleSuspension(w)
        \/ Authorize(w) \/ EndAuthorization(w)
        \/ \E p \in Plans : ChangeEntitlement(w, p)
        \/ \E a \in Users : CreateWorkspace(a, w) \/ ArchiveWorkspace(a, w)
    BY <1>1 DEF WorkspaceNext
  <2>1. CASE CloseWorkspace(w)
    BY <2>1, <1>b, <1>c, <1>d, <1>e DEF CloseWorkspace
  <2>2. CASE ToggleSuspension(w) \/ Authorize(w) \/ EndAuthorization(w)
    BY <2>2, <1>a, <1>b, <1>d DEF ToggleSuspension, Authorize, EndAuthorization
  <2>3. CASE \E p \in Plans : ChangeEntitlement(w, p)
    BY <2>3, <1>a, <1>b, <1>d DEF ChangeEntitlement
  <2>4. ASSUME NEW a \in Users, ArchiveWorkspace(a, w) PROVE NarrowsWays
    BY <2>4, <1>b, <1>c, <1>d, <1>e DEF ArchiveWorkspace
  <2> QED  BY <2>1, <2>2, <2>3, <2>4
<1>2. ASSUME RoleNext PROVE NarrowsWays
  BY <1>2, <1>a, <1>b, <1>d DEF RoleNext, CreateRole, DeleteRole
<1>3. ASSUME MemberNext PROVE NarrowsWays
  <2>1. UNCHANGED invitation
    <3> PICK a \in Users, u \in Users, w \in Workspaces :
        \/ SuspendMember(a, w, u) \/ RemoveMember(a, w, u)
        \/ \E r \in Roles : SetMemberRole(a, w, u, r)
        \/ \E r \in Roles, id \in 0..MaxAuth : TransferOwnership(a, w, u, r, id)
      BY <1>3 DEF MemberNext
    <3> QED
      BY DEF SuspendMember, RemoveMember, SetMemberRole, TransferOwnership
  <2> QED  BY <1>3, <2>1, <1>a, <1>d, MemberNarrows DEF Seated
<1>4. ASSUME InvitationNext
      PROVE  \/ NarrowsWays
             \/ \E u \in Users, i \in Invites, token \in 0..MaxToken : Join(u, i, token)
             \/ \E a, u \in Users, w \in Workspaces, r \in Roles, i \in Invites :
                  Invite(a, w, u, r, i)
  <2> PICK i \in Invites :
      \/ InvitationLapses(i)
      \/ \E u \in Users, token \in 0..MaxToken :
           AcceptInvitation(u, i, token) \/ AcceptNewInvitation(u, i, token)
      \/ \E a \in Users, w \in Workspaces :
           \/ RevokeInvitation(a, w, i) \/ ResendInvitation(a, w, i)
           \/ ListInvitations(a, w)
           \/ \E u \in Users, r \in Roles : Invite(a, w, u, r, i)
    BY <1>4 DEF InvitationNext
  <2>a. Pending(i) => invitation[i] \in Invitation
    BY DEF Pending, TypeOK
  <2>1. CASE InvitationLapses(i)
    <3>1. /\ [invitation[i] EXCEPT !.lapsed = TRUE].ws = invitation[i].ws
          /\ [invitation[i] EXCEPT !.lapsed = TRUE].email = invitation[i].email
      BY <2>1, <2>a DEF InvitationLapses, Invitation
    <3>2. Narrow
      BY <2>1, <3>1 DEF InvitationLapses, PendingFor, Pending, TypeOK, Narrow
    <3> QED  BY <2>1, <3>2, <1>b, <1>d DEF InvitationLapses
  <2>2. ASSUME NEW u \in Users, NEW token \in 0..MaxToken,
               AcceptInvitation(u, i, token) \/ AcceptNewInvitation(u, i, token)
        PROVE  Join(u, i, token)
    BY <2>2 DEF AcceptInvitation, AcceptNewInvitation
  <2>3. ASSUME NEW a \in Users, NEW w \in Workspaces, RevokeInvitation(a, w, i)
        PROVE  NarrowsWays
    BY <2>3, <1>b, <1>c, <1>d DEF RevokeInvitation
  <2>4. ASSUME NEW a \in Users, NEW w \in Workspaces, ResendInvitation(a, w, i)
        PROVE  NarrowsWays
    <3>1. /\ [invitation[i] EXCEPT !.token = @ + 1].ws = invitation[i].ws
          /\ [invitation[i] EXCEPT !.token = @ + 1].email = invitation[i].email
      BY <2>4, <2>a DEF ResendInvitation, Invitation
    <3>2. Narrow
      BY <2>4, <3>1 DEF ResendInvitation, PendingFor, Pending, TypeOK, Narrow
    <3> QED  BY <2>4, <3>2, <1>b, <1>d DEF ResendInvitation
  <2>5. ASSUME NEW a \in Users, NEW w \in Workspaces, ListInvitations(a, w)
        PROVE  NarrowsWays
    <3>1. /\ Lapsed(PendingIn({w})) \in SUBSET Invites
          /\ \A j \in Lapsed(PendingIn({w})) : Pending(j)
      BY DEF Lapsed, PendingIn
    <3> QED  BY <2>5, <3>1, <1>b, <1>c, <1>d DEF ListInvitations
  <2> QED  BY <2>1, <2>2, <2>3, <2>4, <2>5
<1>5. ASSUME AccountNext PROVE NarrowsWays
  <2> PICK u \in Users : Register(u) \/ CloseAccount(u)
    BY <1>5 DEF AccountNext
  <2>1. CASE Register(u)
    BY <2>1, <1>a, <1>b, <1>d DEF Register
  <2>2. CASE CloseAccount(u)
    <3> DEFINE S == PendingIn(Owned(u)) \cup
                      {i \in Invites : Pending(i) /\ invitation[i].email = u}
    <3>1. S \in SUBSET Invites /\ \A i \in S : Pending(i)
      BY DEF PendingIn
    <3>2. invitation' = Marked(S, "revoked")
      BY <2>2 DEF CloseAccount
    <3> HIDE DEF S
    <3>3. Narrow
      BY <3>1, <3>2, <1>c
    <3>4. \A w \in Workspaces, x \in Users : member'[w][x] =
             IF w \in BelongsTo(u) /\ x = u THEN Left(member[w][x]) ELSE member[w][x]
      BY <2>2 DEF CloseAccount, TypeOK
    <3>5. \A w \in Workspaces : w \in BelongsTo(u) => Holds(w, u)
      BY DEF BelongsTo
    <3>6. Seated
      BY <3>4, <3>5 DEF Seated, Holds
    <3> QED  BY <3>3, <3>6, <1>d
  <2> QED  BY <2>1, <2>2
<1>6. ASSUME AdmissionNext \/ UNCHANGED vars PROVE NarrowsWays
  BY <1>6, <1>a, <1>b, <1>d DEF AdmissionNext, Admit, Drop, vars
<1> QED  BY <1>1, <1>2, <1>3, <1>4, <1>5, <1>6 DEF Next

LEMMA StepWays == TypeOK /\ Known /\ OneWayIn /\ [Next]_vars => OneWayIn'
<1> SUFFICES ASSUME TypeOK, Known, OneWayIn, [Next]_vars,
                    NEW w \in Workspaces, NEW u \in Users
             PROVE  /\ \A i, j \in PendingFor(w, u)' : i = j
                    /\ Holds(w, u)' => PendingFor(w, u)' = {}
  BY DEF OneWayIn
<1>a. /\ \A i, j \in PendingFor(w, u) : i = j
      /\ Holds(w, u) => PendingFor(w, u) = {}
  BY DEF OneWayIn
<1>1. CASE NarrowsWays
  BY <1>1, <1>a DEF NarrowsWays
<1>2. ASSUME NEW a \in Users, NEW v \in Workspaces, CreateWorkspace(a, v)
      PROVE  /\ PendingFor(w, u)' = PendingFor(w, u)
             /\ Holds(w, u)' => Holds(w, u) \/ PendingFor(w, u) = {}
  <2>1. PendingFor(w, u)' = PendingFor(w, u)
    BY <1>2 DEF CreateWorkspace, PendingFor, Pending
  <2>2. v = w => PendingFor(w, u) = {}
    BY <1>2 DEF CreateWorkspace, Known, PendingFor, Pending
  <2>3. v # w => member'[w] = member[w]
    BY <1>2 DEF CreateWorkspace, TypeOK
  <2> QED  BY <2>1, <2>2, <2>3 DEF Holds
<1>3. ASSUME NEW x \in Users, NEW i \in Invites, NEW token \in 0..MaxToken, Join(x, i, token)
      PROVE  /\ PendingFor(w, u)' \subseteq PendingFor(w, u)
             /\ Holds(w, u)' => Holds(w, u) \/ PendingFor(w, u)' = {}
  <2> DEFINE v == invitation[i].ws
             r == invitation[i].role
  <2>1. PendingFor(w, u)' = PendingFor(w, u) \ {i}
    BY <1>3, MarkedPending DEF Join, Acceptable, Pending
  <2>2. i \in PendingFor(v, x)
    BY <1>3 DEF Join, Acceptable, PendingFor
  <2>3. member' = [member EXCEPT ![v][x] = Seat(r)]
    BY <1>3 DEF Join
  <2> HIDE DEF v, r
  <2>4. ~(v = w /\ x = u) => member'[w][u] = member[w][u]
    BY <2>3 DEF TypeOK
  <2>5. v = w /\ x = u => PendingFor(w, u)' = {}
    BY <2>1, <2>2, <1>a
  <2> QED  BY <2>1, <2>4, <2>5 DEF Holds
<1>4. ASSUME NEW a \in Users, NEW x \in Users, NEW v \in Workspaces, NEW r \in Roles,
             NEW i \in Invites, Invite(a, v, x, r, i)
      PROVE  /\ \A j, k \in PendingFor(w, u)' : j = k
             /\ Holds(w, u)' => PendingFor(w, u)' = {}
  <2> DEFINE L == Lapsed(PendingFor(v, x))
             M == Marked(L, "expired")
             d == [ws |-> v, email |-> x, role |-> r, status |-> "pending",
                   lapsed |-> FALSE, token |-> 0]
  <2>1. /\ invitation' = [M EXCEPT ![i] = d] /\ UNCHANGED member
        /\ Outsider(v, x) /\ PendingFor(v, x) = L /\ invitation[i] = None
    BY <1>4 DEF Invite, NoneLeft
  <2>2. M \in [Invites -> Invitation \cup {None}]
    BY MarkedType DEF Lapsed, PendingFor, Pending
  <2>3. /\ d # None /\ d.ws = v /\ d.email = x /\ d.status = "pending"
    <3>1. d \in Invitation
      BY DEF Invitation
    <3> QED  BY <3>1, NoneAssumption
  <2>4. \A j \in L : j \in Invites /\ invitation[j] \in Invitation
    BY DEF Lapsed, PendingFor, Pending, TypeOK
  <2>5. \A j \in Invites : M[j] = IF j \in L THEN [invitation[j] EXCEPT !.status = "expired"]
                                             ELSE invitation[j]
    BY DEF Marked
  <2>6. \A j \in L : M[j].status = "expired"
    BY <2>4, <2>5 DEF Invitation
  <2> HIDE DEF M, d, L
  <2>7. \A j \in Invites : invitation'[j] = IF j = i THEN d ELSE M[j]
    BY <2>1, <2>2
  <2>8. \A j \in Invites : j # i /\ j \in PendingFor(w, u)' => j \in PendingFor(w, u) \ L
    BY <2>5, <2>6, <2>7 DEF PendingFor, Pending
  <2>9. i \in PendingFor(w, u)' => w = v /\ u = x
    BY <2>3, <2>7 DEF PendingFor
  <2>10. PendingFor(w, u)' \subseteq Invites
    BY DEF PendingFor
  <2>11. CASE w = v /\ u = x
    <3>1. PendingFor(w, u)' \subseteq {i}
      BY <2>1, <2>8, <2>10, <2>11
    <3> QED  BY <2>1, <2>11, <3>1 DEF Outsider, Holds
  <2>12. CASE ~(w = v /\ u = x)
    <3>1. PendingFor(w, u)' \subseteq PendingFor(w, u)
      BY <2>8, <2>9, <2>10, <2>12
    <3> QED  BY <2>1, <3>1, <1>a DEF Holds
  <2> QED  BY <2>11, <2>12
<1> QED  BY <1>a, <1>1, <1>2, <1>3, <1>4, WaysStep

-----------------------------------------------------------------------------
(* Authorizations of a transfer.                                           *)

\* A step issues an authorization, ends the active one, consumes it with one
\* transfer, or leaves both counters alone.
LEMMA AuthorizationStep ==
  ASSUME TypeOK, [Next]_vars, NEW w \in Workspaces
  PROVE  \/ UNCHANGED <<authorization[w], version[w]>>
         \/ /\ authorization[w].state # "active"
            /\ authorization'[w] = [id |-> authorization[w].id + 1, state |-> "active"]
            /\ version'[w] = version[w]
         \/ /\ authorization[w].state = "active"
            /\ authorization'[w].id = authorization[w].id
            /\ authorization'[w].state # "active"
            /\ version'[w] \in {version[w], version[w] + 1}
<1> DEFINE Still == UNCHANGED <<authorization[w], version[w]>>
           Ends  == /\ authorization[w].state = "active"
                    /\ authorization'[w].id = authorization[w].id
                    /\ authorization'[w].state # "active"
                    /\ version'[w] \in {version[w], version[w] + 1}
           Issues == /\ authorization[w].state # "active"
                     /\ authorization'[w] = [id |-> authorization[w].id + 1, state |-> "active"]
                     /\ version'[w] = version[w]
<1>a. authorization[w] \in Authorization /\ version[w] \in Nat
  BY DEF TypeOK
<1>b. \A to \in {"revoked", "expired", "consumed"} :
        /\ [authorization[w] EXCEPT !.state = to].id = authorization[w].id
        /\ [authorization[w] EXCEPT !.state = to].state # "active"
  BY <1>a DEF Authorization
<1>c. UNCHANGED <<authorization, version>> => Still
  OBVIOUS
<1> HIDE DEF Still
<1>1. ASSUME WorkspaceNext PROVE Still \/ Ends \/ Issues
  <2> PICK v \in Workspaces :
        \/ CloseWorkspace(v) \/ ToggleSuspension(v)
        \/ Authorize(v) \/ EndAuthorization(v)
        \/ \E p \in Plans : ChangeEntitlement(v, p)
        \/ \E a \in Users : CreateWorkspace(a, v) \/ ArchiveWorkspace(a, v)
    BY <1>1 DEF WorkspaceNext
  <2>1. CASE CloseWorkspace(v) \/ ToggleSuspension(v)
    BY <2>1, <1>c DEF CloseWorkspace, ToggleSuspension
  <2>2. CASE \E p \in Plans : ChangeEntitlement(v, p)
    BY <2>2, <1>c DEF ChangeEntitlement
  <2>3. CASE \E a \in Users : CreateWorkspace(a, v) \/ ArchiveWorkspace(a, v)
    BY <2>3, <1>c DEF CreateWorkspace, ArchiveWorkspace
  <2>4. CASE Authorize(v)
    BY <2>4 DEF Authorize, Still, TypeOK
  <2>5. CASE EndAuthorization(v)
    BY <2>5, <1>b DEF EndAuthorization, Still, TypeOK
  <2> QED  BY <2>1, <2>2, <2>3, <2>4, <2>5
<1>2. ASSUME RoleNext PROVE Still
  BY <1>2, <1>c DEF RoleNext, CreateRole, DeleteRole
<1>3. ASSUME MemberNext PROVE Still \/ Ends
  <2> PICK a \in Users, u \in Users, v \in Workspaces :
        \/ SuspendMember(a, v, u) \/ RemoveMember(a, v, u)
        \/ \E r \in Roles : SetMemberRole(a, v, u, r)
        \/ \E r \in Roles, id \in 0..MaxAuth : TransferOwnership(a, v, u, r, id)
    BY <1>3 DEF MemberNext
  <2>1. CASE \/ SuspendMember(a, v, u) \/ RemoveMember(a, v, u)
             \/ \E r \in Roles : SetMemberRole(a, v, u, r)
    BY <2>1, <1>c DEF SuspendMember, RemoveMember, SetMemberRole
  <2>2. ASSUME NEW r \in Roles, NEW id \in 0..MaxAuth, TransferOwnership(a, v, u, r, id)
        PROVE  Still \/ Ends
    <3>1. CASE v = w
      <4>1. authorization[w].state = "active"
        BY <2>2, <3>1 DEF TransferOwnership, StillAuthorized
      <4>2. authorization'[w] = [authorization[w] EXCEPT !.state = "consumed"]
        BY <2>2, <3>1 DEF TransferOwnership, Consumed, TypeOK
      <4>3. version'[w] = version[w] + 1
        BY <2>2, <3>1 DEF TransferOwnership, TypeOK
      <4> QED  BY <1>b, <4>1, <4>2, <4>3
    <3>2. CASE v # w
      BY <2>2, <3>2 DEF TransferOwnership, Still, TypeOK
    <3> QED  BY <3>1, <3>2
  <2> QED  BY <2>1, <2>2
<1>4. ASSUME InvitationNext PROVE Still
  <2> PICK i \in Invites :
      \/ InvitationLapses(i)
      \/ \E u \in Users, token \in 0..MaxToken :
           AcceptInvitation(u, i, token) \/ AcceptNewInvitation(u, i, token)
      \/ \E a \in Users, v \in Workspaces :
           \/ RevokeInvitation(a, v, i) \/ ResendInvitation(a, v, i)
           \/ ListInvitations(a, v)
           \/ \E u \in Users, r \in Roles : Invite(a, v, u, r, i)
    BY <1>4 DEF InvitationNext
  <2>1. UNCHANGED <<authorization, version>>
    BY DEF InvitationLapses, AcceptInvitation, AcceptNewInvitation, Join,
           RevokeInvitation, ResendInvitation, ListInvitations, Invite
  <2> QED  BY <2>1, <1>c
<1>5. ASSUME AccountNext PROVE Still
  BY <1>5, <1>c DEF AccountNext, Register, CloseAccount
<1>6. ASSUME AdmissionNext \/ UNCHANGED vars PROVE Still
  BY <1>6, <1>c DEF AdmissionNext, Admit, Drop, vars
<1> QED  BY <1>1, <1>2, <1>3, <1>4, <1>5, <1>6 DEF Next, Still

LEMMA StepAuthorization ==
  TypeOK /\ AuthorizationSpentOnce /\ [Next]_vars => AuthorizationSpentOnce'
<1> SUFFICES ASSUME TypeOK, AuthorizationSpentOnce, [Next]_vars, NEW w \in Workspaces
             PROVE  version'[w] <= authorization'[w].id
                                     - (IF authorization'[w].state = "active" THEN 1 ELSE 0)
  BY DEF AuthorizationSpentOnce
<1>1. /\ version[w] \in Nat /\ authorization[w].id \in Nat
      /\ version[w] <= authorization[w].id
                         - (IF authorization[w].state = "active" THEN 1 ELSE 0)
  BY DEF AuthorizationSpentOnce, TypeOK, Authorization
<1>2. CASE UNCHANGED <<authorization[w], version[w]>>
  BY <1>1, <1>2
<1>3. CASE /\ authorization[w].state # "active"
           /\ authorization'[w] = [id |-> authorization[w].id + 1, state |-> "active"]
           /\ version'[w] = version[w]
  BY <1>1, <1>3
<1>4. CASE /\ authorization[w].state = "active"
           /\ authorization'[w].id = authorization[w].id
           /\ authorization'[w].state # "active"
           /\ version'[w] \in {version[w], version[w] + 1}
  BY <1>1, <1>4
<1> QED  BY <1>2, <1>3, <1>4, AuthorizationStep

-----------------------------------------------------------------------------
(* Answers to an invitation.                                               *)

\* Revoking or expiring pending invitations answers none of them with a seat.
LEMMA MarkedAnswer ==
  ASSUME TypeOK, NEW S, \A i \in S : i \in Invites => Pending(i),
         NEW to \in {"revoked", "expired"},
         NEW i \in Invites, invitation'[i] = Marked(S, to)[i]
  PROVE  InvitationStep(i)
<1>1. CASE i \in S
  <2>1. invitation[i] \in Invitation /\ invitation[i].status = "pending"
    BY <1>1 DEF TypeOK, Pending
  <2>2. invitation'[i] = [invitation[i] EXCEPT !.status = to]
    BY <1>1 DEF Marked
  <2>3. [invitation[i] EXCEPT !.status = to].status # "accepted"
    BY <2>1 DEF Invitation
  <2> QED  BY <2>1, <2>2, <2>3 DEF InvitationStep
<1>2. CASE i \notin S
  BY <1>2 DEF Marked, InvitationStep
<1> QED  BY <1>1, <1>2

\* The acceptance writes the seat, the counter and the answer together.
LEMMA JoinAnswer ==
  ASSUME TypeOK, NEW u \in Users, NEW j \in Invites, NEW token \in 0..MaxToken,
         Join(u, j, token), NEW i \in Invites
  PROVE  InvitationStep(i)
<1>1. /\ invitation[j] \in Invitation
      /\ invitation[j].status = "pending" /\ invitation[j].email = u
  BY DEF Join, Acceptable, Pending, TypeOK
<1> DEFINE w == invitation[j].ws
<1>2. w \in Workspaces
  BY <1>1 DEF Invitation
<1>3. /\ Outsider(w, u)
      /\ member'[w][u] = Seat(invitation[j].role)
      /\ seats'[w] = seats[w] + 1
  BY <1>2 DEF Join, TypeOK
<1>4. CASE i = j
  BY <1>1, <1>3, <1>4 DEF InvitationStep
<1>5. CASE i # j
  <2>1. invitation'[i] = invitation[i]
    BY <1>5 DEF Join, Marked
  <2> QED  BY <2>1 DEF InvitationStep
<1> QED  BY <1>4, <1>5

\* A lapse and a resend leave the status of an invitation alone.
LEMMA SameStatus ==
  ASSUME TypeOK, NEW i \in Invites,
         InvitationLapses(i) \/ \E a \in Users, w \in Workspaces : ResendInvitation(a, w, i),
         NEW x \in Invites
  PROVE  InvitationStep(x)
<1>1. invitation[i] \in Invitation /\ invitation[i].status = "pending"
  BY DEF InvitationLapses, ResendInvitation, Pending, TypeOK
<1>2. CASE x # i
  BY <1>2 DEF InvitationLapses, ResendInvitation, InvitationStep, TypeOK
<1>3. CASE x = i /\ InvitationLapses(i)
  <2>1. invitation'[i] = [invitation[i] EXCEPT !.lapsed = TRUE]
    BY <1>3 DEF InvitationLapses, TypeOK
  <2>2. invitation'[i].status = "pending"
    BY <1>1, <2>1 DEF Invitation
  <2> QED  BY <1>1, <1>3, <2>2 DEF InvitationStep
<1>4. ASSUME x = i, NEW a \in Users, NEW w \in Workspaces, ResendInvitation(a, w, i)
      PROVE  InvitationStep(x)
  <2>1. invitation'[i] = [invitation[i] EXCEPT !.token = @ + 1]
    BY <1>4 DEF ResendInvitation, TypeOK
  <2>2. invitation'[i].status = "pending"
    BY <1>1, <2>1 DEF Invitation
  <2> QED  BY <1>1, <1>4, <2>2 DEF InvitationStep
<1> QED  BY <1>2, <1>3, <1>4

\* The body of InvitationAnsweredOnce, of one step.
LEMMA AnswerStep ==
  ASSUME TypeOK, [Next]_vars, NEW x \in Invites
  PROVE  InvitationStep(x)
<1>a. UNCHANGED invitation => InvitationStep(x)
  BY DEF InvitationStep
<1>1. CASE WorkspaceNext
  <2> PICK w \in Workspaces :
        \/ CloseWorkspace(w) \/ ToggleSuspension(w)
        \/ Authorize(w) \/ EndAuthorization(w)
        \/ \E p \in Plans : ChangeEntitlement(w, p)
        \/ \E a \in Users : CreateWorkspace(a, w) \/ ArchiveWorkspace(a, w)
    BY <1>1 DEF WorkspaceNext
  <2>1. CASE CloseWorkspace(w) \/ \E a \in Users : ArchiveWorkspace(a, w)
    BY <2>1, MarkedAnswer DEF CloseWorkspace, ArchiveWorkspace, PendingIn
  <2>2. CASE \/ ToggleSuspension(w) \/ Authorize(w) \/ EndAuthorization(w)
             \/ \E p \in Plans : ChangeEntitlement(w, p)
             \/ \E a \in Users : CreateWorkspace(a, w)
    BY <1>a, <2>2 DEF ToggleSuspension, Authorize, EndAuthorization,
                      ChangeEntitlement, CreateWorkspace
  <2> QED  BY <2>1, <2>2
<1>2. CASE RoleNext
  BY <1>a, <1>2 DEF RoleNext, CreateRole, DeleteRole
<1>3. CASE MemberNext
  <2> PICK a \in Users, u \in Users, w \in Workspaces :
        \/ SuspendMember(a, w, u) \/ RemoveMember(a, w, u)
        \/ \E r \in Roles : SetMemberRole(a, w, u, r)
        \/ \E r \in Roles, id \in 0..MaxAuth : TransferOwnership(a, w, u, r, id)
    BY <1>3 DEF MemberNext
  <2>1. UNCHANGED invitation
    BY DEF SuspendMember, RemoveMember, SetMemberRole, TransferOwnership
  <2> QED  BY <1>a, <2>1
<1>4. CASE InvitationNext
  <2> PICK i \in Invites :
        \/ InvitationLapses(i)
        \/ \E u \in Users, token \in 0..MaxToken :
             AcceptInvitation(u, i, token) \/ AcceptNewInvitation(u, i, token)
        \/ \E a \in Users, w \in Workspaces :
             \/ RevokeInvitation(a, w, i) \/ ResendInvitation(a, w, i)
             \/ ListInvitations(a, w)
             \/ \E u \in Users, r \in Roles : Invite(a, w, u, r, i)
    BY <1>4 DEF InvitationNext
  <2>1. CASE InvitationLapses(i) \/ \E a \in Users, w \in Workspaces : ResendInvitation(a, w, i)
    BY <2>1, SameStatus
  <2>2. ASSUME NEW u \in Users, NEW token \in 0..MaxToken,
               AcceptInvitation(u, i, token) \/ AcceptNewInvitation(u, i, token)
        PROVE  InvitationStep(x)
    BY <2>2, JoinAnswer DEF AcceptInvitation, AcceptNewInvitation
  <2>3. ASSUME NEW a \in Users, NEW w \in Workspaces, RevokeInvitation(a, w, i)
        PROVE  InvitationStep(x)
    BY <2>3, MarkedAnswer DEF RevokeInvitation
  <2>4. ASSUME NEW a \in Users, NEW w \in Workspaces, ListInvitations(a, w)
        PROVE  InvitationStep(x)
    BY <2>4, MarkedAnswer DEF ListInvitations, Lapsed, PendingIn
  <2>5. ASSUME NEW a \in Users, NEW w \in Workspaces, NEW u \in Users, NEW r \in Roles,
               Invite(a, w, u, r, i)
        PROVE  InvitationStep(x)
    <3>1. CASE x = i
      BY <2>5, <3>1 DEF Invite, InvitationStep
    <3>2. CASE x # i
      <4>1. invitation'[x] = Marked(Lapsed(PendingFor(w, u)), "expired")[x]
        BY <2>5, <3>2 DEF Invite, Marked
      <4> QED  BY <4>1, MarkedAnswer DEF Lapsed, PendingFor
    <3> QED  BY <3>1, <3>2
  <2> QED  BY <2>1, <2>2, <2>3, <2>4, <2>5
<1>5. CASE AccountNext
  <2> PICK u \in Users : Register(u) \/ CloseAccount(u)
    BY <1>5 DEF AccountNext
  <2>1. CASE Register(u)
    BY <1>a, <2>1 DEF Register
  <2>2. CASE CloseAccount(u)
    <3> DEFINE S == PendingIn(Owned(u)) \cup {i \in Invites : Pending(i) /\ invitation[i].email = u}
    <3>1. invitation' = Marked(S, "revoked") /\ \A i \in S : Pending(i)
      BY <2>2 DEF CloseAccount, PendingIn
    <3> HIDE DEF S
    <3> QED  BY <3>1, MarkedAnswer
  <2> QED  BY <2>1, <2>2
<1>6. CASE AdmissionNext
  BY <1>a, <1>6 DEF AdmissionNext, Admit, Drop
<1>7. CASE UNCHANGED vars
  BY <1>a, <1>7 DEF vars
<1> QED  BY <1>1, <1>2, <1>3, <1>4, <1>5, <1>6, <1>7 DEF Next

-----------------------------------------------------------------------------
(* The theorems.                                                           *)

\* The invariant that every step keeps: the safety properties, and what
\* exists before what, which the first member of a workspace relies on.
Inv ==
    /\ TypeOK
    /\ Known
    /\ SeatsAreMembers
    /\ OneOwner
    /\ OneWayIn
    /\ AuthorizationSpentOnce

LEMMA InitInv == Init => Inv
<1> SUFFICES ASSUME Init PROVE Inv
  OBVIOUS
<1>1. TypeOK
  BY InitType
<1>2. Known
  BY DEF Init, Known
<1>3. \A w \in Workspaces : Holders(w) = {} /\ Owners(w) = {}
  BY DEF Init, Holders, Owners, IsOwner, Holds, Absent
<1>4. SeatsAreMembers
  BY <1>3, FS_EmptySet DEF SeatsAreMembers, Init
<1>5. OneOwner
  BY <1>3 DEF OneOwner, Init
<1>6. OneWayIn
  BY DEF OneWayIn, PendingFor, Pending, Init
<1>7. AuthorizationSpentOnce
  BY DEF AuthorizationSpentOnce, Init
<1> QED  BY <1>1, <1>2, <1>4, <1>5, <1>6, <1>7 DEF Inv

\* No transaction, however long after its middlewares it runs, breaks it.
THEOREM Inductive == Inv /\ [Next]_vars => Inv'
BY StepType, StepKnown, StepSeats, StepOwner, StepWays, StepAuthorization DEF Inv

THEOREM Invariance == Spec => []Inv
BY InitInv, Inductive, PTL DEF Spec

\* Every document keeps the shape its schema gives it.
THEOREM TypeCorrect == Spec => []TypeOK
<1>1. Inv => TypeOK
  BY DEF Inv
<1> QED  BY <1>1, Invariance, PTL

\* updateUsageMetric and the memberships written beside it never drift apart.
THEOREM SeatsCorrect == Spec => []SeatsAreMembers
<1>1. Inv => SeatsAreMembers
  BY DEF Inv
<1> QED  BY <1>1, Invariance, PTL

\* A workspace in service has one owner, whatever requests were delayed.
THEOREM OwnerUnique == Spec => []OneOwner
<1>1. Inv => OneOwner
  BY DEF Inv
<1> QED  BY <1>1, Invariance, PTL

\* An address has one way in at most, and none once it is in.
THEOREM WayInUnique == Spec => []OneWayIn
<1>1. Inv => OneWayIn
  BY DEF Inv
<1> QED  BY <1>1, Invariance, PTL

\* A transfer authorization is spent once at most.
THEOREM SpentOnce == Spec => []AuthorizationSpentOnce
<1>1. Inv => AuthorizationSpentOnce
  BY DEF Inv
<1> QED  BY <1>1, Invariance, PTL

\* The owner changes under an active authorization that the change consumes,
\* or goes with the workspace out of service.
THEOREM OwnershipMovesAuthorized == Spec => OwnershipMoves
<1>1. Inv /\ [Next]_vars =>
        [\A w \in Workspaces :
          Owners(w) # {} /\ Owners(w)' # Owners(w) =>
             \/ /\ authorization[w].state = "active"
                /\ authorization'[w] = [authorization[w] EXCEPT !.state = "consumed"]
                /\ Owners(w)' # {}
             \/ /\ Owners(w)' = {}
                /\ status'[w] \in {"archived", "closed"}]_vars
  BY StepMoves DEF Inv
<1> QED  BY <1>1, Invariance, PTL DEF Spec, OwnershipMoves

\* An invitation is answered once, and accepted exactly when its addressee
\* takes the seat it offers.
THEOREM AnsweredOnce == Spec => InvitationAnsweredOnce
<1>1. Inv /\ [Next]_vars => [\A i \in Invites : InvitationStep(i)]_vars
  BY AnswerStep DEF Inv
<1> QED  BY <1>1, Invariance, PTL DEF Spec, InvitationAnsweredOnce

\* The counter, the memberships and the contracts implement the ledger of
\* seats: taken one at a time below the capacity in force, given back by no
\* one but the user who leaves.
THEOREM SeatsImplementLedger == Spec => SeatsFollowLedger
<1>1. Inv /\ Inv' /\ [Next]_vars => [Ledger!Next]_(Ledger!vars)
  BY LedgerStep DEF Inv
<1> QED  BY <1>1, LedgerInit, Invariance, PTL DEF Spec, SeatsFollowLedger, Ledger!Spec
=============================================================================
