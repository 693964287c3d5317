-------------------- MODULE SubscriptionLifecycle_proofs --------------------
(***************************************************************************)
(* TLAPS proofs about SubscriptionLifecycle, for every set of workspaces,  *)
(* identities, documents, plans and job processes.                         *)
(***************************************************************************)
EXTENDS SubscriptionLifecycle, TLAPS

\* A command captures its clock at a natural number.
LEMMA CapturedNat ==
  ASSUME now \in Nat, NEW at \in Captured
  PROVE  at \in Nat
BY DEF Captured

\* The two documents a creation writes are well formed.
LEMMA NewDocuments ==
  ASSUME NEW w \in Workspaces, NEW p \in Plans, NEW at \in Nat
  PROVE  /\ NewTrial(w, p, at) \in Subscription
         /\ NewOpenEnded(w, p, at) \in Subscription
BY ConstantsAssumption DEF NewTrial, NewOpenEnded, Subscription, Current, Terminal

\* A document that exists is a record.
LEMMA DocumentType ==
  ASSUME TypeOK, NEW s \in Subs, Exists(s)
  PROVE  subs[s] \in Subscription
BY DEF TypeOK, Exists

\* Candidates are well typed, so is every batch of them.
LEMMA DueType ==
  ASSUME TypeOK, NEW kind \in Kinds, NEW at \in Nat
  PROVE  Due(kind, at) \subseteq Candidate
<1>1. ASSUME NEW s \in Subs, IsDue(kind, s, at)
      PROVE  AsCandidate(kind, s) \in Candidate
  <2>1. Exists(s)
    BY <1>1 DEF IsDue, ExpireDue, FinalizeDue, DowngradeDue
  <2>2. subs[s] \in Subscription
    BY <2>1, DocumentType
  <2>3. CASE kind = "expire"
    BY <1>1, <2>2, <2>3
    DEF IsDue, ExpireDue, AsCandidate, DueDate, Target, Candidate, Subscription
  <2>4. CASE kind = "finalize"
    BY <1>1, <2>2, <2>4
    DEF IsDue, FinalizeDue, AsCandidate, DueDate, Target, Candidate, Subscription
  <2>5. CASE kind = "downgrade"
    BY <1>1, <2>2, <2>5
    DEF IsDue, DowngradeDue, AsCandidate, DueDate, Target, Candidate,
        Subscription, ScheduledChange
  <2> QED  BY <2>3, <2>4, <2>5 DEF Kinds
<1> QED  BY <1>1 DEF Due


-----------------------------------------------------------------------------
(* The inductive invariant, and the two ways a document is written.        *)

DocInv == DocumentShape /\ OneCurrentContract /\ TrialConsumedOnce

\* An admitted request names a workspace that exists, whatever became of it.
Admitted == \A w \in Workspaces : request[w] # None => status[w] # "absent"

IInv == TypeOK /\ DocInv /\ Admitted

\* A service that rewrites one document keeps everything, provided it keeps
\* the workspace and the term, never revives a contract, and leaves the shape
\* of trials and of scheduled changes alone.
LEMMA RewriteDocument ==
  ASSUME IInv, NEW s \in Subs, Exists(s), NEW r \in Subscription,
         subs' = [subs EXCEPT ![s] = r],
         UNCHANGED <<status, eligibility>>,
         r.ws = subs[s].ws, r.term = subs[s].term,
         r.status \in Current => subs[s].status \in Current,
         r.status = "trialing" => r.change = None /\ r.end = r.trialEnd,
         r.status = "active" /\ r.change # None => r.change.at = r.end,
         \A k \in Workers : job'[k].at <= now'
  PROVE  /\ subs' \in [Subs -> Subscription \cup {None}]
         /\ DocInv'
<1>1. subs' \in [Subs -> Subscription \cup {None}]
  BY DEF IInv, TypeOK
<1>2. r # None
  BY NoneAssumption
<1>3. /\ subs'[s] = r
      /\ \A t \in Subs : t # s => subs'[t] = subs[t]
      /\ \A t \in Subs : Exists(t)' <=> Exists(t)
  BY <1>2 DEF IInv, TypeOK, Exists
<1>4. DocumentShape'
  BY <1>3 DEF IInv, DocInv, DocumentShape
<1>5. \A w \in Workspaces : CurrentOf(w)' \subseteq CurrentOf(w)
  BY <1>3 DEF CurrentOf, Contract
<1>6. OneCurrentContract'
  BY <1>5 DEF IInv, DocInv, OneCurrentContract
<1>7. TrialConsumedOnce'
  BY <1>3 DEF IInv, DocInv, TrialConsumedOnce, TypeOK
<1> QED  BY <1>1, <1>4, <1>6, <1>7 DEF DocInv

\* A trial, or a contract without end, written on a fresh identifier for a
\* workspace that has no current contract.
LEMMA CreateDocument ==
  ASSUME IInv, NEW s \in Subs, ~Exists(s), NEW r \in Subscription,
         subs' = [subs EXCEPT ![s] = r],
         \A t \in Subs : Exists(t) => status'[subs[t].ws] # "absent",
         status'[r.ws] # "absent",
         CurrentOf(r.ws) = {},
         r.change = None, r.status = "trialing" => r.end = r.trialEnd,
         \/ r.term = "open_ended" /\ UNCHANGED eligibility
         \/ /\ r.term = "fixed"
            /\ \E u \in Users : /\ eligibility[u] = None
                                /\ eligibility' = [eligibility EXCEPT ![u] = s],
         \A k \in Workers : job'[k].at <= now'
  PROVE  /\ subs' \in [Subs -> Subscription \cup {None}]
         /\ eligibility' \in [Users -> Subs \cup {None}]
         /\ DocInv'
<1>1. /\ subs' \in [Subs -> Subscription \cup {None}]
      /\ eligibility' \in [Users -> Subs \cup {None}]
  BY DEF IInv, TypeOK
<1>2. r # None
  BY NoneAssumption
<1>3. /\ subs'[s] = r
      /\ \A t \in Subs : t # s => subs'[t] = subs[t]
      /\ \A t \in Subs : Exists(t)' <=> Exists(t) \/ t = s
  BY <1>2 DEF IInv, TypeOK, Exists
<1>4. DocumentShape'
  BY <1>3 DEF IInv, DocInv, DocumentShape
<1>5. /\ \A w \in Workspaces : w # r.ws => CurrentOf(w)' = CurrentOf(w)
      /\ CurrentOf(r.ws)' \subseteq {s}
  BY <1>3 DEF CurrentOf, Contract
<1>6. OneCurrentContract'
  BY <1>5 DEF IInv, DocInv, OneCurrentContract
<1>7. TrialConsumedOnce'
  <2>1. CASE r.term = "open_ended" /\ UNCHANGED eligibility
    <3>1. \A u \in Users : /\ eligibility'[u] = eligibility[u]
                           /\ eligibility[u] # s
      BY <2>1, NoneAssumption DEF IInv, DocInv, TrialConsumedOnce
    <3>2. \A u \in Users : eligibility[u] # None => eligibility[u] \in Subs
      BY DEF IInv, TypeOK
    <3>3. subs'[s].term # "fixed"
      BY <1>3, <2>1
    <3>4. \A t \in Subs : Exists(t)' /\ subs'[t].term = "fixed" =>
            \E u \in Users : eligibility'[u] = t
      BY <1>3, <3>1, <3>3 DEF IInv, DocInv, TrialConsumedOnce
    <3>5. \A u \in Users : eligibility'[u] # None =>
            subs'[eligibility'[u]] # None /\ subs'[eligibility'[u]].term = "fixed"
      BY <1>3, <3>1, <3>2 DEF IInv, DocInv, TrialConsumedOnce, Exists
    <3>6. \A u, v \in Users :
            eligibility'[u] = eligibility'[v] /\ eligibility'[u] # None => u = v
      BY <3>1 DEF IInv, DocInv, TrialConsumedOnce
    <3> QED  BY <3>4, <3>5, <3>6 DEF TrialConsumedOnce, Exists
  <2>2. ASSUME r.term = "fixed", NEW u \in Users, eligibility[u] = None,
               eligibility' = [eligibility EXCEPT ![u] = s]
        PROVE  TrialConsumedOnce'
    <3>1. /\ eligibility'[u] = s
          /\ \A v \in Users : v # u => eligibility'[v] = eligibility[v] /\ eligibility[v] # s
      BY <2>2, NoneAssumption DEF IInv, DocInv, TrialConsumedOnce, TypeOK
    <3>2. \A v \in Users : eligibility[v] # None => eligibility[v] \in Subs
      BY DEF IInv, TypeOK
    <3>3. \A t \in Subs : Exists(t)' /\ subs'[t].term = "fixed" =>
            \E v \in Users : eligibility'[v] = t
      <4>1. ASSUME NEW t \in Subs, Exists(t)', subs'[t].term = "fixed", t # s
            PROVE  \E v \in Users : eligibility'[v] = t
        <5>1. PICK v \in Users : eligibility[v] = t
          BY <1>3, <4>1 DEF IInv, DocInv, TrialConsumedOnce
        <5>2. v # u
          BY <2>2, <4>1, <5>1, NoneAssumption
        <5> QED  BY <3>1, <5>1, <5>2
      <4> QED  BY <3>1, <4>1
    <3>4. \A v \in Users : eligibility'[v] # None =>
            subs'[eligibility'[v]] # None /\ subs'[eligibility'[v]].term = "fixed"
      BY <1>2, <1>3, <2>2, <3>1, <3>2 DEF IInv, DocInv, TrialConsumedOnce, Exists
    <3>5. \A v, x \in Users :
            eligibility'[v] = eligibility'[x] /\ eligibility'[v] # None => v = x
      BY <3>1 DEF IInv, DocInv, TrialConsumedOnce
    <3> QED  BY <3>3, <3>4, <3>5 DEF TrialConsumedOnce, Exists
  <2> QED  BY <2>1, <2>2
<1> QED  BY <1>1, <1>4, <1>6, <1>7 DEF DocInv

\* A step that writes no document and makes no workspace disappear keeps
\* everything that is said of the documents.
LEMMA KeepDocuments ==
  ASSUME IInv, UNCHANGED <<subs, eligibility>>,
         \A w \in Workspaces : status[w] # "absent" => status'[w] # "absent",
         \A k \in Workers : job'[k].at <= now'
  PROVE  DocInv'
<1>1. \A s \in Subs : Exists(s) => subs[s].ws \in Workspaces
  BY DocumentType DEF IInv, Subscription
<1>2. DocumentShape'
  BY <1>1 DEF IInv, DocInv, DocumentShape, Exists
<1>3. OneCurrentContract'
  BY DEF IInv, DocInv, OneCurrentContract, CurrentOf, Contract, Exists
<1>4. TrialConsumedOnce'
  BY DEF IInv, DocInv, TrialConsumedOnce, Exists
<1> QED  BY <1>2, <1>3, <1>4 DEF DocInv

\* No job works from a clock of the future after a step that leaves the jobs
\* and the clock alone.
LEMMA SameClocks ==
  ASSUME IInv, UNCHANGED <<now, job>>
  PROVE  \A k \in Workers : job'[k].at <= now'
BY DEF IInv, DocInv, DocumentShape

-----------------------------------------------------------------------------
(* The initial state, and one lemma per group of actions.                  *)

LEMMA InitInv == Init => IInv
<1> SUFFICES ASSUME Init PROVE IInv
  OBVIOUS
<1>1. TypeOK
  BY DEF Init, TypeOK, Idle, Job
<1>2. \A s \in Subs : ~Exists(s)
  BY DEF Init, Exists
<1>3. DocumentShape
  BY <1>2 DEF Init, DocumentShape, Idle
<1>4. OneCurrentContract
  BY <1>2 DEF OneCurrentContract, CurrentOf, Contract
<1>5. TrialConsumedOnce
  BY <1>2 DEF Init, TrialConsumedOnce
<1>6. Admitted
  BY DEF Init, Admitted
<1> QED  BY <1>1, <1>3, <1>4, <1>5, <1>6 DEF IInv, DocInv

LEMMA TickInv == IInv /\ Tick => TypeOK' /\ DocInv'
<1> SUFFICES ASSUME IInv, Tick PROVE TypeOK' /\ DocInv'
  OBVIOUS
<1>1. TypeOK'
  BY DEF IInv, TypeOK, Tick
<1>2. \A k \in Workers : job'[k].at <= now'
  <2>1. \A k \in Workers : job[k].at \in Nat /\ job[k].at <= now
    BY DEF IInv, DocInv, DocumentShape, TypeOK, Job
  <2> QED  BY <2>1 DEF IInv, TypeOK, Tick
<1>3. DocInv'
  BY <1>2, KeepDocuments DEF Tick
<1> QED  BY <1>1, <1>3

LEMMA WorkspaceInv == IInv /\ WorkspaceNext => TypeOK' /\ DocInv'
<1> SUFFICES ASSUME IInv, NEW w \in Workspaces,
                    \/ \E u \in Users : CreateWorkspace(w, u) \/ TransferOwnership(w, u)
                    \/ \E u \in Users, p \in Plans, s \in Subs, at \in Captured :
                         AcceptCommercialInvitation(w, u, p, s, at)
                    \/ \E target \in {"archived", "closed"} : CloseWorkspace(w, target)
             PROVE  TypeOK' /\ DocInv'
  BY DEF WorkspaceNext
<1>1. ASSUME NEW u \in Users, CreateWorkspace(w, u) PROVE TypeOK' /\ DocInv'
  <2>1. TypeOK'
    BY <1>1 DEF IInv, TypeOK, CreateWorkspace
  <2>2. \A v \in Workspaces : status[v] # "absent" => status'[v] # "absent"
    BY <1>1 DEF IInv, TypeOK, CreateWorkspace
  <2>3. DocInv'
    BY <1>1, <2>2, SameClocks, KeepDocuments DEF CreateWorkspace
  <2> QED  BY <2>1, <2>3
<1>2. ASSUME NEW u \in Users, TransferOwnership(w, u) PROVE TypeOK' /\ DocInv'
  <2>1. TypeOK'
    BY <1>2 DEF IInv, TypeOK, TransferOwnership
  <2>2. DocInv'
    BY <1>2, SameClocks, KeepDocuments DEF TransferOwnership
  <2> QED  BY <2>1, <2>2
<1>3. ASSUME NEW u \in Users, NEW p \in Plans, NEW s \in Subs, NEW at \in Captured,
             AcceptCommercialInvitation(w, u, p, s, at)
      PROVE  TypeOK' /\ DocInv'
  <2>1. at \in Nat
    BY CapturedNat DEF IInv, TypeOK
  <2>2. CurrentOf(w) = {} /\ ~Exists(s)
    BY <1>3 DEF AcceptCommercialInvitation, IInv, DocInv, DocumentShape, CurrentOf, Contract
  <2>3. \A t \in Subs : Exists(t) => subs[t].ws \in Workspaces
    BY DocumentType DEF IInv, Subscription
  <2>4. /\ status' \in [Workspaces -> {"absent", "active", "archived", "closed"}]
        /\ status'[w] # "absent"
        /\ \A t \in Subs : Exists(t) => status'[subs[t].ws] # "absent"
    BY <1>3, <2>3 DEF AcceptCommercialInvitation, IInv, TypeOK, DocInv, DocumentShape
  <2>5. \A k \in Workers : job'[k].at <= now'
    BY <1>3, SameClocks DEF AcceptCommercialInvitation
  <2>6. /\ subs' \in [Subs -> Subscription \cup {None}]
        /\ eligibility' \in [Users -> Subs \cup {None}]
        /\ DocInv'
    <3>1. CASE /\ eligibility[u] = None
               /\ subs' = [subs EXCEPT ![s] = NewTrial(w, p, at)]
               /\ eligibility' = [eligibility EXCEPT ![u] = s]
      <4> DEFINE r == NewTrial(w, p, at)
      <4>1. /\ r \in Subscription /\ r.ws = w /\ r.change = None
            /\ r.end = r.trialEnd /\ r.term = "fixed"
        BY <2>1, NewDocuments DEF NewTrial
      <4> HIDE DEF r
      <4>2. subs' = [subs EXCEPT ![s] = r]
        BY <3>1 DEF r
      <4> QED  BY <2>2, <2>4, <2>5, <3>1, <4>1, <4>2, CreateDocument
    <3>2. CASE /\ subs' = [subs EXCEPT ![s] = NewOpenEnded(w, p, at)]
               /\ UNCHANGED eligibility
      <4> DEFINE r == NewOpenEnded(w, p, at)
      <4>1. /\ r \in Subscription /\ r.ws = w /\ r.change = None
            /\ r.status # "trialing" /\ r.term = "open_ended"
        BY <2>1, NewDocuments DEF NewOpenEnded
      <4> HIDE DEF r
      <4>2. subs' = [subs EXCEPT ![s] = r]
        BY <3>2 DEF r
      <4> QED  BY <2>2, <2>4, <2>5, <3>2, <4>1, <4>2, CreateDocument
    <3> QED  BY <1>3, <3>1, <3>2 DEF AcceptCommercialInvitation, NeverTried
  <2>7. TypeOK'
    BY <1>3, <2>4, <2>6 DEF AcceptCommercialInvitation, IInv, TypeOK
  <2> QED  BY <2>6, <2>7
<1>4. ASSUME NEW target \in {"archived", "closed"}, CloseWorkspace(w, target)
      PROVE  TypeOK' /\ DocInv'
  <2>1. \A s \in Subs : /\ s \in CurrentOf(w) =>
                             subs'[s] = [subs[s] EXCEPT !.status = "canceled",
                                                        !.cancel = FALSE, !.change = None]
                        /\ s \notin CurrentOf(w) => subs'[s] = subs[s]
    BY <1>4 DEF CloseWorkspace
  <2>2. \A s \in CurrentOf(w) : /\ subs'[s] \in Subscription
                                /\ subs'[s].ws = subs[s].ws
                                /\ subs'[s].term = subs[s].term
                                /\ subs'[s].status = "canceled"
    <3> SUFFICES ASSUME NEW s \in CurrentOf(w)
                 PROVE  /\ subs'[s] \in Subscription
                        /\ subs'[s].ws = subs[s].ws
                        /\ subs'[s].term = subs[s].term
                        /\ subs'[s].status = "canceled"
      OBVIOUS
    <3>1. s \in Subs /\ subs[s] \in Subscription
      BY DocumentType DEF IInv, CurrentOf, Contract
    <3>2. subs'[s] = [subs[s] EXCEPT !.status = "canceled",
                                     !.cancel = FALSE, !.change = None]
      BY <2>1, <3>1
    <3> QED  BY <3>1, <3>2 DEF Subscription, Terminal
  <2>3. subs' \in [Subs -> Subscription \cup {None}]
    <3>1. \A s \in Subs : subs'[s] \in Subscription \cup {None}
      BY <2>1, <2>2 DEF IInv, TypeOK
    <3> QED  BY <1>4, <3>1 DEF CloseWorkspace
  <2>4. TypeOK'
    BY <1>4, <2>3 DEF CloseWorkspace, IInv, TypeOK
  <2>5. \A s \in Subs : /\ Exists(s)' <=> Exists(s)
                        /\ Exists(s) => subs'[s].ws = subs[s].ws
                        /\ Exists(s) => subs'[s].term = subs[s].term
                        /\ s \in CurrentOf(w) => subs'[s].status = "canceled"
    <3>1. \A r \in Subscription : r # None
      BY NoneAssumption
    <3>2. \A s \in CurrentOf(w) : Exists(s) /\ Exists(s)'
      BY <2>2, <3>1 DEF CurrentOf, Contract, Exists
    <3> QED  BY <2>1, <2>2, <3>2 DEF Exists
  <2>6. DocumentShape'
    <3>1. \A s \in Subs : Exists(s) => subs[s].ws \in Workspaces
      BY DocumentType DEF IInv, Subscription
    <3>2. \A v \in Workspaces : status[v] # "absent" => status'[v] # "absent"
      BY <1>4 DEF CloseWorkspace, IInv, TypeOK
    <3>3. \A k \in Workers : job'[k].at <= now'
      BY <1>4, SameClocks DEF CloseWorkspace
    <3>4. \A s \in Subs : Exists(s)' =>
            /\ status'[subs'[s].ws] # "absent"
            /\ s \notin CurrentOf(w) => subs'[s] = subs[s]
      BY <2>1, <2>5, <3>1, <3>2 DEF IInv, DocInv, DocumentShape
    <3> QED  BY <2>5, <3>3, <3>4 DEF IInv, DocInv, DocumentShape, Exists
  <2>7. OneCurrentContract'
    <3>1. \A v \in Workspaces : CurrentOf(v)' \subseteq CurrentOf(v)
      BY <2>1, <2>5 DEF CurrentOf, Contract, Current
    <3> QED  BY <3>1 DEF IInv, DocInv, OneCurrentContract
  <2>8. TrialConsumedOnce'
    <3>1. UNCHANGED eligibility
      BY <1>4 DEF CloseWorkspace
    <3>2. \A u \in Users : eligibility[u] # None => eligibility[u] \in Subs
      BY DEF IInv, TypeOK
    <3> QED  BY <2>5, <3>1, <3>2 DEF IInv, DocInv, TrialConsumedOnce, Exists
  <2> QED  BY <2>4, <2>6, <2>7, <2>8 DEF DocInv
<1> QED  BY <1>1, <1>2, <1>3, <1>4

\* The transaction of grantTrial, whoever called it.
LEMMA GrantInv ==
  ASSUME IInv, NEW w \in Workspaces, NEW p \in Plans, status[w] # "absent",
         GrantTrialTx(w, p), UNCHANGED <<now, status, owner, job>>
  PROVE  /\ subs' \in [Subs -> Subscription \cup {None}]
         /\ eligibility' \in [Users -> Subs \cup {None}]
         /\ DocInv'
<1>1. PICK at \in Captured : ChangeTrialPlan(w, p, at)
                             \/ \E s \in Subs : CreateTrial(w, p, s, at)
  BY DEF GrantTrialTx
<1>2. at \in Nat
  BY CapturedNat DEF IInv, TypeOK
<1>3. \A k \in Workers : job'[k].at <= now'
  BY SameClocks
<1>4. CASE ChangeTrialPlan(w, p, at)
  <2>1. PICK s \in TrialOf(w) : subs' = [subs EXCEPT ![s].plan = p]
    BY <1>4 DEF ChangeTrialPlan
  <2>2. UNCHANGED eligibility
    BY <1>4 DEF ChangeTrialPlan
  <2>3. s \in Subs /\ Exists(s) /\ subs[s] \in Subscription /\ subs[s].status = "trialing"
    BY DocumentType DEF IInv, TrialOf, Contract
  <2> DEFINE r == [subs[s] EXCEPT !.plan = p]
  <2>4. subs[s].change = None /\ subs[s].end = subs[s].trialEnd
    BY <2>3 DEF IInv, DocInv, DocumentShape
  <2>5. /\ r \in Subscription /\ r.ws = subs[s].ws /\ r.term = subs[s].term
        /\ r.status = "trialing" /\ r.change = None /\ r.end = r.trialEnd
    BY <2>3, <2>4 DEF Subscription
  <2>6. subs' = [subs EXCEPT ![s] = r]
    BY <2>1
  <2> HIDE DEF r
  <2>7. subs' \in [Subs -> Subscription \cup {None}] /\ DocInv'
    BY <1>3, <2>2, <2>3, <2>5, <2>6, RewriteDocument DEF Current
  <2> QED  BY <2>2, <2>7 DEF IInv, TypeOK
<1>5. ASSUME NEW s \in Subs, CreateTrial(w, p, s, at)
      PROVE  /\ subs' \in [Subs -> Subscription \cup {None}]
             /\ eligibility' \in [Users -> Subs \cup {None}]
             /\ DocInv'
  <2> DEFINE r == NewTrial(w, p, at)
  <2>1. /\ r \in Subscription /\ r.ws = w /\ r.change = None
        /\ r.end = r.trialEnd /\ r.term = "fixed"
    BY <1>2, NewDocuments DEF NewTrial
  <2>2. subs' = [subs EXCEPT ![s] = r] /\ ~Exists(s)
    BY <1>5 DEF CreateTrial
  <2> HIDE DEF r
  <2>3. CurrentOf(w) = {}
    BY <1>5 DEF CreateTrial, NoContract, CurrentOf, TrialOf, Current
  <2>4. owner[w] \in Users
    BY <1>5 DEF CreateTrial, IInv, TypeOK
  <2>5. \A t \in Subs : Exists(t) => status'[subs[t].ws] # "absent"
    BY DEF IInv, DocInv, DocumentShape
  <2>6. \E u \in Users : /\ eligibility[u] = None
                         /\ eligibility' = [eligibility EXCEPT ![u] = s]
    BY <1>5, <2>4 DEF CreateTrial, NeverTried
  <2> QED  BY <1>3, <2>1, <2>2, <2>3, <2>5, <2>6, CreateDocument
<1> QED  BY <1>1, <1>4, <1>5

LEMMA TrialInv == IInv /\ TrialNext => TypeOK' /\ DocInv'
<1> SUFFICES ASSUME IInv, NEW w \in Workspaces,
                    \/ GrantWorkspaceTrial(w) \/ AbandonTrialRequest(w)
                    \/ \E p \in Plans : RequestTrial(w, p) \/ GrantPlatformTrial(w, p)
                    \/ \E at \in Captured :
                         \/ EndTrialToFree(w, at)
                         \/ \E p \in Plans : ActivatePaid(w, p, at)
             PROVE  TypeOK' /\ DocInv'
  BY DEF TrialNext
<1>1. CASE GrantWorkspaceTrial(w)
  <2>1. /\ request[w] \in Plans /\ status[w] # "absent"
        /\ UNCHANGED <<now, status, owner, job>>
    BY <1>1 DEF GrantWorkspaceTrial, IInv, TypeOK, Admitted
  <2>2. /\ subs' \in [Subs -> Subscription \cup {None}]
        /\ eligibility' \in [Users -> Subs \cup {None}]
        /\ DocInv'
    BY <1>1, <2>1, GrantInv DEF GrantWorkspaceTrial
  <2>3. TypeOK'
    BY <1>1, <2>1, <2>2 DEF GrantWorkspaceTrial, IInv, TypeOK
  <2> QED  BY <2>2, <2>3
<1>2. CASE AbandonTrialRequest(w)
  <2>1. TypeOK'
    BY <1>2 DEF IInv, TypeOK, AbandonTrialRequest
  <2>2. DocInv'
    BY <1>2, SameClocks, KeepDocuments DEF AbandonTrialRequest
  <2> QED  BY <2>1, <2>2
<1>3. ASSUME NEW p \in Plans, RequestTrial(w, p) PROVE TypeOK' /\ DocInv'
  <2>1. TypeOK'
    BY <1>3 DEF IInv, TypeOK, RequestTrial
  <2>2. DocInv'
    BY <1>3, SameClocks, KeepDocuments DEF RequestTrial
  <2> QED  BY <2>1, <2>2
<1>4. ASSUME NEW p \in Plans, GrantPlatformTrial(w, p) PROVE TypeOK' /\ DocInv'
  <2>1. /\ subs' \in [Subs -> Subscription \cup {None}]
        /\ eligibility' \in [Users -> Subs \cup {None}]
        /\ DocInv'
    BY <1>4, GrantInv DEF GrantPlatformTrial
  <2>2. TypeOK'
    BY <1>4, <2>1 DEF GrantPlatformTrial, IInv, TypeOK
  <2> QED  BY <2>1, <2>2
<1>5. ASSUME NEW at \in Captured, EndTrialToFree(w, at) PROVE TypeOK' /\ DocInv'
  <2>1. PICK s \in TrialOf(w) :
          subs' = [subs EXCEPT ![s] =
                     [subs[s] EXCEPT !.status = "canceled", !.cancel = FALSE, !.end = at]]
    BY <1>5 DEF EndTrialToFree
  <2>2. /\ s \in Subs /\ Exists(s) /\ subs[s] \in Subscription
        /\ at \in Nat
    BY DocumentType, CapturedNat DEF IInv, TypeOK, TrialOf, Contract
  <2> DEFINE r == [subs[s] EXCEPT !.status = "canceled", !.cancel = FALSE, !.end = at]
  <2>3. /\ r \in Subscription /\ r.ws = subs[s].ws /\ r.term = subs[s].term
        /\ r.status = "canceled"
    BY <2>2 DEF Subscription, Terminal
  <2>4. subs' = [subs EXCEPT ![s] = r]
    BY <2>1
  <2>5. r.status \notin Current
    BY <2>3 DEF Current
  <2> HIDE DEF r
  <2>6. UNCHANGED <<now, status, owner, eligibility, request, job>>
    BY <1>5 DEF EndTrialToFree
  <2>7. subs' \in [Subs -> Subscription \cup {None}] /\ DocInv'
    BY <2>2, <2>3, <2>4, <2>5, <2>6, SameClocks, RewriteDocument
  <2> QED  BY <2>6, <2>7 DEF IInv, TypeOK
<1>6. ASSUME NEW at \in Captured, NEW p \in Plans, ActivatePaid(w, p, at)
      PROVE  TypeOK' /\ DocInv'
  <2>1. PICK s \in TrialOf(w) :
          subs' = [subs EXCEPT ![s] =
                     [subs[s] EXCEPT !.status = "active", !.plan = p, !.start = at,
                                     !.end = at + Period, !.cancel = FALSE]]
    BY <1>6 DEF ActivatePaid
  <2>2. /\ s \in Subs /\ Exists(s) /\ subs[s] \in Subscription
        /\ subs[s].status = "trialing"
        /\ at \in Nat /\ at + Period \in Nat
    BY DocumentType, CapturedNat, ConstantsAssumption DEF IInv, TypeOK, TrialOf, Contract
  <2>3. subs[s].change = None
    BY <2>2 DEF IInv, DocInv, DocumentShape
  <2> DEFINE r == [subs[s] EXCEPT !.status = "active", !.plan = p, !.start = at,
                                  !.end = at + Period, !.cancel = FALSE]
  <2>4. /\ r \in Subscription /\ r.ws = subs[s].ws /\ r.term = subs[s].term
        /\ r.status = "active" /\ r.change = None
    BY <2>2, <2>3 DEF Subscription, Current
  <2>5. subs' = [subs EXCEPT ![s] = r]
    BY <2>1
  <2> HIDE DEF r
  <2>6. UNCHANGED <<now, status, owner, eligibility, request, job>>
    BY <1>6 DEF ActivatePaid
  <2>7. subs' \in [Subs -> Subscription \cup {None}] /\ DocInv'
    BY <2>2, <2>4, <2>5, <2>6, SameClocks, RewriteDocument DEF Current
  <2> QED  BY <2>6, <2>7 DEF IInv, TypeOK
<1> QED  BY <1>1, <1>2, <1>3, <1>4, <1>5, <1>6

\* RewriteDocument for a step that writes nothing but the document.
LEMMA RewriteOnly ==
  ASSUME IInv, NEW s \in Subs, Exists(s), NEW r \in Subscription,
         subs' = [subs EXCEPT ![s] = r],
         UNCHANGED <<now, status, owner, eligibility, request, job>>,
         r.ws = subs[s].ws, r.term = subs[s].term,
         r.status \in Current => subs[s].status \in Current,
         r.status = "trialing" => r.change = None /\ r.end = r.trialEnd,
         r.status = "active" /\ r.change # None => r.change.at = r.end
  PROVE  TypeOK' /\ DocInv'
<1>1. subs' \in [Subs -> Subscription \cup {None}] /\ DocInv'
  BY SameClocks, RewriteDocument
<1> QED  BY <1>1 DEF IInv, TypeOK

\* What the invariant says of one document.
LEMMA DocumentFacts ==
  ASSUME IInv, NEW s \in Subs, Exists(s)
  PROVE  /\ subs[s] \in Subscription
         /\ subs[s].status = "trialing" =>
              subs[s].change = None /\ subs[s].end = subs[s].trialEnd
         /\ subs[s].status = "active" /\ subs[s].change # None =>
              subs[s].change.at = subs[s].end
BY DocumentType DEF IInv, DocInv, DocumentShape

LEMMA ContractInv == IInv /\ ContractNext => TypeOK' /\ DocInv'
<1> SUFFICES ASSUME IInv, NEW s \in Subs, NEW at \in Captured,
                    \/ ScheduleCancellation(s, at) \/ ResumeCancellation(s, at)
                    \/ CancelImmediately(s, at) \/ RevokeDowngrade(s, at)
                    \/ \E p \in Plans : ScheduleDowngrade(s, p, at)
             PROVE  TypeOK' /\ DocInv'
  BY DEF ContractNext
<1>a. at \in Nat
  BY CapturedNat DEF IInv, TypeOK
<1>b. Exists(s)
  BY DEF ScheduleCancellation, ResumeCancellation, CancelImmediately, RunningFixed,
         RevokeDowngrade, ScheduleDowngrade
<1>c. /\ subs[s] \in Subscription
      /\ subs[s].status = "active" /\ subs[s].change # None =>
           subs[s].change.at = subs[s].end
  BY <1>b, DocumentFacts
<1>1. CASE ScheduleCancellation(s, at)
  <2> DEFINE r == [subs[s] EXCEPT !.cancel = TRUE]
  <2>1. /\ r \in Subscription /\ r.ws = subs[s].ws /\ r.term = subs[s].term
        /\ r.status = subs[s].status /\ r.end = subs[s].end /\ r.change = subs[s].change
    BY <1>c DEF Subscription
  <2>2. /\ subs' = [subs EXCEPT ![s] = r]
        /\ UNCHANGED <<now, status, owner, eligibility, request, job>>
        /\ subs[s].status = "active"
    BY <1>1 DEF ScheduleCancellation, RunningFixed
  <2> HIDE DEF r
  <2> QED  BY <1>b, <1>c, <2>1, <2>2, RewriteOnly
<1>2. CASE ResumeCancellation(s, at)
  <2> DEFINE r == [subs[s] EXCEPT !.cancel = FALSE]
  <2>1. /\ r \in Subscription /\ r.ws = subs[s].ws /\ r.term = subs[s].term
        /\ r.status = subs[s].status /\ r.end = subs[s].end /\ r.change = subs[s].change
    BY <1>c DEF Subscription
  <2>2. /\ subs' = [subs EXCEPT ![s] = r]
        /\ UNCHANGED <<now, status, owner, eligibility, request, job>>
        /\ subs[s].status = "active"
    BY <1>2 DEF ResumeCancellation, RunningFixed
  <2> HIDE DEF r
  <2> QED  BY <1>b, <1>c, <2>1, <2>2, RewriteOnly
<1>3. CASE CancelImmediately(s, at)
  <2>1. UNCHANGED <<now, status, owner, eligibility, request, job>>
    BY <1>3 DEF CancelImmediately
  <2>2. CASE subs' = [subs EXCEPT ![s] =
                       [subs[s] EXCEPT !.status = "canceled", !.cancel = FALSE, !.end = at]]
    <3> DEFINE r == [subs[s] EXCEPT !.status = "canceled", !.cancel = FALSE, !.end = at]
    <3>1. /\ r \in Subscription /\ r.ws = subs[s].ws /\ r.term = subs[s].term
          /\ r.status = "canceled"
      BY <1>a, <1>c DEF Subscription, Terminal
    <3>2. subs' = [subs EXCEPT ![s] = r]
      BY <2>2
    <3> HIDE DEF r
    <3> QED  BY <1>b, <2>1, <3>1, <3>2, RewriteOnly DEF Current
  <2>3. CASE subs' = [subs EXCEPT ![s] =
                       [subs[s] EXCEPT !.status = "canceled", !.cancel = FALSE]]
    <3> DEFINE r == [subs[s] EXCEPT !.status = "canceled", !.cancel = FALSE]
    <3>1. /\ r \in Subscription /\ r.ws = subs[s].ws /\ r.term = subs[s].term
          /\ r.status = "canceled"
      BY <1>c DEF Subscription, Terminal
    <3>2. subs' = [subs EXCEPT ![s] = r]
      BY <2>3
    <3> HIDE DEF r
    <3> QED  BY <1>b, <2>1, <3>1, <3>2, RewriteOnly DEF Current
  <2> QED  BY <1>3, <2>2, <2>3 DEF CancelImmediately
<1>4. CASE RevokeDowngrade(s, at)
  <2> DEFINE r == [subs[s] EXCEPT !.change = None]
  <2>1. /\ r \in Subscription /\ r.ws = subs[s].ws /\ r.term = subs[s].term
        /\ r.status = subs[s].status /\ r.change = None
    BY <1>c DEF Subscription
  <2>2. /\ subs' = [subs EXCEPT ![s] = r]
        /\ UNCHANGED <<now, status, owner, eligibility, request, job>>
        /\ subs[s].status = "active"
    BY <1>4 DEF RevokeDowngrade
  <2> HIDE DEF r
  <2> QED  BY <1>b, <1>c, <2>1, <2>2, RewriteOnly
<1>5. ASSUME NEW p \in Plans, ScheduleDowngrade(s, p, at) PROVE TypeOK' /\ DocInv'
  <2>1. subs[s].status = "active" /\ subs[s].end # None
    BY <1>5 DEF ScheduleDowngrade
  <2> DEFINE d == [target |-> p, at |-> subs[s].end]
             r == [subs[s] EXCEPT !.change = d]
  <2>2. d \in ScheduledChange /\ d.at = subs[s].end
    BY <1>c, <2>1 DEF Subscription, ScheduledChange
  <2>3. /\ subs' = [subs EXCEPT ![s] = r]
        /\ UNCHANGED <<now, status, owner, eligibility, request, job>>
    BY <1>5 DEF ScheduleDowngrade
  <2> HIDE DEF d
  <2>4. /\ r \in Subscription /\ r.ws = subs[s].ws /\ r.term = subs[s].term
        /\ r.status = subs[s].status /\ r.end = subs[s].end /\ r.change = d
    BY <1>c, <2>2 DEF Subscription
  <2> HIDE DEF r
  <2> QED  BY <1>b, <2>1, <2>2, <2>3, <2>4, RewriteOnly
<1> QED  BY <1>1, <1>2, <1>3, <1>4, <1>5

LEMMA AdminInv == IInv /\ AdminNext => TypeOK' /\ DocInv'
<1> SUFFICES ASSUME IInv, NEW s \in Subs, NEW p \in Plans, NEW flag \in BOOLEAN,
                    PatchSubscription(s, p, flag)
             PROVE  TypeOK' /\ DocInv'
  BY DEF AdminNext
<1> DEFINE r == [subs[s] EXCEPT !.plan = p, !.cancel = flag]
<1>1. /\ subs' = [subs EXCEPT ![s] = r]
      /\ UNCHANGED <<now, status, owner, eligibility, request, job>>
      /\ Exists(s)
  BY DEF PatchSubscription
<1>2. /\ subs[s] \in Subscription
      /\ subs[s].status = "trialing" =>
           subs[s].change = None /\ subs[s].end = subs[s].trialEnd
      /\ subs[s].status = "active" /\ subs[s].change # None =>
           subs[s].change.at = subs[s].end
  BY <1>1, DocumentFacts
<1>3. /\ r \in Subscription /\ r.ws = subs[s].ws /\ r.term = subs[s].term
      /\ r.status = subs[s].status /\ r.end = subs[s].end
      /\ r.trialEnd = subs[s].trialEnd /\ r.change = subs[s].change
  BY <1>2 DEF Subscription
<1> HIDE DEF r
<1> QED  BY <1>1, <1>2, <1>3, RewriteOnly

\* A job process that goes on with the rest of its batch, or stops.
LEMMA JobMoves ==
  ASSUME IInv, NEW k \in Workers, UNCHANGED now,
         Stop(k) \/ \E c \in Candidate : Advance(k, c)
  PROVE  /\ job' \in [Workers -> Job]
         /\ \A x \in Workers : job'[x].at <= now'
<1>1. /\ now \in Nat /\ job \in [Workers -> Job]
      /\ \A x \in Workers : job[x].at <= now
  BY DEF IInv, TypeOK, DocInv, DocumentShape
<1>2. Idle \in Job /\ Idle.at <= now
  BY <1>1 DEF Idle, Job
<1>3. CASE Stop(k)
  BY <1>1, <1>2, <1>3 DEF Stop
<1>4. ASSUME NEW c \in Candidate, Advance(k, c)
      PROVE  /\ job' \in [Workers -> Job]
             /\ \A x \in Workers : job'[x].at <= now'
  <2> DEFINE rest == [job[k] EXCEPT !.todo = job[k].todo \ {c}]
             j    == IF job[k].todo = {c} THEN Idle ELSE rest
  <2>1. rest \in Job /\ rest.at <= now
    BY <1>1 DEF Job
  <2>3. job' = [job EXCEPT ![k] = j]
    <3>1. CASE job[k].todo = {c}
      BY <1>4, <3>1 DEF Advance
    <3>2. CASE job[k].todo # {c}
      BY <1>4, <3>2 DEF Advance
    <3> QED  BY <3>1, <3>2
  <2> HIDE DEF rest
  <2>2. j \in Job /\ j.at <= now
    BY <1>2, <2>1
  <2> HIDE DEF j
  <2> QED  BY <1>1, <2>2, <2>3
<1> QED  BY <1>3, <1>4

LEMMA JobWriteInv ==
  ASSUME IInv, NEW k \in Workers, JobWrite(k)
  PROVE  TypeOK' /\ DocInv'
<1>1. PICK c \in Earliest(job[k].todo) :
        ExpireStep(k, c) \/ FinalizeStep(k, c) \/ DowngradeStep(k, c)
  BY DEF JobWrite
<1>2. c \in Candidate /\ c.id \in Subs /\ c.due \in Nat
  BY DEF IInv, TypeOK, Job, Earliest, Candidate
<1>3. UNCHANGED <<now, status, owner, eligibility, request>>
  BY DEF JobWrite
<1>4. Stop(k) \/ Advance(k, c)
  BY <1>1 DEF ExpireStep, FinalizeStep, DowngradeStep
<1>5. /\ job' \in [Workers -> Job]
      /\ \A x \in Workers : job'[x].at <= now'
  BY <1>2, <1>3, <1>4, JobMoves
<1>6. SUFFICES subs' \in [Subs -> Subscription \cup {None}] /\ DocInv'
  BY <1>3, <1>5 DEF IInv, TypeOK
<1>7. CASE UNCHANGED subs
  BY <1>3, <1>5, <1>7, KeepDocuments DEF IInv, TypeOK
<1> DEFINE s == c.id
<1>8. ASSUME Exists(s),
             \/ subs' = [subs EXCEPT ![s] =
                          [subs[s] EXCEPT !.status = "expired", !.cancel = FALSE,
                                          !.end = c.due]]
             \/ subs' = [subs EXCEPT ![s] =
                          [subs[s] EXCEPT !.status = "canceled", !.cancel = FALSE]]
      PROVE  subs' \in [Subs -> Subscription \cup {None}] /\ DocInv'
  <2>1. subs[s] \in Subscription
    BY <1>2, <1>8, DocumentFacts
  <2>2. PICK r \in Subscription :
          /\ r.ws = subs[s].ws /\ r.term = subs[s].term /\ r.status \in Terminal
          /\ subs' = [subs EXCEPT ![s] = r]
    <3> DEFINE x == [subs[s] EXCEPT !.status = "expired", !.cancel = FALSE, !.end = c.due]
               y == [subs[s] EXCEPT !.status = "canceled", !.cancel = FALSE]
    <3>1. x \in Subscription /\ x.ws = subs[s].ws /\ x.term = subs[s].term
          /\ x.status \in Terminal
      BY <1>2, <2>1 DEF Subscription, Terminal
    <3>2. y \in Subscription /\ y.ws = subs[s].ws /\ y.term = subs[s].term
          /\ y.status \in Terminal
      BY <2>1 DEF Subscription, Terminal
    <3>3. subs' = [subs EXCEPT ![s] = x] \/ subs' = [subs EXCEPT ![s] = y]
      BY <1>8
    <3> HIDE DEF x, y
    <3> QED  BY <3>1, <3>2, <3>3
  <2>3. r.status \notin Current /\ r.status # "trialing" /\ r.status # "active"
    BY <2>2 DEF Current, Terminal
  <2> QED  BY <1>2, <1>3, <1>5, <1>8, <2>2, <2>3, RewriteDocument
<1>9. ASSUME DowngradeApplies(k, c),
             subs' = [subs EXCEPT ![s] =
                       [subs[s] EXCEPT !.plan = c.target, !.start = c.due,
                                       !.end = c.due + Period, !.change = None]]
      PROVE  subs' \in [Subs -> Subscription \cup {None}] /\ DocInv'
  <2>1. Exists(s) /\ subs[s].status = "active" /\ subs[s].change # None
        /\ subs[s].change.target = c.target
    BY <1>9 DEF DowngradeApplies, DowngradeDue
  <2>2. subs[s] \in Subscription /\ c.due + Period \in Nat
    BY <1>2, <2>1, DocumentFacts, ConstantsAssumption
  <2>3. c.target \in Plans
    BY <2>1, <2>2 DEF Subscription, ScheduledChange
  <2> DEFINE r == [subs[s] EXCEPT !.plan = c.target, !.start = c.due,
                                  !.end = c.due + Period, !.change = None]
  <2>4. /\ r \in Subscription /\ r.ws = subs[s].ws /\ r.term = subs[s].term
        /\ r.status = subs[s].status /\ r.change = None
    BY <1>2, <2>2, <2>3 DEF Subscription
  <2>5. subs' = [subs EXCEPT ![s] = r]
    BY <1>9
  <2> HIDE DEF r
  <2> QED  BY <1>2, <1>3, <1>5, <2>1, <2>4, <2>5, RewriteDocument
<1>10. CASE ExpireStep(k, c)
  BY <1>7, <1>8, <1>10 DEF ExpireStep, ExpireDue
<1>11. CASE FinalizeStep(k, c)
  BY <1>7, <1>8, <1>11 DEF FinalizeStep, FinalizeDue
<1>12. CASE DowngradeStep(k, c)
  BY <1>7, <1>9, <1>12 DEF DowngradeStep
<1> QED  BY <1>1, <1>10, <1>11, <1>12

LEMMA JobInv == IInv /\ JobNext => TypeOK' /\ DocInv'
<1> SUFFICES ASSUME IInv, NEW k \in Workers,
                    JobWrite(k) \/ JobKilled(k) \/ \E kind \in Kinds : JobRead(k, kind)
             PROVE  TypeOK' /\ DocInv'
  BY DEF JobNext
<1>1. CASE JobWrite(k)
  BY <1>1, JobWriteInv
<1>2. CASE JobKilled(k)
  <2>1. /\ job' \in [Workers -> Job]
        /\ \A x \in Workers : job'[x].at <= now'
    BY <1>2, JobMoves DEF JobKilled
  <2>2. TypeOK'
    BY <1>2, <2>1 DEF JobKilled, IInv, TypeOK
  <2>3. DocInv'
    BY <1>2, <2>1, KeepDocuments DEF JobKilled
  <2> QED  BY <2>2, <2>3
<1>3. ASSUME NEW kind \in Kinds, JobRead(k, kind) PROVE TypeOK' /\ DocInv'
  <2>1. PICK todo \in SUBSET Due(kind, now) :
          job' = [job EXCEPT ![k] = [kind |-> kind, at |-> now, todo |-> todo]]
    BY <1>3 DEF JobRead
  <2>2. now \in Nat /\ todo \in SUBSET Candidate
    BY <2>1, DueType DEF IInv, TypeOK
  <2> DEFINE j == [kind |-> kind, at |-> now, todo |-> todo]
  <2>3. j \in Job /\ j.at <= now
    BY <2>2 DEF Job
  <2>4. job' = [job EXCEPT ![k] = j]
    BY <2>1
  <2> HIDE DEF j
  <2>5. UNCHANGED <<now, status, owner, subs, eligibility, request>>
    BY <1>3 DEF JobRead
  <2>6. /\ job' \in [Workers -> Job]
        /\ \A x \in Workers : job'[x].at <= now'
    BY <2>3, <2>4, <2>5 DEF IInv, TypeOK, DocInv, DocumentShape
  <2>7. TypeOK'
    BY <2>5, <2>6 DEF IInv, TypeOK
  <2>8. DocInv'
    BY <2>5, <2>6, KeepDocuments
  <2> QED  BY <2>7, <2>8
<1> QED  BY <1>1, <1>2, <1>3

\* Workspaces never go back to absent, and a request is only admitted on an
\* active one.
LEMMA AdmittedStep == IInv /\ [Next]_vars => Admitted'
<1> SUFFICES ASSUME IInv, [Next]_vars PROVE Admitted'
  OBVIOUS
<1>1. CASE WorkspaceNext
  BY <1>1 DEF WorkspaceNext, CreateWorkspace, AcceptCommercialInvitation,
              TransferOwnership, CloseWorkspace, IInv, TypeOK, Admitted
<1>2. CASE TrialNext
  <2>1. PICK w \in Workspaces :
          \/ GrantWorkspaceTrial(w) \/ AbandonTrialRequest(w)
          \/ \E p \in Plans : RequestTrial(w, p) \/ GrantPlatformTrial(w, p)
          \/ \E at \in Captured :
               \/ EndTrialToFree(w, at)
               \/ \E p \in Plans : ActivatePaid(w, p, at)
    BY <1>2 DEF TrialNext
  <2>2. CASE GrantWorkspaceTrial(w) \/ AbandonTrialRequest(w)
    BY <2>2 DEF GrantWorkspaceTrial, AbandonTrialRequest, IInv, TypeOK, Admitted
  <2>3. ASSUME NEW p \in Plans, RequestTrial(w, p) PROVE Admitted'
    BY <2>3 DEF RequestTrial, IInv, TypeOK, Admitted
  <2>4. ASSUME NEW p \in Plans, GrantPlatformTrial(w, p) PROVE Admitted'
    BY <2>4 DEF GrantPlatformTrial, IInv, Admitted
  <2>5. ASSUME NEW at \in Captured, EndTrialToFree(w, at) PROVE Admitted'
    BY <2>5 DEF EndTrialToFree, IInv, Admitted
  <2>6. ASSUME NEW at \in Captured, NEW p \in Plans, ActivatePaid(w, p, at) PROVE Admitted'
    BY <2>6 DEF ActivatePaid, IInv, Admitted
  <2> QED  BY <2>1, <2>2, <2>3, <2>4, <2>5, <2>6
<1>3. CASE Tick \/ ContractNext \/ AdminNext \/ JobNext \/ UNCHANGED vars
  <2>1. UNCHANGED <<status, request>>
    BY <1>3 DEF Tick, ContractNext, ScheduleCancellation, ResumeCancellation,
        CancelImmediately, RevokeDowngrade, ScheduleDowngrade, AdminNext,
        PatchSubscription, JobNext, JobRead, JobWrite, JobKilled, vars
  <2> QED  BY <2>1 DEF IInv, Admitted
<1> QED  BY <1>1, <1>2, <1>3 DEF Next, ServiceNext

LEMMA StepInv == IInv /\ [Next]_vars => IInv'
<1> SUFFICES ASSUME IInv, [Next]_vars PROVE IInv'
  OBVIOUS
<1>1. Admitted'
  BY AdmittedStep
<1>2. TypeOK' /\ DocInv'
  <2>1. CASE Tick
    BY <2>1, TickInv
  <2>2. CASE WorkspaceNext
    BY <2>2, WorkspaceInv
  <2>3. CASE TrialNext
    BY <2>3, TrialInv
  <2>4. CASE ContractNext
    BY <2>4, ContractInv
  <2>5. CASE AdminNext
    BY <2>5, AdminInv
  <2>6. CASE JobNext
    BY <2>6, JobInv
  <2>7. CASE UNCHANGED vars
    <3>1. TypeOK'
      BY <2>7 DEF vars, IInv, TypeOK
    <3>2. DocInv'
      BY <2>7, SameClocks, KeepDocuments DEF vars
    <3> QED  BY <3>1, <3>2
  <2> QED  BY <2>1, <2>2, <2>3, <2>4, <2>5, <2>6, <2>7 DEF Next, ServiceNext
<1> QED  BY <1>1, <1>2 DEF IInv

-----------------------------------------------------------------------------
(* What a job step may do to a contract.                                   *)

\* Requests, the clock and the administration leave the jobs alone.
LEMMA OnlyJobs ==
  ASSUME [Next]_vars, job' # job
  PROVE  JobNext
<1>1. ~Tick /\ ~WorkspaceNext
  BY DEF Tick, WorkspaceNext, CreateWorkspace, AcceptCommercialInvitation,
         TransferOwnership, CloseWorkspace
<1>2. ~TrialNext
  BY DEF TrialNext, GrantWorkspaceTrial, AbandonTrialRequest, RequestTrial,
         GrantPlatformTrial, EndTrialToFree, ActivatePaid
<1>3. ~ContractNext /\ ~AdminNext
  BY DEF ContractNext, ScheduleCancellation, ResumeCancellation, CancelImmediately,
         RevokeDowngrade, ScheduleDowngrade, AdminNext, PatchSubscription
<1> QED  BY <1>1, <1>2, <1>3 DEF Next, ServiceNext, vars

\* Only a job transaction writes documents in a step that moves a job.
LEMMA JobWriters ==
  ASSUME [Next]_vars, job' # job
  PROVE  /\ UNCHANGED <<now, status, owner, eligibility, request>>
         /\ UNCHANGED subs \/ \E k \in Workers : JobWrite(k)
<1>1. JobNext
  BY OnlyJobs
<1> QED  BY <1>1 DEF JobNext, JobWrite, JobRead, JobKilled

\* A transaction of a job writes at most the document of its candidate, and
\* only one its filter still selects.
LEMMA JobWriteTarget ==
  ASSUME IInv, NEW k \in Workers, JobWrite(k)
  PROVE  /\ job[k].at \in Nat /\ job[k].at <= now /\ now \in Nat
         /\ \E c \in job[k].todo :
              /\ c \in Candidate
              /\ \A s \in Subs : s # c.id => subs'[s] = subs[s]
              /\ \/ UNCHANGED subs
                 \/ ExpireStep(k, c) /\ ExpireDue(c.id, job[k].at)
                 \/ FinalizeStep(k, c) /\ FinalizeDue(c.id, job[k].at)
                 \/ DowngradeStep(k, c) /\ DowngradeApplies(k, c)
<1>1. job[k].at \in Nat /\ job[k].at <= now /\ now \in Nat
  BY DEF IInv, TypeOK, Job, DocInv, DocumentShape
<1>2. PICK c \in Earliest(job[k].todo) :
        ExpireStep(k, c) \/ FinalizeStep(k, c) \/ DowngradeStep(k, c)
  BY DEF JobWrite
<1>3. c \in job[k].todo /\ c \in Candidate
  BY DEF IInv, TypeOK, Job, Earliest
<1>4. \A s \in Subs : s # c.id => subs'[s] = subs[s]
  BY <1>2 DEF ExpireStep, FinalizeStep, DowngradeStep, IInv, TypeOK
<1>5. \/ UNCHANGED subs
      \/ ExpireStep(k, c) /\ ExpireDue(c.id, job[k].at)
      \/ FinalizeStep(k, c) /\ FinalizeDue(c.id, job[k].at)
      \/ DowngradeStep(k, c) /\ DowngradeApplies(k, c)
  BY <1>2 DEF ExpireStep, FinalizeStep, DowngradeStep
<1> QED  BY <1>1, <1>3, <1>4, <1>5

\* What a filter of a job still selects grants nothing any more: the term of
\* a trial, of a cancellation and of a downgrade is the date access ends.
LEMMA DueGrantsNothing ==
  ASSUME IInv, NEW s \in Subs, NEW at \in Nat, at <= now, now \in Nat,
         ExpireDue(s, at) \/ FinalizeDue(s, at) \/ DowngradeDue(s, at)
  PROVE  ~Grants(s, now)
<1>1. Exists(s)
  BY DEF ExpireDue, FinalizeDue, DowngradeDue
<1>2. /\ subs[s] \in Subscription
      /\ subs[s].status = "active" /\ subs[s].change # None =>
           subs[s].change.at = subs[s].end
  BY <1>1, DocumentFacts
<1>3. CASE ExpireDue(s, at)
  BY <1>2, <1>3 DEF ExpireDue, Grants, Subscription
<1>4. CASE FinalizeDue(s, at)
  BY <1>2, <1>4 DEF FinalizeDue, Grants, Subscription
<1>5. CASE DowngradeDue(s, at)
  <2>1. subs[s].change \in ScheduledChange
    BY <1>2, <1>5 DEF DowngradeDue, Subscription
  <2>2. subs[s].end \in Nat /\ subs[s].end <= at /\ subs[s].status = "active"
    BY <1>2, <1>5, <2>1 DEF DowngradeDue, ScheduledChange
  <2>3. subs[s].end # None /\ ~(subs[s].end > now)
    BY <2>2, NoneAssumption
  <2> QED  BY <2>2, <2>3 DEF Grants
<1> QED  BY <1>3, <1>4, <1>5

\* The body of JobsNeverWithdrawAccess, of one step.
LEMMA JobStepKeepsAccess ==
  ASSUME IInv, [Next]_vars, job' # job,
         NEW w \in Workspaces, NEW s \in Granting(w, now)
  PROVE  s \in Granting(w, now)'
<1>1. s \in Subs /\ Exists(s) /\ subs[s].ws = w /\ Grants(s, now)
  BY DEF Granting, Contract
<1>2. now' = now
  BY JobWriters
<1>3. CASE subs'[s] = subs[s]
  BY <1>1, <1>2, <1>3 DEF Granting, Contract, Exists, Grants
<1>4. CASE subs'[s] # subs[s]
  <2>1. PICK k \in Workers : JobWrite(k)
    BY <1>4, JobWriters
  <2>2. PICK c \in job[k].todo :
          /\ \A t \in Subs : t # c.id => subs'[t] = subs[t]
          /\ \/ UNCHANGED subs
             \/ ExpireDue(c.id, job[k].at)
             \/ FinalizeDue(c.id, job[k].at)
             \/ DowngradeApplies(k, c)
    BY <2>1, JobWriteTarget
  <2>3. s = c.id /\ ~UNCHANGED subs
    BY <1>1, <1>4, <2>2
  <2>4. \/ ExpireDue(s, job[k].at) \/ FinalizeDue(s, job[k].at)
        \/ DowngradeDue(s, job[k].at)
    BY <2>2, <2>3 DEF DowngradeApplies
  <2>5. job[k].at \in Nat /\ job[k].at <= now /\ now \in Nat
    BY <2>1, JobWriteTarget
  <2> QED  BY <1>1, <2>4, <2>5, DueGrantsNothing
<1> QED  BY <1>3, <1>4

-----------------------------------------------------------------------------
(* Lists of downgrades that are older than the documents they name.        *)

\* The deployment runs one downgrade job at a time.
NoOverlap ==
    \A j, k \in Workers :
        job[j].kind = "downgrade" /\ job[k].kind = "downgrade" => j = k

\* Downgrade jobs do not overlap, or a command commits at the instant its clock
\* was captured, so that a job with an older clock finds nothing due again.
Separate == Lag = 0 \/ NoOverlap

\* The entry c of a list read at `at` names a contract whose paid period still
\* ends at the date of the entry, or that is not due again at `at`.
Kept(c, at) ==
    /\ Exists(c.id)
    /\ subs[c.id].status # "trialing"
    /\ subs[c.id].status = "active" =>
         \/ subs[c.id].end = c.due
         \/ Lag = 0 /\ subs[c.id].change = None
         \/ Lag = 0 /\ subs[c.id].end \in Nat /\ subs[c.id].end > at

ListsKept ==
    \A k \in Workers : job[k].kind = "downgrade" =>
        /\ \A c, d \in job[k].todo : c.id = d.id => c = d
        /\ \A c \in job[k].todo : Kept(c, job[k].at)

\* A step leaves the end of a contract that is not a trial alone, and
\* schedules nothing on it.
Tame(s) ==
    Exists(s) /\ subs[s].status # "trialing" =>
        /\ Exists(s)'
        /\ \/ subs'[s].status \in Terminal
           \/ /\ subs'[s].status = subs[s].status
              /\ subs'[s].end = subs[s].end
              /\ subs'[s].change \in {subs[s].change, None}

\* A job goes on with a list it has, if any.
Continues(k) ==
    job'[k].kind = "downgrade" =>
        /\ job[k].kind = "downgrade"
        /\ job'[k].at = job[k].at
        /\ job'[k].todo \subseteq job[k].todo

\* Whatever leaves a document as it is, or its end, its status and its change,
\* or makes it terminal, is tame.
LEMMA TameRewrite ==
  ASSUME IInv, NEW s \in Subs, Exists(s), NEW r \in Subscription,
         subs' = [subs EXCEPT ![s] = r],
         \/ subs[s].status = "trialing"
         \/ r.status \in Terminal
         \/ /\ r.status = subs[s].status /\ r.end = subs[s].end
            /\ r.change \in {subs[s].change, None},
         NEW t \in Subs
  PROVE  Tame(t)
<1>1. r # None
  BY NoneAssumption
<1>2. subs'[s] = r /\ (t # s => subs'[t] = subs[t])
  BY DEF IInv, TypeOK
<1> QED  BY <1>1, <1>2 DEF Tame, Exists

LEMMA TameFresh ==
  ASSUME IInv, NEW s \in Subs, ~Exists(s), NEW r,
         subs' = [subs EXCEPT ![s] = r], NEW t \in Subs
  PROVE  Tame(t)
BY DEF IInv, TypeOK, Tame, Exists

LEMMA TameSame == UNCHANGED subs => \A t \in Subs : Tame(t)
BY DEF Tame, Exists

LEMMA TameWorkspace ==
  ASSUME IInv, WorkspaceNext, NEW t \in Subs
  PROVE  Tame(t)
<1> PICK w \in Workspaces :
        \/ \E u \in Users : CreateWorkspace(w, u) \/ TransferOwnership(w, u)
        \/ \E u \in Users, p \in Plans, s \in Subs, at \in Captured :
             AcceptCommercialInvitation(w, u, p, s, at)
        \/ \E target \in {"archived", "closed"} : CloseWorkspace(w, target)
  BY DEF WorkspaceNext
<1>1. CASE \E u \in Users : CreateWorkspace(w, u) \/ TransferOwnership(w, u)
  BY <1>1, TameSame DEF CreateWorkspace, TransferOwnership
<1>2. ASSUME NEW u \in Users, NEW p \in Plans, NEW s \in Subs, NEW at \in Captured,
             AcceptCommercialInvitation(w, u, p, s, at)
      PROVE  Tame(t)
  BY <1>2, TameFresh DEF AcceptCommercialInvitation
<1>3. ASSUME NEW target \in {"archived", "closed"}, CloseWorkspace(w, target)
      PROVE  Tame(t)
  <2>1. CASE t \notin CurrentOf(w)
    BY <1>3, <2>1 DEF CloseWorkspace, Tame, Exists
  <2>2. CASE t \in CurrentOf(w)
    <3>1. subs[t] \in Subscription
      BY <2>2, DocumentType DEF IInv, CurrentOf, Contract
    <3> DEFINE r == [subs[t] EXCEPT !.status = "canceled", !.cancel = FALSE, !.change = None]
    <3>2. r \in Subscription /\ r.status = "canceled"
      BY <3>1 DEF Subscription, Terminal
    <3>3. subs'[t] = r
      BY <1>3, <2>2 DEF CloseWorkspace
    <3> HIDE DEF r
    <3> QED  BY <3>2, <3>3, NoneAssumption DEF Tame, Exists, Terminal
  <2> QED  BY <2>1, <2>2
<1> QED  BY <1>1, <1>2, <1>3

LEMMA TameTrial ==
  ASSUME IInv, TrialNext, NEW t \in Subs
  PROVE  Tame(t)
<1>1. ASSUME NEW w \in Workspaces, NEW p \in Plans, GrantTrialTx(w, p)
      PROVE  Tame(t)
  <2> PICK at \in Captured : ChangeTrialPlan(w, p, at) \/ \E s \in Subs : CreateTrial(w, p, s, at)
    BY <1>1 DEF GrantTrialTx
  <2>1. CASE ChangeTrialPlan(w, p, at)
    BY <2>1 DEF ChangeTrialPlan, TrialOf, Contract, IInv, TypeOK, Tame, Exists
  <2>2. CASE \E s \in Subs : CreateTrial(w, p, s, at)
    BY <2>2, TameFresh DEF CreateTrial
  <2> QED  BY <2>1, <2>2
<1> PICK w \in Workspaces :
        \/ GrantWorkspaceTrial(w) \/ AbandonTrialRequest(w)
        \/ \E p \in Plans : RequestTrial(w, p) \/ GrantPlatformTrial(w, p)
        \/ \E at \in Captured :
             \/ EndTrialToFree(w, at)
             \/ \E p \in Plans : ActivatePaid(w, p, at)
  BY DEF TrialNext
<1>2. CASE GrantWorkspaceTrial(w)
  BY <1>1, <1>2 DEF GrantWorkspaceTrial, IInv, TypeOK
<1>3. CASE AbandonTrialRequest(w) \/ \E p \in Plans : RequestTrial(w, p)
  BY <1>3, TameSame DEF AbandonTrialRequest, RequestTrial
<1>4. CASE \E p \in Plans : GrantPlatformTrial(w, p)
  BY <1>1, <1>4 DEF GrantPlatformTrial
<1>5. ASSUME NEW at \in Captured, EndTrialToFree(w, at) PROVE Tame(t)
  BY <1>5 DEF EndTrialToFree, TrialOf, Contract, IInv, TypeOK, Tame, Exists
<1>6. ASSUME NEW at \in Captured, NEW p \in Plans, ActivatePaid(w, p, at) PROVE Tame(t)
  BY <1>6 DEF ActivatePaid, TrialOf, Contract, IInv, TypeOK, Tame, Exists
<1> QED  BY <1>2, <1>3, <1>4, <1>5, <1>6

LEMMA TameContract ==
  ASSUME IInv, ContractNext, NEW t \in Subs
  PROVE  \/ Tame(t)
         \/ \E s \in Subs, at \in Captured, p \in Plans : ScheduleDowngrade(s, p, at)
<1> PICK s \in Subs, at \in Captured :
        \/ ScheduleCancellation(s, at) \/ ResumeCancellation(s, at)
        \/ CancelImmediately(s, at) \/ RevokeDowngrade(s, at)
        \/ \E p \in Plans : ScheduleDowngrade(s, p, at)
  BY DEF ContractNext
<1>a. at \in Nat
  BY CapturedNat DEF IInv, TypeOK
<1>1. CASE ScheduleCancellation(s, at) \/ ResumeCancellation(s, at)
  <2>1. Exists(s) /\ subs[s] \in Subscription
    BY <1>1, DocumentFacts DEF ScheduleCancellation, ResumeCancellation, RunningFixed
  <2>2. PICK flag \in BOOLEAN : subs' = [subs EXCEPT ![s] = [subs[s] EXCEPT !.cancel = flag]]
    BY <1>1 DEF ScheduleCancellation, ResumeCancellation
  <2> DEFINE r == [subs[s] EXCEPT !.cancel = flag]
  <2>3. /\ r \in Subscription /\ r.status = subs[s].status
        /\ r.end = subs[s].end /\ r.change = subs[s].change
    BY <2>1 DEF Subscription
  <2>4. subs' = [subs EXCEPT ![s] = r]
    BY <2>2
  <2> HIDE DEF r
  <2> QED  BY <2>1, <2>3, <2>4, TameRewrite
<1>2. CASE CancelImmediately(s, at)
  <2>1. Exists(s) /\ subs[s] \in Subscription
    BY <1>2, DocumentFacts DEF CancelImmediately, RunningFixed
  <2> DEFINE x == [subs[s] EXCEPT !.status = "canceled", !.cancel = FALSE, !.end = at]
             y == [subs[s] EXCEPT !.status = "canceled", !.cancel = FALSE]
  <2>2. x \in Subscription /\ y \in Subscription /\ x.status \in Terminal /\ y.status \in Terminal
    BY <1>a, <2>1 DEF Subscription, Terminal
  <2>3. subs' = [subs EXCEPT ![s] = x] \/ subs' = [subs EXCEPT ![s] = y]
    BY <1>2 DEF CancelImmediately
  <2> HIDE DEF x, y
  <2> QED  BY <2>1, <2>2, <2>3, TameRewrite
<1>3. CASE RevokeDowngrade(s, at)
  <2>1. Exists(s) /\ subs[s] \in Subscription
    BY <1>3, DocumentFacts DEF RevokeDowngrade
  <2> DEFINE r == [subs[s] EXCEPT !.change = None]
  <2>2. /\ r \in Subscription /\ r.status = subs[s].status
        /\ r.end = subs[s].end /\ r.change = None
    BY <2>1 DEF Subscription
  <2>3. subs' = [subs EXCEPT ![s] = r]
    BY <1>3 DEF RevokeDowngrade
  <2> HIDE DEF r
  <2> QED  BY <2>1, <2>2, <2>3, TameRewrite
<1> QED  BY <1>1, <1>2, <1>3

LEMMA TameAdmin ==
  ASSUME IInv, AdminNext, NEW t \in Subs
  PROVE  Tame(t)
<1> PICK s \in Subs, p \in Plans, flag \in BOOLEAN : PatchSubscription(s, p, flag)
  BY DEF AdminNext
<1>1. Exists(s) /\ subs[s] \in Subscription
  BY DocumentFacts DEF PatchSubscription
<1> DEFINE r == [subs[s] EXCEPT !.plan = p, !.cancel = flag]
<1>2. /\ r \in Subscription /\ r.status = subs[s].status
      /\ r.end = subs[s].end /\ r.change = subs[s].change
  BY <1>1 DEF Subscription
<1>3. subs' = [subs EXCEPT ![s] = r]
  BY DEF PatchSubscription
<1> HIDE DEF r
<1> QED  BY <1>1, <1>2, <1>3, TameRewrite

LEMMA TameJob ==
  ASSUME IInv, JobNext, NEW t \in Subs
  PROVE  \/ Tame(t)
         \/ \E k \in Workers : \E c \in job[k].todo :
              DowngradeStep(k, c) /\ DowngradeApplies(k, c)
<1> PICK k \in Workers : JobWrite(k) \/ JobKilled(k) \/ \E kind \in Kinds : JobRead(k, kind)
  BY DEF JobNext
<1>1. CASE JobKilled(k) \/ \E kind \in Kinds : JobRead(k, kind)
  BY <1>1, TameSame DEF JobKilled, JobRead
<1>2. CASE JobWrite(k)
  <2>1. PICK c \in job[k].todo :
          /\ c \in Candidate
          /\ \/ UNCHANGED subs
             \/ ExpireStep(k, c) /\ ExpireDue(c.id, job[k].at)
             \/ FinalizeStep(k, c) /\ FinalizeDue(c.id, job[k].at)
             \/ DowngradeStep(k, c) /\ DowngradeApplies(k, c)
    BY <1>2, JobWriteTarget
  <2>2. c.id \in Subs /\ c.due \in Nat
    BY <2>1 DEF Candidate
  <2>3. CASE UNCHANGED subs
    BY <2>3, TameSame
  <2>4. CASE ExpireStep(k, c) /\ ExpireDue(c.id, job[k].at)
    BY <2>2, <2>4 DEF ExpireStep, ExpireDue, IInv, TypeOK, Tame, Exists
  <2>5. CASE FinalizeStep(k, c) /\ FinalizeDue(c.id, job[k].at)
    <3>1. Exists(c.id) /\ subs[c.id] \in Subscription
      BY <2>2, <2>5, DocumentFacts DEF FinalizeDue
    <3> DEFINE r == [subs[c.id] EXCEPT !.status = "canceled", !.cancel = FALSE]
    <3>2. r \in Subscription /\ r.status \in Terminal
      BY <3>1 DEF Subscription, Terminal
    <3>3. subs' = [subs EXCEPT ![c.id] = r]
      BY <2>5 DEF FinalizeStep
    <3> HIDE DEF r
    <3> QED  BY <2>2, <3>1, <3>2, <3>3, TameRewrite
  <2> QED  BY <2>1, <2>3, <2>4, <2>5
<1> QED  BY <1>1, <1>2

\* The three steps that matter to a list: the rest is tame.
LEMMA ListWriters ==
  ASSUME IInv, [Next]_vars
  PROVE  \/ \A t \in Subs : Tame(t)
         \/ \E s \in Subs, at \in Captured, p \in Plans : ScheduleDowngrade(s, p, at)
         \/ \E k \in Workers : \E c \in job[k].todo :
              DowngradeStep(k, c) /\ DowngradeApplies(k, c)
<1>1. Tick \/ UNCHANGED vars => \A t \in Subs : Tame(t)
  BY TameSame DEF Tick, vars
<1> QED  BY <1>1, TameWorkspace, TameTrial, TameContract, TameAdmin, TameJob
         DEF Next, ServiceNext

\* A step reads a new list, or every job goes on with what it has.
LEMMA ListReaders ==
  ASSUME IInv, [Next]_vars, NEW k \in Workers
  PROVE  Continues(k) \/ \E kind \in Kinds : JobRead(k, kind)
<1>1. CASE job' = job
  BY <1>1 DEF Continues
<1>2. CASE job' # job
  <2>1. JobNext
    BY <1>2, OnlyJobs
  <2>2. PICK x \in Workers : JobWrite(x) \/ JobKilled(x) \/ \E kind \in Kinds : JobRead(x, kind)
    BY <2>1 DEF JobNext
  <2>3. /\ job \in [Workers -> Job] /\ Idle.kind # "downgrade"
    BY DEF IInv, TypeOK, Idle
  <2>4. CASE \E kind \in Kinds : JobRead(x, kind)
    <3>1. x # k => job'[k] = job[k]
      BY <2>3, <2>4 DEF JobRead
    <3> QED  BY <2>4, <3>1 DEF Continues
  <2>5. CASE JobWrite(x) \/ JobKilled(x)
    <3>1. Stop(x) \/ \E c \in job[x].todo : Advance(x, c)
      BY <2>5 DEF JobKilled, JobWrite, ExpireStep, FinalizeStep, DowngradeStep, Earliest
    <3>2. CASE Stop(x)
      BY <2>3, <3>2 DEF Stop, Continues
    <3>3. ASSUME NEW c \in job[x].todo, Advance(x, c) PROVE Continues(k)
      <4> DEFINE rest == [job[x] EXCEPT !.todo = job[x].todo \ {c}]
      <4>1. rest.kind = job[x].kind /\ rest.at = job[x].at /\ rest.todo = job[x].todo \ {c}
        BY <2>3 DEF Job
      <4>2. job' = [job EXCEPT ![x] = IF job[x].todo = {c} THEN Idle ELSE rest]
        BY <3>3 DEF Advance
      <4> HIDE DEF rest
      <4>3. \/ job'[k] = job[k] \/ job'[k] = Idle \/ (job'[k] = rest /\ k = x)
        BY <2>3, <4>2
      <4> QED  BY <2>3, <4>1, <4>3 DEF Continues
    <3> QED  BY <3>1, <3>2, <3>3
  <2> QED  BY <2>2, <2>4, <2>5
<1> QED  BY <1>1, <1>2

\* A list that has just been read names the ends of the periods.
LEMMA ListRead ==
  ASSUME IInv, NEW k \in Workers, NEW kind \in Kinds, JobRead(k, kind),
         job'[k].kind = "downgrade"
  PROVE  /\ \A c, d \in job'[k].todo : c.id = d.id => c = d
         /\ \A c \in job'[k].todo : Kept(c, job[k].at)' /\ subs'[c.id].end = c.due
<1>1. PICK todo \in SUBSET Due(kind, now) :
        job' = [job EXCEPT ![k] = [kind |-> kind, at |-> now, todo |-> todo]]
  BY DEF JobRead
<1>2. job'[k] = [kind |-> kind, at |-> now, todo |-> todo]
  BY <1>1 DEF IInv, TypeOK
<1>3. kind = "downgrade" /\ job'[k].todo = todo
  BY <1>2
<1>4. ASSUME NEW c \in todo
      PROVE  \E s \in Subs : DowngradeDue(s, now) /\ c = AsCandidate("downgrade", s)
  BY <1>3, <1>4 DEF Due, IsDue
<1>5. \A c, d \in todo : c.id = d.id => c = d
  BY <1>4 DEF AsCandidate
<1>6. UNCHANGED subs
  BY DEF JobRead
<1>7. ASSUME NEW c \in todo
      PROVE  Kept(c, job[k].at)' /\ subs'[c.id].end = c.due
  <2>1. PICK s \in Subs : DowngradeDue(s, now) /\ c = AsCandidate("downgrade", s)
    BY <1>4
  <2>2. c.id = s /\ c.due = subs[s].change.at
    BY <2>1 DEF AsCandidate, DueDate
  <2>3. Exists(s) /\ subs[s].status = "active" /\ subs[s].change # None
    BY <2>1 DEF DowngradeDue
  <2>4. subs[s].end = c.due
    BY <2>2, <2>3, DocumentFacts
  <2> QED  BY <1>6, <2>2, <2>3, <2>4 DEF Kept, Exists
<1> QED  BY <1>3, <1>5, <1>7

\* What a tame step leaves of an entry.
LEMMA KeptTame ==
  ASSUME NEW c, NEW at, Kept(c, at), Tame(c.id)
  PROVE  /\ Exists(c.id)'
         /\ subs'[c.id].status # "trialing"
         /\ subs'[c.id].status = "active" =>
              \/ subs'[c.id].end = c.due
              \/ Lag = 0 /\ subs'[c.id].change = None
              \/ Lag = 0 /\ subs'[c.id].end \in Nat /\ subs'[c.id].end > at
BY DEF Kept, Tame, Terminal

\* Every list still names the ends of the periods, or what is not due again.
LEMMA ListsStep ==
  ASSUME IInv, [Next]_vars, Separate, ListsKept
  PROVE  ListsKept'
<1> SUFFICES ASSUME NEW k \in Workers, job'[k].kind = "downgrade"
             PROVE  /\ \A c, d \in job'[k].todo : c.id = d.id => c = d
                    /\ \A c \in job'[k].todo : Kept(c, job[k].at)'
  BY DEF ListsKept
<1>1. CASE \E kind \in Kinds : JobRead(k, kind)
  BY <1>1, ListRead
<1>2. CASE Continues(k)
  <2>1. /\ job[k].kind = "downgrade" /\ job'[k].at = job[k].at
        /\ job'[k].todo \subseteq job[k].todo
    BY <1>2 DEF Continues
  <2>2. /\ job[k] \in Job /\ job[k].at \in Nat /\ job[k].at <= now /\ now \in Nat
        /\ job[k].todo \subseteq Candidate
    BY DEF IInv, TypeOK, Job, DocInv, DocumentShape
  <2>3. \A c, d \in job'[k].todo : c.id = d.id => c = d
    BY <2>1 DEF ListsKept
  <2>4. ASSUME NEW c \in job'[k].todo
        PROVE  Kept(c, job[k].at)'
    <3>1. /\ c \in job[k].todo /\ Kept(c, job[k].at)
          /\ c.id \in Subs /\ c.due \in Nat
      BY <2>1, <2>2, <2>4 DEF ListsKept, Candidate
    <3>2. CASE Tame(c.id)
      BY <2>1, <3>1, <3>2, KeptTame DEF Kept
    <3>3. ASSUME NEW s \in Subs, NEW at \in Captured, NEW p \in Plans,
                 ScheduleDowngrade(s, p, at)
          PROVE  Kept(c, job[k].at)'
      <4>1. CASE s # c.id
        <5>1. subs'[c.id] = subs[c.id]
          BY <3>1, <3>3, <4>1 DEF ScheduleDowngrade, IInv, TypeOK
        <5> QED  BY <2>1, <3>1, <5>1 DEF Kept, Exists
      <4>2. CASE s = c.id
        <5>1. /\ Exists(s) /\ subs[s] \in Subscription /\ subs[s].status = "active"
              /\ subs[s].end # None /\ subs[s].end > at
          BY <3>3, DocumentFacts DEF ScheduleDowngrade
        <5> DEFINE d == [target |-> p, at |-> subs[s].end]
                   r == [subs[s] EXCEPT !.change = d]
        <5>2. d \in ScheduledChange
          BY <5>1 DEF Subscription, ScheduledChange
        <5>3. subs' = [subs EXCEPT ![s] = r]
          BY <3>3 DEF ScheduleDowngrade
        <5> HIDE DEF d
        <5>4. /\ r \in Subscription /\ r.status = "active" /\ r.end = subs[s].end
          BY <5>1, <5>2 DEF Subscription
        <5> HIDE DEF r
        <5>5. subs'[s] = r /\ r # None
          BY <5>3, <5>4, NoneAssumption DEF IInv, TypeOK
        <5>6. subs[s].end \in Nat
          BY <5>1 DEF Subscription
        <5>7. subs[s].end = c.due \/ (Lag = 0 /\ subs[s].end > job[k].at)
          <6>1. CASE Lag = 0
            <7>1. at \in Nat /\ at >= now
              BY <6>1, <2>2 DEF Captured
            <7> QED  BY <2>2, <5>1, <5>6, <6>1, <7>1
          <6>2. CASE Lag # 0
            BY <3>1, <4>2, <5>1, <6>2 DEF Kept
          <6> QED  BY <6>1, <6>2
        <5> QED  BY <2>1, <4>2, <5>4, <5>5, <5>6, <5>7 DEF Kept, Exists
      <4> QED  BY <4>1, <4>2
    <3>4. ASSUME NEW x \in Workers, NEW d \in job[x].todo,
                 DowngradeStep(x, d), DowngradeApplies(x, d)
          PROVE  Kept(c, job[k].at)'
      <4>1. d \in Candidate /\ d.id \in Subs /\ d.due \in Nat
        BY DEF IInv, TypeOK, Job, Candidate
      <4>2. CASE d.id # c.id
        <5>1. subs'[c.id] = subs[c.id]
          BY <3>1, <3>4, <4>1, <4>2 DEF DowngradeStep, IInv, TypeOK
        <5> QED  BY <2>1, <3>1, <5>1 DEF Kept, Exists
      <4>3. CASE d.id = c.id /\ UNCHANGED subs
        BY <2>1, <3>1, <4>3 DEF Kept, Exists
      <4>4. CASE d.id = c.id /\ ~UNCHANGED subs
        <5>1. /\ Advance(x, d)
              /\ subs' = [subs EXCEPT ![d.id] =
                            [subs[d.id] EXCEPT !.plan = d.target, !.start = d.due,
                                               !.end = d.due + Period, !.change = None]]
          BY <3>4, <4>4 DEF DowngradeStep
        <5>2. /\ Exists(d.id) /\ subs[d.id] \in Subscription
              /\ subs[d.id].status = "active" /\ d.target \in Plans
          <6>1. /\ Exists(d.id) /\ subs[d.id].status = "active" /\ subs[d.id].change # None
                /\ subs[d.id].change.target = d.target
            BY <3>4 DEF DowngradeApplies, DowngradeDue
          <6>2. subs[d.id] \in Subscription
            BY <4>1, <6>1, DocumentFacts
          <6> QED  BY <6>1, <6>2 DEF Subscription, ScheduledChange
        <5> DEFINE r == [subs[d.id] EXCEPT !.plan = d.target, !.start = d.due,
                                           !.end = d.due + Period, !.change = None]
        <5>3. d.due + Period \in Nat
          BY <4>1, ConstantsAssumption
        <5>4. r \in Subscription /\ r.status = "active" /\ r.change = None
          BY <4>1, <5>2, <5>3 DEF Subscription
        <5>5. subs' = [subs EXCEPT ![d.id] = r]
          BY <5>1
        <5> HIDE DEF r
        <5>6. subs'[c.id] = r /\ r # None
          BY <4>1, <4>4, <5>4, <5>5, NoneAssumption DEF IInv, TypeOK
        <5>7. Lag = 0
          <6>1. SUFFICES ASSUME NoOverlap PROVE FALSE
            BY DEF Separate
          <6>2. x = k
            BY <2>1, <3>4, <6>1 DEF NoOverlap, DowngradeStep
          <6>3. d = c
            BY <2>1, <3>1, <4>4, <6>2 DEF ListsKept
          <6>4. c \notin job'[k].todo
            <7>1. CASE job[k].todo = {c}
              BY <5>1, <6>2, <6>3, <7>1 DEF Advance, Idle, IInv, TypeOK
            <7>2. CASE job[k].todo # {c}
              <8>1. job'[k] = [job[k] EXCEPT !.todo = job[k].todo \ {c}]
                BY <5>1, <6>2, <6>3, <7>2 DEF Advance, IInv, TypeOK
              <8> QED  BY <2>2, <8>1 DEF Job
            <7> QED  BY <7>1, <7>2
          <6> QED  BY <2>4, <6>4
        <5> QED  BY <5>4, <5>6, <5>7 DEF Kept, Exists
      <4> QED  BY <4>2, <4>3, <4>4
    <3> QED  BY <3>1, <3>2, <3>3, <3>4, ListWriters
  <2> QED  BY <2>3, <2>4
<1> QED  BY <1>1, <1>2, ListReaders

\* What one step applies, it applies to a contract that asks for it.
LEMMA AppliedAsked ==
  ASSUME IInv, [Next]_vars, NEW s \in Subs, AppliedDowngrade(s)
  PROVE  \E k \in Workers : \E c \in job[k].todo :
           /\ job[k].kind = "downgrade" /\ c.id = s
           /\ job[k].at \in Nat /\ job[k].at <= now /\ now \in Nat
           /\ subs[s].status = "active" /\ subs[s].change # None
           /\ subs[s].end \in Nat /\ subs[s].end <= job[k].at
           /\ subs'[s].plan = subs[s].change.target
           /\ subs'[s].start = c.due
<1>1. Exists(s) /\ subs'[s] # subs[s] /\ subs'[s].status = "active" /\ job' # job
  BY DEF AppliedDowngrade
<1>2. PICK k \in Workers : JobWrite(k)
  BY <1>1, JobWriters
<1>3. PICK c \in job[k].todo :
        /\ c \in Candidate
        /\ \A t \in Subs : t # c.id => subs'[t] = subs[t]
        /\ \/ UNCHANGED subs
           \/ ExpireStep(k, c) /\ ExpireDue(c.id, job[k].at)
           \/ FinalizeStep(k, c) /\ FinalizeDue(c.id, job[k].at)
           \/ DowngradeStep(k, c) /\ DowngradeApplies(k, c)
  BY <1>2, JobWriteTarget
<1>4. c.id = s /\ c.due \in Nat /\ subs[s] \in Subscription
  BY <1>1, <1>3, DocumentFacts DEF Candidate
<1>5. job[k].at \in Nat /\ job[k].at <= now /\ now \in Nat
  BY <1>2, JobWriteTarget
<1>6. DowngradeStep(k, c) /\ DowngradeApplies(k, c)
  <2>1. ~(ExpireStep(k, c) /\ ExpireDue(c.id, job[k].at))
    <3> SUFFICES ASSUME ExpireStep(k, c), ExpireDue(c.id, job[k].at) PROVE FALSE
      OBVIOUS
    <3> DEFINE r == [subs[s] EXCEPT !.status = "expired", !.cancel = FALSE, !.end = c.due]
    <3>1. subs' = [subs EXCEPT ![s] = r]
      BY <1>4 DEF ExpireStep
    <3>2. r.status = "expired"
      BY <1>4 DEF Subscription
    <3> HIDE DEF r
    <3> QED  BY <1>1, <3>1, <3>2 DEF IInv, TypeOK
  <2>2. ~(FinalizeStep(k, c) /\ FinalizeDue(c.id, job[k].at))
    <3> SUFFICES ASSUME FinalizeStep(k, c), FinalizeDue(c.id, job[k].at) PROVE FALSE
      OBVIOUS
    <3> DEFINE r == [subs[s] EXCEPT !.status = "canceled", !.cancel = FALSE]
    <3>1. subs' = [subs EXCEPT ![s] = r]
      BY <1>4 DEF FinalizeStep
    <3>2. r.status = "canceled"
      BY <1>4 DEF Subscription
    <3> HIDE DEF r
    <3> QED  BY <1>1, <3>1, <3>2 DEF IInv, TypeOK
  <2> QED  BY <1>1, <1>3, <2>1, <2>2
<1>7. /\ subs[s].status = "active" /\ subs[s].change # None
      /\ subs[s].change.at <= job[k].at /\ subs[s].change.target = c.target
  BY <1>4, <1>6 DEF DowngradeApplies, DowngradeDue
<1>8. subs[s].change \in ScheduledChange /\ subs[s].change.at = subs[s].end
  BY <1>1, <1>4, <1>7, DocumentFacts DEF Subscription
<1>9. subs[s].end \in Nat /\ subs[s].end <= job[k].at
  BY <1>7, <1>8 DEF ScheduledChange
<1>10. subs'[s].plan = c.target /\ subs'[s].start = c.due
  <2> DEFINE r == [subs[s] EXCEPT !.plan = c.target, !.start = c.due,
                                  !.end = c.due + Period, !.change = None]
  <2>1. subs' = [subs EXCEPT ![s] = r]
    BY <1>1, <1>4, <1>6 DEF DowngradeStep
  <2>2. r.plan = c.target /\ r.start = c.due
    BY <1>4 DEF Subscription
  <2> HIDE DEF r
  <2> QED  BY <2>1, <2>2 DEF IInv, TypeOK
<1> QED  BY <1>4, <1>5, <1>6, <1>7, <1>9, <1>10 DEF DowngradeStep

\* The body of DowngradeIsContiguous, of one step.
LEMMA AppliedContiguous ==
  ASSUME IInv, [Next]_vars, ListsKept, NEW s \in Subs, AppliedDowngrade(s)
  PROVE  /\ subs[s].change # None
         /\ subs'[s].plan = subs[s].change.target
         /\ subs'[s].start = subs[s].end
         /\ subs[s].end <= now
<1>1. PICK k \in Workers : \E c \in job[k].todo :
        /\ job[k].kind = "downgrade" /\ c.id = s
        /\ job[k].at \in Nat /\ job[k].at <= now /\ now \in Nat
        /\ subs[s].status = "active" /\ subs[s].change # None
        /\ subs[s].end \in Nat /\ subs[s].end <= job[k].at
        /\ subs'[s].plan = subs[s].change.target
        /\ subs'[s].start = c.due
  BY AppliedAsked
<1>2. PICK c \in job[k].todo :
        /\ job[k].kind = "downgrade" /\ c.id = s
        /\ job[k].at \in Nat /\ job[k].at <= now /\ now \in Nat
        /\ subs[s].status = "active" /\ subs[s].change # None
        /\ subs[s].end \in Nat /\ subs[s].end <= job[k].at
        /\ subs'[s].plan = subs[s].change.target
        /\ subs'[s].start = c.due
  BY <1>1
<1>3. Kept(c, job[k].at)
  BY <1>2 DEF ListsKept
<1>4. subs[s].end = c.due
  <2>1. ~(subs[s].end > job[k].at)
    BY <1>2
  <2> QED  BY <1>2, <1>3, <2>1 DEF Kept
<1>5. subs[s].end <= now
  BY <1>2
<1> QED  BY <1>2, <1>4, <1>5

-----------------------------------------------------------------------------
(* The ways the collection is written, and the place of a workspace.       *)

\* A service or a job writes a document that exists; the only way on from a
\* trial is a contract, and nothing comes back from a terminal status.
Rewrites(s, r) ==
    /\ Exists(s) /\ UNCHANGED eligibility
    /\ subs' = [subs EXCEPT ![s] = r]
    /\ r.ws = subs[s].ws
    /\ \/ r.status = subs[s].status
       \/ r.status \in Terminal
       \/ subs[s].status = "trialing" /\ r.status = "active"

\* A document is created for a workspace without a current contract.
Opens(s, r) ==
    /\ ~Exists(s) /\ CurrentOf(r.ws) = {}
    /\ subs' = [subs EXCEPT ![s] = r]
    /\ \/ r.status = "active" /\ UNCHANGED eligibility
       \/ /\ r.status = "trialing"
          /\ \E u \in Users : /\ eligibility[u] = None
                              /\ eligibility' = [eligibility EXCEPT ![u] = s]

\* The closure of a workspace.
Cancels(w) ==
    /\ UNCHANGED eligibility
    /\ \A s \in Subs : s \notin CurrentOf(w) => subs'[s] = subs[s]
    /\ \A s \in CurrentOf(w) : subs'[s] # None /\ subs'[s].status = "canceled"

Writes ==
    \/ UNCHANGED <<subs, eligibility>>
    \/ \E s \in Subs, r \in Subscription : Rewrites(s, r)
    \/ \E s \in Subs, r \in Subscription : Opens(s, r)
    \/ \E w \in Workspaces : Cancels(w)

LEMMA WorkspaceWrites == IInv /\ WorkspaceNext => Writes
<1> SUFFICES ASSUME IInv, NEW w \in Workspaces,
                    \/ \E u \in Users : CreateWorkspace(w, u) \/ TransferOwnership(w, u)
                    \/ \E u \in Users, p \in Plans, s \in Subs, at \in Captured :
                         AcceptCommercialInvitation(w, u, p, s, at)
                    \/ \E target \in {"archived", "closed"} : CloseWorkspace(w, target)
             PROVE  Writes
  BY DEF WorkspaceNext
<1>1. CASE \E u \in Users : CreateWorkspace(w, u) \/ TransferOwnership(w, u)
  BY <1>1 DEF CreateWorkspace, TransferOwnership, Writes
<1>2. ASSUME NEW u \in Users, NEW p \in Plans, NEW s \in Subs, NEW at \in Captured,
             AcceptCommercialInvitation(w, u, p, s, at)
      PROVE  Writes
  <2>1. at \in Nat
    BY CapturedNat DEF IInv, TypeOK
  <2>2. CurrentOf(w) = {} /\ ~Exists(s)
    BY <1>2 DEF AcceptCommercialInvitation, IInv, DocInv, DocumentShape, CurrentOf, Contract
  <2>3. CASE /\ eligibility[u] = None
             /\ subs' = [subs EXCEPT ![s] = NewTrial(w, p, at)]
             /\ eligibility' = [eligibility EXCEPT ![u] = s]
    <3> DEFINE r == NewTrial(w, p, at)
    <3>1. r \in Subscription /\ r.ws = w /\ r.status = "trialing"
      BY <2>1, NewDocuments DEF NewTrial
    <3> HIDE DEF r
    <3>2. subs' = [subs EXCEPT ![s] = r]
      BY <2>3 DEF r
    <3> QED  BY <2>2, <2>3, <3>1, <3>2 DEF Writes, Opens
  <2>4. CASE /\ subs' = [subs EXCEPT ![s] = NewOpenEnded(w, p, at)]
             /\ UNCHANGED eligibility
    <3> DEFINE r == NewOpenEnded(w, p, at)
    <3>1. r \in Subscription /\ r.ws = w /\ r.status = "active"
      BY <2>1, NewDocuments DEF NewOpenEnded
    <3> HIDE DEF r
    <3>2. subs' = [subs EXCEPT ![s] = r]
      BY <2>4 DEF r
    <3> QED  BY <2>2, <2>4, <3>1, <3>2 DEF Writes, Opens
  <2> QED  BY <1>2, <2>3, <2>4 DEF AcceptCommercialInvitation, NeverTried
<1>3. ASSUME NEW target \in {"archived", "closed"}, CloseWorkspace(w, target)
      PROVE  Writes
  <2>1. UNCHANGED eligibility /\ \A s \in Subs : s \notin CurrentOf(w) => subs'[s] = subs[s]
    BY <1>3 DEF CloseWorkspace
  <2>2. ASSUME NEW s \in CurrentOf(w)
        PROVE  subs'[s] # None /\ subs'[s].status = "canceled"
    <3>1. s \in Subs /\ subs[s] \in Subscription
      BY DocumentType DEF IInv, CurrentOf, Contract
    <3> DEFINE r == [subs[s] EXCEPT !.status = "canceled", !.cancel = FALSE, !.change = None]
    <3>2. r \in Subscription /\ r.status = "canceled"
      BY <3>1 DEF Subscription, Terminal
    <3>3. subs'[s] = r
      BY <1>3, <3>1 DEF CloseWorkspace
    <3> HIDE DEF r
    <3> QED  BY <3>2, <3>3, NoneAssumption
  <2> QED  BY <2>1, <2>2 DEF Writes, Cancels
<1> QED  BY <1>1, <1>2, <1>3

LEMMA TrialWrites == IInv /\ TrialNext => Writes
<1> SUFFICES ASSUME IInv, TrialNext PROVE Writes
  OBVIOUS
<1>1. ASSUME NEW w \in Workspaces, NEW p \in Plans, GrantTrialTx(w, p)
      PROVE  Writes
  <2> PICK at \in Captured : ChangeTrialPlan(w, p, at) \/ \E s \in Subs : CreateTrial(w, p, s, at)
    BY <1>1 DEF GrantTrialTx
  <2>1. CASE ChangeTrialPlan(w, p, at)
    <3>1. PICK s \in TrialOf(w) : subs' = [subs EXCEPT ![s].plan = p]
      BY <2>1 DEF ChangeTrialPlan
    <3>2. s \in Subs /\ Exists(s) /\ subs[s] \in Subscription /\ UNCHANGED eligibility
      BY <2>1, DocumentType DEF ChangeTrialPlan, IInv, TrialOf, Contract
    <3> DEFINE r == [subs[s] EXCEPT !.plan = p]
    <3>3. r \in Subscription /\ r.ws = subs[s].ws /\ r.status = subs[s].status
      BY <3>2 DEF Subscription
    <3>4. subs' = [subs EXCEPT ![s] = r]
      BY <3>1
    <3> HIDE DEF r
    <3> QED  BY <3>2, <3>3, <3>4 DEF Writes, Rewrites
  <2>2. ASSUME NEW s \in Subs, CreateTrial(w, p, s, at) PROVE Writes
    <3> DEFINE r == NewTrial(w, p, at)
    <3>1. r \in Subscription /\ r.ws = w /\ r.status = "trialing"
      BY CapturedNat, NewDocuments DEF NewTrial, IInv, TypeOK
    <3> HIDE DEF r
    <3>2. subs' = [subs EXCEPT ![s] = r] /\ ~Exists(s)
      BY <2>2 DEF CreateTrial, r
    <3>3. CurrentOf(w) = {}
      BY <2>2 DEF CreateTrial, NoContract, CurrentOf, TrialOf, Current
    <3>4. \E u \in Users : /\ eligibility[u] = None
                           /\ eligibility' = [eligibility EXCEPT ![u] = s]
      BY <2>2 DEF CreateTrial, NeverTried, IInv, TypeOK
    <3> QED  BY <3>1, <3>2, <3>3, <3>4 DEF Writes, Opens
  <2> QED  BY <2>1, <2>2
<1> PICK w \in Workspaces :
        \/ GrantWorkspaceTrial(w) \/ AbandonTrialRequest(w)
        \/ \E p \in Plans : RequestTrial(w, p) \/ GrantPlatformTrial(w, p)
        \/ \E at \in Captured :
             \/ EndTrialToFree(w, at)
             \/ \E p \in Plans : ActivatePaid(w, p, at)
  BY DEF TrialNext
<1>2. CASE GrantWorkspaceTrial(w)
  BY <1>1, <1>2 DEF GrantWorkspaceTrial, IInv, TypeOK
<1>3. CASE AbandonTrialRequest(w) \/ \E p \in Plans : RequestTrial(w, p)
  BY <1>3 DEF AbandonTrialRequest, RequestTrial, Writes
<1>4. CASE \E p \in Plans : GrantPlatformTrial(w, p)
  BY <1>1, <1>4 DEF GrantPlatformTrial
<1>5. ASSUME NEW at \in Captured,
             EndTrialToFree(w, at) \/ \E p \in Plans : ActivatePaid(w, p, at)
      PROVE  Writes
  <2>1. at \in Nat /\ at + Period \in Nat
    BY CapturedNat, ConstantsAssumption DEF IInv, TypeOK
  <2>2. PICK s \in TrialOf(w), p \in Plans \cup {None} :
          \/ subs' = [subs EXCEPT ![s] =
                       [subs[s] EXCEPT !.status = "canceled", !.cancel = FALSE, !.end = at]]
          \/ /\ p \in Plans
             /\ subs' = [subs EXCEPT ![s] =
                          [subs[s] EXCEPT !.status = "active", !.plan = p, !.start = at,
                                          !.end = at + Period, !.cancel = FALSE]]
    BY <1>5 DEF EndTrialToFree, ActivatePaid
  <2>3. /\ s \in Subs /\ Exists(s) /\ subs[s] \in Subscription /\ subs[s].status = "trialing"
        /\ UNCHANGED eligibility
    BY <1>5, DocumentType DEF EndTrialToFree, ActivatePaid, IInv, TrialOf, Contract
  <2> DEFINE x == [subs[s] EXCEPT !.status = "canceled", !.cancel = FALSE, !.end = at]
             y == [subs[s] EXCEPT !.status = "active", !.plan = p, !.start = at,
                                  !.end = at + Period, !.cancel = FALSE]
  <2>4. x \in Subscription /\ x.ws = subs[s].ws /\ x.status \in Terminal
    BY <2>1, <2>3 DEF Subscription, Terminal
  <2>5. p \in Plans => y \in Subscription /\ y.ws = subs[s].ws /\ y.status = "active"
    BY <2>1, <2>3 DEF Subscription, Current
  <2>6. subs' = [subs EXCEPT ![s] = x] \/ (p \in Plans /\ subs' = [subs EXCEPT ![s] = y])
    BY <2>2
  <2> HIDE DEF x, y
  <2> QED  BY <2>3, <2>4, <2>5, <2>6 DEF Writes, Rewrites
<1> QED  BY <1>2, <1>3, <1>4, <1>5

LEMMA ContractWrites == IInv /\ ContractNext => Writes
<1> SUFFICES ASSUME IInv, NEW s \in Subs, NEW at \in Captured,
                    \/ ScheduleCancellation(s, at) \/ ResumeCancellation(s, at)
                    \/ CancelImmediately(s, at) \/ RevokeDowngrade(s, at)
                    \/ \E p \in Plans : ScheduleDowngrade(s, p, at)
             PROVE  Writes
  BY DEF ContractNext
<1>1. Exists(s) /\ UNCHANGED eligibility
  BY DEF ScheduleCancellation, ResumeCancellation, CancelImmediately, RunningFixed,
         RevokeDowngrade, ScheduleDowngrade
<1>2. subs[s] \in Subscription /\ at \in Nat
  BY <1>1, DocumentFacts, CapturedNat DEF IInv, TypeOK
<1>3. CASE CancelImmediately(s, at)
  <2> DEFINE x == [subs[s] EXCEPT !.status = "canceled", !.cancel = FALSE, !.end = at]
             y == [subs[s] EXCEPT !.status = "canceled", !.cancel = FALSE]
  <2>1. /\ x \in Subscription /\ x.ws = subs[s].ws /\ x.status \in Terminal
        /\ y \in Subscription /\ y.ws = subs[s].ws /\ y.status \in Terminal
    BY <1>2 DEF Subscription, Terminal
  <2>2. subs' = [subs EXCEPT ![s] = x] \/ subs' = [subs EXCEPT ![s] = y]
    BY <1>3 DEF CancelImmediately
  <2> HIDE DEF x, y
  <2> QED  BY <1>1, <2>1, <2>2 DEF Writes, Rewrites
<1>4. CASE ScheduleCancellation(s, at) \/ ResumeCancellation(s, at)
  <2>1. PICK flag \in BOOLEAN : subs' = [subs EXCEPT ![s] = [subs[s] EXCEPT !.cancel = flag]]
    BY <1>4 DEF ScheduleCancellation, ResumeCancellation
  <2> DEFINE r == [subs[s] EXCEPT !.cancel = flag]
  <2>2. r \in Subscription /\ r.ws = subs[s].ws /\ r.status = subs[s].status
    BY <1>2 DEF Subscription
  <2>3. subs' = [subs EXCEPT ![s] = r]
    BY <2>1
  <2> HIDE DEF r
  <2> QED  BY <1>1, <2>2, <2>3 DEF Writes, Rewrites
<1>5. CASE RevokeDowngrade(s, at) \/ \E p \in Plans : ScheduleDowngrade(s, p, at)
  <2>1. PICK d \in ScheduledChange \cup {None} :
          subs' = [subs EXCEPT ![s] = [subs[s] EXCEPT !.change = d]]
    <3>1. CASE RevokeDowngrade(s, at)
      BY <3>1 DEF RevokeDowngrade
    <3>2. ASSUME NEW p \in Plans, ScheduleDowngrade(s, p, at)
          PROVE  \E d \in ScheduledChange \cup {None} :
                   subs' = [subs EXCEPT ![s] = [subs[s] EXCEPT !.change = d]]
      <4> DEFINE d == [target |-> p, at |-> subs[s].end]
      <4>1. d \in ScheduledChange
        BY <1>2, <3>2 DEF ScheduleDowngrade, Subscription, ScheduledChange
      <4>2. subs' = [subs EXCEPT ![s] = [subs[s] EXCEPT !.change = d]]
        BY <3>2 DEF ScheduleDowngrade
      <4> HIDE DEF d
      <4> QED  BY <4>1, <4>2
    <3> QED  BY <1>5, <3>1, <3>2
  <2> DEFINE r == [subs[s] EXCEPT !.change = d]
  <2>2. r \in Subscription /\ r.ws = subs[s].ws /\ r.status = subs[s].status
    BY <1>2 DEF Subscription
  <2>3. subs' = [subs EXCEPT ![s] = r]
    BY <2>1
  <2> HIDE DEF r
  <2> QED  BY <1>1, <2>2, <2>3 DEF Writes, Rewrites
<1> QED  BY <1>3, <1>4, <1>5

LEMMA AdminWrites == IInv /\ AdminNext => Writes
<1> SUFFICES ASSUME IInv, NEW s \in Subs, NEW p \in Plans, NEW flag \in BOOLEAN,
                    PatchSubscription(s, p, flag)
             PROVE  Writes
  BY DEF AdminNext
<1> DEFINE r == [subs[s] EXCEPT !.plan = p, !.cancel = flag]
<1>1. Exists(s) /\ subs[s] \in Subscription /\ UNCHANGED eligibility
  BY DocumentFacts DEF PatchSubscription
<1>2. r \in Subscription /\ r.ws = subs[s].ws /\ r.status = subs[s].status
  BY <1>1 DEF Subscription
<1>3. subs' = [subs EXCEPT ![s] = r]
  BY DEF PatchSubscription
<1> HIDE DEF r
<1> QED  BY <1>1, <1>2, <1>3 DEF Writes, Rewrites

LEMMA JobWrites == IInv /\ JobNext => Writes
<1> SUFFICES ASSUME IInv, NEW k \in Workers,
                    JobWrite(k) \/ JobKilled(k) \/ \E kind \in Kinds : JobRead(k, kind)
             PROVE  Writes
  BY DEF JobNext
<1>1. CASE JobKilled(k) \/ \E kind \in Kinds : JobRead(k, kind)
  BY <1>1 DEF JobKilled, JobRead, Writes
<1>2. CASE JobWrite(k)
  <2>1. UNCHANGED eligibility
    BY <1>2 DEF JobWrite
  <2>2. CASE UNCHANGED subs
    BY <2>1, <2>2 DEF Writes
  <2>3. CASE ~UNCHANGED subs
    <3>1. PICK c \in job[k].todo :
            /\ c \in Candidate
            /\ \/ ExpireStep(k, c) /\ ExpireDue(c.id, job[k].at)
               \/ FinalizeStep(k, c) /\ FinalizeDue(c.id, job[k].at)
               \/ DowngradeStep(k, c) /\ DowngradeApplies(k, c)
      BY <1>2, <2>3, JobWriteTarget
    <3> DEFINE s == c.id
    <3>2. s \in Subs /\ c.due \in Nat /\ c.due + Period \in Nat
      BY <3>1, ConstantsAssumption DEF Candidate
    <3>3. Exists(s)
      BY <3>1 DEF ExpireDue, FinalizeDue, DowngradeApplies, DowngradeDue
    <3>4. subs[s] \in Subscription
      BY <3>2, <3>3, DocumentFacts
    <3> DEFINE x == [subs[s] EXCEPT !.status = "expired", !.cancel = FALSE, !.end = c.due]
               y == [subs[s] EXCEPT !.status = "canceled", !.cancel = FALSE]
               z == [subs[s] EXCEPT !.plan = c.target, !.start = c.due,
                                    !.end = c.due + Period, !.change = None]
    <3>5. /\ x \in Subscription /\ x.ws = subs[s].ws /\ x.status \in Terminal
          /\ y \in Subscription /\ y.ws = subs[s].ws /\ y.status \in Terminal
      BY <3>2, <3>4 DEF Subscription, Terminal
    <3>6. DowngradeApplies(k, c) =>
            z \in Subscription /\ z.ws = subs[s].ws /\ z.status = subs[s].status
      BY <3>2, <3>4 DEF DowngradeApplies, DowngradeDue, Subscription, ScheduledChange
    <3>7. \/ subs' = [subs EXCEPT ![s] = x]
          \/ subs' = [subs EXCEPT ![s] = y]
          \/ DowngradeApplies(k, c) /\ subs' = [subs EXCEPT ![s] = z]
      BY <2>3, <3>1 DEF ExpireStep, FinalizeStep, DowngradeStep
    <3> HIDE DEF x, y, z
    <3> QED  BY <2>1, <3>2, <3>3, <3>5, <3>6, <3>7 DEF Writes, Rewrites
  <2> QED  BY <2>2, <2>3
<1> QED  BY <1>1, <1>2

\* Every step writes the collection in one of these ways.
LEMMA StepWrites == IInv /\ [Next]_vars => Writes
<1>1. Tick \/ UNCHANGED vars => Writes
  BY DEF Tick, vars, Writes
<1> QED  BY <1>1, WorkspaceWrites, TrialWrites, ContractWrites, AdminWrites, JobWrites
         DEF Next, ServiceNext

\* A current document is the place of its workspace.
LEMMA PlaceIs ==
  ASSUME IInv, NEW w \in Workspaces, NEW s \in CurrentOf(w)
  PROVE  /\ CurrentOf(w) = {s}
         /\ PlaceOf(w) = IF subs[s].status = "trialing" THEN "trial" ELSE "contract"
<1>1. CurrentOf(w) = {s}
  BY DEF IInv, DocInv, OneCurrentContract
<1> QED  BY <1>1 DEF PlaceOf

\* The same, of the next state: the place is a function of the current documents.
LEMMA PlaceThen ==
  ASSUME NEW w \in Workspaces, NEW s, CurrentOf(w)' = {s}
  PROVE  PlaceOf(w)' = IF subs'[s].status = "trialing" THEN "trial" ELSE "contract"
BY DEF PlaceOf

LEMMA PlaceEmpty ==
  ASSUME NEW w \in Workspaces
  PROVE  /\ CurrentOf(w) = {} => PlaceOf(w) = "empty"
         /\ CurrentOf(w)' = {} => PlaceOf(w)' = "empty"
BY DEF PlaceOf

\* Documents that stay as they are keep the place they fill.
LEMMA PlaceKept ==
  ASSUME NEW w \in Workspaces, CurrentOf(w)' = CurrentOf(w),
         \A s \in CurrentOf(w) : subs'[s].status = subs[s].status
  PROVE  PlaceOf(w)' = PlaceOf(w)
BY DEF PlaceOf

\* A single write moves no other workspace.
LEMMA OtherPlaces ==
  ASSUME IInv, NEW s \in Subs, NEW r \in Subscription, subs' = [subs EXCEPT ![s] = r],
         Exists(s) => subs[s].ws = r.ws,
         NEW w \in Workspaces, w # r.ws
  PROVE  PlaceOf(w)' = PlaceOf(w)
<1>1. subs'[s] = r /\ \A t \in Subs : t # s => subs'[t] = subs[t]
  BY DEF IInv, TypeOK
<1>2. s \notin CurrentOf(w) /\ s \notin CurrentOf(w)'
  BY <1>1 DEF CurrentOf, Contract, Exists
<1>3. CurrentOf(w)' = CurrentOf(w)
  BY <1>1, <1>2 DEF CurrentOf, Contract, Exists
<1>4. \A t \in CurrentOf(w) : subs'[t].status = subs[t].status
  BY <1>1, <1>2 DEF CurrentOf, Contract
<1> QED  BY <1>3, <1>4, PlaceKept

\* What a step does to the places, in the terms of the abstract specification.
MovesPlace(w, from, to) ==
    /\ PlaceOf(w) \in from /\ PlaceOf(w)' = to
    /\ \A v \in Workspaces : v # w => PlaceOf(v)' = PlaceOf(v)

LEMMA RewritePlace ==
  ASSUME IInv, NEW s \in Subs, NEW r \in Subscription, Rewrites(s, r)
  PROVE  \/ \A v \in Workspaces : PlaceOf(v)' = PlaceOf(v)
         \/ MovesPlace(r.ws, {"empty", "trial"}, "contract")
         \/ MovesPlace(r.ws, {"trial", "contract"}, "empty")
<1> DEFINE w == r.ws
<1>1. /\ Exists(s) /\ subs[s].ws = w /\ w \in Workspaces /\ r # None
      /\ subs'[s] = r /\ \A t \in Subs : t # s => subs'[t] = subs[t]
  BY NoneAssumption DEF Rewrites, IInv, TypeOK, Subscription
<1>2. \A v \in Workspaces : v # w => PlaceOf(v)' = PlaceOf(v)
  BY <1>1, OtherPlaces DEF Rewrites
<1>3. CASE s \notin CurrentOf(w)
  <2>1. subs[s].status \notin Current
    BY <1>1, <1>3 DEF CurrentOf, Contract
  <2>2. r.status \notin Current
    BY <2>1 DEF Rewrites, Current, Terminal
  <2>3. CurrentOf(w)' = CurrentOf(w)
    BY <1>1, <1>3, <2>2 DEF CurrentOf, Contract, Exists
  <2>4. \A t \in CurrentOf(w) : subs'[t].status = subs[t].status
    BY <1>1, <1>3 DEF CurrentOf, Contract
  <2> QED  BY <1>1, <1>2, <2>3, <2>4, PlaceKept
<1>4. CASE s \in CurrentOf(w)
  <2>1. /\ CurrentOf(w) = {s}
        /\ PlaceOf(w) = IF subs[s].status = "trialing" THEN "trial" ELSE "contract"
    BY <1>1, <1>4, PlaceIs
  <2>2. \A t \in Subs : t # s => t \notin CurrentOf(w)'
    BY <1>1, <2>1 DEF CurrentOf, Contract, Exists
  <2>3. CASE r.status \in Current
    <3>1. s \in CurrentOf(w)'
      BY <1>1, <2>3 DEF CurrentOf, Contract, Exists
    <3>2. CurrentOf(w)' = {s}
      BY <2>2, <3>1 DEF CurrentOf, Contract
    <3>3. PlaceOf(w)' = IF r.status = "trialing" THEN "trial" ELSE "contract"
      BY <1>1, <3>2, PlaceThen
    <3>4. r.status = subs[s].status \/ (subs[s].status = "trialing" /\ r.status = "active")
      BY <2>3 DEF Rewrites, Current, Terminal
    <3> QED  BY <1>1, <1>2, <2>1, <3>3, <3>4 DEF MovesPlace
  <2>4. CASE r.status \notin Current
    <3>1. s \notin CurrentOf(w)'
      BY <1>1, <2>4 DEF CurrentOf
    <3>2. CurrentOf(w)' = {}
      BY <2>2, <3>1 DEF CurrentOf, Contract
    <3> QED  BY <1>1, <1>2, <2>1, <3>2, PlaceEmpty DEF MovesPlace
  <2> QED  BY <2>3, <2>4
<1> QED  BY <1>3, <1>4

LEMMA OpenPlace ==
  ASSUME IInv, NEW s \in Subs, NEW r \in Subscription, Opens(s, r)
  PROVE  /\ r.ws \in Workspaces
         /\ MovesPlace(r.ws, {"empty"}, IF r.status = "trialing" THEN "trial" ELSE "contract")
<1> DEFINE w == r.ws
<1>1. /\ ~Exists(s) /\ CurrentOf(w) = {} /\ w \in Workspaces /\ r # None
      /\ subs'[s] = r /\ \A t \in Subs : t # s => subs'[t] = subs[t]
      /\ r.status \in Current
  BY NoneAssumption DEF Opens, IInv, TypeOK, Subscription, Current
<1>2. \A v \in Workspaces : v # w => PlaceOf(v)' = PlaceOf(v)
  BY <1>1, OtherPlaces DEF Opens
<1>3. s \in CurrentOf(w)' /\ \A t \in Subs : t # s => t \notin CurrentOf(w)'
  BY <1>1 DEF CurrentOf, Contract, Exists
<1>4. CurrentOf(w)' = {s}
  BY <1>3 DEF CurrentOf, Contract
<1>5. PlaceOf(w)' = IF r.status = "trialing" THEN "trial" ELSE "contract"
  BY <1>1, <1>4, PlaceThen
<1>6. PlaceOf(w) = "empty"
  BY <1>1, PlaceEmpty
<1> QED  BY <1>1, <1>2, <1>5, <1>6 DEF MovesPlace

LEMMA CancelPlace ==
  ASSUME IInv, NEW w \in Workspaces, Cancels(w)
  PROVE  \/ \A v \in Workspaces : PlaceOf(v)' = PlaceOf(v)
         \/ MovesPlace(w, {"trial", "contract"}, "empty")
<1>1. \A s \in Subs : subs'[s] # subs[s] => s \in CurrentOf(w) /\ subs'[s].status \notin Current
  BY DEF Cancels, Current
<1>2. ASSUME NEW v \in Workspaces, v # w PROVE PlaceOf(v)' = PlaceOf(v)
  <2>1. CurrentOf(v) \cap CurrentOf(w) = {}
    BY <1>2 DEF CurrentOf, Contract
  <2>2. CurrentOf(v)' = CurrentOf(v)
    BY <1>1, <2>1 DEF CurrentOf, Contract, Exists
  <2>3. \A t \in CurrentOf(v) : subs'[t].status = subs[t].status
    BY <1>1, <2>1 DEF CurrentOf, Contract
  <2> QED  BY <2>2, <2>3, PlaceKept
<1>3. CurrentOf(w)' = {}
  <2> SUFFICES ASSUME NEW s \in CurrentOf(w)' PROVE FALSE
    OBVIOUS
  <2>1. s \in Subs /\ subs'[s].status \in Current /\ Exists(s)' /\ subs'[s].ws = w
    BY DEF CurrentOf, Contract
  <2>2. subs'[s] = subs[s]
    BY <1>1, <2>1
  <2>3. s \in CurrentOf(w)
    BY <2>1, <2>2 DEF CurrentOf, Contract, Exists
  <2> QED  BY <2>1, <2>3 DEF Cancels, Current
<1>4. PlaceOf(w)' = "empty"
  BY <1>3, PlaceEmpty
<1>5. CASE CurrentOf(w) = {}
  BY <1>2, <1>4, <1>5, PlaceEmpty
<1>6. ASSUME NEW s \in CurrentOf(w) PROVE MovesPlace(w, {"trial", "contract"}, "empty")
  <2>1. PlaceOf(w) = IF subs[s].status = "trialing" THEN "trial" ELSE "contract"
    BY <1>6, PlaceIs
  <2> QED  BY <1>2, <1>4, <2>1 DEF MovesPlace
<1> QED  BY <1>5, <1>6

\* The refinement, one step.
LEMMA PlaceStep ==
  ASSUME IInv, [Next]_vars
  PROVE  [Place!Next]_(Place!vars)
<1> DEFINE slot  == [w \in Workspaces |-> PlaceOf(w)]
           tried == {u \in Users : eligibility[u] # None}
<1>a. slot' = [w \in Workspaces |-> PlaceOf(w)']
  OBVIOUS
<1>b. UNCHANGED eligibility => tried' = tried
  OBVIOUS
<1>c. ASSUME NEW w \in Workspaces, NEW from, NEW to, MovesPlace(w, from, to)
      PROVE  Place!Fill(w, from, to)
  <2>1. slot[w] \in from
    BY <1>c DEF MovesPlace
  <2>2. slot' = [slot EXCEPT ![w] = to]
    BY <1>a, <1>c DEF MovesPlace
  <2> QED  BY <2>1, <2>2 DEF Place!Fill
<1>d. ASSUME \A v \in Workspaces : PlaceOf(v)' = PlaceOf(v), UNCHANGED eligibility
      PROVE  UNCHANGED Place!vars
  <2>1. slot' = slot
    BY <1>a, <1>d
  <2> QED  BY <1>b, <1>d, <2>1 DEF Place!vars
<1>1. CASE UNCHANGED <<subs, eligibility>>
  <2>1. ASSUME NEW w \in Workspaces PROVE PlaceOf(w)' = PlaceOf(w)
    <3>1. CurrentOf(w)' = CurrentOf(w)
      BY <1>1 DEF CurrentOf, Contract, Exists
    <3> QED  BY <1>1, <3>1, PlaceKept
  <2> QED  BY <1>1, <1>d, <2>1
<1>2. ASSUME NEW s \in Subs, NEW r \in Subscription, Rewrites(s, r)
      PROVE  [Place!Next]_(Place!vars)
  <2>1. r.ws \in Workspaces /\ UNCHANGED eligibility
    BY <1>2 DEF Rewrites, Subscription
  <2>2. CASE \A v \in Workspaces : PlaceOf(v)' = PlaceOf(v)
    BY <1>d, <2>1, <2>2
  <2>3. CASE MovesPlace(r.ws, {"empty", "trial"}, "contract")
    BY <1>b, <1>c, <2>1, <2>3 DEF Place!Next, Place!Sign
  <2>4. CASE MovesPlace(r.ws, {"trial", "contract"}, "empty")
    BY <1>b, <1>c, <2>1, <2>4 DEF Place!Next, Place!Leave
  <2> QED  BY <1>2, <2>2, <2>3, <2>4, RewritePlace
<1>3. ASSUME NEW s \in Subs, NEW r \in Subscription, Opens(s, r)
      PROVE  [Place!Next]_(Place!vars)
  <2>1. /\ r.ws \in Workspaces
        /\ MovesPlace(r.ws, {"empty"}, IF r.status = "trialing" THEN "trial" ELSE "contract")
    BY <1>3, OpenPlace
  <2>2. CASE r.status = "active" /\ UNCHANGED eligibility
    <3>1. MovesPlace(r.ws, {"empty", "trial"}, "contract")
      BY <2>1, <2>2 DEF MovesPlace
    <3> QED  BY <1>b, <1>c, <2>1, <2>2, <3>1 DEF Place!Next, Place!Sign
  <2>3. ASSUME r.status = "trialing", NEW u \in Users, eligibility[u] = None,
               eligibility' = [eligibility EXCEPT ![u] = s]
        PROVE  Place!Try(r.ws, u)
    <3>1. /\ eligibility'[u] = s /\ s # None
          /\ \A v \in Users : v # u => eligibility'[v] = eligibility[v]
      BY <2>3, NoneAssumption DEF IInv, TypeOK
    <3>2. u \notin tried /\ tried' = tried \cup {u}
      BY <2>3, <3>1
    <3>3. MovesPlace(r.ws, {"empty"}, "trial")
      BY <2>1, <2>3
    <3> QED  BY <1>c, <2>1, <3>2, <3>3 DEF Place!Try
  <2> QED  BY <1>3, <2>1, <2>2, <2>3 DEF Opens, Place!Next
<1>4. ASSUME NEW w \in Workspaces, Cancels(w)
      PROVE  [Place!Next]_(Place!vars)
  <2>1. UNCHANGED eligibility
    BY <1>4 DEF Cancels
  <2>2. CASE \A v \in Workspaces : PlaceOf(v)' = PlaceOf(v)
    BY <1>d, <2>1, <2>2
  <2>3. CASE MovesPlace(w, {"trial", "contract"}, "empty")
    BY <1>b, <1>c, <2>1, <2>3 DEF Place!Next, Place!Leave
  <2> QED  BY <1>4, <2>2, <2>3, CancelPlace
<1> QED  BY <1>1, <1>2, <1>3, <1>4, StepWrites DEF Writes

LEMMA PlaceInit == Init => Place!Init
<1> SUFFICES ASSUME Init PROVE Place!Init
  OBVIOUS
<1>1. \A w \in Workspaces : PlaceOf(w) = "empty"
  <2>1. \A w \in Workspaces : CurrentOf(w) = {}
    BY DEF Init, CurrentOf, Contract, Exists
  <2> QED  BY <2>1, PlaceEmpty
<1>2. {u \in Users : eligibility[u] # None} = {}
  BY DEF Init
<1> QED  BY <1>1, <1>2 DEF Place!Init

-----------------------------------------------------------------------------
(* The theorems.                                                           *)

\* The inductive invariant holds of every behaviour, the administration PATCH
\* and two jobs at work on stale lists included.
THEOREM Inductive == Spec => []IInv
<1>1. Init => IInv
  BY InitInv
<1>2. IInv /\ [Next]_vars => IInv'
  BY StepInv
<1> QED  BY <1>1, <1>2, PTL DEF Spec

\* Every document and every job keeps the types of the mongoose schemas.
THEOREM TypeCorrect == Spec => []TypeOK
<1>1. IInv => TypeOK
  BY DEF IInv
<1> QED  BY <1>1, Inductive, PTL

\* The commercial lookups of the entitlement never have a choice: a workspace
\* has at most one contract that is trialing or active.
THEOREM ContractUnique == Spec => []OneCurrentContract
<1>1. IInv => OneCurrentContract
  BY DEF IInv, DocInv
<1> QED  BY <1>1, Inductive, PTL

\* An identity starts one trial in its life, whatever the workspaces, the
\* invitations and the transfers of ownership it goes through.
THEOREM TrialOnce == Spec => []TrialConsumedOnce
<1>1. IInv => TrialConsumedOnce
  BY DEF IInv, DocInv
<1> QED  BY <1>1, Inductive, PTL

\* A downgrade waiting on an active contract is due when the paid period ends.
THEOREM DowngradeAtTermEnd == Spec => []DowngradeDueAtTermEnd
<1>1. IInv => DowngradeDueAtTermEnd
  BY DEF IInv, DocInv, DocumentShape, DowngradeDueAtTermEnd
<1> QED  BY <1>1, Inductive, PTL

\* However late the jobs are, a contract with a term grants nothing past it.
THEOREM NoAccessPastTerm == Spec => []AccessWithinTerm
<1>1. IInv => AccessWithinTerm
  <2> SUFFICES ASSUME IInv, NEW w \in Workspaces, NEW s \in Granting(w, now),
                      subs[s].term = "fixed"
               PROVE  subs[s].end # None /\ subs[s].end > now
    BY DEF AccessWithinTerm
  <2>1. s \in Subs /\ Exists(s) /\ Grants(s, now)
    BY DEF Granting, Contract
  <2>2. subs[s].status = "trialing" => subs[s].end = subs[s].trialEnd
    BY <2>1, DocumentFacts
  <2> QED  BY <2>1, <2>2 DEF Grants
<1> QED  BY <1>1, Inductive, PTL

\* Expiring, finalizing and downgrading are bookkeeping: whatever lists the
\* jobs work from, none of their steps takes away access that is still due.
THEOREM JobsKeepAccess == Spec => JobsNeverWithdrawAccess
<1>1. IInv /\ [Next]_vars =>
        [job' # job =>
           \A w \in Workspaces : Granting(w, now) \subseteq Granting(w, now)']_vars
  BY JobStepKeepsAccess
<1> QED  BY <1>1, Inductive, PTL DEF Spec, JobsNeverWithdrawAccess

\* Whatever jobs overlap and whatever the PATCH did meanwhile, a job gives an
\* active contract only the plan it still waits for, once its period is over.
THEOREM DowngradeAsAsked == Spec => DowngradeStillAsked
<1>1. IInv /\ [Next]_vars =>
        [\A s \in Subs : AppliedDowngrade(s) =>
           /\ subs[s].status = "active" /\ subs[s].change # None
           /\ subs'[s].plan = subs[s].change.target
           /\ subs[s].end <= now]_vars
  <2> SUFFICES ASSUME IInv, [Next]_vars, NEW s \in Subs, AppliedDowngrade(s)
               PROVE  /\ subs[s].status = "active" /\ subs[s].change # None
                      /\ subs'[s].plan = subs[s].change.target
                      /\ subs[s].end <= now
    OBVIOUS
  <2>1. PICK k \in Workers : \E c \in job[k].todo :
          /\ job[k].kind = "downgrade" /\ c.id = s
          /\ job[k].at \in Nat /\ job[k].at <= now /\ now \in Nat
          /\ subs[s].status = "active" /\ subs[s].change # None
          /\ subs[s].end \in Nat /\ subs[s].end <= job[k].at
          /\ subs'[s].plan = subs[s].change.target
          /\ subs'[s].start = c.due
    BY AppliedAsked
  <2> QED  BY <2>1
<1> QED  BY <1>1, Inductive, PTL DEF Spec, DowngradeStillAsked

\* The period of a downgrade starts where the paid one ended, as long as
\* downgrade jobs do not overlap or commands commit at once.  The update compares the target and the
\* date of the job, not the date of its list: with neither condition a PATCH
\* that restores the plan between two overlapping jobs breaks it.
THEOREM DowngradeContiguous == Spec /\ []Separate => DowngradeIsContiguous
<1>1. Init => ListsKept
  BY DEF Init, ListsKept, Idle
<1>2. IInv /\ Separate /\ ListsKept /\ [Next]_vars => ListsKept'
  BY ListsStep
<1>3. IInv /\ ListsKept /\ [Next]_vars =>
        [\A s \in Subs : AppliedDowngrade(s) => subs'[s].start = subs[s].end]_vars
  BY AppliedContiguous
<1> QED  BY <1>1, <1>2, <1>3, Inductive, PTL DEF Spec, DowngradeIsContiguous

\* Nothing is reopened and nothing is forgotten: a contract that is canceled
\* or expired never grants again, and a trial that was consumed stays so.
THEOREM NothingRevives ==
  Spec => [][/\ \A s \in Subs : Exists(s) /\ subs[s].status \in Terminal =>
                  Exists(s)' /\ subs'[s].status \in Terminal
             /\ \A u \in Users : eligibility[u] # None => eligibility'[u] = eligibility[u]]_vars
<1>1. IInv /\ [Next]_vars =>
        [/\ \A s \in Subs : Exists(s) /\ subs[s].status \in Terminal =>
              Exists(s)' /\ subs'[s].status \in Terminal
         /\ \A u \in Users : eligibility[u] # None => eligibility'[u] = eligibility[u]]_vars
  <2> SUFFICES ASSUME IInv, [Next]_vars
               PROVE  /\ \A s \in Subs : Exists(s) /\ subs[s].status \in Terminal =>
                           Exists(s)' /\ subs'[s].status \in Terminal
                      /\ \A u \in Users : eligibility[u] # None => eligibility'[u] = eligibility[u]
    OBVIOUS
  <2>1. CASE UNCHANGED <<subs, eligibility>>
    BY <2>1 DEF Exists
  <2>2. ASSUME NEW s \in Subs, NEW r \in Subscription, Rewrites(s, r) \/ Opens(s, r)
        PROVE  /\ \A t \in Subs : Exists(t) /\ subs[t].status \in Terminal =>
                    Exists(t)' /\ subs'[t].status \in Terminal
               /\ \A u \in Users : eligibility[u] # None => eligibility'[u] = eligibility[u]
    <3>1. /\ r # None /\ subs'[s] = r
          /\ \A t \in Subs : t # s => subs'[t] = subs[t]
      BY <2>2, NoneAssumption DEF Rewrites, Opens, IInv, TypeOK
    <3>2. Exists(s) /\ subs[s].status \in Terminal => r.status \in Terminal
      BY <2>2 DEF Rewrites, Opens, Terminal
    <3>3. \A u \in Users : eligibility[u] # None => eligibility'[u] = eligibility[u]
      BY <2>2 DEF Rewrites, Opens, IInv, TypeOK
    <3> QED  BY <3>1, <3>2, <3>3 DEF Exists
  <2>3. ASSUME NEW w \in Workspaces, Cancels(w)
        PROVE  /\ \A t \in Subs : Exists(t) /\ subs[t].status \in Terminal =>
                    Exists(t)' /\ subs'[t].status \in Terminal
               /\ UNCHANGED eligibility
    BY <2>3 DEF Cancels, CurrentOf, Current, Terminal, Exists
  <2> QED  BY <2>1, <2>2, <2>3, StepWrites DEF Writes
<1> QED  BY <1>1, Inductive, PTL DEF Spec

\* The documents, with their dates, jobs and closures, implement the place a
\* workspace has for one contract and the one trial of an identity.
THEOREM ContractsImplementSlot == Spec => ContractsFillSlot
<1>1. IInv /\ [Next]_vars => [Place!Next]_(Place!vars)
  BY PlaceStep
<1> QED  BY <1>1, PlaceInit, Inductive, PTL DEF Spec, ContractsFillSlot, Place!Spec

=============================================================================
