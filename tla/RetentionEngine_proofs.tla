--------------------------- MODULE RetentionEngine_proofs ---------------------------
(***************************************************************************)
(* TLAPS proofs about RetentionEngine, for every set of processes, every   *)
(* lease, every policy and every number of failures.                       *)
(***************************************************************************)
EXTENDS RetentionEngine, FiniteSetTheorems, TLAPS

-----------------------------------------------------------------------------
(* The inductive invariant.                                                *)

\* The version a worker has read is one that was published, and enabled.
HasVersion(w) ==
    \/ session[w].pc \in {"counting", "creating"} \cup Batching
    \/ w \in Managers /\ session[w].pc \in Locking

Versioned ==
    \A w \in Workers :
        /\ session[w].now <= clock
        /\ HasVersion(w) =>
              /\ session[w].version \in 1..Len(policies)
              /\ policies[session[w].version].enabled
        /\ session[w].pc = "failing" => session[w].error # "none"

\* What a worker knows of an execution: the document has not been saved since
\* only if it is still running.
Known(e, revision) ==
    /\ executions[e].status # "none"
    /\ revision <= executions[e].revision
    /\ revision = executions[e].revision => executions[e].status = "running"

\* A worker in its batches owns an execution that it alone makes succeed.
Owns(w) ==
    LET e == session[w].execution
    IN  /\ e \in Executions
        /\ executions[e].status # "succeeded"
        /\ executions[e].version = session[w].version
        /\ executions[e].scheduled = (w \in Schedulers)
        /\ Known(e, session[w].revision)

Referenced ==
    \A w \in Workers :
        /\ session[w].pc \in Batching => Owns(w)
        /\ session[w].pc \in Locking \cup {"counting"} => session[w].execution = None
        /\ \A e \in Executions :
              session[w].orphans[e] # None => Known(e, session[w].orphans[e])

Distinct ==
    \A v, w \in Workers :
        v # w /\ session[v].pc \in Batching /\ session[w].pc \in Batching
            => session[v].execution # session[w].execution

\* A batch holds logs past the cutoff of its execution.
BatchesOld ==
    \A w \in Workers :
        session[w].pc = "deleting" =>
            \A l \in session[w].batch :
                created[l] # None /\ created[l] <= executions[session[w].execution].cutoff

\* An execution follows a version that was published, and enabled.
Recorded ==
    \A e \in Executions :
        executions[e].status # "none" =>
            /\ executions[e].version \in 1..Len(policies)
            /\ policies[executions[e].version].enabled
            /\ executions[e].startedAt <= clock
            /\ executions[e].cutoff =
                  executions[e].startedAt - policies[executions[e].version].days

Base == TypeOK /\ Versioned /\ Referenced /\ Distinct /\ BatchesOld /\ Recorded

-----------------------------------------------------------------------------
(* Types.                                                                  *)

LEMMA Distinctness == None \notin Nat /\ None \notin Executions /\ None \notin Workers
BY ConstantsAssumption

LEMMA EmptyType == NoExecution \in Execution /\ Idle \in Session
<1>1. NoExecution \in Execution
  BY DEF NoExecution, Execution, Consistent
<1>2. NoOrphans \in [Executions -> Nat \cup {None}]
  BY DEF NoOrphans
<1> QED  BY <1>1, <1>2 DEF Idle, Session

LEMMA InitType == Init => TypeOK
BY EmptyType, ConstantsAssumption DEF Init, TypeOK, Lock, Free, Workers

LEMMA BecomeType ==
  ASSUME TypeOK, NEW w \in Workers, NEW s \in Session, Become(w, s)
  PROVE  /\ session' \in [Workers -> Session]
         /\ session'[w] = s
         /\ \A v \in Workers : v # w => session'[v] = session[v]
BY DEF TypeOK, Become

LEMMA FaultType == TypeOK /\ Fault => faults' \in 0..MaxFaults
BY ConstantsAssumption DEF TypeOK, Fault

\* The record of a session with some fields replaced.
LEMMA SessionType ==
  ASSUME TypeOK, NEW w \in Workers
  PROVE  /\ session[w] \in Session
         /\ session[w].now \in Nat /\ session[w].version \in Nat
         /\ session[w].revision \in Nat /\ session[w].affected \in Nat
         /\ session[w].batches \in Nat /\ session[w].batch \subseteq Logs
         /\ session[w].execution \in Executions \cup {None}
         /\ session[w].orphans \in [Executions -> Nat \cup {None}]
         /\ session[w].pc \in {"idle", "counting", "releasing"} \cup Locking \cup Batching
BY DEF TypeOK, Session

LEMMA ExecutionType ==
  ASSUME TypeOK, NEW e \in Executions
  PROVE  /\ executions[e] \in Execution
         /\ executions[e].revision \in Nat /\ executions[e].affected \in Nat
         /\ executions[e].startedAt \in Nat /\ executions[e].cutoff \in Int
         /\ executions[e].batches \in Nat /\ executions[e].version \in Nat
         /\ Consistent(executions[e])
BY DEF TypeOK, Execution

LEMMA PolicyType ==
  ASSUME TypeOK, NEW v \in 1..Len(policies)
  PROVE  /\ policies[v] \in Config
         /\ policies[v].days \in Nat \ {0} /\ policies[v].interval \in Nat \ {0}
         /\ policies[v].batch \in Nat \ {0} /\ policies[v].batches \in Nat \ {0}
<1>1. policies[v] \in Config
  BY ConstantsAssumption DEF TypeOK
<1> QED  BY <1>1 DEF Config

LEMMA AffectedType ==
  ASSUME TypeOK, NEW b \in SUBSET Logs
  PROVE  Affected(b) \in Nat
<1>1. IsFiniteSet(b \ purged)
  BY ConstantsAssumption, FS_Subset
<1> QED  BY <1>1, FS_CardinalityType DEF Affected

LEMMA ProductNat == \A m, n \in Nat : m * n \in Nat
OBVIOUS

LEMMA MaxAffectedType ==
  ASSUME TypeOK, NEW v \in 1..Len(policies), NEW now \in Nat
  PROVE  MaxAffected(policies[v], now) \in Nat
<1> DEFINE b == Eligible(Cutoff(policies[v], now))
<1>1. b \subseteq Logs
  BY DEF Eligible
<1>2. Cardinality(b) \in Nat
  BY <1>1, ConstantsAssumption, FS_Subset, FS_CardinalityType
<1>3. policies[v].batch \in Nat /\ policies[v].batches \in Nat
  BY PolicyType
<1>4. policies[v].batch * policies[v].batches \in Nat
  <2> HIDE DEF b
  <2> QED  BY <1>3, ProductNat
<1> QED  BY <1>2, <1>4 DEF MaxAffected

LEMMA GotoType ==
  ASSUME TypeOK, NEW w \in Workers,
         NEW pc \in {"idle", "counting", "releasing"} \cup Locking \cup Batching
  PROVE  [session[w] EXCEPT !.pc = pc] \in Session
BY SessionType DEF Session

\* One execution is saved.
LEMMA SaveType ==
  ASSUME TypeOK, NEW e \in Executions, NEW x \in Execution, Save(e, x)
  PROVE  /\ executions' \in [Executions -> Execution]
         /\ executions'[e] = [x EXCEPT !.revision = @ + 1]
         /\ \A d \in Executions : d # e => executions'[d] = executions[d]
<1>1. [x EXCEPT !.revision = @ + 1] \in Execution
  BY DEF Execution, Consistent
<1> QED  BY <1>1 DEF Save, TypeOK

LEMMA InMemoryType ==
  ASSUME TypeOK, NEW w \in Workers, session[w].execution \in Executions,
         executions[session[w].execution].status # "failed" \/ session[w].error # "none"
  PROVE  /\ InMemory(w) \in Execution
         /\ InMemory(w).status = "running" => [InMemory(w) EXCEPT !.status = "succeeded"] \in Execution
         /\ InMemory(w).status # "none" /\ session[w].error # "none" =>
              [InMemory(w) EXCEPT !.status = "failed", !.error = session[w].error] \in Execution
<1> DEFINE e == session[w].execution
<1>1. executions[e] \in Execution
  BY DEF TypeOK
<1>2. session[w].affected \in Nat /\ session[w].batches \in Nat
      /\ session[w].error \in {"none", "LOCK_LOST", "FAILED"}
  BY DEF TypeOK, Session
<1> HIDE DEF e
<1>3. InMemory(w) = [executions[e] EXCEPT !.affected = session[w].affected,
                                         !.batches = session[w].batches]
  BY DEF InMemory, e
<1> QED  BY <1>1, <1>2, <1>3 DEF Execution, Consistent

\* The state a step may change, typed.
Frame == UNCHANGED <<clock, created, policies>>

LEMMA WorkType ==
  ASSUME TypeOK, Frame, purged' \subseteq Logs, lock' \in Lock, faults' \in 0..MaxFaults,
         executions' \in [Executions -> Execution], session' \in [Workers -> Session]
  PROVE  TypeOK'
BY DEF TypeOK, Frame

LEMMA StartScheduledStep ==
  ASSUME Base, NEW w \in Schedulers, StartScheduled(w)
  PROVE  TypeOK' /\ session'[w] = [Idle EXCEPT !.pc = "locking", !.now = clock]
<1>1. [Idle EXCEPT !.pc = "locking", !.now = clock] \in Session
  BY EmptyType DEF Base, TypeOK, Session, Locking
<1> QED  BY <1>1, BecomeType, WorkType
         DEF Base, TypeOK, StartScheduled, environment, Frame, Workers

LEMMA StartManualStep ==
  ASSUME Base, NEW w \in Managers, StartManual(w)
  PROVE  /\ TypeOK'
         /\ session'[w] = [Idle EXCEPT !.pc = "counting", !.now = clock,
                                       !.version = Len(policies)]
<1>1. Len(policies) \in Nat
  BY DEF Base, TypeOK
<1>2. [Idle EXCEPT !.pc = "counting", !.now = clock, !.version = Len(policies)] \in Session
  BY <1>1, EmptyType DEF Base, TypeOK, Session
<1> QED  BY <1>2, BecomeType, WorkType
         DEF Base, TypeOK, StartManual, environment, Frame, Workers

LEMMA CountStep ==
  ASSUME Base, NEW w \in Managers, Count(w)
  PROVE  /\ TypeOK'
         /\ \/ session'[w] = Idle
            \/ session'[w] = [session[w] EXCEPT !.pc = "locking",
                                !.expected = MaxAffected(Snapshot(w), session[w].now)]
<1> DEFINE s == [session[w] EXCEPT !.pc = "locking",
                    !.expected = MaxAffected(Snapshot(w), session[w].now)]
<1>1. w \in Workers /\ session[w].version \in 1..Len(policies)
  BY DEF Count, Base, Versioned, HasVersion, Workers
<1>2. MaxAffected(Snapshot(w), session[w].now) \in Nat
  BY <1>1, MaxAffectedType, SessionType DEF Base, Snapshot
<1>3. s \in Session
  BY <1>1, <1>2, SessionType DEF Base, Session, Locking
<1>4. Become(w, s) \/ Become(w, Idle)
  BY DEF Count
<1> HIDE DEF s
<1>5. session' \in [Workers -> Session] /\ (session'[w] = s \/ session'[w] = Idle)
  BY <1>1, <1>3, <1>4, EmptyType, BecomeType DEF Base
<1> QED  BY <1>5, WorkType DEF s, Base, TypeOK, Count, environment, Frame

LEMMA AcquireStep ==
  ASSUME Base, NEW w \in Workers, Acquire(w)
  PROVE  /\ TypeOK'
         /\ \/ /\ session'[w] = [session[w] EXCEPT !.pc = "closing"]
               /\ lock'.lease = w
            \/ session'[w] = Idle /\ lock' = lock
<1>1. [session[w] EXCEPT !.pc = "closing"] \in Session
  BY GotoType DEF Base, Locking
<1>2. lock' \in Lock
  BY ConstantsAssumption, SessionType DEF Acquire, Base, TypeOK, Lock
<1>3. \/ session'[w] = [session[w] EXCEPT !.pc = "closing"] /\ lock'.lease = w
      \/ session'[w] = Idle /\ lock' = lock
  BY <1>1, EmptyType, BecomeType DEF Acquire, Goto, Base
<1>4. session' \in [Workers -> Session]
  BY <1>1, EmptyType, BecomeType DEF Acquire, Goto, Base
<1> QED  BY <1>2, <1>3, <1>4, WorkType DEF Acquire, Base, TypeOK, environment, Frame

LEMMA RenewStep ==
  ASSUME Base, NEW w \in Workers, Renew(w)
  PROVE  /\ TypeOK'
         /\ \/ /\ Renewable(w) /\ lock'.lease = w
               /\ \E pc \in {"selecting", "renewing", "finishing"} :
                    /\ session'[w] = [session[w] EXCEPT !.batch = {}, !.pc = pc]
                    /\ pc = "selecting" <=> session[w].pc = "renewing"
            \/ /\ ~Renewable(w) /\ lock' = lock
               /\ session'[w] = [session[w] EXCEPT !.pc = "failing", !.error = "LOCK_LOST"]
<1> DEFINE pc == IF session[w].pc = "renewing" THEN "selecting"
                ELSE IF More(w) THEN "renewing" ELSE "finishing"
           s == [session[w] EXCEPT !.batch = {}, !.pc = pc]
           t == [session[w] EXCEPT !.pc = "failing", !.error = "LOCK_LOST"]
<1>0. pc \in {"selecting", "renewing", "finishing"}
      /\ (pc = "selecting" <=> session[w].pc = "renewing")
  <2>1. CASE session[w].pc = "renewing"
    BY <2>1
  <2>2. CASE session[w].pc # "renewing" /\ More(w)
    BY <2>2
  <2>3. CASE session[w].pc # "renewing" /\ ~More(w)
    BY <2>3
  <2> QED  BY <2>1, <2>2, <2>3
<1> HIDE DEF pc
<1>1. s \in Session /\ t \in Session
  BY <1>0, SessionType DEF Base, Session, Batching
<1>2. lock' \in Lock
  BY ConstantsAssumption DEF Renew, Base, TypeOK, Lock
<1>3. \/ Renewable(w) /\ Become(w, s) /\ lock' = [lock EXCEPT !.expires = clock + Lease]
      \/ ~Renewable(w) /\ Become(w, t) /\ lock' = lock
  BY DEF Renew, pc
<1> HIDE DEF s, t
<1>4. /\ session' \in [Workers -> Session]
      /\ \/ Renewable(w) /\ session'[w] = s /\ lock' = [lock EXCEPT !.expires = clock + Lease]
         \/ ~Renewable(w) /\ session'[w] = t /\ lock' = lock
  BY <1>1, <1>3, BecomeType DEF Base
<1>5. TypeOK'
  BY <1>2, <1>4, WorkType DEF Renew, Base, TypeOK, environment, Frame
<1>6. Renewable(w) /\ lock' = [lock EXCEPT !.expires = clock + Lease] => lock'.lease = w
  BY DEF Renewable, Base, TypeOK, Lock
<1> QED  BY <1>0, <1>4, <1>5, <1>6 DEF s, t

LEMMA ReleaseStep ==
  ASSUME Base, NEW w \in Workers, Release(w)
  PROVE  TypeOK' /\ session'[w] = Idle
<1>1. lock' \in Lock
  BY DEF Release, Free, Base, TypeOK, Lock
<1>2. session' \in [Workers -> Session] /\ session'[w] = Idle
  BY EmptyType, BecomeType DEF Release, Base
<1> QED  BY <1>1, <1>2, WorkType DEF Release, Base, TypeOK, environment, Frame

LEMMA FindOrphansStep ==
  ASSUME Base, NEW w \in Workers, FindOrphans(w)
  PROVE  /\ TypeOK'
         /\ session'[w] = [session[w] EXCEPT !.pc = "sweeping",
                !.orphans = [e \in Executions |->
                    IF e \in Running THEN executions[e].revision ELSE None]]
<1> DEFINE o == [e \in Executions |-> IF e \in Running THEN executions[e].revision ELSE None]
           s == [session[w] EXCEPT !.pc = "sweeping", !.orphans = o]
<1>1. o \in [Executions -> Nat \cup {None}]
  BY ExecutionType DEF Base
<1> HIDE DEF o
<1>2. s \in Session
  BY <1>1, SessionType DEF Base, Session, Locking
<1>3. Become(w, s)
  BY DEF FindOrphans, o
<1> HIDE DEF s
<1>4. session' \in [Workers -> Session] /\ session'[w] = s
  BY <1>2, <1>3, BecomeType DEF Base
<1> QED  BY <1>4, WorkType DEF o, s, FindOrphans, Base, TypeOK, environment, Frame

LEMMA CloseOrphanStep ==
  ASSUME Base, NEW w \in Workers, NEW e \in Executions, CloseOrphan(w, e)
  PROVE  /\ TypeOK'
         /\ \/ /\ Fresh(e, session[w].orphans[e])
               /\ executions'[e] = [executions[e] EXCEPT !.status = "failed",
                                        !.error = "INTERRUPTED", !.revision = @ + 1]
               /\ \A d \in Executions : d # e => executions'[d] = executions[d]
               /\ session'[w] = [session[w] EXCEPT !.orphans[e] = None]
            \/ /\ session'[w] = [session[w] EXCEPT !.pc = "releasing"]
               /\ executions' = executions
<1> DEFINE x == [executions[e] EXCEPT !.status = "failed", !.error = "INTERRUPTED"]
           s == [session[w] EXCEPT !.orphans[e] = None]
           t == [session[w] EXCEPT !.pc = "releasing"]
<1>1. t \in Session
  BY GotoType DEF Base
<1>2. s \in Session
  BY SessionType DEF Base, Session
<1>3. \/ Fresh(e, session[w].orphans[e]) /\ Save(e, x) /\ Become(w, s)
      \/ Become(w, t) /\ executions' = executions
  BY DEF CloseOrphan, Goto
<1>4. session' \in [Workers -> Session]
  <2> HIDE DEF s, t
  <2> QED  BY <1>1, <1>2, <1>3, BecomeType DEF Base
<1>5. CASE Fresh(e, session[w].orphans[e]) /\ Save(e, x) /\ Become(w, s)
  <2>1. session[w].orphans[e] # None
    BY <1>5 DEF CloseOrphan, Orphans
  <2>2. executions[e].status = "running"
    BY <1>5, <2>1 DEF Fresh, Known, Base, Referenced
  <2>3. x \in Execution
    BY <2>2, ExecutionType DEF Base, Execution, Consistent
  <2>4. [x EXCEPT !.revision = @ + 1] =
           [executions[e] EXCEPT !.status = "failed", !.error = "INTERRUPTED", !.revision = @ + 1]
    BY ExecutionType DEF Base, Execution
  <2> HIDE DEF x, s
  <2>5. /\ executions' \in [Executions -> Execution]
        /\ executions'[e] = [x EXCEPT !.revision = @ + 1]
        /\ \A d \in Executions : d # e => executions'[d] = executions[d]
    BY <1>5, <2>3, SaveType DEF Base
  <2>6. session'[w] = s
    BY <1>5, <1>2, BecomeType DEF Base
  <2>7. TypeOK'
    BY <1>4, <2>5, WorkType DEF CloseOrphan, Base, TypeOK, environment, Frame
  <2> QED  BY <1>5, <2>4, <2>5, <2>6, <2>7 DEF s
<1>6. CASE Become(w, t) /\ executions' = executions
  <2> HIDE DEF x, t
  <2>1. session'[w] = t
    BY <1>6, <1>1, BecomeType DEF Base
  <2>2. TypeOK'
    BY <1>4, <1>6, WorkType DEF CloseOrphan, Base, TypeOK, environment, Frame
  <2> QED  BY <1>6, <2>1, <2>2 DEF t
<1> QED  BY <1>3, <1>5, <1>6

LEMMA DecideStep ==
  ASSUME Base, NEW w \in Schedulers, Decide(w)
  PROVE  /\ TypeOK'
         /\ \/ /\ Scheduled /\ ~NotDue(Len(policies), session[w].now)
               /\ session'[w] = [session[w] EXCEPT !.pc = "creating", !.version = Len(policies)]
            \/ session'[w] = [session[w] EXCEPT !.pc = "releasing"]
<1> DEFINE s == [session[w] EXCEPT !.pc = "creating", !.version = Len(policies)]
           t == [session[w] EXCEPT !.pc = "releasing"]
<1>1. w \in Workers /\ Len(policies) \in Nat
  BY DEF Base, TypeOK, Workers
<1>2. s \in Session /\ t \in Session
  BY <1>1, SessionType DEF Base, Session, Locking
<1>3. \/ Scheduled /\ ~NotDue(Len(policies), session[w].now) /\ Become(w, s)
      \/ Become(w, t)
  BY DEF Decide, Goto
<1> HIDE DEF s, t
<1>4. /\ session' \in [Workers -> Session]
      /\ \/ Scheduled /\ ~NotDue(Len(policies), session[w].now) /\ session'[w] = s
         \/ session'[w] = t
  BY <1>1, <1>2, <1>3, BecomeType DEF Base
<1> QED  BY <1>4, WorkType DEF s, t, Decide, Base, TypeOK, environment, Frame

\* The version a run follows when it creates its execution.
LEMMA Following ==
  ASSUME Base, NEW w \in Workers, HasVersion(w)
  PROVE  /\ session[w].version \in 1..Len(policies)
         /\ Snapshot(w) = policies[session[w].version]
         /\ Snapshot(w).enabled
         /\ Snapshot(w).days \in Nat \ {0} /\ Snapshot(w).interval \in Nat \ {0}
         /\ session[w].now <= clock
BY PolicyType DEF Base, Versioned, Snapshot

\* The document a worker creates.
Created(w) ==
    [NoExecution EXCEPT
        !.status = "running", !.version = session[w].version,
        !.scheduled = (w \in Schedulers), !.startedAt = session[w].now,
        !.cutoff = Cutoff(Snapshot(w), session[w].now),
        !.expected = session[w].expected]

LEMMA NewExecutionType ==
  ASSUME NEW v \in Nat, NEW scheduled \in BOOLEAN, NEW now \in Nat, NEW cutoff \in Int,
         NEW expected \in Nat, cutoff < now
  PROVE  [NoExecution EXCEPT !.status = "running", !.version = v, !.scheduled = scheduled,
                             !.startedAt = now, !.cutoff = cutoff, !.expected = expected]
            \in Execution
BY DEF NoExecution, Execution, Consistent

LEMMA CreateStep ==
  ASSUME Base, NEW w \in Workers, Create(w)
  PROVE  /\ TypeOK' /\ HasVersion(w)
         /\ \/ \E e \in Executions :
                 /\ executions[e].status = "none"
                 /\ executions'[e] = Created(w)
                 /\ \A d \in Executions : d # e => executions'[d] = executions[d]
                 /\ session'[w] = [session[w] EXCEPT !.pc = "renewing", !.execution = e,
                                                     !.revision = 0]
            \/ /\ executions' = executions
               /\ session'[w] = [session[w] EXCEPT !.pc = "releasing"]
<1>1. HasVersion(w)
  BY DEF Create, Swept, HasVersion, Locking
<1> DEFINE unused == {d \in Executions : executions[d].status = "none"}
           e == CHOOSE d \in unused : TRUE
           s == [session[w] EXCEPT !.pc = "renewing", !.execution = e, !.revision = 0]
           t == [session[w] EXCEPT !.pc = "releasing"]
<1>2. CASE unused # {}
  <2>1. e \in Executions /\ executions[e].status = "none"
    BY <1>2
  <2>2. executions' = [executions EXCEPT ![e] = Created(w)] /\ Become(w, s)
    BY <1>2 DEF Create, Created
  <2> HIDE DEF e
  <2>3. s \in Session
    BY <2>1, SessionType DEF Base, Session, Batching
  <2>4. Created(w) \in Execution
    <3>1. /\ session[w].version \in Nat /\ session[w].now \in Nat
          /\ session[w].expected \in Nat
      BY DEF Base, TypeOK, Session
    <3>2. /\ Cutoff(Snapshot(w), session[w].now) \in Int
          /\ Cutoff(Snapshot(w), session[w].now) < session[w].now
      BY <1>1, <3>1, Following DEF Cutoff
    <3>3. (w \in Schedulers) \in BOOLEAN
      OBVIOUS
    <3> QED  BY <3>1, <3>2, <3>3, NewExecutionType DEF Created
  <2>5. /\ executions' \in [Executions -> Execution]
        /\ executions'[e] = Created(w)
        /\ \A d \in Executions : d # e => executions'[d] = executions[d]
    BY <2>1, <2>2, <2>4 DEF Base, TypeOK
  <2> HIDE DEF s
  <2>6. session' \in [Workers -> Session] /\ session'[w] = s
    BY <2>2, <2>3, BecomeType DEF Base
  <2>7. TypeOK'
    BY <2>5, <2>6, WorkType DEF Create, Base, TypeOK, environment, Frame
  <2> QED  BY <1>1, <2>1, <2>5, <2>6, <2>7 DEF s
<1>3. CASE unused = {}
  <2>1. executions' = executions /\ Become(w, t)
    BY <1>3 DEF Create, Goto
  <2>2. t \in Session
    BY GotoType DEF Base
  <2> HIDE DEF t
  <2>3. session' \in [Workers -> Session] /\ session'[w] = t
    BY <2>1, <2>2, BecomeType DEF Base
  <2>4. TypeOK'
    BY <2>1, <2>3, WorkType DEF Create, Base, TypeOK, environment, Frame
  <2> QED  BY <1>1, <2>1, <2>3, <2>4 DEF t
<1> QED  BY <1>2, <1>3

LEMMA SelectStep ==
  ASSUME Base, NEW w \in Workers, Select(w)
  PROVE  /\ TypeOK'
         /\ \E b \in Batches(executions[session[w].execution].cutoff, Snapshot(w).batch) :
               session'[w] = [session[w] EXCEPT !.batch = b,
                                !.pc = IF b = {} THEN "finishing" ELSE "deleting"]
<1> PICK b \in Batches(executions[session[w].execution].cutoff, Snapshot(w).batch) :
           Become(w, [session[w] EXCEPT !.batch = b,
                        !.pc = IF b = {} THEN "finishing" ELSE "deleting"])
  BY DEF Select
<1> DEFINE s == [session[w] EXCEPT !.batch = b,
                    !.pc = IF b = {} THEN "finishing" ELSE "deleting"]
<1>1. b \subseteq Logs
  BY DEF Batches, Earliest, Eligible
<1>2. s \in Session
  BY <1>1, SessionType DEF Base, Session, Batching
<1>3. Become(w, s)
  OBVIOUS
<1> HIDE DEF s
<1>4. session' \in [Workers -> Session] /\ session'[w] = s
  BY <1>2, <1>3, BecomeType DEF Base
<1>5. TypeOK'
  BY <1>4, WorkType DEF Select, Base, TypeOK, environment, Frame
<1> QED  BY <1>4, <1>5 DEF s

LEMMA DeleteStep ==
  ASSUME Base, NEW w \in Workers, Delete(w)
  PROVE  /\ TypeOK'
         /\ session'[w] = [session[w] EXCEPT !.pc = "saving", !.batches = @ + 1,
                             !.affected = @ + Affected(session[w].batch)]
<1> DEFINE s == [session[w] EXCEPT !.pc = "saving", !.batches = @ + 1,
                    !.affected = @ + Affected(session[w].batch)]
<1>1. Affected(session[w].batch) \in Nat
  BY AffectedType, SessionType DEF Base
<1>2. s \in Session
  <2>1. /\ session[w] \in Session /\ session[w].batches + 1 \in Nat
        /\ session[w].affected + Affected(session[w].batch) \in Nat
    BY <1>1, SessionType DEF Base
  <2>2. \A b, a \in Nat : [session[w] EXCEPT !.pc = "saving", !.batches = b,
                                            !.affected = a] \in Session
    BY <2>1 DEF Session, Batching
  <2>3. s = [session[w] EXCEPT !.pc = "saving", !.batches = session[w].batches + 1,
               !.affected = session[w].affected + Affected(session[w].batch)]
    BY <2>1 DEF Session
  <2> QED  BY <2>1, <2>2, <2>3
<1>3. Become(w, s)
  BY DEF Delete
<1>4. purged' \subseteq Logs
  BY SessionType DEF Delete, Base, TypeOK
<1> HIDE DEF s
<1>5. session' \in [Workers -> Session] /\ session'[w] = s
  BY <1>2, <1>3, BecomeType DEF Base
<1>6. TypeOK'
  BY <1>4, <1>5, WorkType DEF Delete, Base, TypeOK, environment, Frame
<1> QED  BY <1>5, <1>6 DEF s

LEMMA DeleteUnansweredStep ==
  ASSUME Base, NEW w \in Workers, DeleteUnanswered(w)
  PROVE  /\ TypeOK'
         /\ session'[w] = [session[w] EXCEPT !.pc = "failing", !.error = "FAILED"]
<1> DEFINE s == [session[w] EXCEPT !.pc = "failing", !.error = "FAILED"]
<1>1. s \in Session
  BY SessionType DEF Base, Session, Batching
<1>2. Become(w, s)
  BY DEF DeleteUnanswered
<1>3. purged' \subseteq Logs /\ faults' \in 0..MaxFaults
  BY SessionType, FaultType DEF DeleteUnanswered, Base, TypeOK
<1> HIDE DEF s
<1>4. session' \in [Workers -> Session] /\ session'[w] = s
  BY <1>1, <1>2, BecomeType DEF Base
<1>5. TypeOK'
  BY <1>3, <1>4, WorkType DEF DeleteUnanswered, Base, TypeOK, environment, Frame
<1> QED  BY <1>4, <1>5 DEF s

\* What a save of its own execution writes: the document stays what it is but
\* for its status, its counters and its revision.
Saves(w, status) ==
    LET e == session[w].execution
    IN  /\ Fresh(e, session[w].revision)
        /\ executions'[e].status = status
        /\ executions'[e].revision = executions[e].revision + 1
        /\ executions'[e].version = executions[e].version
        /\ executions'[e].scheduled = executions[e].scheduled
        /\ executions'[e].startedAt = executions[e].startedAt
        /\ executions'[e].cutoff = executions[e].cutoff
        /\ \A d \in Executions : d # e => executions'[d] = executions[d]

LEMMA OwnSave ==
  ASSUME Base, NEW w \in Workers, session[w].pc \in Batching,
         Fresh(session[w].execution, session[w].revision),
         NEW status, NEW x \in Execution, x.status = status,
         x.revision = executions[session[w].execution].revision,
         x.version = executions[session[w].execution].version,
         x.scheduled = executions[session[w].execution].scheduled,
         x.startedAt = executions[session[w].execution].startedAt,
         x.cutoff = executions[session[w].execution].cutoff,
         Save(session[w].execution, x)
  PROVE  executions' \in [Executions -> Execution] /\ Saves(w, status)
<1>1. session[w].execution \in Executions
  BY DEF Base, Referenced, Owns
<1>2. /\ executions' \in [Executions -> Execution]
      /\ executions'[session[w].execution] = [x EXCEPT !.revision = @ + 1]
      /\ \A d \in Executions : d # session[w].execution => executions'[d] = executions[d]
  BY <1>1, SaveType DEF Base
<1>3. [x EXCEPT !.revision = @ + 1].revision = x.revision + 1
  BY DEF Execution
<1>4. \A r : /\ [x EXCEPT !.revision = r].status = x.status
             /\ [x EXCEPT !.revision = r].version = x.version
             /\ [x EXCEPT !.revision = r].scheduled = x.scheduled
             /\ [x EXCEPT !.revision = r].startedAt = x.startedAt
             /\ [x EXCEPT !.revision = r].cutoff = x.cutoff
  BY DEF Execution
<1> QED  BY <1>2, <1>3, <1>4 DEF Saves

LEMMA OwnMemory ==
  ASSUME Base, NEW w \in Workers, session[w].pc \in Batching,
         Fresh(session[w].execution, session[w].revision)
  PROVE  LET e == session[w].execution
             x == InMemory(w)
         IN  /\ e \in Executions /\ executions[e].status = "running"
             /\ x \in Execution /\ x.status = "running"
             /\ x.revision = executions[e].revision
             /\ x.version = executions[e].version
             /\ x.scheduled = executions[e].scheduled
             /\ x.startedAt = executions[e].startedAt
             /\ x.cutoff = executions[e].cutoff
<1>1. session[w].execution \in Executions /\ executions[session[w].execution].status = "running"
  BY DEF Base, Referenced, Owns, Known, Fresh
<1>2. InMemory(w) \in Execution
  BY <1>1, InMemoryType DEF Base
<1>3. executions[session[w].execution] \in Execution
  BY <1>1 DEF Base, TypeOK
<1> QED  BY <1>1, <1>2, <1>3 DEF InMemory, Execution

\* The two outcomes of a save, and the session after it.
LEMMA SaveBatchStep ==
  ASSUME Base, NEW w \in Workers, SaveBatch(w)
  PROVE  /\ TypeOK'
         /\ \/ /\ Saves(w, "running")
               /\ session'[w] = [session[w] EXCEPT !.pc = "confirming", !.revision = @ + 1]
            \/ /\ executions' = executions
               /\ session'[w] = [session[w] EXCEPT !.pc = "failing", !.error = "FAILED"]
<1> DEFINE s == [session[w] EXCEPT !.pc = "confirming", !.revision = @ + 1]
           t == [session[w] EXCEPT !.pc = "failing", !.error = "FAILED"]
           e == session[w].execution
<1>1. s \in Session /\ t \in Session
  <2>1. session[w] \in Session /\ session[w].revision + 1 \in Nat
    BY SessionType DEF Base
  <2>2. \A r \in Nat : [session[w] EXCEPT !.pc = "confirming", !.revision = r] \in Session
    BY <2>1 DEF Session, Batching
  <2>3. t \in Session
    BY <2>1 DEF Session, Batching
  <2>4. s = [session[w] EXCEPT !.pc = "confirming", !.revision = session[w].revision + 1]
    BY <2>1 DEF Session
  <2> QED  BY <2>1, <2>2, <2>3, <2>4
<1>2. \/ Fresh(e, session[w].revision) /\ Save(e, InMemory(w)) /\ Become(w, s)
      \/ executions' = executions /\ Become(w, t)
  BY DEF SaveBatch
<1>3. session[w].pc \in Batching
  BY DEF SaveBatch, Batching
<1> HIDE DEF s, t
<1>4. CASE Fresh(e, session[w].revision) /\ Save(e, InMemory(w)) /\ Become(w, s)
  <2>1. executions' \in [Executions -> Execution] /\ Saves(w, "running")
    BY <1>3, <1>4, OwnMemory, OwnSave
  <2>2. session' \in [Workers -> Session] /\ session'[w] = s
    BY <1>1, <1>4, BecomeType DEF Base
  <2>3. TypeOK'
    BY <2>1, <2>2, WorkType DEF SaveBatch, Base, TypeOK, environment, Frame
  <2> QED  BY <2>1, <2>2, <2>3 DEF s
<1>5. CASE executions' = executions /\ Become(w, t)
  <2>1. session' \in [Workers -> Session] /\ session'[w] = t
    BY <1>1, <1>5, BecomeType DEF Base
  <2>2. TypeOK'
    BY <1>5, <2>1, WorkType DEF SaveBatch, Base, TypeOK, environment, Frame
  <2> QED  BY <1>5, <2>1, <2>2 DEF t
<1> QED  BY <1>2, <1>4, <1>5

LEMMA FinishStep ==
  ASSUME Base, NEW w \in Workers, Finish(w)
  PROVE  /\ TypeOK'
         /\ \/ /\ Saves(w, "succeeded")
               /\ session'[w] = [session[w] EXCEPT !.pc = "releasing"]
            \/ /\ executions' = executions
               /\ session'[w] = [session[w] EXCEPT !.pc = "failing", !.error = "FAILED"]
<1> DEFINE s == [session[w] EXCEPT !.pc = "releasing"]
           t == [session[w] EXCEPT !.pc = "failing", !.error = "FAILED"]
           e == session[w].execution
           x == [InMemory(w) EXCEPT !.status = "succeeded"]
<1>1. s \in Session /\ t \in Session
  BY SessionType DEF Base, Session, Batching
<1>2. \/ Fresh(e, session[w].revision) /\ Save(e, x) /\ Become(w, s)
      \/ executions' = executions /\ Become(w, t)
  BY DEF Finish, Goto
<1>3. session[w].pc \in Batching
  BY DEF Finish, Batching
<1> HIDE DEF s, t
<1>4. CASE Fresh(e, session[w].revision) /\ Save(e, x) /\ Become(w, s)
  <2>1. x \in Execution
    BY <1>3, <1>4, OwnMemory DEF Execution, Consistent
  <2>2. /\ x.status = "succeeded" /\ x.revision = executions[e].revision
        /\ x.version = executions[e].version /\ x.scheduled = executions[e].scheduled
        /\ x.startedAt = executions[e].startedAt /\ x.cutoff = executions[e].cutoff
    BY <1>3, <1>4, OwnMemory DEF Execution
  <2> HIDE DEF x
  <2>3. executions' \in [Executions -> Execution] /\ Saves(w, "succeeded")
    BY <1>3, <1>4, <2>1, <2>2, OwnSave
  <2>4. session' \in [Workers -> Session] /\ session'[w] = s
    BY <1>1, <1>4, BecomeType DEF Base
  <2>5. TypeOK'
    BY <2>3, <2>4, WorkType DEF Finish, Base, TypeOK, environment, Frame
  <2> QED  BY <2>3, <2>4, <2>5 DEF s
<1>5. CASE executions' = executions /\ Become(w, t)
  <2>1. session' \in [Workers -> Session] /\ session'[w] = t
    BY <1>1, <1>5, BecomeType DEF Base
  <2>2. TypeOK'
    BY <1>5, <2>1, WorkType DEF Finish, Base, TypeOK, environment, Frame
  <2> QED  BY <1>5, <2>1, <2>2 DEF t
<1> QED  BY <1>2, <1>4, <1>5

LEMMA FailStep ==
  ASSUME Base, NEW w \in Workers, Fail(w)
  PROVE  /\ TypeOK'
         /\ session'[w] = [session[w] EXCEPT !.pc = "releasing"]
         /\ Saves(w, "failed") \/ executions' = executions
<1> DEFINE s == [session[w] EXCEPT !.pc = "releasing"]
           e == session[w].execution
           x == [InMemory(w) EXCEPT !.status = "failed", !.error = session[w].error]
<1>1. session[w].pc \in Batching /\ session[w].error \in {"LOCK_LOST", "FAILED"}
  BY DEF Fail, Batching, Base, Versioned, TypeOK, Session
<1>2. session' \in [Workers -> Session] /\ session'[w] = s
  BY GotoType, BecomeType DEF Fail, Goto, Base
<1> HIDE DEF s
<1>3. CASE Fresh(e, session[w].revision)
  <2>1. x \in Execution
    BY <1>1, <1>3, OwnMemory DEF Execution, Consistent
  <2>2. /\ x.status = "failed" /\ x.revision = executions[e].revision
        /\ x.version = executions[e].version /\ x.scheduled = executions[e].scheduled
        /\ x.startedAt = executions[e].startedAt /\ x.cutoff = executions[e].cutoff
    BY <1>1, <1>3, OwnMemory DEF Execution
  <2>3. Save(e, x)
    BY <1>3 DEF Fail
  <2> HIDE DEF x
  <2>4. executions' \in [Executions -> Execution] /\ Saves(w, "failed")
    BY <1>1, <1>3, <2>1, <2>2, <2>3, OwnSave
  <2>5. TypeOK'
    BY <1>2, <2>4, WorkType DEF Fail, Base, TypeOK, environment, Frame
  <2> QED  BY <1>2, <2>4, <2>5 DEF s
<1>4. CASE ~Fresh(e, session[w].revision)
  <2>1. executions' = executions
    BY <1>4 DEF Fail
  <2>2. TypeOK'
    BY <1>2, <2>1, WorkType DEF Fail, Base, TypeOK, environment, Frame
  <2> QED  BY <1>2, <2>1, <2>2 DEF s
<1> QED  BY <1>3, <1>4

LEMMA ThrowStep ==
  ASSUME Base, NEW w \in Workers, Throw(w)
  PROVE  /\ TypeOK'
         /\ \/ session'[w] = Idle
            \/ /\ session[w].pc \in Batching
               /\ session'[w] = [session[w] EXCEPT !.pc = "failing", !.error = "FAILED"]
            \/ session'[w] = [session[w] EXCEPT !.pc = "releasing"]
<1> DEFINE s == [session[w] EXCEPT !.pc = "failing", !.error = "FAILED"]
           t == [session[w] EXCEPT !.pc = "releasing"]
<1>1. s \in Session /\ t \in Session
  BY SessionType DEF Base, Session, Batching
<1>2. \/ Become(w, Idle)
      \/ session[w].pc \in Batching /\ Become(w, s)
      \/ Become(w, t)
  BY DEF Throw, Batching
<1>3. faults' \in 0..MaxFaults
  BY FaultType DEF Throw, Base
<1> HIDE DEF s, t
<1>4. /\ session' \in [Workers -> Session]
      /\ \/ session'[w] = Idle
         \/ session[w].pc \in Batching /\ session'[w] = s
         \/ session'[w] = t
  BY <1>1, <1>2, EmptyType, BecomeType DEF Base
<1>5. TypeOK'
  BY <1>3, <1>4, WorkType DEF Throw, Base, TypeOK, environment, Frame
<1> QED  BY <1>4, <1>5 DEF s, t

LEMMA CrashStep ==
  ASSUME Base, NEW w \in Workers, Crash(w)
  PROVE  TypeOK' /\ session'[w] = Idle
<1>1. session' \in [Workers -> Session] /\ session'[w] = Idle
  BY EmptyType, BecomeType DEF Crash, Base
<1>2. faults' \in 0..MaxFaults
  BY FaultType DEF Crash, Base
<1> QED  BY <1>1, <1>2, WorkType DEF Crash, Base, TypeOK, environment, Frame

-----------------------------------------------------------------------------
(* What a step does to the executions.                                     *)

\* A stored execution keeps what it is, and one that has ended never changes.
Evolves ==
    \A e \in Executions :
        executions[e].status # "none" =>
            /\ executions'[e].status # "none"
            /\ executions'[e].version = executions[e].version
            /\ executions'[e].scheduled = executions[e].scheduled
            /\ executions'[e].startedAt = executions[e].startedAt
            /\ executions'[e].cutoff = executions[e].cutoff
            /\ \/ executions'[e] = executions[e]
               \/ /\ executions[e].status = "running"
                  /\ executions'[e].revision > executions[e].revision

LEMMA SameEvolves == executions' = executions => Evolves
BY DEF Evolves

LEMMA SavesEvolves ==
  ASSUME Base, NEW w \in Workers, session[w].pc \in Batching,
         NEW status \in {"running", "succeeded", "failed"}, Saves(w, status)
  PROVE  /\ Evolves
         /\ session[w].execution \in Executions
         /\ executions[session[w].execution].status = "running"
<1>1. /\ session[w].execution \in Executions
      /\ executions[session[w].execution].status = "running"
      /\ executions[session[w].execution].revision \in Nat
  BY ExecutionType DEF Base, Referenced, Owns, Known, Saves, Fresh
<1> QED  BY <1>1 DEF Saves, Evolves

LEMMA CloseEvolves ==
  ASSUME Base, NEW w \in Workers, NEW e \in Executions, CloseOrphan(w, e)
  PROVE  /\ Evolves
         /\ executions' = executions \/ executions'[e].status = "failed"
         /\ \A d \in Executions : d # e => executions'[d] = executions[d]
<1>1. CASE executions' = executions
  BY <1>1, SameEvolves
<1>2. CASE executions' # executions
  <2>1. /\ Fresh(e, session[w].orphans[e]) /\ session[w].orphans[e] # None
        /\ executions'[e] = [executions[e] EXCEPT !.status = "failed",
                                 !.error = "INTERRUPTED", !.revision = @ + 1]
        /\ \A d \in Executions : d # e => executions'[d] = executions[d]
    BY <1>2, CloseOrphanStep DEF CloseOrphan, Orphans
  <2>2. executions[e].status = "running"
    BY <2>1 DEF Base, Referenced, Known, Fresh
  <2>3. executions[e] \in Execution /\ executions[e].revision \in Nat
    BY ExecutionType DEF Base
  <2>4. /\ executions'[e].status = "failed"
        /\ executions'[e].revision = executions[e].revision + 1
        /\ executions'[e].version = executions[e].version
        /\ executions'[e].scheduled = executions[e].scheduled
        /\ executions'[e].startedAt = executions[e].startedAt
        /\ executions'[e].cutoff = executions[e].cutoff
    BY <2>1, <2>3 DEF Execution
  <2>5. executions'[e].revision > executions[e].revision
    BY <2>3, <2>4
  <2> QED  BY <2>1, <2>2, <2>4, <2>5 DEF Evolves
<1> QED  BY <1>1, <1>2

LEMMA CreateEvolves ==
  ASSUME Base, NEW w \in Workers, Create(w)
  PROVE  Evolves
<1>1. \/ executions' = executions
      \/ \E e \in Executions :
            /\ executions[e].status = "none"
            /\ \A d \in Executions : d # e => executions'[d] = executions[d]
  BY CreateStep
<1> QED  BY <1>1 DEF Evolves

LEMMA KnownKept ==
  ASSUME TypeOK, TypeOK', Evolves, NEW e \in Executions, NEW r \in Nat, Known(e, r)
  PROVE  Known(e, r)'
<1>1. executions[e].revision \in Nat /\ executions'[e].revision \in Nat
  BY DEF TypeOK, Execution
<1>2. \/ executions'[e] = executions[e]
      \/ executions'[e].revision > executions[e].revision
  BY DEF Evolves, Known
<1>3. executions'[e].status # "none"
  BY DEF Evolves, Known
<1> QED  BY <1>1, <1>2, <1>3 DEF Known

LEMMA OwnsKept ==
  ASSUME Base, TypeOK', Evolves, NEW w \in Workers, Owns(w),
         session'[w].execution = session[w].execution,
         session'[w].version = session[w].version,
         session'[w].revision = session[w].revision,
         executions'[session[w].execution].status # "succeeded"
  PROVE  Owns(w)'
<1>1. session[w].execution \in Executions /\ session[w].revision \in Nat
  BY DEF Owns, Base, TypeOK, Session
<1>2. Known(session[w].execution, session[w].revision)'
  BY <1>1, KnownKept DEF Owns, Base
<1>3. Known(session[w].execution, session[w].revision)
  BY DEF Owns
<1> QED  BY <1>1, <1>2, <1>3 DEF Owns, Evolves, Known

-----------------------------------------------------------------------------
(* The step of one worker.                                                 *)

Others(w) == \A v \in Workers : v # w => session'[v] = session[v]

\* Only its owner makes an execution succeed.
NoSteal(w) ==
    \A v \in Workers :
        v # w /\ session[v].pc \in Batching
            => executions'[session[v].execution].status # "succeeded"

\* What the worker itself must find after its step.
Version(w) ==
    /\ session'[w].now <= clock
    /\ HasVersion(w)' =>
          /\ session'[w].version \in 1..Len(policies)
          /\ policies[session'[w].version].enabled
    /\ session'[w].pc = "failing" => session'[w].error # "none"

Holding(w) ==
    /\ session'[w].pc \in Batching => Owns(w)'
    /\ session'[w].pc \in Locking \cup {"counting"} => session'[w].execution = None
    /\ \A e \in Executions :
          session'[w].orphans[e] # None => Known(e, session[w].orphans[e])'
    /\ session'[w].pc \in Batching =>
          \/ session[w].pc \in Batching /\ session'[w].execution = session[w].execution
          \/ executions[session'[w].execution].status = "none"
    /\ session'[w].pc = "deleting" =>
          \A l \in session'[w].batch :
              created[l] # None /\ created[l] <= executions'[session'[w].execution].cutoff

NewRecorded ==
    \A e \in Executions :
        executions[e].status = "none" /\ executions'[e].status # "none" =>
            /\ executions'[e].version \in 1..Len(policies)
            /\ policies[executions'[e].version].enabled
            /\ executions'[e].startedAt <= clock
            /\ executions'[e].cutoff =
                  executions'[e].startedAt - policies[executions'[e].version].days

LEMMA Assemble ==
  ASSUME Base, TypeOK', Frame, NEW w \in Workers, Others(w), Evolves, NoSteal(w),
         Version(w), Holding(w), NewRecorded
  PROVE  Base'
<1>1. Versioned'
  <2> SUFFICES ASSUME NEW v \in Workers
               PROVE  /\ session'[v].now <= clock'
                      /\ HasVersion(v)' =>
                            /\ session'[v].version \in 1..Len(policies')
                            /\ policies'[session'[v].version].enabled
                      /\ session'[v].pc = "failing" => session'[v].error # "none"
    BY DEF Versioned
  <2>1. CASE v = w
    BY <2>1 DEF Version, Frame
  <2>2. CASE v # w
    <3>1. session'[v] = session[v]
      BY <2>2 DEF Others
    <3>2. HasVersion(v)' => HasVersion(v)
      BY <3>1 DEF HasVersion
    <3> QED  BY <3>1, <3>2 DEF Base, Versioned, Frame
  <2> QED  BY <2>1, <2>2
<1>2. Referenced'
  <2> SUFFICES ASSUME NEW v \in Workers
               PROVE  /\ session'[v].pc \in Batching => Owns(v)'
                      /\ session'[v].pc \in Locking \cup {"counting"} => session'[v].execution = None
                      /\ \A e \in Executions :
                            session'[v].orphans[e] # None => Known(e, session[v].orphans[e])'
    BY DEF Referenced
  <2>1. CASE v = w
    BY <2>1 DEF Holding
  <2>2. CASE v # w
    <3>1. session'[v] = session[v]
      BY <2>2 DEF Others
    <3>2. session[v].pc \in Batching => Owns(v)'
      BY <2>2, <3>1, OwnsKept DEF Base, Referenced, NoSteal
    <3>3. ASSUME NEW e \in Executions, session'[v].orphans[e] # None
          PROVE  Known(e, session[v].orphans[e])'
      <4>1. session[v].orphans[e] \in Nat
        BY <3>1, <3>3, SessionType DEF Base
      <4>2. Known(e, session[v].orphans[e])
        BY <3>1, <3>3 DEF Base, Referenced
      <4>3. PICK r \in Nat : r = session[v].orphans[e] /\ r = session'[v].orphans[e]
        BY <4>1, <3>1
      <4>4. Known(e, r)
        BY <4>2, <4>3
      <4>5. Known(e, r)'
        BY <4>4, KnownKept DEF Base
      <4> QED  BY <4>3, <4>5
    <3>4. session[v].pc \in Locking \cup {"counting"} => session[v].execution = None
      BY DEF Base, Referenced
    <3> QED  BY <3>1, <3>2, <3>3, <3>4
  <2> QED  BY <2>1, <2>2
<1>3. Distinct'
  <2> SUFFICES ASSUME NEW u \in Workers, NEW v \in Workers, u # v,
                      session'[u].pc \in Batching, session'[v].pc \in Batching
               PROVE  session'[u].execution # session'[v].execution
    BY DEF Distinct
  <2>1. ASSUME NEW x \in Workers, x # w, session'[x].pc \in Batching,
               session'[w].pc \in Batching
        PROVE  session'[x].execution # session'[w].execution
    <3>1. session'[x] = session[x] /\ session[x].pc \in Batching
      BY <2>1 DEF Others
    <3>2. executions[session[x].execution].status # "none"
      BY <3>1 DEF Base, Referenced, Owns, Known
    <3> QED  BY <2>1, <3>1, <3>2 DEF Holding, Base, Distinct
  <2>2. CASE u = w
    BY <2>1, <2>2
  <2>3. CASE v = w
    BY <2>1, <2>3
  <2>4. CASE u # w /\ v # w
    BY <2>4 DEF Others, Base, Distinct
  <2> QED  BY <2>2, <2>3, <2>4
<1>4. BatchesOld'
  <2> SUFFICES ASSUME NEW v \in Workers, session'[v].pc = "deleting"
               PROVE  \A l \in session'[v].batch :
                         created'[l] # None
                         /\ created'[l] <= executions'[session'[v].execution].cutoff
    BY DEF BatchesOld
  <2>1. CASE v = w
    BY <2>1 DEF Holding, Frame
  <2>2. CASE v # w
    <3>1. session'[v] = session[v]
      BY <2>2 DEF Others
    <3>2. session[v].execution \in Executions /\ executions[session[v].execution].status # "none"
      BY <3>1 DEF Base, Referenced, Owns, Known, Batching
    <3> QED  BY <3>1, <3>2 DEF Evolves, Base, BatchesOld, Frame
  <2> QED  BY <2>1, <2>2
<1>5. Recorded'
  BY DEF Recorded, Evolves, NewRecorded, Base, Frame
<1> QED  BY <1>1, <1>2, <1>3, <1>4, <1>5 DEF Base

-----------------------------------------------------------------------------
(* The parts of a step of one worker, by kind of step.                     *)

LEMMA OthersStay ==
  ASSUME NEW w \in Workers, NEW s, Become(w, s), TypeOK
  PROVE  Others(w)
BY DEF Become, Others, TypeOK

LEMMA NoStealSame ==
  ASSUME Base, NEW w \in Workers, executions' = executions
  PROVE  NoSteal(w) /\ NewRecorded /\ Evolves
BY SameEvolves DEF Base, Referenced, Owns, NoSteal, NewRecorded

LEMMA NoStealSaves ==
  ASSUME Base, NEW w \in Workers, session[w].pc \in Batching,
         NEW status \in {"running", "succeeded", "failed"}, Saves(w, status)
  PROVE  NoSteal(w) /\ NewRecorded /\ Evolves
<1>1. Evolves /\ executions[session[w].execution].status = "running"
  BY SavesEvolves
<1>2. NoSteal(w)
  BY DEF Base, Referenced, Owns, Distinct, Saves, NoSteal
<1>3. NewRecorded
  BY <1>1 DEF Saves, NewRecorded
<1> QED  BY <1>1, <1>2, <1>3

LEMMA OrphansKept ==
  ASSUME Base, TypeOK', Evolves, NEW w \in Workers, session'[w].orphans = session[w].orphans
  PROVE  \A e \in Executions :
            session'[w].orphans[e] # None => Known(e, session[w].orphans[e])'
<1> SUFFICES ASSUME NEW e \in Executions, session'[w].orphans[e] # None
             PROVE  Known(e, session[w].orphans[e])'
  OBVIOUS
<1>1. session[w].orphans[e] \in Nat
  BY SessionType DEF Base
<1>2. PICK r \in Nat : r = session[w].orphans[e] /\ r = session'[w].orphans[e]
  BY <1>1
<1>3. Known(e, r)
  BY <1>2 DEF Base, Referenced
<1>4. Known(e, r)'
  BY <1>3, KnownKept DEF Base
<1> QED  BY <1>2, <1>4

LEMMA ToIdle ==
  ASSUME Base, NEW w \in Workers, session'[w] = Idle
  PROVE  Version(w) /\ Holding(w)
<1>1. \A e \in Executions : session'[w].orphans[e] = None
  BY DEF Idle, NoOrphans
<1>2. /\ session'[w].pc = "idle" /\ session'[w].now = 0
      /\ session'[w].pc \notin Batching /\ session'[w].pc \notin Locking
  BY DEF Idle, Batching, Locking
<1>3. clock \in Nat
  BY DEF Base, TypeOK
<1> QED  BY <1>1, <1>2, <1>3 DEF Version, Holding, HasVersion

LEMMA ToReleasing ==
  ASSUME Base, TypeOK', Evolves, NEW w \in Workers,
         session'[w] = [session[w] EXCEPT !.pc = "releasing"]
  PROVE  Version(w) /\ Holding(w)
<1>1. session[w] \in Session
  BY DEF Base, TypeOK
<1>2. /\ session'[w].pc = "releasing" /\ session'[w].now = session[w].now
      /\ session'[w].orphans = session[w].orphans
      /\ session'[w].pc \notin Batching /\ session'[w].pc \notin Locking
  BY <1>1 DEF Session, Batching, Locking
<1>3. session[w].now <= clock
  BY DEF Base, Versioned
<1> QED  BY <1>2, <1>3, OrphansKept DEF Version, Holding, HasVersion

\* A worker goes on with its execution.
Onward(w) ==
    /\ session[w].pc \in Batching /\ session'[w].pc \in Batching
    /\ session'[w].now = session[w].now
    /\ session'[w].version = session[w].version
    /\ session'[w].orphans = session[w].orphans
    /\ session'[w].execution = session[w].execution
    /\ session'[w].pc = "failing" => session'[w].error # "none"

LEMMA ToBatching ==
  ASSUME Base, TypeOK', Evolves, NEW w \in Workers, Onward(w), Owns(w)',
         session'[w].pc = "deleting" =>
            \A l \in session'[w].batch :
                created[l] # None /\ created[l] <= executions'[session[w].execution].cutoff
  PROVE  Version(w) /\ Holding(w)
<1>1. /\ session[w].now <= clock
      /\ session[w].version \in 1..Len(policies)
      /\ policies[session[w].version].enabled
  BY DEF Onward, Base, Versioned, HasVersion
<1>2. session'[w].pc \notin Locking \cup {"counting"}
  BY DEF Onward, Batching, Locking
<1> QED  BY <1>1, <1>2, OrphansKept DEF Onward, Version, Holding

LEMMA ToFailing ==
  ASSUME Base, TypeOK', NEW w \in Workers, executions' = executions,
         session[w].pc \in Batching, NEW error \in {"LOCK_LOST", "FAILED"},
         session'[w] = [session[w] EXCEPT !.pc = "failing", !.error = error]
  PROVE  Version(w) /\ Holding(w)
<1>1. session[w] \in Session
  BY DEF Base, TypeOK
<1>2. Onward(w) /\ session'[w].pc = "failing" /\ session'[w].revision = session[w].revision
  BY <1>1 DEF Session, Batching, Onward
<1>3. Owns(w)
  BY DEF Base, Referenced
<1>4. Evolves
  BY SameEvolves
<1>5. Owns(w)'
  BY <1>2, <1>3, <1>4, OwnsKept DEF Onward, Owns
<1> QED  BY <1>2, <1>4, <1>5, ToBatching

LEMMA ToLocking ==
  ASSUME Base, TypeOK', executions' = executions, NEW w \in Workers,
         session'[w].pc \in Locking,
         session[w].pc \in Locking \cup {"counting"},
         session'[w].now = session[w].now,
         session'[w].execution = None,
         session'[w].orphans = session[w].orphans,
         HasVersion(w)' =>
            /\ session'[w].version \in 1..Len(policies)
            /\ policies[session'[w].version].enabled
  PROVE  Version(w) /\ Holding(w)
<1>1. session[w].now <= clock
  BY DEF Base, Versioned
<1>2. session'[w].pc \notin Batching /\ session'[w].pc # "failing" /\ session'[w].pc # "deleting"
  BY DEF Batching, Locking
<1>3. Evolves
  BY SameEvolves
<1> QED  BY <1>1, <1>2, <1>3, OrphansKept DEF Version, Holding

-----------------------------------------------------------------------------
(* The invariant of each action.                                           *)

LEMMA StartScheduledBase ==
  ASSUME Base, NEW w \in Schedulers, StartScheduled(w)
  PROVE  Base'
<1>1. TypeOK' /\ session'[w] = [Idle EXCEPT !.pc = "locking", !.now = clock]
  BY StartScheduledStep
<1>2. w \in Workers /\ w \notin Managers
  BY ConstantsAssumption DEF Workers
<1>3. Frame /\ executions' = executions /\ Others(w)
  BY <1>2, OthersStay DEF StartScheduled, environment, Frame, Base
<1>4. /\ session'[w].pc = "locking" /\ session'[w].now = clock
      /\ session'[w].execution = None
      /\ \A e \in Executions : session'[w].orphans[e] = None
  BY <1>1 DEF Idle, NoOrphans
<1>5. clock <= clock
  BY DEF Base, TypeOK
<1>6. Version(w) /\ Holding(w)
  BY <1>2, <1>4, <1>5 DEF Version, Holding, HasVersion, Batching, Locking
<1> QED  BY <1>1, <1>2, <1>3, <1>6, NoStealSame, Assemble

LEMMA StartManualBase ==
  ASSUME Base, NEW w \in Managers, StartManual(w)
  PROVE  Base'
<1>1. /\ TypeOK'
      /\ session'[w] = [Idle EXCEPT !.pc = "counting", !.now = clock, !.version = Len(policies)]
  BY StartManualStep
<1>2. w \in Workers
  BY DEF Workers
<1>3. Frame /\ executions' = executions /\ Others(w)
  BY <1>2, OthersStay DEF StartManual, environment, Frame, Base
<1>4. /\ session'[w].pc = "counting" /\ session'[w].now = clock
      /\ session'[w].execution = None /\ session'[w].version = Len(policies)
      /\ \A e \in Executions : session'[w].orphans[e] = None
  BY <1>1 DEF Idle, NoOrphans
<1>5. Len(policies) \in 1..Len(policies) /\ policies[Len(policies)].enabled
  BY DEF StartManual, Current, Base, TypeOK
<1>6. clock <= clock
  BY DEF Base, TypeOK
<1>7. Version(w) /\ Holding(w)
  BY <1>4, <1>5, <1>6 DEF Version, Holding, Batching, Locking
<1> QED  BY <1>1, <1>2, <1>3, <1>7, NoStealSame, Assemble

LEMMA CountBase ==
  ASSUME Base, NEW w \in Managers, Count(w)
  PROVE  Base'
<1>1. w \in Workers /\ Frame /\ executions' = executions
  BY DEF Count, environment, Frame, Workers
<1>2. Others(w)
  BY <1>1, OthersStay DEF Count, Base
<1>3. TypeOK'
  BY CountStep
<1>4. CASE session'[w] = Idle
  BY <1>1, <1>2, <1>3, <1>4, ToIdle, NoStealSame, Assemble
<1>5. CASE session'[w] # Idle
  <2>1. session[w] \in Session
    BY <1>1 DEF Base, TypeOK
  <2>2. /\ session'[w].pc = "locking" /\ session'[w].now = session[w].now
        /\ session'[w].execution = session[w].execution
        /\ session'[w].orphans = session[w].orphans
        /\ session'[w].version = session[w].version
    BY <1>5, <2>1, CountStep DEF Session
  <2>3. session[w].pc = "counting"
    BY DEF Count
  <2>4. /\ session[w].execution = None
        /\ session[w].version \in 1..Len(policies) /\ policies[session[w].version].enabled
    BY <1>1, <2>3 DEF Base, Referenced, Versioned, HasVersion
  <2>5. session'[w].pc \in Locking /\ session[w].pc \in Locking \cup {"counting"}
    BY <2>2, <2>3 DEF Locking
  <2>6. Version(w) /\ Holding(w)
    BY <1>1, <1>3, <2>2, <2>4, <2>5, ToLocking
  <2> QED  BY <1>1, <1>2, <1>3, <2>6, NoStealSame, Assemble
<1> QED  BY <1>4, <1>5

LEMMA AcquireBase ==
  ASSUME Base, NEW w \in Workers, Acquire(w)
  PROVE  Base'
<1>1. Frame /\ executions' = executions
  BY DEF Acquire, environment, Frame
<1>2. Others(w)
  BY OthersStay DEF Acquire, Goto, Base
<1>3. TypeOK'
  BY AcquireStep
<1>4. CASE session'[w] = Idle
  BY <1>1, <1>2, <1>3, <1>4, ToIdle, NoStealSame, Assemble
<1>5. CASE session'[w] # Idle
  <2>1. session[w] \in Session
    BY DEF Base, TypeOK
  <2>2. /\ session'[w].pc = "closing" /\ session'[w].now = session[w].now
        /\ session'[w].execution = session[w].execution
        /\ session'[w].orphans = session[w].orphans
        /\ session'[w].version = session[w].version
    BY <1>5, <2>1, AcquireStep DEF Session
  <2>3. session[w].pc = "locking"
    BY DEF Acquire
  <2>4. session'[w].pc \in Locking /\ session[w].pc \in Locking
    BY <2>2, <2>3 DEF Locking
  <2>5. session[w].execution = None
    BY <2>4 DEF Base, Referenced
  <2>6. HasVersion(w)' => HasVersion(w)
    BY <2>2, <2>4 DEF HasVersion, Locking, Batching
  <2>7. Version(w) /\ Holding(w)
    BY <1>1, <1>3, <2>2, <2>4, <2>5, <2>6, ToLocking DEF Base, Versioned
  <2> QED  BY <1>1, <1>2, <1>3, <2>7, NoStealSame, Assemble
<1> QED  BY <1>4, <1>5

LEMMA RenewBase ==
  ASSUME Base, NEW w \in Workers, Renew(w)
  PROVE  Base'
<1>1. Frame /\ executions' = executions /\ session[w].pc \in Batching
  BY DEF Renew, environment, Frame, Batching
<1>2. Others(w)
  BY OthersStay DEF Renew, Base
<1>3. TypeOK'
  BY RenewStep
<1>4. Evolves
  BY <1>1, SameEvolves
<1>5. CASE session'[w] = [session[w] EXCEPT !.pc = "failing", !.error = "LOCK_LOST"]
  BY <1>1, <1>2, <1>3, <1>5, ToFailing, NoStealSame, Assemble
<1>6. ASSUME NEW pc \in {"selecting", "renewing", "finishing"},
             session'[w] = [session[w] EXCEPT !.batch = {}, !.pc = pc]
      PROVE  Base'
  <2>1. session[w] \in Session
    BY DEF Base, TypeOK
  <2>2. /\ Onward(w) /\ session'[w].pc = pc /\ session'[w].revision = session[w].revision
    BY <1>1, <1>6, <2>1 DEF Session, Batching, Onward
  <2>3. Owns(w)
    BY <1>1 DEF Base, Referenced
  <2>4. Owns(w)'
    BY <1>1, <1>3, <1>4, <2>2, <2>3, OwnsKept DEF Onward, Owns
  <2>5. Version(w) /\ Holding(w)
    BY <1>3, <1>4, <2>2, <2>4, ToBatching
  <2> QED  BY <1>1, <1>2, <1>3, <2>5, NoStealSame, Assemble
<1> QED  BY <1>5, <1>6, RenewStep

LEMMA ReleaseBase ==
  ASSUME Base, NEW w \in Workers, Release(w) \/ Crash(w)
  PROVE  Base'
<1>1. Frame /\ executions' = executions /\ Others(w)
  BY OthersStay DEF Release, Crash, environment, Frame, Base
<1>2. TypeOK' /\ session'[w] = Idle
  BY ReleaseStep, CrashStep
<1> QED  BY <1>1, <1>2, ToIdle, NoStealSame, Assemble

LEMMA FindOrphansBase ==
  ASSUME Base, NEW w \in Workers, FindOrphans(w)
  PROVE  Base'
<1>1. Frame /\ executions' = executions /\ Others(w) /\ session[w].pc = "closing"
  BY OthersStay DEF FindOrphans, environment, Frame, Base
<1>2. /\ TypeOK'
      /\ session'[w] = [session[w] EXCEPT !.pc = "sweeping",
                !.orphans = [e \in Executions |->
                    IF e \in Running THEN executions[e].revision ELSE None]]
  BY FindOrphansStep
<1>3. session[w] \in Session
  BY DEF Base, TypeOK
<1>4. /\ session'[w].pc = "sweeping" /\ session'[w].now = session[w].now
      /\ session'[w].execution = session[w].execution
      /\ session'[w].version = session[w].version
      /\ session'[w].orphans = [e \in Executions |->
                    IF e \in Running THEN executions[e].revision ELSE None]
  BY <1>2, <1>3 DEF Session
<1>5. session[w].execution = None /\ session[w].now <= clock
  BY <1>1 DEF Base, Referenced, Versioned, Locking
<1>6. HasVersion(w)' => HasVersion(w)
  BY <1>1, <1>4 DEF HasVersion, Locking, Batching
<1>7. ASSUME NEW e \in Executions, session'[w].orphans[e] # None
      PROVE  Known(e, session[w].orphans[e])'
  <2>1. executions[e].status = "running" /\ session'[w].orphans[e] = executions[e].revision
    BY <1>4, <1>7 DEF Running
  <2>2. executions[e].revision \in Nat
    BY ExecutionType DEF Base
  <2> QED  BY <1>1, <2>1, <2>2 DEF Known
<1>8. Version(w) /\ Holding(w)
  BY <1>4, <1>5, <1>6, <1>7 DEF Version, Holding, Base, Versioned, Batching, Locking
<1> QED  BY <1>1, <1>2, <1>8, NoStealSame, Assemble

LEMMA CloseOrphanBase ==
  ASSUME Base, NEW w \in Workers, NEW e \in Executions, CloseOrphan(w, e)
  PROVE  Base'
<1>1. Frame /\ Others(w) /\ session[w].pc = "sweeping"
  BY OthersStay DEF CloseOrphan, Goto, environment, Frame, Base
<1>2. TypeOK'
  BY CloseOrphanStep
<1>3. Evolves /\ NoSteal(w) /\ NewRecorded
  <2>1. /\ Evolves
        /\ executions' = executions \/ executions'[e].status = "failed"
        /\ \A d \in Executions : d # e => executions'[d] = executions[d]
    BY CloseEvolves
  <2>2. executions' # executions => executions[e].status # "none"
    <3>1. CASE executions' # executions
      <4>1. session[w].orphans[e] # None
        BY DEF CloseOrphan, Orphans
      <4> QED  BY <4>1 DEF Base, Referenced, Known
    <3> QED  BY <3>1
  <2>3. NoSteal(w)
    BY <2>1 DEF NoSteal, Base, Referenced, Owns
  <2>4. NewRecorded
    BY <2>1, <2>2 DEF NewRecorded
  <2> QED  BY <2>1, <2>3, <2>4
<1>4. CASE session'[w] = [session[w] EXCEPT !.pc = "releasing"]
  BY <1>1, <1>2, <1>3, <1>4, ToReleasing, Assemble
<1>5. CASE session'[w] = [session[w] EXCEPT !.orphans[e] = None]
  <2>1. session[w] \in Session
    BY DEF Base, TypeOK
  <2>2. /\ session'[w].pc = "sweeping" /\ session'[w].now = session[w].now
        /\ session'[w].execution = session[w].execution
        /\ session'[w].version = session[w].version
        /\ session'[w].orphans = [session[w].orphans EXCEPT ![e] = None]
    BY <1>1, <1>5, <2>1 DEF Session
  <2>3. session[w].execution = None /\ session[w].now <= clock
    BY <1>1 DEF Base, Referenced, Versioned, Locking
  <2>4. HasVersion(w)' => HasVersion(w)
    BY <1>1, <2>2 DEF HasVersion
  <2>5. ASSUME NEW d \in Executions, session'[w].orphans[d] # None
        PROVE  Known(d, session[w].orphans[d])'
    <3>1. d # e /\ session'[w].orphans[d] = session[w].orphans[d]
      BY <2>2, <2>5, SessionType DEF Base
    <3>2. session[w].orphans[d] \in Nat
      BY <2>5, <3>1, SessionType DEF Base
    <3>3. PICK r \in Nat : r = session[w].orphans[d] /\ r = session'[w].orphans[d]
      BY <3>1, <3>2
    <3>4. Known(d, r)
      BY <2>5, <3>1, <3>3 DEF Base, Referenced
    <3>5. Known(d, r)'
      BY <1>2, <1>3, <3>4, KnownKept DEF Base
    <3> QED  BY <3>3, <3>5
  <2>6. Version(w) /\ Holding(w)
    BY <2>2, <2>3, <2>4, <2>5 DEF Version, Holding, Base, Versioned, Batching, Locking
  <2> QED  BY <1>1, <1>2, <1>3, <2>6, Assemble
<1> QED  BY <1>4, <1>5, CloseOrphanStep

LEMMA DecideBase ==
  ASSUME Base, NEW w \in Schedulers, Decide(w)
  PROVE  Base'
<1>1. w \in Workers /\ w \notin Managers /\ session[w].pc = "sweeping"
  BY ConstantsAssumption DEF Workers, Decide, Swept
<1>2. Frame /\ executions' = executions /\ Others(w)
  BY <1>1, OthersStay DEF Decide, Goto, environment, Frame, Base
<1>3. TypeOK' /\ Evolves
  BY <1>2, DecideStep, SameEvolves
<1>4. CASE session'[w] = [session[w] EXCEPT !.pc = "releasing"]
  BY <1>1, <1>2, <1>3, <1>4, ToReleasing, NoStealSame, Assemble
<1>5. CASE /\ Scheduled
           /\ session'[w] = [session[w] EXCEPT !.pc = "creating", !.version = Len(policies)]
  <2>1. session[w] \in Session
    BY <1>1 DEF Base, TypeOK
  <2>2. /\ session'[w].pc = "creating" /\ session'[w].now = session[w].now
        /\ session'[w].execution = session[w].execution
        /\ session'[w].version = Len(policies)
        /\ session'[w].orphans = session[w].orphans
    BY <1>5, <2>1 DEF Session
  <2>3. Len(policies) \in 1..Len(policies) /\ policies[Len(policies)].enabled
    BY <1>5 DEF Scheduled, Current, Base, TypeOK
  <2>4. session[w].pc \in Locking /\ session'[w].pc \in Locking
    BY <1>1, <2>2 DEF Locking
  <2>5. session[w].execution = None
    BY <1>1, <2>4 DEF Base, Referenced
  <2>6. Version(w) /\ Holding(w)
    BY <1>1, <1>2, <1>3, <2>2, <2>3, <2>4, <2>5, ToLocking
  <2> QED  BY <1>1, <1>2, <1>3, <2>6, NoStealSame, Assemble
<1> QED  BY <1>4, <1>5, DecideStep

LEMMA CreateBase ==
  ASSUME Base, NEW w \in Workers, Create(w)
  PROVE  Base'
<1>1. Frame /\ Others(w)
  BY OthersStay DEF Create, Goto, environment, Frame, Base
<1>2. TypeOK' /\ Evolves /\ HasVersion(w)
  BY CreateStep, CreateEvolves
<1>3. CASE /\ executions' = executions
           /\ session'[w] = [session[w] EXCEPT !.pc = "releasing"]
  BY <1>1, <1>2, <1>3, ToReleasing, NoStealSame, Assemble
<1>4. ASSUME NEW e \in Executions,
             executions[e].status = "none",
             executions'[e] = Created(w),
             \A d \in Executions : d # e => executions'[d] = executions[d],
             session'[w] = [session[w] EXCEPT !.pc = "renewing", !.execution = e,
                                              !.revision = 0]
      PROVE  Base'
  <2>1. session[w] \in Session
    BY DEF Base, TypeOK
  <2>2. /\ session'[w].pc = "renewing" /\ session'[w].now = session[w].now
        /\ session'[w].execution = e /\ session'[w].revision = 0
        /\ session'[w].version = session[w].version
        /\ session'[w].orphans = session[w].orphans
    BY <1>4, <2>1 DEF Session
  <2>3. /\ executions'[e].status = "running" /\ executions'[e].revision = 0
        /\ executions'[e].version = session[w].version
        /\ executions'[e].scheduled = (w \in Schedulers)
        /\ executions'[e].startedAt = session[w].now
        /\ executions'[e].cutoff = session[w].now - Snapshot(w).days
    BY <1>4 DEF Created, NoExecution, Cutoff
  <2>4. Owns(w)'
    BY <1>4, <2>2, <2>3 DEF Owns, Known
  <2>5. NoSteal(w)
    BY <1>4 DEF NoSteal, Base, Referenced, Owns, Known
  <2>6. NewRecorded
    BY <1>2, <1>4, <2>3, Following DEF NewRecorded
  <2>7. Version(w) /\ Holding(w)
    <3>1. session'[w].pc \in Batching /\ session'[w].pc \notin Locking \cup {"counting"}
      BY <2>2 DEF Batching, Locking
    <3>2. Version(w)
      BY <1>2, <2>2, Following DEF Version
    <3>3. Holding(w)
      BY <1>2, <1>4, <2>2, <2>4, <3>1, OrphansKept DEF Holding
    <3> QED  BY <3>2, <3>3
  <2> QED  BY <1>1, <1>2, <2>5, <2>6, <2>7, Assemble
<1> QED  BY <1>3, <1>4, CreateStep

LEMMA SelectBase ==
  ASSUME Base, NEW w \in Workers, Select(w)
  PROVE  Base'
<1>1. Frame /\ executions' = executions /\ Others(w) /\ session[w].pc \in Batching
  <2>1. Others(w)
    BY OthersStay DEF Select, Base
  <2> QED  BY <2>1 DEF Select, environment, Frame, Batching
<1>2. TypeOK' /\ Evolves
  BY <1>1, SelectStep, SameEvolves
<1> PICK b \in Batches(executions[session[w].execution].cutoff, Snapshot(w).batch) :
            session'[w] = [session[w] EXCEPT !.batch = b,
                                !.pc = IF b = {} THEN "finishing" ELSE "deleting"]
  BY SelectStep
<1>3. session[w] \in Session
  BY DEF Base, TypeOK
<1>4. Onward(w) /\ session'[w].batch = b /\ session'[w].revision = session[w].revision
  BY <1>1, <1>3 DEF Session, Batching, Onward
<1>5. Owns(w)
  BY <1>1 DEF Base, Referenced
<1>6. Owns(w)'
  BY <1>1, <1>2, <1>4, <1>5, OwnsKept DEF Onward, Owns
<1>7. \A l \in b : created[l] # None /\ created[l] <= executions[session[w].execution].cutoff
  BY DEF Batches, Earliest, Eligible
<1>8. Version(w) /\ Holding(w)
  BY <1>1, <1>2, <1>4, <1>6, <1>7, ToBatching
<1> QED  BY <1>1, <1>2, <1>8, NoStealSame, Assemble

LEMMA DeleteBase ==
  ASSUME Base, NEW w \in Workers, Delete(w)
  PROVE  Base'
<1>1. Frame /\ executions' = executions /\ Others(w) /\ session[w].pc \in Batching
  <2>1. Others(w)
    BY OthersStay DEF Delete, Base
  <2> QED  BY <2>1 DEF Delete, environment, Frame, Batching
<1>2. TypeOK' /\ Evolves
  BY <1>1, DeleteStep, SameEvolves
<1>3. session[w] \in Session
  BY DEF Base, TypeOK
<1>4. Onward(w) /\ session'[w].pc = "saving" /\ session'[w].revision = session[w].revision
  BY <1>1, <1>3, DeleteStep DEF Session, Batching, Onward
<1>5. Owns(w)
  BY <1>1 DEF Base, Referenced
<1>6. Owns(w)'
  BY <1>1, <1>2, <1>4, <1>5, OwnsKept DEF Onward, Owns
<1>7. Version(w) /\ Holding(w)
  BY <1>2, <1>4, <1>6, ToBatching
<1> QED  BY <1>1, <1>2, <1>7, NoStealSame, Assemble

LEMMA DeleteUnansweredBase ==
  ASSUME Base, NEW w \in Workers, DeleteUnanswered(w)
  PROVE  Base'
<1>1. Frame /\ executions' = executions /\ Others(w) /\ session[w].pc \in Batching
  <2>1. Others(w)
    BY OthersStay DEF DeleteUnanswered, Base
  <2> QED  BY <2>1 DEF DeleteUnanswered, environment, Frame, Batching
<1> QED  BY <1>1, DeleteUnansweredStep, ToFailing, NoStealSame, Assemble

LEMMA SaveBatchBase ==
  ASSUME Base, NEW w \in Workers, SaveBatch(w)
  PROVE  Base'
<1>1. Frame /\ Others(w) /\ session[w].pc \in Batching
  <2>1. Others(w)
    BY OthersStay DEF SaveBatch, Base
  <2> QED  BY <2>1 DEF SaveBatch, environment, Frame, Batching
<1>2. TypeOK'
  BY SaveBatchStep
<1>3. CASE /\ executions' = executions
           /\ session'[w] = [session[w] EXCEPT !.pc = "failing", !.error = "FAILED"]
  BY <1>1, <1>2, <1>3, ToFailing, NoStealSame, Assemble
<1>4. CASE /\ Saves(w, "running")
           /\ session'[w] = [session[w] EXCEPT !.pc = "confirming", !.revision = @ + 1]
  <2>1. Evolves /\ NoSteal(w) /\ NewRecorded
    BY <1>1, <1>4, NoStealSaves
  <2>2. session[w] \in Session
    BY DEF Base, TypeOK
  <2>3. /\ Onward(w) /\ session'[w].pc = "confirming"
        /\ session'[w].revision = session[w].revision + 1
    BY <1>1, <1>4, <2>2 DEF Session, Batching, Onward
  <2>4. Owns(w) /\ session[w].revision \in Nat
    BY <1>1, <2>2 DEF Base, Referenced, Session
  <2>5. Owns(w)'
    BY <1>4, <2>3, <2>4 DEF Owns, Known, Saves, Fresh, Onward
  <2>6. Version(w) /\ Holding(w)
    BY <1>2, <2>1, <2>3, <2>5, ToBatching
  <2> QED  BY <1>1, <1>2, <2>1, <2>6, Assemble
<1> QED  BY <1>3, <1>4, SaveBatchStep

LEMMA FinishBase ==
  ASSUME Base, NEW w \in Workers, Finish(w)
  PROVE  Base'
<1>1. Frame /\ Others(w) /\ session[w].pc \in Batching
  <2>1. Others(w)
    BY OthersStay DEF Finish, Goto, Base
  <2> QED  BY <2>1 DEF Finish, environment, Frame, Batching
<1>2. TypeOK'
  BY FinishStep
<1>3. CASE /\ executions' = executions
           /\ session'[w] = [session[w] EXCEPT !.pc = "failing", !.error = "FAILED"]
  BY <1>1, <1>2, <1>3, ToFailing, NoStealSame, Assemble
<1>4. CASE Saves(w, "succeeded") /\ session'[w] = [session[w] EXCEPT !.pc = "releasing"]
  <2>1. Evolves /\ NoSteal(w) /\ NewRecorded
    BY <1>1, <1>4, NoStealSaves
  <2> QED  BY <1>1, <1>2, <1>4, <2>1, ToReleasing, Assemble
<1> QED  BY <1>3, <1>4, FinishStep

LEMMA FailBase ==
  ASSUME Base, NEW w \in Workers, Fail(w)
  PROVE  Base'
<1>1. Frame /\ Others(w) /\ session[w].pc \in Batching
  <2>1. Others(w)
    BY OthersStay DEF Fail, Goto, Base
  <2> QED  BY <2>1 DEF Fail, environment, Frame, Batching
<1>2. Evolves /\ NoSteal(w) /\ NewRecorded
  BY <1>1, FailStep, NoStealSaves, NoStealSame
<1> QED  BY <1>1, <1>2, FailStep, ToReleasing, Assemble

LEMMA ThrowBase ==
  ASSUME Base, NEW w \in Workers, Throw(w)
  PROVE  Base'
<1>1. Frame /\ executions' = executions /\ Others(w)
  BY OthersStay DEF Throw, environment, Frame, Base
<1>2. TypeOK' /\ Evolves
  BY <1>1, ThrowStep, SameEvolves
<1>3. CASE session'[w] = Idle
  BY <1>1, <1>2, <1>3, ToIdle, NoStealSame, Assemble
<1>4. CASE /\ session[w].pc \in Batching
           /\ session'[w] = [session[w] EXCEPT !.pc = "failing", !.error = "FAILED"]
  BY <1>1, <1>2, <1>4, ToFailing, NoStealSame, Assemble
<1>5. CASE session'[w] = [session[w] EXCEPT !.pc = "releasing"]
  BY <1>1, <1>2, <1>5, ToReleasing, NoStealSame, Assemble
<1> QED  BY <1>3, <1>4, <1>5, ThrowStep

\* The environment only makes time, versions and logs more numerous.
LEMMA EnvironmentBase ==
  ASSUME Base, PublishPolicy \/ Tick \/ (\E l \in Logs : WriteLog(l))
  PROVE  Base' /\ UNCHANGED <<purged, lock, executions, session>>
<1>1. UNCHANGED <<purged, lock, executions, session, faults>>
  BY DEF PublishPolicy, Tick, WriteLog
<1>2. /\ clock \in Nat /\ clock' \in Nat /\ clock' >= clock
      /\ policies' \in Seq(Configs) /\ Len(policies) \in Nat /\ Len(policies') \in Nat
      /\ Len(policies') >= Len(policies)
      /\ \A v \in 1..Len(policies) : policies'[v] = policies[v]
      /\ created' \in [Logs -> Nat \cup {None}]
      /\ \A l \in Logs : created[l] # None => created'[l] = created[l]
  <2>0. TypeOK
    BY DEF Base
  <2>1. CASE PublishPolicy
    BY <2>0, <2>1 DEF PublishPolicy, TypeOK
  <2>2. CASE Tick
    BY <2>0, <2>2 DEF Tick, TypeOK
  <2>3. CASE \E l \in Logs : WriteLog(l)
    BY <2>0, <2>3 DEF WriteLog, TypeOK
  <2> QED  BY <2>1, <2>2, <2>3
<1>3. TypeOK'
  BY <1>1, <1>2 DEF Base, TypeOK
<1>4. Versioned'
  <2> SUFFICES ASSUME NEW w \in Workers
               PROVE  /\ session'[w].now <= clock'
                      /\ HasVersion(w)' =>
                            /\ session'[w].version \in 1..Len(policies')
                            /\ policies'[session'[w].version].enabled
                      /\ session'[w].pc = "failing" => session'[w].error # "none"
    BY DEF Versioned
  <2>1. session'[w] = session[w] /\ session[w].now \in Nat
    BY <1>1, SessionType DEF Base
  <2>2. HasVersion(w)' => HasVersion(w)
    BY <2>1 DEF HasVersion
  <2> QED  BY <1>2, <2>1, <2>2 DEF Base, Versioned
<1>5. Referenced'
  BY <1>1 DEF Base, Referenced, Owns, Known
<1>6. Distinct'
  BY <1>1 DEF Base, Distinct
<1>7. BatchesOld'
  BY <1>1, <1>2, SessionType DEF Base, BatchesOld
<1>8. Recorded'
  <2> SUFFICES ASSUME NEW e \in Executions, executions[e].status # "none"
               PROVE  /\ executions[e].version \in 1..Len(policies')
                      /\ policies'[executions[e].version].enabled
                      /\ executions[e].startedAt <= clock'
                      /\ executions[e].cutoff =
                           executions[e].startedAt - policies'[executions[e].version].days
    BY <1>1 DEF Recorded
  <2>1. executions[e].startedAt \in Nat
    BY ExecutionType DEF Base
  <2> QED  BY <1>2, <2>1 DEF Base, Recorded
<1> QED  BY <1>1, <1>3, <1>4, <1>5, <1>6, <1>7, <1>8 DEF Base

LEMMA InitBase == Init => Base
<1> SUFFICES ASSUME Init PROVE Base
  OBVIOUS
<1>1. TypeOK
  BY InitType
<1>2. \A w \in Workers : session[w] = Idle
  BY DEF Init
<1>3. \A e \in Executions : executions[e].status = "none"
  BY DEF Init, NoExecution
<1>4. /\ Idle.pc = "idle" /\ Idle.now = 0 /\ clock = 0
      /\ \A e \in Executions : Idle.orphans[e] = None
  BY DEF Init, Idle, NoOrphans
<1>5. Versioned
  BY <1>2, <1>4 DEF Versioned, HasVersion, Batching, Locking
<1>6. Referenced /\ Distinct /\ BatchesOld
  BY <1>2, <1>4 DEF Referenced, Distinct, BatchesOld, Batching, Locking
<1>7. Recorded
  BY <1>3 DEF Recorded
<1> QED  BY <1>1, <1>5, <1>6, <1>7 DEF Base

\* The steps of one worker, and those of the environment.
WorkerStep(w) ==
    \/ w \in Schedulers /\ (StartScheduled(w) \/ Decide(w))
    \/ w \in Managers /\ (StartManual(w) \/ Count(w))
    \/ Work(w) \/ DeleteUnanswered(w) \/ Throw(w) \/ Crash(w)

Environment == PublishPolicy \/ Tick \/ \E l \in Logs : WriteLog(l)

LEMMA NextSteps == Next => Environment \/ \E w \in Workers : WorkerStep(w)
BY DEF Next, Environment, WorkerStep, Workers

LEMMA WorkerBase ==
  ASSUME Base, NEW w \in Workers, WorkerStep(w)
  PROVE  Base'
BY StartScheduledBase, DecideBase, StartManualBase, CountBase, AcquireBase,
   FindOrphansBase, CreateBase, RenewBase, SelectBase, DeleteBase, SaveBatchBase,
   FinishBase, FailBase, ReleaseBase, CloseOrphanBase, DeleteUnansweredBase, ThrowBase
   DEF WorkerStep, Work

LEMMA StutterBase == Base /\ UNCHANGED vars => Base'
BY DEF vars, Base, TypeOK, Versioned, HasVersion, Referenced, Owns, Known, Distinct,
       BatchesOld, Recorded

-----------------------------------------------------------------------------
(* One run at a time makes progress.                                       *)

\* The worker has renewed its lease since its last batch, or has one to record.
InRun(w) ==
    session[w].pc \in {"selecting", "deleting", "saving", "confirming", "finishing"}

Progressed(e) ==
    /\ executions[e].status = "running"
    /\ \/ executions[e].batches > 0
       \/ \E w \in Workers : InRun(w) /\ session[w].execution = e

HoldsSwept(w) ==
    lock.lease = w /\ session[w].pc \in {"sweeping", "creating"} \cup Batching

\* What a holder has not closed yet, it has read.
Exclusive ==
    \A w \in Workers, e \in Executions :
        HoldsSwept(w) /\ Progressed(e) /\ e # session[w].execution
            => session[w].pc = "sweeping" /\ session[w].orphans[e] # None

AtMostOne ==
    \A d, e \in Executions : Progressed(d) /\ Progressed(e) => d = e

\* The kinds of steps of a worker, as far as its lease and its progress go.
Leaves(w) ==
    /\ session'[w].pc \in {"idle", "counting", "locking", "closing", "releasing"}
    /\ \A e \in Executions :
          executions'[e] = executions[e] \/ executions'[e].status = "failed"
    /\ lock' = lock \/ lock'.lease \in {w, None}

Continues(w) ==
    /\ session[w].pc \in Batching /\ session'[w].pc \in Batching
    /\ session'[w].execution = session[w].execution
    /\ InRun(w)' => InRun(w)
    /\ lock' = lock \/ (lock.lease = w /\ lock'.lease = w)
    /\ executions' = executions \/ (InRun(w) /\ Saves(w, "running"))

Advances(w) ==
    /\ session[w].pc = "renewing" /\ session'[w].pc = "selecting"
    /\ session'[w].execution = session[w].execution
    /\ lock.lease = w /\ lock'.lease = w
    /\ executions' = executions

Finds(w) ==
    /\ session'[w].pc = "sweeping"
    /\ session'[w].orphans = [e \in Executions |->
            IF e \in Running THEN executions[e].revision ELSE None]
    /\ lock' = lock /\ executions' = executions

Closes(w) ==
    /\ session[w].pc = "sweeping" /\ session'[w].pc = "sweeping"
    /\ session'[w].execution = session[w].execution
    /\ lock' = lock
    /\ \E e \in Executions :
          /\ session'[w].orphans = [session[w].orphans EXCEPT ![e] = None]
          /\ executions'[e].status = "failed"
          /\ \A d \in Executions : d # e => executions'[d] = executions[d]

Succeeds(w) ==
    /\ session[w].pc = "finishing" /\ session'[w].pc = "releasing"
    /\ lock' = lock
    /\ Saves(w, "succeeded")

Decides(w) ==
    /\ w \in Schedulers /\ Swept(w)
    /\ session'[w].pc = "creating"
    /\ session'[w].execution = session[w].execution
    /\ session'[w].version = Len(policies)
    /\ session'[w].now = session[w].now
    /\ ~NotDue(Len(policies), session[w].now)
    /\ lock' = lock /\ executions' = executions

Creates(w) ==
    /\ session[w].pc = "creating" \/ (w \in Managers /\ Swept(w))
    /\ session'[w].pc = "renewing"
    /\ lock' = lock
    /\ \E e \in Executions :
          /\ executions[e].status = "none"
          /\ executions'[e].status = "running" /\ executions'[e].batches = 0
          /\ executions'[e].version = session[w].version
          /\ executions'[e].startedAt = session[w].now
          /\ executions'[e].scheduled = (w \in Schedulers)
          /\ \A d \in Executions : d # e => executions'[d] = executions[d]
          /\ session'[w].execution = e

Kinds(w) ==
    \/ Leaves(w) \/ Continues(w) \/ Advances(w) \/ Finds(w) \/ Closes(w)
    \/ Succeeds(w) \/ Decides(w) \/ Creates(w)

LEMMA LeavesKind ==
  ASSUME Base, NEW w \in Workers,
         \/ w \in Schedulers /\ StartScheduled(w)
         \/ w \in Managers /\ (StartManual(w) \/ Count(w))
         \/ Acquire(w) \/ Release(w) \/ Crash(w)
  PROVE  Leaves(w) /\ Others(w)
<1>0. Idle.pc = "idle"
  BY DEF Idle
<1>1. session[w] \in Session
  BY DEF Base, TypeOK
<1>2. executions' = executions
  BY DEF StartScheduled, StartManual, Count, Acquire, Release, Crash
<1>3. CASE w \in Schedulers /\ StartScheduled(w)
  BY <1>2, <1>3, StartScheduledStep, OthersStay DEF StartScheduled, Base, Leaves, Idle
<1>4. CASE w \in Managers /\ StartManual(w)
  BY <1>2, <1>4, StartManualStep, OthersStay DEF StartManual, Base, Leaves, Idle
<1>5. CASE w \in Managers /\ Count(w)
  <2>1. session'[w].pc \in {"idle", "locking"}
    <3>1. CASE session'[w] = Idle
      BY <1>0, <3>1
    <3>2. CASE session'[w] = [session[w] EXCEPT !.pc = "locking",
                                !.expected = MaxAffected(Snapshot(w), session[w].now)]
      BY <1>1, <3>2 DEF Session
    <3> QED  BY <1>5, <3>1, <3>2, CountStep
  <2> QED  BY <1>2, <1>5, <2>1, OthersStay DEF Count, Base, Leaves
<1>6. CASE Acquire(w)
  <2>1. session'[w].pc \in {"idle", "closing"} /\ (lock' = lock \/ lock'.lease = w)
    BY <1>0, <1>1, <1>6, AcquireStep DEF Session
  <2>2. Others(w)
    BY <1>6, OthersStay DEF Acquire, Goto, Base
  <2> QED  BY <1>2, <2>1, <2>2 DEF Leaves
<1>7. CASE Release(w)
  <2>1. session'[w].pc = "idle"
    BY <1>0, <1>7, ReleaseStep
  <2>2. lock' = lock \/ lock'.lease = None
    BY <1>7 DEF Release, Free
  <2>3. Others(w)
    BY <1>7, OthersStay DEF Release, Base
  <2> QED  BY <1>2, <2>1, <2>2, <2>3 DEF Leaves
<1>8. CASE Crash(w)
  BY <1>2, <1>8, CrashStep, OthersStay DEF Crash, Base, Leaves, Idle
<1> QED  BY <1>3, <1>4, <1>5, <1>6, <1>7, <1>8

LEMMA RunKind ==
  ASSUME Base, NEW w \in Workers,
         Renew(w) \/ Select(w) \/ Delete(w) \/ DeleteUnanswered(w) \/ SaveBatch(w)
         \/ Finish(w) \/ Fail(w) \/ Throw(w)
  PROVE  Kinds(w) /\ Others(w)
<1>1. session[w] \in Session
  BY DEF Base, TypeOK
<1>2. CASE Renew(w)
  <2>1. executions' = executions /\ session[w].pc \in {"renewing", "confirming"}
    BY <1>2 DEF Renew
  <2>2. Others(w)
    BY <1>2, OthersStay DEF Renew, Base
  <2>3. CASE session'[w] = [session[w] EXCEPT !.pc = "failing", !.error = "LOCK_LOST"]
             /\ lock' = lock
    BY <1>1, <2>1, <2>2, <2>3 DEF Session, Kinds, Continues, InRun, Batching
  <2>4. ASSUME NEW pc \in {"selecting", "renewing", "finishing"},
               session'[w] = [session[w] EXCEPT !.batch = {}, !.pc = pc],
               pc = "selecting" <=> session[w].pc = "renewing",
               Renewable(w), lock'.lease = w
        PROVE  Kinds(w)
    <3>1. session'[w].pc = pc /\ session'[w].execution = session[w].execution
      BY <1>1, <2>4 DEF Session
    <3>2. lock.lease = w
      BY <2>4 DEF Renewable
    <3>3. CASE pc = "selecting"
      BY <2>1, <2>4, <3>1, <3>2, <3>3 DEF Kinds, Advances
    <3>4. CASE pc # "selecting"
      BY <2>1, <2>4, <3>1, <3>2, <3>4 DEF Kinds, Continues, InRun, Batching
    <3> QED  BY <3>3, <3>4
  <2> QED  BY <1>2, <2>2, <2>3, <2>4, RenewStep
<1>3. CASE Select(w)
  <2>1. executions' = executions /\ lock' = lock /\ session[w].pc = "selecting"
    BY <1>3 DEF Select
  <2>2. Others(w)
    BY <1>3, OthersStay DEF Select, Base
  <2>3. /\ session'[w].pc \in {"finishing", "deleting"}
        /\ session'[w].execution = session[w].execution
    BY <1>1, <1>3, SelectStep DEF Session
  <2> QED  BY <2>1, <2>2, <2>3 DEF Kinds, Continues, InRun, Batching
<1>4. CASE Delete(w)
  <2>1. executions' = executions /\ lock' = lock /\ session[w].pc = "deleting"
    BY <1>4 DEF Delete
  <2>2. Others(w)
    BY <1>4, OthersStay DEF Delete, Base
  <2>3. session'[w].pc = "saving" /\ session'[w].execution = session[w].execution
    BY <1>1, <1>4, DeleteStep DEF Session
  <2> QED  BY <2>1, <2>2, <2>3 DEF Kinds, Continues, InRun, Batching
<1>5. CASE DeleteUnanswered(w)
  <2>1. executions' = executions /\ lock' = lock /\ session[w].pc = "deleting"
    BY <1>5 DEF DeleteUnanswered
  <2>2. Others(w)
    BY <1>5, OthersStay DEF DeleteUnanswered, Base
  <2>3. session'[w].pc = "failing" /\ session'[w].execution = session[w].execution
    BY <1>1, <1>5, DeleteUnansweredStep DEF Session
  <2> QED  BY <2>1, <2>2, <2>3 DEF Kinds, Continues, InRun, Batching
<1>6. CASE SaveBatch(w)
  <2>1. lock' = lock /\ session[w].pc = "saving"
    BY <1>6 DEF SaveBatch
  <2>2. Others(w)
    BY <1>6, OthersStay DEF SaveBatch, Base
  <2>3. /\ session'[w].pc \in {"confirming", "failing"}
        /\ session'[w].execution = session[w].execution
        /\ Saves(w, "running") \/ executions' = executions
    BY <1>1, <1>6, SaveBatchStep DEF Session
  <2> QED  BY <2>1, <2>2, <2>3 DEF Kinds, Continues, InRun, Batching
<1>7. CASE Finish(w)
  <2>1. lock' = lock /\ session[w].pc = "finishing"
    BY <1>7 DEF Finish
  <2>2. Others(w)
    BY <1>7, OthersStay DEF Finish, Goto, Base
  <2>3. \/ Saves(w, "succeeded") /\ session'[w].pc = "releasing"
        \/ /\ executions' = executions /\ session'[w].pc = "failing"
           /\ session'[w].execution = session[w].execution
    BY <1>1, <1>7, FinishStep DEF Session
  <2> QED  BY <2>1, <2>2, <2>3 DEF Kinds, Continues, Succeeds, InRun, Batching
<1>8. CASE Fail(w)
  <2>1. lock' = lock /\ session[w].pc \in Batching
    BY <1>8 DEF Fail, Batching
  <2>2. Others(w)
    BY <1>8, OthersStay DEF Fail, Goto, Base
  <2>3. /\ session'[w].pc = "releasing"
        /\ Saves(w, "failed") \/ executions' = executions
    BY <1>1, <1>8, FailStep DEF Session
  <2> QED  BY <2>1, <2>2, <2>3 DEF Kinds, Leaves, Saves
<1>9. CASE Throw(w)
  <2>1. lock' = lock /\ executions' = executions
    BY <1>9 DEF Throw
  <2>2. Others(w)
    BY <1>9, OthersStay DEF Throw, Base
  <2>3. \/ session'[w].pc \in {"idle", "releasing"}
        \/ /\ session[w].pc \in Batching /\ session'[w].pc = "failing"
           /\ session'[w].execution = session[w].execution
    <3>1. Idle.pc = "idle"
      BY DEF Idle
    <3> QED  BY <1>1, <1>9, <3>1, ThrowStep DEF Session
  <2> QED  BY <2>1, <2>2, <2>3 DEF Kinds, Leaves, Continues, InRun, Batching
<1> QED  BY <1>2, <1>3, <1>4, <1>5, <1>6, <1>7, <1>8, <1>9

LEMMA SweepKind ==
  ASSUME Base, NEW w \in Workers,
         \/ FindOrphans(w) \/ Create(w) \/ (w \in Schedulers /\ Decide(w))
         \/ \E e \in Executions : CloseOrphan(w, e)
  PROVE  Kinds(w) /\ Others(w)
<1>1. session[w] \in Session
  BY DEF Base, TypeOK
<1>2. CASE FindOrphans(w)
  <2>1. Others(w)
    BY <1>2, OthersStay DEF FindOrphans, Base
  <2>2. Finds(w)
    BY <1>1, <1>2, FindOrphansStep DEF FindOrphans, Finds, Session
  <2> QED  BY <2>1, <2>2 DEF Kinds
<1>3. CASE Create(w)
  <2>1. Others(w) /\ lock' = lock
    BY <1>3, OthersStay DEF Create, Goto, Base
  <2>2. CASE executions' = executions /\ session'[w] = [session[w] EXCEPT !.pc = "releasing"]
    <3>1. session'[w].pc = "releasing"
      BY <1>1, <2>2 DEF Session
    <3> QED  BY <2>1, <2>2, <3>1 DEF Kinds, Leaves
  <2>3. ASSUME NEW e \in Executions,
               executions[e].status = "none", executions'[e] = Created(w),
               \A d \in Executions : d # e => executions'[d] = executions[d],
               session'[w] = [session[w] EXCEPT !.pc = "renewing", !.execution = e,
                                                !.revision = 0]
        PROVE  Kinds(w)
    <3>1. session'[w].pc = "renewing" /\ session'[w].execution = e
      BY <1>1, <2>3 DEF Session
    <3>2. /\ executions'[e].status = "running" /\ executions'[e].batches = 0
          /\ executions'[e].version = session[w].version
          /\ executions'[e].startedAt = session[w].now
          /\ executions'[e].scheduled = (w \in Schedulers)
      BY <2>3 DEF Created, NoExecution
    <3> QED  BY <1>3, <2>1, <2>3, <3>1, <3>2 DEF Kinds, Creates, Create
  <2> QED  BY <1>3, <2>1, <2>2, <2>3, CreateStep
<1>4. CASE w \in Schedulers /\ Decide(w)
  <2>1. Others(w) /\ lock' = lock /\ executions' = executions
    BY <1>4, OthersStay DEF Decide, Goto, Base
  <2>2. \/ session'[w].pc = "releasing"
        \/ /\ session'[w].pc = "creating" /\ session'[w].version = Len(policies)
           /\ session'[w].now = session[w].now
           /\ session'[w].execution = session[w].execution
           /\ ~NotDue(Len(policies), session[w].now)
    BY <1>1, <1>4, DecideStep DEF Session
  <2> QED  BY <1>4, <2>1, <2>2 DEF Kinds, Leaves, Decides, Decide
<1>5. ASSUME NEW e \in Executions, CloseOrphan(w, e)
      PROVE  Kinds(w) /\ Others(w)
  <2>1. Others(w) /\ lock' = lock /\ session[w].pc = "sweeping"
    BY <1>5, OthersStay DEF CloseOrphan, Goto, Base
  <2>2. CASE session'[w] = [session[w] EXCEPT !.pc = "releasing"] /\ executions' = executions
    <3>1. session'[w].pc = "releasing"
      BY <1>1, <2>2 DEF Session
    <3> QED  BY <2>1, <2>2, <3>1 DEF Kinds, Leaves
  <2>3. CASE /\ session'[w] = [session[w] EXCEPT !.orphans[e] = None]
             /\ executions'[e] = [executions[e] EXCEPT !.status = "failed",
                                      !.error = "INTERRUPTED", !.revision = @ + 1]
             /\ \A d \in Executions : d # e => executions'[d] = executions[d]
    <3>1. /\ session'[w].pc = "sweeping"
          /\ session'[w].execution = session[w].execution
          /\ session'[w].orphans = [session[w].orphans EXCEPT ![e] = None]
      BY <1>1, <2>1, <2>3 DEF Session
    <3>2. executions'[e].status = "failed"
      BY <2>3, ExecutionType DEF Base, Execution
    <3> QED  BY <2>1, <2>3, <3>1, <3>2 DEF Kinds, Closes
  <2> QED  BY <1>5, <2>1, <2>2, <2>3, CloseOrphanStep
<1> QED  BY <1>2, <1>3, <1>4, <1>5

LEMMA WorkerKinds ==
  ASSUME Base, NEW w \in Workers, WorkerStep(w)
  PROVE  Kinds(w) /\ Others(w)
BY LeavesKind, RunKind, SweepKind DEF WorkerStep, Work, Kinds

\* A worker's step starts the progress of its own execution at most.
LEMMA NewProgress ==
  ASSUME Base, NEW w \in Workers, Kinds(w), Others(w),
         NEW e \in Executions, Progressed(e)'
  PROVE  \/ Progressed(e)
         \/ Advances(w) /\ e = session[w].execution
<1>1. executions'[e].status = "running"
  BY DEF Progressed
<1>2. ASSUME executions'[e] = executions[e], ~InRun(w)'
      PROVE  Progressed(e)
  BY <1>1, <1>2 DEF Progressed, InRun, Others
<1>3. CASE Leaves(w)
  <2>1. executions'[e] = executions[e] /\ ~InRun(w)'
    BY <1>1, <1>3 DEF Leaves, InRun
  <2> QED  BY <1>2, <2>1
<1>4. CASE Continues(w)
  <2>1. CASE InRun(w) /\ session[w].execution = e
    <3>1. executions[e].status = "running"
      BY <1>1, <1>4, <2>1, SavesEvolves DEF Continues
    <3> QED  BY <2>1, <3>1 DEF Progressed
  <2>2. CASE ~(InRun(w) /\ session[w].execution = e)
    <3>1. executions'[e] = executions[e]
      BY <1>4, <2>2 DEF Continues, Saves
    <3>2. ~(InRun(w)' /\ session'[w].execution = e)
      BY <1>4, <2>2 DEF Continues
    <3> QED  BY <1>1, <3>1, <3>2 DEF Progressed, InRun, Others
  <2> QED  BY <2>1, <2>2
<1>5. CASE Advances(w)
  BY <1>1, <1>5 DEF Advances, Progressed, InRun, Others
<1>6. CASE Finds(w) \/ Decides(w)
  <2>1. executions'[e] = executions[e] /\ ~InRun(w)'
    BY <1>6 DEF Finds, Decides, InRun
  <2> QED  BY <1>2, <2>1
<1>7. CASE Closes(w)
  <2>1. executions'[e] = executions[e] /\ ~InRun(w)'
    BY <1>1, <1>7 DEF Closes, InRun
  <2> QED  BY <1>2, <2>1
<1>8. CASE Succeeds(w)
  <2>1. executions'[e] = executions[e] /\ ~InRun(w)'
    BY <1>1, <1>8 DEF Succeeds, Saves, InRun
  <2> QED  BY <1>2, <2>1
<1>9. CASE Creates(w)
  <2>1. ~InRun(w)'
    BY <1>9 DEF Creates, InRun
  <2>2. CASE executions'[e] = executions[e]
    BY <1>2, <2>1, <2>2
  <2>3. CASE executions'[e] # executions[e]
    <3>1. executions[e].status = "none" /\ executions'[e].batches = 0
      BY <1>9, <2>3 DEF Creates
    <3>2. PICK v \in Workers : InRun(v)' /\ session'[v].execution = e
      BY <3>1 DEF Progressed
    <3>3. v # w /\ session'[v] = session[v]
      BY <2>1, <3>2 DEF Others
    <3>4. session[v].pc \in Batching /\ session[v].execution = e
      BY <3>2, <3>3 DEF InRun, Batching
    <3> QED  BY <3>1, <3>4 DEF Base, Referenced, Owns, Known
  <2> QED  BY <2>2, <2>3
<1> QED  BY <1>3, <1>4, <1>5, <1>6, <1>7, <1>8, <1>9 DEF Kinds

\* Another worker that holds the lock after the step held it before.
LEMMA HolderStays ==
  ASSUME NEW w \in Workers, Kinds(w), NEW u \in Workers, u # w, lock'.lease = u
  PROVE  lock.lease = u /\ ~Advances(w)
BY Distinctness DEF Kinds, Leaves, Continues, Advances, Finds, Closes, Succeeds, Decides,
                    Creates

LEMMA AtMostOneKept ==
  ASSUME Base, Exclusive, AtMostOne, NEW w \in Workers, Kinds(w), Others(w)
  PROVE  AtMostOne'
<1> SUFFICES ASSUME NEW d \in Executions, NEW e \in Executions,
                    Progressed(d)', Progressed(e)', d # e
             PROVE  FALSE
  BY DEF AtMostOne
<1>1. ASSUME NEW x \in Executions, NEW y \in Executions, x # y,
             Progressed(x), Advances(w), y = session[w].execution
      PROVE  FALSE
  <2>1. HoldsSwept(w) /\ session[w].pc = "renewing"
    BY <1>1 DEF Advances, HoldsSwept, Batching
  <2> QED  BY <1>1, <2>1 DEF Exclusive
<1>2. Progressed(d) \/ (Advances(w) /\ d = session[w].execution)
  BY NewProgress
<1>3. Progressed(e) \/ (Advances(w) /\ e = session[w].execution)
  BY NewProgress
<1> QED  BY <1>1, <1>2, <1>3 DEF AtMostOne

LEMMA ExclusiveKept ==
  ASSUME Base, Exclusive, NEW w \in Workers, Kinds(w), Others(w)
  PROVE  Exclusive'
<1> SUFFICES ASSUME NEW u \in Workers, NEW e \in Executions,
                    HoldsSwept(u)', Progressed(e)', e # session'[u].execution
             PROVE  session'[u].pc = "sweeping" /\ session'[u].orphans[e] # None
  BY DEF Exclusive
<1>1. CASE u # w
  <2>1. session'[u] = session[u]
    BY <1>1 DEF Others
  <2>2. lock.lease = u /\ ~Advances(w)
    BY <1>1, HolderStays DEF HoldsSwept
  <2>3. HoldsSwept(u) /\ Progressed(e) /\ e # session[u].execution
    BY <2>1, <2>2, NewProgress DEF HoldsSwept
  <2> QED  BY <2>1, <2>3 DEF Exclusive
<1>2. CASE u = w
  <2>1. CASE Leaves(w) \/ Succeeds(w)
    BY <1>2, <2>1 DEF Leaves, Succeeds, HoldsSwept, Batching
  <2>2. CASE Continues(w) \/ Advances(w)
    <3>1. HoldsSwept(w) /\ session[w].pc # "sweeping"
      BY <1>2, <2>2 DEF Continues, Advances, HoldsSwept, Batching
    <3>2. e # session[w].execution
      BY <1>2, <2>2 DEF Continues, Advances
    <3>3. Progressed(e)
      BY <3>2, NewProgress
    <3> QED  BY <3>1, <3>2, <3>3 DEF Exclusive
  <2>3. CASE Finds(w)
    <3>1. executions[e].status = "running" /\ session'[w].pc = "sweeping"
      BY <2>3 DEF Finds, Progressed
    <3>2. session'[w].orphans[e] = executions[e].revision
      BY <2>3, <3>1 DEF Finds, Running
    <3> QED  BY <1>2, <3>1, <3>2, ExecutionType, Distinctness DEF Base
  <2>4. CASE Closes(w)
    <3>1. HoldsSwept(w) /\ e # session[w].execution /\ session'[w].pc = "sweeping"
      BY <1>2, <2>4 DEF Closes, HoldsSwept
    <3>2. Progressed(e)
      BY <2>4, NewProgress DEF Advances, Closes
    <3>3. session[w].orphans[e] # None
      BY <3>1, <3>2 DEF Exclusive
    <3>4. PICK d \in Executions :
            /\ session'[w].orphans = [session[w].orphans EXCEPT ![d] = None]
            /\ executions'[d].status = "failed"
      BY <2>4 DEF Closes
    <3>5. e # d
      BY <3>4 DEF Progressed
    <3>6. session[w].orphans \in [Executions -> Nat \cup {None}]
      BY SessionType DEF Base
    <3>7. session'[w].orphans[e] = session[w].orphans[e]
      BY <3>4, <3>5, <3>6
    <3> QED  BY <1>2, <3>1, <3>3, <3>7
  <2>5. CASE Decides(w) \/ Creates(w)
    <3>1. /\ session[w].pc \in {"sweeping", "creating"}
          /\ session[w].pc = "sweeping" => Orphans(w) = {}
          /\ lock.lease = w /\ ~Advances(w)
      BY <1>2, <2>5 DEF Decides, Creates, Swept, HoldsSwept, Advances
    <3>2. HoldsSwept(w) /\ session[w].execution = None
      BY <3>1 DEF HoldsSwept, Base, Referenced, Locking
    <3>3. Progressed(e) /\ e # session[w].execution
      BY <3>1, <3>2, NewProgress, Distinctness
    <3>4. session[w].pc = "sweeping" /\ session[w].orphans[e] # None
      BY <3>2, <3>3 DEF Exclusive
    <3> QED  BY <3>1, <3>4 DEF Orphans
  <2> QED  BY <2>1, <2>2, <2>3, <2>4, <2>5 DEF Kinds
<1> QED  BY <1>1, <1>2

-----------------------------------------------------------------------------
(* The cadence of the scheduled executions.                                *)

Done(d) == executions[d].status = "succeeded" /\ executions[d].scheduled

\* At time t, the interval of the version of d is over.
Over(d, t) ==
    executions[d].startedAt + policies[executions[d].version].interval <= t

SameVersion(d, e) == executions[d].version = executions[e].version

CadenceDone ==
    \A d, e \in Executions :
        d # e /\ Done(d) /\ Done(e) /\ SameVersion(d, e)
            => Over(d, executions[e].startedAt) \/ Over(e, executions[d].startedAt)

CadenceProgress ==
    \A d, e \in Executions :
        Done(d) /\ Progressed(e) /\ executions[e].scheduled /\ SameVersion(d, e)
            => Over(d, executions[e].startedAt)

\* The worker that holds the lock is about to create an execution, or owns one.
CadenceCreating ==
    \A w \in Schedulers, d \in Executions :
        /\ lock.lease = w /\ session[w].pc = "creating"
        /\ Done(d) /\ executions[d].version = session[w].version
        => Over(d, session[w].now)

CadenceHolding ==
    \A w \in Workers, d \in Executions :
        LET e == session[w].execution
        IN  /\ lock.lease = w /\ session[w].pc \in Batching
            /\ Done(d) /\ executions[e].scheduled /\ SameVersion(d, e)
            => Over(d, executions[e].startedAt)

Cadence == CadenceDone /\ CadenceProgress /\ CadenceCreating /\ CadenceHolding

\* A step makes at most its worker's execution succeed.
LEMMA NewDone ==
  ASSUME NEW w \in Workers, Kinds(w), NEW d \in Executions,
         executions'[d].status = "succeeded"
  PROVE  \/ executions'[d] = executions[d]
         \/ Succeeds(w) /\ d = session[w].execution
<1>1. CASE Leaves(w)
  BY <1>1 DEF Leaves
<1>2. CASE Continues(w) \/ Succeeds(w)
  BY <1>2 DEF Continues, Succeeds, Saves
<1>3. CASE Advances(w) \/ Finds(w) \/ Decides(w)
  BY <1>3 DEF Advances, Finds, Decides
<1>4. CASE Closes(w)
  BY <1>4 DEF Closes
<1>5. CASE Creates(w)
  BY <1>5 DEF Creates
<1> QED  BY <1>1, <1>2, <1>3, <1>4, <1>5 DEF Kinds

LEMMA SucceedsProgressed ==
  ASSUME Base, NEW w \in Workers, Succeeds(w)
  PROVE  /\ session[w].execution \in Executions
         /\ Progressed(session[w].execution)
<1>1. /\ session[w].execution \in Executions
      /\ executions[session[w].execution].status = "running"
  BY SavesEvolves DEF Succeeds, Batching
<1>2. InRun(w)
  BY DEF Succeeds, InRun
<1> QED  BY <1>1, <1>2 DEF Progressed

\* While another worker holds the lock past its sweep, no execution but that
\* worker's can succeed.
LEMMA NoOtherDone ==
  ASSUME Base, Exclusive, NEW w \in Workers, Kinds(w), Others(w),
         NEW u \in Workers, u # w, lock'.lease = u,
         session[u].pc \in {"creating"} \cup Batching,
         NEW d \in Executions, Done(d)'
  PROVE  executions'[d] = executions[d]
<1> SUFFICES ASSUME Succeeds(w), d = session[w].execution PROVE FALSE
  BY NewDone DEF Done
<1>1. Progressed(d)
  BY SucceedsProgressed
<1>2. HoldsSwept(u) /\ session[u].pc # "sweeping"
  BY HolderStays DEF HoldsSwept, Batching
<1>3. d # session[u].execution
  <2>1. CASE session[u].pc = "creating"
    BY <2>1, Distinctness DEF Base, Referenced, Locking
  <2>2. CASE session[u].pc \in Batching
    BY <2>2 DEF Base, Distinct, Succeeds, Batching
  <2> QED  BY <2>1, <2>2
<1> QED  BY <1>1, <1>2, <1>3 DEF Exclusive

LEMMA CadenceKept ==
  ASSUME Base, Exclusive, AtMostOne, Cadence, Evolves, policies' = policies,
         NEW w \in Workers, Kinds(w), Others(w)
  PROVE  Cadence'
<1>1. \A d \in Executions :
        Done(d)' /\ ~Succeeds(w) => executions'[d] = executions[d] /\ Done(d)
  BY NewDone DEF Done
<1>2. \A e \in Executions :
        executions[e].status # "none" =>
            /\ executions'[e].version = executions[e].version
            /\ executions'[e].scheduled = executions[e].scheduled
            /\ executions'[e].startedAt = executions[e].startedAt
  BY DEF Evolves
<1>3. CadenceCreating'
  <2> SUFFICES ASSUME NEW u \in Schedulers, NEW d \in Executions,
                      lock'.lease = u, session'[u].pc = "creating",
                      Done(d)', executions'[d].version = session'[u].version
               PROVE  Over(d, session[u].now)' 
    BY DEF CadenceCreating
  <2>0. u \in Workers
    BY DEF Workers
  <2>1. CASE u # w
    <3>1. session'[u] = session[u] /\ lock.lease = u
      BY <2>0, <2>1, HolderStays DEF Others
    <3>2. executions'[d] = executions[d]
      BY <2>0, <2>1, <3>1, NoOtherDone
    <3> QED  BY <3>1, <3>2 DEF Cadence, CadenceCreating, Over, Done
  <2>2. CASE u = w
    <3>1. Decides(w) /\ ~Succeeds(w)
      BY <2>2 DEF Kinds, Leaves, Continues, Advances, Finds, Closes, Succeeds, Creates,
                  Batching
    <3>2. executions'[d] = executions[d] /\ Done(d)
      BY <1>1, <3>1
    <3>3. ~(executions[d].startedAt + policies[Len(policies)].interval > session[w].now)
      BY <2>2, <3>1, <3>2 DEF Decides, NotDue, Done
    <3>4. session'[w].now = session[w].now /\ executions[d].version = Len(policies)
      BY <2>2, <3>1, <3>2 DEF Decides
    <3>5. /\ executions[d].startedAt \in Nat /\ session[w].now \in Nat
          /\ policies[Len(policies)].interval \in Nat
      <4>1. executions[d].version \in 1..Len(policies)
        BY <3>2 DEF Base, Recorded, Done
      <4> QED  BY <2>0, <2>2, <3>4, <4>1, ExecutionType, SessionType, PolicyType DEF Base
    <3> QED  BY <2>2, <3>2, <3>3, <3>4, <3>5 DEF Over
  <2> QED  BY <2>1, <2>2
<1>4. CadenceHolding'
  <2> SUFFICES ASSUME NEW u \in Workers, NEW d \in Executions,
                      lock'.lease = u, session'[u].pc \in Batching, Done(d)',
                      executions'[session'[u].execution].scheduled,
                      SameVersion(d, session[u].execution)'
               PROVE  Over(d, executions[session[u].execution].startedAt)'
    BY DEF CadenceHolding
  <2>1. ASSUME session'[u].execution = session[u].execution, lock.lease = u,
               session[u].pc \in Batching, executions'[d] = executions[d]
        PROVE  Over(d, executions[session[u].execution].startedAt)'
    <3>1. /\ session[u].execution \in Executions
          /\ executions[session[u].execution].status # "none"
      BY <2>1 DEF Base, Referenced, Owns, Known
    <3>2. Done(d) /\ executions[session[u].execution].scheduled
          /\ SameVersion(d, session[u].execution)
      BY <1>2, <2>1, <3>1 DEF Done, SameVersion
    <3>3. Over(d, executions[session[u].execution].startedAt)
      BY <2>1, <3>2 DEF Cadence, CadenceHolding
    <3>4. executions'[session[u].execution].startedAt
            = executions[session[u].execution].startedAt
      BY <1>2, <3>1
    <3> QED  BY <2>1, <3>3, <3>4 DEF Over
  <2>2. CASE u # w
    <3>1. session'[u] = session[u] /\ lock.lease = u
      BY <2>2, HolderStays DEF Others
    <3>2. executions'[d] = executions[d]
      BY <2>2, <3>1, NoOtherDone
    <3> QED  BY <2>1, <3>1, <3>2
  <2>3. CASE u = w /\ (Continues(w) \/ Advances(w))
    <3>1. /\ session'[u].execution = session[u].execution /\ lock.lease = u
          /\ session[u].pc \in Batching
      BY <2>3 DEF Continues, Advances, Batching
    <3>2. ~Succeeds(w)
      BY <2>3 DEF Succeeds, Batching
    <3> QED  BY <1>1, <2>1, <3>1, <3>2
  <2>4. CASE u = w /\ Creates(w)
    <3>1. ~Succeeds(w)
      BY <2>4 DEF Succeeds, Creates
    <3>2. executions'[d] = executions[d] /\ Done(d)
      BY <1>1, <3>1
    <3>3. PICK e \in Executions :
            /\ executions'[e].version = session[w].version
            /\ executions'[e].startedAt = session[w].now
            /\ executions'[e].scheduled = (w \in Schedulers)
            /\ session'[w].execution = e
      BY <2>4 DEF Creates
    <3>4. w \in Schedulers /\ lock.lease = w
      BY <2>4, <3>3 DEF Creates
    <3>5. session[w].pc = "creating"
      BY <2>4, <3>4, ConstantsAssumption DEF Creates
    <3>6. executions[d].version = session[w].version
      BY <2>4, <3>2, <3>3 DEF SameVersion
    <3>7. Over(d, session[w].now)
      BY <3>2, <3>4, <3>5, <3>6 DEF Cadence, CadenceCreating
    <3> QED  BY <2>4, <3>2, <3>3, <3>7 DEF Over
  <2>5. u = w => Continues(w) \/ Advances(w) \/ Creates(w)
    BY DEF Kinds, Leaves, Finds, Closes, Succeeds, Decides, Batching
  <2> QED  BY <2>2, <2>3, <2>4, <2>5
<1>5. CadenceProgress'
  <2> SUFFICES ASSUME NEW d \in Executions, NEW e \in Executions,
                      Done(d)', Progressed(e)', executions'[e].scheduled,
                      SameVersion(d, e)'
               PROVE  Over(d, executions[e].startedAt)'
    BY DEF CadenceProgress
  <2>1. ~(Succeeds(w) /\ d = session[w].execution)
    <3> SUFFICES ASSUME Succeeds(w), d = session[w].execution PROVE FALSE
      OBVIOUS
    <3>1. Progressed(d) /\ Progressed(e)
      BY SucceedsProgressed, NewProgress DEF Succeeds, Advances
    <3>2. d = e
      BY <3>1 DEF AtMostOne
    <3> QED  BY <3>2 DEF Done, Progressed
  <2>2. executions'[d] = executions[d] /\ Done(d)
    BY <2>1, NewDone DEF Done
  <2>3. CASE Progressed(e)
    <3>1. executions[e].status # "none"
      BY <2>3 DEF Progressed
    <3>2. executions[e].scheduled /\ SameVersion(d, e)
          /\ executions'[e].startedAt = executions[e].startedAt
      BY <1>2, <2>2, <3>1 DEF SameVersion
    <3> QED  BY <2>2, <2>3, <3>2 DEF Cadence, CadenceProgress, Over
  <2>4. CASE Advances(w) /\ e = session[w].execution
    <3>1. executions' = executions /\ lock.lease = w /\ session[w].pc \in Batching
      BY <2>4 DEF Advances, Batching
    <3>2. Over(d, executions[e].startedAt)
      BY <2>2, <2>4, <3>1 DEF Cadence, CadenceHolding, SameVersion
    <3> QED  BY <3>1, <3>2 DEF Over
  <2> QED  BY <2>3, <2>4, NewProgress
<1>6. CadenceDone'
  <2>1. ASSUME NEW d \in Executions, NEW e \in Executions, d # e,
               Done(d)', Done(e)', SameVersion(d, e)', Succeeds(w),
               e = session[w].execution
        PROVE  Over(d, executions[e].startedAt)'
    <3>1. executions'[d] = executions[d] /\ Done(d)
      BY <2>1, NewDone DEF Done
    <3>2. Progressed(e) /\ executions[e].status # "none"
      BY <2>1, SucceedsProgressed DEF Progressed
    <3>3. executions[e].scheduled /\ SameVersion(d, e)
          /\ executions'[e].startedAt = executions[e].startedAt
      BY <1>2, <2>1, <3>1, <3>2 DEF SameVersion, Done
    <3> QED  BY <3>1, <3>2, <3>3 DEF Cadence, CadenceProgress, Over
  <2>2. ASSUME NEW d \in Executions, NEW e \in Executions, d # e,
               executions'[d] = executions[d], executions'[e] = executions[e],
               Done(d)', Done(e)', SameVersion(d, e)'
        PROVE  Over(d, executions[e].startedAt)' \/ Over(e, executions[d].startedAt)'
    BY <2>2 DEF Cadence, CadenceDone, Over, Done, SameVersion
  <2> SUFFICES ASSUME NEW d \in Executions, NEW e \in Executions, d # e,
                      Done(d)', Done(e)', SameVersion(d, e)'
               PROVE  Over(d, executions[e].startedAt)' \/ Over(e, executions[d].startedAt)'
    BY DEF CadenceDone
  <2>3. SameVersion(e, d)'
    BY DEF SameVersion
  <2>4. executions'[d] = executions[d] \/ (Succeeds(w) /\ d = session[w].execution)
    BY NewDone DEF Done
  <2>5. executions'[e] = executions[e] \/ (Succeeds(w) /\ e = session[w].execution)
    BY NewDone DEF Done
  <2> QED  BY <2>1, <2>2, <2>3, <2>4, <2>5
<1> QED  BY <1>3, <1>4, <1>5, <1>6 DEF Cadence

-----------------------------------------------------------------------------
(* The invariant of the specification.                                     *)

IInv == Base /\ Exclusive /\ AtMostOne /\ Cadence

LEMMA InitIInv == Init => IInv
<1> SUFFICES ASSUME Init PROVE IInv
  OBVIOUS
<1>1. \A e \in Executions : executions[e].status = "none"
  BY DEF Init, NoExecution
<1>2. \A w \in Workers : session[w].pc = "idle"
  BY DEF Init, Idle
<1>3. \A e \in Executions : ~Progressed(e) /\ ~Done(e)
  BY <1>1 DEF Progressed, Done
<1>4. Exclusive /\ AtMostOne /\ Cadence
  BY <1>3 DEF Exclusive, AtMostOne, Cadence, CadenceDone, CadenceProgress,
              CadenceCreating, CadenceHolding
<1> QED  BY <1>4, InitBase DEF IInv

LEMMA PoliciesKept ==
  ASSUME NEW w \in Workers, WorkerStep(w)
  PROVE  policies' = policies /\ clock' = clock /\ created' = created
BY DEF WorkerStep, Work, StartScheduled, Decide, StartManual, Count, Acquire, FindOrphans,
       Create, Renew, Select, Delete, SaveBatch, Finish, Fail, Release, CloseOrphan,
       DeleteUnanswered, Throw, Crash, environment

LEMMA WorkerEvolves ==
  ASSUME Base, NEW w \in Workers, WorkerStep(w)
  PROVE  Evolves
<1>1. CASE executions' = executions
  BY <1>1, SameEvolves
<1>2. CASE executions' # executions
  <2>1. \/ SaveBatch(w) \/ Finish(w) \/ Fail(w) \/ Create(w)
        \/ \E e \in Executions : CloseOrphan(w, e)
    BY <1>2 DEF WorkerStep, Work, StartScheduled, Decide, StartManual, Count, Acquire,
                FindOrphans, Renew, Select, Delete, Release, DeleteUnanswered, Throw, Crash
  <2>2. CASE SaveBatch(w)
    BY <1>2, <2>2, SaveBatchStep, SavesEvolves DEF SaveBatch, Batching
  <2>3. CASE Finish(w)
    BY <1>2, <2>3, FinishStep, SavesEvolves DEF Finish, Batching
  <2>4. CASE Fail(w)
    BY <1>2, <2>4, FailStep, SavesEvolves DEF Fail, Batching
  <2> QED  BY <2>1, <2>2, <2>3, <2>4, CreateEvolves, CloseEvolves
<1> QED  BY <1>1, <1>2

LEMMA EnvironmentIInv ==
  ASSUME IInv, Environment
  PROVE  IInv' /\ UNCHANGED <<purged, executions>>
<1>1. Base' /\ UNCHANGED <<purged, lock, executions, session>>
  BY EnvironmentBase DEF IInv, Environment
<1>2. \A v \in 1..Len(policies) : policies'[v] = policies[v]
  <2>1. policies \in Seq(Configs)
    BY DEF IInv, Base, TypeOK
  <2> QED  BY <2>1 DEF Environment, PublishPolicy, Tick, WriteLog
<1>3. \A d \in Executions : Done(d) =>
        policies'[executions[d].version] = policies[executions[d].version]
  BY <1>2 DEF IInv, Base, Recorded, Done
<1>4. Exclusive' /\ AtMostOne'
  BY <1>1 DEF IInv, Exclusive, AtMostOne, HoldsSwept, Progressed, InRun
<1>5. CadenceDone' /\ CadenceProgress'
  BY <1>1, <1>3 DEF IInv, Cadence, CadenceDone, CadenceProgress, Done, Over, SameVersion,
                    Progressed, InRun
<1>6. CadenceCreating' /\ CadenceHolding'
  BY <1>1, <1>3 DEF IInv, Cadence, CadenceCreating, CadenceHolding, Done, Over, SameVersion
<1> QED  BY <1>1, <1>4, <1>5, <1>6 DEF IInv, Cadence

LEMMA StutterIInv == IInv /\ UNCHANGED vars => IInv'
<1> SUFFICES ASSUME IInv, UNCHANGED vars PROVE IInv'
  OBVIOUS
<1>1. Base'
  BY StutterBase DEF IInv
<1>2. Exclusive' /\ AtMostOne'
  BY DEF vars, IInv, Exclusive, AtMostOne, HoldsSwept, Progressed, InRun
<1>3. Cadence'
  BY DEF vars, IInv, Cadence, CadenceDone, CadenceProgress, CadenceCreating,
         CadenceHolding, Done, Over, SameVersion, Progressed, InRun
<1> QED  BY <1>1, <1>2, <1>3 DEF IInv

\* The inductive invariant is kept by every step of the specification.
THEOREM Inductive == IInv /\ [Next]_vars => IInv' /\ Evolves
<1> SUFFICES ASSUME IInv, [Next]_vars PROVE IInv' /\ Evolves
  OBVIOUS
<1>1. CASE Environment
  BY <1>1, EnvironmentIInv, SameEvolves
<1>2. ASSUME NEW w \in Workers, WorkerStep(w)
      PROVE  IInv' /\ Evolves
  <2>1. Base' /\ Evolves /\ Kinds(w) /\ Others(w) /\ policies' = policies
    BY <1>2, WorkerBase, WorkerEvolves, WorkerKinds, PoliciesKept DEF IInv
  <2>2. Exclusive' /\ AtMostOne' /\ Cadence'
    BY <2>1, ExclusiveKept, AtMostOneKept, CadenceKept DEF IInv
  <2> QED  BY <2>1, <2>2 DEF IInv
<1>3. CASE UNCHANGED vars
  <2>1. executions' = executions
    BY <1>3 DEF vars
  <2> QED  BY <1>3, <2>1, StutterIInv, SameEvolves
<1> QED  BY <1>1, <1>2, <1>3, NextSteps

THEOREM Invariance == Spec => []IInv
<1>1. IInv /\ [Next]_vars => IInv'
  BY Inductive
<1> QED  BY <1>1, InitIInv, PTL DEF Spec

-----------------------------------------------------------------------------
(* The results.                                                            *)

\* Every state of the engine is of its type, execution documents consistent
\* included (retentionExecution.model.js).
THEOREM TypeCorrect == Spec => []TypeOK
<1>1. IInv => TypeOK
  BY DEF IInv, Base
<1> QED  BY <1>1, Invariance, PTL

\* Two runs never make progress at the same time on a target: the one that
\* holds the lease has closed the others (markInterruptedRetentionExecutions).
THEOREM ExclusiveProgressHolds == Spec => []ExclusiveProgress
<1>1. IInv => ExclusiveProgress
  <2> SUFFICES ASSUME IInv, NEW w \in Workers, NEW e \in Executions, lock.lease = w,
                      Swept(w) \/ session[w].pc \in {"creating"} \cup Batching,
                      executions[e].status = "running", e # session[w].execution,
                      executions[e].batches # 0
               PROVE  FALSE
    BY DEF ExclusiveProgress
  <2>1. Progressed(e)
    BY ExecutionType DEF IInv, Base, Progressed
  <2>2. HoldsSwept(w)
    BY DEF HoldsSwept, Swept
  <2>3. session[w].pc = "sweeping" /\ session[w].orphans[e] # None
    BY <2>1, <2>2 DEF IInv, Exclusive
  <2>4. Orphans(w) = {}
    BY <2>3 DEF Swept, Batching
  <2> QED  BY <2>3, <2>4 DEF Orphans
<1> QED  BY <1>1, Invariance, PTL

\* The successful scheduled executions of a version are an interval apart
\* (decideScheduledRun under the lock, retentionScheduler.service.js).
THEOREM ScheduledCadenceHolds == Spec => []ScheduledCadence
<1>1. IInv => ScheduledCadence
  BY DEF IInv, Cadence, CadenceDone, ScheduledCadence, Done, Over, SameVersion
<1> QED  BY <1>1, Invariance, PTL

\* What has ended never changes: every save compares the revision it read
\* (optimisticConcurrency of the execution's schema).
THEOREM ClosedStaysClosedHolds == Spec => ClosedStaysClosed
<1> DEFINE A == \A e \in Executions :
                   executions[e].status \in {"succeeded", "failed"}
                   => executions'[e] = executions[e]
<1>1. IInv /\ [Next]_vars => [A]_vars
  BY Inductive DEF Evolves
<1> QED  BY <1>1, Invariance, PTL DEF Spec, ClosedStaysClosed

\* No step deletes a log before the retention of an enabled version of the
\* policy is over, whenever it comes back (executeBatch).
THEOREM RetentionKeptHolds == Spec => RetentionKept
<1> DEFINE A == \A l \in purged' \ purged :
                   \E v \in 1..Len(policies) :
                       policies[v].enabled /\ created[l] + policies[v].days <= clock
<1>1. IInv /\ [Next]_vars => [A]_vars
  <2> SUFFICES ASSUME IInv, Next, NEW l \in purged' \ purged
               PROVE  \E v \in 1..Len(policies) :
                          policies[v].enabled /\ created[l] + policies[v].days <= clock
    OBVIOUS
  <2>1. ~Environment
    BY EnvironmentIInv
  <2>2. PICK w \in Workers : WorkerStep(w)
    BY <2>1, NextSteps
  <2>3. Delete(w) \/ DeleteUnanswered(w)
    BY <2>2 DEF WorkerStep, Work, StartScheduled, Decide, StartManual, Count, Acquire,
           FindOrphans, Create, Renew, Select, SaveBatch, Finish, Fail, Release,
           CloseOrphan, Throw, Crash
  <2>4. l \in session[w].batch /\ session[w].pc = "deleting"
    BY <2>3 DEF Delete, DeleteUnanswered
  <2> DEFINE e == session[w].execution
             x == executions[e]
  <2>5. /\ e \in Executions /\ x.status # "none"
        /\ created[l] # None /\ created[l] <= x.cutoff
    BY <2>4 DEF IInv, Base, Referenced, Owns, Known, BatchesOld, Batching
  <2>6. /\ x.version \in 1..Len(policies) /\ policies[x.version].enabled
        /\ x.startedAt <= clock /\ x.cutoff = x.startedAt - policies[x.version].days
    BY <2>5 DEF IInv, Base, Recorded
  <2>7. /\ l \in Logs /\ created[l] \in Nat /\ clock \in Nat
        /\ x.startedAt \in Nat /\ policies[x.version].days \in Nat
    BY <2>4, <2>5, <2>6, SessionType, ExecutionType, PolicyType DEF IInv, Base, TypeOK
  <2> HIDE DEF x
  <2>8. created[l] + policies[x.version].days <= clock
    <3>1. \A c, d, t, n \in Nat : c <= t - d /\ t <= n => c + d <= n
      OBVIOUS
    <3>2. created[l] <= x.startedAt - policies[x.version].days
      BY <2>5, <2>6
    <3> QED  BY <2>6, <2>7, <3>1, <3>2
  <2> QED  BY <2>6, <2>8
<1> QED  BY <1>1, Invariance, PTL DEF Spec, RetentionKept

-----------------------------------------------------------------------------
(* What the executions report.                                             *)

\* A worker in its batches counts in memory, for its execution.
Counts(w, e) == session[w].pc \in Batching /\ session[w].execution = e

\* The deletions that a document reports or that a worker has in memory.
Noted ==
    {n \in Executions \X Nat :
        \/ n \in Reported
        \/ \E w \in Workers : Counts(w, n[1]) /\ n[2] \in 1..session[w].affected}

\* A run starts its counters from nothing.
Unstarted ==
    \A w \in Workers :
        session[w].pc \in Locking \cup {"counting"} => session[w].affected = 0

Accounted ==
    /\ Unstarted
    /\ IsFiniteSet(Noted)
    /\ Cardinality(Noted) <= Cardinality(purged)

LEMMA ReportedIs ==
  ASSUME TypeOK
  PROVE  /\ Reported \subseteq Noted
         /\ \A e \in Executions, k \in Nat :
               <<e, k>> \in Reported <=> k \in 1..executions[e].affected
<1>1. \A e \in Executions : executions[e].affected \in Nat
  BY ExecutionType
<1>2. \A e \in Executions, k \in Nat :
         <<e, k>> \in Reported <=> k \in 1..executions[e].affected
  BY DEF Reported
<1>3. \A n \in Reported : n \in Executions \X Nat
  BY <1>1 DEF Reported
<1> QED  BY <1>2, <1>3 DEF Noted

LEMMA NotedIs ==
  ASSUME TypeOK, NEW e \in Executions, NEW k \in Nat
  PROVE  <<e, k>> \in Noted <=>
            \/ k \in 1..executions[e].affected
            \/ \E w \in Workers : Counts(w, e) /\ k \in 1..session[w].affected
BY ReportedIs DEF Noted

LEMMA PurgedFinite ==
  ASSUME NEW S \in SUBSET Logs
  PROVE  IsFiniteSet(S) /\ Cardinality(S) \in Nat
BY ConstantsAssumption, FS_Subset, FS_CardinalityType

LEMMA AccountedReports == TypeOK /\ Accounted => AffectedAccounted
<1> SUFFICES ASSUME TypeOK, Accounted PROVE AffectedAccounted
  OBVIOUS
<1>1. Reported \in SUBSET Noted
  BY ReportedIs
<1>2. IsFiniteSet(Reported) /\ Cardinality(Reported) <= Cardinality(Noted)
  BY <1>1, FS_Subset DEF Accounted
<1>3. /\ Cardinality(Reported) \in Nat /\ Cardinality(Noted) \in Nat
      /\ Cardinality(purged) \in Nat
  BY <1>2, FS_CardinalityType, PurgedFinite DEF Accounted, TypeOK
<1> QED  BY <1>2, <1>3 DEF Accounted, AffectedAccounted

LEMMA AccountedInit == Init => Accounted
<1> SUFFICES ASSUME Init PROVE Accounted
  OBVIOUS
<1>1. TypeOK
  BY InitType
<1>2. /\ \A w \in Workers : session[w].pc = "idle" /\ session[w].affected = 0
      /\ \A e \in Executions : executions[e].affected = 0
  BY DEF Init, Idle, NoExecution
<1>3. Noted = {}
  <2>1. \A n \in Noted : n = <<n[1], n[2]>> /\ n[1] \in Executions /\ n[2] \in Nat
    BY DEF Noted
  <2>2. \A e \in Executions, k \in Nat : <<e, k>> \notin Noted
    <3> SUFFICES ASSUME NEW e \in Executions, NEW k \in Nat PROVE <<e, k>> \notin Noted
      OBVIOUS
    <3>1. \A w \in Workers : ~Counts(w, e)
      BY <1>2 DEF Counts, Batching
    <3>2. k \notin 1..executions[e].affected
      BY <1>2
    <3> QED  BY <1>1, <3>1, <3>2, NotedIs
  <2> QED  BY <2>1, <2>2
<1>4. Unstarted
  BY <1>2 DEF Unstarted
<1>5. IsFiniteSet(purged) /\ Cardinality(purged) = 0
  BY FS_EmptySet DEF Init
<1> QED  BY <1>3, <1>4, <1>5, FS_EmptySet DEF Accounted

\* A document reports what it reported, or what its worker has in memory.
Honest(w) ==
    \A e \in Executions :
        \/ executions'[e].affected = 0
        \/ executions'[e].affected = executions[e].affected
        \/ Counts(w, e) /\ executions'[e].affected = session[w].affected

\* A worker keeps its counter while it stays in its batches.
Keeps(w) ==
    session'[w].pc \in Batching =>
        \/ session'[w].affected = 0
        \/ /\ Counts(w, session'[w].execution)
           /\ session'[w].affected = session[w].affected

\* A run starts with an empty counter.
Starts(w) ==
    session'[w].pc \in Locking \cup {"counting"} => session'[w].affected = 0

\* Without a deletion counted in memory nothing more is noted.
LEMMA NotedShrinks ==
  ASSUME TypeOK, TypeOK', NEW w \in Workers, Others(w), Honest(w), Keeps(w)
  PROVE  Noted' \subseteq Noted
<1> SUFFICES ASSUME NEW e \in Executions, NEW k \in Nat, (<<e, k>> \in Noted)'
             PROVE  <<e, k>> \in Noted
  BY DEF Noted
<1>1. \/ <<e, k>> \in Reported'
      \/ \E v \in Workers : Counts(v, e)' /\ k \in 1..session'[v].affected
  BY DEF Noted
<1>2. CASE <<e, k>> \in Reported'
  <2>1. k \in 1..executions'[e].affected
    BY <1>2 DEF Reported
  <2> QED  BY <2>1, NotedIs DEF Honest
<1>3. ASSUME NEW v \in Workers, Counts(v, e)', k \in 1..session'[v].affected
      PROVE  <<e, k>> \in Noted
  <2>1. CASE v # w
    BY <1>3, <2>1, NotedIs DEF Others, Counts
  <2>2. CASE v = w
    BY <1>3, <2>2, NotedIs DEF Keeps, Counts
  <2> QED  BY <2>1, <2>2
<1> QED  BY <1>1, <1>2, <1>3

LEMMA AccountedKept ==
  ASSUME TypeOK, TypeOK', Accounted, purged \subseteq purged',
         NEW w \in Workers, Others(w), Honest(w), Keeps(w), Starts(w)
  PROVE  Accounted'
<1>1. Noted' \in SUBSET Noted
  BY NotedShrinks
<1>2. IsFiniteSet(Noted') /\ Cardinality(Noted') <= Cardinality(Noted)
  BY <1>1, FS_Subset DEF Accounted
<1>3. Cardinality(purged) <= Cardinality(purged')
  BY PurgedFinite, FS_Subset DEF TypeOK
<1>4. /\ Cardinality(Noted) \in Nat /\ Cardinality(Noted') \in Nat
      /\ Cardinality(purged) \in Nat /\ Cardinality(purged') \in Nat
  BY <1>2, FS_CardinalityType, PurgedFinite DEF Accounted, TypeOK
<1>5. Cardinality(Noted') <= Cardinality(purged')
  BY <1>2, <1>3, <1>4 DEF Accounted
<1>6. Unstarted'
  BY DEF Accounted, Unstarted, Others, Starts
<1> QED  BY <1>2, <1>5, <1>6 DEF Accounted

\* What a deletion adds to the memory of its worker was not yet deleted.
LEMMA AccountedDelete ==
  ASSUME Base, Accounted, NEW w \in Workers, Delete(w)
  PROVE  Accounted'
<1> DEFINE d == session[w].execution
           a == session[w].affected
           new == session[w].batch \ purged
           c == Cardinality(new)
           more == {d} \X ((a + 1)..(a + c))
<1>1. /\ TypeOK /\ TypeOK' /\ executions' = executions /\ purged' = purged \cup session[w].batch
      /\ session[w] \in Session /\ a \in Nat /\ session[w].batch \subseteq Logs
      /\ session[w].pc = "deleting" /\ d \in Executions
  BY DeleteStep, SessionType DEF Delete, Base, Referenced, Owns, Batching
<1>2. new \in SUBSET Logs /\ purged \in SUBSET Logs /\ new \cap purged = {}
      /\ purged' = purged \cup new
  BY <1>1 DEF TypeOK
<1>3. c \in Nat /\ Cardinality(purged') = Cardinality(purged) + c
  <2>1. Cardinality(new \cap purged) = 0
    BY <1>2, FS_EmptySet
  <2>2. /\ IsFiniteSet(new) /\ IsFiniteSet(purged)
        /\ Cardinality(new) \in Nat /\ Cardinality(purged) \in Nat
    BY <1>2, PurgedFinite
  <2> HIDE DEF new
  <2>3. Cardinality(purged \cup new)
           = Cardinality(purged) + Cardinality(new) - Cardinality(purged \cap new)
    BY <2>2, FS_Union
  <2>4. Cardinality(purged \cap new) = 0
    BY <1>2, FS_EmptySet
  <2> QED  BY <1>2, <2>2, <2>3, <2>4
<1>4. session'[w] = [session[w] EXCEPT !.pc = "saving", !.batches = @ + 1, !.affected = @ + c]
  BY DeleteStep DEF Affected
<1> HIDE DEF new, c
<1>5. /\ session'[w].pc = "saving" /\ session'[w].execution = d /\ session'[w].affected = a + c
      /\ Others(w)
  BY <1>1, <1>4 DEF Session, Delete, Become, Others, TypeOK
<1>6. IsFiniteSet(more) /\ Cardinality(more) = c
  <2>1. IsFiniteSet((a + 1)..(a + c)) /\ Cardinality((a + 1)..(a + c)) = c
    BY <1>1, <1>3, FS_Interval
  <2>2. IsFiniteSet({d}) /\ Cardinality({d}) = 1
    BY FS_Singleton
  <2>3. Cardinality({d}) * Cardinality((a + 1)..(a + c)) = c
    BY <1>3, <2>1, <2>2
  <2> QED  BY <2>1, <2>2, <2>3, FS_Product
<1>7. Noted' \subseteq Noted \cup more
  <2> SUFFICES ASSUME NEW e \in Executions, NEW k \in Nat, (<<e, k>> \in Noted)',
                      <<e, k>> \notin Noted
               PROVE  <<e, k>> \in more
    BY DEF Noted
  <2>1. \/ k \in 1..executions[e].affected
        \/ \E v \in Workers : Counts(v, e)' /\ k \in 1..session'[v].affected
    BY <1>1 DEF Noted, Reported
  <2>2. /\ ~(k \in 1..executions[e].affected)
        /\ \A v \in Workers : ~(Counts(v, e) /\ k \in 1..session[v].affected)
    BY <1>1, NotedIs
  <2>3. PICK v \in Workers : Counts(v, e)' /\ k \in 1..session'[v].affected
    BY <2>1, <2>2
  <2>4. v = w
    BY <1>5, <2>2, <2>3 DEF Others, Counts
  <2>5. e = d /\ k \in 1..(a + c)
    BY <1>5, <2>3, <2>4 DEF Counts
  <2>6. ~(k \in 1..a)
    BY <1>1, <2>2, <2>5 DEF Counts, Batching
  <2> QED  BY <1>1, <1>3, <2>5, <2>6
<1> HIDE DEF d, a, more
<1>8. /\ IsFiniteSet(Noted \cup more)
      /\ Cardinality(Noted \cup more) <= Cardinality(Noted) + c
      /\ Cardinality(Noted) \in Nat /\ Cardinality(Noted \cup more) \in Nat
  <2>1. /\ IsFiniteSet(Noted \cup more) /\ IsFiniteSet(Noted \cap more)
        /\ Cardinality(Noted \cup more)
              = Cardinality(Noted) + Cardinality(more) - Cardinality(Noted \cap more)
    BY <1>6, FS_Union, FS_Intersection DEF Accounted
  <2>2. /\ Cardinality(Noted) \in Nat /\ Cardinality(Noted \cap more) \in Nat
        /\ Cardinality(Noted \cup more) \in Nat
    BY <2>1, FS_CardinalityType DEF Accounted
  <2> QED  BY <1>3, <1>6, <2>1, <2>2
<1>9. IsFiniteSet(Noted') /\ Cardinality(Noted') <= Cardinality(Noted \cup more)
  BY <1>7, <1>8, FS_Subset
<1>10. Cardinality(Noted') <= Cardinality(purged')
  <2>1. Cardinality(Noted') \in Nat /\ Cardinality(purged) \in Nat
    BY <1>2, <1>9, FS_CardinalityType, PurgedFinite
  <2> QED  BY <1>3, <1>8, <1>9, <2>1 DEF Accounted
<1>11. Unstarted'
  BY <1>5 DEF Accounted, Unstarted, Others, Locking
<1> QED  BY <1>9, <1>10, <1>11 DEF Accounted

\* A save writes the counter its worker has in memory.
LEMMA SaveHonest ==
  ASSUME Base, NEW w \in Workers, session[w].pc \in Batching,
         Fresh(session[w].execution, session[w].revision),
         NEW x, Save(session[w].execution, x), x \in Execution,
         x.affected = session[w].affected
  PROVE  Honest(w)
<1>1. session[w].execution \in Executions
  BY DEF Base, Referenced, Owns
<1>2. /\ executions'[session[w].execution] = [x EXCEPT !.revision = @ + 1]
      /\ \A d \in Executions : d # session[w].execution => executions'[d] = executions[d]
  BY <1>1, SaveType DEF Base
<1>3. [x EXCEPT !.revision = @ + 1].affected = x.affected
  BY DEF Execution
<1> QED  BY <1>2, <1>3 DEF Honest, Counts

LEMMA MemoryHonest ==
  ASSUME Base, NEW w \in Workers, SaveBatch(w) \/ Finish(w) \/ Fail(w)
  PROVE  Honest(w)
<1> DEFINE e == session[w].execution
           x == InMemory(w)
           y == [InMemory(w) EXCEPT !.status = "succeeded"]
           z == [InMemory(w) EXCEPT !.status = "failed", !.error = session[w].error]
<1>1. session[w].pc \in Batching
  BY DEF SaveBatch, Finish, Fail, Batching
<1>2. CASE executions' = executions
  BY <1>2 DEF Honest
<1>3. CASE Fresh(e, session[w].revision)
  <2>1. e \in Executions /\ x \in Execution /\ x.status = "running"
    BY <1>1, <1>3, OwnMemory
  <2>2. executions[e] \in Execution
    BY <2>1 DEF Base, TypeOK
  <2>3. x.affected = session[w].affected
    BY <2>2 DEF InMemory, Execution
  <2>4. y \in Execution /\ y.affected = x.affected
    BY <2>1 DEF Execution, Consistent
  <2>5. CASE SaveBatch(w)
    BY <1>1, <1>3, <2>1, <2>3, <2>5, SaveHonest DEF SaveBatch
  <2>6. CASE Finish(w)
    BY <1>1, <1>3, <2>3, <2>4, <2>6, SaveHonest DEF Finish
  <2>7. CASE Fail(w)
    <3>1. session[w].error \in {"LOCK_LOST", "FAILED"}
      BY <2>7 DEF Fail, Base, Versioned, TypeOK, Session
    <3>2. z \in Execution /\ z.affected = x.affected
      BY <2>1, <3>1 DEF Execution, Consistent
    <3> QED  BY <1>1, <1>3, <2>3, <2>7, <3>2, SaveHonest DEF Fail
  <2> QED  BY <2>5, <2>6, <2>7
<1> QED  BY <1>2, <1>3 DEF SaveBatch, Finish, Fail

LEMMA WorkerHonest ==
  ASSUME Base, NEW w \in Workers, WorkerStep(w)
  PROVE  Honest(w)
<1>1. CASE executions' = executions
  BY <1>1 DEF Honest
<1>2. CASE SaveBatch(w) \/ Finish(w) \/ Fail(w)
  BY <1>2, MemoryHonest
<1>3. ASSUME NEW e \in Executions, CloseOrphan(w, e) PROVE Honest(w)
  <2>1. executions[e] \in Execution
    BY DEF Base, TypeOK
  <2>2. [executions[e] EXCEPT !.status = "failed", !.error = "INTERRUPTED",
                              !.revision = @ + 1].affected = executions[e].affected
    BY <2>1 DEF Execution
  <2> QED  BY <1>3, <2>2, CloseOrphanStep DEF Honest
<1>4. CASE Create(w)
  <2>1. Created(w).affected = 0
    BY DEF Created, NoExecution
  <2> QED  BY <1>4, <2>1, CreateStep DEF Honest
<1>5. \/ executions' = executions
      \/ SaveBatch(w) \/ Finish(w) \/ Fail(w) \/ Create(w)
      \/ \E e \in Executions : CloseOrphan(w, e)
  BY DEF WorkerStep, Work, StartScheduled, Decide, StartManual, Count, Acquire,
         FindOrphans, Renew, Select, Delete, Release, DeleteUnanswered, Throw, Crash
<1> QED  BY <1>1, <1>2, <1>3, <1>4, <1>5

\* A worker ends its run, has counted nothing, or goes on with its execution.
LEMMA WorkerKeeps ==
  ASSUME Base, Unstarted, NEW w \in Workers, WorkerStep(w), ~Delete(w)
  PROVE  Keeps(w) /\ Starts(w)
<1> USE DEF Batching, Locking
<1>0. session[w] \in Session
  BY DEF Base, TypeOK
<1>1. CASE \/ session'[w].affected = 0
           \/ session'[w].pc \in {"idle", "releasing"}
           \/ /\ session[w].pc \in Batching /\ session'[w].pc \in Batching
              /\ session'[w].execution = session[w].execution
              /\ session'[w].affected = session[w].affected
  BY <1>1 DEF Keeps, Starts, Counts
<1>2. CASE session'[w] = Idle \/ session'[w] = [session[w] EXCEPT !.pc = "releasing"]
  BY <1>0, <1>1, <1>2 DEF Idle, Session
<1>3. CASE \E e : session'[w] = [session[w] EXCEPT !.pc = "failing", !.error = e]
              /\ session[w].pc \in Batching
  BY <1>0, <1>1, <1>3 DEF Session
<1>4. CASE StartScheduled(w) /\ w \in Schedulers
  BY <1>1, <1>4, StartScheduledStep DEF Idle
<1>5. CASE StartManual(w) /\ w \in Managers
  BY <1>1, <1>5, StartManualStep DEF Idle
<1>6. CASE Count(w) /\ w \in Managers
  <2>1. session[w].pc = "counting" /\ session[w].affected = 0
    BY <1>6 DEF Count, Unstarted
  <2>2. ASSUME NEW x, session'[w] = [session[w] EXCEPT !.pc = "locking", !.expected = x]
        PROVE  session'[w].affected = 0
    BY <1>0, <2>1, <2>2 DEF Session
  <2>3. session'[w] = Idle \/ session'[w].affected = 0
    BY <1>6, <2>2, CountStep
  <2> QED  BY <1>1, <1>2, <2>3
<1>7. CASE Acquire(w)
  <2>1. session[w].affected = 0
    BY <1>7 DEF Acquire, Unstarted
  <2> QED  BY <1>0, <1>1, <1>2, <1>7, <2>1, AcquireStep DEF Session
<1>8. CASE FindOrphans(w)
  <2>1. session[w].affected = 0
    BY <1>8 DEF FindOrphans, Unstarted
  <2> QED  BY <1>0, <1>1, <1>8, <2>1, FindOrphansStep DEF Session
<1>9. CASE \E e \in Executions : CloseOrphan(w, e)
  <2>1. session[w].affected = 0
    BY <1>9 DEF CloseOrphan, Unstarted
  <2> QED  BY <1>0, <1>1, <1>2, <1>9, <2>1, CloseOrphanStep DEF Session
<1>10. CASE Decide(w) /\ w \in Schedulers
  <2>1. session[w].affected = 0
    BY <1>10 DEF Decide, Swept, Unstarted
  <2> QED  BY <1>0, <1>1, <1>2, <1>10, <2>1, DecideStep DEF Session
<1>11. CASE Create(w)
  <2>1. session[w].affected = 0
    BY <1>11 DEF Create, Swept, Unstarted
  <2> QED  BY <1>0, <1>1, <1>2, <1>11, <2>1, CreateStep DEF Session
<1>12. CASE Renew(w)
  <2>1. session[w].pc \in Batching
    BY <1>12 DEF Renew
  <2> QED  BY <1>0, <1>1, <1>3, <1>12, <2>1, RenewStep DEF Session
<1>13. CASE Select(w)
  <2>1. session[w].pc \in Batching
    BY <1>13 DEF Select
  <2> QED  BY <1>0, <1>1, <1>13, <2>1, SelectStep DEF Session
<1>14. CASE SaveBatch(w)
  <2>1. session[w].pc \in Batching
    BY <1>14 DEF SaveBatch
  <2> QED  BY <1>0, <1>1, <1>3, <1>14, <2>1, SaveBatchStep DEF Session
<1>15. CASE Finish(w) \/ Fail(w) \/ DeleteUnanswered(w)
  <2>1. session[w].pc \in Batching
    BY <1>15 DEF Finish, Fail, DeleteUnanswered
  <2> QED  BY <1>2, <1>3, <1>15, <2>1, FinishStep, FailStep, DeleteUnansweredStep
<1>16. CASE Release(w) \/ Throw(w) \/ Crash(w)
  BY <1>2, <1>3, <1>16, ReleaseStep, ThrowStep, CrashStep
<1> QED  BY <1>4, <1>5, <1>6, <1>7, <1>8, <1>9, <1>10, <1>11, <1>12, <1>13, <1>14, <1>15, <1>16
         DEF WorkerStep, Work

LEMMA WorkerOthers ==
  ASSUME TypeOK, NEW w \in Workers, WorkerStep(w)
  PROVE  Others(w) /\ purged \subseteq purged'
<1>1. purged \subseteq purged'
  BY DEF WorkerStep, Work, StartScheduled, Decide, StartManual, Count, Acquire, FindOrphans,
         Create, Renew, Select, Delete, SaveBatch, Finish, Fail, Release, CloseOrphan,
         DeleteUnanswered, Throw, Crash
<1>2. \E s : Become(w, s)
  BY DEF WorkerStep, Work, StartScheduled, Decide, StartManual, Count, Acquire, FindOrphans,
         Create, Renew, Select, Delete, SaveBatch, Finish, Fail, Release, CloseOrphan,
         DeleteUnanswered, Throw, Crash, Goto
<1> QED  BY <1>1, <1>2, OthersStay

LEMMA AccountedStep ==
  ASSUME IInv, Accounted, [Next]_vars
  PROVE  Accounted'
<1>1. CASE Environment \/ UNCHANGED vars
  <2>1. UNCHANGED <<purged, executions, session>>
    BY <1>1 DEF Environment, PublishPolicy, Tick, WriteLog, vars
  <2> QED  BY <2>1 DEF Accounted, Unstarted, Noted, Reported, Counts
<1>2. ASSUME NEW w \in Workers, WorkerStep(w) PROVE Accounted'
  <2>1. Base /\ Base' /\ TypeOK /\ TypeOK'
    BY <1>2, WorkerBase DEF IInv, Base
  <2>2. CASE Delete(w)
    BY <2>1, <2>2, AccountedDelete
  <2>3. CASE ~Delete(w)
    <3>1. Keeps(w) /\ Starts(w) /\ Honest(w) /\ Others(w) /\ purged \subseteq purged'
      BY <1>2, <2>1, <2>3, WorkerKeeps, WorkerHonest, WorkerOthers DEF Accounted
    <3> QED  BY <2>1, <3>1, AccountedKept
  <2> QED  BY <2>2, <2>3
<1> QED  BY <1>1, <1>2, NextSteps

\* Every deletion an execution reports has been made, and is reported once, even
\* when two runs have selected the same logs or a stale save comes back.
THEOREM AffectedAccountedHolds == Spec => []AffectedAccounted
<1>1. IInv /\ Accounted /\ [Next]_vars => Accounted'
  BY AccountedStep
<1>2. IInv /\ Accounted => AffectedAccounted
  BY AccountedReports DEF IInv, Base
<1> QED  BY <1>1, <1>2, AccountedInit, Invariance, PTL DEF Spec

=============================================================================
