------------------------------ MODULE RetentionEngine ------------------------------
(***************************************************************************)
(* The purge of one retention target, the audit log: versioned policies,   *)
(* a lock with a lease, and executions that delete in batches and leave a  *)
(* durable trace.                                                          *)
(*                                                                         *)
(* Schedulers (processes of the periodic job) and managers (requests of a  *)
(* platform administrator) run the same engine.  Each database call is a   *)
(* step of its own: a run may stall between two of them until its lease    *)
(* has expired and another run has taken the target over.                  *)
(*                                                                         *)
(* Data kept abstract: a lease identifier is the worker that drew it, an   *)
(* execution document is drawn from a fixed set, `selected`, `processed`   *)
(* and `skipped` follow from the batch and from `affected`, and the        *)
(* confirmation phrase is the version it names.  Each target has a lock,   *)
(* policies and executions of its own, so one target stands for all.       *)
(***************************************************************************)
EXTENDS Integers, Sequences, FiniteSets

CONSTANTS
    Schedulers,     \* processes of the retention job
    Managers,       \* manual executions asked for by administrators
    Logs,           \* audit logs that may be written
    Executions,     \* bound: RetentionExecution documents
    Configs,        \* configurations a policy version may have
    Lease,          \* RETENTION_LOCK_LEASE_MS, in ticks
    MaxTime,        \* bound: ticks of the clock
    MaxPolicies,    \* bound: versions of the policy
    MaxFaults,      \* bound: calls that fail and processes that die
    None            \* the null of the documents

Workers == Schedulers \cup Managers

\* The configuration of a policy version; schedule.intervalMinutes is read only
\* when `scheduled` says that the schedule is not null.
Config ==
    [enabled : BOOLEAN, scheduled : BOOLEAN, manual : BOOLEAN,
     days : Nat \ {0}, batch : Nat \ {0}, batches : Nat \ {0},
     interval : Nat \ {0}]

ASSUME ConstantsAssumption ==
    /\ Schedulers \cap Managers = {}
    /\ Configs \subseteq Config
    /\ Lease \in Nat \ {0}
    /\ MaxTime \in Nat /\ MaxPolicies \in Nat /\ MaxFaults \in Nat
    /\ IsFiniteSet(Logs) /\ IsFiniteSet(Executions)
    /\ None \notin Nat \cup Executions \cup Workers

VARIABLES
    clock,          \* the time every process reads
    created,        \* createdAt of each log, or None
    purged,         \* the logs deleted
    policies,       \* RetentionPolicy documents, in the order of their versions
    lock,           \* the RetentionLock document of the target
    executions,     \* RetentionExecution documents
    session,        \* what each worker has read and holds
    faults          \* failures so far

vars == <<clock, created, purged, policies, lock, executions, session, faults>>

-----------------------------------------------------------------------------
(* The documents and the workers.                                          *)

\* The rules of the document's validation that relate two of its fields.
Consistent(x) ==
    /\ x.status # "none" => x.cutoff < x.startedAt
    /\ x.status = "failed" <=> x.error # "none"

\* `expected` is the impact the request had confirmed; it is not stored.
Execution ==
  {x \in
    [status : {"none", "running", "succeeded", "failed"},
     version : Nat, scheduled : BOOLEAN, startedAt : Nat, cutoff : Int,
     affected : Nat, batches : Nat, expected : Nat, revision : Nat,
     error : {"none", "INTERRUPTED", "LOCK_LOST", "FAILED"}] :
    Consistent(x)}

NoExecution ==
    [status |-> "none", version |-> 0, scheduled |-> FALSE, startedAt |-> 0,
     cutoff |-> 0, affected |-> 0, batches |-> 0, expected |-> 0,
     revision |-> 0, error |-> "none"]

\* The unacquired lock, or the lease of a worker.
Lock == [lease : Workers \cup {None}, expires : Nat]

Free == [lease |-> None, expires |-> 0]

\* Where a worker is in runScheduledRetentionTarget or executeRetentionPolicy.
Locking  == {"locking", "closing", "sweeping", "creating"}
Batching == {"renewing", "selecting", "deleting", "saving", "confirming",
             "finishing", "failing"}

\* `orphans` are the executions found running and the revisions they were read at;
\* `affected` and `batches` are the counters of the execution in memory.
Session ==
    [pc : {"idle", "counting", "releasing"} \cup Locking \cup Batching,
     now : Nat, version : Nat, expected : Nat,
     orphans : [Executions -> Nat \cup {None}],
     execution : Executions \cup {None}, revision : Nat,
     batch : SUBSET Logs, affected : Nat, batches : Nat,
     error : {"none", "LOCK_LOST", "FAILED"}]

NoOrphans == [e \in Executions |-> None]

Idle ==
    [pc |-> "idle", now |-> 0, version |-> 0, expected |-> 0,
     orphans |-> NoOrphans, execution |-> None, revision |-> 0, batch |-> {},
     affected |-> 0, batches |-> 0, error |-> "none"]

TypeOK ==
    /\ clock \in Nat
    /\ created \in [Logs -> Nat \cup {None}]
    /\ purged \subseteq Logs
    /\ policies \in Seq(Configs)
    /\ lock \in Lock
    /\ executions \in [Executions -> Execution]
    /\ session \in [Workers -> Session]
    /\ faults \in 0..MaxFaults

Init ==
    /\ clock = 0
    /\ created = [l \in Logs |-> None]
    /\ purged = {}
    /\ policies = <<>>
    /\ lock = Free
    /\ executions = [e \in Executions |-> NoExecution]
    /\ session = [w \in Workers |-> Idle]
    /\ faults = 0

-----------------------------------------------------------------------------
(* Helpers.                                                                *)

\* getCurrentRetentionPolicy: the highest version.
Current == policies[Len(policies)]

\* isPolicyScheduled, of the current policy.
Scheduled == policies # <<>> /\ Current.enabled /\ Current.scheduled

\* Mutant of Cutoff: the duration of the retention is not subtracted.
CutoffNow(config, now) == now

\* calculateRetentionCutoff.
Cutoff(config, now) == now - config.days

\* buildEligibilityFilter of the audit log adapter.
Eligible(cutoff) ==
    {l \in Logs : created[l] # None /\ l \notin purged /\ created[l] <= cutoff}

\* The earliest of some logs, at most `size` of them.
Earliest(logs, size) ==
    {b \in SUBSET logs :
        /\ Cardinality(b) <= size
        /\ \A l \in b, k \in logs \ b : created[l] <= created[k]
        /\ Cardinality(b) < size => b = logs}

\* executeBatch: what a batch may select.
Batches(cutoff, size) == Earliest(Eligible(cutoff), size)

\* previewRetentionPolicy: maxAffectedThisRun.
MaxAffected(config, now) ==
    LET eligible == Cardinality(Eligible(Cutoff(config, now)))
        bound    == config.batch * config.batches
    IN  IF eligible < bound THEN eligible ELSE bound

\* The configuration a run executes, a snapshot taken when it read the policy.
Snapshot(w) == policies[session[w].version]

Become(w, s) == session' = [session EXCEPT ![w] = s]

Goto(w, pc) == Become(w, [session[w] EXCEPT !.pc = pc])

Fault == faults < MaxFaults /\ faults' = faults + 1

\* Mutant of Fresh: the save does not compare the revision it read.
FreshAlways(e, revision) == TRUE

\* optimisticConcurrency: a save applies to the revision its document was read at.
Fresh(e, revision) == executions[e].revision = revision

Save(e, x) == executions' = [executions EXCEPT ![e] = [x EXCEPT !.revision = @ + 1]]

\* What a worker does not touch: the environment's state.
environment == <<clock, created, policies>>

-----------------------------------------------------------------------------
(* The start of a run.                                                     *)

\* A job reads the clock and the policy; without a schedule it does nothing.
StartScheduled(s) ==
    /\ session[s].pc = "idle"
    /\ Scheduled
    /\ Become(s, [Idle EXCEPT !.pc = "locking", !.now = clock])
    /\ UNCHANGED <<environment, purged, lock, executions, faults>>

\* executePlatformRetentionPolicyManually: the policy allows it, and it has the
\* version the request expects (a request that expects another one is refused).
StartManual(m) ==
    /\ session[m].pc = "idle"
    /\ policies # <<>> /\ Current.enabled /\ Current.manual
    /\ Become(m, [Idle EXCEPT !.pc = "counting", !.now = clock,
                              !.version = Len(policies)])
    /\ UNCHANGED <<environment, purged, lock, executions, faults>>

\* The impact is computed again, and refused when it is not the one confirmed.
Count(m) ==
    /\ session[m].pc = "counting"
    /\ \/ Become(m, [session[m] EXCEPT !.pc = "locking",
                        !.expected = MaxAffected(Snapshot(m), session[m].now)])
       \/ Become(m, Idle)
    /\ UNCHANGED <<environment, purged, lock, executions, faults>>

-----------------------------------------------------------------------------
(* The lock.                                                               *)

Acquirable(now) == lock.lease = None \/ lock.expires <= now

\* acquireRetentionLock, one upsert under a unique index: locked ends the run.
Acquire(w) ==
    /\ session[w].pc = "locking"
    /\ \/ /\ Acquirable(session[w].now)
          /\ lock' = [lease |-> w, expires |-> session[w].now + Lease]
          /\ Goto(w, "closing")
       \/ /\ ~Acquirable(session[w].now)
          /\ Become(w, Idle)
          /\ UNCHANGED lock
    /\ UNCHANGED <<environment, purged, executions, faults>>

\* Mutant of Renewable: any lease still active is prolonged, whoever holds it.
RenewableByAll(w) == lock.expires > clock

\* renewRetentionLock: the same lease, and still active.
Renewable(w) == lock.lease = w /\ lock.expires > clock

\* Another batch: the last one was full and the policy allows one more.
More(w) ==
    /\ Cardinality(session[w].batch) >= Snapshot(w).batch
    /\ session[w].batches < Snapshot(w).batches

\* The renewal before a batch, and the one after it.
Renew(w) ==
    /\ session[w].pc \in {"renewing", "confirming"}
    /\ \/ /\ Renewable(w)
          /\ lock' = [lock EXCEPT !.expires = clock + Lease]
          /\ Become(w, [session[w] EXCEPT !.batch = {},
                          !.pc = IF session[w].pc = "renewing" THEN "selecting"
                                 ELSE IF More(w) THEN "renewing" ELSE "finishing"])
       \/ /\ ~Renewable(w)
          /\ Become(w, [session[w] EXCEPT !.pc = "failing", !.error = "LOCK_LOST"])
          /\ UNCHANGED lock
    /\ UNCHANGED <<environment, purged, executions, faults>>

\* releaseRetentionLock, from `finally`: a lease taken over is left alone.
Release(w) ==
    /\ session[w].pc = "releasing"
    /\ lock' = IF lock.lease = w THEN Free ELSE lock
    /\ Become(w, Idle)
    /\ UNCHANGED <<environment, purged, executions, faults>>

-----------------------------------------------------------------------------
(* The executions left behind.                                             *)

\* Mutant of Running: only the executions that have recorded a batch are found.
RunningStarted ==
    {e \in Executions : executions[e].status = "running" /\ executions[e].batches > 0}

Running == {e \in Executions : executions[e].status = "running"}

\* markInterruptedRetentionExecutions reads the running ones...
FindOrphans(w) ==
    /\ session[w].pc = "closing"
    /\ Become(w, [session[w] EXCEPT !.pc = "sweeping",
                    !.orphans = [e \in Executions |->
                        IF e \in Running THEN executions[e].revision ELSE None]])
    /\ UNCHANGED <<environment, purged, lock, executions, faults>>

Orphans(w) == {e \in Executions : session[w].orphans[e] # None}

\* ... and closes them one by one, oldest first; one that its worker has saved
\* meanwhile ends the run with a version error.
CloseOrphan(w, e) ==
    /\ session[w].pc = "sweeping"
    /\ e \in Orphans(w)
    /\ \A o \in Orphans(w) : executions[e].startedAt <= executions[o].startedAt
    /\ \/ /\ Fresh(e, session[w].orphans[e])
          /\ Save(e, [executions[e] EXCEPT !.status = "failed", !.error = "INTERRUPTED"])
          /\ Become(w, [session[w] EXCEPT !.orphans[e] = None])
       \/ /\ ~Fresh(e, session[w].orphans[e])
          /\ Goto(w, "releasing")
          /\ UNCHANGED executions
    /\ UNCHANGED <<environment, purged, lock, faults>>

Swept(w) == session[w].pc = "sweeping" /\ Orphans(w) = {}

-----------------------------------------------------------------------------
(* A run.                                                                  *)

\* Mutant of NotDue: every launch of the job is due.
DueAlways(version, now) == FALSE

\* The last successful scheduled execution of the version was less than the
\* interval ago.
NotDue(version, now) ==
    \E e \in Executions :
        /\ executions[e].status = "succeeded"
        /\ executions[e].scheduled
        /\ executions[e].version = version
        /\ executions[e].startedAt + policies[version].interval > now

\* A scheduler reads the policy again under its lock.
Decide(s) ==
    /\ Swept(s)
    /\ IF Scheduled /\ ~NotDue(Len(policies), session[s].now)
         THEN Become(s, [session[s] EXCEPT !.pc = "creating", !.version = Len(policies)])
         ELSE Goto(s, "releasing")
    /\ UNCHANGED <<environment, purged, lock, executions, faults>>

\* The execution is stored before anything is deleted; a manual one does not
\* read the policy again.  Bound: when no document of Executions is left, the
\* creation fails as one the database refuses does.
Create(w) ==
    LET now == session[w].now
        unused == {e \in Executions : executions[e].status = "none"}
    IN  /\ session[w].pc = "creating" \/ (w \in Managers /\ Swept(w))
        /\ \/ /\ unused # {}
              /\ LET e == CHOOSE e \in unused : TRUE
                 IN  /\ executions' = [executions EXCEPT ![e] =
                            [NoExecution EXCEPT
                                !.status = "running", !.version = session[w].version,
                                !.scheduled = (w \in Schedulers), !.startedAt = now,
                                !.cutoff = Cutoff(Snapshot(w), now),
                                !.expected = session[w].expected]]
                     /\ Become(w, [session[w] EXCEPT !.pc = "renewing", !.execution = e,
                                                     !.revision = 0])
           \/ /\ unused = {}
              /\ Goto(w, "releasing")
              /\ UNCHANGED executions
        /\ UNCHANGED <<environment, purged, lock, faults>>

\* executeBatch selects the identifiers...
Select(w) ==
    /\ session[w].pc = "selecting"
    /\ \E b \in Batches(executions[session[w].execution].cutoff, Snapshot(w).batch) :
          Become(w, [session[w] EXCEPT !.batch = b,
                        !.pc = IF b = {} THEN "finishing" ELSE "deleting"])
    /\ UNCHANGED <<environment, purged, lock, executions, faults>>

\* deletedCount: what another run had deleted meanwhile is skipped.
Affected(batch) == Cardinality(batch \ purged)

\* ... and deletes those still there; the engine adds the counters up in memory.
Delete(w) ==
    /\ session[w].pc = "deleting"
    /\ purged' = purged \cup session[w].batch
    /\ Become(w, [session[w] EXCEPT !.pc = "saving", !.batches = @ + 1,
                    !.affected = @ + Affected(session[w].batch)])
    /\ UNCHANGED <<environment, lock, executions, faults>>

\* A deletion whose answer is lost is not counted.
DeleteUnanswered(w) ==
    /\ session[w].pc = "deleting"
    /\ Fault
    /\ purged' = purged \cup session[w].batch
    /\ Become(w, [session[w] EXCEPT !.pc = "failing", !.error = "FAILED"])
    /\ UNCHANGED <<environment, lock, executions>>

\* Mutant of InMemory: every save adds the counters up again.
InMemoryAdded(w) ==
    [executions[session[w].execution] EXCEPT
        !.affected = @ + session[w].affected, !.batches = session[w].batches]

\* The document a worker has in memory, with its counters.
InMemory(w) ==
    [executions[session[w].execution] EXCEPT
        !.affected = session[w].affected, !.batches = session[w].batches]

\* execution.save() of the worker that created it; a version error stops it.
SaveBatch(w) ==
    LET e == session[w].execution
    IN  /\ session[w].pc = "saving"
        /\ \/ /\ Fresh(e, session[w].revision)
              /\ Save(e, InMemory(w))
              /\ Become(w, [session[w] EXCEPT !.pc = "confirming", !.revision = @ + 1])
           \/ /\ ~Fresh(e, session[w].revision)
              /\ Become(w, [session[w] EXCEPT !.pc = "failing", !.error = "FAILED"])
              /\ UNCHANGED executions
        /\ UNCHANGED <<environment, purged, lock, faults>>

Finish(w) ==
    LET e == session[w].execution
    IN  /\ session[w].pc = "finishing"
        /\ \/ /\ Fresh(e, session[w].revision)
              /\ Save(e, [InMemory(w) EXCEPT !.status = "succeeded"])
              /\ Goto(w, "releasing")
           \/ /\ ~Fresh(e, session[w].revision)
              /\ Become(w, [session[w] EXCEPT !.pc = "failing", !.error = "FAILED"])
              /\ UNCHANGED executions
        /\ UNCHANGED <<environment, purged, lock, faults>>

\* The error path: an execution that another worker has closed is left as it is.
Fail(w) ==
    LET e == session[w].execution
    IN  /\ session[w].pc = "failing"
        /\ IF Fresh(e, session[w].revision)
             THEN Save(e, [InMemory(w) EXCEPT !.status = "failed", !.error = session[w].error])
             ELSE UNCHANGED executions
        /\ Goto(w, "releasing")
        /\ UNCHANGED <<environment, purged, lock, faults>>

\* A call fails and throws: before the execution exists the run is over, then
\* it is marked failed, and when that fails too only the release is left.
Throw(w) ==
    /\ session[w].pc # "idle"
    /\ Fault
    /\ Become(w,
         CASE session[w].pc \in {"counting", "locking", "releasing"} -> Idle
           [] session[w].pc \in Batching \ {"failing"} ->
                [session[w] EXCEPT !.pc = "failing", !.error = "FAILED"]
           [] OTHER -> [session[w] EXCEPT !.pc = "releasing"])
    /\ UNCHANGED <<environment, purged, lock, executions>>

\* The process dies.  Bound: while the clock can still reach the end of its lease.
Crash(w) ==
    /\ session[w].pc # "idle"
    /\ Fault
    /\ lock.lease = w => lock.expires <= MaxTime
    /\ Become(w, Idle)
    /\ UNCHANGED <<environment, purged, lock, executions>>

-----------------------------------------------------------------------------
(* The environment.                                                        *)

\* createPlatformRetentionPolicyVersion: the next version, once; the version the
\* administrator expects and the unique index refuse a second one.
PublishPolicy ==
    /\ Len(policies) < MaxPolicies
    /\ \E config \in Configs : policies' = Append(policies, config)
    /\ UNCHANGED <<clock, created, purged, lock, executions, session, faults>>

\* The application writes a log.
WriteLog(l) ==
    /\ created[l] = None
    /\ created' = [created EXCEPT ![l] = clock]
    /\ UNCHANGED <<clock, purged, policies, lock, executions, session, faults>>

Tick ==
    /\ clock < MaxTime
    /\ clock' = clock + 1
    /\ UNCHANGED <<created, purged, policies, lock, executions, session, faults>>

\* The steps of a run that has started.
Work(w) ==
    \/ Acquire(w) \/ FindOrphans(w) \/ Create(w)
    \/ Renew(w) \/ Select(w) \/ Delete(w) \/ SaveBatch(w) \/ Finish(w) \/ Fail(w)
    \/ Release(w)
    \/ \E e \in Executions : CloseOrphan(w, e)

Next ==
    \/ \E s \in Schedulers : StartScheduled(s) \/ Decide(s)
    \/ \E m \in Managers : StartManual(m) \/ Count(m)
    \/ \E w \in Workers : Work(w) \/ DeleteUnanswered(w) \/ Throw(w) \/ Crash(w)
    \/ \E l \in Logs : WriteLog(l)
    \/ PublishPolicy \/ Tick

Spec == Init /\ [][Next]_vars

\* A cron keeps launching the job, a run goes on until it fails, time passes.
\* Nobody has to publish a policy or to ask for a manual execution.
Fairness ==
    /\ \A s \in Schedulers : WF_vars(StartScheduled(s)) /\ WF_vars(Decide(s))
    /\ \A m \in Managers : WF_vars(Count(m))
    /\ \A w \in Workers : WF_vars(Work(w))
    /\ WF_vars(Tick)

FairSpec == Spec /\ Fairness

-----------------------------------------------------------------------------
(* Properties.                                                             *)

\* While a worker that has swept the target holds its lease, no other running
\* execution has recorded a batch: the runs whose lease it took over are closed,
\* and one that was late to create its execution cannot renew.
ExclusiveProgress ==
    \A w \in Workers, e \in Executions :
        /\ lock.lease = w
        /\ (Swept(w) \/ session[w].pc \in {"creating"} \cup Batching)
        /\ executions[e].status = "running"
        /\ e # session[w].execution
        => executions[e].batches = 0

\* The deletions the executions report, each as its execution and its rank in it.
Reported == UNION {{e} \X (1..executions[e].affected) : e \in Executions}

\* What the executions report as deleted is deleted, and counted once, even when
\* two runs have selected the same logs.
AffectedAccounted == Cardinality(Reported) <= Cardinality(purged)

\* Two successful scheduled executions of a policy version start at least an
\* interval apart, however many processes found it due at the same time.
ScheduledCadence ==
    \A d, e \in Executions :
        /\ d # e
        /\ executions[d].status = "succeeded" /\ executions[e].status = "succeeded"
        /\ executions[d].scheduled /\ executions[e].scheduled
        /\ executions[d].version = executions[e].version
        => LET interval == policies[executions[d].version].interval
           IN  \/ executions[d].startedAt + interval <= executions[e].startedAt
               \/ executions[e].startedAt + interval <= executions[d].startedAt

\* An execution that has ended never changes again, whoever comes back late.
ClosedStaysClosed ==
    [][\A e \in Executions :
          executions[e].status \in {"succeeded", "failed"}
          => executions'[e] = executions[e]]_vars

\* A log is deleted only past the retention of some version of the policy that
\* was enabled.
RetentionKept ==
    [][\A l \in purged' \ purged :
          \E v \in 1..Len(policies) :
              policies[v].enabled /\ created[l] + policies[v].days <= clock]_vars

\* A running execution whose worker died or was superseded is closed, as long as
\* the policy is scheduled.
RunningIsClosed ==
    \A e \in Executions :
        executions[e].status = "running"
            ~> executions[e].status # "running" \/ ~Scheduled

=============================================================================
