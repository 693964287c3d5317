------------------------------ MODULE FilePipeline ------------------------------
(***************************************************************************)
(* The files of a workspace: their bytes at the storage provider, their    *)
(* documents, and the counters of storage and of monthly uploads.          *)
(*                                                                         *)
(* An upload crosses quarantine, inspection and storage before its         *)
(* document exists, and the database and the provider share no             *)
(* transaction: each call is a step of its own, and a request may die      *)
(* between two of them.  A deletion is logical; the bytes are destroyed    *)
(* by purge jobs, or by a user at once, under a claim with a lease.  What  *)
(* a job or a request has read is kept in `session` until it writes.       *)
(*                                                                         *)
(* Data kept abstract: a file is its upload, a claim identifier is the     *)
(* process that drew it (a process holds one claim at a time, and its      *)
(* claims of an earlier run are finalized by nobody), a month is           *)
(* MonthLength ticks, and the content inspection is its verdict.           *)
(***************************************************************************)
EXTENDS Integers, FiniteSets

CONSTANTS
    Files,          \* uploads that may be asked for, in one workspace
    Jobs,           \* processes of the purge job
    Requests,       \* restores and permanent deletions in progress at once
    Size,           \* sizeBytes of each file
    Limits,         \* storage limits a contract or an override may grant
    UploadLimits,   \* limits of monthly uploads it may grant
    Unlimited,      \* the limit null
    Retention,      \* FILE_RETENTION_DAYS, in ticks
    Lease,          \* PURGE_CLAIM_LEASE_MS, in ticks
    TemporaryAge,   \* the age at which a quarantined file is an orphan
    BatchSize,      \* candidates of one run of the purge job
    MonthLength,    \* ticks of a calendar month
    MaxTime,        \* bound: ticks of the clock
    MaxFaults,      \* bound: failures of processes, provider and database
    MaxContracts,   \* bound: changes of the limits
    None            \* the null of the documents

ASSUME ConstantsAssumption ==
    /\ \A f \in Files : Size[f] \in Nat \ {0}
    /\ Limits \subseteq Nat \cup {Unlimited}
    /\ UploadLimits \subseteq Nat \cup {Unlimited}
    /\ Retention \in Nat \ {0, 1} /\ Lease \in Nat \ {0}
    /\ TemporaryAge \in Nat /\ BatchSize \in Nat \ {0}
    /\ MonthLength \in Nat \ {0}
    /\ MaxTime \in Nat /\ MaxFaults \in Nat /\ MaxContracts \in Nat
    /\ None \notin Nat \cup Files \cup Jobs \cup Requests

VARIABLES
    clock,          \* the time every process reads
    upload,         \* how far the request of each upload is
    temporary,      \* when each file entered the quarantine, or None
    content,        \* the files whose bytes the provider holds
    doc,            \* File documents
    storage,        \* UsageMetric storage_bytes
    uploads,        \* UsageMetric file_uploads_monthly, per month
    contract,       \* limits and feature of the effective entitlement
    session,        \* what each job and each request has read
    faults          \* failures so far

vars == <<clock, upload, temporary, content, doc, storage, uploads, contract,
          session, faults>>

-----------------------------------------------------------------------------
(* The documents and the processes.                                        *)

Processes == Jobs \cup Requests

\* QUARANTINED and REJECTED are the model's default and never written.
Statuses == {"none", "ACTIVE", "DELETED", "PURGED"}

File ==
    [status : Statuses, month : Nat, deletedAt : Nat, purgeScheduledAt : Nat,
     claim : Processes \cup {None}, claimExpiresAt : Nat,
     releasePending : BOOLEAN]

NoFile ==
    [status |-> "none", month |-> 0, deletedAt |-> 0, purgeScheduledAt |-> 0,
     claim |-> None, claimExpiresAt |-> 0, releasePending |-> FALSE]

Months == 0..(MaxTime \div MonthLength)

Stages == {"none", "received", "inspected", "stored", "compensating",
           "done", "failed"}

\* A job works through a batch; a request has one file and the candidate it read.
Session ==
    [pc : {"idle", "batch", "checking", "restoring", "accelerating",
           "claiming", "deleting", "finalizing"},
     now : Nat, batch : SUBSET Files, file : Files \cup {None}, seen : File]

Idle == [pc |-> "idle", now |-> 0, batch |-> {}, file |-> None, seen |-> NoFile]

Contract ==
    [storage : Limits, uploads : UploadLimits, file_upload : BOOLEAN,
     changes : 0..MaxContracts]

TypeOK ==
    /\ clock \in Nat
    /\ upload \in [Files -> Stages]
    /\ temporary \in [Files -> Nat \cup {None}]
    /\ content \subseteq Files
    /\ doc \in [Files -> File]
    /\ storage \in Nat
    /\ uploads \in [Months -> Nat]
    /\ contract \in Contract
    /\ session \in [Processes -> Session]
    /\ faults \in 0..MaxFaults

-----------------------------------------------------------------------------
(* Helpers.                                                                *)

\* resolveUsageMetricPeriod: [periodStart, periodEnd) holds the instant.
Month(t) == t \div MonthLength

WithinLimit(limit, value) == limit # Unlimited => value <= limit

\* assertEntitlementFeatureAvailable and the two reservations of one upload.
Reservable(f) ==
    /\ contract.file_upload
    /\ WithinLimit(contract.uploads, uploads[Month(clock)] + 1)
    /\ WithinLimit(contract.storage, storage + Size[f])

Claimed(file) == file.claim # None

\* Mutant of Due: the deadline is not part of the filter.
DueAnyTime(f, now) == doc[f].status = "DELETED"

\* buildDuePurgeFilter.
Due(f, now) == doc[f].status = "DELETED" /\ doc[f].purgeScheduledAt <= now

\* Mutant of Claimable: a claim whose lease has expired is not resumed.
ClaimableOnce(f, now) == Due(f, now) /\ ~Claimed(doc[f])

\* The two compare-and-sets of claimPurgeCandidate: never claimed, or expired.
Claimable(f, now) ==
    /\ Due(f, now)
    /\ Claimed(doc[f]) => doc[f].claimExpiresAt <= now

\* The earliest BatchSize files due; the index breaks ties by identifier.
Batches(now) ==
    LET due == {f \in Files : Due(f, now)}
    IN {B \in SUBSET due :
          /\ Cardinality(B) = (IF Cardinality(due) < BatchSize
                               THEN Cardinality(due) ELSE BatchSize)
          /\ \A f \in B, g \in due \ B :
                doc[f].purgeScheduledAt <= doc[g].purgeScheduledAt}

Fault == faults < MaxFaults /\ faults' = faults + 1

\* Bound: a deadline or a lease that matters comes before the clock stops.
DeadlineInTime == clock + Retention <= MaxTime
LeasesInTime(p) ==
    \A f \in Files : doc[f].claim = p => doc[f].claimExpiresAt <= MaxTime

-----------------------------------------------------------------------------
(* persistUploadedFile.                                                    *)

Init ==
    /\ clock = 0
    /\ upload = [f \in Files |-> "none"]
    /\ temporary = [f \in Files |-> None]
    /\ content = {}
    /\ doc = [f \in Files |-> NoFile]
    /\ storage = 0
    /\ uploads = [m \in Months |-> 0]
    /\ contract \in {c \in Contract : c.file_upload /\ c.changes = 0}
    /\ session = [p \in Processes |-> Idle]
    /\ faults = 0

database == <<doc, storage, uploads>>

\* The middlewares let the request in and Multer writes the quarantine.
Receive(f) ==
    /\ upload[f] = "none"
    /\ contract.file_upload
    /\ upload' = [upload EXCEPT ![f] = "received"]
    /\ temporary' = [temporary EXCEPT ![f] = clock]
    /\ UNCHANGED <<clock, content, database, contract, session, faults>>

\* Type, checksum and antivirus read the quarantined file: it is clean.
Inspect(f) ==
    /\ upload[f] = "received"
    /\ temporary[f] # None
    /\ upload' = [upload EXCEPT ![f] = "inspected"]
    /\ UNCHANGED <<clock, temporary, content, database, contract, session, faults>>

\* The inspection, the preparation or the provider refuses: the quarantine is
\* emptied, unless that fails too.
Reject(f) ==
    /\ upload[f] \in {"received", "inspected"}
    /\ upload' = [upload EXCEPT ![f] = "failed"]
    /\ \/ temporary' = [temporary EXCEPT ![f] = None] /\ UNCHANGED faults
       \/ UNCHANGED temporary /\ Fault
    /\ UNCHANGED <<clock, content, database, contract, session>>

\* storeFromTemporaryPath copies, then removes the source.
Store(f) ==
    /\ upload[f] = "inspected"
    /\ temporary[f] # None
    /\ upload' = [upload EXCEPT ![f] = "stored"]
    /\ temporary' = [temporary EXCEPT ![f] = None]
    /\ content' = content \cup {f}
    /\ UNCHANGED <<clock, database, contract, session, faults>>

\* The copy is made, the source cannot be removed, nor the copy.
StoreTwice(f) ==
    /\ upload[f] = "inspected"
    /\ temporary[f] # None
    /\ upload' = [upload EXCEPT ![f] = "failed"]
    /\ content' = content \cup {f}
    /\ Fault
    /\ UNCHANGED <<clock, temporary, database, contract, session>>

NewFile ==
    [NoFile EXCEPT !.status = "ACTIVE", !.month = Month(clock)]

\* The transaction: two reservations, the document and its trace.
Persisted(f) ==
    /\ doc' = [doc EXCEPT ![f] = NewFile]
    /\ storage' = storage + Size[f]
    /\ uploads' = [uploads EXCEPT ![Month(clock)] = @ + 1]

\* The commit may be applied while the driver reports an error.
Persist(f) ==
    /\ upload[f] = "stored"
    /\ Reservable(f)
    /\ Persisted(f)
    /\ \/ upload' = [upload EXCEPT ![f] = "done"] /\ UNCHANGED faults
       \/ upload' = [upload EXCEPT ![f] = "compensating"] /\ Fault
    /\ UNCHANGED <<clock, temporary, content, contract, session>>

\* A limit is reached, the feature is gone, or the transaction is aborted.
PersistRefused(f) ==
    /\ upload[f] = "stored"
    /\ upload' = [upload EXCEPT ![f] = "compensating"]
    /\ \/ ~Reservable(f) /\ UNCHANGED faults
       \/ Fault
    /\ UNCHANGED <<clock, temporary, content, database, contract, session>>

\* Mutant of Compensate: an error of the database is reported and that is all.
CompensateNothing(f) ==
    /\ upload[f] = "compensating"
    /\ upload' = [upload EXCEPT ![f] = "failed"]
    /\ UNCHANGED <<clock, temporary, content, database, contract, session, faults>>

\* deleteStoredFile, whatever the reason of the error.
Compensate(f) ==
    /\ upload[f] = "compensating"
    /\ upload' = [upload EXCEPT ![f] = "failed"]
    /\ content' = content \ {f}
    /\ UNCHANGED <<clock, temporary, database, contract, session, faults>>

\* The process dies, or the compensation fails: everything stays as it is.
AbandonUpload(f) ==
    /\ upload[f] \in {"received", "inspected", "stored", "compensating"}
    /\ upload' = [upload EXCEPT ![f] = "failed"]
    /\ Fault
    /\ UNCHANGED <<clock, temporary, content, database, contract, session>>

\* The start of a server purges the quarantine, whoever is still using it.
StartupCleanup ==
    /\ temporary' = [f \in Files |->
          IF temporary[f] # None /\ temporary[f] < clock - TemporaryAge
          THEN None ELSE temporary[f]]
    /\ temporary' # temporary
    /\ UNCHANGED <<clock, upload, content, database, contract, session, faults>>

-----------------------------------------------------------------------------
(* deleteWorkspaceFile and restoreWorkspaceFile.                           *)

quarantine == <<upload, temporary>>

\* Mutant of Delete: the counter is decremented when the file is trashed.
DeleteReleasing(f) ==
    /\ doc[f].status = "ACTIVE"
    /\ DeadlineInTime
    /\ doc' = [doc EXCEPT ![f].status = "DELETED", ![f].deletedAt = clock,
                          ![f].purgeScheduledAt = clock + Retention,
                          ![f].releasePending = TRUE]
    /\ storage' = storage - Size[f]
    /\ UNCHANGED <<clock, quarantine, content, uploads, contract, session, faults>>

Delete(f) ==
    /\ doc[f].status = "ACTIVE"
    /\ DeadlineInTime
    /\ doc' = [doc EXCEPT ![f].status = "DELETED", ![f].deletedAt = clock,
                          ![f].purgeScheduledAt = clock + Retention,
                          ![f].claim = None, ![f].claimExpiresAt = 0,
                          ![f].releasePending = TRUE]
    /\ UNCHANGED <<clock, quarantine, content, storage, uploads, contract,
                   session, faults>>

Become(p, s) == session' = [session EXCEPT ![p] = s]

outside == <<clock, quarantine, uploads, contract>>

StartRestore(r, f) ==
    /\ session[r].pc = "idle"
    /\ doc[f].status = "DELETED"
    /\ ~Claimed(doc[f])
    /\ Become(r, [Idle EXCEPT !.pc = "checking", !.file = f])
    /\ UNCHANGED <<outside, content, doc, storage, faults>>

\* fileExists, outside any transaction.
CheckContent(r) ==
    /\ session[r].pc = "checking"
    /\ Become(r, IF session[r].file \in content
                 THEN [session[r] EXCEPT !.pc = "restoring"] ELSE Idle)
    /\ UNCHANGED <<outside, content, doc, storage, faults>>

\* Mutant of Restorable: the candidate read before is trusted.
RestorableOnce(file) == file.status = "DELETED"

\* The filter of the compare-and-set.
Restorable(file) == file.status = "DELETED" /\ ~Claimed(file)

Restore(r) ==
    LET f == session[r].file
    IN  /\ session[r].pc = "restoring"
        /\ Become(r, Idle)
        /\ \/ /\ Restorable(doc[f])
              /\ doc' = [doc EXCEPT ![f] = [NoFile EXCEPT !.status = "ACTIVE",
                                                          !.month = doc[f].month]]
           \/ ~Restorable(doc[f]) /\ UNCHANGED doc
        /\ UNCHANGED <<outside, content, storage, faults>>

-----------------------------------------------------------------------------
(* purgeDeletedFiles and permanentlyDeleteWorkspaceFile.                   *)

\* A run reads the time once, for its whole batch.
StartPurge(j) ==
    /\ session[j].pc = "idle"
    /\ \E B \in Batches(clock) :
          Become(j, [Idle EXCEPT !.pc = "batch", !.now = clock, !.batch = B])
    /\ UNCHANGED <<outside, content, doc, storage, faults>>

EndPurge(j) ==
    /\ session[j].pc = "batch"
    /\ session[j].batch = {}
    /\ Become(j, Idle)
    /\ UNCHANGED <<outside, content, doc, storage, faults>>

\* Requests read the candidate, then advance its deadline if nothing changed.
StartPermanent(r, f) ==
    LET deletedAt == doc[f].deletedAt
    IN  /\ session[r].pc = "idle"
        /\ doc[f].status = "DELETED"
        /\ Claimed(doc[f]) => doc[f].claimExpiresAt <= clock
        /\ Become(r, [Idle EXCEPT !.pc = "accelerating", !.file = f, !.seen = doc[f],
                         !.now = IF clock > deletedAt THEN clock ELSE deletedAt + 1])
        /\ UNCHANGED <<outside, content, doc, storage, faults>>

Unchanged(r, f) ==
    LET seen == session[r].seen
    IN  /\ doc[f].status = "DELETED"
        /\ doc[f].purgeScheduledAt = seen.purgeScheduledAt
        /\ doc[f].claim = seen.claim
        /\ doc[f].claimExpiresAt = seen.claimExpiresAt

Accelerate(r) ==
    LET f == session[r].file
    IN  /\ session[r].pc = "accelerating"
        /\ \/ /\ Unchanged(r, f)
              /\ doc' = [doc EXCEPT ![f].purgeScheduledAt = session[r].now]
              /\ Become(r, [session[r] EXCEPT !.pc = "claiming"])
           \/ ~Unchanged(r, f) /\ Become(r, Idle) /\ UNCHANGED doc
        /\ UNCHANGED <<outside, content, storage, faults>>

\* The files a process may be about to claim.
Candidates(p) ==
    CASE session[p].pc = "batch"    -> session[p].batch
      [] session[p].pc = "claiming" -> {session[p].file}
      [] OTHER                      -> {}

\* The job goes on with its batch, a request is answered.
Resume(p) == IF p \in Jobs THEN [session[p] EXCEPT !.pc = "batch", !.file = None] ELSE Idle

\* claimPurgeCandidate: the lease runs from the time of the whole run.
Claim(p, f) ==
    LET now == session[p].now
    IN  /\ f \in Candidates(p)
        /\ Claimable(f, now)
        /\ doc' = [doc EXCEPT ![f].claim = p, ![f].claimExpiresAt = now + Lease]
        /\ Become(p, [session[p] EXCEPT !.pc = "deleting", !.file = f, !.batch = @ \ {f}])
        /\ UNCHANGED <<outside, content, storage, faults>>

Skip(p, f) ==
    /\ f \in Candidates(p)
    /\ ~Claimable(f, session[p].now)
    /\ Become(p, [Resume(p) EXCEPT !.batch = @ \ {f}])
    /\ UNCHANGED <<outside, content, doc, storage, faults>>

\* An absent content is deleted already.
DeleteContent(p) ==
    /\ session[p].pc = "deleting"
    /\ content' = content \ {session[p].file}
    /\ Become(p, [session[p] EXCEPT !.pc = "finalizing"])
    /\ UNCHANGED <<outside, doc, storage, faults>>

\* finalizePurgedFile filters on the claim its process still holds.
Finalizable(p, f) == Due(f, session[p].now) /\ doc[f].claim = p

\* Mutant of Released: every finalization releases the storage again.
ReleasedTwice(f) == storage - 2 * Size[f]

Released(f) == IF doc[f].releasePending THEN storage - Size[f] ELSE storage

Finalize(p) ==
    LET f == session[p].file
    IN  /\ session[p].pc = "finalizing"
        /\ Become(p, Resume(p))
        /\ \/ /\ Finalizable(p, f)
              /\ storage >= Size[f]
              /\ doc' = [doc EXCEPT ![f].status = "PURGED", ![f].claim = None,
                                    ![f].claimExpiresAt = 0, ![f].releasePending = FALSE]
              /\ storage' = Released(f)
           \/ ~Finalizable(p, f) /\ UNCHANGED <<doc, storage>>
        /\ UNCHANGED <<outside, content, faults>>

\* The process dies, the provider or the database fails: the run ends there and
\* what it wrote stays.
Abandon(p) ==
    /\ session[p].pc # "idle"
    /\ LeasesInTime(p)
    /\ Become(p, Idle)
    /\ Fault
    /\ UNCHANGED <<outside, content, doc, storage>>

-----------------------------------------------------------------------------
(* The environment.                                                        *)

\* Plans and overrides change what the workspace may use.
ChangeContract ==
    /\ contract.changes < MaxContracts
    /\ \E c \in Contract :
          /\ c.changes = contract.changes + 1
          /\ c # [contract EXCEPT !.changes = c.changes]
          /\ contract' = c
    /\ UNCHANGED <<clock, quarantine, content, database, session, faults>>

Tick ==
    /\ clock < MaxTime
    /\ clock' = clock + 1
    /\ UNCHANGED <<quarantine, content, database, contract, session, faults>>

UploadStep(f) ==
    \/ Receive(f) \/ Inspect(f) \/ Reject(f) \/ Store(f) \/ StoreTwice(f)
    \/ Persist(f) \/ PersistRefused(f) \/ Compensate(f) \/ AbandonUpload(f)

\* The steps a job or a request takes by itself once it has started.
Work(p) ==
    \/ EndPurge(p) \/ CheckContent(p) \/ Restore(p) \/ Accelerate(p)
    \/ DeleteContent(p) \/ Finalize(p)
    \/ \E f \in Files : Claim(p, f) \/ Skip(p, f)

Next ==
    \/ \E f \in Files : UploadStep(f) \/ Delete(f)
    \/ \E r \in Requests, f \in Files : StartRestore(r, f) \/ StartPermanent(r, f)
    \/ \E j \in Jobs : StartPurge(j)
    \/ \E p \in Processes : Work(p) \/ Abandon(p)
    \/ StartupCleanup \/ ChangeContract \/ Tick

Spec == Init /\ [][Next]_vars

\* A scheduler keeps launching the jobs, a process goes on until it fails, and
\* time passes.  Nobody has to upload, delete or restore anything.
Fairness ==
    /\ \A j \in Jobs : WF_vars(StartPurge(j))
    /\ \A p \in Processes : WF_vars(Work(p))
    /\ WF_vars(Tick)

FairSpec == Spec /\ Fairness

-----------------------------------------------------------------------------
(* Properties.                                                             *)

\* A live file has its bytes, and so has a trashed file whose purge has not
\* begun, whatever purges and restores raced before: only an upload that was
\* answered by an error (its commit applied and its answer lost) may have a
\* document without bytes.  A purged file has none left at the provider.
ContentBacksDocument ==
    \A f \in Files :
        /\ \/ doc[f].status = "ACTIVE"
           \/ doc[f].status = "DELETED" /\ ~Claimed(doc[f])
           => f \in content \/ upload[f] = "failed"
        /\ doc[f].status = "PURGED" => f \notin content

\* The bytes of some files, each one as its file and its rank in it.
Bytes(files) == UNION {{f} \X (1..Size[f]) : f \in files}

\* The documents created in a month.
Created(m) == {f \in Files : doc[f].status # "none" /\ doc[f].month = m}

\* The storage counter is the size of the files that are live or in the trash,
\* and a month counts every document created in it, purged ones included: each
\* byte is reserved once and released once, across failed transactions, purges
\* resumed by another process, restores and permanent deletions.
CountersMatchDocuments ==
    /\ storage = Cardinality(Bytes({f \in Files : doc[f].status \in {"ACTIVE", "DELETED"}}))
    /\ \A m \in Months : uploads[m] = Cardinality(Created(m))

\* An upload refused without any failure leaves nothing behind: no byte, no
\* quarantined file, no document.
RefusedUploadLeavesNothing ==
    faults = 0 =>
        \A f \in Files : upload[f] = "failed" =>
            f \notin content /\ temporary[f] = None /\ doc[f].status = "none"

\* The bytes of a deleted file are destroyed before the end of its retention
\* only if a user asked for it, which advances its deadline.
RetentionHonoured ==
    [][\A f \in content \ content' :
          doc[f].status = "DELETED"
          /\ upload[f] = "done"
          /\ doc[f].purgeScheduledAt = doc[f].deletedAt + Retention
          => doc[f].purgeScheduledAt <= clock]_vars

\* A deleted file whose deadline has come is purged or restored, whichever jobs
\* and requests died while they held its claim.
DueFilesArePurged ==
    \A f \in Files :
        doc[f].status = "DELETED" /\ doc[f].purgeScheduledAt <= clock
            ~> doc[f].status # "DELETED"

-----------------------------------------------------------------------------
(* What a file is to its users.                                            *)

life ==
    [f \in Files |->
        CASE doc[f].status = "none"   -> "none"
          [] doc[f].status = "ACTIVE" -> "live"
          [] doc[f].status = "PURGED" -> "gone"
          [] OTHER -> IF Claimed(doc[f]) THEN "condemned" ELSE "trashed"]

Life == INSTANCE FileLife WITH used <- storage

\* Jobs, requests, leases and failures implement the life of a file, its one
\* charge and its one refund.
ImplementsFileLife == Life!Spec

=============================================================================
