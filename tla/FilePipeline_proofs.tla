--------------------------- MODULE FilePipeline_proofs ---------------------------
(***************************************************************************)
(* TLAPS proofs about FilePipeline, for every set of files, jobs and       *)
(* requests, every lease and every number of failures.                     *)
(***************************************************************************)
EXTENDS FilePipeline, FiniteSetTheorems, TLAPS

-----------------------------------------------------------------------------
(* The inductive invariant.                                                *)

\* A purge has begun on the file: nothing brings it back.
Doomed(f) == \/ doc[f].status = "PURGED"
             \/ doc[f].status = "DELETED" /\ Claimed(doc[f])

\* A document comes after the bytes, and keeps them until its purge begins.
Staged ==
    \A f \in Files :
        /\ doc[f].status # "none" => upload[f] \in {"compensating", "done", "failed"}
        /\ upload[f] = "stored" => f \in content
        /\ doc[f].status \notin {"none", "PURGED"} /\ ~Doomed(f)
              => f \in content \/ upload[f] = "failed"
        /\ doc[f].status = "PURGED" => f \notin content
        /\ doc[f].status = "DELETED" => doc[f].releasePending

\* A process that destroys bytes works on a doomed file, and one that has
\* destroyed them finds them destroyed.
Tracked ==
    \A p \in Processes :
        /\ session[p].pc \notin {"idle", "batch"} => session[p].file \in Files
        /\ session[p].pc \in {"deleting", "finalizing"} => Doomed(session[p].file)
        /\ session[p].pc = "finalizing" => session[p].file \notin content

Inv == TypeOK /\ Staged /\ Tracked

\* The invariant says what the model-checked property says.
LEMMA InvBacks == Inv => ContentBacksDocument
BY DEF Inv, TypeOK, Staged, Doomed, ContentBacksDocument, Claimed, File, Statuses

-----------------------------------------------------------------------------
(* Types.                                                                  *)

LEMMA MonthNat == \A t \in Nat : Month(t) \in Nat
BY ConstantsAssumption DEF Month

LEMMA NoFileType == NoFile \in File /\ Idle \in Session
<1>1. None \in Processes \cup {None} /\ 0 \in Nat
  OBVIOUS
<1>2. NoFile \in File
  BY <1>1 DEF NoFile, File, Statuses
<1> QED  BY <1>2 DEF Idle, Session

LEMMA InitInv == Init => Inv
<1> SUFFICES ASSUME Init PROVE Inv
  OBVIOUS
<1>1. TypeOK
  BY NoFileType, ConstantsAssumption DEF Init, TypeOK, Stages
<1>2. Staged
  BY DEF Init, Staged, NoFile, Doomed
<1>3. Tracked
  BY DEF Init, Tracked, Idle
<1> QED  BY <1>1, <1>2, <1>3 DEF Inv

\* A new value of one session, of one document.
LEMMA BecomeType ==
  ASSUME TypeOK, NEW p \in Processes, NEW s \in Session, Become(p, s)
  PROVE  /\ session' \in [Processes -> Session]
         /\ session'[p] = s
         /\ \A q \in Processes : q # p => session'[q] = session[q]
BY DEF TypeOK, Become

LEMMA DocType ==
  ASSUME TypeOK, NEW f \in Files, NEW d \in File, doc' = [doc EXCEPT ![f] = d]
  PROVE  /\ doc' \in [Files -> File]
         /\ doc'[f] = d
         /\ \A g \in Files : g # f => doc'[g] = doc[g]
BY DEF TypeOK

LEMMA FaultType == TypeOK /\ Fault => faults' \in 0..MaxFaults
BY ConstantsAssumption DEF TypeOK, Fault

-----------------------------------------------------------------------------
(* Uploads.                                                                *)

LEMMA NewFileType == TypeOK => NewFile \in File
<1> SUFFICES ASSUME TypeOK PROVE NewFile \in File
  OBVIOUS
<1>1. NoFile \in File /\ Month(clock) \in Nat
  BY NoFileType, MonthNat DEF TypeOK
<1> QED  BY <1>1 DEF NewFile, NoFile, File, Statuses

LEMMA CountedType ==
  ASSUME NEW u \in [Months -> Nat], NEW m
  PROVE  [u EXCEPT ![m] = @ + 1] \in [Months -> Nat]
<1> DEFINE v == [u EXCEPT ![m] = @ + 1]
<1>1. CASE m \in Months
  <2>1. u[m] + 1 \in Nat
    BY <1>1
  <2> QED  BY <1>1, <2>1
<1>2. CASE m \notin Months
  <2>1. v = u
    BY <1>2
  <2> QED  BY <2>1
<1> QED  BY <1>1, <1>2

LEMMA PersistedType ==
  ASSUME TypeOK, NEW f \in Files, Persisted(f)
  PROVE  /\ doc' \in [Files -> File]
         /\ storage' \in Nat
         /\ uploads' \in [Months -> Nat]
<1>1. Size[f] \in Nat
  BY ConstantsAssumption
<1>2. doc' \in [Files -> File]
  BY NewFileType, DocType DEF Persisted
<1>3. uploads' \in [Months -> Nat]
  BY CountedType DEF Persisted, TypeOK
<1> QED  BY <1>1, <1>2, <1>3 DEF Persisted, TypeOK

LEMMA UploadType ==
  ASSUME TypeOK, NEW f \in Files, UploadStep(f)
  PROVE  TypeOK'
<1>1. CASE Receive(f)
  BY <1>1 DEF Receive, TypeOK, database, Stages
<1>2. CASE Inspect(f)
  BY <1>2 DEF Inspect, TypeOK, database, Stages
<1>3. CASE Reject(f)
  <2>1. faults' \in 0..MaxFaults
    BY <1>3, FaultType DEF Reject, TypeOK
  <2> QED  BY <1>3, <2>1 DEF Reject, TypeOK, database, Stages
<1>4. CASE Store(f)
  BY <1>4 DEF Store, TypeOK, database, Stages
<1>5. CASE StoreTwice(f)
  <2>1. faults' \in 0..MaxFaults
    BY <1>5, FaultType DEF StoreTwice
  <2> QED  BY <1>5, <2>1 DEF StoreTwice, TypeOK, database, Stages
<1>6. CASE Persist(f)
  <2>1. faults' \in 0..MaxFaults
    BY <1>6, FaultType DEF Persist, TypeOK
  <2>2. Persisted(f)
    BY <1>6 DEF Persist
  <2> QED  BY <1>6, <2>1, <2>2, PersistedType DEF Persist, TypeOK, Stages
<1>7. CASE PersistRefused(f)
  <2>1. faults' \in 0..MaxFaults
    BY <1>7, FaultType DEF PersistRefused, TypeOK
  <2> QED  BY <1>7, <2>1 DEF PersistRefused, TypeOK, database, Stages
<1>8. CASE Compensate(f)
  BY <1>8 DEF Compensate, TypeOK, database, Stages
<1>9. CASE AbandonUpload(f)
  <2>1. faults' \in 0..MaxFaults
    BY <1>9, FaultType DEF AbandonUpload
  <2> QED  BY <1>9, <2>1 DEF AbandonUpload, TypeOK, database, Stages
<1> QED  BY <1>1, <1>2, <1>3, <1>4, <1>5, <1>6, <1>7, <1>8, <1>9 DEF UploadStep

-----------------------------------------------------------------------------
(* Effects: one document, one session.                                     *)

\* The type of a step that changes one document and one session.
Quiet == UNCHANGED <<clock, upload, temporary, uploads, contract>>

LEMMA WorkType ==
  ASSUME TypeOK, Quiet, storage' \in Nat, content' \subseteq Files,
         doc' \in [Files -> File], session' \in [Processes -> Session],
         faults' \in 0..MaxFaults
  PROVE  TypeOK'
BY DEF TypeOK, Quiet

\* What a step must keep for the sessions it leaves alone.
DoomedStays == \A f \in Files : Doomed(f) => Doomed(f)' /\ (f \in content' => f \in content)

LEMMA TrackedSame ==
  ASSUME Inv, session' = session, DoomedStays
  PROVE  Tracked'
BY DEF Inv, Tracked, DoomedStays

LEMMA TrackedBecome ==
  ASSUME Inv, DoomedStays, NEW p \in Processes, NEW s \in Session, Become(p, s),
         s.pc \notin {"idle", "batch"} => s.file \in Files,
         s.pc \in {"deleting", "finalizing"} => Doomed(s.file)',
         s.pc = "finalizing" => s.file \notin content'
  PROVE  Tracked'
<1> SUFFICES ASSUME NEW q \in Processes
             PROVE  /\ session'[q].pc \notin {"idle", "batch"} => session'[q].file \in Files
                    /\ session'[q].pc \in {"deleting", "finalizing"} => Doomed(session[q].file)'
                    /\ session'[q].pc = "finalizing" => session'[q].file \notin content'
  BY DEF Tracked
<1>1. CASE q = p
  BY <1>1, BecomeType DEF Inv
<1>2. CASE q # p
  <2>1. session'[q] = session[q]
    BY <1>2, BecomeType DEF Inv
  <2> QED  BY <2>1 DEF Inv, Tracked, DoomedStays
<1> QED  BY <1>1, <1>2

\* One document changes, and its bytes stay.
LEMMA StagedDoc ==
  ASSUME Inv, UNCHANGED <<upload, content>>, NEW f \in Files, NEW d \in File,
         doc' = [doc EXCEPT ![f] = d], doc[f].status # "none",
         d.status \in {"ACTIVE", "DELETED"} /\ ~(d.status = "DELETED" /\ Claimed(d))
            => ~Doomed(f),
         d.status = "PURGED" => f \notin content,
         d.status = "DELETED" => d.releasePending
  PROVE  Staged'
<1> SUFFICES ASSUME NEW g \in Files
             PROVE  (/\ doc[g].status # "none" => upload[g] \in {"compensating", "done", "failed"}
                     /\ upload[g] = "stored" => g \in content
                     /\ doc[g].status \notin {"none", "PURGED"} /\ ~Doomed(g)
                           => g \in content \/ upload[g] = "failed"
                     /\ doc[g].status = "PURGED" => g \notin content
                     /\ doc[g].status = "DELETED" => doc[g].releasePending)'
  BY DEF Staged
<1>1. CASE g = f
  <2>1. doc'[g] = d
    BY <1>1, DocType DEF Inv
  <2> QED  BY <1>1, <2>1 DEF Inv, Staged, Doomed, File, Statuses
<1>2. CASE g # f
  <2>1. doc'[g] = doc[g]
    BY <1>2, DocType DEF Inv
  <2> QED  BY <2>1 DEF Inv, Staged, Doomed
<1> QED  BY <1>1, <1>2

LEMMA StagedSame ==
  ASSUME Inv, UNCHANGED <<upload, content, doc>>
  PROVE  Staged'
BY DEF Inv, Staged, Doomed

LEMMA DoomedSame ==
  ASSUME Inv, UNCHANGED doc, content' \subseteq content
  PROVE  DoomedStays
BY DEF DoomedStays, Doomed

LEMMA DoomedDoc ==
  ASSUME Inv, UNCHANGED content, NEW f \in Files, NEW d \in File,
         doc' = [doc EXCEPT ![f] = d],
         Doomed(f) => \/ d.status = "PURGED"
                      \/ d.status = "DELETED" /\ Claimed(d)
  PROVE  DoomedStays
<1> SUFFICES ASSUME NEW g \in Files, Doomed(g) PROVE Doomed(g)'
  BY DEF DoomedStays
<1>1. CASE g = f
  <2>1. doc'[g] = d
    BY <1>1, DocType DEF Inv
  <2> QED  BY <1>1, <2>1 DEF Doomed
<1>2. CASE g # f
  <2>1. doc'[g] = doc[g]
    BY <1>2, DocType DEF Inv
  <2> QED  BY <2>1 DEF Doomed
<1> QED  BY <1>1, <1>2

-----------------------------------------------------------------------------
(* Uploads keep the invariant.                                             *)

LEMMA UploadInv ==
  ASSUME Inv, NEW f \in Files, UploadStep(f)
  PROVE  Inv'
<1>1. TypeOK'
  BY UploadType DEF Inv
<1>2. session' = session
  BY DEF UploadStep, Receive, Inspect, Reject, Store, StoreTwice, Persist,
         PersistRefused, Compensate, AbandonUpload
<1>3. CASE Persist(f)
  <2>1. doc[f].status = "none" /\ f \in content
    BY <1>3 DEF Inv, Staged, Persist, TypeOK
  <2>2. NewFile \in File /\ doc' = [doc EXCEPT ![f] = NewFile] /\ UNCHANGED content
    BY <1>3, NewFileType DEF Inv, Persist, Persisted
  <2>3. /\ upload' \in [Files -> Stages]
        /\ upload'[f] \in {"compensating", "done"}
        /\ \A g \in Files : g # f => upload'[g] = upload[g]
    BY <1>3 DEF Persist, Inv, TypeOK, Stages
  <2>4. DoomedStays
    BY <2>1, <2>2, DoomedDoc DEF Doomed
  <2>5. NewFile.status = "ACTIVE"
    BY DEF NewFile, NoFile
  <2>6. Staged'
    <3> SUFFICES ASSUME NEW g \in Files
                 PROVE  (/\ doc[g].status # "none" => upload[g] \in {"compensating", "done", "failed"}
                         /\ upload[g] = "stored" => g \in content
                         /\ doc[g].status \notin {"none", "PURGED"} /\ ~Doomed(g)
                               => g \in content \/ upload[g] = "failed"
                         /\ doc[g].status = "PURGED" => g \notin content
                         /\ doc[g].status = "DELETED" => doc[g].releasePending)'
      BY DEF Staged
    <3>1. CASE g = f
      BY <3>1, <2>1, <2>2, <2>3, <2>5, DocType DEF Inv
    <3>2. CASE g # f
      <4>1. doc'[g] = doc[g] /\ upload'[g] = upload[g]
        BY <3>2, <2>2, <2>3, DocType DEF Inv
      <4> QED  BY <4>1, <2>2 DEF Inv, Staged, Doomed
    <3> QED  BY <3>1, <3>2
  <2> QED  BY <1>1, <1>2, <2>4, <2>6, TrackedSame DEF Inv
<1>4. CASE ~Persist(f)
  <2>1. /\ doc' = doc
        /\ upload[f] \in {"none", "received", "inspected", "stored", "compensating"}
    BY <1>4 DEF UploadStep, Receive, Inspect, Reject, Store, StoreTwice, database,
         PersistRefused, Compensate, AbandonUpload
  <2>2. /\ \A g \in Files : g # f => upload'[g] = upload[g] /\ (g \in content' <=> g \in content)
        /\ f \in content' => f \in content \/ upload[f] = "inspected"
        /\ upload'[f] = "stored" => f \in content'
        /\ f \in content => f \in content' \/ upload'[f] = "failed"
        /\ upload[f] = "compensating" => upload'[f] = "failed"
        /\ upload'[f] # upload[f]
    BY <1>4 DEF UploadStep, Receive, Inspect, Reject, Store, StoreTwice, database,
         PersistRefused, Compensate, AbandonUpload, Inv, TypeOK, Stages
  <2>3. doc[f].status # "none" => upload[f] = "compensating"
    BY <2>1 DEF Inv, Staged
  <2>4. DoomedStays
    <3> SUFFICES ASSUME NEW g \in Files, Doomed(g)
                 PROVE  Doomed(g)' /\ (g \in content' => g \in content)
      BY DEF DoomedStays
    <3>1. Doomed(g)'
      BY <2>1 DEF Doomed
    <3>2. doc[g].status # "none"
      BY DEF Doomed
    <3> QED  BY <3>1, <3>2, <2>2, <2>3
  <2>5. Staged'
    BY <2>1, <2>2, <2>3 DEF Inv, Staged, Doomed
  <2> QED  BY <1>1, <1>2, <2>4, <2>5, TrackedSame DEF Inv
<1> QED  BY <1>3, <1>4

LEMMA CleanupInv ==
  ASSUME Inv, StartupCleanup
  PROVE  Inv'
<1>1. TypeOK'
  BY DEF StartupCleanup, database, Inv, TypeOK
<1>2. UNCHANGED <<upload, content, doc, session>>
  BY DEF StartupCleanup, database
<1> QED  BY <1>1, <1>2, StagedSame, DoomedSame, TrackedSame DEF Inv

-----------------------------------------------------------------------------
(* The documents and the sessions that the actions write.                  *)

Trashed(f) ==
    [doc[f] EXCEPT !.status = "DELETED", !.deletedAt = clock,
                   !.purgeScheduledAt = clock + Retention,
                   !.claim = None, !.claimExpiresAt = 0, !.releasePending = TRUE]
Restored(f) == [NoFile EXCEPT !.status = "ACTIVE", !.month = doc[f].month]
Claiming(p, f) ==
    [doc[f] EXCEPT !.claim = p, !.claimExpiresAt = session[p].now + Lease]
Purged(f) ==
    [doc[f] EXCEPT !.status = "PURGED", !.claim = None,
                   !.claimExpiresAt = 0, !.releasePending = FALSE]
Advanced(f, t) == [doc[f] EXCEPT !.purgeScheduledAt = t]

LEMMA TrashedType == \A f \in Files : Inv => Trashed(f) \in File
<1> SUFFICES ASSUME NEW f \in Files, Inv PROVE Trashed(f) \in File
  OBVIOUS
<1>1. doc[f] \in File /\ clock + Retention \in Nat /\ clock \in Nat
  BY ConstantsAssumption DEF Inv, TypeOK
<1> QED  BY <1>1 DEF Trashed, File, Statuses

LEMMA RecordTypes ==
  ASSUME Inv, NEW f \in Files, NEW p \in Processes, NEW t \in Nat
  PROVE  Restored(f) \in File /\ Claiming(p, f) \in File
         /\ Purged(f) \in File /\ Advanced(f, t) \in File
<1>1. /\ doc[f] \in File /\ Lease \in Nat
      /\ session[p].now \in Nat /\ None \in Processes \cup {None} /\ NoFile \in File
  BY ConstantsAssumption, NoFileType DEF Inv, TypeOK, Session
<1>2. session[p].now + Lease \in Nat
  BY <1>1
<1>3. Restored(f) \in File
  BY <1>1 DEF Restored, NoFile, File, Statuses
<1>4. Claiming(p, f) \in File
  BY <1>1, <1>2 DEF Claiming, File
<1>5. Purged(f) \in File
  BY <1>1 DEF Purged, File, Statuses
<1>6. Advanced(f, t) \in File
  BY <1>1 DEF Advanced, File
<1> QED  BY <1>3, <1>4, <1>5, <1>6

LEMMA DeleteInv ==
  ASSUME Inv, NEW f \in Files, Delete(f)
  PROVE  Inv'
<1>1. Trashed(f) \in File
  BY TrashedType
<1>2. doc' = [doc EXCEPT ![f] = Trashed(f)]
  BY DEF Delete, Trashed
<1>3. /\ doc[f].status = "ACTIVE" /\ ~Doomed(f)
      /\ Trashed(f).status = "DELETED" /\ Trashed(f).releasePending
  BY DEF Delete, Trashed, Inv, TypeOK, File, Doomed
<1>4. UNCHANGED <<clock, upload, temporary, content, storage, uploads, contract, session, faults>>
  BY DEF Delete, quarantine
<1>5. TypeOK'
  BY <1>1, <1>2, <1>4, DocType DEF Inv, TypeOK
<1>6. Staged'
  BY <1>1, <1>2, <1>3, <1>4, StagedDoc
<1>7. DoomedStays
  BY <1>1, <1>2, <1>3, <1>4, DoomedDoc
<1> QED  BY <1>4, <1>5, <1>6, <1>7, TrackedSame DEF Inv

-----------------------------------------------------------------------------
(* A step of a job or a request.                                           *)

LEMMA PlainInv ==
  ASSUME Inv, Quiet, UNCHANGED <<content, doc, storage>>, faults' \in 0..MaxFaults,
         NEW p \in Processes, NEW s \in Session, Become(p, s),
         s.pc \notin {"idle", "batch"} => s.file \in Files,
         s.pc \notin {"deleting", "finalizing"}
  PROVE  Inv'
<1>1. TypeOK'
  BY BecomeType, WorkType DEF Inv, TypeOK
<1>2. Staged'
  BY StagedSame DEF Quiet
<1>3. Tracked'
  BY DoomedSame, TrackedBecome
<1> QED  BY <1>1, <1>2, <1>3 DEF Inv

LEMMA WritingInv ==
  ASSUME Inv, Quiet, UNCHANGED <<content, faults>>, storage' \in Nat,
         NEW p \in Processes, NEW s \in Session, Become(p, s),
         NEW f \in Files, NEW d \in File, doc' = [doc EXCEPT ![f] = d],
         doc[f].status # "none",
         Doomed(f) <=> \/ d.status = "PURGED"
                       \/ d.status = "DELETED" /\ Claimed(d),
         d.status = "PURGED" => f \notin content,
         d.status = "DELETED" => d.releasePending,
         s.pc \notin {"idle", "batch", "finalizing"} => s.file \in Files,
         s.pc \notin {"deleting", "finalizing"}
  PROVE  Inv'
<1>1. TypeOK'
  BY BecomeType, WorkType, DocType DEF Inv, TypeOK
<1>2. Staged'
  BY StagedDoc DEF Quiet
<1>3. DoomedStays
  BY DoomedDoc
<1>4. Tracked'
  BY <1>3, TrackedBecome
<1> QED  BY <1>1, <1>2, <1>4 DEF Inv

\* The session of a process is one of the records of Session.
LEMMA SessionTypes ==
  ASSUME Inv, NEW p \in Processes
  PROVE  /\ session[p] \in Session /\ Idle \in Session /\ Resume(p) \in Session
         /\ Resume(p).pc \in {"idle", "batch"}
         /\ session[p].pc \notin {"idle", "batch"} => session[p].file \in Files
<1>1. session[p] \in Session /\ Idle \in Session
  BY NoFileType DEF Inv, TypeOK
<1>2. Resume(p) \in Session /\ Resume(p).pc \in {"idle", "batch"}
  BY <1>1 DEF Resume, Idle, Session
<1> QED  BY <1>1, <1>2 DEF Inv, Tracked

USE DEF outside, quarantine, Quiet

LEMMA StartRestoreInv ==
  ASSUME Inv, NEW r \in Requests, NEW f \in Files, StartRestore(r, f)
  PROVE  Inv'
<1> DEFINE s == [Idle EXCEPT !.pc = "checking", !.file = f]
<1>1. r \in Processes /\ s \in Session /\ s.pc = "checking" /\ s.file = f
  BY NoFileType DEF Processes, Idle, Session
<1>2. Become(r, s) /\ UNCHANGED <<clock, upload, temporary, uploads, contract, content, doc, storage, faults>>
  BY DEF StartRestore
<1> QED  BY <1>1, <1>2, PlainInv DEF Inv, TypeOK

LEMMA CheckContentInv ==
  ASSUME Inv, NEW p \in Processes, CheckContent(p)
  PROVE  Inv'
<1> DEFINE s == IF session[p].file \in content
                THEN [session[p] EXCEPT !.pc = "restoring"] ELSE Idle
<1>1. s \in Session /\ s.pc \in {"restoring", "idle"} /\ (s.pc = "restoring" => s.file \in Files)
  BY SessionTypes DEF CheckContent, Session, Idle
<1>2. Become(p, s) /\ UNCHANGED <<clock, upload, temporary, uploads, contract, content, doc, storage, faults>>
  BY DEF CheckContent
<1> QED  BY <1>1, <1>2, PlainInv DEF Inv, TypeOK

LEMMA RestoreInv ==
  ASSUME Inv, NEW p \in Processes, Restore(p)
  PROVE  Inv'
<1> DEFINE f == session[p].file
<1>1. f \in Files /\ Become(p, Idle) /\ Idle \in Session /\ Idle.pc = "idle"
  BY SessionTypes DEF Restore, Idle
<1>2. UNCHANGED <<clock, upload, temporary, uploads, contract, content, storage, faults>>
  BY DEF Restore
<1>3. CASE UNCHANGED doc
  BY <1>1, <1>2, <1>3, PlainInv DEF Inv, TypeOK
<1>4. CASE Restorable(doc[f]) /\ doc' = [doc EXCEPT ![f] = Restored(f)]
  <2>1. Restored(f) \in File /\ Restored(f).status = "ACTIVE"
    BY <1>1, RecordTypes DEF Restored, NoFile
  <2>2. ~Doomed(f) /\ doc[f].status # "none" /\ storage' \in Nat
    BY <1>2, <1>4 DEF Restorable, Doomed, Inv, TypeOK
  <2> HIDE DEF f
  <2> QED  BY <1>1, <1>2, <1>4, <2>1, <2>2, WritingInv
<1> QED  BY <1>3, <1>4 DEF Restore, Restored

LEMMA StartPurgeInv ==
  ASSUME Inv, NEW j \in Jobs, StartPurge(j)
  PROVE  Inv'
<1>1. PICK B \in Batches(clock) :
         Become(j, [Idle EXCEPT !.pc = "batch", !.now = clock, !.batch = B])
  BY DEF StartPurge
<1> DEFINE s == [Idle EXCEPT !.pc = "batch", !.now = clock, !.batch = B]
<1>2. j \in Processes /\ clock \in Nat /\ B \subseteq Files
  BY <1>1 DEF Processes, Inv, TypeOK, Batches
<1>3. s \in Session /\ s.pc = "batch"
  BY <1>2, NoFileType DEF Idle, Session
<1>4. UNCHANGED <<clock, upload, temporary, uploads, contract, content, doc, storage, faults>>
  BY DEF StartPurge
<1> QED  BY <1>1, <1>2, <1>3, <1>4, PlainInv DEF Inv, TypeOK

LEMMA EndInv ==
  ASSUME Inv, NEW p \in Processes, EndPurge(p) \/ Abandon(p)
  PROVE  Inv'
<1>1. /\ Become(p, Idle)
      /\ UNCHANGED <<clock, upload, temporary, uploads, contract, content, doc, storage>>
      /\ faults' \in 0..MaxFaults
  BY FaultType DEF EndPurge, Abandon, Inv, TypeOK
<1> QED  BY <1>1, SessionTypes, PlainInv DEF Idle

LEMMA StartPermanentInv ==
  ASSUME Inv, NEW r \in Requests, NEW f \in Files, StartPermanent(r, f)
  PROVE  Inv'
<1> DEFINE t == IF clock > doc[f].deletedAt THEN clock ELSE doc[f].deletedAt + 1
           s == [Idle EXCEPT !.pc = "accelerating", !.file = f, !.seen = doc[f], !.now = t]
<1>1. r \in Processes /\ doc[f] \in File /\ t \in Nat
  BY DEF Processes, Inv, TypeOK, File
<1>2. s \in Session /\ s.pc = "accelerating" /\ s.file = f
  BY <1>1, NoFileType DEF Idle, Session
<1>3. Become(r, s) /\ UNCHANGED <<clock, upload, temporary, uploads, contract, content, doc, storage, faults>>
  BY DEF StartPermanent
<1> QED  BY <1>1, <1>2, <1>3, PlainInv DEF Inv, TypeOK

LEMMA AccelerateInv ==
  ASSUME Inv, NEW p \in Processes, Accelerate(p)
  PROVE  Inv'
<1> DEFINE f == session[p].file
           s == [session[p] EXCEPT !.pc = "claiming"]
<1>1. f \in Files /\ session[p] \in Session /\ session[p].now \in Nat
  BY SessionTypes DEF Accelerate, Session
<1>2. UNCHANGED <<clock, upload, temporary, uploads, contract, content, storage, faults>>
  BY DEF Accelerate
<1>3. CASE Become(p, Idle) /\ UNCHANGED doc
  BY <1>2, <1>3, SessionTypes, PlainInv DEF Idle, Inv, TypeOK
<1>4. CASE Unchanged(p, f) /\ doc' = [doc EXCEPT ![f] = Advanced(f, session[p].now)] /\ Become(p, s)
  <2> DEFINE d == Advanced(f, session[p].now)
  <2>1. d \in File /\ s \in Session /\ s.pc = "claiming" /\ s.file = f
    BY <1>1, RecordTypes DEF Session
  <2>2. doc[f] \in File /\ doc[f].status = "DELETED"
    BY <1>1, <1>4 DEF Unchanged, Inv, TypeOK
  <2>3. d.status = "DELETED" /\ d.claim = doc[f].claim /\ d.releasePending
    BY <1>1, <2>2 DEF Advanced, File, Inv, Staged
  <2>4. Doomed(f) <=> d.status = "DELETED" /\ Claimed(d)
    BY <2>2, <2>3 DEF Doomed, Claimed
  <2>5. storage' \in Nat
    BY <1>2 DEF Inv, TypeOK
  <2> HIDE DEF f, s, d
  <2> QED  BY <1>1, <1>2, <1>4, <2>1, <2>2, <2>3, <2>4, <2>5, WritingInv DEF d
<1> QED  BY <1>3, <1>4 DEF Accelerate, Advanced

LEMMA SkipInv ==
  ASSUME Inv, NEW p \in Processes, NEW f \in Files, Skip(p, f)
  PROVE  Inv'
<1> DEFINE s == [Resume(p) EXCEPT !.batch = @ \ {f}]
<1>1. s \in Session /\ s.pc \in {"idle", "batch"}
  BY SessionTypes DEF Session
<1>2. Become(p, s) /\ UNCHANGED <<clock, upload, temporary, uploads, contract, content, doc, storage, faults>>
  BY DEF Skip
<1> QED  BY <1>1, <1>2, PlainInv DEF Inv, TypeOK

LEMMA ClaimInv ==
  ASSUME Inv, NEW p \in Processes, NEW f \in Files, Claim(p, f)
  PROVE  Inv'
<1> DEFINE s == [session[p] EXCEPT !.pc = "deleting", !.file = f, !.batch = @ \ {f}]
           d == Claiming(p, f)
<1>1. s \in Session /\ s.pc = "deleting" /\ s.file = f
  BY SessionTypes DEF Session
<1>2. Become(p, s) /\ UNCHANGED <<clock, upload, temporary, uploads, contract, content, storage, faults>>
  BY DEF Claim
<1>3. d \in File /\ doc' = [doc EXCEPT ![f] = d]
  BY RecordTypes DEF Claim, Claiming
<1>4. doc[f] \in File /\ doc[f].status = "DELETED" /\ doc[f].releasePending
  BY DEF Claim, Claimable, Due, Inv, TypeOK, Staged
<1>5. d.status = "DELETED" /\ d.claim = p /\ d.releasePending /\ p # None
  BY <1>4, ConstantsAssumption DEF Claiming, File, Processes
<1>6. Doomed(f)'
  <2>1. doc'[f] = d
    BY <1>3, DocType DEF Inv
  <2> QED  BY <1>5, <2>1 DEF Doomed, Claimed
<1>7. DoomedStays
  <2> HIDE DEF d
  <2> QED  BY <1>2, <1>3, <1>5, DoomedDoc DEF Claimed
<1>8. TypeOK'
  BY <1>1, <1>2, <1>3, BecomeType, WorkType, DocType DEF Inv, TypeOK
<1>9. Staged'
  <2> HIDE DEF d
  <2> QED  BY <1>2, <1>3, <1>4, <1>5, StagedDoc DEF Claimed
<1>10. Tracked'
  <2> HIDE DEF s
  <2> QED  BY <1>1, <1>2, <1>6, <1>7, TrackedBecome
<1> QED  BY <1>8, <1>9, <1>10 DEF Inv

LEMMA DeleteContentInv ==
  ASSUME Inv, NEW p \in Processes, DeleteContent(p)
  PROVE  Inv'
<1>0. PICK f \in Files : f = session[p].file
  BY SessionTypes DEF DeleteContent
<1> DEFINE s == [session[p] EXCEPT !.pc = "finalizing"]
<1>1. s \in Session /\ s.pc = "finalizing" /\ s.file = f
  BY <1>0, SessionTypes DEF Session
<1>2. Become(p, s) /\ content' = content \ {f} /\ session[p].pc = "deleting"
      /\ UNCHANGED <<clock, upload, temporary, uploads, contract, doc, storage, faults>>
  BY <1>0 DEF DeleteContent
<1>3. Doomed(f) /\ Doomed(f)'
  BY <1>0, <1>2 DEF Inv, Tracked, Doomed, Claimed
<1>4. TypeOK'
  BY <1>1, <1>2, BecomeType, WorkType DEF Inv, TypeOK
<1>5. Staged'
  <2>1. doc[f].status # "none"
    BY <1>3 DEF Doomed
  <2> QED  BY <1>2, <1>3, <2>1 DEF Inv, Staged, Doomed
<1>6. DoomedStays
  BY <1>2, DoomedSame
<1>7. Tracked'
  <2> HIDE DEF s
  <2> QED  BY <1>1, <1>2, <1>3, <1>6, TrackedBecome
<1> QED  BY <1>4, <1>5, <1>7 DEF Inv

\* A finalization destroys a condemned document, or changes none.
LEMMA FinalizeCases ==
  ASSUME Inv, NEW p \in Processes, NEW f, f = session[p].file, Finalize(p)
  PROVE  \/ UNCHANGED <<doc, storage>>
         \/ /\ doc[f].status = "DELETED" /\ doc[f].claim = p /\ p # None
            /\ doc' = [doc EXCEPT ![f] = Purged(f)]
            /\ storage' = storage - Size[f] /\ storage' \in Nat
<1>1. f \in Files /\ p # None
  BY SessionTypes, ConstantsAssumption DEF Finalize, Processes
<1>2. CASE UNCHANGED <<doc, storage>>
  BY <1>2
<1>3. CASE Finalizable(p, f) /\ storage >= Size[f]
           /\ doc' = [doc EXCEPT ![f] = Purged(f)] /\ storage' = Released(f)
  <2>1. doc[f].status = "DELETED" /\ doc[f].claim = p /\ doc[f].releasePending
    BY <1>1, <1>3 DEF Finalizable, Due, Inv, Staged
  <2>2. storage \in Nat /\ Size[f] \in Nat /\ storage >= Size[f] /\ storage' = storage - Size[f]
    BY <1>1, <1>3, <2>1, ConstantsAssumption DEF Inv, TypeOK, Released
  <2> QED  BY <1>1, <1>3, <2>1, <2>2
<1> QED  BY <1>2, <1>3 DEF Finalize, Purged

LEMMA FinalizeInv ==
  ASSUME Inv, NEW p \in Processes, Finalize(p)
  PROVE  Inv'
<1> DEFINE f == session[p].file
           d == Purged(f)
<1>1. f \in Files /\ Become(p, Resume(p)) /\ Resume(p) \in Session
      /\ Resume(p).pc \in {"idle", "batch"} /\ f \notin content
  BY SessionTypes DEF Finalize, Inv, Tracked
<1>2. UNCHANGED <<clock, upload, temporary, uploads, contract, content, faults>>
  BY DEF Finalize
<1>3. CASE UNCHANGED <<doc, storage>>
  BY <1>1, <1>2, <1>3, PlainInv DEF Inv, TypeOK
<1>4. CASE /\ doc[f].status = "DELETED" /\ doc[f].claim = p /\ p # None
           /\ doc' = [doc EXCEPT ![f] = Purged(f)] /\ storage' \in Nat
  <2>1. d \in File /\ doc[f] \in File
    BY <1>1, RecordTypes DEF Inv, TypeOK
  <2>2. d.status = "PURGED" /\ Doomed(f)
    BY <1>4, <2>1 DEF Purged, File, Doomed, Claimed
  <2> HIDE DEF f, d
  <2> QED  BY <1>1, <1>2, <1>4, <2>1, <2>2, WritingInv DEF d
<1> QED  BY <1>3, <1>4, FinalizeCases

-----------------------------------------------------------------------------
(* The theorems.                                                           *)

LEMMA RestInv ==
  ASSUME Inv, StartupCleanup \/ ChangeContract \/ Tick \/ UNCHANGED vars
  PROVE  Inv'
<1>1. CASE StartupCleanup
  BY <1>1, CleanupInv
<1>2. CASE ~StartupCleanup
  <2>1. UNCHANGED <<upload, content, doc, session>>
    BY <1>2 DEF ChangeContract, Tick, vars, database
  <2>2. TypeOK'
    BY <1>2 DEF ChangeContract, Tick, vars, database, Inv, TypeOK
  <2> QED  BY <2>1, <2>2, StagedSame, DoomedSame, TrackedSame DEF Inv
<1> QED  BY <1>1, <1>2

LEMMA ProcessInv ==
  ASSUME Inv, NEW p \in Processes, Work(p) \/ Abandon(p)
  PROVE  Inv'
BY EndInv, CheckContentInv, RestoreInv, AccelerateInv, DeleteContentInv, FinalizeInv,
   ClaimInv, SkipInv DEF Work

\* Uploads, purges and restores, whichever of them die, keep the invariant.
THEOREM Inductive == Inv /\ [Next]_vars => Inv'
<1> SUFFICES ASSUME Inv, [Next]_vars PROVE Inv'
  OBVIOUS
<1>1. CASE \E f \in Files : UploadStep(f) \/ Delete(f)
  BY <1>1, UploadInv, DeleteInv
<1>2. CASE \E r \in Requests, f \in Files : StartRestore(r, f) \/ StartPermanent(r, f)
  BY <1>2, StartRestoreInv, StartPermanentInv
<1>3. CASE \E j \in Jobs : StartPurge(j)
  BY <1>3, StartPurgeInv
<1>4. CASE \E p \in Processes : Work(p) \/ Abandon(p)
  BY <1>4, ProcessInv
<1>5. CASE StartupCleanup \/ ChangeContract \/ Tick \/ UNCHANGED vars
  BY <1>5, RestInv
<1> QED  BY <1>1, <1>2, <1>3, <1>4, <1>5 DEF Next

THEOREM Invariance == Spec => []Inv
BY InitInv, Inductive, PTL DEF Spec

\* The documents, the counters and the sessions keep their shape; no counter
\* becomes negative.
THEOREM TypeCorrect == Spec => []TypeOK
<1>1. Inv => TypeOK
  BY DEF Inv
<1> QED  BY <1>1, Invariance, PTL

\* However purges, restores and permanent deletions interleave, a file whose
\* purge has not begun keeps its bytes and a purged file has none.
THEOREM ContentBacked == Spec => []ContentBacksDocument
BY InvBacks, Invariance, PTL

-----------------------------------------------------------------------------
(* What a file is to its users.                                            *)

\* The life of the file a document is about.
LifeOf(d) ==
    CASE d.status = "none"   -> "none"
      [] d.status = "ACTIVE" -> "live"
      [] d.status = "PURGED" -> "gone"
      [] OTHER -> IF Claimed(d) THEN "condemned" ELSE "trashed"

LEMMA LifeIs == life = [f \in Files |-> LifeOf(doc[f])]
BY DEF life, LifeOf

LEMMA LifeInit == Init => Life!Init
BY LifeIs DEF Init, Life!Init, LifeOf, NoFile

LEMMA LifeSame == ASSUME UNCHANGED <<doc, storage>> PROVE UNCHANGED Life!vars
BY DEF life, Life!vars, Claimed

\* One document changes: one life changes.
LEMMA LifeDoc ==
  ASSUME Inv, NEW f \in Files, NEW d \in File, doc' = [doc EXCEPT ![f] = d]
  PROVE  /\ life[f] = LifeOf(doc[f])
         /\ life' = [life EXCEPT ![f] = LifeOf(d)]
<1>1. life' = [g \in Files |-> LifeOf(doc'[g])]
  BY DEF life, LifeOf, Claimed
<1>2. doc'[f] = d /\ \A g \in Files : g # f => doc'[g] = doc[g]
  BY DocType DEF Inv
<1> QED  BY <1>1, <1>2, LifeIs

LEMMA LifeDocSame ==
  ASSUME Inv, NEW f \in Files, NEW d \in File, doc' = [doc EXCEPT ![f] = d],
         UNCHANGED storage, LifeOf(d) = LifeOf(doc[f])
  PROVE  UNCHANGED Life!vars
<1>1. life' = [life EXCEPT ![f] = life[f]]
  BY LifeDoc
<1>2. life' = life
  BY <1>1, LifeIs
<1> QED  BY <1>2 DEF Life!vars

LEMMA LifeUpload ==
  ASSUME Inv, NEW f \in Files, UploadStep(f)
  PROVE  [Life!Next]_(Life!vars)
<1>1. CASE Persist(f)
  <2>1. NewFile \in File /\ doc' = [doc EXCEPT ![f] = NewFile]
        /\ storage' = storage + Size[f]
    BY <1>1, NewFileType DEF Persist, Persisted, Inv
  <2>2. doc[f].status = "none"
    BY <1>1 DEF Persist, Inv, Staged
  <2>3. LifeOf(doc[f]) = "none" /\ LifeOf(NewFile) = "live"
    BY <2>2 DEF LifeOf, NewFile, NoFile
  <2>4. Life!Create(f)
    BY <2>1, <2>3, LifeDoc DEF Life!Create, Life!Step
  <2> QED  BY <2>4 DEF Life!Next
<1>2. CASE ~Persist(f)
  BY <1>2, LifeSame DEF UploadStep, Receive, Inspect, Reject, Store, StoreTwice, database,
     PersistRefused, Compensate, AbandonUpload
<1> QED  BY <1>1, <1>2

LEMMA LifeDelete ==
  ASSUME Inv, NEW f \in Files, Delete(f)
  PROVE  [Life!Next]_(Life!vars)
<1>1. Trashed(f) \in File /\ doc' = [doc EXCEPT ![f] = Trashed(f)] /\ doc[f] \in File
      /\ doc[f].status = "ACTIVE" /\ storage' = storage /\ storage \in Nat
  BY TrashedType DEF Delete, Trashed, Inv, TypeOK
<1>2. LifeOf(doc[f]) = "live" /\ LifeOf(Trashed(f)) = "trashed"
  BY <1>1 DEF LifeOf, Trashed, File, Claimed
<1> storage' = storage + 0
  BY <1>1
<1>3. Life!Trash(f)
  BY <1>1, <1>2, LifeDoc DEF Life!Trash, Life!Step
<1> QED  BY <1>3 DEF Life!Next

LEMMA LifeRestore ==
  ASSUME Inv, NEW p \in Processes, Restore(p)
  PROVE  [Life!Next]_(Life!vars)
<1>0. PICK f \in Files : f = session[p].file
  BY SessionTypes DEF Restore
<1>1. CASE UNCHANGED doc
  BY <1>1, LifeSame DEF Restore
<1>2. CASE Restorable(doc[f]) /\ doc' = [doc EXCEPT ![f] = Restored(f)]
  <2>1. Restored(f) \in File /\ storage' = storage /\ storage \in Nat
    BY RecordTypes DEF Restore, Inv, TypeOK
  <2>2. LifeOf(doc[f]) = "trashed" /\ LifeOf(Restored(f)) = "live"
    BY <1>2 DEF LifeOf, Restored, NoFile, Restorable
  <2> storage' = storage + 0
    BY <2>1
  <2>3. Life!Restore(f)
    BY <1>2, <2>1, <2>2, LifeDoc DEF Life!Restore, Life!Step
  <2> QED  BY <2>3 DEF Life!Next
<1> QED  BY <1>0, <1>1, <1>2 DEF Restore, Restored

LEMMA LifeAccelerate ==
  ASSUME Inv, NEW p \in Processes, Accelerate(p)
  PROVE  UNCHANGED Life!vars
<1>0. PICK f \in Files : f = session[p].file
  BY SessionTypes DEF Accelerate
<1>1. CASE UNCHANGED doc
  BY <1>1, LifeSame DEF Accelerate
<1>2. CASE Unchanged(p, f) /\ doc' = [doc EXCEPT ![f] = Advanced(f, session[p].now)]
  <2>1. doc[f] \in File /\ session[p].now \in Nat
    BY SessionTypes DEF Inv, TypeOK, Session
  <2>2. Advanced(f, session[p].now) \in File
    BY <2>1, RecordTypes
  <2>3. LifeOf(Advanced(f, session[p].now)) = LifeOf(doc[f])
    BY <2>1 DEF Advanced, LifeOf, File, Claimed
  <2> QED  BY <1>2, <2>2, <2>3, LifeDocSame DEF Accelerate
<1> QED  BY <1>0, <1>1, <1>2 DEF Accelerate, Advanced

LEMMA LifeClaim ==
  ASSUME Inv, NEW p \in Processes, NEW f \in Files, Claim(p, f)
  PROVE  [Life!Next]_(Life!vars)
<1>1. Claiming(p, f) \in File /\ doc' = [doc EXCEPT ![f] = Claiming(p, f)]
      /\ doc[f] \in File /\ storage' = storage /\ storage \in Nat /\ p # None
  BY RecordTypes, ConstantsAssumption DEF Claim, Claiming, Inv, TypeOK, Processes
<1>2. doc[f].status = "DELETED" /\ LifeOf(Claiming(p, f)) = "condemned"
  BY <1>1 DEF Claim, Claimable, Due, LifeOf, Claiming, File, Claimed
<1>3. CASE Claimed(doc[f])
  BY <1>1, <1>2, <1>3, LifeDocSame DEF LifeOf
<1>4. CASE ~Claimed(doc[f])
  <2>1. LifeOf(doc[f]) = "trashed"
    BY <1>2, <1>4 DEF LifeOf
  <2> storage' = storage + 0
    BY <1>1
  <2>2. Life!Condemn(f)
    BY <1>1, <1>2, <2>1, LifeDoc DEF Life!Condemn, Life!Step
  <2> QED  BY <2>2 DEF Life!Next
<1> QED  BY <1>3, <1>4

LEMMA LifeFinalize ==
  ASSUME Inv, NEW p \in Processes, Finalize(p)
  PROVE  [Life!Next]_(Life!vars)
<1>0. PICK f \in Files : f = session[p].file
  BY SessionTypes DEF Finalize
<1>1. CASE UNCHANGED <<doc, storage>>
  BY <1>1, LifeSame
<1>2. CASE /\ doc[f].status = "DELETED" /\ doc[f].claim = p /\ p # None
           /\ doc' = [doc EXCEPT ![f] = Purged(f)]
           /\ storage' = storage - Size[f]
  <2>1. Purged(f) \in File /\ doc[f] \in File /\ storage \in Nat /\ Size[f] \in Nat
    BY RecordTypes, ConstantsAssumption DEF Inv, TypeOK
  <2>2. LifeOf(doc[f]) = "condemned" /\ LifeOf(Purged(f)) = "gone"
    BY <1>2, <2>1 DEF LifeOf, Purged, File, Claimed
  <2>3. storage' = storage + (- Size[f])
    BY <1>2, <2>1
  <2>4. Life!Destroy(f)
    BY <1>2, <2>1, <2>2, <2>3, LifeDoc DEF Life!Destroy, Life!Step
  <2> QED  BY <2>4 DEF Life!Next
<1> QED  BY <1>0, <1>1, <1>2, FinalizeCases

LEMMA LifeStep == ASSUME Inv, [Next]_vars PROVE [Life!Next]_(Life!vars)
<1>1. CASE \E f \in Files : UploadStep(f) \/ Delete(f)
  BY <1>1, LifeUpload, LifeDelete
<1>2. CASE \E r \in Requests, f \in Files : StartRestore(r, f) \/ StartPermanent(r, f)
  BY <1>2, LifeSame DEF StartRestore, StartPermanent
<1>3. CASE \E j \in Jobs : StartPurge(j)
  BY <1>3, LifeSame DEF StartPurge
<1>4. CASE \E p \in Processes : Work(p) \/ Abandon(p)
  <2>1. PICK p \in Processes : Work(p) \/ Abandon(p)
    BY <1>4
  <2>2. CASE EndPurge(p) \/ CheckContent(p) \/ DeleteContent(p) \/ Abandon(p)
             \/ \E f \in Files : Skip(p, f)
    BY <2>2, LifeSame DEF EndPurge, CheckContent, DeleteContent, Abandon, Skip
  <2>3. CASE Restore(p) \/ Accelerate(p) \/ Finalize(p) \/ \E f \in Files : Claim(p, f)
    BY <2>3, LifeRestore, LifeAccelerate, LifeFinalize, LifeClaim
  <2> QED  BY <2>1, <2>2, <2>3 DEF Work
<1>5. CASE StartupCleanup \/ ChangeContract \/ Tick \/ UNCHANGED vars
  BY <1>5, LifeSame DEF StartupCleanup, ChangeContract, Tick, vars, database
<1> QED  BY <1>1, <1>2, <1>3, <1>4, <1>5 DEF Next

\* Jobs, requests, leases and failures implement the life of a file: charged
\* once, refunded once, and never back from condemnation.
THEOREM FilesImplementLife == Spec => ImplementsFileLife
<1>1. Inv /\ [Next]_vars => [Life!Next]_(Life!vars)
  BY LifeStep
<1> QED  BY <1>1, LifeInit, Invariance, PTL DEF Spec, ImplementsFileLife, Life!Spec

-----------------------------------------------------------------------------
(* The counters.                                                           *)

\* The bytes of one file, which no other file shares.
LEMMA BytesOne ==
  ASSUME NEW f \in Files
  PROVE  /\ IsFiniteSet(Bytes({f}))
         /\ Cardinality(Bytes({f})) = Size[f]
<1>1. Size[f] \in Nat \ {0}
  BY ConstantsAssumption
<1>2. IsFiniteSet(1..Size[f]) /\ Cardinality(1..Size[f]) = Size[f]
  BY <1>1, FS_Interval
<1>3. IsFiniteSet({f}) /\ Cardinality({f}) = 1
  BY FS_Singleton
<1>4. IsFiniteSet({f} \X (1..Size[f])) /\ Cardinality({f} \X (1..Size[f])) = 1 * Size[f]
  BY <1>2, <1>3, FS_Product
<1>5. Bytes({f}) = {f} \X (1..Size[f])
  BY DEF Bytes
<1>6. 1 * Size[f] = Size[f]
  BY <1>1
<1> QED  BY <1>4, <1>5, <1>6

LEMMA BytesDisjoint ==
  ASSUME NEW S, NEW T, S \cap T = {}
  PROVE  /\ Bytes(S \cup T) = Bytes(S) \cup Bytes(T)
         /\ Bytes(S) \cap Bytes(T) = {}
         /\ Bytes(S \cup T) \ Bytes(T) = Bytes(S)
<1>1. \A b : b \in Bytes(S) => \E f \in S : b \in {f} \X (1..Size[f]) /\ b[1] = f
  BY DEF Bytes
<1>2. \A b : b \in Bytes(T) => \E f \in T : b \in {f} \X (1..Size[f]) /\ b[1] = f
  BY DEF Bytes
<1>3. Bytes(S \cup T) = Bytes(S) \cup Bytes(T)
  BY DEF Bytes
<1>4. Bytes(S) \cap Bytes(T) = {}
  BY <1>1, <1>2
<1> QED  BY <1>3, <1>4

\* One file more, one file less.
LEMMA BytesMore ==
  ASSUME NEW S, NEW f \in Files \ S, IsFiniteSet(Bytes(S))
  PROVE  /\ IsFiniteSet(Bytes(S \cup {f}))
         /\ Cardinality(Bytes(S \cup {f})) = Cardinality(Bytes(S)) + Size[f]
<1>1. /\ Bytes(S \cup {f}) = Bytes(S) \cup Bytes({f})
      /\ Bytes(S) \cap Bytes({f}) = {}
  BY BytesDisjoint
<1>2. IsFiniteSet(Bytes({f})) /\ Cardinality(Bytes({f})) = Size[f]
  BY BytesOne
<1>3. Cardinality(Bytes(S)) \in Nat /\ Size[f] \in Nat
  BY FS_CardinalityType, ConstantsAssumption
<1>4. /\ IsFiniteSet(Bytes(S) \cup Bytes({f}))
      /\ Cardinality(Bytes(S) \cup Bytes({f}))
            = Cardinality(Bytes(S)) + Cardinality(Bytes({f}))
                 - Cardinality(Bytes(S) \cap Bytes({f}))
  BY <1>2, FS_Union
<1>5. Cardinality(Bytes(S) \cap Bytes({f})) = 0
  BY <1>1, FS_EmptySet
<1>6. Cardinality(Bytes(S) \cup Bytes({f})) = Cardinality(Bytes(S)) + Size[f]
  BY <1>2, <1>3, <1>4, <1>5
<1> QED  BY <1>1, <1>4, <1>6

LEMMA BytesLess ==
  ASSUME NEW S, NEW f \in Files \cap S, IsFiniteSet(Bytes(S))
  PROVE  /\ IsFiniteSet(Bytes(S \ {f}))
         /\ Cardinality(Bytes(S \ {f})) = Cardinality(Bytes(S)) - Size[f]
<1> DEFINE T == S \ {f}
<1>1. S = T \cup {f} /\ T \cap {f} = {} /\ f \in Files \ T
  OBVIOUS
<1>2. Bytes(S) \ Bytes({f}) = Bytes(T)
  BY <1>1, BytesDisjoint
<1>3. IsFiniteSet(Bytes(T))
  BY <1>2, FS_Difference
<1>4. Cardinality(Bytes(S)) = Cardinality(Bytes(T)) + Size[f]
  BY <1>1, <1>3, BytesMore
<1>5. Cardinality(Bytes(T)) \in Nat /\ Size[f] \in Nat
  BY <1>3, FS_CardinalityType, ConstantsAssumption
<1> QED  BY <1>3, <1>4, <1>5

\* The files a workspace pays for: they are live, trashed or condemned.
Charged == {f \in Files : doc[f].status \in {"ACTIVE", "DELETED"}}

StorageMatches ==
    /\ IsFiniteSet(Bytes(Charged))
    /\ storage = Cardinality(Bytes(Charged))

MonthsMatch ==
    \A m \in Months :
        /\ IsFiniteSet(Created(m))
        /\ uploads[m] = Cardinality(Created(m))

Counted == StorageMatches /\ MonthsMatch

LEMMA CountedCounts == Counted => CountersMatchDocuments
BY DEF Counted, StorageMatches, MonthsMatch, CountersMatchDocuments, Charged

LEMMA CountedInit == Init => Counted
<1> SUFFICES ASSUME Init PROVE Counted
  OBVIOUS
<1>1. Charged = {} /\ Bytes({}) = {} /\ storage = 0
  BY DEF Init, Charged, NoFile, Bytes
<1>2. \A m \in Months : Created(m) = {} /\ uploads[m] = 0
  BY DEF Init, Created, NoFile
<1> QED  BY <1>1, <1>2, FS_EmptySet DEF Counted, StorageMatches, MonthsMatch

\* A file is charged from its creation to its end, whatever it goes through.
LEMMA ChargedLife ==
  ASSUME TypeOK, NEW f \in Files
  PROVE  f \in Charged <=> life[f] \in {"live", "trashed", "condemned"}
<1>1. doc[f].status \in {"none", "ACTIVE", "DELETED", "PURGED"}
  BY DEF TypeOK, File, Statuses
<1>2. life[f] = LifeOf(doc[f])
  BY LifeIs
<1> QED  BY <1>1, <1>2 DEF LifeOf, Charged

\* The storage counter follows the abstract life of the files.
LEMMA StorageStep ==
  ASSUME Inv, Inv', [Life!Next]_(Life!vars), StorageMatches
  PROVE  StorageMatches'
<1>1. /\ \A g \in Files : g \in Charged <=> life[g] \in {"live", "trashed", "condemned"}
      /\ \A g \in Files : g \in Charged' <=> life'[g] \in {"live", "trashed", "condemned"}
  <2>1. ASSUME NEW g \in Files
        PROVE  g \in Charged' <=> life'[g] \in {"live", "trashed", "condemned"}
    <3>1. doc'[g].status \in {"none", "ACTIVE", "DELETED", "PURGED"}
      BY DEF Inv, TypeOK, File, Statuses
    <3>2. life'[g] = LifeOf(doc'[g])
      BY DEF life, LifeOf, Claimed
    <3>3. g \in Charged' <=> doc'[g].status \in {"ACTIVE", "DELETED"}
      BY DEF Charged
    <3> QED  BY <3>1, <3>2, <3>3 DEF LifeOf
  <2> QED  BY <2>1, ChargedLife DEF Inv
<1>2. Charged \subseteq Files /\ Charged' \subseteq Files
  BY DEF Charged
<1>3. CASE UNCHANGED Life!vars
  <2>1. Charged' = Charged /\ storage' = storage
    BY <1>1, <1>2, <1>3 DEF Life!vars
  <2> QED  BY <2>1 DEF StorageMatches, Bytes
<1>4. ASSUME NEW f \in Files,
             Life!Create(f) \/ Life!Trash(f) \/ Life!Restore(f) \/ Life!Condemn(f)
                \/ Life!Destroy(f)
      PROVE  StorageMatches'
  <2>1. \A g \in Files : g # f => life'[g] = life[g]
    BY <1>4 DEF Life!Create, Life!Trash, Life!Restore, Life!Condemn, Life!Destroy, Life!Step,
       life
  <2>2. \E s : life = [g \in Files |-> s[g]]
    BY LifeIs
  <2>3. storage \in Nat /\ Size[f] \in Nat
    BY ConstantsAssumption DEF Inv, TypeOK
  <2>4. CASE Life!Create(f)
    <3>1. life[f] = "none" /\ life'[f] = "live" /\ storage' = storage + Size[f]
      BY <2>4, <2>2 DEF Life!Create, Life!Step
    <3>2. f \notin Charged /\ Charged' = Charged \cup {f}
      BY <1>1, <1>2, <2>1, <3>1
    <3>3. /\ IsFiniteSet(Bytes(Charged \cup {f}))
          /\ Cardinality(Bytes(Charged \cup {f})) = Cardinality(Bytes(Charged)) + Size[f]
      BY <3>2, BytesMore DEF StorageMatches
    <3> QED  BY <3>1, <3>2, <3>3 DEF StorageMatches, Bytes
  <2>5. CASE Life!Destroy(f)
    <3>1. life[f] = "condemned" /\ life'[f] = "gone" /\ storage' = storage - Size[f]
      BY <2>5, <2>2, <2>3 DEF Life!Destroy, Life!Step
    <3>2. f \in Charged /\ Charged' = Charged \ {f}
      BY <1>1, <1>2, <2>1, <3>1
    <3>3. /\ IsFiniteSet(Bytes(Charged \ {f}))
          /\ Cardinality(Bytes(Charged \ {f})) = Cardinality(Bytes(Charged)) - Size[f]
      BY <3>2, BytesLess DEF StorageMatches
    <3> QED  BY <3>1, <3>2, <3>3 DEF StorageMatches, Bytes
  <2>6. CASE Life!Trash(f) \/ Life!Restore(f) \/ Life!Condemn(f)
    <3>1. /\ {life[f], life'[f]} \subseteq {"live", "trashed", "condemned"}
          /\ storage' = storage
      BY <2>6, <2>2, <2>3 DEF Life!Trash, Life!Restore, Life!Condemn, Life!Step
    <3>2. Charged' = Charged
      BY <1>1, <1>2, <2>1, <3>1
    <3> QED  BY <3>1, <3>2 DEF StorageMatches, Bytes
  <2> QED  BY <1>4, <2>4, <2>5, <2>6
<1> QED  BY <1>3, <1>4 DEF Life!Next

\* Nothing but the creation of a document changes what a month counts.
SameMonths ==
    /\ uploads' = uploads
    /\ \A g \in Files :
          /\ doc'[g].month = doc[g].month
          /\ doc'[g].status = "none" <=> doc[g].status = "none"

LEMMA MonthsSame == ASSUME MonthsMatch, SameMonths PROVE MonthsMatch'
<1>1. \A m \in Months : Created(m)' = Created(m)
  BY DEF Created, SameMonths
<1> QED  BY <1>1 DEF MonthsMatch, SameMonths

LEMMA MonthsDoc ==
  ASSUME Inv, UNCHANGED uploads, NEW f \in Files, NEW d \in File,
         doc' = [doc EXCEPT ![f] = d], d.month = doc[f].month,
         d.status # "none", doc[f].status # "none"
  PROVE  SameMonths
BY DocType DEF Inv, SameMonths

LEMMA MonthsPersist ==
  ASSUME Inv, MonthsMatch, NEW f \in Files, Persist(f)
  PROVE  MonthsMatch'
<1>1. doc[f].status = "none" /\ NewFile.status = "ACTIVE" /\ NewFile.month = Month(clock)
  BY DEF Persist, Inv, Staged, NewFile, NoFile
<1>2. doc'[f] = NewFile /\ \A g \in Files : g # f => doc'[g] = doc[g]
  BY NewFileType, DocType DEF Persist, Persisted, Inv
<1> SUFFICES ASSUME NEW m \in Months
             PROVE  IsFiniteSet(Created(m)') /\ uploads'[m] = Cardinality(Created(m)')
  BY DEF MonthsMatch
<1>3. IsFiniteSet(Created(m)) /\ uploads[m] = Cardinality(Created(m))
  BY DEF MonthsMatch
<1>4. uploads \in [Months -> Nat] /\ uploads' = [uploads EXCEPT ![Month(clock)] = @ + 1]
  BY DEF Persist, Persisted, Inv, TypeOK
<1>5. CASE m = Month(clock)
  <2>1. Created(m)' = Created(m) \cup {f} /\ f \notin Created(m)
    BY <1>1, <1>2, <1>5 DEF Created
  <2>2. uploads'[m] = uploads[m] + 1
    BY <1>4, <1>5
  <2> QED  BY <1>3, <2>1, <2>2, FS_AddElement
<1>6. CASE m # Month(clock)
  <2>1. Created(m)' = Created(m)
    BY <1>1, <1>2, <1>6 DEF Created
  <2>2. uploads'[m] = uploads[m]
    BY <1>4, <1>6
  <2> QED  BY <1>3, <2>1, <2>2
<1> QED  BY <1>5, <1>6

\* The documents written by jobs and requests keep their month.
LEMMA MonthsKept ==
  ASSUME Inv, NEW p \in Processes, Restore(p) \/ Accelerate(p) \/ Finalize(p)
                \/ \E f \in Files : Claim(p, f)
  PROVE  SameMonths
<1>1. CASE UNCHANGED <<uploads, doc>>
  BY <1>1 DEF SameMonths
<1>2. ASSUME NEW f \in Files, NEW d \in File, doc' = [doc EXCEPT ![f] = d],
             d.month = doc[f].month, d.status # "none", doc[f].status = "DELETED",
             uploads' = uploads
      PROVE  SameMonths
  BY <1>2, MonthsDoc
<1>3. CASE Restore(p)
  <2>1. PICK f \in Files : f = session[p].file
    BY <1>3, SessionTypes DEF Restore
  <2>2. Restored(f) \in File /\ Restored(f).month = doc[f].month /\ Restored(f).status = "ACTIVE"
    BY RecordTypes DEF Restored, NoFile
  <2> QED  BY <1>1, <1>2, <1>3, <2>1, <2>2 DEF Restore, Restored, Restorable
<1>4. CASE Accelerate(p)
  <2>1. PICK f \in Files : f = session[p].file
    BY <1>4, SessionTypes DEF Accelerate
  <2>2. session[p].now \in Nat /\ doc[f] \in File
    BY SessionTypes DEF Session, Inv, TypeOK
  <2>3. Advanced(f, session[p].now) \in File
    BY <2>2, RecordTypes
  <2>4. Advanced(f, session[p].now).month = doc[f].month
        /\ Advanced(f, session[p].now).status = doc[f].status
    BY <2>2 DEF Advanced, File
  <2> QED  BY <1>1, <1>2, <1>4, <2>1, <2>3, <2>4 DEF Accelerate, Advanced, Unchanged
<1>5. CASE Finalize(p)
  <2>1. PICK f \in Files : f = session[p].file
    BY <1>5, SessionTypes DEF Finalize
  <2>2. Purged(f) \in File /\ doc[f] \in File
    BY RecordTypes DEF Inv, TypeOK
  <2>3. Purged(f).month = doc[f].month /\ Purged(f).status = "PURGED"
    BY <2>2 DEF Purged, File
  <2>4. uploads' = uploads
    BY <1>5 DEF Finalize
  <2> QED  BY <1>1, <1>2, <1>5, <2>1, <2>2, <2>3, <2>4, FinalizeCases
<1>6. ASSUME NEW f \in Files, Claim(p, f) PROVE SameMonths
  <2>1. Claiming(p, f) \in File /\ doc[f] \in File /\ doc[f].status = "DELETED"
    BY <1>6, RecordTypes DEF Inv, TypeOK, Claim, Claimable, Due
  <2>2. Claiming(p, f).month = doc[f].month /\ Claiming(p, f).status = "DELETED"
    BY <2>1 DEF Claiming, File
  <2>3. doc' = [doc EXCEPT ![f] = Claiming(p, f)] /\ uploads' = uploads
    BY <1>6 DEF Claim, Claiming
  <2> QED  BY <1>2, <2>1, <2>2, <2>3
<1> QED  BY <1>3, <1>4, <1>5, <1>6

LEMMA MonthsStep == ASSUME Inv, MonthsMatch, [Next]_vars PROVE MonthsMatch'
<1>0. CASE UNCHANGED <<doc, uploads>>
  BY <1>0, MonthsSame DEF SameMonths
<1>1. ASSUME NEW f \in Files, UploadStep(f) PROVE MonthsMatch'
  <2>1. Persist(f) \/ UNCHANGED <<doc, uploads>>
    BY <1>1 DEF UploadStep, Receive, Inspect, Reject, Store, StoreTwice, database,
       PersistRefused, Compensate, AbandonUpload
  <2> QED  BY <1>0, <2>1, MonthsPersist
<1>2. ASSUME NEW f \in Files, Delete(f) PROVE MonthsMatch'
  <2>1. Trashed(f) \in File /\ doc[f] \in File /\ doc[f].status = "ACTIVE"
        /\ doc' = [doc EXCEPT ![f] = Trashed(f)] /\ UNCHANGED uploads
    BY <1>2, TrashedType DEF Delete, Trashed, Inv, TypeOK
  <2>2. Trashed(f).month = doc[f].month /\ Trashed(f).status = "DELETED"
    BY <2>1 DEF Trashed, File
  <2> QED  BY <2>1, <2>2, MonthsDoc, MonthsSame
<1>3. ASSUME NEW p \in Processes, Work(p) PROVE MonthsMatch'
  <2>1. CASE EndPurge(p) \/ CheckContent(p) \/ DeleteContent(p) \/ \E f \in Files : Skip(p, f)
    BY <1>0, <2>1 DEF EndPurge, CheckContent, DeleteContent, Skip
  <2> QED  BY <1>3, <2>1, MonthsKept, MonthsSame DEF Work
<1>4. CASE \/ \E r \in Requests, f \in Files : StartRestore(r, f) \/ StartPermanent(r, f)
           \/ \E j \in Jobs : StartPurge(j)
           \/ \E p \in Processes : Abandon(p)
           \/ StartupCleanup \/ ChangeContract \/ Tick \/ UNCHANGED vars
  BY <1>0, <1>4 DEF StartRestore, StartPermanent, StartPurge, Abandon, StartupCleanup,
     ChangeContract, Tick, vars, database
<1> QED  BY <1>1, <1>2, <1>3, <1>4 DEF Next

\* Each byte is reserved once and released once, across failed transactions,
\* lost answers, resumed purges and restores: the storage counter is the size of
\* the files live or in the trash, and a month counts each document created in it.
THEOREM CountersMatch == Spec => []CountersMatchDocuments
<1>1. Inv /\ Inv' /\ Counted /\ [Next]_vars => Counted'
  BY LifeStep, StorageStep, MonthsStep DEF Counted
<1> QED  BY <1>1, CountedInit, CountedCounts, Invariance, PTL DEF Spec

-----------------------------------------------------------------------------
(* Uploads without a failure.                                              *)

\* As long as nothing has failed, an upload holds quarantine, bytes or a
\* document only in the stages that own them.
CleanFile(f) ==
    /\ doc[f].status # "none" => upload[f] = "done"
    /\ upload[f] \in {"none", "received", "inspected", "failed"} => f \notin content
    /\ upload[f] \in {"stored", "compensating", "failed"} => temporary[f] = None

Clean == faults = 0 => \A f \in Files : CleanFile(f)

LEMMA CleanRefuses == Clean => RefusedUploadLeavesNothing
BY DEF Clean, CleanFile, RefusedUploadLeavesNothing

LEMMA CleanInit == Init => Clean
BY DEF Init, Clean, CleanFile, NoFile

LEMMA FaultCounts == ASSUME TypeOK, Fault PROVE faults' # 0
BY DEF TypeOK, Fault

LEMMA CleanUpload ==
  ASSUME Inv, Clean, NEW f \in Files, UploadStep(f)
  PROVE  Clean'
<1> SUFFICES ASSUME faults' = 0, NEW g \in Files PROVE CleanFile(g)'
  BY DEF Clean
<1>1. ~Fault
  BY FaultCounts DEF Inv
<1>2. faults = 0 /\ CleanFile(f) /\ CleanFile(g)
  <2>1. faults' = faults
    BY <1>1 DEF UploadStep, Receive, Inspect, Reject, Store, StoreTwice, Persist,
       PersistRefused, Compensate, AbandonUpload
  <2> QED  BY <2>1 DEF Clean
<1>3. CASE g # f
  <2>1. /\ upload'[g] = upload[g] /\ temporary'[g] = temporary[g]
        /\ g \in content' <=> g \in content
    BY <1>3 DEF UploadStep, Receive, Inspect, Reject, Store, StoreTwice, Persist,
       PersistRefused, Compensate, AbandonUpload, Inv, TypeOK
  <2>2. doc'[g] = doc[g]
    BY <1>3 DEF UploadStep, Receive, Inspect, Reject, Store, StoreTwice, Persist, Persisted,
       PersistRefused, Compensate, AbandonUpload, database, Inv, TypeOK
  <2> QED  BY <1>2, <2>1, <2>2 DEF CleanFile
<1>4. CASE g = f
  <2>1. upload \in [Files -> Stages] /\ temporary \in [Files -> Nat \cup {None}]
    BY DEF Inv, TypeOK
  <2>2. CASE Receive(f) \/ Inspect(f) \/ Store(f)
    BY <1>2, <1>4, <2>1, <2>2 DEF Receive, Inspect, Store, CleanFile, database
  <2>3. CASE Reject(f)
    BY <1>1, <1>2, <1>4, <2>1, <2>3 DEF Reject, CleanFile, database
  <2>4. CASE Persist(f)
    BY <1>1, <1>2, <1>4, <2>1, <2>4 DEF Persist, CleanFile
  <2>5. CASE PersistRefused(f) \/ Compensate(f)
    BY <1>1, <1>2, <1>4, <2>1, <2>5 DEF PersistRefused, Compensate, CleanFile, database
  <2> QED  BY <1>1, <2>2, <2>3, <2>4, <2>5 DEF UploadStep, StoreTwice, AbandonUpload
<1> QED  BY <1>3, <1>4

\* Whoever works on stored files neither uploads nor creates documents.
Harmless ==
    /\ upload' = upload
    /\ content' \subseteq content
    /\ faults' = 0 => faults = 0
    /\ \A f \in Files :
          /\ temporary'[f] \in {temporary[f], None}
          /\ doc'[f].status = "none" <=> doc[f].status = "none"

LEMMA CleanHarmless == ASSUME Clean, Harmless PROVE Clean'
BY DEF Clean, CleanFile, Harmless

LEMMA OthersHarmless ==
  ASSUME Inv, [Next]_vars, ~ \E f \in Files : UploadStep(f)
  PROVE  Harmless
<1>1. CASE \E f \in Files : Delete(f)
  <2>1. PICK f \in Files : Delete(f)
    BY <1>1
  <2>2. Trashed(f) \in File /\ doc[f] \in File /\ doc[f].status = "ACTIVE"
        /\ doc' = [doc EXCEPT ![f] = Trashed(f)]
    BY <2>1, TrashedType DEF Delete, Trashed, Inv, TypeOK
  <2>3. Trashed(f).status = "DELETED"
    BY <2>2 DEF Trashed, File
  <2>4. \A g \in Files : doc'[g].status = "none" <=> doc[g].status = "none"
    BY <2>2, <2>3, DocType DEF Inv
  <2> QED  BY <2>1, <2>4 DEF Delete, Harmless
<1>2. CASE \E p \in Processes : Restore(p) \/ Accelerate(p) \/ Finalize(p)
                \/ \E f \in Files : Claim(p, f)
  <2>1. SameMonths
    BY <1>2, MonthsKept
  <2> QED  BY <1>2, <2>1 DEF SameMonths, Harmless, Restore, Accelerate, Finalize, Claim
<1>3. CASE \E p \in Processes : Abandon(p)
  <2>1. Fault /\ UNCHANGED <<upload, content, temporary, doc>>
    BY <1>3 DEF Abandon
  <2> QED  BY <2>1, FaultCounts DEF Harmless, Inv
<1>4. CASE \E p \in Processes :
              \/ EndPurge(p) \/ CheckContent(p) \/ DeleteContent(p)
              \/ \E f \in Files : Skip(p, f)
  BY <1>4 DEF EndPurge, CheckContent, DeleteContent, Skip, Harmless
<1>5. CASE \/ \E r \in Requests, f \in Files : StartRestore(r, f) \/ StartPermanent(r, f)
           \/ \E j \in Jobs : StartPurge(j)
           \/ ChangeContract \/ Tick \/ UNCHANGED vars
  BY <1>5 DEF StartRestore, StartPermanent, StartPurge, ChangeContract, Tick, vars, database,
     Harmless
<1>6. CASE StartupCleanup
  BY <1>6 DEF StartupCleanup, database, Harmless, Inv, TypeOK
<1> QED  BY <1>1, <1>2, <1>3, <1>4, <1>5, <1>6 DEF Next, Work

\* An upload refused without any failure leaves no byte, no quarantined file and
\* no document: every refusal compensates what its stage had made.
THEOREM RefusedUploadClean == Spec => []RefusedUploadLeavesNothing
<1>1. Inv /\ Clean /\ [Next]_vars => Clean'
  BY CleanUpload, OthersHarmless, CleanHarmless
<1> QED  BY <1>1, CleanInit, CleanRefuses, Invariance, PTL DEF Spec

-----------------------------------------------------------------------------
(* The retention.                                                          *)

\* A claimed document is due, or a user has advanced its deadline.
OnTime(d) ==
    /\ d.deletedAt <= clock
    /\ Claimed(d) => \/ d.purgeScheduledAt <= clock
                     \/ d.purgeScheduledAt # d.deletedAt + Retention

\* A session has read a time that has come.  A permanent deletion that follows
\* the deletion within one tick is one tick ahead, for its one file.
InTime(s) ==
    \/ s.now <= clock
    \/ /\ s.now = clock + 1 /\ s.batch = {}
       /\ s.file \in Files /\ doc[s.file].status = "DELETED" =>
             doc[s.file].deletedAt = clock

DocsDated == \A f \in Files : doc[f].status = "DELETED" => OnTime(doc[f])
Dated == DocsDated /\ \A p \in Processes : InTime(session[p])

\* What a step must keep of the documents and of the sessions it leaves alone.
Punctual == DocsDated' /\ \A s \in Session : InTime(s) => InTime(s)'

LEMMA DatedSame ==
  ASSUME Inv, Dated, UNCHANGED doc, clock' \in {clock, clock + 1}
  PROVE  Punctual
<1>1. clock \in Nat /\ \A f \in Files : doc[f] \in File
  BY DEF Inv, TypeOK
<1>2. DocsDated'
  BY <1>1 DEF Dated, DocsDated, OnTime, Claimed, File
<1>3. ASSUME NEW s \in Session, InTime(s) PROVE InTime(s)'
  BY <1>1, <1>3 DEF InTime, Session
<1> QED  BY <1>2, <1>3 DEF Punctual

LEMMA DatedWriting ==
  ASSUME Inv, Dated, UNCHANGED clock, NEW f \in Files, NEW d \in File,
         doc' = [doc EXCEPT ![f] = d],
         d.status = "DELETED" =>
            /\ OnTime(d)
            /\ \/ d.deletedAt = clock
               \/ doc[f].status = "DELETED" /\ d.deletedAt = doc[f].deletedAt
  PROVE  Punctual
<1>1. doc'[f] = d /\ \A g \in Files : g # f => doc'[g] = doc[g]
  BY DocType DEF Inv
<1>2. DocsDated'
  BY <1>1 DEF Dated, DocsDated, OnTime, Claimed
<1>3. ASSUME NEW s \in Session, InTime(s) PROVE InTime(s)'
  BY <1>1, <1>3 DEF InTime
<1> QED  BY <1>2, <1>3 DEF Punctual

LEMMA DatedKept ==
  ASSUME Inv, Dated, Punctual, UNCHANGED session
  PROVE  Dated'
<1>1. \A p \in Processes : session[p] \in Session /\ InTime(session[p])
  BY DEF Inv, TypeOK, Dated
<1>2. \A p \in Processes : InTime(session[p])'
  <2> SUFFICES ASSUME NEW p \in Processes PROVE InTime(session[p])'
    OBVIOUS
  <2> DEFINE s == session[p]
  <2>1. PICK t \in Session : t = session[p] /\ InTime(t)
    BY <1>1
  <2>2. InTime(t)'
    BY <2>1 DEF Punctual
  <2> QED  BY <2>1, <2>2 DEF InTime
<1> QED  BY <1>2 DEF Dated, Punctual

LEMMA DatedBecome ==
  ASSUME Inv, Dated, Punctual, NEW p \in Processes, NEW s \in Session,
         Become(p, s), InTime(s)
  PROVE  Dated'
<1>1. \A q \in Processes : session[q] \in Session /\ InTime(session[q])
  BY DEF Inv, TypeOK, Dated
<1>2. ASSUME NEW q \in Processes PROVE InTime(session[q])'
  <2>1. PICK t \in Session : t = session'[q] /\ InTime(t)
    BY <1>1, BecomeType DEF Inv
  <2>2. InTime(t)'
    BY <2>1 DEF Punctual
  <2> QED  BY <2>1, <2>2 DEF InTime
<1> QED  BY <1>2 DEF Dated, Punctual

LEMMA DatedInit == Init => Dated
BY DEF Init, Dated, DocsDated, InTime, NoFile, Idle

\* The sessions that a step derives from one that was in time.
LEMMA InTimeTypes ==
  ASSUME Inv, Dated, NEW p \in Processes
  PROVE  InTime(session[p]) /\ InTime(Idle) /\ InTime(Resume(p))
<1>1. session[p] \in Session /\ clock \in Nat /\ None \notin Files /\ InTime(session[p])
  BY ConstantsAssumption DEF Inv, TypeOK, Dated
<1>2. InTime(Idle)
  BY <1>1 DEF InTime, Idle
<1>3. InTime(Resume(p))
  BY <1>1, <1>2 DEF InTime, Resume, Session
<1> QED  BY <1>1, <1>2, <1>3

LEMMA DatedFile ==
  ASSUME Inv, Dated, NEW f \in Files, UploadStep(f) \/ Delete(f)
  PROVE  Dated'
<1>0. session' = session /\ clock' = clock
  BY DEF UploadStep, Receive, Inspect, Reject, Store, StoreTwice, Persist, database,
     PersistRefused, Compensate, AbandonUpload, Delete
<1>1. CASE Persist(f)
  <2>1. NewFile \in File /\ NewFile.status = "ACTIVE" /\ doc' = [doc EXCEPT ![f] = NewFile]
    BY <1>1, NewFileType DEF Inv, NewFile, NoFile, Persist, Persisted
  <2> QED  BY <1>0, <2>1, DatedWriting, DatedKept
<1>2. CASE Delete(f)
  <2>1. Trashed(f) \in File /\ doc' = [doc EXCEPT ![f] = Trashed(f)] /\ doc[f] \in File
    BY <1>2, TrashedType DEF Delete, Trashed, Inv, TypeOK
  <2>2. Trashed(f).deletedAt = clock /\ ~Claimed(Trashed(f)) /\ clock \in Nat
    BY <2>1 DEF Trashed, File, Claimed, Inv, TypeOK
  <2>3. OnTime(Trashed(f))
    BY <2>2 DEF OnTime
  <2>4. Punctual
    BY <1>0, <2>1, <2>2, <2>3, DatedWriting
  <2> QED  BY <1>0, <2>4, DatedKept
<1>3. CASE UNCHANGED doc
  BY <1>0, <1>3, DatedSame, DatedKept
<1> QED  BY <1>1, <1>2, <1>3 DEF UploadStep, Receive, Inspect, Reject, Store, StoreTwice,
            database, PersistRefused, Compensate, AbandonUpload

LEMMA DatedStart ==
  ASSUME Inv, Dated, NEW p \in Processes,
         (\E f \in Files : StartRestore(p, f) \/ StartPermanent(p, f)) \/ StartPurge(p)
  PROVE  Dated'
<1>0. clock \in Nat /\ UNCHANGED <<doc, clock>>
  BY DEF StartRestore, StartPermanent, StartPurge, Inv, TypeOK
<1>1. Punctual
  BY <1>0, DatedSame
<1>2. CASE \E f \in Files : StartRestore(p, f)
  <2>1. PICK f \in Files : StartRestore(p, f)
    BY <1>2
  <2> DEFINE s == [Idle EXCEPT !.pc = "checking", !.file = f]
  <2>2. s \in Session /\ s.now = 0 /\ Become(p, s)
    BY <2>1, NoFileType DEF Idle, Session, StartRestore
  <2>3. InTime(s)
    BY <1>0, <2>2 DEF InTime
  <2> QED  BY <1>1, <2>2, <2>3, DatedBecome
<1>3. CASE \E f \in Files : StartPermanent(p, f)
  <2>1. PICK f \in Files : StartPermanent(p, f)
    BY <1>3
  <2> DEFINE t == IF clock > doc[f].deletedAt THEN clock ELSE doc[f].deletedAt + 1
             s == [Idle EXCEPT !.pc = "accelerating", !.file = f, !.seen = doc[f], !.now = t]
  <2>2. doc[f] \in File /\ doc[f].deletedAt \in Nat /\ doc[f].deletedAt <= clock
    BY <2>1 DEF Inv, TypeOK, File, StartPermanent, Dated, DocsDated, OnTime
  <2>3. Become(p, s)
    BY <2>1 DEF StartPermanent
  <2>4. t \in Nat /\ (t <= clock \/ (t = clock + 1 /\ doc[f].deletedAt = clock))
    <3>1. CASE clock > doc[f].deletedAt
      BY <1>0, <2>2, <3>1
    <3>2. CASE ~(clock > doc[f].deletedAt)
      <4>1. doc[f].deletedAt = clock
        BY <1>0, <2>2, <3>2
      <4> QED  BY <1>0, <3>2, <4>1
    <3> QED  BY <3>1, <3>2
  <2> HIDE DEF t
  <2>5. s \in Session /\ s.file = f /\ s.now = t /\ s.batch = {}
    BY <2>2, <2>4, NoFileType DEF Idle, Session
  <2>6. InTime(s)
    <3> HIDE DEF s
    <3> QED  BY <2>4, <2>5 DEF InTime
  <2> QED  BY <1>1, <2>3, <2>5, <2>6, DatedBecome
<1>4. CASE StartPurge(p)
  <2>1. PICK B \in Batches(clock) :
           Become(p, [Idle EXCEPT !.pc = "batch", !.now = clock, !.batch = B])
    BY <1>4 DEF StartPurge
  <2> DEFINE s == [Idle EXCEPT !.pc = "batch", !.now = clock, !.batch = B]
  <2>2. B \subseteq Files
    BY DEF Batches
  <2>3. s \in Session /\ s.now = clock
    BY <1>0, <2>2, NoFileType DEF Idle, Session
  <2>4. InTime(s)
    BY <1>0, <2>3 DEF InTime
  <2> QED  BY <1>1, <2>1, <2>3, <2>4, DatedBecome
<1> QED  BY <1>2, <1>3, <1>4

LEMMA DatedAccelerate ==
  ASSUME Inv, Dated, NEW p \in Processes, Accelerate(p)
  PROVE  Dated'
<1>0. PICK f \in Files : f = session[p].file
  BY SessionTypes DEF Accelerate
<1> DEFINE s == [session[p] EXCEPT !.pc = "claiming"]
           d == Advanced(f, session[p].now)
<1>1. session[p] \in Session /\ InTime(session[p]) /\ InTime(Idle) /\ Idle \in Session
  BY SessionTypes, InTimeTypes
<1>2. clock' = clock /\ clock \in Nat /\ session[p].now \in Nat /\ doc[f] \in File
  BY <1>1 DEF Accelerate, Inv, TypeOK, Session
<1>3. CASE Become(p, Idle) /\ UNCHANGED doc
  BY <1>1, <1>2, <1>3, DatedSame, DatedBecome
<1>4. CASE Unchanged(p, f) /\ doc' = [doc EXCEPT ![f] = d] /\ Become(p, s)
  <2>1. d \in File /\ s \in Session /\ InTime(s)
    BY <1>1, <1>2, RecordTypes DEF Session, InTime
  <2>2. /\ doc[f].status = "DELETED" /\ d.deletedAt = doc[f].deletedAt
        /\ d.purgeScheduledAt = session[p].now /\ d.deletedAt <= clock /\ d.deletedAt \in Nat
    BY <1>2, <1>4 DEF Unchanged, Advanced, File, Dated, DocsDated, OnTime
  <2>3. session[p].now <= clock \/ (session[p].now = clock + 1 /\ d.deletedAt = clock)
    <3>1. session[p].file = f /\ InTime(session[p])
      BY <1>0, <1>1
    <3>2. f \in Files /\ doc[f].status = "DELETED"
      BY <2>2
    <3>3. session[p].now <= clock \/ (session[p].now = clock + 1 /\ doc[f].deletedAt = clock)
      BY <3>1, <3>2 DEF InTime
    <3> QED  BY <3>3, <2>2
  <2>4. OnTime(d)
    <3> HIDE DEF d
    <3> QED  BY <1>2, <2>2, <2>3, ConstantsAssumption DEF OnTime
  <2> HIDE DEF d, s
  <2>5. Punctual
    BY <1>2, <1>4, <2>1, <2>2, <2>4, DatedWriting
  <2> QED  BY <1>4, <2>1, <2>5, DatedBecome
<1> QED  BY <1>0, <1>3, <1>4 DEF Accelerate, Advanced

LEMMA DatedClaim ==
  ASSUME Inv, Dated, NEW p \in Processes, NEW f \in Files, Claim(p, f)
  PROVE  Dated'
<1> DEFINE s == [session[p] EXCEPT !.pc = "deleting", !.file = f, !.batch = @ \ {f}]
           d == Claiming(p, f)
<1>1. session[p] \in Session /\ InTime(session[p]) /\ Become(p, s)
  BY SessionTypes, InTimeTypes DEF Claim
<1>2. /\ clock' = clock /\ clock \in Nat /\ session[p].now \in Nat /\ doc[f] \in File
      /\ doc[f].deletedAt \in Nat /\ doc[f].purgeScheduledAt \in Nat
      /\ doc[f].status = "DELETED" /\ doc[f].purgeScheduledAt <= session[p].now
      /\ doc[f].deletedAt <= clock
  BY <1>1 DEF Claim, Claimable, Due, Inv, TypeOK, Session, File, Dated, DocsDated, OnTime
<1>3. session[p].now > clock => session[p].file = f /\ doc[f].deletedAt = clock
        /\ session[p].now = clock + 1 /\ session[p].batch = {}
  BY <1>1, <1>2 DEF Claim, Candidates, InTime
<1>4. s \in Session /\ s.now = session[p].now /\ s.file = f
      /\ (session[p].batch = {} => s.batch = {})
  BY <1>1 DEF Session
<1>9. InTime(s)
  <2> HIDE DEF s
  <2> QED  BY <1>2, <1>3, <1>4 DEF InTime
<1>5. d \in File /\ doc' = [doc EXCEPT ![f] = d]
  BY RecordTypes DEF Claim, Claiming
<1>6. d.deletedAt = doc[f].deletedAt /\ d.status = "DELETED"
      /\ d.purgeScheduledAt = doc[f].purgeScheduledAt
  BY <1>2 DEF Claiming, File
<1>7. OnTime(d)
  <2> HIDE DEF d
  <2> QED  BY <1>2, <1>3, <1>6, ConstantsAssumption DEF OnTime
<1>8. Punctual
  <2> HIDE DEF d
  <2> QED  BY <1>2, <1>5, <1>6, <1>7, DatedWriting
<1> QED  BY <1>1, <1>4, <1>8, <1>9, DatedBecome

LEMMA DatedRestoreFinalize ==
  ASSUME Inv, Dated, NEW p \in Processes, Restore(p) \/ Finalize(p)
  PROVE  Dated'
<1>0. PICK f \in Files : f = session[p].file
  BY SessionTypes DEF Restore, Finalize
<1>1. PICK s \in Session : Become(p, s) /\ InTime(s)
  BY SessionTypes, InTimeTypes DEF Restore, Finalize
<1>2. clock' = clock
  BY DEF Restore, Finalize
<1>3. UNCHANGED doc \/ \E d \in File : d.status # "DELETED" /\ doc' = [doc EXCEPT ![f] = d]
  <2>1. Restored(f) \in File /\ Restored(f).status = "ACTIVE" /\ Purged(f) \in File
    BY NoFileType, RecordTypes DEF Restored, NoFile
  <2>2. Purged(f).status = "PURGED"
    BY DEF Purged, File, Inv, TypeOK
  <2>3. CASE Restore(p)
    BY <1>0, <2>1, <2>3 DEF Restore, Restored
  <2>4. CASE Finalize(p)
    BY <1>0, <2>1, <2>2, <2>4, FinalizeCases
  <2> QED  BY <2>3, <2>4
<1>4. Punctual
  BY <1>2, <1>3, DatedSame, DatedWriting
<1> QED  BY <1>1, <1>4, DatedBecome

LEMMA DatedPlain ==
  ASSUME Inv, Dated, NEW p \in Processes,
         EndPurge(p) \/ Abandon(p) \/ CheckContent(p) \/ DeleteContent(p)
            \/ \E f \in Files : Skip(p, f)
  PROVE  Dated'
<1>1. Punctual
  BY DatedSame DEF EndPurge, Abandon, CheckContent, DeleteContent, Skip
<1>2. /\ session[p] \in Session /\ Idle \in Session /\ Resume(p) \in Session
      /\ InTime(session[p]) /\ InTime(Idle) /\ InTime(Resume(p))
  BY SessionTypes, InTimeTypes
<1>3. CASE EndPurge(p) \/ Abandon(p)
  BY <1>1, <1>2, <1>3, DatedBecome DEF EndPurge, Abandon
<1>4. CASE CheckContent(p)
  <2> DEFINE t == [session[p] EXCEPT !.pc = "restoring"]
  <2>1. t \in Session /\ InTime(t)
    BY <1>2 DEF Session, InTime
  <2> QED  BY <1>1, <1>2, <1>4, <2>1, DatedBecome DEF CheckContent
<1>5. CASE DeleteContent(p)
  <2> DEFINE t == [session[p] EXCEPT !.pc = "finalizing"]
  <2>1. t \in Session /\ InTime(t) /\ Become(p, t)
    BY <1>2, <1>5 DEF Session, InTime, DeleteContent
  <2> QED  BY <1>1, <2>1, DatedBecome
<1>6. CASE \E f \in Files : Skip(p, f)
  <2>1. PICK f \in Files : Skip(p, f)
    BY <1>6
  <2> DEFINE t == [Resume(p) EXCEPT !.batch = @ \ {f}]
  <2>2. t \in Session /\ InTime(t) /\ Become(p, t)
    BY <1>2, <2>1 DEF Session, InTime, Skip
  <2> QED  BY <1>1, <2>2, DatedBecome
<1> QED  BY <1>3, <1>4, <1>5, <1>6

LEMMA DatedStep == Inv /\ Dated /\ [Next]_vars => Dated'
<1> SUFFICES ASSUME Inv, Dated, [Next]_vars PROVE Dated'
  OBVIOUS
<1>1. CASE \E f \in Files : UploadStep(f) \/ Delete(f)
  BY <1>1, DatedFile
<1>2. CASE \E r \in Requests, f \in Files : StartRestore(r, f) \/ StartPermanent(r, f)
  BY <1>2, DatedStart DEF Processes
<1>3. CASE \E j \in Jobs : StartPurge(j)
  BY <1>3, DatedStart DEF Processes
<1>4. CASE \E p \in Processes : Work(p) \/ Abandon(p)
  BY <1>4, DatedAccelerate, DatedClaim, DatedRestoreFinalize, DatedPlain DEF Work
<1>5. CASE StartupCleanup \/ ChangeContract \/ Tick \/ UNCHANGED vars
  BY <1>5, DatedSame, DatedKept DEF StartupCleanup, ChangeContract, Tick, vars, database
<1> QED  BY <1>1, <1>2, <1>3, <1>4, <1>5 DEF Next

\* The bytes of an uploaded file go under a claim, which is never early.
LEMMA RetentionStep ==
  ASSUME Inv, Dated, [Next]_vars, NEW f \in content \ content',
         doc[f].status = "DELETED", upload[f] = "done",
         doc[f].purgeScheduledAt = doc[f].deletedAt + Retention
  PROVE  doc[f].purgeScheduledAt <= clock
<1>1. f \in Files
  BY DEF Inv, TypeOK
<1>2. ~ \E g \in Files : UploadStep(g) \/ Delete(g)
  BY <1>1 DEF UploadStep, Receive, Inspect, Reject, Store, StoreTwice, Persist, Delete,
     PersistRefused, Compensate, AbandonUpload
<1>3. \E p \in Processes : DeleteContent(p)
  BY <1>2 DEF Next, Work, StartRestore, StartPermanent, StartPurge, EndPurge, CheckContent,
     Restore, Accelerate, Finalize, Claim, Skip, Abandon, StartupCleanup, ChangeContract,
     Tick, vars
<1>4. Doomed(f)
  BY <1>3 DEF DeleteContent, Inv, Tracked
<1> QED  BY <1>1, <1>4 DEF Doomed, Dated, DocsDated, OnTime

\* No purge, however late or early its process read the time, destroys the bytes
\* of a file before its retention ends, unless a user advanced the deadline.
THEOREM RetentionKept == Spec => RetentionHonoured
<1>1. Inv /\ Dated /\ [Next]_vars =>
        [\A f \in content \ content' :
          doc[f].status = "DELETED"
          /\ upload[f] = "done"
          /\ doc[f].purgeScheduledAt = doc[f].deletedAt + Retention
          => doc[f].purgeScheduledAt <= clock]_vars
  BY RetentionStep
<1> QED  BY <1>1, DatedInit, DatedStep, Invariance, PTL DEF Spec, RetentionHonoured

=============================================================================
