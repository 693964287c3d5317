------------------------ MODULE SubscriptionLifecycle ------------------------
(***************************************************************************)
(* The commercial contract of a workspace: the documents of the            *)
(* Subscription and TrialEligibility collections, the services that write  *)
(* them, the administration PATCH, the workspace closures that cancel them *)
(* and the three maintenance jobs.                                         *)
(*                                                                         *)
(* Every service runs in one mongoose.connection.transaction that reads    *)
(* one Subscription and writes the same document under a conditional       *)
(* filter, so a service is one action.  What is NOT inside a transaction   *)
(* is a step of its own: the middleware that admits an owner's trial       *)
(* request, and the candidate list a job reads before its transactions.    *)
(*                                                                         *)
(* Data kept abstract: prices are one number per plan, every billing       *)
(* interval is one contractual Period, the baseline subscription is        *)
(* derived from the workspace status (created with the workspace, only     *)
(* canceled by the terminal closure), and past_due, which no service of    *)
(* the repository ever writes, is absent.                                  *)
(***************************************************************************)
EXTENDS Integers, FiniteSets

CONSTANTS
    Workspaces,     \* workspaces that may exist
    Users,          \* canonical e-mail identities
    Subs,           \* identifiers of Subscription documents (bounds creations)
    Plans,          \* active plans of the catalogue, the baseline plan excluded
    Workers,        \* processes that run maintenance jobs
    Relaunched,     \* those an external scheduler starts again and again
    Price,          \* catalogue price of each plan
    TrialDays,      \* trial duration of each plan, 0 when trialEnabled is false
    Period,         \* length of a paid period
    Batch,          \* batchSize of a job
    Lag,            \* how long before its commit a command captured its clock
    MaxTime,        \* bound of the clock
    None            \* the null of the documents

ASSUME ConstantsAssumption ==
    /\ Price \in [Plans -> Nat]
    /\ TrialDays \in [Plans -> Nat]
    /\ Relaunched \subseteq Workers
    /\ Period \in Nat \ {0}
    /\ Batch \in Nat \ {0}
    /\ Lag \in Nat
    /\ MaxTime \in Nat

VARIABLES
    now,            \* the wall clock
    status,         \* status of each workspace
    owner,          \* the user holding the active owner membership
    subs,           \* Subscription documents of kind "commercial"
    eligibility,    \* TrialEligibility: the trial an identity consumed
    request,        \* owner trial requests already admitted by the middleware
    job             \* state of each job process

vars == <<now, status, owner, subs, eligibility, request, job>>

-----------------------------------------------------------------------------
(* The documents.                                                          *)

Current  == {"trialing", "active"}
Terminal == {"canceled", "expired"}

ScheduledChange == [target : Plans, at : Nat]

Subscription ==
    [ws       : Workspaces,
     plan     : Plans,
     term     : {"fixed", "open_ended"},
     status   : Current \cup Terminal,
     start    : Nat,
     end      : Nat \cup {None},
     trialEnd : Nat \cup {None},
     cancel   : BOOLEAN,
     change   : ScheduledChange \cup {None}]

\* null is none of the values it stands in for.
ASSUME NoneAssumption ==
    None \notin Users \cup Subs \cup Plans \cup Nat \cup ScheduledChange \cup Subscription

Kinds == {"expire", "finalize", "downgrade"}

\* What a job remembers of a document it read: the due date, and the target
\* plan it will write.
Candidate == [id : Subs, due : Nat, target : Plans \cup {None}]

Idle == [kind |-> "idle", at |-> 0, todo |-> {}]
Job  == [kind : Kinds \cup {"idle"}, at : Nat, todo : SUBSET Candidate]

TypeOK ==
    /\ now \in Nat
    /\ status \in [Workspaces -> {"absent", "active", "archived", "closed"}]
    /\ owner \in [Workspaces -> Users \cup {None}]
    /\ subs \in [Subs -> Subscription \cup {None}]
    /\ eligibility \in [Users -> Subs \cup {None}]
    /\ request \in [Workspaces -> Plans \cup {None}]
    /\ job \in [Workers -> Job]

-----------------------------------------------------------------------------
(* Helpers.                                                                *)

Exists(s)    == subs[s] # None
Contract(w)  == {s \in Subs : Exists(s) /\ subs[s].ws = w}
CurrentOf(w) == {s \in Contract(w) : subs[s].status \in Current}

TrialOf(w) == {s \in Contract(w) : subs[s].status = "trialing"}

\* Mutant of Captured: the clock is read Lag before the epoch of the clock.
CapturedEarlier == (now - Lag)..now

\* `now = new Date()` is captured when a command is called, its transaction
\* commits later.
Captured == {t \in 0..now : t + Lag >= now}

\* The pre('findOneAndUpdate') hook: an update that touches one of the three
\* dates is refused unless both ends are after the start.
ValidDates(start, end, trialEnd) ==
    /\ end # None => end > start
    /\ trialEnd # None => trialEnd > start

\* Mutant of Grants: trusts the status, and so the jobs, instead of the dates.
GrantsByStatus(s, at) == subs[s].status \in Current

\* getWorkspacePlanEntitlement, its three commercial lookups: active without
\* an end, active before its end, trialing before the end of the trial.
Grants(s, at) ==
    \/ /\ subs[s].status = "active" /\ subs[s].term = "open_ended"
       /\ subs[s].end = None /\ subs[s].trialEnd = None /\ ~subs[s].cancel
    \/ /\ subs[s].status = "active" /\ subs[s].term # "open_ended"
       /\ subs[s].end # None /\ subs[s].end > at
    \/ /\ subs[s].status = "trialing" /\ subs[s].term # "open_ended"
       /\ subs[s].trialEnd # None /\ subs[s].trialEnd > at

\* Mutant of NeverTried: only a trial that still runs counts.
NotTrying(u) ==
    eligibility[u] # None => subs[eligibility[u]].status \notin Current

\* hasConsumedTrial
NeverTried(u) == eligibility[u] = None

\* Mutant of NoContract: the paid contract is forgotten.
NoTrial(w) == TrialOf(w) = {}

\* The two existence checks before a trial is created.
NoContract(w) ==
    /\ TrialOf(w) = {}
    /\ {c \in Contract(w) : subs[c].status = "active"} = {}

\* targetCatalogPrice < currentCatalogPrice
Cheaper(p, q) == Price[p] < Price[q]

Granting(w, at) == {s \in Contract(w) : Grants(s, at)}

NewTrial(w, p, at) ==
    [ws |-> w, plan |-> p, term |-> "fixed", status |-> "trialing",
     start |-> at, end |-> at + TrialDays[p], trialEnd |-> at + TrialDays[p],
     cancel |-> FALSE, change |-> None]

NewOpenEnded(w, p, at) ==
    [ws |-> w, plan |-> p, term |-> "open_ended", status |-> "active",
     start |-> at, end |-> None, trialEnd |-> None,
     cancel |-> FALSE, change |-> None]

-----------------------------------------------------------------------------
Init ==
    /\ now = 0
    /\ status = [w \in Workspaces |-> "absent"]
    /\ owner = [w \in Workspaces |-> None]
    /\ subs = [s \in Subs |-> None]
    /\ eligibility = [u \in Users |-> None]
    /\ request = [w \in Workspaces |-> None]
    /\ job = [k \in Workers |-> Idle]

Tick ==
    /\ now < MaxTime
    /\ now' = now + 1
    /\ UNCHANGED <<status, owner, subs, eligibility, request, job>>

-----------------------------------------------------------------------------
(* Workspaces: creation, commercial invitation, ownership, closure.        *)

\* createWorkspace: the workspace, its owner and its baseline.
CreateWorkspace(w, u) ==
    /\ status[w] = "absent"
    /\ status' = [status EXCEPT ![w] = "active"]
    /\ owner' = [owner EXCEPT ![w] = u]
    /\ UNCHANGED <<now, subs, eligibility, request, job>>

\* acceptCommercialInvitation: the first workspace of an identity, with the
\* offered trial, or with a free contract without end when the offer has none.
AcceptCommercialInvitation(w, u, p, s, at) ==
    /\ status[w] = "absent"
    /\ \A v \in Workspaces : owner[v] # u
    /\ ~Exists(s)
    /\ status' = [status EXCEPT ![w] = "active"]
    /\ owner' = [owner EXCEPT ![w] = u]
    /\ \/ /\ TrialDays[p] > 0
          /\ NeverTried(u)
          /\ subs' = [subs EXCEPT ![s] = NewTrial(w, p, at)]
          /\ eligibility' = [eligibility EXCEPT ![u] = s]
       \/ /\ TrialDays[p] = 0
          /\ subs' = [subs EXCEPT ![s] = NewOpenEnded(w, p, at)]
          /\ UNCHANGED eligibility
    /\ UNCHANGED <<now, request, job>>

\* transferWorkspaceOwnership: the role changes hands, no contract is written.
\* Its single write on the workspace has no condition on the status.
TransferOwnership(w, u) ==
    /\ status[w] # "absent"
    /\ owner[w] \notin {u, None}
    /\ owner' = [owner EXCEPT ![w] = u]
    /\ UNCHANGED <<now, status, subs, eligibility, request, job>>

\* transitionWorkspaceLifecycleInSession: archive by the owner, terminal
\* closure by the platform; every contract still current is canceled.
CloseWorkspace(w, target) ==
    /\ \/ target = "archived" /\ status[w] = "active"
       \/ target = "closed" /\ status[w] \in {"active", "archived"}
    /\ status' = [status EXCEPT ![w] = target]
    /\ subs' = [s \in Subs |->
                  IF s \in CurrentOf(w)
                  THEN [subs[s] EXCEPT !.status = "canceled",
                                       !.cancel = FALSE, !.change = None]
                  ELSE subs[s]]
    /\ UNCHANGED <<now, owner, eligibility, request, job>>

-----------------------------------------------------------------------------
(* Trials.                                                                 *)

\* loadWorkspaceContext and authorizeWorkspaceOwner admit the owner's request;
\* nothing below reads the workspace status again.
RequestTrial(w, p) ==
    /\ status[w] = "active" /\ owner[w] # None
    /\ request[w] = None
    /\ request' = [request EXCEPT ![w] = p]
    /\ UNCHANGED <<now, status, owner, subs, eligibility, job>>

\* The first branch of grantTrial: a running trial changes plan.
ChangeTrialPlan(w, p, at) ==
    /\ TrialDays[p] > 0
    /\ \E s \in TrialOf(w) :
         /\ subs[s].trialEnd # None /\ subs[s].trialEnd > at
         /\ subs' = [subs EXCEPT ![s].plan = p]
    /\ UNCHANGED eligibility

\* The second branch of grantTrial: a first trial for the current owner.
CreateTrial(w, p, s, at) ==
    /\ TrialDays[p] > 0
    /\ NoContract(w)
    /\ owner[w] # None
    /\ NeverTried(owner[w])
    /\ ~Exists(s)
    /\ subs' = [subs EXCEPT ![s] = NewTrial(w, p, at)]
    /\ eligibility' = [eligibility EXCEPT ![owner[w]] = s]

GrantTrialTx(w, p) ==
    \E at \in Captured :
        \/ ChangeTrialPlan(w, p, at)
        \/ \E s \in Subs : CreateTrial(w, p, s, at)

\* grantTrial for a request the middleware admitted earlier.
GrantWorkspaceTrial(w) ==
    /\ request[w] # None
    /\ GrantTrialTx(w, request[w])
    /\ request' = [request EXCEPT ![w] = None]
    /\ UNCHANGED <<now, status, owner, job>>

\* The admitted request ends without a write: refused, or its process died.
AbandonTrialRequest(w) ==
    /\ request[w] # None
    /\ request' = [request EXCEPT ![w] = None]
    /\ UNCHANGED <<now, status, owner, subs, eligibility, job>>

\* POST /api/platform/subscriptions/grant-trial: no workspace context.
GrantPlatformTrial(w, p) ==
    /\ status[w] # "absent"
    /\ GrantTrialTx(w, p)
    /\ UNCHANGED <<now, status, owner, request, job>>

\* endTrialToFree: needs the baseline, and a trial that has not ended.
EndTrialToFree(w, at) ==
    /\ status[w] \in {"active", "archived"}
    /\ \E s \in TrialOf(w) :
         /\ subs[s].trialEnd # None /\ subs[s].trialEnd > at
         /\ ValidDates(subs[s].start, at, subs[s].trialEnd)
         /\ subs' = [subs EXCEPT ![s] =
                       [@ EXCEPT !.status = "canceled", !.cancel = FALSE,
                                 !.end = at]]
    /\ UNCHANGED <<now, status, owner, eligibility, request, job>>

\* activatePaidSubscriptionFromTrial: trialEnd stays as history.
ActivatePaid(w, p, paidAt) ==
    /\ \E s \in TrialOf(w) :
         /\ subs[s].trialEnd # None /\ subs[s].trialEnd > paidAt
         /\ ValidDates(paidAt, paidAt + Period, subs[s].trialEnd)
         /\ subs' = [subs EXCEPT ![s] =
                       [@ EXCEPT !.status = "active", !.plan = p,
                                 !.start = paidAt, !.end = paidAt + Period,
                                 !.cancel = FALSE]]
    /\ UNCHANGED <<now, status, owner, eligibility, request, job>>

-----------------------------------------------------------------------------
(* The life of an active contract.                                         *)

\* assertActiveCommercialSubscription on a fixed term contract.
RunningFixed(s, at) ==
    /\ Exists(s)
    /\ subs[s].status = "active" /\ subs[s].term # "open_ended"
    /\ subs[s].end # None /\ subs[s].end > at

ScheduleCancellation(s, at) ==
    /\ RunningFixed(s, at)
    /\ ~subs[s].cancel
    /\ subs' = [subs EXCEPT ![s].cancel = TRUE]
    /\ UNCHANGED <<now, status, owner, eligibility, request, job>>

ResumeCancellation(s, at) ==
    /\ RunningFixed(s, at)
    /\ subs[s].cancel
    /\ subs' = [subs EXCEPT ![s].cancel = FALSE]
    /\ UNCHANGED <<now, status, owner, eligibility, request, job>>

\* cancelActiveSubscriptionImmediately: a contract without end keeps no end.
CancelImmediately(s, at) ==
    /\ \/ /\ RunningFixed(s, at)
          /\ ValidDates(subs[s].start, at, subs[s].trialEnd)
          /\ subs' = [subs EXCEPT ![s] =
                        [@ EXCEPT !.status = "canceled", !.cancel = FALSE,
                                  !.end = at]]
       \/ /\ Exists(s)
          /\ subs[s].status = "active" /\ subs[s].term = "open_ended"
          /\ subs[s].end = None /\ subs[s].trialEnd = None /\ ~subs[s].cancel
          /\ subs' = [subs EXCEPT ![s] =
                        [@ EXCEPT !.status = "canceled", !.cancel = FALSE]]
    /\ UNCHANGED <<now, status, owner, eligibility, request, job>>

\* scheduleSubscriptionDowngrade: to a cheaper plan, at the end of the period.
ScheduleDowngrade(s, p, at) ==
    /\ Exists(s)
    /\ subs[s].status = "active"
    /\ subs[s].end # None /\ subs[s].end > at
    /\ ~subs[s].cancel
    /\ subs[s].change = None
    /\ p # subs[s].plan
    /\ Cheaper(p, subs[s].plan)
    /\ subs' = [subs EXCEPT ![s].change = [target |-> p, at |-> subs[s].end]]
    /\ UNCHANGED <<now, status, owner, eligibility, request, job>>

RevokeDowngrade(s, at) ==
    /\ Exists(s)
    /\ subs[s].status = "active"
    /\ subs[s].change # None /\ subs[s].change.at > at
    /\ subs' = [subs EXCEPT ![s].change = None]
    /\ UNCHANGED <<now, status, owner, eligibility, request, job>>

\* updatePlatformSubscription: no condition on the status of the document; a
\* contract without end accepts neither field.
PatchSubscription(s, p, flag) ==
    /\ Exists(s)
    /\ subs[s].term # "open_ended"
    /\ subs' = [subs EXCEPT ![s] = [@ EXCEPT !.plan = p, !.cancel = flag]]
    /\ UNCHANGED <<now, status, owner, eligibility, request, job>>

-----------------------------------------------------------------------------
(* Jobs: read a batch of candidates, then one conditional transaction each. *)

\* Mutant of FinalizeDue: the end of the period is not waited for.
FinalizeDueNow(s, at) ==
    /\ Exists(s) /\ subs[s].status = "active" /\ subs[s].term # "open_ended"
    /\ subs[s].cancel /\ subs[s].end # None

\* The filter of each job's find(), evaluated again by its conditional update.
ExpireDue(s, at) ==
    /\ Exists(s) /\ subs[s].status = "trialing"
    /\ subs[s].trialEnd # None /\ subs[s].trialEnd <= at

FinalizeDue(s, at) ==
    /\ Exists(s) /\ subs[s].status = "active" /\ subs[s].term # "open_ended"
    /\ subs[s].cancel
    /\ subs[s].end # None /\ subs[s].end <= at

DowngradeDue(s, at) ==
    /\ Exists(s) /\ subs[s].status = "active"
    /\ subs[s].change # None /\ subs[s].change.at <= at

\* Mutant of IsDue: two filters exclude what they should take.
IsDueNarrow(kind, s, at) ==
    \/ kind = "expire"    /\ ExpireDue(s, at) /\ ~subs[s].cancel
    \/ kind = "finalize"  /\ FinalizeDue(s, at) /\ subs[s].trialEnd = None
    \/ kind = "downgrade" /\ DowngradeDue(s, at)

IsDue(kind, s, at) ==
    \/ kind = "expire"    /\ ExpireDue(s, at)
    \/ kind = "finalize"  /\ FinalizeDue(s, at)
    \/ kind = "downgrade" /\ DowngradeDue(s, at)

DueDate(kind, s) ==
    IF kind = "expire" THEN subs[s].trialEnd
    ELSE IF kind = "finalize" THEN subs[s].end ELSE subs[s].change.at

Target(kind, s) == IF kind = "downgrade" THEN subs[s].change.target ELSE None

AsCandidate(kind, s) ==
    [id |-> s, due |-> DueDate(kind, s), target |-> Target(kind, s)]

Due(kind, at) == {AsCandidate(kind, s) : s \in {t \in Subs : IsDue(kind, t, at)}}

\* sort({dueDate: 1}).limit(batchSize)
IsBatch(todo, all) ==
    /\ todo \subseteq all
    /\ Cardinality(todo) <= Batch
    /\ todo # all => Cardinality(todo) = Batch
    /\ \A c \in todo, d \in all \ todo : c.due <= d.due

Earliest(todo) == {c \in todo : \A d \in todo : c.due <= d.due}

JobRead(k, kind) ==
    /\ job[k].kind = "idle"
    /\ Due(kind, now) # {}
    /\ \E todo \in SUBSET Due(kind, now) :
         /\ IsBatch(todo, Due(kind, now))
         /\ job' = [job EXCEPT ![k] = [kind |-> kind, at |-> now, todo |-> todo]]
    /\ UNCHANGED <<now, status, owner, subs, eligibility, request>>

\* The process is done with candidate c.
Advance(k, c) ==
    job' = [job EXCEPT ![k] = IF job[k].todo = {c} THEN Idle
                              ELSE [job[k] EXCEPT !.todo = @ \ {c}]]

\* An exception of a transaction, or the death of the process, ends the run.
Stop(k) == job' = [job EXCEPT ![k] = Idle]

ExpireStep(k, c) ==
    /\ job[k].kind = "expire"
    /\ Advance(k, c)
    /\ \/ /\ ExpireDue(c.id, job[k].at)
          /\ subs' = [subs EXCEPT ![c.id] =
                        [@ EXCEPT !.status = "expired", !.cancel = FALSE,
                                  !.end = c.due]]
       \/ ~ExpireDue(c.id, job[k].at) /\ UNCHANGED subs

FinalizeStep(k, c) ==
    /\ job[k].kind = "finalize"
    /\ Advance(k, c)
    /\ \/ /\ FinalizeDue(c.id, job[k].at)
          /\ subs' = [subs EXCEPT ![c.id] =
                        [@ EXCEPT !.status = "canceled", !.cancel = FALSE]]
       \/ ~FinalizeDue(c.id, job[k].at) /\ UNCHANGED subs

\* Mutant of DowngradeApplies: the document is not compared with the list.
DowngradeListed(k, c) == Exists(c.id) /\ subs[c.id].status = "active"

\* The update writes the snapshot the job read.  The temporal hook compares
\* the new start with the trialEnd kept as history, and may throw.
DowngradeApplies(k, c) ==
    /\ DowngradeDue(c.id, job[k].at)
    /\ subs[c.id].change.target = c.target

DowngradeStep(k, c) ==
    /\ job[k].kind = "downgrade"
    /\ \/ /\ DowngradeApplies(k, c)
          /\ ValidDates(c.due, c.due + Period, subs[c.id].trialEnd)
          /\ subs' = [subs EXCEPT ![c.id] =
                        [@ EXCEPT !.plan = c.target, !.start = c.due,
                                  !.end = c.due + Period, !.change = None]]
          /\ Advance(k, c)
       \/ /\ DowngradeApplies(k, c)
          /\ ~ValidDates(c.due, c.due + Period, subs[c.id].trialEnd)
          /\ Stop(k)
          /\ UNCHANGED subs
       \/ /\ ~DowngradeApplies(k, c)
          /\ Advance(k, c)
          /\ UNCHANGED subs

JobWrite(k) ==
    /\ job[k].kind # "idle"
    /\ \E c \in Earliest(job[k].todo) :
         ExpireStep(k, c) \/ FinalizeStep(k, c) \/ DowngradeStep(k, c)
    /\ UNCHANGED <<now, status, owner, eligibility, request>>

JobKilled(k) ==
    /\ job[k].kind # "idle"
    /\ Stop(k)
    /\ UNCHANGED <<now, status, owner, subs, eligibility, request>>

-----------------------------------------------------------------------------
WorkspaceNext ==
    \E w \in Workspaces :
        \/ \E u \in Users : CreateWorkspace(w, u) \/ TransferOwnership(w, u)
        \/ \E u \in Users, p \in Plans, s \in Subs, at \in Captured :
             AcceptCommercialInvitation(w, u, p, s, at)
        \/ \E target \in {"archived", "closed"} : CloseWorkspace(w, target)

TrialNext ==
    \E w \in Workspaces :
        \/ GrantWorkspaceTrial(w) \/ AbandonTrialRequest(w)
        \/ \E p \in Plans : RequestTrial(w, p) \/ GrantPlatformTrial(w, p)
        \/ \E at \in Captured :
             \/ EndTrialToFree(w, at)
             \/ \E p \in Plans : ActivatePaid(w, p, at)

ContractNext ==
    \E s \in Subs, at \in Captured :
        \/ ScheduleCancellation(s, at) \/ ResumeCancellation(s, at)
        \/ CancelImmediately(s, at) \/ RevokeDowngrade(s, at)
        \/ \E p \in Plans : ScheduleDowngrade(s, p, at)

AdminNext == \E s \in Subs, p \in Plans, flag \in BOOLEAN : PatchSubscription(s, p, flag)

JobNext ==
    \E k \in Workers :
        JobWrite(k) \/ JobKilled(k) \/ \E kind \in Kinds : JobRead(k, kind)

\* Everything but the administration PATCH.
ServiceNext == Tick \/ WorkspaceNext \/ TrialNext \/ ContractNext \/ JobNext

Next == ServiceNext \/ AdminNext

Spec == Init /\ [][Next]_vars

\* The deployment without the administration PATCH.
ServiceSpec == Init /\ [][ServiceNext]_vars

\* One transaction of one kind of job.
JobWriteOf(k, kind) == job[k].kind = kind /\ JobWrite(k)

\* The external scheduler starts every job again and again on one of these
\* processes, and not every run of a kind is killed before its next transaction.
\* Nothing else is fair: any other process may stop for good, list in hand.
JobFairness ==
    \A k \in Relaunched, kind \in Kinds :
        SF_vars(JobRead(k, kind)) /\ SF_vars(JobWriteOf(k, kind))

FairSpec == Spec /\ JobFairness

-----------------------------------------------------------------------------
(* Safety.                                                                 *)

\* A workspace never has two commercial contracts that are trialing or
\* active: the check in grantTrial does what the unique partial index of the
\* collection backs up, so no commercial lookup ever has a choice.
OneCurrentContract ==
    \A w \in Workspaces : \A s, t \in CurrentOf(w) : s = t

\* TrialEligibility and the contracts born as trials agree: every such
\* contract consumed exactly one identity and an identity never starts a
\* second one, across workspaces, invitations and ownership transfers.
TrialConsumedOnce ==
    /\ \A s \in Subs : Exists(s) /\ subs[s].term = "fixed" =>
         \E u \in Users : eligibility[u] = s
    /\ \A u \in Users : eligibility[u] # None =>
         /\ Exists(eligibility[u])
         /\ subs[eligibility[u]].term = "fixed"
    /\ \A u, v \in Users :
         eligibility[u] = eligibility[v] /\ eligibility[u] # None => u = v

\* Whatever the jobs have or have not done yet, a contract with a term grants
\* nothing at or after its currentPeriodEnd.
AccessWithinTerm ==
    \A w \in Workspaces : \A s \in Granting(w, now) :
        subs[s].term = "fixed" => subs[s].end # None /\ subs[s].end > now

\* A downgrade waiting on an active contract is due exactly when the period
\* already paid ends, never earlier and never later.
DowngradeDueAtTermEnd ==
    \A s \in Subs :
        Exists(s) /\ subs[s].status = "active" /\ subs[s].change # None =>
            subs[s].change.at = subs[s].end

\* The shape services rely on without checking it: a contract belongs to a
\* created workspace, a trial carries no plan change and ends with its period,
\* a paid change is due at the end of the period, and no job works from a
\* clock of the future.
DocumentShape ==
    /\ \A s \in Subs : Exists(s) =>
         /\ status[subs[s].ws] # "absent"
         /\ subs[s].status = "trialing" =>
              subs[s].change = None /\ subs[s].end = subs[s].trialEnd
         /\ subs[s].status = "active" /\ subs[s].change # None =>
              subs[s].change.at = subs[s].end
    /\ \A k \in Workers : job[k].at <= now

-----------------------------------------------------------------------------
(* Action properties.                                                      *)

\* Expiring a trial, finalizing a cancellation and applying a downgrade are
\* bookkeeping: no job step takes away access a workspace still has.
JobsNeverWithdrawAccess ==
    [][job' # job => \A w \in Workspaces : Granting(w, now) \subseteq Granting(w, now)']_vars

\* A job wrote a period on an active contract: it applied a downgrade.
AppliedDowngrade(s) ==
    /\ job' # job
    /\ Exists(s) /\ subs'[s] # subs[s] /\ subs'[s].status = "active"

\* The plan a job gives is the one the contract waits for at that moment, on a
\* contract still active whose paid period is over: whatever the other downgrade
\* job has applied, and whatever was revoked, scheduled again, patched, canceled
\* or closed since the list of the job was read.
DowngradeStillAsked ==
    [][\A s \in Subs : AppliedDowngrade(s) =>
          /\ subs[s].status = "active" /\ subs[s].change # None
          /\ subs'[s].plan = subs[s].change.target
          /\ subs[s].end <= now]_vars

\* Moreover the new period starts where the paid one ended.  This one needs a
\* condition, Separate in the theorem DowngradeContiguous: no two downgrade
\* jobs overlap, or commands commit at the instant of their clock.  Otherwise
\* the PATCH may restore the plan between two jobs that listed one contract,
\* and the second one writes the period that is over.
DowngradeIsContiguous ==
    [][\A s \in Subs : AppliedDowngrade(s) => subs'[s].start = subs[s].end]_vars

-----------------------------------------------------------------------------
(* The contracts fill the abstract places.                                 *)

\* Two current contracts at once are no place at all.
PlaceOf(w) ==
    LET current == CurrentOf(w)
    IN  IF current = {} THEN "empty"
        ELSE IF \E s, t \in current : s # t THEN "torn"
        ELSE IF \E s \in current : subs[s].status = "trialing" THEN "trial" ELSE "contract"

Place == INSTANCE ContractSlot WITH
    slot  <- [w \in Workspaces |-> PlaceOf(w)],
    tried <- {u \in Users : eligibility[u] # None}

\* Whatever services, closures and late jobs do to the documents, a workspace
\* goes from no contract to a trial or a contract and back, one at a time, and
\* every trial spends an identity that had none.
ContractsFillSlot == Place!Spec

-----------------------------------------------------------------------------
(* Liveness, under FairSpec.                                               *)

\* A trial whose clock ran out does not stay trialing for ever (it would block
\* every later contract of the workspace), and a cancellation scheduled for the
\* end of the period is finalized, whichever runs of the jobs are killed.
DueContractsProcessed ==
    \A s \in Subs : /\ ExpireDue(s, now) ~> ~ExpireDue(s, now)
                   /\ FinalizeDue(s, now) ~> ~FinalizeDue(s, now)

\* A downgrade whose contractual date has come is applied.
DueDowngradeApplied == \A s \in Subs : DowngradeDue(s, now) ~> ~DowngradeDue(s, now)

=============================================================================
