# A formal model of saas-core-api

The backend of `saas-core-api` is an Express API over MongoDB (Mongoose) for a multi-tenant
SaaS: accounts and sessions, workspaces and members, plans and contracts, quotas, files,
retention, and a platform administration on top. This directory holds TLA+ models of the parts
of it that are hard to test, the TLC runs that check them on small instances, and TLAPS proofs
of the properties that matter most for every instance.

Contents: 1. How the code becomes actions. 2. Inventory. 3. Modules. 4. Runs. 5. Fairness.
6. Proofs. 7. What the code does otherwise than it says. 8. Not modelled. 9. What is left.

`PROJECT.json` is the index: components, runs, the definition-to-source map, hazards, findings,
theorems, and for every checked property a mutant of a definition that breaks it.

## 1. How the code becomes actions

Nearly every operation that changes state runs in one `mongoose.connection.transaction`, or is
one conditional update (`findOneAndUpdate` with the expected state in its filter).

* **A transaction is one action, or three steps.** MongoDB runs it under snapshot isolation. Two
  transactions that write the same document conflict; one is retried from the start, or finds
  that its filter no longer matches and is refused. Two that write different documents can both
  commit although each read what the other wrote. Where checks and writes meet on one document
  (`SubscriptionLifecycle`, `Membership`, `AuthSessions`) the transaction is one action and the
  half a handler reads earlier is a step of its own (next point). Where they do not
  (`PlatformTeam`, `EntitlementOverrides`, `CommercialInvitations`), the module has the snapshot
  itself: a first step reads and checks everything, `open` holds the transactions that passed, and
  `Commit` writes and aborts the open ones it conflicts with. First committer wins; write skew is
  possible, and is what these modules are about. An aborted transaction is retried by
  `connection.transaction` with the arguments of its request, the time it was received included.
* **A call to a provider or a single update is a step.** `FilePipeline` and `RetentionEngine` have
  no transaction around the whole: each call is an action, in the order of the code.
* **What a handler reads before its transaction is a step of its own.** A middleware that admits
  a request, the candidate list of a job, a captured `now`, a hash that was verified: the module
  keeps what was read in a variable (`admitted`, `request`, `job`) and lets anything happen
  before the write. This is where most of the hazards are.
* **Writes outside any transaction are several steps** where they touch several documents: the
  `updateMany` of a logout of every device (`RevokeNext`), a transaction whose insert conflicts
  with nobody (`CreateResetToken` revokes the tokens of its snapshot).
* **A process may die** between any two steps: `Drop`, `Abandon`, `AbandonTrialRequest`,
  `JobKilled`, `AbandonUpload` and `Crash` forget what was read, and what was committed stays.
* **A call may apply and its answer be lost**: `DeleteUnanswered` of a batch of the retention,
  the commit of an upload whose answer is an error, a storage that happened twice.
* **Errors are disabled actions or explicit refusals.** A request whose guard is false leaves
  no trace. Where a refusal matters (an exception that ends a run of a job), it is a disjunct.
* **A unique index turns a race of inserts into a conflict.** Two transactions that each saw no
  current contract, no eligibility, no pending invitation or no membership insert documents with
  one key, and the second is refused. That is what makes "check, then insert" one action here;
  where no index backs the check (reset tokens), it is not one.

## 2. Inventory

| component (`src/backend/...`) | state | operations | hard behaviour | what makes it correct |
| --- | --- | --- | --- | --- |
| subscriptions (`modules/subscriptions`) | `Subscription` documents: plan, term, status, period, `cancelAtPeriodEnd`, `scheduledChange`; `TrialEligibility` | grant a trial, pay, cancel, resume, schedule and revoke a downgrade, end a trial, PATCH | commands race jobs; the clock is captured before the transaction | one current contract per workspace; one trial per identity; rights end with the term |
| maintenance jobs (`jobs/subscriptions`) | none of their own; a list of candidates in memory | read a batch, one transaction per candidate | stale lists, two instances, death between two candidates, an exception that ends the run | jobs are bookkeeping: they withdraw nothing the dates still give; what is due is processed |
| commercial invitations (`modules/commercialInvitation`) | `CommercialInvitation` | create, list (lapses the old ones), resend, revoke, decline, accept (workspace, contract and trial in one transaction), deliver | resends, lapses, double answers, checks on a snapshot | one open proposal per address; one workspace per acceptance; a dead link opens nothing |
| workspaces (`modules/workspace`, `modules/platform/workspaces`) | `Workspace.status`, transfer authorization and version | create, suspend, reactivate, archive, close | requests admitted before a closure | a workspace in service has one active owner |
| members and invitations (`modules/workspaceMember`, `modules/workspaceInvitation`) | `WorkspaceMember`, `WorkspaceInvitation` | invite, resend, revoke, list (lapses the old ones), accept (with or without an account), change role, suspend, remove | double acceptance, an old link after a removal, the last seat | seats counted exactly; one way in per address |
| roles (`modules/role`) | `Role`, soft deletion | create, update, delete | a role deleted while it is being assigned | delegation never exceeds the actor; a deleted role is meant to be used by no one (section 7) |
| ownership transfer (`modules/workspace`) | authorization with an identifier, `ownershipVersion` | authorize, revoke, expire, transfer | the authorization is read before the password is confirmed | spent once, by the change of owner |
| account closure (`modules/users/userClosure.service.js`) | `User.status` and all of the above | one transaction over several workspaces | what other requests of the account still carry | no seat, no session, no workspace left |
| usage counters (`modules/usageMetric`) | `UsageMetric` by metric and period | reserve below a limit, release | the counter and the documents it counts are different documents | the counter equals what it counts |
| sessions (`modules/authSessions`, `modules/auth`) | `AuthSession`: family, successor, revocation; `AuthIdentity` | login, rotate, detect a reuse, logout, logout of every device, password change | two tabs, lost answers, a walk outside any transaction | a login never forks; a revoked family stays revoked |
| password reset (`modules/passwordResetTokens`, `modules/auth`) | `PasswordResetToken` | forgotten password, compensation of a failed e-mail, reset | double submission, replacement, failed compensation | a token answers once; a password moves by one proof |
| platform users (`modules/platform/users`) | `User.status` | disable, enable, revoke sessions | races with logins and refreshes | as sessions |
| files (`modules/file`, `jobs/files`) | `File`, storage provider, counters of storage and uploads | upload, trash, restore, delete for good, purge | provider and database are not one transaction; purge against restore; two purge jobs | a file names a content that exists; storage released once |
| retention (`modules/retention`, `jobs/retention`) | `RetentionLock` with a lease, `RetentionExecution`, `RetentionPolicy` | acquire, renew, release, batches, schedule | a lease that expires in mid-batch; a process that dies | one run of a target at a time; an execution is closed |
| entitlement overrides (`modules/entitlementOverride`) | `EntitlementOverride` and groups | create, update, revoke, resolve | periods that overlap; requests retried with the time of their reception | one override of a capability prevails (latest start, then latest creation); what is history stays |
| platform team, roles and invitations (`modules/platformTeam`, `platformRole`, `platformInvitation`) | `PlatformTeamMember`, `PlatformRole`, founder | invite, accept, change role, suspend, revoke | two last administrators leave at once (write skew) | one active super administrator at least |
| plans (`modules/plan`, `modules/platform/plans`) | `Plan` | create, update, archive | a plan changes after it was proposed | what can be selected can be proposed |
| upload inspection, storage, antivirus, e-mail (`services`) | temporary files, providers | inspect, store, delete, scan, send | unknown outcomes | compensation |
| audit log, legal acceptance, help, overview, profiles | append-only or display data | insert, read | none | - |
| shell, configuration, migrations, frontend | none of the domain | routing, parsing, scripts | none | - |

Interactions. The **status of a workspace** and the **status of an account** are read by every
middleware (`authenticate`, `loadWorkspaceContext`, `enforceWorkspaceAccessMode`) and written by
the closures; the **effective entitlement** (contract, else baseline, with overrides) is read by
member and file operations; closures call `cancel...InSession` services of subscriptions,
`revokePending...` of invitations and `revokeAllUserAuthSessions` within their own transaction;
acceptance of an invitation reserves a seat in the transaction that writes the membership; jobs
share no memory with requests and meet them only in documents.

## 3. Modules

| module | role |
| --- | --- |
| `ContractSlot` | abstract specification: a place per workspace for one contract, one trial per identity |
| `SubscriptionLifecycle` | contracts, trials, jobs; implements `ContractSlot` |
| `SubscriptionLifecycle_proofs` | its inductive invariant, theorems, refinement |
| `MCSubscriptionLifecycle` | instances for TLC |
| `SeatLedger` | abstract specification: seats taken one at a time below a capacity |
| `Membership` | members, seats, invitations, roles, ownership, closures; implements `SeatLedger` |
| `Membership_proofs` | inductive invariant, theorems, refinement |
| `MCMembership` | instances for TLC |
| `LoginLife` | abstract specification: a login of one user is open, ended or compromised, once |
| `AuthSessions` | sessions, rotation, reuse, logout, password and its reset; implements `LoginLife` |
| `AuthSessions_proofs` | inductive invariant, theorems, refinement |
| `MCAuthSessions` | instances for TLC |
| `FileLife` | abstract specification: a file is live, trashed, condemned, gone; charged once, refunded once |
| `FilePipeline` | upload, trash, restore, permanent deletion, purge jobs; implements `FileLife` |
| `FilePipeline_proofs` | inductive invariant, theorems, refinement |
| `MCFilePipeline` | instance for TLC |
| `RetentionEngine` | policies, the leased lock, executions, scheduled and manual runs |
| `RetentionEngine_proofs` | inductive invariant, theorems |
| `MCRetentionEngine` | instances for TLC |
| `PlatformTeam` | team, founder, custom roles, platform invitations, as snapshot transactions |
| `PlatformTeam_proofs` | inductive invariant, theorems |
| `MCPlatformTeam` | instance for TLC |
| `EntitlementOverrides` | overrides and groups, the rights in force, their next change |
| `EntitlementOverrides_proofs` | inductive invariant, theorems |
| `MCEntitlementOverrides` | instance for TLC |
| `CommercialInvitations` | plan catalogue, proposals, links, acceptance |
| `CommercialInvitations_proofs` | inductive invariant, theorems |
| `MCCommercialInvitations` | instance for TLC |

Who meets whom. The closure of an account is in `Membership` (seats and workspaces),
`AuthSessions` (sessions), `PlatformTeam` (its founder and super administrator guards) and
`CommercialInvitations` (membership and account): each module has the part that its own documents
take. The entitlement that `Membership` and `FilePipeline` let change at any time is what
`SubscriptionLifecycle` and `EntitlementOverrides` compute. A contract that
`CommercialInvitations` creates is one that `SubscriptionLifecycle` creates from an invitation.

### SubscriptionLifecycle

State: `subs` (the commercial `Subscription` documents), `eligibility` (`TrialEligibility`: the
contract an identity consumed its trial for), `status` and `owner` of workspaces, `now`,
`request` (a trial request the middleware admitted, not run yet), `job` (for each job process the
kind, the captured clock and the candidates it still has to visit).

Each command takes a captured clock `at` between `now - Lag` and `now`, because services compute
`now = new Date()` before the transaction that compares with it. `ValidDates` is the hook of the
schema that compares the dates of a document; an update it refuses throws, which for a job ends
the run (`DowngradeStep`). `JobRead` is `find().sort().limit(batchSize)`; `JobWrite` is the
transaction of one candidate, which reads the document again; `JobKilled` is the death of the
process. `Next` contains the administration PATCH, `ServiceNext` does not: the run about several
identities uses `ServiceSpec`, since the PATCH creates no document and moves none to another
identity.

`ContractSlot` is what the documents of a workspace promise together: a place that is empty, on
trial or under contract; `Try` fills it and spends the trial of an identity, `Sign` fills it or
turns a trial into a contract, `Leave` empties it. The refinement maps the place to the status of
the one current document, and two current documents to a value the abstraction does not have, so
`ContractsFillSlot` contains their uniqueness.

Abstracted: a price is one number per plan; every billing interval is one `Period`, counted in
the unit of the clock; the baseline subscription is derived from the workspace; `past_due` is
absent because no service writes it; discounts and price overrides are data.

### Membership

State: the documents (`account`, `status`, `roles`, `member`, `seats`, `invitation`,
`authorization`, `version`), the effective entitlement `plan`, which changes at any time on its
own (it is the output of subscriptions and overrides), and `admitted`, the requests that passed
their middlewares and have not run. `Admissible(r)` is the chain of middlewares of the route of
`r`; `Served(r)` says that the transaction runs either at once or after a delay during which
anything else may have happened. The transaction then checks again exactly what the service
checks again, and no more: this is what separates the properties that hold from the
divergences of section 7.

Abstracted: an e-mail is its user; a permission set is one bit, whether the role manages
members; an expiry is a lapse that happens once; names, messages and e-mails are left out.

`SeatLedger` is what seats promise: `Take` gives one user one seat, below the capacity in force;
`Release` frees the seats of one user in some workspaces; `Recontract` changes capacities and
evicts no one. The refinement maps `holders` to the members who occupy a seat and `capacity` to
the limit of the entitlement in force.

### AuthSessions

State: `session` (documents numbered in the order of `expiresAt`, each with its user, family,
reason of revocation, successor, mark of compromise), `token` (`PasswordResetToken`), `password`
(the number of changes stands for the hash), `account`, and `request`: what each request in
progress has read. A login reads the account, verifies the password and inserts the session in
three steps; a refresh reads the session and consumes it in a transaction whose filter is
`Consumable`; a reuse is detected by a read and punished by a transaction; a logout of every
device is an `updateMany` outside any transaction, one document at a time; a forgotten password
takes a snapshot, replaces the tokens it saw, and withdraws its own if the e-mail failed.

The walk of the `updateMany` follows the index on user, revokedAt and expiresAt. A session it
finds rotated has a successor that expires later, ahead of the walk: hence `Remaining`, the
documents the walk cannot finish without meeting.

`LoginLife` is what a user sees: a login opened on one device, that ends with others of the same
user or alone, or is compromised, and never opens again. The refinement maps a family of sessions
to a login: a rotation leaves no trace in it, and two live generations, or marks on a part of the
family, map to no standing at all.

Abstracted: expiry, which only refuses what a client may as well not ask for; access tokens,
which appear as the guard `Authenticated` (a live session, or one opened by the password in
force); audit; deletion_requested, which no committed document has: `requestCurrentUserClosure`
sets it and leaves it in one transaction.

### FilePipeline

State: `upload` (how far the request of each upload is), `temporary` (the quarantine), `content`
(what the storage provider holds), `doc` (`File` documents), `storage` and `uploads` (the usage
counters), `contract` (limits in force), `session` (what each purge job, restore or permanent
deletion has read and claimed). An upload is received, inspected, stored, then persisted by a
transaction that reserves both counters; a refusal compensates by deleting the bytes, and a death
leaves what it leaves. A purge job reads a batch of due files, claims one (`findOneAndUpdate` with
a lease computed from the time of the run), deletes its bytes, then finalizes in a transaction
that releases the storage; a permanent deletion advances the deadline and runs the same three
steps. A claim that expired is taken by another process; a restore needs the bytes and no claim.

`FileLife` is what a user sees: five states of a file, bytes charged at its creation and refunded
once it is gone. The refinement maps a document in the trash to "condemned" from its claim on.

Abstracted: a file is its upload and its size; the inspection is a verdict; a claim identifier is
the process that drew it; a month is `MonthLength` ticks.

### RetentionEngine

State: `policies` (versions, never changed once published), `lock` (holder and expiry of the
lease), `executions` (with their optimistic `revision`), `created` and `purged` logs, `session`
(the program counter of each worker and what it has read). A worker decides (scheduled) or counts
the impact (manual), takes the lock, sweeps the executions left running by others, creates its own,
then renews, selects, deletes and saves batch after batch, each call a step, and ends by closing
its execution and releasing the lock. `Throw` is a call that fails, `DeleteUnanswered` one that
applied and whose answer is lost, `Crash` a death.

Abstracted: each target has its own lock, policies and executions, so one stands for all; a lease
identifier is its worker; counters that follow from others are left out.

### PlatformTeam

State: `account`, `member` (the latest `PlatformTeamMember` of each user), `role` (custom roles),
`invitation`, and `open`. `Begin` is the snapshot with every check; `Writes(t)` is the set of
documents and unique keys the transaction writes; `Commit` keeps open only the transactions that
write something else. The founder, his legacy role and the authority resolved from either are
those of the code (`Power`, `StrictlyBelow`, `CanManage`, `CanAssign`).

Abstracted: the registry of permissions is the consultations, one permission for ordinary
mutations and one reserved; an expiry is a lapse that happens once.

### EntitlementOverrides

State: `override` (documents in order of creation, each a feature or a limit over a period, alone
or in a group whose primary it names) and the requests being served. `Receive` takes the time;
`Read` refuses what is history at that time and computes the documents that change; `Commit` saves
those only, and aborts the transactions that write one of them. `Candidates`, `Precedes` and
`Prevailing` are the resolver; `Matches`, `Lifecycle` and the filter of the resolver are the three
readings of a period by the list, the detail and the rights; `NextChangeAt` is the date a screen is
told.

Abstracted: dates are `0..Horizon`, of which the clock runs through `0..MaxTime`; whether a feature is enabled is a value; the plan is constant.

### CommercialInvitations

State: `plan` (the catalogue), `account`, `attached` (an identity has a workspace), `trials`,
`invitation` (address, offer as it was proposed, rank of its token, expiry, status),
`subscriptions` (the contract of each acceptance) and the requests being served, one per `Slots`.
`Admissible` is what a transaction checks on its snapshot, `IndexesAllow` what the unique indexes
refuse at the commit, `Retry` the abort by the late write of an e-mail's outcome, which touches the
invitation and no field a guard reads. Registrations, closures, workspaces and trials obtained
elsewhere are single steps of `IdentityNext`: they come in between.

Abstracted: a price is a number, rights are one value; the baseline plan, which cannot be proposed
or withdrawn, and accounts disabled for a while, refused as closed ones are, are left out.

## 4. Runs

A property appears in one passing run, the smallest whose instance lets it fail: each has a
mutant of a mapped definition for which that same run finds the violation. Type invariants are
proved for every module (section 6), so only one run states one.

| run | instance | shows |
| --- | --- | --- |
| `SubscriptionOneContract` | 1 workspace, 2 identities, 1 contract, 2 job processes that overlap, of which one is relaunched, clock 0..2, lag 1; `FairSpec` | `TypeOK`; `AccessWithinTerm`, however late the jobs; `JobsNeverWithdrawAccess`; `DowngradeStillAsked`, a job applies a downgrade only if the document still asks for it and its period is over, whoever else ran; `DueContractsProcessed`, the liveness of due trials and cancellations |
| `SubscriptionIdentities` | 2 workspaces, 2 identities, 2 contracts, 2 jobs, clock 0..1; `ServiceSpec`, symmetry | `TrialConsumedOnce` across workspaces, invitations and transfers of ownership; the refinement `ContractsFillSlot` |
| `MembershipSeats` | 1 workspace, 3 addresses, 2 invitations, 1 delayed request, 1 authorization, limits 1 and 2 | `OneWayIn`, `OneOwner`, `OwnershipMoves`, and the refinement `SeatsFollowLedger` |
| `MembershipAccounts` | 2 workspaces, 2 accounts, a custom role, 1 invitation that may be resent | `SeatsAreMembers` through closures of accounts over several workspaces, `InvitationAnsweredOnce` |
| `AuthSessions` | 1 account, 3 sessions, 2 reset tokens, 2 requests in progress, 2 changes of password | `OneLiveGeneration`, `CompromisedWhole`, `PasswordMoves`, the refinement `FamiliesAreLogins` |
| `FilePurge` | 2 files, 1 purge job, 1 request, 1 failure anywhere, 1 change of limits, clock 0..3; `FairSpec` | `ContentBacksDocument`, `CountersMatchDocuments`, `RefusedUploadLeavesNothing`, `RetentionHonoured`, the refinement `ImplementsFileLife`, and the liveness `DueFilesArePurged` |
| `RetentionRuns` | 1 scheduled and 1 manual worker, 2 logs, 2 executions of 2 batches, leases of 1 tick, 1 failure | `ExclusiveProgress`, `AffectedAccounted`, `ClosedStaysClosed`, `RetentionKept` |
| `RetentionSchedule` | 2 processes of the job, 1 log, 2 executions, 1 failure; `FairSpec` | `ScheduledCadence`, and the liveness `RunningIsClosed` |
| `PlatformTeam` | the founder, 2 identities, 1 preset, 1 custom role, 2 invitations, 2 open transactions | `SuperRemains`, `NoSecondWayIn`, `SupersByPeers` |
| `EntitlementHistory` | 1 feature with its metric, 2 overrides over 3 periods that overlap, dates 0..3, clock 0..1, 2 requests | `HistoryKept`, `OneLifecycle`, `NextChangeIsNext` |
| `CommercialInvitations` | 1 address, 1 plan with a trial or free, 2 invitations of 2 tokens, 2 requests | `OneOpenProposal`, `OneWorkspacePerAcceptance`, `TrialOnce`, `SelectableIsProposable`, `LinksDieAtOnce` |
| `SubscriptionDowngradeStuck` | 1 contract born as a short trial; `FairSpec` | expected violation of `DueDowngradeApplied`, section 7 |

Bounds, and why they are enough for what they show.

* Clock: a trial of 2 and a period of 1 let a paid period end before, at and (short trial) after
  the end of the trial; time 2 reaches the end of either. `Lag = 1` lets a command straddle a
  term. `SubscriptionIdentities` is about identities and documents, not dates: one tick ends a
  trial of 1 and makes a downgrade due, a lag would only multiply it.
* Contracts: one contract suffices for the properties of one document; two, with two workspaces
  and two identities, for those that relate documents (a second contract of a workspace, a second
  trial of an identity, a transfer between the two). `Subs` bounds creations, so a run stops
  granting when its identifiers are used up.
* Jobs: two processes with lists read before the other's writes. `Batch = 1` forces a sorted
  prefix, hence several runs. `Relaunched` are those the scheduler keeps starting: in the run of
  one contract it is one of the two, so that the other may keep its list and never move again.
* Members: the baseline admits the owner alone, the contract one more, so that three addresses
  meet at the last seat and a lapsed contract leaves a workspace over its limit. `InFlight = 1`
  is one request delayed as long as needed while every other runs at once: the two halves of one
  stale read. Two delayed requests were too many states for these instances; the proofs cover
  any number. Ownership moves inside `MembershipSeats` (one authorization); the custom role is in
  `MembershipAccounts`, where capacities are one constant since seats are not its question.
* Sessions: three generations are a chain with a predecessor and a successor, or two families of
  one account. Two requests in progress beside the atomic actions (logout, disable, closure)
  cover the races of pairs; the proofs cover any number.
* Files: two files of sizes 1 and 2 under a limit of 2 compete for the same bytes. Retention 2,
  lease 1 and clock 0..3 let a file fall due, a claim expire and a second claim follow. One
  process of the job suffices for the races of claims because the request (a restore or a
  permanent deletion) is the second process; one failure may hit any call of any of them. The
  proofs cover any number.
* Retention: a lease of one tick expires inside every step of a run; two logs with batches of one
  make a run of two batches, so that it may be superseded between them.
* Platform team: one of two identities promotes or removes the other while a third transaction is
  open; a user is invited, lapsed and invited again with two invitations. The founder is the only
  legacy account.
* Overrides: two overrides are two standalone ones, or a group of a primary and one limit. An
  override is created over [0, 1) or [2, ...), and an update may give it [0, 3) (`Moves`): periods
  that share a start, are disjoint, or overlap at one end, so that two overrides leave several
  boundaries after a date, of which the nearest is the one to announce, be it a start or an end. The
  clock (`MaxTime`) stops at 1, which lets a request be received before the end of a period and
  commit after; dates go on to 3, since the readings of a period are compared at every date.
* Commercial invitations: two invitations of one address is a proposal and the next; two requests
  are every race of pairs; `Window = 1` and one tick lapse the first. One address, since no
  operation relates two.
* Symmetry: only over sets no operation compares or chooses from, and never in a run with a
  liveness property. Sessions are not symmetric (they are ordered).
* Deadlock is not checked: a bounded instance stops when its identifiers, its clock or its
  counters are used up, and the real system is also idle when nobody calls it.

## 5. Fairness

Requests of users are never fair: nobody has to pay, accept, upload or restore. Only the jobs of
the platform are.

* Subscriptions. `src/docs/operations/OPERATIONS.md` (section 12) leaves the start of maintenance
  jobs to an external scheduler that runs them again and again; a run may be killed, but not every
  run of a kind is killed before its next transaction. `JobFairness` says exactly that: strong
  fairness of `JobRead` and of `JobWriteOf` for each kind of job, and for the processes in
  `Relaunched` only: another may stop for good, with a list in memory. Weak fairness would not do,
  because `JobKilled` disables the write each time. The clock is not fair: a property says what
  happens to what *is* due.
* Files. `FairSpec` has weak fairness of the start of each purge job, of the next step of each
  process and of the clock, since a claim left by a dead process is taken again only once its
  lease has expired. Failures are bounded by `MaxFaults`: they are finite in any run, which is the
  assumption under which a purge ends.
* Retention. `FairSpec` has weak fairness of the launch and of the decision of each scheduler, of
  the count of a manual execution that was asked for, of the next step of each worker and of the
  clock. Nobody has to publish a policy or to ask for an execution. Failures are finite as well.

`Membership`, `AuthSessions`, `PlatformTeam`, `EntitlementOverrides` and `CommercialInvitations`
promise no progress and state no fairness.

## 6. Proofs

TLAPS proves each theorem for every set of workspaces, users, documents, workers and requests,
from the assumptions named in the modules: the bounds and prices are naturals (`Period` and
`Batch` positive), `None` is none of the values it stands in for, the owner role is a managing
one and not a custom one, the baseline admits its owner, and the set of users is finite (to
count them).

**SubscriptionLifecycle_proofs.** The invariant is `IInv == TypeOK /\ DocInv /\ Admitted`, with
`DocInv == DocumentShape /\ OneCurrentContract /\ TrialConsumedOnce`. `DocumentShape` is what
services rely on and never check: a trial carries no downgrade and ends with its period, a
downgrade of a paid contract is due at the end of the period, a job never holds a clock of the
future. `Admitted` says that a request waiting names a workspace that exists, whatever its
status has become. A lemma treats the rewriting of one document once, and each action states why
its new document satisfies the hypotheses; the jobs are the interesting case, because they write
from a list read long before. Theorems: `Inductive`, `TypeCorrect`, `ContractUnique`,
`TrialOnce`, `DowngradeAtTermEnd`, `NoAccessPastTerm`; and about the steps:

* `JobsKeepAccess`. A job writes one contract, and only one that is due at its clock
  (`JobWriteTarget`); a contract that is due grants nothing any more (`DueGrantsNothing`).
* `DowngradeAsAsked`: `DowngradeStillAsked` without any condition on the jobs. The plan given is
  the one the document waits for at that moment, after the end of its period. The run checks it
  with two jobs and a lag.
* `DowngradeContiguous`: where the new period starts needs a condition. Under `Separate` downgrade
  jobs do not overlap (`NoOverlap`), or commands commit at the instant they captured (`Lag = 0`).
  Then `ListsKept` is invariant: the date in a list is still the end of the period, or the contract
  cannot be due at the clock of the job; and `DowngradeIsContiguous` follows. Without it that
  property is false, because the filter of the update compares the target and the clock of the job
  and not the date in its list: in the instance of `SubscriptionOneContract`, two jobs and a lag,
  TLC finds the violation (section 7). No run checks it.
* `ContractsImplementSlot`, the refinement of `ContractSlot`. Every step rewrites one document,
  opens one, or cancels the current one of a workspace (`Writes`); a lemma for each says which
  place moves and that the others do not. `NothingRevives` uses the same classification: an ended
  contract stays ended, a consumed eligibility stays consumed.

**Membership_proofs.** The invariant is `TypeOK /\ Known /\ SeatsAreMembers /\ OneOwner /\
OneWayIn /\ AuthorizationSpentOnce`. `Known` says that nothing belongs to a workspace before its
creation and that a delayed request names one that exists. `OneOwner` needs that a removal or a
suspension, even one admitted when its target was a plain member, looks at the role again
(`Mutable`). `SeatsAreMembers` is cardinality: one lemma adds a holder, one removes one.
`AnsweredOnce` goes action by action: revocations, lapses and closures mark pending invitations
only, and an acceptance writes the membership its invitation offers.
Theorems: `Inductive`, `TypeCorrect`, `SeatsCorrect`, `OwnerUnique`, `WayInUnique`, `SpentOnce`,
the action properties `OwnershipMovesAuthorized` and `AnsweredOnce`, and `SeatsImplementLedger`:
the initial states map to initial states of the ledger, every step to a step of the ledger or to a
stutter.

**AuthSessions_proofs.** The invariant is `TypeOK /\ FamilyFounded /\ OneLiveGeneration /\
CompromisedWhole`. `FamilyFounded` is the strengthening: a family is named by a document that
exists, so a login, which names its family after itself, joins none. Every step changes the
sessions in one of five ways (not at all, open, rotate, compromise a family, revoke some);
`StepKinds` proves that once, and each property is then proved way by way. The refinement of
`LoginLife` follows the same ways: what a login stands for is read on any session of its family
(`StandingIs`), a rotation keeps it because its predecessor was the live one, a revocation ends it
because that one was the last. Theorems: `Inductive`, `TypeCorrect`, `NoFork`, `WholeFamily`, the
action properties `NeverRevived`, `HistoryNeverRewritten` and `PasswordMovedByProof`, and the
refinement `SessionsImplementLogins`.

**FilePipeline_proofs.** The invariant is `TypeOK /\ Staged /\ Tracked`: the stage of an upload
says where its bytes and its document are, and a process that deletes or finalizes holds a file
that is doomed (claimed and due), whose bytes are gone before it finalizes. A claim that expired
and was taken over keeps the file doomed, which is why a late process destroys nothing that was
restored. `RetentionHonoured` needs a second one, `Dated`, that relates the dates read by a
session to those of the documents. `CountersMatchDocuments` counts a sum of sizes as the
cardinality of the set of bytes, the pairs of a file and a rank below its size, so that it needs no
recursion: one file adds or removes its bytes (`BytesMore`, `BytesLess`), and the refinement already
says which step does. `RefusedUploadLeavesNothing` needs `Clean`: as long as nothing failed, the
stage of an upload tells what it holds. Theorems: `Inductive`, `TypeCorrect`, `ContentBacked`,
`RetentionKept`, `CountersMatch`, `RefusedUploadClean`, and the refinement `FilesImplementLife`.

**RetentionEngine_proofs.** The largest: `IInv == Base /\ Exclusive /\ AtMostOne /\ Cadence`.
`Base` relates sessions to the versions and executions they name; `Exclusive` says that a holder
of the lease has read every execution in progress that it has not closed; `AtMostOne` that one
execution at most is running with a batch recorded; `Cadence` carries "not due" from the decision
under the lock to the creation and to every batch. Steps are classified in a few kinds, and each
part is proved kind by kind. `AffectedAccounted` is not inductive on what is saved: `Accounted`
bounds `Noted`, the deletions saved together with those a worker has in memory and has not saved
yet, by what was deleted. Theorems: `Inductive`, `TypeCorrect`, `ExclusiveProgressHolds`,
`ScheduledCadenceHolds`, `ClosedStaysClosedHolds`, `RetentionKeptHolds`, `AffectedAccountedHolds`.

**PlatformTeam_proofs.** `Inv == TypeOK /\ FounderKept /\ OnePending /\ \A t \in open : Sound(t)`:
what an open transaction read about the documents it writes still holds, by first committer wins,
and the founder is an active super administrator in every state. The second is the point: the
counts of the last super administrator are not used, since snapshots do not keep them. For the same
reason the run of `SuperRemains` tests the protection of the founder, not those counts. Theorems:
`Inductive`, `TypeCorrect`, `SuperRemainsHolds`, `WayInUnique`, `SupersMovedByPeers`.

**EntitlementOverrides_proofs.** `IInv == TypeOK /\ Aimed /\ Fresh`: a request names a document
that exists, and what an open transaction writes was mutable when its request was received.
Theorems: `TypeCorrect`, `HistoryIsKept`, `NextChangeIsFirst`, `LifecycleIsOne`; the last two are
about the operators of the resolver, for any set of overrides and any plan.

**CommercialInvitations_proofs.** `IInv == TypeOK /\ OneOpenProposal /\ OneWorkspacePerAcceptance
/\ TrialOnce /\ Unanswered`, where `Unanswered` says that an open transaction writes only
invitations that are still pending, and for an answer still carry its token, its addressee and a
date after its reception. Theorems: `Inductive`, `TypeCorrect`, `OneOpenProposalHolds`,
`OneWorkspaceHolds`, `TrialOnceHolds`, `SelectableHolds`, `LinksDie`.

Only model-checked: the liveness properties (`DueContractsProcessed`, `DueFilesArePurged`,
`RunningIsClosed`), since liveness under fairness is out of the prover's reach. Every invariant,
action property and refinement that a passing run checks is a theorem.

Proved, and stated by no run: `OneCurrentContract` and `NoRevival` (contained in the refinements
their runs check), `DowngradeDueAtTermEnd`, `AuthorizationSpentOnce`, the `HistoryKept` of
`AuthSessions`, `NothingRevives`, and `DowngradeIsContiguous` under its condition.

## 7. What the code does otherwise than it says

One is a run: `SubscriptionDowngradeStuck`, with its entry in `findings`. A downgrade of a contract
born as a trial is refused for ever by the temporal hook, because `trialEndsAt` is kept as history
and compared with the new start; the exception ends the run of the job before later candidates.

The others were met while modelling. The models behave as the code does; no run is spent on them.
Paths of code are under `src/backend/modules/` (`jobs/` under `src/backend/`,
`backend/config/db.js` under `src/`); contracts (`*.md`) are under `src/docs/contracts/`.

| where | what happens | what is written elsewhere |
| --- | --- | --- |
| `subscriptions/services/grantTrial.service.js:197` | never reads the status of the workspace: a request admitted before an archive, or the platform route, leaves a running trial on an archived workspace | `CORE-CONTRACT.md:440` |
| `workspaceInvitation/workspaceInvitation.service.js:129` | a workspace archived between the middlewares and the transaction keeps a pending invitation | `CORE-CONTRACT.md:440` |
| `workspace/workspace.service.js:49` | a request authenticated before the closure of its account creates a workspace, or takes a seat, after it | `CORE-CONTRACT.md:312-313` |
| `workspaceMember/workspaceMember.service.js:93` | a custom role deleted after the delegation check is still assigned: roles are found without `deletedAt: null` | `role/role.service.js:365,380` |
| `auth/services/loginUser.service.js:227` | a login that verified the former password opens its session after the change revoked every session | `auth/services/changeUserPassword.service.js:186` |
| `subscriptions/services/applyScheduledDowngrades.service.js:77` | two downgrade jobs overlap: one applies a downgrade, the PATCH restores the plan and the same downgrade is scheduled again; the other still matches target and clock, and writes the period of its stale list, one that is already over | `jobs/subscriptions/applyScheduledDowngrades.job.js:16` (concurrency is with the service); `OPERATIONS.md:595` (overlap is with the deployment) |
| `subscriptions/services/activeSubscriptionLifecycle.service.js:145` | a cancellation and a downgrade wait on one contract; the downgrade job runs first and carries the contract one period past the end its owner asked for | `COMMERCIAL.md:589` |
| `platform/entitlementOverrides/platformEntitlementOverrides.service.js:597` | an update received before the end of an override and retried after it rewrites an override that has expired, because it compares with the time of its reception | the same file, `:580-581` (an expired override is never rewritten) |
| `file/file.service.js:535` | the transaction of an upload commits and its answer is lost: the compensation deletes the bytes of a document that stays active (the exception of `ContentBacksDocument`) | the same file, `:215-216` (a document never names a content that does not exist) |
| `retention/retentionEngine.service.js:415` | a manual execution runs the version it read before it took the lock | `RETENTION.md:102` |
| `file/filePurge.service.js:77` | the lease of a claim is counted from the start of the batch: late in a long batch it is already over, and another process may delete the same bytes (harmless, the second finds them absent) | `file/filePurge.service.js:25` |
| `file/fileRead.service.js:34`, `file/fileTrash.service.js:64` | a search by name is refused by the query sanitization of Mongoose, for want of `mongoose.trusted` | `backend/config/db.js:7` |
| `platform/plans/services/archivePlatformPlan.service.js:59-60` | the same: the archive of a plan always fails | `platform/plans/services/updatePlatformPlan.service.js:77-80`, which wraps its filter |
| `platformRole/platformRole.service.js:113` | two creations at once leave two active custom roles with one set of permissions | `PLATFORM-TEAM.md` section 6.3 |
| `platformRole/platformRole.service.js:388` | a role archived while a member receives it stays assigned | `platformRole/platformRole.service.js:401`, `PLATFORM-TEAM.md:256` |
| `platform/entitlementOverrides/platformEntitlementOverrideGroups.service.js:502` | an update that adds a limit and changes no document commits beside the revocation of its group: the limit stays in force; two such updates add the same limit twice | `...Groups.service.js:528` |
| `commercialInvitation/acceptCommercialInvitation.service.js:176,250` | an acceptance beside the closure of the account, or beside the creation of a workspace by its addressee, reads what the other writes and writes elsewhere: both commit | the first workspace it is reserved to |
| `commercialInvitation/commercialInvitationDelivery.service.js:57` | the late outcome of an e-mail overwrites the delivery status of a later resend | - |
| `commercialInvitation/commercialInvitation.service.js:404` | a resend that is retried keeps its reception time: it may move back the expiry a later resend set | - |

Two more are in `AuthSessions`, and no document promises otherwise: two forgotten-password requests
at once leave two usable tokens, and a logout that arrives while its token is being refreshed finds
it rotated and leaves the successor live.

## 8. Not modelled, and why

The map covers about a fifth of the implementation. What it leaves is in the main what a state
machine says nothing of: nearly two fifths of the lines are the React frontend, and most of the rest are
read models, controllers, routes, registries and validation.

* Reads: lists, overviews, downloads, previews, help. They change nothing.
* Data: validation, formatting, hashing, e-mail templates, byte inspection, the registry of
  capabilities, prices beyond their order.
* Profiles and preferences: updates of one document, with nothing to interleave with.
* The global authorization of applications: an extension point with the shape of the platform team
  and no operation in this repository that composes with the rest.
* Audit log and legal acceptance: appended inside the transactions the modules model, and read
  by no guard; the audit log is what the retention deletes.
* The delivery status of e-mails (platform and commercial invitations): read by no guard.
* `updateWorkspaceRole` and permission sets of workspace roles beyond one bit: no operation that
  interleaves reads more.
* The HTTP shell: routing, parsing, rate limits. Migrations, seeds and operator scripts: run while
  the service is stopped. The frontend: a client of the API, of which the server trusts nothing.
* The terminal closure of a platform user (`finalizePlatformUserClosure`): it asks for a status,
  deletion_requested, that no committed document has any more.

## 9. What is left

1. Done, with proofs: `SubscriptionLifecycle` with `ContractSlot`, `Membership` with `SeatLedger`,
   `AuthSessions` with `LoginLife`, `FilePipeline` with `FileLife`, `RetentionEngine`,
   `PlatformTeam`, `EntitlementOverrides`, `CommercialInvitations`.
2. A composition of `SubscriptionLifecycle` and `Membership` over the closures they share, and of
   `CommercialInvitations` with both over the acceptance.
3. Theorems: a mapping of `RetentionEngine` to an abstract exclusion and of
   `CommercialInvitations` to the life of an offer.
