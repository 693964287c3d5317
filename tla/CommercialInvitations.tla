------------------------ MODULE CommercialInvitations ------------------------
(***************************************************************************)
(* The offers a platform administrator proposes by e-mail: an invitation   *)
(* carries a snapshot of a private plan to one address, and its addressee  *)
(* answers through a link.  Accepting creates a first workspace with its   *)
(* contract, and consumes the trial of the identity when the offer is one. *)
(*                                                                         *)
(* A request takes the time when it is received and runs a transaction: it *)
(* reads a snapshot, refuses or goes on, and writes.  It aborts when an    *)
(* invitation it writes was written since its snapshot and is retried with *)
(* the time it was received; the unique indexes (one pending invitation of *)
(* an address, one trial of an identity) are checked when it commits.      *)
(* Receive, Read and Commit are those steps.                               *)
(*                                                                         *)
(* Data kept abstract: an identity is the canonical address of a user; a   *)
(* token is its rank among the tokens of its invitation; currency,         *)
(* features and limits of a plan are one value, its rights; names,         *)
(* reasons, audit records and the delivery status of e-mails, which no     *)
(* guard reads, are left out, as is the baseline plan, never proposed.     *)
(* Workspaces, trials and accounts change elsewhere too: the last section  *)
(* has those changes, each as one step.  An account that is disabled for a *)
(* while is refused as a closed one, and is left out.                      *)
(***************************************************************************)
EXTENDS Integers, Sequences

CONSTANTS
    Users,       \* identities: registered or not
    Plans,       \* Plan documents, once created
    Rights,      \* values of currency, features and limits
    Catalogue,   \* the plans that requests of the catalogue ask for
    Asked,       \* the intervals that requests of proposals ask for
    Window,      \* COMMERCIAL_INVITATION_TTL_DAYS
    MaxTime,     \* bound: the last date
    MaxInvites,  \* bound: invitations ever created
    MaxToken,    \* bound: tokens of one invitation
    Slots,       \* bound: requests being served at a time
    None         \* a plan not created yet

Times == 0..MaxTime

Docs == 1..MaxInvites

Interval == {"monthly", "yearly", "none"}

\* `trial` is trialDurationDays, 0 when trialEnabled is false.
Plan ==
    [status : {"active", "inactive", "archived"}, public : BOOLEAN,
     trial : Nat, monthly : Nat, yearly : Nat, rights : Rights]

ASSUME ConstantsAssumption ==
    /\ Window \in Nat \ {0}
    /\ MaxTime \in Nat /\ MaxInvites \in Nat /\ MaxToken \in Nat
    /\ Catalogue \subseteq Plan /\ None \notin Plan
    /\ Asked \subseteq Interval

VARIABLES
    now,            \* the clock of the servers
    plan,           \* Plan documents
    account,        \* User.status of each identity, "none" before registration
    attached,       \* whether it has a WorkspaceMember active or suspended
    trials,         \* its TrialEligibility documents
    invitation,     \* CommercialInvitation documents, in order of creation
    subscriptions,  \* Subscription documents created for each invitation
    waiting,        \* requests received, not yet read
    open            \* those that passed their checks, with what they write

vars == <<now, plan, account, attached, trials, invitation, subscriptions, waiting, open>>

-----------------------------------------------------------------------------
(* The documents and the requests.                                         *)

Offer == [interval : Interval, price : Nat, trial : Nat, rights : Rights]

Invitation ==
    [email : Users, plan : Plans, offer : Offer,
     status : {"pending", "accepted", "declined", "expired", "revoked"},
     token : Nat, expires : Nat]

Request ==
    [kind : {"create"}, email : Users, plan : Plans, interval : Interval,
     at : Times, slot : Slots]
    \cup [kind : {"resend", "revoke"}, id : Docs, at : Times, slot : Slots]
    \cup [kind : {"accept", "decline"}, id : Docs, token : Nat, by : Users,
            at : Times, slot : Slots]

\* `writes`: the invitations it changes; `adds`: the offer of the one it creates.
Transaction == [request : Request, writes : SUBSET Docs, adds : SUBSET Offer]

TypeOK ==
    /\ now \in Times
    /\ plan \in [Plans -> Plan \cup {None}]
    /\ account \in [Users -> {"none", "active", "closed"}]
    /\ attached \in [Users -> BOOLEAN]
    /\ trials \in [Users -> Nat]
    /\ invitation \in Seq(Invitation) /\ Len(invitation) <= MaxInvites
    /\ subscriptions \in [Docs -> Nat]
    /\ waiting \subseteq Request
    /\ open \subseteq Transaction

Ids == DOMAIN invitation

Pending(i) == invitation[i].status = "pending"

\* status: PENDING and expiresAt: $gt now, with the time of a request.
Answerable(i, at) == i \in Ids /\ Pending(i) /\ invitation[i].expires > at

\* Mutant of LinkOpen: any token that was once sent opens the invitation.
LinkOpenByAny(i, token, at) == Answerable(i, at)

\* loadActiveInvitation
LinkOpen(i, token, at) == Answerable(i, at) /\ invitation[i].token = token

-----------------------------------------------------------------------------
(* The offer.                                                              *)

\* resolvePlanPrice
Price(p, interval) ==
    CASE interval = "monthly" -> p.monthly
      [] interval = "yearly"  -> p.yearly
      [] interval = "none"    -> 0

\* buildOfferSnapshot
Snapshot(p, interval) ==
    [interval |-> interval, price |-> Price(p, interval),
     trial |-> p.trial, rights |-> p.rights]

\* assertCommercialInvitationPlan
Proposable(p, interval) ==
    /\ p # None
    /\ p.status = "active" /\ ~p.public
    /\ IF p.trial > 0
       THEN interval # "none" /\ Price(p, interval) > 0
       ELSE interval = "none" /\ p.monthly = 0 /\ p.yearly = 0

\* assertCommercialInvitationOfferIsCurrent
OfferIsCurrent(i) ==
    LET p        == plan[invitation[i].plan]
        interval == invitation[i].offer.interval
    IN  Proposable(p, interval) /\ Snapshot(p, interval) = invitation[i].offer

\* Mutant of Selectable: a trial is listed when both of its prices are paid.
SelectableBothPaid(p) ==
    /\ p # None
    /\ p.status = "active" /\ ~p.public
    /\ IF p.trial > 0 THEN p.monthly > 0 /\ p.yearly > 0
       ELSE p.monthly = 0 /\ p.yearly = 0

\* listCommercialInvitationOffers: the plans an administrator can select.
Selectable(p) ==
    /\ p # None
    /\ p.status = "active" /\ ~p.public
    /\ IF p.trial > 0 THEN p.monthly > 0 \/ p.yearly > 0
       ELSE p.monthly = 0 /\ p.yearly = 0

-----------------------------------------------------------------------------
Init ==
    /\ now = 0
    /\ plan = [p \in Plans |-> None]
    /\ account = [u \in Users |-> "none"]
    /\ attached = [u \in Users |-> FALSE]
    /\ trials = [u \in Users |-> 0]
    /\ invitation = <<>>
    /\ subscriptions = [i \in Docs |-> 0]
    /\ waiting = {} /\ open = {}

Tick ==
    /\ now < MaxTime
    /\ now' = now + 1
    /\ UNCHANGED <<plan, account, attached, trials, invitation, subscriptions,
                   waiting, open>>

-----------------------------------------------------------------------------
(* The catalogue.  A plan may be created archived; nothing archives it     *)
(* later: archivePlatformPlan filters on {status: {$ne: ...}}, which        *)
(* sanitizeFilter refuses, so its transaction always fails.                *)

StorePlan(p, d) ==
    /\ plan' = [plan EXCEPT ![p] = d]
    /\ UNCHANGED <<now, account, attached, trials, invitation, subscriptions,
                   waiting, open>>

CreatePlan(p, d) == plan[p] = None /\ StorePlan(p, d)

UpdatePlan(p, d) ==
    /\ plan[p] # None /\ plan[p].status # "archived"
    /\ d.status # "archived" /\ d # plan[p]
    /\ StorePlan(p, d)

-----------------------------------------------------------------------------
(* Requests: reception.  Only an active account passes authenticate.       *)

Serving == {r.slot : r \in waiting \cup {t.request : t \in open}}

Receive(r) ==
    /\ r.slot \notin Serving
    /\ waiting' = waiting \cup {r}
    /\ UNCHANGED <<now, plan, account, attached, trials, invitation,
                   subscriptions, open>>

CreateInvitation(s, u, p, interval) ==
    Receive([kind |-> "create", email |-> u, plan |-> p, interval |-> interval,
             at |-> now, slot |-> s])

Resend(s, i) ==
    /\ i \in Ids
    /\ Receive([kind |-> "resend", id |-> i, at |-> now, slot |-> s])

Revoke(s, i) ==
    /\ i \in Ids
    /\ Receive([kind |-> "revoke", id |-> i, at |-> now, slot |-> s])

\* A link holds one of the tokens that were sent for the invitation.
Answer(s, kind, u, i, token) ==
    /\ account[u] = "active"
    /\ i \in Ids /\ token \in 1..invitation[i].token
    /\ Receive([kind |-> kind, id |-> i, token |-> token, by |-> u,
                at |-> now, slot |-> s])

-----------------------------------------------------------------------------
(* Requests: the transaction.                                              *)

PendingOf(u) == {i \in Ids : Pending(i) /\ invitation[i].email = u}

\* expirePendingCommercialInvitations
Lapsed(u, at) == {i \in PendingOf(u) : invitation[i].expires <= at}

\* assertCommercialInvitationBeneficiaryAvailable
BeneficiaryAvailable(u) == ~attached[u]

Admissible(r) ==
    CASE r.kind = "create" ->
            /\ BeneficiaryAvailable(r.email)
            /\ Proposable(plan[r.plan], r.interval)
            /\ PendingOf(r.email) = Lapsed(r.email, r.at)
      [] r.kind = "resend"  -> Answerable(r.id, r.at) /\ OfferIsCurrent(r.id)
      [] r.kind = "revoke"  -> Answerable(r.id, r.at)
      [] r.kind = "decline" ->
            /\ LinkOpen(r.id, r.token, r.at)
            /\ invitation[r.id].email = r.by
      [] r.kind = "accept"  ->
            /\ account[r.by] = "active"
            /\ LinkOpen(r.id, r.token, r.at)
            /\ invitation[r.id].email = r.by
            /\ ~attached[r.by]
            /\ OfferIsCurrent(r.id)
            /\ invitation[r.id].offer.trial > 0 => trials[r.by] = 0

Writes(r) == IF r.kind = "create" THEN Lapsed(r.email, r.at) ELSE {r.id}

Adds(r) ==
    IF r.kind = "create" THEN {Snapshot(plan[r.plan], r.interval)} ELSE {}

Read(r) ==
    /\ r \in waiting
    /\ Admissible(r)
    /\ waiting' = waiting \ {r}
    /\ open' = open \cup {[request |-> r, writes |-> Writes(r), adds |-> Adds(r)]}
    /\ UNCHANGED <<now, plan, account, attached, trials, invitation,
                   subscriptions>>

Refuse(r) ==
    /\ r \in waiting
    /\ ~Admissible(r)
    /\ waiting' = waiting \ {r}
    /\ UNCHANGED <<now, plan, account, attached, trials, invitation,
                   subscriptions, open>>

\* The invitation as the request leaves it.
Edited(r, d) ==
    CASE r.kind = "create"  -> [d EXCEPT !.status = "expired"]
      [] r.kind = "resend"  -> [d EXCEPT !.token = @ + 1, !.expires = r.at + Window]
      [] r.kind = "revoke"  -> [d EXCEPT !.status = "revoked"]
      [] r.kind = "decline" -> [d EXCEPT !.status = "declined"]
      [] r.kind = "accept"  -> [d EXCEPT !.status = "accepted"]

\* The document a creation inserts.
Created(t) ==
    [email |-> t.request.email, plan |-> t.request.plan,
     offer |-> CHOOSE o \in t.adds : TRUE,
     status |-> "pending", token |-> 1, expires |-> t.request.at + Window]

Consumes(t) == t.request.kind = "accept" /\ invitation[t.request.id].offer.trial > 0

\* Mutant of IndexesAllow: the checks of the snapshot are the only ones.
IndexesTrusted(t) == TRUE

\* The partial unique index on the address of pending invitations and the
\* unique index on the identity of a trial, when the transaction commits.
IndexesAllow(t) ==
    /\ t.request.kind = "create" => PendingOf(t.request.email) \subseteq t.writes
    /\ Consumes(t) => trials[t.request.by] = 0

\* Mutant of Writing: invitations are saved outside the transactions.
WritingOutside(ids) == {}

\* First committer wins: the transactions that write one of these invitations.
Writing(ids) == {o \in open : o.writes \cap ids # {}}

\* What a write of these invitations makes of the transactions that go on.
Aborting(ids, except) ==
    LET aborted == Writing(ids) \ except
    IN  /\ open' = open \ (aborted \cup except)
        /\ waiting' = waiting \cup {o.request : o \in aborted}

\* Room for what a bound leaves.
Room(t) ==
    /\ t.request.kind = "create" => Len(invitation) < MaxInvites
    /\ t.request.kind = "resend" => invitation[t.request.id].token < MaxToken

Commit(t) ==
    LET r == t.request
        written == [i \in Ids |-> IF i \in t.writes THEN Edited(r, invitation[i])
                                  ELSE invitation[i]]
    IN  /\ t \in open
        /\ IndexesAllow(t) /\ Room(t)
        /\ invitation' = IF r.kind = "create" THEN Append(written, Created(t)) ELSE written
        /\ subscriptions' =
              IF r.kind = "accept" THEN [subscriptions EXCEPT ![r.id] = @ + 1]
              ELSE subscriptions
        /\ attached' = IF r.kind = "accept" THEN [attached EXCEPT ![r.by] = TRUE] ELSE attached
        /\ trials' = IF Consumes(t) THEN [trials EXCEPT ![r.by] = @ + 1] ELSE trials
        /\ Aborting(t.writes, {t})
        /\ UNCHANGED <<now, plan, account>>

\* The outcome of an e-mail is written to its invitation, by _id, in whatever
\* status it finds it (deliverCommercialInvitation): a transaction that writes
\* it aborts and is retried.
Retry(t) ==
    /\ t \in open /\ t.writes # {}
    /\ open' = open \ {t} /\ waiting' = waiting \cup {t.request}
    /\ UNCHANGED <<now, plan, account, attached, trials, invitation, subscriptions>>

\* A unique index refuses: the driver retries, or the error is the answer.
Abort(t) ==
    /\ t \in open
    /\ ~IndexesAllow(t)
    /\ open' = open \ {t}
    /\ \/ waiting' = waiting
       \/ waiting' = waiting \cup {t.request}
    /\ UNCHANGED <<now, plan, account, attached, trials, invitation,
                   subscriptions>>

-----------------------------------------------------------------------------
(* Writes outside transactions.                                            *)

\* listCommercialInvitations: its updateMany reaches each lapsed invitation.
LapseListed(i) ==
    /\ i \in Ids /\ Pending(i) /\ invitation[i].expires <= now
    /\ invitation' = [invitation EXCEPT ![i].status = "expired"]
    /\ Aborting({i}, {})
    /\ UNCHANGED <<now, plan, account, attached, trials, subscriptions>>

-----------------------------------------------------------------------------
(* Changes made by other components.                                       *)

SetAccount(u, from, to) ==
    /\ account[u] = from
    /\ account' = [account EXCEPT ![u] = to]
    /\ UNCHANGED <<now, plan, trials, invitation, subscriptions, waiting, open>>

\* registerUser, also behind registerCommercialInvitationRecipient.
Register(u) == SetAccount(u, "none", "active") /\ UNCHANGED attached

\* requestCurrentUserClosure removes every membership.
CloseAccount(u) ==
    /\ SetAccount(u, "active", "closed")
    /\ attached' = [attached EXCEPT ![u] = FALSE]

\* A workspace created or joined, and left.
Attach(u) ==
    /\ account[u] = "active" /\ ~attached[u]
    /\ attached' = [attached EXCEPT ![u] = TRUE]
    /\ UNCHANGED <<now, plan, account, trials, invitation, subscriptions,
                   waiting, open>>

Detach(u) ==
    /\ attached[u]
    /\ attached' = [attached EXCEPT ![u] = FALSE]
    /\ UNCHANGED <<now, plan, account, trials, invitation, subscriptions,
                   waiting, open>>

\* grantTrial, of a workspace the identity owns.
GrantTrial(u) ==
    /\ account[u] = "active" /\ attached[u] /\ trials[u] = 0
    /\ trials' = [trials EXCEPT ![u] = 1]
    /\ UNCHANGED <<now, plan, account, attached, invitation, subscriptions,
                   waiting, open>>

-----------------------------------------------------------------------------
RequestNext ==
    \E s \in Slots :
        \/ \E u \in Users, p \in Plans, interval \in Asked :
              CreateInvitation(s, u, p, interval)
        \/ \E i \in Ids :
              \/ Resend(s, i) \/ Revoke(s, i)
              \/ \E u \in Users, token \in 1..MaxToken :
                    Answer(s, "accept", u, i, token) \/ Answer(s, "decline", u, i, token)

TransactionNext ==
    \/ \E r \in waiting : Read(r) \/ Refuse(r)
    \/ \E t \in open : Commit(t) \/ Abort(t) \/ Retry(t)
    \/ \E i \in Ids : LapseListed(i)

CatalogueNext ==
    \E p \in Plans, d \in Catalogue : CreatePlan(p, d) \/ UpdatePlan(p, d)

IdentityNext ==
    \E u \in Users :
        \/ Register(u) \/ CloseAccount(u)
        \/ Attach(u) \/ Detach(u) \/ GrantTrial(u)

Next == Tick \/ CatalogueNext \/ RequestNext \/ TransactionNext \/ IdentityNext

Spec == Init /\ [][Next]_vars

-----------------------------------------------------------------------------
(* Properties.                                                             *)

\* An address has one open proposal at most, whatever creations, lapses and
\* retries cross each other: no second link can be answered beside the first.
OneOpenProposal ==
    \A i, j \in Ids :
        Pending(i) /\ Pending(j) /\ invitation[i].email = invitation[j].email => i = j

\* An acceptance is exactly one workspace with its contract: an invitation
\* answered twice, or answered while it is revoked, resent or recorded as
\* lapsed, never leaves a workspace without an accepted invitation or a second one.
OneWorkspacePerAcceptance ==
    \A i \in Docs :
        subscriptions[i] = IF i \in Ids /\ invitation[i].status = "accepted" THEN 1 ELSE 0

\* The trial of an identity is given once, by an invitation or by another way,
\* and every trial an invitation gave is on record.
TrialOnce ==
    /\ \A u \in Users : trials[u] <= 1
    /\ \A i, j \in Ids :
          /\ invitation[i].status = "accepted" /\ invitation[i].offer.trial > 0
          /\ invitation[j].status = "accepted" /\ invitation[j].offer.trial > 0
          /\ invitation[i].email = invitation[j].email
          => i = j /\ trials[invitation[i].email] = 1

\* An answer is given once, by the addressee, with the token in force at that
\* moment and before the date that was in force: a link dies at once with a
\* resend, a revocation or another answer, and an answer is never changed.
LinksDieAtOnce ==
    [][\A i \in Ids :
          invitation'[i].status # invitation[i].status =>
             /\ Pending(i)
             /\ invitation'[i].token = invitation[i].token
             /\ invitation'[i].status \in {"accepted", "declined"} =>
                   \E t \in open :
                      /\ t.request.kind \in {"accept", "decline"}
                      /\ t.request.id = i
                      /\ t.request.by = invitation[i].email
                      /\ t.request.token = invitation[i].token
                      /\ t.request.at < invitation[i].expires]_vars

\* What an administrator can select is what the server accepts to propose,
\* for one interval at least.
SelectableIsProposable ==
    \A p \in Plans :
        Selectable(plan[p]) <=> \E interval \in Interval : Proposable(plan[p], interval)
=============================================================================
