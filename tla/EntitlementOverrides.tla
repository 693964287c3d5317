------------------------- MODULE EntitlementOverrides -------------------------
(***************************************************************************)
(* The commercial exceptions granted to one workspace: an override enables *)
(* or removes a feature, or replaces a limit, over a period, without       *)
(* touching the plan.  A group is one decision made of a feature override, *)
(* the primary, and of limit overrides.  Overrides are never deleted.      *)
(*                                                                         *)
(* An update or a revocation takes the time when it is received and runs a *)
(* transaction: it reads a snapshot, refuses what is history at that time, *)
(* and saves.  A save writes a document only when a field of it changes;   *)
(* the transaction aborts when a document it writes was written since its  *)
(* snapshot, and is retried with the time it was received.  Receive, Read  *)
(* and Commit are those steps.  A creation writes new documents only and   *)
(* is one step.                                                            *)
(*                                                                         *)
(* Data kept abstract: dates are 0..Horizon; the enabled state of a feature *)
(* is a value, 1 or 0; name, source, reason and audit records are left     *)
(* out, as is the order of the limits created together.  The workspace     *)
(* exists and its plan is constant (SubscriptionLifecycle changes it).     *)
(***************************************************************************)
EXTENDS Integers, Sequences, FiniteSets

CONSTANTS
    Actors,        \* platform administrators
    Features,      \* ACTIVE_PLAN_CAPABILITY_REGISTRY.features
    Metrics,       \* ACTIVE_PLAN_CAPABILITY_REGISTRY.metrics
    MetricsOf,     \* metrics that configure each feature
    Allowed,       \* values the override policy of each metric allows
    Needs,         \* requiredLimits of each feature: minimum and headroom
    PlanFeatures,  \* features of the plan of the contract
    PlanLimits,    \* its limits, None for unlimited
    Usages,        \* measures of usage a guardrail may read
    Periods,       \* periods a creation may ask for
    Moves,         \* periods an update may ask for
    Horizon,       \* bound: the last date a period may name
    MaxTime,       \* bound: the last date of the clock
    MaxOverrides,  \* bound: overrides ever created
    InFlight,      \* bound: requests being served
    None           \* the null of the documents

Dates == 0..Horizon

\* validatePeriod: a period that ends, ends after it starts.
Period ==
    {p \in [starts : Dates, ends : Dates \cup {None}] :
        p.ends # None => p.ends > p.starts}

ASSUME ConstantsAssumption ==
    /\ Horizon \in Nat /\ MaxTime \in 0..Horizon /\ MaxOverrides \in Nat /\ InFlight \in Nat
    /\ None \notin Nat /\ None \notin Actors
    /\ IsFiniteSet(Metrics) /\ Features \cap Metrics = {}
    /\ MetricsOf \in [Features -> SUBSET Metrics]
    /\ Allowed \in [Metrics -> SUBSET Nat]
    /\ \A f \in Features :
          /\ DOMAIN Needs[f] \subseteq MetricsOf[f]
          /\ \A m \in DOMAIN Needs[f] : Needs[f][m] \in [minimum : Nat, headroom : Nat]
    /\ PlanFeatures \subseteq Features
    /\ PlanLimits \in [Metrics -> Nat \cup {None}]
    /\ Usages \subseteq Nat
    /\ Periods \subseteq Period /\ Moves \subseteq Period

VARIABLES
    now,       \* the clock of the servers
    override,  \* EntitlementOverride documents, in the order of their creation
    waiting,   \* updates and revocations received, not yet read
    open       \* those that passed their checks, with what they save

vars == <<now, override, waiting, open>>

-----------------------------------------------------------------------------
(* The documents and the requests.                                         *)

\* `group` is the index of the primary override of the group, 0 for none.
Override ==
    [group : Nat, key : Features \cup Metrics, value : Nat,
     period : Period, by : Actors \cup {None}, revoked : BOOLEAN]

\* What relatedLimits of a request sets: values by metric.
Limits ==
    UNION {{l \in [ms -> UNION {Allowed[m] : m \in ms}] : \A m \in ms : l[m] \in Allowed[m]} :
           ms \in SUBSET Metrics}

Request ==
    [kind : {"update"}, id : Nat, value : Nat \cup {None},
     period : Period \cup {None}, by : Actors, at : Dates]
    \cup [kind : {"update_group"}, id : Nat, value : {0, 1, None}, limits : Limits,
          period : Period \cup {None}, by : Actors, at : Dates]
    \cup [kind : {"revoke", "revoke_group"}, id : Nat, by : Actors, at : Dates]

\* What an open transaction saves: the documents it changes, by index, and
\* those it creates.
IsSave(t) ==
    /\ t = [request |-> t.request, writes |-> t.writes, adds |-> t.adds]
    /\ t.writes = [i \in DOMAIN t.writes |-> t.writes[i]]
    /\ DOMAIN t.writes \subseteq Nat
    /\ \A i \in DOMAIN t.writes : t.writes[i] \in Override
    /\ t.adds \subseteq Override /\ IsFiniteSet(t.adds)

TypeOK ==
    /\ now \in Dates
    /\ override \in Seq(Override)
    /\ waiting \subseteq Request
    /\ \A t \in open : t.request \in Request /\ IsSave(t)

Ids == DOMAIN override

Or(x, y) == IF x = None THEN y ELSE x

Grouped(d) == d.group # 0

LimitsOfGroup(g) == {i \in Ids : override[i].group = g /\ override[i].key \in Metrics}

-----------------------------------------------------------------------------
(* The same dates and revocation read in three places.                     *)

\* resolveEntitlementOverrideLifecycle
Lifecycle(d, at) ==
    IF d.revoked THEN "revoked"
    ELSE IF d.period.starts > at THEN "scheduled"
    ELSE IF d.period.ends # None /\ d.period.ends <= at THEN "expired"
    ELSE "active"

\* Mutant of Matches: the end of a period is still a date of it.
MatchesInclusive(d, lifecycle, at) ==
    CASE lifecycle = "active" ->
            /\ ~d.revoked
            /\ d.period.starts <= at
            /\ d.period.ends = None \/ d.period.ends >= at
      [] lifecycle = "scheduled" -> ~d.revoked /\ d.period.starts > at
      [] lifecycle = "expired" -> ~d.revoked /\ d.period.ends # None /\ d.period.ends < at
      [] lifecycle = "revoked" -> d.revoked

\* buildLifecycleFilter: the query of the platform list for one lifecycle.
Matches(d, lifecycle, at) ==
    CASE lifecycle = "active" ->
            /\ ~d.revoked
            /\ d.period.starts <= at
            /\ d.period.ends = None \/ d.period.ends > at
      [] lifecycle = "scheduled" -> ~d.revoked /\ d.period.starts > at
      [] lifecycle = "expired" ->
            ~d.revoked /\ d.period.ends # None /\ d.period.ends <= at
      [] lifecycle = "revoked" -> d.revoked

\* The two queries of resolveActiveEntitlementOverrides, permanent and bounded.
Candidates(at) ==
    LET base == {i \in Ids : ~override[i].revoked /\ override[i].period.starts <= at}
    IN  {i \in base : override[i].period.ends = None}
        \cup {i \in base : override[i].period.ends # None /\ override[i].period.ends > at}

\* compareOverridePrecedence: the latest start, then the latest creation.
Precedes(i, j) ==
    \/ override[i].period.starts > override[j].period.starts
    \/ override[i].period.starts = override[j].period.starts /\ i > j

\* The override that prevails for a capability, 0 for none.
Prevailing(key, at) ==
    LET for_key == {i \in Candidates(at) : override[i].key = key}
    IN  IF for_key = {} THEN 0
        ELSE CHOOSE i \in for_key : \A j \in for_key \ {i} : Precedes(i, j)

\* composeEffectiveEntitlementCapabilities
EffectiveFeature(f, at) ==
    LET i == Prevailing(f, at)
    IN  IF i = 0 THEN f \in PlanFeatures ELSE override[i].value = 1

EffectiveLimit(m, at) ==
    LET i == Prevailing(m, at)
    IN  IF i = 0 THEN PlanLimits[m] ELSE override[i].value

\* getNextEntitlementChangeAt
Boundaries(at) ==
    LET live == {i \in Ids : ~override[i].revoked}
        starts == {override[i].period.starts : i \in live}
        ends   == {override[i].period.ends : i \in live} \ {None}
    IN  {b \in starts \cup ends : b > at}

\* Mutant of NextChangeAt: the next beginning if there is one, else the next end.
BeginningFirst(at) ==
    LET beginnings == {b \in {override[i].period.starts : i \in {j \in Ids : ~override[j].revoked}} : b > at}
        boundaries == IF beginnings = {} THEN Boundaries(at) ELSE beginnings
    IN  IF boundaries = {} THEN None
        ELSE CHOOSE b \in boundaries : \A c \in boundaries : b <= c

NextChangeAt(at) ==
    LET boundaries == Boundaries(at)
    IN  IF boundaries = {} THEN None
        ELSE CHOOSE b \in boundaries : \A c \in boundaries : b <= c

-----------------------------------------------------------------------------
Init ==
    /\ now = 0
    /\ override = <<>>
    /\ waiting = {} /\ open = {}

Tick ==
    /\ now < MaxTime
    /\ now' = now + 1
    /\ UNCHANGED <<override, waiting, open>>

-----------------------------------------------------------------------------
(* Creations.                                                              *)

\* A feature granted must be usable: assertFeatureOperationalLimits with the
\* limits the request sets and, for the others, those in force at the start.
Operational(f, limits, start) ==
    \A m \in DOMAIN Needs[f] :
        LET projected == IF m \in DOMAIN limits THEN limits[m]
                         ELSE EffectiveLimit(m, start)
        IN  \/ projected = None
            \/ /\ projected >= Needs[f][m].minimum
               /\ \E usage \in Usages : projected - usage >= Needs[f][m].headroom

\* resolveAssessmentDate
AssessedAt(period) == IF period.starts > now THEN period.starts ELSE now

\* isLimitValueAllowedByOverridePolicy
WithinPolicy(m, value) == value \in Allowed[m]

\* assertRelatedLimits
Related(f, limits) == DOMAIN limits \subseteq MetricsOf[f]

New(group, key, value, period) ==
    [group |-> group, key |-> key, value |-> value, period |-> period,
     by |-> None, revoked |-> FALSE]

\* The orders in which documents created together may be stored.
Orders(ds) == {s \in [1..Cardinality(ds) -> ds] : \A d \in ds : \E k \in DOMAIN s : s[k] = d}

Room(n) == Len(override) + n <= MaxOverrides

CreateOverride(key, value, period) ==
    /\ IF key \in Features THEN value \in {0, 1} ELSE WithinPolicy(key, value)
    /\ Room(1)
    /\ override' = Append(override, New(0, key, value, period))
    /\ UNCHANGED <<now, waiting, open>>

CreateGroup(f, limits, period) ==
    LET g  == Len(override) + 1
        ds == {New(g, m, limits[m], period) : m \in DOMAIN limits}
    IN  /\ Related(f, limits)
        /\ Operational(f, limits, AssessedAt(period))
        /\ Room(1 + Cardinality(ds))
        /\ \E s \in Orders(ds) : override' = Append(override, New(g, f, 1, period)) \o s
        /\ UNCHANGED <<now, waiting, open>>

-----------------------------------------------------------------------------
(* Updates and revocations: reception.  The target and the group of an     *)
(* override are immutable: what they make a transaction refuse is refused  *)
(* here, whatever its snapshot.                                            *)

\* The bound on requests being served, tested by Next before their inputs.
Accepting == Cardinality(waiting) + Cardinality(open) < InFlight

Receive(r) ==
    /\ waiting' = waiting \cup {r}
    /\ UNCHANGED <<now, override, open>>

\* assertStandaloneOverride
Standalone(i) == i \in Ids /\ ~Grouped(override[i])

Primary(i) == i \in Ids /\ Grouped(override[i]) /\ override[i].key \in Features

\* assertUpdateMatchesTarget and assertUpdateLimitOverrideWithinPolicy
UpdateOverride(a, i, value, period) ==
    /\ Standalone(i)
    /\ value # None => IF override[i].key \in Features THEN value \in {0, 1}
                       ELSE WithinPolicy(override[i].key, value)
    /\ Receive([kind |-> "update", id |-> i, value |-> value, period |-> period,
                by |-> a, at |-> now])

RevokeOverride(a, i) ==
    /\ Standalone(i)
    /\ Receive([kind |-> "revoke", id |-> i, by |-> a, at |-> now])

\* assertUpdateFeatureOverrideGroupOperational, outside the transaction.
UpdateGuard(d, enabled, limits, period) ==
    Or(enabled, d.value) = 1 =>
        Operational(d.key, limits, AssessedAt(Or(period, d.period)))

UpdateGroup(a, i, enabled, limits, period) ==
    /\ Primary(i)
    /\ Related(override[i].key, limits)
    /\ UpdateGuard(override[i], enabled, limits, period)
    /\ Receive([kind |-> "update_group", id |-> i, value |-> enabled, limits |-> limits,
                period |-> period, by |-> a, at |-> now])

RevokeGroup(a, i) ==
    /\ Primary(i)
    /\ Receive([kind |-> "revoke_group", id |-> i, by |-> a, at |-> now])

-----------------------------------------------------------------------------
(* Updates and revocations: the transaction.                               *)

\* assertMutableOverride
Mutable(d, at) == Lifecycle(d, at) \notin {"revoked", "expired"}

\* The documents a request is about, on the snapshot.
Subjects(r) ==
    IF r.kind \in {"update", "revoke"} THEN {r.id} ELSE {r.id} \cup LimitsOfGroup(r.id)

Accepted(r) == \A i \in Subjects(r) : Mutable(override[i], r.at)

\* The value a request sets on one of its subjects, None when it sets none.
Setting(r, i) ==
    IF i = r.id THEN r.value
    ELSE IF override[i].key \in DOMAIN r.limits THEN r.limits[override[i].key] ELSE None

\* The document as the request leaves it.
Edited(r, i) ==
    IF r.kind \in {"revoke", "revoke_group"}
    THEN [override[i] EXCEPT !.revoked = TRUE, !.by = r.by]
    ELSE [override[i] EXCEPT !.value = Or(Setting(r, i), @),
                             !.period = Or(r.period, @), !.by = r.by]

\* A save of an unmodified document writes nothing.
Changed(r) == {i \in Subjects(r) : Edited(r, i) # override[i]}

\* The limits of an updated group that has no override for them yet.
Created(r) ==
    IF r.kind # "update_group" THEN {}
    ELSE {New(r.id, m, r.limits[m], Edited(r, r.id).period) :
            m \in DOMAIN r.limits \ {override[i].key : i \in LimitsOfGroup(r.id)}}

Read(r) ==
    /\ r \in waiting
    /\ Accepted(r)
    /\ waiting' = waiting \ {r}
    /\ open' = open \cup {[request |-> r,
                           writes |-> [i \in Changed(r) |-> Edited(r, i)],
                           adds |-> Created(r)]}
    /\ UNCHANGED <<now, override>>

\* The error of an assertion: nothing is written and nothing is retried.
Refuse(r) ==
    /\ r \in waiting
    /\ ~Accepted(r)
    /\ waiting' = waiting \ {r}
    /\ UNCHANGED <<now, override, open>>

\* Mutant of Conflicting: saves made outside a transaction, the last one wins.
Unnoticed(t) == {}

\* First committer wins: the transactions that wrote a document it writes.
Conflicting(t) == {o \in open \ {t} : DOMAIN o.writes \cap DOMAIN t.writes # {}}

Commit(t) ==
    /\ t \in open
    /\ Room(Cardinality(t.adds))
    /\ \E s \in Orders(t.adds) :
          override' = [i \in Ids |-> IF i \in DOMAIN t.writes
                                     THEN t.writes[i] ELSE override[i]] \o s
    /\ open' = open \ ({t} \cup Conflicting(t))
    /\ waiting' = waiting \cup {o.request : o \in Conflicting(t)}
    /\ UNCHANGED now

-----------------------------------------------------------------------------
Serve ==
    \/ \E r \in waiting : Read(r) \/ Refuse(r)
    \/ \E t \in open : Commit(t)

Next ==
    \/ Tick
    \/ \E key \in Features, v \in {0, 1}, p \in Periods : CreateOverride(key, v, p)
    \/ \E key \in Metrics, p \in Periods :
          \E v \in Allowed[key] : CreateOverride(key, v, p)
    \/ \E f \in Features, l \in Limits, p \in Periods : CreateGroup(f, l, p)
    \/ /\ Accepting
       /\ \E a \in Actors, i \in Ids :
             \/ RevokeOverride(a, i)
             \/ RevokeGroup(a, i)
             \/ \E p \in Moves \cup {None} :
                   \/ \E v \in {0, 1, None} \cup UNION {Allowed[m] : m \in Metrics} :
                         UpdateOverride(a, i, v, p)
                   \/ \E e \in {0, 1, None}, l \in Limits : UpdateGroup(a, i, e, l, p)
    \/ Serve

Spec == Init /\ [][Next]_vars

-----------------------------------------------------------------------------
(* Properties.                                                             *)

Started == waiting \cup {t.request : t \in open}

\* What is history is never rewritten, by any interleaving of updates and
\* revocations: an override that is revoked, or that had ended when every
\* request being served was received, keeps its value, period and author.
\* One that ends while a request is being served is history to later requests
\* only: a retry keeps the time of reception.
HistoryKept ==
    [][\A i \in Ids :
          override'[i] # override[i] =>
             \E r \in Started : Lifecycle(override[i], r.at) \in {"active", "scheduled"}]_vars

\* The platform list, the detail of an override and the resolver of rights read
\* the dates and the revocation each in its own way; they agree at every date.
OneLifecycle ==
    \A at \in Dates, i \in Ids :
        /\ \A l \in {"active", "scheduled", "expired", "revoked"} :
              Matches(override[i], l, at) <=> Lifecycle(override[i], at) = l
        /\ i \in Candidates(at) <=> Lifecycle(override[i], at) = "active"

\* A screen told of the next change may keep the rights it shows until then:
\* if no override is written, no right changes before that date.
NextChangeIsNext ==
    \A at \in Dates :
        LET next == NextChangeAt(at)
        IN  \A later \in Dates :
               at < later /\ (next = None \/ later < next) =>
                  /\ \A f \in Features : EffectiveFeature(f, later) = EffectiveFeature(f, at)
                  /\ \A m \in Metrics : EffectiveLimit(m, later) = EffectiveLimit(m, at)

=============================================================================
