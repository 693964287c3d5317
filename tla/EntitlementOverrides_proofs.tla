---------------------- MODULE EntitlementOverrides_proofs ----------------------
(***************************************************************************)
(* What holds of the overrides of a workspace for every value of the       *)
(* constants.  The inductive invariant adds to the types that a request is *)
(* about an override that exists, and that an open transaction writes only *)
(* overrides that are still as it read them, hence not yet history.        *)
(***************************************************************************)
EXTENDS EntitlementOverrides, TLAPS, FiniteSetTheorems, Functions, WellFoundedInduction, NaturalsInduction

\* A request names an override that was found.
Aimed == \A r \in Started : r.id \in Ids

\* What an open transaction is about to write was mutable when its request
\* was received, and nothing wrote it since.
Fresh ==
    \A t \in open : \A i \in DOMAIN t.writes :
        i \in Ids /\ Mutable(override[i], t.request.at)

IInv == TypeOK /\ Aimed /\ Fresh

\* Documents created together are stored as a sequence of them.
LEMMA OrdersType ==
    ASSUME NEW ds, NEW s \in Orders(ds), ds \subseteq Override, IsFiniteSet(ds)
    PROVE  s \in Seq(Override)
<1>1. Cardinality(ds) \in Nat
  BY FS_CardinalityType
<1> QED
  BY <1>1 DEF Orders

\* A set of documents made from values by metric is finite.
LEMMA ByMetricFinite ==
    ASSUME NEW ms \in SUBSET Metrics, NEW h
    PROVE  IsFiniteSet({h[m] : m \in ms})
<1>1. IsFiniteSet(ms)
  BY FS_Subset, ConstantsAssumption
<1> DEFINE T == {h[m] : m \in ms}
           g == [m \in ms |-> h[m]]
<1>2. g \in Surjection(ms, T)
  BY DEF Surjection
<1> HIDE DEF T, g
<1>3. IsFiniteSet(T)
  BY <1>1, <1>2, FS_Surjection
<1> QED
  BY <1>3 DEF T

LEMMA NewType ==
    ASSUME NEW g \in Nat, NEW k \in Features \cup Metrics, NEW v \in Nat, NEW p \in Period
    PROVE  New(g, k, v, p) \in Override
BY DEF New, Override

LEMMA LimitType ==
    ASSUME NEW l \in Limits
    PROVE  /\ DOMAIN l \subseteq Metrics
           /\ \A m \in DOMAIN l : l[m] \in Nat
BY ConstantsAssumption DEF Limits

\* What an edit leaves is a document of the same target.
LEMMA EditedType ==
    ASSUME override \in Seq(Override), NEW r \in Request, r.id \in Ids, NEW i \in Subjects(r)
    PROVE  Edited(r, i) \in Override
<1> DEFINE d == override[i]
<1>1. d \in Override
  BY DEF Ids, Subjects, LimitsOfGroup
<1>2. CASE r.kind \in {"revoke", "revoke_group"}
  <2>1. r.by \in Actors
    BY DEF Request
  <2>2. Edited(r, i) = [d EXCEPT !.revoked = TRUE, !.by = r.by]
    BY <1>2 DEF Edited
  <2> HIDE DEF d
  <2> QED
    BY <1>1, <2>1, <2>2 DEF Override
<1>3. CASE r.kind \notin {"revoke", "revoke_group"}
  <2> DEFINE v == Or(Setting(r, i), d.value)
             p == Or(r.period, d.period)
  <2>1. r.by \in Actors /\ r.period \in Period \cup {None}
    BY <1>3 DEF Request
  <2>2. p \in Period
    BY <1>1, <2>1 DEF Or, Override
  <2>3. v \in Nat
    <3>1. CASE i = r.id
      <4>1. r.value \in Nat \cup {None}
        BY <1>3 DEF Request
      <4> QED
        BY <1>1, <3>1, <4>1 DEF Or, Setting, Override
    <3>2. CASE i # r.id
      <4>1. CASE d.key \notin DOMAIN r.limits
        BY <1>1, <3>2, <4>1 DEF Or, Setting, Override
      <4>2. CASE d.key \in DOMAIN r.limits
        <5>1. CASE r.kind = "update_group"
          <6>1. r.limits \in Limits
            BY <5>1 DEF Request
          <6> QED
            BY <1>1, <3>2, <4>2, <6>1, LimitType DEF Or, Setting, Override
        <5>2. CASE r.kind = "update"
          BY <3>2, <5>2 DEF Subjects
        <5> QED
          BY <1>3, <5>1, <5>2 DEF Request
      <4> QED
        BY <4>1, <4>2
    <3> QED
      BY <3>1, <3>2
  <2>4. Edited(r, i) = [d EXCEPT !.value = v, !.period = p, !.by = r.by]
    BY <1>3 DEF Edited
  <2> HIDE DEF d, v, p
  <2> QED
    BY <1>1, <2>1, <2>2, <2>3, <2>4 DEF Override
<1> QED
  BY <1>2, <1>3

\* The documents of a creation by an update of a group.
LEMMA CreatedType ==
    ASSUME override \in Seq(Override), NEW r \in Request, r.id \in Ids
    PROVE  Created(r) \subseteq Override /\ IsFiniteSet(Created(r))
<1>1. CASE r.kind # "update_group"
  BY <1>1, FS_EmptySet DEF Created
<1>2. CASE r.kind = "update_group"
  <2>1. r.limits \in Limits /\ r.id \in Nat
    BY <1>2 DEF Request
  <2>2. r.id \in Subjects(r)
    BY DEF Subjects
  <2>3. Edited(r, r.id) \in Override
    BY <2>2, EditedType
  <2>4. Edited(r, r.id).period \in Period
    BY <2>3 DEF Override
  <2>5. ASSUME NEW m \in DOMAIN r.limits
        PROVE  New(r.id, m, r.limits[m], Edited(r, r.id).period) \in Override
    BY <2>1, <2>4, LimitType, NewType
  <2> DEFINE ms == DOMAIN r.limits \ {override[i].key : i \in LimitsOfGroup(r.id)}
             h  == [m \in ms |-> New(r.id, m, r.limits[m], Edited(r, r.id).period)]
  <2>6. Created(r) = {h[m] : m \in ms}
    BY <1>2 DEF Created
  <2>7. ms \in SUBSET Metrics
    BY <2>1, LimitType
  <2>8. Created(r) \subseteq Override
    BY <2>5, <2>6
  <2> HIDE DEF ms, h
  <2> QED
    BY <2>6, <2>7, <2>8, ByMetricFinite
<1> QED
  BY <1>1, <1>2

\* A creation appends documents: those that exist keep their index.
LEMMA CreationSteps ==
    ASSUME TypeOK,
           \/ \E key \in Features, v \in {0, 1}, p \in Periods : CreateOverride(key, v, p)
           \/ \E key \in Metrics, p \in Periods : \E v \in Allowed[key] : CreateOverride(key, v, p)
           \/ \E f \in Features, l \in Limits, p \in Periods : CreateGroup(f, l, p)
    PROVE  /\ override' \in Seq(Override)
           /\ Ids \subseteq Ids'
           /\ \A i \in Ids : override'[i] = override[i]
           /\ UNCHANGED <<now, waiting, open>>
<1> USE DEF TypeOK
<1>1. ASSUME NEW key \in Features \cup Metrics, NEW v \in Nat, NEW p \in Periods,
             CreateOverride(key, v, p)
      PROVE  /\ override' \in Seq(Override)
             /\ Ids \subseteq Ids'
             /\ \A i \in Ids : override'[i] = override[i]
             /\ UNCHANGED <<now, waiting, open>>
  <2>1. New(0, key, v, p) \in Override
    BY NewType, ConstantsAssumption
  <2> QED
    BY <1>1, <2>1 DEF CreateOverride, Ids
<1>2. ASSUME NEW f \in Features, NEW l \in Limits, NEW p \in Periods, CreateGroup(f, l, p)
      PROVE  /\ override' \in Seq(Override)
             /\ Ids \subseteq Ids'
             /\ \A i \in Ids : override'[i] = override[i]
             /\ UNCHANGED <<now, waiting, open>>
  <2> DEFINE g  == Len(override) + 1
             ds == {New(g, m, l[m], p) : m \in DOMAIN l}
             d  == New(g, f, 1, p)
  <2>1. g \in Nat /\ p \in Period
    BY ConstantsAssumption
  <2>2. d \in Override /\ ds \subseteq Override
    BY <2>1, NewType, LimitType
  <2>6. IsFiniteSet(ds)
    <3> DEFINE h == [m \in DOMAIN l |-> New(g, m, l[m], p)]
    <3>1. ds = {h[m] : m \in DOMAIN l}
      OBVIOUS
    <3> HIDE DEF ds, h
    <3> QED
      BY <3>1, LimitType, ByMetricFinite
  <2>3. /\ Room(1 + Cardinality(ds))
        /\ UNCHANGED <<now, waiting, open>>
        /\ \E s \in Orders(ds) : override' = Append(override, d) \o s
    BY <1>2 DEF CreateGroup
  <2> HIDE DEF g, ds, d
  <2>4. PICK s \in Orders(ds) : override' = Append(override, d) \o s
    BY <2>3
  <2>5. s \in Seq(Override)
    BY <2>2, <2>4, <2>6, OrdersType
  <2> QED
    BY <2>2, <2>3, <2>4, <2>5 DEF Ids
<1> QED
  BY <1>1, <1>2, ConstantsAssumption

LEMMA ReceiveInv ==
    ASSUME IInv, NEW r \in Request, r.id \in Ids, Receive(r)
    PROVE  IInv'
BY DEF IInv, TypeOK, Aimed, Fresh, Started, Receive, Ids, IsSave

LEMMA PeriodPatch == \A p \in Moves \cup {None} : p \in Period \cup {None}
BY ConstantsAssumption

LEMMA ReadInv ==
    ASSUME IInv, NEW r, Read(r)
    PROVE  IInv'
<1> DEFINE w == [i \in Changed(r) |-> Edited(r, i)]
           t == [request |-> r, writes |-> w, adds |-> Created(r)]
<1> USE DEF IInv
<1>1. /\ r \in waiting /\ r \in Request /\ r.id \in Ids
      /\ Accepted(r)
      /\ waiting' = waiting \ {r} /\ open' = open \cup {t}
      /\ UNCHANGED <<now, override>>
  BY DEF Read, TypeOK, Aimed, Started
<1>2. \A i \in Changed(r) : i \in Subjects(r) /\ i \in Ids /\ i \in Nat
  BY <1>1 DEF Changed, Subjects, LimitsOfGroup, Ids, TypeOK
<1>3. IsSave(t) /\ t.request = r
  <2>1. \A i \in Changed(r) : Edited(r, i) \in Override
    BY <1>1, <1>2, EditedType DEF TypeOK
  <2>2. Created(r) \subseteq Override /\ IsFiniteSet(Created(r))
    BY <1>1, CreatedType DEF TypeOK
  <2>3. DOMAIN w = Changed(r) /\ \A i \in Changed(r) : w[i] = Edited(r, i)
    OBVIOUS
  <2>4. w = [i \in DOMAIN w |-> w[i]]
    OBVIOUS
  <2> HIDE DEF w
  <2> QED
    BY <1>2, <2>1, <2>2, <2>3, <2>4 DEF IsSave
<1>4. \A i \in DOMAIN t.writes : i \in Ids /\ Mutable(override[i], r.at)
  BY <1>1, <1>2 DEF Accepted
<1> HIDE DEF t, w
<1>5. TypeOK'
  <2>1. now' \in Dates /\ override' \in Seq(Override)
    BY <1>1 DEF TypeOK
  <2>2. waiting' \subseteq Request
    BY <1>1 DEF TypeOK
  <2>3. \A o \in open' : o.request \in Request /\ IsSave(o)
    BY <1>1, <1>3 DEF TypeOK
  <2> QED
    BY <2>1, <2>2, <2>3 DEF TypeOK, IsSave
<1>6. Aimed'
  BY <1>1, <1>3 DEF Aimed, Started, Ids
<1>7. Fresh'
  BY <1>1, <1>3, <1>4 DEF Fresh, Ids, Mutable, Lifecycle
<1> QED
  BY <1>5, <1>6, <1>7

\* What a commit leaves of the documents that exist.
LEMMA CommitStep ==
    ASSUME IInv, NEW t, Commit(t)
    PROVE  /\ override' \in Seq(Override)
           /\ Ids \subseteq Ids'
           /\ \A i \in Ids : override'[i] = IF i \in DOMAIN t.writes
                                            THEN t.writes[i] ELSE override[i]
<1> DEFINE kept == [i \in Ids |-> IF i \in DOMAIN t.writes THEN t.writes[i] ELSE override[i]]
<1>1. t \in open /\ IsSave(t)
  BY DEF Commit, IInv, TypeOK
<1>2. PICK s \in Orders(t.adds) : override' = kept \o s
  BY DEF Commit
<1>3. s \in Seq(Override)
  BY <1>1, <1>2, OrdersType DEF IsSave
<1>4. Ids = 1..Len(override) /\ Len(override) \in Nat
  BY DEF IInv, TypeOK, Ids
<1>5. \A i \in Ids : kept[i] \in Override
  BY <1>1, <1>4 DEF IsSave, IInv, TypeOK
<1>6. kept \in Seq(Override) /\ Len(kept) = Len(override)
  <2>1. kept \in [1..Len(override) -> Override]
    BY <1>4, <1>5
  <2> QED
    BY <1>4, <2>1
<1>7. \A i \in Ids : kept[i] = IF i \in DOMAIN t.writes THEN t.writes[i] ELSE override[i]
  OBVIOUS
<1> HIDE DEF kept
<1> QED
  BY <1>2, <1>3, <1>4, <1>6, <1>7 DEF Ids

LEMMA CommitInv ==
    ASSUME IInv, NEW t, Commit(t)
    PROVE  IInv'
<1> USE DEF IInv
<1>1. /\ t \in open
      /\ open' = open \ ({t} \cup Conflicting(t))
      /\ waiting' = waiting \cup {o.request : o \in Conflicting(t)}
      /\ UNCHANGED now
  BY DEF Commit
<1>2. /\ override' \in Seq(Override) /\ Ids \subseteq Ids'
      /\ \A i \in Ids : i \notin DOMAIN t.writes => override'[i] = override[i]
  BY CommitStep
<1>3. Conflicting(t) \subseteq open
  BY DEF Conflicting
<1>4. TypeOK'
  <2>1. now' \in Dates /\ override' \in Seq(Override)
    BY <1>1, <1>2 DEF TypeOK
  <2>2. waiting' \subseteq Request
    BY <1>1, <1>3 DEF TypeOK
  <2>3. \A o \in open' : o.request \in Request /\ IsSave(o)
    BY <1>1 DEF TypeOK
  <2> QED
    BY <2>1, <2>2, <2>3 DEF TypeOK, IsSave
<1>5. Aimed'
  <2>1. Started' \subseteq Started
    BY <1>1, <1>3 DEF Started
  <2> QED
    BY <1>2, <2>1 DEF Aimed
<1>6. Fresh'
  <2>1. ASSUME NEW o \in open', NEW i \in DOMAIN o.writes
        PROVE  i \in Ids' /\ Mutable(override'[i], o.request.at)
    <3>1. o \in open /\ i \notin DOMAIN t.writes
      BY <1>1, <2>1 DEF Conflicting
    <3>2. i \in Ids /\ Mutable(override[i], o.request.at)
      BY <2>1, <3>1 DEF Fresh
    <3> QED
      BY <1>2, <3>1, <3>2
  <2> QED
    BY <2>1 DEF Fresh, Mutable, Lifecycle
<1> QED
  BY <1>4, <1>5, <1>6

LEMMA Induction == IInv /\ [Next]_vars => IInv'
<1> SUFFICES ASSUME IInv, [Next]_vars PROVE IInv'
  OBVIOUS
<1>0. ASSUME now' \in Dates, UNCHANGED <<override, waiting, open>>
      PROVE  IInv'
  <2>1. TypeOK'
    BY <1>0 DEF IInv, TypeOK, IsSave
  <2>2. Aimed' /\ Fresh'
    BY <1>0 DEF IInv, Aimed, Fresh, Started, Ids, Mutable, Lifecycle
  <2> QED
    BY <2>1, <2>2 DEF IInv
<1>1. CASE Tick
  <2>1. now' \in Dates
    BY <1>1, ConstantsAssumption DEF Tick, IInv, TypeOK, Dates
  <2> QED
    BY <1>0, <1>1, <2>1 DEF Tick
<1>2. ASSUME UNCHANGED <<now, waiting, open>>, override' \in Seq(Override), Ids \subseteq Ids',
             \A i \in Ids : override'[i] = override[i]
      PROVE  IInv'
  <2>1. TypeOK'
    BY <1>2 DEF IInv, TypeOK, IsSave
  <2>2. Aimed'
    BY <1>2 DEF IInv, Aimed, Started
  <2>3. \A t \in open : \A i \in DOMAIN t.writes :
           i \in Ids' /\ Mutable(override'[i], t.request.at)
    BY <1>2 DEF IInv, Fresh
  <2>4. Fresh'
    BY <1>2, <2>3 DEF Fresh, Mutable, Lifecycle
  <2> QED
    BY <2>1, <2>2, <2>4 DEF IInv
<1>3. CASE \/ \E key \in Features, v \in {0, 1}, p \in Periods : CreateOverride(key, v, p)
           \/ \E key \in Metrics, p \in Periods : \E v \in Allowed[key] : CreateOverride(key, v, p)
           \/ \E f \in Features, l \in Limits, p \in Periods : CreateGroup(f, l, p)
  BY <1>2, <1>3, CreationSteps DEF IInv
<1>4. ASSUME NEW a \in Actors, NEW i \in Ids, RevokeOverride(a, i)
      PROVE  IInv'
  <2> DEFINE r == [kind |-> "revoke", id |-> i, by |-> a, at |-> now]
  <2>1. r \in Request /\ r.id = i
    BY DEF Request, IInv, TypeOK, Ids
  <2>2. Receive(r)
    BY <1>4 DEF RevokeOverride
  <2> HIDE DEF r
  <2> QED
    BY <2>1, <2>2, ReceiveInv
<1>5. ASSUME NEW a \in Actors, NEW i \in Ids, RevokeGroup(a, i)
      PROVE  IInv'
  <2> DEFINE r == [kind |-> "revoke_group", id |-> i, by |-> a, at |-> now]
  <2>1. r \in Request /\ r.id = i
    BY DEF Request, IInv, TypeOK, Ids
  <2>2. Receive(r)
    BY <1>5 DEF RevokeGroup
  <2> HIDE DEF r
  <2> QED
    BY <2>1, <2>2, ReceiveInv
<1>6. ASSUME NEW a \in Actors, NEW i \in Ids, NEW p \in Moves \cup {None}, NEW v,
             UpdateOverride(a, i, v, p)
      PROVE  IInv'
  <2> DEFINE r == [kind |-> "update", id |-> i, value |-> v, period |-> p, by |-> a, at |-> now]
  <2>0. override[i] \in Override
    BY DEF IInv, TypeOK, Ids
  <2>1. override[i].key \in Features \cup Metrics
    BY <2>0 DEF Override
  <2>2. v \in Nat \cup {None}
    BY <1>6, <2>1, ConstantsAssumption DEF UpdateOverride, WithinPolicy
  <2>3. r \in Request /\ r.id = i
    BY <2>2, PeriodPatch DEF Request, IInv, TypeOK, Ids
  <2>4. Receive(r)
    BY <1>6 DEF UpdateOverride
  <2> HIDE DEF r
  <2> QED
    BY <2>3, <2>4, ReceiveInv
<1>7. ASSUME NEW a \in Actors, NEW i \in Ids, NEW p \in Moves \cup {None},
             NEW e \in {0, 1, None}, NEW l \in Limits, UpdateGroup(a, i, e, l, p)
      PROVE  IInv'
  <2> DEFINE r == [kind |-> "update_group", id |-> i, value |-> e, limits |-> l,
                   period |-> p, by |-> a, at |-> now]
  <2>1. r \in Request /\ r.id = i
    BY PeriodPatch DEF Request, IInv, TypeOK, Ids
  <2>2. Receive(r)
    BY <1>7 DEF UpdateGroup
  <2> HIDE DEF r
  <2> QED
    BY <2>1, <2>2, ReceiveInv
<1>8. ASSUME NEW r \in waiting, Refuse(r)
      PROVE  IInv'
  BY <1>8 DEF Refuse, IInv, TypeOK, Aimed, Fresh, Started, Ids, IsSave, Mutable, Lifecycle
<1>9. CASE UNCHANGED vars
  <2>1. now' \in Dates
    BY <1>9 DEF vars, IInv, TypeOK
  <2> QED
    BY <1>0, <1>9, <2>1 DEF vars
<1> QED
  BY <1>1, <1>3, <1>4, <1>5, <1>6, <1>7, <1>8, <1>9, ReadInv, CommitInv DEF Next, Serve

LEMMA Invariance == Spec => []IInv
<1>1. Init => IInv
  BY ConstantsAssumption
     DEF Init, IInv, TypeOK, Aimed, Fresh, Started, Dates
<1> QED
  BY <1>1, Induction, PTL DEF Spec

\* Every override keeps a period that ends after it starts, whatever updates
\* and retries did to it.
THEOREM TypeCorrect == Spec => []TypeOK
BY Invariance, PTL DEF IInv

\* An override that is revoked, or that had ended when every request being
\* served was received, is never written again.
THEOREM HistoryIsKept == Spec => HistoryKept
<1> DEFINE A == \A i \in Ids :
                  override'[i] # override[i] =>
                     \E r \in Started : Lifecycle(override[i], r.at) \in {"active", "scheduled"}
<1>1. IInv /\ [Next]_vars => [A]_vars
  <2> SUFFICES ASSUME IInv, Next PROVE A
    BY DEF vars
  <2>1. ASSUME NEW t \in open, Commit(t) PROVE A
    <3> SUFFICES ASSUME NEW i \in Ids, override'[i] # override[i]
                 PROVE  \E r \in Started : Lifecycle(override[i], r.at) \in {"active", "scheduled"}
      OBVIOUS
    <3>1. i \in DOMAIN t.writes
      BY <2>1, CommitStep
    <3>2. Mutable(override[i], t.request.at) /\ t.request \in Started
      BY <3>1 DEF IInv, Fresh, Started
    <3> QED
      BY <3>2 DEF Mutable, Lifecycle
  <2>2. CASE \/ \E key \in Features, v \in {0, 1}, p \in Periods : CreateOverride(key, v, p)
             \/ \E key \in Metrics, p \in Periods :
                   \E v \in Allowed[key] : CreateOverride(key, v, p)
             \/ \E f \in Features, l \in Limits, p \in Periods : CreateGroup(f, l, p)
    BY <2>2, CreationSteps DEF IInv
  <2>3. CASE override' = override
    BY <2>3
  <2> QED
    BY <2>1, <2>2, <2>3
       DEF Next, Serve, Tick, Read, Refuse, Receive, RevokeOverride, RevokeGroup,
           UpdateOverride, UpdateGroup
<1> QED
  BY <1>1, Invariance, PTL DEF Spec, HistoryKept

\* A non-empty set of dates has a first one.
LEMMA FirstDate ==
    ASSUME NEW B \in SUBSET Nat, B # {}
    PROVE  \E b \in B : \A c \in B : b <= c
<1> DEFINE R == OpToRel(<, Nat)
<1>1. PICK b \in B : \A c \in B : <<c, b>> \notin R
  <2>1. IsWellFoundedOn(R, Nat)
    BY NatLessThanWellFounded
  <2> HIDE DEF R
  <2> QED
    BY <2>1, WFMin
<1>2. \A c \in B : c < b => <<c, b>> \in R
  BY DEF OpToRel
<1> HIDE DEF R
<1>3. ASSUME NEW c \in B
      PROVE  b <= c
  <2>1. ~ c < b
    BY <1>1, <1>2
  <2>2. b \in Nat /\ c \in Nat
    OBVIOUS
  <2> QED
    BY <2>1, <2>2
<1> QED
  BY <1>3

LEMMA BoundaryDates ==
    ASSUME TypeOK, NEW at \in Dates
    PROVE  Boundaries(at) \subseteq Nat
<1>1. ASSUME NEW i \in Ids
      PROVE  /\ override[i].period.starts \in Nat
             /\ override[i].period.ends \in Nat \cup {None}
  <2>1. override[i] \in Override
    BY DEF TypeOK, Ids
  <2> QED
    BY <2>1 DEF Override, Period, Dates
<1> QED
  BY <1>1 DEF Boundaries

\* No override that is not revoked starts or ends between a date and a later
\* one that the next change does not precede.
LEMMA NoBoundary ==
    ASSUME TypeOK, NEW at \in Dates, NEW later \in Dates, at < later,
           NextChangeAt(at) = None \/ later < NextChangeAt(at),
           NEW b \in Boundaries(at)
    PROVE  later < b
<1>1. Boundaries(at) \subseteq Nat /\ Boundaries(at) # {}
  BY BoundaryDates
<1>2. \E c \in Boundaries(at) : \A d \in Boundaries(at) : c <= d
  BY <1>1, FirstDate
<1>3. /\ NextChangeAt(at) \in Boundaries(at)
      /\ \A d \in Boundaries(at) : NextChangeAt(at) <= d
  BY <1>1, <1>2 DEF NextChangeAt
<1>4. NextChangeAt(at) # None
  BY <1>1, <1>3, ConstantsAssumption
<1>5. later < NextChangeAt(at) /\ NextChangeAt(at) <= b
  BY <1>3, <1>4
<1> QED
  BY <1>1, <1>3, <1>5 DEF Dates

LEMMA SameCandidates ==
    ASSUME TypeOK, NEW at \in Dates, NEW later \in Dates, at < later,
           NextChangeAt(at) = None \/ later < NextChangeAt(at)
    PROVE  Candidates(later) = Candidates(at)
<1>1. ASSUME NEW i \in Ids, ~override[i].revoked
      PROVE  /\ override[i].period.starts <= later <=> override[i].period.starts <= at
             /\ override[i].period.ends # None =>
                   (override[i].period.ends > later <=> override[i].period.ends > at)
  <2> DEFINE p == override[i].period
  <2>1. p.starts \in Nat /\ p.ends \in Nat \cup {None}
    <3>1. override[i] \in Override
      BY DEF TypeOK, Ids
    <3> QED
      BY <3>1 DEF Override, Period, Dates
  <2>2. p.starts > at => p.starts \in Boundaries(at)
    BY <1>1, <2>1, ConstantsAssumption DEF Boundaries
  <2>3. p.ends # None /\ p.ends > at => p.ends \in Boundaries(at)
    BY <1>1, <2>1, ConstantsAssumption DEF Boundaries
  <2>4. \A b \in Boundaries(at) : later < b
    BY NoBoundary
  <2> HIDE DEF p
  <2>5. /\ p.starts <= later <=> p.starts <= at
        /\ p.ends # None => (p.ends > later <=> p.ends > at)
    BY <2>1, <2>2, <2>3, <2>4 DEF Dates
  <2> QED
    BY <2>5 DEF p
<1> QED
  BY <1>1 DEF Candidates

\* The date announced to a screen is the first at which its rights may change
\* if no override is written.
THEOREM NextChangeIsFirst == Spec => []NextChangeIsNext
<1>1. TypeOK => NextChangeIsNext
  <2> SUFFICES ASSUME TypeOK, NEW at \in Dates, NEW later \in Dates, at < later,
                      NextChangeAt(at) = None \/ later < NextChangeAt(at)
               PROVE  /\ \A f \in Features : EffectiveFeature(f, later) = EffectiveFeature(f, at)
                      /\ \A m \in Metrics : EffectiveLimit(m, later) = EffectiveLimit(m, at)
    BY DEF NextChangeIsNext
  <2>1. Candidates(later) = Candidates(at)
    BY SameCandidates
  <2>2. \A key : Prevailing(key, later) = Prevailing(key, at)
    BY <2>1 DEF Prevailing
  <2> QED
    BY <2>2 DEF EffectiveFeature, EffectiveLimit
<1> QED
  BY <1>1, Invariance, PTL DEF IInv

\* The list, the detail and the resolver agree on which overrides are active.
THEOREM LifecycleIsOne == Spec => []OneLifecycle
<1>1. TypeOK => OneLifecycle
  <2> SUFFICES ASSUME TypeOK, NEW at \in Dates, NEW i \in Ids
               PROVE  /\ \A l \in {"active", "scheduled", "expired", "revoked"} :
                            Matches(override[i], l, at) <=> Lifecycle(override[i], at) = l
                      /\ i \in Candidates(at) <=> Lifecycle(override[i], at) = "active"
    BY DEF OneLifecycle
  <2> DEFINE d == override[i]
  <2>1. d \in Override
    BY DEF TypeOK, Ids
  <2>2. /\ d.revoked \in BOOLEAN
        /\ d.period.starts \in Nat /\ d.period.ends \in Nat \cup {None}
        /\ d.period.ends # None => d.period.ends > d.period.starts
    BY <2>1 DEF Override, Period, Dates
  <2>3. at \in Nat
    BY DEF Dates
  <2> HIDE DEF d
  <2>4. Matches(d, "active", at) <=> Lifecycle(d, at) = "active"
    BY <2>2, <2>3 DEF Matches, Lifecycle
  <2>5. Matches(d, "scheduled", at) <=> Lifecycle(d, at) = "scheduled"
    BY <2>2, <2>3 DEF Matches, Lifecycle
  <2>6. Matches(d, "expired", at) <=> Lifecycle(d, at) = "expired"
    BY <2>2, <2>3 DEF Matches, Lifecycle
  <2>7. Matches(d, "revoked", at) <=> Lifecycle(d, at) = "revoked"
    BY <2>2, <2>3 DEF Matches, Lifecycle
  <2>8. Matches(d, "active", at) <=> i \in Candidates(at)
    BY <2>2, <2>3 DEF Matches, Candidates, d
  <2> QED
    BY <2>4, <2>5, <2>6, <2>7, <2>8 DEF d
<1> QED
  BY <1>1, Invariance, PTL DEF IInv

=============================================================================
