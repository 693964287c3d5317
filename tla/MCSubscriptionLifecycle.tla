----------------------- MODULE MCSubscriptionLifecycle -----------------------
(***************************************************************************)
(* Small instances of SubscriptionLifecycle for TLC.                       *)
(***************************************************************************)
EXTENDS SubscriptionLifecycle, TLC

\* Two plans: the dearer one has a trial longer than a period, so that a paid
\* period may end inside it; the cheaper one has none, its invitation offers a
\* contract without end.
CONSTANTS pro, basic

MCPlans == {pro, basic}
MCPrice == [p \in MCPlans |-> IF p = pro THEN 2 ELSE 1]
LongTrial == [p \in MCPlans |-> IF p = pro THEN 2 ELSE 0]

\* Identities, documents, workspaces and processes are interchangeable.
Symmetry ==
    Permutations(Users) \cup Permutations(Subs)
        \cup Permutations(Workspaces) \cup Permutations(Workers)

\* A trial shorter than the paid period.
ShortTrial == [p \in MCPlans |-> IF p = pro THEN 1 ELSE 0]

=============================================================================
