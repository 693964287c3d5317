------------------------------ MODULE MCMembership ------------------------------
(* Small instances of Membership for TLC.                                  *)
EXTENDS Membership, TLC

\* No operation prefers an address, an invitation identifier or a workspace.
Symmetry == Permutations(Users) \cup Permutations(Invites) \cup Permutations(Workspaces)

\* The baseline admits its owner alone, as the seeded Free plan does; the
\* contract admits two members and team management.
LimitOf == [p \in Plans |-> IF p = Baseline THEN 1 ELSE 2]

\* One entitlement for all, when the question is not about seats.
OneLimit == [p \in Plans |-> 2]

=============================================================================
