---------------------- MODULE MCCommercialInvitations ----------------------
(* Values of the constants of CommercialInvitations for its run.           *)
EXTENDS CommercialInvitations, TLC

Draft(status, public, trial, monthly) ==
    [status |-> status, public |-> public, trial |-> trial,
     monthly |-> monthly, yearly |-> 0, rights |-> "rights"]

\* A trial of a paid plan and a free plan.
Drafts ==
    {Draft("active", FALSE, 1, 1), Draft("active", FALSE, 0, 0)}

Symmetry == Permutations(Slots)
=============================================================================
