------------------------------- MODULE SeatLedger -------------------------------
(***************************************************************************)
(* What the seats of workspaces promise, without counters, roles or        *)
(* invitations: a seat is held by one user of one workspace, it is taken   *)
(* by one user at a time and only below the capacity in force, and the     *)
(* departure of a user releases the seats of no one else.                  *)
(***************************************************************************)
EXTENDS Naturals, FiniteSets

CONSTANTS Workspaces, Users

VARIABLES
    holders,        \* the users who occupy a seat of each workspace
    capacity        \* the members limit in force in each workspace

vars == <<holders, capacity>>

Init ==
    /\ holders = [w \in Workspaces |-> {}]
    /\ capacity \in [Workspaces -> Nat]

Take(w, u) ==
    /\ u \notin holders[w]
    /\ Cardinality(holders[w]) < capacity[w]
    /\ holders' = [holders EXCEPT ![w] = @ \cup {u}]
    /\ UNCHANGED capacity

\* One user leaves some workspaces; contracts may change at the same time.
Release(u, W) ==
    /\ holders' = [w \in Workspaces |-> IF w \in W THEN holders[w] \ {u}
                                                   ELSE holders[w]]
    /\ capacity' \in [Workspaces -> Nat]

\* A capacity below the seats taken evicts no one.
Recontract ==
    /\ UNCHANGED holders
    /\ capacity' \in [Workspaces -> Nat]

Next ==
    \/ \E w \in Workspaces, u \in Users : Take(w, u)
    \/ \E u \in Users : \E W \in SUBSET Workspaces : Release(u, W)
    \/ Recontract

Spec == Init /\ [][Next]_vars

=============================================================================
