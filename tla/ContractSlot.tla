------------------------------ MODULE ContractSlot ------------------------------
(***************************************************************************)
(* What the contracts of workspaces promise, without documents, dates,     *)
(* plans or jobs: a workspace has a place for one commercial contract,     *)
(* empty, on trial or under contract; a trial fills an empty place and     *)
(* spends the one trial of an identity; a contract never becomes a trial.  *)
(***************************************************************************)
CONSTANTS Workspaces, Users

VARIABLES
    slot,           \* the place of each workspace
    tried           \* identities whose trial is spent

vars == <<slot, tried>>

Init ==
    /\ slot = [w \in Workspaces |-> "empty"]
    /\ tried = {}

Fill(w, from, to) ==
    /\ slot[w] \in from
    /\ slot' = [slot EXCEPT ![w] = to]

\* A contract offered without a trial, or paid for at the end of one.
Sign(w) ==
    /\ UNCHANGED tried
    /\ Fill(w, {"empty", "trial"}, "contract")

Leave(w) ==
    /\ UNCHANGED tried
    /\ Fill(w, {"trial", "contract"}, "empty")

Try(w, u) ==
    /\ u \notin tried
    /\ tried' = tried \cup {u}
    /\ Fill(w, {"empty"}, "trial")

Next ==
    \E w \in Workspaces :
        \/ Sign(w) \/ Leave(w)
        \/ \E u \in Users : Try(w, u)

Spec == Init /\ [][Next]_vars

=============================================================================
