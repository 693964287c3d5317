-------------------------------- MODULE FileLife --------------------------------
(***************************************************************************)
(* What the files of a workspace promise, without transactions, claims,    *)
(* leases or a storage provider: a file is live, trashed, condemned and    *)
(* then gone, only a trashed file returns, nobody returns from             *)
(* condemnation, and the bytes of a file are charged once when it is       *)
(* created and refunded once when it is gone.                              *)
(***************************************************************************)
EXTENDS Integers

CONSTANTS Files, Size

VARIABLES
    life,           \* where each file stands
    used            \* the bytes charged to the workspace

vars == <<life, used>>

Init ==
    /\ life = [f \in Files |-> "none"]
    /\ used = 0

Step(f, from, to, charge) ==
    /\ life[f] = from
    /\ life' = [life EXCEPT ![f] = to]
    /\ used' = used + charge

Create(f)  == Step(f, "none", "live", Size[f])
Trash(f)   == Step(f, "live", "trashed", 0)
Restore(f) == Step(f, "trashed", "live", 0)
Condemn(f) == Step(f, "trashed", "condemned", 0)
Destroy(f) == Step(f, "condemned", "gone", - Size[f])

Next ==
    \E f \in Files :
        Create(f) \/ Trash(f) \/ Restore(f) \/ Condemn(f) \/ Destroy(f)

Spec == Init /\ [][Next]_vars

=============================================================================
