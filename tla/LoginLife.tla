-------------------------------- MODULE LoginLife --------------------------------
(***************************************************************************)
(* What a login promises, without tokens, rotations or requests: it is     *)
(* opened by one user and stays open on one device until its user, or a    *)
(* revocation of some of the logins of that user, ends it; it is           *)
(* compromised when a stolen token shows, open or not, and it never opens  *)
(* again.                                                                  *)
(***************************************************************************)
CONSTANTS Logins, Users

VARIABLES
    standing,       \* where each login stands
    holders         \* the user who opened it

vars == <<standing, holders>>

Init ==
    /\ standing = [l \in Logins |-> "none"]
    /\ holders = [l \in Logins |-> {}]

Move(L, to) ==
    standing' = [l \in Logins |-> IF l \in L THEN to ELSE standing[l]]

Open(l, u) ==
    /\ standing[l] = "none"
    /\ Move({l}, "open")
    /\ holders' = [holders EXCEPT ![l] = {u}]

OpenOf(u) == {l \in Logins : standing[l] = "open" /\ u \in holders[l]}

\* Some logins of one user end together.
End(u) ==
    /\ \E L \in SUBSET OpenOf(u) : Move(L, "ended")
    /\ UNCHANGED holders

Expose(l) ==
    /\ standing[l] \in {"open", "ended"}
    /\ Move({l}, "compromised")
    /\ UNCHANGED holders

Next ==
    \/ \E l \in Logins : Expose(l) \/ \E u \in Users : Open(l, u)
    \/ \E u \in Users : End(u)

Spec == Init /\ [][Next]_vars

=============================================================================
