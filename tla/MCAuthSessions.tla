----------------------------- MODULE MCAuthSessions -----------------------------
(* Small instances of AuthSessions for TLC.                                *)
EXTENDS AuthSessions, TLC

\* Accounts, requests and reset tokens are interchangeable; sessions are not,
\* they are ordered by their expiry.
Symmetry == Permutations(Users) \cup Permutations(Requests) \cup Permutations(Tokens)

=============================================================================
