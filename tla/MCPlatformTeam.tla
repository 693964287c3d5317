----------------------------- MODULE MCPlatformTeam -----------------------------
(* Small instances of PlatformTeam for TLC.                                *)
EXTENDS PlatformTeam, TLC

Symmetry == Permutations(Users \ Legacy) \cup Permutations(Invites)

\* One ordinary preset, with every permission that is not reserved.
AdminPreset == [p \in Presets |-> Permissions \ Reserved]

=============================================================================
