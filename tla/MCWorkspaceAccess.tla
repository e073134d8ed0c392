------------------------- MODULE MCWorkspaceAccess -------------------------
(* Instances of WorkspaceAccess for TLC. *)
EXTENDS WorkspaceAccess, TLC

\* Users, workspaces and goroutines have no names the code looks at.
Symmetry == Permutations(Users) \cup Permutations(Workspaces) \cup Permutations(Processes)
=============================================================================
