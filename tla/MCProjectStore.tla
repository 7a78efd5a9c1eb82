--------------------------- MODULE MCProjectStore ---------------------------
(* Instances of ProjectStore for TLC. *)
EXTENDS ProjectStore, TLC

CONSTANTS r1, r2, r3

Creations == {"createProject", "createBranch"}
Deletions == {"deleteBranch", "deleteProject", "deleteProjectRPC", "deleteProjectsInOrg"}

(* Creations against creations and updates, against all deletions. *)
MCDuties == r1 :> Creations @@ r2 :> Creations \cup {"updateProject"} @@ r3 :> Deletions

(* Creations that keep coming, while projects are updated and deleted. *)
LiveDuties == r1 :> Creations @@ r2 :> Creations \cup {"updateProject"} @@ r3 :> {"deleteProject", "deleteProjectRPC"}

Symmetry == Permutations(BranchIds) \cup Permutations(Cells)
=============================================================================
