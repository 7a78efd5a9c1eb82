------------------------- MODULE MCBranchLifecycle -------------------------
(* Instances of BranchLifecycle for TLC. *)
EXTENDS BranchLifecycle, TLC

Symmetry == Permutations(Clusters) \cup Permutations(Branches)
              \cup Permutations(Calls)

(* Several requests of one branch and cluster by concurrent calls. *)
ManyRequests ==
    /\ Cardinality({b \in Branches : branch[b].exists \/ \E k \in Calls : call[k].b = b}) <= 1
    /\ Cardinality({c \in Clusters : cluster[c].st # "unborn"}) <= 1
    /\ xvols <= 1

(* Several branches and clusters, and one request. *)
ManyBranches ==
    /\ Cardinality({k \in Calls : call[k].pc # "idle"}) <= 1
    /\ requests + Cardinality({k \in Calls : call[k].pc \in {"get", "delete", "create"}}) <= 1
    /\ Cardinality({b \in Branches : br[b].pc # "idle"}) <= 1

(* Either many requests or many branches: both together are too many states. *)
Narrow == ManyRequests \/ ManyBranches
=============================================================================
