-------------------------- MODULE MCClusterDialer --------------------------
(* Instances of ClusterDialer for TLC. *)
EXTENDS ClusterDialer

=============================================================================
