------------------------------ MODULE MCOutbox ------------------------------
(* Instances of Outbox for TLC. *)
EXTENDS Outbox, TLC

\* The replicas are interchangeable where no fairness tells them apart.
ReplicaSymmetry == Permutations(Replicas)

=============================================================================
