-------------------------- MODULE MCModelMigration --------------------------
(* An instance of ModelMigration for TLC. *)
EXTENDS ModelMigration, TLC

CONSTANTS
    l1, l2,
    MaxEvents  \* bound: requests, faults, migrations and rebuilds together

\* The documents are of the layer that was there at the start.
MCHome == [d \in Docs |-> l1]

\* A state in which a copy has gone wrong in one of the ways the properties
\* leave out is checked and not gone on from.  Neither is one that has had more
\* than MaxEvents of all that is bounded.
Explored ==
    /\ ~missed /\ ~overrun /\ ~overlap
    /\ ops + faults + clock + rebuild.runs <= MaxEvents

ReplicaSymmetry == Permutations(Replicas)
=============================================================================
