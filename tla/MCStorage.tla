------------------------------ MODULE MCStorage ------------------------------
(* A small instance of the storage: commands of two sectors. *)
EXTENDS StorageProperties

\* One, two and three commands.
SmallRequests == {[sector |-> a, num |-> n] : a \in {0, 1}, n \in {1, 3, 5}}
=============================================================================
