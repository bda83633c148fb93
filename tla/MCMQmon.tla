------------------------------ MODULE MCMQmon ------------------------------
(* MQmon on small sets: the objects and flow ids are interchangeable. *)
EXTENDS MQmon, TLC

Symmetry == Permutations(Interfaces) \cup Permutations(Streams) \cup Permutations(Flows)
=============================================================================
