------------------------------ MODULE MCSqlPool ------------------------------
(* SqlPool on small instances: clients and connections are interchangeable. *)
EXTENDS SqlPool, TLC

Symmetry == Permutations(Clients) \cup Permutations(Conns)
=============================================================================
