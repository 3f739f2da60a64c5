------------------------------ MODULE MCSqlConn ------------------------------
(* SqlConn on small instances: goroutines are interchangeable. *)
EXTENDS SqlConn, TLC

Symmetry == Permutations(Users)
=============================================================================
