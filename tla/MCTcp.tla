------------------------------- MODULE MCTcp -------------------------------
(* The client sends a message of three segments, more than the window of two. *)
EXTENDS Tcp

MCBytes == [p \in Sides |-> IF p = "A" THEN 3 ELSE 0]
=============================================================================
