------------------------------- MODULE MCTty -------------------------------
(* One terminal and two processes for TLC, one of which reads and both of   *)
(* which write: queues of two characters, with cblocks for all of them or,  *)
(* when the other terminals have theirs, for one character.                 *)
EXTENDS Tty

CONSTANTS p1, p2

MCReads  == [p \in Proc |-> IF p = p1 THEN {1} ELSE {}]
MCWrites == [p \in Proc |-> IF p = p1 THEN {2} ELSE {1}]
=============================================================================
