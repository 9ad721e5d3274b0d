---------------------------- MODULE MCRefCounting ----------------------------
(***************************************************************************)
(* The instance of RefCounting for TLC: two threads, one with two locals.  *)
(***************************************************************************)
EXTENDS RefCounting

CONSTANTS a, b, x, y, local1, local2, local3

MCThreads == {a, b}
MCObjects == {x, y}
MCLocals == {local1, local2, local3}
MCHome == [l \in MCLocals |-> IF l = local3 THEN b ELSE a]

=============================================================================
