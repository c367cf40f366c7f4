------------------------------ MODULE MCPQueue ------------------------------
(* Small instances of PQueue for TLC.  Concurrency 0 to 2 with three pushes *)
(* of two functions: one more push than slots, a queue of two behind one    *)
(* slot, a slot count that never lets anything start, and one function      *)
(* pushed twice or three times.                                             *)
EXTENDS PQueue

CONSTANTS p1, p2, p3, f1, f2, w1, w2

MCPush == {p1, p2, p3}
MCFn == {f1, f2}
MCWaiter == {w1, w2}
MCConcurrencies == 0..2
=============================================================================
