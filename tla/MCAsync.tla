------------------------------- MODULE MCAsync ------------------------------
(* Functions called asynchronously: memoized, or run by worker threads.     *)
(* The two share nothing, so each behaviour is one of one of them: focus.   *)
EXTENDS Memo, WorkerPool, TLC

CONSTANTS p, q, k1, k2

VARIABLE focus

MCCaller == {p, q}
MCKey == {k1, k2}

Init == /\ focus \in {"memo", "workers"}
        /\ MemoInit /\ PoolInit
        /\ focus # "memo" => kind = "swarmSafe"

Next == /\ UNCHANGED focus
        /\ \/ focus = "memo" /\ MemoNext /\ UNCHANGED poolVars
           \/ focus = "workers" /\ PoolNext /\ UNCHANGED memoVars

Spec == Init /\ [][Next]_<<focus, memoVars, poolVars>>

Symmetric == Permutations(MCCaller) \cup Permutations(MCKey)
=============================================================================
