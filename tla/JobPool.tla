------------------------------ MODULE JobPool ------------------------------
(***************************************************************************)
(* What PQueue promises, without its callbacks: a work-conserving FIFO pool *)
(* with `bound` places.  Its state is which jobs were submitted, in which   *)
(* order, how many of them have been started and which have finished.  Jobs *)
(* start in submission order, and as many have started as the places given  *)
(* back and the places there are allow: never one more, never one fewer.    *)
(***************************************************************************)
EXTENDS Naturals, Sequences

CONSTANT Push           \* the calls of PQueue.push

VARIABLES bound,        \* the concurrency of the pool
          submitted,    \* the pushes, in the order they were made
          started,      \* how many of them have been started
          finished,     \* the pushes whose place was given back
          given         \* how many places were given back

vars == <<bound, submitted, started, finished, given>>

\* As many jobs as there are, but no more than there were places for.
Admitted(jobs, places) == IF jobs <= places THEN jobs ELSE places

InProgress == {submitted[i] : i \in 1..started} \ finished

Init == /\ bound \in Nat
        /\ submitted = <<>>
        /\ started = 0
        /\ finished = {}
        /\ given = 0

Submit(p) == /\ \A i \in 1..Len(submitted) : submitted[i] # p
             /\ submitted' = Append(submitted, p)
             /\ started' = Admitted(Len(submitted) + 1, given + bound)
             /\ UNCHANGED <<bound, finished, given>>

Finish(p) == /\ p \in InProgress
             /\ finished' = finished \cup {p}
             /\ given' = given + 1
             /\ started' = Admitted(Len(submitted), given + 1 + bound)
             /\ UNCHANGED <<bound, submitted>>

Next == \E p \in Push : Submit(p) \/ Finish(p)

Spec == Init /\ [][Next]_vars
=============================================================================
