------------------------------- MODULE PQueue -------------------------------
(***************************************************************************)
(* js-lib/src/promise/pQueue.ts: a queue of promise-returning functions     *)
(* with bounded concurrency.                                                *)
(*                                                                          *)
(* An action is one uninterrupted run of JavaScript: a call of push or      *)
(* onIdle up to its first await, the then/catch handler of a job, or its    *)
(* finally handler.  The last two are separate microtasks: the caller that  *)
(* the first one wakes runs before the slot is given back by the second.    *)
(***************************************************************************)
EXTENDS Naturals, Sequences, FiniteSets

CONSTANTS Push,          \* the calls of push
          Fn,            \* the functions pushed; one may be pushed again
          Waiter,        \* the calls of onIdle
          Concurrencies, \* the concurrency values to consider
          MayThrow,      \* whether a function may throw instead of returning
          Nobody         \* no push, for a defer nothing has settled

ASSUME PQueueAssumption ==
  /\ Concurrencies \subseteq Nat
  /\ MayThrow \in BOOLEAN
  /\ Nobody \notin Push

VARIABLES cfg,       \* this.cfg, fixed by the constructor
          inFlight,  \* this.inFlight
          queue,     \* this.queue, a push standing for the function it queued
          fnOf,      \* the function each push was given
          defer,     \* fn.defer of each function, and the push that settled it
          job,       \* the execution each push asked for
          returned,  \* what the call of push returned to its caller
          voided,    \* what `void this.push(nextFn)` returned to nobody
          listener,  \* the onIdle calls; "waiting" ones are onIdleListeners
          pushed     \* history: every push, in the order they were made

vars == <<cfg, inFlight, queue, fnOf, defer, job, returned, voided, listener, pushed>>

DeferState == {"none", "pending", "resolved", "void", "rejected"}
JobState == {"idle", "queued", "running", "settled", "released", "threw"}
\* A call of push ends in `return await fn.defer` unless fn() throws in it.
Promise == {"none", "defer", "threw"}

TypeOK ==
  /\ cfg \in [concurrency : Concurrencies,
              errorMode : {"THROW_IMMEDIATELY", "SUPPRESS"},
              resolveOn : {"finish", "start"}]
  /\ inFlight \in Nat
  /\ queue \in Seq(Push)
  /\ fnOf \in [Push -> Fn \cup {Nobody}]
  /\ defer \in [Fn -> [st : DeferState, by : Push \cup {Nobody}]]
  /\ job \in [Push -> JobState]
  /\ returned \in [Push -> Promise]
  /\ voided \in [Push -> Promise]
  /\ listener \in [Waiter -> {"none", "waiting", "resolved"}]
  /\ pushed \in Seq(Push)

Init ==
  /\ cfg \in [concurrency : Concurrencies,
              errorMode : {"THROW_IMMEDIATELY", "SUPPRESS"},
              resolveOn : {"finish", "start"}]
  /\ inFlight = 0
  /\ queue = <<>>
  /\ fnOf = [p \in Push |-> Nobody]
  /\ defer = [f \in Fn |-> [st |-> "none", by |-> Nobody]]
  /\ job = [p \in Push |-> "idle"]
  /\ returned = [p \in Push |-> "none"]
  /\ voided = [p \in Push |-> "none"]
  /\ listener = [w \in Waiter |-> "none"]
  /\ pushed = <<>>

-----------------------------------------------------------------------------
(* The defer: created by the first push of its function, settled once.      *)

Opened(d) == IF d.st = "none" THEN [st |-> "pending", by |-> d.by] ELSE d

Settled(d, st, p) == IF d.st = "pending" THEN [st |-> st, by |-> p] ELSE d

\* Mutant: resolveOn is not looked at.
OnStart_Always(d, p) == Settled(d, "void", p)

\* What starting a job does to its defer.
OnStart(d, p) ==
  IF cfg.resolveOn = "start" THEN Settled(d, "void", p) ELSE d

\* Mutant: a suppressed error is logged and forgotten.
OnFinish_Forgets(d, p, ok) ==
  IF cfg.resolveOn = "start" \/ (~ok /\ cfg.errorMode = "SUPPRESS") THEN d
  ELSE Settled(d, IF ok THEN "resolved" ELSE "rejected", p)

\* What the end of a job does to its defer: the then or the catch handler.
OnFinish(d, p, ok) ==
  CASE cfg.resolveOn = "start" -> d
    [] cfg.resolveOn = "finish" /\ ok -> Settled(d, "resolved", p)
    [] cfg.resolveOn = "finish" /\ ~ok /\ cfg.errorMode = "SUPPRESS" ->
         Settled(d, "void", p)
    [] OTHER -> Settled(d, "rejected", p)

-----------------------------------------------------------------------------
(* The slots and the queue.                                                 *)

\* Mutant: <= for <.
HasRoom_OffByOne(n) == n <= cfg.concurrency
HasRoom(n) == n < cfg.concurrency

\* Mutant: the queue as a stack.
Enqueued_InFront(q, p) == <<p>> \o q
Enqueued(q, p) == Append(q, p)

Freed == inFlight - 1

\* Mutants: the counter as it was before the handler; no condition at all.
NoneLeft_Stale(n) == inFlight = 0
NoneLeft_Unchecked(n) == TRUE
\* Whether the onIdle listeners are resolved with n jobs left.
NoneLeft(n) == n = 0

\* fn() returns a promise or, not being async, throws where push calls it:
\* no handler is attached then, and inFlight stays incremented.
StartOutcome == IF MayThrow THEN {"running", "threw"} ELSE {"running"}

\* The promise of a call of push that has left the job `started`.
Promised(started) == IF started = "threw" THEN "threw" ELSE "defer"

\* The body of push for push p of function f, entered with n jobs in flight,
\* the queue q and the executions j.
Admit(p, f, n, q, j) ==
  \/ /\ HasRoom(n)
     /\ inFlight' = n + 1
     /\ queue' = q
     /\ defer' = [defer EXCEPT ![f] = OnStart(Opened(@), p)]
     /\ \E s \in StartOutcome : job' = [j EXCEPT ![p] = s]
  \/ /\ ~HasRoom(n)
     /\ inFlight' = n
     /\ queue' = Enqueued(q, p)
     /\ defer' = [defer EXCEPT ![f] = Opened(@)]
     /\ job' = [j EXCEPT ![p] = "queued"]

-----------------------------------------------------------------------------
\* A caller pushes f.
PushJob(p, f) ==
  /\ job[p] = "idle"
  /\ Admit(p, f, inFlight, queue, job)
  /\ fnOf' = [fnOf EXCEPT ![p] = f]
  /\ returned' = [returned EXCEPT ![p] = Promised(job'[p])]
  /\ pushed' = Append(pushed, p)
  /\ UNCHANGED <<cfg, voided, listener>>

\* The promise of p's job settles and its then or catch handler runs.
Settle(p, ok) ==
  /\ job[p] = "running"
  /\ job' = [job EXCEPT ![p] = "settled"]
  /\ defer' = [defer EXCEPT ![fnOf[p]] = OnFinish(@, p, ok)]
  /\ UNCHANGED <<cfg, inFlight, queue, fnOf, returned, voided, listener, pushed>>

\* The finally handler of p's job, when it finds a queued function.
ReleaseAndRefill(p) ==
  LET next == Head(queue) IN
  /\ job[p] = "settled"
  /\ queue # <<>>
  /\ Freed <= cfg.concurrency
  /\ Admit(next, fnOf[next], Freed, Tail(queue),
           [job EXCEPT ![p] = "released"])
  /\ voided' = [voided EXCEPT ![next] = Promised(job'[next])]
  /\ UNCHANGED <<cfg, fnOf, returned, listener, pushed>>

\* The finally handler of p's job, when there is nothing to start.
ReleaseOnly(p) ==
  /\ job[p] = "settled"
  /\ queue = <<>> \/ Freed > cfg.concurrency
  /\ inFlight' = Freed
  /\ job' = [job EXCEPT ![p] = "released"]
  /\ listener' = IF NoneLeft(inFlight')
                 THEN [w \in Waiter |-> IF listener[w] = "waiting"
                                        THEN "resolved" ELSE listener[w]]
                 ELSE listener
  /\ UNCHANGED <<cfg, queue, fnOf, defer, returned, voided, pushed>>

\* A caller asks to be told when the queue is idle.
OnIdle(w) ==
  /\ listener[w] = "none"
  /\ listener' = [listener EXCEPT ![w] = IF queue = <<>> /\ inFlight = 0
                                         THEN "resolved" ELSE "waiting"]
  /\ UNCHANGED <<cfg, inFlight, queue, fnOf, defer, job, returned, voided, pushed>>

Next ==
  \/ \E p \in Push : \/ \E f \in Fn : PushJob(p, f)
                     \/ \E ok \in BOOLEAN : Settle(p, ok)
                     \/ ReleaseAndRefill(p)
                     \/ ReleaseOnly(p)
  \/ \E w \in Waiter : OnIdle(w)

Spec == Init /\ [][Next]_vars

(* Jobs settle (the promises they return do) and the event loop runs every  *)
(* handler it has queued.  Nobody has to push or to call onIdle.            *)
Fairness ==
  \A p \in Push : /\ WF_vars(\E ok \in BOOLEAN : Settle(p, ok))
                  /\ WF_vars(ReleaseAndRefill(p) \/ ReleaseOnly(p))

FairSpec == Spec /\ Fairness

-----------------------------------------------------------------------------
\* The executions that hold a slot.
Occupying == {p \in Push : job[p] \in {"running", "settled", "threw"}}
Released == {p \in Push : job[p] = "released"}
Idle == queue = <<>> /\ inFlight = 0

(* The counter the code keeps is the number of jobs that hold a slot, no    *)
(* more of them than `concurrency` allows, and no slot is free while a      *)
(* function waits in the queue: a push that comes between a job's answer    *)
(* and its finally handler makes no slot, and the refill there never loses  *)
(* its turn (pQueue.ts:117-119, 139-145).                                   *)
SlotsAccounted ==
  /\ inFlight = Cardinality(Occupying)
  /\ inFlight <= cfg.concurrency
  /\ queue # <<>> => inFlight = cfg.concurrency

(* The queue holds exactly the pushes that were not started, oldest first,  *)
(* and a push is in it once; every started one still holds its slot or has  *)
(* given it back (pQueue.ts:143-145, 155).                                  *)
QueueIsUnstarted ==
  LET started == Len(pushed) - Len(queue) IN
  /\ Len(queue) <= Len(pushed)
  /\ \A i \in 1..Len(queue) : queue[i] = pushed[started + i]
  /\ \A i \in 1..Len(pushed) :
       /\ job[pushed[i]] # "idle"
       /\ job[pushed[i]] = "queued" <=> i > started
       /\ \A k \in 1..Len(pushed) : pushed[i] = pushed[k] => i = k
  /\ \A p \in Push : job[p] # "idle" => \E i \in 1..Len(pushed) : pushed[i] = p
  /\ started = inFlight + Cardinality(Released)

(* Whoever waits for idleness has been told by the time the queue is idle:  *)
(* no order of onIdle, push and finally leaves a listener behind            *)
(* (pQueue.ts:98-104, 147-151).                                             *)
NoListenerLeftAtIdle == Idle => \A w \in Waiter : listener[w] # "waiting"

(* An onIdle promise resolves in no other state than an idle one: "Idle     *)
(* means 0 queue and 0 inFlight" (pQueue.ts:93-97).                         *)
ListenersWakeOnlyAtIdle ==
  [][\A w \in Waiter : listener[w] # "resolved" /\ listener'[w] = "resolved"
                       => Idle']_vars

(* A defer is settled by a job of its function, never before the job did    *)
(* what resolveOn waits for and never later than the job's own handler.  A  *)
(* push rejects with its defer, which only an error mode that throws makes  *)
(* it do, or at once, in every mode, with what its own function throws; a   *)
(* function that throws when the queue starts it rejects nobody's promise,  *)
(* and no such error gets lost (pQueue.ts:121-136, 145, 159).               *)
AnsweredByItsJob ==
  /\ \A f \in Fn :
       /\ defer[f].by # Nobody =>
            LET p == defer[f].by IN
            /\ fnOf[p] = f
            /\ IF cfg.resolveOn = "start"
               THEN job[p] \notin {"idle", "queued"} /\ defer[f].st = "void"
               ELSE job[p] \in {"settled", "released"}
            /\ defer[f].st = "rejected" => cfg.errorMode = "THROW_IMMEDIATELY"
       /\ defer[f].st = "pending" =>
            \A p \in Push : fnOf[p] = f => job[p] \notin {"settled", "released"}
  /\ \A p \in Push :
       /\ job[p] # "idle" <=> returned[p] # "none"
       /\ job[p] = "threw" <=> "threw" \in {returned[p], voided[p]}
       /\ returned[p] = "threw" => voided[p] = "none"

(* PQueue is a work-conserving FIFO pool.                                   *)
Pool == INSTANCE JobPool WITH bound <- cfg.concurrency,
                              submitted <- pushed,
                              started <- Len(pushed) - Len(queue),
                              finished <- Released,
                              given <- Cardinality(Released)

ImplementsPool == Pool!Spec

\* What the caller of push p has got.
Answered(p) ==
  \/ returned[p] = "threw"
  \/ returned[p] = "defer" /\ \E f \in Fn : /\ fnOf[p] = f
                                           /\ defer[f].st \notin {"none", "pending"}

(* Every push is answered, unless its function throws when the queue starts *)
(* it, or throwing functions have taken all the slots there are, none of    *)
(* which is given back then (pQueue.ts:117-123, 145).                       *)
EveryPushAnswered ==
  \A p \in Push :
    job[p] # "idle" ~> \/ Answered(p)
                       \/ voided[p] = "threw"
                       \/ Cardinality({q \in Push : job[q] = "threw"}) >= cfg.concurrency

(* "Should be handled on the outside, otherwise it'll cause                 *)
(* UnhandledRejection" (pQueue.ts:134): with every promise that push gave   *)
(* to a caller handled, no promise is rejected without a handler.  The      *)
(* promise of `void this.push(nextFn)` (pQueue.ts:145) is nobody's.         *)
HandledOutsideIsHandled ==
  \A p \in Push : /\ voided[p] # "threw"
                  /\ voided[p] = "defer" => defer[fnOf[p]].st # "rejected"
=============================================================================
