------------------------------ MODULE WorkerPool -----------------------------
(***************************************************************************)
(* nodejs-lib/src/stream/transform/worker/transformMultiThreaded.ts, a       *)
(* transform that has worker threads process its chunks, with the worker     *)
(* side, workerClassProxy.js.  through2-concurrent, below it, is used from   *)
(* here: it has at most Concurrency chunks under way and calls final once    *)
(* all have been called back.  Messages between two threads arrive in order, *)
(* unless the receiver is gone.  A chunk is its position in the input.       *)
(***************************************************************************)
EXTENDS Integers, Sequences, FiniteSets

CONSTANTS MaxChunks,   \* bound on the chunks of the input
          PoolSize, Concurrency,
          MaxDeaths,   \* bound on the workers that end before they are told to
          Null         \* the message after the last chunk

ASSUME WorkerPoolAssumption ==
  /\ MaxChunks \in Nat /\ PoolSize \in Nat \ {0} /\ Concurrency \in Nat \ {0}
  /\ MaxDeaths \in Nat /\ Null \notin Nat

Index == 0..(MaxChunks - 1)
Worker == 0..(PoolSize - 1)
None == -1

VARIABLES index,       \* of the chunk that was taken last
          messageDone, \* messageDonePromises: pending, settled, or deleted
          result,      \* of each settled one: what was made of which chunk, None if it failed
          toWorker,    \* messages under way to each worker
          fromWorker,  \* and from it: which index, which chunk's result
          processing,  \* the indices a worker processes
          worker,      \* running, closed its port, exited, or with its 'exit' event delivered
          workerDone,  \* workerDonePromises
          final,       \* the end of the transform: not yet, waiting, ended or failed
          output,      \* what each chunk was called back with
          deaths,
          erred        \* history: the workers that ended with an error

poolVars == <<index, messageDone, result, toWorker, fromWorker, processing, worker,
              workerDone, final, output, deaths, erred>>

PoolInit ==
  /\ index = -1
  /\ messageDone = [i \in Index |-> "none"]
  /\ result = [i \in Index |-> None]
  /\ toWorker = [w \in Worker |-> <<>>]
  /\ fromWorker = [w \in Worker |-> <<>>]
  /\ processing = [w \in Worker |-> {}]
  /\ worker = [w \in Worker |-> "running"]
  /\ workerDone = [w \in Worker |-> "pending"]
  /\ final = "no"
  /\ output = [i \in Index |-> {}]
  /\ deaths = 0
  /\ erred = {}

-----------------------------------------------------------------------------
Taken == 0..index
CalledBack(i) == output[i] # {}

\* postMessage: what is sent to a worker that is gone is lost.
Post(w, m) == IF worker[w] = "running" THEN Append(toWorker[w], m) ELSE toWorker[w]

\* transformMapFn, up to its await: round-robin.
Take ==
  /\ final = "no"
  /\ index + 1 \in Index
  /\ Cardinality({i \in Taken : ~CalledBack(i)}) < Concurrency
  /\ index' = index + 1
  /\ messageDone' = [messageDone EXCEPT ![index'] = "pending"]
  /\ LET w == index' % PoolSize IN toWorker' = [toWorker EXCEPT ![w] = Post(w, index')]
  /\ UNCHANGED <<result, fromWorker, processing, worker, workerDone, final, output, deaths, erred>>

\* A worker gets its next message: process() begins, others may be going on.
Receive(w) ==
  /\ worker[w] = "running"
  /\ toWorker[w] # <<>>
  /\ toWorker' = [toWorker EXCEPT ![w] = Tail(@)]
  /\ \/ /\ Head(toWorker[w]) # Null
        /\ processing' = [processing EXCEPT ![w] = @ \cup {Head(toWorker[w])}]
        /\ UNCHANGED worker
     \/ /\ Head(toWorker[w]) = Null
        /\ worker' = [worker EXCEPT ![w] = "closed"]
        /\ UNCHANGED processing
  /\ UNCHANGED <<index, messageDone, result, fromWorker, workerDone, final, output, deaths, erred>>

\* process() resolves or rejects, in any order.
Processed(w, i) ==
  /\ worker[w] = "running"
  /\ i \in processing[w]
  /\ processing' = [processing EXCEPT ![w] = @ \ {i}]
  /\ \E r \in {i, None} :
       fromWorker' = [fromWorker EXCEPT ![w] = Append(@, [index |-> i, result |-> r])]
  /\ UNCHANGED <<index, messageDone, result, toWorker, worker, workerDone, final, output, deaths, erred>>

\* The 'message' event.
OnMessage(w) ==
  LET m == Head(fromWorker[w]) IN
  /\ fromWorker[w] # <<>>
  /\ fromWorker' = [fromWorker EXCEPT ![w] = Tail(@)]
  /\ messageDone' = [messageDone EXCEPT ![m.index] = "settled"]
  /\ result' = [result EXCEPT ![m.index] = m.result]
  /\ UNCHANGED <<index, toWorker, processing, worker, workerDone, final, output, deaths, erred>>

\* Mutant: the index is not frozen.
CurrentIndex_Shared(i) == index
\* The index a chunk's transformMapFn goes on with after its await.
CurrentIndex(i) == i

\* transformMapFn after its await: the chunk is called back, with the output
\* or, after an error, with none.
CallBack(i) ==
  /\ i \in Taken /\ ~CalledBack(i)
  /\ messageDone[CurrentIndex(i)] = "settled"
  /\ output' = [output EXCEPT ![i] = {result[CurrentIndex(i)]}]
  /\ messageDone' = [messageDone EXCEPT ![CurrentIndex(i)] = "deleted"]
  /\ UNCHANGED <<index, result, toWorker, fromWorker, processing, worker, workerDone, final, deaths, erred>>

\* final: the input has ended, and every chunk has been called back.
Final ==
  /\ final = "no"
  /\ \A i \in Taken : CalledBack(i)
  /\ final' = "waiting"
  /\ toWorker' = [w \in Worker |-> Post(w, Null)]
  /\ UNCHANGED <<index, messageDone, result, fromWorker, processing, worker, workerDone, output, deaths, erred>>

\* A worker that has closed its port, and has nothing left to do, exits.
Exit(w) ==
  /\ worker[w] = "closed"
  /\ processing[w] = {}
  /\ worker' = [worker EXCEPT ![w] = "exited"]
  /\ UNCHANGED <<index, messageDone, result, toWorker, fromWorker, processing, workerDone, final, output, deaths, erred>>

\* A worker ends before it is told to, with an error of its own, of which the
\* 'error' event tells, or by process.exit().
Die(w) ==
  /\ deaths < MaxDeaths
  /\ worker[w] = "running"
  /\ deaths' = deaths + 1
  /\ worker' = [worker EXCEPT ![w] = "exited"]
  /\ processing' = [processing EXCEPT ![w] = {}]
  /\ toWorker' = [toWorker EXCEPT ![w] = <<>>]
  /\ \/ UNCHANGED <<workerDone, erred>>
     \/ /\ workerDone' = [workerDone EXCEPT ![w] = "rejected"]
        /\ erred' = erred \cup {w}
  /\ UNCHANGED <<index, messageDone, result, fromWorker, final, output>>

\* A deferred promise stays as it was settled first.
SettledOnce(state, s) == IF state = "pending" THEN s ELSE state

\* The 'exit' event, after the last message.
OnExit(w) ==
  /\ worker[w] = "exited"
  /\ fromWorker[w] = <<>>
  /\ worker' = [worker EXCEPT ![w] = "gone"]
  /\ workerDone' = [workerDone EXCEPT ![w] = SettledOnce(@, "resolved")]
  /\ UNCHANGED <<index, messageDone, result, toWorker, fromWorker, processing, final, output, deaths, erred>>

\* final after Promise.all(workerDonePromises).
FinalDone ==
  /\ final = "waiting"
  /\ \/ /\ \A w \in Worker : workerDone[w] = "resolved"
        /\ final' = "ended"
     \/ /\ \E w \in Worker : workerDone[w] = "rejected"
        /\ final' = "failed"
  /\ UNCHANGED <<index, messageDone, result, toWorker, fromWorker, processing, worker, workerDone, output, deaths, erred>>

PoolNext ==
  \/ Take \/ Final \/ FinalDone
  \/ \E i \in Index : CallBack(i)
  \/ \E w \in Worker : \/ Receive(w) \/ OnMessage(w) \/ Exit(w) \/ Die(w) \/ OnExit(w)
                       \/ \E i \in Index : Processed(w, i)

PoolSpec == PoolInit /\ [][PoolNext]_poolVars

-----------------------------------------------------------------------------
\* What will bring the result of the i-th chunk is there.
OnItsWay(i) ==
  \/ messageDone[i] = "settled"
  \/ \E w \in Worker :
       \/ \E k \in 1..Len(toWorker[w]) : toWorker[w][k] = i
       \/ i \in processing[w]
       \/ \E k \in 1..Len(fromWorker[w]) : fromWorker[w][k].index = i

(* Each chunk is called back with its own result, however the threads       *)
(* overtake each other; none waits for a result that cannot come, unless a  *)
(* worker has ended before its time; and the transform ends well only after *)
(* all chunks and all workers, none of which ended with an error            *)
(* (transformMultiThreaded.ts:74-93, 102-145, workerClassProxy.js:29-61).   *)
OwnResults ==
  /\ \A i \in Index : output[i] \subseteq {i, None}
  /\ deaths = 0 => \A i \in Taken : CalledBack(i) \/ OnItsWay(i)
  /\ final = "ended" => /\ \A i \in Taken : CalledBack(i)
                        /\ \A w \in Worker : worker[w] = "gone"
                        /\ erred = {}
=============================================================================
