-------------------------------- MODULE Memo --------------------------------
(***************************************************************************)
(* js-lib/src/decorators: the helpers that keep an asynchronous function    *)
(* from being run again while or after it runs: @_AsyncMemo                 *)
(* (asyncMemo.decorator.ts), @_SwarmSafe (swarmSafe.decorator.ts) and       *)
(* _memoFnAsync (memoFnAsync.ts), on one instance.                          *)
(* A call either starts a task (cache.get, the function, cache.set) or      *)
(* joins the one in flight; a task has the number of the call that began it. *)
(* A value is the number of clears executed before the function began to    *)
(* compute it.                                                              *)
(***************************************************************************)
EXTENDS Naturals, FiniteSets

CONSTANTS Caller, Key,
          MaxCalls,  \* bound on the calls
          MaxClears, \* bound on the clears
          Miss       \* no value in the cache

ASSUME MemoAssumption == MaxCalls \in Nat /\ MaxClears \in Nat /\ Miss \notin Nat

Task == 1..MaxCalls

VARIABLES kind,       \* which of the three helpers
          persistent, \* every cache of the cacheFactory has the same store behind it
          made,       \* an instance cache is there
          ended,      \* clears that ended, and with it which cache is in use
          clearing,   \* a clear() is under way: none, before or after its cache.clear()
          cached,     \* what the stores hold
          pc,         \* where each task is
          keyOf,      \* its key
          cacheOf,    \* the cache it uses
          value,      \* what it found or computes
          outcome,    \* how its promise was settled
          inFlight,   \* the promise cache
          calls,      \* calls made
          joined,     \* the task whose promise the last call of a caller returned, or 0
          waiting,    \* and whether the caller still awaits it
          cleared,    \* clears executed
          since,      \* history: clears executed by those that had ended at the call
          born,       \* history: the same when the task began
          known,      \* history: keys with a value computed since the last clear
          healthy,    \* history: no get, set or clear of a cache has failed
          overlapped  \* history: a task was under way during a clear

memoVars == <<kind, persistent, made, ended, clearing, cached, pc, keyOf, cacheOf, value,
              outcome, inFlight, calls, joined, waiting, cleared, since, born, known,
              healthy, overlapped>>

Kinds == {"asyncMemo", "swarmSafe", "memoFnAsync"}

MemoInit ==
  /\ kind \in Kinds
  /\ persistent \in BOOLEAN /\ (persistent => kind # "swarmSafe")
  /\ made = (kind = "memoFnAsync")
  /\ ended = 0
  /\ clearing = "no"
  /\ \E old \in IF persistent THEN [Key -> {0, Miss}] ELSE {[k \in Key |-> Miss]} :
       cached = [g \in 0..MaxClears |-> old]
  /\ pc = [t \in Task |-> "none"]
  /\ keyOf = [t \in Task |-> Miss]
  /\ cacheOf = [t \in Task |-> 0]
  /\ value = [t \in Task |-> Miss]
  /\ outcome = [t \in Task |-> "pending"]
  /\ inFlight = [k \in Key |-> {}]
  /\ calls = 0
  /\ joined = [c \in Caller |-> 0]
  /\ waiting = [c \in Caller |-> FALSE]
  /\ cleared = 0
  /\ since = [c \in Caller |-> 0]
  /\ born = [t \in Task |-> 0]
  /\ known = {}
  /\ healthy = TRUE
  /\ overlapped = FALSE

-----------------------------------------------------------------------------
\* The store behind the g-th cache of the instance.
Store(g) == IF persistent \/ kind = "memoFnAsync" THEN 0 ELSE g

\* @_SwarmSafe looks at the instance only: all calls are one.
Slots(k) == IF kind = "swarmSafe" THEN Key ELSE {k}

UnderWay(t) == pc[t] \in {"getting", "running", "setting"}

\* The entry of t is deleted from the promise cache.
Dropped(t) == [k \in Key |-> IF k \in Slots(keyOf[t]) THEN {} ELSE inFlight[k]]

\* A call for k that finds a promise in flight returns it.
Join(c, k) ==
  /\ ~waiting[c] /\ calls < MaxCalls
  /\ \E t \in inFlight[k] : joined' = [joined EXCEPT ![c] = t]
  /\ calls' = calls + 1
  /\ waiting' = [waiting EXCEPT ![c] = TRUE]
  /\ made' = (made \/ kind = "asyncMemo")
  /\ since' = [since EXCEPT ![c] = IF clearing = "executed" THEN cleared - 1 ELSE cleared]
  /\ UNCHANGED <<kind, persistent, ended, clearing, cached, pc, keyOf, cacheOf, value,
                 outcome, inFlight, cleared, born, known, healthy, overlapped>>

\* One that finds none begins a task: with cache.get, or with the method itself.
Start(c, k) ==
  LET t == calls + 1
      horizon == IF clearing = "executed" THEN cleared - 1 ELSE cleared IN
  /\ ~waiting[c] /\ calls < MaxCalls
  /\ inFlight[k] = {}
  /\ calls' = calls + 1
  /\ joined' = [joined EXCEPT ![c] = t]
  /\ waiting' = [waiting EXCEPT ![c] = TRUE]
  /\ made' = (made \/ kind = "asyncMemo")
  /\ pc' = [pc EXCEPT ![t] = IF kind = "swarmSafe" THEN "running" ELSE "getting"]
  /\ keyOf' = [keyOf EXCEPT ![t] = k]
  /\ cacheOf' = [cacheOf EXCEPT ![t] = ended]
  /\ value' = [value EXCEPT ![t] = IF kind = "swarmSafe" THEN cleared ELSE Miss]
  /\ inFlight' = [i \in Key |-> IF i \in Slots(k) /\ kind # "memoFnAsync" THEN {t} ELSE inFlight[i]]
  /\ since' = [since EXCEPT ![c] = horizon]
  /\ born' = [born EXCEPT ![t] = horizon]
  /\ overlapped' = (overlapped \/ clearing # "no")
  /\ UNCHANGED <<kind, persistent, ended, clearing, cached, outcome, cleared, known, healthy>>

-----------------------------------------------------------------------------
\* The end of a task's step: its pc, its promise, and the promise cache.
Task_(t, where, how, flight) ==
  /\ pc' = [pc EXCEPT ![t] = where]
  /\ outcome' = [outcome EXCEPT ![t] = how]
  /\ inFlight' = flight

unchangedByTasks == <<kind, persistent, made, ended, clearing, keyOf, cacheOf, calls, joined,
                      waiting, cleared, since, born, overlapped>>

\* cache.get resolves to a value.
Hit(t) ==
  LET v == cached[Store(cacheOf[t])][keyOf[t]] IN
  /\ pc[t] = "getting"
  /\ v # Miss
  /\ value' = [value EXCEPT ![t] = v]
  /\ Task_(t, "over", "value", Dropped(t))
  /\ UNCHANGED <<unchangedByTasks, cached, known, healthy>>

\* cache.get resolves to MISS, or rejects: the function is run.  Only
\* _memoFnAsync goes on with the undefined that a failed get leaves.
Run(t) ==
  /\ pc[t] = "getting"
  /\ \/ cached[Store(cacheOf[t])][keyOf[t]] = Miss /\ UNCHANGED healthy
     \/ kind = "asyncMemo" /\ healthy' = FALSE
  /\ value' = [value EXCEPT ![t] = cleared]
  /\ Task_(t, "running", "pending", inFlight)
  /\ UNCHANGED <<unchangedByTasks, cached, known>>

GetFails(t) ==
  /\ kind = "memoFnAsync"
  /\ pc[t] = "getting"
  /\ healthy' = FALSE
  /\ Task_(t, "over", "undefined", inFlight)
  /\ UNCHANGED <<unchangedByTasks, cached, value, known>>

\* Mutant: the promise is taken for done when the function resolves.
Kept_Not(t) == Dropped(t)
\* The promise cache once the function has resolved.
Kept(t) == inFlight

\* The function resolves: cache.set begins, nobody waits for it.
FnResolves(t) ==
  /\ pc[t] = "running"
  /\ Task_(t, "setting", "value", Kept(t))
  /\ known' = IF clearing = "no" /\ cacheOf[t] = ended THEN known \cup {keyOf[t]} ELSE known
  /\ UNCHANGED <<unchangedByTasks, cached, value, healthy>>

\* The function rejects.  @_SwarmSafe has the finally handler do the rest.
FnRejects(t) ==
  /\ pc[t] = "running"
  /\ IF kind = "swarmSafe" THEN Task_(t, "setting", "error", inFlight)
                           ELSE Task_(t, "over", "error", Dropped(t))
  /\ UNCHANGED <<unchangedByTasks, cached, value, known, healthy>>

\* cache.set resolves, or rejects; the finally handler of @_SwarmSafe.
Over(t) ==
  /\ pc[t] = "setting"
  /\ Task_(t, "over", outcome[t], Dropped(t))
  /\ \/ /\ kind # "swarmSafe"
        /\ cached' = [cached EXCEPT ![Store(cacheOf[t])][keyOf[t]] = value[t]]
        /\ UNCHANGED healthy
     \/ /\ kind # "swarmSafe"
        /\ healthy' = FALSE
        /\ UNCHANGED cached
     \/ /\ kind = "swarmSafe"
        /\ UNCHANGED <<cached, healthy>>
  /\ UNCHANGED <<unchangedByTasks, value, known>>

\* A caller's await of the promise returns; after @_SwarmSafe's own handler.
Answer(c) ==
  /\ waiting[c]
  /\ outcome[joined[c]] # "pending"
  /\ kind = "swarmSafe" => pc[joined[c]] = "over"
  /\ waiting' = [waiting EXCEPT ![c] = FALSE]
  /\ UNCHANGED <<kind, persistent, made, ended, clearing, cached, pc, keyOf, cacheOf, value,
                 outcome, inFlight, calls, joined, cleared, since, born, known, healthy, overlapped>>

-----------------------------------------------------------------------------
\* clear() of @_AsyncMemo calls clear() of every instance cache there is, of
\* _memoFnAsync that of the cache.  The clears are awaited, one at a time.
unchangedByClear == <<kind, persistent, cached, pc, keyOf, cacheOf, value, outcome, inFlight,
                      calls, joined, waiting, since, born, healthy>>

Clear ==
  /\ kind # "swarmSafe" /\ made
  /\ clearing = "no" /\ ended < MaxClears
  /\ clearing' = "asked"
  /\ known' = {}
  /\ overlapped' = (overlapped \/ \E t \in Task : UnderWay(t))
  /\ UNCHANGED <<unchangedByClear, made, ended, cleared>>

ClearExecuted ==
  /\ clearing = "asked"
  /\ clearing' = "executed"
  /\ cached' = [cached EXCEPT ![Store(ended)] = [k \in Key |-> Miss]]
  /\ cleared' = cleared + 1
  /\ UNCHANGED <<kind, persistent, made, ended, pc, keyOf, cacheOf, value, outcome, inFlight,
                 calls, joined, waiting, since, born, known, healthy, overlapped>>

\* Mutant: the instance keeps its cache.
NextCache_Same == ended
\* The cache the instance uses once it has been cleared.
NextCache == ended + 1

\* instanceCache.clear(): the next call makes a cache of its own.
ClearEnds ==
  /\ clearing = "executed"
  /\ clearing' = "no"
  /\ ended' = NextCache
  /\ made' = (kind = "memoFnAsync")
  /\ UNCHANGED <<unchangedByClear, cleared, known, overlapped>>

\* A cache that fails to clear: the clear() rejects before instanceCache.clear().
ClearFails ==
  /\ clearing = "asked"
  /\ clearing' = "no"
  /\ healthy' = FALSE
  /\ UNCHANGED <<kind, persistent, made, ended, cached, pc, keyOf, cacheOf, value, outcome,
                 inFlight, calls, joined, waiting, cleared, since, born, known, overlapped>>

MemoNext ==
  \/ \E c \in Caller : (\E k \in Key : Join(c, k) \/ Start(c, k)) \/ Answer(c)
  \/ \E t \in Task : Hit(t) \/ Run(t) \/ GetFails(t) \/ FnResolves(t) \/ FnRejects(t) \/ Over(t)
  \/ Clear \/ ClearExecuted \/ ClearEnds \/ ClearFails

MemoSpec == MemoInit /\ [][MemoNext]_memoVars

-----------------------------------------------------------------------------
\* A run of the function for t's key, or for the instance, is going on.
Running(t) == pc[t] = "running"

(* The function is not run for what is being computed already, and, with    *)
(* @_AsyncMemo on a cache that works, not for what has been computed since  *)
(* the last clear(), not even while the value is on its way into the cache  *)
(* (asyncMemo.decorator.ts:91-146, swarmSafe.decorator.ts:30-45).           *)
ComputedOnce ==
  [][\A t \in Task :
       ~Running(t) /\ Running(t)' /\ kind # "memoFnAsync" =>
         /\ \A u \in Task : keyOf'[t] \in Slots(keyOf[u]) => ~Running(u)
         /\ kind = "asyncMemo" /\ healthy' => keyOf'[t] \notin known]_memoVars

(* A call made after a clear() has ended never gets what was computed       *)
(* before it, unless it joins a call from before, or the cache outlives the *)
(* clear (a persistent one, the one of _memoFnAsync) and something was      *)
(* under way during it.  What it gets is a value, unless the function       *)
(* failed, or the get did in _memoFnAsync (asyncMemo.decorator.ts:122-154,  *)
(* memoFnAsync.ts:31-51).                                                   *)
AnswersAreCurrent ==
  \A c \in Caller :
    LET t == joined[c] IN
    t # 0 /\ outcome[t] # "pending" =>
      /\ outcome[t] = "undefined" => kind = "memoFnAsync" /\ ~healthy
      /\ outcome[t] = "value" => value[t] # Miss
      /\ outcome[t] = "value" /\ value[t] < since[c] =>
           \/ born[t] < since[c]
           \/ overlapped /\ (persistent \/ kind = "memoFnAsync")
=============================================================================
