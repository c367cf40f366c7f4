----------------------------- MODULE AsyncProofs ----------------------------
(* A memoized function answers with what is current and does not run again  *)
(* for what it has, for any numbers of callers, keys, calls and clears; each *)
(* chunk of a multi-threaded transform gets its own result, for any numbers  *)
(* of chunks, workers and deaths, and any concurrency.                      *)
EXTENDS Memo, WorkerPool, TLAPS

MemoTypes ==
  /\ clearing \in {"no", "asked", "executed"}
  /\ ended \in 0..MaxClears
  /\ clearing # "no" => ended < MaxClears
  /\ cached \in [0..MaxClears -> [Key -> Nat \cup {Miss}]]
  /\ pc \in [Task -> {"none", "getting", "running", "setting", "over"}]
  /\ keyOf \in [Task -> Key \cup {Miss}]
  /\ cacheOf \in [Task -> 0..MaxClears]
  /\ value \in [Task -> Nat \cup {Miss}]
  /\ outcome \in [Task -> {"pending", "value", "undefined", "error"}]
  /\ inFlight \in [Key -> SUBSET Task]
  /\ calls \in 0..MaxCalls
  /\ joined \in [Caller -> 0..MaxCalls]
  /\ cleared \in Nat
  /\ since \in [Caller -> Nat]
  /\ born \in [Task -> Nat]
  /\ known \subseteq Key

\* The clears that a call can know of are those that ended.
Horizon == IF clearing = "executed" THEN cleared - 1 ELSE cleared

Clears ==
  /\ Horizon = ended
  /\ clearing # "no" => known = {} /\ kind # "swarmSafe"

\* A task goes through its states in order, and computes after its clear.
Begun ==
  \A t \in Task :
    /\ t > calls => pc[t] = "none"
    /\ pc[t] # "none" => keyOf[t] \in Key
    /\ cacheOf[t] <= ended
    /\ born[t] = cacheOf[t]
    /\ pc[t] \in {"none", "getting", "running"} => outcome[t] = "pending"
    /\ pc[t] \in {"running", "setting"} => value[t] \in Nat /\ value[t] >= born[t]

\* The caches have one store, that a clear empties for all of them.
SharedStore == persistent \/ kind = "memoFnAsync"

\* A store holds nothing from before the clear its cache comes after.
StoresCurrent ==
  /\ ~SharedStore =>
       \A g \in 0..MaxClears : \A k \in Key : cached[g][k] # Miss => cached[g][k] >= g
  /\ SharedStore /\ ~overlapped =>
       /\ clearing # "no" => \A t \in Task : ~UnderWay(t)
       /\ \A t \in Task : UnderWay(t) => cacheOf[t] = ended
       /\ \A k \in Key : cached[0][k] # Miss => clearing # "executed" /\ cached[0][k] >= ended

\* So nor does an answer.
Settled ==
  \A t \in Task :
    /\ outcome[t] = "undefined" => kind = "memoFnAsync" /\ ~healthy
    /\ outcome[t] = "value" => /\ value[t] \in Nat
                               /\ ~(SharedStore /\ overlapped) => value[t] >= born[t]

\* A task under way is the one in flight for its key.
OneFlight ==
  kind # "memoFnAsync" => \A t \in Task : UnderWay(t) => \A k \in Slots(keyOf[t]) : inFlight[k] = {t}

\* A value that is known is in the cache, or on its way into it.
KnownThere ==
  kind = "asyncMemo" =>
    /\ \A t \in Task : UnderWay(t) /\ keyOf[t] \in known => cacheOf[t] = ended
    /\ healthy => \A k \in known : 
         \/ cached[Store(ended)][k] # Miss
         \/ \E t \in Task : pc[t] = "setting" /\ keyOf[t] = k /\ cacheOf[t] = ended

MInv == MemoTypes /\ Clears /\ Begun /\ StoresCurrent /\ Settled /\ OneFlight /\ KnownThere

-----------------------------------------------------------------------------
LEMMA TaskNumbers == \A t : t \in Task <=> t \in Nat /\ 1 <= t /\ t <= MaxCalls
  BY MemoAssumption DEF Task

LEMMA Stores == \A g : Store(g) = IF SharedStore THEN 0 ELSE g
  BY DEF Store, SharedStore

LEMMA MInit == MemoInit => MInv
<1> SUFFICES ASSUME MemoInit
             PROVE  MInv
  OBVIOUS
<1> USE MemoAssumption, TaskNumbers
<1>1. PICK old \in [Key -> {0, Miss}] : cached = [g \in 0..MaxClears |-> old]
  BY DEF MemoInit
<1>2. ~SharedStore => \A k \in Key : old[k] = Miss
  BY <1>1 DEF MemoInit, SharedStore
<1>3. MemoTypes
  BY <1>1 DEF MemoInit, MemoTypes
<1>4. Clears /\ Begun /\ Settled /\ OneFlight /\ KnownThere
  BY DEF MemoInit, Clears, Horizon, Begun, Settled, OneFlight, KnownThere, UnderWay
<1>5. StoresCurrent
  <2>1. cached \in [0..MaxClears -> [Key -> Nat \cup {Miss}]] /\ 0 \in 0..MaxClears
    BY <1>3 DEF MemoTypes
  <2>2. \A k \in Key : cached[0][k] # Miss => cached[0][k] = 0
    BY <1>1, <2>1
  <2>3. ~SharedStore => \A g \in 0..MaxClears : \A k \in Key : cached[g][k] = Miss
    BY <1>1, <1>2
  <2>4. \A t \in Task : ~UnderWay(t)
    BY DEF MemoInit, UnderWay
  <2>5. clearing = "no" /\ ended = 0
    BY DEF MemoInit
  <2>6. \A k \in Key : cached[0][k] # Miss => clearing # "executed" /\ cached[0][k] >= ended
    BY <2>2, <2>5
  <2> QED
    BY <2>3, <2>4, <2>5, <2>6 DEF StoresCurrent
<1> QED
  BY <1>3, <1>4, <1>5 DEF MInv

\* A call that joins, and an await that returns.
LEMMA CallerPreserves ==
  ASSUME MInv, NEW c \in Caller,
         Answer(c) \/ \E k \in Key : Join(c, k)
  PROVE  MInv'
<1> USE DEF MInv
<1> USE MemoAssumption, TaskNumbers
<1>1. /\ UNCHANGED <<kind, persistent, ended, clearing, cached, pc, keyOf, cacheOf, value,
                     outcome, inFlight, cleared, born, known, healthy, overlapped>>
      /\ calls' \in {calls, calls + 1} /\ (calls' # calls => calls < MaxCalls)
  BY DEF Answer, Join
<1>2. joined' \in [Caller -> 0..MaxCalls] /\ since' \in [Caller -> Nat]
  <2>1. CASE Answer(c)
    BY <2>1 DEF Answer, MemoTypes
  <2>2. ASSUME NEW k \in Key, Join(c, k)
        PROVE  joined' \in [Caller -> 0..MaxCalls] /\ since' \in [Caller -> Nat]
    <3>1. PICK t \in inFlight[k] : joined' = [joined EXCEPT ![c] = t]
      BY <2>2 DEF Join
    <3>2. t \in 0..MaxCalls
      BY DEF MemoTypes
    <3>3. since' = [since EXCEPT ![c] = ended]
      BY <2>2 DEF Join, Clears, Horizon
    <3> QED
      BY <3>1, <3>2, <3>3 DEF MemoTypes
  <2> QED
    BY <2>1, <2>2
<1>3. MemoTypes'
  BY <1>1, <1>2 DEF MemoTypes
<1>4. Clears' /\ Begun' /\ Settled'
  BY <1>1 DEF Clears, Horizon, Begun, Settled, SharedStore, MemoTypes
<1>5. StoresCurrent' /\ OneFlight' /\ KnownThere'
  BY <1>1 DEF StoresCurrent, SharedStore, OneFlight, KnownThere, UnderWay, Slots, Store
<1> QED
  BY <1>3, <1>4, <1>5

LEMMA StartPreserves ==
  ASSUME MInv, NEW c \in Caller, NEW k \in Key, Start(c, k)
  PROVE  MInv'
<1> USE DEF MInv
<1> USE MemoAssumption, TaskNumbers
<1>0. PICK t : t = calls + 1
  OBVIOUS
<1> DEFINE first == IF kind = "swarmSafe" THEN "running" ELSE "getting"
           found == IF kind = "swarmSafe" THEN cleared ELSE Miss
<1>1. /\ UNCHANGED <<kind, persistent, ended, clearing, cached, outcome, cleared, known, healthy>>
      /\ calls' = t
      /\ joined' = [joined EXCEPT ![c] = t]
      /\ since' = [since EXCEPT ![c] = ended]
      /\ pc' = [pc EXCEPT ![t] = first]
      /\ keyOf' = [keyOf EXCEPT ![t] = k]
      /\ cacheOf' = [cacheOf EXCEPT ![t] = ended]
      /\ value' = [value EXCEPT ![t] = found]
      /\ born' = [born EXCEPT ![t] = ended]
      /\ inFlight' = [i \in Key |-> IF i \in Slots(k) /\ kind # "memoFnAsync" THEN {t} ELSE inFlight[i]]
      /\ overlapped' = (overlapped \/ clearing # "no")
      /\ inFlight[k] = {} /\ calls < MaxCalls
  BY <1>0 DEF Start, Clears, Horizon
<1>2. t \in Task /\ t \in Nat /\ pc[t] = "none" /\ outcome[t] = "pending"
      /\ \A u \in Task : u > t => u > calls
  <2>1. calls \in Nat /\ calls < MaxCalls
    BY <1>1 DEF MemoTypes
  <2>2. t \in Task /\ t > calls /\ t \in Nat
    BY <1>0, <2>1
  <2>3. \A u \in Task : u > t => u > calls
    BY <1>0, <2>1
  <2> QED
    BY <2>2, <2>3 DEF Begun
<1>3. kind = "swarmSafe" => cleared = ended
  BY DEF Clears, Horizon
<1>4. found \in Nat \cup {Miss} /\ (kind = "swarmSafe" => found \in Nat /\ found >= ended)
      /\ first \in {"running", "getting"} /\ (first = "running" => kind = "swarmSafe")
  BY <1>3 DEF MemoTypes
<1> HIDE DEF first, found
<1>5. MemoTypes'
  <2>1. inFlight' \in [Key -> SUBSET Task]
    BY <1>1, <1>2 DEF MemoTypes
  <2>2. joined' \in [Caller -> 0..MaxCalls] /\ calls' \in 0..MaxCalls
    BY <1>1, <1>2 DEF MemoTypes
  <2> QED
    BY <1>1, <1>2, <1>4, <2>1, <2>2 DEF MemoTypes
<1>6. Clears' /\ Settled'
  BY <1>1, <1>2, <1>4 DEF Clears, Horizon, Settled, SharedStore, MemoTypes
<1>7. Begun'
  BY <1>1, <1>2, <1>4 DEF Begun, MemoTypes
<1>8. \A u \in Task : u # t => (UnderWay(u)' <=> UnderWay(u)) /\ keyOf'[u] = keyOf[u] /\ cacheOf'[u] = cacheOf[u]
      /\ pc'[u] = pc[u]
  BY <1>1, <1>2 DEF MemoTypes, UnderWay
<1>9. keyOf'[t] = k /\ cacheOf'[t] = ended /\ UnderWay(t)'
  BY <1>1, <1>2, <1>4 DEF MemoTypes, UnderWay
<1>10. StoresCurrent'
  BY <1>1, <1>8, <1>9 DEF StoresCurrent, SharedStore
<1>11. OneFlight'
  <2>1. ASSUME kind # "memoFnAsync", NEW u \in Task, UnderWay(u)', NEW i \in Slots(keyOf'[u])
        PROVE  inFlight'[i] = {u}
    <3>1. keyOf'[u] \in Key /\ i \in Key
      BY <1>5, <1>7, <2>1 DEF Begun, UnderWay, Slots, MemoTypes
    <3>2. CASE u = t
      BY <1>1, <1>9, <2>1, <3>1, <3>2
    <3>3. CASE u # t
      <4>1. inFlight[i] = {u} /\ \A j \in Slots(keyOf[u]) : inFlight[j] = {u}
        BY <1>1, <1>8, <2>1, <3>3 DEF OneFlight, Slots
      <4>2. i \notin Slots(k)
        BY <1>1, <1>8, <2>1, <3>1, <3>3, <4>1 DEF Slots
      <4> QED
        BY <1>1, <3>1, <4>1, <4>2
    <3> QED
      BY <3>2, <3>3
  <2> QED
    BY <1>1, <2>1 DEF OneFlight, Slots
<1>12. KnownThere'
  <2>1. \A u \in Task : pc[u] = "setting" => u # t
    BY <1>2
  <2> QED
    BY <1>1, <1>8, <1>9, <2>1 DEF KnownThere, Store
<1> QED
  BY <1>5, <1>6, <1>7, <1>10, <1>11, <1>12

\* One flight for a key stays one, whatever a task does.
LEMMA FlightStays ==
  ASSUME MInv, NEW t \in Task, UnderWay(t), NEW where,
         pc' = [pc EXCEPT ![t] = where],
         UNCHANGED <<kind, keyOf>>,
         inFlight' = inFlight \/ (inFlight' = Dropped(t) /\ where = "over")
  PROVE  OneFlight'
<1> USE DEF MInv
<1>1. ASSUME kind # "memoFnAsync", NEW u \in Task, UnderWay(u)', NEW i \in Slots(keyOf[u])
      PROVE  inFlight'[i] = {u}
  <2>1. UnderWay(u) /\ (u = t => where # "over")
    BY <1>1 DEF UnderWay, MemoTypes
  <2>2. inFlight[i] = {u}
    BY <1>1, <2>1 DEF OneFlight
  <2>3. CASE inFlight' = inFlight
    BY <2>2, <2>3
  <2>4. CASE inFlight' = Dropped(t) /\ where = "over"
    <3>1. u # t
      BY <2>1, <2>4
    <3>2. i \notin Slots(keyOf[t])
      BY <1>1, <2>2, <3>1 DEF OneFlight
    <3>3. keyOf[u] \in Key
      BY <2>1 DEF Begun, UnderWay
    <3>4. i \in Key
      BY <1>1, <3>3 DEF Slots
    <3> QED
      BY <2>2, <2>4, <3>2, <3>4 DEF Dropped
  <2> QED
    BY <2>3, <2>4
<1>2. \A k : Slots(k)' = Slots(k)
  BY DEF Slots
<1> QED
  BY <1>1, <1>2 DEF OneFlight

\* The step of a task that ends in where, with its promise settled how.
LEMMA TaskPreserves ==
  ASSUME MInv, NEW t \in Task, UnderWay(t),
         NEW where \in {"running", "setting", "over"},
         NEW how \in {"pending", "value", "undefined", "error"},
         NEW v \in Nat \cup {Miss},
         UNCHANGED unchangedByTasks,
         pc' = [pc EXCEPT ![t] = where],
         outcome' = [outcome EXCEPT ![t] = how],
         value' = [value EXCEPT ![t] = v],
         inFlight' = inFlight \/ (inFlight' = Dropped(t) /\ where = "over"),
         where = "running" => how = "pending",
         where # "over" => v \in Nat /\ v >= born[t],
         healthy' => healthy,
         how = "undefined" => kind = "memoFnAsync" /\ ~healthy',
         how = "value" => v \in Nat /\ (~(SharedStore /\ overlapped) => v >= born[t]),
         cached' \in [0..MaxClears -> [Key -> Nat \cup {Miss}]],
         known' \subseteq Key, clearing # "no" => known' = known
  PROVE  /\ MemoTypes' /\ Clears' /\ Begun' /\ Settled' /\ OneFlight'
         /\ cached' = cached => StoresCurrent'
<1> USE DEF MInv
<1> USE MemoAssumption, TaskNumbers
<1>1. UNCHANGED <<kind, persistent, made, ended, clearing, keyOf, cacheOf, calls, joined,
                  waiting, cleared, since, born, overlapped>>
  BY DEF unchangedByTasks
<1>2. inFlight' \in [Key -> SUBSET Task]
  BY DEF MemoTypes, Dropped
<1>3. MemoTypes'
  BY <1>1, <1>2 DEF MemoTypes
<1>4. Clears'
  BY <1>1 DEF Clears, Horizon
<1>5. Begun'
  <2>1. \A u \in Task : u # t => pc'[u] = pc[u] /\ outcome'[u] = outcome[u] /\ value'[u] = value[u]
    BY DEF MemoTypes
  <2>2. pc'[t] = where /\ outcome'[t] = how /\ value'[t] = v
    BY DEF MemoTypes
  <2>3. pc[t] # "none"
    BY DEF UnderWay
  <2> QED
    BY <1>1, <2>1, <2>2, <2>3 DEF Begun
<1>6. Settled'
  <2>1. \A u \in Task : u # t => outcome'[u] = outcome[u] /\ value'[u] = value[u]
    BY DEF MemoTypes
  <2>2. outcome'[t] = how /\ value'[t] = v
    BY DEF MemoTypes
  <2> QED
    BY <1>1, <2>1, <2>2 DEF Settled, SharedStore
<1>7. OneFlight'
  BY <1>1, FlightStays
<1>8. cached' = cached => StoresCurrent'
  <2>1. \A u \in Task : UnderWay(u)' => UnderWay(u)
    BY DEF UnderWay, MemoTypes
  <2> QED
    BY <1>1, <2>1 DEF StoresCurrent, SharedStore
<1> QED
  BY <1>3, <1>4, <1>5, <1>6, <1>7, <1>8

\* What is known stays in the cache, or on its way, when t is not about to
\* have its value there.
LEMMA KnownStays ==
  ASSUME MInv, NEW t \in Task, UnderWay(t), pc[t] # "setting", NEW where,
         pc' = [pc EXCEPT ![t] = where],
         UNCHANGED <<kind, persistent, ended, keyOf, cacheOf, cached, known>>, healthy' => healthy
  PROVE  KnownThere'
<1> USE DEF MInv
<1>1. \A u \in Task : (UnderWay(u)' => UnderWay(u)) /\ (pc[u] = "setting" => pc'[u] = "setting")
  BY DEF UnderWay, MemoTypes
<1>2. UNCHANGED Store(ended)
  BY DEF Store
<1> QED
  BY <1>1, <1>2 DEF KnownThere

LEMMA HitPreserves ==
  ASSUME MInv, NEW t \in Task, Hit(t)
  PROVE  MInv'
<1> USE DEF MInv
<1>1. PICK v : v = cached[Store(cacheOf[t])][keyOf[t]]
  OBVIOUS
<1>2. /\ pc[t] = "getting" /\ v # Miss
      /\ value' = [value EXCEPT ![t] = v]
      /\ pc' = [pc EXCEPT ![t] = "over"]
      /\ outcome' = [outcome EXCEPT ![t] = "value"]
      /\ inFlight' = Dropped(t)
      /\ UNCHANGED unchangedByTasks /\ UNCHANGED <<cached, known, healthy>>
  BY <1>1 DEF Hit, Task_
<1>3. /\ UnderWay(t) /\ keyOf[t] \in Key /\ cacheOf[t] \in 0..MaxClears /\ cacheOf[t] <= ended
      /\ born[t] = cacheOf[t] /\ 0 \in 0..MaxClears
  BY <1>2, MemoAssumption DEF UnderWay, Begun, MemoTypes
<1>4. v \in Nat
  <2>1. Store(cacheOf[t]) \in 0..MaxClears
    BY <1>3, Stores
  <2> QED
    BY <1>1, <1>2, <1>3, <2>1 DEF MemoTypes
<1>5. ~(SharedStore /\ overlapped) => v >= born[t]
  <2>1. CASE ~SharedStore
    BY <1>1, <1>2, <1>3, <2>1, Stores DEF StoresCurrent
  <2>2. CASE SharedStore /\ ~overlapped
    BY <1>1, <1>2, <1>3, <2>2, Stores DEF StoresCurrent
  <2> QED
    BY <2>1, <2>2
<1>6. cached' \in [0..MaxClears -> [Key -> Nat \cup {Miss}]] /\ known' \subseteq Key
  BY <1>2 DEF MemoTypes
<1>7. MemoTypes' /\ Clears' /\ Begun' /\ Settled' /\ OneFlight' /\ StoresCurrent'
  BY <1>2, <1>3, <1>4, <1>5, <1>6, TaskPreserves
<1>8. KnownThere'
  BY <1>2, <1>3, KnownStays DEF unchangedByTasks
<1> QED
  BY <1>7, <1>8

LEMMA RunPreserves ==
  ASSUME MInv, NEW t \in Task, Run(t)
  PROVE  MInv'
<1> USE DEF MInv
<1>1. PICK v : v = cleared
  OBVIOUS
<1>2. /\ pc[t] = "getting"
      /\ value' = [value EXCEPT ![t] = v]
      /\ pc' = [pc EXCEPT ![t] = "running"]
      /\ outcome' = [outcome EXCEPT ![t] = "pending"]
      /\ inFlight' = inFlight
      /\ UNCHANGED unchangedByTasks /\ UNCHANGED <<cached, known>>
  BY <1>1 DEF Run, Task_
<1>3. healthy' => healthy
  BY DEF Run
<1>4. UnderWay(t) /\ v \in Nat /\ v >= born[t]
  BY <1>1, <1>2, MemoAssumption DEF UnderWay, Begun, MemoTypes, Clears, Horizon
<1>5. cached' \in [0..MaxClears -> [Key -> Nat \cup {Miss}]] /\ known' \subseteq Key
  BY <1>2 DEF MemoTypes
<1>6. MemoTypes' /\ Clears' /\ Begun' /\ Settled' /\ OneFlight' /\ StoresCurrent'
  BY <1>2, <1>3, <1>4, <1>5, TaskPreserves
<1>7. KnownThere'
  BY <1>2, <1>3, <1>4, KnownStays DEF unchangedByTasks
<1> QED
  BY <1>6, <1>7

LEMMA GetFailsPreserves ==
  ASSUME MInv, NEW t \in Task, GetFails(t)
  PROVE  MInv'
<1> USE DEF MInv
<1>1. PICK v : v = value[t]
  OBVIOUS
<1>2. /\ pc[t] = "getting" /\ kind = "memoFnAsync" /\ healthy' = FALSE
      /\ pc' = [pc EXCEPT ![t] = "over"]
      /\ outcome' = [outcome EXCEPT ![t] = "undefined"]
      /\ inFlight' = inFlight
      /\ UNCHANGED unchangedByTasks /\ UNCHANGED <<cached, value, known>>
  BY DEF GetFails, Task_
<1>3. UnderWay(t) /\ v \in Nat \cup {Miss} /\ value' = [value EXCEPT ![t] = v]
  BY <1>1, <1>2 DEF UnderWay, MemoTypes
<1>4. cached' \in [0..MaxClears -> [Key -> Nat \cup {Miss}]] /\ known' \subseteq Key
  BY <1>2 DEF MemoTypes
<1>5. MemoTypes' /\ Clears' /\ Begun' /\ Settled' /\ OneFlight' /\ StoresCurrent'
  BY <1>2, <1>3, <1>4, TaskPreserves
<1>6. KnownThere'
  BY <1>2 DEF KnownThere, unchangedByTasks
<1> QED
  BY <1>5, <1>6

LEMMA FnRejectsPreserves ==
  ASSUME MInv, NEW t \in Task, FnRejects(t)
  PROVE  MInv'
<1> USE DEF MInv
<1>1. PICK v, where : v = value[t] /\ where = IF kind = "swarmSafe" THEN "setting" ELSE "over"
  OBVIOUS
<1>2. /\ pc[t] = "running"
      /\ pc' = [pc EXCEPT ![t] = where]
      /\ outcome' = [outcome EXCEPT ![t] = "error"]
      /\ inFlight' = inFlight \/ (inFlight' = Dropped(t) /\ where = "over")
      /\ UNCHANGED unchangedByTasks /\ UNCHANGED <<cached, value, known, healthy>>
  BY <1>1 DEF FnRejects, Task_
<1>3. UnderWay(t) /\ v \in Nat /\ v >= born[t] /\ value' = [value EXCEPT ![t] = v]
  BY <1>1, <1>2 DEF UnderWay, MemoTypes, Begun
<1>4. cached' \in [0..MaxClears -> [Key -> Nat \cup {Miss}]] /\ known' \subseteq Key
  BY <1>2 DEF MemoTypes
<1>5. MemoTypes' /\ Clears' /\ Begun' /\ Settled' /\ OneFlight' /\ StoresCurrent'
  BY <1>1, <1>2, <1>3, <1>4, TaskPreserves
<1>6. KnownThere'
  BY <1>2, <1>3, KnownStays DEF unchangedByTasks
<1> QED
  BY <1>5, <1>6

\* Two tasks under way have two keys.
LEMMA OwnKeys ==
  ASSUME MInv, kind = "asyncMemo", NEW t \in Task, NEW u \in Task,
         UnderWay(t), UnderWay(u), keyOf[t] = keyOf[u]
  PROVE  t = u
<1>1. keyOf[t] \in Slots(keyOf[t])
  BY DEF Slots
<1> QED
  BY <1>1 DEF MInv, OneFlight

LEMMA FnResolvesPreserves ==
  ASSUME MInv, NEW t \in Task, FnResolves(t)
  PROVE  MInv'
<1> USE DEF MInv
<1>1. PICK v : v = value[t]
  OBVIOUS
<1>2. /\ pc[t] = "running"
      /\ pc' = [pc EXCEPT ![t] = "setting"]
      /\ outcome' = [outcome EXCEPT ![t] = "value"]
      /\ inFlight' = inFlight
      /\ UNCHANGED unchangedByTasks /\ UNCHANGED <<cached, value, healthy>>
      /\ known' = IF clearing = "no" /\ cacheOf[t] = ended THEN known \cup {keyOf[t]} ELSE known
  BY DEF FnResolves, Task_, Kept
<1>3. UnderWay(t) /\ v \in Nat /\ v >= born[t] /\ value' = [value EXCEPT ![t] = v] /\ keyOf[t] \in Key
  BY <1>1, <1>2 DEF UnderWay, MemoTypes, Begun
<1>4. cached' \in [0..MaxClears -> [Key -> Nat \cup {Miss}]] /\ known' \subseteq Key
      /\ (clearing # "no" => known' = known)
  BY <1>2, <1>3 DEF MemoTypes
<1>5. MemoTypes' /\ Clears' /\ Begun' /\ Settled' /\ OneFlight' /\ StoresCurrent'
  BY <1>1, <1>2, <1>3, <1>4, TaskPreserves
<1>6. KnownThere'
  <2>1. UNCHANGED <<kind, persistent, ended, keyOf, cacheOf, cached, healthy>> /\ UNCHANGED Store(ended)
    BY <1>2 DEF unchangedByTasks, Store
  <2>2. \A u \in Task : (UnderWay(u)' => UnderWay(u)) /\ (pc[u] = "setting" => pc'[u] = "setting")
    BY <1>2 DEF UnderWay, MemoTypes
  <2>3. pc'[t] = "setting"
    BY <1>2 DEF MemoTypes
  <2>4. kind = "asyncMemo" => \A u \in Task : UnderWay(u) /\ keyOf[u] = keyOf[t] => u = t
    BY <1>3, OwnKeys
  <2> QED
    BY <1>2, <2>1, <2>2, <2>3, <2>4 DEF KnownThere
<1> QED
  BY <1>5, <1>6

LEMMA OverPreserves ==
  ASSUME MInv, NEW t \in Task, Over(t)
  PROVE  MInv'
<1> USE DEF MInv
<1>1. PICK v, how, g, k : v = value[t] /\ how = outcome[t] /\ g = Store(cacheOf[t]) /\ k = keyOf[t]
  OBVIOUS
<1>2. /\ pc[t] = "setting"
      /\ pc' = [pc EXCEPT ![t] = "over"]
      /\ outcome' = [outcome EXCEPT ![t] = how]
      /\ inFlight' = Dropped(t)
      /\ UNCHANGED unchangedByTasks /\ UNCHANGED <<value, known>>
  BY <1>1 DEF Over, Task_
<1>3. \/ cached' = [cached EXCEPT ![g][k] = v] /\ UNCHANGED healthy
      \/ cached' = cached /\ healthy' = FALSE
      \/ cached' = cached /\ UNCHANGED healthy /\ kind = "swarmSafe"
  BY <1>1 DEF Over
<1>4. /\ UnderWay(t) /\ v \in Nat /\ v >= born[t] /\ value' = [value EXCEPT ![t] = v] /\ k \in Key
      /\ cacheOf[t] \in 0..MaxClears /\ born[t] = cacheOf[t] /\ 0 \in 0..MaxClears
      /\ how \in {"pending", "value", "undefined", "error"}
  BY <1>1, <1>2, MemoAssumption DEF UnderWay, MemoTypes, Begun
<1>5. g \in 0..MaxClears
  BY <1>1, <1>4, Stores
<1>6. cached' \in [0..MaxClears -> [Key -> Nat \cup {Miss}]] /\ known' \subseteq Key
  <2>1. cached \in [0..MaxClears -> [Key -> Nat \cup {Miss}]] /\ known \subseteq Key
    BY DEF MemoTypes
  <2>2. [cached EXCEPT ![g][k] = v] \in [0..MaxClears -> [Key -> Nat \cup {Miss}]]
    BY <1>4, <1>5, <2>1
  <2> QED
    BY <1>2, <1>3, <2>1, <2>2
<1>7. /\ how = "undefined" => kind = "memoFnAsync" /\ ~healthy'
      /\ how = "value" => v >= born[t]
      /\ healthy' => healthy
  BY <1>1, <1>3, <1>4 DEF Settled
<1>8. /\ MemoTypes' /\ Clears' /\ Begun' /\ Settled' /\ OneFlight'
      /\ cached' = cached => StoresCurrent'
  BY <1>2, <1>4, <1>6, <1>7, TaskPreserves
<1>9. UNCHANGED <<kind, persistent, ended, keyOf, cacheOf, clearing, overlapped>> /\ UNCHANGED Store(ended)
  BY <1>2 DEF unchangedByTasks, Store
<1>10. \A u \in Task : /\ UnderWay(u)' => UnderWay(u)
                       /\ u # t /\ pc[u] = "setting" => pc'[u] = "setting"
  BY <1>2 DEF UnderWay, MemoTypes
<1>11. CASE cached' = [cached EXCEPT ![g][k] = v] /\ UNCHANGED healthy
  <2>1. \A h \in 0..MaxClears : \A i \in Key : cached'[h][i] = IF h = g /\ i = k THEN v ELSE cached[h][i]
    BY <1>4, <1>5, <1>11 DEF MemoTypes
  <2>2. ~SharedStore => v >= g
    BY <1>1, <1>4, Stores
  <2>3. SharedStore /\ ~overlapped => clearing = "no" /\ v >= ended
    BY <1>4 DEF StoresCurrent
  <2>4. StoresCurrent'
    BY <1>4, <1>9, <1>10, <2>1, <2>2, <2>3 DEF StoresCurrent, SharedStore
  <2>5. v # Miss
    BY <1>4, MemoAssumption
  <2>6. Store(ended) \in 0..MaxClears
    BY <1>4, Stores DEF MemoTypes
  <2>7. KnownThere'
    <3>1. ASSUME kind = "asyncMemo", healthy, NEW i \in known
          PROVE  \/ cached'[Store(ended)][i] # Miss
                 \/ \E u \in Task : pc'[u] = "setting" /\ keyOf[u] = i /\ cacheOf[u] = ended
      <4>1. i \in Key
        BY <3>1 DEF MemoTypes
      <4>2. CASE cached[Store(ended)][i] # Miss
        BY <2>1, <2>5, <2>6, <4>1, <4>2
      <4>3. ASSUME NEW u \in Task, pc[u] = "setting", keyOf[u] = i, cacheOf[u] = ended
            PROVE  \/ cached'[Store(ended)][i] # Miss
                   \/ pc'[u] = "setting"
        <5>1. CASE u = t
          BY <1>1, <2>1, <2>5, <2>6, <4>1, <4>3, <5>1
        <5> QED
          BY <1>10, <4>3, <5>1
      <4> QED
        BY <3>1, <4>2, <4>3 DEF KnownThere
    <3> QED
      BY <1>2, <1>9, <1>10, <1>11, <3>1 DEF KnownThere
  <2> QED
    BY <1>8, <2>4, <2>7
<1>12. CASE cached' = cached /\ (~healthy' \/ kind = "swarmSafe")
  <2>1. KnownThere'
    BY <1>2, <1>9, <1>10, <1>12 DEF KnownThere
  <2> QED
    BY <1>8, <1>12, <2>1
<1> QED
  BY <1>3, <1>11, <1>12

\* A clear(), from beginning to end.
LEMMA ClearPreserves ==
  ASSUME MInv, Clear \/ ClearExecuted \/ ClearEnds \/ ClearFails
  PROVE  MInv'
<1> USE DEF MInv
<1> USE MemoAssumption
<1>1. /\ UNCHANGED <<kind, persistent, pc, keyOf, cacheOf, value, outcome, inFlight, calls, joined, since, born>>
      /\ healthy' => healthy
      /\ overlapped => overlapped'
  <2>1. UNCHANGED <<kind, persistent, pc, keyOf, cacheOf, value, outcome, inFlight, calls, joined, since, born>>
    BY DEF Clear, ClearExecuted, ClearEnds, ClearFails, unchangedByClear
  <2>2. healthy' => healthy
    BY DEF Clear, ClearExecuted, ClearEnds, ClearFails, unchangedByClear
  <2>3. overlapped => overlapped'
    BY DEF Clear, ClearExecuted, ClearEnds, ClearFails
  <2> QED
    BY <2>1, <2>2, <2>3
<1>2. (\A u : UNCHANGED UnderWay(u)) /\ (\A k : UNCHANGED Slots(k)) /\ UNCHANGED SharedStore
  BY <1>1 DEF UnderWay, Slots, SharedStore
<1>3. OneFlight'
  BY <1>1, <1>2 DEF OneFlight
<1>4. Settled'
  BY <1>1, <1>2 DEF Settled
<1>5. 0 \in 0..MaxClears /\ Store(ended) \in 0..MaxClears
  <2>1. ended \in 0..MaxClears
    BY DEF MemoTypes
  <2> QED
    BY <2>1, Stores
<1>6. CASE Clear
  <2>1. /\ kind # "swarmSafe" /\ clearing = "no" /\ ended < MaxClears
        /\ clearing' = "asked" /\ known' = {}
        /\ UNCHANGED <<cached, ended, cleared, healthy>>
    BY <1>6 DEF Clear, unchangedByClear
  <2>2. overlapped' = (overlapped \/ \E t \in Task : UnderWay(t))
    BY <1>6 DEF Clear
  <2>3. MemoTypes' /\ Clears'
    BY <1>1, <2>1 DEF MemoTypes, Clears, Horizon
  <2>4. Begun'
    BY <1>1, <2>1 DEF Begun
  <2>5. StoresCurrent'
    BY <1>2, <2>1, <2>2 DEF StoresCurrent
  <2>6. KnownThere'
    BY <2>1 DEF KnownThere
  <2> QED
    BY <1>3, <1>4, <2>3, <2>4, <2>5, <2>6
<1>7. CASE ClearExecuted
  <2>1. /\ clearing = "asked" /\ clearing' = "executed" /\ cleared' = cleared + 1
        /\ cached' = [cached EXCEPT ![Store(ended)] = [k \in Key |-> Miss]]
        /\ UNCHANGED <<known, ended, overlapped>>
    BY <1>7 DEF ClearExecuted
  <2>2. MemoTypes' /\ Clears'
    <3>1. cached' \in [0..MaxClears -> [Key -> Nat \cup {Miss}]]
      BY <1>5, <2>1 DEF MemoTypes
    <3> QED
      BY <1>1, <2>1, <3>1 DEF MemoTypes, Clears, Horizon
  <2>3. Begun'
    BY <1>1, <2>1 DEF Begun
  <2>4. \A g \in 0..MaxClears : \A k \in Key : cached'[g][k] = IF g = Store(ended) THEN Miss ELSE cached[g][k]
    BY <2>1, <1>5 DEF MemoTypes
  <2>5. StoresCurrent'
    <3>1. CASE SharedStore
      BY <1>2, <1>5, <2>1, <2>4, <3>1, Stores DEF StoresCurrent
    <3>2. CASE ~SharedStore
      BY <1>2, <2>4, <3>2 DEF StoresCurrent
    <3> QED
      BY <3>1, <3>2
  <2>6. KnownThere'
    BY <2>1 DEF KnownThere, Clears
  <2> QED
    BY <1>3, <1>4, <2>2, <2>3, <2>5, <2>6
<1>8. CASE ClearEnds
  <2>1. /\ clearing = "executed" /\ clearing' = "no" /\ ended' = ended + 1
        /\ UNCHANGED <<cached, cleared, known, overlapped, healthy>>
    BY <1>8 DEF ClearEnds, unchangedByClear, NextCache
  <2>2. MemoTypes' /\ Clears'
    BY <1>1, <2>1 DEF MemoTypes, Clears, Horizon
  <2>3. Begun'
    BY <1>1, <2>1 DEF Begun, MemoTypes
  <2>4. StoresCurrent'
    BY <1>2, <2>1 DEF StoresCurrent
  <2>5. KnownThere'
    BY <2>1 DEF KnownThere, Clears
  <2> QED
    BY <1>3, <1>4, <2>2, <2>3, <2>4, <2>5
<1>9. CASE ClearFails
  <2>1. /\ clearing = "asked" /\ clearing' = "no" /\ healthy' = FALSE
        /\ UNCHANGED <<ended, cached, cleared, known, overlapped>>
    BY <1>9 DEF ClearFails
  <2>2. MemoTypes' /\ Clears'
    BY <1>1, <2>1 DEF MemoTypes, Clears, Horizon
  <2>3. Begun'
    BY <1>1, <2>1 DEF Begun
  <2>4. StoresCurrent'
    BY <1>1, <1>2, <2>1 DEF StoresCurrent
  <2>5. KnownThere'
    BY <2>1 DEF KnownThere, Clears
  <2> QED
    BY <1>3, <1>4, <2>2, <2>3, <2>4, <2>5
<1> QED
  BY <1>6, <1>7, <1>8, <1>9

LEMMA MemoStep == MInv /\ [MemoNext]_memoVars => MInv'
<1> SUFFICES ASSUME MInv, [MemoNext]_memoVars
             PROVE  MInv'
  OBVIOUS
<1>1. CASE UNCHANGED memoVars
  <2> USE <1>1 DEF memoVars, MInv
  <2>1. MemoTypes' /\ Clears' /\ Begun'
    BY DEF MemoTypes, Clears, Horizon, Begun
  <2>2. StoresCurrent' /\ Settled'
    BY DEF StoresCurrent, Settled, SharedStore, UnderWay
  <2>3. OneFlight' /\ KnownThere'
    BY DEF OneFlight, KnownThere, UnderWay, Slots, Store
  <2> QED
    BY <2>1, <2>2, <2>3
<1>2. ASSUME NEW c \in Caller, Answer(c) \/ \E k \in Key : Join(c, k)
      PROVE  MInv'
  BY <1>2, CallerPreserves
<1>3. ASSUME NEW c \in Caller, NEW k \in Key, Start(c, k)
      PROVE  MInv'
  BY <1>3, StartPreserves
<1>4. ASSUME NEW t \in Task, Hit(t) \/ Run(t) \/ GetFails(t) \/ FnResolves(t) \/ FnRejects(t) \/ Over(t)
      PROVE  MInv'
  BY <1>4, HitPreserves, RunPreserves, GetFailsPreserves, FnResolvesPreserves, FnRejectsPreserves, OverPreserves
<1>5. CASE Clear \/ ClearExecuted \/ ClearEnds \/ ClearFails
  BY <1>5, ClearPreserves
<1> QED
  BY <1>1, <1>2, <1>3, <1>4, <1>5 DEF MemoNext

LEMMA AlwaysMInv == MemoSpec => []MInv
  BY MInit, MemoStep, PTL DEF MemoSpec

(* An answer is never from before the last clear() that had ended when it   *)
(* was asked for, unless a call joined an older one or a store outlives the *)
(* clear and something was under way meanwhile.                             *)
THEOREM AlwaysAnswersAreCurrent == MemoSpec => []AnswersAreCurrent
<1>1. MInv => AnswersAreCurrent
  <2> SUFFICES ASSUME MInv, NEW c \in Caller, joined[c] # 0, outcome[joined[c]] # "pending"
               PROVE  LET t == joined[c] IN
                        /\ outcome[t] = "undefined" => kind = "memoFnAsync" /\ ~healthy
                        /\ outcome[t] = "value" => value[t] # Miss
                        /\ outcome[t] = "value" /\ value[t] < since[c] =>
                             \/ born[t] < since[c]
                             \/ overlapped /\ (persistent \/ kind = "memoFnAsync")
    BY DEF AnswersAreCurrent
  <2>1. PICK t : t = joined[c]
    OBVIOUS
  <2>2. t \in Task /\ since[c] \in Nat /\ born[t] \in Nat
    BY <2>1, MemoAssumption DEF MInv, MemoTypes, Task
  <2>3. /\ outcome[t] = "undefined" => kind = "memoFnAsync" /\ ~healthy
        /\ outcome[t] = "value" => /\ value[t] \in Nat
                                   /\ ~(SharedStore /\ overlapped) => value[t] >= born[t]
    BY <2>2 DEF MInv, Settled
  <2> QED
    BY <2>1, <2>2, <2>3, MemoAssumption DEF SharedStore
<1> QED
  BY <1>1, AlwaysMInv, PTL

(* The function is not run for a key it is being run for, nor, where the    *)
(* cache works, for one it has been run for since the last clear().         *)
THEOREM AlwaysComputedOnce == MemoSpec => ComputedOnce
<1> DEFINE OnceMore(t) == ~Running(t) /\ Running(t)' /\ kind # "memoFnAsync" =>
         /\ \A u \in Task : keyOf'[t] \in Slots(keyOf[u]) => ~Running(u)
         /\ kind = "asyncMemo" /\ healthy' => keyOf'[t] \notin known
<1>1. MInv /\ [MemoNext]_memoVars => [\A t \in Task : OnceMore(t)]_memoVars
  <2> SUFFICES ASSUME MInv, MemoNext, NEW t \in Task, ~Running(t), Running(t)', kind # "memoFnAsync"
               PROVE  /\ \A u \in Task : keyOf'[t] \in Slots(keyOf[u]) => ~Running(u)
                      /\ kind = "asyncMemo" /\ healthy' => keyOf'[t] \notin known
    OBVIOUS
  <2> USE DEF MInv
  <2>1. CASE Run(t)
    <3>1. /\ pc[t] = "getting" /\ keyOf' = keyOf /\ UnderWay(t)
      BY <2>1 DEF Run, unchangedByTasks, UnderWay
    <3>2. keyOf[t] \in Key
      BY <3>1 DEF Begun
    <3>3. ASSUME NEW u \in Task, keyOf[t] \in Slots(keyOf[u]), Running(u)
          PROVE  FALSE
      <4>1. inFlight[keyOf[t]] = {u}
        BY <3>3 DEF OneFlight, Running, UnderWay
      <4>2. inFlight[keyOf[t]] = {t}
        BY <3>1, <3>2 DEF OneFlight, Slots
      <4> QED
        BY <3>1, <3>3, <4>1, <4>2 DEF Running
    <3>4. ASSUME kind = "asyncMemo", healthy', keyOf[t] \in known
          PROVE  FALSE
      <4>1. healthy /\ cached[Store(cacheOf[t])][keyOf[t]] = Miss
        BY <2>1, <3>4 DEF Run
      <4>2. cacheOf[t] = ended
        BY <3>1, <3>4 DEF KnownThere
      <4>3. PICK u \in Task : pc[u] = "setting" /\ keyOf[u] = keyOf[t]
        BY <3>4, <4>1, <4>2 DEF KnownThere
      <4> QED
        BY <3>1, <3>4, <4>3, OwnKeys DEF UnderWay
    <3> QED
      BY <3>1, <3>3, <3>4
  <2>2. ASSUME NEW c \in Caller, NEW k \in Key, Start(c, k)
        PROVE  /\ \A u \in Task : keyOf'[t] \in Slots(keyOf[u]) => ~Running(u)
               /\ kind = "asyncMemo" /\ healthy' => keyOf'[t] \notin known
    <3>1. /\ pc' = [pc EXCEPT ![calls + 1] = IF kind = "swarmSafe" THEN "running" ELSE "getting"]
          /\ inFlight[k] = {}
      BY <2>2 DEF Start
    <3>2. kind = "swarmSafe"
      BY <3>1 DEF Running, MemoTypes
    <3>3. \A u \in Task : ~Running(u)
      BY <3>1, <3>2 DEF OneFlight, Running, UnderWay, Slots
    <3> QED
      BY <3>2, <3>3
  <2>3. ASSUME \/ \E c \in Caller : Answer(c) \/ \E k \in Key : Join(c, k)
               \/ Clear \/ ClearExecuted \/ ClearEnds \/ ClearFails
        PROVE  FALSE
    BY <2>3 DEF Answer, Join, Clear, ClearExecuted, ClearEnds, ClearFails, unchangedByClear, Running
  <2>4. ASSUME NEW u \in Task, Hit(u) \/ GetFails(u) \/ FnResolves(u) \/ FnRejects(u) \/ Over(u) \/ (Run(u) /\ u # t)
        PROVE  FALSE
    <3>1. \E where \in {"over", "setting", "running"} : pc' = [pc EXCEPT ![u] = where] /\ (where = "running" => u # t)
      BY <2>4 DEF Hit, GetFails, FnResolves, FnRejects, Over, Run, Task_
    <3> QED
      BY <3>1 DEF Running, MemoTypes
  <2> QED
    BY <2>1, <2>2, <2>3, <2>4 DEF MemoNext
<1> QED
  BY <1>1, AlwaysMInv, PTL DEF MemoSpec, ComputedOnce

-----------------------------------------------------------------------------
(* The pool of worker threads.                                               *)
Message == [index : Index, result : Index \cup {None}]

PoolTypes ==
  /\ index \in Int /\ -1 <= index /\ index < MaxChunks
  /\ messageDone \in [Index -> {"none", "pending", "settled", "deleted"}]
  /\ result \in [Index -> Index \cup {None}]
  /\ toWorker \in [Worker -> Seq(Index \cup {Null})]
  /\ fromWorker \in [Worker -> Seq(Message)]
  /\ processing \in [Worker -> SUBSET Index]
  /\ worker \in [Worker -> {"running", "closed", "exited", "gone"}]
  /\ workerDone \in [Worker -> {"pending", "resolved", "rejected"}]
  /\ final \in {"no", "waiting", "ended", "failed"}
  /\ output \in [Index -> SUBSET (Index \cup {None})]
  /\ deaths \in Nat
  /\ erred \subseteq Worker

\* What is in a queue.
Items(q) == {q[k] : k \in 1..Len(q)}

\* No result is taken for another's.
OwnOnly ==
  /\ \A w \in Worker : \A m \in Items(fromWorker[w]) : m.result \in {m.index, None}
  /\ \A i \in Index : result[i] \in {i, None} /\ output[i] \subseteq {i, None}

\* What will bring the result of the i-th chunk is there.
Coming(i) ==
  \/ messageDone[i] = "settled"
  \/ \E w \in Worker : \/ i \in Items(toWorker[w]) \/ i \in processing[w]
                       \/ \E m \in Items(fromWorker[w]) : m.index = i

\* Until the end every worker is there, none is told to close, and every
\* chunk gets its result.
NoneForgotten ==
  deaths = 0 =>
    /\ final = "no" => \A w \in Worker : worker[w] = "running" /\ Null \notin Items(toWorker[w])
    /\ \A i \in Taken : CalledBack(i) \/ Coming(i)

\* The end waits for all chunks and workers.
EndsLast ==
  /\ final # "no" => \A i \in Taken : CalledBack(i)
  /\ final = "ended" => \A w \in Worker : workerDone[w] = "resolved"
  /\ \A w \in Worker : /\ workerDone[w] = "resolved" => worker[w] = "gone"
                       /\ w \in erred => workerDone[w] = "rejected"

IInv == PoolTypes /\ OwnOnly /\ NoneForgotten /\ EndsLast

-----------------------------------------------------------------------------
LEMMA EmptyItems == Items(<<>>) = {} /\ \A S : <<>> \in Seq(S)
<1>1. Len(<<>>) = 0 /\ 1..0 = {} /\ \A S : <<>> \in Seq(S)
  OBVIOUS
<1> QED
  BY <1>1 DEF Items

LEMMA AppendItems ==
  ASSUME NEW S, NEW q \in Seq(S), NEW m \in S
  PROVE  Append(q, m) \in Seq(S) /\ Items(Append(q, m)) = Items(q) \cup {m}
<1> DEFINE more == Append(q, m)
           n == Len(q)
<1>1. n \in Nat /\ more \in Seq(S) /\ Len(more) = n + 1 /\ more[n + 1] = m
      /\ \A k \in 1..n : more[k] = q[k]
  OBVIOUS
<1> HIDE DEF more
<1>2. \A k \in 1..(n + 1) : k = n + 1 \/ k \in 1..n
  BY <1>1
<1>3. \A k \in 1..n : k \in 1..(n + 1)
  BY <1>1
<1>4. n + 1 \in 1..(n + 1)
  BY <1>1
<1> HIDE DEF n
<1>5. ASSUME NEW x \in Items(more)
      PROVE  x \in Items(q) \cup {m}
  <2>1. PICK k \in 1..(n + 1) : x = more[k]
    BY <1>1 DEF Items
  <2> QED
    BY <1>1, <1>2, <2>1 DEF Items, n
<1>6. ASSUME NEW x \in Items(q) \cup {m}
      PROVE  x \in Items(more)
  <2>1. CASE x = m
    BY <1>1, <1>4, <2>1 DEF Items
  <2>2. CASE x \in Items(q)
    <3>1. PICK k \in 1..n : x = q[k]
      BY <2>2 DEF Items, n
    <3> QED
      BY <1>1, <1>3, <3>1 DEF Items
  <2> QED
    BY <1>6, <2>1, <2>2
<1> QED
  BY <1>1, <1>5, <1>6 DEF more

LEMMA TailItems ==
  ASSUME NEW S, NEW q \in Seq(S), q # <<>>
  PROVE  Head(q) \in S /\ Tail(q) \in Seq(S) /\ Items(q) = {Head(q)} \cup Items(Tail(q))
<1> DEFINE rest == Tail(q)
           n == Len(q)
<1>1. n \in Nat /\ n # 0 /\ rest \in Seq(S) /\ Len(rest) = n - 1 /\ Head(q) = q[1]
      /\ Head(q) \in S /\ \A k \in 1..(n - 1) : rest[k] = q[k + 1]
  OBVIOUS
<1> HIDE DEF rest
<1>2. 1 \in 1..n /\ \A k \in 1..(n - 1) : k + 1 \in 1..n
  BY <1>1
<1>3. \A k \in 1..n : k = 1 \/ (k - 1 \in 1..(n - 1) /\ (k - 1) + 1 = k)
  BY <1>1
<1> HIDE DEF n
<1>4. ASSUME NEW x \in Items(q)
      PROVE  x \in {Head(q)} \cup Items(rest)
  <2>1. PICK k \in 1..n : x = q[k]
    BY DEF Items, n
  <2>2. CASE k = 1
    BY <1>1, <2>1, <2>2
  <2>3. CASE k - 1 \in 1..(n - 1) /\ (k - 1) + 1 = k
    <3>1. rest[k - 1] = q[(k - 1) + 1]
      BY <1>1, <2>3
    <3>2. x = rest[k - 1]
      BY <2>1, <2>3, <3>1
    <3> QED
      BY <1>1, <2>3, <3>2 DEF Items
  <2> QED
    BY <1>3, <2>2, <2>3
<1>5. ASSUME NEW x \in Items(rest)
      PROVE  x \in Items(q)
  <2>1. PICK k \in 1..(n - 1) : x = rest[k]
    BY <1>1 DEF Items
  <2>2. x = q[k + 1] /\ k + 1 \in 1..n
    BY <1>1, <1>2, <2>1
  <2> QED
    BY <2>2 DEF Items, n
<1>6. Head(q) \in Items(q)
  BY <1>1, <1>2 DEF Items, n
<1> QED
  BY <1>1, <1>4, <1>5, <1>6 DEF rest

LEMMA Indices ==
  /\ MaxChunks \in Nat /\ PoolSize \in Nat /\ PoolSize # 0
  /\ Index \subseteq Nat /\ Null \notin Index /\ None \notin Index
  /\ \A i \in Int : i \in Index <=> 0 <= i /\ i < MaxChunks
  /\ \A i \in Nat : i % PoolSize \in Worker
<1>1. MaxChunks \in Nat /\ PoolSize \in Nat /\ PoolSize # 0 /\ Null \notin Nat
  BY WorkerPoolAssumption
<1>2. \A i \in Nat : i % PoolSize \in Worker
  BY <1>1 DEF Worker
<1> QED
  BY <1>1, <1>2 DEF Index, None

LEMMA InitEstablishes == PoolInit => IInv
<1> SUFFICES ASSUME PoolInit
             PROVE  IInv
  OBVIOUS
<1>1. /\ \A w \in Worker : Items(toWorker[w]) = {} /\ Items(fromWorker[w]) = {}
      /\ Taken = {} /\ \A i \in Index : result[i] = None /\ output[i] = {}
  <2>1. 0..(-1) = {}
    OBVIOUS
  <2> QED
    BY <2>1, EmptyItems DEF PoolInit, Taken
<1>2. PoolTypes
  <2>1. index \in Int /\ -1 <= index /\ index < MaxChunks
    BY Indices DEF PoolInit
  <2> QED
    BY <2>1, EmptyItems DEF PoolInit, PoolTypes
<1>3. OwnOnly /\ NoneForgotten /\ EndsLast
  BY <1>1 DEF PoolInit, OwnOnly, NoneForgotten, EndsLast
<1> QED
  BY <1>2, <1>3 DEF IInv

LEMMA TakePreserves ==
  ASSUME IInv, Take
  PROVE  IInv'
<1> USE DEF IInv
<1>0. PICK j \in Index : j = index + 1
  BY DEF Take
<1> DEFINE w == j % PoolSize
<1>1. /\ final = "no" /\ index' = j /\ j = index + 1 /\ j \in Index
      /\ messageDone' = [messageDone EXCEPT ![j] = "pending"]
      /\ toWorker' = [toWorker EXCEPT ![w] = Post(w, j)]
      /\ UNCHANGED <<result, fromWorker, processing, worker, workerDone, final, output, deaths, erred>>
  BY <1>0 DEF Take
<1>2. w \in Worker /\ j \in Nat /\ j < MaxChunks
  BY <1>1, Indices
<1>3. Taken' = Taken \cup {j}
  BY <1>1, <1>2 DEF Taken, PoolTypes
<1> HIDE DEF w
<1>4. /\ Post(w, j) \in Seq(Index \cup {Null})
      /\ worker[w] = "running" => Items(Post(w, j)) = Items(toWorker[w]) \cup {j}
      /\ Items(Post(w, j)) \subseteq Items(toWorker[w]) \cup {j}
  <2>1. toWorker[w] \in Seq(Index \cup {Null}) /\ j \in Index \cup {Null}
    BY <1>1, <1>2 DEF PoolTypes
  <2>2. Append(toWorker[w], j) \in Seq(Index \cup {Null})
        /\ Items(Append(toWorker[w], j)) = Items(toWorker[w]) \cup {j}
    BY <2>1, AppendItems
  <2> QED
    BY <2>1, <2>2 DEF Post
<1>5. PoolTypes'
  <2>1. toWorker' \in [Worker -> Seq(Index \cup {Null})]
    BY <1>1, <1>2, <1>4 DEF PoolTypes
  <2>2. messageDone' \in [Index -> {"none", "pending", "settled", "deleted"}]
    BY <1>1 DEF PoolTypes
  <2>3. index' \in Int /\ -1 <= index' /\ index' < MaxChunks
    BY <1>1, <1>2
  <2> QED
    BY <1>1, <2>1, <2>2, <2>3 DEF PoolTypes
<1>6. OwnOnly'
  BY <1>1 DEF OwnOnly, Items
<1>7. \A v \in Worker : v # w => toWorker'[v] = toWorker[v]
  BY <1>1 DEF PoolTypes
<1>8. toWorker'[w] = Post(w, j)
  BY <1>1, <1>2 DEF PoolTypes
<1>9. NoneForgotten'
  <2> SUFFICES ASSUME deaths = 0
               PROVE  /\ \A v \in Worker : worker[v] = "running" /\ Null \notin Items(toWorker'[v])
                      /\ \A i \in Taken' : CalledBack(i)' \/ Coming(i)'
    BY <1>1 DEF NoneForgotten, Items
  <2>1. \A v \in Worker : worker[v] = "running" /\ Null \notin Items(toWorker[v])
    BY <1>1 DEF NoneForgotten
  <2>2. Null # j
    BY <1>1, Indices
  <2>3. \A v \in Worker : Null \notin Items(toWorker'[v])
    BY <1>4, <1>7, <1>8, <2>1, <2>2
  <2>4. Items(toWorker'[w]) = Items(toWorker[w]) \cup {j}
    BY <1>2, <1>4, <1>8, <2>1
  <2>5. Coming(j)'
    BY <1>2, <2>4 DEF Coming, Items
  <2>6. ASSUME NEW i \in Taken, i # j
        PROVE  CalledBack(i)' \/ Coming(i)'
    <3>1. i \in Index /\ messageDone'[i] = messageDone[i]
      <4>1. i \in Index
        BY Indices DEF Taken, PoolTypes
      <4> QED
        BY <1>1, <2>6, <4>1 DEF PoolTypes
    <3>2. \A v \in Worker : Items(toWorker[v]) \subseteq Items(toWorker'[v])
      BY <1>7, <2>4
    <3>3. CalledBack(i) \/ Coming(i)
      BY DEF NoneForgotten
    <3>4. CalledBack(i) => CalledBack(i)'
      BY <1>1 DEF CalledBack
    <3>5. Coming(i) => Coming(i)'
      BY <1>1, <3>1, <3>2 DEF Coming, Items
    <3> QED
      BY <3>3, <3>4, <3>5
  <2> QED
    BY <1>3, <2>1, <2>3, <2>5, <2>6
<1>10. EndsLast'
  BY <1>1 DEF EndsLast
<1> QED
  BY <1>5, <1>6, <1>9, <1>10

\* A step that takes no chunk, and brings each one's result closer.
LEMMA CloserPreserves ==
  ASSUME IInv, PoolTypes', OwnOnly', EndsLast', index' = index,
         deaths' = 0 => /\ deaths = 0
                        /\ final' = "no" => \A w \in Worker :
                             worker'[w] = "running" /\ Null \notin Items(toWorker'[w])
                        /\ \A i \in Taken : CalledBack(i) \/ Coming(i) =>
                                              CalledBack(i)' \/ Coming(i)'
  PROVE  IInv'
<1>1. Taken' = Taken
  BY DEF Taken
<1>2. NoneForgotten'
  BY <1>1 DEF IInv, NoneForgotten, Items
<1> QED
  BY <1>2 DEF IInv

LEMMA ReceivePreserves ==
  ASSUME IInv, NEW w \in Worker, Receive(w)
  PROVE  IInv'
<1> USE DEF IInv
<1> DEFINE m == Head(toWorker[w])
<1>1. /\ worker[w] = "running" /\ toWorker[w] # <<>>
      /\ toWorker' = [toWorker EXCEPT ![w] = Tail(toWorker[w])]
      /\ UNCHANGED <<index, messageDone, result, fromWorker, workerDone, final, output, deaths, erred>>
  BY DEF Receive
<1>2. /\ m \in Index \cup {Null} /\ Tail(toWorker[w]) \in Seq(Index \cup {Null})
      /\ Items(toWorker[w]) = {m} \cup Items(Tail(toWorker[w]))
  <2>1. toWorker[w] \in Seq(Index \cup {Null})
    BY DEF PoolTypes
  <2> QED
    BY <1>1, <2>1, TailItems
<1>3. \/ m # Null /\ processing' = [processing EXCEPT ![w] = processing[w] \cup {m}] /\ worker' = worker
      \/ m = Null /\ worker' = [worker EXCEPT ![w] = "closed"] /\ processing' = processing
  BY DEF Receive
<1> HIDE DEF m
<1>4. PoolTypes'
  <2>1. toWorker' \in [Worker -> Seq(Index \cup {Null})]
    BY <1>1, <1>2 DEF PoolTypes
  <2>2. processing' \in [Worker -> SUBSET Index]
    <3>1. CASE m # Null /\ processing' = [processing EXCEPT ![w] = processing[w] \cup {m}]
      <4>1. processing[w] \cup {m} \in SUBSET Index
        BY <1>2, <3>1 DEF PoolTypes
      <4> QED
        BY <3>1, <4>1 DEF PoolTypes
    <3>2. CASE processing' = processing
      BY <3>2 DEF PoolTypes
    <3> QED
      BY <1>3, <3>1, <3>2
  <2>3. worker' \in [Worker -> {"running", "closed", "exited", "gone"}]
    BY <1>3 DEF PoolTypes
  <2> QED
    BY <1>1, <2>1, <2>2, <2>3 DEF PoolTypes
<1>5. OwnOnly'
  BY <1>1 DEF OwnOnly, Items
<1>6. EndsLast'
  <2>1. Taken' = Taken /\ \A i : CalledBack(i)' = CalledBack(i)
    BY <1>1 DEF Taken, CalledBack
  <2>2. \A v \in Worker : worker[v] = "gone" => worker'[v] = "gone"
    BY <1>1, <1>3 DEF PoolTypes
  <2> QED
    BY <1>1, <2>1, <2>2 DEF EndsLast
<1>7. /\ toWorker'[w] = Tail(toWorker[w])
      /\ \A v \in Worker : v # w => toWorker'[v] = toWorker[v] /\ processing'[v] = processing[v]
      /\ processing[w] \subseteq processing'[w]
      /\ m # Null => m \in processing'[w]
  BY <1>1, <1>3 DEF PoolTypes
<1>8. ASSUME deaths = 0, final = "no"
      PROVE  \A v \in Worker : worker'[v] = "running" /\ Null \notin Items(toWorker'[v])
  <2>1. \A v \in Worker : worker[v] = "running" /\ Null \notin Items(toWorker[v])
    BY <1>8 DEF NoneForgotten
  <2>2. m # Null
    BY <1>2, <2>1
  <2> QED
    BY <1>2, <1>3, <1>7, <2>1, <2>2
<1>9. ASSUME NEW i \in Taken, CalledBack(i) \/ Coming(i)
      PROVE  CalledBack(i)' \/ Coming(i)'
  <2>1. i # Null
    BY Indices DEF Taken, PoolTypes
  <2>2. CalledBack(i)' = CalledBack(i)
    BY <1>1 DEF CalledBack
  <2>3. ASSUME NEW v \in Worker, i \in Items(toWorker[v])
        PROVE  i \in Items(toWorker'[v]) \/ i \in processing'[v]
    BY <1>2, <1>7, <2>1, <2>3
  <2>4. \A v \in Worker : processing[v] \subseteq processing'[v]
    BY <1>7
  <2>5. Coming(i) => Coming(i)'
    BY <1>1, <2>3, <2>4 DEF Coming, Items
  <2> QED
    BY <1>9, <2>2, <2>5
<1> QED
  BY <1>1, <1>4, <1>5, <1>6, <1>8, <1>9, CloserPreserves

LEMMA ProcessedPreserves ==
  ASSUME IInv, NEW w \in Worker, NEW i \in Index, Processed(w, i)
  PROVE  IInv'
<1> USE DEF IInv
<1>1. PICK r \in {i, None} :
        fromWorker' = [fromWorker EXCEPT ![w] = Append(fromWorker[w], [index |-> i, result |-> r])]
  BY DEF Processed
<1>2. /\ processing' = [processing EXCEPT ![w] = processing[w] \ {i}]
      /\ UNCHANGED <<index, messageDone, result, toWorker, worker, workerDone, final, output, deaths, erred>>
  BY DEF Processed
<1> DEFINE m == [index |-> i, result |-> r]
<1>3. m \in Message /\ m.index = i /\ m.result \in {m.index, None}
  BY DEF Message
<1> HIDE DEF m
<1>4. Append(fromWorker[w], m) \in Seq(Message)
      /\ Items(Append(fromWorker[w], m)) = Items(fromWorker[w]) \cup {m}
  <2>1. fromWorker[w] \in Seq(Message)
    BY DEF PoolTypes
  <2> QED
    BY <1>3, <2>1, AppendItems
<1>5. fromWorker' = [fromWorker EXCEPT ![w] = Append(fromWorker[w], m)]
  BY <1>1 DEF m
<1>6. fromWorker'[w] = Append(fromWorker[w], m)
      /\ \A v \in Worker : v # w => fromWorker'[v] = fromWorker[v] /\ processing'[v] = processing[v]
  BY <1>2, <1>5 DEF PoolTypes
<1>7. PoolTypes'
  <2>1. fromWorker' \in [Worker -> Seq(Message)]
    BY <1>4, <1>5 DEF PoolTypes
  <2>2. processing' \in [Worker -> SUBSET Index]
    BY <1>2 DEF PoolTypes
  <2> QED
    BY <1>2, <2>1, <2>2 DEF PoolTypes
<1>8. OwnOnly'
  <2>1. ASSUME NEW v \in Worker, NEW x \in Items(fromWorker'[v])
        PROVE  x.result \in {x.index, None}
    <3>1. x = m \/ x \in Items(fromWorker[v])
      BY <1>4, <1>6
    <3> QED
      BY <1>3, <3>1 DEF OwnOnly
  <2> QED
    BY <1>2, <2>1 DEF OwnOnly, Items
<1>9. EndsLast'
  BY <1>2 DEF EndsLast, Taken, CalledBack
<1>10. ASSUME NEW k \in Taken, CalledBack(k) \/ Coming(k)
       PROVE  CalledBack(k)' \/ Coming(k)'
  <2>1. CalledBack(k)' = CalledBack(k)
    BY <1>2 DEF CalledBack
  <2>2. ASSUME NEW v \in Worker, k \in processing[v]
        PROVE  k \in processing'[v] \/ \E x \in Items(fromWorker'[v]) : x.index = k
    <3>1. CASE v = w /\ k = i
      BY <1>3, <1>4, <1>6, <3>1
    <3>2. CASE ~(v = w /\ k = i)
      BY <1>2, <1>6, <2>2, <3>2 DEF PoolTypes
    <3> QED
      BY <3>1, <3>2
  <2>3. \A v \in Worker : Items(fromWorker[v]) \subseteq Items(fromWorker'[v])
    BY <1>4, <1>6
  <2>4. Coming(k) => Coming(k)'
    BY <1>2, <2>2, <2>3 DEF Coming, Items
  <2> QED
    BY <1>10, <2>1, <2>4
<1>11. deaths = 0 /\ final = "no" =>
         \A v \in Worker : worker'[v] = "running" /\ Null \notin Items(toWorker'[v])
  BY <1>2 DEF NoneForgotten
<1> QED
  BY <1>2, <1>7, <1>8, <1>9, <1>10, <1>11, CloserPreserves

LEMMA OnMessagePreserves ==
  ASSUME IInv, NEW w \in Worker, OnMessage(w)
  PROVE  IInv'
<1> USE DEF IInv
<1> DEFINE m == Head(fromWorker[w])
<1>1. /\ fromWorker[w] # <<>>
      /\ fromWorker' = [fromWorker EXCEPT ![w] = Tail(fromWorker[w])]
      /\ messageDone' = [messageDone EXCEPT ![m.index] = "settled"]
      /\ result' = [result EXCEPT ![m.index] = m.result]
      /\ UNCHANGED <<index, toWorker, processing, worker, workerDone, final, output, deaths, erred>>
  BY DEF OnMessage
<1>2. /\ m \in Message /\ Tail(fromWorker[w]) \in Seq(Message)
      /\ Items(fromWorker[w]) = {m} \cup Items(Tail(fromWorker[w]))
  <2>1. fromWorker[w] \in Seq(Message)
    BY DEF PoolTypes
  <2> QED
    BY <1>1, <2>1, TailItems
<1> HIDE DEF m
<1>3. m.index \in Index /\ m.result \in Index \cup {None} /\ m.result \in {m.index, None}
  BY <1>2 DEF Message, OwnOnly
<1>4. fromWorker'[w] = Tail(fromWorker[w])
      /\ \A v \in Worker : v # w => fromWorker'[v] = fromWorker[v]
  BY <1>1 DEF PoolTypes
<1>5. PoolTypes'
  <2>1. fromWorker' \in [Worker -> Seq(Message)]
    BY <1>1, <1>2 DEF PoolTypes
  <2>2. messageDone' \in [Index -> {"none", "pending", "settled", "deleted"}]
    BY <1>1 DEF PoolTypes
  <2>3. result' \in [Index -> Index \cup {None}]
    BY <1>1, <1>3 DEF PoolTypes
  <2> QED
    BY <1>1, <2>1, <2>2, <2>3 DEF PoolTypes
<1>6. OwnOnly'
  <2>1. \A v \in Worker : Items(fromWorker'[v]) \subseteq Items(fromWorker[v])
    BY <1>2, <1>4
  <2>2. \A i \in Index : result'[i] \in {i, None}
    BY <1>1, <1>3 DEF PoolTypes, OwnOnly
  <2>3. \A v \in Worker : \A x \in Items(fromWorker'[v]) : x.result \in {x.index, None}
    BY <2>1 DEF OwnOnly
  <2> QED
    BY <1>1, <2>2, <2>3 DEF OwnOnly, Items
<1>7. EndsLast'
  BY <1>1 DEF EndsLast, Taken, CalledBack
<1>8. ASSUME NEW k \in Taken, CalledBack(k) \/ Coming(k)
      PROVE  CalledBack(k)' \/ Coming(k)'
  <2>1. CalledBack(k)' = CalledBack(k)
    BY <1>1 DEF CalledBack
  <2>2. k \in Index
    BY Indices DEF Taken, PoolTypes
  <2>3. CASE k = m.index
    BY <1>1, <1>3, <2>3 DEF Coming, PoolTypes
  <2>4. CASE k # m.index
    <3>1. messageDone'[k] = messageDone[k]
      BY <1>1, <2>2, <2>4 DEF PoolTypes
    <3>2. ASSUME NEW v \in Worker, NEW x \in Items(fromWorker[v]), x.index = k
          PROVE  x \in Items(fromWorker'[v])
      BY <1>2, <1>4, <2>4, <3>2
    <3>3. Coming(k) => Coming(k)'
      BY <1>1, <3>1, <3>2 DEF Coming, Items
    <3> QED
      BY <1>8, <2>1, <3>3
  <2> QED
    BY <2>3, <2>4
<1>9. deaths = 0 /\ final = "no" =>
        \A v \in Worker : worker'[v] = "running" /\ Null \notin Items(toWorker'[v])
  BY <1>1 DEF NoneForgotten
<1> QED
  BY <1>1, <1>5, <1>6, <1>7, <1>8, <1>9, CloserPreserves

LEMMA CallBackPreserves ==
  ASSUME IInv, NEW i \in Index, CallBack(i)
  PROVE  IInv'
<1> USE DEF IInv
<1>1. /\ output' = [output EXCEPT ![i] = {result[i]}]
      /\ messageDone' = [messageDone EXCEPT ![i] = "deleted"]
      /\ UNCHANGED <<index, result, toWorker, fromWorker, processing, worker, workerDone, final, deaths, erred>>
  BY DEF CallBack, CurrentIndex
<1>2. result[i] \in Index \cup {None} /\ result[i] \in {i, None}
  BY DEF PoolTypes, OwnOnly
<1>3. PoolTypes'
  <2>1. output' \in [Index -> SUBSET (Index \cup {None})]
    BY <1>1, <1>2 DEF PoolTypes
  <2>2. messageDone' \in [Index -> {"none", "pending", "settled", "deleted"}]
    BY <1>1 DEF PoolTypes
  <2> QED
    BY <1>1, <2>1, <2>2 DEF PoolTypes
<1>4. OwnOnly'
  <2>1. \A k \in Index : output'[k] \subseteq {k, None}
    BY <1>1, <1>2 DEF PoolTypes, OwnOnly
  <2> QED
    BY <1>1, <2>1 DEF OwnOnly, Items
<1>5. ASSUME NEW k \in Taken
      PROVE  /\ k = i => CalledBack(k)'
             /\ k # i => CalledBack(k)' = CalledBack(k) /\ messageDone'[k] = messageDone[k]
  <2>1. k \in Index
    BY Indices DEF Taken, PoolTypes
  <2> QED
    BY <1>1, <2>1 DEF CalledBack, PoolTypes
<1>6. EndsLast'
  BY <1>1, <1>5 DEF EndsLast, Taken
<1>7. ASSUME NEW k \in Taken, CalledBack(k) \/ Coming(k)
      PROVE  CalledBack(k)' \/ Coming(k)'
  <2>1. k # i /\ Coming(k) => Coming(k)'
    BY <1>1, <1>5 DEF Coming, Items
  <2> QED
    BY <1>5, <1>7, <2>1
<1>8. deaths = 0 /\ final = "no" =>
        \A v \in Worker : worker'[v] = "running" /\ Null \notin Items(toWorker'[v])
  BY <1>1 DEF NoneForgotten
<1> QED
  BY <1>1, <1>3, <1>4, <1>6, <1>7, <1>8, CloserPreserves

\* Final: nobody waits any more.
LEMMA FinalPreserves ==
  ASSUME IInv, Final
  PROVE  IInv'
<1> USE DEF IInv
<1>1. /\ final = "no" /\ \A i \in Taken : CalledBack(i)
      /\ final' = "waiting" /\ toWorker' = [w \in Worker |-> Post(w, Null)]
      /\ UNCHANGED <<index, messageDone, result, fromWorker, processing, worker, workerDone, output, deaths, erred>>
  BY DEF Final
<1>2. ASSUME NEW w \in Worker
      PROVE  Post(w, Null) \in Seq(Index \cup {Null})
  <2>1. toWorker[w] \in Seq(Index \cup {Null}) /\ Null \in Index \cup {Null}
    BY DEF PoolTypes
  <2> QED
    BY <2>1, AppendItems DEF Post
<1>3. PoolTypes'
  BY <1>1, <1>2 DEF PoolTypes
<1>4. OwnOnly' /\ EndsLast'
  BY <1>1 DEF OwnOnly, EndsLast, Items, Taken, CalledBack
<1>5. \A i \in Taken : CalledBack(i)'
  BY <1>1 DEF CalledBack
<1> QED
  BY <1>1, <1>3, <1>4, <1>5, CloserPreserves

\* A worker that is not running goes on to its end.
LEMMA EndingPreserves ==
  ASSUME IInv, NEW w \in Worker, NEW s \in {"exited", "gone"}, worker[w] \notin {"running", "gone"},
         worker' = [worker EXCEPT ![w] = s],
         workerDone' = workerDone
           \/ (s = "gone" /\ workerDone' = [workerDone EXCEPT ![w] = SettledOnce(@, "resolved")]),
         UNCHANGED <<index, messageDone, result, toWorker, fromWorker, processing, final, output, deaths, erred>>
  PROVE  IInv'
<1> USE DEF IInv
<1>1. PoolTypes'
  <2>1. worker' \in [Worker -> {"running", "closed", "exited", "gone"}]
    BY DEF PoolTypes
  <2>2. workerDone' \in [Worker -> {"pending", "resolved", "rejected"}]
    BY DEF PoolTypes, SettledOnce
  <2> QED
    BY <2>1, <2>2 DEF PoolTypes
<1>2. OwnOnly'
  BY DEF OwnOnly, Items
<1>3. \A v \in Worker : /\ v # w => worker'[v] = worker[v] /\ workerDone'[v] = workerDone[v]
                        /\ workerDone[v] # "pending" => workerDone'[v] = workerDone[v]
  BY DEF PoolTypes, SettledOnce
<1>4. workerDone'[w] = "resolved" => worker'[w] = "gone"
  BY DEF PoolTypes, EndsLast, SettledOnce
<1>5. EndsLast'
  BY <1>3, <1>4 DEF EndsLast, Taken, CalledBack
<1>6. \A k \in Taken : CalledBack(k) \/ Coming(k) => CalledBack(k)' \/ Coming(k)'
  BY DEF CalledBack, Coming, Items
<1>7. ~(deaths = 0 /\ final = "no")
  BY DEF NoneForgotten
<1> QED
  BY <1>1, <1>2, <1>5, <1>6, <1>7, CloserPreserves

LEMMA DiePreserves ==
  ASSUME IInv, NEW w \in Worker, Die(w)
  PROVE  IInv'
<1> USE DEF IInv
<1>1. /\ worker[w] = "running" /\ deaths' = deaths + 1
      /\ worker' = [worker EXCEPT ![w] = "exited"]
      /\ processing' = [processing EXCEPT ![w] = {}]
      /\ toWorker' = [toWorker EXCEPT ![w] = <<>>]
      /\ UNCHANGED <<index, messageDone, result, fromWorker, final, output>>
      /\ \/ workerDone' = workerDone /\ erred' = erred
         \/ workerDone' = [workerDone EXCEPT ![w] = "rejected"] /\ erred' = erred \cup {w}
  BY DEF Die
<1>2. deaths' \in Nat /\ deaths' # 0
  BY <1>1 DEF PoolTypes
<1>3. PoolTypes'
  <2>1. worker' \in [Worker -> {"running", "closed", "exited", "gone"}]
    BY <1>1 DEF PoolTypes
  <2>2. workerDone' \in [Worker -> {"pending", "resolved", "rejected"}]
    BY <1>1 DEF PoolTypes
  <2>3. toWorker' \in [Worker -> Seq(Index \cup {Null})] /\ processing' \in [Worker -> SUBSET Index]
    BY <1>1, EmptyItems DEF PoolTypes
  <2>4. erred' \subseteq Worker
    BY <1>1 DEF PoolTypes
  <2> QED
    BY <1>1, <1>2, <2>1, <2>2, <2>3, <2>4 DEF PoolTypes
<1>4. OwnOnly'
  BY <1>1 DEF OwnOnly, Items
<1>5. EndsLast'
  <2>1. workerDone[w] # "resolved" /\ final # "ended"
    BY <1>1 DEF EndsLast
  <2> QED
    BY <1>1, <2>1 DEF EndsLast, PoolTypes, Taken, CalledBack
<1> QED
  BY <1>1, <1>2, <1>3, <1>4, <1>5, CloserPreserves

LEMMA FinalDonePreserves ==
  ASSUME IInv, FinalDone
  PROVE  IInv'
<1> USE DEF IInv
<1>1. /\ final = "waiting" /\ final' \in {"ended", "failed"}
      /\ final' = "ended" => \A w \in Worker : workerDone[w] = "resolved"
      /\ UNCHANGED <<index, messageDone, result, toWorker, fromWorker, processing, worker, workerDone, output, deaths, erred>>
  BY DEF FinalDone
<1>2. PoolTypes'
  BY <1>1 DEF PoolTypes
<1>3. OwnOnly' /\ EndsLast'
  BY <1>1 DEF OwnOnly, EndsLast, Items, Taken, CalledBack
<1>4. \A k \in Taken : CalledBack(k) \/ Coming(k) => CalledBack(k)' \/ Coming(k)'
  BY <1>1 DEF CalledBack, Coming, Items
<1> QED
  BY <1>1, <1>2, <1>3, <1>4, CloserPreserves

LEMMA StepPreserves == IInv /\ [PoolNext]_poolVars => IInv'
<1> SUFFICES ASSUME IInv, [PoolNext]_poolVars
             PROVE  IInv'
  OBVIOUS
<1>1. CASE UNCHANGED poolVars
  <2> USE DEF IInv
  <2>1. UNCHANGED <<index, messageDone, result, toWorker, fromWorker, processing, worker,
                    workerDone, final, output, deaths, erred>>
    BY <1>1 DEF poolVars
  <2>2. PoolTypes'
    BY <2>1 DEF PoolTypes
  <2>3. OwnOnly' /\ EndsLast'
    BY <2>1 DEF OwnOnly, EndsLast, Items, Taken, CalledBack
  <2>4. \A k \in Taken : CalledBack(k) \/ Coming(k) => CalledBack(k)' \/ Coming(k)'
    BY <2>1 DEF CalledBack, Coming, Items
  <2>5. deaths = 0 /\ final = "no" => \A w \in Worker :
           worker'[w] = "running" /\ Null \notin Items(toWorker'[w])
    BY <2>1 DEF NoneForgotten, Items
  <2> QED
    BY <2>1, <2>2, <2>3, <2>4, <2>5, CloserPreserves
<1>2. ASSUME NEW w \in Worker, Exit(w)
      PROVE  IInv'
  <2>1. /\ worker[w] \notin {"running", "gone"} /\ worker' = [worker EXCEPT ![w] = "exited"]
        /\ workerDone' = workerDone
        /\ UNCHANGED <<index, messageDone, result, toWorker, fromWorker, processing, final, output, deaths, erred>>
    BY <1>2 DEF Exit
  <2> QED
    BY <2>1, EndingPreserves
<1>3. ASSUME NEW w \in Worker, OnExit(w)
      PROVE  IInv'
  <2>1. /\ worker[w] \notin {"running", "gone"} /\ worker' = [worker EXCEPT ![w] = "gone"]
        /\ workerDone' = [workerDone EXCEPT ![w] = SettledOnce(@, "resolved")]
        /\ UNCHANGED <<index, messageDone, result, toWorker, fromWorker, processing, final, output, deaths, erred>>
    BY <1>3 DEF OnExit
  <2> QED
    BY <2>1, EndingPreserves
<1>4. CASE Take \/ Final \/ FinalDone
  BY <1>4, TakePreserves, FinalPreserves, FinalDonePreserves
<1>5. CASE \E i \in Index : CallBack(i)
  BY <1>5, CallBackPreserves
<1>6. ASSUME NEW w \in Worker, Receive(w) \/ OnMessage(w) \/ Die(w)
                                \/ \E i \in Index : Processed(w, i)
      PROVE  IInv'
  BY <1>6, ReceivePreserves, ProcessedPreserves, OnMessagePreserves, DiePreserves
<1> QED
  BY <1>1, <1>2, <1>3, <1>4, <1>5, <1>6 DEF PoolNext

(* Each chunk is called back with its own result, none waits in vain unless *)
(* a worker died, and the transform ends last.                              *)
THEOREM AlwaysOwnResults == PoolSpec => []OwnResults
<1>1. IInv => OwnResults
  <2> SUFFICES ASSUME IInv
               PROVE  OwnResults
    OBVIOUS
  <2> USE DEF IInv
  <2>1. ASSUME NEW i \in Index, Coming(i)
        PROVE  OnItsWay(i)
    BY <2>1 DEF Coming, OnItsWay, Items
  <2>2. \A i \in Taken : i \in Index
    BY Indices DEF Taken, PoolTypes
  <2>3. deaths = 0 => \A i \in Taken : CalledBack(i) \/ OnItsWay(i)
    BY <2>1, <2>2 DEF NoneForgotten
  <2>4. final = "ended" => /\ \A i \in Taken : CalledBack(i)
                           /\ \A w \in Worker : worker[w] = "gone"
                           /\ erred = {}
    BY DEF EndsLast, PoolTypes
  <2> QED
    BY <2>3, <2>4 DEF OwnResults, OwnOnly
<1> QED
  BY <1>1, InitEstablishes, StepPreserves, PTL DEF PoolSpec
=============================================================================
