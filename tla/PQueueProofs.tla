---------------------------- MODULE PQueueProofs ----------------------------
(***************************************************************************)
(* Theorems about PQueue for every set of pushes, functions and onIdle      *)
(* calls, finite or not, and every concurrency.                             *)
(***************************************************************************)
EXTENDS PQueue, FiniteSetTheorems, TLAPS

(* The inductive invariant: the two cardinalities mean something only for   *)
(* finite sets, which the jobs of a queue are although Push may not be.     *)
IInv ==
  /\ TypeOK
  /\ IsFiniteSet(Occupying)
  /\ IsFiniteSet(Released)
  /\ SlotsAccounted
  /\ QueueIsUnstarted

-----------------------------------------------------------------------------
(* A defer stays a defer under everything push and the handlers do to it.   *)
LEMMA DeferTyped ==
  ASSUME NEW d \in [st : DeferState, by : Push \cup {Nobody}],
         NEW p \in Push, NEW ok \in BOOLEAN
  PROVE  /\ Opened(d) \in [st : DeferState, by : Push \cup {Nobody}]
         /\ OnStart(d, p) \in [st : DeferState, by : Push \cup {Nobody}]
         /\ OnStart(Opened(d), p) \in [st : DeferState, by : Push \cup {Nobody}]
         /\ OnFinish(d, p, ok) \in [st : DeferState, by : Push \cup {Nobody}]
  BY DEF Opened, OnStart, OnFinish, Settled, DeferState

(* The body of push keeps the types, whoever calls it.                      *)
LEMMA AdmitTyped ==
  ASSUME TypeOK, NEW p \in Push, NEW f, NEW n \in Nat, NEW q \in Seq(Push),
         NEW j \in [Push -> JobState], Admit(p, f, n, q, j)
  PROVE  /\ inFlight' \in Nat
         /\ queue' \in Seq(Push)
         /\ defer' \in [Fn -> [st : DeferState, by : Push \cup {Nobody}]]
         /\ job' \in [Push -> JobState]
<1>1. CASE inFlight' = n + 1 /\ queue' = q
           /\ defer' = [defer EXCEPT ![f] = OnStart(Opened(@), p)]
           /\ \E s \in StartOutcome : job' = [j EXCEPT ![p] = s]
  <2>1. job' \in [Push -> JobState]
    BY <1>1 DEF StartOutcome, JobState
  <2>2. defer' \in [Fn -> [st : DeferState, by : Push \cup {Nobody}]]
    <3>1. \A d \in [st : DeferState, by : Push \cup {Nobody}] :
            OnStart(Opened(d), p) \in [st : DeferState, by : Push \cup {Nobody}]
      BY DeferTyped
    <3> QED BY <1>1, <3>1 DEF TypeOK
  <2> QED BY <1>1, <2>1, <2>2
<1>2. CASE inFlight' = n /\ queue' = Append(q, p)
           /\ defer' = [defer EXCEPT ![f] = Opened(@)]
           /\ job' = [j EXCEPT ![p] = "queued"]
  <2>1. job' \in [Push -> JobState]
    BY <1>2 DEF JobState
  <2>2. defer' \in [Fn -> [st : DeferState, by : Push \cup {Nobody}]]
    <3>1. \A d \in [st : DeferState, by : Push \cup {Nobody}] :
            Opened(d) \in [st : DeferState, by : Push \cup {Nobody}]
      BY DeferTyped
    <3> QED BY <1>2, <3>1 DEF TypeOK
  <2> QED BY <1>2, <2>1, <2>2
<1> QED BY <1>1, <1>2 DEF Admit, Enqueued

-----------------------------------------------------------------------------
(* The cardinalities of the slots and of the finished jobs, under the three *)
(* ways a step changes them.                                                *)
LEMMA SlotTaken ==
  ASSUME IsFiniteSet(Occupying), NEW p, p \notin Occupying,
         Occupying' = Occupying \cup {p}
  PROVE  /\ IsFiniteSet(Occupying')
         /\ Cardinality(Occupying') = Cardinality(Occupying) + 1
  BY FS_AddElement

LEMMA SlotGiven ==
  ASSUME IsFiniteSet(Occupying), NEW p \in Occupying,
         Occupying' = Occupying \ {p}
  PROVE  /\ IsFiniteSet(Occupying')
         /\ Cardinality(Occupying) \in Nat \ {0}
         /\ Cardinality(Occupying') = Cardinality(Occupying) - 1
<1>1. Cardinality(Occupying) # 0
  BY FS_EmptySet
<1>2. Cardinality(Occupying) \in Nat
  BY FS_CardinalityType
<1> QED BY <1>1, <1>2, FS_RemoveElement

LEMMA SlotPassed ==
  ASSUME IsFiniteSet(Occupying), NEW p \in Occupying,
         NEW q, q \notin Occupying,
         Occupying' = (Occupying \ {p}) \cup {q}
  PROVE  /\ IsFiniteSet(Occupying')
         /\ Cardinality(Occupying) \in Nat \ {0}
         /\ Cardinality(Occupying') = Cardinality(Occupying)
<1>1. Cardinality(Occupying) # 0
  BY FS_EmptySet
<1>2. Cardinality(Occupying) \in Nat
  BY FS_CardinalityType
<1>3. /\ IsFiniteSet(Occupying \ {p})
      /\ Cardinality(Occupying \ {p}) = Cardinality(Occupying) - 1
  BY FS_RemoveElement
<1>4. q \notin Occupying \ {p}
  OBVIOUS
<1>5. /\ IsFiniteSet((Occupying \ {p}) \cup {q})
      /\ Cardinality((Occupying \ {p}) \cup {q}) = Cardinality(Occupying \ {p}) + 1
  BY <1>3, <1>4, FS_AddElement
<1> QED BY <1>1, <1>2, <1>3, <1>5

LEMMA JobReleased ==
  ASSUME IsFiniteSet(Released), NEW p, p \notin Released,
         Released' = Released \cup {p}
  PROVE  /\ IsFiniteSet(Released')
         /\ Cardinality(Released') = Cardinality(Released) + 1
  BY FS_AddElement

-----------------------------------------------------------------------------
LEMMA IInvInit == Init => IInv
<1> SUFFICES ASSUME Init PROVE IInv
  OBVIOUS
<1>1. TypeOK
  BY PQueueAssumption DEF Init, TypeOK, DeferState, JobState, Promise
<1>2. Occupying = {} /\ Released = {}
  BY DEF Init, Occupying, Released
<1>3. IsFiniteSet({}) /\ Cardinality({}) = 0
  BY FS_EmptySet
<1>4. SlotsAccounted
  <2>1. cfg.concurrency \in Nat
    BY <1>1, PQueueAssumption DEF TypeOK
  <2>2. inFlight = Cardinality(Occupying)
    BY <1>2, <1>3 DEF Init
  <2> QED BY <2>1, <2>2 DEF Init, SlotsAccounted
<1>5. QueueIsUnstarted
  BY <1>2, <1>3 DEF Init, QueueIsUnstarted
<1> QED BY <1>1, <1>2, <1>3, <1>4, <1>5 DEF IInv

(* A caller's push: it takes a free slot, or joins a queue no slot is free  *)
(* for.                                                                     *)
LEMMA PushPreserves ==
  ASSUME IInv, NEW p \in Push, NEW f \in Fn, PushJob(p, f)
  PROVE  IInv'
<1> USE DEF IInv
<1>1. cfg.concurrency \in Nat /\ cfg' = cfg
  BY PQueueAssumption DEF TypeOK, PushJob
<1>2. TypeOK'
  <2>1. Admit(p, f, inFlight, queue, job)
    BY DEF PushJob
  <2>2. inFlight \in Nat /\ queue \in Seq(Push) /\ job \in [Push -> JobState]
    BY DEF TypeOK
  <2>3. /\ inFlight' \in Nat
        /\ queue' \in Seq(Push)
        /\ defer' \in [Fn -> [st : DeferState, by : Push \cup {Nobody}]]
        /\ job' \in [Push -> JobState]
    BY <2>1, <2>2, AdmitTyped
  <2>4. fnOf' \in [Push -> Fn \cup {Nobody}] /\ pushed' \in Seq(Push)
    BY DEF TypeOK, PushJob
  <2>5. UNCHANGED <<cfg, voided, listener>>
    BY DEF PushJob
  <2>6. returned' \in [Push -> Promise]
    BY DEF TypeOK, PushJob, Promised, Promise
  <2> QED BY <2>3, <2>4, <2>5, <2>6 DEF TypeOK
<1>3. /\ p \notin Occupying /\ Released' = Released
      /\ \A i \in 1..Len(pushed) : pushed[i] # p
  <2>1. Released' = Released
    BY DEF TypeOK, PushJob, Admit, Released, StartOutcome
  <2> QED BY <2>1 DEF TypeOK, PushJob, Occupying, QueueIsUnstarted
<1>4. pushed' = Append(pushed, p) /\ pushed \in Seq(Push) /\ queue \in Seq(Push)
  BY DEF PushJob, TypeOK
<1>5. CASE /\ inFlight < cfg.concurrency
           /\ inFlight' = inFlight + 1
           /\ queue' = queue
           /\ \E s \in StartOutcome : job' = [job EXCEPT ![p] = s]
  <2>1. PICK s \in {"running", "threw"} : job' = [job EXCEPT ![p] = s]
    BY <1>5 DEF StartOutcome
  <2>2. Occupying' = Occupying \cup {p}
    BY <2>1 DEF Occupying, TypeOK
  <2>3. /\ IsFiniteSet(Occupying')
        /\ Cardinality(Occupying') = Cardinality(Occupying) + 1
    BY <1>3, <2>2, SlotTaken
  <2>4. queue = <<>> /\ Len(queue) = 0
    BY <1>1, <1>4, <1>5 DEF SlotsAccounted, TypeOK
  <2>5. SlotsAccounted'
    BY <1>1, <1>5, <2>3, <2>4 DEF SlotsAccounted, TypeOK
  <2>6. QueueIsUnstarted'
    <3> DEFINE n == Len(pushed)
    <3>1. /\ n \in Nat /\ Len(pushed') = n + 1 /\ Len(queue') = 0
          /\ pushed'[n + 1] = p
          /\ \A i \in 1..n : pushed'[i] = pushed[i] /\ pushed[i] \in Push
      BY <1>4, <1>5, <2>4
    <3>2. \A i \in 1..n : /\ job[pushed[i]] # "idle" /\ job[pushed[i]] # "queued"
                           /\ \A k \in 1..n : pushed[i] = pushed[k] => i = k
      BY <2>4, <3>1 DEF QueueIsUnstarted
    <3>3. \A i \in 1..n : job'[pushed[i]] = job[pushed[i]]
      BY <1>3, <2>1, <3>1 DEF TypeOK
    <3>4. job'[p] \in {"running", "threw"}
      BY <2>1 DEF TypeOK
    <3>5. \A i \in 1..(n + 1) :
            /\ job'[pushed'[i]] # "idle" /\ job'[pushed'[i]] # "queued"
            /\ \A k \in 1..(n + 1) : pushed'[i] = pushed'[k] => i = k
      BY <1>3, <3>1, <3>2, <3>3, <3>4
    <3>6. \A q \in Push : job'[q] # "idle" =>
            \E i \in 1..(n + 1) : pushed'[i] = q
      <4> SUFFICES ASSUME NEW q \in Push, job'[q] # "idle"
                   PROVE  \E i \in 1..(n + 1) : pushed'[i] = q
        OBVIOUS
      <4>1. CASE q = p
        BY <3>1, <4>1
      <4>2. CASE q # p
        <5>1. job[q] # "idle"
          BY <4>2, <2>1 DEF TypeOK
        <5>2. PICK i \in 1..n : pushed[i] = q
          BY <5>1 DEF QueueIsUnstarted
        <5> QED BY <3>1, <5>2
      <4> QED BY <4>1, <4>2
    <3>7. n + 1 = inFlight' + Cardinality(Released')
      BY <1>3, <1>5, <2>4, FS_CardinalityType DEF QueueIsUnstarted, TypeOK
    <3> HIDE DEF n
    <3> QED BY <1>5, <2>4, <3>1, <3>5, <3>6, <3>7 DEF QueueIsUnstarted
  <2> QED BY <1>2, <1>3, <2>3, <2>5, <2>6
<1>6. CASE /\ inFlight >= cfg.concurrency
           /\ inFlight' = inFlight
           /\ queue' = Append(queue, p)
           /\ job' = [job EXCEPT ![p] = "queued"]
  <2>1. Occupying' = Occupying
    BY <1>3, <1>6 DEF Occupying, TypeOK
  <2>2. SlotsAccounted'
    BY <1>1, <1>6, <2>1 DEF SlotsAccounted, TypeOK
  <2>3. QueueIsUnstarted'
    <3> DEFINE n == Len(pushed)
               m == Len(queue)
    <3>1. /\ n \in Nat /\ Len(pushed') = n + 1 /\ pushed'[n + 1] = p
          /\ m \in Nat /\ Len(queue') = m + 1 /\ queue'[m + 1] = p
          /\ \A i \in 1..n : pushed'[i] = pushed[i] /\ pushed[i] \in Push
          /\ \A i \in 1..m : queue'[i] = queue[i]
      BY <1>4, <1>6
    <3>2. /\ m <= n
          /\ \A i \in 1..m : queue[i] = pushed[(n - m) + i]
          /\ \A i \in 1..n : /\ job[pushed[i]] # "idle"
                             /\ job[pushed[i]] = "queued" <=> i > n - m
                             /\ \A k \in 1..n : pushed[i] = pushed[k] => i = k
      BY DEF QueueIsUnstarted
    <3>3. \A i \in 1..n : job'[pushed[i]] = job[pushed[i]]
      BY <1>3, <1>6, <3>1 DEF TypeOK
    <3>4. job'[p] = "queued"
      BY <1>6 DEF TypeOK
    <3>5. \A i \in 1..(m + 1) : queue'[i] = pushed'[(n - m) + i]
      <4> HIDE DEF n, m
      <4> SUFFICES ASSUME NEW i \in 1..(m + 1)
                   PROVE  queue'[i] = pushed'[(n - m) + i]
        OBVIOUS
      <4>1. CASE i = m + 1
        <5>1. (n - m) + i = n + 1
          BY <3>1, <4>1
        <5> QED BY <3>1, <4>1, <5>1
      <4>2. CASE i \in 1..m
        <5>1. (n - m) + i \in 1..n
          BY <3>1, <3>2, <4>2
        <5> QED BY <3>1, <3>2, <4>2, <5>1
      <4> QED BY <3>1, <4>1, <4>2
    <3>6. \A i \in 1..(n + 1) :
            /\ job'[pushed'[i]] # "idle"
            /\ job'[pushed'[i]] = "queued" <=> i > n - m
            /\ \A k \in 1..(n + 1) : pushed'[i] = pushed'[k] => i = k
      <4> HIDE DEF n, m
      <4> SUFFICES ASSUME NEW i \in 1..(n + 1)
                   PROVE  /\ job'[pushed'[i]] # "idle"
                          /\ job'[pushed'[i]] = "queued" <=> i > n - m
                          /\ \A k \in 1..(n + 1) : pushed'[i] = pushed'[k] => i = k
        OBVIOUS
      <4>1. \A k \in 1..n : pushed[k] # p
        BY <1>3 DEF n
      <4>2. CASE i = n + 1
        BY <3>1, <3>2, <3>4, <4>1, <4>2
      <4>3. CASE i \in 1..n
        BY <3>1, <3>2, <3>3, <4>1, <4>3
      <4> QED BY <3>1, <4>2, <4>3
    <3>7. \A q \in Push : job'[q] # "idle" =>
            \E i \in 1..(n + 1) : pushed'[i] = q
      <4> SUFFICES ASSUME NEW q \in Push, job'[q] # "idle"
                   PROVE  \E i \in 1..(n + 1) : pushed'[i] = q
        OBVIOUS
      <4>1. CASE q = p
        BY <3>1, <4>1
      <4>2. CASE q # p
        <5>1. job[q] # "idle"
          BY <4>2, <1>6 DEF TypeOK
        <5>2. PICK i \in 1..n : pushed[i] = q
          BY <5>1 DEF QueueIsUnstarted
        <5> QED BY <3>1, <5>2
      <4> QED BY <4>1, <4>2
    <3>8. (n + 1) - (m + 1) = inFlight' + Cardinality(Released')
      BY <1>3, <1>6, <3>1 DEF QueueIsUnstarted
    <3>9. (n + 1) - (m + 1) = n - m /\ m + 1 <= n + 1
      BY <3>1, <3>2
    <3> HIDE DEF n, m
    <3> QED BY <3>1, <3>5, <3>6, <3>7, <3>8, <3>9 DEF QueueIsUnstarted
  <2> QED BY <1>2, <1>3, <2>1, <2>2, <2>3
<1>7. ~(inFlight < cfg.concurrency) <=> inFlight >= cfg.concurrency
  BY <1>1 DEF TypeOK
<1> QED BY <1>5, <1>6, <1>7 DEF PushJob, Admit, HasRoom, Enqueued

(* The answer of a job changes neither slots nor queue.                     *)
LEMMA SettlePreserves ==
  ASSUME IInv, NEW p \in Push, NEW ok \in BOOLEAN, Settle(p, ok)
  PROVE  IInv'
<1> USE DEF IInv
<1>1. TypeOK'
  <2>1. \A d \in [st : DeferState, by : Push \cup {Nobody}] :
          OnFinish(d, p, ok) \in [st : DeferState, by : Push \cup {Nobody}]
    BY DeferTyped
  <2>2. defer' \in [Fn -> [st : DeferState, by : Push \cup {Nobody}]]
    BY <2>1 DEF TypeOK, Settle
  <2>3. job' \in [Push -> JobState]
    BY DEF TypeOK, Settle, JobState
  <2> QED BY <2>2, <2>3 DEF TypeOK, Settle
<1>2. Occupying' = Occupying /\ Released' = Released
  BY DEF Settle, TypeOK, Occupying, Released
<1>3. SlotsAccounted'
  BY <1>2 DEF Settle, SlotsAccounted
<1>4. QueueIsUnstarted'
  BY <1>2 DEF Settle, QueueIsUnstarted, TypeOK
<1> QED BY <1>1, <1>2, <1>3, <1>4

(* A finally handler that finds the queue empty gives its slot back.        *)
LEMMA ReleaseOnlyPreserves ==
  ASSUME IInv, NEW p \in Push, ReleaseOnly(p)
  PROVE  IInv'
<1> USE DEF IInv
<1>1. job[p] = "settled" /\ job' = [job EXCEPT ![p] = "released"]
      /\ inFlight' = inFlight - 1
      /\ UNCHANGED <<cfg, queue, fnOf, defer, returned, voided, pushed>>
  BY DEF ReleaseOnly, Freed, NoneLeft
<1>2. /\ p \in Occupying /\ Occupying' = Occupying \ {p}
      /\ p \notin Released /\ Released' = Released \cup {p}
  BY <1>1 DEF Occupying, Released, TypeOK
<1>3. /\ IsFiniteSet(Occupying')
      /\ Cardinality(Occupying) \in Nat \ {0}
      /\ Cardinality(Occupying') = Cardinality(Occupying) - 1
  BY <1>2, SlotGiven
<1>4. /\ IsFiniteSet(Released')
      /\ Cardinality(Released') = Cardinality(Released) + 1
      /\ Cardinality(Released) \in Nat
  BY <1>2, JobReleased, FS_CardinalityType
<1>5. TypeOK'
  <2>1. inFlight' \in Nat
    BY <1>1, <1>3 DEF SlotsAccounted
  <2>2. listener' \in [Waiter -> {"none", "waiting", "resolved"}]
    BY DEF ReleaseOnly, Freed, NoneLeft, TypeOK
  <2>3. job' \in [Push -> JobState]
    BY <1>1 DEF TypeOK, JobState
  <2> QED BY <1>1, <2>1, <2>2, <2>3 DEF TypeOK
<1>6. cfg.concurrency \in Nat /\ queue = <<>> /\ Len(queue) = 0
  <2>1. cfg.concurrency \in Nat
    BY PQueueAssumption DEF TypeOK
  <2>2. ~(inFlight - 1 > cfg.concurrency)
    BY <2>1 DEF SlotsAccounted, TypeOK
  <2> QED BY <2>1, <2>2 DEF ReleaseOnly, Freed, NoneLeft
<1>7. SlotsAccounted'
  BY <1>1, <1>3, <1>6 DEF SlotsAccounted, TypeOK
<1>8. QueueIsUnstarted'
  BY <1>1, <1>4, <1>6 DEF QueueIsUnstarted, TypeOK
<1> QED BY <1>3, <1>4, <1>5, <1>7, <1>8

(* A finally handler that finds a function queued hands its slot to it: the *)
(* push it makes never joins the queue again.                               *)
LEMMA RefillStarts ==
  ASSUME IInv, NEW p \in Push, ReleaseAndRefill(p)
  PROVE  /\ Head(queue) \in Push /\ Head(queue) # p
         /\ job[Head(queue)] = "queued"
         /\ Head(queue) = pushed[Len(pushed) - Len(queue) + 1]
         /\ inFlight' = inFlight
         /\ queue' = Tail(queue)
         /\ inFlight > 0
         /\ \E s \in {"running", "threw"} :
              job' = [job EXCEPT ![p] = "released", ![Head(queue)] = s]
<1> USE DEF IInv
<1> DEFINE next == Head(queue)
<1>1. /\ job[p] = "settled" /\ queue # <<>>
      /\ Admit(next, fnOf[next], inFlight - 1, Tail(queue),
               [job EXCEPT ![p] = "released"])
  BY DEF ReleaseAndRefill, Freed
<1>2. next \in Push /\ Len(queue) \in Nat \ {0} /\ next = queue[1]
  BY <1>1 DEF TypeOK
<1>3. Len(queue) <= Len(pushed) /\ next = pushed[Len(pushed) - Len(queue) + 1]
  BY <1>2 DEF QueueIsUnstarted
<1>4. job[next] = "queued"
  <2>1. Len(pushed) - Len(queue) + 1 \in 1..Len(pushed)
    BY <1>2, <1>3 DEF TypeOK
  <2>2. Len(pushed) \in Nat /\ Len(queue) \in Nat
    BY <1>2 DEF TypeOK
  <2>3. \A i \in 1..Len(pushed) : job[pushed[i]] = "queued" <=> i > Len(pushed) - Len(queue)
    BY DEF QueueIsUnstarted
  <2> QED BY <1>3, <2>1, <2>2, <2>3
<1>5. inFlight \in Nat \ {0}
  <2>1. p \in Occupying
    BY <1>1 DEF Occupying
  <2>2. Cardinality(Occupying) # 0
    BY <2>1, FS_EmptySet
  <2> QED BY <2>2 DEF SlotsAccounted, TypeOK
<1>6. inFlight - 1 < cfg.concurrency
  <2>1. cfg.concurrency \in Nat
    BY PQueueAssumption DEF TypeOK
  <2> QED BY <1>5, <2>1 DEF SlotsAccounted
<1>7. /\ inFlight' = (inFlight - 1) + 1
      /\ queue' = Tail(queue)
      /\ \E s \in StartOutcome :
           job' = [[job EXCEPT ![p] = "released"] EXCEPT ![next] = s]
  BY <1>1, <1>6 DEF Admit, HasRoom
<1>8. PICK s \in {"running", "threw"} :
        job' = [[job EXCEPT ![p] = "released"] EXCEPT ![next] = s]
  BY <1>7 DEF StartOutcome
<1>9. job' = [job EXCEPT ![p] = "released", ![next] = s]
  BY <1>8
<1>10. next # p /\ inFlight' = inFlight /\ inFlight > 0
  BY <1>1, <1>4, <1>5, <1>7
<1>11. \E t \in {"running", "threw"} :
         job' = [job EXCEPT ![p] = "released", ![next] = t]
  BY <1>9
<1> QED BY <1>2, <1>3, <1>4, <1>7, <1>10, <1>11

LEMMA ReleaseAndRefillPreserves ==
  ASSUME IInv, NEW p \in Push, ReleaseAndRefill(p)
  PROVE  IInv'
<1> USE DEF IInv
<1> DEFINE next == Head(queue)
           n == Len(pushed)
           m == Len(queue)
<1>1. job[p] = "settled" /\ queue # <<>> /\ UNCHANGED <<cfg, fnOf, returned, listener, pushed>>
      /\ voided' = [voided EXCEPT ![next] = Promised(job'[next])]
  BY DEF ReleaseAndRefill, Freed
<1>2. /\ next \in Push /\ next # p /\ job[next] = "queued"
      /\ next = pushed[n - m + 1]
      /\ inFlight' = inFlight /\ queue' = Tail(queue)
  BY RefillStarts
<1>3. PICK s \in {"running", "threw"} :
        job' = [job EXCEPT ![p] = "released", ![next] = s]
  BY RefillStarts
<1>4. /\ p \in Occupying /\ next \notin Occupying
      /\ Occupying' = (Occupying \ {p}) \cup {next}
      /\ p \notin Released /\ Released' = Released \cup {p}
  BY <1>1, <1>2, <1>3 DEF Occupying, Released, TypeOK
<1>5. /\ IsFiniteSet(Occupying')
      /\ Cardinality(Occupying') = Cardinality(Occupying)
  BY <1>2, <1>4, SlotPassed
<1>6. /\ IsFiniteSet(Released')
      /\ Cardinality(Released') = Cardinality(Released) + 1
      /\ Cardinality(Released) \in Nat
  BY <1>4, JobReleased, FS_CardinalityType
<1>7. TypeOK'
  <2>1. Admit(next, fnOf[next], inFlight - 1, Tail(queue),
              [job EXCEPT ![p] = "released"])
    BY DEF ReleaseAndRefill, Freed
  <2>2. inFlight - 1 \in Nat
    BY RefillStarts DEF TypeOK
  <2>3. Tail(queue) \in Seq(Push) /\ [job EXCEPT ![p] = "released"] \in [Push -> JobState]
    BY <1>1 DEF TypeOK, JobState
  <2>4. /\ inFlight' \in Nat
        /\ queue' \in Seq(Push)
        /\ defer' \in [Fn -> [st : DeferState, by : Push \cup {Nobody}]]
        /\ job' \in [Push -> JobState]
    BY <1>2, <2>1, <2>2, <2>3, AdmitTyped
  <2>5. voided' \in [Push -> Promise]
    BY <1>1, <1>2 DEF TypeOK, Promised, Promise
  <2> QED BY <1>1, <1>2, <2>4, <2>5 DEF TypeOK
<1>8. SlotsAccounted'
  <2>1. cfg.concurrency \in Nat
    BY PQueueAssumption DEF TypeOK
  <2> QED BY <1>1, <1>2, <1>5, <2>1 DEF SlotsAccounted
<1>9. QueueIsUnstarted'
  <2>1. /\ n \in Nat /\ m \in Nat \ {0} /\ m <= n
        /\ Len(pushed') = n /\ Len(queue') = m - 1
        /\ \A i \in 1..(m - 1) : queue'[i] = queue[i + 1]
        /\ \A i \in 1..n : pushed[i] \in Push
    BY <1>1, <1>2 DEF TypeOK, QueueIsUnstarted
  <2>2. /\ \A i \in 1..m : queue[i] = pushed[(n - m) + i]
        /\ \A i \in 1..n : /\ job[pushed[i]] # "idle"
                           /\ job[pushed[i]] = "queued" <=> i > n - m
                           /\ \A k \in 1..n : pushed[i] = pushed[k] => i = k
        /\ \A q \in Push : job[q] # "idle" => \E i \in 1..n : pushed[i] = q
        /\ n - m = inFlight + Cardinality(Released)
    BY DEF QueueIsUnstarted
  <2>3. \A q \in Push : /\ job'[q] = "idle" <=> job[q] = "idle"
                        /\ job'[q] = "queued" <=> job[q] = "queued" /\ q # next
    BY <1>1, <1>2, <1>3 DEF TypeOK
  <2> HIDE DEF next, n, m
  <2>4. \A i \in 1..(m - 1) : queue'[i] = pushed'[(n - (m - 1)) + i]
    <3> SUFFICES ASSUME NEW i \in 1..(m - 1)
                 PROVE  queue'[i] = pushed'[(n - (m - 1)) + i]
      OBVIOUS
    <3>1. i + 1 \in 1..m /\ (n - (m - 1)) + i = (n - m) + (i + 1)
      BY <2>1
    <3> QED BY <1>1, <2>1, <2>2, <3>1
  <2>5. \A i \in 1..n : /\ job'[pushed'[i]] # "idle"
                        /\ job'[pushed'[i]] = "queued" <=> i > n - (m - 1)
                        /\ \A k \in 1..n : pushed'[i] = pushed'[k] => i = k
    <3> SUFFICES ASSUME NEW i \in 1..n
                 PROVE  /\ job'[pushed[i]] # "idle"
                        /\ job'[pushed[i]] = "queued" <=> i > n - (m - 1)
                        /\ \A k \in 1..n : pushed[i] = pushed[k] => i = k
      BY <1>1
    <3>1. n - m + 1 \in 1..n
      BY <2>1
    <3>2. pushed[i] = next <=> i = n - m + 1
      BY <1>2, <2>2, <3>1
    <3>3. job'[pushed[i]] = "queued" <=> i > n - m /\ i # n - m + 1
      BY <2>1, <2>2, <2>3, <3>2
    <3>4. i > n - (m - 1) <=> i > n - m /\ i # n - m + 1
      BY <2>1
    <3>5. job'[pushed[i]] # "idle" /\ \A k \in 1..n : pushed[i] = pushed[k] => i = k
      BY <2>1, <2>2, <2>3
    <3> QED BY <3>3, <3>4, <3>5
  <2>6. n - (m - 1) = inFlight' + Cardinality(Released')
    <3>1. inFlight \in Nat
      BY DEF TypeOK
    <3>2. n - (m - 1) = (n - m) + 1
      BY <2>1
    <3> QED BY <1>2, <1>6, <2>2, <3>1, <3>2
  <2>7. \A q \in Push : job'[q] # "idle" => \E i \in 1..n : pushed'[i] = q
    BY <1>1, <2>2, <2>3
  <2> QED BY <2>1, <2>4, <2>5, <2>6, <2>7 DEF QueueIsUnstarted
<1> QED BY <1>5, <1>6, <1>7, <1>8, <1>9

(* Calling onIdle touches only its listener.                                *)
LEMMA OnIdlePreserves ==
  ASSUME IInv, NEW w \in Waiter, OnIdle(w)
  PROVE  IInv'
<1> USE DEF IInv
<1>1. TypeOK'
  BY DEF OnIdle, TypeOK
<1>2. Occupying' = Occupying /\ Released' = Released
  BY DEF OnIdle, Occupying, Released
<1> QED BY <1>1, <1>2 DEF OnIdle, SlotsAccounted, QueueIsUnstarted

LEMMA IInvStep == IInv /\ [Next]_vars => IInv'
<1> SUFFICES ASSUME IInv, [Next]_vars PROVE IInv'
  OBVIOUS
<1>1. CASE UNCHANGED vars
  <2>1. Occupying' = Occupying /\ Released' = Released
    BY <1>1 DEF vars, Occupying, Released
  <2> QED BY <1>1, <2>1 DEF vars, IInv, TypeOK, SlotsAccounted, QueueIsUnstarted
<1>2. ASSUME NEW p \in Push, NEW f \in Fn, PushJob(p, f) PROVE IInv'
  BY <1>2, PushPreserves
<1>3. ASSUME NEW p \in Push, NEW ok \in BOOLEAN, Settle(p, ok) PROVE IInv'
  BY <1>3, SettlePreserves
<1>4. ASSUME NEW p \in Push, ReleaseAndRefill(p) PROVE IInv'
  BY <1>4, ReleaseAndRefillPreserves
<1>5. ASSUME NEW p \in Push, ReleaseOnly(p) PROVE IInv'
  BY <1>5, ReleaseOnlyPreserves
<1>6. ASSUME NEW w \in Waiter, OnIdle(w) PROVE IInv'
  BY <1>6, OnIdlePreserves
<1> QED BY <1>1, <1>2, <1>3, <1>4, <1>5, <1>6 DEF Next

LEMMA IInvAlways == Spec => []IInv
<1>1. Init => IInv
  BY IInvInit
<1>2. IInv /\ [Next]_vars => IInv'
  BY IInvStep
<1> QED BY <1>1, <1>2, PTL DEF Spec

-----------------------------------------------------------------------------
(* Every variable keeps its type.                                           *)
THEOREM TypeCorrect == Spec => []TypeOK
<1>1. IInv => TypeOK
  BY DEF IInv
<1> QED BY <1>1, IInvAlways, PTL

(* The counter equals the number of jobs that hold a slot, never exceeds    *)
(* the concurrency, and no slot is free while a function waits: the whole   *)
(* point of the queue, for any number of pushes in any order.               *)
THEOREM SlotsAlwaysAccounted == Spec => []SlotsAccounted
<1>1. IInv => SlotsAccounted
  BY DEF IInv
<1> QED BY <1>1, IInvAlways, PTL

(* The queue holds the unstarted pushes, in the order they were made.       *)
THEOREM QueueAlwaysUnstarted == Spec => []QueueIsUnstarted
<1>1. IInv => QueueIsUnstarted
  BY DEF IInv
<1> QED BY <1>1, IInvAlways, PTL

-----------------------------------------------------------------------------
(* The abstract pool's number of started jobs is a function of the two      *)
(* others: as many as there are or as the places allow.                     *)
LEMMA StartedIsAdmitted ==
  IInv => Len(pushed) - Len(queue) =
            Pool!Admitted(Len(pushed), Cardinality(Released) + cfg.concurrency)
<1> SUFFICES ASSUME IInv
             PROVE  Len(pushed) - Len(queue) =
                      Pool!Admitted(Len(pushed), Cardinality(Released) + cfg.concurrency)
  OBVIOUS
<1>1. /\ cfg.concurrency \in Nat /\ inFlight \in Nat
      /\ Len(queue) \in Nat /\ Len(pushed) \in Nat
  <2>1. cfg.concurrency \in Nat
    BY PQueueAssumption DEF IInv, TypeOK
  <2>2. inFlight \in Nat /\ queue \in Seq(Push) /\ pushed \in Seq(Push)
    BY DEF IInv, TypeOK
  <2> QED BY <2>1, <2>2
<1>2. Cardinality(Released) \in Nat
  BY FS_CardinalityType DEF IInv
<1>3. Len(pushed) - Len(queue) = inFlight + Cardinality(Released)
  BY DEF IInv, QueueIsUnstarted
<1>4. CASE Len(queue) = 0
  <2>1. inFlight <= cfg.concurrency
    BY DEF IInv, SlotsAccounted
  <2> QED BY <1>1, <1>2, <1>3, <1>4, <2>1 DEF Pool!Admitted
<1>5. CASE Len(queue) # 0
  <2>1. inFlight = cfg.concurrency
    BY <1>5 DEF IInv, TypeOK, SlotsAccounted
  <2> QED BY <1>1, <1>2, <1>3, <1>5, <2>1 DEF Pool!Admitted
<1> QED BY <1>4, <1>5

(* A job that holds a slot is in progress in the pool.                      *)
LEMMA OccupyingInProgress ==
  ASSUME IInv, NEW p \in Occupying
  PROVE  p \in Pool!InProgress
<1>1. p \in Push /\ job[p] # "idle" /\ job[p] # "queued" /\ p \notin Released
  BY DEF Occupying, Released
<1>2. PICK i \in 1..Len(pushed) : pushed[i] = p
  BY <1>1 DEF IInv, QueueIsUnstarted
<1>3. ~(i > Len(pushed) - Len(queue))
  BY <1>1, <1>2 DEF IInv, QueueIsUnstarted
<1>4. i \in 1..(Len(pushed) - Len(queue))
  BY <1>2, <1>3 DEF IInv, TypeOK
<1> QED BY <1>1, <1>2, <1>4 DEF Pool!InProgress

(* The same, in the next state.                                             *)
LEMMA StartedIsAdmittedNext ==
  ASSUME IInv', cfg' = cfg
  PROVE  (Len(pushed) - Len(queue))' =
           Pool!Admitted(Len(pushed'), Cardinality(Released') + cfg.concurrency)
<1>1. (IInv => Len(pushed) - Len(queue) =
         Pool!Admitted(Len(pushed), Cardinality(Released) + cfg.concurrency))'
  BY StartedIsAdmitted, PTL
<1> QED BY <1>1 DEF Pool!Admitted

LEMMA ReleaseIsFinish ==
  ASSUME IInv, IInv', NEW p \in Push,
         job[p] = "settled", pushed' = pushed, cfg' = cfg,
         Released' = Released \cup {p}
  PROVE  Pool!Finish(p)
<1>1. p \in Pool!InProgress
  BY OccupyingInProgress DEF Occupying
<1>2. Cardinality(Released') = Cardinality(Released) + 1
  BY JobReleased DEF IInv, Released
<1>3. (Len(pushed) - Len(queue))' =
        Pool!Admitted(Len(pushed), Cardinality(Released) + 1 + cfg.concurrency)
  BY <1>2, StartedIsAdmittedNext
<1> QED BY <1>1, <1>2, <1>3 DEF Pool!Finish

(* PQueue is a work-conserving FIFO pool: each of its steps is a submission *)
(* or a completion of the pool, or changes nothing the pool promises.       *)
THEOREM PQueueImplementsPool == Spec => ImplementsPool
<1>1. Init => Pool!Init
  <2> SUFFICES ASSUME Init PROVE Pool!Init
    OBVIOUS
  <2>1. cfg.concurrency \in Nat
    BY PQueueAssumption DEF Init
  <2>2. Released = {} /\ Cardinality({}) = 0
    BY FS_EmptySet DEF Init, Released
  <2> QED BY <2>1, <2>2 DEF Init, Pool!Init
<1>2. IInv /\ IInv' /\ [Next]_vars => [Pool!Next]_(Pool!vars)
  <2> SUFFICES ASSUME IInv, IInv', [Next]_vars
               PROVE  Pool!Next \/ UNCHANGED Pool!vars
    OBVIOUS
  <2>1. CASE UNCHANGED vars
    BY <2>1 DEF vars, Pool!vars, Released
  <2>2. ASSUME NEW p \in Push, NEW f \in Fn, PushJob(p, f) PROVE Pool!Submit(p)
    <3>1. \A i \in 1..Len(pushed) : pushed[i] # p
      BY <2>2 DEF IInv, QueueIsUnstarted, PushJob
    <3>2. pushed' = Append(pushed, p) /\ cfg' = cfg
      BY <2>2 DEF PushJob
    <3>3. Released' = Released
      BY <2>2 DEF IInv, TypeOK, PushJob, Admit, Released, StartOutcome
    <3>4. Len(pushed') = Len(pushed) + 1
      BY <3>2 DEF IInv, TypeOK
    <3>5. (Len(pushed) - Len(queue))' =
            Pool!Admitted(Len(pushed) + 1, Cardinality(Released) + cfg.concurrency)
      BY <3>2, <3>3, <3>4, StartedIsAdmittedNext
    <3> QED BY <3>1, <3>2, <3>3, <3>5 DEF Pool!Submit
  <2>3. ASSUME NEW p \in Push, NEW ok \in BOOLEAN, Settle(p, ok)
        PROVE  UNCHANGED Pool!vars
    <3>1. Released' = Released
      BY <2>3 DEF IInv, TypeOK, Settle, Released
    <3> QED BY <2>3, <3>1 DEF Settle, Pool!vars
  <2>4. ASSUME NEW p \in Push, ReleaseAndRefill(p) PROVE Pool!Finish(p)
    <3>1. PICK s \in {"running", "threw"} :
            job' = [job EXCEPT ![p] = "released", ![Head(queue)] = s]
      BY <2>4, RefillStarts
    <3>2. job[Head(queue)] = "queued" /\ Head(queue) # p
      BY <2>4, RefillStarts
    <3>3. Released' = Released \cup {p}
      BY <2>4, <3>1, <3>2 DEF IInv, TypeOK, Released
    <3> QED BY <2>4, <3>3, ReleaseIsFinish DEF ReleaseAndRefill
  <2>5. ASSUME NEW p \in Push, ReleaseOnly(p) PROVE Pool!Finish(p)
    <3>1. Released' = Released \cup {p}
      BY <2>5 DEF IInv, TypeOK, ReleaseOnly, Released
    <3> QED BY <2>5, <3>1, ReleaseIsFinish DEF ReleaseOnly, Freed, NoneLeft
  <2>6. ASSUME NEW w \in Waiter, OnIdle(w) PROVE UNCHANGED Pool!vars
    BY <2>6 DEF OnIdle, Pool!vars, Released
  <2> QED BY <2>1, <2>2, <2>3, <2>4, <2>5, <2>6 DEF Next, Pool!Next
<1> QED BY <1>1, <1>2, IInvAlways, PTL DEF Spec, Pool!Spec, ImplementsPool

-----------------------------------------------------------------------------
LEMMA NoListenerLeftStep ==
  IInv /\ NoListenerLeftAtIdle /\ [Next]_vars => NoListenerLeftAtIdle'
<1> SUFFICES ASSUME IInv, NoListenerLeftAtIdle, [Next]_vars, Idle'
             PROVE  \A w \in Waiter : listener'[w] # "waiting"
  BY DEF NoListenerLeftAtIdle
<1>1. inFlight' = 0 /\ queue' = <<>> /\ inFlight \in Nat /\ queue \in Seq(Push)
  BY DEF Idle, IInv, TypeOK
<1>2. CASE UNCHANGED vars
  BY <1>2 DEF vars, Idle, NoListenerLeftAtIdle
<1>3. ASSUME NEW p \in Push, NEW f \in Fn, PushJob(p, f) PROVE FALSE
  <2>1. CASE inFlight' = inFlight + 1
    BY <1>1, <2>1
  <2>2. CASE queue' = Append(queue, p)
    <3>1. queue \in Seq(Push)
      BY DEF IInv, TypeOK
    <3>2. Len(Append(queue, p)) = Len(queue) + 1 /\ Len(queue) \in Nat
      BY <3>1
    <3>3. Len(Append(queue, p)) # 0 /\ Len(<<>>) = 0
      BY <3>2
    <3> QED BY <1>1, <2>2, <3>3
  <2> QED BY <1>3, <2>1, <2>2 DEF PushJob, Admit, Enqueued
<1>4. ASSUME NEW p \in Push, NEW ok \in BOOLEAN, Settle(p, ok)
      PROVE  \A w \in Waiter : listener'[w] # "waiting"
  BY <1>4 DEF Settle, Idle, NoListenerLeftAtIdle
<1>5. ASSUME NEW p \in Push, ReleaseAndRefill(p) PROVE FALSE
  BY <1>1, <1>5, RefillStarts
<1>6. ASSUME NEW p \in Push, ReleaseOnly(p)
      PROVE  \A w \in Waiter : listener'[w] # "waiting"
  BY <1>1, <1>6 DEF ReleaseOnly, Freed, NoneLeft
<1>7. ASSUME NEW v \in Waiter, OnIdle(v)
      PROVE  \A w \in Waiter : listener'[w] # "waiting"
  BY <1>1, <1>7 DEF OnIdle, Idle, NoListenerLeftAtIdle, IInv, TypeOK
<1> QED BY <1>2, <1>3, <1>4, <1>5, <1>6, <1>7 DEF Next

(* No order of onIdle, push and finally leaves a listener waiting at a      *)
(* queue that has become idle.                                              *)
THEOREM NoListenerLeft == Spec => []NoListenerLeftAtIdle
<1>1. Init => NoListenerLeftAtIdle
  BY DEF Init, NoListenerLeftAtIdle
<1> QED BY <1>1, NoListenerLeftStep, IInvAlways, PTL DEF Spec

(* A listener's promise resolves in a step that ends in an idle queue.      *)
THEOREM ListenersWakeAtIdle == Spec => ListenersWakeOnlyAtIdle
<1> DEFINE Wake == \A w \in Waiter : listener[w] # "resolved" /\ listener'[w] = "resolved"
                                      => Idle'
<1>1. IInv /\ IInv' /\ [Next]_vars => [Wake]_vars
  <2> SUFFICES ASSUME IInv, IInv', Next, NEW w \in Waiter,
                      listener[w] # "resolved", listener'[w] = "resolved"
               PROVE  Idle'
    BY DEF vars
  <2>1. ASSUME NEW p \in Push, ReleaseOnly(p) PROVE Idle'
    <3>1. cfg.concurrency \in Nat /\ inFlight <= cfg.concurrency /\ inFlight \in Nat
      <4>1. cfg.concurrency \in Nat
        BY PQueueAssumption DEF IInv, TypeOK
      <4> QED BY <4>1 DEF IInv, TypeOK, SlotsAccounted
    <3>2. queue = <<>>
      BY <2>1, <3>1 DEF ReleaseOnly, Freed, NoneLeft
    <3> QED BY <2>1, <3>2 DEF ReleaseOnly, Freed, NoneLeft, Idle
  <2>2. ASSUME NEW v \in Waiter, OnIdle(v) PROVE Idle'
    BY <2>2 DEF OnIdle, Idle, IInv, TypeOK
  <2>3. ASSUME NEW p \in Push,
               \/ \E f \in Fn : PushJob(p, f)
               \/ \E ok \in BOOLEAN : Settle(p, ok)
               \/ ReleaseAndRefill(p)
        PROVE  FALSE
    BY <2>3 DEF PushJob, Settle, ReleaseAndRefill
  <2> QED BY <2>1, <2>2, <2>3 DEF Next
<1> QED BY <1>1, IInvAlways, PTL DEF Spec, ListenersWakeOnlyAtIdle

-----------------------------------------------------------------------------
\* The job has done what the answer to its push waits for.
Done(j, p) == IF cfg.resolveOn = "start" THEN j[p] \notin {"idle", "queued"}
                                         ELSE j[p] \in {"settled", "released"}

(* A push that was answered was by a job of its own function that is done,  *)
(* and a job that is done has had its function's push answered.             *)
AnswersInv ==
  /\ \A f \in Fn : defer[f].by # Nobody =>
       /\ fnOf[defer[f].by] = f /\ Done(job, defer[f].by)
       /\ cfg.resolveOn = "start" => defer[f].st = "void"
       /\ defer[f].st = "rejected" => cfg.errorMode = "THROW_IMMEDIATELY"
  /\ \A p \in Push : job[p] # "idle" =>
       /\ fnOf[p] \in Fn
       /\ defer[fnOf[p]].st # "none"
       /\ Done(job, p) => defer[fnOf[p]].st # "pending"

\* How a start moves the defer of its function.
LEMMA StartMoves ==
  ASSUME NEW d \in [st : DeferState, by : Push \cup {Nobody}], NEW p \in Push
  PROVE  /\ Opened(d).by = d.by
         /\ Opened(d).st = IF d.st = "none" THEN "pending" ELSE d.st
         /\ cfg.resolveOn = "start" =>
              /\ OnStart(Opened(d), p).st \notin {"none", "pending"}
              /\ \/ OnStart(Opened(d), p).st = "void" /\ OnStart(Opened(d), p).by = p
                 \/ OnStart(Opened(d), p) = d
         /\ cfg.resolveOn # "start" => OnStart(Opened(d), p) = Opened(d)
<1>1. Opened(d).by = d.by /\ Opened(d).st = IF d.st = "none" THEN "pending" ELSE d.st
  BY DEF Opened
<1>2. CASE cfg.resolveOn = "start"
  <2>1. OnStart(Opened(d), p) = Settled(Opened(d), "void", p)
    BY <1>2 DEF OnStart
  <2>2. CASE d.st \in {"none", "pending"}
    BY <1>1, <1>2, <2>1, <2>2 DEF Settled
  <2>3. CASE d.st \notin {"none", "pending"}
    BY <1>1, <1>2, <2>1, <2>3 DEF Settled, Opened
  <2> QED
    BY <2>2, <2>3
<1>3. CASE cfg.resolveOn # "start"
  BY <1>1, <1>3 DEF OnStart
<1> QED
  BY <1>2, <1>3

\* How an end moves it.
LEMMA EndMoves ==
  ASSUME TypeOK, NEW d \in [st : DeferState, by : Push \cup {Nobody}], NEW p \in Push,
         NEW ok \in BOOLEAN
  PROVE  \/ OnFinish(d, p, ok) = d /\ (cfg.resolveOn = "start" \/ d.st # "pending")
         \/ /\ cfg.resolveOn # "start"
            /\ OnFinish(d, p, ok).by = p
            /\ OnFinish(d, p, ok).st \in {"resolved", "void", "rejected"}
            /\ OnFinish(d, p, ok).st = "rejected" => cfg.errorMode = "THROW_IMMEDIATELY"
<1>1. cfg.resolveOn \in {"finish", "start"} /\ cfg.errorMode \in {"THROW_IMMEDIATELY", "SUPPRESS"}
  BY DEF TypeOK
<1>2. CASE cfg.resolveOn = "start"
  BY <1>2 DEF OnFinish
<1>3. CASE cfg.resolveOn # "start"
  <2>1. PICK s \in {"resolved", "void", "rejected"} :
          /\ OnFinish(d, p, ok) = Settled(d, s, p)
          /\ s = "rejected" => cfg.errorMode = "THROW_IMMEDIATELY"
    <3>1. CASE ok
      BY <1>1, <1>3, <3>1 DEF OnFinish
    <3>2. CASE ~ok /\ cfg.errorMode = "SUPPRESS"
      BY <1>1, <1>3, <3>2 DEF OnFinish
    <3>3. CASE ~ok /\ cfg.errorMode = "THROW_IMMEDIATELY"
      BY <1>1, <1>3, <3>3 DEF OnFinish
    <3> QED
      BY <1>1, <3>1, <3>2, <3>3
  <2> QED
    BY <1>3, <2>1 DEF Settled
<1> QED
  BY <1>2, <1>3

(* A step that moves the defer of f on behalf of p, and brings no other job *)
(* to an end.                                                               *)
LEMMA AnswersKept ==
  ASSUME TypeOK, AnswersInv, NEW f \in Fn, NEW p \in Push, cfg' = cfg,
         NEW e, defer' = [defer EXCEPT ![f] = e],
         fnOf'[p] = f, \A q \in Push : q # p => fnOf'[q] = fnOf[q],
         job[p] = "idle" \/ fnOf[p] = f,
         job'[p] # "idle", Done(job, p) => Done(job', p),
         \A q \in Push : q # p => (job'[q] = "idle" <=> job[q] = "idle") /\ (Done(job', q) <=> Done(job, q)),
         e.st # "none", Done(job', p) => e.st # "pending",
         defer[f].st \notin {"none", "pending"} => e.st # "pending",
         \/ e.by = defer[f].by /\ (e.by # Nobody /\ cfg.resolveOn = "start" => e.st = "void")
                              /\ (e.by # Nobody /\ e.st = "rejected" =>
                                    cfg.errorMode = "THROW_IMMEDIATELY")
         \/ /\ e.by = p /\ Done(job', p)
            /\ cfg.resolveOn = "start" => e.st = "void"
            /\ e.st = "rejected" => cfg.errorMode = "THROW_IMMEDIATELY"
  PROVE  AnswersInv'
<1>1. /\ defer \in [Fn -> [st : DeferState, by : Push \cup {Nobody}]]
      /\ defer'[f] = e /\ \A g \in Fn : g # f => defer'[g] = defer[g]
  BY DEF TypeOK
<1>2. \A q \in Push : Done(job, q) => job[q] # "idle"
  BY DEF Done
<1>3. ASSUME NEW g \in Fn, defer[g].by # Nobody
      PROVE  /\ defer[g].by \in Push /\ Done(job', defer[g].by)
             /\ fnOf'[defer[g].by] = g
  <2>1. defer[g].by \in Push /\ fnOf[defer[g].by] = g /\ Done(job, defer[g].by)
    BY <1>1, <1>3 DEF AnswersInv
  <2> QED
    BY <1>2, <2>1
<1>4. ASSUME NEW g \in Fn, defer'[g].by # Nobody
      PROVE  /\ fnOf'[defer'[g].by] = g /\ Done(job', defer'[g].by)
             /\ cfg.resolveOn = "start" => defer'[g].st = "void"
             /\ defer'[g].st = "rejected" => cfg.errorMode = "THROW_IMMEDIATELY"
  <2>1. CASE g = f /\ e.by = defer[f].by
    BY <1>1, <1>3, <1>4, <2>1 DEF AnswersInv
  <2>2. CASE g = f /\ e.by = p /\ e.by # defer[f].by
    BY <1>1, <2>2
  <2>3. CASE g # f
    BY <1>1, <1>3, <1>4, <2>3 DEF AnswersInv
  <2> QED
    BY <2>1, <2>2, <2>3
<1>5. ASSUME NEW q \in Push, job'[q] # "idle"
      PROVE  /\ fnOf'[q] \in Fn /\ defer'[fnOf'[q]].st # "none"
             /\ Done(job', q) => defer'[fnOf'[q]].st # "pending"
  <2>1. CASE q = p
    BY <1>1, <2>1
  <2>2. CASE q # p
    <3>1. /\ fnOf'[q] = fnOf[q] /\ fnOf[q] \in Fn /\ defer[fnOf[q]].st # "none"
          /\ Done(job', q) => defer[fnOf[q]].st # "pending"
      BY <1>5, <2>2 DEF AnswersInv
    <3> QED
      BY <1>1, <3>1
  <2> QED
    BY <2>1, <2>2
<1> QED
  BY <1>4, <1>5 DEF AnswersInv, Done

LEMMA AnswersStep == IInv /\ AnswersInv /\ [Next]_vars => AnswersInv'
<1> SUFFICES ASSUME IInv, AnswersInv, [Next]_vars
             PROVE  AnswersInv'
  OBVIOUS
<1> DEFINE Defer == [st : DeferState, by : Push \cup {Nobody}]
<1>1. /\ TypeOK /\ defer \in [Fn -> Defer] /\ job \in [Push -> JobState]
      /\ fnOf \in [Push -> Fn \cup {Nobody}] /\ Nobody \notin Push
  BY PQueueAssumption DEF IInv, TypeOK
<1>2. CASE UNCHANGED vars \/ \E w \in Waiter : OnIdle(w)
  <2>1. UNCHANGED <<cfg, fnOf, defer, job>>
    BY <1>2 DEF vars, OnIdle
  <2> QED
    BY <2>1 DEF AnswersInv, Done
<1>3. ASSUME NEW p \in Push, ReleaseOnly(p)
      PROVE  AnswersInv'
  <2>1. /\ UNCHANGED <<cfg, fnOf, defer>> /\ job[p] = "settled"
        /\ job' = [job EXCEPT ![p] = "released"]
    BY <1>3 DEF ReleaseOnly
  <2>2. \A q \in Push : (Done(job', q) <=> Done(job, q)) /\ (job'[q] = "idle" <=> job[q] = "idle")
    BY <1>1, <2>1 DEF Done
  <2>3. \A f \in Fn : defer[f].by # Nobody => defer[f].by \in Push
    BY <1>1
  <2>4. \A q : Done(job, q)' = Done(job', q)
    BY <2>1 DEF Done
  <2> QED
    BY <2>1, <2>2, <2>3, <2>4 DEF AnswersInv, Done
<1>4. ASSUME NEW p \in Push, NEW f \in Fn, NEW j, job[p] = "idle" \/ (fnOf[p] = f /\ job[p] = "queued"),
             cfg' = cfg, fnOf'[p] = f, \A q \in Push : q # p => fnOf'[q] = fnOf[q],
             j \in [Push -> JobState], \A q \in Push : (j[q] = "idle" <=> job[q] = "idle")
                                                    /\ (Done(j, q) <=> Done(job, q)),
             \/ /\ defer' = [defer EXCEPT ![f] = OnStart(Opened(defer[f]), p)]
                /\ \E s \in {"running", "threw"} : job' = [j EXCEPT ![p] = s]
             \/ /\ defer' = [defer EXCEPT ![f] = Opened(defer[f])]
                /\ job' = [j EXCEPT ![p] = "queued"]
      PROVE  AnswersInv'
  <2>1. /\ defer[f] \in Defer /\ TRUE \in BOOLEAN
        /\ \A q \in Push : q # p => j[q] = job'[q]
    BY <1>1, <1>4
  <2>2. \A q \in Push : q # p => (job'[q] = "idle" <=> job[q] = "idle") /\ (Done(job', q) <=> Done(job, q))
    BY <1>4, <2>1 DEF Done
  <2>3. ~Done(job, p)
    BY <1>4 DEF Done
  <2>4. defer[f].by # Nobody => /\ cfg.resolveOn = "start" => defer[f].st = "void"
                                /\ defer[f].st = "rejected" => cfg.errorMode = "THROW_IMMEDIATELY"
    BY DEF AnswersInv
  <2>5. ASSUME NEW e, defer' = [defer EXCEPT ![f] = e],
               job'[p] \notin {"idle", "settled", "released"},
               \/ e.st = "void" /\ e.by = p /\ Done(job', p)
               \/ e = defer[f] /\ e.st \notin {"none", "pending"}
               \/ /\ e.by = defer[f].by /\ ~Done(job', p)
                  /\ e.st = IF defer[f].st = "none" THEN "pending" ELSE defer[f].st
        PROVE  AnswersInv'
    <3>1. /\ e.st # "none" /\ (Done(job', p) => e.st # "pending")
          /\ defer[f].st \notin {"none", "pending"} => e.st # "pending"
      BY <2>5
    <3>2. \/ e.by = defer[f].by /\ (e.by # Nobody /\ cfg.resolveOn = "start" => e.st = "void")
                                /\ (e.by # Nobody /\ e.st = "rejected" =>
                                      cfg.errorMode = "THROW_IMMEDIATELY")
          \/ /\ e.by = p /\ Done(job', p)
             /\ cfg.resolveOn = "start" => e.st = "void"
             /\ e.st = "rejected" => cfg.errorMode = "THROW_IMMEDIATELY"
      BY <2>4, <2>5
    <3>3. Done(job, p) => Done(job', p)
      BY <2>3
    <3>4. job'[p] # "idle" /\ (job[p] = "idle" \/ fnOf[p] = f)
      BY <1>4, <2>5
    <3>5. cfg' = cfg /\ fnOf'[p] = f /\ \A q \in Push : q # p => fnOf'[q] = fnOf[q]
      BY <1>4
    <3>6. defer' = [defer EXCEPT ![f] = e] /\ TypeOK
      BY <1>1, <2>5
    <3> QED
      BY ONLY AnswersInv, p \in Push, f \in Fn, <2>2, <3>1, <3>2, <3>3, <3>4, <3>5, <3>6, AnswersKept
  <2>6. CASE /\ defer' = [defer EXCEPT ![f] = OnStart(Opened(defer[f]), p)]
             /\ \E s \in {"running", "threw"} : job' = [j EXCEPT ![p] = s]
    <3>1. job'[p] \in {"running", "threw"}
      BY <1>4, <2>6
    <3>2. Done(job', p) <=> cfg.resolveOn = "start"
      BY <3>1 DEF Done
    <3>3. PICK e : e = OnStart(Opened(defer[f]), p)
      OBVIOUS
    <3>4. \/ e.st = "void" /\ e.by = p /\ Done(job', p)
          \/ e = defer[f] /\ e.st \notin {"none", "pending"}
          \/ /\ e.by = defer[f].by /\ ~Done(job', p)
             /\ e.st = IF defer[f].st = "none" THEN "pending" ELSE defer[f].st
      BY <2>1, <3>2, <3>3, StartMoves
    <3> QED
      BY <2>5, <2>6, <3>1, <3>3, <3>4
  <2>7. CASE /\ defer' = [defer EXCEPT ![f] = Opened(defer[f])]
             /\ job' = [j EXCEPT ![p] = "queued"]
    <3>1. job'[p] = "queued"
      BY <1>4, <2>7
    <3>2. ~Done(job', p)
      BY <3>1 DEF Done
    <3>3. PICK e : e = Opened(defer[f])
      OBVIOUS
    <3>4. e.by = defer[f].by /\ e.st = IF defer[f].st = "none" THEN "pending" ELSE defer[f].st
      BY <2>1, <3>3, StartMoves
    <3> QED
      BY <2>5, <2>7, <3>1, <3>2, <3>3, <3>4
  <2> QED
    BY <1>4, <2>6, <2>7
<1>5. ASSUME NEW p \in Push, NEW f \in Fn, PushJob(p, f)
      PROVE  AnswersInv'
  <2>1. /\ job[p] = "idle" /\ cfg' = cfg /\ fnOf' = [fnOf EXCEPT ![p] = f]
        /\ \/ /\ defer' = [defer EXCEPT ![f] = OnStart(Opened(defer[f]), p)]
              /\ \E s \in {"running", "threw"} : job' = [job EXCEPT ![p] = s]
           \/ /\ defer' = [defer EXCEPT ![f] = Opened(defer[f])]
              /\ job' = [job EXCEPT ![p] = "queued"]
    BY <1>5 DEF PushJob, Admit, StartOutcome
  <2>2. fnOf'[p] = f /\ \A q \in Push : q # p => fnOf'[q] = fnOf[q]
    BY <1>1, <2>1
  <2> QED
    BY <1>1, <1>4, <2>1, <2>2
<1>6. ASSUME NEW p \in Push, ReleaseAndRefill(p)
      PROVE  AnswersInv'
  <2> DEFINE next == Head(queue)
             j == [job EXCEPT ![p] = "released"]
  <2>1. next \in Push /\ job[next] = "queued"
    BY <1>6, RefillStarts
  <2>2. /\ job[p] = "settled" /\ cfg' = cfg /\ fnOf' = fnOf
        /\ \/ /\ defer' = [defer EXCEPT ![fnOf[next]] = OnStart(Opened(@), next)]
              /\ \E s \in {"running", "threw"} : job' = [j EXCEPT ![next] = s]
           \/ /\ defer' = [defer EXCEPT ![fnOf[next]] = Opened(@)]
              /\ job' = [j EXCEPT ![next] = "queued"]
    BY <1>6 DEF ReleaseAndRefill, Admit, StartOutcome
  <2>3. fnOf[next] \in Fn
    BY <2>1 DEF AnswersInv
  <2>4. j \in [Push -> JobState] /\ \A q \in Push : (j[q] = "idle" <=> job[q] = "idle")
                                                   /\ (Done(j, q) <=> Done(job, q))
    BY <1>1, <2>2 DEF Done, JobState
  <2> HIDE DEF next, j
  <2>5. \/ /\ defer' = [defer EXCEPT ![fnOf[next]] = OnStart(Opened(defer[fnOf[next]]), next)]
           /\ \E s \in {"running", "threw"} : job' = [j EXCEPT ![next] = s]
        \/ /\ defer' = [defer EXCEPT ![fnOf[next]] = Opened(defer[fnOf[next]])]
           /\ job' = [j EXCEPT ![next] = "queued"]
    BY <2>2
  <2> QED
    BY <1>4, <2>1, <2>2, <2>3, <2>4, <2>5
<1>7. ASSUME NEW p \in Push, NEW ok \in BOOLEAN, Settle(p, ok)
      PROVE  AnswersInv'
  <2>1. PICK f \in Fn : fnOf[p] = f
    BY <1>7 DEF Settle, AnswersInv
  <2>2. PICK e : e = OnFinish(defer[f], p, ok)
    OBVIOUS
  <2>3. /\ job[p] = "running" /\ cfg' = cfg /\ fnOf' = fnOf
        /\ job' = [job EXCEPT ![p] = "settled"] /\ defer' = [defer EXCEPT ![f] = e]
    BY <1>7, <2>1, <2>2 DEF Settle
  <2>4. job'[p] = "settled" /\ Done(job', p) /\ defer[f] \in Defer
    BY <1>1, <2>3 DEF Done
  <2>5. \A q \in Push : q # p => (job'[q] = "idle" <=> job[q] = "idle") /\ (Done(job', q) <=> Done(job, q))
    BY <1>1, <2>3 DEF Done
  <2>6. /\ defer[f].st # "none" /\ (cfg.resolveOn = "start" => defer[f].st # "pending")
        /\ defer[f].by # Nobody => /\ cfg.resolveOn = "start" => defer[f].st = "void"
                                   /\ defer[f].st = "rejected" => cfg.errorMode = "THROW_IMMEDIATELY"
    BY <2>1, <2>3 DEF AnswersInv, Done
  <2>7. CASE e = defer[f] /\ defer[f].st # "pending"
    BY <1>1, <2>1, <2>3, <2>4, <2>5, <2>6, <2>7, AnswersKept
  <2>8. CASE /\ e.by = p /\ e.st \in {"resolved", "void", "rejected"} /\ cfg.resolveOn # "start"
             /\ e.st = "rejected" => cfg.errorMode = "THROW_IMMEDIATELY"
    BY <1>1, <2>1, <2>3, <2>4, <2>5, <2>6, <2>8, AnswersKept
  <2> QED
    BY <1>1, <2>2, <2>4, <2>6, <2>7, <2>8, EndMoves
<1> QED
  BY <1>2, <1>3, <1>5, <1>6, <1>7 DEF Next

\* Where what a function throws goes to: the promise of the push it was called in.
PromisesInv ==
  \A p \in Push :
    /\ job[p] = "idle" <=> returned[p] = "none"
    /\ job[p] \in {"idle", "queued"} => voided[p] = "none"
    /\ job[p] = "threw" <=> "threw" \in {returned[p], voided[p]}
    /\ returned[p] = "threw" => voided[p] = "none"

LEMMA PromisesStep == IInv /\ PromisesInv /\ [Next]_vars => PromisesInv'
<1> SUFFICES ASSUME IInv, PromisesInv, [Next]_vars
             PROVE  PromisesInv'
  OBVIOUS
<1>1. /\ job \in [Push -> JobState] /\ returned \in [Push -> Promise]
      /\ voided \in [Push -> Promise]
  BY DEF IInv, TypeOK
<1>2. CASE UNCHANGED <<job, returned, voided>>
  BY <1>2 DEF PromisesInv
<1>3. ASSUME NEW p \in Push, UNCHANGED <<returned, voided>>,
             \/ job[p] = "running" /\ job' = [job EXCEPT ![p] = "settled"]
             \/ job[p] = "settled" /\ job' = [job EXCEPT ![p] = "released"]
      PROVE  PromisesInv'
  BY <1>1, <1>3 DEF PromisesInv
<1>4. ASSUME NEW p \in Push, NEW f \in Fn, PushJob(p, f)
      PROVE  PromisesInv'
  <2>1. PICK s \in {"running", "threw", "queued"} : job' = [job EXCEPT ![p] = s]
    BY <1>4 DEF PushJob, Admit, StartOutcome
  <2>2. /\ job[p] = "idle" /\ voided' = voided
        /\ returned' = [returned EXCEPT ![p] = Promised(s)]
    BY <1>1, <1>4, <2>1 DEF PushJob
  <2> QED
    BY <1>1, <2>1, <2>2 DEF PromisesInv, Promised
<1>5. ASSUME NEW p \in Push, ReleaseAndRefill(p)
      PROVE  PromisesInv'
  <2> DEFINE next == Head(queue)
  <2>1. next \in Push /\ next # p /\ job[next] = "queued" /\ job[p] = "settled"
    BY <1>5, RefillStarts DEF ReleaseAndRefill
  <2>2. PICK s \in {"running", "threw"} :
          job' = [job EXCEPT ![p] = "released", ![next] = s]
    BY <1>5, RefillStarts
  <2> HIDE DEF next
  <2>3. returned' = returned /\ voided' = [voided EXCEPT ![next] = Promised(s)]
    <3>1. returned' = returned /\ voided' = [voided EXCEPT ![next] = Promised(job'[next])]
      BY <1>5 DEF ReleaseAndRefill, next
    <3>2. job'[next] = s
      BY <1>1, <2>1, <2>2
    <3> QED
      BY <3>1, <3>2
  <2>4. /\ voided'[next] = Promised(s) /\ \A q \in Push : q # next => voided'[q] = voided[q]
        /\ job'[next] = s /\ job'[p] = "released"
        /\ \A q \in Push \ {p, next} : job'[q] = job[q]
    BY <1>1, <2>1, <2>2, <2>3
  <2>5. returned[next] = "defer"
    BY <1>1, <2>1 DEF PromisesInv, Promise
  <2>6. returned[p] # "none" /\ "threw" \notin {returned[p], voided[p]}
    BY <2>1 DEF PromisesInv
  <2> QED
    BY <2>1, <2>2, <2>3, <2>4, <2>5, <2>6 DEF PromisesInv, Promised
<1> QED
  BY <1>2, <1>3, <1>4, <1>5 DEF Next, vars, OnIdle, Settle, ReleaseOnly

(* A defer is settled by a job of its function that has started or ended as *)
(* resolveOn says, and none is left pending after that; what a function     *)
(* throws rejects the promise of the push it was called in, and no other    *)
(* (pQueue.ts:121-136, 145, 159).                                           *)
THEOREM AlwaysAnsweredByItsJob == Spec => []AnsweredByItsJob
<1>1. Init => AnswersInv /\ PromisesInv
  BY DEF Init, AnswersInv, PromisesInv
<1>2. IInv /\ AnswersInv /\ PromisesInv => AnsweredByItsJob
  <2> SUFFICES ASSUME IInv, AnswersInv, PromisesInv
               PROVE  AnsweredByItsJob
    OBVIOUS
  <2>1. ASSUME NEW f \in Fn
        PROVE  /\ defer[f].by # Nobody =>
                     /\ fnOf[defer[f].by] = f
                     /\ IF cfg.resolveOn = "start"
                        THEN job[defer[f].by] \notin {"idle", "queued"} /\ defer[f].st = "void"
                        ELSE job[defer[f].by] \in {"settled", "released"}
                     /\ defer[f].st = "rejected" => cfg.errorMode = "THROW_IMMEDIATELY"
               /\ defer[f].st = "pending" =>
                     \A p \in Push : fnOf[p] = f => job[p] \notin {"settled", "released"}
    BY DEF AnswersInv, Done
  <2> QED
    BY <2>1 DEF AnsweredByItsJob, PromisesInv
<1> QED
  BY <1>1, <1>2, AnswersStep, PromisesStep, IInvAlways, PTL DEF Spec

=============================================================================
