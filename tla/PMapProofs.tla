----------------------------- MODULE PMapProofs ------------------------------
(* pMap keeps to its concurrency, takes up nothing after its answer, and    *)
(* answers with all the values or the errors it should: for any number of   *)
(* items and any concurrency.                                               *)
EXTENDS PMap, FiniteSetTheorems, WellFoundedInduction, TLAPS

PTypes ==
  /\ opt \in [n : Item, concurrency : 0..MaxConcurrency, errorMode : ErrorMode]
  /\ item \in [Item -> {"idle", "taken", "done"}]
  /\ resolvingCount \in Int
  /\ currentIndex \in Nat
  /\ isSettled \in BOOLEAN
  /\ promise.st \in {"uncalled", "pending", "resolved", "rejected"}

Answered == promise.st \in {"resolved", "rejected"}

\* Nothing is under way before the call.
NotBefore == promise.st = "uncalled" => UnderWay = {} /\ ~isSettled

\* The general case: until it is settled what is under way is counted, and fills
\* the slots as long as an item is left.
General ==
  Mode = "general" /\ promise.st # "uncalled" =>
    /\ Answered => isSettled
    /\ Cardinality(UnderWay) <= opt.concurrency
    /\ \A i \in UnderWay : i <= currentIndex
    /\ ~isSettled => /\ resolvingCount = Cardinality(UnderWay)
                     /\ currentIndex < n => resolvingCount = opt.concurrency

\* The serial case: one at a time, and none after the answer.
Serial ==
  Mode = "one" => /\ \A i, k \in UnderWay : i = k
                  /\ Answered => UnderWay = {}

IInv == PTypes /\ NotBefore /\ General /\ Serial

\* Mappers are called for items taken off the list only.
CalledTaken == called \subseteq {i \in Item : item[i] # "idle"}

-----------------------------------------------------------------------------
LEMMA UnderWayFinite ==
  /\ IsFiniteSet(Item) /\ IsFiniteSet(UnderWay) /\ Cardinality(UnderWay) \in Nat
  /\ \A i \in Item : i \in Nat
<1>1. MaxItems \in Nat /\ 1 \in Int /\ MaxItems \in Int
  BY PMapAssumption
<1>2. IsFiniteSet(Item)
  BY <1>1, FS_Interval DEF Item
<1>3. UnderWay \subseteq Item
  BY DEF UnderWay
<1>4. IsFiniteSet(UnderWay)
  BY <1>2, <1>3, FS_Subset
<1>5. Cardinality(UnderWay) \in Nat
  BY <1>4, FS_CardinalityType
<1> QED
  BY <1>1, <1>2, <1>4, <1>5 DEF Item

LEMMA Options ==
  ASSUME PTypes
  PROVE  /\ n \in Nat /\ opt.concurrency \in Nat /\ n \in Item
         /\ Mode = "general" => opt.concurrency < n
         /\ Mode \in {"one", "all", "general"}
<1>1. opt.n \in Item /\ opt.concurrency \in 0..MaxConcurrency
  BY DEF PTypes
<1>2. n \in Nat /\ opt.concurrency \in Nat
  BY <1>1, UnderWayFinite, PMapAssumption DEF n
<1> QED
  BY <1>1, <1>2 DEF Mode, n

\* A mapper that is done makes room for one.
LEMMA OneLess ==
  ASSUME PTypes, NEW i \in UnderWay, item' = [item EXCEPT ![i] = "done"]
  PROVE  /\ item' \in [Item -> {"idle", "taken", "done"}]
         /\ UnderWay' = UnderWay \ {i} /\ Cardinality(UnderWay') = Cardinality(UnderWay) - 1
<1>1. item' \in [Item -> {"idle", "taken", "done"}] /\ UnderWay' = UnderWay \ {i}
  BY DEF UnderWay, PTypes
<1>2. Cardinality(UnderWay \ {i}) = Cardinality(UnderWay) - 1
  BY UnderWayFinite, FS_RemoveElement
<1> QED
  BY <1>1, <1>2

LEMMA Replaced ==
  ASSUME PTypes, NEW i \in UnderWay, NEW k \in Item, k \notin UnderWay,
         item' = [item EXCEPT ![i] = "done", ![k] = "taken"]
  PROVE  /\ item' \in [Item -> {"idle", "taken", "done"}]
         /\ UnderWay' = (UnderWay \ {i}) \cup {k}
         /\ Cardinality(UnderWay') = Cardinality(UnderWay)
<1>1. item' \in [Item -> {"idle", "taken", "done"}] /\ UnderWay' = (UnderWay \ {i}) \cup {k}
  BY DEF UnderWay, PTypes
<1>2. IsFiniteSet(UnderWay \ {i}) /\ Cardinality(UnderWay \ {i}) = Cardinality(UnderWay) - 1
  BY UnderWayFinite, FS_RemoveElement
<1>3. Cardinality((UnderWay \ {i}) \cup {k}) = Cardinality(UnderWay \ {i}) + 1
  BY <1>2, FS_AddElement
<1> QED
  BY <1>1, <1>2, <1>3, UnderWayFinite

\* What the continuation of item i does, in the terms of the invariant.
LEMMA Settling ==
  ASSUME PTypes
  PROVE  /\ \A s : Resolved(s).st = IF promise.st = "pending" THEN "resolved" ELSE promise.st
         /\ \A s : Rejected(s).st = IF promise.st = "pending" THEN "rejected" ELSE promise.st
         /\ \A r, e : Concluded(r, e).st \in
                        (IF promise.st = "pending" THEN {"resolved", "rejected"} ELSE {promise.st})
<1>1. /\ \A s : Resolved(s).st = IF promise.st = "pending" THEN "resolved" ELSE promise.st
      /\ \A s : Rejected(s).st = IF promise.st = "pending" THEN "rejected" ELSE promise.st
  BY DEF Resolved, Rejected
<1> QED
  BY <1>1 DEF Concluded

LEMMA NextItemPreserves ==
  ASSUME IInv, Mode = "general", opt' = opt, NEW i \in Item, item[i] = "taken",
         NEW r, NEW e, NextItem(i, r, e, Left)
  PROVE  IInv'
<1> USE DEF IInv
<1> DEFINE rc == resolvingCount - 1
<1>1. i \in UnderWay /\ promise.st # "uncalled" /\ Mode' = "general" /\ n' = n
  BY DEF UnderWay, NotBefore, Mode, n
<1>2. /\ Answered => isSettled
      /\ Cardinality(UnderWay) <= opt.concurrency
      /\ \A k \in UnderWay : k <= currentIndex
      /\ ~isSettled => /\ resolvingCount = Cardinality(UnderWay)
                       /\ currentIndex < n => resolvingCount = opt.concurrency
  BY <1>1 DEF General
<1>3. /\ n \in Nat /\ n \in Item /\ opt.concurrency \in Nat /\ Cardinality(UnderWay) \in Nat
      /\ currentIndex \in Nat /\ resolvingCount \in Int /\ isSettled \in BOOLEAN
      /\ opt' \in [n : Item, concurrency : 0..MaxConcurrency, errorMode : ErrorMode]
  BY Options, UnderWayFinite DEF PTypes
<1>4. currentIndex' = IF isSettled THEN currentIndex ELSE currentIndex + 1
  BY DEF NextItem
<1>5. CASE /\ ~isSettled /\ currentIndex < n
           /\ item' = [item EXCEPT ![i] = "done", ![currentIndex + 1] = "taken"]
           /\ resolvingCount' = rc + 1 /\ UNCHANGED <<isSettled, promise>>
  <2>1. currentIndex + 1 \in Item /\ currentIndex + 1 \notin UnderWay
    <3>1. n <= MaxItems /\ MaxItems \in Nat
      BY <1>3, PMapAssumption DEF Item
    <3>2. currentIndex + 1 \in 1..MaxItems
      BY <1>3, <1>5, <3>1
    <3>3. \A k \in UnderWay : k \in Nat /\ k # currentIndex + 1
      BY <1>2, <1>3, UnderWayFinite DEF UnderWay
    <3> QED
      BY <3>2, <3>3 DEF Item
  <2>2. /\ item' \in [Item -> {"idle", "taken", "done"}]
        /\ UnderWay' = (UnderWay \ {i}) \cup {currentIndex + 1}
        /\ Cardinality(UnderWay') = Cardinality(UnderWay)
    BY <1>1, <1>5, <2>1, Replaced
  <2>3. PTypes'
    BY <1>3, <1>4, <1>5, <2>2 DEF PTypes
  <2>4. NotBefore' /\ Serial'
    BY <1>1, <1>5 DEF NotBefore, Serial
  <2>5. \A k \in UnderWay' : k <= currentIndex'
    <3>1. \A k \in UnderWay : k \in Nat /\ k <= currentIndex
      BY <1>2, UnderWayFinite DEF UnderWay
    <3> QED
      BY <1>3, <1>4, <1>5, <2>2, <3>1
  <2>6. resolvingCount' = Cardinality(UnderWay') /\ resolvingCount' = opt.concurrency
    BY <1>2, <1>3, <1>5, <2>2
  <2>7. Answered' = Answered
    BY <1>5 DEF Answered
  <2> QED
    BY <1>1, <1>2, <1>5, <2>2, <2>3, <2>4, <2>5, <2>6, <2>7 DEF General
<1>6. CASE /\ ~(~isSettled /\ currentIndex < n)
           /\ item' = [item EXCEPT ![i] = "done"] /\ resolvingCount' = rc
           /\ isSettled' = (isSettled \/ Stop(rc))
           /\ promise' = IF Stop(rc) THEN Concluded(r, e) ELSE promise
  <2>1. /\ item' \in [Item -> {"idle", "taken", "done"}]
        /\ UnderWay' = UnderWay \ {i} /\ Cardinality(UnderWay') = Cardinality(UnderWay) - 1
    BY <1>1, <1>6, OneLess
  <2>2. Stop(rc) \in BOOLEAN
    BY DEF Stop
  <2>3. isSettled' \in BOOLEAN /\ (isSettled' <=> isSettled \/ Stop(rc))
    BY <1>6, <2>2, <1>3
  <2>4. /\ promise'.st \in {"pending", "resolved", "rejected"}
        /\ promise'.st # "pending" => Answered \/ Stop(rc)
    <3>1. CASE Stop(rc)
      BY <1>1, <1>6, <3>1, Settling DEF PTypes
    <3>2. CASE ~Stop(rc)
      BY <1>1, <1>6, <3>2 DEF PTypes, Answered
    <3> QED
      BY <3>1, <3>2
  <2>5. PTypes'
    <3>1. currentIndex' \in Nat /\ resolvingCount' \in Int
      BY <1>3, <1>4, <1>6
    <3> QED
      BY <1>3, <2>1, <2>3, <2>4, <3>1 DEF PTypes
  <2>6. NotBefore' /\ Serial'
    BY <1>1, <2>4 DEF NotBefore, Serial
  <2>7. /\ Answered' => isSettled'
        /\ ~isSettled' => ~isSettled
    BY <1>2, <2>3, <2>4 DEF Answered
  <2>8. Cardinality(UnderWay') <= opt.concurrency
    BY <1>2, <1>3, <2>1
  <2>9. \A k \in UnderWay' : k <= currentIndex'
    <3>1. \A k \in UnderWay : k \in Nat /\ k <= currentIndex
      BY <1>2, UnderWayFinite DEF UnderWay
    <3> QED
      BY <1>3, <1>4, <2>1, <3>1
  <2>10. ~isSettled => /\ resolvingCount' = Cardinality(UnderWay')
                       /\ ~(currentIndex' < n)
    BY <1>2, <1>3, <1>4, <1>6, <2>1
  <2> QED
    BY <1>1, <2>5, <2>6, <2>7, <2>8, <2>9, <2>10 DEF General
<1> QED
  BY <1>5, <1>6 DEF NextItem, MayStart, Left

\* Settled without a further item: by END, or by a fatal error.
LEMMA SettledPreserves ==
  ASSUME IInv, Mode = "general", opt' = opt, NEW i \in Item, item[i] = "taken",
         item' = [item EXCEPT ![i] = "done"], isSettled' = TRUE,
         promise'.st \in {"pending", "resolved", "rejected"},
         UNCHANGED <<resolvingCount, currentIndex>>
  PROVE  IInv'
<1> USE DEF IInv
<1>1. i \in UnderWay /\ promise.st # "uncalled" /\ Mode' = "general"
  BY DEF UnderWay, NotBefore, Mode, n
<1>2. Cardinality(UnderWay) <= opt.concurrency /\ \A k \in UnderWay : k <= currentIndex
  BY <1>1 DEF General
<1>3. opt.concurrency \in Nat /\ Cardinality(UnderWay) \in Nat
  BY Options, UnderWayFinite
<1>4. /\ item' \in [Item -> {"idle", "taken", "done"}]
      /\ UnderWay' = UnderWay \ {i} /\ Cardinality(UnderWay') = Cardinality(UnderWay) - 1
  BY <1>1, OneLess
<1>5. Cardinality(UnderWay') <= opt.concurrency /\ \A k \in UnderWay' : k <= currentIndex'
  BY <1>2, <1>3, <1>4
<1>6. PTypes'
  BY <1>4 DEF PTypes
<1>7. NotBefore' /\ Serial'
  BY <1>1 DEF NotBefore, Serial
<1> QED
  BY <1>5, <1>6, <1>7 DEF General

LEMMA GeneralPreserves ==
  ASSUME IInv, NEW i \in Item,
         (\E v \in {"val", "skip"} : GeneralValue(i, v)) \/ GeneralEnd(i) \/ GeneralError(i)
  PROVE  IInv'
<1>1. Mode = "general" /\ item[i] = "taken" /\ opt' = opt
  BY DEF GeneralValue, GeneralEnd, GeneralError
<1>2. promise.st \in {"pending", "resolved", "rejected"}
  <2>1. i \in UnderWay
    BY <1>1 DEF UnderWay
  <2> QED
    BY <2>1 DEF IInv, NotBefore, PTypes
<1>3. CASE \E r, e : NextItem(i, r, e, Left)
  BY <1>1, <1>3, NextItemPreserves
<1>4. CASE GeneralEnd(i)
  <2>1. promise'.st \in {"pending", "resolved", "rejected"}
    BY <1>2, <1>4, Settling DEF GeneralEnd, IInv
  <2> QED
    BY <1>1, <1>4, <2>1, SettledPreserves DEF GeneralEnd
<1>5. CASE /\ item' = [item EXCEPT ![i] = "done"] /\ isSettled' = TRUE
           /\ promise' = Rejected(<<i>>) /\ UNCHANGED <<resolvingCount, currentIndex>>
  <2>1. promise'.st \in {"pending", "resolved", "rejected"}
    BY <1>2, <1>5, Settling DEF IInv
  <2> QED
    BY <1>1, <1>5, <2>1, SettledPreserves
<1>6. \A v : GeneralValue(i, v) => \E r, e : NextItem(i, r, e, Left)
  BY DEF GeneralValue
<1>7. GeneralError(i) =>
        \/ \E r, e : NextItem(i, r, e, Left)
        \/ /\ item' = [item EXCEPT ![i] = "done"] /\ isSettled' = TRUE
           /\ promise' = Rejected(<<i>>) /\ UNCHANGED <<resolvingCount, currentIndex>>
  BY DEF GeneralError
<1> QED
  BY <1>3, <1>4, <1>5, <1>6, <1>7

\* The call of the general case fills its slots.
LEMMA CallGeneralPreserves ==
  ASSUME IInv, CallGeneral
  PROVE  IInv'
<1> USE DEF IInv
<1> DEFINE c == opt.concurrency
<1>1. /\ Mode = "general" /\ promise.st = "uncalled" /\ ~isSettled
      /\ item' = [i \in Item |-> IF i <= c THEN "taken" ELSE "idle"]
      /\ resolvingCount' = c /\ currentIndex' = c
      /\ promise' = Pending /\ UNCHANGED <<opt, isSettled>>
  BY DEF CallGeneral, Opening, NotBefore
<1>2. c \in Nat /\ n \in Nat /\ c < n /\ n <= MaxItems /\ MaxItems \in Nat
  BY <1>1, Options, PMapAssumption DEF Item
<1>3. Mode' = "general"
  BY <1>1 DEF Mode, n
<1>4. UnderWay' = 1..c
  <2>1. UnderWay' = {i \in Item : i <= c}
    BY <1>1 DEF UnderWay
  <2>2. \A i \in 1..c : i \in 1..MaxItems /\ i <= c
    BY <1>2
  <2>3. \A i \in 1..MaxItems : i <= c => i \in 1..c
    BY <1>2
  <2> QED
    BY <2>1, <2>2, <2>3 DEF Item
<1>5. Cardinality(1..c) = c
  <2>1. 1 \in Int /\ c \in Int
    BY <1>2
  <2>2. Cardinality(1..c) = IF 1 > c THEN 0 ELSE c - 1 + 1
    BY <2>1, FS_Interval
  <2> QED
    BY <1>2, <2>2
<1>6. promise'.st = "pending"
  BY <1>1 DEF Pending
<1>7. PTypes'
  <2>1. item' \in [Item -> {"idle", "taken", "done"}]
    BY <1>1
  <2>2. resolvingCount' \in Int /\ currentIndex' \in Nat
    BY <1>1, <1>2
  <2> QED
    BY <1>1, <1>6, <2>1, <2>2 DEF PTypes
<1>8. General'
  <2>1. Cardinality(UnderWay') = c /\ \A i \in UnderWay' : i <= c
    BY <1>2, <1>4, <1>5
  <2>2. c <= c /\ opt' = opt /\ ~Answered'
    BY <1>1, <1>2, <1>6 DEF Answered
  <2> QED
    BY <1>1, <2>1, <2>2 DEF General
<1> QED
  BY <1>3, <1>6, <1>7, <1>8 DEF NotBefore, Serial

\* A promise that settles only once, whoever tries.
LEMMA CallOnePreserves ==
  ASSUME IInv, CallOne
  PROVE  IInv'
<1> USE DEF IInv
<1>1. /\ Mode = "one" /\ promise.st = "uncalled" /\ promise'.st = "pending"
      /\ item' = [item EXCEPT ![1] = "taken"]
      /\ UNCHANGED <<opt, resolvingCount, currentIndex, isSettled>> /\ Mode' = "one"
  BY DEF CallOne, Pending, Mode, n
<1>2. PTypes'
  BY <1>1 DEF PTypes
<1>3. \A k \in UnderWay' : k = 1
  BY <1>1 DEF UnderWay, NotBefore, PTypes
<1> QED
  BY <1>1, <1>2, <1>3 DEF NotBefore, General, Serial, Answered

LEMMA OneDonePreserves ==
  ASSUME IInv, NEW i \in Item, NEW v \in Outcome, OneDone(i, v)
  PROVE  IInv'
<1> USE DEF IInv
<1> DEFINE throws == v = "err" /\ Fatal
           goesOn == ~throws /\ v # "end" /\ i < n
<1>1. /\ Mode = "one" /\ item[i] = "taken"
      /\ item' = [k \in Item |-> CASE k = i -> "done"
                                    [] k = i + 1 /\ goesOn -> "taken"
                                    [] OTHER -> item[k]]
      /\ promise' = CASE throws -> Rejected(<<i>>)
                      [] goesOn -> promise
                      [] OTHER -> Concluded(ret', errors')
      /\ UNCHANGED <<opt, resolvingCount, currentIndex, isSettled>>
  BY DEF OneDone
<1>2. Mode' = "one"
  BY <1>1 DEF Mode, n
<1>3. i \in UnderWay /\ UnderWay = {i} /\ promise.st = "pending"
  <2>1. i \in UnderWay
    BY <1>1 DEF UnderWay
  <2> QED
    BY <1>1, <2>1 DEF Serial, NotBefore, PTypes, Answered
<1>4. i \in Nat /\ i + 1 # i
  BY UnderWayFinite
<1>5. CASE goesOn
  <2>1. item' = [k \in Item |-> CASE k = i -> "done"
                                  [] k = i + 1 -> "taken"
                                  [] OTHER -> item[k]]
    BY <1>1, <1>5
  <2>2. item' \in [Item -> {"idle", "taken", "done"}]
    BY <2>1 DEF PTypes
  <2>3. \A k \in UnderWay' : k = i + 1
    BY <1>3, <1>4, <2>1 DEF UnderWay
  <2>4. promise' = promise
    BY <1>1, <1>5
  <2>5. PTypes'
    BY <1>1, <2>2, <2>4 DEF PTypes
  <2> QED
    BY <1>1, <1>2, <1>3, <2>3, <2>4, <2>5 DEF NotBefore, General, Serial, Answered
<1>6. CASE ~goesOn
  <2>1. item' = [k \in Item |-> CASE k = i -> "done"
                                  [] OTHER -> item[k]]
    BY <1>1, <1>6
  <2>2. item' \in [Item -> {"idle", "taken", "done"}]
    BY <2>1 DEF PTypes
  <2>3. UnderWay' = {}
    BY <1>3, <2>1 DEF UnderWay
  <2>4. promise'.st \in {"resolved", "rejected"}
    <3>1. CASE throws
      BY <1>1, <1>3, <3>1, Settling
    <3>2. CASE ~throws
      BY <1>1, <1>3, <1>6, <3>2, Settling
    <3> QED
      BY <3>1, <3>2
  <2>5. PTypes'
    BY <1>1, <2>2, <2>4 DEF PTypes
  <2> QED
    BY <1>1, <1>2, <2>3, <2>4, <2>5 DEF NotBefore, General, Serial
<1> QED
  BY <1>5, <1>6

\* Where all items are started by the call, nothing is counted.
LEMMA AllPreserves ==
  ASSUME IInv, CallAll \/ \E i \in Item, v \in Outcome : AllDone(i, v)
  PROVE  IInv'
<1> USE DEF IInv
<1>1. Mode = "all" /\ UNCHANGED <<opt, resolvingCount, currentIndex, isSettled>>
  BY DEF CallAll, AllDone
<1>2. Mode' = "all"
  BY <1>1 DEF Mode, n
<1>3. /\ item' \in [Item -> {"idle", "taken", "done"}]
      /\ promise'.st \in {"pending", "resolved", "rejected"}
  <2>1. CASE CallAll
    <3>1. /\ item' \in [Item -> {"idle", "taken", "done"}]
          /\ promise' = Pending \/ \E k : promise' = [st |-> "rejected", seq |-> <<k>>]
      BY <2>1 DEF CallAll
    <3> QED
      BY <3>1 DEF Pending
  <2>2. CASE \E i \in Item, v \in Outcome : AllDone(i, v)
    <3>1. PICK i \in Item, v \in Outcome : AllDone(i, v)
      BY <2>2
    <3>2. item[i] = "taken" /\ item' = [item EXCEPT ![i] = "done"]
      BY <3>1 DEF AllDone
    <3>3. promise.st \in {"pending", "resolved", "rejected"}
      BY <3>2 DEF NotBefore, UnderWay, PTypes
    <3>4. \/ promise' = Rejected(<<i>>) \/ promise' = promise
          \/ promise' = Concluded(ret', errors')
      BY <3>1 DEF AllDone
    <3>5. promise'.st \in {"pending", "resolved", "rejected"}
      BY <3>3, <3>4, Settling
    <3> QED
      BY <3>2, <3>5 DEF PTypes
  <2> QED
    BY <2>1, <2>2
<1>4. PTypes'
  BY <1>1, <1>3 DEF PTypes
<1> QED
  BY <1>2, <1>3, <1>4 DEF NotBefore, General, Serial

LEMMA InitEstablishes == Init => IInv
<1> SUFFICES ASSUME Init
             PROVE  IInv
  OBVIOUS
<1>1. PTypes
  <2>1. resolvingCount = 0 /\ currentIndex = 0 /\ isSettled = FALSE /\ promise.st = "uncalled"
    BY DEF Init
  <2>2. /\ opt \in [n : Item, concurrency : 0..MaxConcurrency, errorMode : ErrorMode]
        /\ item \in [Item -> {"idle", "taken", "done"}]
    <3>1. item = [i \in Item |-> "idle"]
      BY DEF Init
    <3> QED
      BY <3>1 DEF Init
  <2>3. resolvingCount \in Int /\ currentIndex \in Nat /\ isSettled \in BOOLEAN
    <3>1. resolvingCount \in Int /\ currentIndex \in Nat
      BY <2>1
    <3>2. isSettled \in BOOLEAN
      BY <2>1, Zenon
    <3> QED
      BY <3>1, <3>2
  <2>4. promise.st \in {"uncalled", "pending", "resolved", "rejected"}
    BY <2>1
  <2> QED
    BY <2>2, <2>3, <2>4 DEF PTypes
<1>2. promise.st = "uncalled" /\ UnderWay = {} /\ ~isSettled
  BY DEF Init, UnderWay
<1> QED
  BY <1>1, <1>2 DEF IInv, NotBefore, General, Serial

LEMMA StepPreserves == IInv /\ [Next]_vars => IInv'
<1> SUFFICES ASSUME IInv, [Next]_vars
             PROVE  IInv'
  OBVIOUS
<1>1. CASE UNCHANGED vars \/ \E i \in Item : StartMapper(i)
  <2>1. /\ UNCHANGED <<opt, item, resolvingCount, currentIndex, isSettled, promise>>
        /\ UnderWay' = UnderWay /\ Mode' = Mode /\ n' = n
    BY <1>1 DEF vars, StartMapper, UnderWay, Mode, n
  <2> QED
    BY <2>1 DEF IInv, PTypes, NotBefore, General, Serial, Answered
<1>2. CASE CallGeneral \/ CallOne \/ CallAll
  BY <1>2, CallGeneralPreserves, CallOnePreserves, AllPreserves
<1>3. ASSUME NEW i \in Item, Finish(i)
      PROVE  IInv'
  BY <1>3, GeneralPreserves, OneDonePreserves, AllPreserves DEF Finish
<1> QED
  BY <1>1, <1>2, <1>3 DEF Next

LEMMA AlwaysIInv == Spec => []IInv
BY InitEstablishes, StepPreserves, PTL DEF Spec

-----------------------------------------------------------------------------
(* Not more mappers than asked for run at a time, and no slot is idle while *)
(* an item is left (pMap.ts:90-150).                                        *)
THEOREM AlwaysBoundedConcurrency == Spec => []BoundedConcurrency
<1>1. IInv => BoundedConcurrency
  <2> SUFFICES ASSUME IInv
               PROVE  BoundedConcurrency
    OBVIOUS
  <2> USE DEF IInv
  <2>1. ASSUME Mode = "one"
        PROVE  Cardinality(UnderWay) <= 1
    <3>1. CASE UnderWay = {}
      <4>1. Cardinality(UnderWay) = 0
        BY <3>1, FS_EmptySet
      <4> QED
        BY <4>1
    <3>2. CASE UnderWay # {}
      <4>1. PICK i : UnderWay = {i}
        BY <2>1, <3>2 DEF Serial
      <4>2. Cardinality(UnderWay) = 1
        BY <4>1, FS_Singleton
      <4> QED
        BY <4>2
    <3> QED
      BY <3>1, <3>2
  <2>2. ASSUME Mode = "general"
        PROVE  /\ Cardinality(UnderWay) <= opt.concurrency
               /\ promise.st = "pending" /\ ~isSettled =>
                    /\ resolvingCount = Cardinality(UnderWay)
                    /\ currentIndex < n => resolvingCount = opt.concurrency
    <3>1. CASE promise.st = "uncalled"
      <4>1. Cardinality(UnderWay) = 0 /\ opt.concurrency \in Nat
        BY <3>1, FS_EmptySet, Options DEF NotBefore
      <4> QED
        BY <3>1, <4>1
    <3>2. CASE promise.st # "uncalled"
      BY <2>2, <3>2 DEF General
    <3> QED
      BY <3>1, <3>2
  <2> QED
    BY <2>1, <2>2 DEF BoundedConcurrency
<1> QED
  BY <1>1, AlwaysIInv, PTL

-----------------------------------------------------------------------------
\* The least of some numbers: what the inductions below are by.
LEMMA Least ==
  ASSUME NEW S \in SUBSET Nat, S # {}
  PROVE  \E m \in S : \A k \in S : m <= k
<1>1. PICK m \in S : \A k \in S : <<k, m>> \notin OpToRel(<, Nat)
  <2> HIDE DEF OpToRel
  <2>1. S \subseteq Nat
    OBVIOUS
  <2> QED
    BY <2>1, NatLessThanWellFounded, WFMin
<1>2. \A k \in S : <<k, m>> \in OpToRel(<, Nat) <=> k < m
  BY DEF OpToRel
<1>3. \A k \in S : ~(k < m)
  BY <1>1, <1>2
<1> QED
  BY <1>3

-----------------------------------------------------------------------------
\* What the items of S up to m make, given what those before did.
UpTo(f, S, m) == [k \in 0..m |-> IF k = 0 THEN <<>>
                                 ELSE IF k \in S THEN Append(f[k - 1], k) ELSE f[k - 1]]

LEMMA UpToExists ==
  ASSUME NEW S, NEW m \in Nat
  PROVE  \E f : f = UpTo(f, S, m)
<1> DEFINE Without == {k \in Nat : ~ \E f : f = UpTo(f, S, k)}
<1>1. SUFFICES ASSUME Without # {}
               PROVE  FALSE
  OBVIOUS
<1>2. PICK k \in Without : \A j \in Without : k <= j
  <2>1. Without \in SUBSET Nat
    OBVIOUS
  <2> HIDE DEF Without
  <2> QED
    BY <1>1, <2>1, Least
<1>3. k # 0
  <2>1. [i \in 0..0 |-> <<>>] = UpTo([i \in 0..0 |-> <<>>], S, 0)
    BY DEF UpTo
  <2> QED
    BY <1>2, <2>1
<1>4. PICK f : f = UpTo(f, S, k - 1)
  BY <1>2, <1>3
<1> DEFINE g == [i \in 0..k |-> IF i < k THEN f[i]
                                ELSE IF k \in S THEN Append(f[k - 1], k) ELSE f[k - 1]]
<1>5. ASSUME NEW i \in 0..k
      PROVE  g[i] = IF i = 0 THEN <<>> ELSE IF i \in S THEN Append(g[i - 1], i) ELSE g[i - 1]
  <2>1. CASE i = k
    BY <1>2, <1>3, <2>1
  <2>2. CASE i # k
    <3>1. i \in 0..(k - 1) /\ i < k /\ g[i] = f[i]
      BY <1>2, <2>2
    <3>2. f[i] = IF i = 0 THEN <<>> ELSE IF i \in S THEN Append(f[i - 1], i) ELSE f[i - 1]
      BY <1>4, <3>1 DEF UpTo
    <3>3. i # 0 => g[i - 1] = f[i - 1]
      BY <1>2, <3>1
    <3> QED
      BY <3>1, <3>2, <3>3
  <2> QED
    BY <2>1, <2>2
<1>6. g = [i \in 0..k |-> g[i]]
  OBVIOUS
<1> HIDE DEF g
<1>7. g = UpTo(g, S, k)
  BY <1>5, <1>6 DEF UpTo
<1> QED
  BY <1>2, <1>7

\* What is collected is S, each item once, in ascending order.
LEMMA Collects ==
  ASSUME n \in Nat, NEW S \in SUBSET (1..n)
  PROVE  /\ InOrder(S) \in Seq(S)
         /\ \A h, k \in 1..Len(InOrder(S)) : h < k => InOrder(S)[h] < InOrder(S)[k]
         /\ Elements(InOrder(S)) = S
         /\ Len(InOrder(S)) = Cardinality(S)
<1> DEFINE F == CHOOSE f : f = UpTo(f, S, n)
<1>1. F = UpTo(F, S, n)
  <2> HIDE DEF UpTo
  <2> QED
    BY UpToExists
<1>2. InOrder(S) = F[n]
  BY DEF InOrder, UpTo
<1> HIDE DEF F
<1>3. \A k \in 0..n : F[k] = IF k = 0 THEN <<>>
                             ELSE IF k \in S THEN Append(F[k - 1], k) ELSE F[k - 1]
  BY <1>1 DEF UpTo
<1> DEFINE T(k) == S \cap 1..k
           Good(k) == /\ F[k] \in Seq(T(k))
                      /\ \A h, j \in 1..Len(F[k]) : h < j => F[k][h] < F[k][j]
                      /\ Elements(F[k]) = T(k)
                      /\ IsFiniteSet(T(k)) /\ Len(F[k]) = Cardinality(T(k))
           Bad == {k \in 0..n : ~Good(k)}
<1>4. Bad = {}
  <2>1. SUFFICES ASSUME Bad # {}
                 PROVE  FALSE
    OBVIOUS
  <2>2. PICK k \in Bad : \A j \in Bad : k <= j
    <3>1. Bad \in SUBSET Nat
      OBVIOUS
    <3> HIDE DEF Bad
    <3> QED
      BY <2>1, <3>1, Least
  <2>3. k \in 0..n /\ ~Good(k)
    BY <2>2
  <2>4. k # 0
    <3> SUFFICES ASSUME k = 0
                 PROVE  Good(0)
      BY <2>3
    <3>1. F[0] = <<>> /\ T(0) = {}
      BY <1>3, <2>3
    <3>2. IsFiniteSet({}) /\ Cardinality({}) = 0
      BY FS_EmptySet
    <3>3. <<>> \in Seq({}) /\ Len(<<>>) = 0 /\ 1..0 = {}
      OBVIOUS
    <3>4. Elements(<<>>) = {}
      BY <3>3 DEF Elements
    <3> QED
      BY <3>1, <3>2, <3>3, <3>4
  <2>5. k - 1 \in 0..n /\ k \in Nat /\ k - 1 \in Nat /\ ~(k <= k - 1)
    BY <2>3, <2>4
  <2>6. Good(k - 1)
    BY <2>2, <2>5
  <2> DEFINE s == F[k - 1]
  <2>7. CASE k \notin S
    <3>1. F[k] = F[k - 1] /\ T(k) = T(k - 1)
      BY <1>3, <2>3, <2>4, <2>5, <2>7
    <3> HIDE DEF T
    <3> QED
      BY <2>3, <2>6, <3>1
  <2>8. CASE k \in S
    <3>1. F[k] = Append(s, k)
      BY <1>3, <2>3, <2>4, <2>8
    <3>2. T(k) = T(k - 1) \cup {k} /\ k \notin T(k - 1)
      BY <2>5, <2>8
    <3>3. /\ s \in Seq(T(k - 1)) /\ Elements(s) = T(k - 1) /\ Len(s) = Cardinality(T(k - 1))
          /\ IsFiniteSet(T(k - 1)) /\ \A h, j \in 1..Len(s) : h < j => s[h] < s[j]
      BY <2>6
    <3>4. \A t \in T(k - 1) : t \in Nat /\ t < k
      BY <2>5
    <3> HIDE DEF T, s
    <3>5. s \in Seq(T(k)) /\ k \in T(k)
      BY <3>2, <3>3
    <3>6. /\ Append(s, k) \in Seq(T(k)) /\ Len(s) \in Nat /\ Len(Append(s, k)) = Len(s) + 1
          /\ \A h \in 1..Len(s) : Append(s, k)[h] = s[h] /\ s[h] \in T(k - 1)
          /\ Append(s, k)[Len(s) + 1] = k
      BY <3>3, <3>5
    <3>7. ASSUME NEW h \in 1..(Len(s) + 1), NEW j \in 1..(Len(s) + 1), h < j
          PROVE  Append(s, k)[h] < Append(s, k)[j]
      <4>1. h \in 1..Len(s) /\ (j \in 1..Len(s) \/ j = Len(s) + 1)
        BY <3>6, <3>7
      <4> QED
        BY <3>3, <3>4, <3>6, <3>7, <4>1
    <3>8. Elements(Append(s, k)) = T(k)
      <4>1. Elements(Append(s, k)) = Elements(s) \cup {k}
        <5>1. 1..(Len(s) + 1) = 1..Len(s) \cup {Len(s) + 1}
          BY <3>6
        <5> QED
          BY <3>6, <5>1 DEF Elements
      <4> QED
        BY <3>2, <3>3, <4>1
    <3>9. IsFiniteSet(T(k)) /\ Cardinality(T(k)) = Cardinality(T(k - 1)) + 1
      <4>1. /\ IsFiniteSet(T(k - 1) \cup {k})
            /\ Cardinality(T(k - 1) \cup {k}) = Cardinality(T(k - 1)) + 1
        BY <3>2, <3>3, FS_AddElement
      <4> QED
        BY <3>2, <4>1
    <3>10. Good(k)
      BY <3>1, <3>3, <3>6, <3>7, <3>8, <3>9
    <3> QED
      BY <2>3, <3>10
  <2> QED
    BY <2>7, <2>8
<1>5. Good(n) /\ T(n) = S
  <2>1. n \in 0..n
    OBVIOUS
  <2>2. T(n) = S
    OBVIOUS
  <2> HIDE DEF Good, T
  <2> QED
    BY <1>4, <2>1, <2>2
<1> HIDE DEF T
<1> QED
  BY <1>2, <1>5

-----------------------------------------------------------------------------
(* What is collected: values and errors.                                    *)

DTypes ==
  /\ out \in [Item -> Outcome \cup {"none", "threw"}]
  /\ ret \in [Item -> {"hole", "val", "skip"}]
  /\ errors \in Seq(Item)

\* A mapper has come to something when its item is done, and not before.
Worked ==
  \A i \in Item : /\ item[i] # "idle" => i <= n
                  /\ item[i] = "done" <=> out[i] # "none"

\* The list e has each failed item once, or none where they are not collected.
Lists(e) == IF opt.errorMode = "THROW_AGGREGATED"
            THEN Elements(e) = Failed /\ Len(e) = Cardinality(Failed)
            ELSE e = <<>>

\* The values r are those of the items that came to one.
Holds(r) == \A i \in 1..n : r[i] = "val" <=> out[i] = "val"

Unasked == promise.st = "uncalled" =>
             /\ errors = <<>>
             /\ \A i \in Item : item[i] = "idle" /\ ret[i] = "hole"

\* Until there is an answer, what there is of one tells all that has happened.
Collecting ==
  promise.st = "pending" =>
    /\ \A i \in Item : out[i] # "threw"
    /\ Fatal => Failed = {}
    /\ Mode = "all" => errors = <<>>
    /\ Mode # "all" => NoEnd /\ Lists(errors) /\ Holds(ret)
    /\ Mode = "general" => ~isSettled /\ \A i \in 1..n : i <= currentIndex <=> item[i] # "idle"
    /\ Mode = "one" => \A i \in UnderWay : \A k \in 1..n :
                          k # i => item[k] = IF k < i THEN "done" ELSE "idle"

DInv == DTypes /\ Worked /\ Unasked /\ Collecting /\ ResultComplete /\ ErrorsComplete

RInv == IInv /\ DInv

\* The items, and what the outcomes are about.
LEMMA Numbers ==
  ASSUME PTypes
  PROVE  /\ n \in Nat /\ n \in Item /\ n >= 1 /\ n <= MaxItems /\ MaxItems \in Nat
         /\ \A i \in 1..n : i \in Item /\ i \in Nat
         /\ \A i \in Item : i <= n => i \in 1..n
<1>1. n \in Item /\ MaxItems \in Nat
  BY Options, PMapAssumption
<1>2. n \in Nat /\ n >= 1 /\ n <= MaxItems
  BY <1>1 DEF Item
<1>3. \A i \in 1..n : i \in 1..MaxItems /\ i \in Nat
  BY <1>2, PMapAssumption
<1>4. \A i \in 1..MaxItems : i <= n => i \in 1..n
  BY <1>2, PMapAssumption
<1> QED
  BY <1>1, <1>2, <1>3, <1>4 DEF Item

\* One more item has come to v.
LEMMA OneMore ==
  ASSUME PTypes, DTypes, Worked, opt' = opt, NEW i \in Item, item[i] = "taken",
         NEW v \in Outcome, out' = [out EXCEPT ![i] = v]
  PROVE  /\ i \in 1..n /\ out[i] = "none"
         /\ out' \in [Item -> Outcome \cup {"none", "threw"}]
         /\ n' = n /\ Fatal' = Fatal
         /\ out'[i] = v /\ \A k \in Item : k # i => out'[k] = out[k]
         /\ Failed' = IF v = "err" THEN Failed \cup {i} ELSE Failed
         /\ v = "err" => Cardinality(Failed') = Cardinality(Failed) + 1
         /\ IsFiniteSet(Failed) /\ Cardinality(Failed) \in Nat
         /\ NoEnd' <=> NoEnd /\ v # "end"
<1>1. i \in 1..n /\ out[i] = "none" /\ n' = n /\ Fatal' = Fatal
  BY Numbers DEF Worked, n, Fatal
<1>2. /\ out'[i] = v /\ \A k \in Item : k # i => out'[k] = out[k]
      /\ out' \in [Item -> Outcome \cup {"none", "threw"}]
  BY DEF DTypes
<1>3. \A k \in 1..n : k \in Item
  BY Numbers
<1>4. Failed' = IF v = "err" THEN Failed \cup {i} ELSE Failed
  BY <1>1, <1>2, <1>3 DEF Failed
<1>5. IsFiniteSet(Failed) /\ Cardinality(Failed) \in Nat
  <2>1. Failed \subseteq Item
    BY <1>3 DEF Failed
  <2>2. IsFiniteSet(Failed)
    BY <2>1, UnderWayFinite, FS_Subset
  <2> QED
    BY <2>2, FS_CardinalityType
<1>6. v = "err" => Cardinality(Failed') = Cardinality(Failed) + 1
  <2>1. i \notin Failed
    BY <1>1 DEF Failed
  <2>2. Cardinality(Failed \cup {i}) = Cardinality(Failed) + 1
    BY <1>5, <2>1, FS_AddElement
  <2> QED
    BY <1>4, <2>2
<1>7. NoEnd' <=> NoEnd /\ v # "end"
  BY <1>1, <1>2, <1>3 DEF NoEnd
<1> QED
  BY <1>1, <1>2, <1>4, <1>5, <1>6, <1>7

\* The errors after it.
LEMMA ErrorListed ==
  ASSUME PTypes, DTypes, Worked, opt' = opt, NEW i \in Item, item[i] = "taken",
         NEW v \in Outcome, out' = [out EXCEPT ![i] = v], Lists(errors),
         NEW e, e = IF v = "err" THEN Collected(i) ELSE errors
  PROVE  e \in Seq(Item) /\ Lists(e)'
<1>1. /\ Failed' = IF v = "err" THEN Failed \cup {i} ELSE Failed
      /\ v = "err" => Cardinality(Failed') = Cardinality(Failed) + 1
      /\ Cardinality(Failed) \in Nat
  BY OneMore
<1>2. e \in Seq(Item)
  BY DEF Collected, DTypes
<1>3. CASE v = "err" /\ opt.errorMode = "THROW_AGGREGATED"
  <2>1. e = Append(errors, i) /\ Elements(errors) = Failed /\ Len(errors) = Cardinality(Failed)
    BY <1>3 DEF Collected, Lists
  <2>2. /\ Len(errors) \in Nat /\ Len(e) = Len(errors) + 1 /\ e[Len(errors) + 1] = i
        /\ \A k \in 1..Len(errors) : e[k] = errors[k]
    BY <2>1 DEF DTypes
  <2>3. 1..Len(e) = 1..Len(errors) \cup {Len(errors) + 1}
    BY <2>2
  <2>4. Elements(e) = Elements(errors) \cup {i}
    BY <2>2, <2>3 DEF Elements
  <2>5. Elements(e) = Failed' /\ Len(e) = Cardinality(Failed')
    BY <1>1, <1>3, <2>1, <2>2, <2>4
  <2> QED
    BY <1>2, <1>3, <2>5 DEF Lists, Elements
<1>4. CASE v = "err" /\ opt.errorMode # "THROW_AGGREGATED"
  BY <1>2, <1>4 DEF Lists, Collected
<1>5. CASE v # "err"
  BY <1>1, <1>2, <1>5 DEF Lists, Elements
<1> QED
  BY <1>3, <1>4, <1>5

\* How a call concludes: with r and e, of which all is known if there is no END.
LEMMA ConcludesWell ==
  ASSUME PTypes, opt' = opt, promise.st = "pending", NEW r, NEW e \in Seq(Item),
         promise' = Concluded(r, e),
         \A k \in 1..n : r[k] = "val" => out'[k] = "val",
         NoEnd' => AllAreDone' /\ Lists(e)' /\ Holds(r)',
         Fatal => Failed' = {}
  PROVE  ResultComplete' /\ ErrorsComplete'
<1>1. n' = n /\ n \in Nat
  BY Numbers DEF n
<1>2. CASE e # <<>>
  <2>1. promise'.st = "rejected" /\ promise'.seq = e
    BY <1>2 DEF Concluded, Rejected
  <2>2. NoEnd' => opt.errorMode = "THROW_AGGREGATED"
    BY <1>2 DEF Lists
  <2> QED
    BY <2>1, <2>2 DEF ResultComplete, ErrorsComplete, Lists, Elements
<1>3. CASE e = <<>>
  <2> DEFINE S == {i \in 1..n : r[i] = "val"}
  <2>1. promise'.st = "resolved" /\ promise'.seq = InOrder(S)
    BY <1>3 DEF Concluded, Resolved, Kept
  <2>2. /\ \A h, k \in 1..Len(InOrder(S)) : h < k => InOrder(S)[h] < InOrder(S)[k]
        /\ Elements(InOrder(S)) = S
    <3>1. S \in SUBSET (1..n)
      OBVIOUS
    <3> HIDE DEF S
    <3> QED
      BY <1>1, <3>1, Collects
  <2>3. \A i \in S : out'[i] = "val"
    OBVIOUS
  <2>4. NoEnd' => S = {i \in 1..n : out'[i] = "val"}
    BY <1>1 DEF Holds
  <2> HIDE DEF S
  <2>5. ResultComplete'
    BY <1>1, <2>1, <2>2, <2>3, <2>4 DEF ResultComplete, Elements
  <2>6. NoEnd' /\ Failed' # {} => opt.errorMode = "SUPPRESS"
    <3>1. opt.errorMode \in ErrorMode
      BY DEF PTypes
    <3>2. CASE opt.errorMode = "THROW_AGGREGATED"
      <4>1. Len(e) = 0 /\ 1..0 = {}
        BY <1>3
      <4>2. Elements(e) = {}
        BY <4>1 DEF Elements
      <4> QED
        BY <3>2, <4>2 DEF Lists, Elements
    <3> QED
      BY <3>1, <3>2 DEF ErrorMode, Fatal
  <2>7. ErrorsComplete'
    BY <2>1, <2>6 DEF ErrorsComplete
  <2> QED
    BY <2>5, <2>7
<1> QED
  BY <1>2, <1>3

\* An answer stays right, whatever the mappers that are left come to.
LEMMA StaysRight ==
  ASSUME RInv, promise.st \in {"resolved", "rejected"}, promise' = promise, opt' = opt,
         NEW i \in Item, item[i] = "taken", NEW v \in Outcome, out' = [out EXCEPT ![i] = v]
  PROVE  ResultComplete' /\ ErrorsComplete'
<1> USE DEF RInv, DInv, IInv
<1>1. /\ i \in 1..n /\ n' = n /\ ~AllAreDone /\ out[i] = "none"
      /\ NoEnd' => NoEnd
      /\ \A k \in Item : k # i => out'[k] = out[k]
      /\ Failed \subseteq Failed'
  BY OneMore DEF AllAreDone
<1>2. promise.st = "resolved" => ~NoEnd
  BY <1>1 DEF ResultComplete
<1>3. ResultComplete'
  <2> SUFFICES ASSUME promise.st = "resolved"
               PROVE  ResultComplete'
    BY DEF ResultComplete
  <2>1. /\ \A h, k \in 1..Len(promise.seq) : h < k => promise.seq[h] < promise.seq[k]
        /\ \A k \in Elements(promise.seq) : out[k] = "val"
    BY DEF ResultComplete
  <2>2. \A k \in Elements(promise.seq) : out'[k] = "val"
    <3>1. \A k \in DOMAIN out : k # i => out'[k] = out[k]
      BY <1>1 DEF DTypes
    <3>2. \A k : k # i => out'[k] = out[k]
      OBVIOUS
    <3> QED
      BY <1>1, <2>1, <3>2
  <2> QED
    BY <1>1, <1>2, <2>1, <2>2 DEF ResultComplete, Elements
<1>4. ErrorsComplete'
  <2> SUFFICES ASSUME NoEnd', \A k \in 1..n : out'[k] # "threw"
               PROVE  /\ promise.st = "rejected" =>
                           CASE opt.errorMode = "THROW_IMMEDIATELY" ->
                                  Len(promise.seq) = 1 /\ promise.seq[1] \in Failed'
                             [] opt.errorMode = "THROW_AGGREGATED" ->
                                  /\ AllAreDone'
                                  /\ Elements(promise.seq) = Failed'
                                  /\ Len(promise.seq) = Cardinality(Failed')
                             [] OTHER -> FALSE
                      /\ promise.st = "resolved" /\ Failed' # {} => opt.errorMode = "SUPPRESS"
    BY <1>1 DEF ErrorsComplete, Elements
  <2>1. promise.st = "rejected"
    BY <1>1, <1>2
  <2>2. NoEnd /\ \A k \in 1..n : out[k] # "threw"
    BY <1>1, Numbers
  <2>3. opt.errorMode = "THROW_IMMEDIATELY" /\ Len(promise.seq) = 1 /\ promise.seq[1] \in Failed
    BY <1>1, <2>1, <2>2 DEF ErrorsComplete
  <2> QED
    BY <1>1, <2>1, <2>3
<1> QED
  BY <1>3, <1>4

\* Item i is done; of the others some may have been started.
LEMMA WorksOn ==
  ASSUME PTypes, DTypes, Worked, opt' = opt, NEW i \in Item, item[i] = "taken",
         NEW v \in Outcome, out' = [out EXCEPT ![i] = v], item'[i] = "done",
         \A k \in Item :
             k # i => item'[k] = item[k] \/ (item[k] = "idle" /\ item'[k] = "taken" /\ k <= n)
  PROVE  Worked'
<1>1. /\ n' = n /\ i \in 1..n /\ out'[i] = v /\ v # "none"
      /\ \A k \in Item : k # i => out'[k] = out[k]
  BY OneMore DEF Outcome
<1>2. ASSUME NEW k \in Item
      PROVE  (item'[k] # "idle" => k <= n) /\ (item'[k] = "done" <=> out'[k] # "none")
  BY <1>1 DEF Worked
<1> QED
  BY <1>1, <1>2 DEF Worked

LEMMA NextItemCollects ==
  ASSUME RInv, IInv', Mode = "general", opt' = opt, NEW i \in Item, item[i] = "taken",
         NEW v \in {"val", "skip", "err"}, out' = [out EXCEPT ![i] = v],
         NEW r \in [Item -> {"hole", "val", "skip"}], NEW e \in Seq(Item),
         NextItem(i, r, e, Left),
         promise.st = "pending" => Holds(r)' /\ Lists(e)',
         Fatal => v # "err"
  PROVE  DInv'
<1> USE DEF RInv, DInv, IInv
<1>1. /\ i \in 1..n /\ n' = n /\ Fatal' = Fatal /\ v \in Outcome
      /\ out' \in [Item -> Outcome \cup {"none", "threw"}]
      /\ out'[i] = v /\ \A k \in Item : k # i => out'[k] = out[k]
      /\ Failed' = IF v = "err" THEN Failed \cup {i} ELSE Failed
      /\ NoEnd' <=> NoEnd
  <2>1. v \in Outcome
    BY DEF Outcome
  <2> QED
    BY <2>1, OneMore
<1>2. ret' = r /\ errors' = e /\ DTypes'
  BY <1>1 DEF NextItem, DTypes
<1>3. /\ n \in Nat /\ currentIndex \in Nat
      /\ \A k \in Item : k \in Nat
      /\ \A k \in 1..n : k \in Item
  BY Numbers, UnderWayFinite DEF PTypes
<1>4. promise.st \in {"pending", "resolved", "rejected"} /\ i \in UnderWay
  BY DEF NotBefore, UnderWay, PTypes
<1>5. Mode' = "general"
  BY DEF Mode, n
<1>6. \/ /\ ~isSettled /\ currentIndex < n
         /\ item' = [item EXCEPT ![i] = "done", ![currentIndex + 1] = "taken"]
         /\ UNCHANGED <<isSettled, promise>> /\ currentIndex' = currentIndex + 1
      \/ /\ ~(~isSettled /\ currentIndex < n)
         /\ item' = [item EXCEPT ![i] = "done"]
         /\ isSettled' = (isSettled \/ Stop(Left))
         /\ promise' = IF Stop(Left) THEN Concluded(r, e) ELSE promise
         /\ currentIndex' = IF isSettled THEN currentIndex ELSE currentIndex + 1
  BY DEF NextItem, MayStart
<1>7. Answered <=> isSettled
  <2>1. Answered => isSettled
    BY <1>4 DEF General
  <2>2. promise.st = "pending" => ~isSettled
    BY DEF Collecting
  <2> QED
    BY <1>4, <2>1, <2>2 DEF Answered
<1>8. i <= currentIndex
  BY <1>4 DEF General
<1>9. item \in [Item -> {"idle", "taken", "done"}]
  BY DEF PTypes
  \* A further item is started.
<1>10. CASE /\ ~isSettled /\ currentIndex < n
            /\ item' = [item EXCEPT ![i] = "done", ![currentIndex + 1] = "taken"]
            /\ UNCHANGED <<isSettled, promise>> /\ currentIndex' = currentIndex + 1
  <2> DEFINE j == currentIndex + 1
  <2>1. promise.st = "pending"
    BY <1>4, <1>7, <1>10 DEF Answered
  <2>2. j \in 1..n /\ j # i
    BY <1>3, <1>8, <1>10
  <2>3. item[j] = "idle"
    <3>1. ~(j <= currentIndex)
      BY <1>3
    <3> QED
      BY <2>1, <2>2, <3>1 DEF Collecting
  <2>4. /\ item'[i] = "done" /\ item'[j] = "taken"
        /\ \A k \in Item : k # i /\ k # j => item'[k] = item[k]
    BY <1>3, <1>9, <1>10, <2>2
  <2>5. Worked'
    <3>1. j <= n
      BY <1>10, <1>3
    <3>2. \A k \in Item :
             k # i => item'[k] = item[k] \/ (item[k] = "idle" /\ item'[k] = "taken" /\ k <= n)
      BY <2>3, <2>4, <3>1
    <3>3. item'[i] = "done" /\ v \in Outcome
      BY <1>1, <2>4
    <3> HIDE DEF RInv, DInv, IInv
    <3>4. PTypes /\ DTypes /\ Worked
      BY DEF RInv, DInv, IInv
    <3> QED
      BY <3>2, <3>3, <3>4, WorksOn
  <2>6. \A k \in 1..n : k <= currentIndex' <=> item'[k] # "idle"
    <3>1. ASSUME NEW k \in 1..n
          PROVE  k <= currentIndex' <=> item'[k] # "idle"
      <4>1. k \in Item /\ k \in Nat /\ currentIndex' = j /\ j \in Nat /\ i <= j
        BY <1>3, <1>8, <1>10, <1>1
      <4>2. CASE k = i \/ k = j
        BY <2>4, <4>1, <4>2
      <4>3. CASE k # i /\ k # j
        <5>1. item'[k] = item[k] /\ (k <= j <=> k <= currentIndex)
          BY <1>3, <2>4, <4>1, <4>3
        <5> QED
          BY <2>1, <4>1, <5>1 DEF Collecting
      <4> QED
        BY <4>2, <4>3
    <3> QED
      BY <3>1
  <2>7. Collecting'
    <3>1. ~isSettled' /\ promise'.st = "pending"
      BY <1>10, <2>1
    <3>2. \A k \in Item : out'[k] # "threw"
      BY <1>1, <2>1 DEF Collecting, Outcome
    <3>3. Fatal' => Failed' = {}
      BY <1>1, <2>1 DEF Collecting
    <3>4. NoEnd' /\ Lists(errors)' /\ Holds(ret)'
      BY <1>1, <1>2, <2>1 DEF Collecting, Lists, Holds
    <3> QED
      BY <1>1, <1>5, <2>6, <3>1, <3>2, <3>3, <3>4 DEF Collecting
  <2>8. promise'.st = "pending"
    BY <1>10, <2>1
  <2> QED
    BY <1>2, <2>5, <2>7, <2>8 DEF Unasked, ResultComplete, ErrorsComplete
  \* No item is left, or the call is settled.
<1>11. CASE /\ ~(~isSettled /\ currentIndex < n)
            /\ item' = [item EXCEPT ![i] = "done"]
            /\ isSettled' = (isSettled \/ Stop(Left))
            /\ promise' = IF Stop(Left) THEN Concluded(r, e) ELSE promise
            /\ currentIndex' = IF isSettled THEN currentIndex ELSE currentIndex + 1
  <2>1. item'[i] = "done" /\ \A k \in Item : k # i => item'[k] = item[k]
    BY <1>9, <1>11
  <2>2. Worked'
    <3> HIDE DEF RInv, DInv, IInv
    <3>1. PTypes /\ DTypes /\ Worked
      BY DEF RInv, DInv, IInv
    <3> QED
      BY <1>1, <2>1, <3>1, WorksOn
  <2>3. CASE isSettled
    <3>1. promise' = promise /\ promise.st \in {"resolved", "rejected"}
      BY <1>7, <1>11, <2>3 DEF Stop, Answered
    <3>2. ResultComplete' /\ ErrorsComplete'
      BY <1>1, <3>1, StaysRight
    <3> QED
      BY <1>2, <2>2, <3>1, <3>2 DEF Unasked, Collecting
  <2>4. CASE ~isSettled
    <3>1. /\ promise.st = "pending" /\ currentIndex' = currentIndex + 1
          /\ Stop(Left) <=> Left = 0
          /\ \A k \in 1..n : k <= currentIndex /\ item[k] # "idle"
      <4>1. promise.st = "pending"
        BY <1>4, <1>7, <2>4 DEF Answered
      <4>2. \A k \in 1..n : k <= currentIndex
        BY <1>3, <1>11, <2>4
      <4> QED
        BY <1>11, <2>4, <4>1, <4>2 DEF Stop, Collecting
    <3>2. NoEnd' /\ Lists(e)' /\ Holds(r)' /\ (Fatal' => Failed' = {})
          /\ \A k \in Item : out'[k] # "threw"
      BY <1>1, <3>1 DEF Collecting, Outcome
    <3>3. CASE Left = 0
      <4>1. AllAreDone'
        <5>1. Cardinality(UnderWay) = 1
          <6>1. resolvingCount = Cardinality(UnderWay) /\ resolvingCount \in Int
            BY <1>4, <2>4, <3>1 DEF General, PTypes
          <6> QED
            BY <3>3, <6>1 DEF Left
        <5>2. Cardinality(UnderWay \ {i}) = 0 /\ IsFiniteSet(UnderWay \ {i})
          <6>1. IsFiniteSet(UnderWay)
            BY UnderWayFinite
          <6>2. IsFiniteSet(UnderWay \ {i}) /\ Cardinality(UnderWay \ {i}) = Cardinality(UnderWay) - 1
            BY <1>4, <6>1, FS_RemoveElement
          <6> QED
            BY <5>1, <6>2
        <5>3. UnderWay \ {i} = {}
          BY <5>2, FS_EmptySet
        <5>4. \A k \in 1..n : k # i => item[k] = "done"
          BY <1>3, <1>9, <3>1, <5>3 DEF UnderWay
        <5> QED
          BY <1>1, <1>3, <2>1, <5>4 DEF AllAreDone
      <4>2. promise' = Concluded(r, e)
        BY <1>11, <3>1, <3>3
      <4>3. ResultComplete' /\ ErrorsComplete'
        <5>1. \A k \in 1..n : r[k] = "val" => out'[k] = "val"
          BY <1>1, <3>2 DEF Holds
        <5> QED
          BY <1>1, <3>1, <3>2, <4>1, <4>2, <5>1, ConcludesWell
      <4>4. promise'.st \in {"resolved", "rejected"}
        BY <3>1, <4>2, Settling
      <4> QED
        BY <1>2, <2>2, <4>3, <4>4 DEF Unasked, Collecting
    <3>4. CASE Left # 0
      <4>1. promise' = promise /\ ~isSettled'
        BY <1>11, <2>4, <3>1, <3>4
      <4>2. \A k \in 1..n : k <= currentIndex' /\ item'[k] # "idle"
        BY <1>3, <2>1, <3>1
      <4>3. Collecting'
        BY <1>1, <1>2, <1>5, <3>2, <4>1, <4>2 DEF Collecting
      <4> QED
        BY <1>2, <2>2, <3>1, <4>1, <4>3 DEF Unasked, ResultComplete, ErrorsComplete
    <3> QED
      BY <3>3, <3>4
  <2> QED
    BY <2>3, <2>4
<1> QED
  BY <1>6, <1>10, <1>11

\* Settled by item i, with an answer that is right.
LEMMA SettledCollects ==
  ASSUME RInv, opt' = opt, NEW i \in Item, item[i] = "taken",
         NEW v \in Outcome, out' = [out EXCEPT ![i] = v],
         item' = [item EXCEPT ![i] = "done"],
         UNCHANGED <<ret, errors>>,
         promise'.st \in {"resolved", "rejected"},
         ResultComplete', ErrorsComplete'
  PROVE  DInv'
<1> USE DEF RInv, DInv, IInv
<1>1. out' \in [Item -> Outcome \cup {"none", "threw"}]
  BY OneMore
<1>2. Worked'
  <2>1. item'[i] = "done" /\ \A k \in Item : k # i => item'[k] = item[k]
    BY DEF PTypes
  <2> HIDE DEF RInv, DInv, IInv
  <2>2. PTypes /\ DTypes /\ Worked
    BY DEF RInv, DInv, IInv
  <2> QED
    BY <2>1, <2>2, WorksOn
<1> QED
  BY <1>1, <1>2 DEF DTypes, Unasked, Collecting

LEMMA GeneralCollects ==
  ASSUME RInv, IInv', NEW i \in Item,
         (\E v \in {"val", "skip"} : GeneralValue(i, v)) \/ GeneralEnd(i) \/ GeneralError(i)
  PROVE  DInv'
<1> USE DEF RInv, DInv, IInv
<1>1. Mode = "general" /\ item[i] = "taken" /\ opt' = opt
  BY DEF GeneralValue, GeneralEnd, GeneralError
<1>2. /\ promise.st \in {"pending", "resolved", "rejected"}
      /\ i \in 1..n /\ \A k \in 1..n : k \in Item
  <2>1. i \in UnderWay
    BY <1>1 DEF UnderWay
  <2> QED
    BY <1>1, <2>1, Numbers DEF NotBefore, PTypes, Worked
<1>3. ASSUME NEW v \in {"val", "skip"}, GeneralValue(i, v)
      PROVE  DInv'
  <2>1. PICK r, e : r = Stored(i, v) /\ e = errors
    OBVIOUS
  <2>2. out' = [out EXCEPT ![i] = v] /\ NextItem(i, r, e, Left) /\ v \in Outcome
    BY <1>3, <2>1 DEF GeneralValue, Outcome
  <2>3. r \in [Item -> {"hole", "val", "skip"}] /\ e \in Seq(Item)
    BY <2>1 DEF Stored, DTypes
  <2>4. /\ Failed' = Failed /\ out'[i] = v /\ n' = n
        /\ \A k \in Item : k # i => out'[k] = out[k]
    BY <1>1, <2>2, OneMore
  <2>5. promise.st = "pending" => Holds(r)' /\ Lists(e)'
    <3> SUFFICES ASSUME promise.st = "pending"
                 PROVE  Holds(r)' /\ Lists(e)'
      OBVIOUS
    <3>1. Lists(errors) /\ Holds(ret)
      BY <1>1 DEF Collecting
    <3>2. r[i] = v /\ \A k \in Item : k # i => r[k] = ret[k]
      BY <2>1 DEF Stored, DTypes
    <3> QED
      BY <1>1, <1>2, <2>1, <2>4, <3>1, <3>2 DEF Holds, Lists
  <2> QED
    BY <1>1, <1>3, <2>2, <2>3, <2>5, NextItemCollects
<1>4. ASSUME GeneralEnd(i)
      PROVE  DInv'
  <2>1. /\ out' = [out EXCEPT ![i] = "end"] /\ item' = [item EXCEPT ![i] = "done"]
        /\ promise' = Resolved(Kept(ret)) /\ UNCHANGED <<ret, errors>> /\ "end" \in Outcome
    BY <1>4 DEF GeneralEnd, Outcome
  <2>2. promise'.st \in {"resolved", "rejected"}
    BY <1>2, <2>1, Settling
  <2>3. /\ n' = n /\ ~NoEnd' /\ n \in Nat /\ out[i] = "none"
        /\ \A k \in Item : k # i => out'[k] = out[k]
    BY <1>1, <2>1, OneMore, Numbers
  <2>4. CASE promise.st = "pending"
    <3> DEFINE S == {k \in 1..n : ret[k] = "val"}
    <3>1. promise'.seq = InOrder(S)
      BY <2>1, <2>4 DEF Resolved, Kept
    <3>2. /\ \A h, k \in 1..Len(InOrder(S)) : h < k => InOrder(S)[h] < InOrder(S)[k]
          /\ Elements(InOrder(S)) = S
      <4>1. S \in SUBSET (1..n)
        OBVIOUS
      <4> HIDE DEF S
      <4> QED
        BY <2>3, <4>1, Collects
    <3>3. \A k \in S : out'[k] = "val"
      <4>1. Holds(ret)
        BY <1>1, <2>4 DEF Collecting
      <4> QED
        BY <1>2, <2>3, <4>1 DEF Holds
    <3> HIDE DEF S
    <3>4. ResultComplete' /\ ErrorsComplete'
      BY <2>3, <3>1, <3>2, <3>3 DEF ResultComplete, ErrorsComplete, Elements
    <3> QED
      BY <1>1, <2>1, <2>2, <3>4, SettledCollects
  <2>5. CASE promise.st # "pending"
    <3>1. promise' = promise
      BY <2>1, <2>5 DEF Resolved
    <3>2. ResultComplete' /\ ErrorsComplete'
      BY <1>1, <1>2, <2>1, <2>5, <3>1, StaysRight
    <3> QED
      BY <1>1, <2>1, <2>2, <3>2, SettledCollects
  <2> QED
    BY <2>4, <2>5
<1>5. ASSUME GeneralError(i)
      PROVE  DInv'
  <2>1. out' = [out EXCEPT ![i] = "err"] /\ "err" \in Outcome /\ "err" \in {"val", "skip", "err"}
    BY <1>5 DEF GeneralError, Outcome
  <2>2. /\ n' = n /\ out'[i] = "err"
        /\ Failed' = Failed \cup {i}
        /\ \A k \in Item : k # i => out'[k] = out[k]
    BY <1>1, <2>1, OneMore
  <2>3. CASE /\ Fatal /\ item' = [item EXCEPT ![i] = "done"]
             /\ promise' = Rejected(<<i>>) /\ UNCHANGED <<ret, errors>>
    <3>1. promise'.st \in {"resolved", "rejected"}
      BY <1>2, <2>3, Settling
    <3>2. ResultComplete' /\ ErrorsComplete'
      <4>1. CASE promise.st = "pending"
        <5>1. promise' = [st |-> "rejected", seq |-> <<i>>]
          BY <2>3, <4>1 DEF Rejected
        <5>2. Len(<<i>>) = 1 /\ <<i>>[1] = i
          OBVIOUS
        <5> QED
          BY <1>1, <2>2, <2>3, <5>1, <5>2 DEF ResultComplete, ErrorsComplete, Fatal
      <4>2. CASE promise.st # "pending"
        <5>1. promise' = promise
          BY <2>3, <4>2 DEF Rejected
        <5> QED
          BY <1>1, <1>2, <2>1, <4>2, <5>1, StaysRight
      <4> QED
        BY <4>1, <4>2
    <3> QED
      BY <1>1, <2>1, <2>3, <3>1, <3>2, SettledCollects
  <2>4. CASE ~Fatal /\ NextItem(i, ret, Collected(i), Left)
    <3>1. PICK r, e : r = ret /\ e = Collected(i)
      OBVIOUS
    <3>2. r \in [Item -> {"hole", "val", "skip"}] /\ e \in Seq(Item)
      BY <3>1 DEF DTypes, Collected
    <3>3. promise.st = "pending" => Holds(r)' /\ Lists(e)'
      <4> SUFFICES ASSUME promise.st = "pending"
                   PROVE  Holds(r)' /\ Lists(e)'
        OBVIOUS
      <4>1. Lists(errors) /\ Holds(ret)
        BY <1>1 DEF Collecting
      <4>2. Lists(e)'
        BY <1>1, <2>1, <3>1, <4>1, ErrorListed
      <4>3. Holds(r)'
        <5>1. out[i] = "none"
          BY <1>1, <2>1, OneMore
        <5>2. r[i] # "val" /\ \A k \in 1..n : k # i => (r[k] = "val" <=> out'[k] = "val")
          BY <1>2, <2>2, <3>1, <4>1, <5>1 DEF Holds
        <5> QED
          BY <2>2, <5>2 DEF Holds
      <4> QED
        BY <4>2, <4>3
    <3>4. NextItem(i, r, e, Left) /\ ~Fatal
      BY <2>4, <3>1
    <3> QED
      BY <1>1, <2>1, <3>2, <3>3, <3>4, NextItemCollects
  <2> QED
    BY <1>5, <2>3, <2>4 DEF GeneralError
<1> QED
  BY <1>3, <1>4, <1>5

\* The call itself: nothing has come to anything yet, unless a mapper throws.
LEMMA CallsCollect ==
  ASSUME RInv, CallGeneral \/ CallOne \/ CallAll
  PROVE  DInv'
<1> USE DEF RInv, DInv, IInv
<1>1. /\ promise.st = "uncalled" /\ opt' = opt /\ UNCHANGED <<ret, errors>>
      /\ n' = n /\ Mode' = Mode /\ Fatal' = Fatal
  BY DEF CallGeneral, CallOne, CallAll, n, Mode, Fatal
<1>2. /\ errors = <<>> /\ ~isSettled
      /\ \A i \in Item : item[i] = "idle" /\ ret[i] = "hole" /\ out[i] = "none"
  BY <1>1 DEF Unasked, Worked, NotBefore, DTypes
<1>3. /\ n \in Nat /\ 1 \in 1..n /\ \A i \in 1..n : i \in Item
      /\ \A i \in Item : i \in Nat /\ (i <= n => i \in 1..n)
  BY Numbers, UnderWayFinite
<1>4. CASE /\ promise' = Pending /\ out' = out
           /\ \A i \in Item : item'[i] \in {"idle", "taken"} /\ (item'[i] # "idle" => i <= n)
           /\ Mode = "general" => ~isSettled' /\ \A i \in 1..n : i <= currentIndex' <=> item'[i] # "idle"
           /\ Mode = "one" => \A i \in UnderWay', k \in 1..n : i = 1 /\ (k # i => item'[k] = "idle")
  <2>1. promise'.st = "pending"
    BY <1>4 DEF Pending
  <2>2. DTypes' /\ Worked'
    BY <1>1, <1>2, <1>4 DEF DTypes, Worked
  <2>3. Failed = {} /\ Failed' = {}
    BY <1>1, <1>2, <1>3, <1>4 DEF Failed
  <2>4. Lists(errors)'
    <3>1. Len(<<>>) = 0 /\ 1..0 = {} /\ Cardinality({}) = 0
      BY FS_EmptySet
    <3>2. Elements(<<>>) = {}
      BY <3>1 DEF Elements
    <3> QED
      BY <1>1, <1>2, <2>3, <3>1, <3>2 DEF Lists, Elements
  <2>5. NoEnd' /\ Holds(ret)' /\ \A i \in Item : out'[i] # "threw"
    BY <1>1, <1>2, <1>3, <1>4 DEF NoEnd, Holds
  <2>6. Mode = "one" => \A i \in UnderWay' : \A k \in 1..n :
                          k # i => item'[k] = IF k < i THEN "done" ELSE "idle"
    <3> SUFFICES ASSUME Mode = "one", NEW i \in UnderWay', NEW k \in 1..n, k # i
                 PROVE  item'[k] = "idle" /\ ~(k < i)
      OBVIOUS
    <3>1. i = 1 /\ item'[k] = "idle"
      BY <1>4
    <3> QED
      BY <3>1
  <2>7. Collecting'
    BY <1>1, <1>2, <1>4, <2>3, <2>4, <2>5, <2>6 DEF Collecting
  <2> QED
    BY <2>1, <2>2, <2>7 DEF Unasked, ResultComplete, ErrorsComplete
<1>5. CASE CallGeneral
  <2>1. /\ Mode = "general" /\ promise' = Pending /\ out' = out /\ isSettled' = isSettled
        /\ item' = [i \in Item |-> IF i <= opt.concurrency THEN "taken" ELSE "idle"]
        /\ currentIndex' = opt.concurrency
    BY <1>5 DEF CallGeneral, Opening
  <2>2. opt.concurrency \in Nat /\ opt.concurrency < n
    BY <2>1, Options
  <2>3. \A i \in Item : item'[i] \in {"idle", "taken"} /\ (item'[i] # "idle" => i <= n)
    BY <1>3, <2>1, <2>2
  <2>4. \A i \in 1..n : i <= currentIndex' <=> item'[i] # "idle"
    BY <1>3, <2>1, <2>2
  <2> QED
    BY <1>2, <1>4, <2>1, <2>3, <2>4
<1>6. CASE CallOne
  <2>1. /\ Mode = "one" /\ promise' = Pending /\ out' = out
        /\ item' = [item EXCEPT ![1] = "taken"]
    BY <1>6 DEF CallOne
  <2>2. \A i \in Item : item'[i] = IF i = 1 THEN "taken" ELSE "idle"
    BY <1>2, <2>1 DEF PTypes
  <2> QED
    BY <1>3, <1>4, <2>1, <2>2 DEF UnderWay
<1>7. CASE CallAll
  <2>1. Mode = "all"
    BY <1>7 DEF CallAll
  <2>2. CASE /\ item' = [i \in Item |-> IF i <= n THEN "taken" ELSE "idle"]
             /\ promise' = Pending /\ out' = out
    BY <1>4, <2>1, <2>2
  <2>3. ASSUME NEW k \in 1..n,
               item' = [i \in Item |-> CASE i < k -> "taken"
                                         [] i = k -> "done"
                                         [] OTHER -> "idle"],
               out' = [out EXCEPT ![k] = "threw"],
               promise' = [st |-> "rejected", seq |-> <<k>>]
        PROVE  DInv'
    <3>1. k \in Item /\ k \in Nat /\ k <= n
      BY <1>3
    <3>2. out'[k] = "threw" /\ \A i \in Item : i # k => out'[i] = "none"
      BY <1>2, <2>3, <3>1 DEF DTypes
    <3>3. ASSUME NEW i \in Item
          PROVE  (item'[i] # "idle" => i <= n) /\ (item'[i] = "done" <=> out'[i] # "none")
      <4>1. CASE i < k
        BY <1>3, <2>3, <3>1, <3>2, <4>1
      <4>2. CASE i = k
        BY <2>3, <3>1, <3>2, <4>2
      <4>3. CASE ~(i < k) /\ i # k
        BY <2>3, <3>2, <4>3
      <4> QED
        BY <4>1, <4>2, <4>3
    <3>4. DTypes' /\ Worked'
      BY <1>1, <2>3, <3>3 DEF DTypes, Worked
    <3> QED
      BY <1>1, <2>3, <3>2, <3>4 DEF Unasked, Collecting, ResultComplete, ErrorsComplete
  <2> QED
    BY <1>7, <2>2, <2>3 DEF CallAll
<1> QED
  BY <1>5, <1>6, <1>7

LEMMA OneDoneCollects ==
  ASSUME RInv, IInv', NEW i \in Item, NEW v \in Outcome, OneDone(i, v)
  PROVE  DInv'
<1> USE DEF RInv, DInv, IInv
<1> DEFINE throws == v = "err" /\ Fatal
           goesOn == ~throws /\ v # "end" /\ i < n
<1>1. /\ Mode = "one" /\ item[i] = "taken" /\ opt' = opt
      /\ out' = [out EXCEPT ![i] = v]
      /\ ret' = IF v = "val" THEN Stored(i, v) ELSE ret
      /\ errors' = IF v = "err" THEN Collected(i) ELSE errors
      /\ item' = [k \in Item |-> CASE k = i -> "done"
                                    [] k = i + 1 /\ goesOn -> "taken"
                                    [] OTHER -> item[k]]
      /\ promise' = CASE throws -> Rejected(<<i>>)
                      [] goesOn -> promise
                      [] OTHER -> Concluded(ret', errors')
  BY DEF OneDone
<1>2. /\ i \in 1..n /\ n' = n /\ Fatal' = Fatal /\ out[i] = "none"
      /\ out' \in [Item -> Outcome \cup {"none", "threw"}]
      /\ out'[i] = v /\ \A k \in Item : k # i => out'[k] = out[k]
      /\ Failed' = IF v = "err" THEN Failed \cup {i} ELSE Failed
      /\ NoEnd' <=> NoEnd /\ v # "end"
  BY <1>1, OneMore
<1>3. /\ n \in Nat /\ \A k \in 1..n : k \in Item
      /\ \A k \in Item : k \in Nat /\ (k <= n => k \in 1..n)
  BY Numbers, UnderWayFinite
<1>4. UnderWay = {i} /\ promise.st = "pending" /\ Mode' = "one"
  <2>1. i \in UnderWay
    BY <1>1 DEF UnderWay
  <2> QED
    BY <1>1, <2>1 DEF Serial, NotBefore, PTypes, Answered, Mode, n
<1>5. /\ NoEnd /\ Lists(errors) /\ Holds(ret)
      /\ \A k \in 1..n : k # i => item[k] = IF k < i THEN "done" ELSE "idle"
      /\ \A k \in Item : out[k] # "threw"
      /\ Fatal => Failed = {}
  BY <1>1, <1>4 DEF Collecting
<1>6. errors' \in Seq(Item) /\ Lists(errors)'
  <2>1. PICK e : e = errors'
    OBVIOUS
  <2>2. e \in Seq(Item) /\ Lists(e)'
    BY <1>1, <1>5, <2>1, ErrorListed
  <2> QED
    BY <2>1, <2>2 DEF Lists, Elements
<1>7. ret' \in [Item -> {"hole", "val", "skip"}] /\ Holds(ret)'
  <2>1. ret' \in [Item -> {"hole", "val", "skip"}]
    BY <1>1 DEF Stored, DTypes
  <2>2. ASSUME NEW k \in 1..n
        PROVE  ret'[k] = "val" <=> out'[k] = "val"
    <3>1. k \in Item /\ (ret[k] = "val" <=> out[k] = "val")
      BY <1>3, <1>5 DEF Holds
    <3>2. CASE k = i
      BY <1>1, <1>2, <3>1, <3>2 DEF Stored, DTypes
    <3>3. CASE k # i
      BY <1>1, <1>2, <3>1, <3>3 DEF Stored, DTypes
    <3> QED
      BY <3>2, <3>3
  <2> QED
    BY <1>2, <2>1, <2>2 DEF Holds
<1>8. /\ item'[i] = "done" /\ i + 1 # i /\ i \in Nat
      /\ \A k \in Item : k # i => item'[k] = IF k = i + 1 /\ goesOn THEN "taken" ELSE item[k]
  BY <1>1, <1>3
<1>9. ASSUME goesOn
      PROVE  /\ i + 1 \in 1..n /\ i + 1 \in Item /\ i + 1 <= n /\ item[i + 1] = "idle"
             /\ item'[i + 1] = "taken"
  <2>1. i + 1 \in 1..n /\ i + 1 <= n /\ ~(i + 1 < i)
    BY <1>2, <1>3, <1>9
  <2> QED
    BY <1>3, <1>5, <1>8, <1>9, <2>1
<1>10. Worked'
  <2>1. \A k \in Item :
          k # i => item'[k] = item[k] \/ (item[k] = "idle" /\ item'[k] = "taken" /\ k <= n)
    BY <1>8, <1>9
  <2>2. PTypes /\ DTypes /\ Worked
    OBVIOUS
  <2> HIDE DEF RInv, DInv, IInv
  <2> QED
    BY <1>1, <1>8, <2>1, <2>2, WorksOn
<1>11. DTypes'
  BY <1>2, <1>6, <1>7 DEF DTypes
<1>12. CASE goesOn
  <2>1. promise' = promise
    BY <1>1, <1>12
  <2>2. UnderWay' = {i + 1}
    <3>1. ASSUME NEW k \in Item
          PROVE  item'[k] = "taken" <=> k = i + 1
      <4>1. k # i => item[k] # "taken"
        BY <1>4 DEF UnderWay
      <4>2. CASE k = i
        BY <1>8, <4>2
      <4>3. CASE k # i /\ k # i + 1
        BY <1>8, <4>1, <4>3
      <4>4. CASE k = i + 1
        BY <1>9, <1>12, <4>4
      <4> QED
        BY <4>2, <4>3, <4>4
    <3> QED
      BY <1>9, <1>12, <3>1 DEF UnderWay
  <2>3. \A k \in 1..n : k # i + 1 => item'[k] = IF k < i + 1 THEN "done" ELSE "idle"
    <3> SUFFICES ASSUME NEW k \in 1..n, k # i + 1
                 PROVE  item'[k] = IF k < i + 1 THEN "done" ELSE "idle"
      OBVIOUS
    <3>1. CASE k = i
      BY <1>8, <3>1
    <3>2. CASE k # i
      <4>1. k < i + 1 <=> k < i
        BY <1>3, <1>8, <3>2
      <4>2. item'[k] = item[k]
        BY <1>3, <1>8, <3>2
      <4> QED
        BY <1>5, <3>2, <4>1, <4>2
    <3> QED
      BY <3>1, <3>2
  <2>4. Fatal' => Failed' = {}
    BY <1>2, <1>5, <1>12
  <2>5. NoEnd' /\ \A k \in Item : out'[k] # "threw"
    BY <1>2, <1>5, <1>12 DEF Outcome
  <2>6. Collecting'
    BY <1>2, <1>4, <1>6, <1>7, <2>2, <2>3, <2>4, <2>5 DEF Collecting
  <2> QED
    BY <1>4, <1>10, <1>11, <2>1, <2>6 DEF Unasked, ResultComplete, ErrorsComplete
<1>13. CASE throws
  <2>1. promise' = [st |-> "rejected", seq |-> <<i>>]
    BY <1>1, <1>4, <1>13 DEF Rejected
  <2>2. Len(<<i>>) = 1 /\ <<i>>[1] = i
    OBVIOUS
  <2>3. ResultComplete' /\ ErrorsComplete'
    BY <1>1, <1>2, <1>13, <2>1, <2>2 DEF ResultComplete, ErrorsComplete, Fatal
  <2> QED
    BY <1>10, <1>11, <2>1, <2>3 DEF Unasked, Collecting
<1>14. CASE ~throws /\ ~goesOn
  <2>1. PICK r, e : r = ret' /\ e = errors'
    OBVIOUS
  <2>2. promise' = Concluded(r, e) /\ e \in Seq(Item)
    BY <1>1, <1>6, <1>14, <2>1
  <2>3. \A k \in 1..n : r[k] = "val" => out'[k] = "val"
    BY <1>2, <1>7, <2>1 DEF Holds
  <2>4. NoEnd' => AllAreDone' /\ Lists(e)' /\ Holds(r)'
    <3> SUFFICES ASSUME NoEnd'
                 PROVE  AllAreDone' /\ Lists(e)' /\ Holds(r)'
      OBVIOUS
    <3>1. i = n
      BY <1>2, <1>3, <1>14
    <3>2. \A k \in 1..n : item'[k] = "done"
      <4> SUFFICES ASSUME NEW k \in 1..n
                   PROVE  item'[k] = "done"
        OBVIOUS
      <4>1. CASE k = i
        BY <1>8, <4>1
      <4>2. CASE k # i
        <5>1. k < i
          BY <1>3, <3>1, <4>2
        <5> QED
          BY <1>3, <1>5, <1>8, <1>14, <4>2, <5>1
      <4> QED
        BY <4>1, <4>2
    <3> QED
      BY <1>2, <1>6, <1>7, <2>1, <3>2 DEF AllAreDone, Lists, Holds, Elements
  <2>5. Fatal => Failed' = {}
    BY <1>2, <1>5, <1>14
  <2>6. ResultComplete' /\ ErrorsComplete'
    BY <1>1, <1>4, <2>2, <2>3, <2>4, <2>5, ConcludesWell
  <2>7. promise'.st \in {"resolved", "rejected"}
    BY <1>4, <2>2, Settling
  <2> QED
    BY <1>10, <1>11, <2>6, <2>7 DEF Unasked, Collecting
<1> QED
  BY <1>12, <1>13, <1>14

LEMMA AllDoneCollects ==
  ASSUME RInv, IInv', NEW i \in Item, NEW v \in Outcome, AllDone(i, v)
  PROVE  DInv'
<1> USE DEF RInv, DInv, IInv
<1> DEFINE last == \A k \in 1..n : item'[k] = "done"
           read == IF Fatal THEN 1..n ELSE BeforeEnd(out')
           throws == v = "err" /\ Fatal
<1>1. /\ Mode = "all" /\ item[i] = "taken" /\ opt' = opt
      /\ out' = [out EXCEPT ![i] = v]
      /\ item' = [item EXCEPT ![i] = "done"]
      /\ ret' = IF last THEN [k \in Item |-> IF k \in read /\ out'[k] = "val"
                                             THEN "val" ELSE "hole"]
                        ELSE ret
      /\ errors' = IF last /\ opt.errorMode = "THROW_AGGREGATED"
                   THEN InOrder({k \in read : out'[k] = "err"}) ELSE errors
      /\ promise' = CASE throws -> Rejected(<<i>>)
                      [] last /\ ~throws -> Concluded(ret', errors')
                      [] OTHER -> promise
  BY DEF AllDone
<1>2. /\ i \in 1..n /\ n' = n /\ Fatal' = Fatal /\ out[i] = "none"
      /\ out' \in [Item -> Outcome \cup {"none", "threw"}]
      /\ out'[i] = v /\ \A k \in Item : k # i => out'[k] = out[k]
      /\ Failed' = IF v = "err" THEN Failed \cup {i} ELSE Failed
      /\ NoEnd' <=> NoEnd /\ v # "end"
  BY <1>1, OneMore
<1>3. n \in Nat /\ \A k \in 1..n : k \in Item
  BY Numbers
<1>4. promise.st \in {"pending", "resolved", "rejected"} /\ Mode' = "all"
  <2>1. i \in UnderWay
    BY <1>1 DEF UnderWay
  <2> QED
    BY <1>1, <2>1 DEF NotBefore, PTypes, Mode, n
<1>5. Worked'
  <2>1. item'[i] = "done" /\ \A k \in Item : k # i => item'[k] = item[k]
    BY <1>1 DEF PTypes
  <2>2. PTypes /\ DTypes /\ Worked
    OBVIOUS
  <2> HIDE DEF RInv, DInv, IInv
  <2> QED
    BY <1>1, <2>1, <2>2, WorksOn
<1> DEFINE S == {k \in read : out'[k] = "err"}
<1>6. /\ read \in SUBSET (1..n) /\ S \in SUBSET (1..n)
      /\ NoEnd' => read = 1..n
  <2>1. /\ BeforeEnd(out') \in SUBSET (1..n)
        /\ (\A k \in 1..n : out'[k] # "end") => BeforeEnd(out') = 1..n
    BY <1>3 DEF BeforeEnd
  <2>2. NoEnd' => \A k \in 1..n : out'[k] # "end"
    BY <1>2 DEF NoEnd
  <2> QED
    BY <2>1, <2>2
<1>7. /\ InOrder(S) \in Seq(Item) /\ Elements(InOrder(S)) = S
      /\ Len(InOrder(S)) = Cardinality(S)
  <2> HIDE DEF S
  <2>1. /\ InOrder(S) \in Seq(S) /\ Elements(InOrder(S)) = S
        /\ Len(InOrder(S)) = Cardinality(S)
    BY <1>3, <1>6, Collects
  <2>2. S \subseteq Item
    BY <1>3, <1>6
  <2> QED
    BY <2>1, <2>2
<1>8. DTypes'
  <2>1. ret' \in [Item -> {"hole", "val", "skip"}]
    BY <1>1 DEF DTypes
  <2>2. errors' \in Seq(Item)
    BY <1>1, <1>7 DEF DTypes
  <2> QED
    BY <1>2, <2>1, <2>2 DEF DTypes
<1>9. CASE promise.st # "pending"
  <2>1. promise' = promise
    BY <1>1, <1>9 DEF Rejected, Concluded, Resolved
  <2>2. ResultComplete' /\ ErrorsComplete'
    BY <1>1, <1>4, <1>9, <2>1, StaysRight
  <2> QED
    BY <1>4, <1>5, <1>8, <1>9, <2>1, <2>2 DEF Unasked, Collecting
<1>10. CASE promise.st = "pending"
  <2>1. /\ errors = <<>> /\ \A k \in Item : out[k] # "threw"
        /\ Fatal => Failed = {}
    BY <1>1, <1>10 DEF Collecting
  <2>2. CASE throws
    <3>1. promise' = [st |-> "rejected", seq |-> <<i>>]
      BY <1>1, <1>10, <2>2 DEF Rejected
    <3>2. Len(<<i>>) = 1 /\ <<i>>[1] = i
      OBVIOUS
    <3>3. ResultComplete' /\ ErrorsComplete'
      BY <1>1, <1>2, <2>2, <3>1, <3>2 DEF ResultComplete, ErrorsComplete, Fatal
    <3> QED
      BY <1>5, <1>8, <3>1, <3>3 DEF Unasked, Collecting
  <2>3. CASE last /\ ~throws
    <3>1. PICK r, e : r = ret' /\ e = errors'
      OBVIOUS
    <3>2. promise' = Concluded(r, e) /\ e \in Seq(Item)
      BY <1>1, <1>8, <2>3, <3>1 DEF DTypes
    <3>3. \A k \in 1..n : r[k] = "val" <=> k \in read /\ out'[k] = "val"
      <4> HIDE DEF read
      <4>1. r = [k \in Item |-> IF k \in read /\ out'[k] = "val" THEN "val" ELSE "hole"]
        BY <1>1, <2>3, <3>1
      <4> QED
        BY <1>3, <4>1
    <3>4. Fatal => Failed' = {}
      BY <1>2, <2>1, <2>3
    <3>5. NoEnd' => AllAreDone' /\ Lists(e)' /\ Holds(r)'
      <4> SUFFICES ASSUME NoEnd'
                   PROVE  AllAreDone' /\ Lists(e)' /\ Holds(r)'
        OBVIOUS
      <4>1. read = 1..n
        BY <1>6
      <4> HIDE DEF read
      <4>2. S = Failed'
        BY <1>2, <4>1 DEF Failed
      <4> HIDE DEF S
      <4>3. Lists(e)'
        <5>1. CASE opt.errorMode = "THROW_AGGREGATED"
          <6>1. e = InOrder(S)
            BY <1>1, <2>3, <3>1, <5>1 DEF S
          <6> QED
            BY <1>1, <1>7, <4>2, <5>1, <6>1 DEF Lists, Elements
        <5>2. CASE opt.errorMode # "THROW_AGGREGATED"
          BY <1>1, <2>1, <3>1, <5>2 DEF Lists
        <5> QED
          BY <5>1, <5>2
      <4>4. AllAreDone' /\ Holds(r)'
        BY <1>2, <2>3, <3>3, <4>1 DEF AllAreDone, Holds
      <4> QED
        BY <4>3, <4>4
    <3> HIDE DEF last, read, S
    <3>6. ResultComplete' /\ ErrorsComplete'
      BY <1>1, <1>10, <3>2, <3>3, <3>4, <3>5, ConcludesWell
    <3>7. promise'.st \in {"resolved", "rejected"}
      BY <1>10, <3>2, Settling
    <3> QED
      BY <1>5, <1>8, <3>6, <3>7 DEF Unasked, Collecting
  <2>4. CASE ~last /\ ~throws
    <3>1. promise' = promise /\ errors' = <<>>
      BY <1>1, <2>1, <2>4
    <3>2. Fatal' => Failed' = {}
      BY <1>2, <2>1, <2>4
    <3>3. \A k \in Item : out'[k] # "threw"
      BY <1>2, <2>1 DEF Outcome
    <3>4. Collecting'
      BY <1>4, <3>1, <3>2, <3>3 DEF Collecting
    <3> QED
      BY <1>5, <1>8, <1>10, <3>1, <3>4 DEF Unasked, ResultComplete, ErrorsComplete
  <2> QED
    BY <2>2, <2>3, <2>4
<1> QED
  BY <1>9, <1>10

LEMMA InitCollects == Init => DInv
<1> SUFFICES ASSUME Init
             PROVE  DInv
  OBVIOUS
<1>1. /\ promise.st = "uncalled" /\ errors = <<>>
      /\ item = [i \in Item |-> "idle"] /\ out = [i \in Item |-> "none"]
      /\ ret = [i \in Item |-> "hole"]
  BY DEF Init
<1>2. DTypes /\ Worked /\ Unasked
  BY <1>1 DEF DTypes, Worked, Unasked
<1> QED
  BY <1>1, <1>2 DEF DInv, Collecting, ResultComplete, ErrorsComplete

LEMMA StepCollects == IInv /\ DInv /\ IInv' /\ [Next]_vars => DInv'
<1> SUFFICES ASSUME RInv, IInv', [Next]_vars
             PROVE  DInv'
  BY DEF RInv
<1>1. CASE UNCHANGED vars \/ \E i \in Item : StartMapper(i)
  <2>1. /\ UNCHANGED <<opt, item, out, ret, errors, currentIndex, isSettled, promise>>
        /\ UnderWay' = UnderWay /\ Mode' = Mode /\ n' = n /\ Failed' = Failed /\ Fatal' = Fatal
        /\ NoEnd' = NoEnd /\ AllAreDone' = AllAreDone
    BY <1>1 DEF vars, StartMapper, UnderWay, Mode, n, Failed, Fatal, NoEnd, AllAreDone
  <2>2. DTypes' /\ Worked' /\ Unasked'
    BY <2>1 DEF RInv, DInv, DTypes, Worked, Unasked
  <2>3. Collecting'
    BY <2>1 DEF RInv, DInv, Collecting, Lists, Holds, Elements
  <2>4. ResultComplete' /\ ErrorsComplete'
    BY <2>1 DEF RInv, DInv, ResultComplete, ErrorsComplete, Elements
  <2> QED
    BY <2>2, <2>3, <2>4 DEF DInv
<1>2. CASE CallGeneral \/ CallOne \/ CallAll
  BY <1>2, CallsCollect
<1>3. ASSUME NEW i \in Item, Finish(i)
      PROVE  DInv'
  BY <1>3, GeneralCollects, OneDoneCollects, AllDoneCollects DEF Finish
<1> QED
  BY <1>1, <1>2, <1>3 DEF Next

LEMMA AlwaysDInv == Spec => []DInv
BY InitCollects, StepCollects, AlwaysIInv, PTL DEF Spec

(* A fulfilled pMap returns values, in input order, and without an END      *)
(* those of all the items, in any of its three ways to run and whatever     *)
(* order the mappers finish in (pMap.ts:38-40).                             *)
THEOREM AlwaysResultComplete == Spec => []ResultComplete
<1>1. DInv => ResultComplete
  BY DEF DInv
<1> QED
  BY <1>1, AlwaysDInv, PTL

(* No error gets lost: it is thrown at once, or with all the others when    *)
(* every item is done, or not at all, as errorMode says (pMap.ts:13-22).    *)
THEOREM AlwaysErrorsComplete == Spec => []ErrorsComplete
<1>1. DInv => ErrorsComplete
  BY DEF DInv
<1> QED
  BY <1>1, AlwaysDInv, PTL
LEMMA CalledTakenStays ==
  ASSUME IInv, DInv, CalledTaken, [Next]_vars
  PROVE  CalledTaken'
<1> USE DEF CalledTaken
<1>1. item \in [Item -> {"idle", "taken", "done"}] 
  BY DEF IInv, PTypes
<1>2. CASE UNCHANGED vars \/ \E i \in Item : StartMapper(i)
  BY <1>2 DEF vars, StartMapper
<1>3. ASSUME called' = called,
             \A k \in Item : item[k] # "idle" => item'[k] # "idle"
      PROVE  CalledTaken'
  BY <1>3
<1>4. CASE CallGeneral
  BY <1>3, <1>4 DEF CallGeneral, DInv, Unasked
<1>5. CASE CallOne
  <2>1. called' = {1} /\ item' = [item EXCEPT ![1] = "taken"] /\ 1 \in Item
    BY <1>5, PMapAssumption, Options DEF CallOne, IInv, Item
  <2> QED
    BY <1>1, <2>1
<1>6. CASE CallAll
  <2>1. n \in Item /\ 1..n \subseteq Item
    BY Options, PMapAssumption DEF IInv, Item
  <2>2. CASE called' = 1..n /\ item' = [i \in Item |-> IF i <= n THEN "taken" ELSE "idle"]
    BY <2>1, <2>2 DEF Item
  <2>3. ASSUME NEW k \in 1..n, called' = 1..k,
               item' = [i \in Item |-> CASE i < k -> "taken" [] i = k -> "done" [] OTHER -> "idle"]
        PROVE  CalledTaken'
    <3>1. ASSUME NEW i \in 1..k
          PROVE  i \in Item /\ item'[i] # "idle"
      <4>1. i \in Item /\ (i < k \/ i = k)
        BY <2>1, <2>3, Options, PMapAssumption DEF IInv, Item
      <4> QED
        BY <2>3, <4>1
    <3> QED
      BY <2>3, <3>1
  <2> QED
    BY <1>6, <2>2, <2>3 DEF CallAll
<1>7. ASSUME NEW i \in Item, Finish(i)
      PROVE  CalledTaken'
  <2>1. ASSUME NEW r, NEW e, NextItem(i, r, e, Left), called' = called
        PROVE  CalledTaken'
    BY <1>1, <1>3, <2>1 DEF NextItem
  <2>2. ASSUME item' = [item EXCEPT ![i] = "done"], called' = called
        PROVE  CalledTaken'
    BY <1>1, <1>3, <2>2
  <2>3. ASSUME NEW v, GeneralValue(i, v)
        PROVE  CalledTaken'
    BY <2>1, <2>3 DEF GeneralValue
  <2>4. CASE GeneralEnd(i) \/ GeneralError(i)
    BY <2>1, <2>2, <2>4 DEF GeneralEnd, GeneralError
  <2>5. ASSUME NEW v, OneDone(i, v)
        PROVE  CalledTaken'
    <3> DEFINE goesOn == ~(v = "err" /\ Fatal) /\ v # "end" /\ i < n
    <3>1. /\ item' = [k \in Item |-> CASE k = i -> "done"
                                      [] k = i + 1 /\ goesOn -> "taken"
                                      [] OTHER -> item[k]]
          /\ called' = IF goesOn THEN called \cup {i + 1} ELSE called
      BY <2>5 DEF OneDone
    <3>2. goesOn => i + 1 \in Item /\ i + 1 # i
      BY Options, PMapAssumption DEF IInv, Item
    <3>3. \A k \in Item : item[k] # "idle" => item'[k] # "idle"
      BY <3>1
    <3>4. CASE goesOn
      <4>1. item'[i + 1] = "taken" /\ called' = called \cup {i + 1}
        BY <3>1, <3>2, <3>4
      <4> QED
        BY <3>2, <3>3, <3>4, <4>1
    <3> HIDE DEF goesOn
    <3> QED
      BY <1>3, <3>1, <3>3, <3>4
  <2>6. ASSUME NEW v, AllDone(i, v)
        PROVE  CalledTaken'
    BY <2>2, <2>6 DEF AllDone
  <2> QED
    BY <1>7, <2>3, <2>4, <2>5, <2>6 DEF Finish
<1> QED
  BY <1>2, <1>4, <1>5, <1>6, <1>7 DEF Next

LEMMA AlwaysCalledTaken == Spec => []CalledTaken
<1>1. Init => CalledTaken
  BY DEF Init, CalledTaken
<1> QED
  BY <1>1, CalledTakenStays, AlwaysIInv, AlwaysDInv, PTL DEF Spec

(* Once the caller has its answer no further item is taken up, and no       *)
(* mapper called but those of the items already taken                       *)
(* (pMap.ts:92-94, 117-134).                                                *)
THEOREM AlwaysNothingTakenAfterAnswer == Spec => NothingTakenAfterAnswer
<1>1. ASSUME IInv, [Next]_vars, Answered, NEW k \in Item, item[k] = "idle"
      PROVE  item'[k] = "idle"
  <2> USE DEF IInv
  <2>1. item \in [Item -> {"idle", "taken", "done"}]
    BY <1>1 DEF PTypes
  <2>2. promise.st # "uncalled"
    BY <1>1 DEF Answered
  <2>3. ASSUME NEW i \in Item, item[i] = "taken", item' = [item EXCEPT ![i] = "done"]
        PROVE  item'[k] = "idle"
    BY <1>1, <2>1, <2>3
  <2>4. CASE UNCHANGED vars \/ \E i \in Item : StartMapper(i)
    BY <1>1, <2>4 DEF vars, StartMapper
  <2>5. CASE CallGeneral \/ CallOne \/ CallAll
    BY <2>2, <2>5 DEF CallGeneral, CallOne, CallAll
  <2>6. ASSUME NEW i \in Item, Mode = "general", item[i] = "taken",
               NEW r, NEW e, NextItem(i, r, e, Left)
        PROVE  item'[k] = "idle"
    <3>1. isSettled
      BY <1>1, <2>2, <2>6 DEF General
    <3> QED
      BY <2>3, <2>6, <3>1 DEF NextItem, MayStart
  <2>7. ASSUME NEW i \in Item, NEW v, GeneralValue(i, v)
        PROVE  item'[k] = "idle"
    BY <2>6, <2>7 DEF GeneralValue
  <2>8. ASSUME NEW i \in Item, GeneralEnd(i) \/ GeneralError(i)
        PROVE  item'[k] = "idle"
    BY <2>3, <2>6, <2>8 DEF GeneralEnd, GeneralError
  <2>9. ASSUME NEW i \in Item, NEW v, OneDone(i, v)
        PROVE  item'[k] = "idle"
    <3>1. i \in UnderWay /\ UnderWay = {}
      BY <1>1, <2>9 DEF OneDone, Serial, UnderWay
    <3> QED
      BY <3>1
  <2>10. ASSUME NEW i \in Item, NEW v, AllDone(i, v)
         PROVE  item'[k] = "idle"
    BY <2>3, <2>10 DEF AllDone
  <2> QED
    BY <1>1, <2>4, <2>5, <2>7, <2>8, <2>9, <2>10 DEF Next, Finish
<1>2. IInv /\ CalledTaken' /\ [Next]_vars =>
        [promise.st \in {"resolved", "rejected"} =>
           \A i \in Item : item[i] = "idle" => item'[i] = "idle" /\ i \notin called']_vars
  <2> SUFFICES ASSUME IInv, CalledTaken', [Next]_vars, promise.st \in {"resolved", "rejected"},
                      NEW i \in Item, item[i] = "idle"
               PROVE  item'[i] = "idle" /\ i \notin called'
    OBVIOUS
  <2>1. item'[i] = "idle"
    BY <1>1 DEF Answered
  <2> QED
    BY <2>1 DEF CalledTaken
<1> QED
  BY <1>2, AlwaysIInv, AlwaysCalledTaken, PTL DEF Spec, NothingTakenAfterAnswer
=============================================================================
