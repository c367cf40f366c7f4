-------------------------------- MODULE PMap --------------------------------
(***************************************************************************)
(* js-lib/src/promise/pMap.ts: one call of pMap over n items.  It has three *)
(* ways to run: serially (pMap1), all at once (pMapAll) and, in between,    *)
(* with `concurrency` mappers at a time, each of which starts the next item *)
(* from its own continuation.  There an item is taken off the list first    *)
(* and its mapper called later: in a microtask, or, the item being a        *)
(* promise, once it resolves.  An item is its index; what is returned or    *)
(* thrown for it stands for itself.                                         *)
(***************************************************************************)
EXTENDS Naturals, Sequences, FiniteSets

CONSTANTS MaxItems,       \* bound on the number of items
          MaxConcurrency  \* bound on opt.concurrency; Infinity is like MaxItems

ASSUME PMapAssumption == MaxItems \in Nat /\ MaxConcurrency \in Nat

VARIABLES opt,      \* the number of items and the options
          item,     \* whether each item is taken off the list, and done
          called,   \* the items whose mapper has been called
          out,      \* what the mapper came to for each item
          ret,      \* ret: the values by index, "hole" where none was put
          errors,   \* errors: the items that failed, in the order they did
          resolvingCount, currentIndex, isSettled,  \* of the general case
          promise   \* what pMap's caller holds

vars == <<opt, item, called, out, ret, errors, resolvingCount, currentIndex, isSettled, promise>>

Item == 1..MaxItems
ErrorMode == {"THROW_IMMEDIATELY", "THROW_AGGREGATED", "SUPPRESS"}
Outcome == {"val", "skip", "end", "err"}
Pending == [st |-> "pending", seq |-> <<>>]

n == opt.n
Mode == CASE opt.concurrency = 1 -> "one"
          [] opt.concurrency # 1 /\ n <= opt.concurrency -> "all"
          [] OTHER -> "general"

TypeOK ==
  /\ opt \in [n : Item, concurrency : 0..MaxConcurrency, errorMode : ErrorMode]
  /\ item \in [Item -> {"idle", "taken", "done"}]
  /\ called \in SUBSET Item
  /\ out \in [Item -> Outcome \cup {"none", "threw"}]
  /\ ret \in [Item -> {"hole", "val", "skip"}]
  /\ errors \in Seq(Item)
  /\ resolvingCount \in 0..MaxConcurrency
  /\ currentIndex \in 0..(MaxItems + MaxConcurrency)
  /\ isSettled \in BOOLEAN
  /\ promise.st \in {"uncalled", "pending", "resolved", "rejected"}
  /\ promise.seq \in Seq(Item)

Init ==
  /\ opt \in [n : Item, concurrency : 0..MaxConcurrency, errorMode : ErrorMode]
  /\ item = [i \in Item |-> "idle"]
  /\ called = {}
  /\ out = [i \in Item |-> "none"]
  /\ ret = [i \in Item |-> "hole"]
  /\ errors = <<>>
  /\ resolvingCount = 0
  /\ currentIndex = 0
  /\ isSettled = FALSE
  /\ promise = [st |-> "uncalled", seq |-> <<>>]

-----------------------------------------------------------------------------
\* The items of S in input order: what a loop over all of them collects.
InOrder(S) ==
  LET upTo[k \in 0..n] == IF k = 0 THEN <<>>
                          ELSE IF k \in S THEN Append(upTo[k - 1], k) ELSE upTo[k - 1]
  IN upTo[n]

\* The items whose value is in r: holes and SKIPs left out.
Kept(r) == InOrder({i \in 1..n : r[i] = "val"})

\* A promise settles once.
Resolved(s) == IF promise.st = "pending" THEN [st |-> "resolved", seq |-> s] ELSE promise
Rejected(s) == IF promise.st = "pending" THEN [st |-> "rejected", seq |-> s] ELSE promise

\* Mutant: errors collected on the way are not looked at.
Concluded_Ignoring(r, e) == Resolved(Kept(r))
\* How a run that has no item left ends, by the values and errors it has.
Concluded(r, e) == IF e # <<>> THEN Rejected(e) ELSE Resolved(Kept(r))

Fatal == opt.errorMode = "THROW_IMMEDIATELY"

Collected(i) == IF opt.errorMode = "THROW_AGGREGATED" THEN Append(errors, i) ELSE errors

\* Mutant: a value is pushed where it arrives instead of being put at its index.
Stored_ByArrival(i, v) ==
  [ret EXCEPT ![CHOOSE k \in 1..n : ret[k] = "hole"
                                   /\ \A h \in 1..(k - 1) : ret[h] # "hole"] = v]
Stored(i, v) == [ret EXCEPT ![i] = v]

\* The items still in progress when a continuation calls next().
Left == resolvingCount - 1

\* Mutant: off by one, nobody is the last.
Stop_Never(res) == ~isSettled /\ res < 0
\* Whether next() concludes, there being no item left to take.
Stop(res) == ~isSettled /\ res = 0

\* Mutant: isSettled is not looked at.
MayStart_Settled == currentIndex < n
\* Whether next() takes an item.
MayStart == ~isSettled /\ currentIndex < n

(* next(), called by item i's continuation with the values r, the errors e  *)
(* and res other items in progress.                                         *)
NextItem(i, r, e, res) ==
  /\ ret' = r
  /\ errors' = e
  /\ currentIndex' = IF isSettled THEN currentIndex ELSE currentIndex + 1
  /\ \/ /\ MayStart
        /\ item' = [item EXCEPT ![i] = "done", ![currentIndex + 1] = "taken"]
        /\ resolvingCount' = res + 1
        /\ UNCHANGED <<isSettled, promise>>
     \/ /\ ~MayStart
        /\ item' = [item EXCEPT ![i] = "done"]
        /\ resolvingCount' = res
        /\ isSettled' = (isSettled \/ Stop(res))
        /\ promise' = IF Stop(res) THEN Concluded(r, e) ELSE promise

\* Mutant: one more next() than there are slots.
Opening_OneMore == IF opt.concurrency + 1 <= n THEN opt.concurrency + 1 ELSE n
\* How many items the opening loop takes.
Opening == opt.concurrency

-----------------------------------------------------------------------------
(* The call, up to its first await.  A mapper that throws is caught by the  *)
(* promise chain, or by the try of pMap1, but not by the map() of pMapAll.  *)
CallGeneral ==
  /\ promise.st = "uncalled" /\ Mode = "general"
  /\ item' = [i \in Item |-> IF i <= Opening THEN "taken" ELSE "idle"]
  /\ resolvingCount' = Opening
  /\ currentIndex' = Opening
  /\ promise' = Pending
  /\ UNCHANGED <<opt, called, out, ret, errors, isSettled>>

CallOne ==
  /\ promise.st = "uncalled" /\ Mode = "one"
  /\ item' = [item EXCEPT ![1] = "taken"]
  /\ called' = {1}
  /\ promise' = Pending
  /\ UNCHANGED <<opt, out, ret, errors, resolvingCount, currentIndex, isSettled>>

CallAll ==
  /\ promise.st = "uncalled" /\ Mode = "all"
  /\ \/ /\ item' = [i \in Item |-> IF i <= n THEN "taken" ELSE "idle"]
        /\ called' = 1..n
        /\ promise' = Pending
        /\ UNCHANGED out
     \/ \E k \in 1..n :
          /\ item' = [i \in Item |-> CASE i < k -> "taken"
                                       [] i = k -> "done"
                                       [] OTHER -> "idle"]
          /\ called' = 1..k
          /\ out' = [out EXCEPT ![k] = "threw"]
          /\ promise' = [st |-> "rejected", seq |-> <<k>>]
  /\ UNCHANGED <<opt, ret, errors, resolvingCount, currentIndex, isSettled>>

(* General case: the mapper of item i is called, whatever has become of the *)
(* call since the item was taken.                                           *)
StartMapper(i) ==
  /\ Mode = "general" /\ item[i] = "taken" /\ i \notin called
  /\ called' = called \cup {i}
  /\ UNCHANGED <<opt, item, out, ret, errors, resolvingCount, currentIndex, isSettled, promise>>

\* General case: the mapper of item i returns a value or SKIP.
GeneralValue(i, v) ==
  /\ Mode = "general" /\ item[i] = "taken" /\ i \in called /\ v \in {"val", "skip"}
  /\ out' = [out EXCEPT ![i] = v]
  /\ NextItem(i, Stored(i, v), errors, Left)
  /\ UNCHANGED <<opt, called>>

\* General case: END resolves at once with what there is.
GeneralEnd(i) ==
  /\ Mode = "general" /\ item[i] = "taken" /\ i \in called
  /\ out' = [out EXCEPT ![i] = "end"]
  /\ item' = [item EXCEPT ![i] = "done"]
  /\ isSettled' = TRUE
  /\ promise' = Resolved(Kept(ret))
  /\ UNCHANGED <<opt, called, ret, errors, resolvingCount, currentIndex>>

(* General case: the mapper of item i fails or, not called yet, the promise *)
(* that is the item does.                                                   *)
GeneralError(i) ==
  /\ Mode = "general" /\ item[i] = "taken"
  /\ out' = [out EXCEPT ![i] = "err"]
  /\ \/ /\ Fatal
        /\ item' = [item EXCEPT ![i] = "done"]
        /\ isSettled' = TRUE
        /\ promise' = Rejected(<<i>>)
        /\ UNCHANGED <<ret, errors, resolvingCount, currentIndex>>
     \/ /\ ~Fatal
        /\ NextItem(i, ret, Collected(i), Left)
  /\ UNCHANGED <<opt, called>>

\* pMap1: item i is done, and the loop goes on, breaks or throws.
OneDone(i, v) ==
  /\ Mode = "one" /\ item[i] = "taken"
  /\ out' = [out EXCEPT ![i] = v]
  /\ ret' = IF v = "val" THEN Stored(i, v) ELSE ret
  /\ errors' = IF v = "err" THEN Collected(i) ELSE errors
  /\ LET throws == v = "err" /\ Fatal
         goesOn == ~throws /\ v # "end" /\ i < n IN
     /\ item' = [k \in Item |-> CASE k = i -> "done"
                                  [] k = i + 1 /\ goesOn -> "taken"
                                  [] OTHER -> item[k]]
     /\ called' = IF goesOn THEN called \cup {i + 1} ELSE called
     /\ promise' = CASE throws -> Rejected(<<i>>)
                     [] goesOn -> promise
                     [] OTHER -> Concluded(ret', errors')
  /\ UNCHANGED <<opt, resolvingCount, currentIndex, isSettled>>

\* The items before the first END, all of them if there is none.
BeforeEnd(o) == {i \in 1..n : \A k \in 1..i : o[k] # "end"}

(* pMapAll: item i is done.  Promise.all rejects with the first failure and *)
(* drops ENDs like SKIPs; Promise.allSettled is read, in input order up to  *)
(* an END, once every item is done.                                         *)
AllDone(i, v) ==
  /\ Mode = "all" /\ item[i] = "taken"
  /\ item' = [item EXCEPT ![i] = "done"]
  /\ out' = [out EXCEPT ![i] = v]
  /\ LET last == \A k \in 1..n : item'[k] = "done"
         read == IF Fatal THEN 1..n ELSE BeforeEnd(out') IN
     /\ ret' = IF last THEN [k \in Item |-> IF k \in read /\ out'[k] = "val"
                                            THEN "val" ELSE "hole"]
                       ELSE ret
     /\ errors' = IF last /\ opt.errorMode = "THROW_AGGREGATED"
                  THEN InOrder({k \in read : out'[k] = "err"})
                  ELSE errors
     /\ promise' = CASE v = "err" /\ Fatal -> Rejected(<<i>>)
                     [] last /\ ~(v = "err" /\ Fatal) -> Concluded(ret', errors')
                     [] OTHER -> promise
  /\ UNCHANGED <<opt, called, resolvingCount, currentIndex, isSettled>>

Finish(i) ==
  \/ \E v \in {"val", "skip"} : GeneralValue(i, v)
  \/ GeneralEnd(i)
  \/ GeneralError(i)
  \/ \E v \in Outcome : OneDone(i, v)
  \/ \E v \in Outcome : AllDone(i, v)

Next == \/ CallGeneral \/ CallOne \/ CallAll
        \/ \E i \in Item : StartMapper(i) \/ Finish(i)

Spec == Init /\ [][Next]_vars

(* Microtasks run, mappers come to an end, and so do promises that are      *)
(* items.                                                                   *)
FairSpec == Spec /\ \A i \in Item : WF_vars(StartMapper(i)) /\ WF_vars(Finish(i))

-----------------------------------------------------------------------------
UnderWay == {i \in Item : item[i] = "taken"}
Failed == {i \in 1..n : out[i] = "err"}
AllAreDone == \A i \in 1..n : item[i] = "done"
NoEnd == \A i \in 1..n : out[i] # "end"
Elements(s) == {s[k] : k \in 1..Len(s)}

(* No more items are under way at a time than asked for, counting the ones  *)
(* whose mapper is still to be called, and until the result is decided no   *)
(* slot is idle while an item is left (pMap.ts:90-150).                     *)
BoundedConcurrency ==
  /\ Mode = "one" => Cardinality(UnderWay) <= 1
  /\ Mode = "general" =>
       /\ Cardinality(UnderWay) <= opt.concurrency
       /\ promise.st = "pending" /\ ~isSettled =>
            /\ resolvingCount = Cardinality(UnderWay)
            /\ currentIndex < n => resolvingCount = opt.concurrency

(* A fulfilled pMap returns its values in input order; without an END these *)
(* are the values of all the items, whatever order they finished in and     *)
(* whichever of the three ways it ran (pMap.ts:38-40).                      *)
ResultComplete ==
  promise.st = "resolved" =>
    /\ \A h, k \in 1..Len(promise.seq) : h < k => promise.seq[h] < promise.seq[k]
    /\ \A i \in Elements(promise.seq) : out[i] = "val"
    /\ NoEnd => /\ AllAreDone
                /\ Elements(promise.seq) = {i \in 1..n : out[i] = "val"}

(* An error is thrown at once, with all the others once every item is done, *)
(* or not at all, as errorMode says, and none gets lost on the way          *)
(* (pMap.ts:13-22).  END cuts this short, and so does a throwing mapper.    *)
ErrorsComplete ==
  NoEnd /\ (\A i \in 1..n : out[i] # "threw") =>
    /\ promise.st = "rejected" =>
         CASE opt.errorMode = "THROW_IMMEDIATELY" ->
                Len(promise.seq) = 1 /\ promise.seq[1] \in Failed
           [] opt.errorMode = "THROW_AGGREGATED" ->
                /\ AllAreDone
                /\ Elements(promise.seq) = Failed
                /\ Len(promise.seq) = Cardinality(Failed)
           [] OTHER -> FALSE
    /\ promise.st = "resolved" /\ Failed # {} => opt.errorMode = "SUPPRESS"

(* Once the caller has its answer no further item is taken up: the slots    *)
(* still busy run out (pMap.ts:92-94, 121-134).  Their mappers may still be *)
(* called, for isSettled is looked at when an item is taken and not again   *)
(* when, a microtask or an awaited item later, its mapper is called (:117); *)
(* a mapper of any other item is not.                                       *)
NothingTakenAfterAnswer ==
  [][promise.st \in {"resolved", "rejected"} =>
       \A i \in Item : item[i] = "idle" => item'[i] = "idle" /\ i \notin called']_vars

(* Every call with a positive concurrency is answered (pMap.ts:98-108).     *)
EventuallySettled ==
  promise.st = "pending" /\ opt.concurrency > 0
    ~> promise.st \in {"resolved", "rejected"}

(* "When set to SUPPRESS - will ignore errors and return results from       *)
(* successful operations" (pMap.ts:17): a mapper that throws instead of     *)
(* rejecting escapes from pMapAll's map().                                  *)
SuppressNeverRejects ==
  promise.st = "rejected" => opt.errorMode # "SUPPRESS"
=============================================================================
