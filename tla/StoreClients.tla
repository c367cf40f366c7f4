---------------------------- MODULE StoreClients ----------------------------
(* Who uses the stores of db-lib, on which rows, and how much.              *)
EXTENDS Naturals

CONSTANTS Client,
          Id,         \* row ids
          MaxCalls,   \* bound on the calls of a client
          MaxCrashes, \* bound on the crashes of the process
          Nobody,     \* who wrote the rows that are there at the start
          Nothing     \* no row

ASSUME StoreAssumption ==
  /\ MaxCalls \in Nat
  /\ MaxCrashes \in Nat
  /\ Nothing \notin Client \cup {Nobody}
=============================================================================
