----------------------------- MODULE InMemoryDB -----------------------------
(***************************************************************************)
(* db-lib/src/adapter/inmemory/inMemory.db.ts: InMemoryDB and its           *)
(* InMemoryDBTransaction, with the way CommonDao.runInTransaction uses them *)
(* (db-lib/src/commondao/common.dao.ts).  One table; a row is the name of   *)
(* the actor that wrote it last.                                            *)
(*                                                                          *)
(* A transaction buffers its operations.  commit() copies the whole data,   *)
(* then applies them one by one, each behind an await: others run between   *)
(* two operations, and between the operation that fails and the catch that  *)
(* puts the copy back.                                                      *)
(***************************************************************************)
EXTENDS Naturals, Sequences

CONSTANTS Tx,        \* transactions
          Direct,    \* operations made on the db itself, without one
          Id,        \* row ids
          TxOps,     \* the operations considered in a transaction
          DirectOps, \* the operations considered outside
          MaxOps,    \* bound on the operations of a transaction
          Nothing    \* no row

Actor == Tx \cup Direct

ASSUME InMemoryDBAssumption ==
  /\ TxOps \subseteq [type : {"upsert", "insert", "update", "delete"}, ids : Seq(Id)]
  /\ DirectOps \subseteq [type : {"upsert", "insert", "update", "delete", "patch"},
                        ids : Seq(Id)]
  /\ MaxOps \in Nat
  /\ Nothing \notin Actor
  /\ Tx \cap Direct = {}

VARIABLES cfg,       \* cfg.forbidTransactionReadAfterWrite
          data,      \* this.data, of the one table
          status,    \* what each transaction is doing
          readOnly,  \* opt.readOnly
          ops,       \* this.ops
          applied,   \* how many of them commit() has applied
          wrote,     \* this.writeOperationHappened
          backup,    \* the copy commit() made
          direct,    \* the direct operations already made
          missed,    \* history: who read a row it had itself buffered a write of
          disturbed  \* history: whose commit() another write fell into

vars == <<cfg, data, status, readOnly, ops, applied, wrote, backup, direct,
          missed, disturbed>>

Row == Actor \cup {Nothing}
Data == [Id -> Row]
Status == {"none", "open", "committing", "failing", "committed", "rolledBack"}

TypeOK ==
  /\ cfg \in [forbidReadAfterWrite : BOOLEAN]
  /\ data \in Data
  /\ status \in [Tx -> Status]
  /\ readOnly \in [Tx -> BOOLEAN]
  /\ ops \in [Tx -> Seq(TxOps)]
  /\ applied \in [Tx -> 0..MaxOps]
  /\ wrote \in [Tx -> BOOLEAN]
  /\ backup \in [Tx -> Data]
  /\ direct \subseteq Direct
  /\ missed \subseteq Tx
  /\ disturbed \subseteq Tx

Empty == [i \in Id |-> Nothing]

Init ==
  /\ cfg \in [forbidReadAfterWrite : BOOLEAN]
  /\ data = Empty
  /\ status = [t \in Tx |-> "none"]
  /\ readOnly = [t \in Tx |-> FALSE]
  /\ ops = [t \in Tx |-> <<>>]
  /\ applied = [t \in Tx |-> 0]
  /\ wrote = [t \in Tx |-> FALSE]
  /\ backup = [t \in Tx |-> Empty]
  /\ direct = {}
  /\ missed = {}
  /\ disturbed = {}

-----------------------------------------------------------------------------
(* saveBatch, deleteByIds and the direct operations: row by row, in order,  *)
(* until one of them throws.  The rows before it stay written.              *)

Blocked(op, d, i) == \/ op.type = "insert" /\ d[op.ids[i]] # Nothing
                     \/ op.type = "update" /\ d[op.ids[i]] = Nothing

Succeeds(op, d) == \A i \in 1..Len(op.ids) : ~Blocked(op, d, i)

\* The ids written before the first row that throws.
Reached(op, d) ==
  {op.ids[i] : i \in {k \in 1..Len(op.ids) : \A h \in 1..k : ~Blocked(op, d, h)}}

\* The data after op, made by who.
Written(op, d, who) ==
  [i \in Id |-> IF i \notin Reached(op, d) THEN d[i]
                ELSE CASE op.type = "delete" -> Nothing
                       [] op.type = "patch" -> IF d[i] = Nothing THEN Nothing ELSE who
                       [] OTHER -> who]

Busy(t) == status[t] \in {"committing", "failing"}

\* History: every commit() under way but t's has another write in it.
Disturbing(t) == disturbed \cup {u \in Tx \ {t} : Busy(u)}

-----------------------------------------------------------------------------
\* runInTransaction calls fn, or createTransaction returns.
Begin(t, ro) ==
  /\ status[t] = "none"
  /\ status' = [status EXCEPT ![t] = "open"]
  /\ readOnly' = [readOnly EXCEPT ![t] = ro]
  /\ UNCHANGED <<cfg, data, ops, applied, wrote, backup, direct, missed, disturbed>>

\* Mutant: reads are allowed whatever the transaction did before.
ReadAllowed_Always(t) == TRUE
ReadAllowed(t) == ~(cfg.forbidReadAfterWrite /\ wrote[t])

\* What a rejected fn leads to: rollback() empties ops, the error goes on.
FnRejects(t) == /\ status' = [status EXCEPT ![t] = "rolledBack"]
                /\ ops' = [ops EXCEPT ![t] = <<>>]

\* tx.getByIds: a forbidden one throws, which rejects fn.
Read(t, i) ==
  /\ status[t] = "open"
  /\ \/ /\ ReadAllowed(t)
        /\ missed' = IF \E k \in 1..Len(ops[t]) : i \in {ops[t][k].ids[h] :
                                                   h \in 1..Len(ops[t][k].ids)}
                     THEN missed \cup {t} ELSE missed
        /\ UNCHANGED <<status, ops>>
     \/ /\ ~ReadAllowed(t)
        /\ FnRejects(t)
        /\ UNCHANGED missed
  /\ UNCHANGED <<cfg, data, readOnly, applied, wrote, backup, direct, disturbed>>

\* Mutant: the readOnly assertion is missing.
WriteAllowed_Always(t) == TRUE
WriteAllowed(t) == ~readOnly[t]

\* Mutant: a write goes straight to the db.
Write_Through(t, op) ==
  /\ status[t] = "open"
  /\ data' = Written(op, data, t)
  /\ wrote' = [wrote EXCEPT ![t] = TRUE]
  /\ UNCHANGED <<cfg, status, readOnly, ops, applied, backup, direct, missed, disturbed>>

\* tx.saveBatch or tx.deleteByIds: buffered, or refused in readOnly mode.
Write(t, op) ==
  /\ status[t] = "open"
  /\ \/ /\ WriteAllowed(t)
        /\ Len(ops[t]) < MaxOps
        /\ ops' = [ops EXCEPT ![t] = Append(@, op)]
        /\ wrote' = [wrote EXCEPT ![t] = TRUE]
        /\ UNCHANGED status
     \/ /\ ~WriteAllowed(t)
        /\ FnRejects(t)
        /\ UNCHANGED wrote
  /\ UNCHANGED <<cfg, data, readOnly, applied, backup, direct, missed, disturbed>>

\* tx.rollback() by fn, which goes on with the transaction.
Rollback(t) ==
  /\ status[t] = "open"
  /\ ops[t] # <<>>
  /\ ops' = [ops EXCEPT ![t] = <<>>]
  /\ UNCHANGED <<cfg, data, status, readOnly, applied, wrote, backup, direct,
                 missed, disturbed>>

\* fn rejects for a reason of its own.
Abandon(t) ==
  /\ status[t] = "open"
  /\ FnRejects(t)
  /\ UNCHANGED <<cfg, data, readOnly, applied, wrote, backup, direct, missed, disturbed>>

\* Mutant: a failed operation ends the loop like a successful last one.
AfterOp_Ignoring(t, ok, k) ==
  IF k = Len(ops[t]) \/ ~ok THEN "committed" ELSE "committing"
\* What commit() does after its k-th operation succeeded, or did not.
AfterOp(t, ok, k) ==
  CASE ~ok -> "failing"
    [] ok /\ k = Len(ops[t]) -> "committed"
    [] OTHER -> "committing"

\* The end of commit(): this.ops = [], and its local variables are gone.
Clear(t) == /\ ops' = [ops EXCEPT ![t] = <<>>]
            /\ applied' = [applied EXCEPT ![t] = 0]
            /\ backup' = [backup EXCEPT ![t] = Empty]

\* The k-th operation of t's commit(), whose copy is c, up to the await.
ApplyOp(t, k, c) ==
  LET op == ops[t][k]
      next == AfterOp(t, Succeeds(op, data), k) IN
  /\ data' = Written(op, data, t)
  /\ status' = [status EXCEPT ![t] = next]
  /\ \/ /\ next = "committed"
        /\ Clear(t)
     \/ /\ next # "committed"
        /\ applied' = [applied EXCEPT ![t] = k]
        /\ backup' = [backup EXCEPT ![t] = c]
        /\ UNCHANGED ops

\* commit(): the copy and the first operation are one uninterrupted step.
Commit(t) ==
  /\ status[t] = "open"
  /\ ops[t] # <<>>
  /\ ApplyOp(t, 1, data)
  /\ disturbed' = Disturbing(t) \cup (IF \E u \in Tx : Busy(u) THEN {t} ELSE {})
  /\ UNCHANGED <<cfg, readOnly, wrote, direct, missed>>

CommitEmpty(t) ==
  /\ status[t] = "open"
  /\ ops[t] = <<>>
  /\ status' = [status EXCEPT ![t] = "committed"]
  /\ UNCHANGED <<cfg, data, readOnly, ops, applied, wrote, backup, direct,
                 missed, disturbed>>

\* Mutant: a commit() waits for the others, having begun.
CommitNext_Waiting(t) ==
  /\ status[t] = "committing"
  /\ \A u \in Tx \ {t} : ~Busy(u)
  /\ ApplyOp(t, applied[t] + 1, backup[t])
  /\ UNCHANGED <<cfg, readOnly, wrote, direct, missed, disturbed>>

\* The continuation of commit() after the await of one operation.
CommitNext(t) ==
  /\ status[t] = "committing"
  /\ ApplyOp(t, applied[t] + 1, backup[t])
  /\ disturbed' = Disturbing(t)
  /\ UNCHANGED <<cfg, readOnly, wrote, direct, missed>>

\* The catch of commit(), a microtask after the operation that failed.
Restore(t) ==
  /\ status[t] = "failing"
  /\ data' = backup[t]
  /\ Clear(t)
  /\ disturbed' = Disturbing(t)
  /\ status' = [status EXCEPT ![t] = "rolledBack"]
  /\ UNCHANGED <<cfg, readOnly, wrote, direct, missed>>

(* saveBatch, deleteByIds, patchByQuery or incrementBatch on the db itself: *)
(* no await inside, so one step, but a throwing row leaves the earlier ones *)
(* written.                                                                 *)
WriteDirectly(w, op) ==
  /\ w \notin direct
  /\ direct' = direct \cup {w}
  /\ data' = Written(op, data, w)
  /\ disturbed' = disturbed \cup {u \in Tx : Busy(u)}
  /\ UNCHANGED <<cfg, status, readOnly, ops, applied, wrote, backup, missed>>

Next ==
  \/ \E t \in Tx : \/ \E ro \in BOOLEAN : Begin(t, ro)
                   \/ \E i \in Id : Read(t, i)
                   \/ \E op \in TxOps : Write(t, op)
                   \/ Rollback(t)
                   \/ Abandon(t)
                   \/ Commit(t)
                   \/ CommitEmpty(t)
                   \/ CommitNext(t)
                   \/ Restore(t)
  \/ \E w \in Direct, op \in DirectOps : WriteDirectly(w, op)

Spec == Init /\ [][Next]_vars

(* The continuations of a commit() that was started run.                    *)
FairSpec == Spec /\ \A t \in Tx : WF_vars(CommitNext(t) \/ Restore(t))

-----------------------------------------------------------------------------
(* Nothing a transaction wrote is to be seen before its commit() starts,   *)
(* and never if it is read-only, nor does the copy that a rollback of       *)
(* another would put back have it (inMemory.db.ts:396-431, 434, 451).       *)
BufferedUntilCommit ==
  \A t \in Tx : status[t] \in {"none", "open"} \/ readOnly[t] =>
    /\ \A i \in Id : data[i] # t
    /\ \A u \in Tx : \A i \in Id : backup[u][i] # t

(* With forbidTransactionReadAfterWrite no read of a transaction can miss   *)
(* one of its own writes, which getByIds would not see                      *)
(* (inMemory.db.ts:50-59, 386-393).                                         *)
NoReadMissesOwnWrite == cfg.forbidReadAfterWrite => missed = {}

\* The data after the operations of t, all of them, on d.
AfterAll(t, d) ==
  LET after[k \in 0..Len(ops[t])] ==
        IF k = 0 THEN d ELSE Written(ops[t][k], after[k - 1], t)
  IN after[Len(ops[t])]

(* A commit() that no other write fell into applies all of its operations   *)
(* or none (inMemory.db.ts:433-456).                                        *)
AloneAllOrNone ==
  [][\A t \in Tx :
       status'[t] # status[t] /\ t \notin disturbed' =>
         LET start == IF Busy(t) THEN backup[t] ELSE data IN
         /\ status'[t] = "committed" => data' = AfterAll(t, start)
         /\ status'[t] = "rolledBack" => data' = start]_vars

(* Every commit() ends, one way or the other.                               *)
CommitEnds == \A t \in Tx : Busy(t) ~> status[t] \in {"committed", "rolledBack"}

(* "either ALL or NONE of the operations should be applied"                 *)
(* (common.db.ts:143-144): a rolled back transaction has left nothing behind.   *)
NoneIfRolledBack ==
  \A t \in Tx : status[t] = "rolledBack" => \A i \in Id : data[i] # t
=============================================================================
