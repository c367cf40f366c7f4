--------------------------- MODULE InMemoryDBProofs -------------------------
(* What InMemoryDB's transactions keep to themselves, and what a commit()   *)
(* that is alone makes of the table: for any transactions, rows, operations *)
(* and numbers of them.                                                     *)
EXTENDS InMemoryDB, WellFoundedInduction, TLAPS

\* A commit() under way has operations left, or has had one that failed.
OpsLeft ==
  \A t \in Tx :
    /\ Len(ops[t]) <= MaxOps
    /\ status[t] = "none" => ops[t] = <<>>
    /\ status[t] = "committing" => applied[t] < Len(ops[t])
    /\ Busy(t) => ops[t] # <<>>

\* The wrote flag tells of every operation buffered.
WroteKnown == \A t \in Tx : ops[t] # <<>> => wrote[t]

\* No row is t's, in the table or in a copy of it.
NoneOf(t) ==
  /\ \A i \in Id : data[i] # t
  /\ \A u \in Tx : \A i \in Id : backup[u][i] # t

\* Nor before t's commit() begins.
Buffered ==
  \A t \in Tx : status[t] \in {"none", "open"} =>
    /\ \A i \in Id : data[i] # t
    /\ \A u \in Tx : \A i \in Id : backup[u][i] # t

ReadOnlyHasNothing == \A t \in Tx : readOnly[t] => ops[t] = <<>> /\ NoneOf(t)

IInv == TypeOK /\ OpsLeft /\ WroteKnown /\ Buffered /\ ReadOnlyHasNothing
        /\ NoReadMissesOwnWrite

-----------------------------------------------------------------------------
\* An operation of who leaves each row, removes it, or makes it who's.
LEMMA WrittenByWho ==
  ASSUME NEW op, NEW d \in Data, NEW who \in Actor
  PROVE  /\ Written(op, d, who) \in Data
         /\ \A i \in Id : Written(op, d, who)[i] \in {d[i], Nothing, who}
<1> DEFINE W(i) == IF i \notin Reached(op, d) THEN d[i]
                   ELSE CASE op.type = "delete" -> Nothing
                          [] op.type = "patch" -> IF d[i] = Nothing THEN Nothing ELSE who
                          [] OTHER -> who
<1>1. ASSUME NEW i \in Id
      PROVE  W(i) \in {d[i], Nothing, who}
  <2>1. CASE op.type = "delete"
    BY <2>1
  <2>2. CASE op.type = "patch"
    BY <2>2
  <2>3. CASE op.type \notin {"delete", "patch"}
    BY <2>3
  <2> QED
    BY <2>1, <2>2, <2>3
<1>2. Written(op, d, who) = [i \in Id |-> W(i)]
  BY DEF Written
<1> HIDE DEF W
<1>3. \A i \in Id : d[i] \in Row /\ who \in Row /\ Nothing \in Row
  BY DEF Data, Row, Actor
<1> QED
  BY <1>1, <1>2, <1>3 DEF Data

\* No operations, and how many there may be.
LEMMA NoOps == <<>> \in Seq(TxOps) /\ Len(<<>>) = 0 /\ 0 <= MaxOps /\ MaxOps \in Nat
BY InMemoryDBAssumption

LEMMA InitEstablishes == Init => IInv
<1> SUFFICES ASSUME Init
             PROVE  IInv
  OBVIOUS
<1>1. Empty \in Data /\ \A i \in Id, t \in Tx : Empty[i] # t
  BY InMemoryDBAssumption DEF Empty, Data, Row, Actor
<1>2. \A t \in Tx : ops[t] = <<>> /\ Len(ops[t]) = 0 /\ ~Busy(t) /\ status[t] = "none"
  BY NoOps DEF Init, Busy
<1>3. TypeOK
  BY <1>1, InMemoryDBAssumption DEF Init, TypeOK, Status
<1>4. OpsLeft
  BY <1>2, NoOps DEF OpsLeft
<1>5. Buffered /\ ReadOnlyHasNothing
  BY <1>1 DEF Init, Buffered, ReadOnlyHasNothing, NoneOf
<1>6. WroteKnown /\ NoReadMissesOwnWrite
  BY <1>2 DEF Init, WroteKnown, NoReadMissesOwnWrite
<1> QED
  BY <1>3, <1>4, <1>5, <1>6 DEF IInv

\* Steps that change neither the table nor its copies, and begin nothing.
\* The transaction t drops its operations, or keeps them.
LEMMA QuietPreserves ==
  ASSUME IInv, NEW t \in Tx, NEW s \in Status \ {"none", "committing", "failing"},
         status[t] \in {"none", "open"},
         status' = [status EXCEPT ![t] = s],
         ops' = ops \/ ops' = [ops EXCEPT ![t] = <<>>],
         UNCHANGED <<cfg, data, readOnly, applied, wrote, backup, direct, missed, disturbed>>
  PROVE  IInv'
<1> USE DEF IInv
<1>1. ops' \in [Tx -> Seq(TxOps)] /\ \A u \in Tx : ops'[u] \in {<<>>, ops[u]} /\ Len(<<>>) = 0
  BY NoOps DEF TypeOK
<1>2. TypeOK'
  BY <1>1 DEF TypeOK
<1>3. \A u \in Tx : u # t => status'[u] = status[u] /\ ops'[u] = ops[u]
  BY DEF TypeOK
<1>4. status'[t] \notin {"none", "committing", "failing"}
  BY DEF TypeOK
<1>5. OpsLeft'
  <2> SUFFICES ASSUME NEW u \in Tx
               PROVE  /\ Len(ops'[u]) <= MaxOps
                      /\ status'[u] = "none" => ops'[u] = <<>>
                      /\ status'[u] = "committing" => applied'[u] < Len(ops'[u])
                      /\ Busy(u)' => ops'[u] # <<>>
    BY DEF OpsLeft
  <2>1. Len(ops'[u]) <= MaxOps
    BY <1>1, InMemoryDBAssumption DEF OpsLeft
  <2> QED
    BY <2>1, <1>3, <1>4 DEF OpsLeft, Busy
<1>6. WroteKnown' /\ ReadOnlyHasNothing' /\ NoReadMissesOwnWrite'
  BY <1>1 DEF WroteKnown, ReadOnlyHasNothing, NoneOf, NoReadMissesOwnWrite
<1>7. Buffered'
  BY <1>3, <1>4 DEF Buffered
<1> QED
  BY <1>2, <1>5, <1>6, <1>7

LEMMA BeginPreserves ==
  ASSUME IInv, NEW t \in Tx, NEW ro \in BOOLEAN, Begin(t, ro)
  PROVE  IInv'
<1> USE DEF IInv
<1>1. /\ status[t] = "none" /\ status' = [status EXCEPT ![t] = "open"]
      /\ readOnly' = [readOnly EXCEPT ![t] = ro]
      /\ UNCHANGED <<cfg, data, ops, applied, wrote, backup, direct, missed, disturbed>>
  BY DEF Begin
<1>2. TypeOK'
  BY <1>1 DEF TypeOK, Status
<1>3. OpsLeft' /\ WroteKnown' /\ NoReadMissesOwnWrite'
  BY <1>1 DEF OpsLeft, WroteKnown, NoReadMissesOwnWrite, Busy, TypeOK
<1>4. Buffered'
  BY <1>1 DEF Buffered, TypeOK
<1>5. ReadOnlyHasNothing'
  <2>1. ops[t] = <<>> /\ NoneOf(t)
    BY <1>1 DEF OpsLeft, Buffered, NoneOf
  <2> QED
    BY <1>1, <2>1 DEF ReadOnlyHasNothing, NoneOf, TypeOK
<1> QED
  BY <1>2, <1>3, <1>4, <1>5

LEMMA ReadPreserves ==
  ASSUME IInv, NEW t \in Tx, NEW i \in Id, Read(t, i)
  PROVE  IInv'
<1> USE DEF IInv
<1>1. CASE ~ReadAllowed(t)
  <2>1. "rolledBack" \in Status \ {"none", "committing", "failing"}
    BY DEF Status
  <2> QED
    BY <1>1, <2>1, QuietPreserves DEF Read, FnRejects
<1>2. CASE ReadAllowed(t)
  <2> DEFINE hit == \E k \in 1..Len(ops[t]) : i \in {ops[t][k].ids[h] : h \in 1..Len(ops[t][k].ids)}
  <2>1. /\ missed' = IF hit THEN missed \cup {t} ELSE missed
        /\ UNCHANGED <<status, ops, cfg, data, readOnly, applied, wrote, backup, direct, disturbed>>
    BY <1>2 DEF Read
  <2>2. hit => ops[t] # <<>>
    <3> SUFFICES ASSUME hit
                 PROVE  ops[t] # <<>>
      OBVIOUS
    <3>1. 1..Len(ops[t]) # {}
      OBVIOUS
    <3>2. Len(<<>>) = 0 /\ 1..0 = {}
      OBVIOUS
    <3> QED
      BY <3>1, <3>2
  <2> HIDE DEF hit
  <2>3. NoReadMissesOwnWrite'
    BY <1>2, <2>1, <2>2 DEF NoReadMissesOwnWrite, WroteKnown, ReadAllowed
  <2>4. TypeOK'
    BY <2>1 DEF TypeOK
  <2>5. OpsLeft' /\ WroteKnown' /\ Buffered' /\ ReadOnlyHasNothing'
    BY <2>1 DEF OpsLeft, WroteKnown, Buffered, ReadOnlyHasNothing, NoneOf, Busy
  <2> QED
    BY <2>3, <2>4, <2>5
<1> QED
  BY <1>1, <1>2

LEMMA WritePreserves ==
  ASSUME IInv, NEW t \in Tx, NEW op \in TxOps, Write(t, op)
  PROVE  IInv'
<1> USE DEF IInv
<1>1. CASE ~WriteAllowed(t)
  <2>1. "rolledBack" \in Status \ {"none", "committing", "failing"}
    BY DEF Status
  <2> QED
    BY <1>1, <2>1, QuietPreserves DEF Write, FnRejects
<1>2. CASE WriteAllowed(t)
  <2>1. /\ status[t] = "open" /\ Len(ops[t]) < MaxOps /\ ~readOnly[t]
        /\ ops' = [ops EXCEPT ![t] = Append(ops[t], op)]
        /\ wrote' = [wrote EXCEPT ![t] = TRUE]
        /\ UNCHANGED <<status, cfg, data, readOnly, applied, backup, direct, missed, disturbed>>
    BY <1>2 DEF Write, WriteAllowed
  <2>2. /\ ops[t] \in Seq(TxOps) /\ Append(ops[t], op) \in Seq(TxOps)
        /\ Len(Append(ops[t], op)) = Len(ops[t]) + 1 /\ Len(ops[t]) \in Nat
    BY DEF TypeOK
  <2>3. TypeOK'
    BY <2>1, <2>2 DEF TypeOK
  <2>4. \A u \in Tx : u # t => ops'[u] = ops[u] /\ wrote'[u] = wrote[u]
    BY <2>1 DEF TypeOK
  <2>5. Len(ops'[t]) <= MaxOps /\ wrote'[t] = TRUE
    BY <2>1, <2>2, InMemoryDBAssumption DEF TypeOK
  <2>6. OpsLeft'
    BY <2>1, <2>4, <2>5 DEF OpsLeft, Busy
  <2>7. WroteKnown' /\ ReadOnlyHasNothing'
    BY <2>1, <2>4, <2>5 DEF WroteKnown, ReadOnlyHasNothing, NoneOf
  <2> QED
    BY <2>1, <2>3, <2>6, <2>7 DEF Buffered, NoReadMissesOwnWrite
<1> QED
  BY <1>1, <1>2

LEMMA RollbackPreserves ==
  ASSUME IInv, NEW t \in Tx, Rollback(t)
  PROVE  IInv'
<1> USE DEF IInv
<1>1. /\ status[t] = "open" /\ status' = status /\ "open" \in Status \ {"none", "committing", "failing"}
      /\ ops' = [ops EXCEPT ![t] = <<>>]
      /\ UNCHANGED <<cfg, data, readOnly, applied, wrote, backup, direct, missed, disturbed>>
  BY DEF Rollback, Status
<1>2. status' = [status EXCEPT ![t] = "open"]
  BY <1>1 DEF TypeOK
<1> QED
  BY <1>1, <1>2, QuietPreserves

\* The k-th operation of a commit() whose copy is c, which has nothing of
\* those that may have left nothing.
LEMMA ApplyOpPreserves ==
  ASSUME IInv, NEW t \in Tx, NEW k \in 1..Len(ops[t]), NEW c \in Data,
         ops[t] # <<>>,
         \A u \in Tx : NoneOf(u) => \A i \in Id : c[i] # u,
         ApplyOp(t, k, c),
         disturbed' \in SUBSET Tx,
         UNCHANGED <<cfg, readOnly, wrote, direct, missed>>
  PROVE  IInv'
<1> USE DEF IInv
<1> DEFINE op == ops[t][k]
           next == AfterOp(t, Succeeds(op, data), k)
<1>1. /\ data' = Written(op, data, t)
      /\ status' = [status EXCEPT ![t] = next]
      /\ next \in {"committing", "failing", "committed"}
      /\ next = "committing" => k # Len(ops[t])
  <2>1. CASE ~Succeeds(op, data)
    BY <2>1 DEF ApplyOp, AfterOp
  <2>2. CASE Succeeds(op, data) /\ k = Len(ops[t])
    BY <2>2 DEF ApplyOp, AfterOp
  <2>3. CASE Succeeds(op, data) /\ k # Len(ops[t])
    BY <2>3 DEF ApplyOp, AfterOp
  <2> QED
    BY <2>1, <2>2, <2>3
<1>2. \/ /\ next = "committed" /\ ops' = [ops EXCEPT ![t] = <<>>]
         /\ applied' = [applied EXCEPT ![t] = 0] /\ backup' = [backup EXCEPT ![t] = Empty]
      \/ /\ next # "committed" /\ ops' = ops
         /\ applied' = [applied EXCEPT ![t] = k] /\ backup' = [backup EXCEPT ![t] = c]
  BY DEF ApplyOp, Clear
<1> HIDE DEF op, next
<1>3. /\ data' \in Data /\ \A i \in Id : data'[i] \in {data[i], Nothing, t}
  BY <1>1, WrittenByWho DEF TypeOK, Actor
<1>4. Empty \in Data /\ \A i \in Id, u \in Tx : Empty[i] # u /\ Nothing # u
  BY InMemoryDBAssumption DEF Empty, Data, Row, Actor
<1>5. /\ k \in Nat /\ k <= Len(ops[t]) /\ Len(ops[t]) <= MaxOps /\ Len(ops[t]) \in Nat
      /\ MaxOps \in Nat
  BY InMemoryDBAssumption DEF OpsLeft, TypeOK
<1>6. TypeOK'
  <2>1. applied' \in [Tx -> 0..MaxOps] /\ ops' \in [Tx -> Seq(TxOps)] /\ backup' \in [Tx -> Data]
    <3>1. k \in 0..MaxOps /\ 0 \in 0..MaxOps
      BY <1>5
    <3>2. applied' \in [Tx -> 0..MaxOps]
      BY <1>2, <3>1 DEF TypeOK
    <3>3. ops' \in [Tx -> Seq(TxOps)]
      BY <1>2, NoOps DEF TypeOK
    <3>4. backup' \in [Tx -> Data]
      <4>1. backup \in [Tx -> Data] /\ c \in Data /\ Empty \in Data
        BY <1>4 DEF TypeOK
      <4>2. backup' = [backup EXCEPT ![t] = Empty] \/ backup' = [backup EXCEPT ![t] = c]
        BY <1>2
      <4> QED
        BY <4>1, <4>2
    <3> QED
      BY <3>2, <3>3, <3>4
  <2>2. status' \in [Tx -> Status]
    BY <1>1 DEF TypeOK, Status
  <2> QED
    BY <1>3, <2>1, <2>2 DEF TypeOK
<1>7. \A u \in Tx : u # t => /\ status'[u] = status[u] /\ ops'[u] = ops[u]
                             /\ applied'[u] = applied[u] /\ backup'[u] = backup[u]
  BY <1>1, <1>2 DEF TypeOK
<1>8. /\ status'[t] = next /\ ops'[t] \in {<<>>, ops[t]}
      /\ next # "committed" => ops'[t] = ops[t] /\ applied'[t] = k
      /\ backup'[t] \in {Empty, c}
  BY <1>1, <1>2 DEF TypeOK
<1>9. OpsLeft'
  <2>1. /\ Len(ops'[t]) <= MaxOps
        /\ status'[t] # "none"
        /\ status'[t] = "committing" => applied'[t] < Len(ops'[t])
        /\ Busy(t)' => ops'[t] # <<>>
    <3>1. Len(<<>>) = 0
      OBVIOUS
    <3> QED
      BY <1>1, <1>5, <1>8, <3>1 DEF Busy
  <2> QED
    BY <2>1, <1>7 DEF OpsLeft, Busy
<1>10. WroteKnown'
  BY <1>7, <1>8 DEF WroteKnown
<1>11. ASSUME NEW u \in Tx, u # t, NoneOf(u)
       PROVE  NoneOf(u)'
  BY <1>3, <1>4, <1>7, <1>8, <1>11 DEF NoneOf
<1>12. Buffered'
  BY <1>1, <1>7, <1>8, <1>11 DEF Buffered, NoneOf
<1>13. ReadOnlyHasNothing'
  BY <1>7, <1>11 DEF ReadOnlyHasNothing
<1> QED
  BY <1>6, <1>9, <1>10, <1>12, <1>13 DEF NoReadMissesOwnWrite

LEMMA CommitPreserves ==
  ASSUME IInv, NEW t \in Tx, Commit(t) \/ CommitNext(t)
  PROVE  IInv'
<1> USE DEF IInv
<1>1. ops[t] \in Seq(TxOps) /\ Len(ops[t]) \in Nat /\ applied[t] \in Nat
  BY InMemoryDBAssumption DEF TypeOK
<1>2. disturbed' \in SUBSET Tx
  BY DEF Commit, CommitNext, Disturbing, TypeOK
<1>3. CASE Commit(t)
  <2>1. 1 \in 1..Len(ops[t])
    BY <1>1, <1>3 DEF Commit
  <2>2. data \in Data /\ \A u \in Tx : NoneOf(u) => \A i \in Id : data[i] # u
    BY DEF TypeOK, NoneOf
  <2> QED
    BY <1>2, <1>3, <2>1, <2>2, ApplyOpPreserves DEF Commit
<1>4. CASE CommitNext(t)
  <2>1. applied[t] < Len(ops[t]) /\ ops[t] # <<>>
    BY <1>4 DEF CommitNext, OpsLeft, Busy
  <2>2. applied[t] + 1 \in 1..Len(ops[t])
    BY <1>1, <2>1
  <2>3. backup[t] \in Data /\ \A u \in Tx : NoneOf(u) => \A i \in Id : backup[t][i] # u
    BY DEF TypeOK, NoneOf
  <2> QED
    BY <1>2, <1>4, <2>1, <2>2, <2>3, ApplyOpPreserves DEF CommitNext
<1> QED
  BY <1>3, <1>4

LEMMA RestorePreserves ==
  ASSUME IInv, NEW t \in Tx, Restore(t)
  PROVE  IInv'
<1> USE DEF IInv
<1>1. /\ status[t] = "failing" /\ status' = [status EXCEPT ![t] = "rolledBack"]
      /\ data' = backup[t] /\ ops' = [ops EXCEPT ![t] = <<>>]
      /\ applied' = [applied EXCEPT ![t] = 0] /\ backup' = [backup EXCEPT ![t] = Empty]
      /\ disturbed' \in SUBSET Tx
      /\ UNCHANGED <<cfg, readOnly, wrote, direct, missed>>
  BY DEF Restore, Clear, Disturbing, TypeOK
<1>2. Empty \in Data /\ \A i \in Id, u \in Tx : Empty[i] # u
  BY InMemoryDBAssumption DEF Empty, Data, Row, Actor
<1>3. TypeOK'
  BY <1>1, <1>2, InMemoryDBAssumption DEF TypeOK, Status
<1>4. \A u \in Tx : u # t => /\ status'[u] = status[u] /\ ops'[u] = ops[u]
                             /\ applied'[u] = applied[u] /\ backup'[u] = backup[u]
  BY <1>1 DEF TypeOK
<1>5. status'[t] = "rolledBack" /\ ops'[t] = <<>> /\ Len(<<>>) = 0 /\ backup'[t] = Empty
  BY <1>1 DEF TypeOK
<1>6. OpsLeft'
  BY <1>4, <1>5, InMemoryDBAssumption DEF OpsLeft, Busy
<1>7. \A u \in Tx : NoneOf(u) => NoneOf(u)'
  BY <1>1, <1>2, <1>4, <1>5 DEF NoneOf
<1>8. Buffered'
  BY <1>4, <1>5, <1>7 DEF Buffered, NoneOf
<1>9. WroteKnown' /\ ReadOnlyHasNothing'
  BY <1>1, <1>4, <1>5, <1>7 DEF WroteKnown, ReadOnlyHasNothing
<1> QED
  BY <1>1, <1>3, <1>6, <1>8, <1>9 DEF NoReadMissesOwnWrite

LEMMA WriteDirectlyPreserves ==
  ASSUME IInv, NEW w \in Direct, NEW op \in DirectOps, WriteDirectly(w, op)
  PROVE  IInv'
<1> USE DEF IInv
<1>1. /\ data' = Written(op, data, w) /\ direct' = direct \cup {w}
      /\ disturbed' \in SUBSET Tx
      /\ UNCHANGED <<cfg, status, readOnly, ops, applied, wrote, backup, missed>>
  BY DEF WriteDirectly, TypeOK
<1>2. data' \in Data /\ \A i \in Id : data'[i] \in {data[i], Nothing, w}
  BY <1>1, WrittenByWho DEF TypeOK, Actor
<1>3. TypeOK'
  BY <1>1, <1>2 DEF TypeOK
<1>4. \A u \in Tx : NoneOf(u) => NoneOf(u)'
  BY <1>1, <1>2, InMemoryDBAssumption DEF NoneOf, Actor
<1>5. Buffered' /\ ReadOnlyHasNothing'
  BY <1>1, <1>4 DEF Buffered, ReadOnlyHasNothing, NoneOf
<1> QED
  BY <1>1, <1>3, <1>5 DEF OpsLeft, Busy, WroteKnown, NoReadMissesOwnWrite

LEMMA StepPreserves == IInv /\ [Next]_vars => IInv'
<1> SUFFICES ASSUME IInv, [Next]_vars
             PROVE  IInv'
  OBVIOUS
<1>1. CASE UNCHANGED vars
  BY <1>1 DEF vars, IInv, TypeOK, OpsLeft, WroteKnown, Buffered,
     ReadOnlyHasNothing, NoneOf, NoReadMissesOwnWrite, Busy
<1>2. ASSUME NEW t \in Tx, Abandon(t) \/ CommitEmpty(t)
      PROVE  IInv'
  <2>1. "rolledBack" \in Status \ {"none", "committing", "failing"}
        /\ "committed" \in Status \ {"none", "committing", "failing"}
    BY DEF Status
  <2> QED
    BY <1>2, <2>1, QuietPreserves DEF Abandon, CommitEmpty, FnRejects
<1>3. CASE Next
  BY <1>2, <1>3, BeginPreserves, ReadPreserves, WritePreserves, RollbackPreserves,
     CommitPreserves, RestorePreserves, WriteDirectlyPreserves DEF Next
<1> QED
  BY <1>1, <1>3

LEMMA AlwaysIInv == Spec => []IInv
BY InitEstablishes, StepPreserves, PTL DEF Spec

(* Every state is one the types allow.                                      *)
THEOREM AlwaysTypeOK == Spec => []TypeOK
<1>1. IInv => TypeOK
  BY DEF IInv
<1> QED
  BY <1>1, AlwaysIInv, PTL

(* Nobody sees a write of a transaction before its commit() begins, nor any *)
(* of a read-only one.                                                      *)
THEOREM AlwaysBufferedUntilCommit == Spec => []BufferedUntilCommit
<1>1. IInv => BufferedUntilCommit
  BY DEF IInv, Buffered, ReadOnlyHasNothing, NoneOf, BufferedUntilCommit
<1> QED
  BY <1>1, AlwaysIInv, PTL

(* With forbidTransactionReadAfterWrite no read misses an own write.        *)
THEOREM AlwaysReadsOwnWrites == Spec => []NoReadMissesOwnWrite
<1>1. IInv => NoReadMissesOwnWrite
  BY DEF IInv
<1> QED
  BY <1>1, AlwaysIInv, PTL

-----------------------------------------------------------------------------
\* The least of some numbers: what the inductions below are by.
LEMMA Least ==
  ASSUME NEW S \in SUBSET Nat, S # {}
  PROVE  \E m \in S : \A k \in S : m <= k
<1>1. PICK m \in S : \A k \in S : <<k, m>> \notin OpToRel(<, Nat)
  <2> HIDE DEF OpToRel
  <2>1. S \subseteq Nat
    OBVIOUS
  <2> QED
    BY <2>1, NatLessThanWellFounded, WFMin
<1>2. \A k \in S : <<k, m>> \in OpToRel(<, Nat) <=> k < m
  BY DEF OpToRel
<1>3. \A k \in S : ~(k < m)
  BY <1>1, <1>2
<1> QED
  BY <1>3


\* The data after each number of the operations o of t, from d on.
Stages(f, o, t, d) == [k \in 0..Len(o) |-> IF k = 0 THEN d ELSE Written(o[k], f[k - 1], t)]

LEMMA StagesExist ==
  ASSUME NEW o, Len(o) \in Nat, NEW t, NEW d
  PROVE  \E f : f = Stages(f, o, t, d)
<1> DEFINE Some(f, m) == [k \in 0..m |-> IF k = 0 THEN d ELSE Written(o[k], f[k - 1], t)]
           Without == {m \in Nat : ~ \E f : f = Some(f, m)}
<1>1. ASSUME Without # {}
      PROVE  FALSE
  <2>1. PICK m \in Without : \A j \in Without : m <= j
    <3>1. Without \in SUBSET Nat
      OBVIOUS
    <3> HIDE DEF Without
    <3> QED
      BY <1>1, <3>1, Least
  <2>2. m # 0
    <3>1. [i \in 0..0 |-> d] = Some([i \in 0..0 |-> d], 0)
      OBVIOUS
    <3> QED
      BY <2>1, <3>1
  <2>3. PICK f : f = Some(f, m - 1)
    BY <2>1, <2>2
  <2> DEFINE g == [i \in 0..m |-> IF i < m THEN f[i] ELSE Written(o[m], f[m - 1], t)]
  <2>4. ASSUME NEW i \in 0..m
        PROVE  g[i] = IF i = 0 THEN d ELSE Written(o[i], g[i - 1], t)
    <3>1. CASE i = m
      BY <2>1, <2>2, <3>1
    <3>2. CASE i # m
      <4>1. i \in 0..(m - 1) /\ i < m /\ g[i] = f[i]
        BY <2>1, <3>2
      <4>2. f[i] = IF i = 0 THEN d ELSE Written(o[i], f[i - 1], t)
        BY <2>3, <4>1
      <4>3. i # 0 => g[i - 1] = f[i - 1]
        BY <2>1, <4>1
      <4> QED
        BY <4>1, <4>2, <4>3
    <3> QED
      BY <3>1, <3>2
  <2>5. g = [i \in 0..m |-> g[i]]
    OBVIOUS
  <2> HIDE DEF g
  <2>6. g = Some(g, m)
    BY <2>4, <2>5
  <2> QED
    BY <2>1, <2>6
<1> QED
  BY <1>1 DEF Stages

\* The data after the first k operations of t, from d on.
Stage(t, d, k) == (CHOOSE f : f = Stages(f, ops[t], t, d))[k]

LEMMA StageByStage ==
  ASSUME NEW t, Len(ops[t]) \in Nat, NEW d
  PROVE  /\ Stage(t, d, 0) = d
         /\ \A k \in 1..Len(ops[t]) : Stage(t, d, k) = Written(ops[t][k], Stage(t, d, k - 1), t)
         /\ AfterAll(t, d) = Stage(t, d, Len(ops[t]))
<1> DEFINE F == CHOOSE f : f = Stages(f, ops[t], t, d)
<1>1. F = Stages(F, ops[t], t, d)
  <2> HIDE DEF Stages
  <2> QED
    BY StagesExist
<1>2. AfterAll(t, d) = F[Len(ops[t])]
  BY DEF AfterAll, Stages
<1>3. \A k : Stage(t, d, k) = F[k]
  BY DEF Stage
<1> HIDE DEF F
<1>4. \A k \in 0..Len(ops[t]) : F[k] = IF k = 0 THEN d ELSE Written(ops[t][k], F[k - 1], t)
  BY <1>1 DEF Stages
<1> QED
  BY <1>2, <1>3, <1>4

\* Where nobody else has written since its commit() began, the data is what
\* the operations applied so far have made of its copy.
AloneStages ==
  \A t \in Tx : status[t] = "committing" /\ t \notin disturbed =>
                  data = Stage(t, backup[t], applied[t])

\* The step of a commit(): its k-th operation, on data that is the copy c
\* after the operations before.
LEMMA StageApplied ==
  ASSUME TypeOK, NEW t \in Tx, NEW k \in 1..Len(ops[t]), NEW c, data = Stage(t, c, k - 1),
         ApplyOp(t, k, c)
  PROVE  /\ data' = Stage(t, c, k)
         /\ status'[t] = "committed" => k = Len(ops[t])
         /\ status'[t] = "committing" => /\ data' = Stage(t, backup[t], applied[t])'
                                         /\ ops' = ops
         /\ status'[t] \in {"committing", "failing", "committed"}
         /\ \A u \in Tx : u # t => /\ status'[u] = status[u] /\ ops'[u] = ops[u]
                                   /\ applied'[u] = applied[u] /\ backup'[u] = backup[u]
<1> DEFINE next == AfterOp(t, Succeeds(ops[t][k], data), k)
<1>1. Len(ops[t]) \in Nat
  BY DEF TypeOK
<1>2. data' = Stage(t, c, k)
  BY <1>1, StageByStage DEF ApplyOp
<1>3. /\ status' = [status EXCEPT ![t] = next]
      /\ next \in {"committing", "failing", "committed"}
      /\ next = "committed" => k = Len(ops[t])
  <2>1. status' = [status EXCEPT ![t] = next]
    BY DEF ApplyOp
  <2>2. CASE ~Succeeds(ops[t][k], data)
    BY <2>1, <2>2 DEF AfterOp
  <2>3. CASE Succeeds(ops[t][k], data) /\ k = Len(ops[t])
    BY <2>1, <2>3 DEF AfterOp
  <2>4. CASE Succeeds(ops[t][k], data) /\ k # Len(ops[t])
    BY <2>1, <2>4 DEF AfterOp
  <2> QED
    BY <2>2, <2>3, <2>4
<1>4. \/ /\ next = "committed" /\ ops' = [ops EXCEPT ![t] = <<>>]
         /\ applied' = [applied EXCEPT ![t] = 0] /\ backup' = [backup EXCEPT ![t] = Empty]
      \/ /\ next # "committed" /\ ops' = ops
         /\ applied' = [applied EXCEPT ![t] = k] /\ backup' = [backup EXCEPT ![t] = c]
  BY DEF ApplyOp, Clear
<1> HIDE DEF next
<1>5. status'[t] = next
  BY <1>3 DEF TypeOK
<1>6. ASSUME next # "committed"
      PROVE  data' = Stage(t, backup[t], applied[t])' /\ ops' = ops
  <2>1. ops' = ops /\ applied'[t] = k /\ backup'[t] = c
    BY <1>4, <1>6 DEF TypeOK
  <2> QED
    BY <1>2, <2>1 DEF Stage, Stages, Written, Reached, Blocked
<1>7. \A u \in Tx : u # t => /\ status'[u] = status[u] /\ ops'[u] = ops[u]
                             /\ applied'[u] = applied[u] /\ backup'[u] = backup[u]
  BY <1>3, <1>4 DEF TypeOK
<1> QED
  BY <1>2, <1>3, <1>5, <1>6, <1>7

\* Whoever has had no other write since its commit() began is not affected by t's.
LEMMA OthersStay ==
  ASSUME AloneStages, NEW t \in Tx,
         Disturbing(t) \subseteq disturbed',
         NEW u \in Tx, u # t, status'[u] = status[u], ops'[u] = ops[u],
         applied'[u] = applied[u], backup'[u] = backup[u],
         status'[u] = "committing", u \notin disturbed'
  PROVE  FALSE
BY DEF Disturbing, Busy

LEMMA StageStays ==
  ASSUME NEW u, ops'[u] = ops[u], applied'[u] = applied[u], backup'[u] = backup[u]
  PROVE  Stage(u, backup[u], applied[u])' = Stage(u, backup[u], applied[u])
BY DEF Stage, Stages, Written, Reached, Blocked

LEMMA AloneInit == Init => AloneStages
BY DEF Init, AloneStages

LEMMA AloneStep == TypeOK /\ OpsLeft /\ AloneStages /\ [Next]_vars => AloneStages'
<1> SUFFICES ASSUME TypeOK, OpsLeft, AloneStages, [Next]_vars
             PROVE  AloneStages'
  OBVIOUS
\* What leaves the data alone does not begin a commit() either.
<1>1. ASSUME UNCHANGED <<data, applied, backup, disturbed>>,
             \A u \in Tx : status'[u] = "committing" => status[u] = "committing" /\ ops'[u] = ops[u]
      PROVE  AloneStages'
  BY <1>1, StageStays DEF AloneStages
<1> USE DEF TypeOK
<1>2. CASE UNCHANGED vars
  BY <1>1, <1>2 DEF vars
<1>3. ASSUME NEW t \in Tx, NEW ro \in BOOLEAN, Begin(t, ro)
      PROVE  AloneStages'
  BY <1>1, <1>3 DEF Begin
<1>4. ASSUME NEW t \in Tx, NEW i \in Id, Read(t, i)
      PROVE  AloneStages'
  BY <1>1, <1>4 DEF Read, FnRejects
<1>5. ASSUME NEW t \in Tx, NEW op \in TxOps, Write(t, op)
      PROVE  AloneStages'
  BY <1>1, <1>5 DEF Write, FnRejects
<1>6. ASSUME NEW t \in Tx, Rollback(t) \/ Abandon(t) \/ CommitEmpty(t)
      PROVE  AloneStages'
  BY <1>1, <1>6 DEF Rollback, Abandon, CommitEmpty, FnRejects
<1>7. ASSUME NEW t \in Tx, NEW k \in 1..Len(ops[t]), NEW c, data = Stage(t, c, k - 1),
             ApplyOp(t, k, c), Disturbing(t) \subseteq disturbed'
      PROVE  AloneStages'
  <2> HIDE DEF TypeOK
  <2>1. ASSUME NEW u \in Tx, status'[u] = "committing", u \notin disturbed'
        PROVE  data' = Stage(u, backup[u], applied[u])'
    <3>1. CASE u = t
      BY <1>7, <2>1, <3>1, StageApplied
    <3>2. CASE u # t
      BY <1>7, <2>1, <3>2, StageApplied, OthersStay
    <3> QED
      BY <3>1, <3>2
  <2> QED
    BY <2>1 DEF AloneStages
<1>8. ASSUME NEW t \in Tx, Commit(t)
      PROVE  AloneStages'
  <2>1. ops[t] # <<>> /\ ApplyOp(t, 1, data) /\ Disturbing(t) \subseteq disturbed'
    BY <1>8 DEF Commit
  <2>2. 1 \in 1..Len(ops[t]) /\ Len(ops[t]) \in Nat
    BY <2>1
  <2> HIDE DEF TypeOK
  <2>3. data = Stage(t, data, 1 - 1)
    BY <2>2, StageByStage
  <2> QED
    BY <1>7, <2>1, <2>2, <2>3
<1>9. ASSUME NEW t \in Tx, CommitNext(t)
      PROVE  AloneStages'
  <2> HIDE DEF TypeOK
  <2>1. /\ ApplyOp(t, applied[t] + 1, backup[t]) /\ disturbed' = Disturbing(t)
        /\ status[t] = "committing"
    BY <1>9 DEF CommitNext
  <2>2. PICK k : k = applied[t] + 1
    OBVIOUS
  <2>3. k \in 1..Len(ops[t]) /\ k - 1 = applied[t]
    BY <2>1, <2>2, InMemoryDBAssumption DEF OpsLeft, TypeOK
  <2>4. CASE t \notin disturbed
    <3>1. data = Stage(t, backup[t], applied[t])
      BY <2>1, <2>4 DEF AloneStages
    <3>2. PICK c : c = backup[t]
      OBVIOUS
    <3>3. data = Stage(t, c, k - 1) /\ ApplyOp(t, k, c)
      BY <2>1, <2>2, <2>3, <3>1, <3>2, Zenon
    <3> QED
      BY <1>7, <2>1, <2>3, <3>3
  <2>5. CASE t \in disturbed
    <3>1. ASSUME NEW u \in Tx, status'[u] = "committing", u \notin disturbed'
          PROVE  FALSE
      <4>1. u # t
        BY <2>1, <2>5, <3>1 DEF Disturbing
      <4>2. status'[u] = status[u]
        BY <2>1, <4>1 DEF ApplyOp, TypeOK
      <4> QED
        BY <2>1, <3>1, <4>1, <4>2 DEF Disturbing, Busy
    <3> QED
      BY <3>1 DEF AloneStages
  <2> QED
    BY <2>4, <2>5
<1>10. ASSUME NEW t \in Tx, Restore(t)
       PROVE  AloneStages'
  <2>1. /\ status' = [status EXCEPT ![t] = "rolledBack"] /\ disturbed' = Disturbing(t)
    BY <1>10 DEF Restore
  <2>2. ASSUME NEW u \in Tx, status'[u] = "committing", u \notin disturbed'
        PROVE  FALSE
    BY <2>1, <2>2 DEF Disturbing, Busy
  <2> QED
    BY <2>2 DEF AloneStages
<1>11. ASSUME NEW w \in Direct, NEW op \in DirectOps, WriteDirectly(w, op)
       PROVE  AloneStages'
  <2>1. status' = status /\ disturbed' = disturbed \cup {u \in Tx : Busy(u)}
    BY <1>11 DEF WriteDirectly
  <2>2. ASSUME NEW u \in Tx, status'[u] = "committing", u \notin disturbed'
        PROVE  FALSE
    BY <2>1, <2>2 DEF Busy
  <2> QED
    BY <2>2 DEF AloneStages
<1> QED
  BY <1>2, <1>3, <1>4, <1>5, <1>6, <1>8, <1>9, <1>10, <1>11 DEF Next

LEMMA AlwaysAloneStages == Spec => []AloneStages
<1>1. IInv => TypeOK /\ OpsLeft
  BY DEF IInv
<1> QED
  BY <1>1, AloneInit, AloneStep, AlwaysIInv, PTL DEF Spec

(* A commit() that no other write fell into applies all of its operations,  *)
(* each to what the one before has left, or puts back what there was        *)
(* (inMemory.db.ts:433-456).                                                *)
THEOREM AlwaysAloneAllOrNone == Spec => AloneAllOrNone
<1> DEFINE Start(t) == IF Busy(t) THEN backup[t] ELSE data
<1>1. ASSUME TypeOK, OpsLeft, AloneStages, [Next]_vars,
             NEW t \in Tx, status'[t] # status[t], t \notin disturbed'
      PROVE  /\ status'[t] = "committed" => data' = AfterAll(t, Start(t))
             /\ status'[t] = "rolledBack" => data' = Start(t)
  <2>1. Len(ops[t]) \in Nat
    BY <1>1 DEF TypeOK
  <2>2. ASSUME NEW u \in Tx, u # t, \E s : status' = [status EXCEPT ![u] = s]
        PROVE  FALSE
    BY <1>1, <2>2 DEF TypeOK
  <2>3. ASSUME NEW k \in 1..Len(ops[t]), data = Stage(t, Start(t), k - 1),
               ApplyOp(t, k, Start(t))
        PROVE  /\ status'[t] = "committed" => data' = AfterAll(t, Start(t))
               /\ status'[t] # "rolledBack"
    <3>1. PICK c : c = Start(t)
      OBVIOUS
    <3>2. /\ data' = Stage(t, c, k) /\ (status'[t] = "committed" => k = Len(ops[t]))
          /\ status'[t] \in {"committing", "failing", "committed"}
      BY <1>1, <2>3, <3>1, StageApplied
    <3>3. AfterAll(t, c) = Stage(t, c, Len(ops[t]))
      BY <2>1, StageByStage
    <3> QED
      BY <3>1, <3>2, <3>3
  <2>4. CASE Commit(t)
    <3>1. ops[t] # <<>> /\ ApplyOp(t, 1, data) /\ Start(t) = data
      BY <2>4 DEF Commit, Busy
    <3>2. 1 \in 1..Len(ops[t])
      BY <1>1, <3>1 DEF TypeOK
    <3>3. data = Stage(t, data, 1 - 1)
      BY <2>1, StageByStage
    <3> HIDE DEF Start
    <3> QED
      BY <2>3, <3>1, <3>2, <3>3
  <2>5. CASE CommitNext(t)
    <3>1. /\ ApplyOp(t, applied[t] + 1, backup[t]) /\ disturbed' = Disturbing(t)
          /\ status[t] = "committing" /\ Start(t) = backup[t]
      BY <2>5 DEF CommitNext, Busy
    <3>2. PICK k : k = applied[t] + 1
      OBVIOUS
    <3>3. k \in 1..Len(ops[t]) /\ k - 1 = applied[t]
      BY <1>1, <3>1, <3>2, InMemoryDBAssumption DEF OpsLeft, TypeOK
    <3>4. data = Stage(t, backup[t], applied[t])
      BY <1>1, <3>1 DEF AloneStages, Disturbing
    <3> HIDE DEF Start
    <3>5. data = Stage(t, Start(t), k - 1) /\ ApplyOp(t, k, Start(t))
      BY <3>1, <3>2, <3>3, <3>4, Zenon
    <3> QED
      BY <2>3, <3>3, <3>5
  <2>6. CASE CommitEmpty(t)
    <3>1. ops[t] = <<>> /\ data' = data /\ Start(t) = data /\ status'[t] = "committed"
      BY <1>1, <2>6 DEF CommitEmpty, Busy, TypeOK
    <3>2. Len(ops[t]) = 0
      BY <3>1
    <3>3. AfterAll(t, data) = data
      BY <2>1, <3>2, StageByStage
    <3> QED
      BY <3>1, <3>3
  <2>7. CASE Restore(t)
    BY <1>1, <2>7 DEF Restore, Busy, TypeOK
  <2>8. CASE \/ \E ro \in BOOLEAN : Begin(t, ro)
             \/ \E i \in Id : Read(t, i)
             \/ \E op \in TxOps : Write(t, op)
             \/ Abandon(t)
    <3>1. status[t] \in {"none", "open"} /\ data' = data
          /\ status'[t] # "committed"
      BY <1>1, <2>8 DEF Begin, Read, Write, Abandon, FnRejects, TypeOK
    <3> QED
      BY <3>1 DEF Busy
  <2>9. CASE Rollback(t) \/ UNCHANGED vars \/ \E w \in Direct, op \in DirectOps : WriteDirectly(w, op)
    BY <1>1, <2>9 DEF Rollback, WriteDirectly, vars
  <2>10. ASSUME NEW u \in Tx, u # t,
                \/ \E ro \in BOOLEAN : Begin(u, ro)
                \/ \E i \in Id : Read(u, i)
                \/ \E op \in TxOps : Write(u, op)
                \/ Abandon(u) \/ Commit(u) \/ CommitEmpty(u) \/ CommitNext(u) \/ Restore(u)
                \/ Rollback(u)
         PROVE  FALSE
    <3>1. status' = status \/ \E s : status' = [status EXCEPT ![u] = s]
      BY <2>10 DEF Begin, Read, Write, Abandon, FnRejects, Commit, CommitEmpty, CommitNext,
         ApplyOp, Restore, Rollback
    <3> QED
      BY <1>1, <2>2, <2>10, <3>1
  <2> QED
    BY <1>1, <2>4, <2>5, <2>6, <2>7, <2>8, <2>9, <2>10 DEF Next
<1>2. TypeOK /\ OpsLeft /\ AloneStages /\ [Next]_vars =>
        [\A t \in Tx :
           status'[t] # status[t] /\ t \notin disturbed' =>
             LET start == IF Busy(t) THEN backup[t] ELSE data IN
             /\ status'[t] = "committed" => data' = AfterAll(t, start)
             /\ status'[t] = "rolledBack" => data' = start]_vars
  BY <1>1
<1>3. IInv => TypeOK /\ OpsLeft
  BY DEF IInv
<1> QED
  BY <1>2, <1>3, AlwaysAloneStages, AlwaysIInv, PTL DEF Spec, AloneAllOrNone
=============================================================================
