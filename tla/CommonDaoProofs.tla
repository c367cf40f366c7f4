--------------------------- MODULE CommonDaoProofs --------------------------
(* What a CommonDao keeps, for any clients, ids, calls and numbers of them. *)
EXTENDS CommonDao, TLAPS

Saves == {"create", "patchById", "optimistic", "txPatch"}
InPlace == {"patchByIds", "increment"}
Saving == {"converting", "checking", "writing"}

\* A write that an immutable dao sends: no row is changed but by an override.
Sendable(w) == w.type = "insert" \/ w.overrides

\* One of ws overrides that the rows of id i are immutable.
Overridden(ws, i) == \E k \in 1..Len(ws) : ws[k].id = i /\ ws[k].overrides

\* Writes that may wait in a transaction.
Good(immutable, ws) ==
  /\ \A k \in 1..Len(ws) : /\ immutable => Sendable(ws[k])
                           /\ ws[k].why = "patch" => ws[k].row # Nothing
  /\ \A i \in Id : Writes(ws, i) # {} =>
       \E first, last \in Writes(ws, i) : \A k \in Writes(ws, i) : first <= k /\ k <= last

\* What a client may be doing, where it is.
Shape(c) ==
  /\ pc[c] = "idle" => tx[c] = "none" /\ bm[c] = Nothing /\ calls[c] = 0
  /\ pc[c] = "loading" => call[c].kind \in {"getById", "patchById"}
  /\ pc[c] \in {"converting", "checking"} => call[c].kind \in Saves
  /\ pc[c] \in Saving => /\ ~cfg.readOnly
                         /\ call[c].kind # "getById"
                         /\ Allowed(call[c])
                         /\ call[c].kind \in Saves => bm[c] # Nothing
                         /\ call[c].kind \in InPlace => tx[c] = "none"
  /\ pc[c] \in Saving \cup {"loading", "committing"} => calls[c] # 0
  /\ tx[c] = "none" => reads[c] = {}
  /\ ~Buffering(c) \/ cfg.readOnly \/ calls[c] = 0 => buf[c] = <<>>
  /\ Good(cfg.immutable, buf[c])

SInv == TypeOK /\ \A c \in Client : Shape(c)

-----------------------------------------------------------------------------
(* Lists of writes                                                           *)

LEMMA EmptyWrites ==
  /\ <<>> \in Seq(Write) /\ \A immutable : Good(immutable, <<>>)
  /\ \A i \in Id : Writes(<<>>, i) = {}
  /\ \A d \in Database : Applied(<<>>, d) = d /\ ~Refused(<<>>, d)
<1>1. Len(<<>>) = 0 /\ 1..0 = {}
  OBVIOUS
<1>2. \A i \in Id : Writes(<<>>, i) = {}
  BY <1>1 DEF Writes
<1>3. \A immutable : Good(immutable, <<>>)
  BY <1>1, <1>2 DEF Good
<1>4. ASSUME NEW d \in Database
      PROVE  Applied(<<>>, d) = d /\ ~Refused(<<>>, d)
  <2>1. \A i \in Id : RowBefore(<<>>, Len(<<>>) + 1, i, d) = d[i]
    BY <1>2 DEF RowBefore
  <2>2. d = [i \in Id |-> d[i]]
    BY DEF Database
  <2> QED
    BY <1>1, <2>1, <2>2 DEF Applied, Refused
<1> QED
  BY <1>2, <1>3, <1>4

\* A write more.
LEMMA OneMoreWrite ==
  ASSUME NEW immutable, NEW ws \in Seq(Write), Good(immutable, ws), NEW w \in Write,
         immutable => Sendable(w),
         w.why = "patch" => w.row # Nothing
  PROVE  /\ ws \o <<w>> \in Seq(Write) /\ Good(immutable, ws \o <<w>>)
         /\ \A k \in 1..Len(ws \o <<w>>) : \/ k \in 1..Len(ws) /\ (ws \o <<w>>)[k] = ws[k]
                                           \/ (ws \o <<w>>)[k] = w
<1> DEFINE more == ws \o <<w>>
           n == Len(ws)
<1>1. n \in Nat /\ Len(more) = n + 1 /\ more \in Seq(Write)
  OBVIOUS
<1>2. more[n + 1] = w /\ \A k \in 1..n : more[k] = ws[k]
  OBVIOUS
<1>3. \A k \in 1..(n + 1) : k = n + 1 \/ k \in 1..n
  BY <1>1
<1> HIDE DEF more, n
<1>4. ASSUME NEW i \in Id, Writes(more, i) # {}
      PROVE  \E first, last \in Writes(more, i) :
               \A k \in Writes(more, i) : first <= k /\ k <= last
  <2>1. CASE w.id # i
    <3>1. Writes(more, i) = Writes(ws, i)
      BY <1>1, <1>2, <1>3, <2>1 DEF Writes, n
    <3> QED
      BY <3>1, <1>4 DEF Good
  <2>2. CASE w.id = i
    <3>1. Writes(more, i) = Writes(ws, i) \cup {n + 1}
      BY <1>1, <1>2, <1>3, <2>2 DEF Writes, n
    <3>2. \A k \in Writes(ws, i) : k \in 1..n
      BY DEF Writes, n
    <3>3. CASE Writes(ws, i) = {}
      BY <1>1, <3>1, <3>3
    <3>4. CASE Writes(ws, i) # {}
      <4>1. PICK first \in Writes(ws, i) : \A k \in Writes(ws, i) : first <= k
        BY <3>4 DEF Good
      <4>2. first <= n + 1 /\ n + 1 <= n + 1 /\ \A k \in Writes(ws, i) : k <= n + 1
        BY <1>1, <3>2
      <4> QED
        BY <3>1, <4>1, <4>2
    <3> QED
      BY <3>3, <3>4
  <2> QED
    BY <2>1, <2>2
<1>5. Good(immutable, more)
  BY <1>1, <1>2, <1>3, <1>4 DEF Good, n
<1> QED
  BY <1>1, <1>2, <1>3, <1>5 DEF more, n

\* One write on its own.
LEMMA OneWrite ==
  ASSUME NEW immutable, NEW w \in Write, immutable => Sendable(w),
         w.why = "patch" => w.row # Nothing
  PROVE  /\ <<w>> \in Seq(Write) /\ Good(immutable, <<w>>)
         /\ Len(<<w>>) = 1 /\ <<w>>[1] = w /\ \A k \in 1..Len(<<w>>) : <<w>>[k] = w
<1>1. Len(<<w>>) = 1 /\ <<w>>[1] = w /\ <<w>> \in Seq(Write)
  OBVIOUS
<1>2. \A i \in Id : \A k \in Writes(<<w>>, i) : k = 1
  BY <1>1 DEF Writes
<1>3. 1 <= 1 /\ \A k \in 1..1 : k = 1
  OBVIOUS
<1> QED
  BY <1>1, <1>2, <1>3 DEF Good

\* Each row is what it was, or what one of the writes made it.
LEMMA AppliedRow ==
  ASSUME NEW immutable, NEW ws \in Seq(Write), Good(immutable, ws), NEW d \in Database
  PROVE  /\ Applied(ws, d) \in Database
         /\ \A i \in Id : \/ Applied(ws, d)[i] = d[i]
                          \/ \E k \in 1..Len(ws) : ws[k].id = i /\ Applied(ws, d)[i] = ws[k].row
<1>1. ASSUME NEW i \in Id
      PROVE  \/ RowBefore(ws, Len(ws) + 1, i, d) = d[i]
             \/ \E k \in 1..Len(ws) : /\ ws[k].id = i
                                      /\ RowBefore(ws, Len(ws) + 1, i, d) = ws[k].row
  <2> DEFINE earlier == {j \in Writes(ws, i) : j < Len(ws) + 1}
             last == CHOOSE j \in earlier : \A h \in earlier : h <= j
  <2>1. Len(ws) \in Nat
    OBVIOUS
  <2>2. earlier = Writes(ws, i)
    BY <2>1 DEF Writes
  <2>3. CASE earlier = {}
    BY <2>3 DEF RowBefore
  <2>4. CASE earlier # {}
    <3>1. \E j \in earlier : \A h \in earlier : h <= j
      BY <2>2, <2>4 DEF Good
    <3>2. last \in earlier
      BY <3>1
    <3>3. last \in 1..Len(ws) /\ ws[last].id = i
      BY <3>2 DEF Writes
    <3>4. RowBefore(ws, Len(ws) + 1, i, d) = ws[last].row
      BY <2>4 DEF RowBefore
    <3> QED
      BY <3>3, <3>4
  <2> QED
    BY <2>3, <2>4
<1>2. \A k \in 1..Len(ws) : ws[k] \in Write
  OBVIOUS
<1>3. \A i \in Id : RowBefore(ws, Len(ws) + 1, i, d) \in Row \cup {Nothing}
  BY <1>1, <1>2 DEF Write, Database
<1> QED
  BY <1>1, <1>3 DEF Applied, Database

\* Writes that are not refused leave every row that is there and that no
\* override is about.
LEMMA InsertsKeep ==
  ASSUME NEW ws \in Seq(Write), Good(TRUE, ws), NEW d \in Database, ~Refused(ws, d),
         NEW i \in Id, d[i] # Nothing
  PROVE  \/ Applied(ws, d)[i] = d[i]
         \/ Overridden(ws, i)
<1>1. ASSUME Writes(ws, i) # {}
      PROVE  Overridden(ws, i)
  <2>1. PICK first \in Writes(ws, i) : \A k \in Writes(ws, i) : first <= k
    BY <1>1 DEF Good
  <2>2. first \in 1..Len(ws) /\ ws[first].id = i /\ Sendable(ws[first])
    BY <2>1 DEF Writes, Good
  <2>3. {j \in Writes(ws, i) : j < first} = {}
    BY <2>1, <2>2 DEF Writes
  <2>4. RowBefore(ws, first, i, d) = d[i]
    BY <2>3 DEF RowBefore
  <2>5. ws[first].type # "insert"
    BY <2>2, <2>4 DEF Refused
  <2> QED
    BY <2>2, <2>5 DEF Sendable, Overridden
<1>2. CASE Writes(ws, i) = {}
  <2>1. RowBefore(ws, Len(ws) + 1, i, d) = d[i]
    BY <1>2 DEF RowBefore
  <2> QED
    BY <2>1 DEF Applied
<1> QED
  BY <1>1, <1>2

-----------------------------------------------------------------------------
(* The steps of a client keep the types and the shape of its state, and     *)
(* leave the others' alone.                                                 *)

Others(c) ==
  \A u \in Client \ {c} :
    /\ pc'[u] = pc[u] /\ call'[u] = call[u] /\ calls'[u] = calls[u] /\ tx'[u] = tx[u]
    /\ bm'[u] = bm[u] /\ buf'[u] = buf[u] /\ reads'[u] = reads[u]

StepOK(c) == cfg' = cfg /\ TypeOK' /\ Others(c) /\ Shape(c)'

LEMMA ShapePreserves ==
  ASSUME SInv, NEW c \in Client, StepOK(c)
  PROVE  SInv'
<1>1. ASSUME NEW u \in Client, u # c
      PROVE  Shape(u)'
  <2>1. /\ pc'[u] = pc[u] /\ call'[u] = call[u] /\ calls'[u] = calls[u] /\ tx'[u] = tx[u]
        /\ bm'[u] = bm[u] /\ buf'[u] = buf[u] /\ reads'[u] = reads[u] /\ cfg' = cfg
    BY <1>1 DEF StepOK, Others
  <2>2. Buffering(u)' = Buffering(u) /\ Allowed(call[u])' = Allowed(call[u])
    BY <2>1 DEF Buffering, Allowed
  <2>3. Shape(u)
    BY DEF SInv
  <2> QED
    BY <2>1, <2>2, <2>3 DEF Shape
<1> QED
  BY <1>1 DEF StepOK, SInv

LEMMA WithIsRow ==
  ASSUME NEW c \in Client, NEW row \in Row
  PROVE  /\ With(row, c) \in Row /\ With(row, c) # Nothing
         /\ With(row, c).by = row.by /\ With(row, c).has = row.has \cup {c}
BY NothingAssumption DEF With, Row

LEMMA NewIsRow ==
  ASSUME NEW c \in Client, NEW has \in SUBSET Client
  PROVE  [by |-> c, has |-> has] \in Row /\ [by |-> c, has |-> has] # Nothing
BY NothingAssumption DEF Row

LEMMA StoreTypes ==
  ASSUME TypeOK, NEW c \in Client, NEW ws, NEW d \in Database, Store(c, ws, d)
  PROVE  /\ data' = d
         /\ stale' \in [Client -> BOOLEAN] /\ present' \in [Client -> SUBSET Id]
         /\ lost' \subseteq Client \X Client /\ clobbered' \subseteq Client \X Id
<1>1. stale' \in [Client -> BOOLEAN]
  BY DEF Store
<1>2. present' \in [Client -> SUBSET Id]
  BY DEF Store, TypeOK
<1>3. lost' \subseteq Client \X Client
  BY DEF Store, TypeOK
<1>4. clobbered' \subseteq Client \X Id
  BY DEF Store, TypeOK
<1> QED
  BY <1>1, <1>2, <1>3, <1>4 DEF Store

LEMMA MakeTypes ==
  ASSUME SInv, NEW c \in Client, NEW m \in Call, Make(c, m)
  PROVE  /\ pc[c] = "ready" /\ cfg' = cfg
         /\ m \in Calls
         /\ call' = [call EXCEPT ![c] = m] /\ call'[c] = m
         /\ calls'[c] # 0 /\ calls' \in [Client -> 0..MaxCalls]
         /\ tx' \in [Client -> {"none", "own", "caller"}]
         /\ tx'[c] = tx[c] \/ (tx[c] = "none" /\ m.kind \in Patching)
         /\ present' \in [Client -> SUBSET Id]
         /\ \A u \in Client \ {c} : /\ call'[u] = call[u] /\ calls'[u] = calls[u]
                                    /\ tx'[u] = tx[u] /\ present'[u] = present[u]
         /\ UNCHANGED <<reads, data, stale, lost, clobbered>>
<1> USE DEF SInv
<1>1. calls[c] \in 0..MaxCalls /\ calls[c] < MaxCalls /\ MaxCalls \in Nat
  BY CommonDaoAssumption DEF Make, TypeOK
<1>2. calls[c] + 1 \in 0..MaxCalls /\ calls[c] + 1 # 0
  BY <1>1
<1>3. calls' = [calls EXCEPT ![c] = calls[c] + 1]
  BY DEF Make
<1>4. m \in Calls
  BY CommonDaoAssumption
<1>5. tx' \in [Client -> {"none", "own", "caller"}]
      /\ (tx'[c] = tx[c] \/ (tx[c] = "none" /\ m.kind \in Patching))
  BY DEF Make, TypeOK
<1>6. present' \in [Client -> SUBSET Id]
  BY DEF Make, TypeOK
<1>7. \A u \in Client \ {c} : tx'[u] = tx[u] /\ present'[u] = present[u]
  BY DEF Make, TypeOK
<1> QED
  BY <1>2, <1>3, <1>4, <1>5, <1>6, <1>7 DEF Make, TypeOK

LEMMA BeginShape ==
  ASSUME SInv, NEW c \in Client, Begin(c)
  PROVE  StepOK(c)
<1> USE DEF SInv
<1>1. /\ pc[c] = "idle" /\ pc' = [pc EXCEPT ![c] = "ready"]
      /\ \E t \in {"none", "caller"} : tx' = [tx EXCEPT ![c] = t]
      /\ UNCHANGED <<cfg, call, calls, bm, buf, reads, data, stale, present, lost, clobbered>>
  BY DEF Begin, Goto, dbVars
<1>2. TypeOK'
  BY <1>1 DEF TypeOK, Pc
<1>3. Others(c)
  BY <1>1 DEF Others, TypeOK
<1>4. pc'[c] = "ready" /\ buf[c] = <<>> /\ reads[c] = {}
  BY <1>1 DEF Shape, Buffering, TypeOK
<1>5. Shape(c)'
  BY <1>1, <1>4, EmptyWrites DEF Shape, Saving, Good, Writes
<1> QED
  BY <1>1, <1>2, <1>3, <1>5 DEF StepOK

\* A call that was made goes on at p, holding row, with the writes ws.
LEMMA MadeShape ==
  ASSUME SInv, NEW c \in Client, NEW m \in Call, Make(c, m),
         NEW p \in Pc \ {"idle"}, NEW row \in Row \cup {Nothing},
         pc' = [pc EXCEPT ![c] = p], bm' = [bm EXCEPT ![c] = row],
         buf' = buf \/ buf' = [buf EXCEPT ![c] = <<>>],
         p = "loading" => m.kind \in {"getById", "patchById"},
         p \in {"converting", "checking"} => m.kind \in Saves,
         p \in Saving => /\ ~cfg.readOnly /\ m.kind # "getById" /\ Allowed(m)
                         /\ m.kind \in Saves => row # Nothing
                         /\ m.kind \in InPlace => tx[c] = "none" /\ tx' = tx
  PROVE  StepOK(c)
<1> USE DEF SInv
<1>1. TypeOK'
  <2>1. buf' \in [Client -> Seq(Write)]
    BY EmptyWrites DEF TypeOK
  <2>2. pc' \in [Client -> Pc] /\ bm' \in [Client -> Row \cup {Nothing}]
    BY DEF TypeOK
  <2>3. call' \in [Client -> Calls]
    <3>1. call' = [call EXCEPT ![c] = m] /\ m \in Calls
      BY MakeTypes
    <3> QED
      BY <3>1 DEF TypeOK
  <2> QED
    BY <2>1, <2>2, <2>3, MakeTypes DEF TypeOK
<1>2. Others(c)
  BY MakeTypes DEF Others, TypeOK
<1>3. pc'[c] = p /\ bm'[c] = row /\ buf'[c] \in {buf[c], <<>>}
  BY DEF TypeOK
<1>4. cfg' = cfg /\ call'[c] = m /\ calls'[c] # 0 /\ reads' = reads
      /\ (tx'[c] = tx[c] \/ tx[c] = "none")
  BY MakeTypes
<1>5. Good(cfg.immutable, buf'[c])
  BY <1>3, EmptyWrites DEF Shape
<1>9. ~Buffering(c)' \/ cfg.readOnly => buf'[c] = <<>>
  BY <1>3, <1>4 DEF Shape, Buffering
<1>6. tx'[c] = "none" => reads'[c] = {}
  BY <1>4 DEF Shape
<1>7. Allowed(m)' = Allowed(m)
  BY <1>4 DEF Allowed
<1>8. Shape(c)'
  BY <1>3, <1>4, <1>5, <1>6, <1>7, <1>9 DEF Shape
<1> QED
  BY <1>1, <1>2, <1>4, <1>8 DEF StepOK

LEMMA SameBm ==
  ASSUME TypeOK, NEW c \in Client
  PROVE  bm[c] \in Row \cup {Nothing} /\ bm = [bm EXCEPT ![c] = bm[c]]
BY DEF TypeOK

LEMMA StartLoadingShape ==
  ASSUME SInv, NEW c \in Client, NEW m \in Call, StartLoading(c, m)
  PROVE  StepOK(c)
<1>1. /\ m.kind \in {"getById", "patchById"} /\ Make(c, m)
      /\ pc' = [pc EXCEPT ![c] = "loading"] /\ bm' = bm /\ buf' = buf
  BY DEF StartLoading, Goto
<1>2. "loading" \in Pc \ {"idle"} /\ "loading" \notin Saving \cup {"converting", "checking"}
  BY DEF Pc, Saving
<1> QED
  BY <1>1, <1>2, SameBm, MadeShape DEF SInv

\* The save of row goes on at p, or rejects.
LEMMA StartSaveShape ==
  ASSUME SInv, NEW c \in Client, NEW m \in Call, Make(c, m),
         NEW p \in {"converting", "checking"}, NEW row \in Row, row # Nothing,
         m.kind \in Saves, StartSave(c, row, p)
  PROVE  StepOK(c)
<1>1. p \in Pc \ {"idle"} /\ "rejected" \in Pc \ {"idle"}
      /\ p # "loading" /\ "rejected" \notin Saving \cup {"loading", "converting", "checking"}
  BY DEF Pc, Saving
<1>2. CASE cfg.readOnly
  <2>1. pc' = [pc EXCEPT ![c] = "rejected"] /\ bm' = bm /\ buf' = [buf EXCEPT ![c] = <<>>]
    BY <1>2 DEF StartSave, Reject, Goto
  <2> QED
    BY <1>1, <2>1, SameBm, MadeShape DEF SInv
<1>3. CASE ~cfg.readOnly
  <2>1. pc' = [pc EXCEPT ![c] = p] /\ bm' = [bm EXCEPT ![c] = row] /\ buf' = buf
    BY <1>3 DEF StartSave, Goto
  <2>2. Allowed(m) /\ m.kind # "getById" /\ m.kind \notin InPlace
    BY <1>3 DEF Allowed, Saves, InPlace
  <2> QED
    BY <1>1, <1>3, <2>1, <2>2, MadeShape
<1> QED
  BY <1>2, <1>3

LEMMA StartPatchingShape ==
  ASSUME SInv, NEW c \in Client, NEW m \in Call, StartPatching(c, m)
  PROVE  StepOK(c)
<1>1. /\ m.kind \in {"optimistic", "txPatch"} /\ Make(c, m) /\ bm[c] # Nothing
  BY DEF StartPatching, Make, Callable, Holds
<1>2. CASE StartSave(c, With(bm[c], c), "converting")
  <2>1. bm[c] \in Row
    BY <1>1 DEF SInv, TypeOK
  <2>2. With(bm[c], c) \in Row /\ With(bm[c], c) # Nothing
    BY <2>1, WithIsRow
  <2> QED
    BY <1>1, <1>2, <2>2, StartSaveShape DEF Saves
<1>3. CASE /\ pc' = [pc EXCEPT ![c] = Resolved(tx'[c])]
           /\ UNCHANGED <<bm, buf>>
  <2>1. Resolved(tx'[c]) \in {"committing", "ready"}
    BY DEF Resolved
  <2>2. /\ {"committing", "ready"} \subseteq Pc \ {"idle"}
        /\ {"committing", "ready"} \cap (Saving \cup {"loading"}) = {}
    BY DEF Pc, Saving
  <2> DEFINE p == Resolved(tx'[c])
  <2>3. p \in Pc \ {"idle"} /\ p \notin Saving /\ p # "loading" /\ p \notin {"converting", "checking"}
    BY <2>1, <2>2 DEF Saving
  <2>4. pc' = [pc EXCEPT ![c] = p]
    BY <1>3
  <2> HIDE DEF p
  <2> QED
    BY <1>1, <1>3, <2>3, <2>4, SameBm, MadeShape DEF SInv
<1> QED
  BY <1>2, <1>3 DEF StartPatching, Goto

LEMMA StartCreateShape ==
  ASSUME SInv, NEW c \in Client, NEW m \in Call, StartCreate(c, m)
  PROVE  StepOK(c)
<1>1. [by |-> c, has |-> {}] \in Row /\ [by |-> c, has |-> {}] # Nothing
  BY NewIsRow
<1>2. m.kind = "create" /\ Make(c, m)
      /\ \E p \in {"converting", "checking"} : StartSave(c, [by |-> c, has |-> {}], p)
  BY DEF StartCreate
<1> QED
  BY <1>1, <1>2, StartSaveShape DEF Saves

LEMMA StartWritingShape ==
  ASSUME SInv, NEW c \in Client, NEW m \in Call, StartWriting(c, m)
  PROVE  StepOK(c)
<1>1. /\ m.kind \in {"delete", "patchByIds", "increment"} /\ Make(c, m) /\ bm' = bm
      /\ m.kind \in InPlace => tx[c] = "none"
  BY DEF StartWriting, Make, Callable, InPlace
<1>2. "writing" \in Pc \ {"idle"} /\ "rejected" \in Pc \ {"idle"}
      /\ "writing" \notin {"loading", "converting", "checking"}
      /\ "rejected" \notin Saving \cup {"loading", "converting", "checking"}
  BY DEF Pc, Saving
<1>3. CASE Allowed(m) /\ Goto(c, "writing") /\ UNCHANGED buf
  <2>1. ~cfg.readOnly /\ m.kind # "getById" /\ m.kind \notin Saves /\ m.kind \notin Patching
    BY <1>1, <1>3 DEF Allowed, Saves, Patching
  <2>2. tx' = tx
    BY <1>1, <2>1 DEF Make, SInv, TypeOK
  <2> QED
    BY <1>1, <1>2, <1>3, <2>1, <2>2, SameBm, MadeShape DEF Goto, SInv
<1>4. CASE Reject(c)
  BY <1>1, <1>2, <1>4, SameBm, MadeShape DEF Reject, Goto, SInv
<1> QED
  BY <1>3, <1>4 DEF StartWriting

DbTypes ==
  /\ data \in Database /\ stale \in [Client -> BOOLEAN] /\ present \in [Client -> SUBSET Id]
  /\ lost \subseteq Client \X Client /\ clobbered \subseteq Client \X Id

\* A call goes on at p, holding row, with the writes ws and the reads ids.
LEMMA WentShape ==
  ASSUME SInv, NEW c \in Client, NEW p \in Pc \ {"idle", "loading"},
         NEW row \in Row \cup {Nothing}, NEW ws \in Seq(Write), NEW ids \in SUBSET Id,
         pc' = [pc EXCEPT ![c] = p], bm' = [bm EXCEPT ![c] = row],
         buf' = [buf EXCEPT ![c] = ws], reads' = [reads EXCEPT ![c] = ids],
         UNCHANGED <<cfg, call, calls, tx>>, DbTypes',
         Good(cfg.immutable, ws),
         ~Buffering(c) \/ cfg.readOnly \/ calls[c] = 0 => ws = <<>>,
         tx[c] = "none" => ids = {},
         p \in Saving \cup {"committing"} => calls[c] # 0,
         p \in {"converting", "checking"} => call[c].kind \in Saves,
         p \in Saving => /\ ~cfg.readOnly /\ call[c].kind # "getById" /\ Allowed(call[c])
                         /\ call[c].kind \in Saves => row # Nothing
                         /\ call[c].kind \in InPlace => tx[c] = "none"
  PROVE  StepOK(c)
<1> USE DEF SInv
<1>1. TypeOK'
  <2>1. pc' \in [Client -> Pc] /\ bm' \in [Client -> Row \cup {Nothing}]
    BY DEF TypeOK
  <2>2. buf' \in [Client -> Seq(Write)] /\ reads' \in [Client -> SUBSET Id]
    BY DEF TypeOK
  <2> QED
    BY <2>1, <2>2 DEF TypeOK, DbTypes
<1>2. Others(c)
  BY DEF Others, TypeOK
<1>3. pc'[c] = p /\ bm'[c] = row /\ buf'[c] = ws /\ reads'[c] = ids
  BY DEF TypeOK
<1>4. Buffering(c)' = Buffering(c) /\ Allowed(call[c])' = Allowed(call[c])
  BY DEF Buffering, Allowed
<1>5. Shape(c)'
  BY <1>3, <1>4 DEF Shape
<1> QED
  BY <1>1, <1>2, <1>5 DEF StepOK

LEMMA SameState ==
  ASSUME SInv, NEW c \in Client
  PROVE  /\ bm[c] \in Row \cup {Nothing} /\ bm = [bm EXCEPT ![c] = bm[c]]
         /\ buf[c] \in Seq(Write) /\ buf = [buf EXCEPT ![c] = buf[c]]
         /\ reads[c] \in SUBSET Id /\ reads = [reads EXCEPT ![c] = reads[c]]
         /\ call[c] \in Calls /\ call[c].id \in Id
         /\ data \in Database
         /\ Good(cfg.immutable, buf[c])
         /\ ~Buffering(c) \/ cfg.readOnly \/ calls[c] = 0 => buf[c] = <<>>
         /\ tx[c] = "none" => reads[c] = {}
BY DEF SInv, TypeOK, Shape, Calls

LEMMA SameDb ==
  ASSUME SInv, UNCHANGED dbVars
  PROVE  DbTypes'
BY DEF SInv, TypeOK, DbTypes, dbVars

\* What a resolved call leads to.
LEMMA ResolvedPlaces ==
  ASSUME NEW t
  PROVE  /\ Resolved(t) \in {"committing", "ready"} /\ Resolved(t) \in Pc \ {"idle", "loading"}
         /\ Resolved(t) \notin Saving \cup {"loading", "converting", "checking", "rejected"}
BY DEF Resolved, Pc, Saving

\* A call rejects: p is where it goes, and nothing is left of its writes.
LEMMA RejectShape ==
  ASSUME SInv, NEW c \in Client, Reject(c), NEW ids \in SUBSET Id,
         reads' = [reads EXCEPT ![c] = ids], tx[c] = "none" => ids = {},
         UNCHANGED <<cfg, call, calls, tx, bm, dbVars>>
  PROVE  StepOK(c)
<1>1. "rejected" \in Pc \ {"idle", "loading"}
      /\ "rejected" \notin Saving \cup {"committing", "converting", "checking"}
  BY DEF Pc, Saving
<1>2. pc' = [pc EXCEPT ![c] = "rejected"] /\ buf' = [buf EXCEPT ![c] = <<>>]
  BY DEF Reject, Goto
<1> QED
  BY <1>1, <1>2, SameState, SameDb, EmptyWrites, WentShape

LEMMA ReadsInIds ==
  ASSUME SInv, NEW c \in Client
  PROVE  \E ids \in SUBSET Id : /\ ReadsIn(c) = [reads EXCEPT ![c] = ids]
                                /\ tx[c] = "none" => ids = {}
                                /\ reads[c] \subseteq ids
                                /\ Buffering(c) => call[c].id \in ids
<1>1. CASE Buffering(c)
  <2>1. reads[c] \cup {call[c].id} \in SUBSET Id
    BY SameState
  <2>2. ReadsIn(c) = [reads EXCEPT ![c] = reads[c] \cup {call[c].id}]
    BY <1>1 DEF ReadsIn
  <2>3. tx[c] # "none"
    BY <1>1 DEF Buffering
  <2> QED
    BY <2>1, <2>2, <2>3
<1>2. CASE ~Buffering(c)
  BY <1>2, SameState DEF ReadsIn
<1> QED
  BY <1>1, <1>2

LEMMA LoadShape ==
  ASSUME SInv, NEW c \in Client, Load(c)
  PROVE  StepOK(c)
<1> DEFINE row == data[call[c].id]
           base == IF row = Nothing THEN [by |-> c, has |-> {}] ELSE row
<1>1. /\ pc[c] = "loading" /\ call[c].kind \in {"getById", "patchById"} /\ calls[c] # 0
      /\ UNCHANGED <<cfg, call, calls, tx, dbVars>>
  BY DEF Load, SInv, Shape
<1>2. row \in Row \cup {Nothing} /\ base \in Row
  BY SameState, NewIsRow DEF Database
<1>3. With(base, c) \in Row /\ With(base, c) # Nothing
  BY <1>2, WithIsRow
<1>4. CASE Reject(c) /\ UNCHANGED <<bm, reads>>
  BY <1>1, <1>4, SameState, RejectShape
<1>5. ASSUME reads' = ReadsIn(c)
      PROVE  \E ids \in SUBSET Id : /\ reads' = [reads EXCEPT ![c] = ids]
                                    /\ tx[c] = "none" => ids = {}
  BY <1>5, ReadsInIds
<1>6. CASE /\ reads' = ReadsIn(c) /\ bm' = [bm EXCEPT ![c] = row]
           /\ Goto(c, Resolved(tx[c])) /\ UNCHANGED buf
  <2> HIDE DEF row, base
  <2> QED
    BY <1>1, <1>2, <1>5, <1>6, SameState, SameDb, ResolvedPlaces, WentShape DEF Goto
<1>7. CASE reads' = ReadsIn(c) /\ Reject(c) /\ UNCHANGED bm
  BY <1>1, <1>5, <1>7, RejectShape
<1>8. CASE /\ reads' = ReadsIn(c) /\ call[c].kind # "getById"
           /\ StartSave(c, With(base, c), "converting")
  <2> HIDE DEF row, base
  <2>1. CASE cfg.readOnly
    BY <1>1, <1>5, <1>8, <2>1, RejectShape DEF StartSave
  <2>2. CASE ~cfg.readOnly
    <3>1. /\ bm' = [bm EXCEPT ![c] = With(base, c)] /\ buf' = buf
          /\ pc' = [pc EXCEPT ![c] = "converting"]
      BY <1>8, <2>2 DEF StartSave, Goto
    <3>2. call[c].kind \in Saves /\ call[c].kind \notin InPlace /\ Allowed(call[c])
      BY <1>1, <1>8, <2>2 DEF Saves, InPlace, Allowed
    <3>3. "converting" \in Pc \ {"idle", "loading"}
      BY DEF Pc
    <3> QED
      BY <1>1, <1>3, <1>5, <1>8, <2>2, <3>1, <3>2, <3>3, SameState, SameDb, WentShape
  <2> QED
    BY <2>1, <2>2
<1> QED
  BY <1>4, <1>6, <1>7, <1>8 DEF Load

\* A call goes on at p, with all the rest as it was.
LEMMA GotoShape ==
  ASSUME SInv, NEW c \in Client, NEW p \in Pc \ {"idle", "loading"}, Goto(c, p),
         UNCHANGED <<cfg, call, calls, tx, bm, buf, reads>>, DbTypes',
         calls[c] # 0,
         p \in Saving => pc[c] \in {"converting", "checking"}
  PROVE  StepOK(c)
<1>1. p \in Saving => /\ ~cfg.readOnly /\ call[c].kind # "getById" /\ Allowed(call[c])
                      /\ call[c].kind \in Saves /\ bm[c] # Nothing /\ call[c].kind \notin InPlace
  BY DEF SInv, Shape, Saving, Saves, InPlace
<1>2. p \in {"converting", "checking"} => p \in Saving
  BY DEF Saving
<1> QED
  BY <1>1, <1>2, SameState, WentShape DEF Goto

LEMMA ConvertShape ==
  ASSUME SInv, NEW c \in Client, Convert(c)
  PROVE  StepOK(c)
<1>1. /\ pc[c] = "converting" /\ calls[c] # 0
      /\ UNCHANGED <<cfg, call, calls, tx, bm, buf, reads, dbVars>>
      /\ \E p \in {Resolved(tx[c]), "checking", "writing"} : Goto(c, p)
  BY DEF Convert, SInv, Shape, Saving
<1>2. {Resolved(tx[c]), "checking", "writing"} \subseteq Pc \ {"idle", "loading"}
  BY ResolvedPlaces DEF Pc
<1> QED
  BY <1>1, <1>2, SameDb, GotoShape

LEMMA CheckShape ==
  ASSUME SInv, NEW c \in Client, Check(c)
  PROVE  StepOK(c)
<1>1. /\ pc[c] = "checking" /\ calls[c] # 0
      /\ UNCHANGED <<cfg, call, calls, tx, bm, reads, dbVars>>
  BY DEF Check, SInv, Shape, Saving
<1>2. CASE Reject(c)
  BY <1>1, <1>2, SameState, RejectShape
<1>3. ASSUME NEW p \in {"converting", "writing"}, Goto(c, p), UNCHANGED buf
      PROVE  StepOK(c)
  <2>1. p \in Pc \ {"idle", "loading"}
    BY DEF Pc
  <2> QED
    BY <1>1, <1>3, <2>1, SameDb, GotoShape
<1> QED
  BY <1>2, <1>3 DEF Check

\* The request of a save or a delete.
LEMMA RequestIsWrite ==
  ASSUME SInv, NEW c \in Client, pc[c] = "writing", call[c].kind \notin InPlace
  PROVE  /\ Request(c) \in Write
         /\ cfg.immutable => Sendable(Request(c))
         /\ Request(c).id = call[c].id /\ Request(c).overrides = Overrides(call[c])
         /\ Request(c).row \in {Nothing, bm[c]}
         /\ Request(c).why = "patch" => /\ call[c].kind \in {"patchById", "txPatch"}
                                        /\ Request(c).row = bm[c] /\ bm[c] # Nothing
         /\ Request(c).why = "new" => /\ call[c].kind = "create"
                                      /\ "ensureUniqueId" \in call[c].opts
<1> DEFINE k == call[c].kind
           new == k = "create" /\ "ensureUniqueId" \in call[c].opts
           type == IF k = "delete" THEN "delete" ELSE SaveMethod(call[c])
           row == IF k = "delete" THEN Nothing ELSE bm[c]
           why == CASE k \in {"patchById", "txPatch"} -> "patch"
                    [] new -> "new"
                    [] OTHER -> "blind"
<1>1. Request(c) = [type |-> type, id |-> call[c].id, row |-> row, why |-> why,
                     overrides |-> Overrides(call[c])]
  BY DEF Request
<1>2. call[c].id \in Id /\ row \in Row \cup {Nothing} /\ row \in {Nothing, bm[c]}
  BY SameState
<1>3. type \in {"upsert", "insert", "update", "delete"} /\ Overrides(call[c]) \in BOOLEAN
  BY SameState DEF SaveMethod, Calls, Method, Overrides
<1>4. /\ why \in {"patch", "blind", "new"}
      /\ why = "patch" => k \in {"patchById", "txPatch"}
      /\ why = "new" => new
  <2>1. CASE k \in {"patchById", "txPatch"}
    BY <2>1
  <2>2. CASE k \notin {"patchById", "txPatch"} /\ new
    BY <2>2
  <2>3. CASE k \notin {"patchById", "txPatch"} /\ ~new
    BY <2>3
  <2> QED
    BY <2>1, <2>2, <2>3
<1>5. cfg.immutable => type = "insert" \/ Overrides(call[c])
  <2>1. CASE k = "delete"
    BY <2>1 DEF SInv, Shape, Saving, Allowed, Overrides
  <2>2. CASE k # "delete"
    <3>1. k \notin {"delete", "patchByIds", "increment"}
      BY <2>2 DEF InPlace
    <3>2. call[c].saveMethod \in {"insert", "update", "upsert", "unset"}
      BY SameState DEF Calls, Method
    <3> QED
      BY <2>2, <3>1, <3>2 DEF SaveMethod, Overrides
  <2> QED
    BY <2>1, <2>2
<1>6. k \in {"patchById", "txPatch"} => row = bm[c] /\ bm[c] # Nothing
  BY DEF SInv, Shape, Saving, Saves
<1> HIDE DEF k, type, row, why
<1>7. Request(c) \in Write
  BY <1>1, <1>2, <1>3, <1>4 DEF Write
<1>8. /\ Request(c).type = type /\ Request(c).id = call[c].id /\ Request(c).row = row
      /\ Request(c).overrides = Overrides(call[c])
      /\ Request(c).why = why
  BY <1>1
<1> QED
  BY <1>2, <1>4, <1>5, <1>6, <1>7, <1>8 DEF k, Sendable

LEMMA SendShape ==
  ASSUME SInv, NEW c \in Client, Send(c)
  PROVE  StepOK(c)
<1> DEFINE w == Request(c)
<1>1. /\ pc[c] = "writing" /\ calls[c] # 0 /\ ~cfg.readOnly /\ call[c].kind \notin InPlace
      /\ UNCHANGED <<cfg, call, calls, tx, bm, reads>>
  BY DEF Send, SInv, Shape, Saving, InPlace
<1>2. w \in Write /\ (cfg.immutable => Sendable(w)) /\ (w.why = "patch" => w.row # Nothing)
  BY <1>1, RequestIsWrite
<1> HIDE DEF w
<1>3. CASE /\ ToTx(c) /\ buf' = [buf EXCEPT ![c] = @ \o <<w>>]
           /\ Goto(c, Resolved(tx[c])) /\ UNCHANGED dbVars
  <2>1. buf[c] \o <<w>> \in Seq(Write) /\ Good(cfg.immutable, buf[c] \o <<w>>)
    BY <1>2, SameState, OneMoreWrite
  <2>2. buf' = [buf EXCEPT ![c] = buf[c] \o <<w>>] /\ Buffering(c)
    BY <1>3 DEF ToTx
  <2>3. pc' = [pc EXCEPT ![c] = Resolved(tx[c])]
    BY <1>3 DEF Goto
  <2>4. Resolved(tx[c]) \notin Saving
    BY ResolvedPlaces
  <2> QED
    BY <1>1, <1>3, <2>1, <2>2, <2>3, <2>4, SameState, SameDb, ResolvedPlaces, WentShape
<1>4. CASE /\ Store(c, <<w>>, Applied(<<w>>, data))
           /\ Goto(c, Resolved(tx[c])) /\ UNCHANGED buf
  <2>1. Applied(<<w>>, data) \in Database
    BY <1>2, SameState, OneWrite, AppliedRow
  <2>2. DbTypes'
    BY <1>4, <2>1, StoreTypes DEF SInv, DbTypes
  <2>3. Resolved(tx[c]) \notin Saving
    BY ResolvedPlaces
  <2> QED
    BY <1>1, <1>4, <2>2, <2>3, ResolvedPlaces, GotoShape
<1>5. CASE Reject(c) /\ UNCHANGED dbVars
  BY <1>1, <1>5, SameState, RejectShape
<1> QED
  BY <1>3, <1>4, <1>5 DEF Send, w

\* The table after a change in place.
LEMMA ChangedRow ==
  ASSUME SInv, NEW c \in Client, ChangeInPlace(c)
  PROVE  /\ data' \in Database /\ Store(c, <<>>, data')
         /\ \A i \in Id : \/ data'[i] = data[i]
                          \/ data[i] # Nothing /\ data'[i] = With(data[i], c)
                          \/ data'[i] = [by |-> c, has |-> {c}]
<1> DEFINE i == call[c].id
           changed == CASE data[i] # Nothing -> [data EXCEPT ![i] = With(data[i], c)]
                        [] data[i] = Nothing /\ call[c].kind = "increment" ->
                             [data EXCEPT ![i] = [by |-> c, has |-> {c}]]
                        [] OTHER -> data
<1>1. Store(c, <<>>, changed) /\ data' = changed
  BY DEF ChangeInPlace, Store
<1>2. i \in Id /\ data \in Database /\ data[i] \in Row \cup {Nothing}
  BY SameState DEF Database
<1>3. data[i] # Nothing => With(data[i], c) \in Row
  BY <1>2, WithIsRow
<1>4. [by |-> c, has |-> {c}] \in Row
  BY NewIsRow
<1>5. CASE data[i] # Nothing
  BY <1>1, <1>2, <1>3, <1>5 DEF Database
<1>6. CASE data[i] = Nothing /\ call[c].kind = "increment"
  BY <1>1, <1>2, <1>4, <1>6 DEF Database
<1>7. CASE data[i] = Nothing /\ call[c].kind # "increment"
  BY <1>1, <1>2, <1>7 DEF Database
<1> QED
  BY <1>1, <1>5, <1>6, <1>7

LEMMA ChangeInPlaceShape ==
  ASSUME SInv, NEW c \in Client, ChangeInPlace(c)
  PROVE  StepOK(c)
<1>1. /\ Goto(c, "ready") /\ calls[c] # 0
      /\ UNCHANGED <<cfg, call, calls, tx, bm, buf, reads>>
  BY DEF ChangeInPlace, SInv, Shape, Saving
<1>2. DbTypes'
  BY ChangedRow, StoreTypes DEF SInv, DbTypes
<1>3. "ready" \in Pc \ {"idle", "loading"} /\ "ready" \notin Saving
  BY DEF Pc, Saving
<1> QED
  BY <1>1, <1>2, <1>3, GotoShape

LEMMA CommitShape ==
  ASSUME SInv, NEW c \in Client, Commit(c)
  PROVE  StepOK(c)
<1> USE DEF SInv
<1>1. UNCHANGED <<cfg, call, calls, bm>>
  BY DEF Commit
<1>2. CASE Reject(c) /\ UNCHANGED <<tx, reads, dbVars>>
  BY <1>1, <1>2, SameState, RejectShape
<1>3. CASE /\ Store(c, buf[c], Applied(buf[c], data))
           /\ Goto(c, IF tx[c] = "own" THEN "ready" ELSE "done")
           /\ tx' = [tx EXCEPT ![c] = "none"]
           /\ buf' = [buf EXCEPT ![c] = <<>>] /\ reads' = [reads EXCEPT ![c] = {}]
  <2>1. Applied(buf[c], data) \in Database
    BY SameState, AppliedRow
  <2>2. DbTypes'
    BY <1>3, <2>1, StoreTypes DEF DbTypes
  <2>3. \E p \in {"ready", "done"} : pc' = [pc EXCEPT ![c] = p]
    BY <1>3 DEF Goto
  <2>4. TypeOK'
    <3>1. pc' \in [Client -> Pc]
      BY <2>3 DEF TypeOK, Pc
    <3>2. tx' \in [Client -> {"none", "own", "caller"}]
      BY <1>3 DEF TypeOK
    <3>3. buf' \in [Client -> Seq(Write)] /\ reads' \in [Client -> SUBSET Id]
      BY <1>3, EmptyWrites DEF TypeOK
    <3> QED
      BY <1>1, <2>2, <3>1, <3>2, <3>3 DEF TypeOK, DbTypes
  <2>5. Others(c)
    BY <1>1, <1>3, <2>3 DEF Others, TypeOK
  <2>6. pc'[c] \in {"ready", "done"} /\ tx'[c] = "none" /\ buf'[c] = <<>> /\ reads'[c] = {}
    BY <1>3, <2>3 DEF TypeOK
  <2>7. Shape(c)'
    BY <2>6, EmptyWrites DEF Shape, Saving
  <2> QED
    BY <1>1, <2>4, <2>5, <2>7 DEF StepOK
<1> QED
  BY <1>2, <1>3 DEF Commit

LEMMA AbandonShape ==
  ASSUME SInv, NEW c \in Client, Abandon(c)
  PROVE  StepOK(c)
BY SameState, RejectShape DEF Abandon

LEMMA StepsAreOK ==
  ASSUME SInv, Next
  PROVE  SInv' /\ cfg' = cfg
<1>1. PICK c \in Client : StepOK(c)
  BY BeginShape, StartLoadingShape, StartPatchingShape, StartCreateShape, StartWritingShape,
     LoadShape, ConvertShape, CheckShape, SendShape, ChangeInPlaceShape, CommitShape,
     AbandonShape DEF Next
<1> QED
  BY <1>1, ShapePreserves DEF StepOK

LEMMA InitShape == Init => SInv
<1> SUFFICES ASSUME Init
             PROVE  SInv
  OBVIOUS
<1>1. NoCall \in Calls
  BY CommonDaoAssumption DEF NoCall, Kind, Calls, Method
<1>2. [by |-> Nobody, has |-> {}] \in Row
  BY DEF Row
<1>3. data \in Database
  BY <1>2 DEF Init, Database
<1>4. 0 \in 0..MaxCalls
  BY CommonDaoAssumption
<1>5. TypeOK
  BY <1>1, <1>3, <1>4, EmptyWrites DEF Init, TypeOK, Pc
<1>6. ASSUME NEW c \in Client
      PROVE  Shape(c)
  BY EmptyWrites DEF Init, Shape, Saving
<1> QED
  BY <1>5, <1>6 DEF SInv

LEMMA AlwaysShape == Spec => []SInv
<1>1. SInv /\ [Next]_vars => SInv'
  <2> SUFFICES ASSUME SInv, [Next]_vars
               PROVE  SInv'
    OBVIOUS
  <2>1. CASE UNCHANGED vars
    BY <2>1 DEF vars, SInv, TypeOK, Shape, Buffering, Allowed
  <2> QED
    BY <2>1, StepsAreOK
<1> QED
  BY <1>1, InitShape, PTL DEF Spec

-----------------------------------------------------------------------------
(* Protected rows                                                            *)

\* What c may change of an immutable dao's rows.
Waived(c, i) ==
  \/ call[c].id = i /\ Overrides(call[c])
  \/ \E k \in 1..Len(buf[c]) : buf[c][k].id = i /\ buf[c][k].overrides

\* A save that is not refused, or a commit.
LEMMA WaivedOnly ==
  ASSUME SInv, cfg.immutable, NEW ws \in Seq(Write), Good(cfg.immutable, ws),
         data' = data \/ (~Refused(ws, data) /\ data' = Applied(ws, data)),
         NEW i \in Id, data[i] # Nothing, data'[i] # data[i]
  PROVE  Overridden(ws, i)
<1>1. Good(TRUE, ws) /\ data \in Database
  BY DEF Good, SInv, TypeOK
<1>2. ~Refused(ws, data) /\ data' = Applied(ws, data)
  OBVIOUS
<1>3. Applied(ws, data)[i] = data[i] \/ Overridden(ws, i)
  BY <1>1, <1>2, InsertsKeep
<1> QED
  BY <1>2, <1>3

LEMMA ProtectedStep ==
  ASSUME SInv, NEW c \in Client, Send(c) \/ ChangeInPlace(c) \/ Commit(c)
  PROVE  /\ cfg.readOnly => data' = data
         /\ cfg.immutable => \A i \in Id :
              data[i] # Nothing /\ data'[i] # data[i] => Waived(c, i)
<1> SUFFICES ASSUME NEW i \in Id
             PROVE  /\ cfg.readOnly => data' = data
                    /\ cfg.immutable /\ data[i] # Nothing /\ data'[i] # data[i] => Waived(c, i)
  BY CommonDaoAssumption
<1>1. CASE Send(c)
  <2> DEFINE w == Request(c)
  <2>1. pc[c] = "writing" /\ call[c].kind \notin InPlace /\ ~cfg.readOnly
    BY <1>1 DEF Send, SInv, Shape, Saving, InPlace
  <2>2. /\ w \in Write /\ (cfg.immutable => Sendable(w)) /\ (w.why = "patch" => w.row # Nothing)
        /\ w.id = call[c].id /\ w.overrides = Overrides(call[c])
    BY <2>1, RequestIsWrite
  <2>4. data' = data \/ (~Refused(<<w>>, data) /\ data' = Applied(<<w>>, data))
    BY <1>1 DEF Send, Store, dbVars
  <2> HIDE DEF w
  <2>3. /\ <<w>> \in Seq(Write) /\ Good(cfg.immutable, <<w>>)
        /\ \A k \in 1..Len(<<w>>) : <<w>>[k] = w
    BY <2>2, OneWrite
  <2>5. ASSUME cfg.immutable, data[i] # Nothing, data'[i] # data[i]
        PROVE  w.id = i /\ w.overrides
    <3>1. \E k \in 1..Len(<<w>>) : <<w>>[k].id = i /\ <<w>>[k].overrides
      <4> DEFINE ws == <<w>>
      <4>1. ws \in Seq(Write) /\ Good(cfg.immutable, ws)
            /\ (data' = data \/ (~Refused(ws, data) /\ data' = Applied(ws, data)))
        BY <2>3, <2>4
      <4> HIDE DEF ws
      <4>2. Overridden(ws, i)
        BY <2>5, <4>1, WaivedOnly
      <4> QED
        BY <4>2 DEF Overridden, ws
    <3> QED
      BY <2>3, <3>1
  <2> QED
    BY <2>1, <2>2, <2>5 DEF Waived
<1>2. CASE ChangeInPlace(c)
  <2>1. /\ pc[c] = "writing" /\ call[c].kind \in {"patchByIds", "increment"}
        /\ ~cfg.readOnly /\ Allowed(call[c])
    BY <1>2 DEF ChangeInPlace, SInv, Shape, Saving
  <2>2. cfg.immutable => Overrides(call[c])
    BY <2>1 DEF Allowed, Overrides
  <2>3. i # call[c].id => data'[i] = data[i]
    BY <1>2 DEF ChangeInPlace, Store, SInv, TypeOK, Database
  <2> QED
    BY <2>1, <2>2, <2>3 DEF Waived
<1>3. CASE Commit(c)
  <2>1. \/ data' = data
        \/ ~Refused(buf[c], data) /\ data' = Applied(buf[c], data)
    BY <1>3 DEF Commit, Store, dbVars
  <2>2. cfg.readOnly => Applied(buf[c], data) = data
    BY SameState, EmptyWrites
  <2>3. ASSUME cfg.immutable, data[i] # Nothing, data'[i] # data[i]
        PROVE  Waived(c, i)
    <3> DEFINE ws == buf[c]
    <3>1. ws \in Seq(Write) /\ Good(cfg.immutable, ws)
          /\ (data' = data \/ (~Refused(ws, data) /\ data' = Applied(ws, data)))
      BY <2>1, SameState
    <3> HIDE DEF ws
    <3>2. Overridden(ws, i)
      BY <2>3, <3>1, WaivedOnly
    <3> QED
      BY <3>2 DEF Waived, Overridden, ws
  <2> QED
    BY <2>1, <2>2, <2>3
<1> QED
  BY <1>1, <1>2, <1>3

(* A read-only dao writes nothing, and the rows of an immutable one stay as *)
(* they were written but for the calls that override that.                  *)
THEOREM AlwaysProtectedRowsStay == Spec => ProtectedRowsStay
<1> DEFINE Protected ==
             /\ cfg.readOnly => data' = data
             /\ cfg.immutable => \A c \in Client : \A i \in Id :
                  pc'[c] # pc[c] /\ data[i] # Nothing /\ data'[i] # data[i] => Waived(c, i)
<1>1. SInv /\ [Next]_vars => [Protected]_vars
  <2> SUFFICES ASSUME SInv, Next
               PROVE  Protected
    OBVIOUS
  <2>1. CASE data' = data
    BY <2>1
  <2>2. ASSUME NEW c \in Client, Send(c) \/ ChangeInPlace(c) \/ Commit(c)
        PROVE  Protected
    <3>1. Others(c)
      BY <2>2, SendShape, ChangeInPlaceShape, CommitShape DEF StepOK
    <3>2. \A u \in Client : pc'[u] # pc[u] => u = c
      BY <3>1 DEF Others
    <3> QED
      BY <2>2, <3>2, ProtectedStep
  <2>3. data' = data \/ \E c \in Client : Send(c) \/ ChangeInPlace(c) \/ Commit(c)
    BY DEF Next, Begin, StartLoading, StartPatching, StartCreate, StartWriting, Make, Load,
       Convert, Check, Abandon, dbVars
  <2> QED
    BY <2>1, <2>2, <2>3
<1>2. [Protected]_vars =>
        [/\ cfg.readOnly => data' = data
         /\ cfg.immutable => \A c \in Client : \A i \in Id :
              pc'[c] # pc[c] /\ data[i] # Nothing /\ data'[i] # data[i] =>
                \/ call[c].id = i /\ Overrides(call[c])
                \/ \E k \in 1..Len(buf[c]) : buf[c][k].id = i /\ buf[c][k].overrides]_vars
  BY DEF Waived
<1> QED
  BY <1>1, <1>2, AlwaysShape, PTL DEF Spec, ProtectedRowsStay

-----------------------------------------------------------------------------
(* Fresh ids                                                                 *)

\* c has found that the id of its new object is free.
Checked(c) ==
  /\ call[c].kind = "create" /\ "ensureUniqueId" \in call[c].opts
  /\ pc[c] = "writing" \/ (pc[c] = "converting" /\ "asDBM" \in call[c].opts)

\* None of the writes is of a new object whose id is among ids.
NoneNew(ws, ids) == \A k \in 1..Len(ws) : ws[k].why = "new" => ws[k].id \notin ids

Fresh(c) ==
  /\ \A i \in present[c] : data[i] # Nothing
  /\ Checked(c) => call[c].id \notin present[c]
  /\ NoneNew(buf[c], present[c])

FInv == SInv /\ clobbered = {} /\ \A c \in Client : Fresh(c)

LEMMA NoWritesNoneNew == \A ids : NoneNew(<<>>, ids)
<1>1. Len(<<>>) = 0 /\ 1..0 = {}
  OBVIOUS
<1> QED
  BY <1>1 DEF NoneNew

\* What becomes of the ids of the others.
LEMMA FreshOthers ==
  ASSUME FInv, NEW c \in Client, StepOK(c), NEW u \in Client, u # c,
         present'[u] \subseteq present[u], \A i \in present'[u] : data'[i] # Nothing
  PROVE  Fresh(u)'
<1>1. pc'[u] = pc[u] /\ call'[u] = call[u] /\ buf'[u] = buf[u]
  BY DEF StepOK, Others
<1>2. Fresh(u)
  BY DEF FInv
<1>3. NoneNew(buf[u], present'[u])
  BY <1>2 DEF Fresh, NoneNew
<1> QED
  BY <1>1, <1>2, <1>3 DEF Fresh, Checked

LEMMA FreshMoves ==
  ASSUME FInv, NEW c \in Client, StepOK(c), UNCHANGED dbVars,
         Checked(c)' => call'[c].id \notin present[c],
         NoneNew(buf'[c], present[c])
  PROVE  FInv'
<1>1. present' = present /\ data' = data /\ clobbered' = clobbered
  BY DEF dbVars
<1>2. Fresh(c)'
  BY <1>1 DEF Fresh, FInv
<1>3. \A u \in Client : u # c => Fresh(u)'
  BY <1>1, FreshOthers DEF FInv, Fresh
<1> QED
  BY <1>1, <1>2, <1>3, ShapePreserves DEF FInv

LEMMA FreshStored ==
  ASSUME FInv, NEW c \in Client, StepOK(c), NEW ws, NEW d, Store(c, ws, d),
         NoneNew(ws, present[c]), ~Checked(c)', buf'[c] \in {<<>>, buf[c]}
  PROVE  FInv'
<1>1. \A u \in Client : /\ present'[u] = {i \in present[u] : d[i] # Nothing}
  BY DEF Store
<1>2. data' = d
  BY DEF Store
<1>3. clobbered' = {}
  BY DEF Store, FInv, NoneNew
<1>4. NoneNew(buf'[c], present'[c])
  BY <1>1, NoWritesNoneNew DEF FInv, Fresh, NoneNew
<1>5. Fresh(c)'
  BY <1>1, <1>2, <1>4 DEF Fresh
<1>6. \A u \in Client : u # c => Fresh(u)'
  BY <1>1, <1>2, FreshOthers
<1> QED
  BY <1>3, <1>5, <1>6, ShapePreserves DEF FInv

\* A call was made.
LEMMA FreshMade ==
  ASSUME FInv, NEW c \in Client, NEW m \in Call, Make(c, m), StepOK(c), ~Checked(c)',
         buf' = buf \/ buf' = [buf EXCEPT ![c] = <<>>]
  PROVE  FInv'
<1>1. /\ data' = data /\ clobbered' = clobbered
      /\ \A u \in Client \ {c} : present'[u] = present[u]
  BY MakeTypes DEF FInv
<1>2. present'[c] = {i \in Id : data[i] # Nothing} \ {buf[c][k].id : k \in 1..Len(buf[c])}
  BY DEF Make, FInv, SInv, TypeOK
<1>3. NoneNew(buf[c], present'[c])
  BY <1>2 DEF NoneNew
<1>4. buf'[c] \in {buf[c], <<>>}
  BY DEF FInv, SInv, TypeOK
<1>5. Fresh(c)'
  BY <1>1, <1>2, <1>3, <1>4, NoWritesNoneNew DEF Fresh
<1>6. \A u \in Client : u # c => Fresh(u)'
  BY <1>1, FreshOthers DEF FInv, Fresh
<1> QED
  BY <1>1, <1>5, <1>6, ShapePreserves DEF FInv

LEMMA FreshStarts ==
  ASSUME FInv, NEW c \in Client, NEW m \in Call,
         \/ StartLoading(c, m) \/ StartPatching(c, m)
         \/ StartCreate(c, m) \/ StartWriting(c, m)
  PROVE  FInv'
<1>1. StepOK(c)
  BY StartLoadingShape, StartPatchingShape, StartCreateShape, StartWritingShape DEF FInv
<1>2. Make(c, m)
  BY DEF StartLoading, StartPatching, StartCreate, StartWriting
<1>3. buf' = buf \/ buf' = [buf EXCEPT ![c] = <<>>]
  BY DEF StartLoading, StartPatching, StartCreate, StartWriting, StartSave, Reject
<1>4. call'[c] = m /\ pc \in [Client -> Pc]
  BY <1>2, MakeTypes DEF FInv, SInv, TypeOK
<1>5. CASE m.kind # "create"
  BY <1>1, <1>2, <1>3, <1>4, <1>5, FreshMade DEF Checked
<1>6. CASE m.kind = "create"
  <2>1. StartCreate(c, m)
    BY <1>6 DEF StartLoading, StartPatching, StartWriting
  <2>2. \/ pc'[c] = "rejected"
        \/ pc'[c] = IF {"asDBM", "ensureUniqueId"} \subseteq m.opts THEN "checking" ELSE "converting"
    BY <2>1, <1>4 DEF StartCreate, StartSave, Reject, Goto
  <2> QED
    BY <1>1, <1>2, <1>3, <1>4, <2>2, FreshMade DEF Checked
<1> QED
  BY <1>5, <1>6

LEMMA FreshStep ==
  ASSUME FInv, NEW c \in Client,
         \/ Begin(c) \/ Load(c) \/ Convert(c) \/ Check(c) \/ Abandon(c)
  PROVE  FInv'
<1>1. StepOK(c)
  BY BeginShape, LoadShape, ConvertShape, CheckShape, AbandonShape DEF FInv
<1>2. UNCHANGED dbVars /\ call' = call
  BY DEF Begin, Load, Convert, Check, Abandon
<1>3. buf'[c] \in {buf[c], <<>>}
  BY DEF Begin, Load, StartSave, Convert, Check, Abandon, Reject, FInv, SInv, TypeOK
<1>4. NoneNew(buf'[c], present[c])
  BY <1>3, NoWritesNoneNew DEF FInv, Fresh
<1>5. Checked(c)' => call'[c].id \notin present[c]
  <2> USE DEF FInv, SInv
  <2>1. pc \in [Client -> Pc]
    BY DEF TypeOK
  <2>2. CASE Begin(c) \/ Abandon(c)
    BY <2>1, <2>2 DEF Begin, Abandon, Reject, Goto, Checked
  <2>3. CASE Load(c)
    BY <2>3, <1>2 DEF Load, Shape, Checked
  <2>4. CASE Convert(c)
    <3>1. /\ pc[c] = "converting"
          /\ \/ pc'[c] \in {"committing", "ready"}
             \/ pc'[c] = IF /\ "ensureUniqueId" \in call[c].opts /\ call[c].kind = "create"
                            /\ "asDBM" \notin call[c].opts
                         THEN "checking" ELSE "writing"
      BY <2>1, <2>4 DEF Convert, Goto, Resolved
    <3>2. Checked(c)' => Checked(c)
      BY <3>1, <1>2 DEF Checked
    <3> QED
      BY <3>2, <1>2 DEF Fresh
  <2>5. CASE Check(c)
    <3>1. pc'[c] = "rejected" \/ data[call[c].id] = Nothing
      BY <2>1, <2>5 DEF Check, Reject, Goto, Taken
    <3> QED
      BY <3>1, <1>2 DEF Fresh, Checked
  <2> QED
    BY <2>2, <2>3, <2>4, <2>5
<1> QED
  BY <1>1, <1>2, <1>4, <1>5, FreshMoves

LEMMA FreshWrites ==
  ASSUME FInv, NEW c \in Client, Send(c) \/ ChangeInPlace(c) \/ Commit(c)
  PROVE  FInv'
<1> USE DEF FInv
<1>1. StepOK(c)
  BY SendShape, ChangeInPlaceShape, CommitShape
<1>2. pc \in [Client -> Pc] /\ buf \in [Client -> Seq(Write)]
  BY DEF SInv, TypeOK
<1>3. ~Checked(c)'
  BY <1>2 DEF Send, ChangeInPlace, Commit, Reject, Goto, Resolved, Checked
<1>4. CASE Send(c)
  <2> DEFINE w == Request(c)
  <2>1. pc[c] = "writing" /\ call[c].kind \notin InPlace
    BY <1>4 DEF Send, InPlace
  <2>2. /\ w \in Write /\ w.id = call[c].id
        /\ w.why = "new" => call[c].kind = "create" /\ "ensureUniqueId" \in call[c].opts
        /\ cfg.immutable => Sendable(w)
        /\ w.why = "patch" => w.row # Nothing
    BY <2>1, RequestIsWrite
  <2>3. w.why = "new" => w.id \notin present[c]
    BY <2>1, <2>2 DEF Fresh, Checked
  <2> HIDE DEF w
  <2>4. NoneNew(<<w>>, present[c])
    BY <2>2, <2>3, OneWrite DEF NoneNew
  <2>5. NoneNew(buf[c] \o <<w>>, present[c])
    BY <2>2, <2>3, <1>2, SameState, OneMoreWrite DEF Fresh, NoneNew
  <2>6. CASE buf' = [buf EXCEPT ![c] = buf[c] \o <<w>>] /\ UNCHANGED dbVars
    BY <1>1, <1>2, <1>3, <2>5, <2>6, FreshMoves
  <2>7. CASE buf' = buf /\ Store(c, <<w>>, Applied(<<w>>, data))
    BY <1>1, <1>3, <2>4, <2>7, FreshStored
  <2>8. CASE buf' = [buf EXCEPT ![c] = <<>>] /\ UNCHANGED dbVars
    BY <1>1, <1>2, <1>3, <2>8, NoWritesNoneNew, FreshMoves
  <2> QED
    BY <1>4, <2>6, <2>7, <2>8 DEF Send, Reject, w
<1>5. CASE ChangeInPlace(c)
  <2>1. Store(c, <<>>, data') /\ buf' = buf
    BY <1>5, ChangedRow DEF ChangeInPlace
  <2> QED
    BY <1>1, <1>3, <2>1, NoWritesNoneNew, FreshStored
<1>6. CASE Commit(c)
  <2>1. buf'[c] = <<>>
    BY <1>2, <1>6 DEF Commit, Reject
  <2>2. CASE UNCHANGED dbVars
    BY <1>1, <1>3, <2>1, <2>2, NoWritesNoneNew, FreshMoves
  <2>3. CASE Store(c, buf[c], Applied(buf[c], data))
    BY <1>1, <1>3, <2>1, <2>3, FreshStored DEF Fresh
  <2> QED
    BY <1>6, <2>2, <2>3 DEF Commit
<1> QED
  BY <1>4, <1>5, <1>6

(* With ensureUniqueId a new object never takes the id of a row that has    *)
(* been there since the call.                                               *)
THEOREM AlwaysFreshIds == Spec => []FreshIds
<1>1. Init => FInv
  <2> SUFFICES ASSUME Init
               PROVE  FInv
    OBVIOUS
  <2>1. SInv
    BY InitShape
  <2>2. \A c \in Client : Fresh(c)
    BY NoWritesNoneNew DEF Init, Fresh, Checked
  <2> QED
    BY <2>1, <2>2 DEF Init, FInv
<1>2. FInv /\ [Next]_vars => FInv'
  <2> SUFFICES ASSUME FInv, [Next]_vars
               PROVE  FInv'
    OBVIOUS
  <2>1. CASE UNCHANGED vars
    BY <2>1 DEF vars, FInv, SInv, TypeOK, Shape, Buffering, Allowed, Fresh, Checked
  <2>2. CASE Next
    BY <2>2, FreshStarts, FreshStep, FreshWrites DEF Next
  <2> QED
    BY <2>1, <2>2
<1>3. FInv => FreshIds
  BY DEF FInv, FreshIds
<1> QED
  BY <1>1, <1>2, <1>3, PTL DEF Spec

-----------------------------------------------------------------------------
(* Patches kept                                                              *)

Isolated == cfg.db = "isolated" /\ cfg.patchInTransaction

\* The row has all that c's transaction, if it may still commit, would
\* overwrite in the row i.
UpToDate(c, i, row) ==
  /\ i \in reads[c]
  /\ ~stale[c] /\ data[i] # Nothing => data[i].has \subseteq row.has

\* The patches among the writes are of rows as they are.
PatchesUpToDate(c, ws) ==
  \A k \in 1..Len(ws) : ws[k].why = "patch" => UpToDate(c, ws[k].id, ws[k].row)

\* c holds an object its transaction has loaded.
HasLoaded(c) ==
  /\ tx[c] # "none" /\ bm[c] # Nothing
  /\ call[c].kind \in {"getById", "patchById", "txPatch"}
  /\ pc[c] \in Saving \cup {"ready", "committing"}

Patches(c) ==
  /\ pc[c] \in Saving \cup {"loading"} /\ call[c].kind \in {"patchById", "txPatch"} =>
       tx[c] # "none"
  /\ HasLoaded(c) => UpToDate(c, call[c].id, bm[c])
  /\ PatchesUpToDate(c, buf[c])

PInv == SInv /\ (Isolated => lost = {} /\ \A c \in Client : Patches(c))

LEMMA NoWritesUpToDate == \A c : PatchesUpToDate(c, <<>>)
<1>1. Len(<<>>) = 0 /\ 1..0 = {}
  OBVIOUS
<1> QED
  BY <1>1 DEF PatchesUpToDate

\* Whoever is up to date stays so, or becomes stale.
LEMMA StaysUpToDate ==
  ASSUME NEW u, reads'[u] = reads[u],
         ~stale'[u] => ~stale[u] /\ \A i \in reads[u] : data'[i] = data[i]
  PROVE  /\ \A i, row : UpToDate(u, i, row) => UpToDate(u, i, row)'
         /\ \A ws : PatchesUpToDate(u, ws) => PatchesUpToDate(u, ws)'
BY DEF UpToDate, PatchesUpToDate

LEMMA PatchesOthers ==
  ASSUME PInv, Isolated, NEW c \in Client, StepOK(c), NEW u \in Client, u # c,
         ~stale'[u] => ~stale[u] /\ \A i \in reads[u] : data'[i] = data[i]
  PROVE  Patches(u)'
<1>1. /\ pc'[u] = pc[u] /\ call'[u] = call[u] /\ tx'[u] = tx[u] /\ bm'[u] = bm[u]
      /\ buf'[u] = buf[u] /\ reads'[u] = reads[u]
  BY DEF StepOK, Others
<1>2. Patches(u)
  BY DEF PInv
<1>3. UpToDate(u, call[u].id, bm[u]) => UpToDate(u, call[u].id, bm[u])'
  BY <1>1, StaysUpToDate
<1>4. PatchesUpToDate(u, buf[u])'
  BY <1>1, <1>2, StaysUpToDate DEF Patches
<1>5. HasLoaded(u)' = HasLoaded(u)
  BY <1>1 DEF HasLoaded
<1> QED
  BY <1>1, <1>2, <1>3, <1>4, <1>5 DEF Patches, UpToDate, PatchesUpToDate

\* A step that leaves the table alone.
LEMMA PatchesMoves ==
  ASSUME PInv, NEW c \in Client, StepOK(c), data' = data, stale' = stale, lost' = lost,
         Isolated => Patches(c)'
  PROVE  PInv'
<1>1. Isolated' = Isolated
  BY DEF StepOK, Isolated
<1>2. Isolated => \A u \in Client : u # c => Patches(u)'
  BY PatchesOthers
<1> QED
  BY <1>1, <1>2, ShapePreserves DEF PInv

\* One that changes it, in which nothing is lost.
LEMMA PatchesStored ==
  ASSUME PInv, NEW c \in Client, StepOK(c), NEW ws, NEW d, Store(c, ws, d),
         Isolated => \A k \in 1..Len(ws) : ws[k].why = "patch" /\
                       data[ws[k].id] # Nothing => data[ws[k].id].has \subseteq ws[k].row.has,
         Isolated => Patches(c)'
  PROVE  PInv'
<1>1. Isolated' = Isolated
  BY DEF StepOK, Isolated
<1>2. ASSUME Isolated
      PROVE  lost' = {}
  BY <1>2 DEF Store, PInv
<1>3. ASSUME Isolated, NEW u \in Client, u # c
      PROVE  Patches(u)'
  <2>1. ~stale'[u] => ~stale[u] /\ \A i \in reads[u] : data'[i] = data[i]
    BY <1>3 DEF Store
  <2> QED
    BY <1>3, <2>1, PatchesOthers
<1> QED
  BY <1>1, <1>2, <1>3, ShapePreserves DEF PInv

LEMMA PatchesStarts ==
  ASSUME PInv, NEW c \in Client, NEW m \in Call,
         \/ StartLoading(c, m) \/ StartPatching(c, m)
         \/ StartCreate(c, m) \/ StartWriting(c, m)
  PROVE  PInv'
<1> USE DEF PInv, SInv
<1>1. StepOK(c)
  BY StartLoadingShape, StartPatchingShape, StartCreateShape, StartWritingShape
<1>2. Make(c, m)
  BY DEF StartLoading, StartPatching, StartCreate, StartWriting
<1>3. /\ pc[c] = "ready" /\ call'[c] = m /\ reads' = reads
      /\ data' = data /\ stale' = stale /\ lost' = lost
  BY <1>2, MakeTypes
<1>4. buf'[c] \in {buf[c], <<>>} /\ pc \in [Client -> Pc] /\ bm \in [Client -> Row \cup {Nothing}]
  BY DEF StartLoading, StartPatching, StartCreate, StartWriting, StartSave, Reject, TypeOK
<1>5. ASSUME Isolated
      PROVE  Patches(c)'
  <2>1. PatchesUpToDate(c, buf[c])'
    <3>1. \A ws : PatchesUpToDate(c, ws) => PatchesUpToDate(c, ws)'
      BY <1>3, StaysUpToDate
    <3>2. PatchesUpToDate(c, buf'[c])
      BY <1>4, <1>5, NoWritesUpToDate DEF Patches
    <3> QED
      BY <3>1, <3>2 DEF PatchesUpToDate, UpToDate
  <2>2. m.kind \in Patching => tx'[c] # "none"
    BY <1>2, <1>5 DEF Make, Isolated, TypeOK
  <2>3. {"patchById", "txPatch"} \subseteq Patching
    BY DEF Patching
  <2>4. ASSUME HasLoaded(c)'
        PROVE  UpToDate(c, call[c].id, bm[c])'
    <3>1. m.kind \in {"getById", "patchById", "txPatch"} /\ pc'[c] # "loading"
      BY <1>3, <2>4 DEF HasLoaded, Saving
    <3>2. StartPatching(c, m) /\ m.kind = "txPatch"
      BY <1>4, <3>1 DEF StartLoading, StartPatching, StartCreate, StartWriting, Goto
    <3>3. /\ tx[c] = "caller" /\ bm[c] # Nothing /\ call[c].id = m.id
          /\ call[c].kind \in {"getById", "patchById", "txPatch"}
      BY <1>2, <3>2 DEF Make, Callable, Holds
    <3>4. UpToDate(c, m.id, bm[c])
      BY <1>3, <1>5, <3>3 DEF Patches, HasLoaded
    <3>5. bm[c] \in Row /\ With(bm[c], c).has = bm[c].has \cup {c}
      BY <1>4, <3>3, WithIsRow
    <3>6. bm'[c] \in {bm[c], With(bm[c], c)}
      BY <1>4, <3>2 DEF StartPatching, StartSave
    <3> QED
      BY <1>3, <3>4, <3>5, <3>6 DEF UpToDate
  <2> QED
    BY <1>3, <2>1, <2>2, <2>3, <2>4 DEF Patches
<1> QED
  BY <1>1, <1>3, <1>5, PatchesMoves

LEMMA PatchesLoad ==
  ASSUME PInv, NEW c \in Client, Load(c)
  PROVE  PInv'
<1> USE DEF PInv, SInv
<1> DEFINE i == call[c].id
           row == data[i]
           base == IF row = Nothing THEN [by |-> c, has |-> {}] ELSE row
<1>1. StepOK(c)
  BY LoadShape
<1>2. /\ pc[c] = "loading" /\ UNCHANGED <<call, tx, data, stale, lost>>
  BY DEF Load, dbVars
<1>3. pc \in [Client -> Pc] /\ bm \in [Client -> Row \cup {Nothing}]
      /\ buf \in [Client -> Seq(Write)] /\ reads \in [Client -> SUBSET Id]
  BY DEF TypeOK
<1>4. ASSUME Isolated
      PROVE  Patches(c)'
  <2>1. reads[c] \subseteq reads'[c]
    <3>1. PICK ids \in SUBSET Id : /\ ReadsIn(c) = [reads EXCEPT ![c] = ids]
                                   /\ reads[c] \subseteq ids
      BY ReadsInIds
    <3>2. ReadsIn(c)[c] = ids
      BY <1>3, <3>1
    <3> QED
      BY <3>1, <3>2 DEF Load
  <2>2. buf'[c] \in {buf[c], <<>>}
    BY <1>3 DEF Load, StartSave, Reject
  <2>3. PatchesUpToDate(c, buf[c])'
    <3>1. PatchesUpToDate(c, buf'[c])
      BY <1>4, <2>2, NoWritesUpToDate DEF Patches
    <3> QED
      BY <1>2, <2>1, <3>1 DEF PatchesUpToDate, UpToDate
  <2>4. ASSUME HasLoaded(c)'
        PROVE  UpToDate(c, call[c].id, bm[c])'
    <3>1. tx[c] # "none" /\ Buffering(c) /\ pc'[c] # "rejected" /\ bm'[c] # Nothing
      BY <1>2, <1>4, <2>4 DEF HasLoaded, Buffering, Isolated, Saving
    <3>2. reads' = ReadsIn(c)
      BY <1>3, <3>1 DEF Load, Reject, Goto
    <3>3. i \in reads'[c]
      <4>1. PICK ids \in SUBSET Id : ReadsIn(c) = [reads EXCEPT ![c] = ids] /\ i \in ids
        BY <3>1, ReadsInIds
      <4> QED
        BY <1>3, <3>2, <4>1
    <3>4. row \in Row \cup {Nothing} /\ base \in Row
      BY SameState, NewIsRow DEF Database
    <3>5. With(base, c).has = base.has \cup {c}
      BY <3>4, WithIsRow
    <3>6. bm'[c] \in {row, With(base, c)}
      BY <1>3, <3>1 DEF Load, StartSave, Reject, Goto
    <3>7. row # Nothing => row.has \subseteq bm'[c].has
      BY <3>5, <3>6
    <3> QED
      BY <1>2, <3>3, <3>7 DEF UpToDate
  <2>5. call[c].kind \in {"patchById", "txPatch"} => tx[c] # "none"
    BY <1>2, <1>4 DEF Patches
  <2> QED
    BY <1>2, <2>3, <2>4, <2>5 DEF Patches
<1> QED
  BY <1>1, <1>2, <1>4, PatchesMoves

LEMMA PatchesStep ==
  ASSUME PInv, NEW c \in Client, Begin(c) \/ Convert(c) \/ Check(c) \/ Abandon(c)
  PROVE  PInv'
<1> USE DEF PInv, SInv
<1>1. StepOK(c)
  BY BeginShape, ConvertShape, CheckShape, AbandonShape
<1>2. UNCHANGED <<call, bm, reads, data, stale, lost>>
  BY DEF Begin, Convert, Check, Abandon, dbVars
<1>3. pc \in [Client -> Pc] /\ buf \in [Client -> Seq(Write)]
  BY DEF TypeOK
<1>4. ASSUME Isolated
      PROVE  Patches(c)'
  <2>1. buf'[c] \in {buf[c], <<>>}
    BY <1>3 DEF Begin, Convert, Check, Abandon, Reject
  <2>2. PatchesUpToDate(c, buf[c])'
    <3>1. PatchesUpToDate(c, buf'[c])
      BY <1>4, <2>1, NoWritesUpToDate DEF Patches
    <3> QED
      BY <1>2, <3>1 DEF PatchesUpToDate, UpToDate
  <2>3. CASE Begin(c)
    <3>1. pc'[c] = "ready" /\ bm'[c] = Nothing
      BY <1>2, <1>3, <2>3 DEF Begin, Goto, Shape
    <3> QED
      BY <2>2, <3>1 DEF Patches, HasLoaded, Saving
  <2>4. CASE Convert(c) \/ Check(c)
    <3>1. tx' = tx /\ pc[c] \in Saving /\ pc'[c] # "loading"
      BY <1>3, <2>4 DEF Convert, Check, Reject, Goto, Resolved, Saving
    <3>2. HasLoaded(c)' => UpToDate(c, call[c].id, bm[c])
      BY <1>2, <1>4, <3>1 DEF HasLoaded, Patches
    <3>3. pc'[c] \in Saving => pc[c] \in Saving
      BY <3>1
    <3> QED
      BY <1>2, <1>4, <2>2, <3>1, <3>2, <3>3 DEF Patches, UpToDate
  <2>5. CASE Abandon(c)
    <3>1. pc'[c] = "rejected"
      BY <1>3, <2>5 DEF Abandon, Reject, Goto
    <3> QED
      BY <2>2, <3>1 DEF Patches, HasLoaded, Saving
  <2> QED
    BY <2>3, <2>4, <2>5
<1> QED
  BY <1>1, <1>2, <1>4, PatchesMoves

LEMMA PatchesWrites ==
  ASSUME PInv, NEW c \in Client, Send(c) \/ ChangeInPlace(c) \/ Commit(c)
  PROVE  PInv'
<1> USE DEF PInv, SInv
<1>1. StepOK(c)
  BY SendShape, ChangeInPlaceShape, CommitShape
<1>2. pc \in [Client -> Pc] /\ buf \in [Client -> Seq(Write)]
      /\ tx \in [Client -> {"none", "own", "caller"}]
  BY DEF TypeOK
<1>3. call' = call /\ bm' = bm /\ pc'[c] \in {"ready", "committing", "done", "rejected"}
  BY <1>2 DEF Send, ChangeInPlace, Commit, Reject, Goto, Resolved
<1>4. pc'[c] \notin Saving \cup {"loading"}
  BY <1>3 DEF Saving
<1>5. ASSUME pc'[c] = "rejected" \/ tx'[c] = "none", buf'[c] = <<>>
      PROVE  Patches(c)'
  <2>1. ~HasLoaded(c)'
    BY <1>5 DEF HasLoaded, Saving
  <2>2. PatchesUpToDate(c, buf[c])'
    BY <1>5, NoWritesUpToDate DEF PatchesUpToDate
  <2> QED
    BY <1>4, <2>1, <2>2 DEF Patches
<1>6. CASE Send(c)
  <2> DEFINE w == Request(c)
  <2>1. pc[c] = "writing" /\ call[c].kind \notin InPlace /\ tx' = tx /\ reads' = reads
    BY <1>6 DEF Send, InPlace
  <2>2. /\ w \in Write /\ w.id = call[c].id
        /\ w.why = "patch" => /\ call[c].kind \in {"patchById", "txPatch"}
                              /\ w.row = bm[c] /\ bm[c] # Nothing
        /\ cfg.immutable => Sendable(w)
    BY <2>1, RequestIsWrite
  <2>3. Isolated /\ w.why = "patch" => tx[c] # "none" /\ UpToDate(c, w.id, w.row)
    BY <2>1, <2>2 DEF Patches, HasLoaded, Saving
  <2>4. Isolated /\ tx[c] = "none" => buf[c] = <<>>
    BY DEF Shape, Buffering
  <2> HIDE DEF w
  <2>5. CASE /\ buf' = [buf EXCEPT ![c] = buf[c] \o <<w>>] /\ UNCHANGED dbVars
             /\ pc' = [pc EXCEPT ![c] = Resolved(tx[c])]
    <3>1. data' = data /\ stale' = stale /\ lost' = lost
      BY <2>5 DEF dbVars
    <3>2. ASSUME Isolated
          PROVE  Patches(c)'
      <4>1. PatchesUpToDate(c, buf[c] \o <<w>>)
        BY <2>2, <2>3, <3>2, SameState, OneMoreWrite DEF Patches, PatchesUpToDate
      <4>2. PatchesUpToDate(c, buf[c])'
        BY <1>2, <2>1, <2>5, <3>1, <4>1 DEF PatchesUpToDate, UpToDate
      <4>3. HasLoaded(c)' => HasLoaded(c)
        BY <1>3, <2>1 DEF HasLoaded, Saving
      <4>4. HasLoaded(c)' => UpToDate(c, call[c].id, bm[c])'
        BY <1>3, <2>1, <3>1, <3>2, <4>3 DEF Patches, UpToDate
      <4> QED
        BY <1>4, <4>2, <4>4 DEF Patches
    <3> QED
      BY <1>1, <3>1, <3>2, PatchesMoves
  <2>6. CASE buf' = buf /\ ~Buffering(c) /\ Store(c, <<w>>, Applied(<<w>>, data))
    <3>1. Isolated => tx[c] = "none" /\ buf'[c] = <<>> /\ w.why # "patch"
      BY <2>3, <2>4, <2>6 DEF Buffering, Isolated
    <3>2. \A k \in 1..Len(<<w>>) : <<w>>[k] = w
      BY <2>2, OneWrite
    <3>3. Isolated => Patches(c)'
      BY <1>5, <2>1, <3>1
    <3> QED
      BY <1>1, <2>6, <3>1, <3>2, <3>3, PatchesStored
  <2>7. CASE Reject(c) /\ UNCHANGED dbVars
    <3>1. buf'[c] = <<>> /\ pc'[c] = "rejected"
      BY <1>2, <2>7 DEF Reject, Goto
    <3> QED
      BY <1>1, <1>5, <2>7, <3>1, PatchesMoves DEF dbVars
  <2> QED
    BY <1>6, <2>5, <2>6, <2>7 DEF Send, ToTx, Goto, w
<1>7. CASE ChangeInPlace(c)
  <2>1. Store(c, <<>>, data') /\ buf' = buf /\ tx' = tx /\ tx[c] = "none" /\ buf[c] = <<>>
    BY <1>7, ChangedRow DEF ChangeInPlace, Shape, Saving, InPlace, Buffering
  <2>2. Len(<<>>) = 0 /\ 1..0 = {}
    OBVIOUS
  <2> QED
    BY <1>1, <1>5, <2>1, <2>2, PatchesStored
<1>8. CASE Commit(c)
  <2>1. buf'[c] = <<>>
    BY <1>2, <1>8 DEF Commit, Reject
  <2>2. CASE Reject(c) /\ UNCHANGED dbVars
    <3>1. pc'[c] = "rejected"
      BY <1>2, <2>2 DEF Reject, Goto
    <3> QED
      BY <1>1, <1>5, <2>1, <2>2, <3>1, PatchesMoves DEF dbVars
  <2>3. CASE /\ ~(cfg.db = "isolated" /\ stale[c]) /\ tx' = [tx EXCEPT ![c] = "none"]
             /\ Store(c, buf[c], Applied(buf[c], data))
    <3>1. tx'[c] = "none"
      BY <1>2, <2>3
    <3>2. Isolated => \A k \in 1..Len(buf[c]) : buf[c][k].why = "patch" /\
            data[buf[c][k].id] # Nothing => data[buf[c][k].id].has \subseteq buf[c][k].row.has
      BY <2>3 DEF Isolated, Patches, PatchesUpToDate, UpToDate
    <3> QED
      BY <1>1, <1>5, <2>1, <2>3, <3>1, <3>2, PatchesStored
  <2> QED
    BY <1>8, <2>2, <2>3 DEF Commit
<1> QED
  BY <1>6, <1>7, <1>8

(* Patches in isolated transactions undo nobody's change.                   *)
THEOREM AlwaysPatchesKept == Spec => []PatchesKept
<1>1. Init => PInv
  <2> SUFFICES ASSUME Init
               PROVE  PInv
    OBVIOUS
  <2>1. SInv
    BY InitShape
  <2>2. \A c \in Client : Patches(c)
    BY NoWritesUpToDate DEF Init, Patches, HasLoaded, Saving
  <2> QED
    BY <2>1, <2>2 DEF Init, PInv
<1>2. PInv /\ [Next]_vars => PInv'
  <2> SUFFICES ASSUME PInv, [Next]_vars
               PROVE  PInv'
    OBVIOUS
  <2>1. CASE UNCHANGED vars
    BY <2>1 DEF vars, PInv, SInv, TypeOK, Shape, Buffering, Allowed, Isolated, Patches,
       HasLoaded, PatchesUpToDate, UpToDate
  <2>2. CASE Next
    BY <2>2, PatchesStarts, PatchesLoad, PatchesStep, PatchesWrites DEF Next
  <2> QED
    BY <2>1, <2>2
<1>3. PInv => PatchesKept
  BY DEF PInv, Isolated, PatchesKept
<1> QED
  BY <1>1, <1>2, <1>3, PTL DEF Spec

-----------------------------------------------------------------------------
(* What fails leaves nothing                                                 *)

TraceFree(c, row) == row # Nothing => row.by # c /\ c \notin row.has
NoTraceIn(c, ws) == \A k \in 1..Len(ws) : TraceFree(c, ws[k].row)

\* Nothing of c is in the table, or may get there through others.
Clean(c) ==
  /\ \A i \in Id : TraceFree(c, data[i])
  /\ \A u \in Client \ {c} : TraceFree(c, bm[u]) /\ NoTraceIn(c, buf[u])

\* c has sent nothing to the table yet.
Untouched(c) ==
  \/ calls[c] = 0
  \/ tx[c] = "caller" /\ cfg.db # "fake"
  \/ /\ tx[c] # "caller" /\ calls[c] = 1
     /\ \/ pc[c] \in Saving \cup {"loading", "rejected"}
        \/ pc[c] = "committing" /\ cfg.db # "fake"

CInv == SInv /\ \A c \in Client : Untouched(c) => Clean(c)

LEMMA NothingTraceFree ==
  /\ \A c : TraceFree(c, Nothing)
  /\ \A c : NoTraceIn(c, <<>>)
<1>1. Len(<<>>) = 0 /\ 1..0 = {}
  OBVIOUS
<1> QED
  BY <1>1 DEF TraceFree, NoTraceIn

\* Another client u makes a step that brings nothing of c anywhere.
LEMMA CleanOthers ==
  ASSUME CInv, NEW u \in Client, StepOK(u), NEW c \in Client, c # u, Untouched(c)',
         Clean(c) => /\ \A i \in Id : TraceFree(c, data'[i])
                     /\ TraceFree(c, bm'[u]) /\ NoTraceIn(c, buf'[u])
  PROVE  Clean(c)'
<1>1. /\ pc'[c] = pc[c] /\ calls'[c] = calls[c] /\ tx'[c] = tx[c] /\ cfg' = cfg
      /\ \A v \in Client \ {u} : bm'[v] = bm[v] /\ buf'[v] = buf[v]
  BY DEF StepOK, Others
<1>2. Untouched(c)
  BY <1>1 DEF Untouched
<1>3. Clean(c)
  BY <1>2 DEF CInv
<1> QED
  BY <1>1, <1>3 DEF Clean, TraceFree, NoTraceIn

\* A step of c that leaves the table alone.
LEMMA CleanMoves ==
  ASSUME CInv, NEW c \in Client, StepOK(c), data' = data,
         Untouched(c)' => Untouched(c),
         \A v \in Client \ {c} :
           TraceFree(v, bm[c]) /\ NoTraceIn(v, buf[c]) /\ (\A i \in Id : TraceFree(v, data[i])) =>
             TraceFree(v, bm'[c]) /\ NoTraceIn(v, buf'[c])
  PROVE  CInv'
<1>1. ASSUME Untouched(c)'
      PROVE  Clean(c)'
  <2>1. Clean(c)
    BY <1>1 DEF CInv
  <2>2. \A v \in Client \ {c} : bm'[v] = bm[v] /\ buf'[v] = buf[v]
    BY DEF StepOK, Others
  <2> QED
    BY <2>1, <2>2 DEF Clean, TraceFree, NoTraceIn
<1>2. ASSUME NEW v \in Client, v # c, Untouched(v)'
      PROVE  Clean(v)'
  <2>1. Clean(v) => TraceFree(v, bm[c]) /\ NoTraceIn(v, buf[c])
                      /\ (\A i \in Id : TraceFree(v, data[i]))
    BY <1>2 DEF Clean
  <2> QED
    BY <1>2, <2>1, CleanOthers
<1> QED
  BY <1>1, <1>2, ShapePreserves DEF CInv

\* A step of c that changes it.
LEMMA CleanStored ==
  ASSUME CInv, NEW c \in Client, StepOK(c), bm' = bm, buf'[c] \in {<<>>, buf[c]},
         Untouched(c)' => Untouched(c) /\ data' = data,
         \A v \in Client \ {c} :
           TraceFree(v, bm[c]) /\ NoTraceIn(v, buf[c]) /\ (\A i \in Id : TraceFree(v, data[i])) =>
             \A i \in Id : TraceFree(v, data'[i])
  PROVE  CInv'
<1>1. ASSUME Untouched(c)'
      PROVE  Clean(c)'
  <2>1. Clean(c) /\ data' = data
    BY <1>1 DEF CInv
  <2>2. \A v \in Client \ {c} : bm'[v] = bm[v] /\ buf'[v] = buf[v]
    BY DEF StepOK, Others
  <2> QED
    BY <2>1, <2>2 DEF Clean, TraceFree, NoTraceIn
<1>2. ASSUME NEW v \in Client, v # c, Untouched(v)'
      PROVE  Clean(v)'
  <2>1. Clean(v) => TraceFree(v, bm[c]) /\ NoTraceIn(v, buf[c])
                      /\ (\A i \in Id : TraceFree(v, data[i]))
    BY <1>2 DEF Clean
  <2>2. NoTraceIn(v, buf[c]) => NoTraceIn(v, buf'[c])
    BY NothingTraceFree
  <2> QED
    BY <1>2, <2>1, <2>2, CleanOthers
<1> QED
  BY <1>1, <1>2, ShapePreserves DEF CInv

LEMMA WithTraceFree ==
  ASSUME NEW c \in Client, NEW v \in Client, v # c
  PROVE  /\ \A row \in Row : TraceFree(v, row) => TraceFree(v, With(row, c))
         /\ \A has \in {{}, {c}} : TraceFree(v, [by |-> c, has |-> has])
BY WithIsRow, NothingAssumption DEF TraceFree, Row

LEMMA CleanStarts ==
  ASSUME CInv, NEW c \in Client, NEW m \in Call,
         \/ StartLoading(c, m) \/ StartPatching(c, m)
         \/ StartCreate(c, m) \/ StartWriting(c, m)
  PROVE  CInv'
<1> USE DEF CInv, SInv
<1>1. StepOK(c)
  BY StartLoadingShape, StartPatchingShape, StartCreateShape, StartWritingShape
<1>2. Make(c, m)
  BY DEF StartLoading, StartPatching, StartCreate, StartWriting
<1>3. /\ data' = data /\ cfg' = cfg /\ calls'[c] # 0
      /\ tx'[c] = tx[c] \/ (tx[c] = "none" /\ m.kind \in Patching)
  BY <1>2, MakeTypes
<1>4. Untouched(c)' => Untouched(c)
  <2>1. calls'[c] = 1 => calls[c] = 0
    <3>1. calls'[c] = calls[c] + 1 /\ calls[c] \in 0..MaxCalls /\ MaxCalls \in Nat
      BY <1>2, CommonDaoAssumption DEF Make, TypeOK
    <3> QED
      BY <3>1
  <2>2. tx'[c] = "caller" => tx[c] = "caller"
    BY <1>2 DEF Make, TypeOK
  <2> QED
    BY <1>3, <2>1, <2>2 DEF Untouched
<1>5. ASSUME NEW v \in Client, v # c, TraceFree(v, bm[c]), NoTraceIn(v, buf[c])
      PROVE  TraceFree(v, bm'[c]) /\ NoTraceIn(v, buf'[c])
  <2>1. buf'[c] \in {buf[c], <<>>} /\ bm[c] \in Row \cup {Nothing}
    BY DEF StartLoading, StartPatching, StartCreate, StartWriting, StartSave, Reject, TypeOK
  <2>2. CASE StartPatching(c, m)
    <3>1. bm[c] # Nothing
      BY <1>2, <2>2 DEF StartPatching, Make, Callable, Holds
    <3>2. bm'[c] \in {bm[c], With(bm[c], c)}
      BY <2>2 DEF StartPatching, StartSave, TypeOK
    <3> QED
      BY <1>5, <2>1, <3>1, <3>2, NothingTraceFree, WithTraceFree
  <2>3. CASE StartCreate(c, m)
    <3>1. bm'[c] \in {bm[c], [by |-> c, has |-> {}]}
      BY <2>3 DEF StartCreate, StartSave, TypeOK
    <3>2. TraceFree(v, [by |-> c, has |-> {}])
      BY <1>5, WithTraceFree
    <3> QED
      BY <1>5, <2>1, <3>1, <3>2, NothingTraceFree
  <2>4. CASE StartLoading(c, m) \/ StartWriting(c, m)
    <3>1. bm' = bm
      BY <2>4 DEF StartLoading, StartWriting
    <3> QED
      BY <1>5, <2>1, <3>1, NothingTraceFree
  <2> QED
    BY <2>2, <2>3, <2>4
<1> QED
  BY <1>1, <1>3, <1>4, <1>5, CleanMoves

LEMMA CleanStep ==
  ASSUME CInv, NEW c \in Client,
         \/ Begin(c) \/ Load(c) \/ Convert(c) \/ Check(c) \/ Abandon(c)
  PROVE  CInv'
<1> USE DEF CInv, SInv
<1>1. StepOK(c)
  BY BeginShape, LoadShape, ConvertShape, CheckShape, AbandonShape
<1>2. data' = data /\ calls' = calls /\ cfg' = cfg /\ pc \in [Client -> Pc]
  BY DEF Begin, Load, Convert, Check, Abandon, dbVars, TypeOK
<1>3. Untouched(c)' => Untouched(c)
  <2>1. CASE Begin(c)
    BY <1>2, <2>1 DEF Begin, Shape, Untouched
  <2>2. CASE Load(c) \/ Convert(c) \/ Check(c)
    <3>1. tx' = tx /\ pc[c] \in Saving \cup {"loading"}
      BY <2>2 DEF Load, Convert, Check, Saving
    <3> QED
      BY <1>2, <3>1 DEF Untouched
  <2>3. CASE Abandon(c)
    BY <1>2, <2>3 DEF Abandon, Untouched
  <2> QED
    BY <2>1, <2>2, <2>3
<1>4. ASSUME NEW v \in Client, v # c, TraceFree(v, bm[c]), NoTraceIn(v, buf[c]),
             \A i \in Id : TraceFree(v, data[i])
      PROVE  TraceFree(v, bm'[c]) /\ NoTraceIn(v, buf'[c])
  <2>1. buf'[c] \in {buf[c], <<>>} /\ bm \in [Client -> Row \cup {Nothing}]
    BY DEF Begin, Load, StartSave, Convert, Check, Abandon, Reject, TypeOK
  <2>2. TraceFree(v, bm'[c])
    <3>1. CASE ~Load(c)
      BY <1>4, <3>1 DEF Begin, Convert, Check, Abandon
    <3>2. CASE Load(c)
      <4> DEFINE row == data[call[c].id]
                 base == IF row = Nothing THEN [by |-> c, has |-> {}] ELSE row
      <4>1. row \in Row \cup {Nothing} /\ base \in Row /\ TraceFree(v, row)
        BY <1>4, SameState, NewIsRow DEF Database
      <4>2. TraceFree(v, base)
        BY <1>4, <4>1, WithTraceFree
      <4>3. TraceFree(v, With(base, c))
        BY <1>4, <4>1, <4>2, WithTraceFree
      <4>4. bm'[c] \in {bm[c], row, With(base, c)}
        BY <2>1, <3>2 DEF Load, StartSave
      <4> HIDE DEF row, base
      <4> QED
        BY <1>4, <4>1, <4>3, <4>4
    <3> QED
      BY <3>1, <3>2
  <2> QED
    BY <1>4, <2>1, <2>2, NothingTraceFree
<1> QED
  BY <1>1, <1>2, <1>3, <1>4, CleanMoves

LEMMA CleanWrites ==
  ASSUME CInv, NEW c \in Client, Send(c) \/ ChangeInPlace(c) \/ Commit(c)
  PROVE  CInv'
<1> USE DEF CInv, SInv
<1>1. StepOK(c)
  BY SendShape, ChangeInPlaceShape, CommitShape
<1>2. /\ pc \in [Client -> Pc] /\ buf \in [Client -> Seq(Write)] /\ data \in Database
      /\ tx \in [Client -> {"none", "own", "caller"}]
      /\ bm' = bm /\ calls' = calls /\ cfg' = cfg
  BY DEF TypeOK, Send, ChangeInPlace, Commit
<1>3. CASE Send(c)
  <2> DEFINE w == Request(c)
  <2>1. pc[c] = "writing" /\ call[c].kind \notin InPlace /\ tx' = tx /\ calls[c] # 0
    BY <1>3 DEF Send, InPlace, Shape, Saving
  <2>2. /\ w \in Write /\ w.row \in {Nothing, bm[c]}
        /\ cfg.immutable => Sendable(w)
        /\ w.why = "patch" => w.row # Nothing
    BY <2>1, RequestIsWrite
  <2>3. \A v \in Client : TraceFree(v, bm[c]) => TraceFree(v, w.row)
    BY <2>2, NothingTraceFree
  <2> HIDE DEF w
  <2>4. CASE buf' = [buf EXCEPT ![c] = buf[c] \o <<w>>] /\ UNCHANGED dbVars
    <3>1. Untouched(c)' => Untouched(c)
      BY <1>2, <2>1 DEF Untouched, Saving
    <3>2. \A v \in Client : TraceFree(v, bm[c]) /\ NoTraceIn(v, buf[c]) =>
                              NoTraceIn(v, buf[c] \o <<w>>)
      BY <2>2, <2>3, SameState, OneMoreWrite DEF NoTraceIn
    <3> QED
      BY <1>1, <1>2, <2>4, <3>1, <3>2, CleanMoves DEF dbVars
  <2>5. CASE /\ buf' = buf /\ ~Buffering(c) /\ Store(c, <<w>>, Applied(<<w>>, data))
             /\ pc' = [pc EXCEPT ![c] = Resolved(tx[c])]
    <3>1. ~Untouched(c)'
      BY <1>2, <2>1, <2>5 DEF Untouched, Buffering, Resolved, Saving
    <3>2. <<w>> \in Seq(Write) /\ Good(cfg.immutable, <<w>>)
          /\ \A k \in 1..Len(<<w>>) : <<w>>[k] = w
      BY <2>2, OneWrite
    <3>3. \A i \in Id : data'[i] \in {data[i], w.row}
      <4>1. data' = Applied(<<w>>, data)
        BY <2>5 DEF Store
      <4>2. \A i \in Id : \/ Applied(<<w>>, data)[i] = data[i]
                          \/ \E k \in 1..Len(<<w>>) : Applied(<<w>>, data)[i] = <<w>>[k].row
        BY <1>2, <3>2, AppliedRow
      <4> QED
        BY <3>2, <4>1, <4>2
    <3> QED
      BY <1>1, <1>2, <2>3, <2>5, <3>1, <3>3, CleanStored
  <2>6. CASE Reject(c) /\ UNCHANGED dbVars
    <3>1. Untouched(c)' => Untouched(c)
      BY <1>2, <2>1 DEF Untouched, Saving
    <3>2. buf'[c] = <<>>
      BY <1>2, <2>6 DEF Reject
    <3> QED
      BY <1>1, <1>2, <2>6, <3>1, <3>2, NothingTraceFree, CleanMoves DEF dbVars
  <2> QED
    BY <1>3, <2>4, <2>5, <2>6 DEF Send, ToTx, Goto, w
<1>4. CASE ChangeInPlace(c)
  <2>1. /\ pc'[c] = "ready" /\ tx' = tx /\ tx[c] = "none" /\ calls[c] # 0 /\ buf' = buf
    BY <1>2, <1>4 DEF ChangeInPlace, Goto, Shape, Saving, InPlace
  <2>2. ~Untouched(c)'
    BY <1>2, <2>1 DEF Untouched, Saving
  <2>3. ASSUME NEW v \in Client, v # c, NEW i \in Id, TraceFree(v, data[i])
        PROVE  TraceFree(v, data'[i])
    <3>1. \/ data'[i] = data[i]
          \/ data[i] # Nothing /\ data'[i] = With(data[i], c)
          \/ data'[i] = [by |-> c, has |-> {c}]
      BY <1>4, ChangedRow
    <3>2. data[i] \in Row \cup {Nothing}
      BY <1>2 DEF Database
    <3> QED
      BY <2>3, <3>1, <3>2, WithTraceFree
  <2> QED
    BY <1>1, <1>2, <2>1, <2>2, <2>3, CleanStored
<1>5. CASE Commit(c)
  <2>1. CASE /\ Reject(c) /\ UNCHANGED <<tx, reads, dbVars>>
             /\ (cfg.db = "isolated" /\ stale[c]) \/ Refused(buf[c], data)
    <3>1. buf'[c] = <<>> /\ pc'[c] = "rejected"
      BY <1>2, <2>1 DEF Reject, Goto
    <3>2. cfg.db # "fake"
      BY <1>2, <2>1, EmptyWrites DEF Shape, Buffering
    <3>3. Untouched(c)' => Untouched(c)
      BY <1>2, <1>5, <2>1, <3>2 DEF Commit, Untouched
    <3> QED
      BY <1>1, <1>2, <2>1, <3>1, <3>3, NothingTraceFree, CleanMoves DEF dbVars
  <2>2. CASE /\ Store(c, buf[c], Applied(buf[c], data))
             /\ Goto(c, IF tx[c] = "own" THEN "ready" ELSE "done")
             /\ tx' = [tx EXCEPT ![c] = "none"] /\ buf' = [buf EXCEPT ![c] = <<>>]
    <3>1. pc'[c] \in {"ready", "done"} /\ tx'[c] = "none" /\ buf'[c] = <<>>
      BY <1>2, <2>2 DEF Goto
    <3>2. Untouched(c)' => calls[c] = 0
      BY <1>2, <3>1 DEF Untouched, Saving
    <3>3. calls[c] = 0 => data' = data
      BY <1>2, <2>2, EmptyWrites DEF Store, Shape
    <3>4. \A i \in Id : data'[i] = data[i] \/ \E k \in 1..Len(buf[c]) : data'[i] = buf[c][k].row
      <4> DEFINE ws == buf[c]
      <4>1. ws \in Seq(Write) /\ Good(cfg.immutable, ws) /\ data \in Database
            /\ data' = Applied(ws, data)
        BY <2>2, SameState DEF Store
      <4> HIDE DEF ws
      <4>2. \A i \in Id : data'[i] = data[i] \/ \E k \in 1..Len(ws) : data'[i] = ws[k].row
        BY <4>1, AppliedRow
      <4> QED
        BY <4>2 DEF ws
    <3>5. Untouched(c)' => Untouched(c) /\ data' = data
      BY <3>2, <3>3 DEF Untouched
    <3> QED
      BY <1>1, <1>2, <3>1, <3>4, <3>5, CleanStored DEF NoTraceIn
  <2> QED
    BY <1>5, <2>1, <2>2 DEF Commit
<1> QED
  BY <1>3, <1>4, <1>5

(* What was rejected left nothing in the table.                             *)
THEOREM AlwaysFailedLeavesNothing == Spec => []FailedLeavesNothing
<1>1. Init => CInv
  <2> SUFFICES ASSUME Init
               PROVE  CInv
    OBVIOUS
  <2>1. SInv
    BY InitShape
  <2>2. ASSUME NEW c \in Client
        PROVE  Clean(c)
    <3>1. \A i \in Id : TraceFree(c, data[i])
      BY CommonDaoAssumption DEF Init, TraceFree
    <3>2. \A u \in Client : bm[u] = Nothing /\ buf[u] = <<>>
      BY DEF Init
    <3> QED
      BY <3>1, <3>2, NothingTraceFree DEF Clean
  <2> QED
    BY <2>1, <2>2 DEF CInv
<1>2. CInv /\ [Next]_vars => CInv'
  <2> SUFFICES ASSUME CInv, [Next]_vars
               PROVE  CInv'
    OBVIOUS
  <2>1. CASE UNCHANGED vars
    BY <2>1 DEF vars, CInv, SInv, TypeOK, Shape, Buffering, Allowed, Untouched, Clean,
       TraceFree, NoTraceIn
  <2>2. CASE Next
    BY <2>2, CleanStarts, CleanStep, CleanWrites DEF Next
  <2> QED
    BY <2>1, <2>2
<1>3. CInv => FailedLeavesNothing
  <2> SUFFICES ASSUME CInv, NEW c \in Client, pc[c] = "rejected",
                      IF tx[c] = "caller" THEN cfg.db # "fake" ELSE calls[c] = 1
               PROVE  NoTrace(c)
    BY DEF FailedLeavesNothing
  <2>1. Untouched(c)
    BY DEF Untouched
  <2> QED
    BY <2>1 DEF CInv, Clean, NoTrace, TraceFree
<1> QED
  BY <1>1, <1>2, <1>3, PTL DEF Spec
=============================================================================
