----------------------------- MODULE CommonDao ------------------------------
(***************************************************************************)
(* db-lib/src/commondao/common.dao.ts: CommonDao and CommonDaoTransaction    *)
(* over a CommonDB.  Clients make calls on one dao; each await of a call is *)
(* a place where the others run.                                            *)
(*                                                                          *)
(* A row is told apart by who created it and whose changes it contains.     *)
(* The database is used through its interface only: every request to it     *)
(* is atomic, and its transactions are one of                               *)
(*   "fake"      BaseCommonDB's FakeDBTransaction, which writes at once,    *)
(*   "buffered"  writes wait for commit(), which checks no reads (a commit  *)
(*               taken as one step; InMemoryDB has the steps of a real one),*)
(*   "isolated"  commit() also fails if a row the transaction read changed. *)
(***************************************************************************)
EXTENDS Naturals, Sequences

CONSTANTS Client,
          Id,
          Call,     \* the calls a client may make
          MaxCalls, \* bound on the calls of a client
          Nobody,   \* the creator of the rows that are there at the start
          Nothing   \* no row

Kind == {"getById", "create", "patchById", "optimistic", "txPatch", "delete",
         "patchByIds", "increment"}
Opt == {"ensureUniqueId", "asDBM", "createIfMissing", "allowMutability"}
Method == {"insert", "update", "upsert", "unset"}  \* opt.saveMethod
Calls == [kind : Kind, id : Id, opts : SUBSET Opt, saveMethod : Method]

ASSUME CommonDaoAssumption ==
  /\ Call \subseteq Calls
  /\ Id # {}
  /\ MaxCalls \in Nat
  /\ Nobody \notin Client

Row == [by : Client \cup {Nobody}, has : SUBSET Client]

ASSUME NothingAssumption == Nothing \notin Row

Database == [Id -> Row \cup {Nothing}]

\* A write that a transaction buffers.  The last two are history: what it is
\* for, and whether its call overrides the dao's `immutable`.
Write == [type : {"upsert", "insert", "update", "delete"}, id : Id, row : Row \cup {Nothing},
          why : {"patch", "blind", "new"}, overrides : BOOLEAN]

VARIABLES cfg,       \* the dao's cfg, and the kind of its db's transactions
          data,      \* the table
          pc,        \* where each client is
          call,      \* the call it is making, or made last
          calls,     \* how many it made
          tx,        \* the transaction it is in: none, its own call's, or the caller's
          bm,        \* the object it holds
          buf,       \* the writes its transaction has buffered
          reads,     \* the rows its transaction has read
          stale,     \* one of those has changed since
          present,   \* history: ids that have had a row since the call was made
          lost,      \* history: <<whose change, which patch removed it>>
          clobbered  \* history: <<client, id>> of the rows a new object replaced

vars == <<cfg, data, pc, call, calls, tx, bm, buf, reads, stale, present, lost, clobbered>>

Cfg == [db : {"fake", "buffered", "isolated"}, readOnly : BOOLEAN,
        immutable : BOOLEAN, patchInTransaction : BOOLEAN, beforeSave : BOOLEAN]
Pc == {"idle", "ready", "loading", "converting", "checking", "writing",
       "committing", "done", "rejected"}

TypeOK ==
  /\ cfg \in Cfg
  /\ data \in Database
  /\ pc \in [Client -> Pc]
  /\ call \in [Client -> Calls]
  /\ calls \in [Client -> 0..MaxCalls]
  /\ tx \in [Client -> {"none", "own", "caller"}]
  /\ bm \in [Client -> Row \cup {Nothing}]
  /\ buf \in [Client -> Seq(Write)]
  /\ reads \in [Client -> SUBSET Id]
  /\ stale \in [Client -> BOOLEAN]
  /\ present \in [Client -> SUBSET Id]
  /\ lost \subseteq Client \X Client
  /\ clobbered \subseteq Client \X Id

NoCall == [kind |-> "getById", id |-> CHOOSE i \in Id : TRUE, opts |-> {}, saveMethod |-> "unset"]

Init ==
  /\ cfg \in Cfg
  /\ data \in [Id -> {Nothing, [by |-> Nobody, has |-> {}]}]
  /\ pc = [c \in Client |-> "idle"]
  /\ call = [c \in Client |-> NoCall]
  /\ calls = [c \in Client |-> 0]
  /\ tx = [c \in Client |-> "none"]
  /\ bm = [c \in Client |-> Nothing]
  /\ buf = [c \in Client |-> <<>>]
  /\ reads = [c \in Client |-> {}]
  /\ stale = [c \in Client |-> FALSE]
  /\ present = [c \in Client |-> {}]
  /\ lost = {}
  /\ clobbered = {}

-----------------------------------------------------------------------------
(* The database: what a list of writes does to the table d.                 *)

Writes(ws, i) == {k \in 1..Len(ws) : ws[k].id = i}

\* The row of id i once the writes before the k-th are applied.
RowBefore(ws, k, i, d) ==
  LET earlier == {j \in Writes(ws, i) : j < k} IN
  IF earlier = {} THEN d[i]
  ELSE ws[CHOOSE j \in earlier : \A h \in earlier : h <= j].row

Applied(ws, d) == [i \in Id |-> RowBefore(ws, Len(ws) + 1, i, d)]

\* An insert of a row that exists throws, and so does an update of one that
\* does not.
Refused(ws, d) ==
  \E k \in 1..Len(ws) : LET row == RowBefore(ws, k, ws[k].id, d) IN
    \/ ws[k].type = "insert" /\ row # Nothing
    \/ ws[k].type = "update" /\ row = Nothing

\* c's writes ws reach the table, which is d from now on.
Store(c, ws, d) ==
  /\ data' = d
  /\ stale' = [u \in Client |-> u # c /\ (stale[u] \/ \E i \in reads[u] : d[i] # data[i])]
  /\ present' = [u \in Client |-> {i \in present[u] : d[i] # Nothing}]
  /\ lost' = lost \cup {<<u, c>> : u \in
       {v \in Client : \E k \in 1..Len(ws) : LET w == ws[k] IN
          w.why = "patch" /\ data[w.id] # Nothing /\ v \in data[w.id].has \ w.row.has}}
  /\ clobbered' = clobbered \cup {<<c, i>> : i \in
       {j \in present[c] : \E k \in 1..Len(ws) : ws[k].id = j /\ ws[k].why = "new"}}

dbVars == <<data, stale, present, lost, clobbered>>

-----------------------------------------------------------------------------
(* Calls                                                                    *)

\* (opt.tx || cfg.db) is a transaction that keeps the writes for its commit().
Buffering(c) == tx[c] # "none" /\ cfg.db # "fake"

\* A call that resolves: in a transaction of its own, the commit comes next.
Resolved(t) == IF t = "own" THEN "committing" ELSE "ready"

Goto(c, where) == pc' = [pc EXCEPT ![c] = where]

\* A call that rejects: runInTransaction rolls back what was buffered.
Reject(c) == Goto(c, "rejected") /\ buf' = [buf EXCEPT ![c] = <<>>]

Patching == {"patchById", "optimistic", "txPatch"}

\* requireWriteAccess, and requireObjectMutability of what is no save.
Allowed(m) ==
  /\ m.kind # "getById" => ~cfg.readOnly
  /\ m.kind \in {"delete", "patchByIds", "increment"} =>
       ~cfg.immutable \/ "allowMutability" \in m.opts

\* The object a client holds, and patches without loading it again.
Holds(c, m) == /\ bm[c] # Nothing
               /\ call[c].id = m.id
               /\ m.kind = "optimistic" =>
                    call[c].kind \in {"getById", "patchById", "create", "optimistic"}
               /\ m.kind = "txPatch" => call[c].kind \in {"getById", "patchById", "txPatch"}

\* What the caller may ask for: inside a transaction, CommonDaoTransaction's methods.
Callable(c, m) ==
  /\ m.kind \in {"optimistic", "txPatch"} => Holds(c, m)
  /\ m.kind = "txPatch" => tx[c] = "caller"
  /\ m.kind \in {"patchByIds", "increment", "optimistic"} => tx[c] = "none"

\* The client starts a transaction, or will do without one.
Begin(c) ==
  /\ pc[c] = "idle"
  /\ \E t \in {"none", "caller"} : tx' = [tx EXCEPT ![c] = t]
  /\ Goto(c, "ready")
  /\ UNCHANGED <<cfg, call, calls, bm, buf, reads, dbVars>>

\* The first stretch of a call, up to its first await.
Make(c, m) ==
  /\ pc[c] = "ready"
  /\ calls[c] < MaxCalls
  /\ Callable(c, m)
  /\ calls' = [calls EXCEPT ![c] = @ + 1]
  /\ call' = [call EXCEPT ![c] = m]
  /\ tx' = [tx EXCEPT ![c] = IF @ = "none" /\ m.kind \in Patching /\ cfg.patchInTransaction
                             THEN "own" ELSE @]
  /\ present' = [present EXCEPT ![c] = {i \in Id : data[i] # Nothing} \ {buf[c][k].id : k \in 1..Len(buf[c])}]
  /\ UNCHANGED <<cfg, reads, data, stale, lost, clobbered>>

\* save(bm), once the object is known: the part before its first await.
StartSave(c, row, next) ==
  \/ /\ cfg.readOnly
     /\ Reject(c)
     /\ UNCHANGED bm
  \/ /\ ~cfg.readOnly
     /\ bm' = [bm EXCEPT ![c] = row]
     /\ Goto(c, next)
     /\ UNCHANGED buf

With(row, c) == [by |-> row.by, has |-> row.has \cup {c}]

\* getById and patchById begin by loading the row.
StartLoading(c, m) ==
  /\ m.kind \in {"getById", "patchById"}
  /\ Make(c, m)
  /\ Goto(c, "loading")
  /\ UNCHANGED <<bm, buf>>

\* patch() with skipDBRead, and CommonDaoTransaction.patch: nothing to save
\* if the object has the change already.
StartPatching(c, m) ==
  /\ m.kind \in {"optimistic", "txPatch"}
  /\ Make(c, m)
  /\ \/ /\ c \in bm[c].has
        /\ m.kind = "txPatch" => ~cfg.readOnly
        /\ Goto(c, Resolved(tx'[c]))
        /\ UNCHANGED <<bm, buf>>
     \/ /\ c \notin bm[c].has \/ (m.kind = "txPatch" /\ cfg.readOnly)
        /\ StartSave(c, With(bm[c], c), "converting")

\* save() or saveAsDBM() of an object without an id, which gets m.id.
StartCreate(c, m) ==
  /\ m.kind = "create"
  /\ Make(c, m)
  /\ StartSave(c, [by |-> c, has |-> {}],
               IF {"asDBM", "ensureUniqueId"} \subseteq m.opts THEN "checking" ELSE "converting")

StartWriting(c, m) ==
  /\ m.kind \in {"delete", "patchByIds", "increment"}
  /\ Make(c, m)
  /\ \/ /\ Allowed(m)
        /\ Goto(c, "writing")
        /\ UNCHANGED buf
     \/ /\ ~Allowed(m)
        /\ Reject(c)
  /\ UNCHANGED bm

-----------------------------------------------------------------------------
(* The rest of a call, from one await to the next                           *)

\* Mutant: patchById forgets to pass its transaction on to getById.
ReadsIn_Db(c) == reads
\* A read in a transaction is known to it.
ReadsIn(c) == IF Buffering(c) THEN [reads EXCEPT ![c] = @ \cup {call[c].id}] ELSE reads

\* The answer to the getByIds of getById and patchById: with createIfMissing
\* the latter goes on with a new object.
Load(c) ==
  LET row == data[call[c].id]
      isGet == call[c].kind = "getById"
      create == "createIfMissing" \in call[c].opts
      base == IF row = Nothing THEN [by |-> c, has |-> {}] ELSE row IN
  /\ pc[c] = "loading"
  /\ \/ /\ Buffering(c) /\ buf[c] # <<>>  \* a read after a write
        /\ Reject(c)
        /\ UNCHANGED <<bm, reads>>
     \/ /\ ~(Buffering(c) /\ buf[c] # <<>>)
        /\ reads' = ReadsIn(c)
        /\ \/ /\ isGet \/ (row # Nothing /\ c \in row.has)
              /\ bm' = [bm EXCEPT ![c] = row]
              /\ Goto(c, Resolved(tx[c]))
              /\ UNCHANGED buf
           \/ /\ ~isGet /\ row = Nothing /\ ~create
              /\ Reject(c)
              /\ UNCHANGED bm
           \/ /\ ~isGet /\ (IF row = Nothing THEN create ELSE c \notin row.has)
              /\ StartSave(c, With(base, c), "converting")
  /\ UNCHANGED <<cfg, call, calls, tx, dbVars>>

\* bmToDBM and the beforeSave hook, which may drop the object.
Convert(c) ==
  /\ pc[c] = "converting"
  /\ \/ /\ cfg.beforeSave
        /\ Goto(c, Resolved(tx[c]))
     \/ Goto(c, IF /\ "ensureUniqueId" \in call[c].opts /\ call[c].kind = "create"
                   /\ "asDBM" \notin call[c].opts
                THEN "checking" ELSE "writing")
  /\ UNCHANGED <<cfg, call, calls, tx, bm, buf, reads, dbVars>>

\* Mutant: the id is taken whatever is found.
Taken_Never(i) == FALSE
Taken(i) == data[i] # Nothing

\* ensureUniqueId: asks the db, in a transaction too.
Check(c) ==
  /\ pc[c] = "checking"
  /\ \/ /\ Taken(call[c].id)
        /\ Reject(c)
     \/ /\ ~Taken(call[c].id)
        /\ Goto(c, IF "asDBM" \in call[c].opts THEN "converting" ELSE "writing")
        /\ UNCHANGED buf
  /\ UNCHANGED <<cfg, call, calls, tx, bm, reads, dbVars>>

\* Mutant: an immutable dao saves like any other.
SaveMethod_Upsert(m) == "upsert"
\* The caller's own saveMethod comes first; a database upserts by default.
SaveMethod(m) ==
  IF m.saveMethod # "unset" THEN m.saveMethod
  ELSE IF cfg.immutable /\ "allowMutability" \notin m.opts THEN "insert" ELSE "upsert"

\* m asks for a change of rows in spite of the dao's `immutable`.
Overrides(m) ==
  \/ "allowMutability" \in m.opts
  \/ /\ m.kind \notin {"delete", "patchByIds", "increment"}
     /\ m.saveMethod \in {"update", "upsert"}

\* The request a save or a delete sends.
Request(c) ==
  LET k == call[c].kind
      opts == call[c].opts IN
  [type |-> IF k = "delete" THEN "delete" ELSE SaveMethod(call[c]),
   id   |-> call[c].id,
   row  |-> IF k = "delete" THEN Nothing ELSE bm[c],
   why  |-> CASE k \in {"patchById", "txPatch"} -> "patch"
              [] k = "create" /\ "ensureUniqueId" \in opts -> "new"
              [] OTHER -> "blind",
   overrides |-> Overrides(call[c])]

\* Mutant: save() sends its write to the db, not to its transaction.
ToTx_Never(c) == FALSE
ToTx(c) == Buffering(c)

\* saveBatch or deleteByIds of (opt.tx || cfg.db).
Send(c) ==
  LET ws == <<Request(c)>> IN
  /\ pc[c] = "writing"
  /\ call[c].kind \notin {"patchByIds", "increment"}
  /\ \/ /\ ToTx(c)
        /\ buf' = [buf EXCEPT ![c] = @ \o ws]
        /\ Goto(c, Resolved(tx[c]))
        /\ UNCHANGED dbVars
     \/ /\ ~ToTx(c) /\ ~Refused(ws, data)
        /\ Store(c, ws, Applied(ws, data))
        /\ Goto(c, Resolved(tx[c]))
        /\ UNCHANGED buf
     \/ /\ ~ToTx(c) /\ Refused(ws, data)
        /\ Reject(c)
        /\ UNCHANGED dbVars
  /\ UNCHANGED <<cfg, call, calls, tx, bm, reads>>

\* patchByQuery and incrementBatch of the db: one request changes the row in
\* place; incrementing a row that is not there makes one.
ChangeInPlace(c) ==
  LET i == call[c].id IN
  /\ pc[c] = "writing"
  /\ call[c].kind \in {"patchByIds", "increment"}
  /\ Store(c, <<>>, CASE data[i] # Nothing -> [data EXCEPT ![i] = With(data[i], c)]
                      [] data[i] = Nothing /\ call[c].kind = "increment" ->
                           [data EXCEPT ![i] = [by |-> c, has |-> {c}]]
                      [] OTHER -> data)
  /\ Goto(c, "ready")
  /\ UNCHANGED <<cfg, call, calls, tx, bm, buf, reads>>

-----------------------------------------------------------------------------
\* fn resolved, and the db commits: an isolated transaction fails if a row it
\* read has changed since.
Commit(c) ==
  LET ws == buf[c]
      fails == \/ cfg.db = "isolated" /\ stale[c]
               \/ Refused(ws, data) IN
  /\ \/ tx[c] = "own" /\ pc[c] = "committing"
     \/ tx[c] = "caller" /\ pc[c] = "ready"
  /\ \/ /\ fails
        /\ Reject(c)
        /\ UNCHANGED <<tx, reads, dbVars>>
     \/ /\ ~fails
        /\ Store(c, ws, Applied(ws, data))
        /\ Goto(c, IF tx[c] = "own" THEN "ready" ELSE "done")
        /\ tx' = [tx EXCEPT ![c] = "none"]
        /\ buf' = [buf EXCEPT ![c] = <<>>]
        /\ reads' = [reads EXCEPT ![c] = {}]
  /\ UNCHANGED <<cfg, call, calls, bm>>

\* fn, the caller's function, rejects for a reason of its own.
Abandon(c) ==
  /\ tx[c] = "caller" /\ pc[c] = "ready"
  /\ Reject(c)
  /\ UNCHANGED <<cfg, call, calls, tx, bm, reads, dbVars>>

Next ==
  \E c \in Client :
    \/ Begin(c)
    \/ \E m \in Call : \/ StartLoading(c, m) \/ StartPatching(c, m)
                       \/ StartCreate(c, m) \/ StartWriting(c, m)
    \/ Load(c) \/ Convert(c) \/ Check(c) \/ Send(c) \/ ChangeInPlace(c)
    \/ Commit(c) \/ Abandon(c)

Spec == Init /\ [][Next]_vars

-----------------------------------------------------------------------------
(* Where the database's transactions are isolated, a dao that patches in    *)
(* transactions never undoes the change of another client: patchById and    *)
(* patch load, merge and save in one, CommonDaoTransaction.patch saves what *)
(* was loaded in its own (common.dao.ts:657-770, 1502-1511).                *)
PatchesKept == cfg.db = "isolated" /\ cfg.patchInTransaction => lost = {}

(* With ensureUniqueId a new object never takes the id of a row that has    *)
(* been there since the call, whatever happened in between                  *)
(* (common.dao.ts:243-252, 800, 832).                                       *)
FreshIds == clobbered = {}

\* Nothing in the table comes from c.
NoTrace(c) ==
  \A i \in Id : data[i] # Nothing => data[i].by # c /\ c \notin data[i].has

(* What was rejected left nothing in the table: a first call in no          *)
(* transaction of the caller, or all that a transaction that is no fake one *)
(* did (common.dao.ts:1316-1334).                                           *)
FailedLeavesNothing ==
  \A c \in Client :
    pc[c] = "rejected" /\ (IF tx[c] = "caller" THEN cfg.db # "fake" ELSE calls[c] = 1)
      => NoTrace(c)

(* A read-only dao writes nothing.  A row of an immutable one stays as it   *)
(* was written until a call that overrides that, by opt.allowMutability or  *)
(* a saveMethod of its own ("You can still override saveMethod, or set      *)
(* opt.allowMutability", common.dao.model.ts:157-171), changes it, or the   *)
(* commit of a transaction with such a call in it does: all the other calls *)
(* throw, or insert, which a database refuses where there is a row          *)
(* (common.dao.ts:224-241, 801, 834).                                       *)
ProtectedRowsStay ==
  [][/\ cfg.readOnly => data' = data
     /\ cfg.immutable => \A c \in Client : \A i \in Id :
          pc'[c] # pc[c] /\ data[i] # Nothing /\ data'[i] # data[i] =>
            \/ call[c].id = i /\ Overrides(call[c])
            \/ \E k \in 1..Len(buf[c]) : buf[c][k].id = i /\ buf[c][k].overrides]_vars
=============================================================================
