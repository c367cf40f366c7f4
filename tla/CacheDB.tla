------------------------------ MODULE CacheDB -------------------------------
(***************************************************************************)
(* db-lib/src/adapter/cachedb/cache.db.ts: CacheDB, a cache in front of a   *)
(* downstream CommonDB.  The downstream answers some time after it has      *)
(* executed a request, or fails, with or without having executed it; the    *)
(* cache is an InMemoryDB, which executes a request when it is made.  Each  *)
(* runs a query on the rows it has itself.  A row is the name of the client *)
(* that wrote it last; a query is about the rows of `ids` whose value is in *)
(* `of`.                                                                    *)
(***************************************************************************)
EXTENDS StoreClients

CONSTANT CacheCall  \* the calls a client may make

CacheKind == {"getByIds", "saveBatch", "runQuery", "deleteByQuery", "patchByQuery"}
CacheOpt == {"skipCache", "onlyCache",
             "insert", "update",  \* saveMethod, which read fills get as well
             "limited",           \* a query with a limit or an offset
             "projected"}         \* a query that selects fields
Writer == Client \cup {Nobody}
CacheCalls == [kind : CacheKind, ids : SUBSET Id, of : SUBSET Writer, opts : SUBSET CacheOpt]

ASSUME CacheDBAssumption == CacheCall \subseteq CacheCalls

VARIABLES ccfg,     \* awaitCache, skipCache, onlyCache of the cfg
          down,     \* the downstream table
          cache,    \* the cache's table
          cpc,      \* where each client is
          ccall,    \* the call it is making, or made last
          ccalls,   \* how many it made
          found,    \* the rows it has got so far
          touched,  \* the ids its request wrote, or found rows of, downstream
          there,    \* history: ids whose row downstream has been one the call is
                    \* about ever since it was made
          contested, \* history: ids another call wrote to or wrote while it was under way
          tainted   \* history: ids about which the cache may be wrong

cacheVars == <<ccfg, down, cache, cpc, ccall, ccalls, found, touched, there,
               contested, tainted>>

Table == [Id -> Writer \cup {Nothing}]
NoRows == [i \in Id |-> Nothing]

CacheTypeOK ==
  /\ ccfg \in [awaitCache : BOOLEAN, skipCache : BOOLEAN, onlyCache : BOOLEAN]
  /\ down \in Table
  /\ cache \in Table
  /\ cpc \in [Client -> {"idle", "asked", "answered", "resolved", "rejected"}]
  /\ ccall \in [Client -> CacheCalls]
  /\ ccalls \in [Client -> 0..MaxCalls]
  /\ found \in [Client -> Table]
  /\ touched \in [Client -> SUBSET Id]
  /\ there \in [Client -> SUBSET Id]
  /\ contested \in [Client -> SUBSET Id]
  /\ tainted \subseteq Id

CacheInit ==
  /\ ccfg \in [awaitCache : BOOLEAN, skipCache : BOOLEAN, onlyCache : BOOLEAN]
  /\ down \in [Id -> {Nobody, Nothing}]
  /\ cache = NoRows
  /\ cpc = [c \in Client |-> "idle"]
  /\ ccall = [c \in Client |-> [kind |-> "getByIds", ids |-> {}, of |-> {}, opts |-> {}]]
  /\ ccalls = [c \in Client |-> 0]
  /\ found = [c \in Client |-> NoRows]
  /\ touched = [c \in Client |-> {}]
  /\ there = [c \in Client |-> {}]
  /\ contested = [c \in Client |-> {}]
  /\ tainted = {}

-----------------------------------------------------------------------------
SkipsCache(m) == "skipCache" \in m.opts \/ ccfg.skipCache
OnlyCache(m) == "onlyCache" \in m.opts \/ ccfg.onlyCache
IsWrite(m) == m.kind \in {"saveBatch", "deleteByQuery", "patchByQuery"}
IsQuery(m) == m.kind \in {"runQuery", "deleteByQuery", "patchByQuery"}
UnderWay(c) == cpc[c] \in {"asked", "answered"}

Rows(ids, t) == {i \in ids : t[i] # Nothing}

\* The ids whose rows in t the call m is about.
Selected(m, t) == {i \in Rows(m.ids, t) : IsQuery(m) => t[i] \in m.of}

\* What m, run on t, comes to: with a limit or an offset, which of the rows
\* depends on the order they are in.
Picks(m, t) == IF "limited" \in m.opts THEN SUBSET Selected(m, t) ELSE {Selected(m, t)}

\* The ids that a write m of c may change in t.
Targets(m, t) == IF m.kind = "saveBatch" THEN {m.ids} ELSE Picks(m, t)

\* The ids of a batch for S that make t refuse it, by its saveMethod.
Obstacles(m, S, t) ==
  IF m.kind \in {"deleteByQuery", "patchByQuery"} THEN {}
  ELSE {i \in S : \/ "insert" \in m.opts /\ t[i] # Nothing
                  \/ "update" \in m.opts /\ t[i] = Nothing}

\* How far a batch for S gets in t: to the first row that throws.
Reached(m, S, t) ==
  IF Obstacles(m, S, t) = {} THEN {S} ELSE SUBSET (S \ Obstacles(m, S, t))

\* The table t after what m, by c, does to the rows of S: for a read, that
\* they are saved.
Effect(m, c, S, t) ==
  [i \in Id |-> IF i \notin S THEN t[i]
                ELSE CASE m.kind = "deleteByQuery" -> Nothing
                       [] m.kind \in {"saveBatch", "patchByQuery"} -> c
                       [] OTHER -> found[c][i]]

\* Mutant: the downstream is asked only when the cache has none of the rows.
Missing_AllOrNone(ids) == IF Rows(ids, cache) = {} THEN ids ELSE {}
\* The ids of a getByIds that the cache has no row of.
Missing(ids) == ids \ Rows(ids, cache)

\* The other calls that m, when c makes it, overlaps with.
Rivals(c, m) == {u \in Client \ {c} : UnderWay(u) /\ (IsWrite(m) \/ IsWrite(ccall[u]))}

\* c makes the call m, and gets to pc with the rows got.
CacheMake(c, m, got, pc) ==
  /\ ~UnderWay(c)
  /\ ccalls[c] < MaxCalls
  /\ ccalls' = [ccalls EXCEPT ![c] = @ + 1]
  /\ ccall' = [ccall EXCEPT ![c] = m]
  /\ cpc' = [cpc EXCEPT ![c] = pc]
  /\ found' = [found EXCEPT ![c] = got]
  /\ touched' = [touched EXCEPT ![c] = {}]
  /\ there' = [there EXCEPT ![c] = Selected(m, down)]
  /\ contested' = [u \in Client |->
       IF u = c THEN m.ids \cap UNION {ccall[v].ids : v \in Rivals(c, m)}
       ELSE IF u \in Rivals(c, m) THEN contested[u] \cup (ccall[u].ids \cap m.ids)
       ELSE contested[u]]
  /\ UNCHANGED <<ccfg, down>>

\* getByIds: what is not in the cache is asked downstream, unless the cache
\* is skipped: then nothing is missing, and nothing is found.
GetByIds(c, m) ==
  LET missing == IF SkipsCache(m) THEN {} ELSE Missing(m.ids)
      got == IF SkipsCache(m) THEN NoRows
             ELSE [i \in Id |-> IF i \in m.ids THEN cache[i] ELSE Nothing] IN
  /\ m.kind = "getByIds"
  /\ CacheMake(c, m, got, IF missing # {} /\ ~OnlyCache(m) THEN "asked" ELSE "resolved")
  /\ UNCHANGED <<cache, tainted>>

\* runQuery: always downstream, unless only the cache is to be asked.
RunQuery(c, m) ==
  /\ m.kind = "runQuery"
  /\ \/ /\ ~OnlyCache(m)
        /\ CacheMake(c, m, NoRows, "asked")
     \/ /\ OnlyCache(m) /\ SkipsCache(m)
        /\ CacheMake(c, m, NoRows, "resolved")
     \/ /\ OnlyCache(m) /\ ~SkipsCache(m)
        /\ \E S \in Picks(m, cache) :
             CacheMake(c, m, [i \in Id |-> IF i \in S THEN cache[i] ELSE Nothing], "resolved")
  /\ UNCHANGED <<cache, tainted>>

\* saveBatch, deleteByQuery, patchByQuery: downstream first.
Change(c, m) ==
  /\ IsWrite(m)
  /\ \/ /\ ~OnlyCache(m)
        /\ CacheMake(c, m, NoRows, "asked")
        /\ UNCHANGED <<cache, tainted>>
     \/ /\ OnlyCache(m) /\ SkipsCache(m)
        /\ CacheMake(c, m, NoRows, "resolved")
        /\ UNCHANGED <<cache, tainted>>
     \/ /\ OnlyCache(m) /\ ~SkipsCache(m)
        /\ \E S \in Targets(m, cache) : \E P \in Reached(m, S, cache) :
             /\ CacheMake(c, m, NoRows,
                          IF Obstacles(m, S, cache) # {} /\ ccfg.awaitCache
                          THEN "rejected" ELSE "resolved")
             /\ cache' = Effect(m, c, P, cache)
             /\ tainted' = tainted \cup P

-----------------------------------------------------------------------------
\* The downstream has changed to t.
DownBecomes(t) ==
  /\ down' = t
  /\ there' = [u \in Client |-> there[u] \cap Selected(ccall[u], t)]

\* The downstream executes c's read.
ExecuteRead(c) ==
  LET m == ccall[c] IN
  /\ cpc[c] = "asked" /\ ~IsWrite(m)
  /\ cpc' = [cpc EXCEPT ![c] = "answered"]
  /\ \E S \in Picks([m EXCEPT !.ids = m.ids \ Rows(Id, found[c])], down) :
       /\ found' = [found EXCEPT ![c] = [i \in Id |-> IF i \in S THEN down[i] ELSE found[c][i]]]
       /\ touched' = [touched EXCEPT ![c] = S]
  /\ UNCHANGED <<ccfg, down, cache, ccall, ccalls, there, contested, tainted>>

\* The downstream executes c's write.
ExecuteWrite(c) ==
  LET m == ccall[c] IN
  /\ cpc[c] = "asked" /\ IsWrite(m)
  /\ cpc' = [cpc EXCEPT ![c] = "answered"]
  /\ \E S \in Targets(m, down) :
       /\ Obstacles(m, S, down) = {}
       /\ DownBecomes(Effect(m, c, S, down))
       /\ touched' = [touched EXCEPT ![c] = S]
  /\ UNCHANGED <<ccfg, cache, ccall, ccalls, found, contested, tainted>>

\* The downstream refuses c's request or fails: before it executes it, with a
\* part of it executed, or after.
Fail(c) ==
  LET m == ccall[c]
      part == IF cpc[c] = "asked" /\ IsWrite(m)
              THEN UNION {SUBSET (S \ Obstacles(m, S, down)) : S \in Targets(m, down)}
              ELSE {{}} IN
  /\ UnderWay(c)
  /\ cpc' = [cpc EXCEPT ![c] = "rejected"]
  /\ \E P \in part :
       /\ DownBecomes(Effect(m, c, P, down))
       /\ tainted' = tainted \cup contested[c] \cup (IF IsWrite(m) THEN touched[c] \cup P ELSE {})
  /\ UNCHANGED <<ccfg, cache, ccall, ccalls, found, touched, contested>>

\* Mutant: an answer to deleteByQuery leaves the cache alone.
Caches_NoDelete(m) == ~SkipsCache(m) /\ m.kind # "deleteByQuery"
\* The answers that change the cache.  A query's do so with skipCache in the cfg.
Caches(m) == IF m.kind = "runQuery" THEN m.opts \cap {"skipCache", "projected"} = {}
             ELSE ~SkipsCache(m)

\* The answer from downstream arrives, the cache is brought up to date: what
\* was read is saved in it, a write is made to it as well.
Answer(c) ==
  LET m == ccall[c] IN
  /\ cpc[c] = "answered"
  /\ \E S \in IF ~Caches(m) THEN {{}} ELSE IF IsWrite(m) THEN Targets(m, cache) ELSE {touched[c]} :
       LET refused == Obstacles(m, S, cache) # {} IN
       \E P \in Reached(m, S, cache) :
         /\ cache' = Effect(m, c, P, cache)
         /\ cpc' = [cpc EXCEPT ![c] = IF refused /\ ccfg.awaitCache THEN "rejected" ELSE "resolved"]
         /\ tainted' = (tainted \ (IF m.kind = "patchByQuery" THEN {} ELSE P))
              \cup contested[c]
              \cup (IF IsWrite(m) /\ (SkipsCache(m) \/ refused) THEN touched[c] \ P ELSE {})
              \cup (IF IsWrite(m) /\ "limited" \in m.opts THEN touched[c] \cup P ELSE {})
  /\ UNCHANGED <<ccfg, down, ccall, ccalls, found, touched, there, contested>>

CacheNext ==
  \E c \in Client :
    \/ \E m \in CacheCall : GetByIds(c, m) \/ RunQuery(c, m) \/ Change(c, m)
    \/ ExecuteRead(c) \/ ExecuteWrite(c) \/ Fail(c) \/ Answer(c)

CacheSpec == CacheInit /\ [][CacheNext]_cacheVars

-----------------------------------------------------------------------------
(* The cache agrees with the downstream about every row it has.  Calls made *)
(* one after the other keep it so, whatever it holds, also after the        *)
(* downstream fails a read (cache.db.ts:83-156, 244-293).  It may be wrong, *)
(* until it next saves or deletes the row, about the rows of                *)
(*  - calls that overlapped, one of them a write;                           *)
(*  - writes that failed downstream, with or without an effect;             *)
(*  - writes with skipCache or onlyCache;                                   *)
(*  - deletes and patches by a query with a limit or an offset: they select *)
(*    other rows in the cache, which has only some (:249/258, 284/288);     *)
(*  - inserts and updates that the downstream took and the cache refused,   *)
(*    at a row it still has or does not have: it writes none of the batch   *)
(*    from there on (inMemory.db.ts:193-199).                               *)
CacheCoherent ==
  \A i \in Id \ tainted :
    (\A c \in Client : UnderWay(c) /\ IsWrite(ccall[c]) => i \notin ccall[c].ids)
      => cache[i] \in {Nothing, down[i]}

(* A read that may ask downstream does not miss a row that was there and    *)
(* among those it is about all the while (cache.db.ts:83-127, 158-186),     *)
(* unless it is a query with a limit, or a getByIds that skips the cache:   *)
(* that one asks nobody (cache.db.ts:94, 120).                              *)
CachedReadsFindRows ==
  \A c \in Client :
    cpc[c] = "resolved" /\ ~IsWrite(ccall[c]) /\ ~OnlyCache(ccall[c])
      /\ "limited" \notin ccall[c].opts
      /\ (ccall[c].kind = "getByIds" => ~SkipsCache(ccall[c]))
      => \A i \in ccall[c].ids \cap there[c] : found[c][i] # Nothing
=============================================================================
