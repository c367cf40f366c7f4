---------------------------- MODULE StorageProofs ---------------------------
(* What CacheDB's cache, FileDB's file and InMemoryDB's directory hold: for *)
(* any clients, rows, tables and numbers of calls, versions, flushes and    *)
(* crashes.                                                                 *)
EXTENDS CacheDB, FileDB, InMemoryDBDisk, TLAPS

-----------------------------------------------------------------------------
(* CacheDB                                                                   *)

CacheTypes ==
  /\ ccfg \in [awaitCache : BOOLEAN, skipCache : BOOLEAN, onlyCache : BOOLEAN]
  /\ down \in Table
  /\ cache \in Table
  /\ cpc \in [Client -> {"idle", "asked", "answered", "resolved", "rejected"}]
  /\ ccall \in [Client -> CacheCalls]
  /\ found \in [Client -> Table]
  /\ touched \in [Client -> SUBSET Id]
  /\ there \in [Client -> SUBSET Id]
  /\ contested \in [Client -> SUBSET Id]

\* c's call is under way and about i.
About(c, i) == UnderWay(c) /\ i \in ccall[c].ids

\* Of two calls about a row, one of them a write, each knows of the other.
OverlapsKnown ==
  \A c, u \in Client : \A i \in Id :
    c # u /\ About(c, i) /\ About(u, i) /\ (IsWrite(ccall[c]) \/ IsWrite(ccall[u]))
      => i \in contested[c]

\* What was touched downstream by a call that is still under way.
TouchedKnown ==
  \A c \in Client :
    /\ cpc[c] = "asked" => touched[c] = {}
    /\ cpc[c] = "answered" => touched[c] \subseteq ccall[c].ids

\* A read that no write overlaps has found what is downstream.
FoundIsDown ==
  \A c \in Client : cpc[c] = "answered" /\ ~IsWrite(ccall[c]) =>
    \A i \in touched[c] \ contested[c] : found[c][i] = down[i]

\* What an answered write, overlapped by none, has made of a row; and, of what
\* the cache is right about, it selects what it has selected downstream.
WroteDown(c, i) ==
  LET m == ccall[c] IN
  /\ i \in touched[c] => down[i] = IF m.kind = "deleteByQuery" THEN Nothing ELSE c
  /\ m.kind = "saveBatch" => i \in touched[c]
  /\ m.kind # "saveBatch" /\ i \notin tainted /\ cache[i] # Nothing =>
       /\ i \notin touched[c] => cache[i] = down[i]
       /\ "limited" \notin m.opts => (i \in touched[c] <=> i \in Selected(m, cache))

WritesAreDown ==
  \A c \in Client : cpc[c] = "answered" /\ IsWrite(ccall[c]) =>
    \A i \in ccall[c].ids \ contested[c] : WroteDown(c, i)

\* No write is about i but one that has not been executed, nor overlapped.
Quiet(i) ==
  \A c \in Client : About(c, i) /\ IsWrite(ccall[c]) =>
    cpc[c] = "asked" /\ i \notin contested[c]

QuietIsCoherent ==
  \A i \in Id : i \notin tainted /\ Quiet(i) => cache[i] \in {Nothing, down[i]}

\* A read, wherever it looks, has found the rows that were there all the while.
Asks(m) == /\ ~IsWrite(m) /\ ~OnlyCache(m) /\ "limited" \notin m.opts
           /\ (m.kind = "getByIds" => ~SkipsCache(m))

RowsFound ==
  \A c \in Client :
    /\ there[c] \subseteq Selected(ccall[c], down)
    /\ cpc[c] \in {"answered", "resolved"} /\ Asks(ccall[c]) =>
         \A i \in ccall[c].ids \cap there[c] : found[c][i] # Nothing

CacheInv == CacheTypes /\ OverlapsKnown /\ TouchedKnown /\ FoundIsDown /\ WritesAreDown
            /\ QuietIsCoherent /\ RowsFound

LEMMA CacheInitEstablishes == CacheInit => CacheInv
<1> SUFFICES ASSUME CacheInit
             PROVE  CacheInv
  OBVIOUS
<1>1. CacheTypes
  BY DEF CacheInit, CacheTypes, Table, NoRows, CacheCalls, CacheKind, Writer
<1>2. \A c \in Client : cpc[c] = "idle" /\ there[c] = {}
  BY DEF CacheInit
<1>3. \A i \in Id : cache[i] = Nothing
  BY DEF CacheInit, NoRows
<1> QED
  BY <1>1, <1>2, <1>3 DEF CacheInv, OverlapsKnown, About, UnderWay, TouchedKnown, FoundIsDown,
     WritesAreDown, QuietIsCoherent, RowsFound

\* What a call, when it is made, changes: rows of the cache at most that are
\* tainted from now on.
LEMMA CacheMakePreserves ==
  ASSUME CacheInv, NEW c \in Client, NEW m \in CacheCall, NEW got \in Table,
         NEW pc \in {"asked", "resolved", "rejected"}, CacheMake(c, m, got, pc),
         cache' \in Table, tainted \subseteq tainted',
         \A i \in Id \ tainted' : cache'[i] = cache[i],
         pc = "resolved" /\ Asks(m) => \A i \in m.ids : got[i] # Nothing
  PROVE  CacheInv'
<1> USE DEF CacheInv
<1>1. m \in CacheCalls
  BY CacheDBAssumption
<1>2. /\ cpc'[c] = pc /\ ccall'[c] = m /\ found'[c] = got /\ touched'[c] = {}
      /\ there'[c] = Selected(m, down) /\ ~UnderWay(c)
      /\ contested'[c] = m.ids \cap UNION {ccall[v].ids : v \in Rivals(c, m)}
      /\ down' = down /\ ccfg' = ccfg
  BY DEF CacheMake, CacheTypes
<1>3. ASSUME NEW u \in Client, u # c
      PROVE  /\ cpc'[u] = cpc[u] /\ ccall'[u] = ccall[u] /\ found'[u] = found[u]
             /\ touched'[u] = touched[u] /\ there'[u] = there[u]
             /\ contested[u] \subseteq contested'[u]
             /\ u \in Rivals(c, m) => ccall[u].ids \cap m.ids \subseteq contested'[u]
  BY <1>3 DEF CacheMake, CacheTypes
<1>4. CacheTypes'
  <2>1. contested' \in [Client -> SUBSET Id]
    <3>1. \A u \in Client : contested'[u] \subseteq Id
      BY <1>1, <1>2 DEF CacheMake, CacheTypes, CacheCalls
    <3>2. contested' = [u \in Client |-> contested'[u]]
      BY DEF CacheMake
    <3> QED
      BY <3>1, <3>2
  <2>2. Selected(m, down) \in SUBSET Id
    BY <1>1 DEF Selected, Rows, CacheCalls
  <2> QED
    BY <1>1, <2>1, <2>2 DEF CacheMake, CacheTypes
<1>5. \A u \in Client : u # c => /\ UnderWay(u)' <=> UnderWay(u)
                                 /\ \A i \in Id : About(u, i)' <=> About(u, i)
                                 /\ IsWrite(ccall[u])' <=> IsWrite(ccall[u])
  BY <1>3 DEF UnderWay, About, IsWrite
<1>6. \A i \in Id : About(c, i)' => i \in m.ids
  BY <1>2 DEF About
<1>7. IsWrite(ccall[c])' <=> IsWrite(m)
  BY <1>2 DEF IsWrite
<1>8. OverlapsKnown'
  <2> SUFFICES ASSUME NEW a \in Client, NEW u \in Client, NEW i \in Id, a # u,
                      About(a, i)', About(u, i)', IsWrite(ccall[a])' \/ IsWrite(ccall[u])'
               PROVE  i \in contested'[a]
    BY DEF OverlapsKnown
  <2>1. CASE a # c /\ u # c
    BY <1>3, <1>5, <2>1 DEF OverlapsKnown
  <2>2. CASE a = c
    <3>1. u \in Rivals(c, m)
      BY <1>5, <1>7, <2>2 DEF Rivals, About
    <3>2. i \in ccall[u].ids /\ i \in m.ids
      BY <1>5, <1>6, <2>2 DEF About
    <3> QED
      BY <1>2, <2>2, <3>1, <3>2
  <2>3. CASE u = c
    <3>1. a \in Rivals(c, m)
      BY <1>5, <1>7, <2>3 DEF Rivals, About
    <3>2. i \in ccall[a].ids /\ i \in m.ids
      BY <1>5, <1>6, <2>3 DEF About
    <3> QED
      BY <1>3, <2>3, <3>1, <3>2
  <2> QED
    BY <2>1, <2>2, <2>3
<1>9. TouchedKnown'
  <2> SUFFICES ASSUME NEW u \in Client
               PROVE  /\ cpc'[u] = "asked" => touched'[u] = {}
                      /\ cpc'[u] = "answered" => touched'[u] \subseteq ccall'[u].ids
    BY DEF TouchedKnown
  <2>1. CASE u = c
    BY <1>2, <2>1
  <2>2. CASE u # c
    BY <1>3, <1>5, <2>2 DEF TouchedKnown
  <2> QED
    BY <2>1, <2>2
<1>10. FoundIsDown'
  <2> SUFFICES ASSUME NEW u \in Client, cpc'[u] = "answered", ~IsWrite(ccall[u])',
                      NEW i \in touched'[u] \ contested'[u]
               PROVE  found'[u][i] = down'[i]
    BY DEF FoundIsDown
  <2>1. u # c
    BY <1>2
  <2> QED
    BY <1>2, <1>3, <1>5, <2>1 DEF FoundIsDown
<1>11. WritesAreDown'
  <2> SUFFICES ASSUME NEW u \in Client, cpc'[u] = "answered", IsWrite(ccall[u])',
                      NEW i \in ccall'[u].ids \ contested'[u]
               PROVE  WroteDown(u, i)'
    BY DEF WritesAreDown
  <2>1. u # c
    BY <1>2
  <2>2. WroteDown(u, i) /\ i \in Id
    BY <1>3, <1>5, <2>1 DEF WritesAreDown, CacheTypes, CacheCalls
  <2>3. i \notin tainted' => i \notin tainted /\ cache'[i] = cache[i]
    BY <2>2
  <2>4. i \notin tainted' => (i \in Selected(ccall[u], cache') <=> i \in Selected(ccall[u], cache))
    BY <2>3 DEF Selected, Rows
  <2> QED
    BY <1>2, <1>3, <2>1, <2>2, <2>3, <2>4 DEF WroteDown
<1>12. QuietIsCoherent'
  <2> SUFFICES ASSUME NEW i \in Id, i \notin tainted', Quiet(i)'
               PROVE  cache'[i] \in {Nothing, down'[i]}
    BY DEF QuietIsCoherent
  <2>1. Quiet(i)
    <3> SUFFICES ASSUME NEW u \in Client, About(u, i), IsWrite(ccall[u])
                 PROVE  cpc[u] = "asked" /\ i \notin contested[u]
      BY DEF Quiet
    <3>1. u # c
      BY <1>2 DEF About
    <3> QED
      BY <1>3, <1>5, <3>1 DEF Quiet
  <2> QED
    BY <1>2, <2>1 DEF QuietIsCoherent
<1>13. RowsFound'
  <2> SUFFICES ASSUME NEW u \in Client
               PROVE  /\ there'[u] \subseteq Selected(ccall'[u], down')
                      /\ cpc'[u] \in {"answered", "resolved"} /\ Asks(ccall[u])' =>
                           \A i \in ccall'[u].ids \cap there'[u] : found'[u][i] # Nothing
    BY DEF RowsFound
  <2>2. CASE u = c
    <3>1. there'[u] \subseteq Selected(ccall'[u], down')
      BY <1>2, <2>2
    <3>2. Asks(ccall[u])' <=> Asks(m)
      BY <1>2, <2>2 DEF Asks, OnlyCache, SkipsCache, IsWrite
    <3> QED
      BY <1>2, <2>2, <3>1, <3>2
  <2>3. CASE u # c
    <3>1. Asks(ccall[u])' <=> Asks(ccall[u])
      BY <1>2, <1>3, <2>3 DEF Asks, OnlyCache, SkipsCache, IsWrite
    <3> QED
      BY <1>2, <1>3, <2>3, <3>1 DEF RowsFound
  <2> QED
    BY <2>2, <2>3
<1> QED
  BY <1>4, <1>8, <1>9, <1>10, <1>11, <1>12, <1>13

\* What a call selects, and how far it gets.
LEMMA CacheTargets ==
  ASSUME NEW m \in CacheCalls, NEW t, NEW S \in Picks(m, t) \cup Targets(m, t)
  PROVE  /\ S \subseteq m.ids /\ S \subseteq Id
         /\ \A P \in Reached(m, S, t) : P \subseteq S
         /\ m.kind \in {"deleteByQuery", "patchByQuery"} => Reached(m, S, t) = {S}
<1>1. m.ids \subseteq Id
  BY DEF CacheCalls
<1>2. Selected(m, t) \subseteq m.ids
  BY DEF Selected, Rows
<1>3. S \subseteq m.ids
  BY <1>2 DEF Picks, Targets
<1>4. \A P \in Reached(m, S, t) : P \subseteq S
  BY DEF Reached
<1>5. m.kind \in {"deleteByQuery", "patchByQuery"} => Reached(m, S, t) = {S}
  BY DEF Reached, Obstacles
<1> QED
  BY <1>1, <1>3, <1>4, <1>5

LEMMA CacheEffect ==
  ASSUME CacheTypes, NEW c \in Client, NEW m \in CacheCalls, NEW S, NEW t \in Table
  PROVE  /\ Effect(m, c, S, t) \in Table
         /\ \A i \in Id : i \notin S => Effect(m, c, S, t)[i] = t[i]
         /\ \A i \in Id : i \in S => Effect(m, c, S, t)[i] =
              IF m.kind = "deleteByQuery" THEN Nothing ELSE IF IsWrite(m) THEN c ELSE found[c][i]
         /\ S = {} => Effect(m, c, S, t) = t
<1>1. ASSUME NEW i \in Id
      PROVE  t[i] \in Writer \cup {Nothing} /\ found[c][i] \in Writer \cup {Nothing}
             /\ c \in Writer
  BY DEF CacheTypes, Table, Writer
<1>2. ASSUME NEW i \in Id
      PROVE  (CASE m.kind = "deleteByQuery" -> Nothing
                [] m.kind \in {"saveBatch", "patchByQuery"} -> c
                [] OTHER -> found[c][i]) =
             IF m.kind = "deleteByQuery" THEN Nothing ELSE IF IsWrite(m) THEN c ELSE found[c][i]
  BY DEF IsWrite
<1> DEFINE e == Effect(m, c, S, t)
<1>3. e = [i \in Id |-> IF i \notin S THEN t[i]
                        ELSE IF m.kind = "deleteByQuery" THEN Nothing
                        ELSE IF IsWrite(m) THEN c ELSE found[c][i]]
  BY <1>2 DEF Effect
<1>4. e \in Table
  BY <1>1, <1>3 DEF Table
<1>5. S = {} => e = t
  BY <1>3 DEF Table
<1> HIDE DEF e
<1> QED
  BY <1>3, <1>4, <1>5 DEF e

LEMMA CacheCallPreserves ==
  ASSUME CacheInv, NEW c \in Client, NEW m \in CacheCall,
         GetByIds(c, m) \/ RunQuery(c, m) \/ Change(c, m)
  PROVE  CacheInv'
<1>1. NoRows \in Table /\ cache \in Table /\ \A i \in Id : cache[i] \in Writer \cup {Nothing}
  BY DEF NoRows, Table, CacheInv, CacheTypes
<1>6. m \in CacheCalls
  BY CacheDBAssumption
<1>2. \A S : [i \in Id |-> IF i \in S THEN cache[i] ELSE Nothing] \in Table
  BY <1>1 DEF Table
<1>3. CASE GetByIds(c, m)
  <2> DEFINE missing == IF SkipsCache(m) THEN {} ELSE Missing(m.ids)
             got == IF SkipsCache(m) THEN NoRows
                    ELSE [i \in Id |-> IF i \in m.ids THEN cache[i] ELSE Nothing]
             to == IF missing # {} /\ ~OnlyCache(m) THEN "asked" ELSE "resolved"
  <2>1. /\ CacheMake(c, m, got, to) /\ cache' = cache /\ tainted' = tainted
        /\ m.kind = "getByIds"
    BY <1>3 DEF GetByIds
  <2>2. got \in Table
    BY <1>1, <1>2
  <2>3. to = "resolved" /\ Asks(m) => \A i \in m.ids : got[i] # Nothing
    <3> SUFFICES ASSUME to = "resolved", Asks(m), NEW i \in m.ids
                 PROVE  got[i] # Nothing
      OBVIOUS
    <3>1. ~SkipsCache(m) /\ ~OnlyCache(m)
      BY <2>1 DEF Asks
    <3>2. Missing(m.ids) = {}
      BY <3>1
    <3>3. i \in Id
      BY <1>6 DEF CacheCalls
    <3> QED
      BY <3>1, <3>2, <3>3 DEF Missing, Rows
  <2>4. to \in {"asked", "resolved", "rejected"}
    OBVIOUS
  <2> HIDE DEF got, to
  <2> QED
    BY <1>1, <2>1, <2>2, <2>3, <2>4, CacheMakePreserves
<1>4. CASE RunQuery(c, m)
  <2>1. cache' = cache /\ tainted' = tainted
    BY <1>4 DEF RunQuery
  <2>2. CASE ~OnlyCache(m)
    BY <1>1, <1>4, <2>1, <2>2, CacheMakePreserves DEF RunQuery
  <2>3. CASE OnlyCache(m)
    <3>1. ~Asks(m)
      BY <2>3 DEF Asks
    <3>2. CASE CacheMake(c, m, NoRows, "resolved")
      BY <1>1, <2>1, <3>1, <3>2, CacheMakePreserves
    <3>3. ASSUME NEW S, CacheMake(c, m, [i \in Id |-> IF i \in S THEN cache[i] ELSE Nothing], "resolved")
          PROVE  CacheInv'
      BY <1>1, <1>2, <2>1, <3>1, <3>3, CacheMakePreserves
    <3> QED
      BY <1>4, <2>3, <3>2, <3>3 DEF RunQuery
  <2> QED
    BY <2>2, <2>3
<1>5. CASE Change(c, m)
  <2>1. IsWrite(m) /\ ~Asks(m)
    BY <1>5 DEF Change, Asks
  <2>2. ASSUME NEW to \in {"asked", "resolved"}, CacheMake(c, m, NoRows, to),
               UNCHANGED <<cache, tainted>>
        PROVE  CacheInv'
    BY <1>1, <2>1, <2>2, CacheMakePreserves
  <2>3. ASSUME NEW S \in Targets(m, cache), NEW P \in Reached(m, S, cache),
               NEW to \in {"resolved", "rejected"}, CacheMake(c, m, NoRows, to),
               cache' = Effect(m, c, P, cache), tainted' = tainted \cup P
        PROVE  CacheInv'
    <3>1. cache' \in Table
      BY <1>1, <1>6, <2>3, CacheEffect DEF CacheInv
    <3>2. \A i \in Id \ tainted' : cache'[i] = cache[i]
      BY <1>1, <1>6, <2>3, CacheEffect DEF CacheInv
    <3> QED
      BY <1>1, <2>1, <2>3, <3>1, <3>2, CacheMakePreserves
  <2> QED
    BY <1>5, <2>2, <2>3 DEF Change
<1> QED
  BY <1>3, <1>4, <1>5

\* A step of c that leaves all calls as they are, c's under way or over.
LEMMA CacheStepKeeps ==
  ASSUME CacheInv, NEW c \in Client, UnderWay(c), NEW to \in {"answered", "resolved", "rejected"},
         cpc' = [cpc EXCEPT ![c] = to],
         UNCHANGED <<ccfg, ccall, contested>>
  PROVE  /\ OverlapsKnown'
         /\ \A u \in Client : u # c => cpc'[u] = cpc[u]
         /\ cpc'[c] = to
         /\ \A u \in Client : \A i \in Id : u # c => (About(u, i)' <=> About(u, i))
         /\ \A i \in Id : About(c, i)' => About(c, i)
         /\ \A u \in Client : /\ IsWrite(ccall[u])' <=> IsWrite(ccall[u])
                              /\ Asks(ccall[u])' <=> Asks(ccall[u])
<1> USE DEF CacheInv
<1>1. cpc'[c] = to /\ \A u \in Client : u # c => cpc'[u] = cpc[u]
  BY DEF CacheTypes
<1>2. \A u \in Client : u # c => (UnderWay(u)' <=> UnderWay(u))
  BY <1>1 DEF UnderWay
<1>3. /\ \A u \in Client : \A i \in Id : u # c => (About(u, i)' <=> About(u, i))
      /\ \A i \in Id : About(c, i)' => About(c, i)
  BY <1>2 DEF About
<1>4. \A u \in Client : /\ IsWrite(ccall[u])' <=> IsWrite(ccall[u])
                        /\ Asks(ccall[u])' <=> Asks(ccall[u])
  BY DEF IsWrite, Asks, OnlyCache, SkipsCache
<1>5. OverlapsKnown'
  <2> SUFFICES ASSUME NEW a \in Client, NEW u \in Client, NEW i \in Id, a # u,
                      About(a, i)', About(u, i)', IsWrite(ccall[a])' \/ IsWrite(ccall[u])'
               PROVE  i \in contested'[a]
    BY DEF OverlapsKnown
  <2>1. About(a, i) /\ About(u, i)
    BY <1>3
  <2> QED
    BY <1>4, <2>1 DEF OverlapsKnown
<1> QED
  BY <1>1, <1>3, <1>4, <1>5

\* A step that c's call takes under way, or to its end.  What is left to show
\* of it: what it finds or writes downstream, and what it makes of the cache.
LEMMA CacheWorkPreserves ==
  ASSUME CacheInv, NEW c \in Client, UnderWay(c), NEW to \in {"answered", "resolved", "rejected"},
         cpc' = [cpc EXCEPT ![c] = to],
         UNCHANGED <<ccfg, ccall, contested>>,
         down' \in Table, cache' \in Table,
         found' \in [Client -> Table], touched' \in [Client -> SUBSET Id],
         there' \in [Client -> SUBSET Id],
         \A u \in Client : there'[u] \subseteq there[u] \cap Selected(ccall[u], down'),
         \A u \in Client : u # c => found'[u] = found[u] /\ touched'[u] = touched[u],
         touched'[c] \subseteq ccall[c].ids,
         \A i \in Id : down'[i] # down[i] => IsWrite(ccall[c]) /\ i \in ccall[c].ids,
         \A i \in Id \ ccall[c].ids : cache'[i] = cache[i] /\ (i \in tainted => i \in tainted'),
         to = "answered" /\ ~IsWrite(ccall[c]) =>
           \A i \in touched'[c] \ contested[c] : found'[c][i] = down'[i],
         to = "answered" /\ IsWrite(ccall[c]) =>
           \A i \in ccall[c].ids \ contested[c] : WroteDown(c, i)',
         to # "rejected" /\ Asks(ccall[c]) =>
           \A i \in ccall[c].ids \cap there'[c] : found'[c][i] # Nothing,
         QuietIsCoherent'
  PROVE  CacheInv'
<1> USE DEF CacheInv
<1>1. /\ OverlapsKnown'
      /\ \A u \in Client : u # c => cpc'[u] = cpc[u]
      /\ cpc'[c] = to
      /\ \A u \in Client : \A i \in Id : u # c => (About(u, i)' <=> About(u, i))
      /\ \A u \in Client : /\ IsWrite(ccall[u])' <=> IsWrite(ccall[u])
                           /\ Asks(ccall[u])' <=> Asks(ccall[u])
  BY CacheStepKeeps
<1>2. CacheTypes'
  BY DEF CacheTypes
<1>3. ASSUME NEW u \in Client, u # c, NEW i \in Id, About(u, i), i \notin contested[u],
             IsWrite(ccall[u]) \/ IsWrite(ccall[c])
      PROVE  i \notin ccall[c].ids
  BY <1>3 DEF OverlapsKnown, About
<1>4. TouchedKnown'
  <2> SUFFICES ASSUME NEW u \in Client
               PROVE  /\ cpc'[u] = "asked" => touched'[u] = {}
                      /\ cpc'[u] = "answered" => touched'[u] \subseteq ccall'[u].ids
    BY DEF TouchedKnown
  <2>1. CASE u = c
    BY <1>1, <2>1
  <2>2. CASE u # c
    BY <1>1, <2>2 DEF TouchedKnown
  <2> QED
    BY <2>1, <2>2
<1>5. FoundIsDown'
  <2> SUFFICES ASSUME NEW u \in Client, cpc'[u] = "answered", ~IsWrite(ccall[u])',
                      NEW i \in touched'[u] \ contested'[u]
               PROVE  found'[u][i] = down'[i]
    BY DEF FoundIsDown
  <2>1. CASE u = c
    BY <1>1, <2>1
  <2>2. CASE u # c
    <3>1. /\ cpc[u] = "answered" /\ ~IsWrite(ccall[u]) /\ i \in touched[u] /\ i \notin contested[u]
          /\ i \in Id
      BY <1>1, <2>2 DEF CacheTypes
    <3>2. About(u, i)
      BY <3>1 DEF TouchedKnown, About, UnderWay
    <3>3. down'[i] = down[i]
      BY <1>3, <2>2, <3>1, <3>2
    <3> QED
      BY <2>2, <3>1, <3>3 DEF FoundIsDown
  <2> QED
    BY <2>1, <2>2
<1>6. WritesAreDown'
  <2> SUFFICES ASSUME NEW u \in Client, cpc'[u] = "answered", IsWrite(ccall[u])',
                      NEW i \in ccall'[u].ids \ contested'[u]
               PROVE  WroteDown(u, i)'
    BY DEF WritesAreDown
  <2>1. CASE u = c
    BY <1>1, <2>1
  <2>2. CASE u # c
    <3>1. cpc[u] = "answered" /\ IsWrite(ccall[u]) /\ i \in Id /\ About(u, i) /\ i \notin contested[u]
      BY <1>1, <2>2 DEF CacheTypes, CacheCalls, About, UnderWay
    <3>2. i \notin ccall[c].ids
      BY <1>3, <2>2, <3>1
    <3>3. /\ down'[i] = down[i] /\ cache'[i] = cache[i] /\ (i \in tainted => i \in tainted')
          /\ touched'[u] = touched[u] /\ ccall' = ccall
      BY <2>2, <3>1, <3>2
    <3>4. i \in Selected(ccall[u], cache') <=> i \in Selected(ccall[u], cache)
      BY <3>2, <3>3 DEF Selected, Rows
    <3>5. WroteDown(u, i)
      BY <3>1 DEF WritesAreDown
    <3> QED
      BY <3>1, <3>2, <3>3, <3>4, <3>5 DEF WroteDown
  <2> QED
    BY <2>1, <2>2
<1>7. RowsFound'
  <2> SUFFICES ASSUME NEW u \in Client
               PROVE  /\ there'[u] \subseteq Selected(ccall'[u], down')
                      /\ cpc'[u] \in {"answered", "resolved"} /\ Asks(ccall[u])' =>
                           \A i \in ccall'[u].ids \cap there'[u] : found'[u][i] # Nothing
    BY DEF RowsFound
  <2>1. there'[u] \subseteq Selected(ccall'[u], down')
    OBVIOUS
  <2>2. CASE u = c
    BY <1>1, <2>1, <2>2
  <2>3. CASE u # c
    BY <1>1, <2>1, <2>3 DEF RowsFound
  <2> QED
    BY <2>1, <2>2, <2>3
<1> QED
  BY <1>1, <1>2, <1>4, <1>5, <1>6, <1>7

LEMMA CacheExecuteReadPreserves ==
  ASSUME CacheInv, NEW c \in Client, ExecuteRead(c)
  PROVE  CacheInv'
<1> USE DEF CacheInv
<1> DEFINE m == ccall[c]
           mm == [m EXCEPT !.ids = m.ids \ Rows(Id, found[c])]
<1>1. /\ cpc[c] = "asked" /\ UnderWay(c) /\ ~IsWrite(m)
      /\ cpc' = [cpc EXCEPT ![c] = "answered"]
      /\ UNCHANGED <<ccfg, down, cache, ccall, ccalls, there, contested, tainted>>
      /\ m \in CacheCalls
  BY DEF ExecuteRead, UnderWay, CacheTypes
<1>2. PICK S \in Picks(mm, down) :
        /\ found' = [found EXCEPT ![c] = [i \in Id |-> IF i \in S THEN down[i] ELSE found[c][i]]]
        /\ touched' = [touched EXCEPT ![c] = S]
  BY DEF ExecuteRead
<1>3. /\ mm.ids = m.ids \ Rows(Id, found[c])
      /\ mm.kind = m.kind /\ mm.of = m.of /\ mm.opts = m.opts
  BY <1>1 DEF CacheCalls
<1>4. S \subseteq mm.ids /\ S \subseteq m.ids /\ m.ids \subseteq Id
  BY <1>1, <1>3 DEF Picks, Selected, Rows, CacheCalls
<1>5. [i \in Id |-> IF i \in S THEN down[i] ELSE found[c][i]] \in Table
  BY DEF CacheTypes, Table
<1>6. /\ found' \in [Client -> Table] /\ touched' \in [Client -> SUBSET Id]
      /\ \A i \in Id : found'[c][i] = IF i \in S THEN down[i] ELSE found[c][i]
      /\ touched'[c] = S
      /\ \A u \in Client : u # c => found'[u] = found[u] /\ touched'[u] = touched[u]
  BY <1>2, <1>4, <1>5 DEF CacheTypes
<1>7. ASSUME Asks(m), NEW i \in m.ids \cap there[c]
      PROVE  found'[c][i] # Nothing
  <2>1. i \in Id /\ i \in Selected(m, down)
    BY <1>4, <1>7 DEF RowsFound
  <2>2. S = Selected(mm, down)
    BY <1>3, <1>7 DEF Asks, Picks
  <2>3. CASE i \in Rows(Id, found[c])
    BY <1>3, <1>4, <1>6, <2>1, <2>3 DEF Rows
  <2>4. CASE i \notin Rows(Id, found[c])
    <3>1. i \in Selected(mm, down)
      BY <1>3, <2>1, <2>4 DEF Selected, Rows, IsQuery
    <3> QED
      BY <1>6, <2>1, <2>2, <3>1 DEF Selected, Rows
  <2> QED
    BY <2>3, <2>4
<1>8. QuietIsCoherent'
  <2> SUFFICES ASSUME NEW i \in Id, i \notin tainted, Quiet(i)'
               PROVE  cache[i] \in {Nothing, down[i]}
    BY <1>1 DEF QuietIsCoherent
  <2>1. /\ \A u \in Client : u # c => cpc'[u] = cpc[u] /\ (About(u, i)' <=> About(u, i))
        /\ \A u \in Client : IsWrite(ccall[u])' <=> IsWrite(ccall[u])
    BY <1>1, CacheStepKeeps
  <2>2. Quiet(i)
    BY <1>1, <2>1 DEF Quiet
  <2> QED
    BY <2>2 DEF QuietIsCoherent
<1>9. /\ down' \in Table /\ cache' \in Table /\ there' \in [Client -> SUBSET Id]
      /\ \A u \in Client : there'[u] \subseteq there[u] \cap Selected(ccall[u], down')
  BY <1>1 DEF CacheTypes, RowsFound
<1>10. \A i \in touched'[c] : found'[c][i] = down'[i]
  BY <1>1, <1>4, <1>6
<1>11. /\ touched'[c] \subseteq ccall[c].ids
       /\ \A i \in Id : down'[i] = down[i] /\ cache'[i] = cache[i]
       /\ tainted' = tainted /\ there' = there
  BY <1>1, <1>4, <1>6
<1> HIDE DEF mm
<1> QED
  BY <1>1, <1>6, <1>7, <1>8, <1>9, <1>10, <1>11, CacheWorkPreserves

LEMMA CacheExecuteWritePreserves ==
  ASSUME CacheInv, NEW c \in Client, ExecuteWrite(c)
  PROVE  CacheInv'
<1> USE DEF CacheInv
<1> DEFINE m == ccall[c]
<1>1. /\ cpc[c] = "asked" /\ UnderWay(c) /\ IsWrite(m)
      /\ cpc' = [cpc EXCEPT ![c] = "answered"]
      /\ UNCHANGED <<ccfg, cache, ccall, ccalls, found, contested, tainted>>
      /\ m \in CacheCalls
  BY DEF ExecuteWrite, UnderWay, CacheTypes
<1>2. PICK S \in Targets(m, down) :
        /\ down' = Effect(m, c, S, down)
        /\ there' = [u \in Client |-> there[u] \cap Selected(ccall[u], down')]
        /\ touched' = [touched EXCEPT ![c] = S]
  BY DEF ExecuteWrite, DownBecomes
<1>3. S \subseteq m.ids /\ m.ids \subseteq Id
  BY <1>1, CacheTargets DEF CacheCalls
<1>4. /\ down' \in Table
      /\ \A i \in Id : i \notin S => down'[i] = down[i]
      /\ \A i \in Id : i \in S => down'[i] = IF m.kind = "deleteByQuery" THEN Nothing ELSE c
  <2>1. down \in Table
    BY DEF CacheTypes
  <2> QED
    BY <1>1, <1>2, <2>1, CacheEffect
<1>5. /\ touched' \in [Client -> SUBSET Id] /\ there' \in [Client -> SUBSET Id]
      /\ touched'[c] = S
      /\ \A u \in Client : u # c => touched'[u] = touched[u]
      /\ \A u \in Client : there'[u] \subseteq there[u] \cap Selected(ccall[u], down')
  BY <1>2, <1>3 DEF CacheTypes
<1>6. /\ \A u \in Client : u # c => cpc'[u] = cpc[u]
      /\ cpc'[c] = "answered"
      /\ \A u \in Client : \A i \in Id : u # c => (About(u, i)' <=> About(u, i))
      /\ \A u \in Client : IsWrite(ccall[u])' <=> IsWrite(ccall[u])
  BY <1>1, CacheStepKeeps
<1>7. ASSUME NEW i \in m.ids \ contested[c]
      PROVE  WroteDown(c, i)'
  <2>1. i \in Id
    BY <1>3
  <2>2. ASSUME i \notin tainted, cache[i] # Nothing
        PROVE  cache[i] = down[i]
    <3>1. Quiet(i)
      <4> SUFFICES ASSUME NEW v \in Client, About(v, i), IsWrite(ccall[v])
                   PROVE  cpc[v] = "asked" /\ i \notin contested[v]
        BY DEF Quiet
      <4>1. About(c, i)
        BY <1>1 DEF About
      <4>2. v = c
        BY <2>1, <4>1 DEF OverlapsKnown
      <4> QED
        BY <1>1, <4>2
    <3> QED
      BY <2>1, <2>2, <3>1 DEF QuietIsCoherent
  <2>3. m.kind = "saveBatch" => i \in S
    BY <1>2 DEF Targets
  <2>4. ASSUME m.kind # "saveBatch", "limited" \notin m.opts, i \notin tainted, cache[i] # Nothing
        PROVE  i \in S <=> i \in Selected(m, cache)
    <3>1. S = Selected(m, down)
      BY <1>2, <2>4 DEF Targets, Picks
    <3> QED
      BY <2>2, <2>4, <3>1 DEF Selected, Rows
  <2>5. i \in S => down'[i] = IF m.kind = "deleteByQuery" THEN Nothing ELSE c
    BY <1>4, <2>1
  <2>6. i \notin S => down'[i] = down[i]
    BY <1>4, <2>1
  <2> QED
    BY <1>1, <1>5, <2>2, <2>3, <2>4, <2>5, <2>6 DEF WroteDown
<1>8. QuietIsCoherent'
  <2> SUFFICES ASSUME NEW i \in Id, i \notin tainted, Quiet(i)'
               PROVE  cache[i] \in {Nothing, down'[i]}
    BY <1>1 DEF QuietIsCoherent
  <2>1. i \notin m.ids
    <3>1. i \in m.ids => About(c, i)'
      BY <1>1, <1>6 DEF About, UnderWay
    <3> QED
      BY <1>1, <1>6, <3>1 DEF Quiet
  <2>2. Quiet(i)
    <3>1. ~About(c, i)
      BY <2>1 DEF About
    <3> QED
      BY <1>1, <1>6, <3>1 DEF Quiet
  <2>3. down'[i] = down[i]
    BY <1>3, <1>4, <2>1
  <2> QED
    BY <2>2, <2>3 DEF QuietIsCoherent
<1>9. /\ found' \in [Client -> Table] /\ cache' \in Table
      /\ \A u \in Client : u # c => found'[u] = found[u] /\ touched'[u] = touched[u]
      /\ \A i \in Id \ m.ids : cache'[i] = cache[i] /\ (i \in tainted => i \in tainted')
  BY <1>1, <1>5 DEF CacheTypes
<1>10. \A i \in Id : down'[i] # down[i] => IsWrite(ccall[c]) /\ i \in ccall[c].ids
  BY <1>1, <1>3, <1>4
<1>11. ~Asks(ccall[c]) /\ touched'[c] \subseteq ccall[c].ids
  BY <1>1, <1>3, <1>5 DEF Asks
<1> QED
  BY <1>1, <1>4, <1>5, <1>7, <1>8, <1>9, <1>10, <1>11, CacheWorkPreserves

\* A write may have been executed in part before it fails.
LEMMA CacheFailPreserves ==
  ASSUME CacheInv, NEW c \in Client, Fail(c)
  PROVE  CacheInv'
<1> USE DEF CacheInv
<1> DEFINE m == ccall[c]
           part == IF cpc[c] = "asked" /\ IsWrite(m)
                   THEN UNION {SUBSET (S \ Obstacles(m, S, down)) : S \in Targets(m, down)}
                   ELSE {{}}
<1>1. /\ UnderWay(c) /\ cpc' = [cpc EXCEPT ![c] = "rejected"]
      /\ UNCHANGED <<ccfg, cache, ccall, found, touched, contested>>
      /\ m \in CacheCalls
  BY DEF Fail, CacheTypes
<1>2. PICK P \in part :
        /\ down' = Effect(m, c, P, down)
        /\ there' = [u \in Client |-> there[u] \cap Selected(ccall[u], down')]
        /\ tainted' = tainted \cup contested[c] \cup (IF IsWrite(m) THEN touched[c] \cup P ELSE {})
  BY DEF Fail, DownBecomes
<1>3. /\ P \subseteq m.ids /\ m.ids \subseteq Id
      /\ P # {} => cpc[c] = "asked" /\ IsWrite(m)
  <2>1. \A S \in Targets(m, down) : S \subseteq m.ids
    BY <1>1, CacheTargets
  <2> QED
    BY <1>1, <1>2, <2>1 DEF CacheCalls
<1>4. /\ down' \in Table
      /\ \A i \in Id : i \notin P => down'[i] = down[i]
  <2>1. down \in Table
    BY DEF CacheTypes
  <2> QED
    BY <1>1, <1>2, <2>1, CacheEffect
<1> HIDE DEF part
<1>5. QuietIsCoherent'
  <2> SUFFICES ASSUME NEW i \in Id, i \notin tainted', Quiet(i)'
               PROVE  cache[i] \in {Nothing, down'[i]}
    BY <1>1 DEF QuietIsCoherent
  <2>1. /\ \A u \in Client : u # c => cpc'[u] = cpc[u] /\ (About(u, i)' <=> About(u, i))
        /\ \A u \in Client : IsWrite(ccall[u])' <=> IsWrite(ccall[u])
    BY <1>1, CacheStepKeeps
  <2>2. i \notin tainted /\ i \notin contested[c] /\ (IsWrite(m) => i \notin touched[c])
    BY <1>2
  <2>3. down'[i] = down[i]
    BY <1>2, <1>3, <1>4
  <2>4. CASE cpc[c] = "asked" \/ ~IsWrite(m) \/ i \notin m.ids
    <3>1. Quiet(i)
      BY <1>1, <2>1, <2>2, <2>4 DEF Quiet, About
    <3> QED
      BY <2>2, <2>3, <3>1 DEF QuietIsCoherent
  <2>5. CASE cpc[c] = "answered" /\ IsWrite(m) /\ i \in m.ids
    <3>1. WroteDown(c, i)
      BY <2>2, <2>5 DEF WritesAreDown
    <3> QED
      BY <2>2, <2>3, <2>5, <3>1 DEF WroteDown
  <2> QED
    BY <1>1, <2>4, <2>5 DEF UnderWay
<1>6. /\ found' \in [Client -> Table] /\ touched' \in [Client -> SUBSET Id] /\ cache' \in Table
      /\ there' \in [Client -> SUBSET Id]
      /\ \A u \in Client : there'[u] \subseteq there[u] \cap Selected(ccall[u], down')
  BY <1>1, <1>2 DEF CacheTypes
<1>7. touched'[c] \subseteq ccall[c].ids
  BY <1>1 DEF TouchedKnown, UnderWay
<1>8. /\ \A i \in Id : down'[i] # down[i] => IsWrite(ccall[c]) /\ i \in ccall[c].ids
      /\ \A u \in Client : u # c => found'[u] = found[u] /\ touched'[u] = touched[u]
      /\ \A i \in Id \ m.ids : cache'[i] = cache[i] /\ (i \in tainted => i \in tainted')
  BY <1>1, <1>2, <1>3, <1>4
<1> QED
  BY <1>1, <1>4, <1>5, <1>6, <1>7, <1>8, CacheWorkPreserves

LEMMA CacheAnswerPreserves ==
  ASSUME CacheInv, NEW c \in Client, Answer(c)
  PROVE  CacheInv'
<1> USE DEF CacheInv
<1> DEFINE m == ccall[c]
<1>1. /\ UnderWay(c) /\ cpc[c] = "answered"
      /\ UNCHANGED <<ccfg, down, ccall, found, touched, there, contested>>
      /\ m \in CacheCalls
  BY DEF Answer, UnderWay, CacheTypes
<1>2. PICK S \in IF ~Caches(m) THEN {{}} ELSE IF IsWrite(m) THEN Targets(m, cache) ELSE {touched[c]} :
        \E P \in Reached(m, S, cache) :
          LET refused == Obstacles(m, S, cache) # {} IN
          /\ cache' = Effect(m, c, P, cache)
          /\ cpc' = [cpc EXCEPT ![c] = IF refused /\ ccfg.awaitCache THEN "rejected" ELSE "resolved"]
          /\ tainted' = (tainted \ (IF m.kind = "patchByQuery" THEN {} ELSE P))
               \cup contested[c]
               \cup (IF IsWrite(m) /\ (SkipsCache(m) \/ refused) THEN touched[c] \ P ELSE {})
               \cup (IF IsWrite(m) /\ "limited" \in m.opts THEN touched[c] \cup P ELSE {})
  BY DEF Answer
<1> DEFINE refused == Obstacles(m, S, cache) # {}
           to == IF refused /\ ccfg.awaitCache THEN "rejected" ELSE "resolved"
<1>3. PICK P \in Reached(m, S, cache) :
        /\ cache' = Effect(m, c, P, cache)
        /\ cpc' = [cpc EXCEPT ![c] = to]
        /\ tainted' = (tainted \ (IF m.kind = "patchByQuery" THEN {} ELSE P))
             \cup contested[c]
             \cup (IF IsWrite(m) /\ (SkipsCache(m) \/ refused) THEN touched[c] \ P ELSE {})
             \cup (IF IsWrite(m) /\ "limited" \in m.opts THEN touched[c] \cup P ELSE {})
  BY <1>2
<1>4. to \in {"resolved", "rejected"}
  OBVIOUS
<1>5. P \subseteq S /\ (~refused => P = S)
  BY DEF Reached
<1>6. touched[c] \subseteq m.ids /\ m.ids \subseteq Id
  BY <1>1 DEF TouchedKnown, CacheCalls
<1>7. S \subseteq m.ids
  <2>1. \A T \in Targets(m, cache) : T \subseteq m.ids
    BY <1>1, CacheTargets
  <2> QED
    BY <1>2, <1>6, <2>1
<1>8. /\ cache' \in Table
      /\ \A i \in Id : i \notin P => cache'[i] = cache[i]
      /\ \A i \in Id : i \in P => cache'[i] =
           IF m.kind = "deleteByQuery" THEN Nothing ELSE IF IsWrite(m) THEN c ELSE found[c][i]
  <2>1. cache \in Table
    BY DEF CacheTypes
  <2> QED
    BY <1>1, <1>3, <2>1, CacheEffect
<1>9. m.kind \in {"deleteByQuery", "patchByQuery"} => ~refused
  BY DEF Obstacles
<1>10. IsWrite(m) => (Caches(m) <=> ~SkipsCache(m))
  BY DEF IsWrite, Caches
<1> HIDE DEF to, refused
<1>11. QuietIsCoherent'
  <2> SUFFICES ASSUME NEW i \in Id, i \notin tainted', Quiet(i)'
               PROVE  cache'[i] \in {Nothing, down[i]}
    BY <1>1 DEF QuietIsCoherent
  <2>1. i \notin contested[c]
    BY <1>3
  <2>2. i \notin P => i \notin tainted /\ cache'[i] = cache[i]
    BY <1>3, <1>8
  <2>3. CASE ~IsWrite(m) \/ i \notin m.ids
    <3>1. /\ \A u \in Client : u # c => cpc'[u] = cpc[u] /\ (About(u, i)' <=> About(u, i))
          /\ \A u \in Client : IsWrite(ccall[u])' <=> IsWrite(ccall[u])
      BY <1>1, <1>3, <1>4, CacheStepKeeps
    <3>2. Quiet(i)
      BY <1>1, <2>3, <3>1 DEF Quiet, About
    <3>3. CASE i \in P
      <4>1. ~IsWrite(m) /\ m.kind # "deleteByQuery" /\ i \in touched[c]
        BY <1>2, <1>5, <1>7, <2>3, <3>3 DEF IsWrite
      <4> QED
        BY <1>1, <1>8, <2>1, <3>3, <4>1 DEF FoundIsDown
    <3>4. CASE i \notin P
      BY <2>2, <3>2, <3>4 DEF QuietIsCoherent
    <3> QED
      BY <3>3, <3>4
  <2>4. CASE IsWrite(m) /\ i \in m.ids
    <3>1. WroteDown(c, i)
      BY <1>1, <2>1, <2>4 DEF WritesAreDown
    <3>2. ASSUME m.kind # "saveBatch", i \notin touched[c], i \notin P
          PROVE  cache'[i] \in {Nothing, down[i]}
      BY <2>2, <3>1, <3>2 DEF WroteDown
    <3>3. CASE m.kind = "saveBatch"
      <4>1. down[i] = c /\ i \in touched[c]
        BY <3>1, <3>3 DEF WroteDown
      <4>2. CASE i \in P
        BY <1>8, <2>4, <3>3, <4>1, <4>2
      <4>3. CASE i \notin P
        <5>1. ~SkipsCache(m) /\ ~refused
          BY <1>3, <2>4, <4>1, <4>3
        <5>2. S = m.ids
          BY <1>2, <1>10, <2>4, <3>3, <5>1 DEF Targets
        <5> QED
          BY <1>5, <2>4, <4>3, <5>1, <5>2
      <4> QED
        BY <4>2, <4>3
    <3>4. CASE m.kind # "saveBatch" /\ "limited" \in m.opts
      <4>1. i \notin touched[c] /\ i \notin P
        BY <1>3, <2>4, <3>4
      <4> QED
        BY <3>2, <3>4, <4>1
    <3>5. CASE m.kind # "saveBatch" /\ "limited" \notin m.opts /\ SkipsCache(m)
      <4>1. i \notin P
        BY <1>2, <1>5, <1>10, <2>4, <3>5
      <4>2. i \notin touched[c]
        BY <1>3, <2>4, <3>5, <4>1
      <4> QED
        BY <3>2, <3>5, <4>1, <4>2
    <3>6. CASE m.kind # "saveBatch" /\ "limited" \notin m.opts /\ ~SkipsCache(m)
      <4>1. P = Selected(m, cache)
        <5>1. S = Selected(m, cache)
          BY <1>2, <1>10, <2>4, <3>6 DEF Targets, Picks
        <5> QED
          BY <1>5, <1>9, <2>4, <3>6, <5>1 DEF IsWrite
      <4>2. i \in P => cache[i] # Nothing
        BY <4>1 DEF Selected, Rows
      <4>3. CASE i \notin P
        <5>1. cache[i] # Nothing => i \notin touched[c]
          BY <2>2, <3>1, <3>6, <4>1, <4>3 DEF WroteDown
        <5> QED
          BY <2>2, <3>2, <3>6, <4>3, <5>1
      <4>4. CASE i \in P /\ m.kind = "deleteByQuery"
        BY <1>8, <4>4
      <4>5. CASE i \in P /\ m.kind = "patchByQuery"
        <5>1. i \notin tainted
          BY <1>3, <4>5
        <5>2. i \in touched[c]
          BY <3>1, <3>6, <4>1, <4>2, <4>5, <5>1 DEF WroteDown
        <5> QED
          BY <1>8, <2>4, <3>1, <4>5, <5>2 DEF WroteDown
      <4> QED
        BY <2>4, <3>6, <4>3, <4>4, <4>5 DEF IsWrite
    <3> QED
      BY <3>3, <3>4, <3>5, <3>6
  <2> QED
    BY <2>3, <2>4
<1>12. /\ down' \in Table /\ found' \in [Client -> Table] /\ touched' \in [Client -> SUBSET Id]
       /\ there' \in [Client -> SUBSET Id]
       /\ \A u \in Client : there'[u] \subseteq there[u] \cap Selected(ccall[u], down')
  BY <1>1 DEF CacheTypes, RowsFound
<1>13. \A i \in Id \ m.ids : cache'[i] = cache[i] /\ (i \in tainted => i \in tainted')
  BY <1>3, <1>5, <1>7, <1>8
<1>14. Asks(m) => \A i \in m.ids \cap there'[c] : found'[c][i] # Nothing
  BY <1>1 DEF RowsFound
<1>15. touched'[c] \subseteq ccall[c].ids /\ down' = down /\ UNCHANGED <<found, touched>>
  BY <1>1, <1>6
<1> QED
  BY <1>1, <1>3, <1>4, <1>8, <1>11, <1>12, <1>13, <1>14, <1>15, CacheWorkPreserves

LEMMA CacheStepPreserves == CacheInv /\ [CacheNext]_cacheVars => CacheInv'
<1> SUFFICES ASSUME CacheInv, [CacheNext]_cacheVars
             PROVE  CacheInv'
  OBVIOUS
<1>1. CASE UNCHANGED cacheVars
  BY <1>1 DEF cacheVars, CacheInv, CacheTypes, OverlapsKnown, About, UnderWay, IsWrite,
     TouchedKnown, FoundIsDown, WritesAreDown, WroteDown, QuietIsCoherent, Quiet, RowsFound,
     Asks, OnlyCache, SkipsCache
<1>2. CASE CacheNext
  BY <1>2, CacheCallPreserves, CacheExecuteReadPreserves,
     CacheExecuteWritePreserves, CacheFailPreserves, CacheAnswerPreserves DEF CacheNext
<1> QED
  BY <1>1, <1>2

LEMMA AlwaysCacheInv == CacheSpec => []CacheInv
BY CacheInitEstablishes, CacheStepPreserves, PTL DEF CacheSpec

(* The cache agrees with the downstream about every row it has, except where *)
(* calls overlapped, a write failed, left out one of the two or was refused  *)
(* by the cache, or selected its rows by a limit.                            *)
THEOREM CacheAlwaysCoherent == CacheSpec => []CacheCoherent
<1>1. CacheInv => CacheCoherent
  <2> SUFFICES ASSUME CacheInv, NEW i \in Id \ tainted,
                      \A c \in Client : UnderWay(c) /\ IsWrite(ccall[c]) => i \notin ccall[c].ids
               PROVE  cache[i] \in {Nothing, down[i]}
    BY DEF CacheCoherent
  <2>1. Quiet(i)
    BY DEF Quiet, About
  <2> QED
    BY <2>1 DEF CacheInv, QuietIsCoherent
<1> QED
  BY <1>1, AlwaysCacheInv, PTL

(* A read that may ask downstream, without a limit, finds every row it is    *)
(* about that was there all the while.                                       *)
THEOREM CacheAlwaysFindsRows == CacheSpec => []CachedReadsFindRows
<1>1. CacheInv => CachedReadsFindRows
  BY DEF CacheInv, RowsFound, CachedReadsFindRows, Asks
<1> QED
  BY <1>1, AlwaysCacheInv, PTL

-----------------------------------------------------------------------------
(* FileDB                                                                    *)

\* Client c is about to change the file.
Changing(c) == Active(c) /\ Changes(fcall[c])

FileTypes ==
  /\ plugin \in {"local", "memory"}
  /\ rows \in FileTable
  /\ expected \in FileTable
  /\ writers \subseteq Client
  /\ upset \in BOOLEAN
  /\ fpc \in [Client -> FilePc]
  /\ fcall \in [Client -> [kind : FileKind, ids : SUBSET Id]]
  /\ byId \in [Client -> FileTable]

\* Only a changing call has anything to save, and the writers are the
\* clients that stream.
OnlyChangesSave ==
  \A c \in Client :
    /\ fpc[c] \in {"opening", "streaming"} => Changes(fcall[c])
    /\ c \in writers <=> fpc[c] = "streaming"

\* One changing call at a time, which saves what an atomic store would hold
\* after it.
OneAtATime ==
  ~upset =>
    /\ \A c, u \in Client : Changing(c) /\ Changing(u) => c = u
    /\ writers = {} => whole = TRUE /\ rows = expected
    /\ \A c \in Client : fpc[c] = "opening" => byId[c] = Merged(fcall[c], c, rows)
    /\ \A c \in Client : fpc[c] = "streaming" =>
         rows = byId[c] /\ byId[c] = Merged(fcall[c], c, expected)

FileInv == FileTypes /\ OnlyChangesSave /\ OneAtATime

LEMMA MergedIsTable ==
  ASSUME NEW c \in Client, NEW m \in [kind : FileKind, ids : SUBSET Id], NEW t \in FileTable
  PROVE  Merged(m, c, t) \in FileTable
<1>1. ASSUME NEW i \in Id
      PROVE  (IF i \notin m.ids THEN t[i]
              ELSE CASE m.kind = "saveBatch" -> c
                     [] m.kind = "deleteByIds" -> Nothing
                     [] OTHER -> t[i]) \in Client \cup {Nothing}
  <2>1. t[i] \in Client \cup {Nothing}
    BY DEF FileTable
  <2>2. CASE m.kind = "saveBatch"
    BY <2>1, <2>2
  <2>3. CASE m.kind = "deleteByIds"
    BY <2>1, <2>3
  <2>4. CASE m.kind \notin {"saveBatch", "deleteByIds"}
    BY <2>1, <2>4
  <2> QED
    BY <2>2, <2>3, <2>4
<1> QED
  BY <1>1 DEF Merged, FileTable

\* A call that reads leaves every table as it is.
LEMMA ReadMergesNothing ==
  ASSUME NEW c \in Client, NEW m \in [kind : FileKind, ids : SUBSET Id], NEW t \in FileTable,
         ~Changes(m)
  PROVE  Merged(m, c, t) = t
<1>1. m.kind = "getByIds"
  BY DEF Changes
<1>2. ASSUME NEW i \in Id
      PROVE  (IF i \notin m.ids THEN t[i]
              ELSE CASE m.kind = "saveBatch" -> c
                     [] m.kind = "deleteByIds" -> Nothing
                     [] OTHER -> t[i]) = t[i]
  BY <1>1
<1>3. Merged(m, c, t) = [i \in Id |-> t[i]]
  BY <1>2 DEF Merged
<1> QED
  BY <1>3 DEF FileTable

LEMMA FileInitEstablishes == FileInit => FileInv
<1> SUFFICES ASSUME FileInit
             PROVE  FileInv
  OBVIOUS
<1>1. FileTypes
  BY DEF FileInit, FileTypes, FileTable, NoFile, FilePc, FileKind
<1>2. OnlyChangesSave
  BY DEF FileInit, OnlyChangesSave
<1>3. OneAtATime
  BY DEF FileInit, OneAtATime, Changing, Active
<1> QED
  BY <1>1, <1>2, <1>3 DEF FileInv

LEMMA FileMakePreserves ==
  ASSUME FileInv, NEW c \in Client, NEW m \in FileCall, FileMake(c, m)
  PROVE  FileInv'
<1> USE DEF FileInv
<1>1. m \in [kind : FileKind, ids : SUBSET Id]
  BY FileDBAssumption
<1>2. /\ fpc' = [fpc EXCEPT ![c] = "loading"] /\ fcall' = [fcall EXCEPT ![c] = m]
      /\ plugin' = plugin /\ rows' = rows /\ whole' = whole /\ writers' = writers
      /\ byId' = byId /\ expected' = expected
      /\ upset' = (upset \/ (Changes(m) /\ \E u \in Client \ {c} : Active(u) /\ Changes(fcall[u])))
      /\ ~Active(c)
  BY DEF FileMake
<1>3. FileTypes'
  BY <1>1, <1>2 DEF FileTypes, FilePc
<1>4. OnlyChangesSave'
  BY <1>2 DEF OnlyChangesSave, FileTypes, Active
<1>5. OneAtATime'
  <2> SUFFICES ASSUME ~upset'
               PROVE  OneAtATime'
    BY DEF OneAtATime
  <2>1. ~upset
    BY <1>2
  <2>2. ASSUME NEW u \in Client, NEW v \in Client, Changing(u)', Changing(v)'
        PROVE  u = v
    <3>1. CASE u # c /\ v # c
      <4>1. Changing(u) /\ Changing(v)
        BY <1>2, <2>2, <3>1 DEF Changing, Active, FileTypes
      <4> QED
        BY <4>1, <2>1 DEF OneAtATime
    <3>2. ASSUME NEW w \in Client, w # c, Changing(w)', Changing(c)'
          PROVE  FALSE
      <4>1. Active(w) /\ Changes(fcall[w]) /\ Changes(m)
        BY <1>2, <3>2 DEF Changing, Active, FileTypes
      <4> QED
        BY <4>1, <1>2, <3>2
    <3> QED
      BY <2>2, <3>1, <3>2
  <2>3. ASSUME NEW u \in Client, fpc'[u] \in {"opening", "streaming"}
        PROVE  fpc'[u] = fpc[u] /\ fcall'[u] = fcall[u]
    BY <1>2, <2>3 DEF FileTypes
  <2> QED
    BY <1>2, <2>1, <2>2, <2>3 DEF OneAtATime
<1> QED
  BY <1>3, <1>4, <1>5

\* Client c's call has loaded the rows t, which are those of the file if it
\* is whole.
LEMMA LoadedPreserves ==
  ASSUME FileInv, NEW c \in Client, NEW t \in FileTable, Loaded(c, t),
         fpc[c] = "loading",
         whole = TRUE => t = rows,
         UNCHANGED <<plugin, rows, whole, writers, fcall, upset>>
  PROVE  FileInv'
<1> USE DEF FileInv
<1> DEFINE m == fcall[c]
           merged == Merged(m, c, t)
<1>1. m \in [kind : FileKind, ids : SUBSET Id] /\ merged \in FileTable
  BY MergedIsTable DEF FileTypes
<1>2. /\ byId' = [byId EXCEPT ![c] = merged]
      /\ fpc' = [fpc EXCEPT ![c] = IF merged = t THEN "resolved" ELSE "opening"]
      /\ expected' = IF merged = t THEN Merged(m, c, expected) ELSE expected
  BY DEF Loaded
<1>3. Merged(m, c, expected) \in FileTable
  BY <1>1, MergedIsTable DEF FileTypes
<1> HIDE DEF merged
<1>4. FileTypes'
  <2>1. expected' \in FileTable
    BY <1>2, <1>3 DEF FileTypes
  <2>2. fpc' \in [Client -> FilePc]
    BY <1>2 DEF FileTypes, FilePc
  <2> QED
    BY <1>1, <1>2, <2>1, <2>2 DEF FileTypes
<1>5. merged # t => Changes(m)
  BY <1>1, ReadMergesNothing DEF merged
<1>6. OnlyChangesSave'
  BY <1>2, <1>5 DEF OnlyChangesSave, FileTypes
<1>7. OneAtATime'
  <2> SUFFICES ASSUME ~upset'
               PROVE  OneAtATime'
    BY DEF OneAtATime
  <2>1. ~upset
    OBVIOUS
  <2>2. ASSUME NEW u \in Client, Changing(u)'
        PROVE  Changing(u)
    BY <1>2, <2>2 DEF Changing, Active, FileTypes
  <2>3. CASE ~Changes(m)
    <3>1. expected' = expected /\ merged = t
      BY <1>1, <1>2, <2>3, ReadMergesNothing DEF merged, FileTypes
    <3>2. \A u \in Client : fpc'[u] \in {"opening", "streaming"} =>
                              u # c /\ fpc'[u] = fpc[u] /\ byId'[u] = byId[u]
      BY <1>2, <3>1 DEF FileTypes
    <3> QED
      BY <2>1, <2>2, <3>1, <3>2 DEF OneAtATime
  <2>4. CASE Changes(m)
    <3>1. Changing(c) /\ \A u \in Client : Changing(u) => u = c
      BY <2>1, <2>4 DEF OneAtATime, Changing, Active
    <3>2. \A u \in Client : fpc[u] # "streaming"
      BY <3>1 DEF OnlyChangesSave, Changing, Active
    <3>3. writers = {}
      BY <3>2 DEF OnlyChangesSave, FileTypes
    <3>4. whole = TRUE /\ rows = expected /\ t = rows
      BY <2>1, <3>3 DEF OneAtATime
    <3>5. expected' = expected
      BY <1>2, <3>4 DEF merged
    <3>6. ASSUME NEW u \in Client, fpc'[u] \in {"opening", "streaming"}
          PROVE  u = c /\ fpc'[u] = "opening" /\ byId'[u] = merged
      <4>1. CASE u # c
        <5>1. fpc[u] \in {"opening", "streaming"}
          BY <1>2, <3>6, <4>1 DEF FileTypes
        <5>2. Changing(u)
          BY <5>1 DEF Changing, Active, OnlyChangesSave
        <5> QED
          BY <5>2, <3>1, <4>1
      <4>2. CASE u = c
        BY <1>2, <3>6, <4>2 DEF FileTypes
      <4> QED
        BY <4>1, <4>2
    <3> QED
      BY <2>1, <2>2, <3>3, <3>4, <3>5, <3>6 DEF OneAtATime, merged
  <2> QED
    BY <2>3, <2>4
<1> QED
  BY <1>4, <1>6, <1>7

LEMMA LoadFilePreserves ==
  ASSUME FileInv, NEW c \in Client, LoadFile(c)
  PROVE  FileInv'
<1>1. CASE whole /\ Loaded(c, rows)
  BY <1>1, LoadedPreserves DEF LoadFile, FileInv, FileTypes
<1>2. ASSUME NEW ids \in SUBSET Id, ~whole,
             Loaded(c, [i \in Id |-> IF i \in ids THEN rows[i] ELSE Nothing])
      PROVE  FileInv'
  <2>1. [i \in Id |-> IF i \in ids THEN rows[i] ELSE Nothing] \in FileTable
    BY DEF FileInv, FileTypes, FileTable
  <2> QED
    BY <1>2, <2>1, LoadedPreserves DEF LoadFile
<1>3. CASE /\ fpc' = [fpc EXCEPT ![c] = "rejected"]
           /\ UNCHANGED <<byId, expected>>
  <2>1. UNCHANGED <<plugin, rows, whole, writers, fcall, fcalls, crashes, upset>>
    BY DEF LoadFile
  <2>2. fpc[c] = "loading"
    BY DEF LoadFile
  <2>3. FileTypes'
    BY <1>3, <2>1 DEF FileInv, FileTypes, FilePc
  <2>4. OnlyChangesSave'
    BY <1>3, <2>1, <2>2 DEF FileInv, FileTypes, OnlyChangesSave
  <2>5. \A u \in Client : /\ Changing(u)' => Changing(u)
                          /\ fpc'[u] \in {"opening", "streaming"} => fpc'[u] = fpc[u]
    BY <1>3, <2>1 DEF FileInv, FileTypes, Changing, Active
  <2>6. OneAtATime'
    BY <1>3, <2>1, <2>5 DEF FileInv, OneAtATime
  <2> QED
    BY <2>3, <2>4, <2>6 DEF FileInv
<1> QED
  BY <1>1, <1>2, <1>3 DEF LoadFile

\* What c was to write is written: nobody else changes the file then.
LEMMA SaveInMemoryPreserves ==
  ASSUME FileInv, NEW c \in Client, SaveInMemory(c)
  PROVE  FileInv'
<1> USE DEF FileInv
<1> DEFINE m == fcall[c]
<1>1. /\ fpc[c] = "opening" /\ fpc' = [fpc EXCEPT ![c] = "resolved"]
      /\ rows' = byId[c] /\ expected' = Merged(m, c, expected)
      /\ UNCHANGED <<plugin, whole, writers, fcall, byId, upset>>
  BY DEF SaveInMemory, Saved
<1>2. m \in [kind : FileKind, ids : SUBSET Id] /\ expected' \in FileTable
  BY <1>1, MergedIsTable DEF FileTypes
<1>3. FileTypes'
  BY <1>1, <1>2 DEF FileTypes, FilePc
<1>4. OnlyChangesSave'
  BY <1>1 DEF OnlyChangesSave, FileTypes
<1>5. OneAtATime'
  <2> SUFFICES ASSUME ~upset'
               PROVE  OneAtATime'
    BY DEF OneAtATime
  <2>1. ~upset /\ Changing(c)
    BY <1>1 DEF Changing, Active, OnlyChangesSave
  <2>2. \A u \in Client : Changing(u) => u = c
    BY <2>1 DEF OneAtATime
  <2>3. \A u \in Client : fpc[u] \in {"opening", "streaming"} => u = c
    BY <2>2 DEF Changing, Active, OnlyChangesSave
  <2>4. writers = {}
    BY <2>3, <1>1 DEF OnlyChangesSave, FileTypes
  <2>5. whole = TRUE /\ rows' = expected'
    BY <1>1, <2>1, <2>4 DEF OneAtATime
  <2>6. \A u \in Client : ~Changing(u)' /\ fpc'[u] \notin {"opening", "streaming"}
    BY <1>1, <2>2, <2>3 DEF Changing, Active, FileTypes
  <2> QED
    BY <1>1, <2>5, <2>6 DEF OneAtATime
<1> QED
  BY <1>3, <1>4, <1>5

LEMMA OpenFilePreserves ==
  ASSUME FileInv, NEW c \in Client, OpenFile(c)
  PROVE  FileInv'
<1> USE DEF FileInv
<1>1. /\ fpc[c] = "opening" /\ fpc' = [fpc EXCEPT ![c] = "streaming"]
      /\ rows' = byId[c] /\ writers' = writers \cup {c}
      /\ UNCHANGED <<plugin, fcall, byId, expected, upset>>
  BY DEF OpenFile
<1>2. FileTypes'
  BY <1>1 DEF FileTypes, FilePc
<1>3. OnlyChangesSave'
  BY <1>1 DEF OnlyChangesSave, FileTypes
<1>4. OneAtATime'
  <2> SUFFICES ASSUME ~upset'
               PROVE  OneAtATime'
    BY DEF OneAtATime
  <2>1. ~upset /\ Changing(c)
    BY <1>1 DEF Changing, Active, OnlyChangesSave
  <2>2. \A u \in Client : Changing(u) => u = c
    BY <2>1 DEF OneAtATime
  <2>3. \A u \in Client : fpc[u] \in {"opening", "streaming"} => u = c
    BY <2>2 DEF Changing, Active, OnlyChangesSave
  <2>4. writers = {}
    BY <2>3, <1>1 DEF OnlyChangesSave, FileTypes
  <2>5. byId[c] = Merged(fcall[c], c, expected)
    BY <1>1, <2>1, <2>4 DEF OneAtATime
  <2>6. \A u \in Client : /\ Changing(u)' => u = c
                          /\ fpc'[u] = "streaming" => u = c
                          /\ fpc'[u] # "opening"
    BY <1>1, <2>2, <2>3 DEF Changing, Active, FileTypes
  <2> QED
    BY <1>1, <2>5, <2>6 DEF OneAtATime
<1> QED
  BY <1>2, <1>3, <1>4

LEMMA CloseFilePreserves ==
  ASSUME FileInv, NEW c \in Client, CloseFile(c)
  PROVE  FileInv'
<1> USE DEF FileInv
<1> DEFINE m == fcall[c]
<1>1. /\ fpc[c] = "streaming" /\ fpc' = [fpc EXCEPT ![c] = "resolved"]
      /\ expected' = Merged(m, c, expected) /\ writers' = writers \ {c}
      /\ ~upset => whole' = TRUE /\ rows' = rows
      /\ rows' \in {rows, byId[c]}
      /\ UNCHANGED <<plugin, fcall, byId, upset>>
  BY DEF CloseFile, Saved
<1>2. m \in [kind : FileKind, ids : SUBSET Id] /\ expected' \in FileTable
  BY <1>1, MergedIsTable DEF FileTypes
<1>3. FileTypes'
  BY <1>1, <1>2 DEF FileTypes, FilePc
<1>4. OnlyChangesSave'
  BY <1>1 DEF OnlyChangesSave, FileTypes
<1>5. OneAtATime'
  <2> SUFFICES ASSUME ~upset'
               PROVE  OneAtATime'
    BY DEF OneAtATime
  <2>1. ~upset /\ Changing(c)
    BY <1>1 DEF Changing, Active, OnlyChangesSave
  <2>2. \A u \in Client : Changing(u) => u = c
    BY <2>1 DEF OneAtATime
  <2>3. \A u \in Client : fpc[u] \in {"opening", "streaming"} => u = c
    BY <2>2 DEF Changing, Active, OnlyChangesSave
  <2>4. rows' = expected' /\ whole' = TRUE
    BY <1>1, <2>1 DEF OneAtATime
  <2>5. \A u \in Client : ~Changing(u)' /\ fpc'[u] \notin {"opening", "streaming"}
    BY <1>1, <2>2, <2>3 DEF Changing, Active, FileTypes
  <2> QED
    BY <1>1, <2>4, <2>5 DEF OneAtATime
<1> QED
  BY <1>3, <1>4, <1>5

LEMMA CrashPreserves ==
  ASSUME FileInv, Crash
  PROVE  FileInv'
<1> USE DEF FileInv
<1>1. /\ fpc' = [u \in Client |-> IF Active(u) THEN "rejected" ELSE fpc[u]]
      /\ writers' = {} /\ upset' = (upset \/ writers # {})
      /\ \/ rows' = rows /\ expected' = expected
         \/ rows' = NoFile /\ expected' = NoFile
      /\ UNCHANGED <<plugin, whole, fcall, byId>>
  BY DEF Crash
<1>2. FileTypes'
  BY <1>1 DEF FileTypes, FilePc, NoFile, FileTable
<1>3. \A u \in Client : ~Active(u)' /\ fpc'[u] \notin {"opening", "streaming"}
  BY <1>1 DEF Active
<1>4. OnlyChangesSave'
  BY <1>1, <1>3 DEF OnlyChangesSave
<1>5. OneAtATime'
  BY <1>1, <1>3 DEF OneAtATime, Changing
<1> QED
  BY <1>2, <1>4, <1>5

LEMMA FileStepPreserves == FileInv /\ [FileNext]_fileVars => FileInv'
<1> SUFFICES ASSUME FileInv, [FileNext]_fileVars
             PROVE  FileInv'
  OBVIOUS
<1>1. CASE UNCHANGED fileVars
  BY <1>1 DEF fileVars, FileInv, FileTypes, OnlyChangesSave, OneAtATime, Changing, Active
<1>2. CASE FileNext
  BY <1>2, FileMakePreserves, LoadFilePreserves, SaveInMemoryPreserves, OpenFilePreserves,
     CloseFilePreserves, CrashPreserves DEF FileNext
<1> QED
  BY <1>1, <1>2

(* FileDB's file is what an atomic store would hold, as long as no two      *)
(* changing calls overlap and no crash falls into the streaming of a file.  *)
THEOREM FileAlwaysAtomicStore == FileSpec => []FileIsAtomicStore
<1>1. FileSpec => []FileInv
  BY FileInitEstablishes, FileStepPreserves, PTL DEF FileSpec
<1>2. FileInv => FileIsAtomicStore
  BY DEF FileInv, OneAtATime, FileIsAtomicStore
<1> QED
  BY <1>1, <1>2, PTL

-----------------------------------------------------------------------------
(* InMemoryDB's directory                                                    *)

DiskTypes ==
  /\ mem \in [Tables -> Nat]
  /\ files \in [Tables -> Nat \cup {Absent, Partial}]
  /\ proc \in [DiskCall -> {"due", "emptying", "streaming", "listing", "reading", "failed", "done"}]
  /\ toDo \in [DiskCall -> SUBSET Tables]
  /\ toWrite \in [DiskCall -> [Tables -> Nat]]
  /\ flushed \in [Tables -> Nat]
  /\ version \in Nat
  /\ valid \in BOOLEAN
  /\ marred \subseteq DiskCall

\* A call that overlaps a flush is known to.
OverlapsMar ==
  /\ \A f, o \in DiskCall :
       Flushing(f) /\ o # f /\ (Flushing(o) \/ Restoring(o)) => o \in marred
  /\ \A o \in DiskCall : proc[o] = "due" => o \notin marred

\* The file of a flushed table.
FileOf(t) == IF flushed[t] = 0 THEN Absent ELSE flushed[t]

\* A completed flush has left the file of each table.
FlushIsThere ==
  valid => /\ \A t \in Tables : files[t] = FileOf(t)
           /\ \A f \in DiskCall : proc[f] # "streaming"

\* A flush by itself removes all there is, then writes what it took.
FlushWrites ==
  \A f \in DiskCall : f \notin marred =>
    /\ proc[f] = "emptying" => \A t \in Tables : files[t] # Absent => t \in toDo[f]
    /\ proc[f] = "streaming" =>
         \A t \in Tables : IF t \in toDo[f] THEN toWrite[f][t] = flushed[t] /\ flushed[t] # 0
                                            ELSE files[t] = FileOf(t)

\* Restores that no flush falls into read the files there are.
RestoreReads ==
  \A r \in DiskCall : r \notin marred /\ proc[r] \in {"reading", "failed"} =>
                        \A t \in toDo[r] : files[t] # Absent

\* In quiet times only such restores are at work, and what differs from the
\* last flush is yet to be read.
Restored ==
  quiet =>
    /\ \A o \in DiskCall : ~Flushing(o) /\ (Restoring(o) => o \notin marred)
    /\ valid =>
         \A t \in Tables :
           \/ mem[t] = flushed[t]
           \/ \E r \in DiskCall : \/ proc[r] = "listing" /\ mem[t] = 0
                                  \/ proc[r] \in {"reading", "failed"} /\ t \in toDo[r]

DiskInv == DiskTypes /\ OverlapsMar /\ FlushIsThere /\ FlushWrites /\ RestoreReads /\ Restored

LEMMA DiskInitEstablishes == DiskInit => DiskInv
<1> SUFFICES ASSUME DiskInit
             PROVE  DiskInv
  OBVIOUS
<1>1. DiskTypes
  BY DEF DiskInit, DiskTypes, NoData
<1>2. FlushIsThere
  BY DEF DiskInit, FlushIsThere, FileOf, NoData
<1> QED
  BY <1>1, <1>2 DEF DiskInv, DiskInit, OverlapsMar, FlushWrites, RestoreReads, Restored,
     Flushing

\* A write ends the quiet, and leaves the files and the calls as they are.
LEMMA ChangeTablePreserves ==
  ASSUME DiskInv, NEW t \in Tables, ChangeTable(t)
  PROVE  DiskInv'
<1> USE DEF DiskInv
<1>1. /\ UNCHANGED <<files, proc, toDo, toWrite, flushed, valid, marred>>
      /\ quiet' = FALSE
  BY DEF ChangeTable
<1>2. mem' \in [Tables -> Nat] /\ version' \in Nat
  BY DEF ChangeTable, DiskTypes
<1> QED
  BY <1>1, <1>2 DEF DiskTypes, OverlapsMar, FlushIsThere, FileOf, FlushWrites, RestoreReads,
     Restored, Flushing, Restoring

LEMMA ChangeInPlacePreserves ==
  ASSUME DiskInv, NEW t \in Tables, ChangeInPlace(t)
  PROVE  DiskInv'
<1> USE DEF DiskInv
<1>1. PICK S \in SUBSET {f \in DiskCall : Streaming(f, t)} :
        toWrite' = [f \in DiskCall |-> IF f \in S THEN [toWrite[f] EXCEPT ![t] = version']
                                                  ELSE toWrite[f]]
  BY DEF ChangeInPlace
<1>2. /\ UNCHANGED <<files, proc, toDo, flushed, valid>>
      /\ quiet' = FALSE
      /\ marred' = marred \cup {f \in DiskCall : Streaming(f, t)}
      /\ version' = version + 1
      /\ mem' = [mem EXCEPT ![t] = version']
  BY DEF ChangeInPlace
<1>3. DiskTypes'
  <2>1. version' \in Nat /\ mem' \in [Tables -> Nat] /\ marred' \subseteq DiskCall
    BY <1>2 DEF DiskTypes
  <2>2. \A f \in DiskCall : toWrite[f] \in [Tables -> Nat]
    BY DEF DiskTypes
  <2>3. \A f \in DiskCall : [toWrite[f] EXCEPT ![t] = version'] \in [Tables -> Nat]
    BY <2>1, <2>2
  <2>4. toWrite' \in [DiskCall -> [Tables -> Nat]]
    BY <1>1, <2>2, <2>3
  <2> QED
    BY <1>2, <2>1, <2>4 DEF DiskTypes
<1>4. \A f \in DiskCall : f \notin marred' => f \notin marred /\ toWrite'[f] = toWrite[f]
  BY <1>1, <1>2
<1>5. OverlapsMar'
  BY <1>2 DEF OverlapsMar, Flushing, Restoring, Streaming
<1>6. FlushIsThere' /\ FlushWrites'
  BY <1>2, <1>4 DEF FlushIsThere, FileOf, FlushWrites
<1>7. RestoreReads' /\ Restored'
  BY <1>2 DEF RestoreReads, Restored
<1> QED
  BY <1>3, <1>5, <1>6, <1>7

LEMMA FlushPreserves ==
  ASSUME DiskInv, NEW f \in DiskCall, Flush(f)
  PROVE  DiskInv'
<1> USE DEF DiskInv
<1>1. /\ proc[f] = "due" /\ proc' = [proc EXCEPT ![f] = "emptying"]
      /\ toDo' = [toDo EXCEPT ![f] = Present]
      /\ marred' = marred \cup Overlapped(f)
      /\ quiet' = FALSE
      /\ UNCHANGED <<mem, files, toWrite, version, flushed, valid>>
  BY DEF Flush
<1>2. \A o \in DiskCall : /\ (Flushing(o))' <=> Flushing(o) \/ o = f
                          /\ o # f => proc'[o] = proc[o] /\ toDo'[o] = toDo[o]
                          /\ (Restoring(o))' <=> Restoring(o)
  BY <1>1 DEF DiskTypes, Flushing, Restoring
<1>3. /\ \A o \in DiskCall : o # f /\ (Flushing(o) \/ Restoring(o)) => o \in marred'
      /\ (\E g \in DiskCall : Flushing(g)) => f \in marred'
      /\ \A o \in DiskCall : o \in marred => o \in marred'
  BY <1>1 DEF Overlapped
<1>4. proc'[f] = "emptying" /\ toDo'[f] = Present
  BY <1>1 DEF DiskTypes
<1>5. DiskTypes'
  BY <1>1 DEF DiskTypes, Overlapped, Present
<1>6. OverlapsMar'
  <2>1. ASSUME NEW g \in DiskCall, NEW o \in DiskCall, (Flushing(g))', o # g,
               (Flushing(o))' \/ (Restoring(o))'
        PROVE  o \in marred'
    <3>1. CASE g = f
      BY <1>2, <1>3, <2>1, <3>1
    <3>2. CASE g # f /\ o = f
      BY <1>2, <1>3, <2>1, <3>2
    <3>3. CASE g # f /\ o # f
      BY <1>2, <1>3, <2>1, <3>3 DEF OverlapsMar
    <3> QED
      BY <3>1, <3>2, <3>3
  <2>2. ASSUME NEW o \in DiskCall, proc'[o] = "due"
        PROVE  o \notin marred'
    <3>1. o # f /\ proc[o] = "due"
      BY <1>2, <1>4, <2>2
    <3>2. o \notin marred /\ ~Flushing(o) /\ ~Restoring(o)
      BY <3>1 DEF OverlapsMar, Flushing, Restoring
    <3> QED
      BY <1>1, <3>1, <3>2 DEF Overlapped
  <2> QED
    BY <2>1, <2>2 DEF OverlapsMar
<1>7. FlushIsThere'
  BY <1>1, <1>2, <1>4 DEF FlushIsThere, FileOf
<1>8. FlushWrites'
  BY <1>1, <1>2, <1>3, <1>4 DEF FlushWrites, FileOf, Present
<1>9. RestoreReads'
  BY <1>1, <1>2, <1>3, <1>4 DEF RestoreReads
<1> QED
  BY <1>1, <1>5, <1>6, <1>7, <1>8, <1>9 DEF Restored

\* While a flush that none overlaps is at work, no other call changes files,
\* and no restore is at work but marred ones.
LEMMA FlushingAlone ==
  ASSUME DiskInv, NEW f \in DiskCall, Flushing(f)
  PROVE  /\ \A g \in DiskCall : g # f /\ Flushing(g) => f \in marred /\ g \in marred
         /\ \A r \in DiskCall : Restoring(r) => r \in marred
         /\ ~quiet
<1>1. \A r \in DiskCall : Restoring(r) => r # f
  BY DEF Flushing, Restoring
<1> QED
  BY <1>1 DEF DiskInv, OverlapsMar, Restored

LEMMA RemoveFilePreserves ==
  ASSUME DiskInv, NEW f \in DiskCall, NEW t \in Tables, RemoveFile(f, t)
  PROVE  DiskInv'
<1> USE DEF DiskInv
<1>1. /\ proc[f] = "emptying" /\ t \in toDo[f]
      /\ files' = [files EXCEPT ![t] = Absent]
      /\ toDo' = [g \in DiskCall |-> IF g = f \/ Streaming(g, t) THEN toDo[g] \ {t}
                                                                 ELSE toDo[g]]
      /\ valid' = FALSE
      /\ UNCHANGED <<mem, proc, toWrite, version, flushed, quiet, marred>>
  BY DEF RemoveFile
<1>2. Flushing(f)
  BY <1>1 DEF Flushing
<1>3. ~quiet
  BY <1>2, FlushingAlone
<1>4. \A o \in DiskCall : /\ (Flushing(o))' <=> Flushing(o)
                          /\ (Restoring(o))' <=> Restoring(o)
                          /\ Restoring(o) => toDo'[o] = toDo[o]
  BY <1>1 DEF DiskTypes, Flushing, Restoring, Streaming
<1>5. DiskTypes'
  BY <1>1 DEF DiskTypes
<1>6. OverlapsMar'
  BY <1>1, <1>4 DEF OverlapsMar
<1>7. FlushWrites'
  <2> SUFFICES ASSUME NEW g \in DiskCall, g \notin marred, Flushing(g)
               PROVE  g = f
    BY <1>1 DEF FlushWrites, Flushing, DiskTypes
  <2> QED
    BY <1>2, FlushingAlone
<1>8. RestoreReads'
  <2> SUFFICES ASSUME NEW r \in DiskCall, r \notin marred, proc[r] \in {"reading", "failed"}
               PROVE  toDo[r] = {}
    BY <1>1 DEF RestoreReads, DiskTypes
  <2> QED
    BY <1>2, FlushingAlone DEF Restoring
<1> QED
  BY <1>1, <1>3, <1>5, <1>6, <1>7, <1>8 DEF FlushIsThere, Restored

LEMMA OpenFilesPreserves ==
  ASSUME DiskInv, NEW f \in DiskCall, OpenFiles(f)
  PROVE  DiskInv'
<1> USE DEF DiskInv
<1>1. /\ proc[f] = "emptying" /\ toDo[f] = {}
      /\ proc' = [proc EXCEPT ![f] = "streaming"]
      /\ toWrite' = [toWrite EXCEPT ![f] = mem]
      /\ flushed' = mem
      /\ toDo' = [toDo EXCEPT ![f] = {t \in Tables : mem[t] # 0}]
      /\ files' = [t \in Tables |-> IF mem[t] # 0 THEN Partial ELSE files[t]]
      /\ valid' = FALSE
      /\ UNCHANGED <<mem, version, quiet, marred>>
  BY DEF OpenFiles
<1>2. Flushing(f)
  BY <1>1 DEF Flushing
<1>3. ~quiet
  BY <1>2, FlushingAlone
<1>4. \A o \in DiskCall : /\ (Flushing(o))' <=> Flushing(o)
                          /\ (Restoring(o))' <=> Restoring(o)
                          /\ proc'[o] = "due" => proc[o] = "due"
                          /\ o # f => toDo'[o] = toDo[o] /\ proc'[o] = proc[o]
  BY <1>1 DEF DiskTypes, Flushing, Restoring
<1>5. DiskTypes'
  BY <1>1 DEF DiskTypes
<1>6. OverlapsMar'
  BY <1>1, <1>4 DEF OverlapsMar
<1>7. FlushWrites'
  <2> SUFFICES ASSUME NEW g \in DiskCall, g \notin marred, (Flushing(g))'
               PROVE  /\ proc'[g] = "streaming"
                      /\ \A t \in Tables :
                           IF t \in toDo'[g] THEN toWrite'[g][t] = flushed'[t] /\ flushed'[t] # 0
                                             ELSE files'[t] = FileOf(t)'
    BY <1>1 DEF FlushWrites, Flushing
  <2>1. g = f
    BY <1>2, <1>4, FlushingAlone
  <2>2. \A t \in Tables : files[t] = Absent
    BY <1>1, <2>1 DEF FlushWrites
  <2>3. /\ proc'[f] = "streaming" /\ toWrite'[f] = mem
        /\ toDo'[f] = {t \in Tables : mem[t] # 0}
    BY <1>1 DEF DiskTypes
  <2> QED
    BY <1>1, <2>1, <2>2, <2>3 DEF FileOf
<1>8. RestoreReads'
  <2> SUFFICES ASSUME NEW r \in DiskCall, r \notin marred, proc'[r] \in {"reading", "failed"}
               PROVE  toDo'[r] = {}
    BY <1>1 DEF RestoreReads
  <2>1. r # f
    BY <1>1 DEF DiskTypes
  <2> QED
    BY <1>2, <1>4, <2>1, FlushingAlone DEF Restoring
<1> QED
  BY <1>1, <1>3, <1>5, <1>6, <1>7, <1>8 DEF FlushIsThere, Restored

LEMMA FileWrittenPreserves ==
  ASSUME DiskInv, NEW f \in DiskCall, NEW t \in Tables, FileWritten(f, t)
  PROVE  DiskInv'
<1> USE DEF DiskInv
<1>1. /\ proc[f] = "streaming" /\ t \in toDo[f]
      /\ toDo' = [toDo EXCEPT ![f] = @ \ {t}]
      /\ \/ /\ files' = [files EXCEPT ![t] = toWrite[f][t]]
            /\ UNCHANGED marred
         \/ /\ files' = [files EXCEPT ![t] = Partial]
            /\ marred' = marred \cup {f}
      /\ UNCHANGED <<mem, proc, toWrite, version, flushed, valid, quiet>>
  BY DEF FileWritten, Streaming
<1>2. Flushing(f)
  BY <1>1 DEF Flushing
<1>3. ~quiet /\ ~valid
  BY <1>1, <1>2, FlushingAlone DEF FlushIsThere
<1>4. \A o \in DiskCall : /\ (Flushing(o))' <=> Flushing(o)
                          /\ (Restoring(o))' <=> Restoring(o)
                          /\ o # f => toDo'[o] = toDo[o]
                          /\ o \in marred => o \in marred'
                          /\ o # f => (o \in marred' <=> o \in marred)
  BY <1>1 DEF DiskTypes, Flushing, Restoring
<1>5. DiskTypes'
  <2>1. toWrite[f][t] \in Nat
    BY DEF DiskTypes
  <2>2. files' \in [Tables -> Nat \cup {Absent, Partial}]
    BY <1>1, <2>1 DEF DiskTypes
  <2> QED
    BY <1>1, <2>2 DEF DiskTypes
<1>6. OverlapsMar'
  BY <1>1, <1>4 DEF OverlapsMar
<1>7. FlushWrites'
  <2> SUFFICES ASSUME NEW g \in DiskCall, g \notin marred', Flushing(g)
               PROVE  /\ proc'[g] = "streaming"
                      /\ \A u \in Tables :
                           IF u \in toDo'[g] THEN toWrite'[g][u] = flushed'[u] /\ flushed'[u] # 0
                                             ELSE files'[u] = FileOf(u)'
    BY <1>1 DEF FlushWrites, Flushing
  <2>1. g \notin marred
    BY <1>4
  <2>2. g = f
    BY <1>2, <2>1, FlushingAlone
  <2>3. files' = [files EXCEPT ![t] = toWrite[f][t]] /\ toDo'[f] = toDo[f] \ {t}
    BY <1>1, <2>2 DEF DiskTypes
  <2>4. \A u \in Tables : IF u \in toDo[f] THEN toWrite[f][u] = flushed[u] /\ flushed[u] # 0
                                           ELSE files[u] = FileOf(u)
    BY <1>1, <2>1, <2>2 DEF FlushWrites
  <2> QED
    BY <1>1, <2>2, <2>3, <2>4 DEF FileOf, DiskTypes
<1>8. RestoreReads'
  <2> SUFFICES ASSUME NEW r \in DiskCall, r \notin marred', proc[r] \in {"reading", "failed"}
               PROVE  toDo'[r] = {}
    BY <1>1 DEF RestoreReads
  <2>1. r # f /\ r \notin marred
    BY <1>1, <1>4
  <2> QED
    BY <1>2, <1>4, <2>1, FlushingAlone DEF Restoring
<1> QED
  BY <1>1, <1>3, <1>5, <1>6, <1>7, <1>8 DEF FlushIsThere, Restored

LEMMA FlushDonePreserves ==
  ASSUME DiskInv, NEW f \in DiskCall, FlushDone(f)
  PROVE  DiskInv'
<1> USE DEF DiskInv
<1>1. /\ proc[f] = "streaming" /\ toDo[f] = {}
      /\ proc' = [proc EXCEPT ![f] = "done"]
      /\ valid' = (f \notin marred)
      /\ toWrite' = [toWrite EXCEPT ![f] = NoData]
      /\ UNCHANGED <<mem, files, toDo, version, flushed, quiet, marred>>
  BY DEF FlushDone
<1>2. Flushing(f)
  BY <1>1 DEF Flushing
<1>3. ~quiet
  BY <1>2, FlushingAlone
<1>4. \A o \in DiskCall : /\ (Flushing(o))' <=> Flushing(o) /\ o # f
                          /\ (Restoring(o))' <=> Restoring(o)
                          /\ proc'[o] = "due" => proc[o] = "due"
                          /\ o # f => toWrite'[o] = toWrite[o] /\ proc'[o] = proc[o]
  BY <1>1 DEF DiskTypes, Flushing, Restoring
<1>5. DiskTypes'
  <2>1. NoData \in [Tables -> Nat]
    BY DEF NoData
  <2> QED
    BY <1>1, <2>1 DEF DiskTypes
<1>6. OverlapsMar'
  BY <1>1, <1>4 DEF OverlapsMar
<1>7. FlushIsThere'
  <2> SUFFICES ASSUME f \notin marred
               PROVE  /\ \A t \in Tables : files[t] = FileOf(t)
                      /\ \A g \in DiskCall : proc'[g] # "streaming"
    BY <1>1 DEF FlushIsThere, FileOf
  <2>1. \A t \in Tables : files[t] = FileOf(t)
    BY <1>1 DEF FlushWrites
  <2>2. \A g \in DiskCall : ~(Flushing(g))'
    BY <1>2, <1>4, FlushingAlone
  <2> QED
    BY <2>1, <2>2 DEF Flushing
<1>8. FlushWrites'
  <2>1. proc'[f] = "done"
    BY <1>1 DEF DiskTypes
  <2> QED
    BY <1>1, <1>4, <2>1 DEF FlushWrites, FileOf
<1>9. RestoreReads'
  <2>1. proc'[f] = "done"
    BY <1>1 DEF DiskTypes
  <2> QED
    BY <1>1, <1>4, <2>1 DEF RestoreReads
<1> QED
  BY <1>1, <1>3, <1>5, <1>6, <1>7, <1>8, <1>9 DEF Restored

LEMMA RestorePreserves ==
  ASSUME DiskInv, NEW r \in DiskCall, Restore(r)
  PROVE  DiskInv'
<1> USE DEF DiskInv
<1>1. /\ proc[r] = "due" /\ proc' = [proc EXCEPT ![r] = "listing"]
      /\ mem' = NoData
      /\ quiet' = /\ \A f \in DiskCall : ~Flushing(f)
                  /\ \A o \in DiskCall : Restoring(o) => o \notin marred
      /\ marred' = IF \E f \in DiskCall : Flushing(f) THEN marred \cup {r} ELSE marred
      /\ UNCHANGED <<files, toDo, toWrite, version, flushed, valid>>
  BY DEF Restore, Cleared
<1>2. \A o \in DiskCall : /\ (Flushing(o))' <=> Flushing(o)
                          /\ (Restoring(o))' <=> Restoring(o) \/ o = r
                          /\ o # r => proc'[o] = proc[o]
                          /\ o # r => (o \in marred' <=> o \in marred)
                          /\ o \in marred => o \in marred'
  BY <1>1 DEF DiskTypes, Flushing, Restoring
<1>3. proc'[r] = "listing"
  BY <1>1 DEF DiskTypes
<1>4. DiskTypes'
  BY <1>1 DEF DiskTypes, NoData
<1>5. OverlapsMar'
  <2>1. ASSUME NEW f \in DiskCall, NEW o \in DiskCall, (Flushing(f))', o # f,
               (Flushing(o))' \/ (Restoring(o))'
        PROVE  o \in marred'
    <3>1. Flushing(f)
      BY <1>2, <2>1
    <3>2. CASE o = r
      BY <1>1, <3>1, <3>2
    <3>3. CASE o # r
      BY <1>2, <2>1, <3>1, <3>3 DEF OverlapsMar
    <3> QED
      BY <3>2, <3>3
  <2>2. ASSUME NEW o \in DiskCall, proc'[o] = "due"
        PROVE  o \notin marred'
    BY <1>2, <1>3, <2>2 DEF OverlapsMar
  <2> QED
    BY <2>1, <2>2 DEF OverlapsMar
<1>6. FlushIsThere' /\ FlushWrites'
  BY <1>1, <1>2, <1>3 DEF FlushIsThere, FlushWrites, FileOf
<1>7. RestoreReads'
  BY <1>1, <1>2, <1>3 DEF RestoreReads
<1>8. Restored'
  <2> SUFFICES ASSUME quiet'
               PROVE  /\ \A o \in DiskCall : ~(Flushing(o))' /\ ((Restoring(o))' => o \notin marred')
                      /\ \A t \in Tables : proc'[r] = "listing" /\ mem'[t] = 0
    BY DEF Restored
  <2>1. /\ \A f \in DiskCall : ~Flushing(f)
        /\ \A o \in DiskCall : Restoring(o) => o \notin marred
    BY <1>1
  <2>2. marred' = marred /\ r \notin marred
    BY <1>1, <2>1 DEF OverlapsMar
  <2> QED
    BY <1>1, <1>2, <1>3, <2>1, <2>2 DEF NoData
<1> QED
  BY <1>4, <1>5, <1>6, <1>7, <1>8

LEMMA ListFilesPreserves ==
  ASSUME DiskInv, NEW r \in DiskCall, ListFiles(r)
  PROVE  DiskInv'
<1> USE DEF DiskInv
<1>1. /\ proc[r] = "listing" /\ proc' = [proc EXCEPT ![r] = "reading"]
      /\ toDo' = [toDo EXCEPT ![r] = Present]
      /\ UNCHANGED <<mem, files, toWrite, version, flushed, valid, quiet, marred>>
  BY DEF ListFiles
<1>2. proc'[r] = "reading" /\ toDo'[r] = Present
  BY <1>1 DEF DiskTypes
<1>3. \A o \in DiskCall : /\ (Flushing(o))' <=> Flushing(o)
                          /\ (Restoring(o))' => Restoring(o)
                          /\ o # r => proc'[o] = proc[o] /\ toDo'[o] = toDo[o]
  BY <1>1 DEF DiskTypes, Flushing, Restoring
<1>4. DiskTypes'
  BY <1>1 DEF DiskTypes, Present
<1>5. OverlapsMar'
  BY <1>1, <1>2, <1>3 DEF OverlapsMar
<1>6. FlushIsThere' /\ FlushWrites'
  BY <1>1, <1>2, <1>3 DEF FlushIsThere, FlushWrites, FileOf
<1>7. RestoreReads'
  BY <1>1, <1>2, <1>3 DEF RestoreReads, Present
<1>8. Restored'
  <2> SUFFICES ASSUME quiet, valid, NEW t \in Tables, mem[t] # flushed[t]
               PROVE  \E o \in DiskCall :
                        \/ proc'[o] = "listing" /\ mem[t] = 0
                        \/ proc'[o] \in {"reading", "failed"} /\ t \in toDo'[o]
    BY <1>1, <1>3 DEF Restored
  <2>1. PICK o \in DiskCall : \/ proc[o] = "listing" /\ mem[t] = 0
                              \/ proc[o] \in {"reading", "failed"} /\ t \in toDo[o]
    BY DEF Restored
  <2>2. CASE o # r
    BY <1>3, <2>1, <2>2
  <2>3. CASE o = r
    <3>1. mem[t] = 0 /\ flushed[t] # 0
      BY <1>1, <2>1, <2>3
    <3>2. files[t] = flushed[t] /\ flushed[t] \in Nat
      BY <3>1 DEF FlushIsThere, FileOf, DiskTypes
    <3>3. t \in Present
      BY <3>2, DiskAssumption DEF Present
    <3> QED
      BY <1>2, <3>3
  <2> QED
    BY <2>2, <2>3
<1> QED
  BY <1>4, <1>5, <1>6, <1>7, <1>8

LEMMA FileReadPreserves ==
  ASSUME DiskInv, NEW r \in DiskCall, NEW t \in Tables, FileRead(r, t)
  PROVE  DiskInv'
<1> USE DEF DiskInv
<1>1. /\ proc[r] \in {"reading", "failed"} /\ t \in toDo[r]
      /\ toDo' = [toDo EXCEPT ![r] = @ \ {t}]
      /\ UNCHANGED <<files, toWrite, flushed, valid, quiet, marred>>
  BY DEF FileRead
<1>2. \/ \E v \in Readable(r, t) : /\ mem' = [mem EXCEPT ![t] = v]
                                   /\ version' = IF v > version THEN v ELSE version
                                   /\ UNCHANGED proc
      \/ /\ r \in marred \/ files[t] = Partial
         /\ proc' = [proc EXCEPT ![r] = "failed"]
         /\ UNCHANGED <<mem, version>>
  BY DEF FileRead
<1>3. /\ proc'[r] \in {"reading", "failed"} /\ toDo'[r] = toDo[r] \ {t}
      /\ proc' \in [DiskCall -> {"due", "emptying", "streaming", "listing", "reading", "failed", "done"}]
      /\ \A o \in DiskCall : o # r => proc'[o] = proc[o] /\ toDo'[o] = toDo[o]
  BY <1>1, <1>2 DEF DiskTypes
<1>4. \A o \in DiskCall : /\ (Flushing(o))' <=> Flushing(o)
                          /\ (Restoring(o))' => Restoring(o)
                          /\ proc'[o] = "due" => proc[o] = "due"
  BY <1>1, <1>3 DEF DiskTypes, Flushing, Restoring
<1>5. Restoring(r)
  BY <1>1 DEF Restoring
<1>6. r \notin marred => files[t] # Absent
  BY <1>1 DEF RestoreReads
<1>7. DiskTypes'
  <2>1. \A v \in Readable(r, t) : v \in Nat
    BY <1>6 DEF DiskTypes, Readable
  <2>2. mem' \in [Tables -> Nat] /\ version' \in Nat
    BY <1>2, <2>1 DEF DiskTypes
  <2>3. toDo' \in [DiskCall -> SUBSET Tables]
    BY <1>1 DEF DiskTypes
  <2> QED
    BY <1>1, <1>3, <2>2, <2>3 DEF DiskTypes
<1>8. OverlapsMar'
  BY <1>1, <1>4 DEF OverlapsMar
<1>9. FlushIsThere' /\ FlushWrites'
  BY <1>1, <1>3 DEF FlushIsThere, FlushWrites, FileOf
<1>10. RestoreReads'
  BY <1>1, <1>3 DEF RestoreReads
<1>11. Restored'
  <2> SUFFICES ASSUME quiet, valid, NEW u \in Tables, mem'[u] # flushed[u]
               PROVE  \E o \in DiskCall :
                        \/ proc'[o] = "listing" /\ mem'[u] = 0
                        \/ proc'[o] \in {"reading", "failed"} /\ u \in toDo'[o]
    BY <1>1, <1>4 DEF Restored
  <2>1. r \notin marred
    BY <1>5 DEF Restored
  <2>2. files[t] = flushed[t] /\ flushed[t] \in Nat
    BY <1>6, <2>1 DEF FlushIsThere, FileOf, DiskTypes
  <2>3. mem' = [mem EXCEPT ![t] = flushed[t]]
    BY <1>2, <2>1, <2>2, DiskAssumption DEF Readable
  <2>4. u # t /\ mem'[u] = mem[u]
    BY <2>3 DEF DiskTypes
  <2>5. PICK o \in DiskCall : \/ proc[o] = "listing" /\ mem[u] = 0
                              \/ proc[o] \in {"reading", "failed"} /\ u \in toDo[o]
    BY <2>4 DEF Restored
  <2>6. CASE o = r
    BY <1>1, <1>3, <2>4, <2>5, <2>6
  <2>7. CASE o # r
    BY <1>3, <2>4, <2>5, <2>7
  <2> QED
    BY <2>6, <2>7
<1> QED
  BY <1>7, <1>8, <1>9, <1>10, <1>11

LEMMA RestoreDonePreserves ==
  ASSUME DiskInv, NEW r \in DiskCall, RestoreDone(r)
  PROVE  DiskInv'
<1> USE DEF DiskInv
<1>1. /\ proc[r] = "reading" /\ toDo[r] = {} /\ proc' = [proc EXCEPT ![r] = "done"]
      /\ UNCHANGED <<mem, files, toDo, toWrite, version, flushed, valid, quiet, marred>>
  BY DEF RestoreDone
<1>2. proc'[r] = "done" /\ \A o \in DiskCall : o # r => proc'[o] = proc[o]
  BY <1>1 DEF DiskTypes
<1>3. \A o \in DiskCall : ((Flushing(o))' <=> Flushing(o)) /\ ((Restoring(o))' <=> Restoring(o))
  BY <1>1, <1>2 DEF Flushing, Restoring
<1>4. DiskTypes'
  BY <1>1 DEF DiskTypes
<1>5. OverlapsMar' /\ FlushIsThere' /\ FlushWrites' /\ RestoreReads'
  BY <1>1, <1>2, <1>3 DEF OverlapsMar, FlushIsThere, FlushWrites, FileOf, RestoreReads
<1>6. Restored'
  <2>1. \A o \in DiskCall, t \in Tables :
          \/ proc[o] = "listing" /\ mem[t] = 0
          \/ proc[o] \in {"reading", "failed"} /\ t \in toDo[o]
          => o # r
    BY <1>1
  <2> QED
    BY <1>1, <1>2, <1>3, <2>1 DEF Restored
<1> QED
  BY <1>4, <1>5, <1>6

LEMMA DiskCrashPreserves ==
  ASSUME DiskInv, DiskCrash
  PROVE  DiskInv'
<1> USE DEF DiskInv
<1>1. /\ mem' = NoData /\ proc' = [o \in DiskCall |-> IF proc[o] = "due" THEN "due" ELSE "done"]
      /\ toDo' = [o \in DiskCall |-> {}] /\ toWrite' = [o \in DiskCall |-> NoData]
      /\ quiet' = FALSE
      /\ UNCHANGED <<files, version, flushed, valid, marred>>
  BY DEF DiskCrash
<1>2. \A o \in DiskCall : /\ ~(Flushing(o))' /\ proc'[o] \in {"due", "done"}
                          /\ proc'[o] = "due" => proc[o] = "due"
  BY <1>1 DEF Flushing
<1>3. DiskTypes'
  <2>1. NoData \in [Tables -> Nat]
    BY DEF NoData
  <2> QED
    BY <1>1, <2>1 DEF DiskTypes
<1> QED
  BY <1>1, <1>2, <1>3 DEF OverlapsMar, FlushIsThere, FileOf, FlushWrites, RestoreReads, Restored

LEMMA DiskStepPreserves == DiskInv /\ [DiskNext]_diskVars => DiskInv'
<1> SUFFICES ASSUME DiskInv, [DiskNext]_diskVars
             PROVE  DiskInv'
  OBVIOUS
<1>1. CASE UNCHANGED diskVars
  BY <1>1 DEF diskVars, DiskInv, DiskTypes, OverlapsMar, FlushIsThere, FileOf, FlushWrites,
     RestoreReads, Restored, Flushing, Restoring
<1>2. CASE DiskNext
  BY <1>2, ChangeTablePreserves, ChangeInPlacePreserves, FlushPreserves, RemoveFilePreserves,
     OpenFilesPreserves, FileWrittenPreserves, FlushDonePreserves, RestorePreserves,
     ListFilesPreserves, FileReadPreserves, RestoreDonePreserves, DiskCrashPreserves
     DEF DiskNext
<1> QED
  BY <1>1, <1>2

(* Once no restore is at work, the data is that of the last flush, if       *)
(* nothing but restores has happened since and nothing marred that flush.   *)
THEOREM DiskAlwaysRestores == DiskSpec => []RestoresTheFlushed
<1>1. DiskSpec => []DiskInv
  BY DiskInitEstablishes, DiskStepPreserves, PTL DEF DiskSpec
<1>2. DiskInv => RestoresTheFlushed
  <2> SUFFICES ASSUME DiskInv, quiet, valid, \A r \in DiskCall : ~Restoring(r)
               PROVE  mem = flushed
    BY DEF RestoresTheFlushed
  <2>1. ASSUME NEW t \in Tables
        PROVE  mem[t] = flushed[t]
    BY DEF DiskInv, Restored, Restoring
  <2> QED
    BY <2>1 DEF DiskInv, DiskTypes
<1> QED
  BY <1>1, <1>2, PTL
=============================================================================
