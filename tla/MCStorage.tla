------------------------------ MODULE MCStorage -----------------------------
(* What keeps rows outside a CommonDao: CacheDB in front of a downstream,   *)
(* FileDB on its files, InMemoryDB's flush and restore.  They share nothing *)
(* but their clients, so each behaviour is one of one of them: focus.       *)
EXTENDS CacheDB, FileDB, InMemoryDBDisk, TLC

CONSTANTS c1, c2, a, b, o1, o2, o3

VARIABLE focus

MCClient == {c1, c2}
MCId == {a, b}
MCDiskCall == {o1, o2, o3}

\* Both clients read and write one row or both, each option being used once.
\* Downstream there is a row b at first, and a or not.
All == MCClient \cup {Nobody}
MCCacheCall ==
  [kind : {"getByIds"}, ids : {{a, b}}, of : {All}, opts : {{}}]
  \cup [kind : {"runQuery"}, ids : {{a, b}}, of : {All}, opts : {{}, {"projected"}}]
  \cup [kind : {"deleteByQuery"}, ids : {{a, b}}, of : {{Nobody}}, opts : {{}, {"limited"}}]
  \cup [kind : {"patchByQuery"}, ids : {{b}}, of : {All}, opts : {{}, {"onlyCache"}}]
  \cup [kind : {"saveBatch"}, ids : {{a}}, of : {All}, opts : {{}, {"insert"}}]
  \cup [kind : {"saveBatch"}, ids : {{a, b}}, of : {All}, opts : {{"update"}}]

MCFileCall == [kind : {"saveBatch"}, ids : {{a}, {b}, {a, b}}]
              \cup [kind : {"deleteByIds"}, ids : {{a}, {b}}]
              \cup [kind : {"getByIds"}, ids : {{a, b}}]

Init == /\ focus \in {"cache", "file", "disk"}
        /\ CacheInit /\ FileInit /\ DiskInit
        /\ focus # "cache" => ccfg = [awaitCache |-> FALSE, skipCache |-> FALSE, onlyCache |-> FALSE]
                              /\ down = NoRows
        /\ focus = "cache" => down[b] = Nobody
        /\ focus # "file" => plugin = "local"

Next == /\ UNCHANGED focus
        /\ \/ focus = "cache" /\ CacheNext /\ UNCHANGED <<fileVars, diskVars>>
           \/ focus = "file" /\ FileNext /\ UNCHANGED <<cacheVars, diskVars>>
           \/ focus = "disk" /\ DiskNext /\ UNCHANGED <<cacheVars, fileVars>>

Spec == Init /\ [][Next]_<<focus, cacheVars, fileVars, diskVars>>

Symmetric == Permutations(MCClient) \cup Permutations(MCDiskCall)
=============================================================================
