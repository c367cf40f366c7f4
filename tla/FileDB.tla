------------------------------- MODULE FileDB -------------------------------
(***************************************************************************)
(* db-lib/src/adapter/file/file.db.ts: FileDB, whose every operation loads  *)
(* the whole file of its table and, if it changes anything, saves the whole *)
(* file, through a persistence plugin: LocalFilePersistencePlugin, which    *)
(* truncates the file and streams the rows into it, or                      *)
(* InMemoryPersistencePlugin, which replaces the table in one go.           *)
(* One table; a row is the name of the client that wrote it last.  The      *)
(* process may crash and start again.                                       *)
(***************************************************************************)
EXTENDS StoreClients

CONSTANT FileCall  \* the calls a client may make

FileKind == {"getByIds", "saveBatch", "deleteByIds"}

ASSUME FileDBAssumption == FileCall \subseteq [kind : FileKind, ids : SUBSET Id]

VARIABLES plugin,    \* the persistence plugin
          rows,      \* the rows in the file, or that are being streamed into it
          whole,     \* the file can be read to its end
          writers,   \* the clients that have it open for writing
          fpc,       \* where each client is
          fcall,     \* the call it is making, or made last
          fcalls,    \* how many it made
          byId,      \* the rows it loaded, with its changes
          crashes,   \* how often the process has crashed
          expected,  \* history: the rows an atomic store would have
          upset      \* history: writes overlapped, or a crash fell into one

fileVars == <<plugin, rows, whole, writers, fpc, fcall, fcalls, byId, crashes,
              expected, upset>>

FileTable == [Id -> Client \cup {Nothing}]
NoFile == [i \in Id |-> Nothing]
FilePc == {"idle", "loading", "opening", "streaming", "resolved", "rejected"}

FileTypeOK ==
  /\ plugin \in {"local", "memory"}
  /\ rows \in FileTable
  /\ whole \in BOOLEAN
  /\ writers \subseteq Client
  /\ fpc \in [Client -> FilePc]
  /\ fcall \in [Client -> [kind : FileKind, ids : SUBSET Id]]
  /\ fcalls \in [Client -> 0..MaxCalls]
  /\ byId \in [Client -> FileTable]
  /\ crashes \in 0..MaxCrashes
  /\ expected \in FileTable
  /\ upset \in BOOLEAN

FileInit ==
  /\ plugin \in {"local", "memory"}
  /\ rows = NoFile
  /\ whole = TRUE
  /\ writers = {}
  /\ fpc = [c \in Client |-> "idle"]
  /\ fcall = [c \in Client |-> [kind |-> "getByIds", ids |-> {}]]
  /\ fcalls = [c \in Client |-> 0]
  /\ byId = [c \in Client |-> NoFile]
  /\ crashes = 0
  /\ expected = NoFile
  /\ upset = FALSE

-----------------------------------------------------------------------------
Active(c) == fpc[c] \in {"loading", "opening", "streaming"}
Changes(m) == m.kind # "getByIds"

\* Mutant: saveBatch saves its own rows only.
Merged_Alone(m, c, t) == [i \in Id |-> IF i \in m.ids /\ m.kind = "saveBatch" THEN c ELSE Nothing]
\* The rows of t after m, which c makes.
Merged(m, c, t) ==
  [i \in Id |-> IF i \notin m.ids THEN t[i]
                ELSE CASE m.kind = "saveBatch" -> c
                       [] m.kind = "deleteByIds" -> Nothing
                       [] OTHER -> t[i]]

\* A call is made: the file is to be loaded.
FileMake(c, m) ==
  /\ ~Active(c)
  /\ fcalls[c] < MaxCalls
  /\ fcalls' = [fcalls EXCEPT ![c] = @ + 1]
  /\ fcall' = [fcall EXCEPT ![c] = m]
  /\ fpc' = [fpc EXCEPT ![c] = "loading"]
  /\ upset' = (upset \/ (Changes(m) /\ \E u \in Client \ {c} : Active(u) /\ Changes(fcall[u])))
  /\ UNCHANGED <<plugin, rows, whole, writers, byId, crashes, expected>>

\* The file loaded by c has the rows t.
Loaded(c, t) ==
  LET merged == Merged(fcall[c], c, t) IN
  /\ byId' = [byId EXCEPT ![c] = merged]
  /\ fpc' = [fpc EXCEPT ![c] = IF merged = t THEN "resolved" ELSE "opening"]
  /\ expected' = IF merged = t THEN Merged(fcall[c], c, expected) ELSE expected

\* plugin.loadFile: a file that is not whole fails to load, or loads in part.
LoadFile(c) ==
  /\ fpc[c] = "loading"
  /\ \/ /\ whole
        /\ Loaded(c, rows)
     \/ /\ ~whole
        /\ \E ids \in SUBSET Id :
             Loaded(c, [i \in Id |-> IF i \in ids THEN rows[i] ELSE Nothing])
     \/ /\ ~whole
        /\ fpc' = [fpc EXCEPT ![c] = "rejected"]
        /\ UNCHANGED <<byId, expected>>
  /\ UNCHANGED <<plugin, rows, whole, writers, fcall, fcalls, crashes, upset>>

\* What c was to write is written.
Saved(c) ==
  /\ fpc' = [fpc EXCEPT ![c] = "resolved"]
  /\ expected' = Merged(fcall[c], c, expected)

\* InMemoryPersistencePlugin.saveFiles.
SaveInMemory(c) ==
  /\ plugin = "memory"
  /\ fpc[c] = "opening"
  /\ rows' = byId[c]
  /\ Saved(c)
  /\ UNCHANGED <<plugin, whole, writers, fcall, fcalls, byId, crashes, upset>>

\* LocalFilePersistencePlugin.saveFile: createWriteStream truncates the file.
OpenFile(c) ==
  /\ plugin = "local"
  /\ fpc[c] = "opening"
  /\ fpc' = [fpc EXCEPT ![c] = "streaming"]
  /\ rows' = byId[c]
  /\ whole' = FALSE
  /\ writers' = writers \cup {c}
  /\ UNCHANGED <<plugin, fcall, fcalls, byId, crashes, expected, upset>>

\* The last row is written.  If another call has streamed into the file at
\* the same time, the rows are those of either, or the file is garbage.
CloseFile(c) ==
  /\ fpc[c] = "streaming"
  /\ \/ /\ ~upset
        /\ whole' = TRUE
        /\ UNCHANGED rows
     \/ /\ upset
        /\ rows' \in {rows, byId[c]}
        /\ whole' \in BOOLEAN
  /\ writers' = writers \ {c}
  /\ Saved(c)
  /\ UNCHANGED <<plugin, fcall, fcalls, byId, crashes, upset>>

\* The process dies; a file that is being written stays as it is.
Crash ==
  /\ crashes < MaxCrashes
  /\ crashes' = crashes + 1
  /\ fpc' = [c \in Client |-> IF Active(c) THEN "rejected" ELSE fpc[c]]
  /\ writers' = {}
  /\ upset' = (upset \/ writers # {})
  /\ IF plugin = "memory" THEN rows' = NoFile /\ expected' = NoFile
                          ELSE UNCHANGED <<rows, expected>>
  /\ UNCHANGED <<plugin, whole, fcall, fcalls, byId>>

FileNext ==
  \/ \E c \in Client : \/ \E m \in FileCall : FileMake(c, m)
                       \/ LoadFile(c) \/ SaveInMemory(c)
                       \/ OpenFile(c) \/ CloseFile(c)
  \/ Crash

FileSpec == FileInit /\ [][FileNext]_fileVars

-----------------------------------------------------------------------------
(* As long as no two changing calls overlap and no crash falls into the     *)
(* streaming of a file, the file is what an atomic store would hold: each   *)
(* call keeps the rows it did not touch, a crash before the file is opened  *)
(* takes nothing back (file.db.ts:84-110, 142-180,                          *)
(* localFile.persistence.plugin.ts:42-62).                                  *)
FileIsAtomicStore ==
  ~upset /\ writers = {} => whole /\ rows = expected
=============================================================================
