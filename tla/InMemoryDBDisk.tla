--------------------------- MODULE InMemoryDBDisk ---------------------------
(***************************************************************************)
(* db-lib/src/adapter/inmemory/inMemory.db.ts: InMemoryDB.flushToDisk and   *)
(* restoreFromDisk, several calls of which may be under way at once, with   *)
(* the writes that go on meanwhile.  A flush empties the directory, then    *)
(* streams every table that has rows into a file of its own, all at once; a *)
(* restore empties the data, then lists and reads the files, all at once.   *)
(* Nothing keeps them apart.  The process may crash and start again, with   *)
(* no data.  A table is the number of its version, 0 when it has no rows.   *)
(***************************************************************************)
EXTENDS StoreClients

CONSTANTS DiskCall,   \* the calls of flushToDisk and restoreFromDisk, each made once
          Tables,
          MaxVersion, \* bound on the versions of the data
          Absent, Partial  \* a file that is not there, or is not one whole version

ASSUME DiskAssumption ==
  /\ MaxVersion \in Nat
  /\ Absent \notin Nat /\ Partial \notin Nat

VARIABLES mem,       \* this.data
          files,     \* the directory
          proc,      \* where each call is
          toDo,      \* the tables it has still to remove, to stream or to read
          toWrite,   \* the rows a flush writes, from when it looked at the data
          version,   \* versions given so far
          diskCrashes,
          flushed,   \* history: the data when the last flush began to write it
          valid,     \* history: the last flush has left the files of all of it
          quiet,     \* history: nothing but restores since the last one began
          marred     \* history: the flushes that overlapped another, whose rows were
                     \* changed while they were streamed, or that did not get to the
                     \* end of a file; the restores that overlapped a flush

diskVars == <<mem, files, proc, toDo, toWrite, version, diskCrashes,
              flushed, valid, quiet, marred>>

NoData == [t \in Tables |-> 0]

DiskTypeOK ==
  /\ mem \in [Tables -> 0..MaxVersion]
  /\ files \in [Tables -> 1..MaxVersion \cup {Absent, Partial}]
  /\ proc \in [DiskCall -> {"due", "emptying", "streaming", "listing", "reading", "failed", "done"}]
  /\ toDo \in [DiskCall -> SUBSET Tables]
  /\ toWrite \in [DiskCall -> [Tables -> 0..MaxVersion]]
  /\ version \in 0..MaxVersion
  /\ diskCrashes \in 0..MaxCrashes
  /\ flushed \in [Tables -> 0..MaxVersion]
  /\ valid \in BOOLEAN /\ quiet \in BOOLEAN
  /\ marred \subseteq DiskCall

DiskInit ==
  /\ mem = NoData
  /\ files = [t \in Tables |-> Absent]
  /\ proc = [o \in DiskCall |-> "due"]
  /\ toDo = [o \in DiskCall |-> {}]
  /\ toWrite = [o \in DiskCall |-> NoData]
  /\ version = 0 /\ diskCrashes = 0
  /\ flushed = NoData
  /\ valid = TRUE
  /\ quiet = FALSE
  /\ marred = {}

Present == {t \in Tables : files[t] # Absent}

Flushing(f) == proc[f] \in {"emptying", "streaming"}
Streaming(f, t) == proc[f] = "streaming" /\ t \in toDo[f]

\* A restore that will still change the data, as it does even after one of
\* its reads has failed: pMap rejects at once, but the other reads go on.
Restoring(r) == \/ proc[r] = "listing"
                \/ proc[r] \in {"reading", "failed"} /\ toDo[r] # {}

-----------------------------------------------------------------------------
\* saveBatch, or a delete of all rows of a table, at any time.
ChangeTable(t) ==
  /\ \/ /\ version < MaxVersion
        /\ version' = version + 1
        /\ mem' = [mem EXCEPT ![t] = version']
     \/ /\ mem[t] # 0
        /\ mem' = [mem EXCEPT ![t] = 0]
        /\ UNCHANGED version
  /\ quiet' = FALSE
  /\ UNCHANGED <<files, proc, toDo, toWrite, diskCrashes, flushed, valid, marred>>

\* patchByQuery and incrementBatch change the row objects, which flushes may
\* be streaming: they write them as they were or as they are now.
ChangeInPlace(t) ==
  /\ version < MaxVersion
  /\ mem[t] # 0
  /\ version' = version + 1
  /\ mem' = [mem EXCEPT ![t] = version']
  /\ marred' = marred \cup {f \in DiskCall : Streaming(f, t)}
  /\ \E S \in SUBSET {f \in DiskCall : Streaming(f, t)} :
       toWrite' = [f \in DiskCall |-> IF f \in S THEN [toWrite[f] EXCEPT ![t] = version']
                                                 ELSE toWrite[f]]
  /\ quiet' = FALSE
  /\ UNCHANGED <<files, proc, toDo, diskCrashes, flushed, valid>>

\* The calls that a flush f mars by starting now, with itself.
Overlapped(f) ==
  LET others == {g \in DiskCall : Flushing(g)} IN
  others \cup {r \in DiskCall : Restoring(r)} \cup (IF others = {} THEN {} ELSE {f})

\* flushToDisk: emptyDirAsync lists the directory.
Flush(f) ==
  /\ proc[f] = "due"
  /\ proc' = [proc EXCEPT ![f] = "emptying"]
  /\ toDo' = [toDo EXCEPT ![f] = Present]
  /\ marred' = marred \cup Overlapped(f)
  /\ quiet' = FALSE
  /\ UNCHANGED <<mem, files, toWrite, version, diskCrashes, flushed, valid>>

\* It removes a file.  The stream of another flush into that file goes on,
\* but no longer writes anything the directory has.
RemoveFile(f, t) ==
  /\ proc[f] = "emptying" /\ t \in toDo[f]
  /\ files' = [files EXCEPT ![t] = Absent]
  /\ toDo' = [g \in DiskCall |-> IF g = f \/ Streaming(g, t) THEN toDo[g] \ {t} ELSE toDo[g]]
  /\ valid' = FALSE
  /\ UNCHANGED <<mem, proc, toWrite, version, diskCrashes, flushed, quiet, marred>>

\* All are removed: the rows of all tables are taken at once, and the files
\* of those that have any are opened.
OpenFiles(f) ==
  /\ proc[f] = "emptying" /\ toDo[f] = {}
  /\ proc' = [proc EXCEPT ![f] = "streaming"]
  /\ toWrite' = [toWrite EXCEPT ![f] = mem]
  /\ flushed' = mem
  /\ toDo' = [toDo EXCEPT ![f] = {t \in Tables : mem[t] # 0}]
  /\ files' = [t \in Tables |-> IF mem[t] # 0 THEN Partial ELSE files[t]]
  /\ valid' = FALSE
  /\ UNCHANGED <<mem, version, diskCrashes, quiet, marred>>

\* A stream comes to its end: all rows are in the file, or they are not,
\* because writing failed or another flush wrote into the file as well.
FileWritten(f, t) ==
  /\ Streaming(f, t)
  /\ toDo' = [toDo EXCEPT ![f] = @ \ {t}]
  /\ \/ /\ files' = [files EXCEPT ![t] = toWrite[f][t]]
        /\ UNCHANGED marred
     \/ /\ files' = [files EXCEPT ![t] = Partial]
        /\ marred' = marred \cup {f}
  /\ UNCHANGED <<mem, proc, toWrite, version, diskCrashes, flushed, valid, quiet>>

\* The last of its streams has ended.
FlushDone(f) ==
  /\ proc[f] = "streaming" /\ toDo[f] = {}
  /\ proc' = [proc EXCEPT ![f] = "done"]
  /\ valid' = (f \notin marred)
  /\ toWrite' = [toWrite EXCEPT ![f] = NoData]
  /\ UNCHANGED <<mem, files, toDo, version, diskCrashes, flushed, quiet, marred>>

-----------------------------------------------------------------------------
\* Mutant: the data is not emptied before the files are read.
Cleared_Kept == mem
Cleared == NoData

\* restoreFromDisk, to where the data is emptied.
Restore(r) ==
  /\ proc[r] = "due"
  /\ proc' = [proc EXCEPT ![r] = "listing"]
  /\ mem' = Cleared
  /\ quiet' = /\ \A f \in DiskCall : ~Flushing(f)
              /\ \A o \in DiskCall : Restoring(o) => o \notin marred
  /\ marred' = IF \E f \in DiskCall : Flushing(f) THEN marred \cup {r} ELSE marred
  /\ UNCHANGED <<files, toDo, toWrite, version, diskCrashes, flushed, valid>>

ListFiles(r) ==
  /\ proc[r] = "listing"
  /\ proc' = [proc EXCEPT ![r] = "reading"]
  /\ toDo' = [toDo EXCEPT ![r] = Present]
  /\ UNCHANGED <<mem, files, toWrite, version, diskCrashes, flushed, valid, quiet, marred>>

\* What can be read from a file: its version if it is whole, else nothing or
\* some of the rows, which is a version of its own.  Where a flush falls into
\* the restore, the file may have been any of those it was or becomes.
Readable(r, t) ==
  IF r \in marred THEN 0..(version + 1)
  ELSE IF files[t] = Partial THEN {0, version + 1}
  ELSE {files[t]}

\* A file is read, and the table becomes what it held; or it cannot be read.
FileRead(r, t) ==
  /\ proc[r] \in {"reading", "failed"} /\ t \in toDo[r]
  /\ toDo' = [toDo EXCEPT ![r] = @ \ {t}]
  /\ \/ \E v \in Readable(r, t) :
          /\ v <= MaxVersion
          /\ mem' = [mem EXCEPT ![t] = v]
          /\ version' = IF v > version THEN v ELSE version
          /\ UNCHANGED proc
     \/ /\ r \in marred \/ files[t] = Partial
        /\ proc' = [proc EXCEPT ![r] = "failed"]
        /\ UNCHANGED <<mem, version>>
  /\ UNCHANGED <<files, toWrite, diskCrashes, flushed, valid, quiet, marred>>

RestoreDone(r) ==
  /\ proc[r] = "reading" /\ toDo[r] = {}
  /\ proc' = [proc EXCEPT ![r] = "done"]
  /\ UNCHANGED <<mem, files, toDo, toWrite, version, diskCrashes, flushed, valid, quiet, marred>>

DiskCrash ==
  /\ diskCrashes < MaxCrashes
  /\ diskCrashes' = diskCrashes + 1
  /\ mem' = NoData
  /\ proc' = [o \in DiskCall |-> IF proc[o] = "due" THEN "due" ELSE "done"]
  /\ toDo' = [o \in DiskCall |-> {}]
  /\ toWrite' = [o \in DiskCall |-> NoData]
  /\ quiet' = FALSE
  /\ UNCHANGED <<files, version, flushed, valid, marred>>

DiskNext ==
  \/ \E t \in Tables : ChangeTable(t) \/ ChangeInPlace(t)
  \/ \E f \in DiskCall : Flush(f) \/ OpenFiles(f) \/ FlushDone(f)
  \/ \E f \in DiskCall, t \in Tables : RemoveFile(f, t) \/ FileWritten(f, t)
  \/ \E r \in DiskCall : Restore(r) \/ ListFiles(r) \/ RestoreDone(r)
  \/ \E r \in DiskCall, t \in Tables : FileRead(r, t)
  \/ DiskCrash

DiskSpec == DiskInit /\ [][DiskNext]_diskVars

-----------------------------------------------------------------------------
(* When no restore is at work any more, the data is that of the last flush, *)
(* emptied tables and all, whatever was flushed or written earlier, however *)
(* often the process crashed, and even if several restores ran at the same  *)
(* time (inMemory.db.ts:313-367).  It need not be                           *)
(*  - if, since the last restore began, the data was written to or a flush  *)
(*    began, if a flush was under way then, or if an earlier restore into   *)
(*    which a flush fell was still reading (not quiet);                     *)
(*  - if the last flush overlapped another one, if rows it was streaming    *)
(*    were patched or incremented in place, or if one of its files was not  *)
(*    written to its end (marred, so not valid);                            *)
(*  - once a flush has begun to empty the directory and until it is done:   *)
(*    a crash in between leaves it so (not valid).                          *)
(* A flush that falls into a restore has flushed what was restored by then. *)
RestoresTheFlushed ==
  quiet /\ valid /\ (\A r \in DiskCall : ~Restoring(r)) => mem = flushed
=============================================================================
