--------------------------- MODULE CheckpointFile ---------------------------
(***************************************************************************)
(* FileStore (internal/collector/checkpoint.go): a map of cursors kept in  *)
(* memory and in one file.  Collectors call Set concurrently; it runs      *)
(* under the store's mutex: it copies the map, writes and syncs a          *)
(* temporary file, renames it over the old one, syncs the directory as far *)
(* as that works, and only then replaces the map in memory.  Every system  *)
(* call may fail, the process may crash between any two of them, and the   *)
(* machine may lose power.                                                 *)
(***************************************************************************)
EXTENDS Integers

CONSTANTS
  Names,        \* the collectors that keep a cursor
  NoOne,        \* holder of the mutex when it is free
  Torn,         \* content of a file whose data never reached the disk
  MaxTime,      \* bound: the largest cursor set
  MaxCrashes    \* bound: crashes and power losses

ASSUME FileAssumption ==
  /\ NoOne \notin Names
  /\ MaxTime \in Nat /\ MaxCrashes \in Nat
  /\ Torn \notin [Names -> Nat]

VARIABLES
  up,           \* the process runs
  crashes,      \* crashes and power losses so far
  holder,       \* holder of FileStore.mu
  values,       \* FileStore.values; 0 is a missing entry
  pc,           \* pc[n]: n's place in Set
  next,         \* next[n]: n's copy of the map
  synced,       \* synced[n]: the data of n's temporary file is on disk
  file,         \* what opening the path reads; all 0 when there is no file
  disk,         \* what a power loss may leave under the path
  acked,        \* history: the last cursor Set returned success for
  safe          \* history: the file at the last successful directory sync

set == <<holder, pc, next, synced>>
fileVars == <<up, crashes, set, values, file, disk, acked, safe>>

Empty == [n \in Names |-> 0]

FileInit ==
  /\ up = TRUE /\ crashes = 0
  /\ holder = NoOne
  /\ pc = [n \in Names |-> "idle"]
  /\ next = [n \in Names |-> Empty]
  /\ synced = [n \in Names |-> FALSE]
  /\ values = Empty /\ file = Empty /\ disk = {Empty}
  /\ acked = Empty /\ safe = Empty

Goto(n, label) == pc' = [pc EXCEPT ![n] = label]

-----------------------------------------------------------------------------
(* Set. *)

\* Mutant: nobody waits for the mutex.
Unguarded == TRUE

\* FileStore.mu is free.
Unlocked == holder = NoOne

\* The map Set writes: every cursor, with the new one for n.
Updated(n, t) == [values EXCEPT ![n] = t]

\* Set takes the mutex and copies the map.  The scheduler never sets a cursor
\* back.
Begin(n) ==
  /\ up /\ pc[n] = "idle" /\ Unlocked
  /\ holder' = n
  /\ \E t \in 1 .. MaxTime :
       values[n] <= t /\ next' = [next EXCEPT ![n] = Updated(n, t)]
  /\ synced' = [synced EXCEPT ![n] = FALSE]
  /\ Goto(n, "write")
  /\ UNCHANGED <<up, crashes, values, file, disk, acked, safe>>

\* MkdirAll, CreateTemp, Chmod and Write succeed.
Write(n) ==
  /\ up /\ pc[n] = "write"
  /\ Goto(n, "sync")
  /\ UNCHANGED <<up, crashes, holder, next, synced, values, file, disk, acked, safe>>

\* f.Sync: the data of the temporary file is on disk.
SyncData(n) == synced' = [synced EXCEPT ![n] = TRUE]

\* Sync and Close succeed.
Sync(n) ==
  /\ up /\ pc[n] = "sync"
  /\ SyncData(n)
  /\ Goto(n, "rename")
  /\ UNCHANGED <<up, crashes, holder, next, values, file, disk, acked, safe>>

Rename(n) ==
  /\ up /\ pc[n] = "rename"
  /\ file' = next[n]
  /\ disk' = disk \cup IF synced[n] THEN {next[n]} ELSE {next[n], Torn}
  /\ Goto(n, "dirsync")
  /\ UNCHANGED <<up, crashes, holder, next, synced, values, acked, safe>>

\* An error leaves the map in memory as it was.
KeepValues(n) == UNCHANGED values

\* Any of the calls up to Rename fails: the deferred calls remove the temporary
\* file and unlock the mutex.
Failed(n) ==
  /\ up /\ pc[n] \in {"write", "sync", "rename"}
  /\ KeepValues(n)
  /\ holder' = NoOne
  /\ Goto(n, "idle")
  /\ UNCHANGED <<up, crashes, next, synced, file, disk, acked, safe>>

\* Mutant: the wrong directory is synced.
SyncedAnyway == safe' = file /\ UNCHANGED disk

\* The directory is synced, or opening or syncing it fails and is ignored.
SyncDirectory ==
  \/ disk' = {file} /\ safe' = file
  \/ UNCHANGED <<disk, safe>>

Finish(n) ==
  /\ up /\ pc[n] = "dirsync"
  /\ SyncDirectory
  /\ values' = next[n]
  /\ acked' = [acked EXCEPT ![n] = next[n][n]]
  /\ holder' = NoOne
  /\ Goto(n, "idle")
  /\ UNCHANGED <<up, crashes, next, synced, file>>

-----------------------------------------------------------------------------
(* Crashes and restarts. *)

Halt ==
  /\ crashes < MaxCrashes
  /\ crashes' = crashes + 1
  /\ up' = FALSE
  /\ holder' = NoOne
  /\ pc' = [n \in Names |-> "idle"]
  /\ UNCHANGED <<next, synced, values, safe>>

\* The process ends anywhere; the file system goes on.
ProcessCrash ==
  /\ up /\ Halt
  /\ UNCHANGED <<file, disk, acked>>

\* The machine stops: the path holds whatever had reached the disk.
PowerLoss ==
  /\ Halt
  /\ \E content \in disk : file' = content /\ disk' = {content} /\ acked' = content

\* NewFileStore; a file it cannot decode keeps the process from starting.
Load ==
  /\ ~up /\ file # Torn
  /\ up' = TRUE
  /\ values' = file
  /\ UNCHANGED <<crashes, set, file, disk, acked, safe>>

\* What Get answers while the mutex is free; it changes nothing.
Get(n) == values[n]

SetStep(n) == Begin(n) \/ Write(n) \/ Sync(n) \/ Rename(n) \/ Failed(n) \/ Finish(n)

FileNext == ProcessCrash \/ PowerLoss \/ Load \/ \E n \in Names : SetStep(n)

FileSpec == FileInit /\ [][FileNext]_fileVars

-----------------------------------------------------------------------------
(* Properties. *)

Cursors == [Names -> Nat]
Labels == {"idle", "write", "sync", "rename", "dirsync"}

\* The type of every variable: the file always decodes, and so does whatever a
\* power loss leaves of it, hence the next start never fails on its checkpoint.
FileTypeOK ==
  /\ up \in BOOLEAN /\ crashes \in Nat
  /\ holder \in Names \cup {NoOne}
  /\ values \in Cursors
  /\ pc \in [Names -> Labels]
  /\ next \in [Names -> Cursors]
  /\ synced \in [Names -> BOOLEAN]
  /\ file \in Cursors /\ disk \subseteq Cursors
  /\ acked \in Cursors /\ safe \in Cursors

\* Between calls of Set the map in memory and the file agree: Get never answers
\* with a cursor that a crash would lose, nor with one older than the file's.
MemoryMatchesFile == up /\ holder = NoOne => \A n \in Names : Get(n) = file[n]

\* A cursor for which Set returned success stays in the file, whatever other
\* collectors set, fail to set or leave half done when the process crashes.
NoLostUpdate == \A n \in Names : acked[n] <= file[n]

\* A power loss takes no cursor back behind the last successful directory sync,
\* and none forward beyond the file.
PowerSafe ==
  \A content \in disk : \A n \in Names :
    safe[n] <= content[n] /\ content[n] <= file[n]

\* The state of Set between its steps, from which the properties follow: one
\* caller at a time, its copy of the map differs in its own cursor alone, and
\* the file is the old or the new map.
Consistent ==
  /\ \A n \in Names : pc[n] # "idle" <=> holder = n
  /\ up \/ holder = NoOne
  /\ up /\ holder = NoOne => values = file
  /\ \A n \in Names : acked[n] <= file[n]
  /\ \A n \in Names : pc[n] # "idle" =>
       /\ next[n] = [values EXCEPT ![n] = next[n][n]]
       /\ values[n] <= next[n][n]
       /\ file = IF pc[n] = "dirsync" THEN next[n] ELSE values
       /\ pc[n] = "rename" => synced[n]
  /\ file \in disk
  /\ PowerSafe

Store == INSTANCE CheckpointStore WITH store <- file

\* FileStore is an atomic map of cursors: every step changes the file by one
\* cursor moving forward, or is a power loss that takes cursors back.
IsAtomicStore == Store!Spec
=============================================================================
