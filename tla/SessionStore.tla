---------------------------- MODULE SessionStore ----------------------------
(***************************************************************************)
(* The session store (session_store.rs): a map in memory, replaced under a *)
(* write lock, and a file that every upsert rewrites after the lock is     *)
(* gone.  fs::write truncates the file when it opens it and then writes at *)
(* offset 0, so concurrent writers run into each other's bytes.            *)
(*                                                                         *)
(* The contents of the map are abstracted to a version: the number of the  *)
(* last upsert it contains.  Upserts only replace entries of the map they  *)
(* find, so version v stands for everything inserted up to v in this run   *)
(* of the process on top of what the run loaded.                           *)
(***************************************************************************)
EXTENDS Integers

CONSTANTS
  Upserts,    (* calls of upsert, by any task of the gateway               *)
  MaxCrashes  (* bound: how often the process dies                         *)

ASSUME SessionStoreAssumption == MaxCrashes \in Nat

VARIABLES
  process,    (* "up", "down", or "refused": load failed at start          *)
  sessions,   (* version of the map in memory                              *)
  inserted,   (* number of upserts so far, in all runs of the process      *)
  file,       (* the state file                                            *)
  pc,         (* where each upsert stands                                  *)
  snapshot,   (* the clone it persists                                     *)
  crashes,    (* number of crashes so far                                  *)
  saved,      (* history: the last version an upsert returned Ok for       *)
  collided,   (* history: two upserts were persisting at once              *)
  broken      (* history: a persist failed, or died with the process       *)

vars == <<process, sessions, inserted, file, pc, snapshot, crashes, saved,
          collided, broken>>

(* A file holds a snapshot, nothing yet, or bytes of two snapshots.        *)
Unreadable == {"empty", "torn"}
File == [content : {"absent", "empty", "torn", "snapshot"}, version : Nat]
FileIs(c, v) == [content |-> c, version |-> v]

Persisting == {"create_dir", "open", "write"}

TypeOK ==
  /\ process \in {"up", "down", "refused"}
  /\ sessions \in Nat /\ inserted \in Nat
  /\ file \in File
  /\ pc \in [Upserts -> {"new", "done"} \cup Persisting]
  /\ snapshot \in [Upserts -> Nat]
  /\ crashes \in 0 .. MaxCrashes
  /\ saved \in Nat
  /\ collided \in BOOLEAN /\ broken \in BOOLEAN

Init ==
  /\ process = "up" /\ sessions = 0 /\ inserted = 0
  /\ file = FileIs("absent", 0)
  /\ pc = [u \in Upserts |-> "new"]
  /\ snapshot = [u \in Upserts |-> 0]
  /\ crashes = 0 /\ saved = 0
  /\ collided = FALSE /\ broken = FALSE

-----------------------------------------------------------------------------
Goto(u, from, to) ==
  process = "up" /\ pc[u] = from /\ pc' = [pc EXCEPT ![u] = to]

OtherPersists(u) == \E w \in Upserts \ {u} : pc[w] \in Persisting

(* Mutant of Insert: the snapshot is taken before the insert.              *)
InsertAfterClone(u) ==
  /\ Goto(u, "new", "create_dir")
  /\ inserted' = inserted + 1
  /\ sessions' = inserted + 1
  /\ snapshot' = [snapshot EXCEPT ![u] = sessions]
  /\ collided' = (collided \/ OtherPersists(u))
  /\ UNCHANGED <<process, file, crashes, saved, broken>>

(* upsert: insert and clone under the write lock, which ends here.         *)
Insert(u) ==
  /\ Goto(u, "new", "create_dir")
  /\ inserted' = inserted + 1
  /\ sessions' = inserted + 1
  /\ snapshot' = [snapshot EXCEPT ![u] = inserted + 1]
  /\ collided' = (collided \/ OtherPersists(u))
  /\ UNCHANGED <<process, file, crashes, saved, broken>>

CreateDir(u) ==
  /\ Goto(u, "create_dir", "open")
  /\ UNCHANGED <<process, sessions, inserted, file, snapshot, crashes, saved,
                 collided, broken>>

(* Mutant of Open: the old bytes stay.                                     *)
OpenKeepsBytes(u) ==
  /\ Goto(u, "open", "write")
  /\ UNCHANGED <<process, sessions, inserted, file, snapshot, crashes, saved, collided,
                 broken>>

(* fs::write opens the file, which truncates it, ...                       *)
Open(u) ==
  /\ Goto(u, "open", "write")
  /\ file' = FileIs("empty", 0)
  /\ UNCHANGED <<process, sessions, inserted, snapshot, crashes, saved, collided,
                 broken>>

(* ... and writes.  Over the bytes of a longer snapshot some are left.     *)
Write(u) ==
  /\ Goto(u, "write", "done")
  /\ file' \in {FileIs("snapshot", snapshot[u])}
               \cup (IF file.content = "empty" THEN {} ELSE {FileIs("torn", 0)})
  /\ saved' = IF snapshot[u] > saved THEN snapshot[u] ELSE saved
  /\ UNCHANGED <<process, sessions, inserted, snapshot, crashes, collided, broken>>

(* Any of the three calls fails; what the file holds by then stays.  The   *)
(* map in memory keeps the entry although upsert returns an error.         *)
PersistFails(u) ==
  /\ pc[u] \in Persisting
  /\ Goto(u, pc[u], "done")
  /\ broken' = TRUE
  /\ UNCHANGED <<process, sessions, inserted, file, snapshot, crashes, saved,
                 collided>>

(* The process dies between any two steps, with the map and the calls.     *)
Crash ==
  /\ process = "up" /\ crashes < MaxCrashes
  /\ process' = "down"
  /\ crashes' = crashes + 1
  /\ broken' = (broken \/ \E u \in Upserts : pc[u] \in Persisting)
  /\ pc' = [u \in Upserts |-> IF pc[u] \in Persisting THEN "done" ELSE pc[u]]
  /\ UNCHANGED <<sessions, inserted, file, snapshot, saved, collided>>

(* Mutants of Load: a file is taken for no file; and one upsert is missed. *)
LoadIgnoresFile ==
  /\ process = "down"
  /\ process' = "up" /\ sessions' = 0
  /\ UNCHANGED <<inserted, file, pc, snapshot, crashes, saved, collided, broken>>

LoadMissesOne ==
  /\ process = "down"
  /\ process' = "up" /\ sessions' = file.version - 1
  /\ UNCHANGED <<inserted, file, pc, snapshot, crashes, saved, collided, broken>>

(* SessionStore::load: no file is an empty map; a file that does not parse *)
(* fails, and main does not start the gateway.                             *)
Load ==
  /\ process = "down"
  /\ IF file.content \in Unreadable
       THEN process' = "refused" /\ UNCHANGED sessions
       ELSE process' = "up" /\ sessions' = file.version
  /\ UNCHANGED <<inserted, file, pc, snapshot, crashes, saved, collided, broken>>

Step(u) ==
  Insert(u) \/ CreateDir(u) \/ Open(u) \/ Write(u) \/ PersistFails(u)

Next == (\E u \in Upserts : Step(u)) \/ Crash \/ Load

Spec == Init /\ [][Next]_vars

-----------------------------------------------------------------------------
(* Properties.                                                             *)

Quiet == \A u \in Upserts : pc[u] \notin Persisting

(* When no upsert is persisting, the file holds exactly what memory holds, *)
(* provided no two upserts ever persisted at once and none failed or died: *)
(* nothing else can part the file from the map.                            *)
FileMatchesMemory ==
  (Quiet /\ process = "up" /\ ~collided /\ ~broken)
    => /\ file.content \in {"absent", "snapshot"}
       /\ file.version = sessions

(* The file does not parse only between the truncation and the write of    *)
(* some upsert, or after a collision, a failure or a crash in the middle   *)
(* of a persist: a process that stops between upserts starts again.        *)
UnreadableOnlyMidWrite ==
  file.content \in Unreadable =>
    collided \/ broken \/ \E u \in Upserts : pc[u] = "write"

(* What load brings back is never older than the last upsert that returned *)
(* Ok, under the same proviso.                                             *)
SavedIsRestored ==
  (process = "up" /\ ~collided /\ ~broken) => sessions >= saved
=============================================================================
