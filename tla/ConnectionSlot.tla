--------------------------- MODULE ConnectionSlot ---------------------------
(***************************************************************************)
(* AppServerClient::ensure_connection (codex_app_server.rs): the slot that *)
(* holds the one connection to the app-server, and the calls that find it  *)
(* or spawn it.  Spawning takes long and is done without the slot's mutex, *)
(* so several calls may spawn; the first to come back fills the slot.      *)
(*                                                                         *)
(* A connection is named by the call that spawned it.                      *)
(***************************************************************************)
EXTENDS Integers, FiniteSets

CONSTANTS
  Calls,   (* calls of ensure_connection                                   *)
  Empty    (* the empty slot                                               *)

ASSUME ConnectionSlotAssumption == Empty \notin Calls

VARIABLES
  slot,    (* AppServerClient.connection                                   *)
  pc,      (* where each call stands                                       *)
  got,     (* the connection a call returned                               *)
  live,    (* connections whose app-server process and tasks run           *)
  broken   (* connections whose websocket has ended                        *)

vars == <<slot, pc, got, live, broken>>

TypeOK ==
  /\ slot \in Calls \cup {Empty}
  /\ pc \in [Calls -> {"new", "spawn", "install", "ok", "err"}]
  /\ got \in [Calls -> Calls \cup {Empty}]
  /\ live \subseteq Calls /\ broken \subseteq Calls

Init ==
  /\ slot = Empty
  /\ pc = [c \in Calls |-> "new"]
  /\ got = [c \in Calls |-> Empty]
  /\ live = {} /\ broken = {}

Goto(c, from, to) == pc[c] = from /\ pc' = [pc EXCEPT ![c] = to]

(* A connection in the slot is returned, whether or not it still works.    *)
Find(c) ==
  /\ slot # Empty
  /\ Goto(c, "new", "ok")
  /\ got' = [got EXCEPT ![c] = slot]
  /\ UNCHANGED <<slot, live, broken>>

Miss(c) ==
  /\ slot = Empty
  /\ Goto(c, "new", "spawn")
  /\ UNCHANGED <<slot, got, live, broken>>

(* Mutant of SpawnSucceeds: recorded under the slot.                       *)
SpawnUnderSlot(c) ==
  /\ Goto(c, "spawn", "install")
  /\ live' = live \cup {slot}
  /\ UNCHANGED <<slot, got, broken>>

(* AppServerConnection::spawn: the process, the websocket, initialize.     *)
SpawnSucceeds(c) ==
  /\ Goto(c, "spawn", "install")
  /\ live' = live \cup {c}
  /\ UNCHANGED <<slot, got, broken>>

SpawnFails(c) ==
  /\ Goto(c, "spawn", "err")
  /\ UNCHANGED <<slot, got, live, broken>>

(* Mutant of Install: without the second look.                             *)
InstallOverwrites(c) ==
  /\ Goto(c, "install", "ok")
  /\ slot' = c /\ got' = [got EXCEPT ![c] = c]
  /\ UNCHANGED <<live, broken>>

(* The second look at the slot, under its mutex.  The reader and writer    *)
(* tasks of a connection that is not installed keep it and its process.    *)
Install(c) ==
  /\ Goto(c, "install", "ok")
  /\ IF slot = Empty
       THEN slot' = c /\ got' = [got EXCEPT ![c] = c]
       ELSE got' = [got EXCEPT ![c] = slot] /\ UNCHANGED slot
  /\ UNCHANGED <<live, broken>>

(* The websocket of a connection ends.  The slot is not told.              *)
Break(c) ==
  /\ c \in live
  /\ live' = live \ {c}
  /\ broken' = broken \cup {c}
  /\ UNCHANGED <<slot, pc, got>>

Step(c) == Find(c) \/ Miss(c) \/ SpawnSucceeds(c) \/ SpawnFails(c) \/ Install(c)

Next == \E c \in Calls : Step(c) \/ Break(c)

Spec == Init /\ [][Next]_vars

(* Calls are scheduled and spawning ends.                                  *)
FairSpec == Spec /\ \A c \in Calls : WF_vars(Step(c))

-----------------------------------------------------------------------------
(* Properties.                                                             *)

(* All calls that succeed return the same connection, however many of them *)
(* spawned one: turns, answers and listings share the maps of one          *)
(* connection.                                                             *)
OneConnection ==
  \A c, d \in Calls : pc[c] = "ok" /\ pc[d] = "ok" => got[c] = got[d]

(* "codex-channel will start codex app-server itself by using the          *)
(* configured launcher" (README.md:52): a connection that has ended gives  *)
(* way to a new one while there are calls that want one.                   *)
WantsOne == \E c \in Calls : pc[c] = "new"

EndedIsReplaced == (slot \in broken /\ WantsOne) ~> slot \in live
=============================================================================
