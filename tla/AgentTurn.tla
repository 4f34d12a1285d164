----------------------------- MODULE AgentTurn -----------------------------
(***************************************************************************)
(* What the gateway relies on when it runs a prompt through a backend      *)
(* (run_turn_once in app/gateway.rs, AgentBackend in backend/traits.rs):   *)
(* the agent says things, the chat is shown them in that order, and a      *)
(* prompt succeeds only when all that was said has been shown.  A prompt   *)
(* that was given a session may be run once more, in a fresh one.          *)
(***************************************************************************)
EXTENDS Integers

CONSTANTS
  Prompts,    (* the prompts                                               *)
  Sessions,   (* what a backend names its sessions                         *)
  NoSession   (* no session                                                *)

VARIABLES
  phase,      (* of each prompt                                            *)
  session,    (* the session its current run was given                     *)
  said,       (* how many messages the agent produced in the current run   *)
  shown,      (* how many of them the chat was sent                        *)
  summary     (* the session a successful prompt reports                   *)

vars == <<phase, session, said, shown, summary>>

Init ==
  /\ phase = [p \in Prompts |-> "idle"]
  /\ session = [p \in Prompts |-> NoSession]
  /\ said = [p \in Prompts |-> 0]
  /\ shown = [p \in Prompts |-> 0]
  /\ summary = [p \in Prompts |-> NoSession]

Begin(p) ==
  /\ phase[p] = "idle"
  /\ phase' = [phase EXCEPT ![p] = "first"]
  /\ \E s \in Sessions \cup {NoSession} : session' = [session EXCEPT ![p] = s]
  /\ UNCHANGED <<said, shown, summary>>

Running(p) == phase[p] \in {"first", "second"}

Say(p) ==
  /\ Running(p)
  /\ said' = [said EXCEPT ![p] = @ + 1]
  /\ UNCHANGED <<phase, session, shown, summary>>

Show(p) ==
  /\ Running(p)
  /\ shown[p] < said[p]
  /\ shown' = [shown EXCEPT ![p] = @ + 1]
  /\ UNCHANGED <<phase, session, said, summary>>

(* The first run of a prompt that was given a session comes to nothing,    *)
(* and it starts over in a fresh session, once.                            *)
Stall(p) ==
  /\ phase[p] = "first" /\ session[p] # NoSession
  /\ phase' = [phase EXCEPT ![p] = "stalled"]
  /\ said' = [said EXCEPT ![p] = 0]
  /\ shown' = [shown EXCEPT ![p] = 0]
  /\ UNCHANGED <<session, summary>>

Retry(p) ==
  /\ phase[p] = "stalled"
  /\ phase' = [phase EXCEPT ![p] = "second"]
  /\ session' = [session EXCEPT ![p] = NoSession]
  /\ UNCHANGED <<said, shown, summary>>

(* A run in a given session reports that one; a fresh run reports one that *)
(* no prompt has used.  The backend may also report none.                  *)
Reported(p) ==
  {NoSession} \cup
  (IF session[p] # NoSession THEN {session[p]}
   ELSE Sessions \ ({session[q] : q \in Prompts} \cup {summary[q] : q \in Prompts}))

Succeed(p) ==
  /\ Running(p)
  /\ shown[p] = said[p]
  /\ phase' = [phase EXCEPT ![p] = "ok"]
  /\ \E s \in Reported(p) : summary' = [summary EXCEPT ![p] = s]
  /\ said' = [said EXCEPT ![p] = 0]
  /\ shown' = [shown EXCEPT ![p] = 0]
  /\ UNCHANGED session

(* Some runs end without a result: one fails, or all are aborted.  What    *)
(* their agents go on to say is nobody's.                                  *)
Fail(Q) ==
  /\ \A p \in Q : Running(p) \/ phase[p] = "stalled"
  /\ phase' = [p \in Prompts |-> IF p \in Q THEN "failed" ELSE phase[p]]
  /\ said' = [p \in Prompts |-> IF p \in Q THEN 0 ELSE said[p]]
  /\ shown' = [p \in Prompts |-> IF p \in Q THEN 0 ELSE shown[p]]
  /\ UNCHANGED <<session, summary>>

Next ==
  \/ \E p \in Prompts : Begin(p) \/ Say(p) \/ Show(p) \/ Stall(p) \/ Retry(p) \/ Succeed(p)
  \/ \E Q \in SUBSET Prompts : Fail(Q)

Spec == Init /\ [][Next]_vars
=============================================================================
