---------------------------- MODULE ThreadTurn ----------------------------
(***************************************************************************)
(* What callers of run_turn (codex_app_server.rs) are promised about the   *)
(* turns of a thread: the agent works on one at a time, what it says in a  *)
(* turn is shown in order to the caller of that turn, and the caller is    *)
(* told of a success only if the agent had one.  It need not have been     *)
(* shown everything by then.  Once a caller has given up on a turn that    *)
(* the agent may yet begin, the turns of that thread can be taken for one  *)
(* another.                                                                *)
(***************************************************************************)
EXTENDS Naturals

CONSTANTS
  Turns,      (* the calls                                                 *)
  Threads,    (* what the agent names its threads                          *)
  NoThread    (* a thread that has no name yet                             *)

VARIABLES
  phase,      (* of each call: "idle", "open", "ok", "err"                 *)
  thread,     (* the thread it is for                                      *)
  agent,      (* of its turn: "none", "working", "ok", "err"               *)
  said,       (* how many messages the agent produced in the turn          *)
  shown,      (* how many of them the caller was given                     *)
  doubtful    (* threads of which a turn was given up                      *)

vars == <<phase, thread, agent, said, shown, doubtful>>

Init ==
  /\ phase = [t \in Turns |-> "idle"]
  /\ thread = [t \in Turns |-> NoThread]
  /\ agent = [t \in Turns |-> "none"]
  /\ said = [t \in Turns |-> 0]
  /\ shown = [t \in Turns |-> 0]
  /\ doubtful = {}

Sure(t) == thread[t] \notin doubtful

(* A call names a thread, or none to be given a new one.  It may come to   *)
(* nothing at once.                                                        *)
Begin(t, th) ==
  /\ phase[t] = "idle"
  /\ \E p \in {"open", "err"} : phase' = [phase EXCEPT ![t] = p]
  /\ thread' = [thread EXCEPT ![t] = th]
  /\ UNCHANGED <<agent, said, shown, doubtful>>

(* The new thread is nobody else's.                                        *)
Name(t, th) ==
  /\ phase[t] # "idle" /\ thread[t] = NoThread
  /\ \A u \in Turns : thread[u] # th
  /\ thread' = [thread EXCEPT ![t] = th]
  /\ UNCHANGED <<phase, agent, said, shown, doubtful>>

(* The agent takes up a turn that is waited for, if it works on no other   *)
(* turn of the thread.                                                     *)
Start(t) ==
  /\ agent[t] = "none" /\ thread[t] # NoThread
  /\ Sure(t) => /\ phase[t] = "open"
                /\ \A u \in Turns : thread[u] = thread[t] => agent[u] # "working"
  /\ agent' = [agent EXCEPT ![t] = "working"]
  /\ UNCHANGED <<phase, thread, said, shown, doubtful>>

Say(t) ==
  /\ agent[t] = "working"
  /\ said' = [said EXCEPT ![t] = @ + 1]
  /\ UNCHANGED <<phase, thread, agent, shown, doubtful>>

End(t, outcome) ==
  /\ agent[t] = "working"
  /\ agent' = [agent EXCEPT ![t] = outcome]
  /\ UNCHANGED <<phase, thread, said, shown, doubtful>>

(* The caller is given the next message of its turn, in doubt any one of   *)
(* the thread.                                                             *)
Show(t) ==
  /\ phase[t] = "open"
  /\ \E u \in Turns : \E n \in 1 .. said[u] :
       /\ thread[u] = thread[t]
       /\ Sure(t) => u = t /\ n = shown[t] + 1
       /\ shown' = [shown EXCEPT ![t] = n]
  /\ UNCHANGED <<phase, thread, agent, said, doubtful>>

(* Some turn of the thread was a success, and unless in doubt this one.    *)
Succeed(t) ==
  /\ phase[t] = "open"
  /\ \E u \in Turns : agent[u] = "ok" /\ thread[u] = thread[t] /\ (Sure(t) => u = t)
  /\ phase' = [phase EXCEPT ![t] = "ok"]
  /\ UNCHANGED <<thread, agent, said, shown, doubtful>>

(* A call may fail whatever the agent does, which goes on without it.      *)
Fail(t) ==
  /\ phase[t] = "open"
  /\ phase' = [phase EXCEPT ![t] = "err"]
  /\ UNCHANGED <<thread, agent, said, shown, doubtful>>

(* The caller has seen nothing of its turn and stops waiting, though the   *)
(* agent may have begun it, or be about to.                                *)
GiveUp(t) ==
  /\ phase[t] = "open" /\ thread[t] # NoThread /\ shown[t] = 0
  /\ phase' = [phase EXCEPT ![t] = "err"]
  /\ doubtful' = doubtful \cup {thread[t]}
  /\ UNCHANGED <<thread, agent, said, shown>>

Next ==
  \E t \in Turns :
    \/ \E th \in Threads \cup {NoThread} : Begin(t, th)
    \/ \E th \in Threads : Name(t, th)
    \/ Start(t) \/ Say(t) \/ Show(t) \/ Succeed(t) \/ Fail(t) \/ GiveUp(t)
    \/ \E outcome \in {"ok", "err"} : End(t, outcome)

Spec == Init /\ [][Next]_vars
=============================================================================
