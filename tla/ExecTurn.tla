----------------------------- MODULE ExecTurn ------------------------------
(***************************************************************************)
(* A prompt of one conversation run by the exec backend: the gateway task  *)
(* (app/gateway.rs, from the test that the conversation is not active to   *)
(* saving its session), the turn task it spawns (run_turn_once, CodexExecBackend and  *)
(* run_command of codex.rs), and the codex process with its pipes.         *)
(*                                                                         *)
(* A run is one call of run_turn_once: run <<p, 1>> is the first of prompt *)
(* p, <<p, 2>> the retry with a fresh session.                             *)
(*                                                                         *)
(* Pipes hold PipeCap units (lines of stdout, pieces of the prompt).  The  *)
(* first line of a process names its session (thread.started), the others  *)
(* are messages and notices; lines that parse_stdout_event ignores take    *)
(* no part.  So the counters wrote and read say what is in the pipe, and   *)
(* read and sent what is in the event channel.  A full stderr pipe blocks  *)
(* the process as a full stdout pipe does, and is not a variable.          *)
(*                                                                         *)
(* A prompt is admitted and announced in two steps: it finds that the      *)
(* conversation is not active, loads its session and drops the lock; then  *)
(* it sends a status message and marks the conversation.  Prompts that are *)
(* admitted together run together.                                         *)
(***************************************************************************)
EXTENDS Integers

CONSTANTS
  Prompts,     (* prompts of the conversation                              *)
  Stored,      (* the session that was stored for its thread               *)
  NoSession,   (* no session                                               *)
  PromptSize,  (* pieces of a prompt                                       *)
  PipeCap,     (* capacity of a pipe                                       *)
  MaxLines     (* bound: lines a process writes                            *)

ASSUME ExecTurnAssumption ==
  /\ PromptSize \in Nat \ {0} /\ PipeCap \in Nat \ {0} /\ MaxLines \in Nat
  /\ NoSession \notin (Prompts \X {1, 2}) \cup {Stored}
  /\ Stored \notin Prompts \X {1, 2}

Runs == Prompts \X {1, 2}

(* A fresh session is named by the run that made it.                       *)
Sessions == Runs \cup {Stored}

VARIABLES
  up,         (* the gateway process: running, draining after /quit,       *)
              (* stopping when run is about to return, exited              *)
  active,     (* whether the conversation is in active_conversations       *)
  stored,     (* the codex_thread_id that a prompt loads                   *)
  pc,         (* where the gateway task of each prompt stands              *)
  result,     (* turn_result of each prompt                                *)
  task,       (* the turn task of each run; when it has ended, its result, *)
              (* and "over" when that has been taken or nobody wants it    *)
  session,    (* the session_id each run is given, from when it is loaded  *)
  open,       (* whether the receiver of its event channel exists          *)
  child,      (* its process                                               *)
  put,        (* pieces of the prompt written to its stdin                 *)
  wrote, read,(* lines the process wrote, lines the turn task read         *)
  shown       (* events forwarded to the chat                              *)

gatewayVars == <<up, active, stored, pc, result>>
taskVars    == <<task, session, open>>
pipeVars    == <<child, put, wrote, read>>
vars == <<gatewayVars, taskVars, pipeVars, shown>>

Busy == {"spawning", "writing", "reading"}
Results == {"ok", "timed out", "status", "other"}
NoResult == [ok |-> FALSE, id |-> NoSession]

Init ==
  /\ up = "running" /\ active = FALSE
  /\ stored \in {Stored, NoSession}
  /\ pc = [p \in Prompts |-> "new"]
  /\ result = [p \in Prompts |-> NoResult]
  /\ task = [r \in Runs |-> "none"]
  /\ session = [r \in Runs |-> NoSession]
  /\ open = [r \in Runs |-> FALSE]
  /\ child = [r \in Runs |-> "none"]
  /\ put = [r \in Runs |-> 0]
  /\ wrote = [r \in Runs |-> 0] /\ read = [r \in Runs |-> 0]
  /\ shown = [r \in Runs |-> 0]

TypeOK ==
  /\ up \in {"running", "draining", "stopping", "exited"}
  /\ active \in BOOLEAN
  /\ stored \in Sessions \cup {NoSession}
  /\ pc \in [Prompts -> {"new", "announcing", "first", "notice", "second", "ending",
                         "saving", "done", "aborted"}]
  /\ result \in [Prompts -> [ok : BOOLEAN, id : Sessions \cup {NoSession}]]
  /\ task \in [Runs -> {"none"} \cup Busy \cup Results \cup {"over"}]
  /\ session \in [Runs -> Sessions \cup {NoSession}]
  /\ open \in [Runs -> BOOLEAN]
  /\ child \in [Runs -> {"none", "running", "succeeded", "failed", "gone"}]
  /\ put \in [Runs -> 0..PromptSize]
  /\ wrote \in [Runs -> 0..MaxLines] /\ read \in [Runs -> 0..MaxLines]
  /\ shown \in [Runs -> 0..MaxLines]

-----------------------------------------------------------------------------
(* The messages among n lines.                                             *)
Messages(n) == IF n = 0 THEN 0 ELSE n - 1

(* The session a process works in, and what its run knows of it.           *)
SessionOf(r) == IF session[r] # NoSession THEN session[r] ELSE r
ThreadId(r) == IF read[r] = 0 THEN NoSession ELSE SessionOf(r)

Live(r) == child[r] = "running"

(* A process whose handle is dropped is killed (kill_on_drop), or was      *)
(* waited for.                                                             *)
Dropped(c) == "gone"

(* A pipe or a channel that is closed for good holds nothing.              *)
Emptied(f, r) == [f EXCEPT ![r] = 0]

(* The run a prompt's gateway task is receiving events from, or was last.  *)
Current(p) == IF task[<<p, 2>>] = "none" THEN <<p, 1>> ELSE <<p, 2>>
Receiving(p) == pc[p] \in {"first", "second"}

-----------------------------------------------------------------------------
(* The gateway task.                                                       *)

StartRun(r, s) ==
  /\ task' = [task EXCEPT ![r] = "spawning"]
  /\ session' = [session EXCEPT ![r] = s]
  /\ open' = [open EXCEPT ![r] = TRUE]

(* Mutant of Admit: admitted without a look at the active flag.            *)
AdmitBusy(p) ==
  /\ up \in {"running", "draining"} /\ pc[p] = "new"
  /\ pc' = [pc EXCEPT ![p] = "announcing"]
  /\ session' = [session EXCEPT ![<<p, 1>>] = stored]
  /\ UNCHANGED <<up, active, stored, result, task, open, pipeVars, shown>>

(* handle_message finds the conversation not active, clones its current    *)
(* thread and drops the lock.                                              *)
Admit(p) ==
  /\ up \in {"running", "draining"} /\ pc[p] = "new" /\ ~active
  /\ pc' = [pc EXCEPT ![p] = "announcing"]
  /\ session' = [session EXCEPT ![<<p, 1>>] = stored]
  /\ UNCHANGED <<up, active, stored, result, task, open, pipeVars, shown>>

(* "Codex is thinking" has been sent: the conversation is marked active,   *)
(* and run_turn_once spawns the turn task.                                 *)
Announce(p) ==
  /\ pc[p] = "announcing"
  /\ active' = TRUE
  /\ pc' = [pc EXCEPT ![p] = "first"]
  /\ StartRun(<<p, 1>>, session[<<p, 1>>])
  /\ UNCHANGED <<up, stored, result, pipeVars, shown>>

AnnounceFails(p) ==
  /\ pc[p] = "announcing"
  /\ pc' = [pc EXCEPT ![p] = "done"]
  /\ UNCHANGED <<up, active, stored, result, taskVars, pipeVars, shown>>

(* Mutant of Forward: an event may be sent again.                          *)
ForwardAgain(p) ==
  LET r == Current(p) IN
  /\ Receiving(p)
  /\ 0 < Messages(read[r])
  /\ shown' = [shown EXCEPT ![r] = @ + 1]
  /\ UNCHANGED <<gatewayVars, taskVars, pipeVars>>

Forward(p) ==
  LET r == Current(p) IN
  /\ Receiving(p)
  /\ shown[r] < Messages(read[r])
  /\ shown' = [shown EXCEPT ![r] = @ + 1]
  /\ UNCHANGED <<gatewayVars, taskVars, pipeVars>>

(* forward_agent_event fails: run_turn_once returns at once, and leaves    *)
(* the turn task running without a receiver.                               *)
ForwardFails(p) ==
  LET r == Current(p) IN
  /\ Receiving(p)
  /\ shown[r] < Messages(read[r])
  /\ open' = [open EXCEPT ![r] = FALSE]
  /\ pc' = [pc EXCEPT ![p] = "ending"]
  /\ UNCHANGED <<up, active, stored, result, task, session, pipeVars, shown>>

(* The channel is closed and empty: the turn task has ended.               *)
RunOver(p) ==
  /\ Receiving(p)
  /\ task[Current(p)] \in Results
  /\ shown[Current(p)] = Messages(read[Current(p)])

(* should_retry_with_fresh_session: a timeout or an exit status, and there *)
(* was a session.                                                          *)
Retries(p) ==
  /\ task[Current(p)] \in {"timed out", "status"}
  /\ session[Current(p)] # NoSession

TakeResult(p) ==
  LET r == Current(p) IN
  /\ RunOver(p)
  /\ pc' = [pc EXCEPT ![p] = IF Retries(p) THEN "notice" ELSE "ending"]
  /\ result' = [result EXCEPT ![p] =
                  IF task[r] = "ok" THEN [ok |-> TRUE, id |-> ThreadId(r)] ELSE NoResult]
  /\ task' = [task EXCEPT ![r] = "over"]
  /\ open' = [open EXCEPT ![r] = FALSE]
  /\ wrote' = Emptied(wrote, r) /\ read' = Emptied(read, r) /\ shown' = Emptied(shown, r)
  /\ UNCHANGED <<up, active, stored, session, child, put>>

(* "Previous Codex session stalled." is sent, then the prompt is run anew. *)
StartFresh(p) ==
  /\ pc[p] = "notice"
  /\ pc' = [pc EXCEPT ![p] = "second"]
  /\ StartRun(<<p, 2>>, NoSession)
  /\ UNCHANGED <<up, active, stored, result, pipeVars, shown>>

NoticeFails(p) ==
  /\ pc[p] = "notice"
  /\ pc' = [pc EXCEPT ![p] = "ending"]
  /\ UNCHANGED <<up, active, stored, result, taskVars, pipeVars, shown>>

MarkInactive(p) ==
  /\ pc[p] = "ending"
  /\ active' = FALSE
  /\ pc' = [pc EXCEPT ![p] = IF result[p].id = NoSession THEN "done" ELSE "saving"]
  /\ UNCHANGED <<up, stored, result, taskVars, pipeVars, shown>>

Save(p) ==
  /\ pc[p] = "saving"
  /\ stored' = result[p].id
  /\ pc' = [pc EXCEPT ![p] = "done"]
  /\ UNCHANGED <<up, active, result, taskVars, pipeVars, shown>>

(* Gateway::run: the frontend has returned (/quit or the end of the input, *)
(* in the console) and what it sent was received.  Ctrl-c is not looked at *)
(* from here on.                                                           *)
Quit ==
  /\ up = "running"
  /\ up' = "draining"
  /\ UNCHANGED <<active, stored, pc, result, taskVars, pipeVars, shown>>

(* All message tasks are joined.  (A prompt that is new was never sent.)   *)
Drained ==
  /\ up = "draining"
  /\ \A p \in Prompts : pc[p] \in {"new", "done"}
  /\ up' = "stopping"
  /\ UNCHANGED <<active, stored, pc, result, taskVars, pipeVars, shown>>

(* Gateway::run, ctrl-c: all message tasks are aborted.  The turn tasks    *)
(* are not among them.                                                     *)
Interrupt ==
  /\ up = "running"
  /\ up' = "stopping"
  /\ pc' = [p \in Prompts |-> IF pc[p] \in {"new", "done"} THEN pc[p] ELSE "aborted"]
  /\ open' = [r \in Runs |-> FALSE]
  /\ UNCHANGED <<active, stored, result, task, session, pipeVars, shown>>

(* main returns: the runtime drops the tasks that are left.                *)
Exit ==
  /\ up = "stopping"
  /\ up' = "exited"
  /\ task' = [r \in Runs |-> IF task[r] = "none" THEN "none" ELSE "over"]
  /\ child' = [r \in Runs |-> IF task[r] \in Busy THEN Dropped(child[r]) ELSE child[r]]
  /\ UNCHANGED <<active, stored, pc, result, session, open, put, wrote, read, shown>>

-----------------------------------------------------------------------------
(* The turn task: run_command and run_command_inner.                       *)

(* It returns, and drops the process and its pipes.  Without a receiver    *)
(* the result is lost, and the lines with it.                              *)
Return(r, how) ==
  /\ child' = [child EXCEPT ![r] = Dropped(@)]
  /\ put' = Emptied(put, r)
  /\ IF open[r]
       THEN task' = [task EXCEPT ![r] = how] /\ UNCHANGED <<wrote, read, shown>>
       ELSE /\ task' = [task EXCEPT ![r] = "over"]
            /\ wrote' = Emptied(wrote, r) /\ read' = Emptied(read, r)
            /\ shown' = Emptied(shown, r)
  /\ UNCHANGED <<session, open>>

Spawn(r) ==
  /\ task[r] = "spawning"
  /\ task' = [task EXCEPT ![r] = "writing"]
  /\ child' = [child EXCEPT ![r] = "running"]
  /\ UNCHANGED <<gatewayVars, session, open, put, wrote, read, shown>>

SpawnFails(r) ==
  /\ task[r] = "spawning"
  /\ Return(r, "other")
  /\ UNCHANGED gatewayVars

(* What fits into the pipe is written whether or not the process reads.    *)
WritePrompt(r) ==
  /\ task[r] = "writing" /\ Live(r)
  /\ put[r] < PromptSize /\ put[r] < PipeCap
  /\ put' = [put EXCEPT ![r] = @ + 1]
  /\ UNCHANGED <<gatewayVars, taskVars, child, wrote, read, shown>>

(* The process is gone before it took the prompt.                          *)
WriteFails(r) ==
  /\ task[r] = "writing" /\ ~Live(r)
  /\ put[r] < PromptSize
  /\ Return(r, "other")
  /\ UNCHANGED gatewayVars

CloseStdin(r) ==
  /\ task[r] = "writing"
  /\ put[r] = PromptSize
  /\ task' = [task EXCEPT ![r] = "reading"]
  /\ UNCHANGED <<gatewayVars, session, open, pipeVars, shown>>

(* on_event puts a message into the channel, or fails without a receiver.  *)
ReadLine(r) ==
  /\ task[r] = "reading"
  /\ read[r] < wrote[r]
  /\ \/ /\ read[r] = 0 \/ open[r]
        /\ read' = [read EXCEPT ![r] = @ + 1]
        /\ UNCHANGED <<taskVars, child, put, wrote, shown>>
     \/ /\ read[r] # 0 /\ ~open[r]
        /\ Return(r, "other")
  /\ UNCHANGED gatewayVars

(* A line that is not UTF-8.                                               *)
ReadFails(r) ==
  /\ task[r] = "reading"
  /\ read[r] < wrote[r]
  /\ Return(r, "other")
  /\ UNCHANGED gatewayVars

(* Mutant of Reap: the exit status counts before stdout is read to its end. *)
ReapEarly(r) ==
  /\ task[r] = "reading"
  /\ ~Live(r)
  /\ \/ Return(r, IF child[r] = "succeeded" THEN "ok" ELSE "status")
     \/ Return(r, "other")
  /\ UNCHANGED gatewayVars

(* End of stdout; the process is waited for and the stderr task joined,    *)
(* whose error goes first.                                                 *)
Reap(r) ==
  /\ task[r] = "reading"
  /\ ~Live(r) /\ read[r] = wrote[r]
  /\ \/ Return(r, IF child[r] = "succeeded" THEN "ok" ELSE "status")
     \/ Return(r, "other")
  /\ UNCHANGED gatewayVars

(* Mutants of TimeOut: the timer belongs to run_turn_once, and goes with   *)
(* it; or it starts when the prompt has been written.                      *)
TimeOutReceived(r) ==
  /\ task[r] \in {"writing", "reading"} /\ open[r]
  /\ Return(r, "timed out")
  /\ UNCHANGED gatewayVars

TimeOutReading(r) ==
  /\ task[r] = "reading"
  /\ Return(r, "timed out")
  /\ UNCHANGED gatewayVars

(* The timeout drops run_command_inner, and the process with it.           *)
TimeOut(r) ==
  /\ task[r] \in {"writing", "reading"}
  /\ Return(r, "timed out")
  /\ UNCHANGED gatewayVars

-----------------------------------------------------------------------------
(* The codex process, an environment: it reads and writes in any order and *)
(* exits when it likes.                                                    *)

(* It reads a piece, and the next one takes its place.                     *)
TakePrompt(r) ==
  /\ task[r] = "writing" /\ Live(r)
  /\ PipeCap <= put[r] /\ put[r] < PromptSize
  /\ put' = [put EXCEPT ![r] = @ + 1]
  /\ UNCHANGED <<gatewayVars, taskVars, child, wrote, read, shown>>

WriteLine(r) ==
  /\ Live(r) /\ wrote[r] < MaxLines /\ wrote[r] - read[r] < PipeCap
  /\ wrote' = [wrote EXCEPT ![r] = @ + 1]
  /\ UNCHANGED <<gatewayVars, taskVars, child, put, read, shown>>

ChildExits(r) ==
  /\ Live(r)
  /\ \E how \in {"succeeded", "failed"} : child' = [child EXCEPT ![r] = how]
  /\ UNCHANGED <<gatewayVars, taskVars, put, wrote, read, shown>>

-----------------------------------------------------------------------------
GatewayStep(p) ==
  \/ Announce(p) \/ Forward(p) \/ TakeResult(p) \/ StartFresh(p) \/ MarkInactive(p) \/ Save(p)

TaskStep(r) ==
  \/ Spawn(r) \/ WritePrompt(r) \/ WriteFails(r) \/ CloseStdin(r)
  \/ ReadLine(r) \/ Reap(r)

Failure ==
  \/ \E p \in Prompts : AnnounceFails(p) \/ ForwardFails(p) \/ NoticeFails(p)
  \/ \E r \in Runs : SpawnFails(r) \/ ReadFails(r)

Process(r) == TakePrompt(r) \/ WriteLine(r) \/ ChildExits(r)

Next ==
  \/ \E p \in Prompts : Admit(p) \/ GatewayStep(p)
  \/ \E r \in Runs : TaskStep(r) \/ TimeOut(r) \/ Process(r)
  \/ Failure
  \/ Quit \/ Drained \/ Interrupt \/ Exit

Spec == Init /\ [][Next]_vars

(* Tasks are scheduled, the timer fires and main returns.  Nothing is      *)
(* assumed of the process.                                                 *)
FairSpec ==
  /\ Spec
  /\ \A p \in Prompts : WF_vars(GatewayStep(p))
  /\ \A r \in Runs : WF_vars(TaskStep(r)) /\ WF_vars(TimeOut(r))
  /\ WF_vars(Drained) /\ WF_vars(Exit)

-----------------------------------------------------------------------------
(* Properties.                                                             *)

(* A turn task that runs on although nobody receives its events: sending   *)
(* one to the chat failed, or the gateway was interrupted.                 *)
Abandoned(r) == task[r] \in Busy /\ ~open[r]

(* No two processes work for the conversation, but for abandoned ones.     *)
OneProcess ==
  \A r, s \in Runs : Live(r) /\ Live(s) /\ r # s => Abandoned(r) \/ Abandoned(s)

(* Two prompts found the conversation not active, and neither is announced.*)
Racing ==
  \E p, q \in Prompts : p # q /\ pc[p] = "announcing" /\ pc[q] = "announcing"

(* "Codex is already working in this conversation" (gateway.rs:187) and    *)
(* "Starting a fresh session..." (gateway.rs:307): neither the next prompt *)
(* nor the retry starts a codex process beside one that still works for    *)
(* the conversation.  The code does not always keep to that: two prompts   *)
(* may race to be announced.  Unless they do, processes are one at a time, *)
(* whatever fails, times out or is retried.                                *)
OneProcessUnlessRace == []~Racing => []OneProcess

(* The refinement mapping.  A prompt's messages are those of the run it is *)
(* receiving from.                                                         *)
Phase(p) ==
  CASE task[<<p, 1>>] = "none" -> "idle"
    [] pc[p] = "first" -> "first"
    [] pc[p] = "notice" -> "stalled"
    [] pc[p] = "second" -> "second"
    [] OTHER -> IF result[p].ok THEN "ok" ELSE "failed"
Given(p) == IF task[<<p, 1>>] = "none" THEN NoSession ELSE session[Current(p)]
Said(p)  == IF Receiving(p) THEN Messages(wrote[Current(p)]) ELSE 0
Shown(p) == IF Receiving(p) THEN shown[Current(p)] ELSE 0

Turn == INSTANCE AgentTurn WITH
  phase   <- [p \in Prompts |-> Phase(p)],
  session <- [p \in Prompts |-> Given(p)],
  said    <- [p \in Prompts |-> Said(p)],
  shown   <- [p \in Prompts |-> Shown(p)],
  summary <- [p \in Prompts |-> result[p].id]

(* What AgentTurn promises of each prompt: its messages are shown in       *)
(* order, all of them if it succeeds, none once it has ended, it is run    *)
(* again once, and only if it had a session, and the session it reports is *)
(* the one it ran in.                                                      *)
TurnContract == Turn!Spec

(* turn_timeout_secs (README.md:153) bounds a turn: every prompt that was  *)
(* admitted ends, though its process may read nothing and write for ever,  *)
(* or exit in the middle.                                                  *)
PromptsEnd == <>[](\A p \in Prompts : pc[p] \in {"new", "done", "aborted"})

(* After /quit the gateway waits for its turns, however long they take,    *)
(* and nothing can interrupt it; it does end, as after ctrl-c.             *)
GatewayExits == <>[](up \in {"running", "exited"})

(* No process stays behind for good, abandoned or not.                     *)
ProcessesEnd == <>[](\A r \in Runs : ~Live(r))
=============================================================================
