--------------------------- MODULE ExecTurnProofs --------------------------
(***************************************************************************)
(* For any number of prompts, any size of prompt and pipe and any number   *)
(* of lines: types are kept, two codex processes work for the conversation   *)
(* only after a race of two prompts or beside an abandoned one, and the    *)
(* exec backend implements the contract of AgentTurn.                      *)
(*                                                                         *)
(* The inductive invariant IInv says who is at work: a process lives only  *)
(* while its turn task writes or reads (Alive); an event channel has a     *)
(* receiver exactly while the gateway task of its prompt is in that run    *)
(* (Receivers); and runs start in order (Started).  TurnsApart is          *)
(* inductive only while no two prompts race: a prompt from its             *)
(* announcement to MarkInactive has the conversation to itself.            *)
(***************************************************************************)
EXTENDS ExecTurn, TLAPS

Returned == Results \cup {"over"}

(* What a step of the turn task of run r can change: the task and its      *)
(* process,                                                                *)
Moves(r, t, c) ==
  /\ task' = [task EXCEPT ![r] = t]
  /\ child' = [child EXCEPT ![r] = c]
  /\ c = "running" => t \in {"writing", "reading"}
  /\ t = "ok" => read'[r] = wrote'[r]

(* the lines written, read and shown,                                      *)
Counts(r, w, d, h) ==
  /\ wrote' = [wrote EXCEPT ![r] = w]
  /\ read' = [read EXCEPT ![r] = d]
  /\ shown' = [shown EXCEPT ![r] = h]
  /\ \/ w = wrote[r] /\ h = shown[r] /\ d = read[r]
     \/ w = wrote[r] /\ h = shown[r] /\ d = read[r] + 1 /\ read[r] < w
     \/ w = 0 /\ h = 0 /\ d = 0 /\ ~open[r]

(* and nothing of the gateway task.                                        *)
TaskEffect(r) ==
  /\ UNCHANGED <<gatewayVars, session, open>>
  /\ task[r] \in Busy
  /\ \E t \in {"writing", "reading"} \cup Returned :
     \E c \in {"none", "running", "succeeded", "failed", "gone"} : Moves(r, t, c)
  /\ \E n \in 0..PromptSize : put' = [put EXCEPT ![r] = n]
  /\ \E w, d, h \in 0..MaxLines : Counts(r, w, d, h)

(* What a step of its process can change.                                  *)
ProcessEffect(r) ==
  /\ UNCHANGED <<gatewayVars, taskVars, read, shown>>
  /\ Live(r)
  /\ \E c \in {"running", "succeeded", "failed"} : child' = [child EXCEPT ![r] = c]
  /\ \E n \in 0..PromptSize : put' = [put EXCEPT ![r] = n]
  /\ \E w \in 0..MaxLines : /\ wrote' = [wrote EXCEPT ![r] = w]
                            /\ w \in {wrote[r], wrote[r] + 1}

-----------------------------------------------------------------------------
LEMMA Values ==
  ASSUME TypeOK, NEW r \in Runs
  PROVE  /\ wrote[r] \in 0..MaxLines /\ read[r] \in 0..MaxLines
         /\ shown[r] \in 0..MaxLines /\ put[r] \in 0..PromptSize
         /\ wrote = [wrote EXCEPT ![r] = wrote[r]]
         /\ read = [read EXCEPT ![r] = read[r]]
         /\ shown = [shown EXCEPT ![r] = shown[r]]
         /\ put = [put EXCEPT ![r] = put[r]]
         /\ child = [child EXCEPT ![r] = child[r]]
         /\ task = [task EXCEPT ![r] = task[r]]
BY DEF TypeOK

LEMMA ReturnEffect ==
  ASSUME TypeOK, NEW r \in Runs, NEW how \in Results, task[r] \in Busy,
         how = "ok" => read[r] = wrote[r],
         Return(r, how), UNCHANGED gatewayVars
  PROVE  TaskEffect(r)
<1>1. /\ child' = [child EXCEPT ![r] = "gone"]
      /\ put' = [put EXCEPT ![r] = 0] /\ 0 \in 0..PromptSize /\ 0 \in 0..MaxLines
      /\ UNCHANGED <<gatewayVars, session, open>>
  BY ExecTurnAssumption DEF Return, Dropped, Emptied
<1>2. CASE open[r]
  <2>1. /\ task' = [task EXCEPT ![r] = how]
        /\ wrote' = wrote /\ read' = read /\ shown' = shown
    BY <1>2 DEF Return
  <2>2. Counts(r, wrote[r], read[r], shown[r])
    BY <2>1, Values DEF Counts
  <2>3. Moves(r, how, "gone")
    BY <1>1, <2>1 DEF Moves
  <2>4. how \in Returned
    BY DEF Returned
  <2> QED BY <1>1, <2>2, <2>3, <2>4, Values DEF TaskEffect
<1>3. CASE ~open[r]
  <2>1. /\ task' = [task EXCEPT ![r] = "over"]
        /\ wrote' = [wrote EXCEPT ![r] = 0] /\ read' = [read EXCEPT ![r] = 0]
        /\ shown' = [shown EXCEPT ![r] = 0]
    BY <1>3 DEF Return, Emptied
  <2>2. Counts(r, 0, 0, 0)
    BY <1>3, <2>1 DEF Counts
  <2>3. Moves(r, "over", "gone")
    BY <1>1, <2>1 DEF Moves
  <2>4. "over" \in Returned
    BY DEF Returned
  <2> QED BY <1>1, <2>2, <2>3, <2>4 DEF TaskEffect
<1> QED BY <1>2, <1>3

(* Every step of a turn task, and its failures, have these effects.        *)
LEMMA TaskSteps ==
  ASSUME TypeOK, NEW r \in Runs,
         TaskStep(r) \/ TimeOut(r) \/ SpawnFails(r) \/ ReadFails(r)
  PROVE  TaskEffect(r)
<1> USE DEF Busy, Results
<1>1. CASE Spawn(r)
  <2>1. UNCHANGED <<gatewayVars, session, open, put, wrote, read, shown>> /\ task[r] \in Busy
    BY <1>1 DEF Spawn
  <2>2. Moves(r, "writing", "running")
    BY <1>1 DEF Spawn, Moves
  <2>3. Counts(r, wrote[r], read[r], shown[r])
    BY <2>1, Values DEF Counts
  <2> QED BY <2>1, <2>2, <2>3, Values DEF TaskEffect
<1>2. CASE SpawnFails(r)
  BY <1>2, ReturnEffect DEF SpawnFails
<1>3. CASE WritePrompt(r)
  <2>1. UNCHANGED <<gatewayVars, session, open, wrote, read, shown>> /\ task[r] \in Busy
    BY <1>3 DEF WritePrompt, taskVars
  <2>2. Moves(r, "writing", "running")
    BY <1>3, Values DEF WritePrompt, Live, taskVars, Moves
  <2>3. Counts(r, wrote[r], read[r], shown[r])
    BY <2>1, Values DEF Counts
  <2>4. put[r] + 1 \in 0..PromptSize /\ put' = [put EXCEPT ![r] = put[r] + 1]
    BY <1>3, Values, ExecTurnAssumption DEF WritePrompt
  <2> QED BY <2>1, <2>2, <2>3, <2>4, Values DEF TaskEffect
<1>4. CASE WriteFails(r)
  BY <1>4, ReturnEffect DEF WriteFails
<1>5. CASE CloseStdin(r)
  <2>1. UNCHANGED <<gatewayVars, session, open, put, wrote, read, shown>> /\ task[r] \in Busy
    BY <1>5 DEF CloseStdin, pipeVars
  <2>2. Moves(r, "reading", child[r])
    BY <1>5, Values DEF CloseStdin, pipeVars, Moves
  <2>3. Counts(r, wrote[r], read[r], shown[r])
    BY <2>1, Values DEF Counts
  <2>4. child[r] \in {"none", "running", "succeeded", "failed", "gone"}
    BY DEF TypeOK
  <2> QED BY <2>1, <2>2, <2>3, <2>4, Values DEF TaskEffect
<1>6. CASE ReadLine(r)
  <2>1. task[r] \in Busy /\ task[r] = "reading" /\ read[r] < wrote[r] /\ UNCHANGED gatewayVars
    BY <1>6 DEF ReadLine
  <2>2. CASE Return(r, "other")
    BY <2>1, <2>2, ReturnEffect
  <2>3. CASE ~Return(r, "other")
    <3>1. /\ read' = [read EXCEPT ![r] = read[r] + 1]
          /\ UNCHANGED <<task, session, open, child, put, wrote, shown>>
      BY <1>6, <2>3 DEF ReadLine, taskVars
    <3>2. read[r] + 1 \in 0..MaxLines
      BY <2>1, Values, ExecTurnAssumption
    <3>3. Counts(r, wrote[r], read[r] + 1, shown[r])
      BY <2>1, <3>1, Values DEF Counts
    <3>4. Moves(r, "reading", child[r])
      BY <2>1, <3>1, Values DEF Moves
    <3>5. child[r] \in {"none", "running", "succeeded", "failed", "gone"}
      BY DEF TypeOK
    <3> QED BY <2>1, <3>1, <3>2, <3>3, <3>4, <3>5, Values DEF TaskEffect
  <2> QED BY <2>2, <2>3
<1>7. CASE ReadFails(r)
  BY <1>7, ReturnEffect DEF ReadFails
<1>8. CASE Reap(r)
  BY <1>8, ReturnEffect DEF Reap
<1>9. CASE TimeOut(r)
  BY <1>9, ReturnEffect DEF TimeOut
<1> QED BY <1>1, <1>2, <1>3, <1>4, <1>5, <1>6, <1>7, <1>8, <1>9 DEF TaskStep

LEMMA ProcessSteps ==
  ASSUME TypeOK, NEW r \in Runs, Process(r)
  PROVE  ProcessEffect(r)
<1>1. CASE TakePrompt(r)
  <2>1. put[r] + 1 \in 0..PromptSize
    BY <1>1, Values, ExecTurnAssumption DEF TakePrompt
  <2> QED BY <1>1, <2>1, Values DEF TakePrompt, ProcessEffect, Live
<1>2. CASE WriteLine(r)
  <2>1. wrote[r] + 1 \in 0..MaxLines
    BY <1>2, Values, ExecTurnAssumption DEF WriteLine
  <2> QED BY <1>2, <2>1, Values DEF WriteLine, ProcessEffect, Live
<1>3. CASE ChildExits(r)
  BY <1>3, Values DEF ChildExits, ProcessEffect
<1> QED BY <1>1, <1>2, <1>3 DEF Process

(* The steps of the gateway task of p.                                     *)
GatewaySteps(p) ==
  \/ Admit(p) \/ Announce(p) \/ AnnounceFails(p) \/ Forward(p) \/ ForwardFails(p)
  \/ TakeResult(p) \/ StartFresh(p) \/ NoticeFails(p) \/ MarkInactive(p) \/ Save(p)

(* The steps of Gateway::run after /quit move nothing but up.              *)
Ending ==
  /\ up' \in {"draining", "stopping"}
  /\ UNCHANGED <<active, stored, pc, result, task, session, open, child, put, wrote, read, shown>>

LEMMA NextEffect ==
  ASSUME TypeOK, Next
  PROVE  \/ \E p \in Prompts : GatewaySteps(p)
         \/ Interrupt \/ Exit \/ Ending
         \/ \E r \in Runs : TaskEffect(r) \/ ProcessEffect(r)
<1>1. CASE \E p \in Prompts : Admit(p) \/ GatewayStep(p)
  BY <1>1 DEF GatewayStep, GatewaySteps
<1>2. CASE \E r \in Runs : TaskStep(r) \/ TimeOut(r) \/ Process(r)
  BY <1>2, TaskSteps, ProcessSteps
<1>3. CASE Failure
  <2>1. CASE \E p \in Prompts : AnnounceFails(p) \/ ForwardFails(p) \/ NoticeFails(p)
    BY <2>1 DEF GatewaySteps
  <2>2. CASE \E r \in Runs : SpawnFails(r) \/ ReadFails(r)
    BY <2>2, TaskSteps
  <2> QED BY <1>3, <2>1, <2>2 DEF Failure
<1>4. CASE Interrupt \/ Exit
  BY <1>4
<1>5. CASE Quit \/ Drained
  BY <1>5 DEF Quit, Drained, Ending, taskVars, pipeVars
<1> QED BY <1>1, <1>2, <1>3, <1>4, <1>5 DEF Next

-----------------------------------------------------------------------------
(* Types.                                                                  *)

LEMMA RunsOf ==
  ASSUME NEW p \in Prompts
  PROVE  <<p, 1>> \in Runs /\ <<p, 2>> \in Runs /\ Current(p) \in Runs
BY DEF Runs, Current

LEMMA StartRunTypes ==
  ASSUME TypeOK, NEW r \in Runs, NEW s \in Sessions \cup {NoSession}, StartRun(r, s)
  PROVE  /\ task' \in [Runs -> {"none"} \cup Busy \cup Results \cup {"over"}]
         /\ session' \in [Runs -> Sessions \cup {NoSession}]
         /\ open' \in [Runs -> BOOLEAN]
BY DEF TypeOK, StartRun, Busy

LEMMA TypeOKNext ==
  ASSUME TypeOK, Next
  PROVE  TypeOK'
<1>1. ASSUME NEW r \in Runs, TaskEffect(r)
      PROVE  TypeOK'
  <2>1. PICK t \in {"writing", "reading"} \cup Returned,
             c \in {"none", "running", "succeeded", "failed", "gone"} : Moves(r, t, c)
    BY <1>1 DEF TaskEffect
  <2>2. PICK w \in 0..MaxLines, d \in 0..MaxLines, h \in 0..MaxLines : Counts(r, w, d, h)
    BY <1>1 DEF TaskEffect
  <2>3. t \in {"none"} \cup Busy \cup Results \cup {"over"}
    BY DEF Busy, Returned
  <2>4. task' \in [Runs -> {"none"} \cup Busy \cup Results \cup {"over"}]
    BY <2>1, <2>3 DEF TypeOK, Moves
  <2>5. child' \in [Runs -> {"none", "running", "succeeded", "failed", "gone"}]
    BY <2>1 DEF TypeOK, Moves
  <2>6. wrote' \in [Runs -> 0..MaxLines] /\ read' \in [Runs -> 0..MaxLines]
        /\ shown' \in [Runs -> 0..MaxLines]
    BY <2>2 DEF TypeOK, Counts
  <2>7. put' \in [Runs -> 0..PromptSize]
    BY <1>1 DEF TypeOK, TaskEffect
  <2> QED BY <1>1, <2>4, <2>5, <2>6, <2>7 DEF TypeOK, TaskEffect, gatewayVars
<1>2. ASSUME NEW r \in Runs, ProcessEffect(r)
      PROVE  TypeOK'
  BY <1>2 DEF TypeOK, ProcessEffect, gatewayVars, taskVars
<1>3. ASSUME NEW p \in Prompts, GatewaySteps(p)
      PROVE  TypeOK'
  <2> USE RunsOf
  <2> Current(p) \in Runs
    OBVIOUS
  <2>1. CASE Admit(p)
    <3>1. stored \in Sessions \cup {NoSession}
      BY DEF TypeOK
    <3> QED BY <2>1, <3>1 DEF TypeOK, Admit, pipeVars
  <2>a. CASE Announce(p)
    <3>1. session[<<p, 1>>] \in Sessions \cup {NoSession}
      BY DEF TypeOK
    <3> QED BY <2>a, <3>1, StartRunTypes DEF TypeOK, Announce, pipeVars
  <2>b. CASE AnnounceFails(p)
    BY <2>b DEF TypeOK, AnnounceFails, taskVars, pipeVars
  <2>2. CASE Forward(p)
    <3>1. shown[Current(p)] + 1 \in 0..MaxLines
      BY <2>2, Values, ExecTurnAssumption DEF Forward, Messages
    <3> QED BY <2>2, <3>1 DEF TypeOK, Forward, gatewayVars, taskVars, pipeVars
  <2>3. CASE ForwardFails(p)
    BY <2>3 DEF TypeOK, ForwardFails, pipeVars
  <2>4. CASE TakeResult(p)
    <3> DEFINE r == Current(p)
    <3>1. ThreadId(r) \in Sessions \cup {NoSession}
      BY DEF TypeOK, ThreadId, SessionOf, Sessions
    <3>2. result' \in [Prompts -> [ok : BOOLEAN, id : Sessions \cup {NoSession}]]
      BY <2>4, <3>1 DEF TypeOK, TakeResult, NoResult
    <3>3. wrote' \in [Runs -> 0..MaxLines] /\ read' \in [Runs -> 0..MaxLines]
          /\ shown' \in [Runs -> 0..MaxLines]
      BY <2>4, ExecTurnAssumption DEF TypeOK, TakeResult, Emptied
    <3>4. UNCHANGED <<up, active, stored, session, child, put>>
      BY <2>4 DEF TakeResult
    <3>5. /\ pc' \in [Prompts -> {"new", "announcing", "first", "notice", "second", "ending",
                                 "saving", "done", "aborted"}]
          /\ task' \in [Runs -> {"none"} \cup Busy \cup Results \cup {"over"}]
          /\ open' \in [Runs -> BOOLEAN]
      BY <2>4 DEF TypeOK, TakeResult
    <3> QED BY <3>2, <3>3, <3>4, <3>5 DEF TypeOK
  <2>5. CASE StartFresh(p)
    BY <2>5, StartRunTypes DEF TypeOK, StartFresh, pipeVars
  <2>6. CASE NoticeFails(p)
    BY <2>6 DEF TypeOK, NoticeFails, taskVars, pipeVars
  <2>7. CASE MarkInactive(p)
    BY <2>7 DEF TypeOK, MarkInactive, taskVars, pipeVars
  <2>8. CASE Save(p)
    BY <2>8 DEF TypeOK, Save, taskVars, pipeVars
  <2> QED BY <1>3, <2>1, <2>a, <2>b, <2>2, <2>3, <2>4, <2>5, <2>6, <2>7, <2>8 DEF GatewaySteps
<1>4. CASE Interrupt
  BY <1>4 DEF TypeOK, Interrupt, pipeVars
<1>5. CASE Exit
  BY <1>5 DEF TypeOK, Exit, Dropped
<1>6. CASE Ending
  BY <1>6 DEF TypeOK, Ending
<1> QED BY <1>1, <1>2, <1>3, <1>4, <1>5, <1>6, NextEffect

LEMMA TypeOKInit == Init => TypeOK
<1> SUFFICES ASSUME Init PROVE TypeOK
  OBVIOUS
<1>1. 0 \in 0..PromptSize /\ 0 \in 0..MaxLines
  BY ExecTurnAssumption
<1>2. stored \in Sessions \cup {NoSession} /\ NoSession \in Sessions \cup {NoSession}
  BY DEF Init, Sessions
<1>3. result \in [Prompts -> [ok : BOOLEAN, id : Sessions \cup {NoSession}]]
  BY DEF Init, NoResult
<1> QED BY <1>1, <1>2, <1>3 DEF Init, TypeOK

(* TypeOK, for any number of prompts and any bounds.                       *)
THEOREM TypeCorrect == Spec => []TypeOK
<1>1. TypeOK /\ [Next]_vars => TypeOK'
  <2> SUFFICES ASSUME TypeOK, [Next]_vars PROVE TypeOK'
    OBVIOUS
  <2>1. CASE Next
    BY <2>1, TypeOKNext
  <2>2. CASE UNCHANGED vars
    BY <2>2 DEF TypeOK, vars, gatewayVars, taskVars, pipeVars
  <2> QED BY <2>1, <2>2
<1> QED BY <1>1, TypeOKInit, PTL DEF Spec

-----------------------------------------------------------------------------
(* Who is at work.                                                         *)

Alive == \A r \in Runs : Live(r) => task[r] \in {"writing", "reading"}

Receivers ==
  \A p \in Prompts : \A k \in {1, 2} :
    open[<<p, k>>] <=> Receiving(p) /\ Current(p) = <<p, k>>

Started ==
  \A p \in Prompts :
    /\ pc[p] \in {"new", "announcing"} => task[<<p, 1>>] = "none"
    /\ pc[p] \in {"first", "notice", "second"} => task[<<p, 1>>] # "none"
    /\ pc[p] \in {"new", "announcing", "first", "notice"} => task[<<p, 2>>] = "none"
    /\ pc[p] = "second" => task[<<p, 2>>] # "none"
    /\ session[<<p, 2>>] = NoSession

WInv == TypeOK /\ Alive /\ Receivers /\ Started

LEMMA WInvInit == Init => WInv
<1> SUFFICES ASSUME Init PROVE WInv
  OBVIOUS
<1>1. TypeOK
  BY TypeOKInit
<1>2. Alive
  BY DEF Init, Alive, Live
<1>3. Receivers
  BY DEF Init, Receivers, Receiving, Runs
<1>4. Started
  BY DEF Init, Started, Runs
<1> QED BY <1>1, <1>2, <1>3, <1>4 DEF WInv

(* Runs in hand of a prompt.                                               *)
LEMMA RunOf ==
  ASSUME NEW r \in Runs
  PROVE  \E p \in Prompts, k \in {1, 2} : r = <<p, k>>
BY DEF Runs

(* The effects of a turn task and of a process leave who is where alone.   *)
LEMMA EffectsKeep ==
  ASSUME WInv, NEW r \in Runs, TaskEffect(r) \/ ProcessEffect(r)
  PROVE  /\ Alive' /\ Receivers' /\ Started'
         /\ \A s \in Runs : task'[s] = "none" <=> task[s] = "none"
         /\ \A p \in Prompts : Current(p)' = Current(p) /\ Receiving(p)' = Receiving(p)
<1> USE DEF WInv
<1>1. UNCHANGED <<up, active, stored, pc, result, session, open>>
  BY DEF TaskEffect, ProcessEffect, gatewayVars, taskVars
<1>2. \A s \in Runs : task'[s] = "none" <=> task[s] = "none"
  <2>1. CASE ProcessEffect(r)
    BY <2>1 DEF ProcessEffect, taskVars
  <2>2. CASE TaskEffect(r)
    BY <2>2 DEF TaskEffect, Moves, Busy, Returned, Results, TypeOK
  <2> QED BY <2>1, <2>2
<1>3. Alive'
  <2>1. CASE ProcessEffect(r)
    BY <2>1 DEF ProcessEffect, taskVars, Alive, Live, TypeOK
  <2>2. CASE TaskEffect(r)
    <3>1. PICK t \in {"writing", "reading"} \cup Returned,
               c \in {"none", "running", "succeeded", "failed", "gone"} : Moves(r, t, c)
      BY <2>2 DEF TaskEffect
    <3> QED BY <3>1 DEF Moves, Alive, Live, TypeOK
  <2> QED BY <2>1, <2>2
<1>4. \A p \in Prompts : Current(p)' = Current(p) /\ Receiving(p)' = Receiving(p)
  BY <1>1, <1>2, RunsOf DEF Current, Receiving
<1>5. Receivers'
  BY <1>1, <1>4 DEF Receivers
<1>6. Started'
  BY <1>1, <1>2, RunsOf DEF Started
<1> QED BY <1>2, <1>3, <1>4, <1>5, <1>6

LEMMA AliveGateway ==
  ASSUME WInv, NEW p \in Prompts, GatewaySteps(p)
  PROVE  Alive'
<1> USE RunsOf DEF WInv
<1>1. \A r \in Runs : Live(r)' = Live(r)
  BY DEF GatewaySteps, Admit, Announce, AnnounceFails, Forward, ForwardFails, TakeResult,
         StartFresh, NoticeFails, MarkInactive, Save, pipeVars, Live
<1>2. CASE Announce(p)
  <2>1. task[<<p, 1>>] = "none" /\ task' = [task EXCEPT ![<<p, 1>>] = "spawning"]
    BY <1>2 DEF Announce, Started, StartRun
  <2> QED BY <1>1, <2>1 DEF Alive, TypeOK
<1>3. CASE TakeResult(p)
  <2>1. /\ task[Current(p)] \in Results
        /\ task' = [task EXCEPT ![Current(p)] = "over"]
    BY <1>3 DEF TakeResult, RunOver
  <2> QED BY <1>1, <2>1 DEF Alive, TypeOK, Results
<1>4. CASE StartFresh(p)
  <2>1. task[<<p, 2>>] = "none" /\ task' = [task EXCEPT ![<<p, 2>>] = "spawning"]
    BY <1>4 DEF StartFresh, Started, StartRun
  <2> QED BY <1>1, <2>1 DEF Alive, TypeOK
<1>5. CASE \/ Admit(p) \/ AnnounceFails(p) \/ Forward(p) \/ ForwardFails(p)
           \/ NoticeFails(p) \/ MarkInactive(p) \/ Save(p)
  <2>1. task' = task
    BY <1>5 DEF Admit, AnnounceFails, Forward, ForwardFails, NoticeFails, MarkInactive, Save, taskVars
  <2> QED BY <1>1, <2>1 DEF Alive
<1> QED BY <1>2, <1>3, <1>4, <1>5 DEF GatewaySteps

(* Which first runs have begun, after a step of one prompt.                *)
LEMMA FirstRuns ==
  ASSUME WInv, NEW p \in Prompts, GatewaySteps(p)
  PROVE  \A q \in Prompts : ~(q = p /\ Announce(p))
           => (task'[<<q, 1>>] = "none" <=> task[<<q, 1>>] = "none")
<1> USE DEF WInv
<1>1. CASE Announce(p)
  BY <1>1, RunsOf DEF Announce, StartRun, TypeOK
<1>2. CASE StartFresh(p)
  BY <1>2, RunsOf DEF StartFresh, StartRun, TypeOK
<1>3. CASE TakeResult(p)
  BY <1>3, RunsOf DEF TakeResult, RunOver, TypeOK, Results
<1>4. CASE \/ Admit(p) \/ AnnounceFails(p) \/ Forward(p) \/ ForwardFails(p)
           \/ NoticeFails(p) \/ MarkInactive(p) \/ Save(p)
  BY <1>4 DEF Admit, AnnounceFails, Forward, ForwardFails, NoticeFails, MarkInactive, Save, taskVars
<1> QED BY <1>1, <1>2, <1>3, <1>4 DEF GatewaySteps

(* Where the current run of each prompt is, after a step of one.           *)
LEMMA CurrentGateway ==
  ASSUME WInv, NEW p \in Prompts, GatewaySteps(p)
  PROVE  \A q \in Prompts : Current(q)' = IF q = p /\ StartFresh(p) THEN <<p, 2>> ELSE Current(q)
<1> USE DEF WInv
<1>1. \A q \in Prompts : q # p => task'[<<q, 2>>] = task[<<q, 2>>]
  BY RunsOf DEF GatewaySteps, Admit, Announce, AnnounceFails, Forward, ForwardFails, TakeResult, StartFresh, StartRun,
         NoticeFails, MarkInactive, Save, taskVars, Current, TypeOK
<1>2. StartFresh(p) => task'[<<p, 2>>] = "spawning"
  BY RunsOf DEF StartFresh, StartRun, TypeOK
<1>3. ~StartFresh(p) => (task'[<<p, 2>>] = "none" <=> task[<<p, 2>>] = "none")
  <2>1. CASE Announce(p)
    BY <2>1, RunsOf DEF Announce, StartRun, TypeOK
  <2>2. CASE TakeResult(p)
    BY <2>2, RunsOf DEF TakeResult, RunOver, TypeOK, Results
  <2>3. CASE \/ Admit(p) \/ AnnounceFails(p) \/ Forward(p) \/ ForwardFails(p)
             \/ NoticeFails(p) \/ MarkInactive(p) \/ Save(p)
    BY <2>3 DEF Admit, AnnounceFails, Forward, ForwardFails, NoticeFails, MarkInactive, Save, taskVars
  <2> QED BY <2>1, <2>2, <2>3 DEF GatewaySteps
<1> QED BY <1>1, <1>2, <1>3 DEF Current

LEMMA ReceiversGateway ==
  ASSUME WInv, NEW p \in Prompts, GatewaySteps(p)
  PROVE  Receivers'
<1> USE DEF WInv, Receivers
<1>1. \A q \in Prompts : q # p => /\ Receiving(q)' = Receiving(q)
                                 /\ \A k \in {1, 2} : open'[<<q, k>>] = open[<<q, k>>]
  BY RunsOf DEF GatewaySteps, Admit, Announce, AnnounceFails, Forward, ForwardFails, TakeResult, StartFresh, StartRun,
         NoticeFails, MarkInactive, Save, taskVars, gatewayVars, Current, Receiving, TypeOK, Runs
<1>2. \A k \in {1, 2} : open'[<<p, k>>] <=> Receiving(p)' /\ Current(p)' = <<p, k>>
  <2> USE RunsOf, CurrentGateway DEF Receiving, TypeOK
  <2>1. CASE Announce(p)
    <3>1. Current(p) = <<p, 1>> /\ ~open[<<p, 2>>]
      BY <2>1 DEF Announce, Started, Current
    <3>2. ~StartFresh(p)
      BY <2>1 DEF Announce, StartFresh
    <3> QED BY <2>1, <3>1, <3>2 DEF Announce, StartRun
  <2>2. CASE Forward(p)
    BY <2>2 DEF Forward, StartFresh, gatewayVars, taskVars
  <2>3. CASE ForwardFails(p)
    <3>1. Current(p)' = Current(p) /\ Current(p) \in {<<p, 1>>, <<p, 2>>}
      BY <2>3 DEF ForwardFails, StartFresh, Current
    <3> QED BY <2>3, <3>1 DEF ForwardFails
  <2>4. CASE TakeResult(p)
    <3>1. Current(p)' = Current(p) /\ Current(p) \in {<<p, 1>>, <<p, 2>>}
      BY <2>4 DEF TakeResult, RunOver, StartFresh, Current
    <3> QED BY <2>4, <3>1 DEF TakeResult, RunOver
  <2>5. CASE StartFresh(p)
    <3>1. Current(p)' = <<p, 2>> /\ ~open[<<p, 1>>]
      BY <2>5 DEF StartFresh
    <3> QED BY <2>5, <3>1 DEF StartFresh, StartRun
  <2>6. CASE Admit(p) \/ AnnounceFails(p) \/ NoticeFails(p) \/ MarkInactive(p) \/ Save(p)
    <3>1. ~Receiving(p) /\ ~Receiving(p)' /\ UNCHANGED open
      BY <2>6 DEF Admit, AnnounceFails, NoticeFails, MarkInactive, Save, taskVars
    <3> QED BY <3>1
  <2> QED BY <2>1, <2>2, <2>3, <2>4, <2>5, <2>6 DEF GatewaySteps
<1>3. \A q \in Prompts : q # p => Current(q)' = Current(q)
  BY CurrentGateway
<1> QED BY <1>1, <1>2, <1>3

LEMMA StartedGateway ==
  ASSUME WInv, NEW p \in Prompts, GatewaySteps(p)
  PROVE  Started'
<1> USE RunsOf DEF WInv, Started, TypeOK
<1> SUFFICES ASSUME NEW q \in Prompts
             PROVE  /\ pc'[q] \in {"new", "announcing"} => task'[<<q, 1>>] = "none"
                    /\ pc'[q] \in {"first", "notice", "second"} => task'[<<q, 1>>] # "none"
                    /\ pc'[q] \in {"new", "announcing", "first", "notice"}
                         => task'[<<q, 2>>] = "none"
                    /\ pc'[q] = "second" => task'[<<q, 2>>] # "none"
                    /\ session'[<<q, 2>>] = NoSession
  BY DEF Started
<1>1. ~(q = p /\ Announce(p)) => (task'[<<q, 1>>] = "none" <=> task[<<q, 1>>] = "none")
  BY FirstRuns
<1>2. CASE Admit(p)
  <2>1. /\ pc[p] = "new" /\ pc' = [pc EXCEPT ![p] = "announcing"] /\ task' = task
        /\ session' = [session EXCEPT ![<<p, 1>>] = stored]
    BY <1>2 DEF Admit
  <2> QED BY <2>1
<1>3. CASE Announce(p)
  <2>1. /\ pc[p] = "announcing" /\ pc' = [pc EXCEPT ![p] = "first"]
        /\ task' = [task EXCEPT ![<<p, 1>>] = "spawning"]
        /\ session' = [session EXCEPT ![<<p, 1>>] = session[<<p, 1>>]]
    BY <1>3 DEF Announce, StartRun
  <2> QED BY <2>1
<1>4. CASE TakeResult(p)
  <2>1. /\ UNCHANGED session /\ pc[p] \in {"first", "second"}
        /\ pc' = [pc EXCEPT ![p] = IF Retries(p) THEN "notice" ELSE "ending"]
        /\ task' = [task EXCEPT ![Current(p)] = "over"]
    BY <1>4 DEF TakeResult, RunOver, Receiving
  <2>2. CASE q # p
    <3>1. pc'[q] = pc[q] /\ task'[<<q, 2>>] = task[<<q, 2>>]
      BY <2>1, <2>2 DEF Current
    <3> QED BY <1>1, <2>1, <2>2, <3>1
  <2>3. CASE q = p
    <3>1. pc'[p] \in {"notice", "ending"}
      BY <2>1
    <3>2. pc'[p] = "notice" => task'[<<p, 2>>] = "none"
      <4> SUFFICES ASSUME pc'[p] = "notice" PROVE task'[<<p, 2>>] = "none"
        OBVIOUS
      <4>1. Retries(p)
        BY <2>1
      <4>2. task[<<p, 2>>] = "none"
        BY <4>1 DEF Retries, Current
      <4> QED BY <2>1, <4>2 DEF Current
    <3>3. ~Announce(p)
      BY <2>1 DEF Announce
    <3> QED BY <1>1, <2>1, <2>3, <3>1, <3>2, <3>3
  <2> QED BY <2>2, <2>3
<1>5. CASE StartFresh(p)
  <2>1. /\ pc[p] = "notice" /\ pc' = [pc EXCEPT ![p] = "second"]
        /\ task' = [task EXCEPT ![<<p, 2>>] = "spawning"]
        /\ session' = [session EXCEPT ![<<p, 2>>] = NoSession]
    BY <1>5 DEF StartFresh, StartRun
  <2> QED BY <2>1
<1>6. CASE \/ AnnounceFails(p) \/ Forward(p) \/ ForwardFails(p) \/ NoticeFails(p)
           \/ MarkInactive(p) \/ Save(p)
  <2>1. /\ UNCHANGED <<task, session>>
        /\ pc' = pc \/ \E x \in {"ending", "saving", "done"} : pc' = [pc EXCEPT ![p] = x]
    BY <1>6 DEF AnnounceFails, Forward, ForwardFails, NoticeFails, MarkInactive, Save,
       gatewayVars, taskVars
  <2>2. pc'[q] = pc[q] \/ pc'[q] \in {"ending", "saving", "done"}
    BY <2>1
  <2> QED BY <2>1, <2>2
<1> QED BY <1>2, <1>3, <1>4, <1>5, <1>6 DEF GatewaySteps

LEMMA WInvInterrupt ==
  ASSUME WInv, Interrupt
  PROVE  Alive' /\ Receivers' /\ Started'
<1> USE DEF WInv, Interrupt, TypeOK
<1>1. Alive'
  BY DEF Alive, Live, pipeVars
<1>2. Receivers'
  BY RunsOf DEF Receivers, Receiving
<1>3. Started'
  BY DEF Started
<1> QED BY <1>1, <1>2, <1>3

LEMMA WInvExit ==
  ASSUME WInv, Exit
  PROVE  /\ Alive' /\ Receivers' /\ Started'
         /\ \A s \in Runs : task'[s] = "none" <=> task[s] = "none"
         /\ \A p \in Prompts : Current(p)' = Current(p) /\ Receiving(p)' = Receiving(p)
<1> USE DEF WInv, Exit, TypeOK
<1>1. \A r \in Runs : task'[r] = "none" <=> task[r] = "none"
  OBVIOUS
<1>2. Alive'
  BY DEF Alive, Live, Dropped, Busy
<1>3. \A p \in Prompts : Current(p)' = Current(p) /\ Receiving(p)' = Receiving(p)
  BY <1>1, RunsOf DEF Current, Receiving
<1>4. Receivers'
  BY <1>3 DEF Receivers
<1>5. Started'
  BY <1>1, RunsOf DEF Started
<1> QED BY <1>1, <1>2, <1>3, <1>4, <1>5

LEMMA WInvStep ==
  ASSUME WInv, [Next]_vars
  PROVE  WInv'
<1>1. CASE UNCHANGED vars
  BY <1>1 DEF vars, gatewayVars, taskVars, pipeVars, WInv, TypeOK, Alive, Live,
     Receivers, Receiving, Current, Started
<1>2. CASE Next
  <2>1. TypeOK'
    BY <1>2, TypeOKNext DEF WInv
  <2>2. Alive' /\ Receivers' /\ Started'
    <3>1. CASE \E p \in Prompts : GatewaySteps(p)
      BY <3>1, AliveGateway, ReceiversGateway, StartedGateway
    <3>2. CASE Interrupt \/ Exit
      BY <3>2, WInvInterrupt, WInvExit
    <3>3. CASE \E r \in Runs : TaskEffect(r) \/ ProcessEffect(r)
      BY <3>3, EffectsKeep
    <3>4. CASE Ending
      BY <3>4 DEF Ending, WInv, Alive, Live, Receivers, Receiving, Current, Started
    <3> QED BY <1>2, <3>1, <3>2, <3>3, <3>4, NextEffect DEF WInv
  <2> QED BY <2>1, <2>2 DEF WInv
<1> QED BY <1>1, <1>2

(* What holds as long as no two prompts race: a prompt from its            *)
(* announcement to MarkInactive keeps the conversation active, and no      *)
(* other is there or about to be.                                          *)
Holding == {"first", "notice", "second", "ending"}

TurnsApart ==
  \A p \in Prompts : pc[p] \in Holding =>
    active /\ \A q \in Prompts : pc[q] \in Holding \cup {"announcing"} => q = p

LEMMA ApartGateway ==
  ASSUME TypeOK, TurnsApart, ~Racing, NEW p \in Prompts, GatewaySteps(p)
  PROVE  TurnsApart'
<1> USE DEF TurnsApart, Holding, TypeOK
<1>1. CASE Admit(p)
  <2>1. ~active /\ active' = active /\ pc[p] = "new" /\ pc' = [pc EXCEPT ![p] = "announcing"]
    BY <1>1 DEF Admit
  <2> QED BY <2>1
<1>2. CASE Announce(p)
  <2>1. active' = TRUE /\ pc[p] = "announcing" /\ pc' = [pc EXCEPT ![p] = "first"]
    BY <1>2 DEF Announce
  <2>2. \A q \in Prompts : q # p => pc[q] \notin Holding \cup {"announcing"}
    BY <2>1 DEF Racing
  <2> QED BY <2>1, <2>2
<1>3. CASE MarkInactive(p)
  <2>1. pc[p] = "ending" /\ \E x \in {"done", "saving"} : pc' = [pc EXCEPT ![p] = x]
    BY <1>3 DEF MarkInactive
  <2> QED BY <2>1
<1>4. CASE \/ Forward(p) \/ ForwardFails(p) \/ TakeResult(p) \/ StartFresh(p) \/ NoticeFails(p)
  <2>1. /\ active' = active /\ pc[p] \in Holding
        /\ pc' = pc \/ \E x \in Holding : pc' = [pc EXCEPT ![p] = x]
    BY <1>4 DEF Forward, ForwardFails, TakeResult, RunOver, StartFresh, NoticeFails, Receiving,
       gatewayVars
  <2> QED BY <2>1
<1>5. CASE AnnounceFails(p) \/ Save(p)
  <2>1. active' = active /\ pc' = [pc EXCEPT ![p] = "done"]
    BY <1>5 DEF AnnounceFails, Save
  <2> QED BY <2>1
<1> QED BY <1>1, <1>2, <1>3, <1>4, <1>5 DEF GatewaySteps

LEMMA ApartStep ==
  ASSUME TypeOK, TurnsApart, ~Racing, [Next]_vars
  PROVE  TurnsApart'
<1>1. CASE \E p \in Prompts : GatewaySteps(p)
  BY <1>1, ApartGateway
<1>2. CASE Interrupt
  BY <1>2 DEF Interrupt, TurnsApart, Holding, TypeOK
<1>3. CASE \/ Exit \/ Ending \/ UNCHANGED vars
           \/ \E r \in Runs : TaskEffect(r) \/ ProcessEffect(r)
  <2>1. active' = active /\ pc' = pc
    BY <1>3 DEF Exit, Ending, vars, TaskEffect, ProcessEffect, gatewayVars
  <2> QED BY <2>1 DEF TurnsApart
<1> QED BY <1>1, <1>2, <1>3, NextEffect

(* Two processes at work would both have a receiver, or one of them is     *)
(* abandoned.                                                              *)
LEMMA ProcessesApart ==
  ASSUME WInv, TurnsApart
  PROVE  OneProcess
<1> SUFFICES ASSUME NEW r \in Runs, NEW s \in Runs, Live(r), Live(s), r # s,
                    ~Abandoned(r), ~Abandoned(s)
             PROVE  FALSE
  BY DEF OneProcess
<1>1. open[r] /\ open[s]
  BY DEF WInv, Alive, Abandoned, Busy
<1>2. PICK p \in Prompts, k \in {1, 2} : r = <<p, k>>
  BY RunOf
<1>3. PICK q \in Prompts, l \in {1, 2} : s = <<q, l>>
  BY RunOf
<1>4. /\ Receiving(p) /\ Current(p) = r
      /\ Receiving(q) /\ Current(q) = s
  BY <1>1, <1>2, <1>3 DEF WInv, Receivers
<1>5. p = q
  BY <1>4 DEF TurnsApart, Receiving, Holding
<1> QED BY <1>4, <1>5

(* OneProcessUnlessRace, of any number of prompts (gateway.rs:183-274): as *)
(* long as no two prompts are between the test of the active mark and the  *)
(* marking at once, no codex process works for the conversation beside     *)
(* another, but for abandoned ones.                                        *)
THEOREM OneProcessButForRaces == Spec => OneProcessUnlessRace
<1>1. Init => TurnsApart
  BY DEF Init, TurnsApart, Holding
<1>2. TypeOK /\ TurnsApart /\ ~Racing /\ [Next]_vars => TurnsApart'
  BY ApartStep
<1>3. WInv /\ [Next]_vars => WInv'
  BY WInvStep
<1>4. WInv => TypeOK
  BY DEF WInv
<1>5. WInv /\ TurnsApart => OneProcess
  BY ProcessesApart
<1> QED BY <1>1, <1>2, <1>3, <1>4, <1>5, WInvInit, PTL DEF Spec, OneProcessUnlessRace

-----------------------------------------------------------------------------
(* The refinement needs more: what is shown was read, what was read was    *)
(* written, a run that is "ok" has read it all, and an id that is stored,  *)
(* given or reported is that of a prompt that succeeded, so that a fresh   *)
(* session is new to all.                                                  *)

Counted ==
  \A r \in Runs :
    /\ shown[r] <= Messages(read[r]) /\ read[r] <= wrote[r]
    /\ task[r] = "ok" => read[r] = wrote[r]
    /\ task[r] \in {"none", "spawning"} => wrote[r] = 0

Unresolved ==
  \A p \in Prompts : pc[p] \in {"new", "announcing", "first", "notice", "second"} => result[p] = NoResult

(* A session somebody knows of.                                            *)
Known(x) ==
  \/ stored = x
  \/ \E s \in Runs : session[s] = x
  \/ \E q \in Prompts : result[q].id = x

Fresh == \A p \in Prompts : \A k \in {1, 2} : Known(<<p, k>>) => result[p].ok

IInv == WInv /\ Counted /\ Unresolved /\ Fresh

LEMMA IInvInit == Init => IInv
<1> SUFFICES ASSUME Init PROVE IInv
  OBVIOUS
<1>1. Counted
  BY DEF Init, Counted, Messages
<1>2. Unresolved
  BY DEF Init, Unresolved
<1>3. Fresh
  <2> SUFFICES ASSUME NEW p \in Prompts, NEW k \in {1, 2}, Known(<<p, k>>) PROVE FALSE
    BY DEF Fresh
  <2>1. <<p, k>> # NoSession /\ <<p, k>> # Stored
    BY ExecTurnAssumption
  <2> QED BY <2>1 DEF Init, Known, NoResult
<1> QED BY <1>1, <1>2, <1>3, WInvInit DEF IInv

LEMMA CountedStep ==
  ASSUME IInv, Next
  PROVE  Counted'
<1> USE DEF IInv, WInv
<1>1. ASSUME NEW r \in Runs, TaskEffect(r) PROVE Counted'
  <2>1. PICK t \in {"writing", "reading"} \cup Returned,
             c \in {"none", "running", "succeeded", "failed", "gone"} : Moves(r, t, c)
    BY <1>1 DEF TaskEffect
  <2>2. PICK w \in 0..MaxLines, d \in 0..MaxLines, h \in 0..MaxLines : Counts(r, w, d, h)
    BY <1>1 DEF TaskEffect
  <2>3. task' = [task EXCEPT ![r] = t] /\ t \notin {"none", "spawning"}
    BY <2>1 DEF Moves, Returned, Results
  <2>4. /\ wrote' = [wrote EXCEPT ![r] = w] /\ read' = [read EXCEPT ![r] = d]
        /\ shown' = [shown EXCEPT ![r] = h]
    BY <2>2 DEF Counts
  <2>5. t = "ok" => d = w
    BY <2>1, <2>4 DEF Moves, TypeOK
  <2>6. h <= Messages(d) /\ d <= w
    BY <2>2, Values, ExecTurnAssumption DEF Counts, Counted, Messages
  <2> SUFFICES ASSUME NEW s \in Runs
               PROVE  /\ shown'[s] <= Messages(read'[s]) /\ read'[s] <= wrote'[s]
                      /\ task'[s] = "ok" => read'[s] = wrote'[s]
                      /\ task'[s] \in {"none", "spawning"} => wrote'[s] = 0
    BY DEF Counted, Messages
  <2>7. CASE s = r
    BY <2>3, <2>4, <2>5, <2>6, <2>7 DEF TypeOK
  <2>8. CASE s # r
    BY <2>3, <2>4, <2>8 DEF TypeOK, Counted
  <2> QED BY <2>7, <2>8
<1>2. ASSUME NEW r \in Runs, ProcessEffect(r) PROVE Counted'
  <2>1. task[r] \in {"writing", "reading"}
    BY <1>2 DEF ProcessEffect, Alive
  <2>2. PICK w \in 0..MaxLines : wrote' = [wrote EXCEPT ![r] = w] /\ w \in {wrote[r], wrote[r] + 1}
    BY <1>2 DEF ProcessEffect
  <2>3. UNCHANGED <<task, read, shown>>
    BY <1>2 DEF ProcessEffect, taskVars
  <2>4. read[r] <= w
    BY <2>2, Values, ExecTurnAssumption DEF Counted
  <2> QED BY <2>1, <2>2, <2>3, <2>4 DEF Counted, TypeOK, Messages
<1>3. ASSUME NEW p \in Prompts, GatewaySteps(p) PROVE Counted'
  <2> USE RunsOf DEF TypeOK
  <2>1. CASE Announce(p)
    <3>1. /\ task' = [task EXCEPT ![<<p, 1>>] = "spawning"] /\ task[<<p, 1>>] = "none"
          /\ UNCHANGED <<wrote, read, shown>>
      BY <2>1 DEF Announce, StartRun, Started, pipeVars
    <3> QED BY <3>1 DEF Counted, Messages
  <2>2. CASE Forward(p)
    <3>1. /\ shown' = [shown EXCEPT ![Current(p)] = shown[Current(p)] + 1]
          /\ shown[Current(p)] < Messages(read[Current(p)])
          /\ UNCHANGED <<task, wrote, read>>
      BY <2>2 DEF Forward, taskVars, pipeVars
    <3> DEFINE m == Messages(read[Current(p)])
    <3>2. shown[Current(p)] \in Int /\ m \in Int
      <4>1. shown[Current(p)] \in 0..MaxLines /\ read[Current(p)] \in 0..MaxLines
        BY RunsOf
      <4>2. MaxLines \in Nat
        BY ExecTurnAssumption
      <4> QED BY <4>1, <4>2 DEF Messages
    <3>3. shown[Current(p)] + 1 <= m
      <4> HIDE DEF m
      <4> QED BY <3>1, <3>2 DEF m
    <3> QED BY <3>1, <3>3 DEF Counted, Messages
  <2>3. CASE TakeResult(p)
    <3>1. /\ task' = [task EXCEPT ![Current(p)] = "over"]
          /\ wrote' = [wrote EXCEPT ![Current(p)] = 0] /\ read' = [read EXCEPT ![Current(p)] = 0]
          /\ shown' = [shown EXCEPT ![Current(p)] = 0]
      BY <2>3 DEF TakeResult, Emptied
    <3> QED BY <3>1 DEF Counted, Messages
  <2>4. CASE StartFresh(p)
    <3>1. /\ task' = [task EXCEPT ![<<p, 2>>] = "spawning"] /\ task[<<p, 2>>] = "none"
          /\ UNCHANGED <<wrote, read, shown>>
      BY <2>4 DEF StartFresh, StartRun, Started, pipeVars
    <3> QED BY <3>1 DEF Counted, Messages
  <2>5. CASE \/ Admit(p) \/ AnnounceFails(p) \/ ForwardFails(p) \/ NoticeFails(p)
             \/ MarkInactive(p) \/ Save(p)
    <3>1. UNCHANGED <<task, wrote, read, shown>>
      BY <2>5 DEF Admit, AnnounceFails, ForwardFails, NoticeFails, MarkInactive, Save, taskVars, pipeVars
    <3> QED BY <3>1 DEF Counted, Messages
  <2> QED BY <1>3, <2>1, <2>2, <2>3, <2>4, <2>5 DEF GatewaySteps
<1>4. CASE Interrupt
  BY <1>4 DEF Interrupt, pipeVars, Counted, Messages
<1>5. CASE Exit
  BY <1>5 DEF Exit, Counted, Messages, TypeOK
<1>6. CASE Ending
  BY <1>6 DEF Ending, Counted, Messages
<1> QED BY <1>1, <1>2, <1>3, <1>4, <1>5, <1>6, NextEffect

LEMMA UnresolvedStep ==
  ASSUME IInv, Next
  PROVE  Unresolved'
<1> USE DEF IInv, WInv, Unresolved, TypeOK
<1>1. ASSUME NEW r \in Runs, TaskEffect(r) \/ ProcessEffect(r) PROVE Unresolved'
  BY <1>1 DEF TaskEffect, ProcessEffect, gatewayVars
<1>2. ASSUME NEW p \in Prompts, GatewaySteps(p) PROVE Unresolved'
  <2>1. CASE Admit(p)
    BY <2>1 DEF Admit
  <2>a. CASE Announce(p)
    BY <2>a DEF Announce
  <2>b. CASE AnnounceFails(p)
    BY <2>b DEF AnnounceFails
  <2>2. CASE Forward(p)
    BY <2>2 DEF Forward, gatewayVars
  <2>3. CASE ForwardFails(p)
    BY <2>3 DEF ForwardFails
  <2>4. CASE TakeResult(p)
    <3>1. /\ \A q \in Prompts : q # p => pc'[q] = pc[q] /\ result'[q] = result[q]
          /\ pc'[p] = IF Retries(p) THEN "notice" ELSE "ending"
      BY <2>4 DEF TakeResult
    <3>2. Retries(p) => result'[p] = NoResult
      BY <2>4 DEF TakeResult, Retries
    <3> SUFFICES ASSUME NEW q \in Prompts, pc'[q] \in {"new", "announcing", "first", "notice", "second"}
                 PROVE  result'[q] = NoResult
      BY DEF NoResult
    <3> QED BY <3>1, <3>2
  <2>5. CASE StartFresh(p)
    BY <2>5 DEF StartFresh
  <2>6. CASE NoticeFails(p)
    BY <2>6 DEF NoticeFails
  <2>7. CASE MarkInactive(p)
    BY <2>7 DEF MarkInactive
  <2>8. CASE Save(p)
    BY <2>8 DEF Save
  <2> QED BY <1>2, <2>1, <2>a, <2>b, <2>2, <2>3, <2>4, <2>5, <2>6, <2>7, <2>8 DEF GatewaySteps
<1>3. CASE Interrupt
  BY <1>3 DEF Interrupt
<1>4. CASE Exit
  BY <1>4 DEF Exit
<1>5. CASE Ending
  BY <1>5 DEF Ending
<1> QED BY <1>1, <1>2, <1>3, <1>4, <1>5, NextEffect

(* What a run learns is its session, or the one it made.                   *)
LEMMA TakenId ==
  ASSUME IInv, NEW p \in Prompts, TakeResult(p)
  PROVE  /\ \A q \in Prompts : q # p => result'[q] = result[q]
         /\ \/ result'[p] = NoResult
            \/ /\ result'[p].ok
               /\ result'[p].id \in {NoSession, SessionOf(Current(p))}
<1> USE DEF IInv, WInv
<1>1. \A q \in Prompts : q # p => result'[q] = result[q]
  BY DEF TakeResult, TypeOK
<1>2. result'[p] = IF task[Current(p)] = "ok"
                     THEN [ok |-> TRUE, id |-> ThreadId(Current(p))] ELSE NoResult
  BY DEF TakeResult, TypeOK
<1> QED BY <1>1, <1>2 DEF ThreadId

LEMMA FreshStep ==
  ASSUME IInv, Next
  PROVE  Fresh'
<1> USE DEF IInv, WInv
<1>1. ASSUME NEW r \in Runs, TaskEffect(r) \/ ProcessEffect(r) PROVE Fresh'
  <2>1. UNCHANGED <<stored, session, result>>
    BY <1>1 DEF TaskEffect, ProcessEffect, gatewayVars, taskVars
  <2> QED BY <2>1 DEF Fresh, Known
<1>2. ASSUME NEW p \in Prompts, GatewaySteps(p) PROVE Fresh'
  <2> SUFFICES ASSUME NEW q \in Prompts, NEW k \in {1, 2}, Known(<<q, k>>)'
               PROVE  result'[q].ok
    BY DEF Fresh
  <2>1. CASE Admit(p)
    <3>1. stored' = stored /\ result' = result /\ session' = [session EXCEPT ![<<p, 1>>] = stored]
      BY <2>1 DEF Admit
    <3>2. Known(<<q, k>>)
      BY <3>1, RunsOf DEF Known, TypeOK
    <3> QED BY <3>1, <3>2 DEF Fresh
  <2>2. CASE StartFresh(p)
    <3>1. stored' = stored /\ result' = result
          /\ session' = [session EXCEPT ![<<p, 2>>] = NoSession]
      BY <2>2 DEF StartFresh, StartRun
    <3>2. NoSession # <<q, k>>
      BY ExecTurnAssumption
    <3>3. Known(<<q, k>>)
      BY <3>1, <3>2, RunsOf DEF Known, TypeOK
    <3> QED BY <3>1, <3>3 DEF Fresh
  <2>3. CASE Save(p)
    <3>1. stored' = result[p].id /\ result' = result /\ session' = session
      BY <2>3 DEF Save, taskVars
    <3>2. Known(<<q, k>>)
      BY <3>1 DEF Known
    <3> QED BY <3>1, <3>2 DEF Fresh
  <2>4. CASE TakeResult(p)
    <3>1. stored' = stored /\ session' = session /\ result[p] = NoResult
      BY <2>4 DEF TakeResult, RunOver, Receiving, Unresolved
    <3>2. NoSession # <<q, k>>
      BY ExecTurnAssumption
    <3>3. CASE Known(<<q, k>>)
      <4>1. result[q].ok
        BY <3>3 DEF Fresh
      <4>2. q # p
        BY <3>1, <4>1 DEF NoResult
      <4> QED BY <2>4, <4>1, <4>2, TakenId
    <3>4. CASE ~Known(<<q, k>>)
      <4>1. result'[p].id = <<q, k>>
        BY <2>4, <3>1, <3>4, TakenId DEF Known
      <4>2. result'[p].ok /\ SessionOf(Current(p)) = <<q, k>>
        BY <2>4, <3>2, <4>1, TakenId DEF NoResult
      <4>3. Current(p) = <<q, k>>
        BY <3>4, <4>2, RunsOf DEF SessionOf, Known
      <4> QED BY <4>2, <4>3 DEF Current
    <3> QED BY <3>3, <3>4
  <2>5. CASE \/ Announce(p) \/ AnnounceFails(p) \/ Forward(p) \/ ForwardFails(p)
             \/ NoticeFails(p) \/ MarkInactive(p)
    <3>0. Announce(p) => session' = session
      BY DEF Announce, StartRun, TypeOK
    <3>1. UNCHANGED <<stored, session, result>>
      BY <2>5, <3>0 DEF Announce, AnnounceFails, Forward, ForwardFails, NoticeFails, MarkInactive,
         gatewayVars, taskVars
    <3>2. Known(<<q, k>>)
      BY <3>1 DEF Known
    <3> QED BY <3>1, <3>2 DEF Fresh
  <2> QED BY <1>2, <2>1, <2>2, <2>3, <2>4, <2>5 DEF GatewaySteps
<1>3. CASE Interrupt \/ Exit \/ Ending
  <2>1. UNCHANGED <<stored, session, result>>
    BY <1>3 DEF Interrupt, Exit, Ending
  <2> QED BY <2>1 DEF Fresh, Known
<1> QED BY <1>1, <1>2, <1>3, NextEffect

LEMMA IInvStep ==
  ASSUME IInv, [Next]_vars
  PROVE  IInv'
<1>1. WInv'
  BY WInvStep DEF IInv
<1>2. CASE UNCHANGED vars
  BY <1>1, <1>2 DEF vars, gatewayVars, taskVars, pipeVars, IInv, Counted, Messages, Unresolved,
     Fresh, Known
<1>3. CASE Next
  BY <1>1, <1>3, CountedStep, UnresolvedStep, FreshStep DEF IInv
<1> QED BY <1>2, <1>3

-----------------------------------------------------------------------------
(* The refinement: every step is one of AgentTurn, or changes nothing      *)
(* there.                                                                  *)

(* A prompt looks the same to the contract.                                *)
Same(p) ==
  /\ Phase(p)' = Phase(p) /\ Given(p)' = Given(p) /\ Said(p)' = Said(p)
  /\ Shown(p)' = Shown(p) /\ result'[p].id = result[p].id

LEMMA AllSame ==
  ASSUME \A p \in Prompts : Same(p)
  PROVE  UNCHANGED Turn!vars
<1>1. [p \in Prompts |-> Phase(p)]' = [p \in Prompts |-> Phase(p)]
  BY Zenon DEF Same
<1>2. [p \in Prompts |-> Given(p)]' = [p \in Prompts |-> Given(p)]
  BY Zenon DEF Same
<1>3. [p \in Prompts |-> Said(p)]' = [p \in Prompts |-> Said(p)]
  BY Zenon DEF Same
<1>4. [p \in Prompts |-> Shown(p)]' = [p \in Prompts |-> Shown(p)]
  BY Zenon DEF Same
<1>5. [p \in Prompts |-> result[p].id]' = [p \in Prompts |-> result[p].id]
  BY Zenon DEF Same
<1> QED BY <1>1, <1>2, <1>3, <1>4, <1>5 DEF Turn!vars

(* A task of some run reads; the contract does not care.                   *)
LEMMA TaskRefines ==
  ASSUME IInv, NEW r \in Runs, TaskEffect(r)
  PROVE  UNCHANGED Turn!vars
<1> USE DEF IInv, WInv
<1>1. UNCHANGED <<pc, result, session, open>>
  BY DEF TaskEffect, gatewayVars
<1>2. \A p \in Prompts : /\ Current(p)' = Current(p) /\ Receiving(p)' = Receiving(p)
                         /\ task'[<<p, 1>>] = "none" <=> task[<<p, 1>>] = "none"
  BY EffectsKeep, RunsOf
<1>3. PICK w \in 0..MaxLines, d \in 0..MaxLines, h \in 0..MaxLines : Counts(r, w, d, h)
  BY DEF TaskEffect
<1>4. /\ wrote' = [wrote EXCEPT ![r] = w] /\ shown' = [shown EXCEPT ![r] = h]
      /\ open[r] => w = wrote[r] /\ h = shown[r]
  BY <1>3 DEF Counts
<1> SUFFICES ASSUME NEW p \in Prompts PROVE Same(p)
  BY AllSame
<1>5. Phase(p)' = Phase(p) /\ Given(p)' = Given(p) /\ result'[p].id = result[p].id
  BY <1>1, <1>2 DEF Phase, Given
<1>6. CASE ~Receiving(p)
  BY <1>2, <1>5, <1>6 DEF Same, Said, Shown
<1>7. CASE Receiving(p)
  <2>1. open[Current(p)]
    BY <1>7 DEF Receivers, Current
  <2>2. wrote'[Current(p)] = wrote[Current(p)] /\ shown'[Current(p)] = shown[Current(p)]
    BY <1>4, <2>1, RunsOf DEF TypeOK
  <2> QED BY <1>2, <1>5, <1>7, <2>2 DEF Same, Said, Shown, Messages
<1> QED BY <1>6, <1>7

(* A process that writes says something, if its prompt still receives.     *)
LEMMA ProcessRefines ==
  ASSUME IInv, NEW r \in Runs, ProcessEffect(r)
  PROVE  Turn!Next \/ UNCHANGED Turn!vars
<1> USE DEF IInv, WInv
<1>1. UNCHANGED <<pc, result, session, open, read, shown>>
  BY DEF ProcessEffect, gatewayVars, taskVars
<1>2. \A p \in Prompts : /\ Current(p)' = Current(p) /\ Receiving(p)' = Receiving(p)
                         /\ task'[<<p, 1>>] = "none" <=> task[<<p, 1>>] = "none"
  BY EffectsKeep, RunsOf
<1>3. PICK w \in 0..MaxLines : wrote' = [wrote EXCEPT ![r] = w] /\ w \in {wrote[r], wrote[r] + 1}
  BY DEF ProcessEffect
<1>4. \A p \in Prompts : /\ Phase(p)' = Phase(p) /\ Given(p)' = Given(p)
                        /\ result'[p].id = result[p].id /\ Shown(p)' = Shown(p)
  BY <1>1, <1>2 DEF Phase, Given, Shown
<1>5. \A p \in Prompts : ~(Receiving(p) /\ Current(p) = r) => Said(p)' = Said(p)
  BY <1>2, <1>3, RunsOf DEF Said, TypeOK, Messages
<1>6. CASE \E p \in Prompts : Receiving(p) /\ Current(p) = r /\ Messages(w) # Messages(wrote[r])
  <2>1. PICK p \in Prompts : Receiving(p) /\ Current(p) = r /\ Messages(w) # Messages(wrote[r])
    BY <1>6
  <2>2. Messages(w) = Messages(wrote[r]) + 1
    <3>1. wrote[r] \in 0..MaxLines /\ MaxLines \in Nat
      BY ExecTurnAssumption DEF TypeOK
    <3> QED BY <1>3, <2>1, <3>1 DEF Messages
  <2>3. Said(p)' = Said(p) + 1
    BY <1>2, <1>3, <2>1, <2>2 DEF Said, TypeOK, Messages
  <2>4. \A q \in Prompts : q # p => Said(q)' = Said(q)
    <3>1. \A q \in Prompts : q # p => Current(q) # r
      BY <2>1 DEF Current
    <3> QED BY <1>5, <3>1
  <2>5. [q \in Prompts |-> Said(q)]' = [[q \in Prompts |-> Said(q)] EXCEPT ![p] = @ + 1]
    BY <2>3, <2>4
  <2>6. /\ [q \in Prompts |-> Phase(q)]' = [q \in Prompts |-> Phase(q)]
        /\ [q \in Prompts |-> Given(q)]' = [q \in Prompts |-> Given(q)]
        /\ [q \in Prompts |-> Shown(q)]' = [q \in Prompts |-> Shown(q)]
        /\ [q \in Prompts |-> result[q].id]' = [q \in Prompts |-> result[q].id]
    BY <1>4, Zenon
  <2>7. Phase(p) \in {"first", "second"}
    BY <2>1 DEF Receiving, Phase, Started
  <2>8. Turn!Say(p)
    BY <2>5, <2>6, <2>7 DEF Turn!Say, Turn!Running
  <2> QED BY <2>8 DEF Turn!Next
<1>7. CASE ~\E p \in Prompts : Receiving(p) /\ Current(p) = r /\ Messages(w) # Messages(wrote[r])
  <2>1. \A p \in Prompts : Said(p)' = Said(p)
    BY <1>2, <1>3, <1>5, <1>7 DEF Said, TypeOK, Messages
  <2> QED BY <1>4, <2>1, AllSame DEF Same
<1> QED BY <1>6, <1>7

(* A step of the gateway task of p leaves the other prompts alone.         *)
LEMMA OthersSame ==
  ASSUME IInv, NEW p \in Prompts, GatewaySteps(p), NEW q \in Prompts, q # p
  PROVE  Same(q)
<1> USE RunsOf DEF IInv, WInv
<1>1. Current(q)' = Current(q)
  BY CurrentGateway
<1>2. pc'[q] = pc[q] /\ result'[q] = result[q]
  BY DEF GatewaySteps, Admit, Announce, AnnounceFails, Forward, ForwardFails, TakeResult, StartFresh, NoticeFails,
         MarkInactive, Save, gatewayVars, TypeOK
<1>2a. task'[<<q, 1>>] = "none" <=> task[<<q, 1>>] = "none"
  BY FirstRuns
<1>3. /\ session'[Current(q)] = session[Current(q)]
      /\ wrote'[Current(q)] = wrote[Current(q)] /\ shown'[Current(q)] = shown[Current(q)]
  <2>1. Current(q) # <<p, 1>> /\ Current(q) # <<p, 2>> /\ Current(q) # Current(p)
    BY DEF Current
  <2> QED BY <2>1 DEF GatewaySteps, Admit, Announce, AnnounceFails, Forward, ForwardFails, TakeResult, StartFresh,
               StartRun, NoticeFails, MarkInactive, Save, Emptied, taskVars, pipeVars, TypeOK
<1> QED BY <1>1, <1>2, <1>2a, <1>3 DEF Same, Phase, Given, Said, Shown, Receiving, Messages

(* The contract's variables when one prompt changes.                       *)
Changes(p) ==
  /\ [q \in Prompts |-> Phase(q)]' = [[q \in Prompts |-> Phase(q)] EXCEPT ![p] = Phase(p)']
  /\ [q \in Prompts |-> Given(q)]'
       = [[q \in Prompts |-> Given(q)] EXCEPT ![p] = Given(p)']
  /\ [q \in Prompts |-> Said(q)]' = [[q \in Prompts |-> Said(q)] EXCEPT ![p] = Said(p)']
  /\ [q \in Prompts |-> Shown(q)]' = [[q \in Prompts |-> Shown(q)] EXCEPT ![p] = Shown(p)']
  /\ [q \in Prompts |-> result[q].id]'
       = [[q \in Prompts |-> result[q].id] EXCEPT ![p] = result'[p].id]

LEMMA OneChanges ==
  ASSUME NEW p \in Prompts, \A q \in Prompts : q # p => Same(q)
  PROVE  Changes(p)
<1>1. [q \in Prompts |-> Phase(q)]' = [[q \in Prompts |-> Phase(q)] EXCEPT ![p] = Phase(p)']
  BY DEF Same
<1>2. [q \in Prompts |-> Given(q)]'
        = [[q \in Prompts |-> Given(q)] EXCEPT ![p] = Given(p)']
  BY DEF Same
<1>3. [q \in Prompts |-> Said(q)]' = [[q \in Prompts |-> Said(q)] EXCEPT ![p] = Said(p)']
  BY DEF Same
<1>4. [q \in Prompts |-> Shown(q)]' = [[q \in Prompts |-> Shown(q)] EXCEPT ![p] = Shown(p)']
  BY DEF Same
<1>5. [q \in Prompts |-> result[q].id]'
        = [[q \in Prompts |-> result[q].id] EXCEPT ![p] = result'[p].id]
  BY DEF Same
<1> QED BY <1>1, <1>2, <1>3, <1>4, <1>5 DEF Changes

(* A run that has not begun has no lines.                                  *)
LEMMA IdleRun ==
  ASSUME TypeOK, Counted, NEW r \in Runs, task[r] = "none"
  PROVE  wrote[r] = 0 /\ read[r] = 0 /\ shown[r] = 0
<1>1. wrote[r] = 0 /\ read[r] <= wrote[r] /\ shown[r] <= Messages(read[r])
  BY DEF Counted
<1>2. read[r] \in Nat /\ shown[r] \in Nat
  BY ExecTurnAssumption DEF TypeOK
<1>3. read[r] = 0
  BY <1>1, <1>2
<1> QED BY <1>1, <1>2, <1>3 DEF Messages

(* A prompt that is not announced, or never is, has not begun its turn.    *)
LEMMA UnannouncedRefines ==
  ASSUME IInv, NEW p \in Prompts, Admit(p) \/ AnnounceFails(p)
  PROVE  UNCHANGED Turn!vars
<1> USE DEF IInv, WInv
<1>1. /\ pc[p] \in {"new", "announcing"} /\ pc'[p] \in {"announcing", "done"}
      /\ UNCHANGED <<result, task>> /\ task[<<p, 1>>] = "none"
  BY DEF Admit, AnnounceFails, taskVars, TypeOK, Started
<1>2. Same(p)
  BY <1>1 DEF Same, Phase, Given, Said, Shown, Receiving
<1>3. GatewaySteps(p)
  BY DEF GatewaySteps
<1>4. \A q \in Prompts : Same(q)
  BY <1>2, <1>3, OthersSame
<1> QED BY <1>4, AllSame

LEMMA AnnounceRefines ==
  ASSUME IInv, NEW p \in Prompts, Announce(p)
  PROVE  Turn!Begin(p)
<1> DEFINE s == session[<<p, 1>>]
<1> USE DEF IInv, WInv
<1>1. /\ pc[p] = "announcing" /\ pc'[p] = "first" /\ result' = result
      /\ s \in Sessions \cup {NoSession}
      /\ task[<<p, 1>>] = "none" /\ task'[<<p, 1>>] = "spawning" /\ Current(p) = <<p, 1>>
  BY RunsOf DEF Announce, StartRun, TypeOK, Started, Current
<1>2. GatewaySteps(p) /\ ~StartFresh(p)
  BY <1>1 DEF GatewaySteps, StartFresh
<1>3. Current(p)' = <<p, 1>>
  BY <1>1, <1>2, CurrentGateway
<1>4. Given(p)' = s
  BY <1>1, <1>3, RunsOf DEF Given, Announce, StartRun, TypeOK
<1>5. wrote'[<<p, 1>>] = 0 /\ shown'[<<p, 1>>] = 0
  <2>1. wrote[<<p, 1>>] = 0 /\ read[<<p, 1>>] = 0 /\ shown[<<p, 1>>] = 0
    BY <1>1, RunsOf, IdleRun
  <2> QED BY <2>1 DEF Announce, pipeVars
<1>6. Said(p)' = 0 /\ Shown(p)' = 0 /\ Said(p) = 0 /\ Shown(p) = 0
  BY <1>1, <1>3, <1>5 DEF Said, Shown, Messages, Receiving
<1>7. Phase(p) = "idle" /\ Phase(p)' = "first"
  BY <1>1 DEF Phase
<1>8. \A q \in Prompts : q # p => Same(q)
  BY <1>2, OthersSame
<1>8a. Changes(p)
  BY <1>8, OneChanges
<1> HIDE DEF IInv, WInv
<1>9. [q \in Prompts |-> Phase(q)]' = [[q \in Prompts |-> Phase(q)] EXCEPT ![p] = "first"]
  BY <1>7, <1>8a DEF Changes
<1>10. [q \in Prompts |-> Given(q)]' = [[q \in Prompts |-> Given(q)] EXCEPT ![p] = s]
  BY <1>4, <1>8a DEF Changes
<1>11. [q \in Prompts |-> Said(q)]' = [q \in Prompts |-> Said(q)]
  BY <1>6, <1>8a DEF Changes
<1>12. [q \in Prompts |-> Shown(q)]' = [q \in Prompts |-> Shown(q)]
  BY <1>6, <1>8a DEF Changes
<1>13. [q \in Prompts |-> result[q].id]' = [q \in Prompts |-> result[q].id]
  BY <1>1, <1>8a DEF Changes
<1> QED BY <1>1, <1>7, <1>9, <1>10, <1>11, <1>12, <1>13 DEF Turn!Begin

LEMMA ForwardRefines ==
  ASSUME IInv, NEW p \in Prompts, Forward(p)
  PROVE  Turn!Show(p)
<1> USE DEF IInv, WInv
<1>1. GatewaySteps(p) /\ ~StartFresh(p) /\ Receiving(p) /\ Receiving(p)'
  BY DEF GatewaySteps, Forward, StartFresh, Receiving, gatewayVars
<1>2. Current(p)' = Current(p)
  BY <1>1, CurrentGateway
<1>3. /\ UNCHANGED <<pc, result, session, wrote>>
      /\ shown' = [shown EXCEPT ![Current(p)] = shown[Current(p)] + 1]
      /\ shown[Current(p)] < Messages(read[Current(p)])
  BY DEF Forward, gatewayVars, taskVars, pipeVars
<1>4. Shown(p)' = Shown(p) + 1
  BY <1>1, <1>2, <1>3, RunsOf DEF Shown, TypeOK
<1>5. Shown(p) < Said(p)
  <2>1. /\ shown[Current(p)] \in 0..MaxLines /\ read[Current(p)] \in 0..MaxLines
        /\ wrote[Current(p)] \in 0..MaxLines /\ read[Current(p)] <= wrote[Current(p)]
    BY RunsOf DEF TypeOK, Counted
  <2>2. MaxLines \in Nat
    BY ExecTurnAssumption
  <2> QED BY <1>1, <1>3, <2>1, <2>2 DEF Shown, Said, Messages
<1>6. /\ Phase(p)' = Phase(p) /\ Given(p)' = Given(p) /\ Said(p)' = Said(p)
      /\ result'[p].id = result[p].id
  <2>1. task' = task
    BY DEF Forward, taskVars
  <2> QED BY <1>1, <1>2, <1>3, <2>1 DEF Phase, Given, Said, Messages
<1>7. Phase(p) \in {"first", "second"}
  BY <1>1 DEF Phase, Receiving, Started
<1>8. \A q \in Prompts : q # p => Same(q)
  BY <1>1, OthersSame
<1>9. /\ [q \in Prompts |-> Phase(q)]' = [q \in Prompts |-> Phase(q)]
      /\ [q \in Prompts |-> Given(q)]' = [q \in Prompts |-> Given(q)]
      /\ [q \in Prompts |-> Said(q)]' = [q \in Prompts |-> Said(q)]
      /\ [q \in Prompts |-> Shown(q)]' = [[q \in Prompts |-> Shown(q)] EXCEPT ![p] = Shown(p) + 1]
      /\ [q \in Prompts |-> result[q].id]' = [q \in Prompts |-> result[q].id]
  BY <1>4, <1>6, <1>8, OneChanges DEF Changes
<1>10. [q \in Prompts |-> Shown(q)]' = [[q \in Prompts |-> Shown(q)] EXCEPT ![p] = @ + 1]
  BY <1>9
<1> QED BY <1>5, <1>7, <1>9, <1>10 DEF Turn!Show, Turn!Running

(* What all that end a run without a result have in common.                *)
LEMMA FailRefines ==
  ASSUME NEW Q \in SUBSET Prompts,
         \A p \in Q : /\ Phase(p) \in {"first", "second", "stalled"} /\ Phase(p)' = "failed"
                     /\ Given(p)' = Given(p) /\ result'[p].id = result[p].id
                     /\ Said(p)' = 0 /\ Shown(p)' = 0,
         \A p \in Prompts \ Q : Same(p)
  PROVE  Turn!Fail(Q)
<1>1. [p \in Prompts |-> Phase(p)]'
        = [p \in Prompts |-> IF p \in Q THEN "failed" ELSE [q \in Prompts |-> Phase(q)][p]]
  BY DEF Same
<1>2. [p \in Prompts |-> Said(p)]'
        = [p \in Prompts |-> IF p \in Q THEN 0 ELSE [q \in Prompts |-> Said(q)][p]]
  BY DEF Same
<1>3. [p \in Prompts |-> Shown(p)]'
        = [p \in Prompts |-> IF p \in Q THEN 0 ELSE [q \in Prompts |-> Shown(q)][p]]
  BY DEF Same
<1>4. [p \in Prompts |-> Given(p)]' = [p \in Prompts |-> Given(p)]
  BY DEF Same
<1>5. [p \in Prompts |-> result[p].id]' = [p \in Prompts |-> result[p].id]
  BY DEF Same
<1>6. \A p \in Q : \/ [q \in Prompts |-> Phase(q)][p] \in {"first", "second"}
                   \/ [q \in Prompts |-> Phase(q)][p] = "stalled"
  OBVIOUS
<1> QED BY <1>1, <1>2, <1>3, <1>4, <1>5, <1>6 DEF Turn!Fail, Turn!Running

(* One run fails.                                                          *)
LEMMA OneFails ==
  ASSUME IInv, NEW p \in Prompts, GatewaySteps(p), ~StartFresh(p),
         pc[p] \in {"first", "second", "notice"}, pc'[p] = "ending", result'[p] = NoResult
  PROVE  Turn!Next
<1> USE DEF IInv, WInv
<1>1. result[p] = NoResult
  BY DEF Unresolved
<1>1a. task[<<p, 1>>] # "none" /\ task'[<<p, 1>>] # "none"
  <2>1. ~Announce(p)
    BY DEF Announce
  <2> QED BY <2>1, FirstRuns DEF Started
<1>2. Phase(p) \in {"first", "second", "stalled"} /\ Phase(p)' = "failed"
  BY <1>1a DEF Phase, NoResult
<1>3. Said(p)' = 0 /\ Shown(p)' = 0
  BY DEF Said, Shown, Receiving
<1>4. session' = session /\ Current(p)' = Current(p)
  <2>1. ~Admit(p) /\ ~Announce(p)
    BY DEF Admit, Announce
  <2> QED BY <2>1, CurrentGateway DEF GatewaySteps, AnnounceFails, Forward, ForwardFails, TakeResult,
             NoticeFails, MarkInactive, Save, taskVars
<1>5. Given(p)' = Given(p)
  BY <1>1a, <1>4 DEF Given
<1>6. \A q \in Prompts \ {p} : Same(q)
  BY OthersSame
<1>7. Turn!Fail({p})
  BY <1>1, <1>2, <1>3, <1>5, <1>6, FailRefines
<1>8. {p} \in SUBSET Prompts
  OBVIOUS
<1> QED BY <1>7, <1>8 DEF Turn!Next

LEMMA TakeResultRefines ==
  ASSUME IInv, NEW p \in Prompts, TakeResult(p)
  PROVE  Turn!Next
<1> USE RunsOf DEF IInv, WInv
<1> DEFINE r == Current(p)
<1>1. /\ GatewaySteps(p) /\ Receiving(p) /\ ~StartFresh(p) /\ result[p] = NoResult
      /\ task[r] \in Results /\ shown[r] = Messages(read[r]) /\ session' = session
  BY DEF GatewaySteps, TakeResult, RunOver, Receiving, StartFresh, Unresolved
<1>1a. task[<<p, 1>>] # "none" /\ task'[<<p, 1>>] # "none"
  <2>1. ~Announce(p)
    BY <1>1 DEF Announce, Receiving
  <2> QED BY <1>1, <2>1, FirstRuns DEF Started, Receiving
<1>2. Current(p)' = Current(p) /\ Given(p)' = Given(p) /\ Given(p) = session[r]
  BY <1>1, <1>1a, CurrentGateway DEF Given
<1>3. /\ pc'[p] = IF Retries(p) THEN "notice" ELSE "ending"
      /\ result'[p] = IF task[r] = "ok" THEN [ok |-> TRUE, id |-> ThreadId(r)] ELSE NoResult
  BY DEF TakeResult, TypeOK
<1>4. Said(p)' = 0 /\ Shown(p)' = 0
  BY <1>3 DEF Said, Shown, Receiving
<1>5. \A q \in Prompts : q # p => Same(q)
  BY <1>1, OthersSame
<1>5a. Changes(p)
  BY <1>5, OneChanges
<1>6. CASE Retries(p)
  <2>1. /\ session[r] # NoSession /\ result'[p] = NoResult
    BY <1>3, <1>6 DEF Retries
  <2>2. pc[p] = "first"
    BY <1>1, <2>1 DEF Receiving, Started, Current
  <2>3. Phase(p) = "first" /\ Phase(p)' = "stalled" /\ Given(p) # NoSession
    BY <1>1a, <1>2, <1>3, <1>6, <2>1, <2>2 DEF Phase
  <2>4. result'[p].id = result[p].id
    BY <1>1, <2>1
  <2>5. Turn!Stall(p)
    <3> HIDE DEF IInv, WInv
    <3>1. [q \in Prompts |-> Phase(q)]' = [[q \in Prompts |-> Phase(q)] EXCEPT ![p] = "stalled"]
      BY <1>5a, <2>3 DEF Changes
    <3>2. [q \in Prompts |-> Given(q)]' = [q \in Prompts |-> Given(q)]
      BY <1>2, <1>5a DEF Changes
    <3>3. [q \in Prompts |-> result[q].id]' = [q \in Prompts |-> result[q].id]
      BY <1>5a, <2>4 DEF Changes
    <3> QED BY <1>4, <1>5a, <2>3, <3>1, <3>2, <3>3 DEF Changes, Turn!Stall
  <2> QED BY <2>5 DEF Turn!Next
<1>7. CASE ~Retries(p) /\ task[r] # "ok"
  <2>1. pc[p] \in {"first", "second", "notice"} /\ pc'[p] = "ending" /\ result'[p] = NoResult
    BY <1>1, <1>3, <1>7 DEF Receiving
  <2> QED BY <1>1, <2>1, OneFails
<1>8. CASE task[r] = "ok"
  <2>1. ~Retries(p)
    BY <1>8 DEF Retries
  <2>2. result'[p] = [ok |-> TRUE, id |-> ThreadId(r)] /\ pc'[p] = "ending"
    BY <1>3, <1>8, <2>1
  <2>3. Phase(p) \in {"first", "second"} /\ Phase(p)' = "ok"
    BY <1>1, <1>1a, <2>2 DEF Phase, Receiving
  <2>4. Shown(p) = Said(p)
    BY <1>1, <1>8 DEF Shown, Said, Counted
  <2>5. ThreadId(r) \in {NoSession, SessionOf(r)}
    BY DEF ThreadId
  <2>6. ThreadId(r) \in Turn!Reported(p)
    <3>1. CASE session[r] # NoSession
      BY <1>2, <2>5, <3>1 DEF Turn!Reported, SessionOf
    <3>2. CASE session[r] = NoSession
      <4>1. ~Known(r)
        <5>1. PICK k \in {1, 2} : r = <<p, k>>
          BY DEF Current
        <5>2. ~result[p].ok
          BY <1>1 DEF NoResult
        <5>3. ~Known(<<p, k>>)
          BY <5>2, Zenon DEF Fresh
        <5> QED BY <5>1, <5>3
      <4>2. r \in Sessions /\ SessionOf(r) = r
        BY <3>2 DEF Sessions, SessionOf
      <4>3. r \notin {Given(q) : q \in Prompts} \cup {result[q].id : q \in Prompts}
        <5>1. r # NoSession
          BY ExecTurnAssumption DEF Runs
        <5> QED BY <4>1, <5>1 DEF Known, Given
      <4> QED BY <1>2, <2>5, <3>2, <4>2, <4>3 DEF Turn!Reported
    <3> QED BY <3>1, <3>2
  <2>7. Turn!Succeed(p)
    <3> HIDE DEF IInv, WInv
    <3>1. [q \in Prompts |-> Phase(q)]' = [[q \in Prompts |-> Phase(q)] EXCEPT ![p] = "ok"]
      BY <1>5a, <2>3 DEF Changes
    <3>2. [q \in Prompts |-> Given(q)]' = [q \in Prompts |-> Given(q)]
      BY <1>2, <1>5a DEF Changes
    <3>3. [q \in Prompts |-> result[q].id]'
            = [[q \in Prompts |-> result[q].id] EXCEPT ![p] = ThreadId(r)]
      BY <1>5a, <2>2 DEF Changes
    <3> QED BY <1>4, <1>5a, <2>3, <2>4, <2>6, <3>1, <3>2, <3>3
            DEF Changes, Turn!Succeed, Turn!Running
  <2> QED BY <2>7 DEF Turn!Next
<1> QED BY <1>6, <1>7, <1>8

LEMMA StartFreshRefines ==
  ASSUME IInv, NEW p \in Prompts, StartFresh(p)
  PROVE  Turn!Retry(p)
<1> USE DEF IInv, WInv
<1>1. /\ pc[p] = "notice" /\ pc'[p] = "second" /\ task[<<p, 2>>] = "none" /\ result' = result
      /\ session' = [session EXCEPT ![<<p, 2>>] = NoSession]
      /\ UNCHANGED <<wrote, shown>>
  BY DEF StartFresh, StartRun, Started, TypeOK, pipeVars
<1>2. GatewaySteps(p)
  BY DEF GatewaySteps
<1>3. Current(p)' = <<p, 2>>
  BY <1>2, CurrentGateway
<1>3a. task[<<p, 1>>] # "none" /\ task'[<<p, 1>>] # "none"
  <2>1. ~Announce(p)
    BY <1>1 DEF Announce
  <2> QED BY <1>1, <1>2, <2>1, FirstRuns DEF Started
<1>4. Given(p)' = NoSession
  BY <1>1, <1>3, <1>3a, RunsOf DEF Given, TypeOK
<1>5. Said(p)' = 0 /\ Shown(p)' = 0 /\ Said(p) = 0 /\ Shown(p) = 0
  <2>1. wrote[<<p, 2>>] = 0 /\ shown[<<p, 2>>] = 0
    BY <1>1, RunsOf, IdleRun
  <2> QED BY <1>1, <1>3, <2>1 DEF Said, Shown, Messages, Receiving
<1>6. Phase(p) = "stalled" /\ Phase(p)' = "second" /\ result'[p].id = result[p].id
  BY <1>1, <1>3a DEF Phase
<1>7. Changes(p)
  BY <1>2, OthersSame, OneChanges
<1> HIDE DEF IInv, WInv
<1>8. [q \in Prompts |-> Phase(q)]' = [[q \in Prompts |-> Phase(q)] EXCEPT ![p] = "second"]
  BY <1>6, <1>7 DEF Changes
<1>9. [q \in Prompts |-> Given(q)]'
        = [[q \in Prompts |-> Given(q)] EXCEPT ![p] = NoSession]
  BY <1>4, <1>7 DEF Changes
<1>10. [q \in Prompts |-> Said(q)]' = [q \in Prompts |-> Said(q)]
  BY <1>5, <1>7 DEF Changes
<1>11. [q \in Prompts |-> Shown(q)]' = [q \in Prompts |-> Shown(q)]
  BY <1>5, <1>7 DEF Changes
<1>12. [q \in Prompts |-> result[q].id]' = [q \in Prompts |-> result[q].id]
  BY <1>6, <1>7 DEF Changes
<1> QED BY <1>6, <1>8, <1>9, <1>10, <1>11, <1>12 DEF Turn!Retry

LEMMA EndingRefines ==
  ASSUME IInv, NEW p \in Prompts, MarkInactive(p) \/ Save(p)
  PROVE  UNCHANGED Turn!vars
<1> USE DEF IInv, WInv
<1>1. /\ pc[p] \in {"ending", "saving"} /\ pc'[p] \in {"saving", "done"}
      /\ UNCHANGED <<result, task, session>>
  BY DEF MarkInactive, Save, taskVars, TypeOK
<1>2. Same(p)
  BY <1>1 DEF Same, Phase, Given, Said, Shown, Receiving, Current
<1>3. GatewaySteps(p)
  BY DEF GatewaySteps
<1>4. \A q \in Prompts : Same(q)
  BY <1>2, <1>3, OthersSame
<1> QED BY <1>4, AllSame

LEMMA InterruptRefines ==
  ASSUME IInv, Interrupt
  PROVE  Turn!Next
<1> DEFINE Q == {p \in Prompts : pc[p] \in {"first", "second", "notice"}}
<1> USE DEF IInv, WInv
<1>1. /\ \A p \in Prompts : pc'[p] = IF pc[p] \in {"new", "done"} THEN pc[p] ELSE "aborted"
      /\ UNCHANGED <<result, task, session, wrote, shown>>
  BY DEF Interrupt, pipeVars
<1>2. \A p \in Prompts : Current(p)' = Current(p) /\ Given(p)' = Given(p)
  BY <1>1 DEF Current, Given
<1>3. \A p \in Q : /\ Phase(p) \in {"first", "second", "stalled"} /\ Phase(p)' = "failed"
                  /\ Given(p)' = Given(p) /\ result'[p].id = result[p].id
                  /\ Said(p)' = 0 /\ Shown(p)' = 0
  <2> SUFFICES ASSUME NEW p \in Q
               PROVE  /\ Phase(p) \in {"first", "second", "stalled"} /\ Phase(p)' = "failed"
                      /\ Said(p)' = 0 /\ Shown(p)' = 0
    BY <1>1, <1>2
  <2>1. /\ pc'[p] = "aborted" /\ result'[p] = NoResult
        /\ task[<<p, 1>>] # "none" /\ task'[<<p, 1>>] # "none"
    BY <1>1 DEF Started, Unresolved
  <2>2. Phase(p) \in {"first", "second", "stalled"} /\ Phase(p)' = "failed"
    BY <2>1 DEF Phase, NoResult
  <2> QED BY <2>1, <2>2 DEF Said, Shown, Receiving
<1>4. \A p \in Prompts \ Q : Same(p)
  <2> SUFFICES ASSUME NEW p \in Prompts, p \notin Q PROVE Same(p)
    OBVIOUS
  <2>1. pc[p] \in {"new", "announcing", "ending", "saving", "done", "aborted"}
    BY DEF TypeOK
  <2>2. Phase(p)' = Phase(p)
    BY <1>1, <2>1 DEF Phase, Started
  <2>3. Said(p)' = 0 /\ Shown(p)' = 0 /\ Said(p) = 0 /\ Shown(p) = 0
    BY <1>1, <2>1 DEF Said, Shown, Receiving
  <2> QED BY <1>1, <1>2, <2>2, <2>3 DEF Same
<1>5. Q \in SUBSET Prompts
  OBVIOUS
<1> HIDE DEF IInv, WInv, Q
<1>6. Turn!Fail(Q)
  BY <1>3, <1>4, <1>5, FailRefines, Zenon
<1> QED BY <1>5, <1>6 DEF Turn!Next

LEMMA ExitRefines ==
  ASSUME IInv, Exit
  PROVE  UNCHANGED Turn!vars
<1>1. \A p \in Prompts : /\ Current(p)' = Current(p) /\ Receiving(p)' = Receiving(p)
                         /\ task'[<<p, 1>>] = "none" <=> task[<<p, 1>>] = "none"
  BY WInvExit, RunsOf DEF IInv
<1>2. \A p \in Prompts : Same(p)
  BY <1>1 DEF Same, Exit, Phase, Given, Said, Shown, Messages
<1> QED BY <1>2, AllSame

LEMMA StepRefines ==
  ASSUME IInv, [Next]_vars
  PROVE  [Turn!Next]_Turn!vars
<1>1. CASE UNCHANGED vars
  <2>1. \A p \in Prompts : Same(p)
    BY <1>1 DEF vars, gatewayVars, taskVars, pipeVars, Same, Phase, Given, Said, Shown, Receiving,
       Current, Messages
  <2> QED BY <2>1, AllSame
<1>2. CASE \E r \in Runs : TaskEffect(r) \/ ProcessEffect(r)
  BY <1>2, TaskRefines, ProcessRefines
<1>3. CASE Interrupt \/ Exit
  BY <1>3, InterruptRefines, ExitRefines
<1>4. CASE \E p \in Prompts : GatewaySteps(p)
  <2>1. PICK p \in Prompts : GatewaySteps(p)
    BY <1>4
  <2>2. CASE \/ Admit(p) \/ AnnounceFails(p) \/ Announce(p) \/ Forward(p) \/ StartFresh(p)
    BY <2>2, UnannouncedRefines, AnnounceRefines, ForwardRefines, StartFreshRefines DEF Turn!Next
  <2>3. CASE TakeResult(p)
    BY <2>3, TakeResultRefines
  <2>4. CASE ForwardFails(p) \/ NoticeFails(p)
    <3>1. /\ pc[p] \in {"first", "second", "notice"} /\ pc'[p] = "ending" /\ result' = result
      BY <2>4 DEF ForwardFails, NoticeFails, Receiving, IInv, WInv, TypeOK
    <3>2. result'[p] = NoResult
      BY <3>1 DEF IInv, Unresolved
    <3>3. ~StartFresh(p)
      BY <3>1 DEF StartFresh, IInv, WInv, TypeOK
    <3> QED BY <2>1, <3>1, <3>2, <3>3, OneFails
  <2>5. CASE MarkInactive(p) \/ Save(p)
    BY <2>5, EndingRefines
  <2> QED BY <2>1, <2>2, <2>3, <2>4, <2>5 DEF GatewaySteps
<1>5. CASE Ending
  <2>1. \A p \in Prompts : Same(p)
    BY <1>5 DEF Ending, Same, Phase, Given, Said, Shown, Receiving, Current, Messages
  <2> QED BY <2>1, AllSame
<1> QED BY <1>1, <1>2, <1>3, <1>4, <1>5, NextEffect DEF IInv, WInv

LEMMA InitRefines == Init => Turn!Init
<1> SUFFICES ASSUME Init PROVE Turn!Init
  OBVIOUS
<1>1. \A p \in Prompts : /\ Phase(p) = "idle" /\ Said(p) = 0 /\ Shown(p) = 0
                        /\ Given(p) = NoSession /\ result[p].id = NoSession
  BY RunsOf DEF Init, Phase, Given, Said, Shown, Receiving, NoResult
<1> QED BY <1>1 DEF Turn!Init

(* TurnContract, for any number of prompts and any bounds: the exec        *)
(* backend and the gateway task that drives it implement AgentTurn.        *)
THEOREM ExecImplementsTurn == Spec => TurnContract
<1>1. Spec => []IInv
  <2>1. IInv /\ [Next]_vars => IInv'
    BY IInvStep
  <2> QED BY <2>1, IInvInit, PTL DEF Spec
<1>2. IInv /\ [Next]_vars => [Turn!Next]_Turn!vars
  BY StepRefines
<1> QED BY <1>1, <1>2, InitRefines, PTL DEF Spec, TurnContract, Turn!Spec
=============================================================================
