----------------------------- MODULE AppServer -----------------------------
(***************************************************************************)
(* One established connection to `codex app-server`                        *)
(* (codex_app_server.rs): the tasks that call run_turn, the tasks that     *)
(* call respond_to_pending, the reader and the writer of the websocket,    *)
(* and, as environment, the app-server at the other end.                   *)
(*                                                                         *)
(* Atomicity.  A step is what the code does between two suspension points  *)
(* or under one mutex.  The websocket is FIFO and read by one task, so the *)
(* server emitting a message and the reader handling it are one step, as   *)
(* are the writer popping a message and the server receiving it; either    *)
(* end can still be arbitrarily late.                                      *)
(***************************************************************************)
EXTENDS Integers, Sequences, FiniteSets

CONSTANTS
  Turns,            (* calls of run_turn                                   *)
  Threads,          (* codex thread ids                                    *)
  StoredThreads,    (* thread ids persisted by an earlier run              *)
  Responders,       (* tasks that answer interactions, one call at a time  *)
  NoTurn, NoThread, (* absent values                                       *)
  MaxItems,         (* bound: messages the server emits for one turn       *)
  MaxInteractions   (* bound: requests the server makes on the connection  *)

ASSUME AppServerAssumption ==
  /\ StoredThreads \subseteq Threads
  /\ NoTurn \notin Turns
  /\ NoThread \notin Threads
  /\ MaxItems \in Nat
  /\ MaxInteractions \in Nat

VARIABLES
  link,                  (* whether the websocket still carries messages   *)
  writer,                (* "up", "failing" (turns failed), "down"         *)
  reader,                (* "up", "forwarding" (an interaction), "down"    *)
  outbound,              (* outbound_tx/rx                                 *)
  pending_requests,      (* calls with a oneshot sender in the map         *)
  active_turns,          (* thread -> the turn whose handle is registered  *)
  pending_interactions,  (* stored server requests                         *)
  next_interaction_id,
  pc,                    (* where each run_turn call stands                *)
  thread,                (* its thread_id, once a reply carries it         *)
  reply,                 (* what its oneshot of `call` holds               *)
  events,                (* its event_rx                                   *)
  completion,            (* its completion_rx                              *)
  consumer,              (* whether the caller still takes its events      *)
  result,                (* what it returned                               *)
  responder,             (* state of each respond_to_pending call          *)
  known,                 (* environment: threads the server has            *)
  received,              (* environment: calls the server has yet to reply *)
  server,                (* environment: the server's side of a turn       *)
  emitted,               (* environment: messages emitted for a turn       *)
  asked,                 (* environment: interaction -> turn it belongs to *)
  answers,               (* history: answers sent for an interaction       *)
  timedOut,              (* history: turns whose turn/start call timed out *)
  shown                  (* history: the last item on_event was called for *)

connVars   == <<link, writer, reader, outbound>>
mapVars    == <<pending_requests, active_turns>>
askVars    == <<pending_interactions, next_interaction_id, asked>>
turnVars   == <<pc, thread, reply, events, completion, consumer, result>>
serverVars == <<known, received, server, emitted>>
historyVars == <<answers, timedOut, shown>>
vars == <<connVars, mapVars, askVars, turnVars, responder, serverVars, historyVars>>

Tokens  == 1 .. MaxInteractions
Methods == {"thread", "turn"}   \* thread/start or thread/resume; turn/start

Call(t, m)   == [turn |-> t, method |-> m]
Calls        == [turn : Turns, method : Methods]
Message(k, t, n) == [kind |-> k, turn |-> t, n |-> n]

(* What travels to the server: a call of a turn, or (n > 0) the answer to  *)
(* interaction n.                                                          *)
Outgoing == [kind : Methods, turn : Turns, n : {0}]
              \cup [kind : {"answer"}, turn : {NoTurn}, n : Tokens]

(* AppServerTurnEvent: Forward of an item or of an interaction, Completed. *)
(* The turn is the one the server emitted it for; the code sees only the   *)
(* thread id.                                                              *)
Event == [kind : {"item", "pending", "ok", "err"}, turn : Turns, n : Nat]

(* PendingInteraction, named by its token; the kind of request is left to  *)
(* whether an answer fits it.                                              *)
Interaction == [token : Tokens, thread : Threads]

Idle == [state |-> "idle", token |-> 0, fits |-> FALSE]

TurnStates == {"idle", "thread_rpc", "register", "start", "turn_rpc",
               "loop", "unregister", "done"}

TypeOK ==
  /\ link \in BOOLEAN
  /\ writer \in {"up", "failing", "down"}
  /\ reader \in {"up", "forwarding", "down"}
  /\ outbound \in Seq(Outgoing)
  /\ pending_requests \subseteq Calls
  /\ active_turns \in [Threads -> Turns \cup {NoTurn}]
  /\ pending_interactions \subseteq Interaction
  /\ next_interaction_id \in 1 .. MaxInteractions + 1
  /\ pc \in [Turns -> TurnStates]
  /\ thread \in [Turns -> Threads \cup {NoThread}]
  /\ reply \in [Turns -> {"none", "ok", "err"}]
  /\ events \in [Turns -> Seq(Event)]
  /\ completion \in [Turns -> {"empty", "ok", "err"}]
  /\ consumer \in [Turns -> BOOLEAN]
  /\ result \in [Turns -> {"none", "ok", "err"}]
  /\ responder \in [Responders -> [state : {"idle", "found", "sent"},
                                   token : 0 .. MaxInteractions, fits : BOOLEAN]]
  /\ known \subseteq Threads
  /\ received \subseteq Calls
  /\ server \in [Turns -> {"none", "running", "asking", "ok", "err"}]
  /\ emitted \in [Turns -> 0 .. MaxItems]
  /\ asked \in [Tokens -> Turns \cup {NoTurn}]
  /\ answers \in [Tokens -> Nat]
  /\ timedOut \subseteq Turns
  /\ shown \in [Turns -> Nat]

Init ==
  /\ link = TRUE /\ writer = "up" /\ reader = "up" /\ outbound = <<>>
  /\ pending_requests = {}
  /\ active_turns = [th \in Threads |-> NoTurn]
  /\ pending_interactions = {} /\ next_interaction_id = 1
  /\ pc = [t \in Turns |-> "idle"]
  /\ thread = [t \in Turns |-> NoThread]
  /\ reply = [t \in Turns |-> "none"]
  /\ events = [t \in Turns |-> <<>>]
  /\ completion = [t \in Turns |-> "empty"]
  /\ consumer = [t \in Turns |-> TRUE]
  /\ result = [t \in Turns |-> "none"]
  /\ responder = [r \in Responders |-> Idle]
  /\ known = StoredThreads /\ received = {}
  /\ server = [t \in Turns |-> "none"]
  /\ emitted = [t \in Turns |-> 0]
  /\ asked = [k \in Tokens |-> NoTurn]
  /\ answers = [k \in Tokens |-> 0]
  /\ timedOut = {}
  /\ shown = [t \in Turns |-> 0]

-----------------------------------------------------------------------------
(* Operations of the connection used by the handlers.                      *)

(* send_json: fails once the writer task has dropped its receiver.         *)
CanSend == writer # "down"
Send(m) == outbound' = Append(outbound, m)

(* forward_to_turn: to whichever turn is registered for the thread; a send *)
(* to a receiver that is gone is ignored.                                  *)
Receiving(th) == active_turns[th] # NoTurn /\ pc[active_turns[th]] # "done"

Forward(th, e) ==
  events' = IF Receiving(th)
              THEN [events EXCEPT ![active_turns[th]] = Append(@, e)]
              ELSE events

(* complete_turn: Completed on the event channel, then the oneshot, if it  *)
(* has not been taken.                                                     *)
CompleteTurn(th, e) ==
  /\ Forward(th, e)
  /\ completion' = IF Receiving(th) /\ completion[active_turns[th]] = "empty"
                     THEN [completion EXCEPT ![active_turns[th]] = e.kind]
                     ELSE completion

Registered(t) == \E th \in Threads : active_turns[th] = t

(* fail_all_active_turns: an error for every turn not yet completed, and   *)
(* the map is emptied.  pending_interactions and pending_requests stay.    *)
FailAllActiveTurns ==
  /\ completion' = [t \in Turns |->
                      IF Registered(t) /\ completion[t] = "empty"
                        THEN "err" ELSE completion[t]]
  /\ active_turns' = [th \in Threads |-> NoTurn]

-----------------------------------------------------------------------------
(* run_turn.                                                               *)

Goto(t, from, to) == pc[t] = from /\ pc' = [pc EXCEPT ![t] = to]
Return(t, r) == result' = [result EXCEPT ![t] = r]

(* call(): the oneshot goes into pending_requests, then the request is     *)
(* sent; when the send fails the entry stays behind.                       *)
StartCall(t, m) ==
  /\ pending_requests' = pending_requests \cup {Call(t, m)}
  /\ reply' = [reply EXCEPT ![t] = "none"]
  /\ IF CanSend THEN Send(Message(m, t, 0)) ELSE UNCHANGED outbound

(* thread/resume for a stored session id, thread/start without one.        *)
BeginTurn(t, session) ==
  /\ pc[t] = "idle"
  /\ thread' = [thread EXCEPT ![t] = session]
  /\ StartCall(t, "thread")
  /\ IF CanSend
       THEN pc' = [pc EXCEPT ![t] = "thread_rpc"] /\ UNCHANGED result
       ELSE pc' = [pc EXCEPT ![t] = "done"] /\ Return(t, "err")
  /\ UNCHANGED <<link, writer, reader, active_turns, askVars, events, completion,
                 consumer, responder, serverVars, historyVars>>

ThreadReply(t) ==
  /\ pc[t] = "thread_rpc" /\ reply[t] # "none"
  /\ IF reply[t] = "ok"
       THEN pc' = [pc EXCEPT ![t] = "register"] /\ UNCHANGED result
       ELSE pc' = [pc EXCEPT ![t] = "done"] /\ Return(t, "err")
  /\ UNCHANGED <<connVars, mapVars, askVars, thread, reply, events, completion,
                 consumer, responder, serverVars, historyVars>>

(* Mutant of Register: without the contains_key test.                      *)
RegisterOverwrites(t) ==
  /\ Goto(t, "register", "start")
  /\ active_turns' = [active_turns EXCEPT ![thread[t]] = t]
  /\ UNCHANGED <<connVars, pending_requests, askVars, thread, reply, events,
                 completion, consumer, result, responder, serverVars, historyVars>>

(* register_active_turn: refused when the thread has a handle already.     *)
Register(t) ==
  /\ pc[t] = "register"
  /\ IF active_turns[thread[t]] = NoTurn
       THEN /\ active_turns' = [active_turns EXCEPT ![thread[t]] = t]
            /\ pc' = [pc EXCEPT ![t] = "start"]
            /\ UNCHANGED result
       ELSE /\ pc' = [pc EXCEPT ![t] = "done"]
            /\ Return(t, "err")
            /\ UNCHANGED active_turns
  /\ UNCHANGED <<connVars, pending_requests, askVars, thread, reply, events,
                 completion, consumer, responder, serverVars, historyVars>>

StartTurn(t) ==
  /\ pc[t] = "start"
  /\ StartCall(t, "turn")
  /\ IF CanSend
       THEN pc' = [pc EXCEPT ![t] = "turn_rpc"] /\ UNCHANGED result
       ELSE pc' = [pc EXCEPT ![t] = "unregister"] /\ Return(t, "err")
  /\ UNCHANGED <<link, writer, reader, active_turns, askVars, thread, events,
                 completion, consumer, responder, serverVars, historyVars>>

TurnReply(t) ==
  /\ pc[t] = "turn_rpc" /\ reply[t] # "none"
  /\ IF reply[t] = "ok"
       THEN pc' = [pc EXCEPT ![t] = "loop"] /\ UNCHANGED result
       ELSE pc' = [pc EXCEPT ![t] = "unregister"] /\ Return(t, "err")
  /\ UNCHANGED <<connVars, mapVars, askVars, thread, reply, events, completion,
                 consumer, responder, serverVars, historyVars>>

(* 30 seconds without a response; the entry stays in pending_requests.     *)
CallTimeout(t) ==
  /\ reply[t] = "none"
  /\ Return(t, "err")
  /\ \/ /\ Goto(t, "thread_rpc", "done")
        /\ UNCHANGED timedOut
     \/ /\ Goto(t, "turn_rpc", "unregister")
        /\ timedOut' = timedOut \cup {t}
  /\ UNCHANGED <<connVars, mapVars, askVars, thread, reply, events, completion,
                 consumer, responder, serverVars, answers, shown>>

(* A forwarded event goes to on_event, item or interaction.                *)
HandOn(t, e) ==
  shown' = IF e.kind = "item" THEN [shown EXCEPT ![t] = e.n] ELSE shown

(* Mutant of LoopEvent: a failed on_event leaves the loop in good order,   *)
(* that is, through unregister_active_turn.                                *)
LoopEventUnregisters(t) ==
  /\ pc[t] = "loop" /\ events[t] # <<>>
  /\ events' = [events EXCEPT ![t] = Tail(@)]
  /\ LET e == Head(events[t]) IN
     \/ /\ e.kind \in {"item", "pending"} /\ consumer[t]
        /\ \E stays \in BOOLEAN : consumer' = [consumer EXCEPT ![t] = stays]
        /\ HandOn(t, e)
        /\ UNCHANGED <<pc, result>>
     \/ /\ e.kind \in {"ok", "err"} \/ ~consumer[t]
        /\ Goto(t, "loop", "unregister")
        /\ Return(t, IF e.kind = "ok" THEN "ok" ELSE "err")
        /\ UNCHANGED <<consumer, shown>>
  /\ UNCHANGED <<connVars, mapVars, askVars, thread, reply, completion,
                 responder, serverVars, answers, timedOut>>

(* The select! arm of event_rx.  A forwarded event goes to on_event; the   *)
(* caller may fail to pass it on and drop its end, which the next event    *)
(* finds out.  Both errors return at once: the handle stays registered.    *)
LoopEvent(t) ==
  /\ pc[t] = "loop" /\ events[t] # <<>>
  /\ events' = [events EXCEPT ![t] = Tail(@)]
  /\ LET e == Head(events[t]) IN
     \/ /\ e.kind \in {"item", "pending"} /\ consumer[t]
        /\ \E stays \in BOOLEAN : consumer' = [consumer EXCEPT ![t] = stays]
        /\ HandOn(t, e)
        /\ UNCHANGED <<pc, result>>
     \/ /\ e.kind \in {"item", "pending"} /\ ~consumer[t]
        /\ Goto(t, "loop", "done") /\ Return(t, "err")
        /\ UNCHANGED <<consumer, shown>>
     \/ /\ e.kind = "ok"
        /\ Goto(t, "loop", "unregister") /\ Return(t, "ok")
        /\ UNCHANGED <<consumer, shown>>
     \/ /\ e.kind = "err"
        /\ Goto(t, "loop", "done") /\ Return(t, "err")
        /\ UNCHANGED <<consumer, shown>>
  /\ UNCHANGED <<connVars, mapVars, askVars, thread, reply, completion,
                 responder, serverVars, answers, timedOut>>

(* The select! arm of completion_rx, ready together with the other one.    *)
LoopCompletion(t) ==
  /\ completion[t] # "empty"
  /\ IF completion[t] = "ok"
       THEN Goto(t, "loop", "unregister") /\ Return(t, "ok")
       ELSE Goto(t, "loop", "done") /\ Return(t, "err")
  /\ UNCHANGED <<connVars, mapVars, askVars, thread, reply, events, completion,
                 consumer, responder, serverVars, historyVars>>

(* The handle was dropped: a drained event channel or an empty oneshot.    *)
LoopClosed(t) ==
  /\ ~Registered(t)
  /\ events[t] = <<>> \/ completion[t] = "empty"
  /\ Goto(t, "loop", "done") /\ Return(t, "err")
  /\ UNCHANGED <<connVars, mapVars, askVars, thread, reply, events, completion,
                 consumer, responder, serverVars, historyVars>>

(* Mutant of Unregister: the thread is forgotten with its handle.          *)
UnregisterForgets(t) ==
  /\ Goto(t, "unregister", "done")
  /\ active_turns' = [th \in Threads \ {thread[t]} |-> active_turns[th]]
  /\ UNCHANGED <<connVars, pending_requests, askVars, thread, reply, events,
                 completion, consumer, result, responder, serverVars, historyVars>>

(* unregister_active_turn removes by thread id, whoever is registered.     *)
Unregister(t) ==
  /\ Goto(t, "unregister", "done")
  /\ active_turns' = [active_turns EXCEPT ![thread[t]] = NoTurn]
  /\ UNCHANGED <<connVars, pending_requests, askVars, thread, reply, events,
                 completion, consumer, result, responder, serverVars, historyVars>>

-----------------------------------------------------------------------------
(* respond_to_pending: the entry is looked up and cloned, the answer is    *)
(* built and sent, and only then the entry is removed.                     *)

(* Mutant of Lookup: the entry is taken, not cloned.                       *)
LookupTakes(r, p, fits) ==
  /\ responder[r].state = "idle"
  /\ p \in pending_interactions
  /\ pending_interactions' = pending_interactions \ {p}
  /\ responder' = [responder EXCEPT
       ![r] = [state |-> "found", token |-> p.token, fits |-> fits]]
  /\ UNCHANGED <<connVars, mapVars, next_interaction_id, asked, turnVars,
                 serverVars, historyVars>>

Lookup(r, p, fits) ==
  /\ responder[r].state = "idle"
  /\ p \in pending_interactions
  /\ responder' = [responder EXCEPT
       ![r] = [state |-> "found", token |-> p.token, fits |-> fits]]
  /\ UNCHANGED <<connVars, mapVars, askVars, turnVars, serverVars, historyVars>>

(* build_interaction_response rejects an action that does not fit the kind *)
(* of request; a closed channel rejects the send.  Both leave the entry.   *)
SendAnswer(r) ==
  LET k == responder[r].token IN
  /\ responder[r].state = "found"
  /\ IF responder[r].fits /\ CanSend
       THEN /\ Send(Message("answer", NoTurn, k))
            /\ answers' = [answers EXCEPT ![k] = @ + 1]
            /\ responder' = [responder EXCEPT ![r].state = "sent"]
       ELSE /\ responder' = [responder EXCEPT ![r] = Idle]
            /\ UNCHANGED <<outbound, answers>>
  /\ UNCHANGED <<link, writer, reader, mapVars, askVars, turnVars, serverVars,
                 timedOut, shown>>

RemoveAnswered(r) ==
  /\ responder[r].state = "sent"
  /\ pending_interactions' =
       {p \in pending_interactions : p.token # responder[r].token}
  /\ responder' = [responder EXCEPT ![r] = Idle]
  /\ UNCHANGED <<connVars, mapVars, next_interaction_id, asked, turnVars,
                 serverVars, historyVars>>

-----------------------------------------------------------------------------
(* The reader task, with the server message it handles.                    *)

(* handle_response: an id no longer in the map is ignored; a result for a  *)
(* caller that timed out finds its receiver gone.  thread/start returns a  *)
(* thread id of its own, thread/resume the one it was given.               *)
Awaits(t, m) == pc[t] = (IF m = "thread" THEN "thread_rpc" ELSE "turn_rpc")

Answered(c, outcome) ==
  /\ received' = received \ {c}
  /\ pending_requests' = pending_requests \ {c}
  /\ reply' = IF c \in pending_requests /\ Awaits(c.turn, c.method)
                THEN [reply EXCEPT ![c.turn] = outcome] ELSE reply

ServerReply(c) ==
  /\ link /\ reader = "up" /\ c \in received
  /\ \/ /\ Answered(c, "err")
        /\ server[c.turn] = "none"
        /\ UNCHANGED <<thread, known>>
     \/ /\ Answered(c, "ok")
        /\ c.method = "turn" => server[c.turn] # "none"
        /\ c.method = "thread" => thread[c.turn] # NoThread
        /\ UNCHANGED <<thread, known>>
     \/ /\ Answered(c, "ok")
        /\ c.method = "thread" /\ thread[c.turn] = NoThread
        /\ \E th \in Threads \ known :
             /\ thread' = [thread EXCEPT ![c.turn] = th]
             /\ known' = known \cup {th}
  /\ UNCHANGED <<connVars, active_turns, askVars, pc, events, completion, consumer,
                 result, responder, server, emitted, historyVars>>

(* handle_notification for agent messages and errors of a running turn.    *)
ServerItem(t) ==
  /\ link /\ reader = "up" /\ server[t] = "running" /\ emitted[t] < MaxItems
  /\ emitted' = [emitted EXCEPT ![t] = @ + 1]
  /\ Forward(thread[t], Message("item", t, emitted[t] + 1))
  /\ UNCHANGED <<connVars, mapVars, askVars, pc, thread, reply, completion,
                 consumer, result, responder, known, received, server, historyVars>>

(* turn/completed, with status completed or failed.  A turn that waits for *)
(* an answer may still fail.                                               *)
ServerEnd(t, outcome) ==
  /\ link /\ reader = "up"
  /\ server[t] \in (IF outcome = "ok" THEN {"running"} ELSE {"running", "asking"})
  /\ server' = [server EXCEPT ![t] = outcome]
  /\ CompleteTurn(thread[t], Message(outcome, t, 0))
  /\ UNCHANGED <<connVars, mapVars, askVars, pc, thread, reply, consumer, result,
                 responder, known, received, emitted, historyVars>>

(* handle_server_request: the interaction gets the next token, is stored,  *)
(* and, under another lock, forwarded.                                     *)
ServerAsk(t) ==
  LET k == next_interaction_id IN
  /\ link /\ reader = "up" /\ server[t] = "running" /\ k \in Tokens
  /\ next_interaction_id' = k + 1
  /\ pending_interactions' =
       pending_interactions \cup {[token |-> k, thread |-> thread[t]]}
  /\ asked' = [asked EXCEPT ![k] = t]
  /\ server' = [server EXCEPT ![t] = "asking"]
  /\ reader' = "forwarding"
  /\ UNCHANGED <<link, writer, outbound, mapVars, turnVars, responder, known,
                 received, emitted, historyVars>>

ForwardInteraction ==
  LET k == next_interaction_id - 1
      t == asked[k] IN
  /\ reader = "forwarding"
  /\ reader' = "up"
  /\ Forward(thread[t], Message("pending", t, k))
  /\ UNCHANGED <<link, writer, outbound, mapVars, askVars, pc, thread, reply,
                 completion, consumer, result, responder, serverVars, historyVars>>

(* Mutant of ReaderFails: the task just ends.                              *)
ReaderJustEnds ==
  /\ ~link /\ reader = "up"
  /\ reader' = "down"
  /\ UNCHANGED <<link, writer, outbound, mapVars, askVars, turnVars, responder,
                 serverVars, historyVars>>

(* The websocket closes, errs or ends: every turn fails, the task ends.    *)
ReaderFails ==
  /\ ~link /\ reader = "up"
  /\ reader' = "down"
  /\ FailAllActiveTurns
  /\ UNCHANGED <<link, writer, outbound, pending_requests, askVars, pc, thread,
                 reply, events, consumer, result, responder, serverVars, historyVars>>

-----------------------------------------------------------------------------
(* The writer task.                                                        *)

(* The server receives a message.  A turn/start may be turned down, which  *)
(* its response will say; an answer resumes the turn that waits for it,    *)
(* and is ignored when none does.                                          *)
WaitsFor(t, k) ==
  server[t] = "asking" /\ asked[k] = t /\ \A j \in Tokens : j > k => asked[j] # t

Deliver(m) ==
  \/ /\ m.kind = "answer"
     /\ server' = [t \in Turns |->
                     IF WaitsFor(t, m.n) THEN "running" ELSE server[t]]
     /\ UNCHANGED received
  \/ /\ m.kind = "thread"
     /\ received' = received \cup {Call(m.turn, "thread")}
     /\ UNCHANGED server
  \/ /\ m.kind = "turn"
     /\ received' = received \cup {Call(m.turn, "turn")}
     /\ server' \in {server, [server EXCEPT ![m.turn] = "running"]}

WriterSends ==
  /\ writer = "up" /\ outbound # <<>>
  /\ outbound' = Tail(outbound)
  /\ IF link THEN Deliver(Head(outbound)) ELSE UNCHANGED <<server, received>>
  /\ UNCHANGED <<link, writer, reader, mapVars, askVars, turnVars, responder, known,
                 emitted, historyVars>>

(* A write fails: every turn fails, then the task ends and drops its       *)
(* receiver; what is sent in between is lost with it.                      *)
WriterFails ==
  /\ ~link /\ writer = "up" /\ outbound # <<>>
  /\ writer' = "failing"
  /\ outbound' = Tail(outbound)
  /\ FailAllActiveTurns
  /\ UNCHANGED <<link, reader, pending_requests, askVars, pc, thread, reply, events,
                 consumer, result, responder, serverVars, historyVars>>

WriterEnds ==
  /\ writer = "failing"
  /\ writer' = "down"
  /\ outbound' = <<>>
  /\ UNCHANGED <<link, reader, mapVars, askVars, turnVars, responder, serverVars,
                 historyVars>>

(* The app-server process or the socket dies.                              *)
LinkLost ==
  /\ link
  /\ link' = FALSE
  /\ UNCHANGED <<writer, reader, outbound, mapVars, askVars, turnVars, responder,
                 serverVars, historyVars>>

-----------------------------------------------------------------------------
Sessions == known \cup {NoThread}

TurnStep(t) ==
  \/ ThreadReply(t) \/ Register(t) \/ StartTurn(t) \/ TurnReply(t)
  \/ CallTimeout(t)
  \/ LoopEvent(t) \/ LoopCompletion(t) \/ LoopClosed(t)
  \/ Unregister(t)

ResponderStep(r) == SendAnswer(r) \/ RemoveAnswered(r)

ServerStep(t) ==
  \/ \E m \in Methods : ServerReply(Call(t, m))
  \/ ServerItem(t)
  \/ \E outcome \in {"ok", "err"} : ServerEnd(t, outcome)
  \/ ServerAsk(t)

ReaderStep == ForwardInteraction \/ ReaderFails
WriterStep == WriterSends \/ WriterFails \/ WriterEnds

Next ==
  \/ \E t \in Turns : \E s \in Sessions : BeginTurn(t, s)
  \/ \E t \in Turns : TurnStep(t)
  \/ \E r \in Responders, p \in pending_interactions, fits \in BOOLEAN :
       Lookup(r, p, fits)
  \/ \E r \in Responders : ResponderStep(r)
  \/ \E t \in Turns : ServerStep(t)
  \/ ReaderStep
  \/ WriterStep
  \/ LinkLost

Spec == Init /\ [][Next]_vars

(* Every task is scheduled by the runtime; the server replies to what it   *)
(* received and ends the turns that wait for nobody.  Users answer only if *)
(* they like, and nothing makes the link fail.                             *)
Fairness ==
  /\ \A t \in Turns : WF_vars(TurnStep(t))
  /\ \A r \in Responders : WF_vars(ResponderStep(r))
  /\ WF_vars(ReaderStep) /\ WF_vars(WriterStep)
  /\ \A t \in Turns : WF_vars(\E m \in Methods : ServerReply(Call(t, m)))
  /\ \A t \in Turns : WF_vars(server[t] = "running" /\ \E o \in {"ok", "err"} : ServerEnd(t, o))

FairSpec == Spec /\ Fairness

-----------------------------------------------------------------------------
(* Properties.                                                             *)

(* The states in which run_turn relies on its handle being in the map.     *)
Holding == {"start", "turn_rpc", "loop", "unregister"}

(* fail_all_active_turns has not run.                                      *)
Intact == reader # "down" /\ writer = "up"

(* Until the connection fails, a turn between register_active_turn and     *)
(* unregister_active_turn owns the handle of its thread: nobody else's     *)
(* unregister, which removes by thread id, takes it away.                  *)
HandleKept ==
  Intact => \A t \in Turns : pc[t] \in Holding => active_turns[thread[t]] = t

(* active_turns is there so that the server runs one turn of a thread at a *)
(* time.  It does, as long as the link is up and no turn/start call of     *)
(* that thread timed out, whatever fails in the tasks that wait.           *)
Runs(t) == server[t] \in {"running", "asking"}

(* No turn/start call of a turn of this thread has timed out.              *)
Clean(th) == \A w \in timedOut : thread[w] # th

NoOverlap ==
  link => \A t, u \in Turns :
    (Runs(t) /\ Runs(u) /\ thread[t] = thread[u] /\ Clean(thread[t])) => t = u

(* Notifications name a thread, not a turn.  What a turn in its loop finds *)
(* in its event channel, its completion included, is nevertheless its own, *)
(* as long as no turn/start call of its thread timed out.                  *)
EventsAreOwn ==
  \A t \in Turns : pc[t] = "loop" /\ Clean(thread[t]) =>
    \A i \in 1 .. Len(events[t]) : events[t][i].turn = t

(* run_turn says that a turn succeeded only when the server completed it:  *)
(* no completion of an earlier turn of the thread, by either channel, ends *)
(* a later one, as long as no turn/start call of the thread timed out.     *)
SuccessIsOwn ==
  \A t \in Turns : result[t] = "ok" /\ Clean(thread[t]) => server[t] = "ok"

(* A request of the server leaves pending_interactions only after an       *)
(* answer to it was sent: an answer that does not fit, or a closed         *)
(* connection, leaves it to be answered.                                   *)
RequestsKept ==
  \A k \in 1 .. next_interaction_id - 1 :
    answers[k] = 0 => \E p \in pending_interactions : p.token = k

(* The refinement mapping: what a caller sees of its turn, and what the    *)
(* server does for it.                                                     *)
Phase == [t \in Turns |->
  IF result[t] # "none" THEN result[t] ELSE IF pc[t] = "idle" THEN "idle" ELSE "open"]
Agent == [t \in Turns |-> IF Runs(t) THEN "working" ELSE server[t]]
Doubtful == {thread[w] : w \in timedOut}

Turn == INSTANCE ThreadTurn WITH
  phase <- Phase, agent <- Agent, said <- emitted, doubtful <- Doubtful

(* What ThreadTurn promises of the turns of a thread: the server works on  *)
(* one at a time, only for a caller that waits for it, what it says is     *)
(* handed on in order and to that caller, and a turn succeeds only if the  *)
(* server completed it, until a turn/start call of the thread times out.   *)
TurnContract == Turn!Spec

(* Every run_turn call returns, unless its turn waits for a user: neither  *)
(* a lost message or link nor the select! order leaves it waiting.         *)
WaitsForUser(t) ==
  \E p \in pending_interactions : asked[p.token] = t /\ server[t] = "asking"

TurnsReturn ==
  \A t \in Turns : pc[t] # "idle" ~> pc[t] = "done" \/ WaitsForUser(t)

(* "codex already has an active turn for thread" is only true of a turn    *)
(* that has not returned (codex_app_server.rs:387).                        *)
ActiveTurnRuns ==
  \A th \in Threads : active_turns[th] # NoTurn => pc[active_turns[th]] # "done"

(* "Normal Codex replies are sent back as text messages": a turn that      *)
(* succeeds has handed on every message the reader put in its channel.     *)
RepliesHandedOn ==
  \A t \in Turns : result[t] = "ok" =>
    \A i \in 1 .. Len(events[t]) : events[t][i].turn = t => events[t][i].kind # "item"
=============================================================================
