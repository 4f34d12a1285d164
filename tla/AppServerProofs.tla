-------------------------- MODULE AppServerProofs --------------------------
(***************************************************************************)
(* Proofs about AppServer, for any number of turns, threads, responders,   *)
(* messages and interactions.                                              *)
(***************************************************************************)
EXTENDS AppServer, SequenceTheorems, TLAPS

Queued == {outbound[i] : i \in 1 .. Len(outbound)}

(* A call is under way only for a turn that has begun, and a turn has its  *)
(* thread from the reply to thread/start or thread/resume on.              *)
ThreadKnown ==
  /\ \A t \in Turns : pc[t] = "idle" => thread[t] = NoThread
  /\ \A t \in Turns : pc[t] \in {"register"} \cup Holding => thread[t] # NoThread
  /\ \A t \in Turns : pc[t] = "thread_rpc" /\ reply[t] = "ok" => thread[t] # NoThread
  /\ \A m \in Queued : m.kind # "answer" => pc[m.turn] # "idle"
  /\ \A m \in Queued : m.kind = "turn" => thread[m.turn] # NoThread
  /\ \A c \in received : pc[c.turn] # "idle"
  /\ \A t \in Turns : server[t] # "none" => pc[t] # "idle" /\ thread[t] # NoThread
  /\ \A t \in timedOut : pc[t] # "idle" /\ thread[t] # NoThread

(* The interaction being forwarded is the last one asked for, by a turn    *)
(* the server still runs.                                                  *)
Forwarding ==
  reader = "forwarding" =>
    /\ next_interaction_id - 1 \in Tokens
    /\ asked[next_interaction_id - 1] \in Turns
    /\ Runs(asked[next_interaction_id - 1])

(* A responder that found or answered an entry has a token of it.          *)
TokenKnown ==
  \A r \in Responders : responder[r].state # "idle" => responder[r].token \in Tokens

Basics == TypeOK /\ ThreadKnown /\ Forwarding /\ TokenKnown

(* What travels to the server, when a message joins it and when one goes.  *)
LEMMA QueuedType == outbound \in Seq(Outgoing) => Queued \subseteq Outgoing
  BY DEF Queued

(* Sending puts one message behind the others (send_json).                 *)
LEMMA SendQueued ==
  ASSUME outbound \in Seq(Outgoing), NEW m, Send(m)
  PROVE  Queued' = Queued \cup {m}
<1>1. /\ Len(outbound') = Len(outbound) + 1 /\ outbound'[Len(outbound) + 1] = m
      /\ \A i \in 1 .. Len(outbound) : outbound'[i] = outbound[i]
  BY DEF Send
<1>2. Len(outbound) \in Nat
  OBVIOUS
<1>3. 1 .. Len(outbound') = 1 .. Len(outbound) \cup {Len(outbound) + 1}
  BY <1>1, <1>2
<1> QED
  BY <1>1, <1>3 DEF Queued

(* The writer takes the first message and no other (write.send).           *)
LEMMA PopQueued ==
  ASSUME outbound \in Seq(Outgoing), outbound # <<>>, outbound' = Tail(outbound)
  PROVE  Head(outbound) \in Queued /\ Queued' \subseteq Queued
<1>1. /\ Len(outbound) \in Nat /\ Len(outbound) >= 1 /\ Head(outbound) = outbound[1]
      /\ Len(outbound') = Len(outbound) - 1
      /\ \A i \in 1 .. Len(outbound') : outbound'[i] = outbound[i + 1]
  OBVIOUS
<1>2. \A i \in 1 .. Len(outbound') : i + 1 \in 1 .. Len(outbound)
  BY <1>1
<1>3. 1 \in 1 .. Len(outbound)
  BY <1>1
<1> QED
  BY <1>1, <1>2, <1>3 DEF Queued

(* A fresh connection satisfies the four invariants.                       *)
LEMMA BasicsInit == Init => Basics
  BY AppServerAssumption
  DEF Init, Basics, TypeOK, ThreadKnown, Forwarding, TokenKnown, Idle, Holding, TurnStates,
      Tokens, Queued

(* An event forwarded for a thread ends up in a channel or nowhere.        *)
LEMMA ForwardType ==
  ASSUME TypeOK, NEW th \in Threads, NEW e \in Event, Forward(th, e)
  PROVE  events' \in [Turns -> Seq(Event)]
<1>1. CASE ~Receiving(th)
  BY <1>1 DEF Forward, TypeOK
<1>2. CASE Receiving(th)
  <2>1. active_turns[th] \in Turns
    BY <1>2 DEF Receiving, TypeOK
  <2>2. Append(events[active_turns[th]], e) \in Seq(Event)
    BY <2>1 DEF TypeOK
  <2> QED
    BY <1>2, <2>1, <2>2 DEF Forward, TypeOK
<1> QED
  BY <1>1, <1>2

(* Every step of every task keeps the types of the maps and channels.      *)
LEMMA TypeStep == ASSUME Basics, [Next]_vars PROVE TypeOK'
<1> DEFINE Entry == [state : {"idle", "found", "sent"},
                     token : 0 .. MaxInteractions, fits : BOOLEAN]
<1> USE AppServerAssumption DEF connVars, mapVars, askVars, turnVars, serverVars,
           historyVars, Goto, Return
<1>a. TypeOK /\ ThreadKnown /\ Forwarding /\ TokenKnown
  BY DEF Basics
<1>b. /\ pc \in [Turns -> TurnStates]
      /\ "thread_rpc" \in TurnStates /\ "register" \in TurnStates
      /\ "start" \in TurnStates /\ "turn_rpc" \in TurnStates
      /\ "loop" \in TurnStates /\ "unregister" \in TurnStates
      /\ "done" \in TurnStates
  BY <1>a DEF TypeOK, TurnStates
<1>c. outbound \in Seq(Outgoing)
  BY <1>a DEF TypeOK
<1>d. responder \in [Responders -> Entry]
  BY <1>a DEF TypeOK
<1>1. CASE UNCHANGED vars
  BY <1>a, <1>1 DEF TypeOK, vars
<1>2. ASSUME NEW t \in Turns, NEW s \in Sessions, BeginTurn(t, s) PROVE TypeOK'
  <2>1. pending_requests' \subseteq Calls
    BY <1>a, <1>2 DEF TypeOK, BeginTurn, StartCall, Call, Calls, Methods
  <2>2. outbound' \in Seq(Outgoing)
    BY <1>c, <1>2 DEF BeginTurn, StartCall, CanSend, Send, Call, Calls, Message, Outgoing, Methods
  <2>3. pc' \in [Turns -> TurnStates]
    BY <1>b, <1>2 DEF BeginTurn
  <2>4. thread' \in [Turns -> Threads \cup {NoThread}]
    BY <1>a, <1>2 DEF TypeOK, BeginTurn, Sessions
  <2>5. reply' \in [Turns -> {"none", "ok", "err"}]
    BY <1>a, <1>2 DEF TypeOK, BeginTurn, StartCall
  <2>6. result' \in [Turns -> {"none", "ok", "err"}]
    BY <1>a, <1>2 DEF TypeOK, BeginTurn
  <2> QED
    BY <1>a, <1>2, <2>1, <2>2, <2>3, <2>4, <2>5, <2>6 DEF TypeOK, BeginTurn
<1>3. ASSUME NEW t \in Turns, ThreadReply(t) PROVE TypeOK'
  <2>1. pc' \in [Turns -> TurnStates]
    BY <1>b, <1>3 DEF ThreadReply
  <2>2. result' \in [Turns -> {"none", "ok", "err"}]
    BY <1>a, <1>3 DEF TypeOK, ThreadReply
  <2> QED
    BY <1>a, <1>3, <2>1, <2>2 DEF TypeOK, ThreadReply
<1>4. ASSUME NEW t \in Turns, Register(t) PROVE TypeOK'
  <2>1. active_turns' \in [Threads -> Turns \cup {NoTurn}]
    BY <1>a, <1>4 DEF TypeOK, Register
  <2>2. pc' \in [Turns -> TurnStates]
    BY <1>b, <1>4 DEF Register
  <2> QED
    BY <1>a, <1>4, <2>1, <2>2 DEF TypeOK, Register
<1>5. ASSUME NEW t \in Turns, StartTurn(t) PROVE TypeOK'
  <2>1. pending_requests' \subseteq Calls
    BY <1>a, <1>5 DEF TypeOK, StartTurn, StartCall, Call, Calls, Methods
  <2>2. outbound' \in Seq(Outgoing)
    BY <1>c, <1>5 DEF StartTurn, StartCall, CanSend, Send, Call, Calls, Message, Outgoing, Methods
  <2>3. pc' \in [Turns -> TurnStates]
    BY <1>b, <1>5 DEF StartTurn
  <2>4. reply' \in [Turns -> {"none", "ok", "err"}]
    BY <1>a, <1>5 DEF TypeOK, StartTurn, StartCall
  <2>5. result' \in [Turns -> {"none", "ok", "err"}]
    BY <1>a, <1>5 DEF TypeOK, StartTurn
  <2> QED
    BY <1>a, <1>5, <2>1, <2>2, <2>3, <2>4, <2>5 DEF TypeOK, StartTurn
<1>6. ASSUME NEW t \in Turns, TurnReply(t) PROVE TypeOK'
  <2>1. pc' \in [Turns -> TurnStates]
    BY <1>b, <1>6 DEF TurnReply
  <2>2. result' \in [Turns -> {"none", "ok", "err"}]
    BY <1>a, <1>6 DEF TypeOK, TurnReply
  <2> QED
    BY <1>a, <1>6, <2>1, <2>2 DEF TypeOK, TurnReply
<1>7. ASSUME NEW t \in Turns, CallTimeout(t) PROVE TypeOK'
  <2>1. pc' \in [Turns -> TurnStates]
    BY <1>b, <1>7 DEF CallTimeout
  <2>2. timedOut' \subseteq Turns
    BY <1>a, <1>7 DEF TypeOK, CallTimeout
  <2> QED
    BY <1>a, <1>7, <2>1, <2>2 DEF TypeOK, CallTimeout
<1>8. ASSUME NEW t \in Turns, LoopEvent(t) PROVE TypeOK'
  <2>1. events' \in [Turns -> Seq(Event)]
    BY <1>a, <1>8 DEF TypeOK, LoopEvent
  <2>2. pc' \in [Turns -> TurnStates]
    BY <1>b, <1>8 DEF LoopEvent
  <2>3. consumer' \in [Turns -> BOOLEAN]
    BY <1>a, <1>8 DEF TypeOK, LoopEvent
  <2>4. result' \in [Turns -> {"none", "ok", "err"}]
    BY <1>a, <1>8 DEF TypeOK, LoopEvent
  <2>5. shown' \in [Turns -> Nat]
    <3>1. Head(events[t]).n \in Nat
      <4>1. events[t] \in Seq(Event) /\ events[t] # <<>>
        BY <1>a, <1>8 DEF TypeOK, LoopEvent
      <4>2. Head(events[t]) \in Event
        BY <4>1
      <4> QED
        BY <4>2 DEF Event
    <3>2. shown' = shown \/ shown' = [shown EXCEPT ![t] = Head(events[t]).n]
      BY <1>8 DEF LoopEvent, HandOn
    <3> QED
      BY <1>a, <3>1, <3>2 DEF TypeOK
  <2> QED
    BY <1>a, <1>8, <2>1, <2>2, <2>3, <2>4, <2>5 DEF TypeOK, LoopEvent
<1>9. ASSUME NEW t \in Turns, LoopCompletion(t) PROVE TypeOK'
  <2>1. pc' \in [Turns -> TurnStates]
    BY <1>b, <1>9 DEF LoopCompletion
  <2>2. result' \in [Turns -> {"none", "ok", "err"}]
    BY <1>a, <1>9 DEF TypeOK, LoopCompletion
  <2> QED
    BY <1>a, <1>9, <2>1, <2>2 DEF TypeOK, LoopCompletion
<1>10. ASSUME NEW t \in Turns, LoopClosed(t) PROVE TypeOK'
  <2>1. pc' \in [Turns -> TurnStates]
    BY <1>b, <1>10 DEF LoopClosed
  <2>2. result' \in [Turns -> {"none", "ok", "err"}]
    BY <1>a, <1>10 DEF TypeOK, LoopClosed
  <2> QED
    BY <1>a, <1>10, <2>1, <2>2 DEF TypeOK, LoopClosed
<1>11. ASSUME NEW t \in Turns, Unregister(t) PROVE TypeOK'
  <2>1. pc' \in [Turns -> TurnStates]
    BY <1>b, <1>11 DEF Unregister
  <2>2. active_turns' \in [Threads -> Turns \cup {NoTurn}]
    BY <1>a, <1>11 DEF TypeOK, Unregister
  <2> QED
    BY <1>a, <1>11, <2>1, <2>2 DEF TypeOK, Unregister
<1>12. ASSUME NEW r \in Responders, NEW p \in pending_interactions, NEW fits \in BOOLEAN,
             Lookup(r, p, fits)
      PROVE  TypeOK'
  <2>1. p.token \in 0 .. MaxInteractions
    BY <1>a, <1>12 DEF TypeOK, Interaction, Tokens
  <2>2. [state |-> "found", token |-> p.token, fits |-> fits] \in Entry
    BY <1>a, <1>12, <2>1 DEF TypeOK
  <2>3. responder' \in [Responders -> Entry]
    BY <1>d, <1>12, <2>2 DEF Lookup
  <2> QED
    BY <1>a, <1>12, <2>1, <2>2, <2>3 DEF TypeOK, Lookup
<1>13. ASSUME NEW r \in Responders, SendAnswer(r) PROVE TypeOK'
  <2>1. responder[r].token \in Tokens
    BY <1>a, <1>13 DEF TypeOK, SendAnswer, TokenKnown
  <2>2. outbound' \in Seq(Outgoing)
    <3>1. Message("answer", NoTurn, responder[r].token) \in Outgoing
      BY <2>1 DEF Message, Outgoing
    <3>2. \/ outbound' = Append(outbound, Message("answer", NoTurn, responder[r].token))
          \/ outbound' = outbound
      BY <1>13 DEF SendAnswer, Send
    <3> QED
      BY <1>c, <3>1, <3>2
  <2>3. answers' \in [Tokens -> Nat]
    <3>1. \/ answers' = [answers EXCEPT ![responder[r].token] = @ + 1]
          \/ answers' = answers
      BY <1>13 DEF SendAnswer
    <3> QED
      BY <1>a, <2>1, <3>1 DEF TypeOK
  <2>4. responder' \in [Responders -> Entry]
    <3>1. [responder[r] EXCEPT !.state = "sent"] \in Entry
      BY <1>d
    <3>2. Idle \in Entry
      BY DEF Idle
    <3> HIDE DEF Entry
    <3> QED
      BY <1>d, <1>13, <3>1, <3>2 DEF SendAnswer
  <2> QED
    BY <1>a, <1>13, <2>1, <2>2, <2>3, <2>4 DEF TypeOK, SendAnswer
<1>14. ASSUME NEW r \in Responders, RemoveAnswered(r) PROVE TypeOK'
  BY <1>a, <1>14 DEF TypeOK, RemoveAnswered, Idle
<1>15. ASSUME NEW t \in Turns, NEW m \in Methods, ServerReply(Call(t, m)) PROVE TypeOK'
  <2>1. received' \subseteq Calls /\ pending_requests' \subseteq Calls
    BY <1>a, <1>15 DEF TypeOK, ServerReply, Answered
  <2>2. reply' \in [Turns -> {"none", "ok", "err"}]
    BY <1>a, <1>15 DEF TypeOK, ServerReply, Answered, Call
  <2>3. thread' \in [Turns -> Threads \cup {NoThread}] /\ known' \subseteq Threads
    <3>1. \/ UNCHANGED <<thread, known>>
          \/ \E th \in Threads : /\ thread' = [thread EXCEPT ![t] = th]
                              /\ known' = known \cup {th}
      BY <1>15 DEF ServerReply, Call
    <3>2. thread \in [Turns -> Threads \cup {NoThread}] /\ known \subseteq Threads
      BY <1>a DEF TypeOK
    <3> QED
      BY <3>1, <3>2
  <2> QED
    BY <1>a, <1>15, <2>1, <2>2, <2>3 DEF TypeOK, ServerReply
<1>16. ASSUME NEW t \in Turns, ServerItem(t) PROVE TypeOK'
  <2>1. thread[t] \in Threads
    BY <1>a, <1>16 DEF TypeOK, ServerItem, ThreadKnown
  <2>2. Message("item", t, emitted[t] + 1) \in Event
    BY <1>a, <1>16 DEF TypeOK, Message, Event
  <2>3. events' \in [Turns -> Seq(Event)]
    BY <1>a, <1>16, <2>1, <2>2, ForwardType DEF TypeOK, ServerItem
  <2>4. emitted' \in [Turns -> 0 .. MaxItems]
    BY <1>a, <1>16 DEF TypeOK, ServerItem
  <2> QED
    BY <1>a, <1>16, <2>1, <2>2, <2>3, <2>4 DEF TypeOK, ServerItem
<1>17. ASSUME NEW t \in Turns, NEW o \in {"ok", "err"}, ServerEnd(t, o) PROVE TypeOK'
  <2>1. thread[t] \in Threads
    BY <1>a, <1>17 DEF TypeOK, ServerEnd, ThreadKnown
  <2>2. Message(o, t, 0) \in Event
    BY <1>a, <1>17 DEF TypeOK, Message, Event
  <2>3. events' \in [Turns -> Seq(Event)]
    BY <1>a, <1>17, <2>1, <2>2, ForwardType DEF TypeOK, ServerEnd, CompleteTurn
  <2>4. completion' \in [Turns -> {"empty", "ok", "err"}]
    BY <1>a, <1>17 DEF TypeOK, ServerEnd, CompleteTurn, Receiving, Message
  <2>5. server' \in [Turns -> {"none", "running", "asking", "ok", "err"}]
    BY <1>a, <1>17 DEF TypeOK, ServerEnd
  <2> QED
    BY <1>a, <1>17, <2>1, <2>2, <2>3, <2>4, <2>5 DEF TypeOK, ServerEnd
<1>18. ASSUME NEW t \in Turns, ServerAsk(t) PROVE TypeOK'
  <2>1. thread[t] \in Threads
    BY <1>a, <1>18 DEF TypeOK, ServerAsk, ThreadKnown
  <2>2. pending_interactions' \subseteq Interaction
    BY <1>a, <1>18, <2>1 DEF TypeOK, ServerAsk, Interaction
  <2>3. asked' \in [Tokens -> Turns \cup {NoTurn}]
    BY <1>a, <1>18 DEF TypeOK, ServerAsk
  <2>4. next_interaction_id' \in 1 .. MaxInteractions + 1
    BY <1>a, <1>18 DEF TypeOK, ServerAsk, Tokens
  <2> QED
    BY <1>a, <1>18, <2>1, <2>2, <2>3, <2>4 DEF TypeOK, ServerAsk
<1>19. CASE ForwardInteraction
  <2>1. next_interaction_id - 1 \in Tokens /\ asked[next_interaction_id - 1] \in Turns
    BY <1>a, <1>19 DEF TypeOK, ForwardInteraction, Forwarding
  <2>2. thread[asked[next_interaction_id - 1]] \in Threads
    BY <1>a, <1>19 DEF TypeOK, ForwardInteraction, Forwarding, Runs, ThreadKnown
  <2>3. Message("pending", asked[next_interaction_id - 1], next_interaction_id - 1) \in Event
    BY <1>a, <1>19, <2>1 DEF TypeOK, Message, Event, Tokens
  <2>4. events' \in [Turns -> Seq(Event)]
    BY <1>a, <1>19, <2>2, <2>3, ForwardType DEF TypeOK, ForwardInteraction
  <2> QED
    BY <1>a, <1>19, <2>1, <2>2, <2>3, <2>4 DEF TypeOK, ForwardInteraction
<1>20. CASE ReaderFails
  BY <1>a, <1>20 DEF TypeOK, ReaderFails, FailAllActiveTurns
<1>21. CASE WriterSends
  <2>1. outbound' \in Seq(Outgoing) /\ Head(outbound) \in Outgoing
    BY <1>a, <1>21 DEF TypeOK, WriterSends
  <2>2. received' \subseteq Calls
    BY <1>a, <1>21, <2>1 DEF TypeOK, WriterSends, Deliver, Outgoing, Call, Calls, Methods
  <2>3. server' \in [Turns -> {"none", "running", "asking", "ok", "err"}]
    <3>1. CASE Head(outbound).kind = "turn"
      <4>1. \/ server' = server
            \/ server' = [server EXCEPT ![Head(outbound).turn] = "running"]
        BY <1>21, <3>1 DEF WriterSends, Deliver
      <4> QED
        BY <1>a, <4>1 DEF TypeOK
    <3>2. CASE Head(outbound).kind = "answer"
      <4>1. \/ server' = server
            \/ server' = [w \in Turns |-> IF WaitsFor(w, Head(outbound).n)
                                            THEN "running" ELSE server[w]]
        BY <1>21, <3>2 DEF WriterSends, Deliver
      <4> QED
        BY <1>a, <4>1 DEF TypeOK
    <3>3. CASE Head(outbound).kind = "thread"
      BY <1>a, <1>21, <3>3 DEF TypeOK, WriterSends, Deliver
    <3> QED
      BY <1>a, <1>21, <3>1, <3>2, <3>3 DEF TypeOK, WriterSends, Deliver
  <2> QED
    BY <1>a, <1>21, <2>1, <2>2, <2>3 DEF TypeOK, WriterSends
<1>22. CASE WriterFails
  BY <1>a, <1>22 DEF TypeOK, WriterFails, FailAllActiveTurns
<1>23. CASE WriterEnds
  BY <1>a, <1>23 DEF TypeOK, WriterEnds
<1>24. CASE LinkLost
  BY <1>a, <1>24 DEF TypeOK, LinkLost
<1> QED
  BY <1>1, <1>2, <1>3, <1>4, <1>5, <1>6, <1>7, <1>8, <1>9, <1>10, <1>11, <1>12,
     <1>13, <1>14, <1>15, <1>16, <1>17, <1>18, <1>19, <1>20, <1>21, <1>22, <1>23, <1>24
  DEF Next, TurnStep, ResponderStep, ServerStep, ReaderStep, WriterStep

(* A turn keeps knowing its thread from the reply of call() on.            *)
LEMMA ThreadStep == ASSUME Basics, [Next]_vars PROVE ThreadKnown'
<1> USE AppServerAssumption DEF connVars, mapVars, askVars, turnVars, serverVars,
           historyVars, Goto, Return
<1>a. /\ pc \in [Turns -> TurnStates] /\ thread \in [Turns -> Threads \cup {NoThread}]
      /\ reply \in [Turns -> {"none", "ok", "err"}]
      /\ server \in [Turns -> {"none", "running", "asking", "ok", "err"}]
      /\ outbound \in Seq(Outgoing) /\ received \subseteq Calls
      /\ timedOut \subseteq Turns /\ known \subseteq Threads
      /\ ThreadKnown
  BY DEF Basics, TypeOK
<1>b. /\ \A m \in Queued : m.kind # "answer" => m.turn \in Turns
      /\ \A c \in received : c.turn \in Turns
  BY <1>a, QueuedType DEF Outgoing, Calls
<1>c. UNCHANGED outbound => UNCHANGED Queued
  BY DEF Queued
<1>1. CASE UNCHANGED vars
  BY <1>a, <1>b, <1>c, <1>1 DEF ThreadKnown, Holding, vars
<1>2. ASSUME NEW t \in Turns, NEW s \in Sessions, BeginTurn(t, s) PROVE ThreadKnown'
  <2>1. Queued' \subseteq Queued \cup {Message("thread", t, 0)}
    BY <1>a, <1>c, <1>2, SendQueued DEF BeginTurn, StartCall
  <2> QED
    BY <1>a, <1>b, <1>2, <2>1
    DEF ThreadKnown, Holding, BeginTurn, Sessions, StartCall, Message
<1>3. ASSUME NEW t \in Turns, ThreadReply(t) PROVE ThreadKnown'
  BY <1>a, <1>b, <1>c, <1>3 DEF ThreadKnown, Holding, ThreadReply
<1>4. ASSUME NEW t \in Turns, Register(t) PROVE ThreadKnown'
  BY <1>a, <1>b, <1>c, <1>4 DEF ThreadKnown, Holding, Register
<1>5. ASSUME NEW t \in Turns, StartTurn(t) PROVE ThreadKnown'
  <2>1. Queued' \subseteq Queued \cup {Message("turn", t, 0)}
    BY <1>a, <1>c, <1>5, SendQueued DEF StartTurn, StartCall
  <2> QED
    BY <1>a, <1>b, <1>5, <2>1 DEF ThreadKnown, Holding, StartTurn, StartCall, Message
<1>6. ASSUME NEW t \in Turns, TurnReply(t) PROVE ThreadKnown'
  BY <1>a, <1>b, <1>c, <1>6 DEF ThreadKnown, Holding, TurnReply
<1>7. ASSUME NEW t \in Turns, CallTimeout(t) PROVE ThreadKnown'
  BY <1>a, <1>b, <1>c, <1>7 DEF ThreadKnown, Holding, CallTimeout
<1>8. ASSUME NEW t \in Turns, LoopEvent(t) PROVE ThreadKnown'
  BY <1>a, <1>b, <1>c, <1>8 DEF ThreadKnown, Holding, LoopEvent
<1>9. ASSUME NEW t \in Turns, LoopCompletion(t) PROVE ThreadKnown'
  BY <1>a, <1>b, <1>c, <1>9 DEF ThreadKnown, Holding, LoopCompletion
<1>10. ASSUME NEW t \in Turns, LoopClosed(t) PROVE ThreadKnown'
  BY <1>a, <1>b, <1>c, <1>10 DEF ThreadKnown, Holding, LoopClosed
<1>11. ASSUME NEW t \in Turns, Unregister(t) PROVE ThreadKnown'
  BY <1>a, <1>b, <1>c, <1>11 DEF ThreadKnown, Holding, Unregister
<1>12. ASSUME NEW r \in Responders, NEW p \in pending_interactions, NEW fits \in BOOLEAN,
             Lookup(r, p, fits)
      PROVE  ThreadKnown'
  BY <1>a, <1>b, <1>c, <1>12 DEF ThreadKnown, Holding, Lookup, Interaction, Tokens
<1>13. ASSUME NEW r \in Responders, SendAnswer(r) PROVE ThreadKnown'
  <2>1. Queued' \subseteq Queued \cup {Message("answer", NoTurn, responder[r].token)}
    BY <1>a, <1>c, <1>13, SendQueued DEF SendAnswer
  <2> QED
    BY <1>a, <1>b, <1>13, <2>1 DEF ThreadKnown, Holding, SendAnswer, Message
<1>14. ASSUME NEW r \in Responders, RemoveAnswered(r) PROVE ThreadKnown'
  BY <1>a, <1>b, <1>c, <1>14 DEF ThreadKnown, Holding, RemoveAnswered, Idle
<1>15. ASSUME NEW t \in Turns, NEW m \in Methods,
             ServerReply(Call(t, m))
      PROVE  ThreadKnown'
  BY <1>a, <1>b, <1>c, <1>15 DEF ThreadKnown, Holding, ServerReply, Call, Calls, Answered, Awaits, Methods
<1>16. ASSUME NEW t \in Turns, ServerItem(t) PROVE ThreadKnown'
  BY <1>a, <1>b, <1>c, <1>16 DEF ThreadKnown, Holding, ServerItem, Forward, Receiving, Message, Event
<1>17. ASSUME NEW t \in Turns, NEW o \in {"ok", "err"}, ServerEnd(t, o) PROVE ThreadKnown'
  BY <1>a, <1>b, <1>c, <1>17 DEF ThreadKnown, Holding, ServerEnd, CompleteTurn, Forward, Receiving, Message, Event
<1>18. ASSUME NEW t \in Turns, ServerAsk(t) PROVE ThreadKnown'
  BY <1>a, <1>b, <1>c, <1>18 DEF ThreadKnown, Holding, ServerAsk, Interaction, Tokens
<1>19. CASE ForwardInteraction
  BY <1>a, <1>b, <1>c, <1>19 DEF ThreadKnown, Holding, ForwardInteraction, Forward, Receiving, Message, Event, Tokens
<1>20. CASE ReaderFails
  BY <1>a, <1>b, <1>c, <1>20 DEF ThreadKnown, Holding, ReaderFails, FailAllActiveTurns
<1>21. CASE WriterSends
  <2>1. Head(outbound) \in Queued /\ Queued' \subseteq Queued
    BY <1>a, <1>21, PopQueued DEF WriterSends
  <2> QED
    BY <1>a, <1>b, <1>21, <2>1
    DEF ThreadKnown, Holding, WriterSends, Deliver, WaitsFor, Call
<1>22. CASE WriterFails
  <2>1. Queued' \subseteq Queued
    BY <1>a, <1>22, PopQueued DEF WriterFails
  <2> QED
    BY <1>a, <1>b, <1>22, <2>1 DEF ThreadKnown, Holding, WriterFails
<1>23. CASE WriterEnds
  <2>1. Queued' = {}
    BY <1>23 DEF WriterEnds, Queued
  <2> QED
    BY <1>a, <1>b, <1>23, <2>1 DEF ThreadKnown, Holding, WriterEnds
<1>24. CASE LinkLost
  BY <1>a, <1>b, <1>c, <1>24 DEF ThreadKnown, Holding, LinkLost
<1> QED
  BY <1>1, <1>2, <1>3, <1>4, <1>5, <1>6, <1>7, <1>8, <1>9, <1>10, <1>11, <1>12,
     <1>13, <1>14, <1>15, <1>16, <1>17, <1>18, <1>19, <1>20, <1>21, <1>22, <1>23, <1>24
  DEF Next, TurnStep, ResponderStep, ServerStep, ReaderStep, WriterStep

(* The reader only waits to forward an interaction the server asked for.   *)
LEMMA ForwardingStep == ASSUME Basics, [Next]_vars PROVE Forwarding'
<1> USE AppServerAssumption DEF Basics, TypeOK, Forwarding, Runs, connVars, mapVars, askVars,
           turnVars, serverVars, historyVars, Goto, Return
<1>1. CASE UNCHANGED vars
  BY <1>1 DEF vars
<1>2. ASSUME NEW t \in Turns, NEW s \in Sessions, BeginTurn(t, s) PROVE Forwarding'
  BY <1>2 DEF BeginTurn, Sessions, StartCall, CanSend, Send, Call, Calls, Message, Outgoing, Methods
<1>3. ASSUME NEW t \in Turns, ThreadReply(t) PROVE Forwarding'
  BY <1>3 DEF ThreadReply
<1>4. ASSUME NEW t \in Turns, Register(t) PROVE Forwarding'
  BY <1>4 DEF Register
<1>5. ASSUME NEW t \in Turns, StartTurn(t) PROVE Forwarding'
  BY <1>5 DEF StartTurn, StartCall, CanSend, Send, Call, Calls, Message, Outgoing, Methods
<1>6. ASSUME NEW t \in Turns, TurnReply(t) PROVE Forwarding'
  BY <1>6 DEF TurnReply
<1>7. ASSUME NEW t \in Turns, CallTimeout(t) PROVE Forwarding'
  BY <1>7 DEF CallTimeout
<1>8. ASSUME NEW t \in Turns, LoopEvent(t) PROVE Forwarding'
  BY <1>8 DEF LoopEvent
<1>9. ASSUME NEW t \in Turns, LoopCompletion(t) PROVE Forwarding'
  BY <1>9 DEF LoopCompletion
<1>10. ASSUME NEW t \in Turns, LoopClosed(t) PROVE Forwarding'
  BY <1>10 DEF LoopClosed
<1>11. ASSUME NEW t \in Turns, Unregister(t) PROVE Forwarding'
  BY <1>11 DEF Unregister
<1>12. ASSUME NEW r \in Responders, NEW p \in pending_interactions, NEW fits \in BOOLEAN,
             Lookup(r, p, fits)
      PROVE  Forwarding'
  BY <1>12 DEF Lookup, Interaction, Tokens
<1>13. ASSUME NEW r \in Responders, SendAnswer(r) PROVE Forwarding'
  BY <1>13 DEF SendAnswer, CanSend, Send, Message, Outgoing, Tokens, Idle
<1>14. ASSUME NEW r \in Responders, RemoveAnswered(r) PROVE Forwarding'
  BY <1>14 DEF RemoveAnswered, Idle
<1>15. ASSUME NEW t \in Turns, NEW m \in Methods,
             ServerReply(Call(t, m))
      PROVE  Forwarding'
  BY <1>15 DEF ServerReply, Call, Calls, Answered, Awaits, Methods
<1>16. ASSUME NEW t \in Turns, ServerItem(t) PROVE Forwarding'
  BY <1>16 DEF ServerItem, Forward, Receiving, Message, Event
<1>17. ASSUME NEW t \in Turns, NEW o \in {"ok", "err"}, ServerEnd(t, o) PROVE Forwarding'
  BY <1>17 DEF ServerEnd, CompleteTurn, Forward, Receiving, Message, Event
<1>18. ASSUME NEW t \in Turns, ServerAsk(t) PROVE Forwarding'
  BY <1>18 DEF ServerAsk, Interaction, Tokens
<1>19. CASE ForwardInteraction
  BY <1>19 DEF ForwardInteraction, Forward, Receiving, Message, Event, Tokens
<1>20. CASE ReaderFails
  BY <1>20 DEF ReaderFails, FailAllActiveTurns
<1>21. CASE WriterSends
  <2> DEFINE m == Head(outbound)
  <2>1. \/ server' = server
        \/ server' = [t \in Turns |-> IF WaitsFor(t, m.n) THEN "running" ELSE server[t]]
        \/ server' = [server EXCEPT ![m.turn] = "running"]
    BY <1>21 DEF WriterSends, Deliver
  <2> HIDE DEF m
  <2>2. \A t \in Turns : Runs(t) => Runs(t)'
    BY <2>1 DEF Runs
  <2> HIDE DEF Runs
  <2> QED
    BY <1>21, <2>2 DEF WriterSends
<1>22. CASE WriterFails
  BY <1>22 DEF WriterFails, FailAllActiveTurns
<1>23. CASE WriterEnds
  BY <1>23 DEF WriterEnds
<1>24. CASE LinkLost
  BY <1>24 DEF LinkLost
<1> QED
  BY <1>1, <1>2, <1>3, <1>4, <1>5, <1>6, <1>7, <1>8, <1>9, <1>10, <1>11, <1>12,
     <1>13, <1>14, <1>15, <1>16, <1>17, <1>18, <1>19, <1>20, <1>21, <1>22, <1>23, <1>24
  DEF Next, TurnStep, ResponderStep, ServerStep, ReaderStep, WriterStep

(* Tokens stay those that were handed out: stored, asked, held by a caller. *)
LEMMA TokenStep == ASSUME Basics, [Next]_vars PROVE TokenKnown'
<1> USE AppServerAssumption DEF Basics, TypeOK, TokenKnown, connVars, mapVars, askVars,
           turnVars, serverVars, historyVars, Goto, Return
<1>1. CASE UNCHANGED vars
  BY <1>1 DEF vars
<1>2. ASSUME NEW t \in Turns, NEW s \in Sessions, BeginTurn(t, s) PROVE TokenKnown'
  BY <1>2 DEF BeginTurn, Sessions, StartCall, CanSend, Send, Call, Calls, Message, Outgoing, Methods
<1>3. ASSUME NEW t \in Turns, ThreadReply(t) PROVE TokenKnown'
  BY <1>3 DEF ThreadReply
<1>4. ASSUME NEW t \in Turns, Register(t) PROVE TokenKnown'
  BY <1>4 DEF Register
<1>5. ASSUME NEW t \in Turns, StartTurn(t) PROVE TokenKnown'
  BY <1>5 DEF StartTurn, StartCall, CanSend, Send, Call, Calls, Message, Outgoing, Methods
<1>6. ASSUME NEW t \in Turns, TurnReply(t) PROVE TokenKnown'
  BY <1>6 DEF TurnReply
<1>7. ASSUME NEW t \in Turns, CallTimeout(t) PROVE TokenKnown'
  BY <1>7 DEF CallTimeout
<1>8. ASSUME NEW t \in Turns, LoopEvent(t) PROVE TokenKnown'
  BY <1>8 DEF LoopEvent
<1>9. ASSUME NEW t \in Turns, LoopCompletion(t) PROVE TokenKnown'
  BY <1>9 DEF LoopCompletion
<1>10. ASSUME NEW t \in Turns, LoopClosed(t) PROVE TokenKnown'
  BY <1>10 DEF LoopClosed
<1>11. ASSUME NEW t \in Turns, Unregister(t) PROVE TokenKnown'
  BY <1>11 DEF Unregister
<1>12. ASSUME NEW r \in Responders, NEW p \in pending_interactions, NEW fits \in BOOLEAN,
             Lookup(r, p, fits)
      PROVE  TokenKnown'
  BY <1>12 DEF Lookup, Interaction, Tokens
<1>13. ASSUME NEW r \in Responders, SendAnswer(r) PROVE TokenKnown'
  <2>1. DOMAIN responder = Responders /\ responder[r].token \in Tokens
    BY <1>13 DEF SendAnswer
  <2>2. \/ responder' = [responder EXCEPT ![r] = [responder[r] EXCEPT !.state = "sent"]]
        \/ responder' = [responder EXCEPT ![r] = Idle]
    BY <1>13 DEF SendAnswer
  <2>3. Idle.state = "idle"
    BY DEF Idle
  <2>4. [responder[r] EXCEPT !.state = "sent"].token = responder[r].token
    OBVIOUS
  <2> QED
    BY <2>1, <2>2, <2>3, <2>4
<1>14. ASSUME NEW r \in Responders, RemoveAnswered(r) PROVE TokenKnown'
  BY <1>14 DEF RemoveAnswered, Idle
<1>15. ASSUME NEW t \in Turns, NEW m \in Methods,
             ServerReply(Call(t, m))
      PROVE  TokenKnown'
  BY <1>15 DEF ServerReply, Call, Calls, Answered, Awaits, Methods
<1>16. ASSUME NEW t \in Turns, ServerItem(t) PROVE TokenKnown'
  BY <1>16 DEF ServerItem, Forward, Receiving, Message, Event
<1>17. ASSUME NEW t \in Turns, NEW o \in {"ok", "err"}, ServerEnd(t, o) PROVE TokenKnown'
  BY <1>17 DEF ServerEnd, CompleteTurn, Forward, Receiving, Message, Event
<1>18. ASSUME NEW t \in Turns, ServerAsk(t) PROVE TokenKnown'
  BY <1>18 DEF ServerAsk, Interaction, Tokens
<1>19. CASE ForwardInteraction
  BY <1>19 DEF ForwardInteraction, Forward, Receiving, Message, Event, Tokens
<1>20. CASE ReaderFails
  BY <1>20 DEF ReaderFails, FailAllActiveTurns
<1>21. CASE WriterSends
  BY <1>21 DEF WriterSends, Deliver, WaitsFor, Outgoing, Call, Calls, Methods
<1>22. CASE WriterFails
  BY <1>22 DEF WriterFails, FailAllActiveTurns
<1>23. CASE WriterEnds
  BY <1>23 DEF WriterEnds
<1>24. CASE LinkLost
  BY <1>24 DEF LinkLost
<1> QED
  BY <1>1, <1>2, <1>3, <1>4, <1>5, <1>6, <1>7, <1>8, <1>9, <1>10, <1>11, <1>12,
     <1>13, <1>14, <1>15, <1>16, <1>17, <1>18, <1>19, <1>20, <1>21, <1>22, <1>23, <1>24
  DEF Next, TurnStep, ResponderStep, ServerStep, ReaderStep, WriterStep

(* What every other proof relies on.                                       *)
LEMMA BasicsHold == Spec => []Basics
<1>1. Basics /\ [Next]_vars => Basics'
  BY TypeStep, ThreadStep, ForwardingStep, TokenStep DEF Basics
<1> QED
  BY <1>1, BasicsInit, PTL DEF Spec

(* The types hold whatever the tasks, the link and the server do.          *)
THEOREM TypeCorrect == Spec => []TypeOK
<1>1. Basics => TypeOK
  BY DEF Basics
<1> QED
  BY <1>1, BasicsHold, PTL

(* The handle a turn relies on is its own until the connection fails.      *)
LEMMA HandleStep == ASSUME Basics, HandleKept, [Next]_vars PROVE HandleKept'
<1> USE AppServerAssumption DEF Intact, HandleKept, Holding,
            connVars, mapVars, askVars, turnVars, serverVars,
           historyVars, Goto, Return
<1>a. /\ pc \in [Turns -> TurnStates]
      /\ active_turns \in [Threads -> Turns \cup {NoTurn}]
      /\ thread \in [Turns -> Threads \cup {NoThread}]
      /\ writer \in {"up", "failing", "down"}
      /\ \A u \in Turns : pc[u] \in {"register"} \cup Holding => thread[u] \in Threads
      /\ \A u \in Turns : pc[u] = "idle" => thread[u] = NoThread
  BY DEF Basics, TypeOK, ThreadKnown
<1>1. CASE UNCHANGED vars
  BY <1>a, <1>1 DEF vars
<1>2. ASSUME NEW t \in Turns, NEW s \in Sessions, BeginTurn(t, s) PROVE HandleKept'
  BY <1>a, <1>2 DEF BeginTurn
<1>3. ASSUME NEW t \in Turns, ThreadReply(t) PROVE HandleKept'
  BY <1>a, <1>3 DEF ThreadReply
<1>4. ASSUME NEW t \in Turns, Register(t) PROVE HandleKept'
  BY <1>a, <1>4 DEF Register
<1>5. ASSUME NEW t \in Turns, StartTurn(t) PROVE HandleKept'
  BY <1>a, <1>5 DEF StartTurn
<1>6. ASSUME NEW t \in Turns, TurnReply(t) PROVE HandleKept'
  BY <1>a, <1>6 DEF TurnReply
<1>7. ASSUME NEW t \in Turns, CallTimeout(t) PROVE HandleKept'
  BY <1>a, <1>7 DEF CallTimeout
<1>8. ASSUME NEW t \in Turns, LoopEvent(t) PROVE HandleKept'
  BY <1>a, <1>8 DEF LoopEvent
<1>9. ASSUME NEW t \in Turns, LoopCompletion(t) PROVE HandleKept'
  BY <1>a, <1>9 DEF LoopCompletion
<1>10. ASSUME NEW t \in Turns, LoopClosed(t) PROVE HandleKept'
  BY <1>a, <1>10 DEF LoopClosed
<1>11. ASSUME NEW t \in Turns, Unregister(t) PROVE HandleKept'
  BY <1>a, <1>11 DEF Unregister
<1>12. ASSUME NEW r \in Responders, NEW p \in pending_interactions, NEW fits \in BOOLEAN,
             Lookup(r, p, fits)
      PROVE  HandleKept'
  BY <1>a, <1>12 DEF Lookup
<1>13. ASSUME NEW r \in Responders, SendAnswer(r) PROVE HandleKept'
  BY <1>a, <1>13 DEF SendAnswer
<1>14. ASSUME NEW r \in Responders, RemoveAnswered(r) PROVE HandleKept'
  BY <1>a, <1>14 DEF RemoveAnswered
<1>15. ASSUME NEW t \in Turns, NEW m \in Methods,
             ServerReply(Call(t, m))
      PROVE  HandleKept'
  BY <1>a, <1>15 DEF ServerReply
<1>16. ASSUME NEW t \in Turns, ServerItem(t) PROVE HandleKept'
  BY <1>a, <1>16 DEF ServerItem
<1>17. ASSUME NEW t \in Turns, NEW o \in {"ok", "err"}, ServerEnd(t, o) PROVE HandleKept'
  BY <1>a, <1>17 DEF ServerEnd
<1>18. ASSUME NEW t \in Turns, ServerAsk(t) PROVE HandleKept'
  BY <1>a, <1>18 DEF ServerAsk
<1>19. CASE ForwardInteraction
  BY <1>a, <1>19 DEF ForwardInteraction
<1>20. CASE ReaderFails
  BY <1>a, <1>20 DEF ReaderFails
<1>21. CASE WriterSends
  BY <1>a, <1>21 DEF WriterSends
<1>22. CASE WriterFails
  BY <1>a, <1>22 DEF WriterFails
<1>23. CASE WriterEnds
  BY <1>a, <1>23 DEF WriterEnds
<1>24. CASE LinkLost
  BY <1>a, <1>24 DEF LinkLost
<1> QED
  BY <1>1, <1>2, <1>3, <1>4, <1>5, <1>6, <1>7, <1>8, <1>9, <1>10, <1>11, <1>12,
     <1>13, <1>14, <1>15, <1>16, <1>17, <1>18, <1>19, <1>20, <1>21, <1>22, <1>23, <1>24
  DEF Next, TurnStep, ResponderStep, ServerStep, ReaderStep, WriterStep

(* Until the connection fails, no unregister_active_turn, which removes by *)
(* thread id, takes away the handle another turn relies on.                *)
THEOREM HandleKeptAlways == Spec => []HandleKept
<1>1. Init => HandleKept
  BY DEF Init, HandleKept, Holding
<1>2. Basics /\ HandleKept /\ [Next]_vars => HandleKept'
  BY HandleStep
<1> QED
  BY <1>1, <1>2, BasicsHold, PTL DEF Spec

(* A responder about to remove an entry has sent an answer to it.          *)
AnswerSent ==
  \A r \in Responders : responder[r].state = "sent" => answers[responder[r].token] > 0

Requests == RequestsKept /\ AnswerSent

(* No step of any task drops a stored request that was not answered.       *)
LEMMA RequestsStep == ASSUME Basics, Requests, [Next]_vars PROVE Requests'
<1> USE AppServerAssumption DEF connVars, mapVars, askVars, turnVars, serverVars,
           historyVars, Goto, Return
<1>a. /\ pending_interactions \subseteq Interaction
      /\ responder \in [Responders -> [state : {"idle", "found", "sent"},
                                       token : 0 .. MaxInteractions, fits : BOOLEAN]]
      /\ next_interaction_id \in 1 .. MaxInteractions + 1
      /\ answers \in [Tokens -> Nat] /\ TokenKnown
  BY DEF Basics, TypeOK
<1>1. CASE UNCHANGED vars
  BY <1>a, <1>1 DEF Requests, RequestsKept, AnswerSent, vars
<1>2. ASSUME NEW t \in Turns, NEW s \in Sessions, BeginTurn(t, s) PROVE Requests'
  BY <1>a, <1>2 DEF Requests, RequestsKept, AnswerSent, BeginTurn
<1>3. ASSUME NEW t \in Turns, ThreadReply(t) PROVE Requests'
  BY <1>a, <1>3 DEF Requests, RequestsKept, AnswerSent, ThreadReply
<1>4. ASSUME NEW t \in Turns, Register(t) PROVE Requests'
  BY <1>a, <1>4 DEF Requests, RequestsKept, AnswerSent, Register
<1>5. ASSUME NEW t \in Turns, StartTurn(t) PROVE Requests'
  BY <1>a, <1>5 DEF Requests, RequestsKept, AnswerSent, StartTurn
<1>6. ASSUME NEW t \in Turns, TurnReply(t) PROVE Requests'
  BY <1>a, <1>6 DEF Requests, RequestsKept, AnswerSent, TurnReply
<1>7. ASSUME NEW t \in Turns, CallTimeout(t) PROVE Requests'
  BY <1>a, <1>7 DEF Requests, RequestsKept, AnswerSent, CallTimeout
<1>8. ASSUME NEW t \in Turns, LoopEvent(t) PROVE Requests'
  BY <1>a, <1>8 DEF Requests, RequestsKept, AnswerSent, LoopEvent
<1>9. ASSUME NEW t \in Turns, LoopCompletion(t) PROVE Requests'
  BY <1>a, <1>9 DEF Requests, RequestsKept, AnswerSent, LoopCompletion
<1>10. ASSUME NEW t \in Turns, LoopClosed(t) PROVE Requests'
  BY <1>a, <1>10 DEF Requests, RequestsKept, AnswerSent, LoopClosed
<1>11. ASSUME NEW t \in Turns, Unregister(t) PROVE Requests'
  BY <1>a, <1>11 DEF Requests, RequestsKept, AnswerSent, Unregister
<1>12. ASSUME NEW r \in Responders, NEW p \in pending_interactions, NEW fits \in BOOLEAN,
             Lookup(r, p, fits)
      PROVE  Requests'
  BY <1>a, <1>12 DEF Requests, RequestsKept, AnswerSent, Lookup
<1>13. ASSUME NEW r \in Responders, SendAnswer(r) PROVE Requests'
  <2>1. DOMAIN responder = Responders /\ responder[r].token \in Tokens
    BY <1>a, <1>13 DEF SendAnswer, TokenKnown
  <2>2. CASE answers' = answers /\ responder' = [responder EXCEPT ![r] = Idle]
    <3>1. Idle.state = "idle"
      BY DEF Idle
    <3> QED
      BY <1>13, <2>1, <2>2, <3>1 DEF Requests, RequestsKept, AnswerSent, SendAnswer
  <2>3. CASE /\ answers' = [answers EXCEPT ![responder[r].token] = @ + 1]
             /\ responder' = [responder EXCEPT ![r] = [responder[r] EXCEPT !.state = "sent"]]
    <3>1. \A k \in Tokens : answers[k] > 0 => answers'[k] > 0
      BY <1>a, <2>1, <2>3
    <3>2. answers'[responder[r].token] > 0
      BY <1>a, <2>1, <2>3
    <3>3. RequestsKept'
      <4>1. \A k \in 1 .. next_interaction_id - 1 : k \in Tokens /\ answers[k] \in Nat
        BY <1>a DEF Tokens
      <4>2. \A k \in Tokens : answers'[k] = 0 => answers[k] = 0
        BY <1>a, <2>1, <2>3
      <4> QED
        BY <1>13, <4>1, <4>2 DEF Requests, RequestsKept, SendAnswer
    <3>4. [responder[r] EXCEPT !.state = "sent"].token = responder[r].token
      OBVIOUS
    <3>5. \A q \in Responders : responder'[q].state = "sent" =>
            /\ responder'[q].token = responder[q].token
            /\ q = r \/ responder[q].state = "sent"
      BY <2>1, <2>3, <3>4
    <3>6. \A q \in Responders : responder[q].state = "sent" =>
            responder[q].token \in Tokens
      BY <1>a DEF TokenKnown
    <3>7. AnswerSent'
      BY <3>1, <3>2, <3>5, <3>6 DEF Requests, AnswerSent
    <3> QED
      BY <3>3, <3>7 DEF Requests
  <2> QED
    BY <1>13, <2>2, <2>3 DEF SendAnswer
<1>14. ASSUME NEW r \in Responders, RemoveAnswered(r) PROVE Requests'
  BY <1>a, <1>14 DEF Requests, RequestsKept, AnswerSent, RemoveAnswered, Idle
<1>15. ASSUME NEW t \in Turns, NEW m \in Methods, ServerReply(Call(t, m)) PROVE Requests'
  BY <1>a, <1>15 DEF Requests, RequestsKept, AnswerSent, ServerReply
<1>16. ASSUME NEW t \in Turns, ServerItem(t) PROVE Requests'
  BY <1>a, <1>16 DEF Requests, RequestsKept, AnswerSent, ServerItem
<1>17. ASSUME NEW t \in Turns, NEW o \in {"ok", "err"}, ServerEnd(t, o) PROVE Requests'
  BY <1>a, <1>17 DEF Requests, RequestsKept, AnswerSent, ServerEnd
<1>18. ASSUME NEW t \in Turns, ServerAsk(t) PROVE Requests'
  <2>1. 1 .. next_interaction_id' - 1
          = (1 .. next_interaction_id - 1) \cup {next_interaction_id}
    BY <1>a, <1>18 DEF ServerAsk
  <2>2. AnswerSent'
    BY <1>18 DEF Requests, AnswerSent, ServerAsk
  <2>3. \E p \in pending_interactions' : p.token = next_interaction_id
    <3>1. [token |-> next_interaction_id, thread |-> thread[t]] \in pending_interactions'
      BY <1>18 DEF ServerAsk
    <3> QED
      BY <3>1
  <2>4. pending_interactions \subseteq pending_interactions' /\ UNCHANGED answers
    BY <1>18 DEF ServerAsk
  <2>5. RequestsKept'
    BY <2>1, <2>3, <2>4 DEF Requests, RequestsKept
  <2> QED
    BY <2>2, <2>5 DEF Requests
<1>19. CASE ForwardInteraction
  BY <1>a, <1>19 DEF Requests, RequestsKept, AnswerSent, ForwardInteraction
<1>20. CASE ReaderFails
  BY <1>a, <1>20 DEF Requests, RequestsKept, AnswerSent, ReaderFails
<1>21. CASE WriterSends
  BY <1>a, <1>21 DEF Requests, RequestsKept, AnswerSent, WriterSends
<1>22. CASE WriterFails
  BY <1>a, <1>22 DEF Requests, RequestsKept, AnswerSent, WriterFails
<1>23. CASE WriterEnds
  BY <1>a, <1>23 DEF Requests, RequestsKept, AnswerSent, WriterEnds
<1>24. CASE LinkLost
  BY <1>a, <1>24 DEF Requests, RequestsKept, AnswerSent, LinkLost
<1> QED
  BY <1>1, <1>2, <1>3, <1>4, <1>5, <1>6, <1>7, <1>8, <1>9, <1>10, <1>11, <1>12,
     <1>13, <1>14, <1>15, <1>16, <1>17, <1>18, <1>19, <1>20, <1>21, <1>22, <1>23, <1>24
  DEF Next, TurnStep, ResponderStep, ServerStep, ReaderStep, WriterStep

(* However responders and reader interleave and whatever fails, a request  *)
(* of the server is only dropped once an answer to it was sent.            *)
THEOREM RequestsKeptAlways == Spec => []RequestsKept
<1>1. Init => Requests
  BY DEF Init, Requests, RequestsKept, AnswerSent, Idle
<1>2. Basics /\ Requests /\ [Next]_vars => Requests'
  BY RequestsStep
<1>3. Requests => RequestsKept
  BY DEF Requests
<1> QED
  BY <1>1, <1>2, <1>3, BasicsHold, PTL DEF Spec

-----------------------------------------------------------------------------
(* One turn of a thread at a time, and its events are its own.             *)

(* The turn/start calls on their way to the server.                        *)
Asks(o, i, t) == o[i].kind = "turn" /\ o[i].turn = t
InLine(o, t)  == \E i \in 1 .. Len(o) : Asks(o, i, t)
Once(o, t)    == \A i, j \in 1 .. Len(o) : Asks(o, i, t) /\ Asks(o, j, t) => i = j

Early == {"idle", "thread_rpc", "register", "start"}

(* A turn asks the server once, while it waits for the response, and what  *)
(* it was told of a refusal is so.                                         *)
AsksOnce(t) ==
  /\ InLine(outbound, t) \/ Call(t, "turn") \in received =>
       \/ pc[t] = "turn_rpc" /\ reply[t] = "none"
       \/ t \in timedOut
  /\ InLine(outbound, t) => server[t] = "none" /\ Call(t, "turn") \notin received
  /\ Once(outbound, t)
  /\ t \in timedOut => pc[t] \in {"unregister", "done"}
  /\ pc[t] \in Early => server[t] = "none"
  /\ pc[t] = "turn_rpc" /\ reply[t] = "err" => server[t] = "none"

CallsOnce == \A t \in Turns : AsksOnce(t)

(* One more message, and one less.                                         *)
LEMMA Join ==
  ASSUME NEW o \in Seq(Outgoing), NEW m, NEW t
  PROVE  LET p == Append(o, m)
             mine == m.kind = "turn" /\ m.turn = t
         IN  /\ InLine(p, t) <=> InLine(o, t) \/ mine
             /\ Once(o, t) /\ ~(InLine(o, t) /\ mine) => Once(p, t)
<1> DEFINE p == Append(o, m)
           mine == m.kind = "turn" /\ m.turn = t
<1>1. /\ Len(o) \in Nat /\ Len(p) = Len(o) + 1 /\ p[Len(o) + 1] = m
      /\ \A i \in 1 .. Len(o) : p[i] = o[i]
  OBVIOUS
<1> HIDE DEF p
<1>2. 1 .. Len(p) = 1 .. Len(o) \cup {Len(o) + 1}
  BY <1>1
<1>3. /\ \A i \in 1 .. Len(o) : Asks(p, i, t) <=> Asks(o, i, t)
      /\ Asks(p, Len(o) + 1, t) <=> mine
  BY <1>1 DEF Asks
<1>4. InLine(p, t) <=> InLine(o, t) \/ mine
  BY <1>2, <1>3 DEF InLine
<1>5. Once(o, t) /\ ~(InLine(o, t) /\ mine) => Once(p, t)
  BY <1>2, <1>3 DEF InLine, Once
<1> QED
  BY <1>4, <1>5 DEF p

(* The first message goes; a turn that asked once asks no more then.       *)
LEMMA Leave ==
  ASSUME NEW o \in Seq(Outgoing), o # <<>>, NEW t, Once(o, t)
  PROVE  /\ InLine(Tail(o), t) => InLine(o, t)
         /\ Once(Tail(o), t)
         /\ Head(o).kind = "turn" /\ Head(o).turn = t =>
              InLine(o, t) /\ ~InLine(Tail(o), t)
<1> DEFINE p == Tail(o)
<1>1. /\ Len(o) \in Nat /\ Len(o) >= 1 /\ Head(o) = o[1] /\ Len(p) = Len(o) - 1
      /\ \A i \in 1 .. Len(p) : p[i] = o[i + 1]
  OBVIOUS
<1> HIDE DEF p
<1>2. /\ 1 \in 1 .. Len(o)
      /\ \A i \in 1 .. Len(p) : i + 1 \in 1 .. Len(o) /\ i + 1 # 1
      /\ \A i, j \in 1 .. Len(p) : i + 1 = j + 1 => i = j
  BY <1>1
<1>3. \A i \in 1 .. Len(p) : Asks(p, i, t) <=> Asks(o, i + 1, t)
  BY <1>1 DEF Asks
<1>4. Head(o).kind = "turn" /\ Head(o).turn = t <=> Asks(o, 1, t)
  BY <1>1 DEF Asks
<1>5. InLine(p, t) => InLine(o, t)
  BY <1>2, <1>3 DEF InLine
<1>6. Once(p, t)
  BY <1>2, <1>3 DEF Once
<1>7. Asks(o, 1, t) => InLine(o, t) /\ ~InLine(p, t)
  BY <1>2, <1>3 DEF InLine, Once
<1> QED
  BY <1>4, <1>5, <1>6, <1>7 DEF p

(* In an empty channel nobody asks.                                        *)
LEMMA NothingInLine == \A t : ~InLine(<<>>, t) /\ Once(<<>>, t)
BY DEF InLine, Once

(* No step makes a turn ask twice.                                         *)
LEMMA CallsStep == ASSUME Basics, CallsOnce, [Next]_vars PROVE CallsOnce'
<1> USE AppServerAssumption DEF connVars, mapVars, askVars, turnVars, serverVars,
           historyVars, Goto, Return
<1>a. /\ pc \in [Turns -> TurnStates]
      /\ reply \in [Turns -> {"none", "ok", "err"}]
      /\ server \in [Turns -> {"none", "running", "asking", "ok", "err"}]
      /\ outbound \in Seq(Outgoing)
      /\ received \subseteq Calls /\ timedOut \subseteq Turns
      /\ writer \in {"up", "failing", "down"}
      /\ link \in BOOLEAN
      /\ reader \in {"up", "forwarding", "down"}
  BY DEF Basics, TypeOK
<1>c. SUFFICES ASSUME NEW u \in Turns
               PROVE  AsksOnce(u)'
  BY DEF CallsOnce, AsksOnce
<1>d. AsksOnce(u)
  BY DEF CallsOnce
<1>1. CASE UNCHANGED vars
  BY <1>d, <1>1 DEF vars, AsksOnce
<1>2. ASSUME NEW t \in Turns, NEW s \in Sessions, BeginTurn(t, s)
      PROVE  AsksOnce(u)'
  <2>1. outbound' = outbound \/ outbound' = Append(outbound, Message("thread", t, 0))
    BY <1>2 DEF BeginTurn, StartCall, Send
  <2>2. /\ InLine(outbound', u) <=> InLine(outbound, u)
        /\ Once(outbound', u)
    <3>1. Message("thread", t, 0).kind # "turn" /\ Once(outbound, u)
      BY <1>d DEF Message, AsksOnce
    <3>2. CASE outbound' = Append(outbound, Message("thread", t, 0))
      BY <1>a, <3>1, <3>2, Join
    <3> QED
      BY <2>1, <3>1, <3>2
  <2> QED
    BY <1>a, <1>d, <1>2, <2>1, <2>2 DEF BeginTurn, StartCall, AsksOnce, Early
<1>3. ASSUME NEW t \in Turns, ThreadReply(t) PROVE AsksOnce(u)'
  BY <1>a, <1>d, <1>3 DEF ThreadReply, AsksOnce, Early
<1>4. ASSUME NEW t \in Turns, Register(t) PROVE AsksOnce(u)'
  BY <1>a, <1>d, <1>4 DEF Register, AsksOnce, Early
<1>5. ASSUME NEW t \in Turns, StartTurn(t) PROVE AsksOnce(u)'
  <2>1. CASE ~CanSend
    BY <1>a, <1>d, <1>5, <2>1 DEF StartTurn, StartCall, AsksOnce, Early
  <2>2. CASE CanSend
    <3>1. /\ InLine(outbound', u) <=> InLine(outbound, u) \/ u = t
          /\ Once(outbound, u) /\ ~(InLine(outbound, u) /\ u = t) => Once(outbound', u)
      <4>1. outbound' = Append(outbound, Message("turn", t, 0))
        BY <1>5, <2>2 DEF StartTurn, StartCall, Send
      <4>2. Message("turn", t, 0).kind = "turn" /\ Message("turn", t, 0).turn = t
        BY DEF Message
      <4> QED
        BY <1>a, <4>1, <4>2, Join
    <3>2. u = t => ~InLine(outbound, u) /\ Call(u, "turn") \notin received /\ server[u] = "none"
      BY <1>a, <1>d, <1>5 DEF StartTurn, AsksOnce, Early
    <3> QED
      BY <1>a, <1>d, <1>5, <2>2, <3>1, <3>2 DEF StartTurn, StartCall, AsksOnce, Early
  <2> QED
    BY <2>1, <2>2
<1>6. ASSUME NEW t \in Turns, TurnReply(t) PROVE AsksOnce(u)'
  BY <1>a, <1>d, <1>6 DEF TurnReply, AsksOnce, Early
<1>7. ASSUME NEW t \in Turns, CallTimeout(t) PROVE AsksOnce(u)'
  BY <1>a, <1>d, <1>7 DEF CallTimeout, AsksOnce, Early
<1>8. ASSUME NEW t \in Turns, LoopEvent(t) PROVE AsksOnce(u)'
  BY <1>a, <1>d, <1>8 DEF LoopEvent, AsksOnce, Early
<1>9. ASSUME NEW t \in Turns, LoopCompletion(t) PROVE AsksOnce(u)'
  BY <1>a, <1>d, <1>9 DEF LoopCompletion, AsksOnce, Early
<1>10. ASSUME NEW t \in Turns, LoopClosed(t) PROVE AsksOnce(u)'
  BY <1>a, <1>d, <1>10 DEF LoopClosed, AsksOnce, Early
<1>11. ASSUME NEW t \in Turns, Unregister(t) PROVE AsksOnce(u)'
  BY <1>a, <1>d, <1>11 DEF Unregister, AsksOnce, Early
<1>12. ASSUME NEW r \in Responders, NEW p \in pending_interactions, NEW fits \in BOOLEAN,
             Lookup(r, p, fits)
      PROVE  AsksOnce(u)'
  BY <1>d, <1>12 DEF Lookup, AsksOnce
<1>13. ASSUME NEW r \in Responders, SendAnswer(r) PROVE AsksOnce(u)'
  <2>1. \/ outbound' = outbound
        \/ outbound' = Append(outbound, Message("answer", NoTurn, responder[r].token))
    BY <1>13 DEF SendAnswer, Send
  <2>2. /\ InLine(outbound', u) <=> InLine(outbound, u)
        /\ Once(outbound', u)
    <3>1. Message("answer", NoTurn, responder[r].token).kind # "turn" /\ Once(outbound, u)
      BY <1>d DEF Message, AsksOnce
    <3>2. CASE outbound' = Append(outbound, Message("answer", NoTurn, responder[r].token))
      BY <1>a, <3>1, <3>2, Join
    <3> QED
      BY <2>1, <3>1, <3>2
  <2> QED
    BY <1>a, <1>d, <1>13, <2>2 DEF SendAnswer, AsksOnce
<1>14. ASSUME NEW r \in Responders, RemoveAnswered(r) PROVE AsksOnce(u)'
  BY <1>d, <1>14 DEF RemoveAnswered, AsksOnce
<1>15. ASSUME NEW t \in Turns, NEW m \in Methods, ServerReply(Call(t, m))
      PROVE  AsksOnce(u)'
  <2>1. /\ Call(t, m).turn = t /\ Call(t, m).method = m
        /\ Call(t, m) = Call(u, "turn") => t = u /\ m = "turn"
    BY DEF Call
  <2>2. /\ received' = received \ {Call(t, m)} /\ Call(t, m) \in received
        /\ UNCHANGED <<link, writer, reader, outbound, pc, server, timedOut>>
        /\ \E o \in {"ok", "err"} :
             /\ \/ reply' = reply
                \/ Awaits(t, m) /\ reply' = [reply EXCEPT ![t] = o]
             /\ o = "err" => server[t] = "none"
    BY <1>15, <2>1 DEF ServerReply, Answered
  <2>3. m = "turn" \/ m = "thread"
    BY DEF Methods
  <2>4. CASE reply' = reply
    BY <1>a, <1>d, <2>1, <2>2, <2>4 DEF AsksOnce
  <2>5. CASE u # t
    BY <1>a, <1>d, <2>1, <2>2, <2>5 DEF AsksOnce
  <2>6. CASE u = t /\ m = "thread" /\ reply' # reply
    BY <1>a, <1>d, <2>1, <2>2, <2>6 DEF AsksOnce, Awaits
  <2>7. CASE u = t /\ m = "turn" /\ reply' # reply
    <3>1. /\ ~InLine(outbound, u) /\ Call(u, "turn") \notin received'
          /\ pc[u] = "turn_rpc" /\ u \notin timedOut
      BY <1>d, <2>2, <2>7 DEF AsksOnce, Awaits
    <3>2. reply'[u] = "err" => server[u] = "none"
      BY <1>a, <2>2, <2>7
    <3> QED
      BY <1>d, <2>2, <3>1, <3>2 DEF AsksOnce, Early
  <2> QED
    BY <2>3, <2>4, <2>5, <2>6, <2>7
<1>16. ASSUME NEW t \in Turns, ServerItem(t) PROVE AsksOnce(u)'
  BY <1>d, <1>16 DEF ServerItem, AsksOnce
<1>17. ASSUME NEW t \in Turns, NEW o \in {"ok", "err"}, ServerEnd(t, o)
      PROVE  AsksOnce(u)'
  <2>1. server[t] # "none"
    BY <1>17 DEF ServerEnd
  <2> QED
    BY <1>a, <1>d, <1>17, <2>1 DEF ServerEnd, AsksOnce
<1>18. ASSUME NEW t \in Turns, ServerAsk(t) PROVE AsksOnce(u)'
  BY <1>a, <1>d, <1>18 DEF ServerAsk, AsksOnce
<1>19. CASE ForwardInteraction
  BY <1>d, <1>19 DEF ForwardInteraction, AsksOnce
<1>20. CASE ReaderFails
  BY <1>d, <1>20 DEF ReaderFails, AsksOnce
<1>21. CASE WriterSends
  <2> DEFINE m == Head(outbound)
  <2>1. /\ outbound # <<>> /\ outbound' = Tail(outbound)
        /\ UNCHANGED <<link, writer, reader, pc, reply, timedOut>>
        /\ \/ UNCHANGED <<server, received>>
           \/ Deliver(m)
    BY <1>21 DEF WriterSends
  <2>2. /\ InLine(outbound', u) => InLine(outbound, u)
        /\ Once(outbound', u)
        /\ m.kind = "turn" /\ m.turn = u => InLine(outbound, u) /\ ~InLine(outbound', u)
    BY <1>a, <1>d, <2>1, Leave DEF AsksOnce
  <2> HIDE DEF m
  <2>3. CASE UNCHANGED <<server, received>>
    BY <1>d, <2>1, <2>2, <2>3 DEF AsksOnce
  <2>4. CASE m.kind = "answer" /\ Deliver(m)
    <3>1. received' = received /\ (server'[u] = server[u] \/ server[u] = "asking")
      BY <2>4 DEF Deliver, WaitsFor
    <3> QED
      BY <1>d, <2>1, <2>2, <3>1 DEF AsksOnce
  <2>5. CASE m.kind = "thread" /\ Deliver(m)
    <3>1. server' = server /\ received' = received \cup {Call(m.turn, "thread")}
      BY <2>5 DEF Deliver
    <3>2. Call(u, "turn") # Call(m.turn, "thread")
      BY DEF Call
    <3> QED
      BY <1>d, <2>1, <2>2, <3>1, <3>2 DEF AsksOnce
  <2>6. CASE m.kind = "turn" /\ Deliver(m)
    <3>1. /\ received' = received \cup {Call(m.turn, "turn")}
          /\ u # m.turn => server'[u] = server[u]
      BY <1>a, <2>6 DEF Deliver
    <3>2. Call(u, "turn") = Call(m.turn, "turn") => u = m.turn
      BY DEF Call
    <3>3. CASE u = m.turn
      <4>1. InLine(outbound, u) /\ ~InLine(outbound', u)
        BY <2>2, <2>6, <3>3
      <4> QED
        BY <1>d, <2>1, <2>2, <4>1 DEF AsksOnce, Early
    <3>4. CASE u # m.turn
      BY <1>d, <2>1, <2>2, <3>1, <3>2, <3>4 DEF AsksOnce
    <3> QED
      BY <3>3, <3>4
  <2> QED
    BY <2>1, <2>3, <2>4, <2>5, <2>6 DEF Deliver
<1>22. CASE WriterFails
  <2>1. /\ InLine(outbound', u) => InLine(outbound, u)
        /\ Once(outbound', u)
    BY <1>a, <1>d, <1>22, Leave DEF AsksOnce, WriterFails
  <2> QED
    BY <1>d, <1>22, <2>1 DEF WriterFails, AsksOnce
<1>23. CASE WriterEnds
  <2>1. ~InLine(outbound', u) /\ Once(outbound', u)
    BY <1>23, NothingInLine DEF WriterEnds
  <2> QED
    BY <1>d, <1>23, <2>1 DEF WriterEnds, AsksOnce
<1>24. CASE LinkLost
  BY <1>d, <1>24 DEF LinkLost, AsksOnce
<1> QED
  BY <1>1, <1>2, <1>3, <1>4, <1>5, <1>6, <1>7, <1>8, <1>9, <1>10, <1>11, <1>12,
     <1>13, <1>14, <1>15, <1>16, <1>17, <1>18, <1>19, <1>20, <1>21, <1>22, <1>23, <1>24
  DEF Next, TurnStep, ResponderStep, ServerStep, ReaderStep, WriterStep

(* The link is up only with both tasks: a task that fails finds it down.   *)
LinkLive == link => Intact

(* A turn that may leave its loop with what it finds in its channel.       *)
Listening(t) == pc[t] = "loop" \/ (pc[t] = "turn_rpc" /\ reply[t] = "ok")

(* What stays so: a thread once known, a turn that began or ended, what it *)
(* emitted, a call on its way out, a connection that failed; and where a   *)
(* turn that runs or listens comes from.                                   *)
Onward(u) ==
  /\ thread[u] # NoThread => thread'[u] = thread[u]
  /\ u \in timedOut => u \in timedOut'
  /\ server[u] # "none" => server'[u] # "none"
  /\ server[u] = "ok" => server'[u] = "ok"
  /\ emitted[u] <= emitted'[u]
  /\ pc[u] \in {"unregister", "done"} => pc'[u] \in {"unregister", "done"}
  /\ Runs(u)' => Runs(u) \/ InLine(outbound, u)
  /\ Listening(u)' => Listening(u) \/ link

(* No step of any task takes back what a turn has come to.                 *)
LEMMA OnwardStep ==
  ASSUME Basics, CallsOnce, [Next]_vars, NEW u \in Turns PROVE Onward(u)
<1> USE AppServerAssumption DEF connVars, mapVars, askVars, turnVars, serverVars,
           historyVars, Goto, Return
<1>a. /\ pc \in [Turns -> TurnStates]
      /\ thread \in [Turns -> Threads \cup {NoThread}]
      /\ reply \in [Turns -> {"none", "ok", "err"}]
      /\ server \in [Turns -> {"none", "running", "asking", "ok", "err"}]
      /\ emitted \in [Turns -> 0 .. MaxItems]
      /\ outbound \in Seq(Outgoing)
      /\ timedOut \subseteq Turns
      /\ pc[u] = "idle" => thread[u] = NoThread
      /\ AsksOnce(u)
  BY DEF Basics, TypeOK, ThreadKnown, CallsOnce
<1>1. CASE UNCHANGED vars
  BY <1>a, <1>1 DEF vars, Onward, Runs, Listening
<1>2. ASSUME NEW t \in Turns, NEW s \in Sessions, BeginTurn(t, s)
      PROVE  Onward(u)
  BY <1>a, <1>2 DEF BeginTurn, StartCall, Onward, Runs, Listening
<1>3. ASSUME NEW t \in Turns, ThreadReply(t) PROVE Onward(u)
  BY <1>a, <1>3 DEF ThreadReply, Onward, Runs, Listening
<1>4. ASSUME NEW t \in Turns, Register(t) PROVE Onward(u)
  BY <1>a, <1>4 DEF Register, Onward, Runs, Listening
<1>5. ASSUME NEW t \in Turns, StartTurn(t) PROVE Onward(u)
  BY <1>a, <1>5 DEF StartTurn, StartCall, Onward, Runs, Listening
<1>6. ASSUME NEW t \in Turns, TurnReply(t) PROVE Onward(u)
  BY <1>a, <1>6 DEF TurnReply, Onward, Runs, Listening
<1>7. ASSUME NEW t \in Turns, CallTimeout(t) PROVE Onward(u)
  BY <1>a, <1>7 DEF CallTimeout, Onward, Runs, Listening
<1>8. ASSUME NEW t \in Turns, LoopEvent(t) PROVE Onward(u)
  BY <1>a, <1>8 DEF LoopEvent, Onward, Runs, Listening
<1>9. ASSUME NEW t \in Turns, LoopCompletion(t) PROVE Onward(u)
  BY <1>a, <1>9 DEF LoopCompletion, Onward, Runs, Listening
<1>10. ASSUME NEW t \in Turns, LoopClosed(t) PROVE Onward(u)
  BY <1>a, <1>10 DEF LoopClosed, Onward, Runs, Listening
<1>11. ASSUME NEW t \in Turns, Unregister(t) PROVE Onward(u)
  BY <1>a, <1>11 DEF Unregister, Onward, Runs, Listening
<1>12. ASSUME NEW r \in Responders, NEW p \in pending_interactions, NEW fits \in BOOLEAN,
             Lookup(r, p, fits)
      PROVE  Onward(u)
  BY <1>a, <1>12 DEF Lookup, Onward, Runs, Listening
<1>13. ASSUME NEW r \in Responders, SendAnswer(r) PROVE Onward(u)
  BY <1>a, <1>13 DEF SendAnswer, Onward, Runs, Listening
<1>14. ASSUME NEW r \in Responders, RemoveAnswered(r) PROVE Onward(u)
  BY <1>a, <1>14 DEF RemoveAnswered, Onward, Runs, Listening
<1>15. ASSUME NEW t \in Turns, NEW m \in Methods, ServerReply(Call(t, m))
      PROVE  Onward(u)
  BY <1>a, <1>15 DEF ServerReply, Answered, Awaits, Onward, Runs, Listening
<1>16. ASSUME NEW t \in Turns, ServerItem(t) PROVE Onward(u)
  BY <1>a, <1>16 DEF ServerItem, Onward, Runs, Listening
<1>17. ASSUME NEW t \in Turns, NEW o \in {"ok", "err"}, ServerEnd(t, o)
      PROVE  Onward(u)
  BY <1>a, <1>17 DEF ServerEnd, Onward, Runs, Listening
<1>18. ASSUME NEW t \in Turns, ServerAsk(t) PROVE Onward(u)
  BY <1>a, <1>18 DEF ServerAsk, Onward, Runs, Listening
<1>19. CASE ForwardInteraction
  BY <1>a, <1>19 DEF ForwardInteraction, Onward, Runs, Listening
<1>20. CASE ReaderFails
  BY <1>a, <1>20 DEF ReaderFails, Onward, Runs, Listening
<1>21. CASE WriterSends
  <2> DEFINE m == Head(outbound)
  <2>1. /\ outbound # <<>>
        /\ UNCHANGED <<thread, timedOut, pc, reply>>
        /\ server' = server \/ Deliver(m)
    BY <1>21 DEF WriterSends
  <2>2. m.kind = "turn" /\ m.turn = u => InLine(outbound, u)
    BY <1>a, <2>1, Leave DEF AsksOnce
  <2> HIDE DEF m
  <2>3. server[u] # "none" => ~InLine(outbound, u)
    BY <1>a DEF AsksOnce
  <2>c. emitted[u] <= emitted'[u]
    BY <1>a, <1>21 DEF WriterSends
  <2>4. CASE server' = server
    BY <2>1, <2>4, <2>c DEF Onward, Runs, Listening
  <2>5. CASE m.kind = "answer" /\ Deliver(m)
    <3>1. server'[u] = server[u] \/ (server[u] = "asking" /\ server'[u] = "running")
      BY <2>5 DEF Deliver, WaitsFor
    <3> QED
      BY <2>1, <2>c, <3>1 DEF Onward, Runs, Listening
  <2>6. CASE m.kind = "turn" /\ Deliver(m)
    <3>1. u # m.turn => server'[u] = server[u]
      BY <1>a, <2>6 DEF Deliver
    <3>2. server'[u] = server[u] \/ server'[u] = "running"
      BY <1>a, <2>6 DEF Deliver
    <3> QED
      BY <2>1, <2>2, <2>3, <2>6, <2>c, <3>1, <3>2 DEF Onward, Runs, Listening
  <2> QED
    BY <2>1, <2>4, <2>5, <2>6 DEF Deliver
<1>22. CASE WriterFails
  BY <1>a, <1>22 DEF WriterFails, Onward, Runs, Listening
<1>23. CASE WriterEnds
  BY <1>a, <1>23 DEF WriterEnds, Onward, Runs, Listening
<1>24. CASE LinkLost
  BY <1>a, <1>24 DEF LinkLost, Onward, Runs, Listening
<1> QED
  BY <1>1, <1>2, <1>3, <1>4, <1>5, <1>6, <1>7, <1>8, <1>9, <1>10, <1>11, <1>12,
     <1>13, <1>14, <1>15, <1>16, <1>17, <1>18, <1>19, <1>20, <1>21, <1>22, <1>23, <1>24
  DEF Next, TurnStep, ResponderStep, ServerStep, ReaderStep, WriterStep

(* Turns are failed only after the link was lost, and once for all.        *)
LEMMA LinkStep == ASSUME Basics, LinkLive, [Next]_vars PROVE LinkLive' /\ (Intact' => Intact)
<1> USE AppServerAssumption DEF connVars, mapVars, askVars, turnVars, serverVars,
           historyVars, Goto, Return
<1>a. writer \in {"up", "failing", "down"} /\ LinkLive
  BY DEF Basics, TypeOK
<1>1. CASE UNCHANGED vars
  BY <1>a, <1>1 DEF vars, LinkLive, Intact
<1>2. ASSUME NEW t \in Turns, NEW s \in Sessions, BeginTurn(t, s)
      PROVE  LinkLive' /\ (Intact' => Intact)
  BY <1>a, <1>2 DEF BeginTurn, StartCall, LinkLive, Intact
<1>3. ASSUME NEW t \in Turns, ThreadReply(t)
      PROVE  LinkLive' /\ (Intact' => Intact)
  BY <1>a, <1>3 DEF ThreadReply, LinkLive, Intact
<1>4. ASSUME NEW t \in Turns, Register(t) PROVE LinkLive' /\ (Intact' => Intact)
  BY <1>a, <1>4 DEF Register, LinkLive, Intact
<1>5. ASSUME NEW t \in Turns, StartTurn(t)
      PROVE  LinkLive' /\ (Intact' => Intact)
  BY <1>a, <1>5 DEF StartTurn, StartCall, LinkLive, Intact
<1>6. ASSUME NEW t \in Turns, TurnReply(t)
      PROVE  LinkLive' /\ (Intact' => Intact)
  BY <1>a, <1>6 DEF TurnReply, LinkLive, Intact
<1>7. ASSUME NEW t \in Turns, CallTimeout(t)
      PROVE  LinkLive' /\ (Intact' => Intact)
  BY <1>a, <1>7 DEF CallTimeout, LinkLive, Intact
<1>8. ASSUME NEW t \in Turns, LoopEvent(t)
      PROVE  LinkLive' /\ (Intact' => Intact)
  BY <1>a, <1>8 DEF LoopEvent, LinkLive, Intact
<1>9. ASSUME NEW t \in Turns, LoopCompletion(t)
      PROVE  LinkLive' /\ (Intact' => Intact)
  BY <1>a, <1>9 DEF LoopCompletion, LinkLive, Intact
<1>10. ASSUME NEW t \in Turns, LoopClosed(t)
      PROVE  LinkLive' /\ (Intact' => Intact)
  BY <1>a, <1>10 DEF LoopClosed, LinkLive, Intact
<1>11. ASSUME NEW t \in Turns, Unregister(t)
      PROVE  LinkLive' /\ (Intact' => Intact)
  BY <1>a, <1>11 DEF Unregister, LinkLive, Intact
<1>12. ASSUME NEW r \in Responders, NEW p \in pending_interactions, NEW fits \in BOOLEAN,
             Lookup(r, p, fits)
      PROVE  LinkLive' /\ (Intact' => Intact)
  BY <1>a, <1>12 DEF Lookup, LinkLive, Intact
<1>13. ASSUME NEW r \in Responders, SendAnswer(r)
      PROVE  LinkLive' /\ (Intact' => Intact)
  BY <1>a, <1>13 DEF SendAnswer, LinkLive, Intact
<1>14. ASSUME NEW r \in Responders, RemoveAnswered(r)
      PROVE  LinkLive' /\ (Intact' => Intact)
  BY <1>a, <1>14 DEF RemoveAnswered, LinkLive, Intact
<1>15. ASSUME NEW t \in Turns, NEW m \in Methods, ServerReply(Call(t, m))
      PROVE  LinkLive' /\ (Intact' => Intact)
  BY <1>a, <1>15 DEF ServerReply, Answered, Awaits, LinkLive, Intact
<1>16. ASSUME NEW t \in Turns, ServerItem(t)
      PROVE  LinkLive' /\ (Intact' => Intact)
  BY <1>a, <1>16 DEF ServerItem, LinkLive, Intact
<1>17. ASSUME NEW t \in Turns, NEW o \in {"ok", "err"}, ServerEnd(t, o)
      PROVE  LinkLive' /\ (Intact' => Intact)
  BY <1>a, <1>17 DEF ServerEnd, LinkLive, Intact
<1>18. ASSUME NEW t \in Turns, ServerAsk(t)
      PROVE  LinkLive' /\ (Intact' => Intact)
  BY <1>a, <1>18 DEF ServerAsk, LinkLive, Intact
<1>19. CASE ForwardInteraction
  BY <1>a, <1>19 DEF ForwardInteraction, LinkLive, Intact
<1>20. CASE ReaderFails
  BY <1>a, <1>20 DEF ReaderFails, LinkLive, Intact
<1>21. CASE WriterSends
  BY <1>a, <1>21 DEF WriterSends, LinkLive, Intact
<1>22. CASE WriterFails
  BY <1>a, <1>22 DEF WriterFails, LinkLive, Intact
<1>23. CASE WriterEnds
  BY <1>a, <1>23 DEF WriterEnds, LinkLive, Intact
<1>24. CASE LinkLost
  BY <1>a, <1>24 DEF LinkLost, LinkLive, Intact
<1> QED
  BY <1>1, <1>2, <1>3, <1>4, <1>5, <1>6, <1>7, <1>8, <1>9, <1>10, <1>11, <1>12,
     <1>13, <1>14, <1>15, <1>16, <1>17, <1>18, <1>19, <1>20, <1>21, <1>22, <1>23, <1>24
  DEF Next, TurnStep, ResponderStep, ServerStep, ReaderStep, WriterStep

(* A thread whose turns did not time out has none that did before.         *)
LEMMA CleanBefore ==
  ASSUME Basics, CallsOnce, [Next]_vars, NEW u \in Turns, Clean(thread[u])'
  PROVE  Clean(thread[u])
<1>1. \A w \in timedOut : w \in Turns /\ thread[w] # NoThread
  BY DEF Basics, TypeOK, ThreadKnown
<1>2. Onward(u) /\ \A w \in timedOut : Onward(w)
  BY <1>1, OnwardStep
<1> QED
  BY <1>1, <1>2 DEF Onward, Clean

(* A handle is registered under the thread of its turn, and a handle that  *)
(* joins after every turn was failed finds nobody listening.               *)
HandlesFit ==
  \A th \in Threads : active_turns[th] # NoTurn => thread[active_turns[th]] = th

LateHandles ==
  writer # "up" =>
    \A th \in Threads : active_turns[th] # NoTurn => ~Listening(active_turns[th])

(* While the connection works, a turn that runs owns the handle of its     *)
(* thread, and does not give it back yet.                                  *)
Holds(t) == active_turns[thread[t]] = t /\ pc[t] # "unregister"

RunsOwned == Intact => \A t \in Turns : Runs(t) /\ Clean(thread[t]) => Holds(t)

(* A channel has the events of its turn; only one that nobody will read    *)
(* may get others when the connection has failed.                          *)
OwnEvents ==
  \A t \in Turns : Clean(thread[t]) /\ (Intact \/ Listening(t)) =>
    \A i \in 1 .. Len(events[t]) : events[t][i].turn = t

(* Completed is told of turns that ended.                                  *)
Ended ==
  /\ \A t \in Turns : \A i \in 1 .. Len(events[t]) :
       events[t][i].kind = "ok" => server[events[t][i].turn] = "ok"
  /\ \A t \in Turns :
       Clean(thread[t]) /\ completion[t] = "ok" => server[t] = "ok"

Owned == LinkLive /\ CallsOnce /\ HandleKept /\ HandlesFit /\ LateHandles
         /\ RunsOwned /\ OwnEvents /\ Ended

(* register_active_turn files a handle under the thread of its turn.       *)
LEMMA HandlesFitStep == ASSUME Basics, HandlesFit, [Next]_vars PROVE HandlesFit'
<1> USE AppServerAssumption DEF connVars, mapVars, askVars, turnVars, serverVars,
           historyVars, Goto, Return
<1>a. /\ active_turns \in [Threads -> Turns \cup {NoTurn}]
      /\ thread \in [Turns -> Threads \cup {NoThread}]
      /\ \A u \in Turns : pc[u] = "register" => thread[u] \in Threads
      /\ \A u \in Turns : pc[u] = "idle" => thread[u] = NoThread
      /\ HandlesFit
  BY DEF Basics, TypeOK, ThreadKnown
<1>1. CASE UNCHANGED vars
  BY <1>a, <1>1 DEF vars, HandlesFit
<1>2. ASSUME NEW t \in Turns, NEW s \in Sessions, BeginTurn(t, s)
      PROVE  HandlesFit'
  BY <1>a, <1>2 DEF BeginTurn, StartCall, HandlesFit
<1>3. ASSUME NEW t \in Turns, ThreadReply(t) PROVE HandlesFit'
  BY <1>a, <1>3 DEF ThreadReply, HandlesFit
<1>4. ASSUME NEW t \in Turns, Register(t) PROVE HandlesFit'
  BY <1>a, <1>4 DEF Register, HandlesFit
<1>5. ASSUME NEW t \in Turns, StartTurn(t) PROVE HandlesFit'
  BY <1>a, <1>5 DEF StartTurn, StartCall, HandlesFit
<1>6. ASSUME NEW t \in Turns, TurnReply(t) PROVE HandlesFit'
  BY <1>a, <1>6 DEF TurnReply, HandlesFit
<1>7. ASSUME NEW t \in Turns, CallTimeout(t) PROVE HandlesFit'
  BY <1>a, <1>7 DEF CallTimeout, HandlesFit
<1>8. ASSUME NEW t \in Turns, LoopEvent(t) PROVE HandlesFit'
  BY <1>a, <1>8 DEF LoopEvent, HandlesFit
<1>9. ASSUME NEW t \in Turns, LoopCompletion(t) PROVE HandlesFit'
  BY <1>a, <1>9 DEF LoopCompletion, HandlesFit
<1>10. ASSUME NEW t \in Turns, LoopClosed(t) PROVE HandlesFit'
  BY <1>a, <1>10 DEF LoopClosed, HandlesFit
<1>11. ASSUME NEW t \in Turns, Unregister(t) PROVE HandlesFit'
  BY <1>a, <1>11 DEF Unregister, HandlesFit
<1>12. ASSUME NEW r \in Responders, NEW p \in pending_interactions, NEW fits \in BOOLEAN,
             Lookup(r, p, fits)
      PROVE  HandlesFit'
  BY <1>a, <1>12 DEF Lookup, HandlesFit
<1>13. ASSUME NEW r \in Responders, SendAnswer(r) PROVE HandlesFit'
  BY <1>a, <1>13 DEF SendAnswer, HandlesFit
<1>14. ASSUME NEW r \in Responders, RemoveAnswered(r) PROVE HandlesFit'
  BY <1>a, <1>14 DEF RemoveAnswered, HandlesFit
<1>15. ASSUME NEW t \in Turns, NEW m \in Methods, ServerReply(Call(t, m))
      PROVE  HandlesFit'
  BY <1>a, <1>15 DEF ServerReply, Answered, Awaits, HandlesFit
<1>16. ASSUME NEW t \in Turns, ServerItem(t) PROVE HandlesFit'
  BY <1>a, <1>16 DEF ServerItem, HandlesFit
<1>17. ASSUME NEW t \in Turns, NEW o \in {"ok", "err"}, ServerEnd(t, o)
      PROVE  HandlesFit'
  BY <1>a, <1>17 DEF ServerEnd, HandlesFit
<1>18. ASSUME NEW t \in Turns, ServerAsk(t) PROVE HandlesFit'
  BY <1>a, <1>18 DEF ServerAsk, HandlesFit
<1>19. CASE ForwardInteraction
  BY <1>a, <1>19 DEF ForwardInteraction, HandlesFit
<1>20. CASE ReaderFails
  BY <1>a, <1>20 DEF ReaderFails, FailAllActiveTurns, HandlesFit
<1>21. CASE WriterSends
  BY <1>a, <1>21 DEF WriterSends, HandlesFit
<1>22. CASE WriterFails
  BY <1>a, <1>22 DEF WriterFails, FailAllActiveTurns, HandlesFit
<1>23. CASE WriterEnds
  BY <1>a, <1>23 DEF WriterEnds, HandlesFit
<1>24. CASE LinkLost
  BY <1>a, <1>24 DEF LinkLost, HandlesFit
<1> QED
  BY <1>1, <1>2, <1>3, <1>4, <1>5, <1>6, <1>7, <1>8, <1>9, <1>10, <1>11, <1>12,
     <1>13, <1>14, <1>15, <1>16, <1>17, <1>18, <1>19, <1>20, <1>21, <1>22, <1>23, <1>24
  DEF Next, TurnStep, ResponderStep, ServerStep, ReaderStep, WriterStep

(* Nobody gets to listen after fail_all_active_turns, for no call is       *)
(* answered.                                                               *)
LEMMA LateHandlesStep ==
  ASSUME Basics, CallsOnce, LinkLive, LateHandles, [Next]_vars PROVE LateHandles'
<1> USE AppServerAssumption DEF connVars, mapVars, askVars, turnVars, serverVars,
           historyVars, Goto, Return
<1>a. /\ active_turns \in [Threads -> Turns \cup {NoTurn}]
      /\ pc \in [Turns -> TurnStates]
      /\ reply \in [Turns -> {"none", "ok", "err"}]
      /\ writer \in {"up", "failing", "down"}
      /\ link => writer = "up"
      /\ LateHandles
  BY DEF Basics, TypeOK, LinkLive, Intact
<1>1. CASE UNCHANGED vars
  BY <1>a, <1>1 DEF vars, LateHandles, Listening
<1>2. ASSUME NEW t \in Turns, NEW s \in Sessions, BeginTurn(t, s)
      PROVE  LateHandles'
  BY <1>a, <1>2 DEF BeginTurn, StartCall, LateHandles, Listening
<1>3. ASSUME NEW t \in Turns, ThreadReply(t) PROVE LateHandles'
  BY <1>a, <1>3 DEF ThreadReply, LateHandles, Listening
<1>4. ASSUME NEW t \in Turns, Register(t) PROVE LateHandles'
  BY <1>a, <1>4 DEF Register, LateHandles, Listening
<1>5. ASSUME NEW t \in Turns, StartTurn(t) PROVE LateHandles'
  BY <1>a, <1>5 DEF StartTurn, StartCall, LateHandles, Listening
<1>6. ASSUME NEW t \in Turns, TurnReply(t) PROVE LateHandles'
  BY <1>a, <1>6 DEF TurnReply, LateHandles, Listening
<1>7. ASSUME NEW t \in Turns, CallTimeout(t) PROVE LateHandles'
  BY <1>a, <1>7 DEF CallTimeout, LateHandles, Listening
<1>8. ASSUME NEW t \in Turns, LoopEvent(t) PROVE LateHandles'
  BY <1>a, <1>8 DEF LoopEvent, LateHandles, Listening
<1>9. ASSUME NEW t \in Turns, LoopCompletion(t) PROVE LateHandles'
  BY <1>a, <1>9 DEF LoopCompletion, LateHandles, Listening
<1>10. ASSUME NEW t \in Turns, LoopClosed(t) PROVE LateHandles'
  BY <1>a, <1>10 DEF LoopClosed, LateHandles, Listening
<1>11. ASSUME NEW t \in Turns, Unregister(t) PROVE LateHandles'
  BY <1>a, <1>11 DEF Unregister, LateHandles, Listening
<1>12. ASSUME NEW r \in Responders, NEW p \in pending_interactions, NEW fits \in BOOLEAN,
             Lookup(r, p, fits)
      PROVE  LateHandles'
  BY <1>a, <1>12 DEF Lookup, LateHandles, Listening
<1>13. ASSUME NEW r \in Responders, SendAnswer(r) PROVE LateHandles'
  BY <1>a, <1>13 DEF SendAnswer, LateHandles, Listening
<1>14. ASSUME NEW r \in Responders, RemoveAnswered(r) PROVE LateHandles'
  BY <1>a, <1>14 DEF RemoveAnswered, LateHandles, Listening
<1>15. ASSUME NEW t \in Turns, NEW m \in Methods, ServerReply(Call(t, m))
      PROVE  LateHandles'
  BY <1>a, <1>15 DEF ServerReply, Answered, Awaits, LateHandles, Listening
<1>16. ASSUME NEW t \in Turns, ServerItem(t) PROVE LateHandles'
  BY <1>a, <1>16 DEF ServerItem, LateHandles, Listening
<1>17. ASSUME NEW t \in Turns, NEW o \in {"ok", "err"}, ServerEnd(t, o)
      PROVE  LateHandles'
  BY <1>a, <1>17 DEF ServerEnd, LateHandles, Listening
<1>18. ASSUME NEW t \in Turns, ServerAsk(t) PROVE LateHandles'
  BY <1>a, <1>18 DEF ServerAsk, LateHandles, Listening
<1>19. CASE ForwardInteraction
  BY <1>a, <1>19 DEF ForwardInteraction, LateHandles, Listening
<1>20. CASE ReaderFails
  BY <1>a, <1>20 DEF ReaderFails, FailAllActiveTurns, LateHandles
<1>21. CASE WriterSends
  BY <1>a, <1>21 DEF WriterSends, LateHandles, Listening
<1>22. CASE WriterFails
  BY <1>a, <1>22 DEF WriterFails, FailAllActiveTurns, LateHandles
<1>23. CASE WriterEnds
  BY <1>a, <1>23 DEF WriterEnds, LateHandles, Listening
<1>24. CASE LinkLost
  BY <1>a, <1>24 DEF LinkLost, LateHandles, Listening
<1> QED
  BY <1>1, <1>2, <1>3, <1>4, <1>5, <1>6, <1>7, <1>8, <1>9, <1>10, <1>11, <1>12,
     <1>13, <1>14, <1>15, <1>16, <1>17, <1>18, <1>19, <1>20, <1>21, <1>22, <1>23, <1>24
  DEF Next, TurnStep, ResponderStep, ServerStep, ReaderStep, WriterStep

(* A turn keeps the handle as long as the server runs it.                  *)
LEMMA RunsOwnedStep == ASSUME Basics, Owned, [Next]_vars PROVE RunsOwned'
<1> USE AppServerAssumption DEF connVars, mapVars, askVars, turnVars, serverVars,
           historyVars, Goto, Return
<1> SUFFICES ASSUME Intact', NEW u \in Turns, Runs(u)', Clean(thread[u])' PROVE Holds(u)'
  BY DEF RunsOwned
<1>0. Onward(u) /\ Clean(thread[u]) /\ Intact
  BY OnwardStep, CleanBefore, LinkStep DEF Owned
<1>a. /\ pc \in [Turns -> TurnStates]
      /\ active_turns \in [Threads -> Turns \cup {NoTurn}]
      /\ thread \in [Turns -> Threads \cup {NoThread}]
      /\ reply \in [Turns -> {"none", "ok", "err"}]
      /\ events \in [Turns -> Seq(Event)]
      /\ timedOut \subseteq Turns
      /\ \A t \in Turns : pc[t] \in {"register"} \cup Holding => thread[t] \in Threads
      /\ HandleKept /\ OwnEvents /\ Ended /\ AsksOnce(u)
      /\ Intact /\ Intact' /\ Runs(u)' /\ Clean(thread[u]) /\ Clean(thread[u])'
      /\ thread[u] \in Threads /\ thread'[u] = thread[u] /\ Holds(u)
  <2>1. /\ pc \in [Turns -> TurnStates]
        /\ active_turns \in [Threads -> Turns \cup {NoTurn}]
        /\ thread \in [Turns -> Threads \cup {NoThread}]
        /\ reply \in [Turns -> {"none", "ok", "err"}]
        /\ events \in [Turns -> Seq(Event)]
        /\ timedOut \subseteq Turns
        /\ \A t \in Turns : pc[t] \in {"register"} \cup Holding => thread[t] \in Threads
        /\ HandleKept /\ OwnEvents /\ Ended /\ AsksOnce(u)
    BY DEF Basics, TypeOK, ThreadKnown, Owned, CallsOnce
  <2>2. CASE Runs(u)
    <3>1. Holds(u)
      BY <1>0, <2>2 DEF Owned, RunsOwned
    <3>2. thread[u] # NoThread
      BY <2>2 DEF Basics, ThreadKnown, Runs
    <3> QED
      BY <1>0, <2>1, <3>1, <3>2 DEF Onward
  <2>3. CASE InLine(outbound, u)
    <3>1. pc[u] = "turn_rpc"
      BY <1>0, <2>1, <2>3 DEF AsksOnce, Clean
    <3>2. thread[u] \in Threads
      BY <2>1, <3>1 DEF Holding
    <3>3. Holds(u)
      BY <1>0, <2>1, <3>1 DEF HandleKept, Holding, Holds
    <3> QED
      BY <1>0, <2>1, <3>2, <3>3 DEF Onward
  <2> QED
    BY <1>0, <2>2, <2>3 DEF Onward
<1>1. CASE UNCHANGED vars
  BY <1>a, <1>1 DEF vars, Holds
<1>2. ASSUME NEW t \in Turns, NEW s \in Sessions, BeginTurn(t, s)
      PROVE  Holds(u)'
  BY <1>a, <1>2 DEF BeginTurn, StartCall, Holds
<1>3. ASSUME NEW t \in Turns, ThreadReply(t) PROVE Holds(u)'
  BY <1>a, <1>3 DEF ThreadReply, Holds
<1>4. ASSUME NEW t \in Turns, Register(t) PROVE Holds(u)'
  BY <1>a, <1>4 DEF Register, Holds
<1>5. ASSUME NEW t \in Turns, StartTurn(t) PROVE Holds(u)'
  BY <1>a, <1>5 DEF StartTurn, StartCall, CanSend, Intact, Holds
<1>6. ASSUME NEW t \in Turns, TurnReply(t) PROVE Holds(u)'
  <2>1. CASE u = t /\ reply[t] # "ok"
    <3>1. pc[u] = "turn_rpc" /\ reply[u] = "err" /\ server' = server
      BY <1>a, <1>6, <2>1 DEF TurnReply
    <3> QED
      BY <1>a, <3>1 DEF AsksOnce, Runs
  <2> QED
    BY <1>a, <1>6, <2>1 DEF TurnReply, Holds
<1>7. ASSUME NEW t \in Turns, CallTimeout(t) PROVE Holds(u)'
  <2>1. u = t /\ pc[t] = "turn_rpc" => u \in timedOut'
    BY <1>a, <1>7 DEF CallTimeout
  <2>2. u \notin timedOut'
    BY <1>a DEF Clean
  <2> QED
    BY <1>a, <1>7, <2>1, <2>2 DEF CallTimeout, Holds
<1>8. ASSUME NEW t \in Turns, LoopEvent(t) PROVE Holds(u)'
  <2>1. CASE u = t /\ Head(events[t]).kind = "ok"
    <3>1. events[u] \in Seq(Event) /\ events[u] # <<>> /\ Listening(u) /\ server' = server
      BY <1>a, <1>8, <2>1 DEF LoopEvent, Listening
    <3>2. 1 \in 1 .. Len(events[u]) /\ Head(events[u]) = events[u][1]
      BY <3>1
    <3>3. server[u] = "ok"
      BY <1>a, <2>1, <3>1, <3>2 DEF OwnEvents, Ended
    <3> QED
      BY <1>a, <3>1, <3>3 DEF Runs
  <2> QED
    BY <1>a, <1>8, <2>1 DEF LoopEvent, Holds
<1>9. ASSUME NEW t \in Turns, LoopCompletion(t) PROVE Holds(u)'
  <2>1. u = t /\ completion[t] = "ok" => server[u] = "ok" /\ server' = server
    BY <1>a, <1>9 DEF LoopCompletion, Ended
  <2> QED
    BY <1>a, <1>9, <2>1 DEF LoopCompletion, Holds, Runs
<1>10. ASSUME NEW t \in Turns, LoopClosed(t) PROVE Holds(u)'
  BY <1>a, <1>10 DEF LoopClosed, Holds
<1>11. ASSUME NEW t \in Turns, Unregister(t) PROVE Holds(u)'
  <2>1. thread[t] \in Threads /\ active_turns[thread[t]] = t
    BY <1>a, <1>11 DEF Unregister, HandleKept, Holding
  <2>2. thread[u] # thread[t] /\ u # t
    BY <1>a, <1>11, <2>1 DEF Unregister, Holds
  <2> QED
    BY <1>a, <1>11, <2>1, <2>2 DEF Unregister, Holds
<1>12. ASSUME NEW r \in Responders, NEW p \in pending_interactions, NEW fits \in BOOLEAN,
             Lookup(r, p, fits)
      PROVE  Holds(u)'
  BY <1>a, <1>12 DEF Lookup, Holds
<1>13. ASSUME NEW r \in Responders, SendAnswer(r) PROVE Holds(u)'
  BY <1>a, <1>13 DEF SendAnswer, Holds
<1>14. ASSUME NEW r \in Responders, RemoveAnswered(r) PROVE Holds(u)'
  BY <1>a, <1>14 DEF RemoveAnswered, Holds
<1>15. ASSUME NEW t \in Turns, NEW m \in Methods, ServerReply(Call(t, m))
      PROVE  Holds(u)'
  BY <1>a, <1>15 DEF ServerReply, Answered, Awaits, Holds
<1>16. ASSUME NEW t \in Turns, ServerItem(t) PROVE Holds(u)'
  BY <1>a, <1>16 DEF ServerItem, Holds
<1>17. ASSUME NEW t \in Turns, NEW o \in {"ok", "err"}, ServerEnd(t, o)
      PROVE  Holds(u)'
  BY <1>a, <1>17 DEF ServerEnd, Holds
<1>18. ASSUME NEW t \in Turns, ServerAsk(t) PROVE Holds(u)'
  BY <1>a, <1>18 DEF ServerAsk, Holds
<1>19. CASE ForwardInteraction
  BY <1>a, <1>19 DEF ForwardInteraction, Holds
<1>20. CASE ReaderFails
  BY <1>a, <1>20 DEF ReaderFails, Intact
<1>21. CASE WriterSends
  BY <1>a, <1>21 DEF WriterSends, Holds
<1>22. CASE WriterFails
  BY <1>a, <1>22 DEF WriterFails, Intact
<1>23. CASE WriterEnds
  BY <1>a, <1>23 DEF WriterEnds, Holds
<1>24. CASE LinkLost
  BY <1>a, <1>24 DEF LinkLost, Holds
<1> QED
  BY <1>1, <1>2, <1>3, <1>4, <1>5, <1>6, <1>7, <1>8, <1>9, <1>10, <1>11, <1>12,
     <1>13, <1>14, <1>15, <1>16, <1>17, <1>18, <1>19, <1>20, <1>21, <1>22, <1>23, <1>24
  DEF Next, TurnStep, ResponderStep, ServerStep, ReaderStep, WriterStep

(* What one step may put into a channel: the event of a turn that runs, in *)
(* the channel of the handle of its thread.                                *)
Dispatched(e) ==
  /\ e \in Event /\ Runs(e.turn) /\ reader # "down"
  /\ e.kind = "ok" => server'[e.turn] = "ok"
  /\ e.kind = "item" => link /\ e.n = emitted[e.turn] + 1
  /\ emitted' = IF e.kind = "item" THEN [emitted EXCEPT ![e.turn] = e.n] ELSE emitted
  /\ Forward(thread[e.turn], e)
  /\ UNCHANGED <<thread, timedOut, pc, reply, writer, active_turns, shown>>

(* What it may take out of one: the first event, which an item that is     *)
(* handed on was.                                                          *)
Taken(t) ==
  /\ events[t] # <<>> /\ events'[t] = Tail(events[t])
  /\ pc[t] = "loop"
  /\ pc'[t] \notin {"unregister", "done"} =>
       shown'[t] = IF Head(events[t]).kind = "item"
                    THEN Head(events[t]).n ELSE shown[t]

Drained ==
  /\ emitted' = emitted
  /\ \A t \in Turns : (events'[t] = events[t] /\ shown'[t] = shown[t]) \/ Taken(t)

(* A step dispatches one event or takes first events, never both.          *)
LEMMA ChannelStep ==
  ASSUME Basics, [Next]_vars
  PROVE  Drained \/ \E e \in Event : Dispatched(e)
<1> USE AppServerAssumption DEF connVars, mapVars, askVars, turnVars, serverVars,
           historyVars, Goto, Return
<1>a. /\ events \in [Turns -> Seq(Event)]
      /\ shown \in [Turns -> Nat]
      /\ pc \in [Turns -> TurnStates]
      /\ emitted \in [Turns -> 0 .. MaxItems]
      /\ server \in [Turns -> {"none", "running", "asking", "ok", "err"}]
      /\ Forwarding
  BY DEF Basics, TypeOK
<1> DEFINE Goal == Drained \/ \E e \in Event : Dispatched(e)
<1>1. CASE UNCHANGED vars
  BY <1>a, <1>1 DEF vars, Drained
<1>2. ASSUME NEW t \in Turns, NEW s \in Sessions, BeginTurn(t, s) PROVE Goal
  BY <1>a, <1>2 DEF BeginTurn, StartCall, Drained
<1>3. ASSUME NEW t \in Turns, ThreadReply(t) PROVE Goal
  BY <1>a, <1>3 DEF ThreadReply, Drained
<1>4. ASSUME NEW t \in Turns, Register(t) PROVE Goal
  BY <1>a, <1>4 DEF Register, Drained
<1>5. ASSUME NEW t \in Turns, StartTurn(t) PROVE Goal
  BY <1>a, <1>5 DEF StartTurn, StartCall, Drained
<1>6. ASSUME NEW t \in Turns, TurnReply(t) PROVE Goal
  BY <1>a, <1>6 DEF TurnReply, Drained
<1>7. ASSUME NEW t \in Turns, CallTimeout(t) PROVE Goal
  BY <1>a, <1>7 DEF CallTimeout, Drained
<1>8. ASSUME NEW t \in Turns, LoopEvent(t) PROVE Goal
  BY <1>a, <1>8 DEF LoopEvent, HandOn, Drained, Taken
<1>9. ASSUME NEW t \in Turns, LoopCompletion(t) PROVE Goal
  BY <1>a, <1>9 DEF LoopCompletion, Drained
<1>10. ASSUME NEW t \in Turns, LoopClosed(t) PROVE Goal
  BY <1>a, <1>10 DEF LoopClosed, Drained
<1>11. ASSUME NEW t \in Turns, Unregister(t) PROVE Goal
  BY <1>a, <1>11 DEF Unregister, Drained
<1>12. ASSUME NEW r \in Responders, NEW p \in pending_interactions, NEW fits \in BOOLEAN,
             Lookup(r, p, fits)
      PROVE  Goal
  BY <1>a, <1>12 DEF Lookup, Drained
<1>13. ASSUME NEW r \in Responders, SendAnswer(r) PROVE Goal
  BY <1>a, <1>13 DEF SendAnswer, Drained
<1>14. ASSUME NEW r \in Responders, RemoveAnswered(r) PROVE Goal
  BY <1>a, <1>14 DEF RemoveAnswered, Drained
<1>15. ASSUME NEW t \in Turns, NEW m \in Methods, ServerReply(Call(t, m))
      PROVE  Goal
  BY <1>a, <1>15 DEF ServerReply, Answered, Awaits, Drained
<1>16. ASSUME NEW t \in Turns, ServerItem(t) PROVE Goal
  <2> DEFINE e == Message("item", t, emitted[t] + 1)
  <2>1. e \in Event /\ e.turn = t /\ e.kind = "item" /\ e.n = emitted[t] + 1
    BY <1>a DEF Message, Event
  <2>2. Dispatched(e)
    BY <1>16, <2>1 DEF ServerItem, Dispatched, Runs
  <2> QED
    BY <2>1, <2>2
<1>17. ASSUME NEW t \in Turns, NEW o \in {"ok", "err"}, ServerEnd(t, o)
      PROVE  Goal
  <2> DEFINE e == Message(o, t, 0)
  <2>1. e \in Event /\ e.turn = t /\ e.kind = o
    BY DEF Message, Event
  <2>2. Dispatched(e)
    BY <1>a, <1>17, <2>1 DEF ServerEnd, CompleteTurn, Dispatched, Runs
  <2> QED
    BY <2>1, <2>2
<1>18. ASSUME NEW t \in Turns, ServerAsk(t) PROVE Goal
  BY <1>a, <1>18 DEF ServerAsk, Drained
<1>19. CASE ForwardInteraction
  <2> DEFINE k == next_interaction_id - 1
             e == Message("pending", asked[k], k)
  <2>1. k \in Nat /\ asked[k] \in Turns /\ Runs(asked[k])
    BY <1>a, <1>19 DEF ForwardInteraction, Forwarding, Tokens
  <2>2. e \in Event /\ e.turn = asked[k] /\ e.kind = "pending"
    BY <2>1 DEF Message, Event
  <2>3. Forward(thread[asked[k]], e) /\ reader # "down"
    BY <1>19 DEF ForwardInteraction
  <2>4. Dispatched(e)
    <3>1. UNCHANGED <<thread, timedOut, pc, reply, writer, active_turns, shown, emitted>>
      BY <1>19 DEF ForwardInteraction
    <3> HIDE DEF e, k
    <3> QED
      BY <2>1, <2>2, <2>3, <3>1 DEF Dispatched
  <2> QED
    BY <2>2, <2>4
<1>20. CASE ReaderFails
  BY <1>a, <1>20 DEF ReaderFails, Drained
<1>21. CASE WriterSends
  BY <1>a, <1>21 DEF WriterSends, Drained
<1>22. CASE WriterFails
  BY <1>a, <1>22 DEF WriterFails, Drained
<1>23. CASE WriterEnds
  BY <1>a, <1>23 DEF WriterEnds, Drained
<1>24. CASE LinkLost
  BY <1>a, <1>24 DEF LinkLost, Drained
<1> QED
  BY <1>1, <1>2, <1>3, <1>4, <1>5, <1>6, <1>7, <1>8, <1>9, <1>10, <1>11, <1>12,
     <1>13, <1>14, <1>15, <1>16, <1>17, <1>18, <1>19, <1>20, <1>21, <1>22, <1>23, <1>24
  DEF Next, TurnStep, ResponderStep, ServerStep, ReaderStep, WriterStep

(* A turn of whose thread no call timed out gets its own events.           *)
LEMMA OwnEventsStep == ASSUME Basics, Owned, [Next]_vars PROVE OwnEvents'
<1> SUFFICES ASSUME NEW u \in Turns, Clean(thread[u])', (Intact \/ Listening(u))',
                    NEW i \in 1 .. Len(events'[u])
             PROVE  events'[u][i].turn = u
  BY DEF OwnEvents
<1>1. /\ Clean(thread[u]) /\ Onward(u)
      /\ Intact \/ Listening(u)
  BY CleanBefore, LinkStep, OnwardStep DEF Owned, Onward, LinkLive
<1>2. /\ events \in [Turns -> Seq(Event)]
      /\ \A j \in 1 .. Len(events[u]) : events[u][j].turn = u
  BY <1>1 DEF Basics, TypeOK, Owned, OwnEvents
<1>3. CASE Drained
  <2>1. CASE events'[u] = events[u]
    BY <1>2, <2>1
  <2>2. CASE events[u] # <<>> /\ events'[u] = Tail(events[u])
    <3>1. events'[u][i] = events[u][i + 1] /\ i + 1 \in 1 .. Len(events[u])
      BY <1>2, <2>2
    <3> QED
      BY <1>2, <3>1
  <2> QED
    BY <1>3, <2>1, <2>2 DEF Drained, Taken
<1>4. ASSUME NEW e \in Event, Dispatched(e) PROVE events'[u][i].turn = u
  <2> DEFINE th == thread[e.turn]
  <2>1. th \in Threads /\ e.turn \in Turns
    BY <1>4 DEF Dispatched, Event, Basics, TypeOK, ThreadKnown, Runs
  <2>2. CASE events'[u] = events[u]
    BY <1>2, <2>2
  <2>3. CASE events'[u] # events[u]
    <3>1. /\ Receiving(th) /\ active_turns[th] = u
          /\ events'[u] = Append(events[u], e)
      BY <1>2, <1>4, <2>3 DEF Dispatched, Forward
    <3>2. thread[u] = th
      BY <2>1, <3>1 DEF Receiving, Owned, HandlesFit
    <3>3. Intact
      <4>1. Listening(u)' => Listening(u)
        BY <1>4 DEF Dispatched, Listening
      <4>3. writer # "up" => ~Listening(u)
        BY <2>1, <3>1 DEF Receiving, Owned, LateHandles
      <4> QED
        BY <1>1, <1>4, <4>3 DEF Dispatched, Intact
    <3>4. e.turn = u
      BY <1>1, <1>4, <2>1, <3>1, <3>2, <3>3 DEF Owned, RunsOwned, Holds, Dispatched
    <3>5. CASE i = Len(events[u]) + 1
      BY <1>2, <3>1, <3>4, <3>5
    <3>6. CASE i # Len(events[u]) + 1
      <4>1. i \in 1 .. Len(events[u]) /\ events'[u][i] = events[u][i]
        BY <1>2, <3>1, <3>6
      <4> QED
        BY <1>2, <4>1
    <3> QED
      BY <3>5, <3>6
  <2> QED
    BY <2>2, <2>3
<1> QED
  BY <1>3, <1>4, ChannelStep

(* A Completed on its way is of a turn that ended, and so is a completion. *)
EndedFor(u) ==
  \A i \in 1 .. Len(events[u]) :
    events[u][i].kind = "ok" => server[events[u][i].turn] = "ok"

(* complete_turn is told of a turn when the server has completed it.       *)
LEMMA EndedEvents == ASSUME Basics, Owned, [Next]_vars, NEW u \in Turns PROVE EndedFor(u)'
<1> SUFFICES ASSUME NEW i \in 1 .. Len(events'[u]), events'[u][i].kind = "ok"
             PROVE  server'[events'[u][i].turn] = "ok"
  BY DEF EndedFor
<1>1. /\ events \in [Turns -> Seq(Event)]
      /\ \A j \in 1 .. Len(events[u]) :
           events[u][j].kind = "ok" => server[events[u][j].turn] = "ok"
  BY DEF Basics, TypeOK, Owned, Ended
<1>2. ASSUME NEW j \in 1 .. Len(events[u]), events'[u][i] = events[u][j]
      PROVE  server'[events'[u][i].turn] = "ok"
  <2>1. events[u][j] \in Event
    BY <1>1
  <2>2. events[u][j].turn \in Turns
    BY <2>1 DEF Event
  <2>3. Onward(events[u][j].turn)
    BY <2>2, OnwardStep DEF Owned
  <2> QED
    BY <1>1, <1>2, <2>3 DEF Onward
<1>3. CASE Drained
  <2>1. CASE events'[u] = events[u]
    BY <1>2, <2>1
  <2>2. CASE events[u] # <<>> /\ events'[u] = Tail(events[u])
    <3>1. events'[u][i] = events[u][i + 1] /\ i + 1 \in 1 .. Len(events[u])
      BY <1>1, <2>2
    <3> QED
      BY <1>2, <3>1
  <2> QED
    BY <1>3, <2>1, <2>2 DEF Drained, Taken
<1>4. ASSUME NEW e \in Event, Dispatched(e)
      PROVE  server'[events'[u][i].turn] = "ok"
  <2>1. events'[u] = events[u] \/ events'[u] = Append(events[u], e)
    BY <1>1, <1>4 DEF Dispatched, Forward
  <2>2. CASE i \in 1 .. Len(events[u])
    <3>1. events'[u][i] = events[u][i]
      BY <1>1, <2>1, <2>2
    <3> QED
      BY <1>2, <2>2, <3>1
  <2>3. CASE i \notin 1 .. Len(events[u])
    <3>1. events'[u][i] = e
      BY <1>1, <2>1, <2>3
    <3> QED
      BY <1>4, <3>1 DEF Dispatched
  <2> QED
    BY <2>2, <2>3
<1> QED
  BY <1>3, <1>4, ChannelStep

(* A completion comes from a turn of the thread that the server completed. *)
CompletedBy(u, t) ==
  /\ Runs(t) /\ link /\ server'[t] = "ok" /\ thread' = thread
  /\ Receiving(thread[t]) /\ active_turns[thread[t]] = u

(* A oneshot is filled with a success by complete_turn only.               *)
LEMMA CompletionFrom ==
  ASSUME Basics, [Next]_vars, NEW u \in Turns, completion'[u] = "ok",
         completion'[u] # completion[u]
  PROVE  \E t \in Turns : CompletedBy(u, t)
<1> USE AppServerAssumption DEF connVars, mapVars, askVars, turnVars, serverVars,
           historyVars, Goto, Return
<1> DEFINE Goal == \E t \in Turns : CompletedBy(u, t)
<1>a. /\ completion \in [Turns -> {"empty", "ok", "err"}]
      /\ server \in [Turns -> {"none", "running", "asking", "ok", "err"}]
      /\ completion'[u] = "ok" /\ completion'[u] # completion[u]
  BY DEF Basics, TypeOK
<1>1. CASE UNCHANGED vars
  BY <1>a, <1>1 DEF vars
<1>2. ASSUME NEW t \in Turns, NEW s \in Sessions, BeginTurn(t, s) PROVE Goal
  BY <1>a, <1>2 DEF BeginTurn, StartCall
<1>3. ASSUME NEW t \in Turns, ThreadReply(t) PROVE Goal
  BY <1>a, <1>3 DEF ThreadReply
<1>4. ASSUME NEW t \in Turns, Register(t) PROVE Goal
  BY <1>a, <1>4 DEF Register
<1>5. ASSUME NEW t \in Turns, StartTurn(t) PROVE Goal
  BY <1>a, <1>5 DEF StartTurn, StartCall
<1>6. ASSUME NEW t \in Turns, TurnReply(t) PROVE Goal
  BY <1>a, <1>6 DEF TurnReply
<1>7. ASSUME NEW t \in Turns, CallTimeout(t) PROVE Goal
  BY <1>a, <1>7 DEF CallTimeout
<1>8. ASSUME NEW t \in Turns, LoopEvent(t) PROVE Goal
  BY <1>a, <1>8 DEF LoopEvent
<1>9. ASSUME NEW t \in Turns, LoopCompletion(t) PROVE Goal
  BY <1>a, <1>9 DEF LoopCompletion
<1>10. ASSUME NEW t \in Turns, LoopClosed(t) PROVE Goal
  BY <1>a, <1>10 DEF LoopClosed
<1>11. ASSUME NEW t \in Turns, Unregister(t) PROVE Goal
  BY <1>a, <1>11 DEF Unregister
<1>12. ASSUME NEW r \in Responders, NEW p \in pending_interactions, NEW fits \in BOOLEAN,
             Lookup(r, p, fits) PROVE Goal
  BY <1>a, <1>12 DEF Lookup
<1>13. ASSUME NEW r \in Responders, SendAnswer(r) PROVE Goal
  BY <1>a, <1>13 DEF SendAnswer
<1>14. ASSUME NEW r \in Responders, RemoveAnswered(r) PROVE Goal
  BY <1>a, <1>14 DEF RemoveAnswered
<1>15. ASSUME NEW t \in Turns, NEW m \in Methods, ServerReply(Call(t, m)) PROVE Goal
  BY <1>a, <1>15 DEF ServerReply, Answered
<1>16. ASSUME NEW t \in Turns, ServerItem(t) PROVE Goal
  BY <1>a, <1>16 DEF ServerItem
<1>17. ASSUME NEW t \in Turns, NEW o \in {"ok", "err"}, ServerEnd(t, o) PROVE Goal
  <2>1. /\ Runs(t) /\ link /\ thread' = thread
        /\ active_turns[thread[t]] = u /\ Receiving(thread[t]) /\ o = "ok"
    BY <1>a, <1>17 DEF ServerEnd, CompleteTurn, Message, Runs
  <2>2. server'[t] = "ok"
    BY <1>a, <1>17, <2>1 DEF ServerEnd
  <2> QED
    BY <2>1, <2>2 DEF CompletedBy
<1>18. ASSUME NEW t \in Turns, ServerAsk(t) PROVE Goal
  BY <1>a, <1>18 DEF ServerAsk
<1>19. CASE ForwardInteraction
  BY <1>a, <1>19 DEF ForwardInteraction
<1>20. CASE ReaderFails
  BY <1>a, <1>20 DEF ReaderFails, FailAllActiveTurns
<1>21. CASE WriterSends
  BY <1>a, <1>21 DEF WriterSends
<1>22. CASE WriterFails
  BY <1>a, <1>22 DEF WriterFails, FailAllActiveTurns
<1>23. CASE WriterEnds
  BY <1>a, <1>23 DEF WriterEnds
<1>24. CASE LinkLost
  BY <1>a, <1>24 DEF LinkLost
<1> QED
  BY <1>1, <1>2, <1>3, <1>4, <1>5, <1>6, <1>7, <1>8, <1>9, <1>10, <1>11, <1>12,
     <1>13, <1>14, <1>15, <1>16, <1>17, <1>18, <1>19, <1>20, <1>21, <1>22, <1>23, <1>24
  DEF Next, TurnStep, ResponderStep, ServerStep, ReaderStep, WriterStep

(* Where no call timed out, that turn is the one whose oneshot it is.      *)
LEMMA CompletionStep ==
  ASSUME Basics, Owned, [Next]_vars, NEW u \in Turns, Clean(thread[u])', completion'[u] = "ok"
  PROVE  server'[u] = "ok"
<1>0. /\ Clean(thread[u]) /\ Onward(u)
      /\ completion[u] = "ok" => server[u] = "ok"
  BY CleanBefore, OnwardStep DEF Owned, Ended
<1>1. CASE completion'[u] = completion[u]
  BY <1>0, <1>1 DEF Onward
<1>2. CASE completion'[u] # completion[u]
  <2>1. PICK t \in Turns : CompletedBy(u, t)
    BY <1>2, CompletionFrom
  <2>2. thread[t] \in Threads /\ Intact
    BY <2>1 DEF CompletedBy, Runs, Basics, TypeOK, ThreadKnown, Owned, LinkLive
  <2>3. thread[u] = thread[t]
    BY <2>1, <2>2 DEF CompletedBy, Receiving, Owned, HandlesFit
  <2>4. t = u
    BY <1>0, <2>1, <2>2, <2>3 DEF CompletedBy, Owned, RunsOwned, Holds
  <2> QED
    BY <2>1, <2>4 DEF CompletedBy
<1> QED
  BY <1>1, <1>2

(* All of this holds from the start on.                                    *)
LEMMA OwnedHolds == Spec => [](Basics /\ Owned)
<1>1. Init => Owned
  BY DEF Init, Owned, LinkLive, Intact, CallsOnce, AsksOnce, InLine, Once, Early, HandleKept,
         Holding, HandlesFit, LateHandles, RunsOwned, Runs, OwnEvents, Ended
<1>2. Basics /\ Owned /\ [Next]_vars => Owned'
  <2> SUFFICES ASSUME Basics, Owned, [Next]_vars PROVE Owned'
    OBVIOUS
  <2>1. LinkLive' /\ CallsOnce' /\ HandleKept'
    BY LinkStep, CallsStep, HandleStep DEF Owned
  <2>2. HandlesFit' /\ LateHandles'
    BY HandlesFitStep, LateHandlesStep DEF Owned
  <2>3. RunsOwned' /\ OwnEvents'
    BY RunsOwnedStep, OwnEventsStep
  <2>4. Ended'
    BY EndedEvents, CompletionStep DEF Ended, EndedFor
  <2> QED
    BY <2>1, <2>2, <2>3, <2>4 DEF Owned
<1> QED
  BY <1>1, <1>2, BasicsHold, PTL DEF Spec

(* The server never runs two turns of a thread at once while the link is   *)
(* up, whatever fails in the tasks that wait (register_active_turn), if    *)
(* no turn/start call of the thread timed out.                             *)
THEOREM NoOverlapAlways == Spec => []NoOverlap
<1>1. Basics /\ Owned => NoOverlap
  <2> SUFFICES ASSUME Basics, Owned, link, NEW t \in Turns, NEW u \in Turns,
                      Runs(t), Runs(u), thread[t] = thread[u], Clean(thread[t])
               PROVE  t = u
    BY DEF NoOverlap
  <2>1. Intact
    BY DEF Owned, LinkLive
  <2> QED
    BY <2>1 DEF Owned, RunsOwned, Holds
<1> QED
  BY <1>1, OwnedHolds, PTL

(* A turn gets its own events (forward_to_turn), though they are addressed *)
(* to its thread, if no turn/start call of the thread timed out.           *)
THEOREM EventsAreOwnAlways == Spec => []EventsAreOwn
<1>1. Owned => EventsAreOwn
  BY DEF Owned, OwnEvents, EventsAreOwn, Listening
<1> QED
  BY <1>1, OwnedHolds, PTL

(* A turn succeeds by a Completed or a completion that is its own.         *)
LEMMA SuccessStep ==
  ASSUME Basics, Owned, [Next]_vars, NEW u \in Turns, Clean(thread[u]),
         result'[u] = "ok", result'[u] # result[u]
  PROVE  server[u] = "ok"
<1> USE AppServerAssumption DEF connVars, mapVars, askVars, turnVars, serverVars,
           historyVars, Goto, Return
<1>a. /\ result \in [Turns -> {"none", "ok", "err"}]
      /\ events \in [Turns -> Seq(Event)]
      /\ result'[u] = "ok" /\ result'[u] # result[u]
  BY DEF Basics, TypeOK
<1>1. CASE UNCHANGED vars
  BY <1>a, <1>1 DEF vars
<1>2. ASSUME NEW t \in Turns, NEW s \in Sessions, BeginTurn(t, s)
      PROVE  server[u] = "ok"
  BY <1>a, <1>2 DEF BeginTurn, StartCall
<1>3. ASSUME NEW t \in Turns, ThreadReply(t) PROVE server[u] = "ok"
  BY <1>a, <1>3 DEF ThreadReply
<1>4. ASSUME NEW t \in Turns, Register(t) PROVE server[u] = "ok"
  BY <1>a, <1>4 DEF Register
<1>5. ASSUME NEW t \in Turns, StartTurn(t) PROVE server[u] = "ok"
  BY <1>a, <1>5 DEF StartTurn, StartCall
<1>6. ASSUME NEW t \in Turns, TurnReply(t) PROVE server[u] = "ok"
  BY <1>a, <1>6 DEF TurnReply
<1>7. ASSUME NEW t \in Turns, CallTimeout(t) PROVE server[u] = "ok"
  BY <1>a, <1>7 DEF CallTimeout
<1>8. ASSUME NEW t \in Turns, LoopEvent(t) PROVE server[u] = "ok"
  <2>1. u = t /\ Listening(u) /\ events[u] # <<>> /\ Head(events[u]).kind = "ok"
    BY <1>a, <1>8 DEF LoopEvent, Listening
  <2>2. 1 \in 1 .. Len(events[u]) /\ Head(events[u]) = events[u][1]
    BY <1>a, <2>1
  <2> QED
    BY <2>1, <2>2 DEF Owned, OwnEvents, Ended
<1>9. ASSUME NEW t \in Turns, LoopCompletion(t) PROVE server[u] = "ok"
  <2>1. completion[u] = "ok"
    BY <1>a, <1>9 DEF LoopCompletion
  <2> QED
    BY <2>1 DEF Owned, Ended
<1>10. ASSUME NEW t \in Turns, LoopClosed(t) PROVE server[u] = "ok"
  BY <1>a, <1>10 DEF LoopClosed
<1>11. ASSUME NEW t \in Turns, Unregister(t) PROVE server[u] = "ok"
  BY <1>a, <1>11 DEF Unregister
<1>12. ASSUME NEW r \in Responders, NEW p \in pending_interactions, NEW fits \in BOOLEAN,
             Lookup(r, p, fits)
      PROVE  server[u] = "ok"
  BY <1>a, <1>12 DEF Lookup
<1>13. ASSUME NEW r \in Responders, SendAnswer(r) PROVE server[u] = "ok"
  BY <1>a, <1>13 DEF SendAnswer
<1>14. ASSUME NEW r \in Responders, RemoveAnswered(r) PROVE server[u] = "ok"
  BY <1>a, <1>14 DEF RemoveAnswered
<1>15. ASSUME NEW t \in Turns, NEW m \in Methods, ServerReply(Call(t, m))
      PROVE  server[u] = "ok"
  BY <1>a, <1>15 DEF ServerReply, Answered, Awaits
<1>16. ASSUME NEW t \in Turns, ServerItem(t) PROVE server[u] = "ok"
  BY <1>a, <1>16 DEF ServerItem
<1>17. ASSUME NEW t \in Turns, NEW o \in {"ok", "err"}, ServerEnd(t, o)
      PROVE  server[u] = "ok"
  BY <1>a, <1>17 DEF ServerEnd
<1>18. ASSUME NEW t \in Turns, ServerAsk(t) PROVE server[u] = "ok"
  BY <1>a, <1>18 DEF ServerAsk
<1>19. CASE ForwardInteraction
  BY <1>a, <1>19 DEF ForwardInteraction
<1>20. CASE ReaderFails
  BY <1>a, <1>20 DEF ReaderFails
<1>21. CASE WriterSends
  BY <1>a, <1>21 DEF WriterSends
<1>22. CASE WriterFails
  BY <1>a, <1>22 DEF WriterFails
<1>23. CASE WriterEnds
  BY <1>a, <1>23 DEF WriterEnds
<1>24. CASE LinkLost
  BY <1>a, <1>24 DEF LinkLost
<1> QED
  BY <1>1, <1>2, <1>3, <1>4, <1>5, <1>6, <1>7, <1>8, <1>9, <1>10, <1>11, <1>12,
     <1>13, <1>14, <1>15, <1>16, <1>17, <1>18, <1>19, <1>20, <1>21, <1>22, <1>23, <1>24
  DEF Next, TurnStep, ResponderStep, ServerStep, ReaderStep, WriterStep

(* Success is reported of a turn that ended, never for the completion of   *)
(* another turn of its thread (run_turn's two ways out with Ok), if no     *)
(* turn/start call of the thread timed out.                                *)
THEOREM SuccessIsOwnAlways == Spec => []SuccessIsOwn
<1>1. Init => SuccessIsOwn
  BY DEF Init, SuccessIsOwn
<1>2. Basics /\ Owned /\ SuccessIsOwn /\ [Next]_vars => SuccessIsOwn'
  <2> SUFFICES ASSUME Basics, Owned, SuccessIsOwn, [Next]_vars, NEW u \in Turns,
                      result'[u] = "ok", Clean(thread[u])'
               PROVE  server'[u] = "ok"
    BY DEF SuccessIsOwn
  <2>1. Clean(thread[u]) /\ Onward(u)
    BY CleanBefore, OnwardStep DEF Owned
  <2>2. server[u] = "ok"
    BY <2>1, SuccessStep DEF SuccessIsOwn
  <2> QED
    BY <2>1, <2>2 DEF Onward
<1> QED
  BY <1>1, <1>2, OwnedHolds, PTL DEF Spec

(* What a call returned is there from its last steps on; nothing is handed *)
(* on before its loop; a thread somebody has is one the server has.        *)
Progress ==
  /\ \A t \in Turns : result[t] # "none" <=> pc[t] \in {"unregister", "done"}
  /\ \A t \in Turns : pc[t] \notin {"loop", "unregister", "done"} => shown[t] = 0
  /\ \A t \in Turns : thread[t] \in known \cup {NoThread}

(* Whatever is in a channel is of a turn of the same thread, and an item   *)
(* is one it emitted; a completion is of such a turn.                      *)
Kin(t, e) ==
  /\ thread[e.turn] = thread[t] /\ server[e.turn] # "none"
  /\ e.kind = "item" => e.n \in 1 .. emitted[e.turn]

SameThread ==
  \A t \in Turns :
    /\ \A i \in 1 .. Len(events[t]) : Kin(t, events[t][i])
    /\ completion[t] = "ok" => \E u \in Turns : server[u] = "ok" /\ thread[u] = thread[t]

(* What was emitted for a turn (b) and not yet handed on (from a on) is in *)
(* its channel, in order, as long as it may come to be handed on.          *)
Items(s) == {i \in 1 .. Len(s) : s[i].kind = "item"}

Consecutive(s, a, b) ==
  /\ a <= b
  /\ \A i \in Items(s) : s[i].n \in a + 1 .. b
  /\ \A i, j \in Items(s) : i < j => s[i].n < s[j].n
  /\ \A n \in a + 1 .. b : \E i \in Items(s) : s[i].n = n

Awaiting(t) == pc[t] \notin {"unregister", "done"} /\ Clean(thread[t])

InOrder ==
  \A t \in Turns : Awaiting(t) /\ (Intact \/ Listening(t)) =>
    Consecutive(events[t], shown[t], emitted[t])

(* A step that returns a result leaves its call's last steps to come, and  *)
(* one that hands an item on is of a loop.                                 *)
LEMMA ProgressStep == ASSUME Basics, Progress, [Next]_vars PROVE Progress'
<1> USE AppServerAssumption DEF connVars, mapVars, askVars, turnVars, serverVars,
           historyVars, Goto, Return
<1>a. /\ pc \in [Turns -> TurnStates]
      /\ result \in [Turns -> {"none", "ok", "err"}]
      /\ shown \in [Turns -> Nat]
      /\ thread \in [Turns -> Threads \cup {NoThread}]
      /\ reply \in [Turns -> {"none", "ok", "err"}]
      /\ completion \in [Turns -> {"empty", "ok", "err"}]
      /\ Progress
  BY DEF Basics, TypeOK
<1>1. CASE UNCHANGED vars
  BY <1>a, <1>1 DEF vars, Progress
<1>2. ASSUME NEW t \in Turns, NEW s \in Sessions, BeginTurn(t, s) PROVE Progress'
  BY <1>a, <1>2 DEF BeginTurn, StartCall, Sessions, Progress
<1>3. ASSUME NEW t \in Turns, ThreadReply(t) PROVE Progress'
  BY <1>a, <1>3 DEF ThreadReply, Progress
<1>4. ASSUME NEW t \in Turns, Register(t) PROVE Progress'
  BY <1>a, <1>4 DEF Register, Progress
<1>5. ASSUME NEW t \in Turns, StartTurn(t) PROVE Progress'
  BY <1>a, <1>5 DEF StartTurn, StartCall, Progress
<1>6. ASSUME NEW t \in Turns, TurnReply(t) PROVE Progress'
  BY <1>a, <1>6 DEF TurnReply, Progress
<1>7. ASSUME NEW t \in Turns, CallTimeout(t) PROVE Progress'
  BY <1>a, <1>7 DEF CallTimeout, Progress
<1>8. ASSUME NEW t \in Turns, LoopEvent(t) PROVE Progress'
  BY <1>a, <1>8 DEF LoopEvent, HandOn, Progress
<1>9. ASSUME NEW t \in Turns, LoopCompletion(t) PROVE Progress'
  BY <1>a, <1>9 DEF LoopCompletion, Progress
<1>10. ASSUME NEW t \in Turns, LoopClosed(t) PROVE Progress'
  BY <1>a, <1>10 DEF LoopClosed, Progress
<1>11. ASSUME NEW t \in Turns, Unregister(t) PROVE Progress'
  BY <1>a, <1>11 DEF Unregister, Progress
<1>12. ASSUME NEW r \in Responders, NEW p \in pending_interactions, NEW fits \in BOOLEAN,
             Lookup(r, p, fits) PROVE Progress'
  BY <1>a, <1>12 DEF Lookup, Progress
<1>13. ASSUME NEW r \in Responders, SendAnswer(r) PROVE Progress'
  BY <1>a, <1>13 DEF SendAnswer, Progress
<1>14. ASSUME NEW r \in Responders, RemoveAnswered(r) PROVE Progress'
  BY <1>a, <1>14 DEF RemoveAnswered, Progress
<1>15. ASSUME NEW t \in Turns, NEW m \in Methods, ServerReply(Call(t, m))
      PROVE  Progress'
  <2>1. /\ UNCHANGED <<pc, result, shown>>
        /\ \/ UNCHANGED <<thread, known>>
           \/ \E th \in Threads : thread' = [thread EXCEPT ![t] = th] /\ known' = known \cup {th}
    BY <1>15 DEF ServerReply, Call
  <2> QED
    BY <1>a, <2>1 DEF Progress
<1>16. ASSUME NEW t \in Turns, ServerItem(t) PROVE Progress'
  BY <1>a, <1>16 DEF ServerItem, Progress
<1>17. ASSUME NEW t \in Turns, NEW o \in {"ok", "err"}, ServerEnd(t, o) PROVE Progress'
  BY <1>a, <1>17 DEF ServerEnd, Progress
<1>18. ASSUME NEW t \in Turns, ServerAsk(t) PROVE Progress'
  BY <1>a, <1>18 DEF ServerAsk, Progress
<1>19. CASE ForwardInteraction
  BY <1>a, <1>19 DEF ForwardInteraction, Progress
<1>20. CASE ReaderFails
  BY <1>a, <1>20 DEF ReaderFails, Progress
<1>21. CASE WriterSends
  BY <1>a, <1>21 DEF WriterSends, Progress
<1>22. CASE WriterFails
  BY <1>a, <1>22 DEF WriterFails, Progress
<1>23. CASE WriterEnds
  BY <1>a, <1>23 DEF WriterEnds, Progress
<1>24. CASE LinkLost
  BY <1>a, <1>24 DEF LinkLost, Progress
<1> QED
  BY <1>1, <1>2, <1>3, <1>4, <1>5, <1>6, <1>7, <1>8, <1>9, <1>10, <1>11, <1>12,
     <1>13, <1>14, <1>15, <1>16, <1>17, <1>18, <1>19, <1>20, <1>21, <1>22, <1>23, <1>24
  DEF Next, TurnStep, ResponderStep, ServerStep, ReaderStep, WriterStep

(* Kinship lasts: threads stay, and what a turn said is not unsaid.        *)
LEMMA KinStays ==
  ASSUME Basics, Owned, [Next]_vars, NEW u \in Turns, NEW e \in Event, Kin(u, e)
  PROVE  Kin(u, e)'
<1>1. e.turn \in Turns /\ (e.kind = "item" => e.n \in Nat)
  BY DEF Event
<1>2. thread[e.turn] # NoThread /\ Onward(e.turn) /\ Onward(u)
  BY <1>1, OnwardStep DEF Kin, Basics, ThreadKnown, Owned
<1>3. thread'[e.turn] = thread'[u] /\ server'[e.turn] # "none"
  BY <1>2 DEF Kin, Onward
<1>4. e.kind = "item" => e.n \in 1 .. emitted'[e.turn]
  <2>1. emitted[e.turn] \in Nat /\ emitted'[e.turn] \in Nat /\ emitted[e.turn] <= emitted'[e.turn]
    <3>1. emitted \in [Turns -> 0 .. MaxItems] /\ emitted' \in [Turns -> 0 .. MaxItems]
      BY TypeStep DEF Basics, TypeOK
    <3> QED
      BY <1>1, <1>2, <3>1, AppServerAssumption DEF Onward
  <2> QED
    BY <1>1, <2>1 DEF Kin
<1> QED
  BY <1>3, <1>4 DEF Kin

(* An event in a channel was there before, or the reader just put it there *)
(* by the thread of its turn (forward_to_turn).                            *)
LEMMA KinEvents ==
  ASSUME Basics, Owned, SameThread, [Next]_vars, NEW u \in Turns,
         NEW i \in 1 .. Len(events'[u]), NEW f, f = events'[u][i]
  PROVE  Kin(u, f)'
<1>1. /\ events \in [Turns -> Seq(Event)]
      /\ \A j \in 1 .. Len(events[u]) : events[u][j] \in Event /\ Kin(u, events[u][j])
  BY DEF Basics, TypeOK, SameThread
<1>2. ASSUME NEW j \in 1 .. Len(events[u]), f = events[u][j]
      PROVE  Kin(u, f)'
  BY <1>1, <1>2, KinStays
<1>3. CASE Drained
  <2>1. CASE events'[u] = events[u]
    BY <1>2, <2>1
  <2>2. CASE events[u] # <<>> /\ events'[u] = Tail(events[u])
    <3>1. events'[u][i] = events[u][i + 1] /\ i + 1 \in 1 .. Len(events[u])
      BY <1>1, <2>2
    <3> QED
      BY <1>2, <3>1
  <2> QED
    BY <1>3, <2>1, <2>2 DEF Drained, Taken
<1>4. ASSUME NEW e \in Event, Dispatched(e)
      PROVE  Kin(u, f)'
  <2>1. CASE i \in 1 .. Len(events[u]) /\ events'[u][i] = events[u][i]
    BY <1>2, <2>1
  <2>2. CASE ~(i \in 1 .. Len(events[u]) /\ events'[u][i] = events[u][i])
    <3> DEFINE th == thread[e.turn]
    <3>1. th \in Threads /\ e.turn \in Turns
      BY <1>4 DEF Dispatched, Event, Basics, TypeOK, ThreadKnown, Runs
    <3>2. active_turns[th] = u /\ Receiving(th) /\ events'[u] = Append(events[u], e)
      BY <1>1, <1>4, <2>2 DEF Dispatched, Forward
    <3>3. thread[u] = th
      BY <3>1, <3>2 DEF Receiving, Owned, HandlesFit
    <3>4. f = e
      BY <1>1, <2>2, <3>2
    <3>5. thread'[e.turn] = thread'[u] /\ server'[e.turn] # "none"
      <4>1. Onward(e.turn) /\ server[e.turn] # "none"
        BY <1>4, <3>1, OnwardStep DEF Owned, Dispatched, Runs
      <4> QED
        BY <1>4, <3>3, <4>1 DEF Dispatched, Onward
    <3>6. e.kind = "item" => e.n \in 1 .. emitted'[e.turn]
      <4>1. e.kind = "item" => emitted'[e.turn] = e.n /\ e.n = emitted[e.turn] + 1
        BY <1>4, <3>1 DEF Dispatched, Basics, TypeOK
      <4>2. emitted[e.turn] \in Nat
        BY <3>1, AppServerAssumption DEF Basics, TypeOK
      <4> QED
        BY <4>1, <4>2
    <3> QED
      BY <3>4, <3>5, <3>6 DEF Kin
  <2> QED
    BY <2>1, <2>2
<1> QED
  BY <1>3, <1>4, ChannelStep

(* No channel and no oneshot gets anything of another thread.              *)
LEMMA SameThreadStep == ASSUME Basics, Owned, SameThread, [Next]_vars PROVE SameThread'
<1> SUFFICES ASSUME NEW u \in Turns, completion'[u] = "ok"
             PROVE  \E v \in Turns : server'[v] = "ok" /\ thread'[v] = thread'[u]
  <2>1. ASSUME NEW u \in Turns, NEW i \in 1 .. Len(events'[u]) PROVE Kin(u, events[u][i])'
    <3>1. \A f : f = events'[u][i] =>
                  /\ thread'[f.turn] = thread'[u] /\ server'[f.turn] # "none"
                  /\ f.kind = "item" => f.n \in 1 .. emitted'[f.turn]
      BY KinEvents DEF Kin
    <3> QED
      BY <3>1 DEF Kin
  <2> QED
    BY <2>1 DEF SameThread
<1>1. CASE completion'[u] = completion[u]
  <2>1. PICK v \in Turns : server[v] = "ok" /\ thread[v] = thread[u]
    BY <1>1 DEF SameThread
  <2>2. thread[v] # NoThread /\ Onward(v) /\ Onward(u)
    BY <2>1, OnwardStep DEF Basics, ThreadKnown, Owned
  <2> QED
    BY <2>1, <2>2 DEF Onward
<1>2. CASE completion'[u] # completion[u]
  <2>1. PICK t \in Turns : CompletedBy(u, t)
    BY <1>2, CompletionFrom
  <2>2. thread[t] \in Threads
    BY <2>1 DEF CompletedBy, Runs, Basics, TypeOK, ThreadKnown
  <2>3. thread[u] = thread[t]
    BY <2>1, <2>2 DEF CompletedBy, Receiving, Owned, HandlesFit
  <2> QED
    BY <2>1, <2>3 DEF CompletedBy
<1> QED
  BY <1>1, <1>2

(* Taking the first event keeps the rest consecutive, and an item is next. *)
LEMMA TakeNext ==
  ASSUME NEW s \in Seq(Event), s # <<>>, NEW a \in Nat, NEW b \in Nat, Consecutive(s, a, b)
  PROVE  LET h == Head(s) IN
         /\ h.kind = "item" => h.n = a + 1 /\ a < b
         /\ Consecutive(Tail(s), IF h.kind = "item" THEN h.n ELSE a, b)
<1> DEFINE p == Tail(s)
           h == Head(s)
<1>1. /\ Len(s) \in Nat /\ Len(s) >= 1 /\ h = s[1] /\ Len(p) = Len(s) - 1
      /\ \A i \in 1 .. Len(p) : p[i] = s[i + 1]
      /\ \A i \in 1 .. Len(s) : s[i] \in Event
  OBVIOUS
<1> HIDE DEF p, h
<1>2. /\ \A i \in Items(p) : i + 1 \in Items(s) /\ p[i] = s[i + 1] /\ i \in Nat /\ 1 <= i
      /\ \A i \in Items(s) : i # 1 => i - 1 \in Items(p) /\ p[i - 1] = s[i]
      /\ \A i \in Items(s) : i \in Nat /\ 1 <= i /\ s[i].n \in Nat
      /\ h.kind = "item" <=> 1 \in Items(s)
  BY <1>1 DEF Items, Event
<1> HIDE DEF Items
<1>5. \A i, j \in Items(p) : i < j => p[i].n < p[j].n
  <2> SUFFICES ASSUME NEW i \in Items(p), NEW j \in Items(p), i < j PROVE p[i].n < p[j].n
    OBVIOUS
  <2>1. i + 1 \in Items(s) /\ j + 1 \in Items(s) /\ i + 1 < j + 1
    BY <1>2
  <2> QED
    BY <1>2, <2>1 DEF Consecutive
<1>3. CASE h.kind = "item"
  <2>1. 1 \in Items(s) /\ h.n \in a + 1 .. b
    BY <1>1, <1>2, <1>3 DEF Consecutive
  <2>2. h.n = a + 1
    <3>1. PICK i \in Items(s) : s[i].n = a + 1
      BY <2>1 DEF Consecutive
    <3>2. i = 1
      BY <1>1, <1>2, <2>1, <3>1 DEF Consecutive
    <3> QED
      BY <1>1, <3>1, <3>2
  <2>3. \A i \in Items(p) : p[i].n \in a + 2 .. b
    <3> SUFFICES ASSUME NEW i \in Items(p) PROVE p[i].n \in a + 2 .. b
      OBVIOUS
    <3>1. i + 1 \in Items(s) /\ p[i] = s[i + 1] /\ 1 < i + 1
      BY <1>2
    <3>2. s[1].n < s[i + 1].n /\ s[i + 1].n \in a + 1 .. b
      BY <2>1, <3>1 DEF Consecutive
    <3> QED
      BY <1>1, <2>2, <3>1, <3>2
  <2>4. \A n \in a + 2 .. b : \E i \in Items(p) : p[i].n = n
    <3> SUFFICES ASSUME NEW n \in a + 2 .. b PROVE \E i \in Items(p) : p[i].n = n
      OBVIOUS
    <3>1. PICK i \in Items(s) : s[i].n = n
      BY DEF Consecutive
    <3>2. i # 1
      BY <1>1, <2>2, <3>1
    <3> QED
      BY <1>2, <3>1, <3>2
  <2>5. a + 1 <= b
    BY <2>1, <2>2
  <2>6. Consecutive(p, a + 1, b)
    BY <1>5, <2>3, <2>4, <2>5 DEF Consecutive
  <2> QED
    BY <1>3, <2>2, <2>5, <2>6 DEF p, h
<1>4. CASE h.kind # "item"
  <2>1. 1 \notin Items(s)
    BY <1>2, <1>4
  <2>2. \A n \in a + 1 .. b : \E i \in Items(p) : p[i].n = n
    <3> SUFFICES ASSUME NEW n \in a + 1 .. b PROVE \E i \in Items(p) : p[i].n = n
      OBVIOUS
    <3>1. PICK i \in Items(s) : s[i].n = n
      BY DEF Consecutive
    <3> QED
      BY <1>2, <2>1, <3>1
  <2>3. \A i \in Items(p) : p[i].n \in a + 1 .. b
    BY <1>2 DEF Consecutive
  <2>4. Consecutive(p, a, b)
    BY <1>5, <2>2, <2>3 DEF Consecutive
  <2> QED
    BY <1>4, <2>4 DEF p, h
<1> QED
  BY <1>3, <1>4

(* An item that joins is the next one emitted.                             *)
LEMMA JoinLast ==
  ASSUME NEW s \in Seq(Event), NEW a \in Nat, NEW b \in Nat, Consecutive(s, a, b),
         NEW e \in Event, e.kind = "item" => e.n = b + 1
  PROVE  Consecutive(Append(s, e), a, IF e.kind = "item" THEN b + 1 ELSE b)
<1> DEFINE p == Append(s, e)
<1>1. /\ Len(s) \in Nat /\ Len(p) = Len(s) + 1 /\ p[Len(s) + 1] = e
      /\ \A i \in 1 .. Len(s) : p[i] = s[i]
  OBVIOUS
<1> HIDE DEF p
<1>2. /\ \A i \in Items(s) : i \in Items(p) /\ p[i] = s[i] /\ i \in Nat /\ i <= Len(s)
      /\ \A i \in Items(p) : i \in Items(s) \/ (i = Len(s) + 1 /\ e.kind = "item")
      /\ e.kind = "item" => Len(s) + 1 \in Items(p)
  BY <1>1 DEF Items
<1> HIDE DEF Items
<1>3. CASE e.kind = "item"
  <2>1. \A i \in Items(p) : p[i].n \in a + 1 .. b + 1
    BY <1>1, <1>2, <1>3 DEF Consecutive
  <2>2. \A i, j \in Items(p) : i < j => p[i].n < p[j].n
    <3> SUFFICES ASSUME NEW i \in Items(p), NEW j \in Items(p), i < j PROVE p[i].n < p[j].n
      OBVIOUS
    <3>1. i \in Items(s)
      BY <1>1, <1>2
    <3>2. CASE j \in Items(s)
      BY <1>2, <3>1, <3>2 DEF Consecutive
    <3>3. CASE j = Len(s) + 1
      <4>1. p[j].n = b + 1 /\ p[i].n \in a + 1 .. b
        BY <1>1, <1>2, <1>3, <3>1, <3>3 DEF Consecutive
      <4> QED
        BY <4>1
    <3> QED
      BY <1>2, <3>2, <3>3
  <2>3. \A n \in a + 1 .. b + 1 : \E i \in Items(p) : p[i].n = n
    <3> SUFFICES ASSUME NEW n \in a + 1 .. b + 1 PROVE \E i \in Items(p) : p[i].n = n
      OBVIOUS
    <3>1. CASE n = b + 1
      BY <1>1, <1>2, <1>3, <3>1
    <3>2. CASE n # b + 1
      <4>1. n \in a + 1 .. b
        BY <3>2
      <4> QED
        BY <1>2, <4>1 DEF Consecutive
    <3> QED
      BY <3>1, <3>2
  <2>4. a <= b + 1
    BY DEF Consecutive
  <2> QED
    BY <1>3, <2>1, <2>2, <2>3, <2>4 DEF Consecutive, p
<1>4. CASE e.kind # "item"
  <2>1. \A i \in Items(p) : p[i].n \in a + 1 .. b
    BY <1>2, <1>4 DEF Consecutive
  <2>2. \A i, j \in Items(p) : i < j => p[i].n < p[j].n
    BY <1>2, <1>4 DEF Consecutive
  <2>3. \A n \in a + 1 .. b : \E i \in Items(p) : p[i].n = n
    BY <1>2 DEF Consecutive
  <2> QED
    BY <1>4, <2>1, <2>2, <2>3 DEF Consecutive, p
<1> QED
  BY <1>3, <1>4

(* A channel stays in order: only its own turn's items join it, and those  *)
(* all do, for the server runs a turn only while it holds the handle.      *)
LEMMA InOrderStep == ASSUME Basics, Owned, InOrder, [Next]_vars PROVE InOrder'
<1> SUFFICES ASSUME NEW u \in Turns, Awaiting(u)', (Intact \/ Listening(u))'
             PROVE  Consecutive(events'[u], shown'[u], emitted'[u])
  BY DEF InOrder
<1>1. /\ Awaiting(u) /\ (Intact \/ Listening(u))
  BY CleanBefore, LinkStep, OnwardStep DEF Owned, Onward, LinkLive, Awaiting
<1>2. /\ events \in [Turns -> Seq(Event)] /\ events[u] \in Seq(Event)
      /\ shown[u] \in Nat /\ emitted[u] \in Nat
      /\ emitted \in [Turns -> 0 .. MaxItems]
      /\ Consecutive(events[u], shown[u], emitted[u])
  BY <1>1, AppServerAssumption DEF Basics, TypeOK, InOrder
<1>3. CASE Drained
  <2>1. emitted'[u] = emitted[u]
    BY <1>3 DEF Drained
  <2>2. CASE events'[u] = events[u] /\ shown'[u] = shown[u]
    BY <1>2, <2>1, <2>2
  <2>3. CASE Taken(u)
    BY <1>2, <2>1, <2>3, TakeNext DEF Taken, Awaiting
  <2> QED
    BY <1>3, <2>2, <2>3 DEF Drained
<1>4. ASSUME NEW e \in Event, Dispatched(e)
      PROVE  Consecutive(events'[u], shown'[u], emitted'[u])
  <2>0. shown'[u] = shown[u] /\ e.turn \in Turns
    BY <1>4 DEF Dispatched, Event
  <2>1. events'[u] = events[u] \/ events'[u] = Append(events[u], e)
    BY <1>2, <1>4 DEF Dispatched, Forward
  <2>2. CASE events'[u] = Append(events[u], e)
    <3>1. e.turn = u
      <4>1. Len(events'[u]) \in 1 .. Len(events'[u]) /\ events'[u][Len(events'[u])] = e
        BY <1>2, <2>2
      <4>2. OwnEvents'
        BY OwnEventsStep
      <4> QED
        BY <4>1, <4>2 DEF OwnEvents, Awaiting
    <3>2. emitted'[u] = IF e.kind = "item" THEN emitted[u] + 1 ELSE emitted[u]
      BY <1>2, <1>4, <3>1 DEF Dispatched
    <3>3. e.kind = "item" => e.n = emitted[u] + 1
      BY <1>4, <3>1 DEF Dispatched
    <3> QED
      BY <1>2, <2>0, <2>2, <3>2, <3>3, JoinLast
  <2>3. CASE events'[u] = events[u]
    <3>1. ASSUME e.kind = "item", e.turn = u PROVE FALSE
      <4>1. Intact
        BY <1>4, <3>1 DEF Dispatched, Owned, LinkLive
      <4>2. Holds(u) /\ thread[u] \in Threads
        BY <1>1, <1>4, <3>1, <4>1
        DEF Dispatched, Owned, RunsOwned, Awaiting, Basics, TypeOK, ThreadKnown, Runs
      <4>3. Receiving(thread[u])
        BY <1>1, <4>2, AppServerAssumption DEF Holds, Receiving, Awaiting
      <4>4. events'[u] = Append(events[u], e)
        BY <1>2, <1>4, <3>1, <4>2, <4>3 DEF Dispatched, Forward, Holds
      <4> QED
        BY <1>2, <2>3, <4>4
    <3>2. emitted'[u] = emitted[u]
      BY <1>2, <1>4, <2>0, <3>1 DEF Dispatched
    <3> QED
      BY <1>2, <2>0, <2>3, <3>2
  <2> QED
    BY <2>1, <2>2, <2>3
<1> QED
  BY <1>3, <1>4, ChannelStep

-----------------------------------------------------------------------------
(* AppServer implements ThreadTurn.                                        *)

(* What the contract needs besides Basics and Owned.                       *)
Told == Progress /\ SameThread /\ InOrder

(* What a call shows of itself when it moves on, and when it returns.      *)
LEMMA PhaseMoves ==
  ASSUME Basics, Progress, NEW t \in Turns, NEW q \in TurnStates, q # "idle",
         pc' = [pc EXCEPT ![t] = q]
  PROVE  /\ pc[t] # "idle" /\ result' = result => Phase' = Phase
         /\ \A r \in {"ok", "err"} :
              pc[t] \notin {"idle", "unregister", "done"} /\ result' = [result EXCEPT ![t] = r]
                => Phase[t] = "open" /\ Phase' = [Phase EXCEPT ![t] = r]
<1>1. pc \in [Turns -> TurnStates] /\ result \in [Turns -> {"none", "ok", "err"}]
  BY DEF Basics, TypeOK
<1>2. pc[t] # "idle" /\ result' = result => Phase' = Phase
  BY <1>1 DEF Phase
<1>3. ASSUME NEW r \in {"ok", "err"}, pc[t] \notin {"idle", "unregister", "done"},
             result' = [result EXCEPT ![t] = r]
      PROVE  Phase[t] = "open" /\ Phase' = [Phase EXCEPT ![t] = r]
  <2>1. result[t] = "none"
    BY <1>1, <1>3 DEF Progress
  <2> QED
    BY <1>1, <1>3, <2>1 DEF Phase
<1> QED
  BY <1>2, <1>3

(* Threads in doubt stay so, and come in doubt by a timeout only.          *)
LEMMA DoubtStays ==
  ASSUME Basics, CallsOnce, [Next]_vars
  PROVE  /\ timedOut' = timedOut => Doubtful' = Doubtful
         /\ \A t \in Turns : timedOut' = timedOut \cup {t} /\ thread' = thread
              => Doubtful' = Doubtful \cup {thread[t]}
<1>1. \A w \in timedOut : thread'[w] = thread[w]
  <2>1. \A w \in timedOut : w \in Turns /\ thread[w] # NoThread
    BY DEF Basics, TypeOK, ThreadKnown
  <2> QED
    BY <2>1, OnwardStep DEF Onward
<1> QED
  BY <1>1 DEF Doubtful

(* What the server does for a turn shows only in its state.                *)
LEMMA AgentStays == server' = server => Agent' = Agent
  BY DEF Agent, Runs

(* A call is sure of its thread if no turn/start of it timed out (call).   *)
LEMMA SureIsClean == \A t \in Turns : Turn!Sure(t) <=> Clean(thread[t])
  BY DEF Turn!Sure, Doubtful, Clean

(* A step of which the contract says nothing.                              *)
LEMMA Unseen ==
  ASSUME Basics, CallsOnce, [Next]_vars,
         UNCHANGED <<pc, result, thread, emitted, shown, timedOut>>, Agent' = Agent
  PROVE  UNCHANGED Turn!vars
<1>1. Phase' = Phase
  BY DEF Phase
<1> QED
  BY <1>1, DoubtStays DEF Turn!vars

(* A call that returns has failed or, if a turn of the thread and in no    *)
(* doubt its own ended well, succeeded.                                    *)
LEMMA Returned ==
  ASSUME Basics, Owned, Progress, [Next]_vars, NEW t \in Turns, NEW q \in TurnStates,
         q # "idle", pc' = [pc EXCEPT ![t] = q], pc[t] \notin {"idle", "unregister", "done"},
         UNCHANGED <<thread, server, emitted, shown, timedOut>>
  PROVE  /\ result' = [result EXCEPT ![t] = "err"] => Turn!Fail(t)
         /\ result' = [result EXCEPT ![t] = "ok"] /\
            (\E u \in Turns : server[u] = "ok" /\ thread[u] = thread[t]) => Turn!Succeed(t)
<1>1. Agent' = Agent /\ Doubtful' = Doubtful
  BY AgentStays, DoubtStays DEF Owned
<1>2. ASSUME result' = [result EXCEPT ![t] = "err"] PROVE Turn!Fail(t)
  <2>1. Phase[t] = "open" /\ Phase' = [Phase EXCEPT ![t] = "err"]
    BY <1>2, PhaseMoves
  <2> QED
    BY <1>1, <2>1 DEF Turn!Fail
<1>3. ASSUME result' = [result EXCEPT ![t] = "ok"],
             NEW u \in Turns, server[u] = "ok", thread[u] = thread[t]
      PROVE  Turn!Succeed(t)
  <2>1. Phase[t] = "open" /\ Phase' = [Phase EXCEPT ![t] = "ok"]
    BY <1>3, PhaseMoves
  <2>2. \A v \in Turns : server[v] = "ok" => Agent[v] = "ok"
    BY DEF Agent, Runs
  <2>3. Turn!Sure(t) => server[t] = "ok"
    <3>1. result'[t] # result[t] /\ result'[t] = "ok"
      BY <1>3 DEF Progress, Basics, TypeOK
    <3> QED
      BY <3>1, SuccessStep, SureIsClean
  <2>4. \E v \in Turns : Agent[v] = "ok" /\ thread[v] = thread[t] /\ (Turn!Sure(t) => v = t)
    BY <1>3, <2>2, <2>3
  <2> QED
    BY <1>1, <2>1, <2>4 DEF Turn!Succeed
<1> QED
  BY <1>2, <1>3

(* The head of a channel is a turn's of the thread, and in no doubt the    *)
(* turn's own; an item is one that was emitted, and then the next.         *)
LEMMA HeadOf ==
  ASSUME Basics, Owned, Told, NEW t \in Turns, pc[t] = "loop", events[t] # <<>>,
         NEW e, e = Head(events[t])
  PROVE  /\ e \in Event /\ e.turn \in Turns /\ thread[e.turn] = thread[t]
         /\ e.kind = "ok" => server[e.turn] = "ok"
         /\ e.kind = "item" => e.n \in 1 .. emitted[e.turn]
         /\ Clean(thread[t]) => e.turn = t /\ (e.kind = "item" => e.n = shown[t] + 1)
<1>1. events[t] \in Seq(Event) /\ shown[t] \in Nat /\ emitted[t] \in Nat
  BY AppServerAssumption DEF Basics, TypeOK
<1>2. 1 \in 1 .. Len(events[t]) /\ e = events[t][1] /\ e \in Event
  BY <1>1
<1>3. e.turn \in Turns
  BY <1>2 DEF Event
<1>4. Kin(t, e) /\ (e.kind = "ok" => server[e.turn] = "ok")
  BY <1>2 DEF Told, SameThread, Owned, Ended
<1>5. ASSUME Clean(thread[t]) PROVE e.turn = t /\ (e.kind = "item" => e.n = shown[t] + 1)
  <2>1. e.turn = t
    BY <1>2, <1>5 DEF Owned, OwnEvents, Listening
  <2>2. Consecutive(events[t], shown[t], emitted[t])
    BY <1>5 DEF Told, InOrder, Awaiting, Listening
  <2> QED
    BY <1>1, <2>1, <2>2, TakeNext
<1> QED
  BY <1>2, <1>3, <1>4, <1>5 DEF Kin

(* The select! arm of event_rx shows a message, fails, or succeeds.        *)
LEMMA EventRefines ==
  ASSUME Basics, Owned, Told, [Next]_vars, NEW t \in Turns, LoopEvent(t)
  PROVE  Turn!Next \/ UNCHANGED Turn!vars
<1> DEFINE e == Head(events[t])
<1>1. pc[t] = "loop" /\ events[t] # <<>>
  BY DEF LoopEvent
<1>2. /\ e \in Event /\ e.turn \in Turns /\ thread[e.turn] = thread[t]
      /\ e.kind = "ok" => server[e.turn] = "ok"
      /\ e.kind = "item" => e.n \in 1 .. emitted[e.turn]
      /\ Clean(thread[t]) => e.turn = t /\ (e.kind = "item" => e.n = shown[t] + 1)
  BY <1>1, HeadOf
<1>3. UNCHANGED <<thread, server, emitted, timedOut>>
  BY DEF LoopEvent, turnVars, serverVars
<1>4. Agent' = Agent /\ Doubtful' = Doubtful
  BY <1>3, AgentStays, DoubtStays DEF Owned
<1>5. \/ e.kind = "item" /\ UNCHANGED <<pc, result>> /\ shown' = [shown EXCEPT ![t] = e.n]
      \/ UNCHANGED <<pc, result, shown>>
      \/ /\ pc' = [pc EXCEPT ![t] = "done"] /\ result' = [result EXCEPT ![t] = "err"]
         /\ shown' = shown
      \/ /\ e.kind = "ok" /\ pc' = [pc EXCEPT ![t] = "unregister"]
         /\ result' = [result EXCEPT ![t] = "ok"] /\ shown' = shown
  BY DEF LoopEvent, HandOn, Goto, Return
<1> HIDE DEF e
<1>6. CASE e.kind = "item" /\ UNCHANGED <<pc, result>> /\ shown' = [shown EXCEPT ![t] = e.n]
  <2>1. Phase[t] = "open" /\ Phase' = Phase
    BY <1>1, <1>6 DEF Phase, Told, Progress
  <2>2. \E u \in Turns : \E n \in 1 .. emitted[u] :
          /\ thread[u] = thread[t]
          /\ Turn!Sure(t) => u = t /\ n = shown[t] + 1
          /\ shown' = [shown EXCEPT ![t] = n]
    BY <1>2, <1>6, SureIsClean
  <2>3. Turn!Show(t)
    BY <1>3, <1>4, <2>1, <2>2 DEF Turn!Show
  <2> QED
    BY <2>3 DEF Turn!Next
<1>7. CASE UNCHANGED <<pc, result, shown>>
  BY <1>3, <1>4, <1>7, Unseen DEF Owned
<1>8. CASE /\ pc' = [pc EXCEPT ![t] = "done"] /\ result' = [result EXCEPT ![t] = "err"]
           /\ shown' = shown
  BY <1>1, <1>3, <1>8, Returned DEF Told, Turn!Next, TurnStates
<1>9. CASE /\ e.kind = "ok" /\ pc' = [pc EXCEPT ![t] = "unregister"]
           /\ result' = [result EXCEPT ![t] = "ok"] /\ shown' = shown
  BY <1>1, <1>2, <1>3, <1>9, Returned DEF Told, Turn!Next, TurnStates
<1> QED
  BY <1>5, <1>6, <1>7, <1>8, <1>9

(* The turn/start that reaches the server is of a call that waits, and no  *)
(* other turn of the thread runs, unless a call of the thread timed out.   *)
LEMMA WriterRefines ==
  ASSUME Basics, Owned, Told, [Next]_vars, WriterSends
  PROVE  Turn!Next \/ UNCHANGED Turn!vars
<1> DEFINE m == Head(outbound)
<1>1. /\ UNCHANGED <<pc, result, thread, emitted, shown, timedOut>>
      /\ outbound \in Seq(Outgoing) /\ outbound # <<>>
  BY DEF WriterSends, turnVars, historyVars, Basics, TypeOK
<1>2. m \in Queued /\ m \in Outgoing
  BY <1>1, PopQueued DEF WriterSends
<1>3. CASE server' = server
  BY <1>1, <1>3, AgentStays, Unseen DEF Owned
<1>4. CASE link /\ m.kind = "answer"
  <2>1. server' = [w \in Turns |-> IF WaitsFor(w, m.n) THEN "running" ELSE server[w]]
    BY <1>4 DEF WriterSends, Deliver
  <2>2. Agent' = Agent
    BY <2>1 DEF Agent, Runs, WaitsFor
  <2> QED
    BY <1>1, <2>2, Unseen DEF Owned
<1>5. CASE link /\ m.kind = "turn" /\ server' = [server EXCEPT ![m.turn] = "running"]
  <2> DEFINE t == m.turn
  <2>1. t \in Turns /\ AsksOnce(t) /\ thread[t] # NoThread
    BY <1>2, <1>5, AppServerAssumption
    DEF Outgoing, Basics, ThreadKnown, Owned, CallsOnce
  <2>2. InLine(outbound, t)
    BY <1>1, <1>5, <2>1, Leave DEF AsksOnce
  <2>3. server[t] = "none" /\ (t \notin timedOut => pc[t] = "turn_rpc")
    BY <2>1, <2>2 DEF AsksOnce
  <2>4. Agent[t] = "none" /\ Agent' = [Agent EXCEPT ![t] = "working"]
    BY <1>5, <2>1, <2>3 DEF Agent, Runs, Basics, TypeOK
  <2>5. Phase' = Phase /\ Doubtful' = Doubtful
    BY <1>1, DoubtStays DEF Phase, Owned
  <2>6. ASSUME Clean(thread[t])
        PROVE  /\ Phase[t] = "open"
               /\ \A u \in Turns : thread[u] = thread[t] => Agent[u] # "working"
    <3>1. pc[t] = "turn_rpc" /\ Intact
      BY <1>5, <2>3, <2>6 DEF Clean, Owned, LinkLive
    <3>2. active_turns[thread[t]] = t /\ Phase[t] = "open"
      BY <2>1, <3>1 DEF Owned, HandleKept, Holding, Phase, Told, Progress
    <3>3. \A u \in Turns : thread[u] = thread[t] => ~Runs(u)
      BY <2>1, <2>3, <2>6, <3>1, <3>2 DEF Owned, RunsOwned, Holds, Runs
    <3>4. \A u \in Turns : ~Runs(u) => Agent[u] # "working"
      BY DEF Agent, Basics, TypeOK
    <3> QED
      BY <3>2, <3>3, <3>4
  <2>7. Turn!Start(t)
    BY <1>1, <2>1, <2>4, <2>5, <2>6, SureIsClean DEF Turn!Start
  <2> QED
    BY <2>1, <2>7 DEF Turn!Next
<1>6. \/ server' = server
      \/ link /\ m.kind = "answer"
      \/ link /\ m.kind = "turn" /\ server' = [server EXCEPT ![m.turn] = "running"]
  BY DEF WriterSends, Deliver
<1> QED
  BY <1>3, <1>4, <1>5, <1>6

(* The reader learns a new thread's name, which is nobody's yet, or only   *)
(* a reply.                                                                *)
LEMMA ReplyRefines ==
  ASSUME Basics, Owned, Told, [Next]_vars, NEW t \in Turns, NEW m \in Methods,
         ServerReply(Call(t, m))
  PROVE  Turn!Next \/ UNCHANGED Turn!vars
<1>1. UNCHANGED <<pc, result, server, emitted, shown, timedOut>>
  BY DEF ServerReply, historyVars
<1>2. Agent' = Agent /\ Doubtful' = Doubtful /\ Phase' = Phase
  BY <1>1, AgentStays, DoubtStays DEF Owned, Phase
<1>3. CASE thread' = thread
  BY <1>1, <1>2, <1>3, Unseen DEF Owned
<1>4. ASSUME thread[t] = NoThread, NEW th \in Threads \ known, thread' = [thread EXCEPT ![t] = th]
      PROVE  Turn!Name(t, th)
  <2>1. Phase[t] # "idle"
    <3>1. pc[t] # "idle"
      BY DEF ServerReply, Call, Basics, ThreadKnown
    <3> QED
      BY <3>1 DEF Phase, Told, Progress, Basics, TypeOK
  <2>2. \A u \in Turns : thread[u] # th
    BY AppServerAssumption DEF Told, Progress
  <2> QED
    BY <1>1, <1>2, <1>4, <2>1, <2>2 DEF Turn!Name
<1>5. \/ thread' = thread
      \/ \E th \in Threads \ known : thread[t] = NoThread /\ thread' = [thread EXCEPT ![t] = th]
  BY DEF ServerReply, Call
<1> QED
  BY <1>3, <1>4, <1>5 DEF Turn!Next

(* A call that begins is open, or has failed when it cannot be sent.       *)
LEMMA BeginRefines ==
  ASSUME Basics, Owned, Told, [Next]_vars, NEW t \in Turns, NEW s \in Sessions, BeginTurn(t, s)
  PROVE  Turn!Begin(t, s)
<1>1. /\ pc[t] = "idle" /\ thread' = [thread EXCEPT ![t] = s]
      /\ UNCHANGED <<server, emitted, shown, timedOut>>
  BY DEF BeginTurn, serverVars, historyVars
<1>2. Agent' = Agent /\ Doubtful' = Doubtful
  BY <1>1, AgentStays, DoubtStays DEF Owned
<1>3. \/ pc' = [pc EXCEPT ![t] = "thread_rpc"] /\ result' = result
      \/ pc' = [pc EXCEPT ![t] = "done"] /\ result' = [result EXCEPT ![t] = "err"]
  BY DEF BeginTurn, Return
<1>4. /\ pc \in [Turns -> TurnStates] /\ result \in [Turns -> {"none", "ok", "err"}]
      /\ result[t] = "none"
  BY <1>1 DEF Basics, TypeOK, Told, Progress
<1>5. Phase[t] = "idle" /\ \E p \in {"open", "err"} : Phase' = [Phase EXCEPT ![t] = p]
  <2>1. Phase[t] = "idle"
    BY <1>1, <1>4 DEF Phase
  <2>2. CASE pc' = [pc EXCEPT ![t] = "thread_rpc"] /\ result' = result
    <3>1. Phase' = [Phase EXCEPT ![t] = "open"]
      BY <1>4, <2>2 DEF Phase
    <3> QED
      BY <2>1, <3>1
  <2>3. CASE pc' = [pc EXCEPT ![t] = "done"] /\ result' = [result EXCEPT ![t] = "err"]
    <3>1. Phase' = [Phase EXCEPT ![t] = "err"]
      BY <1>4, <2>3 DEF Phase
    <3> QED
      BY <2>1, <3>1
  <2> QED
    BY <1>3, <2>2, <2>3
<1> QED
  BY <1>1, <1>2, <1>5 DEF Turn!Begin

(* A call that times out fails, and has given up if it asked for a turn.   *)
LEMMA TimeoutRefines ==
  ASSUME Basics, Owned, Told, [Next]_vars, NEW t \in Turns, CallTimeout(t)
  PROVE  Turn!Fail(t) \/ Turn!GiveUp(t)
<1>1. /\ UNCHANGED <<thread, server, emitted, shown>>
      /\ result' = [result EXCEPT ![t] = "err"]
  BY DEF CallTimeout, Return, turnVars, serverVars
<1>2. CASE pc[t] = "thread_rpc" /\ pc' = [pc EXCEPT ![t] = "done"] /\ timedOut' = timedOut
  BY <1>1, <1>2, Returned DEF Told, TurnStates
<1>3. CASE /\ pc[t] = "turn_rpc" /\ pc' = [pc EXCEPT ![t] = "unregister"]
           /\ timedOut' = timedOut \cup {t}
  <2>1. Phase[t] = "open" /\ Phase' = [Phase EXCEPT ![t] = "err"]
    BY <1>1, <1>3, PhaseMoves DEF Told, TurnStates
  <2>2. thread[t] # NoThread /\ shown[t] = 0
    BY <1>3 DEF Basics, ThreadKnown, Holding, Told, Progress
  <2>3. Agent' = Agent /\ Doubtful' = Doubtful \cup {thread[t]}
    BY <1>1, <1>3, AgentStays, DoubtStays DEF Owned
  <2> QED
    BY <1>1, <2>1, <2>2, <2>3 DEF Turn!GiveUp
<1> QED
  BY <1>2, <1>3 DEF CallTimeout, Goto

(* A step of run_turn that returns nothing is unseen, one that returns an  *)
(* error is a failure.                                                     *)
LEMMA MoveRefines ==
  ASSUME Basics, Owned, Told, [Next]_vars, NEW t \in Turns, NEW q \in TurnStates, q # "idle",
         pc[t] # "idle", pc' = [pc EXCEPT ![t] = q],
         UNCHANGED <<thread, server, emitted, shown, timedOut>>,
         \/ result' = result
         \/ pc[t] \notin {"unregister", "done"} /\ result' = [result EXCEPT ![t] = "err"]
  PROVE  Turn!Fail(t) \/ UNCHANGED Turn!vars
<1>1. CASE result' = result
  <2>1. Phase' = Phase
    BY <1>1, PhaseMoves DEF Told
  <2> QED
    BY <2>1, AgentStays, DoubtStays DEF Turn!vars, Owned
<1>2. CASE pc[t] \notin {"unregister", "done"} /\ result' = [result EXCEPT ![t] = "err"]
  BY <1>2, Returned DEF Told
<1> QED
  BY <1>1, <1>2

(* Each step of the tasks and of the server is one of the contract.        *)
LEMMA StepRefines ==
  ASSUME Basics, Owned, Told, [Next]_vars
  PROVE  [Turn!Next]_Turn!vars
<1> DEFINE Seen == Turn!Next \/ UNCHANGED Turn!vars
<1> SUFFICES Seen
  OBVIOUS
<1>a. CallsOnce /\ Progress
  BY DEF Owned, Told
<1>f. \A t \in Turns : Turn!Fail(t) => Turn!Next
  BY DEF Turn!Next
<1>s. /\ "register" \in TurnStates /\ "start" \in TurnStates /\ "turn_rpc" \in TurnStates
      /\ "loop" \in TurnStates /\ "unregister" \in TurnStates /\ "done" \in TurnStates
  BY DEF TurnStates
<1>u. UNCHANGED <<pc, result, thread, emitted, shown, timedOut, server>> => Seen
  BY <1>a, AgentStays, Unseen
<1>p. server \in [Turns -> {"none", "running", "asking", "ok", "err"}]
  BY DEF Basics, TypeOK
<1> HIDE DEF Seen
<1>1. CASE UNCHANGED vars
  BY <1>u, <1>1 DEF vars, turnVars, serverVars, historyVars, Goto, Return
<1>2. ASSUME NEW t \in Turns, NEW s \in Sessions, BeginTurn(t, s) PROVE Seen
  BY <1>2, BeginRefines DEF Seen, Turn!Next, Sessions, Basics, TypeOK
<1>3. ASSUME NEW t \in Turns, ThreadReply(t) PROVE Seen
  <2>1. /\ UNCHANGED <<thread, server, emitted, shown, timedOut>> /\ pc[t] # "idle"
        /\ \E q \in TurnStates : q # "idle" /\ pc' = [pc EXCEPT ![t] = q]
        /\ \/ result' = result
           \/ pc[t] \notin {"unregister", "done"} /\ result' = [result EXCEPT ![t] = "err"]
    BY <1>s, <1>3 DEF ThreadReply, turnVars, serverVars, historyVars, Goto, Return
  <2> QED
    BY <1>f, <2>1, MoveRefines DEF Seen
<1>4. ASSUME NEW t \in Turns, Register(t) PROVE Seen
  <2>1. /\ UNCHANGED <<thread, server, emitted, shown, timedOut>> /\ pc[t] # "idle"
        /\ \E q \in TurnStates : q # "idle" /\ pc' = [pc EXCEPT ![t] = q]
        /\ \/ result' = result
           \/ pc[t] \notin {"unregister", "done"} /\ result' = [result EXCEPT ![t] = "err"]
    BY <1>s, <1>4 DEF Register, turnVars, serverVars, historyVars, Goto, Return
  <2> QED
    BY <1>f, <2>1, MoveRefines DEF Seen
<1>5. ASSUME NEW t \in Turns, StartTurn(t) PROVE Seen
  <2>1. /\ UNCHANGED <<thread, server, emitted, shown, timedOut>> /\ pc[t] # "idle"
        /\ \E q \in TurnStates : q # "idle" /\ pc' = [pc EXCEPT ![t] = q]
        /\ \/ result' = result
           \/ pc[t] \notin {"unregister", "done"} /\ result' = [result EXCEPT ![t] = "err"]
    BY <1>s, <1>5 DEF StartTurn, StartCall, turnVars, serverVars, historyVars, Goto, Return
  <2> QED
    BY <1>f, <2>1, MoveRefines DEF Seen
<1>6. ASSUME NEW t \in Turns, TurnReply(t) PROVE Seen
  <2>1. /\ UNCHANGED <<thread, server, emitted, shown, timedOut>> /\ pc[t] # "idle"
        /\ \E q \in TurnStates : q # "idle" /\ pc' = [pc EXCEPT ![t] = q]
        /\ \/ result' = result
           \/ pc[t] \notin {"unregister", "done"} /\ result' = [result EXCEPT ![t] = "err"]
    BY <1>s, <1>6 DEF TurnReply, turnVars, serverVars, historyVars, Goto, Return
  <2> QED
    BY <1>f, <2>1, MoveRefines DEF Seen
<1>7. ASSUME NEW t \in Turns, CallTimeout(t) PROVE Seen
  BY <1>7, TimeoutRefines DEF Seen, Turn!Next
<1>8. ASSUME NEW t \in Turns, LoopEvent(t) PROVE Seen
  BY <1>8, EventRefines DEF Seen
<1>9. ASSUME NEW t \in Turns, LoopCompletion(t) PROVE Seen
  <2>1. UNCHANGED <<thread, server, emitted, shown, timedOut>> /\ pc[t] = "loop"
    BY <1>9 DEF LoopCompletion, Goto, serverVars, historyVars
  <2>2. CASE completion[t] = "ok"
    <3>1. /\ pc' = [pc EXCEPT ![t] = "unregister"] /\ result' = [result EXCEPT ![t] = "ok"]
          /\ \E u \in Turns : server[u] = "ok" /\ thread[u] = thread[t]
      BY <1>9, <2>2 DEF LoopCompletion, Goto, Return, Told, SameThread
    <3>2. Turn!Succeed(t)
      BY <1>a, <1>s, <2>1, <3>1, Returned
    <3> QED
      BY <3>2 DEF Seen, Turn!Next
  <2>3. CASE completion[t] # "ok"
    <3>1. pc' = [pc EXCEPT ![t] = "done"] /\ result' = [result EXCEPT ![t] = "err"]
      BY <1>9, <2>3 DEF LoopCompletion, Goto, Return
    <3> QED
      BY <1>f, <1>s, <2>1, <3>1, MoveRefines DEF Seen
  <2> QED
    BY <2>2, <2>3
<1>10. ASSUME NEW t \in Turns, LoopClosed(t) PROVE Seen
  <2>1. /\ UNCHANGED <<thread, server, emitted, shown, timedOut>> /\ pc[t] # "idle"
        /\ \E q \in TurnStates : q # "idle" /\ pc' = [pc EXCEPT ![t] = q]
        /\ \/ result' = result
           \/ pc[t] \notin {"unregister", "done"} /\ result' = [result EXCEPT ![t] = "err"]
    BY <1>s, <1>10 DEF LoopClosed, turnVars, serverVars, historyVars, Goto, Return
  <2> QED
    BY <1>f, <2>1, MoveRefines DEF Seen
<1>11. ASSUME NEW t \in Turns, Unregister(t) PROVE Seen
  <2>1. /\ UNCHANGED <<thread, server, emitted, shown, timedOut>> /\ pc[t] # "idle"
        /\ \E q \in TurnStates : q # "idle" /\ pc' = [pc EXCEPT ![t] = q]
        /\ \/ result' = result
           \/ pc[t] \notin {"unregister", "done"} /\ result' = [result EXCEPT ![t] = "err"]
    BY <1>s, <1>11 DEF Unregister, turnVars, serverVars, historyVars, Goto, Return
  <2> QED
    BY <1>f, <2>1, MoveRefines DEF Seen
<1>12. ASSUME NEW r \in Responders, NEW p \in pending_interactions, NEW fits \in BOOLEAN,
             Lookup(r, p, fits) PROVE Seen
  BY <1>u, <1>12 DEF Lookup, turnVars, serverVars, historyVars, Goto, Return
<1>13. ASSUME NEW r \in Responders, SendAnswer(r) PROVE Seen
  BY <1>u, <1>13 DEF SendAnswer, turnVars, serverVars, historyVars, Goto, Return
<1>14. ASSUME NEW r \in Responders, RemoveAnswered(r) PROVE Seen
  BY <1>u, <1>14 DEF RemoveAnswered, turnVars, serverVars, historyVars, Goto, Return
<1>15. ASSUME NEW t \in Turns, NEW m \in Methods, ServerReply(Call(t, m)) PROVE Seen
  BY <1>15, ReplyRefines DEF Seen
<1>16. ASSUME NEW t \in Turns, ServerItem(t) PROVE Seen
  <2>1. /\ UNCHANGED <<pc, result, thread, shown, timedOut, server>> /\ Runs(t)
        /\ emitted' = [emitted EXCEPT ![t] = @ + 1]
    BY <1>16 DEF ServerItem, historyVars, Runs
  <2>2. Agent' = Agent /\ Doubtful' = Doubtful /\ Phase' = Phase /\ Agent[t] = "working"
    BY <1>a, <2>1, AgentStays, DoubtStays DEF Phase, Agent
  <2>3. Turn!Say(t)
    BY <2>1, <2>2 DEF Turn!Say
  <2> QED
    BY <2>3 DEF Seen, Turn!Next
<1>17. ASSUME NEW t \in Turns, NEW o \in {"ok", "err"}, ServerEnd(t, o) PROVE Seen
  <2>1. /\ UNCHANGED <<pc, result, thread, shown, timedOut, emitted>> /\ Runs(t)
        /\ server' = [server EXCEPT ![t] = o]
    BY <1>17 DEF ServerEnd, historyVars, Runs
  <2>2. Doubtful' = Doubtful /\ Phase' = Phase /\ Agent[t] = "working"
    BY <1>a, <2>1, DoubtStays DEF Phase, Agent
  <2>3. Agent' = [Agent EXCEPT ![t] = o]
    BY <1>p, <2>1 DEF Agent, Runs
  <2>4. Turn!End(t, o)
    BY <2>1, <2>2, <2>3 DEF Turn!End
  <2> QED
    BY <2>4 DEF Seen, Turn!Next
<1>18. ASSUME NEW t \in Turns, ServerAsk(t) PROVE Seen
  <2>1. /\ UNCHANGED <<pc, result, thread, emitted, shown, timedOut>> /\ Runs(t)
        /\ server' = [server EXCEPT ![t] = "asking"]
    BY <1>18 DEF ServerAsk, turnVars, historyVars, Runs
  <2>2. Agent' = Agent
    BY <1>p, <2>1 DEF Agent, Runs
  <2> QED
    BY <1>a, <2>1, <2>2, Unseen DEF Seen
<1>19. CASE ForwardInteraction
  BY <1>u, <1>19 DEF ForwardInteraction, turnVars, serverVars, historyVars, Goto, Return
<1>20. CASE ReaderFails
  BY <1>u, <1>20 DEF ReaderFails, turnVars, serverVars, historyVars, Goto, Return
<1>21. CASE WriterSends
  BY <1>21, WriterRefines DEF Seen
<1>22. CASE WriterFails
  BY <1>u, <1>22 DEF WriterFails, turnVars, serverVars, historyVars, Goto, Return
<1>23. CASE WriterEnds
  BY <1>u, <1>23 DEF WriterEnds, turnVars, serverVars, historyVars, Goto, Return
<1>24. CASE LinkLost
  BY <1>u, <1>24 DEF LinkLost, turnVars, serverVars, historyVars, Goto, Return
<1> QED
  BY <1>1, <1>2, <1>3, <1>4, <1>5, <1>6, <1>7, <1>8, <1>9, <1>10, <1>11, <1>12,
     <1>13, <1>14, <1>15, <1>16, <1>17, <1>18, <1>19, <1>20, <1>21, <1>22, <1>23, <1>24
  DEF Next, TurnStep, ResponderStep, ServerStep, ReaderStep, WriterStep

(* A fresh connection is one of which nobody asked anything.               *)
LEMMA InitRefines == Init => Turn!Init
  BY DEF Init, Phase, Agent, Runs, Doubtful, Turn!Init

(* What is told to callers is as Told says, from the start on.             *)
LEMMA ToldHolds == Spec => []Told
<1>1. Init => Told
  BY AppServerAssumption
  DEF Init, Told, Progress, SameThread, InOrder, Consecutive, Items
<1>2. Basics /\ Owned /\ Told /\ [Next]_vars => Told'
  BY ProgressStep, SameThreadStep, InOrderStep DEF Told
<1> QED
  BY <1>1, <1>2, OwnedHolds, PTL DEF Spec

(* run_turn, the reader and the writer keep the contract of ThreadTurn:    *)
(* turns of a thread one at a time, their messages in order and to their   *)
(* own caller, success only where the server completed the turn.           *)
THEOREM TurnsKeepContract == Spec => TurnContract
<1>1. Basics /\ Owned /\ Told /\ [Next]_vars => [Turn!Next]_Turn!vars
  BY StepRefines
<1> QED
  BY <1>1, InitRefines, OwnedHolds, ToldHolds, PTL DEF Spec, TurnContract, Turn!Spec
=============================================================================
