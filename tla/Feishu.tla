------------------------------- MODULE Feishu -------------------------------
(***************************************************************************)
(* The Feishu frontend (frontend/feishu/mod.rs): the loop that keeps a     *)
(* websocket to Feishu and does everything in one task, the outbound queue *)
(* that other tasks fill through `send`, the draft message of each         *)
(* conversation, the cards of pending interactions, and, as environment,   *)
(* Feishu itself, which shows messages and delivers events.                *)
(*                                                                         *)
(* Atomicity.  Nothing but the loop touches the drafts, the cards and the  *)
(* API, so handling one queued message or one frame is one step; senders   *)
(* are suspended between cloning the channel and using it.  While the loop *)
(* is busy with a call of the API the frames of events wait in the socket, *)
(* and Feishu, which sees no acknowledgement, may deliver an event again.  *)
(***************************************************************************)
EXTENDS Integers, Sequences, FiniteSets

CONSTANTS
  Senders,        (* tasks of the gateway that call send                   *)
  Conversations,
  Tokens,         (* tokens of pending interactions                        *)
  Parts,          (* token -> how many cards it takes (one per question)   *)
  NoToken,
  QueueCap,       (* capacity of the outbound channel, 64 in the code      *)
  MaxSends,       (* bound: calls of send                                  *)
  MaxEvents,      (* bound: events the users cause                         *)
  MaxTries,       (* bound: how often Feishu delivers an event anew        *)
  MaxLate,        (* bound: how often it does while one delivery waits     *)
  MaxFailures     (* bound: failed calls of the API and lost connections   *)

ASSUME FeishuAssumption ==
  /\ NoToken \notin Tokens
  /\ Parts \in [Tokens -> Nat \ {0}]
  /\ {QueueCap, MaxSends, MaxEvents, MaxTries, MaxLate, MaxFailures} \subseteq Nat
  /\ QueueCap > 0

VARIABLES
  outbound_tx,            (* the slot: "none", "live", or "dead" when the   *)
                          (* loop has dropped the receiver since            *)
  conn,                   (* "up" in the loop of run_connection, or "down"  *)
  socket,                 (* event -> how many frames of it wait to be read *)
  queue,                  (* outbound_rx                                    *)
  sender,                 (* the channel and the message a task holds       *)
  conversation_state,     (* conversation -> its draft message, 0 for none  *)
  pending_card_messages,  (* action key -> message id, 0 for none           *)
  posts,                  (* environment: messages, by id                   *)
  events,                 (* environment: events, in the order they happen  *)
  tries, late,            (* environment: event -> how often it was         *)
                          (* delivered when no frame of it was waiting, and *)
                          (* when one was                                   *)
  sent,                   (* history: how many messages were given to send  *)
  given,                  (* history: interactions and results among them   *)
  replies,                (* history: ids of completed agent messages       *)
  dismissed,              (* history: tokens whose result was handled       *)
  stray,                  (* history: cards that the code cannot know of    *)
  failures

chanVars  == <<outbound_tx, conn, queue, sender>>
feedVars  == <<events, tries, late>>
stateVars == <<conversation_state, pending_card_messages>>
histVars  == <<sent, given, replies, dismissed, stray>>
vars == <<chanVars, socket, stateVars, posts, feedVars, histVars, failures>>

NoCard == <<NoToken, 0>>
Keys   == UNION {{k} \X (0 .. Parts[k]) : k \in Tokens}

(* pending_card_action_key: "token", or "token::question".                 *)
KeysOf(k) == IF Parts[k] = 1 THEN << <<k, 0>> >> ELSE [q \in 1 .. Parts[k] |-> <<k, q>>]

(* OutboundMessage: Status; a final Agent message; a Notice that keeps the *)
(* draft open, one that does not ("Codex failed:"), one shown as a post;   *)
(* CommandResult; PendingInteraction.  Partial Agent messages are ignored  *)
(* by the code.  n stands for the text.                                    *)
Kinds   == {"status", "reply", "notice", "failed", "post", "result", "pending"}
Outbound == [kind : Kinds, conv : Conversations, token : Tokens \cup {NoToken}, n : 1 .. MaxSends]

IdleSender == [tx |-> "none"]
Post == [text : 1 .. MaxSends, card : Keys \cup {NoCard}, up : BOOLEAN]
Event == [kind : {"text", "click", "ignored", "malformed"}, post : Nat,
          forwarded : 0 .. MaxTries + MaxLate, acked : BOOLEAN]

TypeOK ==
  /\ outbound_tx \in {"none", "live", "dead"}
  /\ conn \in {"up", "down"}
  /\ queue \in Seq(Outbound) /\ Len(queue) <= QueueCap
  /\ sender \in [Senders -> {IdleSender} \cup [tx : {"live", "dead"}, msg : Outbound]]
  /\ conversation_state \in [Conversations -> 0 .. Len(posts)]
  /\ pending_card_messages \in [Keys -> 0 .. Len(posts)]
  /\ posts \in Seq(Post)
  /\ events \in Seq(Event)
  /\ socket \in [1 .. MaxEvents -> 0 .. 1 + MaxLate]
  /\ tries \in [1 .. MaxEvents -> 0 .. MaxTries]
  /\ late \in [1 .. MaxEvents -> 0 .. MaxLate]
  /\ sent \in 0 .. MaxSends /\ given \subseteq {"pending", "result"} \X Tokens
  /\ replies \cup stray \subseteq 1 .. Len(posts)
  /\ dismissed \subseteq Tokens
  /\ failures \in 0 .. MaxFailures

Init ==
  /\ outbound_tx = "none" /\ conn = "down" /\ queue = <<>>
  /\ sender = [s \in Senders |-> IdleSender]
  /\ conversation_state = [c \in Conversations |-> 0]
  /\ pending_card_messages = [key \in Keys |-> 0]
  /\ socket = [i \in 1 .. MaxEvents |-> 0]
  /\ tries = [i \in 1 .. MaxEvents |-> 0] /\ late = [i \in 1 .. MaxEvents |-> 0]
  /\ posts = <<>> /\ events = <<>> /\ sent = 0 /\ given = {}
  /\ replies = {} /\ dismissed = {} /\ stray = {}
  /\ failures = 0

-----------------------------------------------------------------------------
(* send.                                                                   *)

(* An interaction is sent once, and its result after Codex was answered,   *)
(* which may be before the gateway has sent the interaction.               *)
Fits(m) ==
  /\ m.kind = "pending" => m.token # NoToken
  /\ m.token # NoToken => m.kind \in {"pending", "result"}
  /\ <<m.kind, m.token>> \notin given

(* The slot is cloned; without a connection so far the call fails.         *)
CloneSlot(s, m) ==
  /\ sender[s] = IdleSender
  /\ m.n = sent + 1 /\ Fits(m)
  /\ sent' = sent + 1
  /\ given' = IF m.token = NoToken THEN given ELSE given \cup {<<m.kind, m.token>>}
  /\ sender' = IF outbound_tx = "none"
                 THEN sender
                 ELSE [sender EXCEPT ![s] = [tx |-> outbound_tx, msg |-> m]]
  /\ UNCHANGED <<outbound_tx, conn, queue, socket, stateVars, posts, feedVars, replies,
                 dismissed, stray, failures>>

(* Mutant of Push: a channel without a bound.                              *)
PushUnbounded(s) ==
  /\ sender[s] # IdleSender
  /\ sender' = [sender EXCEPT ![s] = IdleSender]
  /\ queue' = IF sender[s].tx = "live" THEN Append(queue, sender[s].msg) ELSE queue
  /\ UNCHANGED <<outbound_tx, conn, socket, stateVars, posts, feedVars, histVars, failures>>

(* Mutant of Push: a closed channel is waited for, not reported.           *)
PushWaits(s) ==
  /\ sender[s] # IdleSender
  /\ sender[s].tx = "live" /\ Len(queue) < QueueCap
  /\ queue' = Append(queue, sender[s].msg)
  /\ sender' = [sender EXCEPT ![s] = IdleSender]
  /\ UNCHANGED <<outbound_tx, conn, socket, stateVars, posts, feedVars, histVars, failures>>

(* tx.send waits for room; it fails when the receiver has gone, also while *)
(* it waits.                                                               *)
Push(s) ==
  /\ sender[s] # IdleSender
  /\ \/ /\ sender[s].tx = "live" /\ Len(queue) < QueueCap
        /\ queue' = Append(queue, sender[s].msg)
     \/ /\ sender[s].tx = "dead"
        /\ UNCHANGED queue
  /\ sender' = [sender EXCEPT ![s] = IdleSender]
  /\ UNCHANGED <<outbound_tx, conn, socket, stateVars, posts, feedVars, histVars, failures>>

-----------------------------------------------------------------------------
(* run_forever and run_connection.                                         *)

(* Mutant of Connect: run_forever leaves its loop on an error.             *)
ConnectUnlessFailed ==
  /\ conn = "down" /\ outbound_tx # "dead"
  /\ conn' = "up" /\ outbound_tx' = "live" /\ queue' = <<>>
  /\ UNCHANGED <<sender, socket, stateVars, posts, feedVars, histVars, failures>>

(* A connection is made, after any number of attempts that change nothing, *)
(* and the slot gets a new channel.                                        *)
Connect ==
  /\ conn = "down"
  /\ conn' = "up" /\ outbound_tx' = "live" /\ queue' = <<>>
  /\ UNCHANGED <<sender, socket, stateVars, posts, feedVars, histVars, failures>>

(* run_connection returns and drops the receiver with what is queued, and  *)
(* the socket with the frames it has not read.  The slot is emptied after  *)
(* a close, but not on the way out of an error.                            *)
TearDown(slot) ==
  /\ conn' = "down" /\ queue' = <<>> /\ outbound_tx' = slot
  /\ socket' = [i \in 1 .. MaxEvents |-> 0]
  /\ sender' = [s \in Senders |-> IF sender[s] = IdleSender THEN IdleSender
                                  ELSE [sender[s] EXCEPT !.tx = "dead"]]

Fail(cost) == failures + cost <= MaxFailures /\ failures' = failures + cost

(* The socket is closed or ends; it errs, or a ping or pong fails.         *)
ConnectionEnds ==
  /\ conn = "up"
  /\ Fail(1)
  /\ \E slot \in {"none", "dead"} : TearDown(slot)
  /\ UNCHANGED <<stateVars, posts, feedVars, histVars>>

-----------------------------------------------------------------------------
(* handle_outbound_message.  A call of the API is "ok", "failed" without   *)
(* effect, or "lost": it took effect and its response did not arrive.      *)

Outcomes == {"ok", "failed", "lost"}
Cost(r) == IF r = "ok" THEN 0 ELSE 1

TextOf(m) == [text |-> m.n, card |-> NoCard, up |-> TRUE]
WithPost(ps, p, r) == IF r = "failed" THEN ps ELSE Append(ps, p)

SetDraft(m, id) == conversation_state' = [conversation_state EXCEPT ![m.conv] = id]

(* Mutant of Upsert: the draft stays open.                                 *)
UpsertLeavesOpen(m, keep_open, r) ==
  LET draft == conversation_state[m.conv]
      id    == IF draft = 0 THEN Len(posts) + 1 ELSE draft IN
  /\ posts' = IF draft = 0 THEN WithPost(posts, TextOf(m), r)
              ELSE IF r = "failed" THEN posts ELSE [posts EXCEPT ![draft].text = m.n]
  /\ IF r = "ok" THEN SetDraft(m, id) ELSE UNCHANGED conversation_state
  /\ replies' = IF r = "ok" /\ m.kind = "reply" THEN replies \cup {id} ELSE replies

(* upsert_stream_message: the draft of the conversation is rewritten, or a *)
(* new message becomes the draft; then it stays open or is closed.         *)
Upsert(m, keep_open, r) ==
  LET draft == conversation_state[m.conv]
      id    == IF draft = 0 THEN Len(posts) + 1 ELSE draft IN
  /\ posts' = IF draft = 0 THEN WithPost(posts, TextOf(m), r)
              ELSE IF r = "failed" THEN posts ELSE [posts EXCEPT ![draft].text = m.n]
  /\ IF r = "ok" THEN SetDraft(m, IF keep_open THEN id ELSE 0)
                 ELSE UNCHANGED conversation_state
  /\ replies' = IF r = "ok" /\ m.kind = "reply" THEN replies \cup {id} ELSE replies

HandleText(m, r) ==
  /\ \/ m.kind \in {"reply", "failed"} /\ Upsert(m, FALSE, r)
     \/ m.kind = "notice" /\ Upsert(m, TRUE, r)
  /\ Fail(Cost(r))
  /\ UNCHANGED <<pending_card_messages, dismissed, stray>>

(* A status is a message of its own and becomes the draft; a markdown      *)
(* notice is one too and closes the draft first.                           *)
HandleFreshMessage(m, r) ==
  /\ m.kind \in {"status", "post"}
  /\ posts' = WithPost(posts, TextOf(m), r)
  /\ IF m.kind = "post" THEN SetDraft(m, 0)
     ELSE IF r = "ok" THEN SetDraft(m, Len(posts) + 1)
     ELSE UNCHANGED conversation_state
  /\ Fail(Cost(r))
  /\ UNCHANGED <<pending_card_messages, replies, dismissed, stray>>

(* Mutant of Taken: only the key that is the token itself.                 *)
TakenExactly(k) == {key \in Keys : key = <<k, 0>>}

(* take_all_pending_card_messages_for_token.                               *)
Taken(k) == {key \in Keys : key[1] = k}

(* The cards of the token are forgotten and deleted, where a failure is    *)
(* only logged; the draft is closed and the result is a new message.       *)
HandleResult(m, r) ==
  LET ids == {pending_card_messages[key] : key \in Taken(m.token)} \ {0} IN
  /\ m.kind = "result"
  /\ \E undeleted \in SUBSET ids :
       /\ posts' = WithPost([i \in 1 .. Len(posts) |->
                               IF i \in ids \ undeleted
                                 THEN [posts[i] EXCEPT !.up = FALSE] ELSE posts[i]],
                            TextOf(m), r)
       /\ stray' = stray \cup undeleted
       /\ Fail(Cardinality(undeleted) + Cost(r))
  /\ pending_card_messages' =
       [key \in Keys |-> IF key \in Taken(m.token) THEN 0 ELSE pending_card_messages[key]]
  /\ SetDraft(m, 0)
  /\ dismissed' = IF m.token = NoToken THEN dismissed ELSE dismissed \cup {m.token}
  /\ UNCHANGED replies

(* send_pending_interaction_cards: the draft is rewritten, the cards are   *)
(* posted one by one, and stored when the last one is; an error on the way *)
(* leaves the cards before it unrecorded.                                  *)
CardsOf(m) == [i \in 1 .. Len(KeysOf(m.token)) |->
                 [text |-> m.n, card |-> KeysOf(m.token)[i], up |-> TRUE]]

CardsPosted(m, r) ==
  LET draft  == conversation_state[m.conv]
      base   == IF draft = 0 THEN Append(posts, TextOf(m))
                ELSE [posts EXCEPT ![draft].text = m.n]
      id     == IF draft = 0 THEN Len(base) ELSE draft
      cards  == CardsOf(m)
      shown(j) == Len(base) + 1 .. Len(base) + j IN
  /\ SetDraft(m, id)
  /\ \/ /\ r = "ok"
        /\ posts' = base \o cards
        /\ pending_card_messages' =
             [key \in Keys |->
                IF \E i \in 1 .. Len(cards) : cards[i].card = key
                  THEN Len(base) + CHOOSE i \in 1 .. Len(cards) : cards[i].card = key
                  ELSE pending_card_messages[key]]
        /\ stray' = IF m.token \in dismissed THEN stray \cup shown(Len(cards)) ELSE stray
     \/ /\ r # "ok"
        /\ \E j \in (IF r = "lost" THEN 1 .. Len(cards) ELSE 0 .. Len(cards) - 1) :
             /\ posts' = base \o SubSeq(cards, 1, j)
             /\ stray' = stray \cup shown(j)
        /\ UNCHANGED pending_card_messages

HandlePending(m, r) ==
  /\ m.kind = "pending"
  /\ \/ /\ CardsPosted(m, r) /\ UNCHANGED replies
     \/ /\ r # "ok" /\ Upsert(m, TRUE, r)
        /\ UNCHANGED <<pending_card_messages, stray>>
  /\ Fail(Cost(r))
  /\ UNCHANGED dismissed

HandleOutbound ==
  /\ conn = "up" /\ queue # <<>>
  /\ \E r \in Outcomes :
       LET m == Head(queue) IN
       /\ HandleText(m, r) \/ HandleFreshMessage(m, r) \/ HandleResult(m, r) \/ HandlePending(m, r)
       /\ IF r = "ok"
            THEN queue' = Tail(queue) /\ UNCHANGED <<outbound_tx, conn, socket, sender>>
            ELSE TearDown("dead")
  /\ UNCHANGED <<feedVars, sent, given>>

-----------------------------------------------------------------------------
(* Feishu delivers an event whose acknowledgement it has not seen.  It     *)
(* does not know that a frame of the event still waits in the socket.      *)

Deliverable(i) == conn = "up" /\ i \in 1 .. Len(events) /\ ~events[i].acked

Deliver(i) ==
  /\ Deliverable(i) /\ socket[i] = 0
  /\ tries[i] < MaxTries
  /\ socket' = [socket EXCEPT ![i] = 1]
  /\ tries' = [tries EXCEPT ![i] = @ + 1]
  /\ UNCHANGED <<chanVars, stateVars, posts, events, late, histVars, failures>>

DeliverAgain(i) ==
  /\ Deliverable(i) /\ socket[i] > 0
  /\ late[i] < MaxLate
  /\ socket' = [socket EXCEPT ![i] = @ + 1]
  /\ late' = [late EXCEPT ![i] = @ + 1]
  /\ UNCHANGED <<chanVars, stateVars, posts, events, tries, histVars, failures>>

-----------------------------------------------------------------------------
(* handle_data_frame.  A frame is read; its event is passed on to the      *)
(* gateway, which always takes it, and is acknowledged after that: whether *)
(* it was passed on before is not looked at.  An event that cannot be      *)
(* parsed ends the connection.                                             *)

Read(i) == socket' = [socket EXCEPT ![i] = @ - 1]

PassedOn(i, fwd, acked) ==
  events' = [events EXCEPT ![i].forwarded = @ + fwd, ![i].acked = @ \/ acked]

(* Mutant of Acknowledge: an event that was passed on is not acknowledged. *)
AcknowledgeNever(i, fwd) ==
  /\ PassedOn(i, fwd, fwd = 0)
  /\ Read(i)
  /\ UNCHANGED chanVars

Acknowledge(i, fwd) ==
  \/ /\ PassedOn(i, fwd, TRUE)
     /\ Read(i)
     /\ UNCHANGED chanVars
  \/ /\ PassedOn(i, fwd, FALSE)
     /\ TearDown("dead")

AckCost == IF conn' = "down" THEN 1 ELSE 0

HandleMessage(i) ==
  /\ events[i].kind \in {"text", "ignored"}
  /\ Acknowledge(i, IF events[i].kind = "text" THEN 1 ELSE 0)
  /\ Fail(AckCost)
  /\ UNCHANGED <<stateVars, posts, stray>>

(* card.action.trigger: the card is forgotten and deleted by the stored id *)
(* or the one in the event; a failure to delete it is only logged.         *)
HandleCardAction(i) ==
  LET id == events[i].post IN
  /\ events[i].kind = "click"
  /\ pending_card_messages' = [pending_card_messages EXCEPT ![posts[id].card] = 0]
  /\ Acknowledge(i, 1)
  /\ \/ /\ posts' = [posts EXCEPT ![id].up = FALSE]
        /\ Fail(AckCost)
        /\ UNCHANGED stray
     \/ /\ posts[id].up
        /\ stray' = stray \cup {id}
        /\ Fail(AckCost + 1)
        /\ UNCHANGED posts
  /\ UNCHANGED conversation_state

HandleMalformed(i) ==
  /\ events[i].kind = "malformed"
  /\ PassedOn(i, 0, FALSE)
  /\ TearDown("dead")
  /\ UNCHANGED <<stateVars, posts, stray, failures>>

HandleFrame(i) ==
  /\ conn = "up"
  /\ i \in 1 .. Len(events) /\ socket[i] > 0
  /\ HandleMessage(i) \/ HandleCardAction(i) \/ HandleMalformed(i)
  /\ UNCHANGED <<tries, late, sent, given, replies, dismissed>>

-----------------------------------------------------------------------------
(* The users.                                                              *)

Happens(kind, id) ==
  /\ Len(events) < MaxEvents
  /\ events' = Append(events, [kind |-> kind, post |-> id,
                               forwarded |-> 0, acked |-> FALSE])
  /\ UNCHANGED <<chanVars, socket, stateVars, posts, tries, late, histVars, failures>>

UserWrites == \E kind \in {"text", "ignored", "malformed"} : Happens(kind, 0)
UserClicks == \E id \in 1 .. Len(posts) :
                posts[id].card # NoCard /\ posts[id].up /\ Happens("click", id)

Next ==
  \/ \E s \in Senders, m \in Outbound : CloneSlot(s, m)
  \/ \E s \in Senders : Push(s)
  \/ Connect
  \/ ConnectionEnds
  \/ HandleOutbound
  \/ \E i \in 1 .. MaxEvents : Deliver(i) \/ DeliverAgain(i) \/ HandleFrame(i)
  \/ UserWrites
  \/ UserClicks

Spec == Init /\ [][Next]_vars

(* The loop tries to connect for ever and eventually succeeds; select!     *)
(* picks among its ready arms at random, so none of them starves; Feishu   *)
(* delivers what nobody acknowledged and no connection brings any more.    *)
Fairness ==
  /\ WF_vars(Connect)
  /\ WF_vars(HandleOutbound)
  /\ \A i \in 1 .. MaxEvents : WF_vars(Deliver(i)) /\ WF_vars(HandleFrame(i))
  /\ \A s \in Senders : WF_vars(Push(s))

FairSpec == Spec /\ Fairness

-----------------------------------------------------------------------------
(* Properties.                                                             *)

(* An agent message that was delivered is never rewritten by a later       *)
(* status, notice or reply: its draft was closed.                          *)
RepliesStand ==
  [][\A i \in replies : posts'[i].text = posts[i].text]_vars

HandedOn(id) ==
  \E e \in 1 .. Len(events) :
    events[e].kind = "click" /\ events[e].post = id /\ events[e].forwarded > 0

(* A card goes only when the command of its button has been passed on or   *)
(* its own token is dismissed, and then all the cards of the token go:     *)
(* every question's, unless the code lost track of it (stray).             *)
CardsFollowTokens ==
  \A i \in 1 .. Len(posts) : posts[i].card # NoCard =>
    LET k == posts[i].card[1] IN
    /\ ~posts[i].up => k \in dismissed \/ HandedOn(i)
    /\ posts[i].up /\ k \in dismissed => i \in stray

(* "Acknowledges events quickly, then forwards text messages into the      *)
(* gateway" (README.md:73).  The code forwards first, and keeps no record  *)
(* of events.  So an event can become several messages of the gateway, and *)
(* its prompt run again, but no more than one for each failure and one for *)
(* each delivery that came while an earlier one was waiting for the loop.  *)
RepeatsHaveCause ==
  \A i \in 1 .. Len(events) : events[i].forwarded <= 1 + failures + late[i]

(* A call of send returns, though the queue may be full and the connection *)
(* may go while it waits.                                                  *)
SendsReturn ==
  \A s \in Senders : sender[s] # IdleSender ~> sender[s] = IdleSender

(* What a user writes or clicks reaches the gateway, whatever connections  *)
(* fail on the way.                                                        *)
EventsReachGateway ==
  \A i \in 1 .. MaxEvents :
    (i <= Len(events) /\ events[i].kind \in {"text", "click"})
      ~> (i <= Len(events) /\ events[i].forwarded > 0)
=============================================================================
