# Verification of codex-channel

`codex-channel` connects a chat (a console or Feishu) to Codex: a message of a
conversation becomes a turn of a Codex thread, the turn's messages go back to
the chat, and what Codex asks in between (approvals, questions) is answered by
chat commands. This directory holds TLA+ models of its concurrent parts, TLC
configurations that check them, and TLAPS proofs.
`PROJECT.json` lists components, runs, findings, hazards and theorems, and maps
every definition to the lines it models.

Paths below are relative to the repository root; `gateway.rs` means
`src/app/gateway.rs` and `codex_app_server.rs` means `src/codex_app_server.rs`.

## 1. Inventory

| Component | State it keeps | Operations | Correct when |
|---|---|---|---|
| message handling (`gateway.rs`) | conversation locks, `active_conversations`, a copy of the conversation state per task | `handle_message`, management commands, running a turn, writing its session id back | one turn at a time per conversation; the busy flag always has a task that will clear it; no command's effect and no session id is lost; every task ends unless its own turn does not |
| interaction commands (`gateway.rs`, `domain/interaction.rs`) | `user_input_drafts` | `/pending`, `/approve`, `/approve-session`, `/deny`, `/cancel`, `/reply` | a request whose user answers gets an answer; saved answers stay; an item number means what was shown; what cannot be sent leaves its request pending |
| app-server connection (`codex_app_server.rs`) | `pending_requests`, `active_turns`, `pending_interactions`, `next_interaction_id`, outbound channel, per-turn event channel and completion | `run_turn`, `respond_to_pending`, reader task, writer task | a turn gets its own events and no other's; every call returns; a request stays until answered; a returned turn leaves nothing behind |
| connection slot (`codex_app_server.rs`) | the one connection | `ensure_connection` | all calls share one connection; a dead one is replaced |
| session store (`session_store.rs`) | the map in memory, the state file | `load`, `upsert`, `persist` | the file is what memory was; a start finds what was saved |
| Feishu frontend (`frontend/feishu/mod.rs`) | outbound slot and channel, draft per conversation, posted cards per interaction | `send`, `run_forever`, handling of outbound messages, frames, acknowledgements | replies are not rewritten; cards go with their interaction; senders and events survive a reconnection |
| exec backend (`codex.rs`, `gateway.rs`) | a turn task, an event channel and a child process per run | run `codex exec`, parse its output, time out, retry, shut down | it behaves as a turn should (AgentTurn); no two processes work for a conversation; a process ends with its run |
| command parsing (`gateway.rs`, `domain/command.rs`) | none | read a text as a command, a target, a number | numbers are read right; a target and an answer are told apart; what buttons send is read as meant |
| facade and mapping (`codex.rs`, `backend/`) | none | dispatch, conversions | - |
| rendering and parsing, console frontend, configuration, shims | none or a name | pure or sequential | - |

How they interact. The frontend hands an inbound message to `Gateway`, which
spawns a task for it; interaction commands skip the conversation lock, so they
run beside a turn. A prompt loads the conversation state under the lock, drops
the lock, marks the conversation active and runs a turn through the backend.
The app-server backend calls `ensure_connection` and `run_turn`, which sends
JSON-RPC through the writer task and waits for what the reader task puts into
its oneshots and its event channel. `respond_to_pending` goes the same way from
another task. Results are sent to the frontend's queue and the new session id
to the store. Hard are: the select! order in `run_turn`; failures that leave a
map entry behind; whole-state writes from old copies; accesses to one map under
several short locks; the link or the process going away between any two steps; a child
that need not read what it is sent nor stop writing; a turn task that nobody
waits for any more.

## 2. Modules

Each component has a module with its actions and properties, an `MC` module
where TLC needs symmetry or constant functions, one or two `.cfg` files, and a
`Proofs` module.

**AppServer** - one established connection. State: the three maps, the outbound
channel, reader and writer task, and for each `run_turn` call its program
counter, thread, oneshot, event channel and completion. Actions of a turn:
`BeginTurn` (thread/start or thread/resume is called), `ThreadReply`,
`Register`, `StartTurn`, `TurnReply`, `CallTimeout`, the loop's arms `LoopEvent`,
`LoopCompletion` and `LoopClosed`, `Unregister`. `Lookup`, `SendAnswer` and
`RemoveAnswered` are `respond_to_pending`. `ServerReply`, `ServerItem`,
`ServerEnd`, `ServerAsk` and `ForwardInteraction` are the reader with the
message the server sent; `WriterSends` is the writer with the server receiving;
`ReaderFails`, `WriterFails`, `WriterEnds` and `LinkLost` are the ways a
connection ends. The server is an environment: it names threads, may turn a
turn/start down, asks only in running turns, ends each turn at most once. It is
not assumed to run one turn per thread; that it does is `NoOverlap`.
`events` records the turn the server meant, which the code cannot see: it
dispatches by thread id, and so do the actions. `shown` is the message of its turn
that `on_event` was last called for. `Turn` is the refinement mapping to ThreadTurn:
of a call only its thread and whether it is open or what it returned (`Phase`), of
the server whether it works on the turn or how that ended (`Agent`).

**ThreadTurn** - the abstract specification of what `run_turn` promises of the turns of
a thread. A call may `Begin`, its thread gets a `Name`, the agent may `Start` the turn
if the call is open and no other turn of the thread is worked on, may `Say` things and
`End`; the caller is `Show`n the next of its own messages, and the call may `Succeed` if
the agent's own turn did, or `Fail` at any time. It is not AgentTurn: by finding 2 a call can
succeed with messages unshown, and a call that failed leaves its agent at work.
`GiveUp` is a turn/start that times out; from then on the thread is in doubt, and
its turns may be taken for one another. There are no handles, maps,
channels or tasks in it, and no connection.

**ConnectionSlot** - `ensure_connection`: look (`Find`, `Miss`), spawn without the
mutex, look again (`Install`). `Break` is a websocket that ends.

**Gateway** - one task per message: `Lock`, `Load`, then refused, shown, a command
(`Manage`) or a prompt (`AdmitPrompt`, `Announce`, the turn, `MarkInactive`, `Save`).
`Proceed` is what the task does by itself, `Turn` how its turn may end.
`Commanded(s)` is the set of states the writing commands can leave. `Upsert`
replaces the whole state of the conversation, as `SessionStore::upsert` does, and
notes which tasks hold a copy that is now outdated.

**Interactions** - interaction commands of one conversation beside one turn.
`Resolve` is `resolve_pending_target`; `Decide` and `ReplyTo` start a command;
`Take`, `Store`, `Clear`, `Respond` and `Remove` are its separate accesses to the
drafts and to the app-server. A request is an approval, one question or several; a reply
is text, a JSON object, or any other JSON (`Ops`), as `gateway.rs:552` finds, and
`Fits` says which of them `build_interaction_response` takes. After `ConnectionLost`
nothing can be sent: `Respond` then fails with the request pending and its draft cleared.

**SessionStore** - `Insert` under the lock; `CreateDir`, `Open` (truncates) and
`Write` after it; `PersistFails`, `Crash`, `Load`. The map is a version number.

**Feishu** - `CloneSlot` and `Push` are `send`; `Connect`, `ConnectionEnds` and
`TearDown` are `run_forever` and the ends of `run_connection`; `HandleOutbound` is
`handle_outbound_message` for every kind of message, with every API call
succeeding, failing, or taking effect and losing its response; `HandleFrame` is
`handle_data_frame`: it passes the event on, then acknowledges it, in one go of the loop.
Feishu delivers an event until it is acknowledged: anew when no frame of it is left
(`Deliver`), and also while one waits in the `socket` because the loop is busy with a call
of the API (`DeliverAgain`); each frame that is read is passed on. A connection that
ends takes the unread frames with it.
Partial agent messages are ignored by the code and left out; every card the
code builds is deleted on use, so that flag is not a variable; fetching the
tenant token is part of the API call that needs it.

**AgentTurn** - the abstract specification of a turn: what `run_turn_once` may
count on from a backend. An agent `Say`s things, the chat is `Show`n them in that
order, a prompt `Succeed`s only when everything said has been shown, it may
`Stall` and `Retry` once if it was given a session, and reports the session it
ran in. It knows nothing of tasks, channels, pipes or processes.

**ExecTurn** - the exec backend under the gateway, for the prompts of one conversation. The
gateway task: `Admit` (the test of the active mark, up to the drop of the lock), `Announce`
(the status message was sent: mark and start) or `AnnounceFails`, `Forward`, `ForwardFails`,
`TakeResult`, `StartFresh`, `NoticeFails`, `MarkInactive`, `Save`. The turn task that
`run_turn_once` spawns: `Spawn`, `WritePrompt`, `CloseStdin`, `ReadLine`, `Reap`, `TimeOut`
and their failures; `Return` drops the process with the future (`kill_on_drop`). The process
is an environment that reads, writes and exits as it likes. `Quit`, `Drained`, `Interrupt`
and `Exit` are `Gateway::run` and the end of `main`. The pipes and the channel are counters:
what was written and not read is in the pipe, what was read and not shown is in the channel.
`Turn` is the refinement mapping to AgentTurn; a prompt's messages are those of the run it
is receiving from.

**Commands** - the parsers as operators over texts, which are sequences of
symbols (a command word, a blank, a digit, a numeral, a punctuation mark, any
JSON object, the word `true`, any other word); the state machine types texts. `Read` is the dispatch of
`handle_message`, `ParseTarget`, `IsExplicit`, `Splits` and `ChineseOrdinal` are the
functions of those names, and `DecisionButton` to `OtherButton` are what the cards
of the Feishu frontend send. `Json` is what `serde_json::from_str` takes of such a text,
and `OneAnswer` what becomes of a reply to a request of one question (`gateway.rs:552`,
`build_interaction_response`).

**AppServerProofs, CommandsProofs, ConnectionSlotProofs, ExecTurnProofs,
FeishuProofs, GatewayProofs, InteractionsProofs, SessionStoreProofs** - section 5.

Operators whose comment begins "Mutant of" are not part of any specification:
each is a form of an action with a plausible mistake, which must break the
property `PROJECT.json` pairs it with.

## 3. Runs

| Run | Question | Instance | Answer |
|---|---|---|---|
| `appserver_safety` | Do handles, events and completions stay with their turn, and is that what ThreadTurn promises? | 2 turns, 2 threads (one persisted), 2 messages, no request | holds |
| `appserver_liveness` | Does every `run_turn` return, and is a request kept until answered? | 2 turns, 1 thread, no messages, 1 request, 1 responder | holds |
| `appserver_active_turn` | Is "already has an active turn" true when it is said? | 2 turns, 1 thread | violated |
| `appserver_replies` | Are a successful turn's messages all handed on? | 2 turns, 1 thread, 1 message | violated |
| `gateway` | Sessions unique, flag owned, turns apart, effects kept, only tasks with lasting turns left? | 3 messages of a conversation, 3 names, 4 ids, 2 directories, 2 modes | holds |
| `session_store` | Do file and memory agree? | 3 upserts, 2 crashes | holds |
| `feishu` | Replies stand, cards follow, events repeated only for a cause, sends return, events arrive? | 1 sender, 3 sends, queue of 1, 1 event (2 deliveries, 1 while one waits), 1 failure, 2 interactions (1 and 2 cards) | holds |
| `interactions` | Are requests answered, answers kept, numbers stable? | 2 command tasks, 2 requests (several questions; one question or an approval), 2 questions, a resumed thread, a connection that may be lost | holds |
| `interactions_first_turn` | The same in a thread's first turn | 1 command task, 1 request of one question | violated |
| `connection_slot` | Do all calls share one connection? | 3 calls | holds |
| `exec_turn` | Does the exec backend implement AgentTurn, with one process at work but for races, and does everything end? | 2 prompts with 2 runs each, with or without a stored session, pipes of 1, prompts of 2 pieces, 3 lines | holds |
| `commands` | Are numbers, targets, answers and button texts read right? | every text of up to 4 of 16 symbols, numbers up to 22 | holds |

Bounds. Interference in this code is between pairs: two turns of one thread, two commands on
one draft, two writers of one file. Two turns on two threads include both "same thread" and
"different threads"; two messages per turn are enough to find one in the wrong channel, left
over or out of order; a second turn after a failed one meets whatever the first left.
`gateway` has three messages, because losing a command's effect takes a prompt, a command
and a second writer. In `session_store` three upserts allow a collision and a third call
that persists after it, and two crashes allow a restart from a damaged file. `feishu` has a
queue of one, so that senders wait; one failure suffices to drop a queue or to leave a card;
the event may be delivered twice, and once more while a frame of it waits. In `interactions`
one request has several questions and the other is a single question or an approval, so that
every command also meets a request it does not suit. In `exec_turn` a prompt is larger than
the pipe, so that writing it can block, and there are more lines than fit, so that the
process can block; two prompts are needed for a turn left behind to meet the next one, and
two runs each for the retry. In `commands` four symbols hold an ordinal prefix, two numeral
signs and a counter, or a target, a blank and an answer; 22 is beyond twenty, where tens and
ones are both written. `MaxItems`, `MaxLines`, `MaxLen`, `MaxNumber`, `MaxInteractions`,
`MaxToken`, `MaxCrashes`, `QueueCap`, `MaxSends`, `MaxEvents`, `MaxTries`, `MaxLate` and
`MaxFailures` are the bounds; only `QueueCap` exists in the code (64); `PipeCap` is the
operating system's.

`CHECK_DEADLOCK FALSE` is set in all runs: turns, messages, calls and
upserts are finitely many and the system stops when they are done.

Fairness. Tokio schedules every task, so each task's steps are weakly fair.
`select!` picks among ready arms at random, so no arm starves: in `AppServer` each
arm of a turn leads to an end and one fairness condition per turn suffices, in `Feishu` each
frame and the queue have their own. The app-server replies to what it received and ends turns
that wait for nobody; nothing makes a user answer or the link fail, so
`TurnsReturn` excuses a turn whose server waits for a user. In `Gateway` only what
a task does by itself (`Proceed`) is fair: nothing is assumed to end a turn, because an
app-server turn that waits for an approval has no timeout. In `ExecTurn` tasks are
scheduled, the timer fires while its future exists, and a gateway that has
joined its tasks exits; nothing at all is assumed of the process, of a user or of
the chat. `run_forever`
retries for ever, and its attempts are assumed to succeed at last (`WF(Connect)`). In
`Interactions` the users keep answering (strong fairness, because the task they
use is busy in between), each request with a command that suits it: `RequestsGetAnswers`
asks what becomes of a user who tries. Nothing keeps others from sending what does not
suit, and whoever answers a question with `2` is refused every time.

### What the properties say

The comments above each property are the reference. Some need context:

* `NoOverlap`, `EventsAreOwn` and `TurnContract` (by `Sure`) hold with the proviso that no
  turn/start call of the thread timed out. After a timeout the handle is released while the server
  runs the turn, and a second turn of the thread receives the first one's events, its
  completion included.
* They hold *because* a failed turn leaves its handle behind, which is finding
  1: the mutant that unregisters after a failed `on_event` breaks all three.
* `CommandsKeptUnlessClobbered` and `SessionsKeptUnlessClobbered` exempt
  conversations written from an outdated copy. The exemption is used: a turn
  stores the state it loaded before it began, and two prompts, or a command and
  the end of a turn, can overlap. The properties say that this is the only way.
* `OverlapOnlyByRace`: the conversation lock is dropped (`gateway.rs:245`) before
  the conversation is marked active (line 274), so two prompts can both pass the
  test of line 183. The property says that turns overlap in no other way; it is
  a formula about whole behaviours, because after such a race the flag is
  cleared by the first turn to end, and a third prompt may join.
* `OneProcessUnlessRace` has the same premise, for processes: the code does run two at once
  after such a race, and then the property says nothing. Its `OneProcess` excuses an
  abandoned run: forwarding an event failed, or the gateway was interrupted, and
  `run_turn_once` is gone while its turn task goes on to its next event. `ProcessesEnd` says
  that such a process still ends.
* `OnlyTurnsLast` says that nobody waits for another's turn: a message ends, or stays in a
  turn of its own. That turns end is `PromptsEnd` for the exec backend and `TurnsReturn`
  for the app-server, with their provisos.
* `RepeatsHaveCause`: events are acknowledged after they were passed on, and no record of
  them is kept. So an event becomes several prompts after a lost acknowledgement, and also without any
  failure, when Feishu delivers it again while its frame waits for the loop; the
  property bounds how many by these two causes.
* `ButtonsRead` holds for every label and every question id, and says of each what
  happens: a label that can be read as JSON, but an object, is refused for a request of one question, an
  id with white space is not recognised for one of several, every other is answered as meant.
* `ItemNumbersStable` is about a number as long as its request and those listed above it
  wait. When one above is answered the later ones move up, and a number that was read before
  means another request.
* `FileMatchesMemory` and `SavedIsRestored` exempt colliding upserts, which also
  happen, because `persist` runs outside the lock.
* `SavedAnswersKeptUnlessLost` exempts drafts cleared by a command that did not
  answer, taken by two replies at once, or complete when the connection is lost; the code loses
  answers in these three ways, and the property says that there is no fourth.
* `CardsFollowTokens` exempts cards the code cannot know of: an API call failed
  midway, or the request was dismissed before its card was posted.

## 4. Findings

1. `appserver_active_turn` - `run_turn` leaves its loop by `?` or `bail!`
   (`codex_app_server.rs:78-110`) without `unregister_active_turn`; the thread then refuses
   every turn with "codex already has an active turn for thread" (line 387).
2. `appserver_replies` - `select!` may take the completion while events are queued;
   those messages are dropped, against `README.md:79` "Normal Codex replies are sent
   back as text messages to the same `chat_id` or `thread_id`".
3. `interactions_first_turn` - a thread's session id is stored when its first turn
   is over, and interaction commands look the thread up by that id; until then
   nothing can be answered, against `README.md:116`. A turn that waits for the answer
   then ends only by failing.

Seen while modelling, without a run:

* Two prompts can run at once (see `OverlapOnlyByRace` above), against the notice of
  `gateway.rs:187` "Codex is already working in this conversation."
* Nothing empties the connection slot when the websocket ends
  (`codex_app_server.rs:121`); every turn after that fails until a restart.
* `/reply last one please` or `/reply 1 apple` with one pending request loses its
  first word, which is read as a target, though `README.md:118` lets the
  target be omitted then.
* The prompt of a request always suggests `/approve 1`, whatever its place in the
  list (`domain/interaction.rs:67`).
* A question id that reads like a target (`1`, `last`) cannot be answered in the
  form its notice suggests.
* `/approve` followed by a line break, `/reply` with nothing after it, and `/mode` with an unknown mode are
  prompts to Codex.
* A process that exits before it took its prompt fails the write
  (`codex.rs:171`); its exit status is never seen, so there is no retry.
* After `/quit` the gateway joins its tasks and no longer looks at Ctrl-C
  (`gateway.rs:101`). With the exec backend the timer ends them (`GatewayExits`); an
  app-server turn that waits for an answer keeps the process for ever.
* `README.md:137-153` gives `turn_timeout_secs` for both backends; only
  `codex.rs:134` (exec) applies it.
* `codex_app_server.rs:1018` advises JSON for a request with several questions, in a
  form the gateway's `/reply` does not pass on.
* `/reply 2`, `/reply true` or a button with such a label never answers a request of one
  question: the text is sent as JSON (`gateway.rs:552`) and refused because it is not an
  object (`codex_app_server.rs:1034`). A question id with white space, of several, cannot be
  answered at all (`gateway.rs:1322`).
* When the connection is lost, the last answer to several questions clears the
  draft (`gateway.rs:520`) and then fails to be sent: the request stays, the
  answers are gone.
* `README.md:73` "Acknowledges events quickly, then forwards"; the code forwards,
  then acknowledges (`frontend/feishu/mod.rs:316`), and does neither while it handles an outbound
  message (line 148), so that a slow call of the API can turn one event into two prompts.
* `README.md:81` says a card is deleted after its action succeeds; it is deleted
  when the action is passed on (`frontend/feishu/mod.rs:349`).
* A process that dies between truncation and write leaves a state file that
  `load` refuses at every later start.

## 5. Proofs

For every value of the constants that satisfies the named assumptions of the
modules (absent values are not members; bounds are naturals):

* `AppServerProofs!TypeCorrect`, `HandleKeptAlways`, `RequestsKeptAlways`, `NoOverlapAlways`,
  `EventsAreOwnAlways`, `SuccessIsOwnAlways`, `TurnsKeepContract`.
  Types alone are not inductive: a turn indexes `active_turns` by its thread, the
  reader indexes `asked` by the last token, a responder removes by the token it
  remembers. `Basics` adds `ThreadKnown` (who has begun knows its thread from the
  first reply on; so does what travels to the server, what it received and what it runs),
  `Forwarding` (the interaction being forwarded was asked by a running turn) and `TokenKnown`.
  `HandleKept` is inductive with `Basics`: `Register` takes only a free entry,
  `Unregister` empties the entry its caller owns, and the two
  `FailAllActiveTurns` make `Intact` false. `RequestsKept` needs `AnswerSent`: a
  responder about to remove an entry has sent an answer for it.
  The other three come from `Owned`. A turn asks the server once, and only while it waits
  for the response (`CallsOnce`), so whatever the server runs of a thread without
  timeouts owns the thread's handle and is not about to give it back (`RunsOwned`). Then what
  the reader dispatches by thread reaches the right turn (`OwnEvents`, `Ended`);
  these and `RunsOwned` need each other, because a foreign completion would
  release the handle of a turn that runs. After a failed connection the reader may
  still forward one request, to a handle nobody listens behind (`LateHandles`).
  The refinement (`TurnsKeepContract`) needs `Told`: a result is there exactly in the last steps of a
  call, and nothing is shown before its loop (`Progress`); in doubt or not, what is in
  a channel is of a turn of the same thread (`SameThread`); and the channel of a call
  that may still show something holds exactly what was emitted for its turn and not
  yet shown, in order (`InOrder`), which `TakeNext` and `JoinLast` keep over a take and a send.
  `ChannelStep` sorts the steps into those that dispatch one event and those that take
  some. Each step is then one of ThreadTurn (`EventRefines`, `WriterRefines`,
  `ReplyRefines`, `BeginRefines`, `TimeoutRefines`, `MoveRefines`) or a stutter. `Start` is where
  the handles count: a turn/start that arrives is of a call that holds its thread's, so
  `RunsOwned` leaves the handle to no other turn that runs.
* `SessionStoreProofs!TypeCorrect`, `FileMatches`, `UnreadableMidWrite`, `SavedRestored`,
  all from `StoreInv`: as long as nothing collided, failed or died midway, one upsert at
  most persists, its snapshot is the map, the file is empty exactly while it
  writes, and a quiet file is what memory holds. `Bounded` (no version is ahead of
  `inserted`) makes `Insert` and `Load` go through.
* `GatewayProofs!TypeCorrect`, `ActiveHasTurnAlways`, `UniqueSessionsAlways`, `CommandsKept`,
  `SessionsKept`, `OverlapsOnlyByRace`. `Types` adds to the types that every copy is `Sound` (its current
  thread exists), which `ensure_state_is_usable` provides and every command and
  write keeps (`UsableSound`, `CommandKeepsIds`, `PutId`). The two "unless clobbered"
  theorems rest on `CopyFresh`: a task that is not outdated has the stored
  state as its copy, so what it writes back is what the store holds.
  `UniqueSessions` is not inductive, because ids also travel with tasks; `Placed`
  says that each id is at one place at most (a thread's name in a
  conversation), counting the store, every copy and every id carried by a task, and
  that an id anywhere was handed out. Each step then puts no id
  at a new place, except a turn that returns a fresh one.
  `OverlapOnlyByRace` speaks of whole behaviours: if no two turns of a conversation
  are ever about to announce themselves at once, no two of them run at once. Under that
  premise `Apart` is inductive: who runs has its copy's active mark in the
  store, and nobody else is past the test of that mark.
* `ExecTurnProofs!TypeCorrect`, `OneProcessButForRaces`, `ExecImplementsTurn`. The many
  steps are first sorted by what they do (`TaskEffect`, `ProcessEffect`, `GatewaySteps`),
  and the lemmas are about those. `WInv` relates tasks and processes: a process lives only
  while its task writes or reads (`Alive`), a receiver exists only for the run that is
  received from (`Receivers`), a prompt's runs start in order (`Started`).
  `OneProcessUnlessRace` speaks of whole behaviours: under `~Racing` it is inductive that
  the active mark is held by the one prompt from its announcement to `MarkInactive`, and
  that no other is past the test of it (`TurnsApart`); with `WInv`, `OneProcess` follows.
  Without the premise it is false. The refinement does not rest on it; it needs, besides
  `WInv` (`IInv`): what is shown was read and what was read was written (`Counted`), a
  result is empty until it is taken (`Unresolved`), and a session no run has made is nowhere
  yet (`Fresh`), which makes the session a fresh run reports one that no other prompt has.
  Each step then maps to a step of AgentTurn or to a stutter; an interrupt maps to one
  `Fail` of all prompts in their turn.
* `InteractionsProofs!TypeCorrect`, `NumbersStable`, `SavedAnswersKept`. Item
  numbers are positions, so `ItemNumbersStable` needs that requests which were not shown
  are newer than those that were (`NewerThanShown`), and counting: the n-th of a set
  exists, is unique (`NthExists`, `NthUnique`), and stays the n-th when all up to it stay and
  only newer ones join (`NumbersStay`). For saved answers, one command at a time holds the draft of a
  request, which is then not in the map (`OneHolder`, but for what counts as lost), and what
  it stores or sends is what it took with new answers over it (`MergeKeeps`).
* `FeishuProofs!TypeCorrect`, `RepliesNeverRewritten`, `CardsFollow`, `RepeatsCaused`. A
  reply is not rewritten, because a conversation's draft is never a reply nor another
  conversation's draft (`DraftsOpen`). `CardsFollowTokens` needs that an interaction becomes
  cards once, wherever its message is (`SentOnce`: one sender or one place in the queue
  holds it, and none when its cards are made), that a card still up is what the loop
  remembers for its key unless it went astray (`Remembered`), and that a click names a card
  (`Clicked`). `RepeatsHaveCause` needs `Forwarded`, which counts what was passed on
  together with the frames that wait: a delivery that found none waiting was the first or
  followed a failure, because the last frame that was read without one acknowledged the
  event.
* `CommandsProofs!TargetTestsAgree`, `AnswersKept`, `NumbersAreRead`, `ButtonsAreRead`: for
  texts of every length over any symbols, from lemmas about what trimming leaves
  (`TrimStart`, `TrimEnd`) and what the first word of a text is. `NumbersRead` needs the
  value of digits of any length. Induction being out of reach, a shortest counterexample is
  taken by well-foundedness (`WorthRecursion`, `WorthNumber`). Each way to name an item is
  then characterised by the symbols it has (`Ends`, `ChineseText`), prefix and counter are
  shown to come off (`OrdinalTexts`, `CountedTexts`), and `Normalize` to leave the part of
  the text between what may be trimmed (`NormalizeIs`, `NormalizeSays`). `ButtonsRead` is
  about what stands around a word: `TrimIs`, `TrimBehind`, `FirstWordIs`, `TokenIs`,
  `BeforeBlank`. An id with white space is not found because a first word has none
  (`FirstWordIsOne`), and `OneAnswerIs` is the last reading of a label. Both rest on
  `CommandsAssumption`: the symbols the code tells apart are different, and no word of a
  token reads as a number.
* `ConnectionSlotProofs!TypeCorrect`, `OneConnectionHolds`: a call that returned
  `ok` got what is in the slot, and the slot is written only when empty.

Model-checked only: liveness (`TurnsReturn`, `OnlyTurnsLast`,
`RequestsGetAnswers`, `SendsReturn`, `EventsReachGateway`, `PromptsEnd`, `GatewayExits`,
`ProcessesEnd`), which the prover does not do under fairness. Every other property of
a passing run is a theorem.

## 6. Not modelled

* Facade and mapping (`codex.rs:96-121`, `backend/`): stateless dispatch and
  field-by-field conversions. The command line of `codex exec`, and `run_review`, which nothing calls.
* Texts, JSON layout, Markdown and cards: no property is about them.
* Upper case in commands, and item numbers beyond `usize`.
* What only sends a notice (the text of `/reply-other` is in Commands).
* Configuration and startup, the console's loop over its lines: sequential,
  without shared state. That it ends is `Quit` in ExecTurn.
* Server requests of kinds the code ignores; ping and pong; proxies.

## 7. Plan

Done: all modules above and their proofs. What would come next are compositions:
Interactions with Feishu (is a card deleted only when its command succeeded?), and
Interactions over AppServer (requests that outlive their turn and meet the next one).
