------------------------------ MODULE Gateway ------------------------------
(***************************************************************************)
(* The message tasks of the gateway (app/gateway.rs): each inbound message *)
(* runs handle_message in a task of its own.  A task holds the lock of its *)
(* conversation while it loads the conversation's state and decides; a     *)
(* management command also writes the state back under the lock, a prompt  *)
(* drops the lock, runs a Codex turn and writes back the copy it loaded.   *)
(*                                                                         *)
(* Atomicity.  A step is what a task does between two points at which      *)
(* another task can run and matter: loading, testing the active flag,      *)
(* writing the store, setting and clearing the flag are separate steps.    *)
(* Notices sent after the last of them only delay the release of the lock. *)
(***************************************************************************)
EXTENDS Integers, FiniteSets

CONSTANTS
  Messages,         (* inbound messages, each with its task                *)
  Conversations,    (* conversation keys                                   *)
  ConversationOf,   (* the conversation of each message                    *)
  Aliases,          (* thread names: 0 is "main", n is "thread-n"          *)
  Ids,              (* codex session ids                                   *)
  NoId, NoTask,     (* absent values                                       *)
  Dirs, DefaultDir, (* working directories                                 *)
  Modes, NoMode,    (* collaboration modes; NoMode is the unset one        *)
  Restored          (* the states SessionStore::load found, or the default *)
                    (* one where it found none                             *)

(* ThreadRecord, ConversationState.                                        *)
ThreadRecord == [id : Ids \cup {NoId}, dir : Dirs, mode : Modes]
ConversationState ==
  [current : Aliases, threads : UNION {[S -> ThreadRecord] : S \in SUBSET Aliases}]

(* No session id is stored twice in a map of conversation states.          *)
IdsDistinct(f) ==
  \A c, d \in Conversations :
    \A a \in DOMAIN f[c].threads, b \in DOMAIN f[d].threads :
      (f[c].threads[a].id = f[d].threads[b].id /\ f[c].threads[a].id # NoId)
        => c = d /\ a = b

ASSUME GatewayAssumption ==
  /\ Restored \in [Conversations -> ConversationState]
  /\ IdsDistinct(Restored)
  /\ ConversationOf \in [Messages -> Conversations]
  /\ Aliases \subseteq Nat /\ 0 \in Aliases
  /\ NoId \notin Ids
  /\ NoTask \notin Messages
  /\ DefaultDir \in Dirs
  /\ NoMode \in Modes

VARIABLES
  store,      (* the session store's sessions                              *)
  lock,       (* conversation_locks: the task that holds each              *)
  active,     (* active_conversations                                      *)
  pc,         (* where each task stands                                    *)
  state,      (* the copy of the conversation state a task loaded          *)
  session,    (* the session id its current run_turn_once was given        *)
  summary,    (* the thread id its turn returned                           *)
  issued,     (* environment: session ids the backend has handed out       *)
  told,       (* history: what management commands last set, per           *)
              (* conversation                                              *)
  outdated,   (* history: tasks whose copy is older than the store         *)
  clobbered   (* history: conversations written from an outdated copy      *)

taskVars    == <<pc, state, session, summary>>
historyVars == <<told, outdated, clobbered>>
vars == <<store, lock, active, taskVars, issued, historyVars>>

DefaultThread == [id |-> NoId, dir |-> DefaultDir, mode |-> NoMode]
WithDefaultThread == [current |-> 0, threads |-> [a \in {0} |-> DefaultThread]]

(* ThreadService::ensure_state_is_usable.                                  *)
Least(S) == CHOOSE a \in S : \A b \in S : a <= b
Usable(s) ==
  IF DOMAIN s.threads = {} THEN WithDefaultThread
  ELSE IF s.current \in DOMAIN s.threads THEN s
  ELSE [s EXCEPT !.current = Least(DOMAIN s.threads)]

Current(s) == s.threads[s.current]

(* What commands set: everything but the session ids.                      *)
Settings(s) ==
  [current |-> s.current,
   threads |-> [a \in DOMAIN s.threads |->
                  [dir |-> s.threads[a].dir, mode |-> s.threads[a].mode]]]

TaskStates == {"new", "locked", "loaded", "managing", "announcing", "running",
               "ending", "saving", "done"}

Init ==
  /\ store = Restored
  /\ lock = [c \in Conversations |-> NoTask]
  /\ active = {}
  /\ pc = [m \in Messages |-> "new"]
  /\ state = [m \in Messages |-> WithDefaultThread]
  /\ session = [m \in Messages |-> NoId]
  /\ summary = [m \in Messages |-> NoId]
  /\ issued = {i \in Ids : \E c \in Conversations :
                            \E a \in DOMAIN store[c].threads : store[c].threads[a].id = i}
  /\ told = [c \in Conversations |-> Settings(Usable(store[c]))]
  /\ outdated = {} /\ clobbered = {}

TypeOK ==
  /\ store \in [Conversations -> ConversationState]
  /\ lock \in [Conversations -> Messages \cup {NoTask}]
  /\ active \subseteq Conversations
  /\ pc \in [Messages -> TaskStates]
  /\ state \in [Messages -> ConversationState]
  /\ session \in [Messages -> Ids \cup {NoId}]
  /\ summary \in [Messages -> Ids \cup {NoId}]
  /\ issued \subseteq Ids
  /\ outdated \subseteq Messages
  /\ clobbered \subseteq Conversations

-----------------------------------------------------------------------------
Goto(m, from, to) == pc[m] = from /\ pc' = [pc EXCEPT ![m] = to]
Conv(m) == ConversationOf[m]
Unlock(m) == lock' = [lock EXCEPT ![Conv(m)] = NoTask]

(* Between loading its copy and its last write.                            *)
HoldsCopy(m) == pc[m] \in {"loaded", "managing", "announcing", "running", "ending", "saving"}

(* SessionStore::upsert: the whole state of the conversation is replaced.  *)
Upsert(m, s) ==
  LET c == Conv(m) IN
  /\ store' = [store EXCEPT ![c] = s]
  /\ outdated' = outdated \cup {n \in Messages : n # m /\ Conv(n) = c /\ HoldsCopy(n)}
  /\ clobbered' = IF m \in outdated THEN clobbered \cup {c} ELSE clobbered

-----------------------------------------------------------------------------
(* handle_message, up to the point where a prompt drops the lock.          *)

Lock(m) ==
  /\ Goto(m, "new", "locked")
  /\ lock[Conv(m)] = NoTask
  /\ lock' = [lock EXCEPT ![Conv(m)] = m]
  /\ UNCHANGED <<store, active, state, session, summary, issued, historyVars>>

Load(m) ==
  /\ Goto(m, "locked", "loaded")
  /\ state' = [state EXCEPT ![m] = Usable(store[Conv(m)])]
  /\ UNCHANGED <<store, lock, active, session, summary, issued, historyVars>>

(* Mutant of Refuse: the guard is kept.                                    *)
RefuseKeepsLock(m) ==
  /\ Conv(m) \in active
  /\ Goto(m, "loaded", "done")
  /\ UNCHANGED <<store, lock, active, state, session, summary, issued, historyVars>>

(* A busy conversation gets a notice; commands that only show something    *)
(* (/threads, /pwd, /mode, the /feishu-edit-test and /review messages) do  *)
(* not change anything either.                                             *)
Refuse(m) ==
  /\ Conv(m) \in active
  /\ Goto(m, "loaded", "done")
  /\ Unlock(m)
  /\ UNCHANGED <<store, active, state, session, summary, issued, historyVars>>

Show(m) ==
  /\ Conv(m) \notin active
  /\ Goto(m, "loaded", "done")
  /\ Unlock(m)
  /\ UNCHANGED <<store, active, state, session, summary, issued, historyVars>>

AdmitCommand(m) ==
  /\ Conv(m) \notin active
  /\ Goto(m, "loaded", "managing")
  /\ UNCHANGED <<store, lock, active, state, session, summary, issued, historyVars>>

(* Mutant of AdmitPrompt: admitted without a look at the active flag.      *)
AdmitPromptBusy(m) ==
  /\ Goto(m, "loaded", "announcing")
  /\ session' = [session EXCEPT ![m] = Current(state[m]).id]
  /\ Unlock(m)
  /\ UNCHANGED <<store, active, state, summary, issued, historyVars>>

(* The current thread is cloned with the state; the guard is dropped here. *)
AdmitPrompt(m) ==
  /\ Conv(m) \notin active
  /\ Goto(m, "loaded", "announcing")
  /\ session' = [session EXCEPT ![m] = Current(state[m]).id]
  /\ Unlock(m)
  /\ UNCHANGED <<store, active, state, summary, issued, historyVars>>

-----------------------------------------------------------------------------
(* handle_management_command, for the commands that write.                 *)

NewThread(s, a) ==
  [current |-> a,
   threads |-> [b \in DOMAIN s.threads \cup {a} |->
                  IF b = a THEN [Current(s) EXCEPT !.id = NoId] ELSE s.threads[b]]]

(* Mutant of Commanded: /thread new also takes a name that exists.         *)
CommandedReplaces(s) ==
  {NewThread(s, a) : a \in Aliases}
  \cup {[s EXCEPT !.current = a] : a \in DOMAIN s.threads}
  \cup {[s EXCEPT !.threads[s.current].dir = d] : d \in Dirs}
  \cup {[s EXCEPT !.threads[s.current].mode = v] : v \in Modes \ {NoMode}}

(* The states a command can leave.  The default name of /thread new, the   *)
(* first unused "thread-n", is one of the unused names; an existing name   *)
(* for /thread new, an unknown one for /thread use or a path that is no    *)
(* directory leave none.                                                   *)
Commanded(s) ==
  {NewThread(s, a) : a \in Aliases \ DOMAIN s.threads}
  \cup {[s EXCEPT !.current = a] : a \in DOMAIN s.threads}
  \cup {[s EXCEPT !.threads[s.current].dir = d] : d \in Dirs}
  \cup {[s EXCEPT !.threads[s.current].mode = v] : v \in Modes \ {NoMode}}

Manage(m) ==
  /\ Goto(m, "managing", "done")
  /\ \E s \in Commanded(state[m]) :
       /\ Upsert(m, s)
       /\ told' = [told EXCEPT ![Conv(m)] = Settings(s)]
  /\ Unlock(m)
  /\ UNCHANGED <<active, state, session, summary, issued>>

RejectCommand(m) ==
  /\ Goto(m, "managing", "done")
  /\ Unlock(m)
  /\ UNCHANGED <<store, active, state, session, summary, issued, historyVars>>

-----------------------------------------------------------------------------
(* A prompt, without the lock.                                             *)

(* Mutant of Announce: marked under the message instead of the key.        *)
AnnounceWrongKey(m) ==
  /\ Goto(m, "announcing", "running")
  /\ active' = active \cup {m}
  /\ UNCHANGED <<store, lock, state, session, summary, issued, historyVars>>

(* The status message is sent, then the conversation is marked active.     *)
Announce(m) ==
  /\ Goto(m, "announcing", "running")
  /\ active' = active \cup {Conv(m)}
  /\ UNCHANGED <<store, lock, state, session, summary, issued, historyVars>>

AnnounceFails(m) ==
  /\ Goto(m, "announcing", "done")
  /\ UNCHANGED <<store, lock, active, state, session, summary, issued, historyVars>>

(* run_turn_once succeeds: a given session is resumed, else the backend    *)
(* makes one.  The exec backend may report no thread id.                   *)
TurnSucceeds(m) ==
  /\ Goto(m, "running", "ending")
  /\ \/ /\ session[m] # NoId
        /\ summary' = [summary EXCEPT ![m] = session[m]]
        /\ UNCHANGED issued
     \/ /\ session[m] = NoId
        /\ \E i \in Ids \ issued :
             /\ summary' = [summary EXCEPT ![m] = i]
             /\ issued' = issued \cup {i}
     \/ UNCHANGED <<summary, issued>>
  /\ UNCHANGED <<store, lock, active, state, session, historyVars>>

(* should_retry_with_fresh_session: a timeout or an exit status, and there *)
(* was a session; the second run is given none.                            *)
RetryFresh(m) ==
  /\ pc[m] = "running" /\ session[m] # NoId
  /\ session' = [session EXCEPT ![m] = NoId]
  /\ UNCHANGED <<store, lock, active, pc, state, summary, issued, historyVars>>

(* Mutant of TurnFails: the error returns before the flag is cleared.      *)
TurnFailsEarly(m) ==
  /\ Goto(m, "running", "done")
  /\ UNCHANGED <<store, lock, active, state, session, summary, issued, historyVars>>

TurnFails(m) ==
  /\ Goto(m, "running", "ending")
  /\ UNCHANGED <<store, lock, active, state, session, summary, issued, historyVars>>

MarkInactive(m) ==
  /\ Goto(m, "ending", IF summary[m] = NoId THEN "done" ELSE "saving")
  /\ active' = active \ {Conv(m)}
  /\ UNCHANGED <<store, lock, state, session, summary, issued, historyVars>>

(* Mutants of Save: the id goes into the thread that is current in the     *)
(* store by now; or into a record made anew.                               *)
SaveToCurrent(m) ==
  LET s == Usable(store[Conv(m)]) IN
  /\ Goto(m, "saving", "done")
  /\ Upsert(m, [s EXCEPT !.threads[s.current].id = summary[m]])
  /\ UNCHANGED <<lock, active, state, session, summary, issued, told>>

SaveNewRecord(m) ==
  LET s == state[m] IN
  /\ Goto(m, "saving", "done")
  /\ Upsert(m, [s EXCEPT !.threads[s.current] = [DefaultThread EXCEPT !.id = summary[m]]])
  /\ UNCHANGED <<lock, active, state, session, summary, issued, told>>

(* The session id goes into the current thread of the copy loaded before   *)
(* the turn, and that copy replaces the stored state.                      *)
Save(m) ==
  LET s == state[m] IN
  /\ Goto(m, "saving", "done")
  /\ Upsert(m, [s EXCEPT !.threads[s.current].id = summary[m]])
  /\ UNCHANGED <<lock, active, state, session, summary, issued, told>>

-----------------------------------------------------------------------------
(* What the task does by itself, and what its turn does.                   *)
Proceed(m) ==
  \/ Lock(m) \/ Load(m) \/ Refuse(m) \/ Show(m) \/ AdmitCommand(m) \/ AdmitPrompt(m)
  \/ Manage(m) \/ RejectCommand(m)
  \/ Announce(m) \/ AnnounceFails(m)
  \/ MarkInactive(m) \/ Save(m)

Turn(m) == TurnSucceeds(m) \/ RetryFresh(m) \/ TurnFails(m)

Step(m) == Proceed(m) \/ Turn(m)

Next == \E m \in Messages : Step(m)

Spec == Init /\ [][Next]_vars

(* Tasks are scheduled.  Nothing is assumed of turns: one that waits for   *)
(* an approval lasts as long as nobody answers.                            *)
FairSpec == Spec /\ \A m \in Messages : WF_vars(Proceed(m))

-----------------------------------------------------------------------------
(* Properties.                                                             *)

(* "Each named thread keeps its own Codex session id" (README.md:107): no  *)
(* interleaving of writes of whole, possibly old, states puts a session    *)
(* under two threads.                                                      *)
UniqueSessions == IdsDistinct(store)

(* The active flag never outlives the turns that set it: a conversation    *)
(* that refuses messages has a task that will clear the flag.              *)
ActiveHasTurn ==
  \A c \in active : \E m \in Messages : Conv(m) = c /\ pc[m] \in {"running", "ending"}

(* "/thread new creates a fresh logical thread and switches to it", "/cd   *)
(* updates the working directory" (README.md:108-110): what the commands   *)
(* set is what the store holds, unless a task has written a copy older     *)
(* than the store.  That does happen, and there is no other way to lose a  *)
(* command's effect.                                                       *)
CommandsKeptUnlessClobbered ==
  \A c \in Conversations \ clobbered : Settings(Usable(store[c])) = told[c]

(* "Codex sessions are persisted" (README.md:10): likewise a thread, once  *)
(* it has a session, keeps having one.                                     *)
SessionsKeptUnlessClobbered ==
  [][\A c \in Conversations \ clobbered' : \A a \in DOMAIN store[c].threads :
       store[c].threads[a].id # NoId =>
         a \in DOMAIN store'[c].threads /\ store'[c].threads[a].id # NoId]_vars

(* "Codex is already working in this conversation. Wait for the current    *)
(* turn to finish." (gateway.rs:187): a message is told so and does not    *)
(* itself wait.  Every message task ends, but for one whose own turn lasts *)
(* for ever; nobody is kept by another's turn, or by a lock.               *)
OnlyTurnsLast == \A m \in Messages : <>[](pc[m] \in {"running", "done"})

(* Two prompts of one conversation, both in one of the phases.             *)
Together(phases) ==
  \E m, n \in Messages :
    m # n /\ Conv(m) = Conv(n) /\ pc[m] \in phases /\ pc[n] \in phases

(* A message that finds the conversation busy is told to wait for the      *)
(* current turn (gateway.rs:187).  The code does not keep turns apart: two *)
(* prompts may both pass the test before either is announced.  That is the *)
(* only way in: unless that happens, turns never overlap.                  *)
OverlapOnlyByRace ==
  [](~Together({"announcing"})) => [](~Together({"announcing", "running", "ending"}))
=============================================================================
