--------------------------- MODULE GatewayProofs ---------------------------
(***************************************************************************)
(* Proofs about Gateway, for any number of messages, conversations,        *)
(* threads, session ids, directories and modes.                            *)
(***************************************************************************)
EXTENDS Gateway, WellFoundedInduction, TLAPS

(* A state whose current thread exists.                                    *)
Sound(s) == s \in ConversationState /\ s.current \in DOMAIN s.threads

AllThreads == UNION {[S -> ThreadRecord] : S \in SUBSET Aliases}

-----------------------------------------------------------------------------
(* Conversation states.                                                    *)

(* The threads of a state are records under some of the names.             *)
LEMMA ThreadsType ==
  \A f : f \in AllThreads <=>
           /\ f \in [DOMAIN f -> ThreadRecord]
           /\ DOMAIN f \subseteq Aliases
<1> TAKE f
<1>1. ASSUME f \in AllThreads
      PROVE  f \in [DOMAIN f -> ThreadRecord] /\ DOMAIN f \subseteq Aliases
  <2> PICK S \in SUBSET Aliases : f \in [S -> ThreadRecord]
    BY <1>1 DEF AllThreads
  <2> DOMAIN f = S
    OBVIOUS
  <2> QED
    OBVIOUS
<1>2. ASSUME f \in [DOMAIN f -> ThreadRecord], DOMAIN f \subseteq Aliases
      PROVE  f \in AllThreads
  BY <1>2 DEF AllThreads
<1> QED
  BY <1>1, <1>2

(* ensure_state_is_usable makes any stored state sound, with the threads   *)
(* it has, and leaves a sound one alone.                                   *)
LEMMA UsableSound ==
  ASSUME NEW s \in ConversationState
  PROVE  /\ Sound(Usable(s))
         /\ Sound(s) => Usable(s) = s
         /\ DOMAIN s.threads # {} => Usable(s).threads = s.threads
<1> USE GatewayAssumption
<1>0. s.threads \in AllThreads /\ s.current \in Aliases
  BY DEF ConversationState, AllThreads
<1>1. CASE DOMAIN s.threads = {}
  <2>1. DefaultThread \in ThreadRecord
    BY DEF DefaultThread, ThreadRecord
  <2>2. [a \in {0} |-> DefaultThread] \in AllThreads
    BY <2>1, ThreadsType
  <2>3. WithDefaultThread \in ConversationState
    BY <2>2 DEF WithDefaultThread, ConversationState, AllThreads
  <2>4. Sound(WithDefaultThread)
    BY <2>3 DEF Sound, WithDefaultThread
  <2> QED
    BY <1>1, <2>4 DEF Usable, Sound
<1>2. CASE DOMAIN s.threads # {} /\ s.current \in DOMAIN s.threads
  BY <1>2 DEF Usable, Sound
<1>3. CASE DOMAIN s.threads # {} /\ s.current \notin DOMAIN s.threads
  <2>1. DOMAIN s.threads \subseteq Nat
    BY <1>0, ThreadsType
  <2>2. \E a \in DOMAIN s.threads : \A b \in DOMAIN s.threads : a <= b
    <3> DEFINE R == {ss \in Nat \X Nat : ss[1] < ss[2]}
    <3>1. IsWellFoundedOn(R, Nat)
      BY NatLessThanWellFounded DEF OpToRel
    <3> HIDE DEF R
    <3>2. PICK a \in DOMAIN s.threads : \A b \in DOMAIN s.threads : <<b, a>> \notin R
      BY <1>3, <2>1, <3>1, WFMin
    <3>3. ASSUME NEW b \in DOMAIN s.threads PROVE a <= b
      <4>1. a \in Nat /\ b \in Nat /\ <<b, a>> \notin R
        BY <2>1, <3>2
      <4>2. ~(b < a)
        <5> SUFFICES ASSUME b < a PROVE FALSE
          OBVIOUS
        <5>1. <<b, a>> \in Nat \X Nat /\ <<b, a>>[1] < <<b, a>>[2]
          BY <4>1
        <5> QED
          BY <4>1, <5>1 DEF R
      <4> QED
        BY <4>1, <4>2
    <3> QED
      BY <3>3
  <2>3. Least(DOMAIN s.threads) \in DOMAIN s.threads
    BY <2>2 DEF Least
  <2>4. Usable(s) = [s EXCEPT !.current = Least(DOMAIN s.threads)]
    BY <1>3 DEF Usable
  <2>5. Least(DOMAIN s.threads) \in Aliases
    BY <2>3, <1>0, ThreadsType
  <2> QED
    BY <1>3, <2>3, <2>4, <2>5 DEF Sound, ConversationState
<1> QED
  BY <1>1, <1>2, <1>3

(* What writing a session id into the current thread does.                 *)
Put(s, i, t) ==
  /\ Sound(t)
  /\ DOMAIN t.threads = DOMAIN s.threads
  /\ t.current = s.current
  /\ t.threads[s.current].id = i
  /\ \A a \in DOMAIN s.threads \ {s.current} : t.threads[a] = s.threads[a]
  /\ Settings(t) = Settings(s)

(* The write of codex_thread_id in handle_message does no more than that.  *)
LEMMA PutId ==
  ASSUME NEW s, Sound(s), NEW i \in Ids \cup {NoId},
         NEW t, t = [s EXCEPT !.threads[s.current].id = i]
  PROVE  Put(s, i, t)
<1>1. s.threads \in [DOMAIN s.threads -> ThreadRecord] /\ DOMAIN s.threads \subseteq Aliases
  BY ThreadsType DEF Sound, ConversationState, AllThreads
<1>2. s.current \in DOMAIN s.threads /\ s.current \in Aliases
  BY <1>1 DEF Sound
<1>3. t = [s EXCEPT !.threads = [s.threads EXCEPT ![s.current] =
                                   [s.threads[s.current] EXCEPT !.id = i]]]
  OBVIOUS
<1>4. s = [current |-> s.current, threads |-> s.threads]
  BY DEF Sound, ConversationState
<1>5. /\ t.current = s.current
      /\ t.threads = [s.threads EXCEPT ![s.current] = [s.threads[s.current] EXCEPT !.id = i]]
  BY <1>3, <1>4
<1>6. [s.threads[s.current] EXCEPT !.id = i] \in ThreadRecord
  BY <1>1, <1>2 DEF ThreadRecord
<1>7. t.threads \in [DOMAIN s.threads -> ThreadRecord] /\ DOMAIN t.threads = DOMAIN s.threads
  BY <1>1, <1>5, <1>6
<1>8. t.threads \in AllThreads
  BY <1>1, <1>7, ThreadsType
<1>9. t = [current |-> s.current, threads |-> t.threads]
  BY <1>3, <1>4, <1>5
<1>10. Sound(t)
  BY <1>2, <1>7, <1>8, <1>9 DEF Sound, ConversationState, AllThreads
<1>11. \A a \in DOMAIN s.threads : t.threads[a].dir = s.threads[a].dir
                                    /\ t.threads[a].mode = s.threads[a].mode
  BY <1>1, <1>2, <1>5 DEF ThreadRecord
<1>12. Settings(t) = Settings(s)
  BY <1>5, <1>7, <1>11 DEF Settings
<1>13. t.threads[s.current].id = i
  BY <1>1, <1>2, <1>5 DEF ThreadRecord
<1> QED
  BY <1>1, <1>2, <1>5, <1>7, <1>10, <1>12, <1>13 DEF Put

(* What a command may do to the threads and their session ids.             *)
Kept(s, t) ==
  /\ Sound(t)
  /\ DOMAIN s.threads \subseteq DOMAIN t.threads
  /\ \A a \in DOMAIN s.threads : t.threads[a].id = s.threads[a].id
  /\ \A a \in DOMAIN t.threads \ DOMAIN s.threads : t.threads[a].id = NoId

(* A command leaves a sound state; the threads there were keep their       *)
(* session ids, and a new one has none.                                    *)
LEMMA CommandKeepsIds ==
  ASSUME NEW s, Sound(s), NEW t \in Commanded(s)
  PROVE  Kept(s, t)
<1>1. s.threads \in [DOMAIN s.threads -> ThreadRecord] /\ DOMAIN s.threads \subseteq Aliases
  BY ThreadsType DEF Sound, ConversationState, AllThreads
<1>2. s.current \in DOMAIN s.threads /\ s.current \in Aliases
  BY <1>1 DEF Sound
<1>3. s = [current |-> s.current, threads |-> s.threads]
  BY DEF Sound, ConversationState
<1>4. Current(s) \in ThreadRecord
  BY <1>1, <1>2 DEF Current
<1>5. ASSUME NEW a \in Aliases \ DOMAIN s.threads, t = NewThread(s, a) PROVE Kept(s, t)
  <2>1. [Current(s) EXCEPT !.id = NoId] \in ThreadRecord
        /\ [Current(s) EXCEPT !.id = NoId].id = NoId
    BY <1>4 DEF ThreadRecord
  <2>2. /\ t.current = a
        /\ t.threads = [b \in DOMAIN s.threads \cup {a} |->
                          IF b = a THEN [Current(s) EXCEPT !.id = NoId] ELSE s.threads[b]]
    BY <1>5 DEF NewThread
  <2>3. t.threads \in [DOMAIN s.threads \cup {a} -> ThreadRecord]
    BY <2>1, <2>2, <1>1
  <2>4. t.threads \in AllThreads
    BY <2>3, <1>1, ThreadsType
  <2>5. t = [current |-> a, threads |-> t.threads]
    BY <1>5, <2>2 DEF NewThread
  <2>6. Sound(t)
    BY <2>2, <2>4, <2>5 DEF Sound, ConversationState, AllThreads
  <2> QED
    BY <2>1, <2>2, <2>6 DEF Kept
<1>6. ASSUME NEW a \in DOMAIN s.threads, t = [s EXCEPT !.current = a] PROVE Kept(s, t)
  <2>1. t = [current |-> a, threads |-> s.threads]
    BY <1>3, <1>6
  <2>2. a \in Aliases
    BY <1>1
  <2> QED
    BY <2>1, <2>2 DEF Sound, ConversationState, Kept
<1>7. ASSUME NEW v \in ThreadRecord, v.id = Current(s).id,
             t = [s EXCEPT !.threads[s.current] = v]
      PROVE  Kept(s, t)
  <2>1. t = [current |-> s.current, threads |-> [s.threads EXCEPT ![s.current] = v]]
    BY <1>3, <1>7
  <2>2. t.threads \in [DOMAIN s.threads -> ThreadRecord] /\ DOMAIN t.threads = DOMAIN s.threads
    BY <1>1, <1>2, <2>1
  <2>3. t.threads \in AllThreads
    BY <2>2, <1>1, ThreadsType
  <2>4. Sound(t)
    BY <1>2, <2>1, <2>2, <2>3 DEF Sound, ConversationState, AllThreads
  <2> QED
    BY <1>1, <1>2, <1>7, <2>1, <2>2, <2>4 DEF Current, Kept
<1>8. ASSUME NEW d \in Dirs, t = [s EXCEPT !.threads[s.current].dir = d] PROVE Kept(s, t)
  <2> DEFINE v == [Current(s) EXCEPT !.dir = d]
  <2>1. v \in ThreadRecord /\ v.id = Current(s).id
    BY <1>4 DEF ThreadRecord
  <2>2. t = [s EXCEPT !.threads[s.current] = v]
    BY <1>8 DEF Current
  <2> QED
    BY <1>7, <2>1, <2>2
<1>9. ASSUME NEW d \in Modes, t = [s EXCEPT !.threads[s.current].mode = d] PROVE Kept(s, t)
  <2> DEFINE v == [Current(s) EXCEPT !.mode = d]
  <2>1. v \in ThreadRecord /\ v.id = Current(s).id
    BY <1>4 DEF ThreadRecord
  <2>2. t = [s EXCEPT !.threads[s.current] = v]
    BY <1>9 DEF Current
  <2> QED
    BY <1>7, <2>1, <2>2
<1> QED
  BY <1>5, <1>6, <1>8, <1>9 DEF Commanded
-----------------------------------------------------------------------------
(* Types.  The copies of the tasks are sound besides.                      *)
Types == TypeOK /\ \A m \in Messages : Sound(state[m])

(* Every step of every task keeps the types and the copies sound.          *)
LEMMA TypesStep == ASSUME Types, [Next]_vars PROVE Types'
<1> USE GatewayAssumption DEF historyVars, taskVars
<1>a. TypeOK /\ \A m \in Messages : Sound(state[m])
  BY DEF Types
<1>b. /\ pc \in [Messages -> TaskStates]
      /\ "new" \in TaskStates /\ "locked" \in TaskStates /\ "loaded" \in TaskStates
      /\ "managing" \in TaskStates /\ "announcing" \in TaskStates
      /\ "running" \in TaskStates /\ "ending" \in TaskStates
      /\ "saving" \in TaskStates /\ "done" \in TaskStates
  BY <1>a DEF TypeOK, TaskStates
<1>c. \A m \in Messages : Conv(m) \in Conversations
  BY DEF Conv
<1>d. \A m \in Messages : Current(state[m]).id \in Ids \cup {NoId}
  BY <1>a, ThreadsType DEF Sound, Current, ConversationState, AllThreads, ThreadRecord
<1>e. ASSUME NEW m \in Messages, NEW s \in ConversationState, Upsert(m, s)
      PROVE  /\ store' \in [Conversations -> ConversationState]
             /\ outdated' \subseteq Messages /\ clobbered' \subseteq Conversations
  BY <1>a, <1>c, <1>e DEF Upsert, TypeOK
<1>1. CASE UNCHANGED vars
  BY <1>a, <1>1 DEF vars, Types, TypeOK, Sound
<1>2. ASSUME NEW m \in Messages, Lock(m) PROVE Types'
  BY <1>2, <1>a, <1>b, <1>c DEF Lock, Goto, Types, TypeOK, Sound
<1>3. ASSUME NEW m \in Messages, Load(m) PROVE Types'
  <2>1. store[Conv(m)] \in ConversationState
    BY <1>a, <1>c DEF TypeOK
  <2>2. Sound(Usable(store[Conv(m)]))
    BY <2>1, UsableSound
  <2> QED
    BY <1>3, <1>a, <1>b, <2>2 DEF Load, Goto, Types, TypeOK, Sound
<1>4. ASSUME NEW m \in Messages, Refuse(m) \/ Show(m) PROVE Types'
  BY <1>4, <1>a, <1>b, <1>c DEF Refuse, Show, Unlock, Goto, Types, TypeOK, Sound
<1>5. ASSUME NEW m \in Messages, AdmitCommand(m) PROVE Types'
  BY <1>5, <1>a, <1>b DEF AdmitCommand, Goto, Types, TypeOK, Sound
<1>6. ASSUME NEW m \in Messages, AdmitPrompt(m) PROVE Types'
  BY <1>6, <1>a, <1>b, <1>c, <1>d DEF AdmitPrompt, Unlock, Goto, Types, TypeOK, Sound
<1>7. ASSUME NEW m \in Messages, Manage(m) PROVE Types'
  <2>1. PICK s \in Commanded(state[m]) : Upsert(m, s)
    BY <1>7 DEF Manage
  <2>2. s \in ConversationState
    BY <1>a, CommandKeepsIds DEF Kept, Sound
  <2>3. /\ store' \in [Conversations -> ConversationState]
        /\ outdated' \subseteq Messages /\ clobbered' \subseteq Conversations
    BY <2>1, <2>2, <1>e
  <2> QED
    BY <1>7, <2>3, <1>a, <1>b, <1>c DEF Manage, Unlock, Goto, Types, TypeOK, Sound
<1>8. ASSUME NEW m \in Messages, RejectCommand(m) PROVE Types'
  BY <1>8, <1>a, <1>b, <1>c DEF RejectCommand, Unlock, Goto, Types, TypeOK, Sound
<1>9. ASSUME NEW m \in Messages, Announce(m) \/ AnnounceFails(m) PROVE Types'
  <2>1. CASE Announce(m)
    BY <2>1, <1>a, <1>b, <1>c DEF Announce, Goto, Types, TypeOK, Sound
  <2>2. CASE AnnounceFails(m)
    BY <2>2, <1>a, <1>b DEF AnnounceFails, Goto, Types, TypeOK, Sound
  <2> QED
    BY <1>9, <2>1, <2>2
<1>10. ASSUME NEW m \in Messages, TurnSucceeds(m) PROVE Types'
  BY <1>10, <1>a, <1>b DEF TurnSucceeds, Goto, Types, TypeOK, Sound
<1>11. ASSUME NEW m \in Messages, RetryFresh(m) PROVE Types'
  BY <1>11, <1>a DEF RetryFresh, Types, TypeOK, Sound
<1>12. ASSUME NEW m \in Messages, TurnFails(m) PROVE Types'
  BY <1>12, <1>a, <1>b DEF TurnFails, Goto, Types, TypeOK, Sound
<1>13. ASSUME NEW m \in Messages, MarkInactive(m) PROVE Types'
  BY <1>13, <1>a, <1>b DEF MarkInactive, Goto, Types, TypeOK, Sound
<1>14. ASSUME NEW m \in Messages, Save(m) PROVE Types'
  <2> DEFINE s == [state[m] EXCEPT !.threads[state[m].current].id = summary[m]]
  <2>1. s \in ConversationState
    BY <1>a, PutId DEF TypeOK, Put, Sound
  <2>2. Upsert(m, s)
    BY <1>14 DEF Save
  <2>3. /\ store' \in [Conversations -> ConversationState]
        /\ outdated' \subseteq Messages /\ clobbered' \subseteq Conversations
    BY <2>1, <2>2, <1>e
  <2> QED
    BY <1>14, <2>3, <1>a, <1>b DEF Save, Goto, Types, TypeOK, Sound
<1> QED
  BY <1>1, <1>2, <1>3, <1>4, <1>5, <1>6, <1>7, <1>8, <1>9, <1>10, <1>11, <1>12, <1>13,
     <1>14 DEF Next, Step, Proceed, Turn

(* A restored store has the types.                                         *)
LEMMA TypesInit == Init => Types
<1> SUFFICES ASSUME Init PROVE Types
  OBVIOUS
<1>1. Sound(WithDefaultThread)
  <2>1. DefaultThread \in ThreadRecord
    BY GatewayAssumption DEF DefaultThread, ThreadRecord
  <2>2. [a \in {0} |-> DefaultThread] \in AllThreads
    BY <2>1, GatewayAssumption, ThreadsType
  <2> QED
    BY <2>2, GatewayAssumption DEF Sound, WithDefaultThread, ConversationState, AllThreads
<1> QED
  BY <1>1, GatewayAssumption DEF Init, Types, TypeOK, TaskStates, Sound

(* What every other proof relies on.                                       *)
LEMMA TypesHold == Spec => []Types
  BY TypesInit, TypesStep, PTL DEF Spec

(* The types hold whatever the tasks do and however they interleave.       *)
THEOREM TypeCorrect == Spec => []TypeOK
<1>1. Types => TypeOK
  BY DEF Types
<1> QED
  BY <1>1, TypesHold, PTL

-----------------------------------------------------------------------------
(* mark_conversation_inactive is on every way out of a turn, so the flag   *)
(* of a conversation always has a task that will clear it.                 *)
THEOREM ActiveHasTurnAlways == Spec => []ActiveHasTurn
<1>1. Init => ActiveHasTurn
  BY DEF Init, ActiveHasTurn
<1>2. Types /\ ActiveHasTurn /\ [Next]_vars => ActiveHasTurn'
  <2> SUFFICES ASSUME Types, ActiveHasTurn, [Next]_vars, NEW c \in active'
               PROVE  \E n \in Messages : Conv(n) = c /\ pc'[n] \in {"running", "ending"}
    BY DEF ActiveHasTurn, Conv
  <2> USE DEF historyVars
  <2>a. pc \in [Messages -> TaskStates]
    BY DEF Types, TypeOK
  <2>1. ASSUME c \in active,
               \A n \in Messages : pc[n] \in {"running", "ending"} => pc'[n] \in {"running", "ending"}
        PROVE  \E n \in Messages : Conv(n) = c /\ pc'[n] \in {"running", "ending"}
    BY <2>1 DEF ActiveHasTurn
  <2>2. CASE UNCHANGED vars
    BY <2>1, <2>2 DEF vars, taskVars
  <2>3. ASSUME NEW m \in Messages,
               Lock(m) \/ Load(m) \/ Refuse(m) \/ Show(m) \/ AdmitCommand(m)
                 \/ AdmitPrompt(m) \/ Manage(m) \/ RejectCommand(m) \/ AnnounceFails(m)
                 \/ TurnSucceeds(m) \/ RetryFresh(m) \/ TurnFails(m) \/ Save(m)
        PROVE  \E n \in Messages : Conv(n) = c /\ pc'[n] \in {"running", "ending"}
    <3>1. c \in active
      BY <2>3 DEF Lock, Load, Refuse, Show, AdmitCommand, AdmitPrompt, Manage, RejectCommand,
                  AnnounceFails, TurnSucceeds, RetryFresh, TurnFails, Save
    <3>2. \A n \in Messages : pc[n] \in {"running", "ending"} => pc'[n] \in {"running", "ending"}
      BY <2>3, <2>a
      DEF Lock, Load, Refuse, Show, AdmitCommand, AdmitPrompt, Manage, RejectCommand,
          AnnounceFails, TurnSucceeds, RetryFresh, TurnFails, Save, Goto
    <3> QED
      BY <2>1, <3>1, <3>2
  <2>4. ASSUME NEW m \in Messages, Announce(m)
        PROVE  \E n \in Messages : Conv(n) = c /\ pc'[n] \in {"running", "ending"}
    <3>1. \A n \in Messages : pc[n] \in {"running", "ending"} => pc'[n] \in {"running", "ending"}
      BY <2>4, <2>a DEF Announce, Goto
    <3>2. pc'[m] = "running" /\ (c \in active \/ c = Conv(m))
      BY <2>4, <2>a DEF Announce, Goto
    <3> QED
      BY <2>1, <3>1, <3>2
  <2>5. ASSUME NEW m \in Messages, MarkInactive(m)
        PROVE  \E n \in Messages : Conv(n) = c /\ pc'[n] \in {"running", "ending"}
    <3>1. c \in active /\ c # Conv(m)
      BY <2>5 DEF MarkInactive
    <3>2. PICK n \in Messages : Conv(n) = c /\ pc[n] \in {"running", "ending"}
      BY <3>1 DEF ActiveHasTurn
    <3>3. pc'[n] = pc[n]
      BY <2>5, <2>a, <3>1, <3>2 DEF MarkInactive, Goto
    <3> QED
      BY <3>2, <3>3
  <2> QED
    BY <2>2, <2>3, <2>4, <2>5 DEF Next, Step, Proceed, Turn
<1> QED
  BY <1>1, <1>2, TypesHold, PTL DEF Spec
-----------------------------------------------------------------------------
(* A task that is not outdated has the stored state as its copy, though it *)
(* may have been repaired by ensure_state_is_usable.                       *)
CopyFresh ==
  \A m \in Messages : HoldsCopy(m) /\ m \notin outdated => state[m] = Usable(store[Conv(m)])

(* A task that is about to write a session id has one.                     *)
SavesAnId == \A m \in Messages : pc[m] = "saving" => summary[m] # NoId

Fresh == CopyFresh /\ SavesAnId

(* A write of the whole state leaves the other tasks of the conversation   *)
(* outdated and those of other conversations as they were.                 *)
LEMMA UpsertFresh ==
  ASSUME Types, CopyFresh, NEW m \in Messages, NEW s, Upsert(m, s), state' = state,
         pc' = [pc EXCEPT ![m] = "done"]
  PROVE  CopyFresh'
<1> SUFFICES ASSUME NEW n \in Messages, HoldsCopy(n)', n \notin outdated'
             PROVE  state'[n] = Usable(store'[Conv(n)])
  BY DEF CopyFresh, Conv, Usable, WithDefaultThread, DefaultThread, Least
<1>1. pc \in [Messages -> TaskStates] /\ store \in [Conversations -> ConversationState]
  BY DEF Types, TypeOK
<1>2. n # m
  BY <1>1 DEF HoldsCopy
<1>3. HoldsCopy(n)
  BY <1>1, <1>2 DEF HoldsCopy
<1>4. Conv(n) # Conv(m) /\ n \notin outdated
  BY <1>2, <1>3 DEF Upsert
<1>5. store'[Conv(n)] = store[Conv(n)]
  BY <1>1, <1>4 DEF Upsert
<1> QED
  BY <1>3, <1>4, <1>5 DEF CopyFresh

(* Copies are loaded from the store and never changed.                     *)
LEMMA FreshStep == ASSUME Types, Fresh, [Next]_vars PROVE Fresh'
<1> USE DEF historyVars, taskVars
<1>a. pc \in [Messages -> TaskStates] /\ state \in [Messages -> ConversationState]
  BY DEF Types, TypeOK
<1>b. CopyFresh /\ SavesAnId
  BY DEF Fresh
<1>1. ASSUME UNCHANGED <<store, state, summary, outdated>>,
             \A n \in Messages : pc'[n] # pc[n] =>
               /\ HoldsCopy(n)' => HoldsCopy(n)
               /\ pc'[n] = "saving" => summary[n] # NoId
      PROVE  Fresh'
  <2>1. \A n \in Messages : HoldsCopy(n)' => HoldsCopy(n)
    BY <1>1 DEF HoldsCopy
  <2>2. CopyFresh'
    BY <1>1, <1>b, <2>1 DEF CopyFresh, Conv, Usable, WithDefaultThread, DefaultThread, Least
  <2>3. SavesAnId'
    BY <1>1, <1>b DEF SavesAnId
  <2> QED
    BY <2>2, <2>3 DEF Fresh
<1>2. CASE UNCHANGED vars
  BY <1>1, <1>2 DEF vars
<1>3. ASSUME NEW m \in Messages,
             Lock(m) \/ Refuse(m) \/ Show(m) \/ AdmitCommand(m) \/ AdmitPrompt(m)
               \/ RejectCommand(m) \/ Announce(m) \/ AnnounceFails(m)
               \/ RetryFresh(m) \/ TurnFails(m) \/ MarkInactive(m)
      PROVE  Fresh'
  <2>1. UNCHANGED <<store, state, summary, outdated>>
    BY <1>3 DEF Lock, Refuse, Show, AdmitCommand, AdmitPrompt, RejectCommand, Announce,
                AnnounceFails, RetryFresh, TurnFails, MarkInactive
  <2>2. \A n \in Messages : pc'[n] # pc[n] =>
               /\ HoldsCopy(n)' => HoldsCopy(n)
               /\ pc'[n] = "saving" => summary[n] # NoId
    BY <1>3, <1>a
    DEF Lock, Refuse, Show, AdmitCommand, AdmitPrompt, RejectCommand, Announce,
        AnnounceFails, RetryFresh, TurnFails, MarkInactive, Goto, HoldsCopy
  <2> QED
    BY <1>1, <2>1, <2>2
<1>4. ASSUME NEW m \in Messages, Load(m) PROVE Fresh'
  <2>1. \A n \in Messages \ {m} : pc'[n] = pc[n] /\ state'[n] = state[n]
    BY <1>4, <1>a DEF Load, Goto
  <2>2. /\ pc'[m] = "loaded" /\ state'[m] = Usable(store[Conv(m)])
        /\ UNCHANGED <<store, summary, outdated>>
    BY <1>4, <1>a DEF Load, Goto
  <2>3. ASSUME NEW n \in Messages, HoldsCopy(n)', n \notin outdated'
        PROVE  state'[n] = Usable(store[Conv(n)])
    <3>1. CASE n = m
      BY <2>2, <3>1
    <3>2. CASE n # m
      BY <2>1, <2>2, <2>3, <3>2, <1>b DEF CopyFresh, HoldsCopy
    <3> QED
      BY <3>1, <3>2
  <2>4. SavesAnId'
    BY <2>1, <2>2, <1>b DEF SavesAnId
  <2>5. CopyFresh'
    BY <2>2, <2>3 DEF CopyFresh, Conv, Usable, WithDefaultThread, DefaultThread, Least
  <2> QED
    BY <2>4, <2>5 DEF Fresh
<1>5. ASSUME NEW m \in Messages, TurnSucceeds(m) PROVE Fresh'
  <2>0. \A n \in Messages : HoldsCopy(n)' => HoldsCopy(n)
    BY <1>5, <1>a DEF TurnSucceeds, Goto, HoldsCopy
  <2>1. CopyFresh'
    BY <1>5, <1>b, <2>0
    DEF TurnSucceeds, CopyFresh, Conv, Usable, WithDefaultThread, DefaultThread, Least
  <2>2. \A n \in Messages : pc'[n] = "saving" => n # m /\ pc[n] = "saving"
    BY <1>5, <1>a DEF TurnSucceeds, Goto
  <2>3. \A n \in Messages \ {m} : summary'[n] = summary[n]
    BY <1>5 DEF TurnSucceeds, Types, TypeOK
  <2> QED
    BY <2>1, <2>2, <2>3, <1>b DEF Fresh, SavesAnId
<1>6. ASSUME NEW m \in Messages, Manage(m) \/ Save(m) PROVE Fresh'
  <2>1. PICK s : Upsert(m, s)
    BY <1>6 DEF Manage, Save
  <2>2. state' = state /\ summary' = summary /\ pc' = [pc EXCEPT ![m] = "done"]
    BY <1>6 DEF Manage, Save, Goto
  <2>3. CopyFresh'
    BY <1>b, <2>1, <2>2, UpsertFresh
  <2>4. SavesAnId'
    BY <1>a, <1>b, <2>2 DEF SavesAnId
  <2> QED
    BY <2>3, <2>4 DEF Fresh
<1> QED
  BY <1>2, <1>3, <1>4, <1>5, <1>6 DEF Next, Step, Proceed, Turn

(* No task has a copy at first.                                            *)
LEMMA FreshHolds == Spec => []Fresh
<1>1. Init => Fresh
  BY DEF Init, Fresh, CopyFresh, SavesAnId, HoldsCopy
<1> QED
  BY <1>1, FreshStep, TypesHold, PTL DEF Spec

-----------------------------------------------------------------------------
(* What the commands set, with the shape of its record.                    *)
CommandsTold ==
  /\ told = [c \in Conversations |-> told[c]]
  /\ CommandsKeptUnlessClobbered

(* What the management commands set stays set, unless a task writes a copy *)
(* older than the store: the end of a turn writes back the settings its    *)
(* copy has, and these are those of the store.                             *)
THEOREM CommandsKept == Spec => []CommandsKeptUnlessClobbered
<1>1. Init => CommandsTold
  BY DEF Init, CommandsTold, CommandsKeptUnlessClobbered
<1>2. Types /\ Fresh /\ CommandsTold /\ [Next]_vars => CommandsTold'
  <2> SUFFICES ASSUME Types, Fresh, CommandsTold, [Next]_vars PROVE CommandsTold'
    OBVIOUS
  <2> USE DEF historyVars, taskVars
  <2>a. store \in [Conversations -> ConversationState]
        /\ \A m \in Messages : Sound(state[m]) /\ summary[m] \in Ids \cup {NoId}
    BY DEF Types, TypeOK
  <2>b. \A m \in Messages : Conv(m) \in Conversations
    BY GatewayAssumption DEF Conv
  <2>1. ASSUME UNCHANGED <<store, told, clobbered>> PROVE CommandsTold'
    BY <2>1 DEF CommandsTold, CommandsKeptUnlessClobbered, Settings, Usable, WithDefaultThread,
                DefaultThread, Least
  <2>2. CASE UNCHANGED vars
    BY <2>1, <2>2 DEF vars
  <2>3. ASSUME NEW m \in Messages,
               Lock(m) \/ Load(m) \/ Refuse(m) \/ Show(m) \/ AdmitCommand(m)
                 \/ AdmitPrompt(m) \/ RejectCommand(m) \/ Announce(m) \/ AnnounceFails(m)
                 \/ TurnSucceeds(m) \/ RetryFresh(m) \/ TurnFails(m) \/ MarkInactive(m)
        PROVE  CommandsTold'
    <3>1. UNCHANGED <<store, told, clobbered>>
      BY <2>3 DEF Lock, Load, Refuse, Show, AdmitCommand, AdmitPrompt, RejectCommand, Announce,
                  AnnounceFails, TurnSucceeds, RetryFresh, TurnFails, MarkInactive
    <3> QED
      BY <2>1, <3>1
  <2>4. ASSUME NEW m \in Messages, NEW s, Upsert(m, s), Sound(s),
               told' = [told EXCEPT ![Conv(m)] = told'[Conv(m)]],
               Conv(m) \notin clobbered' => Settings(s) = told'[Conv(m)]
        PROVE  CommandsTold'
    <3>1. told' = [c \in Conversations |-> told'[c]]
      BY <2>4 DEF CommandsTold
    <3>2. ASSUME NEW c \in Conversations, c \notin clobbered'
          PROVE  Settings(Usable(store'[c])) = told'[c]
      <4>1. CASE c = Conv(m)
        <5>1. store'[c] = s
          BY <2>4, <2>a, <2>b, <4>1 DEF Upsert
        <5>2. Usable(s) = s
          BY <2>4, UsableSound DEF Sound
        <5> QED
          BY <2>4, <3>2, <4>1, <5>1, <5>2
      <4>2. CASE c # Conv(m)
        <5>1. store'[c] = store[c] /\ told'[c] = told[c] /\ c \notin clobbered
          BY <2>4, <2>a, <3>2, <4>2 DEF Upsert, CommandsTold
        <5> QED
          BY <5>1 DEF CommandsTold, CommandsKeptUnlessClobbered
      <4> QED
        BY <4>1, <4>2
    <3> QED
      BY <3>1, <3>2
      DEF CommandsTold, CommandsKeptUnlessClobbered, Settings, Usable, WithDefaultThread,
          DefaultThread, Least
  <2>5. ASSUME NEW m \in Messages, Manage(m) PROVE CommandsTold'
    <3>1. PICK s \in Commanded(state[m]) :
            Upsert(m, s) /\ told' = [told EXCEPT ![Conv(m)] = Settings(s)]
      BY <2>5 DEF Manage
    <3>2. Sound(s)
      BY <2>a, CommandKeepsIds DEF Kept
    <3>3. told'[Conv(m)] = Settings(s)
      BY <2>b, <3>1 DEF CommandsTold
    <3> QED
      BY <2>4, <3>1, <3>2, <3>3
  <2>6. ASSUME NEW m \in Messages, Save(m) PROVE CommandsTold'
    <3> DEFINE s == [state[m] EXCEPT !.threads[state[m].current].id = summary[m]]
    <3>1. Upsert(m, s) /\ told' = told /\ HoldsCopy(m)
      BY <2>6 DEF Save, Goto, HoldsCopy
    <3>2. Sound(s) /\ Settings(s) = Settings(state[m])
      BY <2>a, PutId DEF Put
    <3>3. ASSUME Conv(m) \notin clobbered' PROVE Settings(s) = told'[Conv(m)]
      <4>1. m \notin outdated /\ Conv(m) \notin clobbered
        BY <3>1, <3>3 DEF Upsert
      <4>2. state[m] = Usable(store[Conv(m)])
        BY <3>1, <4>1 DEF Fresh, CopyFresh
      <4> QED
        BY <2>b, <3>1, <3>2, <4>1, <4>2 DEF CommandsTold, CommandsKeptUnlessClobbered
    <3> HIDE DEF s
    <3>4. told' = [told EXCEPT ![Conv(m)] = told'[Conv(m)]]
      BY <3>1 DEF CommandsTold
    <3> QED
      BY <2>4, <3>1, <3>2, <3>3, <3>4
  <2> QED
    BY <2>2, <2>3, <2>5, <2>6 DEF Next, Step, Proceed, Turn
<1>3. CommandsTold => CommandsKeptUnlessClobbered
  BY DEF CommandsTold
<1> QED
  BY <1>1, <1>2, <1>3, TypesHold, FreshHolds, PTL DEF Spec

(* Whether a step keeps a session with every thread that has one.          *)
KeepsSessions ==
  \A c \in Conversations \ clobbered' : \A a \in DOMAIN store[c].threads :
    store[c].threads[a].id # NoId =>
      a \in DOMAIN store'[c].threads /\ store'[c].threads[a].id # NoId

(* "Codex sessions are persisted": a command keeps the ids of the threads  *)
(* there are, and the end of a turn writes an id over that of one thread   *)
(* only; so a session is lost only through a copy older than the store.    *)
THEOREM SessionsKept == Spec => SessionsKeptUnlessClobbered
<1>1. Types /\ Fresh /\ [Next]_vars => [KeepsSessions]_vars
  <2> SUFFICES ASSUME Types, Fresh, [Next]_vars PROVE [KeepsSessions]_vars
    OBVIOUS
  <2>a. store \in [Conversations -> ConversationState]
        /\ \A m \in Messages : Sound(state[m]) /\ summary[m] \in Ids \cup {NoId}
    BY DEF Types, TypeOK
  <2>b. \A m \in Messages : Conv(m) \in Conversations
    BY GatewayAssumption DEF Conv
  <2>1. ASSUME store' = store PROVE KeepsSessions
    BY <2>1 DEF KeepsSessions
  <2>2. ASSUME NEW m \in Messages,
               Lock(m) \/ Load(m) \/ Refuse(m) \/ Show(m) \/ AdmitCommand(m)
                 \/ AdmitPrompt(m) \/ RejectCommand(m) \/ Announce(m) \/ AnnounceFails(m)
                 \/ TurnSucceeds(m) \/ RetryFresh(m) \/ TurnFails(m) \/ MarkInactive(m)
        PROVE  KeepsSessions
    <3>1. store' = store
      BY <2>2 DEF Lock, Load, Refuse, Show, AdmitCommand, AdmitPrompt, RejectCommand, Announce,
                  AnnounceFails, TurnSucceeds, RetryFresh, TurnFails, MarkInactive
    <3> QED
      BY <2>1, <3>1
  <2>3. ASSUME NEW m \in Messages, NEW s, Upsert(m, s), HoldsCopy(m),
               \A a \in DOMAIN state[m].threads : state[m].threads[a].id # NoId =>
                  a \in DOMAIN s.threads /\ s.threads[a].id # NoId
        PROVE  KeepsSessions
    <3> SUFFICES ASSUME NEW c \in Conversations \ clobbered',
                        NEW a \in DOMAIN store[c].threads, store[c].threads[a].id # NoId
                 PROVE  a \in DOMAIN store'[c].threads /\ store'[c].threads[a].id # NoId
      BY DEF KeepsSessions
    <3>1. CASE c # Conv(m)
      BY <2>3, <2>a, <3>1 DEF Upsert
    <3>2. CASE c = Conv(m)
      <4>1. m \notin outdated /\ store'[c] = s
        BY <2>3, <2>a, <3>2 DEF Upsert
      <4>2. state[m] = Usable(store[c])
        BY <2>3, <3>2, <4>1 DEF Fresh, CopyFresh
      <4>3. state[m].threads = store[c].threads
        BY <2>a, <4>2, UsableSound
      <4> QED
        BY <2>3, <4>1, <4>3
    <3> QED
      BY <3>1, <3>2
  <2>4. ASSUME NEW m \in Messages, Manage(m) PROVE KeepsSessions
    <3>1. PICK s \in Commanded(state[m]) : Upsert(m, s)
      BY <2>4 DEF Manage
    <3>2. Kept(state[m], s)
      BY <2>a, CommandKeepsIds
    <3>3. HoldsCopy(m)
      BY <2>4 DEF Manage, Goto, HoldsCopy
    <3> QED
      BY <2>3, <3>1, <3>2, <3>3 DEF Kept
  <2>5. ASSUME NEW m \in Messages, Save(m) PROVE KeepsSessions
    <3>1. PICK s : /\ s = [state[m] EXCEPT !.threads[state[m].current].id = summary[m]]
                   /\ Upsert(m, s)
      BY <2>5 DEF Save
    <3>2. HoldsCopy(m) /\ summary[m] # NoId
      BY <2>5 DEF Save, Goto, HoldsCopy, Fresh, SavesAnId
    <3>3. Sound(state[m]) /\ summary[m] \in Ids \cup {NoId}
      BY <2>a
    <3>4. Put(state[m], summary[m], s)
      BY <3>1, <3>3, PutId
    <3>5. \A a \in DOMAIN state[m].threads : state[m].threads[a].id # NoId =>
             a \in DOMAIN s.threads /\ s.threads[a].id # NoId
      BY <3>2, <3>4 DEF Put
    <3> QED
      BY <2>3, <3>1, <3>2, <3>5
  <2> QED
    BY <2>2, <2>4, <2>5 DEF Next, Step, Proceed, Turn
<1>2. [KeepsSessions]_vars =>
        [\A c \in Conversations \ clobbered' : \A a \in DOMAIN store[c].threads :
           store[c].threads[a].id # NoId =>
             a \in DOMAIN store'[c].threads /\ store'[c].threads[a].id # NoId]_vars
  BY DEF KeepsSessions
<1> QED
  BY <1>1, <1>2, TypesHold, FreshHolds, PTL DEF Spec, SessionsKeptUnlessClobbered

-----------------------------------------------------------------------------
(* Where a session id is: in the store, in a copy, or with a task that     *)
(* will put it into the thread that is current in its copy.                *)
InStore(c, a, i) == a \in DOMAIN store[c].threads /\ store[c].threads[a].id = i
InCopy(m, a, i) == a \in DOMAIN state[m].threads /\ state[m].threads[a].id = i
Carried(m, a, i) == a = state[m].current /\ i \in {session[m], summary[m]}

Place(c, a, i) ==
  \/ InStore(c, a, i)
  \/ \E m \in Messages : Conv(m) = c /\ (InCopy(m, a, i) \/ Carried(m, a, i))

(* Every id is at one place at most, and was handed out; a task that has   *)
(* loaded no copy carries none.                                            *)
OnePlace ==
  \A i \in Ids : \A c, d \in Conversations, a, b \in Aliases :
    Place(c, a, i) /\ Place(d, b, i) => c = d /\ a = b

PlacedIsIssued ==
  \A i \in Ids, c \in Conversations, a \in Aliases : Place(c, a, i) => i \in issued

CarriesNone ==
  \A m \in Messages : pc[m] \in {"new", "locked"} => session[m] = NoId /\ summary[m] = NoId

Placed == OnePlace /\ PlacedIsIssued /\ CarriesNone

(* A step that puts no id anywhere it was not keeps all that.              *)
NoNewPlace ==
  \A i \in Ids, c \in Conversations, a \in Aliases : Place(c, a, i)' => Place(c, a, i)

(* A step that leaves store, copies and summaries alone, and at most drops *)
(* a task's session id, as the retry with a fresh session does.            *)
LEMMA SamePlaces ==
  ASSUME UNCHANGED <<store, state, summary>>,
         \A m \in Messages : session'[m] \in {session[m], NoId}
  PROVE  NoNewPlace
<1> SUFFICES ASSUME NEW i \in Ids, NEW c \in Conversations, NEW a \in Aliases, Place(c, a, i)'
             PROVE  Place(c, a, i)
  BY DEF NoNewPlace
<1>1. CASE InStore(c, a, i)'
  BY <1>1 DEF InStore, Place
<1>2. ASSUME NEW m \in Messages, Conv(m) = c, InCopy(m, a, i)' PROVE Place(c, a, i)
  BY <1>2 DEF InCopy, Place
<1>3. ASSUME NEW m \in Messages, Conv(m) = c, Carried(m, a, i)' PROVE Place(c, a, i)
  <2>1. Carried(m, a, i)
    BY <1>3, GatewayAssumption DEF Carried
  <2> QED
    BY <1>3, <2>1 DEF Place
<1> QED
  BY <1>1, <1>2, <1>3 DEF Place, Conv

(* Writing a state whose ids are all in the copy or with the task.         *)
LEMMA UpsertPlaces ==
  ASSUME Types, NEW m \in Messages, NEW s, Upsert(m, s),
         UNCHANGED <<state, session, summary>>,
         \A a \in DOMAIN s.threads : s.threads[a].id # NoId =>
            InCopy(m, a, s.threads[a].id) \/ Carried(m, a, s.threads[a].id)
  PROVE  NoNewPlace
<1> SUFFICES ASSUME NEW i \in Ids, NEW c \in Conversations, NEW a \in Aliases, Place(c, a, i)'
             PROVE  Place(c, a, i)
  BY DEF NoNewPlace
<1>1. CASE InStore(c, a, i)'
  <2>1. CASE c = Conv(m)
    <3>1. store'[c] = s
      BY <2>1 DEF Upsert, Types, TypeOK
    <3>2. InCopy(m, a, i) \/ Carried(m, a, i)
      BY <1>1, <3>1, GatewayAssumption DEF InStore
    <3> QED
      BY <2>1, <3>2 DEF Place
  <2>2. CASE c # Conv(m)
    <3>1. store'[c] = store[c]
      BY <2>2 DEF Upsert, Types, TypeOK
    <3> QED
      BY <1>1, <3>1 DEF InStore, Place
  <2> QED
    BY <2>1, <2>2
<1>2. ASSUME NEW n \in Messages, Conv(n) = c, InCopy(n, a, i)' PROVE Place(c, a, i)
  BY <1>2 DEF InCopy, Place
<1>3. ASSUME NEW n \in Messages, Conv(n) = c, Carried(n, a, i)' PROVE Place(c, a, i)
  BY <1>3 DEF Carried, Place
<1> QED
  BY <1>1, <1>2, <1>3 DEF Place, Conv

(* A copy has the ids of the store it is loaded from.                      *)
LEMMA LoadPlaces ==
  ASSUME Types, CarriesNone, NEW m \in Messages, Load(m)
  PROVE  NoNewPlace
<1> SUFFICES ASSUME NEW i \in Ids, NEW c \in Conversations, NEW a \in Aliases, Place(c, a, i)'
             PROVE  Place(c, a, i)
  BY DEF NoNewPlace
<1> USE GatewayAssumption
<1>a. /\ store \in [Conversations -> ConversationState]
      /\ state \in [Messages -> ConversationState]
      /\ Conv(m) \in Conversations
  BY DEF Types, TypeOK, Conv
<1>b. /\ state' = [state EXCEPT ![m] = Usable(store[Conv(m)])]
      /\ UNCHANGED <<store, session, summary>>
      /\ session[m] = NoId /\ summary[m] = NoId
  BY DEF Load, Goto, CarriesNone
<1>1. CASE InStore(c, a, i)'
  BY <1>1, <1>b DEF InStore, Place
<1>2. ASSUME NEW n \in Messages, Conv(n) = c, InCopy(n, a, i)' PROVE Place(c, a, i)
  <2>1. CASE n # m
    BY <1>2, <1>a, <1>b, <2>1 DEF InCopy, Place
  <2>2. CASE n = m
    <3>1. a \in DOMAIN Usable(store[c]).threads /\ Usable(store[c]).threads[a].id = i
      BY <1>2, <1>a, <1>b, <2>2 DEF InCopy
    <3>2. DOMAIN store[c].threads # {}
      <4> SUFFICES ASSUME DOMAIN store[c].threads = {} PROVE FALSE
        OBVIOUS
      <4>1. Usable(store[c]).threads[a].id = NoId
        BY <3>1 DEF Usable, WithDefaultThread, DefaultThread
      <4> QED
        BY <3>1, <4>1
    <3>3. Usable(store[c]).threads = store[c].threads
      BY <1>a, <3>2, UsableSound
    <3> QED
      BY <3>1, <3>3 DEF InStore, Place
  <2> QED
    BY <2>1, <2>2
<1>3. ASSUME NEW n \in Messages, Conv(n) = c, Carried(n, a, i)' PROVE Place(c, a, i)
  <2>1. n # m
    BY <1>3, <1>b DEF Carried
  <2>2. state'[n] = state[n]
    BY <1>a, <1>b, <2>1
  <2> QED
    BY <1>3, <1>b, <2>2 DEF Carried, Place
<1> QED
  BY <1>1, <1>2, <1>3 DEF Place, Conv

(* A prompt carries the id of the current thread of its copy.              *)
LEMMA AdmitPlaces ==
  ASSUME Types, NEW m \in Messages, AdmitPrompt(m)
  PROVE  NoNewPlace
<1> SUFFICES ASSUME NEW i \in Ids, NEW c \in Conversations, NEW a \in Aliases, Place(c, a, i)'
             PROVE  Place(c, a, i)
  BY DEF NoNewPlace
<1>a. /\ session' = [session EXCEPT ![m] = Current(state[m]).id]
      /\ UNCHANGED <<store, state, summary>>
      /\ session \in [Messages -> Ids \cup {NoId}] /\ Sound(state[m])
  BY DEF AdmitPrompt, Types, TypeOK
<1>1. CASE InStore(c, a, i)'
  BY <1>1, <1>a DEF InStore, Place
<1>2. ASSUME NEW n \in Messages, Conv(n) = c, InCopy(n, a, i)' PROVE Place(c, a, i)
  BY <1>2, <1>a DEF InCopy, Place
<1>3. ASSUME NEW n \in Messages, Conv(n) = c, Carried(n, a, i)' PROVE Place(c, a, i)
  <2>1. Carried(n, a, i) \/ InCopy(n, a, i)
    BY <1>3, <1>a DEF Carried, InCopy, Current, Sound
  <2> QED
    BY <1>3, <2>1 DEF Place
<1> QED
  BY <1>1, <1>2, <1>3 DEF Place, Conv

(* A turn returns the id it was given, or one that was nowhere before.     *)
LEMMA TurnPlaces ==
  ASSUME Types, Placed, NEW m \in Messages, TurnSucceeds(m)
  PROVE  OnePlace' /\ PlacedIsIssued'
<1> USE GatewayAssumption
<1>a. /\ UNCHANGED <<store, state, session>>
      /\ summary \in [Messages -> Ids \cup {NoId}]
      /\ OnePlace /\ PlacedIsIssued
  BY DEF TurnSucceeds, Types, TypeOK, Placed
<1>1. ASSUME NEW i \in Ids, NEW c \in Conversations, NEW a \in Aliases, Place(c, a, i)'
      PROVE  Place(c, a, i) \/ /\ i \notin issued /\ i \in issued'
                               /\ c = Conv(m) /\ a = state[m].current
  <2>1. CASE InStore(c, a, i)'
    BY <2>1, <1>a DEF InStore, Place
  <2>2. ASSUME NEW n \in Messages, Conv(n) = c, InCopy(n, a, i)' PROVE Place(c, a, i)
    BY <2>2, <1>a DEF InCopy, Place
  <2>3. ASSUME NEW n \in Messages, Conv(n) = c, Carried(n, a, i)', ~Carried(n, a, i)
        PROVE  /\ i \notin issued /\ i \in issued'
               /\ c = Conv(m) /\ a = state[m].current
    BY <2>3, <1>a DEF TurnSucceeds, Carried
  <2> QED
    BY <1>1, <2>1, <2>2, <2>3 DEF Place, Conv
<1>2. issued \subseteq issued'
  BY DEF TurnSucceeds
<1>3. PlacedIsIssued'
  BY <1>a, <1>1, <1>2 DEF PlacedIsIssued
<1>4. ASSUME NEW i \in Ids, NEW c \in Conversations, NEW d \in Conversations,
             NEW a \in Aliases, NEW b \in Aliases, Place(c, a, i)', Place(d, b, i)'
      PROVE  c = d /\ a = b
  <2>1. CASE i \in issued
    <3>1. Place(c, a, i) /\ Place(d, b, i)
      BY <1>1, <1>4, <2>1
    <3> QED
      BY <1>a, <3>1 DEF OnePlace
  <2>2. CASE i \notin issued
    <3>1. ~Place(c, a, i) /\ ~Place(d, b, i)
      BY <1>a, <2>2 DEF PlacedIsIssued
    <3> QED
      BY <1>1, <1>4, <3>1
  <2> QED
    BY <2>1, <2>2
<1> QED
  BY <1>3, <1>4 DEF OnePlace

(* No step of any task puts an id in a second place.                       *)
LEMMA PlacedStep == ASSUME Types, Placed, [Next]_vars PROVE Placed'
<1> USE GatewayAssumption DEF historyVars, taskVars
<1>a. OnePlace /\ PlacedIsIssued /\ CarriesNone
  BY DEF Placed
<1>b. /\ pc \in [Messages -> TaskStates]
      /\ session \in [Messages -> Ids \cup {NoId}]
      /\ summary \in [Messages -> Ids \cup {NoId}]
      /\ \A m \in Messages : Sound(state[m])
  BY DEF Types, TypeOK
<1>c. ASSUME NoNewPlace, issued' = issued PROVE OnePlace' /\ PlacedIsIssued'
  <2>1. OnePlace'
    BY <1>a, <1>c DEF NoNewPlace, OnePlace
  <2>2. PlacedIsIssued'
    BY <1>a, <1>c DEF NoNewPlace, PlacedIsIssued
  <2> QED
    BY <2>1, <2>2
<1>1. CASE UNCHANGED vars
  <2>1. NoNewPlace
    BY <1>1, SamePlaces DEF vars
  <2>2. CarriesNone'
    BY <1>1, <1>a DEF vars, CarriesNone
  <2> QED
    BY <1>1, <1>c, <2>1, <2>2 DEF vars, Placed
<1>2. ASSUME NEW m \in Messages,
             Lock(m) \/ Refuse(m) \/ Show(m) \/ AdmitCommand(m) \/ RejectCommand(m)
               \/ Announce(m) \/ AnnounceFails(m) \/ RetryFresh(m) \/ TurnFails(m)
               \/ MarkInactive(m)
      PROVE  Placed'
  <2>1. UNCHANGED <<store, state, summary, issued>>
    BY <1>2 DEF Lock, Refuse, Show, AdmitCommand, RejectCommand, Announce, AnnounceFails,
                RetryFresh, TurnFails, MarkInactive
  <2>2. \A n \in Messages : session'[n] \in {session[n], NoId}
    BY <1>2, <1>b DEF Lock, Refuse, Show, AdmitCommand, RejectCommand, Announce, AnnounceFails,
                RetryFresh, TurnFails, MarkInactive
  <2>3. \A n \in Messages : pc'[n] \in {"new", "locked"} => pc[n] \in {"new", "locked"}
    BY <1>2, <1>b DEF Lock, Refuse, Show, AdmitCommand, RejectCommand, Announce, AnnounceFails,
                RetryFresh, TurnFails, MarkInactive, Goto
  <2>4. CarriesNone'
    BY <1>a, <2>1, <2>2, <2>3 DEF CarriesNone
  <2>5. NoNewPlace
    BY <2>1, <2>2, SamePlaces
  <2> QED
    BY <1>c, <2>1, <2>4, <2>5 DEF Placed
<1>3. ASSUME NEW m \in Messages, Load(m) PROVE Placed'
  <2>1. NoNewPlace
    BY <1>3, <1>a, LoadPlaces
  <2>2. CarriesNone' /\ issued' = issued
    BY <1>3, <1>a, <1>b DEF Load, Goto, CarriesNone
  <2> QED
    BY <1>c, <2>1, <2>2 DEF Placed
<1>4. ASSUME NEW m \in Messages, AdmitPrompt(m) PROVE Placed'
  <2>1. NoNewPlace
    BY <1>4, AdmitPlaces
  <2>2. CarriesNone' /\ issued' = issued
    BY <1>4, <1>a, <1>b DEF AdmitPrompt, Goto, CarriesNone
  <2> QED
    BY <1>c, <2>1, <2>2 DEF Placed
<1>5. ASSUME NEW m \in Messages, TurnSucceeds(m) PROVE Placed'
  <2>1. OnePlace' /\ PlacedIsIssued'
    BY <1>5, TurnPlaces
  <2>2. CarriesNone'
    BY <1>5, <1>a, <1>b DEF TurnSucceeds, Goto, CarriesNone
  <2> QED
    BY <2>1, <2>2 DEF Placed
<1>6. ASSUME NEW m \in Messages, Manage(m) PROVE Placed'
  <2>1. PICK s \in Commanded(state[m]) : Upsert(m, s)
    BY <1>6 DEF Manage
  <2>2. UNCHANGED <<state, session, summary, issued>>
    BY <1>6 DEF Manage
  <2>3. Kept(state[m], s)
    BY <1>b, CommandKeepsIds
  <2>4. \A a \in DOMAIN s.threads : s.threads[a].id # NoId => InCopy(m, a, s.threads[a].id)
    BY <2>3 DEF Kept, InCopy
  <2>5. NoNewPlace
    BY <2>1, <2>2, <2>4, UpsertPlaces
  <2>6. CarriesNone'
    BY <1>6, <1>a, <1>b DEF Manage, Goto, CarriesNone
  <2> QED
    BY <1>c, <2>2, <2>5, <2>6 DEF Placed
<1>7. ASSUME NEW m \in Messages, Save(m) PROVE Placed'
  <2>1. PICK s : /\ s = [state[m] EXCEPT !.threads[state[m].current].id = summary[m]]
                 /\ Upsert(m, s)
    BY <1>7 DEF Save
  <2>2. UNCHANGED <<state, session, summary, issued>>
    BY <1>7 DEF Save
  <2>3. Sound(state[m]) /\ summary[m] \in Ids \cup {NoId}
    BY <1>b
  <2>4. Put(state[m], summary[m], s)
    BY <2>1, <2>3, PutId
  <2>5. \A a \in DOMAIN s.threads : s.threads[a].id # NoId =>
           InCopy(m, a, s.threads[a].id) \/ Carried(m, a, s.threads[a].id)
    BY <2>4 DEF Put, InCopy, Carried
  <2>6. NoNewPlace
    BY <2>1, <2>2, <2>5, UpsertPlaces
  <2>7. CarriesNone'
    BY <1>7, <1>a, <1>b DEF Save, Goto, CarriesNone
  <2> QED
    BY <1>c, <2>2, <2>6, <2>7 DEF Placed
<1> QED
  BY <1>1, <1>2, <1>3, <1>4, <1>5, <1>6, <1>7 DEF Next, Step, Proceed, Turn

(* The restored ids are at one place each, and count as handed out.        *)
LEMMA PlacedInit == Init => Placed
<1> SUFFICES ASSUME Init PROVE Placed
  OBVIOUS
<1> USE GatewayAssumption
<1>1. ASSUME NEW i \in Ids, NEW c \in Conversations, NEW a \in Aliases, Place(c, a, i)
      PROVE  InStore(c, a, i)
  BY <1>1 DEF Init, Place, InCopy, Carried, WithDefaultThread, DefaultThread
<1>2. ASSUME NEW i \in Ids, NEW c \in Conversations, NEW d \in Conversations,
             NEW a \in Aliases, NEW b \in Aliases, Place(c, a, i), Place(d, b, i)
      PROVE  c = d /\ a = b
  <2>1. InStore(c, a, i) /\ InStore(d, b, i)
    BY <1>1, <1>2
  <2>2. IdsDistinct(store)
    BY DEF Init
  <2>3. i # NoId
    OBVIOUS
  <2> QED
    BY <2>1, <2>2, <2>3 DEF InStore, IdsDistinct
<1>3. PlacedIsIssued
  BY <1>1 DEF Init, PlacedIsIssued, InStore
<1>4. CarriesNone
  BY DEF Init, CarriesNone
<1> QED
  BY <1>2, <1>3, <1>4 DEF Placed, OnePlace

(* "Each named thread keeps its own Codex session id": writes of whole     *)
(* states, however old, put no session id under two threads, because an id *)
(* travels with the thread it was issued to, in every copy.                *)
THEOREM UniqueSessionsAlways == Spec => []UniqueSessions
<1>1. Types /\ Placed => UniqueSessions
  <2> SUFFICES ASSUME Types, Placed,
                      NEW c \in Conversations, NEW d \in Conversations,
                      NEW a \in DOMAIN store[c].threads, NEW b \in DOMAIN store[d].threads,
                      store[c].threads[a].id = store[d].threads[b].id,
                      store[c].threads[a].id # NoId
               PROVE  c = d /\ a = b
    BY DEF UniqueSessions, IdsDistinct
  <2>1. store[c].threads \in AllThreads /\ store[d].threads \in AllThreads
    BY DEF Types, TypeOK, ConversationState, AllThreads
  <2>2. a \in Aliases /\ b \in Aliases /\ store[c].threads[a].id \in Ids
    BY <2>1, ThreadsType DEF ThreadRecord
  <2>3. Place(c, a, store[c].threads[a].id) /\ Place(d, b, store[c].threads[a].id)
    BY DEF Place, InStore
  <2> QED
    BY <2>2, <2>3 DEF Placed, OnePlace
<1> QED
  BY <1>1, PlacedInit, PlacedStep, TypesHold, PTL DEF Spec

-----------------------------------------------------------------------------
(* Turns of a conversation overlap only after both were admitted at once.  *)

(* The conversation of a turn under way is marked, so it admits no prompt. *)
Marked == \A m \in Messages : pc[m] \in {"running", "ending"} => Conv(m) \in active

TurnPhases == {"announcing", "running", "ending"}

Apart == Marked /\ ~Together(TurnPhases)

(* A step that does not bring two prompts into the race keeps turns apart. *)
LEMMA ApartStep ==
  ASSUME TypeOK, Apart, [Next]_vars, ~Together({"announcing"})'
  PROVE  Apart'
<1> USE DEF Goto, TurnPhases
<1>a. /\ pc \in [Messages -> TaskStates]
      /\ \A m \in Messages : pc[m] \in {"running", "ending"} => Conv(m) \in active
      /\ \A m, n \in Messages :
           m # n /\ Conv(m) = Conv(n) => ~(pc[m] \in TurnPhases /\ pc[n] \in TurnPhases)
      /\ \A m, n \in Messages :
           m # n /\ Conv(m) = Conv(n) => ~(pc'[m] = "announcing" /\ pc'[n] = "announcing")
  BY DEF TypeOK, Apart, Marked, Together
<1>1. CASE UNCHANGED vars
  BY <1>1 DEF vars, taskVars, Apart, Marked, Together
<1>2. ASSUME NEW m \in Messages,
             \/ Lock(m) \/ Load(m) \/ Refuse(m) \/ Show(m) \/ AdmitCommand(m)
             \/ Manage(m) \/ RejectCommand(m)
             \/ AnnounceFails(m) \/ RetryFresh(m) \/ Save(m)
      PROVE  Apart'
  <2>1. active' = active
    BY <1>2 DEF Lock, Load, Refuse, Show, AdmitCommand, Manage, RejectCommand,
                AnnounceFails, RetryFresh, Save
  <2>2. \A n \in Messages :
          pc'[n] = pc[n] \/ pc'[n] \in {"locked", "loaded", "managing", "done"}
    BY <1>a, <1>2 DEF Lock, Load, Refuse, Show, AdmitCommand, Manage, RejectCommand,
                      AnnounceFails, RetryFresh, Save
  <2> QED
    BY <1>a, <2>1, <2>2 DEF Apart, Marked, Together
<1>3. ASSUME NEW m \in Messages, AdmitPrompt(m) PROVE Apart'
  <2>1. /\ active' = active /\ Conv(m) \notin active
        /\ \A n \in Messages : n # m => pc'[n] = pc[n]
        /\ pc'[m] = "announcing"
    BY <1>a, <1>3 DEF AdmitPrompt
  <2>2. \A n \in Messages : n # m /\ Conv(n) = Conv(m) => pc[n] \notin TurnPhases
    BY <1>a, <2>1
  <2> QED
    BY <1>a, <2>1, <2>2 DEF Apart, Marked, Together
<1>4. ASSUME NEW m \in Messages, Announce(m) \/ TurnSucceeds(m) \/ TurnFails(m)
      PROVE  Apart'
  <2>1. /\ active \subseteq active' /\ Conv(m) \in active'
        /\ \A n \in Messages : n # m => pc'[n] = pc[n]
        /\ pc[m] \in TurnPhases
    BY <1>a, <1>4 DEF Announce, TurnSucceeds, TurnFails
  <2> QED
    BY <1>a, <2>1 DEF Apart, Marked, Together
<1>5. ASSUME NEW m \in Messages, MarkInactive(m) PROVE Apart'
  <2>1. /\ active' = active \ {Conv(m)}
        /\ \A n \in Messages : n # m => pc'[n] = pc[n]
        /\ pc[m] = "ending" /\ pc'[m] \in {"done", "saving"}
    BY <1>a, <1>5 DEF MarkInactive
  <2> QED
    BY <1>a, <2>1 DEF Apart, Marked, Together
<1> QED
  BY <1>1, <1>2, <1>3, <1>4, <1>5 DEF Next, Step, Proceed, Turn

(* gateway.rs:183-274: as long as no two prompts are between the test of   *)
(* the mark and the marking at once, the turns of a conversation never     *)
(* overlap, whatever commands, failures and retries happen meanwhile.      *)
THEOREM OverlapsOnlyByRace == Spec => OverlapOnlyByRace
<1>1. Init => Apart
  BY DEF Init, Apart, Marked, Together, TurnPhases
<1>2. TypeOK /\ Apart /\ [Next]_vars /\ ~Together({"announcing"})' => Apart'
  BY ApartStep
<1>3. Apart => ~Together({"announcing", "running", "ending"})
  BY DEF Apart, TurnPhases
<1> QED
  BY <1>1, <1>2, <1>3, TypeCorrect, PTL DEF Spec, OverlapOnlyByRace
=============================================================================
