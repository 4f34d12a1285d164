---------------------------- MODULE Interactions ----------------------------
(***************************************************************************)
(* /pending, /approve, /deny, /cancel, /reply (handle_interaction_command  *)
(* of app/gateway.rs) in one conversation while a turn of its current      *)
(* thread asks for approvals and for user input.  These commands take no   *)
(* lock: they run beside each other and beside the turn.                   *)
(*                                                                         *)
(* Atomicity.  Listing, each access to the map of drafts, sending the      *)
(* answer and removing the request are separate steps.  The commands see   *)
(* the codex session id of the current thread as it is in the store, which *)
(* the gateway writes when a turn has succeeded.  The connection to the    *)
(* app-server may be lost at any time; it is never replaced.               *)
(***************************************************************************)
EXTENDS Integers, FiniteSets

CONSTANTS
  Commands,       (* tasks; each handles one command after another         *)
  MaxToken,       (* bound: requests the turn makes, in order of sequence  *)
  KindsOf,        (* what the kinds of the requests may be, all together   *)
  Questions,      (* the question ids of a request with several            *)
  NoId,           (* no session id stored                                  *)
  TurnId,         (* the session id of the thread the turn runs on         *)
  StoredId        (* the session id in the store when the turn starts:     *)
                  (* TurnId for a resumed thread, NoId for the first turn  *)
                  (* of a thread, another id after a retry with a fresh    *)
                  (* session                                               *)

Tokens == 1 .. MaxToken
Kinds  == {"approval", "question", "questions"}

ASSUME InteractionsAssumption ==
  /\ MaxToken \in Nat
  /\ KindsOf \subseteq [Tokens -> Kinds]
  /\ NoId # TurnId
  /\ IsFiniteSet(Questions)

VARIABLES
  kind,        (* the kind of each request; never changed                  *)
  stored,      (* codex_thread_id of the current thread in the store       *)
  turn,        (* "running" or "ended"                                     *)
  open,        (* whether the connection takes what is to be sent          *)
  asked,       (* number of requests made so far                           *)
  pending,     (* pending_interactions of the turn's thread                *)
  answered,    (* the requests an answer was handed to the connection for  *)
  drafts,      (* user_input_drafts                                        *)
  pc,          (* where each command stands                                *)
  token,       (* the request it resolved its target to                    *)
  fits,        (* whether its action suits the kind of the request         *)
  merged,      (* the answers it has merged                                *)
  shown,       (* the requests the last /pending listed                    *)
  told,        (* history: the questions with an answer in a draft when a  *)
               (* user was told that an answer was saved                   *)
  lost         (* history: requests whose draft was cleared by a command   *)
               (* that did not answer, or taken while another held it, or  *)
               (* whose complete answers could not be sent                 *)

turnVars    == <<kind, stored, turn, open>>
taskVars    == <<pc, token, fits, merged>>
historyVars == <<told, lost>>
vars == <<turnVars, asked, pending, answered, drafts, taskVars, shown, historyVars>>

(* One question answered, by a command.                                    *)
Answer == [question : Questions, by : Commands]

TaskStates == {"idle", "take", "store", "clear", "respond", "remove"}

TypeOK ==
  /\ kind \in [Tokens -> Kinds]
  /\ stored \in {NoId, TurnId, StoredId}
  /\ turn \in {"running", "ended"}
  /\ open \in BOOLEAN
  /\ asked \in 0 .. MaxToken
  /\ pending \subseteq Tokens /\ answered \subseteq Tokens
  /\ drafts \in [Tokens -> SUBSET Answer]
  /\ pc \in [Commands -> TaskStates]
  /\ token \in [Commands -> 0 .. MaxToken]
  /\ fits \in [Commands -> BOOLEAN]
  /\ merged \in [Commands -> SUBSET Answer]
  /\ shown \subseteq Tokens
  /\ told \in [Tokens -> SUBSET Questions]
  /\ lost \subseteq Tokens

Init ==
  /\ kind \in KindsOf
  /\ stored = StoredId /\ turn = "running" /\ open = TRUE
  /\ asked = 0 /\ pending = {} /\ answered = {}
  /\ drafts = [k \in Tokens |-> {}]
  /\ pc = [m \in Commands |-> "idle"]
  /\ token = [m \in Commands |-> 0]
  /\ fits = [m \in Commands |-> FALSE]
  /\ merged = [m \in Commands |-> {}]
  /\ shown = {}
  /\ told = [k \in Tokens |-> {}]
  /\ lost = {}

-----------------------------------------------------------------------------
(* The turn, as the gateway and the app-server connection run it.          *)

(* Mutant of Ask: stored under the number before.                          *)
AskOffByOne ==
  /\ turn = "running" /\ asked < MaxToken
  /\ asked' = asked + 1
  /\ pending' = pending \cup {asked}
  /\ UNCHANGED <<turnVars, answered, drafts, taskVars, shown, historyVars>>

Ask ==
  /\ turn = "running" /\ asked < MaxToken
  /\ asked' = asked + 1
  /\ pending' = pending \cup {asked + 1}
  /\ UNCHANGED <<turnVars, answered, drafts, taskVars, shown, historyVars>>

(* A turn succeeds when all it asked is answered; then its id is stored.   *)
TurnSucceeds ==
  /\ turn = "running" /\ answered = 1 .. asked
  /\ turn' = "ended" /\ stored' = TurnId
  /\ UNCHANGED <<kind, open, asked, pending, answered, drafts, taskVars, shown, historyVars>>

(* It may fail any time; what it asked stays pending.                      *)
TurnFails ==
  /\ turn = "running"
  /\ turn' = "ended"
  /\ UNCHANGED <<kind, stored, open, asked, pending, answered, drafts, taskVars, shown, historyVars>>

(* The websocket is closed or a write fails: the receiver of outbound_tx   *)
(* goes.  The slot keeps the connection, and the requests with it.         *)
ConnectionLost ==
  /\ open
  /\ open' = FALSE
  /\ UNCHANGED <<kind, stored, turn, asked, pending, answered, drafts, taskVars, shown,
                 historyVars>>

-----------------------------------------------------------------------------
(* list_pending_for_thread: the requests of the stored thread, by sequence.*)
Listed == IF stored = TurnId THEN pending ELSE {}

(* Mutant of Nth: newest first.                                            *)
NthFromNewest(S, n) == CHOOSE k \in S : Cardinality({j \in S : j >= k}) = n

Nth(S, n) == CHOOSE k \in S : Cardinality({j \in S : j <= k}) = n

(* resolve_pending_target: the set of the one request meant, empty when    *)
(* the target is refused.                                                  *)
Targets == [by : {"implicit", "last"}, n : {0}] \cup [by : {"ordinal", "token"}, n : Tokens]

(* Mutant of Resolve: a token is taken for an item number.                 *)
ResolveTokenAsNumber(S, target) ==
  {k \in S :
    \/ target.by = "implicit" /\ S = {k}
    \/ target.by = "last" /\ \A j \in S : j <= k
    \/ target.by \in {"ordinal", "token"} /\ target.n <= Cardinality(S)
         /\ k = Nth(S, target.n)}

Resolve(S, target) ==
  {k \in S :
    \/ target.by = "implicit" /\ S = {k}
    \/ target.by = "last" /\ \A j \in S : j <= k
    \/ target.by = "ordinal" /\ target.n <= Cardinality(S) /\ k = Nth(S, target.n)
    \/ target.by = "token" /\ k = target.n}

(* What a command makes of its request: a decision; a reply that is text,  *)
(* or a JSON object of answers; a reply whose text happens to be any other *)
(* JSON, as `2`, `true` and `"yes"` are (serde_json::from_str).            *)
Ops == {"decide", "reply", "other json"}

(* build_interaction_response: decisions for approvals, text or an object  *)
(* of answers for questions, and any other JSON for nothing.               *)
Fits(k, op) == op = (IF kind[k] = "approval" THEN "decide" ELSE "reply")

-----------------------------------------------------------------------------
(* The commands.  Without a stored session id there is only a notice.      *)

Pending ==
  /\ stored # NoId
  /\ shown' = Listed
  /\ UNCHANGED <<turnVars, asked, pending, answered, drafts, taskVars, historyVars>>

Aim(m, target, k) ==
  /\ pc[m] = "idle" /\ stored # NoId
  /\ k \in Resolve(Listed, target)
  /\ token' = [token EXCEPT ![m] = k]
  /\ UNCHANGED <<turnVars, asked, pending, answered, drafts, shown, historyVars>>

(* /approve, /approve-session, /deny, /cancel; /reply to a request that    *)
(* does not have several questions.                                        *)
Decide(m, target, op) ==
  \E k \in Tokens :
    /\ Aim(m, target, k)
    /\ op # "decide" => kind[k] # "questions"
    /\ pc' = [pc EXCEPT ![m] = "clear"]
    /\ fits' = [fits EXCEPT ![m] = Fits(k, op)]
    /\ UNCHANGED merged

(* /reply <question> <answer> to a request with several questions; without *)
(* the id of one of them there is only a notice.                           *)
ReplyTo(m, target, q) ==
  \E k \in Tokens :
    /\ Aim(m, target, k)
    /\ kind[k] = "questions"
    /\ pc' = [pc EXCEPT ![m] = "take"]
    /\ fits' = [fits EXCEPT ![m] = TRUE]
    /\ merged' = [merged EXCEPT ![m] = {[question |-> q, by |-> m]}]

-----------------------------------------------------------------------------
Goto(m, from, to) == pc[m] = from /\ pc' = [pc EXCEPT ![m] = to]

(* The task of the command ends, with its locals.                          *)
End(m) ==
  /\ pc' = [pc EXCEPT ![m] = "idle"]
  /\ token' = [token EXCEPT ![m] = 0]
  /\ fits' = [fits EXCEPT ![m] = FALSE]
  /\ merged' = [merged EXCEPT ![m] = {}]

Holders(k) == {m \in Commands : pc[m] = "store" /\ token[m] = k}

(* take_user_input_draft removes the draft; merge_multi_question_answers   *)
(* puts the new answer over an older one to the same question.             *)
Merge(old, new) ==
  {a \in old : \A b \in new : b.question # a.question} \cup new

(* Mutant of Take: the old draft is dropped.                               *)
TakeWithoutMerge(m) ==
  LET k == token[m] IN
  /\ Goto(m, "take", "store")
  /\ drafts' = [drafts EXCEPT ![k] = {}]
  /\ lost' = IF Holders(k) # {} THEN lost \cup {k} ELSE lost
  /\ UNCHANGED <<turnVars, asked, pending, answered, token, fits, merged, shown,
                 told>>

Take(m) ==
  LET k == token[m] IN
  /\ Goto(m, "take", "store")
  /\ merged' = [merged EXCEPT ![m] = Merge(drafts[k], @)]
  /\ drafts' = [drafts EXCEPT ![k] = {}]
  /\ lost' = IF Holders(k) # {} THEN lost \cup {k} ELSE lost
  /\ UNCHANGED <<turnVars, asked, pending, answered, token, fits, shown, told>>

Complete(answers) == \A q \in Questions : \E a \in answers : a.question = q

(* store_user_input_draft, then "Saved your answer" unless it was the last.*)
Store(m) ==
  LET k == token[m] IN
  /\ pc[m] = "store"
  /\ drafts' = [drafts EXCEPT ![k] = merged[m]]
  /\ IF Complete(merged[m])
       THEN /\ pc' = [pc EXCEPT ![m] = "clear"]
            /\ UNCHANGED <<token, fits, merged, told>>
       ELSE /\ End(m)
            /\ told' = [told EXCEPT ![k] = @ \cup {a.question : a \in merged[m]}]
  /\ UNCHANGED <<turnVars, asked, pending, answered, shown, lost>>

(* clear_user_input_draft comes before the answer is sent.                 *)
Clear(m) ==
  LET k == token[m] IN
  /\ Goto(m, "clear", "respond")
  /\ drafts' = [drafts EXCEPT ![k] = {}]
  /\ lost' = IF drafts[k] # {} /\ ~(fits[m] /\ drafts[k] = merged[m])
               THEN lost \cup {k} ELSE lost
  /\ UNCHANGED <<turnVars, asked, pending, answered, token, fits, merged, shown,
                 told>>

(* respond_to_pending: refused for a request that is gone or an action     *)
(* that does not fit; else sent, and then removed.  When it cannot be sent *)
(* the request stays, and the answers merged for it have left the drafts.  *)
Respond(m) ==
  LET k == token[m] IN
  /\ pc[m] = "respond"
  /\ IF k \in pending /\ fits[m] /\ open
       THEN /\ pc' = [pc EXCEPT ![m] = "remove"]
            /\ answered' = answered \cup {k}
            /\ UNCHANGED <<token, fits, merged, lost>>
       ELSE /\ End(m)
            /\ lost' = IF k \in pending /\ merged[m] # {} THEN lost \cup {k} ELSE lost
            /\ UNCHANGED answered
  /\ UNCHANGED <<turnVars, asked, pending, drafts, shown, told>>

Remove(m) ==
  /\ pc[m] = "remove"
  /\ End(m)
  /\ pending' = pending \ {token[m]}
  /\ UNCHANGED <<turnVars, asked, answered, drafts, shown, historyVars>>

Step(m) == Take(m) \/ Store(m) \/ Clear(m) \/ Respond(m) \/ Remove(m)

Next ==
  \/ Ask \/ TurnSucceeds \/ TurnFails \/ ConnectionLost
  \/ Pending
  \/ \E m \in Commands, target \in Targets :
       \/ \E op \in Ops : Decide(m, target, op)
       \/ \E q \in Questions : ReplyTo(m, target, q)
  \/ \E m \in Commands : Step(m)

Spec == Init /\ [][Next]_vars

(* A user who is asked keeps answering, naming the request, with a command *)
(* that suits it.  (Who answers a question with `2` is refused each time.) *)
UserAnswers(k) ==
  \E m \in Commands, op \in Ops :
    Fits(k, op) /\ Decide(m, [by |-> "token", n |-> k], op)

FairSpec ==
  /\ Spec
  /\ \A m \in Commands : WF_vars(Step(m))
  /\ \A k \in Tokens : SF_vars(UserAnswers(k))

-----------------------------------------------------------------------------
(* Properties.                                                             *)

(* A question is answered in the draft, or in what a command that has      *)
(* taken the draft will store or send.                                     *)
Kept(k, q) ==
  \E b \in drafts[k] \cup UNION {merged[m] : m \in {n \in Commands : token[n] = k}} :
    b.question = q

(* "Saved your answer for Codex request" (gateway.rs:542): the user need   *)
(* not give a saved answer again while the request waits for the others.   *)
(* There are three ways to lose one: a command that does not answer the    *)
(* request clears its draft, two replies to it are merged at once, or the  *)
(* complete answers find the connection lost.                              *)
SavedAnswersKeptUnlessLost ==
  \A k \in (pending \ answered) \ lost : \A q \in told[k] : Kept(k, q)

(* "run /pending and then use the shown item number" (README.md:118): the  *)
(* number a request was shown with means that request for as long as it    *)
(* and all that were shown before it wait.  Neither new requests nor those *)
(* answered further down the list renumber it.  (One answered above does.) *)
ItemNumbersStable ==
  \A n \in 1 .. Cardinality(shown) :
    LET k == Nth(shown, n) IN
    {j \in shown : j <= k} \subseteq Listed
      => Resolve(Listed, [by |-> "ordinal", n |-> n]) = {k}

(* "/approve, /deny, /cancel and /reply respond to pending Codex requests" *)
(* (README.md:116): a request whose user keeps answering it gets an answer *)
(* unless its turn ends or the connection is lost first.  (One with        *)
(* several questions may have its draft cleared by others again and again.)*)
RequestsGetAnswers ==
  \A k \in Tokens :
    (k \in pending /\ kind[k] # "questions")
      ~> (k \in answered \/ turn = "ended" \/ ~open)
=============================================================================
