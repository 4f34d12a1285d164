----------------------------- MODULE Commands ------------------------------
(***************************************************************************)
(* How the gateway reads an inbound text (app/gateway.rs: handle_message,  *)
(* parse_interaction_command, parse_management_command, and the parser of  *)
(* pending targets, which domain/command.rs repeats).                      *)
(*                                                                         *)
(* A text is a sequence of symbols: a command word, a word that matters,   *)
(* white space, punctuation, an Arabic digit, a Chinese numeral (by its    *)
(* pinyin), a JSON object of answers ("{}"), any other JSON value that is  *)
(* no number ("true"), or a word that means nothing.  "di" is the ordinal  *)
(* prefix, "shi" is ten.  Upper case, numbers beyond usize, exponents and  *)
(* minus signs are left out.                                               *)
(*                                                                         *)
(* The state machine types texts, so that the properties range over them.  *)
(***************************************************************************)
EXTENDS Integers, Sequences

CONSTANTS
  Symbols,     (* what is typed                                            *)
  TokenWords,  (* words that begin with "req-"                             *)
  MaxLen,      (* bound: symbols of a text                                 *)
  MaxNumber    (* bound: the numbers NumbersRead looks for                 *)

White    == {" ", "nl"}
Punct    == {".", ")", ",", ":", ";"}
Arabic   == <<"1", "2", "3", "4", "5", "6", "7", "8", "9">>
Han      == <<"yi", "er", "san", "si", "wu", "liu", "qi", "ba", "jiu">>
Counters == {"xiang", "ge", "tiao", "ti"}
LastWords == {<<"last">>, <<"latest">>}

ASSUME CommandsAssumption ==
  /\ MaxLen \in Nat /\ MaxNumber \in 0 .. 99
  /\ TokenWords \cap (White \cup Punct \cup Counters) = {}
  /\ TokenWords \cap {"last", "latest", "di", "shi"} = {}
  /\ TokenWords \cap ({"liang", "0", "+"} \cup {Arabic[i] : i \in 1..9} \cup {Han[i] : i \in 1..9}) = {}

VARIABLE text

Text == Seq(Symbols)

Init == text = <<>>

Type(s) == Len(text) < MaxLen /\ text' = Append(text, s)

Next == \E s \in Symbols : Type(s)

Spec == Init /\ [][Next]_text

-----------------------------------------------------------------------------
(* str::trim and its kin.                                                  *)

Least(S)    == CHOOSE i \in S : \A j \in S : i <= j
Greatest(S) == CHOOSE i \in S : \A j \in S : j <= i

Outside(t, S) == {i \in DOMAIN t : t[i] \notin S}

TrimStart(t, S) ==
  IF Outside(t, S) = {} THEN <<>> ELSE SubSeq(t, Least(Outside(t, S)), Len(t))
TrimEnd(t, S) ==
  IF Outside(t, S) = {} THEN <<>> ELSE SubSeq(t, 1, Greatest(Outside(t, S)))
Trim(t) == TrimEnd(TrimStart(t, White), White)

Begins(t, p) == Len(p) <= Len(t) /\ SubSeq(t, 1, Len(p)) = p
After(t, p)  == SubSeq(t, Len(p) + 1, Len(t))
Front(t)     == SubSeq(t, 1, Len(t) - 1)

-----------------------------------------------------------------------------
(* Numbers; 0 stands for None, as an index is never 0.                     *)

Place(list, s) == IF \E i \in 1..9 : list[i] = s
                    THEN CHOOSE i \in 1..9 : list[i] = s ELSE 0

(* parse::<usize>: digits, after an optional plus sign.                    *)
Decimal(t) ==
  LET d == IF Begins(t, <<"+">>) THEN Tail(t) ELSE t
      value[i \in 0..Len(d)] == IF i = 0 THEN 0 ELSE 10 * value[i - 1] + Place(Arabic, d[i])
  IN IF \A i \in DOMAIN d : d[i] = "0" \/ Place(Arabic, d[i]) # 0
       THEN value[Len(d)] ELSE 0

(* chinese_digit_value: "liang" is another two.                            *)
ChineseDigit(t) ==
  IF Len(t) # 1 THEN 0 ELSE IF t = <<"liang">> THEN 2 ELSE Place(Han, t[1])

(* Both, or none.                                                          *)
TensAndOnes(tens, ones) == IF tens = 0 \/ ones = 0 THEN 0 ELSE 10 * tens + ones

(* Mutant of SimpleChinese: ten is only read alone or before a digit.      *)
SimpleChineseNoTens(t) ==
  CASE t = <<"shi">> -> 10
    [] t # <<"shi">> /\ Begins(t, <<"shi">>) -> TensAndOnes(1, ChineseDigit(Tail(t)))
    [] OTHER -> ChineseDigit(t)

(* parse_simple_chinese_number.                                            *)
SimpleChinese(t) ==
  LET tens == {i \in DOMAIN t : t[i] = "shi"} IN
  CASE t = <<"shi">> -> 10
    [] t # <<"shi">> /\ 1 \in tens -> TensAndOnes(1, ChineseDigit(Tail(t)))
    [] 1 \notin tens /\ Len(t) \in tens -> 10 * ChineseDigit(Front(t))
    [] tens # {} /\ 1 \notin tens /\ Len(t) \notin tens ->
         LET i == Least(tens) IN
         TensAndOnes(ChineseDigit(SubSeq(t, 1, i - 1)), ChineseDigit(SubSeq(t, i + 1, Len(t))))
    [] OTHER -> ChineseDigit(t)

(* parse_chinese_ordinal: "di", the number, a counter word; both optional. *)
ChineseOrdinal(t) ==
  LET u == IF Begins(t, <<"di">>) THEN Tail(t) ELSE t
      n == IF u # <<>> /\ u[Len(u)] \in Counters THEN Front(u) ELSE u
  IN IF Decimal(n) # 0 THEN Decimal(n) ELSE SimpleChinese(n)

-----------------------------------------------------------------------------
(* Pending targets.                                                        *)

None       == [kind |-> "none"]
Implicit   == [kind |-> "implicit"]
Last       == [kind |-> "last"]
Ordinal(n) == [kind |-> "ordinal", index |-> n]
Token(t)   == [kind |-> "token", token |-> t]

(* normalize_pending_target_text.                                          *)
Normalize(t) == Trim(TrimEnd(Trim(t), Punct))

OrdinalOf(t) == IF Decimal(t) # 0 THEN Decimal(t) ELSE ChineseOrdinal(t)

(* parse_pending_target, in the gateway and in the domain layer.           *)
ParseTarget(t) ==
  LET n == Normalize(t) IN
  CASE n = <<>> -> Implicit
    [] n \in LastWords -> Last
    [] n # <<>> /\ n \notin LastWords /\ OrdinalOf(n) # 0 -> Ordinal(OrdinalOf(n))
    [] OTHER -> Token(n)

(* Mutant of IsExplicit: Chinese ordinals are forgotten.                   *)
IsExplicitAscii(t) ==
  LET n == Normalize(t) IN
  n # <<>> /\ (n \in LastWords \/ n[1] \in TokenWords \/ Decimal(n) # 0)

(* is_explicit_pending_target.                                             *)
IsExplicit(t) ==
  LET n == Normalize(t) IN
  n # <<>> /\ (n \in LastWords \/ n[1] \in TokenWords \/ OrdinalOf(n) # 0)

(* split_pending_target_and_text: the first word, when it is a target and  *)
(* something follows.                                                      *)
FirstWord(t) ==
  LET w == {i \in DOMAIN t : t[i] \in White} IN
  IF w = {} THEN t ELSE SubSeq(t, 1, Least(w) - 1)
Splits(t) == Trim(After(t, FirstWord(t))) # <<>> /\ IsExplicit(FirstWord(t))

-----------------------------------------------------------------------------
(* Commands; a command keeps the word it was given by.                     *)

Decisions == {"/approve", "/approve-session", "/deny", "/cancel"}

(* The argument of a command word, trimmed; empty when there is none, or   *)
(* when no blank follows the word.                                         *)
Argument(t, w) == IF Begins(t, <<w, " ">>) THEN Trim(After(t, <<w, " ">>)) ELSE <<>>

(* Mutant of Reply: the target is cut off, whether or not it is one.       *)
ReplyCut(r) ==
  [kind |-> "/reply",
   target |-> IF Splits(r) THEN ParseTarget(FirstWord(r)) ELSE Implicit,
   text |-> Trim(After(r, FirstWord(r)))]

Reply(r) ==
  IF Splits(r)
    THEN [kind |-> "/reply", target |-> ParseTarget(FirstWord(r)),
          text |-> Trim(After(r, FirstWord(r)))]
    ELSE [kind |-> "/reply", target |-> Implicit, text |-> r]

(* Mutant of ReplyOther: the question id is taken for part of the target.  *)
ReplyOtherUnsplit(r) ==
  [kind |-> "/reply-other", target |-> ParseTarget(r), question |-> <<>>]

ReplyOther(r) ==
  IF Splits(r)
    THEN [kind |-> "/reply-other", target |-> ParseTarget(FirstWord(r)),
          question |-> Trim(After(r, FirstWord(r)))]
    ELSE [kind |-> "/reply-other", target |-> ParseTarget(r), question |-> <<>>]

(* parse_interaction_command, of a trimmed text.                           *)
Interaction(t) ==
  CASE t = <<"/pending">> -> [kind |-> "/pending"]
    [] t = <<"/reply-other">> ->
         [kind |-> "/reply-other", target |-> Implicit, question |-> <<>>]
    [] Argument(t, "/reply-other") # <<>> -> ReplyOther(Argument(t, "/reply-other"))
    [] Argument(t, "/reply") # <<>> -> Reply(Argument(t, "/reply"))
    [] \E w \in Decisions : t = <<w>> -> [kind |-> t[1], target |-> Implicit]
    [] \E w \in Decisions : Argument(t, w) # <<>> ->
         [kind |-> t[1], target |-> ParseTarget(Argument(t, t[1]))]
    [] OTHER -> None

Modes == {<<"plan">>, <<"default">>}
ThreadNew == <<"/thread", " ", "new">>
ThreadUse == <<"/thread", " ", "use", " ">>

(* parse_management_command, of a trimmed text.  "/thread new" needs no    *)
(* blank before the name; an unknown mode is no command.                   *)
Management(t) ==
  CASE t \in {<<"/threads">>, <<"/thread">>, <<"/thread", " ", "list">>} -> [kind |-> "list"]
    [] t = <<"/mode">> -> [kind |-> "show mode"]
    [] Argument(t, "/mode") \in Modes -> [kind |-> "set mode", mode |-> Argument(t, "/mode")]
    [] t \in {<<"/pwd">>, <<"/cwd">>, <<"/thread", " ", "current">>} -> [kind |-> "show directory"]
    [] Argument(t, "/cd") # <<>> -> [kind |-> "cd", path |-> Argument(t, "/cd")]
    [] Begins(t, ThreadNew) -> [kind |-> "new", name |-> Trim(After(t, ThreadNew))]
    [] Begins(t, ThreadUse) /\ Trim(After(t, ThreadUse)) # <<>> ->
         [kind |-> "use", name |-> Trim(After(t, ThreadUse))]
    [] OTHER -> None

(* handle_message.  A prompt is handed on as it was typed.                 *)
Read(t) ==
  LET u == Trim(t) IN
  CASE Interaction(u) # None -> Interaction(u)
    [] Interaction(u) = None /\ Management(u) # None -> Management(u)
    [] Interaction(u) = None /\ Management(u) = None /\ Begins(u, <<"/feishu-edit-test">>) ->
         [kind |-> "edit test"]
    [] Interaction(u) = None /\ Management(u) = None /\ Begins(u, <<"/review">>) ->
         [kind |-> "review"]
    [] OTHER -> [kind |-> "prompt", prompt |-> t]

(* parse_multi_question_reply_text: an answer to one of several questions. *)
Question(reply, ids) ==
  LET id == FirstWord(reply) IN
  IF id \in ids /\ Trim(After(reply, id)) # <<>>
    THEN [id |-> id, answer |-> Trim(After(reply, id))] ELSE None

(* serde_json::from_str of a trimmed text.                                 *)
IsDigit(s) == s = "0" \/ Place(Arabic, s) # 0
JsonObject == <<"{}">>

JsonNumber(t) ==
  \E i \in DOMAIN t :
    /\ \A k \in 1 .. i : IsDigit(t[k])
    /\ t[1] = "0" => i = 1
    /\ i = Len(t) \/ /\ i + 1 < Len(t) /\ t[i + 1] = "."
                     /\ \A k \in i + 2 .. Len(t) : IsDigit(t[k])

Json(t) == t \in {<<"true">>, JsonObject} \/ JsonNumber(t)

(* What a reply answers a request of one question with: a text that can be *)
(* read as JSON is sent as JSON, which build_interaction_response refuses  *)
(* unless it is an object of answers.                                      *)
Sent(t) == [kind |-> "text", text |-> t]
Refused == [kind |-> "refused"]

OneAnswer(reply) ==
  CASE ~Json(reply)       -> Sent(reply)
    [] reply = JsonObject -> [kind |-> "answers", answers |-> reply]
    [] OTHER              -> Refused

-----------------------------------------------------------------------------
(* What cards and notices offer to be sent back.                           *)

Blank == <<" ">>

(* pending_card_action_sections_v2 and multi_question_action_sections.     *)
DecisionButton(w, token) == <<w>> \o Blank \o token
OptionButton(token, label) == <<"/reply">> \o Blank \o token \o Blank \o label
QuestionButton(token, id, label) == OptionButton(token, id \o Blank \o label)
OtherButton(token, id) == <<"/reply-other">> \o Blank \o token \o Blank \o id

(* The notice of /reply-other, when nothing else is pending.               *)
Example(id, answer) == <<"/reply">> \o Blank \o id \o Blank \o answer

-----------------------------------------------------------------------------
(* Properties.                                                             *)

Join(S, T) == {s \o t : s \in S, t \in T}

(* The ways to write a digit, and a number up to 99, in Chinese.           *)
Digit(n) == {<<Han[n]>>} \cup IF n = 2 THEN {<<"liang">>} ELSE {}
Ones(n)  == IF n = 0 THEN {<<>>} ELSE Digit(n)
Tens(n)  == CASE n = 0 -> {<<>>}
              [] n = 1 -> {<<"shi">>, <<"yi", "shi">>}
              [] OTHER -> Join(Digit(n), {<<"shi">>})
Chinese(n) == Join(Tens(n \div 10), Ones(n % 10))

(* The ways to write a number in digits: zeros may lead, and a plus sign.  *)
Figure(n) == IF n = 0 THEN "0" ELSE Arabic[n]
Figures(n) == IF n < 10 THEN <<Figure(n)>> ELSE <<Figure(n \div 10), Figure(n % 10)>>
Zeros == {[i \in 1..k |-> "0"] : k \in 0..MaxLen}
Decimals(n) == Join({<<>>, <<"+">>}, Join(Zeros, {Figures(n)}))

(* The names of each item: an ordinal prefix and a counter may be added.   *)
(* No item has the number 0.                                               *)
Names == [n \in 0..MaxNumber |->
            IF n = 0 THEN {}
              ELSE Join({<<>>, <<"di">>},
                        Join(Chinese(n) \cup Decimals(n),
                             {<<>>} \cup {<<w>> : w \in Counters}))]

(* A text says x when nothing stands around x but white space and, after   *)
(* it, one run of punctuation.                                             *)
Says(t, S) ==
  \E i \in DOMAIN t : \E j \in i..Len(t) :
    /\ SubSeq(t, i, j) \in S
    /\ \A k \in 1 .. i - 1 : t[k] \in White
    /\ \E p, q \in j .. Len(t) :
         /\ p <= q
         /\ \A k \in j + 1 .. Len(t) : t[k] \in IF k > p /\ k <= q THEN Punct ELSE White

(* A text is read as the number of an item exactly if it is one of the     *)
(* ways to write that number: no number is misread, none is missed, and    *)
(* none is 0, which resolve_pending_target would subtract one from.        *)
NumbersRead ==
  LET target == ParseTarget(text) IN
  \A n \in 0..MaxNumber : target = Ordinal(n) <=> Says(text, Names[n])

(* is_explicit_pending_target decides whether the first word of a reply is *)
(* a target, parse_pending_target which; they repeat the same tests and    *)
(* must agree, or a target would be sent to Codex as part of an answer.    *)
TargetsAgree ==
  LET target == ParseTarget(text) IN
  IsExplicit(text) <=> \/ target.kind \in {"ordinal", "last"}
                       \/ target.kind = "token" /\ target.token[1] \in TokenWords

(* Whatever follows /reply, no word of the answer is lost: the text passed *)
(* on is all of it, or what follows a first word that names a request.     *)
RepliesKeepAnswers ==
  LET r == Trim(text)
      reply == Reply(r) IN
  r # <<>> =>
    \/ reply.text = r /\ reply.target = Implicit
    \/ \E i \in 2 .. Len(r) :
         /\ reply.text = Trim(SubSeq(r, i, Len(r))) /\ reply.text # <<>>
         /\ r[i] \in White
         /\ reply.target = ParseTarget(SubSeq(r, 1, i - 1))
         /\ reply.target.kind \notin {"none", "implicit"}

(* What the buttons of a card send is read as the button was meant.  The   *)
(* label of an option is what Codex is answered, but for two kinds: to a   *)
(* request of one question a label that can be read as JSON is refused,    *)
(* and of several questions one whose id has white space cannot be         *)
(* answered.  What the notice of /reply-other suggests is read as meant    *)
(* unless the id itself looks like a target.                               *)
IsId(t) == t # <<>> /\ \A i \in DOMAIN t : t[i] \notin White

OptionsRead(token) ==
  LET label  == Trim(text)
      reply  == Read(OptionButton(token, text))
      answer == OneAnswer(reply.text) IN
  label # <<>> =>
    /\ reply.kind = "/reply" /\ reply.target = Token(token)
    /\ ~Json(label) => answer = Sent(label)
    /\ Json(label) /\ label # JsonObject => answer = Refused

QuestionsRead(token) ==
  \A n \in 1 .. Len(text) :
    LET id    == SubSeq(text, 1, n)
        label == SubSeq(text, n + 1, Len(text))
        reply == Read(QuestionButton(token, id, label)) IN
    Trim(label) # <<>> =>
      /\ reply.kind = "/reply" /\ reply.target = Token(token)
      /\ IF IsId(id)
           THEN Question(reply.text, {id, <<"question">>}) = [id |-> id, answer |-> Trim(label)]
           ELSE Question(reply.text, {id}) = None

ButtonsRead ==
  \A w \in TokenWords :
    LET token == <<w>> IN
    /\ \A d \in Decisions : Read(DecisionButton(d, token)) = [kind |-> d, target |-> Token(token)]
    /\ OptionsRead(token)
    /\ QuestionsRead(token)
    /\ Trim(text) # <<>> =>
         Read(OtherButton(token, text)) =
           [kind |-> "/reply-other", target |-> Token(token), question |-> Trim(text)]
    /\ IsId(text) /\ ~IsExplicit(text) =>
         Question(Read(Example(text, <<"answer">>)).text, {text}) =
           [id |-> text, answer |-> <<"answer">>]
=============================================================================
