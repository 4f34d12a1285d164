--------------------------- MODULE CommandsProofs --------------------------
(***************************************************************************)
(* What the parser of commands promises, for texts of any length over any  *)
(* symbols: that the two tests of a target agree, that no answer is lost,  *)
(* which texts are read as the number of an item, and that what the        *)
(* buttons of a card send back is read as it was meant.                    *)
(***************************************************************************)
EXTENDS Commands, SequenceTheorems, WellFoundedInduction, TLAPS

-----------------------------------------------------------------------------
(* Positions.                                                              *)

LEMMA LeastExists ==
  ASSUME NEW S, S \subseteq Nat, S # {}
  PROVE  \E x \in S : \A y \in S : x <= y
<1> DEFINE R == {ss \in Nat \X Nat : ss[1] < ss[2]}
<1>1. R = OpToRel(<, Nat)
  BY Zenon DEF OpToRel
<1>2. IsWellFoundedOn(R, Nat)
  BY <1>1, NatLessThanWellFounded, Zenon
<1>3. \E x \in S : \A y \in S : <<y, x>> \notin R
  <2> HIDE DEF R
  <2> QED BY <1>2, WFMin, Zenon
<1>4. PICK x \in S : \A y \in S : <<y, x>> \notin R
  BY <1>3
<1>5. \A y \in S : x <= y
  <2> SUFFICES ASSUME NEW y \in S PROVE x <= y
    OBVIOUS
  <2>1. <<y, x>> \in Nat \X Nat /\ <<y, x>>[1] = y /\ <<y, x>>[2] = x
    OBVIOUS
  <2>2. ~(y < x)
    BY <1>4, <2>1
  <2> QED BY <2>2
<1> QED BY <1>5

LEMMA LeastMember ==
  ASSUME NEW S, S \subseteq Nat, S # {}
  PROVE  Least(S) \in S
BY LeastExists DEF Least

LEMMA GreatestMember ==
  ASSUME NEW n \in Nat, NEW S, S \subseteq 1 .. n, S # {}
  PROVE  Greatest(S) \in S
<1> DEFINE T == {n - i : i \in S}
<1>1. T \subseteq Nat /\ T # {}
  <2>1. \A i \in S : n - i \in Nat
    OBVIOUS
  <2> QED BY <2>1, Zenon
<1>2. PICK x \in T : \A y \in T : x <= y
  <2> HIDE DEF T
  <2> QED BY <1>1, LeastExists
<1>3. PICK i \in S : x = n - i
  OBVIOUS
<1>4. \A j \in S : j <= i
  <2> SUFFICES ASSUME NEW j \in S PROVE j <= i
    OBVIOUS
  <2>1. x <= n - j
    BY <1>2
  <2>2. i \in 1 .. n /\ j \in 1 .. n
    BY Zenon
  <2> QED BY <2>1, <2>2, <1>3
<1> QED BY <1>4 DEF Greatest

-----------------------------------------------------------------------------
(* Trimming a text leaves a text.                                          *)

LEMMA TrimStartText ==
  ASSUME NEW t \in Text, NEW S
  PROVE  TrimStart(t, S) \in Text
<1>1. CASE Outside(t, S) = {}
  BY <1>1 DEF TrimStart, Text
<1>2. CASE Outside(t, S) # {}
  <2>1. Least(Outside(t, S)) \in 1 .. Len(t)
    <3>1. Outside(t, S) \subseteq 1 .. Len(t)
      BY DEF Outside, Text
    <3> QED BY <1>2, <3>1, LeastMember
  <2>2. \A i \in Least(Outside(t, S)) .. Len(t) : t[i] \in Symbols
    BY <2>1 DEF Text
  <2> QED BY <1>2, <2>1, <2>2, SubSeqProperties DEF TrimStart, Text
<1> QED BY <1>1, <1>2

LEMMA TrimEndText ==
  ASSUME NEW t \in Text, NEW S
  PROVE  TrimEnd(t, S) \in Text
<1>1. CASE Outside(t, S) = {}
  BY <1>1 DEF TrimEnd, Text
<1>2. CASE Outside(t, S) # {}
  <2>1. Greatest(Outside(t, S)) \in 1 .. Len(t)
    <3>1. Outside(t, S) \subseteq 1 .. Len(t) /\ Len(t) \in Nat
      BY DEF Outside, Text
    <3> QED BY <1>2, <3>1, GreatestMember
  <2>2. \A i \in 1 .. Greatest(Outside(t, S)) : t[i] \in Symbols
    BY <2>1 DEF Text
  <2> QED BY <1>2, <2>1, <2>2, SubSeqProperties DEF TrimEnd, Text
<1> QED BY <1>1, <1>2

LEMMA TrimText ==
  ASSUME NEW t \in Text
  PROVE  Trim(t) \in Text
BY TrimStartText, TrimEndText DEF Trim

(* Of nothing, nothing is left, and it is no target.                       *)
LEMMA NothingIsNoTarget == Trim(<<>>) = <<>> /\ ~IsExplicit(<<>>)
<1>1. \A S : Outside(<<>>, S) = {}
  BY DEF Outside
<1>2. \A S : TrimStart(<<>>, S) = <<>> /\ TrimEnd(<<>>, S) = <<>>
  BY <1>1 DEF TrimStart, TrimEnd
<1>3. Trim(<<>>) = <<>>
  BY <1>2 DEF Trim
<1> QED BY <1>2, <1>3 DEF IsExplicit, Normalize

-----------------------------------------------------------------------------
(* The two tests of a target agree.                                        *)

(* is_explicit_pending_target accepts a text exactly if                    *)
(* parse_pending_target reads a number, "last" or a "req-" token in it.    *)
LEMMA TargetsAgreeOn ==
  ASSUME NEW t
  PROVE  LET target == ParseTarget(t) IN
         IsExplicit(t) <=> \/ target.kind \in {"ordinal", "last"}
                           \/ target.kind = "token" /\ target.token[1] \in TokenWords
<1> DEFINE n == Normalize(t)
           number == OrdinalOf(n)
<1>1. number = (IF Decimal(n) # 0 THEN Decimal(n) ELSE ChineseOrdinal(n))
  BY DEF OrdinalOf
<1>2. IsExplicit(t) <=> n # <<>> /\ (n \in LastWords \/ n[1] \in TokenWords \/ number # 0)
  BY DEF IsExplicit
<1>3. <<>> \notin LastWords
  BY DEF LastWords
<1>4. CASE n = <<>>
  <2>1. ParseTarget(t) = Implicit
    BY <1>3, <1>4 DEF ParseTarget
  <2> QED BY <1>2, <1>4, <2>1 DEF Implicit
<1>5. CASE n \in LastWords
  <2>1. ParseTarget(t) = Last
    BY <1>3, <1>5 DEF ParseTarget
  <2> QED BY <1>2, <1>3, <1>5, <2>1 DEF Last
<1>6. CASE n # <<>> /\ n \notin LastWords /\ number # 0
  <2>1. ParseTarget(t) = Ordinal(number)
    BY <1>6 DEF ParseTarget
  <2> HIDE DEF number
  <2> QED BY <1>2, <1>6, <2>1 DEF Ordinal
<1>7. CASE n # <<>> /\ n \notin LastWords /\ number = 0
  <2>1. ParseTarget(t) = Token(n)
    BY <1>7 DEF ParseTarget
  <2> HIDE DEF n
  <2> QED BY <1>2, <1>7, <2>1 DEF Token
<1> QED BY <1>4, <1>5, <1>6, <1>7

(* TargetsAgree, of every text that can be typed.                          *)
THEOREM TargetTestsAgree == Spec => []TargetsAgree
<1>1. TargetsAgree
  BY TargetsAgreeOn DEF TargetsAgree
<1> QED BY <1>1, PTL

-----------------------------------------------------------------------------
(* No answer is lost.                                                      *)

(* The first word of a text ends where white space begins, or with it.     *)
LEMMA FirstWordEnds ==
  ASSUME NEW r \in Text
  PROVE  \/ FirstWord(r) = r
         \/ \E i \in 1 .. Len(r) : r[i] \in White /\ FirstWord(r) = SubSeq(r, 1, i - 1)
<1> DEFINE w == {i \in DOMAIN r : r[i] \in White}
<1>1. CASE w = {}
  BY <1>1 DEF FirstWord
<1>2. CASE w # {}
  <2>1. w \subseteq 1 .. Len(r)
    BY DEF Text
  <2>2. Least(w) \in w
    <3>1. w \subseteq Nat
      BY <2>1
    <3> HIDE DEF w
    <3> QED BY <1>2, <3>1, LeastMember
  <2>3. FirstWord(r) = SubSeq(r, 1, Least(w) - 1)
    BY <1>2 DEF FirstWord
  <2>4. r[Least(w)] \in White
    BY <2>2
  <2> QED BY <2>1, <2>2, <2>3, <2>4
<1> QED BY <1>1, <1>2

(* A reply that splits does so after a word that names a request.          *)
LEMMA SplitsAtBlank ==
  ASSUME NEW r \in Text, Splits(r)
  PROVE  \E i \in 2 .. Len(r) :
           /\ r[i] \in White
           /\ FirstWord(r) = SubSeq(r, 1, i - 1)
           /\ After(r, FirstWord(r)) = SubSeq(r, i, Len(r))
<1>1. FirstWord(r) # r
  <2> SUFFICES ASSUME FirstWord(r) = r PROVE FALSE
    OBVIOUS
  <2>1. After(r, r) = <<>>
    BY SubSeqEmpty DEF After, Text
  <2> QED BY <2>1, NothingIsNoTarget DEF Splits
<1>2. PICK i \in 1 .. Len(r) : r[i] \in White /\ FirstWord(r) = SubSeq(r, 1, i - 1)
  BY <1>1, FirstWordEnds
<1>3. Len(r) \in Nat /\ i \in Int
  BY DEF Text
<1>4. i # 1
  <2> SUFFICES ASSUME i = 1 PROVE FALSE
    OBVIOUS
  <2>1. FirstWord(r) = <<>>
    BY <1>2, SubSeqEmpty
  <2> QED BY <2>1, NothingIsNoTarget DEF Splits
<1>5. Len(FirstWord(r)) = i - 1
  <2>1. \A j \in 1 .. i - 1 : r[j] \in Symbols
    BY <1>3 DEF Text
  <2>2. i - 1 \in Int /\ 1 <= i - 1
    BY <1>3, <1>4
  <2>3. Len(SubSeq(r, 1, i - 1)) = i - 1
    BY <2>1, <2>2, SubSeqProperties
  <2> QED BY <1>2, <2>3
<1>6. After(r, FirstWord(r)) = SubSeq(r, i, Len(r))
  BY <1>3, <1>5 DEF After
<1> QED BY <1>2, <1>3, <1>4, <1>6

(* A word that is_explicit_pending_target accepts is a request's name.     *)
LEMMA ExplicitIsRead ==
  ASSUME NEW t, IsExplicit(t)
  PROVE  ParseTarget(t).kind \notin {"none", "implicit"}
BY TargetsAgreeOn

(* RepliesKeepAnswers, of every text that can be typed: what is passed on  *)
(* is all that was written, or what follows the name of a request.         *)
LEMMA RepliesKeepAnswersOn ==
  ASSUME text \in Text
  PROVE  RepliesKeepAnswers
<1> DEFINE r == Trim(text)
<1>1. r \in Text
  BY TrimText
<1> HIDE DEF r
<1>2. CASE ~Splits(r)
  BY <1>2 DEF RepliesKeepAnswers, Reply, r
<1>3. CASE Splits(r)
  <2>1. PICK i \in 2 .. Len(r) : /\ r[i] \in White
                                 /\ FirstWord(r) = SubSeq(r, 1, i - 1)
                                 /\ After(r, FirstWord(r)) = SubSeq(r, i, Len(r))
    BY <1>1, <1>3, SplitsAtBlank
  <2>2. /\ Reply(r).target = ParseTarget(SubSeq(r, 1, i - 1))
        /\ Reply(r).text = Trim(SubSeq(r, i, Len(r)))
    BY <1>3, <2>1 DEF Reply
  <2>3. Trim(SubSeq(r, i, Len(r))) # <<>> /\ IsExplicit(SubSeq(r, 1, i - 1))
    BY <1>3, <2>1 DEF Splits
  <2>4. ParseTarget(SubSeq(r, 1, i - 1)).kind \notin {"none", "implicit"}
    BY <2>3, ExplicitIsRead
  <2>5. \E k \in 2 .. Len(r) :
          /\ Reply(r).text = Trim(SubSeq(r, k, Len(r))) /\ Reply(r).text # <<>>
          /\ r[k] \in White
          /\ Reply(r).target = ParseTarget(SubSeq(r, 1, k - 1))
          /\ Reply(r).target.kind \notin {"none", "implicit"}
    BY <2>1, <2>2, <2>3, <2>4
  <2> QED BY <2>5 DEF RepliesKeepAnswers, r
<1> QED BY <1>2, <1>3

(* What is typed is a text, and no longer than its bound.                  *)
Typed == text \in Text /\ Len(text) <= MaxLen

LEMMA TypedTexts == Spec => []Typed
<1>1. Init => Typed
  BY CommandsAssumption DEF Init, Text, Typed
<1>2. Typed /\ [Next]_text => Typed'
  <2> SUFFICES ASSUME Typed, [Next]_text PROVE Typed'
    OBVIOUS
  <2>1. CASE text' = text
    BY <2>1 DEF Typed, Text
  <2>2. ASSUME NEW s \in Symbols, Type(s) PROVE Typed'
    <3>1. text' = Append(text, s) /\ Len(text) < MaxLen /\ text \in Seq(Symbols)
      BY <2>2 DEF Type, Typed, Text
    <3>2. text' \in Seq(Symbols) /\ Len(text') = Len(text) + 1 /\ Len(text) \in Nat
      BY <3>1
    <3>3. MaxLen \in Nat
      BY CommandsAssumption
    <3> QED BY <3>1, <3>2, <3>3 DEF Typed, Text
  <2> QED BY <2>1, <2>2 DEF Next
<1> QED BY <1>1, <1>2, PTL DEF Spec

(* RepliesKeepAnswers: /reply passes on all that was written, or what      *)
(* follows a first word that names a request.                              *)
THEOREM AnswersKept == Spec => []RepliesKeepAnswers
<1>1. Typed => RepliesKeepAnswers
  BY RepliesKeepAnswersOn DEF Typed
<1> QED BY <1>1, TypedTexts, PTL

-----------------------------------------------------------------------------
(* Sequences of symbols.                                                   *)

(* The symbols the parser knows; every text is a sequence of these and of  *)
(* what can be typed.                                                      *)
Glyphs == {"0", "+", "di", "shi", "liang"} \cup Counters
            \cup {Arabic[i] : i \in 1 .. 9} \cup {Han[i] : i \in 1 .. 9}
            \cup White \cup TokenWords \cup Decisions
            \cup {"/reply", "/reply-other", "answer"}
Any    == Symbols \cup Glyphs

(* These are symbols of a text.                                            *)
LEMMA GlyphsAreSymbols ==
  /\ \A s \in {"0", "+", "di", "shi", "liang"} : s \in Any
  /\ \A s \in Counters : s \in Any
  /\ \A i \in 1 .. 9 : Arabic[i] \in Any /\ Han[i] \in Any
  /\ \A s \in White \cup TokenWords \cup Decisions : s \in Any
  /\ \A s \in {"/reply", "/reply-other", "answer"} : s \in Any
BY DEF Any, Glyphs

(* What is typed is such a sequence.                                       *)
LEMMA TextIsSequence == ASSUME NEW t \in Text PROVE t \in Seq(Any)
BY SeqMonotonic DEF Text, Any

(* A part of a sequence: its length and its elements.                      *)
LEMMA PartOf ==
  ASSUME NEW t \in Seq(Any), NEW i \in 1 .. Len(t) + 1, NEW j \in i - 1 .. Len(t)
  PROVE  /\ SubSeq(t, i, j) \in Seq(Any)
         /\ Len(SubSeq(t, i, j)) = (j - i) + 1
         /\ \A k \in 1 .. (j - i) + 1 : SubSeq(t, i, j)[k] = t[(i + k) - 1]
<1>1. Len(t) \in Nat /\ i \in Int /\ j \in Int
  BY EmptySeq
<1>2. \A k \in i .. j : t[k] \in Any
  BY <1>1, ElementOfSeq
<1>3. /\ SubSeq(t, i, j) \in Seq(Any)
      /\ Len(SubSeq(t, i, j)) = IF i <= j THEN j-i+1 ELSE 0
      /\ \A k \in 1 .. j-i+1 : SubSeq(t, i, j)[k] = t[i+k-1]
  BY <1>1, <1>2, SubSeqProperties
<1>4. (IF i <= j THEN j-i+1 ELSE 0) = (j - i) + 1
  BY <1>1
<1> QED BY <1>3, <1>4

(* The beginning of a sequence.                                            *)
LEMMA PrefixOf ==
  ASSUME NEW t \in Seq(Any), NEW j \in 0 .. Len(t)
  PROVE  /\ SubSeq(t, 1, j) \in Seq(Any)
         /\ Len(SubSeq(t, 1, j)) = j
         /\ \A k \in 1 .. j : SubSeq(t, 1, j)[k] = t[k]
<1>1. Len(t) \in Nat
  BY EmptySeq
<1>2. 1 \in 1 .. Len(t) + 1 /\ j \in 1 - 1 .. Len(t) /\ (j - 1) + 1 = j
  BY <1>1
<1>3. \A k \in 1 .. j : (1 + k) - 1 = k
  OBVIOUS
<1> QED BY <1>2, <1>3, PartOf

(* A sequence of length one is its element.                                *)
LEMMA OneSymbol ==
  ASSUME NEW t \in Seq(Any), Len(t) = 1, NEW s \in Any
  PROVE  t = <<s>> <=> t[1] = s
<1>1. <<s>> \in Seq(Any) /\ Len(<<s>>) = 1 /\ <<s>>[1] = s
  OBVIOUS
<1>2. t[1] = s => t = <<s>>
  <2> DEFINE u == <<s>>
  <2>1. t[1] = s => \A i \in 1 .. Len(t) : t[i] = u[i]
    BY <1>1
  <2> HIDE DEF u
  <2> QED BY <1>1, <2>1, SeqEqual DEF u
<1> QED BY <1>1, <1>2

(* The first symbol of a text, and what follows.                           *)
LEMMA FirstOf ==
  ASSUME NEW t \in Seq(Any), NEW s \in Any
  PROVE  /\ Begins(t, <<s>>) <=> t # <<>> /\ t[1] = s
         /\ \A u \in Seq(Any) : t = <<s>> \o u <=> t # <<>> /\ t[1] = s /\ Tail(t) = u
         /\ t # <<>> => Tail(t) \in Seq(Any) /\ Len(Tail(t)) = Len(t) - 1
                        /\ \A i \in 1 .. Len(t) - 1 : Tail(t)[i] = t[i + 1]
<1>1. <<s>> \in Seq(Any) /\ Len(<<s>>) = 1 /\ <<s>>[1] = s
  OBVIOUS
<1>2. Len(t) \in Nat /\ (t # <<>> <=> 1 <= Len(t))
  BY EmptySeq
<1>3. t # <<>> => Tail(t) \in Seq(Any) /\ Len(Tail(t)) = Len(t) - 1
                        /\ \A i \in 1 .. Len(t) - 1 : Tail(t)[i] = t[i + 1]
  BY HeadTailProperties
<1>4. Begins(t, <<s>>) <=> t # <<>> /\ t[1] = s
  <2>1. CASE t = <<>>
    BY <1>1, <1>2, <2>1 DEF Begins
  <2>2. CASE t # <<>>
    <3>1. \A i \in 1 .. 1 : t[i] \in Any
      BY <1>2, <2>2, ElementOfSeq
    <3>2. /\ SubSeq(t, 1, 1) \in Seq(Any)
          /\ Len(SubSeq(t, 1, 1)) = 1
          /\ SubSeq(t, 1, 1)[1] = t[1]
      BY <3>1, SubSeqProperties
    <3>3. SubSeq(t, 1, 1) = <<s>> <=> t[1] = s
      <4> DEFINE q == SubSeq(t, 1, 1)
      <4>1. q \in Seq(Any) /\ Len(q) = 1 /\ q[1] = t[1]
        BY <3>2
      <4> HIDE DEF q
      <4>2. q = <<s>> <=> t[1] = s
        BY <4>1, OneSymbol
      <4> QED BY <4>2 DEF q
    <3> QED BY <1>1, <1>2, <2>2, <3>3 DEF Begins
  <2> QED BY <2>1, <2>2
<1>5. ASSUME NEW u \in Seq(Any)
      PROVE  t = <<s>> \o u <=> t # <<>> /\ t[1] = s /\ Tail(t) = u
  <2>1. /\ <<s>> \o u \in Seq(Any)
        /\ Len(<<s>> \o u) = 1 + Len(u)
        /\ (<<s>> \o u)[1] = s
        /\ \A i \in 2 .. 1 + Len(u) : (<<s>> \o u)[i] = u[i - 1]
        /\ Len(u) \in Nat
    BY <1>1, ConcatProperties, EmptySeq
  <2>2. ASSUME t = <<s>> \o u PROVE t # <<>> /\ t[1] = s /\ Tail(t) = u
    <3>1. t # <<>> /\ t[1] = s
      BY <1>2, <2>1, <2>2
    <3>2. Len(Tail(t)) = Len(u) /\ Tail(t) \in Seq(Any) /\ Len(t) = 1 + Len(u)
      BY <1>3, <2>1, <2>2, <3>1
    <3>3. \A i \in 1 .. Len(Tail(t)) : Tail(t)[i] = u[i]
      <4> SUFFICES ASSUME NEW i \in 1 .. Len(Tail(t)) PROVE Tail(t)[i] = u[i]
        OBVIOUS
      <4>1. Tail(t)[i] = t[i + 1]
        BY <1>3, <2>1, <3>1, <3>2
      <4>2. i + 1 \in 2 .. 1 + Len(u) /\ (i + 1) - 1 = i
        BY <2>1, <3>2
      <4>3. t[i + 1] = u[(i + 1) - 1]
        BY <2>1, <2>2, <4>2
      <4> QED BY <4>1, <4>2, <4>3
    <3> QED BY <3>1, <3>2, <3>3, SeqEqual
  <2>3. ASSUME t # <<>>, t[1] = s, Tail(t) = u PROVE t = <<s>> \o u
    <3>1. Len(t) = Len(<<s>> \o u)
      BY <1>3, <2>1, <2>3
    <3>2. \A i \in 1 .. Len(t) : t[i] = (<<s>> \o u)[i]
      <4> SUFFICES ASSUME NEW i \in 1 .. Len(t) PROVE t[i] = (<<s>> \o u)[i]
        OBVIOUS
      <4>1. CASE i = 1
        BY <2>1, <2>3, <4>1
      <4>2. CASE i # 1
        <5>1. i - 1 \in 1 .. Len(t) - 1 /\ (i - 1) + 1 = i /\ i \in 2 .. 1 + Len(u)
          BY <1>2, <2>1, <3>1, <4>2
        <5>2. Tail(t)[i - 1] = t[i]
          BY <1>3, <2>3, <5>1
        <5> QED BY <2>1, <2>3, <5>1, <5>2
      <4> QED BY <4>1, <4>2
    <3> QED BY <2>1, <3>1, <3>2, SeqEqual
  <2> QED BY <2>2, <2>3
<1> QED BY <1>3, <1>4, <1>5

(* The last symbol of a text, and what precedes it.                        *)
LEMMA LastOf ==
  ASSUME NEW t \in Seq(Any), NEW s \in Any
  PROVE  /\ \A u \in Seq(Any) : t = u \o <<s>> <=> t # <<>> /\ t[Len(t)] = s /\ Front(t) = u
         /\ t # <<>> => Front(t) \in Seq(Any) /\ Len(Front(t)) = Len(t) - 1
                        /\ \A i \in 1 .. Len(t) - 1 : Front(t)[i] = t[i]
<1>1. <<s>> \in Seq(Any) /\ Len(<<s>>) = 1 /\ <<s>>[1] = s
  OBVIOUS
<1>2. Len(t) \in Nat /\ (t # <<>> <=> 1 <= Len(t))
  BY EmptySeq
<1>3. t # <<>> => Front(t) \in Seq(Any) /\ Len(Front(t)) = Len(t) - 1
                  /\ \A i \in 1 .. Len(t) - 1 : Front(t)[i] = t[i]
  <2> SUFFICES ASSUME t # <<>>
               PROVE  Front(t) \in Seq(Any) /\ Len(Front(t)) = Len(t) - 1
                      /\ \A i \in 1 .. Len(t) - 1 : Front(t)[i] = t[i]
    OBVIOUS
  <2>1. Len(t) - 1 \in 0 .. Len(t)
    BY <1>2
  <2> QED BY <1>2, <2>1, PrefixOf DEF Front
<1>5. ASSUME NEW u \in Seq(Any)
      PROVE  t = u \o <<s>> <=> t # <<>> /\ t[Len(t)] = s /\ Front(t) = u
  <2>1. /\ u \o <<s>> \in Seq(Any)
        /\ Len(u \o <<s>>) = Len(u) + 1
        /\ (u \o <<s>>)[Len(u) + 1] = s
        /\ \A i \in 1 .. Len(u) : (u \o <<s>>)[i] = u[i]
        /\ Len(u) \in Nat
    BY <1>1, ConcatProperties, EmptySeq
  <2>2. ASSUME t = u \o <<s>> PROVE t # <<>> /\ t[Len(t)] = s /\ Front(t) = u
    <3>1. t # <<>> /\ t[Len(t)] = s
      BY <1>2, <2>1, <2>2
    <3>2. Len(Front(t)) = Len(u) /\ Front(t) \in Seq(Any)
      BY <1>3, <2>1, <2>2, <3>1
    <3>3. \A i \in 1 .. Len(Front(t)) : Front(t)[i] = u[i]
      <4> SUFFICES ASSUME NEW i \in 1 .. Len(Front(t)) PROVE Front(t)[i] = u[i]
        OBVIOUS
      <4>1. i \in 1 .. Len(u) /\ i \in 1 .. Len(t) - 1
        BY <1>3, <2>1, <3>1, <3>2
      <4> QED BY <1>3, <2>1, <2>2, <3>1, <4>1
    <3> QED BY <3>1, <3>2, <3>3, SeqEqual
  <2>3. ASSUME t # <<>>, t[Len(t)] = s, Front(t) = u PROVE t = u \o <<s>>
    <3>1. Len(t) = Len(u \o <<s>>) /\ Len(t) = Len(u) + 1
      BY <1>3, <2>1, <2>3
    <3>2. \A i \in 1 .. Len(t) : t[i] = (u \o <<s>>)[i]
      BY <1>2, <1>3, <2>1, <2>3, <3>1
    <3> QED BY <2>1, <3>1, <3>2, SeqEqual
  <2> QED BY <2>2, <2>3
<1> QED BY <1>3, <1>5

(* The place of a symbol in a list of nine.                                *)
LEMMA PlaceOfArabic ==
  ASSUME NEW s
  PROVE  /\ Place(Arabic, s) \in 0 .. 9
         /\ \A n \in 1 .. 9 : Place(Arabic, s) = n <=> s = Arabic[n]
<1>1. \A i, j \in 1 .. 9 : Arabic[i] = Arabic[j] => i = j
  BY DEF Arabic
<1>2. CASE \E i \in 1 .. 9 : Arabic[i] = s
  <2>1. Place(Arabic, s) \in 1 .. 9 /\ Arabic[Place(Arabic, s)] = s
    BY <1>2 DEF Place
  <2> QED BY <1>1, <2>1
<1>3. CASE ~ \E i \in 1 .. 9 : Arabic[i] = s
  BY <1>3 DEF Place
<1> QED BY <1>2, <1>3

(* The same of the Chinese numerals.                                       *)
LEMMA PlaceOfHan ==
  ASSUME NEW s
  PROVE  /\ Place(Han, s) \in 0 .. 9
         /\ \A n \in 1 .. 9 : Place(Han, s) = n <=> s = Han[n]
<1>1. \A i, j \in 1 .. 9 : Han[i] = Han[j] => i = j
  BY DEF Han
<1>2. CASE \E i \in 1 .. 9 : Han[i] = s
  <2>1. Place(Han, s) \in 1 .. 9 /\ Han[Place(Han, s)] = s
    BY <1>2 DEF Place
  <2> QED BY <1>1, <2>1
<1>3. CASE ~ \E i \in 1 .. 9 : Han[i] = s
  BY <1>3 DEF Place
<1> QED BY <1>2, <1>3

-----------------------------------------------------------------------------
(* What digits are worth.                                                  *)

(* What digits are worth, from the left: the recursion of Decimal.         *)
Worth(d) ==
  LET value[i \in 0..Len(d)] == IF i = 0 THEN 0 ELSE 10 * value[i - 1] + Place(Arabic, d[i])
  IN value
Digits(d) == \A i \in DOMAIN d : d[i] = "0" \/ Place(Arabic, d[i]) # 0
Unsigned(t) == IF Begins(t, <<"+">>) THEN Tail(t) ELSE t

(* Decimal, by the recursion and the test of its symbols.                  *)
LEMMA DecimalIsWorth ==
  ASSUME NEW t
  PROVE  Decimal(t) = IF Digits(Unsigned(t)) THEN Worth(Unsigned(t))[Len(Unsigned(t))] ELSE 0
<1> DEFINE d == Unsigned(t)
<1>1. Decimal(t) = IF Digits(d) THEN Worth(d)[Len(d)] ELSE 0
  BY Zenon DEF Decimal, Worth, Digits, Unsigned
<1> QED BY <1>1

(* A function of the recursion's shape exists on every prefix.             *)
LEMMA WorthExists ==
  ASSUME NEW d \in Seq(Any)
  PROVE  \E f \in [0 .. Len(d) -> Nat] :
           f = [i \in 0 .. Len(d) |-> IF i = 0 THEN 0 ELSE 10 * f[i - 1] + Place(Arabic, d[i])]
<1> DEFINE Good(k) == \E f \in [0 .. k -> Nat] :
             \A i \in 0 .. k : f[i] = IF i = 0 THEN 0 ELSE 10 * f[i - 1] + Place(Arabic, d[i])
           Bad == {k \in Nat : ~ Good(k)}
<1>1. Good(0)
  <2> DEFINE f == [i \in 0 .. 0 |-> 0]
  <2>1. f \in [0 .. 0 -> Nat] /\ \A i \in 0 .. 0 : i = 0 /\ f[i] = 0
    OBVIOUS
  <2> HIDE DEF f
  <2>2. \A i \in 0 .. 0 : f[i] = IF i = 0 THEN 0 ELSE 10 * f[i - 1] + Place(Arabic, d[i])
    BY <2>1
  <2> QED BY <2>1, <2>2
<1>2. ASSUME NEW k \in Nat, Good(k) PROVE Good(k + 1)
  <2>1. PICK f \in [0 .. k -> Nat] :
          \A i \in 0 .. k : f[i] = IF i = 0 THEN 0 ELSE 10 * f[i - 1] + Place(Arabic, d[i])
    BY <1>2
  <2> DEFINE p == Place(Arabic, d[k + 1])
             g == [i \in 0 .. k + 1 |-> IF i = k + 1 THEN 10 * f[k] + p ELSE f[i]]
  <2>2. p \in Nat
    <3>1. p \in 0 .. 9
      BY PlaceOfArabic, Zenon
    <3> QED BY <3>1
  <2>3. 10 * f[k] + p \in Nat /\ \A i \in 0 .. k : f[i] \in Nat
    <3> HIDE DEF p
    <3>1. \A i \in 0 .. k : f[i] \in Nat
      BY <2>1
    <3>2. f[k] \in Nat
      BY <3>1
    <3> QED BY <2>2, <3>1, <3>2
  <2>4. g \in [0 .. k + 1 -> Nat]
    <3> HIDE DEF p
    <3> QED BY <2>3
  <2>5. g[k + 1] = 10 * f[k] + p /\ \A i \in 0 .. k : g[i] = f[i]
    <3> HIDE DEF p
    <3> QED OBVIOUS
  <2> HIDE DEF g
  <2>6. ASSUME NEW i \in 0 .. k + 1
        PROVE  g[i] = IF i = 0 THEN 0 ELSE 10 * g[i - 1] + Place(Arabic, d[i])
    <3>1. CASE i = k + 1
      <4>1. i # 0 /\ i - 1 = k /\ k \in 0 .. k
        BY <3>1
      <4>2. g[i] = 10 * f[k] + p /\ g[i - 1] = f[k] /\ p = Place(Arabic, d[i])
        BY <2>5, <3>1, <4>1
      <4> HIDE DEF p
      <4> QED BY <4>1, <4>2
    <3>2. CASE i = 0
      BY <2>1, <2>5, <3>2
    <3>3. CASE i \in 1 .. k
      <4>1. i \in 0 .. k /\ i - 1 \in 0 .. k /\ i # 0
        BY <3>3
      <4>2. g[i] = f[i] /\ g[i - 1] = f[i - 1]
        BY <2>5, <4>1
      <4>3. f[i] = 10 * f[i - 1] + Place(Arabic, d[i])
        BY <2>1, <4>1
      <4> QED BY <4>1, <4>2, <4>3
    <3> QED BY <3>1, <3>2, <3>3
  <2> QED BY <2>4, <2>6
<1>3. Bad = {}
  <2> SUFFICES ASSUME Bad # {} PROVE FALSE
    OBVIOUS
  <2>1. PICK k \in Bad : \A j \in Bad : k <= j
    <3>1. Bad \subseteq Nat
      OBVIOUS
    <3> HIDE DEF Bad
    <3> QED BY <3>1, LeastExists
  <2> HIDE DEF Good
  <2>2. k \in Nat /\ ~ Good(k) /\ k # 0
    BY <1>1
  <2>3. k - 1 \in Nat /\ ~ (k - 1 \in Bad)
    BY <2>1, <2>2
  <2>4. Good(k - 1)
    BY <2>3
  <2>5. Good((k - 1) + 1)
    BY <1>2, <2>3, <2>4
  <2>6. (k - 1) + 1 = k
    BY <2>2
  <2> QED BY <2>2, <2>5, <2>6
<1>4. Good(Len(d))
  <2>1. Len(d) \in Nat
    BY EmptySeq
  <2> HIDE DEF Good
  <2> QED BY <1>3, <2>1
<1>5. PICK f \in [0 .. Len(d) -> Nat] :
        \A i \in 0 .. Len(d) : f[i] = IF i = 0 THEN 0 ELSE 10 * f[i - 1] + Place(Arabic, d[i])
  BY <1>4
<1> DEFINE g == [i \in 0 .. Len(d) |-> IF i = 0 THEN 0 ELSE 10 * f[i - 1] + Place(Arabic, d[i])]
<1>6. g = f
  <2>1. \A i \in 0 .. Len(d) : g[i] = f[i]
    BY <1>5, Zenon
  <2> QED BY <2>1, Zenon
<1> QED BY <1>6

(* The recursion does what it says: Worth of a prefix follows from the one *)
(* before it.                                                              *)
LEMMA WorthRecursion ==
  ASSUME NEW d \in Seq(Any)
  PROVE  /\ Worth(d)[0] = 0
         /\ \A i \in 0 .. Len(d) : Worth(d)[i] \in Nat
         /\ \A i \in 1 .. Len(d) : Worth(d)[i] = 10 * Worth(d)[i - 1] + Place(Arabic, d[i])
<1> DEFINE Is(f) == f = [i \in 0 .. Len(d) |-> IF i = 0 THEN 0 ELSE 10 * f[i - 1] + Place(Arabic, d[i])]
<1>1. Worth(d) = CHOOSE f : Is(f)
  BY Zenon DEF Worth
<1>2. PICK f \in [0 .. Len(d) -> Nat] : Is(f)
  BY WorthExists, Zenon
<1>3. Is(Worth(d))
  <2> HIDE DEF Is
  <2> QED BY <1>1, <1>2, Zenon
<1> DEFINE g == Worth(d)
<1>4. Len(d) \in Nat
  BY EmptySeq
<1>5. \A i \in 0 .. Len(d) : g[i] = IF i = 0 THEN 0 ELSE 10 * g[i - 1] + Place(Arabic, d[i])
  BY <1>3, Zenon
<1> HIDE DEF g, Is
<1>6. g[0] = 0
  BY <1>4, <1>5
<1>7. \A i \in 1 .. Len(d) : g[i] = 10 * g[i - 1] + Place(Arabic, d[i])
  BY <1>4, <1>5
<1>8. \A i \in 0 .. Len(d) : g[i] \in Nat
  <2> DEFINE Bad == {i \in 0 .. Len(d) : g[i] \notin Nat}
  <2> SUFFICES ASSUME Bad # {} PROVE FALSE
    OBVIOUS
  <2>1. PICK k \in Bad : \A j \in Bad : k <= j
    <3>1. Bad \subseteq Nat
      BY <1>4
    <3> HIDE DEF Bad
    <3> QED BY <3>1, LeastExists
  <2>2. k \in 1 .. Len(d)
    <3>1. k \in 0 .. Len(d) /\ g[k] \notin Nat
      BY <2>1
    <3>2. k # 0
      BY <1>6, <3>1
    <3> QED BY <1>4, <3>1, <3>2
  <2>3. k - 1 \in 0 .. Len(d) /\ k - 1 \notin Bad
    BY <1>4, <2>1, <2>2
  <2>4. g[k - 1] \in Nat /\ Place(Arabic, d[k]) \in Nat
    <3>1. Place(Arabic, d[k]) \in 0 .. 9
      BY PlaceOfArabic, Zenon
    <3> QED BY <2>3, <3>1
  <2>5. g[k] \in Nat
    BY <1>7, <2>2, <2>4
  <2> QED BY <2>5
<1> QED BY <1>6, <1>7, <1>8 DEF g

(* A zero counts nothing.                                                  *)
LEMMA PlaceOfZero == Place(Arabic, "0") = 0
<1>1. \A i \in 1 .. 9 : Arabic[i] # "0"
  BY DEF Arabic
<1> QED BY <1>1, Zenon DEF Place

(* Each digit counts 0 to 9, and 0 is the only one to count nothing.       *)
LEMMA DigitOrZero ==
  ASSUME NEW d \in Seq(Any), Digits(d), NEW k \in 1 .. Len(d)
  PROVE  /\ Place(Arabic, d[k]) \in 0 .. 9
         /\ Place(Arabic, d[k]) = 0 <=> d[k] = "0"
<1>1. DOMAIN d = 1 .. Len(d)
  BY LenProperties
<1>2. d[k] = "0" \/ Place(Arabic, d[k]) # 0
  BY <1>1 DEF Digits
<1>3. Place(Arabic, d[k]) \in 0 .. 9
  BY PlaceOfArabic, Zenon
<1>4. d[k] = "0" => Place(Arabic, d[k]) = 0
  BY PlaceOfZero, Zenon
<1> QED BY <1>2, <1>3, <1>4

(* Tens and ones are determined by their sum.                              *)
LEMMA OneWayToCount ==
  ASSUME NEW x \in Nat, NEW y \in 0 .. 9, NEW a \in Nat, NEW b \in 0 .. 9
  PROVE  10 * x + y = 10 * a + b <=> x = a /\ y = b
OBVIOUS

(* A sum below ten has no tens.                                            *)
LEMMA OneWayToCountOnes ==
  ASSUME NEW x \in Nat, NEW y \in 0 .. 9, NEW b \in 0 .. 9
  PROVE  10 * x + y = b <=> x = 0 /\ y = b
OBVIOUS

(* Digits are worth nothing exactly if all are zero.                       *)
LEMMA WorthNothing ==
  ASSUME NEW d \in Seq(Any), Digits(d), NEW i \in 0 .. Len(d)
  PROVE  Worth(d)[i] = 0 <=> \A k \in 1 .. i : d[k] = "0"
<1> DEFINE Good(m) == Worth(d)[m] = 0 <=> \A k \in 1 .. m : d[k] = "0"
           Bad == {m \in 0 .. Len(d) : ~ Good(m)}
<1>1. Len(d) \in Nat
  BY EmptySeq
<1>2. Good(0)
  BY WorthRecursion
<1>3. ASSUME NEW m \in 0 .. Len(d) - 1, Good(m) PROVE Good(m + 1)
  <2>1. m \in 0 .. Len(d) /\ m + 1 \in 1 .. Len(d) /\ (m + 1) - 1 = m
    BY <1>1
  <2>2. Worth(d)[m] \in Nat /\ Worth(d)[m + 1] = 10 * Worth(d)[m] + Place(Arabic, d[m + 1])
    BY <2>1, WorthRecursion
  <2>3. /\ Place(Arabic, d[m + 1]) \in 0 .. 9
        /\ Place(Arabic, d[m + 1]) = 0 <=> d[m + 1] = "0"
    BY <2>1, DigitOrZero
  <2>4. Worth(d)[m + 1] = 0 <=> Worth(d)[m] = 0 /\ d[m + 1] = "0"
    <3> DEFINE x == Worth(d)[m]
               y == Place(Arabic, d[m + 1])
    <3>1. x \in Nat /\ y \in 0 .. 9 /\ 0 \in 0 .. 9
      BY <2>2, <2>3
    <3> HIDE DEF x, y
    <3>2. 10 * x + y = 0 <=> x = 0 /\ y = 0
      BY <3>1, OneWayToCountOnes
    <3> QED BY <2>2, <2>3, <3>2 DEF x, y
  <2>5. \A k : k \in 1 .. m + 1 <=> k \in 1 .. m \/ k = m + 1
    BY <2>1
  <2>6. (\A k \in 1 .. m + 1 : d[k] = "0") <=> (\A k \in 1 .. m : d[k] = "0") /\ d[m + 1] = "0"
    BY <2>5, Zenon
  <2> QED BY <1>3, <2>4, <2>6
<1>4. Bad = {}
  <2> SUFFICES ASSUME Bad # {} PROVE FALSE
    OBVIOUS
  <2>1. PICK k \in Bad : \A j \in Bad : k <= j
    <3>1. Bad \subseteq Nat
      BY <1>1
    <3> HIDE DEF Bad
    <3> QED BY <3>1, LeastExists
  <2> HIDE DEF Good
  <2>2. k \in 0 .. Len(d) /\ ~ Good(k)
    BY <2>1
  <2>3. k # 0
    BY <1>2, <2>2
  <2>4. k - 1 \in 0 .. Len(d) - 1 /\ k - 1 \in 0 .. Len(d) /\ (k - 1) + 1 = k /\ ~ (k <= k - 1)
    BY <1>1, <2>2, <2>3
  <2>5. Good(k - 1)
    BY <2>1, <2>4
  <2>6. Good((k - 1) + 1)
    BY <1>3, <2>4, <2>5
  <2> QED BY <2>2, <2>4, <2>6
<1>5. Good(i)
  <2> HIDE DEF Good
  <2> QED BY <1>4
<1> QED BY <1>5

(* A number's figures, after zeros.                                        *)
Ends(d, n) ==
  LET l == Len(d) IN
  IF n < 10
    THEN 1 <= l /\ d[l] = Arabic[n] /\ \A k \in 1 .. l - 1 : d[k] = "0"
    ELSE /\ 2 <= l /\ d[l] = Figure(n % 10) /\ d[l - 1] = Arabic[n \div 10]
         /\ \A k \in 1 .. l - 2 : d[k] = "0"

(* Digits are worth n, from 1 to 99, exactly if zeros lead to its figures. *)
LEMMA WorthNumber ==
  ASSUME NEW d \in Seq(Any), Digits(d), NEW n \in 1 .. 99
  PROVE  Worth(d)[Len(d)] = n <=> Ends(d, n)
<1> DEFINE l == Len(d)
           w(i) == Worth(d)[i]
           p(i) == Place(Arabic, d[i])
<1>1. l \in Nat
  BY EmptySeq
<1>2. w(0) = 0 /\ \A i \in 0 .. l : w(i) \in Nat
  BY WorthRecursion
<1>3. \A i \in 1 .. l : w(i) = 10 * w(i - 1) + p(i)
  BY WorthRecursion
<1>4. \A i \in 1 .. l : p(i) \in 0 .. 9 /\ (p(i) = 0 <=> d[i] = "0")
  BY DigitOrZero
<1>5. \A i \in 1 .. l : \A m \in 1 .. 9 : p(i) = m <=> d[i] = Arabic[m]
  BY PlaceOfArabic
<1>6. \A i \in 0 .. l : w(i) = 0 <=> \A k \in 1 .. i : d[k] = "0"
  BY WorthNothing
<1>7. \A i \in 1 .. l : \A m \in 0 .. 9 : p(i) = m <=> d[i] = Figure(m)
  BY <1>4, <1>5 DEF Figure
<1> HIDE DEF w, p
<1>8. CASE n < 10
  <2>1. Ends(d, n) <=> 1 <= l /\ d[l] = Arabic[n] /\ \A k \in 1 .. l - 1 : d[k] = "0"
    BY <1>8 DEF Ends
  <2>2. CASE l = 0
    BY <1>2, <2>1, <2>2 DEF w
  <2>3. CASE l # 0
    <3>1. l \in 1 .. l /\ l - 1 \in 0 .. l /\ 1 <= l /\ l \in 0 .. l
      BY <1>1, <2>3
    <3>2. w(l) = 10 * w(l - 1) + p(l) /\ w(l - 1) \in Nat /\ p(l) \in 0 .. 9
      BY <1>2, <1>3, <1>4, <3>1
    <3>3. w(l) = n <=> w(l - 1) = 0 /\ p(l) = n
      BY <1>8, <3>2
    <3>4. p(l) = n <=> d[l] = Arabic[n]
      BY <1>5, <1>8, <3>1
    <3>5. w(l - 1) = 0 <=> \A k \in 1 .. l - 1 : d[k] = "0"
      BY <1>6, <3>1
    <3> QED BY <2>1, <3>1, <3>3, <3>4, <3>5 DEF w
  <2> QED BY <2>2, <2>3
<1>9. CASE n >= 10
  <2> DEFINE a == n \div 10
             b == n % 10
  <2>1. a \in 1 .. 9 /\ b \in 0 .. 9 /\ n = 10 * a + b
    BY <1>9
  <2> HIDE DEF a, b
  <2>2. Ends(d, n) <=> /\ 2 <= l /\ d[l] = Figure(b) /\ d[l - 1] = Arabic[a]
                       /\ \A k \in 1 .. l - 2 : d[k] = "0"
    BY <1>9 DEF Ends, a, b
  <2>3. CASE l = 0
    BY <1>2, <2>2, <2>3 DEF w
  <2>4. CASE l = 1
    <3>1. 1 \in 1 .. l /\ w(1) = 10 * w(0) + p(1)
      <4>1. 1 \in 1 .. l /\ 1 - 1 = 0
        BY <2>4
      <4>2. w(1) = 10 * w(1 - 1) + p(1)
        BY <1>3, <4>1
      <4> QED BY <4>1, <4>2
    <3>2. w(1) \in 0 .. 9
      <4>1. p(1) \in 0 .. 9 /\ w(0) = 0
        BY <1>2, <1>4, <3>1
      <4> DEFINE y == p(1)
      <4>2. y \in 0 .. 9 /\ w(1) = 10 * 0 + y
        BY <3>1, <4>1
      <4> HIDE DEF y
      <4>3. 10 * 0 + y \in 0 .. 9
        BY <4>2
      <4> QED BY <4>2, <4>3
    <3> QED BY <1>9, <2>2, <2>4, <3>2 DEF w
  <2>5. CASE l >= 2
    <3>1. /\ l \in 1 .. l /\ l - 1 \in 1 .. l /\ l - 2 \in 0 .. l /\ l \in 0 .. l
          /\ l - 1 \in 0 .. l /\ (l - 1) - 1 = l - 2
      BY <1>1, <2>5
    <3>2. w(l) = 10 * w(l - 1) + p(l) /\ w(l - 1) = 10 * w(l - 2) + p(l - 1)
      <4>1. w(l) = 10 * w(l - 1) + p(l)
        BY <1>3, <3>1
      <4>2. w(l - 1) = 10 * w((l - 1) - 1) + p(l - 1)
        BY <1>3, <3>1
      <4> QED BY <3>1, <4>1, <4>2
    <3>3. w(l - 2) \in Nat /\ w(l - 1) \in Nat /\ p(l) \in 0 .. 9 /\ p(l - 1) \in 0 .. 9
      BY <1>2, <1>4, <3>1
    <3>4. w(l) = n <=> w(l - 2) = 0 /\ p(l - 1) = a /\ p(l) = b
      <4>1. w(l) = n <=> w(l - 1) = a /\ p(l) = b
        <5>1. a \in Nat
          BY <2>1
        <5>2. 10 * w(l - 1) + p(l) = 10 * a + b <=> w(l - 1) = a /\ p(l) = b
          <6> DEFINE x == w(l - 1)
                     y == p(l)
          <6>1. x \in Nat /\ y \in 0 .. 9 /\ a \in Nat /\ b \in 0 .. 9
            BY <2>1, <3>3, <5>1
          <6> HIDE DEF x, y
          <6>2. 10 * x + y = 10 * a + b <=> x = a /\ y = b
            BY <6>1, OneWayToCount
          <6> QED BY <6>2 DEF x, y
        <5> QED BY <2>1, <3>2, <5>2, Zenon
      <4>2. w(l - 1) = a <=> w(l - 2) = 0 /\ p(l - 1) = a
        <5>1. a \in 0 .. 9
          BY <2>1
        <5>2. 10 * w(l - 2) + p(l - 1) = a <=> w(l - 2) = 0 /\ p(l - 1) = a
          <6> DEFINE x == w(l - 2)
                     y == p(l - 1)
          <6>1. x \in Nat /\ y \in 0 .. 9 /\ a \in 0 .. 9
            BY <2>1, <3>3
          <6> HIDE DEF x, y
          <6>2. 10 * x + y = a <=> x = 0 /\ y = a
            BY <6>1, OneWayToCountOnes
          <6> QED BY <6>2 DEF x, y
        <5> QED BY <3>2, <5>2, Zenon
      <4> QED BY <4>1, <4>2, Zenon
    <3>5. p(l - 1) = a <=> d[l - 1] = Arabic[a]
      BY <1>5, <2>1, <3>1
    <3>6. p(l) = b <=> d[l] = Figure(b)
      BY <1>7, <2>1, <3>1
    <3>7. w(l - 2) = 0 <=> \A k \in 1 .. l - 2 : d[k] = "0"
      BY <1>6, <3>1
    <3> QED BY <2>2, <2>5, <3>4, <3>5, <3>6, <3>7 DEF w
  <2>6. l = 0 \/ l = 1 \/ l >= 2
    <3> HIDE DEF l
    <3> QED BY <1>1
  <2> QED BY <2>3, <2>4, <2>5, <2>6, Zenon
<1>10. n < 10 \/ n >= 10
  OBVIOUS
<1> QED BY <1>8, <1>9, <1>10, Zenon

(* The figures of a number, and how many there are.                        *)
LEMMA FiguresText ==
  ASSUME NEW n \in 1 .. 99
  PROVE  /\ Figures(n) \in Seq(Any)
         /\ n < 10 => Len(Figures(n)) = 1 /\ Figures(n)[1] = Arabic[n]
         /\ n >= 10 => /\ Len(Figures(n)) = 2 /\ n \div 10 \in 1 .. 9 /\ n % 10 \in 0 .. 9
                       /\ Figures(n)[1] = Arabic[n \div 10] /\ Figures(n)[2] = Figure(n % 10)
<1>1. \A m \in 0 .. 9 : Figure(m) \in Any
  BY GlyphsAreSymbols DEF Figure
<1>2. \A m \in 1 .. 9 : Figure(m) = Arabic[m]
  BY DEF Figure
<1>3. CASE n < 10
  BY <1>1, <1>2, <1>3 DEF Figures
<1>4. CASE n >= 10
  <2>1. n \div 10 \in 1 .. 9 /\ n % 10 \in 0 .. 9
    BY <1>4
  <2> DEFINE a == n \div 10
             b == n % 10
  <2>2. a \in 1 .. 9 /\ b \in 0 .. 9 /\ a \in 0 .. 9
    BY <2>1
  <2>3. Figures(n) = <<Figure(a), Figure(b)>>
    BY <1>4 DEF Figures
  <2> HIDE DEF a, b
  <2>4. Figure(a) \in Any /\ Figure(b) \in Any /\ Figure(a) = Arabic[a]
    BY <1>1, <1>2, <2>2
  <2>5. /\ Figures(n) \in Seq(Any) /\ Len(Figures(n)) = 2
        /\ Figures(n)[1] = Arabic[a] /\ Figures(n)[2] = Figure(b)
    BY <2>3, <2>4
  <2> QED BY <1>4, <2>1, <2>5 DEF a, b
<1>5. n < 10 \/ n >= 10
  OBVIOUS
<1> QED BY <1>3, <1>4, <1>5

(* The texts of Zeros are made of zeros.                                   *)
LEMMA ZeroTexts ==
  ASSUME NEW z \in Zeros
  PROVE  z \in Seq(Any) /\ Len(z) \in Nat /\ \A i \in 1 .. Len(z) : z[i] = "0"
<1>1. PICK k \in 0 .. MaxLen : z = [i \in 1 .. k |-> "0"]
  BY DEF Zeros
<1>2. k \in Nat /\ "0" \in Any
  BY <1>1, GlyphsAreSymbols, CommandsAssumption
<1>3. z \in [1 .. k -> Any] /\ \A i \in 1 .. k : z[i] = "0"
  BY <1>1, <1>2
<1>4. z \in Seq(Any) /\ Len(z) = k
  BY <1>2, <1>3
<1> QED BY <1>2, <1>3, <1>4

(* There is one of each length up to the bound.                            *)
LEMMA ZeroTextOf ==
  ASSUME NEW k \in 0 .. MaxLen
  PROVE  \E z \in Zeros : z \in Seq(Any) /\ Len(z) = k /\ \A i \in 1 .. k : z[i] = "0"
<1> DEFINE z == [i \in 1 .. k |-> "0"]
<1>1. z \in Zeros
  BY DEF Zeros
<1>2. k \in Nat /\ "0" \in Any
  BY GlyphsAreSymbols, CommandsAssumption
<1>3. z \in [1 .. k -> Any] /\ \A i \in 1 .. k : z[i] = "0"
  BY <1>2
<1> HIDE DEF z
<1>4. z \in Seq(Any) /\ Len(z) = k
  BY <1>2, <1>3
<1> QED BY <1>1, <1>3, <1>4

(* A text ends in the figures of n exactly if it is some zeros and then\nthese figures. *)
LEMMA EndsAreFigures ==
  ASSUME NEW d \in Seq(Any), Len(d) <= MaxLen, NEW n \in 1 .. 99
  PROVE  (\E z \in Zeros : d = z \o Figures(n)) <=> Ends(d, n)
<1> DEFINE l == Len(d)
           f == Figures(n)
           m == Len(f)
<1>1. l \in Nat /\ MaxLen \in Nat
  BY EmptySeq, CommandsAssumption
<1>2. f \in Seq(Any) /\ m \in {1, 2} /\ (n < 10 => m = 1) /\ (n >= 10 => m = 2)
  <2>1. n < 10 \/ n >= 10
    OBVIOUS
  <2>2. f \in Seq(Any) /\ (n < 10 => m = 1) /\ (n >= 10 => m = 2)
    BY FiguresText, Zenon
  <2> HIDE DEF f, m
  <2> QED BY <2>1, <2>2
<1>3. Ends(d, n) <=> m <= l /\ (\A k \in 1 .. l - m : d[k] = "0")
                            /\ (\A k \in 1 .. m : d[(l - m) + k] = f[k])
  <2>1. CASE n < 10
    <3>1. m = 1 /\ f[1] = Arabic[n]
      BY <2>1, FiguresText
    <3>2. (\A k \in 1 .. 1 : d[(l - 1) + k] = f[k]) <=> d[l] = Arabic[n]
      <4>1. (l - 1) + 1 = l
        BY <1>1
      <4> HIDE DEF l, f
      <4> QED BY <3>1, <4>1
    <3> HIDE DEF f, m
    <3> QED BY <2>1, <3>1, <3>2 DEF Ends
  <2>2. CASE n >= 10
    <3>1. m = 2 /\ f[1] = Arabic[n \div 10] /\ f[2] = Figure(n % 10)
      BY <2>2, FiguresText
    <3>2. (\A k \in 1 .. 2 : d[(l - 2) + k] = f[k])
             <=> d[l - 1] = Arabic[n \div 10] /\ d[l] = Figure(n % 10)
      <4>1. (l - 2) + 1 = l - 1 /\ (l - 2) + 2 = l
        BY <1>1
      <4>2. (\A k \in 1 .. 2 : d[(l - 2) + k] = f[k])
               <=> d[(l - 2) + 1] = f[1] /\ d[(l - 2) + 2] = f[2]
        <5> HIDE DEF l, f
        <5>1. \A k : k \in 1 .. 2 <=> k = 1 \/ k = 2
          OBVIOUS
        <5> QED BY <5>1, Zenon
      <4> HIDE DEF l, f
      <4> QED BY <3>1, <4>1, <4>2
    <3>3. ~ (n < 10)
      BY <2>2
    <3> HIDE DEF f, m
    <3> QED BY <3>1, <3>2, <3>3 DEF Ends
  <2>3. n < 10 \/ n >= 10
    OBVIOUS
  <2> QED BY <2>1, <2>2, <2>3
<1> HIDE DEF f, m
<1>4. ASSUME NEW z \in Zeros, d = z \o f PROVE Ends(d, n)
  <2>1. z \in Seq(Any) /\ Len(z) \in Nat /\ \A i \in 1 .. Len(z) : z[i] = "0"
    BY ZeroTexts
  <2>2. /\ l = Len(z) + m
        /\ \A i \in 1 .. Len(z) + m : d[i] = IF i <= Len(z) THEN z[i] ELSE f[i - Len(z)]
    BY <1>2, <1>4, <2>1, ConcatProperties DEF m
  <2> HIDE DEF l
  <2>3. l - m = Len(z) /\ m <= l
    BY <1>2, <2>1, <2>2
  <2>4. \A k \in 1 .. l - m : d[k] = "0"
    BY <1>2, <2>1, <2>2, <2>3
  <2>5. ASSUME NEW k \in 1 .. m PROVE d[(l - m) + k] = f[k]
    <3> DEFINE i == Len(z) + k
    <3>1. i \in 1 .. Len(z) + m /\ ~ (i <= Len(z)) /\ i - Len(z) = k
      BY <1>2, <2>1
    <3>2. d[i] = IF i <= Len(z) THEN z[i] ELSE f[i - Len(z)]
      BY <2>2, <3>1
    <3>3. d[i] = f[k]
      BY <3>1, <3>2
    <3> QED BY <2>3, <3>3
  <2> QED BY <1>3, <2>3, <2>4, <2>5
<1>5. ASSUME Ends(d, n) PROVE \E z \in Zeros : d = z \o f
  <2>1. l - m \in 0 .. MaxLen
    BY <1>1, <1>2, <1>3, <1>5
  <2>2. PICK z \in Zeros : z \in Seq(Any) /\ Len(z) = l - m /\ \A i \in 1 .. l - m : z[i] = "0"
    BY <2>1, ZeroTextOf
  <2>3. /\ z \o f \in Seq(Any)
        /\ Len(z \o f) = (l - m) + m
        /\ \A i \in 1 .. (l - m) + m : (z \o f)[i] = IF i <= l - m THEN z[i] ELSE f[i - (l - m)]
    BY <1>2, <2>2, ConcatProperties DEF m
  <2>4. (l - m) + m = l
    BY <1>1, <1>2
  <2>5. ASSUME NEW i \in 1 .. l PROVE d[i] = (z \o f)[i]
    <3>1. CASE i <= l - m
      <4>1. i \in 1 .. l - m
        BY <1>1, <1>2, <3>1
      <4>2. d[i] = "0" /\ z[i] = "0"
        BY <1>3, <1>5, <2>2, <4>1
      <4> QED BY <2>3, <2>4, <3>1, <4>2
    <3>2. CASE ~ (i <= l - m)
      <4> DEFINE k == i - (l - m)
      <4>1. k \in 1 .. m /\ (l - m) + k = i
        BY <1>1, <1>2, <3>2
      <4>2. d[(l - m) + k] = f[k]
        BY <1>3, <1>5, <4>1
      <4>3. (z \o f)[i] = f[k]
        BY <2>3, <2>4, <3>2
      <4> HIDE DEF k
      <4> QED BY <4>1, <4>2, <4>3
    <3> QED BY <3>1, <3>2
  <2>6. d = z \o f
    <3> DEFINE e == z \o f
    <3>1. e \in Seq(Any) /\ Len(e) = Len(d) /\ \A i \in 1 .. Len(d) : d[i] = e[i]
      BY <2>3, <2>4, <2>5
    <3> HIDE DEF e
    <3>2. d = e
      BY <3>1, SeqEqual
    <3> QED BY <3>2 DEF e
  <2> QED BY <2>2, <2>6
<1> QED BY <1>4, <1>5 DEF f

(* A digit, of a number.                                                   *)
ADigit(s) == s = "0" \/ Place(Arabic, s) # 0

(* Every figure is a digit.                                                *)
LEMMA FigureIsDigit == \A m \in 0 .. 9 : ADigit(Figure(m)) /\ (m # 0 => ADigit(Arabic[m]))
<1> SUFFICES ASSUME NEW m \in 0 .. 9 PROVE ADigit(Figure(m)) /\ (m # 0 => ADigit(Arabic[m]))
  OBVIOUS
<1>1. CASE m = 0
  BY <1>1 DEF Figure, ADigit
<1>2. CASE m # 0
  <2>1. m \in 1 .. 9
    BY <1>2
  <2>2. Place(Arabic, Arabic[m]) = m
    BY <2>1, PlaceOfArabic
  <2> QED BY <1>2, <2>2 DEF Figure, ADigit
<1> QED BY <1>1, <1>2

(* Such a text is made of digits.                                          *)
LEMMA EndsAreDigits ==
  ASSUME NEW d \in Seq(Any), NEW n \in 1 .. 99, Ends(d, n)
  PROVE  Digits(d) /\ d # <<>>
<1> DEFINE l == Len(d)
<1>1. DOMAIN d = 1 .. l /\ l \in Nat
  BY LenProperties
<1>2. Digits(d) <=> \A k \in 1 .. l : ADigit(d[k])
  BY <1>1 DEF Digits, ADigit
<1>3. ADigit("0")
  BY DEF ADigit
<1>4. CASE n < 10
  <2>1. 1 <= l /\ d[l] = Arabic[n] /\ \A k \in 1 .. l - 1 : d[k] = "0"
    BY <1>4 DEF Ends
  <2>2. ADigit(d[l])
    BY <1>4, <2>1, FigureIsDigit
  <2>3. \A k \in 1 .. l : k \in 1 .. l - 1 \/ k = l
    <3> HIDE DEF l
    <3> QED BY <1>1
  <2>4. d # <<>>
    BY <2>1
  <2> QED BY <1>2, <1>3, <2>1, <2>2, <2>3, <2>4, Zenon
<1>5. CASE n >= 10
  <2>0. n \div 10 \in 1 .. 9 /\ n % 10 \in 0 .. 9
    BY <1>5
  <2> DEFINE a == n \div 10
             b == n % 10
  <2>1. /\ 2 <= l /\ d[l] = Figure(b) /\ d[l - 1] = Arabic[a]
        /\ \A k \in 1 .. l - 2 : d[k] = "0"
    BY <1>5 DEF Ends
  <2>01. a \in 1 .. 9 /\ b \in 0 .. 9
    BY <2>0
  <2> HIDE DEF a, b
  <2>2. ADigit(d[l]) /\ ADigit(d[l - 1])
    BY <2>01, <2>1, FigureIsDigit
  <2>3. \A k \in 1 .. l : k \in 1 .. l - 2 \/ k = l \/ k = l - 1
    <3> HIDE DEF l
    <3> QED BY <1>1
  <2>4. d # <<>>
    BY <2>1
  <2> QED BY <1>2, <1>3, <2>1, <2>2, <2>3, <2>4, Zenon
<1>6. n < 10 \/ n >= 10
  OBVIOUS
<1> QED BY <1>4, <1>5, <1>6

(* The sign is none.                                                       *)
LEMMA PlusIsNoDigit == ~ ADigit("+")
<1>1. \A i \in 1 .. 9 : Arabic[i] # "+"
  BY DEF Arabic
<1> QED BY <1>1, Zenon DEF ADigit, Place

-----------------------------------------------------------------------------
(* Numbers in digits.                                                      *)

(* Without its sign, a text is still one.                                  *)
LEMMA UnsignedText ==
  ASSUME NEW t \in Seq(Any)
  PROVE  /\ Unsigned(t) \in Seq(Any) /\ Len(Unsigned(t)) <= Len(t)
         /\ Begins(t, <<"+">>) <=> t # <<>> /\ t[1] = "+"
<1>1. "+" \in Any
  BY GlyphsAreSymbols
<1>2. /\ Begins(t, <<"+">>) <=> t # <<>> /\ t[1] = "+"
      /\ t # <<>> => Tail(t) \in Seq(Any) /\ Len(Tail(t)) = Len(t) - 1
  BY <1>1, FirstOf
<1>3. Len(t) \in Nat
  BY EmptySeq
<1> QED BY <1>2, <1>3 DEF Unsigned

(* What is read in digits is a natural number.                             *)
LEMMA DecimalIsNumber ==
  ASSUME NEW t \in Seq(Any)
  PROVE  Decimal(t) \in Nat
<1> DEFINE d == Unsigned(t)
<1>1. d \in Seq(Any)
  BY UnsignedText
<1> HIDE DEF d
<1>2. Len(d) \in 0 .. Len(d)
  BY <1>1, EmptySeq
<1>3. Worth(d)[Len(d)] \in Nat
  BY <1>1, <1>2, WorthRecursion
<1> QED BY <1>3, DecimalIsWorth DEF d

(* What is read as n, in digits, ends in the figures of n behind its sign. *)
LEMMA DecimalEnds ==
  ASSUME NEW t \in Seq(Any), NEW n \in 1 .. 99
  PROVE  Decimal(t) = n <=> Ends(Unsigned(t), n)
<1> DEFINE d == Unsigned(t)
<1>1. d \in Seq(Any)
  BY UnsignedText
<1>2. Decimal(t) = IF Digits(d) THEN Worth(d)[Len(d)] ELSE 0
  BY DecimalIsWorth
<1> HIDE DEF d
<1>3. CASE Digits(d)
  BY <1>1, <1>2, <1>3, WorthNumber DEF d
<1>4. CASE ~ Digits(d)
  <2>1. Decimal(t) = 0 /\ n # 0
    BY <1>2, <1>4
  <2>2. ~ Ends(d, n)
    BY <1>1, <1>4, EndsAreDigits, Zenon
  <2> QED BY <2>1, <2>2 DEF d
<1> QED BY <1>3, <1>4

(* What it is to be joined.                                                *)
LEMMA Joined ==
  ASSUME NEW A, NEW B, NEW t
  PROVE  t \in Join(A, B) <=> \E a \in A, b \in B : t = a \o b
BY DEF Join

(* Decimal reads what the figures of a number write.                       *)
LEMMA DecimalReads ==
  ASSUME NEW t \in Seq(Any), Len(t) <= MaxLen, NEW n \in 1 .. 99
  PROVE  Decimal(t) = n <=> t \in Decimals(n)
<1> DEFINE f == Figures(n)
<1>1. f \in Seq(Any) /\ "+" \in Any /\ <<"+">> \in Seq(Any) /\ <<>> \in Seq(Any)
  <2>1. f \in Seq(Any)
    BY FiguresText
  <2>2. "+" \in Any
    BY GlyphsAreSymbols
  <2> HIDE DEF f
  <2> QED BY <2>1, <2>2
<1>2. Len(t) \in Nat /\ MaxLen \in Nat
  BY EmptySeq, CommandsAssumption
<1> DEFINE D == Join(Zeros, {f})
<1>3. Decimals(n) = Join({<<>>, <<"+">>}, D)
  BY DEF Decimals
<1> HIDE DEF f
<1>4. \A u : u \in D <=> \E z \in Zeros : u = z \o f
  <2> DEFINE F == {f}
  <2>1. \A v : v \in F <=> v = f
    OBVIOUS
  <2> HIDE DEF F
  <2>2. \A u : u \in Join(Zeros, F) <=> \E z \in Zeros, v \in F : u = z \o v
    BY Joined
  <2>3. \A u : u \in Join(Zeros, F) <=> \E z \in Zeros : u = z \o f
    <3>1. ASSUME NEW u, u \in Join(Zeros, F) PROVE \E z \in Zeros : u = z \o f
      <4>1. PICK z \in Zeros, v \in F : u = z \o v
        BY <2>2, <3>1
      <4>2. v = f
        BY <2>1
      <4> QED BY <4>1, <4>2
    <3>2. ASSUME NEW u, NEW z \in Zeros, u = z \o f PROVE u \in Join(Zeros, F)
      <4>1. f \in F
        BY <2>1
      <4> QED BY <2>2, <3>2, <4>1
    <3> QED BY <3>1, <3>2, Zenon
  <2> QED BY <2>3 DEF F
<1>5. \A u \in D : u \in Seq(Any)
  <2> SUFFICES ASSUME NEW u \in D PROVE u \in Seq(Any)
    OBVIOUS
  <2> HIDE DEF D
  <2>1. PICK z \in Zeros : u = z \o f
    BY <1>4
  <2>2. z \in Seq(Any)
    BY ZeroTexts
  <2> QED BY <1>1, <2>1, <2>2, ConcatProperties
<1> HIDE DEF D
<1>6. t \in Decimals(n) <=> (\E u \in D : t = <<>> \o u) \/ (\E u \in D : t = <<"+">> \o u)
  <2> DEFINE P == {<<>>, <<"+">>}
  <2>2. \A p : p \in P <=> p = <<>> \/ p = <<"+">>
    OBVIOUS
  <2> HIDE DEF P
  <2>1. t \in Join(P, D) <=> \E p \in P, u \in D : t = p \o u
    BY Joined
  <2>3. t \in Join(P, D) <=> (\E u \in D : t = <<>> \o u) \/ (\E u \in D : t = <<"+">> \o u)
    BY <2>1, <2>2, Zenon
  <2> QED BY <1>3, <2>3 DEF P
<1>7. (\E u \in D : t = <<>> \o u) <=> t \in D
  BY <1>5, ConcatEmptySeq
<1>8. (\E u \in D : t = <<"+">> \o u) <=> t # <<>> /\ t[1] = "+" /\ Tail(t) \in D
  <2>1. \A u \in D : t = <<"+">> \o u <=> t # <<>> /\ t[1] = "+" /\ Tail(t) = u
    BY <1>1, <1>5, FirstOf
  <2> QED BY <2>1, Zenon
<1>9. t \in D <=> Ends(t, n)
  <2>1. (\E z \in Zeros : t = z \o f) <=> Ends(t, n)
    BY EndsAreFigures DEF f
  <2> QED BY <1>4, <2>1
<1>10. CASE t # <<>> /\ t[1] = "+"
  <2>1. Begins(t, <<"+">>) /\ Unsigned(t) = Tail(t)
    BY <1>10, UnsignedText DEF Unsigned
  <2>2. Tail(t) \in Seq(Any) /\ Len(Tail(t)) <= MaxLen
    BY <1>1, <1>2, <1>10, FirstOf
  <2>3. Tail(t) \in D <=> Ends(Tail(t), n)
    <3>1. (\E z \in Zeros : Tail(t) = z \o f) <=> Ends(Tail(t), n)
      BY <2>2, EndsAreFigures DEF f
    <3> QED BY <1>4, <3>1
  <2>4. ~ Ends(t, n)
    <3> SUFFICES ASSUME Ends(t, n) PROVE FALSE
      OBVIOUS
    <3>0. Len(t) >= 1 /\ DOMAIN t = 1 .. Len(t)
      BY <1>10, EmptySeq, LenProperties
    <3>1. Digits(t)
      BY EndsAreDigits
    <3>3. 1 \in DOMAIN t
      BY <1>2, <3>0
    <3>2. ADigit(t[1])
      BY <3>1, <3>3, Zenon DEF Digits, ADigit
    <3> QED BY <1>10, <3>2, PlusIsNoDigit, Zenon
  <2> QED BY <1>8, <1>9, <1>10, <1>6, <1>7, <2>1, <2>3, <2>4, DecimalEnds
<1>11. CASE ~ (t # <<>> /\ t[1] = "+")
  <2>1. Unsigned(t) = t
    BY <1>11, UnsignedText DEF Unsigned
  <2> QED BY <1>6, <1>7, <1>8, <1>9, <1>11, <2>1, DecimalEnds
<1> QED BY <1>10, <1>11

(* A text that begins with neither a digit nor a sign is no number in      *)
(* digits.                                                                 *)
LEMMA NoDecimal ==
  ASSUME NEW t \in Seq(Any), t # <<>>, ~ ADigit(t[1]), t[1] # "+"
  PROVE  Decimal(t) = 0
<1>1. Unsigned(t) = t
  BY UnsignedText DEF Unsigned
<1>2. 1 \in DOMAIN t
  BY LenProperties, EmptySeq
<1>3. ~ Digits(t)
  BY <1>2 DEF Digits, ADigit
<1> QED BY <1>1, <1>3, DecimalIsWorth

-----------------------------------------------------------------------------
(* Chinese numbers.                                                        *)

(* The worth of a symbol as a digit.                                       *)
DigitOf(s) == IF s = "liang" THEN 2 ELSE Place(Han, s)

(* A Chinese numeral counts at most 9.                                     *)
LEMMA DigitOfRange == ASSUME NEW s PROVE DigitOf(s) \in 0 .. 9
<1>1. Place(Han, s) \in 0 .. 9
  BY PlaceOfHan
<1> QED BY <1>1 DEF DigitOf

(* Ten is not one of them.                                                 *)
LEMMA DigitOfTen == DigitOf("shi") = 0
<1>1. \A i \in 1 .. 9 : Han[i] # "shi"
  BY DEF Han
<1> QED BY <1>1, Zenon DEF DigitOf, Place

(* chinese_digit_value, of one symbol.                                     *)
LEMMA ChineseDigitOf ==
  ASSUME NEW t \in Seq(Any)
  PROVE  ChineseDigit(t) = IF Len(t) = 1 THEN DigitOf(t[1]) ELSE 0
<1>1. CASE Len(t) = 1
  <2>1. "liang" \in Any
    BY GlyphsAreSymbols
  <2>2. t = <<"liang">> <=> t[1] = "liang"
    BY <1>1, <2>1, OneSymbol
  <2> QED BY <1>1, <2>2 DEF ChineseDigit, DigitOf
<1>2. CASE Len(t) # 1
  BY <1>2 DEF ChineseDigit
<1> QED BY <1>1, <1>2

(* The ways to write a digit.                                              *)
LEMMA DigitTexts ==
  ASSUME NEW n \in 1 .. 9
  PROVE  /\ \A x \in Digit(n) : x \in Seq(Any) /\ Len(x) = 1 /\ DigitOf(x[1]) = n
         /\ \A s : DigitOf(s) = n => <<s>> \in Digit(n)
<1>1. Han[n] # "liang" /\ (\A s : Place(Han, s) = n <=> s = Han[n]) /\ Han[2] = "er"
  <2>1. \A i \in 1 .. 9 : Han[i] # "liang"
    BY DEF Han
  <2> QED BY <2>1, PlaceOfHan DEF Han
<1>2. Han[n] \in Any /\ "liang" \in Any
  BY GlyphsAreSymbols
<1>3. DigitOf(Han[n]) = n /\ DigitOf("liang") = 2
  BY <1>1 DEF DigitOf
<1>4. ASSUME NEW x \in Digit(n) PROVE x \in Seq(Any) /\ Len(x) = 1 /\ DigitOf(x[1]) = n
  <2>1. x = <<Han[n]>> \/ (n = 2 /\ x = <<"liang">>)
    BY DEF Digit
  <2>2. CASE x = <<Han[n]>>
    <3> DEFINE h == Han[n]
    <3>1. h \in Any /\ DigitOf(h) = n /\ x = <<h>>
      BY <1>2, <1>3, <2>2
    <3> HIDE DEF h
    <3> QED BY <3>1
  <2>3. CASE n = 2 /\ x = <<"liang">>
    <3>1. x \in Seq(Any) /\ Len(x) = 1 /\ x[1] = "liang"
      BY <1>2, <2>3
    <3> QED BY <1>3, <2>3, <3>1
  <2> QED BY <2>1, <2>2, <2>3
<1>5. ASSUME NEW s, DigitOf(s) = n PROVE <<s>> \in Digit(n)
  <2>1. CASE s = "liang"
    BY <1>3, <1>5, <2>1 DEF Digit
  <2>2. CASE s # "liang"
    BY <1>1, <1>5, <2>2 DEF Digit, DigitOf
  <2> QED BY <2>1, <2>2
<1> QED BY <1>4, <1>5

-----------------------------------------------------------------------------
(* Numbers in Chinese.                                                     *)

(* A text is cut in two.                                                   *)
LEMMA CutInTwo ==
  ASSUME NEW x \in Seq(Any), NEW k \in 0 .. Len(x)
  PROVE  \E u, v \in Seq(Any) :
           /\ x = u \o v /\ Len(u) = k /\ Len(v) = Len(x) - k
           /\ \A i \in 1 .. k : u[i] = x[i]
           /\ \A i \in 1 .. Len(x) - k : v[i] = x[k + i]
<1> DEFINE l == Len(x)
           u == SubSeq(x, 1, k)
           v == SubSeq(x, k + 1, l)
<1>1. l \in Nat
  BY EmptySeq
<1>2. u \in Seq(Any) /\ Len(u) = k /\ \A i \in 1 .. k : u[i] = x[i]
  BY PrefixOf
<1>3. v \in Seq(Any) /\ Len(v) = l - k /\ \A i \in 1 .. l - k : v[i] = x[k + i]
  <2>1. /\ k + 1 \in 1 .. Len(x) + 1 /\ Len(x) \in (k + 1) - 1 .. Len(x)
        /\ (Len(x) - (k + 1)) + 1 = Len(x) - k
    <3> HIDE DEF l
    <3>1. Len(x) = l
      BY DEF l
    <3> QED BY <1>1, <3>1
  <2>2. /\ v \in Seq(Any)
        /\ Len(v) = Len(x) - k
        /\ \A i \in 1 .. Len(x) - k : v[i] = x[((k + 1) + i) - 1]
    BY <2>1, PartOf
  <2>3. \A i \in 1 .. Len(x) - k : ((k + 1) + i) - 1 = k + i
    OBVIOUS
  <2> HIDE DEF v
  <2> QED BY <2>2, <2>3
<1>4. u \o v = x
  <2>1. /\ 1 \in 1 .. Len(x) + 1 /\ k \in 1 - 1 .. Len(x) /\ Len(x) \in k .. Len(x)
    BY <1>1
  <2>2. u \o v = SubSeq(x, 1, Len(x))
    BY <2>1, ConcatAdjacentSubSeq
  <2> QED BY <2>2, SubSeqFull
<1> HIDE DEF u, v, l
<1>5. Len(x) = l
  BY DEF l
<1> QED BY <1>2, <1>3, <1>4, <1>5

TensText(u, a) ==
  IF a = 0 THEN u = <<>>
    ELSE \/ a = 1 /\ Len(u) = 1 /\ u[1] = "shi"
         \/ Len(u) = 2 /\ u[2] = "shi" /\ DigitOf(u[1]) = a

OnesText(v, b) ==
  IF b = 0 THEN v = <<>> ELSE Len(v) = 1 /\ DigitOf(v[1]) = b

(* The ways to write the ones, symbol by symbol.                           *)
LEMMA OnesTexts ==
  ASSUME NEW b \in 0 .. 9, NEW v
  PROVE  v \in Ones(b) <=> v \in Seq(Any) /\ OnesText(v, b)
<1>1. CASE b = 0
  BY <1>1, EmptySeq DEF Ones, OnesText
<1>2. CASE b # 0
  <2>1. b \in 1 .. 9 /\ Ones(b) = Digit(b)
    BY <1>2 DEF Ones
  <2>2. ASSUME v \in Digit(b) PROVE v \in Seq(Any) /\ OnesText(v, b)
    BY <1>2, <2>1, <2>2, DigitTexts DEF OnesText
  <2>3. ASSUME v \in Seq(Any), OnesText(v, b) PROVE v \in Digit(b)
    <3>1. Len(v) = 1 /\ DigitOf(v[1]) = b
      BY <1>2, <2>3 DEF OnesText
    <3>2. v[1] \in Any
      BY <2>3, <3>1, ElementOfSeq
    <3>3. v = <<v[1]>>
      BY <2>3, <3>1, <3>2, OneSymbol
    <3>4. <<v[1]>> \in Digit(b)
      BY <2>1, <3>1, DigitTexts
    <3> QED BY <3>3, <3>4
  <2> QED BY <2>1, <2>2, <2>3
<1> QED BY <1>1, <1>2

(* A sequence of length two, by its elements.                              *)
LEMMA TwoSymbols ==
  ASSUME NEW u \in Seq(Any), Len(u) = 2
  PROVE  /\ u[1] \in Any /\ u[2] \in Any /\ u = <<u[1]>> \o <<u[2]>> /\ u = <<u[1], u[2]>>
<1>1. u[1] \in Any /\ u[2] \in Any
  BY ElementOfSeq
<1> DEFINE a == u[1]
           b == u[2]
<1>2. a \in Any /\ b \in Any /\ u[1] = a /\ u[2] = b
  BY <1>1
<1> HIDE DEF a, b
<1>3. <<a, b>> \in Seq(Any) /\ Len(<<a, b>>) = 2 /\ <<a, b>>[1] = a /\ <<a, b>>[2] = b
  BY <1>2
<1>4. u = <<a, b>>
  <2> DEFINE v == <<a, b>>
  <2>1. v \in Seq(Any) /\ Len(v) = 2 /\ v[1] = a /\ v[2] = b
    BY <1>3
  <2> HIDE DEF v
  <2>2. \A i \in 1 .. Len(u) : u[i] = v[i]
    BY <1>2, <2>1
  <2>3. u = v
    BY <2>1, <2>2, SeqEqual
  <2> QED BY <2>3 DEF v
<1>5. <<a>> \o <<b>> = <<a, b>>
  <2> DEFINE v == <<a, b>>
             s == <<a>>
             r == <<b>>
  <2>1. /\ v \in Seq(Any) /\ Len(v) = 2 /\ v[1] = a /\ v[2] = b
        /\ s \in Seq(Any) /\ Len(s) = 1 /\ s[1] = a
        /\ r \in Seq(Any) /\ Len(r) = 1 /\ r[1] = b
    BY <1>2, <1>3
  <2> HIDE DEF v, s, r
  <2>2. s \o r \in Seq(Any) /\ Len(s \o r) = 1 + 1 /\ (s \o r)[1] = a /\ (s \o r)[2] = b
    <3>1. /\ s \o r \in Seq(Any) /\ Len(s \o r) = 1 + 1
          /\ \A i \in 1 .. 1 + 1 : (s \o r)[i] = IF i <= 1 THEN s[i] ELSE r[i - 1]
      BY <2>1, ConcatProperties
    <3> QED BY <2>1, <3>1
  <2>3. s \o r = v
    <3> DEFINE c == s \o r
    <3>1. c \in Seq(Any) /\ Len(c) = 2 /\ c[1] = a /\ c[2] = b
      BY <2>2
    <3> HIDE DEF c
    <3>2. \A i \in 1 .. Len(c) : c[i] = v[i]
      BY <2>1, <3>1
    <3>3. c = v
      BY <2>1, <3>1, <3>2, SeqEqual
    <3> QED BY <3>3 DEF c
  <2> QED BY <2>3 DEF v, s, r
<1> QED BY <1>2, <1>4, <1>5 DEF a, b

(* The ways to write the tens, symbol by symbol.                           *)
LEMMA TensTexts ==
  ASSUME NEW a \in 0 .. 9, NEW u
  PROVE  u \in Tens(a) <=> u \in Seq(Any) /\ TensText(u, a)
<1>1. CASE a = 0
  <2>1. Tens(a) = {<<>>}
    BY <1>1 DEF Tens
  <2>2. TensText(u, a) <=> u = <<>>
    BY <1>1 DEF TensText
  <2> QED BY <2>1, <2>2, EmptySeq
<1>s. "shi" \in Any /\ <<"shi">> \in Seq(Any)
  <2>1. "shi" \in Any
    BY GlyphsAreSymbols
  <2> QED BY <2>1
<1>t. ASSUME a \in 1 .. 9
      PROVE  u \in Join(Digit(a), {<<"shi">>})
               <=> u \in Seq(Any) /\ Len(u) = 2 /\ u[2] = "shi" /\ DigitOf(u[1]) = a
  <2> DEFINE T == {<<"shi">>}
  <2>0. \A w : w \in T <=> w = <<"shi">>
    OBVIOUS
  <2> HIDE DEF T
  <2>1. u \in Join(Digit(a), T) <=> \E x \in Digit(a), w \in T : u = x \o w
    BY Joined
  <2>2. ASSUME NEW x \in Digit(a), u = x \o <<"shi">>
        PROVE  u \in Seq(Any) /\ Len(u) = 2 /\ u[2] = "shi" /\ DigitOf(u[1]) = a
    <3>1. x \in Seq(Any) /\ Len(x) = 1 /\ DigitOf(x[1]) = a
      BY <1>t, DigitTexts
    <3> DEFINE w == <<"shi">>
    <3>2. w \in Seq(Any) /\ Len(w) = 1 /\ w[1] = "shi" /\ u = x \o w
      BY <1>s, <2>2
    <3> HIDE DEF w
    <3>3. u \in Seq(Any) /\ Len(u) = 1 + 1 /\ u[1] = x[1] /\ u[2] = w[1]
      <4>1. /\ x \o w \in Seq(Any) /\ Len(x \o w) = 1 + 1
            /\ \A i \in 1 .. 1 + 1 : (x \o w)[i] = IF i <= 1 THEN x[i] ELSE w[i - 1]
        BY <3>1, <3>2, ConcatProperties
      <4> QED BY <3>2, <4>1
    <3> QED BY <3>1, <3>2, <3>3
  <2>3. ASSUME u \in Seq(Any), Len(u) = 2, u[2] = "shi", DigitOf(u[1]) = a
        PROVE  \E x \in Digit(a) : u = x \o <<"shi">>
    <3>1. <<u[1]>> \in Digit(a)
      BY <1>t, <2>3, DigitTexts
    <3>2. u = <<u[1]>> \o <<"shi">>
      BY <2>3, TwoSymbols
    <3> QED BY <3>1, <3>2
  <2>4. u \in Join(Digit(a), T) <=> \E x \in Digit(a) : u = x \o <<"shi">>
    <3>1. ASSUME u \in Join(Digit(a), T) PROVE \E x \in Digit(a) : u = x \o <<"shi">>
      BY <2>0, <2>1, <3>1
    <3>2. ASSUME NEW x \in Digit(a), u = x \o <<"shi">> PROVE u \in Join(Digit(a), T)
      BY <2>0, <2>1, <3>2
    <3> QED BY <3>1, <3>2
  <2>5. u \in Join(Digit(a), T)
           <=> u \in Seq(Any) /\ Len(u) = 2 /\ u[2] = "shi" /\ DigitOf(u[1]) = a
    BY <2>2, <2>3, <2>4
  <2> QED BY <2>5 DEF T
<1>2. CASE a = 1
  <2>1. \A s : DigitOf(s) = 1 <=> s = "yi"
    <3>1. \A s : Place(Han, s) = 1 <=> s = Han[1]
      BY PlaceOfHan
    <3>2. Han[1] = "yi" /\ Place(Han, "yi") = 1
      BY <3>1 DEF Han
    <3> QED BY <3>1, <3>2 DEF DigitOf
  <2>2. "yi" \in Any
    BY GlyphsAreSymbols DEF Han
  <2>3. u \in Tens(a) <=> u = <<"shi">> \/ u = <<"yi", "shi">>
    BY <1>2 DEF Tens
  <2>4. u = <<"shi">> <=> u \in Seq(Any) /\ Len(u) = 1 /\ u[1] = "shi"
    <3>1. u = <<"shi">> => u \in Seq(Any) /\ Len(u) = 1 /\ u[1] = "shi"
      BY <1>s
    <3> QED BY <1>s, <3>1, OneSymbol
  <2>5. u = <<"yi", "shi">> <=> u \in Seq(Any) /\ Len(u) = 2 /\ u[2] = "shi" /\ u[1] = "yi"
    <3>1. u = <<"yi", "shi">> => u \in Seq(Any) /\ Len(u) = 2 /\ u[2] = "shi" /\ u[1] = "yi"
      BY <1>s, <2>2
    <3> QED BY <3>1, TwoSymbols
  <2>6. TensText(u, a) <=> \/ Len(u) = 1 /\ u[1] = "shi"
                           \/ Len(u) = 2 /\ u[2] = "shi" /\ u[1] = "yi"
    BY <1>2, <2>1 DEF TensText
  <2> QED BY <2>3, <2>4, <2>5, <2>6
<1>3. CASE a \notin {0, 1}
  <2>1. Tens(a) = Join(Digit(a), {<<"shi">>}) /\ a \in 1 .. 9
    BY <1>3 DEF Tens
  <2>2. TensText(u, a) <=> Len(u) = 2 /\ u[2] = "shi" /\ DigitOf(u[1]) = a
    BY <1>3 DEF TensText
  <2> QED BY <1>t, <2>1, <2>2
<1> QED BY <1>1, <1>2, <1>3

(* A number in Chinese, symbol by symbol.                                  *)
ChineseText(x, n) ==
  \/ Len(x) = 1 /\ x[1] = "shi" /\ n = 10
  \/ Len(x) = 1 /\ DigitOf(x[1]) = n
  \/ Len(x) = 2 /\ x[1] = "shi" /\ DigitOf(x[2]) # 0 /\ n = 10 + DigitOf(x[2])
  \/ Len(x) = 2 /\ x[2] = "shi" /\ DigitOf(x[1]) # 0 /\ n = 10 * DigitOf(x[1])
  \/ /\ Len(x) = 3 /\ x[2] = "shi" /\ DigitOf(x[1]) # 0 /\ DigitOf(x[3]) # 0
     /\ n = 10 * DigitOf(x[1]) + DigitOf(x[3])

(* Quotient and remainder, of tens and ones.                               *)
LEMMA TensOfSum ==
  ASSUME NEW n \in 1 .. 99, NEW a \in 0 .. 9, NEW b \in 0 .. 9
  PROVE  n = 10 * a + b <=> n \div 10 = a /\ n % 10 = b
OBVIOUS

(* The ways to write a number in Chinese, symbol by symbol.                *)
LEMMA ChineseTexts ==
  ASSUME NEW n \in 1 .. 99, NEW x \in Seq(Any)
  PROVE  x \in Chinese(n) <=> ChineseText(x, n)
<1> DEFINE a == n \div 10
           b == n % 10
<1>1. a \in 0 .. 9 /\ b \in 0 .. 9 /\ n = 10 * a + b
  OBVIOUS
<1>2. x \in Chinese(n) <=> \E u \in Tens(a), v \in Ones(b) : x = u \o v
  <2>1. Chinese(n) = Join(Tens(a), Ones(b))
    BY DEF Chinese
  <2> HIDE DEF a, b
  <2> QED BY <2>1, Joined
<1> HIDE DEF a, b
<1>l. Len(x) \in Nat
  BY EmptySeq
<1>3. ASSUME NEW u \in Tens(a), NEW v \in Ones(b), x = u \o v PROVE ChineseText(x, n)
  <2>1. u \in Seq(Any) /\ TensText(u, a) /\ v \in Seq(Any) /\ OnesText(v, b)
    BY <1>1, TensTexts, OnesTexts
  <2>2. /\ Len(u) \in Nat /\ Len(v) \in Nat /\ Len(x) = Len(u) + Len(v)
        /\ \A i \in 1 .. Len(u) : x[i] = u[i]
        /\ \A i \in 1 .. Len(v) : x[Len(u) + i] = v[i]
    <3>0. Len(u) \in Nat /\ Len(v) \in Nat
      BY <2>1, EmptySeq
    <3>1. /\ Len(x) = Len(u) + Len(v)
          /\ \A i \in 1 .. Len(u) + Len(v) : x[i] = IF i <= Len(u) THEN u[i] ELSE v[i - Len(u)]
      BY <1>3, <2>1, ConcatProperties
    <3>2. \A i \in 1 .. Len(u) : x[i] = u[i]
      BY <3>0, <3>1
    <3>3. ASSUME NEW i \in 1 .. Len(v) PROVE x[Len(u) + i] = v[i]
      <4> DEFINE k == Len(u) + i
      <4>1. k \in 1 .. Len(u) + Len(v) /\ ~ (k <= Len(u)) /\ k - Len(u) = i
        BY <3>0
      <4> HIDE DEF k
      <4>2. x[k] = v[i]
        BY <3>1, <4>1
      <4> QED BY <4>2 DEF k
    <3> QED BY <3>0, <3>1, <3>2, <3>3
  <2>3. a = 0 => Len(u) = 0
    BY <2>1 DEF TensText
  <2>4. a # 0 => \/ a = 1 /\ Len(u) = 1 /\ u[1] = "shi"
                 \/ Len(u) = 2 /\ u[2] = "shi" /\ DigitOf(u[1]) = a
    BY <2>1 DEF TensText
  <2>5. b = 0 => Len(v) = 0
    BY <2>1 DEF OnesText
  <2>6. b # 0 => Len(v) = 1 /\ DigitOf(v[1]) = b
    BY <2>1 DEF OnesText
  <2>7. CASE a = 0
    <3>1. b # 0 /\ Len(u) = 0 /\ Len(v) = 1 /\ DigitOf(v[1]) = b /\ n = b
      BY <1>1, <2>3, <2>6, <2>7
    <3>2. Len(x) = 1 /\ x[1] = v[1]
      <4>1. Len(u) + 1 = 1
        BY <3>1
      <4>2. x[Len(u) + 1] = v[1]
        BY <2>2, <3>1
      <4>3. Len(x) = 1
        BY <2>2, <3>1
      <4> QED BY <4>1, <4>2, <4>3
    <3> QED BY <3>1, <3>2 DEF ChineseText
  <2>8. CASE a = 1 /\ Len(u) = 1 /\ u[1] = "shi"
    <3>1. x[1] = "shi"
      BY <2>2, <2>8
    <3>2. CASE b = 0
      <4>1. Len(x) = 1 /\ n = 10
        <5>1. Len(v) = 0 /\ Len(u) = 1
          BY <2>5, <2>8, <3>2
        <5>2. Len(x) = 1
          BY <2>2, <5>1
        <5>3. n = 10
          BY <1>1, <2>8, <3>2
        <5> QED BY <5>2, <5>3
      <4> QED BY <3>1, <4>1 DEF ChineseText
    <3>3. CASE b # 0
      <4>1. Len(x) = 2 /\ n = 10 + b /\ Len(v) = 1 /\ DigitOf(v[1]) = b
        <5>1. Len(v) = 1 /\ DigitOf(v[1]) = b /\ Len(u) = 1
          BY <2>6, <2>8, <3>3
        <5>2. Len(x) = 2
          BY <2>2, <5>1
        <5>3. n = 10 + b
          BY <1>1, <2>8
        <5> QED BY <5>1, <5>2, <5>3
      <4>2. x[2] = v[1]
        <5>1. Len(u) + 1 = 2
          BY <2>8
        <5>2. x[Len(u) + 1] = v[1]
          BY <2>2, <4>1
        <5> QED BY <5>1, <5>2
      <4> QED BY <3>1, <3>3, <4>1, <4>2 DEF ChineseText
    <3> QED BY <3>2, <3>3
  <2>9. CASE a # 0 /\ Len(u) = 2 /\ u[2] = "shi" /\ DigitOf(u[1]) = a
    <3>1. x[2] = "shi" /\ DigitOf(x[1]) = a
      BY <2>2, <2>9
    <3>2. CASE b = 0
      <4>1. Len(x) = 2 /\ n = 10 * a
        <5>1. Len(v) = 0 /\ Len(u) = 2
          BY <2>5, <2>9, <3>2
        <5>2. Len(x) = 2
          BY <2>2, <5>1
        <5>3. n = 10 * a
          BY <1>1, <3>2
        <5> QED BY <5>2, <5>3
      <4> QED BY <2>9, <3>1, <4>1 DEF ChineseText
    <3>3. CASE b # 0
      <4>1. Len(x) = 3 /\ Len(v) = 1 /\ DigitOf(v[1]) = b
        <5>1. Len(v) = 1 /\ DigitOf(v[1]) = b /\ Len(u) = 2
          BY <2>6, <2>9, <3>3
        <5>2. Len(x) = 3
          BY <2>2, <5>1
        <5> QED BY <5>1, <5>2
      <4>2. x[3] = v[1]
        <5>1. Len(u) + 1 = 3
          BY <2>9
        <5>2. x[Len(u) + 1] = v[1]
          BY <2>2, <4>1
        <5> QED BY <5>1, <5>2
      <4>3. DigitOf(x[3]) = b
        BY <4>1, <4>2
      <4> QED BY <1>1, <2>9, <3>1, <3>3, <4>1, <4>3 DEF ChineseText
    <3> QED BY <3>2, <3>3
  <2> QED BY <2>4, <2>7, <2>8, <2>9
<1>4. ASSUME ChineseText(x, n) PROVE \E u \in Tens(a), v \in Ones(b) : x = u \o v
  <2>1. ASSUME NEW k \in 0 .. Len(x),
               \A u \in Seq(Any) : Len(u) = k /\ (\A i \in 1 .. k : u[i] = x[i]) => TensText(u, a),
               \A v \in Seq(Any) : /\ Len(v) = Len(x) - k
                                   /\ \A i \in 1 .. Len(x) - k : v[i] = x[k + i]
                                   => OnesText(v, b)
        PROVE  \E u \in Tens(a), v \in Ones(b) : x = u \o v
    <3>1. PICK u, v \in Seq(Any) :
           /\ x = u \o v /\ Len(u) = k /\ Len(v) = Len(x) - k
           /\ \A i \in 1 .. k : u[i] = x[i]
           /\ \A i \in 1 .. Len(x) - k : v[i] = x[k + i]
      BY CutInTwo, Zenon
    <3>2. TensText(u, a) /\ OnesText(v, b)
      BY <2>1, <3>1, Zenon
    <3>3. u \in Tens(a) /\ v \in Ones(b)
      BY <1>1, <3>1, <3>2, TensTexts, OnesTexts, Zenon
    <3> QED BY <3>1, <3>3
  <2>2. \A s : DigitOf(s) \in 0 .. 9
    BY DigitOfRange
  <2>e. \A u \in Seq(Any) : Len(u) = 0 => u = <<>>
    BY EmptySeq
  <2>3. CASE Len(x) = 1 /\ x[1] = "shi" /\ n = 10
    <3>1. a = 1 /\ b = 0
      BY <1>1, <2>3
    <3>2. \A u : Len(u) = 1 /\ (\A i \in 1 .. 1 : u[i] = x[i]) => TensText(u, a)
      BY <2>3, <3>1 DEF TensText
    <3>3. \A v \in Seq(Any) : Len(v) = 0 => OnesText(v, b)
      BY <2>e, <3>1 DEF OnesText
    <3>4. 1 \in 0 .. Len(x) /\ Len(x) - 1 = 0
      BY <2>3
    <3> QED BY <2>1, <3>2, <3>3, <3>4
  <2>4. CASE Len(x) = 1 /\ DigitOf(x[1]) = n
    <3>1. a = 0 /\ b = n /\ n # 0 /\ b # 0
      BY <1>1, <2>2, <2>4
    <3>2. \A u \in Seq(Any) : Len(u) = 0 => TensText(u, a)
      BY <2>e, <3>1 DEF TensText
    <3>3. \A v : Len(v) = 1 /\ (\A i \in 1 .. 1 : v[i] = x[0 + i]) => OnesText(v, b)
      BY <2>4, <3>1 DEF OnesText
    <3>4. 0 \in 0 .. Len(x) /\ Len(x) - 0 = 1
      BY <2>4
    <3> QED BY <2>1, <3>2, <3>3, <3>4
  <2>5. CASE Len(x) = 2 /\ x[1] = "shi" /\ DigitOf(x[2]) # 0 /\ n = 10 + DigitOf(x[2])
    <3>1. a = 1 /\ b = DigitOf(x[2]) /\ b # 0
      BY <1>1, <2>2, <2>5
    <3>2. \A u : Len(u) = 1 /\ (\A i \in 1 .. 1 : u[i] = x[i]) => TensText(u, a)
      BY <2>5, <3>1 DEF TensText
    <3>3. \A v : Len(v) = 1 /\ (\A i \in 1 .. 1 : v[i] = x[1 + i]) => OnesText(v, b)
      BY <3>1 DEF OnesText
    <3>4. 1 \in 0 .. Len(x) /\ Len(x) - 1 = 1
      BY <2>5
    <3> QED BY <2>1, <3>2, <3>3, <3>4
  <2>6. CASE Len(x) = 2 /\ x[2] = "shi" /\ DigitOf(x[1]) # 0 /\ n = 10 * DigitOf(x[1])
    <3>1. a = DigitOf(x[1]) /\ b = 0 /\ a # 0
      BY <1>1, <2>2, <2>6
    <3>2. \A u : Len(u) = 2 /\ (\A i \in 1 .. 2 : u[i] = x[i]) => TensText(u, a)
      BY <2>6, <3>1 DEF TensText
    <3>3. \A v \in Seq(Any) : Len(v) = 0 => OnesText(v, b)
      BY <2>e, <3>1 DEF OnesText
    <3>4. 2 \in 0 .. Len(x) /\ Len(x) - 2 = 0
      BY <2>6
    <3> QED BY <2>1, <3>2, <3>3, <3>4
  <2>7. CASE /\ Len(x) = 3 /\ x[2] = "shi" /\ DigitOf(x[1]) # 0 /\ DigitOf(x[3]) # 0
             /\ n = 10 * DigitOf(x[1]) + DigitOf(x[3])
    <3>1. a = DigitOf(x[1]) /\ b = DigitOf(x[3]) /\ a # 0 /\ b # 0
      <4> DEFINE c == DigitOf(x[1])
                 d == DigitOf(x[3])
      <4>1. c \in 0 .. 9 /\ d \in 0 .. 9 /\ c # 0 /\ d # 0 /\ n = 10 * c + d
        BY <2>2, <2>7
      <4> HIDE DEF c, d
      <4>2. n \div 10 = c /\ n % 10 = d
        BY <4>1, TensOfSum
      <4> QED BY <4>1, <4>2 DEF a, b, c, d
    <3>2. \A u : Len(u) = 2 /\ (\A i \in 1 .. 2 : u[i] = x[i]) => TensText(u, a)
      BY <2>7, <3>1 DEF TensText
    <3>3. \A v : Len(v) = 1 /\ (\A i \in 1 .. 1 : v[i] = x[2 + i]) => OnesText(v, b)
      BY <3>1 DEF OnesText
    <3>4. 2 \in 0 .. Len(x) /\ Len(x) - 2 = 1
      BY <2>7
    <3> QED BY <2>1, <3>2, <3>3, <3>4
  <2> QED BY <1>4, <2>3, <2>4, <2>5, <2>6, <2>7 DEF ChineseText
<1> QED BY <1>2, <1>3, <1>4

(* Tens and ones are read when neither is missing.                         *)
LEMMA BothDigits ==
  ASSUME NEW a \in 0 .. 9, NEW b \in 0 .. 9
  PROVE  /\ TensAndOnes(a, b) \in 0 .. 99
         /\ \A n \in 1 .. 99 : TensAndOnes(a, b) = n <=> a # 0 /\ b # 0 /\ n = 10 * a + b
BY DEF TensAndOnes

(* The same, by the length of the text.                                    *)
LEMMA ChineseTextOf ==
  ASSUME NEW x, NEW n
  PROVE  /\ Len(x) = 1 => (ChineseText(x, n) <=> (x[1] = "shi" /\ n = 10) \/ DigitOf(x[1]) = n)
         /\ Len(x) = 2 =>
              (ChineseText(x, n) <=>
                 \/ x[1] = "shi" /\ DigitOf(x[2]) # 0 /\ n = 10 + DigitOf(x[2])
                 \/ x[2] = "shi" /\ DigitOf(x[1]) # 0 /\ n = 10 * DigitOf(x[1]))
         /\ Len(x) = 3 =>
              (ChineseText(x, n) <=>
                 /\ x[2] = "shi" /\ DigitOf(x[1]) # 0 /\ DigitOf(x[3]) # 0
                 /\ n = 10 * DigitOf(x[1]) + DigitOf(x[3]))
         /\ Len(x) \notin {1, 2, 3} => ~ ChineseText(x, n)
BY DEF ChineseText

(* parse_simple_chinese_number, symbol by symbol.                          *)
LEMMA SimpleChineseReads ==
  ASSUME NEW x \in Seq(Any), NEW n \in 1 .. 99
  PROVE  SimpleChinese(x) = n <=> ChineseText(x, n)
<1> DEFINE tens == {i \in DOMAIN x : x[i] = "shi"}
<1>l. Len(x) \in Nat /\ DOMAIN x = 1 .. Len(x) /\ (x = <<>> <=> Len(x) = 0)
  BY EmptySeq, LenProperties
<1>s. "shi" \in Any
  BY GlyphsAreSymbols
<1>t. \A i : i \in tens <=> i \in 1 .. Len(x) /\ x[i] = "shi"
  BY <1>l
<1>d. \A s : DigitOf(s) \in 0 .. 9
  BY DigitOfRange
<1>z. DigitOf("shi") = 0
  BY DigitOfTen
<1>o. x = <<"shi">> <=> Len(x) = 1 /\ x[1] = "shi"
  <2>1. x = <<"shi">> => Len(x) = 1 /\ x[1] = "shi"
    BY <1>s
  <2> QED BY <1>s, <2>1, OneSymbol
<1>c. SimpleChinese(x) =
        CASE x = <<"shi">> -> 10
          [] x # <<"shi">> /\ 1 \in tens -> TensAndOnes(1, ChineseDigit(Tail(x)))
          [] 1 \notin tens /\ Len(x) \in tens -> 10 * ChineseDigit(Front(x))
          [] tens # {} /\ 1 \notin tens /\ Len(x) \notin tens ->
               TensAndOnes(ChineseDigit(SubSeq(x, 1, Least(tens) - 1)),
                           ChineseDigit(SubSeq(x, Least(tens) + 1, Len(x))))
          [] OTHER -> ChineseDigit(x)
  BY Zenon DEF SimpleChinese
<1>w. tens \subseteq Nat
  BY <1>l, <1>t
<1> HIDE DEF tens
<1>1. CASE x = <<"shi">>
  <2>1. 1 \in tens /\ Len(x) \in tens
    BY <1>1, <1>o, <1>t
  <2>2. SimpleChinese(x) = 10
    BY <1>1, <1>c, <2>1
  <2>3. ChineseText(x, n) <=> n = 10
    BY <1>1, <1>o, <1>z DEF ChineseText
  <2> QED BY <2>2, <2>3
<1>2. CASE x # <<"shi">> /\ 1 \in tens
  <2>1. SimpleChinese(x) = TensAndOnes(1, ChineseDigit(Tail(x)))
    BY <1>2, <1>c
  <2>2. Len(x) \in Nat /\ Len(x) >= 2 /\ x[1] = "shi"
    BY <1>2, <1>l, <1>o, <1>t
  <2>3. Tail(x) \in Seq(Any) /\ Len(Tail(x)) = Len(x) - 1
    BY <1>l, <2>2, HeadTailProperties
  <2>4. CASE Len(x) = 2
    <3>1. Len(Tail(x)) = 1 /\ Tail(x)[1] = x[2]
      <4>1. x # <<>> /\ Len(Tail(x)) = 1 /\ 1 + 1 = 2
        BY <1>l, <2>2, <2>3, <2>4
      <4>0. \A i \in 1 .. Len(Tail(x)) : Tail(x)[i] = x[i + 1]
        BY <4>1, HeadTailProperties
      <4>2. 1 \in 1 .. Len(Tail(x))
        <5> DEFINE m == Len(Tail(x))
        <5>1. m = 1
          BY <4>1
        <5> HIDE DEF m
        <5>2. 1 \in 1 .. m
          BY <5>1
        <5> QED BY <5>2 DEF m
      <4>3. Tail(x)[1] = x[1 + 1]
        BY <4>0, <4>2, Zenon
      <4> QED BY <4>1, <4>3
    <3>2. ChineseDigit(Tail(x)) = DigitOf(x[2])
      BY <2>3, <3>1, ChineseDigitOf
    <3> DEFINE b == DigitOf(x[2])
    <3>3. b \in 0 .. 9 /\ SimpleChinese(x) = TensAndOnes(1, b)
      BY <1>d, <2>1, <3>2
    <3>4. ChineseText(x, n) <=> b # 0 /\ n = 10 + b
      BY <1>z, <2>2, <2>4 DEF ChineseText
    <3> HIDE DEF b
    <3>5. TensAndOnes(1, b) = n <=> b # 0 /\ n = 10 * 1 + b
      <4>1. 1 \in 0 .. 9
        OBVIOUS
      <4> QED BY <3>3, <4>1, BothDigits
    <3> QED BY <3>3, <3>4, <3>5
  <2>5. CASE Len(x) # 2
    <3>1. ChineseDigit(Tail(x)) = 0
      <4>1. Len(Tail(x)) # 1
        BY <2>2, <2>3, <2>5
      <4> QED BY <2>3, <4>1, ChineseDigitOf
    <3>2. SimpleChinese(x) = 0
      BY <2>1, <3>1 DEF TensAndOnes
    <3>3. ~ ChineseText(x, n)
      <4>1. DigitOf(x[1]) = 0 /\ Len(x) # 1
        <5>1. DigitOf(x[1]) = 0
          BY <1>z, <2>2, Zenon
        <5> DEFINE m == Len(x)
        <5>2. m \in Nat /\ m >= 2
          BY <2>2
        <5> HIDE DEF m
        <5>3. m # 1
          BY <5>2
        <5> QED BY <5>1, <5>3 DEF m
      <4> QED BY <2>5, <4>1, ChineseTextOf
    <3> QED BY <3>2, <3>3
  <2> QED BY <2>4, <2>5
<1>3. CASE 1 \notin tens /\ Len(x) \in tens
  <2>1. SimpleChinese(x) = 10 * ChineseDigit(Front(x))
    BY <1>3, <1>c, <1>o, <1>t
  <2>2. Len(x) \in Nat /\ Len(x) >= 2 /\ x[1] # "shi" /\ x[Len(x)] = "shi"
    BY <1>3, <1>l, <1>t
  <2>3. /\ Front(x) \in Seq(Any) /\ Len(Front(x)) = Len(x) - 1
        /\ \A i \in 1 .. Len(x) - 1 : Front(x)[i] = x[i]
    <3>1. x # <<>>
      BY <1>l, <2>2
    <3> QED BY <1>s, <3>1, LastOf
  <2>4. CASE Len(x) = 2
    <3>1. ChineseDigit(Front(x)) = DigitOf(x[1])
      <4>1. Len(Front(x)) = 1 /\ Front(x)[1] = x[1]
        BY <2>3, <2>4
      <4> QED BY <2>3, <4>1, ChineseDigitOf
    <3> DEFINE a == DigitOf(x[1])
    <3>2. a \in 0 .. 9 /\ SimpleChinese(x) = 10 * a
      BY <1>d, <2>1, <3>1
    <3>3. ChineseText(x, n) <=> a # 0 /\ n = 10 * a
      BY <2>2, <2>4 DEF ChineseText
    <3> HIDE DEF a
    <3> QED BY <3>2, <3>3
  <2>5. CASE Len(x) # 2
    <3>1. ChineseDigit(Front(x)) = 0
      BY <2>2, <2>3, <2>5, ChineseDigitOf
    <3>2. SimpleChinese(x) = 0
      BY <2>1, <3>1
    <3>3. ~ ChineseText(x, n)
      <4>1. Len(x) = 3 => DigitOf(x[3]) = 0
        BY <1>z, <2>2
      <4> QED BY <2>2, <2>5, <4>1 DEF ChineseText
    <3> QED BY <3>2, <3>3
  <2> QED BY <2>4, <2>5
<1>4. CASE tens # {} /\ 1 \notin tens /\ Len(x) \notin tens
  <2> DEFINE i == Least(tens)
  <2>1. i \in tens
    BY <1>4, <1>w, LeastMember
  <2> DEFINE u == SubSeq(x, 1, i - 1)
             v == SubSeq(x, i + 1, Len(x))
  <2>2. SimpleChinese(x) = TensAndOnes(ChineseDigit(u), ChineseDigit(v))
    BY <1>4, <1>c, <1>o, <1>t
  <2> HIDE DEF i, u, v
  <2>3. i \in Nat /\ 2 <= i /\ i <= Len(x) - 1 /\ x[i] = "shi" /\ x[1] # "shi" /\ x[Len(x)] # "shi"
    <3>1. i \in 1 .. Len(x) /\ x[i] = "shi"
      BY <1>t, <2>1
    <3>2. i # 1 /\ i # Len(x) /\ Len(x) >= 1
      <4>1. i # 1 /\ i # Len(x)
        BY <1>4, <2>1, Zenon
      <4> DEFINE m == Len(x)
      <4>2. m \in Nat /\ i \in 1 .. m
        BY <1>l, <3>1
      <4> HIDE DEF m
      <4>3. m >= 1
        BY <4>2
      <4> QED BY <4>1, <4>3 DEF m
    <3>3. x[1] # "shi" /\ x[Len(x)] # "shi"
      <4>1. 1 \in 1 .. Len(x) /\ Len(x) \in 1 .. Len(x)
        <5> DEFINE m == Len(x)
        <5>1. m \in Nat /\ m >= 1
          BY <1>l, <3>2
        <5> HIDE DEF m
        <5>2. 1 \in 1 .. m /\ m \in 1 .. m
          BY <5>1
        <5> QED BY <5>2 DEF m
      <4> QED BY <1>4, <1>t, <4>1, Zenon
    <3>4. i \in Nat /\ 2 <= i /\ i <= Len(x) - 1
      <4> DEFINE m == Len(x)
      <4>1. m \in Nat /\ i \in 1 .. m /\ i # 1 /\ i # m
        BY <1>l, <3>1, <3>2
      <4> HIDE DEF m
      <4>2. i \in Nat /\ 2 <= i /\ i <= m - 1
        BY <4>1
      <4> QED BY <4>2 DEF m
    <3> QED BY <3>1, <3>3, <3>4
  <2>4. u \in Seq(Any) /\ Len(u) = i - 1 /\ u[1] = x[1]
    <3>1. i - 1 \in 0 .. Len(x) /\ 1 \in 1 .. i - 1
      BY <1>l, <2>3
    <3> QED BY <3>1, PrefixOf DEF u
  <2>5. v \in Seq(Any) /\ Len(v) = Len(x) - i /\ v[1] = x[i + 1]
    <3>1. i + 1 \in 1 .. Len(x) + 1 /\ Len(x) \in (i + 1) - 1 .. Len(x)
      BY <1>l, <2>3
    <3>2. /\ v \in Seq(Any) /\ Len(v) = (Len(x) - (i + 1)) + 1
          /\ \A k \in 1 .. (Len(x) - (i + 1)) + 1 : v[k] = x[((i + 1) + k) - 1]
      BY <3>1, PartOf DEF v
    <3>3. /\ (Len(x) - (i + 1)) + 1 = Len(x) - i /\ ((i + 1) + 1) - 1 = i + 1
          /\ 1 \in 1 .. (Len(x) - (i + 1)) + 1
      BY <1>l, <2>3
    <3>4. v[1] = x[((i + 1) + 1) - 1]
      BY <3>2, <3>3
    <3> QED BY <3>2, <3>3, <3>4
  <2>6. CASE Len(x) = 3
    <3>1. i = 2 /\ Len(u) = 1 /\ Len(v) = 1 /\ v[1] = x[3]
      <4>1. i = 2
        BY <2>3, <2>6
      <4> QED BY <2>4, <2>5, <2>6, <4>1
    <3> DEFINE a == DigitOf(x[1])
               b == DigitOf(x[3])
    <3>2. ChineseDigit(u) = a /\ ChineseDigit(v) = b
      BY <2>4, <2>5, <3>1, ChineseDigitOf
    <3>3. a \in 0 .. 9 /\ b \in 0 .. 9
      BY <1>d
    <3>4. ChineseText(x, n) <=> a # 0 /\ b # 0 /\ n = 10 * a + b
      BY <2>3, <2>6, <3>1 DEF ChineseText
    <3> HIDE DEF a, b
    <3>5. TensAndOnes(a, b) = n <=> a # 0 /\ b # 0 /\ n = 10 * a + b
      BY <3>3, BothDigits
    <3> QED BY <2>2, <3>2, <3>4, <3>5
  <2>7. CASE Len(x) # 3
    <3>1. Len(u) # 1 \/ Len(v) # 1
      <4>1. Len(u) = i - 1 /\ Len(v) = Len(x) - i
        BY <2>4, <2>5
      <4>2. ASSUME i - 1 = 1, Len(x) - i = 1 PROVE FALSE
        <5> DEFINE m == Len(x)
        <5>1. i = 2
          BY <2>3, <4>2
        <5>2. m = 3
          <6>1. m \in Nat /\ m - i = 1 /\ i = 2
            BY <1>l, <4>2, <5>1
          <6> HIDE DEF m
          <6> QED BY <6>1
        <5> QED BY <2>7, <5>2
      <4> QED BY <4>1, <4>2
    <3>2. ChineseDigit(u) = 0 \/ ChineseDigit(v) = 0
      BY <2>4, <2>5, <3>1, ChineseDigitOf
    <3>3. SimpleChinese(x) = 0
      BY <2>2, <3>2 DEF TensAndOnes
    <3>4. ~ ChineseText(x, n)
      <4>1. Len(x) >= 3
        BY <1>l, <2>3
      <4>2. Len(x) # 1 /\ Len(x) # 2
        BY <1>l, <4>1
      <4> QED BY <2>7, <4>2, ChineseTextOf
    <3> QED BY <3>3, <3>4
  <2> QED BY <2>6, <2>7
<1>5. CASE tens = {}
  <2>1. x # <<"shi">> /\ 1 \notin tens /\ Len(x) \notin tens
    <3>1. x = <<"shi">> => 1 \in tens
      BY <1>o, <1>t
    <3> QED BY <1>5, <3>1
  <2>2. SimpleChinese(x) = ChineseDigit(x)
    BY <1>5, <1>c, <2>1
  <2>3. ChineseDigit(x) = IF Len(x) = 1 THEN DigitOf(x[1]) ELSE 0
    BY ChineseDigitOf
  <2>4. \A i \in 1 .. Len(x) : x[i] # "shi"
    BY <1>5, <1>t
  <2>5. ChineseText(x, n) <=> Len(x) = 1 /\ DigitOf(x[1]) = n
    BY <2>4 DEF ChineseText
  <2> QED BY <2>2, <2>3, <2>5
<1> QED BY <1>1, <1>2, <1>3, <1>4, <1>5

(* parse_simple_chinese_number reads exactly the ways to write a number.   *)
LEMMA ChineseReads ==
  ASSUME NEW x \in Seq(Any), NEW n \in 1 .. 99
  PROVE  SimpleChinese(x) = n <=> x \in Chinese(n)
BY SimpleChineseReads, ChineseTexts

-----------------------------------------------------------------------------
(* Numerals.                                                               *)

(* The symbols of numbers, and what they are not.                          *)
Numeral(s) == s \in {"shi", "+"} \/ DigitOf(s) # 0 \/ ADigit(s)

(* No numeral is white space, punctuation, a counter, a prefix or "last".  *)
LEMMA NumeralsAreNoWords ==
  ASSUME NEW s, Numeral(s)
  PROVE  s \notin White \cup Punct \cup Counters \cup {"di", "last", "latest"}
<1> DEFINE Words == White \cup Punct \cup Counters \cup {"di", "last", "latest"}
<1>1. \A i \in 1 .. 9 : Han[i] \notin Words /\ Arabic[i] \notin Words
  <2>1. \A i \in 1 .. 9 : Han[i] \in {"yi", "er", "san", "si", "wu", "liu", "qi", "ba", "jiu"}
    BY DEF Han
  <2>2. \A i \in 1 .. 9 : Arabic[i] \in {"1", "2", "3", "4", "5", "6", "7", "8", "9"}
    BY DEF Arabic
  <2>3. \A w \in {"yi", "er", "san", "si", "wu", "liu", "qi", "ba", "jiu"} : w \notin Words
    BY Zenon DEF White, Punct, Counters
  <2>4. \A w \in {"1", "2", "3", "4", "5", "6", "7", "8", "9"} : w \notin Words
    BY Zenon DEF White, Punct, Counters
  <2> QED BY <2>1, <2>2, <2>3, <2>4, Zenon
<1>2. ASSUME s \in {"shi", "+", "liang", "0"} PROVE s \notin Words
  BY <1>2, Zenon DEF White, Punct, Counters
<1> HIDE DEF Words
<1>3. ASSUME s # "liang" /\ DigitOf(s) # 0 PROVE s \notin Words
  <2>1. Place(Han, s) # 0
    BY <1>3 DEF DigitOf
  <2>2. \E i \in 1 .. 9 : Han[i] = s
    BY <2>1, Zenon DEF Place
  <2> QED BY <1>1, <2>2
<1>4. ASSUME s # "0" /\ ADigit(s) PROVE s \notin Words
  <2>1. Place(Arabic, s) # 0
    BY <1>4 DEF ADigit
  <2>2. \E i \in 1 .. 9 : Arabic[i] = s
    BY <2>1, Zenon DEF Place
  <2> QED BY <1>1, <2>2
<1>5. s \notin Words
  BY <1>2, <1>3, <1>4 DEF Numeral
<1> QED BY <1>5, Zenon DEF Words

(* What is read in digits is made of digits and a sign.                    *)
LEMMA DecimalSymbols ==
  ASSUME NEW x \in Seq(Any), Digits(Unsigned(x))
  PROVE  \A i \in 1 .. Len(x) : x[i] = "+" \/ ADigit(x[i])
<1> SUFFICES ASSUME NEW i \in 1 .. Len(x) PROVE x[i] = "+" \/ ADigit(x[i])
  OBVIOUS
<1>l. Len(x) \in Nat /\ (x = <<>> <=> Len(x) = 0)
  BY EmptySeq
<1>1. CASE x # <<>> /\ x[1] = "+"
  <2>1. Unsigned(x) = Tail(x)
    BY <1>1, UnsignedText DEF Unsigned
  <2>2. /\ Tail(x) \in Seq(Any) /\ Len(Tail(x)) = Len(x) - 1
        /\ \A k \in 1 .. Len(Tail(x)) : Tail(x)[k] = x[k + 1]
    BY <1>1, HeadTailProperties
  <2>3. \A k \in 1 .. Len(Tail(x)) : ADigit(Tail(x)[k])
    BY <2>1, <2>2, LenProperties DEF Digits, ADigit
  <2>4. CASE i = 1
    BY <1>1, <2>4
  <2>5. CASE i # 1
    <3> DEFINE m == Len(x)
               m1 == Len(Tail(x))
               k == i - 1
    <3>1. m \in Nat /\ m1 = m - 1 /\ i \in 1 .. m /\ i # 1
      BY <1>l, <2>2, <2>5
    <3> HIDE DEF m, m1
    <3>2. k \in 1 .. m1 /\ k + 1 = i
      BY <3>1
    <3> HIDE DEF k
    <3>3. ADigit(Tail(x)[k]) /\ Tail(x)[k] = x[k + 1]
      BY <2>2, <2>3, <3>2 DEF m1
    <3> QED BY <3>2, <3>3
  <2> QED BY <2>4, <2>5
<1>2. CASE ~ (x # <<>> /\ x[1] = "+")
  <2>1. Unsigned(x) = x
    BY <1>2, UnsignedText DEF Unsigned
  <2>2. i \in DOMAIN x
    BY LenProperties
  <2> QED BY <2>1, <2>2, Zenon DEF Digits, ADigit
<1> QED BY <1>1, <1>2

(* The ways to write a number.                                             *)
Numbers(n) == Chinese(n) \cup Decimals(n)

(* A way to write a number is a text.                                      *)
LEMMA NumbersAreTexts ==
  ASSUME NEW n \in 1 .. 99, NEW x \in Numbers(n)
  PROVE  x \in Seq(Any)
<1>1. CASE x \in Chinese(n)
  <2> DEFINE a == n \div 10
             b == n % 10
  <2>1. a \in 0 .. 9 /\ b \in 0 .. 9
    OBVIOUS
  <2>2. x \in Join(Tens(a), Ones(b))
    BY <1>1 DEF Chinese
  <2> HIDE DEF a, b
  <2>3. PICK u \in Tens(a), v \in Ones(b) : x = u \o v
    BY <2>2, Joined
  <2>4. u \in Seq(Any) /\ v \in Seq(Any)
    BY <2>1, TensTexts, OnesTexts
  <2>5. u \o v \in Seq(Any)
    BY <2>4, ConcatProperties
  <2> QED BY <2>3, <2>5
<1>2. CASE x \in Decimals(n)
  <2> DEFINE P == {<<>>, <<"+">>}
             F == {Figures(n)}
  <2>1. \A p \in P : p \in Seq(Any)
    <3>1. "+" \in Any
      BY GlyphsAreSymbols
    <3>2. <<>> \in Seq(Any) /\ <<"+">> \in Seq(Any)
      BY <3>1
    <3> QED BY <3>2, Zenon
  <2>2. \A f \in F : f \in Seq(Any)
    BY FiguresText
  <2>3. x \in Join(P, Join(Zeros, F))
    BY <1>2 DEF Decimals
  <2> HIDE DEF P, F
  <2>4. PICK p \in P, u \in Join(Zeros, F) : x = p \o u
    BY <2>3, Joined
  <2>5. PICK z \in Zeros, f \in F : u = z \o f
    BY <2>4, Joined
  <2>6. p \in Seq(Any) /\ z \in Seq(Any) /\ f \in Seq(Any)
    BY <2>1, <2>2, <2>4, <2>5, ZeroTexts
  <2>7. u \in Seq(Any)
    BY <2>5, <2>6, ConcatProperties
  <2> QED BY <2>4, <2>6, <2>7, ConcatProperties
<1> QED BY <1>1, <1>2 DEF Numbers

(* It is made of numerals.                                                 *)
LEMMA NumbersAreNumerals ==
  ASSUME NEW n \in 1 .. 99, NEW x \in Numbers(n), Len(x) <= MaxLen
  PROVE  x # <<>> /\ \A i \in 1 .. Len(x) : Numeral(x[i])
<1>0. x \in Seq(Any)
  BY NumbersAreTexts
<1>1. CASE x \in Chinese(n)
  <2>1. ChineseText(x, n)
    BY <1>0, <1>1, ChineseTexts
  <2>2. Len(x) \in {1, 2, 3}
    BY <2>1, ChineseTextOf
  <2>3. CASE Len(x) = 1
    <3>1. Numeral(x[1])
      BY <2>1, <2>3, ChineseTextOf DEF Numeral
    <3> QED BY <2>3, <3>1
  <2>4. CASE Len(x) = 2
    <3>1. Numeral(x[1]) /\ Numeral(x[2])
      BY <2>1, <2>4, ChineseTextOf DEF Numeral
    <3> QED BY <2>4, <3>1
  <2>5. CASE Len(x) = 3
    <3>1. Numeral(x[1]) /\ Numeral(x[2]) /\ Numeral(x[3])
      BY <2>1, <2>5, ChineseTextOf DEF Numeral
    <3> QED BY <2>5, <3>1
  <2> QED BY <2>2, <2>3, <2>4, <2>5
<1>2. CASE x \in Decimals(n)
  <2>1. Ends(Unsigned(x), n) /\ Unsigned(x) \in Seq(Any)
    BY <1>0, <1>2, DecimalReads, DecimalEnds, UnsignedText
  <2>2. Digits(Unsigned(x)) /\ Unsigned(x) # <<>>
    BY <2>1, EndsAreDigits
  <2>3. \A i \in 1 .. Len(x) : x[i] = "+" \/ ADigit(x[i])
    BY <1>0, <2>2, DecimalSymbols
  <2>4. x # <<>>
    <3> SUFFICES ASSUME x = <<>> PROVE FALSE
      OBVIOUS
    <3>1. Unsigned(x) = x
      BY <1>0, UnsignedText DEF Unsigned
    <3> QED BY <2>2, <3>1
  <2>5. \A i \in 1 .. Len(x) : Numeral(x[i])
    BY <2>3 DEF Numeral
  <2> QED BY <2>4, <2>5
<1> QED BY <1>1, <1>2 DEF Numbers

NumberOf(x) == IF Decimal(x) # 0 THEN Decimal(x) ELSE SimpleChinese(x)

(* The two readings, one after the other, are of one number: no text is a  *)
(* number in digits and another one in Chinese.                            *)
LEMMA NumberReads ==
  ASSUME NEW n \in 1 .. 99, NEW x \in Seq(Any), Len(x) <= MaxLen
  PROVE  NumberOf(x) = n <=> x \in Numbers(n)
<1>1. Decimal(x) = n <=> x \in Decimals(n)
  BY DecimalReads
<1>2. SimpleChinese(x) = n <=> x \in Chinese(n)
  BY ChineseReads
<1>3. ASSUME x \in Chinese(n) PROVE Decimal(x) = 0
  <2>1. ChineseText(x, n)
    BY <1>3, ChineseTexts
  <2>2. x # <<>> /\ (x[1] = "shi" \/ DigitOf(x[1]) # 0)
    <3>1. Len(x) \in {1, 2, 3}
      BY <2>1, ChineseTextOf
    <3>2. x # <<>>
      BY <3>1, EmptySeq
    <3>3. x[1] = "shi" \/ DigitOf(x[1]) # 0
      BY <2>1, <3>1, ChineseTextOf
    <3> QED BY <3>2, <3>3
  <2>3. \A i \in 1 .. 9 : /\ Han[i] # "+" /\ Han[i] # "0" /\ Han[i] # "liang"
                          /\ \A j \in 1 .. 9 : Han[i] # Arabic[j]
    BY DEF Han, Arabic
  <2>4. \A j \in 1 .. 9 : Arabic[j] # "shi" /\ Arabic[j] # "liang"
    BY DEF Arabic
  <2>5. x[1] = "shi" \/ x[1] = "liang" \/ \E i \in 1 .. 9 : x[1] = Han[i]
    <3>1. Place(Han, x[1]) # 0 => \E i \in 1 .. 9 : Han[i] = x[1]
      BY Zenon DEF Place
    <3> QED BY <2>2, <3>1 DEF DigitOf
  <2>6. x[1] # "+" /\ x[1] # "0" /\ \A j \in 1 .. 9 : x[1] # Arabic[j]
    BY <2>3, <2>4, <2>5
  <2>7. ~ ADigit(x[1])
    <3>1. Place(Arabic, x[1]) = 0
      BY <2>6, Zenon DEF Place
    <3> QED BY <2>6, <3>1 DEF ADigit
  <2> QED BY <2>2, <2>6, <2>7, NoDecimal
<1>4. n # 0
  OBVIOUS
<1> QED BY <1>1, <1>2, <1>3, <1>4 DEF NumberOf, Numbers

-----------------------------------------------------------------------------
(* Ordinals, with their prefix and their counter.                          *)

(* The number that is left of an ordinal when the prefix and the counter   *)
(* word are taken off.                                                     *)
WithoutPrefix(x)  == IF Begins(x, <<"di">>) THEN Tail(x) ELSE x
WithoutCounter(u) == IF u # <<>> /\ u[Len(u)] \in Counters THEN Front(u) ELSE u

(* parse_chinese_ordinal reads what is left without prefix and counter.    *)
LEMMA OrdinalIsNumber ==
  ASSUME NEW x
  PROVE  ChineseOrdinal(x) = NumberOf(WithoutCounter(WithoutPrefix(x)))
BY Zenon DEF ChineseOrdinal, NumberOf, WithoutPrefix, WithoutCounter

(* Without its prefix, a text is still one.                                *)
LEMMA WithoutPrefixText ==
  ASSUME NEW x \in Seq(Any)
  PROVE  /\ WithoutPrefix(x) \in Seq(Any) /\ Len(WithoutPrefix(x)) <= Len(x)
         /\ WithoutPrefix(x) = IF x # <<>> /\ x[1] = "di" THEN Tail(x) ELSE x
<1>1. "di" \in Any
  BY GlyphsAreSymbols
<1>2. /\ Begins(x, <<"di">>) <=> x # <<>> /\ x[1] = "di"
      /\ x # <<>> => Tail(x) \in Seq(Any) /\ Len(Tail(x)) = Len(x) - 1
  BY <1>1, FirstOf
<1>3. Len(x) \in Nat
  BY EmptySeq
<1> QED BY <1>2, <1>3 DEF WithoutPrefix

(* Without its counter, too.                                               *)
LEMMA WithoutCounterText ==
  ASSUME NEW u \in Seq(Any)
  PROVE  WithoutCounter(u) \in Seq(Any) /\ Len(WithoutCounter(u)) <= Len(u)
<1>1. "di" \in Any
  BY GlyphsAreSymbols
<1>2. u # <<>> => Front(u) \in Seq(Any) /\ Len(Front(u)) = Len(u) - 1
  BY <1>1, LastOf
<1>3. Len(u) \in Nat
  BY EmptySeq
<1> QED BY <1>2, <1>3 DEF WithoutCounter

(* A text that is not empty has a first and a last symbol.                 *)
LEMMA LastIsInside ==
  ASSUME NEW u \in Seq(Any), u # <<>>
  PROVE  Len(u) \in 1 .. Len(u) /\ 1 \in 1 .. Len(u)
<1> DEFINE m == Len(u)
<1>1. m \in Nat \ {0}
  BY EmptySeq
<1> HIDE DEF m
<1>2. m \in 1 .. m /\ 1 \in 1 .. m
  BY <1>1
<1> QED BY <1>2 DEF m

(* A number, and a counter word or none.                                   *)
Counted(n) == Join(Numbers(n), {<<>>} \cup {<<w>> : w \in Counters})

(* A number and its counter are what the counter can be taken off.         *)
LEMMA CountedTexts ==
  ASSUME NEW n \in 1 .. 99, NEW u \in Seq(Any), Len(u) <= MaxLen
  PROVE  u \in Counted(n) <=> WithoutCounter(u) \in Numbers(n)
<1> DEFINE K == {<<>>} \cup {<<w>> : w \in Counters}
<1>1. \A k : k \in K <=> k = <<>> \/ \E w \in Counters : k = <<w>>
  OBVIOUS
<1>2. u \in Counted(n) <=> \E x \in Numbers(n), k \in K : u = x \o k
  BY Joined DEF Counted
<1> HIDE DEF K
<1>3. u \in Counted(n) <=> \/ \E x \in Numbers(n) : u = x \o <<>>
                           \/ \E x \in Numbers(n), w \in Counters : u = x \o <<w>>
  <2>1. ASSUME u \in Counted(n)
        PROVE  \/ \E x \in Numbers(n) : u = x \o <<>>
               \/ \E x \in Numbers(n), w \in Counters : u = x \o <<w>>
    <3>1. PICK x \in Numbers(n), k \in K : u = x \o k
      BY <1>2, <2>1
    <3> QED BY <1>1, <3>1
  <2>2. ASSUME NEW x \in Numbers(n), u = x \o <<>> PROVE u \in Counted(n)
    BY <1>1, <1>2, <2>2
  <2>3. ASSUME NEW x \in Numbers(n), NEW w \in Counters, u = x \o <<w>> PROVE u \in Counted(n)
    BY <1>1, <1>2, <2>3
  <2> QED BY <2>1, <2>2, <2>3
<1>4. \A x \in Numbers(n) : x \in Seq(Any) /\ x \o <<>> = x
  BY NumbersAreTexts, ConcatEmptySeq
<1>5. \A w \in Counters : w \in Any
  BY GlyphsAreSymbols
<1>6. \A x \in Numbers(n), w \in Counters :
        u = x \o <<w>> <=> u # <<>> /\ u[Len(u)] = w /\ Front(u) = x
  BY <1>4, <1>5, LastOf
<1>7. u \in Counted(n) <=> \/ u \in Numbers(n)
                           \/ u # <<>> /\ u[Len(u)] \in Counters /\ Front(u) \in Numbers(n)
  <2>1. (\E x \in Numbers(n) : u = x \o <<>>) <=> u \in Numbers(n)
    BY <1>4
  <2>2. (\E x \in Numbers(n), w \in Counters : u = x \o <<w>>)
           <=> u # <<>> /\ u[Len(u)] \in Counters /\ Front(u) \in Numbers(n)
    BY <1>6, Zenon
  <2> QED BY <1>3, <2>1, <2>2
<1>8. ASSUME u \in Numbers(n) PROVE u # <<>> /\ u[Len(u)] \notin Counters
  <2>1. u # <<>> /\ \A i \in 1 .. Len(u) : Numeral(u[i])
    BY <1>8, NumbersAreNumerals
  <2>2. Numeral(u[Len(u)])
    BY <2>1, LastIsInside
  <2> QED BY <2>1, <2>2, NumeralsAreNoWords, Zenon
<1> QED BY <1>7, <1>8 DEF WithoutCounter

(* They begin with a numeral and end with a numeral or a counter.          *)
LEMMA CountedHead ==
  ASSUME NEW n \in 1 .. 99, NEW u \in Seq(Any), Len(u) <= MaxLen, u \in Counted(n)
  PROVE  /\ u # <<>> /\ Numeral(u[1])
         /\ Numeral(u[Len(u)]) \/ u[Len(u)] \in Counters
<1> DEFINE x == WithoutCounter(u)
<1>1. x \in Numbers(n) /\ x \in Seq(Any) /\ Len(x) <= MaxLen
  <2>1. x \in Numbers(n)
    BY CountedTexts
  <2>2. x \in Seq(Any) /\ Len(x) <= Len(u)
    BY WithoutCounterText
  <2>3. Len(x) \in Nat /\ Len(u) \in Nat /\ MaxLen \in Nat
    BY <2>2, EmptySeq, CommandsAssumption
  <2> HIDE DEF x
  <2> QED BY <2>1, <2>2, <2>3
<1> HIDE DEF x
<1>2. x # <<>> /\ \A i \in 1 .. Len(x) : Numeral(x[i])
  BY <1>1, NumbersAreNumerals
<1>3. Numeral(x[1]) /\ Numeral(x[Len(x)])
  BY <1>1, <1>2, LastIsInside
<1>4. CASE u # <<>> /\ u[Len(u)] \in Counters
  <2>1. x = Front(u)
    BY <1>4 DEF WithoutCounter, x
  <2>2. "di" \in Any
    BY GlyphsAreSymbols
  <2>3. Len(x) = Len(u) - 1 /\ \A i \in 1 .. Len(u) - 1 : x[i] = u[i]
    BY <1>4, <2>1, <2>2, LastOf
  <2>4. 1 \in 1 .. Len(x)
    BY <1>1, <1>2, LastIsInside
  <2>5. x[1] = u[1]
    BY <2>3, <2>4
  <2> QED BY <1>3, <1>4, <2>5
<1>5. CASE ~ (u # <<>> /\ u[Len(u)] \in Counters)
  <2>1. x = u
    BY <1>5 DEF WithoutCounter, x
  <2> QED BY <1>2, <1>3, <2>1
<1> QED BY <1>4, <1>5

Ordinals(n) == Join({<<>>, <<"di">>}, Counted(n))

(* An ordinal is what the prefix can be taken off.                         *)
LEMMA OrdinalTexts ==
  ASSUME NEW n \in 1 .. 99, NEW x \in Seq(Any), Len(x) <= MaxLen
  PROVE  x \in Ordinals(n) <=> WithoutPrefix(x) \in Counted(n)
<1> DEFINE P == {<<>>, <<"di">>}
<1>1. \A p : p \in P <=> p = <<>> \/ p = <<"di">>
  OBVIOUS
<1>2. x \in Ordinals(n) <=> \E p \in P, u \in Counted(n) : x = p \o u
  <2>1. Ordinals(n) = Join(P, Counted(n))
    BY DEF Ordinals
  <2> HIDE DEF P
  <2> QED BY <2>1, Joined
<1> HIDE DEF P
<1>3. x \in Ordinals(n) <=> \/ \E u \in Counted(n) : x = <<>> \o u
                            \/ \E u \in Counted(n) : x = <<"di">> \o u
  BY <1>1, <1>2, Zenon
<1>4. \A u \in Counted(n) : u \in Seq(Any)
  <2> SUFFICES ASSUME NEW u \in Counted(n) PROVE u \in Seq(Any)
    OBVIOUS
  <2> DEFINE K == {<<>>} \cup {<<w>> : w \in Counters}
  <2>1. \A k \in K : k \in Seq(Any)
    <3>1. <<>> \in Seq(Any)
      OBVIOUS
    <3>2. ASSUME NEW w \in Counters PROVE <<w>> \in Seq(Any)
      <4>1. w \in Any
        BY GlyphsAreSymbols
      <4> QED BY <4>1
    <3> QED BY <3>1, <3>2, Zenon
  <2>2. u \in Join(Numbers(n), K)
    BY DEF Counted
  <2> HIDE DEF K
  <2>3. PICK y \in Numbers(n), k \in K : u = y \o k
    BY <2>2, Joined
  <2>4. y \in Seq(Any) /\ k \in Seq(Any)
    BY <2>1, <2>3, NumbersAreTexts
  <2>5. y \o k \in Seq(Any)
    BY <2>4, ConcatProperties
  <2> QED BY <2>3, <2>5
<1>5. "di" \in Any
  BY GlyphsAreSymbols
<1>6. (\E u \in Counted(n) : x = <<>> \o u) <=> x \in Counted(n)
  BY <1>4, ConcatEmptySeq
<1>7. (\E u \in Counted(n) : x = <<"di">> \o u) <=> x # <<>> /\ x[1] = "di" /\ Tail(x) \in Counted(n)
  <2>1. \A u \in Counted(n) : x = <<"di">> \o u <=> x # <<>> /\ x[1] = "di" /\ Tail(x) = u
    BY <1>4, <1>5, FirstOf
  <2> QED BY <2>1, Zenon
<1>8. ASSUME x \in Counted(n) PROVE x # <<>> /\ x[1] # "di"
  <2>1. x # <<>> /\ Numeral(x[1])
    BY <1>8, CountedHead
  <2> QED BY <2>1, NumeralsAreNoWords, Zenon
<1>9. WithoutPrefix(x) = IF x # <<>> /\ x[1] = "di" THEN Tail(x) ELSE x
  BY WithoutPrefixText
<1> QED BY <1>3, <1>6, <1>7, <1>8, <1>9

(* parse_chinese_ordinal reads the names of an item.                       *)
LEMMA ChineseOrdinalReads ==
  ASSUME NEW n \in 1 .. 99, NEW x \in Seq(Any), Len(x) <= MaxLen
  PROVE  ChineseOrdinal(x) = n <=> x \in Ordinals(n)
<1> DEFINE u == WithoutPrefix(x)
           y == WithoutCounter(u)
<1>1. u \in Seq(Any) /\ Len(u) <= Len(x)
  BY WithoutPrefixText
<1>2. y \in Seq(Any) /\ Len(y) <= Len(u)
  <2> HIDE DEF u
  <2> QED BY <1>1, WithoutCounterText
<1>3. ChineseOrdinal(x) = NumberOf(y)
  BY OrdinalIsNumber
<1>4. Len(x) \in Nat /\ Len(u) \in Nat /\ Len(y) \in Nat /\ MaxLen \in Nat
  <2> HIDE DEF u, y
  <2> QED BY <1>1, <1>2, EmptySeq, CommandsAssumption
<1>5. Len(u) <= MaxLen /\ Len(y) <= MaxLen
  <2> HIDE DEF u, y
  <2> QED BY <1>1, <1>2, <1>4
<1>6. x \in Ordinals(n) <=> u \in Counted(n)
  BY OrdinalTexts
<1>7. u \in Counted(n) <=> y \in Numbers(n)
  <2> HIDE DEF u
  <2> QED BY <1>1, <1>5, CountedTexts
<1> HIDE DEF u, y
<1>8. NumberOf(y) = n <=> y \in Numbers(n)
  BY <1>2, <1>5, NumberReads
<1> QED BY <1>3, <1>6, <1>7, <1>8

(* The reading in digits that parse_pending_target tries first is one that *)
(* parse_chinese_ordinal would come to.                                    *)
LEMMA OrdinalOfText ==
  ASSUME NEW x \in Seq(Any)
  PROVE  OrdinalOf(x) = ChineseOrdinal(x)
<1>1. CASE Decimal(x) = 0
  BY <1>1 DEF OrdinalOf
<1>2. CASE Decimal(x) # 0
  <2>1. Digits(Unsigned(x))
    BY <1>2, DecimalIsWorth
  <2>2. \A i \in 1 .. Len(x) : x[i] = "+" \/ ADigit(x[i])
    BY <2>1, DecimalSymbols
  <2>3. \A i \in 1 .. Len(x) : Numeral(x[i])
    BY <2>2 DEF Numeral
  <2>4. WithoutPrefix(x) = x
    <3>1. x # <<>> => Numeral(x[1])
      BY <2>3, LastIsInside
    <3>2. x # <<>> => x[1] # "di"
      BY <3>1, NumeralsAreNoWords, Zenon
    <3> QED BY <3>2, WithoutPrefixText
  <2>5. WithoutCounter(x) = x
    <3>1. x # <<>> => Numeral(x[Len(x)])
      BY <2>3, LastIsInside
    <3>2. x # <<>> => x[Len(x)] \notin Counters
      BY <3>1, NumeralsAreNoWords, Zenon
    <3> QED BY <3>2 DEF WithoutCounter
  <2>6. ChineseOrdinal(x) = NumberOf(x)
    BY <2>4, <2>5, OrdinalIsNumber
  <2> QED BY <1>2, <2>6 DEF OrdinalOf, NumberOf
<1> QED BY <1>1, <1>2

-----------------------------------------------------------------------------
(* What is left of a text is a part of it.                                 *)

(* A part of a part is a part.                                             *)
LEMMA PartOfPart ==
  ASSUME NEW t \in Seq(Any), NEW i \in 1 .. Len(t) + 1, NEW j \in i - 1 .. Len(t),
         NEW m \in 1 .. (j - i) + 2, NEW n \in m - 1 .. (j - i) + 1
  PROVE  SubSeq(SubSeq(t, i, j), m, n) = SubSeq(t, (i + m) - 1, (i + n) - 1)
<1> DEFINE l == Len(t)
           u == SubSeq(t, i, j)
           v == SubSeq(u, m, n)
           w == SubSeq(t, (i + m) - 1, (i + n) - 1)
<1>1. l \in Nat /\ i \in 1 .. l + 1 /\ j \in i - 1 .. l
  BY EmptySeq
<1>2. /\ u \in Seq(Any) /\ Len(u) = (j - i) + 1
      /\ \A k \in 1 .. (j - i) + 1 : u[k] = t[(i + k) - 1]
  BY PartOf
<1> HIDE DEF u, l
<1>3. m \in 1 .. Len(u) + 1 /\ n \in m - 1 .. Len(u) /\ m \in Int /\ n \in Int
  <2>1. ((j - i) + 1) + 1 = (j - i) + 2
    BY <1>1
  <2> QED BY <1>1, <1>2, <2>1
<1>4. /\ v \in Seq(Any) /\ Len(v) = (n - m) + 1
      /\ \A k \in 1 .. (n - m) + 1 : v[k] = u[(m + k) - 1]
  BY <1>2, <1>3, PartOf
<1>5. (i + m) - 1 \in 1 .. l + 1 /\ (i + n) - 1 \in ((i + m) - 1) - 1 .. l
  BY <1>1, <1>3
<1>6. /\ w \in Seq(Any) /\ Len(w) = (((i + n) - 1) - ((i + m) - 1)) + 1
      /\ \A k \in 1 .. (((i + n) - 1) - ((i + m) - 1)) + 1 : w[k] = t[(((i + m) - 1) + k) - 1]
  BY <1>5, PartOf DEF l
<1>7. (((i + n) - 1) - ((i + m) - 1)) + 1 = (n - m) + 1
  BY <1>1, <1>3
<1> HIDE DEF v, w
<1>8. ASSUME NEW k \in 1 .. (n - m) + 1 PROVE v[k] = w[k]
  <2>1. v[k] = u[(m + k) - 1]
    BY <1>4
  <2>2. (m + k) - 1 \in 1 .. (j - i) + 1
    BY <1>1, <1>3
  <2>3. u[(m + k) - 1] = t[(i + ((m + k) - 1)) - 1]
    BY <1>2, <2>2
  <2>4. w[k] = t[(((i + m) - 1) + k) - 1]
    BY <1>6, <1>7
  <2>5. (i + ((m + k) - 1)) - 1 = (((i + m) - 1) + k) - 1
    BY <1>1, <1>3
  <2> QED BY <2>1, <2>3, <2>4, <2>5
<1>9. v = w
  <2>1. Len(v) = Len(w) /\ \A k \in 1 .. Len(v) : v[k] = w[k]
    BY <1>4, <1>6, <1>7, <1>8
  <2> QED BY <1>4, <1>6, <2>1, SeqEqual
<1> QED BY <1>9 DEF u, v, w

(* The least of some positions.                                            *)
LEMMA LeastIs ==
  ASSUME NEW S, S \subseteq Nat, S # {}
  PROVE  Least(S) \in S /\ \A y \in S : Least(S) <= y
BY LeastExists DEF Least

(* The greatest.                                                           *)
LEMMA GreatestIs ==
  ASSUME NEW n \in Nat, NEW S, S \subseteq 1 .. n, S # {}
  PROVE  Greatest(S) \in S /\ \A y \in S : y <= Greatest(S)
<1> DEFINE T == {n - i : i \in S}
<1>1. T \subseteq Nat /\ T # {}
  <2>1. \A i \in S : n - i \in Nat
    OBVIOUS
  <2> QED BY <2>1, Zenon
<1>2. PICK x \in T : \A y \in T : x <= y
  <2> HIDE DEF T
  <2> QED BY <1>1, LeastExists
<1>3. PICK i \in S : x = n - i
  OBVIOUS
<1>4. \A j \in S : j <= i
  <2> SUFFICES ASSUME NEW j \in S PROVE j <= i
    OBVIOUS
  <2>1. x <= n - j
    BY <1>2
  <2>2. i \in 1 .. n /\ j \in 1 .. n
    BY Zenon
  <2> QED BY <2>1, <2>2, <1>3
<1> QED BY <1>4 DEF Greatest

(* Trimming takes symbols of a set off an end, and stops at the first that *)
(* is not in it.                                                           *)
LEMMA TrimStartIs ==
  ASSUME NEW u \in Seq(Any), NEW S
  PROVE  \E a \in 1 .. Len(u) + 1 :
           /\ TrimStart(u, S) = SubSeq(u, a, Len(u))
           /\ \A k \in 1 .. Len(u) : k < a => u[k] \in S
           /\ a <= Len(u) => u[a] \notin S
<1> DEFINE l == Len(u)
           O == Outside(u, S)
<1>1. l \in Nat /\ \A k : k \in O <=> k \in 1 .. l /\ u[k] \notin S
  BY LenProperties DEF Outside
<1>2. CASE O = {}
  <2>1. TrimStart(u, S) = <<>>
    BY <1>2 DEF TrimStart
  <2>2. SubSeq(u, l + 1, l) = <<>>
    <3>1. l + 1 \in Int /\ l \in Int /\ l < l + 1
      BY <1>1
    <3> HIDE DEF l
    <3> QED BY <3>1, SubSeqEmpty
  <2>3. \A k \in 1 .. l : u[k] \in S
    BY <1>1, <1>2, Zenon
  <2> HIDE DEF l
  <2>4. l + 1 \in 1 .. l + 1 /\ ~ (l + 1 <= l)
    BY <1>1
  <2>5. \E a \in 1 .. l + 1 :
           /\ TrimStart(u, S) = SubSeq(u, a, l)
           /\ \A k \in 1 .. l : k < a => u[k] \in S
           /\ a <= l => u[a] \notin S
    BY <2>1, <2>2, <2>3, <2>4
  <2> QED BY <2>5 DEF l
<1>3. CASE O # {}
  <2>1. TrimStart(u, S) = SubSeq(u, Least(O), l)
    BY <1>3 DEF TrimStart
  <2> HIDE DEF O, l
  <2>2. O \subseteq Nat
    BY <1>1
  <2>3. Least(O) \in O /\ \A y \in O : Least(O) <= y
    BY <1>3, <2>2, LeastIs
  <2> DEFINE a == Least(O)
  <2>4. a \in 1 .. l /\ u[a] \notin S /\ \A y \in O : a <= y
    BY <1>1, <2>3
  <2>5. TrimStart(u, S) = SubSeq(u, a, l)
    BY <2>1
  <2> HIDE DEF a
  <2>6. \A k \in 1 .. l : k < a => u[k] \in S
    <3> SUFFICES ASSUME NEW k \in 1 .. l, k < a, u[k] \notin S PROVE FALSE
      OBVIOUS
    <3>1. k \in O
      BY <1>1
    <3>2. a <= k
      BY <2>4, <3>1
    <3> QED BY <1>1, <2>4, <3>2
  <2>7. a \in 1 .. l + 1
    BY <1>1, <2>4
  <2> QED BY <2>4, <2>5, <2>6, <2>7 DEF l
<1> QED BY <1>2, <1>3

(* What is left when the end is trimmed.                                   *)
LEMMA TrimEndIs ==
  ASSUME NEW u \in Seq(Any), NEW S
  PROVE  \E b \in 0 .. Len(u) :
           /\ TrimEnd(u, S) = SubSeq(u, 1, b)
           /\ \A k \in 1 .. Len(u) : k > b => u[k] \in S
           /\ b >= 1 => u[b] \notin S
<1> DEFINE l == Len(u)
           O == Outside(u, S)
<1>1. l \in Nat /\ \A k : k \in O <=> k \in 1 .. l /\ u[k] \notin S
  BY LenProperties DEF Outside
<1>2. CASE O = {}
  <2>1. TrimEnd(u, S) = <<>>
    BY <1>2 DEF TrimEnd
  <2>2. SubSeq(u, 1, 0) = <<>>
    BY SubSeqEmpty
  <2>3. \A k \in 1 .. l : u[k] \in S
    BY <1>1, <1>2, Zenon
  <2> HIDE DEF l
  <2>4. 0 \in 0 .. l /\ ~ (0 >= 1)
    BY <1>1
  <2> QED BY <2>1, <2>2, <2>3, <2>4 DEF l
<1>3. CASE O # {}
  <2>1. TrimEnd(u, S) = SubSeq(u, 1, Greatest(O))
    BY <1>3 DEF TrimEnd
  <2> HIDE DEF O, l
  <2>2. O \subseteq 1 .. l
    BY <1>1
  <2>3. Greatest(O) \in O /\ \A y \in O : y <= Greatest(O)
    BY <1>1, <1>3, <2>2, GreatestIs
  <2> DEFINE b == Greatest(O)
  <2>4. b \in 1 .. l /\ u[b] \notin S /\ \A y \in O : y <= b
    BY <1>1, <2>3
  <2>5. TrimEnd(u, S) = SubSeq(u, 1, b)
    BY <2>1
  <2> HIDE DEF b
  <2>6. \A k \in 1 .. l : k > b => u[k] \in S
    <3> SUFFICES ASSUME NEW k \in 1 .. l, k > b, u[k] \notin S PROVE FALSE
      OBVIOUS
    <3>1. k \in O
      BY <1>1
    <3>2. k <= b
      BY <2>4, <3>1
    <3> QED BY <1>1, <2>4, <3>2
  <2>7. b \in 0 .. l
    BY <1>1, <2>4
  <2> QED BY <2>4, <2>5, <2>6, <2>7 DEF l
<1> QED BY <1>2, <1>3

(* Trimming a part of a text leaves a smaller part of it.                  *)
LEMMA TrimStartOfPart ==
  ASSUME NEW t \in Seq(Any), NEW i \in 1 .. Len(t) + 1, NEW j \in i - 1 .. Len(t), NEW S
  PROVE  \E a \in i .. j + 1 :
           /\ TrimStart(SubSeq(t, i, j), S) = SubSeq(t, a, j)
           /\ \A k \in i .. j : k < a => t[k] \in S
           /\ a <= j => t[a] \notin S
<1> DEFINE l == Len(t)
           u == SubSeq(t, i, j)
<1>1. l \in Nat /\ i \in 1 .. l + 1 /\ j \in i - 1 .. l /\ i \in Int /\ j \in Int
  BY EmptySeq
<1>2. /\ u \in Seq(Any) /\ Len(u) = (j - i) + 1
      /\ \A k \in 1 .. (j - i) + 1 : u[k] = t[(i + k) - 1]
  BY PartOf
<1> HIDE DEF u, l
<1>3. PICK m \in 1 .. Len(u) + 1 :
           /\ TrimStart(u, S) = SubSeq(u, m, Len(u))
           /\ \A k \in 1 .. Len(u) : k < m => u[k] \in S
           /\ m <= Len(u) => u[m] \notin S
  BY <1>2, TrimStartIs
<1> DEFINE a == (i + m) - 1
<1>4. a \in i .. j + 1 /\ m \in Int
  BY <1>1, <1>2, <1>3
<1>5. TrimStart(u, S) = SubSeq(t, a, j)
  <2>1. m \in 1 .. (j - i) + 2 /\ (j - i) + 1 \in m - 1 .. (j - i) + 1
    BY <1>1, <1>2, <1>3
  <2>2. SubSeq(u, m, (j - i) + 1) = SubSeq(t, (i + m) - 1, (i + ((j - i) + 1)) - 1)
    BY <2>1, PartOfPart DEF u, l
  <2>3. (i + ((j - i) + 1)) - 1 = j
    BY <1>1
  <2> QED BY <1>2, <1>3, <2>2, <2>3
<1>6. \A k \in i .. j : k < a => t[k] \in S
  <2> SUFFICES ASSUME NEW k \in i .. j, k < a PROVE t[k] \in S
    OBVIOUS
  <2> DEFINE q == (k - i) + 1
  <2>1. q \in 1 .. (j - i) + 1 /\ q < m /\ (i + q) - 1 = k
    BY <1>1, <1>4
  <2> HIDE DEF q, a
  <2>2. u[q] = t[(i + q) - 1]
    BY <1>2, <2>1
  <2>3. u[q] \in S
    BY <1>2, <1>3, <2>1
  <2> QED BY <2>1, <2>2, <2>3
<1>7. a <= j => t[a] \notin S
  <2> SUFFICES ASSUME a <= j PROVE t[a] \notin S
    OBVIOUS
  <2>1. m \in 1 .. (j - i) + 1
    BY <1>1, <1>2, <1>3
  <2>2. u[m] = t[a]
    BY <1>2, <2>1
  <2>3. m <= Len(u)
    BY <1>1, <1>2, <2>1
  <2>4. u[m] \notin S
    BY <1>3, <2>3
  <2> QED BY <2>2, <2>4
<1> HIDE DEF a
<1> QED BY <1>4, <1>5, <1>6, <1>7 DEF u

(* The end of a part, trimmed.                                             *)
LEMMA TrimEndOfPart ==
  ASSUME NEW t \in Seq(Any), NEW i \in 1 .. Len(t) + 1, NEW j \in i - 1 .. Len(t), NEW S
  PROVE  \E b \in i - 1 .. j :
           /\ TrimEnd(SubSeq(t, i, j), S) = SubSeq(t, i, b)
           /\ \A k \in i .. j : k > b => t[k] \in S
           /\ b >= i => t[b] \notin S
<1> DEFINE l == Len(t)
           u == SubSeq(t, i, j)
<1>1. l \in Nat /\ i \in 1 .. l + 1 /\ j \in i - 1 .. l /\ i \in Int /\ j \in Int
  BY EmptySeq
<1>2. /\ u \in Seq(Any) /\ Len(u) = (j - i) + 1
      /\ \A k \in 1 .. (j - i) + 1 : u[k] = t[(i + k) - 1]
  BY PartOf
<1> HIDE DEF u, l
<1>3. PICK m \in 0 .. Len(u) :
           /\ TrimEnd(u, S) = SubSeq(u, 1, m)
           /\ \A k \in 1 .. Len(u) : k > m => u[k] \in S
           /\ m >= 1 => u[m] \notin S
  BY <1>2, TrimEndIs
<1> DEFINE b == (i + m) - 1
<1>4. b \in i - 1 .. j /\ m \in Int
  BY <1>1, <1>2, <1>3
<1>5. TrimEnd(u, S) = SubSeq(t, i, b)
  <2>1. 1 \in 1 .. (j - i) + 2 /\ m \in 1 - 1 .. (j - i) + 1
    BY <1>1, <1>2, <1>3
  <2>2. SubSeq(u, 1, m) = SubSeq(t, (i + 1) - 1, (i + m) - 1)
    BY <2>1, PartOfPart DEF u, l
  <2>3. (i + 1) - 1 = i
    BY <1>1
  <2> QED BY <1>2, <1>3, <2>2, <2>3
<1>6. \A k \in i .. j : k > b => t[k] \in S
  <2> SUFFICES ASSUME NEW k \in i .. j, k > b PROVE t[k] \in S
    OBVIOUS
  <2> DEFINE q == (k - i) + 1
  <2>1. q \in 1 .. (j - i) + 1 /\ q > m /\ (i + q) - 1 = k
    BY <1>1, <1>4
  <2> HIDE DEF q, b
  <2>2. u[q] = t[(i + q) - 1]
    BY <1>2, <2>1
  <2>3. u[q] \in S
    BY <1>2, <1>3, <2>1
  <2> QED BY <2>1, <2>2, <2>3
<1>7. b >= i => t[b] \notin S
  <2> SUFFICES ASSUME b >= i PROVE t[b] \notin S
    OBVIOUS
  <2>1. m \in 1 .. (j - i) + 1
    BY <1>1, <1>2, <1>3
  <2>2. u[m] = t[b]
    BY <1>2, <2>1
  <2>3. m >= 1
    BY <2>1
  <2>4. u[m] \notin S
    BY <1>3, <2>3
  <2> QED BY <2>2, <2>4
<1> HIDE DEF b
<1> QED BY <1>4, <1>5, <1>6, <1>7 DEF u

(* Both ends of a part, trimmed.                                           *)
LEMMA TrimOfPart ==
  ASSUME NEW t \in Seq(Any), NEW i \in 1 .. Len(t) + 1, NEW j \in i - 1 .. Len(t)
  PROVE  \E a \in i .. j + 1, b \in i - 1 .. j :
           /\ b \in a - 1 .. j
           /\ Trim(SubSeq(t, i, j)) = SubSeq(t, a, b)
           /\ \A k \in i .. j : k < a \/ k > b => t[k] \in White
           /\ a <= j => t[a] \notin White
           /\ b >= a => t[b] \notin White
           /\ a <= j => a <= b
<1> DEFINE l == Len(t)
<1>1. l \in Nat /\ i \in 1 .. l + 1 /\ j \in i - 1 .. l
  BY EmptySeq
<1>2. PICK a \in i .. j + 1 :
           /\ TrimStart(SubSeq(t, i, j), White) = SubSeq(t, a, j)
           /\ \A k \in i .. j : k < a => t[k] \in White
           /\ a <= j => t[a] \notin White
  BY TrimStartOfPart
<1> HIDE DEF l
<1>3. a \in 1 .. l + 1 /\ j \in a - 1 .. l
  BY <1>1, <1>2
<1>4. PICK b \in a - 1 .. j :
           /\ TrimEnd(SubSeq(t, a, j), White) = SubSeq(t, a, b)
           /\ \A k \in a .. j : k > b => t[k] \in White
           /\ b >= a => t[b] \notin White
  BY <1>3, TrimEndOfPart DEF l
<1>5. Trim(SubSeq(t, i, j)) = SubSeq(t, a, b)
  BY <1>2, <1>4 DEF Trim
<1>6. \A k \in i .. j : k < a \/ k > b => t[k] \in White
  <2> SUFFICES ASSUME NEW k \in i .. j, k < a \/ k > b PROVE t[k] \in White
    OBVIOUS
  <2>1. CASE k < a
    BY <1>2, <2>1
  <2>2. CASE ~ (k < a)
    <3>1. k \in a .. j /\ k > b
      BY <1>1, <1>2, <2>2
    <3> QED BY <1>4, <3>1
  <2> QED BY <2>1, <2>2
<1>7. a <= j => a <= b
  <2> SUFFICES ASSUME a <= j, ~ (a <= b) PROVE FALSE
    OBVIOUS
  <2>1. a \in a .. j /\ a > b
    BY <1>1, <1>2, <1>4
  <2> QED BY <1>2, <1>4, <2>1
<1>8. b \in i - 1 .. j
  BY <1>1, <1>2, <1>4
<1> QED BY <1>2, <1>4, <1>5, <1>6, <1>7, <1>8

(* normalize_pending_target_text takes white space off both ends, then     *)
(* punctuation off the end, then the white space before it.                *)
LEMMA NormalizeIs ==
  ASSUME NEW t \in Seq(Any)
  PROVE  \E a \in 1 .. Len(t) + 1, b, c, d \in 0 .. Len(t) :
           /\ a - 1 <= d /\ d <= c /\ c <= b
           /\ Normalize(t) = SubSeq(t, a, d)
           /\ \A k \in 1 .. Len(t) : k < a => t[k] \in White
           /\ \A k \in 1 .. Len(t) : b < k => t[k] \in White
           /\ \A k \in 1 .. Len(t) : c < k /\ k <= b => t[k] \in Punct
           /\ \A k \in 1 .. Len(t) : d < k /\ k <= c => t[k] \in White
           /\ a <= Len(t) => t[a] \notin White
           /\ a <= b => t[b] \notin White
           /\ a <= c => t[c] \notin Punct
           /\ a <= d => t[d] \notin White
<1> DEFINE l == Len(t)
<1>1. l \in Nat
  BY EmptySeq
<1>2. SubSeq(t, 1, l) = t
  BY SubSeqFull
<1>3. 1 \in 1 .. l + 1 /\ l \in 1 - 1 .. l
  <2> HIDE DEF l
  <2> QED BY <1>1
<1>4. PICK a \in 1 .. l + 1, b \in 1 - 1 .. l :
           /\ b \in a - 1 .. l
           /\ Trim(SubSeq(t, 1, l)) = SubSeq(t, a, b)
           /\ \A k \in 1 .. l : k < a \/ k > b => t[k] \in White
           /\ a <= l => t[a] \notin White
           /\ b >= a => t[b] \notin White
           /\ a <= l => a <= b
  BY <1>3, TrimOfPart
<1>5. PICK c \in a - 1 .. b :
           /\ TrimEnd(SubSeq(t, a, b), Punct) = SubSeq(t, a, c)
           /\ \A k \in a .. b : k > c => t[k] \in Punct
           /\ c >= a => t[c] \notin Punct
  BY <1>4, TrimEndOfPart
<1> HIDE DEF l
<1>6. c \in a - 1 .. l
  BY <1>1, <1>4, <1>5
<1>7. PICK a2 \in a .. c + 1, d \in a - 1 .. c :
           /\ d \in a2 - 1 .. c
           /\ Trim(SubSeq(t, a, c)) = SubSeq(t, a2, d)
           /\ \A k \in a .. c : k < a2 \/ k > d => t[k] \in White
           /\ a2 <= c => t[a2] \notin White
           /\ d >= a2 => t[d] \notin White
           /\ a2 <= c => a2 <= d
  BY <1>4, <1>6, TrimOfPart DEF l
<1>8. a2 = a
  <2> SUFFICES ASSUME a2 # a PROVE FALSE
    OBVIOUS
  <2>1. a \in a .. c /\ a < a2 /\ a <= l
    BY <1>1, <1>4, <1>6, <1>7
  <2> QED BY <1>4, <1>7, <2>1
<1>9. Normalize(t) = SubSeq(t, a, d)
  <2>1. Trim(t) = SubSeq(t, a, b)
    BY <1>2, <1>4
  <2>2. TrimEnd(Trim(t), Punct) = SubSeq(t, a, c)
    BY <1>5, <2>1
  <2>3. Trim(TrimEnd(Trim(t), Punct)) = SubSeq(t, a, d)
    BY <1>7, <1>8, <2>2
  <2> QED BY <2>3 DEF Normalize
<1>10. b \in 0 .. l /\ c \in 0 .. l /\ d \in 0 .. l /\ a - 1 <= d /\ d <= c /\ c <= b
  BY <1>1, <1>4, <1>5, <1>7
<1>11. \A k \in 1 .. l : k < a => t[k] \in White
  BY <1>4
<1>12. \A k \in 1 .. l : b < k => t[k] \in White
  BY <1>1, <1>4
<1>13. \A k \in 1 .. l : c < k /\ k <= b => t[k] \in Punct
  <2> SUFFICES ASSUME NEW k \in 1 .. l, c < k, k <= b PROVE t[k] \in Punct
    OBVIOUS
  <2>1. k \in a .. b /\ k > c
    BY <1>1, <1>4, <1>5
  <2> QED BY <1>5, <2>1
<1>14. \A k \in 1 .. l : d < k /\ k <= c => t[k] \in White
  <2> SUFFICES ASSUME NEW k \in 1 .. l, d < k, k <= c PROVE t[k] \in White
    OBVIOUS
  <2>1. k \in a .. c /\ k > d
    BY <1>1, <1>4, <1>5, <1>7
  <2> QED BY <1>7, <2>1
<1>15. (a <= b => t[b] \notin White) /\ (a <= c => t[c] \notin Punct) /\ (a <= d => t[d] \notin White)
  BY <1>4, <1>5, <1>7, <1>8, <1>10
<1> QED BY <1>4, <1>9, <1>10, <1>11, <1>12, <1>13, <1>14, <1>15 DEF l

-----------------------------------------------------------------------------
(* What a text says.                                                       *)

(* No symbol is both white space and punctuation.                          *)
LEMMA WhiteIsNotPunct == White \cap Punct = {}
<1> SUFFICES ASSUME NEW s, s \in White, s \in Punct PROVE FALSE
  OBVIOUS
<1> QED BY Zenon DEF White, Punct

(* A text is worded when neither white space nor punctuation can be taken  *)
(* off it.                                                                 *)
Worded(x) == /\ x # <<>> /\ x[1] \notin White
             /\ x[Len(x)] \notin White /\ x[Len(x)] \notin Punct

(* What is left of a text is what it says.                                 *)
LEMMA NormalizeSays ==
  ASSUME NEW t \in Seq(Any), NEW S, \A x \in S : Len(x) <= Len(t) => Worded(x)
  PROVE  Says(t, S) <=> Normalize(t) \in S
<1> DEFINE l == Len(t)
<1>1. l \in Nat
  BY EmptySeq
<1>2. PICK a \in 1 .. l + 1, b \in 0 .. l, c \in 0 .. l, d \in 0 .. l :
           /\ a - 1 <= d /\ d <= c /\ c <= b
           /\ Normalize(t) = SubSeq(t, a, d)
           /\ \A k \in 1 .. l : k < a => t[k] \in White
           /\ \A k \in 1 .. l : b < k => t[k] \in White
           /\ \A k \in 1 .. l : c < k /\ k <= b => t[k] \in Punct
           /\ \A k \in 1 .. l : d < k /\ k <= c => t[k] \in White
           /\ a <= l => t[a] \notin White
           /\ a <= b => t[b] \notin White
           /\ a <= c => t[c] \notin Punct
           /\ a <= d => t[d] \notin White
  BY NormalizeIs
<1>3. Says(t, S) <=>
        \E i \in 1 .. l : \E j \in i .. l :
          /\ SubSeq(t, i, j) \in S
          /\ \A k \in 1 .. i - 1 : t[k] \in White
          /\ \E p, q \in j .. l :
               /\ p <= q
               /\ \A k \in j + 1 .. l : t[k] \in IF k > p /\ k <= q THEN Punct ELSE White
  <2>1. DOMAIN t = 1 .. l
    BY LenProperties
  <2> QED BY <2>1, Zenon DEF Says
<1>4. ASSUME Normalize(t) \in S PROVE Says(t, S)
  <2>1. a <= d
    <3> SUFFICES ASSUME ~ (a <= d) PROVE FALSE
      OBVIOUS
    <3>1. a \in Int /\ d \in Int /\ d < a
      <4> HIDE DEF l
      <4> QED BY <1>1, <1>2
    <3>2. SubSeq(t, a, d) = <<>>
      BY <3>1, SubSeqEmpty
    <3>3. <<>> \in S /\ Len(<<>>) = 0 /\ 0 <= Len(t)
      BY <1>1, <1>2, <1>4, <3>2
    <3> QED BY <3>3 DEF Worded
  <2> HIDE DEF l
  <2>2. a \in 1 .. l /\ d \in a .. l /\ c \in d .. l /\ b \in d .. l
    BY <1>1, <1>2, <2>1
  <2>3. \A k \in 1 .. a - 1 : t[k] \in White
    <3> SUFFICES ASSUME NEW k \in 1 .. a - 1 PROVE t[k] \in White
      OBVIOUS
    <3>1. k \in 1 .. l /\ k < a
      BY <1>1, <2>2
    <3> QED BY <1>2, <3>1
  <2>4. \A k \in d + 1 .. l : t[k] \in IF k > c /\ k <= b THEN Punct ELSE White
    <3> SUFFICES ASSUME NEW k \in d + 1 .. l
                 PROVE  t[k] \in IF k > c /\ k <= b THEN Punct ELSE White
      OBVIOUS
    <3>1. k \in 1 .. l /\ d < k
      BY <1>1, <2>2
    <3>2. CASE k <= c
      <4>1. t[k] \in White /\ ~ (k > c)
        BY <1>2, <2>2, <3>1, <3>2
      <4> QED BY <4>1
    <3>3. CASE c < k /\ k <= b
      BY <1>2, <3>1, <3>3
    <3>4. CASE b < k
      <4>1. t[k] \in White /\ ~ (k <= b)
        BY <1>2, <2>2, <3>1, <3>4
      <4> QED BY <4>1
    <3>5. k <= c \/ (c < k /\ k <= b) \/ b < k
      BY <2>2, <3>1
    <3> QED BY <3>2, <3>3, <3>4, <3>5
  <2>5. SubSeq(t, a, d) \in S /\ c <= b
    BY <1>2, <1>4
  <2> QED BY <1>3, <2>2, <2>3, <2>4, <2>5
<1>5. ASSUME Says(t, S) PROVE Normalize(t) \in S
  <2>11. PICK i \in 1 .. l : \E j \in i .. l :
          /\ SubSeq(t, i, j) \in S
          /\ \A k \in 1 .. i - 1 : t[k] \in White
          /\ \E p, q \in j .. l :
               /\ p <= q
               /\ \A k \in j + 1 .. l : t[k] \in IF k > p /\ k <= q THEN Punct ELSE White
    BY <1>3, <1>5
  <2>1. PICK j \in i .. l :
          /\ SubSeq(t, i, j) \in S
          /\ \A k \in 1 .. i - 1 : t[k] \in White
          /\ \E p, q \in j .. l :
               /\ p <= q
               /\ \A k \in j + 1 .. l : t[k] \in IF k > p /\ k <= q THEN Punct ELSE White
    BY <2>11
  <2>2. PICK p \in j .. l, q \in j .. l :
          /\ p <= q
          /\ \A k \in j + 1 .. l : t[k] \in IF k > p /\ k <= q THEN Punct ELSE White
    BY <2>1
  <2>3. t[i] \notin White /\ t[j] \notin White /\ t[j] \notin Punct
    <3> DEFINE x == SubSeq(t, i, j)
    <3>0. i \in 1 .. l + 1 /\ j \in i - 1 .. l /\ i <= j
      <4> HIDE DEF l
      <4> QED BY <1>1, <2>11, <2>1
    <3>1. /\ x \in Seq(Any) /\ Len(x) = (j - i) + 1
          /\ \A k \in 1 .. (j - i) + 1 : x[k] = t[(i + k) - 1]
      BY <3>0, PartOf
    <3>2. Len(x) <= Len(t) => Worded(x)
      BY <2>1
    <3>6. Len(x) <= Len(t)
      <4>1. (j - i) + 1 <= l
        <5> HIDE DEF l
        <5> QED BY <1>1, <2>11, <2>1, <3>0
      <4> QED BY <3>1, <4>1
    <3> HIDE DEF x, l
    <3>3. /\ 1 \in 1 .. (j - i) + 1 /\ (j - i) + 1 \in 1 .. (j - i) + 1
          /\ (i + 1) - 1 = i /\ (i + ((j - i) + 1)) - 1 = j
      BY <1>1, <2>11, <2>1, <3>0
    <3>4. x[1] = t[(i + 1) - 1] /\ x[(j - i) + 1] = t[(i + ((j - i) + 1)) - 1]
      BY <3>1, <3>3
    <3>5. x[1] = t[i] /\ x[Len(x)] = t[j]
      BY <3>1, <3>3, <3>4
    <3> QED BY <3>2, <3>6, <3>5 DEF Worded
  <2> HIDE DEF l
  <2>10. i \in 1 .. l /\ j \in 1 .. l /\ i <= j
    BY <1>1, <2>11, <2>1
  <2>4. a = i
    <3>1. ~ (i < a)
      BY <1>2, <2>3, <2>10
    <3>2. ~ (a < i)
      <4> SUFFICES ASSUME a < i PROVE FALSE
        OBVIOUS
      <4>1. a \in 1 .. i - 1 /\ a <= l
        BY <1>1, <1>2, <2>10
      <4> QED BY <1>2, <2>1, <4>1
    <3> QED BY <1>1, <1>2, <2>10, <3>1, <3>2
  <2>5. j <= b
    BY <1>1, <1>2, <2>3, <2>10
  <2>6. j <= c
    BY <1>1, <1>2, <2>3, <2>5, <2>10
  <2>7. j <= d
    BY <1>1, <1>2, <2>3, <2>6, <2>10
  <2>8. ~ (j < d)
    <3> SUFFICES ASSUME j < d PROVE FALSE
      OBVIOUS
    <3>11. \A s : ~ (s \in White /\ s \in Punct)
      BY WhiteIsNotPunct
    <3>0. a <= d /\ a <= c /\ a <= b
      BY <1>1, <1>2, <2>10, <2>4
    <3>1. d \in j + 1 .. l /\ c \in j + 1 .. l /\ b \in j + 1 .. l
      BY <1>1, <1>2, <2>10
    <3>2. t[d] \notin White /\ t[c] \notin Punct /\ t[b] \notin White
      BY <1>2, <3>0
    <3>3. d > p /\ d <= q /\ t[d] \in Punct
      BY <2>2, <3>1, <3>2
    <3>4. d # c
      BY <3>2, <3>3
    <3>5. t[c] \in White
      <4>1. c \in 1 .. l /\ d < c /\ c <= c
        BY <1>1, <1>2, <3>4
      <4> QED BY <1>2, <4>1
    <3>6. c > q
      <4> SUFFICES ASSUME ~ (c > q) PROVE FALSE
        OBVIOUS
      <4>1. c > p /\ c <= q
        BY <1>1, <1>2, <2>2, <3>3
      <4>2. t[c] \in Punct
        BY <2>2, <3>1, <4>1
      <4> QED BY <3>2, <4>2
    <3>7. b # c
      BY <3>2, <3>5
    <3>8. t[b] \in Punct
      <4>1. b \in 1 .. l /\ c < b /\ b <= b
        BY <1>1, <1>2, <3>7
      <4> QED BY <1>2, <4>1
    <3>9. ~ (b <= q)
      BY <1>1, <1>2, <2>2, <3>6
    <3>10. t[b] \in White
      BY <2>2, <3>1, <3>9
    <3> QED BY <3>2, <3>10
  <2>9. d = j
    BY <1>1, <1>2, <2>10, <2>7, <2>8
  <2> QED BY <1>2, <2>1, <2>4, <2>9
<1> QED BY <1>4, <1>5

-----------------------------------------------------------------------------
(* The names of items.                                                     *)

(* The names of an item are texts.                                         *)
LEMMA OrdinalsAreTexts ==
  ASSUME NEW n \in 1 .. 99, NEW x \in Ordinals(n)
  PROVE  x \in Seq(Any)
<1> DEFINE P == {<<>>, <<"di">>}
           K == {<<>>} \cup {<<w>> : w \in Counters}
<1>1. PICK p \in P, u \in Counted(n) : x = p \o u
  <2>1. x \in Join(P, Counted(n))
    BY DEF Ordinals
  <2> HIDE DEF P
  <2> QED BY <2>1, Joined
<1>2. PICK y \in Numbers(n), k \in K : u = y \o k
  <2>1. u \in Join(Numbers(n), K)
    BY DEF Counted
  <2> HIDE DEF K
  <2> QED BY <2>1, Joined
<1>3. p \in Seq(Any) /\ k \in Seq(Any)
  <2>1. "di" \in Any /\ \A w \in Counters : w \in Any
    BY GlyphsAreSymbols
  <2>2. \A s \in Any : <<s>> \in Seq(Any)
    OBVIOUS
  <2>3. \A q \in P : q = <<>> \/ q = <<"di">>
    OBVIOUS
  <2>4. \A q \in K : q = <<>> \/ \E w \in Counters : q = <<w>>
    OBVIOUS
  <2>5. <<>> \in Seq(Any)
    OBVIOUS
  <2> HIDE DEF P, K
  <2>6. p \in Seq(Any)
    BY <1>1, <2>1, <2>2, <2>3, <2>5
  <2>7. k \in Seq(Any)
    <3>1. CASE k = <<>>
      BY <2>5, <3>1
    <3>2. ASSUME NEW w \in Counters, k = <<w>> PROVE k \in Seq(Any)
      BY <2>1, <2>2, <3>2
    <3> QED BY <1>2, <2>4, <3>1, <3>2
  <2> QED BY <2>6, <2>7
<1>4. y \in Seq(Any)
  BY NumbersAreTexts
<1>5. u \in Seq(Any)
  BY <1>2, <1>3, <1>4, ConcatProperties
<1> QED BY <1>1, <1>3, <1>5, ConcatProperties

(* The name of an item begins with its prefix or a numeral and ends with a *)
(* numeral or a counter.                                                   *)
LEMMA OrdinalEnds ==
  ASSUME NEW n \in 1 .. 99, NEW x \in Ordinals(n), Len(x) <= MaxLen
  PROVE  /\ x # <<>>
         /\ x[1] = "di" \/ Numeral(x[1])
         /\ Numeral(x[Len(x)]) \/ x[Len(x)] \in Counters
<1> DEFINE u == WithoutPrefix(x)
<1>1. x \in Seq(Any)
  BY OrdinalsAreTexts
<1>2. u \in Seq(Any) /\ Len(u) <= Len(x)
  BY <1>1, WithoutPrefixText
<1>3. Len(u) \in Nat /\ Len(x) \in Nat /\ MaxLen \in Nat
  BY <1>1, <1>2, EmptySeq, CommandsAssumption
<1>4. Len(u) <= MaxLen
  BY <1>2, <1>3
<1>5. u \in Counted(n)
  BY <1>1, OrdinalTexts
<1>6. u # <<>> /\ Numeral(u[1]) /\ (Numeral(u[Len(u)]) \/ u[Len(u)] \in Counters)
  <2> HIDE DEF u
  <2> QED BY <1>2, <1>4, <1>5, CountedHead
<1>7. u = IF x # <<>> /\ x[1] = "di" THEN Tail(x) ELSE x
  BY <1>1, WithoutPrefixText
<1>8. CASE x # <<>> /\ x[1] = "di"
  <2>1. u = Tail(x)
    BY <1>7, <1>8
  <2>2. Len(u) = Len(x) - 1 /\ \A i \in 1 .. Len(x) - 1 : u[i] = x[i + 1]
    BY <1>1, <1>8, <2>1, HeadTailProperties
  <2>3. Len(u) \in 1 .. Len(u)
    <3> HIDE DEF u
    <3> QED BY <1>2, <1>6, LastIsInside
  <2> DEFINE l == Len(x)
             m == Len(u)
  <2>4. l \in Nat /\ m = l - 1 /\ m \in 1 .. m /\ \A i \in 1 .. l - 1 : u[i] = x[i + 1]
    BY <1>3, <2>2, <2>3
  <2>5. u[m] = x[l]
    <3> HIDE DEF l, m, u
    <3>1. m \in 1 .. l - 1 /\ m + 1 = l
      BY <2>4
    <3> QED BY <2>4, <3>1
  <2> QED BY <1>6, <1>8, <2>5
<1>9. CASE ~ (x # <<>> /\ x[1] = "di")
  BY <1>6, <1>7, <1>9
<1> QED BY <1>8, <1>9

(* Nothing can be trimmed off the name of an item, and it is not "last".   *)
LEMMA OrdinalsAreWorded ==
  ASSUME NEW n \in 1 .. 99, NEW x \in Ordinals(n), Len(x) <= MaxLen
  PROVE  Worded(x) /\ x \notin LastWords
<1>1. /\ x # <<>>
      /\ x[1] = "di" \/ Numeral(x[1])
      /\ Numeral(x[Len(x)]) \/ x[Len(x)] \in Counters
  BY OrdinalEnds
<1>2. "di" \notin White /\ "di" # "last" /\ "di" # "latest"
  BY Zenon DEF White
<1>3. \A w \in Counters : w \notin White /\ w \notin Punct
  BY Zenon DEF White, Punct, Counters
<1>4. \A s : Numeral(s) => s \notin White /\ s \notin Punct /\ s # "last" /\ s # "latest"
  BY NumeralsAreNoWords
<1>5. x[1] \notin White /\ x[1] # "last" /\ x[1] # "latest"
  BY <1>1, <1>2, <1>4
<1>6. x[Len(x)] \notin White /\ x[Len(x)] \notin Punct
  BY <1>1, <1>3, <1>4
<1>7. \A t \in LastWords : t[1] = "last" \/ t[1] = "latest"
  BY DEF LastWords
<1> QED BY <1>1, <1>5, <1>6, <1>7 DEF Worded

(* Of a text, only its number is read, and 0 is never read.                *)
LEMMA TargetIsNumber ==
  ASSUME NEW t, NEW n
  PROVE  ParseTarget(t) = Ordinal(n) <=>
           /\ Normalize(t) # <<>> /\ Normalize(t) \notin LastWords
           /\ OrdinalOf(Normalize(t)) = n /\ n # 0
<1> DEFINE x == Normalize(t)
           number == OrdinalOf(x)
<1>0. <<>> \notin LastWords
  BY DEF LastWords
<1>k. \A k : /\ Ordinal(k).kind = "ordinal" /\ Ordinal(k).index = k
  BY DEF Ordinal
<1>1. CASE x = <<>>
  <2>1. ParseTarget(t) = Implicit
    BY <1>0, <1>1 DEF ParseTarget
  <2> QED BY <1>1, <1>k, <2>1 DEF Implicit
<1>2. CASE x \in LastWords
  <2>1. ParseTarget(t) = Last
    BY <1>0, <1>2 DEF ParseTarget
  <2> QED BY <1>2, <1>k, <2>1 DEF Last
<1>3. CASE x # <<>> /\ x \notin LastWords /\ number # 0
  <2>1. ParseTarget(t) = Ordinal(number)
    BY <1>3 DEF ParseTarget
  <2> HIDE DEF number, x
  <2> QED BY <1>3, <1>k, <2>1 DEF number, x
<1>4. CASE x # <<>> /\ x \notin LastWords /\ number = 0
  <2>1. ParseTarget(t) = Token(x)
    BY <1>4 DEF ParseTarget
  <2>2. ParseTarget(t).kind = "token"
    <3> HIDE DEF x
    <3> QED BY <2>1 DEF Token
  <2>3. ParseTarget(t) # Ordinal(n)
    BY <1>k, <2>2
  <2> QED BY <1>4, <2>3
<1> QED BY <1>1, <1>2, <1>3, <1>4

(* The names the property speaks of are these.                             *)
LEMMA NamesAreOrdinals ==
  ASSUME NEW n \in 1 .. MaxNumber
  PROVE  Names[n] = Ordinals(n) /\ n \in 1 .. 99
<1>1. MaxNumber \in 0 .. 99
  BY CommandsAssumption
<1>2. n \in 1 .. 99 /\ n \in 0 .. MaxNumber /\ n # 0
  BY <1>1
<1> QED BY <1>2, Zenon DEF Names, Ordinals, Counted, Numbers

(* There is no name of 0.                                                  *)
LEMMA NoNameOfNothing == Names[0] = {}
<1>1. 0 \in 0 .. MaxNumber
  BY CommandsAssumption
<1> QED BY <1>1 DEF Names

(* Nothing is added to a text by trimming it.                              *)
LEMMA NormalizeShortens ==
  ASSUME NEW t \in Seq(Any), Len(t) <= MaxLen
  PROVE  Normalize(t) \in Seq(Any) /\ Len(Normalize(t)) <= MaxLen
<1> DEFINE l == Len(t)
<1>1. l \in Nat /\ MaxLen \in Nat
  BY EmptySeq, CommandsAssumption
<1>2. PICK a \in 1 .. l + 1, b, c, d \in 0 .. l :
           /\ a - 1 <= d /\ d <= c /\ c <= b
           /\ Normalize(t) = SubSeq(t, a, d)
  BY NormalizeIs
<1>3. d \in a - 1 .. l /\ a \in 1 .. l + 1 /\ (d - a) + 1 <= l
  <2> HIDE DEF l
  <2> QED BY <1>1, <1>2
<1>4. SubSeq(t, a, d) \in Seq(Any) /\ Len(SubSeq(t, a, d)) = (d - a) + 1
  BY <1>3, PartOf
<1> HIDE DEF l
<1>5. (d - a) + 1 <= MaxLen
  BY <1>1, <1>2, <1>3 DEF l
<1> QED BY <1>2, <1>4, <1>5

(* NumbersRead, of every text that can be typed.                           *)
LEMMA NumbersReadOn ==
  ASSUME text \in Text, Len(text) <= MaxLen
  PROVE  NumbersRead
<1> SUFFICES ASSUME NEW n \in 0 .. MaxNumber
             PROVE  ParseTarget(text) = Ordinal(n) <=> Says(text, Names[n])
  BY DEF NumbersRead
<1> DEFINE x == Normalize(text)
<1>1. text \in Seq(Any)
  BY TextIsSequence
<1>2. CASE n = 0
  <2>1. ~ Says(text, {})
    BY DEF Says
  <2> QED BY <1>2, <2>1, NoNameOfNothing, TargetIsNumber
<1>3. CASE n # 0
  <2>1. n \in 1 .. MaxNumber
    BY <1>3, CommandsAssumption
  <2>2. Names[n] = Ordinals(n) /\ n \in 1 .. 99
    BY <2>1, NamesAreOrdinals
  <2>3. x \in Seq(Any) /\ Len(x) <= MaxLen
    BY <1>1, NormalizeShortens
  <2>4. \A y \in Ordinals(n) : Len(y) <= Len(text) => Worded(y)
    <3> SUFFICES ASSUME NEW y \in Ordinals(n), Len(y) <= Len(text) PROVE Worded(y)
      OBVIOUS
    <3>1. y \in Seq(Any)
      BY <2>2, OrdinalsAreTexts
    <3>2. Len(y) \in Nat /\ Len(text) \in Nat /\ MaxLen \in Nat
      BY <1>1, <3>1, EmptySeq, CommandsAssumption
    <3>3. Len(y) <= MaxLen
      BY <3>2
    <3> QED BY <2>2, <3>3, OrdinalsAreWorded
  <2>5. Says(text, Ordinals(n)) <=> x \in Ordinals(n)
    BY <1>1, <2>4, NormalizeSays
  <2> HIDE DEF x
  <2>6. OrdinalOf(x) = n <=> x \in Ordinals(n)
    BY <2>2, <2>3, OrdinalOfText, ChineseOrdinalReads
  <2>7. x \in Ordinals(n) => x # <<>> /\ x \notin LastWords
    BY <2>2, <2>3, OrdinalsAreWorded DEF Worded
  <2>8. ParseTarget(text) = Ordinal(n) <=>
          x # <<>> /\ x \notin LastWords /\ OrdinalOf(x) = n /\ n # 0
    BY TargetIsNumber DEF x
  <2> QED BY <1>3, <2>2, <2>5, <2>6, <2>7, <2>8
<1> QED BY <1>2, <1>3

(* NumbersRead: a text is read as the number of an item exactly if it is   *)
(* one of the ways to write it, for texts of any bounded length over any   *)
(* symbols, and for every number up to 99.                                 *)
THEOREM NumbersAreRead == Spec => []NumbersRead
<1>1. Typed => NumbersRead
  BY NumbersReadOn DEF Typed
<1> QED BY <1>1, TypedTexts, PTL

-----------------------------------------------------------------------------
(* Trimming, by what is around a text.                                     *)

(* A blank is a text of one white symbol.                                  *)
LEMMA BlankIs == Blank \in Seq(Any) /\ Len(Blank) = 1 /\ Blank[1] \in White /\ Blank[1] \in Any
<1>1. \A s \in Any : <<s>> \in Seq(Any) /\ Len(<<s>>) = 1 /\ <<s>>[1] = s
  OBVIOUS
<1>2. " " \in White
  BY Zenon DEF White
<1>3. " " \in Any
  BY <1>2, GlyphsAreSymbols, Zenon
<1> QED BY <1>1, <1>2, <1>3, Zenon DEF Blank

(* Trimming stops at the first and the last symbol that are not white.     *)
LEMMA TrimIs ==
  ASSUME NEW t \in Seq(Any), NEW i \in 1 .. Len(t), NEW j \in i .. Len(t),
         t[i] \notin White, t[j] \notin White,
         \A k \in 1 .. Len(t) : k < i \/ k > j => t[k] \in White
  PROVE  Trim(t) = SubSeq(t, i, j)
<1> DEFINE l == Len(t)
<1>1. l \in Nat /\ i \in 1 .. l /\ j \in i .. l
  BY EmptySeq
<1>2. SubSeq(t, 1, l) = t
  BY SubSeqFull
<1>3. \A k \in 1 .. l : k < i \/ k > j => t[k] \in White
  OBVIOUS
<1>4. PICK a \in 1 .. l + 1, b \in 1 - 1 .. l :
           /\ b \in a - 1 .. l
           /\ Trim(t) = SubSeq(t, a, b)
           /\ \A k \in 1 .. l : k < a \/ k > b => t[k] \in White
           /\ a <= l => t[a] \notin White
           /\ b >= a => t[b] \notin White
           /\ a <= l => a <= b
  <2>1. 1 \in 1 .. l + 1 /\ l \in 1 - 1 .. l
    <3> HIDE DEF l
    <3> QED BY <1>1
  <2>2. \E a \in 1 .. l + 1, b \in 1 - 1 .. l :
           /\ b \in a - 1 .. l
           /\ Trim(SubSeq(t, 1, l)) = SubSeq(t, a, b)
           /\ \A k \in 1 .. l : k < a \/ k > b => t[k] \in White
           /\ a <= l => t[a] \notin White
           /\ b >= a => t[b] \notin White
           /\ a <= l => a <= b
    BY <2>1, TrimOfPart
  <2> QED BY <1>2, <2>2
<1> HIDE DEF l
<1>5. ~ (i < a) /\ ~ (i > b)
  BY <1>1, <1>4
<1>6. ~ (j < a) /\ ~ (j > b)
  BY <1>1, <1>4
<1>7. a = i
  <2>1. a \in 1 .. l
    BY <1>1, <1>4, <1>5
  <2>2. ~ (a < i)
    BY <1>1, <1>3, <1>4, <2>1
  <2> QED BY <1>1, <1>5, <2>1, <2>2
<1>8. b = j
  <2>1. b \in 1 .. l /\ b >= a
    BY <1>1, <1>4, <1>5, <1>6, <1>7
  <2>2. ~ (b > j)
    BY <1>1, <1>3, <1>4, <2>1
  <2> QED BY <1>1, <1>6, <2>1, <2>2
<1> QED BY <1>4, <1>7, <1>8

(* Where there is something to trim, it lies between those two.            *)
LEMMA TrimWindow ==
  ASSUME NEW t \in Seq(Any), Trim(t) # <<>>
  PROVE  \E i \in 1 .. Len(t) : \E j \in i .. Len(t) :
           /\ Trim(t) = SubSeq(t, i, j)
           /\ t[i] \notin White /\ t[j] \notin White
           /\ \A k \in 1 .. Len(t) : k < i \/ k > j => t[k] \in White
<1> DEFINE l == Len(t)
<1>1. l \in Nat
  BY EmptySeq
<1>2. SubSeq(t, 1, l) = t
  BY SubSeqFull
<1>3. 1 \in 1 .. l + 1 /\ l \in 1 - 1 .. l
  <2> HIDE DEF l
  <2> QED BY <1>1
<1>4. \E a \in 1 .. l + 1, b \in 1 - 1 .. l :
           /\ b \in a - 1 .. l
           /\ Trim(SubSeq(t, 1, l)) = SubSeq(t, a, b)
           /\ \A k \in 1 .. l : k < a \/ k > b => t[k] \in White
           /\ a <= l => t[a] \notin White
           /\ b >= a => t[b] \notin White
           /\ a <= l => a <= b
  BY <1>3, TrimOfPart
<1>5. PICK a \in 1 .. l + 1, b \in 1 - 1 .. l :
           /\ b \in a - 1 .. l
           /\ Trim(t) = SubSeq(t, a, b)
           /\ \A k \in 1 .. l : k < a \/ k > b => t[k] \in White
           /\ a <= l => t[a] \notin White
           /\ b >= a => t[b] \notin White
  BY <1>2, <1>4
<1>6. a <= b
  <2> SUFFICES ASSUME b < a PROVE FALSE
    <3> HIDE DEF l
    <3> QED BY <1>1, <1>5
  <2>1. SubSeq(t, a, b) = <<>>
    <3>1. a \in Int /\ b \in Int
      <4> HIDE DEF l
      <4> QED BY <1>1, <1>5
    <3> QED BY <3>1, SubSeqEmpty
  <2> QED BY <1>5, <2>1
<1> HIDE DEF l
<1>7. a \in 1 .. l /\ b \in a .. l
  BY <1>1, <1>5, <1>6
<1>8. t[a] \notin White /\ t[b] \notin White
  BY <1>1, <1>5, <1>7
<1> QED BY <1>5, <1>7, <1>8 DEF l

(* A text without white space at its ends is left as it is.                *)
LEMMA TrimNothing ==
  ASSUME NEW t \in Seq(Any), t # <<>>, t[1] \notin White, t[Len(t)] \notin White
  PROVE  Trim(t) = t
<1> DEFINE l == Len(t)
<1>1. l \in Nat \ {0}
  BY EmptySeq
<1>2. SubSeq(t, 1, l) = t
  BY SubSeqFull
<1>3. /\ 1 \in 1 .. Len(t) /\ Len(t) \in 1 .. Len(t)
      /\ \A k \in 1 .. Len(t) : ~ (k < 1 \/ k > Len(t))
  <2> HIDE DEF l
  <2>1. /\ 1 \in 1 .. l /\ l \in 1 .. l
        /\ \A k \in 1 .. l : ~ (k < 1 \/ k > l)
    BY <1>1
  <2> QED BY <2>1 DEF l
<1>4. Trim(t) = SubSeq(t, 1, Len(t))
  BY <1>3, TrimIs
<1> QED BY <1>2, <1>4

(* What is put before a text, and a blank, can be taken off again.         *)
LEMMA CutOff ==
  ASSUME NEW p \in Seq(Any), NEW q \in Seq(Any)
  PROVE  Begins(p \o q, p) /\ After(p \o q, p) = q
<1> DEFINE t == p \o q
           m == Len(p)
           n == Len(q)
<1>1. /\ m \in Nat /\ n \in Nat /\ t \in Seq(Any) /\ Len(t) = m + n
      /\ \A i \in 1 .. m + n : t[i] = IF i <= m THEN p[i] ELSE q[i - m]
  BY EmptySeq, ConcatProperties
<1>2. SubSeq(t, 1, m) = p
  <2> DEFINE x == SubSeq(t, 1, m)
  <2>1. m \in 0 .. Len(t)
    <3> HIDE DEF m, n, t
    <3> QED BY <1>1
  <2>2. x \in Seq(Any) /\ Len(x) = m /\ \A k \in 1 .. m : x[k] = t[k]
    <3> HIDE DEF m, t
    <3> QED BY <1>1, <2>1, PrefixOf
  <2>3. \A k \in 1 .. m : x[k] = p[k]
    <3> HIDE DEF x, m, n, t
    <3> SUFFICES ASSUME NEW k \in 1 .. m PROVE x[k] = p[k]
      OBVIOUS
    <3>1. k \in 1 .. m + n /\ k <= m
      BY <1>1
    <3>2. t[k] = p[k]
      BY <1>1, <3>1
    <3> QED BY <2>2, <3>2
  <2> HIDE DEF x, t
  <2> QED BY <2>2, <2>3, SeqEqual DEF x
<1>3. SubSeq(t, m + 1, Len(t)) = q
  <2> DEFINE y == SubSeq(t, m + 1, Len(t))
  <2>1. m + 1 \in 1 .. Len(t) + 1 /\ Len(t) \in (m + 1) - 1 .. Len(t) /\ (Len(t) - (m + 1)) + 1 = n
    <3> HIDE DEF m, n, t
    <3> QED BY <1>1
  <2>2. y \in Seq(Any) /\ Len(y) = n /\ \A k \in 1 .. n : y[k] = t[((m + 1) + k) - 1]
    <3> HIDE DEF m, n, t
    <3>1. y \in Seq(Any) /\ Len(y) = (Len(t) - (m + 1)) + 1
          /\ \A k \in 1 .. (Len(t) - (m + 1)) + 1 : y[k] = t[((m + 1) + k) - 1]
      BY <1>1, <2>1, PartOf
    <3> QED BY <2>1, <3>1
  <2>3. \A k \in 1 .. n : y[k] = q[k]
    <3> HIDE DEF y, m, n, t
    <3> SUFFICES ASSUME NEW k \in 1 .. n PROVE y[k] = q[k]
      OBVIOUS
    <3>1. ((m + 1) + k) - 1 = m + k /\ m + k \in 1 .. m + n /\ ~ (m + k <= m) /\ (m + k) - m = k
      BY <1>1
    <3> QED BY <1>1, <2>2, <3>1
  <2>4. y = q
    <3> HIDE DEF y
    <3> QED BY <2>2, <2>3, SeqEqual
  <2> QED BY <2>4
<1>4. m <= Len(t)
  <2> HIDE DEF m, n, t
  <2> QED BY <1>1
<1> HIDE DEF t
<1> QED BY <1>2, <1>3, <1>4 DEF Begins, After, t

(* White space before a text is trimmed with the text's own.               *)
LEMMA TrimAfterBlank ==
  ASSUME NEW q \in Seq(Any), Trim(q) # <<>>
  PROVE  Trim(Blank \o q) = Trim(q)
<1> DEFINE t == Blank \o q
           l == Len(q)
<1>1. /\ l \in Nat /\ t \in Seq(Any) /\ Len(t) = l + 1
      /\ \A k \in 1 .. l + 1 : t[k] = IF k <= 1 THEN Blank[k] ELSE q[k - 1]
  <2>1. l \in Nat
    BY EmptySeq
  <2>2. /\ t \in Seq(Any) /\ Len(t) = Len(Blank) + l
        /\ \A k \in 1 .. Len(Blank) + l :
             t[k] = IF k <= Len(Blank) THEN Blank[k] ELSE q[k - Len(Blank)]
    BY BlankIs, ConcatProperties
  <2>3. Len(Blank) = 1
    BY BlankIs
  <2>4. 1 + l = l + 1
    BY <2>1
  <2> HIDE DEF l, t
  <2> QED BY <2>1, <2>2, <2>3, <2>4
<1>2. PICK i \in 1 .. l : \E j \in i .. l :
           /\ Trim(q) = SubSeq(q, i, j)
           /\ q[i] \notin White /\ q[j] \notin White
           /\ \A k \in 1 .. l : k < i \/ k > j => q[k] \in White
  BY TrimWindow
<1>3. PICK j \in i .. l :
           /\ Trim(q) = SubSeq(q, i, j)
           /\ q[i] \notin White /\ q[j] \notin White
           /\ \A k \in 1 .. l : k < i \/ k > j => q[k] \in White
  BY <1>2
<1>4. t[i + 1] = q[i] /\ t[j + 1] = q[j] /\ t[1] \in White
  <2> HIDE DEF l, t
  <2>1. /\ i + 1 \in 1 .. l + 1 /\ j + 1 \in 1 .. l + 1 /\ 1 \in 1 .. l + 1
        /\ ~ (i + 1 <= 1) /\ ~ (j + 1 <= 1) /\ (i + 1) - 1 = i /\ (j + 1) - 1 = j /\ 1 <= 1
    BY <1>1, <1>2, <1>3
  <2> QED BY <1>1, <2>1, BlankIs
<1>5. \A k \in 1 .. Len(t) : k < i + 1 \/ k > j + 1 => t[k] \in White
  <2> HIDE DEF l, t
  <2> SUFFICES ASSUME NEW k \in 1 .. l + 1, k < i + 1 \/ k > j + 1 PROVE t[k] \in White
    BY <1>1
  <2>1. CASE k = 1
    BY <1>4, <2>1
  <2>2. CASE k # 1
    <3>1. k - 1 \in 1 .. l /\ (k - 1 < i \/ k - 1 > j) /\ ~ (k <= 1)
      BY <1>1, <1>2, <1>3, <2>2
    <3> QED BY <1>1, <1>3, <3>1
  <2> QED BY <2>1, <2>2
<1>6. Trim(t) = SubSeq(t, i + 1, j + 1)
  <2>1. i + 1 \in 1 .. Len(t) /\ j + 1 \in i + 1 .. Len(t)
    <3> HIDE DEF l, t
    <3> QED BY <1>1, <1>2, <1>3
  <2> HIDE DEF t
  <2> QED BY <1>1, <1>3, <1>4, <1>5, <2>1, TrimIs
<1>7. SubSeq(t, i + 1, j + 1) = SubSeq(q, i, j)
  <2> HIDE DEF l
  <2>1. i + 1 \in 1 + 1 .. 1 + l /\ j + 1 \in 1 + 1 .. 1 + l /\ (i + 1) - 1 = i /\ (j + 1) - 1 = j
    BY <1>1, <1>2, <1>3
  <2>2. i + 1 \in Len(Blank) + 1 .. Len(Blank) + Len(q) /\ j + 1 \in Len(Blank) + 1 .. Len(Blank) + Len(q)
    BY <2>1, BlankIs DEF l
  <2>3. SubSeq(t, i + 1, j + 1) = SubSeq(q, (i + 1) - Len(Blank), (j + 1) - Len(Blank))
    BY <2>2, BlankIs, SubSeqOfConcat2
  <2> QED BY <2>1, <2>3, BlankIs
<1> QED BY <1>3, <1>6, <1>7

(* A text's end is trimmed, whatever is put before it.                     *)
LEMMA TrimBehind ==
  ASSUME NEW t \in Seq(Any), Trim(t) # <<>>
  PROVE  \E e \in Seq(Any) :
           /\ e # <<>> /\ e[Len(e)] \notin White /\ Trim(e) = Trim(t)
           /\ \A p \in Seq(Any) : p # <<>> /\ p[1] \notin White => Trim(p \o t) = p \o e
<1> DEFINE l == Len(t)
<1>1. l \in Nat
  BY EmptySeq
<1>2. PICK i \in 1 .. l : \E j \in i .. l :
           /\ Trim(t) = SubSeq(t, i, j)
           /\ t[i] \notin White /\ t[j] \notin White
           /\ \A k \in 1 .. l : k < i \/ k > j => t[k] \in White
  BY TrimWindow
<1>3. PICK j \in i .. l :
           /\ Trim(t) = SubSeq(t, i, j)
           /\ t[i] \notin White /\ t[j] \notin White
           /\ \A k \in 1 .. l : k < i \/ k > j => t[k] \in White
  BY <1>2
<1> DEFINE e == SubSeq(t, 1, j)
<1>4. e \in Seq(Any) /\ Len(e) = j /\ \A k \in 1 .. j : e[k] = t[k]
  <2>1. j \in 0 .. Len(t)
    <3> HIDE DEF l
    <3>1. j \in 0 .. l
      BY <1>1, <1>2, <1>3
    <3> QED BY <3>1 DEF l
  <2> QED BY <2>1, PrefixOf
<1>5. e # <<>> /\ e[Len(e)] \notin White /\ e[i] \notin White
  <2> HIDE DEF l, e
  <2>1. j \in 1 .. j /\ i \in 1 .. j /\ j # 0
    BY <1>1, <1>2, <1>3
  <2> QED BY <1>3, <1>4, <2>1, EmptySeq
<1>6. Trim(e) = Trim(t)
  <2>1. Trim(e) = SubSeq(e, i, j)
    <3> HIDE DEF l, e
    <3>1. i \in 1 .. Len(e) /\ j \in i .. Len(e)
      BY <1>1, <1>2, <1>3, <1>4
    <3>2. \A k \in 1 .. Len(e) : k < i \/ k > j => e[k] \in White
      BY <1>1, <1>2, <1>3, <1>4
    <3>3. e[j] \notin White
      BY <1>4, <1>5
    <3> QED BY <1>4, <1>5, <3>1, <3>2, <3>3, TrimIs
  <2>2. SubSeq(e, i, j) = SubSeq(t, i, j)
    <3> DEFINE x == SubSeq(e, i, j)
               y == SubSeq(t, i, j)
    <3>1. /\ i \in 1 .. Len(e) + 1 /\ j \in i - 1 .. Len(e)
          /\ i \in 1 .. Len(t) + 1 /\ j \in i - 1 .. Len(t)
      <4> HIDE DEF l, e, x, y
      <4>1. i \in 1 .. l + 1 /\ j \in i - 1 .. l /\ i \in 1 .. j + 1 /\ j \in i - 1 .. j
        BY <1>1, <1>2, <1>3
      <4> QED BY <1>4, <4>1 DEF l
    <3>2. /\ x \in Seq(Any) /\ Len(x) = (j - i) + 1
          /\ \A k \in 1 .. (j - i) + 1 : x[k] = e[(i + k) - 1]
      <4> HIDE DEF e
      <4> QED BY <1>4, <3>1, PartOf
    <3>3. /\ y \in Seq(Any) /\ Len(y) = (j - i) + 1
          /\ \A k \in 1 .. (j - i) + 1 : y[k] = t[(i + k) - 1]
      BY <3>1, PartOf
    <3>4. \A k \in 1 .. (j - i) + 1 : x[k] = y[k]
      <4> HIDE DEF l, e, x, y
      <4> SUFFICES ASSUME NEW k \in 1 .. (j - i) + 1 PROVE x[k] = y[k]
        OBVIOUS
      <4>1. (i + k) - 1 \in 1 .. j
        BY <1>1, <1>2, <1>3
      <4> QED BY <1>4, <3>2, <3>3, <4>1
    <3> HIDE DEF x, y
    <3> QED BY <3>2, <3>3, <3>4, SeqEqual DEF x, y
  <2> QED BY <1>3, <2>1, <2>2
<1>7. ASSUME NEW p \in Seq(Any), p # <<>>, p[1] \notin White
      PROVE  Trim(p \o t) = p \o e
  <2> DEFINE m == Len(p)
             u == p \o t
             v == p \o e
  <2>1. /\ m \in Nat \ {0} /\ u \in Seq(Any) /\ Len(u) = m + l
        /\ \A k \in 1 .. m + l : u[k] = IF k <= m THEN p[k] ELSE t[k - m]
    BY <1>7, EmptySeq, ConcatProperties
  <2>2. /\ v \in Seq(Any) /\ Len(v) = m + j
        /\ \A k \in 1 .. m + j : v[k] = IF k <= m THEN p[k] ELSE e[k - m]
    <3> HIDE DEF e
    <3>1. /\ v \in Seq(Any) /\ Len(v) = m + Len(e)
          /\ \A k \in 1 .. m + Len(e) : v[k] = IF k <= m THEN p[k] ELSE e[k - m]
      BY <1>4, ConcatProperties
    <3> QED BY <1>4, <3>1
  <2> HIDE DEF e, l, m, u, v
  <2>3. u[1] \notin White /\ u[m + j] \notin White
    <3>1. 1 \in 1 .. m + l /\ 1 <= m /\ m + j \in 1 .. m + l /\ ~ (m + j <= m) /\ (m + j) - m = j
      BY <1>1, <1>2, <1>3, <2>1
    <3>2. u[1] = p[1] /\ u[m + j] = t[j]
      BY <2>1, <3>1
    <3> QED BY <1>3, <1>7, <3>2
  <2>4. \A k \in 1 .. Len(u) : k < 1 \/ k > m + j => u[k] \in White
    <3> SUFFICES ASSUME NEW k \in 1 .. m + l, k > m + j PROVE u[k] \in White
      BY <1>1, <2>1
    <3>1. ~ (k <= m) /\ k - m \in 1 .. l /\ k - m > j
      BY <1>1, <1>2, <1>3, <2>1
    <3> QED BY <1>3, <2>1, <3>1
  <2>5. Trim(u) = SubSeq(u, 1, m + j)
    <3>1. 1 \in 1 .. Len(u) /\ m + j \in 1 .. Len(u)
      BY <1>1, <1>2, <1>3, <2>1
    <3> QED BY <2>1, <2>3, <2>4, <3>1, TrimIs
  <2>6. SubSeq(u, 1, m + j) = v
    <3> DEFINE x == SubSeq(u, 1, m + j)
    <3>1. m + j \in 0 .. Len(u)
      BY <1>1, <1>2, <1>3, <2>1
    <3>2. x \in Seq(Any) /\ Len(x) = m + j /\ \A k \in 1 .. m + j : x[k] = u[k]
      BY <2>1, <3>1, PrefixOf
    <3> HIDE DEF x
    <3>3. \A k \in 1 .. m + j : x[k] = v[k]
      <4> SUFFICES ASSUME NEW k \in 1 .. m + j PROVE x[k] = v[k]
        OBVIOUS
      <4>1. k \in 1 .. m + l /\ (k <= m \/ k - m \in 1 .. j)
        BY <1>1, <1>2, <1>3, <2>1
      <4> QED BY <1>4, <2>1, <2>2, <3>2, <4>1
    <3> QED BY <2>2, <3>2, <3>3, SeqEqual DEF x
  <2> QED BY <2>5, <2>6 DEF u, v
<1> HIDE DEF e
<1> QED BY <1>4, <1>5, <1>6, <1>7

(* The first word of a text ends at the first blank.                       *)
LEMMA FirstWordIs ==
  ASSUME NEW v \in Seq(Any), NEW q \in Seq(Any),
         \A k \in 1 .. Len(v) : v[k] \notin White
  PROVE  FirstWord(v \o (Blank \o q)) = v /\ After(v \o (Blank \o q), v) = Blank \o q
<1> DEFINE r == Blank \o q
           t == v \o r
           m == Len(v)
           l == Len(r)
           w == {i \in DOMAIN t : t[i] \in White}
<1>1. r \in Seq(Any) /\ l \in Nat /\ l # 0 /\ r[1] \in White
  <2>1. Len(q) \in Nat
    BY EmptySeq
  <2>2. r \in Seq(Any) /\ l = Len(Blank) + Len(q)
        /\ \A k \in 1 .. Len(Blank) + Len(q) : r[k] = IF k <= Len(Blank) THEN Blank[k] ELSE q[k - Len(Blank)]
    BY BlankIs, ConcatProperties
  <2>3. Len(Blank) = 1 /\ Blank[1] \in White
    BY BlankIs
  <2>4. 1 \in 1 .. 1 + Len(q) /\ 1 <= 1 /\ 1 + Len(q) # 0 /\ 1 + Len(q) \in Nat
    BY <2>1
  <2> HIDE DEF r, l
  <2> QED BY <2>2, <2>3, <2>4
<1>2. /\ m \in Nat /\ t \in Seq(Any) /\ Len(t) = m + l
      /\ \A k \in 1 .. m + l : t[k] = IF k <= m THEN v[k] ELSE r[k - m]
  <2> HIDE DEF r
  <2> QED BY <1>1, EmptySeq, ConcatProperties
<1>3. DOMAIN t = 1 .. m + l
  <2> HIDE DEF t, m, l, r
  <2> QED BY <1>2, LenProperties
<1>4. \A k : k \in w <=> k \in 1 .. m + l /\ t[k] \in White
  BY <1>3
<1>5. m + 1 \in w
  <2> HIDE DEF t, m, l, r, w
  <2>1. m + 1 \in 1 .. m + l /\ ~ (m + 1 <= m) /\ (m + 1) - m = 1
    BY <1>1, <1>2
  <2> QED BY <1>1, <1>2, <1>4, <2>1
<1>6. \A k \in w : m + 1 <= k
  <2> SUFFICES ASSUME NEW k \in w PROVE m + 1 <= k
    OBVIOUS
  <2>1. k \in 1 .. m + l /\ t[k] \in White
    BY <1>4
  <2>2. k \in 1 .. m => v[k] \notin White
    OBVIOUS
  <2> HIDE DEF t, m, l, r, w
  <2>3. ~ (k <= m)
    <3> SUFFICES ASSUME k <= m PROVE FALSE
      OBVIOUS
    <3>1. k \in 1 .. m
      BY <1>1, <1>2, <2>1
    <3> QED BY <1>2, <2>1, <2>2, <3>1
  <2> QED BY <1>1, <1>2, <2>1, <2>3
<1>7. Least(w) = m + 1
  <2> HIDE DEF t, m, l, r, w
  <2>1. \A k \in w : k \in Nat
    BY <1>1, <1>2, <1>4
  <2>2. w \subseteq Nat /\ w # {}
    BY <1>5, <2>1, Zenon
  <2>3. Least(w) \in w /\ \A y \in w : Least(w) <= y
    BY <2>2, LeastIs
  <2>4. Least(w) <= m + 1 /\ m + 1 <= Least(w) /\ Least(w) \in Nat
    BY <1>5, <1>6, <2>1, <2>3
  <2> QED BY <1>2, <2>4
<1>8. FirstWord(t) = SubSeq(t, 1, m)
  <2>1. FirstWord(t) = IF w = {} THEN t ELSE SubSeq(t, 1, Least(w) - 1)
    BY DEF FirstWord
  <2> HIDE DEF t, m, l, r, w
  <2>2. (m + 1) - 1 = m
    BY <1>2
  <2> QED BY <1>5, <1>7, <2>1, <2>2
<1>9. Begins(t, v) /\ After(t, v) = r
  <2> HIDE DEF r
  <2> QED BY <1>1, CutOff
<1>10. SubSeq(t, 1, m) = v
  <2> HIDE DEF t
  <2> QED BY <1>9 DEF Begins
<1> QED BY <1>8, <1>9, <1>10

(* A word that begins with "req-" is a target, and says itself.            *)
LEMMA TokenIs ==
  ASSUME NEW w \in TokenWords
  PROVE  /\ <<w>> \in Seq(Any) /\ w \notin White /\ Len(<<w>>) = 1 /\ <<w>>[1] = w
         /\ Normalize(<<w>>) = <<w>>
         /\ ParseTarget(<<w>>) = Token(<<w>>)
         /\ IsExplicit(<<w>>)
<1> DEFINE t == <<w>>
<1>1. /\ w \notin White /\ w \notin Punct /\ w \notin Counters
      /\ w # "last" /\ w # "latest" /\ w # "di" /\ w # "shi"
      /\ w # "liang" /\ w # "0" /\ w # "+"
      /\ \A i \in 1 .. 9 : Arabic[i] # w /\ Han[i] # w
  BY CommandsAssumption, Zenon
<1>2. t \in Seq(Any) /\ Len(t) = 1 /\ t[1] = w /\ t # <<>>
  <2>1. w \in Any
    BY GlyphsAreSymbols
  <2> QED BY <2>1
<1>3. Place(Arabic, w) = 0 /\ Place(Han, w) = 0
  BY <1>1, Zenon DEF Place
<1> HIDE DEF t
<1>4. Trim(t) = t
  BY <1>1, <1>2, TrimNothing
<1>5. TrimEnd(t, Punct) = t
  <2>1. PICK b \in 0 .. Len(t) :
           /\ TrimEnd(t, Punct) = SubSeq(t, 1, b)
           /\ \A k \in 1 .. Len(t) : k > b => t[k] \in Punct
    BY <1>2, TrimEndIs
  <2>2. b = 1
    BY <1>1, <1>2, <2>1
  <2>3. SubSeq(t, 1, Len(t)) = t
    BY <1>2, SubSeqFull
  <2> QED BY <1>2, <2>1, <2>2, <2>3
<1>6. Normalize(t) = t
  BY <1>4, <1>5 DEF Normalize
<1>7. Decimal(t) = 0
  <2>1. Unsigned(t) = t
    <3>1. ~ Begins(t, <<"+">>)
      <4>1. "+" \in Any
        BY GlyphsAreSymbols
      <4> QED BY <1>1, <1>2, <4>1, FirstOf
    <3> QED BY <3>1 DEF Unsigned
  <2>2. ~ Digits(t)
    <3>1. 1 \in DOMAIN t
      BY <1>2, LenProperties
    <3> QED BY <1>1, <1>2, <1>3, <3>1 DEF Digits
  <2> QED BY <2>1, <2>2, DecimalIsWorth
<1>8. SimpleChinese(t) = 0
  <2>1. t # <<"shi">> /\ t # <<"liang">>
    BY <1>1, <1>2
  <2>2. ChineseDigit(t) = 0
    BY <1>2, <1>3, <2>1 DEF ChineseDigit
  <2>3. {i \in DOMAIN t : t[i] = "shi"} = {}
    <3>1. DOMAIN t = 1 .. 1
      BY <1>2, LenProperties
    <3> QED BY <1>1, <1>2, <3>1
  <2>4. SimpleChinese(t) = ChineseDigit(t)
    <3> DEFINE tens == {i \in DOMAIN t : t[i] = "shi"}
    <3>1. tens = {} /\ 1 \notin tens /\ Len(t) \notin tens
      BY <2>3
    <3>2. SimpleChinese(t) =
            CASE t = <<"shi">> -> 10
              [] t # <<"shi">> /\ 1 \in tens -> TensAndOnes(1, ChineseDigit(Tail(t)))
              [] 1 \notin tens /\ Len(t) \in tens -> 10 * ChineseDigit(Front(t))
              [] tens # {} /\ 1 \notin tens /\ Len(t) \notin tens ->
                   TensAndOnes(ChineseDigit(SubSeq(t, 1, Least(tens) - 1)),
                               ChineseDigit(SubSeq(t, Least(tens) + 1, Len(t))))
              [] OTHER -> ChineseDigit(t)
      BY DEF SimpleChinese
    <3> HIDE DEF tens
    <3> QED BY <2>1, <3>1, <3>2
  <2> QED BY <2>2, <2>4
<1>9. OrdinalOf(t) = 0
  <2>1. WithoutPrefix(t) = t
    BY <1>1, <1>2, WithoutPrefixText
  <2>2. WithoutCounter(t) = t
    BY <1>1, <1>2 DEF WithoutCounter
  <2>3. OrdinalOf(t) = NumberOf(t)
    BY <1>2, <2>1, <2>2, OrdinalOfText, OrdinalIsNumber
  <2> QED BY <1>7, <1>8, <2>3 DEF NumberOf
<1>10. t \notin LastWords
  <2>1. \A x \in LastWords : x[1] = "last" \/ x[1] = "latest"
    BY DEF LastWords
  <2> QED BY <1>1, <1>2, <2>1
<1>11. ParseTarget(t) = Token(t)
  <2>1. <<>> \notin LastWords
    BY DEF LastWords
  <2> QED BY <1>2, <1>6, <1>9, <1>10, <2>1 DEF ParseTarget
<1>12. IsExplicit(t)
  BY <1>2, <1>6 DEF IsExplicit
<1> QED BY <1>1, <1>2, <1>6, <1>11, <1>12 DEF t

-----------------------------------------------------------------------------
(* Commands and their arguments.                                           *)

(* A symbol is a text.                                                     *)
LEMMA WordText ==
  ASSUME NEW w \in Any
  PROVE  <<w>> \in Seq(Any) /\ Len(<<w>>) = 1 /\ <<w>>[1] = w /\ <<w>> # <<>>
OBVIOUS

(* The words of buttons are no white space.                                *)
LEMMA WordsAreNotWhite ==
  /\ "/reply" \notin White /\ "/reply-other" \notin White
  /\ "answer" \notin White
  /\ \A d \in Decisions : d \notin White
BY Zenon DEF White, Decisions

(* The command words differ.                                               *)
LEMMA WordsDiffer ==
  /\ "/reply" # "/reply-other" /\ "/reply" # "/pending" /\ "/reply-other" # "/pending"
  /\ "/reply" # "none" /\ "/reply-other" # "none"
  /\ "/reply" \notin Decisions /\ "/reply-other" \notin Decisions
  /\ "/pending" \notin Decisions /\ "none" \notin Decisions
BY Zenon DEF Decisions

(* What stands before a text, and a blank.                                 *)
LEMMA BeforeBlank ==
  ASSUME NEW p \in Seq(Any), p # <<>>, NEW q \in Seq(Any)
  PROVE  /\ p \o (Blank \o q) = (p \o Blank) \o q
         /\ p \o Blank \in Seq(Any) /\ p \o Blank # <<>> /\ (p \o Blank)[1] = p[1]
         /\ p \o (Blank \o q) \in Seq(Any) /\ p \o (Blank \o q) # <<>>
         /\ (p \o (Blank \o q))[1] = p[1]
<1> DEFINE m == Len(p)
           b == p \o Blank
           l == Len(q)
           t == b \o q
<1>1. m \in Nat /\ m # 0 /\ l \in Nat
  BY EmptySeq
<1>2. b \in Seq(Any) /\ Len(b) = m + 1 /\ b[1] = p[1]
  <2>1. b \in Seq(Any) /\ Len(b) = m + Len(Blank)
        /\ \A i \in 1 .. m + Len(Blank) : b[i] = IF i <= m THEN p[i] ELSE Blank[i - m]
    BY BlankIs, ConcatProperties
  <2>2. Len(Blank) = 1
    BY BlankIs
  <2> HIDE DEF m, b
  <2>3. 1 \in 1 .. m + 1 /\ 1 <= m
    BY <1>1
  <2> QED BY <2>1, <2>2, <2>3
<1>3. b # <<>>
  <2> HIDE DEF m, b
  <2>1. m + 1 # 0
    BY <1>1
  <2> QED BY <1>2, <2>1, EmptySeq
<1>4. t \in Seq(Any) /\ t # <<>> /\ t[1] = b[1]
  <2>1. t \in Seq(Any) /\ Len(t) = Len(b) + l
        /\ \A i \in 1 .. Len(b) + l : t[i] = IF i <= Len(b) THEN b[i] ELSE q[i - Len(b)]
    <3> HIDE DEF b
    <3> QED BY <1>2, ConcatProperties
  <2> HIDE DEF m, b, l, t
  <2>2. 1 \in 1 .. (m + 1) + l /\ 1 <= m + 1 /\ (m + 1) + l # 0
    BY <1>1
  <2> QED BY <1>2, <2>1, <2>2, EmptySeq
<1>5. p \o (Blank \o q) = t
  BY BlankIs, ConcatAssociative
<1> HIDE DEF b, t
<1> QED BY <1>2, <1>3, <1>4, <1>5 DEF b, t

(* Two symbols, put together.                                              *)
LEMMA TwoWords ==
  ASSUME NEW a \in Any, NEW b \in Any
  PROVE  <<a, b>> = <<a>> \o <<b>>
<1> DEFINE x == <<a, b>>
           y == <<a>> \o <<b>>
<1>1. x \in Seq(Any) /\ Len(x) = 2 /\ x[1] = a /\ x[2] = b
  OBVIOUS
<1>2. y \in Seq(Any) /\ Len(y) = 2 /\ y[1] = a /\ y[2] = b
  BY WordText, ConcatProperties
<1>3. \A k \in 1 .. 2 : k = 1 \/ k = 2
  OBVIOUS
<1> HIDE DEF x, y
<1>4. \A k \in 1 .. 2 : x[k] = y[k]
  BY <1>1, <1>2, <1>3
<1>5. x = y
  BY <1>1, <1>2, <1>4, SeqEqual
<1> QED BY <1>5 DEF x, y

(* The argument of a command word is what follows it and a blank.          *)
LEMMA ArgumentIs ==
  ASSUME NEW w \in Any, NEW q \in Seq(Any)
  PROVE  Argument(<<w>> \o (Blank \o q), w) = Trim(q)
<1> DEFINE p == <<w>> \o Blank
           t == <<w>> \o (Blank \o q)
<1>1. <<w, " ">> = p
  <2>1. \A s \in Any : <<w, s>> = <<w>> \o <<s>>
    BY TwoWords
  <2>2. " " \in Any
    <3>1. " " \in White
      BY Zenon DEF White
    <3> QED BY <3>1, GlyphsAreSymbols, Zenon
  <2> QED BY <2>1, <2>2, Zenon DEF Blank
<1>2. t = p \o q /\ p \in Seq(Any)
  BY WordText, BeforeBlank
<1>3. Begins(t, p) /\ After(t, p) = q
  <2> HIDE DEF p, t
  <2> QED BY <1>2, CutOff
<1>4. Argument(t, w) = IF Begins(t, <<w, " ">>) THEN Trim(After(t, <<w, " ">>)) ELSE <<>>
  BY Zenon DEF Argument
<1>5. Argument(t, w) = IF Begins(t, p) THEN Trim(After(t, p)) ELSE <<>>
  <2> HIDE DEF p, t
  <2> QED BY <1>1, <1>4, Zenon
<1> HIDE DEF p
<1> QED BY <1>3, <1>5

(* Only the first word of a text has an argument.                          *)
LEMMA ArgumentNot ==
  ASSUME NEW t \in Seq(Any), NEW w, t[1] # w
  PROVE  Argument(t, w) = <<>>
<1>1. ASSUME NEW s PROVE ~ Begins(t, <<w, s>>)
  <2> SUFFICES ASSUME Begins(t, <<w, s>>) PROVE FALSE
    OBVIOUS
  <2> DEFINE x == SubSeq(t, 1, 2)
  <2>1. 2 <= Len(t) /\ x = <<w, s>>
    BY DEF Begins
  <2>2. Len(t) \in Nat
    BY EmptySeq
  <2>3. 2 \in 0 .. Len(t)
    BY <2>1, <2>2
  <2>4. \A k \in 1 .. 2 : x[k] = t[k]
    BY <2>3, PrefixOf
  <2>5. x[1] = w
    <3> HIDE DEF x
    <3> QED BY <2>1
  <2> HIDE DEF x
  <2> QED BY <2>4, <2>5
<1>2. ~ Begins(t, <<w, " ">>)
  BY <1>1, Zenon
<1> QED BY <1>2, Zenon DEF Argument

(* parse_interaction_command, by the first symbol.                         *)
LEMMA InteractionReply ==
  ASSUME NEW u \in Seq(Any), u[1] = "/reply", Argument(u, "/reply") # <<>>
  PROVE  Interaction(u) = Reply(Argument(u, "/reply"))
<1>1. /\ Argument(u, "/reply-other") = <<>>
      /\ \A d \in Decisions : Argument(u, d) = <<>>
  BY WordsDiffer, ArgumentNot
<1>2. u # <<"/pending">> /\ u # <<"/reply-other">> /\ \A d \in Decisions : u # <<d>>
  <2>1. \A s : <<s>>[1] = s
    OBVIOUS
  <2> QED BY <2>1, WordsDiffer
<1> QED BY <1>1, <1>2 DEF Interaction

(* The same of a custom reply.                                             *)
LEMMA InteractionReplyOther ==
  ASSUME NEW u \in Seq(Any), u[1] = "/reply-other", Argument(u, "/reply-other") # <<>>
  PROVE  Interaction(u) = ReplyOther(Argument(u, "/reply-other"))
<1>1. /\ Argument(u, "/reply") = <<>>
      /\ \A d \in Decisions : Argument(u, d) = <<>>
  BY WordsDiffer, ArgumentNot
<1>2. u # <<"/pending">> /\ \A d \in Decisions : u # <<d>>
  <2>1. \A s : <<s>>[1] = s
    OBVIOUS
  <2> QED BY <2>1, WordsDiffer
<1>3. u # <<"/reply-other">>
  <2> SUFFICES ASSUME u = <<"/reply-other">> PROVE FALSE
    OBVIOUS
  <2>1. \A s, x : ~ Begins(<<s>>, <<s, x>>)
    BY DEF Begins
  <2>2. Argument(u, "/reply-other") = <<>>
    BY <2>1, Zenon DEF Argument
  <2> QED BY <2>2
<1> QED BY <1>1, <1>2, <1>3 DEF Interaction

(* The same of a decision.                                                 *)
LEMMA InteractionDecision ==
  ASSUME NEW d \in Decisions, NEW u \in Seq(Any), u[1] = d, Argument(u, d) # <<>>
  PROVE  Interaction(u) = [kind |-> d, target |-> ParseTarget(Argument(u, d))]
<1>1. Argument(u, "/reply") = <<>> /\ Argument(u, "/reply-other") = <<>>
  BY WordsDiffer, ArgumentNot
<1>2. u # <<"/pending">> /\ u # <<"/reply-other">>
  <2>1. \A s : <<s>>[1] = s
    OBVIOUS
  <2> QED BY <2>1, WordsDiffer
<1>3. \A c \in Decisions : u # <<c>>
  <2> SUFFICES ASSUME NEW c \in Decisions, u = <<c>> PROVE FALSE
    OBVIOUS
  <2>1. \A s, x : ~ Begins(<<s>>, <<s, x>>)
    BY DEF Begins
  <2>2. c = d
    BY WordText
  <2>3. Argument(u, d) = <<>>
    BY <2>1, <2>2, Zenon DEF Argument
  <2> QED BY <2>3
<1> QED BY <1>1, <1>2, <1>3 DEF Interaction

-----------------------------------------------------------------------------
(* What is sent back is read as it was meant.                              *)

(* handle_message tries parse_interaction_command first.                   *)
LEMMA ReadIs ==
  ASSUME NEW t, Interaction(Trim(t)).kind # "none"
  PROVE  Read(t) = Interaction(Trim(t))
<1>1. Interaction(Trim(t)) # None
  BY DEF None
<1> QED BY <1>1 DEF Read

(* A reply is one,                                                         *)
LEMMA ReplyKind == \A r : Reply(r).kind = "/reply"
BY DEF Reply

(* and a custom reply another.                                             *)
LEMMA ReplyOtherKind == \A r : ReplyOther(r).kind = "/reply-other"
BY DEF ReplyOther

(* A command word, a blank and a text: trimmed, the word keeps the text    *)
(* for its argument.                                                       *)
LEMMA TrimCommand ==
  ASSUME NEW w \in Any, w \notin White, NEW q \in Seq(Any), Trim(q) # <<>>
  PROVE  LET u == Trim(<<w>> \o (Blank \o q)) IN
         u \in Seq(Any) /\ u[1] = w /\ Argument(u, w) = Trim(q)
<1> DEFINE p == <<w>>
           u == Trim(p \o (Blank \o q))
<1>1. p \in Seq(Any) /\ p # <<>> /\ p[1] = w
  BY WordText
<1>2. PICK e \in Seq(Any) :
           /\ Trim(e) = Trim(q)
           /\ \A b \in Seq(Any) : b # <<>> /\ b[1] \notin White => Trim(b \o q) = b \o e
  BY TrimBehind
<1>3. Argument(p \o (Blank \o e), w) = Trim(e)
  BY ArgumentIs
<1> HIDE DEF p
<1>4. u = p \o (Blank \o e)
  <2>1. /\ p \o (Blank \o q) = (p \o Blank) \o q
        /\ p \o Blank \in Seq(Any) /\ p \o Blank # <<>> /\ (p \o Blank)[1] = p[1]
    BY <1>1, BeforeBlank
  <2>2. Trim((p \o Blank) \o q) = (p \o Blank) \o e
    BY <1>1, <1>2, <2>1
  <2>3. p \o (Blank \o e) = (p \o Blank) \o e
    BY <1>1, BeforeBlank
  <2> QED BY <2>1, <2>2, <2>3
<1>5. u \in Seq(Any) /\ u[1] = w
  BY <1>1, <1>4, BeforeBlank
<1> HIDE DEF u
<1> QED BY <1>2, <1>3, <1>4, <1>5 DEF u, p

(* What is sent as a reply is read as one.                                 *)
LEMMA ReadReply ==
  ASSUME NEW q \in Seq(Any), Trim(q) # <<>>
  PROVE  Read(<<"/reply">> \o (Blank \o q)) = Reply(Trim(q))
<1> DEFINE t == <<"/reply">> \o (Blank \o q)
           u == Trim(t)
<1>1. "/reply" \in Any /\ "/reply" \notin White
  BY GlyphsAreSymbols, WordsAreNotWhite
<1>2. u \in Seq(Any) /\ u[1] = "/reply" /\ Argument(u, "/reply") = Trim(q)
  BY <1>1, TrimCommand
<1> HIDE DEF u
<1>3. Interaction(u) = Reply(Trim(q))
  BY <1>2, InteractionReply
<1>4. Interaction(u).kind # "none"
  BY <1>3, ReplyKind, WordsDiffer
<1> QED BY <1>3, <1>4, ReadIs DEF u

(* The same of a custom reply.                                             *)
LEMMA ReadReplyOther ==
  ASSUME NEW q \in Seq(Any), Trim(q) # <<>>
  PROVE  Read(<<"/reply-other">> \o (Blank \o q)) = ReplyOther(Trim(q))
<1> DEFINE t == <<"/reply-other">> \o (Blank \o q)
           u == Trim(t)
<1>1. "/reply-other" \in Any /\ "/reply-other" \notin White
  BY GlyphsAreSymbols, WordsAreNotWhite
<1>2. u \in Seq(Any) /\ u[1] = "/reply-other" /\ Argument(u, "/reply-other") = Trim(q)
  BY <1>1, TrimCommand
<1> HIDE DEF u
<1>3. Interaction(u) = ReplyOther(Trim(q))
  BY <1>2, InteractionReplyOther
<1>4. Interaction(u).kind # "none"
  BY <1>3, ReplyOtherKind, WordsDiffer
<1> QED BY <1>3, <1>4, ReadIs DEF u

(* The same of a decision.                                                 *)
LEMMA ReadDecision ==
  ASSUME NEW d \in Decisions, NEW q \in Seq(Any), Trim(q) # <<>>
  PROVE  Read(<<d>> \o (Blank \o q)) = [kind |-> d, target |-> ParseTarget(Trim(q))]
<1> DEFINE t == <<d>> \o (Blank \o q)
           u == Trim(t)
<1>1. d \in Any /\ d \notin White
  BY GlyphsAreSymbols, WordsAreNotWhite
<1>2. u \in Seq(Any) /\ u[1] = d /\ Argument(u, d) = Trim(q)
  BY <1>1, TrimCommand
<1> HIDE DEF u
<1>3. Interaction(u) = [kind |-> d, target |-> ParseTarget(Trim(q))]
  BY <1>2, InteractionDecision
<1>4. Interaction(u).kind # "none"
  BY <1>3, WordsDiffer
<1> QED BY <1>3, <1>4, ReadIs DEF u

(* Behind a word and a blank, a text keeps its beginning.                  *)
LEMMA WordFirst ==
  ASSUME NEW v \in Seq(Any), v # <<>>, \A k \in 1 .. Len(v) : v[k] \notin White,
         NEW q \in Seq(Any), Trim(q) # <<>>
  PROVE  LET r == Trim(v \o (Blank \o q)) IN
         /\ r \in Seq(Any) /\ r # <<>>
         /\ FirstWord(r) = v /\ Trim(After(r, v)) = Trim(q)
<1> DEFINE r == Trim(v \o (Blank \o q))
<1>1. v[1] \notin White
  <2>1. 1 \in 1 .. Len(v)
    BY LastIsInside
  <2> QED BY <2>1
<1>2. PICK e \in Seq(Any) :
           /\ Trim(e) = Trim(q)
           /\ \A b \in Seq(Any) : b # <<>> /\ b[1] \notin White => Trim(b \o q) = b \o e
  BY TrimBehind
<1>3. r = v \o (Blank \o e)
  <2>1. /\ v \o (Blank \o q) = (v \o Blank) \o q
        /\ v \o Blank \in Seq(Any) /\ v \o Blank # <<>> /\ (v \o Blank)[1] = v[1]
    BY BeforeBlank
  <2>2. Trim((v \o Blank) \o q) = (v \o Blank) \o e
    BY <1>1, <1>2, <2>1
  <2>3. v \o (Blank \o e) = (v \o Blank) \o e
    BY BeforeBlank
  <2> QED BY <2>1, <2>2, <2>3
<1>4. r \in Seq(Any) /\ r # <<>>
  BY <1>3, BeforeBlank
<1>5. FirstWord(r) = v /\ After(r, v) = Blank \o e
  BY <1>3, FirstWordIs
<1>6. Trim(Blank \o e) = Trim(q)
  BY <1>2, TrimAfterBlank
<1> HIDE DEF r
<1> QED BY <1>4, <1>5, <1>6 DEF r

(* What names a request, and a text: the text is the answer.               *)
LEMMA ReplyTo ==
  ASSUME NEW w \in TokenWords, NEW q \in Seq(Any), Trim(q) # <<>>
  PROVE  LET r == Trim(<<w>> \o (Blank \o q)) IN
         /\ r # <<>>
         /\ Reply(r) = [kind |-> "/reply", target |-> Token(<<w>>), text |-> Trim(q)]
         /\ ReplyOther(r) = [kind |-> "/reply-other", target |-> Token(<<w>>),
                             question |-> Trim(q)]
<1> DEFINE v == <<w>>
           r == Trim(v \o (Blank \o q))
<1>1. /\ v \in Seq(Any) /\ v # <<>> /\ IsExplicit(v) /\ ParseTarget(v) = Token(v)
      /\ \A k \in 1 .. Len(v) : v[k] \notin White
  BY TokenIs
<1> HIDE DEF v
<1>2. r # <<>> /\ FirstWord(r) = v /\ Trim(After(r, v)) = Trim(q)
  BY <1>1, WordFirst
<1> HIDE DEF r
<1>3. Splits(r)
  BY <1>1, <1>2 DEF Splits
<1>4. Reply(r) = [kind |-> "/reply", target |-> Token(v), text |-> Trim(q)]
  BY <1>1, <1>2, <1>3 DEF Reply
<1>5. ReplyOther(r) = [kind |-> "/reply-other", target |-> Token(v), question |-> Trim(q)]
  BY <1>1, <1>2, <1>3 DEF ReplyOther
<1> QED BY <1>2, <1>4, <1>5 DEF r, v

(* The answer to a question is what follows its id.                        *)
LEMMA QuestionIs ==
  ASSUME NEW v \in Seq(Any), v # <<>>, \A k \in 1 .. Len(v) : v[k] \notin White,
         NEW q \in Seq(Any), Trim(q) # <<>>, NEW ids, v \in ids
  PROVE  Question(Trim(v \o (Blank \o q)), ids) = [id |-> v, answer |-> Trim(q)]
<1> DEFINE r == Trim(v \o (Blank \o q))
<1>1. FirstWord(r) = v /\ Trim(After(r, v)) = Trim(q)
  BY WordFirst
<1> HIDE DEF r
<1>2. Question(r, ids) = [id |-> v, answer |-> Trim(q)]
  BY <1>1 DEF Question
<1> QED BY <1>2 DEF r

(* A first word has no white space in it.                                  *)
LEMMA FirstWordIsOne ==
  ASSUME NEW t \in Seq(Any), NEW k \in 1 .. Len(FirstWord(t))
  PROVE  FirstWord(t)[k] \notin White
<1> DEFINE w == {i \in 1 .. Len(t) : t[i] \in White}
<1>1. Len(t) \in Nat /\ DOMAIN t = 1 .. Len(t)
  BY EmptySeq, LenProperties
<1>2. FirstWord(t) = IF w = {} THEN t ELSE SubSeq(t, 1, Least(w) - 1)
  BY <1>1 DEF FirstWord
<1>3. CASE w = {}
  BY <1>2, <1>3
<1>4. CASE w # {}
  <2>1. w \subseteq Nat
    BY <1>1
  <2>2. Least(w) \in w /\ \A i \in w : Least(w) <= i
    <3> HIDE DEF w
    <3> QED BY <1>4, <2>1, LeastIs
  <2> DEFINE m == Least(w) - 1
  <2>3. m \in 0 .. Len(t) /\ \A i \in 1 .. m : i \in 1 .. Len(t) /\ i \notin w
    <3>1. Least(w) \in 1 .. Len(t)
      BY <2>2
    <3>2. \A i \in w : Least(w) <= i
      BY <2>2
    <3> HIDE DEF w
    <3> QED BY <1>1, <3>1, <3>2
  <2>4. FirstWord(t) = SubSeq(t, 1, m)
    BY <1>2, <1>4
  <2>5. \A i \in 1 .. m : t[i] \notin White
    BY <2>3
  <2> HIDE DEF m, w
  <2>6. Len(FirstWord(t)) = m /\ \A i \in 1 .. m : FirstWord(t)[i] = t[i]
    BY <2>3, <2>4, PrefixOf
  <2> QED BY <2>5, <2>6
<1> QED BY <1>3, <1>4

(* An id with white space in it is never found.                            *)
LEMMA QuestionIsNot ==
  ASSUME NEW t \in Seq(Any), NEW v, NEW k \in 1 .. Len(v), v[k] \in White
  PROVE  Question(t, {v}) = None
<1>1. FirstWord(t) # v
  BY FirstWordIsOne
<1> QED BY <1>1 DEF Question

(* Something is left of a text with a symbol that is not white.            *)
LEMMA TrimSome ==
  ASSUME NEW t \in Seq(Any), NEW k \in 1 .. Len(t), t[k] \notin White
  PROVE  Trim(t) # <<>>
<1> DEFINE l == Len(t)
<1>1. l \in Nat /\ 1 \in 1 .. l + 1 /\ l \in 1 - 1 .. l
  <2>1. l \in Nat
    BY EmptySeq
  <2> HIDE DEF l
  <2> QED BY <2>1
<1>2. SubSeq(t, 1, l) = t
  BY SubSeqFull
<1>3. PICK a \in 1 .. l + 1, b \in 1 - 1 .. l :
           /\ b \in a - 1 .. l
           /\ Trim(SubSeq(t, 1, l)) = SubSeq(t, a, b)
           /\ \A i \in 1 .. l : i < a \/ i > b => t[i] \in White
           /\ a <= l => t[a] \notin White
           /\ b >= a => t[b] \notin White
           /\ a <= l => a <= b
  BY <1>1, TrimOfPart
<1>4. a <= b
  <2> HIDE DEF l
  <2>1. k \in 1 .. l
    BY DEF l
  <2>2. ~ (k < a \/ k > b)
    BY <1>3, <2>1
  <2> QED BY <1>1, <1>3, <2>1, <2>2
<1>5. a \in 1 .. Len(t) + 1 /\ b \in a - 1 .. Len(t)
  BY <1>3
<1>6. Len(SubSeq(t, a, b)) = (b - a) + 1
  BY <1>5, PartOf
<1>7. (b - a) + 1 # 0
  <2> HIDE DEF l
  <2> QED BY <1>1, <1>3, <1>4
<1>8. SubSeq(t, a, b) # <<>>
  BY <1>6, <1>7, EmptySeq
<1> QED BY <1>2, <1>3, <1>8

(* Trimmed, a text is one still.                                           *)
LEMMA TrimIsText ==
  ASSUME NEW t \in Seq(Any), Trim(t) # <<>>
  PROVE  Trim(t) \in Seq(Any)
<1>1. PICK i \in 1 .. Len(t) : \E j \in i .. Len(t) : Trim(t) = SubSeq(t, i, j)
  BY TrimWindow
<1>2. PICK j \in i .. Len(t) : Trim(t) = SubSeq(t, i, j)
  BY <1>1
<1>3. Len(t) \in Nat
  BY EmptySeq
<1>4. i \in 1 .. Len(t) + 1 /\ j \in i - 1 .. Len(t)
  <2> DEFINE l == Len(t)
  <2>1. l \in Nat /\ i \in 1 .. l /\ j \in i .. l
    BY <1>3
  <2> HIDE DEF l
  <2>2. i \in 1 .. l + 1 /\ j \in i - 1 .. l
    BY <2>1
  <2> QED BY <2>2 DEF l
<1> QED BY <1>2, <1>4, PartOf

(* The button of a decision.                                               *)
LEMMA DecisionButtonRead ==
  ASSUME NEW w \in TokenWords, NEW d \in Decisions
  PROVE  Read(DecisionButton(d, <<w>>)) = [kind |-> d, target |-> Token(<<w>>)]
<1> DEFINE v == <<w>>
<1>1. v \in Seq(Any) /\ v # <<>> /\ Trim(v) = v /\ ParseTarget(v) = Token(v)
  BY TokenIs, TrimNothing
<1>2. <<d>> \in Seq(Any)
  BY GlyphsAreSymbols, WordText
<1> HIDE DEF v
<1>3. DecisionButton(d, v) = <<d>> \o (Blank \o v)
  BY <1>1, <1>2, BlankIs, ConcatAssociative DEF DecisionButton
<1>4. Read(<<d>> \o (Blank \o v)) = [kind |-> d, target |-> ParseTarget(Trim(v))]
  BY <1>1, ReadDecision
<1> QED BY <1>1, <1>3, <1>4 DEF v

(* Three texts, put together.                                              *)
LEMMA Regrouped ==
  ASSUME NEW a \in Seq(Any), NEW b \in Seq(Any), NEW c \in Seq(Any)
  PROVE  (a \o b) \o c = a \o (b \o c)
BY ConcatAssociative

(* The texts of buttons, by their parts.                                   *)
LEMMA FiveParts ==
  ASSUME NEW p \in Seq(Any), p # <<>>, NEW v \in Seq(Any), v # <<>>, NEW q \in Seq(Any)
  PROVE  (((p \o Blank) \o v) \o Blank) \o q = p \o (Blank \o (v \o (Blank \o q)))
<1> DEFINE a == p \o Blank
           b == v \o Blank
           y == v \o (Blank \o q)
<1>1. a \in Seq(Any) /\ b \in Seq(Any)
  BY BeforeBlank
<1>5. y \in Seq(Any) /\ b \o q = y
  BY BeforeBlank
<1>2. (a \o v) \o Blank = a \o b
  <2>1. Blank \in Seq(Any)
    BY BlankIs
  <2>2. a \in Seq(Any)
    BY <1>1
  <2> HIDE DEF a
  <2>3. (a \o v) \o Blank = a \o (v \o Blank)
    BY <2>1, <2>2, Regrouped
  <2> QED BY <2>3
<1>3. (a \o b) \o q = a \o (b \o q)
  <2> HIDE DEF a, b, y
  <2> QED BY <1>1, Regrouped, SMTT(30)
<1>4. a \o y = p \o (Blank \o y)
  <2> HIDE DEF y
  <2> QED BY <1>5, BeforeBlank
<1> QED BY <1>5, <1>2, <1>3, <1>4

(* The button of an option.                                                *)
LEMMA OptionButtonRead ==
  ASSUME NEW w \in TokenWords, NEW q \in Seq(Any), Trim(q) # <<>>
  PROVE  Read(OptionButton(<<w>>, q)) =
           [kind |-> "/reply", target |-> Token(<<w>>), text |-> Trim(q)]
<1> DEFINE v == <<w>>
           p == <<"/reply">>
           y == v \o (Blank \o q)
<1>1. v \in Seq(Any) /\ v # <<>> /\ p \in Seq(Any) /\ p # <<>>
  BY TokenIs, GlyphsAreSymbols, WordText
<1>2. Trim(y) # <<>> /\ Reply(Trim(y)) = [kind |-> "/reply", target |-> Token(v), text |-> Trim(q)]
  BY ReplyTo
<1>3. y \in Seq(Any) /\ Trim(y) # <<>> => Read(p \o (Blank \o y)) = Reply(Trim(y))
  BY ReadReply
<1> HIDE DEF v
<1>4. y \in Seq(Any)
  BY <1>1, BeforeBlank
<1>5. OptionButton(v, q) = p \o (Blank \o y)
  <2>1. OptionButton(v, q) = (((p \o Blank) \o v) \o Blank) \o q
    BY DEF OptionButton
  <2> HIDE DEF p
  <2> QED BY <1>1, <2>1, FiveParts
<1> QED BY <1>2, <1>3, <1>4, <1>5 DEF v

(* The button of a custom reply.                                           *)
LEMMA OtherButtonRead ==
  ASSUME NEW w \in TokenWords, NEW q \in Seq(Any), Trim(q) # <<>>
  PROVE  Read(OtherButton(<<w>>, q)) =
           [kind |-> "/reply-other", target |-> Token(<<w>>), question |-> Trim(q)]
<1> DEFINE v == <<w>>
           p == <<"/reply-other">>
           y == v \o (Blank \o q)
<1>1. v \in Seq(Any) /\ v # <<>> /\ p \in Seq(Any) /\ p # <<>>
  BY TokenIs, GlyphsAreSymbols, WordText
<1>2. /\ Trim(y) # <<>>
      /\ ReplyOther(Trim(y)) = [kind |-> "/reply-other", target |-> Token(v), question |-> Trim(q)]
  BY ReplyTo
<1>3. y \in Seq(Any) /\ Trim(y) # <<>> => Read(p \o (Blank \o y)) = ReplyOther(Trim(y))
  BY ReadReplyOther
<1> HIDE DEF v
<1>4. y \in Seq(Any)
  BY <1>1, BeforeBlank
<1>5. OtherButton(v, q) = p \o (Blank \o y)
  <2>1. OtherButton(v, q) = (((p \o Blank) \o v) \o Blank) \o q
    BY DEF OtherButton
  <2> HIDE DEF p
  <2> QED BY <1>1, <2>1, FiveParts
<1> QED BY <1>2, <1>3, <1>4, <1>5 DEF v

(* The button of an option of one of several questions.                    *)
LEMMA QuestionButtonRead ==
  ASSUME NEW w \in TokenWords, NEW id \in Seq(Any), id # <<>>,
         NEW q \in Seq(Any), Trim(q) # <<>>
  PROVE  LET reply == Read(QuestionButton(<<w>>, id, q)) IN
         /\ reply.kind = "/reply" /\ reply.target = Token(<<w>>)
         /\ IF \A k \in 1 .. Len(id) : id[k] \notin White
              THEN \A ids : id \in ids => Question(reply.text, ids) = [id |-> id, answer |-> Trim(q)]
              ELSE Question(reply.text, {id}) = None
<1> DEFINE y == id \o (Blank \o q)
           reply == Read(QuestionButton(<<w>>, id, q))
<1>1. y \in Seq(Any) /\ y = (id \o Blank) \o q /\ id \o Blank \in Seq(Any)
  BY BeforeBlank
<1>2. Trim(y) # <<>>
  <2>1. PICK i \in 1 .. Len(q) : q[i] \notin White
    BY TrimWindow
  <2> DEFINE a == id \o Blank
             m == Len(a)
             n == Len(q)
  <2>2. /\ m \in Nat /\ n \in Nat /\ y = a \o q /\ Len(y) = m + n
        /\ \A k \in 1 .. m + n : y[k] = IF k <= m THEN a[k] ELSE q[k - m]
    <3> HIDE DEF y
    <3>1. a \in Seq(Any) /\ y = a \o q
      BY <1>1
    <3> HIDE DEF a
    <3> QED BY <3>1, EmptySeq, ConcatProperties
  <2> HIDE DEF y, a, m
  <2>3. i \in 1 .. n
    OBVIOUS
  <2> HIDE DEF n
  <2>4. m + i \in 1 .. m + n /\ ~ (m + i <= m) /\ (m + i) - m = i
    BY <2>2, <2>3
  <2>5. m + i \in 1 .. Len(y) /\ y[m + i] \notin White
    BY <2>1, <2>2, <2>4
  <2> QED BY <1>1, <2>5, TrimSome
<1>3. reply = Read(OptionButton(<<w>>, y))
  BY <1>1 DEF QuestionButton
<1>4. (\A k \in 1 .. Len(id) : id[k] \notin White) =>
        \A ids : id \in ids => Question(Trim(y), ids) = [id |-> id, answer |-> Trim(q)]
  BY QuestionIs
<1> HIDE DEF y, reply
<1>5. reply = [kind |-> "/reply", target |-> Token(<<w>>), text |-> Trim(y)]
  BY <1>1, <1>2, <1>3, OptionButtonRead
<1>6. reply.kind = "/reply" /\ reply.target = Token(<<w>>) /\ reply.text = Trim(y)
  BY <1>5
<1>7. ASSUME ~ \A k \in 1 .. Len(id) : id[k] \notin White
      PROVE  Question(Trim(y), {id}) = None
  <2>1. PICK k \in 1 .. Len(id) : id[k] \in White
    BY <1>7
  <2>2. Trim(y) \in Seq(Any)
    BY <1>1, <1>2, TrimIsText
  <2> QED BY <2>1, <2>2, QuestionIsNot
<1> QED BY <1>4, <1>6, <1>7 DEF reply

(* What the notice of /reply-other suggests.                               *)
LEMMA ExampleRead ==
  ASSUME NEW v \in Seq(Any), v # <<>>, \A k \in 1 .. Len(v) : v[k] \notin White,
         ~ IsExplicit(v)
  PROVE  Question(Read(Example(v, <<"answer">>)).text, {v}) = [id |-> v, answer |-> <<"answer">>]
<1> DEFINE a == <<"answer">>
           p == <<"/reply">>
           y == v \o (Blank \o a)
           r == Trim(y)
<1>1. a \in Seq(Any) /\ a # <<>> /\ Trim(a) = a /\ p \in Seq(Any) /\ p # <<>>
  BY GlyphsAreSymbols, WordText, WordsAreNotWhite, TrimNothing
<1>2. y \in Seq(Any) /\ r # <<>> => Read(p \o (Blank \o y)) = Reply(r)
  BY ReadReply
<1>3. Example(v, a) = (((p \o Blank) \o v) \o Blank) \o a
  BY DEF Example
<1> HIDE DEF a, p
<1>4. y \in Seq(Any) /\ Example(v, a) = p \o (Blank \o y)
  <2>1. y \in Seq(Any)
    BY <1>1, BeforeBlank
  <2>2. (((p \o Blank) \o v) \o Blank) \o a = p \o (Blank \o y)
    BY <1>1, FiveParts, Zenon
  <2> HIDE DEF y
  <2> QED BY <1>3, <2>1, <2>2, Zenon
<1>5. r # <<>> /\ FirstWord(r) = v
  BY <1>1, WordFirst
<1>6. Question(r, {v}) = [id |-> v, answer |-> a]
  BY <1>1, QuestionIs
<1> HIDE DEF y, r
<1>7. Read(Example(v, a)) = Reply(r)
  BY <1>2, <1>4, <1>5
<1>8. Reply(r).text = r
  <2>1. ~ Splits(r)
    BY <1>5 DEF Splits
  <2> QED BY <2>1 DEF Reply
<1>9. Question(Read(Example(v, a)).text, {v}) = [id |-> v, answer |-> a]
  BY <1>6, <1>7, <1>8
<1> QED BY <1>9 DEF a

(* An id, as a sequence.                                                   *)
LEMMA IdIs ==
  ASSUME NEW t \in Seq(Any)
  PROVE  /\ IsId(t) <=> t # <<>> /\ \A k \in 1 .. Len(t) : t[k] \notin White
         /\ IsId(t) => Trim(t) = t
<1>1. DOMAIN t = 1 .. Len(t)
  BY LenProperties
<1>2. IsId(t) <=> t # <<>> /\ \A k \in 1 .. Len(t) : t[k] \notin White
  BY <1>1 DEF IsId
<1>3. ASSUME IsId(t)
      PROVE  Trim(t) = t
  <2>1. 1 \in 1 .. Len(t) /\ Len(t) \in 1 .. Len(t)
    BY <1>2, <1>3, LastIsInside
  <2> QED BY <1>2, <1>3, <2>1, TrimNothing
<1> QED BY <1>2, <1>3

(* What is read as JSON is refused, unless it is an object.                *)
LEMMA OneAnswerIs ==
  ASSUME NEW t
  PROVE  /\ ~ Json(t) => OneAnswer(t) = Sent(t)
         /\ Json(t) /\ t # JsonObject => OneAnswer(t) = Refused
<1>1. Json(JsonObject)
  BY DEF Json
<1>2. ~ Json(t) => OneAnswer(t) = Sent(t)
  BY <1>1 DEF OneAnswer
<1>3. Json(t) /\ t # JsonObject => OneAnswer(t) = Refused
  BY DEF OneAnswer
<1> QED BY <1>2, <1>3

(* The options of a request of one question.                               *)
LEMMA OptionsReadOn ==
  ASSUME text \in Seq(Any), NEW w \in TokenWords
  PROVE  OptionsRead(<<w>>)
<1> DEFINE label == Trim(text)
           reply == Read(OptionButton(<<w>>, text))
<1>1. ASSUME label # <<>>
      PROVE  reply.kind = "/reply" /\ reply.target = Token(<<w>>) /\ reply.text = label
  <2>1. reply = [kind |-> "/reply", target |-> Token(<<w>>), text |-> label]
    BY <1>1, OptionButtonRead
  <2> HIDE DEF reply, label
  <2> QED BY <2>1
<1> HIDE DEF reply, label
<1>2. /\ ~ Json(label) => OneAnswer(label) = Sent(label)
      /\ Json(label) /\ label # JsonObject => OneAnswer(label) = Refused
  BY OneAnswerIs
<1>3. label # <<>> =>
        /\ reply.kind = "/reply" /\ reply.target = Token(<<w>>)
        /\ ~ Json(label) => OneAnswer(reply.text) = Sent(label)
        /\ Json(label) /\ label # JsonObject => OneAnswer(reply.text) = Refused
  BY <1>1, <1>2
<1> QED BY <1>3 DEF OptionsRead, reply, label

(* The options of one of several questions, however the text is cut into   *)
(* an id and a label.                                                      *)
LEMMA QuestionsReadOn ==
  ASSUME text \in Seq(Any), NEW w \in TokenWords
  PROVE  QuestionsRead(<<w>>)
<1> SUFFICES ASSUME NEW n \in 1 .. Len(text), Trim(SubSeq(text, n + 1, Len(text))) # <<>>
             PROVE
    LET id    == SubSeq(text, 1, n)
        label == SubSeq(text, n + 1, Len(text))
        reply == Read(QuestionButton(<<w>>, id, label)) IN
    /\ reply.kind = "/reply" /\ reply.target = Token(<<w>>)
    /\ IF IsId(id)
         THEN Question(reply.text, {id, <<"question">>}) = [id |-> id, answer |-> Trim(label)]
         ELSE Question(reply.text, {id}) = None
  BY DEF QuestionsRead
<1> DEFINE id    == SubSeq(text, 1, n)
           label == SubSeq(text, n + 1, Len(text))
           reply == Read(QuestionButton(<<w>>, id, label))
<1>1. id \in Seq(Any) /\ id # <<>> /\ label \in Seq(Any) /\ Trim(label) # <<>>
  <2> DEFINE l == Len(text)
  <2>1. l \in Nat /\ n \in 1 .. l
    BY EmptySeq
  <2> HIDE DEF l
  <2>2. n \in 0 .. l /\ n + 1 \in 1 .. l + 1 /\ l \in (n + 1) - 1 .. l /\ n # 0
    BY <2>1
  <2>3. id \in Seq(Any) /\ Len(id) = n
    BY <2>2, PrefixOf DEF l
  <2>4. label \in Seq(Any)
    BY <2>2, PartOf DEF l
  <2>5. id # <<>>
    <3> HIDE DEF id
    <3> QED BY <2>2, <2>3, EmptySeq
  <2> QED BY <2>3, <2>4, <2>5
<1> HIDE DEF id, label
<1>2. IsId(id) <=> \A k \in 1 .. Len(id) : id[k] \notin White
  BY <1>1, IdIs
<1>3. /\ reply.kind = "/reply" /\ reply.target = Token(<<w>>)
      /\ IF \A k \in 1 .. Len(id) : id[k] \notin White
           THEN \A ids : id \in ids => Question(reply.text, ids) = [id |-> id, answer |-> Trim(label)]
           ELSE Question(reply.text, {id}) = None
  BY <1>1, QuestionButtonRead
<1> HIDE DEF reply
<1>4. IF IsId(id)
        THEN Question(reply.text, {id, <<"question">>}) = [id |-> id, answer |-> Trim(label)]
        ELSE Question(reply.text, {id}) = None
  <2>1. id \in {id, <<"question">>}
    OBVIOUS
  <2> QED BY <1>2, <1>3, <2>1
<1> QED BY <1>3, <1>4 DEF id, label, reply

(* ButtonsRead, of every text that can be typed.                           *)
LEMMA ButtonsReadOn ==
  ASSUME text \in Text
  PROVE  ButtonsRead
<1>1. text \in Seq(Any)
  BY TextIsSequence
<1> SUFFICES ASSUME NEW w \in TokenWords
             PROVE
    LET token == <<w>> IN
    /\ \A d \in Decisions : Read(DecisionButton(d, token)) = [kind |-> d, target |-> Token(token)]
    /\ OptionsRead(token)
    /\ QuestionsRead(token)
    /\ Trim(text) # <<>> =>
         Read(OtherButton(token, text)) =
           [kind |-> "/reply-other", target |-> Token(token), question |-> Trim(text)]
    /\ IsId(text) /\ ~IsExplicit(text) =>
         Question(Read(Example(text, <<"answer">>)).text, {text}) =
           [id |-> text, answer |-> <<"answer">>]
  BY DEF ButtonsRead
<1>2. \A d \in Decisions : Read(DecisionButton(d, <<w>>)) = [kind |-> d, target |-> Token(<<w>>)]
  BY DecisionButtonRead
<1>3. OptionsRead(<<w>>) /\ QuestionsRead(<<w>>)
  BY <1>1, OptionsReadOn, QuestionsReadOn
<1>4. Trim(text) # <<>> =>
        Read(OtherButton(<<w>>, text)) =
          [kind |-> "/reply-other", target |-> Token(<<w>>), question |-> Trim(text)]
  BY <1>1, OtherButtonRead
<1>5. ASSUME IsId(text), ~ IsExplicit(text)
      PROVE  Question(Read(Example(text, <<"answer">>)).text, {text}) =
               [id |-> text, answer |-> <<"answer">>]
  <2>1. text # <<>> /\ \A k \in 1 .. Len(text) : text[k] \notin White
    BY <1>1, <1>5, IdIs
  <2> QED BY <1>1, <1>5, <2>1, ExampleRead
<1> QED BY <1>2, <1>3, <1>4, <1>5

(* ButtonsRead: what the buttons of a card send is read as it was meant,   *)
(* for every label and every question id; which labels and ids do not get  *)
(* through to Codex, because they can be read as JSON or have white space, *)
(* is part of it.                                                          *)
THEOREM ButtonsAreRead == Spec => []ButtonsRead
<1>1. Typed => ButtonsRead
  BY ButtonsReadOn DEF Typed
<1> QED BY <1>1, TypedTexts, PTL
=============================================================================
