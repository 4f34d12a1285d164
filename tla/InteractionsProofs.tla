------------------------- MODULE InteractionsProofs -------------------------
(***************************************************************************)
(* The interaction commands, for any number of commands at work, requests  *)
(* and questions: item numbers mean what was shown, and answers that were  *)
(* saved are kept.                                                         *)
(***************************************************************************)
EXTENDS Interactions, FiniteSetTheorems, WellFoundedInduction, TLAPS

(* Where item numbers come from: what is pending and was not shown is      *)
(* newer than everything that was.                                         *)
NewerThanShown ==
  /\ pending \subseteq 1 .. asked /\ shown \subseteq 1 .. asked
  /\ \A k \in pending \ shown : \A j \in shown : j < k

(* What a command carries.                                                 *)
Carried ==
  \A m \in Commands :
    /\ pc[m] # "idle" => token[m] \in 1 .. asked
    /\ pc[m] = "idle" => merged[m] = {}
    /\ merged[m] # {} \/ pc[m] \in {"take", "store"} => fits[m]
    /\ pc[m] = "remove" => token[m] \in answered

(* One command at most holds the draft of a request, and while it does     *)
(* there is none in the map, unless two took it at once.                   *)
OneHolder ==
  \A k \in Tokens \ lost, m \in Commands :
    pc[m] = "store" /\ token[m] = k =>
      /\ drafts[k] = {}
      /\ \A n \in Commands : pc[n] = "store" /\ token[n] = k => n = m

(* Nobody was told of a request that was not made.                         *)
ToldOfAsked == \A k \in Tokens : told[k] # {} => k <= asked

IInv ==
  /\ TypeOK
  /\ NewerThanShown
  /\ Carried /\ OneHolder /\ ToldOfAsked /\ SavedAnswersKeptUnlessLost

-----------------------------------------------------------------------------
(* Item numbers.                                                           *)

LEMMA LeastExists ==
  ASSUME NEW S, S \subseteq Nat, S # {}
  PROVE  \E x \in S : \A y \in S : x <= y
<1> DEFINE R == {ss \in Nat \X Nat : ss[1] < ss[2]}
<1>1. R = OpToRel(<, Nat)
  BY Zenon DEF OpToRel
<1>2. IsWellFoundedOn(R, Nat)
  BY <1>1, NatLessThanWellFounded, Zenon
<1>3. PICK x \in S : \A y \in S : <<y, x>> \notin R
  <2> HIDE DEF R
  <2> QED BY <1>2, WFMin, Zenon
<1>4. \A y \in S : x <= y
  <2> SUFFICES ASSUME NEW y \in S PROVE x <= y
    OBVIOUS
  <2>1. <<y, x>> \in Nat \X Nat /\ <<y, x>>[1] = y /\ <<y, x>>[2] = x
    OBVIOUS
  <2>2. ~(y < x)
    BY <1>3, <2>1
  <2> QED BY <2>2
<1> QED BY <1>4

UpTo(S, k) == {j \in S : j <= k}

LEMMA UpToFinite ==
  ASSUME NEW S \in SUBSET Tokens, NEW k
  PROVE  /\ IsFiniteSet(S) /\ Cardinality(S) \in Nat
         /\ IsFiniteSet(UpTo(S, k)) /\ Cardinality(UpTo(S, k)) \in Nat
<1>1. IsFiniteSet(Tokens)
  BY InteractionsAssumption, FS_Interval DEF Tokens
<1>2. IsFiniteSet(S)
  BY <1>1, FS_Subset
<1>3. IsFiniteSet(UpTo(S, k))
  BY <1>2, FS_Subset DEF UpTo
<1> QED BY <1>2, <1>3, FS_CardinalityType

LEMMA MemberOf ==
  ASSUME NEW S \in SUBSET Tokens, NEW j \in S
  PROVE  j \in Int /\ 1 <= j /\ j <= MaxToken
<1>1. j \in 1 .. MaxToken
  BY Zenon DEF Tokens
<1> QED BY <1>1, InteractionsAssumption

(* Every number up to the size of a set of requests is the number of one.  *)
LEMMA NthExists ==
  ASSUME NEW S \in SUBSET Tokens, NEW n \in 1 .. Cardinality(S)
  PROVE  \E k \in S : Cardinality(UpTo(S, k)) = n
<1> DEFINE T == {k \in Tokens : Cardinality(UpTo(S, k)) >= n}
<1>1. MaxToken \in Nat /\ Tokens = 1 .. MaxToken
  BY InteractionsAssumption DEF Tokens
<1>2. Cardinality(S) \in Nat /\ \A k : Cardinality(UpTo(S, k)) \in Nat
  BY UpToFinite
<1>3. \A j \in S : j \in Int /\ 1 <= j /\ j <= MaxToken
  BY <1>1, MemberOf
<1>4. T # {}
  <2>1. UpTo(S, MaxToken) = S
    BY <1>3 DEF UpTo
  <2>2. PICK j \in S : TRUE
    <3>1. S # {}
      BY <1>2, FS_EmptySet
    <3> QED BY <3>1
  <2>3. MaxToken \in Tokens
    BY <1>1, <1>3, <2>2
  <2> QED BY <1>2, <2>1, <2>3
<1>5. PICK x \in T : \A y \in T : x <= y
  <2>1. T \subseteq Nat
    BY <1>1
  <2> HIDE DEF T
  <2> QED BY <1>4, <2>1, LeastExists
<1>6. x \in 1 .. MaxToken
  BY <1>1
<1> HIDE DEF T
<1>7. /\ \A j \in S : j <= x <=> j <= x - 1 \/ j = x
      /\ \A j \in S : ~(x <= x - 1) /\ (x = 1 => ~(j <= x - 1))
  BY <1>1, <1>3, <1>6
<1>8. Cardinality(UpTo(S, x - 1)) < n
  <2>1. CASE x = 1
    <3>1. UpTo(S, x - 1) = {}
      BY <1>7, <2>1, Zenon DEF UpTo
    <3> QED BY <1>2, <3>1, FS_EmptySet
  <2>2. CASE x # 1
    <3>1. x - 1 \in Tokens /\ ~(x <= x - 1)
      BY <1>1, <1>6, <2>2
    <3>2. x - 1 \notin T
      BY <1>5, <3>1
    <3> QED BY <1>2, <3>1, <3>2 DEF T
  <2> QED BY <2>1, <2>2
<1>9. x \in S
  <2> SUFFICES ASSUME x \notin S PROVE FALSE
    OBVIOUS
  <2>1. UpTo(S, x) = UpTo(S, x - 1)
    BY <1>7, Zenon DEF UpTo
  <2> QED BY <1>2, <1>5, <1>8, <2>1 DEF T
<1>10. UpTo(S, x) = UpTo(S, x - 1) \cup {x} /\ x \notin UpTo(S, x - 1)
  BY <1>7, <1>9, Zenon DEF UpTo
<1>11. Cardinality(UpTo(S, x)) = Cardinality(UpTo(S, x - 1)) + 1
  <2>1. IsFiniteSet(UpTo(S, x - 1))
    BY UpToFinite
  <2> QED BY <1>10, <2>1, FS_AddElement
<1>12. Cardinality(UpTo(S, x)) >= n
  BY <1>5 DEF T
<1>13. Cardinality(UpTo(S, x)) = n
  <2> DEFINE a == Cardinality(UpTo(S, x - 1))
             b == Cardinality(UpTo(S, x))
  <2>1. a \in Nat /\ b \in Nat /\ a < n /\ b = a + 1 /\ b >= n
    BY <1>2, <1>8, <1>11, <1>12
  <2> HIDE DEF a, b
  <2>2. b = n
    BY <1>2, <2>1
  <2> QED BY <2>2 DEF b
<1> QED BY <1>9, <1>13

LEMMA NthUnique ==
  ASSUME NEW S \in SUBSET Tokens, NEW j \in S, NEW k \in S,
         Cardinality(UpTo(S, j)) = Cardinality(UpTo(S, k)), j <= k
  PROVE  j = k
<1>1. \A i \in S : i \in Int
  BY MemberOf
<1>2. UpTo(S, j) \subseteq UpTo(S, k) /\ k \in UpTo(S, k)
  BY <1>1 DEF UpTo
<1>3. UpTo(S, k) = UpTo(S, j)
  BY <1>2, UpToFinite, FS_Subset
<1> QED BY <1>1, <1>2, <1>3 DEF UpTo

LEMMA NthIs ==
  ASSUME NEW S \in SUBSET Tokens, NEW k \in S
  PROVE  Nth(S, Cardinality(UpTo(S, k))) = k
<1>1. \A j \in S : Cardinality(UpTo(S, j)) = Cardinality(UpTo(S, k)) => j = k
  <2> SUFFICES ASSUME NEW j \in S, Cardinality(UpTo(S, j)) = Cardinality(UpTo(S, k))
               PROVE  j = k
    OBVIOUS
  <2>1. j \in Int /\ k \in Int
    BY InteractionsAssumption DEF Tokens
  <2>2. j <= k \/ k <= j
    BY <2>1
  <2> QED BY <2>2, NthUnique
<1> QED BY <1>1 DEF Nth, UpTo

(* Up to the request with a number all are listed that were shown, and     *)
(* what else is listed is newer: then the number means that request.       *)
LEMMA NumbersStay ==
  ASSUME NEW S \in SUBSET Tokens, NEW T \in SUBSET Tokens, NEW n \in 1 .. Cardinality(T),
         \A i \in S \ T : \A j \in T : j < i,
         UpTo(T, Nth(T, n)) \subseteq S
  PROVE  /\ Nth(S, n) = Nth(T, n) /\ Nth(T, n) \in S
         /\ n <= Cardinality(S)
<1>1. \A i \in S \cup T : i \in Int
  BY MemberOf
<1>2. PICK k \in T : Cardinality(UpTo(T, k)) = n
  BY NthExists
<1>3. Nth(T, n) = k
  BY <1>2, NthIs
<1>4. UpTo(S, k) = UpTo(T, k) /\ k \in S
  BY <1>1, <1>3 DEF UpTo
<1>5. Nth(S, n) = k
  BY <1>2, <1>4, NthIs
<1>6. Cardinality(UpTo(S, k)) <= Cardinality(S)
  <2>1. UpTo(S, k) \subseteq S
    BY DEF UpTo
  <2> QED BY <2>1, UpToFinite, FS_Subset
<1> QED BY <1>2, <1>3, <1>4, <1>5, <1>6

-----------------------------------------------------------------------------
(* Types.                                                                  *)

LEMMA ListedTokens == TypeOK => Listed \in SUBSET Tokens
BY DEF TypeOK, Listed

LEMMA InitHolds == Init => IInv
<1> SUFFICES ASSUME Init PROVE IInv
  OBVIOUS
<1> USE InteractionsAssumption DEF Init
<1>1. TypeOK
  BY DEF TypeOK, TaskStates
<1>2. NewerThanShown /\ Carried
  BY DEF NewerThanShown, Carried
<1>3. OneHolder /\ ToldOfAsked /\ SavedAnswersKeptUnlessLost
  BY DEF OneHolder, ToldOfAsked, SavedAnswersKeptUnlessLost
<1> QED BY <1>1, <1>2, <1>3 DEF IInv

LEMMA TypeStep == IInv /\ [Next]_vars => TypeOK'
<1> SUFFICES ASSUME IInv, [Next]_vars PROVE TypeOK'
  OBVIOUS
<1> USE DEF TypeOK, TaskStates, turnVars, taskVars, historyVars
<1>a. TypeOK /\ Carried /\ NewerThanShown
  BY DEF IInv
<1>1. CASE Ask
  BY <1>a, <1>1, InteractionsAssumption DEF Ask, Tokens
<1>2. CASE TurnSucceeds \/ TurnFails \/ ConnectionLost
  BY <1>a, <1>2 DEF TurnSucceeds, TurnFails, ConnectionLost
<1>3. CASE Pending
  BY <1>a, <1>3, ListedTokens DEF Pending
<1>4. ASSUME NEW m \in Commands, NEW target, NEW op, Decide(m, target, op)
      PROVE  TypeOK'
  <2>1. PICK k \in Tokens : Decide(m, target, op)!(k)
    BY <1>4 DEF Decide
  <2>2. Fits(k, op) \in BOOLEAN
    BY DEF Fits
  <2>3. k \in 0 .. MaxToken
    BY DEF Tokens
  <2> QED BY <1>a, <2>1, <2>2, <2>3 DEF Aim
<1>5. ASSUME NEW m \in Commands, NEW target, NEW q \in Questions, ReplyTo(m, target, q)
      PROVE  TypeOK'
  <2>1. PICK k \in Tokens : ReplyTo(m, target, q)!(k)
    BY <1>5 DEF ReplyTo
  <2>2. {[question |-> q, by |-> m]} \in SUBSET Answer
    BY DEF Answer
  <2>3. k \in 0 .. MaxToken
    BY DEF Tokens
  <2> QED BY <1>a, <2>1, <2>2, <2>3 DEF Aim
<1>6. ASSUME NEW m \in Commands, pc[m] # "idle"
      PROVE  token[m] \in Tokens
  <2>1. token[m] \in 1 .. asked /\ asked \in 0 .. MaxToken
    BY <1>a, <1>6 DEF Carried
  <2> QED BY <2>1, InteractionsAssumption DEF Tokens
<1>7. ASSUME NEW m \in Commands, Take(m)
      PROVE  TypeOK'
  <2>1. token[m] \in Tokens
    BY <1>6, <1>7 DEF Take, Goto
  <2>2. Merge(drafts[token[m]], merged[m]) \in SUBSET Answer
    BY <1>a, <2>1 DEF Merge
  <2> QED BY <1>a, <1>7, <2>1, <2>2 DEF Take, Goto
<1>8. ASSUME NEW m \in Commands, Store(m)
      PROVE  TypeOK'
  <2>1. token[m] \in Tokens
    BY <1>6, <1>8 DEF Store
  <2>2. merged[m] \in SUBSET Answer /\ 0 \in 0 .. MaxToken
    BY <1>a, InteractionsAssumption
  <2>3. told' \in [Tokens -> SUBSET Questions]
    <3> DEFINE new == told[token[m]] \cup {a.question : a \in merged[m]}
    <3>1. new \in SUBSET Questions
      BY <1>a, <2>1, <2>2 DEF Answer
    <3>2. told' = told \/ told' = [told EXCEPT ![token[m]] = new]
      BY <1>8 DEF Store
    <3> HIDE DEF new
    <3> QED BY <1>a, <2>1, <3>1, <3>2
  <2>4. /\ drafts' = [drafts EXCEPT ![token[m]] = merged[m]]
        /\ UNCHANGED <<turnVars, asked, pending, answered, shown, lost>>
        /\ pc' = [pc EXCEPT ![m] = "clear"] \/ pc' = [pc EXCEPT ![m] = "idle"]
        /\ token' = token \/ token' = [token EXCEPT ![m] = 0]
        /\ fits' = fits \/ fits' = [fits EXCEPT ![m] = FALSE]
        /\ merged' = merged \/ merged' = [merged EXCEPT ![m] = {}]
    BY <1>8 DEF Store, End
  <2> QED BY <1>a, <2>1, <2>2, <2>3, <2>4
<1>9. ASSUME NEW m \in Commands, Clear(m)
      PROVE  TypeOK'
  <2>1. token[m] \in Tokens
    BY <1>6, <1>9 DEF Clear, Goto
  <2> QED BY <1>a, <1>9, <2>1 DEF Clear, Goto
<1>10. ASSUME NEW m \in Commands, Respond(m)
       PROVE  TypeOK'
  <2>1. 0 \in 0 .. MaxToken
    BY InteractionsAssumption
  <2>2. CASE token[m] \in pending /\ fits[m] /\ open
    BY <1>a, <1>10, <2>2 DEF Respond
  <2>3. CASE ~(token[m] \in pending /\ fits[m] /\ open)
    <3>1. lost' \subseteq Tokens
      BY <1>a, <1>10 DEF Respond
    <3> QED BY <1>a, <1>10, <2>1, <2>3, <3>1 DEF Respond, End
  <2> QED BY <2>2, <2>3
<1>11. ASSUME NEW m \in Commands, Remove(m)
       PROVE  TypeOK'
  BY <1>a, <1>11, InteractionsAssumption DEF Remove, End
<1>12. CASE UNCHANGED vars
  BY <1>a, <1>12 DEF vars
<1> QED BY <1>1, <1>2, <1>3, <1>4, <1>5, <1>7, <1>8, <1>9, <1>10, <1>11, <1>12
        DEF Next, Step

-----------------------------------------------------------------------------
(* Item numbers mean what was shown.                                       *)

LEMMA NumbersMeanWhatWasShown == TypeOK /\ NewerThanShown => ItemNumbersStable
<1> SUFFICES ASSUME TypeOK, NewerThanShown, NEW n \in 1 .. Cardinality(shown),
                    UpTo(shown, Nth(shown, n)) \subseteq Listed
             PROVE  Resolve(Listed, [by |-> "ordinal", n |-> n]) = {Nth(shown, n)}
  BY Zenon DEF ItemNumbersStable, UpTo
<1>1. Listed \in SUBSET Tokens /\ shown \in SUBSET Tokens
  BY ListedTokens DEF TypeOK
<1>2. \A i \in Listed \ shown : \A j \in shown : j < i
  BY DEF NewerThanShown, Listed
<1>3. /\ Nth(Listed, n) = Nth(shown, n) /\ Nth(shown, n) \in Listed
      /\ n <= Cardinality(Listed)
  BY <1>1, <1>2, NumbersStay
<1> QED BY <1>3 DEF Resolve

LEMMA NumbersStep == IInv /\ [Next]_vars => NewerThanShown'
<1> SUFFICES ASSUME IInv, [Next]_vars PROVE NewerThanShown'
  OBVIOUS
<1> USE DEF turnVars, taskVars, historyVars
<1>a. TypeOK /\ NewerThanShown
  BY DEF IInv
<1>b. asked \in Nat
  BY <1>a, InteractionsAssumption DEF TypeOK
<1>1. CASE Ask
  <2>1. \A j \in shown : j \in Int /\ j < asked + 1
    BY <1>a, <1>b DEF NewerThanShown
  <2>2. pending' \subseteq 1 .. asked' /\ shown' \subseteq 1 .. asked'
    BY <1>a, <1>b, <1>1 DEF NewerThanShown, Ask
  <2>3. \A k \in pending' \ shown' : \A j \in shown' : j < k
    BY <1>a, <1>1, <2>1 DEF NewerThanShown, Ask
  <2> QED BY <2>2, <2>3 DEF NewerThanShown
<1>2. CASE TurnSucceeds \/ TurnFails \/ ConnectionLost
  BY <1>a, <1>2 DEF NewerThanShown, TurnSucceeds, TurnFails, ConnectionLost
<1>3. CASE Pending
  BY <1>a, <1>3 DEF NewerThanShown, Pending, Listed
<1>4. ASSUME NEW m \in Commands, NEW target, NEW op, Decide(m, target, op)
      PROVE  NewerThanShown'
  BY <1>a, <1>4 DEF NewerThanShown, Decide, Aim
<1>5. ASSUME NEW m \in Commands, NEW target, NEW q, ReplyTo(m, target, q)
      PROVE  NewerThanShown'
  BY <1>a, <1>5 DEF NewerThanShown, ReplyTo, Aim
<1>6. ASSUME NEW m \in Commands, Step(m)
      PROVE  NewerThanShown'
  BY <1>a, <1>6 DEF NewerThanShown, Step, Take, Store, Clear, Respond, Remove
<1>7. CASE UNCHANGED vars
  BY <1>a, <1>7 DEF NewerThanShown, vars
<1> QED BY <1>1, <1>2, <1>3, <1>4, <1>5, <1>6, <1>7 DEF Next

-----------------------------------------------------------------------------
(* What the commands carry, and the drafts.                                *)

LEMMA CarriedStep == IInv /\ [Next]_vars => Carried' /\ ToldOfAsked'
<1> SUFFICES ASSUME IInv, [Next]_vars PROVE Carried' /\ ToldOfAsked'
  OBVIOUS
<1> USE DEF turnVars, taskVars, historyVars
<1>a. TypeOK /\ NewerThanShown /\ Carried /\ ToldOfAsked
  BY DEF IInv
<1>b. asked \in Nat /\ Tokens \subseteq Int
  BY <1>a, InteractionsAssumption DEF TypeOK, Tokens
<1>1. CASE Ask
  <2>1. asked' \in Nat /\ asked < asked' /\ 1 .. asked \subseteq 1 .. asked'
    BY <1>b, <1>1 DEF Ask
  <2>2. Carried'
    BY <1>a, <1>1, <2>1 DEF Carried, Ask
  <2>3. \A k \in Tokens : k <= asked => k <= asked'
    BY <1>b, <2>1
  <2>4. ToldOfAsked'
    BY <1>a, <1>1, <2>3 DEF ToldOfAsked, Ask
  <2> QED BY <2>2, <2>4
<1>2. CASE TurnSucceeds \/ TurnFails \/ ConnectionLost \/ Pending
  BY <1>a, <1>2
     DEF Carried, ToldOfAsked, TurnSucceeds, TurnFails, ConnectionLost, Pending
<1>3. ASSUME NEW k, Listed \subseteq pending, k \in Listed
      PROVE  k \in 1 .. asked
  BY <1>a, <1>3 DEF NewerThanShown
<1>c. Listed \subseteq pending
  BY DEF Listed
<1>4. ASSUME NEW m \in Commands, NEW target, NEW op, Decide(m, target, op)
      PROVE  Carried' /\ ToldOfAsked'
  <2>1. PICK k \in Tokens : Decide(m, target, op)!(k)
    BY <1>4 DEF Decide
  <2>2. k \in 1 .. asked
    BY <1>3, <1>c, <2>1 DEF Aim, Resolve
  <2>3. Carried'
    BY <1>a, <2>1, <2>2 DEF Carried, TypeOK, Aim
  <2> QED BY <1>a, <2>1, <2>3 DEF ToldOfAsked, Aim
<1>5. ASSUME NEW m \in Commands, NEW target, NEW q, ReplyTo(m, target, q)
      PROVE  Carried' /\ ToldOfAsked'
  <2>1. PICK k \in Tokens : ReplyTo(m, target, q)!(k)
    BY <1>5 DEF ReplyTo
  <2>2. k \in 1 .. asked
    BY <1>3, <1>c, <2>1 DEF Aim, Resolve
  <2>3. Carried'
    BY <1>a, <2>1, <2>2 DEF Carried, TypeOK, Aim
  <2> QED BY <1>a, <2>1, <2>3 DEF ToldOfAsked, Aim
<1>6. ASSUME NEW m \in Commands, Take(m) \/ Clear(m)
      PROVE  Carried' /\ ToldOfAsked'
  <2>1. pc[m] # "idle" /\ pc'[m] \in {"store", "respond"}
    BY <1>a, <1>6 DEF Take, Clear, Goto, TypeOK
  <2>2. \A n \in Commands : n # m => pc'[n] = pc[n] /\ merged'[n] = merged[n]
    BY <1>a, <1>6 DEF Take, Clear, Goto, TypeOK
  <2>3. Take(m) \/ (merged'[m] = merged[m] /\ pc'[m] = "respond")
    BY <1>a, <1>6 DEF Clear, Goto, TypeOK
  <2>4. Take(m) => fits[m]
    BY <1>a DEF Carried, Take, Goto
  <2>5. asked' = asked /\ token' = token /\ fits' = fits /\ answered' = answered /\ told' = told
    BY <1>6 DEF Take, Clear
  <2>6. Carried'
    BY <1>a, <2>1, <2>2, <2>3, <2>4, <2>5 DEF Carried
  <2> QED BY <1>a, <2>5, <2>6 DEF ToldOfAsked
<1>7. ASSUME NEW m \in Commands, End(m), asked' = asked, answered \subseteq answered'
      PROVE  Carried'
  BY <1>a, <1>7 DEF End, Carried, TypeOK
<1>8. ASSUME NEW m \in Commands, Store(m)
      PROVE  Carried' /\ ToldOfAsked'
  <2>1. Carried'
    <3>1. CASE Complete(merged[m])
      BY <1>a, <1>8, <3>1 DEF Store, Carried, TypeOK
    <3>2. CASE ~Complete(merged[m])
      BY <1>7, <1>8, <3>2 DEF Store
    <3> QED BY <3>1, <3>2
  <2>2. token[m] \in 1 .. asked
    BY <1>a, <1>8 DEF Carried, Store
  <2>3. \A k \in Tokens : told'[k] = told[k] \/ k = token[m]
    BY <1>a, <1>8 DEF Store, TypeOK
  <2>4. ToldOfAsked'
    BY <1>a, <1>b, <1>8, <2>2, <2>3 DEF ToldOfAsked, Store
  <2> QED BY <2>1, <2>4
<1>9. ASSUME NEW m \in Commands, Respond(m)
      PROVE  Carried' /\ ToldOfAsked'
  <2>1. Carried'
    <3>1. CASE token[m] \in pending /\ fits[m] /\ open
      BY <1>a, <1>9, <3>1 DEF Respond, Carried, TypeOK
    <3>2. CASE ~(token[m] \in pending /\ fits[m] /\ open)
      BY <1>7, <1>9, <3>2 DEF Respond
    <3> QED BY <3>1, <3>2
  <2> QED BY <1>a, <1>9, <2>1 DEF ToldOfAsked, Respond
<1>10. ASSUME NEW m \in Commands, Remove(m)
       PROVE  Carried' /\ ToldOfAsked'
  <2>1. Carried'
    BY <1>7, <1>10 DEF Remove
  <2> QED BY <1>a, <1>10, <2>1 DEF ToldOfAsked, Remove
<1>11. CASE UNCHANGED vars
  BY <1>a, <1>11 DEF Carried, ToldOfAsked, vars
<1> QED BY <1>1, <1>2, <1>4, <1>5, <1>6, <1>8, <1>9, <1>10, <1>11 DEF Next, Step

LEMMA HolderStep == IInv /\ [Next]_vars => OneHolder'
<1> SUFFICES ASSUME IInv, [Next]_vars PROVE OneHolder'
  OBVIOUS
<1> USE DEF turnVars, taskVars, historyVars
<1>a. TypeOK /\ Carried /\ OneHolder
  BY DEF IInv
<1>1. CASE Ask \/ TurnSucceeds \/ TurnFails \/ ConnectionLost \/ Pending
  BY <1>a, <1>1 DEF OneHolder, Ask, TurnSucceeds, TurnFails, ConnectionLost, Pending
<1>2. ASSUME NEW m \in Commands, pc'[m] # "store", lost \subseteq lost',
             \A n \in Commands : n # m => pc'[n] = pc[n] /\ token'[n] = token[n],
             \A k \in Tokens : drafts'[k] = drafts[k] \/ drafts'[k] = {}
                 \/ (k = token[m] /\ pc[m] = "store")
      PROVE  OneHolder'
  <2> SUFFICES ASSUME NEW k \in Tokens \ lost', NEW n \in Commands,
                      pc'[n] = "store", token'[n] = k
               PROVE  /\ drafts'[k] = {}
                      /\ \A i \in Commands : pc'[i] = "store" /\ token'[i] = k => i = n
    BY DEF OneHolder
  <2>1. k \in Tokens \ lost /\ n # m /\ pc[n] = "store" /\ token[n] = k
    BY <1>2
  <2>2. /\ drafts[k] = {}
        /\ \A i \in Commands : pc[i] = "store" /\ token[i] = k => i = n
    BY <1>a, <2>1 DEF OneHolder
  <2>3. ~(k = token[m] /\ pc[m] = "store")
    BY <2>1, <2>2
  <2>4. drafts'[k] = {}
    BY <1>2, <2>2, <2>3
  <2>5. ASSUME NEW i \in Commands, pc'[i] = "store", token'[i] = k
        PROVE  i = n
    BY <1>2, <2>2, <2>5
  <2> QED BY <2>4, <2>5
<1>3. ASSUME NEW m \in Commands, NEW target, NEW op, Decide(m, target, op)
      PROVE  OneHolder'
  <2>1. PICK k \in Tokens : Decide(m, target, op)!(k)
    BY <1>3 DEF Decide
  <2>2. \A n \in Commands : n # m => pc'[n] = pc[n] /\ token'[n] = token[n]
    BY <1>a, <2>1 DEF Aim, TypeOK
  <2>3. pc'[m] # "store" /\ lost' = lost /\ drafts' = drafts
    BY <1>a, <2>1 DEF Aim, TypeOK
  <2> QED BY <1>2, <2>2, <2>3
<1>4. ASSUME NEW m \in Commands, NEW target, NEW q, ReplyTo(m, target, q)
      PROVE  OneHolder'
  <2>1. PICK k \in Tokens : ReplyTo(m, target, q)!(k)
    BY <1>4 DEF ReplyTo
  <2>2. \A n \in Commands : n # m => pc'[n] = pc[n] /\ token'[n] = token[n]
    BY <1>a, <2>1 DEF Aim, TypeOK
  <2>3. pc'[m] # "store" /\ lost' = lost /\ drafts' = drafts
    BY <1>a, <2>1 DEF Aim, TypeOK
  <2> QED BY <1>2, <2>2, <2>3
<1>5. ASSUME NEW m \in Commands, Take(m)
      PROVE  OneHolder'
  <2> SUFFICES ASSUME NEW k \in Tokens \ lost', NEW n \in Commands,
                      pc'[n] = "store", token'[n] = k
               PROVE  /\ drafts'[k] = {}
                      /\ \A i \in Commands : pc'[i] = "store" /\ token'[i] = k => i = n
    BY DEF OneHolder
  <2>1. /\ token' = token /\ pc'[m] = "store" /\ pc[m] = "take"
        /\ \A i \in Commands : i # m => pc'[i] = pc[i]
        /\ \A j \in Tokens : drafts'[j] = IF j = token[m] THEN {} ELSE drafts[j]
    BY <1>a, <1>5 DEF Take, Goto, TypeOK
  <2>2. CASE k = token[m]
    <3>1. k \notin lost /\ Holders(k) = {}
      BY <1>5, <2>2 DEF Take
    <3> QED BY <2>1, <2>2, <3>1 DEF Holders
  <2>3. CASE k # token[m]
    <3>1. k \notin lost
      BY <1>5 DEF Take
    <3> QED BY <1>a, <2>1, <2>3, <3>1 DEF OneHolder
  <2> QED BY <2>2, <2>3
<1>6. ASSUME NEW m \in Commands, Store(m)
      PROVE  OneHolder'
  <2>1. /\ pc'[m] \in {"clear", "idle"}
        /\ \A i \in Commands : i # m => pc'[i] = pc[i] /\ token'[i] = token[i]
    BY <1>a, <1>6 DEF Store, End, TypeOK
  <2>2. /\ lost' = lost /\ pc[m] = "store"
        /\ \A k \in Tokens : k # token[m] => drafts'[k] = drafts[k]
    BY <1>a, <1>6 DEF Store, TypeOK
  <2> QED BY <1>2, <2>1, <2>2
<1>7. ASSUME NEW m \in Commands, Clear(m)
      PROVE  OneHolder'
  <2>1. lost \subseteq lost'
    BY <1>7 DEF Clear
  <2>2. \A n \in Commands : n # m => pc'[n] = pc[n] /\ token'[n] = token[n]
    BY <1>a, <1>7 DEF Clear, Goto, TypeOK
  <2>3. /\ pc'[m] # "store"
        /\ \A k \in Tokens : drafts'[k] = drafts[k] \/ drafts'[k] = {}
    BY <1>a, <1>7 DEF Clear, Goto, TypeOK
  <2> QED BY <1>2, <2>1, <2>2, <2>3
<1>8. ASSUME NEW m \in Commands, Respond(m) \/ Remove(m)
      PROVE  OneHolder'
  <2>1. /\ pc'[m] \in {"remove", "idle"} /\ lost \subseteq lost' /\ drafts' = drafts
        /\ \A i \in Commands : i # m => pc'[i] = pc[i] /\ token'[i] = token[i]
    BY <1>a, <1>8 DEF Respond, Remove, End, TypeOK
  <2> QED BY <1>2, <2>1
<1>9. CASE UNCHANGED vars
  BY <1>a, <1>9 DEF OneHolder, vars
<1> QED BY <1>1, <1>3, <1>4, <1>5, <1>6, <1>7, <1>8, <1>9 DEF Next, Step

-----------------------------------------------------------------------------
(* Saved answers.                                                          *)

(* A question is answered among some answers.                              *)
Among(q, answers) == \E b \in answers : b.question = q

LEMMA KeptWhere ==
  ASSUME NEW k, NEW q
  PROVE  /\ Kept(k, q) <=> \/ Among(q, drafts[k])
                           \/ \E n \in Commands : token[n] = k /\ Among(q, merged[n])
         /\ Kept(k, q)' <=> \/ Among(q, drafts'[k])
                            \/ \E n \in Commands : token'[n] = k /\ Among(q, merged'[n])
BY DEF Kept, Among

LEMMA MergeKeeps ==
  ASSUME NEW old, NEW new, NEW q, Among(q, old) \/ Among(q, new)
  PROVE  Among(q, Merge(old, new))
BY DEF Among, Merge

LEMMA SavedStep == IInv /\ [Next]_vars => SavedAnswersKeptUnlessLost'
<1> SUFFICES ASSUME IInv, [Next]_vars PROVE SavedAnswersKeptUnlessLost'
  OBVIOUS
<1> USE DEF turnVars, taskVars, historyVars
<1>a. TypeOK /\ NewerThanShown /\ Carried /\ OneHolder /\ ToldOfAsked
      /\ SavedAnswersKeptUnlessLost
  BY DEF IInv
<1>b. asked \in Nat /\ Tokens \subseteq Int /\ pending \subseteq Tokens
  BY <1>a, InteractionsAssumption DEF TypeOK, Tokens
<1>c. ASSUME NEW m \in Commands, pc[m] # "idle"
      PROVE  token[m] \in Tokens
  <2>1. token[m] \in 1 .. asked /\ asked \in 0 .. MaxToken
    BY <1>a, <1>c DEF Carried, TypeOK
  <2> QED BY <2>1, InteractionsAssumption DEF Tokens
(* Nothing moves but what no request waits for.                            *)
<1>1. ASSUME drafts' = drafts, told' = told, lost \subseteq lost', answered \subseteq answered',
             pending' \subseteq pending \cup {asked + 1},
             \A n \in Commands :
               \/ token'[n] = token[n] /\ merged'[n] = merged[n]
               \/ merged[n] = {}
               \/ token[n] \notin (pending' \ answered') \ lost'
      PROVE  SavedAnswersKeptUnlessLost'
  <2> SUFFICES ASSUME NEW k \in (pending' \ answered') \ lost', NEW q \in told'[k],
                      k \in Tokens
               PROVE  Kept(k, q)'
    BY TypeStep DEF SavedAnswersKeptUnlessLost, TypeOK
  <2>1. k # asked + 1
    BY <1>a, <1>b, <1>1 DEF ToldOfAsked
  <2>2. Kept(k, q)
    BY <1>a, <1>1, <2>1 DEF SavedAnswersKeptUnlessLost
  <2>3. CASE Among(q, drafts[k])
    BY <1>1, <2>3, KeptWhere
  <2>4. ASSUME NEW n \in Commands, token[n] = k, Among(q, merged[n])
        PROVE  Kept(k, q)'
    <3>1. merged[n] # {}
      BY <2>4 DEF Among
    <3>2. token'[n] = k /\ merged'[n] = merged[n]
      BY <1>1, <2>4, <3>1
    <3> QED BY <2>4, <3>2, KeptWhere
  <2> QED BY <2>2, <2>3, <2>4, KeptWhere
<1>2. CASE Ask \/ TurnSucceeds \/ TurnFails \/ ConnectionLost \/ Pending
  BY <1>1, <1>2 DEF Ask, TurnSucceeds, TurnFails, ConnectionLost, Pending
<1>3. ASSUME NEW m \in Commands, NEW target, NEW k, Aim(m, target, k),
             merged' = merged \/ \E x : merged' = [merged EXCEPT ![m] = x]
      PROVE  SavedAnswersKeptUnlessLost'
  <2>1. merged[m] = {}
    BY <1>a, <1>3 DEF Aim, Carried
  <2>2. \A n \in Commands : n = m \/ (token'[n] = token[n] /\ merged'[n] = merged[n])
    BY <1>a, <1>3 DEF Aim, TypeOK
  <2> QED BY <1>1, <1>3, <2>1, <2>2 DEF Aim
<1>4. ASSUME NEW m \in Commands, NEW target, NEW op, Decide(m, target, op)
      PROVE  SavedAnswersKeptUnlessLost'
  BY <1>3, <1>4 DEF Decide
<1>5. ASSUME NEW m \in Commands, NEW target, NEW q, ReplyTo(m, target, q)
      PROVE  SavedAnswersKeptUnlessLost'
  BY <1>3, <1>5 DEF ReplyTo
<1>6. ASSUME NEW m \in Commands, Take(m)
      PROVE  SavedAnswersKeptUnlessLost'
  <2> DEFINE t == token[m]
  <2>1. t \in Tokens
    BY <1>6, <1>c DEF Take, Goto
  <2>2. /\ pending' = pending /\ answered' = answered /\ told' = told /\ token' = token
        /\ lost \subseteq lost'
        /\ \A j \in Tokens : j # t => drafts'[j] = drafts[j]
        /\ \A n \in Commands : n # m => merged'[n] = merged[n]
        /\ merged'[m] = Merge(drafts[t], merged[m])
    BY <1>a, <1>6, <2>1 DEF Take, TypeOK
  <2> HIDE DEF t
  <2> SUFFICES ASSUME NEW k \in (pending' \ answered') \ lost', NEW q \in told'[k]
               PROVE  Kept(k, q)'
    BY DEF SavedAnswersKeptUnlessLost
  <2>3. k \in Tokens /\ Kept(k, q)
    BY <1>a, <1>b, <2>2 DEF SavedAnswersKeptUnlessLost
  <2>4. CASE Among(q, drafts[k]) /\ k # t
    BY <2>2, <2>3, <2>4, KeptWhere
  <2>5. CASE Among(q, drafts[k]) /\ k = t
    <3>1. Among(q, merged'[m])
      BY <2>2, <2>5, MergeKeeps
    <3> QED BY <2>2, <2>5, <3>1, KeptWhere DEF t
  <2>6. ASSUME NEW n \in Commands, token[n] = k, Among(q, merged[n])
        PROVE  Kept(k, q)'
    <3>1. Among(q, merged'[n])
      BY <2>2, <2>6, MergeKeeps
    <3> QED BY <2>2, <2>6, <3>1, KeptWhere
  <2> QED BY <2>3, <2>4, <2>5, <2>6, KeptWhere
<1>7. ASSUME NEW m \in Commands, Store(m)
      PROVE  SavedAnswersKeptUnlessLost'
  <2> DEFINE t == token[m]
  <2>1. t \in Tokens
    BY <1>7, <1>c DEF Store
  <2>2. /\ pending' = pending /\ answered' = answered /\ lost' = lost
        /\ \A j \in Tokens : j # t => drafts'[j] = drafts[j] /\ told'[j] = told[j]
        /\ \A n \in Commands : n # m => merged'[n] = merged[n] /\ token'[n] = token[n]
        /\ drafts'[t] = merged[m]
        /\ told'[t] = told[t] \/ told'[t] = told[t] \cup {a.question : a \in merged[m]}
    BY <1>a, <1>7, <2>1 DEF Store, End, TypeOK
  <2>3. pc[m] = "store" /\ token[m] = t
    BY <1>7 DEF Store
  <2> HIDE DEF t
  <2> SUFFICES ASSUME NEW k \in (pending' \ answered') \ lost', NEW q \in told'[k]
               PROVE  Kept(k, q)'
    BY DEF SavedAnswersKeptUnlessLost
  <2>4. k \in Tokens /\ k \in (pending \ answered) \ lost
    BY <1>b, <2>2
  <2>5. CASE k = t
    <3>1. drafts[k] = {}
      BY <1>a, <2>3, <2>4, <2>5 DEF OneHolder
    <3>2. CASE q \in {a.question : a \in merged[m]}
      <4>1. Among(q, drafts'[k])
        BY <2>2, <2>5, <3>2 DEF Among
      <4> QED BY <4>1, KeptWhere
    <3>3. CASE q \in told[k]
      <4>1. Kept(k, q)
        BY <1>a, <2>4, <3>3 DEF SavedAnswersKeptUnlessLost
      <4>2. PICK n \in Commands : token[n] = k /\ Among(q, merged[n])
        BY <3>1, <4>1, KeptWhere DEF Among
      <4>3. CASE n = m
        <5>1. Among(q, drafts'[k])
          BY <2>2, <2>5, <4>2, <4>3
        <5> QED BY <5>1, KeptWhere
      <4>4. CASE n # m
        <5>1. token'[n] = k /\ Among(q, merged'[n])
          BY <2>2, <4>2, <4>4
        <5> QED BY <5>1, KeptWhere
      <4> QED BY <4>3, <4>4
    <3> QED BY <2>2, <2>5, <3>2, <3>3
  <2>6. CASE k # t
    <3>1. q \in told[k] /\ drafts'[k] = drafts[k]
      BY <2>2, <2>4, <2>6
    <3>2. Kept(k, q)
      BY <1>a, <2>4, <3>1 DEF SavedAnswersKeptUnlessLost
    <3>3. \A n \in Commands : token[n] = k => token'[n] = k /\ merged'[n] = merged[n]
      BY <2>2, <2>3, <2>6
    <3> QED BY <3>1, <3>2, <3>3, KeptWhere
  <2> QED BY <2>5, <2>6
<1>8. ASSUME NEW m \in Commands, Clear(m)
      PROVE  SavedAnswersKeptUnlessLost'
  <2> DEFINE t == token[m]
  <2>1. t \in Tokens
    BY <1>8, <1>c DEF Clear, Goto
  <2>2. /\ pending' = pending /\ answered' = answered /\ told' = told /\ token' = token
        /\ merged' = merged
        /\ \A j \in Tokens : j # t => drafts'[j] = drafts[j]
        /\ lost \subseteq lost'
        /\ t \in lost' \/ drafts[t] = {} \/ drafts[t] = merged[m]
    BY <1>a, <1>8, <2>1 DEF Clear, TypeOK
  <2> HIDE DEF t
  <2> SUFFICES ASSUME NEW k \in (pending' \ answered') \ lost', NEW q \in told'[k]
               PROVE  Kept(k, q)'
    BY DEF SavedAnswersKeptUnlessLost
  <2>3. k \in Tokens /\ Kept(k, q)
    BY <1>a, <1>b, <2>2 DEF SavedAnswersKeptUnlessLost
  <2>4. CASE Among(q, drafts[k]) /\ k # t
    BY <2>2, <2>3, <2>4, KeptWhere
  <2>5. CASE Among(q, drafts[k]) /\ k = t
    <3>1. Among(q, merged'[m])
      BY <2>2, <2>5 DEF Among
    <3> QED BY <2>2, <2>5, <3>1, KeptWhere DEF t
  <2> QED BY <2>2, <2>3, <2>4, <2>5, KeptWhere
<1>9. ASSUME NEW m \in Commands, Respond(m)
      PROVE  SavedAnswersKeptUnlessLost'
  <2>1. \A n \in Commands : n # m => token'[n] = token[n] /\ merged'[n] = merged[n]
    BY <1>a, <1>9 DEF Respond, End, TypeOK
  <2>2. token[m] \in pending /\ fits[m] /\ open => token' = token /\ merged' = merged
    BY <1>9 DEF Respond
  <2>3. /\ ~fits[m] => merged[m] = {}
        /\ token[m] \in pending /\ ~open /\ merged[m] # {} => token[m] \in lost'
    BY <1>a, <1>9 DEF Carried, Respond
  <2>4. /\ drafts' = drafts /\ told' = told /\ lost \subseteq lost'
        /\ answered \subseteq answered' /\ pending' = pending
    BY <1>9 DEF Respond
  <2>5. \A n \in Commands :
          \/ token'[n] = token[n] /\ merged'[n] = merged[n]
          \/ merged[n] = {}
          \/ token[n] \notin (pending' \ answered') \ lost'
    BY <2>1, <2>2, <2>3, <2>4
  <2> QED BY <1>1, <2>4, <2>5
<1>10. ASSUME NEW m \in Commands, Remove(m)
       PROVE  SavedAnswersKeptUnlessLost'
  <2>1. \A n \in Commands : n # m => token'[n] = token[n] /\ merged'[n] = merged[n]
    BY <1>a, <1>10 DEF Remove, End, TypeOK
  <2>2. token[m] \in answered
    BY <1>a, <1>10 DEF Carried, Remove
  <2>3. /\ drafts' = drafts /\ told' = told /\ lost' = lost
        /\ answered' = answered /\ pending' \subseteq pending
    BY <1>10 DEF Remove
  <2> QED BY <1>1, <2>1, <2>2, <2>3
<1>11. CASE UNCHANGED vars
  BY <1>1, <1>11 DEF vars
<1> QED BY <1>2, <1>4, <1>5, <1>6, <1>7, <1>8, <1>9, <1>10, <1>11 DEF Next, Step

-----------------------------------------------------------------------------
LEMMA Invariance == Spec => []IInv
<1>1. IInv /\ [Next]_vars => IInv'
  BY TypeStep, NumbersStep, CarriedStep, HolderStep, SavedStep DEF IInv
<1> QED BY <1>1, InitHolds, PTL DEF Spec

(* The state of the commands, the drafts and the requests is well formed.  *)
THEOREM TypeCorrect == Spec => []TypeOK
<1>1. IInv => TypeOK
  BY DEF IInv
<1> QED BY <1>1, Invariance, PTL

(* README.md:118: the number a request was shown with means that request,  *)
(* for as long as it and all that were shown before it wait, whatever is   *)
(* asked and answered besides.                                             *)
THEOREM NumbersStable == Spec => []ItemNumbersStable
<1>1. IInv => ItemNumbersStable
  BY NumbersMeanWhatWasShown DEF IInv
<1> QED BY <1>1, Invariance, PTL

(* gateway.rs:542: what a user was told to be saved is kept while its      *)
(* request waits, whatever other commands do, but for the three ways in    *)
(* which the code loses a draft.                                           *)
THEOREM SavedAnswersKept == Spec => []SavedAnswersKeptUnlessLost
<1>1. IInv => SavedAnswersKeptUnlessLost
  BY DEF IInv
<1> QED BY <1>1, Invariance, PTL
=============================================================================
