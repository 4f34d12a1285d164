---------------------------- MODULE FeishuProofs ----------------------------
(***************************************************************************)
(* The Feishu frontend, for any number of senders, conversations,          *)
(* interactions and failures: replies stand, cards follow their tokens,    *)
(* and a repeated event has a cause for each repetition.                   *)
(***************************************************************************)
EXTENDS Feishu, FiniteSetTheorems, SequenceTheorems, TLAPS

(* An interaction has a token, as long as it is on its way.                *)
Fitted ==
  /\ \A i \in 1 .. Len(queue) : queue[i].kind = "pending" => queue[i].token \in Tokens
  /\ \A s \in Senders : sender[s] # IdleSender /\ sender[s].msg.kind = "pending"
                          => sender[s].msg.token \in Tokens

(* A draft is of one conversation, and it is no reply.                     *)
DraftsOpen ==
  \A c \in Conversations :
    /\ conversation_state[c] \notin replies
    /\ \A d \in Conversations :
         conversation_state[c] = conversation_state[d] /\ c # d => conversation_state[c] = 0

(* What was passed on and what waits to be read: a delivery that found no  *)
(* frame of its event in the socket was the first, or followed a failure.  *)
Covered(f, s, acked, t, l, n) ==
  /\ f + s <= t + l
  /\ f + s <= n + l + (IF s > 0 \/ acked THEN 1 ELSE 0)
  /\ s <= 1 + l

Forwarded ==
  /\ Len(events) <= MaxEvents
  /\ \A i \in 1 .. MaxEvents : i > Len(events) => socket[i] = 0
  /\ \A i \in 1 .. Len(events) :
       Covered(events[i].forwarded, socket[i], events[i].acked, tries[i], late[i], failures)

(* Buttons are on cards.                                                   *)
Clicked ==
  \A i \in 1 .. Len(events) : events[i].kind = "click" =>
    events[i].post \in 1 .. Len(posts) /\ posts[events[i].post].card \in Keys

(* An interaction becomes cards once.                                      *)
Made(k)      == \E i \in 1 .. Len(posts) : posts[i].card[1] = k
Queued(i, k) == queue[i].kind = "pending" /\ queue[i].token = k
Held(s, k)   == /\ sender[s] # IdleSender
                /\ sender[s].msg.kind = "pending" /\ sender[s].msg.token = k

SentOnce ==
  \A k \in Tokens :
    /\ <<"pending", k>> \notin given => ~Made(k)
    /\ \A i \in 1 .. Len(queue) : Queued(i, k) =>
         /\ <<"pending", k>> \in given /\ ~Made(k)
         /\ \A j \in 1 .. Len(queue) : Queued(j, k) => j = i
    /\ \A s \in Senders : Held(s, k) =>
         /\ <<"pending", k>> \in given /\ ~Made(k)
         /\ \A j \in 1 .. Len(queue) : ~Queued(j, k)
         /\ \A t \in Senders : Held(t, k) => t = s

(* What the loop remembers of the cards that are up.                       *)
Remembered ==
  /\ \A key \in Keys : LET i == pending_card_messages[key] IN
       i # 0 => posts[i].card = key
  /\ \A i, j \in 1 .. Len(posts) :
       posts[i].card = posts[j].card /\ i # j => posts[i].card = NoCard
  /\ \A i \in 1 .. Len(posts) :
       posts[i].card # NoCard /\ posts[i].up /\ i \notin stray
         => pending_card_messages[posts[i].card] = i

IInv ==
  /\ TypeOK /\ Fitted
  /\ DraftsOpen /\ Forwarded /\ Clicked
  /\ SentOnce /\ Remembered /\ CardsFollowTokens

-----------------------------------------------------------------------------
(* Messages: one more, or one rewritten.                                   *)

(* Beyond the cards of ps, qs has messages that are none.                  *)
SameCards(ps, qs) ==
  /\ Len(ps) <= Len(qs)
  /\ \A i \in 1 .. Len(ps) : qs[i].card = ps[i].card /\ qs[i].up = ps[i].up
  /\ \A i \in Len(ps) + 1 .. Len(qs) : qs[i].card = NoCard

LEMMA TextIsPost ==
  ASSUME NEW m \in Outbound
  PROVE  TextOf(m) \in Post
BY DEF Outbound, TextOf, Post

LEMMA OneMore ==
  ASSUME NEW ps \in Seq(Post), NEW p \in Post
  PROVE  /\ Append(ps, p) \in Seq(Post) /\ Len(Append(ps, p)) = Len(ps) + 1
         /\ \A i \in 1 .. Len(ps) : Append(ps, p)[i] = ps[i]
         /\ Append(ps, p)[Len(ps) + 1] = p
         /\ Len(ps) \in Nat
OBVIOUS

LEMMA MoreText ==
  ASSUME NEW ps \in Seq(Post), NEW m \in Outbound, NEW r
  PROVE  LET qs == WithPost(ps, TextOf(m), r) IN
         /\ qs \in Seq(Post) /\ Len(qs) \in Len(ps) .. Len(ps) + 1
         /\ r # "failed" => Len(qs) = Len(ps) + 1
         /\ \A i \in 1 .. Len(ps) : qs[i] = ps[i]
         /\ SameCards(ps, qs)
<1>1. TextOf(m) \in Post /\ TextOf(m).card = NoCard
  BY TextIsPost DEF TextOf
<1>2. CASE r = "failed"
  BY <1>2 DEF WithPost, SameCards
<1>3. CASE r # "failed"
  <2> DEFINE qs == Append(ps, TextOf(m))
  <2>1. /\ qs \in Seq(Post) /\ Len(qs) = Len(ps) + 1 /\ Len(ps) \in Nat
        /\ \A i \in 1 .. Len(ps) : qs[i] = ps[i]
        /\ qs[Len(ps) + 1].card = NoCard
    BY <1>1, OneMore
  <2>2. WithPost(ps, TextOf(m), r) = qs
    BY <1>3 DEF WithPost
  <2> HIDE DEF qs
  <2>3. SameCards(ps, qs)
    BY <2>1 DEF SameCards
  <2> QED BY <2>1, <2>2, <2>3
<1> QED BY <1>2, <1>3

Reworded(ps, m, d) == [ps EXCEPT ![d].text = m.n]

LEMMA Rewritten ==
  ASSUME NEW ps \in Seq(Post), NEW m \in Outbound, NEW d \in 1 .. Len(ps), NEW qs,
         qs = Reworded(ps, m, d)
  PROVE  /\ qs \in Seq(Post) /\ Len(qs) = Len(ps)
         /\ \A i \in 1 .. Len(ps) : i # d => qs[i] = ps[i]
         /\ SameCards(ps, qs)
<1> DEFINE e == [ps[d] EXCEPT !.text = m.n]
<1>1. e \in Post /\ e.card = ps[d].card /\ e.up = ps[d].up
  <2>1. ps[d] \in Post
    BY ElementOfSeq
  <2>2. m.n \in 1 .. MaxSends
    BY DEF Outbound
  <2> QED BY <2>1, <2>2 DEF Post
<1>2. qs = [ps EXCEPT ![d] = e]
  BY DEF Reworded
<1> HIDE DEF e
<1>3. /\ qs \in Seq(Post) /\ Len(qs) = Len(ps)
      /\ \A i \in 1 .. Len(ps) : qs[i] = IF i = d THEN e ELSE ps[i]
  BY <1>1, <1>2, ExceptSeq
<1>4. SameCards(ps, qs)
  <2>1. Len(ps) \in Nat
    OBVIOUS
  <2> QED BY <1>1, <1>3, <2>1 DEF SameCards
<1> QED BY <1>3, <1>4

-----------------------------------------------------------------------------
(* What handling a message does to the drafts and the replies.             *)

Written ==
  /\ posts' \in Seq(Post) /\ Len(posts) <= Len(posts')
  /\ conversation_state' \in [Conversations -> 0 .. Len(posts')]
  /\ replies' \subseteq 1 .. Len(posts')
  /\ DraftsOpen'
  /\ \A i \in replies : posts'[i].text = posts[i].text

(* A new message, which no draft and no reply is.                          *)
LEMMA DraftMoves ==
  ASSUME TypeOK, DraftsOpen, NEW m \in Outbound,
         posts' \in Seq(Post), Len(posts) <= Len(posts'),
         NEW id \in 0 .. Len(posts'), SetDraft(m, id),
         id \in {0, conversation_state[m.conv]} \/ id \notin 1 .. Len(posts),
         \/ replies' = replies
         \/ /\ id = 0
            /\ \E j \in 1 .. Len(posts') :
                 /\ replies' = replies \cup {j}
                 /\ j = conversation_state[m.conv] \/ j \notin 1 .. Len(posts)
  PROVE  /\ conversation_state' \in [Conversations -> 0 .. Len(posts')]
         /\ replies' \subseteq 1 .. Len(posts')
         /\ DraftsOpen'
<1>1. Len(posts) \in Nat /\ Len(posts') \in Nat /\ m.conv \in Conversations
  BY DEF TypeOK, Outbound
<1>2. /\ conversation_state \in [Conversations -> 0 .. Len(posts)]
      /\ replies \subseteq 1 .. Len(posts)
  BY DEF TypeOK
<1>3. /\ \A c \in Conversations : conversation_state[c] \in 0 .. Len(posts)
      /\ \A c \in Conversations : conversation_state[c] \in 0 .. Len(posts')
  BY <1>1, <1>2
<1>4. conversation_state' = [conversation_state EXCEPT ![m.conv] = id]
  BY DEF SetDraft
<1>5. conversation_state' \in [Conversations -> 0 .. Len(posts')]
  BY <1>2, <1>3, <1>4
<1>6. replies' \subseteq 1 .. Len(posts')
  <2>1. 1 .. Len(posts) \subseteq 1 .. Len(posts')
    BY <1>1
  <2> QED BY <1>2, <2>1
<1>7. \A c \in Conversations :
        conversation_state'[c] = IF c = m.conv THEN id ELSE conversation_state[c]
  BY <1>2, <1>4
<1>8. 0 \notin replies' /\ 0 \notin 1 .. Len(posts)
  BY <1>1, <1>6
<1>9. ASSUME NEW c \in Conversations
      PROVE  conversation_state'[c] \notin replies'
  <2>1. CASE c = m.conv
    BY <1>1, <1>2, <1>7, <1>8, <2>1 DEF DraftsOpen
  <2>2. CASE c # m.conv
    <3>1. conversation_state[c] \notin replies
      BY DEF DraftsOpen
    <3>2. conversation_state[c] = conversation_state[m.conv] => conversation_state[c] = 0
      BY <1>1, <2>2 DEF DraftsOpen
    <3> QED BY <1>1, <1>3, <1>7, <1>8, <2>2, <3>1, <3>2
  <2> QED BY <2>1, <2>2
<1>10. ASSUME NEW c \in Conversations, NEW d \in Conversations,
              conversation_state'[c] = conversation_state'[d], c # d
       PROVE  conversation_state'[c] = 0
  <2>1. \A e \in Conversations : e # m.conv /\ conversation_state[e] = id => id = 0
    BY <1>1, <1>3 DEF DraftsOpen
  <2> QED BY <1>7, <1>10, <2>1 DEF DraftsOpen
<1>11. DraftsOpen'
  BY <1>9, <1>10 DEF DraftsOpen
<1> QED BY <1>5, <1>6, <1>11

LEMMA UpsertWrites ==
  ASSUME TypeOK, DraftsOpen, NEW m \in Outbound, NEW keep \in BOOLEAN, NEW r \in Outcomes,
         Upsert(m, keep, r), keep => m.kind # "reply"
  PROVE  Written /\ SameCards(posts, posts')
<1> DEFINE draft == conversation_state[m.conv]
           id    == IF draft = 0 THEN Len(posts) + 1 ELSE draft
<1>1. /\ posts \in Seq(Post) /\ Len(posts) \in Nat /\ draft \in 0 .. Len(posts)
      /\ replies \subseteq 1 .. Len(posts) /\ draft \notin replies
      /\ conversation_state \in [Conversations -> 0 .. Len(posts)]
      /\ m.conv \in Conversations
  BY DEF TypeOK, Outbound, DraftsOpen
<1>2. /\ posts' = IF draft = 0 THEN WithPost(posts, TextOf(m), r)
                  ELSE IF r = "failed" THEN posts ELSE [posts EXCEPT ![draft].text = m.n]
      /\ IF r = "ok" THEN SetDraft(m, IF keep THEN id ELSE 0)
                     ELSE UNCHANGED conversation_state
      /\ replies' = IF r = "ok" /\ m.kind = "reply" THEN replies \cup {id} ELSE replies
  BY DEF Upsert
<1> HIDE DEF draft, id
<1>3. /\ posts' \in Seq(Post) /\ Len(posts') \in Len(posts) .. Len(posts) + 1
      /\ SameCards(posts, posts')
      /\ \A i \in 1 .. Len(posts) : i # draft => posts'[i] = posts[i]
      /\ r = "ok" /\ draft = 0 => Len(posts') = Len(posts) + 1
  <2>1. CASE draft = 0
    <3>1. posts' = WithPost(posts, TextOf(m), r)
      BY <1>2, <2>1
    <3> QED BY <1>1, <2>1, <3>1, MoreText
  <2>2. CASE draft # 0 /\ r = "failed"
    <3>1. posts' = posts
      BY <1>2, <2>2
    <3> QED BY <1>1, <2>2, <3>1 DEF SameCards
  <2>3. CASE draft # 0 /\ r # "failed"
    <3>1. posts' = Reworded(posts, m, draft) /\ draft \in 1 .. Len(posts)
      BY <1>1, <1>2, <2>3 DEF Reworded
    <3>2. /\ posts' \in Seq(Post) /\ Len(posts') = Len(posts)
          /\ \A i \in 1 .. Len(posts) : i # draft => posts'[i] = posts[i]
          /\ SameCards(posts, posts')
      BY <1>1, <3>1, Rewritten
    <3> QED BY <1>1, <2>3, <3>2
  <2> QED BY <2>1, <2>2, <2>3
<1>4. Len(posts) <= Len(posts') /\ Len(posts') \in Nat
  BY <1>1, <1>3
<1>5. \A i \in replies : posts'[i].text = posts[i].text
  BY <1>1, <1>3
<1>6. CASE r = "ok"
  <2>1. id \in 1 .. Len(posts') /\ (id = draft \/ id \notin 1 .. Len(posts))
    BY <1>1, <1>3, <1>4, <1>6 DEF id
  <2>2. SetDraft(m, IF keep THEN id ELSE 0)
    BY <1>2, <1>6
  <2>3. CASE keep
    <3>1. SetDraft(m, id) /\ replies' = replies /\ id \in 0 .. Len(posts')
      BY <1>2, <2>1, <2>2, <2>3
    <3> QED BY <1>3, <1>4, <1>5, <2>1, <3>1, DraftMoves DEF Written, draft
  <2>4. CASE ~keep
    <3>1. SetDraft(m, 0) /\ 0 \in 0 .. Len(posts')
      BY <1>4, <2>2, <2>4
    <3>2. replies' = replies \/ replies' = replies \cup {id}
      BY <1>2
    <3> QED BY <1>3, <1>4, <1>5, <2>1, <3>1, <3>2, DraftMoves DEF Written, draft
  <2> QED BY <2>3, <2>4
<1>7. CASE r # "ok"
  <2>1. conversation_state' = conversation_state /\ replies' = replies
    BY <1>2, <1>7
  <2>2. DraftsOpen'
    BY <2>1 DEF DraftsOpen
  <2>3. 0 .. Len(posts) \subseteq 0 .. Len(posts') /\ 1 .. Len(posts) \subseteq 1 .. Len(posts')
    BY <1>1, <1>4
  <2> QED BY <1>1, <1>3, <1>4, <1>5, <2>1, <2>2, <2>3 DEF Written
<1> QED BY <1>6, <1>7

LEMMA TextWrites ==
  ASSUME TypeOK, DraftsOpen, NEW m \in Outbound, NEW r \in Outcomes, HandleText(m, r)
  PROVE  Written /\ SameCards(posts, posts')
<1>1. CASE m.kind \in {"reply", "failed"} /\ Upsert(m, FALSE, r)
  BY <1>1, UpsertWrites
<1>2. CASE m.kind = "notice" /\ Upsert(m, TRUE, r)
  BY <1>2, UpsertWrites
<1> QED BY <1>1, <1>2 DEF HandleText

LEMMA FreshWrites ==
  ASSUME TypeOK, DraftsOpen, NEW m \in Outbound, NEW r \in Outcomes, HandleFreshMessage(m, r)
  PROVE  Written /\ SameCards(posts, posts')
<1>1. /\ posts \in Seq(Post) /\ Len(posts) \in Nat /\ replies \subseteq 1 .. Len(posts)
      /\ conversation_state \in [Conversations -> 0 .. Len(posts)]
  BY DEF TypeOK
<1>2. posts' = WithPost(posts, TextOf(m), r) /\ replies' = replies
  BY DEF HandleFreshMessage
<1>3. /\ posts' \in Seq(Post) /\ Len(posts') \in Len(posts) .. Len(posts) + 1
      /\ r # "failed" => Len(posts') = Len(posts) + 1
      /\ \A i \in 1 .. Len(posts) : posts'[i] = posts[i]
      /\ SameCards(posts, posts')
  BY <1>1, <1>2, MoreText
<1>4. Len(posts) <= Len(posts') /\ Len(posts') \in Nat
  BY <1>1, <1>3
<1>5. \A i \in replies : posts'[i].text = posts[i].text
  BY <1>1, <1>3
<1>6. CASE m.kind = "post"
  <2>1. SetDraft(m, 0) /\ 0 \in 0 .. Len(posts')
    BY <1>4, <1>6 DEF HandleFreshMessage
  <2> QED BY <1>2, <1>3, <1>4, <1>5, <2>1, DraftMoves DEF Written
<1>7. CASE m.kind # "post" /\ r = "ok"
  <2>1. /\ SetDraft(m, Len(posts) + 1) /\ Len(posts) + 1 \in 0 .. Len(posts')
        /\ Len(posts) + 1 \notin 1 .. Len(posts)
    BY <1>1, <1>3, <1>4, <1>7 DEF HandleFreshMessage
  <2> QED BY <1>2, <1>3, <1>4, <1>5, <2>1, DraftMoves DEF Written
<1>8. CASE m.kind # "post" /\ r # "ok"
  <2>1. conversation_state' = conversation_state
    BY <1>8 DEF HandleFreshMessage
  <2>2. DraftsOpen'
    BY <1>2, <2>1 DEF DraftsOpen
  <2>3. 0 .. Len(posts) \subseteq 0 .. Len(posts') /\ 1 .. Len(posts) \subseteq 1 .. Len(posts')
    BY <1>1, <1>4
  <2> QED BY <1>1, <1>2, <1>3, <1>4, <1>5, <2>1, <2>2, <2>3 DEF Written
<1> QED BY <1>6, <1>7, <1>8

-----------------------------------------------------------------------------
(* A result takes cards down.                                              *)

Lowered(ps, S) ==
  [i \in 1 .. Len(ps) |-> IF i \in S THEN [ps[i] EXCEPT !.up = FALSE] ELSE ps[i]]

LEMMA LoweredPosts ==
  ASSUME NEW ps \in Seq(Post), NEW S
  PROVE  /\ Lowered(ps, S) \in Seq(Post) /\ Len(Lowered(ps, S)) = Len(ps)
         /\ \A i \in 1 .. Len(ps) :
              /\ Lowered(ps, S)[i].text = ps[i].text
              /\ Lowered(ps, S)[i].card = ps[i].card
              /\ Lowered(ps, S)[i].up = (ps[i].up /\ i \notin S)
<1>1. \A i \in 1 .. Len(ps) : ps[i] \in Post /\ [ps[i] EXCEPT !.up = FALSE] \in Post
  <2> SUFFICES ASSUME NEW i \in 1 .. Len(ps)
               PROVE  ps[i] \in Post /\ [ps[i] EXCEPT !.up = FALSE] \in Post
    OBVIOUS
  <2>1. ps[i] \in Post
    BY ElementOfSeq
  <2> QED BY <2>1 DEF Post
<1>2. \A i \in 1 .. Len(ps) : Lowered(ps, S)[i] \in Post
  BY <1>1 DEF Lowered
<1>3. Lowered(ps, S) \in Seq(Post) /\ Len(Lowered(ps, S)) = Len(ps)
  <2>1. Len(ps) \in Nat
    OBVIOUS
  <2>2. DOMAIN Lowered(ps, S) = 1 .. Len(ps) /\ Lowered(ps, S) \in [1 .. Len(ps) -> Post]
    BY <1>2 DEF Lowered
  <2> QED BY <2>1, <2>2
<1>4. ASSUME NEW i \in 1 .. Len(ps)
      PROVE  /\ Lowered(ps, S)[i].text = ps[i].text
             /\ Lowered(ps, S)[i].card = ps[i].card
             /\ Lowered(ps, S)[i].up = (ps[i].up /\ i \notin S)
  <2>1. ps[i] \in Post
    BY <1>1
  <2>2. Lowered(ps, S)[i] = IF i \in S THEN [ps[i] EXCEPT !.up = FALSE] ELSE ps[i]
    BY DEF Lowered
  <2> QED BY <2>1, <2>2 DEF Post
<1> QED BY <1>3, <1>4

(* The cards that are remembered for the token of a result.                *)
CardsToTake(k) == {pending_card_messages[key] : key \in Taken(k)} \ {0}

LEMMA ResultWrites ==
  ASSUME TypeOK, DraftsOpen, NEW m \in Outbound, NEW r \in Outcomes, HandleResult(m, r)
  PROVE  /\ Written
         /\ \E undeleted \in SUBSET CardsToTake(m.token) :
              /\ SameCards(Lowered(posts, CardsToTake(m.token) \ undeleted), posts')
              /\ stray' = stray \cup undeleted
              /\ failures' \in failures .. MaxFailures
<1> DEFINE ids == CardsToTake(m.token)
<1>1. /\ posts \in Seq(Post) /\ Len(posts) \in Nat /\ replies \subseteq 1 .. Len(posts)
      /\ conversation_state \in [Conversations -> 0 .. Len(posts)]
      /\ pending_card_messages \in [Keys -> 0 .. Len(posts)]
      /\ failures \in 0 .. MaxFailures
  BY DEF TypeOK
<1>2. PICK undeleted \in SUBSET ids :
        /\ posts' = WithPost(Lowered(posts, ids \ undeleted), TextOf(m), r)
        /\ stray' = stray \cup undeleted
        /\ Fail(Cardinality(undeleted) + Cost(r))
  BY Zenon DEF HandleResult, CardsToTake, Lowered
<1>3. ids \subseteq 1 .. Len(posts) /\ IsFiniteSet(undeleted)
  <2>1. \A key \in Taken(m.token) : pending_card_messages[key] \in 0 .. Len(posts)
    BY <1>1 DEF Taken
  <2>2. ids \subseteq 1 .. Len(posts)
    BY <1>1, <2>1 DEF CardsToTake
  <2>3. IsFiniteSet(1 .. Len(posts))
    BY <1>1, FS_Interval
  <2> QED BY <2>2, <2>3, FS_Subset
<1> DEFINE low == Lowered(posts, ids \ undeleted)
<1>4. /\ low \in Seq(Post) /\ Len(low) = Len(posts)
      /\ \A i \in 1 .. Len(posts) : low[i].text = posts[i].text
  BY <1>1, LoweredPosts
<1> HIDE DEF ids, low
<1>5. /\ posts' \in Seq(Post) /\ Len(posts') \in Len(low) .. Len(low) + 1
      /\ \A i \in 1 .. Len(low) : posts'[i] = low[i]
      /\ SameCards(low, posts')
  <2>1. posts' = WithPost(low, TextOf(m), r)
    BY <1>2 DEF low
  <2> QED BY <1>4, <2>1, MoreText
<1>6. Len(posts) <= Len(posts') /\ Len(posts') \in Nat
  BY <1>1, <1>4, <1>5
<1>7. \A i \in replies : posts'[i].text = posts[i].text
  BY <1>1, <1>4, <1>5
<1>8. Written
  <2>1. SetDraft(m, 0) /\ 0 \in 0 .. Len(posts') /\ replies' = replies
    BY <1>6 DEF HandleResult
  <2> QED BY <1>5, <1>6, <1>7, <2>1, DraftMoves DEF Written
<1>9. failures' \in failures .. MaxFailures
  <2>1. Cardinality(undeleted) \in Nat
    BY <1>3, FS_CardinalityType
  <2>2. MaxFailures \in Nat
    BY FeishuAssumption
  <2> QED BY <1>1, <1>2, <2>1, <2>2 DEF Fail, Cost
<1> QED BY <1>2, <1>5, <1>8, <1>9 DEF ids, low

-----------------------------------------------------------------------------
(* An interaction puts cards up.                                           *)

LEMMA KeysOfToken ==
  ASSUME NEW k \in Tokens
  PROVE  /\ Len(KeysOf(k)) = Parts[k] /\ Parts[k] \in Nat
         /\ \A i \in 1 .. Parts[k] : KeysOf(k)[i] \in Keys /\ KeysOf(k)[i][1] = k
         /\ \A i, j \in 1 .. Parts[k] : KeysOf(k)[i] = KeysOf(k)[j] => i = j
<1>1. Parts[k] \in Nat /\ Parts[k] > 0
  BY FeishuAssumption
<1>2. \A q \in 0 .. Parts[k] : <<k, q>> \in Keys
  BY DEF Keys
<1>3. CASE Parts[k] = 1
  <2>1. KeysOf(k) = << <<k, 0>> >>
    BY <1>3 DEF KeysOf
  <2> QED BY <1>2, <1>3, <2>1
<1>4. CASE Parts[k] # 1
  <2>1. KeysOf(k) = [q \in 1 .. Parts[k] |-> <<k, q>>]
    BY <1>4 DEF KeysOf
  <2> QED BY <1>1, <1>2, <2>1
<1> QED BY <1>3, <1>4

LEMMA CardsOfMessage ==
  ASSUME NEW m \in Outbound, m.token \in Tokens
  PROVE  /\ CardsOf(m) \in Seq(Post) /\ Len(CardsOf(m)) = Parts[m.token]
         /\ \A i \in 1 .. Parts[m.token] :
              CardsOf(m)[i].card = KeysOf(m.token)[i] /\ CardsOf(m)[i].up
<1> DEFINE k == m.token
<1>1. /\ Len(KeysOf(k)) = Parts[k] /\ Parts[k] \in Nat
      /\ \A i \in 1 .. Parts[k] : KeysOf(k)[i] \in Keys
  BY KeysOfToken
<1>2. m.n \in 1 .. MaxSends
  BY DEF Outbound
<1>3. CardsOf(m) = [i \in 1 .. Parts[k] |-> [text |-> m.n, card |-> KeysOf(k)[i], up |-> TRUE]]
  BY <1>1 DEF CardsOf
<1> HIDE DEF k
<1>4. \A i \in 1 .. Parts[k] : [text |-> m.n, card |-> KeysOf(k)[i], up |-> TRUE] \in Post
  BY <1>1, <1>2 DEF Post
<1>5. CardsOf(m) \in [1 .. Parts[k] -> Post] /\ DOMAIN CardsOf(m) = 1 .. Parts[k]
  BY <1>3, <1>4
<1>6. CardsOf(m) \in Seq(Post) /\ Len(CardsOf(m)) = Parts[k]
  BY <1>1, <1>5
<1>7. \A i \in 1 .. Parts[k] : CardsOf(m)[i].card = KeysOf(k)[i] /\ CardsOf(m)[i].up
  BY <1>3
<1> QED BY <1>6, <1>7 DEF k

(* Up to b there are texts; from there on the first cards of the token.    *)
NewCards(ps, qs, b, k) ==
  /\ b \in Nat /\ Len(ps) <= b /\ b <= Len(qs) /\ Len(qs) - b <= Parts[k]
  /\ \A i \in 1 .. Len(ps) : qs[i].card = ps[i].card /\ qs[i].up = ps[i].up
  /\ \A i \in Len(ps) + 1 .. b : qs[i].card = NoCard
  /\ \A i \in b + 1 .. Len(qs) : qs[i].card = KeysOf(k)[i - b] /\ qs[i].up

LEMMA Concatenated ==
  ASSUME NEW ps \in Seq(Post), NEW base \in Seq(Post), SameCards(ps, base),
         NEW k \in Tokens, NEW cards \in Seq(Post), Len(cards) <= Parts[k],
         \A i \in 1 .. Len(cards) : cards[i].card = KeysOf(k)[i] /\ cards[i].up
  PROVE  /\ base \o cards \in Seq(Post) /\ Len(base \o cards) = Len(base) + Len(cards)
         /\ \A i \in 1 .. Len(base) : (base \o cards)[i] = base[i]
         /\ NewCards(ps, base \o cards, Len(base), k)
<1> DEFINE qs == base \o cards
<1>1. Len(ps) \in Nat /\ Len(base) \in Nat /\ Len(cards) \in Nat
  OBVIOUS
<1>2. /\ qs \in Seq(Post) /\ Len(qs) = Len(base) + Len(cards)
      /\ \A i \in 1 .. Len(base) + Len(cards) :
           qs[i] = IF i <= Len(base) THEN base[i] ELSE cards[i - Len(base)]
  BY ConcatProperties
<1> HIDE DEF qs
<1>3. \A i \in 1 .. Len(base) : qs[i] = base[i]
  BY <1>1, <1>2
<1>4. \A i \in Len(base) + 1 .. Len(qs) : qs[i].card = KeysOf(k)[i - Len(base)] /\ qs[i].up
  <2> SUFFICES ASSUME NEW i \in Len(base) + 1 .. Len(qs)
               PROVE  qs[i].card = KeysOf(k)[i - Len(base)] /\ qs[i].up
    OBVIOUS
  <2>1. i - Len(base) \in 1 .. Len(cards) /\ qs[i] = cards[i - Len(base)]
    BY <1>1, <1>2
  <2> QED BY <2>1
<1>5. Parts[k] \in Nat
  BY KeysOfToken
<1>6. Len(ps) <= Len(base) /\ Len(base) <= Len(qs) /\ Len(qs) - Len(base) <= Parts[k]
  BY <1>1, <1>2, <1>5 DEF SameCards
<1>7. /\ \A i \in 1 .. Len(ps) : qs[i].card = ps[i].card /\ qs[i].up = ps[i].up
      /\ \A i \in Len(ps) + 1 .. Len(base) : qs[i].card = NoCard
  <2>1. \A i \in 1 .. Len(ps) : i \in 1 .. Len(base)
    BY <1>1, <1>6
  <2>2. \A i \in Len(ps) + 1 .. Len(base) : i \in 1 .. Len(base)
    BY <1>1
  <2> QED BY <1>3, <2>1, <2>2, Zenon DEF SameCards
<1>8. NewCards(ps, qs, Len(base), k)
  BY <1>1, <1>4, <1>6, <1>7 DEF NewCards
<1> QED BY <1>2, <1>3, <1>8 DEF qs

CardsRemembered(b) ==
  \A key \in Keys :
    \/ pending_card_messages'[key] \in b + 1 .. Len(posts')
         /\ posts'[pending_card_messages'[key]].card = key
    \/ /\ pending_card_messages'[key] = pending_card_messages[key]
       /\ \A i \in b + 1 .. Len(posts') : posts'[i].card # key

LEMMA CardsWrite ==
  ASSUME TypeOK, DraftsOpen, NEW m \in Outbound, m.token \in Tokens,
         NEW r \in Outcomes, CardsPosted(m, r), replies' = replies
  PROVE  /\ Written
         /\ pending_card_messages' \in [Keys -> 0 .. Len(posts')]
         /\ \E b \in Nat :
              /\ NewCards(posts, posts', b, m.token)
              /\ \/ /\ CardsRemembered(b)
                    /\ stray' = stray \/ stray' = stray \cup (b + 1 .. Len(posts'))
                    /\ m.token \in dismissed => stray' = stray \cup (b + 1 .. Len(posts'))
                 \/ /\ pending_card_messages' = pending_card_messages
                    /\ stray' = stray \cup (b + 1 .. Len(posts'))
<1> DEFINE draft == conversation_state[m.conv]
           base  == IF draft = 0 THEN Append(posts, TextOf(m)) ELSE Reworded(posts, m, draft)
           id    == IF draft = 0 THEN Len(base) ELSE draft
           cards == CardsOf(m)
           k     == m.token
<1>1. /\ posts \in Seq(Post) /\ Len(posts) \in Nat /\ draft \in 0 .. Len(posts)
      /\ replies \subseteq 1 .. Len(posts) /\ draft \notin replies
      /\ conversation_state \in [Conversations -> 0 .. Len(posts)]
      /\ pending_card_messages \in [Keys -> 0 .. Len(posts)]
      /\ m.conv \in Conversations
  BY DEF TypeOK, Outbound, DraftsOpen
<1>2. /\ cards \in Seq(Post) /\ Len(cards) = Parts[k] /\ Parts[k] \in Nat
      /\ \A i \in 1 .. Parts[k] : cards[i].card = KeysOf(k)[i] /\ cards[i].up
      /\ \A i, j \in 1 .. Parts[k] : cards[i].card = cards[j].card => i = j
  BY CardsOfMessage, KeysOfToken
<1>3. /\ SetDraft(m, id)
      /\ \/ /\ r = "ok"
            /\ posts' = base \o cards
            /\ pending_card_messages' =
                 [key \in Keys |->
                    IF \E i \in 1 .. Len(cards) : cards[i].card = key
                      THEN Len(base) + CHOOSE i \in 1 .. Len(cards) : cards[i].card = key
                      ELSE pending_card_messages[key]]
            /\ stray' = IF k \in dismissed
                          THEN stray \cup (Len(base) + 1 .. Len(base) + Len(cards)) ELSE stray
         \/ /\ r # "ok"
            /\ \E j \in 0 .. Len(cards) :
                 /\ posts' = base \o SubSeq(cards, 1, j)
                 /\ stray' = stray \cup (Len(base) + 1 .. Len(base) + j)
            /\ UNCHANGED pending_card_messages
  <2>1. Len(cards) \in Nat
    BY <1>2
  <2>2. 1 .. Len(cards) \subseteq 0 .. Len(cards) /\ 0 .. Len(cards) - 1 \subseteq 0 .. Len(cards)
    BY <2>1
  <2> QED BY <2>2, Zenon DEF CardsPosted, Reworded
<1> HIDE DEF draft, base, id, cards, k
<1>4. /\ base \in Seq(Post) /\ Len(base) \in Len(posts) .. Len(posts) + 1
      /\ SameCards(posts, base)
      /\ \A i \in 1 .. Len(posts) : i # draft => base[i] = posts[i]
      /\ draft = 0 => Len(base) = Len(posts) + 1
  <2>1. CASE draft = 0
    <3>1. base = WithPost(posts, TextOf(m), "ok")
      BY <2>1 DEF base, WithPost
    <3> QED BY <1>1, <2>1, <3>1, MoreText
  <2>2. CASE draft # 0
    <3>1. base = Reworded(posts, m, draft) /\ draft \in 1 .. Len(posts)
      BY <1>1, <2>2 DEF base
    <3>2. /\ base \in Seq(Post) /\ Len(base) = Len(posts) /\ SameCards(posts, base)
          /\ \A i \in 1 .. Len(posts) : i # draft => base[i] = posts[i]
      BY <1>1, <3>1, Rewritten
    <3> QED BY <1>1, <2>2, <3>2
  <2> QED BY <2>1, <2>2
<1>5. Len(base) \in Nat /\ Len(posts) <= Len(base)
  BY <1>1, <1>4
<1>6. PICK some \in Seq(Post) :
        /\ posts' = base \o some
        /\ Len(some) <= Parts[k]
        /\ \A i \in 1 .. Len(some) : some[i] = cards[i]
        /\ \/ /\ some = cards
              /\ pending_card_messages' =
                 [key \in Keys |->
                    IF \E i \in 1 .. Len(cards) : cards[i].card = key
                      THEN Len(base) + CHOOSE i \in 1 .. Len(cards) : cards[i].card = key
                      ELSE pending_card_messages[key]]
              /\ stray' = IF k \in dismissed
                            THEN stray \cup (Len(base) + 1 .. Len(base) + Len(some)) ELSE stray
           \/ /\ UNCHANGED pending_card_messages
              /\ stray' = stray \cup (Len(base) + 1 .. Len(base) + Len(some))
  <2>1. CASE r = "ok"
    <3>1. Len(cards) <= Parts[k]
      BY <1>2
    <3> QED BY <1>2, <1>3, <2>1, <3>1, Zenon
  <2>2. CASE r # "ok"
    <3>1. PICK j \in 0 .. Len(cards) :
             /\ posts' = base \o SubSeq(cards, 1, j)
             /\ stray' = stray \cup (Len(base) + 1 .. Len(base) + j)
      BY <1>3, <2>2
    <3>2. /\ SubSeq(cards, 1, j) \in Seq(Post) /\ Len(SubSeq(cards, 1, j)) = j
          /\ \A i \in 1 .. j : SubSeq(cards, 1, j)[i] = cards[i]
      BY <1>2
    <3>3. UNCHANGED pending_card_messages /\ j <= Parts[k]
      BY <1>2, <1>3, <2>2
    <3> DEFINE some == SubSeq(cards, 1, j)
    <3>4. /\ some \in Seq(Post) /\ posts' = base \o some /\ Len(some) <= Parts[k]
          /\ \A i \in 1 .. Len(some) : some[i] = cards[i]
          /\ UNCHANGED pending_card_messages
          /\ stray' = stray \cup (Len(base) + 1 .. Len(base) + Len(some))
      BY <3>1, <3>2, <3>3
    <3> HIDE DEF some
    <3> QED BY <3>4, Zenon
  <2> QED BY <2>1, <2>2
<1>7. /\ posts' \in Seq(Post) /\ Len(posts') = Len(base) + Len(some)
      /\ \A i \in 1 .. Len(base) : posts'[i] = base[i]
      /\ NewCards(posts, posts', Len(base), k)
  <2>1. \A i \in 1 .. Len(some) : some[i].card = KeysOf(k)[i] /\ some[i].up
    BY <1>2, <1>6
  <2>2. k \in Tokens
    BY DEF k
  <2> QED BY <1>1, <1>4, <1>6, <2>1, <2>2, Concatenated
<1>8. Len(some) \in Nat /\ Len(posts') \in Nat /\ Len(posts) <= Len(posts')
  BY <1>5, <1>6, <1>7
<1>9. Written
  <2>1. \A i \in replies : posts'[i].text = posts[i].text
    <3> SUFFICES ASSUME NEW i \in replies PROVE posts'[i].text = posts[i].text
      OBVIOUS
    <3>1. i \in 1 .. Len(posts) /\ i # draft
      BY <1>1
    <3>2. i \in 1 .. Len(base)
      BY <1>1, <1>5, <3>1
    <3> QED BY <1>4, <1>7, <3>1, <3>2
  <2>2. id \in 0 .. Len(posts') /\ (id = draft \/ id \notin 1 .. Len(posts))
    BY <1>1, <1>4, <1>5, <1>7, <1>8 DEF id
  <2> QED BY <1>3, <1>7, <1>8, <2>1, <2>2, DraftMoves DEF Written, draft
<1> DEFINE b == Len(base)
<1>10. CASE /\ UNCHANGED pending_card_messages
            /\ stray' = stray \cup (b + 1 .. b + Len(some))
  <2>1. 0 .. Len(posts) \subseteq 0 .. Len(posts')
    BY <1>1, <1>8
  <2>2. pending_card_messages' \in [Keys -> 0 .. Len(posts')]
    BY <1>1, <1>10, <2>1
  <2> QED BY <1>5, <1>7, <1>9, <1>10, <2>2 DEF k
<1>11. CASE /\ some = cards
            /\ pending_card_messages' =
                 [key \in Keys |->
                    IF \E i \in 1 .. Len(cards) : cards[i].card = key
                      THEN b + CHOOSE i \in 1 .. Len(cards) : cards[i].card = key
                      ELSE pending_card_messages[key]]
            /\ stray' = IF k \in dismissed
                          THEN stray \cup (b + 1 .. b + Len(some)) ELSE stray
  <2> DEFINE the(key) == CHOOSE i \in 1 .. Len(cards) : cards[i].card = key
             has(key) == \E i \in 1 .. Len(cards) : cards[i].card = key
  <2>1. \A key \in Keys : has(key) => the(key) \in 1 .. Len(cards) /\ cards[the(key)].card = key
    BY Zenon
  <2>2. \A key \in Keys : pending_card_messages'[key] =
            IF has(key) THEN b + the(key) ELSE pending_card_messages[key]
    BY <1>11, Zenon
  <2>3. DOMAIN pending_card_messages' = Keys
        /\ pending_card_messages' = [key \in Keys |-> pending_card_messages'[key]]
    BY <1>11
  <2> HIDE DEF the
  <2>4. \A i \in 1 .. Len(cards) : b + i \in b + 1 .. Len(posts') /\ posts'[b + i].card = cards[i].card
    <3> SUFFICES ASSUME NEW i \in 1 .. Len(cards)
                 PROVE  b + i \in b + 1 .. Len(posts') /\ posts'[b + i].card = cards[i].card
      OBVIOUS
    <3>1. b + i \in b + 1 .. Len(posts') /\ (b + i) - b = i
      BY <1>2, <1>5, <1>7, <1>11
    <3>2. posts'[b + i].card = KeysOf(k)[(b + i) - b]
      BY <1>7, <3>1 DEF NewCards
    <3> QED BY <1>2, <3>1, <3>2
  <2>5. \A i \in b + 1 .. Len(posts') :
          i - b \in 1 .. Len(cards) /\ posts'[i].card = cards[i - b].card
    <3> SUFFICES ASSUME NEW i \in b + 1 .. Len(posts')
                 PROVE  i - b \in 1 .. Len(cards) /\ posts'[i].card = cards[i - b].card
      OBVIOUS
    <3>1. i - b \in 1 .. Len(cards)
      BY <1>2, <1>5, <1>7, <1>11
    <3> QED BY <1>2, <1>7, <3>1 DEF NewCards
  <2> HIDE DEF has
  <2>6. CardsRemembered(b)
    <3> SUFFICES ASSUME NEW key \in Keys
                 PROVE  \/ pending_card_messages'[key] \in b + 1 .. Len(posts')
                             /\ posts'[pending_card_messages'[key]].card = key
                        \/ /\ pending_card_messages'[key] = pending_card_messages[key]
                           /\ \A i \in b + 1 .. Len(posts') : posts'[i].card # key
      BY DEF CardsRemembered
    <3>1. CASE has(key)
      BY <2>1, <2>2, <2>4, <3>1
    <3>2. CASE ~has(key)
      BY <2>2, <2>5, <3>2 DEF has
    <3> QED BY <3>1, <3>2
  <2>7. \A key \in Keys : pending_card_messages'[key] \in 0 .. Len(posts')
    <3> SUFFICES ASSUME NEW key \in Keys
                 PROVE  pending_card_messages'[key] \in 0 .. Len(posts')
      OBVIOUS
    <3>1. pending_card_messages[key] \in 0 .. Len(posts)
      BY <1>1
    <3>2. pending_card_messages'[key] = pending_card_messages[key]
          \/ pending_card_messages'[key] \in b + 1 .. Len(posts')
      BY <2>6 DEF CardsRemembered
    <3> QED BY <1>1, <1>5, <1>8, <3>1, <3>2
  <2>8. pending_card_messages' \in [Keys -> 0 .. Len(posts')]
    BY <2>3, <2>7
  <2>9. b + Len(some) = Len(posts')
    BY <1>7
  <2> QED BY <1>5, <1>7, <1>9, <1>11, <2>6, <2>8, <2>9 DEF k
<1> QED BY <1>6, <1>10, <1>11

-----------------------------------------------------------------------------
(* The cards, as the handlers change them.                                 *)

LEMMA NoCardIsNoKey == NoCard \notin Keys /\ \A key \in Keys : key[1] \in Tokens
BY FeishuAssumption DEF NoCard, Keys

(* What the cards of a post are; no post has a card of NoToken.            *)
LEMMA CardOfPost ==
  ASSUME NEW ps \in Seq(Post), NEW i \in 1 .. Len(ps)
  PROVE  /\ ps[i].card \in Keys \cup {NoCard} /\ ps[i].up \in BOOLEAN
         /\ ps[i].card[1] \in Tokens <=> ps[i].card # NoCard
<1>1. ps[i] \in Post
  BY ElementOfSeq
<1>2. ps[i].card \in Keys \cup {NoCard} /\ ps[i].up \in BOOLEAN
  BY <1>1 DEF Post
<1>3. NoCard[1] \notin Tokens
  BY FeishuAssumption DEF NoCard
<1> QED BY <1>2, <1>3, NoCardIsNoKey

LEMMA CardsKept ==
  ASSUME TypeOK, Remembered, CardsFollowTokens, posts' \in Seq(Post), SameCards(posts, posts'),
         pending_card_messages' = pending_card_messages, stray' = stray,
         dismissed' = dismissed, events' = events
  PROVE  /\ Remembered' /\ CardsFollowTokens' /\ \A k \in Tokens : Made(k)' => Made(k)
         /\ \A i \in 1 .. Len(posts) : posts'[i].card = posts[i].card
<1>1. /\ posts \in Seq(Post) /\ Len(posts) \in Nat /\ Len(posts') \in Nat
      /\ Len(posts) <= Len(posts')
      /\ \A i \in 1 .. Len(posts) : i \in 1 .. Len(posts')
      /\ \A i \in 1 .. Len(posts') : i \in 1 .. Len(posts) \/ i \in Len(posts) + 1 .. Len(posts')
      /\ \A key \in Keys : pending_card_messages[key] \in 0 .. Len(posts)
  BY DEF TypeOK, SameCards
<1>2. /\ \A i \in 1 .. Len(posts) : posts'[i].card = posts[i].card /\ posts'[i].up = posts[i].up
      /\ \A i \in 1 .. Len(posts') : i \in 1 .. Len(posts) \/ posts'[i].card = NoCard
  BY <1>1 DEF SameCards
<1>3. Remembered'
  <2>1. ASSUME NEW key \in Keys, pending_card_messages[key] # 0
        PROVE  posts'[pending_card_messages[key]].card = key
    <3>1. pending_card_messages[key] \in 1 .. Len(posts)
      BY <1>1, <2>1
    <3> QED BY <1>2, <2>1, <3>1 DEF Remembered
  <2>2. \A i, j \in 1 .. Len(posts') :
          posts'[i].card = posts'[j].card /\ i # j => posts'[i].card = NoCard
    BY <1>2 DEF Remembered
  <2>3. \A i \in 1 .. Len(posts') :
          posts'[i].card # NoCard /\ posts'[i].up /\ i \notin stray
            => pending_card_messages[posts'[i].card] = i
    BY <1>2 DEF Remembered
  <2> QED BY <2>1, <2>2, <2>3 DEF Remembered
<1>4. CardsFollowTokens'
  BY <1>2 DEF CardsFollowTokens, HandedOn
<1>5. \A k \in Tokens : Made(k)' => Made(k)
  <2>1. NoCard[1] \notin Tokens
    BY FeishuAssumption DEF NoCard
  <2> QED BY <1>2, <2>1 DEF Made
<1> QED BY <1>2, <1>3, <1>4, <1>5

LEMMA CardsTaken ==
  ASSUME TypeOK, Remembered, CardsFollowTokens, NEW m \in Outbound, NEW r \in Outcomes,
         HandleResult(m, r), events' = events, DraftsOpen
  PROVE  /\ Remembered' /\ CardsFollowTokens' /\ \A k \in Tokens : Made(k)' => Made(k)
         /\ \A i \in 1 .. Len(posts) : posts'[i].card = posts[i].card
<1> DEFINE ids == CardsToTake(m.token)
<1>1. PICK undeleted \in SUBSET ids :
        SameCards(Lowered(posts, ids \ undeleted), posts') /\ stray' = stray \cup undeleted
  BY ResultWrites
<1>2. /\ posts \in Seq(Post) /\ Len(posts) \in Nat /\ Len(posts') \in Nat
      /\ posts' \in Seq(Post)
      /\ \A key \in Keys : pending_card_messages[key] \in 0 .. Len(posts)
  BY ResultWrites DEF TypeOK, Written
<1>3. /\ Len(Lowered(posts, ids \ undeleted)) = Len(posts)
      /\ \A i \in 1 .. Len(posts) :
              /\ Lowered(posts, ids \ undeleted)[i].card = posts[i].card
              /\ Lowered(posts, ids \ undeleted)[i].up
                   = (posts[i].up /\ i \notin ids \ undeleted)
  BY <1>2, LoweredPosts
<1> HIDE DEF ids
<1>4. /\ \A i \in 1 .. Len(posts) :
           /\ posts'[i].card = posts[i].card
           /\ posts'[i].up = (posts[i].up /\ i \notin ids \ undeleted)
      /\ \A i \in 1 .. Len(posts') : i \in 1 .. Len(posts) \/ posts'[i].card = NoCard
      /\ \A i \in 1 .. Len(posts) : i \in 1 .. Len(posts')
  <2> DEFINE low == Lowered(posts, ids \ undeleted)
  <2>1. /\ Len(low) = Len(posts) /\ Len(posts) <= Len(posts')
        /\ \A i \in 1 .. Len(posts) : posts'[i].card = low[i].card /\ posts'[i].up = low[i].up
        /\ \A i \in Len(posts) + 1 .. Len(posts') : posts'[i].card = NoCard
        /\ \A i \in 1 .. Len(posts) :
             low[i].card = posts[i].card /\ low[i].up = (posts[i].up /\ i \notin ids \ undeleted)
    BY <1>1, <1>3, Zenon DEF SameCards
  <2> HIDE DEF low
  <2>2. \A i \in 1 .. Len(posts') : i \in 1 .. Len(posts) \/ i \in Len(posts) + 1 .. Len(posts')
    BY <1>2
  <2>3. \A i \in 1 .. Len(posts) : i \in 1 .. Len(posts')
    BY <1>2, <2>1
  <2> QED BY <2>1, <2>2, <2>3, Zenon
<1>5. /\ \A i : i \in ids <=> i # 0 /\ \E key \in Keys : key[1] = m.token
                                        /\ i = pending_card_messages[key]
      /\ \A key \in Keys : pending_card_messages'[key] =
                             IF key[1] = m.token THEN 0 ELSE pending_card_messages[key]
      /\ dismissed' = IF m.token = NoToken THEN dismissed ELSE dismissed \cup {m.token}
  BY DEF ids, CardsToTake, Taken, HandleResult
<1>6. \A i \in ids : posts[i].card \in Keys /\ posts[i].card[1] = m.token /\ m.token \in Tokens
  BY <1>5, NoCardIsNoKey DEF Remembered
<1>7. \A i \in 1 .. Len(posts) :
        posts[i].card \in Keys \cup {NoCard} /\ posts[i].up \in BOOLEAN
  BY <1>2, CardOfPost
<1>8. ASSUME NEW i \in 1 .. Len(posts), posts[i].card # NoCard, posts[i].up, i \notin stray,
             posts[i].card[1] = m.token
      PROVE  i \in ids
  <2>1. pending_card_messages[posts[i].card] = i /\ posts[i].card \in Keys /\ i # 0
    BY <1>7, <1>8 DEF Remembered
  <2> QED BY <1>5, <1>8, <2>1
<1>9. Remembered'
  <2>1. ASSUME NEW key \in Keys, pending_card_messages'[key] # 0
        PROVE  posts'[pending_card_messages'[key]].card = key
    <3>1. pending_card_messages'[key] = pending_card_messages[key]
      BY <1>5, <2>1
    <3>2. pending_card_messages[key] \in 1 .. Len(posts)
      BY <1>2, <2>1, <3>1
    <3> QED BY <1>4, <2>1, <3>1, <3>2 DEF Remembered
  <2>2. \A i, j \in 1 .. Len(posts') :
          posts'[i].card = posts'[j].card /\ i # j => posts'[i].card = NoCard
    BY <1>4 DEF Remembered
  <2>3. ASSUME NEW i \in 1 .. Len(posts'), posts'[i].card # NoCard, posts'[i].up, i \notin stray'
        PROVE  pending_card_messages'[posts'[i].card] = i
    <3>1. /\ i \in 1 .. Len(posts) /\ posts[i].card # NoCard /\ posts[i].up
          /\ i \notin ids /\ i \notin stray /\ posts'[i].card = posts[i].card
      BY <1>1, <1>4, <2>3
    <3>2. posts[i].card[1] # m.token /\ posts[i].card \in Keys
      BY <1>7, <1>8, <3>1
    <3>3. pending_card_messages[posts[i].card] = i
      BY <3>1 DEF Remembered
    <3> QED BY <1>5, <3>1, <3>2, <3>3
  <2> QED BY <2>1, <2>2, <2>3 DEF Remembered
<1>10. ASSUME NEW i \in 1 .. Len(posts'), posts'[i].card # NoCard
       PROVE  /\ ~posts'[i].up => posts'[i].card[1] \in dismissed' \/ HandedOn(i)'
              /\ posts'[i].up /\ posts'[i].card[1] \in dismissed' => i \in stray'
  <2>1. /\ i \in 1 .. Len(posts) /\ posts'[i].card = posts[i].card
        /\ HandedOn(i)' <=> HandedOn(i)
    BY <1>4, <1>10 DEF HandedOn
  <2>2. /\ ~posts[i].up => posts[i].card[1] \in dismissed \/ HandedOn(i)
        /\ posts[i].up /\ posts[i].card[1] \in dismissed => i \in stray
    BY <1>4, <1>10, <2>1 DEF CardsFollowTokens
  <2>3. i \in ids => posts[i].card[1] \in dismissed'
    BY <1>5, <1>6, FeishuAssumption
  <2>4. posts[i].up /\ i \notin stray /\ posts[i].card[1] = m.token => i \in ids
    BY <1>4, <1>8, <1>10, <2>1
  <2>5. posts'[i].up = (posts[i].up /\ i \notin ids \ undeleted)
    BY <1>4, <1>10
  <2>6. ~posts'[i].up => posts'[i].card[1] \in dismissed' \/ HandedOn(i)'
    BY <1>5, <2>1, <2>2, <2>3, <2>5
  <2>7. ASSUME posts'[i].up, posts'[i].card[1] \in dismissed', i \notin stray'
        PROVE  FALSE
    <3>1. posts[i].up /\ i \notin ids /\ i \notin stray
      BY <1>1, <2>5, <2>7
    <3>2. posts[i].card[1] \notin dismissed /\ posts[i].card[1] # m.token
      BY <2>2, <2>4, <3>1
    <3> QED BY <1>5, <2>1, <2>7, <3>2
  <2> QED BY <2>6, <2>7
<1>11. CardsFollowTokens'
  BY <1>10 DEF CardsFollowTokens
<1>12. \A k \in Tokens : Made(k)' => Made(k)
  <2>1. NoCard[1] \notin Tokens
    BY FeishuAssumption DEF NoCard
  <2> QED BY <1>4, <2>1 DEF Made
<1> QED BY <1>4, <1>9, <1>11, <1>12

LEMMA CardsMade ==
  ASSUME TypeOK, DraftsOpen, Remembered, CardsFollowTokens, NEW m \in Outbound,
         m.token \in Tokens, NEW r \in Outcomes, CardsPosted(m, r), replies' = replies,
         dismissed' = dismissed, events' = events, ~Made(m.token)
  PROVE  /\ Remembered' /\ CardsFollowTokens'
         /\ \A k \in Tokens : Made(k)' => Made(k) \/ k = m.token
         /\ \A i \in 1 .. Len(posts) : posts'[i].card = posts[i].card
<1> DEFINE k == m.token
<1>1. PICK b \in Nat :
        /\ NewCards(posts, posts', b, k)
        /\ \/ /\ CardsRemembered(b)
              /\ stray' = stray \/ stray' = stray \cup (b + 1 .. Len(posts'))
              /\ k \in dismissed => stray' = stray \cup (b + 1 .. Len(posts'))
           \/ /\ pending_card_messages' = pending_card_messages
              /\ stray' = stray \cup (b + 1 .. Len(posts'))
  BY CardsWrite
<1> HIDE DEF k
<1>2. /\ posts \in Seq(Post) /\ Len(posts) \in Nat /\ Len(posts') \in Nat
      /\ posts' \in Seq(Post)
      /\ \A key \in Keys : pending_card_messages[key] \in 0 .. Len(posts)
  BY CardsWrite DEF TypeOK, Written
<1> DEFINE old(i) == i \in 1 .. Len(posts)
           new(i) == i \in b + 1 .. Len(posts')
<1>3. \A i \in 1 .. Len(posts') : old(i) \/ new(i) \/ posts'[i].card = NoCard
  <2>1. \A i \in 1 .. Len(posts') : old(i) \/ new(i) \/ i \in Len(posts) + 1 .. b
    BY <1>1, <1>2 DEF NewCards
  <2> QED BY <1>1, <2>1 DEF NewCards
<1>4. \A i : old(i) => /\ i \in 1 .. Len(posts')
                       /\ posts'[i].card = posts[i].card /\ posts'[i].up = posts[i].up
                       /\ posts[i].card \in Keys \cup {NoCard}
                       /\ posts[i].card[1] # k
  <2>1. \A i : old(i) => i \in 1 .. Len(posts')
    BY <1>1, <1>2 DEF NewCards
  <2>2. \A i : old(i) => posts[i].card \in Keys \cup {NoCard} /\ posts[i].card[1] # k
    BY <1>2, CardOfPost DEF Made, k
  <2> QED BY <1>1, <2>1, <2>2 DEF NewCards
<1>5. \A i : new(i) => /\ i \in 1 .. Len(posts') /\ i - b \in 1 .. Parts[k]
                       /\ posts'[i].card = KeysOf(k)[i - b] /\ posts'[i].up
                       /\ posts'[i].card \in Keys /\ posts'[i].card[1] = k
  <2> SUFFICES ASSUME NEW i, new(i)
               PROVE  /\ i \in 1 .. Len(posts') /\ i - b \in 1 .. Parts[k]
                      /\ posts'[i].card = KeysOf(k)[i - b] /\ posts'[i].up
                      /\ posts'[i].card \in Keys /\ posts'[i].card[1] = k
    OBVIOUS
  <2>1. k \in Tokens /\ Parts[k] \in Nat
    BY KeysOfToken DEF k
  <2>2. i \in 1 .. Len(posts') /\ i - b \in 1 .. Parts[k]
    BY <1>1, <1>2, <2>1 DEF NewCards
  <2>3. posts'[i].card = KeysOf(k)[i - b] /\ posts'[i].up
    BY <1>1 DEF NewCards
  <2> QED BY <2>1, <2>2, <2>3, KeysOfToken
<1>6. \A i, j : new(i) /\ new(j) /\ posts'[i].card = posts'[j].card => i = j
  <2> SUFFICES ASSUME NEW i, NEW j, new(i), new(j), posts'[i].card = posts'[j].card
               PROVE  i = j
    OBVIOUS
  <2>1. k \in Tokens
    BY DEF k
  <2>2. i - b \in 1 .. Parts[k] /\ j - b \in 1 .. Parts[k]
        /\ KeysOf(k)[i - b] = KeysOf(k)[j - b]
    BY <1>5
  <2>3. i - b = j - b
    BY <2>1, <2>2, KeysOfToken
  <2>4. i \in Int /\ j \in Int
    BY <1>2
  <2> QED BY <2>3, <2>4
<1>7. \A i : old(i) \/ i \in stray => ~new(i)
  <2>1. \A i : i \in stray => old(i)
    BY DEF TypeOK
  <2>2. \A i : old(i) => ~new(i)
    BY <1>1, <1>2 DEF NewCards
  <2> QED BY <2>1, <2>2
<1>8. /\ \A key \in Keys :
           \/ new(pending_card_messages'[key]) /\ posts'[pending_card_messages'[key]].card = key
           \/ pending_card_messages'[key] = pending_card_messages[key]
      /\ \A i : new(i) /\ i \notin stray' =>
           \A key \in Keys : posts'[i].card = key => new(pending_card_messages'[key])
                                 /\ posts'[pending_card_messages'[key]].card = key
      /\ stray \subseteq stray'
      /\ \A i : new(i) /\ k \in dismissed => i \in stray'
      /\ \A i : i \in stray' => i \in stray \/ new(i)
  BY <1>1 DEF CardsRemembered
<1> HIDE DEF new
<1>9. Remembered'
  <2>1. ASSUME NEW key \in Keys, pending_card_messages'[key] # 0
        PROVE  posts'[pending_card_messages'[key]].card = key
    <3>1. CASE pending_card_messages'[key] = pending_card_messages[key]
      <4>1. old(pending_card_messages[key]) /\ posts[pending_card_messages[key]].card = key
        BY <1>2, <2>1, <3>1 DEF Remembered
      <4> QED BY <1>4, <3>1, <4>1
    <3> QED BY <1>8, <3>1
  <2>2. ASSUME NEW i \in 1 .. Len(posts'), NEW j \in 1 .. Len(posts'),
               posts'[i].card = posts'[j].card, i # j
        PROVE  posts'[i].card = NoCard
    <3>1. CASE old(i) /\ old(j)
      BY <1>4, <2>2, <3>1 DEF Remembered
    <3>2. CASE (old(i) /\ new(j)) \/ (new(i) /\ old(j))
      BY <1>4, <1>5, <2>2, <3>2
    <3>3. CASE new(i) /\ new(j)
      BY <1>6, <2>2, <3>3
    <3> QED BY <1>3, <2>2, <3>1, <3>2, <3>3
  <2>3. ASSUME NEW i \in 1 .. Len(posts'), posts'[i].card # NoCard, posts'[i].up, i \notin stray'
        PROVE  pending_card_messages'[posts'[i].card] = i
    <3>1. CASE old(i)
      <4>1. /\ posts[i].card \in Keys /\ posts'[i].card = posts[i].card
            /\ pending_card_messages[posts[i].card] = i /\ posts[i].card[1] # k
        BY <1>4, <1>8, <2>3, <3>1 DEF Remembered
      <4> QED BY <1>5, <1>8, <4>1
    <3>2. CASE new(i)
      <4>1. posts'[i].card \in Keys
        BY <1>5, <3>2
      <4>2. new(pending_card_messages'[posts'[i].card])
            /\ posts'[pending_card_messages'[posts'[i].card]].card = posts'[i].card
        BY <1>8, <2>3, <3>2, <4>1
      <4> QED BY <1>6, <3>2, <4>2
    <3> QED BY <1>3, <2>3, <3>1, <3>2
  <2> QED BY <2>1, <2>2, <2>3 DEF Remembered
<1>10. CardsFollowTokens'
  <2> SUFFICES ASSUME NEW i \in 1 .. Len(posts'), posts'[i].card # NoCard
               PROVE  /\ ~posts'[i].up => posts'[i].card[1] \in dismissed' \/ HandedOn(i)'
                      /\ posts'[i].up /\ posts'[i].card[1] \in dismissed' => i \in stray'
    BY DEF CardsFollowTokens
  <2>1. CASE old(i)
    BY <1>4, <1>8, <2>1 DEF CardsFollowTokens, HandedOn
  <2>2. CASE new(i)
    BY <1>5, <1>8, <2>2
  <2> QED BY <1>3, <2>1, <2>2
<1>11. \A t \in Tokens : Made(t)' => Made(t) \/ t = k
  <2>1. NoCard[1] \notin Tokens
    BY FeishuAssumption DEF NoCard
  <2> QED BY <1>3, <1>4, <1>5, <2>1 DEF Made
<1> QED BY <1>4, <1>9, <1>10, <1>11 DEF k

-----------------------------------------------------------------------------
(* One message, by whichever handler is for it.                            *)

Handle(m, r) ==
  HandleText(m, r) \/ HandleFreshMessage(m, r) \/ HandleResult(m, r) \/ HandlePending(m, r)

LEMMA Handled ==
  ASSUME IInv, queue # <<>>, NEW m, m = Head(queue), NEW r \in Outcomes,
         Handle(m, r), events' = events
  PROVE  /\ Written
         /\ stray' \subseteq 1 .. Len(posts') /\ dismissed' \subseteq Tokens
         /\ pending_card_messages' \in [Keys -> 0 .. Len(posts')]
         /\ failures' \in failures .. MaxFailures
         /\ Remembered' /\ CardsFollowTokens'
         /\ \A k \in Tokens : Made(k)' => Made(k) \/ Queued(1, k)
         /\ \A i \in 1 .. Len(posts) : posts'[i].card = posts[i].card
<1>a. TypeOK /\ DraftsOpen /\ Remembered /\ CardsFollowTokens /\ Fitted /\ SentOnce
  BY DEF IInv
<1>b. /\ m \in Outbound /\ m = queue[1] /\ 1 \in 1 .. Len(queue)
      /\ posts \in Seq(Post) /\ Len(posts) \in Nat
      /\ pending_card_messages \in [Keys -> 0 .. Len(posts)]
      /\ stray \subseteq 1 .. Len(posts) /\ dismissed \subseteq Tokens
      /\ failures \in 0 .. MaxFailures /\ MaxFailures \in Nat
  BY <1>a, FeishuAssumption DEF TypeOK
<1>c. ASSUME Written
      PROVE  /\ Len(posts') \in Nat
             /\ 1 .. Len(posts) \subseteq 1 .. Len(posts')
             /\ 0 .. Len(posts) \subseteq 0 .. Len(posts')
  BY <1>b, <1>c DEF Written
<1>d. Fail(Cost(r)) => failures' \in failures .. MaxFailures
  BY <1>b DEF Fail, Cost
<1>1. ASSUME Written, SameCards(posts, posts'), Fail(Cost(r)),
             pending_card_messages' = pending_card_messages, stray' = stray,
             dismissed' = dismissed
      PROVE  /\ Written
             /\ stray' \subseteq 1 .. Len(posts') /\ dismissed' \subseteq Tokens
             /\ pending_card_messages' \in [Keys -> 0 .. Len(posts')]
             /\ failures' \in failures .. MaxFailures
             /\ Remembered' /\ CardsFollowTokens'
             /\ \A k \in Tokens : Made(k)' => Made(k) \/ Queued(1, k)
             /\ \A i \in 1 .. Len(posts) : posts'[i].card = posts[i].card
  <2>1. posts' \in Seq(Post)
    BY <1>1 DEF Written
  <2>2. /\ Remembered' /\ CardsFollowTokens' /\ \A k \in Tokens : Made(k)' => Made(k)
        /\ \A i \in 1 .. Len(posts) : posts'[i].card = posts[i].card
    BY <1>a, <1>1, <2>1, CardsKept
  <2>3. stray' \subseteq 1 .. Len(posts') /\ dismissed' \subseteq Tokens
    BY <1>b, <1>c, <1>1
  <2>4. pending_card_messages' \in [Keys -> 0 .. Len(posts')]
    BY <1>b, <1>c, <1>1
  <2> QED BY <1>1, <1>d, <2>2, <2>3, <2>4
<1>2. CASE HandleText(m, r)
  <2>1. Written /\ SameCards(posts, posts')
    BY <1>a, <1>b, <1>2, TextWrites
  <2> QED BY <1>1, <1>2, <2>1 DEF HandleText
<1>3. CASE HandleFreshMessage(m, r)
  <2>1. Written /\ SameCards(posts, posts')
    BY <1>a, <1>b, <1>3, FreshWrites
  <2> QED BY <1>1, <1>3, <2>1 DEF HandleFreshMessage
<1>4. CASE HandleResult(m, r)
  <2>1. PICK undeleted \in SUBSET CardsToTake(m.token) :
           /\ Written /\ stray' = stray \cup undeleted
           /\ failures' \in failures .. MaxFailures
    BY <1>a, <1>b, <1>4, ResultWrites
  <2>2. /\ Remembered' /\ CardsFollowTokens' /\ \A k \in Tokens : Made(k)' => Made(k)
        /\ \A i \in 1 .. Len(posts) : posts'[i].card = posts[i].card
    BY <1>a, <1>b, <1>4, CardsTaken
  <2>3. CardsToTake(m.token) \subseteq 1 .. Len(posts)
    <3>1. \A key \in Keys : pending_card_messages[key] \in 0 .. Len(posts)
      BY <1>b
    <3>2. \A i \in 0 .. Len(posts) : i # 0 => i \in 1 .. Len(posts)
      BY <1>b
    <3> QED BY <3>1, <3>2, Zenon DEF CardsToTake, Taken
  <2>4. pending_card_messages' \in [Keys -> 0 .. Len(posts')]
    <3>1. /\ pending_card_messages' =
               [key \in Keys |-> IF key \in Taken(m.token) THEN 0 ELSE pending_card_messages[key]]
      BY <1>4 DEF HandleResult
    <3>2. \A key \in Keys : pending_card_messages[key] \in 0 .. Len(posts')
      BY <1>b, <1>c, <2>1
    <3>3. 0 \in 0 .. Len(posts')
      BY <1>c, <2>1
    <3> QED BY <3>1, <3>2, <3>3
  <2>5. dismissed' \subseteq Tokens
    BY <1>b, <1>4 DEF HandleResult, Outbound
  <2>6. stray' \subseteq 1 .. Len(posts')
    BY <1>b, <1>c, <2>1, <2>3
  <2> QED BY <2>1, <2>2, <2>4, <2>5, <2>6
<1>5. CASE HandlePending(m, r)
  <2>1. /\ m.kind = "pending" /\ Fail(Cost(r)) /\ dismissed' = dismissed
    BY <1>5 DEF HandlePending
  <2>2. m.token \in Tokens /\ Queued(1, m.token) /\ ~Made(m.token)
    BY <1>a, <1>b, <2>1 DEF Fitted, SentOnce, Queued
  <2>3. CASE CardsPosted(m, r) /\ replies' = replies
    <3>1. /\ Remembered' /\ CardsFollowTokens'
          /\ \A k \in Tokens : Made(k)' => Made(k) \/ k = m.token
          /\ \A i \in 1 .. Len(posts) : posts'[i].card = posts[i].card
      BY <1>a, <1>b, <2>1, <2>2, <2>3, CardsMade
    <3>2. /\ Written
          /\ pending_card_messages' \in [Keys -> 0 .. Len(posts')]
      BY <1>a, <1>b, <2>2, <2>3, CardsWrite
    <3>3. PICK b \in Nat : stray' \subseteq stray \cup (b + 1 .. Len(posts'))
      BY <1>a, <1>b, <2>2, <2>3, CardsWrite
    <3>4. stray' \subseteq 1 .. Len(posts')
      <4>1. b + 1 .. Len(posts') \subseteq 1 .. Len(posts')
        BY <1>c, <3>2
      <4> QED BY <1>b, <1>c, <3>2, <3>3, <4>1
    <3> QED BY <1>b, <1>d, <2>1, <2>2, <3>1, <3>2, <3>4
  <2>4. CASE Upsert(m, TRUE, r) /\ UNCHANGED <<pending_card_messages, stray>>
    <3>1. Written /\ SameCards(posts, posts')
      BY <1>a, <1>b, <2>1, <2>4, UpsertWrites
    <3> QED BY <1>1, <2>1, <2>4, <3>1
  <2> QED BY <1>5, <2>3, <2>4 DEF HandlePending
<1> QED BY <1>2, <1>3, <1>4, <1>5 DEF Handle

-----------------------------------------------------------------------------
(* The channel.                                                            *)

ChanTypes ==
  /\ outbound_tx \in {"none", "live", "dead"} /\ conn \in {"up", "down"}
  /\ queue \in Seq(Outbound) /\ Len(queue) <= QueueCap
  /\ sender \in [Senders -> {IdleSender} \cup [tx : {"live", "dead"}, msg : Outbound]]

(* What is on its way stays the same or is dropped, the first of the queue *)
(* taken.                                                                  *)
SendersStay ==
  \A s \in Senders :
    /\ sender'[s] = IdleSender <=> sender[s] = IdleSender
    /\ sender[s] # IdleSender => sender'[s].msg = sender[s].msg

Emptied == [i \in 1 .. MaxEvents |-> 0]

LEMMA TornDown ==
  ASSUME TypeOK, NEW slot \in {"none", "dead"}, TearDown(slot)
  PROVE  ChanTypes' /\ SendersStay /\ queue' = <<>> /\ socket' = Emptied
<1>1. sender \in [Senders -> {IdleSender} \cup [tx : {"live", "dead"}, msg : Outbound]]
  BY DEF TypeOK
<1>2. \A s \in Senders : sender'[s] = IF sender[s] = IdleSender THEN IdleSender
                                      ELSE [sender[s] EXCEPT !.tx = "dead"]
  BY DEF TearDown
<1>3. ASSUME NEW s \in Senders, sender[s] # IdleSender
      PROVE  /\ sender'[s] \in [tx : {"live", "dead"}, msg : Outbound]
             /\ sender'[s].msg = sender[s].msg /\ sender'[s] # IdleSender
  <2>1. sender[s] \in [tx : {"live", "dead"}, msg : Outbound]
    BY <1>1, <1>3
  <2>2. sender'[s] = [sender[s] EXCEPT !.tx = "dead"]
    BY <1>2, <1>3
  <2> QED BY <2>1, <2>2 DEF IdleSender
<1>4. sender' \in [Senders -> {IdleSender} \cup [tx : {"live", "dead"}, msg : Outbound]]
  <2>1. sender' = [s \in Senders |-> sender'[s]]
    BY DEF TearDown
  <2>2. \A s \in Senders :
          sender'[s] \in {IdleSender} \cup [tx : {"live", "dead"}, msg : Outbound]
    BY <1>2, <1>3
  <2> QED BY <2>1, <2>2
<1>5. SendersStay
  BY <1>2, <1>3 DEF SendersStay
<1>6. /\ outbound_tx' \in {"none", "live", "dead"} /\ conn' \in {"up", "down"}
      /\ queue' \in Seq(Outbound) /\ Len(queue') <= QueueCap /\ queue' = <<>>
      /\ socket' = Emptied
  BY FeishuAssumption DEF TearDown, Emptied
<1> QED BY <1>4, <1>5, <1>6 DEF ChanTypes

LEMMA OnTheWay ==
  ASSUME TypeOK, Fitted, SentOnce, SendersStay, given' = given,
         \/ queue' = <<>> \/ queue' = queue
         \/ queue # <<>> /\ queue' = Tail(queue),
         \A k \in Tokens : Made(k)' => \/ Made(k)
                                       \/ /\ queue # <<>> /\ queue' # queue
                                          /\ Queued(1, k)
  PROVE  Fitted' /\ SentOnce'
<1>1. queue \in Seq(Outbound) /\ Len(queue) \in Nat
  BY DEF TypeOK
<1>2. PICK d \in {0, 1} :
        \A i \in 1 .. Len(queue') : /\ i + d \in 1 .. Len(queue) /\ queue'[i] = queue[i + d]
                                    /\ d = 0 => queue' = queue
  <2>1. CASE queue' = <<>>
    BY <2>1
  <2>2. CASE queue' = queue
    BY <1>1, <2>2
  <2>3. CASE queue # <<>> /\ queue' = Tail(queue)
    <3>1. Len(queue') = Len(queue) - 1 /\ \A i \in 1 .. Len(queue') : queue'[i] = queue[i + 1]
      BY <1>1, <2>3, HeadTailProperties
    <3> QED BY <1>1, <3>1
  <2> QED BY <2>1, <2>2, <2>3
<1>3. Fitted'
  BY <1>2 DEF Fitted, SendersStay
<1>4. ASSUME NEW k \in Tokens
      PROVE  /\ <<"pending", k>> \notin given' => ~Made(k)'
             /\ \A i \in 1 .. Len(queue') : Queued(i, k)' =>
                  /\ <<"pending", k>> \in given' /\ ~Made(k)'
                  /\ \A j \in 1 .. Len(queue') : Queued(j, k)' => j = i
             /\ \A s \in Senders : Held(s, k)' =>
                  /\ <<"pending", k>> \in given' /\ ~Made(k)'
                  /\ \A j \in 1 .. Len(queue') : ~Queued(j, k)'
                  /\ \A t \in Senders : Held(t, k)' => t = s
  <2>1. \A s \in Senders : Held(s, k)' => Held(s, k)
    BY DEF Held, SendersStay
  <2>2. \A i \in 1 .. Len(queue') : Queued(i, k)' => i + d \in 1 .. Len(queue) /\ Queued(i + d, k)
    BY <1>2 DEF Queued
  <2>3. queue # <<>> => 1 \in 1 .. Len(queue)
    BY <1>1
  <2>4. <<"pending", k>> \notin given' => ~Made(k)'
    BY <2>3 DEF SentOnce
  <2>5. ASSUME NEW i \in 1 .. Len(queue'), Queued(i, k)'
        PROVE  /\ <<"pending", k>> \in given' /\ ~Made(k)'
               /\ \A j \in 1 .. Len(queue') : Queued(j, k)' => j = i
    <3>1. /\ i + d \in 1 .. Len(queue) /\ Queued(i + d, k)
          /\ <<"pending", k>> \in given /\ ~Made(k)
          /\ \A j \in 1 .. Len(queue) : Queued(j, k) => j = i + d
      BY <2>2, <2>5 DEF SentOnce
    <3>2. ~Made(k)'
      <4> SUFFICES ASSUME Made(k)' PROVE FALSE
        OBVIOUS
      <4>1. queue # <<>> /\ queue' # queue /\ Queued(1, k)
        BY <3>1
      <4>2. d = 1 /\ 1 = i + d
        BY <1>2, <2>3, <2>5, <3>1, <4>1
      <4> QED BY <4>2
    <3>3. \A j \in 1 .. Len(queue') : Queued(j, k)' => j = i
      BY <2>2, <3>1
    <3> QED BY <3>1, <3>2, <3>3
  <2>6. ASSUME NEW s \in Senders, Held(s, k)'
        PROVE  /\ <<"pending", k>> \in given' /\ ~Made(k)'
               /\ \A j \in 1 .. Len(queue') : ~Queued(j, k)'
               /\ \A t \in Senders : Held(t, k)' => t = s
    <3>1. /\ <<"pending", k>> \in given /\ ~Made(k)
          /\ \A j \in 1 .. Len(queue) : ~Queued(j, k)
          /\ \A t \in Senders : Held(t, k) => t = s
      BY <2>1, <2>6 DEF SentOnce
    <3> QED BY <2>1, <2>2, <2>3, <3>1
  <2> QED BY <2>4, <2>5, <2>6
<1> QED BY <1>3, <1>4 DEF SentOnce

-----------------------------------------------------------------------------
(* Events.                                                                 *)

PassedOnce(e, fwd, acked) == [e EXCEPT !.forwarded = @ + fwd, !.acked = @ \/ acked]

(* One event has been passed on once more, or not.                         *)
OnceMore(i, fwd, acked) ==
  /\ events' \in Seq(Event) /\ Len(events') = Len(events)
  /\ \A j \in 1 .. Len(events) :
       /\ events'[j].kind = events[j].kind /\ events'[j].post = events[j].post
       /\ events'[j].forwarded >= events[j].forwarded
       /\ j # i => events'[j] = events[j]
  /\ events'[i].forwarded = events[i].forwarded + fwd
  /\ events'[i].acked = (events[i].acked \/ acked)

(* Its frame was read, or all frames are lost with the connection.         *)
SocketRead(i, acked) ==
  IF acked THEN socket' = [socket EXCEPT ![i] = @ - 1] ELSE socket' = Emptied

WireTypes ==
  /\ socket \in [1 .. MaxEvents -> 0 .. 1 + MaxLate]
  /\ tries \in [1 .. MaxEvents -> 0 .. MaxTries]
  /\ late \in [1 .. MaxEvents -> 0 .. MaxLate]

LEMMA Bounds == MaxEvents \in Nat /\ MaxTries \in Nat /\ MaxLate \in Nat /\ MaxFailures \in Nat
BY FeishuAssumption

(* What each step does to the numbers.                                     *)
LEMMA CoveredKept ==
  ASSUME NEW f \in Nat, NEW s \in Nat, NEW acked \in BOOLEAN, NEW t \in Nat, NEW l \in Nat,
         NEW n \in Nat, Covered(f, s, acked, t, l, n), NEW m \in Nat, n <= m
  PROVE  Covered(f, s, acked, t, l, m) /\ Covered(f, 0, acked, t, l, m)
BY DEF Covered

LEMMA CoveredDelivered ==
  ASSUME NEW f \in Nat, NEW s \in Nat, NEW t \in Nat, NEW l \in Nat, NEW n \in Nat,
         Covered(f, s, FALSE, t, l, n)
  PROVE  /\ s = 0 => Covered(f, 1, FALSE, t + 1, l, n)
         /\ s > 0 => Covered(f, s + 1, FALSE, t, l + 1, n)
BY DEF Covered

LEMMA CoveredBounds ==
  ASSUME NEW f \in Nat, NEW s \in Nat, NEW acked \in BOOLEAN, NEW T \in Nat, NEW L \in Nat,
         NEW t \in 0 .. T, NEW l \in 0 .. L, NEW n \in Nat, Covered(f, s, acked, t, l, n)
  PROVE  /\ f <= 1 + n + l
         /\ s > 0 => f + 1 <= T + L /\ f <= T + L
         /\ l < L => s + 1 \in 0 .. 1 + L
         /\ s - 1 <= 1 + L
BY DEF Covered

LEMMA WireOf ==
  ASSUME TypeOK, Forwarded, NEW i \in 1 .. Len(events)
  PROVE  /\ i \in 1 .. MaxEvents /\ events[i] \in Event
         /\ events[i].forwarded \in Nat /\ events[i].acked \in BOOLEAN
         /\ socket[i] \in Nat /\ socket[i] <= 1 + MaxLate
         /\ tries[i] \in 0 .. MaxTries /\ late[i] \in 0 .. MaxLate /\ failures \in Nat
         /\ Covered(events[i].forwarded, socket[i], events[i].acked, tries[i], late[i], failures)
<1>1. events[i] \in Event
  BY ElementOfSeq DEF TypeOK
<1>2. i \in 1 .. MaxEvents
  BY Bounds DEF Forwarded, TypeOK
<1>3. events[i].forwarded \in Nat /\ events[i].acked \in BOOLEAN
  BY <1>1, Bounds DEF Event
<1>4. /\ socket[i] \in 0 .. 1 + MaxLate
      /\ tries[i] \in 0 .. MaxTries /\ late[i] \in 0 .. MaxLate
  BY <1>2 DEF TypeOK
<1>5. failures \in Nat
  BY Bounds DEF TypeOK
<1> QED BY <1>1, <1>2, <1>3, <1>4, <1>5, Bounds DEF Forwarded

LEMMA PassedOnAgain ==
  ASSUME TypeOK, Forwarded, NEW i \in 1 .. Len(events), socket[i] > 0,
         NEW fwd \in {0, 1}, NEW acked \in BOOLEAN, PassedOn(i, fwd, acked)
  PROVE  OnceMore(i, fwd, acked)
<1> DEFINE e == PassedOnce(events[i], fwd, acked)
<1>1. /\ events \in Seq(Event) /\ events[i] \in Event
      /\ events[i].forwarded \in Nat /\ events[i].forwarded + fwd <= MaxTries + MaxLate
  <2>1. events \in Seq(Event)
    BY DEF TypeOK
  <2>2. /\ events[i].forwarded \in Nat /\ socket[i] \in Nat /\ events[i] \in Event
        /\ events[i].forwarded + 1 <= MaxTries + MaxLate
        /\ events[i].forwarded <= MaxTries + MaxLate
    BY WireOf, Bounds, CoveredBounds
  <2>3. CASE fwd = 0
    BY <2>1, <2>2, <2>3
  <2>4. CASE fwd = 1
    BY <2>1, <2>2, <2>4
  <2> QED BY <2>3, <2>4
<1>2. /\ e \in Event /\ e.kind = events[i].kind /\ e.post = events[i].post
      /\ e.forwarded = events[i].forwarded + fwd
      /\ e.acked = (events[i].acked \/ acked)
      /\ e.forwarded >= events[i].forwarded
  <2>1. /\ events[i].kind \in {"text", "click", "ignored", "malformed"} /\ events[i].post \in Nat
        /\ events[i].acked \in BOOLEAN
    BY <1>1 DEF Event
  <2>2. events[i].forwarded + fwd \in 0 .. MaxTries + MaxLate
    BY <1>1, Bounds
  <2>3. events[i].forwarded + fwd >= events[i].forwarded
    BY <1>1
  <2> QED BY <1>1, <2>1, <2>2, <2>3 DEF PassedOnce, Event
<1>3. events' = [events EXCEPT ![i] = e]
  BY DEF PassedOn, PassedOnce
<1> HIDE DEF e
<1>4. /\ events' \in Seq(Event) /\ Len(events') = Len(events)
      /\ \A j \in 1 .. Len(events) : events'[j] = IF j = i THEN e ELSE events[j]
  BY <1>1, <1>2, <1>3, ExceptSeq
<1>5. \A j \in 1 .. Len(events) : events[j].forwarded >= events[j].forwarded
  <2> SUFFICES ASSUME NEW j \in 1 .. Len(events)
               PROVE  events[j].forwarded >= events[j].forwarded
    OBVIOUS
  <2>1. events[j].forwarded \in Nat
    BY WireOf
  <2> QED BY <2>1
<1> QED BY <1>2, <1>4, <1>5 DEF OnceMore

(* The frames that wait stay or are lost, and failures only grow.          *)
LEMMA FeedKept ==
  ASSUME TypeOK, Forwarded, events' = events, tries' = tries, late' = late,
         socket' = socket \/ socket' = Emptied, failures' \in failures .. MaxFailures
  PROVE  Forwarded' /\ WireTypes'
<1>1. /\ socket \in [1 .. MaxEvents -> 0 .. 1 + MaxLate]
      /\ tries \in [1 .. MaxEvents -> 0 .. MaxTries]
      /\ late \in [1 .. MaxEvents -> 0 .. MaxLate]
  BY DEF TypeOK
<1>f. failures \in Nat /\ failures' \in Nat /\ failures <= failures'
  <2>1. failures \in 0 .. MaxFailures
    BY DEF TypeOK
  <2> QED BY <2>1, Bounds
<1>2. Emptied \in [1 .. MaxEvents -> 0 .. 1 + MaxLate]
  BY Bounds DEF Emptied
<1>3. WireTypes'
  BY <1>1, <1>2 DEF WireTypes
<1>4. \A i \in 1 .. MaxEvents : socket'[i] = socket[i] \/ socket'[i] = 0
  BY <1>1 DEF Emptied
<1>5. ASSUME NEW i \in 1 .. Len(events)
      PROVE  Covered(events[i].forwarded, socket'[i], events[i].acked, tries[i], late[i], failures')
  <2>1. socket'[i] = socket[i] \/ socket'[i] = 0
    BY <1>4, WireOf
  <2>2. /\ Covered(events[i].forwarded, socket[i], events[i].acked, tries[i], late[i], failures')
        /\ Covered(events[i].forwarded, 0, events[i].acked, tries[i], late[i], failures')
    <3>1. /\ events[i].forwarded \in Nat /\ events[i].acked \in BOOLEAN
          /\ socket[i] \in Nat /\ tries[i] \in Nat /\ late[i] \in Nat
          /\ Covered(events[i].forwarded, socket[i], events[i].acked, tries[i], late[i], failures)
      BY WireOf, Bounds
    <3> QED BY <1>f, <3>1, CoveredKept
  <2> QED BY <2>1, <2>2
<1>6. Forwarded'
  BY <1>4, <1>5 DEF Forwarded
<1> QED BY <1>3, <1>6

(* What reading a frame costs in failures, if it is not acknowledged.      *)
LEMMA ForwardedOn ==
  ASSUME TypeOK, Forwarded, NEW i \in 1 .. Len(events), socket[i] > 0,
         NEW fwd \in {0, 1}, NEW acked \in BOOLEAN, OnceMore(i, fwd, acked),
         SocketRead(i, acked), tries' = tries, late' = late,
         failures' \in Nat, failures' >= failures,
         acked \/ fwd = 0 \/ failures' > failures
  PROVE  Forwarded' /\ WireTypes'
<1>1. /\ socket \in [1 .. MaxEvents -> 0 .. 1 + MaxLate]
      /\ tries \in [1 .. MaxEvents -> 0 .. MaxTries]
      /\ late \in [1 .. MaxEvents -> 0 .. MaxLate]
  BY DEF TypeOK
<1>f. failures \in Nat
  BY Bounds DEF TypeOK
<1>2. i \in 1 .. MaxEvents /\ socket[i] - 1 \in 0 .. 1 + MaxLate
  <2>1. i \in 1 .. MaxEvents
    BY WireOf
  <2>2. socket[i] \in 0 .. 1 + MaxLate
    BY <1>1, <2>1
  <2> QED BY <2>1, <2>2, Bounds
<1>3. /\ socket' \in [1 .. MaxEvents -> 0 .. 1 + MaxLate]
      /\ \A j \in 1 .. MaxEvents :
           socket'[j] = IF acked THEN (IF j = i THEN socket[j] - 1 ELSE socket[j]) ELSE 0
  <2>1. CASE acked
    <3>1. socket' = [socket EXCEPT ![i] = socket[i] - 1]
      BY <2>1 DEF SocketRead
    <3> QED BY <1>1, <1>2, <2>1, <3>1
  <2>2. CASE ~acked
    <3>1. socket' = Emptied
      BY <2>2 DEF SocketRead
    <3> QED BY <2>2, <3>1, Bounds DEF Emptied
  <2> QED BY <2>1, <2>2
<1>4. WireTypes'
  BY <1>1, <1>3 DEF WireTypes
<1>5. Len(events') = Len(events) /\ Len(events) <= MaxEvents
  BY DEF OnceMore, Forwarded
<1>6. \A j \in 1 .. MaxEvents : j > Len(events) => socket'[j] = 0
  <2> SUFFICES ASSUME NEW j \in 1 .. MaxEvents, j > Len(events)
               PROVE  socket'[j] = 0
    OBVIOUS
  <2>1. socket[j] = 0 /\ j # i
    BY DEF Forwarded, TypeOK
  <2> QED BY <1>3, <2>1
<1>7. ASSUME NEW j \in 1 .. Len(events)
      PROVE  Covered(events'[j].forwarded, socket'[j], events'[j].acked, tries[j], late[j], failures')
  <2>1. /\ j \in 1 .. MaxEvents /\ events[j].forwarded \in Nat /\ socket[j] \in Nat
        /\ tries[j] \in Nat /\ late[j] \in Nat /\ events[j].acked \in BOOLEAN
        /\ Covered(events[j].forwarded, socket[j], events[j].acked, tries[j], late[j], failures)
    BY WireOf, Bounds
  <2>2. socket'[j] = IF acked THEN (IF j = i THEN socket[j] - 1 ELSE socket[j]) ELSE 0
    BY <1>3, <2>1
  <2>3. CASE j # i
    <3>1. events'[j] = events[j]
      BY <2>3 DEF OnceMore
    <3>2. socket'[j] = socket[j] \/ socket'[j] = 0
      BY <2>2, <2>3
    <3>3. /\ Covered(events[j].forwarded, socket[j], events[j].acked, tries[j], late[j], failures')
          /\ Covered(events[j].forwarded, 0, events[j].acked, tries[j], late[j], failures')
      BY <1>f, <2>1, CoveredKept
    <3> QED BY <3>1, <3>2, <3>3
  <2>4. CASE j = i
    <3>1. /\ events'[j].forwarded = events[j].forwarded + fwd
          /\ events'[j].acked = (events[j].acked \/ acked)
      BY <2>4 DEF OnceMore
    <3>2. /\ Covered(events[j].forwarded + fwd, socket[j] - 1, TRUE, tries[j], late[j], failures')
          /\ fwd = 0 \/ failures < failures' =>
               Covered(events[j].forwarded + fwd, 0, events[j].acked, tries[j], late[j], failures')
      <4>1. socket[j] > 0 /\ failures <= failures'
        BY <1>f, <2>4
      <4>2. PICK f \in Nat, n \in Nat, w \in Nat, a \in BOOLEAN, t \in Nat, l \in Nat :
              /\ f = events[j].forwarded /\ n = failures /\ w = socket[j]
              /\ a = events[j].acked /\ t = tries[j] /\ l = late[j]
        BY <1>f, <2>1
      <4>3. PICK m \in Nat : m = failures'
        OBVIOUS
      <4>4. Covered(f, w, a, t, l, n) /\ w > 0 /\ n <= m
        BY <2>1, <4>1, <4>2, <4>3
      <4>5. /\ Covered(f + fwd, w - 1, TRUE, t, l, m)
            /\ fwd = 0 \/ n < m => Covered(f + fwd, 0, a, t, l, m)
        <5>1. Covered(f + fwd, w - 1, TRUE, t, l, m)
          BY <4>4 DEF Covered
        <5>2. fwd = 0 \/ n < m => Covered(f + fwd, 0, a, t, l, m)
          BY <4>4 DEF Covered
        <5> QED BY <5>1, <5>2
      <4> QED BY <4>2, <4>3, <4>5
    <3>3. CASE acked
      <4>1. socket'[j] = socket[j] - 1 /\ events'[j].acked = TRUE
        BY <2>1, <2>2, <2>4, <3>1, <3>3
      <4> QED BY <3>1, <3>2, <4>1
    <3>4. CASE ~acked
      <4>1. socket'[j] = 0 /\ events'[j].acked = events[j].acked
        BY <2>1, <2>2, <2>4, <3>1, <3>4
      <4>2. fwd = 0 \/ failures < failures'
        BY <1>f, <3>4
      <4> QED BY <3>1, <3>2, <4>1, <4>2
    <3> QED BY <3>3, <3>4
  <2> QED BY <2>3, <2>4
<1>8. Forwarded'
  BY <1>5, <1>6, <1>7 DEF Forwarded
<1> QED BY <1>4, <1>8

LEMMA HandedOnStays ==
  ASSUME TypeOK, NEW i \in 1 .. Len(events), NEW fwd \in {0, 1}, NEW acked \in BOOLEAN,
         OnceMore(i, fwd, acked)
  PROVE  /\ \A id : HandedOn(id) => HandedOn(id)'
         /\ \A id : fwd = 1 /\ events[i].kind = "click" /\ id = events[i].post => HandedOn(id)'
<1>1. \A j \in 1 .. Len(events) : events[j].forwarded \in Nat
  <2> SUFFICES ASSUME NEW j \in 1 .. Len(events) PROVE events[j].forwarded \in Nat
    OBVIOUS
  <2>1. events[j] \in Event
    BY ElementOfSeq DEF TypeOK
  <2> QED BY <2>1, FeishuAssumption DEF Event
<1>2. \A j \in 1 .. Len(events) : events'[j].forwarded \in Nat
  <2> SUFFICES ASSUME NEW j \in 1 .. Len(events) PROVE events'[j].forwarded \in Nat
    OBVIOUS
  <2>1. events'[j] \in Event
    BY ElementOfSeq DEF OnceMore
  <2> QED BY <2>1, FeishuAssumption DEF Event
<1>3. ASSUME NEW id, HandedOn(id)
      PROVE  HandedOn(id)'
  <2>1. PICK e \in 1 .. Len(events) :
           events[e].kind = "click" /\ events[e].post = id /\ events[e].forwarded > 0
    BY <1>3 DEF HandedOn
  <2>2. /\ e \in 1 .. Len(events') /\ events'[e].kind = "click" /\ events'[e].post = id
        /\ events'[e].forwarded > 0
    BY <1>1, <1>2, <2>1 DEF OnceMore
  <2> QED BY <2>2 DEF HandedOn
<1>4. ASSUME NEW id, fwd = 1, events[i].kind = "click", id = events[i].post
      PROVE  HandedOn(id)'
  <2>1. /\ i \in 1 .. Len(events') /\ events'[i].kind = "click"
        /\ events'[i].post = id /\ events'[i].forwarded > 0
    BY <1>1, <1>4 DEF OnceMore
  <2> QED BY <2>1 DEF HandedOn
<1> QED BY <1>3, <1>4

(* A click: one card goes, or stays and is known for a stray.              *)
LEMMA CardClicked ==
  ASSUME TypeOK, Clicked, Remembered, CardsFollowTokens,
         NEW i \in 1 .. Len(events), events[i].kind = "click", NEW id, id = events[i].post,
         NEW acked \in BOOLEAN, OnceMore(i, 1, acked),
         pending_card_messages' =
           [pending_card_messages EXCEPT ![posts[id].card] = 0],
         \/ posts' = [posts EXCEPT ![id].up = FALSE] /\ stray' = stray
         \/ posts[id].up /\ posts' = posts /\ stray' = stray \cup {id},
         dismissed' = dismissed
  PROVE  /\ posts' \in Seq(Post) /\ Len(posts') = Len(posts) /\ stray' \subseteq 1 .. Len(posts)
         /\ pending_card_messages' \in [Keys -> 0 .. Len(posts)]
         /\ \A j \in 1 .. Len(posts) :
              posts'[j].card = posts[j].card /\ posts'[j].text = posts[j].text
         /\ Remembered' /\ CardsFollowTokens'
<1>1. /\ posts \in Seq(Post) /\ Len(posts) \in Nat /\ stray \subseteq 1 .. Len(posts)
      /\ pending_card_messages \in [Keys -> 0 .. Len(posts)]
      /\ id \in 1 .. Len(posts) /\ posts[id].card \in Keys
  BY DEF TypeOK, Clicked
<1>2. /\ \A j : HandedOn(j) => HandedOn(j)'
      /\ HandedOn(id)'
  BY HandedOnStays
<1>3. /\ posts' \in Seq(Post) /\ Len(posts') = Len(posts)
      /\ \A j \in 1 .. Len(posts) :
           /\ posts'[j].card = posts[j].card /\ posts'[j].text = posts[j].text
           /\ j # id => posts'[j].up = posts[j].up
      /\ \/ ~posts'[id].up /\ stray' = stray
         \/ posts'[id].up = posts[id].up /\ stray' = stray \cup {id}
  <2>1. CASE posts' = posts /\ stray' = stray \cup {id}
    BY <1>1, <2>1
  <2>2. CASE posts' = [posts EXCEPT ![id].up = FALSE] /\ stray' = stray
    <3> DEFINE e == [posts[id] EXCEPT !.up = FALSE]
    <3>1. posts[id] \in Post
      BY <1>1, ElementOfSeq
    <3>2. e \in Post /\ e.card = posts[id].card /\ e.text = posts[id].text /\ ~e.up
      BY <3>1 DEF Post
    <3>3. posts' = [posts EXCEPT ![id] = e]
      BY <2>2
    <3> HIDE DEF e
    <3>4. /\ posts' \in Seq(Post) /\ Len(posts') = Len(posts)
          /\ \A j \in 1 .. Len(posts) : posts'[j] = IF j = id THEN e ELSE posts[j]
      BY <1>1, <3>2, <3>3, ExceptSeq
    <3> QED BY <1>1, <2>2, <3>2, <3>4
  <2> QED BY <2>1, <2>2
<1>4. stray' \subseteq 1 .. Len(posts) /\ stray \subseteq stray'
  BY <1>1, <1>3
<1>5. /\ pending_card_messages' \in [Keys -> 0 .. Len(posts)]
      /\ \A key \in Keys : pending_card_messages'[key] =
           IF key = posts[id].card THEN 0 ELSE pending_card_messages[key]
  <2>1. 0 \in 0 .. Len(posts)
    BY <1>1
  <2> QED BY <1>1, <2>1
<1>6. Remembered'
  <2>1. ASSUME NEW key \in Keys, pending_card_messages'[key] # 0
        PROVE  posts'[pending_card_messages'[key]].card = key
    <3>1. pending_card_messages'[key] = pending_card_messages[key]
          /\ pending_card_messages[key] \in 1 .. Len(posts)
      BY <1>1, <1>5, <2>1
    <3> QED BY <1>3, <2>1, <3>1 DEF Remembered
  <2>2. \A j, l \in 1 .. Len(posts') :
          posts'[j].card = posts'[l].card /\ j # l => posts'[j].card = NoCard
    BY <1>3 DEF Remembered
  <2>3. ASSUME NEW j \in 1 .. Len(posts'), posts'[j].card # NoCard, posts'[j].up, j \notin stray'
        PROVE  pending_card_messages'[posts'[j].card] = j
    <3>1. j # id
      BY <1>3, <2>3
    <3>2. /\ j \in 1 .. Len(posts) /\ posts[j].card # NoCard /\ posts[j].up /\ j \notin stray
          /\ posts'[j].card = posts[j].card
      BY <1>3, <1>4, <2>3, <3>1
    <3>3. posts[j].card # posts[id].card /\ posts[j].card \in Keys
      BY <1>1, <3>1, <3>2, CardOfPost DEF Remembered
    <3>4. pending_card_messages[posts[j].card] = j
      BY <3>2 DEF Remembered
    <3> QED BY <1>5, <3>2, <3>3, <3>4
  <2> QED BY <2>1, <2>2, <2>3 DEF Remembered
<1>7. CardsFollowTokens'
  <2> SUFFICES ASSUME NEW j \in 1 .. Len(posts'), posts'[j].card # NoCard
               PROVE  /\ ~posts'[j].up => posts'[j].card[1] \in dismissed' \/ HandedOn(j)'
                      /\ posts'[j].up /\ posts'[j].card[1] \in dismissed' => j \in stray'
    BY DEF CardsFollowTokens
  <2>1. CASE j # id
    BY <1>2, <1>3, <1>4, <2>1 DEF CardsFollowTokens
  <2>2. CASE j = id
    BY <1>2, <1>3, <2>2
  <2> QED BY <2>1, <2>2
<1> QED BY <1>3, <1>4, <1>5, <1>6, <1>7

-----------------------------------------------------------------------------
(* The steps.                                                              *)

RestTypes ==
  /\ conversation_state \in [Conversations -> 0 .. Len(posts)]
  /\ pending_card_messages \in [Keys -> 0 .. Len(posts)]
  /\ posts \in Seq(Post) /\ events \in Seq(Event)
  /\ sent \in 0 .. MaxSends /\ given \subseteq {"pending", "result"} \X Tokens
  /\ replies \cup stray \subseteq 1 .. Len(posts)
  /\ dismissed \subseteq Tokens
  /\ failures \in 0 .. MaxFailures

LEMMA TypeParts == /\ TypeOK <=> ChanTypes /\ RestTypes /\ WireTypes
                   /\ TypeOK' <=> ChanTypes' /\ RestTypes' /\ WireTypes'
BY DEF TypeOK, ChanTypes, RestTypes, WireTypes

LEMMA InitHolds == Init => IInv
<1> SUFFICES ASSUME Init PROVE IInv
  OBVIOUS
<1> USE FeishuAssumption DEF Init
<1>1. TypeOK
  BY DEF TypeOK
<1>2. Fitted /\ DraftsOpen /\ Clicked
  BY DEF Fitted, DraftsOpen, Clicked
<1>3. Forwarded
  <2>1. Len(events) = 0 /\ MaxEvents \in Nat
    OBVIOUS
  <2>2. \A i \in 1 .. MaxEvents : socket[i] = 0
    OBVIOUS
  <2> QED BY <2>1, <2>2 DEF Forwarded
<1>4. SentOnce /\ Remembered /\ CardsFollowTokens
  BY DEF SentOnce, Made, Queued, Held, Remembered, CardsFollowTokens
<1> QED BY <1>1, <1>2, <1>3, <1>4 DEF IInv

(* What holds of the rest while only the channel changes.                  *)
LEMMA RestKept ==
  ASSUME IInv, UNCHANGED <<stateVars, posts, feedVars, replies, dismissed, stray>>,
         socket' = socket \/ socket' = Emptied, failures' \in failures .. MaxFailures, ChanTypes',
         sent' \in 0 .. MaxSends, given' \subseteq {"pending", "result"} \X Tokens
  PROVE  TypeOK' /\ DraftsOpen' /\ Forwarded' /\ Clicked' /\ Remembered' /\ CardsFollowTokens'
<1>1. failures \in Nat /\ failures' \in 0 .. MaxFailures /\ failures <= failures'
  BY FeishuAssumption DEF IInv, TypeOK
<1>2. events' = events /\ tries' = tries /\ late' = late
  BY DEF feedVars
<1>3. Forwarded' /\ WireTypes'
  BY <1>2, FeedKept DEF IInv
<1>4. TypeOK'
  BY <1>1, <1>2, <1>3, TypeParts DEF IInv, TypeOK, RestTypes, stateVars
<1>5. DraftsOpen' /\ Clicked'
  BY <1>2 DEF IInv, DraftsOpen, Clicked, stateVars
<1>6. Remembered' /\ CardsFollowTokens'
  BY <1>2 DEF IInv, Remembered, CardsFollowTokens, HandedOn, stateVars
<1> QED BY <1>3, <1>4, <1>5, <1>6

LEMMA CloneStep ==
  ASSUME IInv, NEW s \in Senders, NEW m \in Outbound, CloneSlot(s, m)
  PROVE  IInv'
<1>a. TypeOK /\ Fitted /\ SentOnce
  BY DEF IInv
<1>1. /\ UNCHANGED <<stateVars, posts, feedVars, replies, dismissed, stray>>
      /\ socket' = socket
      /\ outbound_tx' = outbound_tx /\ conn' = conn /\ queue' = queue /\ failures' = failures
  BY DEF CloneSlot
<1>2. /\ sent' \in 0 .. MaxSends
      /\ given \subseteq given' /\ given' \subseteq given \cup {<<m.kind, m.token>>}
      /\ given' \subseteq {"pending", "result"} \X Tokens
      /\ m.kind = "pending" => m.token \in Tokens /\ <<"pending", m.token>> \in given'
                               /\ <<"pending", m.token>> \notin given
  <2>1. m.n \in 1 .. MaxSends /\ m.n = sent + 1 /\ sent' = sent + 1
    BY DEF CloneSlot, Outbound
  <2>2. sent' \in 0 .. MaxSends
    BY <2>1, FeishuAssumption
  <2>3. m.token \in Tokens \/ m.token = NoToken
    BY DEF Outbound
  <2>4. given' = IF m.token = NoToken THEN given ELSE given \cup {<<m.kind, m.token>>}
    BY DEF CloneSlot
  <2>5. Fits(m) /\ given \subseteq {"pending", "result"} \X Tokens
    BY <1>a DEF CloneSlot, TypeOK
  <2> QED BY <2>2, <2>3, <2>4, <2>5 DEF Fits
<1>3. /\ sender \in [Senders -> {IdleSender} \cup [tx : {"live", "dead"}, msg : Outbound]]
      /\ outbound_tx \in {"none", "live", "dead"}
  BY <1>a DEF TypeOK
<1>4. /\ sender' \in [Senders -> {IdleSender} \cup [tx : {"live", "dead"}, msg : Outbound]]
      /\ \A t \in Senders : sender'[t] = sender[t] \/ (t = s /\ sender'[t].msg = m)
  <2>1. CASE outbound_tx = "none"
    BY <1>3, <2>1 DEF CloneSlot
  <2>2. CASE outbound_tx # "none"
    <3>1. sender' = [sender EXCEPT ![s] = [tx |-> outbound_tx, msg |-> m]]
      BY <2>2 DEF CloneSlot
    <3>2. [tx |-> outbound_tx, msg |-> m] \in [tx : {"live", "dead"}, msg : Outbound]
      BY <1>3, <2>2
    <3> QED BY <1>3, <3>1, <3>2
  <2> QED BY <2>1, <2>2
<1>5. ChanTypes'
  BY <1>a, <1>1, <1>4 DEF ChanTypes, TypeOK
<1>6. failures' \in failures .. MaxFailures
  BY <1>a, <1>1, FeishuAssumption DEF TypeOK
<1>7. Fitted'
  BY <1>a, <1>1, <1>2, <1>4 DEF Fitted
<1>8. SentOnce'
  <2> SUFFICES ASSUME NEW k \in Tokens
               PROVE  /\ <<"pending", k>> \notin given' => ~Made(k)'
                      /\ \A i \in 1 .. Len(queue) : Queued(i, k) =>
                           /\ <<"pending", k>> \in given' /\ ~Made(k)'
                           /\ \A j \in 1 .. Len(queue) : Queued(j, k) => j = i
                      /\ \A t \in Senders : Held(t, k)' =>
                           /\ <<"pending", k>> \in given' /\ ~Made(k)'
                           /\ \A j \in 1 .. Len(queue) : ~Queued(j, k)
                           /\ \A u \in Senders : Held(u, k)' => u = t
    BY <1>1 DEF SentOnce, Queued
  <2>1. Made(k)' <=> Made(k)
    BY <1>1 DEF Made
  <2>2. \A t \in Senders : Held(t, k)' =>
          Held(t, k) \/ (t = s /\ m.kind = "pending" /\ m.token = k)
    BY <1>4 DEF Held
  <2>3. /\ <<"pending", k>> \notin given => ~Made(k)
        /\ \A i \in 1 .. Len(queue) : Queued(i, k) =>
             /\ <<"pending", k>> \in given /\ ~Made(k)
             /\ \A j \in 1 .. Len(queue) : Queued(j, k) => j = i
        /\ \A t \in Senders : Held(t, k) =>
             /\ <<"pending", k>> \in given /\ ~Made(k)
             /\ \A j \in 1 .. Len(queue) : ~Queued(j, k)
             /\ \A u \in Senders : Held(u, k) => u = t
    BY <1>a DEF SentOnce
  <2> QED BY <1>2, <2>1, <2>2, <2>3
<1> QED BY <1>1, <1>2, <1>5, <1>6, <1>7, <1>8, RestKept DEF IInv

LEMMA PushStep ==
  ASSUME IInv, NEW s \in Senders, Push(s)
  PROVE  IInv'
<1>a. TypeOK /\ Fitted /\ SentOnce
  BY DEF IInv
<1>1. /\ UNCHANGED <<stateVars, posts, feedVars, replies, dismissed, stray>>
      /\ socket' = socket
      /\ outbound_tx' = outbound_tx /\ conn' = conn /\ failures' = failures
      /\ sent' = sent /\ given' = given
      /\ sender[s] # IdleSender /\ sender' = [sender EXCEPT ![s] = IdleSender]
  BY DEF Push, histVars
<1>2. /\ sender \in [Senders -> {IdleSender} \cup [tx : {"live", "dead"}, msg : Outbound]]
      /\ queue \in Seq(Outbound) /\ Len(queue) \in Nat /\ Len(queue) <= QueueCap
      /\ sent \in 0 .. MaxSends /\ given \subseteq {"pending", "result"} \X Tokens
      /\ sender[s].msg \in Outbound
  BY <1>a, <1>1 DEF TypeOK
<1>3. /\ sender' \in [Senders -> {IdleSender} \cup [tx : {"live", "dead"}, msg : Outbound]]
      /\ \A t \in Senders : sender'[t] = IF t = s THEN IdleSender ELSE sender[t]
  BY <1>1, <1>2
<1>4. \/ queue' = queue
      \/ /\ Len(queue) < QueueCap /\ queue' = Append(queue, sender[s].msg)
         /\ queue' \in Seq(Outbound) /\ Len(queue') = Len(queue) + 1
         /\ queue'[Len(queue) + 1] = sender[s].msg
         /\ \A i \in 1 .. Len(queue) : queue'[i] = queue[i]
  <2>1. queue' = queue \/ (Len(queue) < QueueCap /\ queue' = Append(queue, sender[s].msg))
    BY DEF Push
  <2> DEFINE msg == sender[s].msg
  <2>2. msg \in Outbound
    BY <1>2
  <2> HIDE DEF msg
  <2>3. /\ Append(queue, msg) \in Seq(Outbound) /\ Len(Append(queue, msg)) = Len(queue) + 1
        /\ Append(queue, msg)[Len(queue) + 1] = msg
        /\ \A i \in 1 .. Len(queue) : Append(queue, msg)[i] = queue[i]
    BY <1>2, <2>2
  <2> QED BY <2>1, <2>3, Zenon DEF msg
<1>5. ChanTypes'
  <2>1. queue' \in Seq(Outbound) /\ Len(queue') <= QueueCap
    BY <1>2, <1>4, FeishuAssumption
  <2> QED BY <1>a, <1>1, <1>3, <2>1 DEF ChanTypes, TypeOK
<1>6. failures' \in failures .. MaxFailures
  BY <1>a, <1>1, FeishuAssumption DEF TypeOK
<1>7. \A i \in 1 .. Len(queue') :
        \/ i \in 1 .. Len(queue) /\ queue'[i] = queue[i]
        \/ i = Len(queue) + 1 /\ queue'[i] = sender[s].msg
  BY <1>2, <1>4
<1>8. Fitted'
  BY <1>a, <1>1, <1>3, <1>7 DEF Fitted
<1>9. SentOnce'
  <2> SUFFICES ASSUME NEW k \in Tokens
               PROVE  /\ <<"pending", k>> \notin given => ~Made(k)
                      /\ \A i \in 1 .. Len(queue') : Queued(i, k)' =>
                           /\ <<"pending", k>> \in given /\ ~Made(k)
                           /\ \A j \in 1 .. Len(queue') : Queued(j, k)' => j = i
                      /\ \A t \in Senders : Held(t, k)' =>
                           /\ <<"pending", k>> \in given /\ ~Made(k)
                           /\ \A j \in 1 .. Len(queue') : ~Queued(j, k)'
                           /\ \A u \in Senders : Held(u, k)' => u = t
    BY <1>1 DEF SentOnce, Made
  <2>1. \A t \in Senders : Held(t, k)' => Held(t, k) /\ t # s
    BY <1>3 DEF Held
  <2>2. \A i \in 1 .. Len(queue') : Queued(i, k)' =>
          \/ i \in 1 .. Len(queue) /\ Queued(i, k)
          \/ i = Len(queue) + 1 /\ Held(s, k)
    BY <1>1, <1>7 DEF Queued, Held
  <2>3. /\ <<"pending", k>> \notin given => ~Made(k)
        /\ \A i \in 1 .. Len(queue) : Queued(i, k) =>
             /\ <<"pending", k>> \in given /\ ~Made(k)
             /\ \A j \in 1 .. Len(queue) : Queued(j, k) => j = i
        /\ \A t \in Senders : Held(t, k) =>
             /\ <<"pending", k>> \in given /\ ~Made(k)
             /\ \A j \in 1 .. Len(queue) : ~Queued(j, k)
             /\ \A u \in Senders : Held(u, k) => u = t
    BY <1>a DEF SentOnce
  <2> QED BY <2>1, <2>2, <2>3
<1> QED BY <1>1, <1>2, <1>5, <1>6, <1>8, <1>9, RestKept DEF IInv

LEMMA ConnectionSteps ==
  ASSUME IInv, Connect \/ ConnectionEnds
  PROVE  IInv'
<1>a. TypeOK /\ Fitted /\ SentOnce
  BY DEF IInv
<1>1. /\ UNCHANGED <<stateVars, posts, feedVars, replies, dismissed, stray>>
      /\ sent' = sent /\ given' = given
  BY DEF Connect, ConnectionEnds, histVars
<1>2. failures' \in failures .. MaxFailures
  <2>1. failures \in 0 .. MaxFailures /\ MaxFailures \in Nat
    BY <1>a, FeishuAssumption DEF TypeOK
  <2> QED BY <2>1 DEF Connect, ConnectionEnds, Fail
<1>3. /\ ChanTypes' /\ SendersStay /\ queue' = <<>>
      /\ socket' = socket \/ socket' = Emptied
  <2>1. CASE Connect
    <3>1. /\ queue' = <<>> /\ socket' = socket /\ sender' = sender /\ conn' = "up" /\ outbound_tx' = "live"
      BY <2>1 DEF Connect
    <3>2. SendersStay
      BY <3>1 DEF SendersStay
    <3> QED BY <1>a, <3>1, <3>2, FeishuAssumption DEF ChanTypes, TypeOK
  <2>2. CASE ConnectionEnds
    BY <1>a, <2>2, TornDown DEF ConnectionEnds
  <2> QED BY <2>1, <2>2
<1>4. \A k \in Tokens : Made(k)' => Made(k)
  BY <1>1 DEF Made
<1>5. Fitted' /\ SentOnce'
  BY <1>a, <1>1, <1>3, <1>4, OnTheWay
<1>6. sent \in 0 .. MaxSends /\ given \subseteq {"pending", "result"} \X Tokens
  BY <1>a DEF TypeOK
<1> QED BY <1>1, <1>2, <1>3, <1>5, <1>6, RestKept DEF IInv

LEMMA OutboundStep ==
  ASSUME IInv, HandleOutbound
  PROVE  IInv' /\ \A i \in replies : posts'[i].text = posts[i].text
<1>a. TypeOK /\ Fitted /\ SentOnce /\ Forwarded /\ Clicked
  BY DEF IInv
<1>1. PICK r \in Outcomes :
        /\ Handle(Head(queue), r)
        /\ IF r = "ok"
             THEN queue' = Tail(queue) /\ UNCHANGED <<outbound_tx, conn, socket, sender>>
             ELSE TearDown("dead")
  BY Zenon DEF HandleOutbound, Handle
<1>2. /\ queue # <<>> /\ conn = "up" /\ events' = events /\ tries' = tries /\ late' = late
      /\ sent' = sent /\ given' = given
  BY DEF HandleOutbound, feedVars
<1>3. /\ Written
      /\ stray' \subseteq 1 .. Len(posts') /\ dismissed' \subseteq Tokens
      /\ pending_card_messages' \in [Keys -> 0 .. Len(posts')]
      /\ failures' \in failures .. MaxFailures
      /\ Remembered' /\ CardsFollowTokens'
      /\ \A k \in Tokens : Made(k)' => Made(k) \/ Queued(1, k)
      /\ \A i \in 1 .. Len(posts) : posts'[i].card = posts[i].card
  <2>1. PICK m : m = Head(queue)
    OBVIOUS
  <2> QED BY <1>1, <1>2, <2>1, Handled
<1>4. queue \in Seq(Outbound) /\ Len(queue) <= QueueCap /\ Len(queue) \in Nat
  BY <1>a DEF TypeOK
<1>5. /\ ChanTypes' /\ SendersStay
      /\ queue' = <<>> \/ queue' = Tail(queue)
      /\ socket' = socket \/ socket' = Emptied
  <2>1. CASE r = "ok"
    <3>1. queue' = Tail(queue) /\ UNCHANGED <<outbound_tx, conn, socket, sender>>
      BY <1>1, <2>1
    <3>2. Tail(queue) \in Seq(Outbound) /\ Len(Tail(queue)) = Len(queue) - 1
      BY <1>2, <1>4, HeadTailProperties
    <3>3. SendersStay
      BY <3>1 DEF SendersStay
    <3> QED BY <1>a, <1>4, <3>1, <3>2, <3>3, FeishuAssumption DEF ChanTypes, TypeOK
  <2>2. CASE r # "ok"
    BY <1>1, <1>a, <2>2, TornDown
  <2> QED BY <2>1, <2>2
<1>6. queue' # queue
  <2>1. Len(Tail(queue)) = Len(queue) - 1
    BY <1>2, <1>4, HeadTailProperties
  <2> QED BY <1>2, <1>4, <1>5, <2>1
<1>7. Fitted' /\ SentOnce'
  BY <1>a, <1>2, <1>3, <1>5, <1>6, OnTheWay
<1>8. /\ failures \in Nat /\ failures' \in 0 .. MaxFailures /\ failures <= failures'
      /\ failures' \in Nat
  BY <1>a, <1>3, FeishuAssumption DEF TypeOK
<1>9. Forwarded' /\ WireTypes'
  BY <1>a, <1>2, <1>3, <1>5, FeedKept
<1>10. TypeOK'
  BY <1>a, <1>2, <1>3, <1>5, <1>8, <1>9, TypeParts DEF RestTypes, Written, TypeOK
<1>11. Clicked'
  <2>1. \A i \in 1 .. Len(posts) : i \in 1 .. Len(posts')
    BY <1>a, <1>3 DEF Written, TypeOK
  <2> QED BY <1>a, <1>2, <1>3, <2>1 DEF Clicked
<1> QED BY <1>3, <1>7, <1>9, <1>10, <1>11 DEF IInv, Written

(* An event is passed on, or not, and acknowledged, or the connection goes.*)
LEMMA Acknowledged ==
  ASSUME IInv, conn = "up", NEW i \in 1 .. Len(events), socket[i] > 0,
         NEW fwd \in {0, 1}, Acknowledge(i, fwd)
  PROVE  \E acked \in BOOLEAN :
           /\ OnceMore(i, fwd, acked)
           /\ ChanTypes' /\ SendersStay /\ SocketRead(i, acked)
           /\ queue' = queue \/ queue' = <<>>
           /\ ~acked => AckCost = 1
           /\ AckCost \in {0, 1}
<1>a. TypeOK /\ Forwarded
  BY DEF IInv
<1>1. AckCost \in {0, 1}
  BY DEF AckCost
<1>2. CASE PassedOn(i, fwd, TRUE) /\ Read(i) /\ UNCHANGED chanVars
  <2>1. OnceMore(i, fwd, TRUE)
    BY <1>a, <1>2, PassedOnAgain
  <2>2. ChanTypes' /\ SendersStay /\ queue' = queue
    BY <1>a, <1>2 DEF ChanTypes, TypeOK, SendersStay, chanVars
  <2>3. SocketRead(i, TRUE)
    BY <1>2 DEF SocketRead, Read
  <2> QED BY <1>1, <2>1, <2>2, <2>3, Zenon
<1>3. CASE PassedOn(i, fwd, FALSE) /\ TearDown("dead")
  <2>1. OnceMore(i, fwd, FALSE)
    BY <1>a, <1>3, PassedOnAgain
  <2>2. ChanTypes' /\ SendersStay /\ queue' = <<>> /\ SocketRead(i, FALSE)
    BY <1>a, <1>3, TornDown DEF SocketRead
  <2>3. AckCost = 1
    BY <1>3 DEF AckCost, TearDown
  <2> QED BY <1>1, <2>1, <2>2, <2>3, Zenon
<1> QED BY <1>2, <1>3 DEF Acknowledge

LEMMA FrameStep ==
  ASSUME IInv, NEW i, HandleFrame(i)
  PROVE  IInv' /\ \A j \in replies : posts'[j].text = posts[j].text
<1>a. TypeOK /\ Fitted /\ SentOnce /\ Forwarded /\ Clicked /\ DraftsOpen
      /\ Remembered /\ CardsFollowTokens
  BY DEF IInv
<1>b. /\ conn = "up" /\ i \in 1 .. Len(events) /\ socket[i] > 0
      /\ tries' = tries /\ late' = late
      /\ sent' = sent /\ given' = given /\ replies' = replies /\ dismissed' = dismissed
  BY DEF HandleFrame
<1>c. /\ failures \in 0 .. MaxFailures /\ MaxFailures \in Nat
      /\ posts \in Seq(Post) /\ Len(posts) \in Nat /\ stray \subseteq 1 .. Len(posts)
      /\ replies \subseteq 1 .. Len(posts) /\ dismissed \subseteq Tokens
      /\ conversation_state \in [Conversations -> 0 .. Len(posts)]
      /\ pending_card_messages \in [Keys -> 0 .. Len(posts)]
      /\ sent \in 0 .. MaxSends /\ given \subseteq {"pending", "result"} \X Tokens
  BY <1>a, FeishuAssumption DEF TypeOK
<1>1. ASSUME NEW fwd \in {0, 1}, NEW acked \in BOOLEAN, OnceMore(i, fwd, acked),
             ChanTypes', SendersStay, queue' = queue \/ queue' = <<>>,
             failures' \in failures .. MaxFailures, SocketRead(i, acked),
             acked \/ fwd = 0 \/ failures' > failures,
             conversation_state' = conversation_state,
             posts' \in Seq(Post), Len(posts') = Len(posts), stray' \subseteq 1 .. Len(posts),
             pending_card_messages' \in [Keys -> 0 .. Len(posts)],
             \A j \in 1 .. Len(posts) :
               posts'[j].card = posts[j].card /\ posts'[j].text = posts[j].text,
             Remembered', CardsFollowTokens'
      PROVE  IInv' /\ \A j \in replies : posts'[j].text = posts[j].text
  <2>1. failures' \in Nat /\ failures' >= failures /\ failures' \in 0 .. MaxFailures
    BY <1>c, <1>1
  <2>2. Forwarded' /\ WireTypes'
    BY <1>a, <1>b, <1>1, <2>1, ForwardedOn
  <2>3. Clicked'
    BY <1>a, <1>1 DEF Clicked, OnceMore
  <2>4. DraftsOpen'
    BY <1>a, <1>b, <1>1 DEF DraftsOpen
  <2>5. \A k \in Tokens : Made(k)' => Made(k)
    BY <1>1 DEF Made
  <2>6. Fitted' /\ SentOnce'
    BY <1>a, <1>b, <1>1, <2>5, OnTheWay
  <2>7. RestTypes'
    BY <1>b, <1>c, <1>1, <2>1 DEF RestTypes, OnceMore
  <2>8. TypeOK'
    BY <1>1, <2>2, <2>7, TypeParts
  <2> QED BY <1>c, <1>1, <2>2, <2>3, <2>4, <2>6, <2>8 DEF IInv
<1>2. ASSUME UNCHANGED <<stateVars, posts, stray>>, NEW fwd \in {0, 1}, NEW acked \in BOOLEAN,
             OnceMore(i, fwd, acked)
      PROVE  Remembered' /\ CardsFollowTokens'
  <2>1. \A id : HandedOn(id) => HandedOn(id)'
    BY <1>a, <1>b, <1>2, HandedOnStays
  <2>2. CardsFollowTokens'
    BY <1>a, <1>b, <1>2, <2>1 DEF CardsFollowTokens
  <2> QED BY <1>a, <1>2, <2>2 DEF Remembered, stateVars
<1>3. CASE HandleMessage(i)
  <2>1. PICK fwd \in {0, 1} : Acknowledge(i, fwd)
    BY <1>3 DEF HandleMessage
  <2>2. Fail(AckCost) /\ UNCHANGED <<stateVars, posts, stray>>
    BY <1>3 DEF HandleMessage
  <2>3. PICK acked \in BOOLEAN :
          /\ OnceMore(i, fwd, acked)
          /\ ChanTypes' /\ SendersStay /\ SocketRead(i, acked)
          /\ queue' = queue \/ queue' = <<>>
          /\ ~acked => AckCost = 1
          /\ AckCost \in {0, 1}
    BY <1>b, <2>1, Acknowledged
  <2>4. failures' \in failures .. MaxFailures /\ (acked \/ failures' > failures)
    BY <1>c, <2>2, <2>3 DEF Fail
  <2>5. Remembered' /\ CardsFollowTokens'
    BY <1>2, <2>2, <2>3
  <2>6. /\ conversation_state' = conversation_state
        /\ posts' \in Seq(Post) /\ Len(posts') = Len(posts) /\ stray' \subseteq 1 .. Len(posts)
        /\ pending_card_messages' \in [Keys -> 0 .. Len(posts)]
        /\ \A j \in 1 .. Len(posts) :
             posts'[j].card = posts[j].card /\ posts'[j].text = posts[j].text
    BY <1>c, <2>2 DEF stateVars
  <2>7. acked \/ fwd = 0 \/ failures' > failures
    BY <2>4
  <2> QED BY <1>1, <2>3, <2>4, <2>5, <2>6, <2>7, Zenon
<1>4. CASE HandleCardAction(i)
  <2>1. PICK id : id = events[i].post
    OBVIOUS
  <2>2. /\ events[i].kind = "click" /\ conversation_state' = conversation_state
        /\ pending_card_messages' = [pending_card_messages EXCEPT ![posts[id].card] = 0]
        /\ Acknowledge(i, 1)
        /\ \/ /\ posts' = [posts EXCEPT ![id].up = FALSE]
              /\ Fail(AckCost) /\ stray' = stray
           \/ /\ posts[id].up /\ stray' = stray \cup {id}
              /\ Fail(AckCost + 1) /\ posts' = posts
    BY <1>4, <2>1 DEF HandleCardAction
  <2>3. PICK acked \in BOOLEAN :
          /\ OnceMore(i, 1, acked)
          /\ ChanTypes' /\ SendersStay /\ SocketRead(i, acked)
          /\ queue' = queue \/ queue' = <<>>
          /\ ~acked => AckCost = 1
          /\ AckCost \in {0, 1}
    BY <1>b, <2>2, Acknowledged
  <2>4. failures' \in failures .. MaxFailures /\ (acked \/ failures' > failures)
    BY <1>c, <2>2, <2>3 DEF Fail
  <2>5. /\ posts' \in Seq(Post) /\ Len(posts') = Len(posts) /\ stray' \subseteq 1 .. Len(posts)
        /\ pending_card_messages' \in [Keys -> 0 .. Len(posts)]
        /\ \A j \in 1 .. Len(posts) :
             posts'[j].card = posts[j].card /\ posts'[j].text = posts[j].text
        /\ Remembered' /\ CardsFollowTokens'
    BY <1>a, <1>b, <2>1, <2>2, <2>3, CardClicked
  <2>6. conversation_state' = conversation_state /\ 1 \in {0, 1}
    BY <2>2
  <2>7. acked \/ 1 = 0 \/ failures' > failures
    BY <2>4
  <2> QED BY <1>1, <2>3, <2>4, <2>5, <2>6, <2>7, Zenon
<1>5. CASE HandleMalformed(i)
  <2>1. OnceMore(i, 0, FALSE)
    BY <1>a, <1>b, <1>5, PassedOnAgain DEF HandleMalformed
  <2>2. ChanTypes' /\ SendersStay /\ queue' = <<>> /\ SocketRead(i, FALSE)
    BY <1>a, <1>5, TornDown DEF HandleMalformed, SocketRead
  <2>3. UNCHANGED <<stateVars, posts, stray, failures>>
    BY <1>5 DEF HandleMalformed
  <2>4. Remembered' /\ CardsFollowTokens'
    BY <1>2, <2>1, <2>3
  <2>5. failures' \in failures .. MaxFailures
    BY <1>c, <2>3
  <2> QED BY <1>c, <1>1, <2>1, <2>2, <2>3, <2>4, <2>5 DEF stateVars
<1> QED BY <1>3, <1>4, <1>5 DEF HandleFrame

(* Feishu delivers an event: a frame more that waits.                      *)
LEMMA DeliverStep ==
  ASSUME IInv, NEW i \in 1 .. MaxEvents, Deliver(i) \/ DeliverAgain(i)
  PROVE  IInv'
<1>a. TypeOK /\ Forwarded /\ i \in 1 .. Len(events) /\ ~events[i].acked
  BY DEF IInv, Deliver, DeliverAgain, Deliverable
<1>1. /\ UNCHANGED <<chanVars, stateVars, posts, events, histVars, failures>>
      /\ \/ socket[i] = 0 /\ tries[i] < MaxTries /\ late' = late
            /\ socket' = [socket EXCEPT ![i] = 1] /\ tries' = [tries EXCEPT ![i] = tries[i] + 1]
         \/ socket[i] > 0 /\ late[i] < MaxLate /\ tries' = tries
            /\ socket' = [socket EXCEPT ![i] = socket[i] + 1]
            /\ late' = [late EXCEPT ![i] = late[i] + 1]
  BY DEF Deliver, DeliverAgain
<1>2. /\ socket \in [1 .. MaxEvents -> 0 .. 1 + MaxLate]
      /\ tries \in [1 .. MaxEvents -> 0 .. MaxTries]
      /\ late \in [1 .. MaxEvents -> 0 .. MaxLate]
  BY <1>a DEF TypeOK
<1>3. /\ socket[i] \in Nat /\ tries[i] \in Nat /\ late[i] \in Nat
      /\ events[i].forwarded \in Nat /\ failures \in Nat
      /\ Covered(events[i].forwarded, socket[i], events[i].acked, tries[i], late[i], failures)
  BY <1>a, WireOf, Bounds
<1>c. /\ tries[i] \in 0 .. MaxTries /\ late[i] \in 0 .. MaxLate
      /\ events[i].acked \in BOOLEAN
  BY <1>a, WireOf
<1>4. socket' \in [1 .. MaxEvents -> 0 .. 1 + MaxLate]
  <2>1. late[i] < MaxLate => socket[i] + 1 \in 0 .. 1 + MaxLate
    BY <1>3, <1>c, Bounds, CoveredBounds
  <2>2. 1 \in 0 .. 1 + MaxLate
    BY Bounds
  <2>3. CASE socket' = [socket EXCEPT ![i] = 1]
    BY <1>2, <2>2, <2>3
  <2>4. CASE late[i] < MaxLate /\ socket' = [socket EXCEPT ![i] = socket[i] + 1]
    BY <1>2, <2>1, <2>4
  <2> QED BY <1>1, <2>3, <2>4
<1>5. WireTypes'
  <2>1. tries[i] < MaxTries => tries[i] + 1 \in 0 .. MaxTries
    BY <1>c, Bounds
  <2>2. tries' \in [1 .. MaxEvents -> 0 .. MaxTries]
    <3>1. CASE tries' = tries
      BY <1>2, <3>1
    <3>2. CASE tries[i] < MaxTries /\ tries' = [tries EXCEPT ![i] = tries[i] + 1]
      BY <1>2, <2>1, <3>2
    <3> QED BY <1>1, <3>1, <3>2
  <2>3. late[i] < MaxLate => late[i] + 1 \in 0 .. MaxLate
    BY <1>c, Bounds
  <2>4. late' \in [1 .. MaxEvents -> 0 .. MaxLate]
    <3>1. CASE late' = late
      BY <1>2, <3>1
    <3>2. CASE late[i] < MaxLate /\ late' = [late EXCEPT ![i] = late[i] + 1]
      BY <1>2, <2>3, <3>2
    <3> QED BY <1>1, <3>1, <3>2
  <2> QED BY <1>4, <2>2, <2>4 DEF WireTypes
<1>6. /\ events' = events /\ failures' = failures /\ posts' = posts
      /\ UNCHANGED chanVars /\ UNCHANGED stateVars /\ UNCHANGED histVars
  BY <1>1
<1>7. \A j \in 1 .. MaxEvents : j # i =>
        socket'[j] = socket[j] /\ tries'[j] = tries[j] /\ late'[j] = late[j]
  BY <1>1, <1>2
<1>8. Covered(events[i].forwarded, socket'[i], events[i].acked, tries'[i], late'[i], failures)
  <2>a. /\ socket[i] = 0 => Covered(events[i].forwarded, 1, FALSE, tries[i] + 1, late[i], failures)
        /\ socket[i] > 0 =>
             Covered(events[i].forwarded, socket[i] + 1, FALSE, tries[i], late[i] + 1, failures)
    <3>1. events[i].acked = FALSE
      BY <1>a, <1>c
    <3> QED BY <1>3, <3>1, CoveredDelivered
  <2>b. events[i].acked = FALSE
    BY <1>a, <1>c
  <2>1. CASE /\ socket[i] = 0 /\ late' = late
             /\ socket' = [socket EXCEPT ![i] = 1] /\ tries' = [tries EXCEPT ![i] = tries[i] + 1]
    <3>1. socket'[i] = 1 /\ tries'[i] = tries[i] + 1 /\ late'[i] = late[i]
      BY <1>2, <2>1
    <3> QED BY <2>a, <2>b, <2>1, <3>1
  <2>2. CASE /\ socket[i] > 0 /\ tries' = tries
             /\ socket' = [socket EXCEPT ![i] = socket[i] + 1]
             /\ late' = [late EXCEPT ![i] = late[i] + 1]
    <3>1. socket'[i] = socket[i] + 1 /\ tries'[i] = tries[i] /\ late'[i] = late[i] + 1
      BY <1>2, <2>2
    <3> QED BY <2>a, <2>b, <2>2, <3>1
  <2> QED BY <1>1, <2>1, <2>2
<1>9. Forwarded'
  <2>1. \A j \in 1 .. MaxEvents : j > Len(events) => socket'[j] = 0
    BY <1>a, <1>7 DEF Forwarded
  <2>2. ASSUME NEW j \in 1 .. Len(events)
        PROVE  Covered(events[j].forwarded, socket'[j], events[j].acked, tries'[j], late'[j], failures)
    <3>1. CASE j = i
      BY <1>8, <3>1
    <3>2. CASE j # i
      BY <1>a, <1>7, <3>2, WireOf
    <3> QED BY <3>1, <3>2
  <2> QED BY <1>a, <1>6, <2>1, <2>2 DEF Forwarded
<1>10. TypeOK'
  <2>1. ChanTypes' /\ RestTypes'
    BY <1>a, <1>6 DEF TypeOK, ChanTypes, RestTypes, chanVars, stateVars, histVars
  <2> QED BY <1>5, <2>1, TypeParts
<1> USE <1>6 DEF chanVars, stateVars, histVars
<1>11. Fitted' /\ DraftsOpen' /\ Clicked' /\ Remembered'
  BY DEF IInv, Fitted, DraftsOpen, Clicked, Remembered
<1>12. SentOnce'
  BY DEF IInv, SentOnce, Made, Queued, Held
<1>13. CardsFollowTokens'
  BY DEF IInv, CardsFollowTokens, HandedOn
<1> QED BY <1>9, <1>10, <1>11, <1>12, <1>13 DEF IInv


LEMMA UserStep ==
  ASSUME IInv, UserWrites \/ UserClicks
  PROVE  IInv'
<1>a. TypeOK /\ Forwarded /\ Clicked /\ CardsFollowTokens
  BY DEF IInv
<1>1. PICK kind \in {"text", "click", "ignored", "malformed"}, id \in Nat :
        /\ Happens(kind, id)
        /\ kind = "click" => id \in 1 .. Len(posts) /\ posts[id].card \in Keys
  <2>1. CASE UserWrites
    BY <2>1 DEF UserWrites
  <2>2. CASE UserClicks
    <3>1. PICK id \in 1 .. Len(posts) : posts[id].card # NoCard /\ Happens("click", id)
      BY <2>2 DEF UserClicks
    <3>2. posts[id].card \in Keys /\ id \in Nat
      BY <1>a, <3>1, CardOfPost DEF TypeOK
    <3> QED BY <3>1, <3>2
  <2> QED BY <2>1, <2>2
<1> DEFINE e == [kind |-> kind, post |-> id, forwarded |-> 0, acked |-> FALSE]
<1>2. e \in Event /\ e.kind = kind /\ e.post = id /\ e.forwarded = 0 /\ ~e.acked
  BY FeishuAssumption DEF Event
<1>3. /\ events' = Append(events, e) /\ Len(events) < MaxEvents
      /\ UNCHANGED <<chanVars, socket, stateVars, posts, tries, late, histVars, failures>>
  BY <1>1 DEF Happens
<1> HIDE DEF e
<1>4. /\ events' \in Seq(Event) /\ Len(events') = Len(events) + 1
      /\ events'[Len(events) + 1] = e /\ Len(events) \in Nat
      /\ \A i \in 1 .. Len(events) : events'[i] = events[i] /\ i \in 1 .. Len(events')
      /\ \A i \in 1 .. Len(events') : i \in 1 .. Len(events) \/ i = Len(events) + 1
  BY <1>a, <1>2, <1>3 DEF TypeOK
<1> USE <1>3 DEF chanVars, stateVars, histVars
<1>5. TypeOK'
  BY <1>a, <1>4 DEF TypeOK
<1>6. Fitted' /\ DraftsOpen' /\ Remembered'
  BY DEF IInv, Fitted, DraftsOpen, Remembered
<1>7. SentOnce'
  <2>1. queue' = queue /\ sender' = sender /\ posts' = posts /\ given' = given /\ SentOnce
    BY DEF IInv
  <2>2. ASSUME NEW k
        PROVE  /\ Made(k)' = Made(k) /\ \A i : Queued(i, k)' = Queued(i, k)
               /\ \A s : Held(s, k)' = Held(s, k)
    BY <2>1 DEF Made, Queued, Held
  <2> QED BY <2>1, <2>2, Zenon DEF SentOnce
<1>8. Clicked'
  BY <1>a, <1>1, <1>2, <1>4 DEF Clicked
<1>9. Forwarded'
  <2>1. failures \in Nat /\ Len(events) + 1 \in 1 .. MaxEvents
    BY <1>a, <1>3, <1>4, Bounds DEF TypeOK
  <2>2. socket[Len(events) + 1] = 0
    BY <1>a, <1>4, <2>1 DEF Forwarded
  <2>3. \A j \in 1 .. MaxEvents : j > Len(events') => socket[j] = 0
    BY <1>a, <1>4 DEF Forwarded
  <2>4. tries[Len(events) + 1] \in Nat /\ late[Len(events) + 1] \in Nat
    BY <1>a, <2>1, Bounds DEF TypeOK
  <2>5. Covered(0, 0, e.acked, tries[Len(events) + 1], late[Len(events) + 1], failures)
    BY <2>1, <2>4 DEF Covered
  <2>6. \A i \in 1 .. Len(events') :
          Covered(events'[i].forwarded, socket[i], events'[i].acked, tries[i], late[i], failures)
    BY <1>a, <1>2, <1>4, <2>2, <2>5 DEF Forwarded
  <2> QED BY <1>3, <1>4, <2>1, <2>3, <2>6 DEF Forwarded
<1>10. CardsFollowTokens'
  <2>1. \A j : HandedOn(j) => HandedOn(j)'
    BY <1>4 DEF HandedOn
  <2> QED BY <1>a, <2>1 DEF CardsFollowTokens
<1> QED BY <1>5, <1>6, <1>7, <1>8, <1>9, <1>10 DEF IInv

-----------------------------------------------------------------------------
LEMMA NextStep ==
  IInv /\ [Next]_vars => IInv' /\ \A i \in replies : posts'[i].text = posts[i].text
<1> SUFFICES ASSUME IInv, [Next]_vars
             PROVE  IInv' /\ \A i \in replies : posts'[i].text = posts[i].text
  OBVIOUS
<1>1. ASSUME NEW s \in Senders, NEW m \in Outbound, CloneSlot(s, m)
      PROVE  IInv' /\ \A i \in replies : posts'[i].text = posts[i].text
  BY <1>1, CloneStep DEF CloneSlot
<1>2. ASSUME NEW s \in Senders, Push(s)
      PROVE  IInv' /\ \A i \in replies : posts'[i].text = posts[i].text
  BY <1>2, PushStep DEF Push
<1>3. CASE Connect \/ ConnectionEnds
  BY <1>3, ConnectionSteps DEF Connect, ConnectionEnds
<1>4. CASE HandleOutbound
  BY <1>4, OutboundStep
<1>5. ASSUME NEW i \in 1 .. MaxEvents, Deliver(i) \/ DeliverAgain(i) \/ HandleFrame(i)
      PROVE  IInv' /\ \A j \in replies : posts'[j].text = posts[j].text
  <2>1. CASE Deliver(i) \/ DeliverAgain(i)
    BY <2>1, DeliverStep DEF Deliver, DeliverAgain
  <2>2. CASE HandleFrame(i)
    BY <2>2, FrameStep
  <2> QED BY <1>5, <2>1, <2>2
<1>6. CASE UserWrites \/ UserClicks
  BY <1>6, UserStep DEF UserWrites, UserClicks, Happens
<1>7. CASE UNCHANGED vars
  <2> USE <1>7 DEF vars, chanVars, stateVars, feedVars, histVars
  <2>1. TypeOK' /\ Fitted' /\ DraftsOpen' /\ Forwarded' /\ Clicked'
    BY DEF IInv, TypeOK, Fitted, DraftsOpen, Forwarded, Clicked
  <2>2. SentOnce' /\ Remembered' /\ CardsFollowTokens'
    BY DEF IInv, SentOnce, Made, Queued, Held, Remembered, CardsFollowTokens, HandedOn
  <2> QED BY <2>1, <2>2 DEF IInv
<1> QED BY <1>1, <1>2, <1>3, <1>4, <1>5, <1>6, <1>7 DEF Next

LEMMA Invariance == Spec => []IInv
BY InitHolds, NextStep, PTL DEF Spec

(* The channel, the drafts, the cards and the events are well formed, and  *)
(* the outbound queue never holds more than its capacity.                  *)
THEOREM TypeCorrect == Spec => []TypeOK
<1>1. IInv => TypeOK
  BY DEF IInv
<1> QED BY <1>1, Invariance, PTL

(* An event is handed on once for its first delivery, and again at most    *)
(* once for each failure of a call or a connection and once for each       *)
(* delivery that came while an earlier one was waiting for the loop: a     *)
(* frame is handed on before it is acknowledged, and no record is kept     *)
(* (mod.rs:316).                                                           *)
THEOREM RepeatsCaused == Spec => []RepeatsHaveCause
<1>1. IInv => RepeatsHaveCause
  <2> SUFFICES ASSUME IInv, NEW i \in 1 .. Len(events)
               PROVE  events[i].forwarded <= 1 + failures + late[i]
    BY DEF RepeatsHaveCause
  <2>1. TypeOK /\ Forwarded
    BY DEF IInv
  <2> QED BY <2>1, WireOf, Bounds, CoveredBounds
<1> QED BY <1>1, Invariance, PTL

(* Cards leave with the command of their button or with their token, and a *)
(* token that is dismissed takes every card the loop knows of.             *)
THEOREM CardsFollow == Spec => []CardsFollowTokens
<1>1. IInv => CardsFollowTokens
  BY DEF IInv
<1> QED BY <1>1, Invariance, PTL

(* A completed agent message is never rewritten, whatever is sent to its   *)
(* conversation later and whichever calls fail.                            *)
THEOREM RepliesNeverRewritten == Spec => RepliesStand
<1>1. IInv /\ [Next]_vars => [\A i \in replies : posts'[i].text = posts[i].text]_vars
  BY NextStep
<1> QED BY <1>1, Invariance, PTL DEF Spec, RepliesStand
=============================================================================
