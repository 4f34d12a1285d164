------------------------ MODULE ConnectionSlotProofs ------------------------
(***************************************************************************)
(* Proofs about ConnectionSlot, for any number of calls.                   *)
(***************************************************************************)
EXTENDS ConnectionSlot, TLAPS

(* TypeOK holds in every behaviour of ensure_connection.                   *)
THEOREM TypeCorrect == Spec => []TypeOK
<1>1. Init => TypeOK
  BY DEF Init, TypeOK
<1>2. TypeOK /\ [Next]_vars => TypeOK'
  <2> SUFFICES ASSUME TypeOK, [Next]_vars PROVE TypeOK'
    OBVIOUS
  <2> USE DEF TypeOK, Goto
  <2>1. CASE UNCHANGED vars
    BY <2>1 DEF vars
  <2>2. ASSUME NEW c \in Calls, Find(c) PROVE TypeOK'
    BY <2>2 DEF Find
  <2>3. ASSUME NEW c \in Calls, Miss(c) PROVE TypeOK'
    BY <2>3 DEF Miss
  <2>4. ASSUME NEW c \in Calls, SpawnSucceeds(c) PROVE TypeOK'
    BY <2>4 DEF SpawnSucceeds
  <2>5. ASSUME NEW c \in Calls, SpawnFails(c) PROVE TypeOK'
    BY <2>5 DEF SpawnFails
  <2>6. ASSUME NEW c \in Calls, Install(c) PROVE TypeOK'
    BY <2>6 DEF Install
  <2>7. ASSUME NEW c \in Calls, Break(c) PROVE TypeOK'
    BY <2>7 DEF Break
  <2> QED
    BY <2>1, <2>2, <2>3, <2>4, <2>5, <2>6, <2>7 DEF Next, Step
<1> QED
  BY <1>1, <1>2, PTL DEF Spec

-----------------------------------------------------------------------------
(* What a call has returned is what the slot holds, for good: the slot is  *)
(* filled once and never emptied.                                          *)
ReturnedIsInSlot ==
  \A c \in Calls : pc[c] = "ok" => slot # Empty /\ got[c] = slot

(* However many calls spawn a connection, those that succeed all return    *)
(* the same one (ensure_connection's second look at the slot).             *)
THEOREM OneConnectionHolds == Spec => []OneConnection
<1>1. Init => ReturnedIsInSlot
  BY DEF Init, ReturnedIsInSlot
<1>2. TypeOK /\ ReturnedIsInSlot /\ [Next]_vars => ReturnedIsInSlot'
  <2> SUFFICES ASSUME TypeOK, ReturnedIsInSlot, [Next]_vars
               PROVE  ReturnedIsInSlot'
    OBVIOUS
  <2> USE DEF TypeOK, ReturnedIsInSlot, Goto
  <2>1. CASE UNCHANGED vars
    BY <2>1 DEF vars
  <2>2. ASSUME NEW c \in Calls, Find(c) PROVE ReturnedIsInSlot'
    BY <2>2 DEF Find
  <2>3. ASSUME NEW c \in Calls, Miss(c) PROVE ReturnedIsInSlot'
    BY <2>3 DEF Miss
  <2>4. ASSUME NEW c \in Calls, SpawnSucceeds(c) PROVE ReturnedIsInSlot'
    BY <2>4 DEF SpawnSucceeds
  <2>5. ASSUME NEW c \in Calls, SpawnFails(c) PROVE ReturnedIsInSlot'
    BY <2>5 DEF SpawnFails
  <2>6. ASSUME NEW c \in Calls, Install(c) PROVE ReturnedIsInSlot'
    <3>1. CASE slot = Empty
      BY <2>6, <3>1, ConnectionSlotAssumption DEF Install
    <3>2. CASE slot # Empty
      BY <2>6, <3>2 DEF Install
    <3> QED
      BY <3>1, <3>2
  <2>7. ASSUME NEW c \in Calls, Break(c) PROVE ReturnedIsInSlot'
    BY <2>7 DEF Break
  <2> QED
    BY <2>1, <2>2, <2>3, <2>4, <2>5, <2>6, <2>7 DEF Next, Step
<1>3. ReturnedIsInSlot => OneConnection
  BY DEF ReturnedIsInSlot, OneConnection
<1> QED
  BY <1>1, <1>2, <1>3, TypeCorrect, PTL DEF Spec
=============================================================================
