------------------------- MODULE SessionStoreProofs -------------------------
(***************************************************************************)
(* Proofs about SessionStore, for any number of upserts and of crashes.    *)
(***************************************************************************)
EXTENDS SessionStore, TLAPS

(* TypeOK holds in every behaviour of the store and its process.           *)
THEOREM TypeCorrect == Spec => []TypeOK
<1>1. Init => TypeOK
  <2> SUFFICES ASSUME Init PROVE TypeOK
    OBVIOUS
  <2>1. file \in File
    BY DEF Init, File, FileIs
  <2>2. crashes \in 0 .. MaxCrashes
    BY SessionStoreAssumption DEF Init
  <2> QED
    BY <2>1, <2>2 DEF Init, TypeOK
<1>2. TypeOK /\ [Next]_vars => TypeOK'
  <2> SUFFICES ASSUME TypeOK, [Next]_vars PROVE TypeOK'
    OBVIOUS
  <2> USE SessionStoreAssumption DEF TypeOK, Goto, Persisting, File, FileIs
  <2>1. CASE UNCHANGED vars
    BY <2>1 DEF vars
  <2>2. ASSUME NEW u \in Upserts, Insert(u) PROVE TypeOK'
    BY <2>2 DEF Insert, OtherPersists
  <2>3. ASSUME NEW u \in Upserts, CreateDir(u) PROVE TypeOK'
    BY <2>3 DEF CreateDir
  <2>4. ASSUME NEW u \in Upserts, Open(u) PROVE TypeOK'
    BY <2>4 DEF Open
  <2>5. ASSUME NEW u \in Upserts, Write(u) PROVE TypeOK'
    BY <2>5 DEF Write
  <2>6. ASSUME NEW u \in Upserts, PersistFails(u) PROVE TypeOK'
    BY <2>6 DEF PersistFails
  <2>7. CASE Crash
    BY <2>7 DEF Crash
  <2>8. CASE Load
    BY <2>8 DEF Load
  <2> QED
    BY <2>1, <2>2, <2>3, <2>4, <2>5, <2>6, <2>7, <2>8 DEF Next, Step
<1> QED
  BY <1>1, <1>2, PTL DEF Spec

-----------------------------------------------------------------------------
(* The strengthening.  No version is ahead of the upserts made; and while  *)
(* no two upserts have collided and no persist has failed or died, one     *)
(* upsert at most persists, with memory as its snapshot, the file is empty *)
(* exactly while it writes, and a quiet file is what memory holds and has  *)
(* everything that was saved.                                              *)
Bounded ==
  /\ sessions <= inserted /\ saved <= inserted /\ file.version <= inserted
  /\ \A u \in Upserts : snapshot[u] <= inserted

Undisturbed == ~collided /\ ~broken
Readable == file.content \in {"absent", "snapshot"}

OnePersists ==
  /\ \A u, w \in Upserts : pc[u] \in Persisting /\ pc[w] \in Persisting => u = w
  /\ \A u \in Upserts : pc[u] \in Persisting => process = "up" /\ snapshot[u] = sessions
  /\ \A u \in Upserts : pc[u] = "write" => file.content = "empty"
  /\ Readable \/ \E u \in Upserts : pc[u] = "write"

FileFollows ==
  /\ process = "up" => sessions >= saved
  /\ Quiet => file.version >= saved
  /\ Quiet /\ process = "up" => file.version = sessions

StoreInv == Bounded /\ (Undisturbed => OnePersists /\ FileFollows)

(* The invariant holds in every behaviour of the store.                    *)
LEMMA StoreInvHolds == Spec => []StoreInv
<1>1. Init => StoreInv
  BY DEF Init, StoreInv, Bounded, Undisturbed, OnePersists, FileFollows, Readable,
         Quiet, Persisting, FileIs
<1>2. TypeOK /\ StoreInv /\ [Next]_vars => StoreInv'
  <2> SUFFICES ASSUME TypeOK, StoreInv, [Next]_vars PROVE StoreInv'
    OBVIOUS
  <2> USE DEF TypeOK, StoreInv, Goto, Persisting, File, FileIs
  <2>1. CASE UNCHANGED vars
    BY <2>1 DEF vars, Bounded, Undisturbed, OnePersists, FileFollows, Readable, Quiet
  <2>2. ASSUME NEW u \in Upserts, Insert(u) PROVE StoreInv'
    <3>1. Bounded'
      BY <2>2 DEF Insert, Bounded
    <3>2. ASSUME Undisturbed' PROVE OnePersists'
      BY <2>2, <3>2 DEF Insert, OtherPersists, OnePersists, Undisturbed, Readable
    <3>3. ASSUME Undisturbed' PROVE FileFollows'
      BY <2>2, <3>3 DEF Insert, OtherPersists, FileFollows, Undisturbed, Quiet, Bounded
    <3> QED
      BY <3>1, <3>2, <3>3
  <2>3. ASSUME NEW u \in Upserts, CreateDir(u) PROVE StoreInv'
    BY <2>3 DEF CreateDir, Bounded, Undisturbed, OnePersists, FileFollows, Readable, Quiet
  <2>4. ASSUME NEW u \in Upserts, Open(u) PROVE StoreInv'
    BY <2>4 DEF Open, Bounded, Undisturbed, OnePersists, FileFollows, Readable, Quiet
  <2>5. ASSUME NEW u \in Upserts, Write(u) PROVE StoreInv'
    <3>1. Bounded'
      BY <2>5 DEF Write, Bounded
    <3>2. ASSUME Undisturbed' PROVE Undisturbed /\ file' = FileIs("snapshot", sessions)
      BY <2>5, <3>2 DEF Write, Undisturbed, OnePersists
    <3>3. ASSUME Undisturbed' PROVE OnePersists'
      BY <2>5, <3>2, <3>3 DEF Write, OnePersists, Readable
    <3>4. ASSUME Undisturbed' PROVE FileFollows'
      BY <2>5, <3>2, <3>4 DEF Write, OnePersists, FileFollows, Quiet
    <3> QED
      BY <3>1, <3>3, <3>4
  <2>6. ASSUME NEW u \in Upserts, PersistFails(u) PROVE StoreInv'
    BY <2>6 DEF PersistFails, Bounded, Undisturbed
  <2>7. CASE Crash
    BY <2>7 DEF Crash, Bounded, Undisturbed, OnePersists, FileFollows, Readable, Quiet
  <2>8. CASE Load
    BY <2>8 DEF Load, Bounded, Undisturbed, OnePersists, FileFollows, Readable, Quiet,
               Unreadable
  <2> QED
    BY <2>1, <2>2, <2>3, <2>4, <2>5, <2>6, <2>7, <2>8 DEF Next, Step
<1> QED
  BY <1>1, <1>2, TypeCorrect, PTL DEF Spec

-----------------------------------------------------------------------------
(* A quiet store's file is its memory, unless two upserts persisted at     *)
(* once or a persist failed or died (SessionStore::upsert and persist).    *)
THEOREM FileMatches == Spec => []FileMatchesMemory
<1>1. StoreInv => FileMatchesMemory
  BY DEF StoreInv, FileMatchesMemory, Undisturbed, OnePersists, FileFollows, Readable,
         Quiet, Persisting
<1> QED
  BY <1>1, StoreInvHolds, PTL

(* The file fails to parse only in the middle of a write, under the same   *)
(* proviso (what SessionStore::load meets at the next start).              *)
THEOREM UnreadableMidWrite == Spec => []UnreadableOnlyMidWrite
<1>1. StoreInv => UnreadableOnlyMidWrite
  BY DEF StoreInv, UnreadableOnlyMidWrite, Undisturbed, OnePersists, Readable, Unreadable
<1> QED
  BY <1>1, StoreInvHolds, PTL

(* A restart never brings back less than upsert has reported as saved.     *)
THEOREM SavedRestored == Spec => []SavedIsRestored
<1>1. StoreInv => SavedIsRestored
  BY DEF StoreInv, SavedIsRestored, Undisturbed, FileFollows
<1> QED
  BY <1>1, StoreInvHolds, PTL
=============================================================================
