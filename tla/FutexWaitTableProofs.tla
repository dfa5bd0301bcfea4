------------------------ MODULE FutexWaitTableProofs ------------------------
(***************************************************************************)
(* TableInv is an inductive invariant of FutexWaitTable, for any set of    *)
(* threads, addresses, words and entries.                                  *)
(***************************************************************************)
EXTENDS FutexWaitTable, FiniteSetTheorems, TLAPS

\* The sets of threads that the counters count are finite, and one thread
\* entering or leaving changes their size by one.
LEMMA ThreadSets ==
    /\ \A S \in SUBSET Thread : IsFiniteSet(S) /\ Cardinality(S) \in Nat
    /\ \A S \in SUBSET Thread : Cardinality(S) = 0 <=> S = {}
    /\ \A S \in SUBSET Thread, t \in Thread :
         t \notin S => Cardinality(S \cup {t}) = Cardinality(S) + 1
    /\ \A S \in SUBSET Thread, t \in Thread :
         t \in S => Cardinality(S \ {t}) = Cardinality(S) - 1 /\ Cardinality(S) > 0
<1>1. ASSUME NEW S \in SUBSET Thread
      PROVE IsFiniteSet(S) /\ Cardinality(S) \in Nat
  BY FS_Subset, FS_CardinalityType, FutexAssumption, Zenon
<1>2. \A S \in SUBSET Thread : Cardinality(S) = 0 <=> S = {}
  BY <1>1, FS_EmptySet, Zenon
<1>3. ASSUME NEW S \in SUBSET Thread, NEW t \in Thread, t \notin S
      PROVE Cardinality(S \cup {t}) = Cardinality(S) + 1
  BY <1>1, <1>3, FS_AddElement, Zenon
<1>4. ASSUME NEW S \in SUBSET Thread, NEW t \in Thread, t \in S
      PROVE Cardinality(S \ {t}) = Cardinality(S) - 1 /\ Cardinality(S) > 0
  <2>1. Cardinality(S \ {t}) = Cardinality(S) - 1
    BY <1>1, <1>4, FS_RemoveElement, Zenon
  <2>2. Cardinality(S) \in Nat /\ Cardinality(S) # 0
    BY <1>1, <1>2, <1>4, Zenon
  <2> QED BY <2>1, <2>2
<1> QED BY <1>1, <1>2, <1>3, <1>4, Zenon

\* What a decrement needs.
LEMMA PredecessorNat == \A n \in Nat : n > 0 => n - 1 \in Nat
OBVIOUS

\* The empty table satisfies the invariant.
LEMMA Initially == Init => TableInv
<1> SUFFICES ASSUME Init PROVE TableInv
  BY Zenon
<1> USE DEF Init
<1>1. TypeOK
  BY Zenon DEF TypeOK, PC, Status
<1>2. HoldsEntry /\ StopImpliesFlag
  BY Zenon DEF HoldsEntry, StopImpliesFlag, WaitPC, WakePC, WaitQueued, StopPC
<1>3. MapConsistent /\ MutexHeld
  BY FutexAssumption, Zenon DEF MapConsistent, MutexHeld, WaitPC, WakePC, WaitQueued, Locked
<1>4. UsersExact /\ OneQueuePerAddress
  BY Zenon DEF UsersExact, OneQueuePerAddress, WaitPC, WakePC, WaitQueued
<1>5. WaitersExact
  <2> SUFFICES ASSUME NEW e \in EntryId PROVE waiters[e] = Cardinality(Queued(e))
    BY Zenon DEF WaitersExact
  <2>1. Queued(e) = {}
    BY Zenon DEF Queued, WaitQueued
  <2> QED BY <2>1, FS_EmptySet, Zenon
<1>6. CreditsCovered /\ NoCreditUnderflow
  BY DEF CreditsCovered, NoCreditUnderflow
<1> QED BY <1>1, <1>2, <1>3, <1>4, <1>5, <1>6, Zenon DEF TableInv

-----------------------------------------------------------------------------
\* The load of shutting_down under the entry mutex keeps the invariant.
LEMMA WaitCheckStep ==
    ASSUME TableInv, NEW t \in Thread, WaitCheck(t)
    PROVE  TableInv'
<1> USE DEF TableInv, WaitCheck, Goto, Leave, Unlock
<1>0. ent[t] \in EntryId /\ pc[t] = "w_check"
  BY Zenon DEF HoldsEntry, WaitPC
<1>1. TypeOK'
  BY <1>0 DEF TypeOK, PC, WaitPC, WaitQueued, Status
<1>2. HoldsEntry' /\ StopImpliesFlag' /\ MapConsistent' /\ MutexHeld'
  BY <1>0, FutexAssumption DEF TypeOK, HoldsEntry, StopImpliesFlag, MapConsistent, MutexHeld, WaitPC, WakePC, WaitQueued, StopPC, Locked
<1>3. \A e \in EntryId : Users(e)' = Users(e)
  BY <1>0 DEF TypeOK, Users, WaitPC, WakePC, WaitQueued
<1>4. UsersExact' /\ OneQueuePerAddress'
  BY <1>3, <1>0 DEF TypeOK, UsersExact, OneQueuePerAddress, WaitPC, WakePC, WaitQueued
<1>5. WaitersExact'
  <2> SUFFICES ASSUME NEW e \in EntryId PROVE waiters'[e] = Cardinality(Queued(e)')
    BY Zenon DEF WaitersExact
  <2>1. CASE ~shutting_down /\ e = ent[t]
    <3>1. Queued(e)' = Queued(e) \cup {t} /\ t \notin Queued(e)
      BY <2>1, <1>0 DEF TypeOK, Queued, WaitQueued
    <3>2. Queued(e) \in SUBSET Thread
      BY Zenon DEF Queued
    <3> QED BY <2>1, <3>1, <3>2, ThreadSets DEF WaitersExact, TypeOK
  <2>2. CASE shutting_down \/ e # ent[t]
    <3>1. Queued(e)' = Queued(e)
      BY <2>2, <1>0, Zenon DEF TypeOK, Queued, WaitQueued
    <3> QED BY <2>2, <3>1, <1>0, Zenon DEF WaitersExact, TypeOK
  <2> QED BY <2>1, <2>2, Zenon
<1>6. CreditsCovered' /\ NoCreditUnderflow'
  BY <1>0 DEF TypeOK, CreditsCovered, NoCreditUnderflow
<1> QED BY <1>1, <1>2, <1>4, <1>5, <1>6, Zenon

\* Steps that move one thread along and leave every counter alone.

\* Reading the futex word under the entry mutex keeps the invariant.
LEMMA WaitReadStep ==
    ASSUME TableInv, NEW t \in Thread, WaitRead(t)
    PROVE  TableInv'
<1> USE DEF TableInv, WaitRead, Goto, Leave
<1>0. ent[t] \in EntryId /\ pc[t] = "w_lock"
  BY Zenon DEF HoldsEntry, WaitPC, WakePC, WaitQueued
<1>1. TypeOK'
  BY <1>0 DEF TypeOK, PC, StopPC, Status, WaitPC, WakePC, WaitQueued
<1>2. HoldsEntry' /\ StopImpliesFlag' /\ MapConsistent'
  BY <1>0 DEF TypeOK, HoldsEntry, StopImpliesFlag, MapConsistent, StopPC, WaitPC, WakePC, WaitQueued
<1>3. MutexHeld'
  BY <1>0, FutexAssumption DEF TypeOK, MutexHeld, Locked
<1>4. \A e \in EntryId : Users(e)' = Users(e) /\ Queued(e)' = Queued(e)
  BY <1>0 DEF TypeOK, Users, Queued, WaitPC, WakePC, WaitQueued
<1>5. UsersExact' /\ OneQueuePerAddress' /\ WaitersExact'
  BY <1>0, <1>4 DEF TypeOK, UsersExact, OneQueuePerAddress, WaitersExact, WaitPC, WakePC, WaitQueued
<1>6. CreditsCovered' /\ NoCreditUnderflow'
  BY <1>0 DEF TypeOK, CreditsCovered, NoCreditUnderflow
<1> QED BY <1>1, <1>2, <1>3, <1>5, <1>6, Zenon

\* Evaluating `ready` keeps the invariant.
LEMMA WaitPredicateStep ==
    ASSUME TableInv, NEW t \in Thread, WaitPredicate(t)
    PROVE  TableInv'
<1> USE DEF TableInv, WaitPredicate, Goto, shared
<1>0. ent[t] \in EntryId /\ pc[t] = "w_pred"
  BY Zenon DEF HoldsEntry, WaitPC, WakePC, WaitQueued
<1>1. TypeOK'
  BY <1>0, Zenon DEF TypeOK, PC, StopPC, Status, WaitPC, WakePC, WaitQueued, Ready
<1>2. HoldsEntry' /\ StopImpliesFlag' /\ MapConsistent'
  BY <1>0 DEF TypeOK, HoldsEntry, StopImpliesFlag, MapConsistent, StopPC, WaitPC, WakePC, WaitQueued, Ready
<1>3. MutexHeld'
  BY <1>0, FutexAssumption DEF TypeOK, MutexHeld, Locked, Ready
<1>4. \A e \in EntryId : Users(e)' = Users(e) /\ Queued(e)' = Queued(e)
  BY <1>0 DEF TypeOK, Users, Queued, WaitPC, WakePC, WaitQueued, Ready
<1>5. UsersExact' /\ OneQueuePerAddress' /\ WaitersExact'
  BY <1>0, <1>4 DEF TypeOK, UsersExact, OneQueuePerAddress, WaitersExact, WaitPC, WakePC, WaitQueued, Ready
<1>6. CreditsCovered' /\ NoCreditUnderflow'
  BY <1>0 DEF TypeOK, CreditsCovered, NoCreditUnderflow, Ready
<1> QED BY <1>1, <1>2, <1>3, <1>5, <1>6, Zenon

\* Going to sleep on the condition variable keeps the invariant.
LEMMA WaitBlockStep ==
    ASSUME TableInv, NEW t \in Thread, WaitBlock(t)
    PROVE  TableInv'
<1> USE DEF TableInv, WaitBlock, Goto, Unlock
<1>0. ent[t] \in EntryId /\ pc[t] = "w_block"
  BY Zenon DEF HoldsEntry, WaitPC, WakePC, WaitQueued
<1>1. TypeOK'
  BY <1>0, Zenon DEF TypeOK, PC, StopPC, Status, WaitPC, WakePC, WaitQueued
<1>2. HoldsEntry' /\ StopImpliesFlag' /\ MapConsistent'
  BY <1>0 DEF TypeOK, HoldsEntry, StopImpliesFlag, MapConsistent, StopPC, WaitPC, WakePC, WaitQueued
<1>3. MutexHeld'
  BY <1>0, FutexAssumption DEF TypeOK, MutexHeld, Locked
<1>4. \A e \in EntryId : Users(e)' = Users(e) /\ Queued(e)' = Queued(e)
  BY <1>0 DEF TypeOK, Users, Queued, WaitPC, WakePC, WaitQueued
<1>5. UsersExact' /\ OneQueuePerAddress' /\ WaitersExact'
  BY <1>0, <1>4 DEF TypeOK, UsersExact, OneQueuePerAddress, WaitersExact, WaitPC, WakePC, WaitQueued
<1>6. CreditsCovered' /\ NoCreditUnderflow'
  BY <1>0, Zenon DEF TypeOK, CreditsCovered, NoCreditUnderflow
<1> QED BY <1>1, <1>2, <1>3, <1>5, <1>6, Zenon

\* A spurious wakeup keeps the invariant.
LEMMA SpuriousWakeupStep ==
    ASSUME TableInv, NEW t \in Thread, SpuriousWakeup(t)
    PROVE  TableInv'
<1> USE DEF TableInv, SpuriousWakeup, Goto, shared
<1>0. ent[t] \in EntryId /\ pc[t] = "w_sleep"
  BY Zenon DEF HoldsEntry, WaitPC, WakePC, WaitQueued
<1>1. TypeOK'
  BY <1>0, Zenon DEF TypeOK, PC, StopPC, Status, WaitPC, WakePC, WaitQueued
<1>2. HoldsEntry' /\ StopImpliesFlag' /\ MapConsistent'
  BY <1>0 DEF TypeOK, HoldsEntry, StopImpliesFlag, MapConsistent, StopPC, WaitPC, WakePC, WaitQueued
<1>3. MutexHeld'
  BY <1>0, FutexAssumption DEF TypeOK, MutexHeld, Locked
<1>4. \A e \in EntryId : Users(e)' = Users(e) /\ Queued(e)' = Queued(e)
  BY <1>0 DEF TypeOK, Users, Queued, WaitPC, WakePC, WaitQueued
<1>5. UsersExact' /\ OneQueuePerAddress' /\ WaitersExact'
  BY <1>0, <1>4 DEF TypeOK, UsersExact, OneQueuePerAddress, WaitersExact, WaitPC, WakePC, WaitQueued
<1>6. CreditsCovered' /\ NoCreditUnderflow'
  BY <1>0, Zenon DEF TypeOK, CreditsCovered, NoCreditUnderflow
<1> QED BY <1>1, <1>2, <1>3, <1>5, <1>6, Zenon

\* The deadline of a timed wait keeps the invariant.
LEMMA ExpireStep ==
    ASSUME TableInv, NEW t \in Thread, Expire(t)
    PROVE  TableInv'
<1> USE DEF TableInv, Expire, Goto, shared
<1>0. ent[t] \in EntryId /\ pc[t] = "w_sleep"
  BY Zenon DEF HoldsEntry, WaitPC, WakePC, WaitQueued
<1>1. TypeOK'
  BY <1>0, Zenon DEF TypeOK, PC, StopPC, Status, WaitPC, WakePC, WaitQueued
<1>2. HoldsEntry' /\ StopImpliesFlag' /\ MapConsistent'
  BY <1>0 DEF TypeOK, HoldsEntry, StopImpliesFlag, MapConsistent, StopPC, WaitPC, WakePC, WaitQueued
<1>3. MutexHeld'
  BY <1>0, FutexAssumption DEF TypeOK, MutexHeld, Locked
<1>4. \A e \in EntryId : Users(e)' = Users(e) /\ Queued(e)' = Queued(e)
  BY <1>0 DEF TypeOK, Users, Queued, WaitPC, WakePC, WaitQueued
<1>5. UsersExact' /\ OneQueuePerAddress' /\ WaitersExact'
  BY <1>0, <1>4 DEF TypeOK, UsersExact, OneQueuePerAddress, WaitersExact, WaitPC, WakePC, WaitQueued
<1>6. CreditsCovered' /\ NoCreditUnderflow'
  BY <1>0, Zenon DEF TypeOK, CreditsCovered, NoCreditUnderflow
<1> QED BY <1>1, <1>2, <1>3, <1>5, <1>6, Zenon

\* A call that returns at once changes nothing but its result.
LEMMA StatusOnly ==
    ASSUME TableInv, NEW t \in Thread, NEW r \in Status,
           UNCHANGED <<word, shared, pc, call, ent, todo>>,
           status' = [status EXCEPT ![t] = r]
    PROVE  TableInv'
<1> USE DEF TableInv, shared
<1>1. TypeOK'
  BY Zenon DEF TypeOK
<1>2. HoldsEntry' /\ MapConsistent' /\ MutexHeld' /\ StopImpliesFlag'
  BY DEF HoldsEntry, MapConsistent, MutexHeld, StopImpliesFlag
<1>3. \A e \in EntryId : Users(e)' = Users(e) /\ Queued(e)' = Queued(e)
  BY Zenon DEF Users, Queued
<1>4. UsersExact' /\ OneQueuePerAddress' /\ WaitersExact'
  BY <1>3 DEF TypeOK, UsersExact, OneQueuePerAddress, WaitersExact
<1>5. CreditsCovered' /\ NoCreditUnderflow'
  BY Zenon DEF CreditsCovered, NoCreditUnderflow
<1> QED BY <1>1, <1>2, <1>4, <1>5, Zenon

-----------------------------------------------------------------------------
\* acquire_entry, by either caller: the new user is counted, in the entry the
\* map holds or in a fresh one that no other thread refers to.
LEMMA AcquireStep ==
    ASSUME TableInv, NEW t \in Thread, NEW c \in Args,
           NEW l \in {"w_lock", "k_lock"},
           pc[t] = "idle", ~shutting_down,
           AcquireExisting(t, c.addr) \/ AcquireNew(t, c.addr),
           pc' = [pc EXCEPT ![t] = l],
           call' = [call EXCEPT ![t] = c],
           status' = [status EXCEPT ![t] = "none"],
           UNCHANGED <<word, shutting_down, todo>>
    PROVE  TableInv'
<1> USE DEF TableInv
<1> DEFINE a == c.addr
<1>0. a \in Addr /\ ent[t] = None
  BY Zenon DEF Args, HoldsEntry, WaitPC, WakePC, WaitQueued
<1>1. PICK e \in EntryId :
      /\ entries'[a] = e
      /\ ent' = [ent EXCEPT ![t] = e]
      /\ entries' = [entries EXCEPT ![a] = e]
      /\ \A d \in EntryId \ {e} : /\ users'[d] = users[d]
                                  /\ waiters'[d] = waiters[d]
                                  /\ wake_credits'[d] = wake_credits[d]
                                  /\ owner'[d] = owner[d]
  BY <1>0 DEF AcquireExisting, AcquireNew, TypeOK
<1>2. TypeOK'
  <2>1. /\ users' \in [EntryId -> Nat] /\ waiters' \in [EntryId -> Nat]
        /\ wake_credits' \in [EntryId -> Nat]
        /\ owner' \in [EntryId -> Thread \cup {None}]
    BY <1>0 DEF AcquireExisting, AcquireNew, TypeOK
  <2>2. "none" \in Status /\ l \in PC
    BY Zenon DEF Status, PC, WaitPC, WakePC
  <2> QED BY <1>0, <1>1, <2>1, <2>2, Zenon DEF TypeOK
<1>3. \A d \in EntryId : /\ Queued(d)' = Queued(d)
                         /\ d # e => Users(d)' = Users(d)
  BY <1>0, <1>1 DEF TypeOK, Users, Queued, WaitPC, WakePC, WaitQueued
<1>4. Users(e)' = Users(e) \cup {t} /\ t \notin Users(e)
  BY <1>0, <1>1 DEF TypeOK, Users, WaitPC, WakePC, WaitQueued
<1>5. CASE AcquireExisting(t, a)
  <2>1. e = entries[a] /\ entries' = entries
    BY <1>5, <1>0, <1>1, Zenon DEF AcquireExisting, TypeOK
  <2>2. HoldsEntry' /\ StopImpliesFlag' /\ MapConsistent'
    BY <1>0, <1>1, <2>1, FutexAssumption DEF TypeOK, HoldsEntry, StopImpliesFlag, MapConsistent,
                            StopPC, WaitPC, WakePC, WaitQueued
  <2>3. MutexHeld'
    BY <1>0, <1>1, <1>5, FutexAssumption
       DEF AcquireExisting, TypeOK, MutexHeld, Locked
  <2>4. UsersExact'
    <3> SUFFICES ASSUME NEW b \in Addr, NEW d \in EntryId, d = entries[b]
                 PROVE  users'[d] = Cardinality(Users(d)')
      BY <2>1, Zenon DEF UsersExact, TypeOK
    <3>0. users[d] = Cardinality(Users(d))
      BY FutexAssumption, Zenon DEF UsersExact
    <3>1. CASE d = e
      <4>1. users'[e] = users[e] + 1
        BY <1>5, <2>1, <1>1 DEF AcquireExisting, TypeOK
      <4>2. Users(e) \in SUBSET Thread
        BY Zenon DEF Users
      <4>3. Cardinality(Users(e)') = Cardinality(Users(e)) + 1
        BY <4>2, <1>4, ThreadSets, Zenon
      <4> QED BY <3>0, <3>1, <4>1, <4>3, Zenon
    <3>2. CASE d # e
      BY <3>0, <3>2, <1>1, <1>3, Zenon
    <3> QED BY <3>1, <3>2, Zenon
  <2>5. OneQueuePerAddress'
    BY <1>0, <1>1, <2>1 DEF TypeOK, OneQueuePerAddress, WaitPC, WakePC, WaitQueued
  <2>6. WaitersExact' /\ CreditsCovered' /\ NoCreditUnderflow'
    BY <1>0, <1>1, <1>3, <1>5 DEF AcquireExisting, TypeOK, WaitersExact,
                                  CreditsCovered, NoCreditUnderflow
  <2> QED BY <1>2, <2>2, <2>3, <2>4, <2>5, <2>6, Zenon
<1>6. CASE AcquireNew(t, a)
  <2>1. /\ entries[a] = None
        /\ Unreferenced(e)
        /\ users'[e] = 1 /\ waiters'[e] = 0 /\ wake_credits'[e] = 0
        /\ owner'[e] = None
    BY <1>6, <1>0, <1>1 DEF AcquireNew, TypeOK
  <2>2. Users(e) = {} /\ Queued(e) = {}
    BY <2>1, Zenon DEF Unreferenced, Users, Queued
  <2>3. HoldsEntry' /\ StopImpliesFlag'
    BY <1>0, <1>1 DEF TypeOK, HoldsEntry, StopImpliesFlag,
                      StopPC, WaitPC, WakePC, WaitQueued
  <2>4. MapConsistent'
    BY <1>0, <1>1, <2>1 DEF TypeOK, MapConsistent, Unreferenced, InMap,
                            WaitPC, WakePC, WaitQueued
  <2>5. MutexHeld'
    BY <1>0, <1>1, <2>1, FutexAssumption DEF TypeOK, MutexHeld, Locked, Unreferenced
  <2>6. UsersExact'
    <3> SUFFICES ASSUME NEW b \in Addr, NEW d \in EntryId, d = entries'[b]
                 PROVE  users'[d] = Cardinality(Users(d)')
      BY <1>2 DEF UsersExact, TypeOK
    <3>1. CASE b = a
      <4>1. d = e
        BY <3>1, <1>1, Zenon
      <4>2. Cardinality(Users(e)') = 1
        BY <2>2, <1>4, FS_Singleton
      <4> QED BY <4>1, <4>2, <2>1, Zenon
    <3>2. CASE b # a
      <4>1. d = entries[b] /\ d # e /\ d # None
        BY <3>2, <1>0, <1>1, <2>1, FutexAssumption DEF TypeOK, Unreferenced, InMap
      <4> QED BY <4>1, <1>1, <1>3 DEF UsersExact
    <3> QED BY <3>1, <3>2, Zenon
  <2>7. OneQueuePerAddress'
    <3> SUFFICES ASSUME NEW u \in Thread, pc'[u] \in WaitPC \cup WakePC
                 PROVE  entries'[call'[u].addr] = ent'[u]
      BY Zenon DEF OneQueuePerAddress
    <3>1. CASE u = t
      BY <3>1, <1>0, <1>1 DEF TypeOK
    <3>2. CASE u # t
      <4>1. /\ pc[u] \in WaitPC \cup WakePC
            /\ call'[u] = call[u] /\ ent'[u] = ent[u]
        BY <3>2, <1>1, Zenon DEF TypeOK
      <4>2. entries[call[u].addr] = ent[u] /\ ent[u] \in EntryId
        BY <4>1, Zenon DEF OneQueuePerAddress, HoldsEntry
      <4>3. call[u].addr \in Addr /\ call[u].addr # a
        BY <4>1, <4>2, <2>1, FutexAssumption DEF HoldsEntry, Args
      <4> QED BY <4>1, <4>2, <4>3, <1>1 DEF TypeOK
    <3> QED BY <3>1, <3>2, Zenon
  <2>8. WaitersExact'
    <3> SUFFICES ASSUME NEW d \in EntryId PROVE waiters'[d] = Cardinality(Queued(d)')
      BY Zenon DEF WaitersExact
    <3>1. CASE d = e
      BY <3>1, <2>1, <2>2, <1>3, FS_EmptySet, Zenon
    <3>2. CASE d # e
      BY <3>2, <1>1, <1>3 DEF WaitersExact
    <3> QED BY <3>1, <3>2, Zenon
  <2>9. CreditsCovered' /\ NoCreditUnderflow'
    BY <1>0, <1>1, <2>1 DEF TypeOK, CreditsCovered, NoCreditUnderflow, Unreferenced,
                            HoldsEntry, WaitPC, WaitQueued
  <2> QED BY <1>2, <2>3, <2>4, <2>5, <2>6, <2>7, <2>8, <2>9, Zenon
<1> QED BY <1>5, <1>6, Zenon

\* A call of wait, refused or not, keeps the invariant.
LEMMA WaitCallStep ==
    ASSUME TableInv, NEW t \in Thread, NEW c \in WaitArgs, WaitCall(t, c)
    PROVE  TableInv'
<1>1. CASE shutting_down
  <2>1. /\ UNCHANGED <<word, shared, pc, call, ent, todo>>
        /\ status' = [status EXCEPT ![t] = "Shutdown"]
    BY <1>1, Zenon DEF WaitCall
  <2> QED BY <2>1, StatusOnly, Zenon DEF Status
<1>2. CASE ~shutting_down
  <2>1. c \in Args /\ "w_lock" \in {"w_lock", "k_lock"}
    BY FutexAssumption DEF Args, WaitArgs
  <2> QED BY <1>2, <2>1, AcquireStep, Zenon DEF WaitCall, Leave, Goto
<1> QED BY <1>1, <1>2, Zenon

\* A call of wake, refused or not, keeps the invariant.
LEMMA WakeCallStep ==
    ASSUME TableInv, NEW t \in Thread, NEW c \in WakeArgs, WakeCall(t, c)
    PROVE  TableInv'
<1>1. CASE pc' = pc
  <2>1. /\ UNCHANGED <<word, shared, pc, call, ent, todo>>
        /\ status' = [status EXCEPT ![t] = "returned"]
    BY <1>1, Zenon DEF WakeCall, Leave, Goto, shared, TableInv, TypeOK
  <2> QED BY <2>1, StatusOnly, Zenon DEF Status
<1>2. CASE pc' # pc
  <2>1. c \in Args /\ "k_lock" \in {"w_lock", "k_lock"}
    BY FutexAssumption, Zenon DEF Args, WakeArgs
  <2> QED BY <1>2, <2>1, AcquireStep, Zenon DEF WakeCall, Leave, Goto
<1> QED BY <1>1, <1>2, Zenon

-----------------------------------------------------------------------------
\* release_entry, by either caller: the entry leaves the map only with its
\* last user, because users counts exactly.
LEMMA ReleaseStep ==
    ASSUME TableInv, NEW t \in Thread, pc[t] \in {"w_release", "k_release"},
           release_entry(t)
    PROVE  TableInv'
<1> USE DEF TableInv
<1> DEFINE a == call[t].addr
           e == ent[t]
<1>0. a \in Addr /\ e \in EntryId /\ e # None
  BY FutexAssumption, Zenon DEF HoldsEntry, WaitPC, WakePC, Args
<1>1. /\ ent' = [ent EXCEPT ![t] = None]
      /\ pc' = [pc EXCEPT ![t] = "idle"]
      /\ call' = [call EXCEPT ![t] = NoArgs]
      /\ UNCHANGED <<word, shutting_down, waiters, wake_credits, owner, todo, status>>
  BY Zenon DEF release_entry, Goto
<1>2. \/ entries' = entries
      \/ entries' = [entries EXCEPT ![a] = None]
  BY Zenon DEF release_entry
<1>3. users' \in [EntryId -> Nat] /\ \A d \in EntryId \ {e} : users'[d] = users[d]
  <2>1. CASE entries[a] # e
    BY <2>1, Zenon DEF release_entry, TypeOK
  <2>2. CASE entries[a] = e
    <3>1. users' = [users EXCEPT ![e] = IF users[e] # 0 THEN users[e] - 1 ELSE 0]
      BY <2>2, Zenon DEF release_entry
    <3>2. (IF users[e] # 0 THEN users[e] - 1 ELSE 0) \in Nat
      BY <1>0 DEF TypeOK
    <3> QED BY <3>1, <3>2, <1>0, Zenon DEF TypeOK
  <2> QED BY <2>1, <2>2, Zenon
<1>4. TypeOK'
  BY <1>0, <1>1, <1>2, <1>3, Zenon DEF TypeOK, PC
<1>5. HoldsEntry' /\ StopImpliesFlag' /\ MutexHeld'
  BY <1>0, <1>1, FutexAssumption DEF TypeOK, HoldsEntry, StopImpliesFlag, MutexHeld,
                    Locked, StopPC, WaitPC, WakePC, WaitQueued
<1>6. MapConsistent'
  BY <1>0, <1>1, <1>2, FutexAssumption DEF TypeOK, MapConsistent, HoldsEntry,
                    WaitPC, WakePC, WaitQueued
<1>7. \A d \in EntryId : /\ Queued(d)' = Queued(d)
                         /\ d # e => Users(d)' = Users(d)
                         /\ d = e => Users(d)' = Users(d) \ {t} /\ t \in Users(d)
  BY <1>0, <1>1, FutexAssumption DEF TypeOK, Users, Queued, WaitPC, WakePC, WaitQueued
<1>8. entries[a] = e => /\ users'[e] = Cardinality(Users(e) \ {t})
                        /\ users'[e] # 0 => entries' = entries
  <2> SUFFICES ASSUME entries[a] = e
               PROVE  /\ users'[e] = Cardinality(Users(e) \ {t})
                      /\ users'[e] # 0 => entries' = entries
    BY Zenon
  <2>1. users[e] = Cardinality(Users(e))
    BY <1>0, Zenon DEF UsersExact
  <2>2. Users(e) \in SUBSET Thread /\ t \in Users(e)
    BY <1>0, <1>7, Zenon DEF Users
  <2>3. Cardinality(Users(e) \ {t}) = users[e] - 1 /\ users[e] > 0
    BY <2>1, <2>2, ThreadSets, Zenon
  <2>4. users' = [users EXCEPT ![e] = users[e] - 1]
    BY <1>0, <2>3 DEF release_entry, TypeOK
  <2>5. users'[e] # 0 => entries' = entries
    BY <1>0, <2>3, <2>4, Zenon DEF release_entry, TypeOK
  <2> QED BY <1>0, <2>3, <2>4, <2>5, Zenon DEF TypeOK
<1>9. UsersExact'
  <2> SUFFICES ASSUME NEW b \in Addr, NEW d \in EntryId, d = entries'[b]
               PROVE  users'[d] = Cardinality(Users(d)')
    BY <1>4 DEF UsersExact, TypeOK
  <2>1. entries[b] = d
    BY <1>0, <1>2, FutexAssumption, Zenon DEF TypeOK
  <2>2. CASE d = e
    <3>1. a = b
      BY <2>1, <2>2, <1>0, Zenon DEF MapConsistent, WaitPC, WakePC
    <3>2. users'[d] = Cardinality(Users(d) \ {t})
      BY <3>1, <2>1, <2>2, <1>8, Zenon
    <3>3. Users(d)' = Users(d) \ {t}
      BY <2>2, <1>7, Zenon
    <3> QED BY <3>2, <3>3, Zenon
  <2>3. CASE d # e
    BY <2>1, <2>3, <1>3, <1>7, FutexAssumption DEF UsersExact
  <2> QED BY <2>2, <2>3, Zenon
<1>10. OneQueuePerAddress'
  <2> SUFFICES ASSUME ~shutting_down, NEW u \in Thread, pc'[u] \in WaitPC \cup WakePC
               PROVE  entries'[call'[u].addr] = ent'[u]
    BY <1>1, Zenon DEF OneQueuePerAddress
  <2>1. /\ u # t
        /\ pc[u] \in WaitPC \cup WakePC
        /\ call'[u] = call[u] /\ ent'[u] = ent[u]
        /\ entries[call[u].addr] = ent[u]
        /\ ent[u] \in EntryId
    BY <1>1, Zenon DEF TypeOK, OneQueuePerAddress, HoldsEntry, WaitPC, WakePC, WaitQueued
  <2>2. entries[a] = e
    BY <1>0, Zenon DEF OneQueuePerAddress, WaitPC, WakePC
  <2>3. CASE call[u].addr = a
    <3>1. u \in Users(e) \ {t} /\ Users(e) \ {t} \in SUBSET Thread
      BY <2>1, <2>2, <2>3, Zenon DEF Users
    <3>2. Cardinality(Users(e) \ {t}) # 0
      BY <3>1, ThreadSets, Zenon
    <3>3. entries' = entries
      BY <3>2, <2>2, <1>8, Zenon
    <3> QED BY <3>3, <2>1, Zenon
  <2>4. CASE call[u].addr # a
    BY <2>1, <2>4, <1>0, <1>2 DEF HoldsEntry, Args, TypeOK
  <2> QED BY <2>3, <2>4, Zenon
<1>11. WaitersExact' /\ CreditsCovered'
  BY <1>1, <1>7, Zenon DEF WaitersExact, CreditsCovered
<1>12. NoCreditUnderflow'
  BY <1>1, Zenon DEF TypeOK, NoCreditUnderflow
<1> QED BY <1>4, <1>5, <1>6, <1>9, <1>10, <1>11, <1>12, Zenon

-----------------------------------------------------------------------------
LEMMA WaitResumeStep ==
    ASSUME TableInv, NEW t \in Thread, WaitResume(t)
    PROVE  TableInv'
<1> USE DEF TableInv, WaitResume, Goto, Leave
<1>0. /\ ent[t] \in EntryId /\ pc[t] \in {"w_notified", "w_expired"}
      /\ owner[ent[t]] = None
  BY Zenon DEF HoldsEntry, WaitPC, WaitQueued
<1>1. \A e \in EntryId : Users(e)' = Users(e)
  BY <1>0 DEF TypeOK, Users, WaitPC, WakePC, WaitQueued
<1>2. t \in Queued(ent[t]) /\ \A e \in EntryId : Queued(e) \in SUBSET Thread
  BY <1>0, Zenon DEF Queued, WaitQueued
<1>3. waiters[ent[t]] \in Nat /\ waiters[ent[t]] > 0
  BY <1>0, <1>2, ThreadSets DEF WaitersExact, TypeOK
<1>4. TypeOK'
  <2>1. waiters[ent[t]] - 1 \in Nat
    BY <1>3, PredecessorNat, Zenon
  <2>2. {"w_done", "w_block", "w_release"} \subseteq PC /\ "TimedOut" \in Status
    BY Zenon DEF PC, WaitPC, WaitQueued, Status
  <2> QED BY <1>0, <2>1, <2>2 DEF TypeOK
<1>5. HoldsEntry' /\ StopImpliesFlag' /\ MapConsistent'
  <2>1. PICK l \in {"w_done", "w_block", "w_release"} : pc' = [pc EXCEPT ![t] = l]
    BY Zenon
  <2> QED BY <1>0, <2>1 DEF TypeOK, HoldsEntry, StopImpliesFlag, MapConsistent,
                            StopPC, WaitPC, WakePC, WaitQueued
<1>6. MutexHeld'
  BY <1>0, FutexAssumption DEF TypeOK, MutexHeld, Locked
<1>7. UsersExact' /\ OneQueuePerAddress'
  BY <1>0, <1>1 DEF TypeOK, UsersExact, OneQueuePerAddress, WaitPC, WakePC, WaitQueued
<1>8. CASE waiters' = waiters
  <2>1. \A e \in EntryId : Queued(e)' = Queued(e)
    BY <1>0, <1>3, <1>8 DEF TypeOK, Queued, WaitQueued
  <2>2. WaitersExact'
    BY <2>1, <1>8, Zenon DEF WaitersExact
  <2>3. CreditsCovered' /\ NoCreditUnderflow'
    BY <1>0, <1>8 DEF TypeOK, CreditsCovered, NoCreditUnderflow, Ready
  <2> QED BY <1>4, <1>5, <1>6, <1>7, <2>2, <2>3, Zenon
<1>9. CASE waiters' # waiters
  <2>1. /\ ~Ready(ent[t])
        /\ waiters' = [waiters EXCEPT ![ent[t]] = @ - 1]
        /\ pc' = [pc EXCEPT ![t] = "w_release"]
    BY <1>9, Zenon
  <2>2. WaitersExact'
    <3> SUFFICES ASSUME NEW e \in EntryId PROVE waiters'[e] = Cardinality(Queued(e)')
      BY Zenon DEF WaitersExact
    <3>1. CASE e = ent[t]
      <4>1. Queued(e)' = Queued(e) \ {t}
        BY <3>1, <2>1, <1>0, Zenon DEF TypeOK, Queued, WaitQueued
      <4>2. Cardinality(Queued(e) \ {t}) = waiters[e] - 1
        BY <3>1, <1>2, ThreadSets DEF WaitersExact
      <4> QED BY <3>1, <4>1, <4>2, <2>1, Zenon DEF TypeOK
    <3>2. CASE e # ent[t]
      <4>1. Queued(e)' = Queued(e)
        BY <3>2, <2>1, <1>0, Zenon DEF TypeOK, Queued, WaitQueued
      <4> QED BY <3>2, <4>1, <2>1, <1>0, Zenon DEF WaitersExact, TypeOK
    <3> QED BY <3>1, <3>2, Zenon
  <2>3. CreditsCovered'
    BY <1>0, <1>3, <2>1 DEF TypeOK, CreditsCovered, Ready
  <2>4. NoCreditUnderflow'
    BY <1>0, <2>1, Zenon DEF TypeOK, NoCreditUnderflow
  <2> QED BY <1>4, <1>5, <1>6, <1>7, <2>2, <2>3, <2>4, Zenon
<1> QED BY <1>8, <1>9, Zenon

\* The mutex is what protects the credit between the predicate and the
\* decrement: no second thread can be at its own decrement.
LEMMA WaitDoneStep ==
    ASSUME TableInv, NEW t \in Thread, WaitDone(t)
    PROVE  TableInv'
<1> USE DEF TableInv, WaitDone, Goto, Leave, Unlock
<1>0. ent[t] \in EntryId /\ pc[t] = "w_done"
  BY Zenon DEF HoldsEntry, WaitPC, WaitQueued
<1>1. \A e \in EntryId : Users(e)' = Users(e)
  BY <1>0 DEF TypeOK, Users, WaitPC, WakePC, WaitQueued
<1>2. t \in Queued(ent[t]) /\ \A e \in EntryId : Queued(e) \in SUBSET Thread
  BY <1>0, Zenon DEF Queued, WaitQueued
<1>3. waiters[ent[t]] \in Nat /\ waiters[ent[t]] > 0
  BY <1>0, <1>2, ThreadSets DEF WaitersExact, TypeOK
<1>4. TypeOK'
  BY <1>0, <1>3 DEF TypeOK, NoCreditUnderflow, PC, WaitPC, Status
<1>5. HoldsEntry' /\ StopImpliesFlag' /\ MapConsistent'
  BY <1>0 DEF TypeOK, HoldsEntry, StopImpliesFlag, MapConsistent, StopPC,
              WaitPC, WakePC, WaitQueued
<1>6. MutexHeld'
  BY <1>0, FutexAssumption DEF TypeOK, MutexHeld, Locked
<1>7. UsersExact' /\ OneQueuePerAddress'
  BY <1>0, <1>1 DEF TypeOK, UsersExact, OneQueuePerAddress, WaitPC, WakePC, WaitQueued
<1>8. WaitersExact'
  <2> SUFFICES ASSUME NEW e \in EntryId PROVE waiters'[e] = Cardinality(Queued(e)')
    BY Zenon DEF WaitersExact
  <2>1. CASE e = ent[t]
    <3>1. Queued(e)' = Queued(e) \ {t}
      BY <2>1, <1>0, Zenon DEF TypeOK, Queued, WaitQueued
    <3>2. Cardinality(Queued(e) \ {t}) = waiters[e] - 1
      BY <2>1, <1>2, ThreadSets DEF WaitersExact
    <3> QED BY <2>1, <3>1, <3>2, Zenon DEF TypeOK
  <2>2. CASE e # ent[t]
    <3>1. Queued(e)' = Queued(e)
      BY <2>2, <1>0, Zenon DEF TypeOK, Queued, WaitQueued
    <3> QED BY <2>2, <3>1, <1>0, Zenon DEF WaitersExact, TypeOK
  <2> QED BY <2>1, <2>2, Zenon
<1>9. CreditsCovered'
  BY <1>0, <1>3 DEF TypeOK, CreditsCovered, NoCreditUnderflow
<1>10. NoCreditUnderflow'
  <2> SUFFICES ASSUME NEW u \in Thread, pc'[u] = "w_done", ~shutting_down
               PROVE  wake_credits'[ent[u]] > 0
    BY Zenon DEF NoCreditUnderflow
  <2>1. u # t /\ pc[u] = "w_done"
    BY <1>0, Zenon DEF TypeOK
  <2>2. ent[u] \in EntryId /\ ent[u] # ent[t]
    BY <1>0, <2>1 DEF HoldsEntry, MutexHeld, Locked, WaitPC, WaitQueued
  <2> QED BY <1>0, <2>1, <2>2, Zenon DEF TypeOK, NoCreditUnderflow
<1> QED BY <1>4, <1>5, <1>6, <1>7, <1>8, <1>9, <1>10, Zenon

\* Granting wake credits, at most one per waiter, keeps the invariant.
LEMMA WakeCreditStep ==
    ASSUME TableInv, NEW t \in Thread, WakeCredit(t)
    PROVE  TableInv'
<1> USE DEF TableInv
<1>0. /\ ent[t] \in EntryId /\ pc[t] = "k_lock"
      /\ call[t] \in Args
  BY Zenon DEF WakeCredit, HoldsEntry, WakePC
<1>1. PICK n \in 0..MaxCount :
        \/ wake_credits' = wake_credits /\ call' = call
        \/ /\ n = 0 \/ wake_credits[ent[t]] + n <= waiters[ent[t]]
           /\ wake_credits' = [wake_credits EXCEPT ![ent[t]] = @ + n]
           /\ call' = [call EXCEPT ![t].count = n]
  <2> DEFINE available == IF waiters[ent[t]] > wake_credits[ent[t]]
                          THEN waiters[ent[t]] - wake_credits[ent[t]] ELSE 0
             m == IF call[t].count < available THEN call[t].count ELSE available
  <2>1. waiters[ent[t]] \in Nat /\ wake_credits[ent[t]] \in Nat
    BY <1>0, Zenon DEF TypeOK
  <2>2. call[t].count \in 0..MaxCount
    BY <1>0, Zenon DEF Args
  <2>3. m \in 0..MaxCount /\ (m = 0 \/ wake_credits[ent[t]] + m <= waiters[ent[t]])
    BY <2>1, <2>2, FutexAssumption
  <2> QED BY <2>3, Zenon DEF WakeCredit
<1>2. PICK l \in {"k_release", "k_notify"} : pc' = [pc EXCEPT ![t] = l]
  BY Zenon DEF WakeCredit, Goto
<1>3. UNCHANGED <<word, shutting_down, entries, users, waiters, owner, ent, todo, status>>
  BY Zenon DEF WakeCredit
<1>4. /\ call' \in [Thread -> Args \cup {NoArgs}]
      /\ call'[t] \in Args /\ call'[t].addr = call[t].addr
      /\ \A u \in Thread \ {t} : call'[u] = call[u]
  BY <1>0, <1>1, FutexAssumption DEF TypeOK, Args
<1>5. TypeOK'
  <2>1. wake_credits' \in [EntryId -> Nat]
    BY <1>0, <1>1, FutexAssumption DEF TypeOK
  <2> QED BY <2>1, <1>0, <1>2, <1>3, <1>4, Zenon DEF TypeOK, PC, WakePC
<1>6. HoldsEntry' /\ StopImpliesFlag' /\ MapConsistent'
  BY <1>0, <1>2, <1>3, <1>4 DEF TypeOK, HoldsEntry, StopImpliesFlag, MapConsistent,
              StopPC, WaitPC, WakePC, WaitQueued
<1>7. MutexHeld'
  BY <1>0, <1>2, <1>3 DEF TypeOK, MutexHeld, Locked
<1>8. \A e \in EntryId : Users(e)' = Users(e) /\ Queued(e)' = Queued(e)
  BY <1>0, <1>2, <1>3, Zenon DEF TypeOK, Users, Queued, WaitPC, WakePC, WaitQueued
<1>9. UsersExact' /\ OneQueuePerAddress' /\ WaitersExact'
  BY <1>0, <1>2, <1>3, <1>4, <1>8 DEF TypeOK, UsersExact, OneQueuePerAddress,
              WaitersExact, WaitPC, WakePC, WaitQueued
<1>10. CreditsCovered' /\ NoCreditUnderflow'
  <2>1. \A e \in EntryId : /\ wake_credits'[e] >= wake_credits[e]
                           /\ wake_credits'[e] = wake_credits[e]
                              \/ wake_credits'[e] <= waiters[e]
    BY <1>0, <1>1, FutexAssumption DEF TypeOK
  <2>2. CreditsCovered'
    BY <2>1, <1>3, Zenon DEF CreditsCovered
  <2>3. \A u \in Thread : pc'[u] = "w_done" => pc[u] = "w_done" /\ ent[u] \in EntryId
    BY <1>0, <1>2, Zenon DEF TypeOK, HoldsEntry, WaitPC, WaitQueued
  <2>4. NoCreditUnderflow'
    BY <1>5, <1>3, <2>1, <2>3 DEF TypeOK, NoCreditUnderflow
  <2> QED BY <2>2, <2>4, Zenon
<1> QED BY <1>5, <1>6, <1>7, <1>9, <1>10, Zenon

\* Waking sleepers moves them inside the wait: no counter is concerned.
LEMMA NotifyStep ==
    ASSUME TableInv, NEW W \in SUBSET Thread, NEW v \in Thread,
           \A w \in W : pc[w] = "w_sleep",
           pc' = [u \in Thread |-> IF u \in W THEN "w_notified" ELSE pc[u]],
           call' \in [Thread -> Args \cup {NoArgs}],
           \A u \in Thread \ {v} : call'[u] = call[u],
           call'[v].addr = call[v].addr,
           call[v] \in Args => call'[v] \in Args,
           todo' \in [Thread -> SUBSET EntryId],
           UNCHANGED <<word, shared, ent, status>>
    PROVE  TableInv'
<1> USE DEF TableInv, shared
<1>1. TypeOK'
  BY Zenon DEF TypeOK, PC, WaitPC, WaitQueued
<1>2. HoldsEntry' /\ StopImpliesFlag' /\ MapConsistent'
  BY DEF TypeOK, HoldsEntry, StopImpliesFlag, MapConsistent, StopPC,
         WaitPC, WakePC, WaitQueued
<1>3. MutexHeld'
  BY DEF TypeOK, MutexHeld, Locked
<1>4. \A e \in EntryId : Users(e)' = Users(e) /\ Queued(e)' = Queued(e)
  BY DEF TypeOK, Users, Queued, WaitPC, WakePC, WaitQueued
<1>5. UsersExact' /\ OneQueuePerAddress' /\ WaitersExact'
  BY <1>4 DEF TypeOK, UsersExact, OneQueuePerAddress, WaitersExact,
              WaitPC, WakePC, WaitQueued
<1>6. CreditsCovered' /\ NoCreditUnderflow'
  BY Zenon DEF TypeOK, CreditsCovered, NoCreditUnderflow
<1> QED BY <1>1, <1>2, <1>3, <1>5, <1>6, Zenon

\* wake's notifications keep the invariant.
LEMMA WakeNotifyStep ==
    ASSUME TableInv, NEW t \in Thread, WakeNotify(t)
    PROVE  TableInv'
<1>0. /\ ent[t] \in EntryId /\ pc[t] = "k_notify" /\ call[t] \in Args
      /\ call[t].count \in 0..MaxCount
  BY Zenon DEF WakeNotify, TableInv, HoldsEntry, WakePC, Args
<1>1. CASE call[t].count = 0
  <2> USE DEF TableInv, WakeNotify, shared, Goto
  <2>1. pc' = [pc EXCEPT ![t] = "k_release"] /\ call' = call
    BY <1>1
  <2>2. TypeOK'
    BY <2>1, Zenon DEF TypeOK, PC, WakePC
  <2>3. HoldsEntry' /\ StopImpliesFlag' /\ MapConsistent'
    BY <1>0, <2>1 DEF TypeOK, HoldsEntry, StopImpliesFlag, MapConsistent, StopPC,
                      WaitPC, WakePC, WaitQueued
  <2>4. MutexHeld'
    BY <1>0, <2>1 DEF TypeOK, MutexHeld, Locked
  <2>5. \A e \in EntryId : Users(e)' = Users(e) /\ Queued(e)' = Queued(e)
    BY <1>0, <2>1 DEF TypeOK, Users, Queued, WaitPC, WakePC, WaitQueued
  <2>6. UsersExact' /\ OneQueuePerAddress' /\ WaitersExact'
    BY <1>0, <2>1, <2>5 DEF TypeOK, UsersExact, OneQueuePerAddress, WaitersExact,
                            WaitPC, WakePC, WaitQueued
  <2>7. CreditsCovered' /\ NoCreditUnderflow'
    BY <2>1, Zenon DEF TypeOK, CreditsCovered, NoCreditUnderflow
  <2> QED BY <2>2, <2>3, <2>4, <2>6, <2>7, Zenon
<1>2. CASE call[t].count > 0
  <2>1. PICK W \in SUBSET Thread :
          /\ \A w \in W : pc[w] = "w_sleep"
          /\ pc' = [u \in Thread |-> IF u \in W THEN "w_notified" ELSE pc[u]]
    <3> DEFINE Wakes(S) ==
                 /\ \A w \in S : pc[w] = "w_sleep"
                 /\ pc' = [u \in Thread |-> IF u \in S THEN "w_notified" ELSE pc[u]]
    <3>0. \/ \E w \in Asleep(ent[t]) : Goto(w, "w_notified")
          \/ Asleep(ent[t]) = {} /\ UNCHANGED pc
      BY <1>2 DEF WakeNotify
    <3>1. CASE Asleep(ent[t]) = {} /\ UNCHANGED pc
      <4>1. Wakes({}) /\ {} \in SUBSET Thread
        BY <3>1, Zenon DEF TableInv, TypeOK
      <4> HIDE DEF Wakes
      <4>2. \E S \in SUBSET Thread : Wakes(S)
        BY <4>1, Zenon
      <4> QED BY <4>2, Zenon DEF Wakes
    <3>2. ASSUME NEW w \in Asleep(ent[t]), Goto(w, "w_notified")
          PROVE  \E S \in SUBSET Thread : Wakes(S)
      <4>1. w \in Thread /\ pc[w] = "w_sleep"
        BY Zenon DEF Asleep
      <4>2. Wakes({w}) /\ {w} \in SUBSET Thread
        BY <3>2, <4>1, Zenon DEF TableInv, TypeOK, Goto
      <4> HIDE DEF Wakes
      <4> QED BY <4>2, Zenon
    <3> QED BY <3>0, <3>1, <3>2, Zenon
  <2>2. /\ call' = [call EXCEPT ![t].count = @ - 1]
        /\ UNCHANGED <<word, shared, ent, todo, status>>
    BY <1>0, <1>2 DEF WakeNotify
  <2>3. call[t].count - 1 \in 0..MaxCount
    BY <1>0, <1>2, FutexAssumption
  <2>4. /\ call' \in [Thread -> Args \cup {NoArgs}]
        /\ \A u \in Thread \ {t} : call'[u] = call[u]
        /\ call'[t].addr = call[t].addr
        /\ call'[t] \in Args
    BY <1>0, <2>2, <2>3, Zenon DEF TableInv, TypeOK, Args
  <2>5. todo' \in [Thread -> SUBSET EntryId]
    BY <2>2, Zenon DEF TableInv, TypeOK
  <2> QED BY <2>1, <2>2, <2>4, <2>5, NotifyStep, Zenon
<1> QED BY <1>0, <1>1, <1>2, FutexAssumption

-----------------------------------------------------------------------------
LEMMA ShutdownCallStep ==
    ASSUME TableInv, NEW t \in Thread, ShutdownCall(t)
    PROVE  TableInv'
<1>1. CASE shutting_down
  <2>1. /\ UNCHANGED <<word, shared, pc, call, ent, todo>>
        /\ status' = [status EXCEPT ![t] = "returned"]
    BY <1>1, Zenon DEF ShutdownCall, shared
  <2> QED BY <2>1, StatusOnly, Zenon DEF Status
<1>2. CASE ~shutting_down
  <2> USE DEF TableInv, ShutdownCall, Leave, Goto
  <2>0. pc[t] = "idle" /\ shutting_down' = TRUE /\ pc' = [pc EXCEPT ![t] = "s_clear"]
    BY <1>2, Zenon
  <2>1. TypeOK'
    BY <1>2, Zenon DEF TypeOK, PC, StopPC, Status
  <2>2. HoldsEntry' /\ StopImpliesFlag' /\ MapConsistent'
    BY <2>0 DEF TypeOK, HoldsEntry, StopImpliesFlag, MapConsistent, WaitPC, WakePC, WaitQueued
  <2>3. MutexHeld'
    BY <2>0 DEF TypeOK, MutexHeld, Locked
  <2>4. \A e \in EntryId : Users(e)' = Users(e) /\ Queued(e)' = Queued(e)
    BY <2>0, Zenon DEF TypeOK, Users, Queued, WaitPC, WakePC, WaitQueued
  <2>5. UsersExact' /\ WaitersExact'
    BY <2>4 DEF TypeOK, UsersExact, WaitersExact
  <2>6. OneQueuePerAddress' /\ CreditsCovered' /\ NoCreditUnderflow'
    BY <2>0, Zenon DEF OneQueuePerAddress, CreditsCovered, NoCreditUnderflow
  <2> QED BY <2>1, <2>2, <2>3, <2>5, <2>6, Zenon
<1> QED BY <1>1, <1>2, Zenon

\* shutdown's swap of the map keeps the invariant.
LEMMA ShutdownClearStep ==
    ASSUME TableInv, NEW t \in Thread, ShutdownClear(t)
    PROVE  TableInv'
<1> USE DEF TableInv, ShutdownClear, Goto
<1>0. pc[t] = "s_clear" /\ shutting_down /\ shutting_down' /\ ent[t] = None
  BY Zenon DEF StopImpliesFlag, StopPC, HoldsEntry, WaitPC, WakePC, WaitQueued
<1>1. TypeOK'
  BY <1>0, Zenon DEF TypeOK, PC, StopPC
<1>2. HoldsEntry' /\ StopImpliesFlag' /\ MapConsistent'
  BY <1>0, FutexAssumption DEF TypeOK, HoldsEntry, StopImpliesFlag, MapConsistent,
              WaitPC, WakePC, WaitQueued
<1>3. MutexHeld'
  BY <1>0 DEF TypeOK, MutexHeld, Locked
<1>4. \A e \in EntryId : Queued(e)' = Queued(e)
  BY <1>0, Zenon DEF TypeOK, Queued, WaitQueued
<1>5. UsersExact' /\ WaitersExact'
  BY <1>4, Zenon DEF UsersExact, WaitersExact
<1>6. OneQueuePerAddress' /\ CreditsCovered' /\ NoCreditUnderflow'
  BY <1>0, Zenon DEF OneQueuePerAddress, CreditsCovered, NoCreditUnderflow
<1> QED BY <1>1, <1>2, <1>3, <1>5, <1>6, Zenon

\* shutdown's notify_all on each entry keeps the invariant.
LEMMA ShutdownNotifyStep ==
    ASSUME TableInv, NEW t \in Thread, ShutdownNotify(t)
    PROVE  TableInv'
<1>0. pc[t] = "s_notify" /\ UNCHANGED <<word, shared, call, ent>>
  BY Zenon DEF ShutdownNotify
<1>1. CASE todo[t] = {} /\ Leave(t, "idle", "returned") /\ UNCHANGED todo
  <2> USE DEF TableInv, shared
  <2>0. pc' = [pc EXCEPT ![t] = "idle"] /\ status' = [status EXCEPT ![t] = "returned"]
    BY <1>1, Zenon DEF Leave, Goto
  <2>1. TypeOK'
    BY <1>0, <1>1, <2>0, Zenon DEF TypeOK, PC, Status
  <2>2. HoldsEntry' /\ StopImpliesFlag' /\ MapConsistent'
    BY <1>0, <2>0 DEF TypeOK, HoldsEntry, StopImpliesFlag, StopPC, MapConsistent,
                      WaitPC, WakePC, WaitQueued
  <2>3. MutexHeld'
    BY <1>0, <2>0 DEF TypeOK, MutexHeld, Locked
  <2>4. \A e \in EntryId : Users(e)' = Users(e) /\ Queued(e)' = Queued(e)
    BY <1>0, <2>0, Zenon DEF TypeOK, Users, Queued, WaitPC, WakePC, WaitQueued
  <2>5. UsersExact' /\ OneQueuePerAddress' /\ WaitersExact'
    BY <1>0, <2>0, <2>4 DEF TypeOK, UsersExact, OneQueuePerAddress, WaitersExact,
                            WaitPC, WakePC, WaitQueued
  <2>6. CreditsCovered' /\ NoCreditUnderflow'
    BY <1>0, <2>0, Zenon DEF TypeOK, CreditsCovered, NoCreditUnderflow
  <2> QED BY <2>1, <2>2, <2>3, <2>5, <2>6, Zenon
<1>2. ASSUME NEW e \in todo[t],
             todo' = [todo EXCEPT ![t] = @ \ {e}],
             pc' = [u \in Thread |-> IF u \in Asleep(e) THEN "w_notified" ELSE pc[u]],
             UNCHANGED status
      PROVE  TableInv'
  <2>1. Asleep(e) \in SUBSET Thread /\ \A w \in Asleep(e) : pc[w] = "w_sleep"
    BY Zenon DEF Asleep
  <2>2. todo' \in [Thread -> SUBSET EntryId]
    BY <1>2, Zenon DEF TableInv, TypeOK
  <2>3. call' \in [Thread -> Args \cup {NoArgs}] /\ call' = call
    BY <1>0, Zenon DEF TableInv, TypeOK
  <2> QED BY <1>0, <1>2, <2>1, <2>2, <2>3, NotifyStep, Zenon
<1> QED BY <1>1, <1>2, Zenon DEF ShutdownNotify

\* A guest store to a futex word keeps the invariant.
LEMMA GuestStoreStep ==
    ASSUME TableInv, NEW a \in Addr, NEW v \in Word, GuestStore(a, v)
    PROVE  TableInv'
<1> USE DEF TableInv, GuestStore, shared, local
<1>1. TypeOK'
  BY Zenon DEF TypeOK
<1>2. HoldsEntry' /\ MapConsistent' /\ MutexHeld' /\ StopImpliesFlag'
  BY DEF HoldsEntry, MapConsistent, MutexHeld, StopImpliesFlag
<1>3. \A e \in EntryId : Users(e)' = Users(e) /\ Queued(e)' = Queued(e)
  BY Zenon DEF Users, Queued
<1>4. UsersExact' /\ OneQueuePerAddress' /\ WaitersExact'
  BY <1>3 DEF TypeOK, UsersExact, OneQueuePerAddress, WaitersExact
<1>5. CreditsCovered' /\ NoCreditUnderflow'
  BY Zenon DEF CreditsCovered, NoCreditUnderflow
<1> QED BY <1>1, <1>2, <1>4, <1>5, Zenon

-----------------------------------------------------------------------------
LEMMA Inductive == TableInv /\ [Next]_vars => TableInv'
<1> SUFFICES ASSUME TableInv, [Next]_vars PROVE TableInv'
  BY Zenon
<1>1. ASSUME NEW t \in Thread, NEW c \in WaitArgs, WaitCall(t, c) PROVE TableInv'
  BY <1>1, WaitCallStep, Zenon
<1>2. ASSUME NEW t \in Thread, NEW c \in WakeArgs, WakeCall(t, c) PROVE TableInv'
  BY <1>2, WakeCallStep
<1>3. ASSUME NEW t \in Thread, WaitRefused(t) PROVE TableInv'
  BY <1>3, StatusOnly, Zenon DEF WaitRefused, Status
<1>4. ASSUME NEW t \in Thread, ShutdownCall(t) PROVE TableInv'
  BY <1>4, ShutdownCallStep, Zenon
<1>5. ASSUME NEW t \in Thread, Progress(t) PROVE TableInv'
  <2>1. CASE WaitRead(t) \/ WaitCheck(t) \/ WaitPredicate(t) \/ WaitBlock(t)
    BY <2>1, WaitReadStep, WaitCheckStep, WaitPredicateStep, WaitBlockStep, Zenon
  <2>2. CASE WaitResume(t) \/ WaitDone(t)
    BY <2>2, WaitResumeStep, WaitDoneStep, Zenon
  <2>3. CASE WaitRelease(t) \/ WakeRelease(t)
    BY <2>3, ReleaseStep, Zenon DEF WaitRelease, WakeRelease
  <2>4. CASE WakeCredit(t) \/ WakeNotify(t)
    BY <2>4, WakeCreditStep, WakeNotifyStep
  <2>5. CASE ShutdownClear(t) \/ ShutdownNotify(t)
    BY <2>5, ShutdownClearStep, ShutdownNotifyStep
  <2> QED BY <1>5, <2>1, <2>2, <2>3, <2>4, <2>5, Zenon DEF Progress
<1>6. ASSUME NEW t \in Thread, SpuriousWakeup(t) \/ Expire(t) PROVE TableInv'
  BY <1>6, SpuriousWakeupStep, ExpireStep
<1>7. ASSUME NEW a \in Addr, NEW v \in Word, GuestStore(a, v) PROVE TableInv'
  BY <1>7, GuestStoreStep, Zenon
<1>8. CASE UNCHANGED vars
  <2> USE DEF TableInv, vars, shared, local
  <2>1. TypeOK'
    BY <1>8, Zenon DEF TypeOK
  <2>2. HoldsEntry' /\ MapConsistent' /\ MutexHeld' /\ StopImpliesFlag'
    BY <1>8 DEF HoldsEntry, MapConsistent, MutexHeld, StopImpliesFlag
  <2>3. \A e \in EntryId : Users(e)' = Users(e) /\ Queued(e)' = Queued(e)
    BY <1>8, Zenon DEF Users, Queued
  <2>4. UsersExact' /\ OneQueuePerAddress' /\ WaitersExact'
    BY <1>8, <2>3 DEF TypeOK, UsersExact, OneQueuePerAddress, WaitersExact
  <2>5. CreditsCovered' /\ NoCreditUnderflow'
    BY <1>8, Zenon DEF CreditsCovered, NoCreditUnderflow
  <2> QED BY <2>1, <2>2, <2>4, <2>5, Zenon
<1> QED BY <1>1, <1>2, <1>3, <1>4, <1>5, <1>6, <1>7, <1>8, Zenon DEF Next

\* The whole invariant, for any number of threads, addresses and entries.
THEOREM TableInvariant == Spec => []TableInv
<1> QED BY Initially, Inductive, PTL DEF Spec

\* No --wake_credits wraps around: the credit a waiter saw under the entry
\* mutex is still there when it takes it.
THEOREM CreditsNeverUnderflow == Spec => []NoCreditUnderflow
<1>1. TableInv => NoCreditUnderflow
  BY Zenon DEF TableInv
<1> QED BY <1>1, TableInvariant, PTL

\* release_entry never takes an entry away from a call that still uses it,
\* so a wait and a wake on one address meet on one queue.
THEOREM NoSplitQueue == Spec => []OneQueuePerAddress
<1>1. TableInv => OneQueuePerAddress
  BY Zenon DEF TableInv
<1> QED BY <1>1, TableInvariant, PTL

\* wake never hands out more credits than there are waiters, and no waiter
\* leaves a credit behind when it times out.
THEOREM CreditsNeverOutnumberWaiters == Spec => []CreditsCovered
<1>1. TableInv => CreditsCovered
  BY Zenon DEF TableInv
<1> QED BY <1>1, TableInvariant, PTL
=============================================================================
