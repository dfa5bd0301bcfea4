-------------------------- MODULE FutexWakeProofs ---------------------------
(***************************************************************************)
(* Wake credits and the map of the wait table: no credit is stranded and   *)
(* no unused entry stays in the map, for any set of threads, addresses,    *)
(* words and entries; and the event protocol on top of the table: no       *)
(* wakeup is lost, for any number of waiters and notifiers.  WakeInv and   *)
(* EventInv are inductive relative to TableInv.                            *)
(***************************************************************************)
EXTENDS FutexEvent, FutexWaitTableProofs

(* The map holds entries in use only.                                      *)

\* A step that keeps the map and lets nobody go keeps MapTidy.
LEMMA NobodyLeaves ==
    ASSUME TableInv, MapTidy,
           entries' = entries, shutting_down' = shutting_down,
           \A t \in Thread : pc[t] \in WaitPC \cup WakePC =>
                pc'[t] \in WaitPC \cup WakePC /\ ent'[t] = ent[t],
           \A t \in Thread : pc[t] = "s_clear" => pc'[t] = "s_clear"
    PROVE  MapTidy'
<1>1. \A e : Users(e) \subseteq Users(e)'
  BY Zenon DEF Users
<1>2. \A a \in Addr : Users(entries[a]) # {} => Users(entries[a])' # {}
  BY <1>1, Zenon
<1> QED BY <1>2, Zenon DEF MapTidy

\* acquire_entry adds a user to the entry it returns.
LEMMA AcquireTidy ==
    ASSUME TableInv, MapTidy, NEW t \in Thread, NEW c \in Args,
           NEW l \in {"w_lock", "k_lock"},
           pc[t] = "idle", ~shutting_down, ~shutting_down',
           AcquireExisting(t, c.addr) \/ AcquireNew(t, c.addr),
           pc' = [pc EXCEPT ![t] = l]
    PROVE  MapTidy'
<1>0. c.addr \in Addr /\ ent[t] = None /\ l \in WaitPC \cup WakePC
  BY Zenon DEF Args, TableInv, HoldsEntry, WaitPC, WakePC, WaitQueued
<1>1. PICK e \in EntryId :
        /\ ent' = [ent EXCEPT ![t] = e]
        /\ entries' = entries \/ entries' = [entries EXCEPT ![c.addr] = e]
  BY <1>0, Zenon DEF AcquireExisting, AcquireNew, TableInv, TypeOK
<1>2. t \in Users(e)'
  BY <1>0, <1>1, Zenon DEF Users, TableInv, TypeOK
<1>3. \A d \in EntryId : Users(d) \subseteq Users(d)'
  BY <1>0, <1>1, FutexAssumption, Zenon DEF Users, TableInv, TypeOK, WaitPC, WakePC, WaitQueued
<1>4. ASSUME NEW a \in Addr, NEW d \in EntryId, entries'[a] = d PROVE Users(d)' # {}
  <2>1. d = e \/ d = entries[a]
    BY <1>0, <1>1, <1>4, Zenon DEF TableInv, TypeOK
  <2>2. Users(d) # {} \/ d = e
    BY <2>1, FutexAssumption, Zenon DEF MapTidy
  <2> QED BY <2>2, <1>2, <1>3, Zenon
<1>5. \A a \in Addr : entries'[a] # None => entries'[a] \in EntryId
  BY <1>0, <1>1, Zenon DEF TableInv, TypeOK
<1> QED BY <1>4, <1>5, Zenon DEF MapTidy

\* release_entry by the last user erases the entry: nobody is queued then,
\* so there are no waiters and no credits left to keep it.
LEMMA ReleaseTidy ==
    ASSUME TableInv, MapTidy, NEW t \in Thread,
           pc[t] \in {"w_release", "k_release"}, release_entry(t)
    PROVE  MapTidy'
<1> DEFINE a == call[t].addr
           e == ent[t]
<1>0. /\ a \in Addr /\ e \in EntryId /\ e # None /\ pc' = [pc EXCEPT ![t] = "idle"]
      /\ ent' = [ent EXCEPT ![t] = None]
      /\ shutting_down' = shutting_down
      /\ entries' = entries \/ entries' = [entries EXCEPT ![a] = None]
  BY FutexAssumption, Zenon DEF release_entry, TableInv, HoldsEntry, WaitPC, WakePC, Args, Goto
<1>a. \A b \in Addr : entries'[b] # None => entries'[b] \in EntryId
  BY <1>0, Zenon DEF TableInv, TypeOK
<1>1. CASE shutting_down
  BY <1>0, <1>1, Zenon DEF MapTidy, TableInv, TypeOK
<1>2. CASE ~shutting_down
  <2>1. entries[a] = e
    BY <1>2, Zenon DEF TableInv, OneQueuePerAddress, WaitPC, WakePC
  <2>2. t \in Users(e) /\ Users(e) \in SUBSET Thread
    BY Zenon DEF Users, WaitPC, WakePC
  <2>3. \A d \in EntryId : Users(d)' = Users(d) \ {t}
    BY <1>0, Zenon DEF Users, TableInv, TypeOK, WaitPC, WakePC, WaitQueued
  <2>4. \A d \in EntryId : d # e => t \notin Users(d)
    BY Zenon DEF Users
  <2>5. CASE Users(e) \ {t} = {}
    <3>0. Users(e) = {t}
      BY <2>2, <2>5, Zenon
    <3>1. Cardinality(Users(e)) = 1
      BY <3>0, FS_Singleton, Zenon
    <3>2. users[e] = 1
      BY <2>1, <1>0, <3>1, Zenon DEF TableInv, UsersExact
    <3>3. Queued(e) \subseteq Users(e) /\ t \notin Queued(e)
      BY Zenon DEF Queued, Users, WaitPC, WaitQueued
    <3>4. Queued(e) = {}
      BY <3>3, <2>5, Zenon
    <3>5. waiters[e] = 0 /\ wake_credits[e] = 0
      <4>1. Cardinality(Queued(e)) = 0
        BY <3>4, FS_EmptySet, Zenon
      <4>2. waiters[e] = 0
        BY <1>0, <4>1, Zenon DEF TableInv, WaitersExact
      <4> QED BY <4>2, <1>0, <1>2 DEF TableInv, CreditsCovered, TypeOK
    <3>6. entries' = [entries EXCEPT ![a] = None]
      BY <2>1, <3>2, <3>5 DEF release_entry
    <3>7. \A b \in Addr : b # a => entries[b] # e
      BY <1>0, <2>1, Zenon DEF TableInv, MapConsistent
    <3>8. \A b \in Addr : entries'[b] # None => entries'[b] = entries[b] /\ entries[b] # e
      BY <3>6, <3>7, <1>0, Zenon DEF TableInv, TypeOK
    <3>9. \A b \in Addr, d \in EntryId : entries'[b] = d => Users(d)' # {}
      BY <3>8, <2>3, <2>4, <1>2, FutexAssumption DEF MapTidy
    <3> QED BY <3>9, <1>0, <1>2, <1>a, Zenon DEF MapTidy
  <2>6. CASE Users(e) \ {t} # {}
    <3>1. \A b \in Addr : entries'[b] # None => entries'[b] = entries[b]
      BY <1>0, Zenon DEF TableInv, TypeOK
    <3>2. \A b \in Addr, d \in EntryId : entries'[b] = d => Users(d)' # {}
      BY <3>1, <2>3, <2>4, <2>6, <1>2, FutexAssumption DEF MapTidy
    <3> QED BY <3>2, <1>0, <1>2, <1>a DEF MapTidy
  <2> QED BY <2>5, <2>6, Zenon
<1> QED BY <1>1, <1>2, Zenon

\* No step leaves an unused entry in the map.
LEMMA MapTidyStep == TableInv /\ MapTidy /\ [Next]_vars => MapTidy'
<1> SUFFICES ASSUME TableInv, MapTidy, [Next]_vars PROVE MapTidy'
  BY Zenon
<1>1. ASSUME NEW t \in Thread, NEW c \in WaitArgs, WaitCall(t, c) PROVE MapTidy'
  <2>1. CASE ~shutting_down
    <3>1. c \in Args /\ "w_lock" \in {"w_lock", "k_lock"}
      BY FutexAssumption DEF WaitArgs, Args
    <3> QED BY <1>1, <2>1, <3>1, AcquireTidy DEF WaitCall, Leave, Goto
  <2>2. CASE shutting_down
    BY <1>1, <2>2, NobodyLeaves, Zenon DEF WaitCall, shared
  <2> QED BY <2>1, <2>2, Zenon
<1>2. ASSUME NEW t \in Thread, NEW c \in WakeArgs, WakeCall(t, c) PROVE MapTidy'
  <2>1. CASE AcquireExisting(t, c.addr) /\ ~shutting_down /\ Leave(t, "k_lock", "none")
    <3>1. c \in Args /\ "k_lock" \in {"w_lock", "k_lock"}
      BY Zenon DEF WakeArgs, Args
    <3> QED BY <1>2, <2>1, <3>1, AcquireTidy, Zenon DEF WakeCall, Leave, Goto
  <2>2. CASE UNCHANGED <<entries, pc, ent>>
    BY <1>2, <2>2, NobodyLeaves, Zenon DEF WakeCall
  <2> QED BY <1>2, <2>1, <2>2, Zenon DEF WakeCall
<1>3. ASSUME NEW t \in Thread, WaitRefused(t) PROVE MapTidy'
  BY <1>3, NobodyLeaves, Zenon DEF WaitRefused, shared
<1>4. ASSUME NEW t \in Thread, ShutdownCall(t) PROVE MapTidy'
  <2>1. CASE shutting_down
    BY <1>4, <2>1, NobodyLeaves, Zenon DEF ShutdownCall
  <2>2. CASE ~shutting_down
    BY <1>4, <2>2, Zenon DEF ShutdownCall, MapTidy, Leave, Goto, TableInv, TypeOK
  <2> QED BY <2>1, <2>2, Zenon
<1>5. ASSUME NEW t \in Thread,
             \/ WaitRead(t) \/ WaitCheck(t) \/ WaitPredicate(t) \/ WaitBlock(t)
             \/ WaitResume(t) \/ WaitDone(t) \/ WakeCredit(t)
             \/ SpuriousWakeup(t) \/ Expire(t)
      PROVE  MapTidy'
  <2>1. /\ UNCHANGED <<entries, shutting_down, ent>>
        /\ pc[t] \in WaitPC \cup WakePC
        /\ \E l \in WaitPC \cup WakePC : pc' = [pc EXCEPT ![t] = l]
    <3> USE DEF Goto, Leave, shared, WaitPC, WakePC, WaitQueued
    <3>1. CASE WaitRead(t) \/ WaitCheck(t) \/ WaitPredicate(t)
      BY <3>1, Zenon DEF WaitRead, WaitCheck, WaitPredicate
    <3>2. CASE WaitBlock(t) \/ SpuriousWakeup(t) \/ Expire(t)
      BY <3>2, Zenon DEF WaitBlock, SpuriousWakeup, Expire
    <3>3. CASE WaitResume(t) \/ WaitDone(t) \/ WakeCredit(t)
      BY <3>3, Zenon DEF WaitResume, WaitDone, WakeCredit
    <3> QED BY <1>5, <3>1, <3>2, <3>3, Zenon
  <2>2. \A u \in Thread : /\ pc[u] \in WaitPC \cup WakePC => pc'[u] \in WaitPC \cup WakePC
                          /\ pc[u] = "s_clear" => pc'[u] = "s_clear"
    BY <2>1, Zenon DEF TableInv, TypeOK, WaitPC, WakePC, WaitQueued
  <2> QED BY <2>1, <2>2, NobodyLeaves, Zenon
<1>6. ASSUME NEW t \in Thread, WaitRelease(t) \/ WakeRelease(t) PROVE MapTidy'
  BY <1>6, ReleaseTidy, Zenon DEF WaitRelease, WakeRelease
<1>7. ASSUME NEW t \in Thread, WakeNotify(t) PROVE MapTidy'
  <2>1. \A u \in Thread : /\ pc[u] \in WaitPC \cup WakePC => pc'[u] \in WaitPC \cup WakePC
                          /\ pc[u] = "s_clear" => pc'[u] = "s_clear"
    BY <1>7, Zenon DEF WakeNotify, Goto, Asleep, TableInv, TypeOK, WaitPC, WakePC, WaitQueued
  <2>2. UNCHANGED <<entries, shutting_down, ent>>
    BY <1>7, Zenon DEF WakeNotify, shared
  <2> QED BY <2>1, <2>2, NobodyLeaves, Zenon
<1>8. ASSUME NEW t \in Thread, ShutdownClear(t) PROVE MapTidy'
  <2>1. shutting_down' /\ \A a \in Addr : entries'[a] = None
    BY <1>8, Zenon DEF ShutdownClear, TableInv, StopImpliesFlag, StopPC
  <2> QED BY <2>1, Zenon DEF MapTidy
<1>9. ASSUME NEW t \in Thread, ShutdownNotify(t) PROVE MapTidy'
  <2>1. \A u \in Thread : /\ pc[u] \in WaitPC \cup WakePC => pc'[u] \in WaitPC \cup WakePC
                          /\ pc[u] = "s_clear" => pc'[u] = "s_clear"
    BY <1>9 DEF ShutdownNotify, Leave, Goto, Asleep, TableInv, TypeOK, WaitPC, WakePC, WaitQueued
  <2>2. UNCHANGED <<entries, shutting_down, ent>>
    BY <1>9, Zenon DEF ShutdownNotify, shared
  <2> QED BY <2>1, <2>2, NobodyLeaves
<1>10. ASSUME NEW a \in Addr, NEW v \in Word, GuestStore(a, v) PROVE MapTidy'
  BY <1>10, NobodyLeaves, Zenon DEF GuestStore, shared, local
<1>11. CASE UNCHANGED vars
  BY <1>11, NobodyLeaves, Zenon DEF vars, shared, local
<1> QED BY <1>1, <1>2, <1>3, <1>4, <1>5, <1>6, <1>7, <1>8, <1>9, <1>10, <1>11, Zenon
        DEF Next, Progress

-----------------------------------------------------------------------------
(* A waiter about to sleep has no credit.                                  *)

LEMMA SleepsWithoutCreditStep ==
    TableInv /\ SleepsWithoutCredit /\ [Next]_vars => SleepsWithoutCredit'
<1> SUFFICES ASSUME TableInv, SleepsWithoutCredit, [Next]_vars, ~shutting_down',
                    NEW u \in Thread, pc'[u] = "w_block"
             PROVE  wake_credits'[ent'[u]] = 0
  BY Zenon DEF SleepsWithoutCredit
<1> USE DEF TableInv, TypeOK
<1>0. /\ pc[u] = "w_block" =>
           ent[u] \in EntryId /\ owner[ent[u]] = u /\ (~shutting_down => wake_credits[ent[u]] = 0)
      /\ \A t \in Thread : ent[t] = None \/ ent[t] \in EntryId
  BY FutexAssumption DEF SleepsWithoutCredit, HoldsEntry, MutexHeld, Locked, WaitPC, WaitQueued
<1>1. ASSUME NEW t \in Thread, NEW c \in Args, NEW l \in {"w_lock", "k_lock"},
             AcquireExisting(t, c.addr) \/ AcquireNew(t, c.addr),
             pc[t] = "idle", pc' = [pc EXCEPT ![t] = l], ~shutting_down
      PROVE  wake_credits'[ent'[u]] = 0
  <2>1. u # t /\ pc[u] = "w_block"
    BY <1>1, Zenon
  <2>2. \A e \in EntryId : wake_credits'[e] = wake_credits[e] \/ wake_credits'[e] = 0
    BY <1>1, Zenon DEF AcquireExisting, AcquireNew
  <2>3. ent'[u] = ent[u]
    BY <1>1, <2>1, Zenon DEF AcquireExisting, AcquireNew
  <2> QED BY <2>1, <2>2, <2>3, <1>0, <1>1, Zenon
<1>2. ASSUME NEW t \in Thread, NEW c \in WaitArgs, WaitCall(t, c)
      PROVE  wake_credits'[ent'[u]] = 0
  <2>1. c \in Args /\ "w_lock" \in {"w_lock", "k_lock"}
    BY FutexAssumption DEF WaitArgs, Args
  <2> QED BY <1>0, <1>1, <1>2, <2>1, Zenon DEF WaitCall, Leave, Goto, shared
<1>3. ASSUME NEW t \in Thread, NEW c \in WakeArgs, WakeCall(t, c)
      PROVE  wake_credits'[ent'[u]] = 0
  <2>1. c \in Args /\ "k_lock" \in {"w_lock", "k_lock"}
    BY Zenon DEF WakeArgs, Args
  <2> QED BY <1>0, <1>1, <1>3, <2>1, Zenon DEF WakeCall, Leave, Goto, shared
<1>4. ASSUME NEW t \in Thread, WaitRefused(t) \/ ShutdownCall(t)
      PROVE  wake_credits'[ent'[u]] = 0
  BY <1>0, <1>4, Zenon DEF WaitRefused, ShutdownCall, Leave, Goto, shared
<1>5. ASSUME NEW t \in Thread, WaitRead(t) \/ WaitCheck(t) \/ WaitBlock(t)
                               \/ SpuriousWakeup(t) \/ Expire(t)
      PROVE  wake_credits'[ent'[u]] = 0
  BY <1>0, <1>5, Zenon DEF WaitRead, WaitCheck, WaitBlock, SpuriousWakeup, Expire, Leave, Goto, shared
<1>6. ASSUME NEW t \in Thread, WaitPredicate(t) \/ WaitResume(t)
      PROVE  wake_credits'[ent'[u]] = 0
  BY <1>0, <1>6, Zenon DEF WaitPredicate, WaitResume, Ready, Leave, Goto, shared
<1>7. ASSUME NEW t \in Thread, WaitDone(t)
      PROVE  wake_credits'[ent'[u]] = 0
  <2>1. u # t /\ pc[u] = "w_block" /\ ent'[u] = ent[u]
    BY <1>7, Zenon DEF WaitDone, Leave, Goto
  <2>2. ent[t] \in EntryId /\ owner[ent[t]] = t
    BY <1>7, Zenon DEF WaitDone, HoldsEntry, MutexHeld, Locked, WaitPC, WaitQueued
  <2> QED BY <1>0, <1>7, <2>1, <2>2, Zenon DEF WaitDone, Leave, Goto
<1>8. ASSUME NEW t \in Thread, WakeCredit(t)
      PROVE  wake_credits'[ent'[u]] = 0
  <2>1. u # t /\ pc[u] = "w_block" /\ ent'[u] = ent[u]
    BY <1>8, Zenon DEF WakeCredit, Goto
  <2>2. owner[ent[t]] = None /\ ~shutting_down
    BY <1>8, Zenon DEF WakeCredit
  <2>3. ent[t] # ent[u]
    BY <1>0, <2>1, <2>2, FutexAssumption, Zenon
  <2> QED BY <1>0, <1>8, <2>1, <2>2, <2>3, Zenon DEF WakeCredit
<1>9. ASSUME NEW t \in Thread, WakeNotify(t)
      PROVE  wake_credits'[ent'[u]] = 0
  BY <1>0, <1>9, Zenon DEF WakeNotify, Asleep, Goto, shared
<1>10. ASSUME NEW t \in Thread, WaitRelease(t) \/ WakeRelease(t)
       PROVE  wake_credits'[ent'[u]] = 0
  BY <1>0, <1>10, Zenon DEF WaitRelease, WakeRelease, release_entry, Goto
<1>11. ASSUME NEW t \in Thread, ShutdownClear(t) \/ ShutdownNotify(t)
       PROVE  wake_credits'[ent'[u]] = 0
  BY <1>11, Zenon DEF ShutdownClear, ShutdownNotify, StopImpliesFlag, StopPC, shared
<1>12. ASSUME NEW a \in Addr, NEW v \in Word, GuestStore(a, v)
       PROVE  wake_credits'[ent'[u]] = 0
  BY <1>0, <1>12, Zenon DEF GuestStore, shared, local
<1>13. CASE UNCHANGED vars
  BY <1>0, <1>13, Zenon DEF vars, shared, local
<1> QED BY <1>2, <1>3, <1>4, <1>5, <1>6, <1>7, <1>8, <1>9, <1>10, <1>11, <1>12, <1>13, Zenon
        DEF Next, Progress

-----------------------------------------------------------------------------
(* Every credit has a runner or a notification to come.                    *)

\* Sets of notifications are finite, and grow and shrink one by one.
LEMMA NotifySets ==
    /\ \A S \in SUBSET (Thread \X (1 .. MaxCount)) :
         IsFiniteSet(S) /\ Cardinality(S) \in Nat
    /\ \A S, T \in SUBSET (Thread \X (1 .. MaxCount)) :
         S \subseteq T => Cardinality(S) <= Cardinality(T)
    /\ \A S \in SUBSET (Thread \X (1 .. MaxCount)), x \in Thread \X (1 .. MaxCount) :
         x \in S => Cardinality(S \ {x}) = Cardinality(S) - 1
<1>1. IsFiniteSet(1 .. MaxCount)
  BY FS_Interval, FutexAssumption
<1>2. IsFiniteSet(Thread \X (1 .. MaxCount))
  BY <1>1, FS_Product, FutexAssumption, Zenon
<1>3. ASSUME NEW S \in SUBSET (Thread \X (1 .. MaxCount))
      PROVE  IsFiniteSet(S) /\ Cardinality(S) \in Nat
  BY <1>2, FS_Subset, FS_CardinalityType, Zenon
<1>4. ASSUME NEW S \in SUBSET (Thread \X (1 .. MaxCount)),
             NEW T \in SUBSET (Thread \X (1 .. MaxCount)), S \subseteq T
      PROVE  Cardinality(S) <= Cardinality(T)
  <2>1. S \in SUBSET T /\ IsFiniteSet(T)
    BY <1>3, <1>4, Zenon
  <2> QED BY <2>1, FS_Subset, Zenon
<1>5. ASSUME NEW S \in SUBSET (Thread \X (1 .. MaxCount)),
             NEW x \in Thread \X (1 .. MaxCount), x \in S
      PROVE  Cardinality(S \ {x}) = Cardinality(S) - 1
  BY <1>3, <1>5, FS_RemoveElement, Zenon
<1> QED BY <1>3, <1>4, <1>5, Zenon

\* The n notifications of one thread, added to those of others.
LEMMA NotifiesAdded ==
    ASSUME NEW S \in SUBSET (Thread \X (1 .. MaxCount)), NEW t \in Thread,
           NEW n \in 0 .. MaxCount, \A p \in S : p[1] # t
    PROVE  Cardinality(S \cup ({t} \X (1 .. n))) = Cardinality(S) + n
<1> DEFINE T == {t} \X (1 .. n)
<1>1. IsFiniteSet({t}) /\ Cardinality({t}) = 1
  BY FS_Singleton, Zenon
<1>2. n \in Nat /\ IsFiniteSet(1 .. n) /\ Cardinality(1 .. n) = n
  BY FS_Interval, FutexAssumption
<1>3. IsFiniteSet(T) /\ Cardinality(T) = n
  <2>1. IsFiniteSet(T) /\ Cardinality(T) = Cardinality({t}) * Cardinality(1 .. n)
    BY <1>1, <1>2, FS_Product, Zenon
  <2> QED BY <2>1, <1>1, <1>2
<1>4. S \cap T = {}
  BY Zenon
<1>5. Cardinality(S \cap T) = 0
  BY <1>4, FS_EmptySet, Zenon
<1>6. IsFiniteSet(S) /\ Cardinality(S) \in Nat
  BY NotifySets, Zenon
<1> HIDE DEF T
<1>7. Cardinality(S \cup T) = Cardinality(S) + Cardinality(T) - Cardinality(S \cap T)
  BY <1>3, <1>6, FS_Union, Zenon
<1>8. Cardinality(S \cup T) = Cardinality(S) + n
  BY <1>2, <1>3, <1>5, <1>6, <1>7
<1> QED BY <1>8, Zenon DEF T

LEMMA RunnerSets ==
    \A e : /\ Runners(e) \in SUBSET Thread /\ Cardinality(Runners(e)) \in Nat
          /\ PendingNotifies(e) \in SUBSET (Thread \X (1 .. MaxCount))
          /\ Cardinality(PendingNotifies(e)) \in Nat
<1>1. \A e : /\ Runners(e) \in SUBSET Thread
            /\ PendingNotifies(e) \in SUBSET (Thread \X (1 .. MaxCount))
  BY Zenon DEF Runners, Queued, PendingNotifies
<1> QED BY <1>1, ThreadSets, NotifySets, Zenon

\* A step that adds no credit and takes no runner and no notification away.
LEMMA NoRunnerLost ==
    ASSUME TableInv, CreditsHaveRunners, shutting_down' = shutting_down,
           \A e \in EntryId : wake_credits'[e] = wake_credits[e] \/ wake_credits'[e] = 0,
           \A t \in Thread : pc[t] \in WaitQueued \ {"w_sleep"} =>
                pc'[t] \in WaitQueued \ {"w_sleep"} /\ ent'[t] = ent[t],
           \A t \in Thread : pc[t] = "k_notify" =>
                /\ pc'[t] = "k_notify" \/ call[t].count = 0
                /\ ent'[t] = ent[t] /\ call'[t].count = call[t].count
    PROVE  CreditsHaveRunners'
<1> SUFFICES ASSUME ~shutting_down, NEW e \in EntryId
             PROVE  wake_credits'[e] <= Cardinality(Runners(e)') + Cardinality(PendingNotifies(e)')
  BY Zenon DEF CreditsHaveRunners
<1>1. /\ Runners(e)' \in SUBSET Thread
      /\ PendingNotifies(e)' \in SUBSET (Thread \X (1 .. MaxCount))
  BY Zenon DEF Runners, Queued, PendingNotifies
<1>2. Runners(e) \in SUBSET Thread /\ PendingNotifies(e) \in SUBSET (Thread \X (1 .. MaxCount))
  BY RunnerSets, Zenon
<1>3. Runners(e) \subseteq Runners(e)' /\ PendingNotifies(e) \subseteq PendingNotifies(e)'
  BY DEF Runners, Queued, Asleep, PendingNotifies
<1>4. Cardinality(PendingNotifies(e)) <= Cardinality(PendingNotifies(e)')
  BY <1>1, <1>2, <1>3, NotifySets, Zenon
<1>5. IsFiniteSet(Runners(e)') /\ Runners(e) \in SUBSET Runners(e)'
  BY <1>1, <1>3, ThreadSets, Zenon
<1>6. Cardinality(Runners(e)) <= Cardinality(Runners(e)')
  BY <1>5, FS_Subset, Zenon
<1>7. wake_credits[e] <= Cardinality(Runners(e)) + Cardinality(PendingNotifies(e))
  BY Zenon DEF CreditsHaveRunners
<1>8. /\ Cardinality(Runners(e)) \in Nat /\ Cardinality(Runners(e)') \in Nat
      /\ Cardinality(PendingNotifies(e)) \in Nat /\ Cardinality(PendingNotifies(e)') \in Nat
  BY <1>1, <1>2, ThreadSets, NotifySets, Zenon
<1>9. wake_credits[e] \in Nat
  BY Zenon DEF TableInv, TypeOK
<1> QED BY <1>4, <1>6, <1>7, <1>8, <1>9

\* A waiter that goes to sleep or gives up finds no credit.
LEMMA RunnerStopsWithoutCredit ==
    ASSUME TableInv, CreditsHaveRunners, NEW t \in Thread, NEW l \in {"w_sleep", "w_release"},
           pc[t] \in WaitQueued, wake_credits[ent[t]] = 0,
           pc' = [pc EXCEPT ![t] = l],
           UNCHANGED <<shutting_down, wake_credits, ent, call>>
    PROVE  CreditsHaveRunners'
<1> SUFFICES ASSUME ~shutting_down, NEW e \in EntryId
             PROVE  wake_credits[e] <= Cardinality(Runners(e)') + Cardinality(PendingNotifies(e)')
  BY Zenon DEF CreditsHaveRunners
<1>1. /\ Runners(e)' \in SUBSET Thread
      /\ PendingNotifies(e)' \in SUBSET (Thread \X (1 .. MaxCount))
  BY Zenon DEF Runners, Queued, PendingNotifies
<1>2. Cardinality(Runners(e)') \in Nat /\ Cardinality(PendingNotifies(e)') \in Nat
  BY <1>1, ThreadSets, NotifySets, Zenon
<1>3. CASE e = ent[t]
  BY <1>2, <1>3
<1>4. CASE e # ent[t]
  <2>1. Runners(e)' = Runners(e) /\ PendingNotifies(e)' = PendingNotifies(e)
    BY <1>4, Zenon DEF Runners, Queued, Asleep, PendingNotifies, TableInv, TypeOK, WaitQueued
  <2> QED BY <2>1, Zenon DEF CreditsHaveRunners
<1> QED BY <1>3, <1>4, Zenon

\* A waiter that is woken takes one credit along.
LEMMA RunnerTakesCredit ==
    ASSUME TableInv, CreditsHaveRunners, NEW t \in Thread, WaitDone(t)
    PROVE  CreditsHaveRunners'
<1> SUFFICES ASSUME ~shutting_down, NEW e \in EntryId
             PROVE  wake_credits'[e] <= Cardinality(Runners(e)') + Cardinality(PendingNotifies(e)')
  BY Zenon DEF CreditsHaveRunners, WaitDone
<1>0. /\ pc[t] = "w_done" /\ pc' = [pc EXCEPT ![t] = "w_release"]
      /\ wake_credits' = [wake_credits EXCEPT ![ent[t]] = @ - 1]
      /\ UNCHANGED <<ent, call>>
  BY Zenon DEF WaitDone, Leave, Goto
<1>1. PendingNotifies(e)' = PendingNotifies(e)
  BY <1>0, Zenon DEF PendingNotifies, TableInv, TypeOK
<1>2. Runners(e)' = Runners(e) \ {t}
  BY <1>0, Zenon DEF Runners, Queued, Asleep, TableInv, TypeOK, WaitQueued
<1>3. /\ wake_credits[e] <= Cardinality(Runners(e)) + Cardinality(PendingNotifies(e))
      /\ wake_credits[e] \in Nat
  BY Zenon DEF CreditsHaveRunners, TableInv, TypeOK
<1>4. CASE e = ent[t]
  <2>1. t \in Runners(e)
    BY <1>0, <1>4, Zenon DEF Runners, Queued, Asleep, WaitQueued
  <2>2. Cardinality(Runners(e)') = Cardinality(Runners(e)) - 1
    BY <1>2, <2>1, RunnerSets, ThreadSets, Zenon
  <2>3. wake_credits'[e] = wake_credits[e] - 1
    BY <1>0, <1>4, Zenon DEF TableInv, TypeOK
  <2>4. Cardinality(Runners(e)) \in Nat /\ Cardinality(PendingNotifies(e)) \in Nat
    BY RunnerSets, Zenon
  <2> QED BY <1>1, <1>3, <2>2, <2>3, <2>4
<1>5. CASE e # ent[t]
  <2>1. t \notin Runners(e)
    BY <1>5, Zenon DEF Runners, Queued
  <2>2. Runners(e)' = Runners(e) /\ wake_credits'[e] = wake_credits[e]
    BY <2>1, <1>0, <1>2, <1>5, Zenon DEF TableInv, TypeOK
  <2> QED BY <1>1, <1>3, <2>2, Zenon
<1> QED BY <1>4, <1>5, Zenon

\* wake announces one notification for each credit it hands out.
LEMMA CreditsAnnounced ==
    ASSUME TableInv, CreditsHaveRunners, NEW t \in Thread, WakeCredit(t)
    PROVE  CreditsHaveRunners'
<1> SUFFICES ASSUME ~shutting_down, NEW e \in EntryId
             PROVE  wake_credits'[e] <= Cardinality(Runners(e)') + Cardinality(PendingNotifies(e)')
  BY Zenon DEF CreditsHaveRunners, WakeCredit
<1>0. ent[t] \in EntryId /\ pc[t] = "k_lock" /\ call[t] \in Args
  BY Zenon DEF WakeCredit, TableInv, HoldsEntry, WakePC
<1>1. PICK n \in 0 .. MaxCount :
        /\ wake_credits' = [wake_credits EXCEPT ![ent[t]] = @ + n]
        /\ call' = [call EXCEPT ![t].count = n]
  <2> DEFINE available == IF waiters[ent[t]] > wake_credits[ent[t]]
                          THEN waiters[ent[t]] - wake_credits[ent[t]] ELSE 0
             m == IF call[t].count < available THEN call[t].count ELSE available
  <2>1. waiters[ent[t]] \in Nat /\ wake_credits[ent[t]] \in Nat /\ call[t].count \in 0 .. MaxCount
    BY <1>0, Zenon DEF TableInv, TypeOK, Args
  <2>2. m \in 0 .. MaxCount
    BY <2>1, FutexAssumption
  <2> QED BY <2>2, Zenon DEF WakeCredit
<1>2. pc' = [pc EXCEPT ![t] = "k_notify"] /\ ent' = ent
  BY Zenon DEF WakeCredit, Goto
<1>3. Runners(e)' = Runners(e)
  BY <1>0, <1>2, Zenon DEF Runners, Queued, Asleep, TableInv, TypeOK, WaitQueued
<1>4. /\ wake_credits[e] <= Cardinality(Runners(e)) + Cardinality(PendingNotifies(e))
      /\ wake_credits[e] \in Nat
  BY Zenon DEF CreditsHaveRunners, TableInv, TypeOK
<1>5. /\ call'[t].count = n
      /\ \A u \in Thread \ {t} : call'[u] = call[u] /\ pc'[u] = pc[u]
      /\ pc'[t] = "k_notify"
  BY <1>0, <1>1, <1>2, Zenon DEF TableInv, TypeOK, Args
<1>6. \A p \in PendingNotifies(e) : p[1] # t
  BY <1>0, Zenon DEF PendingNotifies
<1>7. CASE e = ent[t]
  <2>1. PendingNotifies(e)' = PendingNotifies(e) \cup ({t} \X (1 .. n))
    <3>1. ASSUME NEW u \in Thread, NEW i \in 1 .. MaxCount
          PROVE  <<u, i>> \in PendingNotifies(e)'
                   <=> <<u, i>> \in PendingNotifies(e) \/ (u = t /\ i <= n)
      BY <1>0, <1>2, <1>5, <1>7, Zenon DEF PendingNotifies
    <3> QED BY <3>1, FutexAssumption DEF PendingNotifies
  <2>2. Cardinality(PendingNotifies(e)') = Cardinality(PendingNotifies(e)) + n
    BY <1>6, <2>1, RunnerSets, NotifiesAdded
  <2>3. wake_credits'[e] = wake_credits[e] + n
    BY <1>0, <1>1, <1>7, Zenon DEF TableInv, TypeOK
  <2>4. Cardinality(Runners(e)) \in Nat /\ Cardinality(PendingNotifies(e)) \in Nat /\ n \in Nat
    BY RunnerSets, FutexAssumption
  <2> QED BY <1>3, <1>4, <2>2, <2>3, <2>4
<1>8. CASE e # ent[t]
  <2>1. PendingNotifies(e)' = PendingNotifies(e)
    BY <1>2, <1>5, <1>8, Zenon DEF PendingNotifies
  <2>2. wake_credits'[e] = wake_credits[e]
    BY <1>1, <1>8, Zenon DEF TableInv, TypeOK
  <2> QED BY <1>3, <1>4, <2>1, <2>2, Zenon
<1> QED BY <1>7, <1>8, Zenon

\* notify_one turns a notification into a runner.  With nobody asleep the
\* credits are covered by the waiters, and these are all awake.
LEMMA NotifyMakesRunner ==
    ASSUME TableInv, CreditsHaveRunners, NEW t \in Thread, WakeNotify(t), call[t].count > 0
    PROVE  CreditsHaveRunners'
<1> SUFFICES ASSUME ~shutting_down, NEW e \in EntryId
             PROVE  wake_credits[e] <= Cardinality(Runners(e)') + Cardinality(PendingNotifies(e)')
  BY Zenon DEF CreditsHaveRunners, WakeNotify, shared
<1> DEFINE c == call[t].count
<1>0. /\ pc[t] = "k_notify" /\ call[t] \in Args /\ c \in 1 .. MaxCount /\ ent[t] \in EntryId
      /\ ent' = ent /\ wake_credits' = wake_credits
      /\ call' = [call EXCEPT ![t].count = c - 1]
  BY FutexAssumption DEF WakeNotify, shared, TableInv, TypeOK, HoldsEntry, WakePC, Args
<1>1. /\ call'[t].count = c - 1
      /\ \A u \in Thread \ {t} : call'[u] = call[u]
  BY <1>0, Zenon DEF TableInv, TypeOK, Args
<1>2. \/ \E w \in Asleep(ent[t]) : pc' = [pc EXCEPT ![w] = "w_notified"]
      \/ Asleep(ent[t]) = {} /\ pc' = pc
  BY <1>0 DEF WakeNotify, Goto
<1>3. \A u \in Thread : pc'[u] = "k_notify" <=> pc[u] = "k_notify"
  BY <1>2, Zenon DEF Asleep, TableInv, TypeOK
<1>4. /\ wake_credits[e] <= Cardinality(Runners(e)) + Cardinality(PendingNotifies(e))
      /\ wake_credits[e] \in Nat
  BY Zenon DEF CreditsHaveRunners, TableInv, TypeOK
<1>5. /\ Cardinality(Runners(e)) \in Nat /\ Cardinality(PendingNotifies(e)) \in Nat
      /\ Runners(e) \in SUBSET Thread
      /\ PendingNotifies(e) \in SUBSET (Thread \X (1 .. MaxCount))
      /\ PendingNotifies(e)' \in SUBSET (Thread \X (1 .. MaxCount))
      /\ Cardinality(PendingNotifies(e)') \in Nat
  <2>1. PendingNotifies(e)' \in SUBSET (Thread \X (1 .. MaxCount))
    BY Zenon DEF PendingNotifies
  <2> QED BY <2>1, RunnerSets, NotifySets, Zenon
<1>6. CASE e # ent[t]
  <2>1. Runners(e)' = Runners(e) /\ PendingNotifies(e)' = PendingNotifies(e)
    BY <1>0, <1>1, <1>2, <1>3, <1>6
       DEF Runners, Queued, Asleep, PendingNotifies, TableInv, TypeOK, WaitQueued
  <2> QED BY <1>4, <2>1, Zenon
<1>7. CASE e = ent[t] /\ Asleep(e) = {} /\ pc' = pc
  <2>1. Runners(e)' = Queued(e)
    BY <1>0, <1>7, Zenon DEF Runners, Queued, Asleep
  <2>2. wake_credits[e] <= Cardinality(Queued(e))
    BY Zenon DEF TableInv, CreditsCovered, WaitersExact
  <2>3. Cardinality(Queued(e)) \in Nat
    BY ThreadSets, Zenon DEF Queued
  <2> QED BY <1>4, <1>5, <2>1, <2>2, <2>3
<1>8. ASSUME e = ent[t], NEW w \in Asleep(e), pc' = [pc EXCEPT ![w] = "w_notified"]
      PROVE  wake_credits[e] <= Cardinality(Runners(e)') + Cardinality(PendingNotifies(e)')
  <2>1. Runners(e)' = Runners(e) \cup {w} /\ w \in Thread /\ w \notin Runners(e)
    BY <1>0, <1>8, Zenon DEF Runners, Queued, Asleep, TableInv, TypeOK, WaitQueued
  <2>2. Cardinality(Runners(e)') = Cardinality(Runners(e)) + 1
    BY <2>1, <1>5, ThreadSets, Zenon
  <2>3. PendingNotifies(e)' = PendingNotifies(e) \ {<<t, c>>}
    <3>1. ASSUME NEW u \in Thread, NEW i \in 1 .. MaxCount
          PROVE  <<u, i>> \in PendingNotifies(e)'
                   <=> <<u, i>> \in PendingNotifies(e) /\ <<u, i>> # <<t, c>>
      BY <1>0, <1>1, <1>3, <1>8 DEF PendingNotifies
    <3> QED BY <3>1, <1>5
  <2>4. <<t, c>> \in PendingNotifies(e)
    BY <1>0, <1>8 DEF PendingNotifies
  <2>5. Cardinality(PendingNotifies(e)') = Cardinality(PendingNotifies(e)) - 1
    BY <2>3, <2>4, <1>5, NotifySets, Zenon
  <2> QED BY <1>4, <1>5, <2>2, <2>5
<1> QED BY <1>2, <1>6, <1>7, <1>8, Zenon

LEMMA CreditsHaveRunnersStep ==
    TableInv /\ SleepsWithoutCredit /\ CreditsHaveRunners /\ [Next]_vars => CreditsHaveRunners'
<1> SUFFICES ASSUME TableInv, SleepsWithoutCredit, CreditsHaveRunners, [Next]_vars
             PROVE  CreditsHaveRunners'
  BY Zenon
<1> USE DEF WaitQueued
<1>1. ASSUME NEW t \in Thread, NEW l \in {"w_lock", "k_lock"}, NEW a \in Addr, NEW c \in Args,
             AcquireExisting(t, a) \/ AcquireNew(t, a),
             pc[t] = "idle", pc' = [pc EXCEPT ![t] = l], call' = [call EXCEPT ![t] = c],
             shutting_down' = shutting_down
      PROVE  CreditsHaveRunners'
  <2>1. \A e \in EntryId : wake_credits'[e] = wake_credits[e] \/ wake_credits'[e] = 0
    BY <1>1, Zenon DEF AcquireExisting, AcquireNew, TableInv, TypeOK
  <2>2. \A u \in Thread : u # t => pc'[u] = pc[u] /\ ent'[u] = ent[u] /\ call'[u] = call[u]
    BY <1>1 DEF AcquireExisting, AcquireNew, TableInv, TypeOK
  <2> QED BY <2>1, <2>2, <1>1, NoRunnerLost, Zenon
<1>2. ASSUME NEW t \in Thread, NEW c \in WaitArgs, WaitCall(t, c) PROVE CreditsHaveRunners'
  <2>1. c \in Args /\ c.addr \in Addr /\ "w_lock" \in {"w_lock", "k_lock"}
    BY FutexAssumption DEF WaitArgs, Args
  <2>2. CASE shutting_down
    BY <1>2, <2>2, NoRunnerLost, Zenon DEF WaitCall, shared
  <2>3. CASE ~shutting_down
    BY <1>1, <1>2, <2>1, <2>3, Zenon DEF WaitCall, Leave, Goto
  <2> QED BY <2>2, <2>3, Zenon
<1>3. ASSUME NEW t \in Thread, NEW c \in WakeArgs, WakeCall(t, c) PROVE CreditsHaveRunners'
  <2>1. c \in Args /\ c.addr \in Addr /\ "k_lock" \in {"w_lock", "k_lock"}
    BY Zenon DEF WakeArgs, Args
  <2>2. CASE UNCHANGED <<wake_credits, pc, call, ent>>
    BY <1>3, <2>2, NoRunnerLost, Zenon DEF WakeCall
  <2>3. CASE AcquireExisting(t, c.addr) /\ Leave(t, "k_lock", "none")
             /\ call' = [call EXCEPT ![t] = c]
    BY <1>1, <1>3, <2>1, <2>3, Zenon DEF WakeCall, Leave, Goto
  <2> QED BY <1>3, <2>2, <2>3, Zenon DEF WakeCall
<1>4. ASSUME NEW t \in Thread, WaitRefused(t) PROVE CreditsHaveRunners'
  BY <1>4, NoRunnerLost, Zenon DEF WaitRefused, shared
<1>5. ASSUME NEW t \in Thread, ShutdownCall(t) PROVE CreditsHaveRunners'
  <2>1. CASE shutting_down
    BY <1>5, <2>1, NoRunnerLost, Zenon DEF ShutdownCall
  <2>2. CASE ~shutting_down
    BY <1>5, <2>2, Zenon DEF ShutdownCall, CreditsHaveRunners
  <2> QED BY <2>1, <2>2, Zenon
<1>6. ASSUME NEW t \in Thread, WaitRead(t) \/ WaitCheck(t) \/ WaitPredicate(t)
                               \/ SpuriousWakeup(t) \/ Expire(t)
      PROVE  CreditsHaveRunners'
  <2>1. UNCHANGED <<shutting_down, wake_credits, ent, call>>
    BY <1>6, Zenon DEF WaitRead, WaitCheck, WaitPredicate, SpuriousWakeup, Expire, shared
  <2>2. \A u \in Thread : /\ pc[u] \in WaitQueued \ {"w_sleep"} => pc'[u] \in WaitQueued \ {"w_sleep"}
                          /\ pc[u] = "k_notify" => pc'[u] = "k_notify"
    BY <1>6, Zenon DEF WaitRead, WaitCheck, WaitPredicate, SpuriousWakeup, Expire, Goto, Leave,
                TableInv, TypeOK
  <2> QED BY <2>1, <2>2, NoRunnerLost, Zenon
<1>7. ASSUME NEW t \in Thread, WaitBlock(t) PROVE CreditsHaveRunners'
  <2>1. CASE shutting_down
    BY <1>7, <2>1, Zenon DEF WaitBlock, CreditsHaveRunners
  <2>2. CASE ~shutting_down
    BY <1>7, <2>2, RunnerStopsWithoutCredit, Zenon DEF WaitBlock, Goto, SleepsWithoutCredit
  <2> QED BY <2>1, <2>2
<1>8. ASSUME NEW t \in Thread, WaitResume(t) PROVE CreditsHaveRunners'
  <2>1. UNCHANGED <<shutting_down, wake_credits, ent, call>>
    BY <1>8, Zenon DEF WaitResume
  <2>2. CASE pc' = [pc EXCEPT ![t] = "w_done"] \/ pc' = [pc EXCEPT ![t] = "w_block"]
    BY <1>8, <2>1, <2>2, NoRunnerLost DEF WaitResume, TableInv, TypeOK
  <2>3. CASE pc' = [pc EXCEPT ![t] = "w_release"] /\ ~Ready(ent[t])
    BY <1>8, <2>1, <2>3, RunnerStopsWithoutCredit, Zenon DEF WaitResume, Ready
  <2> QED BY <1>8, <2>2, <2>3, Zenon DEF WaitResume, Goto, Leave
<1>9. ASSUME NEW t \in Thread, WaitRelease(t) \/ WakeRelease(t) PROVE CreditsHaveRunners'
  BY <1>9, NoRunnerLost, Zenon DEF WaitRelease, WakeRelease, release_entry, Goto, TableInv, TypeOK
<1>10. ASSUME NEW t \in Thread, WakeNotify(t) PROVE CreditsHaveRunners'
  <2>1. CASE call[t].count > 0
    BY <1>10, <2>1, NotifyMakesRunner, Zenon
  <2>2. CASE ~(call[t].count > 0)
    <3>1. call[t].count = 0 /\ pc[t] = "k_notify" /\ pc' = [pc EXCEPT ![t] = "k_release"]
      BY <1>10, <2>2, Zenon DEF WakeNotify, Goto
    <3> QED BY <1>10, <2>2, <3>1, NoRunnerLost, Zenon DEF WakeNotify, shared, TableInv, TypeOK
  <2> QED BY <2>1, <2>2, Zenon
<1>11. ASSUME NEW t \in Thread, ShutdownClear(t) \/ ShutdownNotify(t) PROVE CreditsHaveRunners'
  BY <1>11 DEF ShutdownClear, ShutdownNotify, TableInv, StopImpliesFlag, StopPC, shared,
               CreditsHaveRunners
<1>12. ASSUME NEW a \in Addr, NEW v \in Word, GuestStore(a, v) PROVE CreditsHaveRunners'
  BY <1>12, NoRunnerLost, Zenon DEF GuestStore, shared, local
<1>13. CASE UNCHANGED vars
  BY <1>13, NoRunnerLost, Zenon DEF vars, shared, local
<1> QED BY Zenon, <1>2, <1>3, <1>4, <1>5, <1>6, <1>7, <1>8, <1>9, <1>10, <1>11, <1>12, <1>13,
           RunnerTakesCredit, CreditsAnnounced
        DEF Next, Progress

LEMMA WakeInitially == Init => WakeInv
<1> SUFFICES ASSUME Init PROVE WakeInv
  BY Zenon
<1>1. MapTidy /\ SleepsWithoutCredit
  BY Zenon DEF Init, MapTidy, SleepsWithoutCredit
<1>2. \A e \in EntryId : wake_credits[e] = 0
  BY Zenon DEF Init
<1>3. CreditsHaveRunners
  BY <1>2, RunnerSets DEF CreditsHaveRunners
<1> QED BY <1>1, <1>3, Zenon DEF WakeInv

\* What the next two theorems are read off from, for any number of threads,
\* addresses and entries.
THEOREM WakeInvariant == Spec => []WakeInv
<1>1. TableInv /\ WakeInv /\ [Next]_vars => WakeInv'
  BY MapTidyStep, SleepsWithoutCreditStep, CreditsHaveRunnersStep, Zenon DEF WakeInv
<1> QED BY <1>1, WakeInitially, TableInvariant, PTL DEF Spec

\* A credit handed out by wake is never stranded, although wake notifies
\* after it has released the entry mutex.
THEOREM CreditsNeverStranded == Spec => []CreditsHaveRunners
<1>1. WakeInv => CreditsHaveRunners
  BY Zenon DEF WakeInv
<1> QED BY <1>1, WakeInvariant, PTL

\* release_entry leaves no unused entry behind in the map.
THEOREM NoIdleEntry == Spec => []MapHasNoIdleEntry
<1>1. WakeInv => MapHasNoIdleEntry
  BY Zenon DEF WakeInv, MapTidy, MapHasNoIdleEntry
<1> QED BY <1>1, WakeInvariant, PTL

-----------------------------------------------------------------------------
(* The event protocol.                                                     *)

LEMMA EventInitially == EventInit => Init /\ EventInv
<1> SUFFICES ASSUME EventInit PROVE Init /\ EventInv
  BY Zenon
<1> USE DEF EventInit, Init
<1>1. Protocol
  BY EventAssumption DEF Protocol, WaitPC, WakePC, WaitQueued
<1>2. Informed
  BY DEF Informed
<1> QED BY <1>1, <1>2, Zenon DEF EventInv

\* The guest threads only do to the table what the table allows, and nobody
\* is in the middle of a shutdown.
LEMMA EventIsTableStep ==
    TableInv /\ Protocol /\ [EventNext]_eventVars => [Next]_vars
<1> SUFFICES ASSUME TableInv, Protocol, [EventNext]_eventVars PROVE [Next]_vars
  BY Zenon
<1>1. ASSUME NEW t \in Waiter, Load(t) PROVE [Next]_vars
  BY <1>1, Zenon DEF Load
<1>2. ASSUME NEW t \in Waiter, Await(t) PROVE [Next]_vars
  <2>1. PICK timed \in BOOLEAN :
          WaitCall(t, [addr |-> Event, expected |-> seen[t], timed |-> timed, count |-> 0])
    BY <1>2, Zenon DEF Await
  <2>2. [addr |-> Event, expected |-> seen[t], timed |-> timed, count |-> 0] \in WaitArgs
    <3>0. seen[t] \in Pending
      BY <1>2, Zenon DEF Await
    <3>a. seen[t] \in 0..(Last - 1) /\ Last \in Nat
      BY <3>0, EventAssumption, Zenon
    <3>b. seen[t] \in 0..Last
      BY <3>a
    <3>1. seen[t] \in Word /\ Event \in Addr
      BY <3>b, EventAssumption, Zenon
    <3>2. CASE timed = TRUE
      BY <3>1, <3>2, Zenon DEF WaitArgs
    <3>3. CASE timed = FALSE
      BY <3>1, <3>3, Zenon DEF WaitArgs
    <3> QED BY <3>2, <3>3, Zenon
  <2> QED BY <2>1, <2>2, EventAssumption, Zenon DEF Next
<1>3. ASSUME NEW t \in Notifier, Post(t) PROVE [Next]_vars
  <2>1. word[Event] + 1 \in Word
    BY <1>3, EventAssumption DEF Post, Protocol
  <2>2. Event \in Addr /\ GuestStore(Event, word[Event] + 1)
    BY <1>3, EventAssumption, Zenon DEF Post
  <2>3. \E a \in Addr, v \in Word : GuestStore(a, v)
    BY <2>1, <2>2, Zenon
  <2> QED BY <2>3, Zenon DEF Next
<1>4. ASSUME NEW t \in Notifier, WakeAll(t) PROVE [Next]_vars
  <2>1. [addr |-> Event, expected |-> None, timed |-> FALSE, count |-> MaxCount] \in WakeArgs
    BY EventAssumption, FutexAssumption DEF WakeArgs
  <2> QED BY <1>4, <2>1, EventAssumption, Zenon DEF WakeAll, Next
<1>5. ASSUME NEW t \in Thread, InTable(t) PROVE [Next]_vars
  BY <1>5, Zenon DEF InTable, Next
<1>6. CASE Done \/ UNCHANGED eventVars
  BY <1>6, Zenon DEF Done, eventVars
<1> QED BY <1>1, <1>2, <1>3, <1>4, <1>5, <1>6, Zenon DEF EventNext

\* A step inside the table leaves everyone in the call they are in.
LEMMA CallKept ==
    ASSUME TableInv, Protocol, NEW t \in Thread, InTable(t)
    PROVE  /\ UNCHANGED <<word, shutting_down, owes, seen>>
           /\ \A u \in Thread : pc'[u] \in WaitPC =>
                pc[u] \in WaitPC /\ call'[u] = call[u]
           /\ \A u \in Thread : pc'[u] \in WakePC =>
                pc[u] \in WakePC /\ call'[u].addr = call[u].addr
           /\ \A u \in Thread : pc'[u] = "k_lock" =>
                pc[u] = "k_lock" /\ call'[u].count = call[u].count
<1> USE DEF TableInv, TypeOK, WaitPC, WakePC, WaitQueued, Goto, Leave, shared
<1>0. UNCHANGED <<owes, seen>> /\ pc[t] \notin StopPC
  BY Zenon DEF InTable, clients, Protocol, StopImpliesFlag
<1>1. CASE WaitRead(t) \/ WaitCheck(t) \/ WaitPredicate(t) \/ WaitBlock(t)
  BY <1>0, <1>1 DEF WaitRead, WaitCheck, WaitPredicate, WaitBlock
<1>2. CASE WaitResume(t) \/ WaitDone(t) \/ SpuriousWakeup(t) \/ Expire(t)
  BY <1>0, <1>2 DEF WaitResume, WaitDone, SpuriousWakeup, Expire
<1>3. CASE WaitRelease(t) \/ WakeRelease(t)
  BY <1>0, <1>3 DEF WaitRelease, WakeRelease, release_entry
<1>4. CASE WakeCredit(t)
  <2>1. PICK n : call' = call \/ call' = [call EXCEPT ![t].count = n]
    BY <1>4, Zenon DEF WakeCredit
  <2>2. /\ \A u \in Thread \ {t} : call'[u] = call[u]
        /\ call'[t].addr = call[t].addr
    BY <1>4, <2>1 DEF WakeCredit, HoldsEntry, Args
  <2>3. /\ pc[t] = "k_lock" /\ UNCHANGED <<word, shutting_down>>
        /\ pc' = [pc EXCEPT ![t] = "k_release"] \/ pc' = [pc EXCEPT ![t] = "k_notify"]
    BY <1>4, Zenon DEF WakeCredit
  <2> QED BY <1>0, <2>2, <2>3
<1>5. CASE WakeNotify(t)
  <2>1. PICK n : call' = call \/ call' = [call EXCEPT ![t].count = n]
    BY <1>5, Zenon DEF WakeNotify
  <2>2. /\ \A u \in Thread \ {t} : call'[u] = call[u]
        /\ call'[t].addr = call[t].addr
    BY <1>5, <2>1 DEF WakeNotify, HoldsEntry, Args
  <2>3. /\ pc[t] = "k_notify" /\ UNCHANGED <<word, shutting_down>>
        /\ \/ pc' = pc \/ pc' = [pc EXCEPT ![t] = "k_release"]
           \/ \E w \in Thread : pc[w] = "w_sleep" /\ pc' = [pc EXCEPT ![w] = "w_notified"]
    BY <1>5, Zenon DEF WakeNotify, Asleep
  <2> QED BY <1>0, <2>2, <2>3
<1>6. ~(ShutdownClear(t) \/ ShutdownNotify(t))
  BY <1>0, Zenon DEF ShutdownClear, ShutdownNotify, StopPC
<1> QED BY <1>1, <1>2, <1>3, <1>4, <1>5, <1>6, Zenon DEF InTable, Progress

LEMMA ProtocolStep ==
    TableInv /\ Protocol /\ [EventNext]_eventVars => Protocol'
<1> SUFFICES ASSUME TableInv, Protocol, [EventNext]_eventVars PROVE Protocol'
  BY Zenon
<1>1. ASSUME NEW t \in Waiter, Load(t) PROVE Protocol'
  BY <1>1, Zenon DEF Load, Protocol, vars, shared, local
<1>2. ASSUME NEW t \in Waiter, Await(t) PROVE Protocol'
  <2>1. PICK timed \in BOOLEAN :
          WaitCall(t, [addr |-> Event, expected |-> seen[t], timed |-> timed, count |-> 0])
    BY <1>2 DEF Await
  <2>2. /\ UNCHANGED <<word, shutting_down, owes>>
        /\ pc' = [pc EXCEPT ![t] = "w_lock"]
        /\ call' = [call EXCEPT ![t] = [addr |-> Event, expected |-> seen[t],
                                       timed |-> timed, count |-> 0]]
    BY <1>2, <2>1, Zenon DEF Await, WaitCall, Leave, Goto, Protocol
  <2>3. \A u \in Thread : u # t => pc'[u] = pc[u] /\ call'[u] = call[u]
    BY <2>2, Zenon DEF TableInv, TypeOK
  <2>4. t \in Thread /\ pc'[t] = "w_lock" /\ call'[t].addr = Event /\ call'[t].expected \in Pending
    BY <1>2, <2>2, EventAssumption, Zenon DEF TableInv, TypeOK, Await
  <2> QED BY <2>2, <2>3, <2>4, Zenon DEF Protocol, WakePC
<1>3. ASSUME NEW t \in Notifier, Post(t) PROVE Protocol'
  <2>1. /\ word' = [word EXCEPT ![Event] = word[Event] + 1]
        /\ owes' = [owes EXCEPT ![t] = TRUE]
        /\ UNCHANGED <<shutting_down, pc, call>> /\ word[Event] < Last
    BY <1>3, Zenon DEF Post, GuestStore, shared, local
  <2>2. word'[Event] \in 0..Last
    BY <2>1, EventAssumption DEF Protocol, TableInv, TypeOK
  <2> QED BY <2>1, <2>2, Zenon DEF Protocol
<1>4. ASSUME NEW t \in Notifier, WakeAll(t) PROVE Protocol'
  <2>1. /\ UNCHANGED <<word, shutting_down>> /\ owes' = [owes EXCEPT ![t] = FALSE]
        /\ \/ UNCHANGED <<pc, call>>
           \/ /\ pc' = [pc EXCEPT ![t] = "k_lock"]
              /\ call' = [call EXCEPT ![t] = [addr |-> Event, expected |-> None,
                                            timed |-> FALSE, count |-> MaxCount]]
    BY <1>4, Zenon DEF WakeAll, WakeCall, Leave, Goto
  <2>2. CASE UNCHANGED <<pc, call>>
    BY <2>1, <2>2, Zenon DEF Protocol
  <2>3. CASE ~(UNCHANGED <<pc, call>>)
    <3>1. \A u \in Thread : u # t => pc'[u] = pc[u] /\ call'[u] = call[u]
      BY <2>1, <2>3, Zenon DEF TableInv, TypeOK
    <3>2. /\ t \in Thread /\ pc'[t] = "k_lock" /\ call'[t].addr = Event
          /\ call'[t].count = MaxCount
      BY <2>1, <2>3, EventAssumption DEF TableInv, TypeOK
    <3> QED BY <2>1, <3>1, <3>2, Zenon DEF Protocol, WaitPC, WaitQueued
  <2> QED BY <2>2, <2>3, Zenon
<1>5. ASSUME NEW t \in Thread, InTable(t) PROVE Protocol'
  BY <1>5, CallKept, Zenon DEF Protocol
<1>6. CASE Done \/ UNCHANGED eventVars
  <2>1. shutting_down' = shutting_down /\ word' = word /\ owes' = owes /\ pc' = pc /\ call' = call
    BY <1>6, Zenon DEF Done, eventVars, vars, shared, local, clients
  <2> QED BY <2>1, Zenon DEF Protocol
<1> QED BY <1>1, <1>2, <1>3, <1>4, <1>5, <1>6, Zenon DEF EventNext

\* All calls are on Event, so they are all on the one entry the map has for
\* it; no other entry has a waiter.
LEMMA OneQueue ==
    ASSUME TableInv, Protocol
    PROVE  /\ \A t \in Thread : pc[t] \in WaitPC \cup WakePC => ent[t] = entries[Event]
           /\ \A e \in EntryId : e # entries[Event] => waiters[e] = 0
           /\ \A e \in EntryId : waiters[e] <= MaxCount
<1>1. \A t \in Thread : pc[t] \in WaitPC \cup WakePC => ent[t] = entries[Event]
  BY Zenon DEF TableInv, OneQueuePerAddress, Protocol
<1>2. ASSUME NEW e \in EntryId, e # entries[Event] PROVE waiters[e] = 0
  <2>1. Queued(e) = {}
    BY <1>1, <1>2, Zenon DEF Queued, WaitPC
  <2>2. Cardinality(Queued(e)) = 0
    BY <2>1, FS_EmptySet, Zenon
  <2> QED BY <2>2, Zenon DEF TableInv, WaitersExact
<1>3. ASSUME NEW e \in EntryId PROVE waiters[e] <= MaxCount
  <2>1. Queued(e) \in SUBSET Waiter
    BY Zenon DEF Queued, Protocol, WaitPC
  <2>2. Waiter \in SUBSET Thread
    BY EventAssumption, Zenon
  <2>3. IsFiniteSet(Waiter) /\ Cardinality(Waiter) \in Nat
    BY <2>2, ThreadSets, Zenon
  <2>4. Cardinality(Queued(e)) <= Cardinality(Waiter)
    BY <2>1, <2>3, FS_Subset, Zenon
  <2>5. waiters[e] = Cardinality(Queued(e)) /\ waiters[e] \in Nat
    BY Zenon DEF TableInv, WaitersExact, TypeOK
  <2> QED BY <2>3, <2>4, <2>5, EventAssumption, FutexAssumption
<1> QED BY <1>1, <1>2, <1>3, Zenon

\* The wake after the last store closes the window: it gets the mutex, so no
\* waiter is between its read and the queue, and gives every waiter a credit.
LEMMA WakeCreditInforms ==
    ASSUME TableInv, Protocol, NEW t \in Thread, WakeCredit(t)
    PROVE  /\ \A u \in Thread : pc'[u] # "w_check"
           /\ \A e \in EntryId : waiters'[e] <= wake_credits'[e]
<1>0. /\ ~shutting_down /\ pc[t] = "k_lock" /\ ent[t] = entries[Event] /\ ent[t] \in EntryId
      /\ owner[ent[t]] = None /\ call[t].count = MaxCount
  BY OneQueue, Zenon DEF WakeCredit, Protocol, TableInv, HoldsEntry, WakePC
<1>1. \A u \in Thread : pc[u] # "w_check"
  <2> SUFFICES ASSUME NEW u \in Thread, pc[u] = "w_check" PROVE FALSE
    BY Zenon
  <2>1. ent[u] = ent[t]
    BY <1>0, OneQueue, Zenon DEF WaitPC
  <2>2. owner[ent[t]] = u
    BY <1>0, <2>1, Zenon DEF TableInv, MutexHeld, Locked
  <2> QED BY <1>0, <2>2, FutexAssumption, Zenon
<1>2. \A u \in Thread : pc'[u] # "w_check"
  BY <1>0, <1>1, Zenon DEF WakeCredit, Goto, TableInv, TypeOK
<1>3. /\ \A e \in EntryId : waiters[e] \in Nat /\ wake_credits[e] \in Nat
      /\ waiters[ent[t]] <= MaxCount /\ wake_credits[ent[t]] <= waiters[ent[t]]
  BY <1>0, OneQueue, Zenon DEF TableInv, TypeOK, CreditsCovered
<1>4. waiters' = waiters /\ wake_credits' = [wake_credits EXCEPT ![ent[t]] = waiters[ent[t]]]
  <2> DEFINE e == ent[t]
             available == IF waiters[e] > wake_credits[e] THEN waiters[e] - wake_credits[e] ELSE 0
             n == IF call[t].count < available THEN call[t].count ELSE available
  <2>a. \A w, k, m \in Nat : k <= w /\ w <= m =>
          LET free == IF w > k THEN w - k ELSE 0 IN k + (IF m < free THEN m ELSE free) = w
    OBVIOUS
  <2>b. /\ waiters[e] \in Nat /\ wake_credits[e] \in Nat /\ call[t].count \in Nat
        /\ wake_credits[e] <= waiters[e] /\ waiters[e] <= call[t].count
    BY <1>0, <1>3, FutexAssumption, Zenon
  <2>1. wake_credits[e] + n = waiters[e]
    BY <2>a, <2>b, Zenon
  <2>2. wake_credits' = [wake_credits EXCEPT ![e] = wake_credits[e] + n]
    BY <1>0, Zenon DEF WakeCredit, TableInv, TypeOK
  <2> QED BY <1>0, <2>1, <2>2, Zenon DEF WakeCredit
<1>5. ASSUME NEW e \in EntryId PROVE waiters'[e] <= wake_credits'[e]
  <2>1. CASE e = ent[t]
    BY <1>3, <1>4, <2>1 DEF TableInv, TypeOK
  <2>2. CASE e # ent[t]
    BY <1>0, <1>3, <1>4, <2>2, OneQueue DEF TableInv, TypeOK
  <2> QED BY <2>1, <2>2, Zenon
<1> QED BY <1>2, <1>5, Zenon

\* A wake that finds no entry, or is asked to wake nobody, has no waiter to
\* reach.
LEMMA NobodyToWake ==
    ASSUME TableInv, Protocol, MaxCount = 0 \/ entries[Event] = None
    PROVE  /\ \A u \in Thread : pc[u] # "w_check"
           /\ \A e \in EntryId : waiters[e] <= wake_credits[e]
<1>1. \A u \in Thread : pc[u] \notin WaitPC
  <2>1. CASE MaxCount = 0
    <3>1. Waiter \in SUBSET Thread
      BY EventAssumption, Zenon
    <3>2. Cardinality(Waiter) = 0
      BY <2>1, <3>1, ThreadSets, EventAssumption
    <3>3. Waiter = {}
      BY <3>1, <3>2, ThreadSets, Zenon
    <3> QED BY <3>3, Zenon DEF Protocol
  <2>2. CASE entries[Event] = None
    BY <2>2, OneQueue, FutexAssumption, Zenon DEF TableInv, HoldsEntry
  <2> QED BY <2>1, <2>2, Zenon
<1>2. ASSUME NEW e \in EntryId PROVE waiters[e] = 0
  <2>1. Queued(e) = {}
    BY <1>1, Zenon DEF Queued, WaitPC
  <2>2. Cardinality(Queued(e)) = 0
    BY <2>1, FS_EmptySet, Zenon
  <2> QED BY <2>2, Zenon DEF TableInv, WaitersExact
<1>3. \A e \in EntryId : waiters[e] <= wake_credits[e]
  BY <1>2 DEF TableInv, TypeOK
<1> QED BY <1>1, <1>3, Zenon DEF WaitPC

LEMMA InformedStep ==
    TableInv /\ EventInv /\ [EventNext]_eventVars => Informed'
<1> SUFFICES ASSUME TableInv, Protocol, Informed, [EventNext]_eventVars,
                    word'[Event] = Last, Announced'
             PROVE  /\ \A t \in Thread : pc'[t] # "w_check"
                    /\ \A e \in EntryId : waiters'[e] <= wake_credits'[e]
  BY Zenon DEF EventInv, Informed
<1> DEFINE Goal == /\ \A t \in Thread : pc'[t] # "w_check"
                   /\ \A e \in EntryId : waiters'[e] <= wake_credits'[e]
<1>0. ASSUME UNCHANGED <<waiters, wake_credits>>, word[Event] = Last, Announced,
             \A t \in Thread : pc'[t] = "w_check" => pc[t] = "w_check"
      PROVE  Goal
  BY <1>0, Zenon DEF Informed
<1>1. ASSUME NEW t \in Waiter, Load(t) PROVE Goal
  BY <1>0, <1>1, Zenon DEF Load, vars, shared, local, Announced
<1>2. ASSUME NEW t \in Waiter, Await(t) PROVE Goal
  <2>1. /\ t \in Thread /\ pc' = [pc EXCEPT ![t] = "w_lock"] /\ pc[t] = "idle"
        /\ UNCHANGED <<word, owes>>
        /\ AcquireExisting(t, Event) \/ AcquireNew(t, Event)
    BY <1>2, EventAssumption, Zenon DEF Await, WaitCall, Leave, Goto, Protocol
  <2>2. Announced
    <3>1. \A u \in Notifier : u \in Thread /\ u # t
      BY EventAssumption, Zenon
    <3> QED BY <2>1, <3>1, Zenon DEF Announced, TableInv, TypeOK
  <2>3. word[Event] = Last
    BY <2>1, Zenon
  <2>4. \A e \in EntryId :
          \/ waiters'[e] = waiters[e] /\ wake_credits'[e] = wake_credits[e]
          \/ waiters'[e] = 0 /\ wake_credits'[e] = 0
    BY <2>1, Zenon DEF AcquireExisting, AcquireNew, TableInv, TypeOK
  <2>5. \A u \in Thread : pc'[u] # "w_check"
    BY <2>1, <2>2, <2>3, Zenon DEF Informed, TableInv, TypeOK
  <2> QED BY <2>2, <2>3, <2>4, <2>5 DEF Informed
<1>3. ASSUME NEW t \in Notifier, Post(t) PROVE Goal
  BY <1>3, Zenon DEF Post, Announced, Protocol
<1>4. ASSUME NEW t \in Notifier, WakeAll(t) PROVE Goal
  <2>1. /\ UNCHANGED <<word, waiters, wake_credits>> /\ t \in Thread
        /\ pc' # [pc EXCEPT ![t] = "k_lock"]
    BY <1>4, EventAssumption, Zenon DEF WakeAll, WakeCall, AcquireExisting, Announced, TableInv, TypeOK
  <2>2. pc' = pc /\ (MaxCount = 0 \/ entries[Event] = None)
    BY <1>4, <2>1, Zenon DEF WakeAll, WakeCall, Protocol, Leave, Goto
  <2> QED BY <2>1, <2>2, NobodyToWake, Zenon
<1>5. ASSUME NEW t \in Thread, InTable(t) PROVE Goal
  <2>1. CASE WakeCredit(t)
    BY <2>1, WakeCreditInforms, Zenon
  <2>2. CASE ~WakeCredit(t)
    <3>1. word[Event] = Last /\ UNCHANGED <<word, owes>>
      BY <1>5, CallKept, Zenon
    <3>2. \A u \in Thread : pc[u] = "k_lock" => pc'[u] = "k_lock"
      <4> USE DEF TableInv, TypeOK, Goto, Leave
      <4>1. CASE WaitRead(t) \/ WaitCheck(t) \/ WaitPredicate(t) \/ WaitBlock(t)
        BY <4>1, Zenon DEF WaitRead, WaitCheck, WaitPredicate, WaitBlock
      <4>2. CASE WaitResume(t) \/ WaitDone(t) \/ SpuriousWakeup(t) \/ Expire(t)
        BY <4>2, Zenon DEF WaitResume, WaitDone, SpuriousWakeup, Expire
      <4>3. CASE WaitRelease(t) \/ WakeRelease(t)
        BY <4>3, Zenon DEF WaitRelease, WakeRelease, release_entry
      <4>4. CASE WakeNotify(t)
        BY <4>4, Zenon DEF WakeNotify, Asleep
      <4>5. CASE ShutdownClear(t) \/ ShutdownNotify(t)
        BY <4>5, Zenon DEF ShutdownClear, ShutdownNotify, Protocol, StopImpliesFlag, StopPC
      <4> QED BY <1>5, <2>2, <4>1, <4>2, <4>3, <4>4, <4>5, Zenon DEF InTable, Progress
    <3>3. Announced
      <4>1. \A u \in Notifier : u \in Thread
        BY EventAssumption, Zenon
      <4> QED BY <3>1, <3>2, <4>1, Zenon DEF Announced
    <3>4. \A u \in Thread : pc[u] # "w_check"
      BY <3>1, <3>3, Zenon DEF Informed
    <3>5. \A e \in EntryId : /\ waiters[e] <= wake_credits[e]
                             /\ waiters[e] \in Nat /\ wake_credits[e] \in Nat
      BY <3>1, <3>3, Zenon DEF Informed, TableInv, TypeOK
    <3>6. \A u \in Thread : pc'[u] # "w_check"
      <4> USE <3>4 DEF TableInv, TypeOK, Goto, Leave
      <4>1. CASE WaitRead(t)
        <5>1. call[t].addr = Event /\ call[t].expected # Last
          BY <4>1, EventAssumption DEF WaitRead, Protocol, WaitPC
        <5> QED BY <4>1, <5>1, <3>1, Zenon DEF WaitRead
      <4>2. CASE WaitPredicate(t) \/ WaitBlock(t)
        BY <4>2, Zenon DEF WaitPredicate, WaitBlock
      <4>3. CASE WaitResume(t) \/ WaitDone(t) \/ SpuriousWakeup(t) \/ Expire(t)
        BY <4>3, Zenon DEF WaitResume, WaitDone, SpuriousWakeup, Expire
      <4>4. CASE WaitRelease(t) \/ WakeRelease(t)
        BY <4>4, Zenon DEF WaitRelease, WakeRelease, release_entry
      <4>5. CASE WakeNotify(t)
        BY <4>5, Zenon DEF WakeNotify, Asleep
      <4>6. CASE ShutdownClear(t) \/ ShutdownNotify(t)
        BY <4>6, Zenon DEF ShutdownClear, ShutdownNotify, Protocol, StopImpliesFlag, StopPC
      <4>7. ~WaitCheck(t)
        BY Zenon DEF WaitCheck
      <4> QED BY <1>5, <2>2, <4>1, <4>2, <4>3, <4>4, <4>5, <4>6, <4>7, Zenon DEF InTable, Progress
    <3>7. \A e \in EntryId : waiters'[e] <= wake_credits'[e]
      <4> USE <3>5 DEF TableInv, TypeOK, shared
      <4>1. CASE WaitRead(t) \/ WaitPredicate(t) \/ WaitBlock(t)
        BY <4>1, Zenon DEF WaitRead, WaitPredicate, WaitBlock
      <4>2. CASE WaitResume(t)
        BY <4>2 DEF WaitResume
      <4>3. CASE WaitDone(t)
        BY <4>3 DEF WaitDone, Protocol
      <4>4. CASE SpuriousWakeup(t) \/ Expire(t) \/ WakeNotify(t)
        BY <4>4, Zenon DEF SpuriousWakeup, Expire, WakeNotify
      <4>5. CASE WaitRelease(t) \/ WakeRelease(t)
        BY <4>5, Zenon DEF WaitRelease, WakeRelease, release_entry
      <4>6. CASE ShutdownClear(t) \/ ShutdownNotify(t)
        BY <4>6, Zenon DEF ShutdownClear, ShutdownNotify
      <4>7. ~WaitCheck(t)
        BY <3>4, Zenon DEF WaitCheck
      <4> QED BY <1>5, <2>2, <4>1, <4>2, <4>3, <4>4, <4>5, <4>6, <4>7, Zenon DEF InTable, Progress
    <3> QED BY <3>6, <3>7, Zenon
  <2> QED BY <2>1, <2>2, Zenon
<1>6. CASE Done \/ UNCHANGED eventVars
  BY <1>0, <1>6, Zenon DEF Done, eventVars, vars, shared, local, clients, Announced
<1> QED BY <1>1, <1>2, <1>3, <1>4, <1>5, <1>6, Zenon DEF EventNext

\* Guest threads that use a futex word as an event stay within what the
\* table expects of its callers, so all that holds of the table holds here.
THEOREM EventUsesTable == EventSpec => Spec /\ []EventInv
<1>1. EventInv /\ TableInv /\ [EventNext]_eventVars => EventInv' /\ TableInv' /\ [Next]_vars
  BY EventIsTableStep, ProtocolStep, InformedStep, Inductive, Zenon DEF EventInv
<1>2. EventInit => Init /\ EventInv /\ TableInv
  BY EventInitially, Initially, Zenon
<1> QED BY <1>1, <1>2, PTL DEF EventSpec, Spec

\* The lost-wakeup window is closed: after the last store and its wake no
\* thread sleeps on an out-of-date value without a credit, for any number of
\* waiters and notifiers.
THEOREM NoWakeupLost == EventSpec => []NoLostWakeup
<1>1. TableInv /\ EventInv => NoLostWakeup
  <2> SUFFICES ASSUME TableInv, Informed, word[Event] = Last, Announced, NEW e \in EntryId
               PROVE  Cardinality({t \in Queued(e) : call[t].expected # Last}) <= wake_credits[e]
    BY Zenon DEF EventInv, NoLostWakeup
  <2> DEFINE S == {t \in Queued(e) : call[t].expected # Last}
  <2>1. Queued(e) \in SUBSET Thread /\ S \in SUBSET Queued(e)
    BY Zenon DEF Queued
  <2>2. IsFiniteSet(Queued(e)) /\ Cardinality(Queued(e)) \in Nat /\ Cardinality(S) \in Nat
    BY <2>1, ThreadSets, Zenon
  <2> HIDE DEF S
  <2>3. Cardinality(S) <= Cardinality(Queued(e))
    BY <2>1, <2>2, FS_Subset, Zenon
  <2>4. /\ waiters[e] = Cardinality(Queued(e)) /\ waiters[e] <= wake_credits[e]
        /\ wake_credits[e] \in Nat
    BY Zenon DEF TableInv, WaitersExact, Informed, TypeOK
  <2>5. Cardinality(S) <= wake_credits[e]
    BY <2>2, <2>3, <2>4
  <2> QED BY <2>5, Zenon DEF S
<1> QED BY <1>1, EventUsesTable, TableInvariant, PTL
=============================================================================
