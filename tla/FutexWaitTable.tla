--------------------------- MODULE FutexWaitTable ---------------------------
(***************************************************************************)
(* The host wait table behind FUTEX_WAIT / FUTEX_WAKE                      *)
(* (core/include/prisma/futex_wait_table.hpp).                             *)
(*                                                                         *)
(* A thread runs one call at a time: wait, wake or shutdown.  A call is    *)
(* split where another thread can get in between two of its steps, that    *)
(* is at every acquisition of the table mutex or of an entry mutex, at     *)
(* every load of shutting_down and at every use of the condition variable. *)
(* What runs under the table mutex (acquire_entry, release_entry, the map  *)
(* swap of shutdown) is one step.  An entry mutex is held across steps.    *)
(*                                                                         *)
(* std::shared_ptr<Entry> is an identity in EntryId.  An identity may be   *)
(* given out again once nothing refers to it, which is when the last       *)
(* shared_ptr would have freed the object.                                 *)
(***************************************************************************)
EXTENDS Integers, FiniteSets

CONSTANTS Thread,    \* the host threads that call into the table
          Addr,      \* aligned guest addresses used as futex words
          Word,      \* values of a futex word
          EntryId,   \* identities of Entry objects
          MaxCount,  \* the largest max_count a caller passes to wake
          None       \* no thread, no entry

ASSUME FutexAssumption ==
    /\ None \notin Thread \cup EntryId
    /\ MaxCount \in Nat
    /\ IsFiniteSet(Thread)

VARIABLES
    word,          \* guest memory: the word at each address
    shutting_down, \* State::shutting_down
    entries,       \* State::entries, a map from address to entry
    users,         \* Entry::users
    waiters,       \* Entry::waiters
    wake_credits,  \* Entry::wake_credits
    owner,         \* the thread that holds Entry::mutex
    pc,            \* where each thread is
    call,          \* what each thread was asked: address and arguments
    ent,           \* the shared_ptr<Entry> each thread holds
    todo,          \* entries shutdown has still to notify
    status         \* what the last finished call of each thread returned

shared == <<shutting_down, entries, users, waiters, wake_credits, owner>>
local  == <<pc, call, ent, todo, status>>
vars   == <<word, shared, local>>

-----------------------------------------------------------------------------
(* Where a thread is.                                                      *)

WaitQueued == {"w_pred", "w_block", "w_sleep", "w_notified", "w_expired", "w_done"}
WaitPC     == {"w_lock", "w_check"} \cup WaitQueued \cup {"w_release"}
WakePC     == {"k_lock", "k_notify", "k_release"}
StopPC     == {"s_clear", "s_notify"}
PC         == {"idle"} \cup WaitPC \cup WakePC \cup StopPC

\* The steps taken while the thread holds the mutex of its entry.
Locked == {"w_check", "w_pred", "w_block", "w_done"}

\* FutexWaitStatus, the exception of a throwing reader, and void/0..n of the
\* other two calls.
Status == {"none", "Woken", "ValueMismatch", "TimedOut", "InvalidAddress",
           "Shutdown", "Threw", "returned"}

\* The arguments of wait and of wake; a thread outside a call has none.
Args     == [addr : Addr, expected : Word \cup {None}, timed : BOOLEAN, count : 0..MaxCount]
WaitArgs == [addr : Addr, expected : Word, timed : BOOLEAN, count : {0}]
WakeArgs == [addr : Addr, expected : {None}, timed : {FALSE}, count : 0..MaxCount]
NoArgs   == [addr |-> None, expected |-> None, timed |-> FALSE, count |-> 0]

\* Threads between acquire_entry and release_entry on entry e.
Users(e)   == {t \in Thread : pc[t] \in WaitPC \cup WakePC /\ ent[t] = e}
\* Threads counted in Entry::waiters, and those blocked in the condition
\* variable of e.
Queued(e)  == {t \in Thread : pc[t] \in WaitQueued /\ ent[t] = e}
Asleep(e)  == {t \in Thread : pc[t] = "w_sleep" /\ ent[t] = e}
Runners(e) == Queued(e) \ Asleep(e)

InMap(e) == \E a \in Addr : entries[a] = e

\* No shared_ptr refers to e: the object does not exist.
Unreferenced(e) ==
    /\ ~InMap(e)
    /\ \A t \in Thread : ent[t] # e /\ e \notin todo[t]

-----------------------------------------------------------------------------
TypeOK ==
    /\ word \in [Addr -> Word]
    /\ shutting_down \in BOOLEAN
    /\ entries \in [Addr -> EntryId \cup {None}]
    /\ users \in [EntryId -> Nat]
    /\ waiters \in [EntryId -> Nat]
    /\ wake_credits \in [EntryId -> Nat]
    /\ owner \in [EntryId -> Thread \cup {None}]
    /\ pc \in [Thread -> PC]
    /\ call \in [Thread -> Args \cup {NoArgs}]
    /\ ent \in [Thread -> EntryId \cup {None}]
    /\ todo \in [Thread -> SUBSET EntryId]
    /\ status \in [Thread -> Status]

Init ==
    /\ word \in [Addr -> Word]
    /\ shutting_down = FALSE
    /\ entries = [a \in Addr |-> None]
    /\ users = [e \in EntryId |-> 0]
    /\ waiters = [e \in EntryId |-> 0]
    /\ wake_credits = [e \in EntryId |-> 0]
    /\ owner = [e \in EntryId |-> None]
    /\ pc = [t \in Thread |-> "idle"]
    /\ call = [t \in Thread |-> NoArgs]
    /\ ent = [t \in Thread |-> None]
    /\ todo = [t \in Thread |-> {}]
    /\ status = [t \in Thread |-> "none"]

-----------------------------------------------------------------------------
(* Helpers shared by the calls.                                            *)

Goto(t, l) == pc' = [pc EXCEPT ![t] = l]

\* Leave the entry mutex and go on to release_entry with result s.
Unlock(t)      == owner' = [owner EXCEPT ![ent[t]] = None]
Leave(t, l, s) == Goto(t, l) /\ status' = [status EXCEPT ![t] = s]

\* acquire_entry on an address that has an entry.
AcquireExisting(t, a) ==
    /\ entries[a] # None
    /\ users' = [users EXCEPT ![entries[a]] = @ + 1]
    /\ ent' = [ent EXCEPT ![t] = entries[a]]
    /\ UNCHANGED <<entries, waiters, wake_credits, owner>>

\* acquire_entry with create=true on an address that has none.
AcquireNew(t, a) ==
    /\ entries[a] = None
    /\ \E e \in EntryId :
         /\ Unreferenced(e)
         /\ entries' = [entries EXCEPT ![a] = e]
         /\ users' = [users EXCEPT ![e] = 1]
         /\ waiters' = [waiters EXCEPT ![e] = 0]
         /\ wake_credits' = [wake_credits EXCEPT ![e] = 0]
         /\ owner' = [owner EXCEPT ![e] = None]
         /\ ent' = [ent EXCEPT ![t] = e]

\* Variant: the user count is never dropped.
release_entry_leaking(t) ==
    /\ ent' = [ent EXCEPT ![t] = None]
    /\ call' = [call EXCEPT ![t] = NoArgs]
    /\ Goto(t, "idle")
    /\ UNCHANGED <<word, shared, todo, status>>

\* release_entry: nothing to do when the map no longer holds this entry,
\* otherwise drop one user and erase the entry when nobody needs it.
\* entry->waiters and entry->wake_credits are read without the entry mutex.
release_entry(t) ==
    LET a == call[t].addr
        e == ent[t]
        left == IF users[e] # 0 THEN users[e] - 1 ELSE 0
    IN  /\ IF entries[a] # e
           THEN UNCHANGED <<entries, users>>
           ELSE /\ users' = [users EXCEPT ![e] = left]
                /\ IF left = 0 /\ waiters[e] = 0 /\ wake_credits[e] = 0
                   THEN entries' = [entries EXCEPT ![a] = None]
                   ELSE UNCHANGED entries
        /\ ent' = [ent EXCEPT ![t] = None]
        /\ call' = [call EXCEPT ![t] = NoArgs]
        /\ Goto(t, "idle")
        /\ UNCHANGED <<word, shutting_down, waiters, wake_credits, owner,
                       todo, status>>

\* The predicate of both waits.
Ready(e) == shutting_down \/ wake_credits[e] # 0

-----------------------------------------------------------------------------
(* wait                                                                    *)

WaitCall(t, c) ==
    /\ pc[t] = "idle"
    /\ \/ /\ shutting_down
          /\ status' = [status EXCEPT ![t] = "Shutdown"]
          /\ UNCHANGED <<shared, pc, call, ent>>
       \/ /\ ~shutting_down
          /\ AcquireExisting(t, c.addr) \/ AcquireNew(t, c.addr)
          /\ call' = [call EXCEPT ![t] = c]
          /\ Leave(t, "w_lock", "none")
          /\ UNCHANGED shutting_down
    /\ UNCHANGED <<word, todo>>

\* A misaligned address or a missing reader is refused before the table is
\* looked at.
WaitRefused(t) ==
    /\ pc[t] = "idle"
    /\ status' = [status EXCEPT ![t] = "InvalidAddress"]
    /\ UNCHANGED <<word, shared, pc, call, ent, todo>>

\* Variant: the word is not compared again under the lock.
WaitReadUnchecked(t) ==
    /\ pc[t] = "w_lock"
    /\ owner[ent[t]] = None
    /\ owner' = [owner EXCEPT ![ent[t]] = t]
    /\ Goto(t, "w_check")
    /\ UNCHANGED <<word, shutting_down, entries, users, waiters, wake_credits,
                   call, ent, todo, status>>

\* Lock the entry, read the guest word.  A failed read (an exception or
\* no value) and a changed word give up at once.
WaitRead(t) ==
    /\ pc[t] = "w_lock"
    /\ owner[ent[t]] = None
    /\ \/ /\ word[call[t].addr] = call[t].expected
          /\ owner' = [owner EXCEPT ![ent[t]] = t]
          /\ Goto(t, "w_check")
          /\ UNCHANGED status
       \/ /\ word[call[t].addr] # call[t].expected
          /\ Leave(t, "w_release", "ValueMismatch")
          /\ UNCHANGED owner
       \/ /\ \E s \in {"InvalidAddress", "Threw"} : Leave(t, "w_release", s)
          /\ UNCHANGED owner
    /\ UNCHANGED <<word, shutting_down, entries, users, waiters, wake_credits,
                   call, ent, todo>>

WaitCheck(t) ==
    /\ pc[t] = "w_check"
    /\ \/ /\ shutting_down
          /\ Unlock(t)
          /\ Leave(t, "w_release", "Shutdown")
          /\ UNCHANGED waiters
       \/ /\ ~shutting_down
          /\ waiters' = [waiters EXCEPT ![ent[t]] = @ + 1]
          /\ Goto(t, "w_pred")
          /\ UNCHANGED <<owner, status>>
    /\ UNCHANGED <<word, shutting_down, entries, users, wake_credits,
                   call, ent, todo>>

\* The first evaluation of the predicate, before the thread has slept.
WaitPredicate(t) ==
    /\ pc[t] = "w_pred"
    /\ Goto(t, IF Ready(ent[t]) THEN "w_done" ELSE "w_block")
    /\ UNCHANGED <<word, shared, call, ent, todo, status>>

\* cv.wait: give up the mutex and sleep, in one step.
WaitBlock(t) ==
    /\ pc[t] = "w_block"
    /\ Unlock(t)
    /\ Goto(t, "w_sleep")
    /\ UNCHANGED <<word, shutting_down, entries, users, waiters, wake_credits,
                   call, ent, todo, status>>

\* A condition variable may wake a thread for no reason.
SpuriousWakeup(t) ==
    /\ pc[t] = "w_sleep"
    /\ Goto(t, "w_notified")
    /\ UNCHANGED <<word, shared, call, ent, todo, status>>

\* The deadline of a timed wait passes while the thread sleeps.
Expire(t) ==
    /\ pc[t] = "w_sleep"
    /\ call[t].timed
    /\ Goto(t, "w_expired")
    /\ UNCHANGED <<word, shared, call, ent, todo, status>>

\* Variant: a timeout leaves without --waiters.
WaitResumeUncounted(t) ==
    /\ pc[t] \in {"w_notified", "w_expired"}
    /\ owner[ent[t]] = None
    /\ \/ /\ pc[t] = "w_notified" \/ Ready(ent[t])
          /\ owner' = [owner EXCEPT ![ent[t]] = t]
          /\ Goto(t, IF Ready(ent[t]) THEN "w_done" ELSE "w_block")
          /\ UNCHANGED status
       \/ /\ pc[t] = "w_expired" /\ ~Ready(ent[t])
          /\ Leave(t, "w_release", "TimedOut")
          /\ UNCHANGED owner
    /\ UNCHANGED <<word, shutting_down, entries, users, waiters, wake_credits,
                   call, ent, todo>>

\* Variant: the deadline is computed afresh after every wakeup.
WaitResumeRestarting(t) ==
    /\ pc[t] \in {"w_notified", "w_expired"}
    /\ owner[ent[t]] = None
    /\ owner' = [owner EXCEPT ![ent[t]] = t]
    /\ Goto(t, IF Ready(ent[t]) THEN "w_done" ELSE "w_block")
    /\ UNCHANGED <<word, shutting_down, entries, users, waiters, wake_credits,
                   call, ent, todo, status>>

\* Back from the sleep: lock the mutex again and re-evaluate the predicate.
\* A wait whose deadline has passed reports what the predicate says then.
WaitResume(t) ==
    /\ pc[t] \in {"w_notified", "w_expired"}
    /\ owner[ent[t]] = None
    /\ \/ /\ Ready(ent[t])
          /\ owner' = [owner EXCEPT ![ent[t]] = t]
          /\ Goto(t, "w_done")
          /\ UNCHANGED <<waiters, status>>
       \/ /\ ~Ready(ent[t])
          /\ pc[t] = "w_notified"
          /\ owner' = [owner EXCEPT ![ent[t]] = t]
          /\ Goto(t, "w_block")
          /\ UNCHANGED <<waiters, status>>
       \/ /\ ~Ready(ent[t])
          /\ pc[t] = "w_expired"
          /\ waiters' = [waiters EXCEPT ![ent[t]] = @ - 1]
          /\ Leave(t, "w_release", "TimedOut")
          /\ UNCHANGED owner
    /\ UNCHANGED <<word, shutting_down, entries, users, wake_credits,
                   call, ent, todo>>

WaitDone(t) ==
    LET e == ent[t] IN
    /\ pc[t] = "w_done"
    /\ \/ /\ shutting_down
          /\ Leave(t, "w_release", "Shutdown")
          /\ UNCHANGED wake_credits
       \/ /\ ~shutting_down
          /\ wake_credits' = [wake_credits EXCEPT ![e] = @ - 1]
          /\ Leave(t, "w_release", "Woken")
    /\ waiters' = [waiters EXCEPT ![e] = @ - 1]
    /\ Unlock(t)
    /\ UNCHANGED <<word, shutting_down, entries, users, call, ent, todo>>

WaitRelease(t) == pc[t] = "w_release" /\ release_entry(t)

-----------------------------------------------------------------------------
(* wake.  call[t].count is max_count, and later the notifications left.    *)

WakeCall(t, c) ==
    /\ pc[t] = "idle"
    /\ \/ /\ c.count = 0 \/ shutting_down \/ entries[c.addr] = None
          /\ status' = [status EXCEPT ![t] = "returned"]
          /\ UNCHANGED <<entries, users, waiters, wake_credits, owner,
                         pc, call, ent>>
       \/ /\ c.count # 0 /\ ~shutting_down
          /\ AcquireExisting(t, c.addr)
          /\ call' = [call EXCEPT ![t] = c]
          /\ Leave(t, "k_lock", "none")
    /\ UNCHANGED <<word, shutting_down, todo>>

\* Lock the entry and hand out credits, one for each waiter that has none.
WakeCredit(t) ==
    LET e == ent[t]
        available == IF waiters[e] > wake_credits[e]
                     THEN waiters[e] - wake_credits[e] ELSE 0
        n == IF call[t].count < available THEN call[t].count ELSE available
    IN  /\ pc[t] = "k_lock"
        /\ owner[e] = None
        /\ \/ /\ shutting_down
              /\ Goto(t, "k_release")
              /\ UNCHANGED <<wake_credits, call>>
           \/ /\ ~shutting_down
              /\ wake_credits' = [wake_credits EXCEPT ![e] = @ + n]
              /\ call' = [call EXCEPT ![t].count = n]
              /\ Goto(t, "k_notify")
        /\ UNCHANGED <<word, shutting_down, entries, users, waiters, owner,
                       ent, todo, status>>

\* Variant: one notification for any number of credits.
WakeNotifyOnce(t) ==
    /\ pc[t] = "k_notify"
    /\ \/ \E w \in Asleep(ent[t]) :
            pc' = [pc EXCEPT ![t] = "k_release", ![w] = "w_notified"]
       \/ Asleep(ent[t]) = {} /\ Goto(t, "k_release")
    /\ UNCHANGED <<word, shared, call, ent, todo, status>>

\* notify_one, with the mutex free: it wakes one sleeper if there is one.
WakeNotify(t) ==
    LET e == ent[t] IN
    /\ pc[t] = "k_notify"
    /\ \/ /\ call[t].count = 0
          /\ Goto(t, "k_release")
          /\ UNCHANGED call
       \/ /\ call[t].count > 0
          /\ call' = [call EXCEPT ![t].count = @ - 1]
          /\ \/ \E w \in Asleep(e) : Goto(w, "w_notified")
             \/ Asleep(e) = {} /\ UNCHANGED pc
    /\ UNCHANGED <<word, shared, ent, todo, status>>

WakeRelease(t) == pc[t] = "k_release" /\ release_entry(t)

-----------------------------------------------------------------------------
(* shutdown, also run by the destructor.                                   *)

ShutdownCall(t) ==
    /\ pc[t] = "idle"
    /\ \/ /\ shutting_down
          /\ status' = [status EXCEPT ![t] = "returned"]
          /\ UNCHANGED <<shutting_down, pc>>
       \/ /\ ~shutting_down
          /\ shutting_down' = TRUE
          /\ Leave(t, "s_clear", "none")
    /\ UNCHANGED <<word, entries, users, waiters, wake_credits, owner,
                   call, ent, todo>>

\* Under the table mutex: take every entry, clear the map.
ShutdownClear(t) ==
    /\ pc[t] = "s_clear"
    /\ todo' = [todo EXCEPT ![t] = {e \in EntryId : InMap(e)}]
    /\ entries' = [a \in Addr |-> None]
    /\ Goto(t, "s_notify")
    /\ UNCHANGED <<word, shutting_down, users, waiters, wake_credits, owner,
                   call, ent, status>>

\* notify_all on one entry after the other, without its mutex.
ShutdownNotify(t) ==
    /\ pc[t] = "s_notify"
    /\ \/ \E e \in todo[t] :
            /\ todo' = [todo EXCEPT ![t] = @ \ {e}]
            /\ pc' = [u \in Thread |->
                        IF u \in Asleep(e) THEN "w_notified" ELSE pc[u]]
            /\ UNCHANGED status
       \/ /\ todo[t] = {}
          /\ Leave(t, "idle", "returned")
          /\ UNCHANGED todo
    /\ UNCHANGED <<word, shared, call, ent>>

-----------------------------------------------------------------------------
\* Guest code stores to a futex word; nothing in the table is involved.
GuestStore(a, v) ==
    /\ word' = [word EXCEPT ![a] = v]
    /\ UNCHANGED <<shared, local>>

\* The steps a thread takes on its own once a call is under way.
Progress(t) ==
    \/ WaitRead(t) \/ WaitCheck(t) \/ WaitPredicate(t) \/ WaitBlock(t)
    \/ WaitResume(t) \/ WaitDone(t) \/ WaitRelease(t)
    \/ WakeCredit(t) \/ WakeNotify(t) \/ WakeRelease(t)
    \/ ShutdownClear(t) \/ ShutdownNotify(t)

Next ==
    \/ \E t \in Thread :
         \/ \E c \in WaitArgs : WaitCall(t, c)
         \/ \E c \in WakeArgs : WakeCall(t, c)
         \/ WaitRefused(t)
         \/ ShutdownCall(t)
         \/ Progress(t)
         \/ SpuriousWakeup(t)
         \/ Expire(t)
    \/ \E a \in Addr, v \in Word : GuestStore(a, v)

Spec == Init /\ [][Next]_vars

\* Threads keep running, a mutex that is free again and again is obtained in
\* the end, and a deadline passes however often the sleep is interrupted.
\* No call has to be made and no spurious wakeup has to happen.
TakesMutex(t) == WaitRead(t) \/ WaitResume(t) \/ WakeCredit(t)

Fairness ==
    \A t \in Thread :
        /\ WF_vars(Progress(t))
        /\ SF_vars(TakesMutex(t))
        /\ SF_vars(Expire(t))

FairSpec == Spec /\ Fairness

-----------------------------------------------------------------------------
(* Safety.                                                                 *)

\* Entry::users counts exactly the calls that hold the entry between
\* acquire_entry and release_entry, as long as the entry is in the map.
\* release_entry frees the entry on users == 0, so a count that is too small
\* lets it take an entry away from a sleeping thread.
UsersExact ==
    \A a \in Addr : entries[a] # None =>
        users[entries[a]] = Cardinality(Users(entries[a]))

\* Until shutdown every call on an address works on the entry the map holds
\* for it: two calls on one address never sit on two queues, where a wake on
\* one could not reach a waiter on the other.
OneQueuePerAddress ==
    ~shutting_down =>
        \A t \in Thread : pc[t] \in WaitPC \cup WakePC =>
            entries[call[t].addr] = ent[t]

\* Entry::waiters counts exactly the threads inside the wait, whichever way
\* they leave it (woken, timed out, shut down).
WaitersExact == \A e \in EntryId : waiters[e] = Cardinality(Queued(e))

\* Until shutdown a credit always has a waiter to take it.  A credit that
\* outlived its waiter would end a later, unrelated wait at once and would
\* keep the entry in the map.
CreditsCovered ==
    ~shutting_down => \A e \in EntryId : wake_credits[e] <= waiters[e]

\* A thread about to execute --wake_credits finds one: the counter, a
\* size_t, does not wrap.
NoCreditUnderflow ==
    \A t \in Thread :
        pc[t] = "w_done" /\ ~shutting_down => wake_credits[ent[t]] > 0

\* Notifications that wakers have still to send on entry e: the i-th last
\* one of thread t is <<t, i>>.
PendingNotifies(e) ==
    {p \in Thread \X (1 .. MaxCount) :
        /\ pc[p[1]] = "k_notify"
        /\ ent[p[1]] = e
        /\ p[2] <= call[p[1]].count}

\* No credit is stranded: each one is matched by a waiter that is awake and
\* will look at it, or by a notify_one still to come.  This is what makes it
\* safe for wake to notify after it has released the entry mutex.
CreditsHaveRunners ==
    ~shutting_down => \A e \in EntryId :
        wake_credits[e] <= Cardinality(Runners(e)) + Cardinality(PendingNotifies(e))

\* The map holds entries in use only: release_entry's extra conditions
\* (no waiters, no credits) never leave an unused entry behind, except one
\* that a shutdown under way is about to clear out.
MapHasNoIdleEntry ==
    (\A t \in Thread : pc[t] # "s_clear") =>
        \A a \in Addr : entries[a] # None => Users(entries[a]) # {}

-----------------------------------------------------------------------------
(* The inductive invariant behind the counters.                            *)

\* A thread holds an entry, and knows its address, exactly while it is
\* between acquire_entry and release_entry.
HoldsEntry ==
    \A t \in Thread :
        IF pc[t] \in WaitPC \cup WakePC
        THEN ent[t] \in EntryId /\ call[t] \in Args
        ELSE ent[t] = None

\* The map keeps one entry per address, and a thread that holds an entry of
\* the map asked for that entry's address.
MapConsistent ==
    /\ \A a, b \in Addr : entries[a] = entries[b] /\ entries[a] # None => a = b
    /\ \A t \in Thread, a \in Addr :
         pc[t] \in WaitPC \cup WakePC /\ entries[a] = ent[t] => call[t].addr = a

\* The entry mutex: its owner is the one thread in a locked step.
MutexHeld ==
    \A t \in Thread, e \in EntryId :
        owner[e] = t <=> pc[t] \in Locked /\ ent[t] = e

\* Only the thread that set the flag clears the map.
StopImpliesFlag ==
    \A t \in Thread : pc[t] \in StopPC => shutting_down

TableInv ==
    /\ TypeOK
    /\ HoldsEntry
    /\ MapConsistent
    /\ MutexHeld
    /\ StopImpliesFlag
    /\ UsersExact
    /\ OneQueuePerAddress
    /\ WaitersExact
    /\ CreditsCovered
    /\ NoCreditUnderflow

\* Until shutdown the map holds entries in use only; once shutdown has
\* cleared it, it stays empty.
MapTidy ==
    /\ ~shutting_down => \A a \in Addr : entries[a] # None => Users(entries[a]) # {}
    /\ shutting_down /\ (\A t \in Thread : pc[t] # "s_clear") =>
         \A a \in Addr : entries[a] = None

\* Between the predicate and the sleep the mutex is held, so a waiter about
\* to sleep still has no credit to take.
SleepsWithoutCredit ==
    ~shutting_down =>
        \A t \in Thread : pc[t] = "w_block" => wake_credits[ent[t]] = 0

\* What MapHasNoIdleEntry and CreditsHaveRunners need besides TableInv.
WakeInv == MapTidy /\ SleepsWithoutCredit /\ CreditsHaveRunners

-----------------------------------------------------------------------------
(* Liveness, under FairSpec.                                               *)

\* A wait with a timeout returns, whatever the other threads do: even when
\* shutdown's notification is missed or a credit is taken by someone else.
TimedWaitReturns ==
    \A t \in Thread :
        pc[t] = "w_lock" /\ call[t].timed ~> pc[t] = "idle"

\* "shutdown did not interrupt the waiter" is the failure message of the
\* smoke test: a waiter still waiting once shutdown has begun comes back.
ShutdownInterruptsWaiters ==
    \A t \in Thread :
        shutting_down /\ pc[t] \in WaitQueued ~> pc[t] \notin WaitQueued
=============================================================================
