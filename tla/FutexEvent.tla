----------------------------- MODULE FutexEvent -----------------------------
(***************************************************************************)
(* Guest threads that use one futex word as an event, on top of the wait   *)
(* table.  A notifier stores a new value and wakes every waiter; a waiter  *)
(* runs                                                                    *)
(*                                                                         *)
(*     while ((v = load(word)) is in Pending) futex_wait(word, v)          *)
(*                                                                         *)
(* The guest code is not part of the repository.  It is the protocol that  *)
(* FUTEX_WAIT and FUTEX_WAKE exist for, and the one RFC 0022 has in mind:  *)
(* the wait re-checks the word under the lock and then parks.              *)
(***************************************************************************)
EXTENDS FutexWaitTable

CONSTANTS Waiter, Notifier, \* the two roles, subsets of Thread
          Event,            \* the address of the futex word
          Last,             \* the notifier stores 1, 2, ..., Last
          Pending           \* values a waiter goes on waiting for

ASSUME EventAssumption ==
    /\ Waiter \cup Notifier \subseteq Thread
    /\ Waiter \cap Notifier = {}
    /\ Event \in Addr
    /\ Last \in Nat
    /\ 0..Last \subseteq Word
    /\ Pending \subseteq 0..Last - 1
    /\ Cardinality(Waiter) <= MaxCount

VARIABLES seen,  \* the value a waiter has loaded and not yet acted on
          owes   \* a notifier that has stored and has still to call wake

clients == <<seen, owes>>

EventInit ==
    /\ Init
    /\ word = [a \in Addr |-> 0]
    /\ seen = [t \in Waiter |-> None]
    /\ owes = [t \in Notifier |-> FALSE]

Load(t) ==
    /\ pc[t] = "idle"
    /\ seen[t] = None
    /\ seen' = [seen EXCEPT ![t] = word[Event]]
    /\ UNCHANGED <<vars, owes>>

Await(t) ==
    /\ seen[t] \in Pending
    /\ \E timed \in BOOLEAN :
         WaitCall(t, [addr |-> Event, expected |-> seen[t],
                      timed |-> timed, count |-> 0])
    /\ seen' = [seen EXCEPT ![t] = None]
    /\ UNCHANGED owes

Post(t) ==
    /\ pc[t] = "idle"
    /\ ~owes[t]
    /\ word[Event] < Last
    /\ GuestStore(Event, word[Event] + 1)
    /\ owes' = [owes EXCEPT ![t] = TRUE]
    /\ UNCHANGED seen

WakeAll(t) ==
    /\ owes[t]
    /\ WakeCall(t, [addr |-> Event, expected |-> None,
                    timed |-> FALSE, count |-> MaxCount])
    /\ owes' = [owes EXCEPT ![t] = FALSE]
    /\ UNCHANGED seen

InTable(t) == (Progress(t) \/ SpuriousWakeup(t) \/ Expire(t)) /\ UNCHANGED clients

\* Every waiter has loaded a value it does not wait for, every notifier is
\* through.
AllDone ==
    /\ \A t \in Waiter : pc[t] = "idle" /\ seen[t] \notin Pending \cup {None}
    /\ \A t \in Notifier : pc[t] = "idle" /\ ~owes[t]
    /\ word[Event] = Last

Done == AllDone /\ UNCHANGED <<vars, clients>>

EventNext ==
    \/ \E t \in Waiter : Load(t) \/ Await(t)
    \/ \E t \in Notifier : Post(t) \/ WakeAll(t)
    \/ \E t \in Thread : InTable(t)
    \/ Done

eventVars == <<vars, clients>>

\* The guest threads and the table calls they make keep running.  Neither a
\* spurious wakeup nor a timeout is ever needed for progress.
EventFairness ==
    /\ \A t \in Waiter : WF_eventVars(Load(t)) /\ WF_eventVars(Await(t))
    /\ \A t \in Notifier : WF_eventVars(Post(t)) /\ WF_eventVars(WakeAll(t))
    /\ \A t \in Thread :
         /\ WF_eventVars(Progress(t) /\ UNCHANGED clients)
         /\ SF_eventVars(TakesMutex(t) /\ UNCHANGED clients)

EventSpec == EventInit /\ [][EventNext]_eventVars /\ EventFairness

-----------------------------------------------------------------------------
\* No notifier is between its store and the moment wake hands out credits.
Announced == \A t \in Notifier : ~owes[t] /\ pc[t] # "k_lock"

\* The lost-wakeup window the header says is closed.  After the last store
\* and its wake, no thread sleeps on an out-of-date value without a credit:
\* a waiter either was counted by the wake or saw the new value.
NoLostWakeup ==
    word[Event] = Last /\ Announced =>
        \A e \in EntryId :
            Cardinality({t \in Queued(e) : call[t].expected # Last}) <= wake_credits[e]

(* The inductive invariant behind NoLostWakeup.                            *)

\* The guest threads keep to the protocol: waiters wait on Event for a value
\* in Pending, notifiers wake everyone, nobody shuts the table down.
Protocol ==
    /\ ~shutting_down
    /\ word[Event] \in 0..Last
    /\ owes \in [Notifier -> BOOLEAN]
    /\ \A t \in Thread : pc[t] \in WaitPC =>
         t \in Waiter /\ call[t].addr = Event /\ call[t].expected \in Pending
    /\ \A t \in Thread : pc[t] \in WakePC =>
         t \in Notifier /\ call[t].addr = Event
    /\ \A t \in Thread : pc[t] = "k_lock" => call[t].count = MaxCount

\* After the last store and its wake every waiter has its credit, and no
\* other waiter has read an old value and is on its way to the queue.
Informed ==
    word[Event] = Last /\ Announced =>
        /\ \A t \in Thread : pc[t] # "w_check"
        /\ \A e \in EntryId : waiters[e] <= wake_credits[e]

EventInv == Protocol /\ Informed

\* Every waiter sees the event in the end.
EventDelivered == \A t \in Waiter : <>(seen[t] = Last)
=============================================================================
