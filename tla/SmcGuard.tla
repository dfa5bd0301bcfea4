------------------------------ MODULE SmcGuard ------------------------------
(***************************************************************************)
(* Page protection against self-modifying code                             *)
(* (core/src/runtime/smc_guard.cpp, with the POSIX half of                 *)
(* signal_handler.cpp).  A guest page that holds translated code is made   *)
(* read-only; the store that faults tombstones the page in the signal      *)
(* handler, and the dispatcher reports the tombstoned keys between blocks. *)
(*                                                                         *)
(* Threads, or one of them, run the dispatcher's loop around the guard:    *)
(* drain, run the callbacks, translate, run guest stores, and, where       *)
(* blocks are threaded directly, translate the next one without a drain.   *)
(* Every critical section of the guard's spinlock is one step; the         *)
(* callbacks run outside it.                                               *)
(***************************************************************************)
EXTENDS Integers, Sequences, FiniteSets, Functions

CONSTANTS
  Thread,
  NumPages,       \* guest pages are 0 .. NumPages - 1
  PagesPerHost,   \* guest pages in a host page (1 on Linux, 4 on macOS arm64)
  Unprotectable,  \* host pages on which mprotect fails
  Key,            \* cache keys
  Cover,          \* cache key -> guest pages its guest bytes touch
  PendingCap      \* kPendingCap

Page == 0 .. NumPages - 1

\* The host page that protect_page rounds down to.
Host(p) == p \div PagesPerHost

HostPage == {Host(p) : p \in Page}

ASSUME SmcAssumption ==
  /\ NumPages \in Nat \ {0}
  /\ PagesPerHost \in Nat \ {0}
  /\ PendingCap \in Nat \ {0}
  /\ Unprotectable \subseteq HostPage
  /\ Cover \in [Key -> (SUBSET Page) \ {{}}]

VARIABLES
  entry,             \* page -> "absent", "live" or "dead" (tombstoned)
  keys,              \* page -> PageEntry::keys
  pending_,          \* fault queue
  pending_overflow_,
  writable,          \* host pages mapped read-write
  pc,                \* thread -> where its dispatch loop is
  at,                \* thread -> page of the guest store in progress
  victims,           \* thread -> keys drain_pending has still to report
  cached,            \* keys the translation cache holds
  stale,             \* keys whose guest bytes were written since translated
  forgotten          \* keys a translation on a tombstoned page has dropped

vars == <<entry, keys, pending_, pending_overflow_, writable, pc, at, victims,
          cached, stale, forgotten>>
guard == <<entry, keys, pending_, pending_overflow_, writable>>

TypeOK ==
  /\ entry \in [Page -> {"absent", "live", "dead"}]
  /\ keys \in [Page -> SUBSET Key]
  /\ pending_ \in Seq(Page) /\ Len(pending_) <= PendingCap
  /\ pending_overflow_ \in BOOLEAN
  /\ writable \subseteq HostPage
  /\ pc \in [Thread -> {"off", "drain", "callback", "translate", "run", "store",
                        "fault", "unhandled"}]
  /\ at \in [Thread -> Page]
  /\ victims \in [Thread -> SUBSET Key]
  /\ cached \subseteq Key
  /\ stale \subseteq Key
  /\ forgotten \subseteq Key

Init ==
  /\ entry = [p \in Page |-> "absent"]
  /\ keys = [p \in Page |-> {}]
  /\ pending_ = <<>> /\ pending_overflow_ = FALSE
  /\ writable = HostPage
  /\ \/ pc = [t \in Thread |-> "drain"]
     \/ \E t \in Thread : pc = [u \in Thread |-> IF u = t THEN "drain" ELSE "off"]
  /\ at = [t \in Thread |-> 0]
  /\ victims = [t \in Thread |-> {}]
  /\ cached = {} /\ stale = {} /\ forgotten = {}

\* A single thread runs.
Alone == \E t \in Thread : pc[t] = "off"

Goto(t, l) == pc' = [pc EXCEPT ![t] = l]

-----------------------------------------------------------------------------
(* The guard.                                                              *)

\* protect_page(p, rw) for every page in S: mprotect works on whole host
\* pages, and when it fails the page keeps its protection.
protect_pages(S, rw) ==
  LET hosts == {Host(p) : p \in S} \ Unprotectable
  IN  IF rw THEN writable \cup hosts ELSE writable \ hosts

\* Variant: only the first page of a block is protected.
ArmedFirst(k) == {p \in Cover[k] : \A q \in Cover[k] : p <= q}

\* Variant: a tombstone that is translated again is not re-armed.
ArmedNew(k) == {p \in Cover[k] : entry[p] = "absent"}

\* The pages on_translate arms: those without a key to start with, a
\* tombstone's keys being forgotten.
Armed(k) == {p \in Cover[k] : entry[p] # "live" \/ keys[p] = {}}

\* The tombstones whose keys on_translate(k) forgets.
Buried(k) == {p \in Cover[k] : entry[p] = "dead"}

on_translate(k) ==
  /\ entry' = [p \in Page |-> IF p \in Cover[k] THEN "live" ELSE entry[p]]
  /\ keys' = [p \in Page |->
                IF p \notin Cover[k] THEN keys[p]
                ELSE IF entry[p] = "dead" THEN {k} ELSE keys[p] \cup {k}]
  /\ writable' = protect_pages(Armed(k), FALSE)
  /\ UNCHANGED <<pending_, pending_overflow_>>

\* Tombstones belong to the drain and are skipped.
on_invalidate(k) ==
  LET emptied == {p \in Page : entry[p] = "live" /\ keys[p] \subseteq {k}}
  IN  /\ entry' = [p \in Page |-> IF p \in emptied THEN "absent" ELSE entry[p]]
      /\ keys' = [p \in Page |->
                    IF entry[p] = "live" THEN keys[p] \ {k} ELSE keys[p]]
      /\ writable' = protect_pages(emptied, TRUE)
      /\ UNCHANGED <<pending_, pending_overflow_>>

\* Variant: the page stays read-only.
TombstoneReadOnly(p) ==
  /\ entry' = [entry EXCEPT ![p] = "dead"]
  /\ pending_' = IF Len(pending_) < PendingCap
                 THEN Append(pending_, p) ELSE pending_
  /\ pending_overflow_' = (pending_overflow_ \/ Len(pending_) = PendingCap)
  /\ UNCHANGED <<keys, writable>>

\* handle_fault on a tracked page that is not tombstoned.
Tombstone(p) ==
  /\ entry' = [entry EXCEPT ![p] = "dead"]
  /\ IF Len(pending_) < PendingCap
     THEN pending_' = Append(pending_, p) /\ UNCHANGED pending_overflow_
     ELSE pending_overflow_' = TRUE /\ UNCHANGED pending_
  /\ writable' = protect_pages({p}, TRUE)
  /\ UNCHANGED keys

\* Variant: the queue is reaped and the overflow forgotten.
ReapedQueued == {p \in Page : entry[p] = "dead" /\ p \in Range(pending_)}

\* The tombstones drain_pending erases: the queued ones, or all of them
\* after an overflow.
Reaped ==
  {p \in Page : /\ entry[p] = "dead"
                /\ pending_overflow_ \/ p \in Range(pending_)}

-----------------------------------------------------------------------------
(* A dispatching thread.                                                   *)

\* drain_pending up to the end of its critical section.  It returns early
\* when nothing is pending, which Reaped = {} covers.
Drain(t) ==
  /\ pc[t] = "drain"
  /\ victims' = [victims EXCEPT ![t] = UNION {keys[p] : p \in Reaped}]
  /\ entry' = [p \in Page |-> IF p \in Reaped THEN "absent" ELSE entry[p]]
  /\ keys' = [p \in Page |-> IF p \in Reaped THEN {} ELSE keys[p]]
  /\ pending_' = <<>> /\ pending_overflow_' = FALSE
  /\ Goto(t, "callback")
  /\ UNCHANGED <<writable, at, cached, stale, forgotten>>

\* invalidate_cb(k): drop the translation; the callback may also tell the
\* guard, so that the key's other pages forget it.
Callback(t, k) ==
  /\ pc[t] = "callback" /\ k \in victims[t]
  /\ victims' = [victims EXCEPT ![t] = @ \ {k}]
  /\ cached' = cached \ {k} /\ forgotten' = forgotten \ {k}
  /\ on_invalidate(k) \/ UNCHANGED guard
  /\ UNCHANGED <<pc, at, stale>>

DrainDone(t) ==
  /\ pc[t] = "callback" /\ victims[t] = {}
  /\ Goto(t, "translate")
  /\ UNCHANGED <<guard, at, victims, cached, stale, forgotten>>

\* The current bytes are translated under k and registered: after a drain, or
\* as the successor of a block that is threaded directly.
Translate(t, k) ==
  /\ pc[t] \in {"translate", "run"}
  /\ on_translate(k)
  /\ cached' = cached \cup {k} /\ stale' = stale \ {k}
  /\ forgotten' = (forgotten \cup UNION {keys[p] : p \in Buried(k)}) \ {k}
  /\ Goto(t, "run")
  /\ UNCHANGED <<at, victims>>

\* The cache evicts k on its own account.
Evict(t, k) ==
  /\ pc[t] \in {"translate", "run"} /\ k \in cached
  /\ on_invalidate(k)
  /\ cached' = cached \ {k} /\ forgotten' = forgotten \ {k}
  /\ UNCHANGED <<pc, at, victims, stale>>

\* The block was cached.
Hit(t) ==
  /\ pc[t] = "translate"
  /\ Goto(t, "run")
  /\ UNCHANGED <<guard, at, victims, cached, stale, forgotten>>

\* The block is over.
EndBlock(t) ==
  /\ pc[t] = "run"
  /\ Goto(t, "drain")
  /\ UNCHANGED <<guard, at, victims, cached, stale, forgotten>>

BeginStore(t, p) ==
  /\ pc[t] = "run"
  /\ at' = [at EXCEPT ![t] = p]
  /\ Goto(t, "store")
  /\ UNCHANGED <<guard, victims, cached, stale, forgotten>>

\* The host executes the store; also when it retries after the handler.
Store(t) ==
  /\ pc[t] = "store"
  /\ IF Host(at[t]) \in writable
     THEN /\ stale' = stale \cup {k \in cached : at[t] \in Cover[k]}
          /\ Goto(t, "run")
     ELSE /\ Goto(t, "fault")
          /\ UNCHANGED stale
  /\ UNCHANGED <<guard, at, victims, cached, forgotten>>

\* prisma_sig_handler: the guard consumes the fault and the store retries,
\* or the fault is reported as one of the guest's own.
Fault(t) ==
  /\ pc[t] = "fault"
  /\ IF entry[at[t]] = "live"
     THEN Tombstone(at[t]) /\ Goto(t, "store")
     ELSE Goto(t, "unhandled") /\ UNCHANGED guard
  /\ UNCHANGED <<at, victims, cached, stale, forgotten>>

-----------------------------------------------------------------------------
Step(t) ==
  \/ Drain(t) \/ DrainDone(t) \/ Hit(t) \/ EndBlock(t) \/ Store(t) \/ Fault(t)
  \/ \E k \in Key : Callback(t, k) \/ Translate(t, k) \/ Evict(t, k)
  \/ \E p \in Page : BeginStore(t, p)

Next == \E t \in Thread : Step(t)

Spec == Init /\ [][Next]_vars

\* A thread keeps running its loop, and a guest block ends.
Fairness ==
  \A t \in Thread :
    /\ WF_vars(Drain(t)) /\ WF_vars(DrainDone(t)) /\ WF_vars(Hit(t))
    /\ WF_vars(Store(t)) /\ WF_vars(Fault(t)) /\ SF_vars(EndBlock(t))
    /\ WF_vars(\E k \in Key : Callback(t, k))

FairSpec == Spec /\ Fairness

-----------------------------------------------------------------------------
(* Properties.                                                             *)

\* A tombstone is in the fault queue, or the queue overflowed: "on overflow
\* drain_pending falls back to a full tombstone sweep (lossless)".
TombstonesQueued ==
  \A p \in Page : entry[p] = "dead" =>
    pending_overflow_ \/ p \in Range(pending_)

\* A page is tracked exactly while it has keys, and only by keys whose code
\* touches it.
EntriesHaveKeys ==
  \A p \in Page : /\ entry[p] = "absent" <=> keys[p] = {}
                  /\ \A k \in keys[p] : p \in Cover[k]

\* A page is read-only exactly while it holds live translations (where host
\* and guest pages agree and mprotect works): no store to translated code
\* goes unseen, and no page is left read-only.
ProtectionMatches ==
  \A p \in Page : Host(p) \notin Unprotectable =>
    (Host(p) \notin writable <=> entry[p] = "live")

\* The written translations that no later translation on their tombstoned
\* pages has made the guard forget.
Overwritten == (cached \cap stale) \ forgotten

\* A cached translation whose bytes were written is still to be reported ("On
\* fault, every translation that covers the page is invalidated", RFC 0010)
\* until the very page that faulted is translated again: on_translate then
\* clears the tombstone's keys, and these are the only ones that get lost.
StaleReported ==
  Alone => \A k \in Overwritten :
    \/ \E p \in Cover[k] : \/ entry[p] = "dead" /\ k \in keys[p]
                           \/ Host(p) \in Unprotectable
    \/ \E t \in Thread : k \in victims[t]

\* The guard never lets a fault it caused itself reach the guest.
NoSpuriousFault == Alone => \A t \in Thread : pc[t] # "unhandled"

\* What these two rest on while a single thread runs: a cached translation is
\* registered on every page it touches, until a drain reports it or a
\* translation on a tombstone forgets it.
AloneInv ==
  /\ \A t, u \in Thread : pc[t] # "off" /\ pc[u] # "off" => t = u
  /\ \A t \in Thread :
       /\ victims[t] # {} => pc[t] = "callback"
       /\ pc[t] = "fault" => Host(at[t]) \notin writable
  /\ \A k \in cached : \/ k \in forgotten
                       \/ \A p \in Cover[k] : k \in keys[p]
                       \/ \E t \in Thread : k \in victims[t]

SoloInv == /\ Unprotectable \subseteq writable
           /\ Alone => AloneInv /\ StaleReported /\ NoSpuriousFault

\* A written translation eventually leaves the cache or is translated anew,
\* unless a translation on its tombstoned page comes first.
StaleLeaves ==
  \A k \in Key :
    (Alone /\ k \in Overwritten /\ \A p \in Cover[k] : Host(p) \notin Unprotectable)
      ~> k \notin Overwritten

=============================================================================
