------------------------------- MODULE Runtime -------------------------------
(***************************************************************************)
(* The Rust runtime around the translation cache (crate prisma-runtime):   *)
(* the dispatcher's fetch/probe/translate step, the guard against          *)
(* self-modifying code, and the cache's file with its background writer.   *)
(*                                                                         *)
(* The dispatcher translates but does not execute here; guest stores and   *)
(* the host's write faults are steps of the environment.  A restart keeps  *)
(* the guest program and the cache file and loses everything else.         *)
(***************************************************************************)
EXTENDS CodeCache, Sequences

CONSTANTS Bytes,      \* The guest addresses that are mapped, 0 .. n.
          Stored,     \* Those the guest stores to.
          Values,     \* What a guest byte may be.
          Image,      \* The bytes the program starts with.
          PCs,        \* The program counters a step is taken at.
          PageSize,   \* The guard's page size.
          FetchLen,   \* How many bytes a fetch returns at most.
          Limits,     \* The pairs <<max_entries, max_bytes>> that are set.
          MaxCalls    \* Bound: how many calls, stores and faults there are.

ASSUME PageAssumption ==
  /\ PageSize \in Nat \ {0} /\ FetchLen \in Nat \ {0}
  /\ \E last \in Bytes : last \in Nat /\ Bytes = 0 .. last
  /\ Stored \subseteq Bytes /\ Image \in [Bytes -> Values]

VARIABLES memory, cache, guard,
          file,       \* The cache file.
          saver,      \* The thread of save_to_file_async and its snapshot.
          calls,      \* How many of them there have been.
          recent,     \* History: <<j, k>>, keys used since the start or a load, j not after k.
          watched,    \* History: addresses translated while the guard was enabled.
          doomed      \* History: watched translations a reported fault has hit.

vars == <<memory, cache, guard, file, saver, calls, recent, watched, doomed>>
history == <<recent, watched, doomed>>

Call == calls < MaxCalls /\ calls' = calls + 1

-----------------------------------------------------------------------------
\* SmcGuard.  The vector pending_pages holds no page twice and is only drained
\* whole, so it is a set.  The keys recorded for a tracked page go to a second
\* vector, pending, which the dispatcher never reads; both are left out.

NewGuard == [enabled |-> FALSE, pages |-> {}, pending_pages |-> {}]

page_base(a) == a - (a % PageSize)

\* Variant: only the page of the block's last byte is tracked.
on_translate_last(g, addr, len) ==
  IF g.enabled THEN [g EXCEPT !.pages = @ \union {page_base(addr + len - 1)}] ELSE g

on_translate(g, addr, len) ==
  IF g.enabled
  THEN [g EXCEPT !.pages = @ \union {page_base(a) : a \in addr .. addr + len - 1}]
  ELSE g

invalidate_tracked(g, p) ==
  IF p \in g.pages
  THEN [g EXCEPT !.pages = @ \ {p}, !.pending_pages = @ \union {p}]
  ELSE g

handle_fault(g, a) == IF g.enabled THEN invalidate_tracked(g, page_base(a)) ELSE g

-----------------------------------------------------------------------------
\* The dispatcher.

fetch(pc) ==
  LET last == Max({b \in Bytes : b < pc + FetchLen})
  IN  [i \in 1 .. last - pc + 1 |-> memory[pc + i - 1]]

apply_smc_invalidations == invalidate_pages(cache, guard.pending_pages, PageSize)
Drained == [guard EXCEPT !.pending_pages = {}]

\* The history after a use of k.
Renewed(k) ==
  {p \in recent : p[1] # k /\ p[2] # k} \union (({p[1] : p \in recent} \union {k}) \X {k})

FetchFailed(pc) ==
  /\ Call
  /\ pc \notin Bytes
  /\ cache' = apply_smc_invalidations
  /\ guard' = Drained
  /\ doomed' = {}
  /\ UNCHANGED <<memory, file, saver, recent, watched>>

CacheHit(pc) ==
  /\ Call
  /\ pc \in Bytes
  /\ Hit(apply_smc_invalidations, pc, fetch(pc))
  /\ cache' = lookup(apply_smc_invalidations, pc, fetch(pc))
  /\ guard' = Drained
  /\ recent' = Renewed(<<pc, fetch(pc)>>)
  /\ doomed' = {}
  /\ UNCHANGED <<memory, file, saver, watched>>

TranslateFailed(pc) ==
  /\ Call
  /\ pc \in Bytes
  /\ ~Hit(apply_smc_invalidations, pc, fetch(pc))
  /\ cache' = apply_smc_invalidations
  /\ guard' = Drained
  /\ doomed' = {}
  /\ UNCHANGED <<memory, file, saver, recent, watched>>

\* install_translation: the cache first, then the guard.
Installed(pc) ==
  LET k == <<pc, fetch(pc)>>
  IN  /\ Call
      /\ pc \in Bytes
      /\ ~Hit(apply_smc_invalidations, pc, fetch(pc))
      /\ cache' \in upsert(apply_smc_invalidations, k, fetch(pc))
      /\ guard' = on_translate(Drained, pc, Len(fetch(pc)))
      /\ recent' = Renewed(k)
      /\ watched' = IF guard.enabled THEN watched \union {pc} ELSE watched \ {pc}
      /\ doomed' = {}
      /\ UNCHANGED <<memory, file, saver>>

\* run_with_adapters; with max_steps = 0 it returns at once.
Step(pc) == FetchFailed(pc) \/ CacheHit(pc) \/ TranslateFailed(pc) \/ Installed(pc)

-----------------------------------------------------------------------------
\* The guest, and the fault handler that reports its stores to the guard.

GuestStore(a, v) ==
  /\ Call
  /\ memory' = [memory EXCEPT ![a] = v]
  /\ UNCHANGED <<cache, guard, file, saver, history>>

Fault(a) ==
  /\ Call
  /\ guard' = handle_fault(guard, a)
  /\ doomed' = IF guard.enabled
               THEN doomed \union {k \in Live(cache) : /\ k[1] \in watched
                                                       /\ page_base(k[1]) = page_base(a)}
               ELSE doomed
  /\ UNCHANGED <<memory, cache, file, saver, recent, watched>>

SetEnabled(on) ==
  /\ Call
  /\ guard' = [guard EXCEPT !.enabled = on]
  /\ UNCHANGED <<memory, cache, file, saver, history>>

-----------------------------------------------------------------------------
\* The operations of the cache its owner calls between steps.

Insert(pc) ==
  LET k == <<pc, fetch(pc)>>
  IN  /\ Call
      /\ pc \in Bytes
      /\ cache' \in insert(cache, k, fetch(pc))
      /\ recent' = IF k \in Keys(cache) THEN recent ELSE Renewed(k)
      /\ watched' = IF k \in Keys(cache) THEN watched ELSE watched \ {pc}
      /\ doomed' = IF k \in Keys(cache) THEN doomed ELSE doomed \ {k}
      /\ UNCHANGED <<memory, guard, file, saver>>

SetLimits(entries, bytes) ==
  /\ Call
  /\ cache' \in set_limits(cache, entries, bytes)
  /\ UNCHANGED <<memory, guard, file, saver, history>>

Touch(k) ==
  /\ Call
  /\ k \in Keys(cache)
  /\ cache' = touch(cache, k)
  /\ recent' = Renewed(k)
  /\ UNCHANGED <<memory, guard, file, saver, watched, doomed>>

Forget(k) ==
  /\ Call
  /\ cache' = invalidate(cache, k)
  /\ UNCHANGED <<memory, guard, file, saver, history>>

Tidy ==
  /\ Call
  /\ cache' \in {compact(cache), clear(cache), [cache EXCEPT !.compress = ~@]}
  /\ recent' = IF cache'.tick < cache.tick THEN {} ELSE recent
  /\ UNCHANGED <<memory, guard, file, saver, watched, doomed>>

-----------------------------------------------------------------------------
\* The cache file.  A file whose writing has begun and not ended is partial;
\* snap remembers the live translations when saving was asked for.

View(c) == [a \in {k[1] : k \in Live(c)} |-> <<c.index[a], c.entries[<<a, c.index[a]>>].code>>]

NoBody == [compressed |-> FALSE, count |-> 0, stored |-> << >>]
NoFile == [kind |-> "absent", body |-> NoBody, snap |-> << >>]
Partial == [NoFile EXCEPT !.kind = "partial"]
Whole(body, snap) == [kind |-> "whole", body |-> body, snap |-> snap]
NoSaver == [phase |-> "none", body |-> NoBody, snap |-> << >>]

\* save_to_file: it succeeds, or the file cannot be created, or not written.
Save ==
  /\ Call
  /\ file' \in {Whole(FileBody(cache), View(cache)), file, Partial}
  /\ UNCHANGED <<memory, cache, guard, saver, history>>

\* Joining the thread waits until it has ended.
Joinable == saver.phase \in {"none", "ended"}

save_to_file_async ==
  /\ Call
  /\ Joinable
  /\ saver' = [phase |-> "spawned", body |-> FileBody(cache), snap |-> View(cache)]
  /\ UNCHANGED <<memory, cache, guard, file, history>>

SaverCreates ==
  /\ saver.phase = "spawned"
  /\ \/ file' = Partial /\ saver' = [saver EXCEPT !.phase = "created"]
     \/ UNCHANGED file /\ saver' = [NoSaver EXCEPT !.phase = "ended"]
  /\ UNCHANGED <<memory, cache, guard, calls, history>>

SaverWrites ==
  /\ saver.phase = "created"
  /\ file' \in {Whole(saver.body, saver.snap), Partial}
  /\ saver' = [NoSaver EXCEPT !.phase = "ended"]
  /\ UNCHANGED <<memory, cache, guard, calls, history>>

wait_for_async_save ==
  /\ Joinable
  /\ saver' = NoSaver
  /\ UNCHANGED <<memory, cache, guard, file, calls, history>>

\* load_from_file: anything but a whole file is an error that changes nothing.
Load ==
  /\ Call
  /\ file.kind = "whole"
  /\ cache' \in Loaded(cache, file.body)
  /\ recent' = {}
  /\ watched' = {}
  /\ doomed' = {}
  /\ UNCHANGED <<memory, guard, file, saver>>

Restart ==
  /\ Call
  /\ cache' = NewCache
  /\ guard' = NewGuard
  /\ saver' = NoSaver
  /\ recent' = {}
  /\ watched' = {}
  /\ doomed' = {}
  /\ UNCHANGED <<memory, file>>

-----------------------------------------------------------------------------
Init ==
  /\ memory = Image
  /\ cache = NewCache
  /\ guard = NewGuard
  /\ file = NoFile
  /\ saver = NoSaver
  /\ recent = {}
  /\ watched = {}
  /\ calls = 0
  /\ doomed = {}

Next ==
  \/ \E pc \in PCs : Step(pc) \/ Insert(pc)
  \/ \E k \in Keys(cache) : Touch(k)
  \/ \E a \in Stored, v \in Values : GuestStore(a, v)
  \/ \E a \in Bytes : Fault(a)
  \/ \E on \in BOOLEAN : SetEnabled(on)
  \/ \E l \in Limits : SetLimits(l[1], l[2])
  \/ \E k \in Keys(cache) : Forget(k)
  \/ Tidy
  \/ Save
  \/ save_to_file_async
  \/ SaverCreates
  \/ SaverWrites
  \/ wait_for_async_save
  \/ Load
  \/ Restart

Spec == Init /\ [][Next]_vars

-----------------------------------------------------------------------------
\* Properties.

\* Code the dispatcher runs from the cache was translated from the bytes that
\* are in guest memory at that step, whatever was stored, saved, loaded or
\* invalidated before (run_with_adapters, TranslationCache::lookup).
HitIsCurrent ==
  [][\A pc \in PCs : CacheHit(pc) => HitCode(apply_smc_invalidations, pc) = fetch(pc)]_vars

\* When a write fault is reported for a page, the translations that start in
\* it are gone once the dispatcher has taken its next step, except for the
\* block that step itself translated anew (SmcGuard, apply_smc_invalidations).
ReportedWritesTakeEffect ==
  [][\A k \in doomed \intersect Live(cache'), pc \in PCs :
       Step(pc) => Installed(pc) /\ k[1] = pc]_vars

\* The live translations one step evicts: gone, and neither invalidated nor
\* replaced by another version of their block.
Evicted(before, replaced) == {k \in Live(before) : k \notin Keys(cache') /\ k[1] # replaced}

LeastRecent(gone) == \A p \in recent' : ~ (p[1] \in Live(cache') /\ p[2] \in gone)

\* Eviction takes the least recently used of the translations that have been
\* used since the cache was created or loaded (maybe_evict, lookup, touch).
EvictsLeastRecent ==
  [][Live(cache) \subseteq Keys(cache') \/
       /\ \A pc \in PCs : Installed(pc) => LeastRecent(Evicted(apply_smc_invalidations, pc))
       /\ \A pc \in PCs : Insert(pc) => LeastRecent(Evicted(cache, pc))
       /\ \A l \in Limits : SetLimits(l[1], l[2]) => LeastRecent(Evicted(cache, -1))]_vars

\* A load makes the live translations exactly those that were live when the
\* save that wrote the file was asked for, whatever the cache and the file
\* went through since, a background writer cut short included.
LoadRestores ==
  [][Load => View(cache') = file.snap]_vars
=============================================================================
