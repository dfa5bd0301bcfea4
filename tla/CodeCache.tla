------------------------------ MODULE CodeCache ------------------------------
(***************************************************************************)
(* The translation cache of the Rust shell (crate prisma-cache).           *)
(*                                                                         *)
(* A cache c is a record: c.entries maps keys <<guest_addr, content_hash>> *)
(* to entries, c.index is addr_to_hash, c.tick is next_tick, and           *)
(* c.max_entries and c.max_bytes are the limits (0 is unlimited).  The     *)
(* FNV-1a hash of guest bytes is represented by the bytes themselves, so   *)
(* that two different contents never have one hash.  An entry's code is    *)
(* the content it was translated from, and its hit count, which nothing    *)
(* but statistics reads, is left out.                                      *)
(*                                                                         *)
(* The entries are a HashMap: where the code takes the first of several    *)
(* entries, or numbers them in the map's order, the operators below give   *)
(* the set of all possible results.                                        *)
(***************************************************************************)
EXTENDS Integers, FiniteSets, FiniteSetsExt, Functions

CONSTANT CodeLen(_)   \* The length of the code translated from some content.

NewCache == [entries |-> << >>, index |-> << >>, tick |-> 1,
             max_entries |-> 0, max_bytes |-> 0, compress |-> FALSE]

Keys(c) == DOMAIN c.entries
Without(f, S) == Restrict(f, DOMAIN f \ S)
Put(f, x, v) == [y \in DOMAIN f \union {x} |-> IF y = x THEN v ELSE f[y]]

is_live_key(c, k) == k[1] \in DOMAIN c.index /\ c.index[k[1]] = k[2]
Live(c) == {k \in Keys(c) : is_live_key(c, k)}

total_code_bytes(c) == MapThenSumSet(LAMBDA k : CodeLen(c.entries[k].code), Keys(c))

compact(c) == [c EXCEPT !.entries = Restrict(@, Live(c))]

OverLimit(c) ==
  \/ c.max_entries # 0 /\ Cardinality(Keys(c)) > c.max_entries
  \/ c.max_bytes # 0 /\ total_code_bytes(c) > c.max_bytes

\* The entries S of a cache of live entries, and their addresses, dropped.
Drop(c, S) ==
  [c EXCEPT !.entries = Without(@, S), !.index = Without(@, {k[1] : k \in S})]

\* What the loop of maybe_evict can drop once it has called compact: the
\* least recently used entries, the last of them when a limit was exceeded
\* still.  Several entries may be equally old.
EvictedSets(c) ==
  {S \in SUBSET Keys(c) :
     /\ ~OverLimit(Drop(c, S))
     /\ \A k \in S, o \in Keys(c) \ S : c.entries[k].used <= c.entries[o].used
     /\ S # {} => \E k \in S : /\ \A o \in S : c.entries[o].used <= c.entries[k].used
                              /\ OverLimit(Drop(c, S \ {k}))}

maybe_evict(c) ==
  IF ~OverLimit(c) THEN {c} ELSE {Drop(compact(c), S) : S \in EvictedSets(compact(c))}

set_limits(c, entries, bytes) ==
  maybe_evict([c EXCEPT !.max_entries = entries, !.max_bytes = bytes])

\* Variant: a known address hits whatever its bytes are now.
HitUnchecked(c, a, bytes) == a \in DOMAIN c.index /\ <<a, c.index[a]>> \in Keys(c)

Hit(c, a, bytes) == is_live_key(c, <<a, bytes>>) /\ <<a, bytes>> \in Keys(c)

\* The code a hit at address a yields.
HitCode(c, a) == c.entries[<<a, c.index[a]>>].code

\* Variant: a use does not renew the entry.
UsedUnstamped(c, k) == [c EXCEPT !.tick = @ + 1]

\* The entry as last used now.
Used(c, k) == [c EXCEPT !.entries[k].used = c.tick, !.tick = @ + 1]

\* lookup, its effect on the cache.
lookup(c, a, bytes) == IF Hit(c, a, bytes) THEN Used(c, <<a, bytes>>) ELSE c

touch(c, k) == IF k \in Keys(c) THEN Used(c, k) ELSE c

Store(c, k, code) ==
  maybe_evict([c EXCEPT !.entries = Put(@, k, [used |-> c.tick, code |-> code]),
                        !.index = Put(@, k[1], k[2]),
                        !.tick = @ + 1])

insert(c, k, code) == IF k \in Keys(c) THEN {c} ELSE Store(c, k, code)

upsert(c, k, code) ==
  LET previous == IF k[1] \in DOMAIN c.index THEN {<<k[1], c.index[k[1]]>>} ELSE {}
  IN  Store([c EXCEPT !.entries = Without(@, previous \ {k})], k, code)

invalidate(c, k) ==
  LET current == IF k[1] \in DOMAIN c.index THEN {<<k[1], c.index[k[1]]>>} ELSE {}
  IN  [c EXCEPT !.entries = Without(@, current \union {k}), !.index = Without(@, {k[1]})]

\* invalidate_page for each of the pages, in any order.
invalidate_pages(c, pages, size) ==
  LET dropped == {a \in DOMAIN c.index : \E p \in pages : p <= a /\ a < p + size}
  IN  [c EXCEPT !.entries = Without(@, {<<a, c.index[a]>> : a \in dropped}),
                !.index = Without(@, dropped)]

clear(c) == [c EXCEPT !.entries = << >>, !.index = << >>, !.tick = 1]

-----------------------------------------------------------------------------
\* The cache file.  A compressed frame (external: zstd) is told apart from
\* the bytes it stands for.

compress(code) == [frame |-> code]
decompress(f) == f.frame

\* Variant: orphaned entries are written as well.
FileBodyAll(c) ==
  [compressed |-> c.compress,
   count |-> Cardinality(Keys(c)),
   stored |-> [k \in Keys(c) |-> IF c.compress THEN compress(c.entries[k].code)
                                               ELSE c.entries[k].code]]

\* The body save_to_file writes: the live entries and the compression flag.
FileBody(c) ==
  [compressed |-> c.compress,
   count |-> Cardinality(Live(c)),
   stored |-> [k \in Live(c) |-> IF c.compress THEN compress(c.entries[k].code)
                                               ELSE c.entries[k].code]]

\* load_from_file when the whole body can be read: every numbering of the
\* entries by the new map's order is possible.
Loaded(c, body) ==
  LET ks == DOMAIN body.stored
      orders == Injection(ks, 0 .. body.count - 1)
      code(k) == IF body.compressed THEN decompress(body.stored[k]) ELSE body.stored[k]
  IN  {[c EXCEPT !.entries = [k \in ks |-> [used |-> o[k], code |-> code(k)]],
                 !.index = [a \in {k[1] : k \in ks} |-> (CHOOSE k \in ks : k[1] = a)[2]],
                 !.tick = 1] : o \in orders}
=============================================================================
