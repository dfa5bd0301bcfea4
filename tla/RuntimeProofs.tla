---------------------------- MODULE RuntimeProofs ----------------------------
(***************************************************************************)
(* The Rust cache, its guard and its file, for every guest, every set of   *)
(* limits and every length of code: a hit runs code of the current bytes,  *)
(* a reported write drops its page's translations, eviction goes by the    *)
(* order of use, and a load restores what was saved.                       *)
(***************************************************************************)
EXTENDS Runtime, TLAPS

\* The inductive invariant.

IsPair(p) == p = <<p[1], p[2]>>
IsFcn(f) == f = [x \in DOMAIN f |-> f[x]]
IsRecord(c) ==
  c = [entries |-> c.entries, index |-> c.index, tick |-> c.tick,
       max_entries |-> c.max_entries, max_bytes |-> c.max_bytes, compress |-> c.compress]

\* A cache whose entries hold the code of the content they are keyed by.
IsCache(c) ==
  /\ IsRecord(c)
  /\ IsFcn(c.entries) /\ IsFcn(c.index)
  /\ c.tick \in Nat
  /\ \A k \in Keys(c) : /\ IsPair(k) /\ k[1] \in Nat
                        /\ c.entries[k] = [used |-> c.entries[k].used, code |-> k[2]]
                        /\ c.entries[k].used \in Nat

\* The uses that the history r remembers are in the order of the ticks.
InOrder(c, r) ==
  \A p \in r : /\ IsPair(p) /\ <<p[1], p[1]>> \in r
               /\ p[2] \in Keys(c) => c.entries[p[2]].used < c.tick
               /\ p[1] \in Keys(c) /\ p[2] \in Keys(c) /\ p[1] # p[2] =>
                    c.entries[p[1]].used < c.entries[p[2]].used

\* The guard knows the page of each watched translation, and has set aside
\* the page of each doomed one.
Guarded(c, g, w, dm) ==
  /\ \A k \in Live(c) : k[1] \in w => page_base(k[1]) \in g.pages \union g.pending_pages
  /\ \A k \in Live(c) \intersect dm : page_base(k[1]) \in g.pending_pages

IsGuard(g) ==
  /\ g = [enabled |-> g.enabled, pages |-> g.pages, pending_pages |-> g.pending_pages]
  /\ g.enabled \in BOOLEAN

\* A body that was written when the live translations were snap.
CodeIn(body, k) == IF body.compressed THEN decompress(body.stored[k]) ELSE body.stored[k]
BodyOf(body, snap) ==
  /\ IsFcn(snap)
  /\ DOMAIN snap = {k[1] : k \in DOMAIN body.stored}
  /\ \A k \in DOMAIN body.stored : /\ IsPair(k) /\ k[1] \in Nat
                                   /\ CodeIn(body, k) = k[2]
                                   /\ snap[k[1]] = <<k[2], k[2]>>

Files ==
  /\ file.kind = "whole" => BodyOf(file.body, file.snap)
  /\ saver = [phase |-> saver.phase, body |-> saver.body, snap |-> saver.snap]
  /\ saver.phase \in {"spawned", "created"} => BodyOf(saver.body, saver.snap)

RuntimeInv ==
  /\ memory \in [Bytes -> Values]
  /\ IsCache(cache) /\ InOrder(cache, recent)
  /\ IsGuard(guard) /\ Guarded(cache, guard, watched, doomed)
  /\ Files

-----------------------------------------------------------------------------
(* The operations of the cache.                                            *)

\* d is c with some translations dropped.
Within(d, c) ==
  /\ IsCache(d) /\ Keys(d) \subseteq Keys(c) /\ d.tick = c.tick
  /\ \A k \in Keys(d) : d.entries[k] = c.entries[k]
  /\ Live(d) \subseteq Live(c)

LEMMA RestrictIs ==
  ASSUME NEW f, NEW S
  PROVE  /\ DOMAIN Restrict(f, S) = S
         /\ \A x \in S : Restrict(f, S)[x] = f[x]
         /\ IsFcn(Restrict(f, S))
BY Zenon DEF Restrict, IsFcn

\* The assignments to the fields of a cache.
LEMMA SetEntries ==
  ASSUME NEW c, IsRecord(c), NEW v
  PROVE  /\ IsRecord([c EXCEPT !.entries = v])
         /\ [c EXCEPT !.entries = v].entries = v
         /\ [c EXCEPT !.entries = v].index = c.index
         /\ [c EXCEPT !.entries = v].tick = c.tick
         /\ [c EXCEPT !.entries = v].compress = c.compress
BY DEF IsRecord

LEMMA SetIndex ==
  ASSUME NEW c, IsRecord(c), NEW v
  PROVE  /\ IsRecord([c EXCEPT !.index = v])
         /\ [c EXCEPT !.index = v].entries = c.entries
         /\ [c EXCEPT !.index = v].index = v
         /\ [c EXCEPT !.index = v].tick = c.tick
         /\ [c EXCEPT !.index = v].compress = c.compress
BY DEF IsRecord

LEMMA SetTick ==
  ASSUME NEW c, IsRecord(c), NEW v
  PROVE  /\ IsRecord([c EXCEPT !.tick = v])
         /\ [c EXCEPT !.tick = v].entries = c.entries
         /\ [c EXCEPT !.tick = v].index = c.index
         /\ [c EXCEPT !.tick = v].tick = v
         /\ [c EXCEPT !.tick = v].compress = c.compress
BY DEF IsRecord

LEMMA SetOther ==
  ASSUME NEW c, IsRecord(c), NEW v, NEW d,
         \/ d = [c EXCEPT !.max_entries = v]
         \/ d = [c EXCEPT !.max_bytes = v]
         \/ d = [c EXCEPT !.compress = v]
  PROVE  IsRecord(d) /\ d.entries = c.entries /\ d.index = c.index /\ d.tick = c.tick
BY Zenon DEF IsRecord

Table(c, E, I) == [c EXCEPT !.entries = E, !.index = I]

LEMMA SetTable ==
  ASSUME NEW c, IsRecord(c), NEW E, NEW I
  PROVE  /\ IsRecord(Table(c, E, I))
         /\ Table(c, E, I).entries = E
         /\ Table(c, E, I).index = I
         /\ Table(c, E, I).tick = c.tick
<1> DEFINE b == [c EXCEPT !.entries = E]
           d == [b EXCEPT !.index = I]
<1>1. IsRecord(b) /\ b.entries = E /\ b.tick = c.tick
  BY SetEntries
<1> HIDE DEF b
<1>2. IsRecord(d) /\ d.entries = E /\ d.index = I /\ d.tick = c.tick
  BY <1>1, SetIndex
<1> QED BY <1>2, Zenon DEF b, Table

\* d has some of the entries of c, and some of its addresses.
LEMMA FewerEntries ==
  ASSUME NEW c, IsCache(c), NEW d, IsRecord(d), d.tick = c.tick,
         IsFcn(d.entries), DOMAIN d.entries \subseteq DOMAIN c.entries,
         \A k \in DOMAIN d.entries : d.entries[k] = c.entries[k],
         IsFcn(d.index), DOMAIN d.index \subseteq DOMAIN c.index,
         \A a \in DOMAIN d.index : d.index[a] = c.index[a]
  PROVE  /\ Within(d, c)
         /\ Live(d) = {k \in Live(c) : k \in Keys(d) /\ k[1] \in DOMAIN d.index}
<1>1. \A k \in Keys(d) : /\ IsPair(k) /\ k[1] \in Nat
                         /\ d.entries[k] = [used |-> d.entries[k].used, code |-> k[2]]
                         /\ d.entries[k].used \in Nat
  BY Zenon DEF IsCache, Keys
<1>2. IsCache(d)
  BY <1>1, Zenon DEF IsCache, IsRecord
<1>3. Live(d) = {k \in Live(c) : k \in Keys(d) /\ k[1] \in DOMAIN d.index}
  BY Zenon DEF Live, is_live_key, Keys
<1> QED BY <1>2, <1>3, Zenon DEF Within, Keys

LEMMA WithinTrans ==
  ASSUME NEW b, NEW c, NEW d, Within(d, c), Within(c, b) PROVE Within(d, b)
BY Zenon DEF Within

LEMMA WithinSelf == ASSUME NEW c, IsCache(c) PROVE Within(c, c)
BY Zenon DEF Within

LEMMA CompactKeepsLive ==
  ASSUME NEW c, IsCache(c)
  PROVE  Within(compact(c), c) /\ Keys(compact(c)) = Live(c) /\ Live(compact(c)) = Live(c)
<1> DEFINE E == Restrict(c.entries, Live(c))
           d == [c EXCEPT !.entries = E]
<1>1. DOMAIN E = Live(c) /\ IsFcn(E) /\ \A k \in Live(c) : E[k] = c.entries[k]
  BY RestrictIs, Zenon
<1>2. Live(c) \subseteq DOMAIN c.entries
  BY Zenon DEF Live, Keys
<1> HIDE DEF E
<1>3. d.entries = E /\ d.index = c.index /\ d.tick = c.tick /\ IsRecord(d)
  BY SetEntries DEF IsCache
<1>4. d = compact(c)
  BY Zenon DEF compact, E
<1> HIDE DEF d
<1>5. IsFcn(c.index)
  BY Zenon DEF IsCache
<1>6. Within(d, c) /\ Live(d) = {k \in Live(c) : k \in Keys(d) /\ k[1] \in DOMAIN d.index}
  BY <1>1, <1>2, <1>3, <1>5, FewerEntries
<1>7. Keys(d) = Live(c)
  BY <1>1, <1>3, Zenon DEF Keys
<1>8. Live(d) = Live(c)
  BY <1>3, <1>6, <1>7, Zenon DEF Live, is_live_key
<1> QED BY <1>4, <1>6, <1>7, <1>8, Zenon

\* Some entries and some addresses dropped.
Dropping(c, S, A) == [c EXCEPT !.entries = Without(@, S), !.index = Without(@, A)]

LEMMA TableWithin ==
  ASSUME NEW c, IsCache(c), NEW S, NEW A
  PROVE  /\ Within(Dropping(c, S, A), c) /\ Keys(Dropping(c, S, A)) = Keys(c) \ S
         /\ \A k \in Live(Dropping(c, S, A)) : k[1] \notin A
<1> DEFINE E == Without(c.entries, S)
           I == Without(c.index, A)
           d == Dropping(c, S, A)
<1>1. /\ DOMAIN E = Keys(c) \ S /\ IsFcn(E) /\ \A k \in Keys(c) \ S : E[k] = c.entries[k]
      /\ DOMAIN I = DOMAIN c.index \ A /\ IsFcn(I) /\ \A a \in DOMAIN c.index \ A : I[a] = c.index[a]
  BY RestrictIs DEF Without, Keys
<1>2. IsRecord(c)
  BY Zenon DEF IsCache
<1> HIDE DEF E, I
<1>3. d.entries = E /\ d.index = I /\ d.tick = c.tick /\ IsRecord(d)
  <2>1. d = Table(c, E, I)
    BY Zenon DEF E, I, Dropping, Table
  <2> HIDE DEF d
  <2> QED BY <1>2, <2>1, SetTable
<1> HIDE DEF d
<1>4. Within(d, c) /\ Live(d) = {k \in Live(c) : k \in Keys(d) /\ k[1] \in DOMAIN d.index}
  <2>1. DOMAIN d.entries \subseteq DOMAIN c.entries /\ DOMAIN d.index \subseteq DOMAIN c.index
    BY <1>1, <1>3, Zenon DEF Keys
  <2>2. /\ \A k \in DOMAIN d.entries : d.entries[k] = c.entries[k]
        /\ \A a \in DOMAIN d.index : d.index[a] = c.index[a]
    BY <1>1, <1>3, Zenon
  <2> QED BY <1>1, <1>3, <2>1, <2>2, FewerEntries
<1> QED BY <1>1, <1>3, <1>4, Zenon DEF Keys, d

LEMMA DropIs ==
  ASSUME NEW c, IsCache(c), NEW S
  PROVE  Within(Drop(c, S), c) /\ Keys(Drop(c, S)) = Keys(c) \ S
<1> DEFINE A == {k[1] : k \in S}
<1>1. Drop(c, S) = Dropping(c, S, A)
  BY Zenon DEF Drop, Dropping
<1> HIDE DEF A
<1>2. Within(Dropping(c, S, A), c) /\ Keys(Dropping(c, S, A)) = Keys(c) \ S
  BY TableWithin, Zenon
<1> QED BY <1>1, <1>2, Zenon

\* The translations of invalidated pages, and of a forgotten address.
LEMMA PagesWithin ==
  ASSUME NEW c, IsCache(c), NEW pages, NEW size, NEW d, d = invalidate_pages(c, pages, size)
  PROVE  Within(d, c) /\ \A k \in Live(d), p \in pages : ~ (p <= k[1] /\ k[1] < p + size)
<1> DEFINE A == {a \in DOMAIN c.index : \E p \in pages : p <= a /\ a < p + size}
           S == {<<a, c.index[a]>> : a \in A}
<1>1. d = Dropping(c, S, A)
  BY Zenon DEF invalidate_pages, Dropping
<1> HIDE DEF S
<1>2. Within(d, c) /\ \A k \in Live(d) : k[1] \notin A
  <2> HIDE DEF A
  <2> QED BY <1>1, TableWithin
<1>3. \A k \in Live(d) : k[1] \in DOMAIN c.index
  BY <1>2, Zenon DEF Within, Live, is_live_key
<1> QED BY <1>2, <1>3, Zenon

LEMMA ForgetWithin ==
  ASSUME NEW c, IsCache(c), NEW k PROVE Within(invalidate(c, k), c)
<1> DEFINE S == (IF k[1] \in DOMAIN c.index THEN {<<k[1], c.index[k[1]]>>} ELSE {}) \cup {k}
<1>1. invalidate(c, k) = Dropping(c, S, {k[1]})
  BY Zenon DEF invalidate, Dropping
<1> HIDE DEF S
<1> QED BY <1>1, TableWithin

\* maybe_evict drops translations only, and no live one is younger than one
\* that stays.
LEMMA EvictWithin ==
  ASSUME NEW c, IsCache(c), NEW d \in maybe_evict(c)
  PROVE  /\ Within(d, c)
         /\ \A k \in Live(c) \ Keys(d), o \in Live(d) : c.entries[k].used <= c.entries[o].used
<1>1. CASE ~OverLimit(c)
  <2>1. d = c
    BY <1>1, Zenon DEF maybe_evict
  <2> QED BY <2>1, WithinSelf, Zenon DEF Live
<1>2. CASE OverLimit(c)
  <2> DEFINE b == compact(c)
  <2>1. PICK S \in EvictedSets(b) : d = Drop(b, S)
    BY <1>2, Zenon DEF maybe_evict
  <2>2. Within(b, c) /\ Keys(b) = Live(c) /\ Live(b) = Live(c)
    BY CompactKeepsLive, Zenon
  <2> HIDE DEF b
  <2>3. Within(d, b) /\ Keys(d) = Keys(b) \ S
    BY <2>1, <2>2, DropIs DEF Within
  <2>4. \A k \in S, o \in Keys(b) \ S : b.entries[k].used <= b.entries[o].used
    BY <2>1, Zenon DEF EvictedSets
  <2>5. Within(d, c)
    BY <2>2, <2>3, WithinTrans, Zenon
  <2>6. Live(d) \subseteq Keys(d)
    BY Zenon DEF Live
  <2>7. ASSUME NEW k \in Live(c) \ Keys(d), NEW o \in Live(d)
        PROVE  c.entries[k].used <= c.entries[o].used
    <3>1. k \in S /\ k \in Keys(b) /\ o \in Keys(b) \ S
      BY <2>2, <2>3, <2>6, <2>7, Zenon
    <3>2. b.entries[k] = c.entries[k] /\ b.entries[o] = c.entries[o]
      BY <2>2, <3>1, Zenon DEF Within
    <3> QED BY <2>4, <3>1, <3>2, Zenon
  <2> QED BY <2>5, <2>7, Zenon
<1> QED BY <1>1, <1>2, Zenon

\* Setting a limit or the compression flag.
LEMMA TunedWithin ==
  ASSUME NEW c, IsCache(c), NEW d, IsRecord(d),
         d.entries = c.entries, d.index = c.index, d.tick = c.tick
  PROVE  Within(d, c) /\ Keys(d) = Keys(c) /\ Live(d) = Live(c)
<1>1. IsFcn(c.entries) /\ IsFcn(c.index)
  BY Zenon DEF IsCache
<1>2. Within(d, c)
  BY <1>1, FewerEntries, Zenon
<1>3. Keys(d) = Keys(c)
  BY Zenon DEF Keys
<1> QED BY <1>2, <1>3, Zenon DEF Live, is_live_key

LEMMA LimitsWithin ==
  ASSUME NEW c, IsCache(c), NEW m, NEW n, NEW d \in set_limits(c, m, n)
  PROVE  /\ Within(d, c)
         /\ \A k \in Live(c) \ Keys(d), o \in Live(d) : c.entries[k].used <= c.entries[o].used
<1> DEFINE a == [c EXCEPT !.max_entries = m]
           b == [a EXCEPT !.max_bytes = n]
<1>1. IsRecord(a) /\ a.entries = c.entries /\ a.index = c.index /\ a.tick = c.tick
  BY SetOther DEF IsCache
<1>2. b = [c EXCEPT !.max_entries = m, !.max_bytes = n]
  BY Zenon
<1> HIDE DEF a
<1>3. IsRecord(b) /\ b.entries = c.entries /\ b.index = c.index /\ b.tick = c.tick
  BY <1>1, SetOther
<1>4. d \in maybe_evict(b)
  BY <1>2, Zenon DEF set_limits
<1> HIDE DEF b
<1>5. Within(b, c) /\ Keys(b) = Keys(c) /\ Live(b) = Live(c)
  BY <1>3, TunedWithin, Zenon
<1>6. /\ Within(d, b)
      /\ \A k \in Live(b) \ Keys(d), o \in Live(d) : b.entries[k].used <= b.entries[o].used
  BY <1>4, <1>5, EvictWithin, Zenon DEF Within
<1> QED BY <1>3, <1>5, <1>6, WithinTrans, Zenon

\* A use of an entry.
LEMMA UseIs ==
  ASSUME NEW c, IsCache(c), NEW k \in Keys(c), NEW d, d = Used(c, k)
  PROVE  /\ IsCache(d) /\ Keys(d) = Keys(c) /\ Live(d) = Live(c) /\ d.tick = c.tick + 1
         /\ d.entries[k].used = c.tick
         /\ \A j \in Keys(c) \ {k} : d.entries[j] = c.entries[j]
<1> DEFINE e == [c.entries[k] EXCEPT !.used = c.tick]
           E == [c.entries EXCEPT ![k] = e]
           b == [c EXCEPT !.entries = E]
<1>1. d = [b EXCEPT !.tick = c.tick + 1]
  BY Zenon DEF Used
<1>2. e = [used |-> c.tick, code |-> k[2]] /\ e.used = c.tick
  <2>1. PICK u : c.entries[k] = [used |-> u, code |-> k[2]]
    BY Zenon DEF IsCache
  <2> QED BY <2>1
<1>3. c.tick \in Nat /\ IsFcn(c.entries) /\ IsFcn(c.index) /\ IsRecord(c)
  BY Zenon DEF IsCache
<1> HIDE DEF e
<1>4. /\ DOMAIN E = Keys(c) /\ E[k] = e /\ IsFcn(E)
      /\ \A j \in Keys(c) \ {k} : E[j] = c.entries[j]
  BY <1>3, Zenon DEF Keys, IsFcn
<1> HIDE DEF E
<1>5. IsRecord(b) /\ b.entries = E /\ b.index = c.index
  BY <1>3, SetEntries
<1> HIDE DEF b
<1>6. IsRecord(d) /\ d.entries = E /\ d.index = c.index /\ d.tick = c.tick + 1
  BY <1>1, <1>5, SetTick
<1>7. Keys(d) = Keys(c)
  BY <1>4, <1>6, Zenon DEF Keys
<1>8. ASSUME NEW j \in Keys(d)
      PROVE  /\ IsPair(j) /\ j[1] \in Nat
             /\ d.entries[j] = [used |-> d.entries[j].used, code |-> j[2]]
             /\ d.entries[j].used \in Nat
  <2>1. CASE j = k
    <3>1. d.entries[j] = e /\ e = [used |-> e.used, code |-> j[2]] /\ e.used \in Nat
      BY <1>2, <1>3, <1>4, <1>6, <2>1, Zenon
    <3> QED BY <1>7, <3>1, Zenon DEF IsCache
  <2>2. CASE j # k
    BY <1>4, <1>6, <1>7, <2>2 DEF IsCache
  <2> QED BY <2>1, <2>2, Zenon
<1>9. IsCache(d)
  BY <1>3, <1>4, <1>6, <1>8 DEF IsCache
<1>10. Live(d) = Live(c)
  BY <1>6, <1>7, Zenon DEF Live, is_live_key
<1> QED BY <1>2, <1>4, <1>6, <1>7, <1>9, <1>10, Zenon

\* A translation put into the cache, before limits are looked at.
Putting(c, k) ==
  [c EXCEPT !.entries = Put(@, k, [used |-> c.tick, code |-> k[2]]),
            !.index = Put(@, k[1], k[2]),
            !.tick = @ + 1]

LEMMA PutsEntry ==
  ASSUME NEW c, IsCache(c), NEW k, IsPair(k), k[1] \in Nat, NEW d, d = Putting(c, k)
  PROVE  /\ IsCache(d) /\ Keys(d) = Keys(c) \cup {k} /\ d.tick = c.tick + 1
         /\ Live(d) = {j \in Live(c) : j[1] # k[1]} \cup {k}
         /\ d.entries[k].used = c.tick
         /\ \A j \in Keys(c) \ {k} : d.entries[j] = c.entries[j]
<1> DEFINE e == [used |-> c.tick, code |-> k[2]]
           E == Put(c.entries, k, e)
           I == Put(c.index, k[1], k[2])
           b == Table(c, E, I)
<1>1. d = [b EXCEPT !.tick = c.tick + 1]
  BY Zenon DEF Putting, Table
<1>2. c.tick \in Nat /\ IsFcn(c.entries) /\ IsFcn(c.index) /\ IsRecord(c)
  BY Zenon DEF IsCache
<1>3. e = [used |-> c.tick, code |-> k[2]] /\ e.used = c.tick
  BY Zenon
<1> HIDE DEF e
<1>4. /\ DOMAIN E = Keys(c) \cup {k} /\ E[k] = e /\ IsFcn(E)
      /\ \A j \in Keys(c) \ {k} : E[j] = c.entries[j]
  BY Zenon DEF Put, IsFcn, Keys
<1>5. /\ DOMAIN I = DOMAIN c.index \cup {k[1]} /\ I[k[1]] = k[2] /\ IsFcn(I)
      /\ \A a \in DOMAIN c.index \ {k[1]} : I[a] = c.index[a]
  BY Zenon DEF Put, IsFcn
<1> HIDE DEF E, I
<1>6. IsRecord(b) /\ b.entries = E /\ b.index = I
  BY <1>2, SetTable
<1> HIDE DEF b
<1>7. IsRecord(d) /\ d.entries = E /\ d.index = I /\ d.tick = c.tick + 1
  BY <1>1, <1>6, SetTick
<1>8. Keys(d) = Keys(c) \cup {k}
  BY <1>4, <1>7, Zenon DEF Keys
<1>9. ASSUME NEW j \in Keys(d)
      PROVE  /\ IsPair(j) /\ j[1] \in Nat
             /\ d.entries[j] = [used |-> d.entries[j].used, code |-> j[2]]
             /\ d.entries[j].used \in Nat
  <2>1. CASE j = k
    BY <1>2, <1>3, <1>4, <1>7, <2>1, Zenon
  <2>2. CASE j # k
    BY <1>4, <1>7, <1>8, <2>2 DEF IsCache
  <2> QED BY <2>1, <2>2, Zenon
<1>10. IsCache(d)
  BY <1>2, <1>4, <1>5, <1>7, <1>9 DEF IsCache
<1>11. Live(d) = {j \in Live(c) : j[1] # k[1]} \cup {k}
  <2>1. \A j \in Keys(c) : IsPair(j)
    BY Zenon DEF IsCache
  <2> QED BY <1>5, <1>7, <1>8, <2>1 DEF Live, is_live_key, IsPair
<1> QED BY <1>3, <1>4, <1>7, <1>8, <1>10, <1>11, Zenon

\* The entries of an address that upsert replaces.
Fewer(c, S) == [c EXCEPT !.entries = Without(@, S)]

LEMMA PreviousWithin ==
  ASSUME NEW c, IsCache(c), NEW S
  PROVE  Within(Fewer(c, S), c) /\ Live(Fewer(c, S)) = Live(c) \ S
<1> DEFINE E == Without(c.entries, S)
           d == Fewer(c, S)
<1>1. DOMAIN E = Keys(c) \ S /\ IsFcn(E) /\ \A k \in Keys(c) \ S : E[k] = c.entries[k]
  BY RestrictIs, Zenon DEF Without, Keys
<1> HIDE DEF E
<1>2. d.entries = E /\ d.index = c.index /\ d.tick = c.tick /\ IsRecord(d)
  <2> DEFINE b == [c EXCEPT !.entries = E]
  <2>1. IsRecord(b) /\ b.entries = E /\ b.index = c.index /\ b.tick = c.tick
    BY SetEntries DEF IsCache
  <2>2. d = b
    BY Zenon DEF E, Fewer
  <2> QED BY <2>1, <2>2, Zenon
<1> HIDE DEF d
<1>3. Within(d, c) /\ Live(d) = {k \in Live(c) : k \in Keys(d) /\ k[1] \in DOMAIN d.index}
  <2>1. DOMAIN d.entries \subseteq DOMAIN c.entries /\ DOMAIN d.index \subseteq DOMAIN c.index
    BY <1>1, <1>2, Zenon DEF Keys
  <2>2. /\ \A k \in DOMAIN d.entries : d.entries[k] = c.entries[k]
        /\ \A a \in DOMAIN d.index : d.index[a] = c.index[a]
    BY <1>1, <1>2, Zenon
  <2>3. IsFcn(d.index) /\ IsFcn(d.entries)
    BY <1>1, <1>2, Zenon DEF IsCache
  <2> QED BY <1>2, <2>1, <2>2, <2>3, FewerEntries
<1>4. Live(d) = Live(c) \ S
  BY <1>1, <1>2, <1>3, Zenon DEF Keys, Live, is_live_key
<1> QED BY <1>3, <1>4, Zenon DEF d

LEMMA NothingCached ==
  ASSUME NEW d, IsRecord(d), d.entries = << >>, d.index = << >>, d.tick = 1
  PROVE  IsCache(d) /\ Keys(d) = {} /\ Live(d) = {}
<1>1. IsFcn(<< >>) /\ DOMAIN << >> = {}
  BY DEF IsFcn
<1> QED BY <1>1 DEF IsCache, Keys, Live

LEMMA ClearedIs ==
  ASSUME NEW c, IsCache(c)
  PROVE  IsCache(clear(c)) /\ Keys(clear(c)) = {} /\ Live(clear(c)) = {} /\ clear(c).tick = 1
<1> DEFINE b == Table(c, << >>, << >>)
           d == [b EXCEPT !.tick = 1]
<1>1. d = clear(c)
  BY Zenon DEF clear, Table
<1>2. IsRecord(b) /\ b.entries = << >> /\ b.index = << >>
  BY SetTable DEF IsCache
<1> HIDE DEF b
<1>3. IsRecord(d) /\ d.entries = << >> /\ d.index = << >> /\ d.tick = 1
  BY <1>2, SetTick
<1> HIDE DEF d
<1> QED BY <1>1, <1>3, NothingCached, Zenon

-----------------------------------------------------------------------------
(* The order of use.                                                       *)

LEMMA StillInOrder ==
  ASSUME NEW c, NEW d, NEW r, InOrder(c, r), Within(d, c) PROVE InOrder(d, r)
BY Zenon DEF InOrder, Within

LEMMA EmptyInOrder ==
  ASSUME NEW c, NEW r, \A p \in r : IsPair(p) /\ <<p[1], p[1]>> \in r, Keys(c) = {}
  PROVE  InOrder(c, r)
BY Zenon DEF InOrder

\* k is the entry used last.
LEMMA RenewedInOrder ==
  ASSUME NEW c, IsCache(c), InOrder(c, recent), NEW k, NEW d,
         Keys(d) \subseteq Keys(c) \cup {k}, d.tick = c.tick + 1, d.entries[k].used = c.tick,
         \A j \in Keys(c) \ {k} : d.entries[j] = c.entries[j]
  PROVE  InOrder(d, Renewed(k))
<1> DEFINE old == {p \in recent : p[1] # k /\ p[2] # k}
           used == {p[1] : p \in recent} \cup {k}
<1>0. Renewed(k) = old \cup (used \X {k})
  BY Zenon DEF Renewed
<1>1. c.tick \in Nat /\ \A j \in Keys(c) : c.entries[j].used \in Nat
  BY Zenon DEF IsCache
<1>2. ASSUME NEW j \in used, j # k
      PROVE  <<j, j>> \in old /\ (j \in Keys(d) => d.entries[j].used < c.tick)
  <2>1. PICK p \in recent : p[1] = j
    BY <1>2, Zenon
  <2>2. <<j, j>> \in recent
    BY <2>1, Zenon DEF InOrder
  <2>3. <<j, j>>[1] = j /\ <<j, j>>[2] = j
    BY Zenon
  <2>4. j \in Keys(c) => c.entries[j].used < c.tick
    BY <2>2, <2>3, Zenon DEF InOrder
  <2> QED BY <1>2, <2>2, <2>3, <2>4, Zenon
<1>3. ASSUME NEW p \in old
      PROVE  /\ IsPair(p) /\ <<p[1], p[1]>> \in Renewed(k)
             /\ p[2] \in Keys(d) => d.entries[p[2]].used < d.tick
             /\ p[1] \in Keys(d) /\ p[2] \in Keys(d) /\ p[1] # p[2] =>
                  d.entries[p[1]].used < d.entries[p[2]].used
  <2>1. p \in recent /\ p[1] # k /\ p[2] # k
    BY Zenon
  <2>2. p[1] \in used
    BY <2>1, Zenon
  <2>3. <<p[1], p[1]>> \in old
    BY <1>2, <2>1, <2>2, Zenon
  <2>4. /\ p[2] \in Keys(d) => p[2] \in Keys(c) /\ d.entries[p[2]] = c.entries[p[2]]
        /\ p[1] \in Keys(d) => p[1] \in Keys(c) /\ d.entries[p[1]] = c.entries[p[1]]
    BY <2>1, Zenon
  <2>5. /\ IsPair(p)
        /\ p[2] \in Keys(c) => c.entries[p[2]].used < c.tick
        /\ p[1] \in Keys(c) /\ p[2] \in Keys(c) /\ p[1] # p[2] =>
             c.entries[p[1]].used < c.entries[p[2]].used
    BY <2>1, Zenon DEF InOrder
  <2> HIDE DEF old, used
  <2> QED BY <1>0, <1>1, <2>3, <2>4, <2>5
<1>4. ASSUME NEW j \in used
      PROVE  LET p == <<j, k>>
             IN  /\ IsPair(p) /\ <<p[1], p[1]>> \in Renewed(k)
                 /\ p[2] \in Keys(d) => d.entries[p[2]].used < d.tick
                 /\ p[1] \in Keys(d) /\ p[2] \in Keys(d) /\ p[1] # p[2] =>
                      d.entries[p[1]].used < d.entries[p[2]].used
  <2>1. <<j, k>>[1] = j /\ <<j, k>>[2] = k /\ IsPair(<<j, k>>) /\ k \in used
    BY Zenon DEF IsPair
  <2> HIDE DEF old, used
  <2>2. <<j, j>> \in Renewed(k)
    BY <1>0, <1>2, <2>1, Zenon
  <2>3. d.entries[k].used < d.tick
    BY <1>1
  <2>4. j \in Keys(d) /\ j # k => d.entries[j].used < d.entries[k].used
    BY <1>2, Zenon
  <2> QED BY <2>1, <2>2, <2>3, <2>4, Zenon
<1> HIDE DEF old, used
<1>5. SUFFICES ASSUME NEW p \in Renewed(k)
               PROVE  /\ IsPair(p) /\ <<p[1], p[1]>> \in Renewed(k)
                      /\ p[2] \in Keys(d) => d.entries[p[2]].used < d.tick
                      /\ p[1] \in Keys(d) /\ p[2] \in Keys(d) /\ p[1] # p[2] =>
                           d.entries[p[1]].used < d.entries[p[2]].used
  BY Zenon DEF InOrder
<1>6. CASE p \in old
  BY <1>3, <1>6, Zenon
<1>7. ASSUME NEW j \in used, p = <<j, k>>
      PROVE  /\ IsPair(p) /\ <<p[1], p[1]>> \in Renewed(k)
             /\ p[2] \in Keys(d) => d.entries[p[2]].used < d.tick
             /\ p[1] \in Keys(d) /\ p[2] \in Keys(d) /\ p[1] # p[2] =>
                  d.entries[p[1]].used < d.entries[p[2]].used
  BY <1>4, <1>7, Zenon
<1>8. p \in old \/ \E j \in used : p = <<j, k>>
  BY <1>0
<1> QED BY <1>6, <1>7, <1>8, Zenon

\* insert and upsert: the translation k is new, or takes the place of the
\* ones at its address, and the limits are looked at.
LEMMA StoreIs ==
  ASSUME NEW c, IsCache(c), InOrder(c, recent), NEW k, IsPair(k), k[1] \in Nat,
         NEW d \in Store(c, k, k[2])
  PROVE  /\ IsCache(d) /\ InOrder(d, Renewed(k))
         /\ Live(d) \subseteq {j \in Live(c) : j[1] # k[1]} \cup {k}
         /\ \A p \in Renewed(k) :
              ~ (p[1] \in Live(d) /\ p[2] \in Live(c) \ Keys(d) /\ p[2][1] # k[1])
<1> DEFINE b == Putting(c, k)
<1>1. d \in maybe_evict(b)
  BY Zenon DEF Store, Putting
<1>2. /\ IsCache(b) /\ Keys(b) = Keys(c) \cup {k} /\ b.tick = c.tick + 1
      /\ Live(b) = {j \in Live(c) : j[1] # k[1]} \cup {k}
      /\ b.entries[k].used = c.tick
      /\ \A j \in Keys(c) \ {k} : b.entries[j] = c.entries[j]
  BY PutsEntry
<1> HIDE DEF b
<1>3. InOrder(b, Renewed(k))
  BY <1>2, RenewedInOrder, Zenon
<1>4. /\ Within(d, b)
      /\ \A i \in Live(b) \ Keys(d), o \in Live(d) : b.entries[i].used <= b.entries[o].used
  BY <1>1, <1>2, EvictWithin, Zenon
<1>5. InOrder(d, Renewed(k))
  BY <1>3, <1>4, StillInOrder, Zenon
<1>6. ASSUME NEW p \in Renewed(k), p[1] \in Live(d), p[2] \in Live(c) \ Keys(d), p[2][1] # k[1]
      PROVE  FALSE
  <2>1. p[2] \in Live(b) \ Keys(d)
    BY <1>2, <1>6, Zenon
  <2>2. b.entries[p[2]].used <= b.entries[p[1]].used
    BY <1>4, <1>6, <2>1, Zenon
  <2>3. p[1] \in Keys(b) /\ p[2] \in Keys(b) /\ p[1] # p[2]
    BY <1>4, <1>6, <2>1, Zenon DEF Within, Live
  <2>4. b.entries[p[1]].used < b.entries[p[2]].used
    BY <1>3, <1>6, <2>3, Zenon DEF InOrder
  <2>5. b.entries[p[1]].used \in Nat /\ b.entries[p[2]].used \in Nat
    BY <1>2, <2>3, Zenon DEF IsCache
  <2> QED BY <2>2, <2>4, <2>5
<1> QED BY <1>2, <1>4, <1>5, <1>6, Zenon DEF Within

-----------------------------------------------------------------------------
(* The file.                                                               *)

LEMMA SavedIs == ASSUME NEW c, IsCache(c) PROVE BodyOf(FileBody(c), View(c))
<1> DEFINE body == FileBody(c)
           snap == View(c)
<1>1. \A k \in Live(c) : /\ k \in Keys(c) /\ IsPair(k) /\ k[1] \in Nat /\ c.index[k[1]] = k[2]
                         /\ c.entries[k].code = k[2]
  <2> TAKE k \in Live(c)
  <2>1. k \in Keys(c) /\ c.index[k[1]] = k[2]
    BY Zenon DEF Live, is_live_key
  <2>2. PICK u : c.entries[k] = [used |-> u, code |-> k[2]]
    BY <2>1, Zenon DEF IsCache
  <2>3. c.entries[k].code = k[2]
    BY <2>2
  <2> QED BY <2>1, <2>3, Zenon DEF IsCache
<1>2. DOMAIN body.stored = Live(c) /\ body.compressed = c.compress
  BY Zenon DEF FileBody
<1>3. IsFcn(snap) /\ DOMAIN snap = {k[1] : k \in DOMAIN body.stored}
  BY <1>2, Zenon DEF View, IsFcn
<1>4. ASSUME NEW k \in Live(c) PROVE CodeIn(body, k) = k[2]
  <2>1. body.stored[k] = IF c.compress THEN [frame |-> k[2]] ELSE k[2]
    BY <1>1, Zenon DEF FileBody, compress
  <2> HIDE DEF body
  <2>2. CASE c.compress
    <3>1. body.stored[k].frame = k[2]
      BY <2>1, <2>2
    <3> QED BY <1>2, <2>2, <3>1, Zenon DEF CodeIn, decompress
  <2>3. CASE ~ c.compress
    BY <1>2, <2>1, <2>3, Zenon DEF CodeIn
  <2> QED BY <2>2, <2>3, Zenon
<1>5. ASSUME NEW k \in Live(c) PROVE snap[k[1]] = <<k[2], k[2]>>
  <2>1. k[1] \in {j[1] : j \in Live(c)}
    BY Zenon
  <2>2. snap[k[1]] = <<c.index[k[1]], c.entries[<<k[1], c.index[k[1]]>>].code>>
    BY <2>1, Zenon DEF View
  <2>3. <<k[1], c.index[k[1]]>> = k
    BY <1>1, Zenon DEF IsPair
  <2> HIDE DEF snap
  <2> QED BY <1>1, <2>2, <2>3, Zenon
<1> HIDE DEF body, snap
<1>6. BodyOf(body, snap)
  BY <1>1, <1>2, <1>3, <1>4, <1>5, Zenon DEF BodyOf
<1> QED BY <1>6, Zenon DEF body, snap

LEMMA LoadedIs ==
  ASSUME NEW c, IsCache(c), NEW body, NEW snap, BodyOf(body, snap), NEW d \in Loaded(c, body)
  PROVE  IsCache(d) /\ View(d) = snap
<1> DEFINE ks == DOMAIN body.stored
           I == [a \in {k[1] : k \in ks} |-> (CHOOSE k \in ks : k[1] = a)[2]]
           E(o) == [k \in ks |-> [used |-> o[k], code |-> CodeIn(body, k)]]
<1>1. PICK o \in Injection(ks, 0 .. body.count - 1) :
        d = [c EXCEPT !.entries = E(o), !.index = I, !.tick = 1]
  BY Zenon DEF Loaded, CodeIn
<1>2. \A k \in ks : o[k] \in Nat
  BY DEF Injection
<1>3. \A k \in ks : /\ IsPair(k) /\ k[1] \in Nat /\ CodeIn(body, k) = k[2]
                    /\ snap[k[1]] = <<k[2], k[2]>>
  BY Zenon DEF BodyOf
<1>4. IsFcn(snap) /\ DOMAIN snap = {k[1] : k \in ks}
  BY Zenon DEF BodyOf
<1> HIDE DEF ks
<1>5. DOMAIN I = {k[1] : k \in ks} /\ IsFcn(I) /\ \A k \in ks : I[k[1]] = k[2]
  <2>1. ASSUME NEW k \in ks PROVE I[k[1]] = k[2]
    <3>1. I[k[1]] = (CHOOSE j \in ks : j[1] = k[1])[2]
      BY Zenon
    <3> DEFINE m == CHOOSE j \in ks : j[1] = k[1]
    <3>2. m \in ks /\ m[1] = k[1]
      BY Zenon
    <3> HIDE DEF m
    <3>3. <<m[2], m[2]>> = <<k[2], k[2]>>
      BY <1>3, <3>2, Zenon
    <3>4. m[2] = k[2]
      BY <3>3, Zenon
    <3> QED BY <3>1, <3>4, Zenon DEF m
  <2> QED BY <2>1 DEF IsFcn
<1> DEFINE F == E(o)
<1>6. DOMAIN F = ks /\ IsFcn(F) /\ \A k \in ks : F[k] = [used |-> o[k], code |-> k[2]]
  BY <1>3, Zenon DEF IsFcn
<1> HIDE DEF I, F
<1>7. IsRecord(d) /\ d.entries = F /\ d.index = I /\ d.tick = 1
  <2> DEFINE b == Table(c, F, I)
  <2>1. d = [b EXCEPT !.tick = 1]
    BY <1>1, Zenon DEF Table, F
  <2>2. IsRecord(b) /\ b.entries = F /\ b.index = I
    BY SetTable DEF IsCache
  <2> HIDE DEF b
  <2> QED BY <2>1, <2>2, SetTick
<1>8. Keys(d) = ks
  BY <1>6, <1>7, Zenon DEF Keys
<1>9. IsCache(d)
  <2>1. ASSUME NEW k \in ks
        PROVE  /\ d.entries[k].used \in Nat
               /\ d.entries[k] = [used |-> d.entries[k].used, code |-> k[2]]
    BY <1>2, <1>6, <1>7
  <2> QED BY <1>3, <1>5, <1>6, <1>7, <1>8, <2>1 DEF IsCache
<1>10. Live(d) = ks
  BY <1>5, <1>7, <1>8, Zenon DEF Live, is_live_key
<1>11. ASSUME NEW a \in DOMAIN snap PROVE snap[a] = <<d.index[a], d.entries[<<a, d.index[a]>>].code>>
  <2>1. PICK k \in ks : a = k[1]
    BY <1>4, Zenon
  <2>2. d.index[a] = k[2] /\ <<a, d.index[a]>> = k
    BY <1>3, <1>5, <1>7, <2>1, Zenon DEF IsPair
  <2>3. d.entries[k].code = k[2]
    BY <1>6, <1>7
  <2>4. snap[a] = <<k[2], k[2]>>
    BY <1>3, <2>1, Zenon
  <2> QED BY <2>2, <2>3, <2>4, Zenon
<1>12. View(d) = [a \in DOMAIN snap |-> <<d.index[a], d.entries[<<a, d.index[a]>>].code>>]
  BY <1>4, <1>10, Zenon DEF View
<1>13. View(d) = snap
  BY <1>4, <1>11, <1>12, Zenon DEF IsFcn
<1> QED BY <1>9, <1>13, Zenon

-----------------------------------------------------------------------------
(* The guard.                                                              *)

LEMMA InItsPage ==
  ASSUME NEW a \in Nat PROVE page_base(a) <= a /\ a < page_base(a) + PageSize
BY PageAssumption DEF page_base

\* A fetch at a mapped address returns at least a byte.
LEMMA FetchLength ==
  ASSUME memory \in [Bytes -> Values], NEW pc \in Bytes
  PROVE  pc \in Nat /\ Len(fetch(pc)) \in Nat \ {0}
<1>1. PICK last \in Nat : Bytes = 0 .. last
  BY PageAssumption, Zenon
<1> DEFINE S == {b \in Bytes : b < pc + FetchLen}
           top == IF last < pc + FetchLen THEN last ELSE pc + FetchLen - 1
<1>2. pc \in Nat /\ pc \in S /\ FetchLen \in Nat \ {0}
  BY <1>1, PageAssumption
<1>3. top \in S /\ \A b \in S : top >= b
  BY <1>1, <1>2
<1>4. Max(S) \in S /\ \A b \in S : Max(S) >= b
  <2> HIDE DEF S, top
  <2> QED BY <1>3, Zenon DEF Max
<1> DEFINE n == Max(S) - pc + 1
<1>5. n \in Nat \ {0}
  <2>1. Max(S) \in Nat /\ Max(S) >= pc
    BY <1>1, <1>2, <1>4
  <2> QED BY <1>2, <2>1
<1>6. \A i \in 1 .. n : memory[pc + i - 1] \in Values
  <2>1. \A i \in 1 .. n : pc + i - 1 \in 0 .. last
    BY <1>1, <1>2, <1>4, <1>5
  <2> QED BY <1>1, <2>1, Zenon
<1>7. fetch(pc) = [i \in 1 .. n |-> memory[pc + i - 1]]
  BY Zenon DEF fetch
<1> HIDE DEF n
<1>8. Len(fetch(pc)) = n
  BY <1>5, <1>6, <1>7
<1> QED BY <1>2, <1>5, <1>8, Zenon

LEMMA StillGuarded ==
  ASSUME NEW c, NEW d, NEW g, NEW w, NEW dm, Guarded(c, g, w, dm), Live(d) \subseteq Live(c)
  PROVE  Guarded(d, g, w, dm)
BY Zenon DEF Guarded

\* After apply_smc_invalidations the guard has nothing set aside, and the
\* cache nothing that was.
LEMMA Applied ==
  ASSUME RuntimeInv
  PROVE  /\ Within(apply_smc_invalidations, cache)
         /\ InOrder(apply_smc_invalidations, recent)
         /\ \A k \in Live(apply_smc_invalidations) : page_base(k[1]) \notin guard.pending_pages
         /\ IsGuard(Drained) /\ Drained.pages = guard.pages /\ Drained.pending_pages = {}
         /\ Drained.enabled = guard.enabled
         /\ Guarded(apply_smc_invalidations, Drained, watched, {})
<1> DEFINE b == apply_smc_invalidations
<1>1. /\ Within(b, cache)
      /\ \A k \in Live(b), p \in guard.pending_pages : ~ (p <= k[1] /\ k[1] < p + PageSize)
  BY PagesWithin, Zenon DEF RuntimeInv, apply_smc_invalidations
<1> HIDE DEF b
<1>2. \A k \in Live(b) : k[1] \in Nat
  BY <1>1, Zenon DEF Within, IsCache, Live
<1>3. \A k \in Live(b) : page_base(k[1]) \notin guard.pending_pages
  BY <1>1, <1>2, InItsPage, Zenon
<1>4. /\ IsGuard(Drained) /\ Drained.pages = guard.pages /\ Drained.pending_pages = {}
      /\ Drained.enabled = guard.enabled
  BY DEF RuntimeInv, IsGuard, Drained
<1>5. InOrder(b, recent)
  BY <1>1, StillInOrder, Zenon DEF RuntimeInv
<1>6. Guarded(b, Drained, watched, {})
  BY <1>1, <1>3, <1>4, Zenon DEF RuntimeInv, Guarded, Within
<1> QED BY <1>1, <1>3, <1>4, <1>5, <1>6, Zenon DEF b

LEMMA FilesUnchanged ==
  ASSUME RuntimeInv, file' = file, saver' = saver PROVE Files'
BY Zenon DEF RuntimeInv, Files, BodyOf, CodeIn

-----------------------------------------------------------------------------
(* The steps.                                                              *)

LEMMA FailedStep ==
  ASSUME RuntimeInv, NEW pc, FetchFailed(pc) \/ TranslateFailed(pc) PROVE RuntimeInv'
<1>1. /\ cache' = apply_smc_invalidations /\ guard' = Drained /\ doomed' = {}
      /\ memory' = memory /\ file' = file /\ saver' = saver /\ recent' = recent /\ watched' = watched
  BY Zenon DEF FetchFailed, TranslateFailed
<1>2. IsCache(cache') /\ InOrder(cache', recent') /\ IsGuard(guard') /\ Guarded(cache', guard', watched', doomed')
  BY <1>1, Applied, Zenon DEF Within
<1> QED BY <1>1, <1>2, FilesUnchanged, Zenon DEF RuntimeInv

LEMMA HitStep ==
  ASSUME RuntimeInv, NEW pc, CacheHit(pc) PROVE RuntimeInv'
<1> DEFINE b == apply_smc_invalidations
           k == <<pc, fetch(pc)>>
<1>1. /\ Hit(b, pc, fetch(pc)) /\ cache' = lookup(b, pc, fetch(pc)) /\ guard' = Drained
      /\ recent' = Renewed(k) /\ doomed' = {}
      /\ memory' = memory /\ file' = file /\ saver' = saver /\ watched' = watched
  BY Zenon DEF CacheHit
<1>2. k \in Keys(b) /\ cache' = Used(b, k)
  BY <1>1, Zenon DEF lookup, Hit
<1>3. IsCache(b) /\ InOrder(b, recent) /\ IsGuard(Drained) /\ Guarded(b, Drained, watched, {})
  BY Applied, Zenon DEF Within
<1> HIDE DEF b, k
<1>4. /\ IsCache(cache') /\ Keys(cache') = Keys(b) /\ Live(cache') = Live(b)
      /\ cache'.tick = b.tick + 1 /\ cache'.entries[k].used = b.tick
      /\ \A j \in Keys(b) \ {k} : cache'.entries[j] = b.entries[j]
  BY <1>2, <1>3, UseIs
<1>5. InOrder(cache', recent')
  BY <1>1, <1>3, <1>4, RenewedInOrder, Zenon
<1>6. Guarded(cache', guard', watched', doomed')
  BY <1>1, <1>3, <1>4, StillGuarded, Zenon
<1> QED BY <1>1, <1>3, <1>4, <1>5, <1>6, FilesUnchanged, Zenon DEF RuntimeInv

\* What an installed translation leaves in the cache.
LEMMA Upserted ==
  ASSUME NEW c, IsCache(c), InOrder(c, recent), NEW k, IsPair(k), k[1] \in Nat,
         NEW d \in upsert(c, k, k[2])
  PROVE  /\ IsCache(d) /\ InOrder(d, Renewed(k))
         /\ Live(d) \subseteq {j \in Live(c) : j[1] # k[1]} \cup {k}
         /\ \A p \in Renewed(k) :
              ~ (p[1] \in Live(d) /\ p[2] \in Live(c) \ Keys(d) /\ p[2][1] # k[1])
<1> DEFINE S == (IF k[1] \in DOMAIN c.index THEN {<<k[1], c.index[k[1]]>>} ELSE {}) \ {k}
           b == Fewer(c, S)
<1>1. d \in Store(b, k, k[2])
  BY Zenon DEF upsert, Fewer
<1>2. \A j \in S : j[1] = k[1]
  OBVIOUS
<1> HIDE DEF S
<1>3. Within(b, c) /\ Live(b) = Live(c) \ S
  BY PreviousWithin, Zenon
<1> HIDE DEF b
<1>4. InOrder(b, recent) /\ IsCache(b)
  BY <1>3, StillInOrder, Zenon DEF Within
<1>5. /\ IsCache(d) /\ InOrder(d, Renewed(k))
      /\ Live(d) \subseteq {j \in Live(b) : j[1] # k[1]} \cup {k}
      /\ \A p \in Renewed(k) :
           ~ (p[1] \in Live(d) /\ p[2] \in Live(b) \ Keys(d) /\ p[2][1] # k[1])
  BY <1>1, <1>4, StoreIs
<1>6. Live(d) \subseteq {j \in Live(c) : j[1] # k[1]} \cup {k}
  BY <1>3, <1>5, Zenon
<1>7. \A j \in Live(c) : j[1] # k[1] => j \in Live(b)
  BY <1>2, <1>3, Zenon
<1> QED BY <1>5, <1>6, <1>7, Zenon

LEMMA InstalledStep ==
  ASSUME RuntimeInv, NEW pc, Installed(pc)
  PROVE  /\ RuntimeInv'
         /\ Live(cache') \subseteq {j \in Live(apply_smc_invalidations) : j[1] # pc} \cup {<<pc, fetch(pc)>>}
         /\ LeastRecent(Evicted(apply_smc_invalidations, pc))
<1> DEFINE b == apply_smc_invalidations
           k == <<pc, fetch(pc)>>
           n == Len(fetch(pc))
<1>1. /\ cache' \in upsert(b, k, fetch(pc)) /\ guard' = on_translate(Drained, pc, n)
      /\ recent' = Renewed(k) /\ watched' = (IF guard.enabled THEN watched \cup {pc} ELSE watched \ {pc})
      /\ doomed' = {} /\ memory' = memory /\ file' = file /\ saver' = saver /\ pc \in Bytes
  BY Zenon DEF Installed
<1>2. k[1] = pc /\ k[2] = fetch(pc) /\ IsPair(k)
  BY Zenon DEF IsPair
<1>3. pc \in Nat /\ n \in Nat \ {0}
  BY <1>1, FetchLength, Zenon DEF RuntimeInv
<1>4. /\ IsCache(b) /\ InOrder(b, recent) /\ IsGuard(Drained) /\ Guarded(b, Drained, watched, {})
      /\ Drained.enabled = guard.enabled
  BY Applied, Zenon DEF Within
<1> HIDE DEF b, k, n
<1>5. /\ IsCache(cache') /\ InOrder(cache', recent')
      /\ Live(cache') \subseteq {j \in Live(b) : j[1] # pc} \cup {k}
      /\ \A p \in recent' :
           ~ (p[1] \in Live(cache') /\ p[2] \in Live(b) \ Keys(cache') /\ p[2][1] # pc)
  BY <1>1, <1>2, <1>3, <1>4, Upserted
<1>6. /\ IsGuard(guard') /\ Drained.pages \subseteq guard'.pages
      /\ guard'.pending_pages = Drained.pending_pages
      /\ guard.enabled => page_base(pc) \in guard'.pages
  <2>1. pc \in pc .. pc + n - 1
    BY <1>3
  <2>2. CASE guard.enabled
    BY <1>1, <1>4, <2>1, <2>2, Zenon DEF on_translate, IsGuard
  <2>3. CASE ~ guard.enabled
    BY <1>1, <1>4, <2>3, Zenon DEF on_translate
  <2> QED BY <2>2, <2>3, Zenon
<1>7. Guarded(cache', guard', watched', doomed')
  <2>1. ASSUME NEW j \in Live(cache'), j[1] \in watched'
        PROVE  page_base(j[1]) \in guard'.pages \cup guard'.pending_pages
    <3>1. CASE j = k
      BY <1>1, <1>2, <1>6, <2>1, <3>1, Zenon
    <3>2. CASE j # k
      <4>1. j \in Live(b) /\ j[1] \in watched
        BY <1>1, <1>5, <2>1, <3>2, Zenon
      <4> QED BY <1>4, <1>6, <4>1, Zenon DEF Guarded
    <3> QED BY <3>1, <3>2, Zenon
  <2> QED BY <1>1, <2>1, Zenon DEF Guarded
<1>8. RuntimeInv'
  BY <1>1, <1>5, <1>6, <1>7, FilesUnchanged, Zenon DEF RuntimeInv
<1> QED BY <1>5, <1>8, Zenon DEF b, k, LeastRecent, Evicted

LEMMA GuestStoreStep ==
  ASSUME RuntimeInv, NEW a \in Stored, NEW v \in Values, GuestStore(a, v) PROVE RuntimeInv'
<1>1. memory' \in [Bytes -> Values]
  BY PageAssumption, Zenon DEF RuntimeInv, GuestStore
<1>2. /\ cache' = cache /\ guard' = guard /\ file' = file /\ saver' = saver
      /\ recent' = recent /\ watched' = watched /\ doomed' = doomed
  BY Zenon DEF GuestStore, history
<1> QED BY <1>1, <1>2, FilesUnchanged, Zenon DEF RuntimeInv

LEMMA FaultStep ==
  ASSUME RuntimeInv, NEW a, Fault(a) PROVE RuntimeInv'
<1>1. /\ guard' = handle_fault(guard, a)
      /\ doomed' = IF guard.enabled
                   THEN doomed \cup {k \in Live(cache) : /\ k[1] \in watched
                                                        /\ page_base(k[1]) = page_base(a)}
                   ELSE doomed
      /\ memory' = memory /\ cache' = cache /\ file' = file /\ saver' = saver
      /\ recent' = recent /\ watched' = watched
  BY Zenon DEF Fault
<1>2. IsGuard(guard') /\ Guarded(cache, guard', watched, doomed')
  <2>1. CASE guard.enabled /\ page_base(a) \in guard.pages
    <3>1. /\ IsGuard(guard') /\ guard'.pages = guard.pages \ {page_base(a)}
          /\ guard'.pending_pages = guard.pending_pages \cup {page_base(a)}
      BY <1>1, <2>1, Zenon DEF handle_fault, invalidate_tracked, IsGuard, RuntimeInv
    <3> QED BY <1>1, <2>1, <3>1, Zenon DEF Guarded, RuntimeInv
  <2>2. CASE guard.enabled /\ page_base(a) \notin guard.pages
    <3>1. guard' = guard
      BY <1>1, <2>2, Zenon DEF handle_fault, invalidate_tracked
    <3> QED BY <1>1, <2>2, <3>1, Zenon DEF Guarded, RuntimeInv
  <2>3. CASE ~ guard.enabled
    <3>1. guard' = guard /\ doomed' = doomed
      BY <1>1, <2>3, Zenon DEF handle_fault
    <3> QED BY <3>1, Zenon DEF RuntimeInv
  <2> QED BY <2>1, <2>2, <2>3, Zenon
<1> QED BY <1>1, <1>2, FilesUnchanged, Zenon DEF RuntimeInv

LEMMA SetEnabledStep ==
  ASSUME RuntimeInv, NEW on \in BOOLEAN, SetEnabled(on) PROVE RuntimeInv'
<1>1. /\ guard' = [guard EXCEPT !.enabled = on]
      /\ memory' = memory /\ cache' = cache /\ file' = file /\ saver' = saver
      /\ recent' = recent /\ watched' = watched /\ doomed' = doomed
  BY Zenon DEF SetEnabled, history
<1>2. IsGuard(guard') /\ guard'.pages = guard.pages /\ guard'.pending_pages = guard.pending_pages
  BY <1>1, Zenon DEF IsGuard, RuntimeInv
<1>3. Guarded(cache, guard', watched, doomed)
  BY <1>2, Zenon DEF Guarded, RuntimeInv
<1> QED BY <1>1, <1>2, <1>3, FilesUnchanged, Zenon DEF RuntimeInv

LEMMA InsertStep ==
  ASSUME RuntimeInv, NEW pc, Insert(pc)
  PROVE  RuntimeInv' /\ LeastRecent(Evicted(cache, pc))
<1> DEFINE k == <<pc, fetch(pc)>>
<1>1. /\ cache' \in insert(cache, k, fetch(pc)) /\ pc \in Bytes
      /\ recent' = IF k \in Keys(cache) THEN recent ELSE Renewed(k)
      /\ watched' = IF k \in Keys(cache) THEN watched ELSE watched \ {pc}
      /\ doomed' = IF k \in Keys(cache) THEN doomed ELSE doomed \ {k}
      /\ memory' = memory /\ guard' = guard /\ file' = file /\ saver' = saver
  BY Zenon DEF Insert
<1>2. k[1] = pc /\ k[2] = fetch(pc) /\ IsPair(k) /\ pc \in Nat
  BY <1>1, FetchLength, Zenon DEF IsPair, RuntimeInv
<1> HIDE DEF k
<1>3. CASE k \in Keys(cache)
  <2>1. cache' = cache /\ recent' = recent /\ watched' = watched /\ doomed' = doomed
    BY <1>1, <1>3, Zenon DEF insert
  <2>2. Evicted(cache, pc) = {}
    BY <2>1, Zenon DEF Evicted, Live, Keys
  <2> QED BY <1>1, <2>1, <2>2, FilesUnchanged, Zenon DEF RuntimeInv, LeastRecent
<1>4. CASE k \notin Keys(cache)
  <2>1. /\ cache' \in Store(cache, k, k[2]) /\ recent' = Renewed(k)
        /\ watched' = watched \ {pc} /\ doomed' = doomed \ {k}
    BY <1>1, <1>2, <1>4, Zenon DEF insert
  <2>2. /\ IsCache(cache') /\ InOrder(cache', recent')
        /\ Live(cache') \subseteq {j \in Live(cache) : j[1] # k[1]} \cup {k}
        /\ \A p \in recent' :
             ~ (p[1] \in Live(cache') /\ p[2] \in Live(cache) \ Keys(cache') /\ p[2][1] # k[1])
    BY <1>2, <2>1, StoreIs DEF RuntimeInv
  <2>3. Guarded(cache', guard, watched', doomed')
    BY <1>2, <2>1, <2>2, Zenon DEF RuntimeInv, Guarded
  <2>4. LeastRecent(Evicted(cache, pc))
    BY <1>2, <2>2, Zenon DEF LeastRecent, Evicted
  <2> QED BY <1>1, <2>2, <2>3, <2>4, FilesUnchanged, Zenon DEF RuntimeInv
<1> QED BY <1>3, <1>4, Zenon

\* A step that only drops translations.
LEMMA DroppingStep ==
  ASSUME RuntimeInv, Within(cache', cache), memory' = memory, guard' = guard, file' = file,
         saver' = saver, recent' = recent, watched' = watched, doomed' = doomed
  PROVE  RuntimeInv'
<1>1. IsCache(cache') /\ InOrder(cache', recent) /\ Guarded(cache', guard, watched, doomed)
  BY StillInOrder, StillGuarded, Zenon DEF Within, RuntimeInv
<1> QED BY <1>1, FilesUnchanged, Zenon DEF RuntimeInv

LEMMA SetLimitsStep ==
  ASSUME RuntimeInv, NEW m, NEW n, SetLimits(m, n)
  PROVE  RuntimeInv' /\ LeastRecent(Evicted(cache, -1))
<1>1. /\ cache' \in set_limits(cache, m, n)
      /\ memory' = memory /\ guard' = guard /\ file' = file /\ saver' = saver
      /\ recent' = recent /\ watched' = watched /\ doomed' = doomed
  BY Zenon DEF SetLimits, history
<1>2. /\ Within(cache', cache)
      /\ \A k \in Live(cache) \ Keys(cache'), o \in Live(cache') :
           cache.entries[k].used <= cache.entries[o].used
  BY <1>1, LimitsWithin, Zenon DEF RuntimeInv
<1>3. ASSUME NEW p \in recent, p[1] \in Live(cache'), p[2] \in Live(cache), p[2] \notin Keys(cache')
      PROVE  FALSE
  <2>1. p[1] \in Keys(cache) /\ p[2] \in Keys(cache) /\ p[1] # p[2]
    BY <1>2, <1>3, Zenon DEF Live, Within
  <2>2. cache.entries[p[1]].used < cache.entries[p[2]].used
    BY <2>1, Zenon DEF InOrder, RuntimeInv
  <2>3. cache.entries[p[1]].used \in Nat /\ cache.entries[p[2]].used \in Nat
    BY <2>1, Zenon DEF IsCache, RuntimeInv
  <2>4. cache.entries[p[2]].used <= cache.entries[p[1]].used
    BY <1>2, <1>3, Zenon
  <2> QED BY <2>2, <2>3, <2>4
<1> QED BY <1>1, <1>2, <1>3, DroppingStep, Zenon DEF LeastRecent, Evicted

LEMMA TouchStep ==
  ASSUME RuntimeInv, NEW k, Touch(k) PROVE RuntimeInv'
<1> DEFINE b == cache
           d == Used(b, k)
<1>1. /\ cache' = d /\ recent' = Renewed(k)
      /\ memory' = memory /\ guard' = guard /\ file' = file /\ saver' = saver
      /\ watched' = watched /\ doomed' = doomed
  BY Zenon DEF Touch, touch
<1>2. k \in Keys(b)
  BY Zenon DEF Touch
<1>3. IsCache(b) /\ InOrder(b, recent) /\ Guarded(b, guard, watched, doomed)
  BY Zenon DEF RuntimeInv
<1> HIDE DEF b
<1>4. /\ IsCache(d) /\ Keys(d) = Keys(b) /\ Live(d) = Live(b)
      /\ d.tick = b.tick + 1 /\ d.entries[k].used = b.tick
      /\ \A j \in Keys(b) \ {k} : d.entries[j] = b.entries[j]
  BY <1>2, <1>3, UseIs
<1> HIDE DEF d
<1>5. InOrder(d, Renewed(k))
  BY <1>3, <1>4, RenewedInOrder, Zenon
<1>6. Guarded(d, guard, watched, doomed)
  BY <1>3, <1>4, StillGuarded, Zenon
<1> QED BY <1>1, <1>4, <1>5, <1>6, FilesUnchanged, Zenon DEF RuntimeInv

LEMMA ForgetStep ==
  ASSUME RuntimeInv, NEW k, Forget(k) PROVE RuntimeInv'
<1>1. Within(cache', cache)
  BY ForgetWithin, Zenon DEF Forget, RuntimeInv
<1> QED BY <1>1, DroppingStep, Zenon DEF Forget, history

LEMMA TidyStep ==
  ASSUME RuntimeInv, Tidy PROVE RuntimeInv'
<1>1. /\ cache' \in {compact(cache), clear(cache), [cache EXCEPT !.compress = ~@]}
      /\ recent' = IF cache'.tick < cache.tick THEN {} ELSE recent
      /\ memory' = memory /\ guard' = guard /\ file' = file /\ saver' = saver
      /\ watched' = watched /\ doomed' = doomed
  BY Zenon DEF Tidy
<1>2. IsCache(cache) /\ cache.tick \in Nat
  BY Zenon DEF RuntimeInv, IsCache
<1>3. CASE Within(cache', cache)
  <2>1. recent' = recent
    BY <1>1, <1>2, <1>3 DEF Within
  <2> QED BY <1>1, <1>3, <2>1, DroppingStep, Zenon
<1>4. CASE cache' = clear(cache)
  <2>1. IsCache(cache') /\ Keys(cache') = {} /\ Live(cache') = {}
    BY <1>2, <1>4, ClearedIs, Zenon
  <2>2. recent' \subseteq recent /\ \A p \in recent' : IsPair(p) /\ <<p[1], p[1]>> \in recent'
    BY <1>1, Zenon DEF RuntimeInv, InOrder
  <2>3. InOrder(cache', recent')
    BY <2>1, <2>2, EmptyInOrder, Zenon
  <2>4. Guarded(cache', guard, watched, doomed)
    BY <2>1, Zenon DEF Guarded
  <2> QED BY <1>1, <2>1, <2>3, <2>4, FilesUnchanged, Zenon DEF RuntimeInv
<1>5. CASE cache' = compact(cache)
  BY <1>2, <1>3, <1>5, CompactKeepsLive, Zenon
<1>6. CASE cache' = [cache EXCEPT !.compress = ~@]
  <2> DEFINE v == ~cache.compress
  <2>1. cache' = [cache EXCEPT !.compress = v]
    BY <1>6, Zenon
  <2> HIDE DEF v
  <2>2. /\ IsRecord(cache') /\ cache'.entries = cache.entries
        /\ cache'.index = cache.index /\ cache'.tick = cache.tick
    BY <1>2, <2>1, SetOther DEF IsCache
  <2> QED BY <1>2, <1>3, <2>2, TunedWithin, Zenon
<1> QED BY <1>1, <1>4, <1>5, <1>6, Zenon

\* The steps of the two writers of the file touch nothing else.
LEMMA WritersStep ==
  ASSUME RuntimeInv, Save \/ save_to_file_async \/ SaverCreates \/ SaverWrites \/ wait_for_async_save
  PROVE  RuntimeInv'
<1>1. /\ memory' = memory /\ cache' = cache /\ guard' = guard
      /\ recent' = recent /\ watched' = watched /\ doomed' = doomed
  BY Zenon DEF Save, save_to_file_async, SaverCreates, SaverWrites, wait_for_async_save, history
<1>2. BodyOf(FileBody(cache), View(cache))
  BY SavedIs, Zenon DEF RuntimeInv
<1>3. Files
  BY Zenon DEF RuntimeInv
<1>4. Partial.kind = "partial"
  BY Zenon DEF Partial, NoFile
<1>5. \A b, s : Whole(b, s).body = b /\ Whole(b, s).snap = s
  BY Zenon DEF Whole
<1>6. /\ NoSaver = [phase |-> NoSaver.phase, body |-> NoSaver.body, snap |-> NoSaver.snap]
      /\ NoSaver.phase = "none"
      /\ [NoSaver EXCEPT !.phase = "ended"]
           = [phase |-> "ended", body |-> NoSaver.body, snap |-> NoSaver.snap]
  BY DEF NoSaver
<1> HIDE DEF Partial, Whole, NoSaver
<1>7. CASE Save
  <2>1. saver' = saver /\ file' \in {Whole(FileBody(cache), View(cache)), file, Partial}
    BY <1>7, Zenon DEF Save
  <2>2. file'.kind = "whole" => BodyOf(file'.body, file'.snap)
    BY <1>2, <1>3, <1>4, <1>5, <2>1 DEF Files
  <2> QED BY <1>1, <1>3, <2>1, <2>2, Zenon DEF RuntimeInv, Files
<1>8. CASE save_to_file_async
  <2>1. file' = file /\ saver' = [phase |-> "spawned", body |-> FileBody(cache), snap |-> View(cache)]
    BY <1>8, Zenon DEF save_to_file_async
  <2>2. /\ saver' = [phase |-> saver'.phase, body |-> saver'.body, snap |-> saver'.snap]
        /\ saver'.body = FileBody(cache) /\ saver'.snap = View(cache)
    BY <2>1, Zenon
  <2>3. BodyOf(saver'.body, saver'.snap)
    BY <1>2, <2>2, Zenon
  <2> QED BY <1>1, <1>3, <2>1, <2>2, <2>3, Zenon DEF RuntimeInv, Files
<1>9. CASE SaverCreates
  <2>1. saver.phase = "spawned" /\ BodyOf(saver.body, saver.snap)
    BY <1>3, <1>9, Zenon DEF SaverCreates, Files
  <2>2. CASE file' = Partial /\ saver' = [saver EXCEPT !.phase = "created"]
    <3>1. /\ saver' = [phase |-> saver'.phase, body |-> saver'.body, snap |-> saver'.snap]
          /\ saver'.body = saver.body /\ saver'.snap = saver.snap
      BY <1>3, <2>2, Zenon DEF Files
    <3> QED BY <1>1, <1>4, <2>1, <2>2, <3>1, Zenon DEF RuntimeInv, Files
  <2>3. CASE file' = file /\ saver' = [NoSaver EXCEPT !.phase = "ended"]
    <3>1. /\ saver' = [phase |-> saver'.phase, body |-> saver'.body, snap |-> saver'.snap]
          /\ saver'.phase = "ended"
      BY <1>6, <2>3, Zenon
    <3> QED BY <1>1, <1>3, <2>3, <3>1, Zenon DEF RuntimeInv, Files
  <2> QED BY <1>9, <2>2, <2>3, Zenon DEF SaverCreates
<1>10. CASE SaverWrites
  <2>1. /\ file' \in {Whole(saver.body, saver.snap), Partial}
        /\ saver' = [NoSaver EXCEPT !.phase = "ended"]
        /\ BodyOf(saver.body, saver.snap)
    BY <1>3, <1>10, Zenon DEF SaverWrites, Files
  <2>2. file'.kind = "whole" => BodyOf(file'.body, file'.snap)
    BY <1>4, <1>5, <2>1
  <2>3. /\ saver' = [phase |-> saver'.phase, body |-> saver'.body, snap |-> saver'.snap]
        /\ saver'.phase = "ended"
    BY <1>6, <2>1, Zenon
  <2> QED BY <1>1, <2>2, <2>3, Zenon DEF RuntimeInv, Files
<1>11. CASE wait_for_async_save
  <2>1. file' = file /\ saver' = NoSaver
    BY <1>11, Zenon DEF wait_for_async_save
  <2> QED BY <1>1, <1>3, <1>6, <2>1, Zenon DEF RuntimeInv, Files
<1> QED BY <1>7, <1>8, <1>9, <1>10, <1>11, Zenon

LEMMA LoadStep ==
  ASSUME RuntimeInv, Load PROVE RuntimeInv' /\ View(cache') = file.snap
<1>1. /\ file.kind = "whole" /\ cache' \in Loaded(cache, file.body)
      /\ recent' = {} /\ watched' = {} /\ doomed' = {}
      /\ memory' = memory /\ guard' = guard /\ file' = file /\ saver' = saver
  BY Zenon DEF Load
<1>2. IsCache(cache) /\ BodyOf(file.body, file.snap)
  BY <1>1, Zenon DEF RuntimeInv, Files
<1>3. IsCache(cache') /\ View(cache') = file.snap
  BY <1>1, <1>2, LoadedIs
<1>4. InOrder(cache', recent') /\ Guarded(cache', guard', watched', doomed')
  BY <1>1, Zenon DEF InOrder, Guarded
<1> QED BY <1>1, <1>3, <1>4, FilesUnchanged, Zenon DEF RuntimeInv

LEMMA NewIs == /\ IsCache(NewCache) /\ IsGuard(NewGuard)
               /\ InOrder(NewCache, {}) /\ Guarded(NewCache, NewGuard, {}, {})
               /\ NoSaver = [phase |-> NoSaver.phase, body |-> NoSaver.body, snap |-> NoSaver.snap]
               /\ NoSaver.phase = "none" /\ NoFile.kind = "absent"
<1>1. /\ IsRecord(NewCache) /\ NewCache.entries = << >> /\ NewCache.index = << >>
      /\ NewCache.tick = 1
  BY Zenon DEF NewCache, IsRecord
<1>2. IsCache(NewCache)
  BY <1>1, NothingCached, Zenon
<1>3. IsGuard(NewGuard)
  BY Zenon DEF NewGuard, IsGuard
<1>4. InOrder(NewCache, {}) /\ Guarded(NewCache, NewGuard, {}, {})
  BY Zenon DEF InOrder, Guarded
<1> QED BY <1>2, <1>3, <1>4, Zenon DEF NoSaver, NoFile

LEMMA RestartStep ==
  ASSUME RuntimeInv, Restart PROVE RuntimeInv'
<1>1. /\ cache' = NewCache /\ guard' = NewGuard /\ saver' = NoSaver
      /\ recent' = {} /\ watched' = {} /\ doomed' = {} /\ memory' = memory /\ file' = file
  BY Zenon DEF Restart
<1>2. IsCache(cache') /\ IsGuard(guard') /\ InOrder(cache', recent')
  BY <1>1, NewIs, Zenon
<1>3. Guarded(cache', guard', watched', doomed')
  BY <1>1, NewIs, Zenon
<1>4. Files'
  BY <1>1, NewIs, Zenon DEF RuntimeInv, Files
<1> QED BY <1>1, <1>2, <1>3, <1>4, Zenon DEF RuntimeInv

LEMMA RuntimeInit == Init => RuntimeInv
<1> SUFFICES ASSUME Init PROVE RuntimeInv
  BY Zenon
<1>1. /\ memory = Image /\ cache = NewCache /\ guard = NewGuard /\ file = NoFile
      /\ saver = NoSaver /\ recent = {} /\ watched = {} /\ doomed = {}
  BY Zenon DEF Init
<1>2. Files
  BY <1>1, NewIs, Zenon DEF Files
<1> QED BY <1>1, <1>2, NewIs, PageAssumption, Zenon DEF RuntimeInv

LEMMA RuntimeStep == RuntimeInv /\ [Next]_vars => RuntimeInv'
<1> SUFFICES ASSUME RuntimeInv, [Next]_vars PROVE RuntimeInv'
  BY Zenon
<1>1. ASSUME NEW pc \in PCs, Step(pc) PROVE RuntimeInv'
  BY <1>1, FailedStep, HitStep, InstalledStep, Zenon DEF Step
<1>2. ASSUME NEW pc \in PCs, Insert(pc) PROVE RuntimeInv'
  BY <1>2, InsertStep, Zenon
<1>3. ASSUME NEW k \in Keys(cache), Touch(k) \/ Forget(k) PROVE RuntimeInv'
  BY <1>3, TouchStep, ForgetStep, Zenon
<1>4. ASSUME NEW a \in Stored, NEW v \in Values, GuestStore(a, v) PROVE RuntimeInv'
  BY <1>4, GuestStoreStep, Zenon
<1>5. ASSUME NEW a \in Bytes, Fault(a) PROVE RuntimeInv'
  BY <1>5, FaultStep, Zenon
<1>6. ASSUME NEW on \in BOOLEAN, SetEnabled(on) PROVE RuntimeInv'
  BY <1>6, SetEnabledStep, Zenon
<1>7. ASSUME NEW l \in Limits, SetLimits(l[1], l[2]) PROVE RuntimeInv'
  BY <1>7, SetLimitsStep, Zenon
<1>8. CASE UNCHANGED vars
  BY <1>8, FilesUnchanged, Zenon DEF vars, RuntimeInv
<1>9. CASE Tidy
  BY <1>9, TidyStep, Zenon
<1>10. CASE Save \/ save_to_file_async \/ SaverCreates \/ SaverWrites \/ wait_for_async_save
  BY <1>10, WritersStep, Zenon
<1>11. CASE Load \/ Restart
  BY <1>11, LoadStep, RestartStep, Zenon
<1> QED BY <1>1, <1>2, <1>3, <1>4, <1>5, <1>6, <1>7, <1>8, <1>9, <1>10, <1>11, Zenon DEF Next

-----------------------------------------------------------------------------
(* The theorems.                                                           *)

\* The invariant behind the properties: every entry holds the code of the
\* content it is keyed by, the ticks follow the order of use, the guard knows
\* the pages of the watched translations, and a whole file is a snapshot.
THEOREM RuntimeCorrect == Spec => []RuntimeInv
BY RuntimeInit, RuntimeStep, PTL DEF Spec

\* Code run from the cache was translated from the bytes now in memory
\* (TranslationCache::lookup).
THEOREM HitsAreCurrent == Spec => HitIsCurrent
<1>1. ASSUME RuntimeInv, NEW pc \in PCs, CacheHit(pc)
      PROVE  HitCode(apply_smc_invalidations, pc) = fetch(pc)
  <2> DEFINE b == apply_smc_invalidations
             k == <<pc, fetch(pc)>>
  <2>1. k \in Keys(b) /\ b.index[pc] = fetch(pc)
    BY <1>1, Zenon DEF CacheHit, Hit, is_live_key
  <2>2. IsCache(b)
    BY <1>1, Applied, Zenon DEF Within
  <2>3. k[2] = fetch(pc)
    BY Zenon
  <2> HIDE DEF b
  <2>4. PICK u : b.entries[k] = [used |-> u, code |-> k[2]]
    BY <2>1, <2>2, Zenon DEF IsCache
  <2>5. b.entries[k].code = fetch(pc)
    BY <2>3, <2>4
  <2>6. HitCode(b, pc) = b.entries[k].code
    BY <2>1, Zenon DEF HitCode
  <2> QED BY <2>5, <2>6, Zenon DEF b
<1>2. RuntimeInv => [\A pc \in PCs : CacheHit(pc) => HitCode(apply_smc_invalidations, pc) = fetch(pc)]_vars
  BY <1>1, Zenon
<1> QED BY <1>2, RuntimeCorrect, PTL DEF HitIsCurrent

\* A reported write drops the translations of its page at the next step
\* (SmcGuard::handle_fault, apply_smc_invalidations).
THEOREM ReportedWritesDrop == Spec => ReportedWritesTakeEffect
<1>1. ASSUME RuntimeInv, NEW k \in doomed \cap Live(cache'), NEW pc \in PCs, Step(pc)
      PROVE  Installed(pc) /\ k[1] = pc
  <2> DEFINE b == apply_smc_invalidations
  <2>1. k \notin Live(b)
    <3>1. Live(b) \subseteq Live(cache) /\ \A j \in Live(b) : page_base(j[1]) \notin guard.pending_pages
      BY <1>1, Applied, Zenon DEF Within
    <3>2. \A j \in Live(cache) \cap doomed : page_base(j[1]) \in guard.pending_pages
      BY <1>1, Zenon DEF RuntimeInv, Guarded
    <3> QED BY <1>1, <3>1, <3>2, Zenon
  <2>2. CASE FetchFailed(pc) \/ TranslateFailed(pc)
    BY <1>1, <2>1, <2>2, Zenon DEF FetchFailed, TranslateFailed
  <2>3. CASE CacheHit(pc)
    <3>1. <<pc, fetch(pc)>> \in Keys(b) /\ cache' = Used(b, <<pc, fetch(pc)>>)
      BY <2>3, Zenon DEF CacheHit, lookup, Hit
    <3>2. IsCache(b)
      BY <1>1, Applied, Zenon DEF Within
    <3>3. Live(cache') = Live(b)
      BY <3>1, <3>2, UseIs, Zenon
    <3> QED BY <1>1, <2>1, <3>3, Zenon
  <2>4. CASE Installed(pc)
    <3>1. Live(cache') \subseteq {j \in Live(b) : j[1] # pc} \cup {<<pc, fetch(pc)>>}
      BY <1>1, <2>4, InstalledStep, Zenon
    <3>2. k = <<pc, fetch(pc)>>
      BY <1>1, <2>1, <3>1, Zenon
    <3> QED BY <2>4, <3>2, Zenon
  <2> QED BY <1>1, <2>2, <2>3, <2>4, Zenon DEF Step
<1>2. RuntimeInv => [\A k \in doomed \cap Live(cache'), pc \in PCs :
                       Step(pc) => Installed(pc) /\ k[1] = pc]_vars
  BY <1>1, Zenon
<1> QED BY <1>2, RuntimeCorrect, PTL DEF ReportedWritesTakeEffect

\* Eviction goes by the order of use (maybe_evict).
THEOREM EvictionFollowsUse == Spec => EvictsLeastRecent
<1> DEFINE Fair ==
             Live(cache) \subseteq Keys(cache') \/
               /\ \A pc \in PCs : Installed(pc) => LeastRecent(Evicted(apply_smc_invalidations, pc))
               /\ \A pc \in PCs : Insert(pc) => LeastRecent(Evicted(cache, pc))
               /\ \A l \in Limits : SetLimits(l[1], l[2]) => LeastRecent(Evicted(cache, -1))
<1>1. RuntimeInv => [Fair]_vars
  BY InstalledStep, InsertStep, SetLimitsStep, Zenon
<1> QED BY <1>1, RuntimeCorrect, PTL DEF EvictsLeastRecent

\* A load restores what was live when the save was asked for
\* (load_from_file, save_to_file, save_to_file_async).
THEOREM LoadRestoresSaved == Spec => LoadRestores
<1>1. RuntimeInv => [Load => View(cache') = file.snap]_vars
  BY LoadStep, Zenon
<1> QED BY <1>1, RuntimeCorrect, PTL DEF LoadRestores
=============================================================================
