----------------------- MODULE TranslationCacheProofs -----------------------
(***************************************************************************)
(* That eviction takes the least recently used entries, that invalidating  *)
(* a page leaves none of its entries, and that a file which loads is the   *)
(* cache that was saved, for all keys, pages and caps.                     *)
(***************************************************************************)
EXTENDS TranslationCache, FiniteSetTheorems, WellFoundedInduction, TLAPS

-----------------------------------------------------------------------------
(* The order of use.                                                       *)

\* A key is its address and its hash, and the index tells it from None.
LEMMA KeyParts ==
  ASSUME NEW k \in Key
  PROVE  k = <<k[1], k[2]>> /\ k[1] \in Addr /\ k[2] \in Hash /\ k[2] # None
BY CacheAssumption

LEMMA FiniteEntries ==
  ASSUME NEW E \in SUBSET Key
  PROVE  IsFiniteSet(E)
BY CacheAssumption, FS_Subset

\* Each new tick is later than the ones given before it.
LEMMA TouchOrder ==
  ASSUME NEW E, NEW o, NEW k, IsOrder(o, E)
  PROVE  /\ IsOrder(Touch(o, E, k), E \cup {k})
         /\ \A j \in E \ {k} : <<j, k>> \in Touch(o, E, k)
         /\ \A j \in E \cup {k} : <<k, j>> \notin Touch(o, E, k)
         /\ \A i, j \in E \ {k} : <<i, j>> \in Touch(o, E, k) <=> <<i, j>> \in o
<1> DEFINE new == Touch(o, E, k)
<1>1. \A i, j : <<i, j>> \in new <=> (<<i, j>> \in o /\ i # k /\ j # k) \/ (i \in E \ {k} /\ j = k)
  <2> TAKE i, j
  <2>1. <<i, j>>[1] = i /\ <<i, j>>[2] = j
    OBVIOUS
  <2> QED BY <2>1, Zenon DEF Touch
<1>2. new \subseteq (E \cup {k}) \X (E \cup {k})
  BY DEF Touch, IsOrder
<1> HIDE DEF new
<1> QED BY <1>1, <1>2 DEF IsOrder, new

LEMMA WithoutOrder ==
  ASSUME NEW E, NEW o, NEW gone, IsOrder(o, E)
  PROVE  /\ IsOrder(Without(o, gone), E \ gone)
         /\ \A i, j \in E \ gone : <<i, j>> \in Without(o, gone) <=> <<i, j>> \in o
<1>1. \A i, j : <<i, j>> \in Without(o, gone) <=> <<i, j>> \in o /\ i \notin gone /\ j \notin gone
  BY DEF Without, IsOrder
<1>2. Without(o, gone) \subseteq (E \ gone) \X (E \ gone)
  BY DEF Without, IsOrder
<1> QED BY <1>1, <1>2 DEF IsOrder

LEMMA LeastOf ==
  ASSUME NEW S \in SUBSET Nat, S # {}
  PROVE  \E n \in S : \A m \in S : n <= m
<1>1. PICK n \in S : \A m \in S : <<m, n>> \notin OpToRel(<, Nat)
  BY WFMin, NatLessThanWellFounded
<1>2. ASSUME NEW m \in S PROVE n <= m
  <2>1. n \in Nat /\ m \in Nat
    OBVIOUS
  <2>2. m < n => <<m, n>> \in OpToRel(<, Nat)
    BY <2>1, Zenon DEF OpToRel
  <2>3. ~ (m < n)
    BY <1>1, <2>2, Zenon
  <2> QED BY <2>1, <2>3
<1> QED BY <1>2

\* pick_lru_key: a set of entries has one that was used before the others.
LEMMA FirstUsed ==
  ASSUME NEW E, IsFiniteSet(E), NEW o, IsOrder(o, E), NEW A \in SUBSET E, A # {}
  PROVE  \E k \in A : \A j \in A : j = k \/ <<k, j>> \in o
<1> DEFINE before(k) == {j \in E : <<j, k>> \in o}
           ranks == {Cardinality(before(k)) : k \in A}
<1>1. \A k \in E : IsFiniteSet(before(k)) /\ Cardinality(before(k)) \in Nat
  BY FS_Subset, FS_CardinalityType, Zenon
<1>2. PICK n \in ranks : \A m \in ranks : n <= m
  <2>1. ranks \in SUBSET Nat /\ ranks # {}
    BY <1>1, Zenon
  <2> HIDE DEF ranks
  <2> QED BY <2>1, LeastOf
<1>3. PICK k \in A : n = Cardinality(before(k))
  BY <1>2
<1>4. ASSUME NEW j \in A, j # k, <<k, j>> \notin o PROVE FALSE
  <2>1. <<j, k>> \in o
    BY <1>4 DEF IsOrder
  <2>2. before(j) \subseteq before(k) /\ j \in before(k) /\ j \notin before(j)
    BY <2>1 DEF IsOrder
  <2>3. Cardinality(before(j)) <= Cardinality(before(k)) /\ Cardinality(before(j)) # Cardinality(before(k))
    BY <1>1, <2>2, FS_Subset, Zenon
  <2>4. n <= Cardinality(before(j))
    BY <1>2, Zenon
  <2> HIDE DEF before
  <2> QED BY <1>1, <1>3, <2>3, <2>4
<1> QED BY <1>4

-----------------------------------------------------------------------------
(* Eviction.                                                               *)

LEMMA NoBytes == total_code_bytes({}) = 0
BY Zenon DEF total_code_bytes, MapThenSumSet, MapThenFoldSet

LEMMA EmptyFits ==
  ASSUME max_entries \in Nat, max_bytes \in Nat
  PROVE  ~ over_cap({})
BY NoBytes, FS_EmptySet DEF over_cap

\* maybe_evict stops when neither cap is exceeded, and an entry goes only
\* after all that were used before it.
LEMMA EvictionExact ==
  ASSUME max_entries \in Nat, max_bytes \in Nat,
         NEW E \in SUBSET Key, NEW o, IsOrder(o, E)
  PROVE  /\ ~ over_cap(E \ Evicted(E, o))
         /\ \A i \in E, j \in Evicted(E, o) : <<i, j>> \in o => i \in Evicted(E, o)
<1> DEFINE gone == Evicted(E, o)
           left(k) == {j \in E : <<j, k>> \notin o}
<1>1. \A k \in E : k \in gone <=> \A j \in E : j = k \/ <<j, k>> \in o => over_cap(left(j))
  BY DEF Evicted
<1>2. gone \subseteq E
  BY DEF Evicted
<1> HIDE DEF gone
<1>3. \A i \in E, j \in gone : <<i, j>> \in o => i \in gone
  <2> HIDE DEF left
  <2> QED BY <1>1, <1>2, Zenon DEF IsOrder
<1>4. ASSUME E \ gone = {} PROVE ~ over_cap(E \ gone)
  BY <1>4, EmptyFits, Zenon
<1>5. ASSUME E \ gone # {} PROVE ~ over_cap(E \ gone)
  <2>1. PICK m \in E \ gone : \A j \in E \ gone : j = m \/ <<m, j>> \in o
    <3> DEFINE kept == E \ gone
    <3>1. IsFiniteSet(E) /\ kept \in SUBSET E /\ kept # {}
      BY <1>5, FiniteEntries
    <3> HIDE DEF kept
    <3>2. \E k \in kept : \A j \in kept : j = k \/ <<k, j>> \in o
      BY <3>1, FirstUsed
    <3> QED BY <3>2 DEF kept
  <2>2. left(m) = E \ gone
    <3>1. ASSUME NEW j \in E, <<j, m>> \in o PROVE j \in gone
      BY <2>1, <3>1, Zenon DEF IsOrder
    <3>2. ASSUME NEW j \in gone PROVE <<j, m>> \in o
      BY <1>2, <1>3, <2>1, Zenon DEF IsOrder
    <3> QED BY <1>2, <3>1, <3>2
  <2>3. PICK j \in E : (j = m \/ <<j, m>> \in o) /\ ~ over_cap(left(j))
    <3> HIDE DEF left
    <3> QED BY <1>1, <2>1
  <2>4. j = m
    <3>1. ASSUME <<j, m>> \in o PROVE FALSE
      <4>1. j \in gone
        BY <2>1, <3>1 DEF IsOrder
      <4> HIDE DEF left
      <4> QED BY <1>1, <2>3, <4>1, Zenon
    <3> QED BY <2>3, <3>1
  <2> HIDE DEF left
  <2> QED BY <2>2, <2>3, <2>4
<1> QED BY <1>3, <1>4, <1>5 DEF gone

-----------------------------------------------------------------------------
(* The inductive invariant.                                                *)

\* Every entry is the latest of its address.
Exact(E, index) == \A k \in E : index[k[1]] = k[2]

\* What is written and what is left to write are the entries of the snapshot.
Writing ==
  writer # None =>
    /\ Exact(writer.snap.entries, writer.snap.addr_to_hash)
    /\ ~ writer.opened => Range(writer.left) = writer.snap.entries
    /\ writer.opened => /\ file \in File /\ saved = writer.snap
                        /\ Range(file.recs) \cup Range(writer.left) = saved.entries
                        /\ file.count = Len(file.recs) + Len(writer.left)

\* A file that loads is what was saved.
Written ==
  Loadable => /\ file \in File /\ Range(file.recs) = saved.entries
              /\ Exact(saved.entries, saved.addr_to_hash)

CacheInv ==
  /\ TypeOK
  /\ IsOrder(older, entries)
  /\ IF inserting THEN writer = None /\ file = None ELSE Exact(entries, addr_to_hash)
  /\ Writing
  /\ Written

LEMMA CacheInit == Init => CacheInv
BY CacheAssumption DEF Init, CacheInv, TypeOK, IsOrder, Exact, Writing, Written, Loadable

\* maybe_evict keeps the order, and the index names what it keeps.
LEMMA EvictKeeps ==
  ASSUME NEW E \in SUBSET Key, NEW index \in [Addr -> Hash \cup {None}], NEW o, IsOrder(o, E),
         maybe_evict(E, index, o)
  PROVE  /\ entries' \in SUBSET Key /\ addr_to_hash' \in [Addr -> Hash \cup {None}]
         /\ IsOrder(older', entries')
         /\ Exact(E, index) => Exact(entries', addr_to_hash')
<1> DEFINE gone == Evicted(E, o)
<1>1. entries' = E \ gone /\ older' = Without(o, gone) /\ addr_to_hash' = Forget(index, gone)
  BY DEF maybe_evict
<1> HIDE DEF gone
<1>2. IsOrder(older', entries')
  BY <1>1, WithoutOrder
<1>3. addr_to_hash' \in [Addr -> Hash \cup {None}]
  BY <1>1 DEF Forget
<1>4. ASSUME Exact(E, index), NEW k \in E \ gone PROVE addr_to_hash'[k[1]] = k[2]
  <2>1. index[k[1]] = k[2] /\ k = <<k[1], k[2]>> /\ k[1] \in Addr
    BY <1>4, KeyParts DEF Exact
  <2>2. <<k[1], index[k[1]]>> \notin gone
    BY <2>1, Zenon
  <2> QED BY <1>1, <2>1, <2>2 DEF Forget
<1> QED BY <1>1, <1>2, <1>3, <1>4 DEF Exact

\* The calls on the table leave the saves alone.
LEMMA SavesUnchanged ==
  ASSUME CacheInv, UNCHANGED <<max_entries, max_bytes, inserting>>, UNCHANGED disk,
         entries' \in SUBSET Key, addr_to_hash' \in [Addr -> Hash \cup {None}],
         IsOrder(older', entries'), ~ inserting => Exact(entries', addr_to_hash')
  PROVE  CacheInv'
<1>1. TypeOK'
  BY DEF CacheInv, TypeOK, disk, IsOrder
<1>2. Writing' /\ Written'
  BY Zenon DEF CacheInv, disk, Writing, Written, Loadable
<1>3. IF inserting' THEN writer' = None /\ file' = None ELSE Exact(entries', addr_to_hash')
  BY DEF CacheInv, disk
<1> QED BY <1>1, <1>2, <1>3 DEF CacheInv

LEMMA LookupStep ==
  ASSUME CacheInv, NEW k \in Key, lookup(k[1], k[2]) PROVE CacheInv'
<1>1. k = <<k[1], k[2]>>
  BY KeyParts
<1>2. IsOrder(older', entries')
  <2>1. CASE older' = older
    BY <2>1 DEF CacheInv, lookup
  <2>2. CASE older' = Touch(older, entries, k) /\ k \in entries
    <3>1. entries \cup {k} = entries
      BY <2>2
    <3>2. IsOrder(Touch(older, entries, k), entries \cup {k})
      BY TouchOrder DEF CacheInv
    <3> QED BY <2>2, <3>1, <3>2 DEF lookup
  <2> QED BY <1>1, <2>1, <2>2 DEF lookup
<1> QED BY <1>2, SavesUnchanged DEF CacheInv, TypeOK, lookup, caps

LEMMA InsertStep ==
  ASSUME CacheInv, NEW k \in Key, insert(k) PROVE CacheInv'
<1> DEFINE E == entries \cup {k}
           index == [addr_to_hash EXCEPT ![k[1]] = k[2]]
<1>1. IsOrder(Touch(older, entries, k), E)
  BY TouchOrder DEF CacheInv
<1>2. E \in SUBSET Key /\ index \in [Addr -> Hash \cup {None}]
  BY KeyParts DEF CacheInv, TypeOK
<1>3. maybe_evict(E, index, Touch(older, entries, k))
  BY DEF insert
<1> HIDE DEF E, index
<1> QED BY <1>1, <1>2, <1>3, EvictKeeps, SavesUnchanged DEF insert, caps

\* What upsert hands to maybe_evict.
LEMMA UpsertTable ==
  ASSUME CacheInv, NEW k \in Key, NEW old, old = {<<k[1], addr_to_hash[k[1]]>>} \ {k}
  PROVE  /\ (entries \ old) \cup {k} \in SUBSET Key
         /\ [addr_to_hash EXCEPT ![k[1]] = k[2]] \in [Addr -> Hash \cup {None}]
         /\ IsOrder(Touch(Without(older, old), entries \ old, k), (entries \ old) \cup {k})
         /\ ~ inserting => Exact((entries \ old) \cup {k}, [addr_to_hash EXCEPT ![k[1]] = k[2]])
<1>1. (entries \ old) \cup {k} \in SUBSET Key
  BY DEF CacheInv, TypeOK
<1>2. addr_to_hash \in [Addr -> Hash \cup {None}] /\ k[1] \in Addr /\ k[2] \in Hash
  BY KeyParts DEF CacheInv, TypeOK
<1>3. IsOrder(Touch(Without(older, old), entries \ old, k), (entries \ old) \cup {k})
  <2>1. IsOrder(Without(older, old), entries \ old)
    BY WithoutOrder DEF CacheInv
  <2> QED BY <2>1, TouchOrder
<1>4. ASSUME ~ inserting, NEW j \in entries \ old
      PROVE  [addr_to_hash EXCEPT ![k[1]] = k[2]][j[1]] = j[2]
  <2>1. addr_to_hash[j[1]] = j[2] /\ j = <<j[1], j[2]>> /\ j[1] \in Addr /\ k = <<k[1], k[2]>>
    BY <1>4, KeyParts DEF CacheInv, TypeOK, Exact
  <2>2. CASE j[1] = k[1]
    BY <1>2, <2>1, <2>2
  <2>3. CASE j[1] # k[1]
    BY <1>2, <2>1, <2>3
  <2> QED BY <2>2, <2>3
<1>5. [addr_to_hash EXCEPT ![k[1]] = k[2]][k[1]] = k[2]
  BY <1>2
<1> QED BY <1>1, <1>2, <1>3, <1>4, <1>5 DEF Exact

LEMMA UpsertStep ==
  ASSUME CacheInv, NEW k \in Key, upsert(k) PROVE CacheInv'
<1> DEFINE old == {<<k[1], addr_to_hash[k[1]]>>} \ {k}
           E == (entries \ old) \cup {k}
           index == [addr_to_hash EXCEPT ![k[1]] = k[2]]
           o == Touch(Without(older, old), entries \ old, k)
<1>1. maybe_evict(E, index, o) /\ UNCHANGED <<max_entries, max_bytes, inserting>> /\ UNCHANGED disk
  BY DEF upsert, caps
<1>2. /\ E \in SUBSET Key /\ index \in [Addr -> Hash \cup {None}] /\ IsOrder(o, E)
      /\ ~ inserting => Exact(E, index)
  BY UpsertTable, Zenon
<1> HIDE DEF E, index, o
<1> QED BY <1>1, <1>2, EvictKeeps, SavesUnchanged

LEMMA CompactStep ==
  ASSUME CacheInv, compact PROVE CacheInv'
<1> DEFINE drop == {k \in entries : addr_to_hash[k[1]] # None /\ ~ Current(k)}
<1>1. entries' = entries \ drop /\ older' = Without(older, drop) /\ addr_to_hash' = addr_to_hash
  BY DEF compact
<1> HIDE DEF drop
<1>2. IsOrder(older', entries')
  BY <1>1, WithoutOrder DEF CacheInv
<1>3. ~ inserting => Exact(entries', addr_to_hash')
  BY <1>1 DEF CacheInv, Exact
<1> QED BY <1>1, <1>2, <1>3, SavesUnchanged DEF CacheInv, TypeOK, compact, caps

\* What is left after the page is dropped lies outside of it.
LEMMA PageEmptied ==
  ASSUME CacheInv, ~ inserting, NEW P \in Pages, invalidate_page(P)
  PROVE  \A k \in entries' : k \in entries /\ k[1] \notin P
BY DEF CacheInv, Exact, invalidate_page, Current

LEMMA InvalidateStep ==
  ASSUME CacheInv, NEW P \in Pages, invalidate_page(P) PROVE CacheInv'
<1> DEFINE drop == {k \in entries : k[1] \in P /\ Current(k)}
<1>1. entries' = entries \ drop /\ older' = Without(older, drop)
  BY DEF invalidate_page
<1> HIDE DEF drop
<1>2. IsOrder(older', entries')
  BY <1>1, WithoutOrder DEF CacheInv
<1>3. /\ addr_to_hash' \in [Addr -> Hash \cup {None}]
      /\ \A a \in Addr \ P : addr_to_hash'[a] = addr_to_hash[a]
  BY DEF CacheInv, TypeOK, invalidate_page
<1>4. ASSUME ~ inserting, NEW k \in entries' PROVE addr_to_hash'[k[1]] = k[2]
  <2>1. k \in entries /\ k \in Key /\ k[1] \notin P
    BY <1>4, PageEmptied DEF CacheInv, TypeOK
  <2> QED BY <1>3, <1>4, <2>1, KeyParts DEF CacheInv, Exact
<1> QED BY <1>1, <1>2, <1>3, <1>4, SavesUnchanged DEF CacheInv, TypeOK, Exact, invalidate_page, caps

-----------------------------------------------------------------------------
(* Saving and loading.                                                     *)

\* An order of a set lists its elements.
LEMMA OrderLists ==
  ASSUME NEW S \in SUBSET Key, NEW s \in Orders(S)
  PROVE  s \in Seq(Key) /\ Range(s) = S /\ Len(s) \in Nat
<1>1. Cardinality(S) \in Nat
  BY FiniteEntries, FS_CardinalityType
<1>2. s \in [1 .. Cardinality(S) -> S] /\ \A k \in S : \E i \in DOMAIN s : s[i] = k
  BY DEF Orders
<1>3. Range(s) = S
  BY <1>2 DEF Range
<1> QED BY <1>1, <1>2, <1>3

\* One record more, and one less to write.
LEMMA RangeOfAppend ==
  ASSUME NEW s \in Seq(Key), NEW k \in Key
  PROVE  Range(Append(s, k)) = Range(s) \cup {k}
<1>1. DOMAIN Append(s, k) = DOMAIN s \cup {Len(s) + 1}
  OBVIOUS
<1>2. \A i \in DOMAIN s : Append(s, k)[i] = s[i]
  OBVIOUS
<1>3. Append(s, k)[Len(s) + 1] = k
  OBVIOUS
<1> QED BY <1>1, <1>2, <1>3 DEF Range

LEMMA RangeOfTail ==
  ASSUME NEW s \in Seq(Key), s # << >>
  PROVE  /\ Head(s) \in Key /\ Tail(s) \in Seq(Key) /\ Len(Tail(s)) = Len(s) - 1
         /\ Range(s) = {Head(s)} \cup Range(Tail(s))
<1>1. Head(s) \in Key /\ Tail(s) \in Seq(Key) /\ Len(Tail(s)) = Len(s) - 1 /\ Head(s) = s[1] /\ Len(s) >= 1
  OBVIOUS
<1>2. \A i \in 1 .. Len(s) - 1 : Tail(s)[i] = s[i + 1]
  OBVIOUS
<1>3. \A i \in DOMAIN s : i = 1 \/ (i - 1 \in DOMAIN Tail(s) /\ Tail(s)[i - 1] = s[i])
  BY <1>1, <1>2
<1>4. \A i \in DOMAIN Tail(s) : i + 1 \in DOMAIN s /\ Tail(s)[i] = s[i + 1]
  BY <1>1, <1>2
<1>5. 1 \in DOMAIN s
  BY <1>1
<1>6. \A x \in Range(s) : x = Head(s) \/ x \in Range(Tail(s))
  BY <1>1, <1>3, Zenon DEF Range
<1>7. \A x \in Range(Tail(s)) : x \in Range(s)
  BY <1>4 DEF Range
<1>8. Head(s) \in Range(s)
  BY <1>1, <1>5 DEF Range
<1> HIDE DEF Range
<1> QED BY <1>1, <1>6, <1>7, <1>8

LEMMA NothingLeft ==
  ASSUME NEW s \in Seq(Key), NEW n \in Nat, n = n + Len(s)
  PROVE  Range(s) = {}
<1>1. DOMAIN s = {}
  OBVIOUS
<1> QED BY <1>1 DEF Range

LEMMA StartSaveStep ==
  ASSUME CacheInv, NEW sync \in BOOLEAN, StartSave(sync) PROVE CacheInv'
<1>1. PICK s \in Orders(entries) :
        writer' = [snap |-> [entries |-> entries, addr_to_hash |-> addr_to_hash],
                   left |-> s, opened |-> FALSE, sync |-> sync]
  BY Zenon DEF StartSave
<1>2. s \in Seq(Key) /\ Range(s) = entries
  BY OrderLists DEF CacheInv, TypeOK
<1>3. writer' \in Writer
  BY <1>1, <1>2 DEF CacheInv, TypeOK, Writer, Snapshot
<1>4. ~ inserting /\ UNCHANGED <<table, caps, file, saved>> /\ writer_error' \in {writer_error, None}
  BY DEF StartSave
<1>5. TypeOK'
  BY <1>3, <1>4 DEF CacheInv, TypeOK, table, caps
<1>6. Writing'
  BY <1>1, <1>2, <1>4 DEF CacheInv, Writing, Exact, table, caps
<1>7. Written'
  BY <1>4 DEF CacheInv, Written, Loadable
<1> QED BY <1>4, <1>5, <1>6, <1>7 DEF CacheInv, table, caps

\* A step of the save that leaves the table alone.
LEMMA DiskStep ==
  ASSUME CacheInv, UNCHANGED <<table, caps>>, TypeOK', ~ inserting, Writing', Written'
  PROVE  CacheInv'
BY DEF CacheInv, table, caps

LEMMA OpenStep ==
  ASSUME CacheInv, OpenFile PROVE CacheInv'
<1>1. writer # None /\ writer \in Writer /\ ~ writer.opened /\ ~ inserting
  BY DEF OpenFile, CacheInv, TypeOK
<1>2. /\ file' = [header |-> FALSE, count |-> Len(writer.left), recs |-> << >>]
      /\ writer' = [writer EXCEPT !.opened = TRUE]
      /\ saved' = writer.snap
      /\ UNCHANGED <<table, caps, writer_error>>
  BY DEF OpenFile
<1>3. Len(writer.left) \in Nat /\ writer.snap \in Snapshot
  BY <1>1 DEF Writer
<1>4. file' \in File /\ ~ file'.header /\ file'.recs = << >> /\ file'.count = Len(writer.left)
  BY <1>2, <1>3 DEF File
<1>5. writer' \in Writer /\ writer'.opened /\ writer'.snap = writer.snap /\ writer'.left = writer.left
  BY <1>1, <1>2, Zenon DEF Writer
<1>6. TypeOK'
  BY <1>2, <1>3, <1>4, <1>5 DEF CacheInv, TypeOK, table, caps
<1>7. Range(<< >>) = {}
  BY DEF Range
<1>8. Writing'
  BY <1>1, <1>2, <1>3, <1>4, <1>5, <1>7 DEF CacheInv, Writing
<1>9. Written'
  BY <1>4 DEF Written, Loadable
<1> QED BY <1>1, <1>2, <1>6, <1>8, <1>9, DiskStep

LEMMA HeaderStep ==
  ASSUME CacheInv, WriteHeader PROVE CacheInv'
<1>1. writer # None /\ writer \in Writer /\ writer.opened /\ ~ inserting
  BY DEF WriteHeader, CacheInv, TypeOK
<1>2. /\ file \in File /\ saved = writer.snap
      /\ Range(file.recs) \cup Range(writer.left) = saved.entries
      /\ file.count = Len(file.recs) + Len(writer.left)
      /\ Exact(saved.entries, saved.addr_to_hash)
  BY <1>1, Zenon DEF CacheInv, Writing
<1>3. file' = [file EXCEPT !.header = TRUE] /\ UNCHANGED <<table, caps, writer, writer_error, saved>>
  BY DEF WriteHeader
<1>4. file' \in File /\ file'.count = file.count /\ file'.recs = file.recs
  BY <1>2, <1>3, Zenon DEF File
<1>5. TypeOK'
  BY <1>3, <1>4 DEF CacheInv, TypeOK, table, caps
<1>6. Writing'
  BY <1>1, <1>2, <1>3, <1>4, Zenon DEF CacheInv, Writing
<1>7. Written'
  <2> SUFFICES ASSUME Loadable' PROVE Range(file.recs) = saved.entries
    <3>1. Exact(saved'.entries, saved'.addr_to_hash)
      BY <1>2, <1>3
    <3>2. saved'.entries = saved.entries
      BY <1>3
    <3> QED BY <1>4, <3>1, <3>2, Zenon DEF Written
  <2>1. Len(file.recs) \in Nat /\ Len(writer.left) \in Nat /\ writer.left \in Seq(Key)
    BY <1>1, <1>2 DEF File, Writer
  <2>2. Len(file'.recs) = file'.count
    BY DEF Loadable
  <2>3. Len(file.recs) = Len(file.recs) + Len(writer.left)
    BY <1>2, <1>4, <2>2, Zenon
  <2>4. Range(writer.left) = {}
    BY <2>1, <2>3, NothingLeft, Zenon
  <2> QED BY <1>2, <2>4
<1> QED BY <1>1, <1>3, <1>5, <1>6, <1>7, DiskStep

LEMMA RecordStep ==
  ASSUME CacheInv, WriteRecord PROVE CacheInv'
<1>1. writer # None /\ writer \in Writer /\ writer.opened /\ writer.left # << >> /\ ~ inserting
  BY DEF WriteRecord, CacheInv, TypeOK
<1>2. /\ file \in File /\ saved = writer.snap
      /\ Range(file.recs) \cup Range(writer.left) = saved.entries
      /\ file.count = Len(file.recs) + Len(writer.left)
      /\ Exact(saved.entries, saved.addr_to_hash)
  BY <1>1, Zenon DEF CacheInv, Writing
<1>3. /\ file' = [file EXCEPT !.recs = Append(@, Head(writer.left))]
      /\ writer' = [writer EXCEPT !.left = Tail(@)]
      /\ UNCHANGED <<table, caps, writer_error, saved>>
  BY DEF WriteRecord
<1> DEFINE h == Head(writer.left)
           l == Tail(writer.left)
<1>4. /\ file.recs \in Seq(Key) /\ Len(file.recs) \in Nat
      /\ writer.left \in Seq(Key) /\ Len(writer.left) \in Nat
  BY <1>1, <1>2 DEF File, Writer
<1>5. /\ h \in Key /\ l \in Seq(Key) /\ Len(l) = Len(writer.left) - 1 /\ Len(l) \in Nat
      /\ Range(writer.left) = {h} \cup Range(l)
  BY <1>1, <1>4, RangeOfTail
<1>6. Range(Append(file.recs, h)) = Range(file.recs) \cup {h} /\ Append(file.recs, h) \in Seq(Key)
      /\ Len(Append(file.recs, h)) = Len(file.recs) + 1
  BY <1>4, <1>5, RangeOfAppend
<1> HIDE DEF h, l
<1>7. file' \in File /\ file'.count = file.count /\ file'.recs = Append(file.recs, h)
  BY <1>2, <1>3, <1>6, Zenon DEF File, h
<1>8. /\ writer' \in Writer /\ writer'.opened /\ writer'.snap = writer.snap /\ writer'.left = l
  BY <1>1, <1>3, <1>5, Zenon DEF Writer, l
<1>9. Range(file'.recs) \cup Range(writer'.left) = saved.entries
  BY <1>2, <1>5, <1>6, <1>7, <1>8
<1>10. file'.count = Len(file'.recs) + Len(writer'.left)
  <2> DEFINE a == Len(file.recs)
             b == Len(writer.left)
  <2>1. a \in Nat /\ b \in Nat /\ file'.count = a + b
    BY <1>2, <1>4, <1>7
  <2>2. Len(file'.recs) = a + 1 /\ Len(writer'.left) = b - 1
    BY <1>5, <1>6, <1>7, <1>8
  <2> HIDE DEF a, b
  <2> QED BY <2>1, <2>2
<1>11. TypeOK'
  BY <1>3, <1>7, <1>8 DEF CacheInv, TypeOK, table, caps
<1>12. Writing'
  BY <1>2, <1>3, <1>7, <1>8, <1>9, <1>10, Zenon DEF Writing
<1>13. Written'
  <2> SUFFICES ASSUME Loadable' PROVE Range(file'.recs) = saved.entries
    <3>1. Exact(saved'.entries, saved'.addr_to_hash)
      BY <1>2, <1>3
    <3>2. saved'.entries = saved.entries
      BY <1>3
    <3> QED BY <1>7, <3>1, <3>2, Zenon DEF Written
  <2>1. Len(file'.recs) = file'.count
    BY DEF Loadable
  <2>2. Len(file'.recs) = Len(file'.recs) + Len(l) /\ Len(file'.recs) \in Nat
    BY <1>6, <1>7, <1>8, <1>10, <2>1
  <2>3. Range(l) = {}
    BY <1>5, <2>2, NothingLeft, Zenon
  <2> QED BY <1>8, <1>9, <2>3
<1> QED BY <1>1, <1>3, <1>11, <1>12, <1>13, DiskStep

\* The save ends, with or without an error.
LEMMA EndStep ==
  ASSUME CacheInv, OpenFailed \/ WriteFailed \/ SaveDone PROVE CacheInv'
<1>1. /\ ~ inserting /\ UNCHANGED <<table, caps, file, saved>> /\ writer' = None
      /\ writer_error' \in {None, "OpenFailed", "WriteFailed"}
  BY DEF OpenFailed, WriteFailed, SaveDone, EndSave, CacheInv, TypeOK
<1>2. TypeOK'
  BY <1>1 DEF CacheInv, TypeOK, table, caps
<1>3. Writing' /\ Written'
  BY <1>1 DEF CacheInv, Writing, Written, Loadable
<1> QED BY <1>1, <1>2, <1>3, DiskStep

LEMMA WaitStep ==
  ASSUME CacheInv, wait_for_async_save PROVE CacheInv'
BY DEF wait_for_async_save, CacheInv, TypeOK, Writing, Written, Loadable, table, caps

LEMMA CapStep ==
  ASSUME CacheInv,
         (\E n \in EntryCaps : set_max_entries(n)) \/ (\E n \in ByteCaps : set_max_bytes(n))
  PROVE  CacheInv'
<1>1. /\ max_entries' \in EntryCaps /\ max_bytes' \in ByteCaps
      /\ UNCHANGED <<table, inserting, disk>>
  BY DEF set_max_entries, set_max_bytes, CacheInv, TypeOK
<1> QED BY <1>1, Zenon DEF CacheInv, TypeOK, Writing, Written, Loadable, table, disk

\* The greatest of some positions of a sequence.
LEMMA LastPosition ==
  ASSUME NEW n \in Nat, NEW S \in SUBSET (1 .. n), S # {}
  PROVE  Max(S) \in S
<1> DEFINE gaps == {n - i : i \in S}
<1>1. gaps \in SUBSET Nat /\ gaps # {}
  <2>1. \A i \in S : n - i \in Nat
    OBVIOUS
  <2> QED BY <2>1, Zenon
<1>2. PICK g \in gaps : \A m \in gaps : g <= m
  BY <1>1, LeastOf, Zenon
<1>3. PICK i \in S : g = n - i
  BY <1>2
<1>4. \A j \in S : i >= j
  <2> TAKE j \in S
  <2>1. n - j \in gaps /\ i \in Nat /\ j \in Nat
    OBVIOUS
  <2> HIDE DEF gaps
  <2>2. g <= n - j
    BY <1>2, <2>1
  <2> QED BY <1>3, <2>1, <2>2
<1> QED BY <1>4, Zenon DEF Max

\* The file holds one version of an address, so the last record of an
\* address is each of its records.
LEMMA LoadStep ==
  ASSUME CacheInv, load_from_file PROVE CacheInv'
<1>1. UNCHANGED <<max_entries, max_bytes, inserting>> /\ UNCHANGED disk
  BY DEF load_from_file, caps
<1>2. CASE ~ Loadable
  BY <1>1, <1>2, SavesUnchanged DEF load_from_file, table, CacheInv, TypeOK
<1>3. CASE Loadable
  <2> DEFINE at(a) == {i \in DOMAIN file.recs : file.recs[i][1] = a}
  <2>1. /\ file.recs \in Seq(Key) /\ Range(file.recs) = saved.entries
        /\ Exact(saved.entries, saved.addr_to_hash) /\ Len(file.recs) \in Nat
        /\ DOMAIN file.recs = 1 .. Len(file.recs)
    BY <1>3 DEF CacheInv, Written, File
  <2>2. /\ entries' = Range(file.recs) /\ IsOrder(older', Range(file.recs))
        /\ addr_to_hash' = [a \in Addr |-> IF at(a) = {} THEN None ELSE file.recs[Max(at(a))][2]]
    BY <1>3 DEF load_from_file
  <2>3. ASSUME NEW a \in Addr, at(a) # {}
        PROVE  Max(at(a)) \in at(a) /\ file.recs[Max(at(a))] \in Key
    <3>1. at(a) \in SUBSET (1 .. Len(file.recs))
      BY <2>1
    <3>2. Max(at(a)) \in at(a)
      <4> HIDE DEF at
      <4> QED BY <2>1, <2>3, <3>1, LastPosition, Zenon
    <3>3. \A i \in at(a) : file.recs[i] \in Key
      BY <2>1
    <3> HIDE DEF at
    <3> QED BY <3>2, <3>3
  <2>4. entries' \in SUBSET Key
    BY <2>1, <2>2 DEF Range
  <2>5. addr_to_hash' \in [Addr -> Hash \cup {None}]
    <3>1. ASSUME NEW a \in Addr, at(a) # {} PROVE file.recs[Max(at(a))][2] \in Hash
      BY <2>3, <3>1, KeyParts
    <3> HIDE DEF at
    <3> QED BY <2>2, <3>1
  <2>6. ASSUME NEW k \in entries' PROVE addr_to_hash'[k[1]] = k[2]
    <3>1. PICK i \in DOMAIN file.recs : file.recs[i] = k
      BY <2>2 DEF Range
    <3>2. k \in Key /\ k[1] \in Addr /\ i \in at(k[1])
      BY <2>4, <3>1, KeyParts
    <3> DEFINE j == Max(at(k[1]))
    <3>3. j \in DOMAIN file.recs /\ file.recs[j][1] = k[1]
      BY <2>3, <3>2, Zenon
    <3>4. addr_to_hash'[k[1]] = file.recs[j][2]
      BY <2>2, <3>2, Zenon
    <3> HIDE DEF j, at
    <3>5. file.recs[j] \in saved.entries /\ k \in saved.entries
      BY <2>1, <2>2, <3>3 DEF Range
    <3> QED BY <2>1, <3>3, <3>4, <3>5 DEF Exact
  <2> QED BY <1>1, <2>2, <2>4, <2>5, <2>6, SavesUnchanged, Zenon DEF Exact
<1> QED BY <1>2, <1>3

LEMMA CrashStep ==
  ASSUME CacheInv, Crash PROVE CacheInv'
<1>1. TypeOK'
  BY CacheAssumption DEF Crash, CacheInv, TypeOK
<1>2. IsOrder(older', entries') /\ Exact(entries', addr_to_hash')
  BY DEF Crash, IsOrder, Exact
<1>3. Writing' /\ Written'
  BY DEF Crash, CacheInv, Writing, Written, Loadable
<1> QED BY <1>1, <1>2, <1>3 DEF Crash, CacheInv

LEMMA CacheStep ==
  ASSUME CacheInv, [Next]_vars PROVE CacheInv'
<1>1. ASSUME NEW k \in Key, lookup(k[1], k[2]) \/ insert(k) \/ upsert(k) PROVE CacheInv'
  BY <1>1, LookupStep, InsertStep, UpsertStep
<1>2. ASSUME NEW P \in Pages, invalidate_page(P) PROVE CacheInv'
  BY <1>2, InvalidateStep
<1>3. CASE save_to_file \/ save_to_file_async
  BY <1>3, StartSaveStep, Zenon DEF save_to_file, save_to_file_async
<1>4. CASE UNCHANGED vars
  BY <1>4, Zenon DEF vars, CacheInv, TypeOK, Writing, Written, Loadable
<1> QED
  BY <1>1, <1>2, <1>3, <1>4, CapStep, CompactStep, WaitStep, OpenStep, HeaderStep, RecordStep,
     EndStep, LoadStep, CrashStep DEF Next

\* The order of use orders the entries, a cache that is only upserted holds
\* the latest version of each address, and a save keeps to its snapshot.
THEOREM CacheCorrect == Spec => []CacheInv
<1> QED BY CacheInit, CacheStep, PTL DEF Spec

\* Whatever the cache does while the worker writes, and wherever a crash or
\* an error cuts a save short, a file that load_from_file accepts holds the
\* entries the cache had when the save was called.
THEOREM SavedFileIsExact == Spec => []FileIsSnapshot
<1>1. CacheInv => FileIsSnapshot
  BY DEF CacheInv, Written, FileIsSnapshot
<1> QED BY <1>1, CacheCorrect, PTL

\* What insert and upsert hand to maybe_evict, and what it leaves.
LEMMA EvictionStep ==
  ASSUME CacheInv, NEW k \in Key, NEW E \in SUBSET Key, NEW index, NEW o, IsOrder(o, E), k \in E,
         maybe_evict(E, index, o), \A j \in E : <<k, j>> \notin o,
         \A i, j \in entries : /\ <<i, j>> \in older
                               /\ i \in E /\ i # k /\ j[1] # k[1]
                               => j \in E /\ <<i, j>> \in o
  PROVE  /\ ~ over_cap(entries')
         /\ entries' # {} => k \in entries'
         /\ \A p \in older : p[1] \in entries' /\ p[1] # k /\ p[2][1] # k[1] => p[2] \in entries'
<1>1. max_entries \in Nat /\ max_bytes \in Nat
  BY CacheAssumption DEF CacheInv, TypeOK
<1> DEFINE gone == Evicted(E, o)
<1>2. entries' = E \ gone
  BY DEF maybe_evict
<1>3. ~ over_cap(E \ gone) /\ \A i \in E, j \in gone : <<i, j>> \in o => i \in gone
  BY <1>1, EvictionExact
<1> HIDE DEF gone
<1>4. ~ over_cap(entries')
  BY <1>2, <1>3, Zenon
<1>5. ASSUME k \in gone PROVE E \ gone = {}
  <2> SUFFICES ASSUME NEW i \in E PROVE i \in gone
    OBVIOUS
  <2>1. i = k \/ <<i, k>> \in o
    BY Zenon DEF IsOrder
  <2> QED BY <1>3, <1>5, <2>1, Zenon
<1>6. ASSUME NEW p \in older, p[1] \in entries', p[1] # k, p[2][1] # k[1] PROVE p[2] \in entries'
  <2>1. p = <<p[1], p[2]>> /\ p[1] \in entries /\ p[2] \in entries
    BY DEF CacheInv, IsOrder
  <2>2. p[2] \in E /\ <<p[1], p[2]>> \in o
    BY <1>2, <1>6, <2>1
  <2> QED BY <1>2, <1>3, <1>6, <2>2
<1> QED BY <1>2, <1>4, <1>5, <1>6

\* insert and upsert evict in the order of use, down to both caps, and their
\* own key last, for every content of the cache and every pair of caps.
THEOREM EvictionIsLru == Spec => EvictsOldest
<1> DEFINE Lru(k) == /\ ~ over_cap(entries')
                     /\ entries' # {} => k \in entries'
                     /\ \A p \in older :
                          p[1] \in entries' /\ p[1] # k /\ p[2][1] # k[1] => p[2] \in entries'
<1>1. ASSUME CacheInv, NEW k \in Key, insert(k) PROVE Lru(k)
  <2> DEFINE E == entries \cup {k}
             o == Touch(older, entries, k)
  <2>1. /\ IsOrder(o, E) /\ E \in SUBSET Key /\ k \in E
        /\ \A j \in E : <<k, j>> \notin o
        /\ \A i, j \in entries \ {k} : <<i, j>> \in o <=> <<i, j>> \in older
    BY <1>1, TouchOrder, Zenon DEF CacheInv, TypeOK
  <2>2. maybe_evict(E, [addr_to_hash EXCEPT ![k[1]] = k[2]], o)
    BY <1>1 DEF insert
  <2>3. \A i, j \in entries : <<i, j>> \in older /\ i \in E /\ i # k /\ j[1] # k[1]
                               => j \in E /\ <<i, j>> \in o
    <3> HIDE DEF o
    <3> QED BY <2>1
  <2> HIDE DEF E, o
  <2> QED BY <1>1, <2>1, <2>2, <2>3, EvictionStep
<1>2. ASSUME CacheInv, NEW k \in Key, upsert(k) PROVE Lru(k)
  <2> DEFINE old == {<<k[1], addr_to_hash[k[1]]>>} \ {k}
             rest == entries \ old
             E == rest \cup {k}
             o == Touch(Without(older, old), rest, k)
  <2>1. IsOrder(Without(older, old), rest) /\ \A i, j \in rest : <<i, j>> \in Without(older, old) <=> <<i, j>> \in older
    <3> HIDE DEF old
    <3>1. IsOrder(older, entries)
      BY <1>2 DEF CacheInv
    <3> QED BY <3>1, WithoutOrder
  <2>2. /\ IsOrder(o, E) /\ \A j \in E : <<k, j>> \notin o
        /\ \A i, j \in rest \ {k} : <<i, j>> \in o <=> <<i, j>> \in Without(older, old)
    <3> DEFINE without == Without(older, old)
    <3> HIDE DEF rest, without
    <3>1. IsOrder(without, rest)
      BY <2>1, Zenon DEF without
    <3>2. /\ IsOrder(Touch(without, rest, k), rest \cup {k})
          /\ \A j \in rest \cup {k} : <<k, j>> \notin Touch(without, rest, k)
          /\ \A i, j \in rest \ {k} : <<i, j>> \in Touch(without, rest, k) <=> <<i, j>> \in without
      BY <3>1, TouchOrder, Zenon
    <3> QED BY <3>2, Zenon DEF without
  <2>3. E \in SUBSET Key /\ k \in E /\ \A j \in old : j[1] = k[1]
    BY <1>2 DEF CacheInv, TypeOK
  <2>4. maybe_evict(E, [addr_to_hash EXCEPT ![k[1]] = k[2]], o)
    BY <1>2 DEF upsert
  <2>5. \A i, j \in entries : <<i, j>> \in older /\ i \in E /\ i # k /\ j[1] # k[1]
                               => j \in E /\ <<i, j>> \in o
    <3> HIDE DEF o, old
    <3> QED BY <2>1, <2>2, <2>3
  <2> HIDE DEF E, o
  <2> QED BY <1>2, <2>2, <2>3, <2>4, <2>5, EvictionStep
<1>3. CacheInv /\ [Next]_vars => [\A k \in Key : (insert(k) \/ upsert(k)) => Lru(k)]_vars
  BY <1>1, <1>2
<1> QED BY <1>3, CacheCorrect, PTL DEF Spec, EvictsOldest

\* When a page is invalidated no entry of it stays behind, for a cache that
\* holds one version of each address.
THEOREM PageIsDropped == Spec => PageDropped
<1>1. CacheInv /\ [Next]_vars =>
        [~ inserting => \A P \in Pages : invalidate_page(P) => {k \in entries' : k[1] \in P} = {}]_vars
  BY PageEmptied
<1> QED BY <1>1, CacheCorrect, PTL DEF Spec, PageDropped
=============================================================================
