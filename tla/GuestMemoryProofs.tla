------------------------- MODULE GuestMemoryProofs -------------------------
(***************************************************************************)
(* The guest's address space, for any size, layout and sequence of calls.  *)
(*                                                                         *)
(* First the searches of the region list, for any list that is sorted and  *)
(* inside the space: region_idx, position, find_free_range and             *)
(* validate_range say what the mapped addresses say.  The two walks are    *)
(* recursive functions.  Each is shown to have a solution, the solution is *)
(* characterised by induction on a set (UpTo), and the characterisation is *)
(* compared with the mapped addresses.                                     *)
(*                                                                         *)
(* Then the calls: SpaceInv, that the region list is sorted and inside the *)
(* space, is inductive, and the properties of GuestMemory follow from it.  *)
(***************************************************************************)
EXTENDS GuestMemory, WellFoundedInduction, TLAPS

\* A nonempty set of naturals has a least element, and Min chooses it.
LEMMA LeastElement ==
  ASSUME NEW T, T \subseteq Nat, T # {}
  PROVE  Min(T) \in T /\ \A y \in T : Min(T) <= y
<1>1. PICK x \in T : \A y \in T : <<y, x>> \notin OpToRel(<, Nat)
  BY WFMin, NatLessThanWellFounded, Zenon
<1>2. ASSUME NEW y \in T PROVE x <= y
  <2>1. x \in Nat /\ y \in Nat
    BY Zenon
  <2>2. y < x => <<y, x>> \in OpToRel(<, Nat)
    BY <2>1, Zenon DEF OpToRel
  <2>3. ~ (y < x)
    BY <1>1, <2>2, Zenon
  <2> QED BY <2>1, <2>3
<1> QED BY <1>2, Zenon DEF Min

\* On a sorted list, the elements before the partition point are those of S.
LEMMA PartitionPoint ==
  ASSUME NEW rs, Len(rs) \in Nat, NEW P \in SUBSET (1 .. Len(rs)),
         \A i, j \in 1 .. Len(rs) : i < j /\ j \in P => i \in P
  PROVE  partition_point(rs, P) \in 0 .. Len(rs) /\ P = 1 .. partition_point(rs, P)
<1> DEFINE T == (1 .. Len(rs) + 1) \ P
           m == Min(T)
<1>1. T \subseteq Nat /\ T # {}
  <2>1. Len(rs) + 1 \in T
    OBVIOUS
  <2> QED BY <2>1
<1>2. m \in T /\ \A y \in T : m <= y
  BY <1>1, LeastElement, Zenon
<1>3. partition_point(rs, P) = m - 1
  BY Zenon DEF partition_point
<1> HIDE DEF m
<1>4. P = 1 .. m - 1
  <2>1. \A i \in 1 .. m - 1 : i \in P
    BY <1>2
  <2>2. \A i \in P : i \in 1 .. m - 1
    BY <1>2
  <2> QED BY <1>2, <2>1, <2>2, Zenon
<1> QED BY <1>2, <1>3, <1>4

\* The elements of a sequence.
LEMMA SeqElements ==
  ASSUME NEW S, NEW s \in Seq(S)
  PROVE  Len(s) \in Nat /\ DOMAIN s = 1 .. Len(s) /\ \A i \in 1 .. Len(s) : s[i] \in S
OBVIOUS

\* d is s with e behind the first n elements: what follows is shifted.
Inserts(d, s, n, e) ==
  /\ Len(d) = Len(s) + 1
  /\ \A j \in 1 .. n : d[j] = s[j]
  /\ d[n + 1] = e
  /\ \A j \in n + 1 .. Len(s) : d[j + 1] = s[j]

LEMMA InsertProperties ==
  ASSUME NEW S, NEW s \in Seq(S), NEW n \in 0 .. Len(s), NEW e \in S
  PROVE  Insert(s, n, e) \in Seq(S) /\ Inserts(Insert(s, n, e), s, n, e)
<1> DEFINE a == SubSeq(s, 1, n)
           b == SubSeq(s, n + 1, Len(s))
           c == a \o <<e>>
           d == c \o b
<1>0. Len(s) \in Nat /\ n \in Nat
  BY SeqElements
<1>1. a \in Seq(S) /\ Len(a) = n /\ \A j \in 1 .. n : a[j] = s[j]
  BY <1>0
<1>2. b \in Seq(S) /\ Len(b) = Len(s) - n /\ \A j \in 1 .. Len(s) - n : b[j] = s[n + j]
  BY <1>0
<1>3. Insert(s, n, e) = d
  BY Zenon DEF Insert
<1> HIDE DEF a, b
<1>4. c \in Seq(S) /\ Len(c) = n + 1 /\ c[n + 1] = e /\ \A j \in 1 .. n : c[j] = a[j]
  BY <1>0, <1>1
<1> HIDE DEF c
<1>5. /\ d \in Seq(S) /\ Len(d) = Len(c) + Len(b)
      /\ \A j \in 1 .. Len(c) : d[j] = c[j]
      /\ \A j \in 1 .. Len(b) : d[Len(c) + j] = b[j]
  <2>1. c \in Seq(S) /\ b \in Seq(S)
    BY <1>2, <1>4, Zenon
  <2> QED BY ONLY <2>1
<1> HIDE DEF d
<1>6. ASSUME NEW j \in n + 1 .. Len(s) PROVE d[j + 1] = s[j]
  <2> DEFINE k == j - n
  <2>1. k \in 1 .. Len(s) - n /\ n + 1 + k = j + 1 /\ n + k = j
    BY <1>0
  <2> HIDE DEF k
  <2>2. b[k] = s[j] /\ d[j + 1] = b[k]
    BY <1>2, <1>4, <1>5, <2>1, SMTT(30)
  <2> QED BY <2>2, Zenon
<1>7. Len(d) = Len(s) + 1 /\ d[n + 1] = e /\ \A j \in 1 .. n : d[j] = s[j]
  BY <1>0, <1>1, <1>2, <1>4, <1>5, SMTT(30)
<1>8. Inserts(d, s, n, e)
  BY <1>6, <1>7, Zenon DEF Inserts
<1> QED BY <1>3, <1>5, <1>8, Zenon

\* Remove closes the gap.
LEMMA RemoveProperties ==
  ASSUME NEW S, NEW s \in Seq(S), NEW i \in 1 .. Len(s)
  PROVE  /\ Remove(s, i) \in Seq(S)
         /\ Len(Remove(s, i)) = Len(s) - 1
         /\ \A j \in 1 .. i - 1 : Remove(s, i)[j] = s[j]
         /\ \A j \in i .. Len(s) - 1 : Remove(s, i)[j] = s[j + 1]
<1> DEFINE a == SubSeq(s, 1, i - 1)
           b == SubSeq(s, i + 1, Len(s))
           d == a \o b
<1>0. Len(s) \in Nat
  BY SeqElements, Zenon
<1>1. a \in Seq(S) /\ Len(a) = i - 1 /\ \A j \in 1 .. i - 1 : a[j] = s[j]
  BY <1>0
<1>2. b \in Seq(S) /\ Len(b) = Len(s) - i /\ \A j \in 1 .. Len(s) - i : b[j] = s[i + j]
  BY <1>0
<1>3. Remove(s, i) = d
  BY Zenon DEF Remove
<1> HIDE DEF a, b
<1>4. /\ d \in Seq(S) /\ Len(d) = Len(a) + Len(b)
      /\ \A j \in 1 .. Len(a) : d[j] = a[j]
      /\ \A j \in 1 .. Len(b) : d[Len(a) + j] = b[j]
  <2>1. a \in Seq(S) /\ b \in Seq(S)
    BY <1>1, <1>2, Zenon
  <2> QED BY ONLY <2>1
<1> HIDE DEF d
<1>5. ASSUME NEW j \in i .. Len(s) - 1 PROVE d[j] = s[j + 1]
  <2> DEFINE k == j - i + 1
  <2>1. k \in 1 .. Len(b) /\ Len(b) = Len(s) - i /\ Len(a) + k = j /\ i + k = j + 1
    BY <1>0, <1>1, <1>2
  <2> HIDE DEF k
  <2>2. b[k] = s[j + 1] /\ d[j] = b[k]
    BY <1>2, <1>4, <2>1, SMTT(30)
  <2> QED BY <2>2, Zenon
<1> QED BY <1>0, <1>1, <1>2, <1>3, <1>4, <1>5

-----------------------------------------------------------------------------
(* The list of regions.                                                    *)

\* A sorted list, element by element.
LEMMA RegionAt ==
  ASSUME NEW rs \in Seq(Region), WellFormed(rs)
  PROVE  /\ Len(rs) \in Nat /\ DOMAIN rs = 1 .. Len(rs)
         /\ \A i \in 1 .. Len(rs) :
              /\ rs[i] \in Region
              /\ rs[i].base \in Nat /\ rs[i].len \in Nat /\ end(rs[i]) \in Nat
              /\ end(rs[i]) = rs[i].base + rs[i].len
              /\ rs[i].base < end(rs[i]) /\ end(rs[i]) <= U64Max
         /\ \A i, j \in 1 .. Len(rs) : i < j => end(rs[i]) <= rs[j].base
<1>1. Len(rs) \in Nat /\ DOMAIN rs = 1 .. Len(rs)
  BY SeqElements, Zenon
<1>2. \A i \in 1 .. Len(rs) : rs[i] \in Region
  BY SeqElements, Zenon
<1>3. \A r \in Region : r.base \in Nat /\ r.len \in Nat /\ r.len > 0
  BY MemoryAssumption DEF Region, Addr
<1>4. \A i \in 1 .. Len(rs) :
        /\ end(rs[i]) \in Nat /\ end(rs[i]) = rs[i].base + rs[i].len
        /\ rs[i].base < end(rs[i])
  BY <1>2, <1>3 DEF end
<1> QED BY <1>1, <1>2, <1>3, <1>4, Zenon DEF WellFormed, Sorted

\* partition_point, on either side of an equal base.
LEMMA RegionsBelow ==
  ASSUME NEW rs \in Seq(Region), WellFormed(rs), NEW b \in Nat,
         NEW P, \/ P = {i \in DOMAIN rs : rs[i].base < b}
                \/ P = {i \in DOMAIN rs : rs[i].base <= b}
  PROVE  partition_point(rs, P) \in 0 .. Len(rs) /\ P = 1 .. partition_point(rs, P)
<1>1. P \in SUBSET (1 .. Len(rs)) /\ Len(rs) \in Nat
  BY RegionAt, Zenon
<1>2. \A i, j \in 1 .. Len(rs) : i < j /\ j \in P => i \in P
  BY RegionAt, SMTT(30)
<1> QED BY <1>1, <1>2, PartitionPoint, Zenon

\* The addresses of a list of regions.
Span(rs) == UNION {RangeOf(r) : r \in Range(rs)}

\* An address is mapped if some region of the list has it.
LEMMA SpanIs ==
  ASSUME NEW rs \in Seq(Region), NEW a
  PROVE  a \in Span(rs) <=> \E i \in 1 .. Len(rs) : a \in RangeOf(rs[i])
BY SeqElements DEF Span, Range

\* insert_region keeps the list sorted.
LEMMA Inserted ==
  ASSUME NEW rs \in Seq(Region), WellFormed(rs), NEW r \in Region,
         end(r) <= U64Max, NEW k \in 0 .. Len(rs),
         \A i \in 1 .. k : end(rs[i]) <= r.base,
         \A i \in k + 1 .. Len(rs) : end(r) <= rs[i].base
  PROVE  /\ Insert(rs, k, r) \in Seq(Region)
         /\ WellFormed(Insert(rs, k, r))
         /\ Range(Insert(rs, k, r)) = Range(rs) \cup {r}
<1> DEFINE n == Len(rs)
           new == Insert(rs, k, r)
<1>0. n \in Nat
  BY RegionAt, Zenon
<1>1. /\ new \in Seq(Region) /\ Len(new) = n + 1
      /\ \A j \in 1 .. k : new[j] = rs[j]
      /\ new[k + 1] = r
      /\ \A j \in k + 1 .. n : new[j + 1] = rs[j]
  <2>1. new \in Seq(Region) /\ Inserts(new, rs, k, r)
    BY InsertProperties, Zenon
  <2> HIDE DEF new
  <2> QED BY <2>1, Zenon DEF Inserts
<1>3. /\ \A j \in 1 .. k : new[j] = rs[j]
      /\ new[k + 1] = r
      /\ \A j \in k + 1 .. n : new[j + 1] = rs[j]
  BY <1>1, Zenon
<1> HIDE DEF new
<1>2. DOMAIN new = 1 .. n + 1 /\ DOMAIN rs = 1 .. n
  BY <1>0, <1>1, SeqElements, Zenon
<1>4. \A j \in 1 .. n + 1 : \/ j \in 1 .. k \/ j = k + 1
                            \/ j - 1 \in k + 1 .. n /\ (j - 1) + 1 = j
  BY <1>0
<1>5. ASSUME NEW j \in 1 .. n + 1 PROVE end(new[j]) <= U64Max
  <2>1. \A i \in 1 .. n : end(rs[i]) <= U64Max
    BY RegionAt, Zenon
  <2>2. CASE j \in 1 .. k
    BY <1>0, <1>3, <2>1, <2>2
  <2>3. CASE j = k + 1
    BY <1>3, <2>3, Zenon
  <2>4. CASE j - 1 \in k + 1 .. n /\ (j - 1) + 1 = j
    <3>1. new[j] = rs[j - 1] /\ j - 1 \in 1 .. n
      BY <1>0, <1>3, <2>4
    <3> QED BY <2>1, <3>1, Zenon
  <2> QED BY <1>4, <2>2, <2>3, <2>4, Zenon
<1>6. ASSUME NEW i \in 1 .. n + 1, NEW j \in 1 .. n + 1, i < j
      PROVE  end(new[i]) <= new[j].base
  <2>1. CASE j <= k
    <3>1. new[i] = rs[i] /\ new[j] = rs[j] /\ i \in 1 .. n /\ j \in 1 .. n
      BY <1>0, <1>3, <1>6, <2>1
    <3> QED BY <1>6, <3>1, RegionAt, Zenon
  <2>2. CASE j = k + 1
    BY <1>0, <1>3, <1>6, <2>2
  <2>3. CASE j > k + 1
    <3>1. j - 1 \in k + 1 .. n /\ new[j] = rs[j - 1]
      BY <1>0, <1>3, <1>4, <2>3
    <3>2. CASE i <= k
      <4>1. new[i] = rs[i] /\ i \in 1 .. n /\ j - 1 \in 1 .. n /\ i < j - 1
        BY <1>0, <1>3, <3>1, <3>2
      <4> QED BY <3>1, <4>1, RegionAt, Zenon
    <3>3. CASE i = k + 1
      BY <1>0, <1>3, <3>1, <3>3, Zenon
    <3>4. CASE i > k + 1
      <4>1. i - 1 \in k + 1 .. n /\ new[i] = rs[i - 1]
        BY <1>0, <1>3, <1>4, <3>4
      <4> QED BY <1>0, <1>6, <3>1, <4>1, RegionAt, SMTT(30)
    <3> QED BY <1>0, <3>2, <3>3, <3>4
  <2> QED BY <1>0, <2>1, <2>2, <2>3
<1>7. WellFormed(new)
  BY <1>2, <1>5, <1>6, Zenon DEF WellFormed, Sorted
<1>8. Range(new) = Range(rs) \cup {r}
  <2>1. \A y \in Range(new) : y \in Range(rs) \cup {r}
    <3> SUFFICES ASSUME NEW j \in 1 .. n + 1 PROVE new[j] = r \/ \E i \in 1 .. n : new[j] = rs[i]
      BY <1>2, Zenon DEF Range
    <3>1. CASE j \in 1 .. k
      BY <1>0, <1>3, <3>1
    <3>2. CASE j = k + 1
      BY <1>3, <3>2, Zenon
    <3>3. CASE j - 1 \in k + 1 .. n /\ (j - 1) + 1 = j
      <4>1. new[j] = rs[j - 1] /\ j - 1 \in 1 .. n
        BY <1>0, <1>3, <3>3
      <4> QED BY <4>1, Zenon
    <3> QED BY <1>4, <3>1, <3>2, <3>3, Zenon
  <2>2. \A y \in Range(rs) : y \in Range(new)
    <3> SUFFICES ASSUME NEW i \in 1 .. n PROVE \E j \in 1 .. n + 1 : new[j] = rs[i]
      BY <1>2, Zenon DEF Range
    <3>1. CASE i <= k
      BY <1>0, <1>3, <3>1
    <3>2. CASE i > k
      BY <1>0, <1>3, <3>2
    <3> QED BY <1>0, <3>1, <3>2
  <2>3. r \in Range(new)
    BY <1>0, <1>2, <1>3 DEF Range
  <2> QED BY <2>1, <2>2, <2>3, Zenon
<1> QED BY <1>1, <1>7, <1>8, Zenon DEF new

\* unmap keeps the list sorted.
LEMMA Removed ==
  ASSUME NEW rs \in Seq(Region), WellFormed(rs), NEW k \in 1 .. Len(rs)
  PROVE  /\ Remove(rs, k) \in Seq(Region)
         /\ WellFormed(Remove(rs, k))
         /\ Range(Remove(rs, k)) = Range(rs) \ {rs[k]}
<1> DEFINE n == Len(rs)
           new == Remove(rs, k)
<1>0. n \in Nat /\ DOMAIN rs = 1 .. n
  BY RegionAt, Zenon
<1>1. /\ new \in Seq(Region) /\ Len(new) = n - 1
      /\ \A j \in 1 .. k - 1 : new[j] = rs[j]
      /\ \A j \in k .. n - 1 : new[j] = rs[j + 1]
  BY RemoveProperties, Zenon
<1> HIDE DEF new
<1>2. DOMAIN new = 1 .. n - 1
  BY <1>0, <1>1, SeqElements, Zenon
<1> DEFINE Old(j) == IF j < k THEN j ELSE j + 1
<1>3. \A j \in 1 .. n - 1 : Old(j) \in 1 .. n /\ Old(j) # k /\ new[j] = rs[Old(j)]
  BY <1>0, <1>1
<1>4. \A i, j \in 1 .. n - 1 : i < j => Old(i) < Old(j)
  BY <1>0
<1>5. \A i \in 1 .. n : i # k => \E j \in 1 .. n - 1 : Old(j) = i
  <2> SUFFICES ASSUME NEW i \in 1 .. n, i # k PROVE \E j \in 1 .. n - 1 : Old(j) = i
    BY Zenon
  <2>1. CASE i < k
    <3>1. i \in 1 .. n - 1 /\ Old(i) = i
      BY <1>0, <2>1
    <3> QED BY <3>1, Zenon
  <2>2. CASE i > k
    <3>1. i - 1 \in 1 .. n - 1 /\ Old(i - 1) = i
      BY <1>0, <2>2
    <3> QED BY <3>1, Zenon
  <2> QED BY <1>0, <2>1, <2>2
<1> HIDE DEF Old
<1>6. WellFormed(new)
  BY <1>2, <1>3, <1>4, RegionAt, Zenon DEF WellFormed, Sorted
<1>7. ASSUME NEW i \in 1 .. n, i # k PROVE rs[i] # rs[k]
  <2>1. /\ i < k => end(rs[i]) <= rs[k].base
        /\ k < i => end(rs[k]) <= rs[i].base
        /\ rs[i].base < end(rs[i]) /\ rs[k].base < end(rs[k])
        /\ rs[i].base \in Nat /\ end(rs[i]) \in Nat
    BY RegionAt, Zenon
  <2> QED BY <1>0, <1>7, <2>1
<1>8. Range(new) = Range(rs) \ {rs[k]}
  <2>1. \A y \in Range(new) : y \in Range(rs) \ {rs[k]}
    BY <1>0, <1>2, <1>3, <1>7, Zenon DEF Range
  <2>2. \A y \in Range(rs) \ {rs[k]} : y \in Range(new)
    <3> SUFFICES ASSUME NEW i \in 1 .. n, i # k PROVE \E j \in 1 .. n - 1 : new[j] = rs[i]
      BY <1>0, <1>2, SMTT(30) DEF Range
    <3> QED BY <1>3, <1>5, SMTT(30)
  <2> QED BY <2>1, <2>2, Zenon
<1> QED BY <1>1, <1>6, <1>8, Zenon DEF new

\* r can take the place of region k.
Fits(rs, k, r) == /\ end(r) <= U64Max /\ r.base = rs[k].base
                  /\ k # Len(rs) => end(r) <= rs[k + 1].base

Replace(rs, k, r) == [rs EXCEPT ![k] = r]

\* resize and mprotect change a region in place.
LEMMA Replaced ==
  ASSUME NEW rs \in Seq(Region), WellFormed(rs), NEW k \in 1 .. Len(rs),
         NEW r \in Region, Fits(rs, k, r), NEW new, new = Replace(rs, k, r)
  PROVE  /\ new \in Seq(Region) /\ WellFormed(new)
         /\ Range(new) = (Range(rs) \ {rs[k]}) \cup {r}
<1> DEFINE n == Len(rs)
<1>0. n \in Nat /\ DOMAIN rs = 1 .. n
  BY RegionAt, Zenon
<1>1. new \in Seq(Region) /\ Len(new) = n
  BY <1>0 DEF Replace
<1>2. /\ DOMAIN new = 1 .. n /\ new[k] = r
      /\ \A j \in 1 .. n : j # k => new[j] = rs[j]
  BY <1>0, Zenon DEF Replace
<1>a. \A j \in 1 .. n : new[j].base = rs[j].base
  <2>1. new[k].base = rs[k].base
    BY <1>2, Zenon DEF Fits
  <2> QED BY <1>2, <2>1, Zenon
<1>b. \A j \in 1 .. n : end(new[j]) <= U64Max
  <2>1. \A j \in 1 .. n : end(rs[j]) <= U64Max
    BY RegionAt, Zenon
  <2>2. end(new[k]) <= U64Max
    BY <1>2, Zenon DEF Fits
  <2> QED BY <1>2, <2>1, <2>2, Zenon
<1>3. ASSUME NEW i \in 1 .. n, NEW j \in 1 .. n, i < j
      PROVE  end(new[i]) <= new[j].base
  <2>1. CASE i # k
    <3>1. end(rs[i]) <= rs[j].base
      BY <1>3, RegionAt, Zenon
    <3> QED BY <1>2, <1>a, <2>1, <3>1, Zenon
  <2>2. CASE i = k
    <3>1. k + 1 \in 1 .. n /\ k # n
      <4>1. \A l, m \in Nat : k \in 1 .. l /\ m \in 1 .. l /\ k < m
                                => k + 1 \in 1 .. l /\ k # l
        OBVIOUS
      <4> HIDE DEF n
      <4> QED BY <1>0, <1>3, <2>2, <4>1
    <3>2. end(r) <= rs[k + 1].base
      BY <3>1, Zenon DEF Fits
    <3>3. CASE j = k + 1
      BY <1>2, <1>a, <2>2, <3>2, <3>3, Zenon
    <3>4. CASE j > k + 1
      <4>1. /\ rs[k + 1].base < end(rs[k + 1]) /\ end(rs[k + 1]) <= rs[j].base
            /\ rs[k + 1].base \in Nat /\ end(rs[k + 1]) \in Nat /\ rs[j].base \in Nat
        BY <3>1, <3>4, RegionAt, Zenon
      <4>2. end(r) \in Int
        BY MemoryAssumption DEF end, Region, Addr
      <4>3. end(r) <= rs[j].base
        BY <3>2, <4>1, <4>2, SMTT(30)
      <4> QED BY <1>2, <1>a, <2>2, <4>3, Zenon
    <3> QED BY <1>0, <1>3, <2>2, <3>3, <3>4
  <2> QED BY <2>1, <2>2, Zenon
<1>4. WellFormed(new)
  BY <1>2, <1>b, <1>3, Zenon DEF WellFormed, Sorted
<1>5. ASSUME NEW i \in 1 .. n, i # k PROVE rs[i] # rs[k]
  <2>1. /\ i < k => end(rs[i]) <= rs[k].base
        /\ k < i => end(rs[k]) <= rs[i].base
        /\ rs[i].base < end(rs[i]) /\ rs[k].base < end(rs[k])
        /\ rs[i].base \in Nat /\ end(rs[i]) \in Nat
    BY RegionAt, Zenon
  <2> QED BY <1>0, <1>5, <2>1
<1>6. Range(new) = (Range(rs) \ {rs[k]}) \cup {r}
  BY <1>0, <1>2, <1>5, Zenon DEF Range
<1> QED BY <1>1, <1>4, <1>6, Zenon

\* The region position finds is the only one with that base.
LEMMA PositionIs ==
  ASSUME SpaceInv, NEW b
  PROVE  /\ position(b) # 0 => /\ position(b) \in 1 .. Len(regions)
                               /\ regions[position(b)].base = b
         /\ position(b) = 0 => \A i \in 1 .. Len(regions) : regions[i].base # b
<1> DEFINE S == {i \in DOMAIN regions : regions[i].base = b}
<1>1. S \subseteq 1 .. Len(regions) /\ Len(regions) \in Nat /\ DOMAIN regions = 1 .. Len(regions)
  BY SeqElements, Zenon DEF SpaceInv, TypeOK
<1>2. CASE S = {}
  BY <1>1, <1>2, Zenon DEF position
<1>3. CASE S # {}
  <2>1. S \subseteq Nat
    BY <1>1
  <2>2. Min(S) \in S
    BY <1>3, <2>1, LeastElement, Zenon
  <2>3. position(b) = Min(S)
    BY <1>3, Zenon DEF position
  <2> QED BY <1>1, <2>2, <2>3
<1> QED BY <1>2, <1>3, Zenon

-----------------------------------------------------------------------------
(* The walk of find_free_range.                                            *)

\* Induction up to N, on a set.
LEMMA UpTo ==
  ASSUME NEW N \in Nat, NEW Q, 0 \in Q, \A n \in 0 .. N - 1 : n \in Q => n + 1 \in Q
  PROVE  \A n \in 0 .. N : n \in Q
<1> DEFINE T == {n \in 0 .. N : n \notin Q}
<1> SUFFICES ASSUME T # {} PROVE FALSE
  BY Zenon
<1>1. T \subseteq Nat
  OBVIOUS
<1>2. PICK m \in T : \A y \in T : m <= y
  BY <1>1, LeastElement, Zenon
<1>3. m \in 0 .. N /\ m # 0 /\ m - 1 \in 0 .. N - 1 /\ (m - 1) + 1 = m
  OBVIOUS
<1>4. m - 1 \in Q
  BY <1>2, <1>3
<1> QED BY <1>3, <1>4, Zenon

\* The cursor moves to the later of two addresses.
LEMMA MaxOfTwo ==
  ASSUME NEW a \in Nat, NEW b \in Nat
  PROVE  /\ Max({a, b}) \in Nat /\ Max({a, b}) >= a /\ Max({a, b}) >= b
         /\ Max({a, b}) = a \/ Max({a, b}) = b
<1>1. \E x \in {a, b} : \A y \in {a, b} : x >= y
  <2>1. a >= b \/ b >= a
    OBVIOUS
  <2> QED BY <2>1
<1>2. Max({a, b}) \in {a, b} /\ \A y \in {a, b} : Max({a, b}) >= y
  BY <1>1, Zenon DEF Max
<1> QED BY <1>2, Zenon

\* g is the walk over regions that end at e.
IsWalk(g, N, e, min) ==
  g[0] = min /\ \A i \in 1 .. N : g[i] = Max({g[i - 1], e[i]})

\* The recursion of the walk has a solution.
LEMMA WalkExists ==
  ASSUME NEW N \in Nat, NEW e \in [1 .. N -> Nat], NEW min \in Nat
  PROVE  \E g \in [0 .. N -> Nat] : IsWalk(g, N, e, min)
<1> DEFINE Walks(g, n) == g[0] = min /\ \A i \in 1 .. n : g[i] = Max({g[i - 1], e[i]})
           Q == {n \in 0 .. N : \E g \in [0 .. n -> Nat] : Walks(g, n)}
<1>1. 0 \in Q
  <2> DEFINE g == [i \in 0 .. 0 |-> min]
  <2>1. g \in [0 .. 0 -> Nat] /\ Walks(g, 0) /\ 0 \in 0 .. N
    OBVIOUS
  <2> HIDE DEF Walks, g
  <2> QED BY <2>1, Zenon
<1>2. ASSUME NEW n \in 0 .. N - 1, n \in Q PROVE n + 1 \in Q
  <2>1. PICK g \in [0 .. n -> Nat] : Walks(g, n)
    BY <1>2, Zenon
  <2> DEFINE last == Max({g[n], e[n + 1]})
             h == [i \in 0 .. n + 1 |-> IF i = n + 1 THEN last ELSE g[i]]
  <2>2. last \in Nat
    <3>1. g[n] \in Nat /\ e[n + 1] \in Nat
      OBVIOUS
    <3> QED BY <3>1, MaxOfTwo, Zenon
  <2> HIDE DEF last
  <2>3. h \in [0 .. n + 1 -> Nat]
    BY <2>2
  <2>4. ASSUME NEW i \in 1 .. n + 1 PROVE h[i] = Max({h[i - 1], e[i]})
    <3>1. CASE i = n + 1
      <4>1. h[i] = last /\ h[i - 1] = g[n]
        BY <3>1
      <4> QED BY <3>1, <4>1, Zenon DEF last
    <3>2. CASE i \in 1 .. n
      <4>1. h[i] = g[i] /\ h[i - 1] = g[i - 1]
        BY <3>2
      <4> QED BY <2>1, <3>2, <4>1, Zenon
    <3> QED BY <3>1, <3>2
  <2>5. n + 1 \in 0 .. N /\ h[0] = min
    BY <2>1
  <2> QED BY <2>3, <2>4, <2>5, Zenon
<1> HIDE DEF Q
<1>3. \A n \in 0 .. N : n \in Q
  BY <1>1, <1>2, UpTo, Zenon
<1>4. N \in 0 .. N
  OBVIOUS
<1> HIDE DEF Walks
<1>5. \E g \in [0 .. N -> Nat] : Walks(g, N)
  BY <1>3, <1>4, Zenon DEF Q
<1> QED BY <1>5, Zenon DEF Walks, IsWalk

\* What both walks over the gaps have in common.
Walk(c, min) ==
  /\ c \in [0 .. Len(regions) -> Nat] /\ c[0] = min
  /\ \A i \in 1 .. Len(regions) :
       /\ c[i] >= c[i - 1] /\ c[i] >= end(regions[i])
       /\ c[i] = c[i - 1] \/ c[i] = end(regions[i])

\* One step of the recursion.
Passed(g, min) ==
  [i \in 0 .. Len(regions) |-> IF i = 0 THEN min ELSE Max({g[i - 1], end(regions[i])})]

\* The recursion of cursor has a solution,
LEMMA PassedExists ==
  ASSUME SpaceInv, NEW min \in Nat
  PROVE  \E g : g = Passed(g, min)
<1> DEFINE N == Len(regions)
           e == [i \in 1 .. N |-> end(regions[i])]
<1>1. N \in Nat /\ \A i \in 1 .. N : end(regions[i]) \in Nat
  BY RegionAt, Zenon DEF SpaceInv, TypeOK
<1>2. e \in [1 .. N -> Nat] /\ \A i \in 1 .. N : e[i] = end(regions[i])
  BY <1>1, Zenon
<1> HIDE DEF e, N
<1>3. PICK g \in [0 .. N -> Nat] : IsWalk(g, N, e, min)
  BY <1>1, <1>2, WalkExists, Zenon
<1>4. ASSUME NEW i \in 0 .. N PROVE Passed(g, min)[i] = g[i]
  <2>1. i # 0 => i \in 1 .. N
    BY <1>1
  <2>2. Passed(g, min)[i] = IF i = 0 THEN min ELSE Max({g[i - 1], end(regions[i])})
    BY Zenon DEF Passed, N
  <2> QED BY <1>2, <1>3, <2>1, <2>2, Zenon DEF IsWalk
<1>5. g = Passed(g, min)
  BY <1>4, SMTT(30) DEF Passed, N
<1> QED BY <1>5, Zenon

\* and every solution is a walk.
LEMMA PassedIsWalk ==
  ASSUME SpaceInv, NEW min \in Nat, NEW c, c = Passed(c, min)
  PROVE  Walk(c, min)
<1> DEFINE N == Len(regions)
<1>1. N \in Nat /\ \A i \in 1 .. N : end(regions[i]) \in Nat
  BY RegionAt, Zenon DEF SpaceInv, TypeOK
<1> HIDE DEF N
<1>8. /\ DOMAIN c = 0 .. N /\ c[0] = min
      /\ \A i \in 1 .. N : c[i] = Max({c[i - 1], end(regions[i])})
  <2>1. \A i \in 0 .. N : c[i] = IF i = 0 THEN min ELSE Max({c[i - 1], end(regions[i])})
    BY Zenon DEF Passed, N
  <2>2. DOMAIN c = 0 .. N
    BY Zenon DEF Passed, N
  <2>3. 0 \in 0 .. N /\ \A i \in 1 .. N : i \in 0 .. N /\ i # 0
    BY <1>1
  <2> QED BY <2>1, <2>2, <2>3, Zenon
<1> DEFINE Q == {n \in 0 .. N : c[n] \in Nat}
<1>9. \A n \in 0 .. N : n \in Q
  <2>1. 0 \in Q
    BY <1>1, <1>8
  <2>2. ASSUME NEW n \in 0 .. N - 1, n \in Q PROVE n + 1 \in Q
    <3>1. n + 1 \in 1 .. N /\ n + 1 \in 0 .. N /\ (n + 1) - 1 = n
      BY <1>1
    <3>2. c[n + 1] = Max({c[n], end(regions[n + 1])})
      BY <1>8, <3>1, Zenon
    <3>3. c[n] \in Nat /\ end(regions[n + 1]) \in Nat
      BY <1>1, <2>2, <3>1, Zenon
    <3>4. c[n + 1] \in Nat
      BY <3>2, <3>3, MaxOfTwo, Zenon
    <3> QED BY <3>1, <3>4, Zenon
  <2> HIDE DEF Q
  <2> QED BY <1>1, <2>1, <2>2, UpTo, Zenon
<1>10. \A n \in 0 .. N : c[n] \in Nat
  BY <1>9, Zenon
<1>11. c \in [0 .. N -> Nat]
  BY <1>8, <1>10, Zenon DEF Passed, N
<1>12. ASSUME NEW i \in 1 .. N
       PROVE  /\ c[i] >= c[i - 1] /\ c[i] >= end(regions[i])
              /\ c[i] = c[i - 1] \/ c[i] = end(regions[i])
  <2>1. c[i] = Max({c[i - 1], end(regions[i])})
    BY <1>8, Zenon
  <2>2. c[i - 1] \in Nat /\ end(regions[i]) \in Nat
    BY <1>1, <1>10
  <2> DEFINE m == Max({c[i - 1], end(regions[i])})
  <2>3. /\ m >= c[i - 1] /\ m >= end(regions[i])
        /\ m = c[i - 1] \/ m = end(regions[i])
    BY <2>2, MaxOfTwo, Zenon
  <2> QED BY <2>1, <2>3, Zenon
<1> QED BY <1>8, <1>11, <1>12, Zenon DEF N, Walk


\* Both searches walk that way.
LEMMA CursorIs ==
  ASSUME SpaceInv, NEW min \in Nat
  PROVE  Walk(cursor(min), min) /\ Walk(Regions!cursor(min), min)
<1>1. cursor(min) = Passed(cursor(min), min)
  <2>1. cursor(min) = CHOOSE f : f = Passed(f, min)
    BY Zenon DEF cursor, Passed
  <2> QED BY <2>1, PassedExists, Zenon
<1>2. Regions!cursor(min) = Passed(Regions!cursor(min), min)
  <2> DEFINE R(g) == [i \in 0 .. Len(regions) |->
                        IF i = 0 THEN min ELSE Regions!Max({g[i - 1], Regions!end(regions[i])})]
  <2>1. Regions!cursor(min) = CHOOSE f : f = R(f)
    BY Zenon DEF Regions!cursor
  <2>2. \A S : Regions!Max(S) = Max(S)
    BY Zenon DEF Max, Regions!Max
  <2>3. \A r : Regions!end(r) = end(r)
    BY Zenon DEF end, Regions!end
  <2>4. \A g : R(g) = Passed(g, min)
    BY <2>2, <2>3, Zenon DEF Passed
  <2> HIDE DEF R
  <2> QED BY <2>1, <2>4, PassedExists, Zenon
<1> QED BY <1>1, <1>2, PassedIsWalk, Zenon

\* The cursor is behind every region it has passed.
LEMMA WalkPasses ==
  ASSUME SpaceInv, NEW min \in Nat, NEW c, Walk(c, min), NEW i \in 0 .. Len(regions)
  PROVE  c[i] >= min /\ \A j \in 1 .. i : end(regions[j]) <= c[i]
<1> DEFINE N == Len(regions)
           Q == {n \in 0 .. N : c[n] >= min /\ \A j \in 1 .. n : end(regions[j]) <= c[n]}
<1>1. /\ N \in Nat /\ \A j \in 1 .. N : end(regions[j]) \in Nat
  BY RegionAt, Zenon DEF SpaceInv, TypeOK
<1>2. \A j \in 0 .. N : c[j] \in Nat
  BY Zenon DEF Walk
<1>3. 0 \in Q
  BY <1>1 DEF Walk
<1>4. ASSUME NEW n \in 0 .. N - 1, n \in Q PROVE n + 1 \in Q
  <2>1. n + 1 \in 1 .. N /\ n + 1 \in 0 .. N /\ n \in 0 .. N /\ (n + 1) - 1 = n
    BY <1>1
  <2>2. c[n + 1] >= c[n] /\ c[n + 1] >= end(regions[n + 1])
    BY <2>1, Zenon DEF Walk
  <2>3. c[n + 1] \in Nat /\ c[n] \in Nat
    BY <1>2, <2>1, Zenon
  <2>4. c[n] >= min /\ \A j \in 1 .. n : end(regions[j]) <= c[n]
    BY <1>4, Zenon
  <2>5. ASSUME NEW j \in 1 .. n + 1 PROVE end(regions[j]) <= c[n + 1]
    <3>1. j \in 1 .. N /\ (j = n + 1 \/ j \in 1 .. n)
      BY <1>1
    <3>2. end(regions[j]) \in Nat
      BY <1>1, <3>1, Zenon
    <3> QED BY <2>2, <2>3, <2>4, <3>1, <3>2
  <2>6. c[n + 1] >= min
    BY <2>2, <2>3, <2>4
  <2> QED BY <2>1, <2>5, <2>6, Zenon
<1> HIDE DEF Q
<1>5. \A n \in 0 .. N : n \in Q
  BY <1>1, <1>3, <1>4, UpTo, Zenon
<1> QED BY <1>5, Zenon DEF Q

\* The n addresses from b on are free exactly if they are between regions.
LEMMA FreeIs ==
  ASSUME SpaceInv, NEW b \in Nat, NEW n \in Nat \ {0}
  PROVE  Mapped \cap (b .. b + n - 1) = {}
           <=> \A i \in 1 .. Len(regions) : b + n <= regions[i].base \/ end(regions[i]) <= b
<1>1. \A i \in 1 .. Len(regions) :
        regions[i].base \in Nat /\ end(regions[i]) \in Nat /\ regions[i].base < end(regions[i])
  BY RegionAt, Zenon DEF SpaceInv, TypeOK
<1>2. \A a : a \in Mapped <=> \E i \in 1 .. Len(regions) : a \in RangeOf(regions[i])
  BY SpanIs, Zenon DEF Span, Mapped, SpaceInv, TypeOK
<1>3. ASSUME NEW i \in 1 .. Len(regions)
      PROVE  RangeOf(regions[i]) \cap (b .. b + n - 1) = {}
               <=> b + n <= regions[i].base \/ end(regions[i]) <= b
  <2>1. regions[i].base \in Nat /\ end(regions[i]) \in Nat /\ regions[i].base < end(regions[i])
    BY <1>1, Zenon
  <2> DEFINE lo == regions[i].base
             hi == end(regions[i])
  <2>2. RangeOf(regions[i]) = lo .. hi - 1
    BY Zenon DEF RangeOf
  <2> HIDE DEF lo, hi
  <2>3. lo \in Nat /\ hi \in Nat /\ lo < hi
    BY <2>1, Zenon DEF lo, hi
  <2>4. CASE b + n <= lo \/ hi <= b
    BY <2>2, <2>3, <2>4 DEF lo, hi
  <2>5. CASE lo < b + n /\ b < hi
    <3>1. CASE lo <= b
      <4>1. b \in lo .. hi - 1 /\ b \in b .. b + n - 1
        BY <2>3, <2>5, <3>1
      <4> QED BY <2>2, <2>3, <2>5, <4>1, SMTT(30) DEF lo, hi
    <3>2. CASE b < lo
      <4>1. lo \in lo .. hi - 1 /\ lo \in b .. b + n - 1
        BY <2>3, <2>5, <3>2
      <4> QED BY <2>2, <2>3, <2>5, <4>1, SMTT(30) DEF lo, hi
    <3> QED BY <2>3, <3>1, <3>2
  <2> QED BY <2>3, <2>4, <2>5
<1> QED BY <1>2, <1>3, Zenon

\* The gaps a walk for n addresses may stop at, and where it stops.
Gaps(c, n) == {i \in 1 .. Len(regions) : /\ end(regions[i]) > c[i - 1]
                                         /\ regions[i].base >= c[i - 1] + n}
Stop(c, n) == IF Gaps(c, n) = {} THEN Len(regions) ELSE Min(Gaps(c, n)) - 1

\* The gap where the walk stops is the first that fits.
LEMMA StopIs ==
  ASSUME SpaceInv, NEW min \in Nat, NEW c, Walk(c, min), NEW n \in Nat \ {0}
  PROVE  /\ Stop(c, n) \in 0 .. Len(regions)
         /\ \A i \in 1 .. Stop(c, n) : i \notin Gaps(c, n)
         /\ Stop(c, n) # Len(regions) => Stop(c, n) + 1 \in Gaps(c, n)
<1> DEFINE G == Gaps(c, n)
<1>1. Len(regions) \in Nat /\ G \subseteq 1 .. Len(regions)
  BY RegionAt, Zenon DEF SpaceInv, TypeOK, Gaps
<1>2. CASE G = {}
  BY <1>1, <1>2 DEF Stop
<1>3. CASE G # {}
  <2>1. Min(G) \in G /\ \A y \in G : Min(G) <= y
    BY <1>1, <1>3, LeastElement
  <2>2. Stop(c, n) = Min(G) - 1
    BY <1>3, Zenon DEF Stop
  <2> DEFINE m == Min(G)
  <2> HIDE DEF G, m
  <2>3. m \in 1 .. Len(regions) /\ m \in G /\ Stop(c, n) = m - 1
    BY <1>1, <2>1, <2>2, Zenon DEF m
  <2>4. \A i \in 1 .. m - 1 : i \notin G
    <3>1. \A y \in G : m <= y /\ y \in Nat
      BY <1>1, <2>1 DEF m
    <3> QED BY <1>1, <2>3, <3>1
  <2>5. m - 1 \in 0 .. Len(regions) /\ (m - 1) + 1 = m
    BY <1>1, <2>3
  <2> QED BY <2>3, <2>4, <2>5, Zenon DEF G
<1> QED BY <1>2, <1>3, Zenon

\* Where the walk stops there is room, up to the last address.
LEMMA StopHasRoom ==
  ASSUME SpaceInv, NEW min \in Nat, NEW c, Walk(c, min), NEW n \in Nat \ {0},
         NEW i \in 1 .. Len(regions)
  PROVE  c[Stop(c, n)] + n <= regions[i].base \/ end(regions[i]) <= c[Stop(c, n)]
<1> DEFINE k == Stop(c, n)
<1>0. Len(regions) \in Nat /\ k \in 0 .. Len(regions)
  BY RegionAt, StopIs, Zenon DEF SpaceInv, TypeOK
<1>1. CASE i <= k
  BY <1>0, <1>1, WalkPasses
<1>2. CASE i > k
  <2>1. k + 1 \in Gaps(c, n) /\ k + 1 \in 1 .. Len(regions) /\ (k + 1) - 1 = k
    BY <1>0, <1>2, StopIs
  <2>2. regions[k + 1].base >= c[k] + n
    BY <2>1, Zenon DEF Gaps
  <2>3. /\ regions[k + 1].base \in Nat /\ regions[i].base \in Nat /\ end(regions[k + 1]) \in Nat
        /\ regions[k + 1].base < end(regions[k + 1])
        /\ k + 1 < i => end(regions[k + 1]) <= regions[i].base
    BY <2>1, RegionAt, SMTT(30) DEF SpaceInv, TypeOK
  <2>4. c[k] \in Nat
    BY <1>0, Zenon DEF Walk
  <2> HIDE DEF k
  <2>5. i = k + 1 \/ k + 1 < i
    BY <1>0, <1>2
  <2>6. c[k] + n <= regions[i].base
    <3>1. CASE i = k + 1
      BY <2>2, <2>4, <3>1, Zenon
    <3>2. CASE k + 1 < i
      BY <2>2, <2>3, <2>4, <3>2, SMTT(30)
    <3> QED BY <2>5, <3>1, <3>2, Zenon
  <2> QED BY <2>6, Zenon DEF k
<1> QED BY <1>0, <1>1, <1>2

\* and no free address below it that is at least min.
LEMMA StopIsLowest ==
  ASSUME SpaceInv, NEW min \in Nat, NEW c, Walk(c, min), NEW n \in Nat \ {0},
         NEW b \in Nat, b >= min,
         \A i \in 1 .. Len(regions) : b + n <= regions[i].base \/ end(regions[i]) <= b
  PROVE  c[Stop(c, n)] <= b
<1> DEFINE k == Stop(c, n)
           Q == {i \in 0 .. k : c[i] <= b}
<1>0. /\ Len(regions) \in Nat /\ k \in 0 .. Len(regions)
      /\ \A i \in 1 .. k : i \notin Gaps(c, n)
      /\ \A i \in 0 .. Len(regions) : c[i] \in Nat
  BY RegionAt, StopIs, SMTT(30) DEF SpaceInv, TypeOK, Walk
<1> HIDE DEF k
<1>1. 0 \in Q
  BY <1>0 DEF Walk
<1>2. ASSUME NEW i \in 0 .. k - 1, i \in Q PROVE i + 1 \in Q
  <2>1. /\ i + 1 \in 1 .. Len(regions) /\ i + 1 \in 1 .. k /\ i \in 0 .. Len(regions)
        /\ (i + 1) - 1 = i /\ i + 1 \in 0 .. k /\ i + 1 \in 0 .. Len(regions)
    BY <1>0
  <2>2. c[i] <= b /\ c[i] \in Nat /\ c[i + 1] \in Nat
    BY <1>0, <1>2, <2>1, Zenon
  <2>3. c[i + 1] >= c[i] /\ (c[i + 1] = c[i] \/ c[i + 1] = end(regions[i + 1]))
    BY <2>1, Zenon DEF Walk
  <2>4. ~ (end(regions[i + 1]) > c[i] /\ regions[i + 1].base >= c[i] + n)
    BY <1>0, <2>1, Zenon DEF Gaps
  <2>5. b + n <= regions[i + 1].base \/ end(regions[i + 1]) <= b
    BY <2>1, Zenon
  <2>6. regions[i + 1].base \in Nat /\ end(regions[i + 1]) \in Nat
    BY <2>1, RegionAt, Zenon DEF SpaceInv, TypeOK
  <2>7. c[i + 1] <= b
    BY <2>2, <2>3, <2>4, <2>5, <2>6, SMTT(30)
  <2> QED BY <2>1, <2>7, Zenon
<1> HIDE DEF Q
<1>3. \A i \in 0 .. k : i \in Q
  <2>1. k \in Nat
    BY <1>0
  <2> QED BY <1>1, <1>2, <2>1, UpTo, Zenon
<1>4. k \in 0 .. k
  BY <1>0
<1> QED BY <1>3, <1>4, Zenon DEF Q, k

\* The lowest free address at or above min, or None.
Lowest(n, min) ==
  LET free == {b \in min .. U64Max - n : Mapped \cap (b .. b + n - 1) = {}}
  IN  IF free = {} THEN None ELSE Min(free)

\* So the walk stops at the lowest free address.
LEMMA StopIsExact ==
  ASSUME SpaceInv, NEW min \in Nat, NEW c, Walk(c, min), NEW n \in Nat \ {0}
  PROVE  Lowest(n, min) = IF c[Stop(c, n)] + n <= U64Max THEN c[Stop(c, n)] ELSE None
<1> DEFINE f == c[Stop(c, n)]
           free == {b \in min .. U64Max - n : Mapped \cap (b .. b + n - 1) = {}}
<1>1. f \in Nat /\ f >= min
  BY StopIs, WalkPasses, Zenon DEF Walk
<1>2. Mapped \cap (f .. f + n - 1) = {}
  BY <1>1, StopHasRoom, FreeIs, Zenon
<1>3. ASSUME NEW b \in free PROVE f <= b /\ b \in Nat /\ b + n <= U64Max
  <2>1. b \in Nat /\ b >= min /\ b + n <= U64Max
    BY MemoryAssumption
  <2>2. \A i \in 1 .. Len(regions) : b + n <= regions[i].base \/ end(regions[i]) <= b
    BY <2>1, FreeIs, Zenon
  <2> QED BY <2>1, <2>2, StopIsLowest, Zenon
<1> HIDE DEF f
<1>4. CASE f + n <= U64Max
  <2>1. f \in free
    BY <1>1, <1>2, <1>4, MemoryAssumption
  <2>2. free \subseteq Nat
    BY <1>3, Zenon
  <2>3. Min(free) \in free /\ \A y \in free : Min(free) <= y
    BY <2>1, <2>2, LeastElement, Zenon
  <2>4. Lowest(n, min) = Min(free)
    BY <2>1, Zenon DEF Lowest
  <2> DEFINE m == Min(free)
  <2> HIDE DEF free, m
  <2>5. m = f
    <3>1. m \in Nat /\ m <= f /\ f <= m
      BY <1>3, <2>1, <2>2, <2>3, Zenon DEF m
    <3> QED BY <1>1, <3>1
  <2> QED BY <1>4, <2>4, <2>5, Zenon DEF f, m
<1>5. CASE ~ (f + n <= U64Max)
  <2>1. free = {}
    BY <1>1, <1>3, <1>5, MemoryAssumption
  <2> QED BY <1>5, <2>1, Zenon DEF Lowest, f
<1> QED BY <1>4, <1>5, Zenon

\* Both searches stop there.
LEMMA FindFreeIsExact ==
  ASSUME SpaceInv, NEW min \in Nat, NEW n \in Nat \ {0}
  PROVE  /\ find_free_range(n, min) = Lowest(n, min)
         /\ Regions!find_free_range(n, min) = Lowest(n, min)
<1>0. /\ DOMAIN regions = 1 .. Len(regions) /\ Len(regions) \in Nat
      /\ \A i \in 1 .. Len(regions) : regions[i].base \in Nat
  BY RegionAt, Zenon DEF SpaceInv, TypeOK
<1>1. find_free_range(n, min) = Lowest(n, min)
  <2> DEFINE c == cursor(min)
             fits == {i \in DOMAIN regions :
                        /\ end(regions[i]) > c[i - 1]
                        /\ regions[i].base >= c[i - 1]
                        /\ regions[i].base - c[i - 1] >= n}
  <2>1. Walk(c, min)
    BY CursorIs, Zenon
  <2>2. find_free_range(n, min) =
          LET found == c[IF fits = {} THEN Len(regions) ELSE Min(fits) - 1]
          IN  IF n # 0 /\ found + n <= U64Max THEN found ELSE None
    BY Zenon DEF find_free_range
  <2> HIDE DEF c
  <2>3. fits = Gaps(c, n)
    <3>1. \A i \in 1 .. Len(regions) : c[i - 1] \in Nat
      <4> HIDE DEF fits
      <4>1. \A i \in 1 .. Len(regions) : i - 1 \in 0 .. Len(regions)
        BY <1>0
      <4>2. \A i \in 0 .. Len(regions) : c[i] \in Nat
        BY <2>1, Zenon DEF Walk
      <4> QED BY <4>1, <4>2, Zenon
    <3>2. ASSUME NEW x \in Nat, NEW y \in Nat
          PROVE  (x >= y /\ x - y >= n) <=> x >= y + n
      OBVIOUS
    <3>3. \A i \in 1 .. Len(regions) :
            (regions[i].base >= c[i - 1] /\ regions[i].base - c[i - 1] >= n)
               <=> regions[i].base >= c[i - 1] + n
      BY <1>0, <3>1, <3>2, Zenon
    <3> QED BY <1>0, <3>3, Zenon DEF Gaps
  <2> HIDE DEF fits
  <2>4. find_free_range(n, min) = IF c[Stop(c, n)] + n <= U64Max THEN c[Stop(c, n)] ELSE None
    BY <2>2, <2>3, Zenon DEF Stop
  <2> QED BY <2>1, <2>4, StopIsExact, Zenon
<1>2. Regions!find_free_range(n, min) = Lowest(n, min)
  <2> DEFINE c == Regions!cursor(min)
             fits == {i \in DOMAIN regions :
                        /\ Regions!end(regions[i]) > c[i - 1]
                        /\ regions[i].base >= c[i - 1] + n}
  <2>1. Walk(c, min)
    BY CursorIs, Zenon
  <2>2. Regions!find_free_range(n, min) =
          LET found == c[IF fits = {} THEN Len(regions) ELSE Regions!Min(fits) - 1]
          IN  IF n # 0 /\ found + n <= U64Max THEN found ELSE None
    BY Zenon DEF Regions!find_free_range
  <2> HIDE DEF c
  <2>3. /\ fits = Gaps(c, n)
        /\ \A S : Regions!Min(S) = Min(S)
    BY <1>0, Zenon DEF Gaps, Regions!end, end, Regions!Min, Min
  <2> HIDE DEF fits
  <2>4. Regions!find_free_range(n, min) = IF c[Stop(c, n)] + n <= U64Max THEN c[Stop(c, n)] ELSE None
    BY <2>2, <2>3, Zenon DEF Stop
  <2> QED BY <2>1, <2>4, StopIsExact
<1> QED BY <1>1, <1>2, Zenon

\* region_idx finds the region that contains an address.
LEMMA LookupIs ==
  ASSUME SpaceInv, NEW a \in Nat, NEW k,
         k = partition_point(regions, {j \in DOMAIN regions : regions[j].base <= a})
  PROVE  /\ k \in 0 .. Len(regions)
         /\ \A i \in 1 .. Len(regions) : a \in RangeOf(regions[i]) => i = k
<1> DEFINE P == {j \in DOMAIN regions : regions[j].base <= a}
<1>1. k \in 0 .. Len(regions) /\ P = 1 .. k
  BY RegionsBelow, Zenon DEF SpaceInv, TypeOK
<1>2. ASSUME NEW i \in 1 .. Len(regions), a \in RangeOf(regions[i]) PROVE i = k
  <2>1. /\ DOMAIN regions = 1 .. Len(regions) /\ Len(regions) \in Nat
        /\ regions[i].base \in Nat /\ end(regions[i]) \in Nat
    BY RegionAt, Zenon DEF SpaceInv, TypeOK
  <2>2. regions[i].base <= a /\ a < end(regions[i])
    BY <1>2, <2>1 DEF RangeOf
  <2>3. i \in P
    BY <2>1, <2>2, Zenon
  <2>a. i \in 1 .. k
    BY <1>1, <2>3, Zenon
  <2>b. i <= k /\ k \in 1 .. Len(regions) /\ k \in 1 .. k
    BY <1>1, <2>1, <2>a
  <2>4. i <= k /\ k \in 1 .. Len(regions) /\ k \in P
    BY <1>1, <2>b, Zenon
  <2>5. regions[k].base <= a /\ regions[k].base \in Nat
    BY <2>4, RegionAt, Zenon DEF SpaceInv, TypeOK
  <2>6. i < k => end(regions[i]) <= regions[k].base
    BY <2>4, RegionAt, Zenon DEF SpaceInv, TypeOK
  <2> QED BY <2>1, <2>2, <2>4, <2>5, <2>6
<1> QED BY <1>1, <1>2, Zenon

\* It finds that one, or none if the address is not mapped.
LEMMA RegionIdxIs ==
  ASSUME SpaceInv, NEW a \in Nat
  PROVE  /\ region_idx(a) \in 0 .. Len(regions)
         /\ region_idx(a) # 0 => a \in RangeOf(regions[region_idx(a)])
         /\ region_idx(a) = 0 => a \notin Mapped
         /\ \A i \in 1 .. Len(regions) : a \in RangeOf(regions[i]) => i = region_idx(a)
<1> DEFINE k == partition_point(regions, {j \in DOMAIN regions : regions[j].base <= a})
<1>1. /\ k \in 0 .. Len(regions)
      /\ \A i \in 1 .. Len(regions) : a \in RangeOf(regions[i]) => i = k
  BY LookupIs, Zenon
<1>2. region_idx(a) = IF k # 0 /\ a \in RangeOf(regions[k]) THEN k ELSE 0
  BY Zenon DEF region_idx
<1> HIDE DEF k
<1>3. 0 \in 0 .. Len(regions) /\ \A i \in 1 .. Len(regions) : i # 0
  BY RegionAt DEF SpaceInv, TypeOK
<1>4. a \in Mapped <=> \E i \in 1 .. Len(regions) : a \in RangeOf(regions[i])
  BY SpanIs, Zenon DEF Span, Mapped, SpaceInv, TypeOK
<1> QED BY <1>1, <1>2, <1>3, <1>4, Zenon

-----------------------------------------------------------------------------
(* validate_range.                                                         *)

\* The two modules look an address up alike.
LEMMA TranslateIs ==
  ASSUME SpaceInv, NEW a \in Nat
  PROVE  /\ Regions!translate(a) = region_idx(a)
         /\ \A i \in DOMAIN regions : Regions!contains(regions[i], a) <=> a \in RangeOf(regions[i])
<1>1. DOMAIN regions = 1 .. Len(regions)
  BY RegionAt, Zenon DEF SpaceInv, TypeOK
<1>2. ASSUME NEW i \in DOMAIN regions
      PROVE  Regions!contains(regions[i], a) <=> a \in RangeOf(regions[i])
  <2>1. regions[i].base \in Nat /\ end(regions[i]) \in Nat /\ Regions!end(regions[i]) = end(regions[i])
    BY <1>1, RegionAt, Zenon DEF SpaceInv, TypeOK, Regions!end, end
  <2> QED BY <2>1 DEF Regions!contains, RangeOf
<1> DEFINE P == {j \in DOMAIN regions : regions[j].base <= a}
           k == partition_point(regions, P)
<1>3. Regions!partition_point(regions, P) = k
  BY Zenon DEF Regions!partition_point, partition_point, Regions!Min, Min
<1>4. k \in 0 .. Len(regions) /\ Len(regions) \in Nat
  <2>1. Len(regions) \in Nat
    BY RegionAt, Zenon DEF SpaceInv, TypeOK
  <2> QED BY <2>1, LookupIs, Zenon
<1>5. Regions!translate(a) = IF k # 0 /\ Regions!contains(regions[k], a) THEN k ELSE 0
  BY <1>3, Zenon DEF Regions!translate
<1>6. region_idx(a) = IF k # 0 /\ a \in RangeOf(regions[k]) THEN k ELSE 0
  BY Zenon DEF region_idx
<1> HIDE DEF k
<1>7. k # 0 => k \in DOMAIN regions
  BY <1>1, <1>4
<1>8. Regions!translate(a) = region_idx(a)
  <2>1. CASE k = 0
    BY <1>5, <1>6, <2>1, Zenon
  <2>2. CASE k # 0
    <3>1. Regions!contains(regions[k], a) <=> a \in RangeOf(regions[k])
      BY <1>2, <1>7, <2>2, Zenon
    <3>2. CASE a \in RangeOf(regions[k])
      BY <1>5, <1>6, <2>2, <3>1, <3>2, Zenon
    <3>3. CASE a \notin RangeOf(regions[k])
      BY <1>5, <1>6, <2>2, <3>1, <3>3, Zenon
    <3> QED BY <3>2, <3>3, Zenon
  <2> QED BY <2>1, <2>2, Zenon
<1> QED BY <1>2, <1>8, Zenon

\* The bytes of x .. to - 1 that are not to be had, and what they mean.
Bad(x, to, w) ==
  {a \in x .. to - 1 :
     ~ \E i \in DOMAIN regions : a \in RangeOf(regions[i]) /\ (w => regions[i].writable)}
Verdict(x, to, w) ==
  IF Bad(x, to, w) = {} THEN "ok"
  ELSE IF Min(Bad(x, to, w)) \in Mapped THEN "NotWritable" ELSE "Unmapped"

\* One turn of the walk: the answer from x on, by those behind x.
Turn(f, x, to, w) ==
  IF x >= to THEN "ok"
  ELSE IF region_idx(x) = 0 THEN "Unmapped"
  ELSE IF w /\ ~ regions[region_idx(x)].writable THEN "NotWritable"
  ELSE f[end(regions[region_idx(x)])]

\* The verdict on a range takes one turn of the walk.
LEMMA VerdictTurns ==
  ASSUME SpaceInv, NEW x \in Nat, NEW to \in Nat, NEW w \in BOOLEAN,
         NEW f, \A y \in Nat : x < y /\ y <= U64Max => f[y] = Verdict(y, to, w)
  PROVE  Turn(f, x, to, w) = Verdict(x, to, w)
<1> DEFINE k == region_idx(x)
<1>1. /\ k \in 0 .. Len(regions)
      /\ k # 0 => x \in RangeOf(regions[k])
      /\ k = 0 => x \notin Mapped
      /\ \A i \in 1 .. Len(regions) : x \in RangeOf(regions[i]) => i = k
  BY RegionIdxIs, Zenon
<1>2. DOMAIN regions = 1 .. Len(regions) /\ Len(regions) \in Nat
  BY RegionAt, Zenon DEF SpaceInv, TypeOK
<1>3. \A a : a \in Mapped <=> \E i \in 1 .. Len(regions) : a \in RangeOf(regions[i])
  BY SpanIs, Zenon DEF Span, Mapped, SpaceInv, TypeOK
<1>4. CASE x >= to
  <2>1. Bad(x, to, w) = {}
    BY <1>4 DEF Bad
  <2> QED BY <1>4, <2>1, Zenon DEF Turn, Verdict
<1>5. ASSUME x < to, x \in Bad(x, to, w) PROVE Bad(x, to, w) # {} /\ Min(Bad(x, to, w)) = x
  <2> DEFINE m == Min(Bad(x, to, w))
  <2>1. Bad(x, to, w) \subseteq Nat /\ \A a \in Bad(x, to, w) : x <= a
    BY DEF Bad
  <2>2. m \in Bad(x, to, w) /\ \A a \in Bad(x, to, w) : m <= a
    BY <1>5, <2>1, LeastElement, Zenon
  <2> HIDE DEF m
  <2>3. m \in Nat /\ x <= m /\ m <= x
    BY <1>5, <2>1, <2>2, Zenon
  <2> QED BY <1>5, <2>3 DEF m
<1>6. CASE x < to /\ k = 0
  <2>1. x \in Bad(x, to, w)
    BY <1>1, <1>2, <1>3, <1>6 DEF Bad
  <2>2. Verdict(x, to, w) = "Unmapped"
    BY <1>1, <1>5, <1>6, <2>1, Zenon DEF Verdict
  <2> QED BY <1>6, <2>2 DEF Turn
<1>7. CASE x < to /\ k # 0 /\ w /\ ~ regions[k].writable
  <2>1. x \in Bad(x, to, w)
    BY <1>1, <1>2, <1>7 DEF Bad
  <2>2. x \in Mapped
    BY <1>1, <1>2, <1>3, <1>7
  <2>3. Verdict(x, to, w) = "NotWritable"
    BY <1>5, <1>7, <2>1, <2>2, Zenon DEF Verdict
  <2>4. ~ (x >= to)
    BY <1>7
  <2> QED BY <1>7, <2>3, <2>4, Zenon DEF Turn
<1>8. CASE x < to /\ k # 0 /\ ~ (w /\ ~ regions[k].writable)
  <2> DEFINE e == end(regions[k])
  <2>1. k \in 1 .. Len(regions) /\ (w => regions[k].writable)
    BY <1>1, <1>2, <1>8
  <2>2. e \in Nat /\ e <= U64Max /\ regions[k].base \in Nat
    BY <2>1, RegionAt, Zenon DEF SpaceInv, TypeOK
  <2>3. regions[k].base <= x /\ x < e
    BY <1>1, <1>8, <2>2 DEF RangeOf
  <2>4. \A a \in x .. e - 1 : a \in RangeOf(regions[k])
    BY <2>2, <2>3 DEF RangeOf
  <2>5. Bad(x, to, w) = Bad(e, to, w)
    <3> HIDE DEF e, k
    <3>1. \A a \in x .. to - 1 : a \in e .. to - 1 \/ a \in x .. e - 1
      BY <2>2, <2>3
    <3>2. \A a \in e .. to - 1 : a \in x .. to - 1
      BY <2>2, <2>3
    <3>3. \A a \in x .. e - 1 : \E i \in DOMAIN regions : a \in RangeOf(regions[i]) /\ (w => regions[i].writable)
      BY <1>2, <2>1, <2>4, Zenon
    <3> QED BY <3>1, <3>2, <3>3, Zenon DEF Bad
  <2>6. Verdict(x, to, w) = Verdict(e, to, w)
    BY <2>5, Zenon DEF Verdict
  <2>7. f[e] = Verdict(e, to, w)
    BY <2>2, <2>3, Zenon
  <2>8. Turn(f, x, to, w) = f[e]
    BY <1>8 DEF Turn
  <2> QED BY <2>6, <2>7, <2>8, Zenon
<1> QED BY <1>4, <1>6, <1>7, <1>8

IsAnswer(f, addr, to, w) == f = [x \in addr .. U64Max |-> Turn(f, x, to, w)]

\* The recursion of the walk has a solution,
LEMMA AnswerExists ==
  ASSUME SpaceInv, NEW addr \in Nat, NEW to \in Nat, NEW w \in BOOLEAN
  PROVE  \E f : IsAnswer(f, addr, to, w)
<1> DEFINE f == [x \in addr .. U64Max |-> Verdict(x, to, w)]
<1>1. ASSUME NEW x \in addr .. U64Max PROVE Turn(f, x, to, w) = Verdict(x, to, w)
  <2>1. x \in Nat /\ \A y \in Nat : x < y /\ y <= U64Max => y \in addr .. U64Max
    BY MemoryAssumption
  <2>2. \A y \in addr .. U64Max : f[y] = Verdict(y, to, w)
    BY Zenon
  <2> HIDE DEF f
  <2> QED BY <2>1, <2>2, VerdictTurns, Zenon
<1>2. f = [x \in addr .. U64Max |-> Turn(f, x, to, w)]
  BY <1>1, Zenon
<1> QED BY <1>2, Zenon DEF IsAnswer

\* every solution gives the verdict at the start of the range,
LEMMA AnswerIs ==
  ASSUME SpaceInv, NEW addr \in 0 .. U64Max, NEW to \in 0 .. U64Max, NEW w \in BOOLEAN,
         NEW f, IsAnswer(f, addr, to, w)
  PROVE  f[addr] = Verdict(addr, to, w)
<1> DEFINE N == U64Max - addr
           Q == {d \in 0 .. N : \A x \in U64Max - d .. U64Max : f[x] = Verdict(x, to, w)}
<1>0. N \in Nat /\ addr \in Nat /\ to \in Nat /\ U64Max \in Nat
  BY MemoryAssumption
<1>1. ASSUME NEW x \in addr .. U64Max PROVE f[x] = Turn(f, x, to, w)
  BY Zenon DEF IsAnswer
<1>2. 0 \in Q
  <2>1. ASSUME NEW x \in U64Max - 0 .. U64Max PROVE f[x] = Verdict(x, to, w)
    <3>1. x = U64Max /\ x \in addr .. U64Max /\ x \in Nat
      BY <1>0
    <3>2. \A y \in Nat : x < y /\ y <= U64Max => f[y] = Verdict(y, to, w)
      BY <1>0, <3>1
    <3> QED BY <1>0, <1>1, <3>1, <3>2, VerdictTurns
  <2> QED BY <1>0, <2>1
<1>3. ASSUME NEW d \in 0 .. N - 1, d \in Q PROVE d + 1 \in Q
  <2>1. ASSUME NEW x \in U64Max - (d + 1) .. U64Max PROVE f[x] = Verdict(x, to, w)
    <3>1. x \in addr .. U64Max /\ x \in Nat
      BY <1>0
    <3>2. \A y \in Nat : x < y /\ y <= U64Max => y \in U64Max - d .. U64Max
      BY <1>0
    <3>3. \A y \in Nat : x < y /\ y <= U64Max => f[y] = Verdict(y, to, w)
      BY <1>3, <3>2, Zenon
    <3> QED BY <1>0, <1>1, <3>1, <3>3, VerdictTurns
  <2>2. d + 1 \in 0 .. N
    BY <1>0
  <2> QED BY <2>1, <2>2, Zenon
<1>4. N \in Q
  <2> HIDE DEF Q, N
  <2>1. \A n \in 0 .. N : n \in Q
    BY <1>0, <1>2, <1>3, UpTo, Zenon
  <2> QED BY <1>0, <2>1
<1>5. addr \in U64Max - N .. U64Max
  BY <1>0
<1> QED BY <1>4, <1>5, Zenon

\* and walk_regions is a solution.
LEMMA WalkRegionsIs ==
  ASSUME SpaceInv, NEW addr \in 0 .. U64Max, NEW to \in 0 .. U64Max, NEW w \in BOOLEAN
  PROVE  Regions!walk_regions(addr, to, w)[addr] = Verdict(addr, to, w)
<1>0. addr \in Nat /\ to \in Nat
  BY MemoryAssumption
<1> DEFINE Body(f, x) == IF x >= to THEN "ok"
                         ELSE IF Regions!translate(x) = 0 THEN "Unmapped"
                         ELSE IF w /\ ~ regions[Regions!translate(x)].writable THEN "NotWritable"
                         ELSE f[Regions!end(regions[Regions!translate(x)])]
<1>1. ASSUME NEW f, NEW x \in addr .. U64Max PROVE Body(f, x) = Turn(f, x, to, w)
  <2>1. x \in Nat
    BY <1>0
  <2>2. Regions!translate(x) = region_idx(x)
    BY <2>1, TranslateIs, Zenon
  <2>3. Regions!end(regions[region_idx(x)]) = end(regions[region_idx(x)])
    BY Zenon DEF Regions!end, end
  <2> QED BY <2>2, <2>3, Zenon DEF Turn
<1>2. Regions!walk_regions(addr, to, w) = CHOOSE f : f = [x \in addr .. U64Max |-> Body(f, x)]
  BY Zenon DEF Regions!walk_regions
<1> HIDE DEF Body
<1>3. \A f : f = [x \in addr .. U64Max |-> Body(f, x)] <=> IsAnswer(f, addr, to, w)
  <2> SUFFICES ASSUME NEW f
               PROVE  f = [x \in addr .. U64Max |-> Body(f, x)] <=> IsAnswer(f, addr, to, w)
    BY Zenon
  <2>1. [x \in addr .. U64Max |-> Body(f, x)] = [x \in addr .. U64Max |-> Turn(f, x, to, w)]
    BY <1>1, Zenon
  <2> QED BY <2>1, Zenon DEF IsAnswer
<1>4. IsAnswer(Regions!walk_regions(addr, to, w), addr, to, w)
  <2>1. \E f : f = [x \in addr .. U64Max |-> Body(f, x)]
    BY <1>0, <1>3, AnswerExists, Zenon
  <2> QED BY <1>2, <1>3, <2>1, Zenon
<1> QED BY <1>4, AnswerIs, Zenon

\* validate_range is exact.
LEMMA RangeIsExact ==
  ASSUME SpaceInv
  PROVE  Regions!RangeExact
<1> SUFFICES ASSUME NEW addr \in 0 .. U64Max - 1, NEW len \in 1 .. U64Max, NEW w \in BOOLEAN
             PROVE  LET bad == {a \in addr .. addr + len - 1 :
                                  ~ \E i \in DOMAIN regions :
                                      /\ Regions!contains(regions[i], a)
                                      /\ w => regions[i].writable}
                        first == Regions!Min(bad)
                    IN  Regions!validate_range(addr, len, w) =
                          IF addr + len > U64Max THEN "Overflow"
                          ELSE IF bad = {} THEN "ok"
                          ELSE IF \E i \in DOMAIN regions : Regions!contains(regions[i], first)
                               THEN "NotWritable"
                          ELSE "Unmapped"
  BY Zenon DEF Regions!RangeExact
<1> DEFINE bad == {a \in addr .. addr + len - 1 :
                     ~ \E i \in DOMAIN regions :
                         Regions!contains(regions[i], a) /\ (w => regions[i].writable)}
           to == addr + len
<1>0. addr \in Nat /\ len \in Nat /\ len # 0 /\ addr \in 0 .. U64Max /\ to \in Nat /\ U64Max \in Nat
  BY MemoryAssumption
<1>1. bad = Bad(addr, to, w)
  <2>1. \A a \in addr .. to - 1 : a \in Nat
    BY <1>0
  <2> QED BY <2>1, TranslateIs DEF Bad
<1>2. CASE to > U64Max
  BY <1>0, <1>2, Zenon DEF Regions!validate_range
<1>3. CASE ~ (to > U64Max)
  <2>1. to \in 0 .. U64Max
    BY <1>0, <1>3
  <2>2. Regions!validate_range(addr, len, w) = Verdict(addr, to, w)
    BY <1>0, <1>3, <2>1, WalkRegionsIs, Zenon DEF Regions!validate_range
  <2>3. CASE bad = {}
    BY <1>1, <1>3, <2>2, <2>3, Zenon DEF Verdict
  <2>4. CASE bad # {}
    <3> DEFINE m == Min(bad)
    <3>1. Regions!Min(bad) = m
      BY Zenon DEF Min, Regions!Min
    <3>2. bad \subseteq Nat
      BY <1>0
    <3>3. m \in Nat
      BY <2>4, <3>2, LeastElement, Zenon
    <3> HIDE DEF m, bad
    <3>4. (\E i \in DOMAIN regions : Regions!contains(regions[i], m)) <=> m \in Mapped
      <4>1. m \in Mapped <=> \E i \in 1 .. Len(regions) : m \in RangeOf(regions[i])
        BY SpanIs, Zenon DEF Span, Mapped, SpaceInv, TypeOK
      <4>2. DOMAIN regions = 1 .. Len(regions)
        BY RegionAt, Zenon DEF SpaceInv, TypeOK
      <4> QED BY <3>3, <4>1, <4>2, TranslateIs, Zenon
    <3>5. Verdict(addr, to, w) = IF m \in Mapped THEN "NotWritable" ELSE "Unmapped"
      BY <1>1, <2>4, Zenon DEF Verdict, m
    <3> QED BY <1>3, <2>2, <2>4, <3>1, <3>4, <3>5, Zenon DEF bad
  <2> QED BY <2>3, <2>4, Zenon
<1> QED BY <1>2, <1>3, Zenon

\* The three searches at once.
LEMMA SearchesAreExact ==
  ASSUME SpaceInv
  PROVE  QueriesExact
<1>1. ASSUME NEW a \in Addr PROVE region_idx(a) # 0 <=> a \in Mapped
  <2>1. a \in Nat
    BY DEF Addr
  <2>2. a \in Mapped <=> \E i \in 1 .. Len(regions) : a \in RangeOf(regions[i])
    BY SpanIs, Zenon DEF Span, Mapped, SpaceInv, TypeOK
  <2>3. Len(regions) \in Nat
    BY RegionAt, Zenon DEF SpaceInv, TypeOK
  <2>4. region_idx(a) # 0 => region_idx(a) \in 1 .. Len(regions)
    BY <2>1, <2>3, RegionIdxIs
  <2> QED BY <2>1, <2>2, <2>4, RegionIdxIs, Zenon
<1>2. ASSUME NEW n \in Lens \ {0}
      PROVE  LET free == {b \in MinAddr .. U64Max - n : Mapped \cap (b .. b + n - 1) = {}}
                 lowest == IF free = {} THEN None ELSE Min(free)
             IN  /\ find_free_range(n, MinAddr) = lowest
                 /\ Regions!find_free_range(n, MinAddr) = lowest
  <2>1. n \in Nat \ {0} /\ MinAddr \in Nat
    BY MemoryAssumption, Zenon
  <2> QED BY <2>1, FindFreeIsExact, Zenon DEF Lowest
<1> QED BY <1>1, <1>2, RangeIsExact, Zenon DEF QueriesExact

-----------------------------------------------------------------------------
(* The calls keep the list sorted.                                         *)

\* map inserts a region where nothing is.
LEMMA MapStep ==
  ASSUME SpaceInv, NEW base \in Nat, NEW len \in Nat, NEW w \in BOOLEAN,
         CanMap(base, len), Map(base, len, w)
  PROVE  /\ regions' \in Seq(Region) /\ WellFormed(regions')
         /\ Range(regions') = Range(regions) \cup {[base |-> base, len |-> len, writable |-> w]}
         /\ bytes' \in [Addr -> {0, 1}]
<1> DEFINE r == [base |-> base, len |-> len, writable |-> w]
           P == {i \in DOMAIN regions : regions[i].base < base}
           k == partition_point(regions, P)
<1>0. regions \in Seq(Region) /\ WellFormed(regions) /\ bytes \in [Addr -> {0, 1}]
  BY Zenon DEF SpaceInv, TypeOK
<1>1. r \in Region /\ end(r) = base + len /\ end(r) <= U64Max /\ len > 0
  BY MemoryAssumption DEF CanMap, Region, Addr, end
<1>2. k \in 0 .. Len(regions) /\ P = 1 .. k
  BY <1>0, RegionsBelow
<1>3. /\ DOMAIN regions = 1 .. Len(regions) /\ Len(regions) \in Nat
      /\ \A i \in 1 .. Len(regions) :
           /\ regions[i].base \in Nat /\ end(regions[i]) \in Nat
           /\ regions[i].base < end(regions[i])
           /\ ~ (regions[i].base < base + len /\ base < end(regions[i]))
  BY <1>0, RegionAt, Zenon DEF CanMap
<1> HIDE DEF k, P
<1>4. ASSUME NEW i \in 1 .. k PROVE end(regions[i]) <= r.base
  <2>1. i \in 1 .. Len(regions) /\ regions[i].base < base
    BY <1>2, <1>3, Zenon DEF P
  <2> QED BY <1>1, <1>3, <2>1, SMTT(30)
<1>5. ASSUME NEW i \in k + 1 .. Len(regions) PROVE end(r) <= regions[i].base
  <2>1. i \in 1 .. Len(regions) /\ ~ (regions[i].base < base)
    BY <1>2, <1>3 DEF P
  <2> QED BY <1>1, <1>3, <2>1, SMTT(30)
<1>6. regions' = Insert(regions, k, r)
  BY Zenon DEF Map, k, P
<1> HIDE DEF r
<1>7. regions' \in Seq(Region) /\ WellFormed(regions') /\ Range(regions') = Range(regions) \cup {r}
  BY <1>0, <1>1, <1>2, <1>4, <1>5, <1>6, Inserted, Zenon
<1>8. bytes' \in [Addr -> {0, 1}]
  BY <1>0, Zenon DEF Map, Zeroed
<1> QED BY <1>7, <1>8, Zenon DEF r

\* munmap removes the region at base.
LEMMA UnmapStep ==
  ASSUME SpaceInv, NEW base, position(base) # 0, Unmap(base)
  PROVE  /\ regions' \in Seq(Region) /\ WellFormed(regions')
         /\ Range(regions') = Range(regions) \ {regions[position(base)]}
<1>1. position(base) \in 1 .. Len(regions)
  BY PositionIs, Zenon
<1> QED BY <1>1, Removed, Zenon DEF Unmap, SpaceInv, TypeOK

\* resize changes its length,
LEMMA ResizeStep ==
  ASSUME SpaceInv, NEW base \in Nat, NEW size \in Nat,
         CanResize(base, size), Resize(base, size)
  PROVE  LET old == regions[position(base)]
         IN  /\ position(base) \in 1 .. Len(regions) /\ old.base = base
             /\ regions' \in Seq(Region) /\ WellFormed(regions')
             /\ Range(regions') = (Range(regions) \ {old}) \cup {[old EXCEPT !.len = size]}
             /\ bytes' \in [Addr -> {0, 1}]
<1> DEFINE i == position(base)
           old == regions[i]
           r == [old EXCEPT !.len = size]
<1>0. regions \in Seq(Region) /\ WellFormed(regions) /\ bytes \in [Addr -> {0, 1}]
  BY Zenon DEF SpaceInv, TypeOK
<1>1. i \in 1 .. Len(regions) /\ old.base = base
  BY PositionIs, Zenon DEF CanResize
<1>2. old \in Region
  BY <1>0, <1>1, RegionAt, Zenon
<1>3. size > 0 /\ base + size <= U64Max
  BY DEF CanResize
<1>4. i # Len(regions) => base + size <= regions[i + 1].base
  BY Zenon DEF CanResize
<1>5. regions' = Replace(regions, i, r) /\ bytes' \in [Addr -> {0, 1}]
  BY <1>0, Zenon DEF Resize, Zeroed, Replace
<1> HIDE DEF i, old
<1>6. r \in Region /\ r.base = base /\ r.len = size
  <2>1. size \in 1 .. U64Max
    BY <1>3, MemoryAssumption
  <2> QED BY <1>1, <1>2, <2>1, Zenon DEF Region
<1>7. end(r) = base + size
  BY <1>6, Zenon DEF end
<1> HIDE DEF r
<1>8. Fits(regions, i, r)
  <2>1. r.base = regions[i].base
    BY <1>1, <1>6, Zenon DEF old
  <2> QED BY <1>3, <1>4, <1>7, <2>1, Zenon DEF Fits
<1>9. /\ regions' \in Seq(Region) /\ WellFormed(regions')
      /\ Range(regions') = (Range(regions) \ {regions[i]}) \cup {r}
  BY <1>0, <1>1, <1>5, <1>6, <1>8, Replaced
<1> QED BY <1>1, <1>5, <1>9, Zenon DEF i, old, r

\* and mprotect its protection.
LEMMA ProtectStep ==
  ASSUME SpaceInv, NEW base, position(base) # 0, NEW w \in BOOLEAN, mprotect(base, w)
  PROVE  LET old == regions[position(base)]
         IN  /\ position(base) \in 1 .. Len(regions) /\ old.base = base
             /\ regions' \in Seq(Region) /\ WellFormed(regions')
             /\ Range(regions') = (Range(regions) \ {old}) \cup {[old EXCEPT !.writable = w]}
<1> DEFINE i == position(base)
           old == regions[i]
           r == [old EXCEPT !.writable = w]
<1>0. regions \in Seq(Region) /\ WellFormed(regions)
  BY Zenon DEF SpaceInv, TypeOK
<1>1. i \in 1 .. Len(regions) /\ old.base = base
  BY PositionIs, Zenon
<1>2. /\ old \in Region /\ end(old) <= U64Max /\ Len(regions) \in Nat
      /\ i # Len(regions) => end(old) <= regions[i + 1].base
  <2>1. Len(regions) \in Nat /\ old \in Region /\ end(old) <= U64Max
    BY <1>0, <1>1, RegionAt, Zenon
  <2>2. i # Len(regions) => i + 1 \in 1 .. Len(regions) /\ i < i + 1
    BY <1>1, <2>1
  <2>3. i # Len(regions) => end(old) <= regions[i + 1].base
    BY <1>0, <1>1, <2>2, RegionAt, Zenon
  <2> QED BY <2>1, <2>3, Zenon
<1>3. regions' = Replace(regions, i, r)
  BY <1>0, Zenon DEF mprotect, Replace
<1> HIDE DEF i, old
<1>4. r \in Region /\ r.base = old.base /\ r.len = old.len
  BY <1>2, Zenon DEF Region
<1>5. end(r) = end(old)
  BY <1>4, Zenon DEF end
<1> HIDE DEF r
<1>6. Fits(regions, i, r)
  <2>1. r.base = regions[i].base
    BY <1>4, Zenon DEF old
  <2> QED BY <1>2, <1>5, <2>1, Zenon DEF Fits
<1>7. /\ regions' \in Seq(Region) /\ WellFormed(regions')
      /\ Range(regions') = (Range(regions) \ {regions[i]}) \cup {r}
  BY <1>0, <1>1, <1>3, <1>4, <1>6, Replaced
<1> QED BY <1>1, <1>7, Zenon DEF i, old, r

\* A free range is one of naturals.
LEMMA LowestIsNat ==
  ASSUME NEW min \in Nat, NEW n \in Nat, Lowest(n, min) # None
  PROVE  Lowest(n, min) \in Nat
<1> DEFINE free == {b \in min .. U64Max - n : Mapped \cap (b .. b + n - 1) = {}}
<1>1. free # {} /\ Lowest(n, min) = Min(free)
  BY Zenon DEF Lowest
<1>2. free \subseteq Nat
  BY MemoryAssumption
<1>3. Min(free) \in free
  BY <1>1, <1>2, LeastElement, Zenon
<1> QED BY <1>1, <1>2, <1>3, Zenon

\* What a call does to the regions.
LEMMA StepKinds ==
  ASSUME SpaceInv, Next
  PROVE  \/ UNCHANGED regions
         \/ \E base \in Nat, len \in Nat, w \in BOOLEAN : CanMap(base, len) /\ Map(base, len, w)
         \/ \E base \in Nat : position(base) # 0 /\ Unmap(base) /\ UNCHANGED bytes
         \/ \E size \in Nat : CanResize(HeapBase, size) /\ Resize(HeapBase, size)
         \/ \E base \in Nat, w \in BOOLEAN : position(base) # 0 /\ mprotect(base, w)
<1>0. HeapBase \in Nat /\ MinAddr \in Nat /\ Hints \subseteq Nat /\ Bases \subseteq Nat /\ Lens \subseteq Nat
  BY MemoryAssumption DEF Addr
<1>1. ASSUME NEW a \in 0 .. U64Max, BrkMoves(a)
      PROVE  \/ UNCHANGED regions
             \/ \E base \in Nat, len \in Nat, w \in BOOLEAN : CanMap(base, len) /\ Map(base, len, w)
             \/ \E base \in Nat : position(base) # 0 /\ Unmap(base) /\ UNCHANGED bytes
             \/ \E size \in Nat : CanResize(HeapBase, size) /\ Resize(HeapBase, size)
  <2>1. a >= HeapBase => a - HeapBase \in Nat
    BY <1>0
  <2>2. a \in HeapBase .. HeapBase + MaxBytes => a >= HeapBase
    BY <1>0, MemoryAssumption
  <2> QED BY <1>0, <1>1, <2>1, <2>2, Zenon DEF BrkMoves
<1>2. ASSUME NEW a \in Hints, NEW n \in Lens, NEW w \in BOOLEAN, MmapHint(a, n, w)
      PROVE  \E base \in Nat, len \in Nat, v \in BOOLEAN : CanMap(base, len) /\ Map(base, len, v)
  BY <1>0, <1>2, Zenon DEF MmapHint
<1>3. ASSUME NEW a \in Hints, NEW n \in Lens, NEW w \in BOOLEAN, MmapAnywhere(a, n, w)
      PROVE  \/ UNCHANGED regions
             \/ \E base \in Nat, len \in Nat, v \in BOOLEAN : CanMap(base, len) /\ Map(base, len, v)
  <2> DEFINE base == find_free_range(n, MinAddr)
  <2>1. n \in Nat \ {0}
    BY <1>0, <1>3, MemoryAssumption DEF MmapAnywhere
  <2>2. base = Lowest(n, MinAddr)
    BY <1>0, <2>1, FindFreeIsExact, Zenon
  <2>3. base # None => base \in Nat
    BY <1>0, <2>1, <2>2, LowestIsNat, Zenon
  <2>4. \/ base # None /\ CanMap(base, n) /\ Map(base, n, w)
        \/ UNCHANGED regions
    BY <1>3, Zenon DEF MmapAnywhere
  <2> HIDE DEF base
  <2> QED BY <2>1, <2>3, <2>4, Zenon
<1>4. ASSUME NEW a \in Bases, munmap(a)
      PROVE  \/ UNCHANGED regions
             \/ \E base \in Nat : position(base) # 0 /\ Unmap(base) /\ UNCHANGED bytes
  BY <1>0, <1>4, Zenon DEF munmap
<1>5. ASSUME NEW a \in Bases, NEW w \in BOOLEAN, mprotect(a, w)
      PROVE  \/ UNCHANGED regions
             \/ \E base \in Nat, v \in BOOLEAN : position(base) # 0 /\ mprotect(base, v)
  <2>1. CASE position(a) # 0
    BY <1>0, <1>5, <2>1, Zenon
  <2>2. CASE position(a) = 0
    BY <1>5, <2>2, Zenon DEF mprotect
  <2> QED BY <2>1, <2>2, Zenon
<1>6. ASSUME \/ \E a \in 0 .. U64Max : BrkFails(a)
             \/ \E a \in Stores : Write(a) \/ JitStore(a)
             \/ \E n \in Lens : MmapRefused(n)
      PROVE  UNCHANGED regions
  BY <1>6, Zenon DEF BrkFails, Write, JitStore, MmapRefused
<1> QED BY <1>1, <1>2, <1>3, <1>4, <1>5, <1>6, Zenon DEF Next

\* The rest of the state.
LEMMA TypesStep ==
  ASSUME SpaceInv, Next
  PROVE  /\ arena' \in BOOLEAN /\ brk' \in HeapBase .. HeapBase + MaxBytes
         /\ ret' \in {"ok", "ENOMEM", "EINVAL"}
         /\ regions' = regions => bytes' \in [Addr -> {0, 1}]
<1> USE DEF SpaceInv, TypeOK
<1>1. ASSUME NEW a \in 0 .. U64Max, BrkFails(a) \/ BrkMoves(a)
      PROVE  /\ arena' = arena /\ brk' \in HeapBase .. HeapBase + MaxBytes /\ ret' = "ok"
             /\ bytes' \in [Addr -> {0, 1}]
  BY <1>1, Zenon DEF BrkFails, BrkMoves, Map, Resize, Zeroed
<1>2. ASSUME NEW a \in Stores, Write(a) \/ JitStore(a)
      PROVE  arena' = arena /\ brk' = brk /\ ret' = ret /\ bytes' \in [Addr -> {0, 1}]
  BY <1>2, Zenon DEF Write, JitStore
<1>3. ASSUME NEW a \in Hints, NEW n \in Lens, NEW w \in BOOLEAN,
             MmapHint(a, n, w) \/ MmapAnywhere(a, n, w)
      PROVE  /\ arena' = arena /\ brk' = brk /\ ret' \in {"ok", "ENOMEM"}
             /\ bytes' \in [Addr -> {0, 1}]
  BY <1>3, Zenon DEF MmapHint, MmapAnywhere, Map, Zeroed
<1>4. ASSUME NEW n \in Lens, MmapRefused(n)
      PROVE  arena' = arena /\ brk' = brk /\ ret' \in {"EINVAL", "ENOMEM"} /\ bytes' = bytes
  BY <1>4, Zenon DEF MmapRefused
<1>5. ASSUME NEW a \in Bases, munmap(a) \/ \E w \in BOOLEAN : mprotect(a, w)
      PROVE  arena' = arena /\ brk' = brk /\ ret' \in {"ok", "EINVAL"} /\ bytes' = bytes
  BY <1>5, Zenon DEF munmap, mprotect
<1> QED BY <1>1, <1>2, <1>3, <1>4, <1>5, Zenon DEF Next

\* Every call leaves the regions sorted, apart and inside the space.
LEMMA SpaceStep ==
  ASSUME SpaceInv, [Next]_vars
  PROVE  SpaceInv'
<1>1. CASE UNCHANGED vars
  BY <1>1, Zenon DEF vars, SpaceInv, TypeOK, WellFormed, Sorted
<1>2. CASE Next
  <2>1. regions' \in Seq(Region) /\ WellFormed(regions') /\ bytes' \in [Addr -> {0, 1}]
    <3>1. CASE UNCHANGED regions
      BY <1>2, <3>1, TypesStep, Zenon DEF SpaceInv, TypeOK
    <3>2. ASSUME NEW base \in Nat, NEW len \in Nat, NEW w \in BOOLEAN,
                 CanMap(base, len), Map(base, len, w)
          PROVE  regions' \in Seq(Region) /\ WellFormed(regions') /\ bytes' \in [Addr -> {0, 1}]
      BY <3>2, MapStep, Zenon
    <3>3. ASSUME NEW base \in Nat, position(base) # 0, Unmap(base), UNCHANGED bytes
          PROVE  regions' \in Seq(Region) /\ WellFormed(regions') /\ bytes' \in [Addr -> {0, 1}]
      BY <3>3, UnmapStep, Zenon DEF SpaceInv, TypeOK
    <3>4. ASSUME NEW size \in Nat, CanResize(HeapBase, size), Resize(HeapBase, size)
          PROVE  regions' \in Seq(Region) /\ WellFormed(regions') /\ bytes' \in [Addr -> {0, 1}]
      <4>1. HeapBase \in Nat
        BY MemoryAssumption DEF Addr
      <4> QED BY <3>4, <4>1, ResizeStep, Zenon
    <3>5. ASSUME NEW base \in Nat, NEW w \in BOOLEAN, position(base) # 0, mprotect(base, w)
          PROVE  regions' \in Seq(Region) /\ WellFormed(regions') /\ bytes' \in [Addr -> {0, 1}]
      <4>1. bytes' = bytes
        BY <3>5, Zenon DEF mprotect
      <4> QED BY <3>5, <4>1, ProtectStep, Zenon DEF SpaceInv, TypeOK
    <3> QED BY <1>2, <3>1, <3>2, <3>3, <3>4, <3>5, StepKinds, Zenon
  <2> QED BY <1>2, <2>1, TypesStep, Zenon DEF SpaceInv, TypeOK
<1> QED BY <1>1, <1>2, Zenon

\* The loaded image is such a list.
LEMMA SpaceInit == Init => SpaceInv
<1> SUFFICES ASSUME Init PROVE SpaceInv
  BY Zenon
<1>1. TypeOK
  BY MemoryAssumption DEF Init, TypeOK, Addr
<1>2. ASSUME NEW i \in DOMAIN Layout PROVE end(Layout[i]) <= U64Max
  <2>1. Layout[i] \in Region
    BY MemoryAssumption, SeqElements, Zenon
  <2>2. /\ Layout[i].base \in Nat /\ end(Layout[i]) \in Nat /\ Layout[i].base < end(Layout[i])
    BY <2>1, MemoryAssumption DEF Region, Addr, end
  <2>3. end(Layout[i]) - 1 \in Layout[i].base .. end(Layout[i]) - 1
    BY <2>2
  <2>4. end(Layout[i]) - 1 \in Addr
    BY <2>3, MemoryAssumption, Zenon
  <2> QED BY <2>2, <2>4, MemoryAssumption DEF Addr
<1> QED BY <1>1, <1>2, MemoryAssumption, Zenon DEF Init, SpaceInv, WellFormed

\* Whatever calls are made, the list of regions stays sorted by base, no two of
\* its regions overlap and none reaches past u64::MAX (insert_region, unmap,
\* resize, mprotect).
THEOREM SpaceCorrect == Spec => []SpaceInv
<1> QED BY SpaceInit, SpaceStep, PTL DEF Spec

\* The loaded image is a start of AddressSpace,
LEMMA RefinementInit == Init => Regions!AddressInit
<1> SUFFICES ASSUME Init PROVE Regions!AddressInit
  OBVIOUS
<1>1. Region \subseteq Regions!Region
  BY MemoryAssumption DEF Region, Regions!Region, Addr
<1>2. regions \in Seq(Region) /\ Sorted(regions)
  BY MemoryAssumption, Zenon DEF Init
<1>3. regions \in Seq(Regions!Region)
  BY <1>1, <1>2
<1> QED BY <1>2, <1>3, Zenon DEF Regions!AddressInit, Regions!Ordered, Regions!end, Sorted, end

\* and every call is a step of it or leaves the regions alone.
LEMMA RefinementStep ==
  ASSUME SpaceInv, [Next]_vars
  PROVE  [Regions!AddressNext]_regions
<1>0. SUFFICES ASSUME Next, regions' # regions PROVE Regions!AddressNext
  BY Zenon DEF vars
<1>1. regions \in Seq(Region) /\ WellFormed(regions) /\ DOMAIN regions = 1 .. Len(regions)
  BY SeqElements, Zenon DEF SpaceInv, TypeOK
<1>2. ASSUME NEW base \in Nat, position(base) # 0
      PROVE  /\ position(base) \in DOMAIN regions /\ regions[position(base)].base = base
             /\ base \in 0 .. U64Max
  <2>1. position(base) \in 1 .. Len(regions) /\ regions[position(base)].base = base
    BY <1>2, PositionIs, Zenon
  <2>2. base < end(regions[position(base)]) /\ end(regions[position(base)]) <= U64Max
        /\ end(regions[position(base)]) \in Nat
    BY <1>1, <2>1, RegionAt, Zenon
  <2>3. base \in 0 .. U64Max
    BY <2>2, MemoryAssumption
  <2> QED BY <1>1, <2>1, <2>3, Zenon
<1>3. ASSUME NEW base \in Nat, NEW len \in Nat, NEW w \in BOOLEAN,
             CanMap(base, len), Map(base, len, w)
      PROVE  Regions!AddressNext
  <2>1. base \in 0 .. U64Max /\ len \in 1 .. U64Max
    BY <1>3, MemoryAssumption DEF CanMap
  <2>2. Regions!FreeRange(base, len) /\ len # 0 /\ base + len <= U64Max
    BY <1>3, Zenon DEF CanMap, Regions!FreeRange, Regions!overlaps, Regions!end, end
  <2>a. ASSUME NEW S PROVE Regions!partition_point(regions, S) = partition_point(regions, S)
    BY Zenon DEF Regions!partition_point, partition_point, Regions!Min, Min
  <2>3. regions' = Regions!Insert(regions, Regions!Below(base),
                                  [base |-> base, len |-> len, writable |-> w])
    BY <1>3, <2>a, Zenon DEF Map, Regions!Insert, Insert, Regions!Below
  <2>4. Regions!map(base, len, w)
    BY <2>2, <2>3, Zenon DEF Regions!map
  <2> QED BY <1>0, <2>1, <2>4, Zenon DEF Regions!AddressNext
<1>4. ASSUME NEW base \in Nat, position(base) # 0, Unmap(base)
      PROVE  Regions!AddressNext
  <2>1. Regions!unmap(base)
    BY <1>2, <1>4, Zenon DEF Unmap, Regions!unmap, Regions!Remove, Remove
  <2> QED BY <1>0, <1>2, <1>4, <2>1, Zenon DEF Regions!AddressNext
<1>5. ASSUME NEW size \in Nat, CanResize(HeapBase, size), Resize(HeapBase, size)
      PROVE  Regions!AddressNext
  <2>1. HeapBase \in Nat /\ position(HeapBase) # 0
    BY <1>5, MemoryAssumption DEF CanResize, Addr
  <2>2. Regions!resize_region(HeapBase, size)
    BY <1>2, <1>5, <2>1, Zenon DEF CanResize, Resize, Regions!resize_region
  <2>3. size \in 1 .. U64Max
    BY <1>5, <2>1, MemoryAssumption DEF CanResize
  <2> QED BY <1>0, <1>2, <2>1, <2>2, <2>3, Zenon DEF Regions!AddressNext
<1>6. ASSUME NEW base \in Nat, NEW w \in BOOLEAN, position(base) # 0, mprotect(base, w)
      PROVE  Regions!AddressNext
  <2>1. Regions!mprotect(base, w)
    BY <1>2, <1>6, Zenon DEF mprotect, Regions!mprotect
  <2> QED BY <1>0, <1>2, <1>6, <2>1, Zenon DEF Regions!AddressNext
<1> QED BY <1>0, <1>3, <1>4, <1>5, <1>6, StepKinds, Zenon

\* BackedAddressSpace implements AddressSpace: every call changes the regions as
\* one operation of address_space.rs does, or leaves them alone.
THEOREM MemoryRefinesSpace == Spec => RefinesAddressSpace
<1>1. SpaceInv /\ [Next]_vars => [Regions!AddressNext]_regions
  BY RefinementStep, Zenon
<1> QED BY <1>1, RefinementInit, SpaceCorrect, PTL
        DEF Spec, RefinesAddressSpace, Regions!AddressSpec

-----------------------------------------------------------------------------
\* Every call keeps the break at the top of the heap.
LEMMA HeapStep ==
  ASSUME HeapBase \notin Bases, SpaceInv, HeapTop, [Next]_vars
  PROVE  HeapTop'
<1>0. HeapBase \in Nat /\ MinAddr \in Nat /\ Hints \subseteq Nat /\ Bases \subseteq Nat /\ Lens \subseteq Nat
  BY MemoryAssumption DEF Addr
<1>1. ASSUME UNCHANGED <<regions, brk>> PROVE HeapTop'
  BY <1>1, Zenon DEF HeapTop
<1>2. ASSUME Range(regions) \subseteq Range(regions'), UNCHANGED brk PROVE HeapTop'
  BY <1>2, Zenon DEF HeapTop
<1>3. ASSUME NEW base, base # HeapBase, NEW old, old.base = base, NEW S,
             Range(regions') = (Range(regions) \ {old}) \cup S, UNCHANGED brk
      PROVE  HeapTop'
  BY <1>3, Zenon DEF HeapTop
<1>4. ASSUME NEW a \in 0 .. U64Max, BrkMoves(a) PROVE HeapTop'
  <2>1. brk' = a /\ a \in HeapBase .. HeapBase + MaxBytes
    BY <1>4, Zenon DEF BrkMoves
  <2>2. CASE a = HeapBase
    BY <1>0, <2>1, <2>2 DEF HeapTop
  <2>3. ASSUME a > HeapBase, CanMap(HeapBase, a - HeapBase), Map(HeapBase, a - HeapBase, TRUE)
        PROVE  HeapTop'
    <3> DEFINE r == [base |-> HeapBase, len |-> a - HeapBase, writable |-> TRUE]
    <3>1. a - HeapBase \in Nat
      BY <1>0, <2>3
    <3>2. Range(regions') = Range(regions) \cup {r}
      BY <1>0, <2>3, <3>1, MapStep, Zenon
    <3>3. r.base = HeapBase /\ end(r) = a
      BY <1>0 DEF end
    <3> QED BY <2>1, <3>2, <3>3, Zenon DEF HeapTop
  <2>4. ASSUME a > HeapBase, CanResize(HeapBase, a - HeapBase), Resize(HeapBase, a - HeapBase)
        PROVE  HeapTop'
    <3> DEFINE old == regions[position(HeapBase)]
               r == [old EXCEPT !.len = a - HeapBase]
    <3>1. a - HeapBase \in Nat
      BY <1>0, <2>4
    <3>2. /\ position(HeapBase) \in 1 .. Len(regions) /\ old.base = HeapBase
          /\ Range(regions') = (Range(regions) \ {old}) \cup {r}
      BY <1>0, <2>4, <3>1, ResizeStep, Zenon
    <3>3. old \in Region
      BY <3>2, RegionAt, Zenon DEF SpaceInv, TypeOK
    <3> HIDE DEF old
    <3>4. r.base = HeapBase /\ r.len = a - HeapBase
      BY <3>2, <3>3, Zenon DEF Region
    <3>5. end(r) = a
      BY <1>0, <3>4 DEF end
    <3> QED BY <2>1, <3>2, <3>4, <3>5, Zenon DEF HeapTop
  <2> QED BY <1>0, <1>4, <2>1, <2>2, <2>3, <2>4, Zenon DEF BrkMoves
<1>5. ASSUME NEW base \in Nat, NEW n \in Nat, NEW w \in BOOLEAN,
             CanMap(base, n), Map(base, n, w), UNCHANGED brk
      PROVE  HeapTop'
  BY <1>2, <1>5, MapStep, Zenon
<1>6. ASSUME NEW a \in Hints, NEW n \in Lens, NEW w \in BOOLEAN, MmapHint(a, n, w) PROVE HeapTop'
  BY <1>0, <1>5, <1>6, Zenon DEF MmapHint
<1>7. ASSUME NEW a \in Hints, NEW n \in Lens, NEW w \in BOOLEAN, MmapAnywhere(a, n, w) PROVE HeapTop'
  <2> DEFINE base == find_free_range(n, MinAddr)
  <2>1. n \in Nat \ {0}
    BY <1>0, <1>7, MemoryAssumption DEF MmapAnywhere
  <2>2. base = Lowest(n, MinAddr)
    BY <1>0, <2>1, FindFreeIsExact, Zenon
  <2>3. base # None => base \in Nat
    BY <1>0, <2>1, <2>2, LowestIsNat, Zenon
  <2>4. /\ UNCHANGED brk
        /\ \/ base # None /\ CanMap(base, n) /\ Map(base, n, w)
           \/ UNCHANGED regions
    BY <1>7, Zenon DEF MmapAnywhere
  <2> HIDE DEF base
  <2> QED BY <1>1, <1>5, <2>1, <2>3, <2>4, Zenon
<1>8. ASSUME NEW a \in Bases, munmap(a) PROVE HeapTop'
  <2>1. UNCHANGED brk
    BY <1>8, Zenon DEF munmap
  <2>2. CASE position(a) = 0
    BY <1>1, <1>8, <2>1, <2>2, Zenon DEF munmap
  <2>3. CASE position(a) # 0
    <3>1. Unmap(a)
      BY <1>8, <2>3, Zenon DEF munmap
    <3>2. Range(regions') = (Range(regions) \ {regions[position(a)]}) \cup {}
      BY <2>3, <3>1, UnmapStep, Zenon
    <3>3. regions[position(a)].base = a /\ a # HeapBase
      BY <2>3, PositionIs, Zenon
    <3> QED BY <1>3, <2>1, <3>2, <3>3, Zenon
  <2> QED BY <2>2, <2>3, Zenon
<1>9. ASSUME NEW a \in Bases, NEW w \in BOOLEAN, mprotect(a, w) PROVE HeapTop'
  <2>1. UNCHANGED brk
    BY <1>9, Zenon DEF mprotect
  <2>2. CASE position(a) = 0
    BY <1>1, <1>9, <2>1, <2>2, Zenon DEF mprotect
  <2>3. CASE position(a) # 0
    <3> DEFINE old == regions[position(a)]
    <3>2. old.base = a /\ Range(regions') = (Range(regions) \ {old}) \cup {[old EXCEPT !.writable = w]}
      BY <1>9, <2>3, ProtectStep, Zenon
    <3>3. a # HeapBase
      BY Zenon
    <3> HIDE DEF old
    <3> QED BY <1>3, <2>1, <3>2, <3>3, Zenon
  <2> QED BY <2>2, <2>3, Zenon
<1>10. ASSUME \/ \E a \in 0 .. U64Max : BrkFails(a)
              \/ \E a \in Stores : Write(a) \/ JitStore(a)
              \/ \E n \in Lens : MmapRefused(n)
              \/ UNCHANGED vars
       PROVE  HeapTop'
  BY <1>1, <1>10, Zenon DEF BrkFails, Write, JitStore, MmapRefused, vars
<1> QED BY <1>4, <1>6, <1>7, <1>8, <1>9, <1>10, Zenon DEF Next

\* The break brk returns is the top of the heap region, if the guest does not
\* pass the heap's base to munmap or mprotect.
THEOREM HeapFollowsBreak ==
  ASSUME HeapBase \notin Bases
  PROVE  Spec => []HeapTop
<1>1. Init => HeapTop
  BY MemoryAssumption DEF Init, HeapTop, Addr
<1>2. SpaceInv /\ HeapTop /\ [Next]_vars => HeapTop'
  BY HeapStep, Zenon
<1> QED BY <1>1, <1>2, SpaceCorrect, PTL DEF Spec

\* The bytes a call shows.
Kept == \A a \in Mapped' : bytes'[a] = IF a \in Mapped THEN bytes[a] ELSE 0

\* A new mapping shows zeros and hides nothing,
LEMMA MapShows ==
  ASSUME SpaceInv, NEW base \in Nat, NEW len \in Nat, NEW w \in BOOLEAN,
         CanMap(base, len), Map(base, len, w)
  PROVE  Kept
<1> DEFINE r == [base |-> base, len |-> len, writable |-> w]
<1>1. Range(regions') = Range(regions) \cup {r}
  BY MapStep, Zenon
<1>2. RangeOf(r) = base .. base + len - 1 /\ base .. base + len - 1 \subseteq Addr
  BY MemoryAssumption DEF CanMap, RangeOf, end, Addr
<1>3. ASSUME NEW a \in Mapped'
      PROVE  a \in Mapped \/ a \in base .. base + len - 1
  BY <1>1, <1>2, Zenon DEF Mapped
<1>4. ASSUME NEW a \in Mapped PROVE a \notin base .. base + len - 1 /\ a \in Addr
  <2>1. PICK i \in 1 .. Len(regions) : a \in RangeOf(regions[i])
    BY SpanIs, Zenon DEF Span, Mapped, SpaceInv, TypeOK
  <2>2. /\ regions[i].base \in Nat /\ end(regions[i]) \in Nat /\ end(regions[i]) <= U64Max
        /\ i \in DOMAIN regions
    BY RegionAt, Zenon DEF SpaceInv, TypeOK
  <2>3. ~ (regions[i].base < base + len /\ base < end(regions[i]))
    BY <2>2, Zenon DEF CanMap
  <2>4. a \in Nat /\ regions[i].base <= a /\ a < end(regions[i])
    BY <2>1, <2>2 DEF RangeOf
  <2> QED BY <2>2, <2>3, <2>4, MemoryAssumption, SMTT(30) DEF Addr
<1>5. bytes' = [a \in Addr |-> IF a \in base .. base + len - 1 THEN 0 ELSE bytes[a]]
  BY DEF Map, Zeroed
<1> QED BY <1>2, <1>3, <1>4, <1>5, Zenon DEF Kept

\* a resize shows zeros behind the old end,
LEMMA ResizeShows ==
  ASSUME SpaceInv, NEW base \in Nat, NEW size \in Nat, CanResize(base, size), Resize(base, size)
  PROVE  Kept
<1> DEFINE i == position(base)
           old == regions[i]
           r == [old EXCEPT !.len = size]
           tail == end(old) .. base + size - 1
<1>1. /\ i \in 1 .. Len(regions) /\ old.base = base
      /\ Range(regions') = (Range(regions) \ {old}) \cup {r}
  BY ResizeStep, Zenon
<1>2. /\ old \in Region /\ end(old) \in Nat /\ base < end(old) /\ end(old) <= U64Max
      /\ DOMAIN regions = 1 .. Len(regions) /\ Len(regions) \in Nat
  BY <1>1, RegionAt, Zenon DEF SpaceInv, TypeOK
<1>3. /\ base + size <= U64Max
      /\ i # Len(regions) => base + size <= regions[i + 1].base
  BY Zenon DEF CanResize
<1>4. bytes' = [a \in Addr |-> IF a \in tail THEN 0 ELSE bytes[a]]
  BY DEF Resize, Zeroed
<1>5. old \in Range(regions)
  BY <1>1, <1>2, Zenon DEF Range
<1> HIDE DEF i, old
<1>6. RangeOf(r) = base .. base + size - 1
  <2>1. r.base = base /\ r.len = size
    BY <1>1, <1>2, Zenon DEF Region
  <2> QED BY <2>1 DEF RangeOf, end
<1>7. RangeOf(old) = base .. end(old) - 1
  BY <1>1, Zenon DEF RangeOf
<1>8. ASSUME NEW a \in Mapped' PROVE a \in Mapped \/ a \in tail
  <2>1. a \in Mapped \/ a \in RangeOf(r)
    BY <1>1, Zenon DEF Mapped
  <2>2. RangeOf(old) \subseteq Mapped
    BY <1>5, Zenon DEF Mapped
  <2>3. a \in RangeOf(r) => a \in RangeOf(old) \/ a \in tail
    BY <1>1, <1>2, <1>6, <1>7
  <2> QED BY <2>1, <2>2, <2>3, Zenon
<1>9. ASSUME NEW a \in Mapped PROVE a \notin tail /\ a \in Addr
  <2>1. PICK j \in 1 .. Len(regions) : a \in RangeOf(regions[j])
    BY SpanIs, Zenon DEF Span, Mapped, SpaceInv, TypeOK
  <2>2. /\ regions[j].base \in Nat /\ end(regions[j]) \in Nat /\ end(regions[j]) <= U64Max
    BY RegionAt, Zenon DEF SpaceInv, TypeOK
  <2>3. a \in Nat /\ regions[j].base <= a /\ a < end(regions[j])
    BY <2>1, <2>2 DEF RangeOf
  <2>4. CASE j = i
    BY <1>2, <2>2, <2>3, <2>4, MemoryAssumption DEF Addr, old
  <2>5. CASE j < i
    <3>1. end(regions[j]) <= old.base
      BY <1>1, <2>5, RegionAt, Zenon DEF SpaceInv, TypeOK, old
    <3> QED BY <1>1, <1>2, <2>2, <2>3, <3>1, MemoryAssumption, SMTT(30) DEF Addr
  <2>6. CASE i < j
    <3>1. i # Len(regions) /\ i + 1 \in 1 .. Len(regions) /\ (i + 1 < j \/ i + 1 = j)
      BY <1>1, <1>2, <2>6
    <3>2. i + 1 < j => end(regions[i + 1]) <= regions[j].base
      BY <3>1, RegionAt, Zenon DEF SpaceInv, TypeOK
    <3>3. /\ regions[i + 1].base \in Nat /\ end(regions[i + 1]) \in Nat
          /\ regions[i + 1].base < end(regions[i + 1])
      BY <3>1, RegionAt, Zenon DEF SpaceInv, TypeOK
    <3>4. base + size <= regions[j].base
      <4>1. CASE i + 1 = j
        BY <1>3, <3>1, <4>1, Zenon
      <4>2. CASE i + 1 < j
        BY <1>3, <2>2, <3>1, <3>2, <3>3, <4>2, SMTT(30)
      <4> QED BY <3>1, <4>1, <4>2, Zenon
    <3> QED BY <1>2, <2>2, <2>3, <3>4, MemoryAssumption, SMTT(30) DEF Addr
  <2> QED BY <1>1, <1>2, <2>4, <2>5, <2>6
<1>10. tail \subseteq Addr
  BY <1>2, <1>3, MemoryAssumption, SMTT(30) DEF Addr
<1> HIDE DEF tail
<1> QED BY <1>4, <1>8, <1>9, <1>10, Zenon DEF Kept

\* and the other calls show nothing new.
LEMMA ShowsStep ==
  ASSUME SpaceInv, Next, regions' # regions
  PROVE  Kept
<1>1. ASSUME NEW base \in Nat, position(base) # 0, Unmap(base), UNCHANGED bytes PROVE Kept
  BY <1>1, UnmapStep, Zenon DEF Kept, Mapped
<1>2. ASSUME NEW base \in Nat, NEW w \in BOOLEAN, position(base) # 0, mprotect(base, w) PROVE Kept
  <2> DEFINE old == regions[position(base)]
             r == [old EXCEPT !.writable = w]
  <2>1. /\ position(base) \in 1 .. Len(regions)
        /\ Range(regions') = (Range(regions) \ {old}) \cup {r}
    BY <1>2, ProtectStep, Zenon
  <2>2. old \in Region /\ old \in Range(regions)
    BY <2>1, RegionAt, Zenon DEF SpaceInv, TypeOK, Range
  <2> HIDE DEF old
  <2>3. RangeOf(r) = RangeOf(old)
    BY <2>2, Zenon DEF Region, RangeOf, end
  <2>4. Mapped' \subseteq Mapped
    BY <2>1, <2>2, <2>3, Zenon DEF Mapped
  <2> QED BY <1>2, <2>4, Zenon DEF Kept, mprotect
<1>3. HeapBase \in Nat
  BY MemoryAssumption DEF Addr
<1> QED BY <1>1, <1>2, <1>3, MapShows, ResizeShows, StepKinds, Zenon

\* Memory a call maps reads as zeros, whatever was stored there before, and the
\* bytes of the memory the guest had are kept (insert_region, resize).
THEOREM FreshAlwaysZero == Spec => FreshIsZero
<1>1. SpaceInv /\ [Next]_vars =>
        [regions' # regions =>
           LET had == Mapped
           IN  \A a \in Mapped' : bytes'[a] = IF a \in had THEN bytes[a] ELSE 0]_vars
  BY ShowsStep, Zenon DEF Kept
<1> QED BY <1>1, SpaceCorrect, PTL DEF Spec, FreshIsZero

\* The searches say what the mapped addresses say (region_idx,
\* find_free_range, validate_range), whatever calls were made.
THEOREM SearchesExact == Spec => []QueriesExact
<1>1. SpaceInv => QueriesExact
  BY SearchesAreExact, Zenon
<1> QED BY <1>1, SpaceCorrect, PTL
=============================================================================
