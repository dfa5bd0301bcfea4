---------------------------- MODULE FdTableProofs ----------------------------
(***************************************************************************)
(* The descriptor table implements Descriptors, for every set of entries   *)
(* and every greatest descriptor.                                          *)
(***************************************************************************)
EXTENDS FdTable, TLAPS, WellFoundedInduction

Entries == Things \union {Free}
Tables == {t \in Seq(Entries) : Len(t) <= MaxFd + 1}

\* A nonempty set of naturals has a least element.
LEMMA LeastNat ==
  ASSUME NEW S \in SUBSET Nat, S # {}
  PROVE  \E n \in S : \A m \in S : n <= m
<1> DEFINE R == {p \in Nat \X Nat : p[1] < p[2]}
<1>1. IsWellFoundedOn(R, Nat)
  BY NatLessThanWellFounded DEF OpToRel
<1>2. PICK n \in S : \A m \in S : ~ (<<m, n>> \in R)
  <2> HIDE DEF R
  <2> QED
    BY <1>1, WFMin, Zenon
<1>3. ASSUME NEW m \in S PROVE n <= m
  <2>1. <<m, n>> \in Nat \X Nat
    OBVIOUS
  <2> QED
    BY <1>2, <2>1
<1> QED
  BY <1>3

\* LowestFree gives the lowest index at or after start that is not open.
LEMMA LowestFreeIsLowest ==
  ASSUME NEW t \in Tables, NEW start \in 0 .. MaxFd
  PROVE  /\ LowestFree(t, start) \in Nat
         /\ LowestFree(t, start) >= start
         /\ ~ is_open(t, LowestFree(t, start))
         /\ \A d \in start .. MaxFd : d < LowestFree(t, start) => is_open(t, d)
<1> USE FdAssumption
<1> DEFINE free == {d \in start .. Len(t) - 1 : t[d + 1] = Free}
<1>0. Len(t) \in Nat /\ free \subseteq Nat
  BY DEF Tables
<1>1. CASE free # {}
  <2> DEFINE least == CHOOSE d \in free : \A o \in free : d <= o
  <2>1. least \in free /\ \A o \in free : least <= o
    <3>1. \E d \in free : \A o \in free : d <= o
      BY <1>0, <1>1, LeastNat, Zenon
    <3> QED
      BY <3>1, Zenon
  <2>2. LowestFree(t, start) = least
    BY <1>1, Zenon DEF LowestFree
  <2> HIDE DEF least
  <2>3. ASSUME NEW d \in start .. MaxFd, d < least
        PROVE  d < Len(t) /\ t[d + 1] # Free
    <3>1. least \in start .. Len(t) - 1
      BY <2>1
    <3>2. d \in start .. Len(t) - 1
      BY <2>3, <3>1, <1>0
    <3>3. d \notin free
      BY <2>1, <2>3, <3>1, <3>2, <1>0
    <3> QED
      BY <3>2, <3>3, <1>0
  <2> QED
    BY <2>1, <2>2, <2>3, <1>0 DEF is_open, get
<1>2. CASE free = {}
  <2>1. LowestFree(t, start) = IF Len(t) < start THEN start ELSE Len(t)
    BY <1>2 DEF LowestFree
  <2>2. \A d \in start .. Len(t) - 1 : t[d + 1] # Free
    BY <1>2, Zenon
  <2> QED
    BY <2>1, <2>2, <1>0 DEF is_open, get
<1> QED
  BY <1>1, <1>2

\* Put stores one entry and keeps the others.
LEMMA PutEntry ==
  ASSUME NEW t \in Tables, NEW fd \in 0 .. MaxFd, NEW e \in Entries
  PROVE  /\ Put(t, fd, e) \in Tables
         /\ \A d \in 0 .. MaxFd : get(Put(t, fd, e), d) = IF d = fd THEN e ELSE get(t, d)
<1> USE FdAssumption
<1> DEFINE n == IF fd < Len(t) THEN Len(t) ELSE fd + 1
           r == Resized(t, n)
<1>1. Len(t) \in Nat /\ n \in Nat /\ fd < n /\ Len(t) <= n /\ n <= MaxFd + 1
  BY DEF Tables
<1>2. r \in [1 .. n -> Entries]
  <2> SUFFICES ASSUME NEW i \in 1 .. n PROVE (IF i <= Len(t) THEN t[i] ELSE Free) \in Entries
    BY DEF Resized
  <2> QED
    BY <1>1 DEF Tables, Entries
<1>3. Put(t, fd, e) = [r EXCEPT ![fd + 1] = e]
  BY DEF Put
<1> HIDE DEF n
<1>4. Put(t, fd, e) \in [1 .. n -> Entries]
  BY <1>1, <1>2, <1>3
<1>5. Put(t, fd, e) \in Seq(Entries) /\ Len(Put(t, fd, e)) = n
  BY <1>4, <1>1
<1>6. ASSUME NEW d \in 0 .. MaxFd
      PROVE  get(Put(t, fd, e), d) = IF d = fd THEN e ELSE get(t, d)
  <2>1. CASE d = fd
    BY <2>1, <1>1, <1>2, <1>3, <1>5 DEF get
  <2>2. CASE d # fd /\ d < n
    <3>1. Put(t, fd, e)[d + 1] = r[d + 1]
      BY <2>2, <1>1, <1>2, <1>3
    <3>2. r[d + 1] = IF d + 1 <= Len(t) THEN t[d + 1] ELSE Free
      BY <2>2, <1>1 DEF Resized
    <3> QED
      BY <2>2, <3>1, <3>2, <1>1, <1>5 DEF get
  <2>3. CASE d # fd /\ d >= n
    BY <2>3, <1>1, <1>5 DEF get
  <2> QED
    BY <2>1, <2>2, <2>3, <1>1
<1> QED
  BY <1>1, <1>5, <1>6 DEF Tables

\* An entry stored in a free or an open slot is the abstract With.
LEMMA PutIsWith ==
  ASSUME NEW t \in Tables, NEW fd \in 0 .. MaxFd, NEW e \in Things
  PROVE  OpenFds(Put(t, fd, e)) = Abstract!With(OpenFds(t), fd, e)
<1> DEFINE u == Put(t, fd, e)
<1>1. \A d \in 0 .. MaxFd : get(u, d) = IF d = fd THEN e ELSE get(t, d)
  BY PutEntry DEF Entries
<1> HIDE DEF u
<1>2. {d \in 0 .. MaxFd : is_open(u, d)} = {d \in 0 .. MaxFd : is_open(t, d)} \union {fd}
  BY <1>1, FdAssumption DEF is_open
<1>3. OpenFds(u) = Abstract!With(OpenFds(t), fd, e)
  BY <1>1, <1>2 DEF OpenFds, Abstract!With
<1> QED
  BY <1>3 DEF u

\* A slot set to Free is the abstract Without.
LEMMA PutFreeIsWithout ==
  ASSUME NEW t \in Tables, NEW fd \in 0 .. MaxFd
  PROVE  OpenFds(Put(t, fd, Free)) = Abstract!Without(OpenFds(t), fd)
<1> DEFINE u == Put(t, fd, Free)
<1>1. \A d \in 0 .. MaxFd : get(u, d) = IF d = fd THEN Free ELSE get(t, d)
  BY PutEntry DEF Entries
<1> HIDE DEF u
<1>2. {d \in 0 .. MaxFd : is_open(u, d)} = {d \in 0 .. MaxFd : is_open(t, d)} \ {fd}
  BY <1>1 DEF is_open
<1>3. OpenFds(u) = Abstract!Without(OpenFds(t), fd)
  BY <1>1, <1>2 DEF OpenFds, Abstract!Without
<1> QED
  BY <1>3 DEF u

\* close replaces the entry of an open descriptor, in a table that holds it.
LEMMA CloseIsPut ==
  ASSUME NEW t \in Tables, NEW fd \in 0 .. MaxFd, is_open(t, fd)
  PROVE  [t EXCEPT ![fd + 1] = Free] = Put(t, fd, Free)
<1>1. Len(t) \in Nat /\ fd < Len(t)
  BY DEF is_open, get, Tables
<1>2. Resized(t, Len(t)) = t
  BY <1>1 DEF Resized, Tables
<1> QED
  BY <1>1, <1>2 DEF Put

\* What stands in an open descriptor is no free slot.
LEMMA OpenEntry ==
  ASSUME NEW t \in Tables, NEW fd \in 0 .. MaxFd, is_open(t, fd)
  PROVE  /\ get(t, fd) \in Things
         /\ fd \in DOMAIN OpenFds(t) /\ OpenFds(t)[fd] = get(t, fd)
<1>1. Len(t) \in Nat
  BY DEF Tables
<1>2. get(t, fd) \in Entries
  BY <1>1 DEF get, Tables, Entries
<1> QED
  BY <1>2 DEF is_open, Entries, OpenFds

\* The slot the table takes is the one Descriptors asks for.
LEMMA AllocatedIsLowest ==
  ASSUME NEW start \in 0 .. MaxFd, fds \in Tables, ~ TableFull(start)
  PROVE  /\ LowestFree(fds, start) \in 0 .. MaxFd
         /\ Abstract!IsLowestFree(LowestFree(fds, start), start)
<1> DEFINE fd == LowestFree(fds, start)
<1>1. /\ fd \in Nat /\ fd >= start /\ ~ is_open(fds, fd)
      /\ \A d \in start .. MaxFd : d < fd => is_open(fds, d)
  BY LowestFreeIsLowest
<1>2. fd <= MaxFd
  BY <1>1, FdAssumption DEF TableFull
<1> HIDE DEF fd
<1>3. fd \in 0 .. MaxFd /\ fd \in start .. MaxFd
  BY <1>1, <1>2, FdAssumption
<1>4. DOMAIN OpenFds(fds) = {d \in 0 .. MaxFd : is_open(fds, d)}
  BY DEF OpenFds
<1>5. \A d \in start .. MaxFd : d \in 0 .. MaxFd
  BY FdAssumption
<1>6. Abstract!IsLowestFree(fd, start)
  BY <1>1, <1>3, <1>4, <1>5 DEF Abstract!IsLowestFree
<1> QED
  BY <1>3, <1>6 DEF fd

\* Every slot of the table is an entry or free, and the table never outgrows
\* the descriptors an i32 can name, whatever is opened, closed and duplicated.
THEOREM FdTypeCorrect == FdSpec => []FdTypeOK
<1>0. FdTypeOK <=> fds \in Tables
  BY DEF FdTypeOK, Tables, Entries
<1>1. FdInit => FdTypeOK
  BY FdAssumption DEF FdInit, FdTypeOK
<1>2. FdTypeOK /\ [FdNext]_fdVars => FdTypeOK'
  <2> SUFFICES ASSUME FdTypeOK, [FdNext]_fdVars PROVE fds' \in Tables
    BY DEF FdTypeOK, Tables, Entries
  <2> USE <1>0, FdAssumption
  <2>1. ASSUME NEW e \in Things, NEW start \in 0 .. MaxFd, Place(e, start)
        PROVE  fds' \in Tables
    <3>1. LowestFree(fds, start) \in 0 .. MaxFd
      BY <2>1, AllocatedIsLowest DEF Place
    <3> QED
      BY <2>1, <3>1, PutEntry DEF Place, Entries
  <2>2. ASSUME NEW fd \in 0 .. MaxFd, close(fd) PROVE fds' \in Tables
    <3>1. fds \in Tables /\ is_open(fds, fd) /\ fds' = [fds EXCEPT ![fd + 1] = Free]
      BY <2>2 DEF close
    <3>2. fds' = Put(fds, fd, Free)
      BY <3>1, CloseIsPut
    <3>3. Free \in Entries
      BY DEF Entries
    <3>4. Put(fds, fd, Free) \in Tables
      BY ONLY fds \in Tables, fd \in 0 .. MaxFd, <3>1, <3>3, PutEntry, Zenon
    <3> QED
      BY <3>2, <3>4
  <2>3. ASSUME NEW old \in 0 .. MaxFd, NEW start \in 0 .. MaxFd, dup_from(old, start)
        PROVE  fds' \in Tables
    BY <2>1, <2>3, OpenEntry DEF dup_from
  <2>4. ASSUME NEW old \in 0 .. MaxFd, NEW new \in 0 .. MaxFd, dup2(old, new)
        PROVE  fds' \in Tables
    <3>1. fds \in Tables /\ is_open(fds, old)
      BY <2>4 DEF dup2
    <3>2. get(fds, old) \in Entries
      BY <3>1, OpenEntry DEF Entries
    <3>3. Put(fds, new, get(fds, old)) \in Tables
      BY ONLY new \in 0 .. MaxFd, <3>1, <3>2, PutEntry, Zenon
    <3>4. CASE old = new
      BY <2>4, <3>1, <3>4 DEF dup2
    <3>5. CASE old # new
      BY <2>4, <3>3, <3>5 DEF dup2
    <3> QED
      BY <3>4, <3>5
  <2>5. ASSUME NEW e \in Things, allocate(e) PROVE fds' \in Tables
    BY <2>1, <2>5 DEF allocate
  <2>6. CASE UNCHANGED fdVars
    BY <2>6 DEF fdVars
  <2> QED
    BY <2>2, <2>3, <2>4, <2>5, <2>6 DEF FdNext
<1> QED
  BY <1>1, <1>2, PTL DEF FdSpec

\* The descriptor table implements Descriptors: allocate and dup give the
\* lowest free descriptor, F_DUPFD the lowest one from its minimum on, a
\* duplicate stands for what the original does, and close, dup and dup2 change
\* the descriptor they reply with and no other.
THEOREM FdTableRefines == FdSpec => RefinesDescriptors
<1>1. FdInit => Abstract!DescriptorInit
  <2> SUFFICES ASSUME FdInit PROVE OpenFds(fds) \in [0 .. 2 -> Things]
    BY DEF Abstract!DescriptorInit, FdInit
  <2> USE FdAssumption DEF FdInit
  <2>1. Len(fds) = 3 /\ fds[1] = Stdin /\ fds[2] = Stdout /\ fds[3] = Stderr
    OBVIOUS
  <2>2. \A d \in 0 .. 2 : get(fds, d) \in Things
    BY <2>1 DEF get
  <2>3. \A d \in 0 .. MaxFd : is_open(fds, d) <=> d \in 0 .. 2
    BY <2>1, <2>2 DEF get, is_open
  <2>4. {d \in 0 .. MaxFd : is_open(fds, d)} = 0 .. 2
    BY <2>3
  <2> QED
    BY <2>2, <2>4 DEF OpenFds
<1>2. FdTypeOK /\ [FdNext]_fdVars => [Abstract!DescriptorNext]_<<OpenFds(fds), reply>>
  <2> SUFFICES ASSUME FdTypeOK, [FdNext]_fdVars
               PROVE  Abstract!DescriptorNext \/ UNCHANGED <<OpenFds(fds), reply>>
    OBVIOUS
  <2>0. fds \in Tables
    BY DEF FdTypeOK, Tables, Entries
  <2> USE <2>0, FdAssumption
  <2> DEFINE open == OpenFds(fds)
  <2>p. OpenFds(fds)' = OpenFds(fds')
    BY DEF OpenFds, is_open, get
  <2>1. ASSUME NEW e \in Things, NEW start \in 0 .. MaxFd, Place(e, start)
        PROVE  LET fd == LowestFree(fds, start)
               IN  /\ fd \in 0 .. MaxFd /\ Abstract!IsLowestFree(fd, start)
                   /\ OpenFds(fds)' = Abstract!With(open, fd, e)
    <3>1. /\ LowestFree(fds, start) \in 0 .. MaxFd
          /\ Abstract!IsLowestFree(LowestFree(fds, start), start)
      BY <2>1, AllocatedIsLowest DEF Place
    <3> QED
      BY <2>1, <2>p, <3>1, PutIsWith DEF Place
  <2>2. ASSUME NEW e \in Things, allocate(e)
        PROVE  Abstract!OpenThing(LowestFree(fds, 0)) /\ LowestFree(fds, 0) \in 0 .. MaxFd
    <3>1. Place(e, 0) /\ Abstract!Replies("open", 0, 0, LowestFree(fds, 0)) /\ 0 \in 0 .. MaxFd
      BY <2>2 DEF allocate, Replies, Abstract!Replies
    <3> QED
      BY <2>1, <3>1 DEF Abstract!OpenThing
  <2>3. ASSUME NEW fd \in 0 .. MaxFd, close(fd) PROVE Abstract!CloseThing(fd)
    <3>1. fds' = Put(fds, fd, Free) /\ fd \in DOMAIN open
      BY <2>3, CloseIsPut, OpenEntry DEF close
    <3>2. Abstract!Replies("close", 0, 0, fd)
      BY <2>3 DEF close, Replies, Abstract!Replies
    <3> QED
      BY <2>p, <3>1, <3>2, PutFreeIsWithout DEF Abstract!CloseThing
  <2>4. ASSUME NEW old \in 0 .. MaxFd, NEW start \in 0 .. MaxFd, dup_from(old, start)
        PROVE  /\ Abstract!DupThing(old, start, LowestFree(fds, start))
               /\ LowestFree(fds, start) \in 0 .. MaxFd
    <3>1. get(fds, old) \in Things /\ old \in DOMAIN open /\ open[old] = get(fds, old)
      BY <2>4, OpenEntry DEF dup_from
    <3>2. Place(get(fds, old), start)
      BY <2>4 DEF dup_from
    <3>3. Abstract!Replies("dup", old, start, LowestFree(fds, start))
      BY <2>4 DEF dup_from, Replies, Abstract!Replies
    <3>4. /\ LowestFree(fds, start) \in 0 .. MaxFd
          /\ Abstract!IsLowestFree(LowestFree(fds, start), start)
          /\ OpenFds(fds)' = Abstract!With(open, LowestFree(fds, start), get(fds, old))
      BY <2>1, <3>1, <3>2
    <3> QED
      BY <3>1, <3>3, <3>4 DEF Abstract!DupThing
  <2>5. ASSUME NEW old \in 0 .. MaxFd, NEW new \in 0 .. MaxFd, dup2(old, new)
        PROVE  Abstract!Dup2Thing(old, new)
    <3>1. get(fds, old) \in Things /\ old \in DOMAIN open /\ open[old] = get(fds, old)
      BY <2>5, OpenEntry DEF dup2
    <3>2. Abstract!Replies("dup2", old, 0, new)
      BY <2>5 DEF dup2, Replies, Abstract!Replies
    <3>3. CASE old = new
      <4>1. OpenFds(fds)' = open
        BY <2>5, <2>p, <3>3 DEF dup2
      <4>2. open = Abstract!With(open, new, open[new])
        BY <3>1, <3>3 DEF OpenFds, Abstract!With
      <4> QED
        BY <3>1, <3>2, <3>3, <4>1, <4>2 DEF Abstract!Dup2Thing
    <3>4. CASE old # new
      BY <2>5, <2>p, <3>1, <3>2, <3>4, PutIsWith DEF dup2, Abstract!Dup2Thing
    <3> QED
      BY <3>3, <3>4
  <2>6. CASE UNCHANGED fdVars
    BY <2>6 DEF fdVars, OpenFds, is_open, get
  <2> QED
    BY <2>2, <2>3, <2>4, <2>5, <2>6 DEF FdNext, Abstract!DescriptorNext
<1> QED
  BY <1>1, <1>2, FdTypeCorrect, PTL DEF FdSpec, RefinesDescriptors, Abstract!DescriptorSpec
=============================================================================
