---------------------------- MODULE GuestMemory ----------------------------
(***************************************************************************)
(* The guest's address space: the regions and bytes of                     *)
(* BackedAddressSpace (shell/orchestrator), the calls brk, mmap, munmap    *)
(* and mprotect made on it (shell/prisma-session/src/mem_syscalls.rs), the *)
(* stores of system calls and those of translated code.                    *)
(*                                                                         *)
(* In arena mode the bytes are one host mapping of a window of addresses,  *)
(* and translated code stores into the window without looking at the       *)
(* regions.  In owned mode each region has bytes of its own; as a region   *)
(* starts and grows with zeros in both modes, an unmapped byte is never    *)
(* read, and the window of owned mode is the whole space.                  *)
(***************************************************************************)
EXTENDS Integers, Sequences, FiniteSetsExt

CONSTANTS
  U64Max,     \* u64::MAX
  ArenaWindow, \* the addresses the arena reserves, an interval
  MinAddr,    \* MMAP_MIN_ADDR
  MaxBytes,   \* MAX_MAP_BYTES
  HeapBase,   \* heap_base
  Layout,     \* the regions of the loaded image and the stack
  Hints,      \* the addresses the guest passes to mmap
  Bases,      \* the addresses the guest passes to munmap and mprotect
  Lens,       \* the lengths the guest passes to mmap
  Stores,     \* the addresses system calls and translated code write to
  None

Addr == 0 .. U64Max - 1
Region == [base : Addr, len : 1 .. U64Max, writable : BOOLEAN]

\* A region's addresses are in the space: map rejects an overflow.
end(r) == r.base + r.len

Sorted(rs) == \A i, j \in DOMAIN rs : i < j => end(rs[i]) <= rs[j].base

\* Vec::insert behind the first n elements, and Vec::remove.
Insert(rs, n, r) == SubSeq(rs, 1, n) \o <<r>> \o SubSeq(rs, n + 1, Len(rs))
Remove(rs, i) == SubSeq(rs, 1, i - 1) \o SubSeq(rs, i + 1, Len(rs))

\* slice::partition_point: how many elements precede the first not in S.
partition_point(rs, S) == Min((1 .. Len(rs) + 1) \ S) - 1

ASSUME MemoryAssumption ==
  /\ U64Max \in Nat \ {0}
  /\ ArenaWindow \subseteq Addr
  /\ MinAddr \in Nat /\ MaxBytes \in Nat /\ HeapBase \in Addr
  /\ Layout \in Seq(Region) /\ Sorted(Layout)
  /\ \A i \in DOMAIN Layout :
       Layout[i].base .. end(Layout[i]) - 1 \subseteq ArenaWindow
  /\ Hints \subseteq Nat /\ Bases \subseteq Nat /\ Lens \subseteq Nat
  /\ Stores \subseteq ArenaWindow
  /\ None \notin Nat

VARIABLES
  arena,     \* the space was made by with_arena
  regions,   \* sorted by base
  bytes,     \* what the bytes hold: 0, or something written
  brk,       \* the program break
  ret        \* the result of the last call: ok, or an error

vars == <<arena, regions, bytes, brk, ret>>

\* The addresses that have bytes.
Window == IF arena THEN ArenaWindow ELSE Addr

TypeOK ==
  /\ arena \in BOOLEAN
  /\ regions \in Seq(Region)
  /\ bytes \in [Addr -> {0, 1}]
  /\ brk \in HeapBase .. HeapBase + MaxBytes
  /\ ret \in {"ok", "ENOMEM", "EINVAL"}

\* The loader copies the image in: any of its bytes may be nonzero.
Init ==
  /\ arena \in BOOLEAN
  /\ regions = Layout
  /\ bytes = [a \in Addr |->
       IF \E i \in DOMAIN Layout : a \in Layout[i].base .. end(Layout[i]) - 1
       THEN 1 ELSE 0]
  /\ brk = HeapBase
  /\ ret = "ok"

-----------------------------------------------------------------------------
(* BackedAddressSpace.                                                     *)

RangeOf(r) == r.base .. end(r) - 1
Mapped == UNION {RangeOf(r) : r \in Range(regions)}

\* The first region based at b, or 0.
position(b) ==
  LET S == {i \in DOMAIN regions : regions[i].base = b}
  IN  IF S = {} THEN 0 ELSE Min(S)

\* The region that contains a, or 0: the last of the regions that start at or
\* below a is the only candidate.
region_idx(a) ==
  LET i == partition_point(regions, {j \in DOMAIN regions : regions[j].base <= a})
  IN  IF i # 0 /\ a \in RangeOf(regions[i]) THEN i ELSE 0

\* Variant: only the region that follows is looked at.
CanMapNext(base, len) ==
  /\ len # 0
  /\ base + len <= U64Max
  /\ \A i \in DOMAIN regions :
       regions[i].base >= base => base + len <= regions[i].base
  /\ base .. base + len - 1 \subseteq Window

\* The checks of insert_region.
CanMap(base, len) ==
  /\ len # 0
  /\ base + len <= U64Max
  /\ \A i \in DOMAIN regions :
       ~ (regions[i].base < base + len /\ base < end(regions[i]))
  /\ base .. base + len - 1 \subseteq Window

Zeroed(from, to) ==
  [a \in Addr |-> IF a \in from .. to - 1 THEN 0 ELSE bytes[a]]

\* Variant: stale bytes of an unmapped region show in a new one.
MapStale(base, len, w) ==
  LET below == {i \in DOMAIN regions : regions[i].base < base}
  IN  /\ regions' = Insert(regions, partition_point(regions, below),
                           [base |-> base, len |-> len, writable |-> w])
      /\ UNCHANGED bytes

\* insert_region of zeros, behind the regions below base.
Map(base, len, w) ==
  LET below == {i \in DOMAIN regions : regions[i].base < base}
  IN  /\ regions' = Insert(regions, partition_point(regions, below),
                           [base |-> base, len |-> len, writable |-> w])
      /\ bytes' = Zeroed(base, base + len)

Unmap(base) == regions' = Remove(regions, position(base))

\* The checks of resize: only the next region can be in the way.
CanResize(base, size) ==
  /\ size # 0
  /\ position(base) # 0
  /\ base + size <= U64Max
  /\ position(base) # Len(regions) =>
       base + size <= regions[position(base) + 1].base
  /\ base .. base + size - 1 \subseteq Window

\* resize zeroes the tail that a growth exposes.
Resize(base, size) ==
  LET i == position(base)
  IN  /\ regions' = [regions EXCEPT ![i].len = size]
      /\ bytes' = Zeroed(end(regions[i]), base + size)

\* The walk of find_free_range over the gaps: cursor[i] is the cursor once
\* regions 1 to i are passed.
cursor(min) ==
  LET c[i \in 0 .. Len(regions)] ==
        IF i = 0 THEN min ELSE Max({c[i - 1], end(regions[i])})
  IN  c

\* Variant: a gap of one byte less is taken for one of len.
find_free_range_tight(len, min) ==
  LET c == cursor(min)
      fits == {i \in DOMAIN regions :
                 /\ end(regions[i]) > c[i - 1]
                 /\ regions[i].base >= c[i - 1]
                 /\ regions[i].base - c[i - 1] >= len - 1}
      found == c[IF fits = {} THEN Len(regions) ELSE Min(fits) - 1]
  IN  IF len # 0 /\ found + len <= U64Max THEN found ELSE None

\* The lowest free address at or above min, or None.
find_free_range(len, min) ==
  LET c == cursor(min)
      fits == {i \in DOMAIN regions :
                 /\ end(regions[i]) > c[i - 1]
                 /\ regions[i].base >= c[i - 1]
                 /\ regions[i].base - c[i - 1] >= len}
      found == c[IF fits = {} THEN Len(regions) ELSE Min(fits) - 1]
  IN  IF len # 0 /\ found + len <= U64Max THEN found ELSE None

-----------------------------------------------------------------------------
(* The system calls.                                                       *)

\* Variant: the break moves although the heap could not.
BrkFailsMoving(addr) ==
  /\ addr > HeapBase /\ addr - HeapBase <= MaxBytes
  /\ brk > HeapBase
  /\ ~ CanResize(HeapBase, addr - HeapBase)
  /\ brk' = addr /\ ret' = "ok"
  /\ UNCHANGED <<arena, regions, bytes>>

\* brk(addr).  The first allocation maps the heap, later ones resize it, and
\* an empty heap is unmapped; a failure leaves the break.
BrkFails(addr) ==
  /\ \/ addr < HeapBase
     \/ addr - HeapBase > MaxBytes
     \/ /\ addr > HeapBase /\ brk <= HeapBase
        /\ ~ CanMap(HeapBase, addr - HeapBase)
     \/ /\ addr > HeapBase /\ brk > HeapBase
        /\ ~ CanResize(HeapBase, addr - HeapBase)
  /\ ret' = "ok"
  /\ UNCHANGED <<arena, regions, bytes, brk>>

BrkMoves(addr) ==
  /\ addr \in HeapBase .. HeapBase + MaxBytes
  /\ \/ /\ addr = HeapBase
        /\ IF brk > HeapBase /\ position(HeapBase) # 0
           THEN Unmap(HeapBase) ELSE UNCHANGED regions
        /\ UNCHANGED bytes
     \/ /\ addr > HeapBase /\ brk <= HeapBase
        /\ CanMap(HeapBase, addr - HeapBase)
        /\ Map(HeapBase, addr - HeapBase, TRUE)
     \/ /\ addr > HeapBase /\ brk > HeapBase
        /\ CanResize(HeapBase, addr - HeapBase)
        /\ Resize(HeapBase, addr - HeapBase)
  /\ brk' = addr /\ ret' = "ok"
  /\ UNCHANGED arena

\* mmap at the hint, if it is free and above the null page.
MmapHint(addr, len, w) ==
  /\ len \in 1 .. MaxBytes
  /\ addr >= MinAddr /\ CanMap(addr, len)
  /\ Map(addr, len, w)
  /\ ret' = "ok"
  /\ UNCHANGED <<arena, brk>>

\* mmap where find_free_range says, or not at all.
MmapAnywhere(addr, len, w) ==
  /\ len \in 1 .. MaxBytes
  /\ ~ (addr >= MinAddr /\ CanMap(addr, len))
  /\ LET base == find_free_range(len, MinAddr)
     IN  IF base # None /\ CanMap(base, len)
         THEN Map(base, len, w) /\ ret' = "ok"
         ELSE ret' = "ENOMEM" /\ UNCHANGED <<regions, bytes>>
  /\ UNCHANGED <<arena, brk>>

MmapRefused(len) ==
  /\ len \notin 1 .. MaxBytes
  /\ ret' = IF len = 0 THEN "EINVAL" ELSE "ENOMEM"
  /\ UNCHANGED <<arena, regions, bytes, brk>>

munmap(addr) ==
  /\ IF position(addr) # 0
     THEN Unmap(addr) /\ ret' = "ok"
     ELSE ret' = "EINVAL" /\ UNCHANGED regions
  /\ UNCHANGED <<arena, bytes, brk>>

mprotect(addr, w) ==
  /\ IF position(addr) # 0
     THEN /\ regions' = [regions EXCEPT ![position(addr)].writable = w]
          /\ ret' = "ok"
     ELSE ret' = "EINVAL" /\ UNCHANGED regions
  /\ UNCHANGED <<arena, bytes, brk>>

\* A system call writes one byte at a, as write does.
Write(a) ==
  /\ region_idx(a) # 0 /\ regions[region_idx(a)].writable
  /\ bytes' = [bytes EXCEPT ![a] = 1]
  /\ UNCHANGED <<arena, regions, brk, ret>>

\* Translated code stores through mem_base.
JitStore(a) ==
  /\ arena
  /\ bytes' = [bytes EXCEPT ![a] = 1]
  /\ UNCHANGED <<arena, regions, brk, ret>>

Next ==
  \/ \E a \in 0 .. U64Max : BrkFails(a) \/ BrkMoves(a)
  \/ \E a \in Stores : Write(a) \/ JitStore(a)
  \/ \E a \in Hints, n \in Lens, w \in BOOLEAN :
       MmapHint(a, n, w) \/ MmapAnywhere(a, n, w)
  \/ \E n \in Lens : MmapRefused(n)
  \/ \E a \in Bases : munmap(a)
  \/ \E a \in Bases, w \in BOOLEAN : mprotect(a, w)

Spec == Init /\ [][Next]_vars

-----------------------------------------------------------------------------
(* Properties.                                                             *)

\* The bookkeeping of AddressSpace, on the same regions.
Regions == INSTANCE AddressSpace

\* The three searches of the region list say what the mapped addresses say,
\* whatever regions the calls leave: looking an address up finds a region
\* exactly when one contains it (region_idx), a hint-less mmap is offered the
\* lowest free address, and none only if nothing fits (find_free_range), and a
\* range that spans regions is accepted exactly if all of it is mapped
\* (validate_range).
QueriesExact ==
  /\ \A a \in Addr : region_idx(a) # 0 <=> a \in Mapped
  /\ \A n \in Lens \ {0} :
       LET free == {b \in MinAddr .. U64Max - n : Mapped \cap (b .. b + n - 1) = {}}
           lowest == IF free = {} THEN None ELSE Min(free)
       IN  find_free_range(n, MinAddr) = lowest /\ Regions!find_free_range(n, MinAddr) = lowest
  /\ Regions!RangeExact

\* The guest reads zeros from memory it has just got, whatever was stored
\* there before, and keeps the bytes of the memory it had.
FreshIsZero ==
  [][regions' # regions =>
       LET had == Mapped
       IN  \A a \in Mapped' : bytes'[a] = IF a \in had THEN bytes[a] ELSE 0]_vars

\* The break is the top of the heap region, if the guest leaves the heap to
\* brk.
HeapTop ==
  brk > HeapBase =>
    \E r \in Range(regions) : r.base = HeapBase /\ end(r) = brk

\* What the four rest on: the list is sorted, so the searches may stop early,
\* and no region reaches past the last address.
WellFormed(rs) == /\ Sorted(rs)
                  /\ \A i \in DOMAIN rs : end(rs[i]) <= U64Max

SpaceInv == TypeOK /\ WellFormed(regions)

\* The regions behave as AddressSpace has them, whatever calls are made: none
\* overlaps another, and a call changes the one region it names.
RefinesAddressSpace == Regions!AddressSpec
=============================================================================
