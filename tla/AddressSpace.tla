---------------------------- MODULE AddressSpace ----------------------------
(***************************************************************************)
(* The bookkeeping of a guest's virtual memory                             *)
(* (shell/orchestrator/src/address_space.rs): mapped regions in the order  *)
(* of their addresses, none of which overlaps another.  The space that     *)
(* also holds the bytes, GuestMemory, is an implementation of this one.    *)
(*                                                                         *)
(* Of a region's protection only write permission is ever asked for; its   *)
(* name is a label for diagnostics.                                        *)
(***************************************************************************)
EXTENDS Integers, Sequences, FiniteSetsExt

CONSTANTS
  U64Max,   \* u64::MAX
  None      \* no address

VARIABLE regions

\* map refuses a region that reaches past u64::MAX, so no end saturates.
end(r) == r.base + r.len
contains(r, addr) == addr >= r.base /\ addr < end(r)
overlaps(r, base, size) == r.base < base + size /\ base < end(r)

Region == [base : 0 .. U64Max, len : 1 .. U64Max, writable : BOOLEAN]
Ordered(rs) == \A i, j \in DOMAIN rs : i < j => end(rs[i]) <= rs[j].base

\* Vec::insert behind the first n elements, and Vec::remove.
Insert(rs, n, r) == SubSeq(rs, 1, n) \o <<r>> \o SubSeq(rs, n + 1, Len(rs))
Remove(rs, i) == SubSeq(rs, 1, i - 1) \o SubSeq(rs, i + 1, Len(rs))

\* slice::partition_point: how many elements precede the first not in S.
partition_point(rs, S) == Min((1 .. Len(rs) + 1) \ S) - 1

-----------------------------------------------------------------------------
FreeRange(base, size) == \A i \in DOMAIN regions : ~ overlaps(regions[i], base, size)

\* The number of regions that start below base.
Below(base) ==
  partition_point(regions, {i \in DOMAIN regions : regions[i].base < base})

map(base, size, writable) ==
  /\ size # 0 /\ base + size <= U64Max /\ FreeRange(base, size)
  /\ regions' = Insert(regions, Below(base),
                       [base |-> base, len |-> size, writable |-> writable])

unmap(base) ==
  \E i \in DOMAIN regions : regions[i].base = base /\ regions' = Remove(regions, i)

\* The protection of a whole region.
mprotect(base, writable) ==
  \E i \in DOMAIN regions :
    regions[i].base = base /\ regions' = [regions EXCEPT ![i].writable = writable]

\* Only the next region can be in the way.
resize_region(base, size) ==
  \E i \in DOMAIN regions :
    /\ regions[i].base = base
    /\ size # 0 /\ base + size <= U64Max
    /\ i # Len(regions) => base + size <= regions[i + 1].base
    /\ regions' = [regions EXCEPT ![i].len = size]

clear == regions' = << >>

-----------------------------------------------------------------------------
\* The index of the region that contains addr, or 0: the only candidate is
\* the last one that starts at or below it.
translate(addr) ==
  LET i == partition_point(regions, {j \in DOMAIN regions : regions[j].base <= addr})
  IN  IF i # 0 /\ contains(regions[i], addr) THEN i ELSE 0

\* Region by region from addr to the end of the range: walk[x] is the
\* answer for the rest of it.
walk_regions(addr, to, need_write) ==
  LET walk[x \in addr .. U64Max] ==
        IF x >= to THEN "ok"
        ELSE IF translate(x) = 0 THEN "Unmapped"
        ELSE IF need_write /\ ~ regions[translate(x)].writable THEN "NotWritable"
        ELSE walk[end(regions[translate(x)])]
  IN  walk

validate_range(addr, len, need_write) ==
  IF len = 0 THEN "ok"
  ELSE IF addr + len > U64Max THEN "Overflow"
  ELSE walk_regions(addr, addr + len, need_write)[addr]

\* The walk over the gaps: passed[i] is the cursor behind regions 1 to i.
cursor(min_addr) ==
  LET passed[i \in 0 .. Len(regions)] ==
        IF i = 0 THEN min_addr ELSE Max({passed[i - 1], end(regions[i])})
  IN  passed

find_free_range(len, min_addr) ==
  LET passed == cursor(min_addr)
      fits == {i \in DOMAIN regions :
                 /\ end(regions[i]) > passed[i - 1]
                 /\ regions[i].base >= passed[i - 1] + len}
      found == passed[IF fits = {} THEN Len(regions) ELSE Min(fits) - 1]
  IN  IF len # 0 /\ found + len <= U64Max THEN found ELSE None

-----------------------------------------------------------------------------
AddressInit == regions \in Seq(Region) /\ Ordered(regions)

\* mmap_anon maps where find_free_range says.
AddressNext ==
  /\ regions' # regions
  /\ \/ clear
     \/ \E base \in 0 .. U64Max :
          \/ unmap(base)
          \/ \E w \in BOOLEAN : mprotect(base, w)
          \/ \E size \in 1 .. U64Max : resize_region(base, size)
          \/ \E size \in 1 .. U64Max, w \in BOOLEAN : map(base, size, w)

AddressSpec == AddressInit /\ [][AddressNext]_regions

\* A pointer argument is accepted exactly when every byte of its range is
\* mapped, and writable if the call writes, however many regions it spans; a
\* refusal names the first byte at fault.
RangeExact ==
  \A addr \in 0 .. U64Max - 1, len \in 1 .. U64Max, need_write \in BOOLEAN :
    LET bad == {a \in addr .. addr + len - 1 :
                  ~ \E i \in DOMAIN regions :
                      contains(regions[i], a) /\ (need_write => regions[i].writable)}
        first == Min(bad)
    IN  validate_range(addr, len, need_write) =
          IF addr + len > U64Max THEN "Overflow"
          ELSE IF bad = {} THEN "ok"
          ELSE IF \E i \in DOMAIN regions : contains(regions[i], first) THEN "NotWritable"
          ELSE "Unmapped"
=============================================================================
