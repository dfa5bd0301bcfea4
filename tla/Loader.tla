------------------------------- MODULE Loader -------------------------------
(***************************************************************************)
(* Loading a program (shell/orchestrator and Session::load, prepare and    *)
(* prepare_arena of shell/prisma-session): the PE file is parsed and       *)
(* mapped, its imports are bound against the table of loaded modules, its  *)
(* sections and a stack become the guest's address space, and the initial  *)
(* stack is written.                                                       *)
(*                                                                         *)
(* Files and memory are made of cells.  A 16-bit or 32-bit field and a     *)
(* character are one cell, a 64-bit field is two, the low one first.  So a *)
(* descriptor of 20 bytes has 5 cells, the alignment of 16 bytes is one of *)
(* 4 cells, and an address has two cells.  Offsets and RVAs start at 0.    *)
(*                                                                         *)
(* The headers of a file are apart from its cells, as the fields of its    *)
(* record; head has the ones that parse checks, and the file's length, in  *)
(* bytes.  The directories and sections are given with what they hold.     *)
(***************************************************************************)
EXTENDS Integers, Sequences, FiniteSets, SequencesExt

CONSTANTS
  CellBase,    \* the values of a cell
  MaxImage,    \* MAX_IMAGE_SIZE
  MaxDlls,     \* MAX_DLLS
  MaxSymbols,  \* MAX_SYMBOLS
  MaxNames,    \* MAX_NAMES
  MaxString,   \* the cells read_cstr looks at
  StackSize,   \* DEFAULT_STACK_SIZE
  PageSize,    \* the page size the auxiliary vector reports
  Programs,    \* the files given to Session::load
  Libraries,   \* the modules the embedder registers: [name, base, file]
  StackBases,  \* the stack_base arguments of prepare
  Arguments,   \* the argv and envp arguments of prepare
  NewBases     \* the bases apply_relocations is tried with

U64Max == CellBase * CellBase - 1
U32Max == CellBase - 1

VARIABLES
  stage,    \* "idle", "loaded", "ready" or "failed"
  table,    \* ModuleTable: the modules by normalised name
  program,  \* the file of the session
  image,    \* MappedImage
  space,    \* the address space of the guest
  rsp       \* the initial stack pointer

loaderVars == <<stage, table, program, image, space, rsp>>

\* Result: the value, or the error.
Ok(v) == [err |-> "", val |-> v]
Err(e) == [err |-> e, val |-> << >>]

\* One more element in front of the elements that follow, if neither failed.
Prefixed(first, rest) ==
  IF first.err # "" THEN Err(first.err)
  ELSE IF rest.err # "" THEN rest
  ELSE Ok(<<first.val>> \o rest.val)

\* to_le_bytes of a 64-bit value.
Cells(v) == <<v % CellBase, v \div CellBase>>

-----------------------------------------------------------------------------
\* pe_loader.rs.

Pe32 == \h10B
Pe32Plus == \h20B
pe32_plus(f) == f.head.magic = Pe32Plus

\* The NT signature (4 bytes) and the COFF header (20) end at the optional one.
OptStart(h) == h.lfanew + 24
OptEnd(h) == OptStart(h) + h.opt_size

\* The checks of the headers, in their order; the section table has entries of
\* 40 bytes.
HeaderChecks(f) ==
  LET h == f.head
  IN  <<<<h.len < 64, "Truncated">>,
        <<h.dos_magic # "MZ", "BadDosMagic">>,
        <<OptStart(h) > h.len, "LfanewOutOfRange">>,
        <<h.nt_magic # "PE", "BadNtMagic">>,
        <<OptEnd(h) > h.len, "Truncated">>,
        <<h.magic \notin {Pe32, Pe32Plus}, "UnsupportedOptHeader">>,
        <<OptEnd(h) + 40 * Len(f.sections) > h.len, "Truncated">>>>

\* read_u32_at: a field that the optional header is too short for reads as 0.
read_u32_at(h, off, v) == IF off + 4 <= OptEnd(h) /\ off + 4 <= h.len THEN v ELSE 0

\* A directory that NumberOfRvaAndSizes does not count is absent.
parse(f) ==
  LET h == f.head
      failed == {i \in DOMAIN HeaderChecks(f) : HeaderChecks(f)[i][1]}
      numdirs == OptStart(h) + (IF pe32_plus(f) THEN 108 ELSE 92)
      num_dirs == read_u32_at(h, numdirs, h.num_dirs)
      rva(i, v) == IF num_dirs > i THEN read_u32_at(h, numdirs + 4 + 8 * i, v) ELSE 0
      size(i, v) == IF num_dirs > i THEN read_u32_at(h, numdirs + 8 + 8 * i, v) ELSE 0
  IN  IF failed # {} THEN Err(HeaderChecks(f)[Min(failed)][2])
      ELSE Ok([f EXCEPT !.exports = rva(0, @), !.imports = rva(1, @),
                        !.relocs = <<rva(5, @[1]), size(5, @[2])>>])

protection(sec) == [write |-> sec.write, exec |-> sec.exec]

\* The raw data of a section is copied to its virtual address.
CopySection(f, bytes, sec) ==
  [a \in DOMAIN bytes |->
     IF a - sec.va \in 0 .. sec.rawsize - 1
     THEN f.cells[sec.raw + (a - sec.va) + 1] ELSE bytes[a]]

RECURSIVE MapSections(_, _, _)
MapSections(f, bytes, i) ==
  IF i > Len(f.sections) THEN Ok(bytes)
  ELSE LET sec == f.sections[i]
       IN  IF sec.rawsize = 0 THEN MapSections(f, bytes, i + 1)
           ELSE IF sec.va + sec.rawsize > f.size THEN Err("SectionOutOfImage")
           ELSE IF sec.raw + sec.rawsize > Len(f.cells) THEN Err("SectionRawOutOfFile")
           ELSE MapSections(f, CopySection(f, bytes, sec), i + 1)

map_image(f) ==
  IF f.size > MaxImage THEN Err("ImageTooLarge")
  ELSE IF f.entry >= f.size THEN Err("EntryOutOfImage")
  ELSE IF f.base + f.size > U64Max THEN Err("ImageWrapsAddressSpace")
  ELSE LET mapped == MapSections(f, [a \in 0 .. f.size - 1 |-> 0], 1)
       IN  IF mapped.err # "" THEN mapped
           ELSE Ok([base |-> f.base, entry |-> f.base + f.entry, bytes |-> mapped.val])

\* A value of n cells at an offset of the image, and its replacement.
ValueAt(bytes, a, n) == IF n = 1 THEN bytes[a] ELSE bytes[a] + CellBase * bytes[a + 1]
Replaced(bytes, a, n, v) ==
  [b \in DOMAIN bytes |-> IF b - a \in 0 .. n - 1 THEN Cells(v)[b - a + 1] ELSE bytes[b]]

\* The cells a relocation of some type fixes up: HIGHLOW one, DIR64 two.
FixupCells(typ) == IF typ = 3 THEN 1 ELSE 2

\* Variant: every fixup is made on 64 bits.
FixupWide(bytes, raw, page, delta) ==
  LET typ == raw \div 16
      target == (page + (raw % 16)) % CellBase
  IN  IF typ = 0 THEN Ok(bytes)
      ELSE IF typ \notin {3, 10} THEN Err("RelocUnsupportedType")
      ELSE IF target + 2 > Cardinality(DOMAIN bytes) THEN Err("RelocOutOfImage")
      ELSE Ok(Replaced(bytes, target, 2,
                       (ValueAt(bytes, target, 2) + delta) % (CellBase * CellBase)))

\* One entry of a block: 4 bits of type and the offset in the page.
Fixup(bytes, raw, page, delta) ==
  LET typ == raw \div 16
      n == FixupCells(typ)
      target == (page + (raw % 16)) % CellBase
  IN  IF typ = 0 THEN Ok(bytes)
      ELSE IF typ \notin {3, 10} THEN Err("RelocUnsupportedType")
      ELSE IF target + n > Cardinality(DOMAIN bytes) THEN Err("RelocOutOfImage")
      ELSE Ok(Replaced(bytes, target, n,
                       (ValueAt(bytes, target, n) + delta) % (CellBase ^ n)))

\* The entries of a block from offset off on, and the blocks from off on.
RECURSIVE FixupBlock(_, _, _, _, _)
FixupBlock(bytes, off, last, page, delta) ==
  IF off >= last THEN Ok(bytes)
  ELSE LET r == Fixup(bytes, bytes[off], page, delta)
       IN  IF r.err # "" THEN r ELSE FixupBlock(r.val, off + 1, last, page, delta)

RECURSIVE FixupBlocks(_, _, _, _)
FixupBlocks(bytes, off, last, delta) ==
  IF off + 2 > last THEN Ok(bytes)
  ELSE IF bytes[off + 1] < 2 \/ off + bytes[off + 1] > last THEN Err("RelocBlockTruncated")
  ELSE LET r == FixupBlock(bytes, off + 2, off + bytes[off + 1], bytes[off], delta)
       IN  IF r.err # "" THEN r ELSE FixupBlocks(r.val, off + bytes[off + 1], last, delta)

\* The blocks are read from the image that the fixups change.
apply_relocations(f, m, base) ==
  IF f.relocs[1] = 0 \/ base = f.base THEN Ok(m)
  ELSE IF f.relocs[1] + f.relocs[2] > f.size THEN Err("RelocOutOfImage")
  ELSE LET delta == (base - f.base) % (CellBase * CellBase)
           r == FixupBlocks(m.bytes, f.relocs[1], f.relocs[1] + f.relocs[2], delta)
       IN  IF r.err # "" THEN r
           ELSE Ok([base |-> base, entry |-> base + f.entry, bytes |-> r.val])

\* The file offset of an RVA: the first section that contains it decides.
NoOffset == -1
rva_to_file_offset(f, rva) ==
  LET span(i) == Max({f.sections[i].vsize, f.sections[i].rawsize})
      hits == {i \in DOMAIN f.sections : rva - f.sections[i].va \in 0 .. span(i) - 1}
      sec == f.sections[Min(hits)]
  IN  IF hits # {} /\ rva - sec.va < sec.rawsize THEN sec.raw + (rva - sec.va) ELSE NoOffset

\* The characters up to a NUL, if there is one among the next MaxString.
read_cstr(f, off) ==
  LET last == IF off + MaxString < Len(f.cells) THEN off + MaxString ELSE Len(f.cells)
      nuls == {i \in off + 1 .. last : f.cells[i] = 0}
  IN  IF nuls = {} THEN Err("ImportStringUnterminated")
      ELSE Ok(SubSeq(f.cells, off + 1, Min(nuls) - 1))

Unmapped == Err("ImportRvaUnmapped")
CellAt(f, off) == f.cells[off + 1]

\* One entry of a lookup table: the high bit marks an ordinal, otherwise the
\* entry is the RVA of a hint and a name.
ImportSymbol(f, thunk) ==
  LET flag == (IF pe32_plus(f) THEN CellBase * CellBase ELSE CellBase) \div 2
      off == rva_to_file_offset(f, thunk % (CellBase \div 2))
      name == read_cstr(f, off + 1)
  IN  IF thunk >= flag THEN Ok([ordinal |-> thunk % (CellBase \div 2), name |-> << >>])
      ELSE IF off = NoOffset THEN Unmapped
      ELSE IF name.err # "" THEN name
      ELSE Ok([ordinal |-> -1, name |-> name.val])

ThunkCells(f) == IF pe32_plus(f) THEN 2 ELSE 1

\* The symbols of a lookup table from file offset off on, n at most.
RECURSIVE Thunks(_, _, _)
Thunks(f, off, n) ==
  LET width == ThunkCells(f)
      thunk == IF pe32_plus(f) THEN CellAt(f, off) + CellBase * CellAt(f, off + 1)
               ELSE CellAt(f, off)
  IN  IF n = 0 THEN Ok(<< >>)
      ELSE IF off + width > Len(f.cells) THEN Unmapped
      ELSE IF thunk = 0 THEN Ok(<< >>)
      ELSE Prefixed(ImportSymbol(f, thunk), Thunks(f, off + width, n - 1))

parse_thunks(f, rva) ==
  LET off == rva_to_file_offset(f, rva)
  IN  IF off = NoOffset THEN Unmapped ELSE Thunks(f, off, MaxSymbols)

\* One import descriptor: the name of the DLL, the symbols of its lookup
\* table (of its address table if it has no lookup table), the IAT.
Import(f, lookup, name_rva, iat) ==
  LET off == rva_to_file_offset(f, name_rva)
      dll == read_cstr(f, off)
      thunks == IF lookup # 0 THEN lookup ELSE iat
      symbols == IF thunks = 0 THEN Ok(<< >>) ELSE parse_thunks(f, thunks)
  IN  IF off = NoOffset THEN Unmapped
      ELSE IF dll.err # "" THEN dll
      ELSE IF symbols.err # "" THEN symbols
      ELSE Ok([dll |-> dll.val, symbols |-> symbols.val, iat |-> iat])

RECURSIVE ImportDescriptors(_, _, _)
ImportDescriptors(f, off, n) ==
  LET field(i) == CellAt(f, off + i)
  IN  IF n = 0 THEN Ok(<< >>)
      ELSE IF off + 5 > Len(f.cells) THEN Unmapped
      ELSE IF field(0) = 0 /\ field(3) = 0 /\ field(4) = 0 THEN Ok(<< >>)
      ELSE Prefixed(Import(f, field(0), field(3), field(4)), ImportDescriptors(f, off + 5, n - 1))

parse_imports(f) ==
  LET off == rva_to_file_offset(f, f.imports)
  IN  IF f.imports = 0 THEN Ok(<< >>)
      ELSE IF off = NoOffset THEN Unmapped
      ELSE ImportDescriptors(f, off, MaxDlls)

-----------------------------------------------------------------------------
\* The exports of a library and the table of loaded modules.

\* One named export: its name, then its index into the function table.  An
\* index past the table is skipped.
RECURSIVE Exports(_, _, _)
Exports(f, d, i) ==
  LET names == rva_to_file_offset(f, d.names) + i
      ords == rva_to_file_offset(f, d.ords) + i
      string == rva_to_file_offset(f, CellAt(f, names))
      name == read_cstr(f, string)
      index == CellAt(f, ords)
      slot == rva_to_file_offset(f, d.funcs) + index
      rest == Exports(f, d, i + 1)
  IN  IF i = d.count THEN Ok(<< >>)
      ELSE IF names >= Len(f.cells) THEN Err("ExportRvaUnmapped")
      ELSE IF string = NoOffset THEN Err("ExportRvaUnmapped")
      ELSE IF name.err # "" THEN name
      ELSE IF ords >= Len(f.cells) THEN Err("ExportRvaUnmapped")
      ELSE IF index >= d.functions THEN rest
      ELSE IF slot >= Len(f.cells) THEN Err("ExportRvaUnmapped")
      ELSE Prefixed(Ok([name |-> name.val, rva |-> CellAt(f, slot),
                        ordinal |-> (d.base + index) % CellBase]), rest)

parse_exports(f) ==
  LET dir == rva_to_file_offset(f, f.exports)
      field(i) == CellAt(f, dir + i)
  IN  IF f.exports = 0 THEN Ok(<< >>)
      ELSE IF dir = NoOffset \/ dir + 10 > Len(f.cells) THEN Err("ExportRvaUnmapped")
      ELSE IF field(6) = 0 THEN Ok(<< >>)
      ELSE IF NoOffset \in {rva_to_file_offset(f, field(i)) : i \in 7 .. 9}
        THEN Err("ExportRvaUnmapped")
      ELSE Exports(f, [base |-> field(4), functions |-> field(5),
                       count |-> IF field(6) < MaxNames THEN field(6) ELSE MaxNames,
                       funcs |-> field(7), names |-> field(8), ords |-> field(9)], 0)

\* Module names match whatever the case of their letters: to_ascii_lowercase.
normalize(name) == [i \in DOMAIN name |-> IF name[i] \in 65 .. 90 THEN name[i] + 32 ELSE name[i]]

\* ModuleTable::insert refuses a name that is in the table.
insert(t, lib, exports) ==
  IF normalize(lib.name) \in DOMAIN t THEN t
  ELSE [n \in DOMAIN t \union {normalize(lib.name)} |->
          IF n \in DOMAIN t THEN t[n] ELSE [base |-> lib.base, exports |-> exports]]

remove(t, name) == [n \in DOMAIN t \ {normalize(name)} |-> t[n]]

\* Variant: the import is looked for under the name as it is spelled.
ResolveSpelled(t, dll, sym) ==
  IF dll \notin DOMAIN t THEN Err("Unresolved")
  ELSE LET found == SelectSeq(t[dll].exports, LAMBDA e : e.name = sym.name)
       IN  IF found = << >> THEN Err("Unresolved") ELSE Ok(t[dll].base + found[1].rva)

\* resolve_imports of one request: the first export with the name or the
\* ordinal, unless its address overflows.
resolve_imports(t, dll, sym) ==
  LET key == normalize(dll)
      matches(e) == IF sym.ordinal = -1 THEN e.name = sym.name ELSE e.ordinal = sym.ordinal
      found == SelectSeq(t[key].exports, matches)
  IN  IF key \notin DOMAIN t THEN Err("Unresolved")
      ELSE IF found = << >> THEN Err("Unresolved")
      ELSE IF t[key].base + found[1].rva > U64Max THEN Err("Unresolved")
      ELSE Ok(t[key].base + found[1].rva)

\* PeImport::iat_slot_rva overflows where the RVA has no 32 bits left.
iat_slot_rva(f, imp, index) == imp.iat + index * ThunkCells(f)

\* The patches for the symbols of the imports, in the order of the tables.
RECURSIVE Patches(_, _, _, _, _)
Patches(f, t, imports, i, k) ==
  IF i > Len(imports) THEN Ok(<< >>)
  ELSE IF k > Len(imports[i].symbols) THEN Patches(f, t, imports, i + 1, 1)
  ELSE LET address == resolve_imports(t, imports[i].dll, imports[i].symbols[k])
           slot == iat_slot_rva(f, imports[i], k - 1)
       IN  IF address.err # "" THEN address
           ELSE IF slot > U32Max \/ f.base + slot > U64Max THEN Err("IatSlotOverflow")
           ELSE Prefixed(Ok([slot |-> f.base + slot, value |-> address.val]),
                         Patches(f, t, imports, i, k + 1))

\* A patch is 64 bits wide, also where the slots are 32 bits wide.
RECURSIVE apply_iat_patches(_, _, _)
apply_iat_patches(base, bytes, patches) ==
  IF patches = << >> THEN Ok(bytes)
  ELSE LET offset == Head(patches).slot - base
       IN  IF offset < 0 THEN Err("SlotBelowBase")
           ELSE IF offset + 2 > Cardinality(DOMAIN bytes) THEN Err("SlotOutOfRange")
           ELSE apply_iat_patches(base, Replaced(bytes, offset, 2, Head(patches).value),
                                  Tail(patches))

\* The relocation is to the base the image has, and so changes nothing.
load_pe_with_image(file, t) ==
  LET f == parse(file).val
      m == map_image(f)
      r == apply_relocations(f, m.val, m.val.base)
      imports == parse_imports(f)
      patches == Patches(f, t, imports.val, 1, 1)
      bound == apply_iat_patches(m.val.base, r.val.bytes, patches.val)
  IN  IF parse(file).err # "" THEN parse(file)
      ELSE IF m.err # "" THEN m
      ELSE IF r.err # "" THEN r
      ELSE IF imports.err # "" THEN imports
      ELSE IF patches.err # "" THEN patches
      ELSE IF bound.err # "" THEN bound
      ELSE Ok([r.val EXCEPT !.bytes = bound.val])

-----------------------------------------------------------------------------
\* The address space (backed_address_space.rs).  The window of an arena is an
\* interval <<from, to>>; without an arena it is the whole space.

Everywhere == <<0, U64Max>>
NewSpace(window) == [window |-> window, regions |-> << >>, bytes |-> << >>]

InRegion(r, a) == a \in r.base .. r.base + r.len - 1
Overlaps(regions, base, len) ==
  \E i \in DOMAIN regions : regions[i].base < base + len /\ base < regions[i].base + regions[i].len

\* The regions with one more, in the order of their bases.
Inserted(regions, r) ==
  InsertAt(regions, Cardinality({i \in DOMAIN regions : regions[i].base < r.base}) + 1, r)

map_with_bytes(s, base, content, prot) ==
  LET len == Len(content)
      cells == [a \in base .. base + len - 1 |-> content[a - base + 1]]
  IN  IF len = 0 THEN Err("ZeroSize")
      ELSE IF base + len > U64Max THEN Err("Overflow")
      ELSE IF Overlaps(s.regions, base, len) THEN Err("Overlap")
      ELSE IF base < s.window[1] \/ base + len > s.window[2] THEN Err("NoSpace")
      ELSE Ok([s EXCEPT !.regions = Inserted(@, [base |-> base, len |-> len, prot |-> prot]),
                        !.bytes = cells @@ @])

\* read, ensure_writable and write: the range lies in the region of its first
\* address, even if it is empty.
Holds(s, a, n) ==
  \E i \in DOMAIN s.regions :
    InRegion(s.regions[i], a) /\ a + n <= s.regions[i].base + s.regions[i].len
Writable(s, a, n) ==
  \E i \in DOMAIN s.regions :
    /\ InRegion(s.regions[i], a) /\ s.regions[i].prot.write
    /\ a + n <= s.regions[i].base + s.regions[i].len
Read(s, a, n) == [i \in 1 .. n |-> s.bytes[a + i - 1]]
Written(s, a, src) ==
  [s EXCEPT !.bytes = [b \in DOMAIN @ |->
     IF b - a \in 0 .. Len(src) - 1 THEN src[b - a + 1] ELSE @[b]]]

-----------------------------------------------------------------------------
\* guest_layout.rs and guest_stack.rs.

section_content(bytes, va, vsize) ==
  [i \in 1 .. vsize |-> IF va + i - 1 \in DOMAIN bytes THEN bytes[va + i - 1] ELSE 0]

ReadWrite == [write |-> TRUE, exec |-> FALSE]

AddSection(s, m, sec) ==
  IF sec.vsize = 0 THEN Ok(s)
  ELSE IF m.base + sec.va > U64Max THEN Err("Overflow")
  ELSE map_with_bytes(s, m.base + sec.va, section_content(m.bytes, sec.va, sec.vsize),
                      protection(sec))

\* The sections from the i-th on, then the zeroed stack.
RECURSIVE Populate(_, _, _, _, _)
Populate(s, f, m, stack, i) ==
  IF i > Len(f.sections)
  THEN map_with_bytes(s, stack, [j \in 1 .. StackSize |-> 0], ReadWrite)
  ELSE LET r == AddSection(s, m, f.sections[i])
       IN  IF r.err # "" THEN r ELSE Populate(r.val, f, m, stack, i + 1)

populate_backed(s, f, m, stack) == Populate(s, f, m, stack, 1)

\* AddressSpace::map, the regions without their bytes.
MapRegion(regions, base, len, prot) ==
  IF len = 0 THEN Err("ZeroSize")
  ELSE IF base + len > U64Max THEN Err("Overflow")
  ELSE IF Overlaps(regions, base, len) THEN Err("Overlap")
  ELSE Ok(Inserted(regions, [base |-> base, len |-> len, prot |-> prot]))

\* layout: the image as one region, and the stack.
layout(m, stack) ==
  LET r == MapRegion(<< >>, m.base, Cardinality(DOMAIN m.bytes), [write |-> TRUE, exec |-> TRUE])
  IN  IF r.err # "" THEN r ELSE MapRegion(r.val, stack, StackSize, ReadWrite)

\* layout_sections: a region for each section, and the stack.
RECURSIVE LayoutSections(_, _, _, _, _)
LayoutSections(regions, f, m, stack, i) ==
  IF i > Len(f.sections) THEN MapRegion(regions, stack, StackSize, ReadWrite)
  ELSE LET sec == f.sections[i]
           r == IF sec.vsize = 0 THEN Ok(regions)
                ELSE MapRegion(regions, m.base + sec.va, sec.vsize, protection(sec))
       IN  IF r.err # "" THEN r ELSE LayoutSections(r.val, f, m, stack, i + 1)

layout_sections(f, m, stack) == LayoutSections(<< >>, f, m, stack, 1)

-----------------------------------------------------------------------------
\* init_stack.rs.

\* The writes of a sequence of [at, cells], one after the other.
RECURSIVE WriteAll(_, _)
WriteAll(s, writes) ==
  IF writes = << >> THEN Ok(s)
  ELSE LET w == Head(writes)
       IN  IF ~ Writable(s, w.at, Len(w.cells)) THEN Err("Range")
           ELSE WriteAll(Written(s, w.at, w.cells), Tail(writes))

\* Where the i-th string starts: they descend from the top of the stack.
StringAt(top, strings) ==
  LET at[i \in 0 .. Len(strings)] == IF i = 0 THEN top ELSE at[i - 1] - (Len(strings[i]) + 1)
  IN  at

AtPageSize == 6

\* argc, argv, a null, envp, a null, the auxiliary vector and its end.
StackWords(argv, envp, at) ==
  <<Len(argv)>> \o [i \in DOMAIN argv |-> at[i]] \o <<0>>
    \o [i \in DOMAIN envp |-> at[Len(argv) + i]] \o <<0>>
    \o <<AtPageSize, PageSize, 0, 0>>

\* Variant: the block is placed right below the strings.
AlignDownNot(a) == a

\* 16 bytes are 4 cells.
AlignDown(a) == a - (a % 4)

build_initial_stack(s, top, argv, envp) ==
  LET strings == argv \o envp
      at == StringAt(top, strings)
      words == StackWords(argv, envp, at)
      sp == AlignDown(at[Len(strings)] - 2 * Len(words))
      texts == FlattenSeq([i \in DOMAIN strings |->
                 <<[at |-> at[i], cells |-> strings[i]],
                   [at |-> at[i] + Len(strings[i]), cells |-> <<0>>]>>])
      block == [i \in DOMAIN words |-> [at |-> sp + 2 * (i - 1), cells |-> Cells(words[i])]]
      r == WriteAll(s, texts \o block)
  IN  IF at[Len(strings)] < 0 THEN Err("Underflow")
      ELSE IF at[Len(strings)] < 2 * Len(words) THEN Err("Underflow")
      ELSE IF r.err # "" THEN r
      ELSE Ok([space |-> r.val, rsp |-> sp])

-----------------------------------------------------------------------------
\* Session.

\* prepare_arena's window: from the page of the image to the top of the stack.
ArenaWindow(m, stack) == <<m.base - (m.base % PageSize), stack + StackSize>>

prepare(f, m, arena, stack, args) ==
  LET window == IF arena THEN ArenaWindow(m, stack) ELSE Everywhere
      r == populate_backed(NewSpace(window), f, m, stack)
  IN  IF window[2] <= window[1] THEN Err("Arena")
      ELSE IF r.err # "" THEN r
      ELSE build_initial_stack(r.val, stack + StackSize, args.argv, args.envp)

LoaderInit ==
  /\ stage = "idle"
  /\ table = << >>
  /\ program = << >> /\ image = << >> /\ space = << >> /\ rsp = 0

\* The embedder registers a library, or unloads one, or all of them.
Register(lib) ==
  LET exports == parse_exports(parse(lib.file).val)
  IN  /\ stage = "idle"
      /\ parse(lib.file).err = "" /\ exports.err = ""
      /\ table' = insert(table, lib, exports.val)
      /\ UNCHANGED <<stage, program, image, space, rsp>>

Unregister(name) ==
  /\ stage = "idle" /\ table' = remove(table, name)
  /\ UNCHANGED <<stage, program, image, space, rsp>>

ClearModules ==
  /\ stage = "idle" /\ table' = << >>
  /\ UNCHANGED <<stage, program, image, space, rsp>>

\* Session::load.
Load(file) ==
  LET r == load_pe_with_image(file, table)
  IN  /\ stage = "idle"
      /\ program' = file
      /\ IF r.err = "" THEN stage' = "loaded" /\ image' = r.val
                       ELSE stage' = "failed" /\ UNCHANGED image
      /\ UNCHANGED <<table, space, rsp>>

\* Session::prepare and prepare_arena.
Prepare(arena, stack, args) ==
  LET r == prepare(parse(program).val, image, arena, stack, args)
  IN  /\ stage = "loaded"
      /\ IF r.err = "" THEN stage' = "ready" /\ space' = r.val.space /\ rsp' = r.val.rsp
                       ELSE stage' = "failed" /\ UNCHANGED <<space, rsp>>
      /\ UNCHANGED <<table, program, image>>

\* The embedder gives up after an error.
Abandon ==
  /\ stage = "failed"
  /\ stage' = "idle" /\ program' = << >> /\ image' = << >>
  /\ UNCHANGED <<table, space, rsp>>

LoaderNext ==
  \/ \E lib \in Libraries : Register(lib) \/ Unregister(lib.name)
  \/ ClearModules
  \/ \E f \in Programs : Load(f)
  \/ \E arena \in BOOLEAN, stack \in StackBases, args \in Arguments : Prepare(arena, stack, args)
  \/ Abandon

LoaderSpec == LoaderInit /\ [][LoaderNext]_loaderVars

-----------------------------------------------------------------------------
(* Properties.  A file of Programs says what its author meant by it: sound, *)
(* whether it loads; slots, the slots of its address tables as <<rva,       *)
(* library, symbol>>; pointers, its absolute addresses as <<rva, cells>>    *)
(* when its relocation directory is sound, and otherwise the empty set.     *)

Covering(f, a) ==
  {i \in DOMAIN f.sections : a - f.sections[i].va \in 0 .. f.sections[i].rawsize - 1}

\* What a cell of the file's image holds before imports are bound.
FromFile(f, a) ==
  IF Covering(f, a) = {} THEN 0
  ELSE LET sec == f.sections[Max(Covering(f, a))] IN f.cells[sec.raw + (a - sec.va) + 1]

\* The addresses the registered libraries give a symbol.
Provided(t, slot) ==
  {t[n].base + t[n].exports[i].rva : <<n, i>> \in
     {p \in {normalize(slot[2])} \X (1 .. 4) :
        /\ p[1] \in DOMAIN t /\ p[2] \in DOMAIN t[p[1]].exports
        /\ slot[3] \in {t[p[1]].exports[p[2]].name, <<t[p[1]].exports[p[2]].ordinal>>}}}

\* A load succeeds exactly when the file is sound and every symbol it imports
\* is exported by a registered library, whatever the spelling of its name;
\* then each slot of the address tables holds the address of its symbol, and
\* every other cell is the one of the last section that covers it, or 0.
LoadedExact ==
  [][stage = "idle" /\ stage' # "idle" => \A f \in Programs : program' = f =>
         LET bound == \A slot \in f.slots : Provided(table, slot) # {}
             at(a) == {slot \in f.slots : a - slot[1] \in 0 .. ThunkCells(f) - 1}
         IN  /\ stage' = "loaded" <=> f.sound /\ bound
             /\ stage' = "loaded" => \A a \in 0 .. f.size - 1 :
                  IF at(a) = {} THEN image'.bytes[a] = FromFile(f, a)
                  ELSE \E slot \in at(a) : \E v \in Provided(table, slot) :
                         image'.bytes[a] = Cells(v)[a - slot[1] + 1]]_loaderVars

\* Rebasing an image moves its absolute addresses by the difference of the
\* bases and changes no other cell; an unsound directory is refused.
RebaseExact ==
  stage = "loaded" =>
    \A base \in NewBases \ {program.base} :
      LET r == apply_relocations(parse(program).val, image, base)
          old == image.bytes
          delta == base - program.base
          moved(p) == (ValueAt(old, p[1], p[2]) + delta) % (CellBase ^ p[2])
          at(a) == {p \in program.pointers : a - p[1] \in 0 .. p[2] - 1}
      IN  IF parse(program).val.relocs[1] # 0 /\ program.pointers = {} THEN r.err # ""
          ELSE /\ r.err = ""
               /\ \A a \in DOMAIN old :
                    IF at(a) = {} THEN r.val.bytes[a] = old[a]
                    ELSE \E p \in at(a) : r.val.bytes[a] = Cells(moved(p))[a - p[1] + 1]

\* What the start-up code of the guest reads from the stack pointer on: the
\* words up to a null, the string at a pointer.
WordAt(s, a) == s.bytes[a] + CellBase * s.bytes[a + 1]
RECURSIVE WordsTo0(_, _)
WordsTo0(s, a) == IF WordAt(s, a) = 0 THEN << >> ELSE <<WordAt(s, a)>> \o WordsTo0(s, a + 2)
RECURSIVE StringTo0(_, _)
StringTo0(s, a) == IF s.bytes[a] = 0 THEN << >> ELSE <<s.bytes[a]>> \o StringTo0(s, a + 1)
Strings(s, pointers) == [i \in DOMAIN pointers |-> StringTo0(s, pointers[i])]

\* The guest starts with an aligned stack pointer and finds its arguments,
\* its environment and the page size from it on; its sections hold the cells
\* of the image and zeros after them, with the protection they ask for, and
\* no two regions overlap, and there are no others than the sections' and
\* the stack's, in an arena as without one (prepare, prepare_arena).
PreparedExact ==
  [][stage = "loaded" /\ stage' = "ready" =>
       LET argv == WordsTo0(space', rsp' + 2)
           envp == WordsTo0(space', rsp' + 2 * (Len(argv) + 2))
           auxv == rsp' + 2 * (Len(argv) + Len(envp) + 3)
       IN  /\ rsp' % 4 = 0
           /\ WordAt(space', rsp') = Len(argv)
           /\ [argv |-> Strings(space', argv), envp |-> Strings(space', envp)] \in Arguments
           /\ <<WordAt(space', auxv), WordAt(space', auxv + 2)>> = <<AtPageSize, PageSize>>
           /\ WordAt(space', auxv + 4) = 0
           /\ \A i \in DOMAIN program.sections :
                LET sec == program.sections[i]
                IN  \A a \in sec.va .. sec.va + sec.vsize - 1 :
                      /\ space'.bytes[image.base + a]
                           = IF a \in DOMAIN image.bytes THEN image.bytes[a] ELSE 0
                      /\ Writable(space', image.base + a, 1) = sec.write
           /\ \A i, j \in DOMAIN space'.regions : i < j =>
                space'.regions[i].base + space'.regions[i].len <= space'.regions[j].base
           /\ \E stack \in StackBases :
                LET r == layout_sections(program, image, stack)
                IN  r.err = "" /\ r.val = space'.regions]_loaderVars

=============================================================================
