----------------------------- MODULE MCProcess -----------------------------
(* Programs with and without imports and relocations, sound and not; two    *)
(* libraries, one of them spelled in two ways.                              *)
EXTENDS Process

Section(va, vsize, raw, rawsize, w, x) ==
  [va |-> va, vsize |-> vsize, raw |-> raw, rawsize |-> rawsize, write |-> w, exec |-> x]

\* The headers of a file with two sections and all its directories.  A file
\* that ends within the first 60 bytes of the optional header is not among the
\* programs.
Header ==
  [len |-> 500, dos_magic |-> "MZ", lfanew |-> 64, nt_magic |-> "PE", opt_size |-> 240,
   magic |-> Pe32Plus, num_dirs |-> 16]

\* Code of two cells, and data of two cells with one more of zeros.
Plain ==
  [head |-> Header, base |-> 16, size |-> 7, entry |-> 1, exports |-> 0, imports |-> 0, relocs |-> <<0, 0>>, cells |-> <<11, 12, 13, 14>>,
   sections |-> <<Section(1, 2, 0, 2, FALSE, TRUE), Section(4, 3, 2, 2, TRUE, FALSE)>>,
   sound |-> TRUE, slots |-> {}, pointers |-> {}]

\* Descriptors at 1 and 6, the lookup table of the first at 16, a hint and a
\* name at 22, the names of the libraries at 25 and 27, address tables at 29
\* and 35.  The second has no lookup table.
Linked ==
  [Plain EXCEPT !.size = 40, !.imports = 1,
   !.cells = <<16, 0, 0, 25, 29, 0, 0, 0, 27, 35, 0, 0, 0, 0, 0,
               22, 0, 7, 128, 0, 0, 9, 102, 0, 75, 0, 109, 0,
               22, 0, 7, 128, 0, 0, 22, 0, 0, 0>>,
   !.sections = <<Section(1, 38, 0, 38, TRUE, FALSE)>>,
   !.slots = {<<29, <<75>>, <<102>>>>, <<31, <<75>>, <<7>>>>, <<35, <<109>>, <<102>>>>}]

\* The same in 32 bits, with one library.
Narrow ==
  [Linked EXCEPT !.head.magic = Pe32, !.head.opt_size = 224, !.size = 30,
   !.cells = <<11, 0, 0, 17, 19, 0, 0, 0, 0, 0,
               14, 135, 0, 9, 102, 0, 75, 0, 14, 135, 0, 3>>,
   !.sections = <<Section(1, 22, 0, 22, TRUE, FALSE)>>,
   !.slots = {<<19, <<75>>, <<102>>>>, <<20, <<75>>, <<7>>>>}]

\* A relocation directory at 7: a block with a pointer of one cell at 1, one
\* of two cells at 4 and a pad, and an empty block.
Movable ==
  [Plain EXCEPT !.size = 16, !.relocs = <<7, 7>>,
   !.cells = <<250, 12, 13, 255, 1, 0, 1, 5, 48, 163, 0, 0, 2>>,
   !.sections = <<Section(1, 13, 0, 13, TRUE, FALSE)>>,
   !.pointers = {<<1, 1>>, <<4, 2>>}]

Unsound(f) == [f EXCEPT !.sound = FALSE]
Unmovable(cells) == [Movable EXCEPT !.cells = cells, !.pointers = {}]

\* The program that runs.  Read-only cells at 17: a vector of one cell at 17
\* and one at an address that is not mapped.  Data at 22: two cells; at 24 a
\* vector of the first of them and of the two at 28; at 30 a vector of itself
\* and of the two cells at 22; at 34 the pollfds of descriptor 0, of -1 and of
\* 3; the two cells at 43 are the last ones.
Runner ==
  [Plain EXCEPT !.size = 30,
   !.cells = <<17, 1, 99, 1, 5, 6, 22, 1, 28, 2, 254, 0, 30, 1, 22, 2,
               0, 5, 9, 200, 5, 9, 3, 5, 9, 11, 12>>,
   !.sections = <<Section(1, 4, 0, 4, FALSE, TRUE), Section(6, 23, 4, 23, TRUE, FALSE)>>]

MCPrograms == {
  Runner, Plain, Linked, Narrow, Movable,
  \* the directories the header does not count, or is too short for, are not there
  [Linked EXCEPT !.head.num_dirs = 1, !.slots = {}],
  [Movable EXCEPT !.head.num_dirs = 5, !.pointers = {}],
  [Linked EXCEPT !.head.opt_size = 120, !.slots = {}],
  [Narrow EXCEPT !.head.opt_size = 108],
  [Movable EXCEPT !.head.opt_size = 111, !.pointers = {}],
  \* the section table ends where the file ends
  [Plain EXCEPT !.head.len = 408],
  \* sections that overlap: the later one is seen, but they have no layout
  [Plain EXCEPT !.sections = <<Section(1, 2, 0, 3, FALSE, TRUE), Section(2, 3, 1, 2, TRUE, FALSE)>>],
  \* a section without raw data, and one without virtual size
  [Plain EXCEPT !.sections = <<Section(2, 4, 0, 0, TRUE, FALSE), Section(1, 0, 2, 1, TRUE, FALSE)>>],
  Unmovable(<<250, 12, 13, 255, 1, 0, 1, 9, 48, 163, 0, 0, 2>>),
  Unmovable(<<250, 12, 13, 255, 1, 0, 1, 5, 32, 163, 0, 0, 2>>),
  Unmovable(<<250, 12, 13, 255, 1, 0, 1, 5, 174, 163, 0, 0, 2>>),
  Unsound([Plain EXCEPT !.head.len = 63]),
  Unsound([Plain EXCEPT !.head.dos_magic = "ZM"]),
  Unsound([Plain EXCEPT !.head.lfanew = 477]),
  Unsound([Plain EXCEPT !.head.nt_magic = "NE"]),
  Unsound([Plain EXCEPT !.head.opt_size = 413]),
  Unsound([Plain EXCEPT !.head.magic = \h107]),
  Unsound([Plain EXCEPT !.head.len = 407]),
  Unsound([Plain EXCEPT !.size = 60]),
  Unsound([Plain EXCEPT !.entry = 7]),
  Unsound([Plain EXCEPT !.base = 65530]),
  Unsound([Plain EXCEPT !.size = 5]),
  Unsound([Plain EXCEPT !.cells = <<11, 12, 13>>]),
  Unsound([Linked EXCEPT !.imports = 39]),
  Unsound([Linked EXCEPT !.imports = 36, !.slots = {}]),
  Unsound([Linked EXCEPT !.cells[4] = 40]),
  Unsound([Linked EXCEPT !.cells[16] = 50]),
  Unsound([Linked EXCEPT !.cells[5] = 39]),
  Unsound([Narrow EXCEPT !.cells[1] = 0, !.cells[21] = 14, !.cells[22] = 14])}

\* An export directory: base ordinal 7, two functions, two names, of which
\* the second has no function.
Library ==
  [Plain EXCEPT !.size = 24, !.exports = 1,
   !.cells = <<0, 0, 0, 0, 7, 2, 2, 11, 13, 15, 3, 5, 17, 19, 0, 9, 102, 0, 103, 0>>,
   !.sections = <<Section(1, 20, 0, 20, FALSE, FALSE)>>]

MCLibraries == {[name |-> <<107>>, base |-> 100, file |-> Library],
                [name |-> <<75>>, base |-> 120, file |-> Library],
                [name |-> <<77>>, base |-> 300, file |-> Library]}

MCArguments == {[argv |-> <<<<97, 98>>>>, envp |-> <<<<99>>>>],
                [argv |-> << >>, envp |-> << >>],
                [argv |-> <<<<97>>, << >>>>, envp |-> <<<<99, 100>>, <<101>>>>],
                [argv |-> <<<<97, 97, 97, 97, 97, 97, 97, 97, 97, 97>>>>, envp |-> << >>]}
MCStart == [arena |-> TRUE, stack |-> 60, rsp |-> 72]
MCContents == [f \in {"File"} |-> <<31, 32, 33>>]
MCInput == <<51, 52, 53>>
MCFds == {-1, 0, 1, 3, 4}
MCMaxCalls == [fd |-> 3, file |-> 2, vector |-> 1, signal |-> 4, swap |-> 2, time |-> 1,
               system |-> 1, state |-> 2]
=============================================================================
