# Prisma in TLA+

Prisma runs x86-64 programs on ARM64 hosts by translating blocks of guest code
at run time. This directory holds TLA+ models of its C++ core and its Rust
shell, the TLC configurations that check them on small instances, and TLAPS
proofs of their main properties for every instance. `PROJECT.json` maps each
definition to its source lines and lists the runs, mutants, findings, hazards
and theorems.

    tlc -workers 2 -config Session.cfg MCSession           # a run
    tlapm DispatcherProofs.tla                             # a proof module

## The system

The C++ core (`core/`) keeps translated blocks by guest pc, patches direct
branches between them and dispatches them. It has a persistent translation
cache, a page-protection guard against self-modifying code, and a futex wait
table. The Rust shell (`shell/`) has the whole path of a guest program: it loads
the executable, owns its address space, decodes, optimises and lowers its code,
runs it, and serves its system calls. It has its own cache, guard and dispatcher.

| Part | State | What is hard | Modules |
|---|---|---|---|
| Futex wait table | entry by address; users, waiters, credits | lost wakeups, entry lifetime, timeouts | `FutexWaitTable`, `FutexEvent` |
| Translator, dispatcher (C++) | block by pc, reverse patch index, branch words, step budget | a patched branch runs code the dispatcher does not see | `Translator`, `Dispatcher` |
| SMC guard (C++) | tracked pages, fault queue, protections | faults in signal context, queue overflow | `SmcGuard` |
| Translation cache (C++) | entries, index, order of use, file, worker | two versions of an address, a crash during a save | `TranslationCache` |
| Guest memory | sorted regions, bytes, break | aliasing, stale bytes, two views of one memory | `GuestMemory`, `AddressSpace` |
| Decoder, passes, backend, interpreter (Rust) | the block being built | a rewrite or a lowering that changes what a block means | `IR`, `Decoder` and `Decode*`, `Passes`, `ControlFlow`, `Lowerer`, `Interp` |
| Session run loop (Rust) | pc, CPU frame | cut blocks, resumption | `Session`, `X86` |
| Cache, guard, dispatcher (Rust) | entries, ticks, tracked pages, file | blocks on two pages, background saves | `CodeCache`, `Runtime` |
| Program loading | image, module table, stack | relocation and import edge cases | `Loader` |
| System calls | descriptors, signals, timers, host files | failed calls, overlapping buffers | `FdTable`, `Descriptors`, `Guest`, `IoCalls`, `SigCalls`, `InfoCalls`, `Process` |

Not modelled: see the last section.

## Modules

`MC*` modules give the constants of a run their values. Operators whose comment
starts with "Variant:" are plausible bugs in the definition that follows them.
They are part of no specification; each property is violated when the variant
that `PROJECT.json` names takes that definition's place.

### FutexWaitTable and FutexEvent

`core/include/prisma/futex_wait_table.hpp`. A thread runs one call at a time. A
call is split wherever another thread can get in: at each acquisition of a mutex,
each load of `shutting_down`, and each use of the condition variable. A critical
section of the table mutex is one step, since all it touches is guarded by that
mutex (`release_entry` reads two entry counters without the entry mutex; both are
variables, read at that step). An entry mutex is held across steps (`owner`).
`cv.wait` releases the mutex and sleeps in one step, may wake spuriously, and
re-evaluates its predicate. `notify_one` wakes any one sleeper. `FutexEvent` adds
guest threads that use one word as an event; the guest program is external.

### Translator and Dispatcher

`core/src/translator/translator.cpp`, `core/src/runtime/dispatcher.cpp`.
`Translator` has no variables: member functions are operators from state to
state, because `run()` calls several within one step. A stretch of guest bytes is
represented by what it decodes to, so equal hashes mean equal code. `Dispatcher`
interleaves the loop with a model of the host processor (`HostBranch`,
`HostReturn`), which follows the branch word in the buffer whatever the
dispatcher believes; `ran` counts what it executes and `step` what the dispatcher
accounts. Guest stores happen inside blocks and may change code. Statistics and
the return-address stack, which feeds only statistics, are left out. So is the error
of an unpatch that fails: the pool frees no block, the word has been patched before
and its fallback is in the same block, so `patch_aarch64_branch` has nothing to refuse.

### SmcGuard

`core/src/runtime/smc_guard.cpp` and the POSIX half of `signal_handler.cpp`.
Threads drain, run callbacks, translate or hit, store, and end a block. A thread drains
once per round and may then store and translate in any order and number, as the loop of
`dispatcher.cpp:158` does when it threads from block to block. Each
critical section of the spinlock is a step, and callbacks run outside it. A store
and the fault it causes are two steps. `stale` records the keys whose bytes were
written, and `forgotten` the keys that a translation on a tombstoned page has dropped
from the guard before a drain reported them; the code has neither variable. A
behaviour starts with one thread or with all; `Alone` tells which, and the properties
that hold of one thread only say so.

### TranslationCache

`core/src/cache/translation_cache.cpp`. Ticks are compared only with each other,
so access times are the relation "used before" (`older`). An `unordered_map` is
walked in any order. The loop of `maybe_evict` is given by its result: the oldest
entries, as many as the caps ask for. A save is a snapshot, an open that truncates, a header, and
one step per record; a failure or a crash can fall between any two. Hit counters,
compression and checksums are left out; one path is modelled.

### GuestMemory and AddressSpace

`backed_address_space.rs`, `guest_arena.rs`, `mem_syscalls.rs`,
`address_space.rs`. An address has one byte that is zero or not. The searches keep
the code's form (`partition_point` is a count over sorted regions). Arena mode
adds stores of translated code, which look at no region. `AddressSpace` is the
bookkeeping space the shell also has, and `GuestMemory` is checked to implement it.

### From guest bytes to executed code: Session

`Session` composes the Rust translator. A session is given a program, a fetch
window and an instruction cap. Its steps are those of the code: fetch; decode and
fuse one instruction (`optimize_fused_block`); each pass of the pipeline, a step
of its own; lower; execute; service a system call; resume. Beside it runs `cpu`,
the architecture's state after the instructions fused so far, as `X86` defines it.
The instruction set is a parameter of `Session` (`Decoding`, `Meaning`, `ByteLength`),
which `MCSession` takes from `Decode` and `X86`. Registers, memory, exits and all six
arithmetic flags are compared, apart from the flags in `cpu.open`: those the
architecture leaves undefined, and those that `Unpublished` lists for an instruction
because its translation does not leave them in RFLAGS (see below). A later instruction
that defines a flag closes it again.

* `IR`: statements, references, the integer operations. Widths are scaled by four
  (a guest byte has 2 bits, a 64-bit word 16), and everything the code derives
  from a width is derived from the scaled one. Bit positions of RFLAGS are literal.
* `Decoder`, `DecodeArith`, `DecodeBits`, `DecodeData`, `Decode`:
  `prisma-decoder`. An instruction is a record of its fields, not a byte string;
  prefixes, ModRM and SIB are parsed as the code does, and lengths are computed by
  its rules, apart from the operands.
* `Passes`: each per-block pass in the order of the pipelines. `ControlFlow`:
  successors, dominators, natural loops, `global_cse` and `licm` on functions.
* `Lowerer`: what the instructions emitted for each operation do
  to the guest state, with the allocation of value registers as a parameter and
  the NZCV flags as the host has them. Encodings are left out.
* `Interp`: the interpreter that the repository's tests use as the oracle.
* `X86`: the reference, per instruction and independent of the IR. It is not
  translated from the repository and not in the map.

`Session` also gives fragments of IR to the pipelines directly, and functions of
several blocks to the function passes, which no session exercises.

### Runtime and CodeCache

`prisma-cache`, and `dispatcher.rs` and `smc_guard.rs` of `prisma-runtime`.
`CodeCache` has the cache's operations as operators on a record. Its loops are given
by their results: `EvictedSets` has every set that `maybe_evict` can drop, the oldest
entries up to the one whose removal met the limits, and `invalidate_pages` has the
addresses of all pending pages at once. Ticks are naturals; the code's saturate after
2^64 uses. `recent` is the order of use as the calls made it, apart from the ticks;
the code has no such variable. `Runtime` is the
dispatcher's step (apply invalidations, fetch, probe, translate, install) among
stores, reported and unreported, cache calls, limits, saves in the caller and in
the background, loads and restarts. A content hash is the content. The background
writer creates the file and writes it in two steps; a restart may come between.

### Loading and system calls: Process

`Loader` is `orchestrator` and `Session::load`/`prepare`/`prepare_arena`: parse,
map sections, relocate, read exports and imports, bind against the module table,
lay out sections and stack, write the initial stack. Memory is made of cells of
8 bits; a 64-bit field is two cells. The headers are a record of the fields that
`parse` checks, in its order, with lengths and offsets in bytes. `Guest` holds the process state; `IoCalls`,
`SigCalls` and `InfoCalls` are the calls with their pointer checks and error paths,
and `Process` the dispatch on them. The host may fail any operation and may read
short. A behaviour makes the calls of one family, so that long sequences of related
calls fit. `FdTable` is the descriptor vector and `Descriptors` what POSIX
promises of a descriptor table.

## Runs

| Run | Instance | What it shows |
|---|---|---|
| `futex_table` | 2 threads, 1 address, 2 entries | the counters are exact, no call is on a second queue, no idle entry stays, a timed wait returns |
| `futex_event` | 2 waiters, 1 notifier, 3 entries | no lost wakeup, no stranded credit; every waiter sees the event |
| `futex_shutdown` | 2 threads | violation, see Findings |
| `dispatcher` | 3 pcs, jumps in cycles and a call, pool of 2, budget 3 | only current code runs, the step budget holds through patched branches, the inductive invariant holds, `run()` returns |
| `smc` | 1 and 2 threads, 2 pages, queue of 1 | protection is exact; alone, written code that the guard has not forgotten is reported and leaves the cache, and no fault of the guard's reaches the guest |
| `cache` | 3 keys, two of one address | a loadable file is the snapshot, oldest evicted first, page invalidation is exact for clients that `upsert` |
| `guest_memory` | 8 addresses, both modes, arena window of 5 | implements `AddressSpace`; searches match their definitions, the break tops the heap, fresh memory is zero |
| `session` | 213 instructions alone, 7 bit counts before a branch and 15 programs in 3 windows, from 3 CPU states; 265 IR fragments; 391 functions: the graphs of 3 blocks, some of 4 to 6 | blocks mean what the architecture says at every stage, the interpreter agrees, lengths and resumption are right, discovery covers, dominators, loops and function passes are exact |
| `session_ring`, `session_length` | one program each | violations |
| `runtime` | 4 bytes on 2 pages, 6 calls | a hit is current, reported writes take effect, least recent evicted, a load restores the save |
| `process` | 34 executables, 3 libraries, 5 descriptors, up to 4 calls | loading is exact or an error, descriptors refine `Descriptors`, transfers are exact, a failed call changes nothing but what its property names, state reads back, signals are exact |

### Bounds

* Futex: two threads that may each make any call reach every pair of racing calls;
  `futex_event` adds a third. Two entry identities allow one live and one detached.
  Addresses share only the identities and the shutdown flag, so one is used.
* Dispatcher: three pcs (one the sentinel) allow two blocks that jump to each other
  and to themselves; a pool of two runs out during a retranslation. The pool's
  buffers are never reused, so `PoolBlocks` bounds a behaviour's translations.
* Guard: a queue of one overflows at the second fault; one key spans two pages.
* Cache: two versions of one address and one of another; caps of 1 and 2 force
  evictions by count and size; one version is twice the size of the others.
* Memory: `U64Max` = 7 makes every end-of-space check reachable. The lengths
  include 0 and one above `MaxBytes`. The guest does not unmap the heap's base,
  because `HeapTop` is promised only while the heap is left to `brk`.
* Session: each instruction runs alone on states with small, extreme and mixed
  values; programs mix flag producers and consumers, stack, stores, loops, calls
  and system calls, whole, one instruction at a time and in a window of five bytes.
  `MaxSteps` lets a loop run round several times; `Fuel` does for functions.
* Runtime: one block spans both pages; limits of one and two entries evict.
  `MaxCalls` = 6 is enough to install, store, fault, save, restart and load.
* Process: `MaxCalls` is per family (4 signals, 3 descriptor calls, 2 or 1 of the
  others): the number of calls after which nothing new can interact.
* Deadlock is checked in every run. `FutexEvent`, `Session` and `Process` have a step
  that changes nothing for a guest that has come to its end.

### Fairness

* Futex: weak fairness of the steps of a call under way, strong fairness of taking
  an entry mutex (a mutex free again and again is obtained in the end, which
  `std::mutex` does not promise but schedulers provide), strong fairness of a
  deadline. No call, store, spurious wakeup or (in `FutexEvent`) timeout is assumed
  to happen. `FutexEvent` also assumes that its guest threads run on.
* Dispatcher: weak fairness of the loop, which runs on one thread and never blocks.
* Guard: weak fairness of each thread's loop; strong fairness of a block ending,
  since a guest block is a finite run of instructions.
* The other specifications state safety only: their steps are calls of a client.

## Proofs

All are checked by TLAPS with Z3, Zenon and LS4, from the assumptions on the constants
that the modules name (`FutexAssumption`, `EventAssumption`, `TranslatorAssumption`,
`DispatcherAssumption`, `SmcAssumption`, `CacheAssumption`, `MemoryAssumption`,
`FdAssumption`, `PageAssumption`), which TLC evaluates in the runs. Each component has its
inductive invariant.

* `FutexWaitTableProofs`, `TableInv`: any finite set of threads, any addresses, words and
  entries. The counters alone are not inductive. `UsersExact` and `OneQueuePerAddress`
  depend on each other: an entry is erased only when no call uses it. They need
  `HoldsEntry` and `MapConsistent` (who holds which entry). `NoCreditUnderflow` needs
  `MutexHeld`: between evaluating `ready` and taking the credit no other thread gets in.
* `FutexWakeProofs`, `WakeInv` and `EventInv`, both relative to `TableInv`. `WakeInv` gives
  `CreditsNeverStranded` and `NoIdleEntry`: `wake` notifies after it has released the
  entry mutex, so the credits of an entry are counted against the threads that run on to
  take one and the notifications still to come.
  `EventInv` follows the guest's event word through the steps of waiters and notifiers
  and gives `NoWakeupLost`. `EventUsesTable` shows that the guests are clients of the
  table as specified, which is what carries the table's theorems over.
* `DispatcherProofs`, `DispatcherInv`: any pcs, codes, pool and budget. Its first part
  shows that unpatching, patching, retiring, emitting and translating preserve
  `PatchInv`. The heart of that is `NoChain` with `BranchesCurrent`: a patched branch
  enters a block that returns, so one call runs at most two blocks. The dispatcher's part
  says that the block about to run, and the one a kept patch leads to, are current,
  unchanged, not halting and within budget. It follows across the first block because a
  block that may store is never patched.
* `SmcGuardProofs`, `GuardInv`: any threads, pages, keys and queue size; it gives
  `NoTombstoneLost` and `EntriesMatchKeys`. `ProtectionIsExact` assumes that a host page
  holds one guest page, and allows any set of pages that `mprotect` refuses. `SoloInv`, for
  one dispatching thread, says that each cached key is registered on all its pages,
  reported, or forgotten by a translation on a tombstoned page, and gives
  `StaleAlwaysReported` (of the keys that are not forgotten) and `NoOwnFaultEscapes`.
* `TranslationCacheProofs`, `CacheInv`: any keys, sizes and caps. `older` is a total order of
  the entries; the index names the one version of each address (for clients that only
  `upsert`); and the snapshot is what the file holds together with what the worker has
  still to write, which makes a loadable file the snapshot (`SavedFileIsExact`).
  `EvictionIsLru` also needs that the evicted set is an initial segment of `older`.
* `GuestMemoryProofs`, `SpaceInv` (regions sorted, disjoint, inside the space): any layout,
  window and size. The searches come first: for a sorted list `region_idx`,
  `find_free_range` and `validate_range` say what the set of mapped addresses says. The
  two walks are recursive functions, for which a solution is shown to exist and
  characterised by induction over a set. Then each call keeps `SpaceInv`, and the
  refinement of `AddressSpace` and the three properties follow.
* `RuntimeProofs`, `RuntimeInv`: any mapped bytes, page size, fetch length, code lengths and
  limits. Every entry holds the code of the content it is keyed by (`HitsAreCurrent`).
  The ticks of the entries are in the order `recent` of the calls, and below the next tick
  (`EvictionFollowsUse`). The page of a live watched translation is tracked or pending,
  and the page of a doomed one is pending (`ReportedWritesDrop`): a page leaves `pages`
  only for `pending_pages`, and those are drained only by the step that drops what starts
  in them. A whole file, and what a background writer holds, has the code of its own
  snapshot (`LoadRestoresSaved`), for either setting of compression.
* `FdTableProofs`, `FdSpec => RefinesDescriptors`: any entries and any greatest descriptor.
  The abstract table is a function on the open descriptors; the vector maps to it by its
  entries that are not free. The first free entry at or above a minimum is the least free
  descriptor (`LeastNat`), also when it lies behind the end, where the vector is grown with
  free entries.

Model-checked only:

* the liveness properties `TimedWaitReturns`, `EventDelivered`, `RunReturns` and
  `StaleLeaves`: the prover handles neither fairness nor `ENABLED`;
* the properties of `Session`: decoder, passes, lowerer and interpreter are recursive
  operators over blocks and compute with bit operations, and neither is within the
  prover's reach;
* the properties of `Loader` and of the system calls in `Process` other than the
  descriptor table, for the same reason: they parse, relocate and copy with recursive
  operators on cells.

## Findings

Each is a run that ends in a counterexample; `PROJECT.json` quotes the line it
contradicts.

1. `futex_shutdown`: `shutdown` never takes the entry mutex, so its flag and
   notification can fall between a waiter's check and its sleep; an untimed waiter
   stays asleep.
2. `session_ring`: values live in a ring of eight host registers, and a block reads
   one whose register has been handed out again. An ADD with its flags is enough.
3. `session_length`: an immediate operation on a register with number 4 (`add rsp, 8`)
   is taken to be a byte longer than it is.

### What the instances leave out because the code does otherwise

The passing runs exclude these cases. Each was met while modelling, and putting it
into the instance makes the property that covers it fail.

C++ core:

* `FutexEvent` with `Pending = {0, 1}`: credits are anonymous, and a waiter that
  comes back can take the one a sleeping thread was given, where RFC 0022 says that
  `FUTEX_WAKE` signals N waiters.
* `StaleReported` and `StaleLeaves` without `forgotten`: translating on a tombstoned
  page clears its keys before they are reported (`smc_guard.cpp:139`; RFC 0010:18 says
  that every translation that covers the page is invalidated). One thread is enough: a
  block stores, and its successor on the same page is translated at
  `dispatcher.cpp:228`, where nothing drains. With two threads another one's drain or
  translation may also come between a store and its fault, so both properties are
  stated for one. `NoSpuriousFault` without `Alone`: a second fault on a page just
  tombstoned is treated as the guest's (line 185).
* `SmcGuard` with several guest pages in a host page: a store to an untracked
  neighbour faults and is not consumed (`smc_guard.cpp:185`, against the comment at
  line 105).
* `PageDropped` without `~ inserting`: after `insert` left two versions of an
  address, `invalidate_page` drops only the latest (`translation_cache.cpp:183`), and a
  reload may take the older one for the latest (line 419). An entry above the byte
  cap is evicted too, where the comment at line 64 says it stays.

Guest memory and loading:

* A hint-less `mmap` in arena mode searches from `MMAP_MIN_ADDR`, below the window,
  and fails though the window has room (`mem_syscalls.rs:118`; RFC 0020:103).
* Nothing sets `heap_base`, so a session's `brk` starts at 0 and maps the null page
  (`syscall_dispatch.rs:180`).
* A file that ends within the first 60 bytes of its optional header is indexed behind
  its end (`pe_loader.rs:331`).
* An import slot is always patched with 8 bytes, in a 32-bit image too.
* A session fetches from the loaded image: code the guest writes is not executed.

Translation:

* POP RSP; JBE, JA and the CMOV and SET of these conditions at the start of a block;
  JB and JAE after a fused CMP (the carry's polarity); CWD and CDQ below 64 bits; ROL,
  ROR and SAR below 64 bits; MOVSXD with a 66 prefix; CMPXCHG8B and CMPXCHG16B (flags, RIP-relative operands, a reference defined
  twice); segment overrides are ignored; most RIP-relative operands take the next
  instruction's address for 0.
* Flags that an instruction defines and its translation does not leave in RFLAGS; they
  are run, and compared in everything but these: all flags of SHL, SHR, SAR and NEG, CF
  and OF of ROL, ROR, MUL and IMUL in all forms (the decoder emits no flag operation);
  all flags of POPCNT, CF and ZF of LZCNT and TZCNT, ZF of BSF and BSR (`decode.rs:6959`,
  7010 and 7061 write them, but `lowerer.rs:921` leaves them in the host's flags: a branch
  in the same block sees them, which is checked, and a later block does not); AF and PF
  of CMPXCHG, CMPS and SCAS. `MCUnpublished` is this list.
* A trap returns without the epilogue. A division that traps leaves the exit reason
  normal, so the loop goes on behind it where the architecture stays at the instruction:
  divisions are run to the trap, by themselves, and `LoopFollowsProgram` ends there.
* SYSCALL has no static successor, so `reachable_blocks` stops at it.
* `branch_fold` on the conditions that read flags directly, `const_prop` on the
  signed high product and on a division by zero (folded to 0), `copy_prop` on
  `Or x, x` of a narrow size; narrow `Sar`, `Ror`, `Rol`, high products and signed
  divisions differ between interpreter and backend.
* `licm` moves register loads, compares and divisions out of loops that store the
  register or do not run (against `licm.rs:20`), and into a preheader that is not
  reachable. Functions are lowered in layout order, so a value defined in a block
  laid out later does not lower. No session runs the function pipeline yet.
* PCMPxSTRx swaps the roles of its operands, and lanes invalid in both do not match
  in equal-each mode; a block has room for three 128-bit values, and
  `redundant_load` and `dead_store` do not look at vector loads and stores.

Runtime and system calls:

* After a load the Rust cache neither keeps the order of use nor enforces its limits.
* The guard's pending keys, other than its pages, are never drained. A block that
  reaches into a written page stays in the cache; the content hash keeps it from
  being used.
* `rt_sigaction` on SIGKILL and SIGSTOP writes the old action and then fails with
  EINVAL, where its comment says "with no effect" (`sig_syscalls.rs:83`);
  `ErrorsChangeNothing` names the case. Calls with an old and a new value, and `getcpu`,
  have written through the first pointer when the second is bad. Calls given the same pointer for the new and the old value read what they wrote; a
  zero-length buffer at a bad address is a fault.

## Not modelled

* The C++ decoder, IR, passes and backend: the Rust ones mirror them and are what a
  session runs.
* Decoding of CRC32 and the half-precision conversions, the x87 pass, `tail_call.rs`
  (in no pipeline), the path that translates each instruction by itself, and the
  translator of the dispatcher's contract tests.
* Instruction encodings, hashes, compression and file layouts: conversions without
  control, served by their test vectors.
* JIT memory and pools, fault-recovery scopes, the C interface: wrappers over the host
  with one owner each.
* Containers, configuration, Windows process structures, the Lean specification, the
  Android application and tools.
