------------------------------- MODULE Process -------------------------------
(***************************************************************************)
(* A process of the Rust shell: the loader prepares its memory, and then   *)
(* the run loop hands its system calls to dispatch                         *)
(* (shell/prisma-session/src/syscall_dispatch.rs) until it exits.  A       *)
(* behaviour makes the calls of one family.                                *)
(***************************************************************************)
EXTENDS IoCalls, SigCalls, InfoCalls

CONSTANTS
  GuestProgram,   \* the program that runs, of Programs
  GuestStart,     \* how it is prepared: [arena, stack, args]
  Fds,            \* the descriptors the guest passes
  Buffers,        \* the addresses of cells it passes
  Vectors,        \* the addresses of iovec arrays
  PollArrays,     \* the addresses of pollfd arrays
  Cell,           \* the addresses of single structures, null included
  Sets,           \* the addresses of signal sets
  Counts          \* the counts of cells

processVars == <<loaderVars, fdVars, guestVars>>

-----------------------------------------------------------------------------
\* Before the guest runs: the embedder may give it a file.
Loading == LoaderNext /\ UNCHANGED <<fdVars, guestVars>>

\* Of the ways to prepare the program that runs, one goes on.
MayStart ==
  /\ stage = "ready" /\ table = << >> /\ program = GuestProgram
  /\ space.window = (IF GuestStart.arena THEN ArenaWindow(image, GuestStart.stack) ELSE Everywhere)
  /\ \E i \in DOMAIN space.regions : space.regions[i].base = GuestStart.stack
  /\ rsp = GuestStart.rsp

Attach ==
  /\ MayStart /\ Len(fds) = 3
  /\ \E f \in Files : allocate(f)
  /\ UNCHANGED <<loaderVars, guestVars>>

Start ==
  /\ MayStart
  /\ stage' = "running" /\ focus' \in DOMAIN MaxCalls
  /\ focus' \in {"file", "vector"} => Len(fds) > 3
  /\ UNCHANGED <<table, program, image, space, rsp, fdVars, host, ctx, ret, call, calls, log>>

\* The process is ready and does not run, has exited, or its calls have reached
\* their bound.
Over ==
  /\ \/ stage = "ready"
     \/ stage = "running" /\ (ctx.exit # << >> \/ calls = MaxCalls[focus])
  /\ UNCHANGED processVars

-----------------------------------------------------------------------------
\* dispatch, by family.

FdCalls ==
  /\ focus = "fd"
  /\ \/ \E f \in Files : HostOpens(f)
     \/ \E fd \in Fds : CloseFd(fd) \/ Dup(fd)
     \/ \E old \in Fds, new \in Fds : Dup2(old, new)
     \/ \E old \in Fds, new \in Fds, flags \in {1, 2} : Dup3(old, new, flags)
     \/ \E fd \in Fds, start \in Fds : fcntl(fd, "DUPFD", start)

FileCalls ==
  /\ focus = "file"
  /\ \E fd \in Fds :
       \/ \E buf \in Buffers, n \in Counts : read(fd, buf, n) \/ write(fd, buf, n)
       \/ \E buf \in Buffers, at \in {0, 4} : pread(fd, buf, 2, at) \/ pwrite(fd, buf, 2, at)
       \/ \E whence \in 0 .. 3, offset \in {-1, 1} : lseek(fd, offset, whence)
       \/ \E length \in {-1, 1, 4} : ftruncate(fd, length)
       \/ fsync(fd) \/ fdatasync(fd)
       \/ \E buf \in Buffers : fstat(fd, buf) \/ fcntl(fd, "GETLK", buf)

VectorCalls ==
  /\ focus = "vector"
  /\ \/ \E fd \in Fds, iov \in Vectors, n \in -1 .. 3 :
          \/ readv(fd, iov, n) \/ writev(fd, iov, n)
          \/ preadv(fd, iov, n, 1) \/ pwritev(fd, iov, n, 1)
     \/ \E array \in PollArrays, n \in 0 .. 2 :
          poll(array, n) \/ \E tmo \in Cell : ppoll(array, n, tmo)

SignalCalls ==
  /\ focus = "signal"
  /\ \/ \E how \in 0 .. 2, set \in Sets, oldset \in {0} \union Sets : rt_sigprocmask(how, set, oldset)
     \/ \E sig \in 1 .. NSig : tkill(<<Me>>, sig)
     \/ next_deliverable

\* The same calls and their like, with whatever arguments.
SwapCalls ==
  /\ focus = "swap"
  /\ \/ \E new \in Cell, old \in Cell :
          \/ \E how \in 1 .. 3 : rt_sigprocmask(how, new, old)
          \/ \E sig \in {0, 1, SigKill} : rt_sigaction(sig, new, old)
          \/ \E which \in {0, 3} : setitimer(which, new, old)
          \/ sigaltstack(new, old)
     \/ \E a \in Cell : rt_sigpending(a) \/ \E which \in {0, 3} : getitimer(which, a)
     \/ \E ids \in {<<0>>, <<Me, Me>>, <<Me, Me + 1>>}, sig \in {0, 1, NSig + 1} : tkill(ids, sig)

TimeCalls ==
  /\ focus = "time"
  /\ \E a \in Cell :
       \/ \E clk \in {0, 2, 5, 8} :
            clock_gettime(clk, a) \/ clock_getres(clk, a) \/ clock_nanosleep(clk, a)
       \/ gettimeofday(a) \/ time(a) \/ times(a) \/ nanosleep(a)

SystemCalls ==
  /\ focus = "system"
  /\ \/ \E a \in Cell :
          \/ uname(a) \/ sysinfo(a) \/ statfs(a)
          \/ \E fd \in Fds : fstatfs(fd, a)
          \/ \E who \in -2 .. 1 : getrusage(who, a)
          \/ \E node \in Cell : getcpu(a, node)
          \/ \E size \in 1 .. 2 : getcwd(a, size)
          \/ \E resource \in {3, 7, 8, 16} :
               getrlimit(resource, a) \/ \E old \in Cell : prlimit64(resource, a, old)
          \/ \E fd \in Fds, request \in {"TIOCGWINSZ", "TCGETS", "TCSETS", ""} : ioctl(fd, request, a)
          \/ sched_getparam(a) \/ sched_setparam(a)
          \/ \E pid \in {0, Me, Me + 1}, size \in 0 .. 3 :
               sched_getaffinity(pid, size, a) \/ sched_setaffinity(pid, size, a)
     \/ GetIds \/ NoEffect \/ unknown
     \/ \E n \in {0, 1, 3, 24} :
          \/ set_robust_list(n) \/ membarrier(n) \/ priority(n) \/ sched_setscheduler(n)
          \/ sched_get_priority(n, 99) \/ sched_get_priority(n, 1)
     \/ \E pid \in {0, Me, Me + 1} : getsid(pid)

StateCalls ==
  /\ focus = "state"
  /\ \/ \E a \in Cell :
          \/ \E option \in {"SET_NAME", "GET_NAME", "GET_DUMPABLE", "SET_DUMPABLE", ""} : prctl(option, a)
          \/ \E code \in {"SET", "GET", ""}, reg \in {"FS", "GS"} : arch_prctl(code, reg, a)
     \/ \E mask \in {7, 70} : umask(mask)
     \/ \E cmd \in {"GETFD", "SETFD", "SETFL", "SETLK", "GETFL", ""} : fcntl(0, cmd, 0)
     \/ exit(3)

ProcessNext ==
  \/ Loading \/ Attach \/ Start \/ Over
  \/ FdCalls \/ FileCalls \/ VectorCalls \/ SignalCalls \/ SwapCalls
  \/ TimeCalls \/ SystemCalls \/ StateCalls

ProcessSpec == GuestInit /\ [][ProcessNext]_processVars

-----------------------------------------------------------------------------
(* Properties. *)

\* A step that is a call.
Called == calls' # calls

\* The cells an I/O call names, in order, and where in the file it works.
Vectored == {"readv", "writev", "preadv", "pwritev"}
Reads == {"read", "readv", "pread", "preadv"}
Writes == {"write", "writev", "pwrite", "pwritev"}
CellsOf(c) ==
  IF c.name \notin Vectored THEN [i \in 1 .. c.args[3] |-> c.args[2] + i - 1]
  ELSE FlattenSeq([v \in 1 .. c.args[3] |->
         LET at == c.args[2] + 2 * (v - 1)
         IN  [i \in 1 .. space.bytes[at + 1] |-> space.bytes[at] + i - 1]])
Placed(c) == Len(c.args) = 4

\* Every cell that a read takes from the host lands in the buffers of the
\* call, in order, and nowhere else, and every cell the host receives comes
\* from them; the position moves by what was transferred, and not at all when
\* the call brings its own.  The buffers of a vector may overlap, or hold the
\* vector itself.
TransferExact ==
  [][Called /\ ret'.err = "" /\ call'.name \in Reads \union Writes =>
       LET c == call'
           n == ret'.val
           e == get(fds, c.args[1])
           cells == CellsOf(c)
           pos == IF Placed(c) THEN c.args[4] ELSE host.files[e].pos
           source == IF Placed(c) THEN AvailableAt(e, pos) ELSE Available(e)
           moved == [host EXCEPT !.files[e].pos = IF Placed(c) THEN @ ELSE @ + n]
       IN  IF c.name \in Reads
           THEN /\ n <= Len(cells) /\ n <= Len(source)
                /\ \A a \in DOMAIN space.bytes :
                     LET hits == {i \in 1 .. n : cells[i] = a}
                     IN  space'.bytes[a] = IF hits = {} THEN space.bytes[a] ELSE source[Max(hits)]
                /\ host' = IF e = Stdin THEN [host EXCEPT !.input = SubSeq(@, n + 1, Len(@))] ELSE moved
           ELSE /\ space' = space
                /\ Placed(c) \/ n = Len(cells)
                /\ IF e \in Streams
                   THEN host' = [host EXCEPT !.output[e] =
                                   @ \o [i \in 1 .. n |-> space.bytes[cells[i]]]]
                   ELSE /\ [host' EXCEPT !.files[e].data = << >>]
                             = [moved EXCEPT !.files[e].data = << >>]
                        /\ \A i \in DOMAIN host'.files[e].data :
                             host'.files[e].data[i] =
                               IF i - pos \in 1 .. n THEN space.bytes[cells[i - pos]]
                               ELSE IF i <= Len(host.files[e].data) THEN host.files[e].data[i]
                               ELSE 0]_processVars

\* The calls with two pointers: where and what each gives first, and the
\* pointer it then goes on to.
GivesFirst(c) ==
  LET a == c.args
      gives(old, value, next) == [at |-> old, value |-> value, next |-> next]
  IN  CASE c.name = "rt_sigprocmask" -> gives(a[3], SigCell(ctx.blocked), a[2])
        [] c.name = "rt_sigaction" -> gives(a[3], ctx.actions[a[1]], a[2])
        [] c.name = "sigaltstack" -> gives(a[2], ctx.altstack, a[1])
        [] c.name = "setitimer" -> gives(a[3], ctx.itimers[a[1]], a[2])
        [] c.name = "prlimit64" -> gives(a[3], limit_for(a[1]), a[2])
        [] c.name = "getcpu" -> gives(a[1], 0, a[2])
TwoPointers == {"rt_sigprocmask", "rt_sigaction", "sigaltstack", "setitimer", "prlimit64", "getcpu"}

\* A call that fails has no effect: nothing is consumed when a buffer is bad,
\* no descriptor is lost when a clone fails, no state of the process changes,
\* and a refused argument (EINVAL) is refused before memory is written.  Three
\* exceptions, each to one effect: what the host took before it failed a write;
\* what a call with two pointers gave through the first, and nothing else, when
\* the second turns out to be bad; and the old action that rt_sigaction gives
\* for SIGKILL and SIGSTOP before it refuses them.
ErrorsChangeNothing ==
  [][Called /\ ret'.err # "" =>
       /\ fds' = fds /\ ctx' = ctx /\ log' = log
       /\ host' = host \/ (ret'.err = "EIO" /\ call'.name \in {"write", "writev"})
       /\ \/ space' = space
          \/ /\ call'.name \in TwoPointers
             /\ \/ ret'.err = "EFAULT" /\ ~ Writable(space, GivesFirst(call').next, 1)
                \/ ret'.err = "EINVAL" /\ call'.name = "rt_sigaction" /\ call'.args[1] \in Unmaskable
             /\ space' = Written(space, GivesFirst(call').at, <<GivesFirst(call').value>>)]_processVars

\* What each part of the process state is changed by.
Owners == [pending |-> {"tkill", "next_deliverable"}, blocked |-> {"rt_sigprocmask"},
           actions |-> {"rt_sigaction"}, altstack |-> {"sigaltstack"}, itimers |-> {"setitimer"},
           umask |-> {"umask"}, comm |-> {"prctl"}, bases |-> {"arch_prctl"}, exit |-> {"exit"}]

\* A call that gives an old value and installs a new one, with different
\* pointers, gives what was installed last, and installs what the guest's
\* memory held when it was made; the signal mask does so for each way to change
\* it, and getitimer reports exactly what was stored.
StateReadsBack ==
  [][Called =>
       LET a == call'.args
           swapped(new, old, before, after) ==
             /\ old # 0 => space'.bytes[old] = before
             /\ after = IF new = 0 \/ new = old THEN before ELSE space.bytes[new]
           masked(s, how, before, set) ==
             CASE how = 0 -> s \in before \union set [] how = 1 -> s \in before \ set [] how = 2 -> s \in set
       IN  /\ \A k \in DOMAIN ctx : ctx'[k] = ctx[k] \/ call'.name \in Owners[k]
           /\ ret'.err = "" =>
                CASE call'.name = "rt_sigprocmask" ->
                       LET set == SigSet(IF a[2] = a[3] THEN SigCell(ctx.blocked) ELSE space.bytes[a[2]])
                       IN  /\ a[3] # 0 => space'.bytes[a[3]] = SigCell(ctx.blocked)
                           /\ IF a[2] = 0 THEN ctx'.blocked = ctx.blocked
                              ELSE \A s \in (1 .. NSig) \ Unmaskable :
                                     s \in ctx'.blocked <=> masked(s, a[1], ctx.blocked, set)
                  [] call'.name = "sigaltstack" -> swapped(a[1], a[2], ctx.altstack, ctx'.altstack)
                  [] call'.name = "setitimer" ->
                       swapped(a[2], a[3], ctx.itimers[a[1]], ctx'.itimers[a[1]])
                  [] call'.name = "rt_sigaction" ->
                       swapped(a[2], a[3], ctx.actions[a[1]], ctx'.actions[a[1]])
                  [] call'.name = "getitimer" -> space'.bytes[a[2]] = ctx.itimers[a[1]]
                  [] OTHER -> TRUE]_processVars

Times(s, seq) == Cardinality({i \in DOMAIN seq : seq[i] = s})

\* SIGKILL and SIGSTOP are never blocked and never handled, whatever masks and
\* actions the guest installs; every signal sent is delivered once or pending;
\* and the signal that is delivered is the oldest one that is not blocked
\* (SignalState::apply, set_action, next_deliverable).
SignalsExact ==
  /\ [](/\ ctx.blocked \intersect Unmaskable = {}
        /\ \A s \in Unmaskable : ctx.actions[s] = 0
        /\ \A s \in 1 .. NSig : Times(s, log.sent) = Times(s, ctx.pending) + Times(s, log.got))
  /\ [][log'.got # log.got =>
         LET s == log'.got[Len(log'.got)]
         IN  \E i \in DOMAIN ctx.pending :
               /\ ctx.pending[i] = s /\ s \notin ctx.blocked
               /\ \A j \in 1 .. i - 1 : ctx.pending[j] \in ctx.blocked
               /\ ctx'.pending = RemoveAt(ctx.pending, i)]_processVars
=============================================================================
