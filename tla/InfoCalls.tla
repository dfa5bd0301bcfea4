------------------------------ MODULE InfoCalls ------------------------------
(***************************************************************************)
(* The calls about time, the machine, limits, scheduling, the terminal and *)
(* the process itself (shell/prisma-session/src: time_, info_, resource_,  *)
(* sched_, fs_, tty_ and process_syscalls.rs, their cases in               *)
(* syscall_dispatch.rs, and arch_prctl of lib.rs).                         *)
(***************************************************************************)
EXTENDS Guest

\* What the structures hold, one value for each.
UtsName == 21
Zeroed == 0
SysInfo == 22
Statfs == 23
Termios == 24
Winsize == 25
Online == 3      \* the mask of the CPUs
Infinity == 255

-----------------------------------------------------------------------------
\* Time.

Clocks == 0 .. 7
Coarse == {5, 6}
BadTime == 254   \* a timespec that is no duration
CLK_TCK == 100

\* What a clock may say: the order of its readings is not modelled.
Now == {40, 41}

clock_gettime(clk, tp) ==
  /\ Call("clock_gettime", << >>)
  /\ \/ clk \notin Clocks /\ Fails("EINVAL")
     \/ clk \in Clocks /\ \E t \in Now : Gives(tp, <<t>>, 0)

gettimeofday(tv) == Call("gettimeofday", << >>) /\ \E t \in Now : Gives(tv, <<t>>, 0)

\* A null pointer is not written to.
GivesUnlessNull(a, cell, n) ==
  \/ a = 0 /\ Answers(n)
  \/ a # 0 /\ Gives(a, <<cell>>, n)

time(tloc) == Call("time", << >>) /\ \E t \in Now : GivesUnlessNull(tloc, t, t)
times(buf) == Call("times", << >>) /\ \E t \in Now : GivesUnlessNull(buf, Zeroed, t * CLK_TCK)

clock_getres(clk, res) ==
  /\ Call("clock_getres", << >>)
  /\ \/ clk \notin Clocks /\ Fails("EINVAL")
     \/ clk \in Clocks /\ GivesUnlessNull(res, IF clk \in Coarse THEN 4 ELSE 1, 0)

\* The duration is read before the thread sleeps.
nanosleep_request(req) ==
  \/ ~ Holds(space, req, 1) /\ Fails("EFAULT")
  \/ Holds(space, req, 1) /\ space.bytes[req] = BadTime /\ Fails("EINVAL")
  \/ Holds(space, req, 1) /\ space.bytes[req] # BadTime /\ Answers(0)

nanosleep(req) == Call("nanosleep", << >>) /\ nanosleep_request(req)
clock_nanosleep(clk, req) ==
  /\ Call("clock_nanosleep", << >>)
  /\ \/ clk \notin {0, 1, 7} /\ Fails("EINVAL")
     \/ clk \in {0, 1, 7} /\ nanosleep_request(req)

setitimer(which, new, old) ==
  /\ Call("setitimer", <<which, new, old>>)
  /\ \/ which \notin 0 .. 2 /\ Fails("EINVAL")
     \/ /\ which \in 0 .. 2
        /\ LET r == Swap(old, ctx.itimers[which], new)
           IN  /\ space' = r.space /\ ret' = [err |-> r.err, val |-> 0]
               /\ ctx' = [ctx EXCEPT !.itimers[which] = r.next]
        /\ UNCHANGED <<fdVars, host, log>>

getitimer(which, curr) ==
  /\ Call("getitimer", <<which, curr>>)
  /\ \/ which \notin 0 .. 2 /\ Fails("EINVAL")
     \/ which \in 0 .. 2 /\ Gives(curr, <<ctx.itimers[which]>>, 0)

-----------------------------------------------------------------------------
\* The machine and the file system.

uname(buf) == Call("uname", << >>) /\ Gives(buf, <<UtsName>>, 0)
sysinfo(buf) == Call("sysinfo", << >>) /\ Gives(buf, <<SysInfo>>, 0)
statfs(buf) == Call("statfs", << >>) /\ Gives(buf, <<Statfs>>, 0)

fstatfs(fd, buf) ==
  /\ Call("fstatfs", << >>)
  /\ \/ ~ is_open(fds, fd) /\ Fails("EBADF")
     \/ is_open(fds, fd) /\ Gives(buf, <<Statfs>>, 0)

getrusage(who, usage) ==
  /\ Call("getrusage", << >>)
  /\ \/ who \notin -1 .. 1 /\ Fails("EINVAL")
     \/ who \in -1 .. 1 /\ Gives(usage, <<Zeroed>>, 0)

\* The CPU may be written when the node then is not.
getcpu(cpu, node) ==
  LET s == IF cpu = 0 THEN space ELSE Written(space, cpu, <<0>>)
  IN  /\ Call("getcpu", <<cpu, node>>)
      /\ \/ cpu # 0 /\ ~ Writable(space, cpu, 1) /\ Fails("EFAULT")
         \/ /\ cpu # 0 => Writable(space, cpu, 1)
            /\ \/ node # 0 /\ ~ Writable(space, node, 1) /\ Errno("EFAULT") /\ space' = s
               \/ /\ node # 0 => Writable(space, node, 1)
                  /\ space' = IF node = 0 THEN s ELSE Written(s, node, <<0>>)
                  /\ Return(0)
            /\ UNCHANGED <<fdVars, host, ctx, log>>

getcwd(buf, size) ==
  /\ Call("getcwd", << >>)
  /\ \/ size < 2 /\ Fails("ERANGE")
     \/ size >= 2 /\ Gives(buf, <<47, 0>>, 2)

\* RLIMIT_STACK is 3, RLIMIT_NOFILE is 7.
limit_for(resource) == CASE resource = 7 -> 64 [] resource = 3 -> 128 [] OTHER -> Infinity

getrlimit(resource, rlim) ==
  /\ Call("getrlimit", << >>)
  /\ \/ resource >= 16 /\ Fails("EINVAL")
     \/ resource < 16 /\ Gives(rlim, <<limit_for(resource)>>, 0)

\* A new limit is read and not kept.  setrlimit passes no old one.
prlimit64(resource, new, old) ==
  LET r == Swap(old, limit_for(resource), new)
  IN  /\ Call("prlimit64", <<resource, new, old>>)
      /\ \/ resource >= 16 /\ Fails("EINVAL")
         \/ /\ resource < 16
            /\ space' = r.space /\ ret' = [err |-> r.err, val |-> 0]
            /\ UNCHANGED <<fdVars, host, ctx, log>>

\* The terminal: only the streams are one.
ioctl(fd, request, argp) ==
  LET checks == <<<<get(fds, fd) = Free, "EBADF">>, <<get(fds, fd) \in Files, "ENOTTY">>>>
  IN  /\ Call("ioctl", << >>)
      /\ \/ Refuse(checks)
         \/ /\ ~ Refused(checks)
            /\ \/ request = "TIOCGWINSZ" /\ Gives(argp, <<Winsize>>, 0)
               \/ request = "TCGETS" /\ Gives(argp, <<Termios>>, 0)
               \/ request = "TCSETS" /\ Takes(argp, 0)
               \/ request = "" /\ Fails("ENOTTY")

-----------------------------------------------------------------------------
\* The process and its scheduling.

\* Calls that answer a number, or refuse an argument out of range.
Answer(name, ok, n) ==
  /\ Call(name, << >>)
  /\ \/ ~ ok /\ Fails("EINVAL")
     \/ ok /\ Answers(n)

GUEST_UID == 1000
SchedRange(policy, most) == IF policy \in {1, 2} THEN most ELSE 0
GetIds == Answer("getpid", TRUE, Me) \/ Answer("getuid", TRUE, GUEST_UID)
NoEffect == Answer("madvise", TRUE, 0)
set_robust_list(len) == Answer("set_robust_list", len = 24, 0)
membarrier(cmd) == Answer("membarrier", cmd = 0, 0)
sched_get_priority(policy, most) ==
  Answer("sched_get_priority", policy \in {0, 1, 2, 3, 5}, SchedRange(policy, most))
priority(which) == Answer("priority", which <= 2, 0)
sched_setscheduler(policy) == Answer("sched_setscheduler", policy = 0, 0)

sched_getparam(param) == Call("sched_getparam", << >>) /\ Gives(param, <<0>>, 0)
sched_setparam(param) ==
  /\ Call("sched_setparam", << >>)
  /\ \/ ~ Holds(space, param, 1) /\ Fails("EFAULT")
     \/ Holds(space, param, 1) /\ space.bytes[param] # 0 /\ Fails("EINVAL")
     \/ Holds(space, param, 1) /\ space.bytes[param] = 0 /\ Answers(0)

\* getsid and getpgid: only of the process itself.
getsid(pid) ==
  /\ Call("getsid", << >>)
  /\ \/ pid \notin {0, Me} /\ Fails("ESRCH")
     \/ pid \in {0, Me} /\ Answers(Me)

\* A mask has two cells, the second one stands for the CPUs that are not there.
sched_getaffinity(pid, size, mask) ==
  LET checks == <<<<pid \notin {0, Me}, "ESRCH">>, <<size < 2, "EINVAL">>>>
  IN  /\ Call("sched_getaffinity", << >>)
      /\ \/ Refuse(checks)
         \/ ~ Refused(checks) /\ Gives(mask, <<Online, 0>>, 2)

sched_setaffinity(pid, size, mask) ==
  LET n == IF size < 2 THEN size ELSE 2
      checks == <<<<pid \notin {0, Me}, "ESRCH">>, <<size = 0, "EINVAL">>,
                  <<~ Holds(space, mask, n), "EFAULT">>>>
  IN  /\ Call("sched_setaffinity", << >>)
      /\ \/ Refuse(checks)
         \/ ~ Refused(checks) /\ space.bytes[mask] % (Online + 1) = 0 /\ Fails("EINVAL")
         \/ ~ Refused(checks) /\ space.bytes[mask] % (Online + 1) # 0 /\ Answers(0)

\* The permission bits are 0 .. 63 here.
umask(mask) ==
  /\ Call("umask", << >>)
  /\ ctx' = [ctx EXCEPT !.umask = mask % 64]
  /\ Return(ctx.umask) /\ UNCHANGED <<space, fdVars, host, log>>

\* A name of two cells, the last one is always the end.
Terminated(name) == <<name[1], 0>>

prctl(option, arg) ==
  /\ Call("prctl", << >>)
  /\ \/ option = "SET_NAME" /\ ~ Holds(space, arg, 2) /\ Fails("EFAULT")
     \/ /\ option = "SET_NAME" /\ Holds(space, arg, 2)
        /\ ctx' = [ctx EXCEPT !.comm = Terminated(Read(space, arg, 2))]
        /\ Return(0) /\ UNCHANGED <<space, fdVars, host, log>>
     \/ option = "GET_NAME" /\ Gives(arg, ctx.comm, 0)
     \/ option = "GET_DUMPABLE" /\ Answers(1)
     \/ option = "SET_DUMPABLE" /\ Answers(0)
     \/ option = "" /\ Fails("EINVAL")

\* arch_prctl, which the run loop handles itself.
arch_prctl(code, reg, addr) ==
  /\ Call("arch_prctl", << >>)
  /\ \/ /\ code = "SET" /\ ctx' = [ctx EXCEPT !.bases[reg] = addr]
        /\ Return(0) /\ UNCHANGED <<space, fdVars, host, log>>
     \/ code = "GET" /\ Gives(addr, Cells(ctx.bases[reg]), 0)
     \/ code = "" /\ Fails("EINVAL")

\* exit and exit_group: the loop stops, no call follows.
exit(status) ==
  /\ Call("exit", << >>)
  /\ ctx' = [ctx EXCEPT !.exit = <<status>>]
  /\ Return(0) /\ UNCHANGED <<space, fdVars, host, log>>

\* A number that is no call.
unknown == Call("unknown", << >>) /\ Fails("ENOSYS")
=============================================================================
