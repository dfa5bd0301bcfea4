-------------------------------- MODULE Guest --------------------------------
(***************************************************************************)
(* The state of a running guest that its system calls work on: the address *)
(* space the loader prepared, the descriptors, the host behind them, and   *)
(* SyscallContext (shell/prisma-session/src/syscall_dispatch.rs).          *)
(*                                                                         *)
(* A structure of the guest ABI is one cell, except an iovec (its base and *)
(* its length) and a pollfd (the descriptor, events and revents).  The     *)
(* signals are 1 .. NSig, a sigset_t is a cell with one bit for each.      *)
(***************************************************************************)
EXTENDS Loader, FdTable

CONSTANTS
  Files,      \* the host files, the entries that are no stream
  Contents,   \* what they hold at first
  Input,      \* what the host has on its standard input
  NSig, SigKill, SigStop,
  Me,         \* std::process::id()
  MaxCalls    \* the bound on the calls of a behaviour, for each family of calls

VARIABLES
  host,   \* the streams and files: [input, output, files]
  ctx,    \* SyscallContext without the descriptors
  ret,    \* what the last call returned: [err, val]
  call,   \* the last call, with the arguments properties look at: [name, args]
  calls,  \* how many there were
  focus,  \* the family of calls of this behaviour
  log     \* the signals sent and delivered (history): [sent, got]

guestVars == <<host, ctx, ret, call, calls, focus, log>>

Streams == {Stdin, Stdout, Stderr}

SigSet(cell) == {s \in 1 .. NSig : (cell \div 2 ^ (s - 1)) % 2 = 1}
SigCell(set) == LET bit[s \in 0 .. NSig] ==
                      IF s = 0 THEN 0 ELSE bit[s - 1] + (IF s \in set THEN 2 ^ (s - 1) ELSE 0)
                IN  bit[NSig]

\* SyscallContext::new, and what run keeps besides.
NewContext ==
  [pending |-> << >>, blocked |-> {}, actions |-> [s \in 1 .. NSig |-> 0],
   altstack |-> 2, itimers |-> [w \in 0 .. 2 |-> 0], umask |-> 18,
   comm |-> <<112, 0>>, bases |-> [FS |-> 0, GS |-> 0], exit |-> << >>]

NewHost == [input |-> Input, output |-> [s \in {Stdout, Stderr} |-> << >>],
            files |-> [f \in Files |-> [data |-> Contents[f], pos |-> 0]]]

GuestInit ==
  /\ LoaderInit /\ FdInit
  /\ host = NewHost /\ ctx = NewContext
  /\ ret = [err |-> "", val |-> 0] /\ call = [name |-> "", args |-> << >>]
  /\ calls = 0 /\ focus = "" /\ log = [sent |-> << >>, got |-> << >>]

-----------------------------------------------------------------------------
\* The frame of a call: the guest runs, and has not exited.
Call(name, args) ==
  /\ stage = "running" /\ ctx.exit = << >>
  /\ calls < MaxCalls[focus] /\ calls' = calls + 1
  /\ call' = [name |-> name, args |-> args]
  /\ UNCHANGED <<stage, table, program, image, rsp, focus>>

Return(n) == ret' = [err |-> "", val |-> n]
Errno(e) == ret' = [err |-> e, val |-> 0]

\* The call fails and leaves everything as it was.
Fails(e) == Errno(e) /\ UNCHANGED <<space, fdVars, host, ctx, log>>

\* The call returns n and changes nothing.
Answers(n) == Return(n) /\ UNCHANGED <<space, fdVars, host, ctx, log>>

\* checks is a sequence of <<condition, errno>>: the first one that holds is
\* the error of the call.
Refused(checks) == \E i \in DOMAIN checks : checks[i][1]
Refuse(checks) ==
  \E i \in DOMAIN checks :
    checks[i][1] /\ (\A j \in 1 .. i - 1 : ~ checks[j][1]) /\ Fails(checks[i][2])

\* The cells go to guest memory at a, and the call returns n.
Gives(a, cells, n) ==
  \/ ~ Writable(space, a, Len(cells)) /\ Fails("EFAULT")
  \/ /\ Writable(space, a, Len(cells))
     /\ space' = Written(space, a, cells)
     /\ Return(n) /\ UNCHANGED <<fdVars, host, ctx, log>>

\* A call that takes one cell from guest memory at a and looks no further.
Takes(a, n) ==
  \/ ~ Holds(space, a, 1) /\ Fails("EFAULT")
  \/ Holds(space, a, 1) /\ Answers(n)

\* Variant: old receives the value that is being installed.
SwapNext(old, current, new) ==
  LET next == IF new # 0 /\ Holds(space, new, 1) THEN space.bytes[new] ELSE current
  IN  IF old # 0 /\ ~ Writable(space, old, 1)
      THEN [err |-> "EFAULT", space |-> space, next |-> current]
      ELSE [err |-> IF new # 0 /\ ~ Holds(space, new, 1) THEN "EFAULT" ELSE "",
            space |-> IF old = 0 THEN space ELSE Written(space, old, <<next>>), next |-> next]

\* The calls that give the old value of something and take a new one: current
\* goes to old, then the next value comes from new.  A null pointer skips.
Swap(old, current, new) ==
  LET s == IF old = 0 THEN space ELSE Written(space, old, <<current>>)
  IN  IF old # 0 /\ ~ Writable(space, old, 1)
      THEN [err |-> "EFAULT", space |-> space, next |-> current]
      ELSE IF new # 0 /\ ~ Holds(space, new, 1)
      THEN [err |-> "EFAULT", space |-> s, next |-> current]
      ELSE [err |-> "", space |-> s, next |-> IF new = 0 THEN current ELSE s.bytes[new]]
=============================================================================
