------------------------------- MODULE FdTable -------------------------------
(***************************************************************************)
(* The guest's file descriptors (shell/prisma-runtime/src/fd_table.rs): a  *)
(* vector of optional entries, indexed by the descriptor.                  *)
(***************************************************************************)
EXTENDS Integers, Sequences

CONSTANTS
  Things,   \* FdEntry: the standard streams and host files
  Stdin, Stdout, Stderr,
  MaxFd,    \* i32::MAX
  Free      \* an entry that is None

ASSUME FdAssumption ==
  /\ MaxFd \in Nat /\ MaxFd >= 3
  /\ {Stdin, Stdout, Stderr} \subseteq Things
  /\ Free \notin Things

VARIABLES
  fds,
  reply   \* the last operation that succeeded (history): [op, old, min, fd]

fdVars == <<fds, reply>>

FdTypeOK == fds \in Seq(Things \union {Free}) /\ Len(fds) <= MaxFd + 1

get(t, fd) == IF fd >= 0 /\ fd < Len(t) THEN t[fd + 1] ELSE Free
is_open(t, fd) == get(t, fd) # Free

\* An open descriptor as a function of what is open.
OpenFds(t) == [fd \in {d \in 0 .. MaxFd : is_open(t, d)} |-> get(t, fd)]

\* resize_with: None up to index n - 1.
Resized(t, n) == [i \in 1 .. n |-> IF i <= Len(t) THEN t[i] ELSE Free]

\* The entry at fd replaced, in a table that is long enough for it.
Put(t, fd, e) ==
  LET n == IF fd < Len(t) THEN Len(t) ELSE fd + 1
  IN  [Resized(t, n) EXCEPT ![fd + 1] = e]

\* Variant: the slot after the last one, free slots are never used again.
LowestFreeAppend(t, start) == IF Len(t) < start THEN start ELSE Len(t)

\* The first None at or after start, or else the first index past the end.
LowestFree(t, start) ==
  LET free == {d \in start .. Len(t) - 1 : t[d + 1] = Free}
  IN  IF free # {} THEN CHOOSE d \in free : \A o \in free : d <= o
      ELSE IF Len(t) < start THEN start ELSE Len(t)

Replies(op, old, min, fd) == reply' = [op |-> op, old |-> old, min |-> min, fd |-> fd]

\* The end of allocate and of dup_from: nothing if the index is no i32.
TableFull(start) == LowestFree(fds, start) > MaxFd
Place(e, start) == ~ TableFull(start) /\ fds' = Put(fds, LowestFree(fds, start), e)

allocate(e) == Place(e, 0) /\ Replies("open", 0, 0, LowestFree(fds, 0))

close(fd) ==
  is_open(fds, fd) /\ fds' = [fds EXCEPT ![fd + 1] = Free] /\ Replies("close", 0, 0, fd)

\* dup is dup_from at 0; the clone of a host file may fail.
dup_from(old, start) ==
  /\ is_open(fds, old) /\ Place(get(fds, old), start)
  /\ Replies("dup", old, start, LowestFree(fds, start))

\* dup2 onto itself does nothing.
dup2(old, new) ==
  /\ is_open(fds, old) /\ new >= 0
  /\ IF old = new THEN UNCHANGED fds ELSE fds' = Put(fds, new, get(fds, old))
  /\ Replies("dup2", old, 0, new)

FdInit ==
  /\ fds = <<Stdin, Stdout, Stderr>>
  /\ reply = [op |-> "new", old |-> 0, min |-> 0, fd |-> 0]

FdNext ==
  \/ \E e \in Things : allocate(e)
  \/ \E fd \in 0 .. MaxFd : close(fd)
  \/ \E old \in 0 .. MaxFd, start \in 0 .. MaxFd : dup_from(old, start)
  \/ \E old \in 0 .. MaxFd, new \in 0 .. MaxFd : dup2(old, new)

FdSpec == FdInit /\ [][FdNext]_fdVars

-----------------------------------------------------------------------------
Abstract == INSTANCE Descriptors WITH open <- OpenFds(fds)

\* Whatever is opened, closed and duplicated, the table keeps the promise of
\* Descriptors: dup and allocate give the lowest free descriptor, F_DUPFD the
\* lowest one from its minimum on, a duplicate stands for what the original
\* does, and no other descriptor changes.
RefinesDescriptors == Abstract!DescriptorSpec
=============================================================================
