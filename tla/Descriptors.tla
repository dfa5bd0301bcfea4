----------------------------- MODULE Descriptors -----------------------------
(***************************************************************************)
(* What a table of file descriptors promises its process: open maps each   *)
(* open descriptor to what it stands for.  A new descriptor is the lowest  *)
(* one that is free at or above the minimum the process asked for (0 but   *)
(* for F_DUPFD), a duplicate stands for what the original does, and no     *)
(* operation disturbs another descriptor.                                  *)
(***************************************************************************)
EXTENDS Naturals

CONSTANTS
  Things,   \* what a descriptor may stand for
  MaxFd     \* the greatest descriptor

VARIABLES
  open,
  reply     \* the last operation that succeeded: [op, old, min, fd]

With(f, fd, thing) == [d \in DOMAIN f \union {fd} |-> IF d = fd THEN thing ELSE f[d]]
Without(f, fd) == [d \in DOMAIN f \ {fd} |-> f[d]]

\* The lowest free descriptor at or above min.
IsLowestFree(fd, min) ==
  /\ fd \in min .. MaxFd /\ fd \notin DOMAIN open
  /\ \A d \in min .. MaxFd : d < fd => d \in DOMAIN open

Replies(op, old, min, fd) == reply' = [op |-> op, old |-> old, min |-> min, fd |-> fd]

\* The three standard streams.
DescriptorInit ==
  open \in [0 .. 2 -> Things] /\ reply = [op |-> "new", old |-> 0, min |-> 0, fd |-> 0]

OpenThing(fd) ==
  /\ Replies("open", 0, 0, fd)
  /\ IsLowestFree(fd, 0)
  /\ \E thing \in Things : open' = With(open, fd, thing)

CloseThing(fd) ==
  Replies("close", 0, 0, fd) /\ fd \in DOMAIN open /\ open' = Without(open, fd)

DupThing(old, min, fd) ==
  /\ Replies("dup", old, min, fd)
  /\ old \in DOMAIN open /\ IsLowestFree(fd, min)
  /\ open' = With(open, fd, open[old])

Dup2Thing(old, fd) ==
  /\ Replies("dup2", old, 0, fd)
  /\ old \in DOMAIN open /\ open' = With(open, fd, open[old])

DescriptorNext ==
  \E fd \in 0 .. MaxFd :
    \/ OpenThing(fd) \/ CloseThing(fd)
    \/ \E old \in 0 .. MaxFd : Dup2Thing(old, fd) \/ \E min \in 0 .. MaxFd : DupThing(old, min, fd)

DescriptorSpec == DescriptorInit /\ [][DescriptorNext]_<<open, reply>>
=============================================================================
