------------------------------- MODULE IoCalls -------------------------------
(***************************************************************************)
(* The calls on descriptors (shell/prisma-session/src/io_syscalls.rs and   *)
(* their cases in syscall_dispatch.rs).  The host may fail any operation   *)
(* on a file or a stream, and may read less than it is asked for.          *)
(***************************************************************************)
EXTENDS Guest

IovMax == 2

Smaller(a, b) == IF a < b THEN a ELSE b

-----------------------------------------------------------------------------
\* The host.

\* What there is to read at a position of a file, and for an entry.
AvailableAt(f, pos) == SubSeq(host.files[f].data, pos + 1, Len(host.files[f].data))
Available(e) == IF e = Stdin THEN host.input ELSE AvailableAt(e, host.files[e].pos)

\* The host reads at least one cell, if there is one and one is asked for.
ReadResults(avail, n) ==
  {SubSeq(avail, 1, k) : k \in IF n = 0 \/ avail = << >> THEN {0} ELSE 1 .. Smaller(n, Len(avail))}

Consumed(e, k) ==
  IF e = Stdin THEN [host EXCEPT !.input = SubSeq(@, k + 1, Len(@))]
  ELSE [host EXCEPT !.files[e].pos = @ + k]

\* Cells stored in a file, after zeros if they start past its end.
Stored(data, pos, src) ==
  IF src = << >> THEN data
  ELSE [i \in 1 .. (IF Len(data) < pos + Len(src) THEN pos + Len(src) ELSE Len(data)) |->
          IF i - pos \in DOMAIN src THEN src[i - pos]
          ELSE IF i <= Len(data) THEN data[i] ELSE 0]

Accepted(e, src) ==
  IF e \in Streams THEN [host EXCEPT !.output[e] = @ \o src]
  ELSE [host EXCEPT !.files[e] = [data |-> Stored(@.data, @.pos, src), pos |-> @.pos + Len(src)]]

\* write_all, of write and of write_bytes_to_fd: every cell, or an error after
\* some of them.
HostWrites(e, src) ==
  \E n \in 0 .. Len(src) :
    /\ host' = Accepted(e, SubSeq(src, 1, n))
    /\ IF n = Len(src) THEN Return(n) ELSE Errno("EIO")
    /\ UNCHANGED <<space, fdVars, ctx, log>>

\* pwrite_file: one write at a position, which may be short.
HostWritesAt(f, pos, src) ==
  \/ Fails("EIO")
  \/ \E n \in 0 .. Len(src) :
       /\ n = 0 => src = << >>
       /\ host' = [host EXCEPT !.files[f].data = Stored(@, pos, SubSeq(src, 1, n))]
       /\ Return(n) /\ UNCHANGED <<space, fdVars, ctx, log>>

\* Variant: each buffer is filled from the start of what was read.
RECURSIVE ScatterRestarted(_, _, _)
ScatterRestarted(s, iovs, src) ==
  IF iovs = << >> \/ src = << >> THEN s
  ELSE LET take == Smaller(Head(iovs).len, Len(src))
       IN  ScatterRestarted(Written(s, Head(iovs).base, SubSeq(src, 1, take)), Tail(iovs),
                            SubSeq(src, 1, Len(src) - take))

\* The end of readv and preadv: what was read goes to the buffers in order.
RECURSIVE Scatter(_, _, _)
Scatter(s, iovs, src) ==
  IF iovs = << >> \/ src = << >> THEN s
  ELSE LET take == Smaller(Head(iovs).len, Len(src))
       IN  Scatter(Written(s, Head(iovs).base, SubSeq(src, 1, take)), Tail(iovs),
                   SubSeq(src, take + 1, Len(src)))

\* The host reads up to n cells of an entry into the buffers.
HostReads(e, n, iovs) ==
  \/ Fails("EIO")
  \/ \E src \in ReadResults(Available(e), n) :
       /\ host' = Consumed(e, Len(src)) /\ space' = Scatter(space, iovs, src)
       /\ Return(Len(src)) /\ UNCHANGED <<fdVars, ctx, log>>

\* pread_file: the same at a position, and the file's own stays.
HostReadsAt(f, pos, n, iovs) ==
  \/ Fails("EIO")
  \/ \E src \in ReadResults(AvailableAt(f, pos), n) :
       /\ space' = Scatter(space, iovs, src)
       /\ Return(Len(src)) /\ UNCHANGED <<fdVars, host, ctx, log>>

-----------------------------------------------------------------------------
\* Reading and writing.

NoReader == {Free, Stdout, Stderr}
NoWriter == {Free, Stdin}

\* The checks of the calls at a position: only a file has one.
Positioned(fd) == <<<<get(fds, fd) = Free, "EBADF">>, <<get(fds, fd) \in Streams, "EINVAL">>>>

write(fd, buf, n) ==
  LET checks == <<<<~ Holds(space, buf, n), "EFAULT">>, <<get(fds, fd) \in NoWriter, "EBADF">>>>
  IN  /\ Call("write", <<fd, buf, n>>)
      /\ \/ Refuse(checks)
         \/ ~ Refused(checks) /\ HostWrites(get(fds, fd), Read(space, buf, n))

read(fd, buf, n) ==
  LET checks == <<<<~ Writable(space, buf, n), "EFAULT">>, <<get(fds, fd) \in NoReader, "EBADF">>>>
  IN  /\ Call("read", <<fd, buf, n>>)
      /\ \/ Refuse(checks)
         \/ ~ Refused(checks) /\ HostReads(get(fds, fd), n, <<[base |-> buf, len |-> n]>>)

pread(fd, buf, n, offset) ==
  LET checks == <<<<~ Writable(space, buf, n), "EFAULT">>>> \o Positioned(fd)
  IN  /\ Call("pread", <<fd, buf, n, offset>>)
      /\ \/ Refuse(checks)
         \/ ~ Refused(checks) /\ HostReadsAt(get(fds, fd), offset, n, <<[base |-> buf, len |-> n]>>)

pwrite(fd, buf, n, offset) ==
  LET checks == <<<<~ Holds(space, buf, n), "EFAULT">>>> \o Positioned(fd)
  IN  /\ Call("pwrite", <<fd, buf, n, offset>>)
      /\ \/ Refuse(checks)
         \/ ~ Refused(checks) /\ HostWritesAt(get(fds, fd), offset, Read(space, buf, n))

\* read_iovecs: the vectors at an address; none are looked up for a count of 0.
read_iovecs(iov, n) ==
  [i \in 1 .. n |-> [base |-> space.bytes[iov + 2 * (i - 1)], len |-> space.bytes[iov + 2 * i - 1]]]
BadVectors(iov, n) ==
  <<<<n < 0 \/ n > IovMax, "EINVAL">>, <<n # 0 /\ ~ Holds(space, iov, 2 * n), "EFAULT">>>>

Total(iovs) == FoldLeft(LAMBDA sum, v : sum + v.len, 0, iovs)
Gathered(iovs) == FlattenSeq([i \in DOMAIN iovs |-> Read(space, iovs[i].base, iovs[i].len)])

\* The vectors of a call are looked at only if the array is good.
readv(fd, iov, n) ==
  LET bad == BadVectors(iov, n)
      iovs == read_iovecs(iov, n)
      checks == <<<<\E i \in 1 .. n : ~ Writable(space, iovs[i].base, iovs[i].len), "EFAULT">>,
                  <<get(fds, fd) \in NoReader, "EBADF">>>>
  IN  /\ Call("readv", <<fd, iov, n>>)
      /\ \/ Refuse(bad)
         \/ ~ Refused(bad) /\ Refuse(checks)
         \/ ~ Refused(bad) /\ ~ Refused(checks) /\ HostReads(get(fds, fd), Total(iovs), iovs)

writev(fd, iov, n) ==
  LET bad == BadVectors(iov, n)
      iovs == read_iovecs(iov, n)
      checks == <<<<\E i \in 1 .. n : ~ Holds(space, iovs[i].base, iovs[i].len), "EFAULT">>,
                  <<get(fds, fd) \in NoWriter, "EBADF">>>>
  IN  /\ Call("writev", <<fd, iov, n>>)
      /\ \/ Refuse(bad)
         \/ ~ Refused(bad) /\ Refuse(checks)
         \/ ~ Refused(bad) /\ ~ Refused(checks) /\ HostWrites(get(fds, fd), Gathered(iovs))

preadv(fd, iov, n, offset) ==
  LET bad == BadVectors(iov, n)
      iovs == read_iovecs(iov, n)
      checks == <<<<\E i \in 1 .. n : ~ Writable(space, iovs[i].base, iovs[i].len), "EFAULT">>>>
                  \o Positioned(fd)
  IN  /\ Call("preadv", <<fd, iov, n, offset>>)
      /\ \/ Refuse(bad)
         \/ ~ Refused(bad) /\ Refuse(checks)
         \/ /\ ~ Refused(bad) /\ ~ Refused(checks)
            /\ HostReadsAt(get(fds, fd), offset, Total(iovs), iovs)

pwritev(fd, iov, n, offset) ==
  LET bad == BadVectors(iov, n)
      iovs == read_iovecs(iov, n)
      checks == <<<<\E i \in 1 .. n : ~ Holds(space, iovs[i].base, iovs[i].len), "EFAULT">>>>
                  \o Positioned(fd)
  IN  /\ Call("pwritev", <<fd, iov, n, offset>>)
      /\ \/ Refuse(bad)
         \/ ~ Refused(bad) /\ Refuse(checks)
         \/ /\ ~ Refused(bad) /\ ~ Refused(checks)
            /\ HostWritesAt(get(fds, fd), offset, Gathered(iovs))

-----------------------------------------------------------------------------
\* Files.

lseek(fd, offset, whence) ==
  LET checks == <<<<whence \notin 0 .. 2 \/ (whence = 0 /\ offset < 0), "EINVAL">>,
                  <<get(fds, fd) \in Streams \union {Free}, "EBADF">>>>
      file == host.files[get(fds, fd)]
      pos == offset + (CASE whence = 0 -> 0 [] whence = 1 -> file.pos [] whence = 2 -> Len(file.data))
  IN  /\ Call("lseek", << >>)
      /\ \/ Refuse(checks)
         \/ ~ Refused(checks) /\ Fails("EIO")
         \/ /\ ~ Refused(checks) /\ pos >= 0
            /\ host' = [host EXCEPT !.files[get(fds, fd)].pos = pos]
            /\ Return(pos) /\ UNCHANGED <<space, fdVars, ctx, log>>

ftruncate(fd, length) ==
  LET checks == <<<<length < 0, "EINVAL">>>> \o Positioned(fd)
      resized(data) == [i \in 1 .. length |-> IF i <= Len(data) THEN data[i] ELSE 0]
  IN  /\ Call("ftruncate", << >>)
      /\ \/ Refuse(checks)
         \/ ~ Refused(checks) /\ Fails("EIO")
         \/ /\ ~ Refused(checks)
            /\ host' = [host EXCEPT !.files[get(fds, fd)].data = resized(@)]
            /\ Return(0) /\ UNCHANGED <<space, fdVars, ctx, log>>

\* fsync and fdatasync: nothing to do for a stream.
Sync(name, fd) ==
  /\ Call(name, << >>)
  /\ \/ get(fds, fd) = Free /\ Fails("EBADF")
     \/ get(fds, fd) \in Files /\ Fails("EIO")
     \/ get(fds, fd) # Free /\ Answers(0)
fsync(fd) == Sync("fsync", fd)
fdatasync(fd) == Sync("fdatasync", fd)

\* The stat of a file is its size, that of a stream has size 0.
stat_from_metadata(f) == <<Len(host.files[f].data)>>
stat_for_stream == <<0>>

fstat(fd, statbuf) ==
  /\ Call("fstat", << >>)
  /\ \/ get(fds, fd) = Free /\ Fails("EBADF")
     \/ get(fds, fd) \in Files /\ Fails("EIO")
     \/ get(fds, fd) \in Files /\ Gives(statbuf, stat_from_metadata(get(fds, fd)), 0)
     \/ get(fds, fd) \in Streams /\ Gives(statbuf, stat_for_stream, 0)

-----------------------------------------------------------------------------
\* Polling.  A cell of 128 and more is a negative descriptor.

PollIn == 1
PollOut == 4
PollNval == 32
Masked(events, bits) ==
  (IF PollIn \in bits /\ events % 2 = 1 THEN PollIn ELSE 0)
    + (IF PollOut \in bits /\ (events \div PollOut) % 2 = 1 THEN PollOut ELSE 0)

poll_revents(fd, events) ==
  CASE get(fds, fd) = Free -> PollNval
    [] get(fds, fd) \in Files -> Masked(events, {PollIn, PollOut})
    [] get(fds, fd) = Stdin -> Masked(events, {PollIn})
    [] get(fds, fd) \in {Stdout, Stderr} -> Masked(events, {PollOut})

\* The array with the revents filled in, and how many are not 0.
Polled(array) ==
  [i \in DOMAIN array |->
     IF i % 3 # 0 THEN array[i]
     ELSE IF array[i - 2] >= 128 THEN 0
     ELSE poll_revents(array[i - 2], array[i - 1])]
Ready(array) == Cardinality({i \in DOMAIN array : i % 3 = 0 /\ array[i] # 0})

\* poll, and ppoll once it has looked at the timeout.
PollArray(array, n) ==
  LET polled == Polled(Read(space, array, 3 * n))
  IN  \/ n = 0 /\ Answers(0)
      \/ n # 0 /\ ~ Holds(space, array, 3 * n) /\ Fails("EFAULT")
      \/ n # 0 /\ Holds(space, array, 3 * n) /\ Gives(array, polled, Ready(polled))

poll(array, n) == Call("poll", << >>) /\ PollArray(array, n)
ppoll(array, n, tmo) ==
  /\ Call("ppoll", << >>)
  /\ \/ tmo # 0 /\ ~ Holds(space, tmo, 1) /\ Fails("EFAULT")
     \/ (tmo # 0 => Holds(space, tmo, 1)) /\ PollArray(array, n)

-----------------------------------------------------------------------------
\* Descriptors.  A host file is cloned, which may fail; clones share their
\* position.

HostOpens(f) ==
  /\ Call("open", << >>) /\ allocate(f)
  /\ Return(LowestFree(fds, 0)) /\ UNCHANGED <<space, host, ctx, log>>

CloseFd(fd) ==
  /\ Call("close", << >>)
  /\ \/ ~ is_open(fds, fd) /\ Fails("EBADF")
     \/ close(fd) /\ Return(0) /\ UNCHANGED <<space, host, ctx, log>>

\* dup and F_DUPFD.
DupAt(fd, start) ==
  \/ (~ is_open(fds, fd) \/ get(fds, fd) \in Files \/ TableFull(start)) /\ Fails("EBADF")
  \/ /\ dup_from(fd, start)
     /\ Return(LowestFree(fds, start)) /\ UNCHANGED <<space, host, ctx, log>>

Dup(fd) == Call("dup", << >>) /\ DupAt(fd, 0)

DupOnto(old, new) ==
  \/ /\ ~ is_open(fds, old) \/ new < 0 \/ (get(fds, old) \in Files /\ old # new)
     /\ Fails("EBADF")
  \/ dup2(old, new) /\ Return(new) /\ UNCHANGED <<space, host, ctx, log>>

Dup2(old, new) == Call("dup2", << >>) /\ DupOnto(old, new)

\* flags is 0, O_CLOEXEC (1) or something else.
Dup3(old, new, flags) ==
  /\ Call("dup3", << >>)
  /\ \/ (old = new \/ flags \notin {0, 1}) /\ Fails("EINVAL")
     \/ ~ (old = new \/ flags \notin {0, 1}) /\ DupOnto(old, new)

Unlocked == 2
OpenReadWrite == 2

fcntl(fd, cmd, arg) ==
  /\ Call("fcntl", << >>)
  /\ \/ ~ is_open(fds, fd) /\ Fails("EBADF")
     \/ /\ is_open(fds, fd)
        /\ \/ cmd = "DUPFD" /\ arg < 0 /\ Fails("EINVAL")
           \/ cmd = "DUPFD" /\ arg >= 0 /\ DupAt(fd, arg)
           \/ cmd \in {"GETFD", "SETFD", "SETFL", "SETLK"} /\ Answers(0)
           \/ cmd = "GETFL" /\ Answers(OpenReadWrite)
           \/ cmd = "GETLK" /\ Gives(arg, <<Unlocked>>, 0)
           \/ cmd = "" /\ Fails("EINVAL")
=============================================================================
