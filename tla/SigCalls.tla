------------------------------- MODULE SigCalls -------------------------------
(***************************************************************************)
(* Signals: the calls of shell/prisma-session/src/sig_syscalls.rs and      *)
(* SignalState of shell/prisma-runtime/src/guest_signal.rs.                *)
(***************************************************************************)
EXTENDS Guest

Unmaskable == {SigKill, SigStop}

\* Sigset::apply; how is SIG_BLOCK, SIG_UNBLOCK or SIG_SETMASK.
apply(blocked, how, set) ==
  (CASE how = 0 -> blocked \union set
     [] how = 1 -> blocked \ set
     [] how = 2 -> set) \ Unmaskable

\* Variant: how is looked at when the old mask has been given.
MaskGivenFirst(how, set, oldset) ==
  LET r == Swap(oldset, SigCell(ctx.blocked), set)
      err == IF r.err = "" /\ set # 0 /\ how \notin 0 .. 2 THEN "EINVAL" ELSE r.err
  IN  /\ Call("rt_sigprocmask", <<how, set, oldset>>)
      /\ space' = r.space
      /\ ret' = [err |-> err, val |-> 0]
      /\ ctx' = IF set = 0 \/ err # "" THEN ctx
                ELSE [ctx EXCEPT !.blocked = apply(@, how, SigSet(r.next))]
      /\ UNCHANGED <<fdVars, host, log>>

rt_sigprocmask(how, set, oldset) ==
  LET r == Swap(oldset, SigCell(ctx.blocked), set)
  IN  /\ Call("rt_sigprocmask", <<how, set, oldset>>)
      /\ \/ set # 0 /\ how \notin 0 .. 2 /\ Fails("EINVAL")
         \/ /\ set # 0 => how \in 0 .. 2
            /\ space' = r.space
            /\ ret' = [err |-> r.err, val |-> 0]
            /\ ctx' = IF set = 0 \/ r.err # "" THEN ctx
                      ELSE [ctx EXCEPT !.blocked = apply(@, how, SigSet(r.next))]
            /\ UNCHANGED <<fdVars, host, log>>

rt_sigpending(set) ==
  /\ Call("rt_sigpending", << >>)
  /\ Gives(set, <<SigCell({ctx.pending[i] : i \in DOMAIN ctx.pending})>>, 0)

\* The old action is given before the new one is read, and before set_action
\* refuses a signal whose action cannot be changed.
rt_sigaction(sig, act, oldact) ==
  LET r == Swap(oldact, ctx.actions[sig], act)
      err == IF r.err = "" /\ act # 0 /\ sig \in Unmaskable THEN "EINVAL" ELSE r.err
  IN  /\ Call("rt_sigaction", <<sig, act, oldact>>)
      /\ \/ sig \notin 1 .. NSig /\ Fails("EINVAL")
         \/ /\ sig \in 1 .. NSig
            /\ space' = r.space
            /\ ret' = [err |-> err, val |-> 0]
            /\ ctx' = IF err # "" THEN ctx ELSE [ctx EXCEPT !.actions[sig] = r.next]
            /\ UNCHANGED <<fdVars, host, log>>

sigaltstack(ss, old) ==
  LET r == Swap(old, ctx.altstack, ss)
  IN  /\ Call("sigaltstack", <<ss, old>>)
      /\ space' = r.space /\ ret' = [err |-> r.err, val |-> 0]
      /\ ctx' = [ctx EXCEPT !.altstack = r.next]
      /\ UNCHANGED <<fdVars, host, log>>

\* send_signal: the queue keeps duplicates and has no bound.
send_signal(sig) ==
  \/ sig = 0 /\ Answers(0)
  \/ sig \notin 0 .. NSig /\ Fails("EINVAL")
  \/ /\ sig \in 1 .. NSig
     /\ ctx' = [ctx EXCEPT !.pending = Append(@, sig)] /\ log' = [log EXCEPT !.sent = Append(@, sig)]
     /\ Return(0) /\ UNCHANGED <<space, fdVars, host>>

\* tkill, and tgkill with a thread group: the guest has one thread.
tkill(ids, sig) ==
  LET checks == <<<<\E i \in DOMAIN ids : ids[i] <= 0, "EINVAL">>,
                  <<\E i \in DOMAIN ids : ids[i] # Me, "ESRCH">>>>
  IN  /\ Call("tkill", << >>)
      /\ \/ Refuse(checks)
         \/ ~ Refused(checks) /\ send_signal(sig)

\* The first signal of the queue, and the first that is not blocked.
FirstPending(pending, blocked) == 1
FirstDeliverable(pending, blocked) ==
  CHOOSE i \in DOMAIN pending :
    pending[i] \notin blocked /\ \A j \in 1 .. i - 1 : pending[j] \in blocked

\* next_deliverable, called by the embedder between two blocks.
next_deliverable ==
  LET i == FirstDeliverable(ctx.pending, ctx.blocked)
  IN  /\ \E j \in DOMAIN ctx.pending : ctx.pending[j] \notin ctx.blocked
      /\ Call("next_deliverable", << >>)
      /\ ctx' = [ctx EXCEPT !.pending = RemoveAt(@, i)]
      /\ log' = [log EXCEPT !.got = Append(@, ctx.pending[i])]
      /\ Return(ctx.pending[i]) /\ UNCHANGED <<space, fdVars, host>>
=============================================================================
