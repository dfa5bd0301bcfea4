--------------------------- MODULE SmcGuardProofs ---------------------------
(***************************************************************************)
(* The guard's bookkeeping, for any number of threads, pages, keys and     *)
(* queue slots: no tombstone is lost, entries and keys agree, and where a  *)
(* host page holds one guest page the protection matches the entries.      *)
(* There, with a single thread, no write to translated code goes           *)
(* unreported and no fault of the guard's own reaches the guest.           *)
(***************************************************************************)
EXTENDS SmcGuard, SequenceTheorems, TLAPS

\* The bookkeeping invariant.  Losing no tombstone rests on the queue being
\* a sequence of pages, and tracking exactly the pages with keys on both.
GuardInv == TypeOK /\ TombstonesQueued /\ EntriesHaveKeys

\* Queueing a page keeps the pages already queued.
LEMMA AppendRange ==
  ASSUME NEW S, NEW s \in Seq(S), NEW x \in S
  PROVE  /\ Append(s, x) \in Seq(S)
         /\ Len(Append(s, x)) = Len(s) + 1
         /\ Range(Append(s, x)) = Range(s) \cup {x}
<1>1. /\ Append(s, x) \in Seq(S) /\ Len(s) \in Nat
      /\ Len(Append(s, x)) = Len(s) + 1
      /\ DOMAIN s = 1 .. Len(s)
      /\ DOMAIN Append(s, x) = 1 .. Len(s) + 1
      /\ \A i \in 1 .. Len(s) : Append(s, x)[i] = s[i]
      /\ Append(s, x)[Len(s) + 1] = x
  BY AppendProperties, LenProperties
<1>2. 1 .. Len(s) + 1 = (1 .. Len(s)) \cup {Len(s) + 1}
  BY <1>1
<1>3. Range(Append(s, x)) = Range(s) \cup {x}
  <2> DEFINE a == Append(s, x)
             n == Len(s) + 1
  <2>1. \A y : y \in Range(a) <=> \E i \in (1 .. Len(s)) \cup {n} : y = a[i]
    BY <1>1, <1>2 DEF Range
  <2>2. \A y : y \in Range(s) <=> \E i \in 1 .. Len(s) : y = s[i]
    BY <1>1 DEF Range
  <2>3. a[n] = x /\ \A i \in 1 .. Len(s) : a[i] = s[i]
    BY <1>1
  <2> HIDE DEF a, n
  <2>4. \A y : y \in Range(a) <=> y \in Range(s) \/ y = x
    BY <2>1, <2>2, <2>3, Zenon
  <2>5. Range(a) = Range(s) \cup {x}
    BY <2>4, Zenon
  <2> QED BY <2>5 DEF a
<1> QED BY <1>1, <1>3

\* Nothing is tracked at the start.
LEMMA GuardInit == Init => GuardInv
<1> SUFFICES ASSUME Init PROVE GuardInv
  OBVIOUS
<1>1. 0 \in Page
  BY SmcAssumption DEF Page
<1>2. <<>> \in Seq(Page) /\ Len(<<>>) = 0
  OBVIOUS
<1>p. pc \in [Thread -> {"off", "drain"}]
  BY DEF Init
<1>t. pc \in [Thread -> {"off", "drain", "callback", "translate", "run", "store",
                        "fault", "unhandled"}]
  BY ONLY <1>p
<1>3. TypeOK
  <2>1. /\ entry \in [Page -> {"absent", "live", "dead"}]
        /\ keys \in [Page -> SUBSET Key]
        /\ pending_overflow_ \in BOOLEAN
        /\ writable \subseteq HostPage
    BY Zenon DEF Init
  <2>p. pending_ = <<>>
    BY DEF Init
  <2>3. pending_ \in Seq(Page) /\ Len(pending_) <= PendingCap
    BY <1>2, <2>p, SmcAssumption
  <2>2. /\ at \in [Thread -> Page]
        /\ victims \in [Thread -> SUBSET Key]
        /\ cached \subseteq Key
        /\ stale \subseteq Key
        /\ forgotten \subseteq Key
    BY <1>1 DEF Init
  <2> QED BY <1>t, <2>1, <2>2, <2>3 DEF TypeOK
<1>4. TombstonesQueued /\ EntriesHaveKeys
  BY DEF Init, TombstonesQueued, EntriesHaveKeys
<1> QED BY <1>3, <1>4 DEF GuardInv

\* Every protection change stays within the host pages.
LEMMA ProtectType ==
  ASSUME writable \subseteq HostPage, NEW S \in SUBSET Page,
         NEW rw \in BOOLEAN
  PROVE  protect_pages(S, rw) \subseteq HostPage
BY DEF protect_pages, HostPage

\* The part of the invariant that concerns the guard's own fields.
Tracking ==
  /\ entry \in [Page -> {"absent", "live", "dead"}]
  /\ keys \in [Page -> SUBSET Key]
  /\ pending_ \in Seq(Page) /\ Len(pending_) <= PendingCap
  /\ pending_overflow_ \in BOOLEAN
  /\ writable \subseteq HostPage
  /\ TombstonesQueued /\ EntriesHaveKeys

\* Registering a translation.
LEMMA OnTranslateStep ==
  ASSUME Tracking, NEW k \in Key, on_translate(k) PROVE Tracking'
<1>1. writable' \subseteq HostPage
  <2>1. Armed(k) \in SUBSET Page
    BY SmcAssumption DEF Armed
  <2> QED BY <2>1, ProtectType, Zenon DEF on_translate, Tracking
<1>2. /\ entry' \in [Page -> {"absent", "live", "dead"}]
      /\ keys' \in [Page -> SUBSET Key]
  BY DEF on_translate, Tracking
<1>3. \A p \in Page : /\ entry'[p] = IF p \in Cover[k] THEN "live" ELSE entry[p]
                      /\ keys'[p] = IF p \notin Cover[k] THEN keys[p]
                                    ELSE IF entry[p] = "dead" THEN {k}
                                    ELSE keys[p] \cup {k}
  BY DEF on_translate
<1>4. TombstonesQueued'
  BY <1>3 DEF on_translate, Tracking, TombstonesQueued
<1>5. EntriesHaveKeys'
  <2> SUFFICES ASSUME NEW p \in Page
               PROVE  /\ entry'[p] = "absent" <=> keys'[p] = {}
                      /\ \A j \in keys'[p] : p \in Cover[j]
    BY DEF EntriesHaveKeys
  <2>1. /\ entry[p] = "absent" <=> keys[p] = {}
        /\ \A j \in keys[p] : p \in Cover[j]
    BY DEF Tracking, EntriesHaveKeys
  <2>2. CASE p \in Cover[k]
    <3>1. entry'[p] = "live" /\ (keys'[p] = {k} \/ keys'[p] = keys[p] \cup {k})
      BY <1>3, <2>2, Zenon
    <3> QED BY <2>1, <2>2, <3>1
  <2>3. CASE p \notin Cover[k]
    BY <1>3, <2>1, <2>3, Zenon
  <2> QED BY <2>2, <2>3
<1> QED BY <1>1, <1>2, <1>4, <1>5, Zenon DEF on_translate, Tracking

\* Forgetting a key; tombstones are left to the drain.
LEMMA OnInvalidateStep ==
  ASSUME Tracking, NEW k \in Key, on_invalidate(k) PROVE Tracking'
<1> DEFINE emptied == {p \in Page : entry[p] = "live" /\ keys[p] \subseteq {k}}
<1>1. writable' \subseteq HostPage
  BY ProtectType, Zenon DEF on_invalidate, Tracking
<1>2. /\ entry' \in [Page -> {"absent", "live", "dead"}]
      /\ keys' \in [Page -> SUBSET Key]
  BY DEF on_invalidate, Tracking
<1>3. \A p \in Page : /\ entry'[p] = IF p \in emptied THEN "absent" ELSE entry[p]
                      /\ keys'[p] = IF entry[p] = "live" THEN keys[p] \ {k}
                                    ELSE keys[p]
  BY DEF on_invalidate
<1>4. TombstonesQueued'
  BY <1>3 DEF on_invalidate, Tracking, TombstonesQueued
<1>5. EntriesHaveKeys'
  <2> SUFFICES ASSUME NEW p \in Page
               PROVE  /\ entry'[p] = "absent" <=> keys'[p] = {}
                      /\ \A j \in keys'[p] : p \in Cover[j]
    BY DEF EntriesHaveKeys
  <2>1. /\ entry[p] = "absent" <=> keys[p] = {}
        /\ \A j \in keys[p] : p \in Cover[j]
    BY DEF Tracking, EntriesHaveKeys
  <2>2. CASE entry[p] = "live"
    <3>1. keys'[p] = keys[p] \ {k} /\ (keys'[p] = {} <=> p \in emptied)
      BY <1>3, <2>2, Zenon
    <3> QED BY <1>3, <2>1, <2>2, <3>1
  <2>3. CASE entry[p] # "live"
    BY <1>3, <2>1, <2>3, Zenon
  <2> QED BY <2>2, <2>3
<1> QED BY <1>1, <1>2, <1>4, <1>5, Zenon DEF on_invalidate, Tracking

\* A fault queues the page it tombstones, or records that it could not.
LEMMA TombstoneStep ==
  ASSUME Tracking, NEW p \in Page, entry[p] = "live", Tombstone(p)
  PROVE  Tracking'
<1>1. writable' \subseteq HostPage
  BY ProtectType, Zenon DEF Tombstone, Tracking
<1>2. entry' \in [Page -> {"absent", "live", "dead"}]
  BY DEF Tombstone, Tracking
<1>3. EntriesHaveKeys'
  BY DEF Tombstone, Tracking, EntriesHaveKeys
<1>4. CASE Len(pending_) < PendingCap
  <2>1. pending_' = Append(pending_, p) /\ pending_overflow_' = pending_overflow_
    BY <1>4 DEF Tombstone
  <2>2. /\ pending_' \in Seq(Page) /\ Len(pending_') = Len(pending_) + 1
        /\ Range(pending_') = Range(pending_) \cup {p}
    BY <2>1, AppendRange DEF Tracking
  <2>3. Len(pending_) \in Nat
    BY LenProperties DEF Tracking
  <2>4. Len(pending_') <= PendingCap
    BY <1>4, <2>2, <2>3, SmcAssumption
  <2>5. TombstonesQueued'
    BY <2>1, <2>2 DEF Tombstone, Tracking, TombstonesQueued
  <2> QED BY <1>1, <1>2, <1>3, <2>1, <2>2, <2>4, <2>5, Zenon DEF Tombstone, Tracking
<1>5. CASE ~ (Len(pending_) < PendingCap)
  <2>1. pending_overflow_' = TRUE /\ pending_' = pending_
    BY <1>5 DEF Tombstone
  <2>2. TombstonesQueued'
    BY <2>1 DEF TombstonesQueued
  <2> QED BY <1>1, <1>2, <1>3, <2>1, <2>2, Zenon DEF Tombstone, Tracking
<1> QED BY <1>4, <1>5

\* A drain empties the queue only together with every tombstone.
LEMMA DrainStep ==
  ASSUME Tracking, NEW t \in Thread, Drain(t) PROVE Tracking'
<1>1. \A p \in Page : /\ entry'[p] = IF p \in Reaped THEN "absent" ELSE entry[p]
                      /\ keys'[p] = IF p \in Reaped THEN {} ELSE keys[p]
  BY DEF Drain
<1>2. \A p \in Page : entry[p] = "dead" => p \in Reaped
  BY DEF Tracking, TombstonesQueued, Reaped
<1>3. TombstonesQueued'
  BY <1>1, <1>2 DEF TombstonesQueued
<1>4. EntriesHaveKeys'
  BY <1>1 DEF Tracking, EntriesHaveKeys
<1>5. /\ entry' \in [Page -> {"absent", "live", "dead"}]
      /\ keys' \in [Page -> SUBSET Key]
  BY DEF Drain, Tracking
<1>6. <<>> \in Seq(Page) /\ Len(<<>>) = 0
  OBVIOUS
<1>7. pending_' \in Seq(Page) /\ Len(pending_') <= PendingCap
  BY <1>6, SmcAssumption DEF Drain
<1> QED BY <1>3, <1>4, <1>5, <1>7, Zenon DEF Drain, Tracking

\* Steps that leave the guard alone.
LEMMA GuardUnchanged ==
  ASSUME Tracking, UNCHANGED guard PROVE Tracking'
BY DEF guard, Tracking, TombstonesQueued, EntriesHaveKeys

\* Every step preserves the tracking part of the invariant.
LEMMA TrackingStep ==
  ASSUME GuardInv, NEW t \in Thread, Step(t) PROVE Tracking'
<1>0. Tracking
  BY DEF GuardInv, TypeOK, Tracking
<1>1. CASE Drain(t)
  BY <1>0, <1>1, DrainStep
<1>2. CASE DrainDone(t) \/ Hit(t) \/ EndBlock(t) \/ Store(t)
  BY <1>0, <1>2, GuardUnchanged DEF DrainDone, Hit, EndBlock, Store
<1>3. CASE Fault(t)
  <2>1. at[t] \in Page
    BY DEF GuardInv, TypeOK
  <2> QED BY <1>0, <1>3, <2>1, TombstoneStep, GuardUnchanged DEF Fault
<1>4. ASSUME NEW k \in Key, Callback(t, k) PROVE Tracking'
  BY <1>0, <1>4, OnInvalidateStep, GuardUnchanged DEF Callback
<1>5. ASSUME NEW k \in Key, Translate(t, k) PROVE Tracking'
  BY <1>0, <1>5, OnTranslateStep DEF Translate
<1>6. ASSUME NEW k \in Key, Evict(t, k) PROVE Tracking'
  BY <1>0, <1>6, OnInvalidateStep DEF Evict
<1>7. ASSUME NEW p \in Page, BeginStore(t, p) PROVE Tracking'
  BY <1>0, <1>7, GuardUnchanged DEF BeginStore
<1> QED BY <1>1, <1>2, <1>3, <1>4, <1>5, <1>6, <1>7 DEF Step

\* The threads' own variables keep their types.
LEMMA ThreadTypes ==
  ASSUME GuardInv, NEW t \in Thread, Step(t)
  PROVE  /\ pc' \in [Thread -> {"off", "drain", "callback", "translate", "run",
                                "store", "fault", "unhandled"}]
         /\ at' \in [Thread -> Page]
         /\ victims' \in [Thread -> SUBSET Key]
         /\ cached' \subseteq Key
         /\ stale' \subseteq Key
         /\ forgotten' \subseteq Key
<1> USE DEF GuardInv, TypeOK, Goto
<1>1. CASE Drain(t)
  <2>1. UNION {keys[p] : p \in Reaped} \subseteq Key
    BY DEF Reaped
  <2> QED BY <1>1, <2>1 DEF Drain
<1>2. CASE DrainDone(t) \/ Hit(t) \/ EndBlock(t)
  BY <1>2 DEF DrainDone, Hit, EndBlock
<1>3. CASE Store(t)
  BY <1>3 DEF Store
<1>4. CASE Fault(t)
  BY <1>4 DEF Fault
<1>5. ASSUME NEW k \in Key, Callback(t, k) \/ Translate(t, k) \/ Evict(t, k)
      PROVE  /\ pc' \in [Thread -> {"off", "drain", "callback", "translate", "run",
                                    "store", "fault", "unhandled"}]
             /\ at' \in [Thread -> Page]
             /\ victims' \in [Thread -> SUBSET Key]
             /\ cached' \subseteq Key
             /\ stale' \subseteq Key
             /\ forgotten' \subseteq Key
  <2>1. UNION {keys[p] : p \in Buried(k)} \subseteq Key
    BY SmcAssumption DEF Buried
  <2> QED BY <1>5, <2>1 DEF Callback, Translate, Evict
<1>6. ASSUME NEW p \in Page, BeginStore(t, p)
      PROVE  /\ pc' \in [Thread -> {"off", "drain", "callback", "translate", "run",
                                    "store", "fault", "unhandled"}]
             /\ at' \in [Thread -> Page]
             /\ victims' \in [Thread -> SUBSET Key]
             /\ cached' \subseteq Key
             /\ stale' \subseteq Key
             /\ forgotten' \subseteq Key
  BY <1>6 DEF BeginStore
<1> QED BY <1>1, <1>2, <1>3, <1>4, <1>5, <1>6 DEF Step

\* The guard's bookkeeping invariant holds in every reachable state.
THEOREM GuardCorrect == Spec => []GuardInv
<1>1. GuardInv /\ [Next]_vars => GuardInv'
  <2> SUFFICES ASSUME GuardInv, [Next]_vars PROVE GuardInv'
    OBVIOUS
  <2>1. ASSUME NEW t \in Thread, Step(t) PROVE GuardInv'
    BY <2>1, TrackingStep, ThreadTypes DEF GuardInv, TypeOK, Tracking
  <2>2. CASE UNCHANGED vars
    BY <2>2 DEF vars, GuardInv, TypeOK, TombstonesQueued, EntriesHaveKeys
  <2> QED BY <2>1, <2>2 DEF Next
<1> QED BY <1>1, GuardInit, PTL DEF Spec

\* A fault that finds the queue full is not lost: every tombstone is queued
\* or the overflow flag makes the next drain sweep all of them.
THEOREM NoTombstoneLost == Spec => []TombstonesQueued
<1>1. GuardInv => TombstonesQueued
  BY DEF GuardInv
<1> QED BY <1>1, GuardCorrect, PTL

\* A page is tracked exactly while a key covers it.
THEOREM EntriesMatchKeys == Spec => []EntriesHaveKeys
<1>1. GuardInv => EntriesHaveKeys
  BY DEF GuardInv
<1> QED BY <1>1, GuardCorrect, PTL

-----------------------------------------------------------------------------
(* Protection, where a host page holds exactly one guest page.             *)

\* With one guest page per host page, mprotect touches no other guest page.
LEMMA HostInjective ==
  ASSUME PagesPerHost = 1
  PROVE  \A p \in Page : Host(p) = p
BY SmcAssumption DEF Host, Page

\* Changing the protection of a set of pages changes just those that
\* mprotect works on.
LEMMA ProtectExact ==
  ASSUME PagesPerHost = 1, NEW S \in SUBSET Page, NEW p \in Page,
         Host(p) \notin Unprotectable
  PROVE  /\ Host(p) \in protect_pages(S, TRUE) <=> Host(p) \in writable \/ p \in S
         /\ Host(p) \in protect_pages(S, FALSE) <=> Host(p) \in writable /\ p \notin S
<1>1. \A q \in S : Host(q) = Host(p) => q = p
  BY HostInjective
<1>2. Host(p) \in {Host(q) : q \in S} \ Unprotectable <=> p \in S
  BY <1>1
<1> HIDE DEF Host
<1> QED BY <1>2 DEF protect_pages

\* Every step keeps the protection of each page in line with its entry.
LEMMA ProtectionStep ==
  ASSUME PagesPerHost = 1, GuardInv, ProtectionMatches,
         NEW t \in Thread, Step(t)
  PROVE  ProtectionMatches'
<1> SUFFICES ASSUME NEW p \in Page, Host(p) \notin Unprotectable
             PROVE  Host(p) \notin writable' <=> entry'[p] = "live"
  BY DEF ProtectionMatches
<1>0. Host(p) \notin writable <=> entry[p] = "live"
  BY DEF ProtectionMatches
<1>1. CASE UNCHANGED guard
  BY <1>0, <1>1 DEF guard
<1>2. ASSUME NEW k \in Key, on_translate(k)
      PROVE  Host(p) \notin writable' <=> entry'[p] = "live"
  <2>1. Armed(k) \in SUBSET Page
    BY SmcAssumption DEF Armed
  <2>2. Host(p) \in writable' <=> Host(p) \in writable /\ p \notin Armed(k)
    BY <1>2, <2>1, ProtectExact, Zenon DEF on_translate
  <2>3. p \in Armed(k) <=> p \in Cover[k] /\ (entry[p] # "live" \/ keys[p] = {})
    BY DEF Armed
  <2>4. entry'[p] = IF p \in Cover[k] THEN "live" ELSE entry[p]
    BY <1>2 DEF on_translate
  <2>5. entry[p] = "live" => keys[p] # {}
    BY DEF GuardInv, EntriesHaveKeys
  <2> QED BY <1>0, <2>2, <2>3, <2>4, <2>5
<1>3. ASSUME NEW k \in Key, on_invalidate(k)
      PROVE  Host(p) \notin writable' <=> entry'[p] = "live"
  <2> DEFINE emptied == {q \in Page : entry[q] = "live" /\ keys[q] \subseteq {k}}
  <2>1. emptied \in SUBSET Page
    OBVIOUS
  <2>2. /\ writable' = protect_pages(emptied, TRUE)
        /\ entry'[p] = IF p \in emptied THEN "absent" ELSE entry[p]
    BY <1>3 DEF on_invalidate
  <2> HIDE DEF emptied
  <2>3. Host(p) \in writable' <=> Host(p) \in writable \/ p \in emptied
    BY <2>1, <2>2, ProtectExact, Zenon
  <2> QED BY <1>0, <2>2, <2>3, Zenon
<1>4. CASE Fault(t)
  <2>1. CASE entry[at[t]] = "live"
    <3>1. at[t] \in Page /\ Tombstone(at[t])
      BY <1>4, <2>1 DEF Fault, GuardInv, TypeOK
    <3>2. Host(p) \in writable' <=> Host(p) \in writable \/ p \in {at[t]}
      BY <3>1, ProtectExact, Zenon DEF Tombstone
    <3>3. entry'[p] = IF p = at[t] THEN "dead" ELSE entry[p]
      BY <3>1 DEF Tombstone, GuardInv, TypeOK
    <3> QED BY <1>0, <3>2, <3>3
  <2>2. CASE entry[at[t]] # "live"
    BY <1>1, <1>4, <2>2 DEF Fault
  <2> QED BY <2>1, <2>2
<1>5. CASE Drain(t)
  <2>1. writable' = writable
    BY <1>5 DEF Drain
  <2>2. entry'[p] = IF p \in Reaped THEN "absent" ELSE entry[p]
    BY <1>5 DEF Drain
  <2>3. p \in Reaped => entry[p] = "dead"
    BY DEF Reaped
  <2> QED BY <1>0, <2>1, <2>2, <2>3
<1> QED BY <1>1, <1>2, <1>3, <1>4, <1>5
        DEF Step, DrainDone, Hit, EndBlock, Store, Callback, Translate, Evict,
            BeginStore

\* With one guest page per host page, a page is read-only exactly while it
\* holds live translations: no store to translated code goes unseen, and no
\* page is left read-only.
THEOREM ProtectionIsExact ==
  ASSUME PagesPerHost = 1
  PROVE  Spec => []ProtectionMatches
<1>1. Init => ProtectionMatches
  BY DEF Init, ProtectionMatches, HostPage
<1>2. GuardInv /\ ProtectionMatches /\ [Next]_vars => ProtectionMatches'
  <2> SUFFICES ASSUME GuardInv, ProtectionMatches, [Next]_vars
               PROVE  ProtectionMatches'
    OBVIOUS
  <2>1. ASSUME NEW t \in Thread, Step(t) PROVE ProtectionMatches'
    BY <2>1, ProtectionStep
  <2>2. CASE UNCHANGED vars
    BY <2>2 DEF vars, ProtectionMatches
  <2> QED BY <2>1, <2>2 DEF Next
<1> QED BY <1>1, <1>2, GuardCorrect, PTL DEF Spec

-----------------------------------------------------------------------------
(* A single dispatching thread.                                            *)

\* A step of t moves t only, and t is one of the threads that run.
LEMMA OnlyOneMoves ==
  ASSUME GuardInv, NEW t \in Thread, Step(t)
  PROVE  /\ pc[t] # "off" /\ pc'[t] # "off"
         /\ \A u \in Thread \ {t} : pc'[u] = pc[u] /\ victims'[u] = victims[u]
         /\ Alone' <=> Alone
<1> USE DEF GuardInv, TypeOK, Goto
<1>1. /\ pc[t] # "off" /\ pc'[t] # "off"
      /\ \A u \in Thread \ {t} : pc'[u] = pc[u] /\ victims'[u] = victims[u]
  <2>1. CASE Drain(t) \/ DrainDone(t) \/ Hit(t) \/ EndBlock(t)
    BY <2>1 DEF Drain, DrainDone, Hit, EndBlock
  <2>2. CASE Store(t) \/ Fault(t)
    BY <2>2 DEF Store, Fault
  <2>3. ASSUME NEW k \in Key, Callback(t, k) \/ Translate(t, k) \/ Evict(t, k)
        PROVE  /\ pc[t] # "off" /\ pc'[t] # "off"
               /\ \A u \in Thread \ {t} : pc'[u] = pc[u] /\ victims'[u] = victims[u]
    BY <2>3 DEF Callback, Translate, Evict
  <2>4. ASSUME NEW p \in Page, BeginStore(t, p)
        PROVE  /\ pc[t] # "off" /\ pc'[t] # "off"
               /\ \A u \in Thread \ {t} : pc'[u] = pc[u] /\ victims'[u] = victims[u]
    BY <2>4 DEF BeginStore
  <2> QED BY <2>1, <2>2, <2>3, <2>4 DEF Step
<1> QED BY <1>1 DEF Alone

\* mprotect never succeeds on an unprotectable page, in either direction.
LEMMA UnprotectableStep ==
  ASSUME Unprotectable \subseteq writable, NEW t \in Thread, Step(t)
  PROVE  Unprotectable \subseteq writable'
<1>1. \A S : /\ Unprotectable \subseteq protect_pages(S, TRUE)
             /\ Unprotectable \subseteq protect_pages(S, FALSE)
  BY DEF protect_pages
<1>2. CASE Drain(t) \/ DrainDone(t) \/ Hit(t) \/ EndBlock(t) \/ Store(t)
  BY <1>2 DEF Drain, DrainDone, Hit, EndBlock, Store, guard
<1>3. CASE Fault(t)
  <2>1. writable' = writable \/ writable' = protect_pages({at[t]}, TRUE)
    BY <1>3, Zenon DEF Fault, Tombstone, guard
  <2> QED BY <1>1, <2>1, Zenon
<1>4. ASSUME NEW k \in Key, Callback(t, k) \/ Translate(t, k) \/ Evict(t, k)
      PROVE  Unprotectable \subseteq writable'
  <2>1. on_translate(k) \/ on_invalidate(k) \/ writable' = writable
    BY <1>4 DEF Callback, Translate, Evict, guard
  <2>2. CASE on_translate(k)
    BY <1>1, <2>2, Zenon DEF on_translate
  <2>3. CASE on_invalidate(k)
    BY <1>1, <2>3, Zenon DEF on_invalidate
  <2> QED BY <2>1, <2>2, <2>3
<1>5. ASSUME NEW p \in Page, BeginStore(t, p) PROVE Unprotectable \subseteq writable'
  BY <1>5 DEF BeginStore, guard
<1> QED BY <1>2, <1>3, <1>4, <1>5 DEF Step

\* k is on every page its code touches, on its way out, or forgotten.
Registered(k) == \/ k \in forgotten
                 \/ \A p \in Cover[k] : k \in keys[p]
                 \/ \E t \in Thread : k \in victims[t]

\* A write to k's pages is known to the guard.
Reported(k) == \/ \E p \in Cover[k] : \/ entry[p] = "dead" /\ k \in keys[p]
                                      \/ Host(p) \in Unprotectable
               \/ \E t \in Thread : k \in victims[t]

\* on_invalidate(k) leaves every other key and every tombstone alone.
LEMMA InvalidateOthers ==
  ASSUME GuardInv, NEW k \in Key, on_invalidate(k), NEW p \in Page
  PROVE  /\ \A j \in Key : j # k /\ j \in keys[p] => j \in keys'[p]
         /\ entry[p] = "dead" => entry'[p] = "dead" /\ keys'[p] = keys[p]
         /\ entry'[p] = "dead" => entry[p] = "dead"
BY DEF on_invalidate, GuardInv, TypeOK

\* A drain reaps every tombstone, and its victims are the keys of the reaped
\* pages.
LEMMA DrainReapsAll ==
  ASSUME GuardInv, NEW t \in Thread, Drain(t), NEW p \in Page
  PROVE  /\ entry'[p] # "dead"
         /\ entry[p] = "dead" => keys[p] \subseteq victims'[t]
         /\ entry[p] # "dead" => keys'[p] = keys[p]
<1>1. p \in Reaped <=> entry[p] = "dead"
  BY DEF GuardInv, TombstonesQueued, Reaped
<1>2. victims'[t] = UNION {keys[q] : q \in Reaped}
  BY DEF Drain, GuardInv, TypeOK
<1>3. /\ entry'[p] = IF p \in Reaped THEN "absent" ELSE entry[p]
      /\ keys'[p] = IF p \in Reaped THEN {} ELSE keys[p]
  BY DEF Drain
<1> QED BY <1>1, <1>2, <1>3

\* What a step of the only thread t does to the state it shares with nobody.
LEMMA SoloThread ==
  ASSUME GuardInv, ProtectionMatches, PagesPerHost = 1, SoloInv, Alone,
         NEW t \in Thread, Step(t)
  PROVE  /\ victims'[t] # {} => pc'[t] = "callback"
         /\ pc'[t] = "fault" => Host(at'[t]) \notin writable'
         /\ pc'[t] # "unhandled"
<1> USE DEF GuardInv, TypeOK, Goto
<1>0. /\ victims[t] # {} => pc[t] = "callback"
      /\ pc[t] = "fault" => Host(at[t]) \notin writable
      /\ pc[t] # "unhandled"
  BY DEF SoloInv, AloneInv, NoSpuriousFault
<1>1. CASE Drain(t)
  BY <1>1 DEF Drain
<1>2. CASE DrainDone(t) \/ Hit(t) \/ EndBlock(t)
  BY <1>0, <1>2 DEF DrainDone, Hit, EndBlock, guard
<1>3. CASE Store(t)
  BY <1>0, <1>3 DEF Store, guard
<1>4. CASE Fault(t)
  <2>1. at[t] \in Page /\ Host(at[t]) \notin writable
    BY <1>0, <1>4 DEF Fault
  <2>2. Host(at[t]) \notin Unprotectable
    BY <2>1 DEF SoloInv
  <2>3. entry[at[t]] = "live"
    BY <2>1, <2>2 DEF ProtectionMatches
  <2> QED BY <1>0, <1>4, <2>3 DEF Fault
<1>5. ASSUME NEW k \in Key, Callback(t, k) \/ Evict(t, k)
      PROVE  /\ victims'[t] # {} => pc'[t] = "callback"
             /\ pc'[t] \notin {"fault", "unhandled"}
  BY <1>0, <1>5 DEF Callback, Evict
<1>6. ASSUME NEW k \in Key, Translate(t, k)
      PROVE  victims'[t] = {} /\ pc'[t] = "run"
  BY <1>0, <1>6 DEF Translate
<1>7. ASSUME NEW p \in Page, BeginStore(t, p)
      PROVE  victims'[t] = {} /\ pc'[t] = "store"
  BY <1>0, <1>7 DEF BeginStore
<1> QED BY <1>1, <1>2, <1>3, <1>4, <1>5, <1>6, <1>7 DEF Step

\* A cached translation stays registered until a drain reports it.
LEMMA RegisteredStep ==
  ASSUME GuardInv, SoloInv, Alone, NEW t \in Thread, Step(t), NEW j \in cached'
  PROVE  Registered(j)'
<1> USE DEF GuardInv, TypeOK, Goto
<1>0. /\ \A k \in cached : k \in Key /\ Registered(k)
      /\ \A k \in Key : Cover[k] \subseteq Page
      /\ pc[t] # "callback" => \A u \in Thread : victims[u] = {}
  <2>1. pc[t] # "off"
    BY OnlyOneMoves
  <2> QED BY <2>1, SmcAssumption DEF SoloInv, AloneInv, Registered
<1>1. CASE UNCHANGED <<keys, victims, cached, forgotten>>
  BY <1>0, <1>1 DEF Registered
<1>2. CASE Drain(t)
  <2>0. CASE j \in forgotten
    BY <1>2, <2>0 DEF Drain, Registered
  <2> SUFFICES ASSUME j \notin forgotten PROVE Registered(j)'
    BY <2>0
  <2>1. j \in cached /\ \A p \in Cover[j] : p \in Page /\ j \in keys[p]
    BY <1>0, <1>2 DEF Drain, Registered
  <2>2. CASE \E p \in Cover[j] : entry[p] = "dead"
    BY <1>2, <2>1, <2>2, DrainReapsAll DEF Registered
  <2>3. CASE \A p \in Cover[j] : entry[p] # "dead"
    BY <1>2, <2>1, <2>3, DrainReapsAll DEF Registered
  <2> QED BY <2>2, <2>3
<1>3. ASSUME NEW k \in Key, Callback(t, k) \/ Evict(t, k) PROVE Registered(j)'
  <2>1. /\ j \in cached /\ j \in Key /\ j # k
        /\ on_invalidate(k) \/ UNCHANGED guard
        /\ \A u \in Thread : victims[u] \ {k} \subseteq victims'[u]
        /\ forgotten' = forgotten \ {k}
    BY <1>0, <1>3 DEF Callback, Evict
  <2>2. \A p \in Page : j \in keys[p] => j \in keys'[p]
    BY <2>1, InvalidateOthers DEF guard
  <2> QED BY <1>0, <2>1, <2>2 DEF Registered
<1>4. ASSUME NEW k \in Key, Translate(t, k) PROVE Registered(j)'
  <2>1. /\ j \in cached \cup {k} /\ on_translate(k) /\ victims' = victims
        /\ forgotten' = (forgotten \cup UNION {keys[p] : p \in Buried(k)}) \ {k}
    BY <1>4 DEF Translate
  <2>2. \A p \in Page :
          /\ p \in Cover[k] => k \in keys'[p]
          /\ p \notin Buried(k) => keys[p] \subseteq keys'[p]
    BY <1>0, <2>1 DEF on_translate, Buried
  <2>3. CASE j = k
    BY <1>0, <2>2, <2>3, Zenon DEF Registered
  <2>4. CASE j # k /\ \E p \in Buried(k) : j \in keys[p]
    <3>1. j \in forgotten'
      BY <2>1, <2>4
    <3> QED BY <3>1 DEF Registered
  <2>5. CASE j # k /\ \A p \in Buried(k) : j \notin keys[p]
    <3>1. \A p \in Page : j \in keys[p] => j \in keys'[p]
      BY <2>2, <2>5
    <3>2. j \in forgotten => j \in forgotten'
      BY <2>1, <2>5
    <3> QED BY <1>0, <2>1, <2>5, <3>1, <3>2 DEF Registered
  <2> QED BY <2>3, <2>4, <2>5
<1>5. CASE Fault(t)
  BY <1>1, <1>5, Zenon DEF Fault, Tombstone, guard
<1> QED BY <1>1, <1>2, <1>3, <1>4, <1>5 DEF Step, DrainDone, Hit, EndBlock, Store, BeginStore, guard

\* A store reaches a translation's bytes only through a page the guard has
\* already tombstoned, or cannot protect.
LEMMA ReportedStep ==
  ASSUME GuardInv, ProtectionMatches, PagesPerHost = 1, SoloInv, Alone,
         NEW t \in Thread, Step(t), NEW j \in Overwritten'
  PROVE  Reported(j)'
<1> USE DEF GuardInv, TypeOK, Goto
<1>0. /\ \A k \in cached : k \in Key /\ Registered(k)
      /\ \A k \in Overwritten : Reported(k)
      /\ \A k \in Key : Cover[k] \subseteq Page
      /\ pc[t] # "callback" => \A u \in Thread : victims[u] = {}
  <2>1. pc[t] # "off"
    BY OnlyOneMoves
  <2> QED BY <2>1, SmcAssumption DEF SoloInv, AloneInv, StaleReported, Registered, Reported
<1>1. CASE UNCHANGED <<entry, keys, victims, cached, stale, forgotten>>
  BY <1>0, <1>1 DEF Reported, Overwritten
<1>2. CASE Drain(t)
  <2>1. j \in Overwritten /\ j \in Key
    BY <1>2 DEF Drain, Overwritten
  <2> QED BY <1>0, <1>2, <2>1, DrainReapsAll, Zenon DEF Reported, Drain
<1>3. ASSUME NEW k \in Key, Callback(t, k) \/ Evict(t, k) PROVE Reported(j)'
  <2>1. /\ j \in Overwritten /\ j \in Key /\ j # k
        /\ on_invalidate(k) \/ UNCHANGED guard
        /\ \A u \in Thread : victims[u] \ {k} \subseteq victims'[u]
    BY <1>3 DEF Callback, Evict, Overwritten
  <2>2. \A p \in Page : entry[p] = "dead" => entry'[p] = "dead" /\ keys'[p] = keys[p]
    BY <2>1, InvalidateOthers DEF guard
  <2> QED BY <1>0, <2>1, <2>2 DEF Reported
<1>4. ASSUME NEW k \in Key, Translate(t, k) PROVE Reported(j)'
  <2>1. /\ j \in Overwritten /\ on_translate(k) /\ victims' = victims
        /\ \A p \in Buried(k) : j \notin keys[p]
    BY <1>4 DEF Translate, Overwritten
  <2>2. \A p \in Page : entry[p] = "dead" /\ j \in keys[p]
                          => entry'[p] = "dead" /\ j \in keys'[p]
    BY <2>1 DEF on_translate, Buried
  <2> QED BY <1>0, <2>1, <2>2 DEF Reported, Overwritten
<1>5. CASE Fault(t)
  <2>1. /\ j \in Overwritten /\ keys' = keys /\ victims' = victims
        /\ \A p \in Page : entry[p] = "dead" => entry'[p] = "dead"
    BY <1>5, Zenon DEF Fault, Tombstone, guard, Overwritten
  <2> QED BY <1>0, <2>1 DEF Reported, Overwritten
<1>6. CASE Store(t)
  <2>1. UNCHANGED <<entry, keys, victims, cached>> /\ j \in cached \ forgotten
    BY <1>6 DEF Store, guard, Overwritten
  <2>2. CASE j \in stale
    BY <1>0, <2>1, <2>2 DEF Reported, Overwritten
  <2>3. CASE j \notin stale
    <3>1. j \in cached /\ at[t] \in Cover[j] /\ Host(at[t]) \in writable /\ at[t] \in Page
      BY <1>6, <2>1, <2>3 DEF Store, Overwritten
    <3>2. CASE \A p \in Cover[j] : j \in keys[p]
      <4>1. entry[at[t]] # "absent"
        BY <3>1, <3>2 DEF EntriesHaveKeys
      <4>2. Host(at[t]) \in Unprotectable \/ entry[at[t]] = "dead"
        BY <3>1, <4>1 DEF ProtectionMatches
      <4> QED BY <2>1, <3>1, <3>2, <4>2 DEF Reported
    <3> QED BY <1>0, <2>1, <3>1, <3>2 DEF Registered, Reported
  <2> QED BY <2>2, <2>3
<1> QED BY <1>1, <1>2, <1>3, <1>4, <1>5, <1>6
        DEF Step, DrainDone, Hit, EndBlock, BeginStore, guard

LEMMA SoloStep ==
  ASSUME GuardInv, ProtectionMatches, PagesPerHost = 1, SoloInv,
         NEW t \in Thread, Step(t)
  PROVE  SoloInv'
<1>1. Unprotectable \subseteq writable'
  BY UnprotectableStep DEF SoloInv
<1>2. ASSUME Alone PROVE (AloneInv /\ StaleReported /\ NoSpuriousFault)'
  <2>1. /\ pc[t] # "off"
        /\ \A u \in Thread \ {t} : pc[u] = "off" /\ victims[u] = {}
    BY <1>2, OnlyOneMoves DEF SoloInv, AloneInv
  <2>2. \A u \in Thread \ {t} : pc'[u] = "off" /\ victims'[u] = {}
    BY <2>1, OnlyOneMoves
  <2>3. AloneInv'
    BY <1>2, <2>2, SoloThread, RegisteredStep DEF AloneInv, Registered
  <2>4. StaleReported'
    BY <1>2, ReportedStep DEF StaleReported, Reported
  <2>5. NoSpuriousFault'
    BY <1>2, <2>2, SoloThread DEF NoSpuriousFault
  <2> QED BY <2>3, <2>4, <2>5
<1> QED BY <1>1, <1>2, OnlyOneMoves DEF SoloInv

\* With one thread at work, every cached translation is registered on all its
\* pages, reported, or forgotten by a translation on its tombstoned page, and a
\* fault is always one of the guard's own.
THEOREM SoloCorrect ==
  ASSUME PagesPerHost = 1
  PROVE  Spec => []SoloInv
<1>1. Init => SoloInv
  BY SmcAssumption DEF Init, SoloInv, AloneInv, StaleReported, Overwritten, NoSpuriousFault, Alone
<1>2. GuardInv /\ ProtectionMatches /\ SoloInv /\ [Next]_vars => SoloInv'
  <2> SUFFICES ASSUME GuardInv, ProtectionMatches, SoloInv, [Next]_vars
               PROVE  SoloInv'
    OBVIOUS
  <2>1. ASSUME NEW t \in Thread, Step(t) PROVE SoloInv'
    BY <2>1, SoloStep
  <2>2. CASE UNCHANGED vars
    BY <2>2 DEF vars, SoloInv, AloneInv, StaleReported, Overwritten, NoSpuriousFault, Alone
  <2> QED BY <2>1, <2>2 DEF Next
<1> QED BY <1>1, <1>2, GuardCorrect, ProtectionIsExact, PTL DEF Spec

\* on_translate protects every page of a block, and a page becomes writable
\* again only with a tombstone that keeps the block's key for the drain.  So an
\* overwritten translation that the guard does not know of is one whose
\* tombstoned page was translated again before the drain, by direct threading;
\* nothing else a single thread does loses it.
THEOREM StaleAlwaysReported ==
  ASSUME PagesPerHost = 1
  PROVE  Spec => []StaleReported
<1>1. SoloInv => StaleReported
  BY DEF SoloInv, StaleReported
<1> QED BY <1>1, SoloCorrect, PTL

\* handle_fault claims every write fault its own protection caused.
THEOREM NoOwnFaultEscapes ==
  ASSUME PagesPerHost = 1
  PROVE  Spec => []NoSpuriousFault
<1>1. SoloInv => NoSpuriousFault
  BY DEF SoloInv, NoSpuriousFault
<1> QED BY <1>1, SoloCorrect, PTL
=============================================================================
