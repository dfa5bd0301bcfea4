-------------------------- MODULE TranslationCache --------------------------
(***************************************************************************)
(* The persistent translation cache                                        *)
(* (core/src/cache/translation_cache.cpp): entries keyed by guest address  *)
(* and content hash, the index of each address's latest hash, least-       *)
(* recently-used eviction under two caps, and saving to a file, by the     *)
(* caller or by a worker thread, with crashes.                             *)
(*                                                                         *)
(* Ticks matter only by their order, so access_times_ is the relation that *)
(* holds <<j, k>> if j was used before k.  The code of an entry is         *)
(* determined by its key, up to its size.  Hit counts are telemetry and    *)
(* left out.  One path is modelled; a caller does not save synchronously   *)
(* to the path a worker is writing.  The clients either only upsert, as the *)
(* translator does, or insert as well and do not save.                     *)
(***************************************************************************)
EXTENDS Integers, Sequences, FiniteSets, FiniteSetsExt

CONSTANTS
  Key,        \* <<guest_addr, content_hash>> pairs
  CodeSize,   \* key -> bytes of host code
  Pages,      \* the address sets that invalidate_page is called with
  EntryCaps,  \* values of max_entries_; 0 is no cap
  ByteCaps,   \* values of max_bytes_; 0 is no cap
  None

Addr == {k[1] : k \in Key}
Hash == {k[2] : k \in Key}

ASSUME CacheAssumption ==
  /\ IsFiniteSet(Key) /\ Key \subseteq Addr \X Hash
  /\ CodeSize \in [Key -> Nat]
  /\ Pages \subseteq SUBSET Addr
  /\ 0 \in EntryCaps /\ EntryCaps \subseteq Nat
  /\ 0 \in ByteCaps /\ ByteCaps \subseteq Nat
  /\ None \notin Hash

VARIABLES
  entries,       \* keys of entries_
  addr_to_hash,  \* guest_addr -> latest content_hash, or None
  older,         \* <<j, k>>: j was used before k
  max_entries, max_bytes,
  file,          \* None, or what has been written of a save
  writer,        \* None, or the save being written
  writer_error,
  saved,         \* the cache at the save that wrote file (history variable)
  inserting      \* the clients call insert too, and save nothing

vars == <<entries, addr_to_hash, older, max_entries, max_bytes, file, writer,
          writer_error, saved, inserting>>
table == <<entries, addr_to_hash, older>>
caps == <<max_entries, max_bytes, inserting>>
disk == <<file, writer, writer_error, saved>>

Snapshot == [entries : SUBSET Key, addr_to_hash : [Addr -> Hash \cup {None}]]

\* header: the header, with the number of records, has been written.
File == [header : BOOLEAN, count : Nat, recs : Seq(Key)]

\* left: the records still to write; opened: the file has been truncated;
\* sync: the caller of save_to_file waits.
Writer == [snap : Snapshot, left : Seq(Key), opened : BOOLEAN, sync : BOOLEAN]

TypeOK ==
  /\ entries \subseteq Key
  /\ addr_to_hash \in [Addr -> Hash \cup {None}]
  /\ older \subseteq Key \X Key
  /\ max_entries \in EntryCaps /\ max_bytes \in ByteCaps
  /\ file = None \/ file \in File
  /\ writer = None \/ writer \in Writer
  /\ writer_error \in {None, "OpenFailed", "WriteFailed"}
  /\ saved = None \/ saved \in Snapshot
  /\ inserting \in BOOLEAN

Init ==
  /\ entries = {} /\ addr_to_hash = [a \in Addr |-> None] /\ older = {}
  /\ max_entries = 0 /\ max_bytes = 0
  /\ file = None /\ writer = None /\ writer_error = None /\ saved = None
  /\ inserting \in BOOLEAN

\* The caller is not inside save_to_file.
Free == writer # None => ~ writer.sync

Current(k) == addr_to_hash[k[1]] = k[2]

-----------------------------------------------------------------------------
(* The table.                                                              *)

\* access_times_[k] = next_tick_++, where E are the entries.
Touch(o, E, k) ==
  {p \in o : p[1] # k /\ p[2] # k} \cup ((E \ {k}) \X {k})

\* access_times_.erase of the keys in gone.
Without(o, gone) == {p \in o : p[1] \notin gone /\ p[2] \notin gone}

total_code_bytes(S) == MapThenSumSet(LAMBDA k : CodeSize[k], S)

over_cap(S) ==
  \/ max_entries # 0 /\ Cardinality(S) > max_entries
  \/ max_bytes # 0 /\ total_code_bytes(S) > max_bytes

\* Variant: the most recently used entries go first.
EvictedNewest(E, o) ==
  LET left(k) == {j \in E : <<k, j>> \notin o}
  IN  {k \in E : \A j \in E : j = k \/ <<k, j>> \in o => over_cap(left(j))}

\* The entries of E that maybe_evict erases, by the order o of their access
\* times: those whose turn comes.  left(k) is what is left when k is the
\* least recently used entry, and it goes if a cap is exceeded still.
Evicted(E, o) ==
  LET left(k) == {j \in E : <<j, k>> \notin o}
  IN  {k \in E : \A j \in E : j = k \/ <<j, k>> \in o => over_cap(left(j))}

\* erase_key of the keys in gone: the index loses an address only when it
\* names the erased hash.
Forget(index, gone) ==
  [a \in Addr |-> IF <<a, index[a]>> \in gone THEN None ELSE index[a]]

\* maybe_evict on entries E, the given index and order of access times.
maybe_evict(E, index, o) ==
  LET gone == Evicted(E, o)
  IN  /\ entries' = E \ gone
      /\ older' = Without(o, gone)
      /\ addr_to_hash' = Forget(index, gone)

lookup(a, h) ==
  /\ Free
  /\ older' = IF addr_to_hash[a] = h /\ <<a, h>> \in entries
              THEN Touch(older, entries, <<a, h>>) ELSE older
  /\ UNCHANGED <<entries, addr_to_hash, caps, disk>>

insert(k) ==
  /\ inserting /\ Free
  /\ k \notin entries
  /\ maybe_evict(entries \cup {k}, [addr_to_hash EXCEPT ![k[1]] = k[2]],
                 Touch(older, entries, k))
  /\ UNCHANGED <<caps, disk>>

\* upsert first drops the address's latest version, if it is another one.
upsert(k) ==
  LET old == {<<k[1], addr_to_hash[k[1]]>>} \ {k}
  IN  /\ Free
      /\ maybe_evict((entries \ old) \cup {k},
                     [addr_to_hash EXCEPT ![k[1]] = k[2]],
                     Touch(Without(older, old), entries \ old, k))
      /\ UNCHANGED <<caps, disk>>

\* Setting a cap evicts nothing.
set_max_entries(n) ==
  /\ Free
  /\ max_entries' = n
  /\ UNCHANGED <<table, max_bytes, inserting, disk>>

set_max_bytes(n) ==
  /\ Free
  /\ max_bytes' = n
  /\ UNCHANGED <<table, max_entries, inserting, disk>>

\* Versions that are not the latest of an address in the index are erased;
\* those whose address left the index are kept.
compact ==
  LET drop == {k \in entries : addr_to_hash[k[1]] # None /\ ~ Current(k)}
  IN  /\ Free
      /\ entries' = entries \ drop
      /\ older' = Without(older, drop)
      /\ UNCHANGED <<addr_to_hash, caps, disk>>

\* Variant: only the first address of the page.
invalidate_page_first(P) ==
  LET first == {a \in P : \A b \in P : a <= b}
      drop == {k \in entries : k[1] \in first /\ Current(k)}
  IN  /\ Free
      /\ entries' = entries \ drop
      /\ older' = Without(older, drop)
      /\ addr_to_hash' = [a \in Addr |-> IF a \in first THEN None
                                         ELSE addr_to_hash[a]]
      /\ UNCHANGED <<caps, disk>>

\* The latest version of every address in P is erased.
invalidate_page(P) ==
  LET drop == {k \in entries : k[1] \in P /\ Current(k)}
  IN  /\ Free
      /\ entries' = entries \ drop
      /\ older' = Without(older, drop)
      /\ addr_to_hash' = [a \in Addr |-> IF a \in P THEN None
                                         ELSE addr_to_hash[a]]
      /\ UNCHANGED <<caps, disk>>

-----------------------------------------------------------------------------
(* Persistence.                                                            *)

\* The order of an unordered_map is any order.
Orders(S) ==
  {s \in [1 .. Cardinality(S) -> S] : \A k \in S : \E i \in DOMAIN s : s[i] = k}

\* Distinct ticks order the entries.
IsOrder(o, S) ==
  /\ o \subseteq S \X S
  /\ \A k \in S : <<k, k>> \notin o
  /\ \A j, k \in S : j = k \/ <<j, k>> \in o \/ <<k, j>> \in o
  /\ \A j, k, l \in S : <<j, k>> \in o /\ <<k, l>> \in o => <<j, l>> \in o

\* save_to_file, or save_to_file_async once it has joined the previous
\* worker and dropped its error.
StartSave(sync) ==
  /\ ~ inserting /\ writer = None
  /\ \E s \in Orders(entries) :
       writer' = [snap |-> [entries |-> entries, addr_to_hash |-> addr_to_hash],
                  left |-> s, opened |-> FALSE, sync |-> sync]
  /\ writer_error' = IF sync THEN writer_error ELSE None
  /\ UNCHANGED <<table, caps, file, saved>>

save_to_file == StartSave(TRUE)
save_to_file_async == StartSave(FALSE)

\* wait_for_async_save returns once the worker is done, and clears its error.
wait_for_async_save ==
  /\ writer = None
  /\ writer_error' = None
  /\ UNCHANGED <<table, caps, file, writer, saved>>

\* The save ends with an error, or with None; a synchronous one returns it.
EndSave(err) ==
  /\ writer' = None
  /\ writer_error' = IF writer.sync THEN writer_error ELSE err

\* Variant: the worker reads the live table.
OpenFileLive ==
  /\ writer # None /\ ~ writer.opened
  /\ \E s \in Orders(entries) :
       /\ file' = [header |-> FALSE, count |-> Len(s), recs |-> <<>>]
       /\ writer' = [writer EXCEPT !.left = s, !.opened = TRUE]
  /\ saved' = writer.snap
  /\ UNCHANGED <<table, caps, writer_error>>

\* The file is truncated.
OpenFile ==
  /\ writer # None /\ ~ writer.opened
  /\ file' = [header |-> FALSE, count |-> Len(writer.left), recs |-> <<>>]
  /\ writer' = [writer EXCEPT !.opened = TRUE]
  /\ saved' = writer.snap
  /\ UNCHANGED <<table, caps, writer_error>>

OpenFailed ==
  /\ writer # None /\ ~ writer.opened
  /\ EndSave("OpenFailed")
  /\ UNCHANGED <<table, caps, file, saved>>

WriteHeader ==
  /\ writer # None /\ writer.opened /\ ~ file.header
  /\ file' = [file EXCEPT !.header = TRUE]
  /\ UNCHANGED <<table, caps, writer, writer_error, saved>>

WriteRecord ==
  /\ writer # None /\ writer.opened /\ file.header /\ writer.left # <<>>
  /\ file' = [file EXCEPT !.recs = Append(@, Head(writer.left))]
  /\ writer' = [writer EXCEPT !.left = Tail(@)]
  /\ UNCHANGED <<table, caps, writer_error, saved>>

\* A write or a compression failed: the file stays as it is.
WriteFailed ==
  /\ writer # None /\ writer.opened
  /\ EndSave("WriteFailed")
  /\ UNCHANGED <<table, caps, file, saved>>

SaveDone ==
  /\ writer # None /\ writer.opened /\ file.header /\ writer.left = <<>>
  /\ EndSave(None)
  /\ UNCHANGED <<table, caps, file, saved>>

\* load_from_file reads the number of records that the header promises.
Loadable == file # None /\ file.header /\ Len(file.recs) = file.count

\* The latest hash of an address is the one of its last record; the new
\* order is any order, and no cap is applied.  A file that cannot be read
\* leaves the table as it was.
load_from_file ==
  /\ Free
  /\ IF Loadable
     THEN /\ entries' = Range(file.recs)
          /\ older' \in SUBSET (Range(file.recs) \X Range(file.recs))
          /\ IsOrder(older', Range(file.recs))
          /\ addr_to_hash' = [a \in Addr |->
               LET S == {i \in DOMAIN file.recs : file.recs[i][1] = a}
               IN  IF S = {} THEN None ELSE file.recs[Max(S)][2]]
     ELSE UNCHANGED table
  /\ UNCHANGED <<caps, disk>>

\* The process dies; the next one starts with an empty cache.
Crash ==
  /\ entries' = {} /\ addr_to_hash' = [a \in Addr |-> None] /\ older' = {}
  /\ max_entries' = 0 /\ max_bytes' = 0
  /\ writer' = None /\ writer_error' = None
  /\ UNCHANGED <<file, saved, inserting>>

-----------------------------------------------------------------------------
Next ==
  \/ \E k \in Key : lookup(k[1], k[2]) \/ insert(k) \/ upsert(k)
  \/ \E n \in EntryCaps : set_max_entries(n)
  \/ \E n \in ByteCaps : set_max_bytes(n)
  \/ compact
  \/ \E P \in Pages : invalidate_page(P)
  \/ save_to_file \/ save_to_file_async \/ wait_for_async_save
  \/ OpenFile \/ OpenFailed \/ WriteHeader \/ WriteRecord \/ WriteFailed \/ SaveDone
  \/ load_from_file
  \/ Crash

Spec == Init /\ [][Next]_vars

-----------------------------------------------------------------------------
(* Properties.                                                             *)

\* insert and upsert leave the cache within both caps, and evict nothing
\* that was used after something they keep; the key itself goes last.
EvictsOldest ==
  [][\A k \in Key : (insert(k) \/ upsert(k)) =>
       /\ ~ over_cap(entries')
       /\ entries' # {} => k \in entries'
       /\ \A p \in older :
            p[1] \in entries' /\ p[1] # k /\ p[2][1] # k[1] => p[2] \in entries']_vars

\* A file that loads is the cache as it was when the save was called, even
\* if the cache changed while the worker wrote or a crash cut a save short.
FileIsSnapshot == Loadable => Range(file.recs) = saved.entries

\* "Drop every entry whose guest_addr falls within" the page.
PageDropped ==
  [][~ inserting => \A P \in Pages : invalidate_page(P) =>
       {k \in entries' : k[1] \in P} = {}]_vars

=============================================================================
