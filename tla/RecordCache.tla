---------------------------- MODULE RecordCache ----------------------------
(***************************************************************************)
(* server/cached_data_server.py: class RecordCache, and the threads of a   *)
(* CachedDataServer that work on one cache at a time: those that call      *)
(* cache_record (the main thread reads from the network, the event loop    *)
(* serves `publish` requests) and the one of cleanup_loop, which cleans up *)
(* and then saves to disk.                                                 *)
(*                                                                         *)
(* A field's list is protected by a lock that is made when the field is    *)
(* first seen.  `if field not in self.locks`, the creation of the lock,    *)
(* its look-up and its acquisition are separate steps, so two threads may  *)
(* each make one: a lock is named by the thread that made it.              *)
(*                                                                         *)
(* A record is cached under each of its fields as a pair of timestamp and  *)
(* value; the value is abstracted to the number of the record.  Records    *)
(* whose fields hold lists of pairs are several records here.  Metadata is *)
(* only ever overwritten whole, under a lock of its own, and is left out.  *)
(***************************************************************************)
EXTENDS CacheCleanup, FiniteSets, SequencesExt

CONSTANTS
  Field,         \* field names
  Writer,        \* the threads that call cache_record
  Feeds,         \* the fields that each of them brings records of
  Cleaner,       \* the thread of cleanup_loop
  Loader,        \* names the locks that load_from_disk makes
  BackSeconds,   \* back_seconds
  DiskCache,     \* is a disk_cache given?
  InitialDisk,   \* the disk caches found at the start
  NONE,          \* no list, no lock, no file
  TORN,          \* a cache file that json cannot parse
  RecordBound,   \* bound: records received
  TimeBound,     \* bound: the clock
  CrashBound     \* bound: restarts

Thread == Writer \cup {Cleaner}
Record == [id : 0..RecordBound, ts : 0..TimeBound]
Lists == Seq(Record) \cup {NONE}

ASSUME CacheAssumption ==
  /\ Feeds \in [Writer -> SUBSET Field]
  /\ BackSeconds \in Nat
  /\ DiskCache \in BOOLEAN
  /\ Cleaner \notin Writer /\ Loader \notin Thread /\ NONE \notin Thread \cup {Loader}
  /\ NONE \notin Seq(Record) /\ TORN \notin Lists
  /\ InitialDisk \subseteq [Field -> Lists \cup {TORN}]
  /\ RecordBound \in Nat /\ TimeBound \in Nat /\ CrashBound \in Nat

VARIABLES
  data,      \* self.data, NONE where it has no key
  locks,     \* self.locks, by the names of the threads that made them
  disk,      \* the disk cache: field to file
  failed,    \* failed_files
  at,        \* where each thread is
  todo,      \* the fields it has still to treat
  field,     \* the field it treats
  lock,      \* the lock it has looked up for that field
  item,      \* the record a writer is caching
  view,      \* the list cleanup() has read
  now,       \* time.time()
  oldest,    \* cleanup()'s argument
  made,      \* the records received so far
  crashes,   \* the restarts so far
  appended,  \* history: what was cached or loaded since the start
  saved      \* history: what the last complete save of a field wrote

threadVars  == <<at, todo, field, lock, item, view, oldest>>
historyVars == <<appended, saved>>
vars == <<data, locks, disk, failed, threadVars, now, made, crashes, historyVars>>

NoItem == [id |-> 0, ts |-> 0]

Inside == {"create", "append", "replace", "write"}

TypeOK ==
  /\ data \in [Field -> Lists]
  /\ locks \in [Field -> Writer \cup {Loader, NONE}]
  /\ disk \in [Field -> Lists \cup {TORN}]
  /\ failed \in SUBSET Field
  /\ at \in [Thread -> {"idle", "next", "make", "look", "wait", "clean", "save"} \cup Inside]
  /\ todo \in [Thread -> SUBSET Field]
  /\ field \in [Thread -> Field \cup {NONE}]
  /\ lock \in [Thread -> Writer \cup {Loader, NONE}]
  /\ item \in [Writer -> Record]
  /\ view \in Seq(Record)
  /\ now \in 0..TimeBound
  /\ oldest \in Int
  /\ made \in 0..RecordBound
  /\ crashes \in 0..CrashBound
  /\ appended \in [Field -> Seq(Record)]
  /\ saved \in [Field -> Lists]

-----------------------------------------------------------------------------
(***************************************************************************)
(* load_from_disk, in the constructor, before there is any thread: a file  *)
(* that does not parse leaves its field without data, but with a lock.     *)
(***************************************************************************)
Loaded(files) ==
  [f \in Field |-> IF ~DiskCache \/ files[f] = TORN THEN NONE ELSE files[f]]

LoadedLocks(files) ==
  [f \in Field |-> IF ~DiskCache \/ files[f] = NONE THEN NONE ELSE Loader]

AsCached(lists) == [f \in Field |-> IF lists[f] = NONE THEN <<>> ELSE lists[f]]

Unset == [t \in Thread |-> NONE]

Init ==
  /\ disk \in InitialDisk
  /\ data = Loaded(disk)
  /\ locks = LoadedLocks(disk)
  /\ failed = {}
  /\ at = [t \in Thread |-> "idle"]
  /\ todo = [t \in Thread |-> {}]
  /\ field = Unset
  /\ lock = Unset
  /\ item = [w \in Writer |-> NoItem]
  /\ view = <<>>
  /\ oldest = 0
  /\ now = 0
  /\ made = 0
  /\ crashes = 0
  /\ appended = AsCached(data)
  /\ saved = data

\* The process dies at any point and is started again.
Restart ==
  /\ crashes < CrashBound
  /\ crashes' = crashes + 1
  /\ data' = Loaded(disk)
  /\ locks' = LoadedLocks(disk)
  /\ failed' = {}
  /\ at' = [t \in Thread |-> "idle"]
  /\ todo' = [t \in Thread |-> {}]
  /\ field' = Unset
  /\ lock' = Unset
  /\ item' = [w \in Writer |-> NoItem]
  /\ view' = <<>>
  /\ oldest' = 0
  /\ appended' = AsCached(data')
  /\ saved' = data'
  /\ UNCHANGED <<disk, now, made>>

-----------------------------------------------------------------------------
(***************************************************************************)
(* The locks.                                                              *)
(***************************************************************************)
Moves(t, place) == at' = [at EXCEPT ![t] = place]

\* t holds the lock it has looked up.
Holds(t) == at[t] \in Inside

MayEnter(t) ==
  \A u \in Thread \ {t} : ~(Holds(u) /\ field[u] = field[t] /\ lock[u] = lock[t])

\* `with self.locks[field]`: first the look-up ...
LooksUp(t) ==
  /\ at[t] = "look"
  /\ lock' = [lock EXCEPT ![t] = locks[field[t]]]
  /\ Moves(t, "wait")
  /\ UNCHANGED <<data, locks, disk, failed, todo, field, item, view, oldest, now, made,
                 crashes, historyVars>>

\* ... and at the end of the block the next field.
Leaves(t, afterwards) ==
  /\ todo' = [todo EXCEPT ![t] = @ \ {field[t]}]
  /\ field' = [field EXCEPT ![t] = NONE]
  /\ lock' = [lock EXCEPT ![t] = NONE]
  /\ Moves(t, afterwards)

-----------------------------------------------------------------------------
(***************************************************************************)
(* cache_record.                                                           *)
(***************************************************************************)
Receives(w) ==
  /\ at[w] = "idle"
  /\ made < RecordBound
  /\ made' = made + 1
  /\ \E fields \in SUBSET Feeds[w] \ {{}} : todo' = [todo EXCEPT ![w] = fields]
  /\ \E ts \in 0..now : item' = [item EXCEPT ![w] = [id |-> made + 1, ts |-> ts]]
  /\ Moves(w, "next")
  /\ UNCHANGED <<data, locks, disk, failed, field, lock, view, oldest, now, crashes,
                 historyVars>>

\* `if field not in self.locks`
Looks(w) ==
  /\ at[w] = "next"
  /\ \E f \in todo[w] :
       /\ field' = [field EXCEPT ![w] = f]
       /\ Moves(w, IF locks[f] = NONE THEN "make" ELSE "look")
  /\ UNCHANGED <<data, locks, disk, failed, todo, lock, item, view, oldest, now, made,
                 crashes, historyVars>>

MakesLock(w) ==
  /\ at[w] = "make"
  /\ locks' = [locks EXCEPT ![field[w]] = w]
  /\ Moves(w, "look")
  /\ UNCHANGED <<data, disk, failed, todo, field, lock, item, view, oldest, now, made,
                 crashes, historyVars>>

\* Mutant: the lock is not waited for.
EntersAnyway(w) ==
  /\ at[w] = "wait"
  /\ Moves(w, IF data[field[w]] = NONE THEN "create" ELSE "append")
  /\ UNCHANGED <<data, locks, disk, failed, todo, field, lock, item, view, oldest, now,
                 made, crashes, historyVars>>

\* The lock is acquired and `if field not in self.data` evaluated.
Enters(w) ==
  /\ at[w] = "wait" /\ MayEnter(w)
  /\ Moves(w, IF data[field[w]] = NONE THEN "create" ELSE "append")
  /\ UNCHANGED <<data, locks, disk, failed, todo, field, lock, item, view, oldest, now,
                 made, crashes, historyVars>>

CreatesList(w) ==
  /\ at[w] = "create"
  /\ data' = [data EXCEPT ![field[w]] = <<>>]
  /\ Moves(w, "append")
  /\ UNCHANGED <<locks, disk, failed, todo, field, lock, item, view, oldest, now, made,
                 crashes, historyVars>>

Appends(w) ==
  /\ at[w] = "append"
  /\ data' = [data EXCEPT ![field[w]] = Append(@, item[w])]
  /\ appended' = [appended EXCEPT ![field[w]] = Append(@, item[w])]
  /\ IF todo[w] = {field[w]}
     THEN Leaves(w, "idle") /\ item' = [item EXCEPT ![w] = NoItem]
     ELSE Leaves(w, "next") /\ UNCHANGED item
  /\ UNCHANGED <<locks, disk, failed, view, oldest, now, made, crashes, saved>>

-----------------------------------------------------------------------------
(***************************************************************************)
(* cleanup.                                                                *)
(***************************************************************************)
Keys == {f \in Field : data[f] # NONE}

\* A key of data has a lock, so the cleaner goes straight to its look-up.
Wakes ==
  /\ at[Cleaner] = "idle"
  /\ oldest' = now - BackSeconds
  /\ todo' = [todo EXCEPT ![Cleaner] = Keys]
  /\ Moves(Cleaner, "clean")
  /\ UNCHANGED <<data, locks, disk, failed, field, lock, item, view, now, made, crashes,
                 historyVars>>

\* cleanup waits for a field's lock and reads its list ...
CleanReads(f) ==
  /\ at[Cleaner] = "clean" /\ f \in todo[Cleaner]
  /\ \A t \in Writer : ~(Holds(t) /\ field[t] = f /\ lock[t] = locks[f])
  /\ field' = [field EXCEPT ![Cleaner] = f]
  /\ lock' = [lock EXCEPT ![Cleaner] = locks[f]]
  /\ view' = data[f]
  /\ Moves(Cleaner, "replace")
  /\ UNCHANGED <<data, locks, disk, failed, todo, item, oldest, now, made, crashes,
                 historyVars>>

\* ... and replaces it by what is left of it.
CleanReplaces ==
  /\ at[Cleaner] = "replace"
  /\ data' = [data EXCEPT ![field[Cleaner]] = CleanedUp(view, oldest)]
  /\ view' = <<>>
  /\ Leaves(Cleaner, "clean")
  /\ UNCHANGED <<locks, disk, failed, item, oldest, now, made, crashes, historyVars>>

CleanEnds ==
  /\ at[Cleaner] = "clean" /\ todo[Cleaner] = {}
  /\ IF DiskCache
     THEN Moves(Cleaner, "save") /\ todo' = [todo EXCEPT ![Cleaner] = Keys \ failed]
     ELSE Moves(Cleaner, "idle") /\ UNCHANGED todo
  /\ oldest' = 0
  /\ UNCHANGED <<data, locks, disk, failed, field, lock, item, view, now, made, crashes,
                 historyVars>>

-----------------------------------------------------------------------------
(***************************************************************************)
(* save_to_disk.                                                           *)
(***************************************************************************)

\* open(file, 'w') truncates the file ...
SaveOpens(f) ==
  /\ at[Cleaner] = "save" /\ f \in todo[Cleaner]
  /\ \A t \in Writer : ~(Holds(t) /\ field[t] = f /\ lock[t] = locks[f])
  /\ field' = [field EXCEPT ![Cleaner] = f]
  /\ lock' = [lock EXCEPT ![Cleaner] = locks[f]]
  /\ disk' = [disk EXCEPT ![f] = TORN]
  /\ Moves(Cleaner, "write")
  /\ UNCHANGED <<data, locks, failed, todo, item, view, oldest, now, made, crashes,
                 historyVars>>

\* ... and json.dump fills it.
SaveWrites ==
  /\ at[Cleaner] = "write"
  /\ disk' = [disk EXCEPT ![field[Cleaner]] = data[field[Cleaner]]]
  /\ saved' = [saved EXCEPT ![field[Cleaner]] = data[field[Cleaner]]]
  /\ Leaves(Cleaner, "save")
  /\ UNCHANGED <<data, locks, failed, item, view, oldest, now, made, crashes, appended>>

\* Mutant: the file that could not be written is tried again the next time.
SaveFailsUnnoticed ==
  /\ at[Cleaner] = "write"
  /\ Leaves(Cleaner, "save")
  /\ UNCHANGED <<data, locks, disk, failed, item, view, oldest, now, made, crashes,
                 historyVars>>

\* Mutant: the field is left before it is recorded as failed.
SaveFailsTooLate ==
  /\ at[Cleaner] = "write"
  /\ Leaves(Cleaner, "save")
  /\ failed' = failed \cup {field'[Cleaner]}
  /\ UNCHANGED <<data, locks, disk, item, view, oldest, now, made, crashes, historyVars>>

\* An OSError, half-way: the file is not tried again by this process.
SaveFails ==
  /\ at[Cleaner] = "write"
  /\ failed' = failed \cup {field[Cleaner]}
  /\ Leaves(Cleaner, "save")
  /\ UNCHANGED <<data, locks, disk, item, view, oldest, now, made, crashes, historyVars>>

\* A PermissionError: the file could not even be opened.
SaveRefused(f) ==
  /\ at[Cleaner] = "save" /\ f \in todo[Cleaner]
  /\ \A t \in Writer : ~(Holds(t) /\ field[t] = f /\ lock[t] = locks[f])
  /\ failed' = failed \cup {f}
  /\ todo' = [todo EXCEPT ![Cleaner] = @ \ {f}]
  /\ UNCHANGED <<data, locks, disk, at, field, lock, item, view, oldest, now, made, crashes,
                 historyVars>>

SaveEnds ==
  /\ at[Cleaner] = "save" /\ todo[Cleaner] = {}
  /\ Moves(Cleaner, "idle")
  /\ UNCHANGED <<data, locks, disk, failed, todo, field, lock, item, view, oldest, now,
                 made, crashes, historyVars>>

Tick ==
  /\ now < TimeBound
  /\ now' = now + 1
  /\ UNCHANGED <<data, locks, disk, failed, threadVars, made, crashes, historyVars>>

-----------------------------------------------------------------------------
CacheRecord(w) ==
  Looks(w) \/ MakesLock(w) \/ LooksUp(w) \/ Enters(w) \/ CreatesList(w) \/ Appends(w)

CleanupLoop ==
  \/ Wakes \/ CleanReplaces \/ CleanEnds
  \/ \E f \in Field : CleanReads(f) \/ SaveOpens(f) \/ SaveRefused(f)
  \/ SaveWrites \/ SaveFails \/ SaveEnds

Next ==
  \/ \E w \in Writer : Receives(w) \/ CacheRecord(w)
  \/ CleanupLoop
  \/ Tick
  \/ Restart

Spec == Init /\ [][Next]_vars

\* A thread that caches a record does so to its end, and cleanup_loop goes
\* round; records need not come, nor the process die.
FairSpec ==
  /\ Spec
  /\ \A w \in Writer : WF_vars(CacheRecord(w))
  /\ WF_vars(CleanupLoop)

-----------------------------------------------------------------------------
(***************************************************************************)
(* Properties.                                                             *)
(***************************************************************************)

\* At most one thread at a time works on the list of a field.
ExclusiveField ==
  \A t, u \in Thread : t # u /\ Holds(t) /\ Holds(u) => field[t] # field[u]

\* The list of a field is the end of all that was cached in it: no record
\* is lost except by cleanup from the old end, and cleanup leaves at least
\* min_back_records, and one.
CacheIsLatest ==
  \A f \in Keys :
    /\ IsSuffix(data[f], appended[f])
    /\ \/ Len(data[f]) >= MinBack /\ Len(data[f]) >= 1
       \/ data[f] = appended[f]

\* The cache is sound at every step of every thread: the types, the locks and
\* the lists.
CacheSafe == TypeOK /\ ExclusiveField /\ CacheIsLatest

\* cleanup drops no record that is young enough and among the last
\* max_records.
YoungAreKept ==
  [][crashes' = crashes =>
       \A f \in Keys : LET gone == Len(data[f]) - Len(data'[f]) IN
         \A i \in 1..gone : \/ data[f][i].ts <= oldest
                            \/ MaxRecords > MinBack /\ i <= Len(data[f]) - MaxRecords]_vars

\* A field cannot outgrow max_records for ever.
CacheShrinks ==
  MaxRecords > MinBack => []<>(\A f \in Keys : Len(data[f]) <= MaxRecords)

\* What a restart finds is what was last saved, except for the file being
\* written at that moment and those that could not be written.
OnlyTornIsLost ==
  [][crashes' # crashes =>
       \A f \in Field : \/ data'[f] = saved[f]
                        \/ f \in failed
                        \/ at[Cleaner] = "write" /\ field[Cleaner] = f]_vars
=============================================================================
