------------------------------- MODULE Writer -------------------------------
(***************************************************************************)
(* The write path of src/hecuba_core/src/Writer.cpp: the dirty-block       *)
(* write-back cache (a tbb::concurrent_hash_map), the pending-callback     *)
(* counter ncallbacks, flush_dirty_blocks, the spin-wait of                *)
(* wait_writes_completion, lazy-write toggling, single-attribute writes,   *)
(* and the destructor.  The asynchronous executor (WriterThread), the      *)
(* timestamp generator and the Cassandra backend are not under src/ and    *)
(* are modelled from spec.md at their interface.                           *)
(*                                                                         *)
(* Application threads call the Writer concurrently (spec.md section 5).   *)
(* Every call that is not one atomic step of the code is split at the      *)
(* points where another thread can interleave: the iteration of            *)
(* flush_dirty_blocks visits one entry per step and clear() is a step of   *)
(* its own, lazy_write_enabled is cleared after the flush, and             *)
(* is_write_completed reads ncallbacks and dirty_blocks->empty() in two    *)
(* steps.                                                                  *)
(***************************************************************************)
EXTENDS Integers, FiniteSets, FiniteSetsExt, TLC

CONSTANTS
    Threads,            \* application threads calling the Writer
    Keys,               \* key rows (model values)
    Cols,               \* value columns of the table
    Vals,               \* column values (model values)
    Nil,                \* no value / no key
    MaxCalls,           \* Writer::max_calls, the dirty-block threshold
    MaxWrites,          \* bound on write calls
    MaxClock,           \* bound on the wall clock read by the generator
    DisableTimestamps,  \* config "timestamped_writes" = false|no
    BackendMayFail,     \* an async execution may fail
    AllowGenSwap,       \* set_timestamp_gen may be called
    PartialWrites,      \* single-attribute writes are made
    AssignMode          \* operator= onto this Writer: "none", "drained", "any"

ASSUME /\ Threads # {} /\ Keys # {} /\ Cols # {} /\ Vals # {}
       /\ Nil \notin Keys \cup Vals
       /\ MaxCalls \in Nat /\ MaxWrites \in Nat /\ MaxClock \in Nat
       /\ {DisableTimestamps, BackendMayFail, AllowGenSwap,
           PartialWrites} \subseteq BOOLEAN
       /\ AssignMode \in {"none", "drained", "any"}

(* A value row: every column for a whole-row write, one column for a      *)
(* single-attribute write (TupleRowFactory of get_single_value).          *)
FullRows    == [Cols -> Vals]
PartialRows == UNION {[{c} -> Vals] : c \in Cols}
Rows        == FullRows \cup PartialRows

Callers == {"write", "disable", "partial", "sync", "destroy"}
PCs     == {"idle", "insert", "assign", "partial_write", "flush", "lazy_off",
            "wait", "wait_empty", "destroyed"}

VARIABLES
    lazy,        \* lazy_write_enabled
    cache,       \* dirty_blocks: key -> value row
    freed,       \* keys whose cached value a flush has already deleted
    ncallbacks,  \* submissions whose callback has not run
    inflight,    \* submissions queued to the WriterThread / driver
    nsub,        \* number of submissions so far (their identities)
    backend,     \* Cassandra cell (key, column) -> [val, ts]
    tsLast,      \* last timestamp of the current TimestampGenerator
    clock,       \* wall clock read by the generator
    pc,          \* where each thread is in its current call
    ret,         \* which call a thread's flush / wait belongs to
    arg,         \* pending single-attribute write of a thread
    snap,        \* entries present when a thread's flush began
    visited,     \* entries a thread's flush has submitted
    held,        \* key whose accessor a thread holds across its flush
    nwrites,     \* write calls made (bounded by MaxWrites)
    latest,      \* history: last value written per (key, column)
    maxTs,       \* history: largest timestamp issued
    faults       \* history: memory errors (double delete, null value, freed node)

vars == <<lazy, cache, freed, ncallbacks, inflight, nsub, backend, tsLast,
          clock, pc, ret, arg, snap, visited, held, nwrites, latest, maxTs,
          faults>>

Submission == [id : Nat, key : Keys, row : Rows, ts : Nat]
NoArg == [key |-> Nil, row |-> Nil]

EmptyCache == [k \in {} |-> Nil]
CacheKeys  == DOMAIN cache

-----------------------------------------------------------------------------
(* Writer::Writer: lazy write disabled, empty dirty_blocks, ncallbacks 0. *)
(* The generator and the backend start empty.                             *)
Init ==
    /\ lazy = FALSE
    /\ cache = EmptyCache
    /\ freed = {}
    /\ ncallbacks = 0
    /\ inflight = {}
    /\ nsub = 0
    /\ backend = [k \in Keys |-> [c \in Cols |-> [val |-> Nil, ts |-> 0]]]
    /\ tsLast = 0
    /\ clock = 0
    /\ pc = [t \in Threads |-> "idle"]
    /\ ret = [t \in Threads |-> "write"]
    /\ arg = [t \in Threads |-> NoArg]
    /\ snap = [t \in Threads |-> {}]
    /\ visited = [t \in Threads |-> {}]
    /\ held = [t \in Threads |-> Nil]
    /\ nwrites = 0
    /\ latest = [k \in Keys |-> [c \in Cols |-> Nil]]
    /\ maxTs = 0
    /\ faults = {}

(* No call may start once a thread has entered the destructor.            *)
Alive == \A t \in Threads : ret[t] # "destroy"

(* TimestampGenerator::next: wall-clock time, bumped past the last value. *)
NextTimestamp == IF clock > tsLast THEN clock ELSE tsLast + 1

(* The written value becomes the latest of each column it carries.        *)
Record(k, row) ==
    latest' = [latest EXCEPT ![k] = [c \in Cols |->
                  IF c \in DOMAIN row THEN row[c] ELSE @[c]]]

(* Writer::queue_async_query: copy the key, stamp it unless timestamps    *)
(* are disabled, count the callback, hand the pair to the WriterThread.   *)
QueueAsyncQuery(k, row) ==
    LET ts == IF DisableTimestamps THEN 0 ELSE NextTimestamp
    IN /\ tsLast' = IF DisableTimestamps THEN tsLast ELSE ts
       /\ maxTs' = Max({maxTs, ts})
       /\ ncallbacks' = ncallbacks + 1
       /\ nsub' = nsub + 1
       /\ inflight' = inflight \cup
                        {[id |-> nsub + 1, key |-> k, row |-> row, ts |-> ts]}

(* Mutant: a key already cached keeps its old value (the replace branch  *)
(* of write_to_cassandra left out).                                       *)
StoreDirtyKeepOld(k, row) == cache @@ (k :> row)

(* dirty_blocks find / insert / replace: the key maps to the new value,   *)
(* whether it was cached or not.                                          *)
StoreDirty(k, row) == (k :> row) @@ cache

(* Begin flush_dirty_blocks on behalf of the call `caller`.               *)
StartFlush(t, caller, keys) ==
    /\ pc' = [pc EXCEPT ![t] = "flush"]
    /\ ret' = [ret EXCEPT ![t] = caller]
    /\ snap' = [snap EXCEPT ![t] = keys]
    /\ visited' = [visited EXCEPT ![t] = {}]
-----------------------------------------------------------------------------
(* The end of a lazy write_to_cassandra, with the accessor on k still    *)
(* held: flush the whole cache when it exceeds max_calls, else return.    *)
ThresholdCheck(t, k, cache2) ==
    IF Cardinality(DOMAIN cache2) > MaxCalls
    THEN /\ StartFlush(t, "write", DOMAIN cache2)
         /\ held' = [held EXCEPT ![t] = k]
    ELSE /\ pc' = [pc EXCEPT ![t] = "idle"]
         /\ held' = [held EXCEPT ![t] = Nil]
         /\ UNCHANGED <<ret, snap, visited>>

(* Writer::write_to_cassandra on TupleRow pointers.  Lazy: find the key   *)
(* under an accessor (blocked while another thread holds it).  On a hit,  *)
(* replace the value (deleting the old one) and check the threshold.  On  *)
(* a miss, copy key and value and go on to insert() (InsertNode).         *)
(* Not lazy: queue the pair at once.                                      *)
WriteToCassandra(t, k, row) ==
    /\ IF lazy
       THEN /\ \A u \in Threads \ {t} : held[u] # k
            /\ IF k \in CacheKeys
               THEN LET cache2 == StoreDirty(k, row) IN
                    /\ arg' = [arg EXCEPT ![t] = NoArg]
                    /\ Record(k, row)
                    /\ cache' = cache2
                    /\ freed' = freed \ {k}
                    /\ faults' = IF k \in freed THEN faults \cup {"double_delete"}
                                                ELSE faults
                    /\ ThresholdCheck(t, k, cache2)
               ELSE /\ arg' = [arg EXCEPT ![t] = [key |-> k, row |-> row]]
                    /\ pc' = [pc EXCEPT ![t] = "insert"]
                    /\ UNCHANGED <<cache, freed, faults, latest, ret, snap,
                                   visited, held>>
            /\ UNCHANGED <<ncallbacks, inflight, nsub, tsLast, maxTs>>
       ELSE /\ arg' = [arg EXCEPT ![t] = NoArg]
            /\ Record(k, row)
            /\ QueueAsyncQuery(k, row)
            /\ pc' = [pc EXCEPT ![t] = "idle"]
            /\ UNCHANGED <<cache, freed, faults, ret, snap, visited, held>>
    /\ UNCHANGED <<lazy, backend, clock>>

(* dirty_blocks->insert(a, k) after a missed find.  If k is still absent, *)
(* the node is published with a null value and the accessor kept; a->second *)
(* is assigned in a later step (InsertValue).  If another thread inserted *)
(* k since the find, insert() returns false once that thread's accessor  *)
(* is released: the copies are leaked, the value is dropped (the write is *)
(* ordered before the one that created the node, so latest is not         *)
(* changed), and the threshold check follows with the accessor held.      *)
InsertNode(t) ==
    /\ pc[t] = "insert"
    /\ LET k == arg[t].key IN
       IF k \notin CacheKeys
       THEN /\ cache' = (k :> Nil) @@ cache
            /\ held' = [held EXCEPT ![t] = k]
            /\ pc' = [pc EXCEPT ![t] = "assign"]
            /\ UNCHANGED <<arg, ret, snap, visited>>
       ELSE /\ \A u \in Threads \ {t} : held[u] # k
            /\ arg' = [arg EXCEPT ![t] = NoArg]
            /\ UNCHANGED cache
            /\ ThresholdCheck(t, k, cache)
    /\ UNCHANGED <<lazy, freed, ncallbacks, inflight, nsub, backend, tsLast,
                   clock, nwrites, latest, maxTs, faults>>

(* a->second = v after a successful insert, then the threshold check.  If *)
(* a concurrent clear() has removed the node meanwhile, the value goes    *)
(* into a node no longer in the map.                                      *)
InsertValue(t) ==
    /\ pc[t] = "assign"
    /\ LET k == arg[t].key
           row == arg[t].row
           cache2 == IF k \in CacheKeys THEN StoreDirty(k, row) ELSE cache
       IN /\ Record(k, row)
          /\ cache' = cache2
          /\ ThresholdCheck(t, k, cache2)
    /\ arg' = [arg EXCEPT ![t] = NoArg]
    /\ UNCHANGED <<lazy, freed, ncallbacks, inflight, nsub, backend, tsLast,
                   clock, nwrites, maxTs, faults>>

(* A call may start on an idle thread of a live Writer.                   *)
Call(t) == pc[t] = "idle" /\ Alive

(* Writer::write_to_cassandra on untyped key and value: a whole-row write.  *)
Write(t, k, row) ==
    /\ Call(t)
    /\ nwrites < MaxWrites
    /\ nwrites' = nwrites + 1
    /\ WriteToCassandra(t, k, row)

(* Writer::write_to_cassandra with a value_name: disable the dirty      *)
(* cache (flushing it if it was on), then write that one attribute.  *)
WritePartial(t, k, row) ==
    /\ PartialWrites
    /\ Call(t)
    /\ nwrites < MaxWrites
    /\ nwrites' = nwrites + 1
    /\ arg' = [arg EXCEPT ![t] = [key |-> k, row |-> row]]
    /\ IF lazy
       THEN StartFlush(t, "partial", CacheKeys)
       ELSE /\ pc' = [pc EXCEPT ![t] = "partial_write"]
            /\ UNCHANGED <<ret, snap, visited>>
    /\ UNCHANGED <<lazy, cache, freed, ncallbacks, inflight, nsub, backend,
                   tsLast, clock, held, latest, maxTs, faults>>

(* The inner write_to_cassandra(k, v) of a single-attribute write; it     *)
(* reads lazy_write_enabled again.                                        *)
PartialWrite(t) ==
    /\ pc[t] = "partial_write"
    /\ WriteToCassandra(t, arg[t].key, arg[t].row)
    /\ UNCHANGED nwrites

(* Writer::enable_lazy_write.                                             *)
EnableLazy(t) ==
    /\ Call(t)
    /\ lazy' = TRUE
    /\ UNCHANGED <<cache, freed, ncallbacks, inflight, nsub, backend, tsLast,
                   clock, pc, ret, arg, snap, visited, held, nwrites, latest,
                   maxTs, faults>>

(* Writer::disable_lazy_write when lazy: flush, then clear the flag.  (A  *)
(* call while lazy is off does nothing.)                                  *)
DisableLazy(t) ==
    /\ Call(t)
    /\ lazy
    /\ StartFlush(t, "disable", CacheKeys)
    /\ UNCHANGED <<lazy, cache, freed, ncallbacks, inflight, nsub, backend,
                   tsLast, clock, arg, held, nwrites, latest, maxTs, faults>>

(* Writer::flush_elements -> wait_writes_completion: flush, then wait.    *)
Sync(t) ==
    /\ Call(t)
    /\ StartFlush(t, "sync", CacheKeys)
    /\ UNCHANGED <<lazy, cache, freed, ncallbacks, inflight, nsub, backend,
                   tsLast, clock, arg, held, nwrites, latest, maxTs, faults>>

(* Writer::~Writer: wait_writes_completion before freeing anything.  The  *)
(* caller owns the Writer, so no other call is running.                   *)
Destroy(t) ==
    /\ Call(t)
    /\ \A u \in Threads \ {t} : pc[u] = "idle"
    /\ StartFlush(t, "destroy", CacheKeys)
    /\ UNCHANGED <<lazy, cache, freed, ncallbacks, inflight, nsub, backend,
                   tsLast, clock, arg, held, nwrites, latest, maxTs, faults>>

(* Writer::set_timestamp_gen: the old generator is replaced by a fresh    *)
(* one, which has issued nothing yet.                                     *)
SetTimestampGen(t) ==
    /\ AllowGenSwap
    /\ Call(t)
    /\ tsLast' = 0
    /\ UNCHANGED <<lazy, cache, freed, ncallbacks, inflight, nsub, backend,
                   clock, pc, ret, arg, snap, visited, held, nwrites, latest,
                   maxTs, faults>>
(* Writer::operator= with this Writer as the target, from another Writer  *)
(* whose lazy_write_enabled may be either: dirty_blocks is deleted and     *)
(* replaced by an empty map without flushing, ncallbacks is set to 0 and   *)
(* a fresh TimestampGenerator is installed.  The caller owns the object,   *)
(* so no other call is under way; "drained" assigns only a Writer with no  *)
(* pending work, "any" also one with dirty blocks or callbacks in flight.  *)
Assign(t) ==
    /\ AssignMode # "none"
    /\ Call(t)
    /\ \A u \in Threads \ {t} : pc[u] = "idle"
    /\ AssignMode = "drained" => ncallbacks = 0 /\ CacheKeys = {}
    /\ cache' = EmptyCache
    /\ freed' = {}
    /\ ncallbacks' = 0
    /\ tsLast' = 0
    /\ lazy' \in BOOLEAN
    /\ UNCHANGED <<inflight, nsub, backend, clock, pc, ret, arg, snap, visited,
                   held, nwrites, latest, maxTs, faults>>

-----------------------------------------------------------------------------
(* One iteration of flush_dirty_blocks: queue an entry the iterator has   *)
(* not visited yet, then delete its key and value copies.  The iterator   *)
(* takes no lock, so it may meet entries inserted after the flush began,  *)
(* one whose value is not assigned yet (queueing a null value row), and   *)
(* an entry another flush has already deleted.                            *)
FlushVisit(t) ==
    /\ pc[t] = "flush"
    /\ \E k \in CacheKeys \ visited[t] :
         /\ IF cache[k] = Nil
            THEN /\ faults' = faults \cup {"null_value"}
                 /\ UNCHANGED <<ncallbacks, inflight, nsub, tsLast, maxTs, freed>>
            ELSE /\ QueueAsyncQuery(k, cache[k])
                 /\ freed' = freed \cup {k}
                 /\ faults' = IF k \in freed THEN faults \cup {"double_delete"}
                                             ELSE faults
         /\ visited' = [visited EXCEPT ![t] = @ \cup {k}]
    /\ UNCHANGED <<lazy, cache, backend, clock, pc, ret, arg, snap, held,
                   nwrites, latest>>

(* Mutant: clear() while the iteration has entries left to visit.        *)
FlushClearEarly(t) ==
    /\ pc[t] = "flush"
    /\ cache' = EmptyCache
    /\ freed' = {}
    /\ pc' = [pc EXCEPT ![t] = CASE ret[t] = "write"                -> "idle"
                                 [] ret[t] \in {"disable", "partial"} -> "lazy_off"
                                 [] ret[t] \in {"sync", "destroy"}    -> "wait"]
    /\ held' = [held EXCEPT ![t] = Nil]
    /\ faults' = IF \E u \in Threads : held[u] \in CacheKeys
                 THEN faults \cup {"freed_held_node"} ELSE faults
    /\ UNCHANGED <<lazy, ncallbacks, inflight, nsub, backend, tsLast, clock,
                   ret, arg, snap, visited, nwrites, latest, maxTs>>

(* dirty_blocks->clear() once the iteration has reached the end: every    *)
(* entry present at its start has been visited; entries inserted since    *)
(* and not visited are dropped with the rest.  clear() frees every node,  *)
(* also one whose accessor a thread holds.  The calling method then       *)
(* continues: write_to_cassandra returns (releasing its accessor),        *)
(* disable_lazy_write clears the flag, wait_writes_completion waits.      *)
FlushClear(t) ==
    /\ pc[t] = "flush"
    /\ snap[t] \cap CacheKeys \subseteq visited[t]
    /\ cache' = EmptyCache
    /\ freed' = {}
    /\ pc' = [pc EXCEPT ![t] = CASE ret[t] = "write"                -> "idle"
                                 [] ret[t] \in {"disable", "partial"} -> "lazy_off"
                                 [] ret[t] \in {"sync", "destroy"}    -> "wait"]
    /\ held' = [held EXCEPT ![t] = Nil]
    /\ faults' = IF \E u \in Threads : held[u] \in CacheKeys
                 THEN faults \cup {"freed_held_node"} ELSE faults
    /\ UNCHANGED <<lazy, ncallbacks, inflight, nsub, backend, tsLast, clock,
                   ret, arg, snap, visited, nwrites, latest, maxTs>>

(* disable_lazy_write: lazy_write_enabled = false after the flush.        *)
LazyOff(t) ==
    /\ pc[t] = "lazy_off"
    /\ lazy' = FALSE
    /\ pc' = [pc EXCEPT ![t] = IF ret[t] = "partial" THEN "partial_write"
                                                     ELSE "idle"]
    /\ UNCHANGED <<cache, freed, ncallbacks, inflight, nsub, backend, tsLast,
                   clock, ret, arg, snap, visited, held, nwrites, latest,
                   maxTs, faults>>

(* is_write_completed, first read: ncallbacks == 0 (else yield, retry).   *)
WaitCounter(t) ==
    /\ pc[t] = "wait"
    /\ ncallbacks = 0
    /\ pc' = [pc EXCEPT ![t] = "wait_empty"]
    /\ UNCHANGED <<lazy, cache, freed, ncallbacks, inflight, nsub, backend,
                   tsLast, clock, ret, arg, snap, visited, held, nwrites,
                   latest, maxTs, faults>>

(* is_write_completed, second read: dirty_blocks->empty().  If it holds,  *)
(* wait_writes_completion returns (to flush_elements, or the destructor,  *)
(* which frees the Writer); otherwise the loop polls again.               *)
WaitEmpty(t) ==
    /\ pc[t] = "wait_empty"
    /\ pc' = [pc EXCEPT ![t] =
                IF CacheKeys # {} THEN "wait"
                ELSE IF ret[t] = "destroy" THEN "destroyed" ELSE "idle"]
    /\ UNCHANGED <<lazy, cache, freed, ncallbacks, inflight, nsub, backend,
                   tsLast, clock, ret, arg, snap, visited, held, nwrites,
                   latest, maxTs, faults>>

-----------------------------------------------------------------------------
(* Writer::bind_cassstatement: a row with fewer elements than the table   *)
(* has values binds the partial statement of its one column; otherwise    *)
(* the whole-row statement binds every column.                            *)
BindColumns(row) ==
    IF Cardinality(Cols) > Cardinality(DOMAIN row) THEN DOMAIN row ELSE Cols

(* Cassandra upsert of one cell: with a client timestamp the newer        *)
(* timestamp wins; without one the server stamps it on arrival, so the    *)
(* later execution wins.                                                  *)
Upsert(cell, v, ts) ==
    IF DisableTimestamps \/ ts > cell.ts THEN [val |-> v, ts |-> ts] ELSE cell

(* Mutant: the callback decrements ncallbacks twice.                     *)
FinishAsyncCallTwice(s) ==
    /\ ncallbacks' = ncallbacks - 2
    /\ inflight' = inflight \ {s}

(* Writer::finish_async_call: ncallbacks--.                               *)
FinishAsyncCall(s) ==
    /\ ncallbacks' = ncallbacks - 1
    /\ inflight' = inflight \ {s}

(* The WriterThread binds the statement, the driver executes it, and the  *)
(* completion callback calls finish_async_call.  Executions complete in   *)
(* any order.                                                             *)
Complete(s) ==
    /\ s \in inflight
    /\ LET cols == BindColumns(s.row) IN
       backend' = [backend EXCEPT ![s.key] = [c \in Cols |->
                     IF c \in cols THEN Upsert(@[c], s.row[c], s.ts)
                                   ELSE @[c]]]
    /\ FinishAsyncCall(s)
    /\ UNCHANGED <<lazy, cache, freed, nsub, tsLast, clock, pc, ret, arg,
                   snap, visited, held, nwrites, latest, maxTs, faults>>

(* Mutant: the failure path of the callback skips finish_async_call.     *)
CompleteFailedLeak(s) ==
    /\ BackendMayFail
    /\ s \in inflight
    /\ inflight' = inflight \ {s}
    /\ UNCHANGED <<lazy, cache, freed, ncallbacks, nsub, backend, tsLast,
                   clock, pc, ret, arg, snap, visited, held, nwrites, latest,
                   maxTs, faults>>

(* A failed execution changes nothing in the backend; the callback still  *)
(* runs and releases the pending slot.                                    *)
CompleteFailed(s) ==
    /\ BackendMayFail
    /\ s \in inflight
    /\ FinishAsyncCall(s)
    /\ UNCHANGED <<lazy, cache, freed, nsub, backend, tsLast, clock, pc, ret,
                   arg, snap, visited, held, nwrites, latest, maxTs, faults>>

(* The wall clock advances.                                               *)
Tick ==
    /\ clock < MaxClock
    /\ clock' = clock + 1
    /\ UNCHANGED <<lazy, cache, freed, ncallbacks, inflight, nsub, backend,
                   tsLast, pc, ret, arg, snap, visited, held, nwrites, latest,
                   maxTs, faults>>

(* After the destructor nothing more happens.                             *)
Terminated ==
    /\ \E t \in Threads : pc[t] = "destroyed"
    /\ UNCHANGED vars

-----------------------------------------------------------------------------
(* The steps a thread takes inside a call it has started.                 *)
Running(t) ==
    \/ PartialWrite(t)
    \/ InsertNode(t)
    \/ InsertValue(t)
    \/ FlushVisit(t)
    \/ FlushClear(t)
    \/ LazyOff(t)
    \/ WaitCounter(t)
    \/ WaitEmpty(t)

Callback == \E s \in inflight : Complete(s) \/ CompleteFailed(s)

Next ==
    \/ \E t \in Threads :
         \/ \E k \in Keys, row \in FullRows : Write(t, k, row)
         \/ \E k \in Keys, row \in PartialRows : WritePartial(t, k, row)
         \/ EnableLazy(t)
         \/ DisableLazy(t)
         \/ Sync(t)
         \/ Destroy(t)
         \/ SetTimestampGen(t)
         \/ Assign(t)
         \/ Running(t)
    \/ Callback
    \/ Tick
    \/ Terminated

(* A thread inside a call keeps being scheduled, and the driver           *)
(* eventually completes every execution (spec.md 4.2: no cancellation,    *)
(* the callback always runs).  Application calls and the clock are not    *)
(* required to happen.                                                    *)
Fairness ==
    /\ \A t \in Threads : WF_vars(Running(t))
    /\ WF_vars(Callback)

Spec == Init /\ [][Next]_vars /\ Fairness

-----------------------------------------------------------------------------
TypeOK ==
    /\ lazy \in BOOLEAN
    /\ CacheKeys \subseteq Keys
    /\ \A k \in CacheKeys : cache[k] \in Rows \cup {Nil}
    /\ freed \subseteq CacheKeys
    /\ ncallbacks \in Nat
    /\ inflight \subseteq Submission
    /\ backend \in [Keys -> [Cols -> [val : Vals \cup {Nil}, ts : Nat]]]
    /\ pc \in [Threads -> PCs]
    /\ ret \in [Threads -> Callers]
    /\ held \in [Threads -> Keys \cup {Nil}]
    /\ latest \in [Keys -> [Cols -> Vals \cup {Nil}]]

-----------------------------------------------------------------------------
(* The value that (key k, column c) will end up with if no further call   *)
(* is made: a cached entry is queued by a later flush and so is stamped   *)
(* after everything already queued; otherwise the queued or stored        *)
(* version with the largest timestamp wins.                               *)
Candidates(k, c) ==
    {backend[k][c]} \cup
    {[val |-> s.row[c], ts |-> s.ts] :
        s \in {x \in inflight : x.key = k /\ c \in BindColumns(x.row)}}

Outcome(k, c) ==
    IF k \in CacheKeys /\ cache[k] # Nil /\ c \in DOMAIN cache[k]
    THEN cache[k][c]
    ELSE (CHOOSE x \in Candidates(k, c) :
             \A y \in Candidates(k, c) : y.ts <= x.ts).val

(* Last write wins: for every key and column, what the backend will hold  *)
(* once the cache is flushed and the in-flight executions complete is the *)
(* value of the last write call (write_to_cassandra, whole-row or single  *)
(* attribute) to it.  Broken by a write that a flush drops, by an older   *)
(* value queued after a newer one, or by timestamps that go backwards.    *)
LastWriteWins ==
    \A k \in Keys, c \in Cols : Outcome(k, c) = latest[k][c]

(* The destructor frees the Writer only when no callback can still reach  *)
(* it and no dirty block is left behind: the comment on ~Writer (line     *)
(* 108) and spec.md section 3.                                            *)
QuiescentOnDestroy ==
    \A t \in Threads :
        pc[t] = "destroyed" => inflight = {} /\ ncallbacks = 0 /\ CacheKeys = {}

(* wait_writes_completion returns: a thread that has started to wait for  *)
(* its writes (flush_elements or the destructor) eventually returns.      *)
DrainCompletes ==
    \A t \in Threads :
        pc[t] \in {"wait", "wait_empty"} ~> pc[t] \in {"idle", "destroyed"}

(* spec.md 4.1: disabling lazy write flushes "so the cache never retains  *)
(* entries once lazy mode is off": with lazy_write_enabled false and no   *)
(* flush or disable_lazy_write under way, dirty_blocks is empty.          *)
LazyOffCacheEmpty ==
    (~lazy /\ \A t \in Threads : pc[t] \notin {"flush", "lazy_off"})
        => CacheKeys = {}

(* dirty_blocks->clear() never frees a node while a thread still holds   *)
(* an accessor on it: the accessor of a lazy write_to_cassandra is only   *)
(* released at the end of the lazy branch (line 381), after the threshold flush   *)
(* it started (lines 379-380) has cleared the map, and a concurrent flush *)
(* may clear the node another thread has just inserted and will assign.   *)
ClearSparesHeldNodes == "freed_held_node" \notin faults

(* The cached copies are handled safely by a flush: it never deletes a   *)
(* copy that a flush has already deleted (lines 317-318, or line 373 on a *)
(* replace), and its unlocked iterator never queues an entry between      *)
(* insert() and the assignment of its value (lines 369-370), i.e. a null  *)
(* value row.                                                             *)
CacheMemorySafe == faults \cap {"double_delete", "null_value"} = {}

(* spec.md 4.4: every timestamp stamped on a queued write is larger than  *)
(* all earlier ones, also across set_timestamp_gen.                       *)
TimestampsIncrease ==
    [][\A s \in inflight' \ inflight : s.ts > maxTs]_vars

-----------------------------------------------------------------------------
(* Refinement mapping onto WriteBackCache: the written view is the value  *)
(* each cell will end up with, the store is what Cassandra holds, and the *)
(* Writer is open until the destructor has returned.                      *)
WrittenView == [k \in Keys |-> [c \in Cols |-> Outcome(k, c)]]
Stored      == [k \in Keys |-> [c \in Cols |-> backend[k][c].val]]
Open        == \A t \in Threads : pc[t] # "destroyed"

Abstract == INSTANCE WriteBackCache
                WITH view <- WrittenView, store <- Stored, open <- Open

(* The Writer implements WriteBackCache: every step either leaves the     *)
(* eventual value of every cell alone or changes it as one write call     *)
(* does; completions only touch the backend; and ~Writer returns only     *)
(* with Cassandra holding the last written values, no callback changing   *)
(* it afterwards.                                                         *)
RefinesWriteBackCache == Abstract!Spec
====
