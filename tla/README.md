# TLA+ models of the Hecuba Writer

This directory holds TLA+ models of the write path in
`src/hecuba_core/src/Writer.cpp`. That is the C++ `Writer` of Hecuba: it sits
between an application and Cassandra (and, optionally, a Kafka topic). The
modules are checked with TLC. `PROJECT.json` lists the components, runs,
mutants, source map, findings and hazards.

## 1. Inventory

### Components and their state

| Component | Where | State | Operations |
|---|---|---|---|
| **Writer** (write-back cache and orchestration) | `Writer.cpp` | `lazy_write_enabled`, `dirty_blocks` (a `tbb::concurrent_hash_map` from key row to value row, holding owned copies), `ncallbacks`, `max_calls`, `disable_timestamps`, prepared statements (whole row, plus one per column), `timestamp_gen`, the Kafka `producer`/`topic`/`topic_name` | constructor, copy constructor/`operator=`, destructor, `write_to_cassandra` (whole row; single attribute), `enable_lazy_write`, `disable_lazy_write`, `flush_dirty_blocks`, `flush_elements`, `wait_writes_completion`, `is_write_completed`, `finish_async_call`, `queue_async_query`, `bind_cassstatement`, `set_timestamp_gen`, `enable_stream`, `send_event` (3 overloads), `create_stream_conf` |
| **AsyncExecutor** (`WriterThread`) | not under `src/` (spec.md 4.2) | queue of (writer, key, value) triples; one per configuration | `queue_async_query`; binds via `Writer::bind_cassstatement`, executes asynchronously, calls `finish_async_call` on completion |
| **TimestampOracle** (`TimestampGenerator`) | not under `src/` (spec.md 4.4) | last timestamp issued, mutex | `next()` |
| **StreamSink** (Kafka producer) | `Writer.cpp` 140-282, 119-130 | producer, topic | configure, publish with copy semantics, flush-on-teardown |
| **RowCodec** (`TupleRowFactory`) | not under `src/` | key and value schemas | `make_tuple`, `encode`, `get_content_sizes`, `bind` |
| **IStorage** façade | `api/IStorage.h` | declarations only | excluded by spec.md |
| **Cassandra** | external | cells with write timestamps | timestamped upsert (last write wins) |

### Interactions

Application threads call the Writer. Several may do so at once (spec.md
section 5). In lazy mode a write goes into `dirty_blocks`, where the last
value per key wins. The whole cache is flushed when it grows past
`max_calls`, on `disable_lazy_write`, on `flush_elements` and in the
destructor. Otherwise a write goes straight to `queue_async_query`. That
function copies the key, stamps it from the timestamp generator, increments
`ncallbacks` and hands the pair to the shared `WriterThread`. The
`WriterThread` calls back into `bind_cassstatement` and runs the statement
asynchronously. The driver's completion callback then calls
`finish_async_call`, which decrements `ncallbacks`. The shared state is
`dirty_blocks`, `ncallbacks` and `lazy_write_enabled`, plus the generator
pointer.

### What is hard

- **Concurrent use of the cache.** `flush_dirty_blocks` iterates the concurrent
  map without a lock and then calls `clear()`. Meanwhile other threads insert
  and replace entries, and a second flush may run too. Each flush deletes the
  copies it queues but leaves them in the map until `clear()`.
- **Multi-step calls.** `disable_lazy_write` flushes first and clears the flag
  afterwards. A single-attribute write disables lazy mode and then reads the
  flag again. `is_write_completed` reads the counter and the cache in two
  separate steps.
- **Completion tracking across async callbacks.** The counter must be
  incremented before the hand-off to the `WriterThread`, and every callback
  (success or failure) must decrement it once. The destructor must not free
  the Writer while a callback can still reach it.
- **Ordering.** Executions complete in any order. Cassandra resolves
  same-key writes by the client timestamp, or, when timestamps are disabled,
  by execution order. `set_timestamp_gen` replaces the generator.
- **Liveness.** The drain loop must eventually see a zero counter and an empty
  cache.
- **Resource ownership.** Copies share the Kafka producer and topic, and the
  destructor's Kafka flush loop retries on timeout without a bound.

### Properties that make each component correct

- Writer:
  - In the backend, the last write to every key and column wins. Coalescing never loses or reorders a write.
  - When lazy mode is off, the cache is empty.
  - A flush never frees a copy twice and never queues a null value.
  - `clear()` never frees a node whose accessor a thread still holds.
  - The destructor frees the Writer only when nothing is in flight and no dirty block is left.
  - The drain returns: every callback, failed ones included, releases its slot.
  - Abstractly, the Writer behaves as a write-back cache (`WriteBackCache`).
- AsyncExecutor: each submission's callback runs exactly once, failures included.
- TimestampOracle: timestamps strictly increase, also when the generator is replaced.
- StreamSink:
  - No handle is used after it is destroyed.
  - Teardown terminates.
  - Abstractly, each producer behaves as the sink of spec.md 4.5 (`StreamSink`): it accepts publishes only while open and below capacity, and it is released only after its queue is flushed.
- RowCodec: the payload `send_event(key, value)` builds is exactly the wire format of spec.md section 6, and it fits its buffer.

## 2. Modules

| Module | Models | Role |
|---|---|---|
| `Writer` | cache, counter, lazy toggling, flush, drain, destructor, cache side of `operator=`, executor callbacks, timestamp generator, Cassandra cells | detailed specification, 1 or 2 application threads |
| `WriteBackCache` | what the Writer promises its user (spec.md 1 and 3) | abstract specification; `Writer` refines it |
| `MCWriter` | model values, symmetry | TLC instantiation of `Writer` |
| `WriterStream` | Kafka members of several Writer objects: constructor, `enable_stream`, `send_event`, copy constructor, `operator=`, destructor; producer queues and a broker that may stall | detailed specification |
| `StreamSink` | what a producer promises (spec.md 4.5): open, bounded publish queue, close to publishes, flush, release | abstract specification; `WriterStream` refines it per handle |
| `RowCodec` | the payload layout of `send_event(key, value)` (lines 238-282), and the reference wire format | pure operators, used by `WriterStream` |
| `MCWriterStream` | model values, the schemas and null sets of the event rows | TLC instantiation of `WriterStream` |

## 3. Module `Writer`

Each variable (VARIABLES) and what it stands for in the code:

| Variable | Code |
|---|---|
| `lazy` | `lazy_write_enabled` |
| `cache` | `dirty_blocks`: key → value row, or `Nil` between `insert()` and `a->second = v` (lines 369-371). A row is either all columns, or one column for a single-attribute write. |
| `freed` | entries whose copies a flush has already deleted (lines 317-318) but that are still in the map |
| `ncallbacks` | `ncallbacks` |
| `inflight`, `nsub` | pairs queued to the `WriterThread` whose callback has not yet run |
| `backend` | Cassandra cells `[val, ts]` |
| `tsLast`, `clock` | the `TimestampGenerator` and the wall clock it reads |
| `pc`, `ret`, `arg`, `snap`, `visited`, `held` | per thread: its position in its call, the call a flush belongs to, its pending arguments, the flush iterator, and the accessor held across an insert and across a threshold flush |
| `latest`, `maxTs`, `faults`, `nwrites` | history and bound variables for the properties |

Actions:

| Action | Code |
|---|---|
| `Write`, `WritePartial` | the two `write_to_cassandra` entry points |
| `PartialWrite` | the inner write of a single-attribute write |
| `WriteToCassandra` | the lazy and non-lazy body: `find()` and, on a hit, the replace and the threshold check. A miss stops at pc `insert`. |
| `InsertNode` | `insert(a, k)`. If `k` is still absent, it publishes a `Nil` node and keeps the accessor (pc `assign`). If another thread inserted `k` since the find, `insert()` fails, the value is dropped and the threshold check follows. |
| `InsertValue` | the value assignment `a->second = v`, then the threshold flush `ThresholdCheck` |
| `EnableLazy` | `enable_lazy_write` |
| `DisableLazy`, `LazyOff` | `disable_lazy_write` |
| `Sync` | `flush_elements` |
| `Destroy` | the destructor |
| `SetTimestampGen` | `set_timestamp_gen` |
| `Assign` | `operator=` onto this Writer: the cache is dropped, `ncallbacks = 0`, a new generator, and the lazy flag is copied |
| `FlushVisit` | one iteration of `flush_dirty_blocks`. A `Nil` value is a fault. |
| `FlushClear` | `clear()` and the return to the caller |
| `WaitCounter`, `WaitEmpty` | the two reads of `is_write_completed` in the drain loop |
| `Complete`, `CompleteFailed` | the executor and the callback. `BindColumns` is `bind_cassstatement`. |
| `Tick`, `Terminated` | the clock and the end of the program |

Constants that switch behaviour on for a run:
- `DisableTimestamps`
- `BackendMayFail`
- `AllowGenSwap`
- `PartialWrites`
- `AssignMode`, where:
  - `"none"` means no `operator=`;
  - `"drained"` means only onto a Writer with no callback in flight and an empty cache;
  - `"any"` means at any time all other threads are idle.

Modelling choices:
- Keys, columns and values are model values.
- A call runs only while the Writer is alive. The destructor and `operator=` are called only when all other threads are idle, because the caller owns the object.
- `ncallbacks` is taken to be atomic. Its declaration is in `Writer.h`, which is not in the repository.
- The `WriterThread` is taken to copy the value row it is given.

Fairness:
- Weak fairness on each thread's steps inside a call it has started, because the OS keeps scheduling a runnable thread.
- Weak fairness on the callback (spec.md 4.2: no cancellation, the completion always runs).
- None on application calls and the clock, because an application may stop calling at any time.

### Refinement

`WriteBackCache` has these variables:
- `view`: the last value written to each cell;
- `store`: what the backend holds;
- `open`.

Its steps:

| Step | Condition | Effect |
|---|---|---|
| Put | the Writer is open | changes `view` as one write call does |
| Persist | the Writer is open | changes one key row of `store` |
| Close | `store = view` | closes the Writer |

`Writer` maps onto it as follows:
- `view <- WrittenView`, the value each cell will end up with (`Outcome`: the cached value, else the newest-stamped of the in-flight values and the backend cell);
- `store <- Stored`;
- `open <- Open`, meaning no thread has returned from the destructor.

`RefinesWriteBackCache == Abstract!Spec` is checked as a PROPERTY under one thread with `MaxCalls = 1`, together with the invariants of the single-thread Writer.

## 4. Module `WriterStream` and `RowCodec`

Each Writer object goes through `unborn → live → flushing → dead`.

Per object, the model tracks:
- `topicName`: whether `topic_name` is set;
- `prod`: the producer and topic handle it points to.

Per handle, it tracks:
- `hstate`: unused, live or destroyed;
- `topicLive`;
- `queue`: messages not yet delivered, capped at `QueueCap`. `rd_kafka_producev` fails with queue-full at the cap.

`faults` records any use of a released handle, and of `topic_name` after it is freed.

Actions:

| Action | Code |
|---|---|
| `Construct` | the constructor |
| `EnableStream` | `enable_stream`. It throws AlreadyStreaming, and `CreateStreamConf` throws without `kafka_names`. |
| `SendEvent`, `SendRow` | `send_event`: the raw overload, and the key/value one with its payload |
| `Copy`, `Assign` | the copy constructor and `operator=`. `AssignStream` is the shared part: the producer and topic are shared, and the target's producer is overwritten. |
| `Destroy` | up to the flush loop, including destroying the topic |
| `FlushDone` | the final successful `rd_kafka_flush`, then `rd_kafka_destroy` |
| `Deliver`, `BrokerStall`, `BrokerRecover` | the broker, spec-modelled |

Fairness:
- Weak on `FlushDone`: the destructor's thread runs.
- Strong on `Deliver`: the broker may stall again and again, and it delivers whenever it answers.
- Weak on `BrokerRecover`, only when `BrokerRecovers`.

`RefinesStreamSink == Sink!Spec` checks `WriterStream` against `StreamSink`, with one sink per producer handle. The mapping `SinkOf(h)` reads the handle's state:
- `"unused"` until `enable_stream` creates it;
- `"open"` while its topic is live;
- `"closing"` after the destructor's `rd_kafka_topic_destroy`;
- `"released"` after `rd_kafka_destroy`.

`pending` is the handle's `queue`. `StreamSink`'s fairness, strong on `Deliver` and weak on `Release`, must follow from `WriterStream`'s.

`RowCodec` has two sides:
- `EventPayload` follows lines 238-274: it sums the content sizes, sizes each bitmap as `ceil(n/32)*4`, mallocs `row_size` junk bytes, writes the key at offset 0 and the value at `key_size + keynullvalues_size`, and records any write past the buffer.
- `WireFormat` is the reference from spec.md section 6. Every byte is tagged with its part, its kind and its column, so a misplaced byte shows.

`MCWriterStream` uses:
- key schemas of 1, 2, 32 and 33 columns, the bitmap word boundary;
- value schemas of 2 and 33 columns;
- a few null sets for each.

## 5. Runs

| Run | Checks | Expect | Shows |
|---|---|---|---|
| `writer_refines_cache` | TypeOK, LastWriteWins, RefinesWriteBackCache | pass | One thread, callbacks in any order, and a threshold flush at the second distinct key. Every key and column ends with its last written value, and the Writer implements `WriteBackCache`. |
| `writer_drain` | DrainCompletes | pass | With failing executions, generator swaps, `operator=` onto a drained Writer and client timestamps disabled, `flush_elements` and the destructor always return, because every callback releases its slot. |
| `race_flush_lost_write` | LastWriteWins | violation | A write inserted behind a running flush's iterator is cleared without being queued. |
| `race_cache_memory` | CacheMemorySafe | violation | A flush iterates onto a node that `insert()` has published but not yet assigned (line 370), and queues a null value. |
| `threshold_clear_held_node` | ClearSparesHeldNodes | violation | With one thread, the lazy write that crosses `max_calls` flushes while it still holds the accessor on its node (lines 379-380). `clear()` frees that node, and the accessor is released afterwards, at the end of the lazy branch (line 381). |
| `race_disable` | LazyOffCacheEmpty | violation | A lazy write between the flush and the flag reset survives with lazy mode off. |
| `race_drain` | DrainCompletes | violation | The drain loop spins forever on a dirty block that another thread left after the drain's own flush. |
| `gen_swap` | TimestampsIncrease | violation | A generator installed by `set_timestamp_gen` (line 302) or by `operator=` (line 88) starts from nothing, so a write after the swap is stamped no higher than one before it. Either swap alone is enough. |
| `assign_pending` | QuiescentOnDestroy | violation | `operator=` resets `ncallbacks` with a callback in flight (line 85), so the destructor returns while that callback can still reach the object. |
| `stream_teardown` | TypeOK, EventPayloadIsWireFormat, TeardownCompletes, RefinesStreamSink | pass | Without copies or assignments, and with a broker that stalls and recovers: every destructor returns, every event payload is the wire format without overflow, and the producers implement `StreamSink`. |
| `stream_copy_double_destroy` | HandlesUsedSafely | violation | A copy shares the producer and topic (lines 96-97), and the second destructor destroys them again. |
| `stream_broker_stall` | TeardownCompletes | violation | A broker that never answers keeps the destructor's flush loop (line 127) retrying forever. |

### Bounds

Writer runs:
- 2 keys, 2 columns and 2 values.
- `MaxCalls = 1`, so a second distinct key triggers the threshold flush. The constructor never sets `max_calls`, so its value comes from `Writer.h`, which is not in the repository.
- `MaxWrites` is 3, or 2 for the liveness runs and for `threshold_clear_held_node`.
- `MaxClock = 1`.
- `DisableTimestamps` is TRUE only in `writer_drain`, because the drain properties do not depend on timestamps. With MaxWrites 3 that run takes about 8 minutes.
- One thread in the passing runs and two in the race runs.

These bounds reach every case the properties are about:
- a replace and an insert;
- a threshold flush;
- a single-attribute write after a whole-row write;
- two same-key writes completing out of order;
- a failed execution;
- an assignment with work pending.

Stream runs:
- 2 objects and 2 handles, so a copy and its source, or two independent streams.
- `QueueCap = 2`, so the queue can be full.
- `MaxEvents = 3`.

Symmetry is used only in safety runs and in the refinement run. There, keys and values are symmetric in both `Writer` and `WriteBackCache`.

### Mutants

Each property of a passing run is broken by a plausible bug in the code it is about:

| Property | Mutant |
|---|---|
| TypeOK (Writer) | the callback decrements twice |
| LastWriteWins | a cached key keeps its old value |
| DrainCompletes | a failed execution skips `finish_async_call` |
| RefinesWriteBackCache | `clear()` runs before the iterator has visited every entry |
| TypeOK (stream) | `send_event` ignores the queue cap |
| TeardownCompletes | the flush loop also needs the destroyed topic |
| EventPayloadIsWireFormat | the bitmap size is rounded down |
| RefinesStreamSink | the destructor destroys the producer without the flush loop |

## 6. Not modelled, and what is left

- **`IStorage` façade**: declarations only, and excluded by spec.md.
- **Constructor**: statement preparation errors (`CHECK_CASS`) only abort construction.
- **`operator=`**: the prepared statements and factories it rebuilds are left out. What a copy's missing partial statement does depends on the `WriterThread`, which is not under `src/`.
- **Data conversions**: `make_tuple`, `bind` and the per-type byte encodings are abstracted to model values and byte tags.
- **`send_event(key, value)`**: its `rowpayload` buffer is never freed (line 256). That is a leak outside every property here.
- **`LastWriteWins` with `DisableTimestamps = TRUE`**: not stated. spec.md section 2 leaves the order of same-key writes to the backend when client timestamps are not used. TLC confirms that the property then fails by design, even in one thread: two non-lazy writes of one key complete out of order (line 440). `writer_drain` runs with timestamps disabled.
- **A failed `insert()`** (line 369): it leaks its key and value copies. The model drops the value, and no property tells that from an overwrite.
- **The generator's lifetime**: the generator is modelled by its last timestamp, so `set_timestamp_gen` deleting it while another thread is inside `next()` (line 302) is not represented.
- **`enable_stream` is one step**: a concurrent `send_event` between the assignment of `topic_name` (line 191) and that of the producer (line 204) would produce on a null producer.
- **Drain correctness (spec.md section 8)**: not stated as a property. With one thread it follows from the guards of the drain loop. With two threads it fails: another thread's write between the two reads of `is_write_completed` makes the drain return with work in flight. Every run slot already shows another finding.
- **The order of `ncallbacks++` and the hand-over** (lines 442-443): `queue_async_query` is one step, so a swap of the two lines cannot be represented.
- **Leak of a producer by `operator=`** (line 92) and **self-assignment** (line 94): no run sets `StreamAssigns`. Each would be one more violation run. In `stream_copy_double_destroy`, the shorter self-assignment trace would replace the copy trace.
- **Single-attribute write re-reading the lazy flag** (line 398): it needs two threads with partial writes. `race_flush_lost_write` has partial writes off so that its trace is the `clear()` race.
- **Two-thread refinement**: under two threads the refinement is expected to fail, for the reasons the race runs show.
- **Logging and tracing events.**
