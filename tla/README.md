# Fluvio: a verification project

TLA+ modules, TLC configurations and TLAPS proofs about
[fluvio](../src/README.md), a distributed streaming engine written in Rust: the
replicated log and its storage, producers and consumers, elections, and the
metadata that goes from the controller to everybody else. Definitions keep the
names of the code where TLA+ allows it; `PROJECT.json` says for each one which
lines it models.

## 1. The system and its parts

A *cluster* is one streaming controller (SC) and several streaming processing
units (SPUs). A topic is a set of partitions; a partition is a log of batches,
stored by one leader SPU and some follower SPUs. Producers and consumers talk
to the leader.

| Part | State it keeps | Operations | Hard because | Correct when |
|---|---|---|---|---|
| **Leader replica** `fluvio-spu/src/replication/leader/replica_state.rs` | log end (leo), high watermark (hw), per follower the offsets last reported | write a record set, take a follower's report, compute hw, build an update for a follower | leader offsets are read before the lock that guards the followers; one task per connection | committed batches are on every replica; hw never moves back |
| **Follower handler** `leader/connection.rs`, `leader/spu.rs` | the set of partitions with pending updates, one per follower | drain the set and send; read reports | after a reconnect two handlers serve one follower and share the set | no update is lost for good |
| **Follower controller** `replication/follower/controller.rs`, `state.rs` | its own log and hw, its connection | connect with backoff, report on connect / by timer / after each change, write an update | duplicated and outdated updates, restarts, write errors | its log is a prefix of the leader's |
| **Storage** `fluvio-spu/src/storage/mod.rs`, `fluvio-storage` | segments, sparse indexes, cached first offset and sizes, `replication.chk` | append, roll over, find and read a slice, save hw lazily, clean, repair | the cleaner and the checkpoint's writer are other tasks; a write may fail or the process die half-way | every offset is found; nothing acknowledged is lost |
| **Offset channel** `fluvio-types/src/event.rs` | an atomic value and an event; per listener the last value | update, listen | store and notify are two steps, look and register are two steps | no wake-up is lost |
| **Produce requests** `services/public/produce_handler.rs` | requests waiting for their records to be committed | write, wait, time out | the timer races the commit | what is acknowledged as committed is replicated |
| **Consumer stream** `services/public/stream_fetch.rs`, `offset_update.rs`; client `fluvio/src/consumer/mod.rs` | last partition offset, last known consumer offset, two listeners | send records from an offset, wait for the offset to come back, end on a signal | two wake-ups in any order, each possibly doubled; SmartModules that drop batches | everything that passes arrives |
| **Elections** `fluvio-sc/src/controllers/{spus,partitions}`, `stores/partition` | health and status of SPUs, spec and status of partitions, queues of actions | take SPU changes, elect, apply; merge a leader's report | four tasks, each with its own and older view; connections that end late | who leads has what is committed; a partition is not left with a dead leader (the latter fails, section 3) |
| **Control plane** `fluvio-sc/src/services/private_api`, `fluvio-spu/src/control_plane`, `core/global_context.rs` | per connection what was sent; on the SPU its copy of specs, which replicas it leads | send specs, promote, demote, switch, report | the controller's and the SPU's idea of a connection end at different times | every SPU ends up with the latest leader |
| **Metadata stores** `fluvio-stream-model`, `fluvio-stream-dispatcher`, client `fluvio/src/sync` | files with revisions, a map with three epochs per object, a fence, the deleted objects, listeners | write, watch, reconcile, list changes since an epoch, apply at the other end | full and delta updates interleave; status updates overtake the watch stream; several writers, and a bounded channel that its reader writes to | a copy that has read all it was sent is current |
| **Client producer** `fluvio/src/producer` | a queue of batches per partition, four counting events, a timer, the last error | send, flush, linger, retry, give up | three reasons to send race; answers come late or not at all | a record's offset is true, in order, and every record resolves |
| **Consumer offsets** `fluvio-spu/src/kv` | a key-value store kept in an internal topic | put, delete, load at start | rebuilt by reading a topic | a stored offset is found again |
| **Topics and scheduler** `fluvio-sc/src/controllers/{topics,scheduler}` | topic metadata | validate, place replicas, delete | | replicas on distinct SPUs |
| **Socket multiplexer** `fluvio-socket/src/multiplexing.rs` | pending requests by correlation id | send, dispatch, time out | a late answer after a timeout | an answer reaches its own request |
| **Mirroring** `fluvio-spu/src/mirroring` | like replication, between clusters | | | |
| SmartModule engine, wire protocol, CLI, connectors, installation | | | | not state machines of their own |

They interact as follows. A producer's batch arrives as a request at the
leader, which writes it to storage under its lock, publishes the new leo, then
puts the partition into the pending set of every follower that is known and
behind. A handler wakes up, drains the set and sends the batches after the
follower's last reported leo, with the leader's hw. The follower writes what
continues its log, takes the hw and reports. The report updates what the leader
knows, possibly moves the hw, and the pending sets again. Publishing a new hw
wakes produce requests that wait for it, the task that writes the checkpoint,
and the consumer streams that read committed records. A leader tells the
controller the offsets it knows; the controller elects by them when the status
of an SPU changes, and its decision travels through the dispatcher, the files,
the store and the connection of each SPU, which promotes or demotes its replica
and signals its consumers.

## 2. The modules

| Module | What it is |
|---|---|
| `HighWatermark`, `HighWatermarkProofs` | `OffsetInfo` and `compute_hw` as operators; what `compute_hw` returns |
| `Replication` | one partition: leader, followers, connections, produce requests, checkpoints, restarts |
| `MCReplication` | instances of it for TLC (a symmetry set) |
| `CommittedLog` | abstract: what a replicated partition promises |
| `ReplicationProofs` | the theorems about `Replication` |
| `OffsetPublisher` | the offset channel, with its theorem |
| `StreamFetch`, `StreamFetchProofs` | one consumer stream: handler task, connection task, client |
| `Storage`, `StorageProofs` | the log of one replica on disk: segments, index, cleaner, crash and reload |
| `Election`, `ElectionProofs` | who leads: health, status, elections, promotion, demotion, reports; extends `HighWatermark` |
| `MetadataSync`, `MetadataSyncProofs` | the objects of one kind, from the files to the copies of SPUs and clients |
| `Producer`, `ProducerProofs` | the client's producer, and the SPU as it sees it |
| `MCProducer` | instances of it for TLC: where records go, and the orders of the maps |

A definition whose name ends in `_slip` is a wrong version of the definition
after it, a plausible mistake in that piece of code. It is used by no
specification; `PROJECT.json` ("mutants") says which property fails when it
takes the place of the right one.

### Replication

`log[r]`, `hw[r]` and `ckpt[r]` are a replica's batches, published high
watermark and `replication.chk`; `short[r]` is its `short_circuit` flag and
`tail[f]` what a failed write left in a follower's file behind the log end it
publishes. An offset counts batches: one element of a log
is one batch, and the code never splits one. `followers`, `pending` are the
leader's map of reported offsets and the `FollowerSpuPendingUpdates` sets.
`pc`, `inbox`, `fpos`, `lpos` describe the handler tasks: a handler is `idle` in
its `select!`, in `update_states_from_followers` before (`apply`) or after
(`notify`) the critical section, or in `follower_updates` between its read of
the leader's offsets and its read of the log (`read`). `conn` and `outbox` are
the follower's side of its connection. `toNotify`, `waiting`, `acked` are
produce requests that have written but not notified, that wait for the commit,
and the largest log end acknowledged to one.

| Action | Code |
|---|---|
| `Produce`, `NotifyAfterWrite` | `write_record_set` of storage, under its lock; then `notify_followers` |
| `ProduceError` | the write fails, and the leader's replica is short-circuited until it is reloaded |
| `Ack`, `AckTimeout` | the two ends of `wait_for_acks` |
| `UpdateStatesBegin/Apply`, `NotifyAfterUpdate` | `update_states_from_followers`, cut where the lock is taken and released |
| `DrainReplicas`, `FollowerUpdates(ReadError)` | `update_from_leaders` and `follower_updates` |
| `Connect`, `Reconcile`, `SyncFromLeader` | `FollowGroupController` |
| `SyncFromLeaderError` | the write of an update fails: any number of its batches are in the file, none is published, and the replica is short-circuited |
| `SyncFromLeaderRefused`, `SyncFromLeaderMissing` | an update for a replica that is short-circuited, or that is not there yet after a restart |
| `Disconnect`, `HandlerEnd` | a broken connection, and the leader's handler finding out, later |
| `LazyWrite` | the checkpoint's writer task |
| `FollowerRestart`, `LeaderRestart` | a process stops and loads its files |

Abstractions, and why they are sound:

* `as_offset` loads hw and then leo. Between the two only leo can grow, or both
  can; the result is compared with reports and used for the hw only, and a
  newer leo only makes a report look older. The model reads both at once.
* The wake-up of a pending set is the set being non-empty: the event is raised
  after the set is filled, under its lock, and `OffsetPublisher` shows that no
  wake-up is lost.
* At most one handler per follower is left over by an earlier connection. Its
  sends are lost; its reports are still read.
* The bound on messages of a connection is tested when the handler decides to
  send, so no task of the model blocks on a full channel.
* A failed write of the leader leaves nothing in its file. (Batches it does leave
  count after a reload like ones that were written and not acknowledged.)
* Requests carry one partition. Partitions share only the connection.
* The set of replicas and the leader do not change; `Election` is about that.
* A checkpoint that nobody will read (`r \notin MayRestart`) is not written.

### OffsetPublisher

`update` is `Store` then `Notify`; `listen` is `Check`, `Register`, `Recheck`
and `Wake`, so that every interleaving of the two atomic operations of one side
with those of the other is there. `Cancel` is `select!` dropping a `listen`.

### StreamFetch

One stream. The handler is `open` (the leader is found, the publisher not yet
registered), in `send` (`send_back_records` from offset `from`), `poll`s its
`select!`, `wait`s, or is `done`. `lastPart`, `lastKnown` are its local
variables. Both publishers appear with store and notify apart (`advancing`,
`acking`, `signal`), and `listen` as `OffsetPublisher` shows it to behave: when
polled first it returns a value that differs from its last one, and when the
task waits a notification makes it return whatever is there. Storage publishes
while it holds its write lock, so a read does not fall between store and notify.
`responses` and `acks` are the two directions of the connection.

What a response contains: `SliceEnd` is the end of the segment (`read_records`
looks at one segment only), `RawEnds` any cut at `max_bytes`, `SmartEnds` the
places where `process_batch` stops. Sizes in bytes are abstracted to the choice
of the cut and to `Big`, the batches that alone exceed the limit. The
SmartModule is given by its verdict on each batch (`Passing`, `Failing`).

### Storage

A segment is its base, its batches with offset, length and byte position, its
index entries, and the bytes since the last entry. `active` is the one being
written, `prev` the list of closed ones, `rolling` one that `roll_over` has
closed and not added yet. `FileReplica` is used under a lock, so one write or
read runs at a time and reading is an operator (`ReadRecords`) that the
properties evaluate in every state in which a reader could hold the lock.
Writes are one action per batch and per half of a roll-over, because the cleaner
shares the list, the cached `minOffset` and the sizes without that lock;
`clean` is its program counter, cut at each of its accesses. A reader gets the
lock whenever no write is in progress (`Readable`), also after a roll-over that
failed and left its old segment outside the list. A removed segment whose file
cannot be deleted is left out: the code goes on as if it were. `WriteFails` and
`RollOverFails` are I/O errors, after which the replica is short-circuited and a
part of a batch may be in the file (`torn`). `Restart` loads what is in the
directory: the segments in the list, those that had just left it (`doomed`) or
not entered it (`rolling`), and the active file, cut before a torn batch.

Sizes are counted coarsely: a batch of n records has n + 1 bytes, an index entry
counts 1. Time is left out of the retention rule: the oldest segments may expire
at any moment. `hw` moves to ends of batches, as its callers do. Positions are
subtracted modulo `Modulus`, as unsigned numbers are; `segment_max_bytes` is of
the same type, hence `SegmentMax < Modulus`.

### Election

`health`, `online`, `leader` and `status` are the controller's `HealthCheck`,
SPU statuses, and the partition's spec and status; `dirty`, `ctl` and `queue`
are what the `PartitionController` has yet to see, is working on, and has sent
to the dispatcher. `conn` and `ghost` are an SPU's connection and one it lost
that the controller still serves. `view[s]` is the leader in the SPU's store of
replicas: `s` leads if it is `s`, so two SPUs may lead at a time.

| Action | Code |
|---|---|
| `Connect`, `Drop`, `EndConnection` | `respond` and `dispatch_loop` of the controller's private service |
| `SyncSpu` | `SpuController::sync_store` |
| `TakeChanges`, `SpuOff`, `SpuOn`, `SendActions` | `sync_spu_changes`, `force_election_spu_off` and `_on` |
| `ApplyAction` | the dispatcher of partitions: refused, and only logged, while the files have a revision that the store does not; a status reaches the store at once |
| `WatchSpec` | a new leader reaches the store through the watch stream |
| `SendSpec`, `ReceiveSpec` | `send_replica_spec_changes`; `apply_replica_actions` with promotion and demotion |
| `SendReport` | the SPU's status sink, `receive_lrs_update` and `merge` |
| `Produce`, `ReportOffset`, `CopyBatch` | replication in three steps; `Replication` has it in detail |

How specs travel is `MetadataSync`'s subject: here an SPU is sent the latest
leader that it was not sent over its present connection.

### MetadataSync

`data` are the files of `LocalMetadataStorage`, `queue` its update channel.
The dispatcher of the kind ("own") writes, and so do those of related kinds
("related"): the owner's deletes its children, a child's links and unlinks
itself (`OwnerDeletes`, `ChildLinks`). `sending[w]` is what a writer wrote and
has not queued; `send_update` numbers it (`Number`) and waits for room in the
channel (`Queue`), which has `Capacity` places and no reader but the kind's own
dispatcher. Deletion is modelled for an `unlink_parent` that succeeds; one that
fails returns before the object is touched.
`store`, `epoch`, `fence` and `deleted` are the `DualEpochMap`, `change` the
epoch published to listeners, `last` the listener's. The subscriber is an SPU,
which is sent changes of specs, or a client, which is sent all. An object is its
revision and the stamps of the writes that set its spec and status; creation and
update come from `Apply`, `UpdateSpec`, `UpdateStatus` and `Delete`, one per
`WSAction`. The watch stream's filter by version, the refusal of stale values,
the rule that an older object changes nothing, the epoch that is taken back
when nothing changed, and the publication after the lock is released are all as
in the code. `born` and `crossed` are history variables for what the properties
except.

### Producer

`queue[p]` holds the batches of a partition, `events[p]` the four counting
events, `timer[p]` the linger timer with the number of batches it covers, and
`task[p]` the `PartitionProducer`. A user is quiet, inside `push_record` (which
keeps the pool's lock), or in `flush_all_batches`. `future[r]` is what the
sender of record `r` gets. The SPU handles requests in order, may refuse
batches, and a request or its answer may be lost; a retry sends the same batches
again. SmartModules of the producer drop the records of `Filtered` before the
batch is written (`Kept`): a batch left empty is answered with base offset 0 and
no error, in one left in part the records move up. `thinned[p]` remembers the
records of such batches. Sizes are 1, or 2 for `Big` records; `TooLarge` ones
are refused. Age is an order: a batch becomes old after the ones before it, and
the timer fires when those it covers are old. `Route` says which partitions a
partitioner may choose for a record; `Orders`, in which orders the two hash maps
of `flush_all_batches` may be walked.

## 3. What the runs show

| Run | Instance | Properties |
|---|---|---|
| `safety` | 1 follower, 2 different batches, a leader restart and one broken connection, missing replica or I/O error | `FollowerLogIsPrefix`, `FollowerBehindLeader`, `FollowersNotOverestimated`, `AckedIsReplicated`, `CommittedIsReplicated`, `HwMonotonic`, and the refinement `ImplementsCommittedLog` |
| `convergence` | 1 follower that may restart, 1 batch, two faults, fair | `FollowerLogIsPrefix` with failed writes and a reload after them; `Convergence`: unless the follower is short-circuited every batch gets to it and is committed |
| `wakeup` | 2 listeners, 3 updates, fair | `NoLostWakeup`, `CatchesUp` |
| `stream` | with and without a SmartModule that drops and fails on batches, responses cut, a signal; 137k states | `NothingSkipped`, `EverythingDelivered`, `SignalEndsStream` |
| `sync` | 2 objects, one of them never deleted, 3 writes, a channel of 2, a reconciliation, a reconnect, both kinds of subscriber, fair; 2 min | `CopyCurrent`, `StoreMovesForward`, `Converges` |
| `log` | batches of 1, 2 and 6 records, segments of 6 bytes, a limit of 8, a crash and a failed write; 2 min | `ReadFindsOffset`, `CommittedReadStops`, `EvictedGoesOn`, `AckedStays`, `SizeEnforced` |
| `leader` | 3 SPUs, one batch, one lost connection, fair | `LeaderHasCommitted`, `LeaderKnown` |
| `acks` | 2 partitions with crossed maps, a user, 4 records (one filtered, one too large), batches and queue of 2, a flush, a fault, fair; 1.5M states, 3 to 4 min | `OffsetIsTrue`, `OffsetsInOrder`, `FlushReports`, `EveryRecordResolves` |

Runs that end in a counterexample, each a disagreement between the code and
what its comments or tests say ("findings" in `PROJECT.json`):

| Run | What happens |
|---|---|
| `restarted` | A leader that restarts from an older checkpoint finds its follower ahead of it ("follower must be always behind leader"). It drops every report, never learns the follower's offsets and never commits again. |
| `skipped` | A SmartModule drops a whole segment; the handler goes on from the end of the partition, past the segments in between. |
| `diverged` | A leader that was demoted keeps a batch that was not replicated. The new leader writes another one at the same offset, the two logs have the same length, and the high watermark moves over it. |
| `async` | With at-most-once delivery the error code of a response is dropped: the record of a refused batch is reported as stored at offset 0. |

Bounds. In `Replication` two batches are the least with which an update can
overlap, or miss, another one; two different ones (`Record = {a, b}`) let a
misplaced batch be seen. One message per direction and one leftover handler
already mix reports of two connections, and two handlers that compute from
outdated offsets. Several followers are the theorems' part: they hold for any
set. Streams need an end of at least 3: read, return, and one more to send; the
passing run is on one segment, since on two a SmartModule skips (run `skipped`). In
`Storage` batches of 1, 2 and 6 records give segments with one and with several
batches and with and without index entries, a batch larger than a segment is
refused, and a limit of 8 makes the cleaner remove segments while others are
rolled. In `MetadataSync` three writes are a creation, a change and a deletion,
and one reconciliation or reconnect can come between any two. In `Producer`
four records fill one batch, start another and find the queue full; all of them
go to one of two partitions, the one whose error flush looks at too early, since
the two are independent but for flush.
Deadlock checking is off where producers, writers or faults stop at a bound and
the system may then rest; that it does not rest too early is what the liveness
properties say. In `Storage` the cleaner never rests, and it is on.

What the properties except, and why. These are things the code does; each is in
the model, in a run, and named by the property or by a hazard.

* `Convergence`: a write that fails short-circuits a replica until it is loaded
  again, and nothing loads it but a restart of the process. A follower in that
  state keeps its connection, drops every update, and holds the high watermark
  where it is.
* `ReadFindsOffset`, `CommittedReadStops`: `roll_over` puts the new active
  segment in place before it opens the old one for reading; if that fails the
  old segment is in no list, and its offsets are answered as evicted until the
  replica is loaded again (`Lost`). `EvictedGoesOn` says nothing of readers of
  such a segment: they may be sent to where they cannot get past it.
* `CommittedReadStops`: `read_records` does not compare the start of a committed
  read with the high watermark. From a start above it the read fails unless the
  watermark is in the same segment; if it is, the subtraction of positions may
  wrap, and the slice may hold records that are not committed.
* `Converges`: a dispatcher that writes while the channel of its kind is full
  waits for itself (`Stuck`). With a capacity of 100 it takes as many updates
  between two reads; with the 2 of the run it is met often. Also objects that
  were created twice, and those whose last updates two tasks queued in the wrong
  order (`crossed`).
* `CopyCurrent`: an object deleted and created again, and, by `Permanent`, a list
  that becomes empty.
* `OffsetIsTrue`, `OffsetsInOrder`: a batch that a SmartModule changed
  (`thinned`). Its futures hold false offsets, with at-least-once delivery too.
* `FlushReports`: `flush_all_batches` walks `flush_events` and `errors` side by
  side, two hash maps with an order of their own. If the error of a partition
  comes before its flush (`LookedAtBefore`), a loss in that flush is told to
  nobody; the run has such an order, and without the exception it fails. Also
  everything after a cancelled flush, whose notification a later one takes.
* `SignalEndsStream`: a signal that the consumer's next offset overwrites.
* `SizeEnforced` is about the size the cleaner has counted, which `store_prev`
  or a reload can make smaller than that of the files.

One property of elections is not stated because it does not hold: that a
partition is not left with a leader that is offline while a replica that could
lead is online. With two lost connections, or SPUs that come up one after the
other, an election reads a status that says Online because a late report of the
former leader was merged into it, or its decision is refused because the store
is behind the files; nobody is elected, and nothing but the next change of an
SPU makes the controller look again. No document promises it. With one lost
connection it cannot be seen, so a passing run would say nothing.

Fairness. `Replication!Fairness` lets every task run, messages on an open
connection be read, followers reconnect and their one-minute timer fire. Where a
loop chooses between two sources it is strong fairness: `tokio::select!` polls
its branches in random order, so a branch that is ready again and again is taken.
Nothing is assumed of producers, checkpoint writes, faults or acknowledgements.
In `StreamFetch` the handler, the two publishers and the connection's task are
weakly fair, and the consumer keeps polling. In `OffsetPublisher` a started
`update` ends and a listener that can go on does. In `Storage` the cleaner's
timer fires and a write that was begun goes on. In `Election` the controller's
tasks and those of the SPUs run when they have something to do; nothing makes an
SPU connect. In `MetadataSync` the dispatcher reads its watch stream (its
actions are bounded, so weak fairness of its own steps is enough), a writer
queues what it wrote, and a subscriber reads. In `Producer` the partitions' tasks,
the ageing of batches and the SPU together go on as long as one of them can
(`Progress`): all of these are bounded by what was sent, so none is put off for
ever. Retries are not fair, `send_receive_with_retry` gives up after a number of
them; that a connection is made in the end is assumed.

## 4. What is proved

With TLAPS, for every value of the constants. Assumptions: `ReplicaAssumption`
(a finite set of followers without the leader, natural bounds),
`ElectionAssumption` (a finite set of SPUs numbered by naturals, a first leader
among them), `MetadataAssumption` (permanent objects are objects, natural
bounds), for `OffsetPublisher` a natural bound on values, `StreamAssumption`
(batches, their ends and segments are natural numbers), `StorageAssumption` (batches
have records, `SegmentMax < Modulus`) and `ProducerAssumption` (finite sets of
partitions and tasks, batches and queues that hold something).

| Theorem | Says |
|---|---|
| `ReplicationProofs!TypeCorrect` | `Spec => []TypeOK` |
| `ReplicationProofs!PrefixTheorem` | a follower's log is a prefix of the leader's |
| `ReplicationProofs!CommittedTheorem` | what is below any hw, in memory or on disk, is on every replica |
| `ReplicationProofs!AckedTheorem` | what was acknowledged as committed is on every replica |
| `ReplicationProofs!MonotonicTheorem` | the leader's hw does not move back between restarts |
| `ReplicationProofs!NotOverestimatedTheorem` | the leader never overestimates a follower |
| `ReplicationProofs!BehindTheorem` | before a restart no report the leader reads is ahead of it |
| `ReplicationProofs!RefinementTheorem` | `Replication!Spec` implements `CommittedLog!Spec` |
| `HighWatermarkProofs!LeastOfAll` | `compute_hw` of all followers is nothing, or the least log end and past the hw |
| `OffsetPublisher!NoLostWakeupTheorem` | no wake-up is lost |
| `ElectionProofs!ElectionInvariant`, `LeaderTheorem` | whoever leads has a batch for all that any replica counts as committed |
| `MetadataSyncProofs!SyncTypes` | `Spec => []TypeOK` |
| `MetadataSyncProofs!ForwardTheorem` | the store never goes back to an earlier revision |
| `MetadataSyncProofs!CopyTheorem` | if some object is permanent, a subscriber that has read everything holds what the store holds |
| `StreamFetchProofs!StreamInvariant`, `NothingSkippedTheorem` | a stream skips nothing that passes: raw ones always, ones with a SmartModule in the last segment and without batches over the limit |
| `StorageProofs!StorageInvariant` | batches, index, segments, cleaner, writer and high watermark agree in every state |
| `StorageProofs!AckedStaysTheorem` | the log never ends before a write that was acknowledged, and has no hole |
| `StorageProofs!ReadTheorem` | an offset from the first listed one to the log's end is found, with the rest of its segment, unless it is in the segment of a failed roll-over: all of that is answered as evicted |
| `StorageProofs!CommittedReadTheorem` | a committed read from below the hw gets all of its segment up to the hw and nothing more, from the hw nothing, and from above it an error unless the hw is in the segment it reads |
| `StorageProofs!EvictedTheorem` | a reader whose offset is gone is sent forward, to records or the end |
| `ProducerProofs!OffsetInvariant` | with at-least-once delivery, queue, task, requests and responses agree in every state, but for batches a SmartModule changed |
| `ProducerProofs!OffsetIsTrueTheorem` | the offset a sender gets is where its record is, unless a SmartModule changed its batch |
| `ProducerProofs!OffsetsInOrderTheorem` | acknowledged records of a partition have offsets in the order sent, with the same exception |
| `ProducerProofs!FlushReportsTheorem` | a flush that returns Ok left no record of before without an answer, and hid a loss only if it looked at the partition's error before it flushed the partition: any orders of the maps, overlapping calls |

*Replication.* Logs only grow (`LogGrows`), and every number stored, sent or
remembered anywhere was a length of some log when it was made. So it is enough
to say of each variable what it was true of: a report of f is at most f's log
(`KnowledgeInv`), what a failed write left in a follower's file continues its log
as the leader's does (`TailInv`: a reload may count it), a hw, a checkpoint, an acknowledgement and a hw in a message
are at most every log (`CommitInv`), and the batches of a message are those of
the leader's log at their place (`UpdateInv`). Together with the prefix property
this is `SafetyInv`, which is inductive. `CommittedIsReplicated` alone is not: a
new hw comes from reports. That `compute_hw` returns a number no follower is below
when all replicas are in sync is a lemma about `IsKthLargest` and cardinalities.

Monotonicity needs more, since a handler computes from a hw it read before it
had the lock. `HwInv` says that such a handler either read the present hw, or
all followers are already known to have reached the present one; then what
`compute_hw` returns is not below it. `IndInv` is the conjunction. That no
report is ahead needs in addition that every hw a follower has, or is being
sent, is one the leader has reached (`BehindInv`), which is what a restart breaks.

The refinement maps `records` to the leader's log, `replicated` to the offsets
within all logs and `visible` to the leader's hw. Each action is shown to append,
replicate, move, acknowledge or stutter. `CommittedLog` lets `visible` move back,
since a restarted leader does; it never lets it, or an acknowledgement, pass
beyond what is replicated.

*Election.* The choice of a leader enters the proof nowhere: the invariant is
that what a leader was told of a follower, both have (`KnownInv`), and that what
anybody counts as committed is on all replicas (`CommittedInv`). A new leader
knows nothing of its followers, so `LeastOfAll` gives it no new hw until it has
heard of all of them, and a report that is ahead of it is dropped. Logs never
shrink, which is also why the contents may differ (run `diverged`).

*MetadataSync.* `CopyCurrent` is about a moment at which nothing is on its way;
the invariant has to say at every moment what is. `FollowInv`: for each object,
the listener is behind the fence (it will be sent the whole list), or the next
changes will name the object, or what the store has of it is what arrives: the
last message that touches it says so, or none does and the copy has it. A step
of the store raises the object's epochs above `last` or leaves it as it was;
`SyncAll` raises the fence; `SendChanges` turns "will be named" into "arrives",
because a message is made from the store under its lock; `Receive` takes the
head of the channel. `EpochInv` keeps epochs, fence and listener in order.
`FenceInv` and `PermanentInv` are there for one corner of the code: an empty list
is not sent, so a listener behind the fence is only served if the store is not
empty. `ForwardTheorem` follows from `Diff`, which takes nothing from an older
object, with the types.

*StreamFetch.* `NothingSkipped` is about what the client has; `StreamInv` says
where every batch below the handler's position is: received, in a response on
its way, or dropped by the SmartModule. It holds of any stream. The theorem has a
condition, `Covered`, and both halves of it are needed: TLC finds the property
violated with a SmartModule before the last segment (run `skipped`) and with a
passing batch that alone exceeds the limit, which `process_batch` steps over.

*Storage.* A reader goes from the list of segments to a segment, from its sparse
index to a position, and from there along the headers. `StorageInv` says that
each of the three is right about the next. Of one segment (`Sound`): its batches
follow each other in offsets and in bytes, leave no offset out, fit into
`SegmentMax`, and every index entry is about one of them, so `lookup_entry`
never leads past the batch of an offset (`FoundBatch`). Of the segments
(`LogOf`): they are apart, end before the active one, and from any of them on no
offset is left out. The latter is stated of all files (`Old`: listed, removed
and not deleted, closed and not listed), because a restart loads the files; that
the listed ones alone are such a log when a reader has the lock, but for the
segment of a failed roll-over at its end, is `ListedSegment`,
and it rests on the cleaner removing from the front (`CleanerInv`). The range of
bases in which `find_segment` looks contains the right one and no later one that
starts at or below the offset (`SegmentFound`). `WriterInv` ties a torn batch to
the short circuit: nothing is written after one, so what a reload cuts off was
never acknowledged. Committed reads need that the high watermark lies between
batches (`Boundary`), also the one in the checkpoint file: then the batch at
which the slice ends begins exactly there, after the first, and below the high
watermark the unsigned subtraction does not wrap (`CutSlice`). The cached first offset is, except
between the cleaner's two steps, that of the list or absent, which gives
`EvictedTheorem`. Least and greatest elements come from well-foundedness
(`MinIsLeast`), so no induction is needed.

*Producer.* Offsets are given out by the SPU, which does not know in which order
records were sent, and a batch may be stored several times. `OffsetInv` says why
the answers are true and in order nevertheless. A task holds at most one
request's batches, and they, then its queue, come after everything that is
acknowledged (`LineInv`). Attempts have numbers, a request with the number of
the task's last attempt carries the batches it holds, and a response with that
number is about their last copy, which lies behind all acknowledged records in
the log (`WireInv`, `ReplyInv`). A response with another number is never taken;
this is where a late answer would do harm. Every part of the invariant is about
the records that no SmartModule spoilt: `thinned` only grows, so what was said of
the others stays true, and a response that lies does so about batches whose
records are all in `thinned`. The offsets in a response are lengths
of concatenations, `FlattenSeq`, which is defined by a recursive function; what
it holds at each place (`Flattened`) is proved by taking the least number at
which a set of naturals fails (`Induct`, from the well-foundedness of `<`),
since induction theorems with an operator as parameter are out of reach. The
theorems assume at-least-once delivery; run `async` shows that `OffsetIsTrue` is
false without it.

That flush reports losses is an argument about counting. Per partition, the
notifications not yet taken by the task, the flush it works on and the answers
not yet taken by a caller are as many as the callers that wait (`TokenInv`), so an
answer that is there belongs to a flush that began after the last record was
pushed, as pushing excludes flushing (`UserInv`), and then queue and task are
empty (`Clean`). A caller that goes on to the next partition keeps that
(`DoneInv`), and whenever it looks at the error of a partition that it has
flushed and goes on, every loss there was forgiven (`Looked`). When it is
through, all partitions were visited and all errors looked at, because both
orders are bijections (`OrderType`); an error that was not looked at after the
flush was looked at before it, which is `LookedAtBefore`. A cancelled flush breaks
the count, hence the condition in `FlushReports`.

## 5. What is only model-checked

Liveness (`Convergence`, `CatchesUp`, `EverythingDelivered`, `SignalEndsStream`,
`Converges`, `LeaderKnown`, `SizeEnforced`, `EveryRecordResolves`) is outside of what the prover can do. So are the sizes
the cleaner goes by, which are sums (`SizeEnforced` is liveness as well). Every
invariant that a passing run checks is also stated by a theorem. The
findings are TLC's: a theorem cannot show that a state is reached.

## 6. What is not modelled

The repository has some 119,000 lines of Rust in 816 files. Most of them are not
state machines: command line, connectors, the development kit for SmartModules,
installers, the Kubernetes client, encoders and decoders of the protocol and
their versions, configuration types. The modules cover the parts in which tasks
share state and messages cross; that is a small share of the lines, and
modelling conversions to raise it would say nothing.

Of the parts that do keep state: topic life cycle and the scheduler (sequential
computations over a snapshot), stored consumer offsets, mirroring, the socket
multiplexer, the Kubernetes backend of the metadata stores. Of the modelled
parts: several partitions per connection, removal of replicas and partitions,
compression, authorization, metrics, the contents of records, lookback and the
client's reconnecting stream, the two instances of `FileReplica` on one
directory that a demotion in the middle of a produce request makes possible,
clocks that go back. Cuts at `max_bytes` are in `StreamFetch` and not in
`Storage`; a first batch larger than the limit is excluded from the `stream` run.
The SmartModule engine runs WebAssembly and enters as a verdict on each batch or,
for producers, on each record; one that turns a record into several, or into
another, is not modelled on the producing side. Limits and permissions
of produce requests appear as refusals.

Hazards without a property, with the reason, are in `PROJECT.json`.

## 7. Plan

Done: replication and its refinement, the offset channel, consumer streams,
storage, elections, metadata, the producer, in the order of the first plan.
What would add most next:

1. *Mirroring*: a remote cluster's log copied to a home cluster, against
   `CommittedLog`.
2. *Election over Replication*: the composition with the detailed protocol in
   place of `ReportOffset` and `CopyBatch`, with a changing leader.
3. *Socket multiplexer*: correlation ids, timeouts against late answers.
4. *Consumer offsets* in their key-value store, and the topic life cycle.
5. *Proofs*: what of these modules is safety; the present ones have theorems for
   every invariant they check.
