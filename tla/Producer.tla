------------------------------ MODULE Producer ------------------------------
(***************************************************************************)
(* The client's producer (crates/fluvio/src/producer).  TopicProducer::send*)
(* puts a record into the last batch of its partition's queue, or into a   *)
(* new one; one task per partition takes batches out, when one is full,    *)
(* when the linger time of one is over, or when flush is called, sends     *)
(* them to the partition's leader and hands the answers to the futures     *)
(* that the senders hold.                                                  *)
(*                                                                         *)
(* Records are numbered in the order they are sent.  Sizes are counted so  *)
(* that a record takes 1, or 2 if it is Big.  Time is the ageing of the    *)
(* batches: a batch is old once its linger time is over.                   *)
(***************************************************************************)
EXTENDS Integers, Sequences, FiniteSets, SequencesExt

CONSTANTS
    Partition,  \* the partitions of the topic
    User,       \* the tasks of the client that share the producer
    Route,      \* Route[r]: the partitions that the partitioner may choose for r
    Orders,     \* the orders that the maps flush_events and errors may have
    Semantic,   \* DeliverySemantic: "AtLeastOnce" or "AtMostOnce"
    BatchSize,  \* batch_size
    QueueSize,  \* batch_queue_size
    Big,        \* the records of size 2
    TooLarge,   \* the records that exceed max_request_size
    MayRefuse,  \* the SPU may answer with an error code
    Filtered,   \* the records that the producer's SmartModules drop
    MaxRecords, \* bound: records sent
    MaxFlushes, \* bound: calls of flush
    MaxFaults   \* bound: requests without an answer

ASSUME ProducerAssumption ==
    /\ Partition # {} /\ IsFiniteSet(Partition) /\ IsFiniteSet(User)
    /\ Semantic \in {"AtLeastOnce", "AtMostOnce"}
    /\ Route \in [1 .. MaxRecords -> SUBSET Partition]
    /\ Orders \subseteq SetToSeqs(Partition) \X SetToSeqs(Partition)
    /\ BatchSize \in Nat \ {0} /\ QueueSize \in Nat \ {0}
    /\ MayRefuse \in BOOLEAN
    /\ MaxRecords \in Nat /\ MaxFlushes \in Nat /\ MaxFaults \in Nat

VARIABLES
    queue,      \* queue[p]: BatchesDeque
    events,     \* events[p]: the counts of the four EventHandlers of p
    timer,      \* timer[p]: Off, or how many batches of the queue it is set for
    task,       \* task[p]: the PartitionProducer
    error,      \* error[p]: last_error
    ended,      \* the producer was dropped (end_event)
    order,      \* the orders in which flush_events and errors are gone through
    user,       \* user[u]: what u is doing
    next,       \* the next record
    place,      \* place[r]: the partition of r
    future,     \* future[r]: what FutureRecordMetadata::wait returns
    told,       \* records sent before a flush that returned Ok
    forgiven,   \* records that were lost when clear_errors was called
    cancelled,  \* a call of flush was cancelled
    wire,       \* wire[p]: requests that the SPU has yet to handle
    reply,      \* reply[p]: the response the task waits for
    log,        \* log[p]: the partition
    thinned,    \* thinned[p]: records of the batches that a SmartModule changed
    ids,        \* ids[p]: the last correlation id of p
    flushes, faults

client == <<user, next, place, told, forgiven, cancelled, ended, order, flushes>>
spu == <<wire, reply, log, thinned>>
vars == <<client, queue, events, timer, task, error, future, spu, ids, faults>>

Record == 1 .. MaxRecords

\* What a future may hold besides an offset.
None == -1      \* the record was not accepted
Pending == -2   \* the batch is buffered, or not answered
Refused == -3   \* the SPU answered with an error
Lost == -4      \* the batch was dropped without an answer

Off == -1

Size(r) == IF r \in Big THEN 2 ELSE 1

BatchLen(b) == FoldFunctionOnSet(+, 0, [i \in DOMAIN b.recs |-> Size(b.recs[i])], DOMAIN b.recs)

RecordsOf(batches) == UNION {Range(batches[i].recs) : i \in DOMAIN batches}

Waiting == [pc |-> "select", cause |-> "none", ready |-> <<>>, id |-> 0]

NoReply == [id |-> 0, offsets |-> <<>>]

Quiet == [pc |-> "idle", rec |-> 0, part |-> 0]

Init ==
    /\ queue = [p \in Partition |-> <<>>]
    /\ events = [p \in Partition |-> [full |-> 0, new |-> 0, flush |-> 0, flushed |-> 0]]
    /\ timer = [p \in Partition |-> Off] /\ task = [p \in Partition |-> Waiting]
    /\ error = [p \in Partition |-> FALSE] /\ ended = FALSE
    /\ order \in Orders
    /\ user = [u \in User |-> Quiet] /\ next = 1
    /\ place = [r \in Record |-> CHOOSE p \in Partition : TRUE]
    /\ future = [r \in Record |-> None]
    /\ told = {} /\ forgiven = {} /\ cancelled = FALSE
    /\ wire = [p \in Partition |-> <<>>] /\ reply = [p \in Partition |-> NoReply]
    /\ log = [p \in Partition |-> <<>>] /\ thinned = [p \in Partition |-> {}]
    /\ ids = [p \in Partition |-> 0] /\ flushes = 0 /\ faults = 0

-----------------------------------------------------------------------------
(* Sending a record. *)

Notify(p, kinds) == [events EXCEPT ![p] =
    [k \in DOMAIN @ |-> IF k \in kinds THEN @[k] + 1 ELSE @[k]]]

\* InnerTopicProducer::push_record takes the lock of the pool for writing and
\* keeps it; the partitioner chooses the partition.
PushBegin(u, p) ==
    /\ user[u] = Quiet /\ ~ended /\ next \in Record /\ p \in Route[next]
    /\ \A v \in User : user[v].pc = "idle"
    /\ next' = next + 1
    /\ IF error[p] THEN UNCHANGED <<user, place>>
       ELSE /\ user' = [user EXCEPT ![u] = [pc |-> "push", rec |-> next, part |-> p]]
            /\ place' = [place EXCEPT ![next] = p]
    /\ UNCHANGED <<queue, events, timer, task, error, ended, order, future, told, forgiven, cancelled,
                   spu, ids, flushes, faults>>

\* MemoryBatch::push_record: the batch with r, or without it but full.
IsFull(b) == b.full \/ BatchLen(b) >= BatchSize

Fits(b, r) == b.recs = <<>> \/ BatchLen(b) + Size(r) <= BatchSize

\* (slip: the record is put in front of the others)
With_slip(b, r) ==
    [b EXCEPT !.recs = <<r>> \o @, !.full = @ \/ BatchLen(b) + Size(r) > BatchSize]

With(b, r) ==
    [b EXCEPT !.recs = Append(@, r), !.full = @ \/ BatchLen(b) + Size(r) > BatchSize]

NewBatch(r) == With([recs |-> <<>>, full |-> FALSE, old |-> FALSE], r)

\* create_and_new_batch, push_back.
Enqueue(q, b) == Append(q, b)

FullIf(b) == IF IsFull(b) THEN {"full"} ELSE {}

\* RecordAccumulator::push_record, once there is room in the queue.
PushRecord(u) ==
    LET p == user[u].part
        r == user[u].rec
        q == queue[p]
        back == q[Len(q)]
        closed == [q EXCEPT ![Len(q)].full = TRUE]
    IN  /\ user[u].pc = "push" /\ Len(q) < QueueSize
        /\ user' = [user EXCEPT ![u] = Quiet]
        /\ \/ /\ r \in TooLarge
              /\ queue' = IF q = <<>> THEN queue ELSE [queue EXCEPT ![p] = closed]
              /\ UNCHANGED <<events, future>>
           \/ /\ r \notin TooLarge /\ future' = [future EXCEPT ![r] = Pending]
              /\ \/ /\ q = <<>> /\ queue' = [queue EXCEPT ![p] = Enqueue(q, NewBatch(r))]
                    /\ events' = Notify(p, {"new"} \cup FullIf(NewBatch(r)))
                 \/ /\ q # <<>> /\ Fits(back, r)
                    /\ queue' = [queue EXCEPT ![p] = [q EXCEPT ![Len(q)] = With(back, r)]]
                    /\ events' = Notify(p, FullIf(With(back, r)))
                 \/ /\ q # <<>> /\ ~Fits(back, r)
                    /\ queue' = [queue EXCEPT ![p] = Enqueue(closed, NewBatch(r))]
                    /\ events' = [Notify(p, {"new", "full"}) EXCEPT
                                     ![p].full = @ + Cardinality(FullIf(NewBatch(r)))]
        /\ UNCHANGED <<timer, task, error, ended, order, next, place, told, forgiven, cancelled, spu,
                       ids, flushes, faults>>

-----------------------------------------------------------------------------
(* Flushing. *)

\* flush_all_batches, under the lock of the pool for reading: the i-th
\* partition is notified, waited for, and the i-th error is looked at.
FlushBegin(u) ==
    /\ user[u] = Quiet /\ ~ended /\ flushes < MaxFlushes /\ flushes' = flushes + 1
    /\ \A v \in User : user[v].pc # "push"
    /\ user' = [user EXCEPT ![u] = [pc |-> "flush", rec |-> 0, part |-> 1]]
    /\ UNCHANGED <<queue, events, timer, task, error, ended, order, next, place, future, told, forgiven,
                   cancelled, spu, ids, faults>>

FlushNotify(u) ==
    /\ user[u].pc = "flush" /\ user' = [user EXCEPT ![u].pc = "flushing"]
    /\ events' = Notify(order[1][user[u].part], {"flush"})
    /\ UNCHANGED <<queue, timer, task, error, ended, order, next, place, future, told, forgiven,
                   cancelled, spu, ids, flushes, faults>>

FlushNext(u) ==
    LET i == user[u].part
        failed == error[order[2][i]]
    IN  /\ user[u].pc = "flushing" /\ events[order[1][i]].flushed > 0
        /\ events' = [events EXCEPT ![order[1][i]].flushed = @ - 1]
        /\ user' = [user EXCEPT ![u] = IF failed \/ i = Cardinality(Partition) THEN Quiet
                                       ELSE [pc |-> "flush", rec |-> 0, part |-> i + 1]]
        /\ told' = IF ~failed /\ i = Cardinality(Partition)
                   THEN {r \in Record : future[r] # None} ELSE told
        /\ UNCHANGED <<queue, timer, task, error, ended, order, next, place, future, forgiven,
                       cancelled, spu, ids, flushes, faults>>

\* The caller drops the future of flush.
FlushCancel(u) ==
    /\ user[u].pc = "flushing" /\ ~cancelled /\ cancelled' = TRUE
    /\ user' = [user EXCEPT ![u] = Quiet]
    /\ UNCHANGED <<queue, events, timer, task, error, ended, order, next, place, future, told, forgiven,
                   spu, ids, flushes, faults>>

ClearErrors(u) ==
    /\ user[u] = Quiet /\ \E p \in Partition : error[p]
    /\ \A v \in User : user[v].pc # "push"
    /\ error' = [p \in Partition |-> FALSE]
    /\ forgiven' = {r \in Record : future[r] = Lost}
    /\ UNCHANGED <<queue, events, timer, task, ended, order, user, next, place, future, told, cancelled,
                   spu, ids, flushes, faults>>

\* The last clone of the producer is dropped (after the last record).
DropProducer ==
    /\ ~ended /\ ended' = TRUE /\ next = MaxRecords + 1 /\ \A u \in User : user[u] = Quiet
    /\ UNCHANGED <<queue, events, timer, task, error, order, user, next, place, future, told, forgiven,
                   cancelled, spu, ids, flushes, faults>>

-----------------------------------------------------------------------------
(* The PartitionProducer: its select!, and flush. *)

Become(p, pc, cause) == [task EXCEPT ![p].pc = pc, ![p].cause = cause]

OnEnd(p) ==
    /\ task[p].pc = "select" /\ ended
    /\ task' = Become(p, "ended", "none") /\ queue' = [queue EXCEPT ![p] = <<>>]
    /\ future' = [r \in Record |-> IF r \in RecordsOf(queue[p]) THEN Lost ELSE future[r]]
    /\ UNCHANGED <<client, events, timer, error, spu, ids, faults>>

\* A forced flush, or one because a batch is full.
OnEvent(p, k) ==
    /\ task[p].pc = "select" /\ events[p][k] > 0
    /\ events' = [events EXCEPT ![p][k] = @ - 1]
    /\ task' = Become(p, "connect", k)
    /\ UNCHANGED <<client, queue, timer, error, future, spu, ids, faults>>

\* (slip: a timer that is running is left alone)
OnNewBatch_slip(p) ==
    /\ task[p].pc = "select" /\ events[p].new > 0
    /\ events' = [events EXCEPT ![p].new = @ - 1]
    /\ timer' = [timer EXCEPT ![p] = IF @ = Off THEN Len(queue[p]) ELSE @]
    /\ UNCHANGED <<client, queue, task, error, future, spu, ids, faults>>

\* The timer is set anew.
OnNewBatch(p) ==
    /\ task[p].pc = "select" /\ events[p].new > 0
    /\ events' = [events EXCEPT ![p].new = @ - 1]
    /\ timer' = [timer EXCEPT ![p] = Len(queue[p])]
    /\ UNCHANGED <<client, queue, task, error, future, spu, ids, faults>>

OnLinger(p) ==
    /\ task[p].pc = "select" /\ timer[p] # Off
    /\ \A i \in 1 .. timer[p] : queue[p][i].old
    /\ task' = Become(p, "connect", "linger")
    /\ UNCHANGED <<client, queue, events, timer, error, future, spu, ids, faults>>

\* Batches are as old as their place in the queue says.
Age(p) ==
    \E i \in DOMAIN queue[p] :
        /\ ~queue[p][i].old /\ \A j \in 1 .. i - 1 : queue[p][j].old
        /\ queue' = [queue EXCEPT ![p][i].old = TRUE]
        /\ UNCHANGED <<client, events, timer, task, error, future, spu, ids, faults>>

\* (slip: force is not looked at)
ReadyCount_slip(p) ==
    CHOOSE n \in 0 .. Len(queue[p]) :
        /\ \A i \in 1 .. n : IsFull(queue[p][i]) \/ queue[p][i].old
        /\ n < Len(queue[p]) => ~(IsFull(queue[p][n + 1]) \/ queue[p][n + 1].old)

\* How many batches are ready, from the front.
ReadyCount(p) ==
    LET ready(i) == task[p].cause = "flush" \/ IsFull(queue[p][i]) \/ queue[p][i].old
    IN  CHOOSE n \in 0 .. Len(queue[p]) :
            /\ \A i \in 1 .. n : ready(i)
            /\ n < Len(queue[p]) => ~ready(n + 1)

\* flush: after a connection to the leader was made, however often that was
\* tried, the batches that are ready are taken and sent in one request.
SendReady(p) ==
    LET n == ReadyCount(p)
        batches == SubSeq(queue[p], 1, n)
    IN  /\ task[p].pc = "connect"
        /\ queue' = [queue EXCEPT ![p] = SubSeq(@, n + 1, Len(@))]
        /\ timer' = [timer EXCEPT ![p] = IF @ = Off THEN Off ELSE IF @ > n THEN @ - n ELSE 0]
        /\ wire' = [wire EXCEPT ![p] = Append(@, [id |-> ids[p] + 1, batches |-> batches])]
        /\ ids' = [ids EXCEPT ![p] = @ + 1]
        /\ task' = [task EXCEPT ![p] = [@ EXCEPT !.pc = IF Semantic = "AtMostOnce" THEN "finish" ELSE "await",
                                                 !.ready = batches, !.id = ids[p] + 1]]
        /\ UNCHANGED <<client, events, error, future, reply, log, thinned, faults>>

\* (slip: the offset of a record in its batch is not added)
Resolve_slip(batches, offsets) ==
    [r \in Record |->
        LET in == {i \in DOMAIN batches : r \in Range(batches[i].recs)}
        IN  IF in = {} THEN future[r] ELSE offsets[CHOOSE i \in in : TRUE]]

\* What the future of each record of a request is, given the response: the
\* i-th partition response belongs to the i-th batch.
Resolve(batches, offsets) ==
    [r \in Record |->
        LET at(i) == {j \in DOMAIN batches[i].recs : batches[i].recs[j] = r}
            in == {i \in DOMAIN batches : at(i) # {}}
        IN  IF in = {} THEN future[r]
            ELSE LET i == CHOOSE i \in in : TRUE
                     j == CHOOSE j \in at(i) : TRUE
                 IN  IF offsets[i] < 0 THEN offsets[i] ELSE offsets[i] + j - 1]

Lose(batches) == Resolve(batches, [i \in DOMAIN batches |-> Lost])

\* send_receive_with_retry returns the response of the last attempt.
OnReply(p) ==
    /\ task[p].pc = "await" /\ reply[p].id = task[p].id
    /\ future' = Resolve(task[p].ready, reply[p].offsets)
    /\ task' = [task EXCEPT ![p].pc = "finish"] /\ reply' = [reply EXCEPT ![p] = NoReply]
    /\ UNCHANGED <<client, queue, events, timer, error, wire, log, thinned, ids, faults>>

\* No answer will come, or none comes in time.
NoAnswer(p) ==
    LET gone == reply[p].id # task[p].id /\ \A i \in DOMAIN wire[p] : wire[p][i].id # task[p].id
    IN  /\ task[p].pc = "await" /\ (gone \/ faults < MaxFaults)
        /\ faults' = IF gone THEN faults ELSE faults + 1

\* An attempt that got no answer is repeated on the same connection ...
Retry(p) ==
    /\ NoAnswer(p)
    /\ wire' = [wire EXCEPT ![p] = Append(@, [id |-> ids[p] + 1, batches |-> task[p].ready])]
    /\ ids' = [ids EXCEPT ![p] = @ + 1] /\ task' = [task EXCEPT ![p].id = ids[p] + 1]
    /\ reply' = [reply EXCEPT ![p] = NoReply]
    /\ UNCHANGED <<client, queue, events, timer, error, future, log, thinned>>

\* ... or is the last: flush returns an error, the batches are dropped, and
\* the error is set.
GiveUp(p) ==
    /\ NoAnswer(p)
    /\ future' = Lose(task[p].ready) /\ error' = [error EXCEPT ![p] = TRUE]
    /\ task' = [task EXCEPT ![p].pc = "finish"] /\ reply' = [reply EXCEPT ![p] = NoReply]
    /\ UNCHANGED <<client, queue, events, timer, wire, log, thinned, ids>>

\* The end of a branch of select!.
Finish(p) ==
    LET cause == task[p].cause
    IN  /\ task[p].pc = "finish" /\ task' = [task EXCEPT ![p] = Waiting]
        /\ events' = IF cause = "flush" THEN Notify(p, {"flushed"}) ELSE events
        /\ timer' = IF cause = "full" THEN timer ELSE [timer EXCEPT ![p] = Off]
        /\ UNCHANGED <<client, queue, error, future, spu, ids, faults>>

-----------------------------------------------------------------------------
(* The SPU, seen from the client. *)

\* apply_smartmodules: what is left of the records of a batch.
Kept(b) ==
    FlattenSeq([j \in DOMAIN b.recs |-> IF b.recs[j] \in Filtered THEN <<>> ELSE <<b.recs[j]>>])

\* handle_produce_topic writes what is left of the batches one after the
\* other, or refuses some of them.  A batch that is left empty is answered by
\* PartitionWriteResult::filtered: base offset 0 and no error.  With AtMostOnce
\* the response resolves the futures, and its error codes are not looked at: a
\* batch that was refused has base offset 0 as well.
Handle(p) ==
    \E refused \in SUBSET DOMAIN Head(wire[p]).batches :
        LET request == Head(wire[p])
            written == [i \in DOMAIN request.batches |->
                           IF i \in refused THEN <<>> ELSE Kept(request.batches[i])]
            before(i) == Len(FlattenSeq(SubSeq(written, 1, i - 1)))
            offsets == [i \in DOMAIN written |->
                           IF i \in refused THEN IF Semantic = "AtMostOnce" THEN 0 ELSE Refused
                           ELSE IF written[i] = <<>> THEN 0 ELSE Len(log[p]) + before(i)]
            changed == {i \in DOMAIN written : i \notin refused /\ written[i] # request.batches[i].recs}
        IN  /\ refused # {} => MayRefuse
            /\ log' = [log EXCEPT ![p] = @ \o FlattenSeq(written)]
            /\ thinned' = [thinned EXCEPT ![p] = @ \cup UNION {Range(request.batches[i].recs) : i \in changed}]
            /\ wire' = [wire EXCEPT ![p] = Tail(@)]
            /\ reply' = IF task[p].pc = "await" /\ task[p].id = request.id
                        THEN [reply EXCEPT ![p] = [id |-> request.id, offsets |-> offsets]]
                        ELSE reply
            /\ future' = IF Semantic = "AtMostOnce" THEN Resolve(request.batches, offsets) ELSE future
            /\ UNCHANGED <<client, queue, events, timer, task, error, ids, faults>>

SpuHandles(p) == wire[p] # <<>> /\ Handle(p)

\* A request is lost with its connection.
LoseRequest(p) ==
    /\ wire[p] # <<>> /\ faults < MaxFaults /\ faults' = faults + 1
    /\ wire' = [wire EXCEPT ![p] = Tail(@)]
    /\ future' = IF Semantic = "AtMostOnce" THEN Lose(Head(wire[p]).batches) ELSE future
    /\ UNCHANGED <<client, queue, events, timer, task, error, reply, log, thinned, ids>>

-----------------------------------------------------------------------------
Task(p) ==
    \/ OnEnd(p) \/ OnEvent(p, "flush") \/ OnEvent(p, "full") \/ OnNewBatch(p) \/ OnLinger(p)
    \/ SendReady(p) \/ OnReply(p) \/ GiveUp(p) \/ Finish(p)

Next ==
    \/ DropProducer
    \/ \E u \in User : \/ \E p \in Partition : PushBegin(u, p)
                       \/ PushRecord(u) \/ FlushBegin(u) \/ FlushNotify(u) \/ FlushNext(u)
                       \/ FlushCancel(u) \/ ClearErrors(u)
    \/ \E p \in Partition : Task(p) \/ Retry(p) \/ Age(p) \/ SpuHandles(p) \/ LoseRequest(p)

\* What the tasks, the SPU and the clock do by themselves.
Progress == \E p \in Partition : Task(p) \/ Age(p) \/ SpuHandles(p)

Fairness == WF_vars(Progress)

Spec == Init /\ [][Next]_vars /\ Fairness

-----------------------------------------------------------------------------
(* Properties. *)

\* The offset that the future of r claims, which is false if a SmartModule
\* changed the batch of r: a batch that was dropped whole claims 0, and in one
\* that was dropped in part the records move up (see Handle).
Claims(r) == future[r] >= 0 /\ r \notin thinned[place[r]]

\* An offset that a sender gets for its record is where the record is, with
\* batches that were closed by size, repeated requests, late responses and
\* other batches of the request refused or filtered by a SmartModule.
OffsetIsTrue ==
    \A r \in Record : Claims(r) => future[r] < Len(log[place[r]]) /\ log[place[r]][future[r] + 1] = r

\* The offsets of acknowledged records of a partition have the order in which
\* they were sent, whichever of the three branches took their batches.
OffsetsInOrder ==
    \A r, s \in Record :
        r < s /\ place[r] = place[s] /\ Claims(r) /\ Claims(s) => future[r] < future[s]

\* The error of the partition of r is looked at before it is flushed:
\* flush_all_batches goes through two hash maps, each in its own order.
LookedAtBefore(r) ==
    \E i, k \in DOMAIN order[1] : i < k /\ order[2][i] = place[r] /\ order[1][k] = place[r]

\* When flush_all_batches returns Ok, every record sent before has its answer,
\* however calls of flush overlap, and a record that was lost is one the
\* callers were told of by an error, or one whose partition's error was looked
\* at before the partition was flushed: its loss goes untold.  (A cancelled
\* flush leaves a notification that a later one takes for its own.)
FlushReports ==
    ~cancelled /\ Semantic = "AtLeastOnce" =>
        \A r \in told : /\ future[r] # Pending
                        /\ future[r] = Lost => r \in forgiven \/ LookedAtBefore(r)

\* Every record that was accepted is acknowledged, refused or lost in the
\* end: no batch stays in the queue because an event was missed or the timer
\* was set for another batch.
EveryRecordResolves == <>[](\A r \in Record : future[r] # Pending)

=============================================================================
