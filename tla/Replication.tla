---------------------------- MODULE Replication ----------------------------
(***************************************************************************)
(* Replication of one partition inside the data plane of fluvio: the       *)
(* leader SPU (crates/fluvio-spu/src/replication/leader), its followers    *)
(* (crates/fluvio-spu/src/replication/follower), the connections between   *)
(* them, the produce requests waiting for their records to be committed    *)
(* and the lazily written checkpoint of the high watermark.                *)
(*                                                                         *)
(* One element of a log is one batch, and an offset counts batches.  The   *)
(* set of replicas and the leader are fixed, as they are between two       *)
(* elections of the cluster controller.                                    *)
(*                                                                         *)
(* A follower opens a connection, reports its offsets when it opens, when  *)
(* its reconciliation timer fires and whenever an update of the leader     *)
(* changed it.  The leader runs one FollowerHandler task per connection.   *)
(* When a connection breaks the follower opens another one, and the leader *)
(* starts a second handler without stopping the first: until the first     *)
(* notices, both serve the same set of pending updates.  <<f, "cur">> is   *)
(* the handler of the open connection of f, <<f, "old">> the one left over *)
(* by the connection before it.                                            *)
(***************************************************************************)
EXTENDS HighWatermark, Sequences

CONSTANTS
    Leader,            \* the SPU that leads the partition
    Followers,         \* the other SPUs of the replica set
    Record,            \* the batches producers may send
    MaxLeo,            \* bound: length of the leader's log
    MaxInFlight,       \* bound: messages in one direction of a connection
    MayRestart,        \* bound: replicas that may restart; no other's checkpoint is read
    MaxFaults,         \* bound: lost connections, follower restarts, I/O errors
    MaxLeaderRestarts  \* bound: restarts of the leader

ASSUME ReplicaAssumption == IsFiniteSet(Followers) /\ Leader \notin Followers

ASSUME RestartAssumption == MayRestart \subseteq Followers \cup {Leader}

ASSUME BoundAssumption ==
    /\ MaxLeo \in Nat /\ MaxInFlight \in Nat
    /\ MaxFaults \in Nat /\ MaxLeaderRestarts \in Nat

Replicas == Followers \cup {Leader}

Handlers == Followers \X {"cur", "old"}

\* in_sync_replica: every replica counts.
InSyncReplica == Cardinality(Followers) + 1

VARIABLES
    log,        \* log[r]: the batches of replica r, up to the log end it publishes
    hw,         \* hw[r]: the high watermark replica r publishes
    ckpt,       \* ckpt[r]: the high watermark in r's replication.chk
    short,      \* short[r]: short_circuit, a write of r failed and no other is tried
    tail,       \* tail[f]: what a failed write of f left behind log[f] in its files
    followers,  \* followers[f]: what the leader knows of f
    pending,    \* pending[f]: the partition is in f's set of pending updates
    pc,         \* pc[h]: where handler h is
    inbox,      \* inbox[h]: offset reports handler h has yet to read
    fpos,       \* fpos[h]: the report handler h is working on
    lpos,       \* lpos[h]: the leader's offsets as handler h read them
    conn,       \* conn[f]: f has an open connection
    outbox,     \* outbox[f]: updates sent to f over its connection
    toNotify,   \* log ends of writes that have yet to notify the followers
    waiting,    \* log ends of produce requests waiting to be committed
    acked,      \* the largest log end acknowledged to such a request
    faults, restarts

storage == <<log, hw, ckpt, short, tail>>
handlers == <<pc, inbox, fpos, lpos>>
producers == <<toNotify, waiting, acked>>
counters == <<faults, restarts>>
vars == <<storage, followers, pending, handlers, conn, outbox, producers, counters>>

Message == [base : Nat, recs : Seq(Record), hw : Offset]

Leo(r) == Len(log[r])

AsOffset(r) == [hw |-> hw[r], leo |-> Leo(r)]

Leos(infos) == [f \in Followers |-> infos[f].leo]

Cur(f) == <<f, "cur">>
Old(f) == <<f, "old">>

-----------------------------------------------------------------------------
Init ==
    /\ log = [r \in Replicas |-> <<>>]
    /\ hw = [r \in Replicas |-> 0]
    /\ ckpt = [r \in Replicas |-> 0]
    /\ short = [r \in Replicas |-> FALSE]
    /\ tail = [f \in Followers |-> <<>>]
    /\ followers = [f \in Followers |-> DefaultInfo]
    /\ pending = [f \in Followers |-> FALSE]
    /\ pc = [h \in Handlers |-> "closed"]
    /\ inbox = [h \in Handlers |-> <<>>]
    /\ fpos = [h \in Handlers |-> DefaultInfo]
    /\ lpos = [h \in Handlers |-> DefaultInfo]
    /\ conn = [f \in Followers |-> FALSE]
    /\ outbox = [f \in Followers |-> <<>>]
    /\ toNotify = {} /\ waiting = {} /\ acked = 0
    /\ faults = 0 /\ restarts = 0

\* notify_followers: who is known and does not have what the leader has.
NotifyFollowers ==
    pending' = [f \in Followers |->
                   \/ pending[f]
                   \/ IsValid(followers[f]) /\ ~IsSame(followers[f], AsOffset(Leader))]

-----------------------------------------------------------------------------
(* Produce requests on the leader.                                         *)

\* The storage half of write_record_set; a leader without followers commits
\* what it writes at once.
Produce(rec) ==
    /\ Leo(Leader) < MaxLeo /\ ~short[Leader]
    /\ log' = [log EXCEPT ![Leader] = Append(@, rec)]
    /\ hw' = IF InSyncReplica = 1 THEN [hw EXCEPT ![Leader] = Leo(Leader) + 1] ELSE hw
    /\ toNotify' = toNotify \cup {Leo(Leader) + 1}
    /\ UNCHANGED <<ckpt, short, tail, followers, pending, handlers, conn, outbox, waiting, acked, counters>>

\* The write fails: the log end stays, the producer gets the error, and every
\* later write is refused until the leader restarts.
ProduceError ==
    /\ Leo(Leader) < MaxLeo /\ ~short[Leader]
    /\ faults < MaxFaults /\ faults' = faults + 1
    /\ short' = [short EXCEPT ![Leader] = TRUE]
    /\ UNCHANGED <<log, hw, ckpt, tail, followers, pending, handlers, conn, outbox, producers, restarts>>

\* The rest of it, once the storage lock is released; with the isolation
\* ReadCommitted the request then waits, with ReadUncommitted it is done.
NotifyAfterWrite(leo) ==
    /\ leo \in toNotify
    /\ NotifyFollowers
    /\ toNotify' = toNotify \ {leo}
    /\ \E readCommitted \in BOOLEAN :
           waiting' = IF readCommitted THEN waiting \cup {leo} ELSE waiting
    /\ UNCHANGED <<storage, followers, handlers, conn, outbox, acked, counters>>

\* (slip: one batch too early)
ReachedBy_slip(leo) == hw[Leader] >= leo - 1

\* The high watermark covers a write that ended at leo.
ReachedBy(leo) == hw[Leader] >= leo

\* wait_for_acks ends without an error.
Ack(leo) ==
    /\ leo \in waiting
    /\ ReachedBy(leo)
    /\ waiting' = waiting \ {leo}
    /\ acked' = Larger(acked, leo)
    /\ UNCHANGED <<storage, followers, pending, handlers, conn, outbox, toNotify, counters>>

\* wait_for_acks answers RequestTimedOut.
AckTimeout(leo) ==
    /\ leo \in waiting
    /\ waiting' = waiting \ {leo}
    /\ UNCHANGED <<storage, followers, pending, handlers, conn, outbox, toNotify, acked, counters>>

-----------------------------------------------------------------------------
(* The leader's side of a connection: one FollowerHandler task.            *)

\* A report the leader does not take.
IsAhead(report) == Newer(report, AsOffset(Leader))

\* update_states_from_followers up to the lock: the leader's offsets are
\* read, and a report that is ahead of them is dropped.
UpdateStatesBegin(h) ==
    /\ pc[h] = "idle" /\ inbox[h] # <<>>
    /\ inbox' = [inbox EXCEPT ![h] = Tail(@)]
    /\ IF IsAhead(Head(inbox[h]))
       THEN UNCHANGED <<pc, fpos, lpos>>
       ELSE /\ pc' = [pc EXCEPT ![h] = "apply"]
            /\ fpos' = [fpos EXCEPT ![h] = Head(inbox[h])]
            /\ lpos' = [lpos EXCEPT ![h] = AsOffset(Leader)]
    /\ UNCHANGED <<storage, followers, pending, conn, outbox, producers, counters>>

\* The high watermark after handler h recorded infos, computed from the
\* leader's offsets as they were before h got the lock.
HwAfter(h, infos) ==
    LET new == ComputeHw(lpos[h].hw, InSyncReplica, Leos(infos))
    IN  IF infos = followers \/ IsCommitted(lpos[h]) \/ new = None
        THEN hw[Leader] ELSE new

\* (slip: the leader's own offsets are recorded as the follower's)
UpdateStatesApply_slip(h) ==
    /\ pc[h] = "apply"
    /\ followers' = [followers EXCEPT ![h[1]] = Update(@, lpos[h])]
    /\ hw' = [hw EXCEPT ![Leader] = HwAfter(h, followers')]
    /\ pc' = [pc EXCEPT ![h] = "notify"]
    /\ fpos' = [fpos EXCEPT ![h] = DefaultInfo]
    /\ lpos' = [lpos EXCEPT ![h] = DefaultInfo]
    /\ UNCHANGED <<log, ckpt, short, tail, pending, inbox, conn, outbox, producers, counters>>

\* The part of update_states_from_followers that holds the write lock.
UpdateStatesApply(h) ==
    /\ pc[h] = "apply"
    /\ followers' = [followers EXCEPT ![h[1]] = Update(@, fpos[h])]
    /\ hw' = [hw EXCEPT ![Leader] = HwAfter(h, followers')]
    /\ pc' = [pc EXCEPT ![h] = "notify"]
    /\ fpos' = [fpos EXCEPT ![h] = DefaultInfo]
    /\ lpos' = [lpos EXCEPT ![h] = DefaultInfo]
    /\ UNCHANGED <<log, ckpt, short, tail, pending, inbox, conn, outbox, producers, counters>>

\* Its end: notify_followers, whether or not the report changed anything.
NotifyAfterUpdate(h) ==
    /\ pc[h] = "notify"
    /\ NotifyFollowers
    /\ pc' = [pc EXCEPT ![h] = "idle"]
    /\ UNCHANGED <<storage, followers, inbox, fpos, lpos, conn, outbox, producers, counters>>

\* update_from_leaders: the set of pending updates is emptied, and
\* follower_updates reads the leader's offsets.  (The bound on messages is
\* checked here, so that no task of the model blocks on a full channel.)
DrainReplicas(h) ==
    /\ pc[h] = "idle" /\ pending[h[1]]
    /\ h = Cur(h[1]) => Len(outbox[h[1]]) < MaxInFlight
    /\ pending' = [pending EXCEPT ![h[1]] = FALSE]
    /\ pc' = [pc EXCEPT ![h] = "read"]
    /\ lpos' = [lpos EXCEPT ![h] = AsOffset(Leader)]
    /\ UNCHANGED <<storage, followers, inbox, fpos, conn, outbox, producers, counters>>

NeedsUpdate(h) ==
    IsValid(followers[h[1]]) /\ ~IsSame(followers[h[1]], lpos[h])

\* What is written to a connection that is already broken is lost.
Send(h, recs) ==
    LET f == h[1]
        m == [base |-> IF recs = <<>> THEN 0 ELSE followers[f].leo,
              recs |-> recs, hw |-> lpos[h].hw]
    IN  outbox' = IF h = Cur(f) THEN [outbox EXCEPT ![f] = Append(@, m)] ELSE outbox

\* follower_updates: the batches from the follower's log end on, as many as
\* fit into one message, or only the high watermark.
FollowerUpdates(h) ==
    /\ pc[h] = "read"
    /\ pc' = [pc EXCEPT ![h] = "idle"]
    /\ lpos' = [lpos EXCEPT ![h] = DefaultInfo]
    /\ IF ~NeedsUpdate(h) THEN UNCHANGED outbox
       ELSE IF followers[h[1]].leo < lpos[h].leo
       THEN \E end \in (followers[h[1]].leo + 1)..Leo(Leader) :
                Send(h, SubSeq(log[Leader], followers[h[1]].leo + 1, end))
       ELSE Send(h, <<>>)
    /\ UNCHANGED <<storage, followers, pending, inbox, fpos, conn, producers, counters>>

\* The same when the leader cannot read its log: the message goes out empty.
FollowerUpdatesReadError(h) ==
    /\ pc[h] = "read" /\ NeedsUpdate(h) /\ followers[h[1]].leo < lpos[h].leo
    /\ faults < MaxFaults /\ faults' = faults + 1
    /\ pc' = [pc EXCEPT ![h] = "idle"]
    /\ lpos' = [lpos EXCEPT ![h] = DefaultInfo]
    /\ Send(h, <<>>)
    /\ UNCHANGED <<storage, followers, pending, inbox, fpos, conn, producers, restarts>>

\* The handler of a broken connection finds out, and what it had not read
\* is gone.
HandlerEnd(f) ==
    /\ pc[Old(f)] = "idle"
    /\ pc' = [pc EXCEPT ![Old(f)] = "closed"]
    /\ inbox' = [inbox EXCEPT ![Old(f)] = <<>>]
    /\ UNCHANGED <<storage, followers, pending, fpos, lpos, conn, outbox, producers, counters>>

-----------------------------------------------------------------------------
(* The follower's side: FollowGroupController.                             *)

\* create_socket_to_leader, the registration at the leader, and the initial
\* sync of the offsets.
Connect(f) ==
    /\ ~conn[f]
    /\ conn' = [conn EXCEPT ![f] = TRUE]
    /\ pc' = [pc EXCEPT ![Cur(f)] = "idle"]
    /\ inbox' = [inbox EXCEPT ![Cur(f)] = <<AsOffset(f)>>]
    /\ UNCHANGED <<storage, followers, pending, fpos, lpos, outbox, producers, counters>>

\* (slip: a follower without a reconciliation timer)
Reconcile_slip(f) == f \notin Followers /\ UNCHANGED vars

\* sync_all_offsets_to_leader, when the timer or a group event asks for it.
Reconcile(f) ==
    /\ conn[f] /\ Len(inbox[Cur(f)]) < MaxInFlight
    /\ inbox' = [inbox EXCEPT ![Cur(f)] = Append(@, AsOffset(f))]
    /\ UNCHANGED <<storage, followers, pending, pc, fpos, lpos, conn, outbox, producers, counters>>

\* (slip: batches are appended wherever they start)
WriteRecordsets_slip(f, m) == log[f] \o m.recs

\* write_recordsets skips batches that do not continue the follower's log.
WriteRecordsets(f, m) ==
    IF m.recs # <<>> /\ m.base = Leo(f) THEN log[f] \o m.recs ELSE log[f]

\* The leader's high watermark is taken if it is news and within the log.
HwFromLeader(f, m, leo) == IF hw[f] < m.hw /\ m.hw <= leo THEN m.hw ELSE hw[f]

\* write_batch of a replica that is short-circuited.
Refused(f, m) == short[f] /\ m.recs # <<>> /\ m.base = Leo(f)

\* sync_from_leader with update_from_leader: write, take the high watermark,
\* and report back if anything was sent or taken.
SyncFromLeader(f) ==
    LET m == Head(outbox[f])
        flog == WriteRecordsets(f, m)
        fhw == HwFromLeader(f, m, Len(flog))
        changes == m.recs # <<>> \/ fhw # hw[f]
    IN  /\ conn[f] /\ outbox[f] # <<>> /\ ~Refused(f, m)
        /\ changes => Len(inbox[Cur(f)]) < MaxInFlight
        /\ outbox' = [outbox EXCEPT ![f] = Tail(@)]
        /\ log' = [log EXCEPT ![f] = flog]
        /\ hw' = [hw EXCEPT ![f] = fhw]
        /\ inbox' = IF changes
                    THEN [inbox EXCEPT ![Cur(f)] = Append(@, [hw |-> fhw, leo |-> Len(flog)])]
                    ELSE inbox
        /\ UNCHANGED <<ckpt, short, tail, followers, pending, pc, fpos, lpos, conn, producers, counters>>

\* The update is dropped, its high watermark too, and nothing is reported.
DropUpdate(f) ==
    /\ conn[f] /\ outbox[f] # <<>>
    /\ outbox' = [outbox EXCEPT ![f] = Tail(@)]
    /\ UNCHANGED <<log, hw, ckpt, followers, pending, handlers, conn, producers, restarts>>

\* update_from_leader of a follower that is short-circuited.
SyncFromLeaderRefused(f) ==
    /\ DropUpdate(f) /\ Refused(f, Head(outbox[f]))
    /\ UNCHANGED <<short, tail, faults>>

\* (slip: the follower is not short-circuited)
SyncFromLeaderError_slip(f) ==
    LET m == Head(outbox[f])
    IN  /\ DropUpdate(f) /\ ~short[f] /\ m.recs # <<>> /\ m.base = Leo(f)
        /\ faults < MaxFaults /\ faults' = faults + 1
        /\ \E k \in 0..Len(m.recs) : tail' = [tail EXCEPT ![f] = SubSeq(m.recs, 1, k)]
        /\ UNCHANGED short

\* The write of update_from_leader fails: some of the batches are in the file,
\* the published log end stays where it was.
SyncFromLeaderError(f) ==
    LET m == Head(outbox[f])
    IN  /\ DropUpdate(f) /\ ~short[f] /\ m.recs # <<>> /\ m.base = Leo(f)
        /\ faults < MaxFaults /\ faults' = faults + 1
        /\ short' = [short EXCEPT ![f] = TRUE]
        /\ \E k \in 0..Len(m.recs) : tail' = [tail EXCEPT ![f] = SubSeq(m.recs, 1, k)]

\* sync_from_leader finds no such replica: it was announced to the leader on an
\* earlier connection, and to a follower that has just restarted not yet.
SyncFromLeaderMissing(f) ==
    /\ DropUpdate(f)
    /\ faults < MaxFaults /\ faults' = faults + 1
    /\ UNCHANGED <<short, tail>>

\* The connection of f breaks.  Its handler lives on as the old one, with
\* the reports that were already on their way.
BreakConnection(f) ==
    /\ conn' = [conn EXCEPT ![f] = FALSE]
    /\ outbox' = [outbox EXCEPT ![f] = <<>>]
    /\ pc' = [pc EXCEPT ![Cur(f)] = "closed", ![Old(f)] = pc[Cur(f)]]
    /\ inbox' = [inbox EXCEPT ![Cur(f)] = <<>>, ![Old(f)] = inbox[Cur(f)]]
    /\ fpos' = [fpos EXCEPT ![Cur(f)] = DefaultInfo, ![Old(f)] = fpos[Cur(f)]]
    /\ lpos' = [lpos EXCEPT ![Cur(f)] = DefaultInfo, ![Old(f)] = lpos[Cur(f)]]

\* At most one handler per follower is left over (a bound of the model).
Disconnect(f) ==
    /\ conn[f] /\ pc[Old(f)] = "closed"
    /\ faults < MaxFaults /\ faults' = faults + 1
    /\ BreakConnection(f)
    /\ UNCHANGED <<storage, followers, pending, producers, restarts>>

-----------------------------------------------------------------------------
(* Storage and restarts.                                                   *)

\* The LazyWriter task of the checkpoint catches up.
LazyWrite(r) ==
    /\ r \in MayRestart
    /\ ckpt[r] # hw[r]
    /\ ckpt' = [ckpt EXCEPT ![r] = hw[r]]
    /\ UNCHANGED <<log, hw, short, tail, followers, pending, handlers, conn, outbox, producers, counters>>

\* (slip: everything found in the log counts as committed)
LoadedHw_slip(r) == Leo(r)

\* The high watermark of a replica that is loaded from its files.
LoadedHw(r) == ckpt[r]

\* The process of a follower stops and starts again: the log is what is in the
\* files, the high watermark what the checkpoint file holds.
FollowerRestart(f) ==
    /\ f \in MayRestart
    /\ conn[f] /\ pc[Old(f)] = "closed"
    /\ faults < MaxFaults /\ faults' = faults + 1
    /\ log' = [log EXCEPT ![f] = @ \o tail[f]] /\ tail' = [tail EXCEPT ![f] = <<>>]
    /\ hw' = [hw EXCEPT ![f] = LoadedHw(f)]
    /\ short' = [short EXCEPT ![f] = FALSE]
    /\ BreakConnection(f)
    /\ UNCHANGED <<ckpt, followers, pending, producers, restarts>>

\* The process of the leader stops and starts again: it knows nothing of
\* its followers, and every request and connection is gone.
LeaderRestart ==
    /\ Leader \in MayRestart
    /\ restarts < MaxLeaderRestarts /\ restarts' = restarts + 1
    /\ hw' = [hw EXCEPT ![Leader] = LoadedHw(Leader)]
    /\ short' = [short EXCEPT ![Leader] = FALSE]
    /\ followers' = [f \in Followers |-> DefaultInfo]
    /\ pending' = [f \in Followers |-> FALSE]
    /\ pc' = [h \in Handlers |-> "closed"]
    /\ inbox' = [h \in Handlers |-> <<>>]
    /\ fpos' = [h \in Handlers |-> DefaultInfo]
    /\ lpos' = [h \in Handlers |-> DefaultInfo]
    /\ conn' = [f \in Followers |-> FALSE]
    /\ outbox' = [f \in Followers |-> <<>>]
    /\ toNotify' = {} /\ waiting' = {}
    /\ UNCHANGED <<log, ckpt, tail, acked, faults>>

-----------------------------------------------------------------------------
ProducerNext ==
    \/ (\E rec \in Record : Produce(rec)) \/ ProduceError
    \/ \E leo \in toNotify : NotifyAfterWrite(leo)
    \/ \E leo \in waiting : Ack(leo) \/ AckTimeout(leo)

HandlerNext(h) ==
    \/ UpdateStatesBegin(h) \/ UpdateStatesApply(h) \/ NotifyAfterUpdate(h)
    \/ DrainReplicas(h) \/ FollowerUpdates(h) \/ FollowerUpdatesReadError(h)

FollowerNext(f) ==
    \/ Connect(f) \/ Reconcile(f)
    \/ SyncFromLeader(f) \/ SyncFromLeaderRefused(f) \/ SyncFromLeaderError(f) \/ SyncFromLeaderMissing(f)
    \/ Disconnect(f) \/ FollowerRestart(f) \/ HandlerEnd(f)

Next ==
    \/ ProducerNext
    \/ \E h \in Handlers : HandlerNext(h)
    \/ \E f \in Followers : FollowerNext(f)
    \/ \E r \in Replicas : LazyWrite(r)
    \/ LeaderRestart

Spec == Init /\ [][Next]_vars

(***************************************************************************)
(* Fairness.  Every task runs, every message on an open connection is      *)
(* read and a follower keeps reconnecting.  Strong fairness where a loop   *)
(* chooses between two sources: tokio's select! polls its branches in      *)
(* random order, so none is passed over for ever.  Nothing is assumed of   *)
(* producers, of checkpoint writes or of faults.                           *)
(***************************************************************************)
Fairness ==
    /\ WF_vars(\E leo \in toNotify : NotifyAfterWrite(leo))
    /\ \A h \in Handlers :
           /\ SF_vars(UpdateStatesBegin(h)) /\ SF_vars(DrainReplicas(h))
           /\ WF_vars(UpdateStatesApply(h)) /\ WF_vars(NotifyAfterUpdate(h))
           /\ WF_vars(FollowerUpdates(h))
    /\ \A f \in Followers :
           /\ WF_vars(Connect(f)) /\ SF_vars(Reconcile(f))
           /\ SF_vars(SyncFromLeader(f)) /\ SF_vars(SyncFromLeaderRefused(f)) /\ SF_vars(HandlerEnd(f))

FairSpec == Spec /\ Fairness

-----------------------------------------------------------------------------
(* Properties.                                                             *)

TypeOK ==
    /\ log \in [Replicas -> Seq(Record)]
    /\ hw \in [Replicas -> Nat]
    /\ ckpt \in [Replicas -> Nat]
    /\ short \in [Replicas -> BOOLEAN]
    /\ tail \in [Followers -> Seq(Record)]
    /\ followers \in [Followers -> OffsetInfo]
    /\ pending \in [Followers -> BOOLEAN]
    /\ pc \in [Handlers -> {"closed", "idle", "apply", "notify", "read"}]
    /\ inbox \in [Handlers -> Seq(OffsetInfo)]
    /\ fpos \in [Handlers -> OffsetInfo]
    /\ lpos \in [Handlers -> OffsetInfo]
    /\ conn \in [Followers -> BOOLEAN]
    /\ outbox \in [Followers -> Seq(Message)]
    /\ toNotify \subseteq Nat /\ waiting \subseteq Nat /\ acked \in Nat
    /\ faults \in Nat /\ restarts \in Nat

\* The first n batches of replica r are those of the leader.
AgreesUpTo(r, n) == n <= Leo(r) /\ \A i \in 1..n : log[r][i] = log[Leader][i]

(***************************************************************************)
(* A follower's log is a prefix of the leader's, whatever was duplicated,  *)
(* resent or lost on the way: write_recordsets must accept exactly the     *)
(* batches that continue the log.                                          *)
(***************************************************************************)
FollowerLogIsPrefix ==
    \A f \in Followers : Leo(f) <= Leo(Leader) /\ AgreesUpTo(f, Leo(f))

(***************************************************************************)
(* "High water mark offset (records that has been replicated)": what any   *)
(* replica holds to be committed, in memory or in its checkpoint file, is  *)
(* on every replica with the same content, although compute_hw works from  *)
(* reports that may be old and from leader offsets read before the lock.   *)
(***************************************************************************)
CommittedIsReplicated ==
    \A r, s \in Replicas : AgreesUpTo(s, hw[r]) /\ AgreesUpTo(s, ckpt[r])

(***************************************************************************)
(* A batch acknowledged to a producer that asked for ReadCommitted is on   *)
(* every replica, and stays there across lost connections and restarts.    *)
(***************************************************************************)
AckedIsReplicated == \A r \in Replicas : AgreesUpTo(r, acked)

(***************************************************************************)
(* What the leader believes of a follower is never more than what the      *)
(* follower has stored, nor more than what the leader has itself, although *)
(* reports of an older connection are still read next to those of the      *)
(* current one.  If it failed, the leader would skip batches the follower  *)
(* lacks.                                                                  *)
(***************************************************************************)
FollowersNotOverestimated ==
    \A f \in Followers : /\ followers[f].leo <= Leo(f)
                         /\ ~Newer(followers[f], AsOffset(Leader))

(***************************************************************************)
(* update_high_watermark accepts any value and compute_hw starts from a    *)
(* stale high watermark; still, two handlers updating it in turn never     *)
(* move it back.  Only a restart of the leader does, to the checkpoint.    *)
(***************************************************************************)
HwMonotonic == [][restarts' = restarts => hw'[Leader] >= hw[Leader]]_vars

(***************************************************************************)
(* "follower must be always behind leader" (update_states_from_followers): *)
(* no report that is about to be read is ahead of the leader, so that none *)
(* is dropped.  A restart of the leader ends this: its high watermark is   *)
(* back at the checkpoint, and every report with the one before is dropped *)
(* (see Convergence, which such a restart breaks).                         *)
(***************************************************************************)
FollowerBehindLeader ==
    restarts = 0 =>
        \A h \in Handlers :
            pc[h] = "idle" /\ inbox[h] # <<>> => ~IsAhead(Head(inbox[h]))

(***************************************************************************)
(* Once producers and faults are quiet, every follower whose disk did not  *)
(* refuse a write since it started gets the whole log, and when that is    *)
(* every follower the leader commits it: no lost message, failed read,     *)
(* stolen pending set or missed notification stops replication for good.   *)
(* A follower that did fail a write is short-circuited: it stays where it  *)
(* is, and the high watermark with it, until it restarts.                  *)
(***************************************************************************)
Convergence ==
    <>[]( /\ \A f \in Followers : short[f] \/ log[f] = log[Leader]
          /\ (\A f \in Followers : ~short[f]) => hw[Leader] = Leo(Leader) )

-----------------------------------------------------------------------------
(* The inductive invariant behind the proofs in ReplicationProofs.  What a *)
(* replica knows or is told is bounded by the logs, and logs only grow.    *)

Everywhere(n) == \A s \in Replicas : n <= Leo(s)

\* What follower f may have reported so far.
Reports(f) == {o \in OffsetInfo : o.leo <= Leo(f)}

\* Updates whose batches are those of the leader's log at their place.
SoundUpdates ==
    {m \in Message :
        /\ Everywhere(m.hw)
        /\ m.recs # <<>> =>
               /\ m.base + Len(m.recs) <= Leo(Leader)
               /\ \A i \in 1..Len(m.recs) : m.recs[i] = log[Leader][m.base + i]}

KnowledgeInv ==
    /\ \A f \in Followers : followers[f] \in Reports(f)
    /\ \A h \in Handlers : inbox[h] \in Seq(Reports(h[1])) /\ fpos[h] \in Reports(h[1])

CommitInv ==
    /\ \A r \in Replicas : Everywhere(hw[r]) /\ Everywhere(ckpt[r])
    /\ \A h \in Handlers : Everywhere(lpos[h].hw)
    /\ Everywhere(acked)

\* What a failed write left behind continues the follower's log as the leader's
\* does, and is all there is behind it.
TailInv ==
    \A f \in Followers :
        /\ ~short[f] => tail[f] = <<>>
        /\ Leo(f) + Len(tail[f]) <= Leo(Leader)
        /\ \A i \in 1..Len(tail[f]) : tail[f][i] = log[Leader][Leo(f) + i]

UpdateInv == \A f \in Followers : outbox[f] \in Seq(SoundUpdates)

\* A handler about to apply a report read the high watermark as it still is,
\* or all followers are known to have reached the one it is now.
HwInv ==
    /\ \A f \in Followers : followers[f].hw <= hw[Leader]
    /\ \A h \in Handlers :
           /\ fpos[h].hw <= hw[Leader]
           /\ pc[h] = "apply" => \/ hw[Leader] <= lpos[h].hw
                                 \/ \A f \in Followers : hw[Leader] <= followers[f].leo

SafetyInv == TypeOK /\ FollowerLogIsPrefix /\ KnowledgeInv /\ CommitInv /\ UpdateInv /\ TailInv

IndInv == SafetyInv /\ HwInv

\* Reports and updates with a high watermark that the leader has reached.
PastReports == {o \in OffsetInfo : o.hw <= hw[Leader]}
PastUpdates == {m \in Message : m.hw <= hw[Leader]}

\* Until the leader restarts every high watermark anywhere comes from it.
BehindInv ==
    restarts = 0 =>
        /\ \A r \in Replicas : hw[r] <= hw[Leader] /\ ckpt[r] <= hw[Leader]
        /\ \A h \in Handlers : lpos[h].hw <= hw[Leader] /\ inbox[h] \in Seq(PastReports)
        /\ \A f \in Followers : outbox[f] \in Seq(PastUpdates)

-----------------------------------------------------------------------------
(* The promise of the partition, see CommittedLog. *)

Replicated == {i \in 1..Leo(Leader) : \A r \in Replicas : i <= Leo(r)}

Partition == INSTANCE CommittedLog
                 WITH records <- log[Leader], replicated <- Replicated,
                      visible <- hw[Leader]

(***************************************************************************)
(* Every behaviour of the replicas is one of the single committed log: the *)
(* handlers, messages, restarts and waiting producers together never       *)
(* unreplicate an offset, show one that is not replicated or acknowledge   *)
(* one that is not visible.                                                *)
(***************************************************************************)
ImplementsCommittedLog == Partition!Spec
=============================================================================
