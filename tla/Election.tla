------------------------------ MODULE Election ------------------------------
(***************************************************************************)
(* Who leads a partition.  The cluster controller (crates/fluvio-sc) keeps *)
(* the health of each SPU from its connections, the SpuController turns it *)
(* into the status of the SPU, the PartitionController reacts to that with *)
(* elections, and the dispatcher of partitions applies what they decide.   *)
(* Each SPU (crates/fluvio-spu) is told the leader over its connection,    *)
(* becomes leader or follower, and a leader reports the offsets it knows,  *)
(* which the next election goes by.                                        *)
(*                                                                         *)
(* There is one partition, with a replica on every SPU.  How a follower    *)
(* copies its leader's log is module Replication's subject: here it is two *)
(* steps, the report of the follower's end and the copy of one batch.  How *)
(* the objects travel is MetadataSync's: here an SPU is sent the latest    *)
(* leader it has not been sent.                                            *)
(***************************************************************************)
EXTENDS HighWatermark, Sequences

CONSTANTS
    Spu,        \* the SPUs
    First,      \* the leader the scheduler gave the partition
    Up,         \* the SPUs that are up and know it already
    MaxLag,     \* a replica that is this far behind is no candidate (4)
    MaxWrites,  \* bound: batches produced
    MaxDrops,   \* bound: connections to the controller that are lost
    MaxQueue    \* the room for reports in the queue of the dispatcher (100)

ASSUME ElectionAssumption ==
    /\ IsFiniteSet(Spu) /\ Spu \subseteq Nat /\ First \in Spu /\ Up \subseteq Spu
    /\ MaxLag \in Nat /\ MaxWrites \in Nat /\ MaxDrops \in Nat /\ MaxQueue \in Nat

NoSpu == -1     \* no SPU: no leader was told, no status was reported
Unknown == -1   \* an offset nobody reported
Absent == -2    \* a replica the status does not list

VARIABLES
    conn,       \* conn[s]: s has a connection to the controller
    ghost,      \* ghost[s]: the controller still serves a lost connection of s
    health,     \* HealthCheck: the SPUs that are connected, as far as it knows
    online,     \* online[s]: the status of s: "init", "online" or "offline"
    dirty,      \* status changes the PartitionController has yet to see
    ctl,        \* the changes it is working on, and its actions so far
    queue,      \* actions on their way to the dispatcher of partitions
    leader,     \* spec.leader of the partition, in the controller's store
    status,     \* its status there
    written,    \* a leader in the files that the store does not have yet
    sent,       \* sent[s]: the leader that s was told last over its connection
    inbox,      \* inbox[s]: an update that s has yet to apply
    view,       \* view[s]: the leader in s's store of replicas; s leads if it is s
    known,      \* known[s][f]: the offsets of f, as leader s knows them
    report,     \* report[s]: what s has yet to tell the controller
    log, hw,    \* per SPU
    writes, drops

sc == <<health, online, dirty, ctl, queue, leader, status, written>>
links == <<conn, ghost, sent, inbox, drops>>
data == <<log, hw, writes>>
vars == <<sc, links, view, known, report, data>>

NoReport == [spu |-> NoSpu]

Leo(s) == Len(log[s])

AsOffset(s) == [hw |-> hw[s], leo |-> Leo(s)]

-----------------------------------------------------------------------------
(* The status of a partition and the choice of a leader. *)

NoStatus == [spu |-> NoSpu, leo |-> Unknown, replicas |-> [s \in Spu |-> Absent],
             resolution |-> "Offline"]

\* PartitionStatus::merge: the old leader becomes a replica, an offset that
\* is not known does not overwrite one that is, and the leader is no replica.
Merge(old, new) ==
    LET listed(s) == IF s = old.spu THEN old.leo ELSE old.replicas[s]
    IN  [spu |-> new.spu, leo |-> new.leo,
         replicas |-> [s \in Spu |->
             IF s = new.spu THEN Absent
             ELSE IF new.replicas[s] # Unknown THEN new.replicas[s]
             ELSE IF listed(s) # Absent THEN listed(s) ELSE Unknown],
         resolution |-> "Online"]

\* SimplePolicy::potential_leader_score.
Suitable(st, s) == st.replicas[s] # Absent /\ st.leo - st.replicas[s] < MaxLag

\* The score is a u16, so a replica that is ahead of the status comes last.
Score(st, s) == LET lag == st.leo - st.replicas[s] IN lag % 65536

\* The replicas candidate_leader looks at.
Candidates == {s \in Spu : online[s] = "online" /\ Suitable(status, s)}

\* candidate_leader: the least score, the first in the list among equals; the
\* list has the order of a hash map.
Best == {s \in Candidates : \A t \in Candidates : Score(status, s) <= Score(status, t)}

IsReadable == status.resolution = "Online"

-----------------------------------------------------------------------------
Idle == [off |-> {}, on |-> {}, actions |-> <<>>]

\* The SPUs in Up have connected, know the leader and have told it their end,
\* and it has told the controller.
Init ==
    LET zero == [hw |-> 0, leo |-> 0]
        ends == [f \in Spu |-> IF First \in Up /\ f \in Up \ {First} THEN zero ELSE DefaultInfo]
        up(yes, no) == [s \in Spu |-> IF s \in Up THEN yes ELSE no]
    IN  /\ conn = up(TRUE, FALSE) /\ ghost = [s \in Spu |-> FALSE]
        /\ health = up("up", "unknown") /\ online = up("online", "init")
        /\ dirty = {} /\ ctl = Idle /\ queue = <<>> /\ leader = First /\ written = NoSpu
        /\ sent = up(First, NoSpu) /\ inbox = [s \in Spu |-> NoSpu] /\ view = up(First, NoSpu)
        /\ known = [s \in Spu |-> IF s = First THEN ends ELSE [f \in Spu |-> DefaultInfo]]
        /\ report = [s \in Spu |-> NoReport]
        /\ log = [s \in Spu |-> <<>>] /\ hw = [s \in Spu |-> 0] /\ writes = 0 /\ drops = 0
        /\ status = IF First \in Up
                    THEN Merge(NoStatus, [spu |-> First, leo |-> 0,
                                          replicas |-> [f \in Spu |-> IF f = First THEN Absent
                                                                      ELSE ends[f].leo]])
                    ELSE NoStatus

-----------------------------------------------------------------------------
(* Connections between SPUs and the controller. *)

\* ScInternalService::respond: registration, health, and listeners that have
\* seen nothing.
Connect(s) ==
    /\ ~conn[s] /\ conn' = [conn EXCEPT ![s] = TRUE]
    /\ health' = [health EXCEPT ![s] = "up"]
    /\ sent' = [sent EXCEPT ![s] = NoSpu]
    /\ UNCHANGED <<ghost, inbox, drops, online, dirty, ctl, queue, leader, status, written,
                   view, known, report, data>>

\* The connection breaks: the SPU notices at once, a report on its way may be
\* lost.
Drop(s) ==
    /\ conn[s] /\ ~ghost[s] /\ drops < MaxDrops /\ drops' = drops + 1
    /\ conn' = [conn EXCEPT ![s] = FALSE] /\ ghost' = [ghost EXCEPT ![s] = TRUE]
    /\ inbox' = [inbox EXCEPT ![s] = NoSpu]
    /\ report' \in {report, [report EXCEPT ![s] = NoReport]}
    /\ UNCHANGED <<sc, sent, view, known, data>>

\* The controller's task for that connection ends, by an error or by the
\* health timer, perhaps after the SPU has connected again.
EndConnection(s) ==
    /\ ghost[s] /\ ghost' = [ghost EXCEPT ![s] = FALSE]
    /\ health' = [health EXCEPT ![s] = "down"]
    /\ UNCHANGED <<conn, sent, inbox, drops, online, dirty, ctl, queue, leader, status, written,
                   view, known, report, data>>

\* SpuController::sync_store, for one SPU.
SyncSpu(s) ==
    LET new == IF health[s] = "up" THEN "online" ELSE "offline"
    IN  /\ health[s] # "unknown" /\ online[s] # new
        /\ online' = [online EXCEPT ![s] = new] /\ dirty' = dirty \cup {s}
        /\ UNCHANGED <<links, health, ctl, queue, leader, status, written, view, known, report, data>>

-----------------------------------------------------------------------------
(* The PartitionController. *)

\* sync_spu_changes takes the changes.
TakeChanges ==
    /\ dirty # {} /\ ctl = Idle
    /\ ctl' = [Idle EXCEPT !.off = {s \in dirty : online[s] = "offline"},
                           !.on = {s \in dirty : online[s] = "online"}]
    /\ dirty' = {}
    /\ UNCHANGED <<links, health, online, queue, leader, status, written, view, known, report, data>>

NewLeader(s) == [op |-> "spec", leader |-> s]
NewResolution(r) == [op |-> "status", status |-> [status EXCEPT !.resolution = r]]

\* force_election_spu_off.
SpuOff(s) ==
    /\ s \in ctl.off
    /\ \/ /\ leader = s /\ \E c \in Best :
               ctl' = [ctl EXCEPT !.off = @ \ {s}, !.actions = Append(@, NewLeader(c))]
       \/ /\ leader = s /\ Best = {} /\ status.resolution = "Online"
          /\ ctl' = [ctl EXCEPT !.off = @ \ {s}, !.actions = Append(@, NewResolution("LeaderOffline"))]
       \/ /\ leader # s \/ (Best = {} /\ status.resolution # "Online")
          /\ ctl' = [ctl EXCEPT !.off = @ \ {s}]
    /\ UNCHANGED <<links, health, online, dirty, queue, leader, status, written, view, known, report, data>>

\* force_election_spu_on, after the SPUs that went off.
SpuOn(s) ==
    /\ ctl.off = {} /\ s \in ctl.on
    /\ LET actions == IF IsReadable THEN <<>>
                      ELSE IF leader = s THEN <<NewResolution("Online")>>
                      ELSE IF Suitable(status, s) THEN <<NewLeader(s)>> ELSE <<>>
       IN  ctl' = [ctl EXCEPT !.on = @ \ {s}, !.actions = @ \o actions]
    /\ UNCHANGED <<links, health, online, dirty, queue, leader, status, written, view, known, report, data>>

\* sync_spu_changes sends its actions.
SendActions ==
    /\ ctl.off = {} /\ ctl.on = {} /\ ctl.actions # <<>>
    /\ queue' = queue \o ctl.actions /\ ctl' = Idle
    /\ UNCHANGED <<links, health, online, dirty, leader, status, written, view, known, report, data>>

\* The dispatcher of partitions applies one action, process_ws_action.  It
\* writes with the revision the store has; SpecStore::apply refuses that while
\* the files have a later one, and the action is only logged.  The store gets
\* a new status at once.
ApplyAction ==
    /\ queue # <<>> /\ queue' = Tail(queue)
    /\ LET a == Head(queue)
       IN  \/ written # NoSpu /\ UNCHANGED <<written, status>>
           \/ written = NoSpu /\ a.op = "spec" /\ written' = a.leader /\ UNCHANGED status
           \/ written = NoSpu /\ a.op = "status" /\ status' = a.status /\ UNCHANGED written
    /\ UNCHANGED <<links, health, online, dirty, ctl, leader, view, known, report, data>>

\* The watch stream, or a reconciliation, brings a new leader to the store.
WatchSpec ==
    /\ written # NoSpu
    /\ leader' = written /\ written' = NoSpu
    /\ UNCHANGED <<links, health, online, dirty, ctl, queue, status, view, known, report, data>>

-----------------------------------------------------------------------------
(* The SPUs. *)

\* (slip: the connection's listener is not asked again after the first time)
SendSpec_slip(s) ==
    /\ conn[s] /\ inbox[s] = NoSpu /\ sent[s] = NoSpu
    /\ inbox' = [inbox EXCEPT ![s] = leader] /\ sent' = [sent EXCEPT ![s] = leader]
    /\ UNCHANGED <<sc, conn, ghost, drops, view, known, report, data>>

\* send_replica_spec_changes.
SendSpec(s) ==
    /\ conn[s] /\ inbox[s] = NoSpu /\ sent[s] # leader
    /\ inbox' = [inbox EXCEPT ![s] = leader] /\ sent' = [sent EXCEPT ![s] = leader]
    /\ UNCHANGED <<sc, conn, ghost, drops, view, known, report, data>>

\* as_lrs_request.
Report(s, end, ends) ==
    [spu |-> s, leo |-> end,
     replicas |-> [f \in Spu |-> IF f = s THEN Absent ELSE ends[f].leo]]

\* ids_to_map: a new leader knows nothing of its followers.
Followers == [f \in Spu |-> DefaultInfo]

\* apply_replica_actions: a leader is created and reports, or a follower is
\* promoted; a leader is demoted, or a follower is created or switched, and
\* all keep the log they have.
ReceiveSpec(s) ==
    /\ inbox[s] # NoSpu
    /\ view' = [view EXCEPT ![s] = inbox[s]] /\ inbox' = [inbox EXCEPT ![s] = NoSpu]
    /\ known' = IF inbox[s] = s /\ view[s] # s THEN [known EXCEPT ![s] = Followers] ELSE known
    /\ report' = IF inbox[s] = s /\ view[s] = NoSpu
                 THEN [report EXCEPT ![s] = Report(s, Leo(s), Followers)] ELSE report
    /\ UNCHANGED <<sc, conn, ghost, sent, drops, data>>

\* send_lrs_status_back_to_sc and receive_lrs_update: the status is merged
\* with the one in the store, whoever leads, and queued.
SendReport(s) ==
    /\ conn[s] /\ report[s] # NoReport /\ Len(queue) < MaxQueue
    /\ report' = [report EXCEPT ![s] = NoReport]
    /\ queue' = Append(queue, [op |-> "status", status |-> Merge(status, report[s])])
    /\ UNCHANGED <<links, health, online, dirty, ctl, leader, status, written, view, known, data>>

-----------------------------------------------------------------------------
(* Producing and replication, in short. *)

Produce(s) ==
    /\ view[s] = s /\ writes < MaxWrites /\ writes' = writes + 1
    /\ log' = [log EXCEPT ![s] = Append(@, writes + 1)]
    /\ report' = [report EXCEPT ![s] = Report(s, Leo(s) + 1, known[s])]
    /\ UNCHANGED <<sc, links, view, known, hw>>

\* (slip: a follower that was not heard of does not count)
HwAfter_slip(s, ends) ==
    LET heard == {f \in Spu \ {s} : ends[f] # DefaultInfo}
        new == ComputeHw(hw[s], Cardinality(heard) + 1, [f \in heard |-> ends[f].leo])
    IN  IF IsCommitted(AsOffset(s)) \/ new = None THEN hw[s] ELSE new

\* The leader's high watermark when it knows ends of its followers, all of
\* which count (in_sync_replica).
HwAfter(s, ends) ==
    LET new == ComputeHw(hw[s], Cardinality(Spu), [f \in Spu \ {s} |-> ends[f].leo])
    IN  IF IsCommitted(AsOffset(s)) \/ new = None THEN hw[s] ELSE new

\* A follower reports to the SPU it takes for its leader, if that one leads,
\* which drops a report of a follower that is ahead of it.
ReportOffset(f) ==
    LET s == view[f]
        ends == [known[s] EXCEPT ![f] = Update(@, AsOffset(f))]
    IN  /\ s \notin {f, NoSpu} /\ view[s] = s
        /\ ~Newer(AsOffset(f), AsOffset(s)) /\ ends # known[s]
        /\ known' = [known EXCEPT ![s] = ends]
        /\ hw' = [hw EXCEPT ![s] = HwAfter(s, ends)]
        /\ report' = [report EXCEPT ![s] = Report(s, Leo(s), ends)]
        /\ UNCHANGED <<sc, links, view, log, writes>>

\* The leader sends a follower it has valid offsets of what comes after them,
\* and its high watermark.
CopyBatch(f) ==
    LET s == view[f]
        end == known[s][f].leo
        copied == IF end < Leo(s) /\ end = Leo(f) THEN Append(log[f], log[s][end + 1]) ELSE log[f]
    IN  /\ s \notin {f, NoSpu} /\ view[s] = s
        /\ IsValid(known[s][f]) /\ ~IsSame(known[s][f], AsOffset(s))
        /\ log' = [log EXCEPT ![f] = copied]
        /\ hw' = [hw EXCEPT ![f] = IF @ < hw[s] /\ hw[s] <= Len(copied) THEN hw[s] ELSE @]
        /\ <<log', hw'>> # <<log, hw>>
        /\ UNCHANGED <<sc, links, view, known, report, writes>>

-----------------------------------------------------------------------------
Controller ==
    \/ TakeChanges \/ SendActions \/ ApplyAction \/ WatchSpec
    \/ \E s \in Spu : EndConnection(s) \/ SyncSpu(s) \/ SpuOff(s) \/ SpuOn(s)

Cluster ==
    \E s \in Spu : \/ SendSpec(s) \/ ReceiveSpec(s) \/ SendReport(s)
                   \/ ReportOffset(s) \/ CopyBatch(s)

Next == \/ Controller \/ Cluster
        \/ \E s \in Spu : Connect(s) \/ Drop(s) \/ Produce(s)

\* Tasks that have something to do do it; nothing makes an SPU connect or a
\* producer produce.
Fairness == WF_vars(Controller) /\ \A s \in Spu : /\ WF_vars(SendSpec(s)) /\ WF_vars(ReceiveSpec(s))
                                                  /\ WF_vars(SendReport(s))
                                                  /\ WF_vars(ReportOffset(s)) /\ WF_vars(CopyBatch(s))

Spec == Init /\ [][Next]_vars /\ Fairness

-----------------------------------------------------------------------------
(* Properties. *)

\* It is safe to elect any replica, however old the status is that the choice
\* was made from: whoever leads, two SPUs at a time perhaps, holds a batch for
\* every offset that any replica counts as committed, because a new leader
\* commits nothing before it heard of all its followers.
LeaderHasCommitted == \A s, t \in Spu : view[s] = s => hw[t] <= Leo(s)

\* "high water mark offset (records that has been replicated)": below the high
\* watermark of any replica all replicas hold the same batches.
ReplicasAgree == \A s, t \in Spu : \A i \in 1 .. hw[s] : log[t][i] = log[s][i]

\* Every SPU that stays connected ends up with the leader the controller has,
\* whatever leaders it was sent before and connections it lost, so that one of
\* them leads at most.
LeaderKnown == \A s \in Spu : (<>[]conn[s]) => <>[](view[s] = leader)

-----------------------------------------------------------------------------
(* The inductive invariant behind ElectionProofs. *)

Status == [spu : Spu \cup {NoSpu}, leo : Int, replicas : [Spu -> Int],
           resolution : {"Offline", "Online", "LeaderOffline"}]

Reports == [spu : Spu, leo : Int, replicas : [Spu -> Int]]

Actions == [op : {"spec"}, leader : Spu] \cup [op : {"status"}, status : Status]

TypeOK ==
    /\ conn \in [Spu -> BOOLEAN] /\ ghost \in [Spu -> BOOLEAN]
    /\ health \in [Spu -> {"unknown", "up", "down"}]
    /\ online \in [Spu -> {"init", "online", "offline"}]
    /\ dirty \subseteq Spu
    /\ ctl \in [off : SUBSET Spu, on : SUBSET Spu, actions : Seq(Actions)]
    /\ queue \in Seq(Actions) /\ leader \in Spu /\ status \in Status /\ written \in Spu \cup {NoSpu}
    /\ sent \in [Spu -> Spu \cup {NoSpu}] /\ inbox \in [Spu -> Spu \cup {NoSpu}]
    /\ view \in [Spu -> Spu \cup {NoSpu}] /\ known \in [Spu -> [Spu -> OffsetInfo]]
    /\ report \in [Spu -> Reports \cup {NoReport}]
    /\ log \in [Spu -> Seq(Nat)] /\ hw \in [Spu -> Nat] /\ writes \in Nat /\ drops \in Nat

\* What a leader was told of a follower, the follower and the leader itself
\* have, however often either was leader since.
KnownInv == \A s, f \in Spu : known[s][f].leo <= Leo(f) /\ known[s][f].leo <= Leo(s)

\* What any replica counts as committed is on all of them, leader or not.
CommittedInv == \A s, t \in Spu : hw[t] <= Leo(s)

IndInv == TypeOK /\ KnownInv /\ CommittedInv

=============================================================================
