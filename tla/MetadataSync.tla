---------------------------- MODULE MetadataSync ----------------------------
(***************************************************************************)
(* How the objects of one kind (topics, partitions, SPUs...) travel        *)
(* through a cluster: from the files of the cluster controller             *)
(* (LocalMetadataStorage, crates/fluvio-stream-dispatcher/src/metadata/    *)
(* local.rs) through the MetadataDispatcher task into its in-memory store  *)
(* (LocalStore over DualEpochMap, crates/fluvio-stream-model), and from    *)
(* there as changes since an epoch to an SPU (services/private_api/        *)
(* private_server.rs) or to a client (services/public_api/watch.rs), which *)
(* keep a copy.                                                            *)
(*                                                                         *)
(* Several tasks write the files: the dispatcher of the kind ("own") and   *)
(* those of related kinds ("related"): the owner's deletes its children, a *)
(* child's links and unlinks itself.  All write first and queue the update *)
(* afterwards, without a lock over the two, in a channel that holds        *)
(* Capacity updates and that only the kind's own dispatcher reads.  An     *)
(* object is its revision and the stamps of the writes that last set its   *)
(* spec and its status.                                                    *)
(***************************************************************************)
EXTENDS Integers, Sequences

CONSTANTS
    Key,            \* names of objects
    Permanent,      \* objects that are never deleted
    Kinds,          \* the subscriber may be one of: "spu", "client"
    Capacity,       \* MAX_UPDATES_CAPACITY
    MaxWrites,      \* bound: writes to the files
    MaxResyncs,     \* bound: times the reconciliation timer fires
    MaxReconnects,  \* bound: lost connections of the subscriber
    MaxInFlight     \* bound: messages on the connection

ASSUME MetadataAssumption ==
    /\ Permanent \subseteq Key /\ Kinds \subseteq {"spu", "client"} /\ Capacity \in Nat
    /\ MaxWrites \in Nat /\ MaxResyncs \in Nat /\ MaxReconnects \in Nat /\ MaxInFlight \in Nat

None == [absent |-> TRUE]

Object == [rev : Nat, spec : Nat, status : Nat]

VARIABLES
    data,       \* data[k]: the object in the files
    version,    \* the number of updates queued so far
    queue,      \* updates the watch stream has yet to deliver
    sending,    \* sending[w]: what writer w wrote and has yet to queue
    disp,       \* where the dispatcher is
    target,     \* the object of the status it is updating
    since,      \* the version its watch stream starts from
    store,      \* store[k]: the object in memory, with its three epochs
    epoch, fence, deleted,
    change,     \* the epoch published to listeners
    kind,       \* what the subscriber is
    last,       \* last_change of its listener
    chan,       \* messages on their way to it
    copy,       \* copy[k]: what it holds
    writes, resyncs, reconnects,
    born,       \* history: how often k was created
    crossed     \* history: keys of which an update was queued after a later one

files == <<data, version, queue, sending, writes, born, crossed>>
dispatcher == <<disp, target, since, resyncs>>
memory == <<store, epoch, fence, deleted>>
subscriber == <<kind, last, chan, copy, reconnects>>
vars == <<files, dispatcher, memory, change, subscriber>>

-----------------------------------------------------------------------------
(* DualEpochMap and LocalStore. *)

Stamped(obj, e) == [obj |-> obj, specEpoch |-> e, statusEpoch |-> e, metaEpoch |-> e]

\* (slip: the version of the object is not looked at)
Diff_slip(old, new) ==
    [spec |-> old.spec # new.spec, status |-> old.status # new.status, meta |-> old.rev # new.rev]

\* MetadataStoreObject::diff: nothing of an object that is older counts.
Diff(old, new) ==
    IF old.rev > new.rev THEN [spec |-> FALSE, status |-> FALSE, meta |-> FALSE]
    ELSE [spec |-> old.spec # new.spec, status |-> old.status # new.status,
          meta |-> old.rev # new.rev]

NoChange == [spec |-> FALSE, status |-> FALSE, meta |-> FALSE]

\* DualEpochMap::update of one entry in epoch e.
Updated(old, new, e) ==
    IF old = None THEN Stamped(new, e)
    ELSE LET diff == Diff(old.obj, new)
         IN  IF diff = NoChange THEN old
             ELSE [obj |-> new,
                   specEpoch |-> IF diff.spec THEN e ELSE old.specEpoch,
                   statusEpoch |-> IF diff.status THEN e ELSE old.statusEpoch,
                   metaEpoch |-> IF diff.meta THEN e ELSE old.metaEpoch]

\* LocalStore::apply_changes with one LSUpdate::Mod; without a change the
\* epoch is taken back.
ApplyMod(k, new) ==
    /\ store' = [store EXCEPT ![k] = Updated(@, new, epoch + 1)]
    /\ epoch' = IF store' = store THEN epoch ELSE epoch + 1
    /\ disp' = IF store' = store THEN "loop" ELSE "publish"
    /\ UNCHANGED <<fence, deleted>>

\* apply_changes with one LSUpdate::Delete, which counts as a change even if
\* there was nothing to delete.
ApplyDelete(k) ==
    /\ store' = [store EXCEPT ![k] = None]
    /\ epoch' = epoch + 1
    /\ deleted' = IF store[k] = None THEN deleted ELSE deleted \cup {<<k, epoch + 1>>}
    /\ disp' = "publish"
    /\ UNCHANGED fence

\* LocalStore::sync_all, with mark_fence at its end.
SyncAll(objects) ==
    /\ epoch' = epoch + 1
    /\ store' = [k \in Key |-> IF objects[k] = None THEN None
                               ELSE Updated(store[k], objects[k], epoch + 1)]
    /\ deleted' = {} /\ fence' = epoch + 1

-----------------------------------------------------------------------------
(* LocalMetadataStorage: the files. *)

Writers == {"own", "related"}

Unnumbered == -1

Init ==
    /\ data = [k \in Key |-> IF k \in Permanent THEN [rev |-> 0, spec |-> 0, status |-> 0] ELSE None]
    /\ version = 0 /\ queue = <<>> /\ sending = [w \in Writers |-> None]
    /\ disp = "retrieve" /\ since = 0 /\ target = None
    /\ store = [k \in Key |-> None] /\ epoch = 0 /\ fence = 0 /\ deleted = {} /\ change = 0
    /\ kind \in Kinds /\ last = 0 /\ chan = <<>> /\ copy = [k \in Key |-> None]
    /\ writes = 0 /\ resyncs = 0 /\ reconnects = 0
    /\ born = [k \in Key |-> IF k \in Permanent THEN 1 ELSE 0] /\ crossed = {}

\* SpecStore::apply up to send_update: a value older than the one in the
\* files is refused, any other becomes its next revision.
Write(w, k, value) ==
    /\ writes < MaxWrites /\ writes' = writes + 1
    /\ data[k] # None => data[k].rev <= value.rev
    /\ LET new == IF data[k] = None THEN value ELSE [value EXCEPT !.rev = data[k].rev + 1]
       IN  /\ data' = [data EXCEPT ![k] = new]
           /\ sending' = [sending EXCEPT ![w] = [op |-> "mod", key |-> k, obj |-> new, at |-> Unnumbered]]
    /\ born' = IF data[k] = None THEN [born EXCEPT ![k] = @ + 1] ELSE born
    /\ UNCHANGED <<version, queue, crossed>>

\* SpecStore::delete_item up to send_update.
Remove(w, k) ==
    /\ writes < MaxWrites /\ writes' = writes + 1
    /\ k \notin Permanent /\ data[k] # None
    /\ data' = [data EXCEPT ![k] = None]
    /\ sending' = [sending EXCEPT ![w] = [op |-> "del", key |-> k, obj |-> None, at |-> Unnumbered]]
    /\ UNCHANGED <<version, queue, born, crossed>>

\* send_update: the update gets the next store revision.
Number(w) ==
    /\ sending[w] # None /\ sending[w].at = Unnumbered
    /\ sending' = [sending EXCEPT ![w].at = version]
    /\ version' = version + 1
    /\ UNCHANGED <<data, queue, writes, born, crossed>>

\* It is queued once the channel has room.
Queue(w) ==
    LET u == sending[w]
        overtaken == /\ data[u.key] # u.obj
                     /\ \A v \in Writers \ {w} : sending[v] = None \/ sending[v].key # u.key
    IN  /\ u # None /\ u.at # Unnumbered
        /\ Len(queue) < Capacity
        /\ queue' = Append(queue, u)
        /\ sending' = [sending EXCEPT ![w] = None]
        /\ crossed' = IF overtaken THEN crossed \cup {u.key} ELSE crossed
        /\ UNCHANGED <<data, version, writes, born>>

\* delete_children, on the task of the owner's dispatcher.
OwnerDeletes(k) ==
    /\ sending["related"] = None
    /\ Remove("related", k)
    /\ UNCHANGED <<dispatcher, memory, change, subscriber>>

\* link_parent and unlink_parent, on the task of a child's dispatcher: the
\* parent is read and written back, with another list of children.
ChildLinks(k) ==
    /\ sending["related"] = None
    /\ data[k] # None /\ Write("related", k, data[k])
    /\ UNCHANGED <<dispatcher, memory, change, subscriber>>

RelatedSends ==
    /\ Number("related") \/ Queue("related")
    /\ UNCHANGED <<dispatcher, memory, change, subscriber>>

-----------------------------------------------------------------------------
(* The MetadataDispatcher. *)

\* retrieve_all_k8_items, then a watch stream from the version of the list.
RetrieveAll ==
    /\ disp = "retrieve"
    /\ SyncAll(data)
    /\ since' = version
    /\ crossed' = {}
    /\ disp' = "publish"
    /\ UNCHANGED <<data, version, queue, sending, writes, born, target, resyncs, change, subscriber>>

\* (slip: the epoch as it was before the change)
Publish_slip ==
    /\ disp = "publish"
    /\ change' = epoch - 1
    /\ disp' = "loop"
    /\ UNCHANGED <<files, target, since, resyncs, memory, subscriber>>

\* The end of apply_changes and sync_all: the epoch is published when the
\* store's lock is released again.
Publish ==
    /\ disp = "publish"
    /\ change' = epoch
    /\ disp' = "loop"
    /\ UNCHANGED <<files, target, since, resyncs, memory, subscriber>>

\* The reconciliation timer fires.
Reconcile ==
    /\ disp = "loop" /\ resyncs < MaxResyncs
    /\ resyncs' = resyncs + 1
    /\ disp' = "retrieve"
    /\ UNCHANGED <<files, target, since, memory, change, subscriber>>

\* The next update of the watch stream; those before its version are skipped.
WatchNext ==
    /\ disp = "loop" /\ queue # <<>>
    /\ queue' = Tail(queue)
    /\ LET u == Head(queue)
       IN  \/ u.at < since /\ UNCHANGED <<memory, disp>>
           \/ u.at >= since /\ u.op = "mod" /\ ApplyMod(u.key, u.obj)
           \/ u.at >= since /\ u.op = "del" /\ ApplyDelete(u.key)
    /\ UNCHANGED <<data, version, sending, writes, born, crossed, target, since, resyncs, change,
                   subscriber>>

\* WSAction::Apply: an object with a new context.
Apply(k) ==
    /\ disp = "loop" /\ disp' = "send"
    /\ Write("own", k, [rev |-> 0, spec |-> writes + 1, status |-> 0])
    /\ UNCHANGED <<target, since, resyncs, memory, change, subscriber>>

\* WSAction::UpdateSpec: with the revision of the store if it has the object,
\* or else with the one in the files.
UpdateSpec(k) ==
    LET known == store[k] # None
        rev == IF known THEN store[k].obj.rev ELSE IF data[k] # None THEN data[k].rev ELSE 0
        status == IF data[k] # None THEN data[k].status ELSE 0
    IN  /\ disp = "loop" /\ disp' = "send"
        /\ Write("own", k, [rev |-> rev, spec |-> writes + 1, status |-> status])
        /\ UNCHANGED <<target, since, resyncs, memory, change, subscriber>>

\* WSAction::UpdateStatus: with the revision of the store.
UpdateStatus(k) ==
    /\ disp = "loop" /\ disp' = "send" /\ target' = k
    /\ store[k] # None /\ data[k] # None
    /\ Write("own", k, [data[k] EXCEPT !.rev = store[k].obj.rev, !.status = writes + 1])
    /\ UNCHANGED <<since, resyncs, memory, change, subscriber>>

\* WSAction::Delete and WSAction::DeleteFinal, when unlinking the object from
\* its parent did not fail.
Delete(k) ==
    /\ disp = "loop" /\ disp' = "send"
    /\ store[k] # None
    /\ Remove("own", k)
    /\ UNCHANGED <<target, since, resyncs, memory, change, subscriber>>

\* The action's send_update.
ActionNumbers ==
    /\ disp = "send" /\ Number("own")
    /\ UNCHANGED <<dispatcher, memory, change, subscriber>>

ActionQueues ==
    /\ disp = "send" /\ Queue("own")
    /\ disp' = IF target = None THEN "loop" ELSE "reread"
    /\ UNCHANGED <<target, since, resyncs, memory, change, subscriber>>

\* update_status goes on: the object is read back and applied to the store
\* at once, ahead of the updates the watch stream has yet to deliver.
StatusApplied ==
    /\ disp = "reread" /\ target' = None
    /\ IF data[target] = None THEN disp' = "loop" /\ UNCHANGED memory
       ELSE ApplyMod(target, data[target])
    /\ UNCHANGED <<files, since, resyncs, change, subscriber>>

-----------------------------------------------------------------------------
(* The subscriber's side: a task of the controller that follows the store, *)
(* and the copy at the other end of its connection.                        *)

View(obj) == IF kind = "spu" THEN [spec |-> obj.spec] ELSE [spec |-> obj.spec, status |-> obj.status]

\* The filter: an SPU is sent changes of the spec, a client all of them.
ChangedSince(entry, e) ==
    \/ entry.specEpoch > e
    \/ kind = "client" /\ (entry.statusEpoch > e \/ entry.metaEpoch > e)

\* (slip: a listener from before the fence gets the changes since the fence)
ChangesSince_slip(e) ==
    [all |-> FALSE,
     updates |-> {k \in Key : store[k] # None /\ ChangedSince(store[k], e)},
     deletes |-> {d[1] : d \in {x \in deleted : x[2] > e}}]

\* changes_since_with_filter.
ChangesSince(e) ==
    IF e < fence
    THEN [all |-> TRUE, updates |-> {k \in Key : store[k] # None}, deletes |-> {}]
    ELSE [all |-> FALSE,
          updates |-> {k \in Key : store[k] # None /\ ChangedSince(store[k], e)},
          deletes |-> {d[1] : d \in {x \in deleted : x[2] > e}}]

\* The message that says so.
Changes(c) == [all |-> c.all, deletes |-> c.deletes,
               updates |-> [k \in Key |-> IF k \in c.updates THEN View(store[k].obj) ELSE None]]

\* send_spu_spec_changes, or sync_and_send_changes of a watch, which does not
\* look for a change before its first round.  An SPU is not sent an empty
\* list; a client is, and ignores it.
SendChanges ==
    LET c == ChangesSince(last)
    IN  /\ change > last \/ (kind = "client" /\ last = 0 /\ epoch > 0)
        /\ Len(chan) < MaxInFlight
        /\ last' = epoch
        /\ chan' = IF c.updates \cup c.deletes = {} THEN chan ELSE Append(chan, Changes(c))
        /\ UNCHANGED <<files, dispatcher, memory, change, kind, copy, reconnects>>

\* The objects a message is about, and what it says of one.
Touches(m, k) == m.all \/ k \in m.deletes \/ m.updates[k] # None
Said(m, k) == IF k \in m.deletes THEN None ELSE m.updates[k]

\* The copy after a message: the whole list, or updates and then deletes.
Applied(m) == [k \in Key |-> IF Touches(m, k) THEN Said(m, k) ELSE copy[k]]

\* handle_update_spu_request, or sync_metadata of a client.
Receive ==
    /\ chan # <<>>
    /\ chan' = Tail(chan)
    /\ copy' = Applied(Head(chan))
    /\ UNCHANGED <<files, dispatcher, memory, change, kind, last, reconnects>>

\* The connection is lost and opened again, with a new listener; an SPU goes
\* on with its copy, a client starts anew.
Reconnect ==
    /\ reconnects < MaxReconnects /\ reconnects' = reconnects + 1
    /\ last' = 0 /\ chan' = <<>>
    /\ copy' = IF kind = "spu" THEN copy ELSE [k \in Key |-> None]
    /\ UNCHANGED <<files, dispatcher, memory, change, kind>>

-----------------------------------------------------------------------------
Dispatch ==
    \/ RetrieveAll \/ Publish \/ WatchNext \/ ActionNumbers \/ ActionQueues \/ StatusApplied

Action(k) == Apply(k) \/ UpdateSpec(k) \/ UpdateStatus(k) \/ Delete(k)

Next ==
    \/ Dispatch \/ Reconcile
    \/ \E k \in Key : Action(k) \/ OwnerDeletes(k) \/ ChildLinks(k)
    \/ RelatedSends
    \/ SendChanges \/ Receive \/ Reconnect

Spec == Init /\ [][Next]_vars

\* Every task that can go on does; a subscriber reads what it is sent.
FairSpec ==
    /\ Spec
    /\ WF_vars(Dispatch) /\ WF_vars(RelatedSends)
    /\ WF_vars(SendChanges) /\ WF_vars(Receive)

-----------------------------------------------------------------------------
(* Properties. *)

(***************************************************************************)
(* A subscriber that was sent everything up to the current epoch and has   *)
(* read it holds what the store holds, although the history behind the     *)
(* changes is cut at every reconciliation and connections start over.  Two *)
(* exceptions are the code's: an object deleted and created again since    *)
(* the last reconciliation (the changes name it twice, and the deletion    *)
(* comes last), and, ruled out by Permanent, a store that becomes empty at *)
(* a reconciliation (an SPU is not sent the empty list).                   *)
(***************************************************************************)
CopyCurrent ==
    last = epoch /\ chan = <<>> =>
        \A k \in Key :
            IF store[k] = None THEN copy[k] = None
            ELSE copy[k] = View(store[k].obj) \/ \E e \in 1..epoch : <<k, e>> \in deleted

(***************************************************************************)
(* The store never takes an object back to an earlier revision, although   *)
(* the result of a status update overtakes the watch stream.               *)
(***************************************************************************)
StoreMovesForward ==
    [][\A k \in Key : store[k] # None /\ store'[k] # None
                          => store'[k].obj.rev >= store[k].obj.rev]_vars

\* The dispatcher waits for room in a channel that nobody else reads.
Stuck == disp = "send" /\ Len(queue) = Capacity

(***************************************************************************)
(* Once writes, reconciliations and lost connections end, the files, the   *)
(* store and the copy agree, except on an object that was created twice or *)
(* of which two tasks queued updates in the wrong order; or the dispatcher *)
(* is stuck for good behind its own full channel, and only then.           *)
(***************************************************************************)
Converges ==
    <>[](\/ Stuck
         \/ \A k \in Key :
               \/ born[k] > 1 \/ k \in crossed
               \/ data[k] = None /\ store[k] = None /\ copy[k] = None
               \/ store[k] # None /\ store[k].obj = data[k] /\ copy[k] = View(data[k]))

-----------------------------------------------------------------------------
(* The invariant behind MetadataSyncProofs. *)

Entry == [obj : Object, specEpoch : Nat, statusEpoch : Nat, metaEpoch : Nat]

\* Writes on their way to the queue, and updates in it.
Pending ==
    [op : {"mod"}, key : Key, obj : Object, at : Nat \cup {Unnumbered}]
        \cup [op : {"del"}, key : Key \ Permanent, obj : {None}, at : Nat \cup {Unnumbered}]

Update ==
    [op : {"mod"}, key : Key, obj : Object, at : Nat]
        \cup [op : {"del"}, key : Key \ Permanent, obj : {None}, at : Nat]

Views == [spec : Nat] \cup [spec : Nat, status : Nat]

Message == [all : BOOLEAN, deletes : SUBSET Key, updates : [Key -> Views \cup {None}]]

TypeOK ==
    /\ data \in [Key -> Object \cup {None}] /\ version \in Nat /\ queue \in Seq(Update)
    /\ sending \in [Writers -> Pending \cup {None}]
    /\ disp \in {"retrieve", "publish", "loop", "send", "reread"}
    /\ target \in Key \cup {None} /\ (disp = "reread" => target \in Key) /\ since \in Nat
    /\ store \in [Key -> Entry \cup {None}] /\ epoch \in Nat /\ fence \in Nat
    /\ deleted \subseteq Key \X Nat /\ change \in Nat
    /\ kind \in {"spu", "client"} /\ last \in Nat
    /\ chan \in Seq(Message) /\ copy \in [Key -> Views \cup {None}]
    /\ writes \in Nat /\ resyncs \in Nat /\ reconnects \in Nat
    /\ born \in [Key -> Nat] /\ crossed \subseteq Key

\* Nothing is newer than the epoch, a listener included.
EpochInv ==
    /\ fence <= epoch /\ last <= epoch
    /\ \A d \in deleted : d[2] > 0 /\ d[2] <= epoch
    /\ \A k \in Key : store[k] # None => /\ store[k].specEpoch <= epoch
                                         /\ store[k].statusEpoch <= epoch
                                         /\ store[k].metaEpoch <= epoch

\* Before the first reconciliation there is nothing; from then on objects that
\* are never deleted are there.
FenceInv ==
    IF fence = 0
    THEN /\ disp = "retrieve" /\ epoch = 0 /\ chan = <<>>
         /\ \A k \in Key : store[k] = None /\ copy[k] = None
    ELSE \A k \in Permanent : store[k] # None

PermanentInv == \A k \in Permanent : data[k] # None

\* v is what the subscriber holds of k once it has read what was sent.
Arriving(k, v) ==
    \/ v = copy[k] /\ \A i \in 1 .. Len(chan) : ~Touches(chan[i], k)
    \/ \E i \in 1 .. Len(chan) : /\ Touches(chan[i], k) /\ v = Said(chan[i], k)
                                 /\ \A j \in (i + 1) .. Len(chan) : ~Touches(chan[j], k)

WasDeleted(k) == \E d \in deleted : d[1] = k

\* What the store's next changes for the subscriber will name.
Unsent(k) == IF store[k] = None THEN \E d \in deleted : d[1] = k /\ d[2] > last
             ELSE ChangedSince(store[k], last)

Wanted(k) == IF store[k] = None THEN None ELSE View(store[k].obj)

\* The subscriber has been sent what the store holds of k, or will be.
FollowInv ==
    \A k \in Key : \/ last < fence \/ Unsent(k)
                   \/ store[k] # None /\ WasDeleted(k)
                   \/ Arriving(k, Wanted(k))

IndInv == TypeOK /\ EpochInv /\ FenceInv /\ PermanentInv /\ FollowInv

=============================================================================
