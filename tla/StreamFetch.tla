---------------------------- MODULE StreamFetch ----------------------------
(***************************************************************************)
(* A consumer's stream over one partition: the StreamFetchHandler task of  *)
(* the leader SPU (crates/fluvio-spu/src/services/public/stream_fetch.rs), *)
(* the task that serves the consumer's connection (offset_update.rs) and   *)
(* the client's side of the stream (crates/fluvio/src/consumer/mod.rs).    *)
(*                                                                         *)
(* The handler sends batches and waits until the consumer returns the      *)
(* offset to go on from.  Offsets reach it through two OffsetPublishers,   *)
(* one for the partition and one for the consumer; as OffsetPublisher      *)
(* shows, an update is a store followed by a notification, and a listener  *)
(* that saw the store on its own is woken by the notification once more.   *)
(*                                                                         *)
(* An offset counts batches.  With a SmartModule some batches pass, some   *)
(* come out empty and some make it fail.                                   *)
(***************************************************************************)
EXTENDS Integers, Sequences, FiniteSets, FiniteSetsExt

CONSTANTS
    SmartModules, \* may the consumer apply a SmartModule: TRUE, FALSE or both
    Passing,      \* batches of which the SmartModule lets records through
    Failing,      \* batches on which the SmartModule reports an error
    Big,          \* batches that by themselves exceed max_bytes
    SegmentBase,  \* offsets at which a segment of the log starts
    MayStop,      \* bound: may the stream end early, by the consumer or an error?
    MaxEnd        \* bound: the readable end of the partition

ASSUME StreamAssumption ==
    /\ SmartModules \subseteq BOOLEAN /\ MayStop \in BOOLEAN /\ MaxEnd \in Nat
    /\ Passing \subseteq Nat /\ Failing \subseteq Nat
    /\ Big \subseteq Nat /\ SegmentBase \subseteq Nat

None == -3             \* no offset is known
INIT_OFFSET == -1      \* the consumer's publisher before its first offset
TOPIC_DELETED == -2    \* the value that tells a stream to end

VARIABLES
    smart,      \* the request has a SmartModule
    start,      \* fetch_offset of the request
    end,        \* the end of what may be read (hw or leo, by the isolation)
    advancing,  \* end is stored and published, its listeners not yet notified
    ack,        \* the value of the consumer's offset publisher
    acking,     \* the same of an offset the consumer returned
    signal,     \* the signal that the replica goes away: "no", "stored", "sent"
    pc,         \* where the handler is
    from,       \* the offset it sends from
    lastPart,   \* last_partition_offset
    lastKnown,  \* last_known_consumer_offset
    consLast, leadLast,  \* last_value of the two listeners
    woken,      \* listeners notified while the handler waits
    responses,  \* responses on their way to the consumer
    acks,       \* offsets on their way back
    sent,       \* batches of which the handler has sent what passes
    received,   \* batches the consumer has received
    failed      \* the consumer was told of a SmartModule error

partition == <<end, advancing>>
consumerOffset == <<ack, acking, signal>>
handler == <<pc, from, lastPart, lastKnown, consLast, leadLast, woken>>
client == <<received, failed>>
request == <<smart, start>>
vars == <<request, partition, consumerOffset, handler, responses, acks, sent, client>>

Passes(o) == smart => o \in Passing

-----------------------------------------------------------------------------
(* Reading and sending. *)

\* read_records ends at the end of the segment the offset is in.
SliceEnd(s) == Min({end} \cup {b \in SegmentBase : b > s})

Sendable(s, m) == {o \in s..(m - 1) : Passes(o)}

\* Where a response that starts at s may end.  A raw slice is cut at
\* max_bytes, and a batch that is cut is not decoded.
RawEnds(s) ==
    {m \in s..SliceEnd(s) : /\ \A o \in s..(m - 1) : o \notin Big
                            /\ m = s => s \in Big}

\* process_batch goes on until the output is too large or the SmartModule
\* reports an error, with what has passed so far.
SmartEnds(s) ==
    {m \in s..SliceEnd(s) :
        /\ \A o \in s..(m - 2) : o \notin Failing
        /\ \A o \in s..(m - 1) : ~(o \in Big /\ Passes(o))
        /\ \/ m = SliceEnd(s)
           \/ m > s /\ m - 1 \in Failing
           \/ Passes(m) /\ (Sendable(s, m) = {} => m \in Big)}

\* (slip: the consumer is told to go on from the end of the partition)
Response_slip(s, m) ==
    [batches |-> Sendable(s, m), next |-> end, error |-> FALSE]

\* What the consumer gets, and next_offset_for_fetch of it.  The batch that
\* did not fit was processed too.
Response(s, m) ==
    LET processed == s..(m - 1) \cup ({m} \ {SliceEnd(s)})
        err == smart /\ processed \cap Failing # {}
        next == IF ~smart THEN IF m = s THEN None ELSE m
                ELSE IF Sendable(s, m) # {} THEN m ELSE end
    IN  [batches |-> Sendable(s, m), next |-> next, error |-> err]

\* (next offset, consumer wait) of send_back_records.
Outcome(s, m) ==
    LET r == Response(s, m)
    IN  IF s = SliceEnd(s) THEN [offset |-> s, wait |-> FALSE]
        ELSE [offset |-> end,
              wait |-> smart => r.batches # {} \/ r.error]

-----------------------------------------------------------------------------
Init ==
    /\ smart \in SmartModules
    /\ end \in 0..MaxEnd
    /\ start \in 0..end
    /\ advancing = FALSE
    /\ ack = INIT_OFFSET /\ acking = FALSE /\ signal = "no"
    /\ pc = "open" /\ from = start /\ lastPart = 0 /\ lastKnown = None
    /\ consLast = 0 /\ leadLast = 0 /\ woken = {}
    /\ responses = <<>> /\ acks = <<>>
    /\ sent = {} /\ received = {} /\ failed = FALSE

\* register_offset_publisher, after the leader was found; process begins by
\* sending from fetch_offset.
Register ==
    /\ pc = "open"
    /\ pc' = "send"
    /\ UNCHANGED <<request, partition, consumerOffset, from, lastPart, lastKnown, consLast,
                   leadLast, woken, responses, acks, sent, client>>

\* send_back_records, and what process does with its result.  The read takes
\* the lock that is held while the partition's new end is published.
SendBackRecords ==
    /\ pc = "send" /\ ~advancing
    /\ \E m \in IF smart THEN SmartEnds(from)
               ELSE RawEnds(from) \cup ({from} \cap {end}) :
        LET out == Outcome(from, m)
        IN  /\ lastPart' = out.offset
            /\ lastKnown' = IF out.wait THEN None ELSE out.offset
            /\ responses' = IF out.wait THEN Append(responses, Response(from, m)) ELSE responses
            /\ sent' = IF out.wait THEN sent \cup Sendable(from, m) ELSE sent
    /\ pc' = "poll"
    /\ UNCHANGED <<request, partition, consumerOffset, from, consLast, leadLast, woken,
                   acks, client>>

\* A branch of the select! is ready: its listener has a new value when it is
\* polled first, or was notified while the task waited.
Ready(listener, value, last) ==
    \/ pc = "poll" /\ value # last
    \/ pc = "wait" /\ listener \in woken

\* (slip: an offset that is behind is only remembered)
ConsumerUpdate_slip ==
    /\ Ready("consumer", ack, consLast)
    /\ consLast' = ack /\ woken' = {}
    /\ pc' = IF ack = TOPIC_DELETED THEN "done" ELSE "poll"
    /\ lastKnown' = IF ack >= 0 THEN ack ELSE lastKnown
    /\ UNCHANGED <<request, partition, consumerOffset, from, lastPart, leadLast, responses,
                   acks, sent, client>>

\* The branch of the consumer's offset.
ConsumerUpdate ==
    /\ Ready("consumer", ack, consLast)
    /\ consLast' = ack /\ woken' = {}
    /\ \/ /\ ack \in {INIT_OFFSET, TOPIC_DELETED}
          /\ pc' = IF ack = TOPIC_DELETED THEN "done" ELSE "poll"
          /\ UNCHANGED <<from, lastKnown>>
       \/ /\ ack \notin {INIT_OFFSET, TOPIC_DELETED} /\ ack >= lastPart
          /\ pc' = "poll" /\ lastKnown' = ack
          /\ UNCHANGED from
       \/ /\ ack \notin {INIT_OFFSET, TOPIC_DELETED} /\ ack < lastPart
          /\ pc' = "send" /\ from' = ack
          /\ UNCHANGED lastKnown
    /\ UNCHANGED <<request, partition, consumerOffset, lastPart, leadLast, responses, acks,
                   sent, client>>

\* The branch of the partition's end.
LeaderUpdate ==
    /\ Ready("leader", end, leadLast)
    /\ leadLast' = end /\ woken' = {}
    /\ IF lastKnown = None \/ end <= lastKnown
       THEN pc' = "poll" /\ lastPart' = end /\ UNCHANGED from
       ELSE pc' = "send" /\ from' = lastKnown /\ UNCHANGED lastPart
    /\ UNCHANGED <<request, partition, consumerOffset, lastKnown, consLast, responses, acks,
                   sent, client>>

\* Neither listener has news: both are registered and the task waits.
Wait ==
    /\ pc = "poll" /\ ack = consLast /\ end = leadLast
    /\ pc' = "wait" /\ woken' = {}
    /\ UNCHANGED <<request, partition, consumerOffset, from, lastPart, lastKnown, consLast,
                   leadLast, responses, acks, sent, client>>

\* The connection's end event, or an error of a read or of the SmartModule.
Stop ==
    /\ MayStop /\ pc \in {"send", "poll", "wait"}
    /\ pc' = "done"
    /\ UNCHANGED <<request, partition, consumerOffset, from, lastPart, lastKnown, consLast,
                   leadLast, woken, responses, acks, sent, client>>

-----------------------------------------------------------------------------
(* The tasks around it. *)

Woken(listener) == IF pc = "wait" THEN woken \cup {listener} ELSE woken

\* More may be read; the publisher is updated while the storage is locked.
Advance ==
    /\ ~advancing
    /\ end' \in (end + 1)..MaxEnd
    /\ advancing' = TRUE
    /\ UNCHANGED <<request, consumerOffset, handler, responses, acks, sent, client>>

AdvanceNotify ==
    /\ advancing
    /\ advancing' = FALSE
    /\ woken' = Woken("leader")
    /\ UNCHANGED <<request, end, consumerOffset, pc, from, lastPart, lastKnown, consLast, leadLast,
                   responses, acks, sent, client>>

\* signal_topic_deleted, when the replica is removed or demoted; a stream that
\* is not registered yet is not told.
SignalTopicDeleted ==
    /\ signal = "no"
    /\ IF pc = "open" THEN signal' = "sent" /\ UNCHANGED ack
       ELSE signal' = "stored" /\ ack' = TOPIC_DELETED
    /\ UNCHANGED <<request, partition, acking, handler, responses, acks, sent, client>>

\* (slip: the value is stored and nobody is told)
SignalNotify_slip ==
    /\ signal = "stored"
    /\ signal' = "sent"
    /\ UNCHANGED <<request, partition, ack, acking, handler, responses, acks, sent, client>>

SignalNotify ==
    /\ signal = "stored"
    /\ signal' = "sent"
    /\ woken' = Woken("consumer")
    /\ UNCHANGED <<request, partition, ack, acking, pc, from, lastPart, lastKnown, consLast, leadLast,
                   responses, acks, sent, client>>

\* handle_offset_update, on the task of the connection.
HandleOffsetUpdate ==
    /\ acks # <<>> /\ ~acking
    /\ ack' = Head(acks) /\ acks' = Tail(acks)
    /\ acking' = TRUE
    /\ UNCHANGED <<request, partition, signal, handler, responses, sent, client>>

OffsetUpdateNotify ==
    /\ acking
    /\ acking' = FALSE
    /\ woken' = Woken("consumer")
    /\ UNCHANGED <<request, partition, ack, signal, pc, from, lastPart, lastKnown, consLast, leadLast,
                   responses, acks, sent, client>>

\* The client takes a response and returns next_offset_for_fetch.
ClientReceive ==
    LET r == Head(responses)
    IN  /\ responses # <<>>
        /\ responses' = Tail(responses)
        /\ received' = received \cup r.batches
        /\ failed' = (failed \/ r.error)
        /\ acks' = IF r.next = None THEN acks ELSE Append(acks, r.next)
        /\ UNCHANGED <<request, partition, consumerOffset, handler, sent>>

HandlerNext == Register \/ SendBackRecords \/ ConsumerUpdate \/ LeaderUpdate \/ Wait

Next ==
    \/ HandlerNext \/ Stop
    \/ Advance \/ AdvanceNotify
    \/ SignalTopicDeleted \/ SignalNotify
    \/ HandleOffsetUpdate \/ OffsetUpdateNotify
    \/ ClientReceive

Spec == Init /\ [][Next]_vars

\* Tasks that can go on do, and the consumer keeps polling its stream.
FairSpec ==
    /\ Spec
    /\ WF_vars(HandlerNext) /\ WF_vars(AdvanceNotify) /\ WF_vars(SignalNotify)
    /\ WF_vars(HandleOffsetUpdate) /\ WF_vars(OffsetUpdateNotify) /\ WF_vars(ClientReceive)

-----------------------------------------------------------------------------
(* Properties. *)

(***************************************************************************)
(* "We need to send the consumer all records since the last consumer       *)
(* offset": whatever lies below the offset the handler goes on from was    *)
(* sent, and whatever lies below an offset the consumer returned was       *)
(* received.                                                               *)
(***************************************************************************)
NothingSkipped ==
    failed \/ /\ lastKnown # None => Sendable(start, lastKnown) \subseteq sent
              /\ Sendable(start, ack) \subseteq received

(***************************************************************************)
(* Every batch that passes reaches the consumer, or the stream ends: no    *)
(* order of produced records, returned offsets and notifications makes the *)
(* handler wait for a consumer that waits for the handler.                 *)
(***************************************************************************)
EverythingDelivered ==
    <>[](pc = "done" \/ failed \/ signal # "no" \/ Sendable(start, end) \subseteq received)

(***************************************************************************)
(* "Signal connected consumers before demotion so they disconnect and      *)
(* reconnect to the new leader": a stream whose publisher holds the signal *)
(* ends, wherever its handler is, unless an offset the consumer returns    *)
(* overwrites the signal first.                                            *)
(***************************************************************************)
SignalEndsStream == ack = TOPIC_DELETED ~> (pc = "done" \/ ack # TOPIC_DELETED)
=============================================================================
