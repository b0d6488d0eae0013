------------------------------ MODULE Storage ------------------------------
(***************************************************************************)
(* The log of one replica on disk (crates/fluvio-storage): FileReplica     *)
(* with its active segment, the list of closed segments, their sparse      *)
(* indexes, the lookup of an offset, rolling over, the cleaner task, and   *)
(* what a process that died finds when it loads the directory again.       *)
(*                                                                         *)
(* FileReplica is used under a lock (SharableReplicaStorage), so one read  *)
(* or write runs at a time; the cleaner shares only the list of closed     *)
(* segments, the cached first offset and the sizes with it, and runs       *)
(* between any two steps.  A batch of n records takes Bytes(n) bytes;      *)
(* positions are byte positions.                                           *)
(***************************************************************************)
EXTENDS Integers, Sequences, FiniteSets, FiniteSetsExt, SequencesExt

CONSTANTS
    BatchLens,      \* how many records a batch may have
    MaxBatches,     \* bound: batches of one write
    SegmentMax,     \* segment_max_bytes
    RequestMax,     \* max_request_size
    PartitionMax,   \* max_partition_size
    IndexInterval,  \* index_max_interval_bytes
    Modulus,        \* of Size, the unsigned type of lengths and positions
    MaxLeo,         \* bound: offsets written
    MaxCrashes,     \* bound: times the process dies
    MaxFailures     \* bound: writes the disk refuses

ASSUME StorageAssumption ==
    /\ BatchLens \subseteq Nat \ {0} /\ MaxBatches \in Nat
    /\ SegmentMax \in Nat \ {0} /\ RequestMax \in Nat /\ PartitionMax \in Nat
    /\ IndexInterval \in Nat \ {0}
    /\ Modulus \in Nat /\ SegmentMax < Modulus   \* segment_max_bytes is a Size
    /\ MaxLeo \in Nat /\ MaxCrashes \in Nat /\ MaxFailures \in Nat

None == [absent |-> TRUE]

VARIABLES
    active,     \* the segment being written
    prev,       \* closed segments, as in the list (a set: their bases order them)
    rolling,    \* a segment that is closed and not in the list yet, or None
    minOffset,  \* SharedSegments.min_offset, read without the lock
    size,       \* ReplicaSize: what the cleaner goes by
    hw, chk,    \* the high watermark, and the one in the checkpoint file
    short,      \* short_circuit
    torn,       \* the active file has part of a batch after this many batches
    writing,    \* a write has begun
    todo,       \* its batches that are yet to be written
    toEnd,      \* update_highwatermark of that write
    clean,      \* the cleaner task
    doomed,     \* segments taken from the list whose files still exist
    acked,      \* history: the end of the last write that succeeded
    crashes, failures

log == <<active, prev, rolling, minOffset, torn, doomed>>
writer == <<writing, todo, toEnd, short, acked, failures>>
vars == <<log, size, hw, chk, writer, clean, crashes>>

-----------------------------------------------------------------------------
(* Segments: batches with their offsets and positions, and an index. *)

NotTorn == -1

Bytes(n) == n + 1   \* header and records

EmptySegment(base) == [base |-> base, batches |-> <<>>, index |-> <<>>, unindexed |-> 0]

EndOffset(seg) == IF seg.batches = <<>> THEN seg.base
                  ELSE Last(seg.batches).offset + Last(seg.batches).n

FileLen(seg) == IF seg.batches = <<>> THEN 0
                ELSE Last(seg.batches).pos + Bytes(Last(seg.batches).n)

\* Index entries count 1; a closed segment's index has room for at least one.
OccupiedActive(seg) == FileLen(seg) + Len(seg.index)
OccupiedClosed(seg) == FileLen(seg) + IF seg.index = <<>> THEN 1 ELSE Len(seg.index)
OccupiedPrev(segs) == MapThenSumSet(OccupiedClosed, segs)

\* MutLogIndex::write_index: an entry once enough bytes went by without one.
Indexed(seg) == seg.unindexed >= IndexInterval

\* MutableSegment::append_batch, when MutFileRecords has room for it.
AppendBatch(seg, n) ==
    [seg EXCEPT
       !.batches = Append(@, [offset |-> EndOffset(seg), n |-> n, pos |-> FileLen(seg)]),
       !.index = IF Indexed(seg)
                 THEN Append(@, [delta |-> EndOffset(seg) - seg.base, pos |-> FileLen(seg)])
                 ELSE @,
       !.unindexed = IF Indexed(seg) THEN 0 ELSE @ + Bytes(n)]

HasRoom(seg, n) == FileLen(seg) + Bytes(n) <= SegmentMax

Closed(seg) == [seg EXCEPT !.unindexed = 0]

MinBase(segs) == IF segs = {} THEN -1 ELSE Min({s.base : s \in segs})
MaxEnd(segs) == Max({0} \cup {EndOffset(s) : s \in segs})

\* The first count segments of the list, or all of it (find_first).
FirstBases(segs, count) ==
    LET bases == {s.base : s \in segs}
    IN  {b \in bases : \A c \in bases : c <= b => Cardinality({d \in bases : d < c}) < count}

-----------------------------------------------------------------------------
(* Reading. *)

\* (slip: the range of bases starts one too high)
FindSegment_slip(offset) ==
    LET min == MinBase(prev)
        max == MaxEnd(prev)
        low == IF offset = min THEN offset ELSE offset - max + min + 2
        found == {s \in prev : low <= s.base /\ s.base <= offset}
    IN  IF offset < min \/ (offset # min /\ offset >= max) \/ found = {} THEN None
        ELSE CHOOSE s \in found : \A t \in found : t.base <= s.base

\* SegmentList::find_segment.
FindSegment(offset) ==
    LET min == MinBase(prev)
        max == MaxEnd(prev)
        low == IF offset = min THEN offset ELSE offset - max + min + 1
        found == {s \in prev : low <= s.base /\ s.base <= offset}
    IN  IF offset < min \/ (offset # min /\ offset >= max) \/ found = {} THEN None
        ELSE CHOOSE s \in found : \A t \in found : t.base <= s.base

\* lookup_entry: the position of the last entry at or before the offset, 0 if
\* there is none.
LookupEntry(seg, delta) == Max({0} \cup {e.pos : e \in {f \in ToSet(seg.index) : f.delta <= delta}})

\* Segment::find_offset_position: from there on, the first batch that ends at
\* or after the offset.
FindOffsetPosition(seg, offset) ==
    LET from == LookupEntry(seg, offset - seg.base)
        found == {b \in ToSet(seg.batches) : b.pos >= from /\ b.offset + b.n - 1 >= offset}
    IN  IF offset < seg.base \/ offset >= EndOffset(seg) \/ found = {} THEN None
        ELSE CHOOSE b \in found : \A c \in found : b.pos <= c.pos

Slice(seg, from, len) == [is |-> "slice", seg |-> seg, from |-> from, len |-> len]
Failed == [is |-> "failed"]
Nothing == [is |-> "nothing"]
Evicted(next) == [is |-> "evicted", next |-> next]

\* (slip: the slice runs up to the end of the batch at max_offset)
SliceUpTo_slip(seg, pos, max) ==
    LET end == FindOffsetPosition(seg, max)
        len == IF end = None THEN 0 ELSE (end.pos + Bytes(end.n) - pos) % Modulus
    IN  IF end = None \/ (seg # active /\ len > FileLen(seg)) THEN Failed ELSE Slice(seg, pos, len)

\* The slice of records_slice that ends before max; the subtraction is on
\* unsigned numbers, and only a closed segment looks at the length.
SliceUpTo(seg, pos, max) ==
    LET end == FindOffsetPosition(seg, max)
        len == IF end = None THEN 0 ELSE (end.pos - pos) % Modulus
    IN  IF end = None \/ (seg # active /\ len > FileLen(seg)) THEN Failed ELSE Slice(seg, pos, len)

NoMax == -1

\* Segment::records_slice; max is the high watermark, or NoMax.
RecordsSlice(seg, start, max) ==
    LET first == FindOffsetPosition(seg, start)
    IN  IF first = None THEN Failed
        ELSE IF max = NoMax \/ max >= EndOffset(seg)
             THEN Slice(seg, first.pos, FileLen(seg) - first.pos)
             ELSE SliceUpTo(seg, first.pos, max)

\* get_log_start_offset.
LogStart == IF minOffset < 0 THEN active.base ELSE minOffset

Leo == EndOffset(active)

\* FileReplica::read_records, before the slice is cut to max_len.
ReadRecords(start, max) ==
    IF start >= active.base
    THEN IF start = Leo THEN Nothing
         ELSE IF start > Leo THEN Failed ELSE RecordsSlice(active, start, max)
    ELSE LET seg == FindSegment(start)
         IN  IF seg = None THEN Evicted(LogStart) ELSE RecordsSlice(seg, start, max)

\* The batches that lie in a slice; a length beyond the file reads to its end.
BatchesIn(slice) ==
    {b \in ToSet(slice.seg.batches) : b.pos >= slice.from /\ b.pos + Bytes(b.n) <= slice.from + slice.len}

-----------------------------------------------------------------------------
(* Writing. *)

Idle == [pc |-> "size", count |-> 0, victims |-> {}, min |-> -1, after |-> "ttl"]

Init ==
    /\ active = EmptySegment(0) /\ prev = {} /\ rolling = None /\ minOffset = -1
    /\ size = [prev |-> 0, active |-> 0]
    /\ hw = 0 /\ chk = 0 /\ short = FALSE /\ torn = NotTorn /\ doomed = {}
    /\ writing = FALSE /\ todo = <<>> /\ toEnd = FALSE /\ clean = Idle /\ acked = 0 /\ crashes = 0 /\ failures = 0

RecordSets == UNION {[1 .. k -> BatchLens] : k \in 1 .. MaxBatches}

TotalRecords(set) == FoldSeq(+, 0, set)

\* write_recordset: a batch that is too large fails it before anything is
\* written.
WriteRecordset ==
    /\ ~writing /\ writing' = TRUE
    /\ \E set \in RecordSets, update \in BOOLEAN :
         /\ \A i \in 1 .. Len(set) : Bytes(set[i]) <= SegmentMax /\ Bytes(set[i]) <= RequestMax
         /\ Leo + TotalRecords(set) <= MaxLeo
         /\ todo' = set /\ toEnd' = update
    /\ UNCHANGED <<log, size, hw, chk, short, acked, failures, clean, crashes>>

\* (slip: a replica that failed goes on writing)
MayWrite_slip == todo # <<>>

\* write_batch has a batch to write and is not short-circuited.
MayWrite == todo # <<>> /\ ~short

\* write_batch with room in the active segment.
WriteBatch ==
    /\ MayWrite /\ rolling = None /\ HasRoom(active, Head(todo))
    /\ active' = AppendBatch(active, Head(todo))
    /\ size' = [size EXCEPT !.active = OccupiedActive(active')]
    /\ todo' = Tail(todo)
    /\ UNCHANGED <<prev, rolling, minOffset, torn, doomed, hw, chk, writing, toEnd, short, acked, failures,
                   clean, crashes>>

\* The offset of the file roll_over creates.
NextBase(seg) == EndOffset(seg)

\* roll_over up to size.add_prev.
RollOver ==
    /\ MayWrite /\ rolling = None /\ ~HasRoom(active, Head(todo))
    /\ active' = EmptySegment(NextBase(active)) /\ rolling' = Closed(active)
    /\ size' = [size EXCEPT !.prev = @ + OccupiedClosed(active)]
    /\ UNCHANGED <<prev, minOffset, torn, doomed, hw, chk, writer, clean, crashes>>

\* roll_over, SharedSegments::add_segment.
AddSegment ==
    /\ writing /\ rolling # None
    /\ prev' = prev \cup {rolling} /\ rolling' = None /\ minOffset' = MinBase(prev')
    /\ UNCHANGED <<active, torn, doomed, size, hw, chk, writer, clean, crashes>>

\* write_batch fails: the batch may be there in part.
WriteFails ==
    /\ MayWrite /\ rolling = None /\ HasRoom(active, Head(todo))
    /\ failures < MaxFailures /\ failures' = failures + 1
    /\ torn' \in {NotTorn, Len(active.batches)}
    /\ short' = TRUE /\ todo' = <<>> /\ writing' = FALSE
    /\ UNCHANGED <<active, prev, rolling, minOffset, doomed, size, hw, chk, toEnd, acked, clean, crashes>>

\* roll_over fails before the new segment is in place, or once it is, when the
\* old one cannot be opened for reading.
RollOverFails ==
    /\ MayWrite /\ rolling = None /\ ~HasRoom(active, Head(todo))
    /\ failures < MaxFailures /\ failures' = failures + 1
    /\ \/ UNCHANGED <<active, rolling>>
       \/ active' = EmptySegment(NextBase(active)) /\ rolling' = Closed(active)
    /\ short' = TRUE /\ todo' = <<>> /\ writing' = FALSE
    /\ UNCHANGED <<prev, minOffset, torn, doomed, size, hw, chk, toEnd, acked, clean, crashes>>

\* write_batch of a short-circuited replica.
WriteRefused ==
    /\ todo # <<>> /\ short
    /\ todo' = <<>> /\ writing' = FALSE
    /\ UNCHANGED <<log, size, hw, chk, toEnd, short, acked, failures, clean, crashes>>

\* write_recordset after its last batch.
WriteDone ==
    /\ writing /\ todo = <<>>
    /\ hw' = IF toEnd THEN Leo ELSE hw
    /\ acked' = Leo /\ writing' = FALSE
    /\ UNCHANGED <<log, size, chk, todo, toEnd, short, failures, clean, crashes>>

Boundaries == UNION {{b.offset + b.n : b \in ToSet(s.batches)} :
                       s \in prev \cup {active} \cup ({rolling} \ {None})}

\* update_high_watermark, with an end of a batch that its caller found
\* committed.
UpdateHighWatermark ==
    /\ ~writing
    /\ \E offset \in Boundaries : offset > hw /\ hw' = offset
    /\ UNCHANGED <<log, size, chk, writer, clean, crashes>>

\* LazyWriter::write_loop.
SaveCheckpoint ==
    /\ chk # hw /\ chk' = hw
    /\ UNCHANGED <<log, size, hw, writer, clean, crashes>>

-----------------------------------------------------------------------------
(* The cleaner. *)

\* (slip: a remainder of a segment is not counted)
SegmentsOver_slip(excess) == excess \div SegmentMax

\* The number of segments enforce_size removes.
SegmentsOver(excess) == (excess + SegmentMax - 1) \div SegmentMax

\* enforce_size reads the sizes.
MeasureSize ==
    /\ clean.pc = "size"
    /\ LET excess == size.prev + size.active - PartitionMax
       IN  clean' = IF excess <= 0 THEN [Idle EXCEPT !.pc = "ttl"]
                    ELSE [Idle EXCEPT !.pc = "choose", !.count = SegmentsOver(excess)]
    /\ UNCHANGED <<log, size, hw, chk, writer, crashes>>

\* enforce_size reads the list.
ChooseFirst ==
    /\ clean.pc = "choose"
    /\ clean' = [clean EXCEPT !.pc = "unlink", !.victims = FirstBases(prev, clean.count), !.after = "ttl"]
    /\ UNCHANGED <<log, size, hw, chk, writer, crashes>>

\* enforce_ttl: the oldest segments may have expired.
ChooseExpired ==
    /\ clean.pc = "ttl"
    /\ \E k \in 0 .. Cardinality(prev) :
         clean' = IF k = 0 THEN Idle
                  ELSE [Idle EXCEPT !.pc = "unlink", !.victims = FirstBases(prev, k), !.after = "size"]
    /\ UNCHANGED <<log, size, hw, chk, writer, crashes>>

\* remove_segment takes a segment from the list, the first one first.
Unlink ==
    /\ clean.pc = "unlink" /\ clean.victims # {}
    /\ LET first == Min(clean.victims)
           gone == {s \in prev : s.base = first}
       IN  /\ prev' = prev \ gone /\ doomed' = gone
           /\ clean' = [clean EXCEPT !.pc = "store", !.victims = @ \ {first}, !.min = MinBase(prev \ gone)]
    /\ UNCHANGED <<active, rolling, minOffset, torn, size, hw, chk, writer, crashes>>

\* (slip: the cached offset stays)
Unlinked_slip ==
    /\ clean.pc = "store" /\ doomed' = {}
    /\ clean' = [clean EXCEPT !.pc = "unlink"]
    /\ UNCHANGED <<active, prev, rolling, minOffset, torn, size, hw, chk, writer, crashes>>

\* remove_segment, without the lock: the cached offset, and the files, which
\* the disk is taken to remove (if it does not, the error is logged).
Unlinked ==
    /\ clean.pc = "store"
    /\ minOffset' = clean.min /\ doomed' = {}
    /\ clean' = [clean EXCEPT !.pc = "unlink"]
    /\ UNCHANGED <<active, prev, rolling, torn, size, hw, chk, writer, crashes>>

\* The end of enforce_size and of enforce_ttl.
StorePrev ==
    /\ clean.pc = "unlink" /\ clean.victims = {}
    /\ size' = [size EXCEPT !.prev = OccupiedPrev(prev)]
    /\ clean' = [Idle EXCEPT !.pc = clean.after]
    /\ UNCHANGED <<log, hw, chk, writer, crashes>>

-----------------------------------------------------------------------------
(* The process dies and loads the directory again. *)

\* MutableSegment::validate_and_repair: the file ends before the first batch
\* that cannot be decoded.
Repaired(seg, garbage) ==
    [seg EXCEPT !.unindexed = 0,
                !.batches = IF garbage = NotTorn THEN @ ELSE SubSeq(@, 1, garbage)]

\* create_or_load_inner.  In the middle of a write a batch may be there in
\* part.
Restart ==
    /\ crashes < MaxCrashes /\ crashes' = crashes + 1
    /\ \E garbage \in {torn} \cup (IF MayWrite /\ torn = NotTorn THEN {Len(active.batches)} ELSE {}) :
         LET files == prev \cup {active} \cup doomed \cup ({rolling} \ {None})
             last == CHOOSE s \in files : \A t \in files : t.base <= s.base
         IN  /\ active' = Repaired(last, garbage)
             /\ prev' = {Closed(s) : s \in files \ {last}}
    /\ minOffset' = MinBase(prev') /\ rolling' = None /\ doomed' = {} /\ torn' = NotTorn
    /\ size' = [prev |-> 0, active |-> OccupiedActive(active')]
    /\ hw' = IF chk > EndOffset(active') THEN EndOffset(active') ELSE chk
    /\ writing' = FALSE /\ todo' = <<>> /\ toEnd' = FALSE /\ short' = FALSE /\ clean' = Idle
    /\ UNCHANGED <<chk, acked, failures>>

Write == \/ WriteRecordset \/ WriteBatch \/ RollOver \/ AddSegment \/ WriteFails
         \/ RollOverFails \/ WriteRefused \/ WriteDone

Clean == MeasureSize \/ ChooseFirst \/ ChooseExpired \/ Unlink \/ Unlinked \/ StorePrev

Next == Write \/ UpdateHighWatermark \/ SaveCheckpoint \/ Clean \/ Restart

\* The cleaner is a task with a timer, and a write that was begun goes on.
Fairness == WF_vars(Clean) /\ WF_vars(WriteBatch \/ RollOver \/ AddSegment \/ WriteDone)

Spec == Init /\ [][Next]_vars /\ Fairness

-----------------------------------------------------------------------------
(* Properties. *)

\* No reader gets the lock in the middle of a write; one does after a write
\* that failed.
Readable == ~writing

FirstOffset == IF prev = {} THEN active.base ELSE MinBase(prev)

\* The offset is in a segment that a failed roll_over closed and did not list.
Lost(offset) == rolling # None /\ rolling.base <= offset /\ offset < EndOffset(rolling)

\* Any offset between the first one in the list and the log's end is found,
\* through list, index and headers: the slice starts with the batch of that
\* offset and reaches the end of its segment, so a reader that goes on from
\* there skips nothing.  The one exception is the segment of a roll_over that
\* failed, all of which is reported as evicted until the replica is reloaded.
ReadFindsOffset ==
    Readable =>
        \A start \in FirstOffset .. Leo - 1 :
            LET slice == ReadRecords(start, NoMax)
            IN  IF Lost(start) THEN slice.is = "evicted"
                ELSE /\ slice.is = "slice"
                     /\ \E b \in ToSet(slice.seg.batches) :
                          /\ b.pos = slice.from /\ b.offset <= start /\ start < b.offset + b.n
                     /\ start .. EndOffset(slice.seg) - 1
                          \subseteq UNION {b.offset .. b.offset + b.n - 1 : b \in BatchesIn(slice)}

\* A committed read that starts below the high watermark gets the rest of its
\* segment up to the watermark, and nothing that is not committed; one that
\* starts at the watermark gets nothing.  Above it nothing holds a reader back
\* but the search for the watermark: it fails unless the watermark is in the
\* segment of the read, and if it is, the length of the slice may wrap and
\* the slice hold records that are not committed.
CommittedReadStops ==
    Readable =>
        \A start \in FirstOffset .. Leo - 1 :
            LET slice == ReadRecords(start, hw)
            IN  \/ Lost(start) /\ slice.is = "evicted"
                \/ /\ start < hw /\ slice.is = "slice"
                   /\ start .. Min({hw, EndOffset(slice.seg)}) - 1
                        \subseteq UNION {b.offset .. b.offset + b.n - 1 : b \in BatchesIn(slice)}
                   /\ \A b \in BatchesIn(slice) : b.offset + b.n <= hw
                \/ start = hw /\ slice.is = "slice" /\ BatchesIn(slice) = {}
                \/ start > hw /\ (slice.is = "failed" \/ slice.seg.base <= hw)

\* A reader that is told that its offset is gone, and where to go on, finds
\* records or the end of the log there, at an offset beyond its own: except
\* while the cleaner is between the list and the cached offset, it is not
\* sent round in circles.  (A reader of the segment of a failed roll_over is,
\* if there are listed segments before it.)
EvictedGoesOn ==
    (Readable /\ clean.pc # "store") =>
        \A start \in 0 .. FirstOffset - 1 :
            LET answer == ReadRecords(start, NoMax)
            IN  answer.is = "evicted" => /\ answer.next > start
                                         /\ ReadRecords(answer.next, NoMax).is \in {"slice", "nothing"}

\* A write that was acknowledged is in the log for good, whatever failed and
\* whenever the process died: the log never ends before it, and the segments
\* follow each other without a hole.
AckedStays ==
    /\ acked <= Leo
    /\ LET segs == prev \cup {active} \cup doomed \cup ({rolling} \ {None})
       IN  \A s \in segs : s = active \/ \E t \in segs : t.base = EndOffset(s) /\ t # s

\* What the cleaner takes for the size of the partition comes down to its
\* limit, or there is only the active segment left.
SizeEnforced == (size.prev + size.active > PartitionMax) ~> (size.prev + size.active <= PartitionMax \/ prev = {})

=============================================================================
