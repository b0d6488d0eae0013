--------------------------- MODULE StorageProofs ----------------------------
(***************************************************************************)
(* What a reader finds in the log of a replica, for any sizes of batches   *)
(* and segments, any index interval and any bounds.  A reader goes through *)
(* list, index and batch headers; the invariant says that each of the      *)
(* three is right about the next, whatever the cleaner removes and         *)
(* whenever a write fails or the process dies.                             *)
(***************************************************************************)
EXTENDS Storage, TLAPS, SequenceTheorems, WellFoundedInduction

BatchType == [offset : Nat, n : Nat \ {0}, pos : Nat]

SegmentType ==
    [base : Nat, batches : Seq(BatchType), index : Seq([delta : Nat, pos : Nat]), unindexed : Nat]

\* Batches follow each other, in offsets and in the file, ...
Ordered(seg) ==
    \A i, j \in 1 .. Len(seg.batches) :
        i < j => /\ seg.batches[i].offset + seg.batches[i].n <= seg.batches[j].offset
                 /\ seg.batches[i].pos + Bytes(seg.batches[i].n) <= seg.batches[j].pos

\* ... between the segment's first and last offset, in the file, ...
Inside(seg) ==
    \A i \in 1 .. Len(seg.batches) :
        /\ seg.base <= seg.batches[i].offset
        /\ seg.batches[i].offset + seg.batches[i].n <= EndOffset(seg)
        /\ seg.batches[i].pos + Bytes(seg.batches[i].n) <= FileLen(seg)

In(o, b) == b.offset <= o /\ o < b.offset + b.n

\* ... leave no offset out, ...
Filled(seg) ==
    \A o \in Nat : seg.base <= o /\ o < EndOffset(seg)
                    => \E i \in 1 .. Len(seg.batches) : In(o, seg.batches[i])

\* ... and an index entry is about a batch.
IndexTrue(seg) ==
    \A k \in 1 .. Len(seg.index) : \E i \in 1 .. Len(seg.batches) :
        /\ seg.batches[i].offset = seg.base + seg.index[k].delta
        /\ seg.batches[i].pos = seg.index[k].pos

Sound(seg) ==
    /\ seg \in SegmentType
    /\ seg.base <= EndOffset(seg) /\ FileLen(seg) <= SegmentMax
    /\ Ordered(seg) /\ Inside(seg) /\ Filled(seg) /\ IndexTrue(seg)

Within(o, seg) == seg.base <= o /\ o < EndOffset(seg)

\* A closed segment has records and ends where or before the active one begins.
Before(seg, base) == Sound(seg) /\ seg.base < EndOffset(seg) /\ EndOffset(seg) <= base

Apart(s, t) == EndOffset(s) <= t.base \/ EndOffset(t) <= s.base

\* The segments of a log: the one that is written, and older ones, which leave
\* no offset out from their first one on.
LogOf(act, old) ==
    /\ Sound(act)
    /\ \A s \in old : Before(s, act.base)
    /\ \A s, t \in old : s = t \/ Apart(s, t)
    /\ \A s \in old : \A o \in Nat :
         s.base <= o /\ o < act.base => \E t \in old : Within(o, t)

\* The files of closed segments, listed or not.
Old == prev \cup doomed \cup ({rolling} \ {None})

SegmentsInv ==
    /\ LogOf(active, Old)
    /\ rolling # None => EndOffset(rolling) = active.base /\ rolling \notin prev \cup doomed

\* The cleaner removes from the front.
CleanerInv ==
    /\ clean = [pc |-> clean.pc, count |-> clean.count, victims |-> clean.victims,
                min |-> clean.min, after |-> clean.after]
    /\ \A d \in doomed : \A s \in prev : d.base < s.base
    /\ clean.pc = "store" \/ doomed = {}
    /\ \A v \in clean.victims : \E s \in prev : s.base = v
    /\ \A v \in clean.victims : \A s \in prev : s.base < v => s.base \in clean.victims
    /\ IF clean.pc = "store" THEN clean.min \in {-1, MinBase(prev)}
       ELSE minOffset \in {-1, MinBase(prev)}

\* h does not lie inside a batch.
NotInside(h, seg) ==
    \A i \in 1 .. Len(seg.batches) :
        h <= seg.batches[i].offset \/ seg.batches[i].offset + seg.batches[i].n <= h

Boundary(h, act, old) ==
    /\ h \in Nat /\ h <= EndOffset(act)
    /\ NotInside(h, act) /\ \A s \in old : NotInside(h, s)

\* The batches that write_recordset lets through.
Writable == {n \in BatchLens : Bytes(n) <= SegmentMax}

WriterInv ==
    /\ short \in BOOLEAN
    /\ todo \in Seq(Writable)
    /\ torn = NotTorn \/ (short /\ torn = Len(active.batches))
    /\ acked \in Nat /\ acked <= Leo

StorageInv ==
    SegmentsInv /\ CleanerInv /\ WriterInv /\ Boundary(hw, active, Old) /\ Boundary(chk, active, Old)

-----------------------------------------------------------------------------
(* Least and greatest elements. *)

LEMMA MinIsLeast ==
    ASSUME NEW T \in SUBSET Nat, T # {}
    PROVE  Min(T) \in T /\ \A y \in T : Min(T) <= y
<1>1. PICK x \in T : \A y \in T : ~(<<y, x>> \in OpToRel(<, Nat))
  BY NatLessThanWellFounded, WFMin, Zenon
<1>2. \A y \in T : ~(y < x)
  BY <1>1 DEF OpToRel
<1>3. \A y \in T : x <= y
  BY <1>2
<1> QED
  BY <1>3 DEF Min

LEMMA MaxIsGreatest ==
    ASSUME NEW T \in SUBSET Nat, T # {}, NEW h \in Nat, \A y \in T : y <= h
    PROVE  Max(T) \in T /\ \A y \in T : y <= Max(T)
<1> DEFINE U == {h - y : y \in T}
<1>1. U \in SUBSET Nat /\ U # {}
  OBVIOUS
<1>2. PICK u \in U : \A w \in U : u <= w
  BY <1>1, MinIsLeast
<1>3. PICK x \in T : u = h - x
  BY <1>2
<1>4. \A y \in T : x >= y
  <2> SUFFICES ASSUME NEW y \in T PROVE x >= y
    OBVIOUS
  <2>1. h - y \in U
    OBVIOUS
  <2>2. h - x <= h - y /\ x \in Nat /\ y \in Nat
    BY <1>2, <1>3, <2>1
  <2> QED
    BY <2>2
<1> HIDE DEF U
<1>5. Max(T) \in T /\ \A y \in T : Max(T) >= y
  BY <1>4 DEF Max
<1> QED
  BY <1>5

-----------------------------------------------------------------------------
(* Segments. *)

LEMMA SegmentFields ==
    ASSUME NEW seg \in SegmentType
    PROVE  /\ seg.base \in Nat /\ seg.batches \in Seq(BatchType) /\ Len(seg.batches) \in Nat
           /\ EndOffset(seg) \in Nat /\ FileLen(seg) \in Nat
           /\ \A i \in 1 .. Len(seg.batches) :
                /\ seg.batches[i] \in BatchType
                /\ seg.batches[i].offset \in Nat /\ seg.batches[i].n \in Nat \ {0}
                /\ seg.batches[i].pos \in Nat /\ Bytes(seg.batches[i].n) \in Nat
<1>1. seg.base \in Nat /\ seg.batches \in Seq(BatchType)
  BY DEF SegmentType
<1>2. Len(seg.batches) \in Nat
  BY <1>1, LenProperties
<1>3. \A i \in 1 .. Len(seg.batches) : seg.batches[i] \in BatchType
  BY <1>1, ElementOfSeq
<1>4. \A i \in 1 .. Len(seg.batches) :
        /\ seg.batches[i].offset \in Nat /\ seg.batches[i].n \in Nat \ {0}
        /\ seg.batches[i].pos \in Nat /\ Bytes(seg.batches[i].n) \in Nat
  BY <1>3 DEF BatchType, Bytes
<1>5. seg.batches # <<>> => Len(seg.batches) \in 1 .. Len(seg.batches)
  BY <1>1, <1>2, EmptySeq
<1>6. EndOffset(seg) \in Nat /\ FileLen(seg) \in Nat
  <2>1. CASE seg.batches = <<>>
    BY <1>1, <2>1 DEF EndOffset, FileLen
  <2>2. CASE seg.batches # <<>>
    <3> DEFINE l == seg.batches[Len(seg.batches)]
    <3>1. l.offset \in Nat /\ l.n \in Nat /\ l.pos \in Nat /\ Bytes(l.n) \in Nat
      BY <1>4, <1>5, <2>2
    <3>2. EndOffset(seg) = l.offset + l.n /\ FileLen(seg) = l.pos + Bytes(l.n)
      BY <2>2 DEF EndOffset, FileLen, Last
    <3> HIDE DEF l
    <3> QED
      BY <3>1, <3>2
  <2> QED
    BY <2>1, <2>2
<1> QED
  BY <1>1, <1>2, <1>3, <1>4, <1>6

\* A new segment.
LEMMA EmptySound ==
    ASSUME NEW base \in Nat
    PROVE  Sound(EmptySegment(base)) /\ EndOffset(EmptySegment(base)) = base
<1> DEFINE seg == EmptySegment(base)
<1>1. seg.base = base /\ seg.batches = <<>> /\ seg.index = <<>>
  BY DEF EmptySegment
<1>2. seg \in SegmentType
  BY EmptySeq DEF EmptySegment, SegmentType
<1>3. EndOffset(seg) = base /\ FileLen(seg) = 0
  BY <1>1 DEF EndOffset, FileLen
<1>4. SegmentMax \in Nat
  BY StorageAssumption
<1> HIDE DEF seg
<1>5. Len(seg.batches) = 0 /\ Len(seg.index) = 0
  BY <1>1, EmptySeq
<1>6. Sound(seg)
  BY <1>1, <1>2, <1>3, <1>4, <1>5 DEF Sound, Ordered, Inside, Filled, IndexTrue
<1> QED
  BY <1>3, <1>6 DEF seg

\* What append_batch writes where.
LEMMA AppendFields ==
    ASSUME NEW seg \in SegmentType, seg.base <= EndOffset(seg), NEW n \in Nat \ {0}
    PROVE  LET new == AppendBatch(seg, n)
               k == Len(seg.batches)
           IN  /\ new \in SegmentType /\ new.base = seg.base
               /\ Len(new.batches) = k + 1
               /\ \A i \in 1 .. k : new.batches[i] = seg.batches[i]
               /\ new.batches[k + 1] = [offset |-> EndOffset(seg), n |-> n, pos |-> FileLen(seg)]
               /\ EndOffset(new) = EndOffset(seg) + n
               /\ FileLen(new) = FileLen(seg) + Bytes(n)
               /\ \A j \in 1 .. Len(new.index) :
                    \/ j \in 1 .. Len(seg.index) /\ new.index[j] = seg.index[j]
                    \/ new.index[j] = [delta |-> EndOffset(seg) - seg.base, pos |-> FileLen(seg)]
<1> DEFINE new == AppendBatch(seg, n)
           k == Len(seg.batches)
           b == [offset |-> EndOffset(seg), n |-> n, pos |-> FileLen(seg)]
           e == [delta |-> EndOffset(seg) - seg.base, pos |-> FileLen(seg)]
           Entry == [delta : Nat, pos : Nat]
           nb == Append(seg.batches, b)
           ni == IF Indexed(seg) THEN Append(seg.index, e) ELSE seg.index
           nu == IF Indexed(seg) THEN 0 ELSE seg.unindexed + Bytes(n)
<1>1. /\ seg.base \in Nat /\ seg.batches \in Seq(BatchType) /\ k \in Nat
      /\ EndOffset(seg) \in Nat /\ FileLen(seg) \in Nat
  BY SegmentFields
<1>2. seg.index \in Seq(Entry) /\ Len(seg.index) \in Nat /\ seg.unindexed \in Nat
  BY LenProperties DEF SegmentType
<1>3. b \in BatchType /\ e \in Entry /\ Bytes(n) \in Nat
  BY <1>1 DEF BatchType, Bytes
<1>4. new = [seg EXCEPT !.batches = nb, !.index = ni, !.unindexed = nu]
  BY DEF AppendBatch
<1> HIDE DEF new, b, e, Entry, nb, ni, nu
<1>41. new.base = seg.base /\ new.batches = nb /\ new.index = ni /\ new.unindexed = nu
  BY <1>4 DEF SegmentType
<1>5. /\ new.batches \in Seq(BatchType) /\ new.batches # <<>> /\ Len(new.batches) = k + 1
      /\ \A i \in 1 .. k : new.batches[i] = seg.batches[i]
      /\ new.batches[k + 1] = b
  BY <1>1, <1>3, <1>41, AppendProperties DEF nb
<1>6. /\ new.index \in Seq(Entry)
      /\ \A j \in 1 .. Len(new.index) :
           (j \in 1 .. Len(seg.index) /\ new.index[j] = seg.index[j]) \/ new.index[j] = e
  <2>1. CASE Indexed(seg)
    <3>1. new.index = Append(seg.index, e)
      BY <1>41, <2>1 DEF ni
    <3>2. /\ new.index \in Seq(Entry) /\ Len(new.index) = Len(seg.index) + 1
          /\ \A j \in 1 .. Len(seg.index) : new.index[j] = seg.index[j]
          /\ new.index[Len(seg.index) + 1] = e
      BY <1>2, <1>3, <3>1, AppendProperties
    <3> QED
      BY <1>2, <3>2
  <2>2. CASE ~Indexed(seg)
    BY <1>2, <1>41, <2>2 DEF ni
  <2> QED
    BY <2>1, <2>2
<1>7. new.unindexed \in Nat
  BY <1>2, <1>3, <1>41 DEF nu
<1>8. new \in SegmentType
  BY <1>4, <1>5, <1>6, <1>7, <1>41 DEF SegmentType, Entry
<1>9. Last(new.batches) = b
  BY <1>5 DEF Last
<1>10. EndOffset(new) = EndOffset(seg) + n /\ FileLen(new) = FileLen(seg) + Bytes(n)
  BY <1>5, <1>9 DEF EndOffset, FileLen, b
<1> QED
  BY <1>41, <1>5, <1>6, <1>8, <1>10 DEF new, b, e

\* A segment that gets a batch for which it has room stays sound.
LEMMA AppendSound ==
    ASSUME NEW seg, Sound(seg), NEW n \in Nat \ {0}, HasRoom(seg, n)
    PROVE  Sound(AppendBatch(seg, n))
<1> DEFINE new == AppendBatch(seg, n)
           k == Len(seg.batches)
<1>1. seg \in SegmentType /\ seg.base <= EndOffset(seg)
  BY DEF Sound
<1>2. /\ new \in SegmentType /\ new.base = seg.base
      /\ Len(new.batches) = k + 1
      /\ \A i \in 1 .. k : new.batches[i] = seg.batches[i]
      /\ new.batches[k + 1] = [offset |-> EndOffset(seg), n |-> n, pos |-> FileLen(seg)]
      /\ EndOffset(new) = EndOffset(seg) + n
      /\ FileLen(new) = FileLen(seg) + Bytes(n)
      /\ \A j \in 1 .. Len(new.index) :
           \/ j \in 1 .. Len(seg.index) /\ new.index[j] = seg.index[j]
           \/ new.index[j] = [delta |-> EndOffset(seg) - seg.base, pos |-> FileLen(seg)]
  BY <1>1, AppendFields
<1>3. /\ new.batches[k + 1].offset = EndOffset(seg) /\ new.batches[k + 1].n = n
      /\ new.batches[k + 1].pos = FileLen(seg)
  BY <1>2
<1>4. /\ seg.base \in Nat /\ k \in Nat /\ EndOffset(seg) \in Nat /\ FileLen(seg) \in Nat
      /\ \A i \in 1 .. k :
           /\ seg.batches[i].offset \in Nat /\ seg.batches[i].n \in Nat
           /\ seg.batches[i].pos \in Nat /\ Bytes(seg.batches[i].n) \in Nat
  BY <1>1, SegmentFields
<1>5. Bytes(n) \in Nat /\ FileLen(seg) + Bytes(n) <= SegmentMax
  BY DEF Bytes, HasRoom
<1>6. \A i \in 1 .. k + 1 : i \in 1 .. k \/ i = k + 1
  BY <1>4
<1> HIDE DEF new, k
<1>7. Ordered(new)
  <2> SUFFICES ASSUME NEW i \in 1 .. k + 1, NEW j \in 1 .. k + 1, i < j
               PROVE  /\ new.batches[i].offset + new.batches[i].n <= new.batches[j].offset
                      /\ new.batches[i].pos + Bytes(new.batches[i].n) <= new.batches[j].pos
    BY <1>2 DEF Ordered
  <2>1. i \in 1 .. k /\ new.batches[i] = seg.batches[i]
    BY <1>2, <1>4
  <2>2. CASE j \in 1 .. k
    BY <1>2, <2>1, <2>2 DEF Sound, Ordered, k
  <2>3. CASE j = k + 1
    BY <1>3, <2>1, <2>3 DEF Sound, Inside, k
  <2> QED
    BY <1>6, <2>2, <2>3
<1>8. Inside(new)
  <2> SUFFICES ASSUME NEW i \in 1 .. k + 1
               PROVE  /\ new.base <= new.batches[i].offset
                      /\ new.batches[i].offset + new.batches[i].n <= EndOffset(new)
                      /\ new.batches[i].pos + Bytes(new.batches[i].n) <= FileLen(new)
    BY <1>2 DEF Inside
  <2>1. CASE i \in 1 .. k
    <3>1. /\ seg.base <= seg.batches[i].offset
          /\ seg.batches[i].offset + seg.batches[i].n <= EndOffset(seg)
          /\ seg.batches[i].pos + Bytes(seg.batches[i].n) <= FileLen(seg)
      BY <2>1 DEF Sound, Inside, k
    <3>2. new.batches[i] = seg.batches[i]
      BY <1>2, <2>1
    <3>3. /\ EndOffset(seg) <= EndOffset(new) /\ FileLen(seg) <= FileLen(new)
          /\ EndOffset(new) \in Nat /\ FileLen(new) \in Nat
      BY <1>2, <1>4, <1>5
    <3>4. /\ seg.batches[i].offset \in Nat /\ seg.batches[i].n \in Nat
          /\ seg.batches[i].pos \in Nat /\ Bytes(seg.batches[i].n) \in Nat
      BY <1>4, <2>1
    <3>5. /\ seg.batches[i].offset + seg.batches[i].n <= EndOffset(new)
          /\ seg.batches[i].pos + Bytes(seg.batches[i].n) <= FileLen(new)
      BY <1>4, <3>1, <3>3, <3>4
    <3> QED
      BY <1>2, <3>1, <3>2, <3>5
  <2>2. CASE i = k + 1
    BY <1>1, <1>2, <1>3, <1>4, <1>5, <2>2
  <2> QED
    BY <1>6, <2>1, <2>2
<1>9. Filled(new)
  <2> SUFFICES ASSUME NEW o \in Nat, new.base <= o, o < EndOffset(new)
               PROVE  \E i \in 1 .. k + 1 : In(o, new.batches[i])
    BY <1>2 DEF Filled
  <2>1. CASE o < EndOffset(seg)
    <3>1. PICK i \in 1 .. k : In(o, seg.batches[i])
      BY <1>2, <2>1 DEF Sound, Filled, k
    <3> QED
      BY <1>2, <1>4, <3>1
  <2>2. CASE ~(o < EndOffset(seg))
    <3>1. In(o, new.batches[k + 1])
      BY <1>2, <1>3, <1>4, <2>2 DEF In
    <3> QED
      BY <1>4, <3>1
  <2> QED
    BY <2>1, <2>2
<1>10. IndexTrue(new)
  <2> SUFFICES ASSUME NEW j \in 1 .. Len(new.index)
               PROVE  \E i \in 1 .. k + 1 : /\ new.batches[i].offset = new.base + new.index[j].delta
                                             /\ new.batches[i].pos = new.index[j].pos
    BY <1>2 DEF IndexTrue
  <2>1. CASE j \in 1 .. Len(seg.index) /\ new.index[j] = seg.index[j]
    <3>1. PICK i \in 1 .. k : /\ seg.batches[i].offset = seg.base + seg.index[j].delta
                              /\ seg.batches[i].pos = seg.index[j].pos
      BY <2>1 DEF Sound, IndexTrue, k
    <3>2. new.batches[i] = seg.batches[i] /\ i \in 1 .. k + 1
      BY <1>2, <1>4
    <3> QED
      BY <1>2, <2>1, <3>1, <3>2
  <2>2. CASE new.index[j] = [delta |-> EndOffset(seg) - seg.base, pos |-> FileLen(seg)]
    <3>1. new.index[j].delta = EndOffset(seg) - seg.base /\ new.index[j].pos = FileLen(seg)
      BY <2>2
    <3>2. k + 1 \in 1 .. k + 1 /\ EndOffset(seg) = seg.base + (EndOffset(seg) - seg.base)
      BY <1>4
    <3>3. /\ new.batches[k + 1].offset = new.base + new.index[j].delta
          /\ new.batches[k + 1].pos = new.index[j].pos
      BY <1>2, <1>3, <3>1, <3>2
    <3> QED
      BY <3>2, <3>3
  <2> QED
    BY <1>2, <2>1, <2>2
<1>11. new.base <= EndOffset(new) /\ FileLen(new) <= SegmentMax
  BY <1>1, <1>2, <1>4, <1>5
<1> QED
  BY <1>2, <1>7, <1>8, <1>9, <1>10, <1>11 DEF Sound, new

\* Closing a segment, or repairing one that has nothing to repair, only
\* forgets how much was not indexed.
LEMMA ClosedSame ==
    ASSUME NEW seg, Sound(seg)
    PROVE  /\ Closed(seg).base = seg.base /\ Closed(seg).batches = seg.batches
           /\ EndOffset(Closed(seg)) = EndOffset(seg) /\ Sound(Closed(seg))
<1> DEFINE new == Closed(seg)
<1>1. seg \in SegmentType
  BY DEF Sound
<1>2. /\ new.base = seg.base /\ new.batches = seg.batches /\ new.index = seg.index
      /\ new \in SegmentType
  BY <1>1 DEF Closed, SegmentType
<1> HIDE DEF new
<1>3. EndOffset(new) = EndOffset(seg) /\ FileLen(new) = FileLen(seg)
  BY <1>2 DEF EndOffset, FileLen
<1>4. Ordered(new) /\ Inside(new) /\ Filled(new) /\ IndexTrue(new)
  BY <1>2, <1>3 DEF Sound, Ordered, Inside, Filled, IndexTrue
<1>5. Sound(new)
  BY <1>2, <1>3, <1>4 DEF Sound
<1> QED
  BY <1>2, <1>3, <1>5 DEF new

LEMMA RepairedSame ==
    ASSUME NEW seg, Sound(seg), NEW garbage, garbage = NotTorn \/ garbage = Len(seg.batches)
    PROVE  Repaired(seg, garbage) = Closed(seg)
<1>1. seg \in SegmentType /\ seg.batches \in Seq(BatchType)
  BY SegmentFields DEF Sound
<1>2. SubSeq(seg.batches, 1, Len(seg.batches)) = seg.batches
  BY <1>1, SubSeqFull
<1>3. (IF garbage = NotTorn THEN seg.batches ELSE SubSeq(seg.batches, 1, garbage)) = seg.batches
  BY <1>2
<1>4. Repaired(seg, garbage) = [seg EXCEPT !.unindexed = 0, !.batches = seg.batches]
  BY <1>3 DEF Repaired
<1> QED
  BY <1>1, <1>4 DEF Closed, SegmentType

\* The batch of an offset is the one that find_offset_position finds: the index
\* never leads past it, and the batches before it end before the offset.
LEMMA FoundBatch ==
    ASSUME NEW seg, Sound(seg), NEW offset \in Nat, Within(offset, seg)
    PROVE  \E i \in 1 .. Len(seg.batches) :
             In(offset, seg.batches[i]) /\ FindOffsetPosition(seg, offset) = seg.batches[i]
<1> DEFINE k == Len(seg.batches)
           from == LookupEntry(seg, offset - seg.base)
           found == {b \in ToSet(seg.batches) : b.pos >= from /\ b.offset + b.n - 1 >= offset}
<1>1. seg \in SegmentType
  BY DEF Sound
<1>2. /\ seg.base \in Nat /\ seg.batches \in Seq(BatchType) /\ k \in Nat
      /\ EndOffset(seg) \in Nat
      /\ \A i \in 1 .. k :
           /\ seg.batches[i].offset \in Nat /\ seg.batches[i].n \in Nat
           /\ seg.batches[i].pos \in Nat /\ Bytes(seg.batches[i].n) \in Nat
  BY <1>1, SegmentFields
<1>3. PICK c \in 1 .. k : In(offset, seg.batches[c])
  BY DEF Sound, Filled, Within
<1>31. /\ seg.batches[c].offset \in Nat /\ seg.batches[c].n \in Nat /\ seg.batches[c].pos \in Nat
       /\ Bytes(seg.batches[c].n) \in Nat /\ Bytes(seg.batches[c].n) > 0
       /\ seg.batches[c].offset <= offset /\ offset < seg.batches[c].offset + seg.batches[c].n
  BY <1>2, <1>3 DEF In, Bytes
<1>4. ToSet(seg.batches) = {seg.batches[i] : i \in 1 .. k}
  BY <1>2, LenProperties DEF ToSet
<1>5. from \in Nat /\ from <= seg.batches[c].pos
  <2> DEFINE T == {0} \cup {e.pos : e \in {f \in ToSet(seg.index) : f.delta <= offset - seg.base}}
  <2>1. seg.index \in Seq([delta : Nat, pos : Nat])
    BY <1>1 DEF SegmentType
  <2>2. ASSUME NEW e \in ToSet(seg.index), e.delta <= offset - seg.base
        PROVE  e.pos \in Nat /\ e.pos <= seg.batches[c].pos
    <3>1. PICK at \in 1 .. Len(seg.index) : e = seg.index[at]
      BY <2>1, LenProperties DEF ToSet
    <3>2. e \in [delta : Nat, pos : Nat]
      BY <2>1, <3>1, ElementOfSeq
    <3>3. PICK i \in 1 .. k : /\ seg.batches[i].offset = seg.base + e.delta
                              /\ seg.batches[i].pos = e.pos
      BY <3>1 DEF Sound, IndexTrue
    <3>4. /\ seg.batches[i].offset \in Nat /\ seg.batches[i].pos \in Nat
          /\ Bytes(seg.batches[i].n) \in Nat
      BY <1>2
    <3>41. seg.batches[i].offset <= offset
      <4>1. \A x, y, z \in Nat : y <= z - x => x + y <= z
        OBVIOUS
      <4>2. e.delta \in Nat
        BY <3>2
      <4> QED
        BY <1>2, <2>2, <3>3, <4>1, <4>2
    <3>5. CASE c < i
      <4>1. seg.batches[c].offset + seg.batches[c].n <= seg.batches[i].offset
        BY <3>5 DEF Sound, Ordered
      <4>2. \A x, y, z, w \in Nat : x < y + z /\ y + z <= w => ~(w <= x)
        OBVIOUS
      <4> QED
        BY <1>31, <3>4, <3>41, <4>1, <4>2
    <3>6. CASE i < c
      <4>1. seg.batches[i].pos + Bytes(seg.batches[i].n) <= seg.batches[c].pos
        BY <3>6 DEF Sound, Ordered
      <4>2. \A x, y, z \in Nat : x + y <= z => x <= z
        OBVIOUS
      <4> QED
        BY <1>31, <3>3, <3>4, <4>1, <4>2
    <3>7. CASE i = c
      BY <1>31, <3>3, <3>7
    <3> QED
      BY <3>5, <3>6, <3>7
  <2>3. T \in SUBSET Nat /\ T # {} /\ \A y \in T : y <= seg.batches[c].pos
    BY <1>2, <2>2
  <2>4. Max(T) \in T
    BY <1>2, <2>3, MaxIsGreatest
  <2>5. from = Max(T)
    BY DEF LookupEntry
  <2> HIDE DEF T, from
  <2> QED
    BY <2>3, <2>4, <2>5
<1> HIDE DEF from
<1>6. seg.batches[c] \in found
  <2>1. seg.batches[c].offset + seg.batches[c].n - 1 >= offset
    <3>1. \A x, y, z \in Nat : x < y + z => y + z - 1 >= x
      OBVIOUS
    <3> QED
      BY <1>31, <3>1
  <2>2. seg.batches[c].pos >= from
    BY <1>2, <1>5
  <2> QED
    BY <1>4, <2>1, <2>2
<1>7. \A i \in 1 .. k : seg.batches[i] \in found /\ i # c => seg.batches[c].pos < seg.batches[i].pos
  <2> SUFFICES ASSUME NEW i \in 1 .. k, seg.batches[i].offset + seg.batches[i].n - 1 >= offset, i # c
               PROVE  seg.batches[c].pos < seg.batches[i].pos
    OBVIOUS
  <2>0. seg.batches[i].offset \in Nat /\ seg.batches[i].n \in Nat /\ seg.batches[i].pos \in Nat
    BY <1>2
  <2>1. CASE i < c
    <3>1. seg.batches[i].offset + seg.batches[i].n <= seg.batches[c].offset
      BY <2>1 DEF Sound, Ordered
    <3>2. \A x, y, z, w \in Nat : x + y <= z /\ z <= w => ~(x + y - 1 >= w)
      OBVIOUS
    <3> QED
      BY <1>31, <2>0, <3>1, <3>2
  <2>2. CASE c < i
    <3>1. seg.batches[c].pos + (seg.batches[c].n + 1) <= seg.batches[i].pos
      BY <2>2 DEF Sound, Ordered, Bytes
    <3>2. \A x, y, z \in Nat : x + (y + 1) <= z => x < z
      OBVIOUS
    <3> QED
      BY <1>31, <2>0, <3>1, <3>2
  <2> QED
    BY <2>1, <2>2
<1>8. FindOffsetPosition(seg, offset) = CHOOSE b \in found : \A d \in found : b.pos <= d.pos
  <2>1. ~(offset < seg.base \/ offset >= EndOffset(seg) \/ found = {})
    BY <1>2, <1>6 DEF Within
  <2> QED
    BY <2>1 DEF FindOffsetPosition, from
<1>9. found \subseteq {seg.batches[i] : i \in 1 .. k}
  BY <1>4
<1> HIDE DEF found
<1>10. \A d \in found : seg.batches[c].pos <= d.pos
  <2> SUFFICES ASSUME NEW d \in found PROVE seg.batches[c].pos <= d.pos
    OBVIOUS
  <2>1. PICK i \in 1 .. k : d = seg.batches[i]
    BY <1>9
  <2>2. d.pos \in Nat
    BY <1>2, <2>1
  <2> QED
    BY <1>31, <1>7, <2>1, <2>2
<1>11. \A b \in found : (\A d \in found : b.pos <= d.pos) => b = seg.batches[c]
  <2> SUFFICES ASSUME NEW b \in found, \A d \in found : b.pos <= d.pos
               PROVE  b = seg.batches[c]
    OBVIOUS
  <2>1. PICK i \in 1 .. k : b = seg.batches[i]
    BY <1>9
  <2>2. b.pos <= seg.batches[c].pos
    BY <1>6
  <2>3. b.pos \in Nat
    BY <1>2, <2>1
  <2>4. i = c
    BY <1>7, <1>31, <2>1, <2>2, <2>3
  <2> QED
    BY <2>1, <2>4
<1>12. (CHOOSE b \in found : \A d \in found : b.pos <= d.pos) = seg.batches[c]
  BY <1>6, <1>10, <1>11
<1> QED
  BY <1>3, <1>8, <1>12

-----------------------------------------------------------------------------
(* Logs. *)

LEMMA LogNumbers ==
    ASSUME NEW act, NEW old, LogOf(act, old)
    PROVE  /\ act \in SegmentType /\ act.base \in Nat /\ EndOffset(act) \in Nat
           /\ act.base <= EndOffset(act)
           /\ \A s \in old : /\ Sound(s) /\ s \in SegmentType /\ s.base \in Nat /\ EndOffset(s) \in Nat
                             /\ s.base < EndOffset(s) /\ EndOffset(s) <= act.base
                             /\ s.base < act.base
<1>1. act \in SegmentType /\ act.base <= EndOffset(act)
  BY DEF LogOf, Sound
<1>2. act.base \in Nat /\ EndOffset(act) \in Nat
  BY <1>1, SegmentFields
<1>3. ASSUME NEW s \in old
      PROVE  /\ Sound(s) /\ s \in SegmentType /\ s.base \in Nat /\ EndOffset(s) \in Nat
             /\ s.base < EndOffset(s) /\ EndOffset(s) <= act.base
             /\ s.base < act.base
  <2>1. Sound(s) /\ s \in SegmentType /\ s.base < EndOffset(s) /\ EndOffset(s) <= act.base
    BY DEF LogOf, Before, Sound
  <2>2. s.base \in Nat /\ EndOffset(s) \in Nat
    BY <2>1, SegmentFields
  <2> QED
    BY <1>2, <2>1, <2>2
<1> QED
  BY <1>1, <1>2, <1>3

LEMMA LogAppend ==
    ASSUME NEW act, NEW old, LogOf(act, old), NEW n \in Nat \ {0}, HasRoom(act, n)
    PROVE  LogOf(AppendBatch(act, n), old)
<1>1. Sound(act) /\ act \in SegmentType /\ act.base <= EndOffset(act)
  BY DEF LogOf, Sound
<1>2. AppendBatch(act, n).base = act.base
  BY <1>1, AppendFields
<1>3. Sound(AppendBatch(act, n))
  BY <1>1, AppendSound
<1> QED
  BY <1>2, <1>3 DEF LogOf

\* The active segment is closed and a new one begins where it ends.
LEMMA LogRoll ==
    ASSUME NEW act, NEW old, LogOf(act, old), act.base < EndOffset(act)
    PROVE  LogOf(EmptySegment(EndOffset(act)), old \cup {Closed(act)})
<1> DEFINE new == EmptySegment(EndOffset(act))
           c == Closed(act)
<1>1. /\ act.base \in Nat /\ EndOffset(act) \in Nat
      /\ \A s \in old : s.base \in Nat /\ EndOffset(s) \in Nat /\ EndOffset(s) <= act.base
  BY LogNumbers
<1>2. c.base = act.base /\ EndOffset(c) = EndOffset(act) /\ Sound(c)
  BY ClosedSame DEF LogOf
<1>3. new.base = EndOffset(act) /\ Sound(new)
  BY <1>1, EmptySound DEF EmptySegment
<1> HIDE DEF new, c
<1>4. \A s \in old \cup {c} : Before(s, new.base)
  <2>1. Before(c, new.base)
    BY <1>1, <1>2, <1>3 DEF Before
  <2>2. ASSUME NEW s \in old PROVE Before(s, new.base)
    <3>1. Sound(s) /\ s.base < EndOffset(s) /\ EndOffset(s) <= act.base
      BY DEF LogOf, Before
    <3>2. EndOffset(s) \in Nat
      BY <1>1
    <3> QED
      BY <1>1, <1>3, <3>1, <3>2 DEF Before
  <2> QED
    BY <2>1, <2>2
<1>5. \A s, t \in old \cup {c} : s = t \/ Apart(s, t)
  BY <1>1, <1>2 DEF LogOf, Apart
<1>6. ASSUME NEW s \in old \cup {c}, NEW o \in Nat, s.base <= o, o < new.base
      PROVE  \E t \in old \cup {c} : Within(o, t)
  <2>1. CASE o < act.base
    <3>1. s \in old
      BY <1>1, <1>2, <1>6, <2>1
    <3> QED
      BY <1>6, <2>1, <3>1 DEF LogOf
  <2>2. CASE ~(o < act.base)
    <3>1. Within(o, c)
      BY <1>1, <1>2, <1>3, <1>6, <2>2 DEF Within
    <3> QED
      BY <3>1
  <2> QED
    BY <2>1, <2>2
<1>7. LogOf(new, old \cup {c})
  BY <1>3, <1>4, <1>5, <1>6 DEF LogOf
<1> QED
  BY <1>7 DEF new, c

\* Segments are removed from the front.
LEMMA LogCut ==
    ASSUME NEW act, NEW old, LogOf(act, old), NEW rest \in SUBSET old,
           \A d \in old \ rest : \A s \in rest : d.base < s.base
    PROVE  LogOf(act, rest)
<1>1. ASSUME NEW s \in rest, NEW o \in Nat, s.base <= o, o < act.base
      PROVE  \E t \in rest : Within(o, t)
  <2>1. PICK t \in old : Within(o, t)
    BY <1>1 DEF LogOf
  <2>2. CASE t \in rest
    BY <2>1, <2>2
  <2>3. CASE t \notin rest
    <3>1. t.base < s.base /\ Apart(s, t)
      BY <2>3 DEF LogOf
    <3>2. /\ s.base \in Nat /\ EndOffset(s) \in Nat /\ t.base \in Nat /\ EndOffset(t) \in Nat
          /\ s.base < EndOffset(s)
      BY LogNumbers
    <3> QED
      BY <1>1, <2>1, <3>1, <3>2 DEF Apart, Within
  <2> QED
    BY <2>2, <2>3
<1> QED
  BY <1>1 DEF LogOf

\* Loading the files again changes nothing that is in them.
LEMMA LogClosed ==
    ASSUME NEW act, NEW old, LogOf(act, old)
    PROVE  LogOf(Closed(act), {Closed(s) : s \in old})
<1> DEFINE new == {Closed(s) : s \in old}
<1>1. Sound(Closed(act)) /\ Closed(act).base = act.base
  BY ClosedSame DEF LogOf
<1>2. \A s \in old : /\ Closed(s).base = s.base /\ EndOffset(Closed(s)) = EndOffset(s)
                     /\ Sound(Closed(s))
  BY ClosedSame, LogNumbers
<1>3. \A s \in old : Before(Closed(s), act.base)
  BY <1>2 DEF LogOf, Before
<1>4. \A s, t \in old : s = t \/ Apart(Closed(s), Closed(t))
  BY <1>2 DEF LogOf, Apart
<1>5. ASSUME NEW s \in old, NEW o \in Nat, s.base <= o, o < act.base
      PROVE  \E t \in new : Within(o, t)
  <2>1. PICK t \in old : Within(o, t)
    BY <1>5 DEF LogOf
  <2>2. Within(o, Closed(t))
    BY <1>2, <2>1 DEF Within
  <2> QED
    BY <2>2
<1>6. \A x \in new : \E s \in old : x = Closed(s)
  OBVIOUS
<1> HIDE DEF new
<1>7. \A x \in new : Before(x, act.base)
  BY <1>3, <1>6
<1>8. \A x, y \in new : x = y \/ Apart(x, y)
  BY <1>4, <1>6
<1>9. \A x \in new : \A o \in Nat : x.base <= o /\ o < act.base => \E t \in new : Within(o, t)
  BY <1>2, <1>5, <1>6
<1>10. LogOf(Closed(act), new)
  BY <1>1, <1>7, <1>8, <1>9 DEF LogOf
<1> QED
  BY <1>10 DEF new

\* A boundary of batches stays one.
LEMMA BoundaryKept ==
    ASSUME NEW act, NEW old, LogOf(act, old), NEW h, Boundary(h, act, old)
    PROVE  /\ \A n \in Nat \ {0} : Boundary(h, AppendBatch(act, n), old)
           /\ Boundary(h, EmptySegment(EndOffset(act)), old \cup {Closed(act)})
           /\ Boundary(h, Closed(act), {Closed(s) : s \in old})
<1>1. Sound(act) /\ act \in SegmentType /\ act.base <= EndOffset(act) /\ EndOffset(act) \in Nat
  BY LogNumbers DEF LogOf
<1>2. h \in Nat /\ h <= EndOffset(act) /\ NotInside(h, act) /\ \A s \in old : NotInside(h, s)
  BY DEF Boundary
<1>3. \A s : Sound(s) /\ NotInside(h, s) => NotInside(h, Closed(s))
  BY ClosedSame DEF NotInside
<1>4. ASSUME NEW n \in Nat \ {0} PROVE Boundary(h, AppendBatch(act, n), old)
  <2> DEFINE new == AppendBatch(act, n)
             k == Len(act.batches)
  <2>1. /\ Len(new.batches) = k + 1
        /\ \A i \in 1 .. k : new.batches[i] = act.batches[i]
        /\ new.batches[k + 1] = [offset |-> EndOffset(act), n |-> n, pos |-> FileLen(act)]
        /\ EndOffset(new) = EndOffset(act) + n
    BY <1>1, AppendFields
  <2>11. new.batches[k + 1].offset = EndOffset(act)
    BY <2>1
  <2>2. k \in Nat
    BY <1>1, SegmentFields
  <2> HIDE DEF new
  <2>3. NotInside(h, new)
    <3> SUFFICES ASSUME NEW i \in 1 .. k + 1
                 PROVE  \/ h <= new.batches[i].offset
                        \/ new.batches[i].offset + new.batches[i].n <= h
      BY <2>1 DEF NotInside
    <3>1. CASE i \in 1 .. k
      BY <1>2, <2>1, <3>1 DEF NotInside
    <3>2. CASE i = k + 1
      BY <1>2, <2>11, <3>2
    <3> QED
      BY <2>2, <3>1, <3>2
  <2>4. h <= EndOffset(new)
    BY <1>1, <1>2, <2>1
  <2>5. Boundary(h, new, old)
    BY <1>2, <2>3, <2>4 DEF Boundary
  <2> QED
    BY <2>5 DEF new
<1>5. Boundary(h, EmptySegment(EndOffset(act)), old \cup {Closed(act)})
  <2>1. EndOffset(EmptySegment(EndOffset(act))) = EndOffset(act)
    BY <1>1, EmptySound
  <2>2. NotInside(h, EmptySegment(EndOffset(act)))
    BY EmptySeq DEF NotInside, EmptySegment
  <2> QED
    BY <1>1, <1>2, <1>3, <2>1, <2>2 DEF Boundary
<1>6. Boundary(h, Closed(act), {Closed(s) : s \in old})
  <2>1. EndOffset(Closed(act)) = EndOffset(act) /\ NotInside(h, Closed(act))
    BY <1>1, <1>2, <1>3, ClosedSame
  <2>2. \A s \in old : NotInside(h, Closed(s))
    BY <1>2, <1>3, LogNumbers
  <2> QED
    BY <1>2, <2>1, <2>2 DEF Boundary
<1> QED
  BY <1>4, <1>5, <1>6

-----------------------------------------------------------------------------
(* The steps. *)

LEMMA NotNone ==
    ASSUME NEW seg \in SegmentType
    PROVE  seg # None
<1>1. "base" \in DOMAIN seg
  BY DEF SegmentType
<1>2. "base" \notin DOMAIN None
  BY DEF None
<1> QED
  BY <1>1, <1>2, Zenon

LEMMA BatchNotNone ==
    ASSUME NEW b \in BatchType
    PROVE  b # None
<1>1. "pos" \in DOMAIN b
  BY DEF BatchType
<1>2. "pos" \notin DOMAIN None
  BY DEF None
<1> QED
  BY <1>1, <1>2, Zenon

LEMMA StorageInit == Init => StorageInv
<1> SUFFICES ASSUME Init PROVE StorageInv
  OBVIOUS
<1>1. Sound(active) /\ EndOffset(active) = 0 /\ Old = {}
  BY EmptySound DEF Init, Old
<1>2. LogOf(active, Old)
  BY <1>1 DEF LogOf
<1>3. Boundary(0, active, Old)
  BY <1>1, EmptySeq DEF Boundary, NotInside, Init, EmptySegment
<1>4. CleanerInv
  BY DEF Init, CleanerInv, Idle
<1>5. WriterInv
  <2>1. todo \in Seq(Writable)
    BY EmptySeq DEF Init
  <2>2. acked = 0 /\ Leo = 0
    BY <1>1 DEF Init, Leo
  <2>3. acked \in Nat /\ acked <= Leo
    BY <2>2
  <2>4. short \in BOOLEAN /\ torn = NotTorn
    BY DEF Init
  <2> QED
    BY <2>1, <2>3, <2>4, Zenon DEF WriterInv
<1> QED
  BY <1>2, <1>3, <1>4, <1>5 DEF Init, StorageInv, SegmentsInv

\* The batch that a write goes on with.
LEMMA NextBatch ==
    ASSUME StorageInv, todo # <<>>
    PROVE  /\ Head(todo) \in Nat \ {0} /\ Bytes(Head(todo)) <= SegmentMax
           /\ Tail(todo) \in Seq(Writable)
<1>1. Head(todo) \in Writable /\ Tail(todo) \in Seq(Writable)
  BY HeadTailProperties DEF StorageInv, WriterInv
<1> QED
  BY <1>1, StorageAssumption DEF Writable

\* A segment that has no room has records.
LEMMA FullHasRecords ==
    ASSUME NEW seg, Sound(seg), NEW n \in Nat, ~HasRoom(seg, n), Bytes(n) <= SegmentMax
    PROVE  seg.base < EndOffset(seg)
<1> DEFINE k == Len(seg.batches)
<1>1. /\ seg.base \in Nat /\ seg.batches \in Seq(BatchType) /\ k \in Nat
      /\ \A i \in 1 .. k : seg.batches[i].offset \in Nat /\ seg.batches[i].n \in Nat \ {0}
  BY SegmentFields DEF Sound
<1>2. seg.batches # <<>>
  <2> SUFFICES ASSUME seg.batches = <<>> PROVE FALSE
    OBVIOUS
  <2>1. FileLen(seg) = 0 /\ Bytes(n) \in Nat
    BY DEF FileLen, Bytes
  <2> QED
    BY <2>1 DEF HasRoom
<1>3. k \in 1 .. k
  BY <1>1, <1>2, EmptySeq
<1>4. EndOffset(seg) = seg.batches[k].offset + seg.batches[k].n /\ seg.base <= seg.batches[k].offset
  BY <1>2, <1>3 DEF EndOffset, Last, Sound, Inside
<1>5. seg.batches[k].offset \in Nat /\ seg.batches[k].n \in Nat \ {0}
  BY <1>1, <1>3
<1> QED
  BY <1>1, <1>4, <1>5

\* A segment that is closed and not listed is the last of the closed ones.
LEMMA RollingLast ==
    ASSUME SegmentsInv, rolling # None, NEW s \in prev \cup doomed
    PROVE  s.base < rolling.base
<1>1. rolling \in Old /\ s \in Old /\ s # rolling
  BY DEF Old, SegmentsInv
<1>2. Apart(s, rolling)
  BY <1>1 DEF SegmentsInv, LogOf
<1>3. /\ s.base \in Nat /\ EndOffset(s) \in Nat /\ s.base < EndOffset(s) /\ s.base < active.base
      /\ rolling.base \in Nat /\ active.base \in Nat
  BY <1>1, LogNumbers DEF SegmentsInv
<1> QED
  BY <1>2, <1>3 DEF Apart, SegmentsInv

\* roll_over closes the active segment.
RollsOver ==
    /\ active' = EmptySegment(EndOffset(active)) /\ rolling' = Closed(active)
    /\ rolling = None /\ ~HasRoom(active, Head(todo)) /\ todo # <<>>
    /\ UNCHANGED <<prev, doomed>>

\* The steps that change the segments.
LEMMA SegmentSteps ==
    ASSUME [Next]_vars
    PROVE  \/ UNCHANGED <<active, prev, rolling, doomed>>
           \/ WriteBatch \/ RollsOver \/ AddSegment \/ Unlink \/ Unlinked \/ Restart
  BY DEF Next, Write, Clean, vars, log, WriteRecordset, RollOver, WriteFails, RollOverFails,
         WriteRefused, WriteDone, UpdateHighWatermark, SaveCheckpoint, MeasureSize, ChooseFirst,
         ChooseExpired, StorePrev, RollsOver, MayWrite, NextBase

\* The last file is the active segment: Restart loads it as such, as it is, and
\* the others as closed segments.
LEMMA RestartFiles ==
    ASSUME StorageInv, Restart
    PROVE  /\ active' = Closed(active) /\ prev' = {Closed(s) : s \in Old}
           /\ rolling' = None /\ doomed' = {}
<1> DEFINE files == prev \cup {active} \cup doomed \cup ({rolling} \ {None})
           last == CHOOSE s \in files : \A t \in files : t.base <= s.base
           Garbage == {torn} \cup (IF MayWrite /\ torn = NotTorn THEN {Len(active.batches)} ELSE {})
<1>1. files = Old \cup {active}
  BY DEF Old
<1>2. active.base \in Nat /\ \A s \in Old : s.base \in Nat /\ s.base < active.base
  BY LogNumbers DEF StorageInv, SegmentsInv
<1>3. last = active
  <2>1. \A t \in files : t.base <= active.base
    BY <1>1, <1>2
  <2>2. \A s \in files : (\A t \in files : t.base <= s.base) => s = active
    BY <1>1, <1>2
  <2> QED
    BY <1>1, <2>1, <2>2
<1>4. files \ {last} = Old
  BY <1>1, <1>2, <1>3
<1>5. PICK garbage \in Garbage : active' = Repaired(last, garbage) /\ prev' = {Closed(s) : s \in files \ {last}}
  BY DEF Restart
<1>6. garbage = NotTorn \/ garbage = Len(active.batches)
  BY DEF StorageInv, WriterInv
<1>7. Sound(active)
  BY DEF StorageInv, SegmentsInv, LogOf
<1> HIDE DEF files, last, Garbage
<1>8. active' = Closed(active)
  BY <1>3, <1>5, <1>6, <1>7, RepairedSame
<1>9. prev' = {Closed(s) : s \in Old}
  BY <1>4, <1>5
<1> QED
  BY <1>8, <1>9 DEF Restart

\* Every step keeps the segments, and a boundary of batches; the log's end
\* never moves back.
LEMMA SegmentsStep ==
    ASSUME StorageInv, [Next]_vars
    PROVE  /\ SegmentsInv' /\ Leo <= Leo'
           /\ \A h : Boundary(h, active, Old) => Boundary(h, active', Old')
<1>1. LogOf(active, Old) /\ SegmentsInv
  BY DEF StorageInv, SegmentsInv
<1>2. Leo \in Nat /\ Sound(active) /\ active \in SegmentType /\ active.base <= EndOffset(active)
  BY <1>1, LogNumbers DEF Leo, LogOf
<1>3. CASE UNCHANGED <<active, prev, rolling, doomed>>
  BY <1>1, <1>2, <1>3 DEF SegmentsInv, Old, Leo
<1>4. CASE WriteBatch
  <2>1. /\ todo # <<>> /\ HasRoom(active, Head(todo)) /\ active' = AppendBatch(active, Head(todo))
        /\ UNCHANGED <<prev, rolling, doomed>> /\ rolling = None
    BY <1>4 DEF WriteBatch, MayWrite
  <2>2. Head(todo) \in Nat \ {0}
    BY <2>1, NextBatch
  <2>3. Old' = Old
    BY <2>1 DEF Old
  <2>4. LogOf(active', Old)
    BY <1>1, <2>1, <2>2, LogAppend
  <2>5. \A h : Boundary(h, active, Old) => Boundary(h, active', Old)
    BY <1>1, <2>1, <2>2, BoundaryKept
  <2>6. EndOffset(active') = EndOffset(active) + Head(todo)
    BY <1>2, <2>1, <2>2, AppendFields
  <2> QED
    BY <1>2, <2>1, <2>2, <2>3, <2>4, <2>5, <2>6 DEF SegmentsInv, Leo
<1>5. CASE RollsOver
  <2>1. active.base < EndOffset(active)
    BY <1>2, <1>5, NextBatch, FullHasRecords DEF RollsOver
  <2>2. /\ active' = EmptySegment(EndOffset(active)) /\ rolling' = Closed(active)
        /\ UNCHANGED <<prev, doomed>> /\ rolling = None
    BY <1>5 DEF RollsOver
  <2>3. /\ Closed(active).base = active.base /\ EndOffset(Closed(active)) = EndOffset(active)
        /\ Sound(Closed(active)) /\ Closed(active) # None
    BY <1>2, ClosedSame, NotNone DEF Sound
  <2>4. Old' = Old \cup {Closed(active)}
    BY <2>2, <2>3 DEF Old
  <2>5. LogOf(active', Old')
    BY <1>1, <2>1, <2>2, <2>4, LogRoll
  <2>6. \A h : Boundary(h, active, Old) => Boundary(h, active', Old')
    BY <1>1, <2>2, <2>4, BoundaryKept
  <2>7. EndOffset(active') = EndOffset(active) /\ active'.base = EndOffset(active)
    BY <1>2, <2>2, EmptySound DEF Leo, EmptySegment
  <2>8. Closed(active) \notin prev \cup doomed
    <3>1. \A s \in prev \cup doomed : s.base \in Nat /\ s.base < active.base
      BY <1>1, LogNumbers DEF Old
    <3>2. active.base \in Nat
      BY <1>1, LogNumbers
    <3> QED
      BY <2>3, <3>1, <3>2
  <2> QED
    BY <1>2, <2>2, <2>3, <2>5, <2>6, <2>7, <2>8 DEF SegmentsInv, Leo
<1>6. CASE AddSegment
  <2>1. /\ rolling # None /\ prev' = prev \cup {rolling} /\ rolling' = None
        /\ UNCHANGED <<active, doomed>>
    BY <1>6 DEF AddSegment
  <2>2. Old' = Old
    BY <2>1 DEF Old
  <2> QED
    BY <1>1, <1>2, <2>1, <2>2 DEF SegmentsInv, Leo
<1>7. CASE Unlink
  <2>1. PICK gone \in SUBSET prev : prev' = prev \ gone /\ doomed' = gone
    BY <1>7 DEF Unlink
  <2>2. doomed = {} /\ UNCHANGED <<active, rolling>>
    BY <1>7 DEF Unlink, StorageInv, CleanerInv
  <2>3. Old' = Old /\ prev' \cup doomed' = prev \cup doomed
    BY <2>1, <2>2 DEF Old
  <2> QED
    BY <1>1, <1>2, <2>2, <2>3 DEF SegmentsInv, Leo
<1>8. CASE Unlinked
  <2>1. doomed' = {} /\ UNCHANGED <<active, prev, rolling>>
    BY <1>8 DEF Unlinked
  <2>2. Old' \subseteq Old /\ Old \ Old' \subseteq doomed
    BY <2>1 DEF Old
  <2>3. \A d \in Old \ Old' : \A s \in Old' : d.base < s.base
    <3> SUFFICES ASSUME NEW d \in doomed, NEW s \in Old'
                 PROVE  d.base < s.base
      BY <2>2
    <3>1. CASE s \in prev
      BY <3>1 DEF StorageInv, CleanerInv
    <3>2. CASE s = rolling /\ rolling # None
      BY <1>1, <3>2, RollingLast
    <3> QED
      BY <2>1, <3>1, <3>2 DEF Old
  <2>4. LogOf(active, Old')
    BY <1>1, <2>2, <2>3, LogCut
  <2>5. \A h : Boundary(h, active, Old) => Boundary(h, active, Old')
    BY <2>2 DEF Boundary
  <2> QED
    BY <1>1, <1>2, <2>1, <2>4, <2>5 DEF SegmentsInv, Leo
<1>9. CASE Restart
  <2>1. /\ active' = Closed(active) /\ prev' = {Closed(s) : s \in Old}
        /\ rolling' = None /\ doomed' = {}
    BY <1>9, RestartFiles
  <2>2. Old' = {Closed(s) : s \in Old}
    BY <2>1 DEF Old
  <2>3. LogOf(active', Old')
    BY <1>1, <2>1, <2>2, LogClosed
  <2>4. \A h : Boundary(h, active, Old) => Boundary(h, active', Old')
    BY <1>1, <2>1, <2>2, BoundaryKept
  <2>5. EndOffset(active') = EndOffset(active)
    BY <1>2, <2>1, ClosedSame
  <2> QED
    BY <1>2, <2>1, <2>3, <2>4, <2>5 DEF SegmentsInv, Leo
<1> QED
  BY <1>3, <1>4, <1>5, <1>6, <1>7, <1>8, <1>9, SegmentSteps

-----------------------------------------------------------------------------
(* The cleaner's steps. *)

LEMMA MinBaseIsLeast ==
    ASSUME NEW segs, segs # {}, \A s \in segs : s.base \in Nat
    PROVE  /\ MinBase(segs) \in Nat
           /\ \E s \in segs : s.base = MinBase(segs)
           /\ \A s \in segs : MinBase(segs) <= s.base
<1> DEFINE T == {s.base : s \in segs}
<1>1. T \in SUBSET Nat /\ T # {}
  OBVIOUS
<1>2. Min(T) \in T /\ \A y \in T : Min(T) <= y
  BY <1>1, MinIsLeast
<1>3. MinBase(segs) = Min(T)
  BY DEF MinBase
<1> QED
  BY <1>1, <1>2, <1>3

\* The least base stays when a later segment is added.
LEMMA MinBaseAdd ==
    ASSUME NEW segs, segs # {}, \A s \in segs : s.base \in Nat,
           NEW t, t.base \in Nat, \A s \in segs : s.base < t.base
    PROVE  MinBase(segs \cup {t}) = MinBase(segs)
<1> DEFINE all == segs \cup {t}
<1>1. all # {} /\ \A s \in all : s.base \in Nat
  OBVIOUS
<1>2. /\ MinBase(all) \in Nat
      /\ \E s \in all : s.base = MinBase(all)
      /\ \A s \in all : MinBase(all) <= s.base
  BY <1>1, MinBaseIsLeast
<1>3. /\ MinBase(segs) \in Nat
      /\ \E s \in segs : s.base = MinBase(segs)
      /\ \A s \in segs : MinBase(segs) <= s.base
  BY MinBaseIsLeast
<1>4. PICK a \in all : a.base = MinBase(all)
  BY <1>2
<1>5. PICK b \in segs : b.base = MinBase(segs)
  BY <1>3
<1>6. MinBase(all) <= MinBase(segs)
  BY <1>2, <1>5
<1>7. MinBase(segs) <= MinBase(all)
  <2>1. CASE a \in segs
    BY <1>3, <1>4, <2>1
  <2>2. CASE a = t
    BY <1>3, <1>4, <1>5, <2>2
  <2> QED
    BY <2>1, <2>2
<1> QED
  BY <1>2, <1>3, <1>6, <1>7

\* Victims are bases of the list, and with one all smaller ones.
AtFront(victims, segs) ==
    /\ \A v \in victims : \E s \in segs : s.base = v
    /\ \A v \in victims : \A s \in segs : s.base < v => s.base \in victims

LEMMA FirstBasesFront ==
    ASSUME NEW segs, \A s \in segs : s.base \in Nat, NEW count
    PROVE  AtFront(FirstBases(segs, count), segs)
<1> DEFINE bases == {s.base : s \in segs}
           Few(c) == Cardinality({d \in bases : d < c}) < count
           F == {b \in bases : \A c \in bases : c <= b => Few(c)}
<1>1. FirstBases(segs, count) = F
  BY DEF FirstBases
<1>2. bases \subseteq Nat /\ \A s \in segs : s.base \in bases
  OBVIOUS
<1>3. \A v \in F : \E s \in segs : s.base = v
  OBVIOUS
<1> HIDE DEF Few
<1>4. \A v \in F : \A s \in segs : s.base < v => s.base \in F
  <2> SUFFICES ASSUME NEW v \in F, NEW s \in segs, s.base < v
               PROVE  \A c \in bases : c <= s.base => Few(c)
    BY <1>2
  <2> SUFFICES ASSUME NEW c \in bases, c <= s.base
               PROVE  Few(c)
    OBVIOUS
  <2>1. c \in Nat /\ s.base \in Nat /\ v \in Nat
    BY <1>2
  <2>2. c <= v
    BY <2>1
  <2> QED
    BY <2>2
<1> HIDE DEF F
<1> QED
  BY <1>1, <1>3, <1>4 DEF AtFront

\* The steps that the cleaner's invariant is about.
LEMMA CleanerSteps ==
    ASSUME [Next]_vars
    PROVE  \/ UNCHANGED <<clean, doomed, prev, minOffset>>
           \/ AddSegment \/ MeasureSize \/ ChooseFirst \/ ChooseExpired \/ Unlink \/ Unlinked
           \/ StorePrev \/ Restart
  BY DEF Next, Write, Clean, vars, log, WriteRecordset, WriteBatch, RollOver, WriteFails,
         RollOverFails, WriteRefused, WriteDone, UpdateHighWatermark, SaveCheckpoint

LEMMA CleanerStep ==
    ASSUME StorageInv, [Next]_vars
    PROVE  CleanerInv'
<1>0. CleanerInv /\ SegmentsInv
  BY DEF StorageInv
<1>1. \A s \in Old : s.base \in Nat
  BY <1>0, LogNumbers DEF SegmentsInv
<1>2. \A s \in prev : s.base \in Nat
  BY <1>1 DEF Old
<1>3. CASE UNCHANGED <<clean, doomed, prev, minOffset>>
  BY <1>0, <1>3 DEF CleanerInv
<1>4. CASE AddSegment
  <2>1. /\ rolling # None /\ prev' = prev \cup {rolling} /\ UNCHANGED <<doomed, clean>>
        /\ minOffset' = MinBase(prev')
    BY <1>4 DEF AddSegment
  <2>2. \A s \in prev \cup doomed : s.base < rolling.base
    BY <1>0, <2>1, RollingLast
  <2>3. rolling.base \in Nat
    BY <1>1, <2>1 DEF Old
  <2>4. \A d \in doomed : \A s \in prev' : d.base < s.base
    BY <1>0, <2>1, <2>2 DEF CleanerInv
  <2>5. \A v \in clean.victims : \A s \in prev' : s.base < v => s.base \in clean.victims
    <3> SUFFICES ASSUME NEW v \in clean.victims, NEW s \in prev', s.base < v
                 PROVE  s.base \in clean.victims
      OBVIOUS
    <3>1. PICK t \in prev : t.base = v
      BY <1>0 DEF CleanerInv
    <3>2. s # rolling
      BY <1>2, <2>2, <2>3, <3>1
    <3> QED
      BY <1>0, <2>1, <3>2 DEF CleanerInv
  <2>6. prev # {} => MinBase(prev') = MinBase(prev)
    BY <1>2, <2>1, <2>2, <2>3, MinBaseAdd
  <2>7. clean.min \in {-1, MinBase(prev)} => clean.min \in {-1, MinBase(prev')}
    BY <2>6 DEF MinBase
  <2> QED
    BY <1>0, <2>1, <2>4, <2>5, <2>7 DEF CleanerInv
<1>5. CASE MeasureSize
  <2>1. clean' \in {[Idle EXCEPT !.pc = "ttl"]}
             \cup {[Idle EXCEPT !.pc = "choose", !.count = c] : c \in {SegmentsOver(size.prev + size.active - PartitionMax)}}
    BY <1>5 DEF MeasureSize
  <2>2. clean'.pc \in {"ttl", "choose"} /\ clean'.victims = {}
        /\ clean' = [pc |-> clean'.pc, count |-> clean'.count, victims |-> clean'.victims,
                     min |-> clean'.min, after |-> clean'.after]
    BY <2>1 DEF Idle
  <2>3. clean.pc # "store" /\ UNCHANGED <<prev, doomed, minOffset>>
    BY <1>5 DEF MeasureSize, log
  <2> QED
    BY <1>0, <2>2, <2>3 DEF CleanerInv
<1>6. CASE ChooseFirst
  <2>1. /\ clean.pc = "choose" /\ UNCHANGED <<prev, doomed, minOffset>>
        /\ clean' = [clean EXCEPT !.pc = "unlink", !.victims = FirstBases(prev, clean.count), !.after = "ttl"]
    BY <1>6 DEF ChooseFirst, log
  <2>2. /\ clean'.pc = "unlink" /\ clean'.victims = FirstBases(prev, clean.count)
        /\ clean' = [pc |-> clean'.pc, count |-> clean'.count, victims |-> clean'.victims,
                     min |-> clean'.min, after |-> clean'.after]
    BY <1>0, <2>1 DEF CleanerInv
  <2>3. AtFront(clean'.victims, prev)
    BY <1>2, <2>2, FirstBasesFront
  <2> QED
    BY <1>0, <2>1, <2>2, <2>3 DEF CleanerInv, AtFront
<1>7. CASE ChooseExpired
  <2>1. PICK k : clean' = IF k = 0 THEN Idle
                          ELSE [Idle EXCEPT !.pc = "unlink", !.victims = FirstBases(prev, k), !.after = "size"]
    BY <1>7 DEF ChooseExpired
  <2>2. clean.pc = "ttl" /\ UNCHANGED <<prev, doomed, minOffset>>
    BY <1>7 DEF ChooseExpired, log
  <2>3. /\ clean'.pc # "store" /\ clean'.victims \in {{}, FirstBases(prev, k)}
        /\ clean' = [pc |-> clean'.pc, count |-> clean'.count, victims |-> clean'.victims,
                     min |-> clean'.min, after |-> clean'.after]
    BY <2>1 DEF Idle
  <2>4. AtFront(clean'.victims, prev)
    <3>1. AtFront(FirstBases(prev, k), prev)
      BY <1>2, FirstBasesFront
    <3>2. AtFront({}, prev)
      BY DEF AtFront
    <3> QED
      BY <2>3, <3>1, <3>2, Zenon
  <2> QED
    BY <1>0, <2>2, <2>3, <2>4 DEF CleanerInv, AtFront
<1>8. CASE Unlink
  <2> DEFINE first == Min(clean.victims)
             gone == {s \in prev : s.base = first}
  <2>1. /\ clean.pc = "unlink" /\ clean.victims # {} /\ prev' = prev \ gone /\ doomed' = gone
        /\ clean' = [clean EXCEPT !.pc = "store", !.victims = clean.victims \ {first}, !.min = MinBase(prev')]
    BY <1>8 DEF Unlink
  <2>2. clean.victims \in SUBSET Nat
    BY <1>0, <1>2 DEF CleanerInv
  <2>3. first \in clean.victims /\ \A v \in clean.victims : first <= v
    BY <2>1, <2>2, MinIsLeast
  <2>4. /\ clean'.pc = "store" /\ clean'.victims = clean.victims \ {first} /\ clean'.min = MinBase(prev')
        /\ clean' = [pc |-> clean'.pc, count |-> clean'.count, victims |-> clean'.victims,
                     min |-> clean'.min, after |-> clean'.after]
    BY <1>0, <2>1 DEF CleanerInv
  <2>5. first \in Nat /\ \A s \in prev' : s \in prev /\ s.base # first
    BY <2>1, <2>2, <2>3
  <2>6. \A d \in doomed' : \A s \in prev' : d.base < s.base
    <3> SUFFICES ASSUME NEW s \in prev' PROVE first < s.base
      BY <2>1
    <3>1. s.base \in Nat /\ s.base # first
      BY <1>2, <2>5
    <3>2. s.base < first => s.base \in clean.victims
      BY <1>0, <2>3, <2>5 DEF CleanerInv
    <3> QED
      BY <2>3, <2>5, <3>1, <3>2
  <2>7. \A v \in clean'.victims : \E s \in prev' : s.base = v
    BY <1>0, <2>1, <2>4 DEF CleanerInv
  <2>8. \A v \in clean'.victims : \A s \in prev' : s.base < v => s.base \in clean'.victims
    BY <1>0, <2>4, <2>5 DEF CleanerInv
  <2> HIDE DEF first, gone
  <2> QED
    BY <2>4, <2>6, <2>7, <2>8 DEF CleanerInv
<1>9. CASE Unlinked
  <2>1. /\ clean.pc = "store" /\ minOffset' = clean.min /\ doomed' = {} /\ prev' = prev
        /\ clean' = [clean EXCEPT !.pc = "unlink"]
    BY <1>9 DEF Unlinked
  <2>2. /\ clean'.pc = "unlink" /\ clean'.victims = clean.victims
        /\ clean' = [pc |-> clean'.pc, count |-> clean'.count, victims |-> clean'.victims,
                     min |-> clean'.min, after |-> clean'.after]
    BY <1>0, <2>1 DEF CleanerInv
  <2> QED
    BY <1>0, <2>1, <2>2 DEF CleanerInv
<1>10. CASE StorePrev
  <2>1. /\ clean.pc = "unlink" /\ UNCHANGED <<prev, doomed, minOffset>>
        /\ clean' = [Idle EXCEPT !.pc = clean.after]
    BY <1>10 DEF StorePrev, log
  <2>2. /\ clean'.victims = {} /\ clean'.min = -1
        /\ clean' = [pc |-> clean'.pc, count |-> clean'.count, victims |-> clean'.victims,
                     min |-> clean'.min, after |-> clean'.after]
    BY <2>1 DEF Idle
  <2> QED
    BY <1>0, <2>1, <2>2 DEF CleanerInv
<1>11. CASE Restart
  <2>1. clean' = Idle /\ doomed' = {} /\ minOffset' = MinBase(prev')
    BY <1>11 DEF Restart
  <2> QED
    BY <2>1 DEF CleanerInv, Idle
<1> QED
  BY <1>3, <1>4, <1>5, <1>6, <1>7, <1>8, <1>9, <1>10, <1>11, CleanerSteps

-----------------------------------------------------------------------------
(* The writer's steps and the high watermark. *)

LEMMA RecordSetWritable ==
    ASSUME NEW set \in RecordSets, \A i \in 1 .. Len(set) : Bytes(set[i]) <= SegmentMax
    PROVE  set \in Seq(Writable)
<1>1. PICK k \in 1 .. MaxBatches : set \in [1 .. k -> BatchLens]
  BY DEF RecordSets
<1>2. k \in Nat
  BY <1>1, StorageAssumption
<1>3. Len(set) = k
  <2>1. set \in Seq(BatchLens)
    BY <1>1, <1>2, SeqDef
  <2>2. DOMAIN set = 1 .. k /\ DOMAIN set = 1 .. Len(set) /\ Len(set) \in Nat
    BY <1>1, <2>1, LenProperties
  <2> QED
    BY <1>2, <2>2
<1>4. \A i \in 1 .. k : set[i] \in Writable
  BY <1>1, <1>3 DEF Writable
<1> HIDE DEF Writable
<1>5. set \in [1 .. k -> Writable]
  BY <1>1, <1>4
<1> QED
  BY <1>2, <1>5, SeqDef

\* The steps that the writer's state is about.
LEMMA WriterSteps ==
    ASSUME [Next]_vars
    PROVE  \/ UNCHANGED <<todo, short, torn, acked, active>>
           \/ WriteRecordset \/ WriteBatch \/ RollOver \/ WriteFails \/ RollOverFails
           \/ WriteRefused \/ WriteDone \/ Restart
  BY DEF Next, Write, Clean, vars, log, writer, AddSegment, UpdateHighWatermark, SaveCheckpoint,
         MeasureSize, ChooseFirst, ChooseExpired, Unlink, Unlinked, StorePrev

LEMMA WriterStep ==
    ASSUME StorageInv, [Next]_vars
    PROVE  WriterInv'
<1>0. /\ short \in BOOLEAN /\ todo \in Seq(Writable)
      /\ torn = NotTorn \/ (short /\ torn = Len(active.batches))
      /\ acked \in Nat /\ acked <= Leo
  BY DEF StorageInv, WriterInv
<1>1. Leo \in Nat /\ Leo' \in Nat /\ Leo <= Leo'
  BY SegmentsStep, LogNumbers DEF StorageInv, SegmentsInv, Leo
<1>2. <<>> \in Seq(Writable)
  BY EmptySeq
<1>3. acked' \in {acked, Leo}
  BY DEF Next, Write, Clean, vars, log, writer, AddSegment, UpdateHighWatermark, SaveCheckpoint,
         MeasureSize, ChooseFirst, ChooseExpired, Unlink, Unlinked, StorePrev, WriteRecordset,
         WriteBatch, RollOver, WriteFails, RollOverFails, WriteRefused, WriteDone, Restart
<1>4. acked' \in Nat /\ acked' <= Leo'
  <2>1. CASE acked' = acked
    BY <1>0, <1>1, <2>1
  <2>2. CASE acked' = Leo
    BY <1>1, <2>2
  <2> QED
    BY <1>3, <2>1, <2>2
<1> DEFINE Rest == /\ short' \in BOOLEAN /\ todo' \in Seq(Writable)
                   /\ torn' = NotTorn \/ (short' /\ torn' = Len(active'.batches))
<1>5. CASE UNCHANGED <<todo, short, torn, acked, active>>
  <2>1. Rest
    BY <1>0, <1>5, Zenon
  <2> QED
    BY <1>4, <2>1, Zenon DEF WriterInv
<1>6. CASE WriteRecordset
  <2>1. UNCHANGED <<short, torn, active>>
    BY <1>6 DEF WriteRecordset, log
  <2>2. todo' \in Seq(Writable)
    <3>1. PICK set \in RecordSets : /\ \A i \in 1 .. Len(set) : Bytes(set[i]) <= SegmentMax
                                    /\ todo' = set
      BY <1>6, Zenon DEF WriteRecordset
    <3> QED
      BY <3>1, RecordSetWritable
  <2>3. Rest
    BY <1>0, <2>1, <2>2, Zenon
  <2> QED
    BY <1>4, <2>3, Zenon DEF WriterInv
<1>7. CASE WriteBatch
  <2>1. todo # <<>> /\ ~short /\ UNCHANGED <<short, torn>> /\ todo' = Tail(todo)
    BY <1>7 DEF WriteBatch, MayWrite
  <2>2. todo' \in Seq(Writable)
    BY <2>1, NextBatch
  <2>3. Rest
    BY <1>0, <2>1, <2>2, Zenon
  <2> QED
    BY <1>4, <2>3, Zenon DEF WriterInv
<1>8. CASE RollOver
  <2>1. ~short /\ UNCHANGED <<short, torn, todo>>
    BY <1>8 DEF RollOver, MayWrite, writer
  <2>2. Rest
    BY <1>0, <2>1, Zenon
  <2> QED
    BY <1>4, <2>2, Zenon DEF WriterInv
<1>9. CASE WriteFails
  <2>1. /\ torn' \in {NotTorn, Len(active.batches)} /\ active' = active
        /\ short' = TRUE /\ todo' = <<>>
    BY <1>9 DEF WriteFails
  <2>2. Rest
    BY <1>2, <2>1, Zenon
  <2> QED
    BY <1>4, <2>2, Zenon DEF WriterInv
<1>10. CASE RollOverFails
  <2>1. ~short /\ torn' = torn /\ short' = TRUE /\ todo' = <<>>
    BY <1>10 DEF RollOverFails, MayWrite
  <2>2. Rest
    BY <1>0, <1>2, <2>1, Zenon
  <2> QED
    BY <1>4, <2>2, Zenon DEF WriterInv
<1>11. CASE WriteRefused
  <2>1. UNCHANGED <<short, torn, active>> /\ todo' = <<>>
    BY <1>11 DEF WriteRefused, log
  <2>2. Rest
    BY <1>0, <1>2, <2>1, Zenon
  <2> QED
    BY <1>4, <2>2, Zenon DEF WriterInv
<1>12. CASE WriteDone
  <2>1. UNCHANGED <<short, torn, active, todo>>
    BY <1>12 DEF WriteDone, log
  <2>2. Rest
    BY <1>0, <2>1, Zenon
  <2> QED
    BY <1>4, <2>2, Zenon DEF WriterInv
<1>13. CASE Restart
  <2>1. short' = FALSE /\ torn' = NotTorn /\ todo' = <<>>
    BY <1>13 DEF Restart
  <2>2. Rest
    BY <1>2, <2>1, Zenon
  <2> QED
    BY <1>4, <2>2, Zenon DEF WriterInv
<1> HIDE DEF Rest
<1> QED
  BY <1>5, <1>6, <1>7, <1>8, <1>9, <1>10, <1>11, <1>12, <1>13, WriterSteps

\* The end of a batch lies in no other batch of the log.
LEMMA EndIsBoundary ==
    ASSUME NEW act, NEW old, LogOf(act, old), NEW s \in old \cup {act},
           NEW i \in 1 .. Len(s.batches)
    PROVE  Boundary(s.batches[i].offset + s.batches[i].n, act, old)
<1> DEFINE h == s.batches[i].offset + s.batches[i].n
<1>1. \A t \in old \cup {act} : Sound(t) /\ t \in SegmentType /\ t.base \in Nat /\ EndOffset(t) \in Nat
                              /\ EndOffset(t) <= EndOffset(act)
  <2>1. \A t \in old : Sound(t) /\ t \in SegmentType /\ t.base \in Nat /\ EndOffset(t) \in Nat
                       /\ EndOffset(t) <= act.base
    BY LogNumbers
  <2>2. act \in SegmentType /\ act.base \in Nat /\ EndOffset(act) \in Nat /\ act.base <= EndOffset(act) /\ Sound(act)
    BY LogNumbers DEF LogOf
  <2>3. ASSUME NEW t \in old PROVE EndOffset(t) <= EndOffset(act)
    BY <2>1, <2>2
  <2> QED
    BY <2>1, <2>2, <2>3
<1>2. \A t \in old \cup {act} : t = s \/ Apart(s, t)
  <2>1. \A t \in old : EndOffset(t) <= act.base
    BY LogNumbers
  <2> QED
    BY <2>1 DEF LogOf, Apart
<1>3. /\ s.batches[i].offset \in Nat /\ s.batches[i].n \in Nat /\ h \in Nat
      /\ s.base <= s.batches[i].offset /\ h <= EndOffset(s)
      /\ s.base \in Nat /\ EndOffset(s) \in Nat /\ s.batches[i].offset <= h
  <2>1. s.batches[i].offset \in Nat /\ s.batches[i].n \in Nat
    BY <1>1, SegmentFields
  <2>2. s.base <= s.batches[i].offset /\ h <= EndOffset(s)
    BY <1>1 DEF Sound, Inside
  <2> QED
    BY <1>1, <2>1, <2>2
<1>4. ASSUME NEW t \in old \cup {act}, NEW j \in 1 .. Len(t.batches)
      PROVE  h <= t.batches[j].offset \/ t.batches[j].offset + t.batches[j].n <= h
  <2>1. /\ t.batches[j].offset \in Nat /\ t.batches[j].n \in Nat
        /\ t.base \in Nat /\ EndOffset(t) \in Nat
    BY <1>1, SegmentFields
  <2>2. t.base <= t.batches[j].offset /\ t.batches[j].offset + t.batches[j].n <= EndOffset(t)
    BY <1>1 DEF Sound, Inside
  <2>3. CASE t = s
    <3>1. CASE i < j
      BY <1>1, <2>3, <3>1 DEF Sound, Ordered
    <3>2. CASE j < i
      <4>1. t.batches[j].offset + t.batches[j].n <= s.batches[i].offset
        BY <1>1, <2>3, <3>2 DEF Sound, Ordered
      <4> DEFINE e == t.batches[j].offset + t.batches[j].n
      <4>2. e \in Nat /\ e <= s.batches[i].offset
        BY <2>1, <4>1
      <4> HIDE DEF h, e
      <4>3. e <= h
        BY <1>3, <4>2
      <4> QED
        BY <4>3 DEF e
    <3>3. CASE j = i
      BY <1>3, <2>3, <3>3
    <3>4. i \in Nat /\ j \in Nat
      OBVIOUS
    <3> QED
      BY <3>1, <3>2, <3>3, <3>4
  <2>4. CASE EndOffset(s) <= t.base
    <3> HIDE DEF h
    <3> QED
      BY <1>3, <2>1, <2>2, <2>4
  <2>5. CASE EndOffset(t) <= s.base
    <3> DEFINE e == t.batches[j].offset + t.batches[j].n
    <3>1. e \in Nat /\ e <= EndOffset(t)
      BY <2>1, <2>2
    <3> HIDE DEF h, e
    <3>2. e <= h
      BY <1>3, <2>1, <2>5, <3>1
    <3> QED
      BY <3>2 DEF e
  <2> QED
    BY <1>2, <2>3, <2>4, <2>5 DEF Apart
<1>5. EndOffset(act) \in Nat /\ h <= EndOffset(act)
  <2>1. EndOffset(act) \in Nat /\ EndOffset(s) <= EndOffset(act)
    BY <1>1
  <2> HIDE DEF h
  <2> QED
    BY <1>3, <2>1
<1> HIDE DEF h
<1>6. Boundary(h, act, old)
  BY <1>3, <1>4, <1>5 DEF Boundary, NotInside
<1> QED
  BY <1>6 DEF h

LEMMA LogEndIsBoundary ==
    ASSUME NEW act, NEW old, LogOf(act, old)
    PROVE  Boundary(EndOffset(act), act, old)
<1>1. /\ act \in SegmentType /\ act.base \in Nat /\ EndOffset(act) \in Nat
      /\ act.base <= EndOffset(act) /\ Sound(act)
      /\ \A s \in old : Sound(s) /\ s \in SegmentType /\ EndOffset(s) \in Nat /\ EndOffset(s) <= act.base
  BY LogNumbers DEF LogOf
<1>2. NotInside(EndOffset(act), act)
  BY <1>1 DEF NotInside, Sound, Inside
<1>3. ASSUME NEW s \in old PROVE NotInside(EndOffset(act), s)
  <2> SUFFICES ASSUME NEW j \in 1 .. Len(s.batches)
               PROVE  s.batches[j].offset + s.batches[j].n <= EndOffset(act)
    BY DEF NotInside
  <2>1. s.batches[j].offset \in Nat /\ s.batches[j].n \in Nat
    BY <1>1, SegmentFields
  <2>2. s.batches[j].offset + s.batches[j].n <= EndOffset(s)
    BY <1>1 DEF Sound, Inside
  <2>3. EndOffset(s) \in Nat /\ EndOffset(s) <= act.base
    BY <1>1
  <2> QED
    BY <1>1, <2>1, <2>2, <2>3
<1> QED
  BY <1>1, <1>2, <1>3 DEF Boundary

LEMMA BoundaryStep ==
    ASSUME StorageInv, [Next]_vars
    PROVE  Boundary(hw', active', Old') /\ Boundary(chk', active', Old')
<1>0. LogOf(active, Old) /\ Boundary(hw, active, Old) /\ Boundary(chk, active, Old)
  BY DEF StorageInv, SegmentsInv
<1>1. \A h : Boundary(h, active, Old) => Boundary(h, active', Old')
  BY SegmentsStep
<1>2. Boundary(chk', active', Old')
  <2>1. chk' \in {chk, hw}
    BY DEF Next, Write, Clean, vars, log, writer, AddSegment, UpdateHighWatermark, SaveCheckpoint,
           MeasureSize, ChooseFirst, ChooseExpired, Unlink, Unlinked, StorePrev, WriteRecordset,
           WriteBatch, RollOver, WriteFails, RollOverFails, WriteRefused, WriteDone, Restart
  <2> QED
    BY <1>0, <1>1, <2>1
<1>3. CASE hw' \in {hw, Leo}
  BY <1>0, <1>1, <1>2, <1>3, LogEndIsBoundary DEF Leo
<1>4. CASE UpdateHighWatermark
  <2>1. hw' \in Boundaries
    BY <1>4 DEF UpdateHighWatermark
  <2>2. PICK s \in prev \cup {active} \cup ({rolling} \ {None}) : \E b \in ToSet(s.batches) : hw' = b.offset + b.n
    BY <2>1 DEF Boundaries
  <2>a. s \in Old \cup {active}
    BY DEF Old
  <2>3. s \in Old \cup {active} /\ Sound(s)
    BY <1>0, <2>a, LogNumbers DEF LogOf
  <2>4. s.batches \in Seq(BatchType)
    BY <2>3, SegmentFields DEF Sound
  <2>5. PICK i \in 1 .. Len(s.batches) : hw' = s.batches[i].offset + s.batches[i].n
    BY <2>2, <2>4, LenProperties DEF ToSet
  <2>6. Boundary(hw', active, Old)
    BY <1>0, <2>3, <2>5, EndIsBoundary
  <2> QED
    BY <1>1, <1>2, <2>6
<1>5. CASE Restart
  <2>1. Boundary(chk, active', Old')
    BY <1>0, <1>1
  <2>2. chk \in Nat /\ chk <= EndOffset(active')
    BY <2>1 DEF Boundary
  <2>3. EndOffset(active') \in Nat
    BY SegmentsStep, LogNumbers DEF SegmentsInv
  <2>4. hw' = chk
    BY <1>5, <2>2, <2>3 DEF Restart
  <2> QED
    BY <1>2, <2>1, <2>4
<1>6. hw' \in {hw, Leo} \/ UpdateHighWatermark \/ Restart
  BY DEF Next, Write, Clean, vars, log, writer, AddSegment, SaveCheckpoint,
         MeasureSize, ChooseFirst, ChooseExpired, Unlink, Unlinked, StorePrev, WriteRecordset,
         WriteBatch, RollOver, WriteFails, RollOverFails, WriteRefused, WriteDone
<1> QED
  BY <1>2, <1>3, <1>4, <1>5, <1>6

\* The inductive invariant of the log: each segment's batches follow each other
\* and its index is about them, the segments follow each other, the cleaner
\* takes from the front, no batch is left in part where more is written, and
\* the high watermark and its checkpoint lie between batches.
THEOREM StorageInvariant == Spec => []StorageInv
<1>1. StorageInv /\ [Next]_vars => StorageInv'
  <2> SUFFICES ASSUME StorageInv, [Next]_vars PROVE StorageInv'
    OBVIOUS
  <2>1. SegmentsInv'
    BY SegmentsStep
  <2>2. CleanerInv'
    BY CleanerStep
  <2>3. WriterInv'
    BY WriterStep
  <2>4. Boundary(hw, active, Old)' /\ Boundary(chk, active, Old)'
    BY BoundaryStep
  <2> QED
    BY <2>1, <2>2, <2>3, <2>4 DEF StorageInv
<1> QED
  BY StorageInit, <1>1, PTL DEF Spec

-----------------------------------------------------------------------------
(* Nothing that was acknowledged is lost. *)

\* The files' segments follow each other, up to the active one.
LEMMA NextSegment ==
    ASSUME NEW act, NEW old, LogOf(act, old), NEW s \in old
    PROVE  \E t \in old \cup {act} : t.base = EndOffset(s) /\ t # s
<1>1. /\ act.base \in Nat
      /\ \A t \in old : /\ t.base \in Nat /\ EndOffset(t) \in Nat
                        /\ t.base < EndOffset(t) /\ EndOffset(t) <= act.base
  BY LogNumbers
<1>2. CASE EndOffset(s) = act.base
  BY <1>1, <1>2
<1>3. CASE EndOffset(s) # act.base
  <2>1. EndOffset(s) < act.base /\ s.base <= EndOffset(s)
    BY <1>1, <1>3
  <2>2. PICK t \in old : Within(EndOffset(s), t)
    BY <1>1, <2>1 DEF LogOf
  <2>3. t.base <= EndOffset(s) /\ EndOffset(s) < EndOffset(t) /\ t # s
    BY <1>1, <2>2 DEF Within
  <2>4. Apart(s, t)
    BY <2>3 DEF LogOf
  <2>5. t.base = EndOffset(s)
    BY <1>1, <2>3, <2>4 DEF Apart
  <2> QED
    BY <2>3, <2>5
<1> QED
  BY <1>2, <1>3

\* What write_recordset acknowledged stays: no failed write, no crash in the
\* middle of a write or of the cleaner's removal, and no roll over makes the
\* log end before it or leaves a hole between segments.
THEOREM AckedStaysTheorem == Spec => []AckedStays
<1>1. StorageInv => AckedStays
  <2> SUFFICES ASSUME StorageInv PROVE AckedStays
    OBVIOUS
  <2>1. acked <= Leo
    BY DEF StorageInv, WriterInv
  <2>2. prev \cup {active} \cup doomed \cup ({rolling} \ {None}) = Old \cup {active}
    BY DEF Old
  <2>3. \A s \in Old : \E t \in Old \cup {active} : t.base = EndOffset(s) /\ t # s
    BY NextSegment DEF StorageInv, SegmentsInv
  <2> QED
    BY <2>1, <2>2, <2>3 DEF AckedStays
<1> QED
  BY StorageInvariant, <1>1, PTL

-----------------------------------------------------------------------------
(* Reading. *)

\* The files' segments, listed or not, in numbers.
LEMMA OldNumbers ==
    ASSUME StorageInv
    PROVE  /\ active.base \in Nat /\ Leo \in Nat /\ Sound(active)
           /\ \A t \in Old : /\ Sound(t) /\ t.base \in Nat /\ EndOffset(t) \in Nat
                             /\ t.base < EndOffset(t) /\ EndOffset(t) <= active.base
           /\ \A s, t \in Old : s = t \/ Apart(s, t)
<1>1. LogOf(active, Old)
  BY DEF StorageInv, SegmentsInv
<1>2. /\ active.base \in Nat /\ EndOffset(active) \in Nat
      /\ \A t \in Old : /\ t.base \in Nat /\ EndOffset(t) \in Nat
                        /\ t.base < EndOffset(t) /\ EndOffset(t) <= active.base
  BY <1>1, LogNumbers
<1>3. Sound(active) /\ \A t \in Old : Sound(t)
  BY <1>1 DEF LogOf, Before
<1>4. \A s, t \in Old : s = t \/ Apart(s, t)
  BY <1>1 DEF LogOf
<1> QED
  BY <1>2, <1>3, <1>4 DEF Leo

\* An offset after the first listed one is in a listed segment or lost.
LEMMA ListedSegment ==
    ASSUME StorageInv, NEW start \in Nat, prev # {}, MinBase(prev) <= start, start < active.base,
           ~Lost(start)
    PROVE  \E c \in prev : Within(start, c)
<1>1. PICK s \in prev : s.base = MinBase(prev)
  BY OldNumbers, MinBaseIsLeast DEF Old
<1>2. s \in Old /\ s.base \in Nat /\ s.base <= start
  BY <1>1, OldNumbers DEF Old
<1>3. PICK t \in Old : Within(start, t)
  BY <1>2 DEF StorageInv, SegmentsInv, LogOf
<1>4. t.base \in Nat /\ EndOffset(t) \in Nat /\ t.base <= start /\ start < EndOffset(t)
  BY <1>3, OldNumbers DEF Within
<1>5. t # rolling \/ rolling = None
  BY <1>4 DEF Lost
<1>6. ASSUME t \in doomed PROVE FALSE
  <2>1. t.base < s.base
    BY <1>1, <1>6 DEF StorageInv, CleanerInv
  <2>2. Apart(t, s)
    BY <1>2, <1>3, <2>1, OldNumbers
  <2>3. EndOffset(s) \in Nat /\ s.base < EndOffset(s)
    BY <1>2, OldNumbers
  <2> QED
    BY <1>2, <1>4, <2>1, <2>2, <2>3 DEF Apart
<1> QED
  BY <1>3, <1>5, <1>6 DEF Old

\* find_segment finds the segment of an offset that is listed.
LEMMA SegmentFound ==
    ASSUME StorageInv, NEW start \in Nat, NEW c \in prev, Within(start, c)
    PROVE  FindSegment(start) = c
<1> DEFINE min == MinBase(prev)
           max == MaxEnd(prev)
           low == IF start = min THEN start ELSE start - max + min + 1
           found == {s \in prev : low <= s.base /\ s.base <= start}
<1>1. /\ active.base \in Nat
      /\ \A t \in prev : /\ t.base \in Nat /\ EndOffset(t) \in Nat
                         /\ t.base < EndOffset(t) /\ EndOffset(t) <= active.base
      /\ \A s, t \in prev : s = t \/ Apart(s, t)
  BY OldNumbers DEF Old
<1>2. min \in Nat /\ (\E s \in prev : s.base = min) /\ \A s \in prev : min <= s.base
  BY <1>1, MinBaseIsLeast
<1>4. c.base \in Nat /\ EndOffset(c) \in Nat /\ c.base <= start /\ start < EndOffset(c) /\ min <= c.base
  BY <1>1, <1>2 DEF Within
<1>5. max \in Nat /\ start < max
  <2> DEFINE T == {0} \cup {EndOffset(s) : s \in prev}
  <2>1. T \in SUBSET Nat /\ T # {} /\ (\A y \in T : y <= active.base) /\ EndOffset(c) \in T
    BY <1>1
  <2>2. max = Max(T)
    BY DEF MaxEnd
  <2> HIDE DEF T, max
  <2>3. Max(T) \in T /\ \A y \in T : y <= Max(T)
    BY <1>1, <2>1, MaxIsGreatest
  <2>4. Max(T) \in Nat /\ EndOffset(c) <= Max(T)
    BY <2>1, <2>3
  <2> QED
    BY <1>4, <2>2, <2>4
<1> HIDE DEF min, max
<1>6. low <= c.base
  BY <1>2, <1>4, <1>5
<1>7. c \in found
  BY <1>4, <1>6
<1>8. ~(start < min \/ (start # min /\ start >= max) \/ found = {})
  BY <1>2, <1>4, <1>5, <1>7
<1>9. FindSegment(start) = CHOOSE s \in found : \A t \in found : t.base <= s.base
  BY <1>8 DEF FindSegment, min, max
<1>10. found \subseteq prev /\ \A t \in found : t.base <= start
  OBVIOUS
<1> HIDE DEF found
<1>11. \A t \in found : t = c \/ t.base < c.base
  <2> SUFFICES ASSUME NEW t \in found, t # c PROVE t.base < c.base
    OBVIOUS
  <2>1. Apart(t, c) /\ t.base <= start
    BY <1>1, <1>10
  <2>2. t.base \in Nat /\ EndOffset(t) \in Nat /\ t.base < EndOffset(t)
    BY <1>1, <1>10
  <2> QED
    BY <1>4, <2>1, <2>2 DEF Apart
<1>12. \A t \in found : t.base \in Nat
  BY <1>1, <1>10
<1>13. \A t \in found : t.base <= c.base
  BY <1>4, <1>11, <1>12
<1>14. \A s \in found : (\A t \in found : t.base <= s.base) => s = c
  BY <1>4, <1>7, <1>11, <1>12
<1> QED
  BY <1>7, <1>9, <1>13, <1>14

\* It does not find one that was closed and not listed.
LEMMA LostEvicted ==
    ASSUME StorageInv, NEW start \in Nat, Lost(start), NEW max
    PROVE  ReadRecords(start, max).is = "evicted"
<1>1. /\ rolling # None /\ rolling \in Old /\ rolling.base \in Nat /\ EndOffset(rolling) \in Nat
      /\ rolling.base <= start /\ start < EndOffset(rolling) /\ EndOffset(rolling) <= active.base
      /\ active.base \in Nat
  BY OldNumbers DEF Lost, Old
<1>2. \A t \in prev : /\ t.base \in Nat /\ EndOffset(t) \in Nat /\ t.base < rolling.base
                      /\ EndOffset(t) <= rolling.base
  <2> SUFFICES ASSUME NEW t \in prev
               PROVE  /\ t.base \in Nat /\ EndOffset(t) \in Nat /\ t.base < rolling.base
                      /\ EndOffset(t) <= rolling.base
    OBVIOUS
  <2>1. t \in Old /\ t.base \in Nat /\ EndOffset(t) \in Nat
    BY OldNumbers DEF Old
  <2>2. t.base < rolling.base
    BY <1>1, RollingLast DEF StorageInv
  <2>3. Apart(t, rolling)
    BY <1>1, <2>1, <2>2, OldNumbers
  <2>4. rolling.base < EndOffset(rolling)
    BY <1>1, OldNumbers
  <2> QED
    BY <1>1, <2>1, <2>2, <2>3, <2>4 DEF Apart
<1>3. MaxEnd(prev) \in Nat /\ MaxEnd(prev) <= start
  <2> DEFINE T == {0} \cup {EndOffset(s) : s \in prev}
  <2>1. T \in SUBSET Nat /\ T # {} /\ \A y \in T : y <= rolling.base
    BY <1>1, <1>2
  <2>2. MaxEnd(prev) = Max(T)
    BY DEF MaxEnd
  <2> HIDE DEF T
  <2>3. Max(T) \in T
    BY <1>1, <2>1, MaxIsGreatest
  <2>4. Max(T) \in Nat /\ Max(T) <= rolling.base
    BY <2>1, <2>3
  <2> QED
    BY <1>1, <2>2, <2>4
<1>4. start # MinBase(prev)
  <2>1. CASE prev = {}
    BY <2>1 DEF MinBase
  <2>2. CASE prev # {}
    <3>1. \E s \in prev : s.base = MinBase(prev)
      BY <1>1, <1>2, <2>2, OldNumbers, MinBaseIsLeast DEF Old
    <3> QED
      BY <1>1, <1>2, <3>1
  <2> QED
    BY <2>1, <2>2
<1>5. FindSegment(start) = None
  BY <1>3, <1>4 DEF FindSegment
<1>6. ~(start >= active.base)
  BY <1>1
<1> QED
  BY <1>5, <1>6 DEF ReadRecords, Evicted

\* read_records goes to the segment of the offset.
LEMMA ReadSegment ==
    ASSUME StorageInv, NEW start \in Nat, FirstOffset <= start, start < Leo, ~Lost(start)
    PROVE  \E seg \in prev \cup {active} :
             /\ Sound(seg) /\ Within(start, seg)
             /\ \A max : ReadRecords(start, max) = RecordsSlice(seg, start, max)
<1>2. Sound(active) /\ active.base \in Nat /\ Leo \in Nat
  BY OldNumbers
<1>3. CASE start >= active.base
  <2>1. Within(start, active)
    BY <1>2, <1>3 DEF Within, Leo
  <2>2. ~(start = Leo) /\ ~(start > Leo)
    BY <1>2
  <2>3. \A max : ReadRecords(start, max) = RecordsSlice(active, start, max)
    BY <1>3, <2>2 DEF ReadRecords
  <2> QED
    BY <1>2, <2>1, <2>3
<1>4. CASE ~(start >= active.base)
  <2>1. start < active.base
    BY <1>2, <1>4
  <2>2. prev # {} /\ MinBase(prev) <= start
    BY <1>2, <2>1 DEF FirstOffset
  <2>3. PICK c \in prev : Within(start, c)
    BY <2>1, <2>2, ListedSegment
  <2>6. FindSegment(start) = c
    BY <2>3, SegmentFound
  <2>4. Sound(c) /\ c # None
    <3>1. Sound(c)
      BY OldNumbers DEF Old
    <3> QED
      BY <3>1, NotNone DEF Sound
  <2>5. \A max : ReadRecords(start, max) = RecordsSlice(c, start, max)
    BY <1>4, <2>4, <2>6 DEF ReadRecords
  <2> QED
    BY <2>3, <2>4, <2>5
<1> QED
  BY <1>3, <1>4

LEMMA FirstOffsetNat ==
    ASSUME StorageInv
    PROVE  /\ FirstOffset \in Nat /\ FirstOffset <= active.base /\ Leo \in Nat
           /\ active.base \in Nat /\ active.base <= Leo
           /\ prev # {} => MinBase(prev) \in Nat /\ MinBase(prev) < active.base
<1>1. /\ active.base \in Nat /\ EndOffset(active) \in Nat /\ active.base <= EndOffset(active)
      /\ \A s \in prev : s.base \in Nat /\ s.base < active.base
  BY LogNumbers DEF StorageInv, SegmentsInv, Old
<1>2. prev # {} => MinBase(prev) \in Nat /\ MinBase(prev) < active.base
  BY <1>1, MinBaseIsLeast
<1> QED
  BY <1>1, <1>2 DEF FirstOffset, Leo

\* A slice from the batch of an offset holds everything from that offset to
\* stop, when it is long enough for the batches that begin before stop.
Reaches(seg, end, stop) ==
    \A j \in 1 .. Len(seg.batches) :
        seg.batches[j].offset < stop => seg.batches[j].pos + Bytes(seg.batches[j].n) <= end

LEMMA SliceCovers ==
    ASSUME NEW seg, Sound(seg), NEW i \in 1 .. Len(seg.batches), NEW start \in Nat,
           In(start, seg.batches[i]), NEW stop \in Nat, stop <= EndOffset(seg), NEW len \in Nat,
           Reaches(seg, seg.batches[i].pos + len, stop)
    PROVE  start .. stop - 1
             \subseteq UNION {b.offset .. b.offset + b.n - 1 : b \in BatchesIn(Slice(seg, seg.batches[i].pos, len))}
<1> DEFINE k == Len(seg.batches)
           slice == Slice(seg, seg.batches[i].pos, len)
<1>1. /\ seg \in SegmentType /\ seg.base \in Nat /\ seg.batches \in Seq(BatchType) /\ k \in Nat
      /\ EndOffset(seg) \in Nat
      /\ \A j \in 1 .. k :
           /\ seg.batches[j].offset \in Nat /\ seg.batches[j].n \in Nat
           /\ seg.batches[j].pos \in Nat /\ Bytes(seg.batches[j].n) \in Nat
  BY SegmentFields DEF Sound
<1>2. ToSet(seg.batches) = {seg.batches[j] : j \in 1 .. k}
  BY <1>1, LenProperties DEF ToSet
<1>3. slice.seg = seg /\ slice.from = seg.batches[i].pos /\ slice.len = len
  BY DEF Slice
<1> HIDE DEF slice
<1>4. ASSUME NEW o \in start .. stop - 1
      PROVE  \E b \in BatchesIn(slice) : o \in b.offset .. b.offset + b.n - 1
  <2>1. o \in Nat /\ start <= o /\ o < stop
    OBVIOUS
  <2>2. seg.base <= o /\ o < EndOffset(seg)
    <3>1. seg.base <= seg.batches[i].offset /\ seg.batches[i].offset <= start
      BY DEF Sound, Inside, In
    <3>2. seg.batches[i].offset \in Nat
      BY <1>1
    <3>3. \A x, y, z, w \in Nat : x <= y /\ y <= z /\ z <= w => x <= w
      OBVIOUS
    <3>4. seg.base <= o
      BY <1>1, <2>1, <3>1, <3>2, <3>3
    <3>5. o < EndOffset(seg)
      BY <1>1, <2>1
    <3> QED
      BY <3>4, <3>5
  <2>3. PICK j \in 1 .. k : In(o, seg.batches[j])
    BY <2>1, <2>2 DEF Sound, Filled
  <2>4. /\ seg.batches[j].offset \in Nat /\ seg.batches[j].n \in Nat
        /\ seg.batches[j].pos \in Nat /\ Bytes(seg.batches[j].n) \in Nat
        /\ seg.batches[i].offset \in Nat /\ seg.batches[i].n \in Nat
        /\ seg.batches[i].pos \in Nat /\ Bytes(seg.batches[i].n) \in Nat
    BY <1>1
  <2>5. seg.batches[j].offset <= o /\ o < seg.batches[j].offset + seg.batches[j].n
        /\ seg.batches[i].offset <= start
    BY <2>3 DEF In
  <2>6. seg.batches[j].pos >= seg.batches[i].pos
    <3>1. CASE j < i
      <4>1. seg.batches[j].offset + seg.batches[j].n <= seg.batches[i].offset
        BY <3>1 DEF Sound, Ordered
      <4>2. \A x, y, z, u \in Nat : z < x + y /\ x + y <= u => ~(u <= z)
        OBVIOUS
      <4>3. ~(seg.batches[i].offset <= o)
        BY <2>1, <2>4, <2>5, <4>1, <4>2
      <4>4. seg.batches[i].offset <= o
        BY <2>1, <2>4, <2>5
      <4> QED
        BY <4>3, <4>4
    <3>2. CASE i < j
      <4>0. \A x, y, z \in Nat : x + y <= z => z >= x
        OBVIOUS
      <4>1. seg.batches[i].pos + Bytes(seg.batches[i].n) <= seg.batches[j].pos
        BY <3>2 DEF Sound, Ordered
      <4> QED
        BY <2>4, <4>0, <4>1
    <3>3. CASE i = j
      BY <2>4, <3>3
    <3> QED
      BY <3>1, <3>2, <3>3
  <2>7. seg.batches[j].offset < stop
    BY <2>1, <2>4, <2>5
  <2>8. seg.batches[j].pos + Bytes(seg.batches[j].n) <= seg.batches[i].pos + len
    BY <2>7 DEF Reaches
  <2>9. seg.batches[j] \in BatchesIn(slice)
    BY <1>2, <1>3, <2>6, <2>8 DEF BatchesIn
  <2>10. o \in seg.batches[j].offset .. seg.batches[j].offset + seg.batches[j].n - 1
    <3>1. \A x, y, z \in Nat : x <= z /\ z < x + y => z \in x .. x + y - 1
      OBVIOUS
    <3> QED
      BY <2>1, <2>4, <2>5, <3>1
  <2> QED
    BY <2>9, <2>10
<1> QED
  BY <1>4 DEF slice

\* A read to the end of its segment.
LEMMA WholeSlice ==
    ASSUME NEW seg, Sound(seg), NEW start \in Nat, Within(start, seg), NEW max,
           max = NoMax \/ max >= EndOffset(seg)
    PROVE  \E i \in 1 .. Len(seg.batches) :
             LET slice == Slice(seg, seg.batches[i].pos, FileLen(seg) - seg.batches[i].pos)
             IN  /\ In(start, seg.batches[i]) /\ RecordsSlice(seg, start, max) = slice
                 /\ start .. EndOffset(seg) - 1
                      \subseteq UNION {b.offset .. b.offset + b.n - 1 : b \in BatchesIn(slice)}
<1>1. PICK i \in 1 .. Len(seg.batches) :
        In(start, seg.batches[i]) /\ FindOffsetPosition(seg, start) = seg.batches[i]
  BY FoundBatch
<1> DEFINE len == FileLen(seg) - seg.batches[i].pos
<1>2. /\ EndOffset(seg) \in Nat /\ FileLen(seg) \in Nat
      /\ seg.batches[i] \in BatchType /\ seg.batches[i].pos \in Nat /\ Bytes(seg.batches[i].n) \in Nat
  BY SegmentFields DEF Sound
<1>3. seg.batches[i] # None
  BY <1>2, BatchNotNone
<1>4. RecordsSlice(seg, start, max) = Slice(seg, seg.batches[i].pos, len)
  BY <1>1, <1>3 DEF RecordsSlice
<1>5. \A j \in 1 .. Len(seg.batches) : seg.batches[j].pos + Bytes(seg.batches[j].n) <= FileLen(seg)
  BY DEF Sound, Inside
<1>6. len \in Nat /\ seg.batches[i].pos + len = FileLen(seg)
  <2>1. seg.batches[i].pos + Bytes(seg.batches[i].n) <= FileLen(seg)
    BY <1>5
  <2> QED
    BY <1>2, <2>1
<1> HIDE DEF len
<1>7. start .. EndOffset(seg) - 1
        \subseteq UNION {b.offset .. b.offset + b.n - 1 : b \in BatchesIn(Slice(seg, seg.batches[i].pos, len))}
  <2>1. Reaches(seg, seg.batches[i].pos + len, EndOffset(seg))
    BY <1>5, <1>6 DEF Reaches
  <2>2. EndOffset(seg) <= EndOffset(seg)
    BY <1>2
  <2> QED
    BY <1>1, <1>2, <1>6, <2>1, <2>2, SliceCovers
<1> QED
  BY <1>1, <1>4, <1>7 DEF len

\* A read of any offset from the first listed one to the log's end finds it,
\* and the rest of its segment, whatever the cleaner removed, however sparse
\* the index is and wherever the process died.
THEOREM ReadTheorem == Spec => []ReadFindsOffset
<1>1. StorageInv => ReadFindsOffset
  <2> SUFFICES ASSUME StorageInv, NEW start \in FirstOffset .. Leo - 1, ~Lost(start)
               PROVE  LET slice == ReadRecords(start, NoMax)
                      IN  /\ slice.is = "slice"
                          /\ \E b \in ToSet(slice.seg.batches) :
                               /\ b.pos = slice.from /\ b.offset <= start /\ start < b.offset + b.n
                          /\ start .. EndOffset(slice.seg) - 1
                               \subseteq UNION {b.offset .. b.offset + b.n - 1 : b \in BatchesIn(slice)}
    BY FirstOffsetNat, LostEvicted DEF ReadFindsOffset
  <2>1. start \in Nat /\ FirstOffset <= start /\ start < Leo
    BY FirstOffsetNat
  <2>2. PICK seg \in prev \cup {active} :
          /\ Sound(seg) /\ Within(start, seg)
          /\ \A max : ReadRecords(start, max) = RecordsSlice(seg, start, max)
    BY <2>1, ReadSegment
  <2>3. PICK i \in 1 .. Len(seg.batches) :
          LET slice == Slice(seg, seg.batches[i].pos, FileLen(seg) - seg.batches[i].pos)
          IN  /\ In(start, seg.batches[i]) /\ RecordsSlice(seg, start, NoMax) = slice
              /\ start .. EndOffset(seg) - 1
                   \subseteq UNION {b.offset .. b.offset + b.n - 1 : b \in BatchesIn(slice)}
    BY <2>1, <2>2, WholeSlice
  <2> DEFINE slice == ReadRecords(start, NoMax)
  <2>4. slice = Slice(seg, seg.batches[i].pos, FileLen(seg) - seg.batches[i].pos)
    BY <2>2, <2>3
  <2>5. slice.is = "slice" /\ slice.seg = seg /\ slice.from = seg.batches[i].pos
    BY <2>4 DEF Slice
  <2>6. seg.batches[i] \in ToSet(seg.batches)
    BY <2>2, SegmentFields, LenProperties DEF ToSet, Sound
  <2>7. start .. EndOffset(seg) - 1
          \subseteq UNION {b.offset .. b.offset + b.n - 1 : b \in BatchesIn(slice)}
    BY <2>3, <2>4
  <2> HIDE DEF slice
  <2>8. \E b \in ToSet(slice.seg.batches) :
          /\ b.pos = slice.from /\ b.offset <= start /\ start < b.offset + b.n
    BY <2>3, <2>5, <2>6 DEF In
  <2>9. /\ slice.is = "slice"
        /\ \E b \in ToSet(slice.seg.batches) :
             /\ b.pos = slice.from /\ b.offset <= start /\ start < b.offset + b.n
        /\ start .. EndOffset(slice.seg) - 1
             \subseteq UNION {b.offset .. b.offset + b.n - 1 : b \in BatchesIn(slice)}
    BY <2>5, <2>7, <2>8
  <2> QED
    BY <2>9 DEF slice
<1> QED
  BY StorageInvariant, <1>1, PTL

LEMMA MinOfTwo ==
    ASSUME NEW a \in Nat, NEW b \in Nat
    PROVE  Min({a, b}) = IF a <= b THEN a ELSE b
<1>1. {a, b} \in SUBSET Nat /\ {a, b} # {}
  OBVIOUS
<1>2. Min({a, b}) \in {a, b} /\ \A y \in {a, b} : Min({a, b}) <= y
  BY <1>1, MinIsLeast
<1> QED
  BY <1>2

\* A read up to a boundary of batches inside its segment: the batch there
\* begins at the boundary, after the one of start, and the unsigned
\* subtraction of their positions does not wrap.
LEMMA CutSlice ==
    ASSUME NEW seg, Sound(seg), NEW start \in Nat, Within(start, seg), NEW stop \in Nat,
           start < stop, stop < EndOffset(seg), NotInside(stop, seg)
    PROVE  \E i \in 1 .. Len(seg.batches) : \E e \in 1 .. Len(seg.batches) :
             /\ In(start, seg.batches[i]) /\ seg.batches[e].offset = stop /\ i < e
             /\ seg.batches[e].pos - seg.batches[i].pos \in Nat
             /\ RecordsSlice(seg, start, stop)
                  = Slice(seg, seg.batches[i].pos, seg.batches[e].pos - seg.batches[i].pos)
<1> DEFINE k == Len(seg.batches)
<1>1. /\ seg \in SegmentType /\ seg.base \in Nat /\ k \in Nat
      /\ EndOffset(seg) \in Nat /\ FileLen(seg) \in Nat
      /\ \A j \in 1 .. k :
           /\ seg.batches[j] \in BatchType
           /\ seg.batches[j].offset \in Nat /\ seg.batches[j].n \in Nat
           /\ seg.batches[j].pos \in Nat /\ Bytes(seg.batches[j].n) \in Nat
  BY SegmentFields DEF Sound
<1>2. PICK i \in 1 .. k : In(start, seg.batches[i]) /\ FindOffsetPosition(seg, start) = seg.batches[i]
  BY FoundBatch
<1>3. Within(stop, seg)
  BY <1>1 DEF Within
<1>4. PICK e \in 1 .. k : In(stop, seg.batches[e]) /\ FindOffsetPosition(seg, stop) = seg.batches[e]
  BY <1>3, FoundBatch
<1> DEFINE a == seg.batches[i]
           z == seg.batches[e]
<1>5. /\ a \in BatchType /\ a.offset \in Nat /\ a.n \in Nat /\ a.pos \in Nat /\ Bytes(a.n) \in Nat
      /\ z \in BatchType /\ z.offset \in Nat /\ z.n \in Nat /\ z.pos \in Nat /\ Bytes(z.n) \in Nat
  BY <1>1
<1>6. a.offset <= start /\ start < a.offset + a.n /\ z.offset <= stop /\ stop < z.offset + z.n
  BY <1>2, <1>4 DEF In
<1>7. stop <= z.offset \/ z.offset + z.n <= stop
  BY DEF NotInside
<1>8. e < i => z.offset + z.n <= a.offset
  BY DEF Sound, Ordered
<1>9. i < e => a.pos + Bytes(a.n) <= z.pos
  BY DEF Sound, Ordered
<1>10. z.pos + Bytes(z.n) <= FileLen(seg) /\ FileLen(seg) <= SegmentMax
  BY DEF Sound, Inside
<1>11. a # None /\ z # None
  BY <1>5, BatchNotNone
<1>12. i = e => a = z
  OBVIOUS
<1> HIDE DEF a, z
<1>13. z.offset = stop
  BY <1>5, <1>6, <1>7
<1>14. ~(e < i)
  BY <1>5, <1>6, <1>8, <1>13
<1>15. i # e
  BY <1>5, <1>6, <1>12, <1>13
<1>16. i < e
  BY <1>14, <1>15
<1>17. /\ z.pos - a.pos \in Nat /\ z.pos - a.pos <= FileLen(seg)
       /\ z.pos - a.pos < Modulus
  <2>1. \A p, q, f, m \in Nat :
          p <= q /\ q <= f /\ f < m => q - p \in Nat /\ q - p <= f /\ q - p < m
    OBVIOUS
  <2>2. \A p, q, u \in Nat : p + u <= q => p <= q
    OBVIOUS
  <2>3. SegmentMax \in Nat /\ Modulus \in Nat /\ SegmentMax < Modulus /\ FileLen(seg) \in Nat
    BY <1>1, StorageAssumption
  <2>4. a.pos <= z.pos
    BY <1>5, <1>9, <1>16, <2>2
  <2>5. z.pos <= FileLen(seg)
    BY <1>5, <1>10, <2>2, <2>3
  <2>6. FileLen(seg) < Modulus
    BY <1>10, <2>3
  <2> QED
    BY <1>5, <2>1, <2>3, <2>4, <2>5, <2>6
<1>18. (z.pos - a.pos) % Modulus = z.pos - a.pos
  <2>1. \A x, m \in Nat : x < m => x % m = x
    OBVIOUS
  <2> QED
    BY <1>17, <2>1, StorageAssumption
<1>19. SliceUpTo(seg, a.pos, stop) = Slice(seg, a.pos, z.pos - a.pos)
  <2>1. FindOffsetPosition(seg, stop) = z
    BY <1>4 DEF z
  <2>2. ~(z.pos - a.pos > FileLen(seg))
    BY <1>1, <1>17
  <2> QED
    BY <1>11, <1>18, <2>1, <2>2 DEF SliceUpTo
<1>20. RecordsSlice(seg, start, stop) = SliceUpTo(seg, a.pos, stop)
  <2>1. FindOffsetPosition(seg, start) = a
    BY <1>2 DEF a
  <2>2. ~(stop = NoMax \/ stop >= EndOffset(seg))
    BY <1>1 DEF NoMax
  <2> QED
    BY <1>11, <2>1, <2>2 DEF RecordsSlice
<1>21. RecordsSlice(seg, start, stop) = Slice(seg, a.pos, z.pos - a.pos)
  BY <1>19, <1>20
<1> QED
  BY <1>2, <1>13, <1>16, <1>17, <1>21 DEF a, z

\* A committed read in a segment that goes on after the high watermark gets
\* exactly the batches up to it.
LEMMA CutRead ==
    ASSUME NEW seg, Sound(seg), NEW start \in Nat, Within(start, seg), NEW stop \in Nat,
           start < stop, stop < EndOffset(seg), NotInside(stop, seg)
    PROVE  LET slice == RecordsSlice(seg, start, stop)
           IN  /\ slice.is = "slice" /\ slice.seg = seg
               /\ start .. stop - 1 \subseteq UNION {b.offset .. b.offset + b.n - 1 : b \in BatchesIn(slice)}
               /\ \A b \in BatchesIn(slice) : b.offset + b.n <= stop
<1> DEFINE k == Len(seg.batches)
           slice == RecordsSlice(seg, start, stop)
<1>1. PICK i \in 1 .. k : \E e \in 1 .. k :
        /\ In(start, seg.batches[i]) /\ seg.batches[e].offset = stop /\ i < e
        /\ seg.batches[e].pos - seg.batches[i].pos \in Nat
        /\ slice = Slice(seg, seg.batches[i].pos, seg.batches[e].pos - seg.batches[i].pos)
  BY CutSlice
<1>2. PICK e \in 1 .. k :
        /\ In(start, seg.batches[i]) /\ seg.batches[e].offset = stop /\ i < e
        /\ seg.batches[e].pos - seg.batches[i].pos \in Nat
        /\ slice = Slice(seg, seg.batches[i].pos, seg.batches[e].pos - seg.batches[i].pos)
  BY <1>1
<1> DEFINE len == seg.batches[e].pos - seg.batches[i].pos
<1>3. /\ seg.batches \in Seq(BatchType) /\ k \in Nat /\ EndOffset(seg) \in Nat
      /\ \A j \in 1 .. k :
           /\ seg.batches[j].offset \in Nat /\ seg.batches[j].n \in Nat
           /\ seg.batches[j].pos \in Nat /\ Bytes(seg.batches[j].n) \in Nat
           /\ Bytes(seg.batches[j].n) > 0
  <2>1. /\ seg.batches \in Seq(BatchType) /\ k \in Nat /\ EndOffset(seg) \in Nat
        /\ \A j \in 1 .. k :
             /\ seg.batches[j].offset \in Nat /\ seg.batches[j].n \in Nat
             /\ seg.batches[j].pos \in Nat /\ Bytes(seg.batches[j].n) \in Nat
    BY SegmentFields DEF Sound
  <2>2. \A n \in Nat : Bytes(n) > 0
    BY DEF Bytes
  <2> QED
    BY <2>1, <2>2
<1>4. len \in Nat /\ seg.batches[i].pos + len = seg.batches[e].pos
  <2>1. seg.batches[i].pos \in Nat /\ seg.batches[e].pos \in Nat
    BY <1>3
  <2> QED
    BY <1>2, <2>1
<1>5. \A j \in 1 .. k : j < e => /\ seg.batches[j].offset + seg.batches[j].n <= stop
                                 /\ seg.batches[j].pos + Bytes(seg.batches[j].n) <= seg.batches[e].pos
  BY <1>2 DEF Sound, Ordered
<1>6. \A j \in 1 .. k : e < j => /\ stop <= seg.batches[j].offset
                                 /\ seg.batches[e].pos <= seg.batches[j].pos
  <2> SUFFICES ASSUME NEW j \in 1 .. k, e < j
               PROVE  stop <= seg.batches[j].offset /\ seg.batches[e].pos <= seg.batches[j].pos
    OBVIOUS
  <2>1. /\ seg.batches[e].offset + seg.batches[e].n <= seg.batches[j].offset
        /\ seg.batches[e].pos + Bytes(seg.batches[e].n) <= seg.batches[j].pos
    BY DEF Sound, Ordered
  <2>2. /\ seg.batches[e].n \in Nat /\ Bytes(seg.batches[e].n) \in Nat /\ seg.batches[e].pos \in Nat
        /\ seg.batches[j].offset \in Nat /\ seg.batches[j].pos \in Nat /\ seg.batches[e].offset \in Nat
    BY <1>3
  <2>3. \A x, y, w \in Nat : x + y <= w => x <= w
    OBVIOUS
  <2> QED
    BY <1>2, <2>1, <2>2, <2>3
<1>7. Reaches(seg, seg.batches[i].pos + len, stop)
  <2> SUFFICES ASSUME NEW j \in 1 .. k, seg.batches[j].offset < stop
               PROVE  seg.batches[j].pos + Bytes(seg.batches[j].n) <= seg.batches[e].pos
    BY <1>4 DEF Reaches
  <2>1. ~(e < j) /\ j # e
    <3>1. seg.batches[j].offset \in Nat
      BY <1>3
    <3> QED
      BY <1>2, <1>6, <3>1
  <2> QED
    BY <1>5, <2>1
<1>8. stop <= EndOffset(seg)
  BY <1>3
<1> HIDE DEF slice, len
<1>9. slice = Slice(seg, seg.batches[i].pos, len)
  BY <1>2 DEF len
<1>10. start .. stop - 1 \subseteq UNION {b.offset .. b.offset + b.n - 1 : b \in BatchesIn(slice)}
  BY <1>2, <1>4, <1>7, <1>8, <1>9, SliceCovers
<1>11. slice.is = "slice" /\ slice.seg = seg /\ slice.from = seg.batches[i].pos /\ slice.len = len
  BY <1>9 DEF Slice
<1>12. ASSUME NEW b \in BatchesIn(slice) PROVE b.offset + b.n <= stop
  <2>1. b \in ToSet(seg.batches) /\ b.pos + Bytes(b.n) <= seg.batches[e].pos
    BY <1>4, <1>11 DEF BatchesIn
  <2>2. PICK j \in 1 .. k : b = seg.batches[j]
    BY <1>3, <2>1, LenProperties DEF ToSet
  <2>3. /\ seg.batches[j].pos \in Nat /\ Bytes(seg.batches[j].n) \in Nat
        /\ Bytes(seg.batches[j].n) > 0 /\ seg.batches[e].pos \in Nat
    BY <1>3
  <2>4. ~(seg.batches[e].pos <= seg.batches[j].pos)
    <3>1. \A x, y, w \in Nat : y > 0 /\ x + y <= w => ~(w <= x)
      OBVIOUS
    <3> QED
      BY <2>1, <2>2, <2>3, <3>1
  <2>5. j < e
    <3>1. j # e
      BY <2>3, <2>4
    <3> QED
      BY <1>6, <2>4, <3>1
  <2> QED
    BY <1>5, <2>2, <2>5
<1> QED
  BY <1>10, <1>11, <1>12 DEF slice

\* A committed read that starts at the high watermark gets nothing.
LEMMA ReadAtStop ==
    ASSUME NEW seg, Sound(seg), NEW start \in Nat, Within(start, seg)
    PROVE  LET slice == RecordsSlice(seg, start, start)
           IN  slice.is = "slice" /\ BatchesIn(slice) = {}
<1>1. seg \in SegmentType /\ EndOffset(seg) \in Nat /\ FileLen(seg) \in Nat
  BY SegmentFields DEF Sound
<1>2. PICK i \in 1 .. Len(seg.batches) : FindOffsetPosition(seg, start) = seg.batches[i]
  BY FoundBatch
<1> DEFINE a == seg.batches[i]
<1>3. a \in BatchType /\ a.pos \in Nat
  BY <1>1, SegmentFields DEF Sound
<1>4. a # None
  BY <1>3, BatchNotNone
<1>5. ~(start = NoMax \/ start >= EndOffset(seg))
  BY <1>1 DEF NoMax, Within
<1>6. FindOffsetPosition(seg, start) = a
  BY <1>2
<1> HIDE DEF a
<1>7. (a.pos - a.pos) % Modulus = 0
  <2>1. a.pos - a.pos = 0 /\ Modulus \in Nat \ {0}
    BY <1>3, StorageAssumption
  <2>2. \A m \in Nat \ {0} : 0 % m = 0
    OBVIOUS
  <2> QED
    BY <2>1, <2>2
<1>8. SliceUpTo(seg, a.pos, start) = Slice(seg, a.pos, 0)
  <2>1. ~(0 > FileLen(seg))
    BY <1>1
  <2> QED
    BY <1>4, <1>6, <1>7, <2>1 DEF SliceUpTo
<1>9. RecordsSlice(seg, start, start) = Slice(seg, a.pos, 0)
  BY <1>4, <1>5, <1>6, <1>8 DEF RecordsSlice
<1>10. ASSUME NEW b \in ToSet(seg.batches), b.pos >= a.pos, b.pos + Bytes(b.n) <= a.pos + 0 PROVE FALSE
  <2>1. seg.batches \in Seq(BatchType)
    BY <1>1, SegmentFields
  <2>2. b \in BatchType
    BY <2>1, LenProperties DEF ToSet
  <2>3. b.pos \in Nat /\ b.n \in Nat
    BY <2>2 DEF BatchType
  <2> QED
    BY <1>3, <1>10, <2>3 DEF Bytes
<1>11. BatchesIn(Slice(seg, a.pos, 0)) = {}
  BY <1>10 DEF BatchesIn, Slice
<1> QED
  BY <1>9, <1>11 DEF Slice

\* One that starts above it fails, unless the high watermark is in the segment.
LEMMA ReadAboveStop ==
    ASSUME NEW seg, Sound(seg), NEW start \in Nat, Within(start, seg), NEW stop \in Nat, stop < start
    PROVE  LET slice == RecordsSlice(seg, start, stop)
           IN  slice.is = "failed" \/ (slice.seg = seg /\ seg.base <= stop)
<1>1. seg \in SegmentType /\ seg.base \in Nat /\ EndOffset(seg) \in Nat
  BY SegmentFields DEF Sound
<1>2. ~(stop = NoMax \/ stop >= EndOffset(seg))
  BY <1>1 DEF NoMax, Within
<1>3. CASE stop < seg.base
  <2>1. FindOffsetPosition(seg, stop) = None
    BY <1>3 DEF FindOffsetPosition
  <2>2. \A pos : SliceUpTo(seg, pos, stop) = Failed
    BY <2>1 DEF SliceUpTo
  <2> QED
    BY <1>2, <2>2 DEF RecordsSlice, Failed
<1>4. CASE seg.base <= stop
  <2>1. \A pos : SliceUpTo(seg, pos, stop).is = "failed" \/ SliceUpTo(seg, pos, stop).seg = seg
    BY DEF SliceUpTo, Failed, Slice
  <2> QED
    BY <1>2, <1>4, <2>1 DEF RecordsSlice, Failed
<1> QED
  BY <1>1, <1>3, <1>4

\* A committed read below the high watermark gets what is committed in its
\* segment, all of it and no more: the high watermark lies between batches, so
\* that the batch find_offset_position takes for the end begins there.  At it
\* there is nothing to read, and above it the read fails or is in its segment.
THEOREM CommittedReadTheorem == Spec => []CommittedReadStops
<1>1. StorageInv => CommittedReadStops
  <2> SUFFICES ASSUME StorageInv, NEW start \in FirstOffset .. Leo - 1, ~Lost(start)
               PROVE  LET slice == ReadRecords(start, hw)
                      IN  \/ /\ start < hw /\ slice.is = "slice"
                             /\ start .. Min({hw, EndOffset(slice.seg)}) - 1
                                  \subseteq UNION {b.offset .. b.offset + b.n - 1 : b \in BatchesIn(slice)}
                             /\ \A b \in BatchesIn(slice) : b.offset + b.n <= hw
                          \/ start = hw /\ slice.is = "slice" /\ BatchesIn(slice) = {}
                          \/ start > hw /\ (slice.is = "failed" \/ slice.seg.base <= hw)
    <3>1. ASSUME StorageInv, NEW start \in FirstOffset .. Leo - 1, Lost(start)
          PROVE  ReadRecords(start, hw).is = "evicted"
      BY <3>1, FirstOffsetNat, LostEvicted
    <3> QED
      BY <3>1 DEF CommittedReadStops
  <2>1. /\ hw \in Nat /\ Leo \in Nat /\ FirstOffset \in Nat
        /\ NotInside(hw, active) /\ \A s \in prev : NotInside(hw, s)
    BY FirstOffsetNat DEF StorageInv, Boundary, Old
  <2>2. start \in Nat /\ FirstOffset <= start /\ start < Leo
    BY <2>1
  <2>3. PICK seg \in prev \cup {active} :
          /\ Sound(seg) /\ Within(start, seg)
          /\ \A max : ReadRecords(start, max) = RecordsSlice(seg, start, max)
    BY <2>2, ReadSegment
  <2> DEFINE slice == ReadRecords(start, hw)
  <2>4. slice = RecordsSlice(seg, start, hw)
    BY <2>3
  <2>5. EndOffset(seg) \in Nat /\ NotInside(hw, seg) /\ seg.batches \in Seq(BatchType)
    BY <2>1, <2>3, SegmentFields DEF Sound
  <2> HIDE DEF slice
  <2> DEFINE Covered(stop) ==
               start .. stop - 1 \subseteq UNION {b.offset .. b.offset + b.n - 1 : b \in BatchesIn(slice)}
  <2>a. CASE start = hw
    BY <2>2, <2>3, <2>4, <2>a, ReadAtStop DEF slice
  <2>b. CASE start > hw
    BY <2>1, <2>2, <2>3, <2>4, <2>b, ReadAboveStop DEF slice
  <2> SUFFICES ASSUME start < hw
               PROVE  /\ slice.is = "slice" /\ Covered(Min({hw, EndOffset(slice.seg)}))
                      /\ \A b \in BatchesIn(slice) : b.offset + b.n <= hw
    BY <2>1, <2>2, <2>a, <2>b DEF slice
  <2>6. CASE hw >= EndOffset(seg)
    <3>1. PICK i \in 1 .. Len(seg.batches) :
            LET new == Slice(seg, seg.batches[i].pos, FileLen(seg) - seg.batches[i].pos)
            IN  /\ In(start, seg.batches[i]) /\ RecordsSlice(seg, start, hw) = new
                /\ start .. EndOffset(seg) - 1
                     \subseteq UNION {b.offset .. b.offset + b.n - 1 : b \in BatchesIn(new)}
      BY <2>2, <2>3, <2>6, WholeSlice
    <3>2. slice = Slice(seg, seg.batches[i].pos, FileLen(seg) - seg.batches[i].pos)
      BY <2>4, <3>1
    <3>3. slice.is = "slice" /\ slice.seg = seg
      BY <3>2 DEF Slice
    <3>4. Covered(EndOffset(seg))
      BY <3>1, <3>2
    <3>5. Min({hw, EndOffset(seg)}) = EndOffset(seg)
      BY <2>1, <2>5, <2>6, MinOfTwo
    <3>6. ASSUME NEW b \in BatchesIn(slice) PROVE b.offset + b.n <= hw
      <4>1. PICK j \in 1 .. Len(seg.batches) : b = seg.batches[j]
        BY <2>5, <3>3, LenProperties DEF BatchesIn, ToSet
      <4>2. b.offset + b.n <= EndOffset(seg)
        BY <2>3, <4>1 DEF Sound, Inside
      <4>3. b.offset \in Nat /\ b.n \in Nat
        BY <2>3, <4>1, SegmentFields DEF Sound
      <4> QED
        BY <2>1, <2>5, <2>6, <4>2, <4>3
    <3> HIDE DEF Covered
    <3> QED
      BY <3>3, <3>4, <3>5, <3>6
  <2>7. CASE ~(hw >= EndOffset(seg))
    <3>1. hw < EndOffset(seg)
      BY <2>1, <2>5, <2>7
    <3>2. LET new == RecordsSlice(seg, start, hw)
          IN  /\ new.is = "slice" /\ new.seg = seg
              /\ start .. hw - 1 \subseteq UNION {b.offset .. b.offset + b.n - 1 : b \in BatchesIn(new)}
              /\ \A b \in BatchesIn(new) : b.offset + b.n <= hw
      BY <2>1, <2>2, <2>3, <2>5, <3>1, CutRead
    <3>3. /\ slice.is = "slice" /\ slice.seg = seg /\ Covered(hw)
          /\ \A b \in BatchesIn(slice) : b.offset + b.n <= hw
      BY <2>4, <3>2
    <3>4. Min({hw, EndOffset(seg)}) = hw
      BY <2>1, <2>5, <3>1, MinOfTwo
    <3> HIDE DEF Covered
    <3> QED
      BY <3>3, <3>4
  <2> QED
    BY <2>6, <2>7
<1> QED
  BY StorageInvariant, <1>1, PTL

\* A reader whose offset the cleaner removed is sent forward, to records or to
\* the end of the log: the cached first offset it is told is the list's or
\* the active segment's.
THEOREM EvictedTheorem == Spec => []EvictedGoesOn
<1>1. StorageInv => EvictedGoesOn
  <2> SUFFICES ASSUME StorageInv, clean.pc # "store", NEW start \in 0 .. FirstOffset - 1,
                      ReadRecords(start, NoMax).is = "evicted"
               PROVE  /\ ReadRecords(start, NoMax).next > start
                      /\ ReadRecords(ReadRecords(start, NoMax).next, NoMax).is \in {"slice", "nothing"}
    BY DEF EvictedGoesOn
  <2>1. /\ FirstOffset \in Nat /\ FirstOffset <= active.base /\ Leo \in Nat
        /\ active.base \in Nat /\ active.base <= Leo
        /\ prev # {} => MinBase(prev) \in Nat /\ MinBase(prev) < active.base
    BY FirstOffsetNat
  <2>2. start \in Nat /\ start < FirstOffset /\ start < active.base
    BY <2>1
  <2>3. \A seg : RecordsSlice(seg, start, NoMax).is \in {"slice", "failed"}
    BY DEF RecordsSlice, SliceUpTo, Slice, Failed
  <2>4. ReadRecords(start, NoMax) = Evicted(LogStart)
    <3>1. ~(start >= active.base)
      BY <2>1, <2>2
    <3>2. FindSegment(start) = None
      <4> SUFFICES ASSUME FindSegment(start) # None PROVE FALSE
        OBVIOUS
      <4>1. ReadRecords(start, NoMax) = RecordsSlice(FindSegment(start), start, NoMax)
        BY <3>1 DEF ReadRecords
      <4> QED
        BY <2>3, <4>1
    <3> QED
      BY <3>1, <3>2 DEF ReadRecords
  <2>5. ReadRecords(start, NoMax).next = LogStart
    BY <2>4 DEF Evicted
  <2>6. LogStart \in {active.base, FirstOffset}
    <3>1. minOffset \in {-1, MinBase(prev)}
      BY DEF StorageInv, CleanerInv
    <3>2. CASE minOffset < 0
      BY <3>2 DEF LogStart
    <3>3. CASE ~(minOffset < 0)
      <4>1. minOffset = MinBase(prev) /\ prev # {}
        BY <3>1, <3>3 DEF MinBase
      <4> QED
        BY <3>3, <4>1 DEF LogStart, FirstOffset
    <3> QED
      BY <3>2, <3>3
  <2>7. LogStart \in Nat /\ FirstOffset <= LogStart /\ LogStart <= Leo /\ LogStart > start
    BY <2>1, <2>2, <2>6
  <2>8. ReadRecords(LogStart, NoMax).is \in {"slice", "nothing"}
    <3>1. CASE LogStart = Leo
      <4>1. LogStart >= active.base
        BY <2>1, <3>1
      <4>2. ReadRecords(LogStart, NoMax) = Nothing
        BY <3>1, <4>1 DEF ReadRecords
      <4> QED
        BY <4>2 DEF Nothing
    <3>2. CASE LogStart # Leo
      <4>1. LogStart < Leo
        BY <2>1, <2>7, <3>2
      <4>4. ~Lost(LogStart)
        <5> SUFFICES ASSUME Lost(LogStart) PROVE FALSE
          OBVIOUS
        <5>1. /\ rolling \in Old /\ rolling.base \in Nat /\ EndOffset(rolling) <= active.base
              /\ EndOffset(rolling) \in Nat
          BY OldNumbers DEF Lost, Old
        <5>2. LogStart = FirstOffset /\ LogStart # active.base
          BY <2>1, <2>6, <5>1 DEF Lost
        <5>3. PICK s \in prev : s.base = LogStart
          BY <5>2, OldNumbers, MinBaseIsLeast DEF FirstOffset, Old
        <5>4. s.base < rolling.base
          BY <5>3, RollingLast DEF StorageInv, Lost
        <5> QED
          BY <2>7, <5>1, <5>3, <5>4 DEF Lost
      <4>2. PICK seg \in prev \cup {active} :
              /\ Sound(seg) /\ Within(LogStart, seg)
              /\ \A max : ReadRecords(LogStart, max) = RecordsSlice(seg, LogStart, max)
        BY <2>7, <4>1, <4>4, ReadSegment
      <4>3. PICK i \in 1 .. Len(seg.batches) :
              RecordsSlice(seg, LogStart, NoMax)
                = Slice(seg, seg.batches[i].pos, FileLen(seg) - seg.batches[i].pos)
        BY <2>7, <4>2, WholeSlice
      <4> QED
        BY <4>2, <4>3 DEF Slice
    <3> QED
      BY <3>1, <3>2
  <2> QED
    BY <2>5, <2>7, <2>8
<1> QED
  BY StorageInvariant, <1>1, PTL
=============================================================================
