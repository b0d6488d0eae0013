--------------------------- MODULE ProducerProofs ---------------------------
(***************************************************************************)
(* What the senders and the callers of flush are told, for any number of   *)
(* partitions, tasks, records, flushes and faults, with AtLeastOnce.       *)
(***************************************************************************)
EXTENDS Producer, TLAPS, SequenceTheorems, FiniteSetTheorems, WellFoundedInduction

Batch == [recs : Seq(Record), full : BOOLEAN, old : BOOLEAN]

Batches == Seq(Batch)

Request == [id : Nat, batches : Batches]

Response == [id : Nat, offsets : Seq(Int)]

TaskType == [pc : {"select", "connect", "await", "finish", "ended"},
             cause : {"none", "flush", "full", "linger"}, ready : Batches, id : Nat]

UserType == [pc : {"idle", "push", "flush", "flushing"}, rec : Nat, part : Partition \cup Nat]

TypeOK ==
    /\ queue \in [Partition -> Batches]
    /\ task \in [Partition -> TaskType]
    /\ user \in [User -> UserType]
    /\ next \in Nat /\ ids \in [Partition -> Nat]
    /\ place \in [Record -> Partition] /\ future \in [Record -> Int]
    /\ wire \in [Partition -> Seq(Request)]
    /\ reply \in [Partition -> Response]
    /\ log \in [Partition -> Seq(Record)] /\ thinned \in [Partition -> SUBSET Record]

\* The records of a sequence of batches are in the order they were sent.
Sorted(bs) ==
    \A i, k \in DOMAIN bs : \A j \in DOMAIN bs[i].recs, l \in DOMAIN bs[k].recs :
        i < k \/ (i = k /\ j < l) => bs[i].recs[j] < bs[k].recs[l]

\* Records of p with an offset, but those of batches that a SmartModule
\* changed, th: what their offsets say is not so.
Acked(p, pl, fut, th) == {r \in Record : pl[r] = p /\ fut[r] >= 0 /\ r \notin th}

Spoilt(b, th) == \A j \in DOMAIN b.recs : b.recs[j] \in th

\* The batches that the task of a partition holds, h, and those of its queue,
\* q: they are not answered, and come after all records that are.
LineInv(p, h, q, pl, fut, th) ==
    /\ Sorted(h) /\ Sorted(q)
    /\ \A r \in RecordsOf(h), s \in RecordsOf(q) : r < s
    /\ \A r \in RecordsOf(h) \cup RecordsOf(q) : pl[r] = p /\ fut[r] = Pending
    /\ \A r \in Acked(p, pl, fut, th), s \in RecordsOf(h) \cup RecordsOf(q) : r < s

Held(p) == IF task[p].pc = "await" THEN task[p].ready ELSE <<>>

\* Acknowledged records are where their futures say, in the order sent.
TrueInv(p, pl, fut, lg, th) ==
    /\ \A r \in Acked(p, pl, fut, th) : fut[r] < Len(lg) /\ lg[fut[r] + 1] = r
    /\ \A r, s \in Acked(p, pl, fut, th) : r < s => fut[r] < fut[s]

\* A response that the task will take is right about the batches it holds
\* that no SmartModule changed.
ReplyInv(p, bs, offsets, pl, fut, lg, th) ==
    /\ DOMAIN offsets = DOMAIN bs
    /\ \A i \in DOMAIN bs :
         \/ offsets[i] = Refused
         \/ Spoilt(bs[i], th) /\ offsets[i] \in Nat
         \/ /\ offsets[i] \in Nat
            /\ \A j \in DOMAIN bs[i].recs :
                 offsets[i] + j <= Len(lg) /\ lg[offsets[i] + j] = bs[i].recs[j]
            /\ \A r \in Acked(p, pl, fut, th) : fut[r] < offsets[i]
            /\ \A k \in DOMAIN bs :
                 i < k /\ offsets[k] >= 0 /\ ~Spoilt(bs[k], th) =>
                     offsets[i] + Len(bs[i].recs) <= offsets[k]

\* The task takes no response but the one to its last attempt.
WireInv(p) ==
    /\ task[p].id <= ids[p] /\ reply[p].id <= ids[p]
    /\ \A i \in DOMAIN wire[p] : wire[p][i].id <= ids[p]
    /\ task[p].pc = "await" =>
         /\ task[p].id # 0
         /\ \A i \in DOMAIN wire[p] : wire[p][i].id = task[p].id => wire[p][i].batches = task[p].ready
         /\ reply[p].id = task[p].id =>
              ReplyInv(p, task[p].ready, reply[p].offsets, place, future, log[p], thinned[p])

\* The record that is being pushed is newer than all that were.
PushInv ==
    /\ \A s \in Record : future[s] # None => s < next
    /\ \A u \in User : user[u].pc = "push" =>
         /\ user[u].rec \in Record /\ user[u].part \in Partition
         /\ user[u].rec < next /\ place[user[u].rec] = user[u].part
         /\ future[user[u].rec] = None
         /\ \A s \in Record : future[s] # None => s < user[u].rec
         /\ \A v \in User : v # u => user[v].pc # "push"

\* A caller of flush is at one of the partitions.
StageInv ==
    \A u \in User : user[u].pc \in {"flush", "flushing"} => user[u].part \in 1 .. Cardinality(Partition)

PartitionInv(p) ==
    /\ LineInv(p, Held(p), queue[p], place, future, thinned[p])
    /\ TrueInv(p, place, future, log[p], thinned[p])
    /\ WireInv(p)

OffsetInv == TypeOK /\ PushInv /\ StageInv /\ \A p \in Partition : PartitionInv(p)

-----------------------------------------------------------------------------
(* Batches. *)

At(bs, r, i, j) == i \in DOMAIN bs /\ j \in DOMAIN bs[i].recs /\ bs[i].recs[j] = r

LEMMA BatchesType ==
    ASSUME NEW bs \in Batches
    PROVE  /\ Len(bs) \in Nat /\ DOMAIN bs = 1 .. Len(bs)
           /\ \A i \in DOMAIN bs : /\ bs[i] \in Batch
                                   /\ Len(bs[i].recs) \in Nat /\ DOMAIN bs[i].recs = 1 .. Len(bs[i].recs)
                                   /\ \A j \in DOMAIN bs[i].recs : bs[i].recs[j] \in Record
<1>1. Len(bs) \in Nat /\ DOMAIN bs = 1 .. Len(bs) /\ bs \in Seq(Batch)
  BY LenProperties DEF Batches
<1>2. ASSUME NEW i \in DOMAIN bs
      PROVE  /\ bs[i] \in Batch
             /\ Len(bs[i].recs) \in Nat /\ DOMAIN bs[i].recs = 1 .. Len(bs[i].recs)
             /\ \A j \in DOMAIN bs[i].recs : bs[i].recs[j] \in Record
  <2>1. bs[i] \in Batch
    BY <1>1, ElementOfSeq
  <2>2. bs[i].recs \in Seq(Record)
    BY <2>1 DEF Batch
  <2>3. Len(bs[i].recs) \in Nat /\ DOMAIN bs[i].recs = 1 .. Len(bs[i].recs)
    BY <2>2, LenProperties
  <2> QED
    BY <2>1, <2>2, <2>3, ElementOfSeq
<1> QED
  BY <1>1, <1>2

LEMMA RecordsAt ==
    ASSUME NEW bs, NEW r
    PROVE  r \in RecordsOf(bs) <=> \E i, j : At(bs, r, i, j)
  BY DEF RecordsOf, Range, At

LEMMA RecordsIn ==
    ASSUME NEW bs \in Batches
    PROVE  RecordsOf(bs) \subseteq Record
  BY BatchesType, RecordsAt DEF At

LEMMA RecordNat == Record \subseteq Nat /\ \A r, s \in Record : r \in Int /\ s \in Int
  BY ProducerAssumption DEF Record

LEMMA NoBatches == <<>> \in Batches /\ RecordsOf(<<>>) = {} /\ Sorted(<<>>) /\ DOMAIN <<>> = {}
<1>1. <<>> \in Batches /\ DOMAIN <<>> = {}
  BY EmptySeq, LenProperties DEF Batches
<1> QED
  BY <1>1 DEF RecordsOf, Sorted

LEMMA AtType ==
    ASSUME NEW bs \in Batches, NEW r, NEW i, NEW j, At(bs, r, i, j)
    PROVE  i \in Int /\ j \in Int /\ r \in Record /\ r \in Int
<1>1. i \in DOMAIN bs /\ j \in DOMAIN bs[i].recs /\ bs[i].recs[j] = r
  BY DEF At
<1>2. Len(bs) \in Nat /\ i \in 1 .. Len(bs)
  BY <1>1, BatchesType
<1>3. Len(bs[i].recs) \in Nat /\ j \in 1 .. Len(bs[i].recs) /\ r \in Record
  BY <1>1, BatchesType
<1> QED
  BY <1>2, <1>3, RecordNat

\* In a sorted sequence a record has one place.
LEMMA OnePlace ==
    ASSUME NEW bs \in Batches, Sorted(bs), NEW r, NEW i, NEW j, NEW k, NEW l,
           At(bs, r, i, j), At(bs, r, k, l)
    PROVE  i = k /\ j = l
<1>1. i \in Int /\ k \in Int /\ j \in Int /\ l \in Int /\ r \in Int
  BY AtType
<1>2. ~(i < k) /\ ~(k < i)
  BY <1>1 DEF Sorted, At
<1>3. i = k
  BY <1>1, <1>2
<1>4. ~(j < l) /\ ~(l < j)
  BY <1>1, <1>3 DEF Sorted, At
<1> QED
  BY <1>1, <1>3, <1>4

LEMMA AtOrder ==
    ASSUME NEW bs \in Batches, Sorted(bs), NEW r, NEW i, NEW j, NEW s, NEW k, NEW l,
           At(bs, r, i, j), At(bs, s, k, l), r < s
    PROVE  i < k \/ (i = k /\ j < l)
<1>1. i \in Int /\ k \in Int /\ j \in Int /\ l \in Int /\ r \in Int /\ s \in Int
  BY AtType
<1>2. ~(k < i)
  BY <1>1 DEF Sorted, At
<1>3. i = k => ~(l < j)
  BY <1>1 DEF Sorted, At
<1>4. i = k => j # l
  BY <1>1 DEF At
<1> QED
  BY <1>1, <1>2, <1>3, <1>4

\* Batches with the same records in the same places.
LEMMA SameRecs ==
    ASSUME NEW bs \in Batches, NEW cs \in Batches, Len(cs) = Len(bs),
           \A i \in DOMAIN bs : cs[i].recs = bs[i].recs
    PROVE  RecordsOf(cs) = RecordsOf(bs) /\ (Sorted(bs) => Sorted(cs))
<1>1. DOMAIN cs = DOMAIN bs
  BY BatchesType
<1>2. \A r, i, j : At(cs, r, i, j) <=> At(bs, r, i, j)
  BY <1>1 DEF At
<1>3. RecordsOf(cs) = RecordsOf(bs)
  <2>1. \A r : r \in RecordsOf(cs) <=> \E i, j : At(cs, r, i, j)
    BY RecordsAt
  <2>2. \A r : r \in RecordsOf(bs) <=> \E i, j : At(bs, r, i, j)
    BY RecordsAt
  <2> QED
    BY <1>2, <2>1, <2>2, Zenon
<1>4. Sorted(bs) => Sorted(cs)
  BY <1>1 DEF Sorted
<1> QED
  BY <1>3, <1>4

LEMMA SortedAt ==
    ASSUME NEW bs \in Batches
    PROVE  Sorted(bs) <=> \A r, s, i, j, k, l :
               At(bs, r, i, j) /\ At(bs, s, k, l) /\ (i < k \/ (i = k /\ j < l)) => r < s
<1>1. ASSUME Sorted(bs), NEW r, NEW s, NEW i, NEW j, NEW k, NEW l,
             At(bs, r, i, j), At(bs, s, k, l), i < k \/ (i = k /\ j < l)
      PROVE  r < s
  BY <1>1 DEF Sorted, At
<1>2. ASSUME \A r, s, i, j, k, l :
                 At(bs, r, i, j) /\ At(bs, s, k, l) /\ (i < k \/ (i = k /\ j < l)) => r < s
      PROVE  Sorted(bs)
  <2> SUFFICES ASSUME NEW i \in DOMAIN bs, NEW k \in DOMAIN bs,
                      NEW j \in DOMAIN bs[i].recs, NEW l \in DOMAIN bs[k].recs,
                      i < k \/ (i = k /\ j < l)
               PROVE  bs[i].recs[j] < bs[k].recs[l]
    BY DEF Sorted
  <2>1. At(bs, bs[i].recs[j], i, j) /\ At(bs, bs[k].recs[l], k, l)
    BY DEF At
  <2> QED
    BY <1>2, <2>1, Zenon
<1> QED
  BY <1>1, <1>2, Zenon

\* A record r, newer than the others, is added at the end.
LEMMA NewAtEnd ==
    ASSUME NEW q \in Batches, NEW c \in Batches, NEW r \in Record, NEW m, NEW n,
           \A s, i, j : At(c, s, i, j) <=> At(q, s, i, j) \/ (s = r /\ i = m /\ j = n),
           \A s, i, j : At(q, s, i, j) => i < m \/ (i = m /\ j < n)
    PROVE  /\ RecordsOf(c) = RecordsOf(q) \cup {r}
           /\ Sorted(q) /\ (\A s \in RecordsOf(q) : s < r) => Sorted(c)
<1>1. \A s : s \in RecordsOf(c) <=> \E i, j : At(c, s, i, j)
  BY RecordsAt
<1>2. \A s : s \in RecordsOf(q) <=> \E i, j : At(q, s, i, j)
  BY RecordsAt
<1>3. RecordsOf(c) = RecordsOf(q) \cup {r}
  BY <1>1, <1>2, Zenon
<1>4. ASSUME Sorted(q), \A s \in RecordsOf(q) : s < r PROVE Sorted(c)
  <2> SUFFICES ASSUME NEW s, NEW t, NEW i, NEW j, NEW k, NEW l,
                      At(c, s, i, j), At(c, t, k, l), i < k \/ (i = k /\ j < l)
               PROVE  s < t
    BY SortedAt
  <2>1. i \in Int /\ j \in Int /\ k \in Int /\ l \in Int
    BY AtType
  <2>2. CASE At(q, s, i, j) /\ At(q, t, k, l)
    BY <1>4, <2>2, SortedAt
  <2>3. CASE At(q, s, i, j) /\ t = r
    BY <1>2, <1>4, <2>3
  <2>4. CASE s = r /\ i = m /\ j = n
    <3>1. k < m \/ (k = m /\ l < n) \/ (k = m /\ l = n)
      OBVIOUS
    <3> QED
      BY <2>1, <2>4, <3>1
  <2> QED
    BY <2>2, <2>3, <2>4
<1> QED
  BY <1>3, <1>4

LEMMA Marked ==
    ASSUME NEW q \in Batches, NEW n \in DOMAIN q, NEW b \in Batch, b.recs = q[n].recs
    PROVE  /\ [q EXCEPT ![n] = b] \in Batches
           /\ Len([q EXCEPT ![n] = b]) = Len(q)
           /\ RecordsOf([q EXCEPT ![n] = b]) = RecordsOf(q)
           /\ Sorted(q) => Sorted([q EXCEPT ![n] = b])
<1> DEFINE c == [q EXCEPT ![n] = b]
<1>1. n \in 1 .. Len(q)
  BY BatchesType
<1>2. c \in Batches /\ Len(c) = Len(q)
  BY <1>1, ExceptSeq DEF Batches
<1>3. \A i \in DOMAIN q : c[i].recs = q[i].recs
  OBVIOUS
<1> HIDE DEF c
<1>4. RecordsOf(c) = RecordsOf(q) /\ (Sorted(q) => Sorted(c))
  BY <1>2, <1>3, SameRecs
<1> QED
  BY <1>2, <1>4 DEF c

LEMMA LastBatch ==
    ASSUME NEW q \in Batches, q # <<>>
    PROVE  Len(q) \in DOMAIN q /\ q[Len(q)] \in Batch
<1>1. Len(q) \in Nat \ {0}
  BY EmptySeq DEF Batches
<1> QED
  BY <1>1, BatchesType

LEMMA Closed ==
    ASSUME NEW q \in Batches, q # <<>>
    PROVE  /\ [q EXCEPT ![Len(q)].full = TRUE] \in Batches
           /\ RecordsOf([q EXCEPT ![Len(q)].full = TRUE]) = RecordsOf(q)
           /\ Sorted(q) => Sorted([q EXCEPT ![Len(q)].full = TRUE])
<1> DEFINE n == Len(q)
           b == [q[n] EXCEPT !.full = TRUE]
<1>1. n \in DOMAIN q /\ q[n] \in Batch
  BY LastBatch
<1>2. b \in Batch /\ b.recs = q[n].recs
  BY <1>1 DEF Batch
<1>3. [q EXCEPT ![n].full = TRUE] = [q EXCEPT ![n] = b]
  BY <1>1
<1> HIDE DEF n, b
<1>4. /\ [q EXCEPT ![n] = b] \in Batches
      /\ RecordsOf([q EXCEPT ![n] = b]) = RecordsOf(q)
      /\ Sorted(q) => Sorted([q EXCEPT ![n] = b])
  BY <1>1, <1>2, Marked
<1> QED
  BY <1>3, <1>4 DEF n

LEMMA WithType ==
    ASSUME NEW b \in Batch, NEW r \in Record
    PROVE  With(b, r) \in Batch /\ With(b, r).recs = Append(b.recs, r)
<1> DEFINE s == Append(b.recs, r)
           f == b.full \/ BatchLen(b) + Size(r) > BatchSize
<1>1. s \in Seq(Record)
  BY AppendProperties DEF Batch
<1>2. f \in BOOLEAN
  OBVIOUS
<1>3. With(b, r) = [b EXCEPT !.recs = s, !.full = f]
  BY DEF With
<1> HIDE DEF s, f
<1>4. [b EXCEPT !.recs = s, !.full = f] \in Batch /\ [b EXCEPT !.recs = s, !.full = f].recs = s
  BY <1>1, <1>2 DEF Batch
<1> QED
  BY <1>3, <1>4 DEF s

LEMMA Appended ==
    ASSUME NEW q \in Batches, NEW b \in Batch, NEW r \in Record, b.recs = <<r>>
    PROVE  /\ Append(q, b) \in Batches
           /\ RecordsOf(Append(q, b)) = RecordsOf(q) \cup {r}
           /\ Sorted(q) /\ (\A s \in RecordsOf(q) : s < r) => Sorted(Append(q, b))
<1> DEFINE c == Append(q, b)
           m == Len(q) + 1
<1>1. /\ c \in Batches /\ Len(c) = m /\ c[m] = b
      /\ \A i \in 1 .. Len(q) : c[i] = q[i]
  BY AppendProperties DEF Batches
<1>2. Len(q) \in Nat /\ DOMAIN q = 1 .. Len(q) /\ DOMAIN c = 1 .. m
  BY <1>1, BatchesType
<1>3. DOMAIN b.recs = {1} /\ b.recs[1] = r
  OBVIOUS
<1> HIDE DEF c
<1>4. ASSUME NEW s, NEW i, NEW j
      PROVE  At(c, s, i, j) <=> At(q, s, i, j) \/ (s = r /\ i = m /\ j = 1)
  <2>1. CASE i \in DOMAIN q
    <3>1. c[i] = q[i] /\ i \in DOMAIN c /\ i # m
      BY <1>1, <1>2, <2>1
    <3> QED
      BY <2>1, <3>1 DEF At
  <2>2. CASE i = m
    <3>1. i \notin DOMAIN q /\ i \in DOMAIN c
      BY <1>2, <2>2
    <3> QED
      BY <1>1, <1>3, <2>2, <3>1 DEF At
  <2>3. CASE i \notin DOMAIN q /\ i # m
    <3>1. i \notin DOMAIN c
      BY <1>2, <2>3
    <3> QED
      BY <2>3, <3>1 DEF At
  <2> QED
    BY <2>1, <2>2, <2>3
<1>5. \A s, i, j : At(q, s, i, j) => i < m \/ (i = m /\ j < 1)
  BY <1>2 DEF At
<1>7. \A s, i, j : At(c, s, i, j) <=> At(q, s, i, j) \/ (s = r /\ i = m /\ j = 1)
  BY <1>4
<1> HIDE DEF m
<1>6. /\ RecordsOf(c) = RecordsOf(q) \cup {r}
      /\ Sorted(q) /\ (\A s \in RecordsOf(q) : s < r) => Sorted(c)
  <2>1. PICK n : n = 1
    OBVIOUS
  <2>2. \A s, i, j : At(c, s, i, j) <=> At(q, s, i, j) \/ (s = r /\ i = m /\ j = n)
    BY <1>7, <2>1
  <2>3. \A s, i, j : At(q, s, i, j) => i < m \/ (i = m /\ j < n)
    BY <1>5, <2>1
  <2>4. c \in Batches
    BY <1>1
  <2> QED
    BY <2>3, <2>4, <2>2, NewAtEnd
<1> QED
  BY <1>1, <1>6 DEF c

LEMMA Grown ==
    ASSUME NEW q \in Batches, q # <<>>, NEW r \in Record
    PROVE  LET c == [q EXCEPT ![Len(q)] = With(q[Len(q)], r)]
           IN  /\ c \in Batches
               /\ RecordsOf(c) = RecordsOf(q) \cup {r}
               /\ Sorted(q) /\ (\A s \in RecordsOf(q) : s < r) => Sorted(c)
<1> DEFINE m == Len(q)
           b == With(q[m], r)
           c == [q EXCEPT ![m] = b]
           n == Len(q[m].recs) + 1
<1>1. m \in DOMAIN q /\ q[m] \in Batch /\ DOMAIN q = 1 .. m /\ m \in Nat
  BY LastBatch, BatchesType
<1>2. q[m].recs \in Seq(Record)
  BY <1>1 DEF Batch
<1>3. b \in Batch /\ b.recs = Append(q[m].recs, r)
  BY <1>1, WithType
<1>4. /\ Append(q[m].recs, r) \in Seq(Record) /\ Len(Append(q[m].recs, r)) = n
      /\ \A j \in 1 .. Len(q[m].recs) : Append(q[m].recs, r)[j] = q[m].recs[j]
      /\ Append(q[m].recs, r)[n] = r
  BY <1>2, AppendProperties
<1>5. Len(q[m].recs) \in Nat /\ DOMAIN q[m].recs = 1 .. Len(q[m].recs)
  BY <1>2, LenProperties
<1>6. DOMAIN b.recs = 1 .. n
  BY <1>3, <1>4, LenProperties
<1> HIDE DEF b
<1>7. c \in Batches /\ DOMAIN c = DOMAIN q /\ \A i \in DOMAIN q : c[i] = IF i = m THEN b ELSE q[i]
  BY <1>1, <1>3, ExceptSeq DEF Batches
<1> HIDE DEF c
<1>8. ASSUME NEW s, NEW i, NEW j
      PROVE  At(c, s, i, j) <=> At(q, s, i, j) \/ (s = r /\ i = m /\ j = n)
  <2>1. CASE i # m
    BY <1>7, <2>1 DEF At
  <2>2. CASE i = m
    <3>1. At(c, s, i, j) <=> j \in DOMAIN b.recs /\ b.recs[j] = s
      BY <1>1, <1>7, <2>2 DEF At
    <3>2. At(q, s, i, j) <=> j \in DOMAIN q[m].recs /\ q[m].recs[j] = s
      BY <1>1, <2>2 DEF At
    <3>3. j \in DOMAIN b.recs <=> j \in DOMAIN q[m].recs \/ j = n
      BY <1>5, <1>6
    <3>4. n \notin DOMAIN q[m].recs
      BY <1>5
    <3>5. \A x \in DOMAIN q[m].recs : b.recs[x] = q[m].recs[x]
      BY <1>3, <1>4, <1>5
    <3>6. b.recs[n] = r
      BY <1>3, <1>4
    <3> HIDE DEF n, m
    <3> QED
      BY <2>2, <3>1, <3>2, <3>3, <3>4, <3>5, <3>6, Zenon
  <2> QED
    BY <2>1, <2>2
<1>9. ASSUME NEW s, NEW i, NEW j, At(q, s, i, j) PROVE i < m \/ (i = m /\ j < n)
  <2>1. i \in 1 .. m
    BY <1>1, <1>9 DEF At
  <2>2. i = m => j \in 1 .. Len(q[m].recs)
    BY <1>5, <1>9 DEF At
  <2>3. i = m => j < n
    BY <1>5, <2>2
  <2> HIDE DEF n, m
  <2> QED
    BY <1>1, <2>1, <2>3
<1> HIDE DEF n, m
<1>10. /\ RecordsOf(c) = RecordsOf(q) \cup {r}
       /\ Sorted(q) /\ (\A s \in RecordsOf(q) : s < r) => Sorted(c)
  BY <1>7, <1>8, <1>9, NewAtEnd
<1> QED
  BY <1>7, <1>10 DEF c, b, m

\* The first n batches are taken out of a queue.
LEMMA Taken ==
    ASSUME NEW q \in Batches, NEW n \in 0 .. Len(q)
    PROVE  LET h == SubSeq(q, 1, n)
               t == SubSeq(q, n + 1, Len(q))
           IN  /\ h \in Batches /\ t \in Batches
               /\ RecordsOf(h) \cup RecordsOf(t) = RecordsOf(q)
               /\ n = Len(q) => RecordsOf(t) = {}
               /\ Sorted(q) => /\ Sorted(h) /\ Sorted(t)
                               /\ \A r \in RecordsOf(h), s \in RecordsOf(t) : r < s
<1> DEFINE m == Len(q)
           h == SubSeq(q, 1, n)
           t == SubSeq(q, n + 1, m)
<1>1. m \in Nat /\ n \in Nat /\ n <= m /\ DOMAIN q = 1 .. m /\ \A i \in 1 .. m : q[i] \in Batch
  BY BatchesType
<1> HIDE DEF m
<1>2. h \in Batches /\ DOMAIN h = 1 .. n /\ \A i \in 1 .. n : h[i] = q[i]
  <2>1. 1 \in Int /\ n \in Int /\ \A i \in 1 .. n : q[i] \in Batch
    BY <1>1
  <2>2. /\ h \in Seq(Batch) /\ Len(h) = IF 1 <= n THEN n - 1 + 1 ELSE 0
        /\ \A i \in 1 .. n - 1 + 1 : h[i] = q[1 + i - 1]
    BY <2>1, SubSeqProperties
  <2>3. Len(h) = n /\ \A i \in 1 .. n : h[i] = q[i]
    BY <1>1, <2>2
  <2> QED
    BY <2>2, <2>3, BatchesType DEF Batches
<1>3. t \in Batches /\ DOMAIN t = 1 .. m - n /\ \A i \in 1 .. m - n : t[i] = q[n + i]
  <2>1. n + 1 \in Int /\ m \in Int /\ \A i \in n + 1 .. m : q[i] \in Batch
    BY <1>1
  <2>2. /\ t \in Seq(Batch) /\ Len(t) = IF n + 1 <= m THEN m - (n + 1) + 1 ELSE 0
        /\ \A i \in 1 .. m - (n + 1) + 1 : t[i] = q[(n + 1) + i - 1]
    BY <2>1, SubSeqProperties
  <2>3. Len(t) = m - n /\ \A i \in 1 .. m - n : t[i] = q[n + i]
    BY <1>1, <2>2
  <2> QED
    BY <2>2, <2>3, BatchesType DEF Batches
<1> HIDE DEF h, t
<1>4. ASSUME NEW r, NEW i, NEW j PROVE At(h, r, i, j) <=> At(q, r, i, j) /\ i \in 1 .. n
  <2>1. i \in 1 .. n => i \in 1 .. m
    BY <1>1
  <2> QED
    BY <1>1, <1>2, <2>1 DEF At
<1>5. ASSUME NEW r, NEW i, NEW j, At(t, r, i, j) PROVE i \in 1 .. m - n /\ At(q, r, n + i, j)
  <2>1. i \in 1 .. m - n => n + i \in 1 .. m
    BY <1>1
  <2> QED
    BY <1>1, <1>3, <1>5, <2>1 DEF At
<1>6. ASSUME NEW r, NEW i, NEW j, At(q, r, i, j), i \notin 1 .. n PROVE At(t, r, i - n, j)
  <2>1. i \in 1 .. m
    BY <1>1, <1>6 DEF At
  <2>2. i - n \in 1 .. m - n /\ n + (i - n) = i
    BY <1>1, <1>6, <2>1
  <2> QED
    BY <1>3, <1>6, <2>2 DEF At
<1>7. RecordsOf(h) \cup RecordsOf(t) = RecordsOf(q)
  <2>1. ASSUME NEW r \in RecordsOf(h) PROVE r \in RecordsOf(q)
    BY <1>4, <2>1, RecordsAt
  <2>2. ASSUME NEW r \in RecordsOf(t) PROVE r \in RecordsOf(q)
    BY <1>5, <2>2, RecordsAt
  <2>3. ASSUME NEW r \in RecordsOf(q) PROVE r \in RecordsOf(h) \cup RecordsOf(t)
    BY <1>4, <1>6, <2>3, RecordsAt
  <2> QED
    BY <2>1, <2>2, <2>3
<1>8. n = m => RecordsOf(t) = {}
  <2> SUFFICES ASSUME n = m, NEW r \in RecordsOf(t) PROVE FALSE
    OBVIOUS
  <2>1. PICK i, j : At(t, r, i, j)
    BY RecordsAt
  <2>2. i \in 1 .. m - n
    BY <1>5, <2>1
  <2> QED
    BY <1>1, <2>2
<1>9. ASSUME Sorted(q)
      PROVE  Sorted(h) /\ Sorted(t) /\ \A r \in RecordsOf(h), s \in RecordsOf(t) : r < s
  <2>0. \A r, s, i, j, k, l : At(q, r, i, j) /\ At(q, s, k, l) /\ (i < k \/ (i = k /\ j < l)) => r < s
    BY <1>9, SortedAt
  <2>1. Sorted(h)
    BY <1>2, <1>4, <2>0, SortedAt
  <2>2. Sorted(t)
    <3> SUFFICES ASSUME NEW r, NEW s, NEW i, NEW j, NEW k, NEW l,
                        At(t, r, i, j), At(t, s, k, l), i < k \/ (i = k /\ j < l)
                 PROVE  r < s
      BY <1>3, SortedAt
    <3>1. i \in 1 .. m - n /\ k \in 1 .. m - n /\ At(q, r, n + i, j) /\ At(q, s, n + k, l)
      BY <1>5
    <3>2. n + i < n + k \/ (n + i = n + k /\ j < l)
      BY <1>1, <3>1
    <3> QED
      BY <2>0, <3>1, <3>2, Zenon
  <2>3. ASSUME NEW r \in RecordsOf(h), NEW s \in RecordsOf(t) PROVE r < s
    <3>1. PICK i, j : At(h, r, i, j)
      BY RecordsAt
    <3>2. PICK k, l : At(t, s, k, l)
      BY RecordsAt
    <3>3. At(q, r, i, j) /\ i \in 1 .. n /\ k \in 1 .. m - n /\ At(q, s, n + k, l)
      BY <1>4, <1>5, <3>1, <3>2
    <3>4. i < n + k
      BY <1>1, <3>3
    <3> QED
      BY <2>0, <3>3, <3>4, Zenon
  <2> QED
    BY <2>1, <2>2, <2>3
<1> QED
  BY <1>2, <1>3, <1>7, <1>8, <1>9 DEF h, t, m

-----------------------------------------------------------------------------
(* Induction over the numbers, and what FlattenSeq is. *)

\* A set with 0 and every successor of its members holds all numbers.
LEMMA Induct ==
    ASSUME NEW S, 0 \in S, \A n \in Nat : n \in S => n + 1 \in S
    PROVE  Nat \subseteq S
<1> DEFINE T == Nat \ S
<1> SUFFICES ASSUME T # {} PROVE FALSE
  OBVIOUS
<1>1. T \in SUBSET Nat
  OBVIOUS
<1>2. PICK x \in T : \A y \in T : ~(<<y, x>> \in OpToRel(<, Nat))
  BY <1>1, NatLessThanWellFounded, WFMin, Zenon
<1>3. \A y \in T : ~(y < x)
  BY <1>2 DEF OpToRel
<1>4. x \in Nat /\ x # 0
  OBVIOUS
<1>5. x - 1 \in Nat /\ x - 1 < x
  BY <1>4
<1>6. x - 1 \in S
  BY <1>3, <1>5
<1> QED
  BY <1>4, <1>5, <1>6

\* g[i] is the concatenation of the first i sequences of w.
IsFlat(g, w, n) ==
    /\ g = [i \in 1 .. n |-> g[i]]
    /\ \A i \in 1 .. n : g[i] = IF i = 1 THEN w[i] ELSE g[i - 1] \o w[i]

LEMMA FlatExists ==
    ASSUME NEW w, NEW n \in Nat
    PROVE  \E g : IsFlat(g, w, n)
<1> DEFINE S == {m \in Nat : \E g : IsFlat(g, w, m)}
<1>1. 0 \in S
  <2>1. IsFlat([i \in 1 .. 0 |-> 0], w, 0)
    BY DEF IsFlat
  <2> QED
    BY <2>1
<1>2. ASSUME NEW m \in Nat, m \in S PROVE m + 1 \in S
  <2>1. PICK g : IsFlat(g, w, m)
    BY <1>2
  <2> DEFINE h == [i \in 1 .. m + 1 |-> IF i <= m THEN g[i]
                                        ELSE IF i = 1 THEN w[i] ELSE g[i - 1] \o w[i]]
  <2>2. IsFlat(h, w, m + 1)
    <3>1. h = [i \in 1 .. m + 1 |-> h[i]]
      OBVIOUS
    <3>2. ASSUME NEW i \in 1 .. m + 1
          PROVE h[i] = IF i = 1 THEN w[i] ELSE h[i - 1] \o w[i]
      <4>1. i # 1 => i - 1 \in 1 .. m /\ h[i - 1] = g[i - 1]
        OBVIOUS
      <4>2. CASE i \in 1 .. m
        <5>1. g[i] = IF i = 1 THEN w[i] ELSE g[i - 1] \o w[i]
          BY <2>1, <4>2 DEF IsFlat
        <5>2. h[i] = g[i]
          BY <4>2
        <5> HIDE DEF h
        <5> QED
          BY <4>1, <5>1, <5>2
      <4>3. CASE i = m + 1
        <5>1. h[i] = IF i = 1 THEN w[i] ELSE g[i - 1] \o w[i]
          BY <4>3
        <5> HIDE DEF h
        <5> QED
          BY <4>1, <5>1
      <4> QED
        BY <4>2, <4>3
    <3> HIDE DEF h
    <3> QED
      BY <3>1, <3>2 DEF IsFlat
  <2> HIDE DEF h
  <2> QED
    BY <2>2
<1> HIDE DEF S
<1>3. n \in S
  BY <1>1, <1>2, Induct
<1> QED
  BY <1>3 DEF S

LEMMA FlattenIs ==
    ASSUME NEW w, NEW n \in Nat \ {0}, Len(w) = n
    PROVE  \E g : IsFlat(g, w, n) /\ FlattenSeq(w) = g[n]
<1> DEFINE f == CHOOSE g : g = [i \in 1 .. n |-> IF i = 1 THEN w[i] ELSE g[i - 1] \o w[i]]
<1>1. FlattenSeq(w) = f[n]
  BY DEF FlattenSeq
<1>2. PICK g : IsFlat(g, w, n)
  BY FlatExists
<1>3. g = [i \in 1 .. n |-> IF i = 1 THEN w[i] ELSE g[i - 1] \o w[i]]
  BY <1>2 DEF IsFlat
<1>4. f = [i \in 1 .. n |-> IF i = 1 THEN w[i] ELSE f[i - 1] \o w[i]]
  BY <1>3
<1> HIDE DEF f
<1>5. IsFlat(f, w, n)
  BY <1>4 DEF IsFlat
<1> QED
  BY <1>1, <1>5

\* The recurrence of the concatenations.
LEMMA FlatEq ==
    ASSUME NEW g, NEW w, NEW n \in Nat, IsFlat(g, w, n)
    PROVE  \A i \in 1 .. n : (i = 1 => g[i] = w[i]) /\ (i # 1 => g[i] = g[i - 1] \o w[i])
<1> TAKE i \in 1 .. n
<1> QED
  BY Zenon DEF IsFlat

Lists(T) == Seq(Seq(T))

LEMMA ListTypes ==
    ASSUME NEW T, NEW w \in Lists(T)
    PROVE  /\ Len(w) \in Nat
           /\ \A i \in 1 .. Len(w) : w[i] \in Seq(T) /\ Len(w[i]) \in Nat
<1>1. w \in Seq(Seq(T)) /\ Len(w) \in Nat
  BY LenProperties DEF Lists
<1>2. \A i \in 1 .. Len(w) : w[i] \in Seq(T)
  BY <1>1, ElementOfSeq
<1> QED
  BY <1>1, <1>2, LenProperties

LEMMA AtMost ==
    ASSUME NEW a \in Nat, NEW b \in Nat, NEW c \in Nat, a <= b
    PROVE  a <= b + c
  OBVIOUS

LEMMA Shift ==
    ASSUME NEW a \in Nat, NEW b \in Nat, NEW j \in 1 .. b
    PROVE  a + j \in 1 .. a + b /\ ~(a + j <= a) /\ (a + j) - a = j
  OBVIOUS

\* What a concatenation holds.
LEMMA Joined ==
    ASSUME NEW T, NEW s \in Seq(T), NEW t \in Seq(T)
    PROVE  /\ s \o t \in Seq(T) /\ Len(s) \in Nat /\ Len(t) \in Nat
           /\ Len(s \o t) = Len(s) + Len(t)
           /\ \A x \in 1 .. Len(s) : (s \o t)[x] = s[x]
           /\ \A j \in 1 .. Len(t) : (s \o t)[Len(s) + j] = t[j]
<1>1. s \o t \in Seq(T) /\ Len(s) \in Nat /\ Len(t) \in Nat /\ Len(s \o t) = Len(s) + Len(t)
  BY LenProperties, ConcatProperties
<1>2. \A x \in 1 .. Len(s) + Len(t) : (s \o t)[x] = IF x <= Len(s) THEN s[x] ELSE t[x - Len(s)]
  BY ConcatProperties, Zenon
<1>3. ASSUME NEW x \in 1 .. Len(s) PROVE (s \o t)[x] = s[x]
  <2>1. x \in 1 .. Len(s) + Len(t) /\ x <= Len(s)
    BY <1>1
  <2> QED
    BY <1>2, <2>1
<1>4. ASSUME NEW j \in 1 .. Len(t) PROVE (s \o t)[Len(s) + j] = t[j]
  <2>1. Len(s) + j \in 1 .. Len(s) + Len(t) /\ ~(Len(s) + j <= Len(s)) /\ (Len(s) + j) - Len(s) = j
    BY <1>1, Shift
  <2> QED
    BY <1>2, <2>1, Zenon
<1> QED
  BY <1>1, <1>3, <1>4

LEMMA FlatTypes ==
    ASSUME NEW T, NEW w \in Lists(T), NEW n \in Nat, n <= Len(w), NEW g, IsFlat(g, w, n),
           NEW i \in 1 .. n
    PROVE  g[i] \in Seq(T)
<1> DEFINE S == {m \in Nat : m \in 1 .. n => g[m] \in Seq(T)}
<1>0. \A m \in 1 .. n : w[m] \in Seq(T)
  BY ListTypes
<1>flat. \A x \in 1 .. n : (x = 1 => g[x] = w[x]) /\ (x # 1 => g[x] = g[x - 1] \o w[x])
  BY FlatEq, Zenon
<1>1. 0 \in S
  OBVIOUS
<1> HIDE DEF S
<1>2. ASSUME NEW m \in Nat, m \in S PROVE m + 1 \in S
  <2> SUFFICES ASSUME m + 1 \in 1 .. n PROVE g[m + 1] \in Seq(T)
    BY DEF S
  <2>1. CASE m = 0
    <3>1. 1 \in 1 .. n /\ m + 1 = 1
      BY <2>1
    <3>2. g[1] = w[1]
      BY <1>flat, <3>1, Zenon
    <3> QED
      BY <1>0, <3>1, <3>2
  <2>2. CASE m # 0
    <3>0. m \in 1 .. n /\ m + 1 # 1 /\ (m + 1) - 1 = m
      BY <2>2
    <3>1. g[m + 1] = g[(m + 1) - 1] \o w[m + 1]
      BY <1>flat, <3>0, Zenon
    <3>2. g[m] \in Seq(T) /\ w[m + 1] \in Seq(T)
      BY <1>0, <1>2, <3>0 DEF S
    <3>3. g[m + 1] = g[m] \o w[m + 1]
      BY <3>0, <3>1
    <3> QED
      BY <3>2, <3>3, ConcatProperties
  <2> QED
    BY <2>1, <2>2
<1>3. \A m \in Nat : m \in S => m + 1 \in S
  BY <1>2
<1>4. i \in S
  BY <1>1, <1>3, Induct
<1> QED
  BY <1>4 DEF S

\* u is s with t after it.
Follows(u, s, t) ==
    /\ Len(u) \in Nat /\ Len(s) \in Nat /\ Len(t) \in Nat /\ Len(u) = Len(s) + Len(t)
    /\ \A x \in 1 .. Len(s) : u[x] = s[x]
    /\ \A j \in 1 .. Len(t) : u[Len(s) + j] = t[j]

LEMMA FlatStep ==
    ASSUME NEW T, NEW w \in Lists(T), NEW n \in Nat, n <= Len(w), NEW g, IsFlat(g, w, n),
           NEW i \in 1 .. n, i # 1
    PROVE  Follows(g[i], g[i - 1], w[i])
<1>1. i - 1 \in 1 .. n /\ i \in 1 .. Len(w)
  BY ListTypes
<1>2. g[i] \in Seq(T) /\ g[i - 1] \in Seq(T)
  BY <1>1, FlatTypes, Zenon
<1>3. w[i] \in Seq(T)
  BY <1>1, ListTypes, Zenon
<1>4. g[i] = g[i - 1] \o w[i]
  BY FlatEq, Zenon
<1>5. Len(g[i]) \in Nat
  BY <1>2, LenProperties
<1> DEFINE s == g[i - 1]
           t == w[i]
<1>6. s \in Seq(T) /\ t \in Seq(T) /\ g[i] = s \o t
  BY <1>2, <1>3, <1>4
<1> HIDE DEF s, t
<1>7. /\ Len(s) \in Nat /\ Len(t) \in Nat /\ Len(g[i]) = Len(s) + Len(t)
      /\ \A x \in 1 .. Len(s) : g[i][x] = s[x]
      /\ \A j \in 1 .. Len(t) : g[i][Len(s) + j] = t[j]
  <2>1. /\ Len(s) \in Nat /\ Len(t) \in Nat /\ Len(s \o t) = Len(s) + Len(t)
        /\ \A x \in 1 .. Len(s) : (s \o t)[x] = s[x]
        /\ \A j \in 1 .. Len(t) : (s \o t)[Len(s) + j] = t[j]
    BY <1>6, Joined
  <2> QED
    BY <1>6, <2>1, Zenon
<1> QED
  BY <1>5, <1>7, Zenon DEF s, t, Follows

\* The concatenation of fewer sequences is a prefix.
LEMMA FlatPrefix ==
    ASSUME NEW T, NEW w \in Lists(T), NEW n \in Nat, n <= Len(w), NEW g, IsFlat(g, w, n),
           NEW i \in 1 .. n, NEW k \in 1 .. n, i <= k
    PROVE  Len(g[i]) <= Len(g[k]) /\ \A x \in 1 .. Len(g[i]) : g[k][x] = g[i][x]
<1> DEFINE P(m) == Len(g[i]) <= Len(g[m]) /\ \A x \in 1 .. Len(g[i]) : g[m][x] = g[i][x]
           S == {m \in Nat : m \in 1 .. n /\ i <= m => P(m)}
<1>0. Len(g[i]) \in Nat
  BY FlatTypes, LenProperties
<1>1. 0 \in S
  OBVIOUS
<1> HIDE DEF S
<1>2. ASSUME NEW m \in Nat, m \in S PROVE m + 1 \in S
  <2>0. PICK l \in Nat : l = m + 1
    OBVIOUS
  <2> SUFFICES ASSUME l \in 1 .. n, i <= l PROVE P(l)
    BY <2>0 DEF S
  <2>1. CASE i = l
    BY <1>0, <2>1
  <2>2. CASE i <= m
    <3>1. m \in 1 .. n /\ l # 1 /\ l - 1 = m
      BY <2>0, <2>2
    <3>2. P(m)
      BY <1>2, <2>2, <3>1 DEF S
    <3>3. /\ Len(g[l]) \in Nat /\ Len(g[l - 1]) \in Nat /\ Len(w[l]) \in Nat
          /\ Len(g[l]) = Len(g[l - 1]) + Len(w[l])
          /\ \A x \in 1 .. Len(g[l - 1]) : g[l][x] = g[l - 1][x]
      <4>1. Follows(g[l], g[l - 1], w[l])
        BY <3>1, FlatStep
      <4> QED
        BY <4>1, Zenon DEF Follows
    <3>4. /\ Len(g[l]) \in Nat /\ Len(g[m]) \in Nat /\ Len(w[l]) \in Nat
          /\ Len(g[l]) = Len(g[m]) + Len(w[l])
          /\ \A x \in 1 .. Len(g[m]) : g[l][x] = g[m][x]
      BY <3>1, <3>3, Zenon
    <3>5. \A x \in 1 .. Len(g[i]) : x \in 1 .. Len(g[m])
      BY <1>0, <3>2, <3>4
    <3>6. Len(g[i]) <= Len(g[l])
      <4>1. Len(g[i]) <= Len(g[m])
        BY <3>2
      <4>2. Len(g[i]) \in Nat /\ Len(g[m]) \in Nat /\ Len(w[l]) \in Nat /\ Len(g[l]) = Len(g[m]) + Len(w[l])
        BY <1>0, <3>4
      <4> HIDE DEF P
      <4> QED
        BY <4>1, <4>2, AtMost
    <3> QED
      BY <3>2, <3>4, <3>5, <3>6, Zenon
  <2>3. i = l \/ i <= m
    BY <2>0
  <2> QED
    BY <2>1, <2>2, <2>3
<1>3. \A m \in Nat : m \in S => m + 1 \in S
  BY <1>2
<1>4. k \in S
  BY <1>1, <1>3, Induct
<1> QED
  BY <1>4 DEF S

LEMMA FlatUnique ==
    ASSUME NEW w, NEW v, NEW n \in Nat, NEW k \in 0 .. n, \A i \in 1 .. k : v[i] = w[i],
           NEW g, IsFlat(g, w, n), NEW h, IsFlat(h, v, k), NEW i \in 1 .. k
    PROVE  h[i] = g[i]
<1> DEFINE S == {m \in Nat : m \in 1 .. k => h[m] = g[m]}
<1>5. k \in Nat
  OBVIOUS
<1>6. \A x \in 1 .. k : h[x] = IF x = 1 THEN v[x] ELSE h[x - 1] \o v[x]
  BY DEF IsFlat
<1>7. \A x \in 1 .. n : g[x] = IF x = 1 THEN w[x] ELSE g[x - 1] \o w[x]
  BY DEF IsFlat
<1>1. 0 \in S
  OBVIOUS
<1> HIDE DEF S
<1>2. ASSUME NEW m \in Nat, m \in S PROVE m + 1 \in S
  <2> PICK l \in Nat : l = m + 1
    OBVIOUS
  <2> SUFFICES ASSUME l \in 1 .. k PROVE h[l] = g[l]
    BY DEF S
  <2>0. l \in 1 .. n /\ v[l] = w[l] /\ l - 1 = m
    OBVIOUS
  <2>1. m = 0 => l = 1
    OBVIOUS
  <2>2. m # 0 => l # 1 /\ m \in 1 .. k
    OBVIOUS
  <2>3. /\ l = 1 => h[l] = v[l]
        /\ l # 1 => h[l] = h[l - 1] \o v[l]
    BY <1>6, Zenon
  <2>4. /\ l = 1 => g[l] = w[l]
        /\ l # 1 => g[l] = g[l - 1] \o w[l]
    BY <1>7, <2>0, Zenon
  <2>5. CASE m = 0
    BY <2>0, <2>1, <2>3, <2>4, <2>5, Zenon
  <2>6. CASE m # 0
    <3>1. h[m] = g[m]
      BY <1>2, <2>2, <2>6 DEF S
    <3> QED
      BY <2>0, <2>2, <2>3, <2>4, <2>6, <3>1, Zenon
  <2> QED
    BY <2>5, <2>6
<1>3. \A m \in Nat : m \in S => m + 1 \in S
  BY <1>2
<1>4. i \in S
  BY <1>1, <1>3, Induct
<1> QED
  BY <1>4 DEF S

\* Where the i-th sequence begins in the concatenation of w.
Begin(w, i) == Len(FlattenSeq(SubSeq(w, 1, i - 1)))

LEMMA Flattened ==
    ASSUME NEW T, NEW w \in Lists(T)
    PROVE  /\ FlattenSeq(w) \in Seq(T)
           /\ \A i \in 1 .. Len(w) :
                /\ Begin(w, i) \in Nat /\ w[i] \in Seq(T)
                /\ \A j \in 1 .. Len(w[i]) : /\ Begin(w, i) + j <= Len(FlattenSeq(w))
                                             /\ FlattenSeq(w)[Begin(w, i) + j] = w[i][j]
                /\ \A k \in 1 .. Len(w) : i < k => Begin(w, i) + Len(w[i]) <= Begin(w, k)
<1> DEFINE n == Len(w)
<1>0. n \in Nat
  BY ListTypes
<1>1. CASE n = 0
  <2>1. FlattenSeq(w) = w /\ w = <<>>
    BY <1>1, EmptySeq DEF FlattenSeq, Lists
  <2> QED
    BY <1>1, <2>1, EmptySeq
<1>2. CASE n # 0
  <2> HIDE DEF n
  <2>0. n <= Len(w)
    BY <1>0 DEF n
  <2>1. PICK g : IsFlat(g, w, n) /\ FlattenSeq(w) = g[n]
    BY <1>0, <1>2, FlattenIs DEF n
  <2>2. n \in 1 .. n
    BY <1>0, <1>2
  <2>3. \A i \in 1 .. n : g[i] \in Seq(T) /\ Len(g[i]) \in Nat
    <3>1. \A i \in 1 .. n : g[i] \in Seq(T)
      BY <1>0, <2>0, <2>1, FlatTypes, Zenon
    <3> QED
      BY <3>1, LenProperties
  <2>4. \A i \in 1 .. n : w[i] \in Seq(T) /\ Len(w[i]) \in Nat
    BY ListTypes, Zenon DEF n
  <2>5. Begin(w, 1) = 0
    <3>1. SubSeq(w, 1, 0) = <<>>
      BY SubSeqEmpty DEF Lists
    <3>2. FlattenSeq(<<>>) = <<>>
      BY EmptySeq DEF FlattenSeq
    <3>3. 1 - 1 = 0
      OBVIOUS
    <3> QED
      BY <3>1, <3>2, <3>3, EmptySeq DEF Begin
  <2>6. ASSUME NEW i \in 1 .. n, i # 1 PROVE Begin(w, i) = Len(g[i - 1])
    <3> DEFINE k == i - 1
               v == SubSeq(w, 1, k)
    <3>1. k \in Nat \ {0} /\ k \in 1 .. n /\ k \in 0 .. n /\ k \in 1 .. k
      BY <1>0, <2>6
    <3> HIDE DEF k
    <3>2. v \in Seq(Seq(T)) /\ Len(v) = k /\ \A j \in 1 .. k : v[j] = w[j]
      <4>1. w \in Seq(Seq(T)) /\ 1 \in Int /\ k \in Int /\ \A j \in 1 .. k : w[j] \in Seq(T)
        BY <1>0, <2>4, <3>1 DEF Lists
      <4>2. v \in Seq(Seq(T)) /\ Len(v) = IF 1 <= k THEN k - 1 + 1 ELSE 0
        BY <4>1, SubSeqProperties
      <4>3. \A j \in 1 .. k - 1 + 1 : v[j] = w[1 + j - 1]
        BY <4>1, SubSeqProperties
      <4> QED
        BY <3>1, <4>2, <4>3
    <3> HIDE DEF v
    <3>3. PICK h : IsFlat(h, v, k) /\ FlattenSeq(v) = h[k]
      BY <3>1, <3>2, FlattenIs
    <3>5. h[k] = g[k]
      <4>1. IsFlat(h, v, k) /\ IsFlat(g, w, n)
        BY <2>1, <3>3
      <4>2. \A j \in 1 .. k : v[j] = w[j]
        BY <3>2
      <4>3. k \in 0 .. n /\ k \in 1 .. k
        BY <3>1
      <4> QED
        BY <1>0, <4>1, <4>2, <4>3, FlatUnique
    <3> QED
      BY <3>3, <3>5 DEF Begin, v, k
  <2>7. \A i \in 1 .. n : Begin(w, i) \in Nat
    <3>1. \A i \in 1 .. n : i # 1 => i - 1 \in 1 .. n
      BY <1>0
    <3> QED
      BY <2>3, <2>5, <2>6, <3>1
  <2>8. ASSUME NEW i \in 1 .. n
        PROVE  /\ Len(g[i]) = Begin(w, i) + Len(w[i])
               /\ \A j \in 1 .. Len(w[i]) : g[i][Begin(w, i) + j] = w[i][j]
    <3>1. CASE i = 1
      <4>1. g[i] = w[i]
        BY <1>0, <2>1, <3>1, FlatEq, Zenon
      <4>2. \A j \in 1 .. Len(w[i]) : 0 + j = j
        BY <2>4
      <4>3. Len(w[i]) = 0 + Len(w[i])
        BY <2>4
      <4> QED
        BY <2>5, <3>1, <4>1, <4>2, <4>3, Zenon
    <3>2. CASE i # 1
      <4>1. /\ Len(g[i]) = Len(g[i - 1]) + Len(w[i])
            /\ \A j \in 1 .. Len(w[i]) : g[i][Len(g[i - 1]) + j] = w[i][j]
        <5>1. Follows(g[i], g[i - 1], w[i])
          BY <1>0, <2>0, <2>1, <3>2, FlatStep
        <5> QED
          BY <5>1, Zenon DEF Follows
      <4>2. Begin(w, i) = Len(g[i - 1])
        BY <2>6, <3>2
      <4> QED
        BY <4>1, <4>2, Zenon
    <3> QED
      BY <3>1, <3>2
  <2>9. ASSUME NEW i \in 1 .. n, NEW j \in 1 .. Len(w[i])
        PROVE  Begin(w, i) + j <= Len(FlattenSeq(w)) /\ FlattenSeq(w)[Begin(w, i) + j] = w[i][j]
    <3>1. Len(g[i]) <= Len(g[n]) /\ \A x \in 1 .. Len(g[i]) : g[n][x] = g[i][x]
      <4>1. i <= n
        BY <1>0
      <4> QED
        BY <1>0, <2>0, <2>1, <2>2, <4>1, FlatPrefix
    <3>2. Begin(w, i) \in Nat /\ Len(w[i]) \in Nat /\ Len(g[i]) \in Nat /\ Len(g[n]) \in Nat
      BY <2>2, <2>3, <2>4, <2>7
    <3>3. Begin(w, i) + j \in 1 .. Len(g[i])
      BY <2>8, <3>2
    <3>4. Begin(w, i) + j <= Len(g[n])
      BY <3>1, <3>2, <3>3
    <3>5. g[n][Begin(w, i) + j] = w[i][j]
      BY <2>8, <3>1, <3>3, Zenon
    <3> QED
      BY <2>1, <3>4, <3>5
  <2>10. ASSUME NEW i \in 1 .. n, NEW k \in 1 .. n, i < k
         PROVE  Begin(w, i) + Len(w[i]) <= Begin(w, k)
    <3> DEFINE l == k - 1
    <3>1. k # 1 /\ l \in 1 .. n /\ i <= l
      BY <1>0, <2>10
    <3>2. Begin(w, k) = Len(g[l])
      BY <2>6, <3>1
    <3> HIDE DEF l
    <3>3. Len(g[i]) <= Len(g[l])
      BY <1>0, <2>0, <2>1, <3>1, FlatPrefix, Zenon
    <3> QED
      BY <2>8, <3>2, <3>3
  <2>11. g[n] \in Seq(T)
    BY <2>2, <2>3
  <2> QED
    BY <2>1, <2>4, <2>7, <2>9, <2>10, <2>11 DEF n
<1> QED
  BY <1>1, <1>2

-----------------------------------------------------------------------------
(* The operators of the producer. *)

LEMMA ReadyPrefix ==
    ASSUME NEW p \in Partition, queue[p] \in Batches
    PROVE  /\ ReadyCount(p) \in 0 .. Len(queue[p])
           /\ task[p].cause = "flush" => ReadyCount(p) = Len(queue[p])
<1> DEFINE m == Len(queue[p])
           ready(i) == task[p].cause = "flush" \/ IsFull(queue[p][i]) \/ queue[p][i].old
           Good(n) == (\A i \in 1 .. n : ready(i)) /\ (n < m => ~ready(n + 1))
<1>1. m \in Nat
  BY BatchesType
<1>2. ReadyCount(p) = CHOOSE n \in 0 .. m : Good(n)
  BY DEF ReadyCount
<1> HIDE DEF m, ready
<1>3. \E n \in 0 .. m : Good(n)
  <2> SUFFICES ASSUME \A n \in 0 .. m : ~Good(n) PROVE FALSE
    OBVIOUS
  <2> DEFINE S == {n \in Nat : n <= m => \A i \in 1 .. n : ready(i)}
  <2>1. 0 \in S
    OBVIOUS
  <2>2. ASSUME NEW n \in Nat, n \in S PROVE n + 1 \in S
    <3> SUFFICES ASSUME n + 1 <= m PROVE \A i \in 1 .. n + 1 : ready(i)
      OBVIOUS
    <3>1. \A i \in 1 .. n : ready(i)
      BY <1>1, <2>2
    <3>2. n \in 0 .. m /\ n < m
      BY <1>1
    <3>3. ready(n + 1)
      BY <3>1, <3>2
    <3>4. \A i \in 1 .. n + 1 : i \in 1 .. n \/ i = n + 1
      OBVIOUS
    <3> QED
      BY <3>1, <3>3, <3>4, Zenon
  <2> HIDE DEF S
  <2>3. \A n \in Nat : n \in S => n + 1 \in S
    BY <2>2
  <2>4. m \in S
    BY <1>1, <2>1, <2>3, Induct
  <2>5. \A i \in 1 .. m : ready(i)
    BY <1>1, <2>4 DEF S
  <2>6. Good(m) /\ m \in 0 .. m
    BY <1>1, <2>5
  <2> QED
    BY <2>6
<1>4. ReadyCount(p) \in 0 .. m /\ Good(ReadyCount(p))
  BY <1>2, <1>3
<1>5. ASSUME task[p].cause = "flush" PROVE ReadyCount(p) = m
  <2>1. ready(ReadyCount(p) + 1)
    BY <1>5 DEF ready
  <2>2. ~(ReadyCount(p) < m)
    BY <1>4, <2>1
  <2> QED
    BY <1>1, <1>4, <2>2
<1> QED
  BY <1>4, <1>5 DEF m

LEMMA Resolved ==
    ASSUME future \in [Record -> Int], NEW bs \in Batches, Sorted(bs), NEW offsets,
           \A i \in DOMAIN bs : offsets[i] \in Int
    PROVE  /\ Resolve(bs, offsets) \in [Record -> Int]
           /\ \A r \in Record : r \notin RecordsOf(bs) => Resolve(bs, offsets)[r] = future[r]
           /\ \A r, i, j : At(bs, r, i, j) =>
                Resolve(bs, offsets)[r] = IF offsets[i] < 0 THEN offsets[i] ELSE offsets[i] + j - 1
<1> DEFINE at(r, i) == {j \in DOMAIN bs[i].recs : bs[i].recs[j] = r}
           in(r) == {i \in DOMAIN bs : at(r, i) # {}}
           first(r) == CHOOSE i \in in(r) : TRUE
           pos(r) == CHOOSE j \in at(r, first(r)) : TRUE
           value(r) == IF in(r) = {} THEN future[r]
                       ELSE IF offsets[first(r)] < 0 THEN offsets[first(r)]
                       ELSE offsets[first(r)] + pos(r) - 1
<1>1. Resolve(bs, offsets) = [r \in Record |-> value(r)]
  BY DEF Resolve
<1>2. ASSUME NEW r, r \notin RecordsOf(bs) PROVE in(r) = {}
  <2>1. \A i, j : ~At(bs, r, i, j)
    BY <1>2, RecordsAt
  <2> QED
    BY <2>1 DEF At
<1>3. ASSUME NEW r, NEW i, NEW j, At(bs, r, i, j)
      PROVE  in(r) # {} /\ first(r) = i /\ pos(r) = j
  <2>1. i \in in(r) /\ j \in at(r, i)
    BY <1>3 DEF At
  <2>2. first(r) \in in(r)
    BY <2>1
  <2>3. PICK l : l \in at(r, first(r))
    BY <2>2
  <2>4. first(r) \in DOMAIN bs
    BY <2>2
  <2>5. At(bs, r, first(r), l)
    BY <2>3, <2>4 DEF At
  <2> HIDE DEF first
  <2>6. first(r) = i
    BY <1>3, <2>5, OnePlace
  <2>7. pos(r) \in at(r, i)
    BY <2>1, <2>6
  <2> HIDE DEF pos
  <2>8. At(bs, r, i, pos(r))
    BY <1>3, <2>7 DEF At
  <2>9. pos(r) = j
    BY <1>3, <2>8, OnePlace
  <2> QED
    BY <2>1, <2>6, <2>9
<1> HIDE DEF in, first, pos
<1>4. ASSUME NEW r, NEW i, NEW j, At(bs, r, i, j)
      PROVE  /\ r \in Record
             /\ value(r) = IF offsets[i] < 0 THEN offsets[i] ELSE offsets[i] + j - 1
             /\ value(r) \in Int
  <2>1. r \in Record /\ j \in Int /\ i \in DOMAIN bs
    BY <1>4, AtType DEF At
  <2>2. offsets[i] \in Int
    BY <2>1
  <2>3. value(r) = IF offsets[i] < 0 THEN offsets[i] ELSE offsets[i] + j - 1
    BY <1>3, <1>4
  <2> QED
    BY <2>1, <2>2, <2>3
<1>5. ASSUME NEW r \in Record, r \notin RecordsOf(bs) PROVE value(r) = future[r] /\ value(r) \in Int
  BY <1>2, <1>5
<1>6. \A r \in Record : value(r) \in Int
  BY <1>4, <1>5, RecordsAt
<1> HIDE DEF value
<1> QED
  BY <1>1, <1>4, <1>5, <1>6

\* What a partition has to do with the futures of records.
Agree(p, pl, fut, pl2, fut2) ==
    \A r \in Record : /\ pl[r] = p /\ fut[r] # None => pl2[r] = p /\ fut2[r] = fut[r]
                      /\ pl2[r] = p /\ fut2[r] # None => pl[r] = p /\ fut[r] = fut2[r]

LEMMA SameAcked ==
    ASSUME NEW p, NEW th, NEW pl, NEW pl2, NEW fut \in [Record -> Int], NEW fut2 \in [Record -> Int],
           Agree(p, pl, fut, pl2, fut2)
    PROVE  /\ Acked(p, pl2, fut2, th) = Acked(p, pl, fut, th)
           /\ \A r \in Acked(p, pl, fut, th) : fut2[r] = fut[r]
  BY DEF Agree, Acked, None

LEMMA KeepLine ==
    ASSUME NEW p, NEW th, NEW pl, NEW pl2, NEW fut \in [Record -> Int], NEW fut2 \in [Record -> Int],
           Agree(p, pl, fut, pl2, fut2), NEW h \in Batches, NEW q \in Batches,
           LineInv(p, h, q, pl, fut, th)
    PROVE  LineInv(p, h, q, pl2, fut2, th)
<1>1. RecordsOf(h) \cup RecordsOf(q) \subseteq Record
  BY RecordsIn
<1>2. \A r \in RecordsOf(h) \cup RecordsOf(q) : pl2[r] = p /\ fut2[r] = Pending
  BY <1>1 DEF LineInv, Agree, Pending, None
<1>3. Acked(p, pl2, fut2, th) = Acked(p, pl, fut, th)
  BY SameAcked
<1> QED
  BY <1>2, <1>3, Zenon DEF LineInv

LEMMA KeepTrue ==
    ASSUME NEW p, NEW th, NEW pl, NEW pl2, NEW fut, NEW fut2, NEW lg, TrueInv(p, pl, fut, lg, th),
           Acked(p, pl2, fut2, th) = Acked(p, pl, fut, th), \A r \in Acked(p, pl, fut, th) : fut2[r] = fut[r]
    PROVE  TrueInv(p, pl2, fut2, lg, th)
  BY Zenon DEF TrueInv

LEMMA KeepReply ==
    ASSUME NEW p, NEW th, NEW pl, NEW pl2, NEW fut, NEW fut2, NEW bs, NEW offsets, NEW lg,
           ReplyInv(p, bs, offsets, pl, fut, lg, th),
           Acked(p, pl2, fut2, th) = Acked(p, pl, fut, th), \A r \in Acked(p, pl, fut, th) : fut2[r] = fut[r]
    PROVE  ReplyInv(p, bs, offsets, pl2, fut2, lg, th)
<1>1. \A i : (\A r \in Acked(p, pl, fut, th) : fut[r] < offsets[i])
                => \A r \in Acked(p, pl2, fut2, th) : fut2[r] < offsets[i]
  BY Zenon
<1> QED
  BY <1>1, Zenon DEF ReplyInv

LEMMA HeldType ==
    ASSUME TypeOK, NEW p \in Partition
    PROVE  Held(p) \in Batches /\ queue[p] \in Batches /\ task[p].ready \in Batches
  BY NoBatches DEF TypeOK, Held, TaskType

LEMMA WireType ==
    ASSUME TypeOK, NEW p \in Partition
    PROVE  /\ wire[p] \in Seq(Request) /\ Len(wire[p]) \in Nat /\ DOMAIN wire[p] = 1 .. Len(wire[p])
           /\ \A i \in DOMAIN wire[p] : wire[p][i].id \in Nat /\ wire[p][i].batches \in Batches
<1>1. wire[p] \in Seq(Request)
  BY DEF TypeOK
<1>2. Len(wire[p]) \in Nat /\ DOMAIN wire[p] = 1 .. Len(wire[p])
  BY <1>1, LenProperties
<1>3. \A i \in DOMAIN wire[p] : wire[p][i] \in Request
  BY <1>1, <1>2, ElementOfSeq
<1> QED
  BY <1>1, <1>2, <1>3 DEF Request

LEMMA IdTypes ==
    ASSUME TypeOK, NEW p \in Partition
    PROVE  ids[p] \in Nat /\ task[p].id \in Nat /\ reply[p].id \in Nat
  BY DEF TypeOK, TaskType, Response

LEMMA KeepWire ==
    ASSUME TypeOK, TypeOK', NEW p \in Partition, WireInv(p),
           task'[p] = task[p], wire'[p] = wire[p], reply'[p] = reply[p], log'[p] = log[p],
           thinned'[p] = thinned[p], ids'[p] = ids[p],
           Acked(p, place', future', thinned'[p]) = Acked(p, place, future, thinned[p]),
           \A r \in Acked(p, place, future, thinned[p]) : future'[r] = future[r]
    PROVE  WireInv(p)'
<1>1. /\ task[p].id \in Int /\ reply[p].id \in Int /\ ids[p] \in Int
      /\ \A i \in DOMAIN wire[p] : wire[p][i].id \in Int
  BY IdTypes, WireType
<1>2. /\ task'[p].id <= ids'[p] /\ reply'[p].id <= ids'[p]
      /\ \A i \in DOMAIN wire'[p] : wire'[p][i].id <= ids'[p]
  BY <1>1 DEF WireInv
<1>3. ASSUME ReplyInv(p, task[p].ready, reply[p].offsets, place, future, log[p], thinned[p])
      PROVE  ReplyInv(p, task'[p].ready, reply'[p].offsets, place', future', log'[p], thinned'[p])
  <2>0. Acked(p, place', future', thinned[p]) = Acked(p, place, future, thinned[p])
    OBVIOUS
  <2>1. ReplyInv(p, task[p].ready, reply[p].offsets, place', future', log[p], thinned[p])
    BY <1>3, <2>0, KeepReply
  <2> QED
    BY <2>1
<1> QED
  BY <1>2, <1>3, Zenon DEF WireInv

\* A step that has nothing to do with p.
LEMMA KeepPartition ==
    ASSUME TypeOK, TypeOK', NEW p \in Partition, PartitionInv(p),
           queue'[p] = queue[p], task'[p] = task[p], wire'[p] = wire[p], reply'[p] = reply[p],
           log'[p] = log[p], thinned'[p] = thinned[p], ids'[p] = ids[p],
           Agree(p, place, future, place', future')
    PROVE  PartitionInv(p)'
<1>0. future \in [Record -> Int] /\ future' \in [Record -> Int]
  BY DEF TypeOK
<1>1. Held(p)' = Held(p)
  BY DEF Held
<1>2. LineInv(p, Held(p), queue[p], place, future, thinned[p])'
  <2>1. LineInv(p, Held(p), queue[p], place', future', thinned[p])
    BY <1>0, HeldType, KeepLine DEF PartitionInv
  <2> QED
    BY <1>1, <2>1
<1>3. /\ Acked(p, place', future', thinned'[p]) = Acked(p, place, future, thinned[p])
      /\ \A r \in Acked(p, place, future, thinned[p]) : future'[r] = future[r]
  BY <1>0, SameAcked
<1>4. TrueInv(p, place', future', log'[p], thinned'[p])
  BY <1>3, KeepTrue DEF PartitionInv
<1>5. WireInv(p)'
  BY <1>3, KeepWire DEF PartitionInv
<1> QED
  BY <1>2, <1>4, <1>5 DEF PartitionInv

-----------------------------------------------------------------------------
(* The steps. *)

LEMMA InitStep == Init => OffsetInv
<1> SUFFICES ASSUME Init PROVE OffsetInv
  OBVIOUS
<1>0. (CHOOSE p \in Partition : TRUE) \in Partition
  BY ProducerAssumption
<1>1. TypeOK
  <2>1. <<>> \in Batches /\ <<>> \in Seq(Request) /\ <<>> \in Seq(Int) /\ <<>> \in Seq(Record)
    BY NoBatches, EmptySeq
  <2> QED
    BY <1>0, <2>1 DEF Init, TypeOK, TaskType, UserType, Response, Waiting, Quiet, NoReply, None
<1>2. PushInv /\ StageInv
  BY DEF Init, PushInv, StageInv, Quiet, None
<1>3. ASSUME NEW p \in Partition PROVE PartitionInv(p)
  <2>1. Held(p) = <<>> /\ queue[p] = <<>> /\ wire[p] = <<>> /\ reply[p] = NoReply /\ task[p] = Waiting
    BY DEF Init, Held, Waiting
  <2>2. Acked(p, place, future, thinned[p]) = {}
    BY DEF Init, Acked, None
  <2>3. LineInv(p, Held(p), queue[p], place, future, thinned[p])
    BY <2>1, <2>2, NoBatches DEF LineInv
  <2>4. TrueInv(p, place, future, log[p], thinned[p])
    BY <2>2 DEF TrueInv
  <2>5. WireInv(p)
    BY <2>1 DEF WireInv, Init, NoReply, Waiting
  <2> QED
    BY <2>3, <2>4, <2>5 DEF PartitionInv
<1> QED
  BY <1>1, <1>2, <1>3 DEF OffsetInv

LEMMA SameAgree ==
    ASSUME NEW p, NEW pl, NEW fut
    PROVE  Agree(p, pl, fut, pl, fut)
  BY DEF Agree

\* What no partition has to do with.
Untouched == UNCHANGED <<queue, task, wire, reply, log, thinned, ids, place, future>>

LEMMA KeepAll ==
    ASSUME OffsetInv, TypeOK', Untouched
    PROVE  \A p \in Partition : PartitionInv(p)'
<1> QED
  BY KeepPartition, SameAgree DEF OffsetInv, Untouched

LEMMA PartsType == Cardinality(Partition) \in Nat \ {0}
<1>1. IsFiniteSet(Partition) /\ Partition # {}
  BY ProducerAssumption
<1>2. Cardinality(Partition) \in Nat /\ Cardinality(Partition) # 0
  BY <1>1, FS_CardinalityType, FS_EmptySet
<1> QED
  BY <1>2

\* The steps of flush and clear_errors, and those of the others that only
\* touch events, timers and errors.
LEMMA KeepUsers ==
    ASSUME OffsetInv, Untouched, next' = next, user' \in [User -> UserType],
           \A u \in User : user'[u] = user[u] \/ /\ user'[u].pc # "push"
                                                 /\ user'[u].pc \in {"flush", "flushing"} =>
                                                      user'[u].part \in 1 .. Cardinality(Partition)
    PROVE  OffsetInv'
<1>1. TypeOK'
  BY DEF OffsetInv, TypeOK, Untouched
<1>2. \A u \in User : user'[u].pc = "push" => user'[u] = user[u]
  OBVIOUS
<1>3. PushInv'
  BY <1>2 DEF OffsetInv, PushInv, Untouched
<1>4. StageInv'
  BY DEF OffsetInv, StageInv
<1> QED
  BY <1>1, <1>3, <1>4, KeepAll DEF OffsetInv

LEMMA StutterStep ==
    ASSUME OffsetInv, UNCHANGED vars
    PROVE  OffsetInv'
<1>1. user' = user /\ next' = next /\ Untouched
  BY DEF vars, client, spu, Untouched
<1>2. user' \in [User -> UserType]
  BY <1>1 DEF OffsetInv, TypeOK
<1> QED
  BY <1>1, <1>2, KeepUsers

LEMMA UserStep ==
    ASSUME OffsetInv, NEW u \in User,
           FlushBegin(u) \/ FlushNotify(u) \/ FlushNext(u) \/ FlushCancel(u) \/ ClearErrors(u)
    PROVE  OffsetInv'
<1> DEFINE Fine(s) == s.pc # "push" /\ (s.pc \in {"flush", "flushing"} => s.part \in 1 .. Cardinality(Partition))
<1>1. user \in [User -> UserType] /\ Cardinality(Partition) \in Nat \ {0}
  BY PartsType DEF OffsetInv, TypeOK
<1>2. Untouched /\ next' = next
  BY DEF FlushBegin, FlushNotify, FlushNext, FlushCancel, ClearErrors, Untouched, spu
<1>3. Quiet \in UserType /\ Fine(Quiet)
  BY DEF Quiet, UserType
<1>4. user' = user \/ \E s \in UserType : Fine(s) /\ user' = [user EXCEPT ![u] = s]
  <2>1. CASE FlushBegin(u)
    <3>1. [pc |-> "flush", rec |-> 0, part |-> 1] \in UserType /\ Fine([pc |-> "flush", rec |-> 0, part |-> 1])
      BY <1>1 DEF UserType
    <3>2. user' = [user EXCEPT ![u] = [pc |-> "flush", rec |-> 0, part |-> 1]]
      BY <2>1 DEF FlushBegin
    <3> HIDE DEF Fine
    <3> QED
      BY <3>1, <3>2
  <2>2. CASE FlushNotify(u)
    <3> DEFINE s == [user[u] EXCEPT !.pc = "flushing"]
    <3>1. user[u] \in UserType /\ user[u].pc = "flush" /\ user[u].part \in 1 .. Cardinality(Partition)
      BY <1>1, <2>2 DEF FlushNotify, OffsetInv, StageInv
    <3>2. s \in UserType /\ Fine(s)
      BY <3>1 DEF UserType
    <3>3. user' = [user EXCEPT ![u] = s]
      BY <2>2 DEF FlushNotify
    <3> HIDE DEF Fine, s
    <3> QED
      BY <3>2, <3>3
  <2>3. CASE FlushNext(u)
    <3> DEFINE i == user[u].part
               s == [pc |-> "flush", rec |-> 0, part |-> i + 1]
    <3>1. i \in 1 .. Cardinality(Partition)
      BY <2>3 DEF FlushNext, OffsetInv, StageInv
    <3>2. user' = [user EXCEPT ![u] = Quiet] \/ (i # Cardinality(Partition) /\ user' = [user EXCEPT ![u] = s])
      BY <2>3 DEF FlushNext
    <3> HIDE DEF i
    <3>3. i # Cardinality(Partition) => s \in UserType /\ Fine(s)
      BY <1>1, <3>1 DEF UserType
    <3> HIDE DEF Fine, s
    <3> QED
      BY <1>3, <3>2, <3>3
  <2>4. CASE FlushCancel(u)
    <3>1. user' = [user EXCEPT ![u] = Quiet]
      BY <2>4 DEF FlushCancel
    <3> HIDE DEF Fine
    <3> QED
      BY <1>3, <3>1
  <2>5. CASE ClearErrors(u)
    BY <2>5 DEF ClearErrors
  <2> QED
    BY <2>1, <2>2, <2>3, <2>4, <2>5
<1> HIDE DEF Fine
<1>5. user' \in [User -> UserType] /\ \A v \in User : user'[v] = user[v] \/ Fine(user'[v])
  <2>1. CASE user' = user
    BY <1>1, <2>1
  <2>2. CASE \E s \in UserType : Fine(s) /\ user' = [user EXCEPT ![u] = s]
    BY <1>1, <2>2
  <2> QED
    BY <1>4, <2>1, <2>2
<1> QED
  BY <1>2, <1>5, KeepUsers DEF Fine

LEMMA DropStep ==
    ASSUME OffsetInv, DropProducer
    PROVE  OffsetInv'
<1>1. user' = user /\ next' = next /\ Untouched
  BY DEF DropProducer, Untouched, spu
<1>2. user' \in [User -> UserType]
  BY <1>1 DEF OffsetInv, TypeOK
<1> QED
  BY <1>1, <1>2, KeepUsers

LEMMA NewBatchStep ==
    ASSUME OffsetInv, NEW p \in Partition, OnNewBatch(p)
    PROVE  OffsetInv'
<1>1. user' = user /\ next' = next /\ Untouched
  BY DEF OnNewBatch, Untouched, spu, client
<1>2. user' \in [User -> UserType]
  BY <1>1 DEF OffsetInv, TypeOK
<1> QED
  BY <1>1, <1>2, KeepUsers

\* The partitioner has chosen: the record has no future yet.
LEMMA PushBeginStep ==
    ASSUME OffsetInv, NEW u \in User, NEW p \in Partition, PushBegin(u, p)
    PROVE  OffsetInv'
<1>0. UNCHANGED <<queue, task, wire, reply, log, thinned, ids, future>> /\ next' = next + 1 /\ next \in Record
  BY DEF PushBegin, spu
<1>1. next \in Nat /\ user \in [User -> UserType]
      /\ future \in [Record -> Int] /\ place \in [Record -> Partition] /\ Record \subseteq Nat
  BY RecordNat DEF OffsetInv, TypeOK
<1>2. future[next] = None
  BY <1>0, <1>1 DEF OffsetInv, PushInv
<1>3. CASE error[p]
  <2>1. user' = user /\ Untouched
    BY <1>0, <1>3 DEF PushBegin, Untouched
  <2>2. TypeOK'
    <3>1. next' \in Nat
      BY <1>0, <1>1
    <3> QED
      BY <1>0, <2>1, <3>1 DEF OffsetInv, TypeOK, Untouched
  <2>3. PushInv'
    <3>1. \A s \in Record : future[s] # None => s < next + 1
      BY <1>1 DEF OffsetInv, PushInv
    <3>2. \A v \in User : user[v].pc # "push"
      BY DEF PushBegin
    <3> QED
      BY <1>0, <2>1, <3>1, <3>2 DEF PushInv, Untouched
  <2>4. StageInv'
    BY <2>1 DEF OffsetInv, StageInv
  <2> QED
    BY <2>1, <2>2, <2>3, <2>4, KeepAll DEF OffsetInv
<1>4. CASE ~error[p]
  <2> DEFINE s == [pc |-> "push", rec |-> next, part |-> p]
  <2>1. user' = [user EXCEPT ![u] = s] /\ place' = [place EXCEPT ![next] = p]
    BY <1>4 DEF PushBegin
  <2>2. TypeOK'
    <3>1. next' \in Nat /\ s \in UserType
      BY <1>0, <1>1 DEF UserType
    <3>2. user' \in [User -> UserType] /\ place' \in [Record -> Partition]
      BY <1>0, <1>1, <2>1, <3>1
    <3> QED
      BY <1>0, <3>1, <3>2 DEF OffsetInv, TypeOK
  <2>3. \A v \in User : v # u => user'[v] = user[v] /\ user[v].pc = "idle"
    BY <1>1, <2>1 DEF PushBegin
  <2>4. user'[u] = s
    BY <1>1, <2>1
  <2>5. \A x \in Record : future[x] # None => x < next
    BY DEF OffsetInv, PushInv
  <2>6. \A x \in Record : future[x] # None => x < next + 1
    BY <1>1, <2>5
  <2>7. next < next + 1 /\ place'[next] = p
    BY <1>0, <1>1, <2>1
  <2>8. PushInv'
    BY <1>0, <1>2, <2>3, <2>4, <2>5, <2>6, <2>7 DEF PushInv
  <2>9. StageInv'
    BY <2>3, <2>4 DEF StageInv
  <2>10. ASSUME NEW o \in Partition PROVE PartitionInv(o)'
    <3>1. Agree(o, place, future, place', future')
      BY <1>0, <1>1, <1>2, <2>1 DEF Agree
    <3> QED
      BY <1>0, <1>1, <2>2, <3>1, KeepPartition DEF OffsetInv
  <2> QED
    BY <2>2, <2>8, <2>9, <2>10 DEF OffsetInv
<1> QED
  BY <1>3, <1>4

\* A step at p that settles the futures of the records H, which are not
\* answered before it.
Settles(p, H) ==
    /\ UNCHANGED <<user, next, place>>
    /\ H \subseteq Record
    /\ \A r \in H : place[r] = p /\ future[r] = Pending
    /\ \A r \in Record : r \notin H => future'[r] = future[r]

LEMMA SettleStep ==
    ASSUME OffsetInv, TypeOK', NEW p \in Partition, NEW H, Settles(p, H),
           \A o \in Partition : o # p => /\ queue'[o] = queue[o] /\ task'[o] = task[o]
                                         /\ wire'[o] = wire[o] /\ reply'[o] = reply[o] /\ log'[o] = log[o]
                                         /\ thinned'[o] = thinned[o] /\ ids'[o] = ids[o],
           PartitionInv(p)'
    PROVE  OffsetInv'
<1>0. future \in [Record -> Int] /\ place \in [Record -> Partition]
  BY DEF OffsetInv, TypeOK
<1>1. PushInv'
  <2>1. \A s \in Record : future'[s] # None => future[s] # None
    BY DEF Settles, None, Pending
  <2>2. \A s \in Record : future[s] = None => future'[s] = None
    BY DEF Settles, None, Pending
  <2> QED
    BY <2>1, <2>2 DEF OffsetInv, PushInv, Settles
<1>2. StageInv'
  BY DEF OffsetInv, StageInv, Settles
<1>3. ASSUME NEW o \in Partition, o # p PROVE PartitionInv(o)'
  <2>1. Agree(o, place, future, place', future')
    BY <1>0, <1>3 DEF Agree, Settles
  <2> QED
    BY <1>3, <2>1, KeepPartition DEF OffsetInv
<1> QED
  BY <1>1, <1>2, <1>3 DEF OffsetInv

LEMMA SettleNone ==
    ASSUME NEW p, UNCHANGED <<user, next, place, future>>
    PROVE  Settles(p, {})
  BY DEF Settles

\* A step of the task before and after it sends.
LEMMA IdleStep ==
    ASSUME OffsetInv, NEW p \in Partition, NEW t \in TaskType, task' = [task EXCEPT ![p] = t],
           task[p].pc # "await", t.pc # "await", t.id <= ids[p],
           UNCHANGED <<queue, wire, reply, log, thinned, ids, place, future, user, next>>
    PROVE  OffsetInv'
<1>1. TypeOK'
  BY DEF OffsetInv, TypeOK
<1>2. task'[p] = t /\ \A o \in Partition : o # p => task'[o] = task[o]
  BY DEF OffsetInv, TypeOK
<1>3. Held(p)' = <<>> /\ Held(p) = <<>>
  BY <1>2 DEF Held
<1>4. LineInv(p, Held(p), queue[p], place, future, thinned[p])'
  BY <1>3 DEF OffsetInv, PartitionInv
<1>5. WireInv(p)'
  BY <1>2 DEF OffsetInv, PartitionInv, WireInv
<1>6. PartitionInv(p)'
  BY <1>4, <1>5 DEF OffsetInv, PartitionInv
<1> QED
  BY <1>1, <1>2, <1>6, SettleNone, SettleStep

LEMMA SelectStep ==
    ASSUME OffsetInv, NEW p \in Partition,
           OnEvent(p, "flush") \/ OnEvent(p, "full") \/ OnLinger(p)
    PROVE  OffsetInv'
<1>1. PICK k \in {"flush", "full", "linger"} : task' = Become(p, "connect", k)
  BY DEF OnEvent, OnLinger
<1> DEFINE t == [task[p] EXCEPT !.pc = "connect", !.cause = k]
<1>2. task[p] \in TaskType /\ task[p].pc = "select" /\ task[p].id <= ids[p] /\ task \in [Partition -> TaskType]
  BY DEF OffsetInv, TypeOK, OnEvent, OnLinger, PartitionInv, WireInv
<1>3. t \in TaskType /\ t.pc = "connect" /\ t.id = task[p].id
  BY <1>2 DEF TaskType
<1>4. task' = [task EXCEPT ![p] = t]
  BY <1>1, <1>2 DEF Become
<1>5. UNCHANGED <<queue, wire, reply, log, thinned, ids, place, future, user, next>>
  BY DEF OnEvent, OnLinger, client, spu
<1> HIDE DEF t
<1> QED
  BY <1>2, <1>3, <1>4, <1>5, IdleStep

LEMMA FinishStep ==
    ASSUME OffsetInv, NEW p \in Partition, Finish(p)
    PROVE  OffsetInv'
<1>1. Waiting \in TaskType /\ Waiting.pc # "await" /\ Waiting.id = 0
  BY NoBatches DEF Waiting, TaskType
<1>2. Waiting.id <= ids[p]
  BY <1>1 DEF OffsetInv, TypeOK
<1>3. task[p].pc # "await" /\ task' = [task EXCEPT ![p] = Waiting]
  BY DEF Finish
<1>4. UNCHANGED <<queue, wire, reply, log, thinned, ids, place, future, user, next>>
  BY DEF Finish, client, spu
<1> QED
  BY <1>1, <1>2, <1>3, <1>4, IdleStep

LEMMA EndStep ==
    ASSUME OffsetInv, NEW p \in Partition, OnEnd(p)
    PROVE  OffsetInv'
<1> DEFINE H == RecordsOf(queue[p])
           t == [task[p] EXCEPT !.pc = "ended", !.cause = "none"]
<1>1. UNCHANGED <<wire, reply, log, thinned, ids, place, user, next>> /\ task[p].pc = "select"
  BY DEF OnEnd, client, spu
<1>2. /\ task[p] \in TaskType /\ task \in [Partition -> TaskType] /\ queue \in [Partition -> Batches]
      /\ future \in [Record -> Int] /\ queue[p] \in Batches /\ ids \in [Partition -> Nat]
  BY DEF OffsetInv, TypeOK
<1>3. t \in TaskType /\ t.pc = "ended" /\ t.id = task[p].id
  BY <1>2 DEF TaskType
<1>4. task' = [task EXCEPT ![p] = t]
  BY <1>2 DEF OnEnd, Become
<1> HIDE DEF t
<1>5. queue' = [queue EXCEPT ![p] = <<>>] /\ future' = [r \in Record |-> IF r \in H THEN Lost ELSE future[r]]
  BY DEF OnEnd
<1>6. H \subseteq Record /\ \A r \in H : place[r] = p /\ future[r] = Pending
  BY <1>2, RecordsIn DEF OffsetInv, PartitionInv, LineInv
<1> HIDE DEF H
<1>7. queue' \in [Partition -> Batches] /\ future' \in [Record -> Int] /\ task' \in [Partition -> TaskType]
  BY <1>2, <1>3, <1>4, <1>5, NoBatches DEF Lost
<1>8. TypeOK'
  BY <1>1, <1>7 DEF OffsetInv, TypeOK
<1>9. /\ queue'[p] = <<>> /\ task'[p] = t
      /\ \A o \in Partition : o # p => queue'[o] = queue[o] /\ task'[o] = task[o]
  BY <1>2, <1>4, <1>5
<1>10. Settles(p, H)
  BY <1>1, <1>5, <1>6 DEF Settles
<1>11. /\ Acked(p, place', future', thinned'[p]) = Acked(p, place, future, thinned[p])
       /\ \A r \in Acked(p, place, future, thinned[p]) : future'[r] = future[r]
  BY <1>1, <1>2, <1>5, <1>6 DEF Acked, Lost, Pending
<1>12. Held(p)' = <<>>
  BY <1>3, <1>9 DEF Held
<1>13. LineInv(p, Held(p), queue[p], place, future, thinned[p])'
  BY <1>9, <1>12, NoBatches DEF LineInv
<1>14. TrueInv(p, place', future', log'[p], thinned'[p])
  BY <1>1, <1>11, KeepTrue DEF OffsetInv, PartitionInv
<1>15. WireInv(p)'
  BY <1>1, <1>3, <1>9 DEF OffsetInv, PartitionInv, WireInv
<1>16. PartitionInv(p)'
  BY <1>1, <1>2, <1>13, <1>14, <1>15 DEF PartitionInv
<1> QED
  BY <1>1, <1>8, <1>9, <1>10, <1>16, SettleStep

LEMMA AgeStep ==
    ASSUME OffsetInv, NEW p \in Partition, Age(p)
    PROVE  OffsetInv'
<1>1. PICK i \in DOMAIN queue[p] : queue' = [queue EXCEPT ![p][i].old = TRUE]
  BY DEF Age
<1>2. UNCHANGED <<task, wire, reply, log, thinned, ids, place, user, next, future>>
  BY DEF Age, client, spu
<1> DEFINE b == [queue[p][i] EXCEPT !.old = TRUE]
           c == [queue[p] EXCEPT ![i] = b]
<1>3. queue \in [Partition -> Batches] /\ queue[p] \in Batches /\ ids \in [Partition -> Nat]
  BY DEF OffsetInv, TypeOK
<1>4. queue[p][i] \in Batch
  BY <1>3, BatchesType
<1>5. b \in Batch /\ b.recs = queue[p][i].recs
  BY <1>4 DEF Batch
<1>6. queue' = [queue EXCEPT ![p] = c]
  BY <1>1, <1>3
<1> HIDE DEF b
<1>7. c \in Batches /\ RecordsOf(c) = RecordsOf(queue[p]) /\ (Sorted(queue[p]) => Sorted(c))
  BY <1>3, <1>5, Marked
<1> HIDE DEF c
<1>8. queue' \in [Partition -> Batches] /\ queue'[p] = c /\ \A o \in Partition : o # p => queue'[o] = queue[o]
  BY <1>3, <1>6, <1>7
<1>9. TypeOK'
  BY <1>2, <1>8 DEF OffsetInv, TypeOK
<1>10. Held(p)' = Held(p)
  BY <1>2 DEF Held
<1>11. LineInv(p, Held(p), queue[p], place, future, thinned[p])'
  <2>1. LineInv(p, Held(p), c, place, future, thinned[p])
    BY <1>7, Zenon DEF OffsetInv, PartitionInv, LineInv
  <2> QED
    BY <1>2, <1>8, <1>10, <2>1
<1>12. TrueInv(p, place, future, log[p], thinned[p])' /\ WireInv(p)'
  BY <1>2 DEF OffsetInv, PartitionInv, WireInv
<1>13. PartitionInv(p)'
  BY <1>2, <1>3, <1>11, <1>12 DEF PartitionInv
<1> QED
  BY <1>2, <1>8, <1>9, <1>13, SettleNone, SettleStep

LEMMA NewBatchType ==
    ASSUME NEW r \in Record
    PROVE  NewBatch(r) \in Batch /\ NewBatch(r).recs = <<r>>
<1> DEFINE b == [recs |-> <<>>, full |-> FALSE, old |-> FALSE]
<1>1. b \in Batch /\ b.recs = <<>>
  BY EmptySeq DEF Batch
<1> HIDE DEF b
<1>2. With(b, r) \in Batch /\ With(b, r).recs = Append(<<>>, r)
  BY <1>1, WithType
<1>3. Append(<<>>, r) = <<r>>
  OBVIOUS
<1> QED
  BY <1>2, <1>3 DEF NewBatch, b

\* The queue after RecordAccumulator::push_record.
LEMMA Pushed ==
    ASSUME TypeOK, NEW u \in User, NEW p \in Partition, NEW r \in Record, PushRecord(u),
           p = user[u].part, r = user[u].rec
    PROVE  \E c \in Batches, N \in {{}, {r}} :
               /\ queue' = [queue EXCEPT ![p] = c]
               /\ RecordsOf(c) = RecordsOf(queue[p]) \cup N
               /\ Sorted(queue[p]) /\ (\A s \in RecordsOf(queue[p]) : s < r) => Sorted(c)
               /\ future' = IF N = {} THEN future ELSE [future EXCEPT ![r] = Pending]
<1> DEFINE q == queue[p]
           closed == [q EXCEPT ![Len(q)].full = TRUE]
           back == q[Len(q)]
           Goal(c, N) == /\ queue' = [queue EXCEPT ![p] = c]
                         /\ RecordsOf(c) = RecordsOf(q) \cup N
                         /\ Sorted(q) /\ (\A s \in RecordsOf(q) : s < r) => Sorted(c)
                         /\ future' = IF N = {} THEN future ELSE [future EXCEPT ![r] = Pending]
<1>1. q \in Batches /\ queue \in [Partition -> Batches]
  BY DEF TypeOK
<1>2. \/ /\ queue' = (IF q = <<>> THEN queue ELSE [queue EXCEPT ![p] = closed])
         /\ future' = future
      \/ /\ future' = [future EXCEPT ![r] = Pending]
         /\ \/ q = <<>> /\ queue' = [queue EXCEPT ![p] = Append(q, NewBatch(r))]
            \/ q # <<>> /\ queue' = [queue EXCEPT ![p] = [q EXCEPT ![Len(q)] = With(back, r)]]
            \/ q # <<>> /\ queue' = [queue EXCEPT ![p] = Append(closed, NewBatch(r))]
  BY Zenon DEF PushRecord, Enqueue
<1>3. NewBatch(r) \in Batch /\ NewBatch(r).recs = <<r>>
  BY NewBatchType
<1>4. q # <<>> => /\ closed \in Batches /\ RecordsOf(closed) = RecordsOf(q)
                  /\ Sorted(q) => Sorted(closed)
  BY <1>1, Closed
<1> HIDE DEF closed
<1>5. CASE queue' = (IF q = <<>> THEN queue ELSE [queue EXCEPT ![p] = closed]) /\ future' = future
  <2>1. CASE q = <<>>
    <3>1. queue = [queue EXCEPT ![p] = q]
      BY <1>1
    <3> HIDE DEF q
    <3>2. Goal(q, {})
      BY <1>5, <2>1, <3>1
    <3> QED
      BY <1>1, <3>2, Zenon DEF q
  <2>2. CASE q # <<>>
    <3>1. Goal(closed, {})
      BY <1>4, <1>5, <2>2
    <3> QED
      BY <1>4, <2>2, <3>1, Zenon
  <2> QED
    BY <2>1, <2>2
<1>6. ASSUME NEW c \in Batches, future' = [future EXCEPT ![r] = Pending], queue' = [queue EXCEPT ![p] = c],
             RecordsOf(c) = RecordsOf(q) \cup {r},
             Sorted(q) /\ (\A s \in RecordsOf(q) : s < r) => Sorted(c)
      PROVE  \E d \in Batches, N \in {{}, {r}} : Goal(d, N)
  <2>1. Goal(c, {r})
    BY <1>6
  <2> QED
    BY <2>1, Zenon
<1>7. CASE /\ future' = [future EXCEPT ![r] = Pending]
           /\ queue' = [queue EXCEPT ![p] = Append(q, NewBatch(r))]
  <2>1. /\ Append(q, NewBatch(r)) \in Batches
        /\ RecordsOf(Append(q, NewBatch(r))) = RecordsOf(q) \cup {r}
        /\ Sorted(q) /\ (\A s \in RecordsOf(q) : s < r) => Sorted(Append(q, NewBatch(r)))
    BY <1>1, <1>3, Appended
  <2> HIDE DEF Goal, q
  <2> QED
    BY <1>6, <1>7, <2>1 DEF q
<1>8. CASE /\ future' = [future EXCEPT ![r] = Pending] /\ q # <<>>
           /\ queue' = [queue EXCEPT ![p] = Append(closed, NewBatch(r))]
  <2>1. /\ Append(closed, NewBatch(r)) \in Batches
        /\ RecordsOf(Append(closed, NewBatch(r))) = RecordsOf(closed) \cup {r}
        /\ Sorted(closed) /\ (\A s \in RecordsOf(closed) : s < r) => Sorted(Append(closed, NewBatch(r)))
    BY <1>3, <1>4, <1>8, Appended
  <2>2. /\ RecordsOf(Append(closed, NewBatch(r))) = RecordsOf(q) \cup {r}
        /\ Sorted(q) /\ (\A s \in RecordsOf(q) : s < r) => Sorted(Append(closed, NewBatch(r)))
    BY <1>4, <1>8, <2>1
  <2> HIDE DEF Goal
  <2> QED
    BY <1>6, <1>8, <2>1, <2>2
<1>9. CASE /\ future' = [future EXCEPT ![r] = Pending] /\ q # <<>>
           /\ queue' = [queue EXCEPT ![p] = [q EXCEPT ![Len(q)] = With(back, r)]]
  <2> DEFINE c == [q EXCEPT ![Len(q)] = With(back, r)]
  <2>1. /\ c \in Batches
        /\ RecordsOf(c) = RecordsOf(q) \cup {r}
        /\ Sorted(q) /\ (\A s \in RecordsOf(q) : s < r) => Sorted(c)
    BY <1>1, <1>9, Grown
  <2>2. queue' = [queue EXCEPT ![p] = c]
    BY <1>9
  <2> HIDE DEF Goal, c
  <2> QED
    BY <1>6, <1>9, <2>1, <2>2
<1>10. \E c \in Batches, N \in {{}, {r}} : Goal(c, N)
  BY <1>2, <1>5, <1>7, <1>8, <1>9
<1> QED
  BY <1>10

LEMMA PushRecordStep ==
    ASSUME OffsetInv, NEW u \in User, PushRecord(u)
    PROVE  OffsetInv'
<1>1. user[u].pc = "push" /\ TypeOK
  BY DEF PushRecord, OffsetInv
<1>0. PICK p \in Partition, r \in Record : p = user[u].part /\ r = user[u].rec
  BY <1>1 DEF OffsetInv, PushInv
<1>2. /\ r \in Record /\ p \in Partition /\ r < next /\ place[r] = p /\ future[r] = None
      /\ \A s \in Record : future[s] # None => s < r
      /\ \A v \in User : v # u => user[v].pc # "push"
  BY <1>0, <1>1 DEF OffsetInv, PushInv
<1>3. PICK c \in Batches, N \in {{}, {r}} :
          /\ queue' = [queue EXCEPT ![p] = c]
          /\ RecordsOf(c) = RecordsOf(queue[p]) \cup N
          /\ Sorted(queue[p]) /\ (\A s \in RecordsOf(queue[p]) : s < r) => Sorted(c)
          /\ future' = IF N = {} THEN future ELSE [future EXCEPT ![r] = Pending]
  BY <1>0, <1>1, Pushed
<1>4. UNCHANGED <<task, wire, reply, log, thinned, ids, place, next>> /\ user' = [user EXCEPT ![u] = Quiet]
  BY DEF PushRecord, spu
<1>5. /\ queue \in [Partition -> Batches] /\ queue[p] \in Batches /\ Held(p) \in Batches
      /\ user \in [User -> UserType] /\ future \in [Record -> Int] /\ place \in [Record -> Partition] /\ ids \in [Partition -> Nat]
  BY <1>1, <1>2, HeldType DEF TypeOK
<1>6. /\ queue' \in [Partition -> Batches] /\ queue'[p] = c
      /\ \A o \in Partition : o # p => queue'[o] = queue[o]
  BY <1>2, <1>3, <1>5
<1>7. /\ future' \in [Record -> Int]
      /\ \A s \in Record : s \notin N => future'[s] = future[s]
      /\ \A s \in N : s = r /\ future'[s] = Pending
  BY <1>2, <1>3, <1>5 DEF Pending
<1>8. user' \in [User -> UserType] /\ user'[u] = Quiet /\ \A v \in User : v # u => user'[v] = user[v]
  BY <1>4, <1>5 DEF UserType, Quiet
<1>9. TypeOK'
  BY <1>1, <1>4, <1>6, <1>7, <1>8 DEF TypeOK
<1>10. PushInv'
  <2>1. \A s \in Record : future'[s] # None => s < next
    BY <1>2, <1>7 DEF OffsetInv, PushInv
  <2>2. \A v \in User : user'[v].pc # "push"
    BY <1>2, <1>8 DEF Quiet
  <2> QED
    BY <1>4, <2>1, <2>2 DEF PushInv
<1>11. StageInv'
  BY <1>8 DEF OffsetInv, StageInv, Quiet
<1>13. ASSUME NEW o \in Partition, o # p PROVE PartitionInv(o)'
  <2>1. Agree(o, place, future, place', future')
    BY <1>2, <1>4, <1>7, <1>13 DEF Agree
  <2> QED
    BY <1>1, <1>4, <1>6, <1>9, <1>13, <2>1, KeepPartition DEF OffsetInv
<1>14. PartitionInv(p)'
  <2> DEFINE h == Held(p)
             q == queue[p]
  <2>0. LineInv(p, h, q, place, future, thinned[p]) /\ TrueInv(p, place, future, log[p], thinned[p]) /\ WireInv(p)
    BY <1>2 DEF OffsetInv, PartitionInv
  <2>1. Held(p)' = h
    BY <1>4 DEF Held
  <2> HIDE DEF h, q
  <2>2. RecordsOf(h) \subseteq Record /\ RecordsOf(q) \subseteq Record
    BY <1>5, RecordsIn DEF h, q
  <2>3. \A s \in RecordsOf(h) \cup RecordsOf(q) : s < r /\ s # r /\ place[s] = p /\ future[s] = Pending
    BY <1>2, <2>0, <2>2 DEF LineInv, Pending, None
  <2>4. /\ Acked(p, place', future', thinned'[p]) = Acked(p, place, future, thinned[p])
        /\ \A s \in Acked(p, place, future, thinned[p]) : future'[s] = future[s] /\ s < r
    BY <1>2, <1>4, <1>5, <1>7 DEF Acked, Pending, None
  <2>5. RecordsOf(c) = RecordsOf(q) \cup N /\ Sorted(c) /\ Sorted(h)
    BY <1>3, <2>0, <2>3 DEF q, LineInv
  <2>6. \A s \in RecordsOf(h) \cup RecordsOf(c) : place[s] = p /\ future'[s] = Pending
    BY <1>2, <1>7, <2>2, <2>3, <2>5
  <2>7. \A s \in RecordsOf(h), t \in RecordsOf(c) : s < t
    BY <1>7, <2>0, <2>3, <2>5 DEF LineInv
  <2>8. \A s \in Acked(p, place, future, thinned[p]), t \in RecordsOf(h) \cup RecordsOf(c) : s < t
    BY <1>7, <2>0, <2>4, <2>5 DEF LineInv
  <2>9. LineInv(p, h, c, place', future', thinned'[p])
    BY <1>4, <2>4, <2>5, <2>6, <2>7, <2>8 DEF LineInv
  <2>10. TrueInv(p, place', future', log'[p], thinned'[p])
    BY <1>4, <2>0, <2>4, KeepTrue
  <2>11. WireInv(p)'
    BY <1>1, <1>2, <1>4, <1>9, <2>0, <2>4, KeepWire
  <2> QED
    BY <1>6, <2>1, <2>9, <2>10, <2>11 DEF PartitionInv
<1> QED
  BY <1>2, <1>9, <1>10, <1>11, <1>13, <1>14 DEF OffsetInv

\* A request with a new id is sent; the task takes no response but its own.
LEMMA NewRequest ==
    ASSUME TypeOK, TypeOK', NEW p \in Partition, WireInv(p), NEW bs \in Batches, ids'[p] = ids[p] + 1,
           wire'[p] = Append(wire[p], [id |-> ids[p] + 1, batches |-> bs]),
           task'[p].id = ids[p] + 1, task'[p].ready = bs, reply'[p].id <= ids[p]
    PROVE  WireInv(p)'
<1> DEFINE e == [id |-> ids[p] + 1, batches |-> bs]
           m == Len(wire[p])
<1>0. ids[p] \in Nat /\ reply'[p].id \in Nat
  BY DEF TypeOK, Response
<1>1. e \in Request /\ e.id = ids[p] + 1 /\ e.batches = bs
  BY <1>0 DEF Request
<1>2. wire[p] \in Seq(Request) /\ m \in Nat /\ DOMAIN wire[p] = 1 .. m
  BY WireType
<1>3. wire'[p] = Append(wire[p], e)
  OBVIOUS
<1> HIDE DEF e
<1>4. /\ Len(wire'[p]) = m + 1 /\ wire'[p][m + 1] = e /\ wire'[p] \in Seq(Request)
      /\ \A i \in 1 .. m : wire'[p][i] = wire[p][i]
  BY <1>1, <1>2, <1>3, AppendProperties
<1>5. DOMAIN wire'[p] = 1 .. m + 1
  BY <1>4, LenProperties
<1> HIDE DEF m
<1>6. \A i \in DOMAIN wire[p] : wire[p][i].id \in Nat /\ wire[p][i].id <= ids[p]
  BY WireType DEF WireInv
<1>7. ASSUME NEW i \in DOMAIN wire'[p]
      PROVE  wire'[p][i] = e \/ (wire'[p][i].id \in Nat /\ wire'[p][i].id <= ids[p])
  <2>1. i \in 1 .. m \/ i = m + 1
    BY <1>2, <1>5
  <2> QED
    BY <1>2, <1>4, <1>6, <2>1
<1>8. ASSUME NEW i \in DOMAIN wire'[p]
      PROVE  /\ wire'[p][i].id <= ids'[p]
             /\ wire'[p][i].id = task'[p].id => wire'[p][i].batches = task'[p].ready
  BY <1>0, <1>1, <1>7
<1>9. task'[p].id <= ids'[p] /\ reply'[p].id <= ids'[p] /\ task'[p].id # 0 /\ reply'[p].id # task'[p].id
  BY <1>0
<1> QED
  BY <1>8, <1>9 DEF WireInv

LEMMA SendStep ==
    ASSUME Semantic = "AtLeastOnce", OffsetInv, NEW p \in Partition, SendReady(p)
    PROVE  OffsetInv'
<1> DEFINE n == ReadyCount(p)
           q == queue[p]
<1>1. q \in Batches /\ TypeOK
  BY HeldType DEF OffsetInv
<1>2. n \in 0 .. Len(q)
  BY <1>1, ReadyPrefix
<1>3. PICK h \in Batches, t \in Batches :
          /\ h = SubSeq(q, 1, n) /\ t = SubSeq(q, n + 1, Len(q))
          /\ RecordsOf(h) \cup RecordsOf(t) = RecordsOf(q)
          /\ Sorted(q) => Sorted(h) /\ Sorted(t) /\ \A r \in RecordsOf(h), s \in RecordsOf(t) : r < s
  <2> DEFINE h0 == SubSeq(q, 1, n)
             t0 == SubSeq(q, n + 1, Len(q))
  <2> HIDE DEF n, q
  <2>1. /\ h0 \in Batches /\ t0 \in Batches
        /\ RecordsOf(h0) \cup RecordsOf(t0) = RecordsOf(q)
        /\ Sorted(q) => Sorted(h0) /\ Sorted(t0) /\ \A r \in RecordsOf(h0), s \in RecordsOf(t0) : r < s
    BY <1>1, <1>2, Taken
  <2> HIDE DEF h0, t0
  <2>2. h0 = SubSeq(q, 1, n) /\ t0 = SubSeq(q, n + 1, Len(q))
    BY DEF h0, t0
  <2> QED
    BY <2>1, <2>2
<1>4. PICK e \in TaskType : /\ task' = [task EXCEPT ![p] = e]
                            /\ e.pc = "await" /\ e.ready = h /\ e.id = ids[p] + 1
  <2> DEFINE e == [task[p] EXCEPT !.pc = "await", !.ready = h, !.id = ids[p] + 1]
  <2>1. task[p] \in TaskType /\ ids[p] + 1 \in Nat /\ task \in [Partition -> TaskType]
    BY <1>1 DEF TypeOK
  <2>2. e \in TaskType /\ e.pc = "await" /\ e.ready = h /\ e.id = ids[p] + 1
    BY <2>1 DEF TaskType
  <2>3. task' = [task EXCEPT ![p] = e]
    BY <1>3, <2>1 DEF SendReady
  <2> HIDE DEF e
  <2> QED
    BY <2>2, <2>3
<1>5. /\ queue' = [queue EXCEPT ![p] = t] /\ ids' = [ids EXCEPT ![p] = ids[p] + 1]
      /\ wire' = [wire EXCEPT ![p] = Append(wire[p], [id |-> ids[p] + 1, batches |-> h])]
      /\ UNCHANGED <<place, user, next, future, reply, log, thinned>>
      /\ task[p].pc = "connect"
  BY <1>3 DEF SendReady, client
<1>6. /\ queue \in [Partition -> Batches] /\ task \in [Partition -> TaskType]
      /\ wire \in [Partition -> Seq(Request)] /\ ids \in [Partition -> Nat]
  BY <1>1 DEF TypeOK
<1> HIDE DEF n
<1>7. [id |-> ids[p] + 1, batches |-> h] \in Request
  BY <1>6 DEF Request
<1>8. Append(wire[p], [id |-> ids[p] + 1, batches |-> h]) \in Seq(Request)
  BY <1>6, <1>7, AppendProperties
<1>9. /\ queue' \in [Partition -> Batches] /\ task' \in [Partition -> TaskType]
      /\ wire' \in [Partition -> Seq(Request)] /\ ids' \in [Partition -> Nat] /\ ids'[p] = ids[p] + 1
      /\ queue'[p] = t /\ task'[p] = e
      /\ wire'[p] = Append(wire[p], [id |-> ids[p] + 1, batches |-> h])
      /\ \A o \in Partition : o # p => /\ queue'[o] = queue[o] /\ task'[o] = task[o] /\ wire'[o] = wire[o]
                                    /\ ids'[o] = ids[o]
  BY <1>4, <1>5, <1>6, <1>8
<1>10. TypeOK'
  BY <1>1, <1>5, <1>9 DEF TypeOK
<1>11. Held(p) = <<>> /\ Held(p)' = h
  BY <1>4, <1>5, <1>9 DEF Held
<1>12. LineInv(p, Held(p), q, place, future, thinned[p]) /\ TrueInv(p, place, future, log[p], thinned[p]) /\ WireInv(p)
  BY DEF OffsetInv, PartitionInv
<1>13. LineInv(p, h, t, place', future', thinned'[p])
  BY <1>3, <1>5, <1>12 DEF LineInv
<1>14. WireInv(p)'
  BY <1>1, <1>4, <1>5, <1>9, <1>10, <1>12, NewRequest DEF WireInv
<1>15. PartitionInv(p)'
  BY <1>5, <1>9, <1>11, <1>12, <1>13, <1>14 DEF PartitionInv
<1> QED
  BY <1>5, <1>9, <1>10, <1>15, SettleNone, SettleStep

LEMMA NoReplyType == NoReply \in Response /\ NoReply.id = 0
  BY EmptySeq DEF NoReply, Response

LEMMA RetryStep ==
    ASSUME OffsetInv, NEW p \in Partition, Retry(p)
    PROVE  OffsetInv'
<1> DEFINE h == task[p].ready
<1>1. h \in Batches /\ TypeOK /\ task[p].pc = "await"
  BY HeldType DEF OffsetInv, Retry, NoAnswer
<1>2. PICK e \in TaskType : /\ task' = [task EXCEPT ![p] = e]
                            /\ e.pc = "await" /\ e.ready = h /\ e.id = ids[p] + 1
  <2> DEFINE e == [task[p] EXCEPT !.id = ids[p] + 1]
  <2>1. task[p] \in TaskType /\ ids[p] + 1 \in Nat /\ task \in [Partition -> TaskType]
    BY <1>1 DEF TypeOK
  <2>2. e \in TaskType /\ e.pc = "await" /\ e.ready = h /\ e.id = ids[p] + 1
    BY <1>1, <2>1 DEF TaskType
  <2>3. task' = [task EXCEPT ![p] = e]
    BY <2>1 DEF Retry
  <2> HIDE DEF e
  <2> QED
    BY <2>2, <2>3
<1>3. /\ ids' = [ids EXCEPT ![p] = ids[p] + 1] /\ reply' = [reply EXCEPT ![p] = NoReply]
      /\ wire' = [wire EXCEPT ![p] = Append(wire[p], [id |-> ids[p] + 1, batches |-> h])]
      /\ UNCHANGED <<place, user, next, future, queue, log, thinned>>
  BY DEF Retry, client
<1>4. /\ task \in [Partition -> TaskType] /\ reply \in [Partition -> Response]
      /\ wire \in [Partition -> Seq(Request)] /\ ids \in [Partition -> Nat]
  BY <1>1 DEF TypeOK
<1>5. [id |-> ids[p] + 1, batches |-> h] \in Request
  BY <1>1, <1>4 DEF Request
<1>6. Append(wire[p], [id |-> ids[p] + 1, batches |-> h]) \in Seq(Request)
  BY <1>4, <1>5, AppendProperties
<1>7. /\ task' \in [Partition -> TaskType] /\ reply' \in [Partition -> Response]
      /\ wire' \in [Partition -> Seq(Request)] /\ ids' \in [Partition -> Nat] /\ ids'[p] = ids[p] + 1
      /\ task'[p] = e /\ reply'[p] = NoReply
      /\ wire'[p] = Append(wire[p], [id |-> ids[p] + 1, batches |-> h])
      /\ \A o \in Partition : o # p => /\ reply'[o] = reply[o] /\ task'[o] = task[o] /\ wire'[o] = wire[o]
                                    /\ ids'[o] = ids[o]
  BY <1>2, <1>3, <1>4, <1>6, NoReplyType
<1>8. TypeOK'
  BY <1>1, <1>3, <1>7 DEF TypeOK
<1>9. Held(p)' = Held(p)
  BY <1>1, <1>2, <1>7 DEF Held
<1>10. LineInv(p, Held(p), queue[p], place, future, thinned[p]) /\ TrueInv(p, place, future, log[p], thinned[p]) /\ WireInv(p)
  BY DEF OffsetInv, PartitionInv
<1>11. WireInv(p)'
  <2>1. reply'[p].id <= ids[p]
    BY <1>4, <1>7, NoReplyType
  <2> QED
    BY <1>1, <1>2, <1>3, <1>7, <1>8, <1>10, <2>1, NewRequest
<1>12. PartitionInv(p)'
  BY <1>3, <1>9, <1>10, <1>11 DEF PartitionInv
<1> QED
  BY <1>3, <1>7, <1>8, <1>12, SettleNone, SettleStep

LEMMA Changed ==
    ASSUME NEW S, NEW T, NEW f \in [S -> T], NEW x \in S, NEW e \in T
    PROVE  /\ [f EXCEPT ![x] = e] \in [S -> T] /\ [f EXCEPT ![x] = e][x] = e
           /\ \A o \in S : o # x => [f EXCEPT ![x] = e][o] = f[o]
  OBVIOUS

\* The answer, or that there is none, is handed to the futures.
LEMMA AnswerStep ==
    ASSUME OffsetInv, NEW p \in Partition, task[p].pc = "await", NEW offsets,
           ReplyInv(p, task[p].ready, offsets, place, future, log[p], thinned[p])
             \/ \A i \in DOMAIN task[p].ready : offsets[i] = Lost,
           future' = Resolve(task[p].ready, offsets),
           task' = [task EXCEPT ![p].pc = "finish"], reply' = [reply EXCEPT ![p] = NoReply],
           UNCHANGED <<queue, wire, log, thinned, ids, place, user, next>>
    PROVE  OffsetInv'
<1> DEFINE q == queue[p]
<1>1. PICK bs \in Batches : bs = task[p].ready
  BY HeldType DEF OffsetInv
<1>2. Held(p) = bs /\ TypeOK
  BY <1>1 DEF Held, OffsetInv
<1>3. LineInv(p, bs, q, place, future, thinned[p]) /\ TrueInv(p, place, future, log[p], thinned[p]) /\ WireInv(p)
  BY <1>2 DEF OffsetInv, PartitionInv
<1>4. /\ future \in [Record -> Int] /\ place \in [Record -> Partition] /\ q \in Batches
      /\ task \in [Partition -> TaskType] /\ reply \in [Partition -> Response] /\ ids \in [Partition -> Nat]
      /\ log[p] \in Seq(Record)
  BY <1>2 DEF TypeOK
<1>5. \A i \in DOMAIN bs : /\ offsets[i] \in Int
                           /\ offsets[i] < 0 \/ ReplyInv(p, bs, offsets, place, future, log[p], thinned[p])
                           /\ offsets[i] < 0 => offsets[i] \in {Refused, Lost}
  BY <1>1 DEF ReplyInv, Refused, Lost
<1>6. /\ future' \in [Record -> Int]
      /\ \A r \in Record : r \notin RecordsOf(bs) => future'[r] = future[r]
      /\ \A r, i, j : At(bs, r, i, j) =>
           future'[r] = IF offsets[i] < 0 THEN offsets[i] ELSE offsets[i] + j - 1
  <2>1. Sorted(bs) /\ future' = Resolve(bs, offsets) /\ \A i \in DOMAIN bs : offsets[i] \in Int
    BY <1>1, <1>3, <1>5 DEF LineInv
  <2>2. /\ Resolve(bs, offsets) \in [Record -> Int]
        /\ \A r \in Record : r \notin RecordsOf(bs) => Resolve(bs, offsets)[r] = future[r]
        /\ \A r, i, j : At(bs, r, i, j) =>
             Resolve(bs, offsets)[r] = IF offsets[i] < 0 THEN offsets[i] ELSE offsets[i] + j - 1
    BY <1>4, <2>1, Resolved, ZenonT(40)
  <2> QED
    BY <2>1, <2>2
<1>7. PICK e \in TaskType : task' = [task EXCEPT ![p] = e] /\ e.pc = "finish" /\ e.id = task[p].id
  <2> DEFINE e == [task[p] EXCEPT !.pc = "finish"]
  <2>1. e \in TaskType /\ e.pc = "finish" /\ e.id = task[p].id
    BY <1>4 DEF TaskType
  <2>2. task' = [task EXCEPT ![p] = e]
    BY <1>4
  <2> HIDE DEF e
  <2> QED
    BY <2>1, <2>2
<1>8. /\ task' \in [Partition -> TaskType] /\ task'[p] = e
      /\ reply' \in [Partition -> Response] /\ reply'[p] = NoReply
      /\ \A o \in Partition : o # p => task'[o] = task[o] /\ reply'[o] = reply[o]
  <2>1. /\ task' \in [Partition -> TaskType] /\ task'[p] = e
        /\ \A o \in Partition : o # p => task'[o] = task[o]
    <3>1. task \in [Partition -> TaskType] /\ e \in TaskType /\ task' = [task EXCEPT ![p] = e]
      BY <1>4, <1>7
    <3>2. /\ [task EXCEPT ![p] = e] \in [Partition -> TaskType] /\ [task EXCEPT ![p] = e][p] = e
          /\ \A o \in Partition : o # p => [task EXCEPT ![p] = e][o] = task[o]
      BY <3>1, Changed
    <3> QED
      BY <3>1, <3>2, Zenon
  <2>2. /\ reply' \in [Partition -> Response] /\ reply'[p] = NoReply
        /\ \A o \in Partition : o # p => reply'[o] = reply[o]
    BY <1>4, NoReplyType
  <2> QED
    BY <2>1, <2>2
<1>9. TypeOK'
  BY <1>2, <1>6, <1>8 DEF TypeOK
<1>10. /\ RecordsOf(bs) \subseteq Record /\ RecordsOf(q) \subseteq Record
       /\ \A r \in RecordsOf(bs) : place[r] = p /\ future[r] = Pending
  BY <1>3, <1>4, RecordsIn DEF LineInv
<1>11. Settles(p, RecordsOf(bs))
  BY <1>6, <1>10 DEF Settles
<1>12. Held(p)' = <<>>
  BY <1>7, <1>8 DEF Held
<1> HIDE DEF q
\* What becomes of a record of the request.
<1>13. ASSUME NEW r \in Record, r \notin thinned[p], NEW i, NEW j, At(bs, r, i, j), future'[r] >= 0
       PROVE  /\ offsets[i] \in Nat /\ future'[r] = offsets[i] + j - 1 /\ j \in 1 .. Len(bs[i].recs)
              /\ i \in DOMAIN bs /\ Len(bs[i].recs) \in Nat
              /\ offsets[i] + j <= Len(log[p]) /\ log[p][offsets[i] + j] = r
              /\ \A s \in Acked(p, place, future, thinned[p]) : future[s] < offsets[i]
              /\ ~Spoilt(bs[i], thinned[p])
              /\ \A k \in DOMAIN bs : i < k /\ offsets[k] >= 0 /\ ~Spoilt(bs[k], thinned[p]) =>
                   offsets[i] + Len(bs[i].recs) <= offsets[k]
  <2>1. i \in DOMAIN bs /\ j \in DOMAIN bs[i].recs /\ bs[i].recs[j] = r
    BY <1>13 DEF At
  <2>2. Len(bs[i].recs) \in Nat /\ DOMAIN bs[i].recs = 1 .. Len(bs[i].recs)
    BY <2>1, BatchesType
  <2>3. offsets[i] \in Int /\ future'[r] = IF offsets[i] < 0 THEN offsets[i] ELSE offsets[i] + j - 1
    BY <1>5, <1>6, <1>13, <2>1
  <2>4. ~(offsets[i] < 0)
    BY <1>13, <2>3
  <2>5. ReplyInv(p, bs, offsets, place, future, log[p], thinned[p]) /\ offsets[i] # Refused
    BY <1>5, <2>1, <2>4 DEF Refused
  <2>7. ~Spoilt(bs[i], thinned[p])
    BY <1>13, <2>1 DEF Spoilt
  <2>6. /\ offsets[i] \in Nat
        /\ offsets[i] + j <= Len(log[p]) /\ log[p][offsets[i] + j] = bs[i].recs[j]
        /\ \A s \in Acked(p, place, future, thinned[p]) : future[s] < offsets[i]
        /\ \A k \in DOMAIN bs : i < k /\ offsets[k] >= 0 /\ ~Spoilt(bs[k], thinned[p]) =>
             offsets[i] + Len(bs[i].recs) <= offsets[k]
    BY <2>1, <2>5, <2>7, Zenon DEF ReplyInv
  <2> QED
    BY <2>1, <2>2, <2>3, <2>4, <2>6, <2>7
<1>14. ASSUME NEW r \in Acked(p, place', future', thinned'[p])
       PROVE  \/ r \in Acked(p, place, future, thinned[p]) /\ future'[r] = future[r] /\ r \notin RecordsOf(bs)
              \/ r \in RecordsOf(bs)
  BY <1>6 DEF Acked
<1>15. LineInv(p, <<>>, q, place', future', thinned'[p])
  <2>1. \A r \in RecordsOf(bs), s \in RecordsOf(q) : r < s /\ r # s
    BY <1>3, <1>10, RecordNat DEF LineInv
  <2>2. \A s \in RecordsOf(q) : place[s] = p /\ future'[s] = Pending
    BY <1>3, <1>6, <1>10, <2>1 DEF LineInv
  <2>3. \A r \in Acked(p, place', future', thinned'[p]), s \in RecordsOf(q) : r < s
    BY <1>3, <1>14, <2>1 DEF LineInv
  <2>4. Sorted(q)
    BY <1>3 DEF LineInv
  <2> QED
    BY <2>2, <2>3, <2>4, NoBatches DEF LineInv
<1>16. ASSUME NEW r \in Acked(p, place', future', thinned'[p])
       PROVE  future'[r] < Len(log[p]) /\ log[p][future'[r] + 1] = r
  <2>1. CASE r \in Acked(p, place, future, thinned[p]) /\ future'[r] = future[r]
    BY <1>3, <2>1 DEF TrueInv
  <2>2. CASE r \in RecordsOf(bs)
    <3>1. PICK i, j : At(bs, r, i, j)
      BY <2>2, RecordsAt
    <3>2. r \in Record /\ future'[r] >= 0 /\ r \notin thinned[p]
      BY DEF Acked
    <3>3. /\ offsets[i] \in Nat /\ future'[r] = offsets[i] + j - 1 /\ j \in 1 .. Len(bs[i].recs)
          /\ offsets[i] + j <= Len(log[p]) /\ log[p][offsets[i] + j] = r /\ Len(bs[i].recs) \in Nat
      BY <1>13, <3>1, <3>2
    <3>4. Len(log[p]) \in Nat
      BY <1>4, LenProperties
    <3>5. future'[r] + 1 = offsets[i] + j /\ future'[r] < Len(log[p])
      BY <3>3, <3>4
    <3> QED
      BY <3>3, <3>5
  <2> QED
    BY <1>14, <2>1, <2>2
<1>17. ASSUME NEW r \in Acked(p, place', future', thinned'[p]), NEW s \in Acked(p, place', future', thinned'[p]), r < s
       PROVE  future'[r] < future'[s]
  <2>0. r \in Record /\ s \in Record /\ future'[r] >= 0 /\ future'[s] >= 0 /\ r \in Int /\ s \in Int
        /\ r \notin thinned[p] /\ s \notin thinned[p]
    BY RecordNat DEF Acked
  <2>1. CASE r \notin RecordsOf(bs) /\ s \notin RecordsOf(bs)
    <3>1. r \in Acked(p, place, future, thinned[p]) /\ s \in Acked(p, place, future, thinned[p])
          /\ future'[r] = future[r] /\ future'[s] = future[s]
      BY <1>14, <2>1
    <3> QED
      BY <1>3, <1>17, <3>1 DEF TrueInv
  <2>2. CASE s \notin RecordsOf(bs) /\ r \in RecordsOf(bs)
    <3>1. s < r
      BY <1>3, <1>14, <2>2 DEF LineInv
    <3> QED
      BY <1>17, <2>0, <3>1
  <2>3. CASE s \in RecordsOf(bs)
    <3>1. PICK k, l : At(bs, s, k, l)
      BY <2>3, RecordsAt
    <3>2. /\ offsets[k] \in Nat /\ future'[s] = offsets[k] + l - 1 /\ l \in 1 .. Len(bs[k].recs)
          /\ \A t \in Acked(p, place, future, thinned[p]) : future[t] < offsets[k]
          /\ k \in DOMAIN bs /\ Len(bs[k].recs) \in Nat /\ ~Spoilt(bs[k], thinned[p])
      BY <1>13, <2>0, <3>1
    <3>3. CASE r \notin RecordsOf(bs)
      <4>1. future'[r] < offsets[k] /\ future'[r] \in Int
        BY <1>6, <1>14, <2>0, <3>2, <3>3
      <4> QED
        BY <3>2, <4>1
    <3>4. CASE r \in RecordsOf(bs)
      <4>1. PICK i, j : At(bs, r, i, j)
        BY <3>4, RecordsAt
      <4>2. /\ offsets[i] \in Nat /\ future'[r] = offsets[i] + j - 1 /\ j \in 1 .. Len(bs[i].recs)
            /\ Len(bs[i].recs) \in Nat
            /\ \A x \in DOMAIN bs : i < x /\ offsets[x] >= 0 /\ ~Spoilt(bs[x], thinned[p]) =>
                 offsets[i] + Len(bs[i].recs) <= offsets[x]
        BY <1>13, <2>0, <4>1
      <4>3. i < k \/ (i = k /\ j < l)
        BY <1>3, <1>17, <3>1, <4>1, AtOrder DEF LineInv
      <4>4. i < k => offsets[i] + Len(bs[i].recs) <= offsets[k]
        BY <3>2, <4>2
      <4> QED
        BY <3>2, <4>2, <4>3, <4>4
    <3> QED
      BY <3>3, <3>4
  <2> QED
    BY <2>1, <2>2, <2>3
<1>18. TrueInv(p, place', future', log'[p], thinned'[p])
  BY <1>16, <1>17 DEF TrueInv
<1>19. WireInv(p)'
  <2>1. NoReply.id <= ids[p]
    BY <1>4, NoReplyType
  <2> QED
    BY <1>3, <1>7, <1>8, <2>1 DEF WireInv
<1>20. PartitionInv(p)'
  BY <1>4, <1>12, <1>15, <1>18, <1>19 DEF PartitionInv, q
<1> QED
  BY <1>8, <1>9, <1>11, <1>20, SettleStep

LEMMA ReplyStep ==
    ASSUME OffsetInv, NEW p \in Partition, OnReply(p)
    PROVE  OffsetInv'
<1>1. UNCHANGED <<queue, wire, log, thinned, ids, place, user, next>>
  BY DEF OnReply, client
<1>2. ReplyInv(p, task[p].ready, reply[p].offsets, place, future, log[p], thinned[p])
  BY DEF OnReply, OffsetInv, PartitionInv, WireInv
<1> QED
  BY <1>1, <1>2, AnswerStep DEF OnReply

LEMMA GiveUpStep ==
    ASSUME OffsetInv, NEW p \in Partition, GiveUp(p)
    PROVE  OffsetInv'
<1> DEFINE offsets == [i \in DOMAIN task[p].ready |-> Lost]
<1>1. UNCHANGED <<queue, wire, log, thinned, ids, place, user, next>> /\ task[p].pc = "await"
  BY DEF GiveUp, NoAnswer, client
<1>2. \A i \in DOMAIN task[p].ready : offsets[i] = Lost
  OBVIOUS
<1>3. future' = Resolve(task[p].ready, offsets)
  BY DEF GiveUp, Lose
<1> HIDE DEF offsets
<1> QED
  BY <1>1, <1>2, <1>3, AnswerStep DEF GiveUp

LEMMA TailWire ==
    ASSUME TypeOK, NEW p \in Partition, wire[p] # <<>>
    PROVE  /\ Tail(wire[p]) \in Seq(Request) /\ 1 \in DOMAIN wire[p] /\ Head(wire[p]) = wire[p][1]
           /\ \A i \in DOMAIN Tail(wire[p]) : \E j \in DOMAIN wire[p] : Tail(wire[p])[i] = wire[p][j]
<1> DEFINE w == wire[p]
<1>1. w \in Seq(Request) /\ Len(w) \in Nat /\ DOMAIN w = 1 .. Len(w)
  BY WireType
<1>2. Len(w) # 0
  BY <1>1, EmptySeq
<1>3. /\ Tail(w) \in Seq(Request) /\ Len(Tail(w)) = Len(w) - 1
      /\ \A i \in 1 .. Len(Tail(w)) : Tail(w)[i] = w[i + 1]
  BY <1>1, HeadTailProperties
<1>4. DOMAIN Tail(w) = 1 .. Len(w) - 1
  BY <1>3, LenProperties
<1>5. \A i \in 1 .. Len(w) - 1 : i + 1 \in 1 .. Len(w)
  BY <1>1
<1>6. \A i \in DOMAIN Tail(w) : i + 1 \in DOMAIN w /\ Tail(w)[i] = w[i + 1]
  BY <1>1, <1>3, <1>4, <1>5
<1>7. 1 \in DOMAIN w
  BY <1>1, <1>2
<1> QED
  BY <1>3, <1>6, <1>7

\* The log only grows.
LEMMA Longer ==
    ASSUME NEW lg \in Seq(Record), NEW x \in Seq(Record)
    PROVE  /\ lg \o x \in Seq(Record) /\ Len(lg) \in Nat /\ Len(x) \in Nat
           /\ Len(lg \o x) = Len(lg) + Len(x)
           /\ \A i \in 1 .. Len(lg) : (lg \o x)[i] = lg[i]
           /\ \A j \in 1 .. Len(x) : (lg \o x)[Len(lg) + j] = x[j]
  BY Joined

LEMMA SeqOfFunction ==
    ASSUME NEW S, NEW n \in Nat, NEW f \in [1 .. n -> S]
    PROVE  f \in Seq(S)
  BY SeqDef

LEMMA LongerTrue ==
    ASSUME NEW p, NEW th, NEW pl, NEW fut \in [Record -> Int], NEW lg \in Seq(Record), NEW lg2,
           Len(lg2) \in Nat, Len(lg) <= Len(lg2), \A i \in 1 .. Len(lg) : lg2[i] = lg[i],
           TrueInv(p, pl, fut, lg, th)
    PROVE  TrueInv(p, pl, fut, lg2, th)
<1>0. Len(lg) \in Nat
  BY LenProperties
<1>1. ASSUME NEW r \in Acked(p, pl, fut, th) PROVE fut[r] < Len(lg2) /\ lg2[fut[r] + 1] = r
  <2>1. fut[r] \in Int /\ fut[r] >= 0
    BY DEF Acked
  <2>2. fut[r] < Len(lg) /\ lg[fut[r] + 1] = r
    BY DEF TrueInv
  <2>3. fut[r] + 1 \in 1 .. Len(lg) /\ fut[r] < Len(lg2)
    BY <1>0, <2>1, <2>2
  <2> QED
    BY <2>2, <2>3
<1> QED
  BY <1>1, Zenon DEF TrueInv

LEMMA LongerReply ==
    ASSUME NEW p, NEW th, NEW pl, NEW fut, NEW bs \in Batches, NEW offsets, NEW lg \in Seq(Record), NEW lg2,
           Len(lg2) \in Nat, Len(lg) <= Len(lg2), \A i \in 1 .. Len(lg) : lg2[i] = lg[i],
           ReplyInv(p, bs, offsets, pl, fut, lg, th)
    PROVE  ReplyInv(p, bs, offsets, pl, fut, lg2, th)
<1>0. Len(lg) \in Nat
  BY LenProperties
<1>1. ASSUME NEW i \in DOMAIN bs, offsets[i] \in Nat, NEW j \in DOMAIN bs[i].recs,
             offsets[i] + j <= Len(lg), lg[offsets[i] + j] = bs[i].recs[j]
      PROVE  offsets[i] + j <= Len(lg2) /\ lg2[offsets[i] + j] = bs[i].recs[j]
  <2>1. j \in Nat \ {0}
    BY BatchesType
  <2>2. offsets[i] + j \in 1 .. Len(lg) /\ offsets[i] + j <= Len(lg2)
    BY <1>0, <1>1, <2>1
  <2> QED
    BY <1>1, <2>2
<1> QED
  BY <1>1, Zenon DEF ReplyInv

\* What holds stays so when a SmartModule has changed more batches.
LEMMA MoreThinned ==
    ASSUME NEW p, NEW pl, NEW fut, NEW lg, NEW th, NEW th2, th \subseteq th2
    PROVE  /\ TrueInv(p, pl, fut, lg, th) => TrueInv(p, pl, fut, lg, th2)
           /\ \A h, q : LineInv(p, h, q, pl, fut, th) => LineInv(p, h, q, pl, fut, th2)
           /\ \A bs, offsets : ReplyInv(p, bs, offsets, pl, fut, lg, th) => ReplyInv(p, bs, offsets, pl, fut, lg, th2)
<1>1. \A r \in Acked(p, pl, fut, th2) : r \in Acked(p, pl, fut, th)
  BY DEF Acked
<1>2. \A b : Spoilt(b, th) => Spoilt(b, th2)
  BY DEF Spoilt
<1>3. TrueInv(p, pl, fut, lg, th) => TrueInv(p, pl, fut, lg, th2)
  BY <1>1, Zenon DEF TrueInv
<1>4. ASSUME NEW h, NEW q, LineInv(p, h, q, pl, fut, th) PROVE LineInv(p, h, q, pl, fut, th2)
  BY <1>1, <1>4, Zenon DEF LineInv
<1>5. ASSUME NEW bs, NEW offsets, ReplyInv(p, bs, offsets, pl, fut, lg, th)
      PROVE  ReplyInv(p, bs, offsets, pl, fut, lg, th2)
  BY <1>1, <1>2, <1>5, Zenon DEF ReplyInv
<1> QED
  BY <1>3, <1>4, <1>5, Zenon

\* What handle_produce_request answers is where it has written the batches.
LEMMA NewReply ==
    ASSUME NEW p, NEW th, NEW pl, NEW fut \in [Record -> Int], NEW lg \in Seq(Record), TrueInv(p, pl, fut, lg, th),
           NEW bs \in Batches, NEW refused, NEW w \in Lists(Record), NEW offsets,
           DOMAIN w = DOMAIN bs, offsets \in [DOMAIN bs -> Int],
           \A i \in DOMAIN bs : ~Spoilt(bs[i], th) /\ i \notin refused => w[i] = bs[i].recs /\ w[i] # <<>>,
           \A i \in DOMAIN bs : offsets[i] = IF i \in refused THEN Refused
                                            ELSE IF w[i] = <<>> THEN 0 ELSE Len(lg) + Begin(w, i)
    PROVE  ReplyInv(p, bs, offsets, pl, fut, lg \o FlattenSeq(w), th)
<1> DEFINE x == FlattenSeq(w)
           lg2 == lg \o x
<1>0. DOMAIN w = DOMAIN bs /\ DOMAIN bs = 1 .. Len(bs) /\ Len(bs) \in Nat /\ DOMAIN offsets = DOMAIN bs
  BY BatchesType
<1>1. Len(w) = Len(bs)
  <2>1. DOMAIN w = 1 .. Len(w) /\ Len(w) \in Nat
    BY LenProperties DEF Lists
  <2> QED
    BY <1>0, <2>1
<1>2. /\ x \in Seq(Record)
      /\ \A i \in DOMAIN bs :
           /\ Begin(w, i) \in Nat /\ w[i] \in Seq(Record)
           /\ \A j \in 1 .. Len(w[i]) : Begin(w, i) + j <= Len(x) /\ x[Begin(w, i) + j] = w[i][j]
           /\ \A k \in DOMAIN bs : i < k => Begin(w, i) + Len(w[i]) <= Begin(w, k)
  <2>1. /\ x \in Seq(Record)
        /\ \A i \in 1 .. Len(w) :
             /\ Begin(w, i) \in Nat /\ w[i] \in Seq(Record)
             /\ \A j \in 1 .. Len(w[i]) : Begin(w, i) + j <= Len(x) /\ x[Begin(w, i) + j] = w[i][j]
             /\ \A k \in 1 .. Len(w) : i < k => Begin(w, i) + Len(w[i]) <= Begin(w, k)
    BY Flattened
  <2>2. DOMAIN bs = 1 .. Len(w)
    BY <1>0, <1>1
  <2> QED
    BY <2>1, <2>2, Zenon
<1> HIDE DEF x
<1>3. /\ Len(lg) \in Nat /\ Len(x) \in Nat /\ Len(lg2) = Len(lg) + Len(x)
      /\ \A i \in 1 .. Len(lg) : lg2[i] = lg[i]
      /\ \A j \in 1 .. Len(x) : lg2[Len(lg) + j] = x[j]
  BY <1>2, Longer
<1> HIDE DEF lg2
<1> DEFINE Whole(i) == ~Spoilt(bs[i], th) /\ i \notin refused
<1>4. ASSUME NEW i \in DOMAIN bs, i \in refused PROVE offsets[i] = Refused
  BY <1>0, <1>4
<1>5. ASSUME NEW i \in DOMAIN bs, Whole(i)
      PROVE  /\ offsets[i] = Len(lg) + Begin(w, i) /\ offsets[i] \in Nat
             /\ w[i] = bs[i].recs /\ Begin(w, i) \in Nat /\ Len(bs[i].recs) \in Nat
  <2>1. offsets[i] = Len(lg) + Begin(w, i) /\ w[i] = bs[i].recs
    BY <1>0, <1>5, Zenon
  <2>2. Begin(w, i) \in Nat /\ Len(bs[i].recs) \in Nat
    BY <1>2, BatchesType
  <2> QED
    BY <1>3, <2>1, <2>2
<1>10. ASSUME NEW i \in DOMAIN bs, i \notin refused PROVE offsets[i] \in Nat
  <2>1. Begin(w, i) \in Nat
    BY <1>2
  <2> QED
    BY <1>3, <1>10, <2>1
<1> HIDE DEF Whole
<1>6. ASSUME NEW i \in DOMAIN bs, Whole(i), NEW j \in DOMAIN bs[i].recs
      PROVE  offsets[i] + j <= Len(lg2) /\ lg2[offsets[i] + j] = bs[i].recs[j]
  <2>1. j \in 1 .. Len(w[i]) /\ j \in Nat \ {0}
    BY <1>5, <1>6, BatchesType
  <2>2. Begin(w, i) + j <= Len(x) /\ x[Begin(w, i) + j] = w[i][j]
    BY <1>2, <2>1
  <2>3. offsets[i] = Len(lg) + Begin(w, i) /\ w[i] = bs[i].recs /\ Begin(w, i) \in Nat
    BY <1>5, <1>6
  <2>4. Begin(w, i) + j \in 1 .. Len(x) /\ offsets[i] + j = Len(lg) + (Begin(w, i) + j)
    BY <1>3, <2>1, <2>2, <2>3
  <2>5. lg2[Len(lg) + (Begin(w, i) + j)] = x[Begin(w, i) + j]
    BY <1>3, <2>4
  <2>6. offsets[i] + j <= Len(lg2)
    BY <1>3, <2>4
  <2> QED
    BY <2>2, <2>3, <2>4, <2>5, <2>6
<1>7. ASSUME NEW i \in DOMAIN bs, Whole(i), NEW r \in Acked(p, pl, fut, th) PROVE fut[r] < offsets[i]
  <2>1. fut[r] \in Int /\ fut[r] < Len(lg)
    BY DEF Acked, TrueInv
  <2> QED
    BY <1>3, <1>5, <1>7, <2>1
<1>8. ASSUME NEW i \in DOMAIN bs, Whole(i), NEW k \in DOMAIN bs, i < k, offsets[k] >= 0, ~Spoilt(bs[k], th)
      PROVE  offsets[i] + Len(bs[i].recs) <= offsets[k]
  <2>1. Whole(k)
    BY <1>4, <1>8 DEF Refused, Whole
  <2>2. Begin(w, i) + Len(w[i]) <= Begin(w, k)
    BY <1>2, <1>8
  <2>3. /\ offsets[i] = Len(lg) + Begin(w, i) /\ w[i] = bs[i].recs /\ Begin(w, i) \in Nat
        /\ offsets[k] = Len(lg) + Begin(w, k) /\ Begin(w, k) \in Nat /\ Len(bs[i].recs) \in Nat
    BY <1>5, <1>8, <2>1
  <2>4. Begin(w, i) + Len(bs[i].recs) <= Begin(w, k)
    BY <2>2, <2>3
  <2> QED
    BY <1>3, <2>3, <2>4
<1>9. ReplyInv(p, bs, offsets, pl, fut, lg2, th)
  <2>1. ASSUME NEW i \in DOMAIN bs
        PROVE  \/ offsets[i] = Refused
               \/ Spoilt(bs[i], th) /\ offsets[i] \in Nat
               \/ /\ offsets[i] \in Nat
                  /\ \A j \in DOMAIN bs[i].recs :
                       offsets[i] + j <= Len(lg2) /\ lg2[offsets[i] + j] = bs[i].recs[j]
                  /\ \A r \in Acked(p, pl, fut, th) : fut[r] < offsets[i]
                  /\ \A k \in DOMAIN bs :
                       i < k /\ offsets[k] >= 0 /\ ~Spoilt(bs[k], th) =>
                           offsets[i] + Len(bs[i].recs) <= offsets[k]
    BY <1>4, <1>5, <1>6, <1>7, <1>8, <1>10, Zenon DEF Whole
  <2> QED
    BY <1>0, <2>1, Zenon DEF ReplyInv
<1> QED
  BY <1>9 DEF lg2, x

\* apply_smartmodules leaves records.
LEMMA KeptType ==
    ASSUME NEW b \in Batch
    PROVE  Kept(b) \in Seq(Record)
<1> DEFINE w == [j \in DOMAIN b.recs |-> IF b.recs[j] \in Filtered THEN <<>> ELSE <<b.recs[j]>>]
           n == Len(b.recs)
<1>1. b.recs \in Seq(Record)
  BY DEF Batch
<1>2. n \in Nat /\ DOMAIN b.recs = 1 .. n /\ \A j \in 1 .. n : b.recs[j] \in Record
  BY <1>1, LenProperties, ElementOfSeq
<1>3. <<>> \in Seq(Record) /\ \A r \in Record : <<r>> \in Seq(Record)
  BY EmptySeq
<1>4. w \in [1 .. n -> Seq(Record)]
  BY <1>2, <1>3
<1>5. Kept(b) = FlattenSeq(w)
  BY DEF Kept
<1> HIDE DEF w, n
<1>6. w \in Lists(Record)
  BY <1>2, <1>4, SeqOfFunction DEF Lists
<1> QED
  BY <1>5, <1>6, Flattened

LEMMA HandleStep ==
    ASSUME Semantic = "AtLeastOnce", OffsetInv, NEW p \in Partition, SpuHandles(p)
    PROVE  OffsetInv'
<1>0. TypeOK /\ wire[p] # <<>>
  BY DEF OffsetInv, SpuHandles
<1> DEFINE request == Head(wire[p])
           bs == request.batches
           written(x) == [i \in DOMAIN bs |-> IF i \in x THEN <<>> ELSE Kept(bs[i])]
           answer(x) == [i \in DOMAIN written(x) |->
                            IF i \in x THEN Refused
                            ELSE IF written(x)[i] = <<>> THEN 0 ELSE Len(log[p]) + Begin(written(x), i)]
           changed(x) == {i \in DOMAIN written(x) : i \notin x /\ written(x)[i] # bs[i].recs}
           thin(x) == UNION {Range(bs[i].recs) : i \in changed(x)}
<1>1. PICK refused \in SUBSET DOMAIN bs :
          /\ log' = [log EXCEPT ![p] = log[p] \o FlattenSeq(written(refused))]
          /\ thinned' = [thinned EXCEPT ![p] = thinned[p] \cup thin(refused)]
          /\ wire' = [wire EXCEPT ![p] = Tail(wire[p])]
          /\ reply' = IF task[p].pc = "await" /\ task[p].id = request.id
                      THEN [reply EXCEPT ![p] = [id |-> request.id, offsets |-> answer(refused)]]
                      ELSE reply
          /\ future' = future
          /\ UNCHANGED <<client, queue, task, ids>>
  BY ZenonT(60) DEF SpuHandles, Handle, Begin
<1>2. UNCHANGED <<queue, task, ids, place, future, user, next>>
  BY <1>1 DEF client
<1>3. request = wire[p][1] /\ 1 \in DOMAIN wire[p] /\ bs \in Batches /\ request.id \in Nat
  BY <1>0, TailWire, WireType
<1>4. PICK w \in Lists(Record) : w = written(refused)
  <2>1. DOMAIN bs = 1 .. Len(bs) /\ Len(bs) \in Nat /\ \A i \in DOMAIN bs : bs[i].recs \in Seq(Record)
    BY <1>3, BatchesType DEF Batch
  <2>2. \A i \in DOMAIN bs : (IF i \in refused THEN <<>> ELSE Kept(bs[i])) \in Seq(Record)
    <3>1. \A i \in DOMAIN bs : Kept(bs[i]) \in Seq(Record)
      BY <1>3, BatchesType, KeptType
    <3> QED
      BY <3>1, EmptySeq
  <2>3. written(refused) \in [1 .. Len(bs) -> Seq(Record)]
    BY <2>1, <2>2
  <2> HIDE DEF written, bs
  <2>4. written(refused) \in Seq(Seq(Record))
    BY <2>1, <2>3, SeqOfFunction
  <2> QED
    BY <2>4 DEF Lists
<1>5. PICK offsets : offsets = answer(refused)
  OBVIOUS
<1>6. DOMAIN w = DOMAIN bs
  BY <1>4
<1>24. PICK th2 : /\ th2 = thinned[p] \cup thin(refused) /\ th2 \subseteq Record /\ thinned[p] \subseteq th2
                 /\ thinned' = [thinned EXCEPT ![p] = th2]
  <2>1. \A i \in DOMAIN bs : Range(bs[i].recs) \subseteq Record
    BY <1>3, BatchesType DEF Range
  <2>2. changed(refused) \subseteq DOMAIN bs
    OBVIOUS
  <2>3. thin(refused) \subseteq Record
    BY <2>1, <2>2
  <2>4. thinned[p] \subseteq Record
    BY <1>0 DEF TypeOK
  <2> HIDE DEF thin
  <2> QED
    BY <1>1, <2>3, <2>4
<1>25. \A i \in DOMAIN bs : ~Spoilt(bs[i], th2) /\ i \notin refused => w[i] = bs[i].recs /\ w[i] # <<>>
  <2> SUFFICES ASSUME NEW i \in DOMAIN bs, ~Spoilt(bs[i], th2), i \notin refused
               PROVE  w[i] = bs[i].recs /\ w[i] # <<>>
    OBVIOUS
  <2>1. PICK j \in DOMAIN bs[i].recs : bs[i].recs[j] \notin th2
    BY DEF Spoilt
  <2>2. bs[i].recs[j] \in Range(bs[i].recs)
    BY DEF Range
  <2>3. i \notin changed(refused)
    BY <1>24, <2>1, <2>2
  <2>4. w[i] = bs[i].recs
    BY <1>4, <2>3
  <2>5. bs[i].recs # <<>>
    BY <2>1, NoBatches
  <2> QED
    BY <2>4, <2>5
<1>7. /\ \A i \in DOMAIN bs : offsets[i] = IF i \in refused THEN Refused
                                          ELSE IF w[i] = <<>> THEN 0 ELSE Len(log[p]) + Begin(w, i)
      /\ offsets = [i \in DOMAIN bs |-> offsets[i]]
  BY <1>4, <1>5
<1>8. /\ log' = [log EXCEPT ![p] = log[p] \o FlattenSeq(w)]
      /\ reply' = IF task[p].pc = "await" /\ task[p].id = request.id
                  THEN [reply EXCEPT ![p] = [id |-> request.id, offsets |-> offsets]]
                  ELSE reply
  BY <1>1, <1>4, <1>5
<1> HIDE DEF written, answer, changed, thin, bs, request
<1>9. /\ future \in [Record -> Int] /\ log \in [Partition -> Seq(Record)] /\ ids \in [Partition -> Nat]
      /\ reply \in [Partition -> Response] /\ wire \in [Partition -> Seq(Request)] /\ log[p] \in Seq(Record)
  BY <1>0 DEF TypeOK
<1>10. LineInv(p, Held(p), queue[p], place, future, thinned[p]) /\ TrueInv(p, place, future, log[p], thinned[p]) /\ WireInv(p)
  BY DEF OffsetInv, PartitionInv
<1>23. offsets \in [DOMAIN bs -> Int]
  <2>1. \A i \in DOMAIN bs : Begin(w, i) \in Nat
    <3>1. DOMAIN w = 1 .. Len(w)
      BY LenProperties DEF Lists
    <3> QED
      BY <1>6, <3>1, Flattened
  <2>2. Len(log[p]) \in Nat
    BY <1>9, LenProperties
  <2>3. \A i \in DOMAIN bs : offsets[i] \in Int
    BY <1>7, <2>1, <2>2 DEF Refused
  <2>4. offsets = [i \in DOMAIN bs |-> offsets[i]]
    BY <1>7
  <2> QED
    BY <2>3, <2>4
<1>26. TrueInv(p, place, future, log[p], th2) /\ LineInv(p, Held(p), queue[p], place, future, th2)
  BY <1>10, <1>24, MoreThinned
<1>11. ReplyInv(p, bs, offsets, place, future, log[p] \o FlattenSeq(w), th2)
  <2>1. PICK lg \in Seq(Record) : lg = log[p]
    BY <1>9
  <2>2. /\ TrueInv(p, place, future, lg, th2)
        /\ \A i \in DOMAIN bs : offsets[i] = IF i \in refused THEN Refused
                                            ELSE IF w[i] = <<>> THEN 0 ELSE Len(lg) + Begin(w, i)
    BY <1>7, <1>26, <2>1
  <2>3. ReplyInv(p, bs, offsets, place, future, lg \o FlattenSeq(w), th2)
    BY <1>3, <1>6, <1>9, <1>23, <1>25, <2>2, NewReply
  <2> QED
    BY <2>1, <2>3
<1>12. offsets \in Seq(Int)
  <2>1. DOMAIN bs = 1 .. Len(bs) /\ Len(bs) \in Nat
    BY <1>3, BatchesType
  <2> QED
    BY <1>23, <2>1, SeqOfFunction
<1> DEFINE e == [id |-> request.id, offsets |-> offsets]
<1>13. e \in Response /\ e.id = request.id /\ e.offsets = offsets
  BY <1>3, <1>12 DEF Response
<1>14. FlattenSeq(w) \in Seq(Record)
  BY Flattened
<1>15. PICK lg2 \in Seq(Record) :
           /\ lg2 = log[p] \o FlattenSeq(w)
           /\ Len(lg2) \in Nat /\ Len(log[p]) <= Len(lg2) /\ \A i \in 1 .. Len(log[p]) : lg2[i] = log[p][i]
  <2> DEFINE x == FlattenSeq(w)
             l == log[p]
  <2> HIDE DEF x, l
  <2>1. /\ l \o x \in Seq(Record) /\ Len(l) \in Nat /\ Len(x) \in Nat /\ Len(l \o x) = Len(l) + Len(x)
        /\ \A i \in 1 .. Len(l) : (l \o x)[i] = l[i]
    BY <1>9, <1>14, Longer DEF x, l
  <2>2. Len(l \o x) \in Nat /\ Len(l) <= Len(l \o x)
    BY <2>1
  <2> QED
    BY <2>1, <2>2 DEF x, l
<1>16. /\ log' \in [Partition -> Seq(Record)] /\ log'[p] = lg2
       /\ wire' \in [Partition -> Seq(Request)] /\ wire'[p] = Tail(wire[p])
       /\ \A o \in Partition : o # p => log'[o] = log[o] /\ wire'[o] = wire[o]
  BY <1>0, <1>1, <1>8, <1>9, <1>15, TailWire
<1>27. /\ thinned' \in [Partition -> SUBSET Record] /\ thinned'[p] = th2
       /\ \A o \in Partition : o # p => thinned'[o] = thinned[o]
  BY <1>0, <1>24 DEF TypeOK
<1>17. /\ reply' \in [Partition -> Response] /\ \A o \in Partition : o # p => reply'[o] = reply[o]
       /\ \/ reply'[p] = reply[p]
          \/ reply'[p] = e /\ task[p].pc = "await" /\ task[p].id = request.id
  <2> HIDE DEF e
  <2>1. \/ reply' = reply
        \/ reply' = [reply EXCEPT ![p] = e] /\ task[p].pc = "await" /\ task[p].id = request.id
    BY <1>8 DEF e
  <2> QED
    BY <1>9, <1>13, <2>1
<1>18. TypeOK'
  BY <1>0, <1>2, <1>16, <1>17, <1>27 DEF TypeOK
<1>19. LineInv(p, Held(p), queue[p], place, future, thinned[p])'
  <2>1. Held(p)' = Held(p)
    BY <1>2 DEF Held
  <2> QED
    BY <1>2, <1>26, <1>27, <2>1
<1>20. TrueInv(p, place', future', log'[p], thinned'[p])
  BY <1>2, <1>9, <1>15, <1>16, <1>26, <1>27, LongerTrue
<1> HIDE DEF e
<1>21. WireInv(p)'
  <2>1. \A i \in DOMAIN wire'[p] : \E j \in DOMAIN wire[p] : wire'[p][i] = wire[p][j]
    <3>1. \A i \in DOMAIN Tail(wire[p]) : \E j \in DOMAIN wire[p] : Tail(wire[p])[i] = wire[p][j]
      BY <1>0, TailWire
    <3>2. wire'[p] = Tail(wire[p])
      BY <1>16
    <3> QED
      BY <3>1, <3>2, Zenon
  <2>2. /\ task'[p].id <= ids'[p] /\ \A i \in DOMAIN wire'[p] : wire'[p][i].id <= ids'[p]
        /\ reply'[p].id <= ids'[p]
    BY <1>2, <1>3, <1>10, <1>13, <1>17, <2>1 DEF WireInv
  <2>3. ASSUME task'[p].pc = "await"
        PROVE  /\ task'[p].id # 0
               /\ \A i \in DOMAIN wire'[p] : wire'[p][i].id = task'[p].id => wire'[p][i].batches = task'[p].ready
    BY <1>2, <1>10, <2>1, <2>3 DEF WireInv
  <2>4. ASSUME task'[p].pc = "await", reply'[p].id = task'[p].id
        PROVE  ReplyInv(p, task[p].ready, reply'[p].offsets, place, future, lg2, th2)
    <3>1. CASE reply'[p] = reply[p]
      <4>1. ReplyInv(p, task[p].ready, reply[p].offsets, place, future, log[p], thinned[p])
        BY <1>2, <1>10, <2>4, <3>1 DEF WireInv
      <4>2. task[p].ready \in Batches
        BY <1>0, HeldType
      <4>3. ReplyInv(p, task[p].ready, reply[p].offsets, place, future, log[p], th2)
        BY <1>24, <4>1, MoreThinned
      <4> QED
        BY <1>9, <1>15, <3>1, <4>2, <4>3, LongerReply
    <3>2. CASE reply'[p] = e /\ task[p].pc = "await" /\ task[p].id = request.id
      <4>1. task[p].ready = bs
        BY <1>3, <1>10, <3>2 DEF WireInv, bs
      <4> QED
        BY <1>11, <1>13, <1>15, <3>2, <4>1
    <3> QED
      BY <1>17, <3>1, <3>2
  <2> QED
    BY <1>2, <1>16, <1>27, <2>2, <2>3, <2>4, Zenon DEF WireInv
<1>22. PartitionInv(p)'
  BY <1>2, <1>9, <1>19, <1>20, <1>21 DEF PartitionInv
<1> QED
  BY <1>2, <1>16, <1>17, <1>18, <1>22, <1>27, SettleNone, SettleStep

LEMMA LoseRequestStep ==
    ASSUME Semantic = "AtLeastOnce", OffsetInv, NEW p \in Partition, LoseRequest(p)
    PROVE  OffsetInv'
<1>0. TypeOK /\ wire[p] # <<>> /\ wire \in [Partition -> Seq(Request)] /\ ids \in [Partition -> Nat]
  BY DEF OffsetInv, LoseRequest, TypeOK
<1>1. UNCHANGED <<queue, task, ids, place, future, user, next, reply, log, thinned>>
  BY DEF LoseRequest, client
<1>2. wire' = [wire EXCEPT ![p] = Tail(wire[p])]
  BY DEF LoseRequest
<1>3. /\ wire' \in [Partition -> Seq(Request)] /\ wire'[p] = Tail(wire[p])
      /\ \A o \in Partition : o # p => wire'[o] = wire[o]
  BY <1>0, <1>2, TailWire
<1>4. TypeOK'
  BY <1>0, <1>1, <1>3 DEF TypeOK
<1>5. LineInv(p, Held(p), queue[p], place, future, thinned[p])'
  <2>1. Held(p)' = Held(p)
    BY <1>1 DEF Held
  <2> QED
    BY <1>1, <2>1 DEF OffsetInv, PartitionInv
<1>6. \A i \in DOMAIN wire'[p] : \E j \in DOMAIN wire[p] : wire'[p][i] = wire[p][j]
  BY <1>0, <1>3, TailWire
<1>7. WireInv(p)'
  BY <1>1, <1>6 DEF OffsetInv, PartitionInv, WireInv
<1>8. PartitionInv(p)'
  BY <1>0, <1>1, <1>5, <1>7 DEF OffsetInv, PartitionInv
<1> QED
  BY <1>1, <1>3, <1>4, <1>8, SettleNone, SettleStep

LEMMA OffsetStep ==
    ASSUME Semantic = "AtLeastOnce", OffsetInv, [Next]_vars
    PROVE  OffsetInv'
<1>1. CASE UNCHANGED vars
  BY <1>1, StutterStep
<1>2. CASE DropProducer
  BY <1>2, DropStep
<1>3. ASSUME NEW u \in User, NEW p \in Partition, PushBegin(u, p) PROVE OffsetInv'
  BY <1>3, PushBeginStep
<1>4. ASSUME NEW u \in User, PushRecord(u) PROVE OffsetInv'
  BY <1>4, PushRecordStep
<1>5. ASSUME NEW u \in User,
             FlushBegin(u) \/ FlushNotify(u) \/ FlushNext(u) \/ FlushCancel(u) \/ ClearErrors(u)
      PROVE  OffsetInv'
  BY <1>5, UserStep
<1>6. ASSUME NEW p \in Partition, Task(p) PROVE OffsetInv'
  <2>1. CASE OnEnd(p)
    BY <2>1, EndStep
  <2>2. CASE OnEvent(p, "flush") \/ OnEvent(p, "full") \/ OnLinger(p)
    BY <2>2, SelectStep
  <2>3. CASE OnNewBatch(p)
    BY <2>3, NewBatchStep
  <2>4. CASE SendReady(p)
    BY <2>4, SendStep
  <2>5. CASE OnReply(p)
    BY <2>5, ReplyStep
  <2>6. CASE GiveUp(p)
    BY <2>6, GiveUpStep
  <2>7. CASE Finish(p)
    BY <2>7, FinishStep
  <2> QED
    BY <1>6, <2>1, <2>2, <2>3, <2>4, <2>5, <2>6, <2>7 DEF Task
<1>7. ASSUME NEW p \in Partition, Retry(p) PROVE OffsetInv'
  BY <1>7, RetryStep
<1>8. ASSUME NEW p \in Partition, Age(p) PROVE OffsetInv'
  BY <1>8, AgeStep
<1>9. ASSUME NEW p \in Partition, SpuHandles(p) PROVE OffsetInv'
  BY <1>9, HandleStep
<1>10. ASSUME NEW p \in Partition, LoseRequest(p) PROVE OffsetInv'
  BY <1>10, LoseRequestStep
<1> QED
  BY <1>1, <1>2, <1>3, <1>4, <1>5, <1>6, <1>7, <1>8, <1>9, <1>10 DEF Next

\* OffsetInv is an invariant: what the task holds and the queue are in the
\* order sent, behind what is acknowledged, and a response the task will take
\* is right about the batches it holds that no SmartModule changed
\* (producer/accumulator.rs, partition_producer.rs, produce_handler.rs).
THEOREM OffsetInvariant ==
    ASSUME Semantic = "AtLeastOnce"
    PROVE  Spec => []OffsetInv
<1>1. OffsetInv /\ [Next]_vars => OffsetInv'
  BY OffsetStep
<1> QED
  BY <1>1, InitStep, PTL DEF Spec

\* The offset a sender gets from FutureRecordMetadata::wait is where its record
\* is, for any number of partitions, tasks, records, repeats and losses, unless
\* a SmartModule changed the batch of the record.
THEOREM OffsetIsTrueTheorem ==
    ASSUME Semantic = "AtLeastOnce"
    PROVE  Spec => []OffsetIsTrue
<1>1. OffsetInv => OffsetIsTrue
  <2> SUFFICES ASSUME OffsetInv, NEW r \in Record, future[r] >= 0, r \notin thinned[place[r]]
               PROVE  future[r] < Len(log[place[r]]) /\ log[place[r]][future[r] + 1] = r
    BY DEF OffsetIsTrue, Claims
  <2>1. PICK p \in Partition : p = place[r]
    BY DEF OffsetInv, TypeOK
  <2>2. r \in Acked(p, place, future, thinned[p]) /\ TrueInv(p, place, future, log[p], thinned[p])
    BY <2>1 DEF Acked, OffsetInv, PartitionInv
  <2> QED
    BY <2>1, <2>2 DEF TrueInv
<1> QED
  BY <1>1, OffsetInvariant, PTL

\* Acknowledged records of a partition have offsets in the order they were
\* sent, whichever branch of the PartitionProducer took their batches, unless a
\* SmartModule changed the batch of one of them.
THEOREM OffsetsInOrderTheorem ==
    ASSUME Semantic = "AtLeastOnce"
    PROVE  Spec => []OffsetsInOrder
<1>1. OffsetInv => OffsetsInOrder
  <2> SUFFICES ASSUME OffsetInv, NEW r \in Record, NEW s \in Record,
                      r < s, place[r] = place[s], future[r] >= 0, future[s] >= 0,
                      r \notin thinned[place[r]], s \notin thinned[place[s]]
               PROVE  future[r] < future[s]
    BY DEF OffsetsInOrder, Claims
  <2>1. PICK p \in Partition : p = place[r]
    BY DEF OffsetInv, TypeOK
  <2>2. /\ r \in Acked(p, place, future, thinned[p]) /\ s \in Acked(p, place, future, thinned[p])
        /\ TrueInv(p, place, future, log[p], thinned[p])
    BY <2>1 DEF Acked, OffsetInv, PartitionInv
  <2> QED
    BY <2>2 DEF TrueInv
<1> QED
  BY <1>1, OffsetInvariant, PTL

-----------------------------------------------------------------------------
(* What flush tells its caller. *)

EventNames == {"full", "new", "flush", "flushed"}

FlushType ==
    /\ events \in [Partition -> [EventNames -> Nat]]
    /\ order \in SetToSeqs(Partition) \X SetToSeqs(Partition)
    /\ error \in [Partition -> BOOLEAN]
    /\ told \subseteq Record /\ forgiven \subseteq Record

\* The task of p works on a flush.
Working(p) == task[p].cause = "flush" /\ task[p].pc \in {"connect", "await", "finish"}

\* The calls of flush that wait for p, seen from the task ...
Tokens(p) == events[p].flush + (IF Working(p) THEN 1 ELSE 0) + events[p].flushed

\* ... and from the callers.
Flushers(p) == {u \in User : user[u].pc = "flushing" /\ order[1][user[u].part] = p}

Clean(p) == RecordsOf(queue[p]) = {} /\ RecordsOf(Held(p)) = {}

\* Nothing was lost at p that no error told of.
Honest(p) == \A r \in Record : place[r] = p /\ future[r] = Lost => r \in forgiven

\* A record without an answer is in its queue or held by the task; a loss is
\* forgiven, or there is an error, unless the producer was dropped.
PendInv ==
    \A r \in Record :
        /\ future[r] = Pending => \E p \in Partition :
             place[r] = p /\ r \in RecordsOf(queue[p]) \cup RecordsOf(Held(p))
        /\ future[r] = Lost => r \in forgiven \/ error[place[r]] \/ ended
        /\ r \in forgiven => future[r] = Lost

\* Nobody flushes while a record is pushed, or once the producer is dropped.
UserInv ==
    /\ ended => \A u \in User : user[u].pc = "idle"
    /\ \A u, v \in User : user[u].pc = "push" => user[v].pc \in {"idle", "push"}

\* Every notification answers a caller that waits for one, and by then the
\* queue is empty and everything in it is answered.
TokenInv(p) ==
    /\ Tokens(p) = Cardinality(Flushers(p))
    /\ events[p].flushed > 0 => Clean(p)
    /\ task[p].cause = "flush" /\ task[p].pc \in {"await", "finish"} => RecordsOf(queue[p]) = {}

\* The error of the k-th partition is among the first n that are looked at,
\* and was looked at when the partition had been flushed.
Looked(k, n) == \E m \in k .. n : order[2][m] = order[1][k]

Done(k, n) == Clean(order[1][k]) /\ (Looked(k, n) => Honest(order[1][k]))

\* The partitions a caller has behind it stay empty until it returns.
DoneInv ==
    \A u \in User : user[u].pc \in {"flush", "flushing"} =>
        \A k \in 1 .. user[u].part - 1 : Done(k, user[u].part - 1)

ToldInv ==
    \A r \in told : /\ future[r] \notin {None, Pending}
                    /\ future[r] = Lost => r \in forgiven \/ LookedAtBefore(r)

FlushInv ==
    /\ FlushType /\ PendInv /\ UserInv
    /\ ~cancelled => (\A p \in Partition : TokenInv(p)) /\ DoneInv /\ ToldInv

LEMMA OrderType ==
    ASSUME FlushType, NEW m \in {1, 2}
    PROVE  /\ DOMAIN order[m] = 1 .. Cardinality(Partition)
           /\ \A k \in 1 .. Cardinality(Partition) : order[m][k] \in Partition
           /\ \A p \in Partition : \E k \in 1 .. Cardinality(Partition) : order[m][k] = p
<1> DEFINE D == 1 .. Cardinality(Partition)
<1>0. order[m] \in SetToSeqs(Partition)
  BY DEF FlushType
<1>1. PICK f \in [D -> Partition] : f = order[m] /\ \A i, j \in D : i # j => f[i] # f[j]
  BY <1>0 DEF SetToSeqs
<1>2. Cardinality(Partition) \in Nat /\ IsFiniteSet(Partition)
  BY PartsType, ProducerAssumption
<1>3. f \in Injection(D, Partition)
  BY <1>1, Zenon DEF Injection, IsInjective
<1>4. Cardinality(D) = Cardinality(Partition)
  <2>1. 1 \in Int /\ Cardinality(Partition) \in Int
    BY <1>2
  <2>2. Cardinality(D) = IF 1 > Cardinality(Partition) THEN 0 ELSE Cardinality(Partition) - 1 + 1
    BY <2>1, FS_Interval
  <2> QED
    BY <1>2, <2>2
<1>5. f \in Surjection(D, Partition)
  BY <1>2, <1>3, <1>4, FS_Injection
<1>6. \A p \in Partition : \E k \in D : f[k] = p
  BY <1>5 DEF Surjection
<1> QED
  BY <1>1, <1>6

LEMMA NotifyIs ==
    ASSUME FlushType, NEW p \in Partition, NEW kinds
    PROVE  /\ Notify(p, kinds) \in [Partition -> [EventNames -> Nat]]
           /\ \A o \in Partition : o # p => Notify(p, kinds)[o] = events[o]
           /\ Notify(p, kinds)[p].flush = events[p].flush + (IF "flush" \in kinds THEN 1 ELSE 0)
           /\ Notify(p, kinds)[p].flushed = events[p].flushed + (IF "flushed" \in kinds THEN 1 ELSE 0)
<1> DEFINE e == [k \in EventNames |-> IF k \in kinds THEN events[p][k] + 1 ELSE events[p][k]]
<1>1. events \in [Partition -> [EventNames -> Nat]] /\ events[p] \in [EventNames -> Nat]
  BY DEF FlushType
<1>2. DOMAIN events[p] = EventNames
  BY <1>1
<1>3. e \in [EventNames -> Nat]
  BY <1>1
<1>4. Notify(p, kinds) = [events EXCEPT ![p] = e]
  BY <1>2 DEF Notify
<1>5. e.flush = events[p].flush + (IF "flush" \in kinds THEN 1 ELSE 0)
  BY <1>1 DEF EventNames
<1>6. e.flushed = events[p].flushed + (IF "flushed" \in kinds THEN 1 ELSE 0)
  BY <1>1 DEF EventNames
<1> HIDE DEF e
<1> QED
  BY <1>1, <1>3, <1>4, <1>5, <1>6

LEMMA TakeEvent ==
    ASSUME FlushType, NEW p \in Partition, NEW k \in EventNames, events[p][k] > 0,
           events' = [events EXCEPT ![p][k] = @ - 1]
    PROVE  /\ events' \in [Partition -> [EventNames -> Nat]]
           /\ \A o \in Partition : o # p => events'[o] = events[o]
           /\ events'[p].flush = events[p].flush - (IF k = "flush" THEN 1 ELSE 0)
           /\ events'[p].flushed = events[p].flushed - (IF k = "flushed" THEN 1 ELSE 0)
<1> DEFINE e == [events[p] EXCEPT ![k] = @ - 1]
<1>1. events \in [Partition -> [EventNames -> Nat]] /\ events[p] \in [EventNames -> Nat]
  BY DEF FlushType
<1>2. "flush" \in EventNames /\ "flushed" \in EventNames
  BY DEF EventNames
<1>3. e \in [EventNames -> Nat]
  BY <1>1
<1>4. events' = [events EXCEPT ![p] = e]
  BY <1>1
<1>5. /\ e.flush = events[p].flush - (IF k = "flush" THEN 1 ELSE 0)
      /\ e.flushed = events[p].flushed - (IF k = "flushed" THEN 1 ELSE 0)
  BY <1>1, <1>2
<1> HIDE DEF e
<1> QED
  BY <1>1, <1>3, <1>4, <1>5

LEMMA EventTypes ==
    ASSUME FlushType, NEW p \in Partition
    PROVE  events[p].flush \in Nat /\ events[p].flushed \in Nat /\ Tokens(p) \in Nat
  BY DEF FlushType, EventNames, Tokens

LEMMA FlushersFinite ==
    ASSUME NEW p
    PROVE  IsFiniteSet(Flushers(p)) /\ Cardinality(Flushers(p)) \in Nat
<1>1. IsFiniteSet(User) /\ Flushers(p) \in SUBSET User
  BY ProducerAssumption DEF Flushers
<1>2. IsFiniteSet(Flushers(p))
  BY <1>1, FS_Subset
<1> QED
  BY <1>2, FS_CardinalityType

\* Nobody waits, so there is nothing to wait for.
LEMMA NoFlushers ==
    ASSUME FlushInv, ~cancelled, NEW p \in Partition, \A u \in User : user[u].pc # "flushing"
    PROVE  events[p].flush = 0 /\ events[p].flushed = 0 /\ ~Working(p)
<1>1. Flushers(p) = {}
  BY DEF Flushers
<1>2. Tokens(p) = 0
  BY <1>1, FS_EmptySet DEF FlushInv, TokenInv
<1>3. events[p].flush \in Nat /\ events[p].flushed \in Nat
  BY EventTypes DEF FlushInv
<1> QED
  BY <1>2, <1>3 DEF Tokens

LEMMA FlushInit == Init => FlushInv
<1> SUFFICES ASSUME Init PROVE FlushInv
  OBVIOUS
<1>1. FlushType
  BY ProducerAssumption DEF Init, FlushType, EventNames
<1>2. PendInv /\ UserInv /\ DoneInv /\ ToldInv
  BY DEF Init, PendInv, UserInv, DoneInv, ToldInv, None, Pending, Lost, Quiet
<1>3. ASSUME NEW p \in Partition PROVE TokenInv(p)
  <2>1. Flushers(p) = {}
    BY DEF Flushers, Init, Quiet
  <2>2. Tokens(p) = 0
    BY DEF Tokens, Working, Init, Waiting
  <2>3. Cardinality({}) = 0
    BY FS_EmptySet
  <2>4. events[p].flushed = 0 /\ task[p].cause = "none"
    BY DEF Init, Waiting
  <2> QED
    BY <2>1, <2>2, <2>3, <2>4 DEF TokenInv
<1> QED
  BY <1>1, <1>2, <1>3 DEF FlushInv

\* A step of the task of p, or of the SPU.
LEMMA TaskKeeps ==
    ASSUME OffsetInv, FlushInv, NEW p \in Partition, UNCHANGED client,
           events' \in [Partition -> [EventNames -> Nat]], error' \in [Partition -> BOOLEAN],
           \A o \in Partition : o # p => /\ queue'[o] = queue[o] /\ task'[o] = task[o]
                                         /\ events'[o] = events[o] /\ error'[o] = error[o],
           error[p] => error'[p],
           \A r \in Record : future'[r] = future[r] \/
               /\ r \in RecordsOf(queue[p]) \cup RecordsOf(Held(p))
               /\ future'[r] = Lost => error'[p] \/ ended,
           \A r \in Record : future'[r] = Pending /\ r \in RecordsOf(queue[p]) \cup RecordsOf(Held(p))
                               => r \in RecordsOf(queue'[p]) \cup RecordsOf(Held(p)'),
           Clean(p) => Clean(p)',
           ~cancelled => /\ Tokens(p)' = Tokens(p)
                         /\ events'[p].flushed > 0 => Clean(p)'
                         /\ task'[p].cause = "flush" /\ task'[p].pc \in {"await", "finish"}
                              => RecordsOf(queue'[p]) = {}
    PROVE  FlushInv'
<1>0. UNCHANGED <<user, place, told, forgiven, cancelled, ended, order>>
  BY DEF client
<1>1. /\ \A r \in RecordsOf(queue[p]) \cup RecordsOf(Held(p)) : place[r] = p /\ future[r] = Pending
      /\ place \in [Record -> Partition]
  BY DEF OffsetInv, TypeOK, PartitionInv, LineInv
<1>2. \A o \in Partition : o # p => Held(o)' = Held(o) /\ queue'[o] = queue[o]
  BY DEF Held
<1>3. FlushType'
  BY <1>0 DEF FlushInv, FlushType
<1>4. PendInv'
  <2> SUFFICES ASSUME NEW r \in Record
               PROVE  /\ future'[r] = Pending => \E o \in Partition :
                           place[r] = o /\ r \in RecordsOf(queue'[o]) \cup RecordsOf(Held(o)')
                      /\ future'[r] = Lost => r \in forgiven \/ error'[place[r]] \/ ended
                      /\ r \in forgiven => future'[r] = Lost
    BY <1>0 DEF PendInv
  <2>0. /\ future[r] = Pending => \E o \in Partition :
             place[r] = o /\ r \in RecordsOf(queue[o]) \cup RecordsOf(Held(o))
        /\ future[r] = Lost => r \in forgiven \/ error[place[r]] \/ ended
        /\ r \in forgiven => future[r] = Lost
    BY DEF FlushInv, PendInv
  <2>1. PICK o \in Partition : o = place[r]
    BY <1>1
  <2>2. ASSUME future'[r] = Pending PROVE r \in RecordsOf(queue'[o]) \cup RecordsOf(Held(o)')
    <3>1. future[r] = Pending
      BY <1>1, <2>2
    <3>2. r \in RecordsOf(queue[o]) \cup RecordsOf(Held(o))
      BY <2>0, <2>1, <3>1
    <3> QED
      BY <1>2, <2>2, <3>2
  <2>3. ASSUME future'[r] = Lost PROVE r \in forgiven \/ error'[o] \/ ended
    BY <1>1, <2>0, <2>1, <2>3
  <2>4. ASSUME r \in forgiven PROVE future'[r] = Lost
    BY <1>1, <2>0, <2>4 DEF Lost, Pending
  <2> QED
    BY <2>1, <2>2, <2>3, <2>4
<1>5. UserInv'
  BY <1>0 DEF FlushInv, UserInv
<1>6. ASSUME ~cancelled PROVE (\A o \in Partition : TokenInv(o)') /\ DoneInv' /\ ToldInv'
  <2>1. ASSUME NEW o \in Partition PROVE TokenInv(o)'
    <3>0. TokenInv(o) /\ Flushers(o)' = Flushers(o)
      BY <1>0, <1>6 DEF FlushInv, Flushers
    <3>1. CASE o # p
      <4>1. Tokens(o)' = Tokens(o) /\ (Clean(o) => Clean(o)')
        BY <1>2, <3>1 DEF Tokens, Working, Clean
      <4> QED
        BY <1>2, <3>0, <3>1, <4>1 DEF TokenInv
    <3>2. CASE o = p
      BY <1>6, <3>0, <3>2 DEF TokenInv
    <3> QED
      BY <3>1, <3>2
  <2>2. DoneInv'
    <3> SUFFICES ASSUME NEW u \in User, user[u].pc \in {"flush", "flushing"},
                        NEW k \in 1 .. user[u].part - 1
                 PROVE  Done(k, user[u].part - 1)'
      BY <1>0 DEF DoneInv
    <3>1. Done(k, user[u].part - 1)
      BY <1>6 DEF FlushInv, DoneInv
    <3>2. PICK o \in Partition : o = order[1][k]
      <4>1. k \in 1 .. Cardinality(Partition)
        BY PartsType DEF OffsetInv, StageInv
      <4> QED
        BY <4>1, OrderType DEF FlushInv
    <3>3. Clean(o)'
      BY <1>2, <3>1, <3>2 DEF Done, Clean
    <3>4. Honest(o) => Honest(o)'
      BY <1>0, <1>1, <3>1, <3>2 DEF Done, Honest, Clean
    <3>5. o = order'[1][k] /\ user'[u] = user[u]
      BY <1>0, <3>2
    <3>6. Looked(k, user[u].part - 1)' => Looked(k, user[u].part - 1)
      BY <1>0 DEF Looked
    <3> QED
      BY <3>1, <3>2, <3>3, <3>4, <3>5, <3>6 DEF Done
  <2>3. ToldInv'
    <3> SUFFICES ASSUME NEW r \in told
                 PROVE  future'[r] \notin {None, Pending} /\ (future'[r] = Lost => r \in forgiven \/ LookedAtBefore(r))
      BY <1>0 DEF ToldInv, LookedAtBefore
    <3>1. /\ r \in Record /\ future[r] \notin {None, Pending}
          /\ future[r] = Lost => r \in forgiven \/ LookedAtBefore(r)
      BY <1>6 DEF FlushInv, FlushType, ToldInv
    <3>2. future'[r] = future[r]
      BY <1>1, <3>1
    <3> QED
      BY <3>1, <3>2
  <2> QED
    BY <2>1, <2>2, <2>3
<1> QED
  BY <1>0, <1>3, <1>4, <1>5, <1>6 DEF FlushInv

\* A step that moves no record.
LEMMA QuietKeeps ==
    ASSUME OffsetInv, FlushInv, NEW p \in Partition, UNCHANGED client, UNCHANGED <<error, future>>,
           events' \in [Partition -> [EventNames -> Nat]],
           \A o \in Partition : o # p => /\ queue'[o] = queue[o] /\ task'[o] = task[o]
                                         /\ events'[o] = events[o],
           RecordsOf(queue'[p]) = RecordsOf(queue[p]), RecordsOf(Held(p)') = RecordsOf(Held(p)),
           ~cancelled => /\ Tokens(p)' = Tokens(p)
                         /\ events'[p].flushed > 0 => Clean(p)
                         /\ task'[p].cause = "flush" /\ task'[p].pc \in {"await", "finish"}
                              => RecordsOf(queue[p]) = {}
    PROVE  FlushInv'
<1>1. Clean(p)' <=> Clean(p)
  BY DEF Clean
<1>2. \A o \in Partition : o # p => /\ queue'[o] = queue[o] /\ task'[o] = task[o]
                                    /\ events'[o] = events[o] /\ error'[o] = error[o]
  OBVIOUS
<1>3. \A r \in Record : future'[r] = future[r] \/
               /\ r \in RecordsOf(queue[p]) \cup RecordsOf(Held(p))
               /\ future'[r] = Lost => error'[p] \/ ended
  OBVIOUS
<1>4. \A r \in Record : future'[r] = Pending /\ r \in RecordsOf(queue[p]) \cup RecordsOf(Held(p))
                          => r \in RecordsOf(queue'[p]) \cup RecordsOf(Held(p)')
  OBVIOUS
<1>5. (error[p] => error'[p]) /\ error' \in [Partition -> BOOLEAN]
  BY DEF FlushInv, FlushType
<1>6. ~cancelled => /\ Tokens(p)' = Tokens(p)
                    /\ events'[p].flushed > 0 => Clean(p)'
                    /\ task'[p].cause = "flush" /\ task'[p].pc \in {"await", "finish"}
                         => RecordsOf(queue'[p]) = {}
  BY <1>1
<1> QED
  BY <1>1, <1>2, <1>3, <1>4, <1>5, <1>6, TaskKeeps

LEMMA TokenOf ==
    ASSUME FlushInv, ~cancelled, NEW p \in Partition
    PROVE  TokenInv(p)
  BY DEF FlushInv

LEMMA EventFlush ==
    ASSUME OffsetInv, FlushInv, NEW p \in Partition, NEW k \in {"flush", "full"}, OnEvent(p, k)
    PROVE  FlushInv'
<1>0. FlushType /\ task \in [Partition -> TaskType]
  BY DEF FlushInv, OffsetInv, TypeOK
<1>1. UNCHANGED client /\ UNCHANGED <<error, future, queue>> /\ task[p].pc = "select"
  BY DEF OnEvent
<1>2. /\ events' \in [Partition -> [EventNames -> Nat]]
      /\ \A o \in Partition : o # p => events'[o] = events[o]
      /\ events'[p].flush = events[p].flush - (IF k = "flush" THEN 1 ELSE 0)
      /\ events'[p].flushed = events[p].flushed
  <2>1. k \in EventNames /\ events[p][k] > 0 /\ events' = [events EXCEPT ![p][k] = @ - 1]
    BY DEF OnEvent, EventNames
  <2>2. /\ events' \in [Partition -> [EventNames -> Nat]]
        /\ \A o \in Partition : o # p => events'[o] = events[o]
        /\ events'[p].flush = events[p].flush - (IF k = "flush" THEN 1 ELSE 0)
        /\ events'[p].flushed = events[p].flushed - (IF k = "flushed" THEN 1 ELSE 0)
    BY <1>0, <2>1, TakeEvent
  <2>3. events[p].flushed \in Nat /\ k # "flushed"
    BY <1>0, EventTypes
  <2> QED
    BY <2>2, <2>3
<1>3. /\ task'[p].pc = "connect" /\ task'[p].cause = k
      /\ \A o \in Partition : o # p => task'[o] = task[o]
  BY <1>0 DEF OnEvent, Become, TaskType
<1>4. Held(p) = <<>> /\ Held(p)' = <<>>
  BY <1>1, <1>3 DEF Held
<1>5. ~Working(p) /\ (Working(p)' <=> k = "flush")
  BY <1>1, <1>3 DEF Working
<1>6. Tokens(p)' = Tokens(p)
  BY <1>0, <1>2, <1>5, EventTypes DEF Tokens
<1>7. ~cancelled => (events'[p].flushed > 0 => Clean(p))
  BY <1>2, TokenOf DEF TokenInv
<1> QED
  BY <1>1, <1>2, <1>3, <1>4, <1>6, <1>7, QuietKeeps

LEMMA NewBatchFlush ==
    ASSUME OffsetInv, FlushInv, NEW p \in Partition, OnNewBatch(p)
    PROVE  FlushInv'
<1>0. FlushType
  BY DEF FlushInv
<1>1. UNCHANGED client /\ UNCHANGED <<error, future, queue, task>>
  BY DEF OnNewBatch
<1>2. /\ events' \in [Partition -> [EventNames -> Nat]]
      /\ \A o \in Partition : o # p => events'[o] = events[o]
      /\ events'[p].flush = events[p].flush /\ events'[p].flushed = events[p].flushed
  <2>1. "new" \in EventNames /\ events[p]["new"] > 0 /\ events' = [events EXCEPT ![p]["new"] = @ - 1]
    BY DEF OnNewBatch, EventNames
  <2>2. events[p].flush \in Nat /\ events[p].flushed \in Nat
    BY <1>0, EventTypes
  <2>3. /\ events' \in [Partition -> [EventNames -> Nat]]
        /\ \A o \in Partition : o # p => events'[o] = events[o]
        /\ events'[p].flush = events[p].flush - (IF "new" = "flush" THEN 1 ELSE 0)
        /\ events'[p].flushed = events[p].flushed - (IF "new" = "flushed" THEN 1 ELSE 0)
    BY <1>0, <2>1, TakeEvent
  <2> QED
    BY <2>2, <2>3
<1>4. Held(p)' = Held(p) /\ (Working(p)' <=> Working(p))
  BY <1>1 DEF Held, Working
<1>6. Tokens(p)' = Tokens(p)
  BY <1>2, <1>4 DEF Tokens
<1>7. ~cancelled => /\ events'[p].flushed > 0 => Clean(p)
                    /\ task'[p].cause = "flush" /\ task'[p].pc \in {"await", "finish"}
                              => RecordsOf(queue[p]) = {}
  BY <1>1, <1>2, TokenOf DEF TokenInv
<1> QED
  BY <1>1, <1>2, <1>4, <1>6, <1>7, QuietKeeps

\* A step that changes the task of p at most by its id.
LEMMA SameTask ==
    ASSUME OffsetInv, FlushInv, NEW p \in Partition, UNCHANGED client, UNCHANGED <<error, future, events>>,
           \A o \in Partition : o # p => queue'[o] = queue[o] /\ task'[o] = task[o],
           RecordsOf(queue'[p]) = RecordsOf(queue[p]),
           task'[p].pc = task[p].pc, task'[p].cause = task[p].cause, task'[p].ready = task[p].ready
    PROVE  FlushInv'
<1>1. events' \in [Partition -> [EventNames -> Nat]]
  BY DEF FlushInv, FlushType
<1>2. Held(p)' = Held(p) /\ (Working(p)' <=> Working(p))
  BY DEF Held, Working
<1>3. Tokens(p)' = Tokens(p)
  BY <1>2 DEF Tokens
<1>4. ~cancelled => /\ events'[p].flushed > 0 => Clean(p)
                    /\ task'[p].cause = "flush" /\ task'[p].pc \in {"await", "finish"}
                              => RecordsOf(queue[p]) = {}
  BY TokenOf DEF TokenInv
<1> QED
  BY <1>1, <1>2, <1>3, <1>4, QuietKeeps

LEMMA AgeFlush ==
    ASSUME OffsetInv, FlushInv, NEW p \in Partition, Age(p)
    PROVE  FlushInv'
<1>1. PICK i \in DOMAIN queue[p] : queue' = [queue EXCEPT ![p][i].old = TRUE]
  BY DEF Age
<1>2. UNCHANGED client /\ UNCHANGED <<error, future, events, task>>
  BY DEF Age
<1> DEFINE b == [queue[p][i] EXCEPT !.old = TRUE]
           c == [queue[p] EXCEPT ![i] = b]
<1>3. queue \in [Partition -> Batches] /\ queue[p] \in Batches
  BY DEF OffsetInv, TypeOK
<1>4. queue[p][i] \in Batch
  BY <1>3, BatchesType
<1>5. b \in Batch /\ b.recs = queue[p][i].recs
  BY <1>4 DEF Batch
<1>6. queue' = [queue EXCEPT ![p] = c]
  BY <1>1, <1>3
<1> HIDE DEF b
<1>7. RecordsOf(c) = RecordsOf(queue[p])
  BY <1>3, <1>5, Marked
<1> HIDE DEF c
<1>8. queue'[p] = c /\ \A o \in Partition : o # p => queue'[o] = queue[o]
  BY <1>3, <1>6
<1> QED
  BY <1>2, <1>7, <1>8, SameTask

LEMMA LingerFlush ==
    ASSUME OffsetInv, FlushInv, NEW p \in Partition, OnLinger(p)
    PROVE  FlushInv'
<1>0. task \in [Partition -> TaskType] /\ events \in [Partition -> [EventNames -> Nat]]
  BY DEF FlushInv, FlushType, OffsetInv, TypeOK
<1>1. UNCHANGED client /\ UNCHANGED <<error, future, queue, events>> /\ task[p].pc = "select"
  BY DEF OnLinger
<1>3. /\ task'[p].pc = "connect" /\ task'[p].cause = "linger"
      /\ \A o \in Partition : o # p => task'[o] = task[o]
  BY <1>0 DEF OnLinger, Become, TaskType
<1>4. Held(p) = <<>> /\ Held(p)' = <<>>
  BY <1>1, <1>3 DEF Held
<1>5. ~Working(p) /\ ~Working(p)'
  BY <1>1, <1>3 DEF Working
<1>6. Tokens(p)' = Tokens(p)
  BY <1>1, <1>5 DEF Tokens
<1>7. ~cancelled => (events'[p].flushed > 0 => Clean(p))
  BY <1>1, TokenOf DEF TokenInv
<1> QED
  BY <1>0, <1>1, <1>3, <1>4, <1>6, <1>7, QuietKeeps

LEMMA FinishFlush ==
    ASSUME OffsetInv, FlushInv, NEW p \in Partition, Finish(p)
    PROVE  FlushInv'
<1>0. FlushType /\ task \in [Partition -> TaskType] /\ events \in [Partition -> [EventNames -> Nat]]
  BY DEF FlushInv, FlushType, OffsetInv, TypeOK
<1>1. UNCHANGED client /\ UNCHANGED <<error, future, queue>> /\ task[p].pc = "finish"
  BY DEF Finish
<1>2. /\ task'[p].pc = "select" /\ task'[p].cause = "none"
      /\ \A o \in Partition : o # p => task'[o] = task[o]
  BY <1>0 DEF Finish, Waiting
<1>3. /\ events' \in [Partition -> [EventNames -> Nat]]
      /\ \A o \in Partition : o # p => events'[o] = events[o]
      /\ events'[p].flush = events[p].flush
      /\ events'[p].flushed = events[p].flushed + (IF task[p].cause = "flush" THEN 1 ELSE 0)
  <2>0. events[p].flush \in Nat /\ events[p].flushed \in Nat
    BY <1>0, EventTypes
  <2>1. CASE task[p].cause = "flush"
    <3>1. events' = Notify(p, {"flushed"})
      BY <2>1 DEF Finish
    <3> QED
      BY <1>0, <2>0, <2>1, <3>1, NotifyIs
  <2>2. CASE task[p].cause # "flush"
    BY <1>0, <2>0, <2>2 DEF Finish
  <2> QED
    BY <2>1, <2>2
<1>4. Held(p) = <<>> /\ Held(p)' = <<>>
  BY <1>1, <1>2 DEF Held
<1>5. (Working(p) <=> task[p].cause = "flush") /\ ~Working(p)'
  BY <1>1, <1>2 DEF Working
<1>6. Tokens(p)' = Tokens(p)
  <2>1. events[p].flush \in Nat /\ events[p].flushed \in Nat
    BY <1>0, EventTypes
  <2> QED
    <3>1. CASE Working(p)
      <4>1. Tokens(p) = events[p].flush + 1 + events[p].flushed
        BY <3>1 DEF Tokens
      <4>2. Tokens(p)' = events[p].flush + 0 + (events[p].flushed + 1)
        BY <1>3, <1>5, <3>1 DEF Tokens
      <4> QED
        BY <2>1, <4>1, <4>2
    <3>2. CASE ~Working(p)
      BY <1>3, <1>5, <2>1, <3>2 DEF Tokens
    <3> QED
      BY <3>1, <3>2
<1>7. ASSUME ~cancelled, events'[p].flushed > 0 PROVE Clean(p)
  <2>1. CASE task[p].cause = "flush"
    BY <1>1, <1>4, <1>7, <2>1, TokenOf, NoBatches DEF TokenInv, Clean
  <2>2. CASE task[p].cause # "flush"
    <3>1. events[p].flushed > 0
      BY <1>0, <1>3, <1>7, <2>2, EventTypes
    <3> QED
      BY <1>7, <3>1, TokenOf DEF TokenInv
  <2> QED
    BY <2>1, <2>2
<1> QED
  BY <1>1, <1>2, <1>3, <1>4, <1>6, <1>7, QuietKeeps

LEMMA OtherFlush ==
    ASSUME OffsetInv, FlushInv, Semantic = "AtLeastOnce", NEW p \in Partition,
           Retry(p) \/ SpuHandles(p) \/ LoseRequest(p) \/ UNCHANGED vars
    PROVE  FlushInv'
<1>0. task \in [Partition -> TaskType]
  BY DEF OffsetInv, TypeOK
<1>1. UNCHANGED client /\ UNCHANGED <<error, future, events, queue>>
  <2>1. Semantic # "AtMostOnce"
    OBVIOUS
  <2>2. CASE SpuHandles(p)
    BY <2>1, <2>2, Zenon DEF SpuHandles, Handle
  <2>3. CASE LoseRequest(p)
    BY <2>1, <2>3 DEF LoseRequest
  <2> QED
    BY <2>2, <2>3 DEF Retry, vars
<1>2. /\ task'[p].pc = task[p].pc /\ task'[p].cause = task[p].cause /\ task'[p].ready = task[p].ready
      /\ \A o \in Partition : o # p => task'[o] = task[o]
  <2>1. CASE Retry(p)
    BY <1>0, <2>1 DEF Retry, TaskType
  <2>2. CASE ~Retry(p)
    <3>1. task' = task
      BY <2>2, Zenon DEF SpuHandles, Handle, LoseRequest, vars
    <3> QED
      BY <3>1
  <2> QED
    BY <2>1, <2>2
<1> QED
  BY <1>1, <1>2, SameTask

LEMMA EndFlush ==
    ASSUME OffsetInv, FlushInv, NEW p \in Partition, OnEnd(p)
    PROVE  FlushInv'
<1>0. task \in [Partition -> TaskType] /\ queue \in [Partition -> Batches]
      /\ events' \in [Partition -> [EventNames -> Nat]]
  BY DEF FlushInv, FlushType, OffsetInv, TypeOK, OnEnd
<1>1. UNCHANGED client /\ UNCHANGED <<error, events>> /\ task[p].pc = "select" /\ ended
  BY DEF OnEnd
<1>2. /\ task'[p].pc = "ended" /\ queue'[p] = <<>>
      /\ \A o \in Partition : o # p => task'[o] = task[o] /\ queue'[o] = queue[o]
  BY <1>0 DEF OnEnd, Become, TaskType
<1>3. Held(p) = <<>> /\ Held(p)' = <<>>
  BY <1>1, <1>2 DEF Held
<1>4. Clean(p)'
  BY <1>2, <1>3, NoBatches DEF Clean
<1>5. ~Working(p) /\ ~Working(p)'
  BY <1>1, <1>2 DEF Working
<1>6. Tokens(p)' = Tokens(p)
  BY <1>1, <1>5 DEF Tokens
<1>7. \A r \in Record : /\ r \notin RecordsOf(queue[p]) => future'[r] = future[r]
                        /\ r \in RecordsOf(queue[p]) => future'[r] = Lost
  BY DEF OnEnd
<1>8. \A r \in Record : future'[r] = Pending => r \notin RecordsOf(queue[p])
  BY <1>7 DEF Lost, Pending
<1>9. RecordsOf(Held(p)) = {}
  BY <1>3, NoBatches
<1>10. \A o \in Partition : o # p => /\ queue'[o] = queue[o] /\ task'[o] = task[o]
                                     /\ events'[o] = events[o] /\ error'[o] = error[o]
  BY <1>1, <1>2
<1>11. \A r \in Record : future'[r] = future[r] \/
               /\ r \in RecordsOf(queue[p]) \cup RecordsOf(Held(p))
               /\ future'[r] = Lost => error'[p] \/ ended
  BY <1>1, <1>7
<1>12. \A r \in Record : future'[r] = Pending /\ r \in RecordsOf(queue[p]) \cup RecordsOf(Held(p))
                          => r \in RecordsOf(queue'[p]) \cup RecordsOf(Held(p)')
  BY <1>8, <1>9
<1>13. ~cancelled => /\ Tokens(p)' = Tokens(p)
                     /\ events'[p].flushed > 0 => Clean(p)'
                     /\ task'[p].cause = "flush" /\ task'[p].pc \in {"await", "finish"}
                          => RecordsOf(queue'[p]) = {}
  BY <1>2, <1>4, <1>6
<1>14. (error[p] => error'[p]) /\ error' \in [Partition -> BOOLEAN]
  BY <1>1 DEF FlushInv, FlushType
<1> QED
  BY <1>0, <1>1, <1>4, <1>10, <1>11, <1>12, <1>13, <1>14, TaskKeeps

LEMMA SendFlush ==
    ASSUME Semantic = "AtLeastOnce", OffsetInv, FlushInv, NEW p \in Partition, SendReady(p)
    PROVE  FlushInv'
<1> DEFINE n == ReadyCount(p)
           q == queue[p]
<1>1. q \in Batches /\ TypeOK
  BY HeldType DEF OffsetInv
<1>2. n \in 0 .. Len(q) /\ (task[p].cause = "flush" => n = Len(q))
  BY <1>1, ReadyPrefix
<1>3. PICK h \in Batches, t \in Batches :
          /\ h = SubSeq(q, 1, n) /\ t = SubSeq(q, n + 1, Len(q))
          /\ RecordsOf(h) \cup RecordsOf(t) = RecordsOf(q)
          /\ n = Len(q) => RecordsOf(t) = {}
  <2> DEFINE h0 == SubSeq(q, 1, n)
             t0 == SubSeq(q, n + 1, Len(q))
  <2> HIDE DEF n, q
  <2>1. /\ h0 \in Batches /\ t0 \in Batches
        /\ RecordsOf(h0) \cup RecordsOf(t0) = RecordsOf(q)
        /\ n = Len(q) => RecordsOf(t0) = {}
    BY <1>1, <1>2, Taken
  <2> HIDE DEF h0, t0
  <2>2. h0 = SubSeq(q, 1, n) /\ t0 = SubSeq(q, n + 1, Len(q))
    BY DEF h0, t0
  <2> QED
    BY <2>1, <2>2
<1>4. /\ task'[p].pc = "await" /\ task'[p].ready = h /\ task'[p].cause = task[p].cause
      /\ \A o \in Partition : o # p => task'[o] = task[o]
  <2>1. task[p] \in TaskType /\ task \in [Partition -> TaskType] /\ Semantic # "AtMostOnce"
    BY <1>1 DEF TypeOK
  <2>2. task' = [task EXCEPT ![p] = [@ EXCEPT !.pc = "await", !.ready = h, !.id = ids[p] + 1]]
    BY <1>3, <2>1 DEF SendReady
  <2> QED
    BY <2>1, <2>2 DEF TaskType
<1>5. UNCHANGED client /\ UNCHANGED <<error, events, future>> /\ task[p].pc = "connect"
  BY DEF SendReady
<1>6. queue'[p] = t /\ \A o \in Partition : o # p => queue'[o] = queue[o]
  <2>1. queue' = [queue EXCEPT ![p] = t]
    BY <1>3 DEF SendReady
  <2> QED
    BY <1>1, <2>1 DEF TypeOK
<1>7. Held(p) = <<>> /\ Held(p)' = h
  BY <1>4, <1>5 DEF Held
<1>8. RecordsOf(Held(p)) = {} /\ RecordsOf(queue'[p]) \cup RecordsOf(Held(p)') = RecordsOf(queue[p])
  BY <1>3, <1>6, <1>7, NoBatches DEF q
<1>9. Clean(p) => Clean(p)'
  BY <1>8 DEF Clean
<1>10. Working(p)' <=> Working(p)
  BY <1>4, <1>5 DEF Working
<1>11. Tokens(p)' = Tokens(p)
  BY <1>5, <1>10 DEF Tokens
<1>12. task'[p].cause = "flush" => RecordsOf(queue'[p]) = {}
  BY <1>2, <1>3, <1>4, <1>6
<1>13. ~cancelled => (events'[p].flushed > 0 => Clean(p)')
  BY <1>5, <1>9, TokenOf DEF TokenInv
<1>14. events' \in [Partition -> [EventNames -> Nat]]
  BY <1>5 DEF FlushInv, FlushType
<1>15. \A r \in Record : future'[r] = Pending /\ r \in RecordsOf(queue[p]) \cup RecordsOf(Held(p))
                           => r \in RecordsOf(queue'[p]) \cup RecordsOf(Held(p)')
  BY <1>8
<1>16. \A r \in Record : future'[r] = future[r] \/
               /\ r \in RecordsOf(queue[p]) \cup RecordsOf(Held(p))
               /\ future'[r] = Lost => error'[p] \/ ended
  BY <1>5
<1>17. \A o \in Partition : o # p => /\ queue'[o] = queue[o] /\ task'[o] = task[o]
                                     /\ events'[o] = events[o] /\ error'[o] = error[o]
  BY <1>4, <1>5, <1>6
<1>18. ~cancelled => /\ Tokens(p)' = Tokens(p)
                     /\ events'[p].flushed > 0 => Clean(p)'
                     /\ task'[p].cause = "flush" /\ task'[p].pc \in {"await", "finish"}
                          => RecordsOf(queue'[p]) = {}
  BY <1>11, <1>12, <1>13
<1>19. (error[p] => error'[p]) /\ error' \in [Partition -> BOOLEAN]
  BY <1>5 DEF FlushInv, FlushType
<1> HIDE DEF n, q
<1> QED
  BY <1>5, <1>9, <1>14, <1>15, <1>16, <1>17, <1>18, <1>19, TaskKeeps

\* The task has an answer, or none: what it held is settled.
LEMMA AnswerFlush ==
    ASSUME OffsetInv, FlushInv, NEW p \in Partition, NEW offsets, UNCHANGED <<client, queue, events>>,
           task[p].pc = "await", future' = Resolve(task[p].ready, offsets),
           task' = [task EXCEPT ![p].pc = "finish"],
           error' \in [Partition -> BOOLEAN],
           \A o \in Partition : o # p => error'[o] = error[o], error[p] => error'[p],
           \A i \in DOMAIN task[p].ready :
               \/ offsets[i] = Refused \/ offsets[i] \in Nat \/ (offsets[i] = Lost /\ error'[p])
    PROVE  FlushInv'
<1>0. PICK bs \in Batches : bs = task[p].ready
  BY HeldType DEF OffsetInv
<1>1. Held(p) = bs /\ future \in [Record -> Int]
  BY <1>0 DEF Held, OffsetInv, TypeOK
<1>2. Sorted(bs)
  BY <1>1 DEF OffsetInv, PartitionInv, LineInv
<1>3. \A i \in DOMAIN bs : offsets[i] \in Int
  BY <1>0 DEF Refused, Lost
<1>4. /\ \A r \in Record : r \notin RecordsOf(bs) => future'[r] = future[r]
      /\ \A r, i, j : At(bs, r, i, j) =>
           future'[r] = IF offsets[i] < 0 THEN offsets[i] ELSE offsets[i] + j - 1
  BY <1>0, <1>1, <1>2, <1>3, Resolved
<1>5. ASSUME NEW r \in RecordsOf(bs)
      PROVE  future'[r] # Pending /\ (future'[r] = Lost => error'[p])
  <2>1. PICK i, j : At(bs, r, i, j)
    BY <1>5, RecordsAt
  <2>2. i \in DOMAIN bs /\ j \in 1 .. Len(bs[i].recs) /\ Len(bs[i].recs) \in Nat
    BY <2>1, BatchesType DEF At
  <2>3. offsets[i] = Refused \/ offsets[i] \in Nat \/ (offsets[i] = Lost /\ error'[p])
    BY <1>0, <2>2
  <2>4. future'[r] = IF offsets[i] < 0 THEN offsets[i] ELSE offsets[i] + j - 1
    BY <1>4, <2>1
  <2>5. CASE offsets[i] \in Nat
    BY <2>2, <2>4, <2>5 DEF Pending, Lost
  <2>6. CASE offsets[i] = Refused \/ (offsets[i] = Lost /\ error'[p])
    BY <2>4, <2>6 DEF Pending, Lost, Refused
  <2> QED
    BY <2>3, <2>5, <2>6
<1>6. /\ task'[p].pc = "finish" /\ task'[p].cause = task[p].cause
      /\ \A o \in Partition : o # p => task'[o] = task[o]
  BY DEF OffsetInv, TypeOK, TaskType
<1>7. Held(p)' = <<>> /\ RecordsOf(<<>>) = {}
  BY <1>6, NoBatches DEF Held
<1>8. Clean(p) => Clean(p)'
  BY <1>7 DEF Clean
<1>9. Working(p)' <=> Working(p)
  BY <1>6 DEF Working
<1>10. Tokens(p)' = Tokens(p)
  BY <1>9 DEF Tokens
<1>11. ~cancelled => /\ Tokens(p)' = Tokens(p)
                     /\ events'[p].flushed > 0 => Clean(p)'
                     /\ task'[p].cause = "flush" /\ task'[p].pc \in {"await", "finish"}
                          => RecordsOf(queue'[p]) = {}
  BY <1>6, <1>8, <1>10, TokenOf DEF TokenInv
<1>12. events' \in [Partition -> [EventNames -> Nat]]
  BY DEF FlushInv, FlushType
<1>13. \A r \in Record : future'[r] = Pending /\ r \in RecordsOf(queue[p]) \cup RecordsOf(Held(p))
                           => r \in RecordsOf(queue'[p]) \cup RecordsOf(Held(p)')
  BY <1>1, <1>5
<1>14. \A r \in Record : future'[r] = future[r] \/
               /\ r \in RecordsOf(queue[p]) \cup RecordsOf(Held(p))
               /\ future'[r] = Lost => error'[p] \/ ended
  BY <1>1, <1>4, <1>5
<1>15. \A o \in Partition : o # p => /\ queue'[o] = queue[o] /\ task'[o] = task[o]
                                     /\ events'[o] = events[o] /\ error'[o] = error[o]
  BY <1>6
<1>16. UNCHANGED client
  OBVIOUS
<1> QED
  BY <1>8, <1>11, <1>12, <1>13, <1>14, <1>15, <1>16, TaskKeeps

LEMMA ReplyFlush ==
    ASSUME OffsetInv, FlushInv, NEW p \in Partition, OnReply(p)
    PROVE  FlushInv'
<1>1. UNCHANGED <<client, queue, events>> /\ UNCHANGED error /\ error' \in [Partition -> BOOLEAN]
  BY DEF OnReply, FlushInv, FlushType
<1>2. \A i \in DOMAIN task[p].ready : reply[p].offsets[i] = Refused \/ reply[p].offsets[i] \in Nat
  BY DEF OnReply, OffsetInv, PartitionInv, WireInv, ReplyInv
<1> QED
  BY <1>1, <1>2, AnswerFlush DEF OnReply

LEMMA GiveUpFlush ==
    ASSUME OffsetInv, FlushInv, NEW p \in Partition, GiveUp(p)
    PROVE  FlushInv'
<1> DEFINE offsets == [i \in DOMAIN task[p].ready |-> Lost]
<1>0. UNCHANGED <<client, queue, events>> /\ task[p].pc = "await"
  BY DEF GiveUp, NoAnswer
<1>1. /\ error' \in [Partition -> BOOLEAN] /\ error'[p]
      /\ \A o \in Partition : o # p => error'[o] = error[o]
  BY DEF GiveUp, FlushInv, FlushType
<1>2. \A i \in DOMAIN task[p].ready : offsets[i] = Lost
  OBVIOUS
<1>3. future' = Resolve(task[p].ready, offsets) /\ task' = [task EXCEPT ![p].pc = "finish"]
  BY DEF GiveUp, Lose
<1> HIDE DEF offsets
<1> QED
  BY <1>0, <1>1, <1>2, <1>3, AnswerFlush

\* The steps of the callers leave queues and tasks alone, or nearly.
LEMMA SameQueues ==
    ASSUME UNCHANGED <<queue, task>>
    PROVE  \A p : (Clean(p)' <=> Clean(p)) /\ Held(p)' = Held(p) /\ (Working(p)' <=> Working(p))
  BY DEF Clean, Held, Working

LEMMA SameDone ==
    ASSUME UNCHANGED <<queue, task, order, place, future, forgiven>>, NEW k, NEW n, Done(k, n)
    PROVE  Done(k, n)'
<1>1. (Clean(order[1][k]) => Clean(order[1][k])') /\ (Honest(order[1][k]) => Honest(order[1][k])')
  BY DEF Clean, Held, Honest
<1>2. Looked(k, n)' => Looked(k, n)
  BY DEF Looked
<1> QED
  BY <1>1, <1>2 DEF Done

LEMMA DropFlush ==
    ASSUME OffsetInv, FlushInv, DropProducer
    PROVE  FlushInv'
<1>1. UNCHANGED <<queue, events, task, error, order, user, place, future, told, forgiven, cancelled>>
      /\ ended' /\ \A u \in User : user[u].pc = "idle"
  BY DEF DropProducer, Quiet
<1>2. \A p : (Clean(p)' <=> Clean(p)) /\ Held(p)' = Held(p) /\ (Working(p)' <=> Working(p))
  BY <1>1, SameQueues
<1>3. FlushType' /\ UserInv'
  BY <1>1 DEF FlushInv, FlushType, UserInv
<1>4. PendInv'
  BY <1>1, <1>2 DEF FlushInv, PendInv
<1>5. ASSUME ~cancelled PROVE (\A p \in Partition : TokenInv(p)') /\ DoneInv' /\ ToldInv'
  <2>1. ASSUME NEW p \in Partition PROVE TokenInv(p)'
    <3>1. Tokens(p)' = Tokens(p) /\ Flushers(p)' = Flushers(p)
      BY <1>1, <1>2 DEF Tokens, Flushers
    <3> QED
      BY <1>1, <1>2, <1>5, <3>1, TokenOf DEF TokenInv
  <2>2. DoneInv' /\ ToldInv'
    BY <1>1, <1>5 DEF FlushInv, DoneInv, ToldInv, LookedAtBefore
  <2> QED
    BY <2>1, <2>2
<1> QED
  BY <1>1, <1>3, <1>4, <1>5 DEF FlushInv

LEMMA PushBeginFlush ==
    ASSUME OffsetInv, FlushInv, NEW u \in User, NEW o \in Partition, PushBegin(u, o)
    PROVE  FlushInv'
<1>0. /\ user \in [User -> UserType] /\ future \in [Record -> Int] /\ place \in [Record -> Partition]
      /\ next \in Nat /\ Record \subseteq Nat
  BY RecordNat DEF OffsetInv, TypeOK
<1>1. /\ UNCHANGED <<queue, events, task, error, order, future, told, forgiven, cancelled, ended>>
      /\ ~ended /\ next \in Record /\ \A v \in User : user[v].pc = "idle"
  BY DEF PushBegin
<1>2. future[next] = None
  BY <1>0, <1>1 DEF OffsetInv, PushInv
<1>3. \A v \in User : user'[v].pc \in {"idle", "push"}
  BY <1>0, <1>1 DEF PushBegin
<1>4. \A r \in Record : r # next => place'[r] = place[r]
  BY <1>0, <1>1 DEF PushBegin
<1>5. \A p : (Clean(p)' <=> Clean(p)) /\ Held(p)' = Held(p) /\ (Working(p)' <=> Working(p))
  BY <1>1, SameQueues
<1>6. FlushType' /\ UserInv'
  BY <1>1, <1>3 DEF FlushInv, FlushType, UserInv
<1>7. PendInv'
  <2> SUFFICES ASSUME NEW r \in Record
               PROVE  /\ future[r] = Pending => \E p \in Partition :
                           place'[r] = p /\ r \in RecordsOf(queue[p]) \cup RecordsOf(Held(p))
                      /\ future[r] = Lost => r \in forgiven \/ error[place'[r]] \/ ended
                      /\ r \in forgiven => future[r] = Lost
    BY <1>1, <1>5 DEF PendInv
  <2>1. /\ future[r] = Pending => \E p \in Partition :
             place[r] = p /\ r \in RecordsOf(queue[p]) \cup RecordsOf(Held(p))
        /\ future[r] = Lost => r \in forgiven \/ error[place[r]] \/ ended
        /\ r \in forgiven => future[r] = Lost
    BY DEF FlushInv, PendInv
  <2>2. CASE r = next
    BY <1>2, <2>1, <2>2 DEF None, Pending, Lost
  <2>3. CASE r # next
    BY <1>4, <2>1, <2>3
  <2> QED
    BY <2>2, <2>3
<1>8. ASSUME ~cancelled PROVE (\A p \in Partition : TokenInv(p)') /\ DoneInv' /\ ToldInv'
  <2>1. ASSUME NEW p \in Partition PROVE TokenInv(p)'
    <3>1. Flushers(p)' = {} /\ Flushers(p) = {}
      BY <1>1, <1>3 DEF Flushers
    <3>2. Tokens(p)' = Tokens(p)
      BY <1>1, <1>5 DEF Tokens
    <3> QED
      BY <1>1, <1>5, <1>8, <3>1, <3>2, TokenOf DEF TokenInv
  <2>2. DoneInv'
    BY <1>3 DEF DoneInv
  <2>3. ToldInv'
    <3>1. \A r \in told : r \in Record /\ r # next
      BY <1>2, <1>8 DEF FlushInv, FlushType, ToldInv
    <3>2. \A r \in told : LookedAtBefore(r) => LookedAtBefore(r)'
      BY <1>1, <1>4, <3>1 DEF LookedAtBefore
    <3> QED
      BY <1>1, <1>8, <3>2 DEF FlushInv, ToldInv
  <2> QED
    BY <2>1, <2>2, <2>3
<1> QED
  BY <1>1, <1>6, <1>7, <1>8 DEF FlushInv

\* What push_record notifies.
LEMMA PushEvents ==
    ASSUME FlushType, NEW u \in User, NEW p \in Partition, p = user[u].part, PushRecord(u)
    PROVE  /\ events' \in [Partition -> [EventNames -> Nat]]
           /\ \A o \in Partition : events'[o].flush = events[o].flush /\ events'[o].flushed = events[o].flushed
<1> DEFINE Plain(e) == /\ e \in [Partition -> [EventNames -> Nat]]
                       /\ \A o \in Partition : e[o].flush = events[o].flush /\ e[o].flushed = events[o].flushed
<1>0. events \in [Partition -> [EventNames -> Nat]] /\ "full" \in EventNames
      /\ \A o \in Partition : events[o].flush \in Nat /\ events[o].flushed \in Nat
  BY EventTypes DEF FlushType, EventNames
<1>1. PICK r : r = user[u].rec
  OBVIOUS
<1>2. \/ events' = events
      \/ events' = Notify(p, {"new"} \cup FullIf(NewBatch(r)))
      \/ \E b : events' = Notify(p, FullIf(b))
      \/ events' = [Notify(p, {"new", "full"}) EXCEPT ![p].full = @ + Cardinality(FullIf(NewBatch(r)))]
  BY <1>1, Zenon DEF PushRecord
<1>3. ASSUME NEW kinds, kinds \subseteq {"new", "full"} PROVE Plain(Notify(p, kinds))
  <2>1. "flush" \notin kinds /\ "flushed" \notin kinds
    BY <1>3
  <2>2. /\ Notify(p, kinds) \in [Partition -> [EventNames -> Nat]]
        /\ \A o \in Partition : o # p => Notify(p, kinds)[o] = events[o]
        /\ Notify(p, kinds)[p].flush = events[p].flush + (IF "flush" \in kinds THEN 1 ELSE 0)
        /\ Notify(p, kinds)[p].flushed = events[p].flushed + (IF "flushed" \in kinds THEN 1 ELSE 0)
    BY NotifyIs
  <2>3. Notify(p, kinds)[p].flush = events[p].flush /\ Notify(p, kinds)[p].flushed = events[p].flushed
    BY <1>0, <2>1, <2>2
  <2> QED
    BY <2>2, <2>3, Zenon
<1>4. \A b : FullIf(b) \subseteq {"new", "full"} /\ Cardinality(FullIf(b)) \in Nat
  <2>1. Cardinality({}) = 0 /\ Cardinality({"full"}) = 1
    BY FS_EmptySet, FS_Singleton
  <2> QED
    BY <2>1 DEF FullIf
<1>5. ASSUME events' = [Notify(p, {"new", "full"}) EXCEPT ![p].full = @ + Cardinality(FullIf(NewBatch(r)))]
      PROVE  Plain(events')
  <2>0. PICK n \in Nat : n = Cardinality(FullIf(NewBatch(r)))
    BY <1>4
  <2>1. PICK e : e = Notify(p, {"new", "full"})
    OBVIOUS
  <2>2. Plain(e)
    BY <1>3, <2>1
  <2>3. events' = [e EXCEPT ![p].full = @ + n]
    BY <1>5, <2>0, <2>1
  <2>4. e \in [Partition -> [EventNames -> Nat]]
    BY <2>2
  <2>5. events' \in [Partition -> [EventNames -> Nat]]
    <3>0. PICK f \in [EventNames -> Nat] : f = e[p]
      BY <2>4
    <3>1. [e[p] EXCEPT !.full = @ + n] \in [EventNames -> Nat]
      <4>1. f["full"] + n \in Nat
        BY <1>0
      <4> QED
        BY <3>0, <4>1
    <3>2. events' = [e EXCEPT ![p] = [e[p] EXCEPT !.full = @ + n]]
      BY <2>3, <2>4
    <3> QED
      BY <2>4, <3>1, <3>2
  <2>6. ASSUME NEW o \in Partition PROVE events'[o].flush = e[o].flush /\ events'[o].flushed = e[o].flushed
    BY <2>3, <2>4
  <2> QED
    BY <2>2, <2>5, <2>6
<1>6. Plain(events)
  BY <1>0
<1> HIDE DEF Plain
<1>7. Plain(events')
  <2>1. ASSUME NEW b, events' = Notify(p, FullIf(b)) PROVE Plain(events')
    BY <1>3, <1>4, <2>1
  <2>2. ASSUME events' = Notify(p, {"new"} \cup FullIf(NewBatch(r))) PROVE Plain(events')
    <3>1. {"new"} \cup FullIf(NewBatch(r)) \subseteq {"new", "full"}
      BY <1>4
    <3> QED
      BY <1>3, <2>2, <3>1
  <2> QED
    BY <1>2, <1>5, <1>6, <2>1, <2>2
<1> QED
  BY <1>7 DEF Plain

LEMMA PushRecordFlush ==
    ASSUME OffsetInv, FlushInv, NEW u \in User, PushRecord(u)
    PROVE  FlushInv'
<1>1. user[u].pc = "push" /\ TypeOK /\ FlushType
  BY DEF PushRecord, OffsetInv, FlushInv
<1>0. PICK p \in Partition, r \in Record : p = user[u].part /\ r = user[u].rec
  BY <1>1 DEF OffsetInv, PushInv
<1>2. place[r] = p /\ future[r] = None /\ \A v \in User : v # u => user[v].pc # "push"
  BY <1>0, <1>1 DEF OffsetInv, PushInv
<1>3. PICK c \in Batches, N \in {{}, {r}} :
          /\ queue' = [queue EXCEPT ![p] = c]
          /\ RecordsOf(c) = RecordsOf(queue[p]) \cup N
          /\ Sorted(queue[p]) /\ (\A s \in RecordsOf(queue[p]) : s < r) => Sorted(c)
          /\ future' = IF N = {} THEN future ELSE [future EXCEPT ![r] = Pending]
  BY <1>0, <1>1, Pushed
<1>4. /\ UNCHANGED <<task, error, order, place, told, forgiven, cancelled, ended>>
      /\ user' = [user EXCEPT ![u] = Quiet]
  BY DEF PushRecord
<1>5. \A v \in User : user'[v].pc = "idle" /\ user[v].pc # "flushing"
  <2>1. user \in [User -> UserType]
    BY <1>1 DEF TypeOK
  <2>2. \A v \in User : user[v].pc \in {"idle", "push"}
    BY <1>1 DEF FlushInv, UserInv
  <2> QED
    BY <1>2, <1>4, <2>1, <2>2 DEF Quiet
<1>6. /\ queue'[p] = c /\ \A o \in Partition : o # p => queue'[o] = queue[o]
  BY <1>1, <1>3 DEF TypeOK
<1>7. /\ \A s \in Record : s \notin N => future'[s] = future[s]
      /\ \A s \in N : s = r /\ future'[s] = Pending
  BY <1>1, <1>3 DEF TypeOK
<1>8. /\ events' \in [Partition -> [EventNames -> Nat]]
      /\ \A o \in Partition : events'[o].flush = events[o].flush /\ events'[o].flushed = events[o].flushed
  BY <1>0, <1>1, PushEvents
<1>9. FlushType' /\ UserInv'
  <2>1. FlushType'
    BY <1>1, <1>4, <1>8 DEF FlushType
  <2>2. UserInv'
    BY <1>5 DEF UserInv
  <2> QED
    BY <1>4, <2>1, <2>2 DEF FlushInv
<1>10. \A o : Held(o)' = Held(o) /\ (Working(o)' <=> Working(o))
  BY <1>4 DEF Held, Working
<1>11. PendInv'
  <2> SUFFICES ASSUME NEW s \in Record
               PROVE  /\ future'[s] = Pending => \E o \in Partition :
                           place[s] = o /\ s \in RecordsOf(queue'[o]) \cup RecordsOf(Held(o))
                      /\ future'[s] = Lost => s \in forgiven \/ error[place[s]] \/ ended
                      /\ s \in forgiven => future'[s] = Lost
    BY <1>4, <1>10 DEF PendInv
  <2>1. /\ future[s] = Pending => \E o \in Partition :
             place[s] = o /\ s \in RecordsOf(queue[o]) \cup RecordsOf(Held(o))
        /\ future[s] = Lost => s \in forgiven \/ error[place[s]] \/ ended
        /\ s \in forgiven => future[s] = Lost
    BY DEF FlushInv, PendInv
  <2>2. CASE s \in N
    <3>1. s = r /\ future'[s] = Pending /\ s \in RecordsOf(queue'[p])
      BY <1>3, <1>6, <1>7, <2>2
    <3>2. s \notin forgiven
      BY <1>2, <2>1, <3>1 DEF None, Lost
    <3> QED
      BY <1>2, <3>1, <3>2 DEF Lost, Pending
  <2>3. CASE s \notin N
    <3>1. \A o \in Partition : RecordsOf(queue[o]) \subseteq RecordsOf(queue'[o])
      BY <1>3, <1>6
    <3> QED
      BY <1>7, <2>1, <2>3, <3>1
  <2> QED
    BY <2>2, <2>3
<1>12. ASSUME ~cancelled PROVE (\A o \in Partition : TokenInv(o)') /\ DoneInv' /\ ToldInv'
  <2>1. ASSUME NEW o \in Partition PROVE TokenInv(o)'
    <3>1. events[o].flush = 0 /\ events[o].flushed = 0 /\ ~Working(o)
      BY <1>5, <1>12, NoFlushers
    <3>2. Flushers(o)' = {}
      BY <1>5 DEF Flushers
    <3>3. events'[o].flush = 0 /\ events'[o].flushed = 0 /\ ~Working(o)'
      BY <1>8, <1>10, <3>1
    <3>4. Tokens(o)' = 0 /\ Cardinality({}) = 0
      BY <3>3, FS_EmptySet DEF Tokens
    <3> QED
      BY <3>2, <3>3, <3>4 DEF TokenInv, Working
  <2>2. DoneInv'
    BY <1>5 DEF DoneInv
  <2>3. ToldInv'
    <3>1. \A s \in told : s \in Record /\ future[s] # None
      BY <1>1, <1>12 DEF FlushInv, FlushType, ToldInv
    <3>2. \A s \in told : future'[s] = future[s]
      BY <1>2, <1>7, <3>1
    <3> QED
      BY <1>4, <1>12, <3>2 DEF FlushInv, ToldInv, LookedAtBefore
  <2> QED
    BY <2>1, <2>2, <2>3
<1> QED
  BY <1>4, <1>9, <1>11, <1>12 DEF FlushInv

LEMMA FlushBeginFlush ==
    ASSUME OffsetInv, FlushInv, NEW u \in User, FlushBegin(u)
    PROVE  FlushInv'
<1>0. user \in [User -> UserType]
  BY DEF OffsetInv, TypeOK
<1>1. /\ UNCHANGED <<queue, events, task, error, order, place, future, told, forgiven, cancelled, ended>>
      /\ ~ended /\ \A v \in User : user[v].pc # "push"
      /\ user[u].pc = "idle"
  BY DEF FlushBegin, Quiet
<1>2. user'[u].pc = "flush" /\ user'[u].part = 1 /\ \A v \in User : v # u => user'[v] = user[v]
  BY <1>0 DEF FlushBegin
<1>3. \A p : (Clean(p)' <=> Clean(p)) /\ Held(p)' = Held(p) /\ (Working(p)' <=> Working(p))
  BY <1>1, SameQueues
<1>4. UserInv'
  BY <1>1, <1>2 DEF UserInv
<1>5. FlushType' /\ PendInv'
  BY <1>1, <1>3 DEF FlushInv, FlushType, PendInv
<1>6. ASSUME ~cancelled PROVE (\A p \in Partition : TokenInv(p)') /\ DoneInv' /\ ToldInv'
  <2>1. ASSUME NEW p \in Partition PROVE TokenInv(p)'
    <3>1. Flushers(p)' = Flushers(p)
      BY <1>1, <1>2 DEF Flushers
    <3>2. Tokens(p)' = Tokens(p)
      BY <1>1, <1>3 DEF Tokens
    <3> QED
      BY <1>1, <1>3, <1>6, <3>1, <3>2, TokenOf DEF TokenInv
  <2>2. DoneInv'
    <3> SUFFICES ASSUME NEW v \in User, user'[v].pc \in {"flush", "flushing"},
                        NEW n, n = user'[v].part - 1, NEW k \in 1 .. n
                 PROVE  Done(k, n)'
      BY DEF DoneInv
    <3>1. v # u
      BY <1>2
    <3>2. Done(k, n)
      BY <1>2, <1>6, <3>1 DEF FlushInv, DoneInv
    <3> QED
      BY <1>1, <3>2, SameDone
  <2>3. ToldInv'
    BY <1>1, <1>6 DEF FlushInv, ToldInv, LookedAtBefore
  <2> QED
    BY <2>1, <2>2, <2>3
<1> QED
  BY <1>1, <1>4, <1>5, <1>6 DEF FlushInv

LEMMA FlushNotifyFlush ==
    ASSUME OffsetInv, FlushInv, NEW u \in User, FlushNotify(u)
    PROVE  FlushInv'
<1>0. user \in [User -> UserType] /\ FlushType
  BY DEF OffsetInv, TypeOK, FlushInv
<1>1. /\ UNCHANGED <<queue, task, error, order, place, future, told, forgiven, cancelled, ended>>
      /\ user[u].pc = "flush"
  BY DEF FlushNotify
<1>2. /\ user'[u].pc = "flushing" /\ user'[u].part = user[u].part
      /\ \A v \in User : v # u => user'[v] = user[v]
  BY <1>0 DEF FlushNotify, UserType
<1>3. PICK p \in Partition : p = order[1][user[u].part]
  <2>1. user[u].part \in 1 .. Cardinality(Partition)
    BY <1>1 DEF OffsetInv, StageInv
  <2> QED
    BY <1>0, <2>1, OrderType
<1>4. /\ events' \in [Partition -> [EventNames -> Nat]]
      /\ \A o \in Partition : o # p => events'[o] = events[o]
      /\ events'[p].flush = events[p].flush + 1 /\ events'[p].flushed = events[p].flushed
  <2>1. events' = Notify(p, {"flush"})
    BY <1>3 DEF FlushNotify
  <2>2. events[p].flush \in Nat /\ events[p].flushed \in Nat
    BY <1>0, EventTypes
  <2> QED
    BY <1>0, <2>1, <2>2, NotifyIs
<1>5. \A o : (Clean(o)' <=> Clean(o)) /\ Held(o)' = Held(o) /\ (Working(o)' <=> Working(o))
  BY <1>1, SameQueues
<1>6. UserInv'
  BY <1>1, <1>2 DEF FlushInv, UserInv
<1>7. FlushType' /\ PendInv'
  BY <1>1, <1>4, <1>5 DEF FlushInv, FlushType, PendInv
<1>8. ASSUME ~cancelled PROVE (\A o \in Partition : TokenInv(o)') /\ DoneInv' /\ ToldInv'
  <2>1. ASSUME NEW o \in Partition, o # p PROVE TokenInv(o)'
    <3>1. Flushers(o)' = Flushers(o)
      BY <1>1, <1>2, <1>3, <2>1 DEF Flushers
    <3>2. Tokens(o)' = Tokens(o)
      BY <1>4, <1>5, <2>1 DEF Tokens
    <3> QED
      BY <1>1, <1>4, <1>5, <1>8, <2>1, <3>1, <3>2, TokenOf DEF TokenInv
  <2>2. TokenInv(p)'
    <3>1. Flushers(p)' = Flushers(p) \cup {u} /\ u \notin Flushers(p)
      BY <1>1, <1>2, <1>3 DEF Flushers
    <3>2. Cardinality(Flushers(p)') = Cardinality(Flushers(p)) + 1
      BY <3>1, FlushersFinite, FS_AddElement
    <3>3. events[p].flush \in Nat /\ events[p].flushed \in Nat
      BY <1>0, EventTypes
    <3>4. Tokens(p)' = Tokens(p) + 1
      BY <1>4, <1>5, <3>3 DEF Tokens
    <3> QED
      BY <1>1, <1>4, <1>5, <1>8, <3>2, <3>4, TokenOf DEF TokenInv
  <2>3. DoneInv'
    <3> SUFFICES ASSUME NEW v \in User, user'[v].pc \in {"flush", "flushing"},
                        NEW n, n = user'[v].part - 1, NEW k \in 1 .. n
                 PROVE  Done(k, n)'
      BY DEF DoneInv
    <3>1. user[v].pc \in {"flush", "flushing"} /\ user'[v].part = user[v].part
      BY <1>1, <1>2
    <3>2. Done(k, n)
      BY <1>8, <3>1 DEF FlushInv, DoneInv
    <3> QED
      BY <1>1, <3>2, SameDone
  <2>4. ToldInv'
    BY <1>1, <1>8 DEF FlushInv, ToldInv, LookedAtBefore
  <2> QED
    BY <2>1, <2>2, <2>3, <2>4
<1> QED
  BY <1>1, <1>6, <1>7, <1>8 DEF FlushInv

LEMMA CancelFlush ==
    ASSUME OffsetInv, FlushInv, NEW u \in User, FlushCancel(u)
    PROVE  FlushInv'
<1>0. user \in [User -> UserType]
  BY DEF OffsetInv, TypeOK
<1>1. /\ UNCHANGED <<queue, events, task, error, order, place, future, told, forgiven, ended>>
      /\ cancelled'
  BY DEF FlushCancel
<1>2. user'[u].pc = "idle" /\ \A v \in User : v # u => user'[v] = user[v]
  BY <1>0 DEF FlushCancel, Quiet
<1>3. \A p : Held(p)' = Held(p)
  BY <1>1, SameQueues
<1>4. UserInv'
  BY <1>1, <1>2 DEF FlushInv, UserInv
<1>5. FlushType' /\ PendInv'
  BY <1>1, <1>3 DEF FlushInv, FlushType, PendInv
<1> QED
  BY <1>1, <1>4, <1>5 DEF FlushInv

LEMMA ClearFlush ==
    ASSUME OffsetInv, FlushInv, NEW u \in User, ClearErrors(u)
    PROVE  FlushInv'
<1>1. /\ UNCHANGED <<queue, events, task, order, user, place, future, told, cancelled, ended>>
      /\ error' = [p \in Partition |-> FALSE] /\ forgiven' = {r \in Record : future[r] = Lost}
  BY DEF ClearErrors
<1>2. \A p : (Clean(p)' <=> Clean(p)) /\ Held(p)' = Held(p) /\ (Working(p)' <=> Working(p))
  BY <1>1, SameQueues
<1>3. FlushType' /\ UserInv'
  BY <1>1 DEF FlushInv, FlushType, UserInv
<1>4. PendInv'
  BY <1>1, <1>2 DEF FlushInv, PendInv
<1>5. ASSUME ~cancelled PROVE (\A p \in Partition : TokenInv(p)') /\ DoneInv' /\ ToldInv'
  <2>1. ASSUME NEW p \in Partition PROVE TokenInv(p)'
    <3>1. Tokens(p)' = Tokens(p) /\ Flushers(p)' = Flushers(p)
      BY <1>1, <1>2 DEF Tokens, Flushers
    <3> QED
      BY <1>1, <1>2, <1>5, <3>1, TokenOf DEF TokenInv
  <2>2. DoneInv'
    <3>1. \A p : Honest(p)'
      BY <1>1 DEF Honest
    <3> QED
      BY <1>1, <1>2, <1>5, <3>1 DEF FlushInv, DoneInv, Done
  <2>3. ToldInv'
    BY <1>1, <1>5 DEF FlushInv, FlushType, ToldInv, LookedAtBefore
  <2> QED
    BY <2>1, <2>2, <2>3
<1> QED
  BY <1>1, <1>3, <1>4, <1>5 DEF FlushInv

\* A partition is flushed, and its error is looked at: its records are
\* answered, or their loss is known.
LEMMA FlushNextFlush ==
    ASSUME OffsetInv, FlushInv, NEW u \in User, FlushNext(u)
    PROVE  FlushInv'
<1>0. /\ user \in [User -> UserType] /\ FlushType /\ Cardinality(Partition) \in Nat \ {0}
      /\ place \in [Record -> Partition]
  BY PartsType DEF OffsetInv, TypeOK, FlushInv
<1>1. /\ UNCHANGED <<queue, task, error, order, place, future, forgiven, cancelled, ended>>
      /\ user[u].pc = "flushing"
  BY DEF FlushNext
<1>2. PICK i \in 1 .. Cardinality(Partition) : i = user[u].part
  BY <1>1 DEF OffsetInv, StageInv
<1>3. PICK p \in Partition : p = order[1][i]
  BY <1>0, OrderType
<1>4. PICK q \in Partition : q = order[2][i]
  BY <1>0, OrderType
<1>5. /\ events[p].flushed > 0
      /\ events' = [events EXCEPT ![p].flushed = @ - 1]
      /\ user' = [user EXCEPT ![u] = IF error[q] \/ i = Cardinality(Partition) THEN Quiet
                                     ELSE [pc |-> "flush", rec |-> 0, part |-> i + 1]]
      /\ told' = IF ~error[q] /\ i = Cardinality(Partition)
                 THEN {r \in Record : future[r] # None} ELSE told
  BY <1>2, <1>3, <1>4 DEF FlushNext
<1>6. /\ events' \in [Partition -> [EventNames -> Nat]]
      /\ \A o \in Partition : o # p => events'[o] = events[o]
      /\ events'[p].flush = events[p].flush /\ events'[p].flushed = events[p].flushed - 1
  <2>1. "flushed" \in EventNames /\ events[p]["flushed"] > 0 /\ events' = [events EXCEPT ![p]["flushed"] = @ - 1]
    BY <1>5 DEF EventNames
  <2>2. events[p].flush \in Nat /\ events[p].flushed \in Nat
    BY <1>0, EventTypes
  <2>3. /\ events' \in [Partition -> [EventNames -> Nat]]
        /\ \A o \in Partition : o # p => events'[o] = events[o]
        /\ events'[p].flush = events[p].flush - (IF "flushed" = "flush" THEN 1 ELSE 0)
        /\ events'[p].flushed = events[p].flushed - (IF "flushed" = "flushed" THEN 1 ELSE 0)
    BY <1>0, <2>1, TakeEvent
  <2> QED
    BY <2>2, <2>3
<1>7. /\ user'[u].pc \in {"idle", "flush"}
      /\ user'[u].pc = "flush" => ~error[q] /\ user'[u].part = i + 1
      /\ \A v \in User : v # u => user'[v] = user[v]
  BY <1>0, <1>5 DEF Quiet
<1>8. \A o : (Clean(o)' <=> Clean(o)) /\ Held(o)' = Held(o) /\ (Working(o)' <=> Working(o))
  BY <1>1, SameQueues
<1>9. UserInv'
  <2>1. ~ended /\ \A v \in User : user[v].pc # "push"
    BY <1>1 DEF FlushInv, UserInv
  <2> QED
    BY <1>1, <1>7, <2>1 DEF UserInv
<1>10. PendInv'
  BY <1>1, <1>8 DEF FlushInv, PendInv
<1>11. FlushType'
  BY <1>0, <1>1, <1>5, <1>6 DEF FlushType
<1>12. ASSUME ~cancelled PROVE (\A o \in Partition : TokenInv(o)') /\ DoneInv' /\ ToldInv'
  <2>1. ASSUME NEW o \in Partition, o # p PROVE TokenInv(o)'
    <3>1. Flushers(o)' = Flushers(o)
      BY <1>1, <1>2, <1>3, <1>7, <2>1 DEF Flushers
    <3>2. Tokens(o)' = Tokens(o)
      BY <1>6, <1>8, <2>1 DEF Tokens
    <3> QED
      BY <1>1, <1>6, <1>8, <1>12, <2>1, <3>1, <3>2, TokenOf DEF TokenInv
  <2>2. Clean(p)
    BY <1>5, <1>12, TokenOf DEF TokenInv
  <2>3. TokenInv(p)'
    <3>1. Flushers(p)' = Flushers(p) \ {u} /\ u \in Flushers(p)
      BY <1>1, <1>2, <1>3, <1>7 DEF Flushers
    <3>2. Cardinality(Flushers(p)') = Cardinality(Flushers(p)) - 1
      BY <3>1, FlushersFinite, FS_RemoveElement
    <3>3. events[p].flush \in Nat /\ events[p].flushed \in Nat
      BY <1>0, EventTypes
    <3>4. Tokens(p)' = Tokens(p) - 1
      BY <1>6, <1>8, <3>3 DEF Tokens
    <3> QED
      BY <1>1, <1>8, <1>12, <2>2, <3>2, <3>4, TokenOf DEF TokenInv
  <2>4. ASSUME ~error[q] PROVE Honest(q)
    <3>1. ~ended
      BY <1>1 DEF FlushInv, UserInv
    <3> QED
      BY <2>4, <3>1 DEF FlushInv, PendInv, Honest
  <2>5. ASSUME ~error[q], NEW k \in 1 .. i PROVE Done(k, i)
    <3>1. CASE k = i
      <4>1. Looked(k, i) => order[1][k] = q
        BY <1>2, <1>4, <3>1 DEF Looked
      <4> QED
        BY <1>3, <2>2, <2>4, <2>5, <3>1, <4>1 DEF Done
    <3>2. CASE k # i
      <4>1. k \in 1 .. user[u].part - 1
        BY <1>2, <2>5, <3>2
      <4>2. Done(k, i - 1)
        BY <1>1, <1>2, <1>12, <4>1 DEF FlushInv, DoneInv
      <4>3. Looked(k, i) => Looked(k, i - 1) \/ order[1][k] = q
        BY <1>2, <1>4 DEF Looked
      <4> QED
        BY <2>4, <2>5, <4>2, <4>3 DEF Done
    <3> QED
      BY <3>1, <3>2
  <2>6. DoneInv'
    <3> SUFFICES ASSUME NEW v \in User, user'[v].pc \in {"flush", "flushing"},
                        NEW n, n = user'[v].part - 1, NEW k \in 1 .. n
                 PROVE  Done(k, n)'
      BY DEF DoneInv
    <3>1. Done(k, n)
      <4>1. CASE v = u
        <5>1. k \in 1 .. i /\ ~error[q] /\ n = i
          BY <1>7, <4>1
        <5> QED
          BY <2>5, <5>1
      <4>2. CASE v # u
        BY <1>7, <1>12, <4>2 DEF FlushInv, DoneInv
      <4> QED
        BY <4>1, <4>2
    <3> QED
      BY <1>1, <3>1, SameDone
  <2>7. ToldInv'
    <3>1. CASE ~error[q] /\ i = Cardinality(Partition)
      <4> SUFFICES ASSUME NEW r \in Record, future[r] # None
                   PROVE  future[r] # Pending /\ (future[r] = Lost => r \in forgiven \/ LookedAtBefore(r))
        BY <1>1, <1>5, <3>1 DEF ToldInv, LookedAtBefore
      <4>1. PICK o \in Partition : o = place[r]
        BY <1>0
      <4>2. PICK k \in 1 .. i : order[1][k] = o
        BY <1>0, <3>1, OrderType
      <4>5. PICK m \in 1 .. i : order[2][m] = o
        BY <1>0, <3>1, OrderType
      <4>3. Clean(o) /\ (k <= m => Honest(o))
        <5>1. Done(k, i)
          BY <2>5, <3>1
        <5>2. k <= m => Looked(k, i)
          BY <4>2, <4>5 DEF Looked
        <5> QED
          BY <4>2, <5>1, <5>2 DEF Done
      <4>6. m < k => LookedAtBefore(r)
        <5>1. DOMAIN order[1] = 1 .. i
          BY <1>0, <3>1, OrderType
        <5> QED
          BY <4>1, <4>2, <4>5, <5>1 DEF LookedAtBefore
      <4>4. future[r] # Pending
        BY <4>1, <4>3 DEF FlushInv, PendInv, Clean
      <4> QED
        BY <4>1, <4>3, <4>4, <4>6 DEF Honest
    <3>2. CASE ~(~error[q] /\ i = Cardinality(Partition))
      BY <1>1, <1>5, <1>12, <3>2 DEF FlushInv, ToldInv, LookedAtBefore
    <3> QED
      BY <3>1, <3>2
  <2> QED
    BY <2>1, <2>3, <2>6, <2>7
<1> QED
  BY <1>1, <1>9, <1>10, <1>11, <1>12 DEF FlushInv

LEMMA FlushStep ==
    ASSUME Semantic = "AtLeastOnce", OffsetInv, FlushInv, [Next]_vars
    PROVE  FlushInv'
<1>1. CASE UNCHANGED vars
  <2>1. PICK p \in Partition : TRUE
    BY ProducerAssumption
  <2> QED
    BY <1>1, <2>1, OtherFlush
<1>2. CASE DropProducer
  BY <1>2, DropFlush
<1>3. ASSUME NEW u \in User, NEW p \in Partition, PushBegin(u, p) PROVE FlushInv'
  BY <1>3, PushBeginFlush
<1>4. ASSUME NEW u \in User,
             \/ PushRecord(u) \/ FlushBegin(u) \/ FlushNotify(u) \/ FlushNext(u)
             \/ FlushCancel(u) \/ ClearErrors(u)
      PROVE  FlushInv'
  BY <1>4, PushRecordFlush, FlushBeginFlush, FlushNotifyFlush, FlushNextFlush, CancelFlush, ClearFlush
<1>5. ASSUME NEW p \in Partition, Task(p) PROVE FlushInv'
  <2>1. CASE OnEvent(p, "flush") \/ OnEvent(p, "full")
    BY <2>1, EventFlush
  <2>2. CASE OnEnd(p) \/ OnNewBatch(p) \/ OnLinger(p)
    BY <2>2, EndFlush, NewBatchFlush, LingerFlush
  <2>3. CASE SendReady(p) \/ OnReply(p) \/ GiveUp(p) \/ Finish(p)
    BY <2>3, SendFlush, ReplyFlush, GiveUpFlush, FinishFlush
  <2> QED
    BY <1>5, <2>1, <2>2, <2>3 DEF Task
<1>6. ASSUME NEW p \in Partition, Retry(p) \/ SpuHandles(p) \/ LoseRequest(p) PROVE FlushInv'
  BY <1>6, OtherFlush
<1>7. ASSUME NEW p \in Partition, Age(p) PROVE FlushInv'
  BY <1>7, AgeFlush
<1> QED
  BY <1>1, <1>2, <1>3, <1>4, <1>5, <1>6, <1>7 DEF Next

\* When flush_all_batches returns Ok, every record sent before has its answer,
\* and none was lost that no error told of, but of a partition whose error is
\* looked at before it is flushed, however calls of flush overlap with each
\* other, with the other branches of the tasks and with clear_errors, for any
\* orders of the maps flush_events and errors.
THEOREM FlushReportsTheorem ==
    ASSUME Semantic = "AtLeastOnce"
    PROVE  Spec => []FlushReports
<1>1. FlushInv /\ OffsetInv /\ [Next]_vars => FlushInv'
  BY FlushStep
<1>2. FlushInv => FlushReports
  BY DEF FlushInv, ToldInv, FlushReports
<1> QED
  BY <1>1, <1>2, FlushInit, OffsetInvariant, PTL DEF Spec

=============================================================================
