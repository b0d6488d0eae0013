------------------------- MODULE StreamFetchProofs --------------------------
(***************************************************************************)
(* No consumer's stream skips a batch, for any log, any SmartModule and    *)
(* any bounds, in the two cases in which the code promises it: a stream    *)
(* without a SmartModule, over any number of segments, and one with a      *)
(* SmartModule that starts in the last segment and whose output always has *)
(* room for one batch.  (Run skipped shows that the second condition is    *)
(* needed; the third is, because send_back_records takes an output that is *)
(* empty for one of which nothing passed.)                                 *)
(***************************************************************************)
EXTENDS StreamFetch, TLAPS, SequenceTheorems, WellFoundedInduction

\* The streams the theorem is about.
InLastSegment == \A b \in SegmentBase : b <= start

Covered == smart => InLastSegment /\ Big \cap Passing = {}

-----------------------------------------------------------------------------
(* Definitions of the invariant. *)

\* Offsets of a stream that starts at s.
From(s) == {o \in Nat : s <= o}

ResponseType(s) == [batches : SUBSET Nat, next : From(s) \cup {None}, error : BOOLEAN]

StreamTypes ==
    /\ smart \in BOOLEAN /\ start \in Nat /\ end \in From(start)
    /\ ack \in From(start) \cup {INIT_OFFSET, TOPIC_DELETED}
    /\ from \in From(start) /\ lastKnown \in From(start) \cup {None}
    /\ responses \in Seq(ResponseType(start)) /\ acks \in Seq(From(start))
    /\ failed \in BOOLEAN

\* The batches contain whatever passes from s up to o.
Has(batches, sm, s, o) ==
    \A x \in Nat : s <= x /\ x < o /\ (sm => x \in Passing) => x \in batches

\* A response that may be answered with its offset: with the batches of it,
\* the consumer has everything below, unless it reports an error.
Honest(r, batches, sm, s) ==
    r.error \/ r.next = None \/ Has(batches \cup r.batches, sm, s, r.next)

\* Every offset that the handler may go on from, now or after a wake-up, was
\* reached by the consumer.
Reached ==
    /\ Has(received, smart, start, from) /\ Has(received, smart, start, ack)
    /\ lastKnown # None => Has(received, smart, start, lastKnown)
    /\ \A i \in 1 .. Len(acks) : Has(received, smart, start, acks[i])
    /\ \A i \in 1 .. Len(responses) : Honest(responses[i], received, smart, start)

StreamInv ==
    /\ StreamTypes
    /\ received \subseteq sent
    /\ \A i \in 1 .. Len(responses) : responses[i].batches \subseteq sent
    /\ Covered => failed \/ Reached

-----------------------------------------------------------------------------
(* Reading. *)

\* A set of naturals that is not empty has a least element, and Min finds it.
LEMMA MinIsLeast ==
    ASSUME NEW T \in SUBSET Nat, T # {}
    PROVE  Min(T) \in T /\ \A y \in T : Min(T) <= y
<1>1. PICK x \in T : \A y \in T : ~(<<y, x>> \in OpToRel(<, Nat))
  BY NatLessThanWellFounded, WFMin, Zenon
<1>2. \A y \in T : ~(y < x)
  BY <1>1 DEF OpToRel
<1>3. \A y \in T : x <= y
  BY <1>2
<1> QED
  BY <1>3 DEF Min

\* A slice ends in the log, at its end if the offset is in the last segment.
LEMMA SliceEndIsEnd ==
    ASSUME StreamTypes, NEW s \in From(start)
    PROVE  /\ SliceEnd(s) \in Nat /\ SliceEnd(s) <= end
           /\ InLastSegment => SliceEnd(s) = end
<1> DEFINE T == {end} \cup {b \in SegmentBase : b > s}
<1>1. T \in SUBSET Nat /\ T # {} /\ end \in T
  BY StreamAssumption DEF StreamTypes, From
<1>2. Min(T) \in T /\ \A y \in T : Min(T) <= y
  BY <1>1, MinIsLeast
<1>3. InLastSegment => T = {end}
  <2> SUFFICES ASSUME InLastSegment, NEW b \in SegmentBase, b > s
               PROVE  FALSE
    OBVIOUS
  <2>1. b \in Nat /\ s \in Nat /\ start \in Nat /\ start <= s /\ b <= start
    BY StreamAssumption DEF StreamTypes, From, InLastSegment
  <2> QED
    BY <2>1
<1> HIDE DEF T
<1>4. InLastSegment => Min(T) = end
  BY <1>2, <1>3
<1>5. Min(T) \in Nat /\ Min(T) <= end
  BY <1>1, <1>2
<1> QED
  BY <1>4, <1>5 DEF T, SliceEnd

\* What passes below m passes below s, or from s on.
LEMMA SendableSplit ==
    ASSUME start \in Nat, NEW s \in Nat, NEW m \in Nat, NEW B,
           Has(B, smart, start, s), Sendable(s, m) \subseteq B
    PROVE  Has(B, smart, start, m)
  BY DEF Has, Sendable, Passes

\* The invariant speaks of Sendable, as the handler does.
LEMMA HasSendable ==
    ASSUME start \in Nat, NEW o \in Int, NEW B, Has(B, smart, start, o)
    PROVE  Sendable(start, o) \subseteq B
  BY DEF Has, Sendable, Passes

\* More batches contain as much.
LEMMA HasMore ==
    ASSUME NEW B, NEW C, B \subseteq C, NEW sm, NEW s, NEW o, Has(B, sm, s, o)
    PROVE  Has(C, sm, s, o)
  BY DEF Has

\* Where a response may end.
LEMMA EndsOf ==
    ASSUME StreamTypes,
           NEW m \in IF smart THEN SmartEnds(from) ELSE RawEnds(from) \cup ({from} \cap {end})
    PROVE  m \in From(start) /\ m <= end /\ from <= m
<1>1. from \in Nat /\ end \in Nat /\ start \in Nat /\ start <= from /\ start <= end
  BY DEF StreamTypes, From
<1>2. SliceEnd(from) \in Nat /\ SliceEnd(from) <= end
  BY SliceEndIsEnd DEF StreamTypes
<1>3. m \in from .. SliceEnd(from) \/ (m = from /\ m = end)
  BY DEF SmartEnds, RawEnds
<1> QED
  BY <1>1, <1>2, <1>3 DEF From

\* The response has its type, and is honest if the handler starts from an
\* offset the consumer has reached.
LEMMA ResponseIsHonest ==
    ASSUME StreamTypes,
           NEW m \in IF smart THEN SmartEnds(from) ELSE RawEnds(from) \cup ({from} \cap {end})
    PROVE  LET r == Response(from, m)
           IN  /\ r \in ResponseType(start) /\ r.batches = Sendable(from, m)
               /\ (Covered /\ Has(received, smart, start, from) /\ (smart => r.batches # {} \/ r.error))
                    => Honest(r, received, smart, start)
<1> DEFINE r == Response(from, m)
<1>1. from \in From(start) /\ end \in From(start) /\ start \in Nat /\ smart \in BOOLEAN
  BY DEF StreamTypes
<1>2. m \in From(start)
  BY EndsOf
<1>3. /\ r.batches = Sendable(from, m)
      /\ r.next = IF ~smart THEN IF m = from THEN None ELSE m
                  ELSE IF Sendable(from, m) # {} THEN m ELSE end
  BY DEF Response
<1>4. r \in ResponseType(start)
  <2>1. Sendable(from, m) \in SUBSET Nat
    BY <1>1, <1>2 DEF Sendable, From
  <2>2. \A x : (smart /\ x) \in BOOLEAN
    BY <1>1
  <2> QED
    BY <1>1, <1>2, <2>1 DEF Response, ResponseType
<1>5. ASSUME Has(received, smart, start, from), smart => r.batches # {} \/ r.error
      PROVE  Honest(r, received, smart, start)
  <2>1. CASE r.error \/ r.next = None
    BY <2>1 DEF Honest
  <2>2. CASE r.next = m
    <3>1. Has(received \cup r.batches, smart, start, from) /\ Sendable(from, m) \subseteq received \cup r.batches
      BY <1>3, <1>5, HasMore
    <3>2. Has(received \cup r.batches, smart, start, m)
      <4> HIDE DEF r
      <4> QED
        BY <1>1, <1>2, <3>1, SendableSplit DEF From
    <3> QED
      BY <2>2, <3>2 DEF Honest
  <2> QED
    <3> HIDE DEF r
    <3> QED  BY <1>3, <1>5, <2>1, <2>2
<1> QED
  BY <1>3, <1>4, <1>5

\* If nothing is sent and no error reported, nothing passes up to the end.
LEMMA NothingToSend ==
    ASSUME StreamTypes, Covered,
           NEW m \in IF smart THEN SmartEnds(from) ELSE RawEnds(from) \cup ({from} \cap {end}),
           ~Outcome(from, m).wait, Has(received, smart, start, from)
    PROVE  Has(received, smart, start, Outcome(from, m).offset)
<1>1. from \in Nat /\ end \in Nat /\ start \in Nat /\ start <= from /\ from \in From(start)
  BY DEF StreamTypes, From
<1>2. CASE from = SliceEnd(from)
  BY <1>2 DEF Outcome
<1>3. CASE from # SliceEnd(from)
  <2>1. /\ Outcome(from, m).offset = end
        /\ smart /\ Response(from, m).batches = {} /\ ~Response(from, m).error
    BY <1>3 DEF Outcome
  <2>2. Sendable(from, m) = {} /\ (from..(m - 1) \cup ({m} \ {SliceEnd(from)})) \cap Failing = {}
    BY <2>1 DEF Response
  <2>3. SliceEnd(from) = end /\ Big \cap Passing = {}
    BY <1>1, <2>1, SliceEndIsEnd DEF Covered
  <2>4. m \in SmartEnds(from)
    BY <2>1
  <2>5. m = end
    <3>1. m \in from .. end
      BY <2>3, <2>4 DEF SmartEnds
    <3>2. CASE m > from /\ m - 1 \in Failing
      <4>1. m - 1 \in from .. (m - 1)
        BY <1>1, <3>1, <3>2
      <4> QED
        BY <2>2, <3>2, <4>1
    <3>3. CASE Passes(m) /\ (Sendable(from, m) = {} => m \in Big)
      BY <2>1, <2>2, <2>3, <3>3 DEF Passes
    <3> QED
      BY <2>3, <2>4, <3>2, <3>3 DEF SmartEnds
  <2>6. Has(received, smart, start, end)
    BY <1>1, <2>2, <2>5, SendableSplit
  <2> QED
    BY <2>1, <2>6
<1> QED
  BY <1>2, <1>3

-----------------------------------------------------------------------------
(* The invariant holds of every state. *)

LEMMA StreamInit == Init => StreamInv
<1> SUFFICES ASSUME Init PROVE StreamInv
  OBVIOUS
<1>1. smart \in BOOLEAN /\ end \in Nat /\ start \in Nat /\ start <= end
  BY StreamAssumption DEF Init
<1>2. StreamTypes
  <2>1. responses \in Seq(ResponseType(start)) /\ acks \in Seq(From(start))
    BY EmptySeq DEF Init
  <2>2. end \in From(start) /\ from \in From(start)
    BY <1>1 DEF Init, From
  <2> QED
    BY <1>1, <2>1, <2>2 DEF Init, StreamTypes
<1>3. Has(received, smart, start, from) /\ Has(received, smart, start, ack)
  BY <1>1 DEF Init, Has, INIT_OFFSET
<1> QED
  BY <1>2, <1>3 DEF Init, StreamInv, Reached

\* A step that leaves the request, the responses and what was sent and received
\* alone, and takes every offset it knows from the offsets it knew.
LEMMA OffsetsKept ==
    ASSUME StreamInv, StreamTypes', UNCHANGED <<smart, start, responses, sent, received, failed>>,
           from' \in {from, ack, lastKnown}, from' # None,
           ack' \in {ack, TOPIC_DELETED} \cup {acks[i] : i \in 1 .. Len(acks)},
           lastKnown' \in {lastKnown, ack},
           \A i \in 1 .. Len(acks') : \E j \in 1 .. Len(acks) : acks'[i] = acks[j]
    PROVE  StreamInv'
<1>1. /\ (received \subseteq sent)'
      /\ (\A i \in 1 .. Len(responses) : responses[i].batches \subseteq sent)'
  BY DEF StreamInv
<1>2. Covered' => Covered
  BY DEF Covered, InLastSegment
<1>3. ASSUME Covered, ~failed
      PROVE  Reached'
  <2>1. Reached
    BY <1>3 DEF StreamInv
  <2>2. Has(received, smart, start, TOPIC_DELETED)
    BY DEF Has, TOPIC_DELETED, StreamInv, StreamTypes
  <2>3. Has(received, smart, start, from')
    BY <2>1 DEF Reached
  <2>4. Has(received, smart, start, ack')
    BY <2>1, <2>2 DEF Reached
  <2>5. lastKnown' # None => Has(received, smart, start, lastKnown')
    BY <2>1 DEF Reached
  <2>6. \A i \in 1 .. Len(acks') : Has(received, smart, start, acks'[i])
    BY <2>1 DEF Reached
  <2>7. \A i \in 1 .. Len(responses') : Honest(responses'[i], received', smart', start')
    BY <2>1 DEF Reached, Honest
  <2> QED
    BY <2>3, <2>4, <2>5, <2>6, <2>7 DEF Reached
<1> QED
  BY <1>1, <1>2, <1>3 DEF StreamInv

\* The handler sends from an offset the consumer has reached.
LEMMA SendStep ==
    ASSUME StreamInv, SendBackRecords
    PROVE  StreamInv'
<1> DEFINE Ends == IF smart THEN SmartEnds(from) ELSE RawEnds(from) \cup ({from} \cap {end})
<1>1. PICK m \in Ends :
        LET out == Outcome(from, m)
        IN  /\ lastKnown' = IF out.wait THEN None ELSE out.offset
            /\ responses' = IF out.wait THEN Append(responses, Response(from, m)) ELSE responses
            /\ sent' = IF out.wait THEN sent \cup Sendable(from, m) ELSE sent
  BY DEF SendBackRecords
<1> DEFINE r == Response(from, m)
           out == Outcome(from, m)
<1>2. UNCHANGED <<smart, start, end, ack, from, acks, received, failed>>
  BY DEF SendBackRecords, request, partition, consumerOffset, client
<1>3. StreamTypes
  BY DEF StreamInv
<1>4. r \in ResponseType(start) /\ r.batches = Sendable(from, m)
  BY <1>3, ResponseIsHonest
<1>5. out.offset \in From(start)
  BY <1>3 DEF Outcome, StreamTypes
<1>6. out.wait => (smart => r.batches # {} \/ r.error)
  BY DEF Outcome
<1>7. Covered /\ Has(received, smart, start, from) /\ out.wait => Honest(r, received, smart, start)
  BY <1>3, <1>6, ResponseIsHonest
<1>8. Covered /\ Has(received, smart, start, from) /\ ~out.wait
        => Has(received, smart, start, out.offset)
  BY <1>3, NothingToSend
<1>9. Covered' => Covered
  BY <1>2 DEF Covered, InLastSegment
<1> HIDE DEF r, out, Ends
<1>10. CASE out.wait
  <2>1. /\ lastKnown' = None /\ responses' = Append(responses, r)
        /\ sent' = sent \cup r.batches
    BY <1>1, <1>4, <1>10 DEF r, out
  <2>2. /\ responses' \in Seq(ResponseType(start)) /\ Len(responses') = Len(responses) + 1
        /\ \A i \in 1 .. Len(responses) : responses'[i] = responses[i]
        /\ responses'[Len(responses) + 1] = r
        /\ Len(responses) \in Nat
    BY <1>3, <1>4, <2>1, AppendProperties, LenProperties DEF StreamTypes
  <2>3. StreamTypes'
    BY <1>2, <1>3, <2>1, <2>2 DEF StreamTypes
  <2>4. \A i \in 1 .. Len(responses') : responses'[i].batches \subseteq sent'
    BY <2>1, <2>2 DEF StreamInv
  <2>5. ASSUME Covered, Reached
        PROVE  Reached'
    <3>1. \A i \in 1 .. Len(responses') : Honest(responses'[i], received, smart, start)
      BY <1>7, <1>10, <2>2, <2>5 DEF Reached
    <3> QED
      BY <1>2, <2>1, <2>5, <3>1 DEF Reached
  <2> QED
    BY <1>2, <1>9, <2>1, <2>3, <2>4, <2>5 DEF StreamInv
<1>11. CASE ~out.wait
  <2>1. lastKnown' = out.offset /\ UNCHANGED <<responses, sent>>
    BY <1>1, <1>11 DEF out
  <2>2. StreamTypes'
    BY <1>2, <1>3, <1>5, <2>1 DEF StreamTypes
  <2>3. ASSUME Covered, Reached
        PROVE  Reached'
    BY <1>2, <1>8, <1>11, <2>1, <2>3 DEF Reached
  <2> QED
    BY <1>2, <1>9, <2>1, <2>2, <2>3 DEF StreamInv
<1> QED
  BY <1>10, <1>11

\* The consumer takes a response and returns its offset.
LEMMA ReceiveStep ==
    ASSUME StreamInv, ClientReceive
    PROVE  StreamInv'
<1> DEFINE r == Head(responses)
<1>1. /\ responses # <<>> /\ responses' = Tail(responses)
      /\ received' = received \cup r.batches
      /\ failed' = (failed \/ r.error)
      /\ acks' = IF r.next = None THEN acks ELSE Append(acks, r.next)
      /\ UNCHANGED <<smart, start, end, ack, from, lastKnown, sent>>
  BY DEF ClientReceive, request, partition, consumerOffset, handler
<1>2. StreamTypes
  BY DEF StreamInv
<1>3. Len(responses) \in Nat \ {0} /\ r = responses[1] /\ r \in ResponseType(start)
  BY <1>1, <1>2, EmptySeq, HeadTailProperties DEF StreamTypes
<1>4. /\ Tail(responses) \in Seq(ResponseType(start)) /\ Len(Tail(responses)) = Len(responses) - 1
      /\ \A i \in 1 .. Len(Tail(responses)) : Tail(responses)[i] = responses[i + 1]
  BY <1>1, <1>2, HeadTailProperties DEF StreamTypes
<1>5. \A i \in 1 .. Len(responses') : \E j \in 1 .. Len(responses) : responses'[i] = responses[j]
  <2>1. \A i \in 1 .. Len(responses') : i + 1 \in 1 .. Len(responses)
    BY <1>1, <1>3, <1>4
  <2> QED
    BY <1>1, <1>4, <2>1
<1>6. /\ acks' \in Seq(From(start))
      /\ \A i \in 1 .. Len(acks') :
           \/ \E j \in 1 .. Len(acks) : acks'[i] = acks[j]
           \/ r.next # None /\ acks'[i] = r.next
  <2>1. CASE r.next = None
    BY <1>1, <1>2, <2>1 DEF StreamTypes
  <2>2. CASE r.next # None
    <3>1. r.next \in From(start)
      BY <1>3, <2>2 DEF ResponseType
    <3>2. acks' = Append(acks, r.next)
      BY <1>1, <2>2
    <3>3. /\ acks' \in Seq(From(start)) /\ Len(acks') = Len(acks) + 1 /\ Len(acks) \in Nat
          /\ \A i \in 1 .. Len(acks) : acks'[i] = acks[i]
          /\ acks'[Len(acks) + 1] = r.next
      BY <1>2, <3>1, <3>2, AppendProperties, LenProperties DEF StreamTypes
    <3> QED
      BY <2>2, <3>3
  <2> QED
    BY <2>1, <2>2
<1>7. StreamTypes'
  <2>1. failed' \in BOOLEAN
    BY <1>1, <1>2 DEF StreamTypes
  <2> QED
    BY <1>1, <1>2, <1>4, <1>6, <2>1 DEF StreamTypes
<1> HIDE DEF r
<1>8. /\ received' \subseteq sent'
      /\ \A i \in 1 .. Len(responses') : responses'[i].batches \subseteq sent'
  BY <1>1, <1>3, <1>5 DEF StreamInv
<1>9. ASSUME Reached, ~r.error
      PROVE  Reached'
  <2>1. \A o : Has(received, smart, start, o) => Has(received', smart, start, o)
    BY <1>1, HasMore
  <2>2. r.next # None => Has(received', smart, start, r.next)
    <3>1. 1 \in 1 .. Len(responses)
      BY <1>3
    <3>2. Honest(r, received, smart, start)
      BY <1>3, <1>9, <3>1 DEF Reached
    <3> QED
      BY <1>1, <1>9, <3>2 DEF Honest
  <2>3. \A i \in 1 .. Len(acks') : Has(received', smart, start, acks'[i])
    BY <1>6, <1>9, <2>1, <2>2 DEF Reached
  <2>4. \A i \in 1 .. Len(responses') : Honest(responses'[i], received', smart, start)
    <3> SUFFICES ASSUME NEW i \in 1 .. Len(responses')
                 PROVE  Honest(responses'[i], received', smart, start)
      OBVIOUS
    <3>1. Honest(responses'[i], received, smart, start)
      BY <1>5, <1>9 DEF Reached
    <3>2. received \cup responses'[i].batches \subseteq received' \cup responses'[i].batches
      BY <1>1
    <3> QED
      BY <3>1, <3>2, HasMore DEF Honest
  <2> QED
    BY <1>1, <1>9, <2>1, <2>3, <2>4 DEF Reached
<1>10. Covered' => Covered
  BY <1>1 DEF Covered, InLastSegment
<1> QED
  BY <1>1, <1>7, <1>8, <1>9, <1>10 DEF StreamInv

\* The steps that take an offset from where one was known.
LEMMA OffsetStep ==
    ASSUME StreamInv, ConsumerUpdate \/ LeaderUpdate \/ SignalTopicDeleted \/ HandleOffsetUpdate
    PROVE  StreamInv'
<1>1. StreamTypes
  BY DEF StreamInv
<1>2. \A i \in 1 .. Len(acks) : acks[i] \in From(start)
  BY <1>1, ElementOfSeq DEF StreamTypes
<1>3. CASE ConsumerUpdate
  <2>1. UNCHANGED <<smart, start, end, ack, responses, acks, sent, received, failed>>
    BY <1>3 DEF ConsumerUpdate, request, partition, consumerOffset, client
  <2>2. \/ UNCHANGED <<from, lastKnown>>
        \/ ack \in From(start) /\ lastKnown' = ack /\ UNCHANGED from
        \/ ack \in From(start) /\ from' = ack /\ UNCHANGED lastKnown
    BY <1>1, <1>3 DEF ConsumerUpdate, StreamTypes
  <2>3. StreamTypes' /\ from' # None
    BY <1>1, <2>1, <2>2 DEF StreamTypes, From, None
  <2> QED
    BY <2>1, <2>2, <2>3, OffsetsKept
<1>4. CASE LeaderUpdate
  <2>1. UNCHANGED <<smart, start, end, ack, responses, acks, sent, received, failed, lastKnown>>
    BY <1>4 DEF LeaderUpdate, request, partition, consumerOffset, client
  <2>2. \/ UNCHANGED from
        \/ lastKnown # None /\ from' = lastKnown
    BY <1>4 DEF LeaderUpdate
  <2>3. StreamTypes' /\ from' # None
    BY <1>1, <2>1, <2>2 DEF StreamTypes, From, None
  <2> QED
    BY <2>1, <2>2, <2>3, OffsetsKept
<1>5. CASE SignalTopicDeleted
  <2>1. /\ UNCHANGED <<smart, start, end, responses, acks, sent, received, failed, from, lastKnown>>
        /\ ack' \in {ack, TOPIC_DELETED}
    BY <1>5 DEF SignalTopicDeleted, request, partition, handler, client
  <2>2. StreamTypes' /\ from' # None
    BY <1>1, <2>1 DEF StreamTypes, From, None
  <2> QED
    BY <2>1, <2>2, OffsetsKept
<1>6. CASE HandleOffsetUpdate
  <2>1. /\ UNCHANGED <<smart, start, end, responses, sent, received, failed, from, lastKnown>>
        /\ acks # <<>> /\ ack' = Head(acks) /\ acks' = Tail(acks)
    BY <1>6 DEF HandleOffsetUpdate, request, partition, handler, client
  <2>2. /\ Len(acks) \in Nat \ {0} /\ Head(acks) = acks[1] /\ Tail(acks) \in Seq(From(start))
        /\ Len(Tail(acks)) = Len(acks) - 1
        /\ \A i \in 1 .. Len(Tail(acks)) : Tail(acks)[i] = acks[i + 1]
    BY <1>1, <2>1, EmptySeq, HeadTailProperties DEF StreamTypes
  <2>3. /\ ack' \in {acks[i] : i \in 1 .. Len(acks)}
        /\ \A i \in 1 .. Len(acks') : \E j \in 1 .. Len(acks) : acks'[i] = acks[j]
    <3>1. 1 \in 1 .. Len(acks) /\ \A i \in 1 .. Len(acks') : i + 1 \in 1 .. Len(acks)
      BY <2>1, <2>2
    <3> QED
      BY <2>1, <2>2, <3>1
  <2>4. StreamTypes' /\ from' # None
    BY <1>1, <1>2, <2>1, <2>2, <2>3 DEF StreamTypes, From, None
  <2> QED
    BY <2>1, <2>3, <2>4, OffsetsKept
<1> QED
  BY <1>3, <1>4, <1>5, <1>6

\* The remaining steps change nothing the invariant speaks of, except that
\* the end of the partition may grow.
LEMMA OtherStep ==
    ASSUME StreamInv,
           \/ Register \/ Wait \/ Stop \/ Advance \/ AdvanceNotify
           \/ SignalNotify \/ OffsetUpdateNotify \/ UNCHANGED vars
    PROVE  StreamInv'
<1>1. /\ UNCHANGED <<smart, start, ack, responses, acks, sent, received, failed, from, lastKnown>>
      /\ end' = end \/ end' \in (end + 1) .. MaxEnd
  BY DEF Register, Wait, Stop, Advance, AdvanceNotify, SignalNotify, OffsetUpdateNotify, vars,
         request, partition, consumerOffset, handler, client
<1>2. StreamTypes
  BY DEF StreamInv
<1>3. end' \in From(start)
  BY <1>1, <1>2, StreamAssumption DEF StreamTypes, From
<1>4. StreamTypes' /\ from' # None
  BY <1>1, <1>2, <1>3 DEF StreamTypes, From, None
<1> QED
  BY <1>1, <1>4, OffsetsKept

LEMMA StreamStep == StreamInv /\ [Next]_vars => StreamInv'
  BY SendStep, ReceiveStep, OffsetStep, OtherStep DEF Next, HandlerNext

\* Every state of a stream satisfies the invariant.
THEOREM StreamInvariant == Spec => []StreamInv
  BY StreamInit, StreamStep, PTL DEF Spec

\* "We need to send the consumer all records since the last consumer offset":
\* whatever the order of appends, returned offsets and wake-ups, nothing below
\* the offset the handler goes on from was left out, and what lies below an
\* offset the consumer returned was received.
THEOREM NothingSkippedTheorem == Spec => [](Covered => NothingSkipped)
<1>1. StreamInv => (Covered => NothingSkipped)
  <2> SUFFICES ASSUME StreamInv, Covered, ~failed
               PROVE  NothingSkipped
    BY DEF NothingSkipped
  <2>1. Reached /\ StreamTypes /\ received \subseteq sent
    BY DEF StreamInv
  <2>2. /\ start \in Nat /\ ack \in Int
        /\ lastKnown # None => lastKnown \in Int
    BY <2>1 DEF StreamTypes, From, INIT_OFFSET, TOPIC_DELETED
  <2>3. Sendable(start, ack) \subseteq received
    BY <2>1, <2>2, HasSendable DEF Reached
  <2>4. lastKnown # None => Sendable(start, lastKnown) \subseteq received
    BY <2>1, <2>2, HasSendable DEF Reached
  <2> QED
    BY <2>1, <2>3, <2>4 DEF NothingSkipped
<1> QED
  BY <1>1, StreamInvariant, PTL
=============================================================================
