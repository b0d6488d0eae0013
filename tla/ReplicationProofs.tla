------------------------- MODULE ReplicationProofs -------------------------
(***************************************************************************)
(* Proofs about Replication, for any set of followers, any batches and any *)
(* value of the bounds.                                                    *)
(***************************************************************************)
EXTENDS Replication, HighWatermarkProofs, SequenceTheorems

-----------------------------------------------------------------------------
(* compute_hw when every replica is needed. *)

\* compute_hw, asked for every follower, answers None or the least of their
\* log ends, and then that one is past the high watermark it was given.
LEMMA ComputeHwIsLeast ==
    ASSUME NEW h \in Offset, NEW leos \in [Followers -> Offset]
    PROVE  LET c == ComputeHw(h, InSyncReplica, leos)
           IN  \/ c = None
               \/ /\ c \in Nat /\ c > h
                  /\ \A f \in Followers : c <= leos[f]
                  /\ \E f \in Followers : c = leos[f]
<1>1. leos \in [Followers -> Offset] /\ IsFiniteSet(Followers)
  BY ReplicaAssumption
<1> QED
  BY <1>1, LeastOfAll DEF InSyncReplica

-----------------------------------------------------------------------------
(* Type correctness. *)

LEMMA TypeFacts ==
    /\ Leader \in Replicas /\ Followers \subseteq Replicas
    /\ \A f \in Followers : /\ f # Leader
                            /\ Cur(f) \in Handlers /\ Old(f) \in Handlers
                            /\ Cur(f) # Old(f)
                            /\ Cur(f)[1] = f /\ Old(f)[1] = f
    /\ \A h \in Handlers : /\ h[1] \in Followers
                           /\ h = Cur(h[1]) \/ h = Old(h[1])
    /\ DefaultInfo \in OffsetInfo
  BY ReplicaAssumption DEF Replicas, Handlers, Cur, Old, DefaultInfo, OffsetInfo, Offset

LEMMA LeoType ==
    ASSUME TypeOK, NEW r \in Replicas
    PROVE  /\ Leo(r) \in Nat /\ AsOffset(r) \in OffsetInfo
           /\ log[r] \in Seq(Record)
  BY LenProperties DEF TypeOK, Leo, AsOffset, OffsetInfo, Offset

\* What a handler makes the high watermark is a log end.
LEMMA HwAfterType ==
    ASSUME TypeOK, NEW h \in Handlers, NEW infos \in [Followers -> OffsetInfo]
    PROVE  HwAfter(h, infos) \in Nat
<1>1. Leos(infos) \in [Followers -> Offset]
  BY DEF Leos, OffsetInfo
<1>2. lpos[h].hw \in Offset /\ hw[Leader] \in Nat
  BY TypeFacts DEF TypeOK, OffsetInfo
<1> QED
  BY <1>1, <1>2, ComputeHwIsLeast DEF HwAfter

LEMMA UpdateType ==
    ASSUME NEW o \in OffsetInfo, NEW p \in OffsetInfo
    PROVE  /\ Update(o, p) \in OffsetInfo
           /\ Update(o, p).leo \in {o.leo, p.leo} /\ Update(o, p).hw \in {o.hw, p.hw}
           /\ Update(o, p).leo >= o.leo /\ Update(o, p).hw >= o.hw
  BY DEF Update, Larger, OffsetInfo, Offset

\* A message for a follower, as FollowerUpdates and its error path build it.
LEMMA SendType ==
    ASSUME TypeOK, NEW h \in Handlers, NEW recs \in Seq(Record),
           NeedsUpdate(h), Send(h, recs)
    PROVE  outbox' \in [Followers -> Seq(Message)]
<1> DEFINE f == h[1]
           m == [base |-> IF recs = <<>> THEN 0 ELSE followers[f].leo,
                 recs |-> recs, hw |-> lpos[h].hw]
<1>1. f \in Followers /\ followers[f] \in OffsetInfo /\ lpos[h] \in OffsetInfo
  BY TypeFacts DEF TypeOK
<1>2. m \in Message
  BY <1>1 DEF NeedsUpdate, IsValid, OffsetInfo, Offset, Message
<1>3. Append(outbox[f], m) \in Seq(Message)
  BY <1>1, <1>2, AppendProperties DEF TypeOK
<1>4. outbox' = IF h = Cur(f) THEN [outbox EXCEPT ![f] = Append(outbox[f], m)] ELSE outbox
  BY DEF Send
<1> HIDE DEF m
<1> QED
  BY <1>1, <1>3, <1>4 DEF TypeOK

\* The three ways in which a follower drops an update.
LostUpdate(f) == SyncFromLeaderRefused(f) \/ SyncFromLeaderError(f) \/ SyncFromLeaderMissing(f)

LEMMA TypeInit == Init => TypeOK
  BY ReplicaAssumption, EmptySeq DEF Init, TypeOK, DefaultInfo, OffsetInfo, Offset

\* One step per action; each names the facts on sequences it needs.
LEMMA TypeStep == TypeOK /\ [Next]_vars => TypeOK'
<1> SUFFICES ASSUME TypeOK, [Next]_vars PROVE TypeOK'
  OBVIOUS
<1>a. /\ Leader \in Replicas /\ Followers \subseteq Replicas
      /\ DefaultInfo \in OffsetInfo
  BY TypeFacts
<1>b. \A f \in Followers : Cur(f) \in Handlers /\ Old(f) \in Handlers
  BY TypeFacts
<1>c. \A h \in Handlers : h[1] \in Followers
  BY TypeFacts
<1>1. ASSUME NEW rec \in Record, Produce(rec) PROVE TypeOK'
  <2>1. Leo(Leader) \in Nat /\ Leo(Leader) + 1 \in Nat /\ Append(log[Leader], rec) \in Seq(Record)
    BY <1>a, LeoType, AppendProperties
  <2>2. log' \in [Replicas -> Seq(Record)]
    BY <1>1, <2>1 DEF TypeOK, Produce
  <2>3. toNotify' \subseteq Nat
    BY <1>1, <2>1 DEF TypeOK, Produce
  <2>4. hw' \in [Replicas -> Nat]
    <3>1. Leo(Leader) + 1 \in Nat
      BY <2>1
    <3>2. hw' = hw \/ hw' = [hw EXCEPT ![Leader] = Leo(Leader) + 1]
      BY <1>1 DEF Produce
    <3> QED
      BY <3>1, <3>2 DEF TypeOK
  <2> QED
    BY <1>1, <2>2, <2>3, <2>4 DEF TypeOK, Produce, handlers, counters
<1>2. ASSUME NEW leo \in toNotify, NotifyAfterWrite(leo) PROVE TypeOK'
  BY <1>2 DEF TypeOK, NotifyAfterWrite, NotifyFollowers, storage, handlers, counters
<1>3. ASSUME NEW leo \in waiting, Ack(leo) PROVE TypeOK'
  BY <1>3 DEF TypeOK, Ack, Larger, storage, handlers, counters
<1>4. ASSUME NEW leo \in waiting, AckTimeout(leo) PROVE TypeOK'
  BY <1>4 DEF TypeOK, AckTimeout, storage, handlers, counters
<1>5. ASSUME NEW h \in Handlers, UpdateStatesBegin(h) PROVE TypeOK'
  <2>1. Head(inbox[h]) \in OffsetInfo /\ Tail(inbox[h]) \in Seq(OffsetInfo)
    BY <1>5, HeadTailProperties DEF TypeOK, UpdateStatesBegin
  <2>2. AsOffset(Leader) \in OffsetInfo
    BY <1>a, LeoType
  <2>3. /\ inbox' \in [Handlers -> Seq(OffsetInfo)]
        /\ pc' \in [Handlers -> {"closed", "idle", "apply", "notify", "read"}]
    BY <1>5, <2>1 DEF TypeOK, UpdateStatesBegin
  <2>4. fpos' \in [Handlers -> OffsetInfo] /\ lpos' \in [Handlers -> OffsetInfo]
    <3>1. CASE IsAhead(Head(inbox[h]))
      BY <1>5, <3>1 DEF TypeOK, UpdateStatesBegin
    <3>2. CASE ~IsAhead(Head(inbox[h]))
      BY <1>5, <2>1, <2>2, <3>2 DEF TypeOK, UpdateStatesBegin
    <3> QED
      BY <3>1, <3>2
  <2> QED
    BY <1>5, <2>3, <2>4 DEF TypeOK, UpdateStatesBegin, storage, producers, counters
<1>6. ASSUME NEW h \in Handlers, UpdateStatesApply(h) PROVE TypeOK'
  <2>1. followers' \in [Followers -> OffsetInfo]
    BY <1>6, UpdateType DEF TypeOK, UpdateStatesApply
  <2>2. hw' \in [Replicas -> Nat]
    BY <1>6, <2>1, HwAfterType DEF TypeOK, UpdateStatesApply
  <2> QED
    BY <1>a, <1>6, <2>1, <2>2 DEF TypeOK, UpdateStatesApply, producers, counters
<1>7. ASSUME NEW h \in Handlers, NotifyAfterUpdate(h) PROVE TypeOK'
  BY <1>7 DEF TypeOK, NotifyAfterUpdate, NotifyFollowers, storage, producers, counters
<1>8. ASSUME NEW h \in Handlers, DrainReplicas(h) PROVE TypeOK'
  BY <1>a, <1>c, <1>8, LeoType DEF TypeOK, DrainReplicas, storage, producers, counters
<1>9. ASSUME NEW h \in Handlers, FollowerUpdates(h) PROVE TypeOK'
  <2>1. outbox' \in [Followers -> Seq(Message)]
    <3>1. CASE ~NeedsUpdate(h)
      BY <1>9, <3>1 DEF TypeOK, FollowerUpdates
    <3>2. ASSUME NeedsUpdate(h), followers[h[1]].leo < lpos[h].leo,
                 NEW end \in (followers[h[1]].leo + 1)..Leo(Leader),
                 Send(h, SubSeq(log[Leader], followers[h[1]].leo + 1, end))
          PROVE  outbox' \in [Followers -> Seq(Message)]
      <4>1. /\ followers[h[1]].leo \in Nat /\ end \in Nat
            /\ \A i \in (followers[h[1]].leo + 1)..end : log[Leader][i] \in Record
        <5>1. followers[h[1]].leo \in Nat
          BY <1>c, <3>2 DEF TypeOK, NeedsUpdate, IsValid, OffsetInfo, Offset
        <5>2. Leo(Leader) \in Nat /\ log[Leader] \in Seq(Record)
          BY <1>a, LeoType
        <5>3. \A i \in 1..Leo(Leader) : log[Leader][i] \in Record
          BY <5>2, ElementOfSeq DEF Leo
        <5> QED
          BY <3>2, <5>1, <5>2, <5>3
      <4>2. SubSeq(log[Leader], followers[h[1]].leo + 1, end) \in Seq(Record)
        BY <4>1, SubSeqProperties
      <4> QED
        BY <3>2, <4>2, SendType
    <3>3. CASE NeedsUpdate(h) /\ Send(h, <<>>)
      BY <3>3, EmptySeq, SendType
    <3> QED
      BY <1>9, <3>1, <3>2, <3>3 DEF FollowerUpdates
  <2> QED
    BY <1>a, <1>9, <2>1 DEF TypeOK, FollowerUpdates, storage, producers, counters
<1>10. ASSUME NEW h \in Handlers, FollowerUpdatesReadError(h) PROVE TypeOK'
  <2>1. outbox' \in [Followers -> Seq(Message)]
    BY <1>10, EmptySeq, SendType DEF FollowerUpdatesReadError
  <2>2. /\ pc' = [pc EXCEPT ![h] = "idle"] /\ lpos' = [lpos EXCEPT ![h] = DefaultInfo]
        /\ faults' = faults + 1
        /\ UNCHANGED <<log, hw, ckpt, short, tail, followers, pending, inbox, fpos, conn,
                       toNotify, waiting, acked, restarts>>
    BY <1>10 DEF FollowerUpdatesReadError, storage, producers
  <2> QED
    BY <1>a, <2>1, <2>2 DEF TypeOK
<1>11. ASSUME NEW f \in Followers, HandlerEnd(f) PROVE TypeOK'
  BY <1>11, EmptySeq DEF TypeOK, HandlerEnd, storage, producers, counters
<1>12. ASSUME NEW f \in Followers, Connect(f) PROVE TypeOK'
  <2>1. <<AsOffset(f)>> \in Seq(OffsetInfo)
    BY <1>a, LeoType
  <2> QED
    BY <1>12, <2>1 DEF TypeOK, Connect, storage, producers, counters
<1>13. ASSUME NEW f \in Followers, Reconcile(f) PROVE TypeOK'
  BY <1>a, <1>b, <1>13, LeoType, AppendProperties DEF TypeOK, Reconcile, storage, producers, counters
<1>14. ASSUME NEW f \in Followers, SyncFromLeader(f) PROVE TypeOK'
  <2> DEFINE m == Head(outbox[f])
             flog == WriteRecordsets(f, m)
             fhw == HwFromLeader(f, m, Len(flog))
  <2>1. m \in Message /\ Tail(outbox[f]) \in Seq(Message)
    BY <1>a, <1>14, HeadTailProperties DEF TypeOK, SyncFromLeader
  <2>2. flog \in Seq(Record)
    BY <1>a, <2>1, LeoType, ConcatProperties DEF WriteRecordsets, Message
  <2>3. fhw \in Nat
    BY <1>a, <2>1 DEF TypeOK, HwFromLeader, Message, Offset
  <2>4. [hw |-> fhw, leo |-> Len(flog)] \in OffsetInfo
    BY <2>2, <2>3, LenProperties DEF OffsetInfo, Offset
  <2>5. Append(inbox[Cur(f)], [hw |-> fhw, leo |-> Len(flog)]) \in Seq(OffsetInfo)
    BY <1>b, <2>4, AppendProperties DEF TypeOK
  <2>6. /\ outbox' = [outbox EXCEPT ![f] = Tail(outbox[f])]
        /\ log' = [log EXCEPT ![f] = flog]
        /\ hw' = [hw EXCEPT ![f] = fhw]
        /\ \/ inbox' = inbox
           \/ inbox' = [inbox EXCEPT ![Cur(f)] =
                           Append(inbox[Cur(f)], [hw |-> fhw, leo |-> Len(flog)])]
        /\ UNCHANGED <<ckpt, short, tail, followers, pending, pc, fpos, lpos, conn, producers, counters>>
    BY <1>14 DEF SyncFromLeader
  <2> HIDE DEF m, flog, fhw
  <2> QED
    <3>1. log' \in [Replicas -> Seq(Record)] /\ hw' \in [Replicas -> Nat]
      BY <2>2, <2>3, <2>6 DEF TypeOK
    <3>2. outbox' \in [Followers -> Seq(Message)]
      BY <2>1, <2>6 DEF TypeOK
    <3>3. inbox' \in [Handlers -> Seq(OffsetInfo)]
      BY <2>5, <2>6 DEF TypeOK
    <3> QED
      BY <2>6, <3>1, <3>2, <3>3 DEF TypeOK, producers, counters
<1>15. ASSUME NEW f \in Followers, LostUpdate(f) PROVE TypeOK'
  <2>1. DropUpdate(f)
    BY <1>15 DEF LostUpdate, SyncFromLeaderRefused, SyncFromLeaderError, SyncFromLeaderMissing
  <2>2. Head(outbox[f]) \in Message /\ Tail(outbox[f]) \in Seq(Message)
    BY <2>1, HeadTailProperties DEF TypeOK, DropUpdate
  <2>3. outbox' \in [Followers -> Seq(Message)]
    BY <2>1, <2>2 DEF TypeOK, DropUpdate
  <2>4. faults' \in Nat /\ short' \in [Replicas -> BOOLEAN]
    <3>1. faults' \in {faults, faults + 1} /\ (short' = short \/ short' = [short EXCEPT ![f] = TRUE])
      BY <1>15 DEF LostUpdate, SyncFromLeaderRefused, SyncFromLeaderError, SyncFromLeaderMissing
    <3>2. faults' \in Nat
      BY <3>1 DEF TypeOK
    <3>3. short' \in [Replicas -> BOOLEAN]
      BY <3>1 DEF TypeOK
    <3> QED
      BY <3>2, <3>3
  <2>5. tail' \in [Followers -> Seq(Record)]
    <3>1. CASE SyncFromLeaderError(f)
      <4> DEFINE recs == Head(outbox[f]).recs
      <4>1. recs \in Seq(Record) /\ Len(recs) \in Nat
        BY <2>2, LenProperties DEF Message
      <4>2. PICK k \in 0..Len(recs) : tail' = [tail EXCEPT ![f] = SubSeq(recs, 1, k)]
        BY <3>1 DEF SyncFromLeaderError
      <4> HIDE DEF recs
      <4>3. \A i \in 1..k : recs[i] \in Record
        BY <4>1, ElementOfSeq
      <4>4. SubSeq(recs, 1, k) \in Seq(Record)
        BY <4>1, <4>3, SubSeqProperties
      <4> QED
        BY <4>2, <4>4 DEF TypeOK
    <3>2. CASE ~SyncFromLeaderError(f)
      BY <1>15, <3>2 DEF TypeOK, LostUpdate, SyncFromLeaderRefused, SyncFromLeaderMissing
    <3> QED
      BY <3>1, <3>2
  <2> QED
    BY <2>1, <2>3, <2>4, <2>5 DEF TypeOK, DropUpdate, handlers, producers
<1>16. ASSUME NEW f \in Followers, BreakConnection(f)
       PROVE  /\ conn' \in [Followers -> BOOLEAN]
              /\ outbox' \in [Followers -> Seq(Message)]
              /\ pc' \in [Handlers -> {"closed", "idle", "apply", "notify", "read"}]
              /\ inbox' \in [Handlers -> Seq(OffsetInfo)]
              /\ fpos' \in [Handlers -> OffsetInfo]
              /\ lpos' \in [Handlers -> OffsetInfo]
  BY <1>a, <1>b, <1>16, EmptySeq DEF TypeOK, BreakConnection
<1>17. ASSUME NEW f \in Followers, Disconnect(f) PROVE TypeOK'
  <2>1. BreakConnection(f)
    BY <1>17 DEF Disconnect
  <2> QED
    BY <1>16, <1>17, <2>1 DEF TypeOK, Disconnect, storage, producers
<1>18. ASSUME NEW f \in Followers, FollowerRestart(f) PROVE TypeOK'
  <2>1. BreakConnection(f)
    BY <1>18 DEF FollowerRestart
  <2> QED
    <3>1. log[f] \o tail[f] \in Seq(Record)
      BY <1>a, ConcatProperties DEF TypeOK
    <3>2. log' \in [Replicas -> Seq(Record)] /\ tail' \in [Followers -> Seq(Record)]
      BY <1>18, <3>1, EmptySeq DEF TypeOK, FollowerRestart
    <3>3. hw' \in [Replicas -> Nat] /\ short' \in [Replicas -> BOOLEAN]
      BY <1>a, <1>18 DEF TypeOK, FollowerRestart, LoadedHw
    <3>4. /\ faults' = faults + 1
          /\ UNCHANGED <<ckpt, followers, pending, toNotify, waiting, acked, restarts>>
      BY <1>18 DEF FollowerRestart, producers
    <3> QED
      BY <1>16, <2>1, <3>2, <3>3, <3>4 DEF TypeOK
<1>19. ASSUME NEW r \in Replicas, LazyWrite(r) PROVE TypeOK'
  BY <1>19 DEF TypeOK, LazyWrite, handlers, producers, counters
<1>20. ASSUME LeaderRestart PROVE TypeOK'
  BY <1>a, <1>20, EmptySeq DEF TypeOK, LeaderRestart, LoadedHw
<1>21. ASSUME UNCHANGED vars PROVE TypeOK'
  BY <1>21 DEF TypeOK, vars, storage, handlers, producers, counters
<1>22. ASSUME ProduceError PROVE TypeOK'
  BY <1>a, <1>22 DEF TypeOK, ProduceError, handlers, producers
<1> QED
  BY <1>1, <1>2, <1>3, <1>4, <1>5, <1>6, <1>7, <1>8, <1>9, <1>10, <1>11, <1>12,
     <1>13, <1>14, <1>15, <1>17, <1>18, <1>19, <1>20, <1>21, <1>22
     DEF Next, ProducerNext, HandlerNext, FollowerNext, LostUpdate

\* Every variable keeps its type, for every set of followers and every bound:
\* in particular no high watermark is ever set to a value compute_hw does not
\* mean as one.
THEOREM TypeCorrect == Spec => []TypeOK
<1>1. Init => TypeOK
  BY TypeInit
<1>2. TypeOK /\ [Next]_vars => TypeOK'
  BY TypeStep
<1> QED
  BY <1>1, <1>2, PTL DEF Spec

-----------------------------------------------------------------------------
(***************************************************************************)
(* Safety.  Everything rests on two facts: logs only grow, and whatever is *)
(* stored, sent or remembered about a log (a report, an update, a high     *)
(* watermark) was true of it once, so that it stays true.  SafetyInv says  *)
(* so of every variable.                                                   *)
(***************************************************************************)

LogGrows ==
    \A r \in Replicas : /\ Leo(r) <= Leo(r)'
                        /\ \A i \in 1..Leo(r) : log'[r][i] = log[r][i]

\* The steps that change a log.
LEMMA LogSteps ==
    ASSUME [Next]_vars
    PROVE  \/ UNCHANGED log
           \/ \E rec \in Record : Produce(rec)
           \/ \E f \in Followers : SyncFromLeader(f) \/ FollowerRestart(f)
  BY DEF Next, ProducerNext, HandlerNext, FollowerNext, vars, storage,
     NotifyAfterWrite, Ack, AckTimeout, UpdateStatesBegin, UpdateStatesApply,
     NotifyAfterUpdate, DrainReplicas, FollowerUpdates, FollowerUpdatesReadError,
     HandlerEnd, Connect, Reconcile, SyncFromLeaderError, SyncFromLeaderRefused,
     SyncFromLeaderMissing, DropUpdate, ProduceError, Disconnect, LazyWrite,
     LeaderRestart

\* The parts of a message at the head of a connection.
LEMMA HeadUpdate ==
    ASSUME SafetyInv, NEW f \in Followers, outbox[f] # <<>>
    PROVE  /\ Head(outbox[f]) \in SoundUpdates
           /\ Head(outbox[f]) \in Message
           /\ Tail(outbox[f]) \in Seq(SoundUpdates)
  BY HeadTailProperties DEF SafetyInv, UpdateInv, SoundUpdates

\* A concatenation, part by part.
LEMMA ConcatParts ==
    ASSUME NEW f \in Followers, NEW s \in Seq(Record),
           log[f] \in Seq(Record), Leo(f) \in Nat, Len(s) \in Nat
    PROVE  /\ log[f] \o s \in Seq(Record)
           /\ Len(log[f] \o s) = Leo(f) + Len(s)
           /\ Len(log[f] \o s) >= Leo(f)
           /\ \A i \in 1..Leo(f) : (log[f] \o s)[i] = log[f][i]
           /\ \A i \in 1..Len(s) : (log[f] \o s)[Leo(f) + i] = s[i]
<1> DEFINE t == log[f] \o s
           n == Leo(f)
           k == Len(s)
<1>1. t \in Seq(Record) /\ Len(t) = n + k
  BY ConcatProperties DEF Leo
<1>2. \A i \in 1..Len(log[f]) + Len(s) :
          t[i] = IF i <= Len(log[f]) THEN log[f][i] ELSE s[i - Len(log[f])]
  BY ConcatProperties
<1>3. n \in Nat /\ k \in Nat /\ n = Len(log[f])
  BY DEF Leo
<1>4. \A i \in 1..n + k : t[i] = IF i <= n THEN log[f][i] ELSE s[i - n]
  BY <1>2, <1>3
<1> HIDE DEF t, n, k
<1>5. ASSUME NEW i \in 1..n PROVE t[i] = log[f][i]
  BY <1>3, <1>4
<1>6. ASSUME NEW i \in 1..k PROVE t[n + i] = s[i]
  <2>1. n + i \in 1..n + k /\ ~(n + i <= n) /\ (n + i) - n = i
    BY <1>3
  <2> QED
    BY <1>4, <2>1
<1>7. Len(t) >= n
  BY <1>1, <1>3
<1> QED
  BY <1>1, <1>5, <1>6, <1>7 DEF t, n, k

\* A piece of the leader's log that follows a prefix of it makes a longer one.
LEMMA ContinuesLeader ==
    ASSUME NEW f \in Followers, NEW s \in Seq(Record),
           log[f] \in Seq(Record), Leo(f) \in Nat, Leo(Leader) \in Nat,
           \A i \in 1..Leo(f) : log[f][i] = log[Leader][i],
           Leo(f) + Len(s) <= Leo(Leader),
           \A i \in 1..Len(s) : s[i] = log[Leader][Leo(f) + i]
    PROVE  /\ Len(log[f] \o s) \in Nat /\ Len(log[f] \o s) <= Leo(Leader)
           /\ \A i \in 1..Len(log[f] \o s) : (log[f] \o s)[i] = log[Leader][i]
<1> DEFINE t == log[f] \o s
           n == Leo(f)
           k == Len(s)
<1>1. k \in Nat
  BY LenProperties
<1>2. /\ Len(t) = n + k
      /\ \A i \in 1..n : t[i] = log[f][i]
      /\ \A i \in 1..k : t[n + i] = s[i]
  BY <1>1, ConcatParts
<1>3. /\ n \in Nat /\ n + k <= Leo(Leader) /\ Leo(Leader) \in Nat
      /\ \A i \in 1..n : t[i] = log[Leader][i]
      /\ \A i \in 1..k : t[n + i] = log[Leader][n + i]
  BY <1>2
<1>4. Len(t) = n + k
  BY <1>2
<1> HIDE DEF t, n, k
<1>5. ASSUME NEW i \in 1..Len(t) PROVE t[i] = log[Leader][i]
  <2>1. CASE i \in 1..n
    BY <1>3, <2>1
  <2>2. CASE i \notin 1..n
    <3>1. i - n \in 1..k /\ n + (i - n) = i
      BY <1>1, <1>3, <1>4, <2>2
    <3> QED
      BY <1>3, <3>1
  <2> QED
    BY <2>1, <2>2
<1>6. Len(t) \in Nat /\ Len(t) <= Leo(Leader)
  BY <1>1, <1>3, <1>4
<1> QED
  BY <1>5, <1>6 DEF t

LEMMA WrittenLog ==
    ASSUME SafetyInv, NEW f \in Followers, NEW m \in Message
    PROVE  /\ WriteRecordsets(f, m) \in Seq(Record)
           /\ Len(WriteRecordsets(f, m)) >= Leo(f)
           /\ \A i \in 1..Leo(f) : WriteRecordsets(f, m)[i] = log[f][i]
<1>1. log[f] \in Seq(Record) /\ m.recs \in Seq(Record) /\ Leo(f) \in Nat /\ Len(m.recs) \in Nat
  BY LeoType, TypeFacts, LenProperties DEF SafetyInv, Message
<1>2. CASE m.recs # <<>> /\ m.base = Leo(f)
  <2>1. WriteRecordsets(f, m) = log[f] \o m.recs
    BY <1>2 DEF WriteRecordsets
  <2> DEFINE s == m.recs
  <2>2. s \in Seq(Record) /\ Len(s) \in Nat
    BY <1>1
  <2> HIDE DEF s
  <2>3. /\ log[f] \o s \in Seq(Record)
        /\ Len(log[f] \o s) >= Leo(f)
        /\ \A i \in 1..Leo(f) : (log[f] \o s)[i] = log[f][i]
    BY <1>1, <2>2, ConcatParts
  <2> QED
    BY <2>1, <2>3 DEF s
<1>3. CASE ~(m.recs # <<>> /\ m.base = Leo(f))
  <2>1. WriteRecordsets(f, m) = log[f] /\ Len(log[f]) = Leo(f)
    BY <1>3 DEF WriteRecordsets, Leo
  <2> QED
    BY <1>1, <2>1
<1> QED
  BY <1>2, <1>3

LEMMA LogGrowsStep ==
    ASSUME SafetyInv, [Next]_vars
    PROVE  LogGrows
<1>0. \A r \in Replicas : Leo(r) \in Nat /\ log[r] \in Seq(Record)
  BY LeoType DEF SafetyInv
<1>1. CASE UNCHANGED log
  BY <1>0, <1>1 DEF LogGrows, Leo
<1>2. ASSUME NEW rec \in Record, Produce(rec) PROVE LogGrows
  <2>1. /\ Len(Append(log[Leader], rec)) = Leo(Leader) + 1
        /\ \A i \in 1..Leo(Leader) : Append(log[Leader], rec)[i] = log[Leader][i]
    BY <1>0, TypeFacts, AppendProperties DEF Leo
  <2>2. log' = [log EXCEPT ![Leader] = Append(log[Leader], rec)]
    BY <1>2 DEF Produce
  <2> QED
    BY <1>0, <2>1, <2>2 DEF LogGrows, Leo, SafetyInv, TypeOK
<1>3. ASSUME NEW f \in Followers, SyncFromLeader(f) PROVE LogGrows
  <2> DEFINE flog == WriteRecordsets(f, Head(outbox[f]))
  <2>1. Head(outbox[f]) \in Message
    BY <1>3, HeadUpdate DEF SyncFromLeader
  <2>2. /\ flog \in Seq(Record) /\ Len(flog) >= Leo(f)
        /\ \A i \in 1..Leo(f) : flog[i] = log[f][i]
    BY <2>1, WrittenLog
  <2>3. log' = [log EXCEPT ![f] = flog]
    BY <1>3 DEF SyncFromLeader
  <2> HIDE DEF flog
  <2> QED
    BY <1>0, <2>2, <2>3 DEF LogGrows, Leo, SafetyInv, TypeOK
<1>4. ASSUME NEW f \in Followers, FollowerRestart(f) PROVE LogGrows
  <2> DEFINE flog == log[f] \o tail[f]
  <2>1. tail[f] \in Seq(Record) /\ Len(tail[f]) \in Nat /\ log[f] \in Seq(Record) /\ Leo(f) \in Nat
    BY <1>0, TypeFacts, LenProperties DEF SafetyInv, TypeOK
  <2>2. /\ flog \in Seq(Record) /\ Len(flog) >= Leo(f)
        /\ \A i \in 1..Leo(f) : flog[i] = log[f][i]
    BY <2>1, ConcatParts
  <2>3. log' = [log EXCEPT ![f] = flog]
    BY <1>4 DEF FollowerRestart
  <2> HIDE DEF flog
  <2> QED
    BY <1>0, <2>2, <2>3 DEF LogGrows, Leo, SafetyInv, TypeOK
<1> QED
  BY <1>1, <1>2, <1>3, <1>4, LogSteps

-----------------------------------------------------------------------------
(* What was true of the logs stays true. *)

LEMMA EverywhereStable ==
    ASSUME TypeOK, TypeOK', LogGrows, NEW n \in Int, Everywhere(n)
    PROVE  \A s \in Replicas : n <= Leo(s)'
<1>1. \A s \in Replicas : Leo(s) \in Nat /\ Leo(s)' \in Nat
  BY LenProperties DEF TypeOK, Leo
<1> QED
  BY <1>1 DEF LogGrows, Everywhere

LEMMA ReportsStable ==
    ASSUME TypeOK, TypeOK', LogGrows, NEW f \in Followers
    PROVE  Reports(f) \subseteq Reports(f)'
<1>1. f \in Replicas
  BY TypeFacts
<1>2. Leo(f) \in Nat /\ Leo(f)' \in Nat /\ Leo(f) <= Leo(f)'
  BY <1>1, LenProperties DEF TypeOK, Leo, LogGrows
<1>3. \A o \in OffsetInfo : o.leo \in Int
  BY DEF OffsetInfo, Offset
<1> QED
  BY <1>2, <1>3 DEF Reports

LEMMA SoundUpdatesStable ==
    ASSUME TypeOK, TypeOK', LogGrows
    PROVE  SoundUpdates \subseteq SoundUpdates'
<1> SUFFICES ASSUME NEW m \in SoundUpdates PROVE m \in SoundUpdates'
  OBVIOUS
<1>1. m \in Message /\ m.hw \in Int /\ m.base \in Nat /\ m.recs \in Seq(Record)
  BY DEF SoundUpdates, Message, Offset
<1>2. \A s \in Replicas : m.hw <= Leo(s)'
  BY <1>1, EverywhereStable DEF SoundUpdates
<1>3. Leader \in Replicas /\ Leo(Leader) \in Nat /\ Leo(Leader)' \in Nat /\ Len(m.recs) \in Nat
  BY <1>1, TypeFacts, LenProperties DEF TypeOK, Leo
<1>4. CASE m.recs = <<>>
  BY <1>1, <1>2, <1>4 DEF SoundUpdates, Everywhere
<1>5. CASE m.recs # <<>>
  <2>1. /\ m.base + Len(m.recs) <= Leo(Leader)
        /\ \A i \in 1..Len(m.recs) : m.recs[i] = log[Leader][m.base + i]
    BY <1>5 DEF SoundUpdates
  <2>2. m.base + Len(m.recs) <= Leo(Leader)'
    BY <1>1, <1>3, <2>1 DEF LogGrows
  <2>3. \A i \in 1..Len(m.recs) : m.base + i \in 1..Leo(Leader)
    BY <1>1, <1>3, <2>1
  <2>4. \A i \in 1..Len(m.recs) : m.recs[i] = log'[Leader][m.base + i]
    BY <1>3, <2>1, <2>3 DEF LogGrows
  <2> QED
    BY <1>1, <1>2, <2>2, <2>4 DEF SoundUpdates, Everywhere
<1> QED
  BY <1>4, <1>5

-----------------------------------------------------------------------------
(* The parts of the invariant, one by one. *)

LEMMA SafetyInit == Init => SafetyInv
<1> SUFFICES ASSUME Init PROVE SafetyInv
  OBVIOUS
<1>1. TypeOK
  BY TypeInit
<1>2. \A r \in Replicas : Leo(r) = 0
  BY EmptySeq DEF Init, Leo
<1>3. FollowerLogIsPrefix
  BY <1>2, TypeFacts DEF FollowerLogIsPrefix, AgreesUpTo
<1>4. KnowledgeInv
  <2>1. \A f \in Followers : DefaultInfo \in Reports(f)
    BY <1>2, TypeFacts DEF Reports, DefaultInfo
  <2> QED
    BY <2>1, TypeFacts, EmptySeq DEF KnowledgeInv, Init
<1>5. CommitInv
  BY <1>2 DEF CommitInv, Everywhere, Init, DefaultInfo
<1>6. UpdateInv
  BY EmptySeq DEF UpdateInv, Init
<1>7. TailInv
  BY <1>2, TypeFacts, EmptySeq DEF TailInv, Init
<1> QED
  BY <1>1, <1>3, <1>4, <1>5, <1>6, <1>7 DEF SafetyInv

\* The batches a follower accepts continue its log as the leader's does.
LEMMA PrefixStep ==
    ASSUME SafetyInv, [Next]_vars
    PROVE  FollowerLogIsPrefix'
<1> USE DEF FollowerLogIsPrefix, AgreesUpTo
<1>0. /\ LogGrows /\ Leader \in Replicas
      /\ \A r \in Replicas : Leo(r) \in Nat /\ log[r] \in Seq(Record)
      /\ \A f \in Followers : f \in Replicas /\ f # Leader
      /\ FollowerLogIsPrefix
  BY LogGrowsStep, LeoType, TypeFacts DEF SafetyInv
<1>1. CASE UNCHANGED log
  BY <1>0, <1>1 DEF Leo
<1>2. ASSUME NEW rec \in Record, Produce(rec) PROVE FollowerLogIsPrefix'
  <2>1. \A f \in Followers : log'[f] = log[f] /\ Leo(f)' = Leo(f)
    BY <1>0, <1>2 DEF Produce, SafetyInv, TypeOK, Leo
  <2>2. /\ Leo(Leader) <= Leo(Leader)' /\ Leo(Leader)' \in Nat
        /\ \A i \in 1..Leo(Leader) : log'[Leader][i] = log[Leader][i]
    <3>1. TypeOK'
      BY TypeStep DEF SafetyInv
    <3> QED
      BY <1>0, <3>1, LenProperties DEF LogGrows, TypeOK, Leo
  <2> QED
    BY <1>0, <2>1, <2>2
<1>3. ASSUME NEW f \in Followers, SyncFromLeader(f) PROVE FollowerLogIsPrefix'
  <2> DEFINE m == Head(outbox[f])
             flog == WriteRecordsets(f, m)
  <2>1. m \in SoundUpdates /\ m \in Message
    BY <1>3, HeadUpdate DEF SyncFromLeader
  <2>2. log' = [log EXCEPT ![f] = flog]
    BY <1>3 DEF SyncFromLeader
  <2>3. /\ log'[Leader] = log[Leader] /\ Leo(Leader)' = Leo(Leader)
        /\ \A g \in Followers \ {f} : log'[g] = log[g] /\ Leo(g)' = Leo(g)
        /\ log'[f] = flog /\ Leo(f)' = Len(flog)
    BY <1>0, <2>2 DEF SafetyInv, TypeOK, Leo
  <2>4. Len(flog) <= Leo(Leader) /\ \A i \in 1..Len(flog) : flog[i] = log[Leader][i]
    <3>1. CASE m.recs # <<>> /\ m.base = Leo(f)
      <4> DEFINE recs == m.recs
      <4>1. recs \in Seq(Record) /\ flog = log[f] \o recs
        BY <2>1, <3>1 DEF Message, WriteRecordsets
      <4>2. /\ Leo(f) + Len(recs) <= Leo(Leader)
            /\ \A i \in 1..Len(recs) : recs[i] = log[Leader][Leo(f) + i]
        BY <2>1, <3>1 DEF SoundUpdates
      <4>3. /\ log[f] \in Seq(Record) /\ Leo(f) \in Nat /\ Leo(Leader) \in Nat
            /\ \A i \in 1..Leo(f) : log[f][i] = log[Leader][i]
        BY <1>0
      <4> HIDE DEF recs, flog
      <4> QED
        BY <4>1, <4>2, <4>3, ContinuesLeader
    <3>2. CASE ~(m.recs # <<>> /\ m.base = Leo(f))
      <4>1. flog = log[f] /\ Len(flog) = Leo(f)
        BY <3>2 DEF WriteRecordsets, Leo
      <4> QED
        BY <1>0, <4>1
    <3> QED
      BY <3>1, <3>2
  <2> HIDE DEF m, flog
  <2>5. Len(flog) \in Nat
    BY <2>1, WrittenLog, LenProperties DEF flog
  <2> QED
    BY <1>0, <2>3, <2>4, <2>5
<1>4. ASSUME NEW f \in Followers, FollowerRestart(f) PROVE FollowerLogIsPrefix'
  <2> DEFINE flog == log[f] \o tail[f]
  <2>1. log' = [log EXCEPT ![f] = flog]
    BY <1>4 DEF FollowerRestart
  <2>2. /\ log'[Leader] = log[Leader] /\ Leo(Leader)' = Leo(Leader)
        /\ \A g \in Followers \ {f} : log'[g] = log[g] /\ Leo(g)' = Leo(g)
        /\ log'[f] = flog /\ Leo(f)' = Len(flog)
    BY <1>0, <2>1 DEF SafetyInv, TypeOK, Leo
  <2>3. /\ tail[f] \in Seq(Record) /\ Leo(f) + Len(tail[f]) <= Leo(Leader)
        /\ \A i \in 1..Len(tail[f]) : tail[f][i] = log[Leader][Leo(f) + i]
    BY DEF SafetyInv, TypeOK, TailInv
  <2>4. /\ log[f] \in Seq(Record) /\ Leo(f) \in Nat /\ Leo(Leader) \in Nat
        /\ \A i \in 1..Leo(f) : log[f][i] = log[Leader][i]
    BY <1>0
  <2>5. /\ Len(flog) \in Nat /\ Len(flog) <= Leo(Leader)
        /\ \A i \in 1..Len(flog) : flog[i] = log[Leader][i]
    BY <2>3, <2>4, ContinuesLeader
  <2> HIDE DEF flog
  <2> QED
    BY <1>0, <2>2, <2>5
<1> QED
  BY <1>1, <1>2, <1>3, <1>4, LogSteps

\* The batches a failed write left behind stay a piece of the leader's log, as
\* nothing is written before them.
LEMMA TailStep ==
    ASSUME SafetyInv, [Next]_vars
    PROVE  TailInv'
<1>0. /\ LogGrows /\ TypeOK /\ TypeOK' /\ Leader \in Replicas
      /\ \A r \in Replicas : Leo(r) \in Nat /\ Leo(r)' \in Nat
      /\ \A f \in Followers : f \in Replicas /\ f # Leader
  BY LogGrowsStep, TypeStep, TypeFacts, LenProperties DEF SafetyInv, TypeOK, Leo
<1>1. ASSUME NEW f \in Followers, NEW t \in Seq(Record), NEW n \in Nat,
             n + Len(t) <= Leo(Leader), \A i \in 1..Len(t) : t[i] = log[Leader][n + i]
      PROVE  n + Len(t) <= Leo(Leader)' /\ \A i \in 1..Len(t) : t[i] = log'[Leader][n + i]
  <2>1. Len(t) \in Nat
    BY LenProperties
  <2>2. \A i \in 1..Len(t) : n + i \in 1..Leo(Leader)
    BY <1>0, <1>1, <2>1
  <2>3. Leo(Leader) <= Leo(Leader)' /\ \A i \in 1..Leo(Leader) : log'[Leader][i] = log[Leader][i]
    BY <1>0 DEF LogGrows
  <2>4. n + Len(t) <= Leo(Leader)'
    BY <1>0, <1>1, <2>1, <2>3
  <2> QED
    BY <1>1, <2>2, <2>3, <2>4
<1>2. \A f \in Followers : /\ tail[f] \in Seq(Record) /\ (~short[f] => tail[f] = <<>>)
                           /\ Leo(f) + Len(tail[f]) <= Leo(Leader)
                           /\ \A i \in 1..Len(tail[f]) : tail[f][i] = log[Leader][Leo(f) + i]
  BY DEF SafetyInv, TypeOK, TailInv
<1>3. ASSUME NEW f \in Followers, Leo(f)' = Leo(f), tail'[f] = tail[f], short'[f] = short[f]
      PROVE  /\ ~short'[f] => tail'[f] = <<>>
             /\ Leo(f)' + Len(tail'[f]) <= Leo(Leader)'
             /\ \A i \in 1..Len(tail'[f]) : tail'[f][i] = log'[Leader][Leo(f)' + i]
  <2> DEFINE n == Leo(f)
             t == tail[f]
  <2>1. /\ t \in Seq(Record) /\ n \in Nat /\ n + Len(t) <= Leo(Leader)
        /\ \A i \in 1..Len(t) : t[i] = log[Leader][n + i]
    BY <1>0, <1>2
  <2> HIDE DEF n, t
  <2>2. n + Len(t) <= Leo(Leader)' /\ \A i \in 1..Len(t) : t[i] = log'[Leader][n + i]
    BY <1>1, <2>1
  <2> QED
    BY <1>2, <1>3, <2>2 DEF n, t
<1>4. ASSUME NEW f \in Followers, tail'[f] = <<>>
      PROVE  /\ ~short'[f] => tail'[f] = <<>>
             /\ Leo(f)' + Len(tail'[f]) <= Leo(Leader)'
             /\ \A i \in 1..Len(tail'[f]) : tail'[f][i] = log'[Leader][Leo(f)' + i]
  <2>1. Len(tail'[f]) = 0
    BY <1>4, EmptySeq
  <2>2. FollowerLogIsPrefix'
    BY PrefixStep
  <2>3. Leo(f)' <= Leo(Leader)'
    BY <2>2 DEF FollowerLogIsPrefix
  <2> QED
    BY <1>0, <1>4, <2>1, <2>3
<1>5. ASSUME \A f \in Followers : \/ Leo(f)' = Leo(f) /\ tail'[f] = tail[f] /\ short'[f] = short[f]
                                  \/ tail'[f] = <<>>
      PROVE  TailInv'
  BY <1>3, <1>4, <1>5, Zenon DEF TailInv
<1>6. ASSUME NEW f \in Followers, SyncFromLeader(f) PROVE TailInv'
  <2>1. /\ \A g \in Followers \ {f} : Leo(g)' = Leo(g)
        /\ tail' = tail /\ short' = short
    BY <1>0, <1>6 DEF SyncFromLeader, TypeOK, Leo
  <2>2. CASE short[f]
    <3>1. log' = log
      <4>1. WriteRecordsets(f, Head(outbox[f])) = log[f]
        BY <1>6, <2>2 DEF SyncFromLeader, Refused, WriteRecordsets
      <4> QED
        BY <1>0, <1>6, <4>1 DEF SyncFromLeader, TypeOK
    <3>2. Leo(f)' = Leo(f)
      BY <3>1 DEF Leo
    <3> QED
      BY <1>5, <2>1, <3>2
  <2>3. CASE ~short[f]
    BY <1>2, <1>5, <2>1, <2>3
  <2> QED
    BY <2>2, <2>3
<1>7. ASSUME NEW f \in Followers, FollowerRestart(f) PROVE TailInv'
  <2>1. \A g \in Followers \ {f} : Leo(g)' = Leo(g) /\ tail'[g] = tail[g] /\ short'[g] = short[g]
    BY <1>0, <1>7 DEF FollowerRestart, TypeOK, Leo
  <2>2. tail'[f] = <<>>
    BY <1>0, <1>7 DEF FollowerRestart, TypeOK
  <2> QED
    BY <1>5, <2>1, <2>2
<1>8. ASSUME NEW f \in Followers, SyncFromLeaderError(f) PROVE TailInv'
  <2> DEFINE m == Head(outbox[f])
             recs == m.recs
  <2>1. m \in SoundUpdates /\ m \in Message /\ recs # <<>> /\ m.base = Leo(f)
    BY <1>8, HeadUpdate DEF SyncFromLeaderError, DropUpdate
  <2>2. /\ recs \in Seq(Record) /\ Len(recs) \in Nat
        /\ Leo(f) + Len(recs) <= Leo(Leader)
        /\ \A i \in 1..Len(recs) : recs[i] = log[Leader][Leo(f) + i]
    BY <2>1, LenProperties DEF SoundUpdates, Message
  <2>3. PICK k \in 0..Len(recs) : tail' = [tail EXCEPT ![f] = SubSeq(recs, 1, k)]
    BY <1>8 DEF SyncFromLeaderError
  <2>4. log' = log /\ short' = [short EXCEPT ![f] = TRUE]
    BY <1>8 DEF SyncFromLeaderError, DropUpdate
  <2> HIDE DEF m, recs
  <2>5. /\ \A r \in Replicas : Leo(r)' = Leo(r)
        /\ \A g \in Followers \ {f} : tail'[g] = tail[g] /\ short'[g] = short[g]
        /\ tail'[f] = SubSeq(recs, 1, k) /\ short'[f] = TRUE
    BY <1>0, <2>3, <2>4 DEF TypeOK, Leo
  <2>6. /\ Len(SubSeq(recs, 1, k)) = k
        /\ \A i \in 1..k : SubSeq(recs, 1, k)[i] = recs[i]
    <3>1. \A i \in 1..k : recs[i] \in Record
      BY <2>2, ElementOfSeq
    <3>2. /\ Len(SubSeq(recs, 1, k)) = IF 1 <= k THEN k - 1 + 1 ELSE 0
          /\ \A i \in 1..(k - 1 + 1) : SubSeq(recs, 1, k)[i] = recs[1 + i - 1]
      BY <2>2, <3>1, SubSeqProperties
    <3> QED
      BY <2>2, <3>2
  <2>7. /\ Leo(f) + Len(tail'[f]) <= Leo(Leader)
        /\ \A i \in 1..Len(tail'[f]) : tail'[f][i] = log[Leader][Leo(f) + i]
    BY <1>0, <2>2, <2>5, <2>6
  <2>8. /\ ~short'[f] => tail'[f] = <<>>
        /\ Leo(f)' + Len(tail'[f]) <= Leo(Leader)'
        /\ \A i \in 1..Len(tail'[f]) : tail'[f][i] = log'[Leader][Leo(f)' + i]
    BY <1>0, <2>4, <2>5, <2>7
  <2> QED
    BY <1>3, <2>5, <2>8, <1>0, ZenonT(40) DEF TailInv
<1>9. ASSUME NEW rec \in Record, Produce(rec) PROVE TailInv'
  <2>1. \A f \in Followers : Leo(f)' = Leo(f) /\ tail'[f] = tail[f] /\ short'[f] = short[f]
    BY <1>0, <1>9 DEF Produce, TypeOK, Leo
  <2> QED
    BY <1>5, <2>1
<1>10. ASSUME UNCHANGED <<log, tail>>, \A f \in Followers : short'[f] = short[f] PROVE TailInv'
  BY <1>5, <1>10 DEF Leo
<1>11. ASSUME LeaderRestart \/ ProduceError PROVE TailInv'
  <2>1. UNCHANGED <<log, tail>> /\ short' = [short EXCEPT ![Leader] = short'[Leader]]
    BY <1>0, <1>11 DEF LeaderRestart, ProduceError, TypeOK
  <2>2. \A f \in Followers : short'[f] = short[f]
    BY <1>0, <2>1, ReplicaAssumption DEF TypeOK
  <2> QED
    BY <1>10, <2>1, <2>2
<1>12. ASSUME UNCHANGED <<log, tail, short>> PROVE TailInv'
  BY <1>10, <1>12
<1> QED
  BY <1>6, <1>7, <1>8, <1>9, <1>11, <1>12
     DEF Next, ProducerNext, HandlerNext, FollowerNext, vars, storage, NotifyAfterWrite, Ack,
     AckTimeout, UpdateStatesBegin, UpdateStatesApply, NotifyAfterUpdate, DrainReplicas,
     FollowerUpdates, FollowerUpdatesReadError, HandlerEnd, Connect, Reconcile, DropUpdate,
     SyncFromLeaderRefused, SyncFromLeaderMissing, Disconnect, LazyWrite

-----------------------------------------------------------------------------
(* What the leader knows or will be told of its followers. *)

LEMMA KnowledgeKept ==
    ASSUME SafetyInv, TypeOK', LogGrows
    PROVE  /\ \A f \in Followers : followers[f] \in Reports(f)' /\ DefaultInfo \in Reports(f)'
           /\ \A h \in Handlers : /\ inbox[h] \in Seq(Reports(h[1])')
                                  /\ fpos[h] \in Reports(h[1])'
<1>1. \A f \in Followers : Reports(f) \subseteq Reports(f)'
  BY ReportsStable DEF SafetyInv
<1>2. \A h \in Handlers : h[1] \in Followers
  BY TypeFacts
<1>3. \A f \in Followers : DefaultInfo \in Reports(f)
  BY TypeFacts, LeoType DEF Reports, DefaultInfo, SafetyInv
<1>4. ASSUME NEW h \in Handlers PROVE inbox[h] \in Seq(Reports(h[1])')
  <2>1. Reports(h[1]) \subseteq Reports(h[1])' /\ inbox[h] \in Seq(Reports(h[1]))
    BY <1>1, <1>2 DEF SafetyInv, KnowledgeInv
  <2> QED
    BY <2>1, SeqMonotonic
<1> QED
  BY <1>1, <1>2, <1>3, <1>4 DEF SafetyInv, KnowledgeInv

\* What a follower reports is what it has stored.
LEMMA ReportIsTrue ==
    ASSUME TypeOK, NEW f \in Followers
    PROVE  AsOffset(f) \in Reports(f)
<1>1. f \in Replicas
  BY TypeFacts
<1>2. AsOffset(f) \in OffsetInfo /\ AsOffset(f).leo = Leo(f) /\ Leo(f) \in Nat
  BY <1>1, LeoType DEF AsOffset
<1> QED
  BY <1>2 DEF Reports

LEMMA ReportPrimed ==
    ASSUME TypeOK', NEW f \in Followers
    PROVE  AsOffset(f)' \in Reports(f)'
<1>1. f \in Replicas
  BY TypeFacts
<1>2. Leo(f)' \in Nat /\ hw'[f] \in Nat
  BY <1>1, LenProperties DEF TypeOK, Leo
<1> QED
  BY <1>2 DEF Reports, AsOffset, OffsetInfo, Offset

LEMMA KnowledgeStep ==
    ASSUME SafetyInv, [Next]_vars
    PROVE  KnowledgeInv'
<1>a. TypeOK /\ TypeOK' /\ LogGrows
  BY TypeStep, LogGrowsStep DEF SafetyInv
<1>b. \A f \in Followers : followers[f] \in Reports(f)' /\ DefaultInfo \in Reports(f)'
  BY <1>a, KnowledgeKept
<1>c. \A h \in Handlers : inbox[h] \in Seq(Reports(h[1])') /\ fpos[h] \in Reports(h[1])'
  BY <1>a, KnowledgeKept
<1>d. \A h \in Handlers : h[1] \in Followers
  BY TypeFacts
<1>e. \A f \in Followers : /\ Cur(f) \in Handlers /\ Old(f) \in Handlers
                           /\ Cur(f)[1] = f /\ Old(f)[1] = f
  BY TypeFacts
<1>f. \A f \in Followers : <<>> \in Seq(Reports(f)')
  BY EmptySeq
<1>1. ASSUME UNCHANGED <<followers, inbox, fpos>> PROVE KnowledgeInv'
  BY <1>b, <1>c, <1>1 DEF KnowledgeInv
<1>2. ASSUME NEW h \in Handlers, UpdateStatesBegin(h) PROVE KnowledgeInv'
  <2>1. Head(inbox[h]) \in Reports(h[1])' /\ Tail(inbox[h]) \in Seq(Reports(h[1])')
    BY <1>c, <1>2, HeadTailProperties DEF UpdateStatesBegin
  <2>2. \A g \in Handlers : inbox'[g] = IF g = h THEN Tail(inbox[h]) ELSE inbox[g]
    BY <1>a, <1>2 DEF UpdateStatesBegin, TypeOK
  <2>3. \A g \in Handlers : fpos'[g] = fpos[g] \/ (g = h /\ fpos'[g] = Head(inbox[h]))
    BY <1>a, <1>2 DEF UpdateStatesBegin, TypeOK
  <2>4. followers' = followers
    BY <1>2 DEF UpdateStatesBegin
  <2> QED
    BY <1>b, <1>c, <2>1, <2>2, <2>3, <2>4 DEF KnowledgeInv
<1>3. ASSUME NEW h \in Handlers, UpdateStatesApply(h) PROVE KnowledgeInv'
  <2> DEFINE f == h[1]
             o == followers[f]
             p == fpos[h]
  <2>1. f \in Followers /\ o \in Reports(f) /\ p \in Reports(f) /\ log' = log
    BY <1>d, <1>3 DEF SafetyInv, KnowledgeInv, UpdateStatesApply
  <2> HIDE DEF f, o, p
  <2>2. Update(o, p) \in Reports(f)
    BY <2>1 DEF Reports, Update, Larger, OffsetInfo, Offset
  <2>3. Update(o, p) \in Reports(f)'
    BY <1>a, <2>1, <2>2, ReportsStable
  <2>4. /\ \A g \in Followers : followers'[g] = IF g = f THEN Update(o, p) ELSE followers[g]
        /\ \A g \in Handlers : fpos'[g] = IF g = h THEN DefaultInfo ELSE fpos[g]
        /\ inbox' = inbox
    BY <1>a, <1>3 DEF UpdateStatesApply, TypeOK, f, o, p
  <2> QED
    BY <1>b, <1>c, <1>d, <2>1, <2>3, <2>4 DEF KnowledgeInv
<1>4. ASSUME NEW f \in Followers, HandlerEnd(f) PROVE KnowledgeInv'
  <2>1. /\ \A g \in Handlers : inbox'[g] = inbox[g] \/ inbox'[g] = <<>>
        /\ followers' = followers /\ fpos' = fpos
    BY <1>a, <1>4 DEF HandlerEnd, TypeOK
  <2> QED
    BY <1>b, <1>c, <1>d, <1>f, <2>1 DEF KnowledgeInv
<1>5. ASSUME NEW f \in Followers, NEW s, s \in Seq(Reports(f)'),
             inbox' = [inbox EXCEPT ![Cur(f)] = s], UNCHANGED <<followers, fpos>>
      PROVE  KnowledgeInv'
  <2>1. \A g \in Handlers : inbox'[g] = inbox[g] \/ (g = Cur(f) /\ inbox'[g] = s)
    BY <1>a, <1>5 DEF TypeOK
  <2>2. \A g \in Handlers : inbox'[g] \in Seq(Reports(g[1])')
    BY <1>c, <1>e, <1>5, <2>1
  <2> QED
    BY <1>b, <1>c, <1>5, <2>2 DEF KnowledgeInv
<1>6. ASSUME NEW f \in Followers, Connect(f) PROVE KnowledgeInv'
  <2>1. AsOffset(f) \in Reports(f)'
    BY <1>a, ReportIsTrue, ReportsStable
  <2>2. <<AsOffset(f)>> \in Seq(Reports(f)')
    BY <2>1
  <2> QED
    BY <1>5, <1>6, <2>2 DEF Connect
<1>7. ASSUME NEW f \in Followers, Reconcile(f) PROVE KnowledgeInv'
  <2>1. AsOffset(f) \in Reports(f)'
    BY <1>a, ReportIsTrue, ReportsStable
  <2>2. inbox[Cur(f)] \in Seq(Reports(f)')
    BY <1>c, <1>e
  <2>3. Append(inbox[Cur(f)], AsOffset(f)) \in Seq(Reports(f)')
    BY <2>1, <2>2, AppendProperties
  <2> QED
    BY <1>5, <1>7, <2>3 DEF Reconcile
<1>8. ASSUME NEW f \in Followers, SyncFromLeader(f) PROVE KnowledgeInv'
  <2>1. AsOffset(f)' \in Reports(f)'
    BY <1>a, ReportPrimed
  <2>2. inbox[Cur(f)] \in Seq(Reports(f)')
    BY <1>c, <1>e
  <2>3. Append(inbox[Cur(f)], AsOffset(f)') \in Seq(Reports(f)')
    BY <2>1, <2>2, AppendProperties
  <2>4. \/ inbox' = inbox
        \/ inbox' = [inbox EXCEPT ![Cur(f)] = Append(inbox[Cur(f)], AsOffset(f)')]
    <3>1. f \in Replicas
      BY TypeFacts
    <3> DEFINE flog == WriteRecordsets(f, Head(outbox[f]))
               fhw == HwFromLeader(f, Head(outbox[f]), Len(flog))
    <3>2. /\ log' = [log EXCEPT ![f] = flog]
          /\ hw' = [hw EXCEPT ![f] = fhw]
          /\ \/ inbox' = inbox
             \/ inbox' = [inbox EXCEPT ![Cur(f)] =
                             Append(inbox[Cur(f)], [hw |-> fhw, leo |-> Len(flog)])]
      BY <1>8 DEF SyncFromLeader
    <3> HIDE DEF flog, fhw
    <3>3. AsOffset(f)' = [hw |-> fhw, leo |-> Len(flog)]
      BY <1>a, <3>1, <3>2 DEF TypeOK, AsOffset, Leo
    <3> QED
      BY <3>2, <3>3
  <2>5. UNCHANGED <<followers, fpos>>
    BY <1>8 DEF SyncFromLeader
  <2> QED
    BY <1>1, <1>5, <2>3, <2>4, <2>5
<1>9. ASSUME NEW f \in Followers, BreakConnection(f), followers' = followers PROVE KnowledgeInv'
  <2>1. /\ \A g \in Handlers : \/ inbox'[g] = inbox[g]
                               \/ inbox'[g] = <<>>
                               \/ g = Old(f) /\ inbox'[g] = inbox[Cur(f)]
        /\ \A g \in Handlers : \/ fpos'[g] = fpos[g]
                               \/ fpos'[g] = DefaultInfo
                               \/ g = Old(f) /\ fpos'[g] = fpos[Cur(f)]
    BY <1>a, <1>e, <1>9 DEF BreakConnection, TypeOK
  <2>2. inbox[Cur(f)] \in Seq(Reports(f)') /\ fpos[Cur(f)] \in Reports(f)'
    BY <1>c, <1>e
  <2>3. Old(f)[1] = f
    BY <1>e
  <2> QED
    BY <1>b, <1>c, <1>d, <1>f, <1>9, <2>1, <2>2, <2>3 DEF KnowledgeInv
<1>10. ASSUME LeaderRestart PROVE KnowledgeInv'
  <2>1. /\ \A f \in Followers : followers'[f] = DefaultInfo
        /\ \A h \in Handlers : inbox'[h] = <<>> /\ fpos'[h] = DefaultInfo
    BY <1>10 DEF LeaderRestart
  <2> QED
    BY <1>b, <1>d, <1>f, <2>1 DEF KnowledgeInv
<1> QED
  BY <1>1, <1>2, <1>3, <1>4, <1>6, <1>7, <1>8, <1>9, <1>10
     DEF Next, ProducerNext, HandlerNext, FollowerNext, vars, handlers, storage,
     Produce, NotifyAfterWrite, Ack, AckTimeout, NotifyAfterUpdate, DrainReplicas,
     FollowerUpdates, FollowerUpdatesReadError, SyncFromLeaderError, SyncFromLeaderRefused,
     SyncFromLeaderMissing, DropUpdate, ProduceError, Disconnect,
     LazyWrite, FollowerRestart

-----------------------------------------------------------------------------
(* What anyone holds to be committed is on every replica. *)

\* compute_hw answers with the least log end it was told, and what it was
\* told is at most what the followers, and so the leader, have stored.
LEMMA HwAfterEverywhere ==
    ASSUME SafetyInv, NEW h \in Handlers, NEW infos \in [Followers -> OffsetInfo],
           \A f \in Followers : infos[f] \in Reports(f)
    PROVE  Everywhere(HwAfter(h, infos))
<1> DEFINE c == ComputeHw(lpos[h].hw, InSyncReplica, Leos(infos))
<1>1. HwAfter(h, infos) = hw[Leader] \/ (c # None /\ HwAfter(h, infos) = c)
  BY DEF HwAfter
<1>2. Everywhere(hw[Leader])
  BY TypeFacts DEF SafetyInv, CommitInv
<1>3. lpos[h].hw \in Offset /\ Leos(infos) \in [Followers -> Offset]
  BY DEF SafetyInv, TypeOK, OffsetInfo, Leos
<1>4. \/ c = None
      \/ /\ c \in Nat
         /\ \A f \in Followers : c <= Leos(infos)[f]
         /\ \E f \in Followers : c = Leos(infos)[f]
  BY <1>3, ComputeHwIsLeast
<1> HIDE DEF c
<1>5. ASSUME c # None PROVE Everywhere(c)
  <2>1. \A f \in Followers : /\ Leos(infos)[f] \in Int /\ Leos(infos)[f] <= Leo(f)
                             /\ Leo(f) \in Nat /\ Leo(f) <= Leo(Leader)
    <3>1. \A f \in Followers : infos[f].leo \in Int /\ infos[f].leo <= Leo(f)
      BY DEF Reports, OffsetInfo, Offset
    <3>2. \A f \in Followers : Leo(f) \in Nat /\ Leo(f) <= Leo(Leader)
      BY TypeFacts, LeoType DEF SafetyInv, FollowerLogIsPrefix
    <3> QED
      BY <3>1, <3>2 DEF Leos
  <2>2. Leader \in Replicas /\ Leo(Leader) \in Nat
    BY TypeFacts, LeoType DEF SafetyInv
  <2>3. c \in Nat /\ (\A f \in Followers : c <= Leo(f)) /\ c <= Leo(Leader)
    BY <1>4, <1>5, <2>1, <2>2
  <2> QED
    BY <2>3 DEF Everywhere, Replicas
<1> QED
  BY <1>1, <1>2, <1>5

LEMMA CommitStep ==
    ASSUME SafetyInv, [Next]_vars
    PROVE  CommitInv'
<1> DEFINE E(x) == \A s \in Replicas : x <= Leo(s)'
<1>a. TypeOK /\ TypeOK' /\ LogGrows
  BY TypeStep, LogGrowsStep DEF SafetyInv
<1>b. /\ Leader \in Replicas /\ Followers \subseteq Replicas
      /\ \A f \in Followers : f # Leader
      /\ \A h \in Handlers : h[1] \in Followers
  BY TypeFacts
<1>c. \A x \in Int : Everywhere(x) => E(x)
  BY <1>a, EverywhereStable
<1>d. /\ \A r \in Replicas : hw[r] \in Nat /\ ckpt[r] \in Nat
      /\ \A h \in Handlers : lpos[h].hw \in Int
      /\ acked \in Nat
  BY <1>a DEF TypeOK, OffsetInfo, Offset
<1>e. /\ \A r \in Replicas : E(hw[r]) /\ E(ckpt[r])
      /\ \A h \in Handlers : E(lpos[h].hw)
      /\ E(acked)
  BY <1>c, <1>d DEF SafetyInv, CommitInv
<1>f. E(DefaultInfo.hw)
  <2>1. \A s \in Replicas : Leo(s)' \in Nat
    BY <1>a, LenProperties DEF TypeOK, Leo
  <2> QED
    BY <2>1 DEF DefaultInfo
<1>g. ASSUME \A r \in Replicas : E(hw'[r]) /\ E(ckpt'[r]),
             \A h \in Handlers : E(lpos'[h].hw),
             E(acked')
      PROVE  CommitInv'
  BY <1>g DEF CommitInv, Everywhere
<1> HIDE DEF E
<1>1. ASSUME UNCHANGED <<hw, ckpt, lpos, acked>> PROVE CommitInv'
  BY <1>e, <1>g, <1>1
<1>2. ASSUME NEW rec \in Record, Produce(rec) PROVE CommitInv'
  <2>1. CASE InSyncReplica # 1
    BY <1>1, <1>2, <2>1 DEF Produce, handlers
  <2>2. CASE InSyncReplica = 1
    <3>1. Followers = {}
      <4>1. IsFiniteSet(Followers) /\ Cardinality(Followers) \in Nat
        BY ReplicaAssumption, FS_CardinalityType
      <4>2. Cardinality(Followers) = 0
        BY <2>2, <4>1 DEF InSyncReplica
      <4> QED
        BY <4>1, <4>2, FS_EmptySet
    <3>2. Replicas = {Leader}
      BY <3>1 DEF Replicas
    <3>3. Len(Append(log[Leader], rec)) = Leo(Leader) + 1 /\ Leo(Leader) \in Nat
      BY <1>a, <1>b, LeoType, AppendProperties DEF Leo
    <3>4. hw'[Leader] = Leo(Leader) + 1 /\ Leo(Leader)' = Leo(Leader) + 1
      BY <1>a, <1>b, <1>2, <2>2, <3>3 DEF Produce, TypeOK, Leo
    <3>5. E(hw'[Leader])
      BY <3>2, <3>3, <3>4 DEF E
    <3>6. UNCHANGED <<ckpt, lpos, acked>>
      BY <1>2 DEF Produce, handlers
    <3> QED
      BY <1>e, <1>g, <3>2, <3>5, <3>6
  <2> QED
    BY <2>1, <2>2
<1>3. ASSUME NEW leo \in waiting, Ack(leo) PROVE CommitInv'
  <2>1. leo \in Nat /\ leo <= hw[Leader]
    BY <1>a, <1>b, <1>3 DEF Ack, ReachedBy, TypeOK
  <2>2. acked' = acked \/ acked' = leo
    BY <1>3 DEF Ack, Larger
  <2>3. E(leo)
    <3>1. \A s \in Replicas : Leo(s)' \in Nat /\ hw[Leader] <= Leo(s)'
      BY <1>a, <1>b, <1>e, LenProperties DEF TypeOK, Leo, E
    <3> QED
      BY <1>b, <1>d, <2>1, <3>1 DEF E
  <2>4. UNCHANGED <<hw, ckpt, lpos>>
    BY <1>3 DEF Ack, storage, handlers
  <2> QED
    BY <1>e, <1>g, <2>2, <2>3, <2>4
<1>4. ASSUME NEW h \in Handlers, UNCHANGED <<hw, ckpt, acked>>,
             \A g \in Handlers : lpos'[g].hw = lpos[g].hw \/ lpos'[g].hw = hw[Leader]
                                \/ lpos'[g].hw = DefaultInfo.hw
      PROVE  CommitInv'
  BY <1>b, <1>e, <1>f, <1>g, <1>4
<1>5. ASSUME NEW h \in Handlers, UpdateStatesBegin(h) PROVE CommitInv'
  <2>1. \A g \in Handlers : lpos'[g] = lpos[g] \/ lpos'[g] = AsOffset(Leader)
    BY <1>a, <1>5 DEF UpdateStatesBegin, TypeOK
  <2> QED
    BY <1>4, <1>5, <2>1 DEF UpdateStatesBegin, AsOffset, storage, producers
<1>6. ASSUME NEW h \in Handlers, UpdateStatesApply(h) PROVE CommitInv'
  <2>1. followers' \in [Followers -> OffsetInfo] /\ log' = log /\ Leo(Leader)' = Leo(Leader)
    BY <1>a, <1>6 DEF TypeOK, UpdateStatesApply, Leo
  <2>2. \A f \in Followers : followers'[f] \in Reports(f)
    <3>1. \A f \in Followers : followers'[f] \in Reports(f)'
      BY KnowledgeStep DEF KnowledgeInv
    <3> QED
      BY <2>1, <3>1 DEF Reports, Leo
  <2>3. Everywhere(HwAfter(h, followers'))
    BY <2>1, <2>2, HwAfterEverywhere
  <2>4. hw' = [hw EXCEPT ![Leader] = HwAfter(h, followers')]
    BY <1>6 DEF UpdateStatesApply
  <2>5. hw'[Leader] = HwAfter(h, followers') /\ hw'[Leader] \in Nat
    BY <1>a, <1>b, <2>4 DEF TypeOK
  <2>6. E(hw'[Leader])
    BY <1>c, <2>3, <2>5
  <2>7. \A r \in Replicas : r # Leader => hw'[r] = hw[r]
    BY <1>a, <2>4 DEF TypeOK
  <2>8. \A g \in Handlers : lpos'[g] = lpos[g] \/ lpos'[g] = DefaultInfo
    BY <1>a, <1>6 DEF UpdateStatesApply, TypeOK
  <2>9. UNCHANGED <<ckpt, acked>>
    BY <1>6 DEF UpdateStatesApply, producers
  <2>10. \A g \in Handlers : E(lpos'[g].hw)
    BY <1>e, <1>f, <2>8
  <2>11. \A r \in Replicas : E(hw'[r]) /\ E(ckpt'[r])
    BY <1>e, <2>6, <2>7, <2>9
  <2> QED
    BY <1>e, <1>g, <2>9, <2>10, <2>11
<1>7. ASSUME NEW h \in Handlers, DrainReplicas(h) PROVE CommitInv'
  <2>1. \A g \in Handlers : lpos'[g] = lpos[g] \/ lpos'[g] = AsOffset(Leader)
    BY <1>a, <1>7 DEF DrainReplicas, TypeOK
  <2> QED
    BY <1>4, <1>7, <2>1 DEF DrainReplicas, AsOffset, storage, producers
<1>8. ASSUME NEW h \in Handlers, FollowerUpdates(h) PROVE CommitInv'
  <2>1. \A g \in Handlers : lpos'[g] = lpos[g] \/ lpos'[g] = DefaultInfo
    BY <1>a, <1>8 DEF FollowerUpdates, TypeOK
  <2> QED
    BY <1>4, <1>8, <2>1 DEF FollowerUpdates, storage, producers
<1>9. ASSUME NEW h \in Handlers, FollowerUpdatesReadError(h) PROVE CommitInv'
  <2>1. \A g \in Handlers : lpos'[g] = lpos[g] \/ lpos'[g] = DefaultInfo
    BY <1>a, <1>9 DEF FollowerUpdatesReadError, TypeOK
  <2> QED
    BY <1>4, <1>9, <2>1 DEF FollowerUpdatesReadError, storage, producers
<1>10. ASSUME NEW f \in Followers, SyncFromLeader(f) PROVE CommitInv'
  <2> DEFINE m == Head(outbox[f])
  <2>1. E(m.hw)
    <3>1. m \in SoundUpdates /\ m \in Message
      BY <1>10, HeadUpdate DEF SyncFromLeader
    <3>2. Everywhere(m.hw) /\ m.hw \in Int
      BY <3>1 DEF SoundUpdates, Message, Offset
    <3> QED
      BY <1>c, <3>2
  <2>2. \A r \in Replicas : hw'[r] = hw[r] \/ hw'[r] = m.hw
    BY <1>a, <1>10 DEF SyncFromLeader, HwFromLeader, TypeOK
  <2> HIDE DEF m
  <2>3. UNCHANGED <<ckpt, lpos, acked>>
    BY <1>10 DEF SyncFromLeader, producers
  <2> QED
    BY <1>e, <1>g, <2>1, <2>2, <2>3
<1>11. ASSUME NEW f \in Followers, BreakConnection(f)
       PROVE  \A h \in Handlers : E(lpos'[h].hw)
  <2>1. \A h \in Handlers : \/ lpos'[h] = lpos[h]
                            \/ lpos'[h] = DefaultInfo
                            \/ lpos'[h] = lpos[Cur(f)]
    BY <1>a, <1>11 DEF BreakConnection, TypeOK
  <2>2. Cur(f) \in Handlers
    BY TypeFacts
  <2> QED
    BY <1>e, <1>f, <2>1, <2>2
<1>12. ASSUME NEW f \in Followers, Disconnect(f) PROVE CommitInv'
  <2>1. BreakConnection(f) /\ UNCHANGED <<hw, ckpt, acked>>
    BY <1>12 DEF Disconnect, storage, producers
  <2> QED
    BY <1>e, <1>g, <1>11, <2>1
<1>13. ASSUME NEW f \in Followers, FollowerRestart(f) PROVE CommitInv'
  <2>1. BreakConnection(f) /\ UNCHANGED <<ckpt, acked>>
    BY <1>13 DEF FollowerRestart, producers
  <2>2. \A r \in Replicas : hw'[r] = hw[r] \/ hw'[r] = ckpt[r]
    BY <1>a, <1>13 DEF FollowerRestart, LoadedHw, TypeOK
  <2> QED
    BY <1>e, <1>g, <1>11, <2>1, <2>2
<1>14. ASSUME NEW r \in Replicas, LazyWrite(r) PROVE CommitInv'
  <2>1. \A s \in Replicas : ckpt'[s] = ckpt[s] \/ ckpt'[s] = hw[s]
    BY <1>a, <1>14 DEF LazyWrite, TypeOK
  <2>2. UNCHANGED <<hw, lpos, acked>>
    BY <1>14 DEF LazyWrite, handlers, producers
  <2> QED
    BY <1>e, <1>g, <2>1, <2>2
<1>15. ASSUME LeaderRestart PROVE CommitInv'
  <2>1. \A r \in Replicas : hw'[r] = hw[r] \/ hw'[r] = ckpt[r]
    BY <1>a, <1>15 DEF LeaderRestart, LoadedHw, TypeOK
  <2>2. (\A h \in Handlers : lpos'[h] = DefaultInfo) /\ UNCHANGED <<ckpt, acked>>
    BY <1>15 DEF LeaderRestart
  <2> QED
    BY <1>e, <1>f, <1>g, <2>1, <2>2
<1> QED
  BY <1>1, <1>2, <1>3, <1>5, <1>6, <1>7, <1>8, <1>9, <1>10, <1>12, <1>13, <1>14, <1>15
     DEF Next, ProducerNext, HandlerNext, FollowerNext, vars, handlers, storage, producers,
     NotifyAfterWrite, AckTimeout, NotifyAfterUpdate, HandlerEnd, Connect, Reconcile,
     SyncFromLeaderError, SyncFromLeaderRefused,
     SyncFromLeaderMissing, DropUpdate, ProduceError

-----------------------------------------------------------------------------
(* What is on its way to a follower is a piece of the leader's log. *)

\* A message with the batches of the leader's log from the follower's log end
\* on, or with none, and a high watermark read earlier.
LEMMA SendSound ==
    ASSUME SafetyInv, NEW h \in Handlers, NEW recs \in Seq(Record),
           NeedsUpdate(h), Send(h, recs),
           recs # <<>> =>
               /\ followers[h[1]].leo + Len(recs) <= Leo(Leader)
               /\ \A i \in 1..Len(recs) : recs[i] = log[Leader][followers[h[1]].leo + i]
    PROVE  \A f \in Followers : outbox'[f] \in Seq(SoundUpdates)
<1> DEFINE f == h[1]
           m == [base |-> IF recs = <<>> THEN 0 ELSE followers[f].leo,
                 recs |-> recs, hw |-> lpos[h].hw]
<1>1. f \in Followers /\ followers[f] \in OffsetInfo /\ lpos[h] \in OffsetInfo
  BY TypeFacts DEF SafetyInv, TypeOK
<1>2. m \in Message
  BY <1>1 DEF NeedsUpdate, IsValid, OffsetInfo, Offset, Message
<1>3. Everywhere(m.hw)
  BY DEF SafetyInv, CommitInv
<1>4. m.recs # <<>> => /\ m.base + Len(m.recs) <= Leo(Leader)
                       /\ \A i \in 1..Len(m.recs) : m.recs[i] = log[Leader][m.base + i]
  OBVIOUS
<1>5. outbox' = IF h = Cur(f) THEN [outbox EXCEPT ![f] = Append(outbox[f], m)] ELSE outbox
  BY DEF Send
<1> HIDE DEF m
<1>6. m \in SoundUpdates
  BY <1>2, <1>3, <1>4 DEF SoundUpdates
<1>7. Append(outbox[f], m) \in Seq(SoundUpdates)
  BY <1>1, <1>6, AppendProperties DEF SafetyInv, UpdateInv
<1>8. outbox \in [Followers -> Seq(Message)] /\ \A g \in Followers : outbox[g] \in Seq(SoundUpdates)
  BY DEF SafetyInv, UpdateInv, TypeOK
<1> QED
  BY <1>1, <1>5, <1>7, <1>8

LEMMA UpdateStep ==
    ASSUME SafetyInv, [Next]_vars
    PROVE  UpdateInv'
<1>a. TypeOK /\ TypeOK' /\ LogGrows /\ SoundUpdates \subseteq SoundUpdates'
  BY TypeStep, LogGrowsStep, SoundUpdatesStable DEF SafetyInv
<1>b. ASSUME \A f \in Followers : outbox'[f] \in Seq(SoundUpdates) PROVE UpdateInv'
  BY <1>a, <1>b, SeqMonotonic DEF UpdateInv
<1>c. \A f \in Followers : outbox[f] \in Seq(SoundUpdates)
  BY DEF SafetyInv, UpdateInv
<1>d. \A h \in Handlers : h[1] \in Followers
  BY TypeFacts
<1>1. ASSUME UNCHANGED outbox PROVE UpdateInv'
  BY <1>b, <1>c, <1>1
<1>2. ASSUME NEW h \in Handlers, FollowerUpdates(h) PROVE UpdateInv'
  <2>1. CASE ~NeedsUpdate(h)
    BY <1>1, <1>2, <2>1 DEF FollowerUpdates
  <2>2. ASSUME NeedsUpdate(h), NEW end \in (followers[h[1]].leo + 1)..Leo(Leader),
               Send(h, SubSeq(log[Leader], followers[h[1]].leo + 1, end))
        PROVE  UpdateInv'
    <3> DEFINE n == followers[h[1]].leo
               recs == SubSeq(log[Leader], n + 1, end)
    <3>1. n \in Nat
      BY <1>a, <1>d, <2>2 DEF TypeOK, NeedsUpdate, IsValid, OffsetInfo, Offset
    <3>2. Leo(Leader) \in Nat /\ log[Leader] \in Seq(Record)
      BY <1>a, TypeFacts, LeoType
    <3>3. \A i \in 1..Leo(Leader) : log[Leader][i] \in Record
      BY <3>2, ElementOfSeq DEF Leo
    <3>4. n + 1 \in 1..end + 1 /\ end \in Nat /\ n + 1 <= end /\ end <= Leo(Leader)
      BY <2>2, <3>1, <3>2
    <3>5. \A i \in (n + 1)..end : log[Leader][i] \in Record
      BY <3>1, <3>2, <3>3, <3>4
    <3> HIDE DEF n
    <3>6. /\ recs \in Seq(Record)
          /\ Len(recs) = end - n
          /\ \A i \in 1..Len(recs) : recs[i] = log[Leader][n + i]
      <4>1. /\ SubSeq(log[Leader], n + 1, end) \in Seq(Record)
            /\ Len(SubSeq(log[Leader], n + 1, end)) =
                   IF n + 1 <= end THEN end - (n + 1) + 1 ELSE 0
            /\ \A i \in 1..end - (n + 1) + 1 :
                   SubSeq(log[Leader], n + 1, end)[i] = log[Leader][n + 1 + i - 1]
        BY <3>1, <3>4, <3>5, SubSeqProperties
      <4>2. end - (n + 1) + 1 = end - n /\ \A i \in Int : n + 1 + i - 1 = n + i
        BY <3>1, <3>4
      <4>3. Len(recs) = end - n
        BY <3>4, <4>1, <4>2
      <4>4. ASSUME NEW i \in 1..Len(recs) PROVE recs[i] = log[Leader][n + i]
        BY <4>1, <4>2, <4>3
      <4> QED
        BY <4>1, <4>3, <4>4
    <3>7. n + Len(recs) <= Leo(Leader)
      BY <3>1, <3>2, <3>4, <3>6
    <3>8. Send(h, recs) /\ NeedsUpdate(h) /\ n = followers[h[1]].leo
      BY <2>2 DEF n
    <3> HIDE DEF recs
    <3> QED
      BY <1>b, <3>6, <3>7, <3>8, SendSound
  <2>3. CASE NeedsUpdate(h) /\ Send(h, <<>>)
    BY <1>b, <2>3, EmptySeq, SendSound
  <2> QED
    BY <1>2, <2>1, <2>2, <2>3 DEF FollowerUpdates
<1>3. ASSUME NEW h \in Handlers, FollowerUpdatesReadError(h) PROVE UpdateInv'
  BY <1>b, <1>3, EmptySeq, SendSound DEF FollowerUpdatesReadError
<1>4. ASSUME NEW f \in Followers, outbox[f] # <<>>, outbox' = [outbox EXCEPT ![f] = Tail(outbox[f])]
      PROVE  UpdateInv'
  <2>1. Tail(outbox[f]) \in Seq(SoundUpdates)
    BY <1>4, HeadUpdate
  <2> QED
    BY <1>a, <1>b, <1>c, <1>4, <2>1 DEF TypeOK
<1>5. ASSUME NEW f \in Followers, SyncFromLeader(f) PROVE UpdateInv'
  BY <1>4, <1>5 DEF SyncFromLeader
<1>6. ASSUME NEW f \in Followers, LostUpdate(f) PROVE UpdateInv'
  BY <1>4, <1>6 DEF LostUpdate, DropUpdate, SyncFromLeaderRefused, SyncFromLeaderError, SyncFromLeaderMissing
<1>7. ASSUME NEW f \in Followers, BreakConnection(f) PROVE UpdateInv'
  <2>1. \A g \in Followers : outbox'[g] = outbox[g] \/ outbox'[g] = <<>>
    BY <1>a, <1>7 DEF BreakConnection, TypeOK
  <2> QED
    BY <1>b, <1>c, <2>1, EmptySeq
<1>8. ASSUME LeaderRestart PROVE UpdateInv'
  <2>1. \A f \in Followers : outbox'[f] = <<>>
    BY <1>8 DEF LeaderRestart
  <2> QED
    BY <1>b, <2>1, EmptySeq
<1> QED
  BY <1>1, <1>2, <1>3, <1>5, <1>6, <1>7, <1>8
     DEF Next, ProducerNext, HandlerNext, FollowerNext, LostUpdate, vars, Produce, ProduceError,
     NotifyAfterWrite, Ack, AckTimeout, UpdateStatesBegin, UpdateStatesApply,
     NotifyAfterUpdate, DrainReplicas, HandlerEnd, Connect, Reconcile, Disconnect,
     LazyWrite, FollowerRestart

-----------------------------------------------------------------------------
(* The theorems. *)

\* SafetyInv is inductive.
THEOREM SafetyInvariant == Spec => []SafetyInv
<1>1. Init => SafetyInv
  BY SafetyInit
<1>2. SafetyInv /\ [Next]_vars => SafetyInv'
  <2> SUFFICES ASSUME SafetyInv, [Next]_vars PROVE SafetyInv'
    OBVIOUS
  <2>1. TypeOK'
    BY TypeStep DEF SafetyInv
  <2>2. FollowerLogIsPrefix' /\ KnowledgeInv' /\ CommitInv' /\ UpdateInv' /\ TailInv'
    BY PrefixStep, KnowledgeStep, CommitStep, UpdateStep, TailStep
  <2> QED
    BY <2>1, <2>2 DEF SafetyInv
<1> QED
  BY <1>1, <1>2, PTL DEF Spec

\* The first n batches of a replica are the leader's if the replica has them.
LEMMA EverywhereAgrees ==
    ASSUME SafetyInv, NEW n \in Int, Everywhere(n), NEW s \in Replicas
    PROVE  AgreesUpTo(s, n)
<1>1. n <= Leo(s) /\ Leo(s) \in Nat
  BY LeoType DEF Everywhere, SafetyInv
<1>2. CASE s = Leader
  BY <1>1, <1>2 DEF AgreesUpTo
<1>3. CASE s \in Followers
  <2>1. \A i \in 1..Leo(s) : log[s][i] = log[Leader][i]
    BY <1>3 DEF SafetyInv, FollowerLogIsPrefix, AgreesUpTo
  <2> QED
    BY <1>1, <2>1 DEF AgreesUpTo
<1> QED
  BY <1>2, <1>3 DEF Replicas

\* Whatever is resent, duplicated, reordered with restarts or lost, a follower
\* holds a prefix of the leader's log: write_recordsets' test of the base
\* offset is enough.
THEOREM PrefixTheorem == Spec => []FollowerLogIsPrefix
<1>1. SafetyInv => FollowerLogIsPrefix
  BY DEF SafetyInv
<1> QED
  BY <1>1, SafetyInvariant, PTL

\* What any replica holds to be committed, in memory or on disk, is on every
\* replica with the leader's content.
THEOREM CommittedTheorem == Spec => []CommittedIsReplicated
<1>1. SafetyInv => CommittedIsReplicated
  <2> SUFFICES ASSUME SafetyInv, NEW r \in Replicas, NEW s \in Replicas
               PROVE  AgreesUpTo(s, hw[r]) /\ AgreesUpTo(s, ckpt[r])
    BY DEF CommittedIsReplicated
  <2>1. hw[r] \in Int /\ ckpt[r] \in Int /\ Everywhere(hw[r]) /\ Everywhere(ckpt[r])
    BY DEF SafetyInv, CommitInv, TypeOK
  <2> QED
    BY <2>1, EverywhereAgrees
<1> QED
  BY <1>1, SafetyInvariant, PTL

\* A batch acknowledged to a waiting producer is on every replica for good.
THEOREM AckedTheorem == Spec => []AckedIsReplicated
<1>1. SafetyInv => AckedIsReplicated
  <2> SUFFICES ASSUME SafetyInv, NEW r \in Replicas PROVE AgreesUpTo(r, acked)
    BY DEF AckedIsReplicated
  <2>1. acked \in Int /\ Everywhere(acked)
    BY DEF SafetyInv, CommitInv, TypeOK
  <2> QED
    BY <2>1, EverywhereAgrees
<1> QED
  BY <1>1, SafetyInvariant, PTL

-----------------------------------------------------------------------------
(***************************************************************************)
(* The high watermark only moves forward between two restarts, although a  *)
(* handler computes it from offsets it read before it took the lock.  The  *)
(* invariant HwInv says why: a handler that is about to apply a report     *)
(* either read the high watermark as it still is, or another handler has   *)
(* moved it since, and then all followers are known to have reached it, so *)
(* that compute_hw cannot answer with less.                                *)
(***************************************************************************)

LEMMA OrderInit == Init => HwInv
<1> SUFFICES ASSUME Init PROVE HwInv
  OBVIOUS
<1>1. Leader \in Replicas
  BY TypeFacts
<1>2. hw[Leader] = 0
  BY <1>1 DEF Init
<1> QED
  BY <1>2 DEF Init, HwInv, DefaultInfo

\* What the write-locked part of update_states_from_followers does to the
\* high watermark and to what is known of the followers.
LEMMA ApplyMovesForward ==
    ASSUME IndInv, NEW h \in Handlers, UpdateStatesApply(h)
    PROVE  /\ hw'[Leader] \in Nat /\ hw'[Leader] >= hw[Leader]
           /\ \/ hw'[Leader] = hw[Leader]
              \/ \A f \in Followers : hw'[Leader] <= followers'[f].leo
           /\ \A f \in Followers : /\ followers'[f].leo >= followers[f].leo
                                   /\ followers'[f].leo \in Int
                                   /\ followers'[f].hw <= hw[Leader]
                                   /\ followers'[f].hw \in Int
<1>1. TypeOK /\ Leader \in Replicas /\ h[1] \in Followers
  BY TypeFacts DEF IndInv, SafetyInv
<1>2. hw[Leader] \in Nat /\ lpos[h] \in OffsetInfo /\ lpos[h].hw \in Offset /\ lpos[h].hw \in Int
  BY <1>1 DEF TypeOK, OffsetInfo, Offset
<1> DEFINE o == followers[h[1]]
           p == fpos[h]
<1>3. o \in OffsetInfo /\ p \in OffsetInfo /\ o.hw <= hw[Leader] /\ p.hw <= hw[Leader]
  BY <1>1 DEF TypeOK, IndInv, HwInv
<1>4. \A f \in Followers : followers'[f] = IF f = h[1] THEN Update(o, p) ELSE followers[f]
  BY <1>1 DEF UpdateStatesApply, TypeOK
<1> HIDE DEF o, p
<1>5. Update(o, p) \in OffsetInfo /\ Update(o, p).leo >= o.leo /\ Update(o, p).hw <= hw[Leader]
  BY <1>2, <1>3, UpdateType DEF OffsetInfo, Offset
<1>6. \A f \in Followers : /\ followers[f] \in OffsetInfo /\ followers[f].leo \in Int
                           /\ followers[f].hw \in Int /\ followers[f].hw <= hw[Leader]
  BY <1>1 DEF TypeOK, OffsetInfo, Offset, IndInv, HwInv
<1>7. \A f \in Followers : /\ followers'[f] \in OffsetInfo
                           /\ followers'[f].leo >= followers[f].leo
                           /\ followers'[f].hw <= hw[Leader]
  BY <1>4, <1>5, <1>6 DEF o
<1>8. \A f \in Followers : followers'[f].leo \in Int /\ followers'[f].hw \in Int
  BY <1>7 DEF OffsetInfo, Offset
<1>9. followers' \in [Followers -> OffsetInfo]
  BY <1>1, <1>5 DEF UpdateStatesApply, TypeOK, o, p
<1> DEFINE c == ComputeHw(lpos[h].hw, InSyncReplica, Leos(followers'))
<1>10. \/ c = None
       \/ /\ c \in Nat /\ c > lpos[h].hw
          /\ \A f \in Followers : c <= Leos(followers')[f]
          /\ \E f \in Followers : c = Leos(followers')[f]
  <2>1. Leos(followers') \in [Followers -> Offset]
    BY <1>9 DEF Leos, OffsetInfo
  <2> QED
    BY <1>2, <2>1, ComputeHwIsLeast
<1>11. \A f \in Followers : Leos(followers')[f] = followers'[f].leo
  BY DEF Leos
<1>12. hw'[Leader] = hw[Leader] \/ (c # None /\ hw'[Leader] = c)
  BY <1>1 DEF UpdateStatesApply, HwAfter, TypeOK
<1> HIDE DEF c
<1>13. \/ hw[Leader] <= lpos[h].hw
       \/ \A f \in Followers : hw[Leader] <= followers[f].leo
  BY DEF IndInv, HwInv, UpdateStatesApply
<1>14. CASE hw'[Leader] = hw[Leader]
  BY <1>2, <1>7, <1>8, <1>14
<1>15. CASE c # None /\ hw'[Leader] = c
  <2>1. c \in Nat /\ c > lpos[h].hw /\ \A f \in Followers : c <= followers'[f].leo
    BY <1>10, <1>11, <1>15
  <2>2. PICK f \in Followers : c = followers'[f].leo
    BY <1>10, <1>11, <1>15
  <2>3. c >= hw[Leader]
    BY <1>2, <1>6, <1>7, <1>8, <1>13, <2>1, <2>2
  <2> QED
    BY <1>7, <1>8, <1>15, <2>1, <2>3
<1> QED
  BY <1>12, <1>14, <1>15

LEMMA OrderStep ==
    ASSUME IndInv, [Next]_vars
    PROVE  HwInv' /\ (restarts' = restarts => hw'[Leader] >= hw[Leader])
<1>a. TypeOK /\ Leader \in Replicas /\ Followers \subseteq Replicas
  BY TypeFacts DEF IndInv, SafetyInv
<1>b. hw[Leader] \in Nat
  BY <1>a DEF TypeOK
<1>c. \A f \in Followers : f # Leader /\ Cur(f) \in Handlers /\ Old(f) \in Handlers
  BY TypeFacts
<1>d. \A h \in Handlers : h[1] \in Followers
  BY TypeFacts
<1>e. HwInv
  BY DEF IndInv
<1>1. ASSUME hw'[Leader] = hw[Leader], UNCHANGED followers,
             \A h \in Handlers :
                 \E g \in Handlers :
                     /\ fpos'[h].hw = fpos[g].hw \/ fpos'[h].hw = -1
                     /\ pc'[h] = "apply" => pc[g] = "apply" /\ lpos'[h] = lpos[g]
      PROVE  HwInv' /\ hw'[Leader] >= hw[Leader]
  BY <1>b, <1>e, <1>1 DEF HwInv
<1>2. ASSUME hw'[Leader] = hw[Leader], UNCHANGED <<followers, fpos, lpos, pc>>
      PROVE  HwInv' /\ hw'[Leader] >= hw[Leader]
  BY <1>1, <1>2
<1>3. ASSUME NEW rec \in Record, Produce(rec) PROVE HwInv' /\ hw'[Leader] >= hw[Leader]
  <2>1. CASE InSyncReplica # 1
    BY <1>2, <1>3, <2>1 DEF Produce, handlers
  <2>2. CASE InSyncReplica = 1
    <3>1. IsFiniteSet(Followers) /\ Cardinality(Followers) \in Nat
      BY ReplicaAssumption, FS_CardinalityType
    <3>2. Cardinality(Followers) = 0
      BY <2>2, <3>1 DEF InSyncReplica
    <3>3. Followers = {}
      BY <3>1, <3>2, FS_EmptySet
    <3>4. Handlers = {}
      BY <1>d, <3>3
    <3>5. hw'[Leader] = Leo(Leader) + 1 /\ Leo(Leader) \in Nat
      BY <1>a, <1>3, <2>2, LeoType DEF Produce, TypeOK
    <3>6. hw[Leader] <= Leo(Leader)
      BY <1>a DEF IndInv, SafetyInv, CommitInv, Everywhere
    <3>7. HwInv'
      BY <3>3, <3>4 DEF HwInv
    <3> QED
      BY <1>b, <3>5, <3>6, <3>7
  <2> QED
    BY <2>1, <2>2
<1>4. ASSUME NEW h \in Handlers, UpdateStatesBegin(h) PROVE HwInv' /\ hw'[Leader] >= hw[Leader]
  <2>1. CASE IsAhead(Head(inbox[h]))
    BY <1>2, <1>4, <2>1 DEF UpdateStatesBegin, storage
  <2>2. CASE ~IsAhead(Head(inbox[h]))
    <3>1. Head(inbox[h]) \in OffsetInfo
      BY <1>a, <1>4, HeadTailProperties DEF UpdateStatesBegin, TypeOK
    <3>2. Head(inbox[h]).hw <= hw[Leader]
      BY <1>b, <2>2, <3>1 DEF IsAhead, Newer, AsOffset, OffsetInfo, Offset
    <3>3. /\ \A g \in Handlers : /\ pc'[g] = IF g = h THEN "apply" ELSE pc[g]
                                 /\ fpos'[g] = IF g = h THEN Head(inbox[h]) ELSE fpos[g]
                                 /\ lpos'[g] = IF g = h THEN AsOffset(Leader) ELSE lpos[g]
          /\ followers' = followers /\ hw' = hw
      BY <1>a, <1>4, <2>2 DEF UpdateStatesBegin, TypeOK, storage
    <3>4. AsOffset(Leader).hw = hw[Leader]
      BY DEF AsOffset
    <3> QED
      BY <1>b, <1>e, <3>2, <3>3, <3>4 DEF HwInv
  <2> QED
    BY <2>1, <2>2
<1>5. ASSUME NEW h \in Handlers, UpdateStatesApply(h) PROVE HwInv' /\ hw'[Leader] >= hw[Leader]
  <2>1. /\ hw'[Leader] \in Nat /\ hw'[Leader] >= hw[Leader]
        /\ \/ hw'[Leader] = hw[Leader]
           \/ \A f \in Followers : hw'[Leader] <= followers'[f].leo
    BY <1>5, ApplyMovesForward
  <2>2. \A f \in Followers : /\ followers'[f].leo >= followers[f].leo
                             /\ followers'[f].leo \in Int
                             /\ followers'[f].hw <= hw[Leader]
                             /\ followers'[f].hw \in Int
    BY <1>5, ApplyMovesForward
  <2>3. \A g \in Handlers : /\ pc'[g] = IF g = h THEN "notify" ELSE pc[g]
                            /\ fpos'[g] = IF g = h THEN DefaultInfo ELSE fpos[g]
                            /\ lpos'[g] = IF g = h THEN DefaultInfo ELSE lpos[g]
    BY <1>a, <1>5 DEF UpdateStatesApply, TypeOK
  <2>4. \A f \in Followers : followers[f].leo \in Int
    BY <1>a DEF TypeOK, OffsetInfo, Offset
  <2>5. \A g \in Handlers : fpos[g].hw \in Int /\ lpos[g].hw \in Int
    BY <1>a DEF TypeOK, OffsetInfo, Offset
  <2>6. \A f \in Followers : followers'[f].hw <= hw'[Leader]
    BY <1>b, <2>1, <2>2
  <2>7. \A g \in Handlers : fpos'[g].hw <= hw'[Leader]
    BY <1>b, <1>e, <2>1, <2>3, <2>5 DEF HwInv, DefaultInfo
  <2>8. ASSUME NEW g \in Handlers, pc'[g] = "apply"
        PROVE  hw'[Leader] <= lpos'[g].hw \/ \A f \in Followers : hw'[Leader] <= followers'[f].leo
    <3>1. g # h /\ pc[g] = "apply" /\ lpos'[g] = lpos[g]
      BY <2>3, <2>8
    <3>2. hw[Leader] <= lpos[g].hw \/ \A f \in Followers : hw[Leader] <= followers[f].leo
      BY <1>e, <3>1 DEF HwInv
    <3> QED
      BY <1>b, <2>1, <2>2, <2>4, <3>1, <3>2
  <2> QED
    BY <2>1, <2>6, <2>7, <2>8 DEF HwInv
<1>6. ASSUME NEW h \in Handlers, NotifyAfterUpdate(h) PROVE HwInv' /\ hw'[Leader] >= hw[Leader]
  BY <1>a, <1>1, <1>6 DEF NotifyAfterUpdate, TypeOK, storage
<1>7. ASSUME NEW h \in Handlers, DrainReplicas(h) PROVE HwInv' /\ hw'[Leader] >= hw[Leader]
  BY <1>a, <1>1, <1>7 DEF DrainReplicas, TypeOK, storage
<1>8. ASSUME NEW h \in Handlers, FollowerUpdates(h) \/ FollowerUpdatesReadError(h)
      PROVE  HwInv' /\ hw'[Leader] >= hw[Leader]
  BY <1>a, <1>1, <1>8 DEF FollowerUpdates, FollowerUpdatesReadError, TypeOK, storage
<1>9. ASSUME NEW f \in Followers, HandlerEnd(f) \/ Connect(f)
      PROVE  HwInv' /\ hw'[Leader] >= hw[Leader]
  BY <1>a, <1>1, <1>9 DEF HandlerEnd, Connect, TypeOK, storage
<1>10. ASSUME NEW f \in Followers, SyncFromLeader(f) PROVE HwInv' /\ hw'[Leader] >= hw[Leader]
  <2>1. hw'[Leader] = hw[Leader]
    BY <1>a, <1>c, <1>10 DEF SyncFromLeader, TypeOK
  <2> QED
    BY <1>2, <1>10, <2>1 DEF SyncFromLeader
<1>11. ASSUME NEW f \in Followers, BreakConnection(f), UNCHANGED followers, hw'[Leader] = hw[Leader]
       PROVE  HwInv' /\ hw'[Leader] >= hw[Leader]
  <2>1. Cur(f) \in Handlers /\ Old(f) \in Handlers /\ Cur(f) # Old(f)
    BY TypeFacts
  <2>2. \A h \in Handlers :
            \/ fpos'[h] = fpos[h] /\ pc'[h] = pc[h] /\ lpos'[h] = lpos[h]
            \/ fpos'[h] = DefaultInfo /\ pc'[h] = "closed"
            \/ fpos'[h] = fpos[Cur(f)] /\ pc'[h] = pc[Cur(f)] /\ lpos'[h] = lpos[Cur(f)]
    BY <1>a, <1>11, <2>1 DEF BreakConnection, TypeOK
  <2> QED
    BY <1>1, <1>11, <2>1, <2>2 DEF DefaultInfo
<1>12. ASSUME NEW f \in Followers, Disconnect(f) PROVE HwInv' /\ hw'[Leader] >= hw[Leader]
  BY <1>11, <1>12 DEF Disconnect, storage
<1>13. ASSUME NEW f \in Followers, FollowerRestart(f) PROVE HwInv' /\ hw'[Leader] >= hw[Leader]
  <2>1. hw'[Leader] = hw[Leader]
    BY <1>a, <1>c, <1>13 DEF FollowerRestart, TypeOK
  <2> QED
    BY <1>11, <1>13, <2>1 DEF FollowerRestart
<1>14. ASSUME LeaderRestart PROVE HwInv' /\ restarts' # restarts
  <2>1. hw'[Leader] \in Nat
    BY <1>a, <1>14 DEF LeaderRestart, LoadedHw, TypeOK
  <2>2. /\ \A f \in Followers : followers'[f] = DefaultInfo
        /\ \A h \in Handlers : fpos'[h] = DefaultInfo /\ pc'[h] = "closed"
    BY <1>14 DEF LeaderRestart
  <2>3. restarts' # restarts
    BY <1>a, <1>14 DEF LeaderRestart, TypeOK
  <2> QED
    BY <2>1, <2>2, <2>3 DEF HwInv, DefaultInfo
<1> QED
  BY <1>2, <1>3, <1>4, <1>5, <1>6, <1>7, <1>8, <1>9, <1>10, <1>12, <1>13, <1>14
     DEF Next, ProducerNext, HandlerNext, FollowerNext, vars, handlers, storage,
     NotifyAfterWrite, Ack, AckTimeout, Reconcile, SyncFromLeaderError, SyncFromLeaderRefused,
     SyncFromLeaderMissing, DropUpdate, ProduceError, LazyWrite

-----------------------------------------------------------------------------
(* No report is ahead of a leader that has not restarted. *)

LEMMA BehindInit == Init => BehindInv
<1> SUFFICES ASSUME Init PROVE BehindInv
  OBVIOUS
<1>1. \A r \in Replicas : hw[r] = 0 /\ ckpt[r] = 0
  BY DEF Init
<1>2. \A h \in Handlers : lpos[h] = DefaultInfo /\ inbox[h] = <<>>
  BY DEF Init
<1>3. \A f \in Followers : outbox[f] = <<>>
  BY DEF Init
<1>4. Leader \in Replicas /\ <<>> \in Seq(PastReports) /\ <<>> \in Seq(PastUpdates)
  BY TypeFacts, EmptySeq
<1>5. \A r \in Replicas : hw[r] <= hw[Leader] /\ ckpt[r] <= hw[Leader]
  BY <1>1, <1>4
<1>6. \A h \in Handlers : lpos[h].hw <= hw[Leader]
  BY <1>1, <1>2, <1>4 DEF DefaultInfo
<1>7. \A h \in Handlers : inbox[h] \in Seq(PastReports)
  BY <1>2, <1>4, Zenon
<1>8. \A f \in Followers : outbox[f] \in Seq(PastUpdates)
  BY <1>3, <1>4, Zenon
<1> QED
  BY <1>5, <1>6, <1>7, <1>8 DEF BehindInv

\* What a follower's high watermark becomes.
LEMMA BehindHw ==
    ASSUME IndInv, BehindInv, restarts = 0, [Next]_vars, ~LeaderRestart,
           hw'[Leader] \in Nat, hw[Leader] <= hw'[Leader]
    PROVE  \A r \in Replicas : hw'[r] <= hw'[Leader] /\ ckpt'[r] <= hw'[Leader]
<1>a. TypeOK /\ Leader \in Replicas /\ Followers \subseteq Replicas
  BY TypeFacts DEF IndInv, SafetyInv
<1>b. \A r \in Replicas : /\ hw[r] \in Nat /\ ckpt[r] \in Nat
                          /\ hw[r] <= hw'[Leader] /\ ckpt[r] <= hw'[Leader]
  BY <1>a DEF TypeOK, BehindInv
<1>c. \A f \in Followers : outbox[f] \in Seq(PastUpdates)
  BY DEF BehindInv
<1>1. ASSUME NEW f \in Followers, SyncFromLeader(f)
      PROVE  \A r \in Replicas : hw'[r] <= hw'[Leader] /\ ckpt'[r] <= hw'[Leader]
  <2> DEFINE m == Head(outbox[f])
  <2>1. m \in PastUpdates
    BY <1>c, <1>1, HeadTailProperties DEF SyncFromLeader
  <2>2. m.hw \in Int /\ m.hw <= hw'[Leader]
    BY <1>a, <1>b, <2>1 DEF PastUpdates, Message, Offset
  <2>3. /\ \A r \in Replicas : hw'[r] = hw[r] \/ hw'[r] = m.hw
        /\ ckpt' = ckpt
    BY <1>a, <1>1 DEF SyncFromLeader, HwFromLeader, TypeOK
  <2> QED
    BY <1>b, <2>2, <2>3
<1>2. ASSUME ckpt' = ckpt, \A r \in Replicas : hw'[r] \in {hw[r], ckpt[r], hw'[Leader]}
      PROVE  \A r \in Replicas : hw'[r] <= hw'[Leader] /\ ckpt'[r] <= hw'[Leader]
  BY <1>b, <1>2
<1>3. ASSUME NEW rec \in Record, Produce(rec)
      PROVE  \A r \in Replicas : hw'[r] <= hw'[Leader] /\ ckpt'[r] <= hw'[Leader]
  BY <1>a, <1>2, <1>3 DEF Produce, TypeOK
<1>4. ASSUME NEW h \in Handlers, UpdateStatesApply(h)
      PROVE  \A r \in Replicas : hw'[r] <= hw'[Leader] /\ ckpt'[r] <= hw'[Leader]
  <2>1. hw' = [hw EXCEPT ![Leader] = HwAfter(h, followers')] /\ ckpt' = ckpt
    BY <1>4 DEF UpdateStatesApply
  <2>2. \A r \in Replicas : hw'[r] = hw[r] \/ r = Leader
    BY <1>a, <2>1 DEF TypeOK
  <2> QED
    BY <1>2, <2>1, <2>2
<1>5. ASSUME NEW f \in Followers, FollowerRestart(f)
      PROVE  \A r \in Replicas : hw'[r] <= hw'[Leader] /\ ckpt'[r] <= hw'[Leader]
  BY <1>a, <1>2, <1>5 DEF FollowerRestart, LoadedHw, TypeOK
<1>6. ASSUME NEW s \in Replicas, LazyWrite(s)
      PROVE  \A r \in Replicas : hw'[r] <= hw'[Leader] /\ ckpt'[r] <= hw'[Leader]
  <2>1. hw' = hw /\ \A r \in Replicas : ckpt'[r] = ckpt[r] \/ ckpt'[r] = hw[r]
    BY <1>a, <1>6 DEF LazyWrite, TypeOK
  <2> QED
    BY <1>b, <2>1
<1>7. ASSUME UNCHANGED <<hw, ckpt>>
      PROVE  \A r \in Replicas : hw'[r] <= hw'[Leader] /\ ckpt'[r] <= hw'[Leader]
  BY <1>b, <1>7
<1> QED
  BY <1>1, <1>3, <1>4, <1>5, <1>6, <1>7
     DEF Next, ProducerNext, HandlerNext, FollowerNext, vars, storage, NotifyAfterWrite, Ack, AckTimeout,
     UpdateStatesBegin, NotifyAfterUpdate, DrainReplicas, FollowerUpdates,
     FollowerUpdatesReadError, Connect, Reconcile, SyncFromLeaderError, SyncFromLeaderRefused,
     SyncFromLeaderMissing, DropUpdate, ProduceError, Disconnect, HandlerEnd

LEMMA BehindHandlers ==
    ASSUME IndInv, BehindInv, restarts = 0, [Next]_vars, ~LeaderRestart,
           hw'[Leader] \in Nat, hw[Leader] <= hw'[Leader]
    PROVE  \A h \in Handlers : lpos'[h].hw <= hw'[Leader]
<1>a. TypeOK /\ Leader \in Replicas /\ hw[Leader] \in Nat
  BY TypeFacts DEF IndInv, SafetyInv, TypeOK
<1>b. \A h \in Handlers : lpos[h].hw \in Int /\ lpos[h].hw <= hw[Leader]
  BY <1>a DEF TypeOK, OffsetInfo, Offset, BehindInv
<1>c. \A f \in Followers : Cur(f) \in Handlers /\ Old(f) \in Handlers
  BY TypeFacts
<1>1. ASSUME \A h \in Handlers : \/ lpos'[h] \in {DefaultInfo, AsOffset(Leader)}
                                \/ \E g \in Handlers : lpos'[h] = lpos[g]
      PROVE  \A h \in Handlers : lpos'[h].hw <= hw'[Leader]
  BY <1>a, <1>b, <1>1 DEF DefaultInfo, AsOffset
<1>2. ASSUME UNCHANGED lpos PROVE \A h \in Handlers : lpos'[h].hw <= hw'[Leader]
  BY <1>1, <1>2
<1>3. ASSUME NEW h \in Handlers,
             \/ UpdateStatesBegin(h) \/ UpdateStatesApply(h) \/ DrainReplicas(h)
             \/ FollowerUpdates(h) \/ FollowerUpdatesReadError(h)
      PROVE  \A g \in Handlers : lpos'[g].hw <= hw'[Leader]
  <2>1. \A g \in Handlers : lpos'[g] \in {lpos[g], DefaultInfo, AsOffset(Leader)}
    BY <1>a, <1>3 DEF UpdateStatesBegin, UpdateStatesApply, DrainReplicas, FollowerUpdates,
       FollowerUpdatesReadError, TypeOK
  <2> QED
    BY <1>1, <2>1
<1>4. ASSUME NEW f \in Followers, BreakConnection(f)
      PROVE  \A h \in Handlers : lpos'[h].hw <= hw'[Leader]
  <2>1. \A h \in Handlers : lpos'[h] \in {lpos[h], DefaultInfo, lpos[Cur(f)]}
    BY <1>a, <1>c, <1>4 DEF BreakConnection, TypeOK
  <2> QED
    BY <1>1, <1>c, <2>1
<1> QED
  BY <1>2, <1>3, <1>4
     DEF Next, ProducerNext, HandlerNext, FollowerNext, vars, handlers, Produce, NotifyAfterWrite,
     Ack, AckTimeout, NotifyAfterUpdate, Connect, Reconcile, SyncFromLeader, SyncFromLeaderError, SyncFromLeaderRefused,
     SyncFromLeaderMissing, DropUpdate, ProduceError,
     Disconnect, FollowerRestart, HandlerEnd, LazyWrite

LEMMA BehindReports ==
    ASSUME IndInv, BehindInv, restarts = 0, [Next]_vars, ~LeaderRestart,
           hw'[Leader] \in Nat, hw[Leader] <= hw'[Leader]
    PROVE  \A h \in Handlers : inbox'[h] \in Seq(PastReports')
<1>a. TypeOK /\ TypeOK' /\ Leader \in Replicas /\ Followers \subseteq Replicas /\ hw[Leader] \in Nat
  BY TypeFacts, TypeStep DEF IndInv, SafetyInv, TypeOK
<1>b. PastReports \subseteq PastReports'
  BY <1>a DEF PastReports, OffsetInfo, Offset
<1>c. \A h \in Handlers : inbox[h] \in Seq(PastReports')
  BY <1>b, SeqMonotonic DEF BehindInv
<1>d. <<>> \in Seq(PastReports')
  BY EmptySeq
<1>e. \A f \in Followers : Cur(f) \in Handlers /\ Old(f) \in Handlers
  BY TypeFacts
<1>f. \A f \in Followers : AsOffset(f) \in PastReports' /\ AsOffset(f)' \in PastReports'
  <2>1. \A f \in Followers : AsOffset(f) \in PastReports
    BY <1>a, LeoType DEF PastReports, BehindInv, AsOffset
  <2>2. ASSUME NEW f \in Followers PROVE AsOffset(f)' \in PastReports'
    <3>1. hw'[f] <= hw'[Leader]
      BY <1>a, BehindHw
    <3>2. Len(log'[f]) \in Nat /\ hw'[f] \in Nat
      BY <1>a, LenProperties DEF TypeOK
    <3> QED
      BY <3>1, <3>2 DEF PastReports, AsOffset, Leo, OffsetInfo, Offset
  <2> QED
    BY <1>b, <2>1, <2>2
<1>1. ASSUME \A h \in Handlers : \/ inbox'[h] = <<>>
                                \/ \E g \in Handlers : inbox'[h] = inbox[g]
      PROVE  \A h \in Handlers : inbox'[h] \in Seq(PastReports')
  BY <1>c, <1>d, <1>1
<1>2. ASSUME UNCHANGED inbox PROVE \A h \in Handlers : inbox'[h] \in Seq(PastReports')
  BY <1>c, <1>2
<1>3. ASSUME NEW h \in Handlers, UpdateStatesBegin(h)
      PROVE  \A g \in Handlers : inbox'[g] \in Seq(PastReports')
  <2>1. Tail(inbox[h]) \in Seq(PastReports')
    BY <1>c, <1>3, HeadTailProperties DEF UpdateStatesBegin
  <2>2. \A g \in Handlers : inbox'[g] \in {inbox[g], Tail(inbox[h])}
    BY <1>a, <1>3 DEF UpdateStatesBegin, TypeOK
  <2> QED
    BY <1>c, <2>1, <2>2
<1>4. ASSUME NEW f \in Followers, NEW s \in Seq(PastReports'), inbox' = [inbox EXCEPT ![Cur(f)] = s]
      PROVE  \A h \in Handlers : inbox'[h] \in Seq(PastReports')
  <2>1. \A h \in Handlers : inbox'[h] = inbox[h] \/ inbox'[h] = s
    BY <1>a, <1>4 DEF TypeOK
  <2> QED
    BY <1>c, <1>4, <2>1
<1>5. ASSUME NEW f \in Followers, Connect(f)
      PROVE  \A h \in Handlers : inbox'[h] \in Seq(PastReports')
  <2>1. <<AsOffset(f)>> \in Seq(PastReports')
    BY <1>f
  <2> QED
    BY <1>4, <1>5, <2>1 DEF Connect
<1>6. ASSUME NEW f \in Followers, Reconcile(f)
      PROVE  \A h \in Handlers : inbox'[h] \in Seq(PastReports')
  <2>1. Append(inbox[Cur(f)], AsOffset(f)) \in Seq(PastReports')
    BY <1>c, <1>e, <1>f, AppendProperties
  <2> QED
    BY <1>4, <1>6, <2>1 DEF Reconcile
<1>7. ASSUME NEW f \in Followers, SyncFromLeader(f)
      PROVE  \A h \in Handlers : inbox'[h] \in Seq(PastReports')
  <2>1. Append(inbox[Cur(f)], AsOffset(f)') \in Seq(PastReports')
    BY <1>c, <1>e, <1>f, AppendProperties
  <2>2. \/ inbox' = inbox
        \/ inbox' = [inbox EXCEPT ![Cur(f)] = Append(inbox[Cur(f)], AsOffset(f)')]
    <3> DEFINE flog == WriteRecordsets(f, Head(outbox[f]))
               fhw == HwFromLeader(f, Head(outbox[f]), Len(flog))
    <3>1. /\ log' = [log EXCEPT ![f] = flog]
          /\ hw' = [hw EXCEPT ![f] = fhw]
          /\ \/ inbox' = inbox
             \/ inbox' = [inbox EXCEPT ![Cur(f)] =
                             Append(inbox[Cur(f)], [hw |-> fhw, leo |-> Len(flog)])]
      BY <1>7 DEF SyncFromLeader
    <3> HIDE DEF flog, fhw
    <3>2. AsOffset(f)' = [hw |-> fhw, leo |-> Len(flog)]
      BY <1>a, <3>1 DEF TypeOK, AsOffset, Leo
    <3> QED
      BY <3>1, <3>2
  <2> QED
    BY <1>2, <1>4, <2>1, <2>2
<1>8. ASSUME NEW f \in Followers, BreakConnection(f) \/ HandlerEnd(f)
      PROVE  \A h \in Handlers : inbox'[h] \in Seq(PastReports')
  <2>1. \A h \in Handlers : inbox'[h] \in {inbox[h], <<>>, inbox[Cur(f)]}
    <3>1. CASE BreakConnection(f)
      BY <1>a, <1>e, <3>1 DEF BreakConnection, TypeOK
    <3>2. CASE HandlerEnd(f)
      BY <1>a, <1>e, <3>2 DEF HandlerEnd, TypeOK
    <3> QED
      BY <1>8, <3>1, <3>2
  <2> QED
    BY <1>1, <1>e, <2>1
<1> QED
  BY <1>2, <1>3, <1>5, <1>6, <1>7, <1>8
     DEF Next, ProducerNext, HandlerNext, FollowerNext, vars, handlers, Produce, NotifyAfterWrite,
     Ack, AckTimeout, UpdateStatesApply, NotifyAfterUpdate, DrainReplicas, FollowerUpdates,
     FollowerUpdatesReadError, SyncFromLeaderError, SyncFromLeaderRefused,
     SyncFromLeaderMissing, DropUpdate, ProduceError, Disconnect, FollowerRestart, LazyWrite

LEMMA BehindUpdates ==
    ASSUME IndInv, BehindInv, restarts = 0, [Next]_vars, ~LeaderRestart,
           hw'[Leader] \in Nat, hw[Leader] <= hw'[Leader]
    PROVE  \A f \in Followers : outbox'[f] \in Seq(PastUpdates')
<1>a. TypeOK /\ TypeOK' /\ hw[Leader] \in Nat
  BY TypeFacts, TypeStep DEF IndInv, SafetyInv, TypeOK
<1>b. PastUpdates \subseteq PastUpdates'
  BY <1>a DEF PastUpdates, Message, Offset
<1>c. \A f \in Followers : outbox[f] \in Seq(PastUpdates')
  BY <1>b, SeqMonotonic DEF BehindInv
<1>d. <<>> \in Seq(PastUpdates')
  BY EmptySeq
<1>1. ASSUME UNCHANGED outbox PROVE \A f \in Followers : outbox'[f] \in Seq(PastUpdates')
  BY <1>c, <1>1
<1>2. ASSUME NEW h \in Handlers, NEW recs, Send(h, recs), UNCHANGED hw
      PROVE  \A f \in Followers : outbox'[f] \in Seq(PastUpdates')
  <2> DEFINE m == [base |-> IF recs = <<>> THEN 0 ELSE followers[h[1]].leo,
                   recs |-> recs, hw |-> lpos[h].hw]
  <2>1. h[1] \in Followers
    BY TypeFacts
  <2>2. CASE outbox' = outbox
    BY <1>1, <2>2
  <2>3. CASE outbox' = [outbox EXCEPT ![h[1]] = Append(@, m)]
    <3>1. outbox'[h[1]] = Append(outbox[h[1]], m) /\ outbox'[h[1]] \in Seq(Message)
      BY <1>a, <2>1, <2>3 DEF TypeOK
    <3>2. m \in Message
      <4>1. outbox[h[1]] \in Seq(Message)
        BY <1>a, <2>1 DEF TypeOK
      <4> HIDE DEF m
      <4>2. Len(outbox[h[1]]) \in Nat /\ Len(outbox'[h[1]]) = Len(outbox[h[1]]) + 1
        BY <3>1, <4>1
      <4>3. outbox'[h[1]][Len(outbox[h[1]]) + 1] = m
        BY <3>1, <4>1
      <4> QED
        BY <3>1, <4>2, <4>3, ElementOfSeq
    <3>3. m.hw <= hw[Leader]
      BY DEF BehindInv
    <3>4. m \in PastUpdates'
      BY <1>2, <1>b, <3>2, <3>3 DEF PastUpdates
    <3> HIDE DEF m
    <3>5. Append(outbox[h[1]], m) \in Seq(PastUpdates')
      BY <1>c, <2>1, <3>4, AppendProperties
    <3>6. \A f \in Followers : outbox'[f] = outbox[f] \/ outbox'[f] = Append(outbox[h[1]], m)
      BY <1>a, <2>3 DEF TypeOK
    <3> QED
      BY <1>c, <3>5, <3>6
  <2> QED
    BY <1>2, <2>2, <2>3 DEF Send
<1>3. ASSUME NEW h \in Handlers, FollowerUpdates(h) \/ FollowerUpdatesReadError(h)
      PROVE  \A f \in Followers : outbox'[f] \in Seq(PastUpdates')
  <2>1. outbox' = outbox \/ \E recs : Send(h, recs)
    BY <1>3, Zenon DEF FollowerUpdates, FollowerUpdatesReadError
  <2>2. UNCHANGED hw
    BY <1>3 DEF FollowerUpdates, FollowerUpdatesReadError, storage
  <2> QED
    BY <1>1, <1>2, <2>1, <2>2
<1>4. ASSUME NEW f \in Followers, outbox[f] # <<>>, outbox' = [outbox EXCEPT ![f] = Tail(outbox[f])]
      PROVE  \A g \in Followers : outbox'[g] \in Seq(PastUpdates')
  <2>1. Tail(outbox[f]) \in Seq(PastUpdates')
    BY <1>c, <1>4, HeadTailProperties
  <2>2. \A g \in Followers : outbox'[g] = outbox[g] \/ outbox'[g] = Tail(outbox[f])
    BY <1>a, <1>4 DEF TypeOK
  <2> QED
    BY <1>c, <2>1, <2>2
<1>5. ASSUME NEW f \in Followers, SyncFromLeader(f) \/ LostUpdate(f)
      PROVE  \A g \in Followers : outbox'[g] \in Seq(PastUpdates')
  BY <1>4, <1>5 DEF SyncFromLeader, LostUpdate, DropUpdate, SyncFromLeaderRefused, SyncFromLeaderError,
     SyncFromLeaderMissing
<1>6. ASSUME NEW f \in Followers, BreakConnection(f)
      PROVE  \A g \in Followers : outbox'[g] \in Seq(PastUpdates')
  <2>1. \A g \in Followers : outbox'[g] = outbox[g] \/ outbox'[g] = <<>>
    BY <1>a, <1>6 DEF BreakConnection, TypeOK
  <2> QED
    BY <1>c, <1>d, <2>1
<1> QED
  BY <1>1, <1>3, <1>5, <1>6
     DEF Next, ProducerNext, HandlerNext, FollowerNext, LostUpdate, vars, Produce, ProduceError,
     NotifyAfterWrite, Ack,
     AckTimeout, UpdateStatesBegin, UpdateStatesApply, NotifyAfterUpdate, DrainReplicas,
     HandlerEnd, Connect, Reconcile, Disconnect, LazyWrite, FollowerRestart

LEMMA BehindStep == IndInv /\ BehindInv /\ [Next]_vars => BehindInv'
<1> SUFFICES ASSUME IndInv, BehindInv, [Next]_vars, restarts' = 0
             PROVE  /\ \A r \in Replicas : hw'[r] <= hw'[Leader] /\ ckpt'[r] <= hw'[Leader]
                    /\ \A h \in Handlers : /\ lpos'[h].hw <= hw'[Leader]
                                           /\ inbox'[h] \in Seq(PastReports')
                    /\ \A f \in Followers : outbox'[f] \in Seq(PastUpdates')
  BY DEF BehindInv
<1>1. TypeOK /\ TypeOK' /\ Leader \in Replicas
  BY TypeFacts, TypeStep DEF IndInv, SafetyInv
<1>2. ~LeaderRestart
  BY <1>1 DEF LeaderRestart, TypeOK
<1>3. restarts = 0
  BY <1>2 DEF Next, ProducerNext, HandlerNext, FollowerNext, vars, counters, Produce,
     NotifyAfterWrite, Ack, AckTimeout, UpdateStatesBegin, UpdateStatesApply, NotifyAfterUpdate,
     DrainReplicas, FollowerUpdates, FollowerUpdatesReadError, Connect, Reconcile, SyncFromLeader,
     SyncFromLeaderError, SyncFromLeaderRefused,
     SyncFromLeaderMissing, DropUpdate, ProduceError, Disconnect, FollowerRestart, HandlerEnd, LazyWrite
<1>4. hw[Leader] \in Nat /\ hw'[Leader] \in Nat /\ hw[Leader] <= hw'[Leader]
  BY <1>1, <1>3, OrderStep DEF TypeOK
<1> QED
  BY <1>2, <1>3, <1>4, BehindHw, BehindHandlers, BehindReports, BehindUpdates

-----------------------------------------------------------------------------
(* The theorems. *)

\* IndInv, the whole invariant, is inductive.
THEOREM IndInvariant == Spec => []IndInv
<1>1. Init => IndInv
  BY SafetyInit, OrderInit DEF IndInv
<1>2. IndInv /\ [Next]_vars => IndInv'
  <2> SUFFICES ASSUME IndInv, [Next]_vars PROVE IndInv'
    OBVIOUS
  <2>1. SafetyInv /\ TypeOK
    BY DEF IndInv, SafetyInv
  <2>2. TypeOK' /\ FollowerLogIsPrefix' /\ KnowledgeInv' /\ CommitInv' /\ UpdateInv' /\ TailInv'
    BY <2>1, TypeStep, PrefixStep, KnowledgeStep, CommitStep, UpdateStep, TailStep
  <2>3. HwInv'
    BY OrderStep
  <2> QED
    BY <2>2, <2>3 DEF IndInv, SafetyInv
<1> QED
  BY <1>1, <1>2, PTL DEF Spec

\* The leader's high watermark never moves back while the leader is up,
\* whatever the order in which its handlers read it and set it.
THEOREM MonotonicTheorem == Spec => HwMonotonic
<1>1. IndInv /\ [Next]_vars => [restarts' = restarts => hw'[Leader] >= hw[Leader]]_vars
  BY OrderStep
<1> QED
  BY <1>1, IndInvariant, PTL DEF Spec, HwMonotonic

\* The leader never believes a follower to have more than the follower, or the
\* leader itself, has.
THEOREM NotOverestimatedTheorem == Spec => []FollowersNotOverestimated
<1>1. IndInv => FollowersNotOverestimated
  <2> SUFFICES ASSUME IndInv, NEW f \in Followers
               PROVE  followers[f].leo <= Leo(f) /\ ~Newer(followers[f], AsOffset(Leader))
    BY DEF FollowersNotOverestimated
  <2>1. f \in Replicas /\ Leader \in Replicas /\ TypeOK
    BY TypeFacts DEF IndInv, SafetyInv
  <2>2. followers[f].leo \in Int /\ followers[f].leo <= Leo(f)
    BY DEF IndInv, SafetyInv, KnowledgeInv, Reports, OffsetInfo, Offset
  <2>3. Leo(f) \in Nat /\ Leo(Leader) \in Nat /\ Leo(f) <= Leo(Leader)
    BY <2>1, LeoType DEF IndInv, SafetyInv, FollowerLogIsPrefix
  <2>4. followers[f].hw \in Int /\ hw[Leader] \in Nat /\ followers[f].hw <= hw[Leader]
    BY <2>1 DEF IndInv, HwInv, TypeOK, OffsetInfo, Offset
  <2> QED
    BY <2>2, <2>3, <2>4 DEF Newer, AsOffset
<1> QED
  BY <1>1, IndInvariant, PTL

\* No report that a leader which has not restarted reads is ahead of it, so
\* that update_states_from_followers drops none.
THEOREM BehindTheorem == Spec => []FollowerBehindLeader
<1>1. Spec => []BehindInv
  BY BehindInit, BehindStep, IndInvariant, PTL DEF Spec
<1>2. IndInv /\ BehindInv => FollowerBehindLeader
  <2> SUFFICES ASSUME IndInv, BehindInv, restarts = 0, NEW h \in Handlers, inbox[h] # <<>>
               PROVE  ~IsAhead(Head(inbox[h]))
    BY DEF FollowerBehindLeader
  <2> DEFINE o == Head(inbox[h])
             f == h[1]
  <2>1. f \in Followers /\ f \in Replicas /\ Leader \in Replicas /\ TypeOK
    BY TypeFacts DEF IndInv, SafetyInv
  <2>2. o \in PastReports
    BY HeadTailProperties DEF BehindInv
  <2>3. o \in Reports(f)
    BY HeadTailProperties DEF IndInv, SafetyInv, KnowledgeInv
  <2>4. Leo(f) \in Nat /\ Leo(Leader) \in Nat /\ Leo(f) <= Leo(Leader) /\ hw[Leader] \in Nat
    BY <2>1, LeoType DEF IndInv, SafetyInv, FollowerLogIsPrefix, TypeOK
  <2> HIDE DEF o, f
  <2>5. o.hw \in Int /\ o.leo \in Int /\ o.hw <= hw[Leader] /\ o.leo <= Leo(f)
    BY <2>2, <2>3 DEF PastReports, Reports, OffsetInfo, Offset
  <2>6. ~IsAhead(o)
    BY <2>4, <2>5 DEF IsAhead, Newer, AsOffset
  <2> QED
    BY <2>6 DEF o
<1> QED
  BY <1>1, <1>2, IndInvariant, PTL

-----------------------------------------------------------------------------
(***************************************************************************)
(* Replication implements CommittedLog: seen through the leader's log, the *)
(* set of offsets every replica has stored, the leader's high watermark    *)
(* and the acknowledgements, every step of the replicas is a step of the   *)
(* single committed log or changes nothing.                                *)
(***************************************************************************)

\* The abstract state, as Partition sees it.
Seen == <<log[Leader], Replicated, hw[Leader], acked>>

\* After every step what is visible or acknowledged is replicated.
LEMMA DurablePrimed ==
    ASSUME SafetyInv'
    PROVE  /\ 1..hw'[Leader] \subseteq Replicated' /\ 1..acked' \subseteq Replicated'
           /\ hw'[Leader] \in 0..Leo(Leader)'
<1>1. Leader \in Replicas
  BY TypeFacts
<1>2. /\ hw'[Leader] \in Nat /\ acked' \in Nat
      /\ \A r \in Replicas : Leo(r)' \in Nat
  BY <1>1, LenProperties DEF SafetyInv, TypeOK, Leo
<1>3. \A r \in Replicas : hw'[Leader] <= Leo(r)' /\ acked' <= Leo(r)'
  BY <1>1 DEF SafetyInv, CommitInv, Everywhere
<1> QED
  BY <1>1, <1>2, <1>3 DEF Replicated

\* Replicated only depends on the lengths of the logs.
LEMMA ReplicatedKept ==
    ASSUME TypeOK, UNCHANGED log
    PROVE  Replicated' = Replicated /\ log'[Leader] = log[Leader]
  BY DEF Replicated, Leo

\* A batch is written to the leader's log.
LEMMA ProduceRefines ==
    ASSUME SafetyInv, NEW rec \in Record, Produce(rec)
    PROVE  Partition!AppendRecord
<1>1. /\ TypeOK /\ Leader \in Replicas /\ Leo(Leader) \in Nat
      /\ log[Leader] \in Seq(Record)
      /\ \A f \in Followers : f \in Replicas /\ f # Leader
  BY TypeFacts, LeoType DEF SafetyInv
<1>2. log'[Leader] = Append(log[Leader], rec) /\ acked' = acked
  BY <1>1 DEF Produce, TypeOK
<1>3. Leo(Leader)' = Leo(Leader) + 1 /\ Len(log[Leader]) = Leo(Leader)
  BY <1>1, <1>2, AppendProperties DEF Leo
<1>4. \A f \in Followers : Leo(f)' = Leo(f) /\ Leo(f) \in Nat /\ Leo(f) <= Leo(Leader)
  BY <1>1, LeoType DEF Produce, TypeOK, Leo, SafetyInv, FollowerLogIsPrefix
<1>5. \/ Replicated' = Replicated /\ hw'[Leader] = hw[Leader]
      \/ /\ Replicated' = Replicated \cup {Len(log[Leader]) + 1}
         /\ hw'[Leader] = Len(log[Leader]) + 1
  <2>1. /\ IsFiniteSet(Followers) /\ Cardinality(Followers) \in Nat
        /\ Cardinality(Followers) = 0 <=> Followers = {}
    BY ReplicaAssumption, FS_CardinalityType, FS_EmptySet
  <2>2. CASE InSyncReplica # 1
    <3>1. PICK f \in Followers : TRUE
      BY <2>1, <2>2 DEF InSyncReplica
    <3>2. hw' = hw
      BY <2>2 DEF Produce
    <3>3. \A i \in 1..(Leo(Leader) + 1) : i <= Leo(f) => i \in 1..Leo(Leader)
      BY <1>1, <1>4
    <3>4. Replicated' = {i \in 1..(Leo(Leader) + 1) : \A r \in Replicas : i <= Leo(r)'}
      BY <1>3 DEF Replicated
    <3>5. ASSUME NEW i \in Int PROVE i \in Replicated' <=> i \in Replicated
      BY <1>1, <1>3, <1>4, <3>3, <3>4 DEF Replicated, Replicas
    <3>6. Replicated' \subseteq Int /\ Replicated \subseteq Int
      BY <3>4 DEF Replicated
    <3>7. Replicated' = Replicated
      BY <3>5, <3>6
    <3> QED
      BY <3>2, <3>7
  <2>3. CASE InSyncReplica = 1
    <3>1. Followers = {}
      BY <2>1, <2>3 DEF InSyncReplica
    <3>2. Replicas = {Leader}
      BY <3>1 DEF Replicas
    <3>3. Replicated = 1..Leo(Leader)
      BY <1>1, <3>2 DEF Replicated
    <3>4. Replicated' = 1..(Leo(Leader) + 1)
      BY <1>1, <1>3, <3>2 DEF Replicated
    <3>5. 1..(Leo(Leader) + 1) = 1..Leo(Leader) \cup {Leo(Leader) + 1}
      BY <1>1
    <3>6. hw'[Leader] = Leo(Leader) + 1
      BY <1>1, <2>3 DEF Produce, TypeOK
    <3> QED
      BY <1>3, <3>3, <3>4, <3>5, <3>6
  <2> QED
    BY <2>2, <2>3
<1> QED
  BY <1>2, <1>5 DEF Partition!AppendRecord

\* A follower stores batches, or finds them in its files.
LEMMA SyncRefines ==
    ASSUME SafetyInv, [Next]_vars, NEW f \in Followers, SyncFromLeader(f) \/ FollowerRestart(f)
    PROVE  Partition!Replicate
<1>1. TypeOK /\ TypeOK' /\ LogGrows /\ Leader \in Replicas /\ f # Leader
  BY TypeFacts, TypeStep, LogGrowsStep DEF SafetyInv
<1>2. log'[Leader] = log[Leader] /\ hw'[Leader] = hw[Leader] /\ acked' = acked
  BY <1>1 DEF SyncFromLeader, FollowerRestart, TypeOK, producers
<1>3. Leo(Leader)' = Leo(Leader) /\ Leo(Leader) = Len(log[Leader])
  BY <1>2 DEF Leo
<1>4. \A r \in Replicas : Leo(r) \in Nat /\ Leo(r)' \in Nat /\ Leo(r) <= Leo(r)'
  BY <1>1, LenProperties DEF LogGrows, TypeOK, Leo
<1>5. Replicated' \in SUBSET (1..Len(log[Leader]))
  BY <1>3 DEF Replicated
<1>6. Replicated \subseteq Replicated'
  BY <1>3, <1>4 DEF Replicated
<1> QED
  BY <1>2, <1>5, <1>6 DEF Partition!Replicate

\* A producer is answered.
LEMMA AckRefines ==
    ASSUME SafetyInv, NEW leo \in waiting, Ack(leo)
    PROVE  Partition!Acknowledge \/ UNCHANGED Seen
<1>1. TypeOK /\ Leader \in Replicas /\ leo \in Nat /\ acked \in Nat /\ hw[Leader] \in Nat
  BY TypeFacts DEF SafetyInv, TypeOK
<1>2. Replicated' = Replicated /\ log'[Leader] = log[Leader] /\ hw'[Leader] = hw[Leader]
  BY <1>1, ReplicatedKept DEF Ack, storage
<1>3. hw[Leader] >= leo /\ acked' = IF leo > acked THEN leo ELSE acked
  BY DEF Ack, ReachedBy, Larger
<1>4. CASE leo > acked
  BY <1>1, <1>2, <1>3, <1>4 DEF Partition!Acknowledge
<1>5. CASE ~(leo > acked)
  BY <1>2, <1>3, <1>5 DEF Seen
<1> QED
  BY <1>4, <1>5

LEMMA StepRefines ==
    ASSUME SafetyInv, [Next]_vars
    PROVE  [Partition!Next]_Seen
<1>a. SafetyInv'
  BY TypeStep, PrefixStep, KnowledgeStep, CommitStep, UpdateStep, TailStep DEF SafetyInv
<1>b. /\ 1..hw'[Leader] \subseteq Replicated' /\ 1..acked' \subseteq Replicated'
      /\ hw'[Leader] \in 0..Leo(Leader)'
  BY <1>a, DurablePrimed
<1>c. Partition!Durable'
  BY <1>b DEF Partition!Durable
<1>d. TypeOK /\ Leader \in Replicas /\ \A f \in Followers : f # Leader
  BY TypeFacts DEF SafetyInv
<1>1. ASSUME UNCHANGED <<log, acked>>, hw'[Leader] = hw[Leader] PROVE UNCHANGED Seen
  BY <1>d, <1>1, ReplicatedKept DEF Seen
<1>2. ASSUME UNCHANGED <<log, acked>> PROVE Partition!MoveVisible
  <2>1. hw'[Leader] \in 0..Len(log[Leader])
    BY <1>b, <1>2 DEF Leo
  <2> QED
    BY <1>d, <1>2, <2>1, ReplicatedKept DEF Partition!MoveVisible
<1>4. ASSUME Partition!AppendRecord \/ Partition!Replicate \/ Partition!MoveVisible
                 \/ Partition!Acknowledge \/ UNCHANGED Seen
      PROVE  [Partition!Next]_Seen
  BY <1>c, <1>4 DEF Partition!Next
<1>5. ASSUME NEW rec \in Record, Produce(rec) PROVE [Partition!Next]_Seen
  BY <1>4, <1>5, ProduceRefines
<1>6. ASSUME NEW f \in Followers, SyncFromLeader(f) \/ FollowerRestart(f) PROVE [Partition!Next]_Seen
  BY <1>4, <1>6, SyncRefines
<1>7. ASSUME NEW leo \in waiting, Ack(leo) PROVE [Partition!Next]_Seen
  BY <1>4, <1>7, AckRefines
<1>8. ASSUME NEW h \in Handlers, UpdateStatesApply(h) PROVE [Partition!Next]_Seen
  BY <1>2, <1>4, <1>8 DEF UpdateStatesApply, producers
<1>9. ASSUME LeaderRestart PROVE [Partition!Next]_Seen
  BY <1>2, <1>4, <1>9 DEF LeaderRestart
<1>10. \/ UNCHANGED <<log, acked, hw>>
       \/ \E rec \in Record : Produce(rec)
       \/ \E f \in Followers : SyncFromLeader(f) \/ FollowerRestart(f)
       \/ \E leo \in waiting : Ack(leo)
       \/ \E h \in Handlers : UpdateStatesApply(h)
       \/ LeaderRestart
  BY DEF Next, ProducerNext, HandlerNext, FollowerNext, vars, storage, producers,
     NotifyAfterWrite, AckTimeout, UpdateStatesBegin, NotifyAfterUpdate, DrainReplicas,
     FollowerUpdates, FollowerUpdatesReadError, HandlerEnd, Connect, Reconcile,
     SyncFromLeaderError, SyncFromLeaderRefused,
     SyncFromLeaderMissing, DropUpdate, ProduceError, Disconnect, LazyWrite
<1> QED
  BY <1>1, <1>4, <1>5, <1>6, <1>7, <1>8, <1>9, <1>10

\* Every behaviour of the replicas is a behaviour of one committed log.
THEOREM RefinementTheorem == Spec => ImplementsCommittedLog
<1>1. Init => Partition!Init
  <2> SUFFICES ASSUME Init PROVE Partition!Init
    OBVIOUS
  <2>1. Leader \in Replicas
    BY TypeFacts
  <2>2. log[Leader] = <<>> /\ hw[Leader] = 0 /\ acked = 0
    BY <2>1 DEF Init
  <2>3. Leo(Leader) = 0
    BY <2>2, EmptySeq DEF Leo
  <2>4. Replicated = {}
    BY <2>3 DEF Replicated
  <2> QED
    BY <2>2, <2>4 DEF Partition!Init
<1>2. SafetyInv /\ [Next]_vars => [Partition!Next]_Seen
  BY StepRefines
<1>3. Seen = Partition!vars /\ Seen' = Partition!vars'
  BY DEF Seen, Partition!vars
<1>4. SafetyInv /\ [Next]_vars => [Partition!Next]_(Partition!vars)
  BY <1>2, <1>3
<1> QED
  BY <1>1, <1>4, SafetyInvariant, PTL DEF Spec, ImplementsCommittedLog, Partition!Spec
=============================================================================
