--------------------------- MODULE ElectionProofs ---------------------------
(***************************************************************************)
(* Whoever is made leader of a partition, and however many take themselves *)
(* for it, has every offset that any replica counts as committed.  For any *)
(* set of SPUs, any lag the policy allows, any number of elections.        *)
(***************************************************************************)
EXTENDS Election, HighWatermarkProofs, SequenceTheorems

LEMMA Basics ==
    /\ NoSpu \notin Spu /\ NoSpu \in Int /\ Spu \subseteq Int /\ IsFiniteSet(Spu) /\ First \in Spu
    /\ DefaultInfo \in OffsetInfo /\ DefaultInfo.leo = -1
    /\ Unknown \in Int /\ Absent \in Int
  BY ElectionAssumption DEF NoSpu, Unknown, Absent, DefaultInfo, OffsetInfo, Offset

LEMMA LeoType ==
    ASSUME TypeOK, NEW s \in Spu
    PROVE  Leo(s) \in Nat /\ log[s] \in Seq(Nat) /\ hw[s] \in Nat /\ AsOffset(s) \in OffsetInfo
  BY LenProperties DEF TypeOK, Leo, AsOffset, OffsetInfo, Offset

LEMMA UpdateType ==
    ASSUME NEW o \in OffsetInfo, NEW p \in OffsetInfo
    PROVE  /\ Update(o, p) \in OffsetInfo
           /\ Update(o, p).leo \in {o.leo, p.leo}
  BY DEF Update, Larger, OffsetInfo, Offset

LEMMA MergeType ==
    ASSUME NEW old \in Status, NEW new \in Reports
    PROVE  Merge(old, new) \in Status
<1> DEFINE listed(s) == IF s = old.spu THEN old.leo ELSE old.replicas[s]
           r(s) == IF s = new.spu THEN Absent
                   ELSE IF new.replicas[s] # Unknown THEN new.replicas[s]
                   ELSE IF listed(s) # Absent THEN listed(s) ELSE Unknown
<1>1. \A s \in Spu : r(s) \in Int
  BY Basics DEF Status, Reports
<1>2. Merge(old, new) = [spu |-> new.spu, leo |-> new.leo, replicas |-> [s \in Spu |-> r(s)],
                         resolution |-> "Online"]
  BY DEF Merge
<1> HIDE DEF r
<1>3. [s \in Spu |-> r(s)] \in [Spu -> Int]
  BY <1>1
<1> QED
  BY <1>2, <1>3 DEF Status, Reports

LEMMA ReportType ==
    ASSUME NEW s \in Spu, NEW n \in Int, NEW ends \in [Spu -> OffsetInfo]
    PROVE  Report(s, n, ends) \in Reports
<1>1. \A f \in Spu : ends[f].leo \in Int
  BY DEF OffsetInfo, Offset
<1> QED
  BY <1>1, Basics DEF Report, Reports

\* The leader's new high watermark: it stays, or it is the least log end that
\* was reported, one of them.
LEMMA HwAfterBound ==
    ASSUME TypeOK, NEW s \in Spu, NEW ends \in [Spu -> OffsetInfo]
    PROVE  /\ HwAfter(s, ends) \in Nat
           /\ \/ HwAfter(s, ends) = hw[s]
              \/ /\ \A f \in Spu \ {s} : HwAfter(s, ends) <= ends[f].leo
                 /\ \E f \in Spu \ {s} : HwAfter(s, ends) = ends[f].leo
<1> DEFINE F == Spu \ {s}
           leos == [f \in F |-> ends[f].leo]
           c == ComputeHw(hw[s], Cardinality(Spu), leos)
<1>1. IsFiniteSet(F) /\ Cardinality(F) + 1 = Cardinality(Spu)
  <2>1. IsFiniteSet(F) /\ Cardinality(F) = Cardinality(Spu) - 1 /\ Cardinality(Spu) \in Nat
    BY Basics, FS_RemoveElement, FS_CardinalityType
  <2> QED
    BY <2>1
<1>2. leos \in [F -> Offset] /\ hw[s] \in Offset /\ hw[s] \in Nat
  BY DEF TypeOK, OffsetInfo, Offset
<1>3. \/ c = None
      \/ /\ c \in Nat /\ c > hw[s]
         /\ \A f \in F : c <= leos[f]
         /\ \E f \in F : c = leos[f]
  <2> HIDE DEF F, leos
  <2> QED
    BY <1>1, <1>2, LeastOfAll
<1>4. HwAfter(s, ends) = hw[s] \/ (c # None /\ HwAfter(s, ends) = c)
  BY DEF HwAfter
<1>5. \A f \in F : leos[f] = ends[f].leo
  OBVIOUS
<1> HIDE DEF c, leos
<1> QED
  BY <1>2, <1>3, <1>4, <1>5

-----------------------------------------------------------------------------
(* Types. *)

LEMMA TypeInit == Init => TypeOK
<1> SUFFICES ASSUME Init PROVE TypeOK
  OBVIOUS
<1> DEFINE zero == [hw |-> 0, leo |-> 0]
           ends == [f \in Spu |-> IF First \in Up /\ f \in Up \ {First} THEN zero ELSE DefaultInfo]
           r == [spu |-> First, leo |-> 0,
                 replicas |-> [f \in Spu |-> IF f = First THEN Absent ELSE ends[f].leo]]
<1>1. zero \in OffsetInfo
  BY DEF OffsetInfo, Offset
<1>2. ends \in [Spu -> OffsetInfo]
  BY <1>1, Basics
<1>3. NoStatus \in Status
  BY Basics DEF NoStatus, Status
<1>4. r \in Reports
  <2>1. \A f \in Spu : ends[f].leo \in Int
    BY <1>2 DEF OffsetInfo, Offset
  <2> HIDE DEF ends
  <2> QED
    BY <2>1, Basics DEF Reports
<1>5. status \in Status
  <2>1. status = Merge(NoStatus, r) \/ status = NoStatus
    BY Zenon DEF Init
  <2> HIDE DEF r
  <2> QED
    BY <1>3, <1>4, <2>1, MergeType
<1>6. known \in [Spu -> [Spu -> OffsetInfo]]
  <2>1. known = [s \in Spu |-> IF s = First THEN ends ELSE [f \in Spu |-> DefaultInfo]]
    BY Zenon DEF Init
  <2> HIDE DEF ends
  <2> QED
    BY <1>2, <2>1, Basics
<1>7. <<>> \in Seq(Actions) /\ <<>> \in Seq(Nat)
  BY EmptySeq
<1>8. /\ conn \in [Spu -> BOOLEAN] /\ ghost \in [Spu -> BOOLEAN]
      /\ health \in [Spu -> {"unknown", "up", "down"}]
      /\ online \in [Spu -> {"init", "online", "offline"}]
      /\ dirty \subseteq Spu
  BY DEF Init
<1>9. ctl \in [off : SUBSET Spu, on : SUBSET Spu, actions : Seq(Actions)]
  BY <1>7 DEF Init, Idle
<1>10. queue \in Seq(Actions) /\ leader \in Spu /\ written \in Spu \cup {NoSpu}
  BY <1>7, Basics DEF Init
<1>11. /\ sent \in [Spu -> Spu \cup {NoSpu}] /\ inbox \in [Spu -> Spu \cup {NoSpu}]
       /\ view \in [Spu -> Spu \cup {NoSpu}]
  BY Basics DEF Init
<1>12. /\ report \in [Spu -> Reports \cup {NoReport}]
       /\ log \in [Spu -> Seq(Nat)] /\ hw \in [Spu -> Nat] /\ writes \in Nat /\ drops \in Nat
  BY <1>7 DEF Init
<1> QED
  BY <1>5, <1>6, <1>8, <1>9, <1>10, <1>11, <1>12 DEF TypeOK

LEMMA TypeStep == TypeOK /\ [Next]_vars => TypeOK'
<1> SUFFICES ASSUME TypeOK, [Next]_vars PROVE TypeOK'
  OBVIOUS
<1>1. ASSUME NEW s \in Spu, Connect(s) PROVE TypeOK'
  BY <1>1 DEF TypeOK, Connect, data
<1>2. ASSUME NEW s \in Spu, Drop(s) PROVE TypeOK'
  <2>1. report' \in [Spu -> Reports \cup {NoReport}]
    BY <1>2 DEF TypeOK, Drop
  <2>2. /\ conn' \in [Spu -> BOOLEAN] /\ ghost' \in [Spu -> BOOLEAN]
        /\ inbox' \in [Spu -> Spu \cup {NoSpu}] /\ drops' \in Nat
    BY <1>2 DEF TypeOK, Drop
  <2>3. UNCHANGED <<health, online, dirty, ctl, queue, leader, status, written, sent, view, known, log, hw, writes>>
    BY <1>2 DEF Drop, sc, data
  <2> QED
    BY <2>1, <2>2, <2>3 DEF TypeOK
<1>3. ASSUME NEW s \in Spu, EndConnection(s) PROVE TypeOK'
  BY <1>3 DEF TypeOK, EndConnection, data
<1>4. ASSUME NEW s \in Spu, SyncSpu(s) PROVE TypeOK'
  BY <1>4 DEF TypeOK, SyncSpu, links, data
<1>5. ASSUME TakeChanges PROVE TypeOK'
  <2>1. ctl' \in [off : SUBSET Spu, on : SUBSET Spu, actions : Seq(Actions)]
    BY <1>5, EmptySeq DEF TypeOK, TakeChanges, Idle
  <2> QED
    BY <1>5, <2>1 DEF TypeOK, TakeChanges, links, data
<1>6. \A s \in Spu : NewLeader(s) \in Actions
  BY DEF NewLeader, Actions
<1>7. ASSUME NEW r \in {"Online", "LeaderOffline"} PROVE NewResolution(r) \in Actions
  <2>1. [status EXCEPT !.resolution = r] \in Status
    BY DEF TypeOK, Status
  <2> QED
    BY <2>1 DEF NewResolution, Actions
<1>8. ctl.off \subseteq Spu /\ ctl.on \subseteq Spu /\ ctl.actions \in Seq(Actions)
  BY DEF TypeOK
<1>9. ASSUME NEW s \in Spu, SpuOff(s) PROVE TypeOK'
  <2>1. \A a \in Actions : Append(ctl.actions, a) \in Seq(Actions)
    BY <1>8, AppendProperties
  <2>2. \/ ctl' = [ctl EXCEPT !.off = @ \ {s}]
        \/ \E a \in Actions : ctl' = [ctl EXCEPT !.off = @ \ {s}, !.actions = Append(@, a)]
    <3>1. Best \subseteq Spu
      BY DEF Best, Candidates
    <3> QED
      BY <1>6, <1>7, <1>9, <3>1 DEF SpuOff
  <2>3. ctl' \in [off : SUBSET Spu, on : SUBSET Spu, actions : Seq(Actions)]
    <3>1. CASE ctl' = [ctl EXCEPT !.off = @ \ {s}]
      BY <1>8, <3>1 DEF TypeOK
    <3>2. ASSUME NEW a \in Actions, ctl' = [ctl EXCEPT !.off = @ \ {s}, !.actions = Append(@, a)]
          PROVE  ctl' \in [off : SUBSET Spu, on : SUBSET Spu, actions : Seq(Actions)]
      <4>1. ctl' = [off |-> ctl.off \ {s}, on |-> ctl.on, actions |-> Append(ctl.actions, a)]
        BY <3>2 DEF TypeOK
      <4>2. Append(ctl.actions, a) \in Seq(Actions)
        BY <2>1, <3>2
      <4> QED
        BY <1>8, <4>1, <4>2
    <3> QED
      BY <2>2, <3>1, <3>2
  <2> QED
    BY <1>9, <2>3 DEF TypeOK, SpuOff, links, data
<1>10. ASSUME NEW s \in Spu, SpuOn(s) PROVE TypeOK'
  <2>1. PICK as \in {<<>>, <<NewResolution("Online")>>, <<NewLeader(s)>>} :
            ctl' = [ctl EXCEPT !.on = @ \ {s}, !.actions = @ \o as]
    BY <1>10 DEF SpuOn
  <2>2. as \in Seq(Actions)
    <3>1. \A a \in Actions : <<a>> \in Seq(Actions)
      OBVIOUS
    <3>2. NewLeader(s) \in Actions /\ NewResolution("Online") \in Actions /\ <<>> \in Seq(Actions)
      BY <1>6, <1>7, EmptySeq
    <3> QED
      BY <2>1, <3>1, <3>2
  <2>3. ctl.actions \o as \in Seq(Actions)
    BY <1>8, <2>2, ConcatProperties
  <2>4. ctl' \in [off : SUBSET Spu, on : SUBSET Spu, actions : Seq(Actions)]
    BY <1>8, <2>1, <2>3 DEF TypeOK
  <2> QED
    BY <1>10, <2>4 DEF TypeOK, SpuOn, links, data
<1>11. ASSUME SendActions PROVE TypeOK'
  <2>1. queue \o ctl.actions \in Seq(Actions)
    BY <1>8, ConcatProperties DEF TypeOK
  <2>2. Idle \in [off : SUBSET Spu, on : SUBSET Spu, actions : Seq(Actions)]
    BY EmptySeq DEF Idle
  <2> QED
    BY <1>11, <2>1, <2>2 DEF TypeOK, SendActions, links, data
<1>12. ASSUME ApplyAction PROVE TypeOK'
  <2>1. Head(queue) \in Actions /\ Tail(queue) \in Seq(Actions)
    BY <1>12, HeadTailProperties DEF TypeOK, ApplyAction
  <2>2. written' \in Spu \cup {NoSpu} /\ status' \in Status
    BY <1>12, <2>1 DEF TypeOK, ApplyAction, Actions
  <2> QED
    BY <1>12, <2>1, <2>2 DEF TypeOK, ApplyAction, links, data
<1>20. ASSUME WatchSpec PROVE TypeOK'
  BY <1>20 DEF TypeOK, WatchSpec, links, data
<1>13. ASSUME NEW s \in Spu, SendSpec(s) PROVE TypeOK'
  BY <1>13 DEF TypeOK, SendSpec, sc, data
<1>14. ASSUME NEW s \in Spu, ReceiveSpec(s) PROVE TypeOK'
  <2>1. Followers \in [Spu -> OffsetInfo]
    BY Basics DEF Followers
  <2>2. known' \in [Spu -> [Spu -> OffsetInfo]]
    BY <1>14, <2>1 DEF TypeOK, ReceiveSpec
  <2>3. Report(s, Leo(s), Followers) \in Reports
    BY <2>1, LeoType, ReportType
  <2>4. report' \in [Spu -> Reports \cup {NoReport}]
    BY <1>14, <2>3 DEF TypeOK, ReceiveSpec
  <2> QED
    BY <1>14, <2>2, <2>4 DEF TypeOK, ReceiveSpec, sc, data
<1>15. ASSUME NEW s \in Spu, SendReport(s) PROVE TypeOK'
  <2>1. report[s] \in Reports
    BY <1>15 DEF TypeOK, SendReport
  <2>2. Merge(status, report[s]) \in Status
    BY <2>1, MergeType DEF TypeOK
  <2>3. [op |-> "status", status |-> Merge(status, report[s])] \in Actions
    BY <2>2 DEF Actions
  <2>4. queue' \in Seq(Actions)
    BY <1>15, <2>3, AppendProperties DEF TypeOK, SendReport
  <2>5. report' \in [Spu -> Reports \cup {NoReport}]
    BY <1>15 DEF TypeOK, SendReport
  <2> QED
    BY <1>15, <2>4, <2>5 DEF TypeOK, SendReport, links, data
<1>16. ASSUME NEW s \in Spu, Produce(s) PROVE TypeOK'
  <2>1. Leo(s) \in Nat /\ log[s] \in Seq(Nat) /\ writes + 1 \in Nat /\ known[s] \in [Spu -> OffsetInfo]
    BY LeoType DEF TypeOK
  <2>2. Append(log[s], writes + 1) \in Seq(Nat)
    BY <2>1, AppendProperties
  <2>3. Report(s, Leo(s) + 1, known[s]) \in Reports
    BY <2>1, ReportType
  <2> QED
    BY <1>16, <2>1, <2>2, <2>3 DEF TypeOK, Produce, sc, links
<1>17. ASSUME NEW f \in Spu, ReportOffset(f) PROVE TypeOK'
  <2> DEFINE s == view[f]
             ends == [known[s] EXCEPT ![f] = Update(@, AsOffset(f))]
  <2>1. s \in Spu
    BY <1>17 DEF TypeOK, ReportOffset
  <2>2. ends \in [Spu -> OffsetInfo]
    BY <2>1, LeoType, UpdateType DEF TypeOK
  <2>3. /\ known' = [known EXCEPT ![s] = ends]
        /\ hw' = [hw EXCEPT ![s] = HwAfter(s, ends)]
        /\ report' = [report EXCEPT ![s] = Report(s, Leo(s), ends)]
        /\ UNCHANGED <<sc, links, view, log, writes>>
    BY <1>17 DEF ReportOffset
  <2> HIDE DEF s, ends
  <2>4. HwAfter(s, ends) \in Nat /\ Report(s, Leo(s), ends) \in Reports
    BY <2>1, <2>2, HwAfterBound, LeoType, ReportType
  <2> QED
    BY <2>1, <2>2, <2>3, <2>4 DEF TypeOK, sc, links
<1>18. ASSUME NEW f \in Spu, CopyBatch(f) PROVE TypeOK'
  <2>1. view[f] \in Spu
    BY <1>18 DEF TypeOK, CopyBatch
  <2>2. /\ log' \in [Spu -> Seq(Nat)] /\ hw' \in [Spu -> Nat]
    <3> DEFINE s == view[f]
               end == known[s][f].leo
               copied == IF end < Leo(s) /\ end = Leo(f)
                         THEN Append(log[f], log[s][end + 1]) ELSE log[f]
    <3>1. end \in Int /\ Leo(s) \in Nat /\ Leo(f) \in Nat /\ log[s] \in Seq(Nat) /\ log[f] \in Seq(Nat)
      BY <2>1, LeoType DEF TypeOK, OffsetInfo, Offset
    <3>2. copied \in Seq(Nat)
      <4>1. CASE end < Leo(s) /\ end = Leo(f)
        <5>1. end + 1 \in 1 .. Len(log[s])
          BY <3>1, <4>1 DEF Leo
        <5>2. log[s][end + 1] \in Nat
          BY <3>1, <5>1, ElementOfSeq
        <5> QED
          BY <3>1, <4>1, <5>2, AppendProperties
      <4>2. CASE ~(end < Leo(s) /\ end = Leo(f))
        BY <3>1, <4>2
      <4> QED
        BY <4>1, <4>2
    <3>3. /\ log' = [log EXCEPT ![f] = copied]
          /\ hw' = [hw EXCEPT ![f] = IF @ < hw[s] /\ hw[s] <= Len(copied) THEN hw[s] ELSE @]
      BY <1>18 DEF CopyBatch
    <3> HIDE DEF copied
    <3> QED
      BY <2>1, <3>2, <3>3 DEF TypeOK
  <2> QED
    BY <1>18, <2>2 DEF TypeOK, CopyBatch, sc, links
<1>19. CASE UNCHANGED vars
  BY <1>19 DEF TypeOK, vars, sc, links, data
<1> QED
  BY <1>1, <1>2, <1>3, <1>4, <1>5, <1>9, <1>10, <1>11, <1>12, <1>13, <1>14, <1>15, <1>16, <1>17,
     <1>18, <1>19, <1>20 DEF Next, Controller, Cluster

-----------------------------------------------------------------------------
(* Logs only grow, so what was true of them when it was said stays true. *)

LEMMA LogsGrow ==
    ASSUME TypeOK, [Next]_vars
    PROVE  \A s \in Spu : Leo(s) \in Nat /\ Leo(s)' \in Nat /\ Leo(s) <= Leo(s)'
<1>1. ASSUME UNCHANGED log PROVE \A s \in Spu : Leo(s)' = Leo(s)
  BY <1>1 DEF Leo
<1>2. ASSUME NEW s \in Spu, NEW n, log' = [log EXCEPT ![s] = Append(log[s], n)]
      PROVE  \A t \in Spu : Leo(t)' \in {Leo(t), Leo(t) + 1}
  <2>1. \A t \in Spu : log'[t] = IF t = s THEN Append(log[s], n) ELSE log[t]
    BY <1>2 DEF TypeOK
  <2>2. Len(Append(log[s], n)) = Len(log[s]) + 1
    BY LeoType
  <2> QED
    BY <2>1, <2>2 DEF Leo
<1>3. \/ UNCHANGED log
      \/ \E s \in Spu : \E n : log' = [log EXCEPT ![s] = Append(log[s], n)]
  <2>1. ASSUME NEW s \in Spu, Produce(s)
        PROVE  \E t \in Spu : \E n : log' = [log EXCEPT ![t] = Append(log[t], n)]
    BY <2>1, Zenon DEF Produce
  <2>2. ASSUME NEW f \in Spu, CopyBatch(f)
        PROVE  UNCHANGED log \/ \E t \in Spu : \E n : log' = [log EXCEPT ![t] = Append(log[t], n)]
    <3>1. CASE log' = [log EXCEPT ![f] = log[f]]
      BY <3>1 DEF TypeOK
    <3>2. CASE log' = [log EXCEPT ![f] = Append(log[f], log[view[f]][known[view[f]][f].leo + 1])]
      BY <3>2
    <3> QED
      BY <2>2, <3>1, <3>2 DEF CopyBatch
  <2> QED
    BY <2>1, <2>2 DEF Next, Controller, Cluster, vars, data, Connect, Drop, EndConnection, SyncSpu,
       TakeChanges, SpuOff, SpuOn, SendActions, ApplyAction, WatchSpec, SendSpec, ReceiveSpec, SendReport,
       ReportOffset
<1>4. \A s \in Spu : Leo(s) \in Nat
  BY LeoType
<1>5. \A t \in Spu : Leo(t)' \in {Leo(t), Leo(t) + 1}
  BY <1>1, <1>2, <1>3
<1> QED
  BY <1>4, <1>5

LEMMA KnownStep ==
    ASSUME IndInv, [Next]_vars
    PROVE  KnownInv'
<1>a. TypeOK /\ \A s \in Spu : Leo(s) \in Nat /\ Leo(s)' \in Nat /\ Leo(s) <= Leo(s)'
  BY LogsGrow DEF IndInv
<1>b. \A s, f \in Spu : /\ known[s][f].leo \in Int
                        /\ known[s][f].leo <= Leo(f) /\ known[s][f].leo <= Leo(s)
  BY <1>a DEF TypeOK, OffsetInfo, Offset, IndInv, KnownInv
<1>1. ASSUME \A s, f \in Spu : \/ known'[s][f] = known[s][f]
                               \/ known'[s][f] = DefaultInfo
                               \/ /\ known'[s][f].leo \in Int
                                  /\ known'[s][f].leo <= Leo(f) /\ known'[s][f].leo <= Leo(s)
      PROVE  KnownInv'
  <2>1. ASSUME NEW s \in Spu, NEW f \in Spu
        PROVE  /\ known'[s][f].leo \in Int
               /\ known'[s][f].leo <= Leo(f) /\ known'[s][f].leo <= Leo(s)
    BY <1>a, <1>b, <1>1, Basics
  <2> QED
    BY <1>a, <2>1 DEF KnownInv
<1>2. ASSUME NEW s \in Spu, ReceiveSpec(s) PROVE KnownInv'
  <2>1. \A t, f \in Spu : known'[t][f] = known[t][f] \/ known'[t][f] = DefaultInfo
    BY <1>a, <1>2 DEF ReceiveSpec, Followers, TypeOK
  <2> QED
    BY <1>1, <2>1
<1>3. ASSUME NEW f \in Spu, ReportOffset(f) PROVE KnownInv'
  <2> DEFINE s == view[f]
             o == known[s][f]
             p == AsOffset(f)
  <2>1. s \in Spu /\ ~Newer(p, AsOffset(s))
    BY <1>a, <1>3 DEF TypeOK, ReportOffset
  <2>2. o \in OffsetInfo /\ p \in OffsetInfo /\ p.leo = Leo(f) /\ AsOffset(s).leo = Leo(s)
    <3>1. o \in OffsetInfo
      BY <1>a, <2>1 DEF TypeOK
    <3>2. p \in OffsetInfo
      BY <1>a, LeoType
    <3> QED
      BY <3>1, <3>2 DEF AsOffset
  <2>3. p.leo <= Leo(s)
    BY <1>a, <2>1, <2>2 DEF Newer
  <2>4. Update(o, p).leo \in {o.leo, p.leo}
    BY <2>2, UpdateType
  <2>5. \A t, g \in Spu : known'[t][g] = IF t = s /\ g = f THEN Update(o, p) ELSE known[t][g]
    BY <1>a, <1>3, <2>1 DEF TypeOK, ReportOffset
  <2> HIDE DEF s, o, p
  <2>6. \A t, g \in Spu : \/ known'[t][g] = known[t][g]
                          \/ t = s /\ g = f /\ known'[t][g].leo \in {o.leo, p.leo}
    BY <2>4, <2>5
  <2>7. o.leo \in Int /\ o.leo <= Leo(f) /\ o.leo <= Leo(s)
    BY <1>b, <2>1 DEF o
  <2> QED
    BY <1>1, <1>a, <2>1, <2>2, <2>3, <2>6, <2>7
<1>4. CASE UNCHANGED known
  BY <1>1, <1>4
<1> QED
  BY <1>2, <1>3, <1>4 DEF Next, Controller, Cluster, vars, Connect, Drop, EndConnection, SyncSpu,
     TakeChanges, SpuOff, SpuOn, SendActions, ApplyAction, WatchSpec, SendSpec, SendReport, Produce, CopyBatch

LEMMA CommittedStep ==
    ASSUME IndInv, [Next]_vars
    PROVE  CommittedInv'
<1>a. TypeOK /\ \A s \in Spu : Leo(s) \in Nat /\ Leo(s)' \in Nat /\ Leo(s) <= Leo(s)' /\ hw[s] \in Nat
  BY LogsGrow, LeoType DEF IndInv
<1>b. \A s, t \in Spu : hw[t] <= Leo(s)
  BY DEF IndInv, CommittedInv
<1>1. ASSUME \A t \in Spu : \/ \E u \in Spu : hw'[t] = hw[u]
                            \/ hw'[t] \in Nat /\ \A s \in Spu : hw'[t] <= Leo(s)
      PROVE  CommittedInv'
  BY <1>a, <1>b, <1>1 DEF CommittedInv
<1>2. ASSUME NEW f \in Spu, ReportOffset(f) PROVE CommittedInv'
  <2> DEFINE s == view[f]
             ends == [known[s] EXCEPT ![f] = Update(@, AsOffset(f))]
             n == HwAfter(s, ends)
  <2>1. s \in Spu /\ ~Newer(AsOffset(f), AsOffset(s))
    BY <1>a, <1>2 DEF TypeOK, ReportOffset
  <2>2. known[s] \in [Spu -> OffsetInfo] /\ AsOffset(f) \in OffsetInfo
    BY <1>a, <2>1, LeoType DEF TypeOK
  <2>3. ends \in [Spu -> OffsetInfo]
    BY <2>2, UpdateType
  <2>4. \A g \in Spu : ends[g].leo \in Int /\ ends[g].leo <= Leo(g) /\ ends[g].leo <= Leo(s)
    <3>1. \A g \in Spu : /\ known[s][g].leo \in Int
                         /\ known[s][g].leo <= Leo(g) /\ known[s][g].leo <= Leo(s)
      BY <2>1, <2>2 DEF IndInv, KnownInv, OffsetInfo, Offset
    <3>2. AsOffset(f).leo = Leo(f) /\ Leo(f) <= Leo(s)
      BY <1>a, <2>1 DEF Newer, AsOffset
    <3>3. Update(known[s][f], AsOffset(f)).leo \in {known[s][f].leo, Leo(f)}
      BY <2>2, <3>2, UpdateType
    <3>4. \A g \in Spu : ends[g].leo = known[s][g].leo \/ (g = f /\ ends[g].leo \in {known[s][g].leo, Leo(f)})
      BY <2>2, <3>3
    <3> QED
      BY <1>a, <3>1, <3>2, <3>4
  <2>5. hw' = [hw EXCEPT ![s] = n]
    BY <1>2 DEF ReportOffset
  <2> HIDE DEF ends, s
  <2>6. /\ n \in Nat
        /\ n = hw[s] \/ /\ \A g \in Spu \ {s} : n <= ends[g].leo
                        /\ \E g \in Spu \ {s} : n = ends[g].leo
    BY <1>a, <2>1, <2>3, HwAfterBound
  <2> HIDE DEF n
  <2>7. n = hw[s] \/ \A g \in Spu : n <= Leo(g)
    BY <1>a, <2>1, <2>4, <2>6
  <2>8. \A t \in Spu : hw'[t] = hw[t] \/ hw'[t] = n
    BY <1>a, <2>5 DEF TypeOK
  <2> QED
    BY <1>1, <2>1, <2>6, <2>7, <2>8
<1>3. ASSUME NEW f \in Spu, CopyBatch(f) PROVE CommittedInv'
  <2>1. view[f] \in Spu
    BY <1>a, <1>3 DEF TypeOK, CopyBatch
  <2>2. \A t \in Spu : hw'[t] = hw[t] \/ hw'[t] = hw[view[f]]
    BY <1>a, <1>3 DEF CopyBatch, TypeOK
  <2> QED
    BY <1>1, <2>1, <2>2
<1>4. CASE UNCHANGED hw
  BY <1>1, <1>4
<1> QED
  BY <1>2, <1>3, <1>4 DEF Next, Controller, Cluster, vars, data, Connect, Drop, EndConnection,
     SyncSpu, TakeChanges, SpuOff, SpuOn, SendActions, ApplyAction, WatchSpec, SendSpec, ReceiveSpec,
     SendReport, Produce

-----------------------------------------------------------------------------
(* The theorems. *)

LEMMA InvInit == Init => IndInv
<1> SUFFICES ASSUME Init PROVE KnownInv /\ CommittedInv
  BY TypeInit DEF IndInv
<1>1. \A s \in Spu : Leo(s) = 0 /\ hw[s] = 0
  BY DEF Init, Leo
<1>2. \A s, f \in Spu : known[s][f].leo \in {-1, 0}
  <2> DEFINE ends == [f \in Spu |-> IF First \in Up /\ f \in Up \ {First}
                                    THEN [hw |-> 0, leo |-> 0] ELSE DefaultInfo]
  <2>1. known = [s \in Spu |-> IF s = First THEN ends ELSE [f \in Spu |-> DefaultInfo]]
    BY Zenon DEF Init
  <2>2. \A f \in Spu : ends[f].leo \in {-1, 0}
    BY Basics
  <2> HIDE DEF ends
  <2> QED
    BY <2>1, <2>2, Basics
<1> QED
  BY <1>1, <1>2 DEF KnownInv, CommittedInv

\* The types, what leaders know of their followers and what is committed, in
\* every state of an election.
THEOREM ElectionInvariant == Spec => []IndInv
<1>1. IndInv /\ [Next]_vars => IndInv'
  BY TypeStep, KnownStep, CommittedStep DEF IndInv
<1> QED
  BY <1>1, InvInit, PTL DEF Spec

\* Whatever replica is elected from whatever status, and however many SPUs take
\* themselves for the leader, it holds every offset counted as committed.
THEOREM LeaderTheorem == Spec => []LeaderHasCommitted
<1>1. IndInv => LeaderHasCommitted
  BY DEF IndInv, CommittedInv, LeaderHasCommitted
<1> QED
  BY <1>1, ElectionInvariant, PTL
=============================================================================
