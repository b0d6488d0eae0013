------------------------- MODULE MetadataSyncProofs -------------------------
(***************************************************************************)
(* The in-memory store of the controller never takes an object back to an  *)
(* earlier revision, and a subscriber that is up to date holds what the    *)
(* store holds.  For any set of objects and any bounds.                    *)
(***************************************************************************)
EXTENDS MetadataSync, TLAPS, SequenceTheorems

LEMMA NoneIsNothing == None \notin Object /\ None \notin Entry /\ None \notin Views /\ None \notin Pending
<1>1. DOMAIN None = {"absent"}
  BY DEF None
<1>2. \A x \in Object : "rev" \in DOMAIN x
  BY DEF Object
<1>3. \A x \in Entry : "obj" \in DOMAIN x
  BY DEF Entry
<1>4. \A x \in Views : "spec" \in DOMAIN x
  BY DEF Views
<1>5. \A x \in Pending : "op" \in DOMAIN x
  BY DEF Pending
<1>6. "rev" # "absent" /\ "obj" # "absent" /\ "spec" # "absent" /\ "op" # "absent"
  OBVIOUS
<1> HIDE DEF None
<1> QED
  BY <1>1, <1>2, <1>3, <1>4, <1>5, <1>6, Zenon

\* DualEpochMap::update keeps or raises the revision, and stamps what changed.
LEMMA UpdatedEntry ==
    ASSUME NEW old \in Entry, NEW new \in Object, NEW e \in Nat
    PROVE  LET u == Updated(old, new, e)
           IN  /\ u \in Entry
               /\ u.obj.rev >= old.obj.rev
               /\ \/ u = old
                  \/ /\ u.obj = new
                     /\ u.specEpoch \in {old.specEpoch, e} /\ u.statusEpoch \in {old.statusEpoch, e}
                     /\ u.metaEpoch \in {old.metaEpoch, e}
                     /\ \/ new.spec # old.obj.spec /\ u.specEpoch = e
                        \/ /\ new.spec = old.obj.spec /\ u.specEpoch = old.specEpoch
                           /\ u.statusEpoch = e \/ u.metaEpoch = e
<1> DEFINE d == Diff(old.obj, new)
           u == Updated(old, new, e)
<1>1. old.obj \in Object /\ old.obj.rev \in Nat /\ new.rev \in Nat
  BY DEF Entry, Object
<1>2. old # None
  BY NoneIsNothing
<1>3. CASE d = NoChange
  <2>1. u = old
    BY <1>2, <1>3 DEF Updated
  <2> QED
    BY <1>1, <2>1
<1>4. CASE d # NoChange
  <2>1. /\ ~(old.obj.rev > new.rev)
        /\ d = [spec |-> old.obj.spec # new.spec, status |-> old.obj.status # new.status,
                meta |-> old.obj.rev # new.rev]
    BY <1>4 DEF Diff, NoChange
  <2> HIDE DEF d
  <2>2. d.spec <=> old.obj.spec # new.spec
    BY <2>1
  <2>3. d.status <=> old.obj.status # new.status
    BY <2>1
  <2>4. d.meta <=> old.obj.rev # new.rev
    BY <2>1
  <2>5. old.obj.spec # new.spec \/ old.obj.status # new.status \/ old.obj.rev # new.rev
    <3>1. ASSUME old.obj.spec = new.spec, old.obj.status = new.status, old.obj.rev = new.rev
          PROVE  d = NoChange
      BY <1>1, <3>1 DEF d, Diff, NoChange
    <3> QED
      BY <1>4, <3>1
  <2>6. u = [obj |-> new,
             specEpoch |-> IF d.spec THEN e ELSE old.specEpoch,
             statusEpoch |-> IF d.status THEN e ELSE old.statusEpoch,
             metaEpoch |-> IF d.meta THEN e ELSE old.metaEpoch]
    BY <1>2, <1>4 DEF Updated, d
  <2> HIDE DEF u
  <2>7. /\ u.obj = new
        /\ u.specEpoch = IF d.spec THEN e ELSE old.specEpoch
        /\ u.statusEpoch = IF d.status THEN e ELSE old.statusEpoch
        /\ u.metaEpoch = IF d.meta THEN e ELSE old.metaEpoch
    BY <2>6
  <2>8. u.obj.rev >= old.obj.rev
    BY <1>1, <2>1, <2>7
  <2>9. u \in Entry
    BY <2>6 DEF Entry
  <2>10. \/ new.spec # old.obj.spec /\ u.specEpoch = e
         \/ /\ new.spec = old.obj.spec /\ u.specEpoch = old.specEpoch
            /\ u.statusEpoch = e \/ u.metaEpoch = e
    BY <2>2, <2>3, <2>4, <2>5, <2>7
  <2>11. /\ u.specEpoch \in {old.specEpoch, e} /\ u.statusEpoch \in {old.statusEpoch, e}
         /\ u.metaEpoch \in {old.metaEpoch, e}
    BY <2>7
  <2> QED
    BY <2>7, <2>8, <2>9, <2>10, <2>11 DEF u
<1> QED
  BY <1>3, <1>4

LEMMA NewEntry ==
    ASSUME NEW new \in Object, NEW e \in Nat
    PROVE  /\ Updated(None, new, e) = [obj |-> new, specEpoch |-> e, statusEpoch |-> e, metaEpoch |-> e]
           /\ Updated(None, new, e) \in Entry
  BY DEF Updated, Stamped, Entry

-----------------------------------------------------------------------------
(* What a step does to the store: nothing, a reconciliation, or one update. *)

LEMMA UpdatedType ==
    ASSUME NEW old \in Entry \cup {None}, NEW new \in Object, NEW e \in Nat
    PROVE  Updated(old, new, e) \in Entry
  BY UpdatedEntry, NewEntry

\* A write leaves an object in the files, and the update to be queued.
LEMMA WriteType ==
    ASSUME TypeOK, NEW w \in Writers, NEW k \in Key, NEW value \in Object, Write(w, k, value)
    PROVE  /\ data' \in [Key -> Object \cup {None}] /\ sending' \in [Writers -> Pending \cup {None}]
           /\ writes' \in Nat /\ born' \in [Key -> Nat]
           /\ UNCHANGED <<version, queue, crossed>>
           /\ \A j \in Key : data'[j] # None \/ data'[j] = data[j]
<1> DEFINE new == IF data[k] = None THEN value ELSE [value EXCEPT !.rev = data[k].rev + 1]
<1>1. data[k] \in Object \cup {None}
  BY DEF TypeOK
<1>2. new \in Object
  BY <1>1 DEF Object
<1>3. /\ data' = [data EXCEPT ![k] = new]
      /\ sending' = [sending EXCEPT ![w] = [op |-> "mod", key |-> k, obj |-> new, at |-> Unnumbered]]
  BY DEF Write
<1> HIDE DEF new
<1>4. [op |-> "mod", key |-> k, obj |-> new, at |-> Unnumbered] \in Pending
  BY <1>2 DEF Pending
<1>5. sending' \in [Writers -> Pending \cup {None}]
  BY <1>3, <1>4 DEF TypeOK
<1>6. data' \in [Key -> Object \cup {None}] /\ \A j \in Key : data'[j] # None \/ data'[j] = data[j]
  BY <1>2, <1>3, NoneIsNothing DEF TypeOK
<1>7. /\ writes' = writes + 1 /\ UNCHANGED <<version, queue, crossed>>
      /\ born' = [born EXCEPT ![k] = @ + 1] \/ born' = born
  BY DEF Write
<1>8. writes' \in Nat /\ born' \in [Key -> Nat]
  BY <1>7 DEF TypeOK
<1> QED
  BY <1>5, <1>6, <1>7, <1>8

LEMMA RemoveType ==
    ASSUME TypeOK, NEW w \in Writers, NEW k \in Key, Remove(w, k)
    PROVE  /\ data' \in [Key -> Object \cup {None}] /\ sending' \in [Writers -> Pending \cup {None}]
           /\ writes' \in Nat /\ UNCHANGED <<version, queue, born, crossed>>
           /\ \A j \in Permanent : data'[j] = data[j]
<1>1. [op |-> "del", key |-> k, obj |-> None, at |-> Unnumbered] \in Pending
  BY DEF Pending, Remove
<1>2. /\ data' = [data EXCEPT ![k] = None] /\ k \notin Permanent
      /\ sending' = [sending EXCEPT ![w] = [op |-> "del", key |-> k, obj |-> None, at |-> Unnumbered]]
      /\ writes' \in Nat /\ UNCHANGED <<version, queue, born, crossed>>
  BY DEF Remove, TypeOK
<1>3. data' \in [Key -> Object \cup {None}] /\ \A j \in Permanent : data'[j] = data[j]
  BY <1>2, MetadataAssumption DEF TypeOK
<1>4. sending' \in [Writers -> Pending \cup {None}]
  BY <1>1, <1>2 DEF TypeOK
<1> QED
  BY <1>2, <1>3, <1>4

LEMMA NumberType ==
    ASSUME TypeOK, NEW w \in Writers, Number(w)
    PROVE  /\ version' \in Nat /\ sending' \in [Writers -> Pending \cup {None}]
           /\ UNCHANGED <<data, queue, writes, born, crossed>>
<1> DEFINE u == sending[w]
<1>1. u \in Pending /\ version \in Nat
  BY DEF Number, TypeOK
<1>2. [u EXCEPT !.at = version] \in Pending
  <2>1. CASE u \in [op : {"mod"}, key : Key, obj : Object, at : Nat \cup {Unnumbered}]
    BY <1>1, <2>1 DEF Pending
  <2>2. CASE u \in [op : {"del"}, key : Key \ Permanent, obj : {None}, at : Nat \cup {Unnumbered}]
    BY <1>1, <2>2 DEF Pending
  <2> QED
    BY <1>1, <2>1, <2>2 DEF Pending
<1>3. /\ sending' = [sending EXCEPT ![w] = [u EXCEPT !.at = version]] /\ version' = version + 1
      /\ UNCHANGED <<data, queue, writes, born, crossed>>
  BY DEF Number
<1> HIDE DEF u
<1> QED
  BY <1>1, <1>2, <1>3 DEF TypeOK

LEMMA QueueType ==
    ASSUME TypeOK, NEW w \in Writers, Queue(w)
    PROVE  /\ queue' \in Seq(Update)
           /\ sending' \in [Writers -> Pending \cup {None}] /\ crossed' \subseteq Key
           /\ UNCHANGED <<data, version, writes, born>>
<1> DEFINE u == sending[w]
<1>1. u \in Pending /\ u.at # Unnumbered
  BY DEF Queue, TypeOK
<1>2. u \in Update /\ u.key \in Key
  BY <1>1 DEF Pending, Update
<1>3. queue' = Append(queue, u) /\ sending' = [sending EXCEPT ![w] = None]
      /\ (crossed' = crossed \cup {u.key} \/ crossed' = crossed)
      /\ UNCHANGED <<data, version, writes, born>>
  BY DEF Queue
<1> HIDE DEF u
<1>4. queue' \in Seq(Update)
  BY <1>2, <1>3, AppendProperties DEF TypeOK
<1> QED
  BY <1>1, <1>2, <1>3, <1>4 DEF TypeOK

\* The store after a reconciliation.
LEMMA SyncAllType ==
    ASSUME TypeOK, SyncAll(data)
    PROVE  /\ store' \in [Key -> Entry \cup {None}] /\ epoch' \in Nat /\ fence' \in Nat /\ deleted' = {}
           /\ fence' = epoch + 1 /\ epoch' = epoch + 1
           /\ \A k \in Key : store'[k] = IF data[k] = None THEN None
                                         ELSE Updated(store[k], data[k], epoch + 1)
<1>1. /\ store' = [k \in Key |-> IF data[k] = None THEN None ELSE Updated(store[k], data[k], epoch + 1)]
      /\ epoch' = epoch + 1 /\ fence' = epoch + 1 /\ deleted' = {}
  BY DEF SyncAll
<1>2. epoch + 1 \in Nat
  BY DEF TypeOK
<1>3. ASSUME NEW k \in Key, data[k] # None PROVE Updated(store[k], data[k], epoch + 1) \in Entry
  BY <1>2, <1>3, UpdatedType DEF TypeOK
<1>4. store' \in [Key -> Entry \cup {None}]
  BY <1>1, <1>3
<1> QED
  BY <1>1, <1>2, <1>4

LEMMA ModType ==
    ASSUME TypeOK, NEW k \in Key, NEW new \in Object, ApplyMod(k, new)
    PROVE  /\ store' \in [Key -> Entry \cup {None}] /\ epoch' \in Nat /\ disp' \in {"loop", "publish"}
           /\ \A j \in Key : store'[j] = IF j = k THEN Updated(store[k], new, epoch + 1) ELSE store[j]
           /\ epoch' = (IF store' = store THEN epoch ELSE epoch + 1)
           /\ UNCHANGED <<fence, deleted>>
<1>1. /\ store' = [store EXCEPT ![k] = Updated(store[k], new, epoch + 1)]
      /\ epoch' = IF store' = store THEN epoch ELSE epoch + 1
      /\ disp' \in {"loop", "publish"} /\ UNCHANGED <<fence, deleted>>
  BY DEF ApplyMod
<1>2. Updated(store[k], new, epoch + 1) \in Entry /\ epoch \in Nat /\ epoch + 1 \in Nat
  <2>1. store[k] \in Entry \cup {None} /\ epoch \in Nat /\ epoch + 1 \in Nat
    BY DEF TypeOK
  <2> QED
    BY <2>1, UpdatedType
<1>3. store' \in [Key -> Entry \cup {None}]
  BY <1>1, <1>2 DEF TypeOK
<1>4. \A j \in Key : store'[j] = IF j = k THEN Updated(store[k], new, epoch + 1) ELSE store[j]
  BY <1>1 DEF TypeOK
<1> QED
  BY <1>1, <1>2, <1>3, <1>4

LEMMA DelType ==
    ASSUME TypeOK, NEW k \in Key, ApplyDelete(k)
    PROVE  /\ store' \in [Key -> Entry \cup {None}] /\ epoch' \in Nat /\ disp' = "publish"
           /\ \A j \in Key : store'[j] = IF j = k THEN None ELSE store[j]
           /\ epoch' = epoch + 1 /\ fence' = fence
           /\ deleted' = (IF store[k] = None THEN deleted ELSE deleted \cup {<<k, epoch + 1>>})
           /\ deleted' \subseteq Key \X Nat
<1>1. /\ store' = [store EXCEPT ![k] = None] /\ epoch' = epoch + 1 /\ disp' = "publish" /\ fence' = fence
      /\ deleted' = (IF store[k] = None THEN deleted ELSE deleted \cup {<<k, epoch + 1>>})
  BY DEF ApplyDelete
<1>2. epoch + 1 \in Nat /\ deleted \subseteq Key \X Nat
  BY DEF TypeOK
<1>3. deleted' \subseteq Key \X Nat
  BY <1>1, <1>2
<1>4. store' \in [Key -> Entry \cup {None}] /\ \A j \in Key : store'[j] = IF j = k THEN None ELSE store[j]
  BY <1>1 DEF TypeOK
<1> QED
  BY <1>1, <1>2, <1>3, <1>4

LEMMA HeadOfQueue ==
    ASSUME TypeOK, queue # <<>>
    PROVE  /\ Head(queue) \in Update /\ Tail(queue) \in Seq(Update)
           /\ Head(queue).op = "mod" => Head(queue).key \in Key /\ Head(queue).obj \in Object
           /\ Head(queue).op = "del" => Head(queue).key \in Key \ Permanent
<1>1. Head(queue) \in Update /\ Tail(queue) \in Seq(Update)
  BY HeadTailProperties DEF TypeOK
<1> QED
  BY <1>1 DEF Update

LEMMA StoreSteps ==
    ASSUME TypeOK, [Next]_vars
    PROVE  \/ UNCHANGED memory
           \/ RetrieveAll
           \/ /\ disp \in {"loop", "reread"} /\ UNCHANGED subscriber
              /\ \E k \in Key, new \in Object : ApplyMod(k, new)
           \/ /\ disp = "loop" /\ UNCHANGED subscriber
              /\ \E k \in Key \ Permanent : ApplyDelete(k)
<1>1. ASSUME WatchNext
      PROVE  \/ UNCHANGED memory
             \/ /\ disp = "loop" /\ UNCHANGED subscriber
                /\ \E k \in Key, new \in Object : ApplyMod(k, new)
             \/ /\ disp = "loop" /\ UNCHANGED subscriber
                /\ \E k \in Key \ Permanent : ApplyDelete(k)
  BY <1>1, HeadOfQueue DEF WatchNext
<1>2. ASSUME StatusApplied
      PROVE  \/ UNCHANGED memory
             \/ /\ disp = "reread" /\ UNCHANGED subscriber
                /\ \E k \in Key, new \in Object : ApplyMod(k, new)
  <2>1. CASE data[target] = None
    BY <1>2, <2>1 DEF StatusApplied
  <2>2. CASE data[target] # None /\ target \in Key
    <3>1. data[target] \in Object
      BY <2>2 DEF TypeOK
    <3> QED
      BY <1>2, <2>2, <3>1 DEF StatusApplied
  <2>3. target \in Key
    BY <1>2 DEF StatusApplied, TypeOK
  <2> QED
    BY <2>1, <2>2, <2>3
<1> QED
  BY <1>1, <1>2 DEF Next, Dispatch, Action, Reconcile, Publish, ActionQueues, Apply, UpdateSpec,
     UpdateStatus, Delete, OwnerDeletes, ChildLinks, RelatedSends, ActionNumbers,
     SendChanges, Receive, Reconnect, vars

-----------------------------------------------------------------------------
(* Types. *)

LEMMA TypeInit == Init => TypeOK
<1> SUFFICES ASSUME Init PROVE TypeOK
  OBVIOUS
<1>1. <<>> \in Seq(Update) /\ <<>> \in Seq(Message)
  BY EmptySeq
<1>2. data \in [Key -> Object \cup {None}] /\ born \in [Key -> Nat]
  BY DEF Init, Object
<1>3. kind \in {"spu", "client"}
  BY MetadataAssumption DEF Init
<1>4. /\ store \in [Key -> Entry \cup {None}] /\ copy \in [Key -> Views \cup {None}]
      /\ sending \in [Writers -> Pending \cup {None}]
  BY DEF Init
<1> QED
  BY <1>1, <1>2, <1>3, <1>4 DEF Init, TypeOK

LEMMA ViewType == ASSUME NEW o \in Object, kind \in {"spu", "client"} PROVE View(o) \in Views
  BY DEF View, Object, Views

LEMMA ChangesType ==
    ASSUME TypeOK
    PROVE  LET c == ChangesSince(last)
           IN  /\ c.all \in BOOLEAN /\ c.deletes \subseteq Key /\ c.updates \subseteq Key
               /\ \A k \in c.updates : store[k] # None
               /\ Changes(c) \in Message
<1> DEFINE c == ChangesSince(last)
<1>1. c.all \in BOOLEAN /\ c.deletes \subseteq Key /\ c.updates \subseteq Key
      /\ \A k \in c.updates : store[k] # None
  BY DEF ChangesSince, TypeOK
<1>2. ASSUME NEW k \in c.updates PROVE View(store[k].obj) \in Views
  <2>1. store[k] \in Entry
    BY <1>1, <1>2 DEF TypeOK
  <2>2. store[k].obj \in Object /\ kind \in {"spu", "client"}
    BY <2>1 DEF Entry, TypeOK
  <2> QED
    BY <2>2, ViewType
<1> HIDE DEF c
<1>3. [k \in Key |-> IF k \in c.updates THEN View(store[k].obj) ELSE None] \in [Key -> Views \cup {None}]
  BY <1>2
<1>4. Changes(c) \in Message
  BY <1>1, <1>3 DEF Changes, Message
<1> QED
  BY <1>1, <1>4 DEF c

LEMMA AppliedType ==
    ASSUME TypeOK, chan # <<>>
    PROVE  /\ Head(chan) \in Message /\ Tail(chan) \in Seq(Message)
           /\ Applied(Head(chan)) \in [Key -> Views \cup {None}]
<1>1. Head(chan) \in Message /\ Tail(chan) \in Seq(Message)
  BY HeadTailProperties DEF TypeOK
<1> QED
  BY <1>1 DEF Applied, Said, Message, TypeOK

\* The writes of the dispatcher's own actions are writes of objects.
LEMMA ActionWrites ==
    ASSUME TypeOK, NEW k \in Key, Apply(k) \/ UpdateSpec(k) \/ UpdateStatus(k) \/ ChildLinks(k)
    PROVE  \E w \in Writers, value \in Object : Write(w, k, value)
<1> USE DEF TypeOK, Writers
<1>1. CASE Apply(k)
  <2>1. [rev |-> 0, spec |-> writes + 1, status |-> 0] \in Object
    BY DEF Object
  <2> QED
    BY <1>1, <2>1 DEF Apply
<1>2. CASE UpdateSpec(k)
  <2> DEFINE known == store[k] # None
             rev == IF known THEN store[k].obj.rev ELSE IF data[k] # None THEN data[k].rev ELSE 0
             status == IF data[k] # None THEN data[k].status ELSE 0
  <2>1. rev \in Nat /\ status \in Nat
    BY DEF Entry, Object
  <2>2. Write("own", k, [rev |-> rev, spec |-> writes + 1, status |-> status])
    BY <1>2 DEF UpdateSpec
  <2> HIDE DEF rev, status
  <2>3. [rev |-> rev, spec |-> writes + 1, status |-> status] \in Object
    BY <2>1 DEF Object
  <2> QED
    BY <2>2, <2>3
<1>3. CASE UpdateStatus(k)
  <2>1. store[k] \in Entry /\ data[k] \in Object
    BY <1>3 DEF UpdateStatus
  <2>2. [data[k] EXCEPT !.rev = store[k].obj.rev, !.status = writes + 1] \in Object
    <3>1. store[k].obj.rev \in Nat /\ writes + 1 \in Nat
      <4>1. store[k].obj \in Object
        BY <2>1 DEF Entry
      <4>2. \A o \in Object : o.rev \in Nat
        BY DEF Object
      <4>3. writes + 1 \in Nat
        OBVIOUS
      <4> QED
        BY <4>1, <4>2, <4>3
    <3>2. \A o \in Object, m, n \in Nat : [o EXCEPT !.rev = m, !.status = n] \in Object
      BY DEF Object
    <3> QED
      BY <2>1, <3>1, <3>2
  <2> QED
    BY <1>3, <2>2 DEF UpdateStatus
<1>4. CASE ChildLinks(k)
  BY <1>4 DEF ChildLinks
<1> QED
  BY <1>1, <1>2, <1>3, <1>4

LEMMA TypeStep == TypeOK /\ [Next]_vars => TypeOK'
<1> SUFFICES ASSUME TypeOK, [Next]_vars PROVE TypeOK'
  OBVIOUS
<1> USE DEF TypeOK
<1>a. "own" \in Writers /\ "related" \in Writers
  BY DEF Writers
<1>1. ASSUME RetrieveAll PROVE TypeOK'
  BY <1>1, SyncAllType DEF RetrieveAll, subscriber
<1>2. ASSUME Publish PROVE TypeOK'
  BY <1>2 DEF Publish, files, memory, subscriber
<1>3. ASSUME Reconcile PROVE TypeOK'
  BY <1>3 DEF Reconcile, files, memory, subscriber
<1>4. ASSUME WatchNext PROVE TypeOK'
  <2>1. /\ queue' \in Seq(Update)
        /\ UNCHANGED <<data, version, sending, writes, born, crossed, target, since, resyncs, change,
                       subscriber>>
    BY <1>4, HeadOfQueue DEF WatchNext
  <2>2. /\ store' \in [Key -> Entry \cup {None}] /\ epoch' \in Nat /\ fence' \in Nat
        /\ deleted' \subseteq Key \X Nat /\ disp' \in {"loop", "publish"}
    <3>1. CASE UNCHANGED <<memory, disp>>
      BY <1>4, <3>1 DEF WatchNext, memory
    <3>2. ASSUME NEW k \in Key, NEW new \in Object, ApplyMod(k, new)
          PROVE  /\ store' \in [Key -> Entry \cup {None}] /\ epoch' \in Nat /\ fence' \in Nat
                 /\ deleted' \subseteq Key \X Nat /\ disp' \in {"loop", "publish"}
      BY <3>2, ModType
    <3>3. ASSUME NEW k \in Key, ApplyDelete(k)
          PROVE  /\ store' \in [Key -> Entry \cup {None}] /\ epoch' \in Nat /\ fence' \in Nat
                 /\ deleted' \subseteq Key \X Nat /\ disp' \in {"loop", "publish"}
      BY <3>3, DelType
    <3> QED
      BY <1>4, <3>1, <3>2, <3>3, HeadOfQueue DEF WatchNext
  <2> QED
    BY <2>1, <2>2 DEF subscriber
<1>5. ASSUME NEW k \in Key, Apply(k) \/ UpdateSpec(k) \/ UpdateStatus(k) \/ ChildLinks(k) PROVE TypeOK'
  <2>1. PICK w \in Writers, value \in Object : Write(w, k, value)
    BY <1>5, ActionWrites
  <2>2. /\ data' \in [Key -> Object \cup {None}] /\ sending' \in [Writers -> Pending \cup {None}]
        /\ writes' \in Nat /\ born' \in [Key -> Nat]
        /\ UNCHANGED <<version, queue, crossed>>
    BY <1>a, <2>1, WriteType
  <2>3. /\ (disp' = "send" \/ UNCHANGED <<disp, target>>) /\ target' \in Key \cup {None}
        /\ UNCHANGED <<since, resyncs, memory, change, subscriber>>
    BY <1>5 DEF Apply, UpdateSpec, UpdateStatus, ChildLinks, dispatcher
  <2> QED
    BY <2>2, <2>3 DEF memory, subscriber
<1>6. ASSUME NEW k \in Key, Delete(k) \/ OwnerDeletes(k) PROVE TypeOK'
  <2>1. PICK w \in Writers : Remove(w, k)
    BY <1>a, <1>6 DEF Delete, OwnerDeletes
  <2>2. /\ data' \in [Key -> Object \cup {None}] /\ sending' \in [Writers -> Pending \cup {None}]
        /\ writes' \in Nat /\ UNCHANGED <<version, queue, born, crossed>>
    BY <2>1, RemoveType
  <2>3. /\ disp' \in {disp, "send"} /\ UNCHANGED <<target, since, resyncs, memory, change, subscriber>>
    BY <1>6 DEF Delete, OwnerDeletes, dispatcher
  <2> QED
    BY <2>2, <2>3 DEF memory, subscriber
<1>7. ASSUME RelatedSends \/ ActionNumbers \/ ActionQueues PROVE TypeOK'
  <2>1. PICK w \in Writers : Number(w) \/ Queue(w)
    BY <1>a, <1>7 DEF RelatedSends, ActionNumbers, ActionQueues
  <2>2. /\ queue' \in Seq(Update) /\ version' \in Nat
        /\ sending' \in [Writers -> Pending \cup {None}] /\ crossed' \subseteq Key
        /\ UNCHANGED <<data, writes, born>>
    BY <2>1, QueueType, NumberType
  <2>3. /\ disp' \in {disp, "loop", "reread"} /\ (disp' = "reread" /\ disp # "reread" => target # None)
        /\ UNCHANGED <<target, since, resyncs, memory, change, subscriber>>
    BY <1>7 DEF RelatedSends, ActionNumbers, ActionQueues, dispatcher
  <2> QED
    BY <2>2, <2>3 DEF memory, subscriber
<1>8. ASSUME StatusApplied PROVE TypeOK'
  <2>1. /\ store' \in [Key -> Entry \cup {None}] /\ epoch' \in Nat /\ fence' \in Nat
        /\ deleted' \subseteq Key \X Nat /\ disp' \in {"loop", "publish"}
    <3>1. CASE data[target] = None
      BY <1>8, <3>1 DEF StatusApplied, memory
    <3>2. CASE data[target] # None
      <4>1. target \in Key /\ data[target] \in Object /\ ApplyMod(target, data[target])
        BY <1>8, <3>2 DEF StatusApplied
      <4> QED
        BY <4>1, ModType
    <3> QED
      BY <3>1, <3>2
  <2>2. target' = None /\ UNCHANGED <<files, since, resyncs, change, subscriber>>
    BY <1>8 DEF StatusApplied
  <2> QED
    BY <2>1, <2>2 DEF files, subscriber
<1>9. ASSUME SendChanges PROVE TypeOK'
  <2>1. chan' \in Seq(Message)
    <3>1. CASE chan' = chan
      BY <3>1
    <3>2. CASE chan' = Append(chan, Changes(ChangesSince(last)))
      BY <3>2, ChangesType, AppendProperties
    <3> QED
      BY <1>9, <3>1, <3>2 DEF SendChanges, Changes
  <2> QED
    BY <1>9, <2>1 DEF SendChanges, files, dispatcher, memory
<1>10. ASSUME Receive PROVE TypeOK'
  <2>1. chan' \in Seq(Message) /\ copy' \in [Key -> Views \cup {None}]
    BY <1>10, AppliedType DEF Receive
  <2> QED
    BY <1>10, <2>1 DEF Receive, files, dispatcher, memory
<1>11. ASSUME Reconnect PROVE TypeOK'
  <2>1. chan' \in Seq(Message)
    BY <1>11, EmptySeq DEF Reconnect
  <2> QED
    BY <1>11, <2>1 DEF Reconnect, files, dispatcher, memory
<1>12. CASE UNCHANGED vars
  BY <1>12 DEF vars, files, dispatcher, memory, subscriber
<1> QED
  BY <1>1, <1>2, <1>3, <1>4, <1>5, <1>6, <1>7, <1>8, <1>9, <1>10, <1>11, <1>12 DEF Next, Dispatch, Action

(***************************************************************************)
(* The store and all that travels to and from it keep their types.         *)
(***************************************************************************)
THEOREM SyncTypes == Spec => []TypeOK
<1>1. TypeOK /\ [Next]_vars => TypeOK'
  BY TypeStep
<1> QED
  BY <1>1, TypeInit, PTL DEF Spec

(***************************************************************************)
(* No step takes an object of the store back to an earlier revision: what  *)
(* DualEpochMap::update makes of an entry has at least its revision, and   *)
(* every change of an entry that stays is one such update.                 *)
(***************************************************************************)
THEOREM ForwardTheorem == Spec => StoreMovesForward
<1> DEFINE Forward == \A k \in Key : store[k] # None /\ store'[k] # None
                                         => store'[k].obj.rev >= store[k].obj.rev
<1>1. TypeOK /\ [Next]_vars => [Forward]_vars
  <2> SUFFICES ASSUME TypeOK, [Next]_vars, NEW k \in Key, store[k] # None, store'[k] # None
               PROVE  store'[k].obj.rev >= store[k].obj.rev
    BY DEF vars
  <2>1. store[k] \in Entry /\ store[k].obj.rev \in Nat /\ epoch + 1 \in Nat
    BY DEF TypeOK, Entry, Object
  <2>2. CASE store'[k] = store[k]
    BY <2>1, <2>2
  <2>3. ASSUME NEW new \in Object, store'[k] = Updated(store[k], new, epoch + 1)
        PROVE  store'[k].obj.rev >= store[k].obj.rev
    BY <2>1, <2>3, UpdatedEntry
  <2>4. CASE UNCHANGED memory
    BY <2>2, <2>4 DEF memory
  <2>5. CASE RetrieveAll
    <3>1. store'[k] = IF data[k] = None THEN None ELSE Updated(store[k], data[k], epoch + 1)
      BY <2>5, SyncAllType DEF RetrieveAll
    <3>2. data[k] # None => data[k] \in Object
      BY DEF TypeOK
    <3> QED
      BY <2>3, <3>1, <3>2
  <2>6. ASSUME NEW j \in Key, NEW new \in Object, ApplyMod(j, new)
        PROVE  store'[k].obj.rev >= store[k].obj.rev
    <3>1. store'[k] = IF k = j THEN Updated(store[j], new, epoch + 1) ELSE store[k]
      BY <2>6, ModType
    <3> QED
      BY <2>2, <2>3, <3>1
  <2>7. ASSUME NEW j \in Key, ApplyDelete(j)
        PROVE  store'[k].obj.rev >= store[k].obj.rev
    <3>1. store'[k] = IF k = j THEN None ELSE store[k]
      BY <2>7, DelType
    <3> QED
      BY <2>2, <3>1
  <2> QED
    BY <2>4, <2>5, <2>6, <2>7, StoreSteps
<1> QED
  BY <1>1, SyncTypes, PTL DEF Spec, StoreMovesForward

-----------------------------------------------------------------------------
(* Epochs, and what is there from the first reconciliation on. *)

LEMMA FenceInit == Init => EpochInv /\ FenceInv /\ PermanentInv /\ FollowInv
<1> SUFFICES ASSUME Init PROVE EpochInv /\ FenceInv /\ PermanentInv /\ FollowInv
  OBVIOUS
<1>1. EpochInv
  BY DEF Init, EpochInv
<1>2. FenceInv
  BY DEF Init, FenceInv
<1>3. PermanentInv
  <2>1. ASSUME NEW k \in Permanent PROVE data[k] = [rev |-> 0, spec |-> 0, status |-> 0]
    BY MetadataAssumption DEF Init
  <2>2. [rev |-> 0, spec |-> 0, status |-> 0] \in Object
    BY DEF Object
  <2> QED
    BY <2>1, <2>2, NoneIsNothing DEF PermanentInv
<1>4. ASSUME NEW k \in Key PROVE Arriving(k, Wanted(k))
  <2>1. Wanted(k) = copy[k] /\ chan = <<>>
    BY DEF Wanted, Init
  <2>2. \A i \in 1 .. Len(chan) : ~Touches(chan[i], k)
    BY <2>1
  <2> QED
    BY <2>1, <2>2 DEF Arriving
<1> QED
  BY <1>1, <1>2, <1>3, <1>4 DEF FollowInv

\* An entry that update leaves is no newer than the new epoch.
LEMMA UpdatedEpochs ==
    ASSUME NEW old \in Entry \cup {None}, NEW new \in Object, NEW e \in Nat, NEW n \in Nat, e <= n,
           old # None => old.specEpoch <= n /\ old.statusEpoch <= n /\ old.metaEpoch <= n
    PROVE  LET u == Updated(old, new, e)
           IN  u # None /\ u.specEpoch <= n /\ u.statusEpoch <= n /\ u.metaEpoch <= n
<1>1. Updated(old, new, e) # None
  BY UpdatedType, NoneIsNothing
<1>2. CASE old = None
  BY <1>1, <1>2, NewEntry
<1>3. CASE old # None
  <2>1. old \in Entry
    BY <1>3
  <2> QED
    BY <1>1, <1>3, <2>1, UpdatedEntry
<1> QED
  BY <1>2, <1>3

LEMMA PermanentStep ==
    ASSUME TypeOK, PermanentInv, [Next]_vars
    PROVE  PermanentInv'
<1>1. ASSUME NEW w \in Writers, NEW k \in Key, Remove(w, k) PROVE PermanentInv'
  BY <1>1, RemoveType DEF PermanentInv
<1>2. ASSUME NEW w \in Writers, NEW k \in Key, NEW value \in Object, Write(w, k, value) PROVE PermanentInv'
  BY <1>2, WriteType, MetadataAssumption DEF PermanentInv
<1>3. "own" \in Writers /\ "related" \in Writers
  BY DEF Writers
<1>4. ASSUME NEW k \in Key, Action(k) \/ OwnerDeletes(k) \/ ChildLinks(k) PROVE PermanentInv'
  BY <1>1, <1>2, <1>3, <1>4, ActionWrites DEF Action, Delete, OwnerDeletes
<1>5. CASE UNCHANGED data
  BY <1>5 DEF PermanentInv
<1> QED
  BY <1>4, <1>5 DEF Next, Dispatch, RetrieveAll, Publish, WatchNext, ActionQueues, StatusApplied, Reconcile,
     ActionNumbers, RelatedSends, Number, Queue, SendChanges, Receive, Reconnect, files, vars

\* Epochs and the fence over one step.
LEMMA EpochStep ==
    ASSUME TypeOK, EpochInv, [Next]_vars
    PROVE  EpochInv'
<1> DEFINE Bounded(n) == \A k \in Key : store[k] # None => /\ store[k].specEpoch <= n
                                                           /\ store[k].statusEpoch <= n
                                                           /\ store[k].metaEpoch <= n
           After(n) == \A k \in Key : store'[k] # None => /\ store'[k].specEpoch <= n
                                                          /\ store'[k].statusEpoch <= n
                                                          /\ store'[k].metaEpoch <= n
<1>1. /\ epoch \in Nat /\ fence \in Nat /\ last \in Nat /\ epoch + 1 \in Nat /\ fence <= epoch /\ last <= epoch
      /\ deleted \subseteq Key \X Nat
  BY DEF TypeOK, EpochInv
<1>2. Bounded(epoch + 1)
  <2>1. ASSUME NEW k \in Key, store[k] # None
        PROVE  /\ store[k].specEpoch <= epoch + 1 /\ store[k].statusEpoch <= epoch + 1
               /\ store[k].metaEpoch <= epoch + 1
    <3>1. store[k].specEpoch \in Nat /\ store[k].statusEpoch \in Nat /\ store[k].metaEpoch \in Nat
      BY <2>1 DEF TypeOK, Entry
    <3> QED
      BY <1>1, <2>1, <3>1 DEF EpochInv
  <2> QED
    BY <2>1
<1>3. ASSUME NEW k \in Key, NEW new \in Object
      PROVE  LET u == Updated(store[k], new, epoch + 1)
             IN  u # None /\ u.specEpoch <= epoch + 1 /\ u.statusEpoch <= epoch + 1 /\ u.metaEpoch <= epoch + 1
  <2>1. store[k] \in Entry \cup {None} /\ epoch + 1 <= epoch + 1
    BY <1>1 DEF TypeOK
  <2>2. store[k] # None => /\ store[k].specEpoch <= epoch + 1 /\ store[k].statusEpoch <= epoch + 1
                           /\ store[k].metaEpoch <= epoch + 1
    BY <1>2
  <2> QED
    BY <1>1, <2>1, <2>2, UpdatedEpochs
<1>4. CASE UNCHANGED memory
  <2>1. last' \in {last, epoch, 0}
    BY DEF Next, Dispatch, RetrieveAll, Publish, WatchNext, ActionQueues, StatusApplied, Reconcile,
       Action, Apply, UpdateSpec, UpdateStatus, Delete, OwnerDeletes, ChildLinks, RelatedSends,
       ActionNumbers, SendChanges, Receive,
       Reconnect, subscriber, vars
  <2>2. UNCHANGED <<store, epoch, fence, deleted>>
    BY <1>4 DEF memory
  <2> QED
    BY <1>1, <2>1, <2>2 DEF EpochInv
<1>5. CASE RetrieveAll
  <2>1. /\ epoch' = epoch + 1 /\ fence' = epoch + 1 /\ deleted' = {} /\ last' = last
        /\ \A k \in Key : store'[k] = IF data[k] = None THEN None
                                      ELSE Updated(store[k], data[k], epoch + 1)
    BY <1>5, SyncAllType DEF RetrieveAll, subscriber
  <2>2. \A k \in Key : data[k] = None \/ data[k] \in Object
    BY DEF TypeOK
  <2>3. After(epoch + 1)
    BY <1>3, <2>1, <2>2
  <2> QED
    BY <1>1, <2>1, <2>3 DEF EpochInv
<1>6. ASSUME NEW k \in Key, NEW new \in Object, ApplyMod(k, new), UNCHANGED subscriber PROVE EpochInv'
  <2>1. /\ \A j \in Key : store'[j] = IF j = k THEN Updated(store[k], new, epoch + 1) ELSE store[j]
        /\ epoch' = (IF store' = store THEN epoch ELSE epoch + 1)
        /\ fence' = fence /\ deleted' = deleted /\ last' = last
    BY <1>6, ModType DEF subscriber
  <2>2. CASE store' = store
    BY <1>1, <2>1, <2>2 DEF EpochInv
  <2>3. CASE store' # store
    <3>1. epoch' = epoch + 1
      BY <2>1, <2>3
    <3>2. ASSUME NEW j \in Key, store'[j] # None
          PROVE  /\ store'[j].specEpoch <= epoch + 1 /\ store'[j].statusEpoch <= epoch + 1
                 /\ store'[j].metaEpoch <= epoch + 1
      BY <1>2, <1>3, <2>1, <3>2
    <3>3. \A d \in deleted : d[2] > 0 /\ d[2] <= epoch + 1
      BY <1>1 DEF EpochInv
    <3> QED
      BY <1>1, <2>1, <3>1, <3>2, <3>3 DEF EpochInv
  <2> QED
    BY <2>2, <2>3
<1>7. ASSUME NEW k \in Key, ApplyDelete(k), UNCHANGED subscriber PROVE EpochInv'
  <2>1. /\ \A j \in Key : store'[j] = IF j = k THEN None ELSE store[j]
        /\ epoch' = epoch + 1 /\ fence' = fence /\ last' = last
        /\ deleted' = (IF store[k] = None THEN deleted ELSE deleted \cup {<<k, epoch + 1>>})
    BY <1>7, DelType DEF subscriber
  <2>2. \A d \in deleted' : d[2] > 0 /\ d[2] <= epoch + 1
    <3>1. \A d \in deleted : d[2] > 0 /\ d[2] <= epoch + 1
      BY <1>1 DEF EpochInv
    <3>2. <<k, epoch + 1>>[2] > 0 /\ <<k, epoch + 1>>[2] <= epoch + 1
      BY <1>1
    <3> QED
      BY <2>1, <3>1, <3>2
  <2>3. After(epoch + 1)
    BY <1>2, <2>1
  <2> QED
    BY <1>1, <2>1, <2>2, <2>3 DEF EpochInv
<1> QED
  BY <1>4, <1>5, <1>6, <1>7, StoreSteps

LEMMA FenceStep ==
    ASSUME TypeOK, EpochInv, FenceInv, PermanentInv, [Next]_vars
    PROVE  FenceInv'
<1>1. CASE RetrieveAll
  <2>1. /\ fence' = epoch + 1 /\ epoch \in Nat
        /\ \A k \in Key : store'[k] = IF data[k] = None THEN None
                                      ELSE Updated(store[k], data[k], epoch + 1)
    BY <1>1, SyncAllType DEF RetrieveAll, TypeOK
  <2>2. ASSUME NEW k \in Permanent PROVE store'[k] # None
    <3>1. k \in Key /\ data[k] \in Object /\ store[k] \in Entry \cup {None} /\ epoch + 1 \in Nat
      BY MetadataAssumption DEF PermanentInv, TypeOK
    <3> QED
      BY <2>1, <3>1, UpdatedType, NoneIsNothing
  <2> QED
    BY <2>1, <2>2 DEF FenceInv
<1>2. CASE fence # 0 /\ ~RetrieveAll
  <2>1. fence' = fence /\ \A k \in Permanent : store'[k] # None
    <3>1. CASE UNCHANGED memory
      BY <1>2, <3>1 DEF FenceInv, memory
    <3>2. ASSUME NEW k \in Key, NEW new \in Object, ApplyMod(k, new)
          PROVE  fence' = fence /\ \A j \in Permanent : store'[j] # None
      <4>1. Updated(store[k], new, epoch + 1) # None
        <5>1. store[k] \in Entry \cup {None} /\ epoch + 1 \in Nat
          BY DEF TypeOK
        <5> QED
          BY <5>1, UpdatedType, NoneIsNothing
      <4> QED
        BY <1>2, <3>2, <4>1, ModType, MetadataAssumption DEF FenceInv
    <3>3. ASSUME NEW k \in Key \ Permanent, ApplyDelete(k)
          PROVE  fence' = fence /\ \A j \in Permanent : store'[j] # None
      BY <1>2, <3>3, DelType, MetadataAssumption DEF FenceInv
    <3> QED
      BY <1>2, <3>1, <3>2, <3>3, StoreSteps
  <2> QED
    BY <1>2, <2>1 DEF FenceInv
<1>3. CASE fence = 0 /\ ~RetrieveAll
  <2>1. disp = "retrieve" /\ epoch = 0 /\ chan = <<>> /\ \A k \in Key : store[k] = None /\ copy[k] = None
    BY <1>3 DEF FenceInv
  <2>2. UNCHANGED memory
    BY <1>3, <2>1, StoreSteps
  <2>3. disp' = "retrieve"
    BY <1>3, <2>1 DEF Next, Dispatch, Publish, WatchNext, ActionQueues, StatusApplied, Reconcile,
       Action, Apply, UpdateSpec, UpdateStatus, Delete, OwnerDeletes, ChildLinks, RelatedSends,
       ActionNumbers, SendChanges, Receive,
       Reconnect, dispatcher, vars
  <2>4. chan' = <<>> /\ \A k \in Key : copy'[k] = None
    <3>1. ASSUME SendChanges PROVE chan' = <<>> /\ copy' = copy
      <4>1. ~(last < fence) /\ \A d \in deleted : ~(d[2] > last)
        BY <1>3, <2>1 DEF TypeOK, EpochInv
      <4>2. ChangesSince(last).updates \cup ChangesSince(last).deletes = {}
        BY <2>1, <4>1 DEF ChangesSince
      <4> QED
        BY <2>1, <3>1, <4>2 DEF SendChanges
    <3>2. ASSUME Reconnect PROVE chan' = <<>> /\ \A k \in Key : copy'[k] = None
      BY <2>1, <3>2 DEF Reconnect
    <3>3. ~Receive
      BY <2>1 DEF Receive
    <3>4. SendChanges \/ Receive \/ Reconnect \/ UNCHANGED subscriber
      BY DEF Next, Dispatch, RetrieveAll, Publish, WatchNext, ActionQueues, StatusApplied, Reconcile,
         Action, Apply, UpdateSpec, UpdateStatus, Delete, OwnerDeletes, ChildLinks, RelatedSends, ActionNumbers, vars
    <3> QED
      BY <2>1, <3>1, <3>2, <3>3, <3>4 DEF subscriber
  <2> QED
    BY <1>3, <2>1, <2>2, <2>3, <2>4 DEF FenceInv, memory
<1> QED
  BY <1>1, <1>2, <1>3

-----------------------------------------------------------------------------
(* What is on its way to the subscriber. *)

\* A message that is sent decides what arrives of the objects it is about...
LEMMA SentArrives ==
    ASSUME TypeOK, NEW k \in Key, NEW m \in Message, NEW v, chan' = Append(chan, m), Touches(m, k),
           v = Said(m, k)
    PROVE  Arriving(k, v)'
<1>1. /\ Len(chan') = Len(chan) + 1 /\ chan'[Len(chan) + 1] = m /\ Len(chan) \in Nat
  BY AppendProperties DEF TypeOK
<1>2. Len(chan) + 1 \in 1 .. Len(chan') /\ \A j \in (Len(chan) + 1 + 1) .. Len(chan') : FALSE
  BY <1>1
<1> QED
  BY <1>1, <1>2 DEF Arriving, Touches, Said

\* ... and nothing of the others.
LEMMA SentElse ==
    ASSUME TypeOK, NEW k \in Key, NEW m \in Message, NEW v, chan' = Append(chan, m), copy' = copy,
           ~Touches(m, k), Arriving(k, v)
    PROVE  Arriving(k, v)'
<1>1. /\ Len(chan') = Len(chan) + 1 /\ chan'[Len(chan) + 1] = m /\ Len(chan) \in Nat
      /\ \A i \in 1 .. Len(chan) : chan'[i] = chan[i]
  BY AppendProperties DEF TypeOK
<1>2. \A i \in 1 .. Len(chan') : i = Len(chan) + 1 \/ i \in 1 .. Len(chan)
  BY <1>1
<1>3. CASE v = copy[k] /\ \A i \in 1 .. Len(chan) : ~Touches(chan[i], k)
  <2>1. \A i \in 1 .. Len(chan') : ~Touches(chan'[i], k)
    BY <1>1, <1>2, <1>3
  <2> QED
    BY <1>3, <2>1 DEF Arriving, Touches
<1>4. CASE \E i \in 1 .. Len(chan) : /\ Touches(chan[i], k) /\ v = Said(chan[i], k)
                                     /\ \A j \in (i + 1) .. Len(chan) : ~Touches(chan[j], k)
  <2>1. PICK i \in 1 .. Len(chan) : /\ Touches(chan[i], k) /\ v = Said(chan[i], k)
                                    /\ \A j \in (i + 1) .. Len(chan) : ~Touches(chan[j], k)
    BY <1>4
  <2>2. i \in 1 .. Len(chan') /\ Touches(chan'[i], k) /\ v = Said(chan'[i], k)
    BY <1>1, <2>1
  <2>3. ASSUME NEW j \in (i + 1) .. Len(chan') PROVE ~Touches(chan'[j], k)
    <3>1. j = Len(chan) + 1 \/ (j \in (i + 1) .. Len(chan) /\ j \in 1 .. Len(chan))
      BY <1>1, <2>1
    <3> QED
      BY <1>1, <2>1, <3>1
  <2> QED
    BY <2>2, <2>3 DEF Arriving, Touches, Said
<1> QED
  BY <1>3, <1>4 DEF Arriving

\* Reading a message changes nothing of what arrives in the end.
LEMMA ReadArrives ==
    ASSUME TypeOK, NEW k \in Key, NEW v, chan # <<>>, chan' = Tail(chan), copy' = Applied(Head(chan)),
           Arriving(k, v)
    PROVE  Arriving(k, v)'
<1>1. /\ Len(chan) \in Nat \ {0} /\ Len(chan') = Len(chan) - 1 /\ Head(chan) = chan[1]
      /\ \A i \in 1 .. Len(chan') : chan'[i] = chan[i + 1]
  BY HeadTailProperties, EmptySeq DEF TypeOK
<1>2. copy'[k] = IF Touches(chan[1], k) THEN Said(chan[1], k) ELSE copy[k]
  BY <1>1 DEF Applied
<1>3. \A i \in 1 .. Len(chan') : i + 1 \in 2 .. Len(chan) /\ i + 1 \in 1 .. Len(chan)
  BY <1>1
<1>4. CASE v = copy[k] /\ \A i \in 1 .. Len(chan) : ~Touches(chan[i], k)
  <2>1. \A i \in 1 .. Len(chan') : ~Touches(chan'[i], k)
    BY <1>1, <1>3, <1>4
  <2>2. v = copy'[k]
    BY <1>1, <1>2, <1>4
  <2> QED
    BY <2>1, <2>2 DEF Arriving, Touches
<1>5. ASSUME NEW i \in 1 .. Len(chan), Touches(chan[i], k), v = Said(chan[i], k),
             \A j \in (i + 1) .. Len(chan) : ~Touches(chan[j], k)
      PROVE  Arriving(k, v)'
  <2>1. CASE i = 1
    <3>1. v = copy'[k]
      BY <1>2, <1>5, <2>1
    <3>2. \A j \in 1 .. Len(chan') : ~Touches(chan'[j], k)
      BY <1>1, <1>3, <1>5, <2>1
    <3> QED
      BY <3>1, <3>2 DEF Arriving, Touches
  <2>2. CASE i # 1
    <3>1. i - 1 \in 1 .. Len(chan') /\ chan'[i - 1] = chan[i]
      <4>1. i - 1 \in 1 .. Len(chan') /\ (i - 1) + 1 = i
        BY <1>1, <2>2
      <4> QED
        BY <1>1, <4>1
    <3>2. ASSUME NEW j \in ((i - 1) + 1) .. Len(chan') PROVE ~Touches(chan'[j], k)
      <4>1. j \in 1 .. Len(chan') /\ j + 1 \in (i + 1) .. Len(chan)
        BY <1>1, <2>2
      <4> QED
        BY <1>1, <1>5, <4>1
    <3>3. Touches(chan'[i - 1], k) /\ v = Said(chan'[i - 1], k)
      BY <1>5, <3>1
    <3> QED
      BY <3>1, <3>2, <3>3 DEF Arriving, Touches, Said
  <2> QED
    BY <2>1, <2>2
<1> QED
  BY <1>4, <1>5 DEF Arriving

-----------------------------------------------------------------------------
(* The subscriber follows the store. *)

Follows(k) == \/ last < fence \/ Unsent(k)
              \/ store[k] # None /\ WasDeleted(k)
              \/ Arriving(k, Wanted(k))

\* An object no step touches is followed as before.
LEMMA FollowsElse ==
    ASSUME NEW k \in Key, Follows(k), store'[k] = store[k], deleted \subseteq deleted', fence' = fence,
           UNCHANGED subscriber
    PROVE  Follows(k)'
<1>1. UNCHANGED <<kind, last, chan, copy>>
  BY DEF subscriber
<1>2. Wanted(k)' = Wanted(k)
  BY <1>1 DEF Wanted, View
<1>3. Arriving(k, Wanted(k)) => Arriving(k, Wanted(k))'
  BY <1>1, <1>2 DEF Arriving, Touches, Said
<1>4. Unsent(k) => Unsent(k)'
  BY <1>1 DEF Unsent, ChangedSince
<1>5. WasDeleted(k) => WasDeleted(k)'
  BY DEF WasDeleted
<1> QED
  BY <1>1, <1>3, <1>4, <1>5 DEF Follows

\* An update that is applied to the store is sent, or does not show in the copy.
LEMMA FollowsMod ==
    ASSUME TypeOK, EpochInv, NEW k \in Key, NEW new \in Object, ApplyMod(k, new), UNCHANGED subscriber,
           Follows(k)
    PROVE  Follows(k)'
<1>1. /\ store'[k] = Updated(store[k], new, epoch + 1) /\ fence' = fence /\ deleted' = deleted
  BY ModType
<1>2. /\ UNCHANGED <<kind, last, chan, copy>> /\ epoch + 1 > last /\ epoch + 1 \in Nat /\ last \in Nat
      /\ kind \in {"spu", "client"} /\ store[k] \in Entry \cup {None}
  BY DEF subscriber, EpochInv, TypeOK
<1>3. CASE store[k] = None
  <2>1. store'[k] # None /\ store'[k].specEpoch = epoch + 1
    BY <1>1, <1>2, <1>3, NewEntry, NoneIsNothing
  <2>2. Unsent(k)'
    BY <1>2, <2>1 DEF Unsent, ChangedSince
  <2> QED
    BY <2>2 DEF Follows
<1>4. CASE store'[k] = store[k]
  BY <1>1, <1>4, FollowsElse
<1>5. CASE store[k] # None /\ store'[k] # store[k]
  <2>1. store[k] \in Entry /\ store'[k] \in Entry /\ store'[k] # None
    BY <1>1, <1>2, <1>5, UpdatedEntry, NoneIsNothing
  <2>2. /\ store'[k].obj = new
        /\ \/ new.spec # store[k].obj.spec /\ store'[k].specEpoch = epoch + 1
           \/ /\ new.spec = store[k].obj.spec /\ store'[k].specEpoch = store[k].specEpoch
              /\ store'[k].statusEpoch = epoch + 1 \/ store'[k].metaEpoch = epoch + 1
    <3> DEFINE u == Updated(store[k], new, epoch + 1)
    <3>1. \/ u = store[k]
          \/ /\ u.obj = new
             /\ \/ new.spec # store[k].obj.spec /\ u.specEpoch = epoch + 1
                \/ /\ new.spec = store[k].obj.spec /\ u.specEpoch = store[k].specEpoch
                   /\ u.statusEpoch = epoch + 1 \/ u.metaEpoch = epoch + 1
      BY <1>2, <2>1, UpdatedEntry
    <3> HIDE DEF u
    <3>2. store'[k] = u
      BY <1>1 DEF u
    <3> QED
      BY <1>5, <3>1, <3>2
  <2>3. CASE store'[k].specEpoch = epoch + 1 \/ kind = "client"
    <3>1. Unsent(k)'
      BY <1>2, <2>1, <2>2, <2>3 DEF Unsent, ChangedSince
    <3> QED
      BY <3>1 DEF Follows
  <2>4. CASE kind = "spu" /\ new.spec = store[k].obj.spec /\ store'[k].specEpoch = store[k].specEpoch
    <3>1. Wanted(k)' = Wanted(k)
      BY <1>2, <1>5, <2>1, <2>2, <2>4 DEF Wanted, View
    <3>2. Arriving(k, Wanted(k)) => Arriving(k, Wanted(k))'
      BY <1>2, <3>1 DEF Arriving, Touches, Said
    <3>3. Unsent(k) => Unsent(k)'
      BY <1>2, <1>5, <2>1, <2>4 DEF Unsent, ChangedSince
    <3>4. store[k] # None /\ WasDeleted(k) => store'[k] # None /\ WasDeleted(k)'
      BY <1>1, <2>1 DEF WasDeleted
    <3> QED
      BY <1>1, <1>2, <3>2, <3>3, <3>4 DEF Follows
  <2> QED
    BY <1>2, <2>2, <2>3, <2>4
<1> QED
  BY <1>3, <1>4, <1>5

LEMMA FollowsDelete ==
    ASSUME TypeOK, EpochInv, NEW k \in Key, ApplyDelete(k), UNCHANGED subscriber, Follows(k)
    PROVE  Follows(k)'
<1>1. /\ store'[k] = None /\ fence' = fence /\ last' = last
      /\ deleted' = (IF store[k] = None THEN deleted ELSE deleted \cup {<<k, epoch + 1>>})
  BY DelType DEF subscriber
<1>2. CASE store[k] = None
  BY <1>1, <1>2, FollowsElse
<1>3. CASE store[k] # None
  <2>1. <<k, epoch + 1>> \in deleted' /\ epoch + 1 > last
    BY <1>1, <1>3 DEF EpochInv, TypeOK
  <2>2. Unsent(k)'
    BY <1>1, <2>1 DEF Unsent
  <2> QED
    BY <2>2 DEF Follows
<1> QED
  BY <1>2, <1>3

\* After the changes are sent everything is on its way.  A whole list is not
\* empty, as it holds a permanent object.
LEMMA FollowsSend ==
    ASSUME Permanent # {}, TypeOK, EpochInv, FenceInv, SendChanges, NEW k \in Key, Follows(k)
    PROVE  Follows(k)'
<1> DEFINE c == ChangesSince(last)
<1>1. PICK m : m = Changes(c)
  OBVIOUS
<1>2. /\ chan' = IF c.updates \cup c.deletes = {} THEN chan ELSE Append(chan, m)
      /\ UNCHANGED <<store, deleted, kind, copy, fence>>
  BY <1>1 DEF SendChanges, memory
<1>3. /\ m \in Message /\ m.all = c.all /\ m.deletes = c.deletes
      /\ m.updates[k] = IF k \in c.updates THEN View(store[k].obj) ELSE None
      /\ last \in Nat /\ fence \in Nat
  BY <1>1, ChangesType DEF Changes, TypeOK
<1>a. PICK w : w = Wanted(k)
  OBVIOUS
<1>b. Wanted(k)' = w
  BY <1>2, <1>a DEF Wanted, View
<1>c. ASSUME Arriving(k, w)' PROVE Follows(k)'
  BY <1>b, <1>c DEF Follows, Arriving
<1>4. ASSUME Touches(m, k), Said(m, k) = w, c.updates \cup c.deletes # {} PROVE Follows(k)'
  BY <1>2, <1>3, <1>4, <1>c, SentArrives
<1>5. CASE last < fence
  <2>1. c = [all |-> TRUE, updates |-> {j \in Key : store[j] # None}, deletes |-> {}]
    BY <1>5 DEF ChangesSince
  <2>2. c.updates # {}
    <3>1. PICK p \in Permanent : TRUE
      OBVIOUS
    <3>2. p \in Key /\ store[p] # None
      BY <1>3, <1>5, MetadataAssumption DEF FenceInv
    <3> QED
      BY <2>1, <3>2
  <2>3. c.all /\ c.deletes = {} /\ (k \in c.updates <=> store[k] # None)
    BY <2>1
  <2>4. Touches(m, k) /\ Said(m, k) = w
    BY <1>3, <1>a, <2>3 DEF Touches, Said, Wanted
  <2> QED
    BY <1>4, <2>2, <2>4
<1>6. CASE ~(last < fence) /\ store[k] # None /\ WasDeleted(k)
  BY <1>2, <1>6 DEF Follows, WasDeleted
<1>7. CASE ~(last < fence) /\ ~(store[k] # None /\ WasDeleted(k))
  <2>1. c = [all |-> FALSE,
             updates |-> {j \in Key : store[j] # None /\ ChangedSince(store[j], last)},
             deletes |-> {d[1] : d \in {x \in deleted : x[2] > last}}]
    BY <1>7 DEF ChangesSince
  <2>2. k \in c.updates <=> store[k] # None /\ Unsent(k)
    BY <2>1 DEF Unsent
  <2>3. k \in c.deletes <=> store[k] = None /\ Unsent(k)
    <3>1. k \in c.deletes <=> \E d \in deleted : d[2] > last /\ d[1] = k
      BY <2>1
    <3> QED
      BY <1>7, <3>1 DEF Unsent, WasDeleted
  <2>4. CASE Unsent(k)
    <3>1. store[k] # None => View(store[k].obj) # None
      <4>1. store[k] # None => store[k].obj \in Object /\ kind \in {"spu", "client"}
        BY DEF TypeOK, Entry
      <4> QED
        BY <4>1, ViewType, NoneIsNothing
    <3>2. Touches(m, k) /\ Said(m, k) = w
      BY <1>3, <1>a, <2>2, <2>3, <2>4, <3>1 DEF Touches, Said, Wanted
    <3> QED
      BY <1>4, <2>2, <2>3, <2>4, <3>2
  <2>5. CASE ~Unsent(k)
    <3>1. ~Touches(m, k)
      <4>1. ~c.all /\ k \notin c.updates /\ k \notin c.deletes
        BY <2>1, <2>2, <2>3, <2>5
      <4> QED
        BY <1>3, <4>1 DEF Touches
    <3>2. Arriving(k, w)
      BY <1>7, <1>a, <2>5 DEF Follows
    <3>3. Arriving(k, w)'
      <4>1. CASE chan' = chan
        BY <1>2, <3>2, <4>1 DEF Arriving, Touches, Said
      <4>2. CASE chan' = Append(chan, m)
        BY <1>2, <1>3, <3>1, <3>2, <4>2, SentElse
      <4> QED
        BY <1>2, <4>1, <4>2
    <3> QED
      BY <1>c, <3>3
  <2> QED
    BY <2>4, <2>5
<1> QED
  BY <1>5, <1>6, <1>7

LEMMA FollowStep ==
    ASSUME Permanent # {}, IndInv, [Next]_vars
    PROVE  FollowInv'
<1> SUFFICES ASSUME NEW k \in Key PROVE Follows(k)'
  BY DEF FollowInv, Follows
<1>1. TypeOK /\ EpochInv /\ FenceInv /\ PermanentInv /\ Follows(k)
  BY DEF IndInv, FollowInv, Follows
<1>2. CASE SendChanges
  BY <1>1, <1>2, FollowsSend
<1>3. CASE Receive
  <2>1. chan # <<>> /\ chan' = Tail(chan) /\ copy' = Applied(Head(chan)) /\ UNCHANGED <<memory, kind, last>>
    BY <1>3 DEF Receive
  <2>2. PICK w : w = Wanted(k)
    OBVIOUS
  <2>3. Wanted(k)' = w /\ (Unsent(k) => Unsent(k)') /\ (WasDeleted(k) => WasDeleted(k)')
    BY <2>1, <2>2 DEF Wanted, View, Unsent, ChangedSince, WasDeleted, memory
  <2>4. Arriving(k, w) => Arriving(k, w)'
    BY <1>1, <2>1, ReadArrives
  <2>5. Arriving(k, w)' => Arriving(k, Wanted(k))'
    BY <2>3 DEF Arriving
  <2> QED
    BY <1>1, <2>1, <2>2, <2>3, <2>4, <2>5 DEF Follows, memory
<1>4. CASE Reconnect
  <2>1. last' = 0 /\ chan' = <<>> /\ UNCHANGED memory /\ fence \in Nat
    BY <1>1, <1>4 DEF Reconnect, TypeOK
  <2>2. CASE fence # 0
    BY <2>1, <2>2 DEF Follows, memory
  <2>3. CASE fence = 0
    <3>1. store[k] = None /\ copy[k] = None
      BY <1>1, <2>3 DEF FenceInv
    <3>2. copy'[k] = None /\ Wanted(k)' = None
      BY <1>4, <2>1, <3>1 DEF Reconnect, Wanted, memory
    <3>3. \A i \in 1 .. Len(chan') : FALSE
      BY <2>1
    <3>4. Arriving(k, Wanted(k))'
      BY <3>2, <3>3 DEF Arriving
    <3> QED
      BY <3>4 DEF Follows
  <2> QED
    BY <2>2, <2>3
<1>5. CASE UNCHANGED subscriber
  <2>1. CASE UNCHANGED memory
    BY <1>1, <1>5, <2>1, FollowsElse DEF memory
  <2>2. CASE RetrieveAll
    <3>1. fence' = epoch + 1 /\ last' = last /\ epoch \in Nat /\ last \in Nat /\ last <= epoch
      BY <1>1, <1>5, <2>2, SyncAllType DEF RetrieveAll, subscriber, TypeOK, EpochInv
    <3> QED
      BY <3>1 DEF Follows
  <2>3. ASSUME NEW j \in Key, NEW new \in Object, ApplyMod(j, new) PROVE Follows(k)'
    <3>1. CASE j = k
      BY <1>1, <1>5, <2>3, <3>1, FollowsMod
    <3>2. CASE j # k
      <4>1. store'[k] = store[k] /\ deleted' = deleted /\ fence' = fence
        BY <1>1, <2>3, <3>2, ModType
      <4> QED
        BY <1>1, <1>5, <4>1, FollowsElse
    <3> QED
      BY <3>1, <3>2
  <2>4. ASSUME NEW j \in Key, ApplyDelete(j) PROVE Follows(k)'
    <3>1. CASE j = k
      BY <1>1, <1>5, <2>4, <3>1, FollowsDelete
    <3>2. CASE j # k
      <4>1. store'[k] = store[k] /\ deleted \subseteq deleted' /\ fence' = fence
        BY <1>1, <2>4, <3>2, DelType
      <4> QED
        BY <1>1, <1>5, <4>1, FollowsElse
    <3> QED
      BY <3>1, <3>2
  <2> QED
    BY <1>1, <2>1, <2>2, <2>3, <2>4, StoreSteps
<1>6. SendChanges \/ Receive \/ Reconnect \/ UNCHANGED subscriber
  BY DEF Next, Dispatch, RetrieveAll, Publish, WatchNext, ActionQueues, StatusApplied, Reconcile,
     Action, Apply, UpdateSpec, UpdateStatus, Delete, OwnerDeletes, ChildLinks, RelatedSends, ActionNumbers, vars
<1> QED
  BY <1>2, <1>3, <1>4, <1>5, <1>6

\* An up-to-date subscriber that has read everything has nothing left to be
\* sent, and what arrives is what it holds.
LEMMA FollowedIsCurrent == IndInv => CopyCurrent
<1> SUFFICES ASSUME IndInv, last = epoch, chan = <<>>, NEW k \in Key
             PROVE  IF store[k] = None THEN copy[k] = None
                    ELSE copy[k] = View(store[k].obj) \/ \E e \in 1 .. epoch : <<k, e>> \in deleted
  BY DEF CopyCurrent
<1>1. epoch \in Nat /\ fence \in Nat /\ deleted \subseteq Key \X Nat /\ ~(last < fence)
  BY DEF IndInv, TypeOK, EpochInv
<1>2. ~Unsent(k)
  <2>1. CASE store[k] = None
    <3>1. \A d \in deleted : ~(d[2] > last)
      BY <1>1 DEF IndInv, EpochInv
    <3> QED
      BY <2>1, <3>1 DEF Unsent
  <2>2. CASE store[k] # None
    <3>1. store[k].specEpoch \in Nat /\ store[k].statusEpoch \in Nat /\ store[k].metaEpoch \in Nat
      BY <2>2 DEF IndInv, TypeOK, Entry
    <3>2. store[k].specEpoch <= epoch /\ store[k].statusEpoch <= epoch /\ store[k].metaEpoch <= epoch
      BY <2>2 DEF IndInv, EpochInv
    <3>3. ~ChangedSince(store[k], last)
      BY <1>1, <3>1, <3>2 DEF ChangedSince
    <3> QED
      BY <2>2, <3>3 DEF Unsent
  <2> QED
    BY <2>1, <2>2
<1>3. CASE store[k] # None /\ WasDeleted(k)
  <2>1. PICK d \in deleted : d[1] = k
    BY <1>3 DEF WasDeleted
  <2>2. d = <<k, d[2]>> /\ d[2] \in 1 .. epoch
    BY <1>1, <2>1 DEF IndInv, EpochInv
  <2> QED
    BY <1>3, <2>1, <2>2
<1>4. CASE Arriving(k, Wanted(k))
  <2>1. \A i \in 1 .. Len(chan) : FALSE
    OBVIOUS
  <2>2. Wanted(k) = copy[k]
    BY <1>4, <2>1 DEF Arriving
  <2> QED
    BY <2>2 DEF Wanted
<1> QED
  BY <1>1, <1>2, <1>3, <1>4 DEF IndInv, FollowInv

(***************************************************************************)
(* A subscriber that was sent everything up to the current epoch and has   *)
(* read it holds what the store holds, except objects deleted and created  *)
(* again since the last reconciliation.  At least one object must be there *)
(* for good: an empty list is not sent (send_spu_spec_changes).            *)
(***************************************************************************)
THEOREM CopyTheorem ==
    ASSUME Permanent # {}
    PROVE  Spec => []CopyCurrent
<1>1. Init => IndInv
  BY TypeInit, FenceInit DEF IndInv
<1>2. IndInv /\ [Next]_vars => IndInv'
  <2> SUFFICES ASSUME IndInv, [Next]_vars PROVE IndInv'
    OBVIOUS
  <2>1. TypeOK /\ EpochInv /\ FenceInv /\ PermanentInv
    BY DEF IndInv
  <2>2. FollowInv'
    BY FollowStep
  <2> QED
    BY <2>1, <2>2, TypeStep, EpochStep, FenceStep, PermanentStep DEF IndInv
<1>3. IndInv => CopyCurrent
  BY FollowedIsCurrent
<1> QED
  BY <1>1, <1>2, <1>3, PTL DEF Spec

=============================================================================
