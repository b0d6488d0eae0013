-------------------------- MODULE OffsetPublisher --------------------------
(***************************************************************************)
(* The lock-free channel that carries offsets between the tasks of an SPU  *)
(* (crates/fluvio-types/src/event.rs): an OffsetPublisher holds an atomic  *)
(* value and an Event, and each OffsetChangeListener remembers the last    *)
(* value it returned.  High watermarks, log ends, consumer offsets and the *)
(* followers' pending updates all travel this way, and a wake-up lost here *)
(* is a stream, a producer or a follower that waits for ever.              *)
(*                                                                         *)
(* Updates of one publisher are made one after the other (under the lock   *)
(* of the replica's storage or of the set of pending updates).  A call of  *)
(* listen runs between them: it looks at the value, registers at the       *)
(* Event, looks again, and waits.  It is a branch of a select!, so it may  *)
(* be dropped while it waits.                                              *)
(***************************************************************************)
EXTENDS Integers, TLAPS

CONSTANTS
    Listener,  \* tasks that listen
    MaxValue   \* bound: the largest value published

ASSUME ListenerAssumption == MaxValue \in Nat

VARIABLES
    value,     \* current_value of the publisher
    updating,  \* a new value is stored and its listeners not yet notified
    pc,        \* pc[l]: where listener l is in listen
    last,      \* last[l]: its last_value
    notified   \* notified[l]: the registration of l has been notified

vars == <<value, updating, pc, last, notified>>

INIT_OFFSET == -1

Init ==
    /\ value \in {INIT_OFFSET, 0, 1}
    /\ updating = FALSE
    /\ pc = [l \in Listener |-> "check"]
    /\ last = [l \in Listener |-> 0]
    /\ notified = [l \in Listener |-> FALSE]

\* Is l registered at the Event?
Registered(l) == pc[l] \in {"recheck", "wait"}

-----------------------------------------------------------------------------
\* update, first half: the value is stored.
Store ==
    /\ ~updating
    /\ \E v \in (value + 1)..MaxValue : value' = v
    /\ updating' = TRUE
    /\ UNCHANGED <<pc, last, notified>>

\* (slip: only one listener is notified)
Notify_slip ==
    /\ updating
    /\ updating' = FALSE
    /\ \E l \in Listener : notified' = [notified EXCEPT ![l] = @ \/ Registered(l)]
    /\ UNCHANGED <<value, pc, last>>

\* update, second half: whoever is registered is notified.
Notify ==
    /\ updating
    /\ updating' = FALSE
    /\ notified' = [l \in Listener |-> notified[l] \/ Registered(l)]
    /\ UNCHANGED <<value, pc, last>>

\* listen returns the current value, and the caller calls it again.
Return(l) ==
    /\ last' = [last EXCEPT ![l] = value]
    /\ pc' = [pc EXCEPT ![l] = "check"]

HasNewValue(l) == value # last[l]

\* listen up to the registration.
Check(l) ==
    /\ pc[l] = "check"
    /\ IF HasNewValue(l) THEN Return(l)
       ELSE pc' = [pc EXCEPT ![l] = "register"] /\ UNCHANGED last
    /\ UNCHANGED <<value, updating, notified>>

Register(l) ==
    /\ pc[l] = "register"
    /\ pc' = [pc EXCEPT ![l] = "recheck"]
    /\ notified' = [notified EXCEPT ![l] = FALSE]
    /\ UNCHANGED <<value, updating, last>>

\* (slip: the value is not looked at again after the registration)
Recheck_slip(l) ==
    /\ pc[l] = "recheck"
    /\ pc' = [pc EXCEPT ![l] = "wait"]
    /\ UNCHANGED <<value, updating, last, notified>>

\* The second look at the value; without news the task waits.
Recheck(l) ==
    /\ pc[l] = "recheck"
    /\ IF HasNewValue(l) THEN Return(l)
       ELSE pc' = [pc EXCEPT ![l] = "wait"] /\ UNCHANGED last
    /\ UNCHANGED <<value, updating, notified>>

\* The notification arrives: whatever the value is now is returned.
Wake(l) ==
    /\ pc[l] = "wait" /\ notified[l]
    /\ Return(l)
    /\ UNCHANGED <<value, updating, notified>>

\* Another branch of the select! was taken: the registration is dropped.
Cancel(l) ==
    /\ pc[l] = "wait"
    /\ pc' = [pc EXCEPT ![l] = "check"]
    /\ UNCHANGED <<value, updating, last, notified>>

ListenerNext(l) == Check(l) \/ Register(l) \/ Recheck(l) \/ Wake(l) \/ Cancel(l)

Next == Store \/ Notify \/ \E l \in Listener : ListenerNext(l)

Spec == Init /\ [][Next]_vars

\* update does not stop half way, and a task that can go on does.
FairSpec ==
    /\ Spec /\ WF_vars(Notify)
    /\ \A l \in Listener : WF_vars(Check(l) \/ Register(l) \/ Recheck(l) \/ Wake(l))

-----------------------------------------------------------------------------
TypeOK ==
    /\ value \in Int
    /\ pc \in [Listener -> {"check", "register", "recheck", "wait"}]
    /\ last \in [Listener -> Int]
    /\ notified \in [Listener -> BOOLEAN]

(***************************************************************************)
(* No wake-up is lost: a listener that waits, and that no notification is  *)
(* under way to, has returned the current value.  The second look in       *)
(* listen is what makes it so.                                             *)
(***************************************************************************)
NoLostWakeup ==
    \A l \in Listener :
        pc[l] = "wait" /\ ~notified[l] /\ ~updating => last[l] = value

(***************************************************************************)
(* Once updates stop, every listener has returned the last value.          *)
(***************************************************************************)
CatchesUp == \A l \in Listener : <>[](last[l] = value)

-----------------------------------------------------------------------------
\* No wake-up is lost, for any number of listeners and of updates.
THEOREM NoLostWakeupTheorem == Spec => []NoLostWakeup
<1> DEFINE Inv == TypeOK /\ NoLostWakeup
<1> USE DEF TypeOK
<1>1. Init => Inv
  BY DEF Init, INIT_OFFSET, NoLostWakeup
<1>2. Inv /\ [Next]_vars => Inv'
  <2> SUFFICES ASSUME Inv, [Next]_vars PROVE Inv'
    OBVIOUS
  <2>1. CASE Store
    BY <2>1, ListenerAssumption DEF Store, NoLostWakeup
  <2>2. CASE Notify
    BY <2>2 DEF Notify, NoLostWakeup, Registered
  <2>3. ASSUME NEW l \in Listener, Check(l) PROVE Inv'
    BY <2>3 DEF Check, Return, NoLostWakeup
  <2>4. ASSUME NEW l \in Listener, Register(l) PROVE Inv'
    BY <2>4 DEF Register, NoLostWakeup
  <2>5. ASSUME NEW l \in Listener, Recheck(l) PROVE Inv'
    BY <2>5 DEF Recheck, HasNewValue, Return, NoLostWakeup
  <2>6. ASSUME NEW l \in Listener, Wake(l) PROVE Inv'
    BY <2>6 DEF Wake, Return, NoLostWakeup
  <2>7. ASSUME NEW l \in Listener, Cancel(l) PROVE Inv'
    BY <2>7 DEF Cancel, NoLostWakeup
  <2>8. CASE UNCHANGED vars
    BY <2>8 DEF vars, NoLostWakeup
  <2> QED
    BY <2>1, <2>2, <2>3, <2>4, <2>5, <2>6, <2>7, <2>8 DEF Next, ListenerNext
<1> QED
  BY <1>1, <1>2, PTL DEF Spec
=============================================================================
