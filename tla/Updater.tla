------------------------------ MODULE Updater ------------------------------
(***************************************************************************)
(* The channel of mgen/src/updater.rs: a Mutex<Option<T>> next to a tokio  *)
(* Notify.  It carries the halves of a fresh socket from the task that     *)
(* (re)connects to the task that reads or writes, so a lost wake-up here   *)
(* is a connection nobody ever uses.                                       *)
(*                                                                         *)
(* Every copy of an Updater can send and receive.  A send holds the mutex  *)
(* while it stores the object and calls notify_one.  A receiver awaits the *)
(* Notify, then looks under the mutex; it does both without an await       *)
(* between them, so a call of recv that is dropped by select! is dropped   *)
(* while it sleeps or before it runs again, never in between.              *)
(***************************************************************************)
EXTENDS Naturals, Sequences

CONSTANTS Senders,    \* the tasks that call send
          Receivers,  \* the tasks that call recv or maybe_recv
          Dedicated,  \* receivers whose recv is not inside a select!
          Free,       \* no task holds the mutex
          MaxSends    \* bound on the number of objects sent

ASSUME UpdaterAssumption ==
    /\ Dedicated \subseteq Receivers
    /\ Free \notin Senders
    /\ MaxSends \in Nat

VARIABLES object,   \* the Option<T>: 0 is None, n is the n-th object sent
          mutex,    \* the sender inside its critical section, or Free
          permit,   \* the Notify holds a stored notification
          pc,       \* where each receiver is in recv
          sent,     \* number of objects stored so far
          taken     \* the objects received, in order (history)

vars == <<object, mutex, permit, pc, sent, taken>>

(***************************************************************************)
(* pc values: "idle" outside recv, "poll" about to await notified(),       *)
(* "waiting" asleep in the Notify's wait list, "notified" chosen by a      *)
(* notification but not yet run, "checking" past the await.                *)
(***************************************************************************)
PCs == {"idle", "poll", "waiting", "notified", "checking"}

TypeOK ==
    /\ object \in 0..MaxSends
    /\ mutex \in Senders \cup {Free}
    /\ permit \in BOOLEAN
    /\ pc \in [Receivers -> PCs]
    /\ sent \in 0..MaxSends
    /\ taken \in Seq(1..MaxSends)

Init ==
    /\ object = 0
    /\ mutex = Free
    /\ permit = FALSE
    /\ pc = [r \in Receivers |-> "idle"]
    /\ sent = 0
    /\ taken = <<>>
-----------------------------------------------------------------------------
(***************************************************************************)
(* An operator marked "variant" is a way the code could be wrong; it is    *)
(* used only to test that a property would notice.                         *)
(*                                                                         *)
(* tokio's Notify: notify_one wakes one waiter, or stores the permit when  *)
(* nobody waits.  pcs is the receivers' state the notification meets.      *)
(***************************************************************************)
NotifyOne(pcs) ==
    \/ \E r \in Receivers :
          /\ pcs[r] = "waiting"
          /\ pc' = [pcs EXCEPT ![r] = "notified"]
          /\ UNCHANGED permit
    \/ /\ \A r \in Receivers : pcs[r] # "waiting"
       /\ permit' = TRUE
       /\ pc' = pcs

\* send, first half: lock, then replace whatever object is queued.
SendStore(s) ==
    /\ mutex = Free
    /\ sent < MaxSends
    /\ mutex' = s
    /\ sent' = sent + 1
    /\ object' = sent + 1
    /\ UNCHANGED <<permit, pc, taken>>

\* variant: the lock is released without a notification.
SendNotifySilent(s) ==
    /\ mutex = s
    /\ mutex' = Free
    /\ UNCHANGED <<object, permit, pc, sent, taken>>

\* send, second half: notify_one, then the guard is dropped.
SendNotify(s) ==
    /\ mutex = s
    /\ mutex' = Free
    /\ NotifyOne(pc)
    /\ UNCHANGED <<object, sent, taken>>

RecvCall(r) ==
    /\ pc[r] = "idle"
    /\ pc' = [pc EXCEPT ![r] = "poll"]
    /\ UNCHANGED <<object, mutex, permit, sent, taken>>

\* The first poll of notified(): take the stored permit or go to sleep.
RecvPoll(r) ==
    /\ pc[r] = "poll"
    /\ permit' = FALSE
    /\ pc' = [pc EXCEPT ![r] = IF permit THEN "checking" ELSE "waiting"]
    /\ UNCHANGED <<object, mutex, sent, taken>>

\* The executor runs a receiver that was notified, or that is woken for no
\* reason: "tokio's Notify is allowed false notifications".
RecvWake(r) ==
    /\ pc[r] = "notified"
    /\ pc' = [pc EXCEPT ![r] = "checking"]
    /\ UNCHANGED <<object, mutex, permit, sent, taken>>

FalseWake(r) ==
    /\ pc[r] = "waiting"
    /\ pc' = [pc EXCEPT ![r] = "checking"]
    /\ UNCHANGED <<object, mutex, permit, sent, taken>>

TakeObject ==
    /\ taken' = Append(taken, object)
    /\ object' = 0

\* variant: no loop, a false notification ends the call with nothing.
RecvCheckOnce(r) ==
    /\ pc[r] = "checking"
    /\ mutex = Free
    /\ pc' = [pc EXCEPT ![r] = "idle"]
    /\ IF object # 0 THEN TakeObject ELSE UNCHANGED <<object, taken>>
    /\ UNCHANGED <<mutex, permit, sent>>

\* Past the await: lock, return the object if there is one, else loop.
RecvCheck(r) ==
    /\ pc[r] = "checking"
    /\ mutex = Free
    /\ \/ /\ object # 0
          /\ TakeObject
          /\ pc' = [pc EXCEPT ![r] = "idle"]
       \/ /\ object = 0
          /\ pc' = [pc EXCEPT ![r] = "poll"]
          /\ UNCHANGED <<object, taken>>
    /\ UNCHANGED <<mutex, permit, sent>>

\* maybe_recv takes the object but leaves the notification behind.
MaybeRecv(r) ==
    /\ pc[r] = "idle"
    /\ mutex = Free
    /\ object # 0
    /\ TakeObject
    /\ UNCHANGED <<mutex, permit, pc, sent>>

\* select! drops the recv future.  A notification that was already given to
\* the dropped future is passed on, as tokio's Drop for Notified does.
CancelRecv(r) ==
    /\ r \notin Dedicated
    /\ \/ /\ pc[r] \in {"poll", "waiting"}
          /\ pc' = [pc EXCEPT ![r] = "idle"]
          /\ UNCHANGED permit
       \/ /\ pc[r] = "notified"
          /\ NotifyOne([pc EXCEPT ![r] = "idle"])
    /\ UNCHANGED <<object, mutex, sent, taken>>

Next ==
    \/ \E s \in Senders : SendStore(s) \/ SendNotify(s)
    \/ \E r \in Receivers :
          \/ RecvCall(r) \/ RecvPoll(r) \/ RecvWake(r) \/ FalseWake(r)
          \/ RecvCheck(r) \/ MaybeRecv(r) \/ CancelRecv(r)

\* Tasks that can run are run: the multi-threaded runtime polls every ready
\* task, and a thread inside a critical section leaves it.
Fairness ==
    /\ \A s \in Senders : WF_vars(SendNotify(s))
    /\ \A r \in Receivers :
          WF_vars(RecvPoll(r)) /\ WF_vars(RecvWake(r)) /\ WF_vars(RecvCheck(r))

Spec == Init /\ [][Next]_vars
FairSpec == Spec /\ Fairness
-----------------------------------------------------------------------------
\* Some receiver will look at the object without any further send.
WakeUpPending == permit \/ \E r \in Receivers : pc[r] \in {"notified", "checking"}

\* updater.rs:25: "no receiver consumes a notify without consuming the object
\* as well": whenever an object is queued and the mutex is free, a stored
\* permit or a woken receiver is on its way to it, however sends, false
\* wake-ups, maybe_recv and dropped futures interleave.
NoLostWakeup == object # 0 /\ mutex = Free => WakeUpPending

\* updater.rs:8: "only one copy will receive any particular object", and an
\* older object is never received after a newer one.
ReceivedOnceInOrder ==
    \A i, j \in 1..Len(taken) : i < j => taken[i] < taken[j]

\* updater.rs:20: a receive returns "the object most recently sent", even
\* when several objects were sent while nobody looked.
MostRecentReceived ==
    [][taken' # taken => taken' = Append(taken, sent)]_vars

\* The Updater implements the one-place mailbox, including the promise that
\* an object is received while a receiver that does not give up asks for it.
Box == INSTANCE Mailbox WITH wants <- {r \in Receivers : pc[r] # "idle"}
ImplementsMailbox == Box!FairSpec
=============================================================================
