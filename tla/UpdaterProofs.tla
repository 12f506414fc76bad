--------------------------- MODULE UpdaterProofs ---------------------------
(***************************************************************************)
(* The safety of the Updater for any number of senders, receivers and      *)
(* objects, and the simulation of the Mailbox step by step.                *)
(***************************************************************************)
EXTENDS Updater, SequenceTheorems, TLAPS

\* What is queued is the newest object, and everything received is older.
Freshness ==
    /\ object \in {0, sent}
    /\ \A i \in 1..Len(taken) : taken[i] <= sent
    /\ object # 0 => \A i \in 1..Len(taken) : taken[i] < object

\* No receiver sleeps while a notification is stored.
NoSleepBesidePermit == permit => \A r \in Receivers : pc[r] # "waiting"

\* The inductive invariant.  ReceivedOnceInOrder is not inductive without
\* Freshness: it says nothing of the object that is received next.
IInv ==
    /\ TypeOK
    /\ NoLostWakeup
    /\ NoSleepBesidePermit
    /\ Freshness
    /\ ReceivedOnceInOrder

\* A notification keeps the types and leaves somebody to look at the object;
\* it touches no receiver but the one it wakes, and stores a permit only
\* when nobody sleeps.
LEMMA NotifyOneProperty ==
    ASSUME NEW pcs \in [Receivers -> PCs], permit \in BOOLEAN, NotifyOne(pcs),
           permit => \A r \in Receivers : pcs[r] # "waiting"
    PROVE  /\ permit' \in BOOLEAN
           /\ pc' \in [Receivers -> PCs]
           /\ WakeUpPending'
           /\ NoSleepBesidePermit'
           /\ \A r \in Receivers : pc'[r] = "idle" <=> pcs[r] = "idle"
  <1>1. CASE \E r \in Receivers : /\ pcs[r] = "waiting"
                                  /\ pc' = [pcs EXCEPT ![r] = "notified"]
                                  /\ UNCHANGED permit
    <2> PICK r \in Receivers : /\ pcs[r] = "waiting"
                               /\ pc' = [pcs EXCEPT ![r] = "notified"]
                               /\ UNCHANGED permit
      BY <1>1
    <2> QED BY DEF PCs, WakeUpPending, NoSleepBesidePermit
  <1>2. CASE /\ \A r \in Receivers : pcs[r] # "waiting"
             /\ permit' = TRUE
             /\ pc' = pcs
    BY <1>2 DEF WakeUpPending, NoSleepBesidePermit
  <1> QED BY <1>1, <1>2 DEF NotifyOne

\* Receiving the queued object keeps the history in order.
LEMMA TakeObjectProperty ==
    ASSUME TypeOK, Freshness, ReceivedOnceInOrder, object # 0, TakeObject,
           UNCHANGED sent
    PROVE  /\ object' \in 0..MaxSends
           /\ taken' \in Seq(1..MaxSends)
           /\ Freshness'
           /\ ReceivedOnceInOrder'
  <1>1. object \in 1..MaxSends /\ taken \in Seq(1..MaxSends) /\ sent \in Nat
        /\ object = sent
    BY UpdaterAssumption DEF TypeOK, Freshness
  <1>2. /\ taken' \in Seq(1..MaxSends)
        /\ Len(taken') = Len(taken) + 1
        /\ \A i \in 1..Len(taken) : taken'[i] = taken[i]
        /\ taken'[Len(taken) + 1] = object
    BY <1>1, AppendProperties DEF TakeObject
  <1>3. \A i \in 1..Len(taken) : taken[i] \in Nat
    BY <1>1, UpdaterAssumption
  <1>4. Freshness'
    BY <1>1, <1>2, <1>3 DEF Freshness, TakeObject
  <1>5. ReceivedOnceInOrder'
    BY <1>1, <1>2, <1>3 DEF Freshness, ReceivedOnceInOrder
  <1> QED BY <1>2, <1>4, <1>5, UpdaterAssumption DEF TakeObject

\* A channel that was just created satisfies the invariant.
LEMMA InitIInv == Init => IInv
  <1> SUFFICES ASSUME Init PROVE IInv
    OBVIOUS
  <1>1. taken = <<>> /\ taken \in Seq(1..MaxSends) /\ Len(taken) = 0
    BY DEF Init
  <1>2. TypeOK
    <2>1. object \in 0..MaxSends /\ sent \in 0..MaxSends
      BY UpdaterAssumption DEF Init
    <2>2. mutex \in Senders \cup {Free} /\ permit \in BOOLEAN
      BY DEF Init
    <2>3. pc \in [Receivers -> PCs]
      BY DEF Init, PCs
    <2> QED BY <1>1, <2>1, <2>2, <2>3 DEF TypeOK
  <1>3. NoLostWakeup /\ NoSleepBesidePermit
    BY DEF Init, NoLostWakeup, NoSleepBesidePermit
  <1>4. Freshness /\ ReceivedOnceInOrder
    BY <1>1 DEF Init, Freshness, ReceivedOnceInOrder
  <1> QED BY <1>2, <1>3, <1>4 DEF IInv

\* Every step of a sender or a receiver preserves the invariant.
LEMMA NextIInv == IInv /\ [Next]_vars => IInv'
  <1> SUFFICES ASSUME IInv, [Next]_vars PROVE IInv'
    OBVIOUS
  <1> USE UpdaterAssumption
  <1>1. ASSUME NEW s \in Senders, SendStore(s) PROVE IInv'
    <2>1. TypeOK'
      BY <1>1 DEF IInv, TypeOK, SendStore
    <2>2. NoLostWakeup' /\ NoSleepBesidePermit'
      BY <1>1 DEF IInv, SendStore, NoLostWakeup, NoSleepBesidePermit
    <2>3. \A i \in 1..Len(taken) : taken[i] \in Nat
      BY ElementOfSeq DEF IInv, TypeOK
    <2>4. Freshness' /\ ReceivedOnceInOrder'
      BY <1>1, <2>3 DEF IInv, TypeOK, SendStore, Freshness, ReceivedOnceInOrder
    <2> QED BY <2>1, <2>2, <2>4 DEF IInv
  <1>2. ASSUME NEW s \in Senders, SendNotify(s) PROVE IInv'
    <2>1. /\ permit' \in BOOLEAN /\ pc' \in [Receivers -> PCs]
          /\ WakeUpPending' /\ NoSleepBesidePermit'
      BY <1>2, NotifyOneProperty DEF IInv, TypeOK, SendNotify, NoSleepBesidePermit
    <2> QED BY <1>2, <2>1 DEF IInv, TypeOK, SendNotify, NoLostWakeup, Freshness,
                             ReceivedOnceInOrder
  <1>3. ASSUME NEW r \in Receivers,
               RecvCall(r) \/ RecvPoll(r) \/ RecvWake(r) \/ FalseWake(r)
        PROVE  IInv'
    <2>1. TypeOK' /\ Freshness' /\ ReceivedOnceInOrder'
      BY <1>3 DEF IInv, TypeOK, PCs, Freshness, ReceivedOnceInOrder, RecvCall,
                  RecvPoll, RecvWake, FalseWake
    <2>2. WakeUpPending => WakeUpPending'
      BY <1>3 DEF IInv, TypeOK, WakeUpPending, RecvCall, RecvPoll, RecvWake,
                  FalseWake
    <2>3. NoSleepBesidePermit'
      BY <1>3 DEF IInv, TypeOK, NoSleepBesidePermit, RecvCall, RecvPoll,
                  RecvWake, FalseWake
    <2> QED BY <1>3, <2>1, <2>2, <2>3 DEF IInv, NoLostWakeup, RecvCall, RecvPoll,
                                          RecvWake, FalseWake
  <1>4. ASSUME NEW r \in Receivers, RecvCheck(r) PROVE IInv'
    <2>1. CASE object # 0
      <3>1. /\ object' \in 0..MaxSends /\ taken' \in Seq(1..MaxSends)
            /\ Freshness' /\ ReceivedOnceInOrder'
        BY <1>4, <2>1, TakeObjectProperty DEF IInv, RecvCheck
      <3>2. TypeOK' /\ NoSleepBesidePermit'
        BY <1>4, <2>1, <3>1 DEF IInv, TypeOK, PCs, RecvCheck, NoSleepBesidePermit
      <3>3. NoLostWakeup'
        BY <1>4, <2>1 DEF RecvCheck, TakeObject, NoLostWakeup
      <3> QED BY <3>1, <3>2, <3>3 DEF IInv
    <2>2. CASE object = 0
      BY <1>4, <2>2 DEF IInv, TypeOK, PCs, RecvCheck, NoLostWakeup,
                        NoSleepBesidePermit, Freshness, ReceivedOnceInOrder
    <2> QED BY <2>1, <2>2
  <1>5. ASSUME NEW r \in Receivers, MaybeRecv(r) PROVE IInv'
    <2>1. /\ object' \in 0..MaxSends /\ taken' \in Seq(1..MaxSends)
          /\ Freshness' /\ ReceivedOnceInOrder'
      BY <1>5, TakeObjectProperty DEF IInv, MaybeRecv
    <2> QED BY <1>5, <2>1 DEF IInv, TypeOK, MaybeRecv, TakeObject, NoLostWakeup,
                              NoSleepBesidePermit
  <1>6. ASSUME NEW r \in Receivers, CancelRecv(r) PROVE IInv'
    <2>1. CASE /\ pc[r] \in {"poll", "waiting"}
               /\ pc' = [pc EXCEPT ![r] = "idle"]
               /\ UNCHANGED permit
      <3>1. TypeOK' /\ NoSleepBesidePermit'
        BY <1>6, <2>1 DEF IInv, TypeOK, PCs, CancelRecv, NoSleepBesidePermit
      <3>2. WakeUpPending => WakeUpPending'
        BY <2>1 DEF IInv, TypeOK, WakeUpPending
      <3> QED BY <1>6, <3>1, <3>2 DEF IInv, CancelRecv, NoLostWakeup, Freshness,
                                      ReceivedOnceInOrder
    <2>2. CASE pc[r] = "notified" /\ NotifyOne([pc EXCEPT ![r] = "idle"])
      <3>1. /\ permit' \in BOOLEAN /\ pc' \in [Receivers -> PCs]
            /\ WakeUpPending' /\ NoSleepBesidePermit'
        <4>1. [pc EXCEPT ![r] = "idle"] \in [Receivers -> PCs]
          BY DEF IInv, TypeOK, PCs
        <4>2. permit => \A q \in Receivers : [pc EXCEPT ![r] = "idle"][q] # "waiting"
          BY DEF IInv, TypeOK, NoSleepBesidePermit
        <4> QED BY <2>2, <4>1, <4>2, NotifyOneProperty DEF IInv, TypeOK
      <3> QED BY <1>6, <3>1 DEF IInv, TypeOK, CancelRecv, NoLostWakeup, Freshness,
                                ReceivedOnceInOrder
    <2> QED BY <1>6, <2>1, <2>2 DEF CancelRecv
  <1>7. CASE UNCHANGED vars
    BY <1>7 DEF vars, IInv, TypeOK, NoLostWakeup, WakeUpPending,
       NoSleepBesidePermit, Freshness, ReceivedOnceInOrder
  <1> QED BY <1>1, <1>2, <1>3, <1>4, <1>5, <1>6, <1>7 DEF Next

\* The invariant holds in every reachable state.
LEMMA Invariance == Spec => []IInv
  BY InitIInv, NextIInv, PTL DEF Spec
-----------------------------------------------------------------------------
\* Type correctness of the channel's state.
THEOREM TypeCorrect == Spec => []TypeOK
  <1>1. IInv => TypeOK
    BY DEF IInv
  <1> QED BY Invariance, <1>1, PTL

\* The precondition stated in recv's comment holds for any number of copies:
\* a queued object always has a permit or a woken receiver on its way to it.
THEOREM WakeupsAreNotLost == Spec => []NoLostWakeup
  <1>1. IInv => NoLostWakeup
    BY DEF IInv
  <1> QED BY Invariance, <1>1, PTL

\* Every object is received at most once, and in the order of sending.
THEOREM ObjectsReceivedOnce == Spec => []ReceivedOnceInOrder
  <1>1. IInv => ReceivedOnceInOrder
    BY DEF IInv
  <1> QED BY Invariance, <1>1, PTL

\* What recv and maybe_recv return is the object sent last.
THEOREM NewestObjectReceived == Spec => MostRecentReceived
  <1>1. IInv /\ [Next]_vars => [taken' # taken => taken' = Append(taken, sent)]_vars
    BY DEF IInv, Freshness, Next, vars, SendStore, SendNotify, RecvCall, RecvPoll,
       RecvWake, FalseWake, RecvCheck, MaybeRecv, CancelRecv, TakeObject
  <1> QED BY Invariance, <1>1, PTL DEF Spec, MostRecentReceived

\* The Updater implements the one-place mailbox (its safety part): each step
\* is a step of the mailbox or leaves it unchanged.
THEOREM MailboxImplemented == Spec => Box!Spec
  <1> DEFINE W == {r \in Receivers : pc[r] # "idle"}
  <1>1. Init => Box!Init
    BY DEF Init, Box!Init
  <1>2. IInv /\ [Next]_vars => [Box!Next]_Box!vars
    <2> SUFFICES ASSUME IInv, [Next]_vars PROVE [Box!Next]_Box!vars
      OBVIOUS
    <2> USE DEF IInv, TypeOK, Box!vars
    <2>1. ASSUME NEW s \in Senders, SendStore(s) PROVE Box!Put
      BY <2>1 DEF SendStore, Box!Put
    <2>2. ASSUME NEW s \in Senders, SendNotify(s) PROVE UNCHANGED Box!vars
      <3>1. \A r \in Receivers : pc'[r] = "idle" <=> pc[r] = "idle"
        BY <2>2, NotifyOneProperty DEF SendNotify, NoSleepBesidePermit
      <3> QED BY <2>2, <3>1 DEF SendNotify
    <2>3. ASSUME NEW r \in Receivers, RecvCall(r) PROVE Box!Enter(r)
      BY <2>3 DEF RecvCall, Box!Enter
    <2>4. ASSUME NEW r \in Receivers, RecvPoll(r) \/ RecvWake(r) \/ FalseWake(r)
          PROVE  UNCHANGED Box!vars
      BY <2>4 DEF RecvPoll, RecvWake, FalseWake
    <2>5. ASSUME NEW r \in Receivers, RecvCheck(r)
          PROVE  Box!Take(r) \/ UNCHANGED Box!vars
      BY <2>5 DEF RecvCheck, TakeObject, Box!Take
    <2>6. ASSUME NEW r \in Receivers, MaybeRecv(r) PROVE Box!Take(r)
      BY <2>6 DEF MaybeRecv, TakeObject, Box!Take
    <2>7. ASSUME NEW r \in Receivers, CancelRecv(r) PROVE Box!Leave(r)
      <3>1. W' = W \ {r} /\ pc[r] # "idle"
        <4>1. CASE /\ pc[r] \in {"poll", "waiting"}
                   /\ pc' = [pc EXCEPT ![r] = "idle"]
          BY <4>1
        <4>2. CASE pc[r] = "notified" /\ NotifyOne([pc EXCEPT ![r] = "idle"])
          <5>1. [pc EXCEPT ![r] = "idle"] \in [Receivers -> PCs]
            BY DEF PCs
          <5>2. permit => \A q \in Receivers :
                              [pc EXCEPT ![r] = "idle"][q] # "waiting"
            BY DEF NoSleepBesidePermit
          <5>3. \A q \in Receivers :
                    pc'[q] = "idle" <=> [pc EXCEPT ![r] = "idle"][q] = "idle"
            BY <4>2, <5>1, <5>2, NotifyOneProperty
          <5> QED BY <4>2, <5>3
        <4> QED BY <2>7, <4>1, <4>2 DEF CancelRecv
      <3> QED BY <2>7, <3>1 DEF CancelRecv, Box!Leave
    <2>8. CASE UNCHANGED vars
      BY <2>8 DEF vars
    <2> QED BY <2>1, <2>2, <2>3, <2>4, <2>5, <2>6, <2>7, <2>8 DEF Next, Box!Next
  <1> QED BY <1>1, <1>2, Invariance, PTL DEF Spec, Box!Spec
=============================================================================
