-------------------------- MODULE WorkQueueProofs --------------------------
(***************************************************************************)
(* The safety of the thread pool for any number of threads, entries and    *)
(* updates.                                                                *)
(***************************************************************************)
EXTENDS WorkQueue, SequenceTheorems, TLAPS

\* A thread has an entry exactly while it runs it.
Running == \A t \in Threads : job[t] # NoEntry <=> pc[t] = "run"

\* A thread that is behind finds the argument of the newest update; outside
\* update_fn its state is the one of its generation.
Updates == \A t \in Threads :
    /\ gen[t] # generation => update_args[t] = generation
    /\ pc[t] = "update" => arg[t] = gen[t]
    /\ pc[t] # "update" => keys[t] = gen[t]

QueuedBefore == \A e \in Entries : queuedAt[e] <= generation

PoolInv ==
    /\ PoolTypeOK
    /\ OnePlace
    /\ Running
    /\ Updates
    /\ QueuedBefore
    /\ NoLostWakeup
    /\ NoLostAnswer
    /\ FreshState
-----------------------------------------------------------------------------
(***************************************************************************)
(* The sequences that stand for the tail queues.                           *)
(***************************************************************************)
LEMMA EmptyProperty == ToSet(<<>>) = {} /\ Distinct(<<>>)
  BY DEF ToSet, Distinct

LEMMA ToSetDef ==
    ASSUME NEW S, NEW s \in Seq(S) PROVE ToSet(s) = {s[i] : i \in 1..Len(s)}
  <1>1. DOMAIN s = 1..Len(s)
    OBVIOUS
  <1> QED BY <1>1 DEF ToSet

\* What a queue holds has its type.
LEMMA ToSetType ==
    ASSUME NEW S, NEW s \in Seq(S)
    PROVE  /\ ToSet(s) \subseteq S
           /\ \A i \in 1..Len(s) : s[i] \in ToSet(s)
           /\ \A e \in ToSet(s) : \E i \in 1..Len(s) : s[i] = e
           /\ s = <<>> <=> ToSet(s) = {}
  <1>1. DOMAIN s = 1..Len(s) /\ Len(s) \in Nat /\ \A i \in 1..Len(s) : s[i] \in S
    OBVIOUS
  <1>2. s # <<>> => 1 \in 1..Len(s)
    BY EmptySeq, <1>1
  <1>3. ToSet(s) = {s[i] : i \in 1..Len(s)}
    BY ToSetDef
  <1>4. s # <<>> => s[1] \in ToSet(s)
    BY <1>2, <1>3
  <1>5. s = <<>> => ToSet(s) = {}
    BY EmptyProperty
  <1> QED BY <1>1, <1>3, <1>4, <1>5

\* TOR_TAILQ_INSERT_TAIL
LEMMA AppendProperty ==
    ASSUME NEW S, NEW s \in Seq(S), NEW e \in S, Distinct(s), e \notin ToSet(s)
    PROVE  /\ Append(s, e) \in Seq(S) /\ Distinct(Append(s, e))
           /\ ToSet(Append(s, e)) = ToSet(s) \cup {e}
           /\ Len(Append(s, e)) = Len(s) + 1
  <1> DEFINE r == Append(s, e)
  <1>1. /\ r \in Seq(S) /\ Len(r) = Len(s) + 1 /\ Len(s) \in Nat
        /\ \A i \in 1..Len(s) : r[i] = s[i]
        /\ r[Len(s) + 1] = e
    BY AppendProperties
  <1>2. /\ \A i \in 1..Len(s) : s[i] # e
        /\ DOMAIN s = 1..Len(s) /\ DOMAIN r = 1..Len(r)
    BY <1>1, ToSetType
  <1> HIDE DEF r
  <1>3. Distinct(r)
    BY <1>1, <1>2 DEF Distinct
  <1>4. ToSet(r) \subseteq ToSet(s) \cup {e}
    BY <1>1, <1>2 DEF ToSet
  <1>5. ToSet(s) \cup {e} \subseteq ToSet(r)
    <2>1. e \in ToSet(r)
      BY <1>1, <1>2 DEF ToSet
    <2>2. \A i \in 1..Len(s) : i \in 1..Len(r)
      BY <1>1
    <2> QED BY <1>1, <1>2, <2>1, <2>2 DEF ToSet
  <1> QED BY <1>1, <1>3, <1>4, <1>5 DEF r

\* TOR_TAILQ_REMOVE
LEMMA RemoveAtProperty ==
    ASSUME NEW S, NEW s \in Seq(S), NEW n \in 1..Len(s), Distinct(s)
    PROVE  /\ RemoveAt(s, n) \in Seq(S) /\ Distinct(RemoveAt(s, n))
           /\ Len(RemoveAt(s, n)) = Len(s) - 1
           /\ ToSet(RemoveAt(s, n)) = ToSet(s) \ {s[n]}
  <1> DEFINE a == SubSeq(s, 1, n - 1)
             b == SubSeq(s, n + 1, Len(s))
             r == a \o b
  <1>1. a \in Seq(S) /\ Len(a) = n - 1 /\ \A k \in 1..n-1 : a[k] = s[k]
    BY SubSeqProperties
  <1>2. /\ b \in Seq(S) /\ Len(b) = Len(s) - n
        /\ \A k \in 1..Len(s)-n : b[k] = s[n + k]
    BY SubSeqProperties
  <1> HIDE DEF a, b
  <1>3. /\ r \in Seq(S) /\ Len(r) = Len(a) + Len(b)
        /\ \A k \in 1..Len(a)+Len(b) :
              r[k] = IF k <= Len(a) THEN a[k] ELSE b[k - Len(a)]
    BY <1>1, <1>2, ConcatProperties
  <1> HIDE DEF r
  <1>4. Len(s) \in Nat /\ Len(r) = Len(s) - 1
    BY <1>1, <1>2, <1>3
  <1>5. ASSUME NEW k \in 1..Len(r) PROVE r[k] = IF k < n THEN s[k] ELSE s[k + 1]
    <2>1. CASE k < n
      BY <1>1, <1>3, <1>4, <2>1
    <2>2. CASE ~(k < n)
      <3>1. r[k] = b[k - (n - 1)] /\ k - (n - 1) \in 1..Len(s)-n
        BY <1>1, <1>3, <1>4, <2>2
      <3>2. n + (k - (n - 1)) = k + 1
        BY <1>4
      <3> QED BY <1>2, <2>2, <3>1, <3>2
    <2> QED BY <2>1, <2>2
  <1>6. Distinct(r)
    BY <1>4, <1>5 DEF Distinct
  <1>7. /\ ToSet(r) = {r[k] : k \in 1..Len(r)}
        /\ ToSet(s) = {s[k] : k \in 1..Len(s)}
    BY <1>3, ToSetDef
  <1>8. ToSet(r) \subseteq ToSet(s) \ {s[n]}
    <2> SUFFICES ASSUME NEW k \in 1..Len(r)
                 PROVE  \E j \in 1..Len(s) : j # n /\ r[k] = s[j]
      BY <1>7 DEF Distinct
    <2>1. k \in 1..Len(s) /\ k + 1 \in 1..Len(s)
      BY <1>4
    <2> QED BY <1>4, <1>5, <2>1
  <1>9. ToSet(s) \ {s[n]} \subseteq ToSet(r)
    <2> SUFFICES ASSUME NEW k \in 1..Len(s), k # n PROVE s[k] \in ToSet(r)
      BY <1>7
    <2>1. CASE k < n
      BY <1>4, <1>5, <1>7, <2>1
    <2>2. CASE k > n
      <3>1. k - 1 \in 1..Len(r) /\ r[k - 1] = s[k]
        BY <1>4, <1>5, <2>2
      <3> QED BY <1>7, <3>1
    <2> QED BY <1>4, <2>1, <2>2
  <1>10. RemoveAt(s, n) = r
    BY DEF RemoveAt, r, a, b
  <1> QED BY <1>3, <1>4, <1>6, <1>8, <1>9, <1>10

\* The first element is removed.
LEMMA TailProperty ==
    ASSUME NEW S, NEW s \in Seq(S), s # <<>>, Distinct(s)
    PROVE  /\ Head(s) \in ToSet(s) /\ Tail(s) \in Seq(S) /\ Distinct(Tail(s))
           /\ Len(Tail(s)) = Len(s) - 1
           /\ ToSet(Tail(s)) = ToSet(s) \ {Head(s)}
  <1> DEFINE r == Tail(s)
  <1>1. /\ r \in Seq(S) /\ Len(r) = Len(s) - 1 /\ Len(s) \in Nat
        /\ \A i \in 1..Len(r) : r[i] = s[i + 1]
        /\ Head(s) = s[1] /\ Len(s) > 0
    BY HeadTailProperties, EmptySeq
  <1>2. /\ ToSet(r) = {r[k] : k \in 1..Len(r)}
        /\ ToSet(s) = {s[k] : k \in 1..Len(s)}
    BY <1>1, ToSetDef
  <1> HIDE DEF r
  <1>3. Distinct(r)
    BY <1>1 DEF Distinct
  <1>4. ToSet(r) \subseteq ToSet(s) \ {s[1]}
    <2> SUFFICES ASSUME NEW k \in 1..Len(r)
                 PROVE  \E j \in 1..Len(s) : j # 1 /\ r[k] = s[j]
      BY <1>1, <1>2 DEF Distinct
    <2>1. k + 1 \in 1..Len(s) /\ k + 1 # 1
      BY <1>1
    <2> QED BY <1>1, <2>1
  <1>5. ToSet(s) \ {s[1]} \subseteq ToSet(r)
    <2> SUFFICES ASSUME NEW k \in 1..Len(s), k # 1 PROVE s[k] \in ToSet(r)
      BY <1>2
    <2>1. k - 1 \in 1..Len(r) /\ r[k - 1] = s[k]
      BY <1>1
    <2> QED BY <1>2, <2>1
  <1> QED BY <1>1, <1>2, <1>3, <1>4, <1>5 DEF r
-----------------------------------------------------------------------------
(***************************************************************************)
(* The invariant.                                                          *)
(***************************************************************************)
USE DEF OnePlace

LEMMA InitPoolInv == PoolInit => PoolInv
  <1> SUFFICES ASSUME PoolInit PROVE PoolInv
    OBVIOUS
  <1>1. PoolTypeOK
    <2>1. << >> \in Seq(Entries) /\ 0 \in 0..MaxGen
      BY MaxGenAssumption
    <2>2. alert \in BOOLEAN /\ processing \in BOOLEAN
      BY DEF PoolInit
    <2>3. work \in [Priorities -> Seq(Entries)] /\ answers \in Seq(Entries)
      BY <2>1 DEF PoolInit
    <2>4. /\ pc \in [Threads -> PCs] /\ job \in [Threads -> Entries \cup {NoEntry}]
          /\ update_args \in [Threads -> {NoArg} \cup 0..MaxGen]
          /\ arg \in [Threads -> {NoArg} \cup 0..MaxGen]
          /\ alloc \subseteq Entries /\ pending \subseteq Entries
      BY DEF PoolInit, PCs
    <2>5. /\ generation \in 0..MaxGen /\ gen \in [Threads -> 0..MaxGen]
          /\ keys \in [Threads -> 0..MaxGen] /\ queuedAt \in [Entries -> 0..MaxGen]
      BY <2>1 DEF PoolInit
    <2> QED BY <2>2, <2>3, <2>4, <2>5 DEF PoolTypeOK
  <1>2. OnePlace
    BY EmptyProperty DEF PoolInit, WaitingOnce, WorkedOnOnce, AnsweredOnce, NoneLost
  <1>3. Running /\ Updates /\ QueuedBefore /\ NoLostWakeup /\ NoLostAnswer /\ FreshState
    BY DEF PoolInit, Running, Updates, QueuedBefore, NoLostWakeup, NoLostAnswer, FreshState
  <1> QED BY <1>1, <1>2, <1>3 DEF PoolInv

\* What a signal does to the threads.
LEMMA SignalOneProperty ==
    ASSUME pc \in [Threads -> PCs], SignalOne
    PROVE  /\ pc' \in [Threads -> PCs]
           /\ \A t \in Threads : pc'[t] = pc[t] \/ (pc[t] = "wait" /\ pc'[t] = "lock")
           /\ \E t \in Threads : pc'[t] # "wait"
  BY ThreadsAssumption DEF SignalOne, PCs

\* workqueue_entry_t's life begins.
LEMMA QueueWorkPreserves ==
    ASSUME PoolInv, NEW e \in Entries, QueueWork(e) PROVE PoolInv'
  <1> USE DEF PoolInv
  <1>1. /\ pc' \in [Threads -> PCs]
        /\ \A t \in Threads : pc'[t] = pc[t] \/ (pc[t] = "wait" /\ pc'[t] = "lock")
        /\ \E t \in Threads : pc'[t] # "wait"
    BY SignalOneProperty DEF QueueWork, PoolTypeOK
  <1>2. e \notin pending /\ Prio[e] \in Priorities
    BY PrioAssumption DEF QueueWork, WaitingOnce
  <1> DEFINE q == work[Prio[e]]
  <1>3. q \in Seq(Entries) /\ Distinct(q) /\ e \notin ToSet(q)
    BY <1>2 DEF PoolTypeOK, WaitingOnce
  <1>4. /\ Append(q, e) \in Seq(Entries) /\ Distinct(Append(q, e))
        /\ ToSet(Append(q, e)) = ToSet(q) \cup {e}
    BY <1>3, AppendProperty
  <1>5. /\ work'[Prio[e]] = Append(q, e)
        /\ \A p \in Priorities : p # Prio[e] => work'[p] = work[p]
        /\ work' \in [Priorities -> Seq(Entries)]
    BY <1>2, <1>4 DEF QueueWork, PoolTypeOK
  <1> HIDE DEF q
  <1>6. PoolTypeOK'
    BY <1>1, <1>5 DEF QueueWork, PoolTypeOK, replyVars
  <1>7. WaitingOnce'
    <2>1. \A p \in Priorities : Distinct(work'[p]) /\
             \A f \in ToSet(work'[p]) : f \in pending' /\ Prio[f] = p
      BY <1>4, <1>5 DEF QueueWork, WaitingOnce, q
    <2>2. \A f \in pending' : f \in alloc' /\ f \in ToSet(work'[Prio[f]])
      BY <1>2, <1>4, <1>5, PrioAssumption DEF QueueWork, WaitingOnce, PoolTypeOK, q
    <2> QED BY <2>1, <2>2 DEF WaitingOnce
  <1>8. WorkedOnOnce' /\ AnsweredOnce' /\ NoneLost'
    BY DEF QueueWork, WorkedOnOnce, AnsweredOnce, NoneLost, replyVars
  <1>9. Running' /\ Updates' /\ QueuedBefore'
    BY <1>1 DEF QueueWork, Running, Updates, QueuedBefore, PoolTypeOK
  <1>10. NoLostWakeup' /\ NoLostAnswer'
    BY <1>1 DEF QueueWork, NoLostWakeup, NoLostAnswer, replyVars
  <1>11. FreshState'
    BY DEF QueueWork, FreshState, WorkedOnOnce, PoolTypeOK
  <1> QED BY <1>6, <1>7, <1>8, <1>9, <1>10, <1>11

\* A cancelled entry leaves its queue; no thread and no answer knows it.
LEMMA CancelPreserves ==
    ASSUME PoolInv, NEW e \in Entries, CancelPending(e) PROVE PoolInv'
  <1> USE DEF PoolInv
  <1>1. Prio[e] \in Priorities
    BY PrioAssumption
  <1> DEFINE q == work[Prio[e]]
  <1>2. PICK i \in 1..Len(q) : q[i] = e /\ work' = [work EXCEPT ![Prio[e]] = RemoveAt(q, i)]
    BY DEF CancelPending
  <1>3. q \in Seq(Entries) /\ Distinct(q)
    BY <1>1 DEF PoolTypeOK, WaitingOnce
  <1>4. /\ RemoveAt(q, i) \in Seq(Entries) /\ Distinct(RemoveAt(q, i))
        /\ ToSet(RemoveAt(q, i)) = ToSet(q) \ {e}
    BY <1>2, <1>3, RemoveAtProperty
  <1>5. /\ work'[Prio[e]] = RemoveAt(q, i)
        /\ \A p \in Priorities : p # Prio[e] => work'[p] = work[p]
        /\ work' \in [Priorities -> Seq(Entries)]
    BY <1>1, <1>2, <1>4 DEF PoolTypeOK
  <1> HIDE DEF q
  <1>6. PoolTypeOK'
    <2>1. 0 \in 0..MaxGen
      BY MaxGenAssumption
    <2> QED BY <1>5, <2>1 DEF CancelPending, PoolTypeOK, replyVars, threadVars
  <1>7. WaitingOnce'
    <2>1. \A p \in Priorities : Distinct(work'[p]) /\
             \A f \in ToSet(work'[p]) : f \in pending' /\ Prio[f] = p
      BY <1>4, <1>5 DEF CancelPending, WaitingOnce, q
    <2>2. \A f \in pending' : f \in alloc' /\ f \in ToSet(work'[Prio[f]])
      BY <1>1, <1>4, <1>5, PrioAssumption DEF CancelPending, WaitingOnce, PoolTypeOK, q
    <2> QED BY <2>1, <2>2 DEF WaitingOnce
  <1>8. WorkedOnOnce' /\ AnsweredOnce' /\ NoneLost'
    BY DEF CancelPending, WorkedOnOnce, AnsweredOnce, NoneLost, replyVars, threadVars
  <1>9. Running' /\ Updates' /\ QueuedBefore' /\ NoLostAnswer'
    BY DEF CancelPending, Running, Updates, QueuedBefore, PoolTypeOK, NoLostAnswer, replyVars, threadVars
  <1>10. NoLostWakeup'
    <2>1. \A p \in Priorities : work'[p] # << >> => work[p] # << >>
      <3> SUFFICES ASSUME NEW p \in Priorities, work'[p] # << >> PROVE work[p] # << >>
        OBVIOUS
      <3>1. CASE p = Prio[e]
        <4>1. ToSet(q) # {}
          BY <1>3, <1>4, <1>5, <3>1, ToSetType
        <4> QED BY <1>3, <3>1, <4>1, ToSetType DEF q
      <3> QED BY <1>5, <3>1
    <2> QED BY <2>1 DEF CancelPending, NoLostWakeup, threadVars
  <1>11. FreshState'
    <2>1. \A t \in Threads : job[t] # NoEntry => job[t] # e
      BY DEF CancelPending, WorkedOnOnce
    <2> QED BY <2>1 DEF CancelPending, FreshState, PoolTypeOK, threadVars
  <1> QED BY <1>6, <1>7, <1>8, <1>9, <1>10, <1>11

\* The main thread tells every thread of an update.
LEMMA QueueUpdatePreserves ==
    ASSUME PoolInv, QueueUpdate PROVE PoolInv'
  <1> USE DEF PoolInv
  <1>1. /\ pc' \in [Threads -> PCs]
        /\ \A t \in Threads : pc'[t] = IF pc[t] = "wait" THEN "lock" ELSE pc[t]
    BY DEF QueueUpdate, SignalAll, PoolTypeOK, PCs
  <1>2. PoolTypeOK'
    <2>1. generation + 1 \in 0..MaxGen
      BY MaxGenAssumption DEF QueueUpdate, PoolTypeOK
    <2> QED BY <1>1, <2>1 DEF QueueUpdate, PoolTypeOK, replyVars
  <1>3. OnePlace'
    BY DEF QueueUpdate, WaitingOnce, WorkedOnOnce, AnsweredOnce, NoneLost, replyVars
  <1>4. Running' /\ Updates' /\ QueuedBefore'
    BY <1>1 DEF QueueUpdate, Running, Updates, QueuedBefore, PoolTypeOK
  <1>5. NoLostWakeup' /\ NoLostAnswer' /\ FreshState'
    BY <1>1, ThreadsAssumption DEF QueueUpdate, NoLostWakeup, NoLostAnswer, FreshState, replyVars
  <1> QED BY <1>2, <1>3, <1>4, <1>5

\* A thread brings its state up to date.
LEMMA UpdatePreserves ==
    ASSUME PoolInv, NEW t \in Threads, TakeUpdate(t) \/ RunUpdate(t) PROVE PoolInv'
  <1> USE DEF PoolInv
  <1>1. CASE TakeUpdate(t)
    <2>1. PoolTypeOK'
      BY <1>1 DEF TakeUpdate, PoolTypeOK, PCs, replyVars
    <2>2. OnePlace'
      BY <1>1 DEF TakeUpdate, WaitingOnce, WorkedOnOnce, AnsweredOnce, NoneLost, replyVars
    <2>3. Running' /\ Updates' /\ QueuedBefore'
      BY <1>1 DEF TakeUpdate, Running, Updates, QueuedBefore, PoolTypeOK
    <2>4. NoLostWakeup' /\ NoLostAnswer' /\ FreshState'
      BY <1>1 DEF TakeUpdate, NoLostWakeup, NoLostAnswer, FreshState, PoolTypeOK, replyVars
    <2> QED BY <2>1, <2>2, <2>3, <2>4
  <1>2. CASE RunUpdate(t)
    <2>1. PoolTypeOK'
      BY <1>2 DEF RunUpdate, PoolTypeOK, PCs, Updates, queueVars, replyVars
    <2>2. OnePlace'
      BY <1>2 DEF RunUpdate, WaitingOnce, WorkedOnOnce, AnsweredOnce, NoneLost,
                  queueVars, replyVars
    <2>3. Running' /\ Updates' /\ QueuedBefore'
      BY <1>2 DEF RunUpdate, Running, Updates, QueuedBefore, PoolTypeOK, queueVars
    <2>4. NoLostWakeup' /\ NoLostAnswer'
      BY <1>2 DEF RunUpdate, NoLostWakeup, NoLostAnswer, PoolTypeOK, queueVars, replyVars
    <2>5. FreshState'
      BY <1>2 DEF RunUpdate, FreshState, Running, PoolTypeOK
    <2> QED BY <2>1, <2>2, <2>3, <2>4, <2>5
  <1> QED BY <1>1, <1>2

\* A thread takes the first entry of a queue, with a state that is fresh.
LEMMA TakeWorkPreserves ==
    ASSUME PoolInv, NEW t \in Threads, NEW p \in Priorities, TakeWork(t, p)
    PROVE  PoolInv'
  <1> USE DEF PoolInv
  <1> DEFINE q == work[p]
             e == Head(q)
  <1>1. q \in Seq(Entries) /\ Distinct(q) /\ q # << >>
    BY DEF PoolTypeOK, WaitingOnce, TakeWork, Extract
  <1>2. /\ e \in ToSet(q) /\ Tail(q) \in Seq(Entries) /\ Distinct(Tail(q))
        /\ ToSet(Tail(q)) = ToSet(q) \ {e}
    BY <1>1, TailProperty
  <1>3. e \in Entries /\ e \in pending /\ e \in alloc /\ Prio[e] = p /\ e # NoEntry
    BY <1>2, NoEntryAssumption DEF WaitingOnce, PoolTypeOK
  <1>4. /\ work'[p] = Tail(q)
        /\ \A r \in Priorities : r # p => work'[r] = work[r]
        /\ work' \in [Priorities -> Seq(Entries)]
    BY <1>2 DEF TakeWork, Extract, PoolTypeOK
  <1>5. /\ job' = [job EXCEPT ![t] = e] /\ pending' = pending \ {e}
        /\ pc' = [pc EXCEPT ![t] = "run"] /\ pc[t] = "lock" /\ gen[t] = generation
        /\ UNCHANGED <<alloc, generation, update_args, gen, arg, keys, answers, alert,
                       processing, queuedAt>>
    BY DEF TakeWork, Extract, replyVars
  <1> HIDE DEF q, e
  <1>6. PoolTypeOK'
    BY <1>3, <1>4, <1>5 DEF PoolTypeOK, PCs
  <1>7. WaitingOnce'
    <2>1. ASSUME NEW r \in Priorities
          PROVE  Distinct(work'[r]) /\ \A f \in ToSet(work'[r]) : f \in pending' /\ Prio[f] = r
      <3>1. CASE r = p
        BY <1>2, <1>4, <1>5, <3>1 DEF WaitingOnce, q
      <3>2. CASE r # p
        BY <1>3, <1>4, <1>5, <3>2 DEF WaitingOnce
      <3> QED BY <3>1, <3>2
    <2>2. ASSUME NEW f \in pending' PROVE f \in alloc' /\ f \in ToSet(work'[Prio[f]])
      <3>1. f \in pending /\ f # e /\ Prio[f] \in Priorities
        BY <1>5, PrioAssumption DEF PoolTypeOK
      <3>2. f \in alloc /\ f \in ToSet(work[Prio[f]])
        BY <3>1 DEF WaitingOnce
      <3> QED BY <1>2, <1>4, <1>5, <3>1, <3>2 DEF q
    <2> QED BY <2>1, <2>2 DEF WaitingOnce
  <1>8. job[t] = NoEntry
    BY <1>5 DEF Running, PoolTypeOK
  <1>9. WorkedOnOnce'
    BY <1>3, <1>5, <1>8 DEF WorkedOnOnce, PoolTypeOK
  <1>10. AnsweredOnce' /\ NoneLost'
    <2>1. job'[t] = e /\ \A u \in Threads : u # t => job'[u] = job[u]
      BY <1>5 DEF PoolTypeOK
    <2>2. AnsweredOnce'
      BY <1>3, <1>5, <2>1 DEF AnsweredOnce
    <2>3. NoneLost'
      BY <1>3, <1>5, <1>8, <2>1, NoEntryAssumption DEF NoneLost, PoolTypeOK
    <2> QED BY <2>2, <2>3
  <1>11. Running' /\ Updates' /\ QueuedBefore'
    BY <1>3, <1>5 DEF Running, Updates, QueuedBefore, PoolTypeOK
  <1>12. NoLostWakeup' /\ NoLostAnswer'
    BY <1>5 DEF NoLostWakeup, NoLostAnswer, PoolTypeOK
  <1>13. FreshState'
    <2>1. keys[t] = generation /\ queuedAt[e] <= generation
      BY <1>3, <1>5 DEF Updates, QueuedBefore
    <2> QED BY <1>5, <2>1 DEF FreshState, PoolTypeOK
  <1> QED BY <1>6, <1>7, <1>9, <1>10, <1>11, <1>12, <1>13

\* Threads that go to sleep and wake up.
LEMMA WaitPreserves ==
    ASSUME PoolInv, NEW t \in Threads, Wait(t) \/ SpuriousWake(t) PROVE PoolInv'
  <1> USE DEF PoolInv, queueVars, replyVars
  <1>1. PoolTypeOK'
    BY DEF Wait, SpuriousWake, PoolTypeOK, PCs
  <1>2. OnePlace'
    BY DEF Wait, SpuriousWake, WaitingOnce, WorkedOnOnce, AnsweredOnce, NoneLost
  <1>3. Running' /\ Updates' /\ QueuedBefore' /\ FreshState'
    BY DEF Wait, SpuriousWake, Running, Updates, QueuedBefore, FreshState, PoolTypeOK
  <1>4. NoLostWakeup' /\ NoLostAnswer'
    BY DEF Wait, SpuriousWake, HasWork, NoLostWakeup, NoLostAnswer, PoolTypeOK
  <1> QED BY <1>1, <1>2, <1>3, <1>4

\* An entry passes from its thread to the reply queue.
LEMMA ReplyPreserves ==
    ASSUME PoolInv, NEW t \in Threads, RunAndReply(t) PROVE PoolInv'
  <1> USE DEF PoolInv
  <1> DEFINE e == job[t]
  <1>1. e # NoEntry /\ e \in Entries /\ e \in alloc \ pending /\ e \notin ToSet(answers)
    BY DEF RunAndReply, Running, WorkedOnOnce, AnsweredOnce, PoolTypeOK
  <1>2. /\ Append(answers, e) \in Seq(Entries) /\ Distinct(Append(answers, e))
        /\ ToSet(Append(answers, e)) = ToSet(answers) \cup {e}
    BY <1>1, AppendProperty DEF AnsweredOnce, PoolTypeOK
  <1>3. /\ answers' = Append(answers, e) /\ job' = [job EXCEPT ![t] = NoEntry]
        /\ pc' = [pc EXCEPT ![t] = IF answers = << >> THEN "alert" ELSE "lock"]
        /\ pc[t] = "run"
        /\ UNCHANGED <<work, alloc, pending, generation, update_args, gen, arg, keys,
                       alert, processing, queuedAt>>
    BY DEF RunAndReply, queueVars
  <1>4. job'[t] = NoEntry /\ \A u \in Threads : u # t => job'[u] = job[u]
    BY <1>3 DEF PoolTypeOK
  <1>5. PoolTypeOK'
    BY <1>2, <1>3 DEF PoolTypeOK, PCs
  <1>6. WaitingOnce' /\ WorkedOnOnce'
    BY <1>3, <1>4 DEF WaitingOnce, WorkedOnOnce
  <1>7. AnsweredOnce'
    <2>1. \A u \in Threads : job'[u] # e
      BY <1>1, <1>4 DEF WorkedOnOnce
    <2>2. \A f \in ToSet(answers), u \in Threads : job'[u] # f
      BY <1>4, NoEntryAssumption DEF AnsweredOnce, PoolTypeOK
    <2> QED BY <1>1, <1>2, <1>3, <2>1, <2>2 DEF AnsweredOnce
  <1>8. NoneLost'
    BY <1>2, <1>3, <1>4 DEF NoneLost
  <1>9. Running' /\ Updates' /\ QueuedBefore'
    BY <1>3 DEF Running, Updates, QueuedBefore, PoolTypeOK
  <1>10. NoLostWakeup' /\ NoLostAnswer'
    BY <1>3 DEF NoLostWakeup, NoLostAnswer, PoolTypeOK
  <1>11. FreshState'
    BY <1>3, <1>4 DEF FreshState
  <1> QED BY <1>5, <1>6, <1>7, <1>8, <1>9, <1>10, <1>11

\* The socket is written to, drained, and left when the queue is empty.
LEMMA AlertPreserves ==
    ASSUME PoolInv, (\E t \in Threads : Alert(t)) \/ Drain \/ Processed PROVE PoolInv'
  <1> USE DEF PoolInv, queueVars, threadVars
  <1>1. PICK t \in Threads : Alert(t) \/ Drain \/ Processed
    BY ThreadsAssumption
  <1>2. PoolTypeOK'
    BY <1>1 DEF Alert, Drain, Processed, PoolTypeOK, PCs
  <1>3. OnePlace'
    BY <1>1 DEF Alert, Drain, Processed, WaitingOnce, WorkedOnOnce, AnsweredOnce, NoneLost
  <1>4. Running' /\ Updates' /\ QueuedBefore' /\ FreshState'
    BY <1>1 DEF Alert, Drain, Processed, Running, Updates, QueuedBefore, FreshState,
                PoolTypeOK
  <1>5. NoLostWakeup' /\ NoLostAnswer'
    BY <1>1 DEF Alert, Drain, Processed, NoLostWakeup, NoLostAnswer, PoolTypeOK
  <1> QED BY <1>2, <1>3, <1>4, <1>5

\* An answered entry is freed; nobody else has it.
LEMMA PopAnswerPreserves ==
    ASSUME PoolInv, PopAnswer PROVE PoolInv'
  <1> USE DEF PoolInv
  <1> DEFINE e == Head(answers)
  <1>1. answers \in Seq(Entries) /\ answers # << >> /\ Distinct(answers)
    BY DEF PopAnswer, PoolTypeOK, AnsweredOnce
  <1>2. /\ e \in ToSet(answers) /\ Tail(answers) \in Seq(Entries)
        /\ Distinct(Tail(answers)) /\ ToSet(Tail(answers)) = ToSet(answers) \ {e}
    BY <1>1, TailProperty
  <1>3. /\ answers' = Tail(answers) /\ alloc' = alloc \ {e}
        /\ queuedAt' = [queuedAt EXCEPT ![e] = 0] /\ processing
        /\ UNCHANGED <<work, pending, generation, update_args, pc, job, gen, arg, keys,
                       alert, processing>>
    BY DEF PopAnswer, threadVars
  <1> HIDE DEF e
  <1>4. e \in alloc \ pending /\ \A t \in Threads : job[t] # e
    BY <1>2 DEF AnsweredOnce
  <1>5. PoolTypeOK'
    <2>1. 0 \in 0..MaxGen
      BY MaxGenAssumption
    <2> QED BY <1>2, <1>3, <2>1 DEF PoolTypeOK
  <1>6. WaitingOnce' /\ WorkedOnOnce'
    BY <1>3, <1>4 DEF WaitingOnce, WorkedOnOnce
  <1>7. AnsweredOnce' /\ NoneLost'
    BY <1>2, <1>3 DEF AnsweredOnce, NoneLost
  <1>8. Running' /\ Updates' /\ QueuedBefore'
    BY <1>3 DEF Running, Updates, QueuedBefore, PoolTypeOK
  <1>9. NoLostWakeup' /\ NoLostAnswer'
    BY <1>3 DEF NoLostWakeup, NoLostAnswer
  <1>10. FreshState'
    BY <1>3, <1>4 DEF FreshState, PoolTypeOK
  <1> QED BY <1>5, <1>6, <1>7, <1>8, <1>9, <1>10

\* Every step keeps the invariant.
LEMMA NextPoolInv == PoolInv /\ [PoolNext]_poolVars => PoolInv'
  <1> SUFFICES ASSUME PoolInv, [PoolNext]_poolVars PROVE PoolInv'
    OBVIOUS
  <1>1. ASSUME NEW e \in Entries, QueueWork(e) \/ CancelPending(e) PROVE PoolInv'
    BY <1>1, QueueWorkPreserves, CancelPreserves
  <1>2. CASE QueueUpdate
    BY <1>2, QueueUpdatePreserves
  <1>3. ASSUME NEW t \in Threads, Worker(t) \/ SpuriousWake(t) PROVE PoolInv'
    BY <1>3, UpdatePreserves, TakeWorkPreserves, WaitPreserves, ReplyPreserves,
       AlertPreserves DEF Worker
  <1>4. CASE Drain \/ PopAnswer \/ Processed
    BY <1>4, AlertPreserves, PopAnswerPreserves
  <1>5. CASE UNCHANGED poolVars
    BY <1>5 DEF poolVars, queueVars, threadVars, replyVars, PoolInv, PoolTypeOK,
       WaitingOnce, WorkedOnOnce, AnsweredOnce, NoneLost, Running, Updates,
       QueuedBefore, NoLostWakeup, NoLostAnswer, FreshState
  <1> QED BY <1>1, <1>2, <1>3, <1>4, <1>5 DEF PoolNext

LEMMA PoolInvariance == PoolSpec => []PoolInv
  BY InitPoolInv, NextPoolInv, PTL DEF PoolSpec
-----------------------------------------------------------------------------
\* Type correctness of the pool: an update_fn is never called without the
\* argument of an update.
THEOREM PoolTypeCorrect == PoolSpec => []PoolTypeOK
  <1>1. PoolInv => PoolTypeOK
    BY DEF PoolInv
  <1> QED BY PoolInvariance, <1>1, PTL

\* tor_cond_signal_one and tor_cond_signal_all wake enough threads: work is
\* never left to sleeping threads, and no thread sleeps through an update.
THEOREM WorkersAreWoken == PoolSpec => []NoLostWakeup
  <1>1. PoolInv => NoLostWakeup
    BY DEF PoolInv
  <1> QED BY PoolInvariance, <1>1, PTL

\* queue_reply may alert only when the queue was empty: the main thread always
\* has been, is or will be told of answers.
THEOREM AnswersAreAnnounced == PoolSpec => []NoLostAnswer
  <1>1. PoolInv => NoLostAnswer
    BY DEF PoolInv
  <1> QED BY PoolInvariance, <1>1, PTL

\* A workqueue_entry_t is in one place at a time: it is run once, answered once
\* and freed once, or cancelled before anybody has taken it.
THEOREM EntriesHaveOnePlace == PoolSpec => []OnePlace
  <1>1. PoolInv => OnePlace
    BY DEF PoolInv
  <1> QED BY PoolInvariance, <1>1, PTL

\* Work never runs with a thread state older than the work.
THEOREM WorkRunsFresh == PoolSpec => []FreshState
  <1>1. PoolInv => FreshState
    BY DEF PoolInv
  <1> QED BY PoolInvariance, <1>1, PTL
=============================================================================
