----------------------- MODULE ServerHandshakeProofs -----------------------
(***************************************************************************)
(* The safety of registration and reconnection for any number of           *)
(* connections, users and groups: the formal counterpart of the informal   *)
(* proof in mgen-server.rs, and the consistency of the three tables.       *)
(***************************************************************************)
EXTENDS ServerHandshake, SequenceTheorems, TLAPS

\* A handler that has read its handshake.
Named(c) == pc[c] \notin {"none", "accepted"}

Distinct(s) == \A i, j \in 1..Len(s) : s[i] = s[j] => i = j

(***************************************************************************)
(* The locks: what a queue holds are the requests of tasks that are at the *)
(* await of that lock, each once.  It needs that a handler which has yet   *)
(* to spawn its reader has none, else the spawn would forge a location.    *)
(***************************************************************************)
ReaderSpawned == \A c \in Conns : reader[c] # "none" => pc[c] \in {"addWriter", "done"}

NamesGiven == \A c \in Conns : Named(c) =>
    \/ pc[c] = "failed"
    \/ sender[c] \in Users /\ group[c] \in Groups

QueueSound == \A l \in Locks, c \in Conns, a \in Acquisitions :
    InQueue(l, <<c, a>>) => At(c, a) /\ LockOf(c, a) = l

QueueDistinct == \A l \in Locks : Distinct(queue[l])

LockInv == TypeOK /\ ReaderSpawned /\ NamesGiven /\ QueueSound /\ QueueDistinct
-----------------------------------------------------------------------------
\* Removing the head of a queue without duplicates removes that request.
LEMMA TailDistinct ==
    ASSUME NEW S, NEW s \in Seq(S), s # <<>>, Distinct(s)
    PROVE  /\ Tail(s) \in Seq(S) /\ Distinct(Tail(s))
           /\ \A i \in 1..Len(Tail(s)) :
                 Tail(s)[i] # Head(s) /\ \E k \in 1..Len(s) : Tail(s)[i] = s[k]
  <1>1. /\ Tail(s) \in Seq(S) /\ Len(Tail(s)) = Len(s) - 1 /\ Len(s) \in Nat
        /\ \A i \in 1..Len(Tail(s)) : Tail(s)[i] = s[i + 1]
        /\ Head(s) = s[1] /\ Len(s) > 0
    BY HeadTailProperties, EmptySeq
  <1> QED BY <1>1 DEF Distinct

\* Removing a request from the middle of a queue removes that request only.
LEMMA RemoveAtDistinct ==
    ASSUME NEW S, NEW s \in Seq(S), NEW n \in 1..Len(s), Distinct(s)
    PROVE  /\ RemoveAt(s, n) \in Seq(S) /\ Distinct(RemoveAt(s, n))
           /\ \A i \in 1..Len(RemoveAt(s, n)) :
                 /\ RemoveAt(s, n)[i] # s[n]
                 /\ \E k \in 1..Len(s) : RemoveAt(s, n)[i] = s[k]
  <1> DEFINE a == SubSeq(s, 1, n - 1)
             b == SubSeq(s, n + 1, Len(s))
  <1>1. a \in Seq(S) /\ Len(a) = n - 1 /\ \A k \in 1..n-1 : a[k] = s[k]
    BY SubSeqProperties
  <1>2. /\ b \in Seq(S) /\ Len(b) = Len(s) - n
        /\ \A k \in 1..Len(s)-n : b[k] = s[n + k]
    BY SubSeqProperties
  <1> HIDE DEF a, b
  <1>3. /\ a \o b \in Seq(S)
        /\ Len(a \o b) = Len(a) + Len(b)
        /\ \A k \in 1..Len(a)+Len(b) :
              (a \o b)[k] = IF k <= Len(a) THEN a[k] ELSE b[k - Len(a)]
    BY <1>1, <1>2, ConcatProperties
  <1> DEFINE r == a \o b
  <1>4. Len(s) \in Nat
    OBVIOUS
  <1> HIDE DEF r
  <1>5. r \in Seq(S) /\ Len(r) = Len(s) - 1
    BY <1>1, <1>2, <1>3, <1>4 DEF r
  <1>6. \A k \in 1..Len(r) : r[k] = IF k < n THEN s[k] ELSE s[k + 1]
    <2> SUFFICES ASSUME NEW k \in 1..Len(r)
                 PROVE  r[k] = IF k < n THEN s[k] ELSE s[k + 1]
      OBVIOUS
    <2>1. r[k] = IF k <= Len(a) THEN a[k] ELSE b[k - Len(a)]
      BY <1>1, <1>2, <1>3, <1>4, <1>5 DEF r
    <2>2. CASE k < n
      BY <1>1, <1>4, <1>5, <2>1, <2>2
    <2>3. CASE ~(k < n)
      <3>1. r[k] = b[k - Len(a)] /\ k - Len(a) \in 1..Len(s)-n
        BY <1>1, <1>4, <1>5, <2>1, <2>3
      <3>2. b[k - Len(a)] = s[n + (k - Len(a))] /\ n + (k - Len(a)) = k + 1
        BY <1>1, <1>2, <1>4, <1>5, <3>1
      <3> QED BY <2>3, <3>1, <3>2
    <2> QED BY <2>2, <2>3
  <1>7. /\ r \in Seq(S) /\ Len(r) = Len(s) - 1 /\ Len(s) \in Nat
        /\ \A k \in 1..Len(r) : r[k] = IF k < n THEN s[k] ELSE s[k + 1]
    BY <1>4, <1>5, <1>6
  <1>8. \A k \in 1..Len(r) : r[k] # s[n] /\ \E j \in 1..Len(s) : r[k] = s[j]
    <2> SUFFICES ASSUME NEW k \in 1..Len(r)
                 PROVE  r[k] # s[n] /\ \E j \in 1..Len(s) : r[k] = s[j]
      OBVIOUS
    <2>1. CASE k < n
      BY <1>7, <2>1 DEF Distinct
    <2>2. CASE ~(k < n)
      BY <1>7, <2>2 DEF Distinct
    <2> QED BY <2>1, <2>2
  <1>9. Distinct(r)
    BY <1>7 DEF Distinct
  <1>10. RemoveAt(s, n) = r
    BY DEF RemoveAt, r, a, b
  <1> QED BY <1>7, <1>8, <1>9, <1>10

\* Adding a request that is not in the queue keeps requests apart.
LEMMA AppendDistinct ==
    ASSUME NEW S, NEW s \in Seq(S), NEW e \in S, Distinct(s),
           \A i \in 1..Len(s) : s[i] # e
    PROVE  /\ Append(s, e) \in Seq(S) /\ Distinct(Append(s, e))
           /\ \A i \in 1..Len(Append(s, e)) :
                 Append(s, e)[i] = e \/ \E k \in 1..Len(s) : Append(s, e)[i] = s[k]
  <1>1. /\ Append(s, e) \in Seq(S) /\ Len(Append(s, e)) = Len(s) + 1
        /\ Len(s) \in Nat
        /\ \A i \in 1..Len(s) : Append(s, e)[i] = s[i]
        /\ Append(s, e)[Len(s) + 1] = e
    BY AppendProperties
  <1> QED BY <1>1 DEF Distinct

\* The lock of an acquisition exists while a task is at it.
LEMMA LockOfType ==
    ASSUME LockInv, NEW c \in Conns, NEW a \in Acquisitions, At(c, a)
    PROVE  LockOf(c, a) \in Locks
  <1>1. CASE a = "copyDb"
    BY <1>1 DEF LockInv, At, ReaderSpawned, NamesGiven, Named, LockOf, Locks
  <1>2. CASE a # "copyDb"
    BY <1>2 DEF LockInv, At, NamesGiven, Named, LockOf, Locks, Acquisitions,
                Reads, Writes
  <1> QED BY <1>1, <1>2

\* A granted request leaves its queue, the other requests stay.
LEMMA TakeProperty ==
    ASSUME LockInv, NEW c \in Conns, NEW a \in Acquisitions, Take(c, a)
    PROVE  /\ queue' \in [Locks -> Seq(Conns \X Acquisitions)]
           /\ QueueDistinct'
           /\ \A l \in Locks, d \in Conns, b \in Acquisitions :
                 InQueue(l, <<d, b>>)' => InQueue(l, <<d, b>>) /\ <<d, b>> # <<c, a>>
  <1> DEFINE m == LockOf(c, a)
  <1>1. m \in Locks /\ queue[m] # <<>> /\ Head(queue[m]) = <<c, a>>
    BY LockOfType DEF Take, CanTake, Grantable
  <1>2. queue[m] \in Seq(Conns \X Acquisitions) /\ Distinct(queue[m])
    BY <1>1 DEF LockInv, TypeOK, QueueDistinct
  <1>3. /\ Tail(queue[m]) \in Seq(Conns \X Acquisitions)
        /\ Distinct(Tail(queue[m]))
        /\ \A i \in 1..Len(Tail(queue[m])) :
              /\ Tail(queue[m])[i] # <<c, a>>
              /\ \E k \in 1..Len(queue[m]) : Tail(queue[m])[i] = queue[m][k]
    BY <1>1, <1>2, TailDistinct
  <1>4. queue' = [queue EXCEPT ![m] = Tail(queue[m])]
    BY DEF Take
  <1> HIDE DEF m
  <1>5. queue' \in [Locks -> Seq(Conns \X Acquisitions)]
    BY <1>1, <1>3, <1>4 DEF LockInv, TypeOK
  <1>6. \A l \in Locks : queue'[l] = IF l = m THEN Tail(queue[m]) ELSE queue[l]
    BY <1>4 DEF LockInv, TypeOK
  <1>7. QueueDistinct'
    BY <1>3, <1>6 DEF LockInv, QueueDistinct, Distinct
  <1>8. ASSUME NEW l \in Locks, NEW d \in Conns, NEW b \in Acquisitions,
               InQueue(l, <<d, b>>)'
        PROVE  InQueue(l, <<d, b>>) /\ <<d, b>> # <<c, a>>
    <2>1. CASE l = m
      <3>1. PICK i \in 1..Len(Tail(queue[m])) : Tail(queue[m])[i] = <<d, b>>
        BY <1>6, <1>8, <2>1 DEF InQueue
      <3> QED BY <1>3, <2>1, <3>1 DEF InQueue
    <2>2. CASE l # m
      <3>1. InQueue(l, <<d, b>>)
        BY <1>6, <1>8, <2>2 DEF InQueue
      <3> QED BY <3>1, <2>2 DEF LockInv, QueueSound, m
    <2> QED BY <2>1, <2>2
  <1> QED BY <1>5, <1>7, <1>8

\* A new request goes to the end of the queue it is for.
LEMMA JoinProperty ==
    ASSUME LockInv, NEW c \in Conns, NEW a \in Acquisitions, Join(c, a)
    PROVE  /\ queue' \in [Locks -> Seq(Conns \X Acquisitions)]
           /\ QueueDistinct'
           /\ \A l \in Locks, d \in Conns, b \in Acquisitions :
                 InQueue(l, <<d, b>>)' =>
                     \/ InQueue(l, <<d, b>>)
                     \/ <<d, b>> = <<c, a>> /\ l = LockOf(c, a)
  <1> DEFINE m == LockOf(c, a)
             s == Append(queue[m], <<c, a>>)
  <1>1. m \in Locks /\ queue[m] \in Seq(Conns \X Acquisitions) /\ Distinct(queue[m])
    BY LockOfType DEF Join, CanJoin, LockInv, TypeOK, QueueDistinct
  <1>2. \A i \in 1..Len(queue[m]) : queue[m][i] # <<c, a>>
    BY DEF Join, CanJoin, Queued, InQueue
  <1>3. /\ s \in Seq(Conns \X Acquisitions) /\ Distinct(s)
        /\ \A i \in 1..Len(s) :
              s[i] = <<c, a>> \/ \E k \in 1..Len(queue[m]) : s[i] = queue[m][k]
    <2>1. <<c, a>> \in Conns \X Acquisitions
      OBVIOUS
    <2> QED BY <1>1, <1>2, <2>1, AppendDistinct
  <1>4. queue' = [queue EXCEPT ![m] = s]
    BY DEF Join
  <1> HIDE DEF m, s
  <1>5. queue' \in [Locks -> Seq(Conns \X Acquisitions)]
    BY <1>1, <1>3, <1>4 DEF LockInv, TypeOK
  <1>6. \A l \in Locks : queue'[l] = IF l = m THEN s ELSE queue[l]
    BY <1>4 DEF LockInv, TypeOK
  <1>7. QueueDistinct'
    BY <1>3, <1>6 DEF LockInv, QueueDistinct, Distinct
  <1>8. ASSUME NEW l \in Locks, NEW d \in Conns, NEW b \in Acquisitions,
               InQueue(l, <<d, b>>)'
        PROVE  InQueue(l, <<d, b>>) \/ (<<d, b>> = <<c, a>> /\ l = m)
    <2>1. CASE l = m
      <3>1. PICK i \in 1..Len(s) : s[i] = <<d, b>>
        BY <1>6, <1>8, <2>1 DEF InQueue
      <3> QED BY <1>3, <2>1, <3>1 DEF InQueue
    <2>2. CASE l # m
      BY <1>6, <1>8, <2>2 DEF InQueue
    <2> QED BY <2>1, <2>2
  <1> QED BY <1>5, <1>7, <1>8 DEF m

\* A dropped await leaves no request behind.
LEMMA AbandonProperty ==
    ASSUME LockInv, NEW c \in Conns, NEW a \in Acquisitions, Abandon(c, a),
           LockOf(c, a) \in Locks
    PROVE  /\ queue' \in [Locks -> Seq(Conns \X Acquisitions)]
           /\ QueueDistinct'
           /\ \A l \in Locks, d \in Conns, b \in Acquisitions :
                 InQueue(l, <<d, b>>)' => InQueue(l, <<d, b>>) /\ <<d, b>> # <<c, a>>
  <1> DEFINE m == LockOf(c, a)
  <1>0. \A l \in Locks : InQueue(l, <<c, a>>) => l = m
    BY DEF LockInv, QueueSound
  <1>1. CASE ~Queued(c, a) /\ UNCHANGED queue
    <2>1. \A l \in Locks : ~InQueue(l, <<c, a>>)
      BY <1>0, <1>1 DEF Queued
    <2> QED BY <1>1, <2>1 DEF LockInv, TypeOK, QueueDistinct, InQueue
  <1>2. CASE Queued(c, a) /\ m \in Locks
             /\ \E i \in 1..Len(queue[m]) :
                   /\ queue[m][i] = <<c, a>>
                   /\ queue' = [queue EXCEPT ![m] = RemoveAt(@, i)]
    <2>1. PICK n \in 1..Len(queue[m]) :
                   /\ queue[m][n] = <<c, a>>
                   /\ queue' = [queue EXCEPT ![m] = RemoveAt(@, n)]
      BY <1>2
    <2> DEFINE s == RemoveAt(queue[m], n)
    <2>2. queue[m] \in Seq(Conns \X Acquisitions) /\ Distinct(queue[m])
      BY <1>2 DEF LockInv, TypeOK, QueueDistinct
    <2>3. /\ s \in Seq(Conns \X Acquisitions) /\ Distinct(s)
          /\ \A i \in 1..Len(s) :
                s[i] # <<c, a>> /\ \E k \in 1..Len(queue[m]) : s[i] = queue[m][k]
      <3> DEFINE q == queue[m]
                 T == Conns \X Acquisitions
      <3>1. q \in Seq(T) /\ Distinct(q) /\ n \in 1..Len(q)
        BY <2>2
      <3> HIDE DEF q, T
      <3>2. /\ RemoveAt(q, n) \in Seq(T) /\ Distinct(RemoveAt(q, n))
            /\ \A i \in 1..Len(RemoveAt(q, n)) :
                  /\ RemoveAt(q, n)[i] # q[n]
                  /\ \E k \in 1..Len(q) : RemoveAt(q, n)[i] = q[k]
        BY <3>1, RemoveAtDistinct
      <3> QED BY <2>1, <3>2 DEF q, T
    <2>4. queue' = [queue EXCEPT ![m] = s]
      BY <2>1
    <2> HIDE DEF m, s
    <2>5. queue' \in [Locks -> Seq(Conns \X Acquisitions)]
      BY <1>2, <2>3, <2>4 DEF LockInv, TypeOK
    <2>6. \A l \in Locks : queue'[l] = IF l = m THEN s ELSE queue[l]
      BY <2>4 DEF LockInv, TypeOK
    <2>7. QueueDistinct'
      BY <2>3, <2>6 DEF LockInv, QueueDistinct, Distinct
    <2>8. ASSUME NEW l \in Locks, NEW d \in Conns, NEW b \in Acquisitions,
                 InQueue(l, <<d, b>>)'
          PROVE  InQueue(l, <<d, b>>) /\ <<d, b>> # <<c, a>>
      <3>1. CASE l = m
        <4>1. PICK i \in 1..Len(s) : s[i] = <<d, b>>
          BY <2>6, <2>8, <3>1 DEF InQueue
        <4> QED BY <2>3, <3>1, <4>1 DEF InQueue
      <3>2. CASE l # m
        <4>1. InQueue(l, <<d, b>>)
          BY <2>6, <2>8, <3>2 DEF InQueue
        <4> QED BY <4>1, <3>2, <1>0
      <3> QED BY <3>1, <3>2
    <2> QED BY <2>5, <2>7, <2>8
  <1> QED BY <1>1, <1>2 DEF Abandon, Queued, InQueue
-----------------------------------------------------------------------------
\* At the start nobody is at a lock and all queues are empty.
LEMMA InitLockInv == Init => LockInv
  <1> SUFFICES ASSUME Init PROVE LockInv
    OBVIOUS
  <1>1. TypeOK
    <2>1. queue \in [Locks -> Seq(Conns \X Acquisitions)]
      BY DEF Init
    <2>2. NoMembers \in [Users -> Conns \cup {None}]
      BY DEF NoMembers
    <2> QED BY <2>1, <2>2 DEF Init, TypeOK, HandlerPcs, ReaderPcs
  <1>2. ReaderSpawned /\ NamesGiven
    BY DEF Init, ReaderSpawned, NamesGiven, Named
  <1>3. \A l \in Locks : Len(queue[l]) = 0
    BY DEF Init
  <1>4. QueueSound /\ QueueDistinct
    BY <1>3 DEF QueueSound, QueueDistinct, InQueue, Distinct
  <1> QED BY <1>1, <1>2, <1>4 DEF LockInv

\* A granted handler moves on, and with it the only request of its that was
\* queued; if it spawns a reader, there was none before.
LEMMA HandlerStep ==
    ASSUME LockInv, NEW c \in Conns, NEW a \in Acquisitions \ {"copyDb"},
           NEW to \in HandlerPcs \ {a}, Take(c, a), Goto(c, to),
           UNCHANGED <<sender, group>>,
           \/ UNCHANGED reader
           \/ reader[c] = "none" /\ reader' = [reader EXCEPT ![c] = "spawned"]
    PROVE  QueueSound' /\ QueueDistinct'
           /\ queue' \in [Locks -> Seq(Conns \X Acquisitions)]
  <1>1. /\ queue' \in [Locks -> Seq(Conns \X Acquisitions)]
        /\ QueueDistinct'
        /\ \A l \in Locks, d \in Conns, b \in Acquisitions :
              InQueue(l, <<d, b>>)' => InQueue(l, <<d, b>>) /\ <<d, b>> # <<c, a>>
    BY TakeProperty
  <1>2. pc[c] = a
    BY DEF Take, CanTake, At
  <1>3. ASSUME NEW l \in Locks, NEW d \in Conns, NEW b \in Acquisitions,
               InQueue(l, <<d, b>>)'
        PROVE  At(d, b)' /\ LockOf(d, b)' = l
    <2>1. At(d, b) /\ LockOf(d, b) = l /\ <<d, b>> # <<c, a>>
      BY <1>1, <1>3 DEF LockInv, QueueSound
    <2>2. At(d, b)'
      BY <1>2, <2>1 DEF LockInv, TypeOK, At, Goto
    <2> QED BY <2>1, <2>2 DEF LockOf
  <1> QED BY <1>1, <1>3 DEF QueueSound

\* A step that leaves the queues and the names alone keeps the requests sound
\* if every task that is at a lock stays there.
LEMMA QuietStep ==
    ASSUME LockInv, UNCHANGED queue,
           \A d \in Conns, b \in Acquisitions :
              At(d, b) => At(d, b)' /\ LockOf(d, b)' = LockOf(d, b)
    PROVE  QueueSound' /\ QueueDistinct'
  BY DEF LockInv, QueueSound, QueueDistinct, InQueue

\* Every step of the server preserves the lock invariant.
LEMMA NextLockInv == LockInv /\ [Next]_vars => LockInv'
  <1> SUFFICES ASSUME LockInv, [Next]_vars PROVE LockInv'
    OBVIOUS
  <1> USE DEF handshakes, tables
  <1>1. CASE EndRegistration
    <2>1. TypeOK' /\ ReaderSpawned' /\ NamesGiven'
      BY <1>1 DEF EndRegistration, LockInv, TypeOK, ReaderSpawned, NamesGiven,
                  Named, ReaderPcs
    <2>2. \A d \in Conns, b \in Acquisitions :
              At(d, b) => At(d, b)' /\ LockOf(d, b)' = LockOf(d, b)
      BY <1>1 DEF EndRegistration, At, LockOf
    <2> QED BY <1>1, <2>1, <2>2, QuietStep DEF EndRegistration, LockInv
  <1>2. ASSUME NEW c \in Conns, Accept(c) \/ HandshakeFails(c) PROVE LockInv'
    <2>1. TypeOK' /\ ReaderSpawned' /\ NamesGiven'
      BY <1>2 DEF Accept, HandshakeFails, Goto, LockInv, TypeOK, ReaderSpawned,
                  NamesGiven, Named, HandlerPcs
    <2>2. \A d \in Conns, b \in Acquisitions :
              At(d, b) => At(d, b)' /\ LockOf(d, b)' = LockOf(d, b)
      BY <1>2 DEF Accept, HandshakeFails, Goto, At, LockOf, LockInv, TypeOK,
                  Acquisitions, Reads, Writes
    <2> QED BY <1>2, <2>1, <2>2, QuietStep DEF Accept, HandshakeFails, LockInv
  <1>3. ASSUME NEW c \in Conns, NEW u \in Users, NEW g \in Groups,
               HandshakeRead(c, u, g)
        PROVE  LockInv'
    <2>1. TypeOK' /\ ReaderSpawned' /\ NamesGiven'
      BY <1>3 DEF HandshakeRead, Goto, LockInv, TypeOK, ReaderSpawned,
                  NamesGiven, Named, HandlerPcs, Acquisitions, Reads, Writes
    <2>2. \A d \in Conns, b \in Acquisitions : At(d, b) => d # c
      BY <1>3 DEF HandshakeRead, At, LockInv, ReaderSpawned, Acquisitions, Reads,
                  Writes
    <2>3. \A d \in Conns, b \in Acquisitions :
              At(d, b) => At(d, b)' /\ LockOf(d, b)' = LockOf(d, b)
      BY <1>3, <2>2 DEF HandshakeRead, Goto, At, LockOf, LockInv, TypeOK
    <2> QED BY <1>3, <2>1, <2>3, QuietStep DEF HandshakeRead, LockInv
  <1>4. ASSUME NEW c \in Conns, NEW a \in Acquisitions, Join(c, a) PROVE LockInv'
    <2>1. /\ queue' \in [Locks -> Seq(Conns \X Acquisitions)]
          /\ QueueDistinct'
          /\ \A l \in Locks, d \in Conns, b \in Acquisitions :
                InQueue(l, <<d, b>>)' =>
                    \/ InQueue(l, <<d, b>>)
                    \/ <<d, b>> = <<c, a>> /\ l = LockOf(c, a)
      BY <1>4, JoinProperty
    <2>2. TypeOK' /\ ReaderSpawned' /\ NamesGiven'
      BY <1>4, <2>1 DEF Join, LockInv, TypeOK, ReaderSpawned, NamesGiven, Named
    <2>3. QueueSound'
      <3> SUFFICES ASSUME NEW l \in Locks, NEW d \in Conns,
                          NEW b \in Acquisitions, InQueue(l, <<d, b>>)'
                   PROVE  At(d, b)' /\ LockOf(d, b)' = l
        BY DEF QueueSound
      <3>1. At(d, b) /\ LockOf(d, b) = l
        BY <1>4, <2>1 DEF LockInv, QueueSound, Join, CanJoin
      <3> QED BY <1>4, <3>1 DEF Join, At, LockOf
    <2> QED BY <2>1, <2>2, <2>3 DEF LockInv
  <1>5. ASSUME NEW c \in Conns, FindWriter(c) \/ FindGroup(c) PROVE LockInv'
    <2>1. PICK a \in {"findWriter", "findGroup"},
               to \in {"findDb", "findGroup", "failed", "joinGroup", "addGroup"} :
                  /\ Take(c, a) /\ Goto(c, to) /\ to # a
                  /\ UNCHANGED <<phase, handshakes, tables, slot, reader, db, atEnd>>
      BY <1>5 DEF FindWriter, FindGroup
    <2>2. /\ QueueSound' /\ QueueDistinct'
          /\ queue' \in [Locks -> Seq(Conns \X Acquisitions)]
      BY <2>1, HandlerStep DEF HandlerPcs, Acquisitions, Reads, Writes
    <2>3. pc[c] = a
      BY <2>1 DEF Take, CanTake, At
    <2>4. TypeOK'
      BY <2>1, <2>2 DEF LockInv, TypeOK, Goto, HandlerPcs, Acquisitions, Reads,
                        Writes
    <2>5. ReaderSpawned' /\ NamesGiven'
      BY <2>1, <2>3 DEF LockInv, TypeOK, Goto, ReaderSpawned, NamesGiven, Named
    <2> QED BY <2>2, <2>4, <2>5 DEF LockInv
  <1>6. ASSUME NEW c \in Conns, FindDb(c) PROVE LockInv'
    <2>1. pc[c] = "findDb" /\ Take(c, "findDb") /\ reader[c] = "none"
      BY <1>6 DEF FindDb, Take, CanTake, At, LockInv, ReaderSpawned
    <2>2. PICK to \in {"done", "panicked"} :
             /\ Goto(c, to)
             /\ \/ to = "done" /\ reader' = [reader EXCEPT ![c] = "spawned"]
                \/ to = "panicked" /\ UNCHANGED reader
      BY <1>6 DEF FindDb
    <2>3. /\ QueueSound' /\ QueueDistinct'
          /\ queue' \in [Locks -> Seq(Conns \X Acquisitions)]
      BY <1>6, <2>1, <2>2, HandlerStep DEF FindDb, HandlerPcs, Acquisitions, Reads,
                                           Writes
    <2>4. slot' \in [Conns -> Conns \cup {None}]
      BY <1>6 DEF FindDb, LockInv, TypeOK
    <2>5. TypeOK'
      BY <1>6, <2>2, <2>3, <2>4 DEF FindDb, LockInv, TypeOK, Goto, HandlerPcs,
                                    ReaderPcs
    <2>6. ReaderSpawned' /\ NamesGiven'
      BY <1>6, <2>1, <2>2 DEF FindDb, LockInv, TypeOK, Goto, ReaderSpawned,
                              NamesGiven, Named
    <2> QED BY <2>3, <2>5, <2>6 DEF LockInv
  <1>7. ASSUME NEW c \in Conns, AddGroup(c) PROVE LockInv'
    <2>1. pc[c] = "addGroup" /\ group[c] \in Groups
      BY <1>7 DEF AddGroup, Take, CanTake, At, LockInv, NamesGiven, Named
    <2>2. /\ QueueSound' /\ QueueDistinct'
          /\ queue' \in [Locks -> Seq(Conns \X Acquisitions)]
      BY <1>7, HandlerStep DEF AddGroup, HandlerPcs, Acquisitions, Reads, Writes
    <2>3. groupSnds' \in [Groups -> [Users -> Conns \cup {None}]]
          /\ sndDb' \in SUBSET Groups
      BY <1>7, <2>1 DEF AddGroup, LockInv, TypeOK, NoMembers
    <2>4. TypeOK'
      BY <1>7, <2>2, <2>3 DEF AddGroup, LockInv, TypeOK, Goto, HandlerPcs,
                              Acquisitions, Reads, Writes
    <2>5. ReaderSpawned' /\ NamesGiven'
      BY <1>7, <2>1 DEF AddGroup, LockInv, TypeOK, Goto, ReaderSpawned,
                        NamesGiven, Named
    <2> QED BY <2>2, <2>4, <2>5 DEF LockInv
  <1>8. ASSUME NEW c \in Conns, JoinGroup(c) \/ FillGroup(c) PROVE LockInv'
    <2>1. PICK a \in {"joinGroup", "fillGroup"} : InsertMember(c, a)
      BY <1>8 DEF JoinGroup, FillGroup
    <2>2. pc[c] = a /\ reader[c] = "none" /\ sender[c] \in Users /\ group[c] \in Groups
      BY <2>1 DEF InsertMember, Take, CanTake, At, LockInv, ReaderSpawned,
                  NamesGiven, Named
    <2>3. /\ QueueSound' /\ QueueDistinct'
          /\ queue' \in [Locks -> Seq(Conns \X Acquisitions)]
      BY <2>1, <2>2, HandlerStep DEF InsertMember, HandlerPcs, Acquisitions, Reads,
                                     Writes
    <2>4. groupSnds' \in [Groups -> [Users -> Conns \cup {None}]]
      BY <2>1, <2>2 DEF InsertMember, LockInv, TypeOK
    <2>5. TypeOK'
      BY <2>1, <2>3, <2>4 DEF InsertMember, LockInv, TypeOK, Goto, HandlerPcs,
                              ReaderPcs, Acquisitions, Reads, Writes
    <2>6. ReaderSpawned' /\ NamesGiven'
      BY <2>1, <2>2 DEF InsertMember, LockInv, TypeOK, Goto, ReaderSpawned,
                        NamesGiven, Named
    <2> QED BY <2>3, <2>5, <2>6 DEF LockInv
  <1>9. ASSUME NEW c \in Conns, AddWriter(c) PROVE LockInv'
    <2>1. pc[c] = "addWriter"
      BY <1>9 DEF AddWriter, Take, CanTake, At
    <2>2. /\ QueueSound' /\ QueueDistinct'
          /\ queue' \in [Locks -> Seq(Conns \X Acquisitions)]
      BY <1>9, HandlerStep DEF AddWriter, HandlerPcs, Acquisitions, Reads, Writes
    <2>3. TypeOK'
      BY <1>9, <2>2 DEF AddWriter, LockInv, TypeOK, Goto, HandlerPcs
    <2>4. ReaderSpawned' /\ NamesGiven'
      BY <1>9, <2>1 DEF AddWriter, LockInv, TypeOK, Goto, ReaderSpawned,
                        NamesGiven, Named
    <2> QED BY <2>2, <2>3, <2>4 DEF LockInv
  <1>10. ASSUME NEW c \in Conns, ReaderPoll(c) PROVE LockInv'
    <2>1. TypeOK' /\ ReaderSpawned' /\ NamesGiven'
      BY <1>10 DEF ReaderPoll, LockInv, TypeOK, ReaderSpawned, NamesGiven, Named,
                   ReaderPcs
    <2>2. \A d \in Conns, b \in Acquisitions :
              At(d, b) => At(d, b)' /\ LockOf(d, b)' = LockOf(d, b)
      BY <1>10 DEF ReaderPoll, At, LockOf, LockInv, TypeOK
    <2> QED BY <1>10, <2>1, <2>2, QuietStep DEF ReaderPoll, LockInv
  <1>11. ASSUME NEW c \in Conns, CopyDb(c) \/ ReaderStop(c) PROVE LockInv'
    <2>1. reader[c] # "none" /\ group[c] \in Groups
      BY <1>11 DEF CopyDb, Take, CanTake, At, ReaderStop, LockInv, ReaderSpawned,
                   NamesGiven, Named
    <2>2. /\ queue' \in [Locks -> Seq(Conns \X Acquisitions)]
          /\ QueueDistinct'
          /\ \A l \in Locks, d \in Conns, b \in Acquisitions :
                InQueue(l, <<d, b>>)' =>
                    InQueue(l, <<d, b>>) /\ <<d, b>> # <<c, "copyDb">>
      <3>1. "copyDb" \in Acquisitions /\ LockOf(c, "copyDb") \in Locks
        BY <2>1 DEF Acquisitions, Reads, LockOf, Locks
      <3>2. CASE CopyDb(c)
        BY <3>1, <3>2, TakeProperty DEF CopyDb
      <3>3. CASE ReaderStop(c)
        BY <3>1, <3>3, AbandonProperty DEF ReaderStop
      <3> QED BY <1>11, <3>2, <3>3
    <2>3. /\ UNCHANGED <<phase, pc, regPhase, sender, group, tables, slot, atEnd>>
          /\ \E to \in {"reading", "stopped"} : reader' = [reader EXCEPT ![c] = to]
      BY <1>11 DEF CopyDb, ReaderStop
    <2>4. db' \in [Conns -> [Users -> Conns \cup {None}]]
      BY <1>11, <2>1 DEF CopyDb, ReaderStop, LockInv, TypeOK
    <2>5. TypeOK' /\ ReaderSpawned' /\ NamesGiven'
      BY <2>1, <2>2, <2>3, <2>4 DEF LockInv, TypeOK, ReaderSpawned, NamesGiven,
                                    Named, ReaderPcs
    <2>6. QueueSound'
      <3> SUFFICES ASSUME NEW l \in Locks, NEW d \in Conns,
                          NEW b \in Acquisitions, InQueue(l, <<d, b>>)'
                   PROVE  At(d, b)' /\ LockOf(d, b)' = l
        BY DEF QueueSound
      <3>1. At(d, b) /\ LockOf(d, b) = l /\ <<d, b>> # <<c, "copyDb">>
        BY <2>2 DEF LockInv, QueueSound
      <3>2. At(d, b)'
        BY <2>3, <3>1 DEF LockInv, TypeOK, At
      <3> QED BY <2>3, <3>1, <3>2 DEF LockOf
    <2> QED BY <2>2, <2>5, <2>6 DEF LockInv
  <1>12. CASE UNCHANGED vars
    <2>1. TypeOK' /\ ReaderSpawned' /\ NamesGiven'
      BY <1>12 DEF vars, LockInv, TypeOK, ReaderSpawned, NamesGiven, Named
    <2>2. \A d \in Conns, b \in Acquisitions :
              At(d, b) => At(d, b)' /\ LockOf(d, b)' = LockOf(d, b)
      BY <1>12 DEF vars, At, LockOf
    <2> QED BY <1>12, <2>1, <2>2, QuietStep DEF vars, LockInv
  <1> QED BY <1>1, <1>2, <1>3, <1>4, <1>5, <1>6, <1>7, <1>8, <1>9, <1>10, <1>11,
             <1>12 DEF Next, Handle

\* The lock invariant holds in every reachable state.
LEMMA LocksAreSound == Spec => []LockInv
  BY InitLockInv, NextLockInv, PTL DEF Spec

\* Type correctness of the server's tables, tasks and queues.
THEOREM TypeCorrect == Spec => []TypeOK
  <1>1. LockInv => TypeOK
    BY DEF LockInv
  <1> QED BY LocksAreSound, <1>1, PTL
-----------------------------------------------------------------------------
\* The task whose request is first in the queue of a grantable lock can run:
\* no queue is headed by a request that nobody waits for any more.
LEMMA HeadCanTake ==
    ASSUME LockInv, NEW l \in Locks, Grantable(l)
    PROVE  \E c \in Conns, a \in Acquisitions : CanTake(c, a)
  <1>1. queue[l] \in Seq(Conns \X Acquisitions) /\ queue[l] # <<>>
    BY DEF LockInv, TypeOK, Grantable
  <1>2. /\ Head(queue[l]) \in Conns \X Acquisitions
        /\ Head(queue[l]) = queue[l][1] /\ 1 \in 1..Len(queue[l])
    BY <1>1, HeadTailProperties, EmptySeq
  <1>3. PICK c \in Conns, a \in Acquisitions : Head(queue[l]) = <<c, a>>
    BY <1>2
  <1>4. InQueue(l, <<c, a>>)
    BY <1>2, <1>3 DEF InQueue
  <1> QED BY <1>3, <1>4 DEF LockInv, QueueSound, CanTake

\* The lock order writer_db, snd_db, group table: if nobody can ask for a
\* lock, some lock at the end of the order has a request it can grant.
LEMMA LockInvNoDeadlock == LockInv => NoDeadlock
  <1> SUFFICES ASSUME LockInv,
                      NEW c0 \in Conns, NEW a0 \in Acquisitions, At(c0, a0),
                      \A c \in Conns, a \in Acquisitions : ~CanJoin(c, a)
               PROVE  \E c \in Conns, a \in Acquisitions : CanTake(c, a)
    BY DEF NoDeadlock
  <1>1. \A c \in Conns, a \in Acquisitions : At(c, a) =>
            LockOf(c, a) \in Locks /\ queue[LockOf(c, a)] # <<>>
    <2> SUFFICES ASSUME NEW c \in Conns, NEW a \in Acquisitions, At(c, a)
                 PROVE  LockOf(c, a) \in Locks /\ queue[LockOf(c, a)] # <<>>
      OBVIOUS
    <2>1. Queued(c, a)
      BY DEF CanJoin
    <2>2. queue[LockOf(c, a)] # <<>>
      BY <2>1 DEF Queued, InQueue
    <2> QED BY <2>2, LockOfType
  <1>2. CASE \E g \in Groups : queue[g] # <<>>
    BY <1>2, HeadCanTake, HandshakeAssumption DEF Grantable, ReadHeld, WriteHeld,
                                                  Locks
  <1>3. CASE (\A g \in Groups : queue[g] = <<>>) /\ queue[SDB] # <<>>
    <2>1. \A c \in Conns : pc[c] # "fillGroup"
      <3> SUFFICES ASSUME NEW c \in Conns, pc[c] = "fillGroup" PROVE FALSE
        OBVIOUS
      <3>1. At(c, "fillGroup") /\ "fillGroup" \in Acquisitions
        BY DEF At, Acquisitions, Writes
      <3>2. LockOf(c, "fillGroup") = group[c] /\ group[c] \in Groups
        BY DEF LockOf, LockInv, NamesGiven, Named
      <3> QED BY <1>1, <1>3, <3>1, <3>2
    <2>2. Grantable(SDB)
      BY <1>3, <2>1, HandshakeAssumption DEF Grantable, ReadHeld, WriteHeld
    <2> QED BY <2>2, HeadCanTake DEF Locks
  <1>4. CASE (\A g \in Groups : queue[g] = <<>>) /\ queue[SDB] = <<>>
    <2>1. \A c \in Conns : pc[c] # "findDb"
      <3> SUFFICES ASSUME NEW c \in Conns, pc[c] = "findDb" PROVE FALSE
        OBVIOUS
      <3>1. At(c, "findDb") /\ "findDb" \in Acquisitions /\ LockOf(c, "findDb") = SDB
        BY DEF At, Acquisitions, Reads, LockOf
      <3> QED BY <1>1, <1>4, <3>1
    <2>2. queue[WDB] # <<>>
      BY <1>1, <1>4 DEF Locks
    <2>3. Grantable(WDB)
      BY <2>1, <2>2, HandshakeAssumption DEF Grantable, ReadHeld, WriteHeld
    <2> QED BY <2>3, HeadCanTake DEF Locks
  <1> QED BY <1>2, <1>3, <1>4

\* The informal proof of mgen-server.rs made formal, for any number of
\* connections and groups and with readers that give up in a queue.
THEOREM DeadlockFree == Spec => []NoDeadlock
  BY LocksAreSound, LockInvNoDeadlock, PTL
-----------------------------------------------------------------------------
(***************************************************************************)
(* The tables.  A handler that is about to insert its channel knows that   *)
(* the table exists, one that is about to publish its Updater knows that   *)
(* its channel is in the table; a table that does not exist has no         *)
(* members, so creating it loses none.                                     *)
(***************************************************************************)
TableExists == \A c \in Conns :
    pc[c] \in {"joinGroup", "fillGroup", "addWriter"} => group[c] \in sndDb

ChannelInserted == \A c \in Conns :
    pc[c] = "addWriter" => groupSnds[group[c]][sender[c]] # None

NoTableNoMembers == \A g \in Groups, u \in Users :
    groupSnds[g][u] # None => g \in sndDb

MemberInv == TableExists /\ ChannelInserted /\ NoTableNoMembers /\ WriterHasChannel

\* The server starts with empty tables.
LEMMA InitMemberInv == Init => MemberInv
  BY DEF Init, MemberInv, TableExists, ChannelInserted, NoTableNoMembers,
     WriterHasChannel, NoMembers

\* Every step of the server keeps the tables consistent.
LEMMA NextMemberInv == LockInv /\ MemberInv /\ [Next]_vars => MemberInv'
  <1> SUFFICES ASSUME LockInv, MemberInv, [Next]_vars PROVE MemberInv'
    OBVIOUS
  <1> USE DEF MemberInv, TableExists, ChannelInserted, NoTableNoMembers,
          WriterHasChannel, LockInv, TypeOK, handshakes, tables, Goto
  <1>1. CASE EndRegistration
    BY <1>1 DEF EndRegistration
  <1>2. ASSUME NEW c \in Conns, Accept(c) \/ HandshakeFails(c) PROVE MemberInv'
    BY <1>2 DEF Accept, HandshakeFails
  <1>3. ASSUME NEW c \in Conns, NEW u \in Users, NEW g \in Groups,
               HandshakeRead(c, u, g)
        PROVE  MemberInv'
    BY <1>3 DEF HandshakeRead
  <1>4. ASSUME NEW c \in Conns, NEW a \in Acquisitions, Join(c, a) PROVE MemberInv'
    BY <1>4 DEF Join
  <1>5. ASSUME NEW c \in Conns, FindWriter(c) PROVE MemberInv'
    BY <1>5 DEF FindWriter
  <1>6. ASSUME NEW c \in Conns, FindDb(c) PROVE MemberInv'
    BY <1>6 DEF FindDb
  <1>7. ASSUME NEW c \in Conns, FindGroup(c) PROVE MemberInv'
    BY <1>7 DEF FindGroup
  <1>8. ASSUME NEW c \in Conns, AddGroup(c) PROVE MemberInv'
    <2>1. groupSnds' = groupSnds
      <3>1. CASE group[c] \in sndDb
        BY <1>8, <3>1 DEF AddGroup
      <3>2. CASE group[c] \notin sndDb
        <4>1. group[c] \in Groups
          BY <1>8 DEF AddGroup, Take, CanTake, At, NamesGiven, Named
        <4>2. groupSnds[group[c]] = NoMembers
          BY <3>2, <4>1 DEF NoMembers
        <4> QED BY <1>8, <3>2, <4>1, <4>2 DEF AddGroup
      <3> QED BY <3>1, <3>2
    <2> QED BY <1>8, <2>1 DEF AddGroup
  <1>9. ASSUME NEW c \in Conns, JoinGroup(c) \/ FillGroup(c) PROVE MemberInv'
    <2>1. PICK a \in {"joinGroup", "fillGroup"} : InsertMember(c, a)
      BY <1>9 DEF JoinGroup, FillGroup
    <2>2. pc[c] = a /\ sender[c] \in Users /\ group[c] \in Groups
      BY <2>1 DEF InsertMember, Take, CanTake, At, NamesGiven, Named
    <2>3. \A g \in Groups, u \in Users :
             groupSnds'[g][u] = IF g = group[c] /\ u = sender[c] THEN c
                                ELSE groupSnds[g][u]
      BY <2>1, <2>2 DEF InsertMember
    <2>4. NoTableNoMembers' /\ WriterHasChannel'
      BY <2>1, <2>2, <2>3, HandshakeAssumption DEF InsertMember
    <2>5. TableExists'
      BY <2>1, <2>2 DEF InsertMember
    <2>6. ChannelInserted'
      <3> SUFFICES ASSUME NEW d \in Conns, pc'[d] = "addWriter"
                   PROVE  groupSnds'[group[d]][sender[d]] # None
        BY <2>1 DEF InsertMember
      <3>1. sender[d] \in Users /\ group[d] \in Groups
        BY <2>1, <2>2 DEF InsertMember, NamesGiven, Named
      <3> QED BY <2>1, <2>3, <3>1, HandshakeAssumption DEF InsertMember
    <2> QED BY <2>4, <2>5, <2>6
  <1>10. ASSUME NEW c \in Conns, AddWriter(c) PROVE MemberInv'
    <2>1. pc[c] = "addWriter" /\ sender[c] \in Users /\ group[c] \in Groups
      BY <1>10 DEF AddWriter, Take, CanTake, At, NamesGiven, Named
    <2>2. WriterHasChannel'
      BY <1>10, <2>1 DEF AddWriter
    <2>3. TableExists' /\ ChannelInserted' /\ NoTableNoMembers'
      BY <1>10, <2>1 DEF AddWriter
    <2> QED BY <2>2, <2>3
  <1>11. ASSUME NEW c \in Conns, ReaderPoll(c) \/ CopyDb(c) \/ ReaderStop(c)
         PROVE  MemberInv'
    BY <1>11 DEF ReaderPoll, CopyDb, ReaderStop
  <1>12. CASE UNCHANGED vars
    BY <1>12 DEF vars
  <1> QED BY <1>1, <1>2, <1>3, <1>4, <1>5, <1>6, <1>7, <1>8, <1>9, <1>10, <1>11,
             <1>12 DEF Next, Handle

\* The tables are consistent in every reachable state.
LEMMA TablesAreConsistent == Spec => []MemberInv
  BY LocksAreSound, InitMemberInv, NextMemberInv, PTL DEF Spec

\* Whoever is found in writer_db can be sent to: the index of snd_db in a
\* reconnection never panics.
THEOREM WritersHaveChannels == Spec => []WriterHasChannel
  <1>1. MemberInv => WriterHasChannel
    BY DEF MemberInv
  <1> QED BY TablesAreConsistent, <1>1, PTL

\* No step removes a member from a table.
LEMMA MembersKeptStep ==
    ASSUME LockInv, MemberInv, [Next]_vars
    PROVE  \A g \in Groups, u \in Users :
              groupSnds[g][u] # None => groupSnds'[g][u] # None
  <1> USE DEF LockInv, TypeOK, handshakes, tables
  <1>1. ASSUME NEW c \in Conns, AddGroup(c) PROVE groupSnds' = groupSnds
    <2>1. CASE group[c] \in sndDb
      BY <1>1, <2>1 DEF AddGroup
    <2>2. CASE group[c] \notin sndDb
      <3>1. group[c] \in Groups
        BY <1>1 DEF AddGroup, Take, CanTake, At, NamesGiven, Named
      <3>2. groupSnds[group[c]] = NoMembers
        BY <2>2, <3>1 DEF NoMembers, MemberInv, NoTableNoMembers
      <3> QED BY <1>1, <2>2, <3>1, <3>2 DEF AddGroup
    <2> QED BY <2>1, <2>2
  <1>2. ASSUME NEW c \in Conns, NEW a \in Acquisitions \ {"copyDb"},
               InsertMember(c, a),
               NEW g \in Groups, NEW u \in Users, groupSnds[g][u] # None
        PROVE  groupSnds'[g][u] # None
    BY <1>2, HandshakeAssumption DEF InsertMember
  <1>3. ASSUME NEW c \in Conns, JoinGroup(c) \/ FillGroup(c),
               NEW g \in Groups, NEW u \in Users, groupSnds[g][u] # None
        PROVE  groupSnds'[g][u] # None
    BY <1>2, <1>3 DEF JoinGroup, FillGroup, Acquisitions, Writes
  <1>4. \/ \E c \in Conns : AddGroup(c) \/ JoinGroup(c) \/ FillGroup(c)
        \/ UNCHANGED groupSnds
    BY DEF Next, vars, Handle, EndRegistration, Accept, HandshakeFails,
       HandshakeRead, Join, FindWriter, FindDb, FindGroup, AddWriter, ReaderPoll,
       CopyDb, ReaderStop
  <1> QED BY <1>1, <1>3, <1>4

\* A member that was registered stays registered, whatever handlers race to
\* create its group.
THEOREM MembersKept == Spec => MembersAreKept
  <1>1. LockInv /\ MemberInv /\ [Next]_vars =>
            [\A g \in Groups, u \in Users :
                groupSnds[g][u] # None => groupSnds'[g][u] # None]_vars
    BY MembersKeptStep
  <1> QED BY LocksAreSound, TablesAreConsistent, <1>1, PTL DEF Spec, MembersAreKept
-----------------------------------------------------------------------------
(***************************************************************************)
(* The readers' copies.  A reader gets at the table only once registration *)
(* has ended, and the tables only grow after that.                         *)
(***************************************************************************)
ReadersWait == \A c \in Conns :
    reader[c] \in {"copyDb", "reading"} => phase = "reconnect"

EndIsCovered == \A g \in Groups, u \in Users :
    atEnd[g][u] # None => phase = "reconnect" /\ groupSnds[g][u] # None

CopyInv == ReadersWait /\ EndIsCovered /\ CopyIsComplete

\* Nobody reads at the start.
LEMMA InitCopyInv == Init => CopyInv
  BY DEF Init, CopyInv, ReadersWait, EndIsCovered, CopyIsComplete, NoMembers

\* Every step of the server keeps the copies complete.
LEMMA NextCopyInv == LockInv /\ MemberInv /\ CopyInv /\ [Next]_vars => CopyInv'
  <1> SUFFICES ASSUME LockInv, MemberInv, CopyInv, [Next]_vars PROVE CopyInv'
    OBVIOUS
  <1> USE DEF LockInv, TypeOK, handshakes, tables
  <1>1. CASE EndRegistration
    BY <1>1 DEF EndRegistration, CopyInv, ReadersWait, EndIsCovered, CopyIsComplete
  <1>2. CASE UNCHANGED <<phase, atEnd>>
    <2>1. EndIsCovered'
      BY <1>2, MembersKeptStep DEF CopyInv, EndIsCovered
    <2>2. ASSUME NEW c \in Conns, CopyDb(c) PROVE ReadersWait' /\ CopyIsComplete'
      <3>1. reader[c] = "copyDb" /\ group[c] \in Groups
        BY <2>2 DEF CopyDb, Take, CanTake, At, ReaderSpawned, NamesGiven, Named
      <3>2. ReadersWait'
        BY <2>2, <3>1 DEF CopyDb, CopyInv, ReadersWait
      <3>3. ASSUME NEW d \in Conns, reader'[d] = "reading", NEW u \in Users,
                   atEnd[group[d]][u] # None
            PROVE  db'[d][u] # None
        <4>1. CASE d = c
          BY <2>2, <3>1, <3>3, <4>1 DEF CopyDb, CopyInv, EndIsCovered
        <4>2. CASE d # c
          BY <2>2, <3>3, <4>2 DEF CopyDb, CopyInv, CopyIsComplete
        <4> QED BY <4>1, <4>2
      <3> QED BY <2>2, <3>2, <3>3 DEF CopyDb, CopyIsComplete
    <2>3. ASSUME NEW c \in Conns, NEW u \in Users, NEW g \in Groups,
                 HandshakeRead(c, u, g)
          PROVE  ReadersWait' /\ CopyIsComplete'
      <3>1. reader[c] = "none"
        BY <2>3 DEF HandshakeRead, ReaderSpawned
      <3> QED BY <2>3, <3>1 DEF HandshakeRead, CopyInv, ReadersWait, CopyIsComplete
    <2> DEFINE Other == /\ UNCHANGED <<group, db>>
                        /\ \A c \in Conns : reader'[c] # reader[c] =>
                              reader'[c] \notin {"copyDb", "reading"}
    <2>4. CASE Other
      BY <1>2, <2>1, <2>4 DEF CopyInv, ReadersWait, CopyIsComplete
    <2>5. \/ \E c \in Conns : CopyDb(c)
          \/ \E c \in Conns, u \in Users, g \in Groups : HandshakeRead(c, u, g)
          \/ Other
      <3>1. ~EndRegistration
        BY <1>2 DEF EndRegistration
      <3>2. ASSUME NEW c \in Conns, ReaderPoll(c) \/ ReaderStop(c) PROVE Other
        BY <3>2 DEF ReaderPoll, ReaderStop
      <3>3. ASSUME NEW c \in Conns, NEW a, InsertMember(c, a) PROVE Other
        BY <3>3 DEF InsertMember
      <3>4. ASSUME NEW c \in Conns, FindDb(c) PROVE Other
        BY <3>4 DEF FindDb
      <3>5. ASSUME NEW c \in Conns,
                   \/ Accept(c) \/ HandshakeFails(c) \/ FindWriter(c)
                   \/ FindGroup(c) \/ AddGroup(c) \/ AddWriter(c)
                   \/ \E a \in Acquisitions : Join(c, a)
            PROVE  Other
        BY <3>5 DEF Accept, HandshakeFails, FindWriter, FindGroup, AddGroup,
                    AddWriter, Join
      <3>6. CASE UNCHANGED vars
        BY <3>6 DEF vars
      <3> QED BY <3>1, <3>2, <3>3, <3>4, <3>5, <3>6 DEF Next, Handle, JoinGroup,
                 FillGroup
    <2> QED BY <2>1, <2>2, <2>3, <2>4, <2>5 DEF CopyInv
  <1> QED BY <1>1, <1>2 DEF Next, vars, Handle, Accept, HandshakeFails,
         HandshakeRead, Join, FindWriter, FindDb, FindGroup, AddGroup, JoinGroup,
         FillGroup, InsertMember, AddWriter, ReaderPoll, CopyDb, ReaderStop

\* The copies are complete in every reachable state.
LEMMA CopiesAreSound == Spec => []CopyInv
  BY LocksAreSound, TablesAreConsistent, InitCopyInv, NextCopyInv, PTL DEF Spec

\* A reader that reads delivers to everybody who was registered in time.
THEOREM CopiesAreComplete == Spec => []CopyIsComplete
  <1>1. CopyInv => CopyIsComplete
    BY DEF CopyInv
  <1> QED BY CopiesAreSound, <1>1, PTL
-----------------------------------------------------------------------------
(***************************************************************************)
(* Receipts.  A reader exists only for a registered pair, and it starts    *)
(* only if it was waiting, hence registered, when the phase ended.         *)
(***************************************************************************)
WriterFound == \A c \in Conns :
    pc[c] = "findDb" => writerDb[<<sender[c], group[c]>>] # None

ReaderRegistered == \A c \in Conns :
    reader[c] # "none" => groupSnds[group[c]][sender[c]] # None

StartedInTime == \A c \in Conns :
    reader[c] \in {"copyDb", "reading"} => atEnd[group[c]][sender[c]] # None

StartInv == WriterFound /\ ReaderRegistered /\ StartedInTime

\* There are no readers at the start.
LEMMA InitStartInv == Init => StartInv
  BY DEF Init, StartInv, WriterFound, ReaderRegistered, StartedInTime

\* Every step of the server keeps readers registered.
LEMMA NextStartInv == LockInv /\ MemberInv /\ StartInv /\ [Next]_vars => StartInv'
  <1> SUFFICES ASSUME LockInv, MemberInv, StartInv, [Next]_vars PROVE StartInv'
    OBVIOUS
  <1> USE DEF LockInv, TypeOK, handshakes, tables, Goto
  <1>0. \A c \in Conns : /\ reader[c] # "none" => sender[c] \in Users /\ group[c] \in Groups
                         /\ pc[c] = "findDb" => sender[c] \in Users /\ group[c] \in Groups
    BY DEF ReaderSpawned, NamesGiven, Named
  <1>1. CASE EndRegistration
    BY <1>0, <1>1 DEF EndRegistration, StartInv, WriterFound, ReaderRegistered, StartedInTime
  <1>2. ASSUME NEW c \in Conns, NEW u \in Users, NEW g \in Groups,
               HandshakeRead(c, u, g)
        PROVE  StartInv'
    <2>1. reader[c] = "none"
      BY <1>2 DEF HandshakeRead, ReaderSpawned
    <2> QED BY <1>2, <2>1 DEF HandshakeRead, StartInv, WriterFound, ReaderRegistered,
               StartedInTime
  <1>3. ASSUME NEW c \in Conns, FindWriter(c) PROVE StartInv'
    BY <1>3 DEF FindWriter, StartInv, WriterFound, ReaderRegistered, StartedInTime
  <1>4. ASSUME NEW c \in Conns, FindDb(c) PROVE StartInv'
    <2>1. pc[c] = "findDb" /\ sender[c] \in Users /\ group[c] \in Groups
      BY <1>0, <1>4 DEF FindDb, Take, CanTake, At
    <2>2. groupSnds[group[c]][sender[c]] # None
      BY <2>1 DEF StartInv, WriterFound, MemberInv, WriterHasChannel
    <2> QED BY <1>4, <2>1, <2>2 DEF FindDb, StartInv, WriterFound, ReaderRegistered,
               StartedInTime
  <1>5. ASSUME NEW c \in Conns, AddWriter(c) PROVE StartInv'
    <2>1. sender[c] \in Users /\ group[c] \in Groups
      BY <1>5 DEF AddWriter, Take, CanTake, At, NamesGiven, Named
    <2>2. \A k \in Users \X Groups : writerDb[k] # None => writerDb'[k] # None
      BY <1>5, <2>1, HandshakeAssumption DEF AddWriter
    <2>3. WriterFound'
      BY <1>0, <1>5, <2>2 DEF AddWriter, StartInv, WriterFound
    <2> QED BY <1>5, <2>3 DEF AddWriter, StartInv, ReaderRegistered, StartedInTime
  <1>6. ASSUME NEW c \in Conns, NEW a \in {"joinGroup", "fillGroup"},
               InsertMember(c, a)
        PROVE  StartInv'
    <2>1. pc[c] = a /\ sender[c] \in Users /\ group[c] \in Groups
      BY <1>6 DEF InsertMember, Take, CanTake, At, NamesGiven, Named
    <2>2. \A g \in Groups, u \in Users :
             groupSnds'[g][u] = IF g = group[c] /\ u = sender[c] THEN c
                                ELSE groupSnds[g][u]
      BY <1>6, <2>1 DEF InsertMember
    <2>3. ReaderRegistered'
      BY <1>0, <1>6, <2>1, <2>2, HandshakeAssumption DEF InsertMember, StartInv,
         ReaderRegistered
    <2> QED BY <1>6, <2>1, <2>3 DEF InsertMember, StartInv, WriterFound, StartedInTime
  <1>7. ASSUME NEW c \in Conns, CopyDb(c) \/ ReaderPoll(c) \/ ReaderStop(c)
        PROVE  StartInv'
    <2>1. reader[c] # "none"
      BY <1>7 DEF CopyDb, ReaderPoll, ReaderStop, Take, CanTake, At
    <2>2. reader'[c] \in {"copyDb", "reading"} => reader[c] \in {"copyDb", "reading"}
      BY <1>7 DEF CopyDb, ReaderPoll, ReaderStop, Take, CanTake, At
    <2>3. \A d \in Conns : d # c => reader'[d] = reader[d]
      BY <1>7 DEF CopyDb, ReaderPoll, ReaderStop
    <2>4. UNCHANGED <<pc, sender, group, writerDb, groupSnds, atEnd>>
      BY <1>7 DEF CopyDb, ReaderPoll, ReaderStop
    <2> QED BY <2>1, <2>2, <2>3, <2>4 DEF StartInv, WriterFound, ReaderRegistered,
               StartedInTime
  <1>8. ASSUME NEW c \in Conns, AddGroup(c) PROVE StartInv'
    <2>1. ReaderRegistered'
      BY <1>0, <1>8, MembersKeptStep DEF AddGroup, StartInv, ReaderRegistered
    <2> QED BY <1>8, <2>1 DEF AddGroup, StartInv, WriterFound, StartedInTime
  <1>9. ASSUME NEW c \in Conns,
               \/ Accept(c) \/ HandshakeFails(c) \/ FindGroup(c)
               \/ \E a \in Acquisitions : Join(c, a)
        PROVE  StartInv'
    BY <1>9 DEF Accept, HandshakeFails, FindGroup, Join, StartInv, WriterFound,
                ReaderRegistered, StartedInTime
  <1>10. CASE UNCHANGED vars
    BY <1>10 DEF vars, StartInv, WriterFound, ReaderRegistered, StartedInTime
  <1> QED BY <1>1, <1>2, <1>3, <1>4, <1>5, <1>6, <1>7, <1>8, <1>9, <1>10
          DEF Next, Handle, JoinGroup, FillGroup

\* Every member whose messages are forwarded can be sent its receipts by
\* every reader of its group, so the index in get_messages never panics.
THEOREM ReceiptsNeverPanic == Spec => []ReceiptsHaveChannel
  <1>1. Spec => []StartInv
    BY LocksAreSound, TablesAreConsistent, InitStartInv, NextStartInv, PTL DEF Spec
  <1>2. LockInv /\ CopyInv /\ StartInv => ReceiptsHaveChannel
    BY DEF LockInv, ReaderSpawned, NamesGiven, Named, CopyInv, CopyIsComplete,
       StartInv, StartedInTime, ReceiptsHaveChannel
  <1> QED BY LocksAreSound, CopiesAreSound, <1>1, <1>2, PTL
-----------------------------------------------------------------------------
(***************************************************************************)
(* Ownership.  Wherever a connection is recorded - in a table, in a        *)
(* reader's copy, in an Updater - its own handshake is the pair it is      *)
(* recorded for, and that handshake is final.                              *)
(***************************************************************************)
SamePair(c, d) == sender[d] = sender[c] /\ group[d] = group[c]

SlotsOwned == \A c \in Conns : slot[c] # None =>
    Named(c) /\ Named(slot[c]) /\ SamePair(c, slot[c])

\* Connection m was registered as user u of group g.
Registered(m, u, g) == m # None => sender[m] = u /\ group[m] = g /\ slot[m] # None

TablesOwned == \A u \in Users, g \in Groups :
    Registered(writerDb[<<u, g>>], u, g) /\ Registered(groupSnds[g][u], u, g)

CopiesOwned == \A c \in Conns, u \in Users :
    db[c][u] # None => Named(c) /\ Registered(db[c][u], u, group[c])

PublisherOwned == \A c \in Conns : pc[c] = "addWriter" => slot[c] # None

OwnerInv == SlotsOwned /\ TablesOwned /\ CopiesOwned /\ PublisherOwned

\* Nothing is recorded at the start.
LEMMA InitOwnerInv == Init => OwnerInv
  BY DEF Init, OwnerInv, SlotsOwned, TablesOwned, CopiesOwned, PublisherOwned,
     Registered, NoMembers

\* An entry of a table stays owned if what is known of connections is kept
\* and the entry is the old one, empty, or a connection known to be right.
LEMMA EntryOwned ==
    ASSUME NEW m \in Conns \cup {None}, NEW u \in Users, NEW g \in Groups,
           NEW n, Registered(m, u, g),
           Registered(m, u, g) => Registered(m, u, g)',
           n = m \/ n = None
    PROVE  n # None => sender'[n] = u /\ group'[n] = g /\ slot'[n] # None
  BY DEF Registered

\* The tables stay owned when entries are only emptied.
LEMMA TablesStayOwned ==
    ASSUME TypeOK, TablesOwned, UNCHANGED writerDb,
           \A m \in Conns \cup {None}, u \in Users, g \in Groups :
              Registered(m, u, g) => Registered(m, u, g)',
           \A u \in Users, g \in Groups :
              groupSnds'[g][u] = groupSnds[g][u] \/ groupSnds'[g][u] = None
    PROVE  TablesOwned'
  <1> SUFFICES ASSUME NEW u \in Users, NEW g \in Groups
               PROVE  /\ Registered(writerDb[<<u, g>>], u, g)'
                      /\ Registered(groupSnds[g][u], u, g)'
    BY DEF TablesOwned
  <1>1. /\ writerDb[<<u, g>>] \in Conns \cup {None}
        /\ groupSnds[g][u] \in Conns \cup {None}
    BY DEF TypeOK
  <1>2. Registered(writerDb[<<u, g>>], u, g) /\ Registered(groupSnds[g][u], u, g)
    BY DEF TablesOwned
  <1>3. Registered(writerDb[<<u, g>>], u, g)'
    <2>1. writerDb'[<<u, g>>] # None =>
             /\ sender'[writerDb'[<<u, g>>]] = u /\ group'[writerDb'[<<u, g>>]] = g
             /\ slot'[writerDb'[<<u, g>>]] # None
      BY <1>1, <1>2, EntryOwned
    <2> QED BY <2>1 DEF Registered
  <1>4. Registered(groupSnds[g][u], u, g)'
    <2>1. groupSnds'[g][u] # None =>
             /\ sender'[groupSnds'[g][u]] = u /\ group'[groupSnds'[g][u]] = g
             /\ slot'[groupSnds'[g][u]] # None
      BY <1>1, <1>2, EntryOwned
    <2> QED BY <2>1 DEF Registered
  <1> QED BY <1>3, <1>4

\* Every step of the server keeps connections where they belong.
LEMMA NextOwnerInv == LockInv /\ OwnerInv /\ [Next]_vars => OwnerInv'
  <1> SUFFICES ASSUME LockInv, OwnerInv, [Next]_vars PROVE OwnerInv'
    OBVIOUS
  <1> USE DEF LockInv, TypeOK, handshakes, tables, Goto
  <1>1. CASE EndRegistration
    BY <1>1 DEF EndRegistration, OwnerInv, SlotsOwned, TablesOwned, CopiesOwned,
       PublisherOwned, Registered, SamePair, Named
  <1>2. ASSUME NEW c \in Conns, Accept(c) \/ HandshakeFails(c) PROVE OwnerInv'
    BY <1>2 DEF Accept, HandshakeFails, OwnerInv, SlotsOwned, TablesOwned,
       CopiesOwned, PublisherOwned, Registered, SamePair, Named
  <1>3. ASSUME NEW c \in Conns, NEW v \in Users, NEW h \in Groups,
               HandshakeRead(c, v, h)
        PROVE  OwnerInv'
    <2>1. ~Named(c) /\ slot[c] = None /\ \A d \in Conns : slot[d] # c
      BY <1>3, HandshakeAssumption DEF HandshakeRead, OwnerInv, SlotsOwned, Named
    <2>2. \A d \in Conns : d # c =>
             sender'[d] = sender[d] /\ group'[d] = group[d] /\ pc'[d] = pc[d]
      BY <1>3 DEF HandshakeRead
    <2>3. SlotsOwned'
      BY <1>3, <2>1, <2>2, HandshakeAssumption DEF HandshakeRead, OwnerInv,
         SlotsOwned, SamePair, Named
    <2>4. TablesOwned'
      <3>1. \A m \in Conns \cup {None}, u \in Users, g \in Groups :
               Registered(m, u, g) => Registered(m, u, g)'
        BY <1>3, <2>1, <2>2 DEF HandshakeRead, Registered
      <3>2. UNCHANGED <<writerDb, groupSnds>>
        BY <1>3 DEF HandshakeRead
      <3> QED BY <3>1, <3>2, TablesStayOwned DEF OwnerInv
    <2>5. CopiesOwned'
      <3> SUFFICES ASSUME NEW d \in Conns, NEW u \in Users, db[d][u] # None
                   PROVE  (Named(d) /\ Registered(db[d][u], u, group[d]))'
        BY <1>3 DEF HandshakeRead, CopiesOwned
      <3>1. Named(d) /\ Registered(db[d][u], u, group[d]) /\ d # c
        BY <2>1 DEF OwnerInv, CopiesOwned
      <3>2. db[d][u] \in Conns /\ db[d][u] # c
        BY <2>1, <3>1 DEF Registered
      <3> QED BY <1>3, <2>2, <3>1, <3>2 DEF HandshakeRead, Registered, Named
    <2>6. PublisherOwned'
      BY <1>3, <2>2 DEF HandshakeRead, OwnerInv, PublisherOwned
    <2> QED BY <2>3, <2>4, <2>5, <2>6 DEF OwnerInv
  <1>4. ASSUME NEW c \in Conns, NEW a \in Acquisitions, Join(c, a) PROVE OwnerInv'
    BY <1>4 DEF Join, OwnerInv, SlotsOwned, TablesOwned, CopiesOwned,
       PublisherOwned, Registered, SamePair, Named
  <1>5. ASSUME NEW c \in Conns, FindWriter(c) PROVE OwnerInv'
    BY <1>5 DEF FindWriter, OwnerInv, SlotsOwned, TablesOwned, CopiesOwned,
       PublisherOwned, Registered, SamePair, Named
  <1>6. ASSUME NEW c \in Conns, FindGroup(c) \/ AddGroup(c) PROVE OwnerInv'
    <2>1. /\ UNCHANGED <<sender, group, writerDb, slot, db>>
          /\ \E to \in {"joinGroup", "addGroup", "fillGroup"} :
                pc' = [pc EXCEPT ![c] = to]
      BY <1>6 DEF FindGroup, AddGroup
    <2>2. \A u \in Users, g \in Groups :
             groupSnds'[g][u] = groupSnds[g][u] \/ groupSnds'[g][u] = None
      BY <1>6 DEF FindGroup, AddGroup, NoMembers
    <2>3. TablesOwned'
      <3>1. \A m \in Conns \cup {None}, u \in Users, g \in Groups :
               Registered(m, u, g) => Registered(m, u, g)'
        BY <2>1 DEF Registered
      <3> QED BY <2>1, <2>2, <3>1, TablesStayOwned DEF OwnerInv
    <2>4. SlotsOwned' /\ CopiesOwned' /\ PublisherOwned'
      BY <2>1 DEF OwnerInv, SlotsOwned, CopiesOwned, PublisherOwned, Registered,
                  SamePair, Named
    <2> QED BY <2>3, <2>4 DEF OwnerInv
  <1>7. ASSUME NEW c \in Conns, FindDb(c) PROVE OwnerInv'
    <2> DEFINE w == writerDb[<<sender[c], group[c]>>]
    <2>1. pc[c] = "findDb" /\ sender[c] \in Users /\ group[c] \in Groups
      BY <1>7 DEF FindDb, Take, CanTake, At, NamesGiven, Named
    <2>2. w \in Conns \cup {None} /\ Registered(w, sender[c], group[c])
      BY <2>1 DEF OwnerInv, TablesOwned
    <2> HIDE DEF w
    <2>3. /\ UNCHANGED <<sender, group, writerDb, groupSnds, db>>
          /\ \E to \in {"done", "panicked"} : pc' = [pc EXCEPT ![c] = to]
          /\ UNCHANGED slot \/ slot' = [slot EXCEPT ![w] = c]
      BY <1>7 DEF FindDb, w
    <2>4. \A d \in Conns : /\ Named(d) => Named(d)'
                           /\ slot[d] # None => slot'[d] # None
      BY <2>3, HandshakeAssumption DEF Named
    <2>5. Named(c)' /\ Named(c)
      BY <2>1, <2>3 DEF Named
    <2>6. SlotsOwned'
      <3> SUFFICES ASSUME NEW d \in Conns, slot'[d] # None
                   PROVE  Named(d)' /\ (Named(slot[d]) /\ SamePair(d, slot[d]))'
        BY DEF SlotsOwned
      <3>1. CASE slot'[d] = slot[d]
        BY <2>3, <2>4, <3>1 DEF OwnerInv, SlotsOwned, SamePair, Named
      <3>2. CASE slot'[d] # slot[d]
        <4>1. d = w /\ slot'[d] = c
          BY <2>3, <3>2
        <4>2. w # None /\ sender[w] = sender[c] /\ group[w] = group[c]
              /\ slot[w] # None
          BY <2>2, <4>1, HandshakeAssumption DEF Registered
        <4>3. Named(d)
          BY <4>1, <4>2 DEF OwnerInv, SlotsOwned
        <4> QED BY <2>3, <2>4, <2>5, <4>1, <4>2, <4>3 DEF SamePair, Named
      <3> QED BY <3>1, <3>2
    <2>7. TablesOwned'
      <3>1. \A m \in Conns \cup {None}, u \in Users, g \in Groups :
               Registered(m, u, g) => Registered(m, u, g)'
        BY <2>3, <2>4 DEF Registered
      <3> QED BY <2>3, <3>1, TablesStayOwned DEF OwnerInv
    <2>8. CopiesOwned'
      <3> SUFFICES ASSUME NEW d \in Conns, NEW u \in Users, db[d][u] # None
                   PROVE  (Named(d) /\ Registered(db[d][u], u, group[d]))'
        BY <2>3 DEF CopiesOwned
      <3>1. Named(d) /\ Registered(db[d][u], u, group[d]) /\ db[d][u] \in Conns
        BY DEF OwnerInv, CopiesOwned
      <3> QED BY <2>3, <2>4, <3>1 DEF Registered
    <2>9. PublisherOwned'
      BY <2>3, <2>4 DEF OwnerInv, PublisherOwned
    <2> QED BY <2>6, <2>7, <2>8, <2>9 DEF OwnerInv
  <1>8. ASSUME NEW c \in Conns, JoinGroup(c) \/ FillGroup(c) PROVE OwnerInv'
    <2>1. PICK a \in {"joinGroup", "fillGroup"} : InsertMember(c, a)
      BY <1>8 DEF JoinGroup, FillGroup
    <2>2. pc[c] = a /\ sender[c] \in Users /\ group[c] \in Groups
      BY <2>1 DEF InsertMember, Take, CanTake, At, NamesGiven, Named
    <2>3. /\ UNCHANGED <<sender, group, writerDb, db>>
          /\ pc' = [pc EXCEPT ![c] = "addWriter"]
          /\ slot' = [slot EXCEPT ![c] = c]
          /\ groupSnds' = [groupSnds EXCEPT ![group[c]][sender[c]] = c]
      BY <2>1 DEF InsertMember
    <2>4. \A d \in Conns : /\ Named(d) => Named(d)'
                           /\ slot[d] # None => slot'[d] # None
      BY <2>3, HandshakeAssumption DEF Named
    <2>5. SlotsOwned'
      BY <2>2, <2>3, <2>4 DEF OwnerInv, SlotsOwned, SamePair, Named
    <2>6. \A m \in Conns \cup {None}, u \in Users, g \in Groups :
             Registered(m, u, g) => Registered(m, u, g)'
      BY <2>3, <2>4 DEF Registered
    <2>7. Registered(c, sender[c], group[c])'
      BY <2>3, HandshakeAssumption DEF Registered
    <2>8. TablesOwned'
      <3> SUFFICES ASSUME NEW u \in Users, NEW g \in Groups
                   PROVE  /\ Registered(writerDb[<<u, g>>], u, g)'
                          /\ Registered(groupSnds[g][u], u, g)'
        BY DEF TablesOwned
      <3>1. writerDb[<<u, g>>] \in Conns \cup {None}
            /\ groupSnds[g][u] \in Conns \cup {None}
        OBVIOUS
      <3>2. Registered(writerDb[<<u, g>>], u, g)'
        BY <2>3, <2>6, <3>1 DEF OwnerInv, TablesOwned, Registered
      <3>3. CASE g = group[c] /\ u = sender[c]
        <4>1. groupSnds'[g][u] = c
          BY <2>2, <2>3, <3>3
        <4> QED BY <2>3, <2>7, <3>2, <3>3, <4>1 DEF Registered
      <3>4. CASE ~(g = group[c] /\ u = sender[c])
        <4>1. groupSnds'[g][u] = groupSnds[g][u]
          BY <2>2, <2>3, <3>4
        <4> QED BY <2>6, <3>1, <3>2, <4>1 DEF OwnerInv, TablesOwned, Registered
      <3> QED BY <3>3, <3>4
    <2>9. CopiesOwned'
      <3> SUFFICES ASSUME NEW d \in Conns, NEW u \in Users, db[d][u] # None
                   PROVE  (Named(d) /\ Registered(db[d][u], u, group[d]))'
        BY <2>3 DEF CopiesOwned
      <3>1. Named(d) /\ Registered(db[d][u], u, group[d]) /\ db[d][u] \in Conns
        BY DEF OwnerInv, CopiesOwned
      <3> QED BY <2>3, <2>4, <3>1 DEF Registered
    <2>10. PublisherOwned'
      BY <2>3, <2>4, HandshakeAssumption DEF OwnerInv, PublisherOwned
    <2> QED BY <2>5, <2>8, <2>9, <2>10 DEF OwnerInv
  <1>9. ASSUME NEW c \in Conns, AddWriter(c) PROVE OwnerInv'
    <2>1. pc[c] = "addWriter" /\ sender[c] \in Users /\ group[c] \in Groups
      BY <1>9 DEF AddWriter, Take, CanTake, At, NamesGiven, Named
    <2>2. TablesOwned'
      <3> SUFFICES ASSUME NEW u \in Users, NEW g \in Groups
                   PROVE  /\ Registered(writerDb[<<u, g>>], u, g)'
                          /\ Registered(groupSnds[g][u], u, g)'
        BY DEF TablesOwned
      <3>1. /\ UNCHANGED <<sender, group, slot, groupSnds>>
            /\ writerDb' = [writerDb EXCEPT ![<<sender[c], group[c]>>] = c]
        BY <1>9 DEF AddWriter
      <3>2. Registered(writerDb[<<u, g>>], u, g) /\ Registered(groupSnds[g][u], u, g)
        BY DEF OwnerInv, TablesOwned
      <3>3. CASE u = sender[c] /\ g = group[c]
        <4>1. writerDb'[<<u, g>>] = c /\ slot[c] # None
          BY <2>1, <3>1, <3>3 DEF OwnerInv, PublisherOwned
        <4> QED BY <3>1, <3>2, <3>3, <4>1 DEF Registered
      <3>4. CASE ~(u = sender[c] /\ g = group[c])
        <4>1. writerDb'[<<u, g>>] = writerDb[<<u, g>>]
          BY <2>1, <3>1, <3>4
        <4> QED BY <3>1, <3>2, <4>1 DEF Registered
      <3> QED BY <3>3, <3>4
    <2>3. SlotsOwned' /\ CopiesOwned' /\ PublisherOwned'
      BY <1>9 DEF AddWriter, OwnerInv, SlotsOwned, CopiesOwned, PublisherOwned,
                  Registered, SamePair, Named
    <2> QED BY <2>2, <2>3 DEF OwnerInv
  <1>10. ASSUME NEW c \in Conns, ReaderPoll(c) \/ ReaderStop(c) PROVE OwnerInv'
    BY <1>10 DEF ReaderPoll, ReaderStop, OwnerInv, SlotsOwned, TablesOwned,
       CopiesOwned, PublisherOwned, Registered, SamePair, Named
  <1>11. ASSUME NEW c \in Conns, CopyDb(c) PROVE OwnerInv'
    <2>1. group[c] \in Groups /\ Named(c)
      BY <1>11 DEF CopyDb, Take, CanTake, At, ReaderSpawned, NamesGiven, Named
    <2>2. /\ UNCHANGED <<pc, sender, group, writerDb, groupSnds, slot>>
          /\ db' = [db EXCEPT ![c] = groupSnds[group[c]]]
      BY <1>11 DEF CopyDb
    <2>3. CopiesOwned'
      <3> SUFFICES ASSUME NEW d \in Conns, NEW u \in Users, db'[d][u] # None
                   PROVE  (Named(d) /\ Registered(db[d][u], u, group[d]))'
        BY DEF CopiesOwned
      <3>1. CASE d = c
        <4>1. db'[d][u] = groupSnds[group[c]][u]
          BY <2>1, <2>2, <3>1
        <4>2. Registered(groupSnds[group[c]][u], u, group[c])
          BY <2>1 DEF OwnerInv, TablesOwned
        <4> QED BY <2>1, <2>2, <3>1, <4>1, <4>2 DEF Registered, Named
      <3>2. CASE d # c
        <4>1. db'[d][u] = db[d][u]
          BY <2>2, <3>2
        <4> QED BY <2>2, <4>1 DEF OwnerInv, CopiesOwned, Registered, Named
      <3> QED BY <3>1, <3>2
    <2>4. SlotsOwned' /\ TablesOwned' /\ PublisherOwned'
      BY <2>2 DEF OwnerInv, SlotsOwned, TablesOwned, PublisherOwned, Registered,
                  SamePair, Named
    <2> QED BY <2>3, <2>4 DEF OwnerInv
  <1>12. CASE UNCHANGED vars
    BY <1>12 DEF vars, OwnerInv, SlotsOwned, TablesOwned, CopiesOwned,
       PublisherOwned, Registered, SamePair, Named
  <1> QED BY <1>1, <1>2, <1>3, <1>4, <1>5, <1>6, <1>7, <1>8, <1>9, <1>10, <1>11,
             <1>12 DEF Next, Handle

\* Messages for a member are only ever written to sockets of that member.
THEOREM MembersGetTheirMessages == Spec => []ChannelsLeadToMembers
  <1>1. Spec => []OwnerInv
    BY LocksAreSound, InitOwnerInv, NextOwnerInv, PTL DEF Spec
  <1>2. LockInv /\ OwnerInv => ChannelsLeadToMembers
    <2> SUFFICES ASSUME LockInv, OwnerInv PROVE ChannelsLeadToMembers
      OBVIOUS
    <2>1. ASSUME NEW m \in Conns \cup {None}, NEW u, NEW g, Registered(m, u, g)
          PROVE  LeadsTo(m, u, g)
      BY <2>1 DEF OwnerInv, SlotsOwned, SamePair, Registered, LeadsTo
    <2>2. ASSUME NEW u \in Users, NEW g \in Groups
          PROVE  LeadsTo(groupSnds[g][u], u, g)
      <3>1. groupSnds[g][u] \in Conns \cup {None}
        BY DEF LockInv, TypeOK
      <3>2. Registered(groupSnds[g][u], u, g)
        BY DEF OwnerInv, TablesOwned
      <3> QED BY <2>1, <3>1, <3>2
    <2>3. ASSUME NEW c \in Conns, NEW u \in Users
          PROVE  LeadsTo(db[c][u], u, group[c])
      <3>1. CASE db[c][u] = None
        BY <3>1 DEF LeadsTo
      <3>2. CASE db[c][u] # None
        <4>1. db[c][u] \in Conns \cup {None} /\ Registered(db[c][u], u, group[c])
          BY <3>2 DEF LockInv, TypeOK, OwnerInv, CopiesOwned
        <4> QED BY <2>1, <4>1
      <3> QED BY <3>1, <3>2
    <2> QED BY <2>2, <2>3 DEF ChannelsLeadToMembers
  <1> QED BY <1>1, <1>2, LocksAreSound, PTL
=============================================================================
