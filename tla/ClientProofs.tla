---------------------------- MODULE ClientProofs ----------------------------
(***************************************************************************)
(* However often connections break, and whichever half notices first,      *)
(* neither half of the client is left without a socket for good, and no    *)
(* connection that breaks costs more than two new ones.  With the server's *)
(* writer beside it (ClientServer), a connection that works is not lost on *)
(* the way to that writer unless handlers overtake each other.             *)
(***************************************************************************)
EXTENDS ClientServer, FiniteSetTheorems, TLAPS

\* Between the two Updaters the reader has already been served.
ReaderFirst ==
    updater = "giveWriter" =>
        /\ conn # 0
        /\ reader = 0 => rdSlot # 0 \/ errors # <<>>

IInv == TypeOK /\ HalvesAreServed /\ ReaderFirst

\* Nobody has a socket at the start, but one is being made.
LEMMA InitIInv == Init => IInv
  BY DEF Init, IInv, TypeOK, HalvesAreServed, ReaderFirst, Reconnecting

\* Every step of the three tasks keeps the invariant.
LEMMA NextIInv == IInv /\ [Next]_vars => IInv'
  <1> SUFFICES ASSUME IInv, [Next]_vars PROVE IInv'
    OBVIOUS
  <1> USE DEF IInv, TypeOK, HalvesAreServed, ReaderFirst, Reconnecting, halves, messages
  <1>1. CASE Connect
    BY <1>1 DEF Connect
  <1>2. CASE ConnectFails \/ Retry
    BY <1>2 DEF ConnectFails, Retry
  <1>3. CASE GiveWriter
    BY <1>3 DEF GiveWriter
  <1>4. CASE HandleError
    BY <1>4 DEF HandleError
  <1>5. CASE ReaderTake \/ WriterTake
    BY <1>5 DEF ReaderTake, WriterTake
  <1>6. ASSUME NEW e \in {"Recoverable", "Fatal"}, ReaderFails(e) PROVE IInv'
    BY <1>6 DEF ReaderFails
  <1>7. CASE Write \/ StateSends
    <2>1. queue' \in Nat /\ handed' \in Nat
      BY <1>7 DEF Write, StateSends
    <2>2. UNCHANGED <<updater, conn, broken, rdSlot, wrSlot, reader, writer, errors>>
      BY <1>7 DEF Write, StateSends
    <2> QED BY <2>1, <2>2
  <1>8. CASE WriteFails
    BY <1>8 DEF WriteFails
  <1>9. ASSUME NEW k \in 1..conn, Break(k) PROVE IInv'
    BY <1>9 DEF Break
  <1>10. CASE UNCHANGED vars
    BY <1>10 DEF vars
  <1> QED BY <1>1, <1>2, <1>3, <1>4, <1>5, <1>6, <1>7, <1>8, <1>9, <1>10 DEF Next

\* The invariant holds in every reachable state.
LEMMA ClientIsSound == Spec => []IInv
  BY InitIInv, NextIInv, PTL DEF Spec

\* The halves of the client only ever hold connections that were made.
THEOREM TypeCorrect == Spec => []TypeOK
  <1>1. IInv => TypeOK
    BY DEF IInv
  <1> QED BY ClientIsSound, <1>1, PTL

\* A half without a socket has one waiting, or on its way.
THEOREM NoHalfForgotten == Spec => []HalvesAreServed
  <1>1. IInv => HalvesAreServed
    BY DEF IInv
  <1> QED BY ClientIsSound, <1>1, PTL
-----------------------------------------------------------------------------
(***************************************************************************)
(* Reconnections are paid for.  A connection that broke pays for one new   *)
(* connection when the reader has left it, and for one more when the       *)
(* writer has; each error still in the channel is a connection to come.    *)
(***************************************************************************)
ReaderLeft == {k \in broken : k \notin {rdSlot, reader}}
WriterLeft ==
    {k \in broken : k \notin {wrSlot, writer} /\ ~(updater = "giveWriter" /\ k = conn)}
Paid == 1 + Cardinality(ReaderLeft) + Cardinality(WriterLeft)
Making == IF updater \in {"connect", "retry"} THEN 1 ELSE 0

\* A fatal error ends socket_updater: what is queued behind one costs nothing.
Budget ==
    /\ conn + Making <= Paid
    /\ updater # "fatal" =>
          \A n \in 0..Len(errors) :
             (\A i \in 1..n : errors[i] = "Recoverable") => conn + n + Making <= Paid

\* The two halves of one connection are given out once each.
GivenOnce ==
    /\ rdSlot # 0 => reader # rdSlot
    /\ wrSlot # 0 => writer # wrSlot
    /\ updater = "giveWriter" => wrSlot # conn /\ writer # conn

BInv == IInv /\ GivenOnce /\ Budget

\* A set of connections that broke is finite, and no larger than all of them.
LEMMA LeftFinite ==
  ASSUME NEW n \in Nat, NEW B \in SUBSET (1..n), NEW S \in SUBSET B
  PROVE  /\ IsFiniteSet(S) /\ Cardinality(S) \in Nat /\ Cardinality(B) \in Nat
         /\ Cardinality(S) <= Cardinality(B)
  <1>1. IsFiniteSet(1..n)
    BY FS_Interval
  <1>2. IsFiniteSet(B)
    BY <1>1, FS_Subset
  <1> QED BY <1>2, FS_Subset, FS_CardinalityType

\* More connections left, more paid.
LEMMA PaidGrows ==
  ASSUME TypeOK, TypeOK',
         ReaderLeft \subseteq ReaderLeft', WriterLeft \subseteq WriterLeft'
  PROVE  Paid \in Nat /\ Paid' \in Nat /\ Paid <= Paid'
  <1>1. /\ conn \in Nat /\ broken \in SUBSET (1..conn)
        /\ conn' \in Nat /\ broken' \in SUBSET (1..conn')
    BY DEF TypeOK
  <1>2. /\ ReaderLeft \in SUBSET broken /\ WriterLeft \in SUBSET broken
        /\ ReaderLeft' \in SUBSET broken' /\ WriterLeft' \in SUBSET broken'
    BY DEF ReaderLeft, WriterLeft
  <1>3. /\ IsFiniteSet(ReaderLeft') /\ IsFiniteSet(WriterLeft')
        /\ Cardinality(ReaderLeft') \in Nat /\ Cardinality(WriterLeft') \in Nat
    BY <1>1, <1>2, LeftFinite
  <1>4. Cardinality(ReaderLeft) \in Nat /\ Cardinality(WriterLeft) \in Nat
    BY <1>1, <1>2, LeftFinite
  <1>5. Cardinality(ReaderLeft) <= Cardinality(ReaderLeft')
    BY <1>3, FS_Subset
  <1>6. Cardinality(WriterLeft) <= Cardinality(WriterLeft')
    BY <1>3, FS_Subset
  <1> QED BY <1>3, <1>4, <1>5, <1>6 DEF Paid

\* A half that fails leaves a connection that had not been left by it.
LEMMA PaidMore ==
  ASSUME TypeOK, NEW k,
         \/ /\ k \notin ReaderLeft /\ ReaderLeft' = ReaderLeft \cup {k}
            /\ WriterLeft' = WriterLeft
         \/ /\ k \notin WriterLeft /\ WriterLeft' = WriterLeft \cup {k}
            /\ ReaderLeft' = ReaderLeft
  PROVE  Paid \in Nat /\ Paid' = Paid + 1
  <1>1. conn \in Nat /\ broken \in SUBSET (1..conn)
    BY DEF TypeOK
  <1>2. ReaderLeft \in SUBSET broken /\ WriterLeft \in SUBSET broken
    BY DEF ReaderLeft, WriterLeft
  <1>3. /\ IsFiniteSet(ReaderLeft) /\ IsFiniteSet(WriterLeft)
        /\ Cardinality(ReaderLeft) \in Nat /\ Cardinality(WriterLeft) \in Nat
    BY <1>1, <1>2, LeftFinite
  <1>4. Paid' = 1 + Cardinality(ReaderLeft') + Cardinality(WriterLeft')
    BY DEF Paid
  <1>5. CASE k \notin ReaderLeft /\ ReaderLeft' = ReaderLeft \cup {k} /\ WriterLeft' = WriterLeft
    <2>1. Cardinality(ReaderLeft') = Cardinality(ReaderLeft) + 1
      BY <1>3, <1>5, FS_AddElement
    <2> QED BY <1>3, <1>4, <1>5, <2>1 DEF Paid
  <1>6. CASE k \notin WriterLeft /\ WriterLeft' = WriterLeft \cup {k} /\ ReaderLeft' = ReaderLeft
    <2>1. Cardinality(WriterLeft') = Cardinality(WriterLeft) + 1
      BY <1>3, <1>6, FS_AddElement
    <2> QED BY <1>3, <1>4, <1>6, <2>1 DEF Paid
  <1> QED BY <1>5, <1>6

\* Less to make and more paid.
LEMMA LessOwed ==
  \A c, m, m2, p, p2 \in Nat : c + m <= p /\ m2 <= m /\ p <= p2 => c + m2 <= p2
  OBVIOUS

\* A step that puts nothing into the error channel, makes no connection and
\* forgets no debt keeps the budget.
LEMMA BudgetKept ==
  ASSUME TypeOK, TypeOK', Budget, conn' = conn, errors' = errors,
         ReaderLeft \subseteq ReaderLeft', WriterLeft \subseteq WriterLeft',
         Making' <= Making, Making' \in Nat, Making \in Nat,
         updater = "fatal" => updater' = "fatal"
  PROVE  Budget'
  <1>1. Paid \in Nat /\ Paid' \in Nat /\ Paid <= Paid'
    BY PaidGrows
  <1>2. conn \in Nat /\ errors \in Seq({"Recoverable", "Fatal"})
    BY DEF TypeOK
  <1>a. conn + Making <= Paid
    BY DEF Budget
  <1>3. conn' + Making' <= Paid'
    BY <1>1, <1>2, <1>a, LessOwed
  <1>4. ASSUME updater' # "fatal", NEW n \in 0..Len(errors),
               \A i \in 1..n : errors[i] = "Recoverable"
        PROVE  conn' + n + Making' <= Paid'
    <2>1. conn + n + Making <= Paid
      BY <1>4 DEF Budget
    <2>2. conn + n \in Nat
      BY <1>2, <1>4
    <2> QED BY <2>1, <2>2, <1>1, <1>2, LessOwed
  <1> QED BY <1>3, <1>4 DEF Budget

\* One new connection at the start, and none broken.
LEMMA InitBInv == Init => BInv
  <1> SUFFICES ASSUME Init PROVE BInv
    OBVIOUS
  <1>1. IInv
    BY InitIInv
  <1>2. ReaderLeft = {} /\ WriterLeft = {}
    BY DEF Init, ReaderLeft, WriterLeft
  <1>3. Paid = 1
    BY <1>2, FS_EmptySet DEF Paid
  <1> QED BY <1>1, <1>3 DEF Init, BInv, GivenOnce, Budget, Making

\* Every step of the tasks keeps the budget.
LEMMA NextBInv == BInv /\ [Next]_vars => BInv'
  <1> SUFFICES ASSUME BInv, [Next]_vars PROVE BInv'
    OBVIOUS
  <1> USE DEF halves, messages
  <1>t. TypeOK /\ TypeOK' /\ IInv' /\ GivenOnce /\ Budget
    BY NextIInv DEF BInv, IInv
  <1>m. Making \in Nat /\ Making' \in Nat
    BY DEF Making
  <1> SUFFICES GivenOnce' /\ Budget'
    BY <1>t DEF BInv
  <1>1. CASE Connect
    <2>1. GivenOnce'
      BY <1>1, <1>t DEF Connect, GivenOnce, TypeOK
    <2>2. ReaderLeft \subseteq ReaderLeft' /\ WriterLeft \subseteq WriterLeft'
      BY <1>1, <1>t DEF Connect, ReaderLeft, WriterLeft, TypeOK
    <2>3. Paid \in Nat /\ Paid' \in Nat /\ Paid <= Paid'
      BY <1>t, <2>2, PaidGrows
    <2>4. /\ Making = 1 /\ Making' = 0 /\ conn' = conn + 1 /\ errors' = errors
          /\ updater # "fatal" /\ conn \in Nat /\ errors \in Seq({"Recoverable", "Fatal"})
      BY <1>1, <1>t DEF Connect, Making, TypeOK
    <2> QED BY <2>1, <2>3, <2>4, <1>t DEF Budget
  <1>2. CASE ConnectFails \/ Retry
    <2>1. GivenOnce'
      BY <1>2, <1>t DEF ConnectFails, Retry, GivenOnce, TypeOK
    <2>2. ReaderLeft \subseteq ReaderLeft' /\ WriterLeft \subseteq WriterLeft'
      BY <1>2, <1>t DEF ConnectFails, Retry, ReaderLeft, WriterLeft
    <2>3. /\ Making' <= Making /\ conn' = conn /\ errors' = errors
          /\ updater # "fatal"
      BY <1>2 DEF ConnectFails, Retry, Making
    <2> QED BY <2>1, <2>2, <2>3, <1>t, <1>m, BudgetKept
  <1>3. CASE GiveWriter
    <2>1. GivenOnce'
      BY <1>3, <1>t DEF GiveWriter, GivenOnce, TypeOK
    <2>2. ReaderLeft \subseteq ReaderLeft' /\ WriterLeft \subseteq WriterLeft'
      BY <1>3, <1>t DEF GiveWriter, ReaderLeft, WriterLeft
    <2>3. /\ Making' <= Making /\ conn' = conn /\ errors' = errors
          /\ updater # "fatal"
      BY <1>3 DEF GiveWriter, Making
    <2> QED BY <2>1, <2>2, <2>3, <1>t, <1>m, BudgetKept
  <1>4. CASE HandleError
    <2>1. GivenOnce'
      BY <1>4, <1>t DEF HandleError, GivenOnce
    <2>2. ReaderLeft \subseteq ReaderLeft' /\ WriterLeft \subseteq WriterLeft'
      BY <1>4, <1>t DEF HandleError, ReaderLeft, WriterLeft
    <2>3. Paid \in Nat /\ Paid' \in Nat /\ Paid <= Paid'
      BY <1>t, <2>2, PaidGrows
    <2>4. /\ conn' = conn /\ conn \in Nat /\ updater = "wait" /\ Making = 0
          /\ errors \in Seq({"Recoverable", "Fatal"}) /\ errors # <<>>
          /\ errors' = Tail(errors)
      BY <1>4, <1>t DEF HandleError, Making, TypeOK
    <2>5. CASE Head(errors) = "Fatal"
      BY <1>4, <1>t, <2>1, <2>3, <2>4, <2>5 DEF HandleError, Budget, Making
    <2>6. CASE Head(errors) # "Fatal"
      <3>1. Head(errors) = "Recoverable" /\ updater' = "connect" /\ Making' = 1
        BY <1>4, <2>4, <2>6 DEF HandleError, Making
      <3>2. ASSUME NEW n \in 0..Len(errors'),
                   \A i \in 1..n : errors'[i] = "Recoverable"
            PROVE  conn' + n + Making' <= Paid'
        <4>1. n + 1 \in 0..Len(errors)
          BY <2>4, <3>2
        <4>2. ASSUME NEW i \in 1..(n + 1) PROVE errors[i] = "Recoverable"
          <5>1. CASE i = 1
            BY <5>1, <3>1, <2>4
          <5>2. CASE i # 1
            <6>1. i - 1 \in 1..n /\ errors'[i - 1] = errors[i]
              BY <5>2, <2>4, <3>2
            <6> QED BY <6>1, <3>2
          <5> QED BY <5>1, <5>2
        <4>3. conn + (n + 1) + Making <= Paid
          BY <4>1, <4>2, <1>t, <2>4 DEF Budget
        <4> QED BY <4>3, <2>3, <2>4, <3>1
      <3>3. 0 \in 0..Len(errors') /\ \A i \in 1..0 : errors'[i] = "Recoverable"
        BY <2>4
      <3>4. conn' + Making' <= Paid'
        BY <3>2, <3>3, <2>4, <3>1
      <3> QED BY <2>1, <3>2, <3>4 DEF Budget
    <2> QED BY <2>5, <2>6
  <1>5. CASE ReaderTake \/ WriterTake
    <2>1. GivenOnce'
      BY <1>5, <1>t DEF ReaderTake, WriterTake, GivenOnce, TypeOK
    <2>2. ReaderLeft \subseteq ReaderLeft' /\ WriterLeft \subseteq WriterLeft'
      BY <1>5, <1>t DEF ReaderTake, WriterTake, ReaderLeft, WriterLeft, TypeOK
    <2>3. Making' <= Making /\ UNCHANGED <<conn, errors, updater>>
      BY <1>5 DEF ReaderTake, WriterTake, Making
    <2> QED BY <2>1, <2>2, <2>3, <1>t, <1>m, BudgetKept
  <1>e. ASSUME NEW e \in {"Recoverable", "Fatal"}, errors' = Append(errors, e),
               UNCHANGED <<conn, updater>>,
               ReaderLeft \subseteq ReaderLeft', WriterLeft \subseteq WriterLeft',
               e = "Recoverable" => Paid' = Paid + 1
        PROVE  Budget'
    <2>1. Paid \in Nat /\ Paid' \in Nat /\ Paid <= Paid'
      BY <1>t, <1>e, PaidGrows
    <2>2. /\ Making' = Making /\ conn \in Nat
          /\ errors \in Seq({"Recoverable", "Fatal"})
      BY <1>t, <1>e DEF Making, TypeOK
    <2>3. ASSUME updater # "fatal", NEW n \in 0..Len(errors'),
                 \A i \in 1..n : errors'[i] = "Recoverable"
          PROVE  conn' + n + Making' <= Paid'
      <3>1. CASE n \in 0..Len(errors)
        <4>1. \A i \in 1..n : errors[i] = "Recoverable"
          BY <1>e, <2>2, <2>3, <3>1
        <4> QED BY <4>1, <3>1, <1>t, <1>e, <1>m, <2>1, <2>2, <2>3 DEF Budget
      <3>2. CASE n = Len(errors) + 1
        <4>1. e = "Recoverable"
          BY <1>e, <2>2, <2>3, <3>2
        <4>2. /\ Len(errors) \in 0..Len(errors)
              /\ \A i \in 1..Len(errors) : errors[i] = "Recoverable"
          BY <1>e, <2>2, <2>3, <3>2
        <4>3. conn + Len(errors) + Making <= Paid
          BY <4>2, <1>t, <2>3 DEF Budget
        <4> QED BY <4>1, <4>2, <4>3, <1>e, <1>m, <2>1, <2>2, <3>2
      <3> QED BY <3>1, <3>2, <1>e, <2>2
    <2>4. conn' + Making' <= Paid'
      BY <1>t, <1>e, <1>m, <2>1, <2>2 DEF Budget
    <2> QED BY <2>3, <2>4, <1>e DEF Budget
  <1>6. ASSUME NEW e \in {"Recoverable", "Fatal"}, ReaderFails(e)
        PROVE  GivenOnce' /\ Budget'
    <2>1. GivenOnce'
      BY <1>6, <1>t DEF ReaderFails, GivenOnce
    <2>2. WriterLeft' = WriterLeft /\ ReaderLeft \subseteq ReaderLeft'
      BY <1>6, <1>t DEF TypeOK, ReaderFails, ReaderLeft, WriterLeft
    <2>3. ASSUME e = "Recoverable" PROVE Paid' = Paid + 1
      <3>1. reader \in broken /\ reader # rdSlot
        BY <1>6, <1>t, <2>3 DEF ReaderFails, GivenOnce
      <3>2. reader \notin ReaderLeft /\ ReaderLeft' = ReaderLeft \cup {reader}
        BY <1>6, <1>t, <3>1 DEF ReaderFails, ReaderLeft, TypeOK
      <3> QED BY <3>2, <2>2, <1>t, PaidMore
    <2> QED BY <2>1, <2>2, <2>3, <1>6, <1>e DEF ReaderFails
  <1>7. CASE Write \/ StateSends
    <2>1. UNCHANGED <<updater, conn, broken, rdSlot, wrSlot, reader, writer, errors>>
      BY <1>7 DEF Write, StateSends
    <2>2. ReaderLeft' = ReaderLeft /\ WriterLeft' = WriterLeft /\ Making' = Making
      BY <2>1 DEF ReaderLeft, WriterLeft, Making
    <2>3. GivenOnce'
      BY <2>1, <1>t DEF GivenOnce
    <2> QED BY <2>1, <2>2, <2>3, <1>t, <1>m, BudgetKept
  <1>8. CASE WriteFails
    <2>1. GivenOnce'
      BY <1>8, <1>t DEF WriteFails, GivenOnce, TypeOK
    <2>2. ReaderLeft' = ReaderLeft /\ WriterLeft \subseteq WriterLeft'
      BY <1>8, <1>t DEF TypeOK, WriteFails, ReaderLeft, WriterLeft
    <2>3. writer \in broken /\ writer # wrSlot /\ ~(updater = "giveWriter" /\ writer = conn)
      BY <1>8, <1>t DEF WriteFails, GivenOnce, TypeOK
    <2>4. writer \notin WriterLeft /\ WriterLeft' = WriterLeft \cup {writer}
      BY <1>8, <1>t, <2>3 DEF WriteFails, WriterLeft, TypeOK
    <2>5. Paid' = Paid + 1
      BY <2>4, <2>2, <1>t, PaidMore
    <2> QED BY <2>1, <2>2, <2>5, <1>8, <1>e DEF WriteFails
  <1>9. ASSUME NEW k \in 1..conn, Break(k) PROVE GivenOnce' /\ Budget'
    <2>1. GivenOnce'
      BY <1>9, <1>t DEF Break, GivenOnce
    <2>2. ReaderLeft \subseteq ReaderLeft' /\ WriterLeft \subseteq WriterLeft'
      BY <1>9 DEF Break, ReaderLeft, WriterLeft
    <2>3. Making' <= Making /\ UNCHANGED <<conn, errors, updater>>
      BY <1>9 DEF Break, Making
    <2> QED BY <2>1, <2>2, <2>3, <1>t, <1>m, BudgetKept
  <1>10. CASE UNCHANGED vars
    <2>1. ReaderLeft' = ReaderLeft /\ WriterLeft' = WriterLeft /\ Making' = Making
      BY <1>10 DEF vars, ReaderLeft, WriterLeft, Making
    <2>2. GivenOnce' /\ UNCHANGED <<conn, errors, updater>>
      BY <1>10, <1>t DEF vars, GivenOnce
    <2> QED BY <2>1, <2>2, <1>t, <1>m, BudgetKept
  <1> QED BY <1>1, <1>2, <1>3, <1>4, <1>5, <1>6, <1>7, <1>8, <1>9, <1>10 DEF Next

\* However the halves fail, there are at most two reconnections for each
\* connection that breaks, and the first connection.
THEOREM NoReconnectStorm == Spec => []ReconnectsBounded
  <1>1. BInv => ReconnectsBounded
    <2> SUFFICES ASSUME BInv PROVE ReconnectsBounded
      OBVIOUS
    <2>1. TypeOK /\ Budget
      BY DEF BInv, IInv
    <2>a. conn \in Nat /\ broken \in SUBSET (1..conn)
      BY <2>1 DEF TypeOK
    <2>b. ReaderLeft \in SUBSET broken /\ WriterLeft \in SUBSET broken
      BY DEF ReaderLeft, WriterLeft
    <2>2. /\ Cardinality(broken) \in Nat
          /\ Cardinality(ReaderLeft) \in Nat /\ Cardinality(WriterLeft) \in Nat
          /\ Cardinality(ReaderLeft) <= Cardinality(broken)
          /\ Cardinality(WriterLeft) <= Cardinality(broken)
      BY <2>a, <2>b, LeftFinite
    <2>3. conn \in Nat /\ Making \in 0..1
      BY <2>1 DEF TypeOK, Making
    <2> QED BY <2>1, <2>2, <2>3 DEF Budget, Paid, ReconnectsBounded
  <1> QED BY InitBInv, NextBInv, <1>1, PTL DEF Spec
-----------------------------------------------------------------------------
(***************************************************************************)
(* The client with the server's writer.                                    *)
(***************************************************************************)
\* The server observes the client and never holds it up: a step of the
\* system is a step of the client, or none.
LEMMA SystemStep == [SysNext]_sysVars => [Next]_vars
  BY DEF SysNext, sysVars, Dial, Redial, ClientStep, Handled, HandshakeLost, SrvTake,
         Arrive, SrvWrite, SrvWriteFails, Next, vars

\* The system implements the client by itself: what is proved of the one
\* holds of the other.
THEOREM SystemIsClient == SysSpec => Spec
  <1>1. SysInit => Init
    BY DEF SysInit
  <1> QED BY <1>1, SystemStep, PTL DEF SysSpec, Spec

\* The newest connection is on its way to the server's writer, or has come
\* to it, unless it is dead or a handler was overtaken.
OnItsWay ==
    ~overtaken /\ conn # 0 =>
        conn \in arriving \/ srvSlot = conn \/ srvSock = conn \/ Dead(conn)

SInv == SysTypeOK /\ OnItsWay

\* There is no connection at the start.
LEMMA InitSInv == SysInit => SInv
  <1> SUFFICES ASSUME SysInit PROVE SInv
    OBVIOUS
  <1>1. TypeOK /\ conn = 0
    BY InitIInv DEF SysInit, IInv, Init
  <1>2. OnItsWay
    BY <1>1 DEF OnItsWay
  <1>3. overtaken \in BOOLEAN /\ needless \in BOOLEAN
    BY Zenon DEF SysInit
  <1>4. SysTypeOK
    BY <1>1, <1>3 DEF SysInit, SysTypeOK
  <1> QED BY <1>2, <1>4 DEF SInv

\* A connection that nobody holds stays closed, one that broke stays broken.
LEMMA DeadStays ==
  ASSUME TypeOK, Next \/ UNCHANGED vars, conn' = conn, Dead(conn)
  PROVE  Dead(conn)'
  <1> USE DEF TypeOK, Dead, Closed, halves, messages
  <1>1. CASE Connect
    BY <1>1 DEF Connect
  <1>2. CASE ConnectFails \/ Retry \/ HandleError
    BY <1>2 DEF ConnectFails, Retry, HandleError
  <1>3. CASE GiveWriter
    BY <1>3 DEF GiveWriter
  <1>4. CASE ReaderTake \/ WriterTake
    BY <1>4 DEF ReaderTake, WriterTake
  <1>5. ASSUME NEW e \in {"Recoverable", "Fatal"}, ReaderFails(e) PROVE Dead(conn)'
    BY <1>5 DEF ReaderFails
  <1>6. CASE Write \/ StateSends \/ WriteFails
    BY <1>6 DEF Write, StateSends, WriteFails
  <1>7. ASSUME NEW k \in 1..conn, Break(k) PROVE Dead(conn)'
    BY <1>7 DEF Break
  <1>8. CASE UNCHANGED vars
    BY <1>8 DEF vars
  <1> QED BY <1>1, <1>2, <1>3, <1>4, <1>5, <1>6, <1>7, <1>8 DEF Next

\* Every step of the client and the server keeps the invariant.
LEMMA NextSInv == SInv /\ IInv /\ [SysNext]_sysVars => SInv'
  <1> SUFFICES ASSUME SInv, IInv, [SysNext]_sysVars PROVE SInv'
    OBVIOUS
  <1>a. [Next]_vars /\ TypeOK /\ TypeOK'
    BY SystemStep, NextIInv DEF IInv
  <1>b. ASSUME conn' = conn, Dead(conn) PROVE Dead(conn)'
    BY <1>a, <1>b, DeadStays
  <1>1. CASE Dial
    <2>1. /\ conn' = conn + 1 /\ arriving' = arriving \cup {conn + 1}
          /\ UNCHANGED <<srvSlot, srvSock, srvQueue, srvSent, overtaken, needless>>
      BY <1>1 DEF Dial, Connect
    <2> QED BY <2>1, <1>a DEF SInv, SysTypeOK, OnItsWay, TypeOK
  <1>2. CASE Redial \/ ClientStep
    <2>1. conn' = conn /\ UNCHANGED server /\ needless' \in BOOLEAN
      BY <1>2 DEF Redial, ClientStep, HandleError, ConnectFails, Retry, GiveWriter,
         ReaderTake, WriterTake, Write, WriteFails, StateSends, ReaderFails, Break,
         SInv, SysTypeOK
    <2> QED BY <2>1, <1>a, <1>b DEF SInv, SysTypeOK, OnItsWay, server
  <1>3. ASSUME NEW k \in arriving, Handled(k) PROVE SInv'
    <2>1. conn' = conn /\ (Dead(conn) => Dead(conn)')
      BY <1>3, <1>b DEF Handled, vars
    <2>2. SysTypeOK'
      BY <1>3, <1>a, <2>1 DEF SInv, SysTypeOK, Handled
    <2>3. CASE k = conn
      BY <1>3, <2>1, <2>2, <2>3 DEF SInv, OnItsWay, Handled
    <2>4. CASE k # conn
      <3>1. conn \in (k + 1)..conn
        BY <1>3, <2>4 DEF SInv, SysTypeOK, TypeOK
      <3>2. conn \notin arriving => overtaken'
        BY <1>3, <3>1 DEF Handled
      <3>3. conn \in arriving => conn' \in arriving'
        BY <1>3, <2>4, <2>1 DEF Handled
      <3> QED BY <2>2, <3>2, <3>3 DEF SInv, OnItsWay
    <2> QED BY <2>3, <2>4
  <1>4. ASSUME NEW k \in arriving, HandshakeLost(k) PROVE SInv'
    BY <1>4, <1>a, <1>b DEF SInv, SysTypeOK, OnItsWay, HandshakeLost, vars
  <1>5. CASE SrvTake
    BY <1>5, <1>a, <1>b DEF SInv, SysTypeOK, OnItsWay, SrvTake, vars
  <1>6. CASE Arrive \/ SrvWrite
    <2>1. /\ conn' = conn /\ srvQueue' \in Nat /\ srvSent' \in Nat
          /\ UNCHANGED <<arriving, srvSlot, srvSock, overtaken, needless>>
      BY <1>6 DEF SInv, SysTypeOK, Arrive, SrvWrite, vars
    <2> QED BY <2>1, <1>a, <1>b DEF SInv, SysTypeOK, OnItsWay
  <1>7. CASE SrvWriteFails
    <2>1. /\ conn' = conn /\ srvSock' = 0 /\ Dead(srvSock) /\ conn \in Nat
          /\ UNCHANGED <<arriving, srvSlot, srvQueue, srvSent, overtaken, needless>>
      BY <1>7, <1>a DEF SrvWriteFails, vars, TypeOK
    <2>2. srvSock = conn => Dead(conn)
      BY <2>1
    <2> QED BY <2>1, <2>2, <1>a, <1>b DEF SInv, SysTypeOK, OnItsWay
  <1>8. CASE UNCHANGED sysVars
    <2>1. conn' = conn /\ UNCHANGED <<server, needless>>
      BY <1>8 DEF sysVars, vars
    <2> QED BY <2>1, <1>a, <1>b DEF SInv, SysTypeOK, OnItsWay, server
  <1> QED BY <1>1, <1>2, <1>3, <1>4, <1>5, <1>6, <1>7, <1>8 DEF SysNext

\* The invariant of the system holds in every reachable state.
LEMMA SystemIsSound == SysSpec => []SInv
  BY InitSInv, NextSInv, SystemIsClient, ClientIsSound, PTL DEF SysSpec

\* The server only ever holds connections that the client made.
THEOREM SystemTypeCorrect == SysSpec => []SysTypeOK
  <1>1. SInv => SysTypeOK
    BY DEF SInv
  <1> QED BY SystemIsSound, <1>1, PTL

\* The server's writer does not wait in vain for a connection that works:
\* whatever the order in which the tasks of both programs run, one that no
\* handler overtook comes to it.
THEOREM NobodyStranded == SysSpec => []NotStranded
  <1>1. SInv => NotStranded
    BY DEF SInv, OnItsWay, NotStranded
  <1> QED BY SystemIsSound, <1>1, PTL
=============================================================================
