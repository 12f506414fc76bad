------------------------- MODULE ServerRelayProofs -------------------------
(***************************************************************************)
(* The server's data path for any group, any connections and any number of *)
(* messages: no message is lost, repeated or reordered between a member's  *)
(* channel and the log, every recipient gets the messages of a connection  *)
(* in their order, and only the readers of broken sockets stop.            *)
(***************************************************************************)
EXTENDS ServerRelay, SequenceTheorems, TLAPS

\* A reader that has someone left to forward to holds a message for them.
Forwarding == \A c \in Conns : rest[c] # {} => message[c] # None

\* Between messages, and before its first socket, a writer holds none.
CacheEmpty == \A u \in Users : pc[u] \in {"none", "message"} => cache[u] = None

\* A notified connection is a broken one.
WatchBroken == watch \cap alive = {}

IInv == TypeOK /\ Forwarding /\ CacheEmpty /\ WatchBroken /\ NothingLostInside

\* Adding a message at the end of the channel adds it at the end of it all.
LEMMA AppendRight ==
    ASSUME NEW p \in Seq(Messages), NEW q \in Seq(Messages),
           NEW r \in Seq(Messages), NEW e \in Messages
    PROVE  Append(p \o q \o r, e) = p \o q \o Append(r, e)
  <1>1. /\ p \o q \in Seq(Messages) /\ (p \o q) \o r \in Seq(Messages)
        /\ <<e>> \in Seq(Messages)
    OBVIOUS
  <1>2. Append((p \o q) \o r, e) = ((p \o q) \o r) \o <<e>>
    BY <1>1, AppendIsConcat
  <1>3. ((p \o q) \o r) \o <<e>> = (p \o q) \o (r \o <<e>>)
    BY <1>1, ConcatAssociative
  <1>4. r \o <<e>> = Append(r, e)
    BY AppendIsConcat
  <1> QED BY <1>2, <1>3, <1>4

\* Taking a message from the channel keeps the whole as it was.
LEMMA HeadToMiddle ==
    ASSUME NEW S, NEW p \in Seq(S), NEW r \in Seq(S), r # <<>>
    PROVE  p \o <<>> \o r = p \o <<Head(r)>> \o Tail(r)
  OBVIOUS

\* Logging the message that is held keeps the whole as it was.
LEMMA MiddleToLeft ==
    ASSUME NEW S, NEW p \in Seq(S), NEW r \in Seq(S), NEW e \in S
    PROVE  p \o <<e>> \o r = Append(p, e) \o <<>> \o r
  OBVIOUS

\* An arrival is added to what a client has received.
LEMMA ArrivalAppended ==
    ASSUME NEW f \in [Users -> Seq(Arrivals)], NEW u \in Users, NEW e \in Arrivals
    PROVE  [f EXCEPT ![u] = Append(@, e)] \in [Users -> Seq(Arrivals)]
  OBVIOUS
-----------------------------------------------------------------------------
\* The server starts with empty channels.
LEMMA InitIInv == Init => IInv
  <1> SUFFICES ASSUME Init PROVE IInv
    OBVIOUS
  <1>0. <<>> \in Seq(Messages) /\ <<>> \in Seq(Arrivals)
    OBVIOUS
  <1>1. TypeOK
    BY <1>0 DEF Init, TypeOK, ReaderPcs, WriterPcs
  <1>2. NothingLostInside
    <2>1. <<>> \o <<>> \o <<>> = <<>>
      OBVIOUS
    <2> QED BY <2>1 DEF Init, NothingLostInside, Held
  <1> QED BY <1>1, <1>2 DEF Init, IInv, Forwarding, CacheEmpty, WatchBroken

\* Whom a message is for.
LEMMA RecipientsType == \A m \in Messages : Recipients(m) \subseteq Users
  BY DEF Messages, Recipients

\* Every step of a client, a reader or a writer keeps the invariant.
LEMMA NextIInv == IInv /\ [Next]_vars => IInv'
  <1> SUFFICES ASSUME IInv, [Next]_vars PROVE IInv'
    OBVIOUS
  <1> USE DEF IInv, readers, writers
  <1>1. ASSUME NEW c \in Conns, NEW to \in Users \cup {All}, ClientWrite(c, to)
        PROVE  IInv'
    <2>1. [from |-> c, n |-> wrote[c] + 1, to |-> to] \in Messages
      BY DEF TypeOK, Messages
    <2>2. inbox' \in [Conns -> Seq(Messages)] /\ wrote' \in [Conns -> Nat]
      BY <1>1, <2>1 DEF ClientWrite, TypeOK
    <2>3. TypeOK'
      BY <1>1, <2>2 DEF ClientWrite, TypeOK
    <2> QED BY <1>1, <2>3 DEF ClientWrite, Forwarding, CacheEmpty, WatchBroken,
               NothingLostInside, Held
  <1>2. ASSUME NEW c \in Conns, Break(c) PROVE IInv'
    <2>1. inbox' \in [Conns -> Seq(Messages)]
      <3>1. <<>> \in Seq(Messages)
        OBVIOUS
      <3> QED BY <1>2, <3>1 DEF Break, TypeOK
    <2>2. TypeOK'
      BY <1>2, <2>1 DEF Break, TypeOK
    <2> QED BY <1>2, <2>2 DEF Break, Forwarding, CacheEmpty, WatchBroken,
               NothingLostInside, Held
  <1>3. ASSUME NEW c \in Conns, Handle(c) PROVE IInv'
    <2>1. Owner[c] \in Users
      BY RelayAssumption
    <2>2. TypeOK'
      BY <1>3, <2>1 DEF Handle, TypeOK, ReaderPcs, WriterPcs
    <2>3. CacheEmpty'
      BY <1>3, <2>1 DEF Handle, TypeOK, CacheEmpty
    <2> QED BY <1>3, <2>2, <2>3 DEF Handle, Forwarding, WatchBroken,
               NothingLostInside, Held
  <1>4. CASE EndRegistration
    <2>1. TypeOK'
      BY <1>4 DEF EndRegistration, TypeOK, ReaderPcs
    <2> QED BY <1>4, <2>1 DEF EndRegistration, Forwarding, CacheEmpty, WatchBroken,
               NothingLostInside, Held
  <1>5. ASSUME NEW c \in Conns, GetMessage(c) PROVE IInv'
    <2> DEFINE m == Head(inbox[c])
    <2>1. inbox[c] \in Seq(Messages) /\ inbox[c] # <<>>
      BY <1>5 DEF GetMessage, TypeOK
    <2>2. m \in Messages /\ Tail(inbox[c]) \in Seq(Messages)
      BY <2>1
    <2>3. Recipients(m) \subseteq Users
      BY <2>2, RecipientsType
    <2> HIDE DEF m
    <2>4. /\ rest' = [rest EXCEPT ![c] = Recipients(m)]
          /\ message' = [message EXCEPT ![c] = IF Recipients(m) = {} THEN None ELSE m]
          /\ read' = [read EXCEPT ![c] = Append(@, m)]
          /\ inbox' = [inbox EXCEPT ![c] = Tail(@)]
          /\ UNCHANGED <<ended, alive, wrote, reader, watch, chan, put, writers>>
      BY <1>5 DEF GetMessage, m
    <2>5. TypeOK'
      <3>1. /\ inbox' \in [Conns -> Seq(Messages)]
            /\ read' \in [Conns -> Seq(Messages)]
        BY <2>2, <2>4 DEF TypeOK
      <3>2. message' \in [Conns -> Messages \cup {None}]
        BY <2>2, <2>4 DEF TypeOK
      <3>3. rest' \in [Conns -> SUBSET Users]
        BY <2>3, <2>4 DEF TypeOK
      <3> QED BY <2>4, <3>1, <3>2, <3>3 DEF TypeOK
    <2>6. Forwarding'
      BY <2>2, <2>4, NoneIsNoMessage DEF Forwarding, TypeOK
    <2> QED BY <2>4, <2>5, <2>6 DEF CacheEmpty, WatchBroken, NothingLostInside, Held
  <1>6. ASSUME NEW c \in Conns, NEW v \in Users, Forward(c, v) PROVE IInv'
    <2>1. message[c] \in Messages
      BY <1>6 DEF Forward, Forwarding, TypeOK
    <2>2. TypeOK'
      <3>1. chan' \in [Users -> Seq(Messages)] /\ put' \in [Users -> Seq(Messages)]
        BY <1>6, <2>1 DEF Forward, TypeOK
      <3>2. message' \in [Conns -> Messages \cup {None}]
        BY <1>6 DEF Forward, TypeOK
      <3>3. rest' \in [Conns -> SUBSET Users]
        BY <1>6 DEF Forward, TypeOK
      <3> QED BY <1>6, <3>1, <3>2, <3>3 DEF Forward, TypeOK
    <2>3. Forwarding'
      BY <1>6, <2>1, NoneIsNoMessage DEF Forward, Forwarding, TypeOK
    <2>4. NothingLostInside'
      <3> SUFFICES ASSUME NEW u \in Users
                   PROVE  put'[u] = reported[u] \o Held(u) \o chan'[u]
        BY <1>6 DEF Forward, NothingLostInside, Held
      <3>1. CASE u # v
        BY <1>6, <3>1 DEF Forward, NothingLostInside, TypeOK
      <3>2. CASE u = v
        <4>1. /\ put'[v] = Append(put[v], message[c])
              /\ chan'[v] = Append(chan[v], message[c])
          BY <1>6 DEF Forward, TypeOK
        <4>2. reported[v] \in Seq(Messages) /\ Held(v) \in Seq(Messages)
              /\ chan[v] \in Seq(Messages)
          <5>1. <<>> \in Seq(Messages) /\ \A e \in Messages : <<e>> \in Seq(Messages)
            OBVIOUS
          <5> QED BY <5>1 DEF TypeOK, Held
        <4>3. Append(reported[v] \o Held(v) \o chan[v], message[c])
                 = reported[v] \o Held(v) \o Append(chan[v], message[c])
          <5> DEFINE p == reported[v]
                     q == Held(v)
                     r == chan[v]
                     e == message[c]
          <5>1. p \in Seq(Messages) /\ q \in Seq(Messages) /\ r \in Seq(Messages)
                /\ e \in Messages
            BY <2>1, <4>2
          <5> HIDE DEF p, q, r, e
          <5>2. Append(p \o q \o r, e) = p \o q \o Append(r, e)
            BY <5>1, AppendRight
          <5> QED BY <5>2 DEF p, q, r, e
        <4> QED BY <3>2, <4>1, <4>3 DEF NothingLostInside
      <3> QED BY <3>1, <3>2
    <2> QED BY <1>6, <2>2, <2>3, <2>4 DEF Forward, CacheEmpty, WatchBroken
  <1>7. ASSUME NEW c \in Conns, ReaderFails(c) \/ ReaderTerminated(c) PROVE IInv'
    <2>1. StopReader(c)
      BY <1>7 DEF ReaderFails, ReaderTerminated
    <2>2. TypeOK'
      BY <2>1 DEF StopReader, TypeOK, ReaderPcs
    <2> QED BY <2>1, <2>2 DEF StopReader, Forwarding, CacheEmpty, WatchBroken,
               NothingLostInside, Held
  <1>8. ASSUME NEW u \in Users, TakeSocket(u) PROVE IInv'
    <2>1. TypeOK'
      BY <1>8 DEF TakeSocket, TypeOK, WriterPcs
    <2>2. CacheEmpty'
      BY <1>8 DEF TakeSocket, TypeOK, CacheEmpty
    <2> QED BY <1>8, <2>1, <2>2 DEF TakeSocket, Forwarding, WatchBroken,
               NothingLostInside, Held
  <1>9. ASSUME NEW u \in Users, TakeMessage(u) PROVE IInv'
    <2> DEFINE m == Head(chan[u])
    <2>1. chan[u] \in Seq(Messages) /\ chan[u] # <<>> /\ cache[u] = None
      BY <1>9 DEF TakeMessage, TypeOK, CacheEmpty
    <2>2. m \in Messages /\ Tail(chan[u]) \in Seq(Messages) /\ m # None
      BY <2>1, NoneIsNoMessage
    <2> HIDE DEF m
    <2>3. /\ cache' = [cache EXCEPT ![u] = m]
          /\ chan' = [chan EXCEPT ![u] = Tail(@)]
          /\ pc' = [pc EXCEPT ![u] = "write"]
          /\ pc[u] = "message"
          /\ UNCHANGED <<ended, alive, wrote, inbox, readers, watch, put, slot, sock,
                          buffered, reported, received>>
      BY <1>9 DEF TakeMessage, m
    <2>4. TypeOK'
      BY <2>2, <2>3 DEF TypeOK, WriterPcs
    <2>5. CacheEmpty'
      BY <2>3 DEF TypeOK, CacheEmpty
    <2>6. NothingLostInside'
      <3> SUFFICES ASSUME NEW v \in Users
                   PROVE  put[v] = reported[v] \o Held(v)' \o chan'[v]
        BY <2>3 DEF NothingLostInside
      <3>1. CASE v # u
        BY <2>3, <3>1 DEF NothingLostInside, TypeOK, Held
      <3>2. CASE v = u
        <4>1. Held(u) = <<>> /\ Held(u)' = <<m>> /\ chan'[u] = Tail(chan[u])
          BY <2>1, <2>2, <2>3 DEF Held, TypeOK
        <4>2. reported[u] \o <<>> \o chan[u]
                 = reported[u] \o <<Head(chan[u])>> \o Tail(chan[u])
          BY <2>1, HeadToMiddle DEF TypeOK
        <4> QED BY <3>2, <4>1, <4>2 DEF NothingLostInside, m
      <3> QED BY <3>1, <3>2
    <2> QED BY <2>3, <2>4, <2>5, <2>6 DEF Forwarding, WatchBroken
  <1>10. ASSUME NEW u \in Users, Write(u) PROVE IInv'
    <2>1. cache[u] \in Messages /\ sock[u] \in Conns
      BY <1>10 DEF Write, TypeOK
    <2>2. TypeOK'
      <3> DEFINE e == [m |-> cache[u], on |-> sock[u]]
      <3>0. e \in Arrivals
        BY <2>1 DEF Arrivals
      <3>1. received' = received \/ received' = [received EXCEPT ![u] = Append(@, e)]
        BY <1>10 DEF Write, Receive
      <3> HIDE DEF e
      <3>2. received' \in [Users -> Seq(Arrivals)]
        <4>1. CASE received' = received
          BY <4>1 DEF TypeOK
        <4>2. CASE received' = [received EXCEPT ![u] = Append(@, e)]
          BY <3>0, <4>2, ArrivalAppended DEF TypeOK
        <4> QED BY <3>1, <4>1, <4>2
      <3> QED BY <1>10, <2>1, <3>2 DEF Write, TypeOK, WriterPcs
    <2>3. CacheEmpty'
      BY <1>10 DEF Write, TypeOK, CacheEmpty
    <2> QED BY <1>10, <2>2, <2>3 DEF Write, Forwarding, WatchBroken,
               NothingLostInside, Held
  <1>11. ASSUME NEW u \in Users, Flush(u) PROVE IInv'
    <2>1. cache[u] \in Messages /\ sock[u] \in Conns
      BY <1>11 DEF Flush, TypeOK
    <2>2. TypeOK'
      <3> DEFINE e == [m |-> cache[u], on |-> sock[u]]
      <3>0. e \in Arrivals
        BY <2>1 DEF Arrivals
      <3>1. received' = received \/ received' = [received EXCEPT ![u] = Append(@, e)]
        BY <1>11 DEF Flush, Receive
      <3> HIDE DEF e
      <3>2. received' \in [Users -> Seq(Arrivals)]
        <4>1. CASE received' = received
          BY <4>1 DEF TypeOK
        <4>2. CASE received' = [received EXCEPT ![u] = Append(@, e)]
          BY <3>0, <4>2, ArrivalAppended DEF TypeOK
        <4> QED BY <3>1, <4>1, <4>2
      <3>3. reported' \in [Users -> Seq(Messages)]
        BY <1>11, <2>1 DEF Flush, TypeOK
      <3> QED BY <1>11, <2>1, <3>2, <3>3 DEF Flush, TypeOK, WriterPcs
    <2>3. CacheEmpty'
      BY <1>11 DEF Flush, TypeOK, CacheEmpty
    <2>4. NothingLostInside'
      <3> SUFFICES ASSUME NEW v \in Users
                   PROVE  put[v] = reported'[v] \o Held(v)' \o chan[v]
        BY <1>11 DEF Flush, NothingLostInside
      <3>1. CASE v # u
        BY <1>11, <3>1 DEF Flush, NothingLostInside, TypeOK, Held
      <3>2. CASE v = u
        <4>1. /\ Held(u) = <<cache[u]>> /\ Held(u)' = <<>>
              /\ reported'[u] = Append(reported[u], cache[u])
          BY <1>11, <2>1, NoneIsNoMessage DEF Flush, Held, TypeOK
        <4>2. reported[u] \in Seq(Messages) /\ chan[u] \in Seq(Messages)
          BY DEF TypeOK
        <4>3. reported[u] \o <<cache[u]>> \o chan[u]
                 = Append(reported[u], cache[u]) \o <<>> \o chan[u]
          BY <2>1, <4>2, MiddleToLeft
        <4> QED BY <3>2, <4>1, <4>3 DEF NothingLostInside
      <3> QED BY <3>1, <3>2
    <2> QED BY <1>11, <2>2, <2>3, <2>4 DEF Flush, Forwarding, WatchBroken
  <1>12. ASSUME NEW u \in Users, SendFails(u) PROVE IInv'
    <2>1. TypeOK'
      BY <1>12 DEF SendFails, TypeOK, WriterPcs
    <2>2. CacheEmpty'
      BY <1>12 DEF SendFails, TypeOK, CacheEmpty
    <2>3. WatchBroken'
      BY <1>12 DEF SendFails, WatchBroken
    <2> QED BY <1>12, <2>1, <2>2, <2>3 DEF SendFails, Forwarding, NothingLostInside,
               Held
  <1>13. CASE UNCHANGED vars
    <2>1. TypeOK'
      BY <1>13 DEF vars, TypeOK
    <2> QED BY <1>13, <2>1 DEF vars, Forwarding, CacheEmpty, WatchBroken,
               NothingLostInside, Held
  <1> QED BY <1>1, <1>2, <1>3, <1>4, <1>5, <1>6, <1>7, <1>8, <1>9, <1>10, <1>11,
             <1>12, <1>13 DEF Next, ReaderStep, WriterStep

\* The invariant holds in every reachable state.
LEMMA RelayIsSound == Spec => []IInv
  BY InitIInv, NextIInv, PTL DEF Spec

\* The relay is type correct: a writer that writes has a socket and a message.
THEOREM TypeCorrect == Spec => []TypeOK
  <1>1. IInv => TypeOK
    BY DEF IInv
  <1> QED BY RelayIsSound, <1>1, PTL

\* Over any number of broken sockets, what was put into a member's channel
\* is logged as sent, held, or queued: once, and in the order it was put.
THEOREM NoMessageLost == Spec => []NothingLostInside
  <1>1. IInv => NothingLostInside
    BY DEF IInv
  <1> QED BY RelayIsSound, <1>1, PTL

\* No step stops the reader of a connection that works.
THEOREM ReadersOfWorkingSocketsKept == Spec => WorkingReadersKept
  <1>1. ASSUME IInv, Next, NEW c \in alive, reader[c] # "stopped"
        PROVE  reader'[c] # "stopped"
    <2>1. c \in Conns /\ c \notin watch
      BY <1>1 DEF IInv, TypeOK, WatchBroken
    <2>2. ASSUME NEW d \in Conns, ReaderFails(d) \/ ReaderTerminated(d)
          PROVE  reader'[c] # "stopped"
      BY <1>1, <2>1, <2>2 DEF ReaderFails, ReaderTerminated, StopReader, IInv, TypeOK
    <2>3. ASSUME NEW d \in Conns, Handle(d) PROVE reader'[c] # "stopped"
      BY <1>1, <2>1, <2>3 DEF Handle, IInv, TypeOK
    <2>4. CASE EndRegistration
      BY <1>1, <2>1, <2>4 DEF EndRegistration
    <2>5. CASE UNCHANGED reader
      BY <1>1, <2>5
    <2> QED BY <1>1, <2>2, <2>3, <2>4, <2>5 DEF Next, ReaderStep, WriterStep, readers,
            ClientWrite, Break, GetMessage, Forward, TakeSocket, TakeMessage, Write,
            Flush, SendFails
  <1>2. IInv /\ [Next]_vars =>
            [\A c \in alive : reader[c] # "stopped" => reader'[c] # "stopped"]_vars
    BY <1>1
  <1> QED BY RelayIsSound, <1>2, PTL DEF Spec, WorkingReadersKept
-----------------------------------------------------------------------------
(***************************************************************************)
(* From the connections to the channels.                                   *)
(***************************************************************************)
\* What is read from a connection, and what is yet to be read, is numbered in
\* the order the client wrote it.
Numbered ==
    \A c \in Conns :
        /\ \A i \in DOMAIN inbox[c] : inbox[c][i].from = c /\ inbox[c][i].n <= wrote[c]
        /\ \A i, j \in DOMAIN inbox[c] : i < j => inbox[c][i].n < inbox[c][j].n
        /\ \A m \in Range(read[c]) :
              /\ m.from = c /\ m.n <= wrote[c]
              /\ \A j \in DOMAIN inbox[c] : m.n < inbox[c][j].n

\* What a reader forwards is the last message it read, and goes to recipients.
ForwardsLast ==
    \A c \in Conns : rest[c] # {} =>
        /\ rest[c] \subseteq Recipients(message[c])
        /\ message[c] \in Range(read[c])
        /\ \A m \in Range(read[c]) : m = message[c] \/ m.n < message[c].n

FInv == IInv /\ Numbered /\ ForwardsLast /\ ForwardedInOrder

\* The messages of a sequence, when one is added to it.
LEMMA RangeAppend ==
    ASSUME NEW S, NEW s \in Seq(S), NEW m \in S
    PROVE  /\ Range(Append(s, m)) = Range(s) \cup {m}
           /\ DOMAIN s = 1..Len(s) /\ DOMAIN Append(s, m) = 1..(Len(s) + 1)
           /\ \A i \in 1..Len(s) : Append(s, m)[i] = s[i]
           /\ Append(s, m)[Len(s) + 1] = m
           /\ Len(s) \in Nat
  <1>1. /\ DOMAIN s = 1..Len(s) /\ DOMAIN Append(s, m) = 1..(Len(s) + 1)
        /\ \A i \in 1..Len(s) : Append(s, m)[i] = s[i]
        /\ Append(s, m)[Len(s) + 1] = m /\ Len(s) \in Nat
    OBVIOUS
  <1> DEFINE t == Append(s, m)
  <1> HIDE DEF t
  <1>2. /\ DOMAIN t = 1..(Len(s) + 1) /\ \A i \in 1..Len(s) : t[i] = s[i]
        /\ t[Len(s) + 1] = m
    BY <1>1 DEF t
  <1>3. ASSUME NEW i \in DOMAIN t PROVE t[i] \in Range(s) \cup {m}
    <2>1. i \in 1..Len(s) \/ i = Len(s) + 1
      BY <1>1, <1>2
    <2> QED BY <2>1, <1>1, <1>2 DEF Range
  <1>4. Range(s) \subseteq Range(t)
    <2>1. ASSUME NEW i \in DOMAIN s PROVE s[i] = t[i] /\ i \in DOMAIN t
      BY <1>1, <1>2
    <2> QED BY <2>1 DEF Range
  <1>5. m \in Range(t)
    <2>1. Len(s) + 1 \in DOMAIN t
      BY <1>1, <1>2
    <2> QED BY <2>1, <1>2 DEF Range
  <1>6. Range(t) = Range(s) \cup {m}
    BY <1>3, <1>4, <1>5 DEF Range
  <1> QED BY <1>1, <1>6 DEF t

\* The messages from c in channel p are those of set S, in the order written.
Channel(p, c, S) ==
    /\ \A i, j \in {k \in DOMAIN p : p[k].from = c} : i < j => p[i].n < p[j].n
    /\ {p[i] : i \in {k \in DOMAIN p : p[k].from = c}} = S

\* A message put into a channel is one more of its connection, and none of
\* any other.
LEMMA ChannelAppend ==
    ASSUME NEW p \in Seq(Messages), NEW m \in Messages, NEW c \in Conns, NEW S,
           Channel(p, c, S), m.from = c => \A x \in S : x.n < m.n
    PROVE  Channel(Append(p, m), c, IF m.from = c THEN S \cup {m} ELSE S)
  <1> DEFINE t == Append(p, m)
             Of == {k \in DOMAIN p : p[k].from = c}
             OfT == {k \in DOMAIN t : t[k].from = c}
             U == IF m.from = c THEN S \cup {m} ELSE S
  <1>1. /\ DOMAIN p = 1..Len(p) /\ DOMAIN t = 1..(Len(p) + 1) /\ Len(p) \in Nat
        /\ \A i \in 1..Len(p) : t[i] = p[i]
        /\ t[Len(p) + 1] = m
    BY RangeAppend
  <1> HIDE DEF t
  <1>2. \A i \in Of : i \in OfT /\ t[i] = p[i] /\ i \in 1..Len(p)
    BY <1>1
  <1>3. \A i \in OfT : i \in Of \/ (i = Len(p) + 1 /\ t[i] = m /\ m.from = c)
    BY <1>1
  <1>4. m.from = c => Len(p) + 1 \in OfT /\ t[Len(p) + 1] = m
    BY <1>1
  <1>5. \A i, j \in Of : i < j => p[i].n < p[j].n
    BY DEF Channel
  <1>6. {p[i] : i \in Of} = S
    BY DEF Channel
  <1> HIDE DEF Of, OfT
  <1>7. ASSUME NEW i \in OfT, NEW j \in OfT, i < j PROVE t[i].n < t[j].n
    <2>1. CASE j \in Of
      <3>1. i \in Of
        BY <2>1, <1>1, <1>2, <1>3, <1>7
      <3> QED BY <3>1, <2>1, <1>2, <1>5, <1>7
    <2>2. CASE j \notin Of
      <3>1. j = Len(p) + 1 /\ t[j] = m /\ m.from = c /\ i \in Of
        BY <2>2, <1>1, <1>3, <1>7
      <3>2. t[i] \in S
        BY <3>1, <1>2, <1>6
      <3> QED BY <3>1, <3>2
    <2> QED BY <2>1, <2>2
  <1>8. {t[i] : i \in OfT} = U
    <2>1. ASSUME NEW i \in OfT PROVE t[i] \in U
      BY <1>2, <1>3, <1>6
    <2>2. ASSUME NEW x \in U PROVE \E i \in OfT : t[i] = x
      <3>1. CASE x \in S
        BY <3>1, <1>2, <1>6
      <3>2. CASE x \notin S
        BY <3>2, <2>2, <1>4
      <3> QED BY <3>1, <3>2
    <2> HIDE DEF U
    <2> QED BY <2>1, <2>2
  <1> QED BY <1>7, <1>8 DEF Channel, t, OfT

\* The property, channel by channel.
Due(c, v) ==
    {m \in Range(read[c]) : v \in Recipients(m)} \ (IF v \in rest[c] THEN {message[c]} ELSE {})

LEMMA ByChannel ==
    ForwardedInOrder <=> \A c \in Conns, v \in Users : Channel(put[v], c, Due(c, v))
  BY DEF ForwardedInOrder, From, Channel, Due

\* Nothing is read or forwarded at the start.
LEMMA InitFInv == Init => FInv
  <1> SUFFICES ASSUME Init PROVE FInv
    OBVIOUS
  <1>1. IInv
    BY InitIInv
  <1>2. DOMAIN <<>> = {} /\ Range(<<>>) = {}
    BY DEF Range
  <1>3. Numbered
    BY <1>2 DEF Init, Numbered
  <1>4. ForwardsLast
    BY DEF Init, ForwardsLast
  <1>5. ForwardedInOrder
    BY <1>2 DEF Init, ForwardedInOrder, From
  <1> QED BY <1>1, <1>3, <1>4, <1>5 DEF FInv

\* Clients, readers and writers keep the order of each connection.
LEMMA NextFInv == FInv /\ [Next]_vars => FInv'
  <1> SUFFICES ASSUME FInv, [Next]_vars PROVE FInv'
    OBVIOUS
  <1>i. IInv /\ IInv' /\ TypeOK /\ TypeOK' /\ Forwarding
    BY NextIInv DEF FInv, IInv
  <1>n. Numbered /\ ForwardsLast /\ ForwardedInOrder
    BY DEF FInv
  <1>c. \A c \in Conns, v \in Users : Channel(put[v], c, Due(c, v))
    BY <1>n, ByChannel
  <1>u. ASSUME UNCHANGED <<read, rest, message, put>> PROVE ForwardsLast' /\ ForwardedInOrder'
    BY <1>n, <1>u DEF ForwardsLast, ForwardedInOrder, From, Recipients
  <1>1. ASSUME NEW c \in Conns, NEW to \in Users \cup {All}, ClientWrite(c, to)
        PROVE  FInv'
    <2> DEFINE m == [from |-> c, n |-> wrote[c] + 1, to |-> to]
    <2>1. /\ wrote' = [wrote EXCEPT ![c] = @ + 1]
          /\ inbox' = [inbox EXCEPT ![c] = Append(@, m)]
          /\ UNCHANGED <<read, rest, message, put>>
      BY <1>1 DEF ClientWrite, readers
    <2>2. m \in Messages /\ m.from = c /\ m.n = wrote[c] + 1 /\ wrote[c] \in Nat
      BY <1>i DEF TypeOK, Messages
    <2> HIDE DEF m
    <2> DEFINE s == inbox[c]
               t == inbox'[c]
    <2>3. s \in Seq(Messages) /\ t = Append(s, m)
      BY <2>1, <1>i DEF TypeOK
    <2>4. /\ DOMAIN s = 1..Len(s) /\ DOMAIN t = 1..(Len(s) + 1) /\ Len(s) \in Nat
          /\ \A i \in 1..Len(s) : t[i] = s[i] /\ t[i] \in Messages
          /\ t[Len(s) + 1] = m
      BY <2>2, <2>3, RangeAppend
    <2>5. wrote'[c] = wrote[c] + 1 /\ \A d \in Conns \ {c} : wrote'[d] = wrote[d] /\ inbox'[d] = inbox[d]
      BY <2>1, <1>i DEF TypeOK
    <2>6. /\ \A i \in DOMAIN s : s[i].from = c /\ s[i].n <= wrote[c] /\ s[i].n \in Nat
          /\ \A i, j \in DOMAIN s : i < j => s[i].n < s[j].n
          /\ \A x \in Range(read[c]) : x.from = c /\ x.n <= wrote[c] /\ x.n \in Nat
          /\ \A x \in Range(read[c]), j \in DOMAIN s : x.n < s[j].n
      <3>1. Range(read[c]) \subseteq Messages
        BY <1>i, RangeOfSeq DEF TypeOK
      <3>2. \A i \in DOMAIN s : s[i] \in Messages
        BY <2>3, ElementOfSeq
      <3> QED BY <3>1, <3>2, <1>n DEF Numbered, Messages
    <2> HIDE DEF s, t
    <2>7. \A i \in DOMAIN t : t[i].from = c /\ t[i].n <= wrote'[c]
      <3> SUFFICES ASSUME NEW i \in DOMAIN t PROVE t[i].from = c /\ t[i].n <= wrote'[c]
        OBVIOUS
      <3>1. CASE i \in 1..Len(s)
        BY <3>1, <2>2, <2>4, <2>5, <2>6
      <3>2. CASE i = Len(s) + 1
        BY <3>2, <2>2, <2>4, <2>5
      <3> QED BY <3>1, <3>2, <2>4
    <2>8. \A i, j \in DOMAIN t : i < j => t[i].n < t[j].n
      <3> SUFFICES ASSUME NEW i \in DOMAIN t, NEW j \in DOMAIN t, i < j PROVE t[i].n < t[j].n
        OBVIOUS
      <3>1. i \in 1..Len(s)
        BY <2>4
      <3>2. CASE j \in 1..Len(s)
        BY <3>1, <3>2, <2>4, <2>6
      <3>3. CASE j = Len(s) + 1
        BY <3>1, <3>3, <2>2, <2>4, <2>6
      <3> QED BY <3>2, <3>3, <2>4
    <2>9. \A x \in Range(read[c]) :
            x.from = c /\ x.n <= wrote'[c] /\ \A j \in DOMAIN t : x.n < t[j].n
      <3> SUFFICES ASSUME NEW x \in Range(read[c])
                   PROVE  x.from = c /\ x.n <= wrote'[c] /\ \A j \in DOMAIN t : x.n < t[j].n
        OBVIOUS
      <3>1. x.from = c /\ x.n <= wrote'[c]
        BY <2>2, <2>5, <2>6
      <3>2. ASSUME NEW j \in DOMAIN t PROVE x.n < t[j].n
        <4>1. CASE j \in 1..Len(s)
          BY <4>1, <2>4, <2>6
        <4>2. CASE j = Len(s) + 1
          BY <4>2, <2>2, <2>4, <2>6
        <4> QED BY <4>1, <4>2, <2>4
      <3> QED BY <3>1, <3>2
    <2>10. Numbered'
      <3> SUFFICES ASSUME NEW d \in Conns
                   PROVE  /\ \A i \in DOMAIN inbox'[d] :
                                inbox'[d][i].from = d /\ inbox'[d][i].n <= wrote'[d]
                          /\ \A i, j \in DOMAIN inbox'[d] :
                                i < j => inbox'[d][i].n < inbox'[d][j].n
                          /\ \A x \in Range(read[d]) :
                                /\ x.from = d /\ x.n <= wrote'[d]
                                /\ \A j \in DOMAIN inbox'[d] : x.n < inbox'[d][j].n
        BY <2>1 DEF Numbered
      <3>1. CASE d = c
        BY <3>1, <2>7, <2>8, <2>9 DEF t
      <3>2. CASE d # c
        BY <3>2, <2>5, <1>n DEF Numbered
      <3> QED BY <3>1, <3>2
    <2> QED BY <2>1, <2>10, <1>u, <1>i DEF FInv
  <1>2. ASSUME NEW c \in Conns, Break(c) PROVE FInv'
    <2>1. /\ UNCHANGED <<wrote, read, rest, message, put>>
          /\ \A d \in Conns : inbox'[d] = inbox[d] \/ inbox'[d] = <<>>
      BY <1>2, <1>i DEF Break, readers, TypeOK
    <2>2. Numbered'
      BY <2>1, <1>n DEF Numbered
    <2> QED BY <2>1, <2>2, <1>u, <1>i DEF FInv
  <1>5. ASSUME NEW c \in Conns, GetMessage(c) PROVE FInv'
    <2> DEFINE s == inbox[c]
               m == Head(inbox[c])
    <2>1. s \in Seq(Messages) /\ s # <<>> /\ message[c] = None
      BY <1>5, <1>i DEF GetMessage, TypeOK
    <2>2. /\ m \in Messages /\ m = s[1] /\ Len(s) \in Nat \ {0} /\ DOMAIN s = 1..Len(s)
          /\ Tail(s) \in Seq(Messages) /\ DOMAIN Tail(s) = 1..(Len(s) - 1)
          /\ \A i \in 1..(Len(s) - 1) : Tail(s)[i] = s[i + 1]
      BY <2>1
    <2>3. rest[c] = {}
      BY <2>1, <1>i DEF Forwarding
    <2>4. /\ rest' = [rest EXCEPT ![c] = Recipients(m)]
          /\ message' = [message EXCEPT ![c] = IF Recipients(m) = {} THEN None ELSE m]
          /\ read' = [read EXCEPT ![c] = Append(@, m)]
          /\ inbox' = [inbox EXCEPT ![c] = Tail(@)]
          /\ UNCHANGED <<wrote, put>>
      BY <1>5 DEF GetMessage
    <2>5. /\ \A i \in DOMAIN s : s[i].from = c /\ s[i].n <= wrote[c]
          /\ \A i, j \in DOMAIN s : i < j => s[i].n < s[j].n
          /\ \A x \in Range(read[c]) : x.from = c /\ x.n <= wrote[c]
          /\ \A x \in Range(read[c]), j \in DOMAIN s : x.n < s[j].n
      BY <1>n DEF Numbered
    <2>6. 1 \in DOMAIN s /\ m.from = c /\ m.n <= wrote[c]
      BY <2>2, <2>5
    <2>7. \A x \in Range(read[c]) : x.n < m.n
      BY <2>2, <2>5, <2>6
    <2>n. m.n \in Nat /\ \A x \in Range(read[c]) : x \in Messages /\ x.n \in Nat
      <3>1. Range(read[c]) \subseteq Messages
        BY <1>i, RangeOfSeq DEF TypeOK
      <3> QED BY <3>1, <2>2 DEF Messages
    <2>8. m \notin Range(read[c])
      BY <2>7, <2>n
    <2>9. /\ Range(read'[c]) = Range(read[c]) \cup {m}
          /\ \A d \in Conns \ {c} : read'[d] = read[d] /\ inbox'[d] = inbox[d]
                                    /\ rest'[d] = rest[d] /\ message'[d] = message[d]
          /\ inbox'[c] = Tail(s) /\ rest'[c] = Recipients(m)
          /\ Recipients(m) # {} => message'[c] = m
      <3>1. read'[c] = Append(read[c], m) /\ read[c] \in Seq(Messages)
        BY <2>4, <1>i DEF TypeOK
      <3>2. Range(read'[c]) = Range(read[c]) \cup {m}
        BY <3>1, <2>2, RangeAppend
      <3> QED BY <3>2, <2>4, <1>i DEF TypeOK
    <2> HIDE DEF m, s
    <2>10. \A i \in DOMAIN Tail(s) : i + 1 \in DOMAIN s /\ Tail(s)[i] = s[i + 1] /\ i \in Nat /\ 1 < i + 1
      BY <2>2
    <2>11. Numbered'
      <3> SUFFICES ASSUME NEW d \in Conns
                   PROVE  /\ \A i \in DOMAIN inbox'[d] :
                                inbox'[d][i].from = d /\ inbox'[d][i].n <= wrote[d]
                          /\ \A i, j \in DOMAIN inbox'[d] :
                                i < j => inbox'[d][i].n < inbox'[d][j].n
                          /\ \A x \in Range(read'[d]) :
                                /\ x.from = d /\ x.n <= wrote[d]
                                /\ \A j \in DOMAIN inbox'[d] : x.n < inbox'[d][j].n
        BY <2>4 DEF Numbered
      <3>1. CASE d # c
        BY <3>1, <2>9, <1>n DEF Numbered
      <3>2. CASE d = c
        <4>1. \A i \in DOMAIN Tail(s) : Tail(s)[i].from = c /\ Tail(s)[i].n <= wrote[c]
          BY <2>5, <2>10
        <4>2. \A i, j \in DOMAIN Tail(s) : i < j => Tail(s)[i].n < Tail(s)[j].n
          BY <2>5, <2>10
        <4>3. \A x \in Range(read[c]), j \in DOMAIN Tail(s) : x.n < Tail(s)[j].n
          BY <2>5, <2>10
        <4>4. \A j \in DOMAIN Tail(s) : m.n < Tail(s)[j].n
          BY <2>2, <2>5, <2>6, <2>10
        <4> QED BY <3>2, <4>1, <4>2, <4>3, <4>4, <2>5, <2>6, <2>9
      <3> QED BY <3>1, <3>2
    <2>12. ForwardsLast'
      <3> SUFFICES ASSUME NEW d \in Conns, rest'[d] # {}
                   PROVE  /\ rest'[d] \subseteq Recipients(message'[d])
                          /\ message'[d] \in Range(read'[d])
                          /\ \A x \in Range(read'[d]) : x = message'[d] \/ x.n < message'[d].n
        BY DEF ForwardsLast, Recipients
      <3>1. CASE d # c
        BY <3>1, <2>9, <1>n DEF ForwardsLast
      <3>2. CASE d = c
        BY <3>2, <2>7, <2>9
      <3> QED BY <3>1, <3>2
    <2>13. ASSUME NEW d \in Conns, NEW v \in Users PROVE Channel(put'[v], d, Due(d, v)')
      <3>1. Due(d, v)' = {x \in Range(read'[d]) : v \in Recipients(x)}
                            \ (IF v \in rest'[d] THEN {message'[d]} ELSE {})
        BY DEF Due, Recipients
      <3>2. Due(d, v)' = Due(d, v)
        <4>1. CASE d # c
          BY <4>1, <3>1, <2>9 DEF Due
        <4>2. CASE d = c /\ v \in Recipients(m)
          BY <4>2, <3>1, <2>3, <2>8, <2>9 DEF Due
        <4>3. CASE d = c /\ v \notin Recipients(m)
          BY <4>3, <3>1, <2>3, <2>9 DEF Due
        <4> QED BY <4>1, <4>2, <4>3
      <3> QED BY <3>2, <2>4, <1>c
    <2>14. ForwardedInOrder'
      BY <2>13 DEF ForwardedInOrder, From, Channel, Due, Recipients
    <2> QED BY <2>11, <2>12, <2>14, <1>i DEF FInv
  <1>6. ASSUME NEW c \in Conns, NEW v \in Users, Forward(c, v) PROVE FInv'
    <2> DEFINE m == message[c]
    <2>1. /\ v \in rest[c]
          /\ put' = [put EXCEPT ![v] = Append(@, m)]
          /\ rest' = [rest EXCEPT ![c] = @ \ {v}]
          /\ message' = [message EXCEPT ![c] = IF rest[c] = {v} THEN None ELSE @]
          /\ UNCHANGED <<wrote, inbox, read>>
      BY <1>6 DEF Forward
    <2>2. m \in Messages
      BY <2>1, <1>i DEF Forwarding, TypeOK
    <2>3. /\ rest[c] \subseteq Recipients(m) /\ m \in Range(read[c]) /\ m.from = c
          /\ \A x \in Range(read[c]) : x = m \/ x.n < m.n
      BY <2>1, <1>n DEF ForwardsLast, Numbered
    <2> HIDE DEF m
    <2>4. /\ put'[v] = Append(put[v], m) /\ put[v] \in Seq(Messages)
          /\ \A w \in Users \ {v} : put'[w] = put[w]
          /\ rest'[c] = rest[c] \ {v} /\ \A d \in Conns \ {c} : rest'[d] = rest[d] /\ message'[d] = message[d]
          /\ rest'[c] # {} => message'[c] = m
      BY <2>1, <1>i DEF TypeOK, m
    <2>5. Numbered'
      BY <2>1, <1>n DEF Numbered
    <2>6. ForwardsLast'
      <3> SUFFICES ASSUME NEW d \in Conns, rest'[d] # {}
                   PROVE  /\ rest'[d] \subseteq Recipients(message'[d])
                          /\ message'[d] \in Range(read[d])
                          /\ \A x \in Range(read[d]) : x = message'[d] \/ x.n < message'[d].n
        BY <2>1 DEF ForwardsLast, Recipients
      <3>1. CASE d # c
        BY <3>1, <2>4, <1>n DEF ForwardsLast
      <3>2. CASE d = c
        BY <3>2, <2>3, <2>4
      <3> QED BY <3>1, <3>2
    <2>7. ASSUME NEW d \in Conns, NEW w \in Users PROVE Channel(put'[w], d, Due(d, w)')
      <3>1. Due(d, w)' = {x \in Range(read[d]) : w \in Recipients(x)}
                            \ (IF w \in rest'[d] THEN {message'[d]} ELSE {})
        BY <2>1 DEF Due, Recipients
      <3>2. CASE d = c /\ w = v
        <4>1. Due(c, v) = {x \in Range(read[c]) : v \in Recipients(x)} \ {m}
          BY <2>1 DEF Due, m
        <4>2. Due(c, v)' = Due(c, v) \cup {m}
          BY <4>1, <3>1, <3>2, <2>1, <2>3, <2>4
        <4>3. \A x \in Due(c, v) : x.n < m.n
          BY <4>1, <2>3
        <4>4. Channel(Append(put[v], m), c, Due(c, v) \cup {m})
          BY <4>3, <2>2, <2>3, <2>4, <1>c, ChannelAppend
        <4> QED BY <3>2, <4>2, <4>4, <2>4
      <3>3. CASE d = c /\ w # v
        <4>1. Due(c, w)' = Due(c, w)
          BY <3>1, <3>3, <2>4 DEF Due, m
        <4> QED BY <3>3, <4>1, <2>4, <1>c
      <3>4. CASE d # c
        <4>1. Due(d, w)' = Due(d, w)
          BY <3>1, <3>4, <2>4 DEF Due
        <4>2. CASE w = v
          <5>1. Channel(Append(put[v], m), d, Due(d, v))
            BY <3>4, <2>2, <2>3, <2>4, <1>c, ChannelAppend
          <5> QED BY <5>1, <4>1, <4>2, <2>4
        <4>3. CASE w # v
          BY <4>1, <4>3, <2>4, <1>c
        <4> QED BY <4>2, <4>3
      <3> QED BY <3>2, <3>3, <3>4
    <2>8. ForwardedInOrder'
      BY <2>7 DEF ForwardedInOrder, From, Channel, Due, Recipients
    <2> QED BY <2>5, <2>6, <2>8, <1>i DEF FInv
  <1>7. CASE UNCHANGED <<wrote, inbox, read, rest, message, put>>
    <2>1. Numbered'
      BY <1>7, <1>n DEF Numbered
    <2> QED BY <1>7, <2>1, <1>u, <1>i DEF FInv
  <1> QED BY <1>1, <1>2, <1>5, <1>6, <1>7 DEF Next, ReaderStep, WriterStep, readers, vars,
          Handle, EndRegistration, ReaderFails, ReaderTerminated, StopReader, TakeSocket,
          TakeMessage, Write, Flush, SendFails

\* The order of every connection is kept in every reachable state.
LEMMA OrderIsSound == Spec => []FInv
  BY InitFInv, NextFInv, PTL DEF Spec

\* Every recipient's channel gets all messages of a connection, once and in
\* the order they were written, for groups of any size.
THEOREM EveryRecipientInOrder == Spec => []ForwardedInOrder
  <1>1. FInv => ForwardedInOrder
    BY DEF FInv
  <1> QED BY OrderIsSound, <1>1, PTL
-----------------------------------------------------------------------------
(***************************************************************************)
(* From the channels to the clients.                                       *)
(***************************************************************************)
\* No message is in a channel twice.
Once(p) == \A k, l \in DOMAIN p : p[k] = p[l] => k = l

\* What was received was put among the first h messages of the channel.
Placed(p, rec, h) == \A i \in DOMAIN rec : \E k \in 1..h : k \in DOMAIN p /\ p[k] = rec[i].m

\* What was received later was put later, or is the same on another connection.
Ordered(p, rec) ==
    \A i, j \in DOMAIN rec : \A k, l \in DOMAIN p :
        i < j /\ p[k] = rec[i].m /\ p[l] = rec[j].m
            => k <= l /\ (rec[i].on = rec[j].on => k < l)

\* The message has not been received on the connection.
Fresh(rec, m, c) == \A i \in DOMAIN rec : rec[i].m = m => rec[i].on # c

\* How many messages the writer has logged or holds.
Taken(u) == IF cache[u] = None THEN Len(reported[u]) ELSE Len(reported[u]) + 1

\* The message held is only ever written to a connection on which it was not
\* received: to the present one while it is not on its way, and to the one in
\* the Updater or one handled later.
Writable ==
    \A u \in Users :
        /\ sock[u] # None => reader[sock[u]] # "none"
        /\ slot[u] # None => slot[u] # sock[u] /\ reader[slot[u]] # "none"
        /\ \A i \in DOMAIN received[u] : reader[received[u][i].on] # "none"
        /\ cache[u] # None =>
              /\ slot[u] # None => Fresh(received[u], cache[u], slot[u])
              /\ pc[u] = "write" \/ (pc[u] = "flush" /\ buffered[u])
                    => Fresh(received[u], cache[u], sock[u])

Delivered ==
    \A u \in Users : /\ Placed(put[u], received[u], Taken(u))
                     /\ Ordered(put[u], received[u])

RInv == Writable /\ Delivered

\* Messages of one connection have numbers of their own.
LEMMA PutOnce == TypeOK /\ ForwardedInOrder => \A u \in Users : Once(put[u])
  <1> SUFFICES ASSUME TypeOK, ForwardedInOrder, NEW u \in Users,
                      NEW k \in DOMAIN put[u], NEW l \in DOMAIN put[u],
                      put[u][k] = put[u][l], k # l
               PROVE  FALSE
    BY DEF Once
  <1>1. put[u] \in Seq(Messages) /\ k \in Nat /\ l \in Nat
    BY DEF TypeOK
  <1>2. put[u][k] \in Messages
    BY <1>1, ElementOfSeq
  <1>3. put[u][k].from \in Conns /\ put[u][k].n \in Nat
    BY <1>2 DEF Messages
  <1>4. k \in From(put[u][k].from, u) /\ l \in From(put[u][k].from, u)
    BY DEF From
  <1>5. k < l \/ l < k
    BY <1>1
  <1>6. put[u][k].n < put[u][k].n
    BY <1>3, <1>4, <1>5 DEF ForwardedInOrder
  <1> QED BY <1>3, <1>6

\* The message held is the next one put into the channel.
LEMMA HeldPlace ==
  ASSUME TypeOK, NothingLostInside, NEW u \in Users
  PROVE  /\ Len(reported[u]) \in Nat /\ Taken(u) \in Nat
         /\ cache[u] # None => /\ Len(reported[u]) + 1 \in DOMAIN put[u]
                               /\ put[u][Len(reported[u]) + 1] = cache[u]
  <1>1. /\ reported[u] \in Seq(Messages) /\ chan[u] \in Seq(Messages)
        /\ Len(reported[u]) \in Nat
    BY DEF TypeOK
  <1>2. Taken(u) \in Nat
    BY <1>1 DEF Taken
  <1>3. ASSUME cache[u] # None
        PROVE  /\ Len(reported[u]) + 1 \in DOMAIN put[u]
               /\ put[u][Len(reported[u]) + 1] = cache[u]
    <2>1. cache[u] \in Messages
      BY <1>3 DEF TypeOK
    <2>2. put[u] = (reported[u] \o <<cache[u]>>) \o chan[u]
      BY <1>3 DEF NothingLostInside, Held
    <2>3. ASSUME NEW a \in Seq(Messages), NEW e \in Messages, NEW b \in Seq(Messages)
          PROVE  /\ Len(a) + 1 \in DOMAIN ((a \o <<e>>) \o b)
                 /\ ((a \o <<e>>) \o b)[Len(a) + 1] = e
      OBVIOUS
    <2>4. /\ Len(reported[u]) + 1 \in DOMAIN ((reported[u] \o <<cache[u]>>) \o chan[u])
          /\ ((reported[u] \o <<cache[u]>>) \o chan[u])[Len(reported[u]) + 1] = cache[u]
      BY <2>1, <2>3, <1>1, Zenon
    <2> QED BY <2>2, <2>4, Zenon
  <1> QED BY <1>1, <1>2, <1>3

\* A channel that grows keeps the places.
LEMMA GrowChannel ==
  ASSUME NEW p \in Seq(Messages), NEW m \in Messages, NEW rec \in Seq(Arrivals), NEW h \in Nat,
         Once(Append(p, m)), Placed(p, rec, h), Ordered(p, rec)
  PROVE  Placed(Append(p, m), rec, h) /\ Ordered(Append(p, m), rec)
  <1> DEFINE t == Append(p, m)
  <1>1. /\ DOMAIN p = 1..Len(p) /\ DOMAIN t = 1..(Len(p) + 1) /\ Len(p) \in Nat
        /\ \A i \in 1..Len(p) : t[i] = p[i]
    BY RangeAppend
  <1>2. Once(t)
    OBVIOUS
  <1> HIDE DEF t
  <1>3. \A k \in DOMAIN p : k \in DOMAIN t /\ t[k] = p[k]
    BY <1>1
  <1>4. Placed(t, rec, h)
    BY <1>3 DEF Placed
  <1>5. ASSUME NEW i \in DOMAIN rec, NEW k \in DOMAIN t, t[k] = rec[i].m
        PROVE  k \in DOMAIN p /\ p[k] = rec[i].m
    <2>1. PICK q \in DOMAIN p : p[q] = rec[i].m
      BY DEF Placed
    <2>2. q = k
      BY <2>1, <1>2, <1>3, <1>5 DEF Once
    <2> QED BY <2>1, <2>2
  <1>6. Ordered(t, rec)
    BY <1>5 DEF Ordered
  <1> QED BY <1>4, <1>6 DEF t

\* An arrival of the message at place h, on a connection it had not come on.
LEMMA NewArrival ==
  ASSUME NEW p \in Seq(Messages), Once(p), NEW rec \in Seq(Arrivals), NEW h \in Nat,
         h \in DOMAIN p, NEW c \in Conns, p[h] \in Messages,
         Placed(p, rec, h), Ordered(p, rec), Fresh(rec, p[h], c)
  PROVE  /\ Placed(p, Append(rec, [m |-> p[h], on |-> c]), h)
         /\ Ordered(p, Append(rec, [m |-> p[h], on |-> c]))
  <1> DEFINE e == [m |-> p[h], on |-> c]
             t == Append(rec, e)
  <1>1. e \in Arrivals /\ e.m = p[h] /\ e.on = c
    BY DEF Arrivals
  <1> HIDE DEF e
  <1>2. /\ DOMAIN rec = 1..Len(rec) /\ DOMAIN t = 1..(Len(rec) + 1) /\ Len(rec) \in Nat
        /\ \A i \in 1..Len(rec) : t[i] = rec[i]
        /\ t[Len(rec) + 1] = e
    BY <1>1, RangeAppend
  <1> HIDE DEF t
  <1>3. DOMAIN p \subseteq Nat /\ h \in 1..h
    OBVIOUS
  <1>4. Placed(p, t, h)
    <2> SUFFICES ASSUME NEW i \in DOMAIN t PROVE \E k \in 1..h : k \in DOMAIN p /\ p[k] = t[i].m
      BY DEF Placed
    <2>1. CASE i \in DOMAIN rec
      BY <2>1, <1>2 DEF Placed
    <2>2. CASE i = Len(rec) + 1
      BY <2>2, <1>1, <1>2, <1>3
    <2> QED BY <2>1, <2>2, <1>2
  <1>5. ASSUME NEW i \in DOMAIN t, NEW j \in DOMAIN t, NEW k \in DOMAIN p, NEW l \in DOMAIN p,
               i < j, p[k] = t[i].m, p[l] = t[j].m
        PROVE  k <= l /\ (t[i].on = t[j].on => k < l)
    <2>1. i \in DOMAIN rec /\ t[i] = rec[i]
      BY <1>2, <1>5
    <2>2. CASE j \in DOMAIN rec
      BY <2>1, <2>2, <1>2, <1>5 DEF Ordered
    <2>3. CASE j = Len(rec) + 1
      <3>1. t[j].m = p[h] /\ t[j].on = c
        BY <2>3, <1>1, <1>2
      <3>2. l = h
        BY <3>1, <1>5 DEF Once
      <3>3. PICK q \in 1..h : q \in DOMAIN p /\ p[q] = rec[i].m
        BY <2>1 DEF Placed
      <3>4. q = k
        BY <3>3, <2>1, <1>5 DEF Once
      <3>5. k \in Nat /\ k <= h
        BY <3>3, <3>4
      <3>6. t[i].on = c => k # h
        BY <2>1, <1>5 DEF Fresh
      <3> QED BY <3>1, <3>2, <3>5, <3>6
    <2> QED BY <2>2, <2>3, <1>2
  <1>6. Ordered(p, t)
    BY <1>5 DEF Ordered
  <1> QED BY <1>4, <1>6 DEF t, e

\* The connection of an arrival is the one it is fresh on, or it was before.
LEMMA FreshAppend ==
  ASSUME NEW rec \in Seq(Arrivals), NEW m \in Messages, NEW c \in Conns
  PROVE  /\ \A x, d : Fresh(rec, x, d) /\ d # c => Fresh(Append(rec, [m |-> m, on |-> c]), x, d)
         /\ \A i \in DOMAIN Append(rec, [m |-> m, on |-> c]) :
               \/ i \in DOMAIN rec /\ Append(rec, [m |-> m, on |-> c])[i] = rec[i]
               \/ Append(rec, [m |-> m, on |-> c])[i].on = c
  <1> DEFINE e == [m |-> m, on |-> c]
             t == Append(rec, e)
  <1>1. e \in Arrivals /\ e.on = c
    BY DEF Arrivals
  <1> HIDE DEF e
  <1>2. /\ DOMAIN rec = 1..Len(rec) /\ DOMAIN t = 1..(Len(rec) + 1) /\ Len(rec) \in Nat
        /\ \A i \in 1..Len(rec) : t[i] = rec[i]
        /\ t[Len(rec) + 1] = e
    BY <1>1, RangeAppend
  <1> HIDE DEF t
  <1>3. \A i \in DOMAIN t : (i \in DOMAIN rec /\ t[i] = rec[i]) \/ t[i].on = c
    BY <1>1, <1>2
  <1>4. ASSUME NEW x, NEW d, Fresh(rec, x, d), d # c PROVE Fresh(t, x, d)
    BY <1>3, <1>4 DEF Fresh
  <1> QED BY <1>3, <1>4 DEF t, e

\* Nothing has been received.
LEMMA InitRInv == Init => RInv
  <1> SUFFICES ASSUME Init PROVE RInv
    OBVIOUS
  <1>1. DOMAIN <<>> = {}
    OBVIOUS
  <1>2. \A u \in Users : received[u] = <<>> /\ slot[u] = None /\ sock[u] = None /\ cache[u] = None
    BY DEF Init
  <1>3. Writable
    BY <1>1, <1>2 DEF Writable
  <1>4. Delivered
    BY <1>1, <1>2 DEF Delivered, Placed, Ordered
  <1> QED BY <1>3, <1>4 DEF RInv

\* Every step keeps the order in which clients receive.
LEMMA NextRInv == FInv /\ RInv /\ [Next]_vars => RInv'
  <1> SUFFICES ASSUME FInv, RInv, [Next]_vars PROVE RInv'
    OBVIOUS
  <1>i. /\ TypeOK /\ NothingLostInside /\ ForwardedInOrder /\ CacheEmpty /\ Forwarding
        /\ TypeOK' /\ NothingLostInside' /\ ForwardedInOrder'
    BY NextFInv DEF FInv, IInv
  <1>o. \A u \in Users : Once(put[u])
    BY <1>i, PutOnce
  <1>p. \A u \in Users : Once(put'[u])
    <2>1. (TypeOK /\ ForwardedInOrder => \A u \in Users : Once(put[u]))'
      BY PutOnce, PTL
    <2>2. (\A u \in Users : Once(put[u]))'
      BY <2>1, <1>i
    <2> QED BY <2>2 DEF Once
  <1>w. Writable /\ Delivered
    BY DEF RInv
  <1>t. ASSUME NEW u \in Users
        PROVE  /\ put[u] \in Seq(Messages) /\ received[u] \in Seq(Arrivals)
               /\ Len(reported[u]) \in Nat /\ Taken(u) \in Nat
               /\ cache[u] # None => /\ Len(reported[u]) + 1 \in DOMAIN put[u]
                                     /\ put[u][Len(reported[u]) + 1] = cache[u]
                                     /\ cache[u] \in Messages
    BY <1>i, HeldPlace DEF TypeOK
  <1>u. ASSUME UNCHANGED <<put, received, reported, cache>> PROVE Delivered'
    BY <1>u, <1>w DEF Delivered, Taken
  <1>1. ASSUME UNCHANGED <<put, received, reported, cache, slot, sock, pc, buffered>>,
               \A c \in Conns : reader[c] # "none" => reader'[c] # "none"
        PROVE  RInv'
    <2>1. \A u \in Users : /\ sock[u] \in Conns \cup {None} /\ slot[u] \in Conns \cup {None}
                           /\ \A i \in DOMAIN received[u] : received[u][i].on \in Conns
      <3>1. \A u \in Users : \A i \in DOMAIN received[u] : received[u][i] \in Arrivals
        BY <1>t, ElementOfSeq
      <3> QED BY <3>1, <1>i DEF TypeOK, Arrivals
    <2>2. Writable'
      BY <1>1, <2>1, <1>w DEF Writable
    <2> QED BY <2>2, <1>1, <1>u DEF RInv
  <1>3. ASSUME NEW c \in Conns, Handle(c) PROVE RInv'
    <2> DEFINE o == Owner[c]
    <2>1. o \in Users
      BY RelayAssumption
    <2> HIDE DEF o
    <2>2. /\ reader[c] = "none" /\ reader' = [reader EXCEPT ![c] = "waiting"]
          /\ slot' = [slot EXCEPT ![o] = c]
          /\ pc' = [pc EXCEPT ![o] = IF @ = "none" THEN "socket" ELSE @]
          /\ UNCHANGED <<put, received, reported, cache, sock, buffered>>
      BY <1>3 DEF Handle, o
    <2>3. \A d \in Conns : reader[d] # "none" => reader'[d] # "none"
      BY <2>2, <1>i DEF TypeOK
    <2>4. reader'[c] # "none" /\ c # None
      BY <2>2, <1>i, RelayAssumption DEF TypeOK
    <2>5. ASSUME NEW u \in Users
          PROVE  /\ sock[u] # None => reader'[sock[u]] # "none"
                 /\ slot'[u] # None => slot'[u] # sock[u] /\ reader'[slot'[u]] # "none"
                 /\ \A i \in DOMAIN received[u] : reader'[received[u][i].on] # "none"
                 /\ cache[u] # None =>
                       /\ slot'[u] # None => Fresh(received[u], cache[u], slot'[u])
                       /\ pc'[u] = "write" \/ (pc'[u] = "flush" /\ buffered[u])
                             => Fresh(received[u], cache[u], sock[u])
      <3>1. /\ sock[u] \in Conns \cup {None} /\ slot[u] \in Conns \cup {None}
            /\ \A i \in DOMAIN received[u] : received[u][i].on \in Conns
        <4>1. \A i \in DOMAIN received[u] : received[u][i] \in Arrivals
          BY <1>t, ElementOfSeq
        <4> QED BY <4>1, <1>i DEF TypeOK, Arrivals
      <3>2. /\ sock[u] # None => sock[u] # c /\ reader'[sock[u]] # "none"
            /\ \A i \in DOMAIN received[u] : /\ received[u][i].on # c
                                             /\ reader'[received[u][i].on] # "none"
        BY <3>1, <2>2, <2>3, <1>w DEF Writable
      <3>3. slot'[u] # None => slot'[u] # sock[u] /\ reader'[slot'[u]] # "none"
        <4>1. CASE u = o
          BY <4>1, <3>2, <2>1, <2>2, <2>4, <1>i DEF TypeOK
        <4>2. CASE u # o
          BY <4>2, <3>1, <2>2, <2>3, <1>i, <1>w DEF TypeOK, Writable
        <4> QED BY <4>1, <4>2
      <3>4. Fresh(received[u], cache[u], c)
        BY <3>2 DEF Fresh
      <3>5. slot'[u] = c \/ slot'[u] = slot[u]
        BY <2>1, <2>2, <1>i DEF TypeOK
      <3>6. pc'[u] \in {"write", "flush"} => pc'[u] = pc[u]
        BY <2>1, <2>2, <1>i DEF TypeOK
      <3> QED BY <3>2, <3>3, <3>4, <3>5, <3>6, <1>w DEF Writable
    <2>6. Writable'
      BY <2>2, <2>5 DEF Writable
    <2> QED BY <2>2, <2>6, <1>u DEF RInv
  <1>4. ASSUME NEW c \in Conns, NEW v \in Users, Forward(c, v) PROVE RInv'
    <2>1. /\ put' = [put EXCEPT ![v] = Append(@, message[c])] /\ v \in rest[c]
          /\ UNCHANGED <<received, reported, cache, slot, sock, pc, buffered, reader>>
      BY <1>4 DEF Forward, writers
    <2>2. message[c] \in Messages
      BY <2>1, <1>i DEF Forwarding, TypeOK
    <2>3. Writable'
      BY <2>1, <1>w DEF Writable
    <2>4. ASSUME NEW u \in Users
          PROVE  Placed(put'[u], received[u], Taken(u)) /\ Ordered(put'[u], received[u])
      <3>1. CASE u # v
        BY <3>1, <2>1, <1>i, <1>w DEF TypeOK, Delivered
      <3>2. CASE u = v
        <4>1. put'[v] = Append(put[v], message[c])
          BY <2>1, <1>i DEF TypeOK
        <4>2. Once(Append(put[v], message[c]))
          BY <4>1, <1>p
        <4>3. Placed(put[v], received[v], Taken(v)) /\ Ordered(put[v], received[v])
          BY <1>w DEF Delivered
        <4>4. put[v] \in Seq(Messages) /\ received[v] \in Seq(Arrivals) /\ Taken(v) \in Nat
          BY <1>t
        <4> QED BY <3>2, <4>1, <4>2, <4>3, <4>4, <2>2, GrowChannel
      <3> QED BY <3>1, <3>2
    <2>5. Delivered'
      BY <2>1, <2>4 DEF Delivered, Taken
    <2> QED BY <2>3, <2>5 DEF RInv
  <1>5. ASSUME NEW u \in Users, TakeSocket(u) PROVE RInv'
    <2>1. /\ sock' = [sock EXCEPT ![u] = slot[u]] /\ slot' = [slot EXCEPT ![u] = None]
          /\ pc' = [pc EXCEPT ![u] = IF cache[u] = None THEN "message" ELSE "write"]
          /\ slot[u] # None
          /\ UNCHANGED <<put, received, reported, cache, buffered, reader>>
      BY <1>5 DEF TakeSocket, readers
    <2>2. Writable'
      BY <2>1, <1>i, <1>w DEF Writable, TypeOK
    <2> QED BY <2>1, <2>2, <1>u DEF RInv
  <1>6. ASSUME NEW u \in Users, TakeMessage(u) PROVE RInv'
    <2>1. /\ pc[u] = "message" /\ chan[u] # <<>>
          /\ cache' = [cache EXCEPT ![u] = Head(chan[u])]
          /\ pc' = [pc EXCEPT ![u] = "write"]
          /\ chan' = [chan EXCEPT ![u] = Tail(@)]
          /\ UNCHANGED <<put, received, reported, slot, sock, buffered, reader>>
      BY <1>6 DEF TakeMessage, readers
    <2>2. cache[u] = None /\ cache'[u] = Head(chan[u]) /\ chan[u] \in Seq(Messages)
      BY <2>1, <1>i DEF CacheEmpty, TypeOK
    <2>3. cache'[u] \in Messages /\ cache'[u] # None
      BY <2>1, <2>2, NoneIsNoMessage
    <2>4. /\ Len(reported[u]) + 1 \in DOMAIN put[u]
          /\ put[u][Len(reported[u]) + 1] = cache'[u]
      <3>1. reported[u] \in Seq(Messages) /\ put[u] = (reported[u] \o <<>>) \o chan[u]
        BY <2>2, <1>i DEF TypeOK, NothingLostInside, Held
      <3>2. ASSUME NEW a \in Seq(Messages), NEW b \in Seq(Messages), b # <<>>
            PROVE  /\ Len(a) + 1 \in DOMAIN ((a \o <<>>) \o b)
                   /\ ((a \o <<>>) \o b)[Len(a) + 1] = Head(b)
        BY <3>2
      <3> QED BY <3>1, <3>2, <2>1, <2>2
    <2>5. ASSUME NEW i \in DOMAIN received[u] PROVE received[u][i].m # cache'[u]
      <3>1. PICK k \in 1..Len(reported[u]) : k \in DOMAIN put[u] /\ put[u][k] = received[u][i].m
        BY <2>2, <1>w DEF Delivered, Placed, Taken
      <3>2. k # Len(reported[u]) + 1
        BY <3>1, <1>t
      <3> QED BY <3>1, <3>2, <2>4, <1>o DEF Once
    <2>6. \A c : Fresh(received[u], cache'[u], c)
      BY <2>5 DEF Fresh
    <2>7. ASSUME NEW v \in Users, v # u PROVE cache'[v] = cache[v] /\ pc'[v] = pc[v]
      BY <2>1, <2>7, <1>i DEF TypeOK
    <2>8. Writable'
      <3> SUFFICES ASSUME NEW v \in Users
                   PROVE  cache'[v] # None =>
                            /\ slot[v] # None => Fresh(received[v], cache'[v], slot[v])
                            /\ pc'[v] = "write" \/ (pc'[v] = "flush" /\ buffered[v])
                                  => Fresh(received[v], cache'[v], sock[v])
        BY <2>1, <1>w DEF Writable
      <3>1. CASE v = u
        BY <3>1, <2>6
      <3>2. CASE v # u
        BY <3>2, <2>7, <1>w DEF Writable
      <3> QED BY <3>1, <3>2
    <2>9. ASSUME NEW v \in Users PROVE Placed(put[v], received[v], Taken(v)')
      <3>1. CASE v = u
        <4>1. Taken(u) = Len(reported[u]) /\ Taken(u)' = Len(reported[u]) + 1
          BY <2>1, <2>2, <2>3 DEF Taken
        <4>2. 1..Len(reported[u]) \subseteq 1..(Len(reported[u]) + 1)
          BY <1>t
        <4>3. Placed(put[u], received[u], Len(reported[u]))
          BY <4>1, <1>w DEF Delivered
        <4> QED BY <3>1, <4>1, <4>2, <4>3 DEF Placed
      <3>2. CASE v # u
        <4>1. Taken(v)' = Taken(v)
          BY <3>2, <2>1, <2>7 DEF Taken
        <4> QED BY <4>1, <1>w DEF Delivered
      <3> QED BY <3>1, <3>2
    <2>10. Delivered'
      BY <2>1, <2>9, <1>w DEF Delivered
    <2> QED BY <2>8, <2>10 DEF RInv
  <1>r. ASSUME NEW u \in Users, pc[u] \in {"write", "flush"}, Receive(u),
               Fresh(received[u], cache[u], sock[u]),
               UNCHANGED <<put, slot, sock, reader>>
        PROVE  /\ cache[u] # None
               /\ \A v \in Users \ {u} : received'[v] = received[v]
               /\ Placed(put[u], received'[u], Len(reported[u]) + 1)
               /\ Ordered(put[u], received'[u])
               /\ slot[u] # None => Fresh(received'[u], cache[u], slot[u])
               /\ \A i \in DOMAIN received'[u] : reader[received'[u][i].on] # "none"
    <2>1. cache[u] \in Messages /\ sock[u] \in Conns /\ cache[u] # None
      BY <1>r, <1>i, NoneIsNoMessage DEF TypeOK
    <2>2. received'[u] = Append(received[u], [m |-> cache[u], on |-> sock[u]])
      BY <1>r, <1>i DEF Receive, TypeOK
    <2>3. /\ Len(reported[u]) + 1 \in DOMAIN put[u] /\ put[u][Len(reported[u]) + 1] = cache[u]
          /\ put[u] \in Seq(Messages) /\ received[u] \in Seq(Arrivals)
          /\ Len(reported[u]) + 1 \in Nat
      BY <2>1, <1>t
    <2>4. Placed(put[u], received[u], Len(reported[u]) + 1) /\ Ordered(put[u], received[u])
      BY <2>1, <1>w DEF Delivered, Taken
    <2>5. /\ Placed(put[u], received'[u], Len(reported[u]) + 1)
          /\ Ordered(put[u], received'[u])
      BY <2>1, <2>2, <2>3, <2>4, <1>o, <1>r, NewArrival
    <2>6. slot[u] # None => Fresh(received'[u], cache[u], slot[u])
      <3>1. slot[u] # None => slot[u] # sock[u] /\ Fresh(received[u], cache[u], slot[u])
        BY <2>1, <1>w DEF Writable
      <3> QED BY <3>1, <2>1, <2>2, <2>3, FreshAppend
    <2>7. \A i \in DOMAIN received'[u] : reader[received'[u][i].on] # "none"
      <3>1. \A i \in DOMAIN received'[u] :
               \/ i \in DOMAIN received[u] /\ received'[u][i] = received[u][i]
               \/ received'[u][i].on = sock[u]
        BY <2>1, <2>2, <2>3, FreshAppend
      <3>2. reader[sock[u]] # "none"
        BY <2>1, <1>w, RelayAssumption DEF Writable
      <3> QED BY <3>1, <3>2, <1>w DEF Writable
    <2>8. \A v \in Users \ {u} : received'[v] = received[v]
      BY <1>r, <1>i DEF Receive, TypeOK
    <2> QED BY <2>1, <2>5, <2>6, <2>7, <2>8
  <1>7. ASSUME NEW u \in Users, Write(u) PROVE RInv'
    <2>1. /\ pc[u] = "write" /\ pc' = [pc EXCEPT ![u] = "flush"]
          /\ UNCHANGED <<put, reported, cache, slot, sock, reader>>
      BY <1>7 DEF Write, readers
    <2>2. cache[u] # None /\ Fresh(received[u], cache[u], sock[u])
      BY <2>1, <1>i, <1>w DEF TypeOK, Writable
    <2>3. CASE Receive(u) /\ buffered' = [buffered EXCEPT ![u] = FALSE]
      <3>1. /\ \A v \in Users \ {u} : received'[v] = received[v]
            /\ Placed(put[u], received'[u], Len(reported[u]) + 1)
            /\ Ordered(put[u], received'[u])
            /\ slot[u] # None => Fresh(received'[u], cache[u], slot[u])
            /\ \A i \in DOMAIN received'[u] : reader[received'[u][i].on] # "none"
        BY <2>1, <2>2, <2>3, <1>r
      <3>2. /\ ~buffered'[u] /\ pc'[u] = "flush"
            /\ \A v \in Users \ {u} : buffered'[v] = buffered[v] /\ pc'[v] = pc[v]
        BY <2>1, <2>3, <1>i DEF TypeOK
      <3>3. Writable'
        <4> SUFFICES ASSUME NEW v \in Users
                     PROVE  /\ \A i \in DOMAIN received'[v] : reader[received'[v][i].on] # "none"
                            /\ cache[v] # None =>
                                 /\ slot[v] # None => Fresh(received'[v], cache[v], slot[v])
                                 /\ pc'[v] = "write" \/ (pc'[v] = "flush" /\ buffered'[v])
                                       => Fresh(received'[v], cache[v], sock[v])
          BY <2>1, <1>w DEF Writable
        <4>1. CASE v = u
          BY <4>1, <3>1, <3>2
        <4>2. CASE v # u
          BY <4>2, <3>1, <3>2, <1>w DEF Writable
        <4> QED BY <4>1, <4>2
      <3>4. Delivered'
        <4> SUFFICES ASSUME NEW v \in Users
                     PROVE  Placed(put[v], received'[v], Taken(v)) /\ Ordered(put[v], received'[v])
          BY <2>1 DEF Delivered, Taken
        <4>1. CASE v = u
          BY <4>1, <3>1, <2>2 DEF Taken
        <4>2. CASE v # u
          BY <4>2, <3>1, <1>w DEF Delivered
        <4> QED BY <4>1, <4>2
      <3> QED BY <3>3, <3>4 DEF RInv
    <2>4. CASE buffered' = [buffered EXCEPT ![u] = TRUE] /\ received' = received
      <3>1. Writable'
        <4> SUFFICES ASSUME NEW v \in Users
                     PROVE  cache[v] # None =>
                              (pc'[v] = "write" \/ (pc'[v] = "flush" /\ buffered'[v])
                                  => Fresh(received[v], cache[v], sock[v]))
          BY <2>1, <2>4, <1>w DEF Writable
        <4>1. CASE v = u
          BY <4>1, <2>2
        <4>2. CASE v # u
          BY <4>2, <2>1, <2>4, <1>i, <1>w DEF Writable, TypeOK
        <4> QED BY <4>1, <4>2
      <3> QED BY <3>1, <2>1, <2>4, <1>u DEF RInv
    <2> QED BY <1>7, <2>3, <2>4 DEF Write
  <1>8. ASSUME NEW u \in Users, Flush(u) PROVE RInv'
    <2>1. /\ pc[u] = "flush" /\ pc' = [pc EXCEPT ![u] = "message"]
          /\ reported' = [reported EXCEPT ![u] = Append(@, cache[u])]
          /\ cache' = [cache EXCEPT ![u] = None]
          /\ UNCHANGED <<put, slot, sock, buffered, reader>>
      BY <1>8 DEF Flush, readers
    <2>2. cache[u] # None /\ cache[u] \in Messages
      BY <2>1, <1>i DEF TypeOK
    <2>3. /\ \A v \in Users \ {u} : received'[v] = received[v]
          /\ Placed(put[u], received'[u], Len(reported[u]) + 1)
          /\ Ordered(put[u], received'[u])
          /\ \A i \in DOMAIN received'[u] : reader[received'[u][i].on] # "none"
      <3>1. CASE received' = received
        BY <3>1, <2>2, <1>w DEF Delivered, Taken, Writable
      <3>2. CASE buffered[u] /\ Receive(u)
        <4>1. Fresh(received[u], cache[u], sock[u])
          BY <3>2, <2>1, <2>2, <1>w DEF Writable
        <4> QED BY <3>2, <4>1, <2>1, <1>r
      <3> QED BY <1>8, <3>1, <3>2 DEF Flush
    <2>4. /\ cache'[u] = None /\ Len(reported'[u]) = Len(reported[u]) + 1
          /\ \A v \in Users \ {u} : cache'[v] = cache[v] /\ reported'[v] = reported[v] /\ pc'[v] = pc[v]
      BY <2>1, <2>2, <1>i DEF TypeOK
    <2>5. Writable'
      <3> SUFFICES ASSUME NEW v \in Users
                   PROVE  /\ \A i \in DOMAIN received'[v] : reader[received'[v][i].on] # "none"
                          /\ cache'[v] # None =>
                               /\ slot[v] # None => Fresh(received'[v], cache'[v], slot[v])
                               /\ pc'[v] = "write" \/ (pc'[v] = "flush" /\ buffered[v])
                                     => Fresh(received'[v], cache'[v], sock[v])
        BY <2>1, <1>w DEF Writable
      <3>1. CASE v = u
        BY <3>1, <2>3, <2>4
      <3>2. CASE v # u
        BY <3>2, <2>3, <2>4, <1>w DEF Writable
      <3> QED BY <3>1, <3>2
    <2>6. Delivered'
      <3> SUFFICES ASSUME NEW v \in Users
                   PROVE  Placed(put[v], received'[v], Taken(v)') /\ Ordered(put[v], received'[v])
        BY <2>1 DEF Delivered
      <3>1. CASE v = u
        <4>1. Taken(u)' = Len(reported[u]) + 1
          BY <2>4 DEF Taken
        <4> QED BY <3>1, <4>1, <2>3
      <3>2. CASE v # u
        <4>1. Taken(v)' = Taken(v)
          BY <3>2, <2>4 DEF Taken
        <4> QED BY <3>2, <4>1, <2>3, <1>w DEF Delivered
      <3> QED BY <3>1, <3>2
    <2> QED BY <2>5, <2>6 DEF RInv
  <1>9. ASSUME NEW u \in Users, SendFails(u) PROVE RInv'
    <2>1. /\ pc' = [pc EXCEPT ![u] = "socket"]
          /\ UNCHANGED <<put, received, reported, cache, slot, sock, buffered, reader>>
      BY <1>9 DEF SendFails, readers
    <2>2. Writable'
      BY <2>1, <1>i, <1>w DEF Writable, TypeOK
    <2> QED BY <2>1, <2>2, <1>u DEF RInv
  <1>10. CASE EndRegistration
    <2>1. UNCHANGED <<put, received, reported, cache, slot, sock, pc, buffered>>
      BY <1>10 DEF EndRegistration, writers
    <2>2. \A c \in Conns : reader[c] # "none" => reader'[c] # "none"
      BY <1>10 DEF EndRegistration
    <2> QED BY <2>1, <2>2, <1>1
  <1>11. ASSUME NEW c \in Conns, ReaderFails(c) \/ ReaderTerminated(c) PROVE RInv'
    <2>1. StopReader(c)
      BY <1>11 DEF ReaderFails, ReaderTerminated
    <2>2. UNCHANGED <<put, received, reported, cache, slot, sock, pc, buffered>>
      BY <2>1 DEF StopReader, writers
    <2>3. \A d \in Conns : reader[d] # "none" => reader'[d] # "none"
      BY <2>1, <1>i DEF StopReader, TypeOK
    <2> QED BY <2>2, <2>3, <1>1
  <1>12. CASE UNCHANGED <<put, received, reported, cache, slot, sock, pc, buffered, reader>>
    BY <1>12, <1>1
  <1> QED BY <1>3, <1>4, <1>5, <1>6, <1>7, <1>8, <1>9, <1>10, <1>11, <1>12
          DEF Next, ReaderStep, WriterStep, readers, writers, vars, ClientWrite, Break, GetMessage

\* Clients receive in order, over any number of broken connections: a message
\* comes again only on another connection.
THEOREM ClientsReceiveInOrder == Spec => []ReceivedInOrder
  <1>1. FInv /\ RInv => ReceivedInOrder
    <2> SUFFICES ASSUME FInv, RInv, NEW u \in Users, NEW i \in DOMAIN received[u],
                        NEW j \in DOMAIN received[u], i < j
                 PROVE  /\ Place(u, i) <= Place(u, j)
                        /\ received[u][i].on = received[u][j].on => Place(u, i) < Place(u, j)
      BY DEF ReceivedInOrder
    <2>1. \A k \in DOMAIN received[u] : \E l \in DOMAIN put[u] : put[u][l] = received[u][k].m
      BY DEF RInv, Delivered, Placed
    <2>2. \A k \in DOMAIN received[u] :
             Place(u, k) \in DOMAIN put[u] /\ put[u][Place(u, k)] = received[u][k].m
      BY <2>1 DEF Place
    <2> QED BY <2>2 DEF RInv, Delivered, Ordered
  <1>2. Spec => [](FInv /\ RInv)
    BY InitFInv, InitRInv, NextFInv, NextRInv, PTL DEF Spec
  <1> QED BY <1>1, <1>2, PTL
=============================================================================
