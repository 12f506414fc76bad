---------------------------- MODULE ServerRelay ----------------------------
(***************************************************************************)
(* The data path of the message server for one group                       *)
(* (mgen/src/bin/mgen-server.rs: get_messages, send_messages).             *)
(*                                                                         *)
(* Every connection has a reader task, which puts what it reads into the   *)
(* channels of the recipients.  Every member has one writer task, which    *)
(* takes messages from the member's channel and writes them to the socket  *)
(* it was last given; when that fails it keeps the message, tells the      *)
(* reader of the broken socket to stop and waits for another socket.       *)
(*                                                                         *)
(* Registration is abstracted to its outcome (see ServerHandshake): a      *)
(* connection is handled at some moment, in any order, its write half then *)
(* replaces whatever is in the member's Updater (see Mailbox), and its     *)
(* reader starts when the registration phase ends, or never.               *)
(***************************************************************************)
EXTENDS Naturals, Sequences, Functions

CONSTANTS Users,      \* the members of the group, all of whom register
          Conns,      \* the connections that they open
          Owner,      \* Owner[c]: whose connection c is
          None,       \* no socket, no message
          All,        \* the addressee of a normal message
          MaxWrites,  \* MaxWrites[c]: bound on what the client writes to c
          MayBreak    \* bound: the connections that may break

ASSUME RelayAssumption ==
    /\ Owner \in [Conns -> Users]
    /\ None \notin Conns /\ All \notin Users
    /\ MaxWrites \in [Conns -> Nat]

\* A message is known by the connection it came in on and its place there.
\* A receipt names its addressee, where a normal message names the group.
Messages == [from : Conns, n : Nat, to : Users \cup {All}]

\* A message that reached a client, and the connection it came in on.
Arrivals == [m : Messages, on : Conns]

ASSUME NoneIsNoMessage == None \notin Messages

VARIABLES ended,      \* the registration phase is over
          alive,      \* the sockets that work
          wrote,      \* how many messages the client wrote to a connection
          inbox,      \* what the server has yet to read from a connection
          reader,     \* where the reader task of a connection is
          message,    \* the message a reader is forwarding
          rest,       \* the members it has yet to put it into the channel of
          watch,      \* the connections whose socket_notify was notified
          chan,       \* the member's message channel
          slot,       \* what the member's Updater holds
          pc,         \* where the member's writer task is
          sock,       \* its current_socket
          cache,      \* the message it holds, also across sockets
          buffered,   \* the message is written, but not yet on its way
          read,       \* what was read from a connection (history)
          put,        \* what was put into a member's channel (history)
          reported,   \* what the writer logged as sent (history)
          received    \* what reached the client, and on which connection (history)

readers == <<reader, message, rest, read>>
writers == <<slot, pc, sock, cache, buffered, reported, received>>
vars == <<ended, alive, wrote, inbox, readers, watch, chan, put, writers>>

ReaderPcs == {"none", "waiting", "reading", "stopped"}
WriterPcs == {"none", "socket", "message", "write", "flush"}

TypeOK ==
    /\ ended \in BOOLEAN
    /\ alive \in SUBSET Conns
    /\ wrote \in [Conns -> Nat]
    /\ inbox \in [Conns -> Seq(Messages)]
    /\ reader \in [Conns -> ReaderPcs]
    /\ message \in [Conns -> Messages \cup {None}]
    /\ rest \in [Conns -> SUBSET Users]
    /\ watch \in SUBSET Conns
    /\ chan \in [Users -> Seq(Messages)]
    /\ slot \in [Users -> Conns \cup {None}]
    /\ pc \in [Users -> WriterPcs]
    /\ sock \in [Users -> Conns \cup {None}]
    /\ cache \in [Users -> Messages \cup {None}]
    /\ \A u \in Users : /\ pc[u] \in {"message", "write", "flush"} => sock[u] # None
                        /\ pc[u] \in {"write", "flush"} => cache[u] # None
    /\ buffered \in [Users -> BOOLEAN]
    /\ read \in [Conns -> Seq(Messages)]
    /\ put \in [Users -> Seq(Messages)]
    /\ reported \in [Users -> Seq(Messages)]
    /\ received \in [Users -> Seq(Arrivals)]

Init ==
    /\ ended = FALSE
    /\ alive = Conns
    /\ wrote = [c \in Conns |-> 0]
    /\ inbox = [c \in Conns |-> <<>>]
    /\ reader = [c \in Conns |-> "none"]
    /\ message = [c \in Conns |-> None]
    /\ rest = [c \in Conns |-> {}]
    /\ watch = {}
    /\ chan = [u \in Users |-> <<>>]
    /\ slot = [u \in Users |-> None]
    /\ pc = [u \in Users |-> "none"]
    /\ sock = [u \in Users |-> None]
    /\ cache = [u \in Users |-> None]
    /\ buffered = [u \in Users |-> FALSE]
    /\ read = [c \in Conns |-> <<>>]
    /\ put = [u \in Users |-> <<>>]
    /\ reported = [u \in Users |-> <<>>]
    /\ received = [u \in Users |-> <<>>]
-----------------------------------------------------------------------------
(***************************************************************************)
(* The clients and the network.  An operator marked "variant" is a way the *)
(* code could be wrong; it is used only to test that a property would      *)
(* notice.                                                                 *)
(***************************************************************************)
ClientWrite(c, to) ==
    /\ c \in alive
    /\ to # Owner[c]
    /\ wrote[c] < MaxWrites[c]
    /\ wrote' = [wrote EXCEPT ![c] = @ + 1]
    /\ inbox' = [inbox EXCEPT ![c] =
                    Append(@, [from |-> c, n |-> wrote[c] + 1, to |-> to])]
    /\ UNCHANGED <<ended, alive, readers, watch, chan, put, writers>>

\* A connection breaks; what was on its way may still be read, or not.
Break(c) ==
    /\ c \in alive \cap MayBreak
    /\ alive' = alive \ {c}
    /\ \/ UNCHANGED inbox
       \/ inbox' = [inbox EXCEPT ![c] = <<>>]
    /\ UNCHANGED <<ended, wrote, readers, watch, chan, put, writers>>

\* handle_handshake comes to its end for connection c.  The first of a
\* member registers it; later ones, also of sockets that broke meanwhile,
\* are reconnections.
Handle(c) ==
    /\ reader[c] = "none"
    /\ pc[Owner[c]] = "none" => ~ended
    /\ reader' = [reader EXCEPT ![c] = "waiting"]
    /\ slot' = [slot EXCEPT ![Owner[c]] = c]
    /\ pc' = [pc EXCEPT ![Owner[c]] = IF @ = "none" THEN "socket" ELSE @]
    /\ UNCHANGED <<ended, alive, wrote, inbox, message, rest, read, watch, chan,
                   put, sock, cache, buffered, reported, received>>

EndRegistration ==
    /\ ~ended
    /\ \A u \in Users : pc[u] # "none"
    /\ ended' = TRUE
    /\ reader' = [c \in Conns |->
                     IF reader[c] = "waiting" THEN "reading" ELSE reader[c]]
    /\ UNCHANGED <<alive, wrote, inbox, message, rest, read, watch, chan, put,
                   writers>>
-----------------------------------------------------------------------------
Recipients(m) == IF m.to = All THEN Users \ {Owner[m.from]} ELSE {m.to}

\* get_messages: the next message of the connection, and whom it is for.
GetMessage(c) ==
    /\ reader[c] = "reading" /\ message[c] = None
    /\ inbox[c] # <<>>
    /\ LET m == Head(inbox[c])
       IN  /\ read' = [read EXCEPT ![c] = Append(@, m)]
           /\ rest' = [rest EXCEPT ![c] = Recipients(m)]
           /\ message' = [message EXCEPT ![c] =
                             IF Recipients(m) = {} THEN None ELSE m]
    /\ inbox' = [inbox EXCEPT ![c] = Tail(@)]
    /\ UNCHANGED <<ended, alive, wrote, reader, watch, chan, put, writers>>

\* variant: every message is forwarded by a task of its own, so that it may
\* come into a channel before the one that was read before it.
Overtaking(q, m) ==
    IF q # <<>> /\ q[Len(q)].from = m.from
    THEN SubSeq(q, 1, Len(q) - 1) \o <<m, q[Len(q)]>> ELSE Append(q, m)
ForwardSpawned(c, v) ==
    /\ v \in rest[c]
    /\ chan' = [chan EXCEPT ![v] = Overtaking(@, message[c])]
    /\ put' = [put EXCEPT ![v] = Overtaking(@, message[c])]
    /\ rest' = [rest EXCEPT ![c] = @ \ {v}]
    /\ message' = [message EXCEPT ![c] = IF rest[c] = {v} THEN None ELSE @]
    /\ UNCHANGED <<ended, alive, wrote, inbox, reader, read, watch, writers>>

\* One turn of the loop over the channels; other readers run in between.
Forward(c, v) ==
    /\ v \in rest[c]
    /\ chan' = [chan EXCEPT ![v] = Append(@, message[c])]
    /\ put' = [put EXCEPT ![v] = Append(@, message[c])]
    /\ rest' = [rest EXCEPT ![c] = @ \ {v}]
    /\ message' = [message EXCEPT ![c] = IF rest[c] = {v} THEN None ELSE @]
    /\ UNCHANGED <<ended, alive, wrote, inbox, reader, read, watch, writers>>

StopReader(c) ==
    /\ message[c] = None
    /\ reader' = [reader EXCEPT ![c] = "stopped"]
    /\ UNCHANGED <<ended, alive, wrote, inbox, message, rest, read, watch, chan,
                   put, writers>>

\* get_messages meets the end of a broken connection.
ReaderFails(c) ==
    /\ reader[c] = "reading" /\ c \notin alive /\ inbox[c] = <<>>
    /\ StopReader(c)

\* variant: all connections of a member share one socket_notify.
ReaderTerminatedByOld(c) ==
    /\ reader[c] \in {"waiting", "reading"}
    /\ \E d \in watch : Owner[d] = Owner[c]
    /\ StopReader(c)

\* socket_notify makes select! drop get_messages, at an await of it only.
ReaderTerminated(c) ==
    /\ reader[c] \in {"waiting", "reading"}
    /\ c \in watch
    /\ StopReader(c)
-----------------------------------------------------------------------------
\* send_messages receives a socket from the Updater, and goes on with the
\* message it holds, if any.
TakeSocket(u) ==
    /\ pc[u] = "socket" /\ slot[u] # None
    /\ sock' = [sock EXCEPT ![u] = slot[u]]
    /\ slot' = [slot EXCEPT ![u] = None]
    /\ pc' = [pc EXCEPT ![u] = IF cache[u] = None THEN "message" ELSE "write"]
    /\ UNCHANGED <<ended, alive, wrote, inbox, readers, watch, chan, put, cache,
                   buffered, reported, received>>

TakeMessage(u) ==
    /\ pc[u] = "message" /\ chan[u] # <<>>
    /\ cache' = [cache EXCEPT ![u] = Head(chan[u])]
    /\ chan' = [chan EXCEPT ![u] = Tail(@)]
    /\ pc' = [pc EXCEPT ![u] = "write"]
    /\ UNCHANGED <<ended, alive, wrote, inbox, readers, watch, put, slot, sock,
                   buffered, reported, received>>

\* Written data is on its way to the client at once, stays in the TLS
\* buffer until it is flushed, or is lost on a socket that broke.
Receive(u) ==
    received' = [received EXCEPT ![u] = Append(@, [m |-> cache[u], on |-> sock[u]])]

Write(u) ==
    /\ pc[u] = "write"
    /\ pc' = [pc EXCEPT ![u] = "flush"]
    /\ \/ /\ sock[u] \in alive
          /\ Receive(u)
          /\ buffered' = [buffered EXCEPT ![u] = FALSE]
       \/ /\ buffered' = [buffered EXCEPT ![u] = TRUE]
          /\ UNCHANGED received
    /\ UNCHANGED <<ended, alive, wrote, inbox, readers, watch, chan, put, slot,
                   sock, cache, reported>>

\* variant: message_cache is not reset once a resend has succeeded.
FlushKeepsCache(u) ==
    /\ pc[u] = "flush"
    /\ pc' = [pc EXCEPT ![u] = "write"]
    /\ IF sock[u] \in alive /\ buffered[u] THEN Receive(u) ELSE UNCHANGED received
    /\ reported' = [reported EXCEPT ![u] = Append(@, cache[u])]
    /\ UNCHANGED <<ended, alive, wrote, inbox, readers, watch, chan, put, slot,
                   sock, cache, buffered>>

Flush(u) ==
    /\ pc[u] = "flush"
    /\ pc' = [pc EXCEPT ![u] = "message"]
    /\ IF sock[u] \in alive /\ buffered[u] THEN Receive(u) ELSE UNCHANGED received
    /\ reported' = [reported EXCEPT ![u] = Append(@, cache[u])]
    /\ cache' = [cache EXCEPT ![u] = None]
    /\ UNCHANGED <<ended, alive, wrote, inbox, readers, watch, chan, put, slot,
                   sock, buffered>>

\* variant: the message that could not be sent is forgotten.
SendFailsForgets(u) ==
    /\ pc[u] \in {"write", "flush"} /\ sock[u] \notin alive
    /\ pc' = [pc EXCEPT ![u] = "socket"]
    /\ watch' = watch \cup {sock[u]}
    /\ cache' = [cache EXCEPT ![u] = None]
    /\ UNCHANGED <<ended, alive, wrote, inbox, readers, chan, put, slot, sock,
                   buffered, reported, received>>

\* variant: the reader is not told.
SendFailsSilently(u) ==
    /\ pc[u] \in {"write", "flush"} /\ sock[u] \notin alive
    /\ pc' = [pc EXCEPT ![u] = "socket"]
    /\ UNCHANGED <<ended, alive, wrote, inbox, readers, watch, chan, put, slot,
                   sock, cache, buffered, reported, received>>

\* variant: the message is tried again on the socket that failed.
SendFailsRetries(u) ==
    /\ pc[u] \in {"write", "flush"} /\ sock[u] \notin alive
    /\ pc' = [pc EXCEPT ![u] = "write"]
    /\ watch' = watch \cup {sock[u]}
    /\ UNCHANGED <<ended, alive, wrote, inbox, readers, chan, put, slot, sock,
                   cache, buffered, reported, received>>

\* Writing or flushing fails: keep the message, notify the reader of the
\* socket, shut the socket down and wait for another one.
SendFails(u) ==
    /\ pc[u] \in {"write", "flush"} /\ sock[u] \notin alive
    /\ pc' = [pc EXCEPT ![u] = "socket"]
    /\ watch' = watch \cup {sock[u]}
    /\ UNCHANGED <<ended, alive, wrote, inbox, readers, chan, put, slot, sock,
                   cache, buffered, reported, received>>

ReaderStep(c) ==
    \/ GetMessage(c) \/ ReaderFails(c) \/ ReaderTerminated(c)
    \/ \E v \in Users : Forward(c, v)
WriterStep(u) ==
    TakeSocket(u) \/ TakeMessage(u) \/ Write(u) \/ Flush(u) \/ SendFails(u)

Next ==
    \/ EndRegistration
    \/ \E c \in Conns :
          \/ Break(c) \/ Handle(c) \/ ReaderStep(c)
          \/ \E to \in Users \cup {All} : ClientWrite(c, to)
    \/ \E u \in Users : WriterStep(u)

\* The runtime runs the tasks that can run.  Nothing is assumed of clients
\* and connections.
Fairness ==
    /\ \A c \in Conns : WF_vars(ReaderStep(c))
    /\ \A u \in Users : WF_vars(WriterStep(u))

Spec == Init /\ [][Next]_vars
FairSpec == Spec /\ Fairness
-----------------------------------------------------------------------------
Held(u) == IF cache[u] = None THEN <<>> ELSE <<cache[u]>>

\* message_cache does its work: what was put into a member's channel is
\* logged as sent, is held by the writer or is still queued, each message
\* once and in the order it was put, over any number of broken sockets.
NothingLostInside ==
    \A u \in Users : put[u] = reported[u] \o Held(u) \o chan[u]

\* Every recipient gets all messages of a connection, once and in the order
\* the client wrote them, however the loops of several readers over the same
\* channels interleave; only the one being forwarded may be still to come.
From(c, v) == {i \in DOMAIN put[v] : put[v][i].from = c}
ForwardedInOrder ==
    \A c \in Conns, v \in Users :
        /\ \A i, j \in From(c, v) : i < j => put[v][i].n < put[v][j].n
        /\ {put[v][i] : i \in From(c, v)} =
              {m \in Range(read[c]) : v \in Recipients(m)}
                  \ (IF v \in rest[c] THEN {message[c]} ELSE {})

\* A client sees no message after a later one, and sees a message again only
\* on another connection (the flush failed after the write had succeeded).
Place(u, i) == CHOOSE k \in DOMAIN put[u] : put[u][k] = received[u][i].m
ReceivedInOrder ==
    \A u \in Users : \A i, j \in DOMAIN received[u] : i < j =>
        /\ Place(u, i) <= Place(u, j)
        /\ received[u][i].on = received[u][j].on => Place(u, i) < Place(u, j)

\* mgen-server.rs:251: a reconnection gets a notify of its own, "else we get
\* race conditions": a writer that notices late that an old socket is broken
\* does not stop the reader of a connection that works.
WorkingReadersKept ==
    [][\A c \in alive : reader[c] # "stopped" => reader'[c] # "stopped"]_vars

\* mgen-server.rs:441 "notify the listening end to close": after a send has
\* failed the reader of that socket stops, even one that is busy.
BrokenReadersStop ==
    \A u \in Users, c \in Conns :
        (pc[u] = "socket" /\ sock[u] = c) ~> reader[c] = "stopped"

\* A member's messages do not wait while its Updater holds a socket.
MessagesMoveOn ==
    \A u \in Users :
        put[u] # reported[u] ~>
            (put[u] = reported[u] \/ (pc[u] = "socket" /\ slot[u] = None))
=============================================================================
