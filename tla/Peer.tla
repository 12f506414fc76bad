-------------------------------- MODULE Peer --------------------------------
(***************************************************************************)
(* Two users of the peer-to-peer program (mgen/src/bin/mgen-peer.rs) and   *)
(* the connections between them.                                           *)
(*                                                                         *)
(* Each has a listener, a reader and a writer task for the other.  A       *)
(* connection is made when a writer has a message and no socket: it takes  *)
(* the write half of an accepted connection if its Updater holds one, and  *)
(* dials otherwise.  Whoever dials gives the read half to its own reader;  *)
(* the listener of the other side gives both halves to its reader and      *)
(* writer, through Updaters (see Mailbox).  Reader and writer stay with    *)
(* the half they have until it fails, so that the two users may or may not *)
(* come to use the same connection.                                        *)
(*                                                                         *)
(* Connections are numbered in the order they are made.  A dropped write   *)
(* half shuts its direction down (tokio's OwnedWriteHalf), a connection    *)
(* both of whose halves are dropped is closed.  Messages are counted.      *)
(***************************************************************************)
EXTENDS Naturals, Sequences, FiniteSets

CONSTANTS Peers,        \* the two users
          MaxMessages,  \* MaxMessages[p]: bound on the messages p sends
          MaxFaults     \* bound on connections that break and attempts that fail

ASSUME PeerAssumption ==
    /\ Cardinality(Peers) = 2
    /\ MaxMessages \in [Peers -> Nat]
    /\ MaxFaults \in Nat

VARIABLES dialer,     \* dialer[k]: who made connection k
          broken,     \* the connections that broke
          unread,     \* unread[k][p]: messages to p on their way on k
          accepting,  \* connections that the listener of the other side has yet to accept
          listener,   \* the connection whose write half the listener still holds, or 0
          rdSlot,     \* what the reader's Updater holds, 0 for nothing
          wrSlot,     \* what the writer's Updater holds
          reader,     \* the connection the reader reads, 0 while it has none
          pc,         \* where the writer is
          stream,     \* its connection, 0 before the first
          taken,      \* messages the writer took from its channel (bound)
          fails,      \* attempts to connect that failed (bound)
          crossed     \* a connection was made beside one that worked or was young (history)

net == <<dialer, broken, unread, accepting>>
tasks == <<listener, rdSlot, wrSlot, reader>>
writers == <<pc, stream>>
vars == <<net, tasks, writers, taken, fails, crossed>>

Other(p) == CHOOSE q \in Peers : q # p
Conns == DOMAIN dialer

Pcs == {"message", "check", "dial", "sleep", "redial", "greeted", "write", "panicked", "exited"}

TypeOK ==
    /\ dialer \in Seq(Peers)
    /\ broken \in SUBSET Conns
    /\ unread \in Seq([Peers -> Nat]) /\ DOMAIN unread = Conns
    /\ accepting \in SUBSET Conns
    /\ \A s \in {listener, rdSlot, wrSlot, reader, stream} :
          s \in [Peers -> Conns \cup {0}]
    /\ pc \in [Peers -> Pcs]
    /\ taken \in [Peers -> Nat]
    /\ fails \in Nat /\ crossed \in BOOLEAN

Nobody == [p \in Peers |-> 0]

Init ==
    /\ dialer = <<>> /\ unread = <<>>
    /\ broken = {} /\ accepting = {}
    /\ listener = Nobody
    /\ rdSlot = Nobody /\ wrSlot = Nobody
    /\ reader = Nobody
    /\ pc = [p \in Peers |-> "message"]
    /\ stream = Nobody
    /\ taken = Nobody
    /\ fails = 0 /\ crossed = FALSE
-----------------------------------------------------------------------------
(***************************************************************************)
(* Who holds the halves of a connection at p.                              *)
(***************************************************************************)
Early(p, k) ==
    \/ k \in accepting /\ dialer[k] # p
    \/ pc[p] = "greeted" /\ stream[p] = k
HoldsWrite(p, k) == Early(p, k) \/ k \in {listener[p], wrSlot[p], stream[p]}
HoldsRead(p, k)  == Early(p, k) \/ k \in {rdSlot[p], reader[p]}

\* p closed connection k.
Closed(p, k) == ~HoldsWrite(p, k) /\ ~HoldsRead(p, k)

\* A connection that works, and one that is still being set up.
Works(k) == k \notin broken /\ \A p \in Peers : HoldsRead(p, k) /\ HoldsWrite(p, k)
Young(k) == \E p \in Peers : Early(p, k) \/ listener[p] = k
-----------------------------------------------------------------------------
(***************************************************************************)
(* The network.                                                            *)
(***************************************************************************)
MoreFaults == Cardinality(broken) + fails < MaxFaults

\* A connection breaks; what was on its way may still be read, or not.
Break(k) ==
    /\ k \notin broken
    /\ MoreFaults
    /\ broken' = broken \cup {k}
    /\ \/ UNCHANGED unread
       \/ unread' = [unread EXCEPT ![k] = Nobody]
    /\ UNCHANGED <<dialer, accepting, tasks, writers, taken, fails, crossed>>
-----------------------------------------------------------------------------
(***************************************************************************)
(* The listener.  An operator marked "variant" is a way the code could be  *)
(* wrong; it is used only to test that a property would notice.            *)
(***************************************************************************)
\* accept, parse_identifier and the first of the two Updaters.
Accept(p) ==
    /\ listener[p] = 0
    /\ \E k \in accepting :
          /\ dialer[k] # p
          /\ accepting' = accepting \ {k}
          /\ rdSlot' = [rdSlot EXCEPT ![p] = k]
          /\ listener' = [listener EXCEPT ![p] = k]
    /\ UNCHANGED <<dialer, broken, unread, wrSlot, reader, writers, taken, fails,
                   crossed>>

\* The name cannot be read: the connection is dropped, the loop goes on.
AcceptFails(p) ==
    /\ listener[p] = 0
    /\ \E k \in accepting \cap broken :
          /\ dialer[k] # p
          /\ accepting' = accepting \ {k}
    /\ UNCHANGED <<dialer, broken, unread, tasks, writers, taken, fails, crossed>>

GiveWriter(p) ==
    /\ listener[p] # 0
    /\ wrSlot' = [wrSlot EXCEPT ![p] = listener[p]]
    /\ listener' = [listener EXCEPT ![p] = 0]
    /\ UNCHANGED <<net, rdSlot, reader, writers, taken, fails, crossed>>
-----------------------------------------------------------------------------
(***************************************************************************)
(* The reader.                                                             *)
(***************************************************************************)
ReaderTake(p) ==
    /\ reader[p] = 0 /\ rdSlot[p] # 0
    /\ reader' = [reader EXCEPT ![p] = rdSlot[p]]
    /\ rdSlot' = [rdSlot EXCEPT ![p] = 0]
    /\ UNCHANGED <<net, listener, wrSlot, writers, taken, fails, crossed>>

Read(p) ==
    /\ reader[p] # 0
    /\ unread[reader[p]][p] > 0
    /\ unread' = [unread EXCEPT ![reader[p]][p] = @ - 1]
    /\ UNCHANGED <<dialer, broken, accepting, tasks, writers, taken, fails, crossed>>

\* get_message fails: the connection broke, or the other side will write no
\* more.  Nothing is done about it until there is a message to send.
ReaderFails(p) ==
    /\ reader[p] # 0
    /\ unread[reader[p]][p] = 0
    /\ reader[p] \in broken \/ ~HoldsWrite(Other(p), reader[p])
    /\ reader' = [reader EXCEPT ![p] = 0]
    /\ UNCHANGED <<net, listener, rdSlot, wrSlot, writers, taken, fails, crossed>>
-----------------------------------------------------------------------------
(***************************************************************************)
(* The writer.                                                             *)
(***************************************************************************)
\* messages_to_send.recv(): the state machine has sent a message.  The first
\* one is what the writer connects for.
TakeMessage(p) ==
    /\ pc[p] = "message" /\ taken[p] < MaxMessages[p]
    /\ taken' = [taken EXCEPT ![p] = @ + 1]
    /\ pc' = [pc EXCEPT ![p] = IF stream[p] = 0 THEN "check" ELSE "write"]
    /\ UNCHANGED <<net, tasks, stream, fails, crossed>>

\* A socket of the listener's, by maybe_recv or recv.
TakeSocket(p) ==
    /\ wrSlot[p] # 0
    /\ stream' = [stream EXCEPT ![p] = wrSlot[p]]
    /\ wrSlot' = [wrSlot EXCEPT ![p] = 0]
    /\ pc' = [pc EXCEPT ![p] = "write"]
    /\ UNCHANGED <<net, listener, rdSlot, reader, taken, fails, crossed>>

\* maybe_recv, "first check if the listener thread already has a socket".
Check(p) ==
    /\ pc[p] = "check"
    /\ \/ TakeSocket(p)
       \/ /\ wrSlot[p] = 0
          /\ pc' = [pc EXCEPT ![p] = "dial"]
          /\ UNCHANGED <<net, tasks, stream, taken, fails, crossed>>

\* The other branch of both select!s.
Interrupted(p) == pc[p] \in {"dial", "sleep"} /\ TakeSocket(p)

\* variant: after a failure only the listener's socket ends the wait.
SleptForever(p) ==
    /\ pc[p] = "sleep" /\ wrSlot[p] # 0
    /\ pc' = [pc EXCEPT ![p] = "redial"]
    /\ UNCHANGED <<net, tasks, stream, taken, fails, crossed>>

Slept(p) ==
    /\ pc[p] = "sleep"
    /\ pc' = [pc EXCEPT ![p] = "redial"]
    /\ UNCHANGED <<net, tasks, stream, taken, fails, crossed>>

\* connect() succeeds and the user's name is written.  The old stream is
\* dropped when it is replaced, which is only now.
Connect(p) ==
    /\ pc[p] \in {"dial", "redial"} /\ pc[Other(p)] # "exited"
    /\ dialer' = Append(dialer, p)
    /\ unread' = Append(unread, Nobody)
    /\ accepting' = accepting \cup {Len(dialer) + 1}
    /\ stream' = [stream EXCEPT ![p] = Len(dialer) + 1]
    /\ pc' = [pc EXCEPT ![p] = "greeted"]
    /\ crossed' = (crossed \/ \E k \in Conns : Works(k) \/ Young(k))
    /\ UNCHANGED <<broken, tasks, taken, fails>>

\* connect() fails, always when nobody listens any more: sleep and try again.
ConnectFails(p) ==
    /\ pc[p] \in {"dial", "redial"}
    /\ \/ pc[Other(p)] = "exited" /\ UNCHANGED fails
       \/ MoreFaults /\ fails' = fails + 1
    /\ pc' = [pc EXCEPT ![p] = "sleep"]
    /\ UNCHANGED <<net, tasks, stream, taken, crossed>>

\* The proxy's error is fatal, or the name cannot be written (by the ? of
\* establish_connection an I/O error is fatal the first time and recoverable
\* later): the writer panics and drops its stream.
ConnectPanics(p) ==
    /\ pc[p] \in {"dial", "redial"}
    /\ MoreFaults /\ fails' = fails + 1
    /\ pc' = [pc EXCEPT ![p] = "panicked"]
    /\ stream' = [stream EXCEPT ![p] = 0]
    /\ UNCHANGED <<net, tasks, taken, crossed>>

\* try_join_all returns the panic and the process ends: every half it holds is
\* dropped, and so are what it had yet to read and the connections it had yet to
\* accept.  (The two users run in processes of their own.)
Exit(p) ==
    /\ pc[p] = "panicked"
    /\ pc' = [pc EXCEPT ![p] = "exited"]
    /\ listener' = [listener EXCEPT ![p] = 0]
    /\ rdSlot' = [rdSlot EXCEPT ![p] = 0] /\ wrSlot' = [wrSlot EXCEPT ![p] = 0]
    /\ reader' = [reader EXCEPT ![p] = 0]
    /\ unread' = [k \in Conns |-> [unread[k] EXCEPT ![p] = 0]]
    /\ accepting' = {k \in accepting : dialer[k] = p}
    /\ UNCHANGED <<dialer, broken, stream, taken, fails, crossed>>

\* variant: the read half is not given to the reader.
GiveReaderNever(p) ==
    /\ pc[p] = "greeted"
    /\ pc' = [pc EXCEPT ![p] = "write"]
    /\ UNCHANGED <<net, tasks, stream, taken, fails, crossed>>

\* The dialler's own reader gets the read half.
GiveReader(p) ==
    /\ pc[p] = "greeted"
    /\ rdSlot' = [rdSlot EXCEPT ![p] = stream[p]]
    /\ pc' = [pc EXCEPT ![p] = "write"]
    /\ UNCHANGED <<net, listener, wrSlot, reader, stream, taken, fails, crossed>>

\* The message is written; on a dead connection it may vanish unnoticed.
Write(p) ==
    /\ pc[p] = "write"
    /\ pc' = [pc EXCEPT ![p] = "message"]
    /\ LET k == stream[p]
       IN  unread' = IF k \in broken \/ Closed(Other(p), k) THEN unread
                     ELSE [unread EXCEPT ![k][Other(p)] = @ + 1]
    /\ UNCHANGED <<dialer, broken, accepting, tasks, stream, taken, fails, crossed>>

\* The message is kept for the next connection.
WriteFails(p) ==
    /\ pc[p] = "write"
    /\ stream[p] \in broken \/ Closed(Other(p), stream[p])
    /\ pc' = [pc EXCEPT ![p] = "check"]
    /\ UNCHANGED <<net, tasks, stream, taken, fails, crossed>>

WriterStep(p) ==
    \/ Check(p) \/ Interrupted(p) \/ Slept(p)
    \/ Connect(p) \/ ConnectFails(p) \/ ConnectPanics(p) \/ GiveReader(p)
    \/ Write(p) \/ WriteFails(p) \/ Exit(p)
ReaderStep(p) == ReaderTake(p) \/ Read(p) \/ ReaderFails(p)
ListenerStep(p) == Accept(p) \/ AcceptFails(p) \/ GiveWriter(p)

Next ==
    \/ \E k \in Conns : Break(k)
    \/ \E p \in Peers :
          TakeMessage(p) \/ WriterStep(p) \/ ReaderStep(p) \/ ListenerStep(p)

\* The runtime runs the tasks.  Nothing is assumed of the state machines
\* and the network, except that faults are finitely many.
Fairness ==
    \A p \in Peers : /\ WF_vars(WriterStep(p))
                     /\ WF_vars(ReaderStep(p))
                     /\ WF_vars(ListenerStep(p))

Spec == Init /\ [][Next]_vars
FairSpec == Spec /\ Fairness
-----------------------------------------------------------------------------
\* Every message leaves: a writer with a message comes to a connection, its
\* own or the other side's, and writes it, unless it met a fatal error or the
\* other side's process did and is gone.
MessagesLeave ==
    \A p \in Peers :
        pc[p] # "message" ~>
            pc[p] \in {"message", "panicked", "exited"} \/ pc[Other(p)] = "exited"

Stuck(p) == \E k \in Conns \ broken : unread[k][p] > 0
\* What is written on a connection that works is read, although the readers
\* choose their connections by themselves, unless both sides dialled.
MessagesAreRead ==
    \A p \in Peers : Stuck(p) ~> (~Stuck(p) \/ crossed)

\* mgen-peer.rs:131, "The reader thread reads messages from the socket it has
\* been given": what arrives on such a socket is read at last.
GivenSocketsAreRead == \A p \in Peers : Stuck(p) ~> ~Stuck(p)
=============================================================================
