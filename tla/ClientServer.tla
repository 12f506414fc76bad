---------------------------- MODULE ClientServer ----------------------------
(***************************************************************************)
(* One conversation of the client (see Client) together with the server's  *)
(* writer task for that member (mgen/src/bin/mgen-server.rs:               *)
(* handle_handshake and send_messages), in the reconnection phase.         *)
(*                                                                         *)
(* Either side changes connections by itself.  The client opens a new one  *)
(* on any error and lets each half move when it fails.  At the server a    *)
(* task per connection finishes TLS and handshake in its own time and puts *)
(* the write half into the member's Updater; the writer stays with the     *)
(* socket it has until a write fails.  The question is whether the two     *)
(* sides end up on the same connection.                                    *)
(*                                                                         *)
(* What clients write to the server is left out: see ServerRelay.          *)
(***************************************************************************)
EXTENDS Client

CONSTANT MaxSent   \* bound on the messages others send to the member

ASSUME ServerAssumption == MaxSent \in Nat

VARIABLES arriving,   \* the connections whose handler has not finished
          srvSlot,    \* what the member's Updater at the server holds
          srvSock,    \* the writer's current_socket, 0 while it waits for one
          srvQueue,   \* messages in the member's channel or message_cache
          srvSent,    \* messages put into the channel (bound)
          overtaken,  \* a handler finished after that of a later connection (history)
          needless    \* the client left a connection that worked (history)

server == <<arriving, srvSlot, srvSock, srvQueue, srvSent, overtaken>>
sysVars == <<vars, server, needless>>

SysTypeOK ==
    /\ TypeOK
    /\ arriving \in SUBSET (1..conn)
    /\ srvSlot \in 0..conn /\ srvSock \in 0..conn
    /\ srvQueue \in Nat /\ srvSent \in Nat
    /\ overtaken \in BOOLEAN /\ needless \in BOOLEAN

SysInit ==
    /\ Init
    /\ arriving = {}
    /\ srvSlot = 0 /\ srvSock = 0
    /\ srvQueue = 0 /\ srvSent = 0
    /\ overtaken = FALSE /\ needless = FALSE

\* The halves of a connection are dropped one by one; it is closed when
\* nobody at the client holds either of them.
Closed(k) ==
    /\ k \notin {rdSlot, wrSlot, reader, writer}
    /\ ~(updater = "giveWriter" /\ k = conn)
Dead(k) == k \in broken \/ Closed(k)
-----------------------------------------------------------------------------
(***************************************************************************)
(* The client's steps, and what they mean to the server.                   *)
(***************************************************************************)
\* The handshake is written: the server has a handler for the connection.
Dial ==
    /\ Connect
    /\ arriving' = arriving \cup {conn + 1}
    /\ UNCHANGED <<srvSlot, srvSock, srvQueue, srvSent, overtaken, needless>>

\* socket_updater takes an error, maybe an old one of the other half.
Redial ==
    /\ HandleError
    /\ needless' = (needless \/ (updater' = "connect" /\ conn \notin broken))
    /\ UNCHANGED server

ClientStep ==
    /\ \/ ConnectFails \/ Retry \/ GiveWriter \/ ReaderTake \/ WriterTake
       \/ Write \/ WriteFails \/ StateSends
       \/ \E e \in {"Recoverable", "Fatal"} : ReaderFails(e)
       \/ \E k \in 1..conn : Break(k)
    /\ UNCHANGED <<server, needless>>
-----------------------------------------------------------------------------
(***************************************************************************)
(* The server.  An operator marked "variant" is a way the code could be    *)
(* wrong; it is used only to test that a property would notice.            *)
(***************************************************************************)
\* variant: the Updater keeps the socket it holds.
HandledKeeps(k) ==
    /\ k \in arriving
    /\ arriving' = arriving \ {k}
    /\ srvSlot' = IF srvSlot = 0 THEN k ELSE srvSlot
    /\ overtaken' = (overtaken \/ \E j \in (k + 1)..conn : j \notin arriving)
    /\ UNCHANGED <<vars, srvSock, srvQueue, srvSent, needless>>

\* handle_handshake comes to its end: the write half replaces what the
\* Updater holds.  A handshake that arrived is read although the connection
\* broke since.
Handled(k) ==
    /\ k \in arriving
    /\ arriving' = arriving \ {k}
    /\ srvSlot' = k
    /\ overtaken' = (overtaken \/ \E j \in (k + 1)..conn : j \notin arriving)
    /\ UNCHANGED <<vars, srvSock, srvQueue, srvSent, needless>>

\* acceptor.accept or get_handshake fails with the connection.
HandshakeLost(k) ==
    /\ k \in arriving /\ Dead(k)
    /\ arriving' = arriving \ {k}
    /\ UNCHANGED <<vars, srvSlot, srvSock, srvQueue, srvSent, overtaken, needless>>

\* socket_updater.recv() of send_messages.
SrvTake ==
    /\ srvSock = 0 /\ srvSlot # 0
    /\ srvSock' = srvSlot
    /\ srvSlot' = 0
    /\ UNCHANGED <<vars, arriving, srvQueue, srvSent, overtaken, needless>>

\* Another member's message is put into the channel.
Arrive ==
    /\ srvSent < MaxSent
    /\ srvSent' = srvSent + 1
    /\ srvQueue' = srvQueue + 1
    /\ UNCHANGED <<vars, arriving, srvSlot, srvSock, overtaken, needless>>

\* Written and flushed; on a dead connection it may vanish unnoticed.
SrvWrite ==
    /\ srvSock # 0 /\ srvQueue > 0
    /\ srvQueue' = srvQueue - 1
    /\ UNCHANGED <<vars, arriving, srvSlot, srvSock, srvSent, overtaken, needless>>

\* Writing or flushing fails: the message is kept, the socket is not.
SrvWriteFails ==
    /\ srvSock # 0 /\ Dead(srvSock) /\ srvQueue > 0
    /\ srvSock' = 0
    /\ UNCHANGED <<vars, arriving, srvSlot, srvQueue, srvSent, overtaken, needless>>

SysNext ==
    \/ Dial \/ Redial \/ ClientStep
    \/ \E k \in arriving : Handled(k) \/ HandshakeLost(k)
    \/ SrvTake \/ Arrive \/ SrvWrite \/ SrvWriteFails

\* Beside the client's fairness, the server's runtime runs its tasks.
SysFairness ==
    /\ Fairness
    /\ WF_sysVars(\E k \in arriving : Handled(k) \/ HandshakeLost(k))
    /\ WF_sysVars(SrvTake)
    /\ WF_sysVars(SrvWrite \/ SrvWriteFails)

SysSpec == SysInit /\ [][SysNext]_sysVars
FairSysSpec == SysSpec /\ SysFairness
-----------------------------------------------------------------------------
\* A writer that waits "for the new socket" (mgen-server.rs:446) gets one
\* while the client has a connection that works, unless a handler was
\* overtaken: then the Updater may have been given an older connection last,
\* and the newer write half is gone.
NotStranded ==
    srvSock = 0 /\ srvSlot = 0 /\ arriving = {} /\ ~overtaken
        => conn = 0 \/ Dead(conn)

\* The server does not go on writing to a connection that the client does
\* not read: the two sides come together although each changes connections
\* by itself and handlers finish in any order.  The one exception is a
\* client that, for an old error, left a connection that worked.
Heard == srvSock \in {0, reader} \/ Dead(srvSock) \/ updater = "fatal"
ServerIsHeard == ~Heard ~> (Heard \/ needless)
=============================================================================
