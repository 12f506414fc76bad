------------------------------- MODULE Client -------------------------------
(***************************************************************************)
(* The connection handling of one conversation of the client               *)
(* (mgen/src/bin/mgen-client.rs: reader, writer, socket_updater), which    *)
(* are tasks of their own.                                                 *)
(*                                                                         *)
(* socket_updater connects, gives the halves of the socket to the reader   *)
(* and the writer through two Updaters (see Mailbox), and waits for one    *)
(* error of either before it connects again.  The reader leaves a socket   *)
(* when reading fails, the writer only when a write fails, which may be    *)
(* much later.  Connections are numbered in the order they are made.       *)
(*                                                                         *)
(* What a reader hands to the state machine is an input of Conversation    *)
(* and no part of the state here; attachments go to the uploader, which    *)
(* has no influence on the other tasks.                                    *)
(***************************************************************************)
EXTENDS Integers, Sequences, FiniteSets

CONSTANTS MaxBreaks,    \* bound on the connections that break
          MaxMessages   \* bound on the messages of the state machine

ASSUME ClientAssumption == MaxBreaks \in Nat /\ MaxMessages \in Nat

VARIABLES updater,   \* where socket_updater is
          conn,      \* the last connection made, 0 before the first
          broken,    \* the connections that broke
          rdSlot,    \* what the reader's Updater holds, 0 for nothing
          wrSlot,    \* what the writer's Updater holds
          reader,    \* the connection the reader reads, 0 while it has none
          writer,    \* the connection the writer writes to, 0 while it has none
          errors,    \* the error channel
          queue,     \* number of messages waiting in the writer's channel
          handed     \* number of messages the state machine sent (bound)

vars == <<updater, conn, broken, rdSlot, wrSlot, reader, writer, errors, queue,
          handed>>
halves == <<rdSlot, wrSlot, reader, writer>>
messages == <<queue, handed>>

TypeOK ==
    /\ updater \in {"connect", "retry", "giveWriter", "wait", "fatal"}
    /\ conn \in Nat
    /\ broken \in SUBSET (1..conn)
    /\ rdSlot \in 0..conn /\ wrSlot \in 0..conn
    /\ reader \in 0..conn /\ writer \in 0..conn
    /\ errors \in Seq({"Recoverable", "Fatal"})
    /\ queue \in Nat /\ handed \in Nat

Init ==
    /\ updater = "connect"
    /\ conn = 0
    /\ broken = {}
    /\ rdSlot = 0 /\ wrSlot = 0
    /\ reader = 0 /\ writer = 0
    /\ errors = <<>>
    /\ queue = 0 /\ handed = 0
-----------------------------------------------------------------------------
(***************************************************************************)
(* socket_updater.  An operator marked "variant" is a way the code could   *)
(* be wrong; it is used only to test that a property would notice.         *)
(***************************************************************************)
\* variant: the reader keeps the half it may still have.
ConnectForWriter ==
    /\ updater = "connect"
    /\ conn' = conn + 1
    /\ rdSlot' = IF conn = 0 THEN 1 ELSE rdSlot
    /\ updater' = "giveWriter"
    /\ UNCHANGED <<broken, wrSlot, reader, writer, errors, messages>>

\* TCP, TLS and handshake succeed; the reader is given its half.
Connect ==
    /\ updater = "connect"
    /\ conn' = conn + 1
    /\ rdSlot' = conn + 1
    /\ updater' = "giveWriter"
    /\ UNCHANGED <<broken, wrSlot, reader, writer, errors, messages>>

\* TCP or TLS fails: sleep(retry), or give up if the proxy's error is fatal.
\* (A handshake that cannot be written is tried again at once.)
ConnectFails ==
    /\ updater = "connect"
    /\ updater' \in {"retry", "fatal"}
    /\ UNCHANGED <<conn, broken, halves, errors, messages>>

Retry ==
    /\ updater = "retry"
    /\ updater' = "connect"
    /\ UNCHANGED <<conn, broken, halves, errors, messages>>

\* variant: errors of the time before are cleared away.
GiveWriterDrains ==
    /\ updater = "giveWriter"
    /\ wrSlot' = conn
    /\ updater' = "wait"
    /\ errors' = <<>>
    /\ UNCHANGED <<conn, broken, rdSlot, reader, writer, messages>>

GiveWriter ==
    /\ updater = "giveWriter"
    /\ wrSlot' = conn
    /\ updater' = "wait"
    /\ UNCHANGED <<conn, broken, rdSlot, reader, writer, errors, messages>>

\* One error is taken, of whichever half and whichever connection.
HandleError ==
    /\ updater = "wait" /\ errors # <<>>
    /\ updater' = IF Head(errors) = "Fatal" THEN "fatal" ELSE "connect"
    /\ errors' = Tail(errors)
    /\ UNCHANGED <<conn, broken, halves, messages>>
-----------------------------------------------------------------------------
ReaderTake ==
    /\ reader = 0 /\ rdSlot # 0
    /\ reader' = rdSlot
    /\ rdSlot' = 0
    /\ UNCHANGED <<updater, conn, broken, wrSlot, writer, errors, messages>>

\* variant: the reader goes on with the socket that failed.
ReaderFailsStays(e) ==
    /\ reader # 0
    /\ e = "Recoverable" => reader \in broken
    /\ errors' = Append(errors, e)
    /\ UNCHANGED <<updater, conn, broken, halves, messages>>

\* get_message fails: the connection broke, or what came cannot be parsed.
ReaderFails(e) ==
    /\ reader # 0
    /\ e = "Recoverable" => reader \in broken
    /\ errors' = Append(errors, e)
    /\ reader' = 0
    /\ UNCHANGED <<updater, conn, broken, rdSlot, wrSlot, writer, messages>>

WriterTake ==
    /\ writer = 0 /\ wrSlot # 0
    /\ writer' = wrSlot
    /\ wrSlot' = 0
    /\ UNCHANGED <<updater, conn, broken, rdSlot, reader, errors, messages>>

\* A message is written; on a broken connection it may vanish unnoticed.
Write ==
    /\ writer # 0 /\ queue > 0
    /\ queue' = queue - 1
    /\ UNCHANGED <<updater, conn, broken, halves, errors, handed>>

\* variant: the error is not reported.
WriteFailsSilently ==
    /\ writer \in broken /\ queue > 0
    /\ queue' = queue - 1
    /\ writer' = 0
    /\ UNCHANGED <<updater, conn, broken, rdSlot, wrSlot, reader, errors, handed>>

\* Writing fails: the message is gone, and so is the socket.
WriteFails ==
    /\ writer \in broken /\ queue > 0
    /\ queue' = queue - 1
    /\ errors' = Append(errors, "Recoverable")
    /\ writer' = 0
    /\ UNCHANGED <<updater, conn, broken, rdSlot, wrSlot, reader, handed>>

\* The state machine hands a message to the writer.
StateSends ==
    /\ handed < MaxMessages
    /\ queue' = queue + 1
    /\ handed' = handed + 1
    /\ UNCHANGED <<updater, conn, broken, halves, errors>>

Break(k) ==
    /\ k \notin broken
    /\ Cardinality(broken) < MaxBreaks
    /\ broken' = broken \cup {k}
    /\ UNCHANGED <<updater, conn, halves, errors, messages>>

Next ==
    \/ Connect \/ ConnectFails \/ Retry \/ GiveWriter \/ HandleError
    \/ ReaderTake \/ WriterTake \/ Write \/ WriteFails \/ StateSends
    \/ \E e \in {"Recoverable", "Fatal"} : ReaderFails(e)
    \/ \E k \in 1..conn : Break(k)

\* The runtime runs the tasks, a reader notices that its connection broke,
\* and connecting succeeds at last if it is tried again and again.
Fairness ==
    /\ SF_vars(Connect) /\ WF_vars(Connect \/ ConnectFails)
    /\ WF_vars(Retry) /\ WF_vars(GiveWriter) /\ WF_vars(HandleError)
    /\ WF_vars(ReaderTake) /\ WF_vars(ReaderFails("Recoverable"))
    /\ WF_vars(WriterTake) /\ WF_vars(Write \/ WriteFails)

Spec == Init /\ [][Next]_vars
FairSpec == Spec /\ Fairness
-----------------------------------------------------------------------------
\* socket_updater has something to do, so both halves get a new socket.
Reconnecting == updater \in {"connect", "retry", "giveWriter"} \/ errors # <<>>

\* Neither half is forgotten: one that has no socket finds one in its
\* Updater, or a new connection is on its way, although socket_updater takes
\* one error per connection and the two halves fail at different times.
HalvesAreServed ==
    updater # "fatal" =>
        /\ reader = 0 => rdSlot # 0 \/ Reconnecting
        /\ writer = 0 => wrSlot # 0 \/ Reconnecting

\* No storm of reconnections: although an old error makes socket_updater
\* leave a connection that works, each connection that breaks costs at most
\* two new ones, one per half.
ReconnectsBounded == conn <= 1 + 2 * Cardinality(broken)

\* Once connections stop breaking, both halves come to have a socket, so that
\* the state machine's messages leave and those of others arrive.
HalvesGetSockets ==
    /\ reader = 0 ~> (reader # 0 \/ updater = "fatal")
    /\ writer = 0 ~> (writer # 0 \/ updater = "fatal")

\* mgen/README.md:83, "The number of seconds to wait after a network failure
\* before retrying": a new attempt after a failure comes after the wait.
RetryAfterWait ==
    [][updater # "connect" /\ updater' = "connect" => updater = "retry"]_vars
=============================================================================
