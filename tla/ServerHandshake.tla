-------------------------- MODULE ServerHandshake --------------------------
(***************************************************************************)
(* Registration and reconnection at the message server                     *)
(* (mgen/src/bin/mgen-server.rs: main_worker, handle_handshake,            *)
(* spawn_message_receiver and the prologue of get_messages).               *)
(*                                                                         *)
(* Every accepted connection is handled by a task of its own.  It looks    *)
(* its (sender, group) pair up in writer_db (WDB); a known pair is a       *)
(* reconnection, an unknown one is registered in snd_db (SDB) and in the   *)
(* table of its group (GSS), under tokio RwLocks.  It also spawns a reader *)
(* task, which waits for the end of the registration phase before it       *)
(* copies the table of its group.                                          *)
(*                                                                         *)
(* A step ends at an await.  A task that needs a lock first joins the      *)
(* lock's queue, and when it is granted the lock it runs up to its next    *)
(* await: what happens in between is protected by the lock or local.       *)
(* Guards are lexically scoped, so the locks a task holds across an await  *)
(* follow from where it is.                                                *)
(***************************************************************************)
EXTENDS Naturals, Sequences, SequencesExt

CONSTANTS Conns,         \* the connections the listener may accept
          Users, Groups, \* a handshake names a member of each
          WDB, SDB,      \* the locks of writer_db and snd_db
          None           \* the absent entry of a table

ASSUME HandshakeAssumption ==
    /\ WDB # SDB
    /\ {WDB, SDB} \cap Groups = {}
    /\ None \notin Conns \cup Users \cup Groups

\* The lock of a group's table (GSS) is named by the group.
Locks == {WDB, SDB} \cup Groups

VARIABLES phase,          \* of main_worker: "registration" or "reconnect"
          pc,             \* where the handler of a connection is
          regPhase,       \* its const parameter REGISTRATION_PHASE
          sender, group,  \* the handshake it read
          queue,          \* the tasks waiting for a lock, in order of arrival
          writerDb,       \* writer_db: whose Updater serves <<sender, group>>
          sndDb,          \* snd_db: the groups that have a table
          groupSnds,      \* the tables: whose channel leads to a member
          slot,           \* the write half last sent to a connection's Updater
          reader,         \* where the reader task of a connection is
          db,             \* the reader's copy of the table of its group
          atEnd           \* the tables when registration ended (history)

vars == <<phase, pc, regPhase, sender, group, queue, writerDb, sndDb, groupSnds,
          slot, reader, db, atEnd>>
handshakes == <<regPhase, sender, group>>
tables == <<writerDb, sndDb, groupSnds>>

(***************************************************************************)
(* A location in Acquisitions is the await of one lock, from before the    *)
(* request until the grant; copyDb is a reader's, the others a handler's.  *)
(***************************************************************************)
Reads  == {"findWriter", "findDb", "findGroup", "copyDb"}
Writes == {"joinGroup", "addGroup", "fillGroup", "addWriter"}
Acquisitions == Reads \cup Writes
HandlerPcs == {"none", "accepted", "done", "failed", "panicked"}
              \cup (Acquisitions \ {"copyDb"})
ReaderPcs  == {"none", "spawned", "waiting", "copyDb", "reading", "stopped"}

At(c, a) == IF a = "copyDb" THEN reader[c] = a ELSE pc[c] = a

LockOf(c, a) == CASE a \in {"findWriter", "addWriter"} -> WDB
                  [] a \in {"findDb", "findGroup", "addGroup"} -> SDB
                  [] OTHER -> group[c]

NoMembers == [u \in Users |-> None]

TypeOK ==
    /\ phase \in {"registration", "reconnect"}
    /\ pc \in [Conns -> HandlerPcs]
    /\ regPhase \in [Conns -> BOOLEAN]
    /\ sender \in [Conns -> Users \cup {None}]
    /\ group \in [Conns -> Groups \cup {None}]
    /\ queue \in [Locks -> Seq(Conns \X Acquisitions)]
    /\ writerDb \in [Users \X Groups -> Conns \cup {None}]
    /\ sndDb \in SUBSET Groups
    /\ groupSnds \in [Groups -> [Users -> Conns \cup {None}]]
    /\ slot \in [Conns -> Conns \cup {None}]
    /\ reader \in [Conns -> ReaderPcs]
    /\ db \in [Conns -> [Users -> Conns \cup {None}]]
    /\ atEnd \in [Groups -> [Users -> Conns \cup {None}]]

Init ==
    /\ phase = "registration"
    /\ pc = [c \in Conns |-> "none"]
    /\ regPhase = [c \in Conns |-> FALSE]
    /\ sender = [c \in Conns |-> None]
    /\ group = [c \in Conns |-> None]
    /\ queue = [l \in Locks |-> <<>>]
    /\ writerDb = [k \in Users \X Groups |-> None]
    /\ sndDb = {}
    /\ groupSnds = [g \in Groups |-> NoMembers]
    /\ slot = [c \in Conns |-> None]
    /\ reader = [c \in Conns |-> "none"]
    /\ db = [c \in Conns |-> NoMembers]
    /\ atEnd = [g \in Groups |-> NoMembers]
-----------------------------------------------------------------------------
(***************************************************************************)
(* An operator marked "variant" is a way the code could be wrong; it is    *)
(* used only to test that a property would notice.                         *)
(*                                                                         *)
(* tokio's RwLock is fair: requests are served in order of arrival, so a   *)
(* reader queues behind a writer even while other readers hold the lock.   *)
(* A guard is held across an await in two places only: writer_db's read    *)
(* guard at findDb and snd_db's write guard at fillGroup.                  *)
(***************************************************************************)
InQueue(l, e) == \E i \in 1..Len(queue[l]) : queue[l][i] = e
Queued(c, a)  == InQueue(LockOf(c, a), <<c, a>>)

\* variant: a new client's handler does not drop writer_db's read guard.
ReadHeldThroughout(l) == l = WDB /\ \E c \in Conns :
    pc[c] \in Acquisitions \ {"findWriter"}

ReadHeld(l)  == l = WDB /\ \E c \in Conns : pc[c] = "findDb"
WriteHeld(l) == l = SDB /\ \E c \in Conns : pc[c] = "fillGroup"

\* The first request for lock l can be granted.
Grantable(l) ==
    /\ queue[l] # <<>>
    /\ ~WriteHeld(l)
    /\ Head(queue[l])[2] \in Writes => ~ReadHeld(l)

CanJoin(c, a) == At(c, a) /\ ~Queued(c, a)

\* read().await or write().await is polled for the first time.
Join(c, a) ==
    /\ CanJoin(c, a)
    /\ queue' = [queue EXCEPT ![LockOf(c, a)] = Append(@, <<c, a>>)]
    /\ UNCHANGED <<phase, pc, handshakes, tables, slot, reader, db, atEnd>>

CanTake(c, a) ==
    /\ At(c, a)
    /\ Grantable(LockOf(c, a))
    /\ Head(queue[LockOf(c, a)]) = <<c, a>>

\* The await of acquisition a returns with the lock.
Take(c, a) ==
    /\ CanTake(c, a)
    /\ queue' = [queue EXCEPT ![LockOf(c, a)] = Tail(@)]

\* An await is dropped before it returns: its request leaves the queue.
Abandon(c, a) ==
    \/ ~Queued(c, a) /\ UNCHANGED queue
    \/ \E i \in 1..Len(queue[LockOf(c, a)]) :
          /\ queue[LockOf(c, a)][i] = <<c, a>>
          /\ queue' = [queue EXCEPT ![LockOf(c, a)] = RemoveAt(@, i)]

Goto(c, to) == pc' = [pc EXCEPT ![c] = to]
-----------------------------------------------------------------------------
\* The accept loops of main_worker: the phase is fixed when the handler is
\* spawned, whatever happens before it runs.
Accept(c) ==
    /\ pc[c] = "none"
    /\ Goto(c, "accepted")
    /\ regPhase' = [regPhase EXCEPT ![c] = phase = "registration"]
    /\ UNCHANGED <<phase, sender, group, queue, tables, slot, reader, db, atEnd>>

\* The deadline reg_time passes: notify_waiters wakes the readers that wait,
\* and leaves nothing behind for the ones that have yet to wait.
EndRegistration ==
    /\ phase = "registration"
    /\ phase' = "reconnect"
    /\ reader' = [c \in Conns |->
                     IF reader[c] = "waiting" THEN "copyDb" ELSE reader[c]]
    /\ atEnd' = groupSnds
    /\ UNCHANGED <<pc, handshakes, queue, tables, slot, db>>

\* The TLS accept fails, or the handshake cannot be read.
HandshakeFails(c) ==
    /\ pc[c] = "accepted"
    /\ Goto(c, "failed")
    /\ UNCHANGED <<phase, handshakes, queue, tables, slot, reader, db, atEnd>>

HandshakeRead(c, u, g) ==
    /\ pc[c] = "accepted"
    /\ sender' = [sender EXCEPT ![c] = u]
    /\ group' = [group EXCEPT ![c] = g]
    /\ Goto(c, "findWriter")
    /\ UNCHANGED <<phase, regPhase, queue, tables, slot, reader, db, atEnd>>

\* variant: a new pair is published before its channel exists.
FindWriterPublishes(c) ==
    /\ Take(c, "findWriter")
    /\ writerDb' = [writerDb EXCEPT ![<<sender[c], group[c]>>] =
                       IF @ = None /\ regPhase[c] THEN c ELSE @]
    /\ Goto(c, CASE writerDb[<<sender[c], group[c]>>] # None -> "findDb"
                 [] regPhase[c] -> "findGroup"
                 [] OTHER -> "failed")
    /\ UNCHANGED <<phase, handshakes, sndDb, groupSnds, slot, reader, db, atEnd>>

\* A known pair keeps writer_db's read guard, an unknown one drops it; after
\* the registration phase an unknown pair panics ("late registration").
FindWriter(c) ==
    /\ Take(c, "findWriter")
    /\ Goto(c, CASE writerDb[<<sender[c], group[c]>>] # None -> "findDb"
                 [] regPhase[c] -> "findGroup"
                 [] OTHER -> "failed")
    /\ UNCHANGED <<phase, handshakes, tables, slot, reader, db, atEnd>>

\* Reconnection: index snd_db (a missing group would panic), spawn a reader,
\* and give the write half to the Updater found in writer_db.
FindDb(c) ==
    /\ Take(c, "findDb")
    /\ IF group[c] \in sndDb
       THEN /\ Goto(c, "done")
            /\ reader' = [reader EXCEPT ![c] = "spawned"]
            /\ slot' = [slot EXCEPT ![writerDb[<<sender[c], group[c]>>]] = c]
       ELSE Goto(c, "panicked") /\ UNCHANGED <<reader, slot>>
    /\ UNCHANGED <<phase, handshakes, tables, db, atEnd>>

\* Registration: is there a table for the group?  The guard is dropped
\* before the answer is used.
FindGroup(c) ==
    /\ Take(c, "findGroup")
    /\ Goto(c, IF group[c] \in sndDb THEN "joinGroup" ELSE "addGroup")
    /\ UNCHANGED <<phase, handshakes, tables, slot, reader, db, atEnd>>

\* variant: insert, although another handler may have created the table.
AddGroupAnew(c) ==
    /\ Take(c, "addGroup")
    /\ sndDb' = sndDb \cup {group[c]}
    /\ groupSnds' = [groupSnds EXCEPT ![group[c]] = NoMembers]
    /\ Goto(c, "fillGroup")
    /\ UNCHANGED <<phase, handshakes, writerDb, slot, reader, db, atEnd>>

\* entry().or_insert_with(): an empty table, unless there is one by now.
AddGroup(c) ==
    /\ Take(c, "addGroup")
    /\ sndDb' = sndDb \cup {group[c]}
    /\ groupSnds' = IF group[c] \in sndDb THEN groupSnds
                    ELSE [groupSnds EXCEPT ![group[c]] = NoMembers]
    /\ Goto(c, "fillGroup")
    /\ UNCHANGED <<phase, handshakes, writerDb, slot, reader, db, atEnd>>

\* The table of the group is locked: insert the channel, then make an
\* Updater that holds the write half and spawn the reader.
InsertMember(c, a) ==
    /\ Take(c, a)
    /\ groupSnds' = [groupSnds EXCEPT ![group[c]][sender[c]] = c]
    /\ slot' = [slot EXCEPT ![c] = c]
    /\ reader' = [reader EXCEPT ![c] = "spawned"]
    /\ Goto(c, "addWriter")
    /\ UNCHANGED <<phase, handshakes, writerDb, sndDb, db, atEnd>>

JoinGroup(c) == InsertMember(c, "joinGroup")
FillGroup(c) == InsertMember(c, "fillGroup")

\* variant: writer_db is keyed by the group alone.
AddWriterForGroup(c) ==
    /\ Take(c, "addWriter")
    /\ writerDb' = [p \in DOMAIN writerDb |->
                       IF p[2] = group[c] THEN c ELSE writerDb[p]]
    /\ Goto(c, "done")
    /\ UNCHANGED <<phase, handshakes, sndDb, groupSnds, slot, reader, db, atEnd>>

AddWriter(c) ==
    /\ Take(c, "addWriter")
    /\ writerDb' = [writerDb EXCEPT ![<<sender[c], group[c]>>] = c]
    /\ Goto(c, "done")
    /\ UNCHANGED <<phase, handshakes, sndDb, groupSnds, slot, reader, db, atEnd>>
-----------------------------------------------------------------------------
\* variant: the reader does not wait for the end of registration.
ReaderPollEager(c) ==
    /\ reader[c] = "spawned"
    /\ reader' = [reader EXCEPT ![c] = "copyDb"]
    /\ UNCHANGED <<phase, pc, handshakes, queue, tables, slot, db, atEnd>>

\* variant: a reader that comes late does not wait any more.
ReaderPollLate(c) ==
    /\ reader[c] = "spawned"
    /\ reader' = [reader EXCEPT ![c] =
                     IF phase = "reconnect" THEN "copyDb" ELSE "waiting"]
    /\ UNCHANGED <<phase, pc, handshakes, queue, tables, slot, db, atEnd>>

\* The reader task runs for the first time and waits for phase_notify.
ReaderPoll(c) ==
    /\ reader[c] = "spawned"
    /\ reader' = [reader EXCEPT ![c] = "waiting"]
    /\ UNCHANGED <<phase, pc, handshakes, queue, tables, slot, db, atEnd>>

\* It copies the table of its group, once, and starts to read messages.
CopyDb(c) ==
    /\ Take(c, "copyDb")
    /\ db' = [db EXCEPT ![c] = groupSnds[group[c]]]
    /\ reader' = [reader EXCEPT ![c] = "reading"]
    /\ UNCHANGED <<phase, pc, handshakes, tables, slot, atEnd>>

\* Reading fails, or the connection's writer notices an error first and
\* socket_notify makes select! drop get_messages, also out of a lock's queue.
ReaderStop(c) ==
    /\ reader[c] \in {"spawned", "waiting", "copyDb", "reading"}
    /\ reader' = [reader EXCEPT ![c] = "stopped"]
    /\ Abandon(c, "copyDb")
    /\ UNCHANGED <<phase, pc, handshakes, tables, slot, db, atEnd>>

Handle(c) ==
    \/ FindWriter(c) \/ FindDb(c) \/ FindGroup(c) \/ JoinGroup(c)
    \/ AddGroup(c) \/ FillGroup(c) \/ AddWriter(c)

Next ==
    \/ EndRegistration
    \/ \E c \in Conns :
          \/ Accept(c) \/ HandshakeFails(c)
          \/ \E u \in Users, g \in Groups : HandshakeRead(c, u, g)
          \/ \E a \in Acquisitions : Join(c, a)
          \/ Handle(c) \/ ReaderPoll(c) \/ CopyDb(c) \/ ReaderStop(c)

\* The deadline passes and the runtime runs every task that can run.
\* Nothing is assumed of the clients: no fairness for Accept, HandshakeRead,
\* HandshakeFails and ReaderStop.
Fairness ==
    /\ WF_vars(EndRegistration)
    /\ \A c \in Conns :
          /\ \A a \in Acquisitions : WF_vars(Join(c, a))
          /\ WF_vars(Handle(c)) /\ WF_vars(ReaderPoll(c)) /\ WF_vars(CopyDb(c))

Spec == Init /\ [][Next]_vars
FairSpec == Spec /\ Fairness
-----------------------------------------------------------------------------
\* mgen-server.rs:173, "the main thread + handshake threads will not
\* deadlock": while a task needs a lock, some task can ask for its lock or be
\* granted it, however handlers, readers and dropped readers interleave.
NoDeadlock ==
    (\E c \in Conns, a \in Acquisitions : At(c, a))
        => \E c \in Conns, a \in Acquisitions : CanJoin(c, a) \/ CanTake(c, a)

\* A pair found in writer_db has a table in snd_db and a channel in it: the
\* index of a reconnection (mgen-server.rs:255) never panics, and a client
\* that may reconnect can be sent to.
WriterHasChannel ==
    \A u \in Users, g \in Groups :
        writerDb[<<u, g>>] # None => g \in sndDb /\ groupSnds[g][u] # None

\* Members are never lost: two handlers that both find a group missing both
\* come to create it, and the second keeps what the first inserted.
MembersAreKept ==
    [][\A g \in Groups, u \in Users :
          groupSnds[g][u] # None => groupSnds'[g][u] # None]_vars

\* A reader that reads messages knows every member that was registered when
\* the registration phase ended, so it delivers to all of them.
CopyIsComplete ==
    \A c \in Conns : reader[c] = "reading" =>
        \A u \in Users : atEnd[group[c]][u] # None => db[c][u] # None

\* Whoever's messages are forwarded can be sent a receipt by every reader of
\* the group: the index db[message.group] (mgen-server.rs:408) never panics.
\* It takes all of: tables are copied after the phase has ended, registered
\* members stay, and a reader spawned after the end never starts.
ReceiptsHaveChannel ==
    \A c, d \in Conns :
        reader[c] = "reading" /\ reader[d] = "reading" /\ group[c] = group[d]
            => db[c][sender[d]] # None

\* Whatever is put into a member's channel is written to a socket whose own
\* handshake named that member and that group, also after any sequence of
\* racing registrations and reconnections: nobody gets another's messages.
LeadsTo(m, u, g) == m # None =>
    slot[m] # None /\ sender[slot[m]] = u /\ group[slot[m]] = g
ChannelsLeadToMembers ==
    /\ \A g \in Groups, u \in Users : LeadsTo(groupSnds[g][u], u, g)
    /\ \A c \in Conns, u \in Users : LeadsTo(db[c][u], u, group[c])

\* Every handler that read its handshake comes to an end.
HandlersFinish ==
    \A c \in Conns :
        pc[c] = "findWriter" ~> pc[c] \in {"done", "failed"}
-----------------------------------------------------------------------------
\* mgen-server.rs:146 "only allow reconnecting" and :250 "start the new
\* reader thread": the reader of a client that reconnects after the
\* registration phase comes to read its messages.
ReconnectedReaderStarts ==
    \A c \in Conns : (~regPhase[c] /\ reader[c] = "spawned")
                         ~> reader[c] \in {"reading", "stopped"}

\* mgen-server.rs:202: get_messages "doesn't even read lock until all write
\* lock threads have terminated".
CopyAfterRegistrations ==
    \A c, d \in Conns : reader[c] \in {"copyDb", "reading"} =>
        pc[d] \notin {"joinGroup", "addGroup", "fillGroup"}

\* mgen-server.rs:265, "give the writer thread the new write half": when a
\* reconnection is done (its own Updater was never made), the Updater of the
\* task that serves the member's channel was given a later socket.
ReconnectionReachesWriter ==
    \A c \in Conns : pc[c] = "done" /\ slot[c] = None =>
        LET m == groupSnds[group[c]][sender[c]] IN slot[m] # m
=============================================================================
