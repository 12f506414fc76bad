# TLA+ models and proofs for MGen and the Tor it runs on

This directory specifies, model-checks and proves properties of **MGen**
(`src/Shadow/mgen`), the messenger traffic generator with which the repository's
experiments are made, and of the parts of the **Tor** copy (`src/Shadow/tor`) that
carry its connections and have concurrency or flow control of their own. MGen is a
message server, clients with one conversation state machine per group, a
peer-to-peer variant, and the channel primitive that hands sockets from task to
task; it runs on tokio with many tasks per process over connections that fail and
are made again. What is hard to test in it is what these models are about: tasks
that interleave at every `await`, sockets that break at any moment, reconnections
that race with registrations and with each other, notifications that come too
early. Of Tor, the models take the thread pool, the handshakes that a relay gives
to it, and the flow control of a circuit: threads and locks, memory that a job
still points to, and windows that two edges count separately.

## 1. Inventory

Paths are relative to `src/Shadow/`.

| Component | State | Operations | Interacts with |
|---|---|---|---|
| Updater (`mgen/src/updater.rs`) | a mutex with at most one object, a `Notify` | `send`, `recv`, `maybe_recv` | carries sockets between tasks of client, peer and server |
| Server, registration (`mgen/src/bin/mgen-server.rs`: `main_worker`, `handle_handshake`) | `writer_db`, `snd_db`, one table per group, three kinds of `RwLock`, `phase_notify` | accept, register, reconnect, end of the registration phase | spawns a reader per connection and a writer per member |
| Server, relaying (same file: `get_messages`, `send_messages`) | a channel, an Updater and a cached message per member, a `socket_notify` per connection | read, forward, write, flush, fail, take a new socket | clients; Updater |
| Conversation (`mgen/src/bin/messenger/state.rs`, `message.rs`) | Idle/Active, the instants `delay` and `wait`, `next_id` | send, receive a message, receive a receipt, fall idle | reader and writer of client or peer |
| Client (`mgen/src/bin/mgen-client.rs`, `messenger/error.rs`) | the socket of each half, two Updaters, an error channel | connect, retry, reader, writer, handle an error | server; Conversation |
| Peer (`mgen-peer.rs`, `messenger/tcp.rs`) | as the client, one reader and writer per contact; listener | dial, accept, whichever succeeds first | other peers; Conversation; Updater |
| Tor's thread pool (`tor/src/lib/evloop/workqueue.c`) | work queues by priority, a condition variable, generation and update arguments, reply queue with an alert socket | queue, cancel, update; take, run, reply; process replies | worker threads; cpuworker |
| Onion handshakes of a relay (`tor/src/core/mainloop/cpuworker.c`, `feature/relay/onion_queue.c`, parts of `core/or/command.c`, `circuitlist.c`) | `total_pending_tasks`, the onion queues, the circuits and what points to them | CREATE cell, assign, wait, cull, cancel, reply, refill, mark, free | thread pool |
| Flow control (`tor/src/core/or/sendme.c`, `congestion_control_common.c`, `congestion_control_flow.c`, parts of `relay.c`, `connection_edge.c`, `mainloop/`) | package and deliver windows of circuit and streams, digests, XOFF, the circuit's cell queue | package, flush, receive, SENDME, XON, XOFF, block, resume | the other edge of the circuit |
| Client attachments (`mgen-client.rs`: `uploader`, fetches) and web server (`mgen-web.rs`) | none beyond the request | PUT/GET with retry | each other |
| Wire format (`mgen/src/lib.rs`) | none | serialize, parse, write header and padding in parts | everything on the network |
| Distributions (`messenger/dists.rs`) | none | parse, sample, clamp | Conversation |
| mgentools (`mgen/mgentools/src/main.rs`) | tables built from logs | match sends, deliveries and receipts | logs of client and peer |
| SaM-extractor (`SaM-extractor/src`) | none | extract conversations and sizes from a data set | produces distributions |
| hmm, mnettools, shell scripts | none | fit W, generate configurations, plot | experiments |
| the rest of Tor; Traffic-Analysis | - | - | - |

What each must guarantee:

* **Updater**: no wake-up is lost, the newest object is received, and by one
  receiver only.
* **Server, registration**: handlers and readers do not deadlock, members are not
  lost when two handlers create the same group, a pair that is found can be sent
  to, a reader delivers to everyone registered in time and never panics on a
  receipt, and nothing reaches another member's socket.
* **Server, relaying**: nothing is lost or reordered inside the server over any
  number of broken sockets; a reader stops when its socket broke and only then.
* **Conversation**: every message is acknowledged exactly once and eventually;
  the Active state lasts what W says.
* **Client**: neither half is left without a socket, stale errors do not cause
  reconnections without end, and server and client come to use one connection.
* **Peer**: every message leaves, and what is written on a connection is read.
* **Thread pool**: no wake-up and no answer is lost, an entry has one owner, work
  queued after an update runs with it, and everything queued is done.
* **Onion handshakes**: the counters that bound the work are exact, nothing points
  to freed memory, no circuit is left half-open with no handshake under way, no
  free slot is left unused when the queues are refilled.
* **Flow control**: honest edges never close a circuit for a protocol violation,
  no credit is lost, XOFF is obeyed, and all data arrives.

The hazards, each at its line, are in `PROJECT.json`.

## 2. Modules

| Module | Models | Built on |
|---|---|---|
| `Mailbox` | what an Updater promises: a place for one object | - |
| `Updater` | `updater.rs`, step by step | implements `Mailbox` |
| `ServerHandshake` | accept loops, `handle_handshake`, start of readers | - |
| `ServerRelay` | `get_messages`, `send_messages` of one group | registration by its outcome, Updaters as mailboxes |
| `Conversation` | the state machines of a group | streams that keep order |
| `Client` | `reader`, `writer`, `socket_updater` | Updaters as mailboxes |
| `ClientServer` | one client with the server's handlers and writer task for it | extends `Client` |
| `Peer` | listener, reader and writer of two peers | Updaters as mailboxes |
| `WorkQueue` | Tor's thread pool | - |
| `CpuWorker` | onion handshakes of a relay | extends `WorkQueue` and uses its actions |
| `Sendme` | flow control of one direction of a circuit | - |
| `MC...` | instances for TLC | the module of the same name |
| `...Proofs` | theorems and their proofs | the module of the same name; `CpuWorkerProofs` also on `WorkQueueProofs` |

Operators whose comment begins with "variant" are not part of a specification:
each is a plausible way of getting the next operator wrong, and each property is
known to fail when the operator is replaced by its variant.

### Updater and Mailbox

`send` is two steps, store and notify, because it holds the mutex over both; a
receiver is outside, about to poll, asleep, notified but not yet run, or past
the await. `FalseWake` is the false notification the comment in `recv` allows
for; `CancelRecv` is `select!` dropping the future, which passes an unused
notification on (tokio, external). `MaybeRecv` takes the object and leaves the
permit behind, which is where "false" notifications come from in practice.
`Dedicated` receivers never give up, like `send_messages`.

`Mailbox` has no locks and no wake-ups: `Put` replaces, `Take` removes, and while
a dedicated receiver asks, an object that is there is taken. The refinement maps
`wants` to the receivers that are inside `recv`.

### ServerHandshake

The program counter of a handler names the await it stands at: `findWriter`
(`writer_db.read()`, l.246), `findDb` (`snd_db.read()` of a reconnection, l.255),
`findGroup` (l.277), `joinGroup` (l.283), `addGroup` (l.289), `fillGroup` (l.294),
`addWriter` (l.325). A reader task is spawned, waiting for `phase_notify`, at
`copyDb` (l.379), reading or stopped. Locks are queues of requests: tokio's
`RwLock` is fair, so a reader waits behind a writer that waits. Which guards are
held across an await follows from the program counters (`ReadHeld`,
`WriteHeld`). All that happens between two awaits is one step. `regPhase` is the
const parameter `REGISTRATION_PHASE`, fixed at accept. Connections are named by
themselves: the entry of a table is the connection whose handler made the channel
or the Updater, and `slot` is the write half that Updater was last given.
`atEnd` is a history variable. A handshake that is malformed panics its task,
which is the same as failing.

### ServerRelay

A message is known by the connection it came on and its place there; the body is
a receipt for one member or a message for all. The loop over the channels is one
step per channel. `Write` may leave the data in the TLS buffer; `Flush` sends it;
either may report success on a socket that broke, as TCP does. `Handle` gives a
connection's write half to the member's Updater in any order. A reader that is
handled after the phase ended waits forever, as the code has it (finding 1).
What was read, put, reported and received are history variables. `MayBreak` bounds
which connections break.

### Conversation

Instants are the time that is left. A tick needs that no member has anything due,
the discrete-event clock of Shadow, for which MGen is written. `W`, `I`, `As`,
`Ar` are the sets of samples; the biased coins `s` and `r` are choices. Sizes play
no part. `drawn` remembers the W of the stretch (history). A receipt in a group names its addressee, which here is the stream it
is put on.

### Client and ClientServer

Connections are numbered. `Connect` ends with the reader's Updater, `GiveWriter`
with the writer's; in between the reader may already fail. The reader sees that a
connection broke, the writer only when it writes, and not necessarily then. The
error channel is a queue without a connection number: a stale error looks like a
new one. `fatal` is a proxy error or a message that cannot be parsed; it ends
`socket_updater`.

`ClientServer` adds what the connections are at the other end. The handler of a
connection finishes at any time after the handshake was written (`Handled`, also
for a connection that has broken since) or loses it (`HandshakeLost`); the writer
task stays with its socket until a write fails. A connection is closed when
nobody at the client holds a half of it. Two history variables mark what the code
does not handle: `overtaken`, a handler that finished after the one of a later
connection (l.266), and `needless`, a client that for a stale error left a
connection that worked. `NotStranded` and `ServerIsHeard` say that these are the
only ways in which the two sides can miss each other; without the exceptions TLC
finds the behaviours in which the server waits for a socket that was thrown away,
or writes to a connection the client no longer reads.

### Peer

A writer connects only when it has a message: it takes an accepted connection if
there is one, else dials; while it dials or sleeps the listener's socket wins the
`select!`. Whoever dials gives the read half to its own reader. A write half that is
dropped shuts its direction down, which the other reader sees. `ConnectPanics` is a
fatal error of the proxy, or of the greeting, because the `?` at `mgen-peer.rs:232`
turns an I/O error into a fatal one; `try_join_all` then ends the process (`Exit`),
whose sockets close, and the other peer's dials fail from then on. The two users run in
processes of their own. `crossed` records that a connection was made beside one that worked or
was being set up: `MessagesAreRead` holds until then (see finding 2).

### WorkQueue

What runs under one lock is one action; `run`, `update` and the alert after
`queue_reply` are outside of it. The main thread may queue, cancel and update at any
time. `SignalOne` wakes some waiter, `SpuriousWake` any. A thread's random choice
between priorities is a choice. An update's argument is named by its generation, so
that `keys` says what the state of a thread was made from, and `queuedAt` (history)
what was newest when the work was queued. Threads do not exit: the functions Tor
gives to the pool always return `WQ_RPL_REPLY`.

### CpuWorker

The main thread handles one event at a time; `main` says whether it is in the event
loop, in `queue_pending_tasks` or in `circuit_close_all_marked`, because worker
threads run in between. A circuit, its job, its entry and its place in an onion
queue carry one name. `magic` is what the circuit's memory is: circuit, a dead one
kept for the reply, freed. Which entries of the onion queue are too old and what
`have_room_for_onionskin` estimates is open. `onionskin_answer` may fail after it has
set the circuit OPEN, which is then open and marked. The actions of the pool are used
as `WorkQueue` defines them, so what is proved of the pool holds here.

### Sendme

An edge is single-threaded, so what is left of the sender's current handler is
`agenda`, one cell or one stream per step, and nothing else happens at the sender in
between. `cc` chooses between fixed windows with stream SENDMEs and congestion
control with XON and XOFF. Vegas' decision is any window of `Cwnds`; a rate that has
changed enough for another XON is a choice. Digests are cell numbers. The circuit's
cell queue blocks and unblocks the streams at its two marks.

`circuit_resume_edge_reading_helper` starts the streams one after the other, each of
which packages what it may at once (`connection_start_reading` processes the inbuf),
counts those that still have something, and then makes a round in which each gets a
share. `OnlyXoffInRounds` says what is left for that round: streams under XOFF. Such a
stream packages one cell, and `connection_edge_package_raw_inbuf` returns before it
counts the cell (`relay.c:2430`), so `packaged_this_round` stays 0 and the second round
(`goto again`) never comes. The model therefore has one round. This is for streams that
are not linked: the linked branch of `connection_start_reading` (`mainloop.c:631`)
processes no inbuf and is not modelled.

## 3. Runs

| Run | Instance | Shows |
|---|---|---|
| `updater` | 2 senders, a dedicated and a cancelling receiver, 3 sends | `NoLostWakeup`, and `ImplementsMailbox` with its liveness |
| `handshake` | 2 connections, 2 users, 2 groups | `NoDeadlock`, `WriterHasChannel`, `CopyIsComplete`, `ReceiptsHaveChannel`, `ChannelsLeadToMembers`, `MembersAreKept`, `HandlersFinish` |
| `relay` | a member with 2 connections and one that sends 2 messages or receipts | `NothingLostInside`, `ReceivedInOrder`, `WorkingReadersKept`, `BrokenReadersStop`, `MessagesMoveOn` |
| `relay_group` | 3 members; one, whose connection may break, sends two messages or receipts, another one | `ForwardedInOrder` |
| `conversation` | 2 members, 2 messages each, instants from 0 to 2 | `ReceiptsMatch`, `ActiveForW`, `EventuallyAcknowledged` |
| `client_server` | 2 breaks, 1 message of the client, 2 to it | `HalvesAreServed`, `ReconnectsBounded`, `NotStranded`, `HalvesGetSockets`, `ServerIsHeard` |
| `peer` | one message each, one fault (a break, a failed or a fatal attempt) | `MessagesLeave`, `MessagesAreRead` |
| `workqueue` | 2 threads, 3 entries of 2 priorities, an update | `NoLostWakeup`, `NoLostAnswer`, `OnePlace`, `FreshState`, `WorkIsDone` |
| `cpuworker` | 2 threads, 2 ntor circuits and a TAP one, another task, a limit of 1 or 2 tasks that changes; symmetry | `CountersAgree`, `NoDanglingCircuit`, `NoneStranded`, `RefillComplete` |
| `sendme` | 2 streams, one with more data; windows of 2 to 4 cells, marks of the queue at 1 and 3 | `CircuitStaysOpen`, `CreditConserved`, `DigestsInOrder`, `XoffObeyed`, `OnlyXoffInRounds`, `AllDelivered` |
| `reader_never_starts` | 2 connections | finding 1 |
| `peer_deaf` | one message each, no fault | finding 2 |

Why these bounds. A lost wake-up needs an object, a waiter and one interfering
task. Two connections of `handshake` may be of the same pair, of the same group or
unrelated, and two groups let one handler use a table that another does not know; a
deadlock that needs more tasks is excluded by proof (`DeadlockFree`, for any number).
A second broken socket while a message is held needs two connections of a member,
and reordering needs two messages. `ForwardedInOrder` needs two readers with a common
recipient, and two messages of one of them for the order. The conversation's instants include zero and ties. Two breaks allow three
connections, an error that is stale and a handler that is overtaken. In the pool,
two threads let one sleep while the other works, two entries of one priority queue
up, and a thread can be behind by an update with work waiting. Three circuits fill a
limit of two, and the two types compete for it. The windows of `sendme` are small
enough to empty in every way: the circuit's, a stream's, by XOFF, by the queue; and
the data is more than a window.
`CHECK_DEADLOCK FALSE` is used where the system may come to rest: clients have
stopped connecting, or nothing more is sent.

**Fairness.** Weak fairness of the steps of tasks: tokio polls every task that is
ready, its `RwLock` and `Notify` are fair, and no task holds a mutex over an await.
`EndRegistration` is a timer. Nothing is assumed of clients and connections at the
server: a handshake may never come and a connection may or may not break. For the
client, connecting succeeds if it is tried again and again (strong fairness of
`Connect`); without a server there is nothing to promise. `Conversation` assumes
that time passes and that streams deliver. Threads of the pool are scheduled and
the event loop goes on (weak fairness); a thread that finds several priorities
chooses at random with a positive chance for each, so that no priority is passed
over for ever: strong fairness of taking work, per priority. `Sendme` assumes that
the main loops of both edges run, that the channel carries cells and that the
application reads.

### Findings

1. `reader_never_starts`: a client that reconnects after the registration phase is
   never read from. `notify_waiters` (l.144) wakes those who wait and keeps no
   permit; the new reader waits at l.377 for good. What others send still reaches
   the client. `ReceiptsHaveChannel` shows what the obvious repair must mind: if
   late readers are just let through, a member that registered late can be read
   from while older readers do not know it, and a receipt for it panics (l.408).
2. `peer_deaf`: two peers that dial each other at the same time can each stay with
   the connection it dialled, so that each reader waits on one connection while the
   other side writes to the other one; what arrives on a socket that was given to a
   reader's Updater is then never read.

More disagreements and edges have a configuration of their own, to be run by hand;
TLC shows the behaviour as a counterexample:

| Configuration | Module | Shows |
|---|---|---|
| `ServerLateRegistration.cfg` | `MCServerHandshake` | the premise in the informal proof (l.202) that no handler still writes when readers copy is false for handlers accepted just before the deadline; deadlock freedom holds nevertheless |
| `ServerLostReconnection.cfg` | `MCServerHandshake` | two registrations of one pair can leave the channel of one handler and the Updater of the other; later sockets go to a writer task that nobody sends to |
| `ConversationSilence.cfg` | `MCConversation` | a disagreement with `mgen/README.md:102`, which describes W as "the amount of time Active without sending or receiving messages to transition to Idle": in the code the W drawn when a stretch begins is its whole length, and sending and receiving do not restart it, so a member falls idle after less silence than the W it drew. `ActiveForW` in the run `conversation` states what the code does |
| `ClientRetry.cfg` | `MCClientServer` | `retry` is documented as the wait after a network failure, but a connection that broke is replaced at once |
| `CpuWorkerStall.cfg` | `MCCpuWorker` | cancelling the last job takes nothing from the onion queue in its place: circuits there wait until a new circuit is created |
| `SendmeIncOne.cfg` | `MCSendme` | with a `sendme_inc` of 1, which the consensus parameter allows, the first cell's digest is not recorded although a SENDME comes for it |

## 4. Proofs

All theorems hold for every value of the constants (any number of tasks,
connections, users, groups, messages, threads, circuits) under the named assumptions
in the modules: special values are distinct from the sets they mark, bounds are
natural numbers, there is a thread. `Conversation` also assumes that the samples
have a largest value (an `Instant` cannot hold more), and `Sendme` what Tor's
constants satisfy: increments that are not larger than their windows, and a list of
streams without repetitions.

* `UpdaterProofs`. The invariant joins `NoLostWakeup` with `NoSleepBesidePermit` (no
  permit is stored while somebody sleeps) and `Freshness` (the queued object is the
  newest and newer than everything taken), without which `ReceivedOnceInOrder` says
  nothing of the object that is received next and is not inductive.
  `MailboxImplemented` maps every step to a step of `Mailbox` or to a stutter.
* `ServerHandshakeProofs`, in layers that build on each other. `LockInv`: a
  request in a queue belongs to a task that stands at that await, once, so locks
  are found by program counter. `DeadlockFree` then follows the order writer_db
  before snd_db before tables: a table's lock is never held across an await, hence
  grantable; snd_db is only blocked by a handler at `fillGroup`, writer_db only by
  one at `findDb`. `MemberInv` orders the insertions (table, channel, Updater) for
  `WritersHaveChannels`. `CopyInv` says that no reader copies before the phase ended
  and that tables only grow, for `CopiesAreComplete`. `StartInv` says that readers
  that start were spawned in time by a registered member, for `ReceiptsNeverPanic`.
  `OwnerInv` ties slots, tables and copies to the handshake of their connection, for
  `MembersGetTheirMessages`.
* `ServerRelayProofs`. `NothingLostInside` needs that the cache is empty whenever a
  message is taken (`CacheEmpty`); `WorkingReadersKept` needs that only broken
  sockets are in `watch`. `EveryRecipientInOrder` adds `Numbered` (what was read
  from a connection comes before what is still to be read) and `ForwardsLast` (the
  message a reader hands out is the last one it read, so that a recipient it has
  not reached yet is behind by exactly that one). `ClientsReceiveInOrder` builds on
  it, since the place of a message in a channel is only defined if it is there
  once: `Delivered` says that everything received has a place up to what the writer
  has taken, `Writable` that a message which is about to be written again has not
  been received on that socket.
* `ConversationProofs`. `ReceiptsMatch` is a statement about two streams at a time,
  `Matched`: there is a number `seen` such that the receipts on their way are those
  from what has come to `seen` and the messages on their way those from `seen` to
  the last id. With its lemmas on streams that gain or lose an item it is inductive
  beside the types. `ActiveForW` needs no more than itself and the types;
  `StretchAsDrawn` adds that a stretch ends exactly when the W drawn for it has passed.
* `ClientProofs`. `HalvesAreServed` needs to know that between the two Updaters the
  reader has been served (`ReaderFirst`). `ReconnectsBounded` is an argument about
  a `Budget`: a connection that broke pays for one connection when the reader has
  left it and for one when the writer has, and every error in front of a fatal one
  in the channel is a connection to come. `GivenOnce` says that a half does not hold
  what its Updater has, so nobody pays twice. `SystemIsClient` carries these
  invariants to the composition with the server; there `NotStranded` follows from
  `OnItsWay`: the newest connection is with a handler, in the server's Updater or
  in use, or has broken, unless a handler was overtaken.
* `WorkQueueProofs`. One invariant, `PoolInv`, because the parts need each other:
  `OnePlace` (each entry in one queue, thread or the reply queue) needs `Running`
  (a thread has an entry exactly while it runs it); `FreshState` needs `Updates` (a
  thread that is behind finds the newest argument, and otherwise its state is of
  its generation) and `QueuedBefore`. `NoLostWakeup` holds because a thread only
  waits when nothing is there and every signal leaves someone awake;
  `NoLostAnswer` because the first answer of an empty queue is alerted and the
  main thread drains before it looks. The lemmas on sequences say what appending,
  removing and taking the head do to the entries of a tail queue.
* `CpuWorkerProofs`. `StepRefines` maps every step to one of the pool, so `PoolInv`
  comes for free. `CircInv` adds
  `QueuedOnce` (a circuit waits once, by its type, and has no job) and `Life`: a
  job's circuit is live or dead-but-kept, a live circuit with a job has its
  `workqueue_entry`, and a dead one is no longer pending, so that it is freed by a
  reply that is still to come. `Counted` follows by adding or removing one job.
  `NoneStranded` is inductive beside these: what `onion_pending_add` culls it marks,
  and a circuit that `queue_pending_tasks` drops for want of a `p_chan` was marked when
  it lost it, which is why the `p_chan` is part of the property.
  `RefillsAreComplete` rests on `ol_entries` being exact, since
  `decide_next_handshake_type` chooses by the counters and not by the queues.
* `SendmeProofs`. The properties count cells (`Count`) and number them (`Rank`), so
  the proof begins with what appending, removing and joining sequences do to counts
  and ranks, and with some arithmetic of multiples. Lemmas on the effect of each
  handler (`HandlerSteps`, `ReceiveDataSteps`, `DrainSteps`, `ReplySteps`) then take
  the place of the actions. The layers:
  - `TInv`, the types; every cell and digest has a number that was sent.
  - `XoffIsObeyed`: `XoffObeyed` is inductive beside the types, because `Agreed`
    speaks of the last word on its way and not of the number of words.
  - `RoundsAreForXoff`: after a stream was started its inbuf or the circuit's window is
    empty, or it is under XOFF, and this stays so until its turn in the round.
  - `CreditIsConserved`: `CInv` adds `Remainder` (the receiver has counted less than
    an increment since its last SENDME, so a DATA cell completes one increment at
    most) and `NoStreamSendmes` (none with congestion control). It holds for all
    parameters, also those for which the circuit is closed.
  - `TypeCorrect` adds `Accounts` (data is in one place: socket, inbuf, cell or
    outbuf) and takes `inflight >= 0` from the credit.
  - `DigestsStayInOrder`, `NeverClosed`, `SendmesExpected`: `DInv` says that the
    sender has recorded exactly as many digests as whole increments are
    unacknowledged (`DigestCount`), the first of them those of the SENDMEs on their
    way, in order (`SendmesMatch`), and each other one that of the very cell with
    which the receiver's count will be full (`CellsMatch`). `DigestsInOrder` only
    says that such a cell exists somewhere on the way, which is not inductive.
    `RecordsDigest` is the heart: `circuit_sent_cell_for_sendme`, which looks at a
    window counted down or at `inflight` before the cell is counted, picks the cells
    that complete an increment, and `SendmeIsNext` says the same of the receiver.
    That the circuit stays open is part of the induction, since the credit and the
    digests protect each other: a SENDME is valid because of the digests, a window
    does not overflow because of the credit.

  The three theorems of the last layer have the hypothesis `Regular`: `sendme_inc`
  is at least 2 and not larger than `CIRCWINDOW_START`, and the consensus parameter `circwindow` is a
  multiple of `CIRCWINDOW_INCREMENT`. Tor's values satisfy it (31; 1000 and 100), and
  so does the run `sendme`. It is needed: with a `sendme_inc` of 1 the first digest
  is not recorded (`SendmeIncOne.cfg`), and with `CircWindow = 3`, `CircInc = 2` TLC
  finds a circuit that the first SENDME closes, because the sender counts down from
  `circwindow` and the receiver from `CIRCWINDOW_START`. The code allows both
  (`circuitlist.c:1004` takes any value from 100 to 1000).

Only model-checked, because they are out of this prover's reach: liveness
(`HandlersFinish`, `BrokenReadersStop`, `MessagesMoveOn`, `EventuallyAcknowledged`,
`HalvesGetSockets`, `ServerIsHeard`, `MessagesLeave`, `MessagesAreRead`,
`WorkIsDone`, `AllDelivered`) and the fairness part of the refinement
`ImplementsMailbox`. Every safety property of a run is also a theorem.

## 5. Not modelled

Contents of messages, sizes and padding; TLS and SOCKS beyond success and failure;
logging; parsing of configurations; process start, and exit other than after a fatal
error of a peer.

* Attachments and the web server: requests that feed nothing back. Framing: byte
  counts in a sequential loop. The offline tools (mgentools, SaM-extractor, hmm,
  mnettools) and the emulator scripts: sequential file processing, floating point.
* In the thread pool, creating threads and freeing the pool at exit. Of the
  handshakes, CREATE_FAST (needs no worker) and the estimate of the delay in
  `have_room_for_onionskin`. Of flow control, conflux, padding, half-closed streams,
  linked connections (the relay's own directory requests, whose reading is not
  started through `connection_start_reading`'s socket branch) and Vegas' arithmetic.
* The rest of Tor. It is some 340,000 lines, by far the most of the repository, and
  vendored: parsing, cryptography, configuration, directory voting, hidden services,
  path selection and tests. To MGen it is a TCP connection that may break, which is
  how the MGen modules see it; the modelled parts are those whose concurrency and
  flow control carry that connection. The share of all C code that the models cover
  is therefore small.

## 6. Plan

Done, in this order: `Mailbox`/`Updater`; `ServerHandshake`; `Conversation`;
`ServerRelay`; `Client`; `ClientServer`; `Peer`; `WorkQueue`; `CpuWorker`; `Sendme`;
with the proofs above.

1. Proofs: `Peer` (types, and which connections a reader can hold), and the steps
   that the liveness properties rest on, such as what an unfinished handler of the
   server or a sleeping worker waits for.
2. `Sendme` with both directions of a circuit, and conflux on top of it.
3. `Framing`: the partial writes of `write_all_to` against "the bytes written are a
   prefix of header and body".
4. `LogStats` and the SaM-extractor's computations as operators, checked against
   reference definitions over bounded inputs.
