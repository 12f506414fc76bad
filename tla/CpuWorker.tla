----------------------------- MODULE CpuWorker -----------------------------
(***************************************************************************)
(* How a Tor relay answers CREATE cells: core/mainloop/cpuworker.c and     *)
(* feature/relay/onion_queue.c on top of the thread pool of WorkQueue, with *)
(* the part of core/or/command.c and core/or/circuitlist.c that makes,     *)
(* marks and frees the circuits the handshakes are for.                    *)
(*                                                                         *)
(* A circuit has one handshake, so its job, its workqueue_entry_t and its  *)
(* onion_queue_t carry its name.  The main thread handles one event at a   *)
(* time; where a handler takes a lock more than once the worker threads    *)
(* run in between, which "main" records.  The rotation of the onion keys   *)
(* (cpuworkers_rotate_keyinfo) touches nothing but the pool and is         *)
(* QueueUpdate of WorkQueue, where it is checked.                          *)
(***************************************************************************)
EXTENDS WorkQueue, FiniteSets

CONSTANTS
  Circuits,     \* the circuits that may be created
  Tasks,        \* low-priority work of other users of the pool
  Taps,         \* the circuits whose onionskin is TAP; the others are ntor
  MaxTasks,     \* the values the consensus gives to max_pending_tasks
  NtorsPerTap   \* NumNTorsPerTAP

ASSUME EntriesAssumption ==
  /\ Entries = Circuits \cup Tasks
  /\ Circuits \cap Tasks = {}
  /\ Taps \subseteq Circuits
  /\ \A c \in Circuits : Prio[c] = 0
ASSUME LimitsAssumption ==
  /\ MaxTasks \subseteq Nat \ {0} /\ MaxTasks # {}
  /\ NtorsPerTap \in Nat \ {0}

VARIABLES
  magic,                  \* what the circuit's memory is
  open,                   \* the circuits in CIRCUIT_STATE_OPEN
  marked,                 \* circ->marked_for_close
  p_chan,                 \* the circuits that have a p_chan
  workqueue_entry,        \* the circuits whose workqueue_entry is not NULL
  ol_list,                \* per handshake type, the circuits that wait
  ol_entries,             \* and their number
  recently_chosen_ntors,
  total_pending_tasks,
  max_pending_tasks,
  main                    \* where the main thread is

circVars == <<magic, open, marked, p_chan, workqueue_entry>>
onionVars == <<ol_list, ol_entries, recently_chosen_ntors>>
taskVars == <<total_pending_tasks, max_pending_tasks>>
vars == <<poolVars, circVars, onionVars, taskVars, main>>

Types == {"tap", "ntor"}
TypeOf(c) == IF c \in Taps THEN "tap" ELSE "ntor"

\* OR_CIRCUIT_MAGIC, DEAD_CIRCUIT_MAGIC, and memory that is not the circuit's
Magics == {"none", "or_circuit", "dead_circuit", "freed"}

TypeOK ==
  /\ PoolTypeOK
  /\ magic \in [Circuits -> Magics]
  /\ open \subseteq Circuits /\ marked \subseteq Circuits
  /\ p_chan \subseteq Circuits /\ workqueue_entry \subseteq Circuits
  /\ ol_list \in [Types -> Seq(Circuits)]
  /\ ol_entries \in [Types -> Int]
  /\ recently_chosen_ntors \in 0..(NtorsPerTap + 1)
  /\ total_pending_tasks \in Nat
  /\ max_pending_tasks \in MaxTasks
  /\ main \in {"loop", "refill", "close"}

Init ==
  /\ PoolInit
  /\ magic = [c \in Circuits |-> "none"]
  /\ open = {} /\ marked = {} /\ p_chan = {} /\ workqueue_entry = {}
  /\ ol_list = [q \in Types |-> << >>]
  /\ ol_entries = [q \in Types |-> 0]
  /\ recently_chosen_ntors = 0
  /\ total_pending_tasks = 0
  /\ max_pending_tasks \in MaxTasks
  /\ main = "loop"

\* The main thread is in the event loop, outside replyqueue_process.
Idle == main = "loop" /\ ~processing

----------------------------------------------------------------------------
(* command_process_create_cell.                                            *)

\* or_circuit_new
NewCircuit(c) ==
  /\ Idle
  /\ magic[c] = "none"
  /\ magic' = [magic EXCEPT ![c] = "or_circuit"]
  /\ p_chan' = p_chan \cup {c}

\* assign_onionskin_to_cpuworker when a task may be added
Assign(c) ==
  /\ total_pending_tasks' = total_pending_tasks + 1
  /\ QueueWork(c)
  /\ workqueue_entry' = workqueue_entry \cup {c}

\* A new circuit whose handshake goes to the pool at once.
CreateAssigned(c) ==
  /\ NewCircuit(c)
  /\ total_pending_tasks < max_pending_tasks
  /\ Assign(c)
  /\ UNCHANGED <<open, marked, onionVars, max_pending_tasks, main>>

\* variant: the circuits that are culled are not closed
OnionPendingAddDrops(c) ==
  LET q == TypeOf(c) IN
  \E old \in 0..Len(ol_list[q]) :
    /\ ol_list' = [ol_list EXCEPT ![q] = SubSeq(Append(@, c), old + 1, Len(@) + 1)]
    /\ ol_entries' = [ol_entries EXCEPT ![q] = @ + 1 - old]
    /\ UNCHANGED marked

\* onion_pending_add, with the entries older than the cutoff culled from the
\* front and their circuits closed.  Which ones are that old is open; the one
\* just added is not.
OnionPendingAdd(c) ==
  LET q == TypeOf(c) IN
  \E old \in 0..Len(ol_list[q]) :
    /\ ol_list' = [ol_list EXCEPT ![q] = SubSeq(Append(@, c), old + 1, Len(@) + 1)]
    /\ ol_entries' = [ol_entries EXCEPT ![q] = @ + 1 - old]
    /\ marked' = marked \cup {ol_list[q][i] : i \in 1..old}

\* No task may be added: the handshake waits in the onion queue.
CreateQueued(c) ==
  /\ NewCircuit(c)
  /\ total_pending_tasks >= max_pending_tasks
  /\ OnionPendingAdd(c)
  /\ UNCHANGED <<poolVars, open, workqueue_entry, recently_chosen_ntors, taskVars, main>>

\* create_cell_parse failed, or have_room_for_onionskin did (by an estimate of
\* the delay, which is left open): the circuit is closed.
CreateRefused(c) ==
  /\ NewCircuit(c)
  /\ marked' = marked \cup {c}
  /\ UNCHANGED <<poolVars, open, workqueue_entry, onionVars, taskVars, main>>

----------------------------------------------------------------------------
(* Closing circuits.                                                       *)

\* circuit_mark_for_close, from a DESTROY cell or a closing channel (which
\* also clear p_chan) or for another reason.
MarkForClose(c) ==
  /\ Idle
  /\ magic[c] = "or_circuit" /\ c \notin marked
  /\ marked' = marked \cup {c}
  /\ p_chan' \in {p_chan, p_chan \ {c}}
  /\ UNCHANGED <<poolVars, magic, open, workqueue_entry, onionVars, taskVars, main>>

\* circuit_close_all_marked begins, and ends when no circuit is left.  The
\* marked circuits are the ones on circuits_pending_close.
CloseAllMarked ==
  /\ \/ Idle /\ marked # {} /\ main' = "close"
     \/ main = "close" /\ marked = {} /\ main' = "loop"
  /\ UNCHANGED <<poolVars, circVars, onionVars, taskVars>>

\* onion_queue_entry_remove, if circ->onionqueue_entry is not NULL
RemoveFromOnionQueue(c) ==
  LET q == TypeOf(c) IN
  /\ IF c \in ToSet(ol_list[q])
     THEN /\ \E i \in 1..Len(ol_list[q]) :
               ol_list[q][i] = c /\ ol_list' = [ol_list EXCEPT ![q] = RemoveAt(@, i)]
          /\ ol_entries' = [ol_entries EXCEPT ![q] = @ - 1]
     ELSE UNCHANGED <<ol_list, ol_entries>>
  /\ UNCHANGED recently_chosen_ntors

\* variant: the memory is always freed
FreedMagicAlways(c) == "freed"

\* circuit_free_: memory that a job still points to is only marked dead.
FreedMagic(c) == IF c \in workqueue_entry /\ c \notin pending THEN "dead_circuit" ELSE "freed"

\* variant: a cancelled job is not counted down
CancelHandshakeMiscounts(c) ==
  IF c \in workqueue_entry /\ c \in pending
  THEN /\ CancelPending(c)
       /\ UNCHANGED total_pending_tasks
  ELSE UNCHANGED <<poolVars, total_pending_tasks>>

\* cpuworker_cancel_circ_handshake
CancelHandshake(c) ==
  IF c \in workqueue_entry /\ c \in pending
  THEN /\ CancelPending(c)
       /\ total_pending_tasks' = total_pending_tasks - 1
  ELSE UNCHANGED <<poolVars, total_pending_tasks>>

\* circuit_about_to_free and circuit_free_ of one marked circuit.  (That the
\* fields of a dead circuit are wiped is modelled by removing it from the sets.)
FreeCircuit(c) ==
  /\ main = "close" /\ c \in marked
  /\ IF c \notin open
     THEN RemoveFromOnionQueue(c) /\ CancelHandshake(c)
     ELSE UNCHANGED <<poolVars, onionVars, total_pending_tasks>>
  /\ magic' = [magic EXCEPT ![c] = FreedMagic(c)]
  /\ open' = open \ {c} /\ marked' = marked \ {c}
  /\ p_chan' = p_chan \ {c} /\ workqueue_entry' = workqueue_entry \ {c}
  /\ UNCHANGED <<max_pending_tasks, main>>

----------------------------------------------------------------------------
(* Replies and the onion queue.                                            *)

\* cpuworker_onion_handshake_replyfn, up to queue_pending_tasks.  The handshake
\* may have failed, and so may onionskin_answer, after it set the circuit OPEN.
Replied(c) ==
  /\ total_pending_tasks' = total_pending_tasks - 1
  /\ \/ /\ magic[c] = "dead_circuit"
        /\ magic' = [magic EXCEPT ![c] = "freed"]
        /\ UNCHANGED <<workqueue_entry, open, marked>>
     \/ /\ magic[c] # "dead_circuit"
        /\ workqueue_entry' = workqueue_entry \ {c}
        /\ \/ c \in marked /\ UNCHANGED <<open, marked>>
           \/ c \notin marked /\ open' = open \cup {c} /\ UNCHANGED marked
           \/ /\ c \notin marked /\ marked' = marked \cup {c}
              /\ open' \in {open, open \cup {c}}
        /\ UNCHANGED magic

ReplyHandshake ==
  /\ main = "loop"
  /\ PopAnswer
  /\ Head(answers) \in Circuits
  /\ Replied(Head(answers))
  /\ main' = "refill"
  /\ UNCHANGED <<p_chan, onionVars, max_pending_tasks>>

\* the reply function of another user of the pool
ReplyTask ==
  /\ main = "loop"
  /\ PopAnswer
  /\ Head(answers) \in Tasks
  /\ UNCHANGED <<circVars, onionVars, taskVars, main>>

\* variant: the types take turns whether they have entries or not
NextTypeTurns ==
  IF recently_chosen_ntors + 1 <= NtorsPerTap
  THEN <<"ntor", recently_chosen_ntors + 1>> ELSE <<"tap", 0>>

\* decide_next_handshake_type: the type, and recently_chosen_ntors after it
NextType ==
  CASE ol_entries["ntor"] = 0 -> <<"tap", recently_chosen_ntors>>
    [] ol_entries["ntor"] # 0 /\ ol_entries["tap"] = 0 ->
         <<"ntor", IF recently_chosen_ntors <= NtorsPerTap
                   THEN recently_chosen_ntors + 1 ELSE recently_chosen_ntors>>
    [] OTHER ->
         IF recently_chosen_ntors + 1 <= NtorsPerTap
         THEN <<"ntor", recently_chosen_ntors + 1>> ELSE <<"tap", 0>>

\* One round of queue_pending_tasks: onion_next_task, and
\* assign_onionskin_to_cpuworker, which gives up on a circuit without p_chan.
AssignNext ==
  LET q == NextType[1]
      c == Head(ol_list[q]) IN
  /\ main = "refill"
  /\ total_pending_tasks < max_pending_tasks
  /\ ol_list[q] # << >>
  /\ recently_chosen_ntors' = NextType[2]
  /\ ol_list' = [ol_list EXCEPT ![q] = Tail(@)]
  /\ ol_entries' = [ol_entries EXCEPT ![q] = @ - 1]
  /\ IF c \in p_chan
     THEN Assign(c)
     ELSE UNCHANGED <<poolVars, total_pending_tasks, workqueue_entry>>
  /\ UNCHANGED <<magic, open, marked, p_chan, max_pending_tasks, main>>

\* queue_pending_tasks ends: the pool is full or no circuit waits.
RefillDone ==
  /\ main = "refill"
  /\ \/ total_pending_tasks >= max_pending_tasks
     \/ ol_list[NextType[1]] = << >>
  /\ main' = "loop"
  /\ UNCHANGED <<poolVars, circVars, onionVars, taskVars>>

----------------------------------------------------------------------------
(* Other events of the main thread.                                        *)

\* reply_event_cb and the end of replyqueue_process
ReplyEvent ==
  /\ main = "loop"
  /\ Drain \/ Processed
  /\ UNCHANGED <<circVars, onionVars, taskVars, main>>

\* cpuworker_queue_work
QueueTask(e) ==
  /\ Idle
  /\ QueueWork(e)
  /\ UNCHANGED <<circVars, onionVars, taskVars, main>>

\* cpuworker_consensus_has_changed
ConsensusHasChanged ==
  /\ Idle
  /\ max_pending_tasks' \in MaxTasks
  /\ UNCHANGED <<poolVars, circVars, onionVars, total_pending_tasks, main>>

WorkerStep(t) ==
  /\ Worker(t)
  /\ UNCHANGED <<circVars, onionVars, taskVars, main>>

SpuriousStep(t) ==
  /\ SpuriousWake(t)
  /\ UNCHANGED <<circVars, onionVars, taskVars, main>>

\* What the main thread does without being asked.
MainStep ==
  \/ CloseAllMarked \/ \E c \in Circuits : FreeCircuit(c)
  \/ ReplyEvent \/ ReplyHandshake \/ ReplyTask
  \/ AssignNext \/ RefillDone

Next ==
  \/ \E c \in Circuits : CreateAssigned(c) \/ CreateQueued(c) \/ CreateRefused(c) \/ MarkForClose(c)
  \/ MainStep
  \/ \E e \in Tasks : QueueTask(e)
  \/ ConsensusHasChanged
  \/ \E t \in Threads : WorkerStep(t) \/ SpuriousStep(t)

Spec == Init /\ [][Next]_vars

\* Threads are scheduled and the event loop goes on (see FairPoolSpec).
FairSpec ==
  /\ Spec
  /\ WF_vars(MainStep)
  /\ \A t \in Threads : WF_vars(WorkerStep(t))
  /\ \A p \in Priorities :
       SF_vars((\E t \in Threads : TakeWork(t, p)) /\ UNCHANGED <<circVars, onionVars, taskVars, main>>)

----------------------------------------------------------------------------
(* Properties.                                                             *)

Outstanding == alloc \cap Circuits

\* The counters by which work is given out are exact, whichever way each job
\* and each wait ends: total_pending_tasks is the number of handshakes that are
\* neither answered nor cancelled (so the assertions in replyfn and cancel hold
\* and the limit stays meaningful), and ol_entries, by which
\* decide_next_handshake_type chooses, is the length of the queue.
CountersAgree ==
  /\ total_pending_tasks = Cardinality(Outstanding)
  /\ \A q \in Types : ol_entries[q] = Len(ol_list[q])

\* The circuit a job points to is there when the reply comes back: a circuit
\* that dies while a worker has its job is kept as DEAD_CIRCUIT_MAGIC, is freed
\* by the reply and never leaks; workqueue_entry never points to a freed entry
\* and the onion queue never to a freed circuit.
NoDanglingCircuit ==
  /\ \A c \in Outstanding : magic[c] \in {"or_circuit", "dead_circuit"}
  /\ \A c \in Circuits : magic[c] = "dead_circuit" => c \in Outstanding
  /\ workqueue_entry \subseteq alloc
  /\ \A q \in Types, c \in Circuits :
       c \in ToSet(ol_list[q]) =>
         magic[c] = "or_circuit" /\ c \notin Outstanding

\* When queue_pending_tasks ends, the pool is full or neither onion queue has a
\* circuit left: the queue that decide_next_handshake_type finds empty is not
\* the only one looked at.
RefillComplete ==
  [][main = "refill" /\ main' = "loop" =>
       \/ total_pending_tasks >= max_pending_tasks
       \/ \A q \in Types : ol_list[q] = << >>]_vars

\* No circuit is forgotten between the queues: one that is neither open nor
\* about to be closed has its handshake with the pool or waits on the onion queue
\* of its type, and it has the p_chan without which queue_pending_tasks would
\* drop it from the queue and leave it half-open for good.
NoneStranded ==
  \A c \in Circuits :
    magic[c] = "or_circuit" /\ c \notin open \cup marked =>
      c \in p_chan /\ (c \in workqueue_entry \/ c \in ToSet(ol_list[TypeOf(c)]))

\* A circuit on the onion queue is "waiting for a free CPU worker": it does not
\* stay there for ever while tasks may be added to the pool.
WaitersAreServed ==
  \A c \in Circuits, q \in Types :
    c \in ToSet(ol_list[q]) ~>
    c \notin ToSet(ol_list[q])
=============================================================================
