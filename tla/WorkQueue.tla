----------------------------- MODULE WorkQueue -----------------------------
(***************************************************************************)
(* Tor's thread pool, src/Shadow/tor/src/lib/evloop/workqueue.c: one main  *)
(* thread queues, cancels and updates; the worker threads take work under  *)
(* the pool's lock, run it without the lock and put it on a reply queue    *)
(* that has a lock and an alert socket of its own.                         *)
(*                                                                         *)
(* What runs under one lock is one action.  The main thread is abstract    *)
(* here (it may queue, cancel and update whenever it likes); CpuWorker     *)
(* says what Tor's main thread does and implements this specification.     *)
(***************************************************************************)
EXTENDS Integers, Sequences, SequencesExt

CONSTANTS
  Threads,   \* the worker threads
  Entries,   \* names for workqueue_entry_t
  NoEntry,   \* NULL
  Prio,      \* ent->priority of every entry
  MaxGen     \* bound: updates queued in a behaviour

\* workqueue_priority_t: HIGH, MED, LOW
Priorities == 0..2

ASSUME PrioAssumption == Prio \in [Entries -> Priorities]
ASSUME NoEntryAssumption == NoEntry \notin Entries
ASSUME MaxGenAssumption == MaxGen \in Nat
ASSUME ThreadsAssumption == Threads # {}

\* The NULL of update_args.
NoArg == -1

VARIABLES
  work,        \* pool->work: per priority, the entries that wait
  alloc,       \* the entries that are allocated
  pending,     \* the entries with ent->pending
  generation,  \* pool->generation
  update_args, \* pool->update_args, each argument named by its generation
  pc,          \* where each thread is in worker_thread_main
  job,         \* the entry each thread works on
  gen,         \* thread->generation
  arg,         \* the update argument a thread has taken
  keys,        \* what the thread's state was last updated with
  answers,     \* replyqueue->answers
  alert,       \* the alert socket is readable
  processing,  \* the main thread is inside replyqueue_process
  queuedAt     \* history: pool->generation when the entry was queued

queueVars == <<work, alloc, pending, generation, update_args>>
threadVars == <<pc, job, gen, arg, keys>>
replyVars == <<answers, alert, processing>>
poolVars == <<queueVars, threadVars, replyVars, queuedAt>>

\* worker_thread_main: "lock" wants the lock or holds it, "wait" is inside
\* tor_cond_wait, "update" and "run" call the function and "alert" is between
\* the unlock of queue_reply and alert_fn.
PCs == {"lock", "wait", "update", "run", "alert"}

PoolTypeOK ==
  /\ work \in [Priorities -> Seq(Entries)]
  /\ alloc \subseteq Entries
  /\ pending \subseteq Entries
  /\ generation \in 0..MaxGen
  /\ update_args \in [Threads -> {NoArg} \cup 0..MaxGen]
  /\ pc \in [Threads -> PCs]
  /\ job \in [Threads -> Entries \cup {NoEntry}]
  /\ gen \in [Threads -> 0..MaxGen]
  /\ arg \in [Threads -> {NoArg} \cup 0..MaxGen]
  /\ keys \in [Threads -> 0..MaxGen]
  /\ answers \in Seq(Entries)
  /\ alert \in BOOLEAN
  /\ processing \in BOOLEAN
  /\ queuedAt \in [Entries -> 0..MaxGen]

\* threadpool_new, threadpool_start_threads and replyqueue_new; every thread
\* starts with a state made by new_thread_state_fn.
PoolInit ==
  /\ work = [p \in Priorities |-> << >>]
  /\ alloc = {} /\ pending = {}
  /\ generation = 0
  /\ update_args = [t \in Threads |-> NoArg]
  /\ pc = [t \in Threads |-> "lock"]
  /\ job = [t \in Threads |-> NoEntry]
  /\ gen = [t \in Threads |-> 0]
  /\ arg = [t \in Threads |-> NoArg]
  /\ keys = [t \in Threads |-> 0]
  /\ answers = << >> /\ alert = FALSE /\ processing = FALSE
  /\ queuedAt = [e \in Entries |-> 0]

----------------------------------------------------------------------------
(* The main thread's calls.                                                *)

\* variant: the signal is forgotten
SignalNone == pc' = pc

\* The threads after tor_cond_signal_one: a waiter, if there is one, wants
\* the lock again.
SignalOne ==
  IF \E t \in Threads : pc[t] = "wait"
  THEN \E t \in Threads : pc[t] = "wait" /\ pc' = [pc EXCEPT ![t] = "lock"]
  ELSE pc' = pc

\* threadpool_queue_work_priority
QueueWork(e) ==
  /\ e \notin alloc
  /\ alloc' = alloc \cup {e}
  /\ pending' = pending \cup {e}
  /\ work' = [work EXCEPT ![Prio[e]] = Append(@, e)]
  /\ SignalOne
  /\ queuedAt' = [queuedAt EXCEPT ![e] = generation]
  /\ UNCHANGED <<generation, update_args, job, gen, arg, keys, replyVars>>

\* variant: an update wakes one thread
SignalAllOne == SignalOne

\* tor_cond_signal_all
SignalAll == pc' = [t \in Threads |-> IF pc[t] = "wait" THEN "lock" ELSE pc[t]]

\* threadpool_queue_update: the arguments that no thread took are replaced
\* (and freed).
QueueUpdate ==
  /\ generation < MaxGen
  /\ generation' = generation + 1
  /\ update_args' = [t \in Threads |-> generation + 1]
  /\ SignalAll
  /\ UNCHANGED <<work, alloc, pending, job, gen, arg, keys, replyVars, queuedAt>>

\* workqueue_entry_cancel when the entry is still pending: it leaves its queue
\* and is freed.
CancelPending(e) ==
  /\ e \in pending
  /\ \E i \in 1..Len(work[Prio[e]]) :
       /\ work[Prio[e]][i] = e
       /\ work' = [work EXCEPT ![Prio[e]] = RemoveAt(@, i)]
  /\ alloc' = alloc \ {e}
  /\ pending' = pending \ {e}
  /\ queuedAt' = [queuedAt EXCEPT ![e] = 0]
  /\ UNCHANGED <<generation, update_args, threadVars, replyVars>>

----------------------------------------------------------------------------
(* worker_thread_main.                                                     *)

\* The generation is behind: take the update's argument.
TakeUpdate(t) ==
  /\ pc[t] = "lock"
  /\ gen[t] # generation
  /\ arg' = [arg EXCEPT ![t] = update_args[t]]
  /\ update_args' = [update_args EXCEPT ![t] = NoArg]
  /\ gen' = [gen EXCEPT ![t] = generation]
  /\ pc' = [pc EXCEPT ![t] = "update"]
  /\ UNCHANGED <<work, alloc, pending, generation, job, keys, replyVars, queuedAt>>

\* update_fn, without the lock
RunUpdate(t) ==
  /\ pc[t] = "update"
  /\ keys' = [keys EXCEPT ![t] = arg[t]]
  /\ arg' = [arg EXCEPT ![t] = NoArg]
  /\ pc' = [pc EXCEPT ![t] = "lock"]
  /\ UNCHANGED <<queueVars, job, gen, replyVars, queuedAt>>

\* variant: the entry stays pending
ExtractKeepsPending(t, p) ==
  /\ work[p] # << >>
  /\ job' = [job EXCEPT ![t] = Head(work[p])]
  /\ work' = [work EXCEPT ![p] = Tail(@)]
  /\ pending' = pending

\* worker_thread_extract_next_work: the first entry of a queue that has one.
\* Whatever the thread's lower_priority_chance, any of them may be chosen.
Extract(t, p) ==
  /\ work[p] # << >>
  /\ job' = [job EXCEPT ![t] = Head(work[p])]
  /\ work' = [work EXCEPT ![p] = Tail(@)]
  /\ pending' = pending \ {Head(work[p])}

\* variant: work is taken before the generation is looked at
TakeWorkFirst(t, p) ==
  /\ pc[t] = "lock"
  /\ Extract(t, p)
  /\ pc' = [pc EXCEPT ![t] = "run"]
  /\ UNCHANGED <<alloc, generation, update_args, gen, arg, keys, replyVars, queuedAt>>

TakeWork(t, p) ==
  /\ pc[t] = "lock"
  /\ gen[t] = generation
  /\ Extract(t, p)
  /\ pc' = [pc EXCEPT ![t] = "run"]
  /\ UNCHANGED <<alloc, generation, update_args, gen, arg, keys, replyVars, queuedAt>>

\* worker_thread_has_work
HasWork(t) == (\E p \in Priorities : work[p] # << >>) \/ gen[t] # generation

\* tor_cond_wait
Wait(t) ==
  /\ pc[t] = "lock"
  /\ ~HasWork(t)
  /\ pc' = [pc EXCEPT ![t] = "wait"]
  /\ UNCHANGED <<queueVars, job, gen, arg, keys, replyVars, queuedAt>>

\* A condition variable may wake a waiter without a signal.
SpuriousWake(t) ==
  /\ pc[t] = "wait"
  /\ pc' = [pc EXCEPT ![t] = "lock"]
  /\ UNCHANGED <<queueVars, job, gen, arg, keys, replyVars, queuedAt>>

\* work->fn, without a lock, and queue_reply, under the reply queue's lock
RunAndReply(t) ==
  /\ pc[t] = "run"
  /\ answers' = Append(answers, job[t])
  /\ pc' = [pc EXCEPT ![t] = IF answers = << >> THEN "alert" ELSE "lock"]
  /\ job' = [job EXCEPT ![t] = NoEntry]
  /\ UNCHANGED <<queueVars, gen, arg, keys, alert, processing, queuedAt>>

\* queue_reply's alert_fn, after the unlock
Alert(t) ==
  /\ pc[t] = "alert"
  /\ alert' = TRUE
  /\ pc' = [pc EXCEPT ![t] = "lock"]
  /\ UNCHANGED <<queueVars, job, gen, arg, keys, answers, processing, queuedAt>>

Worker(t) ==
  \/ TakeUpdate(t) \/ RunUpdate(t)
  \/ \E p \in Priorities : TakeWork(t, p)
  \/ Wait(t) \/ RunAndReply(t) \/ Alert(t)

----------------------------------------------------------------------------
(* replyqueue_process, which reply_event_cb calls when the socket is       *)
(* readable.                                                               *)

\* drain_fn comes before the answers are looked at.
Drain ==
  /\ alert /\ ~processing
  /\ alert' = FALSE
  /\ processing' = TRUE
  /\ UNCHANGED <<queueVars, threadVars, answers, queuedAt>>

\* The first answer is removed, its reply_fn called and the entry freed.
PopAnswer ==
  /\ processing
  /\ answers # << >>
  /\ alloc' = alloc \ {Head(answers)}
  /\ answers' = Tail(answers)
  /\ queuedAt' = [queuedAt EXCEPT ![Head(answers)] = 0]
  /\ UNCHANGED <<work, pending, generation, update_args, threadVars, alert, processing>>

\* variant: answers may be left for the next event
ProcessedEarly ==
  /\ processing
  /\ processing' = FALSE
  /\ UNCHANGED <<queueVars, threadVars, answers, alert, queuedAt>>

\* The loop ends when no answer is left.
Processed ==
  /\ processing
  /\ answers = << >>
  /\ processing' = FALSE
  /\ UNCHANGED <<queueVars, threadVars, answers, alert, queuedAt>>

PoolNext ==
  \/ \E e \in Entries : QueueWork(e) \/ CancelPending(e)
  \/ QueueUpdate
  \/ \E t \in Threads : Worker(t) \/ SpuriousWake(t)
  \/ Drain \/ PopAnswer \/ Processed

PoolSpec == PoolInit /\ [][PoolNext]_poolVars

\* Threads are scheduled and the event loop goes on.  A thread that finds work
\* of several priorities chooses by chance (CHANCE_PERMISSIVE for half of the
\* threads), so no priority is passed over for ever.
FairPoolSpec ==
  /\ PoolSpec
  /\ WF_poolVars(Drain) /\ WF_poolVars(PopAnswer) /\ WF_poolVars(Processed)
  /\ \A t \in Threads : WF_poolVars(Worker(t))
  /\ \A p \in Priorities : SF_poolVars(\E t \in Threads : TakeWork(t, p))

----------------------------------------------------------------------------
(* What the pool promises.                                                 *)

\* No wake-up is lost: while work is queued some thread is not in
\* tor_cond_wait, and no thread sleeps through an update.
NoLostWakeup ==
  /\ (\E p \in Priorities : work[p] # << >>) => \E t \in Threads : pc[t] # "wait"
  /\ \A t \in Threads : pc[t] = "wait" => gen[t] = generation

\* No answer is forgotten: while the reply queue holds one, the socket is
\* readable, a worker is about to write to it or the main thread is still in
\* replyqueue_process (queue_reply alerts only when the queue was empty).
NoLostAnswer ==
  answers # << >> =>
    \/ alert \/ processing
    \/ \E t \in Threads : pc[t] = "alert"

Distinct(s) == \A i, j \in 1..Len(s) : s[i] = s[j] => i = j

\* The work queues hold the pending entries, each once and by its priority.
WaitingOnce ==
  /\ \A p \in Priorities :
       Distinct(work[p]) /\ \A e \in ToSet(work[p]) : e \in pending /\ Prio[e] = p
  /\ \A e \in pending : e \in alloc /\ e \in ToSet(work[Prio[e]])

\* A thread works on an entry that nobody else has.
WorkedOnOnce ==
  \A t \in Threads : job[t] # NoEntry =>
    job[t] \in alloc \ pending /\ \A u \in Threads : job[u] = job[t] => u = t

\* An answer is in the reply queue once, after its worker has let it go.
AnsweredOnce ==
  /\ Distinct(answers)
  /\ \A e \in ToSet(answers) : e \in alloc \ pending /\ \A t \in Threads : job[t] # e

NoneLost ==
  \A e \in alloc \ pending : e \in ToSet(answers) \/ \E t \in Threads : job[t] = e

\* An allocated entry is in exactly one place (a work queue, a thread, the reply
\* queue) and a freed one in none; pending holds of exactly the entries that a
\* worker has not taken, so cancelling frees an entry only before a worker has
\* it, and it is answered once.
OnePlace == WaitingOnce /\ WorkedOnOnce /\ AnsweredOnce /\ NoneLost

\* Work queued after an update is never run with what the update replaced: the
\* thread looks at the generation each time before it takes work.
FreshState ==
  \A t \in Threads : job[t] # NoEntry => keys[t] >= queuedAt[job[t]]

\* Every entry that is queued is answered or cancelled, the ones of low priority
\* too and whatever is queued after them, and every thread comes to have run
\* the newest update.
WorkIsDone ==
  /\ \A e \in Entries : e \in alloc ~> e \notin alloc
  /\ \A t \in Threads : []<>(keys[t] = generation)
=============================================================================
