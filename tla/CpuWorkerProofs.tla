-------------------------- MODULE CpuWorkerProofs --------------------------
(***************************************************************************)
(* The safety of onion handshakes at a relay for any number of circuits,   *)
(* tasks and threads: the counters are exact, what points to circuits and  *)
(* entries points to live ones, and no circuit is left without a handshake.*)
(***************************************************************************)
EXTENDS CpuWorker, WorkQueueProofs, FiniteSetTheorems

\* The circuits' part of TypeOK, without the counter of tasks.
CircTypeOK ==
    /\ magic \in [Circuits -> Magics]
    /\ open \subseteq Circuits /\ marked \subseteq Circuits
    /\ p_chan \subseteq Circuits /\ workqueue_entry \subseteq Circuits
    /\ ol_list \in [Types -> Seq(Circuits)]
    /\ ol_entries \in [Types -> Int]
    /\ recently_chosen_ntors \in 0..(NtorsPerTap + 1)
    /\ max_pending_tasks \in MaxTasks
    /\ main \in {"loop", "refill", "close"}

\* A circuit waits once, in the queue of its type, and has no job yet.
QueuedOnce ==
    \A q \in Types :
        /\ Distinct(ol_list[q])
        /\ \A c \in ToSet(ol_list[q]) :
              TypeOf(c) = q /\ magic[c] = "or_circuit" /\ c \notin alloc /\ c \notin open

\* How a circuit's memory, its job and its state go together.
Life ==
    \A c \in Circuits :
        /\ c \in alloc => magic[c] \in {"or_circuit", "dead_circuit"} /\ c \notin open
        /\ c \in alloc /\ magic[c] = "or_circuit" => c \in workqueue_entry
        /\ magic[c] = "dead_circuit" => c \in alloc /\ c \notin pending
        /\ c \in workqueue_entry => c \in alloc /\ magic[c] = "or_circuit"
        /\ c \in marked \cup open => magic[c] = "or_circuit"

Counted == IsFiniteSet(Outstanding) /\ CountersAgree

CircInv == CircTypeOK /\ QueuedOnce /\ Life /\ Counted /\ NoneStranded
-----------------------------------------------------------------------------
(***************************************************************************)
(* The pool: its invariant holds whatever the relay does with circuits.    *)
(***************************************************************************)
LEMMA EntriesOf == Circuits \subseteq Entries /\ Tasks \subseteq Entries
  BY EntriesAssumption

\* decide_next_handshake_type names one of the two queues.
LEMMA NextTypeProperty ==
    ASSUME CircTypeOK
    PROVE  NextType[1] \in Types /\ NextType[2] \in 0..(NtorsPerTap + 1)
  BY LimitsAssumption DEF CircTypeOK, NextType, Types

\* The circuit that queue_pending_tasks takes from its queue.
LEMMA AssignNextProperty ==
    ASSUME CircTypeOK, AssignNext, NEW q, q = NextType[1]
    PROVE  q \in Types /\ ol_list[q] \in Seq(Circuits) /\ Head(ol_list[q]) \in Circuits
  <1>1. q \in Types
    BY NextTypeProperty
  <1>2. ol_list[q] \in Seq(Circuits) /\ ol_list[q] # << >>
    BY <1>1 DEF CircTypeOK, AssignNext
  <1> QED BY <1>1, <1>2

\* Every step of the relay is a step of the pool or does not touch it.
LEMMA StepRefines == CircTypeOK /\ [Next]_vars => [PoolNext]_poolVars
  <1> SUFFICES ASSUME CircTypeOK, [Next]_vars PROVE PoolNext \/ UNCHANGED poolVars
    OBVIOUS
  <1> USE EntriesOf
  <1>1. ASSUME NEW c \in Circuits,
               CreateAssigned(c) \/ CreateQueued(c) \/ CreateRefused(c) \/ MarkForClose(c)
        PROVE  PoolNext \/ UNCHANGED poolVars
    BY <1>1 DEF CreateAssigned, CreateQueued, CreateRefused, MarkForClose, Assign, PoolNext
  <1>2. ASSUME NEW c \in Circuits, FreeCircuit(c) PROVE PoolNext \/ UNCHANGED poolVars
    BY <1>2 DEF FreeCircuit, CancelHandshake, PoolNext
  <1>3. CASE CloseAllMarked \/ RefillDone \/ ConsensusHasChanged
    BY <1>3 DEF CloseAllMarked, RefillDone, ConsensusHasChanged
  <1>4. CASE ReplyEvent \/ ReplyHandshake \/ ReplyTask
    BY <1>4 DEF ReplyEvent, ReplyHandshake, ReplyTask, PoolNext
  <1>5. ASSUME NEW e \in Tasks, QueueTask(e) PROVE PoolNext
    BY <1>5 DEF QueueTask, PoolNext
  <1>6. ASSUME NEW t \in Threads, WorkerStep(t) \/ SpuriousStep(t) PROVE PoolNext
    BY <1>6 DEF WorkerStep, SpuriousStep, PoolNext
  <1>7. CASE UNCHANGED vars
    BY <1>7 DEF vars
  <1>8. CASE AssignNext
    <2>1. Head(ol_list[NextType[1]]) \in Entries
      BY <1>8, AssignNextProperty
    <2> QED BY <1>8, <2>1 DEF AssignNext, Assign, PoolNext
  <1> QED BY <1>1, <1>2, <1>3, <1>4, <1>5, <1>6, <1>7, <1>8 DEF Next, MainStep
-----------------------------------------------------------------------------
(***************************************************************************)
(* The circuits.                                                           *)
(***************************************************************************)
LEMMA InitCircInv == Init => CircInv
  <1> SUFFICES ASSUME Init PROVE CircInv
    OBVIOUS
  <1>1. CircTypeOK
    <2>1. << >> \in Seq(Circuits)
      OBVIOUS
    <2> QED BY <2>1, LimitsAssumption DEF Init, CircTypeOK, Magics
  <1>2. QueuedOnce /\ Life
    BY EmptyProperty DEF Init, PoolInit, QueuedOnce, Life
  <1>3. Counted
    <2>1. Outstanding = {}
      BY DEF Init, PoolInit, Outstanding
    <2> QED BY <2>1, FS_EmptySet DEF Init, Counted, CountersAgree
  <1>4. NoneStranded
    BY DEF Init, NoneStranded
  <1> QED BY <1>1, <1>2, <1>3, <1>4 DEF CircInv

\* Adding or removing one job changes the count by one.
LEMMA JobAdded ==
    ASSUME Counted, NEW c \in Circuits, c \notin alloc, alloc' = alloc \cup {c}
    PROVE  IsFiniteSet(Outstanding') /\ Cardinality(Outstanding') = total_pending_tasks + 1
  <1>1. Outstanding' = Outstanding \cup {c} /\ c \notin Outstanding
    BY DEF Outstanding
  <1> QED BY <1>1, FS_AddElement DEF Counted, CountersAgree

LEMMA JobRemoved ==
    ASSUME Counted, NEW c \in Circuits, c \in alloc, alloc' = alloc \ {c}
    PROVE  IsFiniteSet(Outstanding') /\ Cardinality(Outstanding') = total_pending_tasks - 1
  <1>1. Outstanding' = Outstanding \ {c} /\ c \in Outstanding
    BY DEF Outstanding
  <1> QED BY <1>1, FS_RemoveElement DEF Counted, CountersAgree

\* What does not concern circuits' jobs keeps the invariant.
LEMMA OthersPreserve ==
    ASSUME CircInv, UNCHANGED <<circVars, onionVars, total_pending_tasks>>,
           max_pending_tasks' \in MaxTasks, main' \in {"loop", "refill", "close"},
           \A c \in Circuits : c \in alloc' <=> c \in alloc,
           \A c \in Circuits : c \in pending' => c \in pending
    PROVE  CircInv'
  <1> USE DEF circVars, onionVars
  <1>1. CircTypeOK'
    BY DEF CircInv, CircTypeOK
  <1>2. QueuedOnce'
    <2>1. \A q \in Types : ToSet(ol_list[q]) \subseteq Circuits
      BY ToSetType DEF CircInv, CircTypeOK
    <2> QED BY <2>1 DEF CircInv, QueuedOnce
  <1>3. Life'
    BY DEF CircInv, Life
  <1>4. Counted'
    <2>1. Outstanding' = Outstanding
      BY DEF Outstanding
    <2> QED BY <2>1 DEF CircInv, Counted, CountersAgree
  <1>5. NoneStranded'
    BY DEF CircInv, NoneStranded
  <1> QED BY <1>1, <1>2, <1>3, <1>4, <1>5 DEF CircInv

\* What a worker does to the entries.
LEMMA WorkerProperty ==
    ASSUME PoolInv, NEW t \in Threads, Worker(t) \/ SpuriousWake(t)
    PROVE  alloc' = alloc /\ pending' \subseteq pending
  BY DEF Worker, SpuriousWake, TakeUpdate, RunUpdate, TakeWork, Extract, Wait, RunAndReply,
         Alert, queueVars

\* An answer is of an entry that a worker had.
LEMMA AnswerProperty ==
    ASSUME PoolInv, PopAnswer
    PROVE  /\ Head(answers) \in Entries /\ Head(answers) \in alloc /\ Head(answers) \notin pending
           /\ alloc' = alloc \ {Head(answers)} /\ pending' = pending
  <1>1. answers \in Seq(Entries) /\ answers # << >> /\ Distinct(answers)
    BY DEF PopAnswer, PoolInv, PoolTypeOK, OnePlace, AnsweredOnce
  <1>2. Head(answers) \in ToSet(answers) /\ Head(answers) \in Entries
    BY <1>1, TailProperty, ToSetType
  <1> QED BY <1>2 DEF PopAnswer, PoolInv, OnePlace, AnsweredOnce

\* A new circuit whose handshake is given to the pool.
LEMMA CreateAssignedPreserves ==
    ASSUME PoolInv, CircInv, NEW c \in Circuits, CreateAssigned(c) PROVE CircInv'
  <1> USE DEF CircInv, circVars, onionVars
  <1>1. /\ magic[c] = "none" /\ magic' = [magic EXCEPT ![c] = "or_circuit"]
        /\ p_chan' = p_chan \cup {c} /\ workqueue_entry' = workqueue_entry \cup {c}
        /\ total_pending_tasks' = total_pending_tasks + 1
        /\ c \notin alloc /\ alloc' = alloc \cup {c} /\ pending' = pending \cup {c}
        /\ UNCHANGED <<open, marked, ol_list, ol_entries, recently_chosen_ntors,
                       max_pending_tasks, main>>
    BY DEF CreateAssigned, NewCircuit, Assign, QueueWork
  <1>2. CircTypeOK'
    BY <1>1 DEF CircTypeOK, Magics
  <1>3. QueuedOnce'
    <2>1. \A q \in Types : ToSet(ol_list[q]) \subseteq Circuits
      BY ToSetType DEF CircTypeOK
    <2> QED BY <1>1, <2>1 DEF QueuedOnce, CircTypeOK
  <1>4. Life'
    BY <1>1 DEF Life, CircTypeOK
  <1>5. Counted'
    BY <1>1, JobAdded DEF Counted, CountersAgree
  <1>6. NoneStranded'
    BY <1>1 DEF NoneStranded, CircTypeOK
  <1> QED BY <1>2, <1>3, <1>4, <1>5, <1>6

\* Culling from the front of a queue.
LEMMA CullProperty ==
    ASSUME NEW S, NEW s \in Seq(S), Distinct(s), NEW n \in 0..Len(s)
    PROVE  LET r == SubSeq(s, n + 1, Len(s)) IN
           /\ r \in Seq(S) /\ Distinct(r) /\ Len(r) = Len(s) - n
           /\ ToSet(r) \subseteq ToSet(s)
  <1> DEFINE r == SubSeq(s, n + 1, Len(s))
  <1>1. r \in Seq(S) /\ Len(r) = Len(s) - n /\ Len(s) \in Nat
    BY SubSeqProperties
  <1>2. \A i \in 1..Len(r) : r[i] = s[n + i] /\ n + i \in 1..Len(s)
    BY <1>1, SubSeqProperties
  <1>3. Distinct(r)
    <2> SUFFICES ASSUME NEW i \in 1..Len(r), NEW j \in 1..Len(r), r[i] = r[j] PROVE i = j
      BY DEF Distinct
    <2>1. n + i = n + j
      BY <1>2 DEF Distinct
    <2> QED BY <1>1, <2>1
  <1> HIDE DEF r
  <1>4. ToSet(r) \subseteq ToSet(s)
    <2>1. ToSet(r) = {r[i] : i \in 1..Len(r)} /\ ToSet(s) = {s[i] : i \in 1..Len(s)}
      BY <1>1, ToSetDef
    <2> QED BY <1>2, <2>1
  <1> QED BY <1>1, <1>3, <1>4 DEF r

\* What is not culled stays.
LEMMA CullKeeps ==
    ASSUME NEW S, NEW s \in Seq(S), NEW n \in 0..Len(s),
           NEW x \in ToSet(s), \A i \in 1..n : s[i] # x
    PROVE  x \in ToSet(SubSeq(s, n + 1, Len(s)))
  <1> DEFINE r == SubSeq(s, n + 1, Len(s))
  <1>1. r \in Seq(S) /\ Len(r) = Len(s) - n /\ Len(s) \in Nat
    BY SubSeqProperties
  <1>2. \A i \in 1..Len(r) : r[i] = s[n + i]
    BY <1>1, SubSeqProperties
  <1> HIDE DEF r
  <1>3. ToSet(r) = {r[i] : i \in 1..Len(r)} /\ ToSet(s) = {s[i] : i \in 1..Len(s)}
    BY <1>1, ToSetDef
  <1>4. PICK i \in 1..Len(s) : s[i] = x
    BY <1>3
  <1>5. i - n \in 1..Len(r) /\ n + (i - n) = i
    BY <1>1, <1>4
  <1>6. r[i - n] = x
    BY <1>2, <1>4, <1>5
  <1> QED BY <1>3, <1>5, <1>6 DEF r

\* A new circuit that has to wait, and the ones that have waited too long.
LEMMA CreateQueuedPreserves ==
    ASSUME PoolInv, CircInv, NEW c \in Circuits, CreateQueued(c) PROVE CircInv'
  <1> USE DEF CircInv
  <1> DEFINE q == TypeOf(c)
             s == ol_list[q]
  <1>1. q \in Types /\ s \in Seq(Circuits) /\ Distinct(s) /\ Len(s) \in Nat
    BY DEF TypeOf, Types, CircTypeOK, QueuedOnce
  <1>2. PICK old \in 0..Len(s) :
           /\ ol_list' = [ol_list EXCEPT ![q] = SubSeq(Append(s, c), old + 1, Len(s) + 1)]
           /\ ol_entries' = [ol_entries EXCEPT ![q] = ol_entries[q] + 1 - old]
           /\ marked' = marked \cup {s[i] : i \in 1..old}
    BY DEF CreateQueued, OnionPendingAdd
  <1>3. /\ magic[c] = "none" /\ magic' = [magic EXCEPT ![c] = "or_circuit"]
        /\ p_chan' = p_chan \cup {c}
        /\ UNCHANGED <<alloc, pending, open, workqueue_entry, recently_chosen_ntors,
                       total_pending_tasks, max_pending_tasks, main>>
    BY DEF CreateQueued, NewCircuit, poolVars, queueVars, taskVars
  <1>4. c \notin ToSet(s) /\ c \notin alloc /\ c \notin open
    BY <1>1, <1>3 DEF QueuedOnce, Life
  <1> DEFINE a == Append(s, c)
             r == SubSeq(a, old + 1, Len(s) + 1)
  <1>5. /\ a \in Seq(Circuits) /\ Distinct(a) /\ ToSet(a) = ToSet(s) \cup {c}
        /\ Len(a) = Len(s) + 1
    BY <1>1, <1>4, AppendProperty
  <1>6. /\ r \in Seq(Circuits) /\ Distinct(r) /\ Len(r) = Len(s) + 1 - old
        /\ ToSet(r) \subseteq ToSet(s) \cup {c}
        /\ \A d \in ToSet(s) \cup {c} : (\A i \in 1..old : a[i] # d) => d \in ToSet(r)
    <2>1. old \in 0..Len(a)
      BY <1>1, <1>5
    <2> HIDE DEF a
    <2>2. SubSeq(a, old + 1, Len(a)) = r
      BY <1>5
    <2>3. ASSUME NEW d \in ToSet(s) \cup {c}, \A i \in 1..old : a[i] # d PROVE d \in ToSet(r)
      BY <1>5, <2>1, <2>2, <2>3, CullKeeps
    <2>4. /\ r \in Seq(Circuits) /\ Distinct(r) /\ Len(r) = Len(s) + 1 - old
          /\ ToSet(r) \subseteq ToSet(s) \cup {c}
      BY <1>1, <1>5, <2>1, <2>2, CullProperty
    <2> HIDE DEF r, s
    <2> QED BY <2>3, <2>4
  <1>7. /\ ol_list'[q] = r /\ \A p \in Types : p # q => ol_list'[p] = ol_list[p]
        /\ ol_list' \in [Types -> Seq(Circuits)]
        /\ ol_entries'[q] = ol_entries[q] + 1 - old
        /\ \A p \in Types : p # q => ol_entries'[p] = ol_entries[p]
        /\ ol_entries' \in [Types -> Int]
    <2>1. ol_list' = [ol_list EXCEPT ![q] = r]
      BY <1>2
    <2>2. r \in Seq(Circuits) /\ ol_list \in [Types -> Seq(Circuits)] /\ q \in Types
      BY <1>1, <1>6 DEF CircTypeOK
    <2>3. ol_entries \in [Types -> Int] /\ ol_entries[q] + 1 - old \in Int
      BY <1>1 DEF CircTypeOK
    <2> HIDE DEF r, a, q
    <2>4. /\ ol_list'[q] = r /\ \A p \in Types : p # q => ol_list'[p] = ol_list[p]
          /\ ol_list' \in [Types -> Seq(Circuits)]
      BY <2>1, <2>2
    <2> QED BY <1>2, <2>2, <2>3, <2>4
  <1>8. marked' \subseteq marked \cup ToSet(s) /\ ToSet(s) \subseteq Circuits
    BY <1>1, <1>2, ToSetType
  <1>9. \A p \in Types : ToSet(ol_list[p]) \subseteq Circuits
    BY ToSetType DEF CircTypeOK
  <1>14. c \in ToSet(r) /\ \A d \in ToSet(s) : d \in ToSet(r) \/ d \in marked'
    <2>1. \A i \in 1..old : a[i] = s[i] /\ i \in 1..Len(s)
      BY <1>1
    <2>2. \A i \in 1..old : s[i] \in marked' /\ s[i] \in ToSet(s)
      BY <1>1, <1>2, <2>1, ToSetDef
    <2> HIDE DEF r, a, s
    <2> QED BY <1>4, <1>6, <2>1, <2>2
  <1> HIDE DEF r, a, s, q
  <1>10. CircTypeOK'
    BY <1>3, <1>7, <1>8 DEF CircTypeOK, Magics
  <1>11. QueuedOnce'
    <2> SUFFICES ASSUME NEW p \in Types
                 PROVE  /\ Distinct(ol_list'[p])
                        /\ \A d \in ToSet(ol_list'[p]) :
                             /\ TypeOf(d) = p /\ magic'[d] = "or_circuit"
                             /\ d \notin alloc' /\ d \notin open'
      BY DEF QueuedOnce
    <2>1. CASE p = q
      <3>1. \A d \in ToSet(r) : d = c \/ d \in ToSet(s)
        BY <1>6
      <3> QED BY <1>3, <1>4, <1>6, <1>7, <1>9, <2>1, <3>1 DEF QueuedOnce, CircTypeOK, q, s
    <2>2. CASE p # q
      BY <1>3, <1>7, <1>9, <2>2 DEF QueuedOnce, CircTypeOK
    <2> QED BY <2>1, <2>2
  <1>12. Life'
    <2>1. \A d \in ToSet(s) : magic[d] = "or_circuit"
      BY <1>1 DEF QueuedOnce, s
    <2> QED BY <1>3, <1>4, <1>8, <2>1 DEF Life, CircTypeOK
  <1>13. Counted'
    <2>1. Outstanding' = Outstanding
      BY <1>3 DEF Outstanding
    <2>2. \A p \in Types : ol_entries'[p] = Len(ol_list'[p])
      BY <1>1, <1>6, <1>7 DEF Counted, CountersAgree, s
    <2> QED BY <1>3, <2>1, <2>2 DEF Counted, CountersAgree
  <1>15. NoneStranded'
    <2> SUFFICES ASSUME NEW d \in Circuits, magic'[d] = "or_circuit", d \notin open' \cup marked'
                 PROVE  /\ d \in p_chan'
                        /\ d \in workqueue_entry' \/ d \in ToSet(ol_list'[TypeOf(d)])
      BY DEF NoneStranded
    <2>1. CASE d = c
      BY <1>3, <1>7, <1>14, <2>1 DEF q
    <2>2. CASE d # c
      <3>1. /\ d \in p_chan /\ TypeOf(d) \in Types
            /\ d \in workqueue_entry \/ d \in ToSet(ol_list[TypeOf(d)])
        BY <1>2, <1>3, <2>2 DEF NoneStranded, CircTypeOK, TypeOf, Types
      <3>2. CASE TypeOf(d) = q
        BY <1>3, <1>7, <1>14, <3>1, <3>2 DEF s
      <3>3. CASE TypeOf(d) # q
        BY <1>3, <1>7, <3>1, <3>3
      <3> QED BY <3>2, <3>3
    <2> QED BY <2>1, <2>2
  <1> QED BY <1>10, <1>11, <1>12, <1>13, <1>15

\* Circuits that are refused, and circuits that are marked.
LEMMA MarkPreserves ==
    ASSUME CircInv, NEW c \in Circuits, CreateRefused(c) \/ MarkForClose(c) PROVE CircInv'
  <1> USE DEF CircInv, poolVars, queueVars, onionVars, taskVars
  <1>0. \A q \in Types : ToSet(ol_list[q]) \subseteq Circuits
    BY ToSetType DEF CircTypeOK
  <1>1. /\ marked' = marked \cup {c} /\ p_chan' \subseteq p_chan \cup {c}
        /\ magic' = [magic EXCEPT ![c] = "or_circuit"]
        /\ magic[c] \in {"none", "or_circuit"}
        /\ UNCHANGED <<alloc, pending, open, workqueue_entry, ol_list, ol_entries,
                       recently_chosen_ntors, total_pending_tasks, max_pending_tasks, main>>
    <2>1. CASE CreateRefused(c)
      BY <2>1 DEF CreateRefused, NewCircuit
    <2>2. CASE MarkForClose(c)
      BY <2>2 DEF MarkForClose, CircTypeOK
    <2> QED BY <2>1, <2>2
  <1>2. CircTypeOK'
    BY <1>1 DEF CircTypeOK, Magics
  <1>3. QueuedOnce'
    BY <1>0, <1>1 DEF QueuedOnce, CircTypeOK
  <1>4. Life'
    BY <1>1 DEF Life, CircTypeOK
  <1>5. Counted'
    <2>1. Outstanding' = Outstanding
      BY <1>1 DEF Outstanding
    <2> QED BY <1>1, <2>1 DEF Counted, CountersAgree
  <1>6. NoneStranded'
    <2>1. \A d \in Circuits : d # c => (d \in p_chan' <=> d \in p_chan)
      BY DEF CreateRefused, NewCircuit, MarkForClose
    <2> QED BY <1>1, <2>1 DEF NoneStranded, CircTypeOK
  <1> QED BY <1>2, <1>3, <1>4, <1>5, <1>6

\* A queue that loses the circuits of D, and the counter of its entries.
LEMMA QueuesShrink ==
    ASSUME CircTypeOK, QueuedOnce, CountersAgree, NEW q \in Types, NEW d,
           NEW r \in Seq(Circuits), Distinct(r), Len(r) = Len(ol_list[q]) - 1,
           ToSet(r) = ToSet(ol_list[q]) \ {d},
           ol_list' = [ol_list EXCEPT ![q] = r],
           ol_entries' = [ol_entries EXCEPT ![q] = @ - 1]
    PROVE  /\ ol_list' \in [Types -> Seq(Circuits)] /\ ol_entries' \in [Types -> Int]
           /\ \A p \in Types : /\ ol_entries'[p] = Len(ol_list'[p])
                               /\ Distinct(ol_list'[p])
                               /\ ToSet(ol_list'[p]) \subseteq ToSet(ol_list[p])
                               /\ ToSet(ol_list[p]) \subseteq ToSet(ol_list'[p]) \cup {d}
           /\ d \notin ToSet(ol_list'[q])
  <1>1. /\ ol_list \in [Types -> Seq(Circuits)] /\ ol_entries \in [Types -> Int]
        /\ ol_entries[q] \in Int /\ ol_entries[q] - 1 \in Int
    BY DEF CircTypeOK
  <1>2. ol_list' \in [Types -> Seq(Circuits)] /\ ol_entries' \in [Types -> Int]
    BY <1>1
  <1>3. /\ ol_list'[q] = r /\ ol_entries'[q] = ol_entries[q] - 1
        /\ \A p \in Types : p # q => ol_list'[p] = ol_list[p] /\ ol_entries'[p] = ol_entries[p]
    BY <1>1
  <1>4. /\ ol_entries'[q] = Len(ol_list'[q]) /\ Distinct(ol_list'[q])
        /\ ToSet(ol_list'[q]) \subseteq ToSet(ol_list[q]) /\ d \notin ToSet(ol_list'[q])
        /\ ToSet(ol_list[q]) \subseteq ToSet(ol_list'[q]) \cup {d}
    BY <1>3 DEF CountersAgree
  <1>5. \A p \in Types : p # q => /\ ol_entries'[p] = Len(ol_list'[p])
                                  /\ Distinct(ol_list'[p])
                                  /\ ToSet(ol_list'[p]) \subseteq ToSet(ol_list[p])
                                  /\ ToSet(ol_list[p]) \subseteq ToSet(ol_list'[p]) \cup {d}
    BY <1>3 DEF CountersAgree, QueuedOnce
  <1> QED BY <1>2, <1>4, <1>5

\* The head of a queue goes to the pool, or is dropped without a p_chan.
LEMMA AssignNextPreserves ==
    ASSUME PoolInv, CircInv, AssignNext PROVE CircInv'
  <1> USE DEF CircInv
  <1> DEFINE q == NextType[1]
             s == ol_list[q]
             c == Head(s)
  <1>1. q \in Types /\ s \in Seq(Circuits) /\ c \in Circuits /\ s # << >> /\ Distinct(s)
    BY AssignNextProperty DEF AssignNext, QueuedOnce
  <1>2. /\ ol_list' = [ol_list EXCEPT ![q] = Tail(s)]
        /\ ol_entries' = [ol_entries EXCEPT ![q] = @ - 1]
        /\ recently_chosen_ntors' \in 0..(NtorsPerTap + 1)
        /\ UNCHANGED <<magic, open, marked, p_chan, max_pending_tasks, main>>
    BY NextTypeProperty DEF AssignNext
  <1>3. /\ c \in ToSet(s) /\ Tail(s) \in Seq(Circuits) /\ Distinct(Tail(s))
        /\ Len(Tail(s)) = Len(s) - 1 /\ ToSet(Tail(s)) = ToSet(s) \ {c}
    BY <1>1, TailProperty
  <1>4. /\ ol_list' \in [Types -> Seq(Circuits)] /\ ol_entries' \in [Types -> Int]
        /\ \A p \in Types : /\ ol_entries'[p] = Len(ol_list'[p])
                            /\ Distinct(ol_list'[p])
                            /\ ToSet(ol_list'[p]) \subseteq ToSet(ol_list[p])
                            /\ ToSet(ol_list[p]) \subseteq ToSet(ol_list'[p]) \cup {c}
        /\ c \notin ToSet(ol_list'[q])
    BY <1>1, <1>2, <1>3, QueuesShrink DEF Counted
  <1>5. /\ TypeOf(c) = q /\ magic[c] = "or_circuit" /\ c \notin alloc /\ c \notin open
        /\ \A p \in Types : c \notin ToSet(ol_list'[p])
    <2>1. TypeOf(c) = q /\ magic[c] = "or_circuit" /\ c \notin alloc /\ c \notin open
      BY <1>1, <1>3 DEF QueuedOnce
    <2>2. \A p \in Types : c \in ToSet(ol_list[p]) => p = q
      BY <2>1 DEF QueuedOnce
    <2> HIDE DEF q, c
    <2> QED BY <1>4, <2>1, <2>2
  <1>6. \/ /\ total_pending_tasks' = total_pending_tasks + 1 /\ alloc' = alloc \cup {c}
           /\ pending' = pending \cup {c} /\ workqueue_entry' = workqueue_entry \cup {c}
        \/ c \notin p_chan /\ UNCHANGED <<alloc, pending, total_pending_tasks, workqueue_entry>>
    BY DEF AssignNext, Assign, QueueWork, poolVars, queueVars
  <1>7. \A p \in Types : ToSet(ol_list[p]) \subseteq Circuits
    BY ToSetType DEF CircTypeOK
  <1> HIDE DEF q, s, c
  <1>8. CircTypeOK'
    BY <1>1, <1>2, <1>4, <1>6 DEF CircTypeOK
  <1>9. QueuedOnce'
    <2> SUFFICES ASSUME NEW p \in Types, NEW d \in ToSet(ol_list'[p])
                 PROVE  /\ TypeOf(d) = p /\ magic'[d] = "or_circuit"
                        /\ d \notin alloc' /\ d \notin open'
      BY <1>4 DEF QueuedOnce
    <2>1. d # c /\ d \in ToSet(ol_list[p])
      BY <1>4, <1>5
    <2> QED BY <1>2, <1>6, <2>1 DEF QueuedOnce
  <1>10. Life'
    BY <1>1, <1>2, <1>5, <1>6 DEF Life
  <1>11. Counted'
    <2>1. CASE alloc' = alloc \cup {c} /\ total_pending_tasks' = total_pending_tasks + 1
      BY <1>1, <1>4, <1>5, <2>1, JobAdded DEF Counted, CountersAgree
    <2>2. CASE UNCHANGED <<alloc, total_pending_tasks>>
      <3>1. Outstanding' = Outstanding
        BY <2>2 DEF Outstanding
      <3> QED BY <1>4, <2>2, <3>1 DEF Counted, CountersAgree
    <2> QED BY <1>6, <2>1, <2>2
  <1>12. NoneStranded'
    <2>1. \A d \in Circuits : TypeOf(d) \in Types
      BY DEF TypeOf, Types
    <2>2. \A d \in Circuits : d # c /\ d \in ToSet(ol_list[TypeOf(d)]) =>
                                 d \in ToSet(ol_list'[TypeOf(d)])
      BY <1>4, <2>1
    <2>3. c \in workqueue_entry' \/ c \notin p_chan
      BY <1>6
    <2> QED BY <1>2, <1>6, <2>2, <2>3 DEF NoneStranded
  <1> QED BY <1>8, <1>9, <1>10, <1>11, <1>12

\* A reply: the circuit is opened or closed, or a dead one freed.
LEMMA ReplyHandshakePreserves ==
    ASSUME PoolInv, CircInv, ReplyHandshake PROVE CircInv'
  <1> USE DEF CircInv
  <1> DEFINE c == Head(answers)
  <1>1. /\ c \in Circuits /\ c \in alloc /\ c \notin pending
        /\ alloc' = alloc \ {c} /\ pending' = pending
    BY AnswerProperty DEF ReplyHandshake
  <1>2. /\ total_pending_tasks' = total_pending_tasks - 1
        /\ main' = "refill" /\ UNCHANGED <<p_chan, onionVars, max_pending_tasks>>
        /\ \/ /\ magic[c] = "dead_circuit"
              /\ magic' = [magic EXCEPT ![c] = "freed"]
              /\ UNCHANGED <<workqueue_entry, open, marked>>
           \/ /\ magic[c] # "dead_circuit" /\ magic' = magic
              /\ workqueue_entry' = workqueue_entry \ {c}
              /\ open' \in {open, open \cup {c}}
              /\ marked' \in {marked, marked \cup {c}}
              /\ c \in open' \cup marked'
    BY DEF ReplyHandshake, Replied
  <1>3. \A p \in Types : ToSet(ol_list[p]) \subseteq Circuits
    BY ToSetType DEF CircTypeOK
  <1> HIDE DEF c
  <1>4. CircTypeOK'
    BY <1>1, <1>2 DEF CircTypeOK, Magics, onionVars
  <1>5. QueuedOnce'
    <2>1. \A p \in Types : c \notin ToSet(ol_list[p])
      BY <1>1 DEF QueuedOnce
    <2>2. \A d \in Circuits : d # c => magic'[d] = magic[d] /\ (d \in open' => d \in open)
      BY <1>2 DEF CircTypeOK
    <2> QED BY <1>1, <1>2, <1>3, <2>1, <2>2 DEF QueuedOnce, onionVars
  <1>6. Life'
    <2>1. CASE magic[c] = "dead_circuit"
      BY <1>1, <1>2, <2>1 DEF Life, CircTypeOK
    <2>2. CASE magic[c] # "dead_circuit"
      BY <1>1, <1>2, <2>2 DEF Life
    <2> QED BY <2>1, <2>2
  <1>7. Counted'
    BY <1>1, <1>2, JobRemoved DEF Counted, CountersAgree, onionVars
  <1>8. NoneStranded'
    BY <1>1, <1>2 DEF NoneStranded, CircTypeOK, onionVars
  <1> QED BY <1>4, <1>5, <1>6, <1>7, <1>8

\* What circuit_about_to_free does to the queue of onionskins.
LEMMA RemoveProperty ==
    ASSUME CircTypeOK, QueuedOnce, CountersAgree, NEW c \in Circuits, RemoveFromOnionQueue(c)
    PROVE  /\ ol_list' \in [Types -> Seq(Circuits)] /\ ol_entries' \in [Types -> Int]
           /\ \A p \in Types : /\ ol_entries'[p] = Len(ol_list'[p])
                               /\ Distinct(ol_list'[p])
                               /\ ToSet(ol_list'[p]) \subseteq ToSet(ol_list[p])
                               /\ c \notin ToSet(ol_list'[p])
                               /\ ToSet(ol_list[p]) \subseteq ToSet(ol_list'[p]) \cup {c}
           /\ recently_chosen_ntors' = recently_chosen_ntors
  <1> DEFINE q == TypeOf(c)
             s == ol_list[q]
  <1>1. q \in Types /\ s \in Seq(Circuits) /\ Distinct(s)
    BY DEF TypeOf, Types, CircTypeOK, QueuedOnce
  <1>2. \A p \in Types : c \in ToSet(ol_list[p]) => p = q
    BY DEF QueuedOnce
  <1>3. recently_chosen_ntors' = recently_chosen_ntors
    BY DEF RemoveFromOnionQueue
  <1>4. CASE c \notin ToSet(s)
    <2>1. UNCHANGED <<ol_list, ol_entries>>
      BY <1>4 DEF RemoveFromOnionQueue
    <2>2. \A p \in Types : c \notin ToSet(ol_list[p])
      BY <1>2, <1>4
    <2>3. /\ ol_list \in [Types -> Seq(Circuits)] /\ ol_entries \in [Types -> Int]
          /\ \A p \in Types : ol_entries[p] = Len(ol_list[p]) /\ Distinct(ol_list[p])
      BY DEF CircTypeOK, QueuedOnce, CountersAgree
    <2> QED BY <1>3, <2>1, <2>2, <2>3
  <1>5. CASE c \in ToSet(s)
    <2>1. PICK i \in 1..Len(s) : s[i] = c /\ ol_list' = [ol_list EXCEPT ![q] = RemoveAt(s, i)]
      BY <1>5 DEF RemoveFromOnionQueue
    <2>2. ol_entries' = [ol_entries EXCEPT ![q] = @ - 1]
      BY <1>5 DEF RemoveFromOnionQueue
    <2> DEFINE r == RemoveAt(s, i)
    <2>3. /\ r \in Seq(Circuits) /\ Distinct(r) /\ Len(r) = Len(s) - 1
          /\ ToSet(r) = ToSet(s) \ {c}
      BY <1>1, <2>1, RemoveAtProperty
    <2>4. ol_list' = [ol_list EXCEPT ![q] = r]
      BY <2>1
    <2> HIDE DEF r
    <2>5. /\ ol_list' \in [Types -> Seq(Circuits)] /\ ol_entries' \in [Types -> Int]
          /\ \A p \in Types : /\ ol_entries'[p] = Len(ol_list'[p])
                              /\ Distinct(ol_list'[p])
                              /\ ToSet(ol_list'[p]) \subseteq ToSet(ol_list[p])
                              /\ ToSet(ol_list[p]) \subseteq ToSet(ol_list'[p]) \cup {c}
          /\ c \notin ToSet(ol_list'[q])
      BY <1>1, <2>2, <2>3, <2>4, QueuesShrink
    <2> HIDE DEF q, s
    <2> QED BY <1>2, <1>3, <2>5
  <1> QED BY <1>4, <1>5

\* The last circuit_free_ of a circuit: its job is cancelled or its memory kept.
LEMMA FreeCircuitPreserves ==
    ASSUME PoolInv, CircInv, NEW c \in Circuits, FreeCircuit(c) PROVE CircInv'
  <1> USE DEF CircInv
  <1>1. /\ c \in marked /\ magic[c] = "or_circuit"
        /\ magic' = [magic EXCEPT ![c] = FreedMagic(c)]
        /\ open' = open \ {c} /\ marked' = marked \ {c}
        /\ p_chan' = p_chan \ {c} /\ workqueue_entry' = workqueue_entry \ {c}
        /\ UNCHANGED <<max_pending_tasks, main>>
    BY DEF FreeCircuit, Life
  <1>2. /\ c \in open => c \notin alloc /\ c \notin workqueue_entry
        /\ c \in alloc <=> c \in workqueue_entry
        /\ FreedMagic(c) \in {"dead_circuit", "freed"}
        /\ FreedMagic(c) = "dead_circuit" <=> c \in workqueue_entry /\ c \notin pending
    BY <1>1 DEF Life, FreedMagic
  <1>3. \A p \in Types : ToSet(ol_list[p]) \subseteq Circuits
    BY ToSetType DEF CircTypeOK
  <1>4. /\ ol_list' \in [Types -> Seq(Circuits)] /\ ol_entries' \in [Types -> Int]
        /\ \A p \in Types : /\ ol_entries'[p] = Len(ol_list'[p])
                            /\ Distinct(ol_list'[p])
                            /\ ToSet(ol_list'[p]) \subseteq ToSet(ol_list[p])
                            /\ c \notin ToSet(ol_list'[p])
                            /\ ToSet(ol_list[p]) \subseteq ToSet(ol_list'[p]) \cup {c}
        /\ recently_chosen_ntors' = recently_chosen_ntors
    <2>1. CASE c \notin open
      BY <2>1, RemoveProperty DEF FreeCircuit, Counted
    <2>2. CASE c \in open
      <3>1. UNCHANGED onionVars
        BY <2>2 DEF FreeCircuit
      <3>2. /\ ol_list \in [Types -> Seq(Circuits)] /\ ol_entries \in [Types -> Int]
            /\ \A p \in Types : /\ ol_entries[p] = Len(ol_list[p]) /\ Distinct(ol_list[p])
                                /\ c \notin ToSet(ol_list[p])
        BY <2>2 DEF CircTypeOK, QueuedOnce, Counted, CountersAgree
      <3> QED BY <3>1, <3>2 DEF onionVars
    <2> QED BY <2>1, <2>2
  <1>5. \/ /\ c \in workqueue_entry /\ c \in pending
           /\ alloc' = alloc \ {c} /\ pending' = pending \ {c}
           /\ total_pending_tasks' = total_pending_tasks - 1
        \/ /\ ~(c \in workqueue_entry /\ c \in pending)
           /\ UNCHANGED <<alloc, pending, total_pending_tasks>>
    BY <1>2 DEF FreeCircuit, CancelHandshake, CancelPending, poolVars, queueVars
  <1>6. \A d \in Circuits : d # c => magic'[d] = magic[d]
    BY <1>1 DEF CircTypeOK
  <1>7. magic' \in [Circuits -> Magics] /\ magic'[c] = FreedMagic(c)
    BY <1>1, <1>2 DEF CircTypeOK, Magics
  <1>8. CircTypeOK'
    BY <1>1, <1>4, <1>7 DEF CircTypeOK
  <1>9. QueuedOnce'
    <2> SUFFICES ASSUME NEW p \in Types, NEW d \in ToSet(ol_list'[p])
                 PROVE  /\ TypeOf(d) = p /\ magic'[d] = "or_circuit"
                        /\ d \notin alloc' /\ d \notin open'
      BY <1>4 DEF QueuedOnce
    <2>1. d # c /\ d \in ToSet(ol_list[p]) /\ d \in Circuits
      BY <1>3, <1>4
    <2> QED BY <1>1, <1>5, <1>6, <2>1 DEF QueuedOnce
  <1>10. Life'
    BY <1>1, <1>2, <1>5, <1>6, <1>7 DEF Life
  <1>11. Counted'
    <2>1. CASE c \in workqueue_entry /\ c \in pending
      <3>1. c \in alloc /\ alloc' = alloc \ {c} /\ total_pending_tasks' = total_pending_tasks - 1
        BY <1>2, <1>5, <2>1
      <3> QED BY <1>4, <3>1, JobRemoved DEF Counted, CountersAgree
    <2>2. CASE ~(c \in workqueue_entry /\ c \in pending)
      <3>1. Outstanding' = Outstanding /\ total_pending_tasks' = total_pending_tasks
        BY <1>5, <2>2 DEF Outstanding
      <3> QED BY <1>4, <3>1 DEF Counted, CountersAgree
    <2> QED BY <2>1, <2>2
  <1>12. NoneStranded'
    <2>1. \A d \in Circuits : TypeOf(d) \in Types
      BY DEF TypeOf, Types
    <2>2. \A d \in Circuits : d # c /\ d \in ToSet(ol_list[TypeOf(d)]) =>
                                 d \in ToSet(ol_list'[TypeOf(d)])
      BY <1>4, <2>1
    <2>3. magic'[c] # "or_circuit"
      BY <1>2, <1>7
    <2> QED BY <1>1, <1>6, <2>2, <2>3 DEF NoneStranded
  <1> QED BY <1>8, <1>9, <1>10, <1>11, <1>12

LEMMA NextCircInv == PoolInv /\ CircInv /\ [Next]_vars => CircInv'
  <1> SUFFICES ASSUME PoolInv, CircInv, [Next]_vars PROVE CircInv'
    OBVIOUS
  <1>1. ASSUME NEW c \in Circuits, CreateAssigned(c) \/ CreateQueued(c) PROVE CircInv'
    BY <1>1, CreateAssignedPreserves, CreateQueuedPreserves
  <1>2. ASSUME NEW c \in Circuits, CreateRefused(c) \/ MarkForClose(c) PROVE CircInv'
    BY <1>2, MarkPreserves
  <1>3. ASSUME NEW c \in Circuits, FreeCircuit(c) PROVE CircInv'
    BY <1>3, FreeCircuitPreserves
  <1>4. CASE AssignNext \/ ReplyHandshake
    BY <1>4, AssignNextPreserves, ReplyHandshakePreserves
  <1>5. main \in {"loop", "refill", "close"} /\ max_pending_tasks \in MaxTasks
    BY DEF CircInv, CircTypeOK
  <1>6. CASE CloseAllMarked \/ RefillDone \/ ConsensusHasChanged
    BY <1>5, <1>6, OthersPreserve
    DEF CloseAllMarked, RefillDone, ConsensusHasChanged, poolVars, queueVars, taskVars
  <1>7. CASE ReplyEvent
    <2>1. UNCHANGED <<alloc, pending>>
      BY <1>7 DEF ReplyEvent, Drain, Processed, queueVars
    <2> QED BY <1>5, <1>7, <2>1, OthersPreserve DEF ReplyEvent, taskVars
  <1>8. CASE ReplyTask
    <2>1. alloc' = alloc \ {Head(answers)} /\ pending' = pending /\ Head(answers) \notin Circuits
      BY <1>8, AnswerProperty, EntriesAssumption DEF ReplyTask
    <2> QED BY <1>5, <1>8, <2>1, OthersPreserve DEF ReplyTask, taskVars
  <1>9. ASSUME NEW e \in Tasks, QueueTask(e) PROVE CircInv'
    <2>1. alloc' = alloc \cup {e} /\ pending' = pending \cup {e} /\ e \notin Circuits
      BY <1>9, EntriesAssumption DEF QueueTask, QueueWork
    <2> QED BY <1>5, <1>9, <2>1, OthersPreserve DEF QueueTask, taskVars
  <1>10. ASSUME NEW t \in Threads, WorkerStep(t) \/ SpuriousStep(t) PROVE CircInv'
    <2>1. alloc' = alloc /\ pending' \subseteq pending
      BY <1>10, WorkerProperty DEF WorkerStep, SpuriousStep
    <2> QED BY <1>5, <1>10, <2>1, OthersPreserve DEF WorkerStep, SpuriousStep, taskVars
  <1>11. CASE UNCHANGED vars
    BY <1>5, <1>11, OthersPreserve DEF vars, poolVars, queueVars, taskVars
  <1> QED BY <1>1, <1>2, <1>3, <1>4, <1>6, <1>7, <1>8, <1>9, <1>10, <1>11 DEF Next, MainStep

LEMMA Invariance == Spec => [](PoolInv /\ CircInv)
  <1>1. Init => PoolInv /\ CircInv
    BY InitPoolInv, InitCircInv DEF Init
  <1>2. PoolInv /\ CircInv /\ [Next]_vars => (PoolInv /\ CircInv)'
    BY StepRefines, NextPoolInv, NextCircInv DEF CircInv
  <1> QED BY <1>1, <1>2, PTL DEF Spec
-----------------------------------------------------------------------------
\* total_pending_tasks and ol_entries are exact, so tor_assert in replyfn and in
\* cpuworker_cancel_circ_handshake cannot fail and no slot of the pool leaks.
THEOREM CountersAreExact == Spec => []CountersAgree
  <1>1. CircInv => CountersAgree
    BY DEF CircInv, Counted
  <1> QED BY <1>1, Invariance, PTL

\* The circ of a job, circ->workqueue_entry and onion_queue_t.circ never point
\* to freed memory, and a dead circuit is freed by the reply it waits for.
THEOREM PointersAreLive == Spec => []NoDanglingCircuit
  <1>1. CircInv => NoDanglingCircuit
    <2> SUFFICES ASSUME CircInv PROVE NoDanglingCircuit
      OBVIOUS
    <2> USE DEF CircInv
    <2>1. /\ \A c \in Outstanding : magic[c] \in {"or_circuit", "dead_circuit"}
          /\ \A c \in Circuits : magic[c] = "dead_circuit" => c \in Outstanding
      BY DEF Life, Outstanding
    <2>2. workqueue_entry \subseteq alloc
      BY DEF Life, CircTypeOK
    <2>3. \A q \in Types, c \in Circuits :
            c \in ToSet(ol_list[q]) => magic[c] = "or_circuit" /\ c \notin Outstanding
      BY DEF QueuedOnce, Outstanding
    <2> QED BY <2>1, <2>2, <2>3 DEF NoDanglingCircuit
  <1> QED BY <1>1, Invariance, PTL

\* Whatever becomes of a circuit's onionskin (queued, culled, handed to a worker,
\* answered, dropped for want of a p_chan), the circuit is open, about to be
\* closed, or has its onionskin still under way.
THEOREM CircuitsAreNotStranded == Spec => []NoneStranded
  <1>1. CircInv => NoneStranded
    BY DEF CircInv
  <1> QED BY <1>1, Invariance, PTL

\* queue_pending_tasks does not stop at a queue that decide_next_handshake_type
\* chose although the other one has circuits.
THEOREM RefillsAreComplete == Spec => RefillComplete
  <1>1. CircInv /\ [Next]_vars =>
          [main = "refill" /\ main' = "loop" =>
             \/ total_pending_tasks >= max_pending_tasks
             \/ \A q \in Types : ol_list[q] = << >>]_vars
    <2> SUFFICES ASSUME CircInv, Next, main = "refill", main' = "loop"
                 PROVE  \/ total_pending_tasks >= max_pending_tasks
                        \/ \A q \in Types : ol_list[q] = << >>
      OBVIOUS
    <2>1. RefillDone
      BY DEF Next, MainStep, NewCircuit, Idle, CreateAssigned, CreateQueued, CreateRefused,
             MarkForClose, CloseAllMarked, FreeCircuit, ReplyEvent, ReplyHandshake, ReplyTask,
             AssignNext, QueueTask, ConsensusHasChanged, WorkerStep, SpuriousStep
    <2>2. \A q \in Types : ol_entries[q] = Len(ol_list[q]) /\ ol_list[q] \in Seq(Circuits)
      BY DEF CircInv, Counted, CountersAgree, CircTypeOK
    <2>3. \A q \in Types : ol_list[q] = << >> <=> ol_entries[q] = 0
      BY <2>2, EmptySeq
    <2>4. ol_list[NextType[1]] = << >> => \A q \in Types : ol_list[q] = << >>
      BY <2>3 DEF NextType, Types
    <2> QED BY <2>1, <2>4 DEF RefillDone
  <1> QED BY <1>1, Invariance, PTL DEF Spec, RefillComplete
=============================================================================
