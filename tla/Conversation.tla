---------------------------- MODULE Conversation ----------------------------
(***************************************************************************)
(* The conversation state machine of mgen/src/bin/messenger/state.rs, one  *)
(* copy per member of a group, joined by streams that keep the order of    *)
(* what one member sends to another (the server's channel, or a peer       *)
(* connection that does not break).                                        *)
(*                                                                         *)
(* A member is Idle or Active.  Instants are kept as the time that is left *)
(* until they are reached.  Time passes only while no member has anything  *)
(* due, which is how Shadow, the simulator mgen is written for, moves its  *)
(* clock.  The distributions are sets of possible samples.                 *)
(***************************************************************************)
EXTENDS Integers, Sequences, FiniteSetsExt

CONSTANTS Users,                \* the members of the group
          I, W, As, Ar,         \* possible samples of dists.i, w, a_s and a_r
          MaxId                 \* bound on the messages a member sends

Instants == I \cup W \cup As \cup Ar
MaxInstant == Max(Instants)

\* A sample is a Duration, which has a largest value.
ASSUME ConversationAssumption ==
    /\ I \subseteq Nat /\ W \subseteq Nat /\ As \subseteq Nat /\ Ar \subseteq Nat
    /\ \E m \in Instants : \A t \in Instants : t <= m
    /\ MaxId \in Nat

VARIABLES state,    \* "Idle" or "Active"
          delay,    \* time left until the member wants to send
          wait,     \* time left until an Active member falls Idle
          nextId,   \* id of the member's next message
          stream,   \* stream[u][v]: what u sent to v and v has not received
          acked,    \* acked[u][v]: ids of v's receipts, in order (history)
          quiet,    \* time since the last message sent or received (history)
          active,   \* time since the member last became Active (history)
          drawn     \* the W drawn when it last became Active (history)

vars == <<state, delay, wait, nextId, stream, acked, quiet, active, drawn>>
timers == <<delay, wait>>

Kinds == {"Size", "Receipt"}
Ids == 0..(MaxId - 1)
Messages == [body : Kinds, id : Ids]

TypeOK ==
    /\ state \in [Users -> {"Idle", "Active"}]
    /\ delay \in [Users -> 0..MaxInstant]
    /\ wait \in [Users -> 0..MaxInstant]
    /\ nextId \in [Users -> 0..MaxId]
    /\ stream \in [Users -> [Users -> Seq(Messages)]]
    /\ acked \in [Users -> [Users -> Seq(Ids)]]
    /\ quiet \in [Users -> 0..MaxInstant]
    /\ active \in [Users -> 0..MaxInstant]
    /\ drawn \in [Users -> 0..MaxInstant]

Init ==
    /\ state = [u \in Users |-> "Idle"]
    /\ delay \in [Users -> I]
    /\ wait = [u \in Users |-> 0]
    /\ nextId = [u \in Users |-> 0]
    /\ stream = [u \in Users |-> [v \in Users |-> <<>>]]
    /\ acked = [u \in Users |-> [v \in Users |-> <<>>]]
    /\ quiet = [u \in Users |-> 0]
    /\ active = [u \in Users |-> 0]
    /\ drawn = [u \in Users |-> 0]
-----------------------------------------------------------------------------
\* Conversation::<Active>::sleep: whichever instant comes first; a tie is won
\* by falling idle.
WantsSend(u) ==
    /\ delay[u] = 0
    /\ state[u] = "Active" => delay[u] < wait[u]
SendDue(u) == WantsSend(u) /\ nextId[u] < MaxId
IdleDue(u) == state[u] = "Active" /\ wait[u] = 0 /\ ~(delay[u] < wait[u])

\* The conversation goes on in state s; Instant::now() was reached.
Become(u, s, d, w) ==
    /\ state' = [state EXCEPT ![u] = s]
    /\ delay' = [delay EXCEPT ![u] = d]
    /\ wait' = [wait EXCEPT ![u] = w]
    /\ quiet' = [quiet EXCEPT ![u] = 0]
    /\ active' = [active EXCEPT ![u] = IF state[u] = "Active" THEN @ ELSE 0]
    /\ drawn' = [drawn EXCEPT ![u] = IF state[u] = "Active" THEN @ ELSE w]

\* <Idle as State>::sent becomes Active with probability s, which draws w.
SentIdle(u) ==
    \/ \E d \in As, w \in W : Become(u, "Active", d, w)
    \/ \E d \in I : Become(u, "Idle", d, 0)

\* <Active as State>::sent draws a new delay; the wait goes on.
SentActive(u) == \E d \in As : Become(u, "Active", d, wait[u])

ReceivedIdle(u) ==
    \/ \E d \in Ar, w \in W : Become(u, "Active", d, w)
    \/ Become(u, "Idle", delay[u], 0)

\* variant: a message received draws the wait again.
ReceivedActiveRestarts(u) == \E d \in Ar, w \in W : Become(u, "Active", d, w)

ReceivedActive(u) == \E d \in Ar : Become(u, "Active", d, wait[u])

Sent(u)     == IF state[u] = "Idle" THEN SentIdle(u) ELSE SentActive(u)
Received(u) == IF state[u] = "Idle" THEN ReceivedIdle(u) ELSE ReceivedActive(u)

ToOthers(u, m) ==
    stream' = [stream EXCEPT ![u] = [v \in Users |->
                  IF v = u THEN @[v] ELSE Append(@[v], m)]]

\* send_action: one message to every other member, then the transition.
Send(u) ==
    /\ SendDue(u)
    /\ ToOthers(u, [body |-> "Size", id |-> nextId[u]])
    /\ nextId' = [nextId EXCEPT ![u] = nextId[u] + 1]
    /\ Sent(u)
    /\ UNCHANGED acked

\* variant: an Active member sends no receipt.
ReceiveMessageIdle(u, v) ==
    /\ stream[v][u] # <<>>
    /\ Head(stream[v][u]).body = "Size"
    /\ LET receipt == [body |-> "Receipt", id |-> Head(stream[v][u]).id]
       IN  stream' = [stream EXCEPT ![v][u] = Tail(@),
                         ![u][v] = IF state[u] = "Idle" THEN Append(@, receipt) ELSE @]
    /\ Received(u)
    /\ UNCHANGED <<nextId, acked>>

\* receive_action on a message: the transition, and a receipt to its sender.
ReceiveMessage(u, v) ==
    /\ stream[v][u] # <<>>
    /\ Head(stream[v][u]).body = "Size"
    /\ LET receipt == [body |-> "Receipt", id |-> Head(stream[v][u]).id]
       IN  stream' = [stream EXCEPT ![v][u] = Tail(@), ![u][v] = Append(@, receipt)]
    /\ Received(u)
    /\ UNCHANGED <<nextId, acked>>

\* receive_action on a receipt: it is logged and changes nothing else.
ReceiveReceipt(u, v) ==
    /\ stream[v][u] # <<>>
    /\ Head(stream[v][u]).body = "Receipt"
    /\ stream' = [stream EXCEPT ![v][u] = Tail(@)]
    /\ acked' = [acked EXCEPT ![u][v] = Append(@, Head(stream[v][u]).id)]
    /\ UNCHANGED <<state, timers, nextId, quiet, active, drawn>>

\* Conversation::<Active>::waited.
FallIdle(u) ==
    /\ IdleDue(u)
    /\ \E d \in I :
          /\ state' = [state EXCEPT ![u] = "Idle"]
          /\ delay' = [delay EXCEPT ![u] = d]
    /\ UNCHANGED <<wait, nextId, stream, acked, quiet, active, drawn>>

\* Time passes for everybody when nobody has anything due.
Tick ==
    /\ \A u \in Users : ~SendDue(u) /\ ~IdleDue(u)
    /\ delay' = [u \in Users |-> Max({delay[u] - 1, 0})]
    /\ wait' = [u \in Users |-> Max({wait[u] - 1, 0})]
    /\ quiet' = [u \in Users |-> Min({quiet[u] + 1, MaxInstant})]
    /\ active' = [u \in Users |-> Min({active[u] + 1, MaxInstant})]
    /\ UNCHANGED <<state, nextId, stream, acked, drawn>>

Next ==
    \/ Tick
    \/ \E u \in Users :
          \/ Send(u) \/ FallIdle(u)
          \/ \E v \in Users \ {u} : ReceiveMessage(u, v) \/ ReceiveReceipt(u, v)

\* Time goes on, a due member is run, and streams deliver.
Fairness ==
    /\ WF_vars(Tick)
    /\ \A u \in Users :
          /\ WF_vars(Send(u)) /\ WF_vars(FallIdle(u))
          /\ \A v \in Users \ {u} :
                WF_vars(ReceiveMessage(u, v)) /\ WF_vars(ReceiveReceipt(u, v))

Spec == Init /\ [][Next]_vars
FairSpec == Spec /\ Fairness
-----------------------------------------------------------------------------
\* The messages of a kind in stream s have the ids a..b-1, once each and in
\* their order.
Carries(s, kind, a, b) ==
    LET Of == {i \in DOMAIN s : s[i].body = kind}
    IN  /\ {s[i].id : i \in Of} = a..(b - 1)
        /\ \A i, j \in Of : i < j => s[i].id < s[j].id

\* Of n messages, receipts were got, are on their way back, or will come for
\* the messages still on their way out, without gap or repetition.
Matched(got, back, out, n) ==
    /\ got = [i \in 1..Len(got) |-> i - 1]
    /\ \E seen \in Len(got)..n :
          Carries(back, "Receipt", Len(got), seen) /\ Carries(out, "Size", seen, n)

\* Every message is acknowledged by every other member exactly once and in
\* order: the receipts u has, those on the way to it, and the messages not
\* yet received are together the ids u has used.  The evaluation of the logs
\* (mgentools) matches receipts by these ids.
ReceiptsMatch ==
    \A u \in Users : \A v \in Users \ {u} :
        Matched(acked[u][v], stream[v][u], stream[u][v], nextId[u])

\* An Active stretch lasts exactly the W that was drawn when it began: what has
\* passed of it and what is left are together that W, so no message sent or
\* received in the meantime, however many there are and whichever member they
\* come from, prolongs or shortens it.  (mgen/README.md:102 says otherwise:
\* see IdleAfterSilence.)
ActiveForW ==
    \A u \in Users : state[u] = "Active" =>
        drawn[u] \in W /\ active[u] + wait[u] = drawn[u]

\* Every message is eventually acknowledged by everybody.
EventuallyAcknowledged ==
    \A u \in Users : \A v \in Users \ {u} : \A n \in 1..MaxId :
        nextId[u] >= n ~> Len(acked[u][v]) >= n

\* mgen/README.md:102: W is "the amount of time Active without sending or
\* receiving messages to transition to Idle".  The code falls idle when the W of
\* the stretch is over, whenever the last message was.
IdleAfterSilence ==
    [][\A u \in Users : state[u] = "Active" /\ state'[u] = "Idle"
          => quiet[u] >= drawn[u]]_vars
=============================================================================
