------------------------------ MODULE Mailbox ------------------------------
(***************************************************************************)
(* What mgen's Updater promises its users, with locks and wake-ups         *)
(* abstracted away: a place that holds at most one object.  A new object   *)
(* replaces the one that is there, a receiver that gets an object removes  *)
(* it.  Objects are numbered in the order in which they are put.           *)
(***************************************************************************)
EXTENDS Naturals, Sequences

CONSTANTS Receivers,  \* the copies of the channel that receive
          Dedicated,  \* the receivers that never abandon a call of recv
          MaxSends    \* bound on the number of objects put

VARIABLES object,     \* the object that is there, 0 when there is none
          sent,       \* how many objects were put so far
          taken,      \* the objects received, in order (history)
          wants       \* the receivers that are in a call of recv

vars == <<object, sent, taken, wants>>

Init == object = 0 /\ sent = 0 /\ taken = <<>> /\ wants = {}

Put ==
    /\ sent < MaxSends
    /\ sent' = sent + 1
    /\ object' = sent + 1
    /\ UNCHANGED <<taken, wants>>

\* An object leaves the mailbox; the receiver's call, if any, ends.
Take(r) ==
    /\ object # 0
    /\ taken' = Append(taken, object)
    /\ object' = 0
    /\ wants' = wants \ {r}
    /\ UNCHANGED sent

Enter(r) ==
    /\ r \notin wants
    /\ wants' = wants \cup {r}
    /\ UNCHANGED <<object, sent, taken>>

Leave(r) ==
    /\ r \in wants \ Dedicated
    /\ wants' = wants \ {r}
    /\ UNCHANGED <<object, sent, taken>>

Next == Put \/ \E r \in Receivers : Take(r) \/ Enter(r) \/ Leave(r)

\* While a receiver that does not give up is waiting, an object that is
\* there is received by somebody.
Fairness ==
    \A d \in Dedicated : WF_vars(d \in wants /\ \E r \in Receivers : Take(r))

Spec == Init /\ [][Next]_vars
FairSpec == Spec /\ Fairness
=============================================================================
