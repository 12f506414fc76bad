------------------------- MODULE ConversationProofs -------------------------
(***************************************************************************)
(* Receipts match messages, and Active stretches last as long as was       *)
(* drawn, in groups of any size and for all distributions.                 *)
(***************************************************************************)
EXTENDS Conversation, SequenceTheorems, TLAPS

\* The longest sample is a sample, and none is longer.
LEMMA LongestSample ==
  MaxInstant \in Nat /\ MaxInstant \in Instants /\ \A t \in Instants : t <= MaxInstant
  <1>1. PICK m \in Instants : \A t \in Instants : t <= m
    BY ConversationAssumption
  <1>2. Instants \subseteq Nat
    BY ConversationAssumption DEF Instants
  <1>3. m >= m /\ \A y \in Instants : m >= y
    BY <1>1, <1>2
  <1>4. \E x \in Instants : \A y \in Instants : x >= y
    BY <1>3
  <1>5. MaxInstant \in Instants /\ \A y \in Instants : MaxInstant >= y
    BY <1>4, Zenon DEF MaxInstant, Max
  <1> QED BY <1>2, <1>5

\* Time left, one tick later.
LEMMA Later ==
  ASSUME NEW a \in Nat
  PROVE  Max({a - 1, 0}) = IF a = 0 THEN 0 ELSE a - 1
  <1> DEFINE S == {a - 1, 0}
  <1> DEFINE b == IF a = 0 THEN 0 ELSE a - 1
  <1>1. b \in S /\ \A y \in S : b >= y
    OBVIOUS
  <1>2. Max(S) \in S /\ \A y \in S : Max(S) >= y
    BY <1>1, Zenon DEF Max
  <1> QED BY <1>1, <1>2

\* Time passed, one tick later, as far as the model counts it.
LEMMA Longer ==
  ASSUME NEW a \in Nat, NEW m \in Nat
  PROVE  Min({a + 1, m}) = IF a + 1 <= m THEN a + 1 ELSE m
  <1> DEFINE S == {a + 1, m}
  <1> DEFINE b == IF a + 1 <= m THEN a + 1 ELSE m
  <1>1. b \in S /\ \A y \in S : b <= y
    OBVIOUS
  <1>2. Min(S) \in S /\ \A y \in S : Min(S) <= y
    BY <1>1, Zenon DEF Min
  <1> QED BY <1>1, <1>2
-----------------------------------------------------------------------------
\* A message put into a stream is carried after those already there.
LEMMA CarriesAppend ==
  ASSUME NEW s \in Seq(Messages), NEW m \in Messages, NEW kind,
         NEW a \in Nat, NEW b \in Nat, a <= b,
         Carries(s, kind, a, b), m.body = kind => m.id = b
  PROVE  Carries(Append(s, m), kind, a, IF m.body = kind THEN b + 1 ELSE b)
  <1> DEFINE t == Append(s, m)
             Of == {i \in DOMAIN s : s[i].body = kind}
             OfT == {i \in DOMAIN t : t[i].body = kind}
             c == IF m.body = kind THEN b + 1 ELSE b
  <1>1. /\ DOMAIN s = 1..Len(s) /\ DOMAIN t = 1..(Len(s) + 1) /\ Len(s) \in Nat
        /\ \A i \in 1..Len(s) : t[i] = s[i]
        /\ t[Len(s) + 1] = m
    OBVIOUS
  <1>2. /\ {s[i].id : i \in Of} = a..(b - 1)
        /\ \A i, j \in Of : i < j => s[i].id < s[j].id
    BY DEF Carries
  <1>3. \A i \in Of : i \in OfT /\ t[i] = s[i] /\ i \in 1..Len(s) /\ s[i].id \in a..(b - 1)
    BY <1>1, <1>2
  <1>4. \A i \in OfT : i \in Of \/ (i = Len(s) + 1 /\ t[i] = m /\ m.body = kind)
    BY <1>1
  <1>5. m.body = kind => Len(s) + 1 \in OfT
    BY <1>1
  <1> HIDE DEF t, Of, OfT
  <1>6. {t[i].id : i \in OfT} = a..(c - 1)
    <2>1. ASSUME NEW i \in OfT PROVE t[i].id \in a..(c - 1)
      BY <1>3, <1>4
    <2>2. ASSUME NEW x \in a..(c - 1) PROVE \E i \in OfT : t[i].id = x
      <3>1. CASE x \in a..(b - 1)
        BY <3>1, <1>2, <1>3
      <3>2. CASE x \notin a..(b - 1)
        BY <3>2, <2>2, <1>5, <1>1
      <3> QED BY <3>1, <3>2
    <2> QED BY <2>1, <2>2
  <1>7. ASSUME NEW i \in OfT, NEW j \in OfT, i < j PROVE t[i].id < t[j].id
    <2>1. CASE j \in Of
      <3>1. i \in Of
        BY <2>1, <1>3, <1>4, <1>7, <1>1
      <3> QED BY <3>1, <2>1, <1>2, <1>3, <1>7
    <2>2. CASE j \notin Of
      <3>1. i \in Of /\ t[j] = m /\ m.body = kind
        BY <2>2, <1>4, <1>7, <1>1
      <3> QED BY <3>1, <1>3
    <2> QED BY <2>1, <2>2
  <1> QED BY <1>6, <1>7 DEF Carries, t, OfT

\* A message taken from a stream is the first that it carries of its kind.
LEMMA CarriesTail ==
  ASSUME NEW s \in Seq(Messages), s # <<>>, NEW kind, NEW a \in Nat, NEW b \in Nat,
         Carries(s, kind, a, b)
  PROVE  /\ Head(s).body = kind => Head(s).id = a /\ a < b /\ Carries(Tail(s), kind, a + 1, b)
         /\ Head(s).body # kind => Carries(Tail(s), kind, a, b)
  <1> DEFINE t == Tail(s)
             Of == {i \in DOMAIN s : s[i].body = kind}
             OfT == {i \in DOMAIN t : t[i].body = kind}
  <1>1. /\ Len(s) \in Nat \ {0} /\ DOMAIN s = 1..Len(s) /\ DOMAIN t = 1..(Len(s) - 1)
        /\ \A i \in 1..(Len(s) - 1) : t[i] = s[i + 1]
        /\ Head(s) = s[1]
    OBVIOUS
  <1>2. /\ {s[i].id : i \in Of} = a..(b - 1)
        /\ \A i, j \in Of : i < j => s[i].id < s[j].id
    BY DEF Carries
  <1>3. \A i \in OfT : i \in Nat /\ i + 1 \in Of /\ t[i] = s[i + 1] /\ i + 1 > 1
    BY <1>1
  <1>4. \A i \in Of : i \in Nat \ {0} /\ (i = 1 \/ (i - 1 \in OfT /\ t[i - 1] = s[i]))
    BY <1>1
  <1>5. Head(s).body = kind <=> 1 \in Of
    BY <1>1
  <1>6. \A i \in Of : s[i].id \in a..(b - 1)
    BY <1>2
  <1>7. \A x \in a..(b - 1) : \E i \in Of : s[i].id = x
    BY <1>2
  <1> HIDE DEF t, Of, OfT
  <1>8. ASSUME NEW i \in OfT, NEW j \in OfT, i < j PROVE t[i].id < t[j].id
    BY <1>2, <1>3, <1>8
  <1>9. ASSUME Head(s).body = kind
        PROVE  Head(s).id = a /\ a < b /\ Carries(Tail(s), kind, a + 1, b)
    <2>1. 1 \in Of /\ s[1].id \in a..(b - 1)
      BY <1>5, <1>6, <1>9
    <2>2. ASSUME NEW i \in Of, i # 1 PROVE s[1].id < s[i].id
      BY <2>1, <2>2, <1>2, <1>4
    <2>3. PICK i \in Of : s[i].id = a
      BY <2>1, <1>7
    <2>4. s[1].id = a
      BY <2>1, <2>2, <2>3
    <2>5. {t[i2].id : i2 \in OfT} = (a + 1)..(b - 1)
      <3>1. ASSUME NEW k \in OfT PROVE t[k].id \in (a + 1)..(b - 1)
        BY <3>1, <1>3, <1>6, <2>2, <2>4
      <3>2. ASSUME NEW x \in (a + 1)..(b - 1) PROVE \E k \in OfT : t[k].id = x
        <4>1. PICK k \in Of : s[k].id = x
          BY <1>7
        <4>2. k # 1
          BY <4>1, <2>4
        <4> QED BY <4>1, <4>2, <1>4
      <3> QED BY <3>1, <3>2
    <2>6. Carries(t, kind, a + 1, b)
      BY <2>5, <1>8 DEF Carries, OfT
    <2> QED BY <2>1, <2>4, <2>6, <1>1 DEF t
  <1>10. ASSUME Head(s).body # kind PROVE Carries(Tail(s), kind, a, b)
    <2>1. 1 \notin Of
      BY <1>5, <1>10
    <2>2. {t[i2].id : i2 \in OfT} = a..(b - 1)
      <3>1. ASSUME NEW k \in OfT PROVE t[k].id \in a..(b - 1)
        BY <3>1, <1>3, <1>6
      <3>2. ASSUME NEW x \in a..(b - 1) PROVE \E k \in OfT : t[k].id = x
        <4>1. PICK k \in Of : s[k].id = x
          BY <1>7
        <4> QED BY <4>1, <2>1, <1>4
      <3> QED BY <3>1, <3>2
    <2>3. Carries(t, kind, a, b)
      BY <2>2, <1>8 DEF Carries, OfT
    <2> QED BY <2>3 DEF t
  <1> QED BY <1>9, <1>10

\* A message is sent.
LEMMA MatchedSend ==
  ASSUME NEW got \in Seq(Ids), NEW back \in Seq(Messages), NEW out \in Seq(Messages),
         NEW n \in 0..(MaxId - 1), Matched(got, back, out, n)
  PROVE  Matched(got, back, Append(out, [body |-> "Size", id |-> n]), n + 1)
  <1> DEFINE m == [body |-> "Size", id |-> n]
  <1>1. PICK seen \in Len(got)..n :
           Carries(back, "Receipt", Len(got), seen) /\ Carries(out, "Size", seen, n)
    BY DEF Matched
  <1>2. m \in Messages /\ m.body = "Size" /\ m.id = n /\ n \in Nat /\ seen \in Nat /\ seen <= n
    BY <1>1, ConversationAssumption DEF Messages, Kinds, Ids
  <1> HIDE DEF m
  <1>3. Carries(Append(out, m), "Size", seen, n + 1)
    BY <1>1, <1>2, CarriesAppend
  <1>4. seen \in Len(got)..(n + 1)
    BY <1>2
  <1>5. Matched(got, back, Append(out, m), n + 1)
    BY <1>1, <1>3, <1>4 DEF Matched
  <1> QED BY <1>5 DEF m

\* What u sends to v beside its messages does not change their receipts, nor
\* does what v sends to u beside its receipts.
LEMMA MatchedBeside ==
  ASSUME NEW got \in Seq(Ids), NEW back \in Seq(Messages), NEW out \in Seq(Messages),
         NEW n \in Nat, NEW m \in Messages, Matched(got, back, out, n)
  PROVE  /\ m.body = "Receipt" => Matched(got, back, Append(out, m), n)
         /\ m.body = "Size" => Matched(got, Append(back, m), out, n)
         /\ out # <<>> /\ Head(out).body = "Receipt" => Matched(got, back, Tail(out), n)
         /\ back # <<>> /\ Head(back).body = "Size" => Matched(got, Tail(back), out, n)
  <1>1. PICK seen \in Len(got)..n :
           Carries(back, "Receipt", Len(got), seen) /\ Carries(out, "Size", seen, n)
    BY DEF Matched
  <1>2. Len(got) \in Nat /\ seen \in Nat /\ seen <= n /\ Len(got) <= seen
    BY <1>1
  <1>3. ASSUME m.body = "Receipt" PROVE Matched(got, back, Append(out, m), n)
    <2>1. Carries(Append(out, m), "Size", seen, n)
      BY <1>1, <1>2, <1>3, CarriesAppend
    <2> QED BY <1>1, <2>1 DEF Matched
  <1>4. ASSUME m.body = "Size" PROVE Matched(got, Append(back, m), out, n)
    <2>1. Carries(Append(back, m), "Receipt", Len(got), seen)
      BY <1>1, <1>2, <1>4, CarriesAppend
    <2> QED BY <1>1, <2>1 DEF Matched
  <1>5. ASSUME out # <<>>, Head(out).body = "Receipt" PROVE Matched(got, back, Tail(out), n)
    <2>1. Carries(Tail(out), "Size", seen, n)
      BY <1>1, <1>2, <1>5, CarriesTail
    <2> QED BY <1>1, <2>1 DEF Matched
  <1>6. ASSUME back # <<>>, Head(back).body = "Size" PROVE Matched(got, Tail(back), out, n)
    <2>1. Carries(Tail(back), "Receipt", Len(got), seen)
      BY <1>1, <1>2, <1>6, CarriesTail
    <2> QED BY <1>1, <2>1 DEF Matched
  <1> QED BY <1>3, <1>4, <1>5, <1>6

\* A message is received, and a receipt goes back.
LEMMA MatchedMessage ==
  ASSUME NEW got \in Seq(Ids), NEW back \in Seq(Messages), NEW out \in Seq(Messages),
         NEW n \in Nat, Matched(got, back, out, n), out # <<>>, Head(out).body = "Size"
  PROVE  Matched(got, Append(back, [body |-> "Receipt", id |-> Head(out).id]), Tail(out), n)
  <1> DEFINE m == [body |-> "Receipt", id |-> Head(out).id]
  <1>1. PICK seen \in Len(got)..n :
           Carries(back, "Receipt", Len(got), seen) /\ Carries(out, "Size", seen, n)
    BY DEF Matched
  <1>2. Len(got) \in Nat /\ seen \in Nat /\ seen <= n /\ Len(got) <= seen
    BY <1>1
  <1>3. Head(out) \in Messages
    OBVIOUS
  <1>4. m \in Messages /\ m.body = "Receipt" /\ m.id = Head(out).id
    BY <1>3 DEF Messages, Kinds
  <1> HIDE DEF m
  <1>5. Head(out).id = seen /\ seen < n /\ Carries(Tail(out), "Size", seen + 1, n)
    BY <1>1, <1>2, CarriesTail
  <1>6. Carries(Append(back, m), "Receipt", Len(got), seen + 1)
    BY <1>1, <1>2, <1>4, <1>5, CarriesAppend
  <1>7. seen + 1 \in Len(got)..n
    BY <1>2, <1>5
  <1>8. Matched(got, Append(back, m), Tail(out), n)
    BY <1>5, <1>6, <1>7 DEF Matched
  <1> QED BY <1>8 DEF m

\* A receipt is received.
LEMMA MatchedReceipt ==
  ASSUME NEW got \in Seq(Ids), NEW back \in Seq(Messages), NEW out \in Seq(Messages),
         NEW n \in Nat, Matched(got, back, out, n), back # <<>>, Head(back).body = "Receipt"
  PROVE  Matched(Append(got, Head(back).id), Tail(back), out, n)
  <1> DEFINE g == Append(got, Head(back).id)
  <1>1. PICK seen \in Len(got)..n :
           Carries(back, "Receipt", Len(got), seen) /\ Carries(out, "Size", seen, n)
    BY DEF Matched
  <1>2. Len(got) \in Nat /\ seen \in Nat /\ seen <= n /\ Len(got) <= seen
    BY <1>1
  <1>3. /\ Head(back).id = Len(got) /\ Len(got) < seen
        /\ Carries(Tail(back), "Receipt", Len(got) + 1, seen)
    BY <1>1, <1>2, CarriesTail
  <1>4. Head(back) \in Messages
    OBVIOUS
  <1>5. Head(back).id \in Ids
    BY <1>4 DEF Messages
  <1>6. /\ g \in Seq(Ids) /\ Len(g) = Len(got) + 1 /\ g[Len(got) + 1] = Head(back).id
        /\ \A i \in 1..Len(got) : g[i] = got[i]
    BY <1>5
  <1> HIDE DEF g
  <1>7. got = [i \in 1..Len(got) |-> i - 1]
    BY DEF Matched
  <1>8. ASSUME NEW i \in 1..Len(g) PROVE g[i] = i - 1
    <2>1. CASE i \in 1..Len(got)
      <3>1. got[i] = i - 1
        BY <1>7, <2>1
      <3> QED BY <3>1, <2>1, <1>6
    <2>2. CASE i = Len(got) + 1
      BY <2>2, <1>6, <1>3, <1>2
    <2> QED BY <2>1, <2>2, <1>6, <1>2
  <1>9. g = [i \in 1..Len(g) |-> i - 1]
    BY <1>6, <1>8
  <1>10. seen \in Len(g)..n
    BY <1>2, <1>3, <1>6
  <1>11. Matched(g, Tail(back), out, n)
    BY <1>1, <1>3, <1>6, <1>9, <1>10 DEF Matched
  <1> QED BY <1>11 DEF g
-----------------------------------------------------------------------------
IInv == TypeOK /\ ReceiptsMatch /\ ActiveForW

\* Nobody has sent anything, and everybody is Idle.
LEMMA InitIInv == Init => IInv
  <1> SUFFICES ASSUME Init PROVE IInv
    OBVIOUS
  <1>m. MaxInstant \in Nat /\ \A t \in I : t \in 0..MaxInstant
    BY LongestSample, ConversationAssumption DEF Instants
  <1>1. TypeOK
    <2>1. delay \in [Users -> 0..MaxInstant]
      BY <1>m DEF Init
    <2>2. wait \in [Users -> 0..MaxInstant]
      BY <1>m DEF Init
    <2>3. /\ quiet \in [Users -> 0..MaxInstant] /\ active \in [Users -> 0..MaxInstant]
          /\ drawn \in [Users -> 0..MaxInstant]
      BY <1>m DEF Init
    <2>4. nextId \in [Users -> 0..MaxId]
      BY ConversationAssumption DEF Init
    <2>5. stream \in [Users -> [Users -> Seq(Messages)]]
      BY DEF Init
    <2>6. acked \in [Users -> [Users -> Seq(Ids)]]
      BY DEF Init
    <2>7. state \in [Users -> {"Idle", "Active"}]
      BY DEF Init
    <2> QED BY <2>1, <2>2, <2>3, <2>4, <2>5, <2>6, <2>7 DEF TypeOK
  <1>2. ActiveForW
    BY DEF Init, ActiveForW
  <1>3. ReceiptsMatch
    <2> SUFFICES ASSUME NEW u \in Users, NEW v \in Users \ {u}
                 PROVE  Matched(acked[u][v], stream[v][u], stream[u][v], nextId[u])
      BY DEF ReceiptsMatch
    <2>1. acked[u][v] = <<>> /\ nextId[u] = 0 /\ stream[u][v] = <<>> /\ stream[v][u] = <<>>
      BY DEF Init
    <2>2. \A kind : Carries(<<>>, kind, 0, 0)
      BY DEF Carries
    <2>3. Len(<<>>) = 0 /\ <<>> = [i \in 1..0 |-> i - 1]
      OBVIOUS
    <2>4. Matched(<<>>, <<>>, <<>>, 0)
      BY <2>2, <2>3 DEF Matched
    <2> QED BY <2>1, <2>4
  <1> QED BY <1>1, <1>2, <1>3 DEF IInv

\* The transition of a member: its type, and the W of an Active stretch.
LEMMA BecomeSound ==
  ASSUME TypeOK, ActiveForW, NEW u \in Users, NEW s \in {"Idle", "Active"},
         NEW d \in 0..MaxInstant, NEW w \in 0..MaxInstant, Become(u, s, d, w),
         s = "Active" => IF state[u] = "Active" THEN w = wait[u] ELSE w \in W
  PROVE  /\ state' \in [Users -> {"Idle", "Active"}]
         /\ delay' \in [Users -> 0..MaxInstant] /\ wait' \in [Users -> 0..MaxInstant]
         /\ quiet' \in [Users -> 0..MaxInstant] /\ active' \in [Users -> 0..MaxInstant]
         /\ drawn' \in [Users -> 0..MaxInstant]
         /\ ActiveForW'
  <1>m. MaxInstant \in Nat
    BY LongestSample
  <1>1. state' \in [Users -> {"Idle", "Active"}]
    BY DEF Become, TypeOK
  <1>2. delay' \in [Users -> 0..MaxInstant] /\ wait' \in [Users -> 0..MaxInstant]
    BY DEF Become, TypeOK
  <1>3. quiet' \in [Users -> 0..MaxInstant]
    BY <1>m DEF Become, TypeOK
  <1>4. active' \in [Users -> 0..MaxInstant] /\ drawn' \in [Users -> 0..MaxInstant]
    BY <1>m DEF Become, TypeOK
  <1>5. ASSUME NEW x \in Users, state'[x] = "Active"
        PROVE  drawn'[x] \in W /\ active'[x] + wait'[x] = drawn'[x]
    <2>1. CASE x # u
      BY <1>5, <2>1 DEF Become, TypeOK, ActiveForW
    <2>2. CASE x = u
      <3>1. s = "Active" /\ wait'[u] = w
        BY <1>5, <2>2 DEF Become, TypeOK
      <3>2. CASE state[u] = "Active"
        <4>1. active'[u] = active[u] /\ drawn'[u] = drawn[u]
          BY <3>2 DEF Become, TypeOK
        <4> QED BY <4>1, <3>1, <3>2, <2>2 DEF ActiveForW
      <3>3. CASE state[u] # "Active"
        <4>1. active'[u] = 0 /\ drawn'[u] = w
          BY <3>3 DEF Become, TypeOK
        <4>2. w \in W /\ w \in Nat
          BY <3>1, <3>3, <1>m
        <4> QED BY <4>1, <4>2, <3>1, <2>2
      <3> QED BY <3>2, <3>3
    <2> QED BY <2>1, <2>2
  <1> QED BY <1>1, <1>2, <1>3, <1>4, <1>5 DEF ActiveForW

\* What a member does after it sent or received something.
LEMMA TransitionSound ==
  ASSUME TypeOK, ActiveForW, NEW u \in Users, Sent(u) \/ Received(u)
  PROVE  /\ state' \in [Users -> {"Idle", "Active"}]
         /\ delay' \in [Users -> 0..MaxInstant] /\ wait' \in [Users -> 0..MaxInstant]
         /\ quiet' \in [Users -> 0..MaxInstant] /\ active' \in [Users -> 0..MaxInstant]
         /\ drawn' \in [Users -> 0..MaxInstant]
         /\ ActiveForW'
  <1>m. MaxInstant \in Nat /\ \A t \in Instants : t \in 0..MaxInstant
    BY LongestSample, ConversationAssumption DEF Instants
  <1>t. /\ wait[u] \in 0..MaxInstant /\ delay[u] \in 0..MaxInstant /\ 0 \in 0..MaxInstant
        /\ state[u] \in {"Idle", "Active"}
    BY <1>m DEF TypeOK
  <1>1. \/ \E d \in Instants, w \in W : state[u] = "Idle" /\ Become(u, "Active", d, w)
        \/ \E d \in Instants : state[u] = "Active" /\ Become(u, "Active", d, wait[u])
        \/ \E d \in Instants : Become(u, "Idle", d, 0)
        \/ Become(u, "Idle", delay[u], 0)
    BY <1>t DEF Sent, Received, SentIdle, SentActive, ReceivedIdle, ReceivedActive, Instants
  <1>2. ASSUME NEW d \in Instants, NEW w \in W, state[u] = "Idle", Become(u, "Active", d, w)
        PROVE  \E s \in {"Idle", "Active"}, e \in 0..MaxInstant, x \in 0..MaxInstant :
                  /\ Become(u, s, e, x)
                  /\ s = "Active" => IF state[u] = "Active" THEN x = wait[u] ELSE x \in W
    BY <1>2, <1>m DEF Instants
  <1>3. ASSUME NEW d \in Instants, state[u] = "Active", Become(u, "Active", d, wait[u])
        PROVE  \E s \in {"Idle", "Active"}, e \in 0..MaxInstant, x \in 0..MaxInstant :
                  /\ Become(u, s, e, x)
                  /\ s = "Active" => IF state[u] = "Active" THEN x = wait[u] ELSE x \in W
    BY <1>3, <1>m, <1>t
  <1>4. ASSUME NEW d \in 0..MaxInstant, Become(u, "Idle", d, 0)
        PROVE  \E s \in {"Idle", "Active"}, e \in 0..MaxInstant, x \in 0..MaxInstant :
                  /\ Become(u, s, e, x)
                  /\ s = "Active" => IF state[u] = "Active" THEN x = wait[u] ELSE x \in W
    BY <1>4, <1>t
  <1>5. PICK s \in {"Idle", "Active"}, e \in 0..MaxInstant, x \in 0..MaxInstant :
                  /\ Become(u, s, e, x)
                  /\ s = "Active" => IF state[u] = "Active" THEN x = wait[u] ELSE x \in W
    BY <1>1, <1>2, <1>3, <1>4, <1>m, <1>t
  <1> QED BY <1>5, BecomeSound

\* Every step of a member, and the time that passes, keep the invariant.
LEMMA NextIInv == IInv /\ [Next]_vars => IInv'
  <1> SUFFICES ASSUME IInv, [Next]_vars PROVE IInv'
    OBVIOUS
  <1>t. TypeOK /\ ReceiptsMatch /\ ActiveForW
    BY DEF IInv
  <1>s. /\ \A x, y \in Users : stream[x][y] \in Seq(Messages) /\ acked[x][y] \in Seq(Ids)
        /\ \A x \in Users : nextId[x] \in 0..MaxId /\ nextId[x] \in Nat
    BY <1>t, ConversationAssumption DEF TypeOK
  <1>r. ASSUME NEW x \in Users, NEW y \in Users \ {x}
        PROVE  Matched(acked[x][y], stream[y][x], stream[x][y], nextId[x])
    BY <1>t DEF ReceiptsMatch
  <1>m. MaxInstant \in Nat /\ \A t \in Instants : t \in 0..MaxInstant
    BY LongestSample, ConversationAssumption DEF Instants
  <1>1. ASSUME NEW u \in Users, Send(u) PROVE IInv'
    <2> DEFINE m == [body |-> "Size", id |-> nextId[u]]
    <2>1. nextId[u] \in 0..(MaxId - 1)
      BY <1>1, <1>s, ConversationAssumption DEF Send, SendDue
    <2>2. m \in Messages /\ m.body = "Size"
      BY <2>1 DEF Messages, Kinds, Ids
    <2> HIDE DEF m
    <2>3. nextId' = [nextId EXCEPT ![u] = nextId[u] + 1]
      BY <1>1 DEF Send
    <2>4. stream' = [stream EXCEPT ![u] = [v \in Users |->
                        IF v = u THEN @[v] ELSE Append(@[v], m)]]
      BY <1>1 DEF Send, ToOthers, m
    <2>5. /\ stream' \in [Users -> [Users -> Seq(Messages)]]
          /\ \A v \in Users \ {u} : stream'[u][v] = Append(stream[u][v], m)
          /\ \A x \in Users \ {u} : stream'[x] = stream[x]
      <3>1. \A v \in Users : Append(stream[u][v], m) \in Seq(Messages)
        BY <1>s, <2>2
      <3>2. [v \in Users |-> IF v = u THEN stream[u][v] ELSE Append(stream[u][v], m)]
              \in [Users -> Seq(Messages)]
        BY <3>1, <1>s
      <3> QED BY <2>4, <3>2, <1>t DEF TypeOK
    <2>6. nextId' \in [Users -> 0..MaxId]
      BY <2>1, <2>3, <1>t, ConversationAssumption DEF TypeOK
    <2>7. Sent(u) /\ acked' = acked
      BY <1>1 DEF Send
    <2>8. ASSUME NEW x \in Users, NEW y \in Users \ {x}
          PROVE  Matched(acked'[x][y], stream'[y][x], stream'[x][y], nextId'[x])
      <3>1. CASE x = u
        <4>1. Matched(acked[u][y], stream[y][u], Append(stream[u][y], m), nextId[u] + 1)
          BY <1>r, <1>s, <2>1, <3>1, MatchedSend DEF m
        <4>2. nextId'[u] = nextId[u] + 1
          BY <2>3, <1>t DEF TypeOK
        <4>3. stream'[u][y] = Append(stream[u][y], m) /\ stream'[y][u] = stream[y][u]
          BY <2>5, <3>1
        <4> QED BY <4>1, <4>2, <4>3, <3>1, <2>7
      <3>2. CASE x # u
        <4>1. nextId'[x] = nextId[x] /\ stream'[x][y] = stream[x][y]
          BY <2>3, <2>5, <3>2, <1>t DEF TypeOK
        <4>2. CASE y = u
          <5>1. stream'[u][x] = Append(stream[u][x], m)
            BY <2>5, <3>2
          <5>2. Matched(acked[x][u], Append(stream[u][x], m), stream[x][u], nextId[x])
            BY <1>r, <1>s, <2>2, <3>2, <4>2, MatchedBeside
          <5> QED BY <5>1, <5>2, <4>1, <4>2, <2>7
        <4>3. CASE y # u
          BY <4>1, <4>3, <2>5, <2>7, <1>r
        <4> QED BY <4>2, <4>3
      <3> QED BY <3>1, <3>2
    <2>9. TypeOK' /\ ActiveForW'
      BY <2>5, <2>6, <2>7, <1>t, TransitionSound DEF TypeOK
    <2> QED BY <2>8, <2>9 DEF IInv, ReceiptsMatch
  <1>2. ASSUME NEW u \in Users, FallIdle(u) PROVE IInv'
    <2>1. PICK d \in I : /\ state' = [state EXCEPT ![u] = "Idle"]
                         /\ delay' = [delay EXCEPT ![u] = d]
      BY <1>2 DEF FallIdle
    <2>2. UNCHANGED <<wait, nextId, stream, acked, quiet, active, drawn>>
      BY <1>2 DEF FallIdle
    <2>3. TypeOK'
      BY <2>1, <2>2, <1>t, <1>m DEF TypeOK, Instants
    <2>4. ActiveForW'
      BY <2>1, <2>2, <1>t DEF TypeOK, ActiveForW
    <2>5. ReceiptsMatch'
      BY <2>2, <1>t DEF ReceiptsMatch
    <2> QED BY <2>3, <2>4, <2>5 DEF IInv
  <1>3. ASSUME NEW u \in Users, NEW v \in Users \ {u}, ReceiveMessage(u, v) PROVE IInv'
    <2> DEFINE m == [body |-> "Receipt", id |-> Head(stream[v][u]).id]
    <2>1. /\ stream[v][u] # <<>> /\ Head(stream[v][u]).body = "Size"
          /\ stream' = [stream EXCEPT ![v][u] = Tail(@), ![u][v] = Append(@, m)]
          /\ Received(u) /\ UNCHANGED <<nextId, acked>>
      BY <1>3 DEF ReceiveMessage
    <2>a. Head(stream[v][u]) \in Messages
      BY <2>1, <1>s, HeadTailProperties
    <2>2. m \in Messages /\ m.body = "Receipt"
      BY <2>a DEF Messages, Kinds
    <2> HIDE DEF m
    <2>3. Tail(stream[v][u]) \in Seq(Messages) /\ Append(stream[u][v], m) \in Seq(Messages)
      BY <2>1, <2>2, <1>s
    <2>4. /\ stream' \in [Users -> [Users -> Seq(Messages)]]
          /\ stream'[v][u] = Tail(stream[v][u]) /\ stream'[u][v] = Append(stream[u][v], m)
          /\ \A x, y \in Users : <<x, y>> # <<u, v>> /\ <<x, y>> # <<v, u>>
                => stream'[x][y] = stream[x][y]
      BY <2>1, <2>3, <1>t DEF TypeOK
    <2>5. ASSUME NEW x \in Users, NEW y \in Users \ {x}
          PROVE  Matched(acked'[x][y], stream'[y][x], stream'[x][y], nextId'[x])
      <3>1. CASE x = v /\ y = u
        <4>1. Matched(acked[v][u], Append(stream[u][v], m), Tail(stream[v][u]), nextId[v])
          BY <1>r, <1>s, <2>1, MatchedMessage DEF m
        <4> QED BY <4>1, <3>1, <2>1, <2>4
      <3>2. CASE x = u /\ y = v
        <4>1. Matched(acked[u][v], Tail(stream[v][u]), stream[u][v], nextId[u])
          BY <1>r, <1>s, <2>1, <2>2, MatchedBeside
        <4>2. Matched(acked[u][v], Tail(stream[v][u]), Append(stream[u][v], m), nextId[u])
          BY <4>1, <1>s, <2>2, <2>3, MatchedBeside
        <4> QED BY <4>2, <3>2, <2>1, <2>4
      <3>3. CASE ~(x = v /\ y = u) /\ ~(x = u /\ y = v)
        BY <3>3, <2>1, <2>4, <1>r
      <3> QED BY <3>1, <3>2, <3>3
    <2>6. TypeOK' /\ ActiveForW'
      BY <2>1, <2>4, <1>t, TransitionSound DEF TypeOK
    <2> QED BY <2>5, <2>6 DEF IInv, ReceiptsMatch
  <1>4. ASSUME NEW u \in Users, NEW v \in Users \ {u}, ReceiveReceipt(u, v) PROVE IInv'
    <2>1. /\ stream[v][u] # <<>> /\ Head(stream[v][u]).body = "Receipt"
          /\ stream' = [stream EXCEPT ![v][u] = Tail(@)]
          /\ acked' = [acked EXCEPT ![u][v] = Append(@, Head(stream[v][u]).id)]
          /\ UNCHANGED <<state, delay, wait, nextId, quiet, active, drawn>>
      BY <1>4 DEF ReceiveReceipt, timers
    <2>a. Head(stream[v][u]) \in Messages
      BY <2>1, <1>s, HeadTailProperties
    <2>2. Head(stream[v][u]) \in Messages /\ Head(stream[v][u]).id \in Ids
      BY <2>a DEF Messages
    <2>3. /\ Tail(stream[v][u]) \in Seq(Messages)
          /\ Append(acked[u][v], Head(stream[v][u]).id) \in Seq(Ids)
      BY <2>1, <2>2, <1>s
    <2>4. /\ stream' \in [Users -> [Users -> Seq(Messages)]]
          /\ stream'[v][u] = Tail(stream[v][u])
          /\ \A x, y \in Users : <<x, y>> # <<v, u>> => stream'[x][y] = stream[x][y]
      BY <2>1, <2>3, <1>t DEF TypeOK
    <2>5. /\ acked' \in [Users -> [Users -> Seq(Ids)]]
          /\ acked'[u][v] = Append(acked[u][v], Head(stream[v][u]).id)
          /\ \A x, y \in Users : <<x, y>> # <<u, v>> => acked'[x][y] = acked[x][y]
      BY <2>1, <2>3, <1>t DEF TypeOK
    <2>6. ASSUME NEW x \in Users, NEW y \in Users \ {x}
          PROVE  Matched(acked'[x][y], stream'[y][x], stream'[x][y], nextId'[x])
      <3>1. CASE x = u /\ y = v
        <4>1. Matched(Append(acked[u][v], Head(stream[v][u]).id), Tail(stream[v][u]),
                      stream[u][v], nextId[u])
          BY <1>r, <1>s, <2>1, MatchedReceipt
        <4>2. stream'[u][v] = stream[u][v]
          BY <2>4
        <4> QED BY <4>1, <4>2, <3>1, <2>1, <2>4, <2>5
      <3>2. CASE x = v /\ y = u
        <4>1. Matched(acked[v][u], stream[u][v], Tail(stream[v][u]), nextId[v])
          BY <1>r, <1>s, <2>1, <2>2, MatchedBeside
        <4>2. stream'[u][v] = stream[u][v] /\ acked'[v][u] = acked[v][u]
          BY <2>4, <2>5
        <4> QED BY <4>1, <4>2, <3>2, <2>1, <2>4
      <3>3. CASE ~(x = v /\ y = u) /\ ~(x = u /\ y = v)
        BY <3>3, <2>1, <2>4, <2>5, <1>r
      <3> QED BY <3>1, <3>2, <3>3
    <2>7. TypeOK'
      BY <2>1, <2>4, <2>5, <1>t DEF TypeOK
    <2>8. ActiveForW'
      BY <2>1, <1>t DEF ActiveForW
    <2> QED BY <2>6, <2>7, <2>8 DEF IInv, ReceiptsMatch
  <1>5. CASE Tick
    <2>1. UNCHANGED <<state, nextId, stream, acked, drawn>>
      BY <1>5 DEF Tick
    <2>2. ASSUME NEW u \in Users
          PROVE  /\ delay[u] \in Nat /\ wait[u] \in Nat /\ quiet[u] \in Nat /\ active[u] \in Nat
                 /\ delay[u] <= MaxInstant /\ wait[u] <= MaxInstant
      BY <1>t, <1>m DEF TypeOK
    <2>3. ASSUME NEW u \in Users
          PROVE  /\ Max({delay[u] - 1, 0}) \in 0..MaxInstant
                 /\ Max({wait[u] - 1, 0}) = (IF wait[u] = 0 THEN 0 ELSE wait[u] - 1)
                 /\ Max({wait[u] - 1, 0}) \in 0..MaxInstant
      BY <2>2, <1>m, Later
    <2>4. ASSUME NEW u \in Users
          PROVE  /\ Min({quiet[u] + 1, MaxInstant}) \in 0..MaxInstant
                 /\ Min({active[u] + 1, MaxInstant}) =
                      (IF active[u] + 1 <= MaxInstant THEN active[u] + 1 ELSE MaxInstant)
                 /\ Min({active[u] + 1, MaxInstant}) \in 0..MaxInstant
      BY <2>2, <1>m, Longer
    <2>5. /\ delay' = [u \in Users |-> Max({delay[u] - 1, 0})]
          /\ wait' = [u \in Users |-> Max({wait[u] - 1, 0})]
          /\ quiet' = [u \in Users |-> Min({quiet[u] + 1, MaxInstant})]
          /\ active' = [u \in Users |-> Min({active[u] + 1, MaxInstant})]
      BY <1>5 DEF Tick
    <2>6. TypeOK'
      BY <2>1, <2>3, <2>4, <2>5, <1>t DEF TypeOK
    <2>7. ASSUME NEW u \in Users, state[u] = "Active"
          PROVE  drawn'[u] \in W /\ active'[u] + wait'[u] = drawn'[u]
      <3>1. drawn[u] \in W /\ active[u] + wait[u] = drawn[u] /\ drawn[u] \in Instants
        BY <2>7, <1>t DEF ActiveForW, Instants
      <3>2. wait[u] # 0
        <4>1. ~IdleDue(u)
          BY <1>5 DEF Tick
        <4> QED BY <4>1, <2>2, <2>7 DEF IdleDue
      <3>3. active[u] + wait[u] <= MaxInstant
        BY <3>1, <1>m
      <3>a. \A a, w, m \in Nat : w # 0 /\ a + w <= m => a + 1 <= m
        OBVIOUS
      <3>b. active[u] + 1 <= MaxInstant
        BY <3>a, <3>2, <3>3, <2>2, <1>m
      <3>c. active'[u] = active[u] + 1
        BY <3>b, <2>4, <2>5
      <3>d. wait'[u] = wait[u] - 1
        BY <3>2, <2>3, <2>5
      <3>4. active'[u] = active[u] + 1 /\ wait'[u] = wait[u] - 1
        BY <3>c, <3>d
      <3> QED BY <3>1, <3>4, <2>1, <2>2
    <2>8. ActiveForW'
      BY <2>1, <2>7 DEF ActiveForW
    <2>9. ReceiptsMatch'
      BY <2>1, <1>t DEF ReceiptsMatch
    <2> QED BY <2>6, <2>8, <2>9 DEF IInv
  <1>6. CASE UNCHANGED vars
    BY <1>6 DEF vars, IInv, TypeOK, ReceiptsMatch, ActiveForW
  <1> QED BY <1>1, <1>2, <1>3, <1>4, <1>5, <1>6 DEF Next

\* The invariant holds in every reachable state.
LEMMA ConversationIsSound == Spec => []IInv
  BY InitIInv, NextIInv, PTL DEF Spec

\* Timers stay within the samples, and streams carry only ids that exist.
THEOREM TypeCorrect == Spec => []TypeOK
  <1>1. IInv => TypeOK
    BY DEF IInv
  <1> QED BY ConversationIsSound, <1>1, PTL

\* In a group of any size every message is acknowledged once by every other
\* member, in order.
THEOREM EveryMessageReceipted == Spec => []ReceiptsMatch
  <1>1. IInv => ReceiptsMatch
    BY DEF IInv
  <1> QED BY ConversationIsSound, <1>1, PTL

\* Messages neither prolong nor shorten an Active stretch, whatever the
\* distributions: a member that falls idle has been Active for the W that was
\* drawn when it became Active.
THEOREM StretchAsDrawn ==
    Spec => /\ []ActiveForW
            /\ [][\A u \in Users : state[u] = "Active" /\ state'[u] = "Idle"
                     => drawn[u] \in W /\ active[u] = drawn[u]]_vars
  <1>1. IInv => ActiveForW
    BY DEF IInv
  <1>2. IInv /\ [Next]_vars =>
          [\A u \in Users : state[u] = "Active" /\ state'[u] = "Idle"
              => drawn[u] \in W /\ active[u] = drawn[u]]_vars
    <2> SUFFICES ASSUME IInv, Next, NEW u \in Users, state[u] = "Active", state'[u] = "Idle"
                 PROVE  drawn[u] \in W /\ active[u] = drawn[u]
      OBVIOUS
    <2>1. /\ state \in [Users -> {"Idle", "Active"}]
          /\ active[u] \in Int /\ drawn[u] \in W /\ active[u] + wait[u] = drawn[u]
      BY LongestSample DEF IInv, TypeOK, ActiveForW
    <2>2. ASSUME NEW x \in Users, Sent(x) \/ Received(x) PROVE FALSE
      <3>1. CASE x = u
        BY <2>1, <2>2, <3>1 DEF Sent, Received, SentActive, ReceivedActive, Become
      <3>2. CASE x # u
        <4>1. \E s, d, w : Become(x, s, d, w)
          BY <2>2 DEF Sent, Received, SentIdle, SentActive, ReceivedIdle, ReceivedActive
        <4> QED BY <2>1, <3>2, <4>1 DEF Become
      <3> QED BY <3>1, <3>2
    <2>3. FallIdle(u)
      <3>1. CASE Tick
        BY <3>1 DEF Tick
      <3>2. ASSUME NEW x \in Users, Send(x) PROVE FALSE
        BY <2>2, <3>2 DEF Send
      <3>3. ASSUME NEW x \in Users, NEW v \in Users \ {x}, ReceiveMessage(x, v) PROVE FALSE
        BY <2>2, <3>3 DEF ReceiveMessage
      <3>4. ASSUME NEW x \in Users, NEW v \in Users \ {x}, ReceiveReceipt(x, v) PROVE FALSE
        BY <3>4 DEF ReceiveReceipt
      <3>5. ASSUME NEW x \in Users, FallIdle(x) PROVE x = u
        BY <2>1, <3>5 DEF FallIdle
      <3> QED BY <3>1, <3>2, <3>3, <3>4, <3>5 DEF Next
    <2>4. wait[u] = 0
      BY <2>3 DEF FallIdle, IdleDue
    <2> QED BY <2>1, <2>4
  <1> QED BY ConversationIsSound, <1>1, <1>2, PTL DEF Spec
=============================================================================
