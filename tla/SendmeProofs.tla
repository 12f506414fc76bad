--------------------------- MODULE SendmeProofs ---------------------------
(***************************************************************************)
(* Flow control of a circuit for any streams, windows and increments, any  *)
(* amount of data and any delay of the cells.                              *)
(***************************************************************************)
EXTENDS Sendme, FiniteSetTheorems, FunctionTheorems, TLAPS

-----------------------------------------------------------------------------
(* Multiples of an increment. *)

\* Division by the increment leaves a remainder below it.
LEMMA DivMod ==
    ASSUME NEW k \in Nat \ {0}, NEW a \in Int
    PROVE  a % k \in 0..k - 1 /\ a \div k \in Int /\ a = (a \div k) * k + (a % k)
  OBVIOUS

\* A multiple leaves none.
LEMMA MultipleMod ==
    ASSUME NEW k \in Nat \ {0}, NEW q \in Int
    PROVE  (q * k) % k = 0
  OBVIOUS

\* What leaves none is a multiple.
LEMMA ModMultiple ==
    ASSUME NEW k \in Nat \ {0}, NEW a \in Int, a % k = 0
    PROVE  \E q \in Int : a = q * k
  <1>1. a \div k \in Int /\ a = (a \div k) * k
    BY DivMod
  <1> QED BY <1>1

\* Between two multiples of k there is none.
LEMMA BetweenMultiples ==
    ASSUME NEW k \in Nat \ {0}, NEW a \in Int, NEW q \in Int,
           q * k < a, a < (q + 1) * k
    PROVE  a % k # 0
  <1> SUFFICES ASSUME a % k = 0 PROVE FALSE
    OBVIOUS
  <1>1. PICK r \in Int : a = r * k
    BY ModMultiple
  <1>2. q * k < r * k /\ r * k < (q + 1) * k
    BY <1>1
  <1> QED BY <1>2

\* Counting down from a multiple meets the same multiples as counting up.
LEMMA ModDifference ==
    ASSUME NEW k \in Nat \ {0}, NEW w \in Int, NEW p \in Int, w % k = 0
    PROVE  p % k = 0 <=> (w - p) % k = 0
  <1>1. PICK v \in Int : w = v * k
    BY ModMultiple
  <1>2. ASSUME p % k = 0 PROVE (w - p) % k = 0
    <2>1. PICK r \in Int : p = r * k
      BY <1>2, ModMultiple
    <2>2. w - p = (v - r) * k
      BY <1>1, <2>1
    <2> QED BY <2>2, MultipleMod
  <1>3. ASSUME (w - p) % k = 0 PROVE p % k = 0
    <2>1. PICK r \in Int : w - p = r * k
      BY <1>3, ModMultiple
    <2>2. p = (v - r) * k
      BY <1>1, <2>1
    <2> QED BY <2>2, MultipleMod
  <1> QED BY <1>2, <1>3

\* A count that has not passed the increment: what is left and how often it fits.
LEMMA SmallMod ==
    ASSUME NEW k \in Nat \ {0}, NEW a \in 0..k
    PROVE  /\ a % k = 0 <=> a \in {0, k}
           /\ a \div k = IF a = k THEN 1 ELSE 0
  <1>1. CASE a = k
    BY <1>1
  <1>2. CASE a \in 0..k - 1
    <2>1. a % k = a /\ a \div k = 0
      BY <1>2
    <2> QED BY <1>2, <2>1
  <1> QED BY <1>1, <1>2

-----------------------------------------------------------------------------
(* Counting cells. *)

\* A sequence has finitely many places, so counts are numbers.
LEMMA AtFinite ==
    ASSUME NEW X, NEW q \in Seq(X), NEW C, NEW x
    PROVE  /\ IsFiniteSet(At(q, C)) /\ Count(q, C) \in Nat
           /\ IsFiniteSet({i \in At(q, C) : i <= x}) /\ Rank(q, C, x) \in Nat
  <1>1. IsFiniteSet(1..Len(q))
    BY FS_Interval
  <1>2. At(q, C) \in SUBSET (1..Len(q)) /\ {i \in At(q, C) : i <= x} \in SUBSET (1..Len(q))
    BY DEF At
  <1>3. IsFiniteSet(At(q, C)) /\ IsFiniteSet({i \in At(q, C) : i <= x})
    BY <1>1, <1>2, FS_Subset
  <1> QED BY <1>3, FS_CardinalityType DEF Count, Rank

\* A count is a number.
LEMMA CountType ==
    ASSUME NEW X, NEW q \in Seq(X), NEW C
    PROVE  Count(q, C) \in Nat
  BY AtFinite

\* So is a count of replies.
LEMMA RepliesCount ==
    ASSUME NEW q \in Seq(Replies), NEW C
    PROVE  Count(q, C) \in Nat
  BY CountType

\* Nothing is counted in an empty sequence.
LEMMA CountEmpty == \A C : Count(<<>>, C) = 0
  BY FS_EmptySet DEF Count, At

\* A bijection is all it takes to compare the sizes of two sets.
LEMMA SameSize ==
    ASSUME NEW S, NEW T, IsFiniteSet(S), NEW f \in [S -> T],
           \A x, y \in S : f[x] = f[y] => x = y,
           \A t \in T : \E x \in S : f[x] = t
    PROVE  IsFiniteSet(T) /\ Cardinality(T) = Cardinality(S)
  <1>1. f \in Bijection(S, T)
    BY Fun_IsBij
  <1>2. ExistsBijection(S, T)
    BY <1>1, Fun_ExistsBij
  <1> QED BY <1>2, FS_Bijection

\* What is left when the first cell has gone.
LEMMA RankTail ==
    ASSUME NEW X, NEW q \in Seq(X), q # <<>>, NEW C, NEW x \in Int
    PROVE  Rank(q, C, x + 1) = Rank(Tail(q), C, x) + (IF q[1] \in C /\ x >= 0 THEN 1 ELSE 0)
  <1> DEFINE A == {i \in At(Tail(q), C) : i <= x}
             B == {i \in At(q, C) : i <= x + 1}
             f == [i \in A |-> i + 1]
  <1>0. Tail(q) \in Seq(X) /\ Len(Tail(q)) = Len(q) - 1 /\ Len(q) >= 1
        /\ \A i \in 1..Len(q) - 1 : Tail(q)[i] = q[i + 1]
    OBVIOUS
  <1>1. IsFiniteSet(A) /\ IsFiniteSet(B)
    BY <1>0, AtFinite
  <1>2. \A i \in A : i \in Int /\ i + 1 \in B \ {1}
    BY <1>0 DEF At
  <1>3. \A j \in B \ {1} : j \in Int /\ j - 1 \in A
    BY <1>0 DEF At
  <1>4. Cardinality(B \ {1}) = Cardinality(A)
    <2>1. f \in [A -> B \ {1}]
      BY <1>2
    <2>2. \A i, j \in A : f[i] = f[j] => i = j
      BY <1>2
    <2>3. \A j \in B \ {1} : \E i \in A : f[i] = j
      BY <1>3
    <2> HIDE DEF f, A, B
    <2> QED BY <2>1, <2>2, <2>3, <1>1, SameSize
  <1>5. 1 \in B <=> q[1] \in C /\ x >= 0
    BY <1>0 DEF At
  <1>6. Cardinality(B) \in Nat /\ Cardinality(A) \in Nat
    BY <1>1, FS_CardinalityType
  <1>7. Cardinality(B \ {1}) = IF 1 \in B THEN Cardinality(B) - 1 ELSE Cardinality(B)
    BY <1>1, FS_RemoveElement
  <1> HIDE DEF A, B
  <1>8. Cardinality(B) = Cardinality(A) + (IF q[1] \in C /\ x >= 0 THEN 1 ELSE 0)
    BY <1>4, <1>5, <1>6, <1>7
  <1> QED BY <1>8 DEF A, B, Rank

\* The rank past the end is the whole count.
LEMMA RankAll ==
    ASSUME NEW X, NEW q \in Seq(X), NEW C, NEW x \in Int, x >= Len(q)
    PROVE  Rank(q, C, x) = Count(q, C)
  <1>1. {i \in At(q, C) : i <= x} = At(q, C)
    BY DEF At
  <1> QED BY <1>1 DEF Rank, Count

\* The count without the first cell.
LEMMA CountTail ==
    ASSUME NEW X, NEW q \in Seq(X), q # <<>>, NEW C
    PROVE  Count(q, C) = Count(Tail(q), C) + (IF q[1] \in C THEN 1 ELSE 0)
  <1>1. Tail(q) \in Seq(X) /\ Len(Tail(q)) = Len(q) - 1 /\ Len(q) \in Nat /\ Len(q) >= 1
    OBVIOUS
  <1> DEFINE x == Len(q) - 1
  <1>2. x \in Int /\ x + 1 >= Len(q) /\ x >= Len(Tail(q)) /\ x >= 0 /\ x + 1 \in Int
    BY <1>1
  <1> HIDE DEF x
  <1>3. Rank(q, C, x + 1) = Count(q, C) /\ Rank(Tail(q), C, x) = Count(Tail(q), C)
    BY <1>1, <1>2, RankAll
  <1> QED BY <1>2, <1>3, RankTail

\* The count with one cell more.
LEMMA CountAppend ==
    ASSUME NEW X, NEW q \in Seq(X), NEW c \in X, NEW C
    PROVE  Count(Append(q, c), C) = Count(q, C) + (IF c \in C THEN 1 ELSE 0)
  <1>1. /\ Append(q, c) \in Seq(X) /\ Len(Append(q, c)) = Len(q) + 1
        /\ \A i \in 1..Len(q) : Append(q, c)[i] = q[i]
        /\ Append(q, c)[Len(q) + 1] = c
    OBVIOUS
  <1>2. IsFiniteSet(At(q, C)) /\ Count(q, C) \in Nat
    BY AtFinite
  <1>20. Len(q) + 1 \notin At(q, C)
    BY DEF At
  <1>3. CASE c \in C
    <2>1. At(Append(q, c), C) = At(q, C) \cup {Len(q) + 1}
      BY <1>1, <1>3 DEF At
    <2> QED BY <1>2, <1>20, <1>3, <2>1, FS_AddElement DEF Count
  <1>4. CASE c \notin C
    <2>1. At(Append(q, c), C) = At(q, C)
      BY <1>1, <1>4 DEF At
    <2> QED BY <1>2, <1>4, <2>1 DEF Count
  <1> QED BY <1>3, <1>4

\* Counts of two parts add up.
LEMMA CountConcat ==
    ASSUME NEW X, NEW p \in Seq(X), NEW q \in Seq(X), NEW C
    PROVE  Count(p \o q, C) = Count(p, C) + Count(q, C)
  <1> DEFINE A == At(p, C)
             B == At(q, C)
             D == {i \in At(p \o q, C) : i > Len(p)}
             f == [i \in B |-> i + Len(p)]
  <1>1. /\ p \o q \in Seq(X) /\ Len(p \o q) = Len(p) + Len(q)
        /\ \A i \in 1..Len(p) : (p \o q)[i] = p[i]
        /\ \A i \in 1..Len(q) : (p \o q)[i + Len(p)] = q[i]
        /\ Len(p) \in Nat /\ Len(q) \in Nat
    OBVIOUS
  <1>2. IsFiniteSet(A) /\ IsFiniteSet(B)
    BY AtFinite
  <1>3. \A i \in B : i \in Int /\ i + Len(p) \in D
    BY <1>1 DEF At
  <1>4. \A j \in D : j \in Int /\ j - Len(p) \in B /\ (j - Len(p)) + Len(p) = j
    <2> SUFFICES ASSUME NEW j \in D PROVE j \in Int /\ j - Len(p) \in B /\ (j - Len(p)) + Len(p) = j
      OBVIOUS
    <2>1. j \in 1..Len(p \o q) /\ (p \o q)[j] \in C /\ j > Len(p)
      BY <1>1 DEF At
    <2>2. j - Len(p) \in 1..Len(q) /\ (j - Len(p)) + Len(p) = j
      BY <1>1, <2>1
    <2>3. q[j - Len(p)] \in C
      BY <1>1, <2>1, <2>2
    <2> QED BY <2>1, <2>2, <2>3 DEF At
  <1>5. IsFiniteSet(D) /\ Cardinality(D) = Cardinality(B)
    <2>1. f \in [B -> D]
      BY <1>3
    <2>2. \A i, j \in B : f[i] = f[j] => i = j
      BY <1>1, <1>3
    <2>3. \A j \in D : \E i \in B : f[i] = j
      BY <1>4
    <2> HIDE DEF f, B, D
    <2> QED BY <2>1, <2>2, <2>3, <1>2, SameSize
  <1>6. At(p \o q, C) = A \cup D /\ A \cap D = {}
    BY <1>1 DEF At
  <1>7. Cardinality(A) \in Nat /\ Cardinality(B) \in Nat
    BY <1>2, FS_CardinalityType
  <1> HIDE DEF A, B, D
  <1>8. Cardinality(A \cup D) = Cardinality(A) + Cardinality(D) - Cardinality(A \cap D)
    BY <1>2, <1>5, FS_Union
  <1>9. Cardinality(A \cap D) = 0
    BY <1>6, FS_EmptySet
  <1>10. Cardinality(A \cup D) = Cardinality(A) + Cardinality(B)
    BY <1>5, <1>7, <1>8, <1>9
  <1> QED BY <1>6, <1>10 DEF A, B, Count

\* The count of k equal cells.
LEMMA CountRepeat ==
    ASSUME NEW X, NEW k \in Nat, NEW c \in X, NEW C
    PROVE  /\ Repeat(k, c) \in Seq(X)
           /\ Count(Repeat(k, c), C) = IF c \in C THEN k ELSE 0
  <1>1. Repeat(k, c) \in Seq(X) /\ Len(Repeat(k, c)) = k
    BY DEF Repeat
  <1>2. CASE c \in C
    <2>1. At(Repeat(k, c), C) = 1..k
      BY <1>2 DEF At, Repeat
    <2>2. Cardinality(1..k) = k
      BY FS_Interval
    <2> QED BY <1>1, <1>2, <2>1, <2>2 DEF Count
  <1>3. CASE c \notin C
    <2>1. At(Repeat(k, c), C) = {}
      BY <1>3 DEF At, Repeat
    <2> QED BY <1>1, <1>3, <2>1, FS_EmptySet DEF Count
  <1> QED BY <1>2, <1>3

\* A cell's rank among those like it.
LEMMA RankRange ==
    ASSUME NEW X, NEW q \in Seq(X), NEW C, NEW x \in At(q, C)
    PROVE  Rank(q, C, x) \in 1..Count(q, C)
  <1> DEFINE U == {i \in At(q, C) : i <= x}
  <1>1. IsFiniteSet(At(q, C)) /\ IsFiniteSet(U)
    BY AtFinite
  <1>2. U \in SUBSET At(q, C) /\ x \in U
    BY DEF At
  <1> HIDE DEF U
  <1>3. Cardinality(U) <= Cardinality(At(q, C))
    BY <1>1, <1>2, FS_Subset
  <1>4. Cardinality(U) # 0
    BY <1>1, <1>2, FS_EmptySet
  <1>5. Cardinality(U) \in Nat /\ Cardinality(At(q, C)) \in Nat
    BY <1>1, FS_CardinalityType
  <1>6. Cardinality(U) \in 1..Cardinality(At(q, C))
    BY <1>3, <1>4, <1>5
  <1> QED BY <1>6 DEF Rank, Count, U

\* A cell that is added at the end changes no rank.
LEMMA RankAppend ==
    ASSUME NEW X, NEW p \in Seq(X), NEW c \in X, NEW C, NEW x \in 1..Len(p)
    PROVE  Rank(Append(p, c), C, x) = Rank(p, C, x)
  <1>1. {i \in At(Append(p, c), C) : i <= x} = {i \in At(p, C) : i <= x}
    BY DEF At
  <1> QED BY <1>1 DEF Rank

\* Only the first cell has rank 1 if it is one of C.
LEMMA RankFirst ==
    ASSUME NEW X, NEW q \in Seq(X), NEW C, 1 \in At(q, C), NEW x \in At(q, C)
    PROVE  Rank(q, C, x) = 1 <=> x = 1
  <1>1. q # <<>> /\ q[1] \in C /\ Tail(q) \in Seq(X) /\ Len(Tail(q)) = Len(q) - 1
    BY DEF At
  <1>2. x \in 1..Len(q) /\ q[x] \in C
    BY DEF At
  <1>3. CASE x = 1
    <2>1. {i \in At(q, C) : i <= 1} = {1}
      BY <1>1 DEF At
    <2> QED BY <1>3, <2>1, FS_Singleton DEF Rank
  <1>4. CASE x # 1
    <2> DEFINE y == x - 1
    <2>1. y \in Int /\ y >= 0 /\ y + 1 = x /\ y \in At(Tail(q), C)
      BY <1>1, <1>2, <1>4 DEF At
    <2> HIDE DEF y
    <2>2. Rank(q, C, x) = Rank(Tail(q), C, y) + 1
      BY <1>1, <2>1, RankTail
    <2>3. Rank(Tail(q), C, y) \in 1..Count(Tail(q), C) /\ Count(Tail(q), C) \in Nat
      BY <1>1, <2>1, RankRange, AtFinite
    <2> QED BY <1>4, <2>2, <2>3
  <1> QED BY <1>3, <1>4

\* The cells on their way, when one leaves the queue or reaches the receiver.
LEMMA FlowFlush ==
    ASSUME NEW X, NEW p \in Seq(X), NEW q \in Seq(X), q # <<>>
    PROVE  Append(p, Head(q)) \o Tail(q) = p \o q
  OBVIOUS

\* The receiver takes the first cell.
LEMMA FlowTail ==
    ASSUME NEW X, NEW p \in Seq(X), NEW q \in Seq(X), p # <<>>
    PROVE  /\ Tail(p) \o q = Tail(p \o q) /\ p \o q # <<>>
           /\ (p \o q)[1] = Head(p)
  OBVIOUS

\* The sender adds one behind the others.
LEMMA FlowAppend ==
    ASSUME NEW X, NEW p \in Seq(X), NEW q \in Seq(X), NEW c \in X
    PROVE  p \o Append(q, c) = Append(p \o q, c)
  OBVIOUS

-----------------------------------------------------------------------------
(* XON and XOFF on their way. *)

\* The sender takes the first word; both still agree.
LEMMA AgreedTail ==
    ASSUME NEW q \in Seq(Replies), q # <<>>, NEW s,
           NEW r, NEW t, Agreed(q, s, r, t)
    PROVE  Agreed(Tail(q), s, IF q[1] \in WordsTo(s) THEN q[1].type = "XOFF" ELSE r, t)
  <1> DEFINE W == WordsTo(s)
             A == At(q, W)
             B == At(Tail(q), W)
  <1>0. Tail(q) \in Seq(Replies) /\ Len(Tail(q)) = Len(q) - 1 /\ Len(q) \in Nat /\ Len(q) >= 1
        /\ \A i \in 1..Len(q) - 1 : Tail(q)[i] = q[i + 1]
    OBVIOUS
  <1>1. \A i \in B : i \in Int /\ i + 1 \in A /\ q[i + 1] = Tail(q)[i]
    BY <1>0 DEF At
  <1>2. \A j \in A : j \in Int /\ (j # 1 => j - 1 \in B /\ Tail(q)[j - 1] = q[j])
    BY <1>0 DEF At
  <1>3. 1 \in A <=> q[1] \in W
    BY <1>0 DEF At
  <1>4. CASE A = {}
    <2>1. B = {} /\ q[1] \notin W
      BY <1>1, <1>3, <1>4
    <2> QED BY <1>4, <2>1 DEF Agreed
  <1>5. CASE A # {}
    <2>1. PICK x \in A : (\A y \in A : y <= x) /\ t = (q[x].type = "XOFF")
      BY <1>5, Zenon DEF Agreed
    <2>2. CASE x = 1
      <3>1. B = {}
        <4> SUFFICES ASSUME NEW y \in B PROVE FALSE
          OBVIOUS
        <4>1. y \in Int /\ y >= 1 /\ y + 1 \in A
          BY <1>0, <1>1 DEF At
        <4> QED BY <2>1, <2>2, <4>1
      <3>2. q[1] \in W
        BY <1>3, <2>1, <2>2
      <3> QED BY <2>1, <2>2, <3>1, <3>2, Zenon DEF Agreed
    <2>3. CASE x # 1
      <3>1. x - 1 \in B /\ Tail(q)[x - 1] = q[x]
        BY <1>2, <2>1, <2>3
      <3>2. \A y \in B : y <= x - 1
        BY <1>1, <1>2, <2>1
      <3> QED BY <2>1, <3>1, <3>2, Zenon DEF Agreed
    <2> QED BY <2>2, <2>3
  <1> QED BY <1>4, <1>5

\* Replies that are no word for s change nothing.
LEMMA AgreedConcat ==
    ASSUME NEW q \in Seq(Replies), NEW p \in Seq(Replies), NEW s,
           NEW r, NEW t, Agreed(q, s, r, t),
           \A i \in DOMAIN p : p[i] \notin WordsTo(s)
    PROVE  Agreed(q \o p, s, r, t)
  <1>1. At(q \o p, WordsTo(s)) = At(q, WordsTo(s))
    BY DEF At
  <1>2. \A x \in At(q, WordsTo(s)) : (q \o p)[x] = q[x]
    BY DEF At
  <1> QED BY <1>1, <1>2, Zenon DEF Agreed

\* A new word is the last one.
LEMMA AgreedWord ==
    ASSUME NEW q \in Seq(Replies), NEW c \in Replies, NEW s, c \in WordsTo(s), NEW r
    PROVE  Agreed(q \o <<c>>, s, r, c.type = "XOFF")
  <1> DEFINE x == Len(q) + 1
  <1>1. x \in At(q \o <<c>>, WordsTo(s)) /\ (q \o <<c>>)[x] = c
    BY DEF At
  <1>2. \A y \in At(q \o <<c>>, WordsTo(s)) : y <= x
    BY DEF At
  <1> HIDE DEF x
  <1> QED BY <1>1, <1>2, Zenon DEF Agreed

-----------------------------------------------------------------------------
(* Types. *)

\* A window that is raised by a whole number of increments stays below its start.
LEMMA Refill ==
    ASSUME NEW w \in Nat, NEW d \in 0..w, NEW k \in Nat \ {0}
    PROVE  /\ (w - d) \div k \in Nat
           /\ d + ((w - d) \div k) * k \in d..w
  <1>1. (w - d) \div k \in Nat /\ ((w - d) \div k) * k <= w - d
    OBVIOUS
  <1>2. ((w - d) \div k) * k \in Nat
    BY <1>1
  <1> QED BY <1>1, <1>2

\* What the assumptions say of the constants, one by one.
LEMMA Constants ==
    /\ CircStart \in Nat \ {0} /\ CircInc \in Nat \ {0} /\ CircWindow \in Nat \ {0}
    /\ StreamStart \in Nat \ {0} /\ StreamInc \in Nat \ {0} /\ SendmeInc \in Nat \ {0}
    /\ CellqHigh \in Nat /\ CellqLow \in Nat /\ CircInc <= CircWindow
    /\ CircWindow <= CircStart /\ Cwnds \subseteq Nat
    /\ NoStream \notin Streams /\ Data \in [Streams -> Nat] /\ MaxControl \in Nat
  BY StreamAssumption, WindowAssumption, BoundAssumption

\* The cells the sender has sent, and what an agenda holds.
SentCells == [n : 1..sent, s : Streams \cup {NoStream}]
Entries == [op : Ops, s : Streams \cup {NoStream}, n : Int]

StreamsTyped ==
  /\ src \in [Streams -> Nat] /\ inbuf \in [Streams -> Nat]
  /\ reading \in [Streams -> BOOLEAN] /\ xoff_received \in [Streams -> BOOLEAN]
  /\ stream_window \in [Streams -> 0..StreamStart]
WindowsTyped ==
  /\ package_window \in 0..CircStart /\ inflight \in Int /\ cwnd \in Cwnds
QueueTyped ==
  /\ sent \in Nat /\ controls \in 0..MaxControl /\ blocked \in BOOLEAN
  /\ queue \in Seq(SentCells) /\ net \in Seq(SentCells) /\ digests \in Seq(1..sent)
  /\ sendme_digest \in 0..sent
ReceiverTyped ==
  /\ deliver_window \in 0..CircStart /\ outbuf \in [Streams -> Nat]
  /\ stream_deliver \in [Streams -> 0..StreamStart]
  /\ xoff_sent \in [Streams -> BOOLEAN] /\ rate_sent \in [Streams -> BOOLEAN]
  /\ back \in Seq(Replies)
EdgesTyped == cc \in BOOLEAN /\ closed \in BOOLEAN
TInv == /\ StreamsTyped /\ WindowsTyped /\ QueueTyped /\ ReceiverTyped /\ EdgesTyped
        /\ agenda \in Seq(Entries)

\* A new circuit is well typed.
LEMMA InitTInv == Init => TInv
  <1> SUFFICES ASSUME Init PROVE TInv
    OBVIOUS
  <1>1. <<>> \in Seq(SentCells) /\ <<>> \in Seq(1..sent) /\ <<>> \in Seq(Replies)
        /\ <<>> \in Seq(Entries)
    OBVIOUS
  <1>2. StreamsTyped /\ ReceiverTyped
    BY <1>1, Constants DEF Init, StreamsTyped, ReceiverTyped
  <1>3. WindowsTyped
    BY Constants DEF Init, WindowsTyped
  <1>4. sent \in Nat /\ controls \in 0..MaxControl /\ sendme_digest \in 0..sent
    BY Constants DEF Init
  <1>5. QueueTyped
    BY <1>1, <1>4 DEF Init, QueueTyped
  <1> QED BY <1>1, <1>2, <1>3, <1>5 DEF Init, TInv, EdgesTyped

\* Sequences over a larger set.
LEMMA SeqMonotone ==
    ASSUME NEW A, NEW B, A \subseteq B, NEW q \in Seq(A)
    PROVE  q \in Seq(B)
  OBVIOUS

\* The type of a longer sequence.
LEMMA SeqAppend ==
    ASSUME NEW A, NEW q \in Seq(A), NEW c \in A
    PROVE  Append(q, c) \in Seq(A)
  OBVIOUS

\* A cell that is queued keeps the types.
LEMMA EnqueueTyped ==
    ASSUME QueueTyped, NEW t \in Streams \cup {NoStream}, Enqueue(t),
           controls' \in 0..MaxControl, net' = net, sendme_digest' = sendme_digest,
           digests' \in {digests, Append(digests, sent + 1)}
    PROVE  QueueTyped'
  <1>1. sent' \in Nat /\ sent' = sent + 1 /\ blocked' \in BOOLEAN
    BY DEF QueueTyped, Enqueue
  <1>2. /\ queue \in Seq(SentCells') /\ net' \in Seq(SentCells')
        /\ digests \in Seq(1..sent')
    <2>1. SentCells \subseteq SentCells' /\ 1..sent \subseteq 1..sent'
      BY <1>1 DEF QueueTyped, SentCells
    <2> QED BY <2>1, SeqMonotone DEF QueueTyped
  <1>3. [n |-> sent + 1, s |-> t] \in SentCells' /\ sent + 1 \in 1..sent'
    BY <1>1 DEF SentCells, QueueTyped
  <1>4. queue' \in Seq(SentCells')
    BY <1>2, <1>3, SeqAppend DEF Enqueue
  <1>5. digests' \in Seq(1..sent')
    BY <1>2, <1>3, SeqAppend
  <1>6. sendme_digest' \in 0..sent'
    BY <1>1 DEF QueueTyped
  <1> QED BY <1>1, <1>2, <1>4, <1>5, <1>6 DEF QueueTyped

\* What the sender packages from a stream with data and both windows open.
Packages(s) ==
  /\ PackageWindow > 0 /\ stream_window[s] > 0 /\ inbuf[s] > 0
  /\ PackageCell(s)
  /\ UNCHANGED <<cc, net, receiverVars, back, closed>>

\* So does a cell that is packaged.
LEMMA PackagesTyped ==
    ASSUME TInv, NEW s \in Streams, Packages(s)
    PROVE  StreamsTyped' /\ WindowsTyped' /\ QueueTyped' /\ ReceiverTyped' /\ EdgesTyped'
  <1> USE DEF Packages, PackageCell, TInv
  <1>1. QueueTyped'
    <2>1. digests' \in {digests, Append(digests, sent + 1)}
      OBVIOUS
    <2> QED BY <2>1, EnqueueTyped DEF QueueTyped, receiverVars
  <1>2. WindowsTyped'
    <2>1. /\ inflight' \in {inflight, inflight + 1} /\ cwnd' = cwnd
          /\ package_window' = package_window
               \/ (package_window' = package_window - 1 /\ package_window > 0)
      BY DEF PackageWindow, EdgesTyped
    <2> QED BY <2>1, Constants DEF WindowsTyped
  <1>3. reading' \in [Streams -> BOOLEAN]
    BY Zenon DEF StreamsTyped
  <1>4. inbuf' \in [Streams -> Nat] /\ stream_window' \in [Streams -> 0..StreamStart]
    BY Constants DEF StreamsTyped
  <1>5. StreamsTyped'
    BY <1>3, <1>4 DEF StreamsTyped
  <1>6. ReceiverTyped' /\ EdgesTyped'
    BY DEF ReceiverTyped, EdgesTyped, receiverVars
  <1> QED BY <1>1, <1>2, <1>5, <1>6

\* The type of two sequences in one.
LEMMA SeqConcat ==
    ASSUME NEW A, NEW p \in Seq(A), NEW q \in Seq(A)
    PROVE  p \o q \in Seq(A)
  OBVIOUS

\* Nothing before a sequence, and three sequences one after the other.
LEMMA SeqJoins ==
    ASSUME NEW A, NEW p \in Seq(A), NEW q \in Seq(A), NEW r \in Seq(A)
    PROVE  <<>> \o r = r /\ p \o q \o r = p \o (q \o r)
  OBVIOUS

\* The type of the first element and of the others.
LEMMA SeqTail ==
    ASSUME NEW A, NEW q \in Seq(A), q # <<>>
    PROVE  Tail(q) \in Seq(A) /\ Head(q) \in A /\ Head(q) = q[1] /\ 1 \in DOMAIN q
  OBVIOUS

\* One entry for each stream of the circuit's list.
LEMMA ListTyped ==
    ASSUME NEW f \in [DOMAIN StreamList -> Entries]
    PROVE  f \in Seq(Entries)
  <1>1. DOMAIN StreamList = 1..Len(StreamList) /\ Len(StreamList) \in Nat
    BY StreamAssumption
  <1> QED BY <1>1

\* An entry of the agenda is one.
LEMMA StepTyped ==
    ASSUME NEW op \in Ops, NEW t \in Streams \cup {NoStream}
    PROVE  Step(op, t) \in Entries /\ <<Step(op, t)>> \in Seq(Entries)
  <1>1. Step(op, t) \in Entries
    BY DEF Step, Entries
  <1> QED BY <1>1

\* The list holds streams.
LEMMA ListedStreams ==
    \A i \in DOMAIN StreamList : StreamList[i] \in Streams
  BY StreamAssumption

\* The sender's variables that a handler's other steps leave alone.
core == <<cc, src, inbuf, xoff_received, stream_window, windowVars, queueVars,
          net, receiverVars, back, closed>>

\* A step of the sender's handler packages a cell or stops and starts streams.
LEMMA HandlerSteps ==
    ASSUME TInv, Handler
    PROVE  /\ agenda' \in Seq(Entries)
           /\ \/ \E s \in Streams : Packages(s)
              \/ /\ UNCHANGED core /\ reading' \in [Streams -> BOOLEAN]
                 /\ \A s \in Streams : reading'[s] => reading[s] \/ ~xoff_received[s]
  <1> USE DEF TInv
  <1>1. agenda # <<>> => Tail(agenda) \in Seq(Entries) /\ Head(agenda) \in Entries
    BY SeqTail
  <1>2. <<>> \in Seq(Entries)
    OBVIOUS
  <1>3. PackageWindow \in Int /\ sent \in Int /\ Len(queue) \in Int
    BY Constants DEF WindowsTyped, QueueTyped, PackageWindow
  <1>4. CASE Round
    <2> DEFINE room == CellqHigh - Len(queue)
               max == IF room < PackageWindow THEN room ELSE PackageWindow
               f == [i \in DOMAIN StreamList |->
                       [op |-> "visit", s |-> StreamList[i], n |-> max]]
    <2>1. max \in Int
      BY <1>3, Constants
    <2> HIDE DEF max
    <2>2. f \in [DOMAIN StreamList -> Entries]
      BY <2>1, ListedStreams DEF Entries, Ops
    <2>3. f \in Seq(Entries)
      BY <2>2, ListTyped
    <2>4. agenda' = f
      BY <1>4 DEF Round, max
    <2> QED BY <1>4, <2>3, <2>4 DEF Round, core, streamVars, StreamsTyped
  <1>5. ASSUME NEW s \in Streams, CountStream(s)
        PROVE  /\ agenda' \in Seq(Entries)
               /\ UNCHANGED core /\ reading' = reading
    <2>1. Step("round", NoStream) \in Entries
      BY StepTyped DEF Ops
    <2>2. agenda' = Tail(agenda) \/ agenda' = Append(Tail(agenda), Step("round", NoStream))
      BY <1>5 DEF CountStream
    <2>3. agenda' \in Seq(Entries)
      BY <1>1, <1>5, <2>1, <2>2 DEF CountStream
    <2> QED BY <1>5, <2>3 DEF CountStream, core, streamVars
  <1>6. ASSUME NEW s \in Streams, Pack(s)
        PROVE  /\ agenda' \in Seq(Entries)
               /\ \/ Packages(s)
                  \/ /\ UNCHANGED core /\ reading' \in [Streams -> BOOLEAN]
                     /\ \A t \in Streams : reading'[t] => reading[t] \/ ~xoff_received[t]
    <2>1. agenda' \in Seq(Entries)
      BY <1>1, <1>6 DEF Pack
    <2>2. \/ Packages(s)
          \/ UNCHANGED core /\ (StopAll \/ reading' = [reading EXCEPT ![s] = FALSE]
                                  \/ reading' = reading)
      BY <1>6 DEF Pack, Packages, core, streamVars
    <2> QED BY <2>1, <2>2 DEF StopAll, StreamsTyped
  <1>7. ASSUME NEW s \in Streams, StartReading(s)
        PROVE  /\ agenda' \in Seq(Entries)
               /\ UNCHANGED core /\ reading' \in [Streams -> BOOLEAN]
               /\ \A t \in Streams : reading'[t] => reading[t] \/ ~xoff_received[t]
    <2>1. ThenPack(s) \in Seq(Entries)
      BY <1>2, StepTyped DEF ThenPack, Ops
    <2>2. ThenCount(Head(agenda)) \in Seq(Entries)
      BY <1>2, <1>7, StepTyped DEF ThenCount, StartReading, Ops
    <2>3. agenda' \in Seq(Entries)
      <3> DEFINE p == IF Skipped(Head(agenda)) THEN <<>> ELSE ThenPack(s)
                 c == ThenCount(Head(agenda))
      <3>1. agenda' = p \o c \o Tail(agenda) /\ Tail(agenda) \in Seq(Entries)
        BY <1>1, <1>7 DEF StartReading
      <3>2. p \in Seq(Entries) /\ c \in Seq(Entries)
        BY <1>2, <2>1, <2>2
      <3> HIDE DEF p, c
      <3> QED BY <3>1, <3>2, SeqConcat
    <2>4. UNCHANGED core
      BY <1>7 DEF StartReading, core
    <2>5. /\ reading' = [reading EXCEPT ![s] = @ \/ ~Skipped(Head(agenda))]
          /\ ~Skipped(Head(agenda)) => ~xoff_received[s]
      BY <1>7 DEF StartReading, Skipped
    <2>6. reading' = reading \/ (reading' = [reading EXCEPT ![s] = TRUE] /\ ~xoff_received[s])
      BY <2>5 DEF StreamsTyped
    <2> QED BY <2>3, <2>4, <2>6 DEF StreamsTyped
  <1>8. ASSUME NEW s \in Streams, Visit(s)
        PROVE  /\ agenda' \in Seq(Entries)
               /\ \/ Packages(s)
                  \/ /\ UNCHANGED core /\ reading' \in [Streams -> BOOLEAN]
                     /\ \A t \in Streams : reading'[t] => reading[t] \/ ~xoff_received[t]
    <2>1. agenda' \in Seq(Entries)
      BY <1>1, <1>2, <1>8 DEF Visit
    <2>2. Packages(s) \/ (UNCHANGED core /\ (StopAll \/ reading' = reading))
      BY <1>8 DEF Visit, MayPackage, Packages, core, streamVars
    <2> QED BY <2>1, <2>2 DEF StopAll, StreamsTyped
  <1>9. ASSUME NEW s \in Streams, CountStream(s)
        PROVE  /\ agenda' \in Seq(Entries)
               /\ UNCHANGED core /\ reading' \in [Streams -> BOOLEAN]
               /\ \A t \in Streams : reading'[t] => reading[t] \/ ~xoff_received[t]
    BY <1>5, <1>9 DEF StreamsTyped
  <1> QED BY <1>4, <1>6, <1>7, <1>8, <1>9 DEF Handler

\* The cells a receiver may add to its answers: a word of XON or XOFF, or none.
Xon(s) == [type |-> "XON", s |-> s, n |-> 0]
Xoff(s) == [type |-> "XOFF", s |-> s, n |-> 0]
CircSendme(d) == [type |-> "SENDME", s |-> NoStream, n |-> d]
StreamSendmeCell(s) == [type |-> "SENDME", s |-> s, n |-> 0]

\* What the receiver sends are replies.
LEMMA RepliesTyped ==
    ASSUME NEW s \in Streams, NEW d \in Nat
    PROVE  /\ Xon(s) \in Replies /\ Xoff(s) \in Replies
           /\ CircSendme(d) \in Replies /\ StreamSendmeCell(s) \in Replies
           /\ <<Xon(s)>> \in Seq(Replies) /\ <<Xoff(s)>> \in Seq(Replies)
           /\ <<>> \in Seq(Replies)
  <1>1. /\ Xon(s) \in Replies /\ Xoff(s) \in Replies
        /\ CircSendme(d) \in Replies /\ StreamSendmeCell(s) \in Replies
    BY DEF Xon, Xoff, CircSendme, StreamSendmeCell, Replies
  <1> QED BY <1>1

\* The increment is positive.
LEMMA IncType == TInv => Inc \in Nat \ {0}
  BY Constants DEF Inc

\* What the receiver does with a DATA cell of s that its windows allow.
Answers(s, k, sk, xoff, xon) ==
  /\ deliver_window > 0 /\ (cc \/ stream_deliver[s] > 0)
  /\ k = (CircStart - (deliver_window - 1)) \div Inc
  /\ sk \in Nat /\ (cc => sk = 0)
  /\ sendme_digest' = (IF SendmeCellIsNext THEN Head(net).n ELSE sendme_digest)
  /\ deliver_window' = (deliver_window - 1) + k * Inc
  /\ xoff \in {<<>>, <<Xoff(s)>>} /\ (xoff # <<>> => ~xoff_sent[s])
  /\ xon \in {<<>>, <<Xon(s)>>} /\ (xon # <<>> => xoff = <<>> /\ ~xoff_sent[s])
  /\ back' = back \o Repeat(k, CircSendme(sendme_digest')) \o xoff \o xon
               \o Repeat(sk, StreamSendmeCell(s))
  /\ outbuf' = [outbuf EXCEPT ![s] = @ + 1]
  /\ stream_deliver' = (IF cc THEN stream_deliver
                        ELSE [stream_deliver EXCEPT ![s] = @ - 1 + sk * StreamInc])
  /\ cc \/ stream_deliver[s] - 1 + sk * StreamInc \in 0..StreamStart
  /\ xoff_sent' = [xoff_sent EXCEPT ![s] = @ \/ xoff # <<>>]
  /\ rate_sent' \in [Streams -> BOOLEAN]
  /\ closed' = closed

\* It closes the circuit if they do not.
Refuses(s) ==
  /\ deliver_window = 0 \/ (~cc /\ stream_deliver[s] = 0)
  /\ closed' = TRUE /\ UNCHANGED <<receiverVars, back>>

\* Stream SENDMEs raise the deliver window to its start at most.
LEMMA StreamSendmesType ==
    ASSUME NEW d \in 0..StreamStart, NEW b
    PROVE  /\ StreamSendmes(d, b) \in Nat
           /\ d + StreamSendmes(d, b) * StreamInc \in 0..StreamStart
  <1>1. /\ (StreamStart - d) \div StreamInc \in Nat
        /\ d + ((StreamStart - d) \div StreamInc) * StreamInc \in d..StreamStart
    BY Constants, Refill
  <1>2. CASE b > OutbufLimit
    BY <1>2, Constants DEF StreamSendmes
  <1>3. CASE ~(b > OutbufLimit)
    BY <1>1, <1>3, Constants DEF StreamSendmes
  <1> QED BY <1>2, <1>3

\* A DATA cell is answered or refused.
LEMMA ReceiveDataSteps ==
    ASSUME TInv, ReceiveData
    PROVE  /\ net # <<>> /\ Head(net).s \in Streams /\ net' = Tail(net) /\ ~closed
           /\ UNCHANGED <<cc, streamVars, windowVars, queueVars, agenda>>
           /\ \/ Refuses(Head(net).s)
              \/ \E k \in Nat, sk \in Nat, xoff, xon \in Seq(Replies) :
                   Answers(Head(net).s, k, sk, xoff, xon)
  <1> USE DEF TInv
  <1> DEFINE s == Head(net).s
             digest == IF SendmeCellIsNext THEN Head(net).n ELSE sendme_digest
             d == deliver_window - 1
             k == CircuitSendmes(d)
             sd == stream_deliver[s] - 1
             sk == IF cc THEN 0 ELSE StreamSendmes(sd, outbuf[s] + 1)
             circ == Repeat(k, [type |-> "SENDME", s |-> NoStream, n |-> digest])
             xoff == IF cc /\ WantsXoff(s) THEN <<[type |-> "XOFF", s |-> s, n |-> 0]>>
                     ELSE <<>>
             xons == IF outbuf[s] > Burst /\ xoff = <<>> THEN RateXon(s) ELSE {<<>>}
  <1>1. net # <<>> /\ Head(net).s # NoStream /\ net' = Tail(net) /\ ~closed
        /\ UNCHANGED <<cc, streamVars, windowVars, queueVars, agenda>>
    BY DEF ReceiveData, Idle
  <1>2. Head(net) \in SentCells
    BY <1>1, SeqTail DEF QueueTyped
  <1>3. s \in Streams
    BY <1>1, <1>2 DEF SentCells
  <1>4. CASE d < 0 \/ (~cc /\ sd < 0)
    <2>1. closed' = TRUE /\ UNCHANGED <<receiverVars, back>>
      BY <1>4 DEF ReceiveData
    <2>2. deliver_window \in Nat /\ stream_deliver[s] \in Nat
      BY <1>3, Constants DEF ReceiverTyped
    <2>3. deliver_window = 0 \/ (~cc /\ stream_deliver[s] = 0)
      BY <1>4, <2>2
    <2>4. Refuses(s)
      BY <2>1, <2>3 DEF Refuses
    <2> QED BY <1>1, <1>3, <2>4
  <1>5. CASE ~(d < 0 \/ (~cc /\ sd < 0))
    <2>1. /\ sendme_digest' = digest
          /\ deliver_window' = d + k * Inc
          /\ \E xon \in xons :
               /\ back' = back \o circ \o xoff \o xon \o StreamSendmeCells(s, sk)
               /\ RateAfter(s, xon)
          /\ outbuf' = [outbuf EXCEPT ![s] = @ + 1]
          /\ stream_deliver' = IF cc THEN stream_deliver
               ELSE [stream_deliver EXCEPT ![s] = sd + sk * StreamInc]
          /\ xoff_sent' = [xoff_sent EXCEPT ![s] = @ \/ xoff # <<>>]
          /\ closed' = closed
      BY <1>5 DEF ReceiveData
    <2>2. deliver_window \in 0..CircStart /\ stream_deliver[s] \in 0..StreamStart
      BY <1>3 DEF ReceiverTyped
    <2>3. /\ deliver_window > 0 /\ (cc \/ stream_deliver[s] > 0)
          /\ d \in 0..CircStart /\ (cc \/ sd \in 0..StreamStart)
      BY <1>5, <2>2, Constants
    <2>4. k \in Nat /\ k = (CircStart - (deliver_window - 1)) \div Inc
      BY <2>3, Constants, Refill, IncType DEF CircuitSendmes
    <2>5. sk \in Nat /\ (cc => sk = 0) /\ (cc \/ sd + sk * StreamInc \in 0..StreamStart)
      BY <2>3, StreamSendmesType
    <2>6. xoff \in {<<>>, <<Xoff(s)>>} /\ (xoff # <<>> => ~xoff_sent[s]) /\ xoff \in Seq(Replies)
      BY <1>3, RepliesTyped DEF WantsXoff, Xoff
    <2>7. PICK xon \in xons :
               /\ back' = back \o circ \o xoff \o xon \o StreamSendmeCells(s, sk)
               /\ RateAfter(s, xon)
      BY <2>1
    <2>8. /\ xon \in {<<>>, <<Xon(s)>>} /\ (xon # <<>> => xoff = <<>> /\ ~xoff_sent[s])
          /\ xon \in Seq(Replies)
      BY <1>3, RepliesTyped DEF RateXon, Xon
    <2>9. rate_sent' \in [Streams -> BOOLEAN]
      BY <1>3, <2>7 DEF RateAfter, ReceiverTyped
    <2>10. circ = Repeat(k, CircSendme(sendme_digest'))
           /\ StreamSendmeCells(s, sk) = Repeat(sk, StreamSendmeCell(s))
      BY <2>1 DEF StreamSendmeCells, CircSendme, StreamSendmeCell
    <2>11. back' = back \o Repeat(k, CircSendme(sendme_digest')) \o xoff \o xon
                     \o Repeat(sk, StreamSendmeCell(s))
      BY <2>7, <2>10
    <2> HIDE DEF k, sk, xoff, xons, circ
    <2>12. Answers(s, k, sk, xoff, xon)
      BY <2>1, <2>3, <2>4, <2>5, <2>6, <2>8, <2>9, <2>11 DEF Answers
    <2> QED BY <1>1, <1>3, <2>4, <2>5, <2>6, <2>8, <2>12
  <1> QED BY <1>4, <1>5

\* What the receiver does when the application takes k cells of s.
Drains(s, k, sk, xon) ==
  /\ k \in 1..outbuf[s]
  /\ sk \in Nat /\ (cc => sk = 0)
  /\ outbuf' = [outbuf EXCEPT ![s] = @ - k]
  /\ stream_deliver' = [stream_deliver EXCEPT ![s] = @ + sk * StreamInc]
  /\ stream_deliver[s] + sk * StreamInc \in 0..StreamStart
  /\ xon \in {<<>>, <<Xon(s)>>}
  /\ back' = back \o xon \o Repeat(sk, StreamSendmeCell(s))
  /\ xoff_sent' = [xoff_sent EXCEPT ![s] = @ /\ xon = <<>>]
  /\ rate_sent' \in [Streams -> BOOLEAN]

\* A drained outbuf is answered.
LEMMA DrainSteps ==
    ASSUME TInv, NEW s \in Streams, Drain(s)
    PROVE  /\ UNCHANGED <<cc, streamVars, windowVars, queueVars, agenda, net,
                          deliver_window, sendme_digest, closed>>
           /\ ~closed
           /\ \E k \in Nat, sk \in Nat, xon \in Seq(Replies) : Drains(s, k, sk, xon)
  <1> USE DEF TInv
  <1>1. UNCHANGED <<cc, streamVars, windowVars, queueVars, agenda, net,
                    deliver_window, sendme_digest, closed>> /\ ~closed
    BY DEF Drain, Idle
  <1>2. stream_deliver[s] \in 0..StreamStart /\ outbuf[s] \in Nat
    BY DEF ReceiverTyped
  <1>3. PICK k \in 1..outbuf[s] :
       LET left == outbuf[s] - k
           sk == IF cc THEN 0 ELSE StreamSendmes(stream_deliver[s], left)
       IN /\ outbuf' = [outbuf EXCEPT ![s] = left]
          /\ stream_deliver' = [stream_deliver EXCEPT ![s] = @ + sk * StreamInc]
          /\ \E xon \in IF cc /\ WantsXon(s, left)
                        THEN {<<[type |-> "XON", s |-> s, n |-> 0]>>} ELSE RateXon(s) :
               /\ back' = back \o xon \o StreamSendmeCells(s, sk)
               /\ xoff_sent' = [xoff_sent EXCEPT ![s] = @ /\ xon = <<>>]
               /\ RateAfter(s, xon)
    BY DEF Drain
  <1> DEFINE left == outbuf[s] - k
             sk == IF cc THEN 0 ELSE StreamSendmes(stream_deliver[s], left)
  <1>4. PICK xon \in IF cc /\ WantsXon(s, left)
                     THEN {<<[type |-> "XON", s |-> s, n |-> 0]>>} ELSE RateXon(s) :
               /\ back' = back \o xon \o StreamSendmeCells(s, sk)
               /\ xoff_sent' = [xoff_sent EXCEPT ![s] = @ /\ xon = <<>>]
               /\ RateAfter(s, xon)
    BY <1>3
  <1>5. /\ outbuf' = [outbuf EXCEPT ![s] = @ - k]
        /\ stream_deliver' = [stream_deliver EXCEPT ![s] = @ + sk * StreamInc]
    BY <1>3
  <1>6. /\ sk \in Nat /\ (cc => sk = 0)
        /\ stream_deliver[s] + sk * StreamInc \in 0..StreamStart
    BY <1>2, StreamSendmesType, Constants
  <1>7. xon \in {<<>>, <<Xon(s)>>} /\ xon \in Seq(Replies)
    BY <1>4, RepliesTyped DEF RateXon, Xon
  <1>8. rate_sent' \in [Streams -> BOOLEAN]
    BY <1>4 DEF RateAfter, ReceiverTyped
  <1>9. back' = back \o xon \o Repeat(sk, StreamSendmeCell(s))
    BY <1>4 DEF StreamSendmeCells, StreamSendmeCell
  <1> HIDE DEF sk
  <1>10. Drains(s, k, sk, xon)
    BY <1>4, <1>5, <1>6, <1>7, <1>8, <1>9 DEF Drains
  <1> QED BY <1>1, <1>2, <1>6, <1>7, <1>10

\* What a SENDME, an XON or an XOFF makes the sender do.
LEMMA ReplySteps ==
    ASSUME TInv, ReceiveReply
    PROVE  /\ back # <<>> /\ back' = Tail(back) /\ back[1] \in Replies /\ ~closed
           /\ \/ CircuitSendme(back[1])
              \/ StreamSendme(back[1])
              \/ StreamXonXoff(back[1])
  <1>1. back # <<>> /\ back' = Tail(back) /\ ~closed
    BY DEF ReceiveReply, Idle
  <1>2. Head(back) = back[1] /\ back[1] \in Replies
    BY <1>1, SeqTail DEF TInv, ReceiverTyped
  <1> QED BY <1>1, <1>2 DEF ReceiveReply

\* A reply keeps the types.
LEMMA ReplyTyped == ASSUME TInv, ReceiveReply PROVE TInv'
  <1> USE DEF TInv
  <1> DEFINE c == back[1]
  <1>1. /\ back # <<>> /\ back' = Tail(back) /\ c \in Replies
        /\ CircuitSendme(c) \/ StreamSendme(c) \/ StreamXonXoff(c)
    BY ReplySteps
  <1>2. back' \in Seq(Replies)
    BY <1>1, SeqTail DEF ReceiverTyped
  <1>3. c.s \in Streams \cup {NoStream} /\ c.n \in Nat
    BY <1>1 DEF Replies
  <1> HIDE DEF c
  <1>4. CASE CloseCircuit
    BY <1>2, <1>4 DEF CloseCircuit, StreamsTyped, WindowsTyped, QueueTyped, ReceiverTyped,
       EdgesTyped, streamVars, windowVars, queueVars, receiverVars, SentCells
  <1>5. CASE CircuitSendme(c) /\ ~CloseCircuit
    <2>1. /\ digests # <<>> /\ digests' = Tail(digests)
          /\ IF cc THEN AckedVegas ELSE AckedWindow /\ package_window + CircInc <= CircStart
          /\ \E i \in DOMAIN StreamList : agenda' = IF blocked THEN <<>> ELSE ResumeFrom(i)
          /\ UNCHANGED <<cc, streamVars, queueVars, net, receiverVars, closed>>
      BY <1>5, Constants DEF CircuitSendme, SendmeIsValid, WindowsTyped
    <2>2. WindowsTyped'
      BY <2>1, Constants DEF WindowsTyped, AckedVegas, AckedWindow
    <2>3. digests' \in Seq(1..sent)
      BY <2>1, SeqTail DEF QueueTyped
    <2>4. \A i \in DOMAIN StreamList : ResumeFrom(i) \in Seq(Entries)
      <3> SUFFICES ASSUME NEW i \in DOMAIN StreamList PROVE ResumeFrom(i) \in Seq(Entries)
        OBVIOUS
      <3> DEFINE at(j) == ((i + j - 2) % Len(StreamList)) + 1
                 f == [j \in DOMAIN StreamList |-> Step("resume", StreamList[at(j)])]
      <3>1. DOMAIN StreamList = 1..Len(StreamList) /\ Len(StreamList) \in Nat \ {0}
        BY StreamAssumption
      <3>2. \A j \in DOMAIN StreamList : at(j) \in DOMAIN StreamList
        <4> SUFFICES ASSUME NEW j \in DOMAIN StreamList PROVE at(j) \in DOMAIN StreamList
          OBVIOUS
        <4>1. i + j - 2 \in Int
          BY <3>1
        <4>2. (i + j - 2) % Len(StreamList) \in 0..Len(StreamList) - 1
          BY <3>1, <4>1, DivMod
        <4> QED BY <3>1, <4>2
      <3> HIDE DEF at
      <3>3. f \in [DOMAIN StreamList -> Entries]
        BY <3>2, ListedStreams, StepTyped DEF Ops
      <3>4. f \in Seq(Entries)
        BY <3>3, ListTyped
      <3> QED BY <3>4 DEF ResumeFrom, at
    <2>5. agenda' \in Seq(Entries)
      BY <2>1, <2>4
    <2> QED BY <1>2, <2>1, <2>2, <2>3, <2>5 DEF StreamsTyped, QueueTyped, ReceiverTyped,
       EdgesTyped, streamVars, queueVars, receiverVars, SentCells
  <1>6. CASE StreamSendme(c) /\ ~CloseCircuit
    <2>1. /\ c.s # NoStream /\ ~(stream_window[c.s] + StreamInc > StreamStart)
          /\ stream_window' = [stream_window EXCEPT ![c.s] = @ + StreamInc]
          /\ agenda' = IF blocked THEN <<>> ELSE <<Step("start", c.s), Step("pack", c.s)>>
          /\ UNCHANGED <<cc, src, inbuf, reading, xoff_received, windowVars,
                         queueVars, net, receiverVars, closed>>
      BY <1>6 DEF StreamSendme
    <2>2. c.s \in Streams
      BY <1>3, <2>1
    <2>3. stream_window' \in [Streams -> 0..StreamStart]
      BY <2>1, <2>2, Constants DEF StreamsTyped
    <2>4. agenda' \in Seq(Entries)
      <3>1. Step("start", c.s) \in Entries /\ Step("pack", c.s) \in Entries
        BY <2>2, StepTyped DEF Ops
      <3> QED BY <2>1, <3>1
    <2> QED BY <1>2, <2>1, <2>3, <2>4 DEF StreamsTyped, WindowsTyped, QueueTyped,
       ReceiverTyped, EdgesTyped, windowVars, queueVars, receiverVars, SentCells
  <1>7. CASE StreamXonXoff(c)
    <2>1. /\ xoff_received' = [xoff_received EXCEPT ![c.s] = (c.type = "XOFF")]
          /\ reading' = [reading EXCEPT ![c.s] = @ /\ c.type = "XON"]
          /\ agenda' \in {<<>>, <<Step("start", c.s)>>}
          /\ UNCHANGED <<cc, src, inbuf, stream_window, windowVars, queueVars, net,
                         receiverVars, closed>>
      BY <1>7 DEF StreamXonXoff
    <2>2. xoff_received' \in [Streams -> BOOLEAN]
      BY <2>1 DEF StreamsTyped
    <2>3. reading' \in [Streams -> BOOLEAN]
      BY <2>1 DEF StreamsTyped
    <2>4. <<>> \in Seq(Entries) /\ <<Step("start", c.s)>> \in Seq(Entries)
      BY <1>3, StepTyped DEF Ops
    <2> QED BY <1>2, <2>1, <2>2, <2>3, <2>4 DEF StreamsTyped, WindowsTyped, QueueTyped,
       ReceiverTyped, EdgesTyped, windowVars, queueVars, receiverVars, SentCells
  <1> QED BY <1>1, <1>4, <1>5, <1>6, <1>7

\* So does every step.
LEMMA NextTInv == TInv /\ [Next]_vars => TInv'
  <1> SUFFICES ASSUME TInv, [Next]_vars PROVE TInv'
    OBVIOUS
  <1> USE DEF TInv
  <1>1. CASE Handler
    <2>1. agenda' \in Seq(Entries)
      BY <1>1, HandlerSteps
    <2>2. CASE \E s \in Streams : Packages(s)
      BY <2>1, <2>2, PackagesTyped
    <2>3. CASE UNCHANGED core /\ reading' \in [Streams -> BOOLEAN]
      BY <2>1, <2>3 DEF core, StreamsTyped, WindowsTyped, QueueTyped, ReceiverTyped,
         EdgesTyped, windowVars, queueVars, receiverVars, SentCells
    <2> QED BY <1>1, <2>2, <2>3, HandlerSteps
  <1>2. CASE SendControl
    <2>1. /\ controls' \in 0..MaxControl /\ Enqueue(NoStream) /\ net' = net
          /\ sendme_digest' = sendme_digest /\ digests' = digests
      BY <1>2, Constants DEF SendControl, QueueTyped, receiverVars, windowVars
    <2>2. QueueTyped'
      BY <2>1, EnqueueTyped
    <2>3. reading' \in [Streams -> BOOLEAN]
      BY <1>2, Zenon DEF SendControl, StreamsTyped
    <2> QED BY <1>2, <2>2, <2>3 DEF SendControl, StreamsTyped, WindowsTyped, ReceiverTyped,
       EdgesTyped, windowVars, receiverVars
  <1>3. CASE FlushCell
    <2>1. queue' \in Seq(SentCells) /\ net' \in Seq(SentCells) /\ blocked' \in BOOLEAN
      BY <1>3, SeqTail, SeqAppend DEF FlushCell, QueueTyped
    <2>2. agenda' \in Seq(Entries)
      <3> DEFINE f == [i \in DOMAIN StreamList |-> Step("unblock", StreamList[i])]
      <3>1. f \in [DOMAIN StreamList -> Entries]
        BY ListedStreams, StepTyped DEF Ops
      <3>2. f \in Seq(Entries) /\ <<>> \in Seq(Entries)
        BY <3>1, ListTyped
      <3> QED BY <1>3, <3>2 DEF FlushCell
    <2> QED BY <1>3, <2>1, <2>2 DEF FlushCell, StreamsTyped, WindowsTyped, QueueTyped,
       ReceiverTyped, EdgesTyped, streamVars, windowVars, receiverVars, SentCells
  <1>4. CASE ReceiveReply
    BY <1>4, ReplyTyped
  <1>5. CASE ReceiveControl
    <2>1. Head(net) \in SentCells /\ net' \in Seq(SentCells)
      BY <1>5, SeqTail DEF ReceiveControl, QueueTyped
    <2>2. sendme_digest' \in 0..sent
      BY <1>5, <2>1 DEF ReceiveControl, QueueTyped, SentCells
    <2> QED BY <1>5, <2>1, <2>2 DEF ReceiveControl, StreamsTyped, WindowsTyped, QueueTyped,
       ReceiverTyped, EdgesTyped, streamVars, windowVars, queueVars, SentCells
  <1>6. CASE ReceiveData
    <2> DEFINE s == Head(net).s
    <2>1. /\ net # <<>> /\ s \in Streams /\ net' = Tail(net)
          /\ UNCHANGED <<cc, streamVars, windowVars, queueVars, agenda>>
      BY <1>6, ReceiveDataSteps
    <2>2. net' \in Seq(SentCells) /\ Head(net).n \in 1..sent
      <3>1. net' \in Seq(SentCells) /\ Head(net) \in SentCells
        BY <2>1, SeqTail DEF QueueTyped
      <3> QED BY <3>1 DEF SentCells
    <2>3. CASE Refuses(s)
      <3>1. UNCHANGED <<receiverVars, back>> /\ closed' \in BOOLEAN
        BY <2>3 DEF Refuses
      <3>2. StreamsTyped' /\ WindowsTyped' /\ EdgesTyped'
        BY <2>1, <3>1 DEF StreamsTyped, WindowsTyped, EdgesTyped, streamVars, windowVars
      <3>3. ReceiverTyped'
        BY <3>1 DEF ReceiverTyped, receiverVars
      <3>4. QueueTyped'
        BY <2>1, <2>2, <3>1 DEF QueueTyped, queueVars, windowVars, receiverVars, SentCells
      <3> QED BY <2>1, <3>2, <3>3, <3>4
    <2>4. ASSUME NEW k \in Nat, NEW sk \in Nat, NEW xoff \in Seq(Replies),
                 NEW xon \in Seq(Replies), Answers(s, k, sk, xoff, xon)
          PROVE  TInv'
      <3>1. sendme_digest' \in 0..sent
        BY <2>2, <2>4 DEF Answers, QueueTyped
      <3>2. deliver_window' \in 0..CircStart
        <4>1. deliver_window - 1 \in 0..CircStart
          BY <2>4, Constants DEF Answers, ReceiverTyped
        <4>2. /\ k = (CircStart - (deliver_window - 1)) \div Inc
              /\ deliver_window' = (deliver_window - 1) + k * Inc
          BY <2>4 DEF Answers
        <4> DEFINE d == deliver_window - 1
                   r == d + ((CircStart - d) \div Inc) * Inc
        <4> HIDE DEF d
        <4>3. d \in 0..CircStart /\ CircStart \in Nat /\ Inc \in Nat \ {0}
          BY <4>1, Constants, IncType DEF d
        <4>4. r \in d..CircStart
          BY <4>3, Refill
        <4>5. deliver_window' = r
          BY <4>2 DEF d
        <4> HIDE DEF r
        <4> QED BY <4>3, <4>4, <4>5
      <3>3. back' \in Seq(Replies)
        <4>1. CircSendme(sendme_digest') \in Replies /\ StreamSendmeCell(s) \in Replies
          BY <2>1, <3>1, RepliesTyped DEF QueueTyped
        <4>2. /\ Repeat(k, CircSendme(sendme_digest')) \in Seq(Replies)
              /\ Repeat(sk, StreamSendmeCell(s)) \in Seq(Replies)
          BY <4>1, CountRepeat
        <4> QED BY <2>4, <4>2, SeqConcat DEF Answers, ReceiverTyped
      <3>4. outbuf' \in [Streams -> Nat]
        BY <2>1, <2>4 DEF Answers, ReceiverTyped
      <3>7. stream_deliver' \in [Streams -> 0..StreamStart]
        <4>1. \/ stream_deliver' = stream_deliver
              \/ /\ stream_deliver' = [stream_deliver EXCEPT
                                          ![s] = stream_deliver[s] - 1 + sk * StreamInc]
                 /\ stream_deliver[s] - 1 + sk * StreamInc \in 0..StreamStart
          BY <2>4 DEF Answers
        <4> DEFINE e == stream_deliver[s] - 1 + sk * StreamInc
        <4> HIDE DEF e
        <4>2. \/ stream_deliver' = stream_deliver
              \/ stream_deliver' = [stream_deliver EXCEPT ![s] = e] /\ e \in 0..StreamStart
          BY <4>1 DEF e
        <4> QED BY <4>2 DEF ReceiverTyped
      <3>5. xoff_sent' \in [Streams -> BOOLEAN] /\ rate_sent' \in [Streams -> BOOLEAN]
        BY <2>4 DEF Answers, ReceiverTyped
      <3>6. closed' = closed
        BY <2>4 DEF Answers
      <3> QED BY <2>1, <2>2, <3>1, <3>2, <3>3, <3>4, <3>5, <3>6, <3>7 DEF StreamsTyped,
         WindowsTyped, QueueTyped, ReceiverTyped, EdgesTyped, streamVars, windowVars,
         queueVars, SentCells
    <2> QED BY <1>6, <2>3, <2>4, ReceiveDataSteps
  <1>7. ASSUME NEW s \in Streams, ReadEvent(s) PROVE TInv'
    <2>1. src' \in [Streams -> Nat] /\ inbuf' \in [Streams -> Nat]
      BY <1>7 DEF ReadEvent, StreamsTyped
    <2>2. agenda' \in Seq(Entries)
      BY <1>7, StepTyped DEF ReadEvent, Ops
    <2> QED BY <1>7, <2>1, <2>2 DEF ReadEvent, StreamsTyped, WindowsTyped, QueueTyped,
       ReceiverTyped, EdgesTyped, windowVars, queueVars, receiverVars, SentCells
  <1>8. ASSUME NEW s \in Streams, Drain(s) PROVE TInv'
    <2>1. UNCHANGED <<cc, streamVars, windowVars, queueVars, agenda, net,
                      deliver_window, sendme_digest, closed>>
      BY <1>8, DrainSteps
    <2>2. PICK k \in Nat, sk \in Nat, xon \in Seq(Replies) : Drains(s, k, sk, xon)
      BY <1>8, DrainSteps
    <2>3. back' \in Seq(Replies)
      <3>1. Repeat(sk, StreamSendmeCell(s)) \in Seq(Replies)
        BY RepliesTyped, CountRepeat
      <3> QED BY <2>2, <3>1, SeqConcat DEF Drains, ReceiverTyped
    <2>4. outbuf' \in [Streams -> Nat] /\ stream_deliver' \in [Streams -> 0..StreamStart]
      BY <2>2 DEF Drains, ReceiverTyped
    <2>5. xoff_sent' \in [Streams -> BOOLEAN] /\ rate_sent' \in [Streams -> BOOLEAN]
      BY <2>2 DEF Drains, ReceiverTyped
    <2> QED BY <2>1, <2>3, <2>4, <2>5 DEF StreamsTyped, WindowsTyped, QueueTyped,
       ReceiverTyped, EdgesTyped, streamVars, windowVars, queueVars, SentCells
  <1>9. CASE UNCHANGED vars
    BY <1>9 DEF vars, StreamsTyped, WindowsTyped, QueueTyped,
       ReceiverTyped, EdgesTyped, streamVars, windowVars, queueVars, receiverVars, SentCells
  <1> QED BY <1>1, <1>2, <1>3, <1>4, <1>5, <1>6, <1>7, <1>8, <1>9 DEF Next, Handler

-----------------------------------------------------------------------------
(* An XOFF is obeyed. *)

\* Only words to a stream are words to it.
LEMMA Words ==
    ASSUME NEW s \in Streams, NEW t \in Streams, NEW d \in Nat
    PROVE  /\ CircSendme(d) \notin WordsTo(t) /\ StreamSendmeCell(s) \notin WordsTo(t)
           /\ Xon(s) \in WordsTo(t) <=> s = t
           /\ Xoff(s) \in WordsTo(t) <=> s = t
           /\ Xon(s).type # "XOFF" /\ Xoff(s).type = "XOFF"
  BY DEF CircSendme, StreamSendmeCell, Xon, Xoff, WordsTo

\* SENDMEs are no words.
LEMMA RepeatNoWord ==
    ASSUME NEW k \in Nat, NEW c \in Replies, NEW t, c \notin WordsTo(t)
    PROVE  \A i \in DOMAIN Repeat(k, c) : Repeat(k, c)[i] \notin WordsTo(t)
  BY DEF Repeat

\* What is agreed on when the sender takes the first reply.
LEMMA ReplyAgreed ==
    ASSUME TInv, XoffObeyed, ReceiveReply
    PROVE  XoffObeyed'
  <1> USE DEF TInv
  <1> DEFINE c == back[1]
  <1>1. /\ back # <<>> /\ back' = Tail(back) /\ c \in Replies
        /\ CircuitSendme(c) \/ StreamSendme(c) \/ StreamXonXoff(c)
    BY ReplySteps
  <1>2. back \in Seq(Replies) /\ xoff_sent' = xoff_sent
    BY <1>1 DEF ReceiverTyped, CircuitSendme, StreamSendme, StreamXonXoff, CloseCircuit,
       receiverVars
  <1>3. \A s \in Streams :
          /\ Agreed(back, s, xoff_received[s], xoff_sent[s])
          /\ xoff_received[s] \in BOOLEAN /\ xoff_sent[s] \in BOOLEAN
          /\ xoff_received[s] => ~reading[s]
    BY DEF XoffObeyed, XoffAgrees, StreamsTyped, ReceiverTyped
  <1>4. \A s \in Streams :
          Agreed(back', s, IF c \in WordsTo(s) THEN c.type = "XOFF" ELSE xoff_received[s],
                 xoff_sent'[s])
    BY <1>1, <1>2, <1>3, AgreedTail
  <1> HIDE DEF c
  <1>5. CASE CircuitSendme(c) \/ StreamSendme(c)
    <2>1. xoff_received' = xoff_received /\ reading' = reading /\ c.type = "SENDME"
      BY <1>5 DEF CircuitSendme, StreamSendme, CloseCircuit, streamVars
    <2>2. \A s \in Streams : c \notin WordsTo(s)
      BY <2>1 DEF WordsTo
    <2>3. \A s \in Streams : Agreed(back', s, xoff_received'[s], xoff_sent'[s])
      BY <1>4, <2>1, <2>2, Zenon
    <2>4. \A s \in Streams : xoff_received'[s] => ~reading'[s]
      BY <1>3, <2>1
    <2> QED BY <2>3, <2>4 DEF XoffObeyed, XoffAgrees
  <1>6. CASE StreamXonXoff(c)
    <2>1. /\ xoff_received' = [xoff_received EXCEPT ![c.s] = (c.type = "XOFF")]
          /\ reading' = [reading EXCEPT ![c.s] = @ /\ c.type = "XON"]
          /\ c.type \in {"XON", "XOFF"}
      BY <1>6 DEF StreamXonXoff
    <2>2. \A s \in Streams : c \in WordsTo(s) <=> s = c.s
      BY <1>1, <2>1 DEF WordsTo, Replies
    <2>3. \A s \in Streams : s # c.s =>
            xoff_received'[s] = xoff_received[s] /\ reading'[s] = reading[s]
      BY <2>1 DEF StreamsTyped
    <2>4. \A s \in Streams : s = c.s => xoff_received'[s] = (c.type = "XOFF")
      BY <2>1 DEF StreamsTyped
    <2>5. \A s \in Streams : s = c.s => (reading'[s] => c.type = "XON")
      BY <2>1 DEF StreamsTyped
    <2>6. \A s \in Streams : Agreed(back', s, xoff_received'[s], xoff_sent'[s])
      <3> SUFFICES ASSUME NEW s \in Streams
                   PROVE  Agreed(back', s, xoff_received'[s], xoff_sent'[s])
        OBVIOUS
      <3>1. CASE s = c.s
        <4>1. Agreed(back', s, c.type = "XOFF", xoff_sent'[s])
          BY <1>4, <2>2, <3>1, Zenon
        <4> QED BY <2>4, <3>1, <4>1, Zenon
      <3>2. CASE s # c.s
        <4>1. Agreed(back', s, xoff_received[s], xoff_sent'[s])
          BY <1>4, <2>2, <3>2, Zenon
        <4> QED BY <2>3, <3>2, <4>1, Zenon
      <3> QED BY <3>1, <3>2
    <2>7. \A s \in Streams : xoff_received'[s] => ~reading'[s]
      BY <1>3, <2>1, <2>3, <2>4, <2>5
    <2> QED BY <2>6, <2>7 DEF XoffObeyed, XoffAgrees
  <1> QED BY <1>1, <1>5, <1>6

\* What the receiver of s tells t, whose xoff_sent changes from x to x2.
Tells(s, t, xoff, xon, x, x2) ==
  /\ xoff \in {<<>>, <<Xoff(s)>>} /\ xon \in {<<>>, <<Xon(s)>>}
  /\ t # s \/ (xoff = <<>> /\ xon = <<>>) => x2 = x
  /\ t = s /\ xoff # <<>> => x2 = TRUE /\ xon = <<>>
  /\ t = s /\ xon # <<>> => x2 = FALSE

\* What is agreed on when the receiver adds its answers.
LEMMA AnswersAgreed ==
    ASSUME NEW q \in Seq(Replies), NEW s \in Streams, NEW t \in Streams,
           NEW r, NEW x, NEW x2, NEW d \in Nat,
           NEW k \in Nat, NEW sk \in Nat, NEW xoff \in Seq(Replies), NEW xon \in Seq(Replies),
           Tells(s, t, xoff, xon, x, x2), Agreed(q, t, r, x)
    PROVE  Agreed(q \o Repeat(k, CircSendme(d)) \o xoff \o xon
                    \o Repeat(sk, StreamSendmeCell(s)), t, r, x2)
  <1> USE DEF Tells
  <1> DEFINE circ == Repeat(k, CircSendme(d))
             strm == Repeat(sk, StreamSendmeCell(s))
  <1>1. /\ circ \in Seq(Replies) /\ strm \in Seq(Replies)
        /\ \A i \in DOMAIN circ : circ[i] \notin WordsTo(t)
        /\ \A i \in DOMAIN strm : strm[i] \notin WordsTo(t)
    BY RepliesTyped, CountRepeat, RepeatNoWord, Words
  <1> HIDE DEF circ, strm
  <1>2. q \o circ \in Seq(Replies) /\ Agreed(q \o circ, t, r, x)
    BY <1>1, AgreedConcat, SeqConcat
  <1> DEFINE q1 == q \o circ
             x1 == IF t = s /\ xoff # <<>> THEN TRUE ELSE x
  <1>3. q1 \o xoff \in Seq(Replies)
    BY <1>2, SeqConcat
  <1> HIDE DEF q1
  <1>4. Agreed(q1 \o xoff, t, r, x1)
    <2>1. CASE t = s /\ xoff # <<>>
      <3>1. Agreed(q1 \o <<Xoff(s)>>, t, r, Xoff(s).type = "XOFF")
        BY <1>2, <2>1, AgreedWord, Words, RepliesTyped DEF q1
      <3>2. (Xoff(s).type = "XOFF") = TRUE
        BY DEF Xoff
      <3>3. xoff = <<Xoff(s)>>
        BY <2>1
      <3> QED BY <2>1, <3>1, <3>2, <3>3, Zenon
    <2>2. CASE ~(t = s /\ xoff # <<>>)
      <3>1. \A i \in DOMAIN xoff : xoff[i] \notin WordsTo(t)
        BY <2>2, Words
      <3>2. Agreed(q1 \o xoff, t, r, x)
        BY <1>2, <3>1, AgreedConcat DEF q1
      <3> QED BY <2>2, <3>2, Zenon
    <2> QED BY <2>1, <2>2
  <1> DEFINE q2 == q1 \o xoff
  <1> HIDE DEF q2
  <1>5. q2 \in Seq(Replies) /\ Agreed(q2, t, r, x1)
    BY <1>3, <1>4 DEF q2
  <1>6. q2 \o xon \in Seq(Replies)
    BY <1>5, SeqConcat
  <1>7. Agreed(q2 \o xon, t, r, x2)
    <2>1. CASE t = s /\ xon # <<>>
      <3>1. Agreed(q2 \o <<Xon(s)>>, t, r, Xon(s).type = "XOFF")
        BY <1>5, <2>1, AgreedWord, Words, RepliesTyped
      <3>2. (Xon(s).type = "XOFF") = FALSE
        BY DEF Xon
      <3>3. xon = <<Xon(s)>> /\ x2 = FALSE
        BY <2>1
      <3> QED BY <3>1, <3>2, <3>3, Zenon
    <2>2. CASE ~(t = s /\ xon # <<>>)
      <3>1. \A i \in DOMAIN xon : xon[i] \notin WordsTo(t)
        BY <2>2, Words
      <3>2. x1 = x2
        BY <2>2
      <3>3. Agreed(q2, t, r, x2)
        BY <1>5, <3>2, Zenon
      <3> QED BY <1>5, <3>1, <3>3, AgreedConcat
    <2> QED BY <2>1, <2>2
  <1>8. Agreed((q2 \o xon) \o strm, t, r, x2)
    BY <1>1, <1>6, <1>7, AgreedConcat
  <1> QED BY <1>8 DEF q1, q2, circ, strm

\* Adding no SENDME and no word adds nothing.
LEMMA RepeatNone ==
    ASSUME NEW q \in Seq(Replies), NEW c
    PROVE  q \o Repeat(0, c) \o <<>> = q
  <1>1. Repeat(0, c) = <<>>
    BY DEF Repeat
  <1> QED BY <1>1

\* No step reads from a stream that was told to stop, or lets the edges disagree.
LEMMA NextXoff == TInv /\ XoffObeyed /\ [Next]_vars => XoffObeyed'
  <1> SUFFICES ASSUME TInv, XoffObeyed, [Next]_vars PROVE XoffObeyed'
    OBVIOUS
  <1> USE DEF TInv
  <1>0. \A s \in Streams :
          /\ Agreed(back, s, xoff_received[s], xoff_sent[s])
          /\ xoff_received[s] \in BOOLEAN /\ xoff_sent[s] \in BOOLEAN
          /\ xoff_received[s] => ~reading[s]
    BY DEF XoffObeyed, XoffAgrees, StreamsTyped, ReceiverTyped
  <1>1. ASSUME UNCHANGED <<back, xoff_received, xoff_sent>>,
               \A s \in Streams : reading'[s] => reading[s] \/ ~xoff_received[s]
        PROVE  XoffObeyed'
    BY <1>0, <1>1 DEF XoffObeyed, XoffAgrees
  <1>2. CASE Handler
    <2>1. ASSUME NEW s \in Streams, Packages(s) PROVE XoffObeyed'
      <3>1. UNCHANGED <<back, xoff_received, xoff_sent>>
        BY <2>1 DEF Packages, PackageCell, receiverVars
      <3>2. \A t \in Streams : reading'[t] => reading[t]
        BY <2>1, Zenon DEF Packages, PackageCell
      <3> QED BY <1>1, <3>1, <3>2
    <2>2. ASSUME UNCHANGED core,
                 \A s \in Streams : reading'[s] => reading[s] \/ ~xoff_received[s]
          PROVE  XoffObeyed'
      BY <1>1, <2>2 DEF core, receiverVars
    <2> QED BY <1>2, <2>1, <2>2, HandlerSteps
  <1>3. CASE SendControl
    <2>1. UNCHANGED <<back, xoff_received, xoff_sent>>
      BY <1>3 DEF SendControl, receiverVars
    <2>2. \A t \in Streams : reading'[t] => reading[t]
      BY <1>3, Zenon DEF SendControl
    <2> QED BY <1>1, <2>1, <2>2
  <1>4. CASE FlushCell
    BY <1>1, <1>4 DEF FlushCell, receiverVars, streamVars
  <1>5. CASE ReceiveReply
    BY <1>5, ReplyAgreed
  <1>6. CASE ReceiveControl
    BY <1>1, <1>6 DEF ReceiveControl, streamVars
  <1>7. CASE ReceiveData
    <2> DEFINE s == Head(net).s
    <2>1. s \in Streams /\ xoff_received' = xoff_received /\ reading' = reading
      BY <1>7, ReceiveDataSteps DEF streamVars
    <2>2. CASE Refuses(s)
      BY <1>1, <2>1, <2>2 DEF Refuses, receiverVars
    <2>3. ASSUME NEW k \in Nat, NEW sk \in Nat, NEW xoff \in Seq(Replies),
                 NEW xon \in Seq(Replies), Answers(s, k, sk, xoff, xon)
          PROVE  XoffObeyed'
      <3> HIDE DEF s
      <3>1. /\ xoff \in {<<>>, <<Xoff(s)>>} /\ xon \in {<<>>, <<Xon(s)>>}
            /\ (xoff # <<>> => ~xoff_sent[s])
            /\ (xon # <<>> => xoff = <<>> /\ ~xoff_sent[s])
            /\ back' = back \o Repeat(k, CircSendme(sendme_digest')) \o xoff \o xon
                         \o Repeat(sk, StreamSendmeCell(s))
            /\ xoff_sent' = [xoff_sent EXCEPT ![s] = @ \/ xoff # <<>>]
        BY <2>3 DEF Answers
      <3>2. sendme_digest' \in Nat /\ xoff_sent' \in [Streams -> BOOLEAN]
        BY NextTInv DEF QueueTyped, ReceiverTyped
      <3>3. ASSUME NEW t \in Streams PROVE Agreed(back', t, xoff_received'[t], xoff_sent'[t])
        <4>1. xoff_sent'[t] \in BOOLEAN /\ (t # s => xoff_sent'[t] = xoff_sent[t])
          BY <3>1, <3>2 DEF ReceiverTyped
        <4>2. t = s => (xoff_sent'[t] <=> (xoff_sent[t] \/ xoff # <<>>))
          BY <2>1, <3>1 DEF ReceiverTyped
        <4>3. /\ t # s \/ (xoff = <<>> /\ xon = <<>>) => xoff_sent'[t] = xoff_sent[t]
              /\ t = s /\ xoff # <<>> => xoff_sent'[t] /\ xon = <<>>
              /\ t = s /\ xon # <<>> => ~xoff_sent'[t]
          BY <1>0, <3>1, <4>1, <4>2
        <4>4. Agreed(back', t, xoff_received[t], xoff_sent'[t])
          <5> DEFINE d == sendme_digest'
                     x == xoff_sent[t]
                     x2 == xoff_sent'[t]
                     r == xoff_received[t]
                     q == back
          <5>1. /\ q \in Seq(Replies) /\ d \in Nat /\ r \in BOOLEAN /\ x \in BOOLEAN
                /\ x2 \in BOOLEAN /\ Agreed(q, t, r, x)
                /\ s \in Streams
            BY <1>0, <2>1, <3>1, <3>2, <4>1 DEF ReceiverTyped
          <5>3. Tells(s, t, xoff, xon, x, x2)
            BY <1>0, <3>1, <4>1, <4>3 DEF Tells
          <5> HIDE DEF d, x, x2, r, q
          <5>2. Agreed(q \o Repeat(k, CircSendme(d)) \o xoff \o xon
                         \o Repeat(sk, StreamSendmeCell(s)), t, r, x2)
            BY <5>1, <5>3, AnswersAgreed
          <5> QED BY <3>1, <5>2 DEF q, d, r, x2
        <4> QED BY <2>1, <4>4
      <3> QED BY <1>0, <2>1, <3>3 DEF XoffObeyed, XoffAgrees
    <2> QED BY <1>7, <2>2, <2>3, ReceiveDataSteps
  <1>8. ASSUME NEW s \in Streams, ReadEvent(s) PROVE XoffObeyed'
    BY <1>1, <1>8 DEF ReadEvent, receiverVars
  <1>9. ASSUME NEW s \in Streams, Drain(s) PROVE XoffObeyed'
    <2>1. xoff_received' = xoff_received /\ reading' = reading
      BY <1>9, DrainSteps DEF streamVars
    <2>2. PICK k \in Nat, sk \in Nat, xon \in Seq(Replies) : Drains(s, k, sk, xon)
      BY <1>9, DrainSteps
    <2>3. /\ xon \in {<<>>, <<Xon(s)>>}
          /\ back' = back \o xon \o Repeat(sk, StreamSendmeCell(s))
          /\ xoff_sent' = [xoff_sent EXCEPT ![s] = @ /\ xon = <<>>]
      BY <2>2 DEF Drains
    <2>4. back' = back \o Repeat(0, CircSendme(0)) \o <<>> \o xon
                    \o Repeat(sk, StreamSendmeCell(s))
      BY <2>3, RepeatNone DEF ReceiverTyped
    <2>5. ASSUME NEW t \in Streams PROVE Agreed(back', t, xoff_received'[t], xoff_sent'[t])
      <3>1. t # s => xoff_sent'[t] = xoff_sent[t]
        BY <2>3 DEF ReceiverTyped
      <3>2. t = s => (xoff_sent'[t] <=> (xoff_sent[t] /\ xon = <<>>))
        BY <2>3 DEF ReceiverTyped
      <3>3. xoff_sent'[t] \in BOOLEAN
        BY NextTInv DEF ReceiverTyped
      <3>4. /\ t # s \/ xon = <<>> => xoff_sent'[t] = xoff_sent[t]
            /\ t = s /\ xon # <<>> => ~xoff_sent'[t]
        BY <1>0, <3>1, <3>2, <3>3
      <3>5. <<>> \in Seq(Replies) /\ back \in Seq(Replies)
        BY DEF ReceiverTyped
      <3>6. Agreed(back', t, xoff_received[t], xoff_sent'[t])
        <4> DEFINE e == <<>>
        <4>1. /\ e \in Seq(Replies) /\ e \in {<<>>, <<Xoff(s)>>}
              /\ t # s \/ (e = <<>> /\ xon = <<>>) => xoff_sent'[t] = xoff_sent[t]
              /\ t = s /\ e # <<>> => xoff_sent'[t] /\ xon = <<>>
              /\ back' = back \o Repeat(0, CircSendme(0)) \o e \o xon
                    \o Repeat(sk, StreamSendmeCell(s))
          BY <2>4, <3>4, <3>5
        <4> DEFINE x == xoff_sent[t]
                   x2 == xoff_sent'[t]
                   r == xoff_received[t]
                   q == back
        <4>2. /\ q \in Seq(Replies) /\ r \in BOOLEAN /\ x \in BOOLEAN
              /\ x2 \in BOOLEAN /\ Agreed(q, t, r, x)
              /\ 0 \in Nat
          BY <1>0, <3>3, <3>5
        <4>3. Tells(s, t, e, xon, x, x2)
          BY <1>0, <2>3, <3>3, <3>4, <4>1 DEF Tells
        <4> HIDE DEF e, x, x2, r, q
        <4>4. Agreed(q \o Repeat(0, CircSendme(0)) \o e \o xon
                       \o Repeat(sk, StreamSendmeCell(s)), t, r, x2)
          BY <4>1, <4>2, <4>3, AnswersAgreed
        <4> QED BY <4>1, <4>4 DEF q, r, x2
      <3> QED BY <2>1, <3>6
    <2> QED BY <1>0, <2>1, <2>5 DEF XoffObeyed, XoffAgrees
  <1>10. CASE UNCHANGED vars
    BY <1>1, <1>10 DEF vars, receiverVars, streamVars
  <1> QED BY <1>2, <1>3, <1>4, <1>5, <1>6, <1>7, <1>8, <1>9, <1>10 DEF Next, Handler

\* On a new circuit no stream is stopped.
LEMMA InitXoff == Init => XoffObeyed
  <1> SUFFICES ASSUME Init PROVE XoffObeyed
    OBVIOUS
  <1>1. \A s : At(<<>>, WordsTo(s)) = {}
    BY DEF At
  <1>2. \A s \in Streams : xoff_received[s] = FALSE /\ xoff_sent[s] = FALSE
    BY DEF Init
  <1>3. \A s \in Streams : Agreed(back, s, xoff_received[s], xoff_sent[s])
    BY <1>1, <1>2 DEF Init, Agreed
  <1> QED BY <1>2, <1>3 DEF XoffObeyed, XoffAgrees

\* Whatever starts the streams, one that was told to stop is not read from, and
\* the last XON or XOFF on its way is what the receiver means
\* (circuit_process_stream_xoff, flow_control_decide_xon,
\* circuit_resume_edge_reading, set_block_state_for_streams).
THEOREM XoffIsObeyed == Spec => []XoffObeyed
  <1>1. Init => TInv /\ XoffObeyed
    BY InitTInv, InitXoff
  <1>2. TInv /\ XoffObeyed /\ [Next]_vars => TInv' /\ XoffObeyed'
    BY NextTInv, NextXoff
  <1> QED BY <1>1, <1>2, PTL DEF Spec

-----------------------------------------------------------------------------
(* No credit is lost or gained. *)

\* The cells on their way are cells.
LEMMA FlowTyped ==
    TInv => net \in Seq(Cells) /\ queue \in Seq(Cells) /\ Flow \in Seq(Cells)
  <1> SUFFICES ASSUME TInv
               PROVE  net \in Seq(Cells) /\ queue \in Seq(Cells) /\ Flow \in Seq(Cells)
    OBVIOUS
  <1>1. SentCells \subseteq Cells
    BY DEF SentCells, Cells
  <1>2. net \in Seq(Cells) /\ queue \in Seq(Cells)
    BY <1>1, SeqMonotone DEF TInv, QueueTyped
  <1> QED BY <1>2, SeqConcat DEF Flow

\* A DATA cell of S is one of a stream of S.
LEMMA DataCell ==
    ASSUME NEW c \in Cells, NEW S
    PROVE  c \in DataOf(S) <=> c.s \in S
  BY DEF Cells, DataOf

\* A SENDME for z is one with its stream id.
LEMMA SendmeCell ==
    ASSUME NEW c \in Replies, NEW z
    PROVE  c \in SendmesFor(z) <=> c.type = "SENDME" /\ c.s = z
  BY DEF Replies, SendmesFor

Maybe(c) == {<<>>, <<c>>}

\* A word is no SENDME.
LEMMA CountWord ==
    ASSUME NEW c, NEW w \in Maybe(c), NEW C, c \notin C
    PROVE  Count(w, C) = 0
  <1>1. At(w, C) = {}
    BY DEF At, Maybe
  <1> QED BY <1>1, FS_EmptySet DEF Count

\* The k SENDMEs for y, as seen by those for z.
Share(z, y, k) == IF z = y THEN k ELSE 0

\* The SENDMEs among the receiver's answers.
LEMMA AnswersCount ==
    ASSUME NEW q \in Seq(Replies), NEW s \in Streams, NEW z \in Streams \cup {NoStream},
           NEW d \in Nat, NEW k \in Nat, NEW sk \in Nat, NEW xoff \in Seq(Replies),
           NEW xon \in Seq(Replies), xoff \in Maybe(Xoff(s)), xon \in Maybe(Xon(s))
    PROVE  Count(q \o Repeat(k, CircSendme(d)) \o xoff \o xon
                   \o Repeat(sk, StreamSendmeCell(s)), SendmesFor(z))
             = Count(q, SendmesFor(z)) + Share(z, NoStream, k) + Share(z, s, sk)
  <1> DEFINE circ == Repeat(k, CircSendme(d))
             strm == Repeat(sk, StreamSendmeCell(s))
             C == SendmesFor(z)
  <1>0. /\ CircSendme(d) \in Replies /\ StreamSendmeCell(s) \in Replies
        /\ CircSendme(d) \in C <=> z = NoStream
        /\ StreamSendmeCell(s) \in C <=> z = s
        /\ Xoff(s) \notin C /\ Xon(s) \notin C
    BY RepliesTyped DEF SendmesFor, CircSendme, StreamSendmeCell, Xon, Xoff
  <1> HIDE DEF C
  <1>1. /\ circ \in Seq(Replies) /\ strm \in Seq(Replies)
        /\ Count(circ, C) = (IF z = NoStream THEN k ELSE 0)
        /\ Count(strm, C) = (IF z = s THEN sk ELSE 0)
    <2>1. /\ circ \in Seq(Replies)
          /\ Count(circ, C) = IF CircSendme(d) \in C THEN k ELSE 0
      BY <1>0, CountRepeat
    <2>2. /\ strm \in Seq(Replies)
          /\ Count(strm, C) = IF StreamSendmeCell(s) \in C THEN sk ELSE 0
      BY <1>0, CountRepeat
    <2> QED BY <1>0, <2>1, <2>2
  <1>2. Count(xoff, C) = 0 /\ Count(xon, C) = 0
    <2>1. Count(xoff, C) = 0
      BY <1>0, CountWord
    <2>2. Count(xon, C) = 0
      BY <1>0, CountWord
    <2> QED BY <2>1, <2>2
  <1> HIDE DEF circ, strm
  <1>3. q \o circ \in Seq(Replies) /\ q \o circ \o xoff \in Seq(Replies)
        /\ q \o circ \o xoff \o xon \in Seq(Replies)
    BY <1>1, SeqConcat
  <1>4. \A p, r \in Seq(Replies) : Count(p \o r, C) = Count(p, C) + Count(r, C)
    BY CountConcat
  <1>5. Count(q, C) \in Nat
    BY RepliesCount
  <1>6. Count(q \o circ \o xoff \o xon \o strm, C)
          = Count(q, C) + (IF z = NoStream THEN k ELSE 0) + (IF z = s THEN sk ELSE 0)
    <2> DEFINE a == Count(q, C)
               b == Count(circ, C)
               e == Count(strm, C)
    <2>1. a \in Nat /\ b \in Nat /\ e \in Nat
      BY <1>1, <1>5
    <2> HIDE DEF a, b, e
    <2>2. Count(q \o circ, C) = a + b
      BY <1>1, <1>4 DEF a, b
    <2>6. \A p, r \in Seq(Replies) :
            Count(p, C) = a + b /\ Count(r, C) = 0 => Count(p \o r, C) = a + b
      BY <1>4, <2>1
    <2>3. Count(q \o circ \o xoff, C) = a + b
      BY <1>2, <1>3, <2>2, <2>6
    <2>4. Count(q \o circ \o xoff \o xon, C) = a + b
      BY <1>2, <1>3, <2>3, <2>6
    <2>5. Count(q \o circ \o xoff \o xon \o strm, C) = a + b + e
      BY <1>1, <1>3, <1>4, <2>4 DEF e
    <2> QED BY <1>1, <2>5 DEF a, b, e
  <1> QED BY <1>6 DEF C, circ, strm, Share

\* The receiver has counted less than an increment since it sent a SENDME.
Remainder == CircStart - deliver_window < Inc

\* With congestion control no stream has SENDMEs.
NoStreamSendmes == cc => \A s \in Streams : Count(back, SendmesFor(s)) = 0

CInv == CreditConserved /\ Remainder /\ NoStreamSendmes

\* On a new circuit all credit is with the sender.
LEMMA InitCInv == Init => CInv
  <1> SUFFICES ASSUME Init PROVE CInv
    OBVIOUS
  <1>1. Flow = <<>> /\ back = <<>>
    BY DEF Init, Flow
  <1>2. \A C : Count(Flow, C) = 0 /\ Count(back, C) = 0
    BY <1>1, CountEmpty
  <1>3. Inc \in Nat \ {0}
    BY Constants DEF Inc
  <1>4. CircStart - deliver_window = 0 /\ Unacked = 0
        /\ \A s \in Streams : /\ StreamStart - stream_window[s] = 0
                              /\ StreamStart - stream_deliver[s] = 0
    BY Constants DEF Init, Unacked
  <1>5. CircuitCredit
    BY <1>2, <1>3, <1>4 DEF CircuitCredit
  <1>6. StreamCredit
    BY <1>2, <1>4, Constants DEF StreamCredit
  <1> QED BY <1>2, <1>3, <1>4, <1>5, <1>6 DEF CInv, CreditConserved, Remainder, NoStreamSendmes

\* Nothing changes for the credit if nothing of it changes.
LEMMA SameCredit ==
    ASSUME CInv, UNCHANGED <<cc, inflight, package_window, stream_window, deliver_window,
                             stream_deliver, back, closed>>, Flow' = Flow
    PROVE  CInv'
  <1>1. Unacked' = Unacked /\ Inc' = Inc
    BY DEF Unacked, Inc
  <1>2. CircuitCredit'
    BY <1>1 DEF CInv, CreditConserved, CircuitCredit
  <1>3. StreamCredit'
    BY <1>1 DEF CInv, CreditConserved, StreamCredit
  <1> QED BY <1>1, <1>2, <1>3 DEF CInv, CreditConserved, Remainder, NoStreamSendmes

\* The credit of a packaged cell moves to the cell.
LEMMA PackagesCredit ==
    ASSUME TInv, CInv, NEW s \in Streams, Packages(s)
    PROVE  CInv'
  <1> DEFINE c == [n |-> sent + 1, s |-> s]
  <1>1. /\ queue' = Append(queue, c) /\ net' = net
        /\ UNCHANGED <<cc, deliver_window, stream_deliver, back, closed>>
        /\ stream_window' = IF cc THEN stream_window
                            ELSE [stream_window EXCEPT ![s] = @ - 1]
        /\ inflight' = IF cc THEN inflight + 1 ELSE inflight
        /\ package_window' = IF cc THEN package_window ELSE package_window - 1
    BY DEF Packages, PackageCell, Enqueue, receiverVars
  <1>2. c \in Cells /\ c.s = s
    BY DEF TInv, QueueTyped, Cells
  <1> HIDE DEF c
  <1>3. Flow' = Append(Flow, c) /\ Flow \in Seq(Cells)
    BY <1>1, <1>2, FlowTyped, FlowAppend DEF Flow
  <1>4. Unacked \in Int /\ Unacked' = Unacked + 1 /\ Inc' = Inc
    BY <1>1, Constants DEF Unacked, Inc, TInv, WindowsTyped
  <1>5. /\ Count(Flow', DataOf(Streams)) = Count(Flow, DataOf(Streams)) + 1
        /\ \A t \in Streams : Count(Flow', DataOf({t}))
             = Count(Flow, DataOf({t})) + (IF t = s THEN 1 ELSE 0)
    <2>1. c \in DataOf(Streams) /\ \A t \in Streams : c \in DataOf({t}) <=> t = s
      BY <1>2, DataCell
    <2> QED BY <1>2, <1>3, <2>1, CountAppend
  <1>6. Count(Flow, DataOf(Streams)) \in Nat
        /\ \A t \in Streams : Count(Flow, DataOf({t})) \in Nat
    BY <1>3, AtFinite
  <1>7. Inc \in Nat /\ deliver_window \in Nat /\ Count(back, SendmesFor(NoStream)) \in Nat
        /\ \A t \in Streams : /\ Count(back, SendmesFor(t)) \in Nat
                              /\ stream_window[t] \in Nat /\ stream_deliver[t] \in Nat
    <2>1. \A C : Count(back, C) \in Nat
      BY RepliesCount DEF TInv, ReceiverTyped
    <2>2. Inc \in Nat /\ deliver_window \in Nat
      BY IncType, Constants DEF TInv, ReceiverTyped
    <2>3. \A t \in Streams : stream_window[t] \in Nat /\ stream_deliver[t] \in Nat
      BY Constants DEF TInv, ReceiverTyped, StreamsTyped
    <2> QED BY <2>1, <2>2, <2>3
  <1>8. \A a, b, i, m \in Nat, u \in Int, w \in Int :
          u = a + (w - b) + i * m => u + 1 = (a + 1) + (w - b) + i * m
    OBVIOUS
  <1>9. CircuitCredit'
    <2> DEFINE a == Count(Flow, DataOf(Streams))
               m == Count(back, SendmesFor(NoStream))
               u == Unacked
               b == deliver_window
               i == Inc
    <2>1. a \in Nat /\ m \in Nat /\ u \in Int /\ b \in Nat /\ i \in Nat /\ CircStart \in Int
      BY <1>4, <1>6, <1>7, Constants
    <2>2. ~closed => u = a + (CircStart - b) + i * m
      BY DEF CInv, CreditConserved, CircuitCredit
    <2>3. /\ Unacked' = u + 1 /\ Count(Flow', DataOf(Streams)) = a + 1 /\ Inc' = i
          /\ deliver_window' = b /\ Count(back', SendmesFor(NoStream)) = m /\ closed' = closed
      BY <1>1, <1>4, <1>5
    <2> HIDE DEF a, m, u, b, i
    <2>4. ~closed => u + 1 = (a + 1) + (CircStart - b) + i * m
      BY <1>8, <2>1, <2>2
    <2> QED BY <2>3, <2>4 DEF CircuitCredit
  <1>10. StreamCredit'
    <2> SUFFICES ASSUME ~closed, ~cc, NEW t \in Streams
                 PROVE  StreamStart - stream_window'[t] =
                          Count(Flow', DataOf({t})) + (StreamStart - stream_deliver[t])
                            + StreamInc * Count(back, SendmesFor(t))
      BY <1>1 DEF StreamCredit
    <2>1. StreamStart - stream_window[t] =
            Count(Flow, DataOf({t})) + (StreamStart - stream_deliver[t])
              + StreamInc * Count(back, SendmesFor(t))
      BY DEF CInv, CreditConserved, StreamCredit
    <2>2. stream_window'[t] = stream_window[t] - (IF t = s THEN 1 ELSE 0)
      BY <1>1, Constants DEF TInv, StreamsTyped
    <2> QED BY <1>5, <1>6, <1>7, <1>8, <2>1, <2>2, Constants
  <1> QED BY <1>1, <1>4, <1>9, <1>10 DEF CInv, CreditConserved, Remainder, NoStreamSendmes

\* The quantities that the credit is made of.
LEMMA CreditTypes ==
    TInv => /\ Inc \in Nat \ {0} /\ Unacked \in Int
            /\ deliver_window \in 0..CircStart /\ CircStart \in Nat
            /\ \A C : Count(back, C) \in Nat /\ Count(Flow, C) \in Nat
            /\ \A t \in Streams : /\ stream_window[t] \in 0..StreamStart
                                  /\ stream_deliver[t] \in 0..StreamStart
            /\ StreamStart \in Nat /\ StreamInc \in Nat \ {0}
  <1> SUFFICES ASSUME TInv
               PROVE  /\ Inc \in Nat \ {0} /\ Unacked \in Int
                      /\ deliver_window \in 0..CircStart /\ CircStart \in Nat
                      /\ \A C : Count(back, C) \in Nat /\ Count(Flow, C) \in Nat
                      /\ \A t \in Streams : /\ stream_window[t] \in 0..StreamStart
                                            /\ stream_deliver[t] \in 0..StreamStart
                      /\ StreamStart \in Nat /\ StreamInc \in Nat \ {0}
    OBVIOUS
  <1>1. Inc \in Nat \ {0} /\ Unacked \in Int
    BY IncType, Constants DEF TInv, WindowsTyped, Unacked
  <1>2. \A C : Count(back, C) \in Nat
    BY RepliesCount DEF TInv, ReceiverTyped
  <1>3. \A C : Count(Flow, C) \in Nat
    BY FlowTyped, CountType
  <1>4. \A t \in Streams : /\ stream_window[t] \in 0..StreamStart
                           /\ stream_deliver[t] \in 0..StreamStart
    BY DEF TInv, StreamsTyped, ReceiverTyped
  <1> QED BY <1>1, <1>2, <1>3, <1>4, Constants DEF TInv, ReceiverTyped

\* A cell of the circuit itself is no stream's.
LEMMA ControlCount ==
    ASSUME TInv, NEW c \in Cells, c.s = NoStream,
           Flow' = Append(Flow, c) \/ (Flow' = Tail(Flow) /\ Flow # <<>> /\ Flow[1] = c)
    PROVE  \A S \in SUBSET Streams : Count(Flow', DataOf(S)) = Count(Flow, DataOf(S))
  <1>1. \A S \in SUBSET Streams : c \notin DataOf(S)
    BY DataCell, Constants
  <1>2. Flow \in Seq(Cells) /\ \A C : Count(Flow, C) \in Nat
    BY FlowTyped, CreditTypes
  <1>3. \A S \in SUBSET Streams : Count(Flow', DataOf(S)) = Count(Flow, DataOf(S))
    <2> SUFFICES ASSUME NEW S \in SUBSET Streams
                 PROVE  Count(Flow', DataOf(S)) = Count(Flow, DataOf(S))
      OBVIOUS
    <2>1. CASE Flow' = Append(Flow, c)
      <3>1. Count(Flow', DataOf(S)) = Count(Flow, DataOf(S)) + 0
        BY <1>1, <1>2, <2>1, CountAppend
      <3> QED BY <1>2, <3>1
    <2>2. CASE Flow' = Tail(Flow) /\ Flow # <<>> /\ Flow[1] = c
      <3>1. Count(Flow, DataOf(S)) = Count(Tail(Flow), DataOf(S)) + 0
        BY <1>1, <1>2, <2>2, CountTail
      <3>2. Tail(Flow) \in Seq(Cells)
        BY <1>2, <2>2
      <3>3. Count(Tail(Flow), DataOf(S)) \in Nat
        BY <3>2, CountType
      <3> QED BY <2>2, <3>1, <3>3
    <2> QED BY <2>1, <2>2
  <1> QED BY <1>3

\* It carries no credit.
LEMMA ControlCredit ==
    ASSUME TInv, CInv, NEW c \in Cells, c.s = NoStream,
           Flow' = Append(Flow, c) \/ (Flow' = Tail(Flow) /\ Flow # <<>> /\ Flow[1] = c),
           UNCHANGED <<cc, inflight, package_window, stream_window, deliver_window,
                       stream_deliver, back, closed>>
    PROVE  CInv'
  <1>4. /\ Count(Flow', DataOf(Streams)) = Count(Flow, DataOf(Streams))
        /\ \A t \in Streams : Count(Flow', DataOf({t})) = Count(Flow, DataOf({t}))
    BY ControlCount
  <1>5. Unacked' = Unacked /\ Inc' = Inc
    BY DEF Unacked, Inc
  <1>6. CircuitCredit'
    BY <1>4, <1>5 DEF CInv, CreditConserved, CircuitCredit
  <1>7. StreamCredit'
    BY <1>4 DEF CInv, CreditConserved, StreamCredit
  <1> QED BY <1>5, <1>6, <1>7 DEF CInv, CreditConserved, Remainder, NoStreamSendmes

\* The credit of a SENDME returns to the sender.
LEMMA ReplyCredit ==
    ASSUME TInv, CInv, ReceiveReply
    PROVE  CInv'
  <1> DEFINE c == back[1]
  <1>1. /\ back # <<>> /\ back' = Tail(back) /\ c \in Replies
        /\ CircuitSendme(c) \/ StreamSendme(c) \/ StreamXonXoff(c)
    BY ReplySteps
  <1>2. /\ UNCHANGED <<cc, deliver_window, stream_deliver, net, queue>>
        /\ Inc' = Inc /\ Flow' = Flow
    BY <1>1 DEF CircuitSendme, StreamSendme, StreamXonXoff, CloseCircuit, receiverVars,
       queueVars, Inc, Flow
  <1>3. \A C : Count(back, C) = Count(back', C) + (IF c \in C THEN 1 ELSE 0)
    BY <1>1, CountTail DEF TInv, ReceiverTyped
  <1>4. \A C : Count(back', C) \in Nat
    <2>1. back' \in Seq(Replies)
      BY <1>1, SeqTail DEF TInv, ReceiverTyped
    <2> QED BY <2>1, RepliesCount
  <1>5. \A z : c \in SendmesFor(z) <=> c.type = "SENDME" /\ c.s = z
    BY <1>1, SendmeCell
  <1>6. Remainder' /\ NoStreamSendmes'
    <2>1. Remainder'
      BY <1>2 DEF CInv, Remainder
    <2>2. ASSUME cc, NEW s \in Streams PROVE Count(back', SendmesFor(s)) = 0
      <3>1. Count(back, SendmesFor(s)) = 0
        BY <2>2 DEF CInv, NoStreamSendmes
      <3> QED BY <1>3, <1>4, <3>1
    <2> QED BY <1>2, <2>1, <2>2 DEF NoStreamSendmes
  <1> HIDE DEF c
  <1>7. CASE CloseCircuit
    BY <1>6, <1>7 DEF CloseCircuit, CInv, CreditConserved, CircuitCredit, StreamCredit
  <1> DEFINE m == Count(back, SendmesFor(NoStream))
             m2 == Count(back', SendmesFor(NoStream))
  <1>8. CASE CircuitSendme(c) /\ ~CloseCircuit
    <2>1. /\ c.type = "SENDME" /\ c.s = NoStream /\ closed' = closed
          /\ stream_window' = stream_window
          /\ IF cc THEN inflight' = inflight - SendmeInc
             ELSE package_window' = package_window + CircInc
      BY <1>8 DEF CircuitSendme, AckedVegas, AckedWindow, streamVars
    <2>2. Unacked' = Unacked - Inc
      BY <1>2, <2>1, Constants DEF Unacked, Inc, TInv, WindowsTyped
    <2>3. m = m2 + 1 /\ m2 \in Nat
      BY <1>3, <1>4, <1>5, <2>1
    <2>4. \A s \in Streams : Count(back', SendmesFor(s)) = Count(back, SendmesFor(s))
      <3> SUFFICES ASSUME NEW s \in Streams
                   PROVE  Count(back', SendmesFor(s)) = Count(back, SendmesFor(s))
        OBVIOUS
      <3>1. c \notin SendmesFor(s)
        BY <1>5, <2>1, Constants
      <3> QED BY <1>3, <1>4, <3>1
    <2>5. CircuitCredit'
      <3> DEFINE u == Unacked
                 a == Count(Flow, DataOf(Streams)) + (CircStart - deliver_window)
                 i == Inc
      <3>1. u \in Int /\ a \in Int /\ i \in Nat /\ m2 \in Nat
        BY <2>3, CreditTypes
      <3>2. ~closed => u = a + i * m
        BY DEF CInv, CreditConserved, CircuitCredit
      <3> HIDE DEF u, a, i, m2
      <3>3. ~closed => u = a + i * (m2 + 1)
        BY <2>3, <3>2
      <3>4. ~closed => u - i = a + i * m2
        BY <3>1, <3>3
      <3> QED BY <1>2, <2>1, <2>2, <3>4 DEF CircuitCredit, u, a, i, m2
    <2>6. StreamCredit'
      BY <1>2, <2>1, <2>4 DEF CInv, CreditConserved, StreamCredit
    <2> QED BY <1>6, <2>5, <2>6 DEF CInv, CreditConserved
  <1>9. CASE StreamSendme(c) /\ ~CloseCircuit
    <2>1. /\ c.type = "SENDME" /\ c.s # NoStream /\ closed' = closed /\ ~cc
          /\ stream_window' = [stream_window EXCEPT ![c.s] = @ + StreamInc]
          /\ UNCHANGED <<inflight, package_window>>
      BY <1>9 DEF StreamSendme, windowVars
    <2>2. Unacked' = Unacked
      BY <1>2, <2>1 DEF Unacked
    <2>3. m2 = m
      <3>1. c \notin SendmesFor(NoStream)
        BY <1>5, <2>1
      <3> QED BY <1>3, <1>4, <3>1
    <2>4. CircuitCredit'
      BY <1>2, <2>1, <2>2, <2>3 DEF CInv, CreditConserved, CircuitCredit
    <2>5. ASSUME ~closed, NEW s \in Streams
          PROVE  StreamStart - stream_window'[s] =
                   Count(Flow, DataOf({s})) + (StreamStart - stream_deliver[s])
                     + StreamInc * Count(back', SendmesFor(s))
      <3> DEFINE a == Count(Flow, DataOf({s})) + (StreamStart - stream_deliver[s])
                 n == Count(back, SendmesFor(s))
                 n2 == Count(back', SendmesFor(s))
                 w == stream_window[s]
      <3>1. /\ StreamStart - w = a + StreamInc * n /\ a \in Int /\ n2 \in Nat /\ w \in Int
            /\ StreamStart \in Int /\ StreamInc \in Int
        BY <1>4, <2>1, <2>5, CreditTypes DEF CInv, CreditConserved, StreamCredit
      <3>2. n = n2 + (IF s = c.s THEN 1 ELSE 0)
        BY <1>3, <1>5, <2>1
      <3>3. stream_window'[s] = w + (IF s = c.s THEN StreamInc ELSE 0)
        BY <2>1, <3>1 DEF TInv, StreamsTyped
      <3> HIDE DEF a, n, n2, w
      <3>4. CASE s = c.s
        <4>1. StreamStart - w = a + StreamInc * (n2 + 1)
          BY <3>1, <3>2, <3>4
        <4>2. StreamStart - (w + StreamInc) = a + StreamInc * n2
          BY <3>1, <4>1
        <4> QED BY <3>3, <3>4, <4>2 DEF a, n2
      <3>5. CASE s # c.s
        <4>1. n = n2 /\ stream_window'[s] = w
          BY <3>1, <3>2, <3>3, <3>5
        <4> QED BY <3>1, <4>1 DEF a, n2
      <3> QED BY <3>4, <3>5
    <2>6. StreamCredit'
      BY <1>2, <2>1, <2>5 DEF StreamCredit
    <2> QED BY <1>6, <2>4, <2>6 DEF CInv, CreditConserved
  <1>10. CASE StreamXonXoff(c)
    <2>1. /\ c.type # "SENDME" /\ closed' = closed
          /\ UNCHANGED <<inflight, package_window, stream_window>>
      BY <1>10 DEF StreamXonXoff, windowVars
    <2>2. \A z : Count(back', SendmesFor(z)) = Count(back, SendmesFor(z))
      BY <1>3, <1>4, <1>5, <2>1
    <2>3. Unacked' = Unacked
      BY <1>2, <2>1 DEF Unacked
    <2>4. CircuitCredit'
      BY <1>2, <2>1, <2>2, <2>3 DEF CInv, CreditConserved, CircuitCredit
    <2>5. StreamCredit'
      BY <1>2, <2>1, <2>2 DEF CInv, CreditConserved, StreamCredit
    <2> QED BY <1>6, <2>4, <2>5 DEF CInv, CreditConserved
  <1> QED BY <1>1, <1>7, <1>8, <1>9, <1>10

\* The receiver sends a circuit SENDME, and records the digest for it, exactly
\* when the cell completes an increment.
LEMMA SendmeIsNext ==
    ASSUME TInv, Remainder, deliver_window > 0
    PROVE  /\ CircStart - deliver_window + 1 \in 1..Inc
           /\ SendmeCellIsNext <=> CircStart - deliver_window + 1 = Inc
           /\ (CircStart - (deliver_window - 1)) \div Inc
                = IF CircStart - deliver_window + 1 = Inc THEN 1 ELSE 0
  <1> DEFINE a == CircStart - deliver_window + 1
  <1>1. a \in 1..Inc /\ Inc \in Nat \ {0} /\ CircStart - (deliver_window - 1) = a
    BY CreditTypes DEF Remainder
  <1> DEFINE i == Inc
  <1> HIDE DEF a, i
  <1>2. i \in Nat \ {0} /\ a \in 0..i /\ a # 0
    BY <1>1 DEF i
  <1>3. a % i = 0 <=> a = i
    BY <1>2, SmallMod
  <1>4. a \div i = IF a = i THEN 1 ELSE 0
    BY <1>2, SmallMod
  <1>5. SendmeCellIsNext <=> a % i = 0
    BY <1>1 DEF SendmeCellIsNext, i
  <1>6. (CircStart - (deliver_window - 1)) \div Inc = a \div i
    BY <1>1 DEF i
  <1> QED BY <1>1, <1>3, <1>4, <1>5, <1>6 DEF a, i

\* The first cell on its way is the one the receiver takes.
LEMMA FirstOfFlow ==
    ASSUME TInv, net # <<>>
    PROVE  /\ Flow \in Seq(Cells) /\ Flow # <<>> /\ Flow[1] = Head(net) /\ Head(net) \in Cells
           /\ net' = Tail(net) /\ queue' = queue => Flow' = Tail(Flow)
  <1>1. net \in Seq(Cells) /\ queue \in Seq(Cells) /\ Flow \in Seq(Cells)
    BY FlowTyped
  <1>2. Tail(net) \o queue = Tail(net \o queue) /\ net \o queue # <<>>
        /\ (net \o queue)[1] = Head(net)
    BY <1>1, FlowTail
  <1>3. Head(net) \in Cells
    BY <1>1, SeqTail
  <1> QED BY <1>1, <1>2, <1>3 DEF Flow

\* The SENDMEs that a DATA cell adds.
LEMMA AnswersReplies ==
    ASSUME TInv, NEW s \in Streams, sendme_digest' \in Nat,
           NEW k \in Nat, NEW sk \in Nat, NEW xoff \in Seq(Replies),
           NEW xon \in Seq(Replies), Answers(s, k, sk, xoff, xon)
    PROVE  \A z \in Streams \cup {NoStream} :
             Count(back', SendmesFor(z)) = Count(back, SendmesFor(z))
               + Share(z, NoStream, k) + Share(z, s, sk)
  <1> DEFINE d == sendme_digest'
             q == back
  <1>1. /\ d \in Nat /\ q \in Seq(Replies)
        /\ xoff \in Maybe(Xoff(s)) /\ xon \in Maybe(Xon(s))
        /\ back' = q \o Repeat(k, CircSendme(d)) \o xoff \o xon
                     \o Repeat(sk, StreamSendmeCell(s))
    BY DEF Answers, TInv, ReceiverTyped, Maybe
  <1> HIDE DEF d, q
  <1>2. ASSUME NEW z \in Streams \cup {NoStream}
        PROVE  Count(q \o Repeat(k, CircSendme(d)) \o xoff \o xon
                       \o Repeat(sk, StreamSendmeCell(s)), SendmesFor(z))
                 = Count(q, SendmesFor(z)) + Share(z, NoStream, k) + Share(z, s, sk)
    BY <1>1, AnswersCount
  <1> QED BY <1>1, <1>2 DEF q

\* The credit of one cell moves to the receiver's count, that of a full count
\* to a SENDME.
LEMMA AnswersCredit ==
    ASSUME TInv, CInv, ReceiveData, NEW s, s = Head(net).s,
           NEW k \in Nat, NEW sk \in Nat, NEW xoff \in Seq(Replies),
           NEW xon \in Seq(Replies), Answers(s, k, sk, xoff, xon)
    PROVE  CInv'
  <1>1. /\ net # <<>> /\ s \in Streams /\ net' = Tail(net)
        /\ UNCHANGED <<cc, inflight, package_window, stream_window, queue>>
    BY ReceiveDataSteps DEF streamVars, windowVars, queueVars
  <1>2. /\ Flow \in Seq(Cells) /\ Flow # <<>> /\ Flow[1].s = s /\ Flow[1] \in Cells
        /\ Flow' = Tail(Flow)
    BY <1>1, FirstOfFlow
  <1>3. sendme_digest' \in Nat
    BY NextTInv DEF Next, TInv, QueueTyped
  <1>4. \A z \in Streams \cup {NoStream} :
          Count(back', SendmesFor(z)) = Count(back, SendmesFor(z))
            + Share(z, NoStream, k) + Share(z, s, sk)
    BY <1>1, <1>3, AnswersReplies
  <1>5. /\ Count(Flow, DataOf(Streams)) = Count(Flow', DataOf(Streams)) + 1
        /\ \A t \in Streams :
             Count(Flow, DataOf({t})) = Count(Flow', DataOf({t})) + (IF t = s THEN 1 ELSE 0)
    <2>1. Flow[1] \in DataOf(Streams) /\ \A t \in Streams : Flow[1] \in DataOf({t}) <=> t = s
      BY <1>1, <1>2, DataCell
    <2> QED BY <1>2, <2>1, CountTail
  <1>6. \A C : Count(Flow', C) \in Nat
    <2>1. Tail(Flow) \in Seq(Cells)
      BY <1>2
    <2> QED BY <1>2, <2>1, CountType
  <1>7. closed' = closed /\ Unacked' = Unacked /\ Inc' = Inc
    BY <1>1 DEF Answers, Unacked, Inc
  <1>8. deliver_window' = (deliver_window - 1) + k * Inc
    BY DEF Answers
  <1>9. CircuitCredit'
    <2> DEFINE u == Unacked
               a == Count(Flow', DataOf(Streams))
               b == deliver_window
               i == Inc
               m == Count(back, SendmesFor(NoStream))
    <2>1. /\ u \in Int /\ a \in Nat /\ b \in Nat /\ i \in Nat /\ m \in Nat
          /\ CircStart \in Nat
      BY <1>6, CreditTypes
    <2>2. ~closed => u = (a + 1) + (CircStart - b) + i * m
      BY <1>5 DEF CInv, CreditConserved, CircuitCredit
    <2>3. Count(back', SendmesFor(NoStream)) = m + k
      <3>1. Count(back', SendmesFor(NoStream)) = m + k + 0
        BY <1>1, <1>4, Constants DEF Share
      <3> QED BY <2>1, <3>1
    <2>4. deliver_window' = (b - 1) + k * i /\ Inc' = i /\ Unacked' = u
      BY <1>7, <1>8
    <2> HIDE DEF u, a, b, i, m
    <2>5. ~closed => u = a + (CircStart - ((b - 1) + k * i)) + i * (m + k)
      BY <2>1, <2>2
    <2> QED BY <1>7, <2>3, <2>4, <2>5 DEF CircuitCredit, a
  <1>10. ASSUME ~closed, ~cc, NEW t \in Streams
         PROVE  StreamStart - stream_window[t] =
                  Count(Flow', DataOf({t})) + (StreamStart - stream_deliver'[t])
                    + StreamInc * Count(back', SendmesFor(t))
    <2> DEFINE w == StreamStart - stream_window[t]
               a == Count(Flow', DataOf({t}))
               b == stream_deliver[t]
               m == Count(back, SendmesFor(t))
    <2>1. /\ w \in Int /\ a \in Nat /\ b \in Nat /\ m \in Nat
          /\ StreamStart \in Nat /\ StreamInc \in Nat
      BY <1>6, CreditTypes
    <2>2. w = (a + (IF t = s THEN 1 ELSE 0)) + (StreamStart - b) + StreamInc * m
      BY <1>5, <1>10 DEF CInv, CreditConserved, StreamCredit
    <2>3. Count(back', SendmesFor(t)) = m + 0 + (IF t = s THEN sk ELSE 0)
      BY <1>4, Constants DEF Share
    <2>4. stream_deliver'[t] = IF t = s THEN b - 1 + sk * StreamInc ELSE b
      BY <1>1, <1>10 DEF Answers, TInv, ReceiverTyped
    <2> HIDE DEF w, a, b, m
    <2>5. CASE t = s
      <3>1. w = (a + 1) + (StreamStart - b) + StreamInc * m
        BY <2>2, <2>5
      <3>2. w = a + (StreamStart - (b - 1 + sk * StreamInc)) + StreamInc * (m + sk)
        BY <2>1, <3>1
      <3>3. Count(back', SendmesFor(t)) = m + sk
        BY <2>1, <2>3, <2>5
      <3> QED BY <2>4, <2>5, <3>2, <3>3 DEF w, a
    <2>6. CASE t # s
      <3>1. w = a + (StreamStart - b) + StreamInc * m
        BY <2>1, <2>2, <2>6
      <3>2. Count(back', SendmesFor(t)) = m
        BY <2>1, <2>3, <2>6
      <3> QED BY <2>4, <2>6, <3>1, <3>2 DEF w, a
    <2> QED BY <2>5, <2>6
  <1>11. StreamCredit'
    BY <1>1, <1>7, <1>10 DEF StreamCredit
  <1>12. Remainder'
    <2> DEFINE b == deliver_window
               i == Inc
    <2>1. Remainder /\ b > 0 /\ b \in Nat /\ i \in Nat \ {0} /\ CircStart \in Nat
      BY CreditTypes DEF CInv, Answers
    <2>2. /\ CircStart - b + 1 \in 1..i
          /\ k = IF CircStart - b + 1 = i THEN 1 ELSE 0
      <3>1. /\ CircStart - deliver_window + 1 \in 1..Inc
            /\ (CircStart - (deliver_window - 1)) \div Inc
                 = IF CircStart - deliver_window + 1 = Inc THEN 1 ELSE 0
        BY <2>1, SendmeIsNext, Zenon
      <3>2. k = (CircStart - (deliver_window - 1)) \div Inc
        BY DEF Answers
      <3> QED BY <3>1, <3>2
    <2>3. deliver_window' = (b - 1) + k * i /\ Inc' = i
      BY <1>7, <1>8
    <2> HIDE DEF b, i
    <2>4. CircStart - ((b - 1) + k * i) < i
      BY <2>1, <2>2
    <2> QED BY <2>3, <2>4 DEF Remainder
  <1>13. NoStreamSendmes'
    <2> SUFFICES ASSUME cc, NEW t \in Streams PROVE Count(back', SendmesFor(t)) = 0
      BY <1>1 DEF NoStreamSendmes
    <2>1. Count(back, SendmesFor(t)) = 0 /\ sk = 0
      BY DEF CInv, NoStreamSendmes, Answers
    <2>2. Count(back', SendmesFor(t)) = Count(back, SendmesFor(t)) + 0
                                          + (IF t = s THEN sk ELSE 0)
      BY <1>4, Constants DEF Share
    <2> QED BY <2>1, <2>2
  <1> QED BY <1>9, <1>11, <1>12, <1>13 DEF CInv, CreditConserved

\* A drained outbuf turns a stream's count into SENDMEs.
LEMMA DrainsCredit ==
    ASSUME TInv, CInv, NEW s \in Streams, Drain(s)
    PROVE  CInv'
  <1>1. /\ UNCHANGED <<cc, inflight, package_window, stream_window, queue, net,
                       deliver_window, closed>>
        /\ Flow' = Flow /\ Unacked' = Unacked /\ Inc' = Inc
    BY DrainSteps DEF streamVars, windowVars, queueVars, Flow, Unacked, Inc
  <1>2. PICK k \in Nat, sk \in Nat, xon \in Seq(Replies) : Drains(s, k, sk, xon)
    BY DrainSteps
  <1>3. \A z \in Streams \cup {NoStream} :
          Count(back', SendmesFor(z)) = Count(back, SendmesFor(z))
            + Share(z, NoStream, 0) + Share(z, s, sk)
    <2> DEFINE e == <<>>
               q == back
    <2>3. back \in Seq(Replies) /\ xon \in {<<>>, <<Xon(s)>>}
          /\ back' = back \o xon \o Repeat(sk, StreamSendmeCell(s))
      BY <1>2 DEF Drains, TInv, ReceiverTyped
    <2>4. back \o Repeat(0, CircSendme(0)) \o <<>> = back
      BY <2>3, RepeatNone
    <2>1. /\ 0 \in Nat /\ q \in Seq(Replies) /\ e \in Seq(Replies)
          /\ e \in Maybe(Xoff(s)) /\ xon \in Maybe(Xon(s))
      BY <2>3 DEF Maybe
    <2>5. back' = q \o Repeat(0, CircSendme(0)) \o e \o xon
                    \o Repeat(sk, StreamSendmeCell(s))
      BY <2>3, <2>4
    <2> HIDE DEF e, q
    <2>2. ASSUME NEW z \in Streams \cup {NoStream}
          PROVE  Count(q \o Repeat(0, CircSendme(0)) \o e \o xon
                         \o Repeat(sk, StreamSendmeCell(s)), SendmesFor(z))
                   = Count(q, SendmesFor(z)) + Share(z, NoStream, 0) + Share(z, s, sk)
      BY <2>1, AnswersCount
    <2> QED BY <2>2, <2>5 DEF q
  <1>4. /\ Count(back', SendmesFor(NoStream)) = Count(back, SendmesFor(NoStream))
        /\ \A t \in Streams : Count(back', SendmesFor(t))
             = Count(back, SendmesFor(t)) + (IF t = s THEN sk ELSE 0)
    BY <1>3, Constants, CreditTypes DEF Share
  <1>5. CircuitCredit'
    BY <1>1, <1>4 DEF CInv, CreditConserved, CircuitCredit
  <1>6. ASSUME ~closed, ~cc, NEW t \in Streams
        PROVE  StreamStart - stream_window[t] =
                 Count(Flow, DataOf({t})) + (StreamStart - stream_deliver'[t])
                   + StreamInc * Count(back', SendmesFor(t))
    <2> DEFINE w == StreamStart - stream_window[t]
               a == Count(Flow, DataOf({t}))
               b == stream_deliver[t]
               m == Count(back, SendmesFor(t))
    <2>1. /\ w \in Int /\ a \in Nat /\ b \in Nat /\ m \in Nat
          /\ StreamStart \in Nat /\ StreamInc \in Nat
      BY CreditTypes
    <2>2. w = a + (StreamStart - b) + StreamInc * m
      BY <1>6 DEF CInv, CreditConserved, StreamCredit
    <2>3. Count(back', SendmesFor(t)) = m + (IF t = s THEN sk ELSE 0)
      BY <1>4
    <2>4. stream_deliver'[t] = IF t = s THEN b + sk * StreamInc ELSE b
      BY <1>2 DEF Drains, TInv, ReceiverTyped
    <2> HIDE DEF w, a, b, m
    <2>5. CASE t = s
      <3>1. w = a + (StreamStart - (b + sk * StreamInc)) + StreamInc * (m + sk)
        BY <2>1, <2>2
      <3> QED BY <2>3, <2>4, <2>5, <3>1 DEF w, a
    <2>6. CASE t # s
      BY <2>1, <2>2, <2>3, <2>4, <2>6 DEF w, a
    <2> QED BY <2>5, <2>6
  <1>7. StreamCredit'
    BY <1>1, <1>6 DEF StreamCredit
  <1>8. Remainder'
    BY <1>1 DEF CInv, Remainder
  <1>9. NoStreamSendmes'
    <2> SUFFICES ASSUME cc, NEW t \in Streams PROVE Count(back', SendmesFor(t)) = 0
      BY <1>1 DEF NoStreamSendmes
    <2>1. Count(back, SendmesFor(t)) = 0 /\ sk = 0
      BY <1>2 DEF CInv, NoStreamSendmes, Drains
    <2> QED BY <1>4, <2>1
  <1> QED BY <1>5, <1>7, <1>8, <1>9 DEF CInv, CreditConserved

\* No step loses or gains credit.
LEMMA NextCInv == TInv /\ CInv /\ [Next]_vars => CInv'
  <1> SUFFICES ASSUME TInv, CInv, [Next]_vars PROVE CInv'
    OBVIOUS
  <1>1. CASE Handler
    <2>1. ASSUME NEW s \in Streams, Packages(s) PROVE CInv'
      BY <2>1, PackagesCredit
    <2>2. CASE UNCHANGED core
      BY <2>2, SameCredit DEF core, windowVars, queueVars, receiverVars, Flow
    <2> QED BY <1>1, <2>1, <2>2, HandlerSteps
  <1>2. CASE SendControl
    <2> DEFINE c == [n |-> sent + 1, s |-> NoStream]
    <2>1. /\ queue' = Append(queue, c) /\ net' = net
          /\ UNCHANGED <<cc, inflight, package_window, stream_window, deliver_window,
                         stream_deliver, back, closed>>
      BY <1>2 DEF SendControl, Enqueue, windowVars, receiverVars
    <2>2. c \in Cells /\ c.s = NoStream
      BY DEF TInv, QueueTyped, Cells
    <2> HIDE DEF c
    <2>3. Flow' = Append(Flow, c)
      BY <2>1, <2>2, FlowTyped, FlowAppend DEF Flow
    <2> QED BY <2>1, <2>2, <2>3, ControlCredit
  <1>3. CASE FlushCell
    <2>1. Flow' = Flow
      BY <1>3, FlowTyped, FlowFlush DEF FlushCell, Flow
    <2> QED BY <1>3, <2>1, SameCredit DEF FlushCell, streamVars, windowVars, receiverVars
  <1>4. CASE ReceiveReply
    BY <1>4, ReplyCredit
  <1>5. CASE ReceiveControl
    <2>1. /\ net # <<>> /\ Head(net).s = NoStream /\ net' = Tail(net) /\ queue' = queue
          /\ UNCHANGED <<cc, inflight, package_window, stream_window, deliver_window,
                         stream_deliver, back, closed>>
      BY <1>5 DEF ReceiveControl, windowVars, queueVars, streamVars
    <2>2. /\ Flow # <<>> /\ Flow[1] = Head(net) /\ Head(net) \in Cells
          /\ Flow' = Tail(Flow)
      BY <2>1, FirstOfFlow
    <2> QED BY <2>1, <2>2, ControlCredit
  <1>6. CASE ReceiveData
    <2>1. CASE Refuses(Head(net).s)
      <3>1. closed' = TRUE /\ UNCHANGED <<cc, deliver_window, back>>
        BY <1>6, <2>1, ReceiveDataSteps DEF Refuses, receiverVars
      <3> QED BY <3>1 DEF CInv, CreditConserved, CircuitCredit, StreamCredit, Remainder,
             NoStreamSendmes, Inc
    <2>2. ASSUME NEW k \in Nat, NEW sk \in Nat, NEW xoff \in Seq(Replies),
                 NEW xon \in Seq(Replies), Answers(Head(net).s, k, sk, xoff, xon)
          PROVE  CInv'
      BY <1>6, <2>2, AnswersCredit
    <2> QED BY <1>6, <2>1, <2>2, ReceiveDataSteps
  <1>7. ASSUME NEW s \in Streams, ReadEvent(s) PROVE CInv'
    BY <1>7, SameCredit DEF ReadEvent, windowVars, queueVars, receiverVars, Flow
  <1>8. ASSUME NEW s \in Streams, Drain(s) PROVE CInv'
    BY <1>8, DrainsCredit
  <1>9. CASE UNCHANGED vars
    BY <1>9, SameCredit DEF vars, streamVars, windowVars, queueVars, receiverVars, Flow
  <1> QED BY <1>1, <1>2, <1>3, <1>4, <1>5, <1>6, <1>7, <1>8, <1>9 DEF Next, Handler

\* However the cells, the SENDMEs and the application's reads interleave, every
\* cell of the window is queued, on its way, counted or acknowledged: the
\* circuit's (inflight or package_window) and every stream's.
THEOREM CreditIsConserved == Spec => []CreditConserved
  <1>1. Init => TInv /\ CInv
    BY InitTInv, InitCInv
  <1>2. TInv /\ CInv /\ [Next]_vars => TInv' /\ CInv'
    BY NextTInv, NextCInv
  <1>3. CInv => CreditConserved
    BY DEF CInv
  <1> QED BY <1>1, <1>2, <1>3, PTL DEF Spec

-----------------------------------------------------------------------------
(* The digests that are recorded are those that come back. *)

\* The parameters for which the two edges choose the same cells.  The code
\* keeps cc_sendme_inc between 1 and 254 and circwindow between 100 and 1000
\* and asks for nothing else.
Regular ==
  /\ SendmeInc \in 2..CircStart /\ CircInc > 1 /\ CircWindow % CircInc = 0

acks == SendmesFor(NoStream)
payload == DataOf(Streams)

\* As many digests as whole increments are unacknowledged.
DigestCount ==
  /\ Len(digests) * Inc <= Unacked /\ Unacked < (Len(digests) + 1) * Inc

\* The first of them are those of the SENDMEs on their way.
SendmesMatch ==
  \A x \in At(back, acks) : digests[Rank(back, acks, x)] = back[x].n

\* The others are those of the cells that will complete an increment.
CellsMatch ==
  \A i \in Count(back, acks) + 1..Len(digests) :
    \E x \in At(Flow, payload) :
      /\ CircStart - deliver_window + Rank(Flow, payload, x) = (i - Count(back, acks)) * Inc
      /\ Flow[x].n = digests[i]

DInv == ~closed /\ DigestCount /\ SendmesMatch /\ CellsMatch

\* circuit_sent_cell_for_sendme is right: the cell it is asked about is the one
\* that completes an increment.
LEMMA RecordsDigest ==
    ASSUME Regular, TInv, CInv, ~closed
    PROVE  SentCellForSendme <=> (Unacked + 1) % Inc = 0
  <1>1. Unacked \in Nat
    <2> DEFINE a == Count(Flow, DataOf(Streams)) + (CircStart - deliver_window)
               i == Inc
               m == Count(back, SendmesFor(NoStream))
    <2>1. a \in Nat /\ i \in Nat /\ m \in Nat
      BY CreditTypes
    <2>2. Unacked = a + i * m
      BY DEF CInv, CreditConserved, CircuitCredit
    <2> HIDE DEF a, i, m
    <2>3. i * m \in Nat
      BY <2>1
    <2> QED BY <2>1, <2>2, <2>3
  <1>2. CASE cc
    <2>1. Unacked = inflight /\ Inc = SendmeInc
      BY <1>2 DEF Unacked, Inc
    <2>2. SendmeInc \in Nat \ {0} /\ 1 \in 0..SendmeInc /\ SendmeInc # 1
      BY Constants DEF Regular
    <2>3. 1 % SendmeInc # 0
      BY <2>2, SmallMod
    <2>4. inflight = 0 => inflight + 1 = 1
      OBVIOUS
    <2> QED BY <1>2, <2>1, <2>3, <2>4 DEF SentCellForSendme
  <1>3. CASE ~cc
    <2>1. Unacked = CircWindow - package_window /\ Inc = CircInc
      BY <1>3 DEF Unacked, Inc
    <2>2. /\ CircInc \in Nat \ {0} /\ 1 \in 0..CircInc /\ CircInc # 1
          /\ CircWindow \in Int /\ CircWindow % CircInc = 0 /\ CircWindow <= CircStart
          /\ package_window \in Int /\ package_window - 1 \in Int /\ CircStart \in Int
      BY Constants DEF Regular, TInv, WindowsTyped
    <2>3. 1 % CircInc # 0
      BY <2>2, SmallMod
    <2>4. (package_window - 1) % CircInc = 0
            <=> (CircWindow - (package_window - 1)) % CircInc = 0
      BY <2>2, ModDifference
    <2>5. CircWindow - (package_window - 1) = Unacked + 1
      BY <2>1, <2>2
    <2>6. package_window = CircStart => Unacked + 1 = 1
      BY <1>1, <2>1, <2>2
    <2> QED BY <1>3, <2>1, <2>3, <2>4, <2>5, <2>6 DEF SentCellForSendme
  <1> QED BY <1>2, <1>3

\* Steps of arithmetic.
LEMMA NextMultiple ==
    ASSUME NEW k \in Nat \ {0}, NEW l \in Nat, NEW u \in Int,
           l * k <= u, u < (l + 1) * k
    PROVE  IF (u + 1) % k = 0 THEN (l + 1) * k = u + 1 /\ u + 1 < (l + 2) * k
           ELSE l * k <= u + 1 /\ u + 1 < (l + 1) * k
  <1>0. l * k \in Int /\ (l + 1) * k \in Int /\ (l + 1) * k = l * k + k
    OBVIOUS
  <1>1. u + 1 <= (l + 1) * k /\ l * k < u + 1
    BY <1>0
  <1>2. CASE u + 1 = (l + 1) * k
    <2>1. (u + 1) % k = 0
      <3> DEFINE r == l + 1
      <3>1. r \in Int /\ u + 1 = r * k
        BY <1>2
      <3> HIDE DEF r
      <3>2. (r * k) % k = 0
        BY <3>1, MultipleMod
      <3> QED BY <3>1, <3>2
    <2>2. (l + 2) * k = (l + 1) * k + k
      OBVIOUS
    <2> QED BY <1>0, <1>2, <2>1, <2>2
  <1>3. CASE u + 1 < (l + 1) * k
    <2>1. (u + 1) % k # 0
      <3> DEFINE a == u + 1
      <3>1. a \in Int /\ l \in Int /\ l * k < a /\ a < (l + 1) * k
        BY <1>1, <1>3
      <3> HIDE DEF a
      <3>2. a % k # 0
        BY <3>1, BetweenMultiples
      <3> QED BY <3>2 DEF a
    <2> QED BY <1>0, <1>1, <1>3, <2>1
  <1> QED BY <1>0, <1>1, <1>2, <1>3

\* More increments are unacknowledged than SENDMEs are on their way.
LEMMA EnoughDigests ==
    ASSUME TInv, CInv, DInv
    PROVE  /\ Count(back, acks) \in Nat /\ Len(digests) \in Nat
           /\ Count(back, acks) <= Len(digests)
           /\ deliver_window \in 0..CircStart /\ Inc \in Nat \ {0}
           /\ Unacked = Count(Flow, payload) + (CircStart - deliver_window)
                          + Inc * Count(back, acks)
  <1> DEFINE a == Count(Flow, payload) + (CircStart - deliver_window)
             i == Inc
             m == Count(back, acks)
             l == Len(digests)
  <1>1. a \in Nat /\ i \in Nat \ {0} /\ m \in Nat /\ deliver_window \in 0..CircStart
    BY CreditTypes
  <1>2. l \in Nat
    BY DEF TInv, QueueTyped
  <1>3. Unacked = a + i * m
    BY DEF DInv, CInv, CreditConserved, CircuitCredit, acks, payload
  <1>4. Unacked < (l + 1) * i
    BY DEF DInv, DigestCount
  <1> HIDE DEF a, i, m, l
  <1>5. m <= l
    <2>1. a + i * m < (l + 1) * i
      BY <1>3, <1>4
    <2>2. m * i < (l + 1) * i
      BY <1>1, <1>2, <2>1
    <2> QED BY <1>1, <1>2, <2>2
  <1> QED BY <1>1, <1>2, <1>3, <1>5 DEF a, i, m, l

\* Nothing changes for the digests if nothing of them changes.
LEMMA SameDigests ==
    ASSUME DInv, UNCHANGED <<cc, inflight, package_window, deliver_window, digests,
                             back, closed>>, Flow' = Flow
    PROVE  DInv'
  <1>1. Unacked' = Unacked /\ Inc' = Inc
    BY DEF Unacked, Inc
  <1>2. acks' = acks /\ payload' = payload
    BY DEF acks, payload
  <1>3. DigestCount'
    BY <1>1 DEF DInv, DigestCount
  <1>4. SendmesMatch'
    BY <1>2 DEF DInv, SendmesMatch
  <1>5. CellsMatch'
    BY <1>1, <1>2 DEF DInv, CellsMatch
  <1> QED BY <1>3, <1>4, <1>5 DEF DInv

\* A cell that is packaged: its digest is recorded if it completes an increment.
LEMMA PackagesDigest ==
    ASSUME Regular, TInv, CInv, DInv, NEW s \in Streams, Packages(s)
    PROVE  DInv'
  <1> DEFINE c == [n |-> sent + 1, s |-> s]
             l == Len(digests)
             b == Count(back, acks)
             k == Inc
             u == Unacked
             w == CircStart - deliver_window
             rec == (u + 1) % k = 0
  <1>1. /\ queue' = Append(queue, c) /\ net' = net
        /\ UNCHANGED <<cc, deliver_window, back, closed>>
        /\ digests' = IF SentCellForSendme THEN Append(digests, sent + 1) ELSE digests
    BY DEF Packages, PackageCell, Enqueue, receiverVars
  <1>2. c \in Cells /\ c.s = s /\ c.n = sent + 1
    BY DEF TInv, QueueTyped, Cells
  <1>3. c \in payload
    BY <1>2, DataCell DEF payload
  <1> HIDE DEF c
  <1>4. Flow' = Append(Flow, c) /\ Flow \in Seq(Cells)
    BY <1>1, <1>2, FlowTyped, FlowAppend DEF Flow
  <1>5. u \in Int /\ Unacked' = u + 1 /\ Inc' = k
    BY <1>1, CreditTypes, Constants DEF Unacked, Inc, TInv, WindowsTyped, Packages, PackageCell
  <1>6. /\ b \in Nat /\ l \in Nat /\ b <= l /\ w \in Nat /\ k \in Nat \ {0}
        /\ u = Count(Flow, payload) + w + k * b
    BY EnoughDigests, CreditTypes
  <1>7. digests' = IF rec THEN Append(digests, sent + 1) ELSE digests
    BY <1>1, RecordsDigest DEF DInv
  <1>8. digests \in Seq(1..sent) /\ sent \in Nat
    BY DEF TInv, QueueTyped
  <1>9. /\ Len(digests') = IF rec THEN l + 1 ELSE l
        /\ \A i \in 1..l : digests'[i] = digests[i]
        /\ rec => digests'[l + 1] = sent + 1
    BY <1>7, <1>8
  <1>10. acks' = acks /\ payload' = payload /\ back' = back
    BY <1>1 DEF acks, payload
  <1>11. l * k <= u /\ u < (l + 1) * k
    BY DEF DInv, DigestCount
  <1> HIDE DEF l, b, k, u, w, rec
  <1>12. IF rec THEN (l + 1) * k = u + 1 /\ u + 1 < (l + 2) * k
         ELSE l * k <= u + 1 /\ u + 1 < (l + 1) * k
    BY <1>5, <1>6, <1>11, NextMultiple DEF rec
  <1>13. DigestCount'
    <2>1. CASE rec
      <3>1. Len(digests') = l + 1 /\ (l + 1) + 1 = l + 2
        BY <1>6, <1>9, <2>1
      <3>2. (l + 1) * k <= u + 1 /\ u + 1 < (l + 2) * k
        BY <1>5, <1>6, <1>12, <2>1
      <3> QED BY <1>5, <3>1, <3>2 DEF DigestCount
    <2>2. CASE ~rec
      BY <1>5, <1>9, <1>12, <2>2 DEF DigestCount
    <2> QED BY <2>1, <2>2
  <1>14. SendmesMatch'
    <2> SUFFICES ASSUME NEW x \in At(back, acks)
                 PROVE  digests'[Rank(back, acks, x)] = back[x].n
      BY <1>10 DEF SendmesMatch
    <2>1. Rank(back, acks, x) \in 1..b
      BY RankRange DEF TInv, ReceiverTyped, b
    <2>2. Rank(back, acks, x) \in 1..l
      BY <1>6, <2>1
    <2>3. digests[Rank(back, acks, x)] = back[x].n
      BY DEF DInv, SendmesMatch
    <2> QED BY <1>9, <2>2, <2>3
  <1>15. \A x \in At(Flow, payload) :
           /\ x \in At(Flow', payload) /\ Flow'[x] = Flow[x]
           /\ Rank(Flow', payload, x) = Rank(Flow, payload, x)
    <2> SUFFICES ASSUME NEW x \in At(Flow, payload)
                 PROVE  /\ x \in At(Flow', payload) /\ Flow'[x] = Flow[x]
                        /\ Rank(Flow', payload, x) = Rank(Flow, payload, x)
      OBVIOUS
    <2>1. x \in 1..Len(Flow) /\ Flow[x] \in payload
      BY <1>4 DEF At
    <2>2. Rank(Flow', payload, x) = Rank(Flow, payload, x)
      BY <1>2, <1>4, <2>1, RankAppend
    <2>3. Flow'[x] = Flow[x] /\ x \in DOMAIN Flow'
      BY <1>2, <1>4, <2>1
    <2> QED BY <2>1, <2>2, <2>3 DEF At
  <1>16. ASSUME NEW i \in b + 1..Len(digests')
         PROVE  \E x \in At(Flow', payload) :
                  /\ w + Rank(Flow', payload, x) = (i - b) * k
                  /\ Flow'[x].n = digests'[i]
    <2>1. CASE i \in b + 1..l
      <3>1. PICK x \in At(Flow, payload) :
              w + Rank(Flow, payload, x) = (i - b) * k /\ Flow[x].n = digests[i]
        BY <2>1 DEF DInv, CellsMatch, l, b, w, k
      <3>2. digests'[i] = digests[i]
        BY <1>6, <1>9, <2>1
      <3> QED BY <1>15, <3>1, <3>2
    <2>2. CASE i \notin b + 1..l
      <3>1. rec /\ i = l + 1
        BY <1>6, <1>9, <2>2
      <3> DEFINE x == Len(Flow) + 1
      <3>2. x \in At(Flow', payload) /\ Flow'[x] = c /\ x \in Int /\ x >= Len(Flow')
            /\ Flow' \in Seq(Cells)
        BY <1>2, <1>3, <1>4 DEF At
      <3> HIDE DEF x
      <3>3. Rank(Flow', payload, x) = Count(Flow', payload)
        BY <3>2, RankAll
      <3>4. Count(Flow', payload) = Count(Flow, payload) + 1
        BY <1>2, <1>3, <1>4, CountAppend
      <3>5. Count(Flow, payload) \in Nat
        BY <1>4, CountType
      <3> DEFINE f == Count(Flow, payload)
      <3> HIDE DEF f
      <3>6. /\ f \in Nat /\ u = f + w + k * b /\ (l + 1) * k = u + 1
        BY <1>6, <1>12, <3>1, <3>5 DEF f
      <3>7. w + (f + 1) = ((l + 1) - b) * k
        BY <1>6, <3>6
      <3> QED BY <1>2, <1>9, <3>1, <3>2, <3>3, <3>4, <3>7 DEF f
    <2> QED BY <2>1, <2>2
  <1>17. CellsMatch'
    BY <1>1, <1>5, <1>10, <1>16 DEF CellsMatch, b, w
  <1> QED BY <1>1, <1>13, <1>14, <1>17 DEF DInv

\* The cells that complete an increment do not change with the others.
LEMMA KeepsCells ==
    ASSUME DInv,
           UNCHANGED <<cc, inflight, package_window, deliver_window, digests, back, closed>>,
           \A x \in At(Flow, payload) : \E y \in At(Flow', payload) :
             /\ Flow'[y] = Flow[x]
             /\ Rank(Flow', payload, y) = Rank(Flow, payload, x)
    PROVE  DInv'
  <1>1. Unacked' = Unacked /\ Inc' = Inc
    BY DEF Unacked, Inc
  <1>2. acks' = acks /\ payload' = payload
    BY DEF acks, payload
  <1>3. DigestCount'
    BY <1>1 DEF DInv, DigestCount
  <1>4. SendmesMatch'
    BY <1>2 DEF DInv, SendmesMatch
  <1>5. ASSUME NEW i \in Count(back, acks) + 1..Len(digests)
        PROVE  \E y \in At(Flow', payload) :
                 /\ CircStart - deliver_window + Rank(Flow', payload, y)
                      = (i - Count(back, acks)) * Inc
                 /\ Flow'[y].n = digests[i]
    <2>1. PICK x \in At(Flow, payload) :
            /\ CircStart - deliver_window + Rank(Flow, payload, x)
                 = (i - Count(back, acks)) * Inc
            /\ Flow[x].n = digests[i]
      BY DEF DInv, CellsMatch
    <2>2. PICK y \in At(Flow', payload) :
            /\ Flow'[y] = Flow[x]
            /\ Rank(Flow', payload, y) = Rank(Flow, payload, x)
      OBVIOUS
    <2> QED BY <2>1, <2>2
  <1>6. CellsMatch'
    BY <1>1, <1>2, <1>5 DEF CellsMatch
  <1> QED BY <1>3, <1>4, <1>6 DEF DInv

\* A cell of the circuit itself completes no increment.
LEMMA ControlDigest ==
    ASSUME TInv, DInv, NEW c \in Cells, c.s = NoStream,
           Flow' = Append(Flow, c) \/ (Flow' = Tail(Flow) /\ Flow # <<>> /\ Flow[1] = c),
           UNCHANGED <<cc, inflight, package_window, deliver_window, digests, back, closed>>
    PROVE  DInv'
  <1>1. c \notin payload
    BY DataCell, Constants DEF payload
  <1>2. Flow \in Seq(Cells)
    BY FlowTyped
  <1>3. ASSUME NEW x \in At(Flow, payload)
        PROVE  \E y \in At(Flow', payload) :
                 /\ Flow'[y] = Flow[x]
                 /\ Rank(Flow', payload, y) = Rank(Flow, payload, x)
    <2>1. x \in 1..Len(Flow) /\ Flow[x] \in payload
      BY <1>2 DEF At
    <2>2. CASE Flow' = Append(Flow, c)
      <3>1. Rank(Flow', payload, x) = Rank(Flow, payload, x)
        BY <1>2, <2>1, <2>2, RankAppend
      <3>2. Flow'[x] = Flow[x] /\ x \in At(Flow', payload)
        BY <1>2, <2>1, <2>2 DEF At
      <3> QED BY <3>1, <3>2
    <2>3. CASE Flow' = Tail(Flow) /\ Flow # <<>> /\ Flow[1] = c
      <3> DEFINE y == x - 1
      <3>1. x # 1
        BY <1>1, <2>1, <2>3
      <3>2. y \in Int /\ y + 1 = x /\ y \in At(Flow', payload) /\ Flow'[y] = Flow[x]
        BY <1>2, <2>1, <2>3, <3>1 DEF At
      <3> HIDE DEF y
      <3>3. Rank(Flow, payload, y + 1) = Rank(Tail(Flow), payload, y) + 0
        BY <1>1, <1>2, <2>3, <3>2, RankTail
      <3>4. Rank(Flow', payload, y) \in Nat
        <4>1. Flow' \in Seq(Cells)
          BY <1>2, <2>3
        <4> QED BY <4>1, AtFinite
      <3>5. Rank(Flow', payload, y) = Rank(Flow, payload, x)
        <4> DEFINE r == Rank(Flow', payload, y)
        <4>1. Rank(Flow, payload, x) = r + 0 /\ r \in Nat
          BY <2>3, <3>2, <3>3, <3>4
        <4> HIDE DEF r
        <4>2. r + 0 = r
          BY <4>1
        <4> QED BY <4>1, <4>2 DEF r
      <3> QED BY <3>2, <3>5
    <2> QED BY <2>2, <2>3
  <1> QED BY <1>3, KeepsCells

\* Taking a reply that is no circuit SENDME changes no rank of one.
LEMMA ReplyRanks ==
    ASSUME NEW q \in Seq(Replies), q # <<>>, NEW C, NEW x \in At(Tail(q), C)
    PROVE  /\ x + 1 \in At(q, C) /\ q[x + 1] = Tail(q)[x]
           /\ Rank(q, C, x + 1) = Rank(Tail(q), C, x) + (IF q[1] \in C THEN 1 ELSE 0)
           /\ Rank(Tail(q), C, x) \in Nat
  <1>1. Tail(q) \in Seq(Replies) /\ Len(Tail(q)) = Len(q) - 1 /\ Len(q) \in Nat
        /\ \A i \in 1..Len(q) - 1 : Tail(q)[i] = q[i + 1]
    OBVIOUS
  <1>2. x \in 1..Len(q) - 1 /\ Tail(q)[x] \in C
    BY <1>1 DEF At
  <1>3. x + 1 \in At(q, C) /\ q[x + 1] = Tail(q)[x]
    BY <1>1, <1>2 DEF At
  <1>4. x \in Int /\ x >= 0
    BY <1>2
  <1>5. Rank(q, C, x + 1) = Rank(Tail(q), C, x) + (IF q[1] \in C THEN 1 ELSE 0)
    BY <1>4, RankTail
  <1>6. Rank(Tail(q), C, x) \in Nat
    BY <1>1, AtFinite
  <1> QED BY <1>3, <1>5, <1>6

\* A SENDME finds its digest first in the list, and its window open.
LEMMA ReplyOpen ==
    ASSUME TInv, CInv, DInv, ReceiveReply
    PROVE  ~CloseCircuit
  <1> DEFINE c == back[1]
  <1>1. /\ back # <<>> /\ back' = Tail(back) /\ c \in Replies
        /\ CircuitSendme(c) \/ StreamSendme(c) \/ StreamXonXoff(c)
    BY ReplySteps
  <1>2. back \in Seq(Replies) /\ \A C : 1 \in At(back, C) <=> c \in C
    BY <1>1 DEF TInv, ReceiverTyped, At
  <1>3. \A z : c \in SendmesFor(z) <=> c.type = "SENDME" /\ c.s = z
    BY <1>1, SendmeCell
  <1>4. \A C : c \in C => Count(back, C) >= 1
    <2> SUFFICES ASSUME NEW C, c \in C PROVE Count(back, C) >= 1
      OBVIOUS
    <2>1. Rank(back, C, 1) \in 1..Count(back, C) /\ Count(back, C) \in Nat
      BY <1>2, RankRange, RepliesCount
    <2> QED BY <2>1
  <1>5. CASE CircuitSendme(c)
    <2>1. c \in acks /\ 1 \in At(back, acks)
      BY <1>2, <1>3, <1>5 DEF CircuitSendme, acks
    <2>2. Rank(back, acks, 1) = 1
      BY <1>2, <2>1, RankFirst
    <2>3. digests[1] = c.n
      BY <2>1, <2>2 DEF DInv, SendmesMatch
    <2>4. Len(digests) >= 1
      BY <1>4, <2>1, EnoughDigests
    <2>5. SendmeIsValid(c)
      BY <2>3, <2>4 DEF SendmeIsValid, TInv, QueueTyped
    <2>6. ~cc => package_window + CircInc <= CircStart
      <3> SUFFICES ASSUME ~cc PROVE package_window + CircInc <= CircStart
        OBVIOUS
      <3> DEFINE a == Count(Flow, payload) + (CircStart - deliver_window)
                 m == Count(back, acks)
      <3>1. CircWindow - package_window = a + CircInc * m
        BY EnoughDigests DEF Unacked, Inc
      <3>2. a \in Nat /\ m \in Nat /\ m >= 1
        BY <1>4, <2>1, CreditTypes
      <3> HIDE DEF a, m
      <3>3. CircInc * m >= CircInc /\ CircInc * m \in Nat
        BY <3>2, Constants
      <3> QED BY <3>1, <3>2, <3>3, Constants DEF TInv, WindowsTyped
    <2>7. digests' = Tail(digests) /\ closed' = closed
      BY <1>5, <2>5, <2>6, Constants DEF CircuitSendme, TInv, WindowsTyped
    <2> QED BY <2>7 DEF CloseCircuit, DInv
  <1>6. CASE StreamSendme(c)
    <2>1. c.type = "SENDME" /\ c.s \in Streams
      BY <1>1, <1>6 DEF StreamSendme, Replies
    <2> DEFINE m == Count(back, SendmesFor(c.s))
               a == Count(Flow, DataOf({c.s})) + (StreamStart - stream_deliver[c.s])
    <2>2. m \in Nat /\ m >= 1 /\ a \in Nat /\ stream_window[c.s] \in Nat
      BY <1>3, <1>4, <2>1, CreditTypes
    <2>3. ~cc
      BY <2>1, <2>2 DEF CInv, NoStreamSendmes
    <2>4. StreamStart - stream_window[c.s] = a + StreamInc * m
      BY <2>1, <2>3 DEF CInv, CreditConserved, StreamCredit, DInv
    <2> HIDE DEF a, m
    <2>5. StreamInc * m >= StreamInc /\ StreamInc * m \in Nat
      BY <2>2, Constants
    <2>6. ~(stream_window[c.s] + StreamInc > StreamStart)
      BY <2>2, <2>4, <2>5, Constants
    <2>7. closed' = closed
      BY <1>6, <2>3, <2>6 DEF StreamSendme
    <2> QED BY <2>7 DEF CloseCircuit, DInv
  <1>7. CASE StreamXonXoff(c)
    BY <1>7 DEF StreamXonXoff, CloseCircuit, DInv
  <1> QED BY <1>1, <1>5, <1>6, <1>7

\* What a reply changes of the digests and the count they are for.
LEMMA ReplyEffect ==
    ASSUME TInv, CInv, DInv, ReceiveReply
    PROVE  /\ back # <<>> /\ back' = Tail(back)
           /\ UNCHANGED <<cc, deliver_window, closed>> /\ Flow' = Flow /\ Inc' = Inc
           /\ \/ /\ back[1] \in acks /\ digests' = Tail(digests)
                 /\ Unacked' = Unacked - Inc
              \/ /\ back[1] \notin acks /\ digests' = digests
                 /\ Unacked' = Unacked
  <1> DEFINE c == back[1]
  <1>1. /\ back # <<>> /\ back' = Tail(back) /\ c \in Replies
        /\ CircuitSendme(c) \/ StreamSendme(c) \/ StreamXonXoff(c)
    BY ReplySteps
  <1>2. ~CloseCircuit
    BY ReplyOpen
  <1>3. c \in acks <=> c.type = "SENDME" /\ c.s = NoStream
    BY <1>1, SendmeCell DEF acks
  <1> HIDE DEF c
  <1>4. CASE CircuitSendme(c)
    <2>1. /\ UNCHANGED <<cc, deliver_window, closed, net, queue>>
          /\ digests' = Tail(digests)
          /\ IF cc THEN AckedVegas ELSE AckedWindow
      BY <1>2, <1>4 DEF CircuitSendme, queueVars, receiverVars
    <2>2. Flow' = Flow /\ Inc' = Inc
      BY <2>1 DEF Flow, Inc
    <2>3. Unacked' = Unacked - Inc
      BY <2>1, Constants DEF Unacked, Inc, AckedVegas, AckedWindow, TInv, WindowsTyped
    <2> QED BY <1>1, <1>3, <1>4, <2>1, <2>2, <2>3 DEF CircuitSendme, c
  <1>5. CASE StreamSendme(c) \/ StreamXonXoff(c)
    <2>1. /\ UNCHANGED <<cc, deliver_window, closed, net, queue, digests,
                         inflight, package_window>>
          /\ ~(c.type = "SENDME" /\ c.s = NoStream)
      BY <1>2, <1>5 DEF StreamSendme, StreamXonXoff, queueVars, receiverVars, windowVars
    <2>2. Flow' = Flow /\ Inc' = Inc /\ Unacked' = Unacked
      BY <2>1 DEF Flow, Inc, Unacked
    <2> QED BY <1>1, <1>3, <2>1, <2>2 DEF c
  <1> QED BY <1>1, <1>4, <1>5

\* A SENDME takes its digest and its increment with it.
LEMMA ReplyDigest ==
    ASSUME TInv, CInv, DInv, ReceiveReply
    PROVE  DInv'
  <1> DEFINE e == IF back[1] \in acks THEN 1 ELSE 0
             l == Len(digests)
             b == Count(back, acks)
             k == Inc
             u == Unacked
             w == CircStart - deliver_window
  <1>1. /\ back # <<>> /\ back' = Tail(back) /\ Tail(back) \in Seq(Replies)
        /\ back \in Seq(Replies)
        /\ UNCHANGED <<cc, deliver_window, closed>> /\ Flow' = Flow /\ Inc' = k
        /\ acks' = acks /\ payload' = payload
    BY ReplyEffect, SeqTail DEF TInv, ReceiverTyped, acks, payload
  <1>2. e \in {0, 1} /\ b \in Nat /\ l \in Nat /\ b <= l /\ k \in Nat /\ u \in Int
    BY EnoughDigests, CreditTypes
  <1>3. Count(Tail(back), acks) \in Nat /\ b = Count(Tail(back), acks) + e
    BY <1>1, CountTail, RepliesCount
  <1>4. /\ Len(digests') = l - e /\ \A i \in 1..l - e : digests'[i] = digests[i + e]
        /\ Unacked' = u - e * k
    <2>1. digests \in Seq(1..sent) /\ digests # <<>> <=> l # 0
      BY DEF TInv, QueueTyped
    <2>2. CASE back[1] \in acks
      <3>1. digests' = Tail(digests) /\ Unacked' = u - k /\ e = 1
        BY <2>2, ReplyEffect
      <3>2. l >= 1
        BY <1>2, <1>3, <3>1
      <3> HIDE DEF e, u, k
      <3>3. Len(digests') = l - 1 /\ \A i \in 1..l - 1 : digests'[i] = digests[i + 1]
        BY <2>1, <3>1, <3>2
      <3> QED BY <1>2, <3>1, <3>3
    <2>3. CASE back[1] \notin acks
      <3>1. digests' = digests /\ Unacked' = u /\ e = 0
        BY <2>3, ReplyEffect
      <3> HIDE DEF e, u, k
      <3>2. \A i \in 1..l - 0 : i + 0 = i
        BY <1>2
      <3> QED BY <1>2, <3>1, <3>2
    <2> QED BY <2>2, <2>3
  <1>5. l * k <= u /\ u < (l + 1) * k
    BY DEF DInv, DigestCount
  <1>6. ASSUME NEW x \in At(Tail(back), acks)
        PROVE  digests'[Rank(Tail(back), acks, x)] = Tail(back)[x].n
    <2> DEFINE r == Rank(Tail(back), acks, x)
    <2>1. /\ x + 1 \in At(back, acks) /\ back[x + 1] = Tail(back)[x]
          /\ Rank(back, acks, x + 1) = r + e
      <3> DEFINE q == back
                 C == acks
      <3>1. q \in Seq(Replies) /\ q # <<>> /\ x \in At(Tail(q), C)
        BY <1>1
      <3> HIDE DEF q, C
      <3>2. /\ x + 1 \in At(q, C) /\ q[x + 1] = Tail(q)[x]
            /\ Rank(q, C, x + 1) = Rank(Tail(q), C, x) + (IF q[1] \in C THEN 1 ELSE 0)
        BY <3>1, ReplyRanks
      <3> QED BY <3>2, Zenon DEF q, C
    <2>2. r \in 1..Count(Tail(back), acks)
      BY <1>1, RankRange
    <2>3. digests[r + e] = Tail(back)[x].n
      BY <2>1 DEF DInv, SendmesMatch
    <2> HIDE DEF r, e, l
    <2>4. r \in 1..l - e
      BY <1>2, <1>3, <2>2
    <2> QED BY <1>4, <2>3, <2>4 DEF r
  <1>7. ASSUME NEW i \in Count(Tail(back), acks) + 1..l - e
        PROVE  \E x \in At(Flow, payload) :
                 /\ w + Rank(Flow, payload, x) = (i - Count(Tail(back), acks)) * k
                 /\ Flow[x].n = digests'[i]
    <2> DEFINE m == Count(Tail(back), acks)
    <2>0. i \in m + 1..l - e /\ m \in Nat /\ b = m + e
      BY <1>3
    <2> HIDE DEF m, e, l, b
    <2>1. i + e \in b + 1..l /\ (i + e) - b = i - m /\ i \in 1..l - e
      BY <1>2, <2>0
    <2>2. PICK x \in At(Flow, payload) :
            w + Rank(Flow, payload, x) = ((i + e) - b) * k /\ Flow[x].n = digests[i + e]
      BY <2>1 DEF DInv, CellsMatch, l, b
    <2> QED BY <1>4, <2>1, <2>2 DEF m
  <1>8. SendmesMatch'
    BY <1>1, <1>6 DEF SendmesMatch
  <1>9. CellsMatch'
    BY <1>1, <1>4, <1>7 DEF CellsMatch
  <1>10. DigestCount'
    <2> HIDE DEF e, l, b, k, u
    <2>1. (l - e) * k <= u - e * k /\ u - e * k < ((l - e) + 1) * k
      <3>1. CASE e = 0
        <4>1. l - e = l /\ u - e * k = u
          BY <1>2, <3>1
        <4> QED BY <1>5, <4>1
      <3>2. CASE e = 1
        <4>1. (l - 1) * k = l * k - k /\ ((l - 1) + 1) * k = l * k /\ (l + 1) * k = l * k + k
              /\ e * k = k /\ l * k \in Int
          BY <1>2, <3>2
        <4> QED BY <1>2, <1>5, <3>2, <4>1
      <3> QED BY <1>2, <3>1, <3>2
    <2> QED BY <1>1, <1>4, <2>1 DEF DigestCount
  <1> QED BY <1>1, <1>8, <1>9, <1>10 DEF DInv

\* Answers that hold none of C change no rank.
SameRanks(p, q, C) ==
  /\ At(q, C) = At(p, C)
  /\ \A x \in At(p, C) : q[x] = p[x] /\ Rank(q, C, x) = Rank(p, C, x)

\* Replies without one of C keep the ranks.
LEMMA NoneAdded ==
    ASSUME NEW p \in Seq(Replies), NEW r \in Seq(Replies), NEW C, At(r, C) = {}
    PROVE  SameRanks(p, p \o r, C)
  <1>1. /\ Len(p \o r) = Len(p) + Len(r) /\ Len(p) \in Nat /\ Len(r) \in Nat
        /\ p \o r \in Seq(Replies)
        /\ \A i \in 1..Len(p) : (p \o r)[i] = p[i]
        /\ \A i \in Len(p) + 1..Len(p) + Len(r) : (p \o r)[i] = r[i - Len(p)]
    OBVIOUS
  <1>2. \A i \in 1..Len(r) : r[i] \notin C
    BY DEF At
  <1>3. \A i \in Len(p) + 1..Len(p) + Len(r) : (p \o r)[i] \notin C
    <2> SUFFICES ASSUME NEW i \in Len(p) + 1..Len(p) + Len(r) PROVE (p \o r)[i] \notin C
      OBVIOUS
    <2>1. i - Len(p) \in 1..Len(r)
      BY <1>1
    <2> QED BY <1>1, <1>2, <2>1
  <1>4. DOMAIN (p \o r) = 1..Len(p) + Len(r) /\ DOMAIN p = 1..Len(p)
    BY <1>1
  <1>5. At(p \o r, C) = At(p, C)
    <2>1. \A i \in At(p \o r, C) : i \in At(p, C)
      <3> SUFFICES ASSUME NEW i \in At(p \o r, C) PROVE i \in At(p, C)
        OBVIOUS
      <3>1. i \in 1..Len(p) + Len(r) /\ (p \o r)[i] \in C
        BY <1>4 DEF At
      <3>2. i \in 1..Len(p)
        BY <1>1, <1>3, <3>1
      <3> QED BY <1>1, <1>4, <3>1, <3>2 DEF At
    <2>2. \A i \in At(p, C) : i \in At(p \o r, C)
      BY <1>1, <1>4 DEF At
    <2> QED BY <2>1, <2>2
  <1>6. \A x \in At(p, C) : (p \o r)[x] = p[x]
    BY <1>1, <1>4 DEF At
  <1>7. \A x : Rank(p \o r, C, x) = Rank(p, C, x)
    BY <1>5 DEF Rank
  <1> QED BY <1>5, <1>6, <1>7 DEF SameRanks

\* So do several in a row.
LEMMA RanksChain ==
    ASSUME NEW p, NEW q, NEW r, NEW C, SameRanks(p, q, C), SameRanks(q, r, C)
    PROVE  SameRanks(p, r, C)
  BY DEF SameRanks

\* The circuit SENDMEs of p are those of q and, if k is 1, one more with d.
OneMore(p, q, k, d) ==
  \A x \in At(p, acks) :
    \/ x \in At(q, acks) /\ p[x] = q[x] /\ Rank(p, acks, x) = Rank(q, acks, x)
    \/ k = 1 /\ p[x].n = d /\ Rank(p, acks, x) = Count(q, acks) + 1

\* The receiver's answers to a cell hold one circuit SENDME at most.
LEMMA AnswersRanks ==
    ASSUME NEW q \in Seq(Replies), NEW s \in Streams, NEW d \in Nat, NEW k \in {0, 1},
           NEW sk \in Nat, NEW xoff \in Seq(Replies), NEW xon \in Seq(Replies),
           xoff \in Maybe(Xoff(s)), xon \in Maybe(Xon(s))
    PROVE  OneMore(q \o Repeat(k, CircSendme(d)) \o xoff \o xon
                     \o Repeat(sk, StreamSendmeCell(s)), q, k, d)
  <1> DEFINE circ == Repeat(k, CircSendme(d))
             strm == Repeat(sk, StreamSendmeCell(s))
             C == acks
             c == CircSendme(d)
  <1>1. /\ c \in Replies /\ StreamSendmeCell(s) \in Replies /\ c.n = d
        /\ c \in C /\ StreamSendmeCell(s) \notin C /\ Xoff(s) \notin C /\ Xon(s) \notin C
    BY RepliesTyped, Constants
       DEF SendmesFor, CircSendme, StreamSendmeCell, Xon, Xoff, acks
  <1> HIDE DEF C, c
  <1>2. strm \in Seq(Replies) /\ At(strm, C) = {}
    BY <1>1 DEF Repeat, At
  <1>3. At(xoff, C) = {} /\ At(xon, C) = {}
    BY <1>1 DEF Maybe, At
  <1>4. circ \in Seq(Replies) /\ q \o circ \in Seq(Replies)
        /\ (k = 0 => q \o circ = q) /\ (k = 1 => q \o circ = Append(q, c))
    <2>1. circ = IF k = 0 THEN <<>> ELSE <<c>>
      BY DEF Repeat, c
    <2> HIDE DEF circ
    <2> QED BY <1>1, <2>1
  <1> HIDE DEF circ, strm
  <1> DEFINE p1 == q \o circ
             p2 == p1 \o xoff
             p3 == p2 \o xon
             p4 == p3 \o strm
  <1>5. p1 \in Seq(Replies) /\ p2 \in Seq(Replies) /\ p3 \in Seq(Replies)
    BY <1>4, SeqConcat
  <1>6. SameRanks(p1, p2, C) /\ SameRanks(p2, p3, C) /\ SameRanks(p3, p4, C)
    <2> HIDE DEF p1
    <2>1. SameRanks(p1, p2, C)
      BY <1>3, <1>5, NoneAdded
    <2> HIDE DEF p2
    <2>2. SameRanks(p2, p3, C)
      BY <1>3, <1>5, NoneAdded
    <2> HIDE DEF p3
    <2>3. SameRanks(p3, p4, C)
      BY <1>2, <1>5, NoneAdded
    <2> QED BY <2>1, <2>2, <2>3
  <1>7. SameRanks(p1, p4, C)
    <2> HIDE DEF p1, p2, p3, p4
    <2>1. SameRanks(p1, p3, C)
      BY <1>6, RanksChain
    <2> QED BY <1>6, <2>1, RanksChain
  <1>8. OneMore(p1, q, k, d)
    <2> SUFFICES ASSUME NEW x \in At(p1, C)
                 PROVE  \/ x \in At(q, C) /\ p1[x] = q[x] /\ Rank(p1, C, x) = Rank(q, C, x)
                        \/ k = 1 /\ p1[x].n = d /\ Rank(p1, C, x) = Count(q, C) + 1
      BY DEF OneMore, C
    <2>1. CASE k = 0
      BY <1>4, <2>1
    <2>2. CASE k = 1
      <3>1. p1 = Append(q, c)
        BY <1>4, <2>2
      <3>2. x \in 1..Len(q) + 1 /\ p1[x] \in C /\ Len(p1) = Len(q) + 1
        BY <1>1, <3>1 DEF At
      <3>3. CASE x \in 1..Len(q)
        <4>1. p1[x] = q[x]
          BY <1>1, <3>1, <3>3
        <4>2. Rank(p1, C, x) = Rank(q, C, x)
          BY <1>1, <3>1, <3>3, RankAppend
        <4>3. x \in At(q, C)
          BY <3>2, <3>3, <4>1 DEF At
        <4> QED BY <4>1, <4>2, <4>3
      <3>4. CASE x = Len(q) + 1
        <4>1. p1[x] = c /\ x \in Int /\ x >= Len(p1)
          BY <1>1, <3>1, <3>2, <3>4
        <4> HIDE DEF p1
        <4>2. Rank(p1, C, x) = Count(p1, C)
          BY <1>5, <4>1, RankAll
        <4>3. Count(p1, C) = Count(q, C) + 1
          BY <1>1, <3>1, CountAppend
        <4> QED BY <1>1, <2>2, <4>1, <4>2, <4>3
      <3> QED BY <3>2, <3>3, <3>4
    <2> QED BY <2>1, <2>2
  <1>9. OneMore(p4, q, k, d)
    <2> HIDE DEF p1, p4
    <2> QED BY <1>7, <1>8 DEF OneMore, SameRanks, C
  <1> QED BY <1>9 DEF circ, strm

\* A DATA cell finds its windows open.
LEMMA WindowsOpen ==
    ASSUME Regular, TInv, CInv, DInv, NEW s \in Streams, net # <<>>, Head(net).s = s
    PROVE  deliver_window > 0 /\ (cc \/ stream_deliver[s] > 0)
  <1>1. deliver_window > 0
    <2>1. Inc <= CircStart /\ CircStart - deliver_window < Inc
      BY Constants DEF CInv, Remainder, Inc, Regular
    <2> QED BY <2>1, CreditTypes
  <1>2. ASSUME ~cc PROVE stream_deliver[s] > 0
    <2> DEFINE f == Count(Flow, DataOf({s}))
               m == StreamInc * Count(back, SendmesFor(s))
               b == stream_deliver[s]
    <2>1. StreamStart - stream_window[s] = f + (StreamStart - b) + m
      BY <1>2 DEF CInv, CreditConserved, StreamCredit, DInv
    <2>2. f \in Nat /\ b \in Nat /\ stream_window[s] \in Nat /\ StreamStart \in Nat
      BY CreditTypes
    <2>3. m \in Nat
      <3> DEFINE g == Count(back, SendmesFor(s))
      <3>1. g \in Nat /\ StreamInc \in Nat
        BY CreditTypes
      <3> HIDE DEF g
      <3>2. StreamInc * g \in Nat
        BY <3>1
      <3> QED BY <3>2 DEF g
    <2>4. f >= 1
      <3> DEFINE C == DataOf({s})
      <3>1. Flow \in Seq(Cells) /\ Flow # <<>> /\ Flow[1] \in C
        BY FirstOfFlow, DataCell
      <3> HIDE DEF C
      <3>2. 1 \in At(Flow, C)
        BY <3>1 DEF At
      <3>3. Rank(Flow, C, 1) \in 1..Count(Flow, C) /\ Count(Flow, C) \in Nat
        BY <3>1, <3>2, RankRange, CountType
      <3> QED BY <3>3 DEF C
    <2> HIDE DEF f, m, b
    <2>5. b > 0
      BY <2>1, <2>2, <2>3, <2>4
    <2> QED BY <2>5 DEF b
  <1> QED BY <1>1, <1>2

\* What a DATA cell changes for the digests.
LEMMA AnswersEffect ==
    ASSUME TInv, CInv, DInv, NEW s \in Streams, sendme_digest' \in Nat, net # <<>>,
           NEW k \in Nat, NEW sk \in Nat, NEW xoff \in Seq(Replies),
           NEW xon \in Seq(Replies), Answers(s, k, sk, xoff, xon)
    PROVE  /\ k \in {0, 1} /\ CircStart - deliver_window + 1 \in 1..Inc
           /\ k = 1 <=> CircStart - deliver_window + 1 = Inc
           /\ CircStart - deliver_window' = CircStart - deliver_window + 1 - k * Inc
           /\ k = 1 => sendme_digest' = Flow[1].n
           /\ Count(back', acks) = Count(back, acks) + k
           /\ OneMore(back', back, k, sendme_digest')
  <1>1. /\ CircStart - deliver_window + 1 \in 1..Inc
        /\ SendmeCellIsNext <=> CircStart - deliver_window + 1 = Inc
        /\ (CircStart - (deliver_window - 1)) \div Inc
             = IF CircStart - deliver_window + 1 = Inc THEN 1 ELSE 0
    <2>1. deliver_window > 0 /\ Remainder
      BY DEF Answers, CInv
    <2> QED BY <2>1, SendmeIsNext, Zenon
  <1>2. k = IF CircStart - deliver_window + 1 = Inc THEN 1 ELSE 0
    BY <1>1 DEF Answers
  <1>3. k = 1 => sendme_digest' = Flow[1].n
    <2>1. Flow[1] = Head(net)
      BY FirstOfFlow
    <2>2. sendme_digest' = (IF SendmeCellIsNext THEN Head(net).n ELSE sendme_digest)
      BY DEF Answers
    <2> QED BY <1>1, <1>2, <2>1, <2>2
  <1>4. Count(back', acks) = Count(back, acks) + k
    <2>1. NoStream \in Streams \cup {NoStream} /\ NoStream # s
      BY Constants
    <2>2. Count(back', acks) = Count(back, acks) + k + 0
      BY <2>1, AnswersReplies DEF acks, Share
    <2>3. Count(back, acks) \in Nat
      BY CreditTypes
    <2> QED BY <2>2, <2>3
  <1>5. OneMore(back', back, k, sendme_digest')
    <2> DEFINE d == sendme_digest'
               q == back
    <2>1. /\ d \in Nat /\ q \in Seq(Replies) /\ k \in {0, 1}
          /\ xoff \in Maybe(Xoff(s)) /\ xon \in Maybe(Xon(s))
          /\ back' = q \o Repeat(k, CircSendme(d)) \o xoff \o xon
                       \o Repeat(sk, StreamSendmeCell(s))
      BY <1>2 DEF Answers, TInv, ReceiverTyped, Maybe
    <2> HIDE DEF d, q
    <2>2. OneMore(q \o Repeat(k, CircSendme(d)) \o xoff \o xon
                    \o Repeat(sk, StreamSendmeCell(s)), q, k, d)
      BY <2>1, AnswersRanks
    <2>3. OneMore(back', q, k, d)
      BY <2>1, <2>2
    <2> QED BY <2>3 DEF q, d
  <1>6. CircStart - deliver_window' = CircStart - deliver_window + 1 - k * Inc
    <2> DEFINE b == deliver_window
               i == Inc
    <2>1. b \in Int /\ i \in Int /\ CircStart \in Int
      BY CreditTypes
    <2>2. deliver_window' = (b - 1) + k * i
      BY DEF Answers
    <2> HIDE DEF b, i
    <2>3. k * i \in Int
      BY <2>1
    <2>4. CircStart - deliver_window' = CircStart - b + 1 - k * i
      BY <2>1, <2>2, <2>3
    <2> QED BY <2>4 DEF b, i
  <1> QED BY <1>1, <1>2, <1>3, <1>4, <1>5, <1>6

\* A count of the receiver's that is full: there is a digest for it.
LEMMA DigestOwed ==
    ASSUME NEW i \in Nat \ {0}, NEW w \in Nat, NEW b \in Nat, NEW l \in Nat,
           NEW f \in Nat, f >= 1, w + 1 = i, f + w + i * b < (l + 1) * i
    PROVE  b + 1 \in b + 1..l
  <1>1. i * b \in Nat /\ (l + 1) * i \in Nat /\ (b + 1) * i = i * b + i
    OBVIOUS
  <1>2. (b + 1) * i < (l + 1) * i
    BY <1>1
  <1>3. b + 1 < l + 1
    BY <1>2
  <1> QED BY <1>3

\* The cell of rank r that completes the increment of digest j is not the first
\* one on its way, and has one less before it when that one has been counted.
Completes(i, w, b, k, j, r) ==
  /\ i \in Nat \ {0} /\ w \in Nat /\ b \in Nat /\ j \in Nat /\ r \in Nat
  /\ k \in {0, 1} /\ w + 1 <= i /\ (k = 1 <=> w + 1 = i)
  /\ b + k < j /\ w + r = (j - b) * i

\* Then it is not the first, and has one less before it.
LEMMA CellCounted ==
    ASSUME NEW i, NEW w, NEW b, NEW k, NEW j, NEW r, Completes(i, w, b, k, j, r)
    PROVE  /\ r # 1
           /\ w + 1 - k * i + (r - 1) = (j - (b + k)) * i
  <1> USE DEF Completes
  <1> DEFINE g == j - b
  <1>1. g \in Nat /\ g >= k + 1 /\ w + r = g * i /\ j - (b + k) = g - k
    OBVIOUS
  <1> HIDE DEF g
  <1>2. CASE k = 0
    <2>1. w + 1 < i /\ g >= 1 /\ g * i \in Nat
      BY <1>1, <1>2
    <2>2. g * i >= i
      BY <1>1, <2>1
    <2>3. r # 1
      BY <1>1, <2>1, <2>2
    <2>4. w + 1 - k * i + (r - 1) = (g - k) * i
      BY <1>1, <1>2
    <2> QED BY <1>1, <2>3, <2>4
  <1>3. CASE k = 1
    <2>1. w + 1 = i /\ g >= 2 /\ g * i \in Nat
      BY <1>1, <1>3
    <2>2. g * i >= 2 * i
      BY <1>1, <2>1
    <2>3. r # 1
      BY <1>1, <2>1, <2>2
    <2>4. (g - 1) * i = g * i - i /\ 1 * i = i
      BY <1>1
    <2>5. w + 1 - i + (r - 1) = g * i - i
      BY <1>1, <2>1
    <2> QED BY <1>1, <1>3, <2>3, <2>4, <2>5
  <1> QED BY <1>2, <1>3

\* The cell that completes an increment is the one whose digest is recorded
\* after those of the SENDMEs on their way.
LEMMA AnswersDigest ==
    ASSUME TInv, CInv, DInv, NEW s \in Streams, sendme_digest' \in Nat, net # <<>>,
           Head(net) \in payload, net' = Tail(net),
           UNCHANGED <<cc, inflight, package_window, queue, digests>>,
           NEW k \in Nat, NEW sk \in Nat, NEW xoff \in Seq(Replies),
           NEW xon \in Seq(Replies), Answers(s, k, sk, xoff, xon)
    PROVE  DInv'
  <1> DEFINE l == Len(digests)
             b == Count(back, acks)
             i == Inc
             w == CircStart - deliver_window
             w2 == CircStart - deliver_window'
             u == Unacked
             f == Count(Flow, payload)
  <1>1. /\ k \in {0, 1} /\ w + 1 \in 1..i /\ (k = 1 <=> w + 1 = i)
        /\ w2 = w + 1 - k * i
        /\ k = 1 => sendme_digest' = Flow[1].n
        /\ Count(back', acks) = b + k
        /\ OneMore(back', back, k, sendme_digest')
    BY AnswersEffect
  <1>2. /\ Flow \in Seq(Cells) /\ Flow # <<>> /\ Flow[1] \in payload /\ Flow' = Tail(Flow)
    BY FirstOfFlow
  <1>3. closed' = closed /\ Unacked' = u /\ Inc' = i /\ acks' = acks /\ payload' = payload
    BY DEF Answers, Unacked, Inc, acks, payload
  <1>4. /\ b \in Nat /\ l \in Nat /\ b <= l /\ w \in Nat /\ i \in Nat \ {0}
        /\ u = f + w + i * b /\ f \in Nat
    <2>1. /\ b \in Nat /\ l \in Nat /\ b <= l /\ i \in Nat \ {0} /\ u = f + w + i * b
      BY EnoughDigests
    <2>2. f \in Nat /\ w \in Nat
      BY CreditTypes
    <2> QED BY <2>1, <2>2
  <1>5. 1 \in At(Flow, payload)
    BY <1>2 DEF At
  <1>6. \A x \in At(Flow, payload) : Rank(Flow, payload, x) = 1 <=> x = 1
    BY <1>2, <1>5, RankFirst
  <1>7. \A x \in At(Flow, payload) : Rank(Flow, payload, x) \in 1..f
    BY <1>2, RankRange
  <1>8. DigestCount'
    BY <1>3 DEF DInv, DigestCount
  <1>9. k = 1 => b + 1 \in b + 1..l /\ digests[b + 1] = sendme_digest'
    <2> SUFFICES ASSUME k = 1 PROVE b + 1 \in b + 1..l /\ digests[b + 1] = sendme_digest'
      OBVIOUS
    <2>1. b + 1 \in b + 1..l
      <3>1. u < (l + 1) * i
        BY DEF DInv, DigestCount
      <3>2. Rank(Flow, payload, 1) \in 1..f
        BY <1>5, <1>7
      <3>3. w + 1 = i
        BY <1>1
      <3> HIDE DEF u, l, i, f, w, b
      <3>4. f >= 1
        BY <1>4, <3>2
      <3> QED BY <1>4, <3>1, <3>3, <3>4, DigestOwed
    <2>2. PICK x \in At(Flow, payload) :
            w + Rank(Flow, payload, x) = ((b + 1) - b) * i /\ Flow[x].n = digests[b + 1]
      BY <2>1 DEF DInv, CellsMatch
    <2>3. Rank(Flow, payload, x) = 1
      <3> DEFINE r == Rank(Flow, payload, x)
      <3>1. r \in 1..f /\ w + r = ((b + 1) - b) * i
        BY <1>7, <2>2
      <3>2. w + 1 = i
        BY <1>1
      <3> HIDE DEF r, w, b, i, f
      <3>3. ((b + 1) - b) * i = i
        BY <1>4
      <3>4. r = 1
        BY <1>4, <3>1, <3>2, <3>3
      <3> QED BY <3>4 DEF r
    <2>4. x = 1
      BY <1>6, <2>3
    <2> QED BY <1>1, <2>1, <2>2, <2>4
  <1>10. ASSUME NEW x \in At(back', acks)
         PROVE  digests[Rank(back', acks, x)] = back'[x].n
    <2>1. CASE /\ x \in At(back, acks) /\ back'[x] = back[x]
               /\ Rank(back', acks, x) = Rank(back, acks, x)
      BY <2>1 DEF DInv, SendmesMatch
    <2>2. CASE k = 1 /\ back'[x].n = sendme_digest' /\ Rank(back', acks, x) = b + 1
      BY <1>9, <2>2
    <2> QED BY <1>1, <2>1, <2>2 DEF OneMore
  <1>11. ASSUME NEW j \in (b + k) + 1..l
         PROVE  \E y \in At(Flow', payload) :
                  /\ w2 + Rank(Flow', payload, y) = (j - (b + k)) * i
                  /\ Flow'[y].n = digests[j]
    <2>0. k \in {0, 1} /\ b \in Nat /\ l \in Nat
      BY <1>1, <1>4
    <2>1. j \in b + 1..l
      <3> HIDE DEF b, l
      <3> QED BY <2>0
    <2>2. PICK x \in At(Flow, payload) :
            w + Rank(Flow, payload, x) = (j - b) * i /\ Flow[x].n = digests[j]
      BY <2>1 DEF DInv, CellsMatch
    <2> DEFINE r == Rank(Flow, payload, x)
    <2>3. r # 1 /\ w + 1 - k * i + (r - 1) = (j - (b + k)) * i /\ r \in Nat
      <3>1. r \in 1..f /\ w + r = (j - b) * i
        BY <1>7, <2>2
      <3>2. w + 1 \in 1..i /\ (k = 1 <=> w + 1 = i)
        BY <1>1
      <3> HIDE DEF r, w, i, b, f, l
      <3>3. r \in Nat /\ w + 1 <= i
        BY <1>4, <3>1, <3>2
      <3>4. j \in Nat /\ b + k < j
        BY <2>0
      <3>5. Completes(i, w, b, k, j, r)
        BY <1>4, <2>0, <3>1, <3>2, <3>3, <3>4 DEF Completes
      <3> QED BY <3>3, <3>5, CellCounted
    <2>4. x # 1
      BY <1>6, <2>3
    <2> DEFINE y == x - 1
    <2>5. y \in Int /\ y >= 0 /\ y + 1 = x /\ y \in At(Tail(Flow), payload)
          /\ Tail(Flow)[y] = Flow[x] /\ Tail(Flow) \in Seq(Cells)
      <3>1. x \in 1..Len(Flow) /\ Flow[x] \in payload
        BY <1>2 DEF At
      <3>2. /\ Tail(Flow) \in Seq(Cells) /\ Len(Tail(Flow)) = Len(Flow) - 1
            /\ \A z \in 1..Len(Flow) - 1 : Tail(Flow)[z] = Flow[z + 1]
        BY <1>2
      <3>3. y \in 1..Len(Flow) - 1 /\ y + 1 = x
        BY <2>4, <3>1
      <3> QED BY <3>1, <3>2, <3>3 DEF At
    <2> HIDE DEF y
    <2>6. r = Rank(Tail(Flow), payload, y) + 1
      BY <1>2, <2>5, RankTail
    <2>7. Rank(Tail(Flow), payload, y) \in Nat
      BY <2>5, AtFinite
    <2> DEFINE r2 == Rank(Tail(Flow), payload, y)
    <2>8. r2 \in Nat /\ r = r2 + 1
      BY <2>6, <2>7
    <2>9. w2 + r2 = (j - (b + k)) * i
      <3>1. w2 = w + 1 - k * i
        BY <1>1
      <3> HIDE DEF r, r2, w, w2, i, b
      <3>2. r - 1 = r2
        BY <2>8
      <3> QED BY <2>3, <3>1, <3>2
    <2> QED BY <1>2, <2>2, <2>5, <2>9
  <1>12. SendmesMatch'
    BY <1>3, <1>10 DEF SendmesMatch
  <1>13. CellsMatch'
    BY <1>1, <1>3, <1>11 DEF CellsMatch
  <1> QED BY <1>3, <1>8, <1>12, <1>13 DEF DInv

\* A drained outbuf sends no circuit SENDME.
LEMMA DrainDigest ==
    ASSUME TInv, CInv, DInv, NEW s \in Streams, Drain(s)
    PROVE  DInv'
  <1>1. /\ UNCHANGED <<cc, inflight, package_window, queue, net, deliver_window, digests,
                       closed>>
        /\ Flow' = Flow /\ Unacked' = Unacked /\ Inc' = Inc
        /\ acks' = acks /\ payload' = payload
    BY DrainSteps DEF windowVars, queueVars, Flow, Unacked, Inc, acks, payload
  <1>2. PICK k \in Nat, sk \in Nat, xon \in Seq(Replies) : Drains(s, k, sk, xon)
    BY DrainSteps
  <1> DEFINE e == <<>>
             q == back
             d == 0
  <1>3. /\ q \in Seq(Replies) /\ xon \in Maybe(Xon(s)) /\ e \in Seq(Replies)
        /\ e \in Maybe(Xoff(s)) /\ d \in Nat
        /\ back' = back \o xon \o Repeat(sk, StreamSendmeCell(s))
    BY <1>2 DEF Drains, TInv, ReceiverTyped, Maybe
  <1>4. back \o Repeat(0, CircSendme(d)) \o <<>> = back
    BY <1>3, RepeatNone
  <1>5. back' = q \o Repeat(0, CircSendme(d)) \o e \o xon
                  \o Repeat(sk, StreamSendmeCell(s))
    BY <1>3, <1>4
  <1> HIDE DEF e, q, d
  <1>6. OneMore(back', q, 0, d)
    BY <1>3, <1>5, AnswersRanks
  <1>7. Count(back', acks) = Count(back, acks)
    <2>1. NoStream \in Streams \cup {NoStream} /\ NoStream # s
      BY Constants
    <2>2. Count(back', acks) = Count(q, acks) + 0 + 0
      BY <1>3, <1>5, <2>1, AnswersCount DEF acks, Share
    <2>3. Count(q, acks) \in Nat
      BY <1>3, RepliesCount
    <2> QED BY <2>2, <2>3 DEF q
  <1>8. \A x \in At(back', acks) :
          /\ x \in At(back, acks) /\ back'[x] = back[x]
          /\ Rank(back', acks, x) = Rank(back, acks, x)
    BY <1>6 DEF OneMore, q
  <1>9. DigestCount'
    BY <1>1 DEF DInv, DigestCount
  <1>10. SendmesMatch'
    BY <1>1, <1>8 DEF DInv, SendmesMatch
  <1>11. CellsMatch'
    BY <1>1, <1>7 DEF DInv, CellsMatch
  <1> QED BY <1>1, <1>9, <1>10, <1>11 DEF DInv

\* On a new circuit nothing is recorded.
LEMMA InitDInv == Init => DInv
  <1> SUFFICES ASSUME Init PROVE DInv
    OBVIOUS
  <1>1. digests = <<>> /\ back = <<>> /\ ~closed
    BY DEF Init
  <1>2. Unacked = 0 /\ Inc \in Nat \ {0}
    BY Constants DEF Init, Unacked, Inc
  <1>3. Len(digests) = 0 /\ At(back, acks) = {}
    BY <1>1 DEF At
  <1>4. Count(back, acks) = 0
    BY <1>1, CountEmpty
  <1>5. DigestCount
    BY <1>2, <1>3 DEF DigestCount
  <1>6. SendmesMatch
    BY <1>3 DEF SendmesMatch
  <1>7. CellsMatch
    BY <1>3, <1>4 DEF CellsMatch
  <1> QED BY <1>1, <1>5, <1>6, <1>7 DEF DInv

\* No step records a digest too many or too few, or sends a SENDME out of turn.
LEMMA NextDInv ==
    ASSUME Regular, TInv, CInv, DInv, [Next]_vars
    PROVE  DInv'
  <1>1. CASE Handler
    <2>1. ASSUME NEW s \in Streams, Packages(s) PROVE DInv'
      BY <2>1, PackagesDigest
    <2>2. CASE UNCHANGED core
      BY <2>2, SameDigests DEF core, windowVars, queueVars, receiverVars, Flow
    <2> QED BY <1>1, <2>1, <2>2, HandlerSteps
  <1>2. CASE SendControl
    <2> DEFINE c == [n |-> sent + 1, s |-> NoStream]
    <2>1. /\ queue' = Append(queue, c) /\ net' = net
          /\ UNCHANGED <<cc, inflight, package_window, deliver_window, digests, back, closed>>
      BY <1>2 DEF SendControl, Enqueue, windowVars, receiverVars
    <2>2. c \in Cells /\ c.s = NoStream
      BY DEF TInv, QueueTyped, Cells
    <2> HIDE DEF c
    <2>3. Flow' = Append(Flow, c)
      BY <2>1, <2>2, FlowTyped, FlowAppend DEF Flow
    <2> QED BY <2>1, <2>2, <2>3, ControlDigest
  <1>3. CASE FlushCell
    <2>1. Flow' = Flow
      BY <1>3, FlowTyped, FlowFlush DEF FlushCell, Flow
    <2> QED BY <1>3, <2>1, SameDigests DEF FlushCell, streamVars, windowVars, receiverVars
  <1>4. CASE ReceiveReply
    BY <1>4, ReplyDigest
  <1>5. CASE ReceiveControl
    <2>1. /\ net # <<>> /\ Head(net).s = NoStream /\ net' = Tail(net) /\ queue' = queue
          /\ UNCHANGED <<cc, inflight, package_window, deliver_window, digests, back, closed>>
      BY <1>5 DEF ReceiveControl, windowVars, queueVars, streamVars
    <2>2. /\ Flow # <<>> /\ Flow[1] = Head(net) /\ Head(net) \in Cells
          /\ Flow' = Tail(Flow)
      BY <2>1, FirstOfFlow
    <2> QED BY <2>1, <2>2, ControlDigest
  <1>6. CASE ReceiveData
    <2>1. /\ net # <<>> /\ Head(net).s \in Streams /\ net' = Tail(net)
          /\ UNCHANGED <<cc, inflight, package_window, queue, digests>>
      BY <1>6, ReceiveDataSteps DEF windowVars, queueVars
    <2>2. Head(net) \in payload
      BY <2>1, FirstOfFlow, DataCell DEF payload
    <2>3. sendme_digest' \in Nat
      BY <1>6, NextTInv DEF Next, TInv, QueueTyped
    <2>4. ~Refuses(Head(net).s)
      <3>1. deliver_window > 0 /\ (cc \/ stream_deliver[Head(net).s] > 0)
        BY <2>1, WindowsOpen
      <3>2. deliver_window # 0 /\ (cc \/ stream_deliver[Head(net).s] # 0)
        BY <3>1
      <3> QED BY <3>2 DEF Refuses
    <2>5. ASSUME NEW k \in Nat, NEW sk \in Nat, NEW xoff \in Seq(Replies),
                 NEW xon \in Seq(Replies), Answers(Head(net).s, k, sk, xoff, xon)
          PROVE  DInv'
      <3> DEFINE s == Head(net).s
      <3>1. s \in Streams /\ Answers(s, k, sk, xoff, xon)
        BY <2>1, <2>5
      <3> HIDE DEF s
      <3> QED BY <2>1, <2>2, <2>3, <3>1, AnswersDigest
    <2> QED BY <1>6, <2>4, <2>5, ReceiveDataSteps
  <1>7. ASSUME NEW s \in Streams, ReadEvent(s) PROVE DInv'
    BY <1>7, SameDigests DEF ReadEvent, windowVars, queueVars, receiverVars, Flow
  <1>8. ASSUME NEW s \in Streams, Drain(s) PROVE DInv'
    BY <1>8, DrainDigest
  <1>9. CASE UNCHANGED vars
    BY <1>9, SameDigests DEF vars, windowVars, queueVars, receiverVars, Flow
  <1> QED BY <1>1, <1>2, <1>3, <1>4, <1>5, <1>6, <1>7, <1>8, <1>9 DEF Next, Handler

\* The invariant of the digests.
LEMMA DigestInvariant ==
    ASSUME Regular
    PROVE  Spec => [](TInv /\ CInv /\ DInv)
  <1>1. Init => TInv /\ CInv /\ DInv
    BY InitTInv, InitCInv, InitDInv
  <1>2. TInv /\ CInv /\ DInv /\ [Next]_vars => TInv' /\ CInv' /\ DInv'
    BY NextTInv, NextCInv, NextDInv
  <1> QED BY <1>1, <1>2, PTL DEF Spec

\* Two edges that follow the protocol never close the circuit, whatever their
\* buffers, windows and channels do: sendme_is_valid finds the digest of every
\* SENDME first in its list, no window is raised above its maximum and no DATA
\* cell finds an empty deliver window.
THEOREM NeverClosed ==
    ASSUME Regular
    PROVE  Spec => []CircuitStaysOpen
  <1>1. DInv => CircuitStaysOpen
    BY DEF DInv, CircuitStaysOpen
  <1> QED BY <1>1, DigestInvariant, PTL

\* sendme_last_digests is in order: first the digests of the circuit SENDMEs on
\* their way, then those of cells that the receiver has not seen.
THEOREM DigestsStayInOrder ==
    ASSUME Regular
    PROVE  Spec => []DigestsInOrder
  <1>1. ASSUME TInv, CInv, DInv PROVE DigestsInOrder
    <2>1. Count(back, acks) \in Nat /\ Len(digests) \in Nat /\ Count(back, acks) <= Len(digests)
      BY <1>1, EnoughDigests
    <2>2. \A x \in At(back, acks) : digests[Rank(back, acks, x)] = back[x].n
      BY <1>1 DEF DInv, SendmesMatch
    <2>3. \A i \in Count(back, acks) + 1..Len(digests) :
            \E x \in DOMAIN Flow : Flow[x].n = digests[i]
      BY <1>1 DEF DInv, CellsMatch, At
    <2> QED BY <2>1, <2>2, <2>3 DEF DigestsInOrder, acks
  <1> QED BY <1>1, DigestInvariant, PTL

\* What circuit_sent_cell_for_sendme promises holds for these parameters: every
\* circuit SENDME on its way carries a digest that the sender has recorded.
THEOREM SendmesExpected ==
    ASSUME Regular
    PROVE  Spec => []SendmesAreExpected
  <1>1. ASSUME TInv, CInv, DInv PROVE SendmesAreExpected
    <2> SUFFICES ASSUME NEW x \in DOMAIN back,
                        back[x].type = "SENDME", back[x].s = NoStream
                 PROVE  back[x].n \in ToSet(digests)
      BY DEF SendmesAreExpected
    <2>1. back \in Seq(Replies) /\ digests \in Seq(1..sent)
      BY <1>1 DEF TInv, ReceiverTyped, QueueTyped
    <2>2. back[x] \in Replies
      BY <2>1
    <2>3. x \in At(back, acks)
      BY <2>2, SendmeCell DEF At, acks
    <2>4. Rank(back, acks, x) \in 1..Count(back, acks)
      BY <2>1, <2>3, RankRange
    <2>5. Rank(back, acks, x) \in DOMAIN digests
      <3>1. Count(back, acks) \in Nat /\ Len(digests) \in Nat
            /\ Count(back, acks) <= Len(digests)
        BY <1>1, EnoughDigests
      <3>2. DOMAIN digests = 1..Len(digests)
        BY <2>1
      <3> QED BY <2>4, <3>1, <3>2
    <2>6. digests[Rank(back, acks, x)] = back[x].n
      BY <1>1, <2>3 DEF DInv, SendmesMatch
    <2> QED BY <2>5, <2>6 DEF ToSet
  <1> QED BY <1>1, DigestInvariant, PTL

-----------------------------------------------------------------------------
(* The counters stay within their bounds. *)

\* No cell of data is anywhere twice.
Accounts ==
  \A s \in Streams :
    src[s] + inbuf[s] + outbuf[s] + Count(Flow, DataOf({s})) <= Data[s]

AInv == Accounts /\ inflight \in Nat

\* At first all data is on the sockets.
LEMMA InitAInv == Init => AInv
  <1> SUFFICES ASSUME Init PROVE AInv
    OBVIOUS
  <1>1. Flow = <<>> /\ inflight = 0
    BY DEF Init, Flow
  <1>2. \A C : Count(Flow, C) = 0
    BY <1>1, CountEmpty
  <1>3. \A s \in Streams : src[s] = Data[s] /\ Data[s] \in Nat /\ inbuf[s] = 0 /\ outbuf[s] = 0
    BY Constants DEF Init
  <1> QED BY <1>1, <1>2, <1>3 DEF AInv, Accounts

\* Cells that are sent, or that arrive.
LEMMA PackagesAccounts ==
    ASSUME TInv, Accounts, NEW s \in Streams, Packages(s)
    PROVE  Accounts'
  <1> SUFFICES ASSUME NEW t \in Streams
               PROVE  src'[t] + inbuf'[t] + outbuf'[t] + Count(Flow', DataOf({t})) <= Data[t]
    BY DEF Accounts
  <1> DEFINE c == [n |-> sent + 1, s |-> s]
  <1>1. /\ queue' = Append(queue, c) /\ net' = net /\ src' = src /\ outbuf' = outbuf
        /\ inbuf' = [inbuf EXCEPT ![s] = @ - 1]
    BY DEF Packages, PackageCell, Enqueue, receiverVars
  <1>2. c \in Cells /\ c.s = s
    BY DEF TInv, QueueTyped, Cells
  <1> HIDE DEF c
  <1>3. Flow' = Append(Flow, c) /\ Flow \in Seq(Cells)
    BY <1>1, <1>2, FlowTyped, FlowAppend DEF Flow
  <1>4. c \in DataOf({t}) <=> s = t
    BY <1>2, DataCell
  <1>5. Count(Flow', DataOf({t})) = Count(Flow, DataOf({t})) + (IF s = t THEN 1 ELSE 0)
    BY <1>2, <1>3, <1>4, CountAppend
  <1>6. inbuf'[t] = IF s = t THEN inbuf[t] - 1 ELSE inbuf[t]
    BY <1>1 DEF TInv, StreamsTyped
  <1>7. src[t] \in Nat /\ inbuf[t] \in Nat /\ outbuf[t] \in Nat /\ Data[t] \in Nat
    BY Constants DEF TInv, StreamsTyped, ReceiverTyped
  <1> DEFINE f == Count(Flow, DataOf({t}))
  <1>8. f \in Nat /\ src[t] + inbuf[t] + outbuf[t] + f <= Data[t]
    BY CreditTypes DEF Accounts
  <1> HIDE DEF f
  <1>9. Count(Flow', DataOf({t})) = IF s = t THEN f + 1 ELSE f
    BY <1>5, <1>8 DEF f
  <1> QED BY <1>1, <1>6, <1>7, <1>8, <1>9

\* A DATA cell that arrives is in the outbuf or nowhere.
LEMMA AnswersAccounts ==
    ASSUME TInv, Accounts, NEW s \in Streams, net # <<>>, Head(net).s = s, net' = Tail(net),
           UNCHANGED <<src, inbuf, queue>>,
           outbuf' = outbuf \/ outbuf' = [outbuf EXCEPT ![s] = @ + 1]
    PROVE  Accounts'
  <1> SUFFICES ASSUME NEW t \in Streams
               PROVE  src'[t] + inbuf'[t] + outbuf'[t] + Count(Flow', DataOf({t})) <= Data[t]
    BY DEF Accounts
  <1>1. Flow \in Seq(Cells) /\ Flow # <<>> /\ Flow[1].s = s /\ Flow[1] \in Cells
        /\ Flow' = Tail(Flow)
    BY FirstOfFlow
  <1>2. Flow[1] \in DataOf({t}) <=> s = t
    BY <1>1, DataCell
  <1>3. Count(Flow, DataOf({t})) = Count(Flow', DataOf({t})) + (IF s = t THEN 1 ELSE 0)
    BY <1>1, <1>2, CountTail
  <1>4. Count(Flow', DataOf({t})) \in Nat
    <2>1. Tail(Flow) \in Seq(Cells)
      BY <1>1
    <2> QED BY <1>1, <2>1, CountType
  <1>5. src[t] \in Nat /\ inbuf[t] \in Nat /\ outbuf[t] \in Nat /\ Data[t] \in Nat
    BY Constants DEF TInv, StreamsTyped, ReceiverTyped
  <1>6. outbuf'[t] \in Nat /\ outbuf'[t] <= outbuf[t] + (IF s = t THEN 1 ELSE 0)
    BY <1>5 DEF TInv, ReceiverTyped
  <1> DEFINE f == Count(Flow', DataOf({t}))
             e == IF s = t THEN 1 ELSE 0
  <1>7. src[t] + inbuf[t] + outbuf[t] + (f + e) <= Data[t] /\ e \in {0, 1}
    BY <1>3 DEF Accounts
  <1>8. f \in Nat /\ outbuf'[t] \in Nat /\ outbuf'[t] <= outbuf[t] + e
    BY <1>4, <1>6
  <1> HIDE DEF f, e
  <1>9. src[t] + inbuf[t] + outbuf'[t] + f <= Data[t]
    BY <1>5, <1>7, <1>8
  <1> QED BY <1>9 DEF f

\* No step makes data.
LEMMA NextAccounts ==
    ASSUME TInv, Accounts, [Next]_vars
    PROVE  Accounts'
  <1>0. TInv'
    BY NextTInv
  <1>01. ASSUME UNCHANGED <<src, inbuf, outbuf>>, Flow' = Flow PROVE Accounts'
    BY <1>01 DEF Accounts
  <1>02. ASSUME NEW c \in Cells, c.s = NoStream, UNCHANGED <<src, inbuf, outbuf>>,
                Flow' = Append(Flow, c) \/ (Flow' = Tail(Flow) /\ Flow # <<>> /\ Flow[1] = c)
         PROVE  Accounts'
    <2>1. \A S \in SUBSET Streams : Count(Flow', DataOf(S)) = Count(Flow, DataOf(S))
      BY <1>02, ControlCount
    <2>2. \A t \in Streams : Count(Flow', DataOf({t})) = Count(Flow, DataOf({t}))
      BY <2>1
    <2> QED BY <1>02, <2>2 DEF Accounts
  <1>1. CASE Handler
    <2>1. ASSUME NEW s \in Streams, Packages(s) PROVE Accounts'
      BY <2>1, PackagesAccounts
    <2>2. CASE UNCHANGED core
      BY <2>2, <1>01 DEF core, queueVars, receiverVars, Flow
    <2> QED BY <1>1, <2>1, <2>2, HandlerSteps
  <1>2. CASE SendControl
    <2> DEFINE c == [n |-> sent + 1, s |-> NoStream]
    <2>1. queue' = Append(queue, c) /\ net' = net /\ UNCHANGED <<src, inbuf, outbuf>>
      BY <1>2 DEF SendControl, Enqueue, receiverVars
    <2>2. c \in Cells /\ c.s = NoStream
      BY DEF TInv, QueueTyped, Cells
    <2> HIDE DEF c
    <2>3. Flow' = Append(Flow, c)
      BY <2>1, <2>2, FlowTyped, FlowAppend DEF Flow
    <2> QED BY <2>1, <2>2, <2>3, <1>02
  <1>3. CASE FlushCell
    <2>1. Flow' = Flow
      BY <1>3, FlowTyped, FlowFlush DEF FlushCell, Flow
    <2> QED BY <1>3, <2>1, <1>01 DEF FlushCell, streamVars, receiverVars
  <1>4. CASE ReceiveReply
    <2>1. UNCHANGED <<src, inbuf, outbuf, net, queue>>
      BY <1>4 DEF ReceiveReply, CircuitSendme, StreamSendme, StreamXonXoff, CloseCircuit,
                  streamVars, queueVars, receiverVars
    <2> QED BY <2>1, <1>01 DEF Flow
  <1>5. CASE ReceiveControl
    <2>1. /\ net # <<>> /\ Head(net).s = NoStream /\ net' = Tail(net) /\ queue' = queue
          /\ UNCHANGED <<src, inbuf, outbuf>>
      BY <1>5 DEF ReceiveControl, queueVars, streamVars
    <2>2. /\ Flow # <<>> /\ Flow[1] = Head(net) /\ Head(net) \in Cells
          /\ Flow' = Tail(Flow)
      BY <2>1, FirstOfFlow
    <2> QED BY <2>1, <2>2, <1>02
  <1>6. CASE ReceiveData
    <2> DEFINE s == Head(net).s
    <2>1. /\ net # <<>> /\ s \in Streams /\ net' = Tail(net)
          /\ UNCHANGED <<src, inbuf, queue>>
      BY <1>6, ReceiveDataSteps DEF streamVars, queueVars
    <2>2. outbuf' = outbuf \/ outbuf' = [outbuf EXCEPT ![s] = @ + 1]
      <3>1. CASE Refuses(s)
        BY <3>1 DEF Refuses, receiverVars
      <3>2. ASSUME NEW k \in Nat, NEW sk \in Nat, NEW xoff \in Seq(Replies),
                   NEW xon \in Seq(Replies), Answers(s, k, sk, xoff, xon)
            PROVE  outbuf' = [outbuf EXCEPT ![s] = @ + 1]
        BY <3>2 DEF Answers
      <3> QED BY <1>6, <3>1, <3>2, ReceiveDataSteps
    <2> QED BY <2>1, <2>2, AnswersAccounts
  <1>7. ASSUME NEW s \in Streams, ReadEvent(s) PROVE Accounts'
    <2>1. Flow' = Flow /\ outbuf' = outbuf
      BY <1>7 DEF ReadEvent, queueVars, receiverVars, Flow
    <2>2. PICK k \in 1..src[s] : /\ src' = [src EXCEPT ![s] = @ - k]
                                 /\ inbuf' = [inbuf EXCEPT ![s] = @ + k]
      BY <1>7 DEF ReadEvent
    <2>3. \A t \in Streams : src[t] \in Nat /\ inbuf[t] \in Nat
      BY DEF TInv, StreamsTyped
    <2>4. \A t \in Streams : src'[t] + inbuf'[t] = src[t] + inbuf[t]
      BY <2>2, <2>3 DEF TInv, StreamsTyped
    <2> QED BY <2>1, <2>4 DEF Accounts
  <1>8. ASSUME NEW s \in Streams, Drain(s) PROVE Accounts'
    <2>1. Flow' = Flow /\ src' = src /\ inbuf' = inbuf
      BY <1>8, DrainSteps DEF streamVars, queueVars, Flow
    <2>2. PICK k \in Nat, sk \in Nat, xon \in Seq(Replies) : Drains(s, k, sk, xon)
      BY <1>8, DrainSteps
    <2>3. \A t \in Streams : outbuf[t] \in Nat /\ outbuf'[t] \in Nat /\ outbuf'[t] <= outbuf[t]
      BY <1>0, <2>2 DEF TInv, ReceiverTyped, Drains
    <2> SUFFICES ASSUME NEW t \in Streams
                 PROVE  src[t] + inbuf[t] + outbuf'[t] + Count(Flow, DataOf({t})) <= Data[t]
      BY <2>1 DEF Accounts
    <2> DEFINE f == Count(Flow, DataOf({t}))
    <2>4. /\ src[t] \in Nat /\ inbuf[t] \in Nat /\ Data[t] \in Nat /\ f \in Nat
          /\ src[t] + inbuf[t] + outbuf[t] + f <= Data[t]
      BY CreditTypes, Constants DEF TInv, StreamsTyped, Accounts
    <2> HIDE DEF f
    <2>5. src[t] + inbuf[t] + outbuf'[t] + f <= Data[t]
      BY <2>3, <2>4
    <2> QED BY <2>5 DEF f
  <1>9. CASE UNCHANGED vars
    BY <1>9, <1>01 DEF vars, streamVars, queueVars, receiverVars, Flow
  <1> QED BY <1>1, <1>2, <1>3, <1>4, <1>5, <1>6, <1>7, <1>8, <1>9 DEF Next, Handler

\* Only an acknowledgement that is accepted lowers the count of cells in flight.
LEMMA InflightGrows ==
    ASSUME TInv, [Next]_vars, inflight' # inflight, inflight' # inflight + 1
    PROVE  cc /\ cc' /\ ~closed'
  <1>1. CASE Handler
    <2>1. ASSUME NEW s \in Streams, Packages(s) PROVE FALSE
      BY <2>1 DEF Packages, PackageCell
    <2> QED BY <1>1, <2>1, HandlerSteps DEF core, windowVars
  <1>2. CASE ReceiveReply
    <2>1. ~closed
      BY <1>2 DEF ReceiveReply, Idle
    <2> QED BY <1>2, <2>1 DEF ReceiveReply, CircuitSendme, StreamSendme, StreamXonXoff,
                         CloseCircuit, AckedVegas, AckedWindow, windowVars
  <1>3. CASE SendControl \/ FlushCell \/ ReceiveControl \/ ReceiveData
    BY <1>3 DEF SendControl, FlushCell, ReceiveControl, ReceiveData, windowVars
  <1>4. ASSUME NEW s \in Streams, ReadEvent(s) \/ Drain(s) PROVE FALSE
    BY <1>4 DEF ReadEvent, Drain, windowVars
  <1>5. CASE UNCHANGED vars
    BY <1>5 DEF vars, windowVars
  <1> QED BY <1>1, <1>2, <1>3, <1>4, <1>5 DEF Next, Handler

\* After a step as before it, the cells in flight are counted by CreditConserved.
LEMMA UnackedNext == (TInv /\ CInv /\ ~closed => Unacked \in Nat)'
  <1>1. TInv /\ CInv /\ ~closed => Unacked \in Nat
    <2> SUFFICES ASSUME TInv, CInv, ~closed PROVE Unacked \in Nat
      OBVIOUS
    <2> DEFINE a == Count(Flow, DataOf(Streams)) + (CircStart - deliver_window)
               i == Inc
               m == Count(back, SendmesFor(NoStream))
    <2>1. a \in Nat /\ i \in Nat /\ m \in Nat
      BY CreditTypes
    <2>2. Unacked = a + i * m
      BY DEF CInv, CreditConserved, CircuitCredit
    <2> HIDE DEF a, i, m
    <2>3. i * m \in Nat
      BY <2>1
    <2> QED BY <2>1, <2>2, <2>3
  <1> QED BY <1>1, PTL

\* No step makes data or takes the count of cells in flight below zero.
LEMMA NextAInv == TInv /\ CInv /\ AInv /\ [Next]_vars => AInv'
  <1> SUFFICES ASSUME TInv, CInv, AInv, [Next]_vars PROVE AInv'
    OBVIOUS
  <1>1. Accounts'
    BY NextAccounts DEF AInv
  <1>2. inflight' \in Nat
    <2>1. CASE inflight' = inflight \/ inflight' = inflight + 1
      BY <2>1 DEF AInv
    <2>2. CASE inflight' # inflight /\ inflight' # inflight + 1
      <3>1. cc' /\ ~closed'
        BY <2>2, InflightGrows
      <3>2. TInv' /\ CInv'
        BY NextTInv, NextCInv
      <3>3. Unacked' \in Nat
        BY <3>1, <3>2, UnackedNext
      <3> QED BY <3>1, <3>3 DEF Unacked
    <2> QED BY <2>1, <2>2
  <1> QED BY <1>1, <1>2 DEF AInv

\* Every variable keeps its type: no window leaves its range, no recorded digest
\* is one of a cell that was not sent, and no stream has more data than the
\* application wrote to it.
THEOREM TypeCorrect == Spec => []TypeOK
  <1>1. Init => TInv /\ CInv /\ AInv
    BY InitTInv, InitCInv, InitAInv
  <1>2. TInv /\ CInv /\ AInv /\ [Next]_vars => TInv' /\ CInv' /\ AInv'
    BY NextTInv, NextCInv, NextAInv
  <1>3. ASSUME TInv, CInv, AInv PROVE TypeOK
    <2>1. \A s \in Streams : src[s] + inbuf[s] + outbuf[s] <= Data[s]
      <3> SUFFICES ASSUME NEW s \in Streams PROVE src[s] + inbuf[s] + outbuf[s] <= Data[s]
        OBVIOUS
      <3> DEFINE f == Count(Flow, DataOf({s}))
      <3>1. /\ src[s] \in Nat /\ inbuf[s] \in Nat /\ outbuf[s] \in Nat /\ Data[s] \in Nat
            /\ f \in Nat /\ src[s] + inbuf[s] + outbuf[s] + f <= Data[s]
        BY <1>3, CreditTypes, Constants DEF TInv, StreamsTyped, ReceiverTyped, AInv, Accounts
      <3> HIDE DEF f
      <3> QED BY <3>1
    <2>2. queue \in Seq(Cells) /\ net \in Seq(Cells)
      BY <1>3, FlowTyped
    <2>3. agenda \in Seq([op : Ops, s : Streams \cup {NoStream}, n : Int])
      BY <1>3 DEF TInv, Entries
    <2>4. /\ cc \in BOOLEAN /\ blocked \in BOOLEAN /\ closed \in BOOLEAN
          /\ {src, inbuf, outbuf} \subseteq [Streams -> Nat]
          /\ {reading, xoff_received, xoff_sent, rate_sent} \subseteq [Streams -> BOOLEAN]
      BY <1>3 DEF TInv, StreamsTyped, QueueTyped, ReceiverTyped, EdgesTyped
    <2> QED BY <1>3, <2>1, <2>2, <2>3, <2>4
         DEF TypeOK, TInv, StreamsTyped, WindowsTyped, QueueTyped, ReceiverTyped, AInv
  <1> QED BY <1>1, <1>2, <1>3, PTL DEF Spec

-----------------------------------------------------------------------------
(* The rounds.  A stream without an XOFF that could package is still to be   *)
(* resumed, or is being emptied; once the rounds begin there is none.        *)

Lingers(s) == ~xoff_received[s] /\ stream_window[s] > 0 /\ inbuf[s] > 0

\* s is still to be started, or to be emptied, in the agenda q.
Pending(q, s) == \E j \in DOMAIN q : q[j].op \in {"resume", "pack"} /\ q[j].s = s

\* q is what is left of circuit_resume_edge_reading_helper.
Resuming(q) == \E j \in DOMAIN q : q[j].op \in {"resume", "count", "round", "visit"}

\* A round comes last, and turns stand alone.
Shape(q) ==
  \A i \in DOMAIN q : /\ q[i].op = "round" => i = Len(q)
                      /\ q[i].op = "visit" => \A j \in DOMAIN q : q[j].op = "visit"

NoneWaits(q) ==
  Resuming(q) => \A s \in Streams : Lingers(s) /\ PackageWindow > 0 => Pending(q, s)

RInv == Shape(agenda) /\ NoneWaits(agenda)

\* What is left of an agenda after its first entry.
LEMMA AgendaTail ==
    ASSUME NEW q \in Seq(Entries), q # <<>>
    PROVE  /\ Shape(q) => Shape(Tail(q))
           /\ Resuming(Tail(q)) => Resuming(q)
           /\ \A s : Pending(q, s) =>
                \/ Pending(Tail(q), s)
                \/ Head(q).op \in {"resume", "pack"} /\ Head(q).s = s
  <1>1. \A j \in DOMAIN Tail(q) : j + 1 \in DOMAIN q /\ Tail(q)[j] = q[j + 1]
    OBVIOUS
  <1>2. \A j \in DOMAIN q : j = 1 \/ (j - 1 \in DOMAIN Tail(q) /\ Tail(q)[j - 1] = q[j])
    OBVIOUS
  <1>3. Len(Tail(q)) = Len(q) - 1 /\ Head(q) = q[1] /\ DOMAIN Tail(q) \subseteq Nat
    OBVIOUS
  <1>4. Shape(q) => Shape(Tail(q))
    BY <1>1, <1>3 DEF Shape
  <1>5. Resuming(Tail(q)) => Resuming(q)
    BY <1>1 DEF Resuming
  <1>6. ASSUME NEW s, Pending(q, s)
        PROVE  \/ Pending(Tail(q), s)
               \/ Head(q).op \in {"resume", "pack"} /\ Head(q).s = s
    <2>1. PICK j \in DOMAIN q : q[j].op \in {"resume", "pack"} /\ q[j].s = s
      BY <1>6 DEF Pending
    <2>2. CASE j = 1
      BY <1>3, <2>1, <2>2
    <2>3. CASE j # 1
      <3>1. PICK i \in DOMAIN Tail(q) : Tail(q)[i] = q[j]
        BY <1>2, <2>3
      <3> QED BY <2>1, <3>1 DEF Pending
    <2> QED BY <2>2, <2>3
  <1> QED BY <1>4, <1>5, <1>6

\* What a step puts before the rest of the agenda.
LEMMA AgendaPush ==
    ASSUME NEW e \in Entries, NEW q \in Seq(Entries), e.op \in {"pack", "count"}
    PROVE  /\ Shape(q) /\ (\A i \in DOMAIN q : q[i].op # "visit") => Shape(<<e>> \o q)
           /\ \A i \in DOMAIN (<<e>> \o q) :
                (<<e>> \o q)[i].op = "visit" => \E j \in DOMAIN q : q[j].op = "visit"
           /\ Resuming(<<e>> \o q) => Resuming(q) \/ e.op = "count"
           /\ \A s : Pending(q, s) => Pending(<<e>> \o q, s)
           /\ e.op = "pack" => Pending(<<e>> \o q, e.s)
  <1> DEFINE r == <<e>> \o q
  <1>1. /\ Len(r) = Len(q) + 1 /\ 1 \in DOMAIN r /\ r[1] = e /\ Len(q) \in Nat
        /\ DOMAIN r = 1..Len(r) /\ DOMAIN q = 1..Len(q)
    OBVIOUS
  <1>2. \A j \in DOMAIN q : j + 1 \in DOMAIN r /\ r[j + 1] = q[j]
    OBVIOUS
  <1>3. \A j \in DOMAIN r : j = 1 \/ (j - 1 \in DOMAIN q /\ r[j] = q[j - 1])
    OBVIOUS
  <1> HIDE DEF r
  <1>4. Shape(q) /\ (\A i \in DOMAIN q : q[i].op # "visit") => Shape(r)
    BY <1>1, <1>3 DEF Shape
  <1>5. Resuming(r) => Resuming(q) \/ e.op = "count"
    BY <1>1, <1>3 DEF Resuming
  <1>6. \A s : Pending(q, s) => Pending(r, s)
    BY <1>2 DEF Pending
  <1>7. e.op = "pack" => Pending(r, e.s)
    BY <1>1 DEF Pending
  <1>8. \A i \in DOMAIN r : r[i].op = "visit" => \E j \in DOMAIN q : q[j].op = "visit"
    BY <1>1, <1>3
  <1> QED BY <1>4, <1>5, <1>6, <1>7, <1>8 DEF r

\* A round that is put at the end.
LEMMA AgendaRound ==
    ASSUME NEW q \in Seq(Entries), NEW e \in Entries, e.op = "round",
           \A i \in DOMAIN q : q[i].op \notin {"round", "visit"}
    PROVE  Shape(Append(q, e)) /\ \A s : Pending(q, s) => Pending(Append(q, e), s)
  <1> DEFINE r == Append(q, e)
  <1>1. /\ Len(r) = Len(q) + 1 /\ r[Len(r)] = e /\ Len(q) \in Nat
        /\ DOMAIN r = 1..Len(r) /\ DOMAIN q = 1..Len(q)
    OBVIOUS
  <1>2. \A j \in DOMAIN q : j \in DOMAIN r /\ r[j] = q[j]
    OBVIOUS
  <1> HIDE DEF r
  <1>3. \A j \in DOMAIN r : j \in DOMAIN q \/ j = Len(r)
    BY <1>1
  <1>4. Shape(r)
    BY <1>1, <1>2, <1>3 DEF Shape
  <1>5. \A s : Pending(q, s) => Pending(r, s)
    BY <1>2 DEF Pending
  <1> QED BY <1>4, <1>5 DEF r

\* One turn around the list.
LEMMA Wraps ==
    ASSUME NEW n \in Nat \ {0}, NEW r \in 0..n - 1
    PROVE  r % n = r /\ (r + n) % n = r
  <1>1. r % n = r
    BY Z3
  <1>2. (r + n) % n = r
    BY Z3
  <1> QED BY <1>1, <1>2

\* Every stream is resumed, whichever is the first.
LEMMA AllResumed ==
    ASSUME NEW i \in DOMAIN StreamList, NEW s \in Streams
    PROVE  Pending(ResumeFrom(i), s)
  <1> DEFINE n == Len(StreamList)
             at(j) == ((i + j - 2) % n) + 1
  <1>1. DOMAIN StreamList = 1..n /\ n \in Nat \ {0} /\ i \in 1..n
    BY StreamAssumption
  <1>2. PICK k \in 1..n : StreamList[k] = s
    BY <1>1 DEF Streams, ToSet
  <1>3. \E j \in 1..n : at(j) = k
    <2>1. CASE k >= i
      <3>1. i + (k - i + 1) - 2 = k - 1 /\ k - i + 1 \in 1..n /\ k - 1 \in 0..n - 1
        BY <1>1, <2>1
      <3>2. (k - 1) % n = k - 1
        BY <1>1, <3>1, Wraps
      <3>3. at(k - i + 1) = k
        <4>1. at(k - i + 1) = ((k - 1) % n) + 1
          BY <3>1
        <4> QED BY <1>1, <3>2, <4>1
      <3> HIDE DEF at
      <3> QED BY <3>1, <3>3
    <2>2. CASE k < i
      <3>1. /\ i + (k - i + 1 + n) - 2 = k - 1 + n /\ k - i + 1 + n \in 1..n
            /\ k - 1 \in 0..n - 1
        BY <1>1, <2>2
      <3>2. (k - 1 + n) % n = k - 1
        BY <1>1, <3>1, Wraps
      <3>3. at(k - i + 1 + n) = k
        <4>1. at(k - i + 1 + n) = ((k - 1 + n) % n) + 1
          BY <3>1
        <4>2. at(k - i + 1 + n) = (k - 1) + 1
          BY <3>2, <4>1
        <4> HIDE DEF at
        <4> QED BY <1>1, <4>2
      <3> HIDE DEF at
      <3> QED BY <3>1, <3>3
    <2> QED BY <1>1, <2>1, <2>2
  <1>4. PICK j \in DOMAIN StreamList : at(j) = k
    BY <1>1, <1>3
  <1>5. j \in DOMAIN ResumeFrom(i) /\ ResumeFrom(i)[j] = Step("resume", s)
    BY <1>2, <1>4 DEF ResumeFrom
  <1> QED BY <1>5 DEF Pending, Step

\* A cell that is packaged opens no window and leaves the other streams alone.
LEMMA PackagesLingers ==
    ASSUME TInv, NEW s \in Streams, Packages(s), NEW t \in Streams, Lingers(t)',
           PackageWindow' > 0
    PROVE  Lingers(t) /\ PackageWindow > 0
  <1>1. PackageWindow > 0 /\ stream_window[s] > 0 /\ inbuf[s] > 0 /\ PackageCell(s)
    BY DEF Packages
  <1>2. /\ xoff_received' = xoff_received /\ inbuf' = [inbuf EXCEPT ![s] = @ - 1]
        /\ stream_window' = stream_window
             \/ stream_window' = [stream_window EXCEPT ![s] = @ - 1]
    BY <1>1 DEF PackageCell
  <1> QED BY <1>1, <1>2 DEF Lingers, TInv, StreamsTyped

\* No step of the sender leaves a stream behind.
LEMMA NextRInv == TInv /\ RInv /\ [Next]_vars => RInv'
  <1> SUFFICES ASSUME TInv, RInv, [Next]_vars PROVE RInv'
    OBVIOUS
  <1> USE DEF RInv
  <1>1. agenda \in Seq(Entries)
    BY DEF TInv
  <1>2. Shape(<<>>) /\ ~Resuming(<<>>)
    BY DEF Shape, Resuming
  <1>3. ASSUME agenda' = <<>> PROVE RInv'
    BY <1>2, <1>3 DEF NoneWaits, Shape, Resuming
  <1>4. ASSUME agenda # <<>>,
               \/ Shape(agenda) /\ Head(agenda).op = "visit"
               \/ Shape(agenda) /\ Head(agenda).op = "round"
        PROVE  /\ Resuming(agenda) /\ \A s \in Streams : ~Pending(agenda, s)
               /\ Head(agenda).op = "round" => Tail(agenda) = <<>>
    <2>1. Head(agenda) = agenda[1] /\ 1 \in DOMAIN agenda /\ DOMAIN agenda = 1..Len(agenda)
      BY <1>1, <1>4
    <2>2. \A j \in DOMAIN agenda : agenda[j].op = Head(agenda).op
      BY <1>1, <1>4, <2>1 DEF Shape
    <2>3. Head(agenda).op = "round" => Tail(agenda) = <<>>
      BY <1>1, <1>4, <2>1 DEF Shape
    <2> QED BY <1>4, <2>1, <2>2, <2>3 DEF Resuming, Pending
  <1>5. agenda # <<>> => Tail(agenda) \in Seq(Entries) /\ Head(agenda) \in Entries
    BY <1>1, SeqTail
  <1>6. CASE Round
    <2>1. UNCHANGED <<xoff_received, stream_window, inbuf>> /\ PackageWindow' = PackageWindow
      BY <1>6 DEF Round, streamVars, windowVars, PackageWindow
    <2>2. \A s \in Streams : ~(Lingers(s) /\ PackageWindow > 0)
      BY <1>4, <1>6 DEF Round, NoneWaits
    <2>3. \A j \in DOMAIN agenda' : agenda'[j].op = "visit"
      BY <1>6 DEF Round
    <2>4. Shape(agenda')
      BY <2>3 DEF Shape
    <2>5. Shape(agenda)' /\ NoneWaits(agenda)'
      BY <2>1, <2>2, <2>4 DEF Shape, NoneWaits, Lingers
    <2> QED BY <2>5
  <1>7. ASSUME NEW s \in Streams, Visit(s) PROVE RInv'
    <2>1. \A t \in Streams : ~(Lingers(t) /\ PackageWindow > 0)
      BY <1>4, <1>7 DEF Visit, NoneWaits
    <2>2. \A t \in Streams : ~(Lingers(t)' /\ PackageWindow' > 0)
      <3>1. Packages(s) \/ (UNCHANGED <<inbuf, xoff_received, stream_window>>
                              /\ PackageWindow' = PackageWindow)
        BY <1>7 DEF Visit, MayPackage, Packages, streamVars, windowVars, PackageWindow
      <3> QED BY <2>1, <3>1, PackagesLingers DEF Lingers
    <2>3. agenda' = <<>> \/ agenda' = Tail(agenda)
      BY <1>7 DEF Visit
    <2>4. Shape(agenda')
      BY <1>1, <1>2, <1>7, <2>3, AgendaTail DEF Visit
    <2>5. Shape(agenda)' /\ NoneWaits(agenda)'
      BY <2>2, <2>4 DEF Shape, NoneWaits
    <2> QED BY <2>5
  <1>8. ASSUME NEW s \in Streams, Pack(s) PROVE RInv'
    <2>1. agenda # <<>> /\ Head(agenda).op = "pack" /\ Head(agenda).s = s
      BY <1>8 DEF Pack
    <2>2. CASE agenda' = agenda /\ Packages(s)
      <3>1. Shape(agenda)'
        BY <2>2 DEF Shape
      <3>2. ASSUME Resuming(agenda), NEW t \in Streams, Lingers(t)', PackageWindow' > 0
            PROVE  Pending(agenda, t)
        BY <2>2, <3>2, PackagesLingers DEF NoneWaits
      <3> QED BY <2>2, <3>1, <3>2 DEF NoneWaits, Resuming, Pending
    <2>3. CASE /\ agenda' = Tail(agenda)
               /\ \/ Packages(s) /\ xoff_received[s]
                  \/ /\ UNCHANGED <<inbuf, xoff_received, stream_window>>
                     /\ PackageWindow' = PackageWindow
                     /\ PackageWindow <= 0 \/ stream_window[s] <= 0 \/ inbuf[s] = 0
      <3>1. Shape(agenda')
        BY <1>1, <2>1, <2>3, AgendaTail
      <3>2. ASSUME Resuming(agenda'), NEW t \in Streams, Lingers(t)', PackageWindow' > 0
            PROVE  Pending(agenda', t)
        <4>1. Lingers(t) /\ PackageWindow > 0
          BY <2>3, <3>2, PackagesLingers DEF Lingers
        <4>2. t # s
          <5>1. CASE Packages(s) /\ xoff_received[s]
            BY <4>1, <5>1 DEF Lingers
          <5>2. CASE PackageWindow <= 0 \/ stream_window[s] <= 0 \/ inbuf[s] = 0
            <6>1. PackageWindow \in Int /\ stream_window[s] \in Int
              BY Constants DEF TInv, StreamsTyped, WindowsTyped, PackageWindow
            <6> QED BY <4>1, <5>2, <6>1 DEF Lingers
          <5> QED BY <2>3, <5>1, <5>2
        <4>3. Pending(agenda, t)
          BY <1>1, <2>1, <2>3, <3>2, <4>1, AgendaTail DEF NoneWaits
        <4> QED BY <1>1, <2>1, <2>3, <4>2, <4>3, AgendaTail
      <3> QED BY <3>1, <3>2 DEF NoneWaits, Shape, Resuming, Pending
    <2>4. \/ agenda' = agenda /\ Packages(s)
          \/ /\ agenda' = Tail(agenda)
             /\ \/ Packages(s) /\ xoff_received[s]
                \/ /\ UNCHANGED <<inbuf, xoff_received, stream_window>>
                   /\ PackageWindow' = PackageWindow
                   /\ PackageWindow <= 0 \/ stream_window[s] <= 0 \/ inbuf[s] = 0
      BY <1>8 DEF Pack, Packages, streamVars, windowVars, PackageWindow
    <2> QED BY <2>2, <2>3, <2>4
  <1>9. ASSUME NEW s \in Streams, CountStream(s) PROVE RInv'
    <2>1. agenda # <<>> /\ Head(agenda).op = "count"
      BY <1>9 DEF CountStream
    <2>2. UNCHANGED <<inbuf, xoff_received, stream_window>> /\ PackageWindow' = PackageWindow
      BY <1>9 DEF CountStream, streamVars, windowVars, PackageWindow
    <2>3. Resuming(agenda)
      <3>1. 1 \in DOMAIN agenda /\ agenda[1].op = "count"
        BY <1>1, <2>1, SeqTail
      <3> QED BY <3>1 DEF Resuming
    <2>4. \A t \in Streams : Pending(agenda, t) => Pending(Tail(agenda), t)
      BY <1>1, <2>1, AgendaTail
    <2>5. CASE agenda' = Tail(agenda)
      <3>1. Shape(agenda')
        BY <1>1, <2>1, <2>5, AgendaTail
      <3> QED BY <2>2, <2>3, <2>4, <2>5, <3>1 DEF NoneWaits, Lingers, Shape, Resuming, Pending
    <2>6. CASE /\ Last(agenda).op # "round"
               /\ agenda' = Append(Tail(agenda), Step("round", NoStream))
      <3>1. \A i \in DOMAIN Tail(agenda) : Tail(agenda)[i].op \notin {"round", "visit"}
        <4> SUFFICES ASSUME NEW i \in DOMAIN Tail(agenda)
                     PROVE  Tail(agenda)[i].op \notin {"round", "visit"}
          OBVIOUS
        <4>1. /\ i + 1 \in DOMAIN agenda /\ Tail(agenda)[i] = agenda[i + 1]
              /\ agenda[1].op = "count" /\ 1 \in DOMAIN agenda
              /\ agenda[Len(agenda)].op # "round"
          BY <1>1, <2>1, <2>6 DEF Last
        <4> QED BY <4>1 DEF Shape
      <3>2. Step("round", NoStream) \in Entries /\ Step("round", NoStream).op = "round"
        BY StepTyped DEF Ops, Step
      <3>3. Shape(agenda') /\ \A t \in Streams : Pending(Tail(agenda), t) => Pending(agenda', t)
        BY <1>5, <2>1, <2>6, <3>1, <3>2, AgendaRound
      <3> QED BY <2>2, <2>3, <2>4, <3>3 DEF NoneWaits, Lingers, Shape, Resuming, Pending
    <2> QED BY <1>9, <2>5, <2>6 DEF CountStream
  <1>10. ASSUME NEW s \in Streams, StartReading(s) PROVE RInv'
    <2> DEFINE e == Head(agenda)
               p == IF Skipped(e) THEN <<>> ELSE ThenPack(s)
               c == ThenCount(e)
               q == Tail(agenda)
    <2>1. /\ agenda # <<>> /\ e.op \in {"start", "resume", "unblock"} /\ e.s = s
          /\ agenda' = p \o c \o q /\ q \in Seq(Entries)
      BY <1>5, <1>10 DEF StartReading
    <2>2. UNCHANGED <<inbuf, xoff_received, stream_window>> /\ PackageWindow' = PackageWindow
      BY <1>10 DEF StartReading, windowVars, PackageWindow
    <2>3. 1 \in DOMAIN agenda /\ agenda[1] = e
      BY <1>1, <2>1, SeqTail
    <2>4. \A i \in DOMAIN q : q[i].op # "visit"
      <3> SUFFICES ASSUME NEW i \in DOMAIN q PROVE q[i].op # "visit"
        OBVIOUS
      <3>1. i + 1 \in DOMAIN agenda /\ q[i] = agenda[i + 1]
        BY <1>1, <2>1
      <3> QED BY <2>1, <2>3, <3>1 DEF Shape
    <2>5. /\ Step("pack", s) \in Entries /\ Step("pack", s).op = "pack" /\ Step("pack", s).s = s
          /\ Step("count", s) \in Entries /\ Step("count", s).op = "count"
      BY StepTyped DEF Ops, Step
    <2> DEFINE r == c \o q
    <2> <<>> \in Seq(Entries) /\ <<>> \o q = q
      BY <2>1, SeqJoins
    <2>6. /\ r \in Seq(Entries) /\ Shape(r) /\ (\A i \in DOMAIN r : r[i].op # "visit")
          /\ Resuming(r) => Resuming(agenda)
          /\ \A t \in Streams : Pending(q, t) => Pending(r, t)
      <3>1. Shape(q) /\ (Resuming(q) => Resuming(agenda))
        BY <1>1, <2>1, AgendaTail
      <3>2. CASE c = <<>>
        <4>1. r = q
          BY <3>2
        <4> HIDE DEF q, r
        <4> QED BY <2>1, <2>4, <3>1, <4>1
      <3>3. CASE c = <<Step("count", s)>> /\ e.op = "resume"
        <4>1. Resuming(agenda)
          BY <2>3, <3>3 DEF Resuming
        <4>2. <<Step("count", s)>> \o q \in Seq(Entries)
          BY <2>1, <2>5, SeqConcat
        <4> HIDE DEF q, e, c
        <4> QED BY <2>1, <2>4, <2>5, <3>1, <3>3, <4>1, <4>2, AgendaPush
      <3> QED BY <2>1, <3>2, <3>3 DEF ThenCount
    <2>7. agenda' = p \o r /\ <<>> \o r = r
      <3>1. p \in Seq(Entries) /\ c \in Seq(Entries)
        <4>1. p = <<>> \/ p = <<Step("pack", s)>>
          BY DEF ThenPack
        <4>2. c = <<>> \/ c = <<Step("count", s)>>
          BY <2>1 DEF ThenCount
        <4>3. <<Step("pack", s)>> \in Seq(Entries) /\ <<Step("count", s)>> \in Seq(Entries)
          BY StepTyped DEF Ops
        <4> HIDE DEF p, c
        <4> QED BY <4>1, <4>2, <4>3
      <3> HIDE DEF p, c, q
      <3> QED BY <2>1, <2>6, <3>1, SeqJoins
    <2>8. /\ Shape(agenda') /\ (Resuming(agenda') => Resuming(agenda))
          /\ \A t \in Streams : Pending(r, t) => Pending(agenda', t)
          /\ p # <<>> => Pending(agenda', s)
      <3> HIDE DEF r
      <3>1. CASE p = <<>>
        BY <2>6, <2>7, <3>1
      <3>2. CASE p = <<Step("pack", s)>>
        <4> HIDE DEF p
        <4> QED BY <2>5, <2>6, <2>7, <3>2, AgendaPush
      <3> QED BY <3>1, <3>2 DEF ThenPack
    <2>9. ASSUME Resuming(agenda'), NEW t \in Streams, Lingers(t), PackageWindow > 0
          PROVE  Pending(agenda', t)
      <3>1. Pending(agenda, t)
        BY <2>8, <2>9 DEF NoneWaits
      <3>2. CASE Pending(q, t)
        BY <2>6, <2>8, <3>2
      <3>3. CASE e.op = "resume" /\ t = s
        <4>1. ~Skipped(e) /\ inbuf[s] > 0
          <5>1. stream_window[s] \in Int
            BY DEF TInv, StreamsTyped
          <5> QED BY <2>1, <2>9, <3>3, <5>1 DEF Lingers, Skipped
        <4>2. p # <<>>
          BY <4>1 DEF ThenPack
        <4> QED BY <2>8, <3>3, <4>2
      <3> QED BY <1>1, <2>1, <3>1, <3>2, <3>3, AgendaTail
    <2> HIDE DEF e, p, c, q, r
    <2> QED BY <2>2, <2>8, <2>9 DEF NoneWaits, Lingers, Shape, Resuming, Pending
  <1>11. CASE ReceiveReply
    <2>1. \/ agenda' = <<>> 
          \/ \E i \in DOMAIN StreamList : agenda' = ResumeFrom(i)
          \/ \E t : agenda' = <<Step("start", t)>> \/ agenda' = <<Step("start", t), Step("pack", t)>>
      BY <1>11 DEF ReceiveReply, Idle, CircuitSendme, StreamSendme, StreamXonXoff, CloseCircuit
    <2>2. ASSUME NEW i \in DOMAIN StreamList, agenda' = ResumeFrom(i) PROVE RInv'
      <3>1. \A j \in DOMAIN agenda' : agenda'[j].op = "resume"
        BY <2>2 DEF ResumeFrom, Step
      <3>2. \A t \in Streams : Pending(agenda', t)
        BY <2>2, AllResumed
      <3> QED BY <3>1, <3>2 DEF Shape, NoneWaits, Resuming, Pending
    <2>3. ASSUME NEW t, agenda' = <<Step("start", t)>> \/ agenda' = <<Step("start", t), Step("pack", t)>>
          PROVE  RInv'
      <3>1. \A j \in DOMAIN agenda' : agenda'[j].op \in {"start", "pack"}
        BY <2>3 DEF Step
      <3> QED BY <3>1 DEF Shape, NoneWaits, Resuming
    <2> QED BY <1>3, <2>1, <2>2, <2>3
  <1>12. CASE FlushCell
    <2>1. \A j \in DOMAIN agenda' : agenda'[j].op = "unblock"
      BY <1>12 DEF FlushCell, Step
    <2> QED BY <2>1 DEF Shape, NoneWaits, Resuming
  <1>13. ASSUME NEW s \in Streams, ReadEvent(s) PROVE RInv'
    <2>1. \A j \in DOMAIN agenda' : agenda'[j].op = "pack"
      BY <1>13 DEF ReadEvent, Step
    <2> QED BY <2>1 DEF Shape, NoneWaits, Resuming
  <1>14. CASE SendControl \/ ReceiveControl \/ ReceiveData \/ \E s \in Streams : Drain(s)
    <2>1. agenda' = <<>>
      BY <1>14 DEF SendControl, ReceiveControl, ReceiveData, Drain, Idle
    <2> QED BY <1>3, <2>1
  <1>15. CASE UNCHANGED vars
    BY <1>15 DEF vars, streamVars, windowVars, Shape, NoneWaits, Resuming, Pending, Lingers,
       PackageWindow
  <1> QED BY <1>6, <1>7, <1>8, <1>9, <1>10, <1>11, <1>12, <1>13, <1>14, <1>15 DEF Next

\* circuit_resume_edge_reading_helper: connection_start_reading leaves nothing to
\* the rounds but the streams that were told to stop, for any streams, windows
\* and queue, so no cell of a round is counted and there is no second round.
THEOREM RoundsAreForXoff == Spec => []OnlyXoffInRounds
  <1>1. Init => TInv /\ RInv
    <2>1. Init => RInv
      BY DEF Init, RInv, Shape, NoneWaits, Resuming
    <2> QED BY <2>1, InitTInv
  <1>2. TInv /\ RInv /\ [Next]_vars => TInv' /\ RInv'
    BY NextTInv, NextRInv
  <1>3. ASSUME TInv, RInv PROVE OnlyXoffInRounds
    <2> SUFFICES ASSUME NEW s \in Streams, agenda # <<>>, Head(agenda).op = "visit",
                        MayPackage(s)
                 PROVE  xoff_received[s]
      BY DEF OnlyXoffInRounds
    <2>1. 1 \in DOMAIN agenda /\ agenda[1].op = "visit"
      BY <1>3, SeqTail DEF TInv
    <2>2. \A j \in DOMAIN agenda : agenda[j].op = "visit"
      BY <1>3, <2>1 DEF RInv, Shape
    <2>3. Resuming(agenda) /\ ~Pending(agenda, s)
      BY <2>1, <2>2 DEF Resuming, Pending
    <2> QED BY <1>3, <2>3 DEF RInv, NoneWaits, Lingers, MayPackage, TInv, StreamsTyped
  <1> QED BY <1>1, <1>2, <1>3, PTL DEF Spec

=============================================================================
