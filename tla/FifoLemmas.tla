----------------------------- MODULE FifoLemmas -----------------------------
(***************************************************************************)
(* What the proofs of the conduits keep needing about a fifo of messages:  *)
(* how many messages of some kinds are in it, and which part of a stream   *)
(* of contents it carries, when messages go in at its end and come out at  *)
(* its head.                                                               *)
(***************************************************************************)
EXTENDS Naturals, Sequences, FiniteSets, SequencesExt, FiniteSetTheorems, TLAPS

\* A message put in at the end is there, with what was there before.
LEMMA PutIn ==
  ASSUME NEW S, NEW q \in Seq(S), NEW m \in S
  PROVE  ToSet(Append(q, m)) = ToSet(q) \cup {m}
<1>1. /\ DOMAIN q = 1..Len(q) /\ DOMAIN Append(q, m) = 1..(Len(q) + 1) /\ Len(q) \in Nat
      /\ Append(q, m)[Len(q) + 1] = m /\ \A i \in 1..Len(q) : Append(q, m)[i] = q[i]
  OBVIOUS
<1>. QED  BY <1>1 DEF ToSet

\* The message taken from the head was there, and so was what is left.
LEMMA TakenOut ==
  ASSUME NEW S, NEW q \in Seq(S), q # <<>>
  PROVE  Head(q) \in ToSet(q) /\ ToSet(Tail(q)) \subseteq ToSet(q)
<1>1. /\ DOMAIN q = 1..Len(q) /\ DOMAIN Tail(q) = 1..(Len(q) - 1) /\ Len(q) \in Nat \ {0}
      /\ Head(q) = q[1] /\ \A i \in 1..(Len(q) - 1) : Tail(q)[i] = q[i + 1]
  OBVIOUS
<1>. QED  BY <1>1 DEF ToSet

\* The number of messages in q of a kind in K.
Count(q, K) == Cardinality({i \in DOMAIN q : q[i].kind \in K})

\* What one message adds to it.
One(m, K) == IF m.kind \in K THEN 1 ELSE 0

\* A fifo holds a finite number of messages of any kinds.
LEMMA CountNat ==
  ASSUME NEW S, NEW q \in Seq(S), NEW K
  PROVE  /\ Count(q, K) \in Nat
         /\ IsFiniteSet({i \in DOMAIN q : q[i].kind \in K})
<1>1. IsFiniteSet(1..Len(q))
  BY FS_Interval
<1>2. {i \in DOMAIN q : q[i].kind \in K} \subseteq 1..Len(q)
  OBVIOUS
<1>. QED  BY <1>1, <1>2, FS_Subset, FS_CardinalityType DEF Count

\* There are none in an empty fifo.
LEMMA CountEmpty == ASSUME NEW K PROVE Count(<<>>, K) = 0
<1>1. {i \in DOMAIN <<>> : <<>>[i].kind \in K} = {}
  OBVIOUS
<1>. QED  BY <1>1, FS_EmptySet DEF Count

\* None means that no message is of these kinds.
LEMMA CountZero ==
  ASSUME NEW S, NEW q \in Seq(S), NEW K
  PROVE  Count(q, K) = 0 <=> \A m \in ToSet(q) : m.kind \notin K
<1>. DEFINE Hits == {i \in DOMAIN q : q[i].kind \in K}
<1>1. IsFiniteSet(Hits) /\ Count(q, K) = Cardinality(Hits)
  BY CountNat DEF Count
<1>. HIDE DEF Hits
<1>2. Hits = {} <=> Count(q, K) = 0
  BY ONLY <1>1, FS_EmptySet
<1>. QED  BY <1>2 DEF ToSet, Hits

\* The more kinds, the more messages.
LEMMA CountMore ==
  ASSUME NEW S, NEW q \in Seq(S), NEW K, NEW L, K \subseteq L
  PROVE  Count(q, K) <= Count(q, L)
<1>. DEFINE T == {i \in DOMAIN q : q[i].kind \in K}
            U == {i \in DOMAIN q : q[i].kind \in L}
<1>1. IsFiniteSet(U)
  BY CountNat
<1>2. T \subseteq U
  OBVIOUS
<1>3. Cardinality(T) <= Cardinality(U)
  BY ONLY <1>1, <1>2, FS_Subset
<1>. QED  BY <1>3 DEF Count

\* A message put in at the end counts when it is of one of the kinds.
LEMMA CountAppend ==
  ASSUME NEW S, NEW q \in Seq(S), NEW m \in S, NEW K
  PROVE  Count(Append(q, m), K) = Count(q, K) + One(m, K)
<1>. DEFINE T == {i \in DOMAIN q : q[i].kind \in K}
            p == Append(q, m)
            U == {i \in DOMAIN p : p[i].kind \in K}
<1>1. /\ DOMAIN q = 1..Len(q) /\ DOMAIN p = 1..(Len(q) + 1) /\ Len(q) \in Nat
      /\ p[Len(q) + 1] = m /\ \A i \in 1..Len(q) : p[i] = q[i]
  OBVIOUS
<1>2. IsFiniteSet(T) /\ Cardinality(T) \in Nat
  BY CountNat DEF Count
<1>5. Count(p, K) = Cardinality(U) /\ Count(q, K) = Cardinality(T)
  BY DEF Count
<1>3. CASE m.kind \in K
  <2>1. U = T \cup {Len(q) + 1} /\ Len(q) + 1 \notin T
    BY <1>1, <1>3
  <2>2. Cardinality(T \cup {Len(q) + 1}) = Cardinality(T) + 1
    BY ONLY <2>1, <1>2, FS_AddElement
  <2>. QED  BY <2>1, <2>2, <1>2, <1>3, <1>5 DEF One
<1>4. CASE m.kind \notin K
  <2>1. U = T
    BY <1>1, <1>4
  <2>. HIDE DEF T, U, p
  <2>2. Count(p, K) = Count(q, K) /\ One(m, K) = 0 /\ Count(q, K) \in Nat
    BY <2>1, <1>2, <1>4, <1>5 DEF One
  <2>. QED  BY <2>2 DEF p
<1>. QED  BY <1>3, <1>4

\* The message taken from the head no longer counts.
LEMMA CountTail ==
  ASSUME NEW S, NEW q \in Seq(S), q # <<>>, NEW K
  PROVE  Count(Tail(q), K) = Count(q, K) - One(Head(q), K)
<1>. DEFINE p == Tail(q)
            T == {i \in DOMAIN q : q[i].kind \in K}
            U == {i \in DOMAIN p : p[i].kind \in K}
            V == T \ {1}
            f == [i \in U |-> i + 1]
<1>1. /\ DOMAIN q = 1..Len(q) /\ DOMAIN p = 1..(Len(q) - 1) /\ Len(q) \in Nat \ {0}
      /\ Head(q) = q[1] /\ \A i \in 1..(Len(q) - 1) : p[i] = q[i + 1]
  OBVIOUS
<1>2. IsFiniteSet(T) /\ Cardinality(T) \in Nat
  BY CountNat DEF Count
<1>3. IsFiniteSet(U)
  <2>1. p \in Seq(S)
    OBVIOUS
  <2>. QED  BY <2>1, CountNat
<1>4. ExistsBijection(U, V)
  <2>1. f \in [U -> V]
    <3>1. ASSUME NEW i \in U PROVE i + 1 \in V
      BY <1>1
    <3>. QED  BY <3>1
  <2>2. \A a, b \in U : f[a] = f[b] => a = b
    BY <1>1
  <2>3. ASSUME NEW t \in V PROVE \E i \in U : f[i] = t
    <3>1. t - 1 \in U
      BY <1>1
    <3>. QED  BY <3>1, <1>1
  <2>4. f \in Bijection(U, V)
    BY <2>1, <2>2, <2>3 DEF Bijection, Injection, Surjection, IsInjective
  <2>. HIDE DEF f, U, V
  <2>. QED  BY <2>4 DEF ExistsBijection
<1>5. Cardinality(U) = Cardinality(V)
  <2>. HIDE DEF U, V
  <2>. QED  BY <1>3, <1>4, FS_Bijection
<1>6. Cardinality(V) = IF 1 \in T THEN Cardinality(T) - 1 ELSE Cardinality(T)
  <2>. HIDE DEF T
  <2>. QED  BY <1>2, FS_RemoveElement
<1>7. 1 \in T <=> Head(q).kind \in K
  BY <1>1
<1>8. Count(Tail(q), K) = Cardinality(U) /\ Count(q, K) = Cardinality(T)
  BY DEF Count
<1>. HIDE DEF T, U, V
<1>. QED  BY <1>2, <1>5, <1>6, <1>7, <1>8 DEF One

-----------------------------------------------------------------------------
\* A message that carries a piece of the stream.
Carrier(m) == m.kind \in {"send", "proxy"}

\* The carriers in q hold w[k+1], ..., w[l] in this order, and q holds no more;
\* f counts how far the stream has come after each message.
Carries(q, w, k, l) ==
    \E f \in [0..Len(q) -> Nat] :
        /\ f[0] = k /\ f[Len(q)] = l
        /\ \A i, j \in 0..Len(q) : i <= j => f[i] <= f[j]
        /\ \A i \in 1..Len(q) :
              /\ f[i] = f[i - 1] + (IF Carrier(q[i]) THEN 1 ELSE 0)
              /\ Carrier(q[i]) => w[f[i]] = q[i].n

\* An empty fifo carries nothing.
LEMMA CarriesNone == ASSUME NEW w, NEW k \in Nat PROVE Carries(<<>>, w, k, k)
<1>. DEFINE f == [i \in 0..0 |-> k]
<1>1. Len(<<>>) = 0
  OBVIOUS
<1>2. f \in [0..Len(<<>>) -> Nat] /\ \A i \in 0..0 : f[i] = k
  BY <1>1
<1>. HIDE DEF f
<1>. QED  BY <1>1, <1>2 DEF Carries

\* The piece a fifo carries ends where it begins or later.
LEMMA CarriesRange ==
  ASSUME NEW S, NEW q \in Seq(S), NEW w, NEW k, NEW l, Carries(q, w, k, l)
  PROVE  k \in Nat /\ l \in Nat /\ k <= l
<1>. Len(q) \in Nat
  OBVIOUS
<1>. QED  BY DEF Carries

\* A message that carries nothing leaves the piece as it is.
LEMMA CarriesPlain ==
  ASSUME NEW S, NEW q \in Seq(S), NEW m \in S, NEW w, NEW k, NEW l,
         Carries(q, w, k, l), ~ Carrier(m)
  PROVE  Carries(Append(q, m), w, k, l)
<1>. DEFINE p == Append(q, m)
<1>1. /\ Len(q) \in Nat /\ Len(p) = Len(q) + 1
      /\ p[Len(q) + 1] = m /\ \A i \in 1..Len(q) : p[i] = q[i]
  OBVIOUS
<1>2. PICK f \in [0..Len(q) -> Nat] :
        /\ f[0] = k /\ f[Len(q)] = l
        /\ \A i, j \in 0..Len(q) : i <= j => f[i] <= f[j]
        /\ \A i \in 1..Len(q) :
              /\ f[i] = f[i - 1] + (IF Carrier(q[i]) THEN 1 ELSE 0)
              /\ Carrier(q[i]) => w[f[i]] = q[i].n
  BY DEF Carries
<1>. DEFINE g == [i \in 0..(Len(q) + 1) |-> IF i = Len(q) + 1 THEN l ELSE f[i]]
<1>3. /\ \A i \in 0..Len(q) : g[i] = f[i]
      /\ g[Len(q) + 1] = l /\ l \in Nat
      /\ g \in [0..(Len(q) + 1) -> Nat]
  BY <1>1, <1>2
<1>. HIDE DEF p, g
<1>4. ASSUME NEW i \in 0..Len(p), NEW j \in 0..Len(p), i <= j PROVE g[i] <= g[j]
  <2>1. CASE j \in 0..Len(q)
    <3>1. i \in 0..Len(q)
      BY <2>1, <1>1, <1>4
    <3>2. g[i] = f[i] /\ g[j] = f[j]
      BY <2>1, <3>1, <1>3
    <3>. QED  BY <2>1, <3>1, <3>2, <1>2, <1>4
  <2>2. CASE j = Len(q) + 1 /\ i \in 0..Len(q)
    <3>1. g[i] = f[i] /\ Len(q) \in 0..Len(q) /\ i <= Len(q) /\ f[i] \in Nat
      BY <2>2, <1>1, <1>2, <1>3
    <3>2. f[i] <= l
      BY <2>2, <3>1, <1>2
    <3>. QED  BY <2>2, <3>1, <3>2, <1>2, <1>3
  <2>3. CASE j = Len(q) + 1 /\ i = Len(q) + 1
    <3>1. g[i] \in Nat
      BY <1>1, <1>3
    <3>. QED  BY <2>3, <3>1
  <2>. QED  BY <2>1, <2>2, <2>3, <1>1, <1>4
<1>5. ASSUME NEW i \in 1..Len(p)
      PROVE  /\ g[i] = g[i - 1] + (IF Carrier(p[i]) THEN 1 ELSE 0)
             /\ Carrier(p[i]) => w[g[i]] = p[i].n
  <2>1. CASE i = Len(q) + 1
    BY <2>1, <1>1, <1>2, <1>3
  <2>2. CASE i \in 1..Len(q)
    <3>1. i \in 0..Len(q) /\ i - 1 \in 0..Len(q)
      BY <2>2, <1>1
    <3>2. g[i] = f[i] /\ g[i - 1] = f[i - 1] /\ p[i] = q[i]
      BY <2>2, <3>1, <1>1, <1>3
    <3>. QED  BY <2>2, <3>2, <1>2
  <2>. QED  BY <2>1, <2>2, <1>1
<1>6. g \in [0..Len(p) -> Nat] /\ g[0] = k /\ g[Len(p)] = l
  BY <1>1, <1>2, <1>3
<1>7. Carries(p, w, k, l)
  BY <1>4, <1>5, <1>6 DEF Carries
<1>. QED  BY <1>7 DEF p

\* A carrier makes it longer by what comes next in the stream.
LEMMA CarriesNext ==
  ASSUME NEW S, NEW q \in Seq(S), NEW m \in S, NEW w, NEW k, NEW l,
         Carries(q, w, k, l), Carrier(m), w[l + 1] = m.n
  PROVE  Carries(Append(q, m), w, k, l + 1)
<1>. DEFINE p == Append(q, m)
<1>1. /\ Len(q) \in Nat /\ Len(p) = Len(q) + 1
      /\ p[Len(q) + 1] = m /\ \A i \in 1..Len(q) : p[i] = q[i]
  OBVIOUS
<1>2. PICK f \in [0..Len(q) -> Nat] :
        /\ f[0] = k /\ f[Len(q)] = l
        /\ \A i, j \in 0..Len(q) : i <= j => f[i] <= f[j]
        /\ \A i \in 1..Len(q) :
              /\ f[i] = f[i - 1] + (IF Carrier(q[i]) THEN 1 ELSE 0)
              /\ Carrier(q[i]) => w[f[i]] = q[i].n
  BY DEF Carries
<1>. DEFINE g == [i \in 0..(Len(q) + 1) |-> IF i = Len(q) + 1 THEN l + 1 ELSE f[i]]
<1>3. /\ \A i \in 0..Len(q) : g[i] = f[i]
      /\ g[Len(q) + 1] = l + 1 /\ l \in Nat
      /\ g \in [0..(Len(q) + 1) -> Nat]
  BY <1>1, <1>2
<1>. HIDE DEF p, g
<1>4. ASSUME NEW i \in 0..Len(p), NEW j \in 0..Len(p), i <= j PROVE g[i] <= g[j]
  <2>1. CASE j \in 0..Len(q)
    <3>1. i \in 0..Len(q)
      BY <2>1, <1>1, <1>4
    <3>2. g[i] = f[i] /\ g[j] = f[j]
      BY <2>1, <3>1, <1>3
    <3>. QED  BY <2>1, <3>1, <3>2, <1>2, <1>4
  <2>2. CASE j = Len(q) + 1 /\ i \in 0..Len(q)
    <3>1. g[i] = f[i] /\ Len(q) \in 0..Len(q) /\ i <= Len(q) /\ f[i] \in Nat
      BY <2>2, <1>1, <1>2, <1>3
    <3>2. f[i] <= l
      BY <2>2, <3>1, <1>2
    <3>. QED  BY <2>2, <3>1, <3>2, <1>2, <1>3
  <2>3. CASE j = Len(q) + 1 /\ i = Len(q) + 1
    <3>1. g[i] \in Nat
      BY <1>1, <1>3
    <3>. QED  BY <2>3, <3>1
  <2>. QED  BY <2>1, <2>2, <2>3, <1>1, <1>4
<1>5. ASSUME NEW i \in 1..Len(p)
      PROVE  /\ g[i] = g[i - 1] + (IF Carrier(p[i]) THEN 1 ELSE 0)
             /\ Carrier(p[i]) => w[g[i]] = p[i].n
  <2>1. CASE i = Len(q) + 1
    BY <2>1, <1>1, <1>2, <1>3
  <2>2. CASE i \in 1..Len(q)
    <3>1. i \in 0..Len(q) /\ i - 1 \in 0..Len(q)
      BY <2>2, <1>1
    <3>2. g[i] = f[i] /\ g[i - 1] = f[i - 1] /\ p[i] = q[i]
      BY <2>2, <3>1, <1>1, <1>3
    <3>. QED  BY <2>2, <3>2, <1>2
  <2>. QED  BY <2>1, <2>2, <1>1
<1>6. g \in [0..Len(p) -> Nat] /\ g[0] = k /\ g[Len(p)] = l + 1
  BY <1>1, <1>2, <1>3
<1>7. Carries(p, w, k, l + 1)
  BY <1>4, <1>5, <1>6 DEF Carries
<1>. QED  BY <1>7 DEF p

\* The message taken from the head is the first of the piece, when it is a
\* carrier, and the fifo carries the rest of it.
LEMMA CarriesTail ==
  ASSUME NEW S, NEW q \in Seq(S), q # <<>>, NEW w, NEW k, NEW l, Carries(q, w, k, l)
  PROVE  /\ Carrier(Head(q)) => /\ w[k + 1] = Head(q).n /\ k + 1 <= l
                                /\ Carries(Tail(q), w, k + 1, l)
         /\ ~ Carrier(Head(q)) => Carries(Tail(q), w, k, l)
<1>. DEFINE p == Tail(q)
<1>1. /\ Len(q) \in Nat \ {0} /\ Len(p) = Len(q) - 1
      /\ Head(q) = q[1] /\ \A i \in 1..Len(p) : p[i] = q[i + 1]
  OBVIOUS
<1>2. PICK f \in [0..Len(q) -> Nat] :
        /\ f[0] = k /\ f[Len(q)] = l
        /\ \A i, j \in 0..Len(q) : i <= j => f[i] <= f[j]
        /\ \A i \in 1..Len(q) :
              /\ f[i] = f[i - 1] + (IF Carrier(q[i]) THEN 1 ELSE 0)
              /\ Carrier(q[i]) => w[f[i]] = q[i].n
  BY DEF Carries
<1>. DEFINE g == [i \in 0..Len(p) |-> f[i + 1]]
<1>3. g \in [0..Len(p) -> Nat] /\ \A i \in 0..Len(p) : g[i] = f[i + 1]
  BY <1>1
<1>4. /\ f[1] = k + (IF Carrier(Head(q)) THEN 1 ELSE 0)
      /\ Carrier(Head(q)) => w[f[1]] = Head(q).n
      /\ f[1] <= l
  <2>1. 1 \in 1..Len(q) /\ 1 - 1 = 0 /\ 1 \in 0..Len(q) /\ Len(q) \in 0..Len(q) /\ 1 <= Len(q)
    BY <1>1
  <2>. QED  BY <1>1, <1>2, <2>1
<1>. HIDE DEF p, g
<1>5. ASSUME NEW i \in 0..Len(p), NEW j \in 0..Len(p), i <= j PROVE g[i] <= g[j]
  <2>1. i + 1 \in 0..Len(q) /\ j + 1 \in 0..Len(q) /\ i + 1 <= j + 1
    BY <1>1, <1>5
  <2>2. g[i] = f[i + 1] /\ g[j] = f[j + 1]
    BY <1>3
  <2>. QED  BY <2>1, <2>2, <1>2
<1>6. ASSUME NEW i \in 1..Len(p)
      PROVE  /\ g[i] = g[i - 1] + (IF Carrier(p[i]) THEN 1 ELSE 0)
             /\ Carrier(p[i]) => w[g[i]] = p[i].n
  <2>1. i + 1 \in 1..Len(q) /\ (i + 1) - 1 = (i - 1) + 1 /\ i - 1 \in 0..Len(p) /\ i \in 0..Len(p)
    BY <1>1
  <2>2. g[i] = f[i + 1] /\ g[i - 1] = f[(i + 1) - 1] /\ p[i] = q[i + 1]
    BY <2>1, <1>1, <1>3
  <2>. QED  BY <2>1, <2>2, <1>2
<1>7. g[0] = f[1] /\ g[Len(p)] = l
  BY <1>1, <1>2, <1>3
<1>8. Carries(p, w, f[1], l)
  BY <1>3, <1>5, <1>6, <1>7 DEF Carries
<1>9. k \in Nat
  BY <1>2, <1>1
<1>. QED  BY <1>4, <1>8, <1>9 DEF p

\* What is put in at the end of the stream does not matter to what is carried.
LEMMA CarriesGrow ==
  ASSUME NEW S, NEW q \in Seq(S), NEW T, NEW w \in Seq(T), NEW x, NEW k, NEW l,
         Carries(q, w, k, l), l <= Len(w)
  PROVE  Carries(q, Append(w, x), k, l)
<1>. DEFINE v == Append(w, x)
<1>1. Len(q) \in Nat /\ Len(w) \in Nat /\ \A i \in 1..Len(w) : v[i] = w[i]
  OBVIOUS
<1>2. PICK f \in [0..Len(q) -> Nat] :
        /\ f[0] = k /\ f[Len(q)] = l
        /\ \A i, j \in 0..Len(q) : i <= j => f[i] <= f[j]
        /\ \A i \in 1..Len(q) :
              /\ f[i] = f[i - 1] + (IF Carrier(q[i]) THEN 1 ELSE 0)
              /\ Carrier(q[i]) => w[f[i]] = q[i].n
  BY DEF Carries
<1>3. ASSUME NEW i \in 1..Len(q), Carrier(q[i]) PROVE v[f[i]] = q[i].n
  <2>1. /\ i \in 0..Len(q) /\ Len(q) \in 0..Len(q) /\ i <= Len(q)
        /\ i - 1 \in 0..Len(q)
    BY <1>1
  <2>2. f[i] <= l /\ f[i] = f[i - 1] + 1 /\ f[i - 1] \in Nat
    BY <1>2, <1>3, <2>1
  <2>3. f[i] \in 1..Len(w)
    BY <1>1, <2>2
  <2>4. v[f[i]] = w[f[i]] /\ w[f[i]] = q[i].n
    BY <1>1, <1>2, <1>3, <2>3
  <2>. QED  BY <2>4
<1>. HIDE DEF v
<1>4. Carries(q, v, k, l)
  BY <1>2, <1>3 DEF Carries
<1>. QED  BY <1>4 DEF v
=============================================================================
