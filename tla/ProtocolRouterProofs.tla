------------------------ MODULE ProtocolRouterProofs ------------------------
(***************************************************************************)
(* Theorems about the protocol router, for any protocols, parents, clients *)
(* and children, and any pattern of exits and kills:                       *)
(*   - TypeCorrect;                                                        *)
(*   - OneClientHolds: two clients never get the same surrogate;           *)
(*   - ParentIsTrackedHolds: with a slot for each parent, no blocked       *)
(*     parent is forgotten or counted twice.                               *)
(*                                                                         *)
(* Neither property is inductive.  What carries them is the life of one    *)
(* announcement: it waits in the box of the router, then in one slot of    *)
(* the table, and its child stays the child of the parent that made it     *)
(* until the parent has been unblocked.                                    *)
(***************************************************************************)
EXTENDS ProtocolRouter, FiniteSets, FiniteSetTheorems, WellFoundedInduction, TLAPS

\* A slot for each parent: the condition under which no offer is dropped.
Room == IsFiniteSet(Parent) /\ Cardinality(Parent) <= Slots

Announced == {"blocked", "gone", "killed"}

\* Nobody waits in the box twice; who waits there has not been taken yet.
BoxInv ==
    /\ \A i, j \in 1..Len(box) : box[i] = box[j] => i = j
    /\ \A p \in Parent : InBox(p) => parent[p] \in Announced /\ ~ InTable(p)
    /\ \A c \in Client : InBox(c) => client[c] = "asked"

\* A parent has at most one offer, of the child that it forked last.
TableInv ==
    /\ \A i, j \in Slot : \A o \in table[i], q \in table[j] :
           o.by = q.by => i = j /\ o = q
    /\ \A i \in Slot : \A o, q \in table[i] : o = q
    /\ \A i \in Slot : \A o \in table[i] :
           parent[o.by] \in Announced /\ o.kid \in kid[o.by]

\* A child has one parent, and every child of somebody was forked.
KidInv ==
    /\ \A p \in Parent : \A k, l \in kid[p] : k = l
    /\ \A p \in Parent : \A k \in kid[p] : child[k] # "none"
    /\ \A p, q \in Parent : kid[p] \cap kid[q] # {} => p = q
    /\ \A p \in Parent : parent[p] \in {"send", "blocked"} => kid[p] # {}

\* What was given away is not on offer any more, nor on its way to the table.
GivenInv ==
    /\ OneClientPerSurrogate
    /\ \A c \in Client : \A k \in given[c] : child[k] # "none"
    /\ \A c \in Client, p \in Parent : kid[p] \cap given[c] # {} =>
           parent[p] \notin {"send", "blocked"} /\ ~ InBox(p) /\ ~ InTable(p)

Tracked ==
    (Room /\ router = "up") => \A p \in Parent :
        parent[p] = "blocked" => InBox(p) \/ InTable(p)

IInv == TypeOK /\ BoxInv /\ TableInv /\ KidInv /\ GivenInv /\ Tracked

-----------------------------------------------------------------------------
(* Data: the first of a set of slots, and the box as a queue.              *)

\* FirstOf picks a member of any set of slots that is not empty.
LEMMA FirstIn == ASSUME NEW S, S \subseteq Slot, S # {} PROVE FirstOf(S) \in S
<1>1. S \subseteq Nat
  BY BoundsAssumption DEF Slot
<1>. DEFINE less == OpToRel(<, Nat)
<1>2. IsWellFoundedOn(less, Nat)
  BY NatLessThanWellFounded
<1>3. ASSUME NEW x \in Nat, NEW y \in Nat, y < x PROVE <<y, x>> \in less
  <2>1. <<y, x>> \in Nat \X Nat
    OBVIOUS
  <2>2. <<y, x>>[1] < <<y, x>>[2]
    BY <1>3
  <2>. QED  BY ONLY <2>1, <2>2, Zenon DEF OpToRel
<1>. HIDE DEF less
<1>4. PICK x \in S : \A y \in S : ~ (<<y, x>> \in less)
  BY <1>1, <1>2, WFMin
<1>5. ASSUME NEW y \in S PROVE x <= y
  <2>1. x \in Nat /\ y \in Nat
    BY <1>1
  <2>2. ~ (y < x)
    BY <1>3, <1>4, <2>1, Zenon
  <2>. QED  BY <2>1, <2>2
<1>. QED  BY <1>5 DEF FirstOf

\* Receive takes the first message and leaves the others as they are.
LEMMA Taken ==
    ASSUME TypeOK, BoxInv, box # <<>>, box' = Tail(box)
    PROVE  /\ box' \in Seq(Parent \cup Client)
           /\ \A i, j \in 1..Len(box') : box'[i] = box'[j] => i = j
           /\ \A x : InBox(x)' <=> InBox(x) /\ x # Head(box)
<1>1. box \in Seq(Parent \cup Client)
  BY DEF TypeOK
<1>2. /\ box' \in Seq(Parent \cup Client) /\ Len(box) \in Nat \ {0}
      /\ Len(box') = Len(box) - 1 /\ \A i \in 1..Len(box') : box'[i] = box[i + 1]
  BY <1>1
<1>3. \A i, j \in 1..Len(box') : box'[i] = box'[j] => i = j
  BY <1>2 DEF BoxInv
<1>4. ASSUME NEW x PROVE InBox(x)' <=> InBox(x) /\ x # Head(box)
  <2>1. Head(box) = box[1] /\ DOMAIN box = 1..Len(box) /\ DOMAIN box' = 1..Len(box')
    BY <1>1, <1>2
  <2>2. ASSUME NEW i \in 1..Len(box'), box'[i] = x PROVE InBox(x) /\ x # Head(box)
    BY <1>2, <2>1, <2>2 DEF InBox, BoxInv
  <2>3. ASSUME NEW i \in 1..Len(box), box[i] = x, x # Head(box) PROVE InBox(x)'
    <3>1. i # 1 /\ i - 1 \in 1..Len(box') /\ box'[i - 1] = x
      BY <1>2, <2>1, <2>3
    <3>. QED  BY <3>1, <2>1 DEF InBox
  <2>. QED  BY <2>1, <2>2, <2>3 DEF InBox
<1>. QED  BY <1>2, <1>3, <1>4

\* A Send puts its sender at the end of the box.
LEMMA Queued ==
    ASSUME TypeOK, BoxInv, NEW s \in Parent \cup Client, ~ InBox(s), box' = Append(box, s)
    PROVE  /\ box' \in Seq(Parent \cup Client)
           /\ \A i, j \in 1..Len(box') : box'[i] = box'[j] => i = j
           /\ \A x : InBox(x)' <=> InBox(x) \/ x = s
<1>1. box \in Seq(Parent \cup Client)
  BY DEF TypeOK
<1>2. /\ box' \in Seq(Parent \cup Client) /\ Len(box) \in Nat
      /\ Len(box') = Len(box) + 1 /\ box'[Len(box) + 1] = s
      /\ \A i \in 1..Len(box) : box'[i] = box[i]
      /\ DOMAIN box = 1..Len(box) /\ DOMAIN box' = 1..Len(box')
  BY <1>1
<1>3. \A i \in 1..Len(box) : box[i] # s
  BY <1>2 DEF InBox
<1>4. \A i, j \in 1..Len(box') : box'[i] = box'[j] => i = j
  BY <1>2, <1>3 DEF BoxInv
<1>5. ASSUME NEW x PROVE InBox(x)' <=> InBox(x) \/ x = s
  <2>1. ASSUME NEW i \in 1..Len(box'), box'[i] = x PROVE InBox(x) \/ x = s
    <3>1. i \in 1..Len(box) \/ i = Len(box) + 1
      BY <1>2
    <3>. QED  BY <1>2, <2>1, <3>1 DEF InBox
  <2>2. ASSUME NEW i \in 1..Len(box), box[i] = x PROVE InBox(x)'
    <3>1. i \in 1..Len(box') /\ box'[i] = x
      BY <1>2, <2>2
    <3>. QED  BY <1>2, <3>1 DEF InBox
  <2>3. ASSUME x = s PROVE InBox(x)'
    <3>1. Len(box) + 1 \in 1..Len(box')
      BY <1>2
    <3>. QED  BY <1>2, <2>3, <3>1 DEF InBox
  <2>. QED  BY <1>2, <2>1, <2>2, <2>3 DEF InBox
<1>. QED  BY <1>2, <1>4, <1>5

\* With a slot for each parent there is one for a parent without an offer.
LEMMA RoomForOne ==
    ASSUME TypeOK, TableInv, Room, NEW p \in Parent, ~ InTable(p)
    PROVE  Free # {}
<1>. SUFFICES ASSUME Free = {} PROVE FALSE
  OBVIOUS
<1>. DEFINE f == [i \in Slot |-> (CHOOSE o \in table[i] : TRUE).by]
            others == Parent \ {p}
<1>1. \A i \in Slot : \E o \in table[i] : f[i] = o.by
  BY DEF Free
<1>2. f \in [Slot -> others]
  <2>1. ASSUME NEW i \in Slot PROVE f[i] \in others
    <3>1. PICK o \in table[i] : f[i] = o.by
      BY <1>1
    <3>2. o.by \in Parent
      BY DEF TypeOK, Offer
    <3>. QED  BY <3>1, <3>2 DEF InTable
  <2>. QED  BY <2>1
<1>3. IsFiniteSet(Slot) /\ Cardinality(Slot) = Slots
  BY BoundsAssumption, FS_Interval DEF Slot
<1>4. IsFiniteSet(others) /\ Cardinality(others) < Cardinality(Slot)
  <2>1. IsFiniteSet(others) /\ Cardinality(others) = Cardinality(Parent) - 1
    BY FS_RemoveElement DEF Room
  <2>2. Cardinality(Parent) \in Nat /\ Slots \in Nat
    BY FS_CardinalityType, BoundsAssumption DEF Room
  <2>. QED  BY <1>3, <2>1, <2>2 DEF Room
<1>5. PICK x, y \in Slot : x # y /\ f[x] = f[y]
  <2>. HIDE DEF f, others
  <2>. QED  BY <1>2, <1>3, <1>4, FS_PigeonHole
<1>. QED  BY <1>1, <1>5 DEF TableInv

-----------------------------------------------------------------------------
(* -- The steps of the parents, children and clients.                      *)

\* The router starts with empty tables and nobody waiting.
LEMMA InitInv == Init => IInv
<1>. SUFFICES ASSUME Init PROVE IInv
  OBVIOUS
<1>1. TypeOK /\ \A x : ~ InBox(x)
  BY BoundsAssumption DEF Init, TypeOK, Slot, InBox
<1>2. \A p : ~ InTable(p)
  BY DEF Init, InTable
<1>3. BoxInv /\ TableInv /\ Tracked
  BY <1>1, <1>2 DEF Init, BoxInv, TableInv, Tracked, Slot
<1>4. KidInv /\ GivenInv
  BY DEF Init, KidInv, GivenInv, OneClientPerSurrogate
<1>. QED  BY <1>1, <1>3, <1>4 DEF IInv

\* A fork takes a child that nobody had.
LEMMA ForkStep == ASSUME IInv, NEW p \in Parent, NEW k \in Child, Fork(p, k) PROVE IInv'
<1>. USE DEF IInv, Fork
<1>1. TypeOK'
  BY DEF TypeOK
<1>2. /\ \A x : InBox(x)' <=> InBox(x)
      /\ \A x : InTable(x)' <=> InTable(x)
  BY DEF InBox, InTable
<1>3. BoxInv'
  BY <1>2 DEF BoxInv, TypeOK, Announced
<1>4. TableInv'
  BY DEF TableInv, TypeOK, Announced, Offer
<1>5. KidInv'
  BY DEF KidInv, TypeOK
<1>6. GivenInv'
  <2>1. \A c \in Client : given'[c] = given[c] /\ k \notin given[c]
    BY DEF GivenInv
  <2>2. \A q \in Parent \ {p} : kid'[q] = kid[q] /\ parent'[q] = parent[q]
    BY DEF TypeOK
  <2>3. kid'[p] = {k}
    BY DEF TypeOK
  <2>4. \A c \in Client, q \in Parent : kid'[q] \cap given'[c] # {} =>
            parent'[q] \notin {"send", "blocked"} /\ ~ InBox(q)' /\ ~ InTable(q)'
    BY <1>2, <2>1, <2>2, <2>3 DEF GivenInv
  <2>5. \A c \in Client : \A l \in given'[c] : child'[l] # "none"
    BY <2>1 DEF GivenInv, TypeOK
  <2>. QED  BY <2>1, <2>4, <2>5 DEF GivenInv, OneClientPerSurrogate
<1>7. Tracked'
  BY <1>2 DEF Tracked, TypeOK
<1>. QED  BY <1>1, <1>3, <1>4, <1>5, <1>6, <1>7

\* A child that attaches its name changes nothing of its parent.
LEMMA ChildAttachStep == ASSUME IInv, NEW k \in Child, ChildAttach(k) PROVE IInv'
<1>. USE DEF IInv, ChildAttach
<1>1. TypeOK'
  BY DEF TypeOK
<1>2. /\ \A x : InBox(x)' <=> InBox(x)
      /\ \A x : InTable(x)' <=> InTable(x)
  BY DEF InBox, InTable
<1>3. BoxInv'
  BY <1>2 DEF BoxInv, TypeOK, Announced
<1>4. TableInv'
  BY DEF TableInv, TypeOK, Announced, Offer
<1>5. KidInv'
  BY DEF KidInv, TypeOK
<1>6. GivenInv'
  BY <1>2 DEF GivenInv, OneClientPerSurrogate, TypeOK
<1>7. Tracked'
  BY <1>2 DEF Tracked, TypeOK
<1>. QED  BY <1>1, <1>3, <1>4, <1>5, <1>6, <1>7

\* Neither does a child that is killed.
LEMMA ChildKillStep == ASSUME IInv, NEW k \in Child, ChildKill(k) PROVE IInv'
<1>. USE DEF IInv, ChildKill
<1>1. TypeOK'
  BY DEF TypeOK
<1>2. /\ \A x : InBox(x)' <=> InBox(x)
      /\ \A x : InTable(x)' <=> InTable(x)
  BY DEF InBox, InTable
<1>3. BoxInv'
  BY <1>2 DEF BoxInv, TypeOK, Announced
<1>4. TableInv'
  BY DEF TableInv, TypeOK, Announced, Offer
<1>5. KidInv'
  BY DEF KidInv, TypeOK
<1>6. GivenInv'
  BY <1>2 DEF GivenInv, OneClientPerSurrogate, TypeOK
<1>7. Tracked'
  BY <1>2 DEF Tracked, TypeOK
<1>. QED  BY <1>1, <1>3, <1>4, <1>5, <1>6, <1>7

\* A parent that leaves may be on offer or in the box.
LEMMA ParentExitStep == ASSUME IInv, NEW p \in Parent, ParentExit(p) PROVE IInv'
<1>. USE DEF IInv, ParentExit
<1>1. TypeOK'
  BY DEF TypeOK
<1>2. /\ \A x : InBox(x)' <=> InBox(x)
      /\ \A x : InTable(x)' <=> InTable(x)
  BY DEF InBox, InTable
<1>3. BoxInv'
  BY <1>2 DEF BoxInv, TypeOK, Announced
<1>4. TableInv'
  BY DEF TableInv, TypeOK, Announced, Offer
<1>5. KidInv'
  BY DEF KidInv, TypeOK
<1>6. GivenInv'
  BY <1>2 DEF GivenInv, OneClientPerSurrogate, TypeOK
<1>7. Tracked'
  BY <1>2 DEF Tracked, TypeOK
<1>. QED  BY <1>1, <1>3, <1>4, <1>5, <1>6, <1>7

\* So may one that is killed.
LEMMA ParentKillStep == ASSUME IInv, NEW p \in Parent, ParentKill(p) PROVE IInv'
<1>. USE DEF IInv, ParentKill
<1>1. TypeOK'
  BY DEF TypeOK
<1>2. /\ \A x : InBox(x)' <=> InBox(x)
      /\ \A x : InTable(x)' <=> InTable(x)
  BY DEF InBox, InTable
<1>3. BoxInv'
  BY <1>2 DEF BoxInv, TypeOK, Announced
<1>4. TableInv'
  BY DEF TableInv, TypeOK, Announced, Offer
<1>5. KidInv'
  BY DEF KidInv, TypeOK
<1>6. GivenInv'
  BY <1>2 DEF GivenInv, OneClientPerSurrogate, TypeOK
<1>7. Tracked'
  BY <1>2 DEF Tracked, TypeOK
<1>. QED  BY <1>1, <1>3, <1>4, <1>5, <1>6, <1>7

\* A client that cannot use its surrogate forgets it.
LEMMA UseSurrogateStep == ASSUME IInv, NEW c \in Client, UseSurrogate(c) PROVE IInv'
<1>. USE DEF IInv, UseSurrogate
<1>1. TypeOK'
  BY DEF TypeOK
<1>2. /\ \A x : InBox(x)' <=> InBox(x)
      /\ \A x : InTable(x)' <=> InTable(x)
  BY DEF InBox, InTable
<1>3. BoxInv'
  <2>1. ~ InBox(c) /\ \A d \in Client \ {c} : client'[d] = client[d]
    BY DEF BoxInv, TypeOK
  <2>2. \A d \in Client : InBox(d)' => client'[d] = "asked"
    BY <1>2, <2>1 DEF BoxInv
  <2>. QED  BY <1>2, <2>2 DEF BoxInv
<1>4. TableInv'
  BY DEF TableInv, TypeOK, Announced, Offer
<1>5. KidInv'
  BY DEF KidInv, TypeOK
<1>6. GivenInv'
  <2>1. \A d \in Client : given'[d] \subseteq given[d]
    BY DEF TypeOK
  <2>2. \A l \in Child : child[l] # "none" => child'[l] # "none"
    BY DEF TypeOK
  <2>3. \A d \in Client : \A l \in given'[d] : child'[l] # "none"
    BY <2>1, <2>2 DEF GivenInv, TypeOK
  <2>4. \A d \in Client, q \in Parent : kid'[q] \cap given'[d] # {} =>
            parent'[q] \notin {"send", "blocked"} /\ ~ InBox(q)' /\ ~ InTable(q)'
    BY <1>2, <2>1 DEF GivenInv
  <2>. QED  BY <2>1, <2>3, <2>4 DEF GivenInv, OneClientPerSurrogate
<1>7. Tracked'
  BY <1>2 DEF Tracked, TypeOK
<1>. QED  BY <1>1, <1>3, <1>4, <1>5, <1>6, <1>7

\* Announce: the parent comes into the box, with a child that is on no offer.
LEMMA AnnounceStep == ASSUME IInv, NEW p \in Parent, Announce(p) PROVE IInv'
<1>. USE DEF IInv, Announce
<1>1. ~ InBox(p) /\ ~ InTable(p)
  BY DEF BoxInv, TableInv, InTable, Announced
<1>2. \A x : InTable(x)' <=> InTable(x)
  BY DEF InTable
<1>3. CASE router # "down" /\ box' = Append(box, p) /\ parent' = [parent EXCEPT ![p] = "blocked"]
  <2>. USE <1>3
  <2>1. /\ box' \in Seq(Parent \cup Client)
        /\ \A i, j \in 1..Len(box') : box'[i] = box'[j] => i = j
        /\ \A x : InBox(x)' <=> InBox(x) \/ x = p
    BY <1>1, Queued
  <2>2. TypeOK'
    BY <2>1 DEF TypeOK
  <2>3. BoxInv'
    BY <1>1, <1>2, <2>1, NamesAssumption DEF BoxInv, TypeOK, Announced
  <2>4. TableInv'
    BY DEF TableInv, TypeOK, Announced, Offer
  <2>5. KidInv'
    BY DEF KidInv, TypeOK
  <2>6. GivenInv'
    <3>1. \A c \in Client : kid[p] \cap given[c] = {}
      BY DEF GivenInv
    <3>2. \A q \in Parent \ {p} : parent'[q] = parent[q] /\ (InBox(q)' <=> InBox(q))
      BY <2>1 DEF TypeOK
    <3>. QED  BY <1>2, <3>1, <3>2 DEF GivenInv, OneClientPerSurrogate
  <2>7. Tracked'
    BY <1>2, <2>1 DEF Tracked, TypeOK
  <2>. QED  BY <2>2, <2>3, <2>4, <2>5, <2>6, <2>7
<1>4. CASE router = "down" /\ parent' = [parent EXCEPT ![p] = "gone"] /\ UNCHANGED box
  <2>. USE <1>4
  <2>1. \A x : InBox(x)' <=> InBox(x)
    BY DEF InBox
  <2>2. TypeOK' /\ Tracked'
    BY DEF TypeOK, Tracked
  <2>3. BoxInv'
    BY <1>2, <2>1 DEF BoxInv, TypeOK, Announced
  <2>4. TableInv' /\ KidInv'
    BY DEF TableInv, KidInv, TypeOK, Announced, Offer
  <2>5. GivenInv'
    BY <1>2, <2>1 DEF GivenInv, OneClientPerSurrogate, TypeOK
  <2>. QED  BY <2>2, <2>3, <2>4, <2>5
<1>. QED  BY <1>3, <1>4

\* Ask: a client comes into the box; a client is no parent.
LEMMA AskStep == ASSUME IInv, NEW c \in Client, Ask(c) PROVE IInv'
<1>. USE DEF IInv, Ask
<1>1. ~ InBox(c) /\ c \notin Parent
  BY NamesAssumption DEF BoxInv
<1>2. \A x : InTable(x)' <=> InTable(x)
  BY DEF InTable
<1>3. /\ box' \in Seq(Parent \cup Client)
      /\ \A i, j \in 1..Len(box') : box'[i] = box'[j] => i = j
      /\ \A x : InBox(x)' <=> InBox(x) \/ x = c
  BY <1>1, Queued
<1>4. TypeOK'
  BY <1>3 DEF TypeOK
<1>5. BoxInv'
  BY <1>1, <1>2, <1>3 DEF BoxInv, TypeOK
<1>6. TableInv' /\ KidInv'
  BY DEF TableInv, KidInv
<1>7. GivenInv'
  BY <1>1, <1>2, <1>3 DEF GivenInv, OneClientPerSurrogate
<1>8. Tracked'
  BY <1>1, <1>2, <1>3 DEF Tracked
<1>. QED  BY <1>4, <1>5, <1>6, <1>7, <1>8

-----------------------------------------------------------------------------
(* The steps of the router.                                                *)

\* TakeReady: the announcement moves from the box to a free slot.
LEMMA TakeReadyStep == ASSUME IInv, NEW p \in Parent, TakeReady(p) PROVE IInv'
<1>. USE DEF IInv, TakeReady, ReceiveReady
<1>1. /\ box' \in Seq(Parent \cup Client)
      /\ \A i, j \in 1..Len(box') : box'[i] = box'[j] => i = j
      /\ \A x : InBox(x)' <=> InBox(x) /\ x # p
  BY Taken
<1>2. InBox(p) /\ ~ InTable(p)
  <2>1. box \in Seq(Parent \cup Client)
    BY DEF TypeOK
  <2>2. 1 \in DOMAIN box /\ box[1] = p
    BY <2>1
  <2>3. InBox(p)
    BY <2>2 DEF InBox
  <2>. QED  BY <2>3 DEF BoxInv
<1>3. CASE Free = {}
  <2>1. table' = table
    BY <1>3
  <2>2. \A x : InTable(x)' <=> InTable(x)
    BY <2>1 DEF InTable
  <2>3. TypeOK'
    BY <1>1, <2>1 DEF TypeOK
  <2>4. TableInv' /\ KidInv' /\ BoxInv' /\ GivenInv'
    <3>1. TableInv' /\ KidInv'
      BY <2>1 DEF TableInv, KidInv
    <3>. QED  BY <3>1, <1>1, <2>2 DEF BoxInv, GivenInv, OneClientPerSurrogate
  <2>5. ~ Room
    BY <1>2, <1>3, RoomForOne
  <2>. QED  BY <2>3, <2>4, <2>5 DEF Tracked
<1>4. CASE Free # {}
  <2>. DEFINE i == FirstOf(Free)
  <2>1. i \in Slot /\ table[i] = {}
    <3>1. Free \subseteq Slot
      BY DEF Free
    <3>2. FirstOf(Free) \in Free
      BY <1>4, <3>1, FirstIn
    <3>. QED  BY <3>2 DEF Free
  <2>2. table' = [table EXCEPT ![i] = Offers(p)]
    BY <1>4
  <2>. HIDE DEF i
  <2>3. /\ \A j \in Slot \ {i} : table'[j] = table[j]
        /\ table'[i] = Offers(p)
    BY <2>1, <2>2 DEF TypeOK
  <2>4. \A o \in Offers(p) : o.by = p /\ o.kid \in kid[p]
    BY DEF Offers
  <2>5. \A o, q \in Offers(p) : o = q
    BY DEF Offers, KidInv
  <2>6. \A x : x # p => (InTable(x)' <=> InTable(x))
    BY <2>1, <2>3, <2>4 DEF InTable
  <2>7. TypeOK'
    <3>1. Offers(p) \subseteq Offer
      BY DEF Offers, Offer, TypeOK
    <3>2. table' \in [Slot -> SUBSET Offer]
      BY <2>1, <2>2, <3>1 DEF TypeOK
    <3>. QED  BY <1>1, <3>2 DEF TypeOK
  <2>8. BoxInv'
    BY <1>1, <2>6 DEF BoxInv
  <2>9. TableInv'
    <3>1. ASSUME NEW j \in Slot, NEW l \in Slot, NEW o \in table'[j], NEW q \in table'[l], o.by = q.by
          PROVE  j = l /\ o = q
      <4>1. CASE j = i /\ l = i
        BY <2>3, <2>5, <4>1
      <4>2. CASE j = i /\ l # i
        BY <1>2, <2>3, <2>4, <3>1, <4>2 DEF InTable
      <4>3. CASE j # i /\ l = i
        BY <1>2, <2>3, <2>4, <3>1, <4>3 DEF InTable
      <4>4. CASE j # i /\ l # i
        BY <2>3, <3>1, <4>4 DEF TableInv
      <4>. QED  BY <4>1, <4>2, <4>3, <4>4
    <3>2. \A j \in Slot : \A o, q \in table'[j] : o = q
      BY <2>3, <2>5 DEF TableInv
    <3>3. \A j \in Slot : \A o \in table'[j] : parent[o.by] \in Announced /\ o.kid \in kid[o.by]
      BY <2>3, <2>4 DEF TableInv, Announced
    <3>. QED  BY <3>1, <3>2, <3>3 DEF TableInv
  <2>10. KidInv'
    BY DEF KidInv
  <2>11. GivenInv'
    <3>1. \A c \in Client : kid[p] \cap given[c] = {}
      BY <1>2 DEF GivenInv
    <3>. QED  BY <1>1, <2>6, <3>1 DEF GivenInv, OneClientPerSurrogate
  <2>12. Tracked'
    <3>1. ASSUME parent[p] = "blocked" PROVE InTable(p)'
      <4>1. PICK k \in kid[p] : TRUE
        BY <3>1 DEF KidInv
      <4>2. [by |-> p, kid |-> k] \in table'[i]
        BY <2>3, <4>1 DEF Offers
      <4>. QED  BY <2>1, <4>2 DEF InTable
    <3>. QED  BY <1>1, <2>6, <3>1 DEF Tracked
  <2>. QED  BY <2>7, <2>8, <2>9, <2>10, <2>11, <2>12
<1>. QED  BY <1>3, <1>4

\* RefuseRequest: the client leaves the box and is told nothing new.
LEMMA RefuseRequestStep == ASSUME IInv, NEW c \in Client, RefuseRequest(c) PROVE IInv'
<1>. USE DEF IInv, RefuseRequest
<1>1. /\ box' \in Seq(Parent \cup Client)
      /\ \A i, j \in 1..Len(box') : box'[i] = box'[j] => i = j
      /\ \A x : InBox(x)' <=> InBox(x) /\ x # c
  BY Taken
<1>2. c \notin Parent
  BY NamesAssumption
<1>3. \A x : InTable(x)' <=> InTable(x)
  BY DEF InTable
<1>4. TypeOK'
  BY <1>1 DEF TypeOK
<1>5. BoxInv'
  BY <1>1, <1>3 DEF BoxInv, TypeOK
<1>6. TableInv' /\ KidInv'
  BY DEF TableInv, KidInv
<1>7. GivenInv' /\ Tracked'
  BY <1>1, <1>2, <1>3 DEF GivenInv, OneClientPerSurrogate, Tracked
<1>. QED  BY <1>4, <1>5, <1>6, <1>7

\* A fault of the router empties box and table, or leaves it hung with what they held.
LEMMA CrashStep == ASSUME IInv, Crash PROVE IInv'
<1>. USE DEF IInv, Crash
<1>1. router' # "up" /\ UNCHANGED <<kid, child, client, given, asks>>
  OBVIOUS
<1>2. \A p \in Parent : parent'[p] = parent[p] \/ parent'[p] = "gone"
  BY DEF Fail
<1>3. parent' \in [Parent -> {"fork", "send", "blocked", "gone", "killed"}]
  BY DEF TypeOK, Fail
<1>4. CASE box' = <<>> /\ table' = [i \in Slot |-> {}]
  <2>1. \A x : ~ InBox(x)' /\ ~ InTable(x)'
    BY <1>4 DEF InBox, InTable
  <2>2. TypeOK'
    BY <1>1, <1>3, <1>4 DEF TypeOK
  <2>3. BoxInv' /\ TableInv' /\ Tracked'
    BY <1>1, <1>4, <2>1 DEF BoxInv, TableInv, Tracked
  <2>4. KidInv' /\ GivenInv'
    BY <1>1, <1>2, <2>1 DEF KidInv, GivenInv, OneClientPerSurrogate
  <2>. QED  BY <2>2, <2>3, <2>4
<1>5. CASE router' = "hung" /\ box' = Tail(box) /\ UNCHANGED table
  <2>1. box # <<>> /\ box \in Seq(Parent \cup Client)
    BY DEF TypeOK
  <2>2. /\ box' \in Seq(Parent \cup Client) /\ Len(box') = Len(box) - 1
        /\ \A i \in 1..Len(box') : box'[i] = box[i + 1] /\ i + 1 \in 1..Len(box)
    BY <1>5, <2>1
  <2>3. \A x : (InBox(x)' => InBox(x)) /\ (InTable(x)' <=> InTable(x))
    BY <1>5, <2>1, <2>2 DEF InBox, InTable
  <2>4. TypeOK'
    BY <1>1, <1>3, <1>5, <2>2 DEF TypeOK
  <2>5. BoxInv'
    <3>1. \A i, j \in 1..Len(box') : box'[i] = box'[j] => i = j
      BY <2>1, <2>2 DEF BoxInv
    <3>2. \A p \in Parent : InBox(p)' => parent'[p] \in Announced /\ ~ InTable(p)'
      BY <1>2, <2>3 DEF BoxInv, Announced
    <3>. QED  BY <1>1, <2>3, <3>1, <3>2 DEF BoxInv
  <2>6. \A p \in Parent : /\ parent'[p] \in {"send", "blocked"} => parent[p] = parent'[p]
                          /\ parent[p] \in Announced => parent'[p] \in Announced
    BY <1>2 DEF Announced
  <2>7. TableInv'
    <3>1. \A i \in Slot : \A o \in table[i] : o.by \in Parent
      BY DEF TypeOK, Offer
    <3>. QED  BY <1>1, <1>5, <2>6, <3>1 DEF TableInv
  <2>8. KidInv'
    BY <1>1, <2>6 DEF KidInv
  <2>9. GivenInv' /\ Tracked'
    <3>1. GivenInv'
      BY <1>1, <2>3, <2>6 DEF GivenInv, OneClientPerSurrogate
    <3>. QED  BY <1>1, <3>1 DEF Tracked
  <2>. QED  BY <2>4, <2>5, <2>7, <2>8, <2>9
<1>. QED  BY <1>4, <1>5

\* TakeRequest: the parent on offer is unblocked and its child given away; or
\* the parent was killed, and the router hangs with the request half done.
LEMMA TakeRequestStep == ASSUME IInv, NEW c \in Client, TakeRequest(c) PROVE IInv'
<1>. USE DEF IInv
<1>. DEFINE i == FirstOf(Fitting(Asks[c]))
<1>1. i \in Slot
  <2>1. Fitting(Asks[c]) \subseteq Slot /\ Fitting(Asks[c]) # {}
    BY DEF Fitting, TakeRequest
  <2>. QED  BY <2>1, FirstIn
<1>2. PICK o \in table[i] :
        /\ Unblock(o.by)
        /\ IF router' = "hung" THEN UNCHANGED <<table, client, given>>
           ELSE /\ table' = Cleared(i)
                /\ client' = [client EXCEPT ![c] = "told"]
                /\ given' = [given EXCEPT ![c] = {o.kid}]
  BY DEF TakeRequest
<1>. HIDE DEF i
<1>3. router = "up" /\ box # <<>> /\ Head(box) = c /\ box' = Tail(box) /\ UNCHANGED <<kid, child, asks>>
  BY DEF TakeRequest
<1>. DEFINE p == o.by
<1>4. p \in Parent /\ o.kid \in Child /\ InTable(p) /\ ~ InBox(p) /\ o.kid \in kid[p] /\ parent[p] \in Announced
  <2>1. p \in Parent /\ o.kid \in Child /\ InTable(p)
    BY <1>1 DEF TypeOK, Offer, InTable
  <2>. QED  BY <1>1, <2>1 DEF BoxInv, TableInv
<1>5. /\ box' \in Seq(Parent \cup Client)
      /\ \A j, l \in 1..Len(box') : box'[j] = box'[l] => j = l
      /\ \A x : InBox(x)' <=> InBox(x) /\ x # c
  BY <1>3, Taken
<1>6. c \notin Parent
  BY NamesAssumption
<1>7. KidInv'
  <2>1. \A q \in Parent : parent'[q] = parent[q] \/ parent'[q] = "fork"
    BY <1>2, <1>4 DEF Unblock, TypeOK
  <2>. QED  BY <1>3, <2>1 DEF KidInv
<1>8. CASE parent[p] = "killed" /\ router' = "hung" /\ UNCHANGED parent
  <2>. USE <1>8
  <2>1. UNCHANGED <<table, client, given>>
    BY <1>2
  <2>2. \A x : InTable(x)' <=> InTable(x)
    BY <2>1 DEF InTable
  <2>3. TypeOK'
    BY <1>3, <1>5, <2>1 DEF TypeOK
  <2>4. BoxInv' /\ GivenInv'
    BY <1>3, <1>5, <2>1, <2>2 DEF BoxInv, GivenInv, OneClientPerSurrogate
  <2>5. TableInv' /\ Tracked'
    BY <1>3, <2>1 DEF TableInv, Tracked
  <2>. QED  BY <1>7, <2>3, <2>4, <2>5
<1>9. CASE /\ parent[p] # "killed" /\ UNCHANGED router
           /\ parent' = [parent EXCEPT ![p] = IF @ = "blocked" THEN "fork" ELSE @]
  <2>. USE <1>9
  <2>. HIDE DEF p
  <2>1. /\ table' = [table EXCEPT ![i] = {}]
        /\ client' = [client EXCEPT ![c] = "told"]
        /\ given' = [given EXCEPT ![c] = {o.kid}]
    BY <1>2, <1>3 DEF Cleared
  <2>2. /\ table'[i] = {}
        /\ \A j \in Slot \ {i} : table'[j] = table[j]
    BY <1>1, <2>1 DEF TypeOK
  <2>3. /\ parent'[p] \notin {"send", "blocked"}
        /\ \A q \in Parent \ {p} : parent'[q] = parent[q]
    BY <1>4 DEF TypeOK, Announced
  <2>4. /\ given'[c] = {o.kid}
        /\ \A d \in Client \ {c} : given'[d] = given[d] /\ client'[d] = client[d]
    BY <2>1 DEF TypeOK
  <2>5. ~ InTable(p)'
    BY <1>1, <2>2 DEF p, TableInv, InTable
  <2>6. \A q : q # p => (InTable(q)' <=> InTable(q))
    <3>1. \A q \in table[i] : q.by = p
      BY <1>1 DEF p, TableInv
    <3>. QED  BY <1>1, <2>2, <3>1 DEF InTable
  <2>7. TypeOK'
    BY <1>1, <1>3, <1>4, <1>5, <2>1 DEF TypeOK
  <2>8. BoxInv'
    <3>1. \A q \in Parent : InBox(q)' => parent'[q] \in Announced /\ ~ InTable(q)'
      BY <1>4, <1>5, <2>3, <2>6 DEF BoxInv
    <3>2. \A d \in Client : InBox(d)' => client'[d] = "asked"
      BY <1>5, <2>4 DEF BoxInv
    <3>. QED  BY <1>5, <3>1, <3>2 DEF BoxInv
  <2>9. TableInv'
    <3>1. \A j \in Slot : table'[j] \subseteq table[j]
      BY <1>1, <2>2
    <3>2. \A j \in Slot : \A q \in table'[j] : q.by # p /\ q.by \in Parent
      BY <2>5, <2>7 DEF InTable, TypeOK, Offer
    <3>3. \A j \in Slot : \A q \in table'[j] : parent'[q.by] \in Announced /\ q.kid \in kid'[q.by]
      BY <1>3, <2>3, <3>1, <3>2 DEF TableInv
    <3>. QED  BY <3>1, <3>3 DEF TableInv
  <2>10. GivenInv'
    <3>1. \A d \in Client : o.kid \notin given[d]
      BY <1>4 DEF GivenInv
    <3>2. OneClientPerSurrogate'
      BY <2>4, <3>1 DEF GivenInv, OneClientPerSurrogate
    <3>3. \A d \in Client : \A k \in given'[d] : child'[k] # "none"
      BY <1>3, <1>4, <2>4 DEF GivenInv, KidInv
    <3>4. ASSUME NEW d \in Client, NEW q \in Parent, kid'[q] \cap given'[d] # {}
          PROVE  parent'[q] \notin {"send", "blocked"} /\ ~ InBox(q)' /\ ~ InTable(q)'
      <4>1. CASE q = p
        BY <1>4, <1>5, <2>3, <2>5, <4>1
      <4>2. CASE q # p
        <5>1. o.kid \notin kid[q]
          BY <1>4, <4>2 DEF KidInv
        <5>2. d # c /\ kid[q] \cap given[d] # {}
          BY <1>3, <2>4, <3>4, <5>1
        <5>. QED  BY <1>5, <2>3, <2>6, <4>2, <5>2 DEF GivenInv
      <4>. QED  BY <4>1, <4>2
    <3>. QED  BY <3>2, <3>3, <3>4 DEF GivenInv
  <2>11. Tracked'
    BY <1>3, <1>5, <1>6, <2>3, <2>6 DEF Tracked
  <2>. QED  BY <1>7, <2>7, <2>8, <2>9, <2>10, <2>11
<1>. QED  BY <1>2, <1>8, <1>9 DEF Unblock

\* Every step of the router and its callers keeps the invariant.
LEMMA IInvStep == IInv /\ [Next]_vars => IInv'
<1>1. ASSUME IInv, Next PROVE IInv'
  <2>1. ASSUME Route PROVE IInv'
    BY <1>1, <2>1, TakeReadyStep, TakeRequestStep, RefuseRequestStep, CrashStep DEF Route
  <2>2. ASSUME NEW p \in Parent, Announce(p) \/ ParentExit(p) \/ ParentKill(p) PROVE IInv'
    BY <1>1, <2>2, AnnounceStep, ParentExitStep, ParentKillStep
  <2>3. ASSUME NEW p \in Parent, NEW k \in Child, Fork(p, k) PROVE IInv'
    BY <1>1, <2>3, ForkStep
  <2>4. ASSUME NEW k \in Child, ChildAttach(k) \/ ChildKill(k) PROVE IInv'
    BY <1>1, <2>4, ChildAttachStep, ChildKillStep
  <2>5. ASSUME NEW c \in Client, Ask(c) \/ UseSurrogate(c) PROVE IInv'
    BY <1>1, <2>5, AskStep, UseSurrogateStep
  <2>. QED  BY <1>1, <2>1, <2>2, <2>3, <2>4, <2>5 DEF Next
<1>2. ASSUME IInv, UNCHANGED vars PROVE IInv'
  <2>. USE <1>2 DEF IInv, vars
  <2>1. \A x : (InBox(x)' <=> InBox(x)) /\ (InTable(x)' <=> InTable(x))
    BY DEF InBox, InTable
  <2>2. TypeOK' /\ TableInv' /\ KidInv'
    BY DEF TypeOK, TableInv, KidInv
  <2>3. BoxInv' /\ GivenInv' /\ Tracked'
    BY <2>1 DEF BoxInv, GivenInv, OneClientPerSurrogate, Tracked
  <2>. QED  BY <2>2, <2>3
<1>. QED  BY <1>1, <1>2

-----------------------------------------------------------------------------
(* The theorems.                                                           *)

\* The invariant on which the properties of protocolTable rest.
THEOREM Invariance == Spec => []IInv
<1>. QED  BY InitInv, IInvStep, PTL DEF Spec

\* The router's variables keep their types, and protocolTable its bounds.
THEOREM TypeCorrect == Spec => []TypeOK
<1>1. IInv => TypeOK
  BY DEF IInv
<1>. QED  BY <1>1, Invariance, PTL

\* hndlProtocolRequest never names one surrogate to two clients, whoever
\* leaves or is killed, and whatever number of offers the table has room for.
THEOREM OneClientHolds == Spec => []OneClientPerSurrogate
<1>1. IInv => OneClientPerSurrogate
  BY DEF IInv, GivenInv
<1>. QED  BY <1>1, Invariance, PTL

\* With a slot for each parent, a parent that is blocked in its announcement is
\* in the box or in protocolTable, in one of them and once.
THEOREM ParentIsTrackedHolds == ASSUME Room PROVE Spec => []ParentIsTracked
<1>1. IInv => ParentIsTracked
  <2>. SUFFICES ASSUME IInv, router = "up", NEW p \in Parent, parent[p] = "blocked"
                PROVE  /\ InBox(p) \/ InTable(p)
                       /\ ~ (InBox(p) /\ InTable(p))
                       /\ \A i, j \in Slot : \A o \in table[i], q \in table[j] :
                              o.by = p /\ q.by = p => i = j
    BY DEF ParentIsTracked
  <2>1. InBox(p) \/ InTable(p)
    BY DEF IInv, Tracked
  <2>2. ~ (InBox(p) /\ InTable(p))
    BY DEF IInv, BoxInv
  <2>3. \A i, j \in Slot : \A o \in table[i], q \in table[j] : o.by = p /\ q.by = p => i = j
    BY DEF IInv, TableInv
  <2>. QED  BY <2>1, <2>2, <2>3
<1>. QED  BY <1>1, Invariance, PTL

=============================================================================
