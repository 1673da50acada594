---------------------------- MODULE Rs232Proofs ----------------------------
(***************************************************************************)
(* What Rs232 promises, for every number of conduits, of frames on a line  *)
(* and of Sends: a client whose Send succeeds gets the reply to this very  *)
(* request, and it was received; a client that is held has one request or  *)
(* answer on its way.  Both need that keep-alives are off.                 *)
(*                                                                         *)
(* The argument follows the request of a client and the answer to it from  *)
(* place to place.  All conduits share the line, both programs at its ends *)
(* and the receiver, but what is in these is counted for each conduit, and *)
(* a step of one conduit does not change what there is of another.         *)
(***************************************************************************)
EXTENDS Rs232, FiniteSetTheorems, TLAPS

-----------------------------------------------------------------------------
(* The invariant.                                                          *)

ClientType == [at : {"start", "locating", "idle", "sending", "refused", "closing", "exited",
                     "killed"},
               asked : 0..MaxAsks]
RType == [at : {"attached", "locating", "up", "sending", "hung", "faulted", "gone"},
          then : {"locating", "up", "gone"},
          holds : BOOLEAN, missed : 0..Limit + 1, out : Frame]
SType == [at : {"none", "forked", "up", "sending", "gone"},
          then : {"up", "gone"}, missed : 0..Limit, room : BOOLEAN]

\* The types.
Types ==
    /\ setup \in Setups /\ lost \in 0..MaxLost
    /\ client \in [Client -> ClientType]
    /\ answer \in [Client -> Seq(Frame)] /\ rfifo \in [Client -> Seq(Frame)]
    /\ r \in [Client -> RType] /\ s \in [Client -> SType]
    /\ seg \in [Client -> Frame] /\ yfifo \in [Client -> Seq(BOOLEAN)]
    /\ writer \in [Host -> Seq(Client)]
    /\ line \in [Host -> Seq(Frame)] /\ reader \in [Host -> Frame]
    /\ receiver \in {"up", "gone"} /\ vfifo \in Seq(Frame)
    /\ taken \in Frame /\ got \subseteq Frame

\* surrogate_r is blocked in its Send; the conduit is not up yet; it is up;
\* surrogate_r has not ended and is not hung.
Goes(c) == r[c].at = "sending"
Early(c) == r[c].at \in {"attached", "locating"} \/ (Goes(c) /\ r[c].then = "locating")
Good(c) == r[c].at = "up" \/ (Goes(c) /\ r[c].then = "up")
Runs(c) == r[c].at \in {"attached", "locating", "up", "sending"}
Sends(c) == s[c].at = "sending"

\* The counter has not run over while surrogate_r goes on.
Counted == \A c \in Client : Early(c) \/ Good(c) => r[c].missed <= Limit

\* What goes to the remote host, what comes back and what waits for surrogate_r.
Downs == {"locate", "send", "proxy", "alive", "close"}
Ups == {"found", "absent", "reply", "error", "alive"}
Posts == {"locate", "send", "proxy", "close", "remote"}

Kinds ==
    /\ \A i \in DOMAIN line["A"] : line["A"][i].kind \in Downs
    /\ \A i \in DOMAIN line["B"] : line["B"][i].kind \in Ups
    /\ None(reader["A"]) \/ reader["A"].kind \in Ups
    /\ None(reader["B"]) \/ reader["B"].kind \in Downs
    /\ \A i \in DOMAIN vfifo : vfifo[i].kind \in {"send", "proxy"}
    /\ None(taken) \/ taken.kind = "send"
    /\ receiver = "gone" => vfifo = <<>> /\ None(taken)

\* Who waits for rs232_w is in its fifo once and has a frame for it.
Distinct(q) == \A i, j \in DOMAIN q : q[i] = q[j] => i = j
Writers ==
    /\ \A i \in DOMAIN writer["A"] : ~ None(r[writer["A"][i]].out)
    /\ \A i \in DOMAIN writer["B"] : Sends(writer["B"][i]) /\ yfifo[writer["B"][i]] = <<>>
    /\ Distinct(writer["A"]) /\ Distinct(writer["B"])

\* A frame of a client of a kind in K; the number of these in a queue and in one place.
Of(m, c, K) == ~ None(m) /\ m.of = c /\ m.kind \in K
Number(q, c, K) == Cardinality({i \in DOMAIN q : Of(q[i], c, K)})
Is(m, c, K) == IF Of(m, c, K) THEN 1 ELSE 0

\* The frames on the way to surrogate_s and back; the receiver is in between.
Seg(c) == IF Sends(c) THEN seg[c] ELSE NoFrame
Down(c, K) == Is(r[c].out, c, K) + Number(line["A"], c, K) + Is(reader["B"], c, K)
Up(c, K) == Is(Seg(c), c, K) + Number(line["B"], c, K) + Is(reader["A"], c, K)

Locates == {"locate"}
Looks == {"locate", "found", "absent"}
Words == {"send", "reply"}
Requests == {"send", "reply", "error"}
Others == {"send", "proxy", "alive", "close", "reply", "error"}
Quiets == {"alive", "proxy"}
Remotes == {"remote"}
Calls == {"locate", "send"}
Proxies == {"proxy"}

\* Frames are of their conduit; a Send to rs232_w waits for one word.
Formed(c) ==
    /\ None(r[c].out) \/ (Goes(c) /\ r[c].out.of = c /\ r[c].out.kind \in Downs)
    /\ None(seg[c]) \/ seg[c].of = c
    /\ \A i \in DOMAIN rfifo[c] : rfifo[c][i].of = c /\ rfifo[c][i].kind \in Posts
    /\ Sends(c) => \/ yfifo[c] = <<>> /\ seg[c].kind \in Ups
                   \/ yfifo[c] = <<TRUE>> /\ None(seg[c])

\* surrogate_r has a message of rs232_r in its fifo while a frame is offered to it.
Offer(c) == Number(rfifo[c], c, Remotes) = Is(reader["A"], c, Ups)

\* In q, what is of the kinds in K comes before what is of the kinds in L.
Before(q, c, K, L) == \A i, j \in DOMAIN q : Of(q[i], c, K) /\ Of(q[j], c, L) => i < j

\* The client has one request out, and one answer; its Triggers went before.
Held(c) == IF r[c].holds THEN 1 ELSE 0
OneOut(c) ==
    /\ Len(answer[c]) <= 1
    /\ client[c].at \notin {"locating", "sending"} => answer[c] = <<>>
    /\ Runs(c) =>
          /\ Number(rfifo[c], c, Calls) + Held(c) + Len(answer[c]) <= 1
          /\ client[c].at \in {"start", "idle", "refused"} =>
                 Number(rfifo[c], c, Calls) = 0 /\ Held(c) = 0
          /\ Held(c) = 1 => Number(rfifo[c], c, Proxies) = 0
          /\ Before(rfifo[c], c, Proxies, Calls)
    /\ r[c].at = "attached" => Held(c) = 0
    /\ Early(c) => answer[c] = <<>> /\ (r[c].at # "attached" => Held(c) = 1)
    /\ r[c].at = "hung" => client[c].at \in {"closing", "exited", "killed"}
    /\ Early(c) => client[c].at \notin {"idle", "sending", "refused"}
    /\ Good(c) => client[c].at # "start"

\* The look-up is in one place until the conduit is up, and alone on the line.
Forked(c) == IF s[c].at = "forked" THEN 1 ELSE 0
LookUp(c) ==
    /\ Down(c, Looks) + Up(c, Looks) + Forked(c) <= 1
    /\ r[c].at = "attached" \/ Good(c) => Down(c, Looks) + Up(c, Looks) + Forked(c) = 0
    /\ r[c].at = "attached" => s[c].at = "none"
    /\ s[c].at # "none" => Down(c, Locates) = 0
    /\ Early(c) => Down(c, Others) + Up(c, Others) = 0
    /\ s[c].at = "none" => ~ Good(c) /\ Up(c, Looks) = 0
    /\ s[c].at \in {"none", "forked"} =>
          yfifo[c] = <<>> /\ Number(vfifo, c, Words) = 0 /\ Is(taken, c, Words) = 0

\* The request, or the answer to it, with the receiver, and where it is at all.
Served(c) ==
    Number(vfifo, c, Words) + Is(taken, c, Words) + (IF Sends(c) THEN 0 ELSE Len(yfifo[c]))
Far(c) == Up(c, Words) + Served(c)
Transit(c) ==
    /\ Down(c, Words) + Far(c) <= 1
    /\ Early(c) => Down(c, Words) + Far(c) = 0
    /\ Good(c) => Down(c, Words) + Far(c) <= Held(c)
    /\ Sends(c) => Served(c) = 0
    /\ Good(c) /\ s[c].at \in {"up", "sending"} /\ receiver = "up" /\ lost = 0 =>
          Down(c, Requests) + Up(c, Requests) + Served(c) = Held(c)

\* A keep-alive and a Trigger have no request before them.
Near(c) == Number(line["A"], c, Words)
At(c) == Is(reader["B"], c, Words)
InTurn(c) ==
    s[c].at # "gone" =>
       /\ Is(r[c].out, c, Quiets) = 1 => Near(c) + At(c) + Far(c) = 0
       /\ Number(line["A"], c, Quiets) # 0 => At(c) + Far(c) = 0
       /\ Is(reader["B"], c, Quiets) = 1 => Far(c) = 0
       /\ Before(line["A"], c, Quiets, Words)

\* What is on its way is the current request, and the receiver got what is answered.
Own(m, c, n) == Of(m, c, Words) => m.n = n
AllOwn(q, c, K, n) == \A i \in DOMAIN q : Of(q[i], c, K) => q[i].n = n
Known(c, n) == \E m \in got : m.of = c /\ m.n = n
Coming(c, n) ==
    /\ AllOwn(rfifo[c], c, Calls, n)
    /\ Own(r[c].out, c, n) /\ AllOwn(line["A"], c, Words, n) /\ Own(reader["B"], c, n)
Serving(c, n) ==
    /\ Number(vfifo, c, Words) # 0 /\ s[c].at = "up" => seg[c].kind = "send" /\ seg[c].n = n
    /\ Own(taken, c, n) /\ (Is(taken, c, Words) = 1 => Known(c, n))
    /\ s[c].at = "up" /\ yfifo[c] # <<>> /\ Head(yfifo[c]) =>
           seg[c].kind = "reply" /\ seg[c].n = n /\ Known(c, n)
Going(c, n) ==
    /\ Own(Seg(c), c, n) /\ AllOwn(line["B"], c, Words, n) /\ Own(reader["A"], c, n)
    /\ Up(c, Words) # 0 => Known(c, n)
Current(c) ==
    client[c].at = "sending" /\ Good(c) =>
        /\ Coming(c, client[c].asked) /\ Serving(c, client[c].asked)
        /\ Going(c, client[c].asked)

\* What the client gets is the reply to its request.
Right(c) ==
    client[c].at = "sending" /\ answer[c] # <<>> /\ Head(answer[c]).kind = "reply" =>
        Head(answer[c]).n = client[c].asked /\ Known(c, client[c].asked)

Conduit(c) ==
    /\ Formed(c) /\ Offer(c) /\ OneOut(c) /\ LookUp(c) /\ Transit(c) /\ InTurn(c)
    /\ Current(c) /\ Right(c)
Orderly == Kinds /\ Writers /\ \A c \in Client : Conduit(c)

\* What every reachable state satisfies.
IInv == Types /\ Counted /\ (Alive \/ Orderly)

-----------------------------------------------------------------------------
(* Data: what there is of a conduit in a queue.                            *)

\* The items of a queue after one more, and after its head is taken.
LEMMA Items ==
  ASSUME NEW S, NEW q \in Seq(S)
  PROVE  /\ DOMAIN q = 1..Len(q) /\ Len(q) \in Nat
         /\ \A m \in S : /\ Append(q, m) \in Seq(S) /\ DOMAIN Append(q, m) = 1..(Len(q) + 1)
                         /\ Append(q, m)[Len(q) + 1] = m
                         /\ \A i \in 1..Len(q) : Append(q, m)[i] = q[i]
         /\ q # <<>> => /\ Tail(q) \in Seq(S) /\ DOMAIN Tail(q) = 1..(Len(q) - 1)
                        /\ Len(q) # 0 /\ Head(q) = q[1] /\ Head(q) \in S
                        /\ \A i \in 1..(Len(q) - 1) : Tail(q)[i] = q[i + 1]
  OBVIOUS

\* A queue has a finite number of frames of a conduit.
LEMMA NumberNat ==
  ASSUME NEW S, NEW q \in Seq(S), NEW c, NEW K
  PROVE  Number(q, c, K) \in Nat /\ IsFiniteSet({i \in DOMAIN q : Of(q[i], c, K)})
<1>1. IsFiniteSet(1..Len(q))
  BY FS_Interval
<1>2. {i \in DOMAIN q : Of(q[i], c, K)} \subseteq 1..Len(q)
  OBVIOUS
<1>. QED  BY <1>1, <1>2, FS_Subset, FS_CardinalityType DEF Number

\* An empty one has none.
LEMMA NumberEmpty == ASSUME NEW c, NEW K PROVE Number(<<>>, c, K) = 0
<1>1. {i \in DOMAIN <<>> : Of(<<>>[i], c, K)} = {}
  OBVIOUS
<1>. QED  BY <1>1, FS_EmptySet DEF Number

\* Zero means that no frame is of the conduit and of these kinds.
LEMMA NumberZero ==
  ASSUME NEW S, NEW q \in Seq(S), NEW c, NEW K
  PROVE  Number(q, c, K) = 0 <=> \A i \in DOMAIN q : ~ Of(q[i], c, K)
<1>. DEFINE Hits == {i \in DOMAIN q : Of(q[i], c, K)}
<1>1. IsFiniteSet(Hits) /\ Number(q, c, K) = Cardinality(Hits)
  BY NumberNat DEF Number
<1>. HIDE DEF Hits
<1>2. Hits = {} <=> Number(q, c, K) = 0
  BY ONLY <1>1, FS_EmptySet
<1>. QED  BY <1>2 DEF Hits

\* The more kinds, the more frames.
LEMMA NumberMore ==
  ASSUME NEW S, NEW q \in Seq(S), NEW c, NEW K, NEW L, K \subseteq L
  PROVE  Number(q, c, K) <= Number(q, c, L)
<1>. DEFINE T == {i \in DOMAIN q : Of(q[i], c, K)}
            U == {i \in DOMAIN q : Of(q[i], c, L)}
<1>1. IsFiniteSet(U)
  BY NumberNat
<1>2. T \subseteq U
  BY DEF Of
<1>3. Cardinality(T) <= Cardinality(U)
  BY ONLY <1>1, <1>2, FS_Subset
<1>. QED  BY <1>3 DEF Number

\* A frame put in at the end counts when it is of the conduit and the kinds.
LEMMA NumberAppend ==
  ASSUME NEW S, NEW q \in Seq(S), NEW m \in S, NEW c, NEW K
  PROVE  Number(Append(q, m), c, K) = Number(q, c, K) + Is(m, c, K)
<1>. DEFINE T == {i \in DOMAIN q : Of(q[i], c, K)}
            p == Append(q, m)
            U == {i \in DOMAIN p : Of(p[i], c, K)}
<1>1. /\ DOMAIN q = 1..Len(q) /\ DOMAIN p = 1..(Len(q) + 1) /\ Len(q) \in Nat
      /\ p[Len(q) + 1] = m /\ \A i \in 1..Len(q) : p[i] = q[i]
  BY Items
<1>2. IsFiniteSet(T) /\ Cardinality(T) \in Nat
  BY NumberNat DEF Number
<1>5. Number(p, c, K) = Cardinality(U) /\ Number(q, c, K) = Cardinality(T)
  BY DEF Number
<1>3. CASE Of(m, c, K)
  <2>1. U = T \cup {Len(q) + 1} /\ Len(q) + 1 \notin T
    BY <1>1, <1>3
  <2>2. Cardinality(T \cup {Len(q) + 1}) = Cardinality(T) + 1
    BY ONLY <2>1, <1>2, FS_AddElement
  <2>. QED  BY <2>1, <2>2, <1>2, <1>3, <1>5 DEF Is
<1>4. CASE ~ Of(m, c, K)
  <2>1. U = T
    BY <1>1, <1>4
  <2>. HIDE DEF T, U, p
  <2>2. Number(p, c, K) = Number(q, c, K) /\ Is(m, c, K) = 0 /\ Number(q, c, K) \in Nat
    BY <2>1, <1>2, <1>4, <1>5 DEF Is
  <2>. QED  BY <2>2 DEF p
<1>. QED  BY <1>3, <1>4

\* The frame taken from the head no longer counts.
LEMMA NumberTail ==
  ASSUME NEW S, NEW q \in Seq(S), q # <<>>, NEW c, NEW K
  PROVE  Number(q, c, K) = Is(Head(q), c, K) + Number(Tail(q), c, K)
<1>. DEFINE p == Tail(q)
            T == {i \in DOMAIN q : Of(q[i], c, K)}
            U == {i \in DOMAIN p : Of(p[i], c, K)}
            V == T \ {1}
            f == [i \in U |-> i + 1]
<1>1. /\ DOMAIN q = 1..Len(q) /\ DOMAIN p = 1..(Len(q) - 1) /\ Len(q) \in Nat \ {0}
      /\ Head(q) = q[1] /\ \A i \in 1..(Len(q) - 1) : p[i] = q[i + 1]
  BY Items
<1>2. IsFiniteSet(T) /\ Cardinality(T) \in Nat
  BY NumberNat DEF Number
<1>3. IsFiniteSet(U)
  <2>1. p \in Seq(S)
    OBVIOUS
  <2>. QED  BY <2>1, NumberNat
<1>4. ExistsBijection(U, V)
  <2>1. f \in [U -> V]
    <3>1. ASSUME NEW i \in U PROVE i + 1 \in V
      BY <1>1
    <3>. QED  BY <3>1
  <2>2. \A a, b \in U : f[a] = f[b] => a = b
    BY <1>1
  <2>3. ASSUME NEW t \in V PROVE \E i \in U : f[i] = t
    <3>1. t - 1 \in U
      BY <1>1
    <3>. QED  BY <3>1, <1>1
  <2>4. f \in Bijection(U, V)
    BY <2>1, <2>2, <2>3 DEF Bijection, Injection, Surjection, IsInjective
  <2>. HIDE DEF f, U, V
  <2>. QED  BY <2>4 DEF ExistsBijection
<1>5. Cardinality(U) = Cardinality(V)
  <2>. HIDE DEF U, V
  <2>. QED  BY <1>3, <1>4, FS_Bijection
<1>6. Cardinality(V) = IF 1 \in T THEN Cardinality(T) - 1 ELSE Cardinality(T)
  <2>. HIDE DEF T
  <2>. QED  BY <1>2, FS_RemoveElement
<1>7. 1 \in T <=> Of(Head(q), c, K)
  BY <1>1
<1>8. Number(Tail(q), c, K) = Cardinality(U) /\ Number(q, c, K) = Cardinality(T)
  BY DEF Number
<1>. HIDE DEF T, U, V
<1>. QED  BY <1>2, <1>5, <1>6, <1>7, <1>8 DEF Is

\* A frame is of some kinds or not.
LEMMA IsNat ==
  ASSUME NEW m, NEW c, NEW K
  PROVE  /\ Is(m, c, K) \in {0, 1} /\ (Is(m, c, K) = 1 <=> Of(m, c, K))
         /\ None(m) \/ m.of # c => Is(m, c, K) = 0
         /\ ~ None(m) /\ m.of = c => Is(m, c, K) = IF m.kind \in K THEN 1 ELSE 0
         /\ \A L : K \subseteq L => Is(m, c, K) <= Is(m, c, L)
  BY DEF Is, Of

\* Order, and what frames carry, when a frame is put in at the end.
LEMMA Added ==
  ASSUME NEW S, NEW q \in Seq(S), NEW m \in S, NEW c
  PROVE  /\ \A K, n : AllOwn(q, c, K, n) /\ (Of(m, c, K) => m.n = n) => AllOwn(Append(q, m), c, K, n)
         /\ \A K, L : Before(q, c, K, L) /\ (Is(m, c, K) = 1 => Number(q, c, L) = 0 /\ K \cap L = {})
                         => Before(Append(q, m), c, K, L)
<1>. DEFINE p == Append(q, m)
<1>1. /\ DOMAIN q = 1..Len(q) /\ DOMAIN p = 1..(Len(q) + 1) /\ Len(q) \in Nat
      /\ p[Len(q) + 1] = m /\ \A i \in 1..Len(q) : p[i] = q[i]
  BY Items
<1>. HIDE DEF p
<1>2. ASSUME NEW K, NEW n, AllOwn(q, c, K, n), Of(m, c, K) => m.n = n PROVE AllOwn(p, c, K, n)
  BY <1>1, <1>2 DEF AllOwn
<1>3. ASSUME NEW K, NEW L, Before(q, c, K, L),
             Is(m, c, K) = 1 => Number(q, c, L) = 0 /\ K \cap L = {}
      PROVE  Before(p, c, K, L)
  <2>. SUFFICES ASSUME NEW i \in DOMAIN p, NEW j \in DOMAIN p, Of(p[i], c, K), Of(p[j], c, L)
                PROVE  i < j
    BY DEF Before
  <2>1. CASE i \in DOMAIN q /\ j \in DOMAIN q
    BY <1>1, <1>3, <2>1 DEF Before
  <2>2. CASE i \in DOMAIN q /\ j = Len(q) + 1
    BY <1>1, <2>2
  <2>3. CASE i = Len(q) + 1
    <3>1. Of(m, c, K)
      BY <1>1, <2>3
    <3>2. Number(q, c, L) = 0 /\ ~ Of(m, c, L)
      BY <1>3, <3>1 DEF Of, Is
    <3>3. j \in DOMAIN q /\ p[j] = q[j]
      BY <1>1, <3>2
    <3>. QED  BY <3>2, <3>3, NumberZero
  <2>. QED  BY <1>1, <2>1, <2>2, <2>3
<1>. QED  BY <1>2, <1>3 DEF p

\* ... and when the head is taken.
LEMMA Removed ==
  ASSUME NEW S, NEW q \in Seq(S), q # <<>>, NEW c
  PROVE  /\ \A K, n : AllOwn(q, c, K, n) =>
               AllOwn(Tail(q), c, K, n) /\ (Of(Head(q), c, K) => Head(q).n = n)
         /\ \A K, L : Before(q, c, K, L) =>
               /\ Before(Tail(q), c, K, L)
               /\ Is(Head(q), c, L) = 1 => Number(Tail(q), c, K) = 0 /\ Number(q, c, K) = 0
<1>. DEFINE p == Tail(q)
<1>1. /\ DOMAIN q = 1..Len(q) /\ DOMAIN p = 1..(Len(q) - 1) /\ Len(q) \in Nat \ {0}
      /\ Head(q) = q[1] /\ p \in Seq(S) /\ \A i \in 1..(Len(q) - 1) : p[i] = q[i + 1]
  BY Items
<1>. HIDE DEF p
<1>2. ASSUME NEW K, NEW n, AllOwn(q, c, K, n)
      PROVE  AllOwn(p, c, K, n) /\ (Of(Head(q), c, K) => Head(q).n = n)
  <2>1. 1 \in DOMAIN q
    BY <1>1
  <2>2. \A i \in DOMAIN p : i + 1 \in DOMAIN q /\ p[i] = q[i + 1]
    BY <1>1
  <2>. QED  BY <1>1, <1>2, <2>1, <2>2 DEF AllOwn
<1>3. ASSUME NEW K, NEW L, Before(q, c, K, L)
      PROVE  /\ Before(p, c, K, L)
             /\ Is(Head(q), c, L) = 1 => Number(p, c, K) = 0 /\ Number(q, c, K) = 0
  <2>1. ASSUME NEW i \in DOMAIN p, NEW j \in DOMAIN p, Of(p[i], c, K), Of(p[j], c, L) PROVE i < j
    <3>1. i + 1 \in DOMAIN q /\ j + 1 \in DOMAIN q /\ p[i] = q[i + 1] /\ p[j] = q[j + 1]
      BY <1>1
    <3>2. i + 1 < j + 1
      BY <1>3, <2>1, <3>1 DEF Before
    <3>. QED  BY <1>1, <3>2
  <2>2. ASSUME Is(Head(q), c, L) = 1 PROVE Number(p, c, K) = 0 /\ Number(q, c, K) = 0
    <3>1. 1 \in DOMAIN q /\ Of(q[1], c, L)
      BY <1>1, <2>2, IsNat
    <3>2. \A i \in DOMAIN q : ~ Of(q[i], c, K)
      BY <1>1, <1>3, <3>1 DEF Before
    <3>4. \A i \in DOMAIN p : i + 1 \in DOMAIN q /\ p[i] = q[i + 1]
      BY <1>1
    <3>3. \A i \in DOMAIN p : ~ Of(p[i], c, K)
      BY ONLY <3>2, <3>4
    <3>. QED  BY <1>1, <3>2, <3>3, NumberZero
  <2>. QED  BY <2>1, <2>2 DEF Before
<1>. QED  BY <1>2, <1>3 DEF p

\* Where there is no frame of the kinds, they all carry anything, and are in any order.
LEMMA Nothing ==
  ASSUME NEW S, NEW q \in Seq(S), NEW c, NEW K, Number(q, c, K) = 0
  PROVE  /\ \A n : AllOwn(q, c, K, n)
         /\ \A L : Before(q, c, K, L) /\ Before(q, c, L, K)
  BY NumberZero DEF AllOwn, Before

-----------------------------------------------------------------------------
(* The types.                                                              *)

\* A frame of a client; what is nowhere counts nowhere.
LEMMA FrameIs ==
  /\ \A k \in Kind, c \in Client, n \in Nat : [kind |-> k, of |-> c, n |-> n] \in Frame
  /\ \A k \in Kind, c \in Client : Frm(k, c) \in Frame
  /\ \A k, c : Frm(k, c).kind = k /\ Frm(k, c).of = c /\ Frm(k, c).n = 0
  /\ NoFrame \in Frame /\ None(NoFrame) /\ \A c, K : Is(NoFrame, c, K) = 0
  /\ \A m \in Frame : m.kind \in Kind /\ m.of \in Client /\ m.n \in Nat
<1>1. (CHOOSE c \in Client : TRUE) \in Client
  BY LineAssumption
<1>2. "none" \in Kind
  BY DEF Kind
<1>. QED  BY <1>1, <1>2 DEF Frame, Frm, NoFrame, None, Is, Of

\* What a step of one conduit leaves alone.
Elsewhere(c) ==
    \A d \in Client \ {c} :
        /\ client'[d] = client[d] /\ answer'[d] = answer[d] /\ rfifo'[d] = rfifo[d]
        /\ r'[d] = r[d] /\ s'[d] = s[d] /\ seg'[d] = seg[d] /\ yfifo'[d] = yfifo[d]

\* A function after a change at one place.
LEMMA Put1 ==
  ASSUME NEW D, NEW S, NEW f \in [D -> S], NEW c \in D, NEW x \in S
  PROVE  /\ [f EXCEPT ![c] = x] \in [D -> S] /\ [f EXCEPT ![c] = x][c] = x
         /\ \A d \in D \ {c} : [f EXCEPT ![c] = x][d] = f[d]
  OBVIOUS

\* A queue after a change at its ends.
LEMMA Queue1 ==
  ASSUME NEW D, NEW S, NEW f \in [D -> Seq(S)], NEW c \in D
  PROVE  /\ \A m \in S : /\ [f EXCEPT ![c] = Append(@, m)] \in [D -> Seq(S)]
                         /\ [f EXCEPT ![c] = Append(@, m)][c] = Append(f[c], m)
         /\ f[c] # <<>> => /\ [f EXCEPT ![c] = Tail(@)] \in [D -> Seq(S)]
                           /\ [f EXCEPT ![c] = Tail(@)][c] = Tail(f[c])
                           /\ Head(f[c]) \in S
         /\ [f EXCEPT ![c] = <<>>] \in [D -> Seq(S)]
         /\ [f EXCEPT ![c] = <<>>][c] = <<>>
         /\ \A x : \A d \in D \ {c} : [f EXCEPT ![c] = x][d] = f[d]
<1>1. f[c] \in Seq(S) /\ <<>> \in Seq(S)
  OBVIOUS
<1>2. \A m \in S : Append(f[c], m) \in Seq(S)
  BY <1>1
<1>3. f[c] # <<>> => Tail(f[c]) \in Seq(S) /\ Head(f[c]) \in S
  BY <1>1
<1>. QED  BY <1>1, <1>2, <1>3

\* What Send to rs232_w does to surrogate_r and to rs232_w.
LEMMA RSendsIs ==
  ASSUME Types, NEW c \in Client, NEW m \in Frame, NEW then \in {"locating", "up", "gone"},
         NEW held \in BOOLEAN, RSends(c, m, then, held)
  PROVE  /\ r' \in [Client -> RType] /\ writer' \in [Host -> Seq(Client)]
         /\ r'[c].at = "sending" /\ r'[c].then = then /\ r'[c].holds = held /\ r'[c].out = m
         /\ r'[c].missed = r[c].missed
         /\ \A d \in Client \ {c} : r'[d] = r[d]
         /\ writer'["A"] = Append(writer["A"], c) /\ writer'["B"] = writer["B"]
<1>1. r[c] \in RType /\ r \in [Client -> RType] /\ writer \in [Host -> Seq(Client)]
  BY DEF Types
<1>2. writer' = [writer EXCEPT !["A"] = Append(@, c)] /\ "A" \in Host /\ "B" \in Host \ {"A"}
  BY DEF RSends, Host
<1>3. writer' \in [Host -> Seq(Client)] /\ writer'["A"] = Append(writer["A"], c)
      /\ writer'["B"] = writer["B"]
  BY ONLY <1>1, <1>2, Queue1
<1>. DEFINE x == [r[c] EXCEPT !.at = "sending", !.then = then, !.out = m, !.holds = held]
<1>4. r' = [r EXCEPT ![c] = x]
  BY DEF RSends
<1>5. /\ x.at = "sending" /\ x.then = then /\ x.holds = held /\ x.out = m
      /\ x.missed = r[c].missed /\ x \in RType
  BY <1>1 DEF RType
<1>. HIDE DEF x
<1>6. r' \in [Client -> RType] /\ r'[c] = x /\ \A d \in Client \ {c} : r'[d] = r[d]
  BY ONLY <1>1, <1>4, <1>5, Put1
<1>. QED  BY ONLY <1>3, <1>5, <1>6

\* What Reply and ReplyError do to surrogate_r and to the client.
Told(c, m, next, failed) ==
    /\ answer' \in [Client -> Seq(Frame)] /\ r' \in [Client -> RType]
    /\ \E at \in {next, failed, "hung"} :
          /\ r'[c].at = at /\ r'[c].holds = FALSE /\ r'[c].then = r[c].then
          /\ r'[c].missed = r[c].missed /\ r'[c].out = r[c].out
          /\ \/ /\ at = next /\ client[c].at \in {"locating", "sending"}
                /\ answer'[c] = Append(answer[c], m)
             \/ at = "hung" /\ client[c].at \in {"closing", "killed"} /\ answer'[c] = answer[c]
             \/ at = failed /\ client[c].at = "exited" /\ answer'[c] = answer[c]
    /\ \A d \in Client \ {c} : r'[d] = r[d] /\ answer'[d] = answer[d]

\* Tell does that.
LEMMA TellIs ==
  ASSUME Types, NEW c \in Client, NEW m \in Frame, NEW next \in {"up", "gone"},
         NEW failed \in {"faulted", "gone"}, Tell(c, m, next, failed)
  PROVE  Told(c, m, next, failed)
<1>1. r[c] \in RType /\ r \in [Client -> RType] /\ answer \in [Client -> Seq(Frame)]
  BY DEF Types
<1>2. ASSUME NEW at \in {next, failed, "hung"}, r' = [r EXCEPT ![c].holds = FALSE, ![c].at = at]
      PROVE  /\ r' \in [Client -> RType] /\ r'[c].at = at /\ r'[c].holds = FALSE
             /\ r'[c].then = r[c].then /\ r'[c].missed = r[c].missed /\ r'[c].out = r[c].out
             /\ \A d \in Client \ {c} : r'[d] = r[d]
  <2>. DEFINE x == [r[c] EXCEPT !.holds = FALSE, !.at = at]
  <2>1. x \in RType /\ r' = [r EXCEPT ![c] = x]
    BY <1>1, <1>2 DEF RType
  <2>3. /\ x.at = at /\ x.holds = FALSE /\ x.then = r[c].then /\ x.missed = r[c].missed
        /\ x.out = r[c].out
    BY <1>1 DEF RType
  <2>. HIDE DEF x
  <2>2. r' \in [Client -> RType] /\ r'[c] = x /\ \A d \in Client \ {c} : r'[d] = r[d]
    BY ONLY <1>1, <2>1, Put1
  <2>. QED  BY ONLY <2>2, <2>3
<1>3. CASE /\ client[c].at \in {"locating", "sending"}
           /\ answer' = [answer EXCEPT ![c] = Append(@, m)]
           /\ r' = [r EXCEPT ![c].holds = FALSE, ![c].at = next]
  <2>1. /\ answer' \in [Client -> Seq(Frame)] /\ answer'[c] = Append(answer[c], m)
        /\ \A d \in Client \ {c} : answer'[d] = answer[d]
    BY ONLY <1>1, <1>3, Queue1
  <2>2. next \in {next, failed, "hung"}
    OBVIOUS
  <2>. QED  BY ONLY <1>2, <1>3, <2>1, <2>2 DEF Told
<1>4. CASE /\ client[c].at \in {"closing", "killed"}
           /\ r' = [r EXCEPT ![c].holds = FALSE, ![c].at = "hung"] /\ UNCHANGED answer
  <2>2. "hung" \in {next, failed, "hung"}
    OBVIOUS
  <2>. QED  BY ONLY <1>1, <1>2, <1>4, <2>2 DEF Told
<1>5. CASE /\ client[c].at = "exited"
           /\ r' = [r EXCEPT ![c].holds = FALSE, ![c].at = failed] /\ UNCHANGED answer
  <2>2. failed \in {next, failed, "hung"}
    OBVIOUS
  <2>. QED  BY ONLY <1>1, <1>2, <1>5, <2>2 DEF Told
<1>. QED  BY <1>3, <1>4, <1>5 DEF Tell

\* surrogate_r moves on without a word.
LEMMA RMoves ==
  ASSUME Types, NEW c \in Client,
         NEW at \in {"attached", "locating", "up", "sending", "hung", "faulted", "gone"},
         r' = [r EXCEPT ![c].at = at]
  PROVE  /\ r' \in [Client -> RType] /\ r'[c].at = at /\ r'[c].then = r[c].then
         /\ r'[c].holds = r[c].holds /\ r'[c].missed = r[c].missed /\ r'[c].out = r[c].out
         /\ \A d \in Client \ {c} : r'[d] = r[d]
<1>1. r[c] \in RType /\ r \in [Client -> RType]
  BY DEF Types
<1>. DEFINE x == [r[c] EXCEPT !.at = at]
<1>2. x \in RType /\ r' = [r EXCEPT ![c] = x]
  BY <1>1 DEF RType
<1>4. /\ x.at = at /\ x.then = r[c].then /\ x.holds = r[c].holds /\ x.missed = r[c].missed
      /\ x.out = r[c].out
  BY <1>1 DEF RType
<1>. HIDE DEF x
<1>3. r' \in [Client -> RType] /\ r'[c] = x /\ \A d \in Client \ {c} : r'[d] = r[d]
  BY ONLY <1>1, <1>2, Put1
<1>. QED  BY ONLY <1>3, <1>4

\* surrogate_s moves on without a word.
LEMMA SMoves ==
  ASSUME Types, NEW c \in Client, NEW at \in {"none", "forked", "up", "sending", "gone"},
         s' = [s EXCEPT ![c].at = at]
  PROVE  /\ s' \in [Client -> SType] /\ s'[c].at = at /\ s'[c].then = s[c].then
         /\ \A d \in Client \ {c} : s'[d] = s[d]
<1>1. s[c] \in SType /\ s \in [Client -> SType]
  BY DEF Types
<1>. DEFINE x == [s[c] EXCEPT !.at = at]
<1>2. x \in SType /\ s' = [s EXCEPT ![c] = x] /\ x.at = at /\ x.then = s[c].then
  BY <1>1 DEF SType
<1>. HIDE DEF x
<1>3. s' \in [Client -> SType] /\ s'[c] = x /\ \A d \in Client \ {c} : s'[d] = s[d]
  BY ONLY <1>1, <1>2, Put1
<1>. QED  BY ONLY <1>2, <1>3

\* The bounds of the way the conduits are used.
LEMMA SetupIs ==
  ASSUME Types
  PROVE  /\ setup.limit \in 0..Limit /\ setup.asks \in 0..MaxAsks /\ setup.loses \in 0..MaxLost
         /\ Limit \in Nat /\ MaxAsks \in Nat /\ MaxLost \in Nat
  BY SetupAssumption, LineAssumption DEF Types, Setup

\* What a change at one client's place does to client.
LEMMA ClientIs ==
  ASSUME Types, NEW c \in Client,
         NEW at \in {"start", "locating", "idle", "sending", "refused", "closing", "exited",
                     "killed"},
         NEW n \in 0..MaxAsks,
         \/ client' = [client EXCEPT ![c].at = at] /\ n = client[c].asked
         \/ client' = [client EXCEPT ![c].asked = n] /\ at = client[c].at
         \/ client' = [client EXCEPT ![c].asked = n, ![c].at = at]
  PROVE  /\ client' \in [Client -> ClientType] /\ client'[c].at = at /\ client'[c].asked = n
         /\ \A d \in Client \ {c} : client'[d] = client[d]
<1>1. client[c] \in ClientType /\ client \in [Client -> ClientType]
  BY DEF Types
<1>2. ASSUME NEW x \in ClientType, client' = [client EXCEPT ![c] = x], x.at = at, x.asked = n
      PROVE  /\ client' \in [Client -> ClientType] /\ client'[c].at = at /\ client'[c].asked = n
             /\ \A d \in Client \ {c} : client'[d] = client[d]
  BY ONLY <1>1, <1>2, Put1
<1>. DEFINE x == [client[c] EXCEPT !.at = at]
            y == [client[c] EXCEPT !.asked = n]
            z == [client[c] EXCEPT !.asked = n, !.at = at]
<1>3. /\ x \in ClientType /\ x.at = at /\ x.asked = client[c].asked
      /\ y \in ClientType /\ y.asked = n /\ y.at = client[c].at
      /\ z \in ClientType /\ z.asked = n /\ z.at = at
  BY <1>1 DEF ClientType
<1>4. CASE client' = [client EXCEPT ![c].at = at] /\ n = client[c].asked
  <2>1. client' = [client EXCEPT ![c] = x]
    BY <1>4
  <2>. HIDE DEF x, y, z
  <2>. QED  BY ONLY <1>2, <1>3, <1>4, <2>1
<1>5. CASE client' = [client EXCEPT ![c].asked = n] /\ at = client[c].at
  <2>1. client' = [client EXCEPT ![c] = y]
    BY <1>5
  <2>. HIDE DEF x, y, z
  <2>. QED  BY ONLY <1>2, <1>3, <1>5, <2>1
<1>6. CASE client' = [client EXCEPT ![c].asked = n, ![c].at = at]
  <2>1. client' = [client EXCEPT ![c] = z]
    BY <1>6
  <2>. HIDE DEF x, y, z
  <2>. QED  BY ONLY <1>2, <1>3, <1>6, <2>1
<1>. QED  BY <1>4, <1>5, <1>6

\* What a client changes.
ClientSide(c) ==
    /\ UNCHANGED <<setup, r, sVars, wires, vVars>>
    /\ client' \in [Client -> ClientType] /\ answer' \in [Client -> Seq(Frame)]
    /\ rfifo' \in [Client -> Seq(Frame)] /\ Elsewhere(c)

\* The actions of a client, at its own place.
LEMMA LocateDoes ==
  ASSUME Types, NEW c \in Client, Locate(c)
  PROVE  /\ ClientSide(c) /\ answer'[c] = answer[c] /\ rfifo'[c] = Append(rfifo[c], Frm("locate", c))
         /\ client[c].at = "start" /\ client'[c].at = "locating"
<1>1. /\ client \in [Client -> ClientType] /\ rfifo \in [Client -> Seq(Frame)]
      /\ answer \in [Client -> Seq(Frame)] /\ client[c].asked \in 0..MaxAsks
  BY DEF Types, ClientType
<1>2. /\ client' = [client EXCEPT ![c].at = "locating"] /\ client[c].at = "start"
      /\ rfifo' = [rfifo EXCEPT ![c] = Append(@, Frm("locate", c))]
      /\ UNCHANGED <<setup, answer, r, sVars, wires, vVars>>
  BY DEF Locate, Puts
<1>3. /\ client' \in [Client -> ClientType] /\ client'[c].at = "locating"
      /\ \A d \in Client \ {c} : client'[d] = client[d]
  BY ONLY <1>1, <1>2, Types, ClientIs
<1>4. Frm("locate", c) \in Frame
  BY FrameIs DEF Kind
<1>5. /\ rfifo' \in [Client -> Seq(Frame)] /\ rfifo'[c] = Append(rfifo[c], Frm("locate", c))
      /\ \A d \in Client \ {c} : rfifo'[d] = rfifo[d]
  BY ONLY <1>1, <1>2, <1>4, Queue1
<1>. QED  BY ONLY <1>1, <1>2, <1>3, <1>5 DEF ClientSide, Elsewhere, sVars, rVars

\* It sends, when its surrogate_r is there.
LEMMA ClientSendDoes ==
  ASSUME Types, NEW c \in Client, ClientSend(c)
  PROVE  /\ ClientSide(c) /\ answer'[c] = answer[c] /\ client[c].at = "idle"
         /\ client'[c].asked = client[c].asked + 1
         /\ \/ /\ client'[c].at = "sending"
               /\ rfifo'[c] = Append(rfifo[c], [kind |-> "send", of |-> c, n |-> client'[c].asked])
            \/ client'[c].at = "idle" /\ rfifo'[c] = rfifo[c]
<1>. DEFINE n == client[c].asked + 1
            m == [kind |-> "send", of |-> c, n |-> n]
<1>1. /\ client \in [Client -> ClientType] /\ rfifo \in [Client -> Seq(Frame)]
      /\ answer \in [Client -> Seq(Frame)] /\ client[c].asked \in 0..MaxAsks
  BY DEF Types, ClientType
<1>2. /\ client[c].at = "idle" /\ client[c].asked < setup.asks
      /\ UNCHANGED <<setup, answer, r, sVars, wires, vVars>>
  BY DEF ClientSend
<1>6. \/ /\ client' = [client EXCEPT ![c].asked = n, ![c].at = "sending"]
         /\ rfifo' = [rfifo EXCEPT ![c] = Append(@, m)]
      \/ client' = [client EXCEPT ![c].asked = n] /\ rfifo' = rfifo
  BY DEF ClientSend, Puts
<1>3. n \in 0..MaxAsks /\ n \in Nat
  BY <1>1, <1>2, SetupIs
<1>4. m \in Frame
  BY <1>3, FrameIs DEF Kind
<1>. HIDE DEF m, n
<1>7. CASE /\ client' = [client EXCEPT ![c].asked = n, ![c].at = "sending"]
           /\ rfifo' = [rfifo EXCEPT ![c] = Append(@, m)]
  <2>1. /\ client' \in [Client -> ClientType] /\ client'[c].at = "sending" /\ client'[c].asked = n
        /\ \A d \in Client \ {c} : client'[d] = client[d]
    BY ONLY <1>1, <1>7, <1>3, Types, ClientIs
  <2>2. /\ rfifo' \in [Client -> Seq(Frame)] /\ rfifo'[c] = Append(rfifo[c], m)
        /\ \A d \in Client \ {c} : rfifo'[d] = rfifo[d]
    BY ONLY <1>1, <1>7, <1>4, Queue1
  <2>. QED  BY ONLY <1>1, <1>2, <2>1, <2>2 DEF ClientSide, Elsewhere, sVars, rVars, m, n
<1>8. CASE client' = [client EXCEPT ![c].asked = n] /\ rfifo' = rfifo
  <2>1. /\ client' \in [Client -> ClientType] /\ client'[c].at = "idle" /\ client'[c].asked = n
        /\ \A d \in Client \ {c} : client'[d] = client[d]
    BY ONLY <1>1, <1>2, <1>8, <1>3, Types, ClientIs
  <2>. QED  BY ONLY <1>1, <1>2, <1>8, <2>1 DEF ClientSide, Elsewhere, sVars, rVars, n
<1>. QED  BY ONLY <1>6, <1>7, <1>8

\* It triggers, and does not wait.
LEMMA ClientTriggerDoes ==
  ASSUME Types, NEW c \in Client, ClientTrigger(c)
  PROVE  /\ ClientSide(c) /\ answer'[c] = answer[c] /\ client[c].at = "idle"
         /\ client'[c].at = "idle" /\ rfifo'[c] = Append(rfifo[c], Frm("proxy", c))
<1>1. /\ client \in [Client -> ClientType] /\ rfifo \in [Client -> Seq(Frame)]
      /\ answer \in [Client -> Seq(Frame)] /\ client[c].asked \in 0..MaxAsks
  BY DEF Types, ClientType
<1>2. /\ client' = [client EXCEPT ![c].asked = @ + 1] /\ client[c].at = "idle"
      /\ client[c].asked < setup.asks
      /\ rfifo' = [rfifo EXCEPT ![c] = Append(@, Frm("proxy", c))]
      /\ UNCHANGED <<setup, answer, r, sVars, wires, vVars>>
  BY DEF ClientTrigger, Puts
<1>. DEFINE n == client[c].asked + 1
<1>6. n \in 0..MaxAsks /\ client' = [client EXCEPT ![c].asked = n]
  BY <1>1, <1>2, SetupIs
<1>. HIDE DEF n
<1>3. /\ client' \in [Client -> ClientType] /\ client'[c].at = "idle"
      /\ \A d \in Client \ {c} : client'[d] = client[d]
  BY ONLY <1>1, <1>2, <1>6, Types, ClientIs
<1>4. Frm("proxy", c) \in Frame
  BY FrameIs DEF Kind
<1>5. /\ rfifo' \in [Client -> Seq(Frame)] /\ rfifo'[c] = Append(rfifo[c], Frm("proxy", c))
      /\ \A d \in Client \ {c} : rfifo'[d] = rfifo[d]
  BY ONLY <1>1, <1>2, <1>4, Queue1
<1>. QED  BY ONLY <1>1, <1>2, <1>3, <1>5 DEF ClientSide, Elsewhere, sVars, rVars

\* Its Send or its look-up returns.
LEMMA ClientReturnDoes ==
  ASSUME Types, NEW c \in Client, ClientReturn(c)
  PROVE  /\ ClientSide(c) /\ client[c].at \in {"locating", "sending"} /\ answer[c] # <<>>
         /\ answer'[c] = Tail(answer[c]) /\ client'[c].at \in {"idle", "refused"}
         /\ rfifo'[c] = rfifo[c]
<1>1. /\ client \in [Client -> ClientType] /\ rfifo \in [Client -> Seq(Frame)]
      /\ answer \in [Client -> Seq(Frame)] /\ client[c].asked \in 0..MaxAsks
  BY DEF Types, ClientType
<1>. DEFINE at == IF client[c].at = "sending" \/ Head(answer[c]).kind = "found"
                  THEN "idle" ELSE "refused"
<1>2. /\ client[c].at \in {"locating", "sending"} /\ answer[c] # <<>>
      /\ client' = [client EXCEPT ![c].at = at]
      /\ answer' = [answer EXCEPT ![c] = Tail(@)]
      /\ UNCHANGED <<setup, r, rfifo, sVars, wires, vVars>>
  BY DEF ClientReturn, rVars
<1>6. at \in {"idle", "refused"}
  OBVIOUS
<1>. HIDE DEF at
<1>3. /\ client' \in [Client -> ClientType] /\ client'[c].at = at
      /\ \A d \in Client \ {c} : client'[d] = client[d]
  BY ONLY <1>1, <1>2, <1>6, Types, ClientIs
<1>5. /\ answer' \in [Client -> Seq(Frame)] /\ answer'[c] = Tail(answer[c])
      /\ \A d \in Client \ {c} : answer'[d] = answer[d]
  BY ONLY <1>1, <1>2, Queue1
<1>. QED  BY ONLY <1>1, <1>2, <1>3, <1>5, <1>6 DEF ClientSide, Elsewhere, sVars, rVars

\* It leaves: its reply fifo goes.
LEMMA ClientLeavesDoes ==
  ASSUME Types, NEW c \in Client, ClientExit(c) \/ ClientRemove(c) \/ ClientKill(c)
  PROVE  /\ ClientSide(c) /\ client'[c].at \in {"closing", "exited", "killed"}
         /\ \/ answer'[c] = <<>>
            \/ answer'[c] = answer[c] /\ client[c].at = "closing"
         /\ rfifo'[c] = rfifo[c] \/ rfifo'[c] = Append(rfifo[c], Frm("close", c))
<1>1. /\ client \in [Client -> ClientType] /\ rfifo \in [Client -> Seq(Frame)]
      /\ answer \in [Client -> Seq(Frame)] /\ client[c].asked \in 0..MaxAsks
  BY DEF Types, ClientType
<1>2. /\ \E at \in {"closing", "exited", "killed"} : client' = [client EXCEPT ![c].at = at]
      /\ \/ answer' = [answer EXCEPT ![c] = <<>>]
         \/ answer' = answer /\ client[c].at = "closing"
      /\ rfifo' = rfifo \/ rfifo' = [rfifo EXCEPT ![c] = Append(@, Frm("close", c))]
      /\ UNCHANGED <<setup, r, sVars, wires, vVars>>
  BY DEF ClientExit, ClientRemove, ClientKill, Puts, rVars
<1>3. /\ client' \in [Client -> ClientType] /\ client'[c].at \in {"closing", "exited", "killed"}
      /\ \A d \in Client \ {c} : client'[d] = client[d]
  <2>1. PICK at \in {"closing", "exited", "killed"} : client' = [client EXCEPT ![c].at = at]
    BY <1>2
  <2>. QED  BY ONLY <1>1, <2>1, Types, ClientIs
<1>4. Frm("close", c) \in Frame
  BY FrameIs DEF Kind
<1>5. /\ rfifo' \in [Client -> Seq(Frame)]
      /\ rfifo'[c] = rfifo[c] \/ rfifo'[c] = Append(rfifo[c], Frm("close", c))
      /\ \A d \in Client \ {c} : rfifo'[d] = rfifo[d]
  <2>1. CASE rfifo' = rfifo
    BY ONLY <1>1, <2>1
  <2>2. CASE rfifo' = [rfifo EXCEPT ![c] = Append(@, Frm("close", c))]
    BY ONLY <1>1, <1>4, <2>2, Queue1
  <2>. QED  BY ONLY <1>2, <2>1, <2>2
<1>6. /\ answer' \in [Client -> Seq(Frame)]
      /\ answer'[c] = <<>> \/ (answer'[c] = answer[c] /\ client[c].at = "closing")
      /\ \A d \in Client \ {c} : answer'[d] = answer[d]
  <2>1. CASE answer' = [answer EXCEPT ![c] = <<>>]
    BY ONLY <1>1, <2>1, Queue1
  <2>2. CASE answer' = answer /\ client[c].at = "closing"
    BY ONLY <1>1, <2>2
  <2>. QED  BY ONLY <1>2, <2>1, <2>2
<1>. QED  BY ONLY <1>1, <1>2, <1>3, <1>5, <1>6 DEF ClientSide, Elsewhere, sVars, rVars

\* What surrogate_r changes.
RSide(c) ==
    /\ UNCHANGED <<setup, client, sVars, line, lost, vVars>>
    /\ answer' \in [Client -> Seq(Frame)] /\ rfifo' \in [Client -> Seq(Frame)]
    /\ r' \in [Client -> RType] /\ writer' \in [Host -> Seq(Client)]
    /\ reader' \in [Host -> Frame] /\ Elsewhere(c)
    /\ reader'["B"] = reader["B"] /\ writer'["B"] = writer["B"]

\* At its own place it sends to rs232_w, or goes on, or answers its client.
Sent(c, m, then, held) ==
    /\ r'[c].at = "sending" /\ r'[c].then = then /\ r'[c].holds = held /\ r'[c].out = m
    /\ writer'["A"] = Append(writer["A"], c) /\ answer'[c] = answer[c]
Moved(c, at) ==
    /\ r'[c].at = at /\ r'[c].then = r[c].then /\ r'[c].holds = r[c].holds /\ r'[c].out = r[c].out
    /\ writer' = writer /\ answer'[c] = answer[c]
Answered(c, m, next, failed) ==
    /\ writer' = writer /\ r'[c].holds = FALSE /\ r'[c].out = r[c].out
    /\ \/ /\ r'[c].at = next /\ client[c].at \in {"locating", "sending"}
          /\ answer'[c] = Append(answer[c], m)
       \/ /\ r'[c].at = "hung" /\ client[c].at \in {"closing", "killed"}
          /\ answer'[c] = answer[c]
       \/ r'[c].at = failed /\ client[c].at = "exited" /\ answer'[c] = answer[c]

\* It has taken a message of kind k, or none, and a frame of rs232_r, or none.
Took(c, k) ==
    /\ rfifo[c] # <<>> /\ Head(rfifo[c]).kind = k /\ Head(rfifo[c]) \in Frame
    /\ rfifo'[c] = Tail(rfifo[c])
    /\ reader' = reader \/ (k = "remote" /\ reader'["A"] = NoFrame)

\* What RTakes and RHears do.
LEMMA RTakesIs ==
  ASSUME Types, NEW c \in Client, NEW k,
         (RTakes(c, k) /\ reader' = reader) \/ (k = "remote" /\ RHears(c))
  PROVE  /\ Took(c, k) /\ rfifo' \in [Client -> Seq(Frame)] /\ reader' \in [Host -> Frame]
         /\ \A d \in Client \ {c} : rfifo'[d] = rfifo[d]
         /\ reader'["B"] = reader["B"]
<1>1. rfifo \in [Client -> Seq(Frame)] /\ reader \in [Host -> Frame]
  BY DEF Types
<1>2. /\ rfifo[c] # <<>> /\ Head(rfifo[c]).kind = k /\ rfifo' = [rfifo EXCEPT ![c] = Tail(@)]
      /\ reader' = reader \/ (k = "remote" /\ reader' = [reader EXCEPT !["A"] = NoFrame])
  BY DEF RTakes, RHears
<1>3. /\ rfifo' \in [Client -> Seq(Frame)] /\ rfifo'[c] = Tail(rfifo[c])
      /\ Head(rfifo[c]) \in Frame /\ \A d \in Client \ {c} : rfifo'[d] = rfifo[d]
  BY ONLY <1>1, <1>2, Queue1
<1>4. /\ reader' \in [Host -> Frame] /\ reader'["B"] = reader["B"]
      /\ reader' = reader \/ (k = "remote" /\ reader'["A"] = NoFrame)
  BY ONLY <1>1, <1>2, FrameIs DEF Host
<1>. QED  BY ONLY <1>2, <1>3, <1>4 DEF Took

\* The parts of Types a step of surrogate_r starts from.
LEMMA RTypes ==
  ASSUME Types
  PROVE  /\ answer \in [Client -> Seq(Frame)] /\ rfifo \in [Client -> Seq(Frame)]
         /\ r \in [Client -> RType] /\ writer \in [Host -> Seq(Client)]
         /\ reader \in [Host -> Frame] /\ "A" \in Host /\ "B" \in Host
  BY DEF Types, Host

\* It takes a message and faults, or sends to rs232_w.
LEMMA ROneDoes ==
  ASSUME Types, NEW c \in Client, NEW k, NEW m \in Frame, NEW then \in {"locating", "up", "gone"},
         NEW held \in BOOLEAN, RTakes(c, k),
         \/ RFaults(c) /\ UNCHANGED writer
         \/ RSends(c, m, then, held) /\ UNCHANGED answer,
         UNCHANGED <<setup, client, sVars, line, reader, lost, vVars>>
  PROVE  /\ RSide(c) /\ Took(c, k) /\ reader' = reader /\ r'[c].missed = r[c].missed
         /\ Moved(c, "faulted") \/ Sent(c, m, then, held)
<1>1. /\ Took(c, k) /\ rfifo' \in [Client -> Seq(Frame)] /\ reader' \in [Host -> Frame]
      /\ \A d \in Client \ {c} : rfifo'[d] = rfifo[d]
      /\ reader'["B"] = reader["B"]
  BY ONLY Types, RTakes(c, k), UNCHANGED reader, RTakesIs
<1>2. CASE RFaults(c) /\ UNCHANGED writer
  <2>1. r' = [r EXCEPT ![c].at = "faulted"] /\ answer' = answer
    BY <1>2 DEF RFaults
  <2>2. /\ r' \in [Client -> RType] /\ r'[c].at = "faulted" /\ r'[c].then = r[c].then
        /\ r'[c].holds = r[c].holds /\ r'[c].missed = r[c].missed /\ r'[c].out = r[c].out
        /\ \A d \in Client \ {c} : r'[d] = r[d]
    BY ONLY <2>1, Types, RMoves
  <2>. QED  BY ONLY <1>1, <1>2, <2>1, <2>2, Types, RTypes,
               UNCHANGED <<setup, client, sVars, line, reader, lost, vVars>>
            DEF RSide, Moved, Elsewhere, sVars
<1>3. CASE RSends(c, m, then, held) /\ UNCHANGED answer
  <2>1. /\ r' \in [Client -> RType] /\ writer' \in [Host -> Seq(Client)]
        /\ r'[c].at = "sending" /\ r'[c].then = then /\ r'[c].holds = held /\ r'[c].out = m
        /\ r'[c].missed = r[c].missed
        /\ \A d \in Client \ {c} : r'[d] = r[d]
        /\ writer'["A"] = Append(writer["A"], c) /\ writer'["B"] = writer["B"]
    BY ONLY <1>3, Types, RSendsIs
  <2>. QED  BY ONLY <1>1, <1>3, <2>1, Types, RTypes,
               UNCHANGED <<setup, client, sVars, line, reader, lost, vVars>>
            DEF RSide, Sent, Elsewhere, sVars
<1>. QED  BY <1>2, <1>3

\* It takes the look-up of its client.
LEMMA RLocateDoes ==
  ASSUME Types, NEW c \in Client, RLocate(c)
  PROVE  /\ RSide(c) /\ Took(c, "locate") /\ reader' = reader /\ r'[c].missed = r[c].missed
         /\ r[c].at = "attached"
         /\ Moved(c, "faulted") \/ Sent(c, Frm("locate", c), "locating", TRUE)
<1>1. Frm("locate", c) \in Frame
  BY FrameIs DEF Kind
<1>2. /\ RTakes(c, "locate") /\ r[c].at = "attached"
      /\ \/ RFaults(c) /\ UNCHANGED writer
         \/ RSends(c, Frm("locate", c), "locating", TRUE) /\ UNCHANGED answer
      /\ UNCHANGED <<setup, client, sVars, line, reader, lost, vVars>>
  BY DEF RLocate
<1>3. /\ RSide(c) /\ Took(c, "locate") /\ reader' = reader /\ r'[c].missed = r[c].missed
      /\ Moved(c, "faulted") \/ Sent(c, Frm("locate", c), "locating", TRUE)
  BY ONLY <1>1, <1>2, Types, ROneDoes
<1>. QED  BY <1>2, <1>3

\* It takes a request and passes it on as it is.
LEMMA RSendDoes ==
  ASSUME Types, NEW c \in Client, RSend(c)
  PROVE  /\ RSide(c) /\ Took(c, "send") /\ reader' = reader /\ r'[c].missed = r[c].missed
         /\ r[c].at = "up"
         /\ Moved(c, "faulted") \/ Sent(c, Head(rfifo[c]), "up", TRUE)
<1>. DEFINE m == Head(rfifo[c])
<1>2. /\ RTakes(c, "send") /\ r[c].at = "up"
      /\ \/ RFaults(c) /\ UNCHANGED writer
         \/ RSends(c, m, "up", TRUE) /\ UNCHANGED answer
      /\ UNCHANGED <<setup, client, sVars, line, reader, lost, vVars>>
  BY DEF RSend
<1>1. m \in Frame
  <2>1. Took(c, "send")
    BY ONLY <1>2, Types, RTakesIs
  <2>. QED  BY <2>1 DEF Took
<1>. HIDE DEF m
<1>3. /\ RSide(c) /\ Took(c, "send") /\ reader' = reader /\ r'[c].missed = r[c].missed
      /\ Moved(c, "faulted") \/ Sent(c, m, "up", TRUE)
  BY ONLY <1>1, <1>2, Types, ROneDoes
<1>. QED  BY <1>2, <1>3 DEF m

\* It passes a Trigger on.
LEMMA RProxyDoes ==
  ASSUME Types, NEW c \in Client, RProxy(c)
  PROVE  /\ RSide(c) /\ Took(c, "proxy") /\ reader' = reader /\ r'[c].missed = r[c].missed
         /\ r[c].at = "up" /\ Sent(c, Frm("proxy", c), "up", r[c].holds)
<1>1. Frm("proxy", c) \in Frame /\ r[c].holds \in BOOLEAN
  BY FrameIs DEF Kind, Types, RType
<1>2. /\ RTakes(c, "proxy") /\ r[c].at = "up"
      /\ RSends(c, Frm("proxy", c), "up", r[c].holds) /\ UNCHANGED answer
      /\ UNCHANGED <<setup, client, sVars, line, reader, lost, vVars>>
  BY DEF RProxy
<1>3. /\ RSide(c) /\ Took(c, "proxy") /\ reader' = reader /\ r'[c].missed = r[c].missed
      /\ Moved(c, "faulted") \/ Sent(c, Frm("proxy", c), "up", r[c].holds)
  BY ONLY <1>1, <1>2, Types, ROneDoes
<1>4. r'[c].at # "faulted"
  BY ONLY <1>1, <1>2, Types, RSendsIs
<1>. QED  BY <1>2, <1>3, <1>4 DEF Moved

\* It passes on that its client leaves.
LEMMA RCloseDoes ==
  ASSUME Types, NEW c \in Client, RClose(c)
  PROVE  /\ RSide(c) /\ Took(c, "close") /\ reader' = reader /\ r'[c].missed = r[c].missed
         /\ r[c].at = "up" /\ Sent(c, Frm("close", c), "gone", r[c].holds)
<1>1. Frm("close", c) \in Frame /\ r[c].holds \in BOOLEAN
  BY FrameIs DEF Kind, Types, RType
<1>2. /\ RTakes(c, "close") /\ r[c].at = "up"
      /\ RSends(c, Frm("close", c), "gone", r[c].holds) /\ UNCHANGED answer
      /\ UNCHANGED <<setup, client, sVars, line, reader, lost, vVars>>
  BY DEF RClose
<1>3. /\ RSide(c) /\ Took(c, "close") /\ reader' = reader /\ r'[c].missed = r[c].missed
      /\ Moved(c, "faulted") \/ Sent(c, Frm("close", c), "gone", r[c].holds)
  BY ONLY <1>1, <1>2, Types, ROneDoes
<1>4. r'[c].at # "faulted"
  BY ONLY <1>1, <1>2, Types, RSendsIs
<1>. QED  BY <1>2, <1>3, <1>4 DEF Moved

\* It answers its client.
LEMMA RTells ==
  ASSUME Types, NEW c \in Client, NEW m \in Frame, NEW next \in {"up", "gone"},
         NEW failed \in {"faulted", "gone"}, Tell(c, m, next, failed), UNCHANGED writer
  PROVE  /\ Answered(c, m, next, failed) /\ r'[c].missed = r[c].missed
         /\ r' \in [Client -> RType] /\ answer' \in [Client -> Seq(Frame)]
         /\ \A d \in Client \ {c} : r'[d] = r[d] /\ answer'[d] = answer[d]
<1>1. Told(c, m, next, failed)
  BY TellIs
<1>. QED  BY ONLY <1>1, UNCHANGED writer DEF Told, Answered

\* It hears what became of the look-up.
LEMMA RLocatedDoes ==
  ASSUME Types, NEW c \in Client, RLocated(c)
  PROVE  /\ RSide(c) /\ Took(c, "remote") /\ reader'["A"] = NoFrame /\ r[c].at = "locating"
         /\ r'[c].missed = r[c].missed /\ Answered(c, reader["A"], "up", "faulted")
<1>1. /\ RHears(c) /\ r[c].at = "locating" /\ Tell(c, reader["A"], "up", "faulted")
      /\ UNCHANGED <<setup, client, sVars, writer, line, lost, vVars>>
      /\ reader' = [reader EXCEPT !["A"] = NoFrame]
  BY DEF RLocated, RHears
<1>2. reader["A"] \in Frame /\ reader'["A"] = NoFrame
  BY <1>1, RTypes
<1>3. /\ Took(c, "remote") /\ rfifo' \in [Client -> Seq(Frame)] /\ reader' \in [Host -> Frame]
      /\ \A d \in Client \ {c} : rfifo'[d] = rfifo[d]
      /\ reader'["B"] = reader["B"]
  BY ONLY <1>1, Types, RTakesIs
<1>4. /\ Answered(c, reader["A"], "up", "faulted") /\ r'[c].missed = r[c].missed
      /\ r' \in [Client -> RType] /\ answer' \in [Client -> Seq(Frame)]
      /\ \A d \in Client \ {c} : r'[d] = r[d] /\ answer'[d] = answer[d]
  BY ONLY <1>1, <1>2, Types, RTells
<1>. QED  BY ONLY <1>1, <1>2, <1>3, <1>4, Types, RTypes DEF RSide, Elsewhere, sVars

\* It hears nothing of the look-up.
LEMMA RLocateTimeoutDoes ==
  ASSUME Types, NEW c \in Client, RLocateTimeout(c)
  PROVE  /\ RSide(c) /\ r[c].at = "locating" /\ rfifo'[c] = rfifo[c] /\ reader' = reader
         /\ r'[c].missed = r[c].missed /\ Answered(c, Frm("absent", c), "gone", "faulted")
<1>1. /\ r[c].at = "locating" /\ Tell(c, Frm("absent", c), "gone", "faulted")
      /\ UNCHANGED <<setup, client, rfifo, sVars, wires, vVars>>
  BY DEF RLocateTimeout
<1>2. Frm("absent", c) \in Frame
  BY FrameIs DEF Kind
<1>4. /\ Answered(c, Frm("absent", c), "gone", "faulted") /\ r'[c].missed = r[c].missed
      /\ r' \in [Client -> RType] /\ answer' \in [Client -> Seq(Frame)]
      /\ \A d \in Client \ {c} : r'[d] = r[d] /\ answer'[d] = answer[d]
  BY ONLY <1>1, <1>2, Types, RTells DEF wires
<1>. QED  BY ONLY <1>1, <1>2, <1>4, Types, RTypes DEF RSide, Elsewhere, sVars, wires

\* It receives a frame that is for the client, counts for its life, or ends it.
Ends(c) == \/ Moved(c, "faulted") \/ Moved(c, "gone")
           \/ r[c].holds /\ Answered(c, Frm("error", c), "gone", "gone")

\* It hears from surrogate_s.
LEMMA RRemoteDoes ==
  ASSUME Types, NEW c \in Client, RRemote(c)
  PROVE  /\ RSide(c) /\ Took(c, "remote") /\ reader'["A"] = NoFrame /\ r[c].at = "up"
         /\ r'[c].missed \in {r[c].missed, 0}
         /\ \/ /\ reader["A"].kind \in {"reply", "found", "absent"} /\ r[c].holds
               /\ Answered(c, reader["A"], "up", "faulted")
            \/ reader["A"].kind = "alive" /\ Moved(c, "up")
            \/ Ends(c)
<1>1. /\ RHears(c) /\ r[c].at = "up"
      /\ UNCHANGED <<setup, client, sVars, writer, line, lost, vVars>>
      /\ reader' = [reader EXCEPT !["A"] = NoFrame]
      /\ \/ /\ reader["A"].kind \in {"reply", "found", "absent"} /\ r[c].holds
            /\ Tell(c, reader["A"], "up", "faulted")
         \/ RFaults(c)
         \/ reader["A"].kind = "alive" /\ r' = [r EXCEPT ![c].missed = 0] /\ UNCHANGED answer
         \/ r[c].holds /\ Tell(c, Frm("error", c), "gone", "gone")
  BY DEF RRemote, RHears
<1>2. reader["A"] \in Frame /\ reader'["A"] = NoFrame /\ Frm("error", c) \in Frame
  BY <1>1, RTypes, FrameIs DEF Kind
<1>3. /\ Took(c, "remote") /\ rfifo' \in [Client -> Seq(Frame)] /\ reader' \in [Host -> Frame]
      /\ \A d \in Client \ {c} : rfifo'[d] = rfifo[d]
      /\ reader'["B"] = reader["B"]
  BY ONLY <1>1, Types, RTakesIs
<1>4. CASE /\ reader["A"].kind \in {"reply", "found", "absent"} /\ r[c].holds
           /\ Tell(c, reader["A"], "up", "faulted")
  <2>1. /\ Answered(c, reader["A"], "up", "faulted") /\ r'[c].missed = r[c].missed
        /\ r' \in [Client -> RType] /\ answer' \in [Client -> Seq(Frame)]
        /\ \A d \in Client \ {c} : r'[d] = r[d] /\ answer'[d] = answer[d]
    BY ONLY <1>1, <1>2, <1>4, Types, RTells
  <2>. QED  BY ONLY <1>1, <1>2, <1>3, <1>4, <2>1, Types, RTypes DEF RSide, Elsewhere, sVars
<1>5. CASE RFaults(c)
  <2>1. r' = [r EXCEPT ![c].at = "faulted"] /\ answer' = answer
    BY <1>5 DEF RFaults
  <2>2. /\ r' \in [Client -> RType] /\ r'[c].at = "faulted" /\ r'[c].then = r[c].then
        /\ r'[c].holds = r[c].holds /\ r'[c].missed = r[c].missed /\ r'[c].out = r[c].out
        /\ \A d \in Client \ {c} : r'[d] = r[d]
    BY ONLY <2>1, Types, RMoves
  <2>. QED  BY ONLY <1>1, <1>2, <1>3, <2>1, <2>2, Types, RTypes
            DEF RSide, Elsewhere, sVars, Ends, Moved
<1>6. CASE reader["A"].kind = "alive" /\ r' = [r EXCEPT ![c].missed = 0] /\ UNCHANGED answer
  <2>. DEFINE x == [r[c] EXCEPT !.missed = 0]
  <2>1. r[c] \in RType /\ r \in [Client -> RType] /\ r' = [r EXCEPT ![c] = x]
    BY <1>6, RTypes
  <2>2. /\ x \in RType /\ x.missed = 0 /\ x.at = r[c].at /\ x.then = r[c].then
        /\ x.holds = r[c].holds /\ x.out = r[c].out
    BY <2>1, LineAssumption DEF RType
  <2>. HIDE DEF x
  <2>3. r' \in [Client -> RType] /\ r'[c] = x /\ \A d \in Client \ {c} : r'[d] = r[d]
    BY ONLY <2>1, <2>2, Put1
  <2>. QED  BY ONLY <1>1, <1>2, <1>3, <1>6, <2>2, <2>3, Types, RTypes
            DEF RSide, Elsewhere, sVars, Moved
<1>7. CASE r[c].holds /\ Tell(c, Frm("error", c), "gone", "gone")
  <2>1. /\ Answered(c, Frm("error", c), "gone", "gone") /\ r'[c].missed = r[c].missed
        /\ r' \in [Client -> RType] /\ answer' \in [Client -> Seq(Frame)]
        /\ \A d \in Client \ {c} : r'[d] = r[d] /\ answer'[d] = answer[d]
    BY ONLY <1>1, <1>2, <1>7, Types, RTells
  <2>. QED  BY ONLY <1>1, <1>2, <1>3, <1>7, <2>1, Types, RTypes DEF RSide, Elsewhere, sVars, Ends
<1>. QED  BY ONLY <1>1, <1>4, <1>5, <1>6, <1>7

\* Its Send returns: it goes on or ends.
LEMMA RReturnDoes ==
  ASSUME Types, NEW c \in Client, RReturn(c)
  PROVE  /\ RSide(c) /\ rfifo'[c] = rfifo[c] /\ reader' = reader /\ r[c].at = "sending"
         /\ None(r[c].out) /\ r'[c].missed = r[c].missed
         /\ \/ r[c].then = "gone" /\ Ends(c)
            \/ r[c].then \in {"up", "locating"} /\ Moved(c, r[c].then)
<1>1. /\ r[c].at = "sending" /\ None(r[c].out)
      /\ UNCHANGED <<setup, client, rfifo, sVars, wires, vVars>>
      /\ \/ r[c].then = "gone" /\ r[c].holds /\ Tell(c, Frm("error", c), "gone", "gone")
         \/ r[c].then = "gone" /\ r' = [r EXCEPT ![c].at = "gone"] /\ UNCHANGED answer
         \/ r[c].then # "gone" /\ r' = [r EXCEPT ![c].at = r[c].then] /\ UNCHANGED answer
  BY DEF RReturn, RExit, REnds
<1>2. Frm("error", c) \in Frame /\ r[c].then \in {"locating", "up", "gone"}
  BY FrameIs, RTypes DEF Kind, RType
<1>3. CASE r[c].then = "gone" /\ r[c].holds /\ Tell(c, Frm("error", c), "gone", "gone")
  <2>1. /\ Answered(c, Frm("error", c), "gone", "gone") /\ r'[c].missed = r[c].missed
        /\ r' \in [Client -> RType] /\ answer' \in [Client -> Seq(Frame)]
        /\ \A d \in Client \ {c} : r'[d] = r[d] /\ answer'[d] = answer[d]
    BY ONLY <1>1, <1>2, <1>3, Types, RTells DEF wires
  <2>. QED  BY ONLY <1>1, <1>3, <2>1, Types, RTypes DEF RSide, Elsewhere, sVars, wires, Ends
<1>4. ASSUME NEW at \in {"locating", "up", "gone"}, r' = [r EXCEPT ![c].at = at], UNCHANGED answer
      PROVE  RSide(c) /\ Moved(c, at) /\ r'[c].missed = r[c].missed
  <2>2. /\ r' \in [Client -> RType] /\ r'[c].at = at /\ r'[c].then = r[c].then
        /\ r'[c].holds = r[c].holds /\ r'[c].missed = r[c].missed /\ r'[c].out = r[c].out
        /\ \A d \in Client \ {c} : r'[d] = r[d]
    BY ONLY <1>4, Types, RMoves
  <2>. QED  BY ONLY <1>1, <1>4, <2>2, Types, RTypes DEF RSide, Elsewhere, sVars, wires, Moved
<1>5. UNCHANGED rfifo /\ reader' = reader
  BY <1>1 DEF wires
<1>6. CASE r[c].then = "gone" /\ r' = [r EXCEPT ![c].at = "gone"] /\ UNCHANGED answer
  BY ONLY <1>1, <1>4, <1>5, <1>6 DEF Ends
<1>7. CASE r[c].then # "gone" /\ r' = [r EXCEPT ![c].at = r[c].then] /\ UNCHANGED answer
  BY ONLY <1>1, <1>2, <1>4, <1>5, <1>7
<1>. QED  BY ONLY <1>1, <1>3, <1>5, <1>6, <1>7

\* Its select times out: it asks for a sign of life, or says that its client died.
LEMMA RTimeoutDoes ==
  ASSUME Types, Counted, NEW c \in Client, RTimeout(c)
  PROVE  /\ RSide(c) /\ rfifo'[c] = rfifo[c] /\ reader' = reader /\ r[c].at = "up"
         /\ \/ Sent(c, Frm("close", c), "gone", FALSE)
            \/ /\ ~ SenderDied(c) /\ Sent(c, Frm("alive", c), r'[c].then, r[c].holds)
               /\ r'[c].then \in {"up", "gone"}
               /\ r'[c].then = "up" => r'[c].missed <= Limit
<1>1. /\ r[c].at = "up"
      /\ UNCHANGED <<setup, client, answer, rfifo, sVars, line, reader, lost, vVars>>
      /\ \/ RSends(c, Frm("close", c), "gone", FALSE)
         \/ /\ ~ SenderDied(c)
            /\ r' = [r EXCEPT ![c].at = "sending", ![c].missed = @ + 1,
                              ![c].out = Frm("alive", c),
                              ![c].then = IF TooMany(r[c].missed + 1) THEN "gone" ELSE "up"]
            /\ writer' = [writer EXCEPT !["A"] = Append(@, c)]
  BY DEF RTimeout
<1>2. /\ Frm("close", c) \in Frame /\ Frm("alive", c) \in Frame /\ r[c].missed \in 0..Limit
      /\ Limit \in Nat
  <2>1. r[c].missed \in 0..Limit + 1 /\ Limit \in Nat
    BY RTypes, LineAssumption DEF RType
  <2>2. r[c].missed <= Limit
    BY <1>1 DEF Counted, Good
  <2>. QED  BY <2>1, <2>2, FrameIs DEF Kind
<1>3. CASE RSends(c, Frm("close", c), "gone", FALSE)
  <2>1. /\ r' \in [Client -> RType] /\ writer' \in [Host -> Seq(Client)]
        /\ r'[c].at = "sending" /\ r'[c].then = "gone" /\ r'[c].holds = FALSE
        /\ r'[c].out = Frm("close", c)
        /\ \A d \in Client \ {c} : r'[d] = r[d]
        /\ writer'["A"] = Append(writer["A"], c) /\ writer'["B"] = writer["B"]
    BY ONLY <1>2, <1>3, Types, RSendsIs
  <2>. QED  BY ONLY <1>1, <2>1, Types, RTypes DEF RSide, Sent, Elsewhere, sVars
<1>4. CASE /\ ~ SenderDied(c)
           /\ r' = [r EXCEPT ![c].at = "sending", ![c].missed = @ + 1,
                             ![c].out = Frm("alive", c),
                             ![c].then = IF TooMany(r[c].missed + 1) THEN "gone" ELSE "up"]
           /\ writer' = [writer EXCEPT !["A"] = Append(@, c)]
  <2>. DEFINE then == IF TooMany(r[c].missed + 1) THEN "gone" ELSE "up"
              n == r[c].missed + 1
              m == Frm("alive", c)
              x == [r[c] EXCEPT !.at = "sending", !.missed = n, !.out = m, !.then = then]
  <2>1. r[c] \in RType /\ r \in [Client -> RType] /\ r' = [r EXCEPT ![c] = x]
    BY <1>4, RTypes
  <2>2. n \in 0..Limit + 1 /\ then \in {"up", "gone"} /\ (then = "up" => n <= Limit)
        /\ m \in Frame
    BY <1>2, SetupIs DEF TooMany
  <2>. HIDE DEF then, n, m
  <2>3. /\ x \in RType /\ x.missed = n /\ x.at = "sending" /\ x.then = then
        /\ x.holds = r[c].holds /\ x.out = m
    BY ONLY <2>1, <2>2 DEF RType
  <2>. HIDE DEF x
  <2>4. r' \in [Client -> RType] /\ r'[c] = x /\ \A d \in Client \ {c} : r'[d] = r[d]
    BY ONLY <2>1, <2>3, Put1
  <2>5. /\ writer' \in [Host -> Seq(Client)] /\ writer'["A"] = Append(writer["A"], c)
        /\ writer'["B"] = writer["B"]
    <3>1. "B" \in Host \ {"A"}
      BY DEF Host
    <3>. QED  BY ONLY <1>4, <3>1, Types, RTypes, Queue1
  <2>. QED  BY ONLY <1>1, <1>4, <2>2, <2>3, <2>4, <2>5, Types, RTypes
            DEF RSide, Sent, Elsewhere, sVars, m
<1>. QED  BY ONLY <1>1, <1>3, <1>4

\* What surrogate_s changes.
SSide(c) ==
    /\ UNCHANGED <<setup, client, answer, rVars, line, lost, receiver, taken, got>>
    /\ s' \in [Client -> SType] /\ seg' \in [Client -> Frame] /\ yfifo' \in [Client -> Seq(BOOLEAN)]
    /\ writer' \in [Host -> Seq(Client)] /\ reader' \in [Host -> Frame] /\ vfifo' \in Seq(Frame)
    /\ Elsewhere(c) /\ reader'["A"] = reader["A"] /\ writer'["A"] = writer["A"]

\* At its own place it sends to rs232_w or goes on.
Posted(c, m, then) ==
    /\ s'[c].at = "sending" /\ s'[c].then = then /\ seg'[c] = m
    /\ writer'["B"] = Append(writer["B"], c)
Tried(c, m, then) == Faults \/ Posted(c, m, then)
Stays(c, at) == s'[c].at = at /\ seg'[c] = seg[c] /\ writer' = writer

\* It has taken a frame of rs232_r.
Heard(c) ==
    reader["B"].of = c /\ reader["B"].kind \notin {"none", "locate"} /\ reader'["B"] = NoFrame

\* The parts of Types a step of surrogate_s starts from.
LEMMA STypes ==
  ASSUME Types
  PROVE  /\ s \in [Client -> SType] /\ seg \in [Client -> Frame]
         /\ yfifo \in [Client -> Seq(BOOLEAN)]
         /\ writer \in [Host -> Seq(Client)] /\ reader \in [Host -> Frame] /\ vfifo \in Seq(Frame)
         /\ taken \in Frame /\ line \in [Host -> Seq(Frame)]
         /\ receiver \in {"up", "gone"} /\ "A" \in Host /\ "B" \in Host /\ Host = {"A", "B"}
  BY DEF Types, Host

\* Send to rs232_w, by what it does.
LEMMA SPosts ==
  ASSUME Types, NEW c \in Client, NEW m \in Frame, NEW then \in {"up", "gone"},
         NEW n \in 0..Limit, SSends(c, m, then, n)
  PROVE  /\ Tried(c, m, then)
         /\ s' \in [Client -> SType] /\ seg' \in [Client -> Frame] /\ writer' \in [Host -> Seq(Client)]
         /\ \A d \in Client \ {c} : s'[d] = s[d] /\ seg'[d] = seg[d]
         /\ writer'["A"] = writer["A"]
<1>1. CASE Faults
  <2>1. s' = [s EXCEPT ![c].at = "gone"] /\ UNCHANGED <<seg, writer>>
    BY <1>1 DEF SSends, SEnds
  <2>2. s' \in [Client -> SType] /\ \A d \in Client \ {c} : s'[d] = s[d]
    BY ONLY <2>1, Types, SMoves
  <2>. QED  BY ONLY <1>1, <2>1, <2>2, Types, STypes DEF Tried
<1>2. CASE ~ Faults
  <2>. DEFINE x == [s[c] EXCEPT !.at = "sending", !.then = then, !.room = FALSE, !.missed = n]
  <2>5. /\ s' = [s EXCEPT ![c] = x] /\ seg' = [seg EXCEPT ![c] = m]
        /\ writer' = [writer EXCEPT !["B"] = Append(@, c)]
    BY <1>2 DEF SSends
  <2>1. s[c] \in SType /\ s \in [Client -> SType]
    BY STypes
  <2>2. x \in SType /\ x.at = "sending" /\ x.then = then
    BY <2>1 DEF SType
  <2>. HIDE DEF x
  <2>3. s' \in [Client -> SType] /\ s'[c] = x /\ \A d \in Client \ {c} : s'[d] = s[d]
    BY ONLY <2>1, <2>2, <2>5, Put1
  <2>4. seg' \in [Client -> Frame] /\ seg'[c] = m /\ \A d \in Client \ {c} : seg'[d] = seg[d]
    BY ONLY <2>5, Types, STypes, Put1
  <2>6. /\ writer' \in [Host -> Seq(Client)] /\ writer'["B"] = Append(writer["B"], c)
        /\ writer'["A"] = writer["A"]
    <3>1. "A" \in Host \ {"B"}
      BY DEF Host
    <3>. QED  BY ONLY <2>5, <3>1, Types, STypes, Queue1
  <2>. QED  BY ONLY <2>2, <2>3, <2>4, <2>6 DEF Tried, Posted
<1>. QED  BY <1>1, <1>2

\* What a Send to rs232_w leaves of the counter.
LEMMA SMissed ==
  ASSUME Types, NEW c \in Client PROVE 0 \in 0..Limit /\ s[c].missed \in 0..Limit
  BY STypes, LineAssumption DEF SType

\* The first word is taken from its reply fifo.
LEMMA WordTaken ==
  ASSUME Types, NEW c \in Client, yfifo[c] # <<>>, yfifo' = [yfifo EXCEPT ![c] = Tail(@)]
  PROVE  /\ yfifo' \in [Client -> Seq(BOOLEAN)] /\ yfifo'[c] = Tail(yfifo[c])
         /\ \A d \in Client \ {c} : yfifo'[d] = yfifo[d]
<1>1. yfifo \in [Client -> Seq(BOOLEAN)] /\ yfifo[c] \in Seq(BOOLEAN)
  BY STypes
<1>2. \A S : \A q \in Seq(S) : q # <<>> => Tail(q) \in Seq(S)
  OBVIOUS
<1>3. Tail(yfifo[c]) \in Seq(BOOLEAN)
  BY ONLY <1>1, <1>2, yfifo[c] # <<>>, Zenon
<1>. DEFINE S == Seq(BOOLEAN)
            x == Tail(yfifo[c])
<1>4. yfifo \in [Client -> S] /\ x \in S /\ yfifo' = [yfifo EXCEPT ![c] = x]
  BY ONLY <1>1, <1>3, yfifo' = [yfifo EXCEPT ![c] = Tail(@)]
<1>. HIDE DEF S, x
<1>5. /\ yfifo' \in [Client -> S] /\ yfifo'[c] = x
      /\ \A d \in Client \ {c} : yfifo'[d] = yfifo[d]
  BY ONLY <1>4, Put1
<1>. QED  BY <1>5 DEF S, x

\* surrogate_S forks it.
LEMMA SForkDoes ==
  ASSUME Types, NEW c \in Client, SFork(c)
  PROVE  /\ SSide(c) /\ reader["B"] = Frm("locate", c) /\ reader'["B"] = NoFrame
         /\ Stays(c, "forked") /\ yfifo' = yfifo /\ vfifo' = vfifo
<1>1. /\ reader["B"] = Frm("locate", c) /\ reader' = [reader EXCEPT !["B"] = NoFrame]
      /\ s' = [s EXCEPT ![c].at = "forked"]
      /\ UNCHANGED <<setup, client, answer, rVars, seg, yfifo, writer, line, lost, vVars>>
  BY DEF SFork
<1>2. s' \in [Client -> SType] /\ s'[c].at = "forked" /\ \A d \in Client \ {c} : s'[d] = s[d]
  BY ONLY <1>1, Types, SMoves
<1>3. reader' \in [Host -> Frame] /\ reader'["B"] = NoFrame /\ reader'["A"] = reader["A"]
  BY ONLY <1>1, Types, STypes, FrameIs
<1>. QED  BY ONLY <1>1, <1>2, <1>3, Types, STypes DEF SSide, Stays, Elsewhere, rVars, vVars

\* It looks for the receiver.
LEMMA SLocateDoes ==
  ASSUME Types, NEW c \in Client, SLocate(c)
  PROVE  /\ SSide(c) /\ s[c].at = "forked" /\ reader' = reader /\ yfifo' = yfifo /\ vfifo' = vfifo
         /\ Tried(c, Frm("found", c), "up") \/ Tried(c, Frm("absent", c), "gone")
<1>1. /\ s[c].at = "forked"
      /\ SSends(c, Frm("found", c), "up", 0) \/ SSends(c, Frm("absent", c), "gone", 0)
      /\ UNCHANGED <<setup, client, answer, rVars, yfifo, line, reader, lost, vVars>>
  BY DEF SLocate
<1>2. Frm("found", c) \in Frame /\ Frm("absent", c) \in Frame
  BY FrameIs DEF Kind
<1>3. ASSUME NEW m \in Frame, NEW then \in {"up", "gone"}, SSends(c, m, then, 0)
      PROVE  /\ SSide(c) /\ reader' = reader /\ yfifo' = yfifo /\ vfifo' = vfifo
             /\ Tried(c, m, then)
  <2>1. /\ Tried(c, m, then)
        /\ s' \in [Client -> SType] /\ seg' \in [Client -> Frame] /\ writer' \in [Host -> Seq(Client)]
        /\ \A d \in Client \ {c} : s'[d] = s[d] /\ seg'[d] = seg[d]
        /\ writer'["A"] = writer["A"]
    BY ONLY <1>3, Types, SMissed, SPosts, Zenon
  <2>. QED  BY ONLY <1>1, <2>1, Types, STypes DEF SSide, Elsewhere, rVars, vVars
<1>. QED  BY ONLY <1>1, <1>2, <1>3

\* Its Send returns.
LEMMA SReturnDoes ==
  ASSUME Types, NEW c \in Client, SReturn(c)
  PROVE  /\ SSide(c) /\ s[c].at = "sending" /\ reader' = reader /\ vfifo' = vfifo
         /\ yfifo[c] # <<>> /\ yfifo'[c] = Tail(yfifo[c])
         /\ \/ s[c].then \in {"up", "gone"} /\ Stays(c, s[c].then)
            \/ ~ Head(yfifo[c])
<1>1. /\ s[c].at = "sending" /\ yfifo[c] # <<>> /\ yfifo' = [yfifo EXCEPT ![c] = Tail(@)]
      /\ UNCHANGED <<setup, client, answer, rVars, line, reader, lost, vVars>>
      /\ \/ s' = [s EXCEPT ![c].at = s[c].then] /\ UNCHANGED <<seg, writer>>
         \/ ~ Head(yfifo[c]) /\ SSends(c, Frm("error", c), "gone", s[c].missed)
  BY DEF SReturn, NextWords, SFails
<1>2. /\ yfifo' \in [Client -> Seq(BOOLEAN)] /\ yfifo'[c] = Tail(yfifo[c])
      /\ \A d \in Client \ {c} : yfifo'[d] = yfifo[d]
  BY ONLY <1>1, Types, WordTaken
<1>3. s[c].then \in {"up", "gone"} /\ Frm("error", c) \in Frame
  BY STypes, FrameIs DEF SType, Kind
<1>4. CASE s' = [s EXCEPT ![c].at = s[c].then] /\ UNCHANGED <<seg, writer>>
  <2>1. /\ s' \in [Client -> SType] /\ s'[c].at = s[c].then
        /\ \A d \in Client \ {c} : s'[d] = s[d]
    BY ONLY <1>3, <1>4, Types, SMoves
  <2>. QED  BY ONLY <1>1, <1>2, <1>3, <1>4, <2>1, Types, STypes
            DEF SSide, Stays, Elsewhere, rVars, vVars
<1>5. CASE ~ Head(yfifo[c]) /\ SSends(c, Frm("error", c), "gone", s[c].missed)
  <2>1. /\ s' \in [Client -> SType] /\ seg' \in [Client -> Frame] /\ writer' \in [Host -> Seq(Client)]
        /\ \A d \in Client \ {c} : s'[d] = s[d] /\ seg'[d] = seg[d]
        /\ writer'["A"] = writer["A"]
    BY ONLY <1>3, <1>5, Types, SMissed, SPosts
  <2>. QED  BY ONLY <1>1, <1>2, <1>5, <2>1, Types, STypes DEF SSide, Elsewhere, rVars, vVars
<1>. QED  BY ONLY <1>1, <1>4, <1>5

\* hndlMessage, by the message.
LEMMA SMessageDoes ==
  ASSUME Types, NEW c \in Client, SMessage(c)
  PROVE  /\ SSide(c) /\ s[c].at = "up" /\ Heard(c) /\ yfifo' = yfifo
         /\ \/ /\ reader["B"].kind = "send" /\ s'[c].at = "up" /\ seg'[c] = reader["B"]
               /\ writer' = writer /\ vfifo' = Append(vfifo, Frm("send", c))
            \/ /\ reader["B"].kind = "proxy" /\ Stays(c, "up")
               /\ vfifo' = Append(vfifo, reader["B"])
            \/ /\ reader["B"].kind \in {"send", "proxy"} /\ receiver = "gone"
               /\ Tried(c, Frm("error", c), "gone") /\ vfifo' = vfifo
            \/ /\ reader["B"].kind = "alive" /\ Tried(c, reader["B"], "up") /\ vfifo' = vfifo
            \/ reader["B"].kind = "close" /\ Stays(c, "gone") /\ vfifo' = vfifo
<1>. DEFINE m == reader["B"]
<1>1. /\ s[c].at = "up" /\ Heard(c) /\ reader' = [reader EXCEPT !["B"] = NoFrame]
      /\ UNCHANGED <<setup, client, answer, rVars, yfifo, line, lost, receiver, taken, got>>
      /\ \/ /\ m.kind = "send" /\ s' = [s EXCEPT ![c].room = TRUE]
            /\ seg' = [seg EXCEPT ![c] = m]
            /\ vfifo' = Append(vfifo, Frm("send", c)) /\ UNCHANGED writer
         \/ m.kind = "proxy" /\ vfifo' = Append(vfifo, m) /\ UNCHANGED <<s, seg, writer>>
         \/ /\ m.kind \in {"send", "proxy"} /\ receiver = "gone"
            /\ SSends(c, Frm("error", c), "gone", s[c].missed) /\ UNCHANGED vfifo
         \/ m.kind = "alive" /\ SSends(c, m, "up", 0) /\ UNCHANGED vfifo
         \/ m.kind = "close" /\ s' = [s EXCEPT ![c].at = "gone"] /\ UNCHANGED <<seg, writer, vfifo>>
  <2>1. reader' = [reader EXCEPT !["B"] = NoFrame] /\ Heard(c) /\ s[c].at = "up"
    BY STypes DEF SMessage, SHears, Heard
  <2>. QED  BY <2>1 DEF SMessage, SFails, SEnds
<1>2. /\ m \in Frame /\ Frm("send", c) \in Frame /\ Frm("error", c) \in Frame
      /\ reader' \in [Host -> Frame] /\ reader'["B"] = NoFrame /\ reader'["A"] = reader["A"]
  BY <1>1, STypes, FrameIs DEF Kind
<1>. DEFINE Rest == UNCHANGED <<setup, client, answer, rVars, yfifo, line, lost, receiver, taken, got>>
<1>3. Rest
  BY <1>1
<1>. HIDE DEF m
<1>4. CASE /\ m.kind = "send" /\ s' = [s EXCEPT ![c].room = TRUE]
           /\ seg' = [seg EXCEPT ![c] = m]
           /\ vfifo' = Append(vfifo, Frm("send", c)) /\ UNCHANGED writer
  <2>. DEFINE x == [s[c] EXCEPT !.room = TRUE]
  <2>1. s[c] \in SType /\ s \in [Client -> SType] /\ s' = [s EXCEPT ![c] = x]
    BY <1>4, STypes
  <2>2. x \in SType /\ x.at = s[c].at
    BY <2>1 DEF SType
  <2>. HIDE DEF x
  <2>3. s' \in [Client -> SType] /\ s'[c] = x /\ \A d \in Client \ {c} : s'[d] = s[d]
    BY ONLY <2>1, <2>2, Put1
  <2>4. seg' \in [Client -> Frame] /\ seg'[c] = m /\ \A d \in Client \ {c} : seg'[d] = seg[d]
    BY ONLY <1>2, <1>4, Types, STypes, Put1
  <2>5. vfifo' \in Seq(Frame)
    BY ONLY <1>2, <1>4, Types, STypes, Items
  <2>. QED  BY ONLY <1>1, <1>2, <1>3, <1>4, <2>2, <2>3, <2>4, <2>5, Types, STypes
            DEF SSide, Elsewhere, rVars, m
<1>5. CASE m.kind = "proxy" /\ vfifo' = Append(vfifo, m) /\ UNCHANGED <<s, seg, writer>>
  <2>5. vfifo' \in Seq(Frame)
    BY ONLY <1>2, <1>5, Types, STypes, Items
  <2>. QED  BY ONLY <1>1, <1>2, <1>3, <1>5, <2>5, Types, STypes DEF SSide, Stays, Elsewhere, rVars, m
<1>6. CASE /\ m.kind \in {"send", "proxy"} /\ receiver = "gone"
           /\ SSends(c, Frm("error", c), "gone", s[c].missed) /\ UNCHANGED vfifo
  <2>1. /\ Tried(c, Frm("error", c), "gone")
        /\ s' \in [Client -> SType] /\ seg' \in [Client -> Frame] /\ writer' \in [Host -> Seq(Client)]
        /\ \A d \in Client \ {c} : s'[d] = s[d] /\ seg'[d] = seg[d]
        /\ writer'["A"] = writer["A"]
    BY ONLY <1>2, <1>6, Types, SMissed, SPosts, Zenon
  <2>. QED  BY ONLY <1>1, <1>2, <1>3, <1>6, <2>1, Types, STypes DEF SSide, Elsewhere, rVars, m
<1>7. CASE m.kind = "alive" /\ SSends(c, m, "up", 0) /\ UNCHANGED vfifo
  <2>1. /\ Tried(c, m, "up")
        /\ s' \in [Client -> SType] /\ seg' \in [Client -> Frame] /\ writer' \in [Host -> Seq(Client)]
        /\ \A d \in Client \ {c} : s'[d] = s[d] /\ seg'[d] = seg[d]
        /\ writer'["A"] = writer["A"]
    BY ONLY <1>2, <1>7, Types, SMissed, SPosts
  <2>. QED  BY ONLY <1>1, <1>2, <1>3, <1>7, <2>1, Types, STypes DEF SSide, Elsewhere, rVars, m
<1>8. CASE m.kind = "close" /\ s' = [s EXCEPT ![c].at = "gone"] /\ UNCHANGED <<seg, writer, vfifo>>
  <2>1. /\ s' \in [Client -> SType] /\ s'[c].at = "gone" /\ \A d \in Client \ {c} : s'[d] = s[d]
    BY ONLY <1>8, Types, SMoves
  <2>. QED  BY ONLY <1>1, <1>2, <1>3, <1>8, <2>1, Types, STypes DEF SSide, Stays, Elsewhere, rVars, m
<1>. QED  BY ONLY <1>1, <1>4, <1>5, <1>6, <1>7, <1>8

\* hndlReply.
LEMMA SReplyDoes ==
  ASSUME Types, NEW c \in Client, SReply(c)
  PROVE  /\ SSide(c) /\ s[c].at = "up" /\ reader' = reader /\ vfifo' = vfifo
         /\ yfifo[c] # <<>> /\ yfifo'[c] = Tail(yfifo[c])
         /\ \/ /\ Head(yfifo[c])
               /\ Tried(c, [kind |-> "reply", of |-> c,
                             n |-> IF seg[c].kind = "reply" THEN seg[c].n ELSE 0], "up")
            \/ ~ Head(yfifo[c]) /\ Tried(c, Frm("error", c), "gone")
<1>. DEFINE n == IF seg[c].kind = "reply" THEN seg[c].n ELSE 0
            m == [kind |-> "reply", of |-> c, n |-> n]
<1>1. /\ s[c].at = "up" /\ yfifo[c] # <<>> /\ yfifo' = [yfifo EXCEPT ![c] = Tail(@)]
      /\ UNCHANGED <<setup, client, answer, rVars, line, reader, lost, vVars>>
      /\ \/ Head(yfifo[c]) /\ SSends(c, m, "up", s[c].missed)
         \/ ~ Head(yfifo[c]) /\ SSends(c, Frm("error", c), "gone", s[c].missed)
  BY DEF SReply, SFails
<1>2. /\ yfifo' \in [Client -> Seq(BOOLEAN)] /\ yfifo'[c] = Tail(yfifo[c])
      /\ \A d \in Client \ {c} : yfifo'[d] = yfifo[d]
  BY ONLY <1>1, Types, WordTaken
<1>3. m \in Frame /\ Frm("error", c) \in Frame
  <2>1. n \in Nat
    BY STypes, FrameIs
  <2>. HIDE DEF n
  <2>. QED  BY <2>1, FrameIs DEF Kind
<1>. HIDE DEF m
<1>4. ASSUME NEW k \in Frame, NEW then \in {"up", "gone"}, SSends(c, k, then, s[c].missed)
      PROVE  SSide(c) /\ Tried(c, k, then)
  <2>1. /\ Tried(c, k, then)
        /\ s' \in [Client -> SType] /\ seg' \in [Client -> Frame] /\ writer' \in [Host -> Seq(Client)]
        /\ \A d \in Client \ {c} : s'[d] = s[d] /\ seg'[d] = seg[d]
        /\ writer'["A"] = writer["A"]
    BY ONLY <1>4, Types, SMissed, SPosts
  <2>. QED  BY ONLY <1>1, <1>2, <2>1, Types, STypes DEF SSide, Elsewhere, rVars, vVars
<1>5. SSide(c) /\ vfifo' = vfifo /\ reader' = reader
      /\ \/ Head(yfifo[c]) /\ Tried(c, m, "up")
         \/ ~ Head(yfifo[c]) /\ Tried(c, Frm("error", c), "gone")
  BY ONLY <1>1, <1>3, <1>4 DEF vVars
<1>. QED  BY ONLY <1>1, <1>2, <1>5 DEF m

\* Its select times out: it ends or counts.
LEMMA STimeoutDoes ==
  ASSUME Types, NEW c \in Client, STimeout(c)
  PROVE  /\ SSide(c) /\ s[c].at = "up" /\ reader' = reader /\ vfifo' = vfifo /\ yfifo' = yfifo
         /\ Stays(c, "gone") \/ Stays(c, "up")
<1>1. /\ s[c].at = "up"
      /\ UNCHANGED <<setup, client, answer, rVars, yfifo, line, reader, lost, vVars, seg, writer>>
      /\ \/ s' = [s EXCEPT ![c].at = "gone"]
         \/ ~ TooMany(s[c].missed + 1) /\ s' = [s EXCEPT ![c].missed = @ + 1]
  BY DEF STimeout, SEnds
<1>2. CASE s' = [s EXCEPT ![c].at = "gone"]
  <2>1. /\ s' \in [Client -> SType] /\ s'[c].at = "gone" /\ \A d \in Client \ {c} : s'[d] = s[d]
    BY ONLY <1>2, Types, SMoves
  <2>. QED  BY ONLY <1>1, <2>1, Types, STypes DEF SSide, Stays, Elsewhere, rVars, vVars
<1>3. CASE ~ TooMany(s[c].missed + 1) /\ s' = [s EXCEPT ![c].missed = @ + 1]
  <2>. DEFINE n == s[c].missed + 1
              x == [s[c] EXCEPT !.missed = n]
  <2>1. s[c] \in SType /\ s \in [Client -> SType] /\ s' = [s EXCEPT ![c] = x]
    BY <1>3, STypes
  <2>2. n \in 0..Limit
    BY <1>3, <2>1, SetupIs DEF TooMany, SType
  <2>. HIDE DEF n
  <2>3. x \in SType /\ x.at = s[c].at
    BY <2>1, <2>2 DEF SType
  <2>. HIDE DEF x
  <2>4. s' \in [Client -> SType] /\ s'[c] = x /\ \A d \in Client \ {c} : s'[d] = s[d]
    BY ONLY <2>1, <2>3, Put1
  <2>. QED  BY ONLY <1>1, <2>3, <2>4, Types, STypes DEF SSide, Stays, Elsewhere, rVars, vVars
<1>. QED  BY ONLY <1>1, <1>2, <1>3

\* The function of words after one more.
LEMMA WordPut ==
  ASSUME Types, NEW c \in Client, NEW b \in BOOLEAN, yfifo' = [yfifo EXCEPT ![c] = Append(@, b)]
  PROVE  /\ yfifo' \in [Client -> Seq(BOOLEAN)] /\ yfifo'[c] = Append(yfifo[c], b)
         /\ \A d \in Client \ {c} : yfifo'[d] = yfifo[d]
<1>1. yfifo \in [Client -> Seq(BOOLEAN)] /\ yfifo[c] \in Seq(BOOLEAN)
  BY STypes
<1>2. \A S : \A q \in Seq(S), m \in S : Append(q, m) \in Seq(S)
  OBVIOUS
<1>3. Append(yfifo[c], b) \in Seq(BOOLEAN)
  BY ONLY <1>1, <1>2, b \in BOOLEAN, Zenon
<1>. DEFINE S == Seq(BOOLEAN)
            x == Append(yfifo[c], b)
<1>4. yfifo \in [Client -> S] /\ x \in S /\ yfifo' = [yfifo EXCEPT ![c] = x]
  BY ONLY <1>1, <1>3, yfifo' = [yfifo EXCEPT ![c] = Append(@, b)]
<1>. HIDE DEF S, x
<1>5. /\ yfifo' \in [Client -> S] /\ yfifo'[c] = x
      /\ \A d \in Client \ {c} : yfifo'[d] = yfifo[d]
  BY ONLY <1>4, Put1
<1>. QED  BY <1>5 DEF S, x

\* A frame is written to the line out of h, or lost.
Written(h, g, m) ==
    /\ line' \in [Host -> Seq(Frame)] /\ lost' \in 0..MaxLost /\ line'[g] = line[g]
    /\ \/ line'[h] = Append(line[h], m) /\ lost' = lost
       \/ line'[h] = line[h] /\ lost' # 0

\* The write of rs232_w does that.
LEMMA WrittenIs ==
  ASSUME Types, NEW h \in Host, NEW g \in Host \ {h}, NEW m \in Frame,
         \/ line' = [line EXCEPT ![h] = Append(@, m)] /\ UNCHANGED lost
         \/ lost < setup.loses /\ lost' = lost + 1 /\ UNCHANGED line
  PROVE  Written(h, g, m)
<1>1. /\ line \in [Host -> Seq(Frame)] /\ lost \in 0..MaxLost /\ MaxLost \in Nat
      /\ setup.loses \in 0..MaxLost
  BY SetupIs DEF Types
<1>2. CASE line' = [line EXCEPT ![h] = Append(@, m)] /\ UNCHANGED lost
  <2>1. /\ line' \in [Host -> Seq(Frame)] /\ line'[h] = Append(line[h], m)
        /\ line'[g] = line[g]
    BY ONLY <1>1, <1>2, g \in Host \ {h}, h \in Host, m \in Frame, Queue1
  <2>. QED  BY ONLY <1>1, <1>2, <2>1 DEF Written
<1>3. CASE lost < setup.loses /\ lost' = lost + 1 /\ UNCHANGED line
  BY ONLY <1>1, <1>3 DEF Written
<1>. QED  BY <1>2, <1>3

\* rs232_w takes a frame of surrogate_r.
LEMMA WriterADoes ==
  ASSUME Types, WriterTake("A")
  PROVE  LET c == Head(writer["A"]) IN
         /\ c \in Client /\ writer["A"] # <<>> /\ Elsewhere(c)
         /\ writer' \in [Host -> Seq(Client)] /\ writer'["A"] = Tail(writer["A"])
         /\ writer'["B"] = writer["B"]
         /\ r' \in [Client -> RType] /\ r'[c].at = r[c].at /\ r'[c].then = r[c].then
         /\ r'[c].holds = r[c].holds /\ r'[c].missed = r[c].missed /\ r'[c].out = NoFrame
         /\ Written("A", "B", r[c].out)
         /\ UNCHANGED <<setup, client, answer, rfifo, sVars, reader, vVars>>
<1>. DEFINE c == Head(writer["A"])
            m == r[c].out
<1>1. /\ writer["A"] # <<>> /\ writer' = [writer EXCEPT !["A"] = Tail(@)]
      /\ \/ line' = [line EXCEPT !["A"] = Append(@, m)] /\ UNCHANGED lost
         \/ lost < setup.loses /\ lost' = lost + 1 /\ UNCHANGED line
      /\ r' = [r EXCEPT ![c].out = NoFrame]
      /\ UNCHANGED <<setup, client, answer, rfifo, sVars, reader, vVars>>
  BY DEF WriterTake, sVars
<1>2. /\ c \in Client /\ writer' \in [Host -> Seq(Client)] /\ writer'["A"] = Tail(writer["A"])
      /\ writer'["B"] = writer["B"]
  <2>1. "B" \in Host \ {"A"}
    BY DEF Host
  <2>. QED  BY ONLY <1>1, <2>1, Types, STypes, Queue1
<1>3. r[c] \in RType /\ r \in [Client -> RType] /\ m \in Frame
  BY <1>2, RTypes DEF RType
<1>. DEFINE x == [r[c] EXCEPT !.out = NoFrame]
<1>. HIDE DEF c, m
<1>4. /\ x \in RType /\ x.at = r[c].at /\ x.then = r[c].then /\ x.holds = r[c].holds
      /\ x.missed = r[c].missed /\ x.out = NoFrame /\ r' = [r EXCEPT ![c] = x]
  BY ONLY <1>1, <1>3, FrameIs DEF RType
<1>. HIDE DEF x
<1>5. r' \in [Client -> RType] /\ r'[c] = x /\ \A d \in Client \ {c} : r'[d] = r[d]
  BY ONLY <1>2, <1>3, <1>4, Put1
<1>6. Written("A", "B", m)
  BY ONLY <1>1, <1>3, Types, WrittenIs DEF Host
<1>7. Elsewhere(c)
  BY ONLY <1>1, <1>5 DEF Elsewhere, sVars
<1>. QED  BY ONLY <1>1, <1>2, <1>4, <1>5, <1>6, <1>7 DEF c, m

\* ... and of surrogate_s.
LEMMA WriterBDoes ==
  ASSUME Types, WriterTake("B")
  PROVE  LET c == Head(writer["B"]) IN
         /\ c \in Client /\ writer["B"] # <<>> /\ Elsewhere(c)
         /\ writer' \in [Host -> Seq(Client)] /\ writer'["B"] = Tail(writer["B"])
         /\ writer'["A"] = writer["A"]
         /\ seg' \in [Client -> Frame] /\ seg'[c] = NoFrame
         /\ yfifo' \in [Client -> Seq(BOOLEAN)] /\ yfifo'[c] = Append(yfifo[c], TRUE)
         /\ Written("B", "A", seg[c])
         /\ UNCHANGED <<setup, client, answer, rVars, s, reader, vVars>>
<1>. DEFINE c == Head(writer["B"])
            m == seg[c]
<1>1. /\ writer["B"] # <<>> /\ writer' = [writer EXCEPT !["B"] = Tail(@)]
      /\ \/ line' = [line EXCEPT !["B"] = Append(@, m)] /\ UNCHANGED lost
         \/ lost < setup.loses /\ lost' = lost + 1 /\ UNCHANGED line
      /\ seg' = [seg EXCEPT ![c] = NoFrame] /\ yfifo' = [yfifo EXCEPT ![c] = Append(@, TRUE)]
      /\ UNCHANGED <<setup, client, answer, rVars, s, reader, vVars>>
  BY DEF WriterTake, rVars
<1>2. /\ c \in Client /\ writer' \in [Host -> Seq(Client)] /\ writer'["B"] = Tail(writer["B"])
      /\ writer'["A"] = writer["A"]
  <2>1. "A" \in Host \ {"B"}
    BY DEF Host
  <2>. QED  BY ONLY <1>1, <2>1, Types, STypes, Queue1
<1>3. seg \in [Client -> Frame] /\ m \in Frame
  BY <1>2, STypes
<1>. HIDE DEF c, m
<1>4. seg' \in [Client -> Frame] /\ seg'[c] = NoFrame /\ \A d \in Client \ {c} : seg'[d] = seg[d]
  BY ONLY <1>1, <1>2, <1>3, FrameIs, Put1
<1>5. /\ yfifo' \in [Client -> Seq(BOOLEAN)] /\ yfifo'[c] = Append(yfifo[c], TRUE)
      /\ \A d \in Client \ {c} : yfifo'[d] = yfifo[d]
  BY ONLY <1>1, <1>2, Types, WordPut
<1>6. Written("B", "A", m)
  BY ONLY <1>1, <1>3, Types, WrittenIs DEF Host
<1>7. Elsewhere(c)
  BY ONLY <1>1, <1>4, <1>5 DEF Elsewhere, rVars
<1>. QED  BY ONLY <1>1, <1>2, <1>4, <1>5, <1>6, <1>7 DEF c, m

\* rs232_r on the clients' host.
LEMMA ReaderADoes ==
  ASSUME Types, ReaderTake("A")
  PROVE  LET m == Head(line["B"])
             c == m.of
         IN
         /\ m \in Frame /\ c \in Client /\ None(reader["A"]) /\ line["B"] # <<>> /\ Elsewhere(c)
         /\ line' \in [Host -> Seq(Frame)] /\ line'["B"] = Tail(line["B"])
         /\ line'["A"] = line["A"]
         /\ reader' \in [Host -> Frame] /\ reader'["B"] = reader["B"]
         /\ rfifo' \in [Client -> Seq(Frame)]
         /\ \/ /\ reader'["A"] = m /\ rfifo'[c] = Append(rfifo[c], Frm("remote", c))
            \/ /\ REnded(c) \/ m.kind \notin Ups
               /\ reader'["A"] = reader["A"] /\ rfifo'[c] = rfifo[c]
         /\ UNCHANGED <<setup, client, answer, r, sVars, writer, lost, vVars>>
<1>. DEFINE m == Head(line["B"])
            c == m.of
<1>1. /\ None(reader["A"]) /\ line["B"] # <<>> /\ line' = [line EXCEPT !["B"] = Tail(@)]
      /\ \/ /\ reader' = [reader EXCEPT !["A"] = m]
            /\ rfifo' = [rfifo EXCEPT ![c] = Append(@, Frm("remote", c))]
         \/ (REnded(c) \/ m.kind \notin Ups) /\ reader' = reader /\ rfifo' = rfifo
      /\ UNCHANGED <<setup, client, answer, r, sVars, writer, lost, vVars>>
  BY DEF ReaderTake, Other, Found, Puts, Ups
<1>2. /\ m \in Frame /\ line' \in [Host -> Seq(Frame)] /\ line'["B"] = Tail(line["B"])
      /\ line'["A"] = line["A"]
  <2>1. "A" \in Host \ {"B"}
    BY DEF Host
  <2>. QED  BY ONLY <1>1, <2>1, Types, STypes, Queue1
<1>3. c \in Client /\ Frm("remote", c) \in Frame
  BY <1>2, FrameIs DEF Kind
<1>. HIDE DEF m, c
<1>4. CASE /\ reader' = [reader EXCEPT !["A"] = m]
           /\ rfifo' = [rfifo EXCEPT ![c] = Append(@, Frm("remote", c))]
  <2>1. reader' \in [Host -> Frame] /\ reader'["B"] = reader["B"] /\ reader'["A"] = m
    BY ONLY <1>2, <1>4, Types, STypes
  <2>2. /\ rfifo' \in [Client -> Seq(Frame)] /\ rfifo'[c] = Append(rfifo[c], Frm("remote", c))
        /\ \A d \in Client \ {c} : rfifo'[d] = rfifo[d]
    BY ONLY <1>3, <1>4, Types, RTypes, Queue1
  <2>. QED  BY ONLY <1>1, <1>2, <1>3, <2>1, <2>2 DEF Elsewhere, sVars, m, c
<1>5. CASE (REnded(c) \/ m.kind \notin Ups) /\ reader' = reader /\ rfifo' = rfifo
  BY ONLY <1>1, <1>2, <1>3, <1>5, Types, RTypes DEF Elsewhere, sVars, m, c
<1>. QED  BY ONLY <1>1, <1>4, <1>5

\* ... and on the receiver's.
LEMMA ReaderBDoes ==
  ASSUME Types, ReaderTake("B")
  PROVE  LET m == Head(line["A"])
             c == m.of
         IN
         /\ m \in Frame /\ c \in Client /\ None(reader["B"]) /\ line["A"] # <<>> /\ Elsewhere(c)
         /\ line' \in [Host -> Seq(Frame)] /\ line'["A"] = Tail(line["A"])
         /\ line'["B"] = line["B"]
         /\ reader' \in [Host -> Frame] /\ reader'["A"] = reader["A"]
         /\ \/ reader'["B"] = m
            \/ m.kind # "locate" /\ SEnded(c) /\ reader'["B"] = reader["B"]
         /\ UNCHANGED <<setup, client, answer, rVars, sVars, writer, lost, vVars>>
<1>. DEFINE m == Head(line["A"])
            c == m.of
<1>1. /\ None(reader["B"]) /\ line["A"] # <<>> /\ line' = [line EXCEPT !["A"] = Tail(@)]
      /\ \/ reader' = [reader EXCEPT !["B"] = m]
         \/ m.kind # "locate" /\ SEnded(c) /\ reader' = reader
      /\ UNCHANGED <<setup, client, answer, rVars, sVars, writer, lost, vVars>>
  BY DEF ReaderTake, Other, Found, rVars
<1>2. /\ m \in Frame /\ line' \in [Host -> Seq(Frame)] /\ line'["A"] = Tail(line["A"])
      /\ line'["B"] = line["B"]
  <2>1. "B" \in Host \ {"A"}
    BY DEF Host
  <2>. QED  BY ONLY <1>1, <2>1, Types, STypes, Queue1
<1>3. c \in Client
  BY <1>2, FrameIs
<1>. HIDE DEF m, c
<1>4. Elsewhere(c)
  BY ONLY <1>1 DEF Elsewhere, sVars, rVars
<1>5. CASE reader' = [reader EXCEPT !["B"] = m]
  <2>1. reader' \in [Host -> Frame] /\ reader'["A"] = reader["A"] /\ reader'["B"] = m
    BY ONLY <1>2, <1>5, Types, STypes
  <2>. QED  BY ONLY <1>1, <1>2, <1>3, <1>4, <2>1 DEF m, c
<1>6. CASE m.kind # "locate" /\ SEnded(c) /\ reader' = reader
  BY ONLY <1>1, <1>2, <1>3, <1>4, <1>6, Types, STypes DEF m, c
<1>. QED  BY ONLY <1>1, <1>5, <1>6

\* The receiver receives.
LEMMA TakeDoes ==
  ASSUME Types, Take
  PROVE  LET c == Head(vfifo).of IN
         /\ receiver = "up" /\ vfifo # <<>> /\ None(taken) /\ c \in Client /\ Head(vfifo) \in Frame
         /\ vfifo' = Tail(vfifo) /\ vfifo' \in Seq(Frame) /\ taken' \in Frame /\ got' \subseteq Frame
         /\ got \subseteq got'
         /\ \/ Head(vfifo).kind = "proxy" /\ UNCHANGED <<taken, got>>
            \/ /\ Head(vfifo).kind # "proxy" /\ ~ SEnded(c) /\ taken' \in got'
               /\ taken'.kind = "send" /\ taken'.of = c
               /\ seg[c].kind = "send" => taken'.n = seg[c].n
         /\ UNCHANGED <<setup, client, answer, rVars, sVars, wires, receiver>>
<1>. DEFINE c == Head(vfifo).of
            n == IF seg[c].kind = "send" THEN seg[c].n ELSE 0
<1>1. /\ receiver = "up" /\ vfifo # <<>> /\ None(taken) /\ vfifo' = Tail(vfifo)
      /\ \/ Head(vfifo).kind = "proxy" /\ UNCHANGED <<taken, got>>
         \/ /\ Head(vfifo).kind # "proxy" /\ ~ SEnded(c)
            /\ taken' = [kind |-> "send", of |-> c, n |-> n] /\ got' = got \cup {taken'}
      /\ UNCHANGED <<setup, client, answer, rVars, sVars, wires, receiver>>
  BY DEF Take
<1>2. vfifo \in Seq(Frame) /\ taken \in Frame /\ got \subseteq Frame /\ seg \in [Client -> Frame]
  BY DEF Types
<1>3. Head(vfifo) \in Frame /\ vfifo' \in Seq(Frame)
  BY ONLY <1>1, <1>2, Items
<1>4. c \in Client
  BY <1>3, FrameIs
<1>5. n \in Nat
  BY <1>2, <1>4, FrameIs
<1>6. [kind |-> "send", of |-> c, n |-> n] \in Frame
  BY ONLY <1>4, <1>5, FrameIs DEF Kind
<1>. HIDE DEF c
<1>7. CASE Head(vfifo).kind = "proxy" /\ UNCHANGED <<taken, got>>
  BY ONLY <1>1, <1>2, <1>3, <1>4, <1>7 DEF c
<1>8. CASE /\ Head(vfifo).kind # "proxy" /\ ~ SEnded(c)
           /\ taken' = [kind |-> "send", of |-> c, n |-> n] /\ got' = got \cup {taken'}
  <2>1. /\ taken' \in Frame /\ got' \subseteq Frame /\ got \subseteq got' /\ taken' \in got'
        /\ taken'.kind = "send" /\ taken'.of = c
        /\ seg[c].kind = "send" => taken'.n = seg[c].n
    BY ONLY <1>2, <1>6, <1>8
  <2>. QED  BY ONLY <1>1, <1>2, <1>3, <1>4, <1>8, <2>1 DEF c
<1>. QED  BY ONLY <1>1, <1>7, <1>8

\* It replies.
LEMMA AnswerDoes ==
  ASSUME Types, Answer
  PROVE  LET c == taken.of IN
         /\ receiver = "up" /\ ~ None(taken) /\ c \in Client /\ taken' = NoFrame /\ Elsewhere(c)
         /\ seg' \in [Client -> Frame] /\ yfifo' \in [Client -> Seq(BOOLEAN)]
         /\ \/ SEnded(c) /\ seg'[c] = seg[c] /\ yfifo'[c] = yfifo[c]
            \/ /\ ~ SEnded(c) /\ seg'[c] = [kind |-> "reply", of |-> c, n |-> taken.n]
               /\ yfifo'[c] = Append(yfifo[c], TRUE)
            \/ ~ SEnded(c) /\ seg'[c] = seg[c] /\ yfifo'[c] = Append(yfifo[c], FALSE)
         /\ UNCHANGED <<setup, client, answer, rVars, s, wires, receiver, vfifo, got>>
<1>. DEFINE c == taken.of
            m == [kind |-> "reply", of |-> c, n |-> taken.n]
<1>1. /\ receiver = "up" /\ ~ None(taken) /\ taken' = NoFrame
      /\ \/ SEnded(c) /\ seg' = seg /\ yfifo' = yfifo
         \/ /\ ~ SEnded(c) /\ seg' = [seg EXCEPT ![c] = m]
            /\ yfifo' = [yfifo EXCEPT ![c] = Append(@, TRUE)]
         \/ ~ SEnded(c) /\ seg' = seg /\ yfifo' = [yfifo EXCEPT ![c] = Append(@, FALSE)]
      /\ UNCHANGED <<setup, client, answer, rVars, s, wires, receiver, vfifo, got>>
  BY DEF Answer
<1>2. taken \in Frame /\ seg \in [Client -> Frame] /\ yfifo \in [Client -> Seq(BOOLEAN)]
  BY DEF Types
<1>3. c \in Client /\ m \in Frame
  BY <1>2, FrameIs DEF Kind
<1>. HIDE DEF c, m
<1>4. CASE SEnded(c) /\ seg' = seg /\ yfifo' = yfifo
  BY ONLY <1>1, <1>2, <1>3, <1>4 DEF Elsewhere, rVars, c, m
<1>5. CASE /\ ~ SEnded(c) /\ seg' = [seg EXCEPT ![c] = m]
           /\ yfifo' = [yfifo EXCEPT ![c] = Append(@, TRUE)]
  <2>1. seg' \in [Client -> Frame] /\ seg'[c] = m /\ \A d \in Client \ {c} : seg'[d] = seg[d]
    BY ONLY <1>2, <1>3, <1>5, Put1
  <2>2. /\ yfifo' \in [Client -> Seq(BOOLEAN)] /\ yfifo'[c] = Append(yfifo[c], TRUE)
        /\ \A d \in Client \ {c} : yfifo'[d] = yfifo[d]
    BY ONLY <1>3, <1>5, Types, WordPut
  <2>. QED  BY ONLY <1>1, <1>3, <1>5, <2>1, <2>2 DEF Elsewhere, rVars, c, m
<1>6. CASE ~ SEnded(c) /\ seg' = seg /\ yfifo' = [yfifo EXCEPT ![c] = Append(@, FALSE)]
  <2>2. /\ yfifo' \in [Client -> Seq(BOOLEAN)] /\ yfifo'[c] = Append(yfifo[c], FALSE)
        /\ \A d \in Client \ {c} : yfifo'[d] = yfifo[d]
    BY ONLY <1>3, <1>6, Types, WordPut
  <2>. QED  BY ONLY <1>1, <1>2, <1>3, <1>6, <2>2 DEF Elsewhere, rVars, c, m
<1>. QED  BY ONLY <1>1, <1>4, <1>5, <1>6

\* It leaves, with a ReplyError for the sender it owes an answer.
LEMMA ReceiverEndsDoes ==
  ASSUME Types, ReceiverExit \/ ReceiverFaults
  PROVE  LET c == taken.of IN
         /\ receiver = "up" /\ receiver' = "gone" /\ c \in Client
         /\ vfifo' = <<>> /\ taken' = NoFrame /\ Elsewhere(c)
         /\ yfifo' \in [Client -> Seq(BOOLEAN)]
         /\ \/ (None(taken) \/ SEnded(c)) /\ yfifo'[c] = yfifo[c]
            \/ ~ None(taken) /\ ~ SEnded(c) /\ yfifo'[c] = Append(yfifo[c], FALSE)
         /\ UNCHANGED <<setup, client, answer, rVars, s, seg, wires, got>>
<1>. DEFINE c == taken.of
<1>1. /\ receiver = "up" /\ receiver' = "gone" /\ vfifo' = <<>> /\ taken' = NoFrame
      /\ \/ (None(taken) \/ SEnded(c)) /\ yfifo' = yfifo
         \/ ~ None(taken) /\ ~ SEnded(c) /\ yfifo' = [yfifo EXCEPT ![c] = Append(@, FALSE)]
      /\ UNCHANGED <<setup, client, answer, rVars, s, seg, wires, got>>
  BY DEF ReceiverExit, ReceiverFaults, ReceiverEnds
<1>2. yfifo \in [Client -> Seq(BOOLEAN)] /\ c \in Client
  BY FrameIs DEF Types
<1>. HIDE DEF c
<1>4. CASE (None(taken) \/ SEnded(c)) /\ yfifo' = yfifo
  BY ONLY <1>1, <1>2, <1>4 DEF Elsewhere, rVars, c
<1>6. CASE ~ None(taken) /\ ~ SEnded(c) /\ yfifo' = [yfifo EXCEPT ![c] = Append(@, FALSE)]
  <2>2. /\ yfifo' \in [Client -> Seq(BOOLEAN)] /\ yfifo'[c] = Append(yfifo[c], FALSE)
        /\ \A d \in Client \ {c} : yfifo'[d] = yfifo[d]
    BY ONLY <1>2, <1>6, Types, WordPut
  <2>. QED  BY ONLY <1>1, <1>2, <1>6, <2>2 DEF Elsewhere, rVars, c
<1>. QED  BY ONLY <1>1, <1>4, <1>6

\* Steps that leave surrogate_r's counter, and where it is, alone.
LEMMA CountedKept == ASSUME Counted, UNCHANGED r PROVE Counted'
  BY DEF Counted, Early, Good, Goes

\* Steps of one surrogate_r.
LEMMA CountedAt ==
  ASSUME Counted, NEW c \in Client, Elsewhere(c), Early(c)' \/ Good(c)' => r'[c].missed <= Limit
  PROVE  Counted'
<1>. SUFFICES ASSUME NEW d \in Client, Early(d)' \/ Good(d)' PROVE r'[d].missed <= Limit
  BY DEF Counted
<1>1. CASE d # c
  <2>1. r'[d] = r[d]
    BY <1>1 DEF Elsewhere
  <2>. QED  BY <2>1 DEF Counted, Early, Good, Goes
<1>. QED  BY <1>1

\* Where surrogate_r is after it moved, from where it was before.
LEMMA CountedSame ==
  ASSUME Types, Counted, NEW c \in Client, RSide(c), r'[c].missed \in {r[c].missed, 0},
         Early(c)' \/ Good(c)' => Early(c) \/ Good(c)
  PROVE  Counted'
<1>1. Limit \in Nat /\ Elsewhere(c)
  BY LineAssumption DEF RSide
<1>2. Early(c)' \/ Good(c)' => r'[c].missed <= Limit
  BY <1>1 DEF Counted
<1>. QED  BY <1>1, <1>2, CountedAt

\* The types hold after a step of a client, of surrogate_r and of surrogate_s.
LEMMA SideTypes ==
  ASSUME Types, NEW c \in Client, ClientSide(c) \/ RSide(c) \/ SSide(c)
  PROVE  Types'
<1>1. CASE ClientSide(c)
  BY ONLY <1>1, Types DEF Types, ClientSide, sVars, wires, vVars
<1>2. CASE RSide(c)
  BY ONLY <1>2, Types DEF Types, RSide, sVars, vVars
<1>3. CASE SSide(c)
  BY ONLY <1>3, Types DEF Types, SSide, rVars
<1>. QED  BY <1>1, <1>2, <1>3

\* Every step of a client, its surrogates and rs232_w and rs232_r keeps the types and
\* the counter.
LEMMA ClientSteps ==
  ASSUME Types, Counted, NEW c \in Client,
         \/ Locate(c) \/ ClientSend(c) \/ ClientTrigger(c) \/ ClientReturn(c)
         \/ ClientExit(c) \/ ClientRemove(c) \/ ClientKill(c)
  PROVE  Types' /\ Counted'
<1>1. ClientSide(c)
  BY Zenon, LocateDoes, ClientSendDoes, ClientTriggerDoes, ClientReturnDoes, ClientLeavesDoes
<1>2. UNCHANGED r
  BY <1>1 DEF ClientSide
<1>. QED  BY <1>1, <1>2, SideTypes, CountedKept

\* ... of surrogate_s,
LEMMA SSteps ==
  ASSUME Types, Counted, NEW c \in Client, SStep(c) \/ SReply(c) \/ STimeout(c)
  PROVE  Types' /\ Counted'
<1>1. SSide(c)
  BY Zenon, SForkDoes, SLocateDoes, SReturnDoes, SMessageDoes, SReplyDoes, STimeoutDoes DEF SStep
<1>2. UNCHANGED r
  BY <1>1 DEF SSide, rVars
<1>. QED  BY <1>1, <1>2, SideTypes, CountedKept

\* ... of surrogate_r,
LEMMA RSteps ==
  ASSUME Types, Counted, NEW c \in Client, RStep(c) \/ RLocateTimeout(c) \/ RTimeout(c)
  PROVE  Types' /\ Counted'
<1>1. CASE RLocate(c)
  <2>1. /\ RSide(c) /\ r'[c].missed = r[c].missed /\ r[c].at = "attached"
        /\ Moved(c, "faulted") \/ Sent(c, Frm("locate", c), "locating", TRUE)
    BY ONLY <1>1, Types, RLocateDoes
  <2>2. Early(c)' \/ Good(c)' => Early(c) \/ Good(c)
    BY ONLY <2>1 DEF Early, Good, Goes, Moved, Sent
  <2>. QED  BY ONLY <2>1, <2>2, Types, Counted, SideTypes, CountedSame
<1>2. CASE RLocated(c)
  <2>1. RSide(c) /\ r'[c].missed = r[c].missed /\ r[c].at = "locating"
    BY ONLY <1>2, Types, RLocatedDoes
  <2>2. Early(c)' \/ Good(c)' => Early(c) \/ Good(c)
    BY ONLY <2>1 DEF Early
  <2>. QED  BY ONLY <2>1, <2>2, Types, Counted, SideTypes, CountedSame
<1>3. CASE RSend(c) \/ RProxy(c) \/ RClose(c)
  <2>1. RSide(c) /\ r'[c].missed = r[c].missed /\ r[c].at = "up"
    BY ONLY <1>3, Types, RSendDoes, RProxyDoes, RCloseDoes
  <2>2. Early(c)' \/ Good(c)' => Early(c) \/ Good(c)
    BY ONLY <2>1 DEF Good
  <2>. QED  BY ONLY <2>1, <2>2, Types, Counted, SideTypes, CountedSame
<1>4. CASE RRemote(c)
  <2>1. RSide(c) /\ r'[c].missed \in {r[c].missed, 0} /\ r[c].at = "up"
    BY ONLY <1>4, Types, RRemoteDoes
  <2>2. Early(c)' \/ Good(c)' => Early(c) \/ Good(c)
    BY ONLY <2>1 DEF Good
  <2>. QED  BY ONLY <2>1, <2>2, Types, Counted, SideTypes, CountedSame
<1>5. CASE RReturn(c)
  <2>1. /\ RSide(c) /\ r'[c].missed = r[c].missed /\ r[c].at = "sending"
        /\ \/ r[c].then = "gone" /\ Ends(c)
           \/ r[c].then \in {"up", "locating"} /\ Moved(c, r[c].then)
    BY ONLY <1>5, Types, RReturnDoes
  <2>2. Early(c)' \/ Good(c)' => Early(c) \/ Good(c)
    BY ONLY <2>1 DEF Good, Early, Goes, Ends, Moved, Answered
  <2>. QED  BY ONLY <2>1, <2>2, Types, Counted, SideTypes, CountedSame
<1>6. CASE RLocateTimeout(c)
  <2>1. RSide(c) /\ r'[c].missed = r[c].missed /\ r[c].at = "locating"
    BY ONLY <1>6, Types, RLocateTimeoutDoes
  <2>2. Early(c)' \/ Good(c)' => Early(c) \/ Good(c)
    BY ONLY <2>1 DEF Early
  <2>. QED  BY ONLY <2>1, <2>2, Types, Counted, SideTypes, CountedSame
<1>7. CASE RTimeout(c)
  <2>1. /\ RSide(c)
        /\ \/ Sent(c, Frm("close", c), "gone", FALSE)
           \/ /\ Sent(c, Frm("alive", c), r'[c].then, r[c].holds)
              /\ r'[c].then \in {"up", "gone"}
              /\ r'[c].then = "up" => r'[c].missed <= Limit
    BY ONLY <1>7, Types, Counted, RTimeoutDoes
  <2>2. Early(c)' \/ Good(c)' => r'[c].missed <= Limit
    BY ONLY <2>1 DEF Good, Early, Goes, Sent
  <2>3. Elsewhere(c)
    BY <2>1 DEF RSide
  <2>. QED  BY ONLY <2>1, <2>2, <2>3, Types, Counted, SideTypes, CountedAt
<1>. QED  BY <1>1, <1>2, <1>3, <1>4, <1>5, <1>6, <1>7 DEF RStep

\* ... of the programs at the line,
LEMMA WireSteps ==
  ASSUME Types, Counted, NEW h \in Host, Wire(h)
  PROVE  Types' /\ Counted'
<1>1. CASE WriterTake("A")
  <2>1. PICK c \in Client :
        /\ c = Head(writer["A"]) /\ Elsewhere(c)
        /\ writer' \in [Host -> Seq(Client)]
        /\ r' \in [Client -> RType] /\ r'[c].at = r[c].at /\ r'[c].then = r[c].then
        /\ r'[c].missed = r[c].missed
        /\ Written("A", "B", r[c].out)
        /\ UNCHANGED <<setup, client, answer, rfifo, sVars, reader, vVars>>
    BY ONLY <1>1, Types, WriterADoes
  <2>2. Early(c)' \/ Good(c)' => r'[c].missed <= Limit
    BY ONLY <2>1, Counted DEF Good, Early, Goes, Counted
  <2>3. Types'
    BY ONLY <2>1, Types DEF Types, Written, sVars, vVars
  <2>. QED  BY ONLY <2>1, <2>2, <2>3, Counted, CountedAt
<1>2. CASE WriterTake("B")
  <2>1. /\ writer' \in [Host -> Seq(Client)] /\ seg' \in [Client -> Frame]
        /\ yfifo' \in [Client -> Seq(BOOLEAN)]
        /\ Written("B", "A", seg[Head(writer["B"])])
        /\ UNCHANGED <<setup, client, answer, rVars, s, reader, vVars>>
    BY ONLY <1>2, Types, WriterBDoes
  <2>3. Types' /\ UNCHANGED r
    BY ONLY <2>1, Types DEF Types, Written, rVars, vVars
  <2>. QED  BY ONLY <2>3, Counted, CountedKept
<1>3. CASE ReaderTake("A")
  <2>1. /\ line' \in [Host -> Seq(Frame)] /\ reader' \in [Host -> Frame]
        /\ rfifo' \in [Client -> Seq(Frame)]
        /\ UNCHANGED <<setup, client, answer, r, sVars, writer, lost, vVars>>
    BY ONLY <1>3, Types, ReaderADoes
  <2>3. Types' /\ UNCHANGED r
    BY ONLY <2>1, Types DEF Types, sVars, vVars
  <2>. QED  BY ONLY <2>3, Counted, CountedKept
<1>4. CASE ReaderTake("B")
  <2>1. /\ line' \in [Host -> Seq(Frame)] /\ reader' \in [Host -> Frame]
        /\ UNCHANGED <<setup, client, answer, rVars, sVars, writer, lost, vVars>>
    BY ONLY <1>4, Types, ReaderBDoes
  <2>3. Types' /\ UNCHANGED r
    BY ONLY <2>1, Types DEF Types, rVars, sVars, vVars
  <2>. QED  BY ONLY <2>3, Counted, CountedKept
<1>. QED  BY <1>1, <1>2, <1>3, <1>4 DEF Wire, Host

\* ... and of the receiver.
LEMMA ReceiverSteps ==
  ASSUME Types, Counted, Take \/ Answer \/ ReceiverExit \/ ReceiverFaults
  PROVE  Types' /\ Counted'
<1>1. CASE Take
  <2>1. /\ vfifo' \in Seq(Frame) /\ taken' \in Frame /\ got' \subseteq Frame
        /\ UNCHANGED <<setup, client, answer, rVars, sVars, wires, receiver>>
    BY ONLY <1>1, Types, TakeDoes
  <2>2. Types' /\ UNCHANGED r
    BY ONLY <2>1, Types DEF Types, rVars, sVars, wires
  <2>. QED  BY ONLY <2>2, Counted, CountedKept
<1>2. CASE Answer
  <2>1. /\ taken' = NoFrame /\ seg' \in [Client -> Frame] /\ yfifo' \in [Client -> Seq(BOOLEAN)]
        /\ UNCHANGED <<setup, client, answer, rVars, s, wires, receiver, vfifo, got>>
    BY ONLY <1>2, Types, AnswerDoes
  <2>2. Types' /\ UNCHANGED r
    BY ONLY <2>1, Types, FrameIs DEF Types, rVars, wires
  <2>. QED  BY ONLY <2>2, Counted, CountedKept
<1>3. CASE ReceiverExit \/ ReceiverFaults
  <2>1. /\ receiver' = "gone" /\ vfifo' = <<>> /\ taken' = NoFrame
        /\ yfifo' \in [Client -> Seq(BOOLEAN)]
        /\ UNCHANGED <<setup, client, answer, rVars, s, seg, wires, got>>
    BY ONLY <1>3, Types, ReceiverEndsDoes
  <2>2. vfifo' \in Seq(Frame)
    BY <2>1
  <2>3. Types' /\ UNCHANGED r
    BY ONLY <2>1, <2>2, Types, FrameIs DEF Types, rVars, wires
  <2>. QED  BY ONLY <2>3, Counted, CountedKept
<1>. QED  BY <1>1, <1>2, <1>3

\* A step is one of these.
LEMMA Steps ==
  ASSUME [Next]_vars
  PROVE  \/ \E c \in Client :
               \/ \/ Locate(c) \/ ClientSend(c) \/ ClientTrigger(c) \/ ClientReturn(c)
                  \/ ClientExit(c) \/ ClientRemove(c) \/ ClientKill(c)
               \/ RStep(c) \/ RLocateTimeout(c) \/ RTimeout(c)
               \/ SStep(c) \/ SReply(c) \/ STimeout(c)
         \/ \E h \in Host : Wire(h)
         \/ Take \/ Answer \/ ReceiverExit \/ ReceiverFaults
         \/ UNCHANGED vars
  BY Zenon DEF Next

\* So every step keeps the types.
LEMMA TypesStep == Types /\ Counted /\ [Next]_vars => Types' /\ Counted'
<1>. SUFFICES ASSUME Types, Counted, [Next]_vars PROVE Types' /\ Counted'
  OBVIOUS
<1>1. CASE UNCHANGED vars
  <2>1. UNCHANGED <<setup, client, answer, r, rfifo, s, seg, yfifo, writer, line, reader, lost,
                    receiver, vfifo, taken, got>>
    BY <1>1 DEF vars, rVars, sVars, wires, vVars
  <2>2. Types'
    BY ONLY <2>1, Types DEF Types
  <2>. QED  BY <2>1, <2>2, CountedKept
<1>. QED  BY ONLY <1>1, Types, Counted, [Next]_vars, Steps, ClientSteps, RSteps, SSteps, WireSteps,
             ReceiverSteps, Zenon

\* They hold at the start.
LEMMA TypesAtStart == Init => Types /\ Counted
<1>. SUFFICES ASSUME Init PROVE Types /\ Counted
  OBVIOUS
<1>1. <<>> \in Seq(Frame) /\ <<>> \in Seq(BOOLEAN) /\ <<>> \in Seq(Client)
  OBVIOUS
<1>2. NoFrame \in Frame /\ Limit \in Nat /\ MaxAsks \in Nat /\ MaxLost \in Nat
  BY FrameIs, LineAssumption
<1>3. /\ [at |-> "start", asked |-> 0] \in ClientType
      /\ [at |-> "attached", then |-> "up", holds |-> FALSE, missed |-> 0, out |-> NoFrame] \in RType
      /\ [at |-> "none", then |-> "up", missed |-> 0, room |-> FALSE] \in SType
  BY ONLY <1>2 DEF ClientType, RType, SType
<1>4. client \in [Client -> ClientType] /\ r \in [Client -> RType] /\ s \in [Client -> SType]
  BY ONLY <1>3, Init DEF Init
<1>5. /\ setup \in Setups /\ lost \in 0..MaxLost
      /\ answer \in [Client -> Seq(Frame)] /\ rfifo \in [Client -> Seq(Frame)]
      /\ seg \in [Client -> Frame]
      /\ line \in [Host -> Seq(Frame)] /\ reader \in [Host -> Frame]
  BY ONLY <1>1, <1>2, Init DEF Init
<1>8. yfifo \in [Client -> Seq(BOOLEAN)] /\ writer \in [Host -> Seq(Client)]
  BY ONLY <1>1, Init DEF Init
<1>6. receiver \in {"up", "gone"} /\ vfifo \in Seq(Frame) /\ taken \in Frame /\ got \subseteq Frame
  BY ONLY <1>1, <1>2, Init DEF Init
<1>7. Counted
  BY ONLY <1>2, Init DEF Init, Counted
<1>. QED  BY ONLY <1>4, <1>5, <1>6, <1>7, <1>8 DEF Types

\* TypeOK holds in every state: frames stay frames in every queue and every place, and
\* the counters of time-outs stay within KEEP_ALIVE_FAIL_LIMIT.
THEOREM TypeCorrect == Spec => []TypeOK
<1>1. Types => TypeOK
  BY DEF Types, TypeOK, ClientType, RType, SType
<1>. QED  BY <1>1, TypesAtStart, TypesStep, PTL DEF Spec

-----------------------------------------------------------------------------
(* The other conduits.                                                     *)

\* p has what q has of conduit d, in its order; place p holds what place m held of it.
LikeQ(q, p, d) ==
    \A K : /\ Number(p, d, K) = Number(q, d, K)
           /\ \A n : AllOwn(q, d, K, n) => AllOwn(p, d, K, n)
           /\ \A L : Before(q, d, K, L) => Before(p, d, K, L)
LikeM(m, p, d) ==
    /\ \A K : Is(p, d, K) = Is(m, d, K)
    /\ \A n : Own(m, d, n) => Own(p, d, n)

\* A queue is like itself, and like itself with or without a frame of another conduit.
LEMMA LikeIs ==
  ASSUME NEW q \in Seq(Frame), NEW d
  PROVE  /\ LikeQ(q, q, d)
         /\ \A m \in Frame : None(m) \/ m.of # d => LikeQ(q, Append(q, m), d)
         /\ q # <<>> /\ (None(Head(q)) \/ Head(q).of # d) => LikeQ(q, Tail(q), d)
<1>1. LikeQ(q, q, d)
  BY DEF LikeQ
<1>2. ASSUME NEW m \in Frame, None(m) \/ m.of # d PROVE LikeQ(q, Append(q, m), d)
  <2>1. \A K : Is(m, d, K) = 0 /\ ~ Of(m, d, K)
    BY <1>2 DEF Is, Of
  <2>2. ASSUME NEW K PROVE Number(Append(q, m), d, K) = Number(q, d, K)
    <3>1. Number(q, d, K) \in Nat
      BY NumberNat
    <3>2. Number(Append(q, m), d, K) = Number(q, d, K) + Is(m, d, K)
      BY NumberAppend
    <3>. QED  BY ONLY <2>1, <3>1, <3>2
  <2>3. \A K : /\ \A n : AllOwn(q, d, K, n) => AllOwn(Append(q, m), d, K, n)
               /\ \A L : Before(q, d, K, L) => Before(Append(q, m), d, K, L)
    BY <2>1, Added
  <2>. QED  BY ONLY <2>2, <2>3 DEF LikeQ
<1>3. ASSUME q # <<>>, None(Head(q)) \/ Head(q).of # d PROVE LikeQ(q, Tail(q), d)
  <2>1. \A K : Is(Head(q), d, K) = 0
    BY <1>3 DEF Is, Of
  <2>4. Tail(q) \in Seq(Frame)
    BY <1>3
  <2>2. \A K : Number(Tail(q), d, K) = Number(q, d, K)
    <3>1. \A K : /\ Number(Tail(q), d, K) \in Nat
                 /\ Number(q, d, K) = Is(Head(q), d, K) + Number(Tail(q), d, K)
      BY <1>3, <2>4, NumberNat, NumberTail
    <3>. QED  BY ONLY <2>1, <3>1
  <2>3. \A K : /\ \A n : AllOwn(q, d, K, n) => AllOwn(Tail(q), d, K, n)
               /\ \A L : Before(q, d, K, L) => Before(Tail(q), d, K, L)
    BY <1>3, Removed
  <2>. QED  BY ONLY <2>2, <2>3 DEF LikeQ
<1>. QED  BY <1>1, <1>2, <1>3

\* So are places.
LEMMA LikeMIs ==
  ASSUME NEW m, NEW p, NEW d, (None(m) \/ m.of # d) /\ (None(p) \/ p.of # d)
  PROVE  LikeM(m, p, d)
  BY DEF LikeM, Is, Of, Own

\* What a step of other conduits does to what conduit d shares with them.
Shared(d) ==
    /\ LikeQ(line["A"], line'["A"], d) /\ LikeQ(line["B"], line'["B"], d)
    /\ LikeQ(vfifo, vfifo', d) /\ LikeM(taken, taken', d)
    /\ LikeM(reader["A"], reader'["A"], d) /\ LikeM(reader["B"], reader'["B"], d)
    /\ got \subseteq got' /\ (lost' = 0 => lost = 0) /\ (receiver' = "up" => receiver = "up")

\* A conduit does not notice the steps of another.
LEMMA Bystander ==
  ASSUME NEW c \in Client, NEW d \in Client \ {c}, Conduit(d), Elsewhere(c), Shared(d)
  PROVE  Conduit(d)'
<1>1. /\ client'[d] = client[d] /\ answer'[d] = answer[d] /\ rfifo'[d] = rfifo[d]
      /\ r'[d] = r[d] /\ s'[d] = s[d] /\ seg'[d] = seg[d] /\ yfifo'[d] = yfifo[d]
  BY DEF Elsewhere
<1>2. /\ (Goes(d)' <=> Goes(d)) /\ (Early(d)' <=> Early(d)) /\ (Good(d)' <=> Good(d))
      /\ (Runs(d)' <=> Runs(d)) /\ (Sends(d)' <=> Sends(d)) /\ Seg(d)' = Seg(d) /\ Held(d)' = Held(d) /\ Forked(d)' = Forked(d)
  BY ONLY <1>1 DEF Goes, Early, Good, Runs, Sends, Seg, Held, Forked
<1>3. /\ \A K : /\ Number(line["A"], d, K)' = Number(line["A"], d, K)
                /\ Number(line["B"], d, K)' = Number(line["B"], d, K)
                /\ Number(vfifo, d, K)' = Number(vfifo, d, K)
                /\ Is(taken, d, K)' = Is(taken, d, K)
                /\ Is(reader["A"], d, K)' = Is(reader["A"], d, K)
                /\ Is(reader["B"], d, K)' = Is(reader["B"], d, K)
      /\ \A n : /\ AllOwn(line["A"], d, Words, n) => AllOwn(line["A"], d, Words, n)'
                /\ AllOwn(line["B"], d, Words, n) => AllOwn(line["B"], d, Words, n)'
                /\ Own(taken, d, n) => Own(taken, d, n)'
                /\ Own(reader["A"], d, n) => Own(reader["A"], d, n)'
                /\ Own(reader["B"], d, n) => Own(reader["B"], d, n)'
      /\ Before(line["A"], d, Quiets, Words) => Before(line["A"], d, Quiets, Words)'
  BY ONLY Shared(d) DEF Shared, LikeQ, LikeM
<1>4. \A K : Down(d, K)' = Down(d, K) /\ Up(d, K)' = Up(d, K)
  BY ONLY <1>1, <1>2, <1>3 DEF Down, Up
<1>5. Served(d)' = Served(d) /\ Far(d)' = Far(d) /\ Near(d)' = Near(d) /\ At(d)' = At(d)
  BY ONLY <1>1, <1>2, <1>3, <1>4 DEF Served, Far, Near, At
<1>6. Formed(d)'
  BY ONLY <1>1, <1>2, Conduit(d) DEF Conduit, Formed
<1>7. Offer(d)'
  BY ONLY <1>1, <1>3, Conduit(d) DEF Conduit, Offer
<1>8. OneOut(d)'
  BY ONLY <1>1, <1>2, Conduit(d) DEF Conduit, OneOut
<1>9. LookUp(d)'
  BY ONLY <1>1, <1>2, <1>3, <1>4, Conduit(d) DEF Conduit, LookUp
<1>10. Transit(d)'
  BY ONLY <1>1, <1>2, <1>4, <1>5, Shared(d), Conduit(d) DEF Conduit, Transit, Shared
<1>11. InTurn(d)'
  BY ONLY <1>1, <1>3, <1>5, Conduit(d) DEF Conduit, InTurn
<1>12. \A n : Known(d, n) => Known(d, n)'
  BY ONLY Shared(d) DEF Known, Shared
<1>13. Current(d)'
  <2>. SUFFICES ASSUME client[d].at = "sending", Good(d)
                PROVE  /\ Coming(d, client[d].asked)' /\ Serving(d, client[d].asked)'
                       /\ Going(d, client[d].asked)'
    BY <1>1, <1>2 DEF Current
  <2>1. Coming(d, client[d].asked) /\ Serving(d, client[d].asked) /\ Going(d, client[d].asked)
    BY DEF Conduit, Current
  <2>2. Coming(d, client[d].asked)'
    BY ONLY <1>1, <1>3, <2>1 DEF Coming
  <2>3. Serving(d, client[d].asked)'
    BY ONLY <1>1, <1>3, <1>12, <2>1 DEF Serving
  <2>4. Going(d, client[d].asked)'
    BY ONLY <1>1, <1>2, <1>3, <1>4, <1>12, <2>1 DEF Going
  <2>. QED  BY ONLY <2>2, <2>3, <2>4
<1>14. Right(d)'
  BY ONLY <1>1, <1>12, Conduit(d) DEF Conduit, Right
<1>. QED  BY ONLY <1>6, <1>7, <1>8, <1>9, <1>10, <1>11, <1>13, <1>14 DEF Conduit

-----------------------------------------------------------------------------
(* The steps of a client.                                                  *)

\* What the invariant counts.
Amount(c) ==
    /\ \A K : /\ Down(c, K) \in Nat /\ Up(c, K) \in Nat
              /\ Number(line["A"], c, K) \in Nat /\ Number(line["B"], c, K) \in Nat
              /\ Number(vfifo, c, K) \in Nat /\ Number(rfifo[c], c, K) \in Nat
    /\ Served(c) \in Nat /\ Far(c) \in Nat /\ Near(c) \in Nat /\ At(c) \in {0, 1}
    /\ Held(c) \in {0, 1} /\ Forked(c) \in {0, 1}
    /\ Len(answer[c]) \in Nat /\ Len(yfifo[c]) \in Nat

\* These are numbers.
LEMMA Amounts == ASSUME Types, NEW c \in Client PROVE Amount(c)
<1>1. /\ line["A"] \in Seq(Frame) /\ line["B"] \in Seq(Frame) /\ vfifo \in Seq(Frame)
      /\ rfifo[c] \in Seq(Frame) /\ answer[c] \in Seq(Frame) /\ yfifo[c] \in Seq(BOOLEAN)
  BY DEF Types, Host
<1>2. ASSUME NEW K
      PROVE  /\ Number(line["A"], c, K) \in Nat /\ Number(line["B"], c, K) \in Nat
             /\ Number(vfifo, c, K) \in Nat /\ Number(rfifo[c], c, K) \in Nat
             /\ \A m : Is(m, c, K) \in {0, 1}
  BY ONLY <1>1, NumberNat, IsNat
<1>3. \A K : Down(c, K) \in Nat /\ Up(c, K) \in Nat
  BY ONLY <1>2 DEF Down, Up
<1>4. Len(answer[c]) \in Nat /\ Len(yfifo[c]) \in Nat
  BY <1>1
<1>5. Served(c) \in Nat
  BY ONLY <1>2, <1>4 DEF Served
<1>6. Far(c) \in Nat /\ Near(c) \in Nat /\ At(c) \in {0, 1}
  BY ONLY <1>2, <1>3, <1>5 DEF Far, Near, At
<1>7. Held(c) \in {0, 1} /\ Forked(c) \in {0, 1}
  BY DEF Held, Forked
<1>. QED  BY ONLY <1>2, <1>3, <1>4, <1>5, <1>6, <1>7 DEF Amount

\* What a client does not change.
LEMMA ClientRest ==
  ASSUME Types, Orderly, NEW c \in Client, ClientSide(c),
         (Formed(c) /\ Offer(c) /\ OneOut(c) /\ Current(c) /\ Right(c))'
  PROVE  Orderly'
<1>1. /\ UNCHANGED <<setup, r, s, seg, yfifo, writer, line, reader, lost, receiver, vfifo, taken, got>>
      /\ Elsewhere(c)
  BY DEF ClientSide, sVars, wires, vVars
<1>2. Kinds' /\ Writers'
  BY ONLY <1>1, Orderly DEF Orderly, Kinds, Writers, Sends, Distinct
<1>3. LookUp(c)' /\ Transit(c)' /\ InTurn(c)'
  <2>1. LookUp(c) /\ Transit(c) /\ InTurn(c)
    BY DEF Orderly, Conduit
  <2>2. /\ (Goes(c)' <=> Goes(c)) /\ (Early(c)' <=> Early(c)) /\ (Good(c)' <=> Good(c))
        /\ (Sends(c)' <=> Sends(c)) /\ Seg(c)' = Seg(c) /\ Held(c)' = Held(c)
        /\ Forked(c)' = Forked(c)
    BY ONLY <1>1 DEF Goes, Early, Good, Sends, Seg, Held, Forked
  <2>3. \A K : Down(c, K)' = Down(c, K) /\ Up(c, K)' = Up(c, K)
    BY ONLY <1>1, <2>2 DEF Down, Up
  <2>4. Served(c)' = Served(c) /\ Far(c)' = Far(c) /\ Near(c)' = Near(c) /\ At(c)' = At(c)
    BY ONLY <1>1, <2>2, <2>3 DEF Served, Far, Near, At
  <2>5. LookUp(c)'
    BY ONLY <1>1, <2>1, <2>2, <2>3 DEF LookUp
  <2>6. Transit(c)'
    BY ONLY <1>1, <2>1, <2>2, <2>3, <2>4 DEF Transit
  <2>7. InTurn(c)'
    BY ONLY <1>1, <2>1, <2>4 DEF InTurn
  <2>. QED  BY <2>5, <2>6, <2>7
<1>4. ASSUME NEW d \in Client \ {c} PROVE Conduit(d)'
  <2>1. /\ \A q \in Seq(Frame) : LikeQ(q, q, d)
        /\ \A m : LikeM(m, m, d)
    BY LikeIs DEF LikeM
  <2>2. line["A"] \in Seq(Frame) /\ line["B"] \in Seq(Frame) /\ vfifo \in Seq(Frame)
    BY DEF Types, Host
  <2>3. Shared(d)
    BY ONLY <1>1, <2>1, <2>2 DEF Shared
  <2>. QED  BY <1>1, <2>3, Bystander DEF Orderly
<1>5. Conduit(c)'
  BY <1>3 DEF Conduit
<1>. QED  BY ONLY <1>2, <1>4, <1>5 DEF Orderly

\* A message a client puts in the fifo of surrogate_r, or none.
Put(c, m) == rfifo'[c] = Append(rfifo[c], m)

\* What such a message adds.
LEMMA PutIs ==
  ASSUME Types, Orderly, NEW c \in Client, ClientSide(c), NEW m \in Frame, m.of = c,
         m.kind \in Posts \ {"remote"}, Put(c, m)
  PROVE  /\ Formed(c)' /\ Offer(c)'
         /\ Number(rfifo[c], c, Calls)' =
               Number(rfifo[c], c, Calls) + (IF m.kind \in Calls THEN 1 ELSE 0)
         /\ Number(rfifo[c], c, Proxies)' =
               Number(rfifo[c], c, Proxies) + (IF m.kind \in Proxies THEN 1 ELSE 0)
         /\ Before(rfifo[c], c, Proxies, Calls) /\ (m.kind = "proxy" => Number(rfifo[c], c, Calls) = 0)
               => Before(rfifo[c], c, Proxies, Calls)'
         /\ \A n : AllOwn(rfifo[c], c, Calls, n) /\ m.n = n => AllOwn(rfifo[c], c, Calls, n)'
<1>. DEFINE q == rfifo[c]
<1>1. /\ q \in Seq(Frame) /\ rfifo'[c] = Append(q, m)
      /\ UNCHANGED <<r, s, seg, yfifo, reader>> /\ Formed(c) /\ Offer(c)
  BY DEF Put, ClientSide, sVars, wires, Orderly, Conduit, Types
<1>2. ~ None(m)
  BY DEF Posts, None
<1>3. \A K : Is(m, c, K) = IF m.kind \in K THEN 1 ELSE 0
  BY ONLY <1>2, m.of = c, IsNat
<1>4. \A K : Number(Append(q, m), c, K) = Number(q, c, K) + Is(m, c, K)
  BY ONLY <1>1, m \in Frame, NumberAppend
<1>5. /\ DOMAIN q = 1..Len(q) /\ Len(q) \in Nat /\ DOMAIN Append(q, m) = 1..(Len(q) + 1)
      /\ Append(q, m)[Len(q) + 1] = m /\ \A i \in 1..Len(q) : Append(q, m)[i] = q[i]
  BY ONLY <1>1, m \in Frame, Items
<1>6. Formed(c)'
  <2>1. \A i \in DOMAIN rfifo'[c] : rfifo'[c][i].of = c /\ rfifo'[c][i].kind \in Posts
    <3>1. \A i \in DOMAIN q : q[i].of = c /\ q[i].kind \in Posts
      BY <1>1 DEF Formed
    <3>. HIDE DEF q
    <3>. QED  BY ONLY <1>1, <1>5, <3>1, m.of = c, m.kind \in Posts \ {"remote"}
  <2>. QED  BY ONLY <1>1, <2>1 DEF Formed, Goes, Sends
<1>7. Number(q, c, Remotes) \in Nat
  BY ONLY <1>1, NumberNat
<1>8. Offer(c)'
  <2>1. Is(m, c, Remotes) = 0
    BY <1>3 DEF Remotes
  <2>2. Number(Append(q, m), c, Remotes) = Number(q, c, Remotes)
    BY ONLY <1>4, <1>7, <2>1
  <2>. QED  BY ONLY <1>1, <2>2 DEF Offer
<1>9. /\ Number(Append(q, m), c, Calls) = Number(q, c, Calls) + (IF m.kind \in Calls THEN 1 ELSE 0)
      /\ Number(Append(q, m), c, Proxies) = Number(q, c, Proxies) + (IF m.kind \in Proxies THEN 1 ELSE 0)
  BY ONLY <1>3, <1>4
<1>10. /\ \A K, n : AllOwn(q, c, K, n) /\ (Of(m, c, K) => m.n = n) => AllOwn(Append(q, m), c, K, n)
       /\ \A K, L : Before(q, c, K, L) /\ (Is(m, c, K) = 1 => Number(q, c, L) = 0 /\ K \cap L = {})
                       => Before(Append(q, m), c, K, L)
  BY ONLY <1>1, m \in Frame, Added
<1>11. Is(m, c, Proxies) = 1 => m.kind = "proxy"
  BY ONLY <1>3 DEF Proxies
<1>12. Proxies \cap Calls = {}
  BY DEF Proxies, Calls
<1>13. /\ Before(q, c, Proxies, Calls) /\ (m.kind = "proxy" => Number(q, c, Calls) = 0)
             => Before(Append(q, m), c, Proxies, Calls)
       /\ \A n : AllOwn(q, c, Calls, n) /\ m.n = n => AllOwn(Append(q, m), c, Calls, n)
  BY ONLY <1>10, <1>11, <1>12
<1>. QED  BY ONLY <1>1, <1>6, <1>8, <1>9, <1>13

\* When it puts none there, both hold as before.
LEMMA NoPut ==
  ASSUME Orderly, NEW c \in Client, ClientSide(c), rfifo'[c] = rfifo[c]
  PROVE  Formed(c)' /\ Offer(c)'
<1>1. Formed(c) /\ Offer(c) /\ UNCHANGED <<r, s, seg, yfifo, reader>>
  BY DEF ClientSide, sVars, wires, Orderly, Conduit
<1>. QED  BY ONLY <1>1, rfifo'[c] = rfifo[c] DEF Formed, Offer, Goes, Sends

\* Nor does surrogate_r move.
LEMMA RStill ==
  ASSUME NEW c \in Client, ClientSide(c)
  PROVE  /\ (Goes(c)' <=> Goes(c)) /\ (Early(c)' <=> Early(c)) /\ (Good(c)' <=> Good(c))
         /\ (Runs(c)' <=> Runs(c)) /\ Held(c)' = Held(c) /\ r' = r
  BY DEF ClientSide, Goes, Early, Good, Runs, Held

\* It looks for the receiver.
LEMMA LocateOrderly ==
  ASSUME Types, Orderly, NEW c \in Client, Locate(c) PROVE Orderly'
<1>. DEFINE m == Frm("locate", c)
<1>1. /\ ClientSide(c) /\ answer'[c] = answer[c] /\ Put(c, m)
      /\ client[c].at = "start" /\ client'[c].at = "locating"
  BY LocateDoes DEF Put
<1>2. m \in Frame /\ m.of = c /\ m.kind = "locate"
  BY FrameIs DEF Kind
<1>. HIDE DEF m
<1>3. /\ Formed(c)' /\ Offer(c)'
      /\ Number(rfifo[c], c, Calls)' = Number(rfifo[c], c, Calls) + 1
      /\ Number(rfifo[c], c, Proxies)' = Number(rfifo[c], c, Proxies) + 0
      /\ Before(rfifo[c], c, Proxies, Calls) => Before(rfifo[c], c, Proxies, Calls)'
  BY ONLY <1>1, <1>2, Types, Orderly, PutIs DEF Posts, Calls, Proxies
<1>4. OneOut(c) /\ Amount(c)
  BY Amounts DEF Orderly, Conduit
<1>5. Len(answer[c]) = 0 /\ answer[c] = <<>>
  BY <1>1, <1>4 DEF OneOut
<1>6. OneOut(c)'
  <2>1. /\ (Goes(c)' <=> Goes(c)) /\ (Early(c)' <=> Early(c)) /\ (Good(c)' <=> Good(c))
        /\ (Runs(c)' <=> Runs(c)) /\ Held(c)' = Held(c) /\ r' = r
    BY ONLY <1>1, RStill
  <2>2. Number(rfifo[c], c, Calls) \in Nat /\ Number(rfifo[c], c, Proxies) \in Nat /\ Held(c) \in {0, 1}
    BY ONLY <1>4 DEF Amount
  <2>. QED  BY ONLY <1>1, <1>3, <1>4, <1>5, <2>1, <2>2 DEF OneOut
<1>7. Current(c)' /\ Right(c)'
  BY ONLY <1>1 DEF Current, Right
<1>. QED  BY ONLY <1>1, <1>3, <1>6, <1>7, Types, Orderly, ClientRest

\* When a client is idle, nothing of its Sends is left in a conduit that is up.
LEMMA Idle ==
  ASSUME Types, Orderly, NEW c \in Client, client[c].at = "idle", Good(c)
  PROVE  /\ \A n : /\ AllOwn(rfifo[c], c, Calls, n) /\ Own(r[c].out, c, n)
                   /\ AllOwn(line["A"], c, Words, n) /\ Own(reader["B"], c, n)
                   /\ Serving(c, n) /\ Going(c, n)
<1>1. OneOut(c) /\ Transit(c) /\ Amount(c)
  BY Amounts DEF Orderly, Conduit
<1>2. Runs(c)
  BY DEF Runs, Good, Goes
<1>3. Number(rfifo[c], c, Calls) = 0 /\ Held(c) = 0
  BY ONLY <1>1, <1>2, client[c].at = "idle" DEF OneOut
<1>4. Down(c, Words) = 0 /\ Far(c) = 0
  <2>1. Down(c, Words) \in Nat /\ Far(c) \in Nat /\ Down(c, Words) + Far(c) <= 0
    BY ONLY <1>1, <1>3, Good(c) DEF Transit, Amount
  <2>. QED  BY ONLY <2>1
<1>5. Up(c, Words) = 0 /\ Served(c) = 0
  BY ONLY <1>1, <1>4 DEF Far, Amount
<1>6. \A m, K : Is(m, c, K) \in {0, 1} /\ (Is(m, c, K) = 1 <=> Of(m, c, K))
  BY IsNat
<1>7. /\ Is(r[c].out, c, Words) = 0 /\ Number(line["A"], c, Words) = 0
      /\ Is(reader["B"], c, Words) = 0
  <2>1. Number(line["A"], c, Words) \in Nat
    BY <1>1 DEF Amount
  <2>. QED  BY ONLY <1>4, <1>6, <2>1 DEF Down
<1>8. /\ Is(Seg(c), c, Words) = 0 /\ Number(line["B"], c, Words) = 0
      /\ Is(reader["A"], c, Words) = 0
  <2>1. Number(line["B"], c, Words) \in Nat
    BY <1>1 DEF Amount
  <2>. QED  BY ONLY <1>5, <1>6, <2>1 DEF Up
<1>9. /\ Number(vfifo, c, Words) = 0 /\ Is(taken, c, Words) = 0
      /\ s[c].at = "up" => yfifo[c] = <<>>
  <2>1. /\ Number(vfifo, c, Words) \in Nat /\ Len(yfifo[c]) \in Nat
        /\ yfifo[c] \in Seq(BOOLEAN)
    BY <1>1 DEF Amount, Types
  <2>2. s[c].at = "up" => ~ Sends(c)
    BY DEF Sends
  <2>3. /\ Number(vfifo, c, Words) = 0 /\ Is(taken, c, Words) = 0
        /\ s[c].at = "up" => Len(yfifo[c]) = 0
    BY ONLY <1>5, <1>6, <2>1, <2>2 DEF Served
  <2>. QED  BY <2>1, <2>3
<1>10. /\ rfifo[c] \in Seq(Frame) /\ line["A"] \in Seq(Frame) /\ line["B"] \in Seq(Frame)
  BY DEF Types, Host
<1>11. \A n : /\ AllOwn(rfifo[c], c, Calls, n) /\ AllOwn(line["A"], c, Words, n)
              /\ AllOwn(line["B"], c, Words, n)
  BY ONLY <1>3, <1>7, <1>8, <1>10, Nothing
<1>12. \A n : /\ Own(r[c].out, c, n) /\ Own(reader["B"], c, n) /\ Own(Seg(c), c, n)
              /\ Own(reader["A"], c, n) /\ Own(taken, c, n)
  BY ONLY <1>6, <1>7, <1>8, <1>9 DEF Own
<1>13. ASSUME NEW n PROVE Serving(c, n) /\ Going(c, n)
  <2>1. Number(vfifo, c, Words) = 0 /\ Is(taken, c, Words) # 1 /\ Own(taken, c, n)
    BY ONLY <1>9, <1>12
  <2>2. ~ (s[c].at = "up" /\ yfifo[c] # <<>> /\ Head(yfifo[c]))
    BY ONLY <1>9
  <2>3. Serving(c, n)
    BY ONLY <2>1, <2>2 DEF Serving
  <2>4. Own(Seg(c), c, n) /\ AllOwn(line["B"], c, Words, n) /\ Own(reader["A"], c, n)
    BY ONLY <1>11, <1>12
  <2>5. Going(c, n)
    BY ONLY <1>5, <2>4 DEF Going
  <2>. QED  BY ONLY <2>3, <2>5
<1>. QED  BY ONLY <1>11, <1>12, <1>13

\* It sends, and has one request out.
LEMMA ClientSendOrderly ==
  ASSUME Types, Orderly, NEW c \in Client, ClientSend(c) PROVE Orderly'
<1>1. /\ ClientSide(c) /\ answer'[c] = answer[c] /\ client[c].at = "idle"
      /\ client'[c].asked = client[c].asked + 1
      /\ \/ /\ client'[c].at = "sending"
            /\ rfifo'[c] = Append(rfifo[c], [kind |-> "send", of |-> c, n |-> client'[c].asked])
         \/ client'[c].at = "idle" /\ rfifo'[c] = rfifo[c]
  BY ClientSendDoes
<1>2. /\ OneOut(c) /\ Amount(c) /\ OneOut(c)
      /\ (Goes(c)' <=> Goes(c)) /\ (Early(c)' <=> Early(c)) /\ (Good(c)' <=> Good(c))
      /\ (Runs(c)' <=> Runs(c)) /\ Held(c)' = Held(c) /\ r' = r
  BY <1>1, Amounts, RStill DEF Orderly, Conduit
<1>3. Len(answer[c]) = 0 /\ answer[c] = <<>>
  BY <1>1, <1>2 DEF OneOut
<1>4. Right(c)'
  BY ONLY <1>1, <1>3 DEF Right
<1>5. CASE client'[c].at = "idle" /\ rfifo'[c] = rfifo[c]
  <2>1. Current(c)'
    BY ONLY <1>5 DEF Current
  <2>2. OneOut(c)'
    BY ONLY <1>1, <1>2, <1>5 DEF OneOut
  <2>3. Formed(c)' /\ Offer(c)'
    BY ONLY <1>1, <1>5, Orderly, NoPut
  <2>. QED  BY ONLY <1>1, <1>4, <2>1, <2>2, <2>3, Types, Orderly, ClientRest
<1>6. CASE /\ client'[c].at = "sending"
           /\ rfifo'[c] = Append(rfifo[c], [kind |-> "send", of |-> c, n |-> client'[c].asked])
  <2>1. PICK n \in Nat : n = client[c].asked + 1
    BY LineAssumption DEF Types, ClientType
  <2>. DEFINE m == [kind |-> "send", of |-> c, n |-> n]
  <2>2. /\ m \in Frame /\ m.of = c /\ m.kind = "send" /\ m.n = n /\ Put(c, m)
        /\ client'[c].asked = n
    BY <1>1, <1>6, <2>1, FrameIs DEF Kind, Put
  <2>. HIDE DEF m
  <2>3. /\ Formed(c)' /\ Offer(c)'
        /\ Number(rfifo[c], c, Calls)' = Number(rfifo[c], c, Calls) + 1
        /\ Number(rfifo[c], c, Proxies)' = Number(rfifo[c], c, Proxies) + 0
        /\ Before(rfifo[c], c, Proxies, Calls) => Before(rfifo[c], c, Proxies, Calls)'
        /\ AllOwn(rfifo[c], c, Calls, n) => AllOwn(rfifo[c], c, Calls, n)'
    BY ONLY <1>1, <2>2, Types, Orderly, PutIs DEF Posts, Calls, Proxies
  <2>4. OneOut(c)'
    <3>1. Number(rfifo[c], c, Calls) \in Nat /\ Number(rfifo[c], c, Proxies) \in Nat /\ Held(c) \in {0, 1}
      BY ONLY <1>2 DEF Amount
    <3>2. ASSUME Runs(c) PROVE /\ Number(rfifo[c], c, Calls) = 0 /\ Held(c) = 0
                               /\ Before(rfifo[c], c, Proxies, Calls)
      BY ONLY <1>1, <1>2, <3>2 DEF OneOut
    <3>3. Len(answer'[c]) = 0 /\ answer'[c] = <<>>
      BY ONLY <1>1, <1>3
    <3>4. ASSUME Runs(c)
          PROVE  /\ Number(rfifo[c], c, Calls)' = 1 /\ Held(c)' = 0
                 /\ Before(rfifo[c], c, Proxies, Calls)'
      BY ONLY <1>2, <2>3, <3>2, <3>4
    <3>5. ~ Early(c) /\ r[c].at # "hung" /\ (r[c].at = "attached" => Held(c) = 0)
      BY ONLY <1>1, <1>2 DEF OneOut
    <3>. QED  BY ONLY <1>2, <1>6, <3>3, <3>4, <3>5 DEF OneOut
  <2>5. ASSUME Good(c) PROVE Coming(c, n)' /\ Serving(c, n)' /\ Going(c, n)'
    <3>1. /\ AllOwn(rfifo[c], c, Calls, n) /\ Own(r[c].out, c, n)
          /\ AllOwn(line["A"], c, Words, n) /\ Own(reader["B"], c, n)
          /\ Serving(c, n) /\ Going(c, n)
      BY ONLY <1>1, <2>5, Types, Orderly, Idle
    <3>2. UNCHANGED <<r, s, seg, yfifo, line, reader, vfifo, taken, got>>
      BY <1>1 DEF ClientSide, sVars, wires, vVars
    <3>3. Coming(c, n)'
      BY ONLY <2>3, <3>1, <3>2 DEF Coming
    <3>4. Serving(c, n)' /\ Going(c, n)'
      BY ONLY <3>1, <3>2 DEF Serving, Going, Known, Seg, Sends, Up
    <3>. QED  BY <3>3, <3>4
  <2>6. Current(c)'
    BY ONLY <1>2, <2>2, <2>5 DEF Current
  <2>. QED  BY ONLY <1>1, <1>4, <2>3, <2>4, <2>6, Types, Orderly, ClientRest
<1>. QED  BY ONLY <1>1, <1>5, <1>6

\* It triggers the proxy.
LEMMA ClientTriggerOrderly ==
  ASSUME Types, Orderly, NEW c \in Client, ClientTrigger(c) PROVE Orderly'
<1>. DEFINE m == Frm("proxy", c)
<1>1. /\ ClientSide(c) /\ answer'[c] = answer[c] /\ Put(c, m)
      /\ client[c].at = "idle" /\ client'[c].at = "idle"
  BY ClientTriggerDoes DEF Put
<1>2. m \in Frame /\ m.of = c /\ m.kind = "proxy"
  BY FrameIs DEF Kind
<1>. HIDE DEF m
<1>3. /\ Formed(c)' /\ Offer(c)'
      /\ Number(rfifo[c], c, Calls)' = Number(rfifo[c], c, Calls) + 0
      /\ Before(rfifo[c], c, Proxies, Calls) /\ Number(rfifo[c], c, Calls) = 0
            => Before(rfifo[c], c, Proxies, Calls)'
  BY ONLY <1>1, <1>2, Types, Orderly, PutIs DEF Posts, Calls, Proxies
<1>4. OneOut(c) /\ Amount(c)
  BY Amounts DEF Orderly, Conduit
<1>6. OneOut(c)'
  <2>1. /\ (Goes(c)' <=> Goes(c)) /\ (Early(c)' <=> Early(c)) /\ (Good(c)' <=> Good(c))
        /\ (Runs(c)' <=> Runs(c)) /\ Held(c)' = Held(c) /\ r' = r
    BY ONLY <1>1, RStill
  <2>2. Number(rfifo[c], c, Calls) \in Nat
    BY ONLY <1>4 DEF Amount
  <2>. QED  BY ONLY <1>1, <1>3, <1>4, <2>1, <2>2 DEF OneOut
<1>7. Current(c)' /\ Right(c)'
  BY ONLY <1>1 DEF Current, Right
<1>. QED  BY ONLY <1>1, <1>3, <1>6, <1>7, Types, Orderly, ClientRest

\* It gets its answer, and has nothing out.
LEMMA ClientReturnOrderly ==
  ASSUME Types, Orderly, NEW c \in Client, ClientReturn(c) PROVE Orderly'
<1>1. /\ ClientSide(c) /\ client[c].at \in {"locating", "sending"} /\ answer[c] # <<>>
      /\ answer'[c] = Tail(answer[c]) /\ client'[c].at \in {"idle", "refused"}
      /\ rfifo'[c] = rfifo[c]
  BY ClientReturnDoes
<1>2. /\ OneOut(c) /\ Amount(c)
      /\ (Goes(c)' <=> Goes(c)) /\ (Early(c)' <=> Early(c)) /\ (Good(c)' <=> Good(c))
      /\ (Runs(c)' <=> Runs(c)) /\ Held(c)' = Held(c) /\ r' = r
  BY <1>1, Amounts, RStill DEF Orderly, Conduit
<1>3. Len(answer[c]) = 1 /\ answer'[c] = <<>> /\ Len(answer'[c]) = 0
  <2>1. answer[c] \in Seq(Frame) /\ Len(answer[c]) <= 1
    BY <1>2 DEF Types, OneOut
  <2>2. Len(answer[c]) \in Nat \ {0}
    BY ONLY <1>1, <2>1, Items
  <2>6. Len(answer[c]) <= 1
    BY <2>1
  <2>3. Len(answer[c]) = 1
    <3>1. PICK k \in Nat \ {0} : k = Len(answer[c])
      BY ONLY <2>2
    <3>2. k <= 1
      BY ONLY <2>6, <3>1
    <3>3. k = 1
      BY ONLY <3>2
    <3>. QED  BY ONLY <3>1, <3>3
  <2>4. Tail(answer[c]) \in Seq(Frame) /\ Len(Tail(answer[c])) = 0
    BY ONLY <1>1, <2>1, <2>3
  <2>5. Tail(answer[c]) = <<>>
    BY ONLY <2>4, Items
  <2>. QED  BY ONLY <1>1, <2>3, <2>4, <2>5
<1>4. OneOut(c)'
  <2>2. Number(rfifo[c], c, Calls) \in Nat /\ Held(c) \in {0, 1}
    BY ONLY <1>2 DEF Amount
  <2>3. ASSUME Runs(c) PROVE /\ Number(rfifo[c], c, Calls) = 0 /\ Held(c) = 0
                             /\ Before(rfifo[c], c, Proxies, Calls)
    <3>1. Number(rfifo[c], c, Calls) + Held(c) + Len(answer[c]) <= 1 /\ Before(rfifo[c], c, Proxies, Calls)
      BY ONLY <1>2, <2>3 DEF OneOut
    <3>. QED  BY ONLY <1>3, <2>2, <3>1
  <2>4. ~ Early(c) /\ r[c].at # "hung" /\ (r[c].at = "attached" => Held(c) = 0)
    BY ONLY <1>1, <1>2 DEF OneOut
  <2>5. ASSUME Runs(c)
        PROVE  /\ Number(rfifo[c], c, Calls)' = 0 /\ Held(c)' = 0
               /\ Before(rfifo[c], c, Proxies, Calls)'
    BY ONLY <1>1, <1>2, <2>3, <2>5 DEF Before
  <2>6. /\ (Early(c)' <=> Early(c)) /\ (Runs(c)' <=> Runs(c)) /\ Held(c)' = Held(c)
        /\ r'[c] = r[c] /\ client'[c].at \in {"idle", "refused"}
    BY ONLY <1>1, <1>2
  <2>. QED  BY ONLY <1>3, <2>4, <2>5, <2>6 DEF OneOut
<1>5. Current(c)' /\ Right(c)'
  BY ONLY <1>1 DEF Current, Right
<1>6. Formed(c)' /\ Offer(c)'
  BY ONLY <1>1, Orderly, NoPut
<1>. QED  BY ONLY <1>1, <1>4, <1>5, <1>6, Types, Orderly, ClientRest

\* It leaves.
LEMMA ClientLeavesOrderly ==
  ASSUME Types, Orderly, NEW c \in Client, ClientExit(c) \/ ClientRemove(c) \/ ClientKill(c)
  PROVE  Orderly'
<1>. DEFINE m == Frm("close", c)
<1>1. /\ ClientSide(c) /\ client'[c].at \in {"closing", "exited", "killed"}
      /\ answer'[c] = <<>> \/ (answer'[c] = answer[c] /\ client[c].at = "closing")
      /\ rfifo'[c] = rfifo[c] \/ Put(c, m)
  BY ClientLeavesDoes DEF Put
<1>2. m \in Frame /\ m.of = c /\ m.kind = "close"
  BY FrameIs DEF Kind
<1>. HIDE DEF m
<1>3. /\ Formed(c)' /\ Offer(c)' /\ Number(rfifo[c], c, Calls)' = Number(rfifo[c], c, Calls)
      /\ Number(rfifo[c], c, Proxies)' = Number(rfifo[c], c, Proxies)
      /\ Before(rfifo[c], c, Proxies, Calls) => Before(rfifo[c], c, Proxies, Calls)'
  <2>1. CASE rfifo'[c] = rfifo[c]
    BY ONLY <1>1, <2>1, Orderly, NoPut DEF Before
  <2>2. CASE Put(c, m)
    <3>1. Number(rfifo[c], c, Calls) \in Nat /\ Number(rfifo[c], c, Proxies) \in Nat
      BY Amounts DEF Amount
    <3>2. /\ Formed(c)' /\ Offer(c)' /\ Number(rfifo[c], c, Calls)' = Number(rfifo[c], c, Calls) + 0
          /\ Number(rfifo[c], c, Proxies)' = Number(rfifo[c], c, Proxies) + 0
          /\ Before(rfifo[c], c, Proxies, Calls) => Before(rfifo[c], c, Proxies, Calls)'
      BY ONLY <1>1, <1>2, <2>2, Types, Orderly, PutIs DEF Posts, Calls, Proxies
    <3>. QED  BY ONLY <3>1, <3>2
  <2>. QED  BY ONLY <1>1, <2>1, <2>2
<1>4. /\ OneOut(c) /\ Amount(c)
      /\ (Goes(c)' <=> Goes(c)) /\ (Early(c)' <=> Early(c)) /\ (Good(c)' <=> Good(c))
      /\ (Runs(c)' <=> Runs(c)) /\ Held(c)' = Held(c) /\ r' = r
  BY <1>1, Amounts, RStill DEF Orderly, Conduit
<1>5. answer'[c] = <<>> /\ Len(answer'[c]) = 0 /\ Len(answer[c]) \in Nat
  <2>1. answer'[c] = <<>>
    BY ONLY <1>1, <1>4 DEF OneOut
  <2>. QED  BY <1>4, <2>1 DEF Amount
<1>6. OneOut(c)'
  <2>2. Number(rfifo[c], c, Calls) \in Nat /\ Held(c) \in {0, 1}
    BY ONLY <1>4 DEF Amount
  <2>. QED  BY ONLY <1>1, <1>3, <1>4, <1>5, <2>2 DEF OneOut
<1>7. Current(c)' /\ Right(c)'
  BY ONLY <1>1 DEF Current, Right
<1>. QED  BY ONLY <1>1, <1>3, <1>6, <1>7, Types, Orderly, ClientRest

-----------------------------------------------------------------------------
(* The steps of surrogate_r.                                               *)

\* What surrogate_r leaves alone of its conduit.
LEMMA RLeaves ==
  ASSUME NEW c \in Client, RSide(c)
  PROVE  /\ UNCHANGED <<setup, client, s, seg, yfifo, line, lost, receiver, vfifo, taken, got>>
         /\ reader'["B"] = reader["B"] /\ Seg(c)' = Seg(c) /\ (Sends(c)' <=> Sends(c))
         /\ Forked(c)' = Forked(c) /\ Served(c)' = Served(c) /\ Near(c)' = Near(c) /\ At(c)' = At(c)
         /\ \A n : (Known(c, n)' <=> Known(c, n)) /\ (Serving(c, n)' <=> Serving(c, n))
         /\ \A K : /\ Down(c, K)' =
                         Is(r'[c].out, c, K) + Number(line["A"], c, K) + Is(reader["B"], c, K)
                   /\ Up(c, K)' =
                         Is(Seg(c), c, K) + Number(line["B"], c, K) + Is(reader'["A"], c, K)
<1>1. /\ UNCHANGED <<setup, client, s, seg, yfifo, line, lost, receiver, vfifo, taken, got>>
      /\ reader'["B"] = reader["B"]
  BY DEF RSide, sVars, vVars
<1>2. /\ Seg(c)' = Seg(c) /\ (Sends(c)' <=> Sends(c)) /\ Forked(c)' = Forked(c)
      /\ Near(c)' = Near(c) /\ At(c)' = At(c)
  BY ONLY <1>1 DEF Seg, Sends, Forked, Near, At
<1>3. Served(c)' = Served(c)
  BY ONLY <1>1, <1>2 DEF Served
<1>4. \A n : (Known(c, n)' <=> Known(c, n)) /\ (Serving(c, n)' <=> Serving(c, n))
  BY ONLY <1>1 DEF Known, Serving
<1>5. ASSUME NEW K
      PROVE  /\ Down(c, K)' =
                   Is(r'[c].out, c, K) + Number(line["A"], c, K) + Is(reader["B"], c, K)
             /\ Up(c, K)' = Is(Seg(c), c, K) + Number(line["B"], c, K) + Is(reader'["A"], c, K)
  BY ONLY <1>1, <1>2 DEF Down, Up
<1>. QED  BY ONLY <1>1, <1>2, <1>3, <1>4, <1>5

\* It reaches its own conduit only, in its order on the line.
Line(c) ==
    /\ reader'["A"] = reader["A"] \/ (reader'["A"] = NoFrame /\ (None(reader["A"]) \/ reader["A"].of = c))
    /\ \/ writer' = writer /\ r'[c].out = r[c].out
       \/ /\ writer'["A"] = Append(writer["A"], c) /\ None(r[c].out) /\ ~ None(r'[c].out)
          /\ writer'["B"] = writer["B"]

\* So the rest of the invariant holds after its step.
LEMMA RRest ==
  ASSUME Types, Orderly, NEW c \in Client, RSide(c), Line(c), Conduit(c)'
  PROVE  Orderly'
<1>1. /\ UNCHANGED <<setup, client, s, seg, yfifo, line, lost, receiver, vfifo, taken, got>>
      /\ reader'["B"] = reader["B"] /\ Elsewhere(c) /\ None(NoFrame)
  BY RLeaves, FrameIs DEF RSide
<1>2. Kinds'
  <2>1. Kinds
    BY DEF Orderly
  <2>2. reader'["A"] = reader["A"] \/ reader'["A"] = NoFrame
    BY DEF Line
  <2>3. None(reader'["A"]) \/ reader'["A"].kind \in Ups
    BY ONLY <1>1, <2>1, <2>2 DEF Kinds
  <2>. QED  BY ONLY <1>1, <2>1, <2>3 DEF Kinds
<1>3. Writers'
  <2>1. /\ \A i \in DOMAIN writer["A"] : ~ None(r[writer["A"][i]].out)
        /\ \A i \in DOMAIN writer["B"] : Sends(writer["B"][i]) /\ yfifo[writer["B"][i]] = <<>>
        /\ Distinct(writer["A"]) /\ Distinct(writer["B"])
    BY DEF Orderly, Writers
  <2>2. writer["A"] \in Seq(Client) /\ writer["B"] \in Seq(Client)
    BY DEF Types, Host
  <2>3. \A d \in Client \ {c} : r'[d] = r[d]
    BY <1>1 DEF Elsewhere
  <2>4. writer'["B"] = writer["B"]
    BY DEF Line
  <2>5. /\ \A i \in DOMAIN writer'["B"] :
               s'[writer'["B"][i]].at = "sending" /\ yfifo'[writer'["B"][i]] = <<>>
        /\ Distinct(writer'["B"])
    BY ONLY <1>1, <2>1, <2>4 DEF Sends
  <2>6. /\ \A i \in DOMAIN writer'["A"] : ~ None(r'[writer'["A"][i]].out)
        /\ Distinct(writer'["A"])
    <3>1. CASE writer' = writer /\ r'[c].out = r[c].out
      <4>1. \A d \in Client : r'[d].out = r[d].out
        BY ONLY <2>3, <3>1
      <4>2. \A i \in DOMAIN writer["A"] : writer["A"][i] \in Client
        BY <2>2
      <4>. QED  BY ONLY <2>1, <3>1, <4>1, <4>2
    <3>2. CASE writer'["A"] = Append(writer["A"], c) /\ None(r[c].out) /\ ~ None(r'[c].out)
      <4>. DEFINE q == writer["A"]
                  p == writer'["A"]
      <4>1. /\ DOMAIN q = 1..Len(q) /\ DOMAIN p = 1..(Len(q) + 1) /\ Len(q) \in Nat
            /\ p[Len(q) + 1] = c /\ \A i \in 1..Len(q) : p[i] = q[i] /\ q[i] \in Client
        BY <2>2, <3>2, Items
      <4>2. \A i \in DOMAIN q : q[i] # c
        BY <2>1, <3>2
      <4>3. \A i \in DOMAIN q : ~ None(r'[q[i]].out)
        BY <2>1, <2>3, <4>1, <4>2
      <4>4. Distinct(q)
        BY <2>1
      <4>. HIDE DEF p, q
      <4>5. \A i \in DOMAIN p : i \in DOMAIN q \/ i = Len(q) + 1
        BY ONLY <4>1
      <4>6. \A i \in DOMAIN p : ~ None(r'[p[i]].out)
        BY ONLY <4>1, <4>3, <4>5, <3>2
      <4>7. Distinct(p)
        BY ONLY <4>1, <4>2, <4>4, <4>5 DEF Distinct
      <4>. QED  BY <4>6, <4>7 DEF p
    <3>. QED  BY <3>1, <3>2 DEF Line
  <2>. QED  BY ONLY <2>5, <2>6 DEF Writers, Sends
<1>4. ASSUME NEW d \in Client \ {c} PROVE Conduit(d)'
  <2>1. /\ \A q \in Seq(Frame) : LikeQ(q, q, d)
        /\ \A m : LikeM(m, m, d)
    BY LikeIs DEF LikeM
  <2>2. line["A"] \in Seq(Frame) /\ line["B"] \in Seq(Frame) /\ vfifo \in Seq(Frame)
    BY DEF Types, Host
  <2>3. LikeM(reader["A"], reader'["A"], d)
    <3>1. CASE reader'["A"] = reader["A"]
      BY ONLY <2>1, <3>1
    <3>2. CASE reader'["A"] = NoFrame /\ (None(reader["A"]) \/ reader["A"].of = c)
      BY ONLY <1>1, <3>2, LikeMIs, d \in Client \ {c}
    <3>. QED  BY <3>1, <3>2 DEF Line
  <2>4. Shared(d)
    BY ONLY <1>1, <2>1, <2>2, <2>3 DEF Shared
  <2>. QED  BY <1>1, <2>4, Bystander DEF Orderly
<1>. QED  BY ONLY <1>2, <1>3, <1>4, Conduit(c)' DEF Orderly

\* A message taken from its fifo.
LEMMA TookIs ==
  ASSUME Types, Orderly, NEW c \in Client, RSide(c), NEW k, Took(c, k),
         k # "remote" => reader' = reader, k = "remote" => reader'["A"] = NoFrame
  PROVE  /\ k \in Posts /\ Offer(c)'
         /\ \A i \in DOMAIN rfifo'[c] : rfifo'[c][i].of = c /\ rfifo'[c][i].kind \in Posts
         /\ \A K : /\ Number(rfifo'[c], c, K) \in Nat
                   /\ Number(rfifo[c], c, K) = (IF k \in K THEN 1 ELSE 0) + Number(rfifo'[c], c, K)
         /\ \A K, n : AllOwn(rfifo[c], c, K, n) =>
                         AllOwn(rfifo'[c], c, K, n) /\ (k \in K => Head(rfifo[c]).n = n)
         /\ \A K, L : Before(rfifo[c], c, K, L) =>
                         /\ Before(rfifo'[c], c, K, L)
                         /\ k \in L => Number(rfifo'[c], c, K) = 0
         /\ Head(rfifo[c]).of = c /\ ~ None(Head(rfifo[c]))
         /\ k = "remote" => /\ reader["A"].of = c /\ reader["A"].kind \in Ups /\ ~ None(reader["A"])
                            /\ reader'["A"] = NoFrame
         /\ k # "remote" => reader' = reader
<1>. DEFINE q == rfifo[c]
            p == rfifo'[c]
            m == Head(rfifo[c])
<1>1. /\ q \in Seq(Frame) /\ q # <<>> /\ m.kind = k /\ m \in Frame /\ p = Tail(q)
      /\ Formed(c) /\ Offer(c)
  BY DEF Types, Took, Orderly, Conduit
<1>2. /\ DOMAIN q = 1..Len(q) /\ Len(q) \in Nat \ {0} /\ p \in Seq(Frame)
      /\ DOMAIN p = 1..(Len(q) - 1) /\ m = q[1] /\ \A i \in 1..(Len(q) - 1) : p[i] = q[i + 1]
  BY <1>1, Items
<1>3. \A i \in DOMAIN q : q[i].of = c /\ q[i].kind \in Posts
  BY <1>1 DEF Formed
<1>4. m.of = c /\ k \in Posts /\ ~ None(m)
  <2>1. 1 \in DOMAIN q
    BY <1>2
  <2>. QED  BY ONLY <1>1, <1>2, <1>3, <2>1 DEF None, Posts
<1>5. \A K : /\ Number(p, c, K) \in Nat
             /\ Number(q, c, K) = (IF k \in K THEN 1 ELSE 0) + Number(p, c, K)
  <2>. HIDE DEF q, p, m
  <2>1. ASSUME NEW K PROVE Is(m, c, K) = IF k \in K THEN 1 ELSE 0
    BY ONLY <1>1, <1>4, IsNat
  <2>2. ASSUME NEW K
        PROVE  Number(p, c, K) \in Nat /\ Number(q, c, K) = Is(Head(q), c, K) + Number(p, c, K)
    BY ONLY <1>1, <1>2, NumberNat, NumberTail
  <2>3. Head(q) = m
    BY DEF q, m
  <2>. QED  BY ONLY <2>1, <2>2, <2>3
<1>6. \A i \in DOMAIN p : p[i].of = c /\ p[i].kind \in Posts
  <2>1. \A i \in DOMAIN p : i + 1 \in DOMAIN q /\ p[i] = q[i + 1]
    BY <1>2
  <2>. HIDE DEF q, p, m
  <2>. QED  BY ONLY <1>3, <2>1
<1>7. Is(NoFrame, c, Ups) = 0 /\ Is(reader["A"], c, Ups) \in {0, 1}
      /\ (Is(reader["A"], c, Ups) = 1 <=> Of(reader["A"], c, Ups))
  BY FrameIs, IsNat
<1>8. Number(q, c, Remotes) = Is(reader["A"], c, Ups)
  BY <1>1 DEF Offer
<1>9. ASSUME k = "remote"
      PROVE  /\ Offer(c)' /\ reader["A"].of = c /\ reader["A"].kind \in Ups
             /\ ~ None(reader["A"]) /\ reader'["A"] = NoFrame
  <2>1. Number(p, c, Remotes) = 0 /\ Of(reader["A"], c, Ups)
    <3>1. Number(p, c, Remotes) \in Nat /\ Number(q, c, Remotes) = 1 + Number(p, c, Remotes)
      BY ONLY <1>5, <1>9 DEF Remotes
    <3>. QED  BY ONLY <1>7, <1>8, <3>1
  <2>. QED  BY ONLY <2>1, <1>7, <1>9, k = "remote" => reader'["A"] = NoFrame DEF Offer, Of
<1>10. ASSUME k # "remote" PROVE Offer(c)' /\ reader' = reader
  <2>1. Number(p, c, Remotes) = Is(reader["A"], c, Ups)
    <3>1. Number(p, c, Remotes) \in Nat /\ Number(q, c, Remotes) = 0 + Number(p, c, Remotes)
      BY ONLY <1>5, <1>10 DEF Remotes
    <3>. QED  BY ONLY <1>8, <3>1
  <2>. QED  BY ONLY <2>1, <1>10, k # "remote" => reader' = reader DEF Offer
<1>11. /\ \A K, n : AllOwn(q, c, K, n) => AllOwn(p, c, K, n) /\ (k \in K => m.n = n)
       /\ \A K, L : Before(q, c, K, L) =>
                       Before(p, c, K, L) /\ (k \in L => Number(p, c, K) = 0)
  <2>1. /\ \A K, n : AllOwn(q, c, K, n) =>
               AllOwn(p, c, K, n) /\ (Of(m, c, K) => m.n = n)
        /\ \A K, L : Before(q, c, K, L) =>
               /\ Before(p, c, K, L)
               /\ Is(m, c, L) = 1 => Number(p, c, K) = 0
    BY ONLY <1>1, Removed
  <2>2. \A K : k \in K => Of(m, c, K) /\ Is(m, c, K) = 1
    BY ONLY <1>1, <1>4 DEF Of, Is
  <2>. HIDE DEF q, p, m
  <2>. QED  BY ONLY <2>1, <2>2
<1>12. /\ Offer(c)'
       /\ k = "remote" => /\ reader["A"].of = c /\ reader["A"].kind \in Ups /\ ~ None(reader["A"])
                          /\ reader'["A"] = NoFrame
       /\ k # "remote" => reader' = reader
  BY <1>9, <1>10
<1>. HIDE DEF q, p, m
<1>13. Head(rfifo[c]).of = c /\ ~ None(Head(rfifo[c])) /\ k \in Posts
  BY ONLY <1>4 DEF m
<1>. QED  BY <1>5, <1>6, <1>11, <1>12, <1>13 DEF q, p, m

\* It has taken a message from its fifo, or none.
Pulled(c) ==
    \/ rfifo'[c] = rfifo[c] /\ reader' = reader
    \/ \E k \in Posts : Took(c, k) /\ (IF k = "remote" THEN reader'["A"] = NoFrame ELSE reader' = reader)

\* What it takes from its fifo leaves the rest of the fifo in order.
LEMMA PulledIs ==
  ASSUME Types, Orderly, NEW c \in Client, RSide(c), Pulled(c)
  PROVE  /\ Offer(c)'
         /\ \A i \in DOMAIN rfifo'[c] : rfifo'[c][i].of = c /\ rfifo'[c][i].kind \in Posts
         /\ reader'["A"] = reader["A"] \/ (reader'["A"] = NoFrame /\ reader["A"].of = c)
         /\ \A K : Up(c, K)' <= Up(c, K) /\ Up(c, K)' \in Nat
<1>1. /\ reader'["A"] = reader["A"] \/ (reader'["A"] = NoFrame /\ reader["A"].of = c)
      /\ Offer(c)'
      /\ \A i \in DOMAIN rfifo'[c] : rfifo'[c][i].of = c /\ rfifo'[c][i].kind \in Posts
  <2>1. CASE rfifo'[c] = rfifo[c] /\ reader' = reader
    <3>1. Offer(c) /\ Formed(c)
      BY DEF Orderly, Conduit
    <3>. QED  BY ONLY <2>1, <3>1 DEF Offer, Formed
  <2>2. CASE \E k \in Posts : Took(c, k) /\ (IF k = "remote" THEN reader'["A"] = NoFrame ELSE reader' = reader)
    <3>1. PICK k \in Posts : /\ Took(c, k)
                            /\ IF k = "remote" THEN reader'["A"] = NoFrame ELSE reader' = reader
      BY ONLY <2>2
    <3>2. /\ Offer(c)'
          /\ \A i \in DOMAIN rfifo'[c] : rfifo'[c][i].of = c /\ rfifo'[c][i].kind \in Posts
          /\ k = "remote" => reader["A"].of = c /\ reader'["A"] = NoFrame
          /\ k # "remote" => reader' = reader
      BY <3>1, TookIs
    <3>. QED  BY ONLY <3>2
  <2>. QED  BY ONLY <2>1, <2>2, Pulled(c) DEF Pulled
<1>2. ASSUME NEW K PROVE Up(c, K)' <= Up(c, K) /\ Up(c, K)' \in Nat
  <2>1. Number(line["B"], c, K) \in Nat
    BY Amounts DEF Amount
  <2>2. /\ Is(NoFrame, c, K) = 0 /\ Is(reader["A"], c, K) \in {0, 1} /\ Is(Seg(c), c, K) \in {0, 1}
    BY FrameIs, IsNat
  <2>3. Is(reader'["A"], c, K) = Is(reader["A"], c, K) \/ Is(reader'["A"], c, K) = 0
    BY ONLY <1>1, <2>2
  <2>4. Up(c, K)' = Is(Seg(c), c, K) + Number(line["B"], c, K) + Is(reader'["A"], c, K)
    BY RLeaves
  <2>5. Up(c, K) = Is(Seg(c), c, K) + Number(line["B"], c, K) + Is(reader["A"], c, K)
    BY DEF Up
  <2>. QED  BY ONLY <2>1, <2>2, <2>3, <2>4, <2>5
<1>. QED  BY ONLY <1>1, <1>2

\* A message that is no call leaves the calls and their order.
LEMMA NotCalled ==
  ASSUME Types, Orderly, NEW c \in Client, RSide(c), reader' = reader \/ reader'["A"] = NoFrame,
         \/ rfifo'[c] = rfifo[c]
         \/ \E k \in {"proxy", "close"} : Took(c, k) /\ reader' = reader
         \/ Took(c, "remote") /\ reader'["A"] = NoFrame
  PROVE  /\ Number(rfifo[c], c, Calls)' = Number(rfifo[c], c, Calls)
         /\ Number(rfifo[c], c, Proxies) = 0 => Number(rfifo[c], c, Proxies)' = 0
         /\ Before(rfifo[c], c, Proxies, Calls) => Before(rfifo[c], c, Proxies, Calls)'
         /\ \A n : AllOwn(rfifo[c], c, Calls, n) => AllOwn(rfifo[c], c, Calls, n)'
<1>1. CASE rfifo'[c] = rfifo[c]
  BY ONLY <1>1
<1>2. CASE rfifo'[c] # rfifo[c]
  <2>1. PICK k \in {"proxy", "close", "remote"} :
                /\ Took(c, k) /\ (k # "remote" => reader' = reader)
                /\ (k = "remote" => reader'["A"] = NoFrame)
    BY <1>2
  <2>2. k \notin Calls
    BY ONLY <2>1 DEF Calls
  <2>3. /\ \A K : /\ Number(rfifo'[c], c, K) \in Nat
                  /\ Number(rfifo[c], c, K) = (IF k \in K THEN 1 ELSE 0) + Number(rfifo'[c], c, K)
        /\ \A n : AllOwn(rfifo[c], c, Calls, n) => AllOwn(rfifo'[c], c, Calls, n)
        /\ Before(rfifo[c], c, Proxies, Calls) => Before(rfifo'[c], c, Proxies, Calls)
    BY ONLY <2>1, Types, Orderly, RSide(c), TookIs
  <2>4. Number(rfifo'[c], c, Calls) = Number(rfifo[c], c, Calls)
    BY ONLY <2>2, <2>3
  <2>5. Number(rfifo[c], c, Proxies) = 0 => Number(rfifo'[c], c, Proxies) = 0
    BY ONLY <2>3
  <2>. QED  BY ONLY <2>3, <2>4, <2>5
<1>. QED  BY ONLY <1>1, <1>2

\* It ends or hangs, with an answer to its client or without one.
LEMMA RStops ==
  ASSUME Types, Orderly, NEW c \in Client, RSide(c), Pulled(c), writer' = writer,
         r'[c].at \in {"faulted", "gone", "hung"}, r'[c].out = r[c].out, None(r[c].out),
         \/ /\ answer'[c] = answer[c]
            /\ r'[c].at = "hung" => client[c].at \in {"closing", "killed"}
         \/ /\ Held(c) = 1 /\ Runs(c) /\ client[c].at \in {"locating", "sending"}
            /\ r'[c].at # "hung"
            /\ \E m \in Frame : answer'[c] = Append(answer[c], m) /\ m.kind # "reply"
  PROVE  Orderly'
<1>1. /\ UNCHANGED <<setup, client, s, seg, yfifo, line, lost, receiver, vfifo, taken, got>>
      /\ reader'["B"] = reader["B"] /\ Seg(c)' = Seg(c) /\ (Sends(c)' <=> Sends(c))
      /\ Forked(c)' = Forked(c) /\ Served(c)' = Served(c) /\ Near(c)' = Near(c) /\ At(c)' = At(c)
      /\ \A n : Known(c, n)' <=> Known(c, n)
  BY RLeaves
<1>2. /\ Offer(c)'
      /\ \A i \in DOMAIN rfifo'[c] : rfifo'[c][i].of = c /\ rfifo'[c][i].kind \in Posts
      /\ reader'["A"] = reader["A"] \/ (reader'["A"] = NoFrame /\ reader["A"].of = c)
      /\ \A K : Up(c, K)' <= Up(c, K) /\ Up(c, K)' \in Nat
  BY PulledIs
<1>3. ~ Goes(c)' /\ ~ Early(c)' /\ ~ Good(c)' /\ ~ Runs(c)' /\ r'[c].at # "attached"
  BY DEF Goes, Early, Good, Runs
<1>4. Conduit(c) /\ Amount(c)
  BY Amounts DEF Orderly
<1>5. \A K : Down(c, K)' = Down(c, K) /\ Down(c, K) \in Nat /\ Up(c, K) \in Nat
  <2>1. \A K : Is(r'[c].out, c, K) = Is(r[c].out, c, K)
    OBVIOUS
  <2>2. \A K : Down(c, K)' =
                  Is(r'[c].out, c, K) + Number(line["A"], c, K) + Is(reader["B"], c, K)
    BY RLeaves
  <2>. QED  BY ONLY <2>1, <2>2, <1>4 DEF Down, Amount
<1>6. Formed(c)'
  <2>1. Formed(c)
    BY <1>4 DEF Conduit
  <2>2. None(r'[c].out)
    OBVIOUS
  <2>. QED  BY ONLY <1>1, <1>2, <2>1, <2>2 DEF Formed
<1>7. OneOut(c)'
  <2>1. OneOut(c) /\ answer[c] \in Seq(Frame)
    BY <1>4 DEF Conduit, Types
  <2>2. CASE /\ answer'[c] = answer[c]
             /\ r'[c].at = "hung" => client[c].at \in {"closing", "killed"}
    BY ONLY <1>1, <1>3, <2>1, <2>2 DEF OneOut
  <2>3. CASE /\ Held(c) = 1 /\ Runs(c) /\ client[c].at \in {"locating", "sending"}
             /\ r'[c].at # "hung"
             /\ \E m \in Frame : answer'[c] = Append(answer[c], m) /\ m.kind # "reply"
    <3>1. Len(answer[c]) \in Nat /\ Number(rfifo[c], c, Calls) \in Nat
      BY ONLY <1>4 DEF Amount
    <3>2. Number(rfifo[c], c, Calls) + Held(c) + Len(answer[c]) <= 1
      BY ONLY <2>1, <2>3 DEF OneOut
    <3>3. Len(answer[c]) = 0
      BY ONLY <2>3, <3>1, <3>2
    <3>4. Len(answer'[c]) = Len(answer[c]) + 1
      BY ONLY <2>1, <2>3
    <3>5. Len(answer'[c]) = 1
      BY ONLY <3>3, <3>4
    <3>. QED  BY ONLY <1>1, <1>3, <2>3, <3>5 DEF OneOut
  <2>. QED  BY <2>2, <2>3
<1>8. LookUp(c)'
  <2>1. LookUp(c)
    BY <1>4 DEF Conduit
  <2>2. Forked(c) \in {0, 1}
    BY ONLY <1>4 DEF Amount
  <2>3. /\ Down(c, Looks)' = Down(c, Looks) /\ Up(c, Looks)' <= Up(c, Looks)
        /\ Down(c, Looks) \in Nat /\ Up(c, Looks) \in Nat /\ Up(c, Looks)' \in Nat
        /\ Down(c, Locates)' = Down(c, Locates)
    BY ONLY <1>2, <1>5
  <2>4. Down(c, Looks)' + Up(c, Looks)' + Forked(c)' <= 1
    BY ONLY <1>1, <2>1, <2>2, <2>3 DEF LookUp
  <2>5. s'[c].at = "none" => Up(c, Looks)' = 0
    BY ONLY <1>1, <2>1, <2>3 DEF LookUp
  <2>. QED  BY ONLY <1>1, <1>3, <2>1, <2>3, <2>4, <2>5 DEF LookUp
<1>9. Far(c)' <= Far(c) /\ Far(c)' \in Nat /\ Far(c) \in Nat
  <2>1. /\ Up(c, Words)' <= Up(c, Words) /\ Up(c, Words)' \in Nat /\ Up(c, Words) \in Nat
        /\ Served(c) \in Nat
    BY ONLY <1>2, <1>4 DEF Amount
  <2>. QED  BY ONLY <1>1, <2>1 DEF Far
<1>10. Transit(c)'
  <2>1. Transit(c) /\ Down(c, Words)' = Down(c, Words) /\ Down(c, Words) \in Nat
    BY <1>4, <1>5 DEF Conduit
  <2>2. Down(c, Words)' + Far(c)' <= 1
    BY ONLY <1>9, <2>1 DEF Transit
  <2>. QED  BY ONLY <1>1, <1>3, <2>1, <2>2 DEF Transit
<1>11. InTurn(c)'
  <2>1. InTurn(c)
    BY <1>4 DEF Conduit
  <2>2. Is(r'[c].out, c, Quiets) = 0
    BY IsNat
  <2>3. At(c) \in {0, 1}
    BY ONLY <1>4 DEF Amount
  <2>4. At(c) + Far(c) = 0 => Far(c)' = 0 /\ At(c) = 0
    BY ONLY <1>9, <2>3
  <2>5. Far(c) = 0 => Far(c)' = 0
    BY ONLY <1>9
  <2>. QED  BY ONLY <1>1, <2>1, <2>2, <2>4, <2>5 DEF InTurn
<1>12. Current(c)'
  BY ONLY <1>3 DEF Current
<1>13. Right(c)'
  <2>1. Right(c) /\ answer[c] \in Seq(Frame) /\ OneOut(c)
    BY <1>4 DEF Conduit, Types
  <2>2. CASE answer'[c] = answer[c]
    BY ONLY <1>1, <2>1, <2>2 DEF Right
  <2>3. CASE /\ Held(c) = 1 /\ Runs(c)
             /\ \E m \in Frame : answer'[c] = Append(answer[c], m) /\ m.kind # "reply"
    <3>1. Len(answer[c]) \in Nat /\ Number(rfifo[c], c, Calls) \in Nat
      BY ONLY <1>4 DEF Amount
    <3>2. Number(rfifo[c], c, Calls) + Held(c) + Len(answer[c]) <= 1
      BY ONLY <2>1, <2>3 DEF OneOut
    <3>3. Len(answer[c]) = 0
      BY ONLY <2>3, <3>1, <3>2
    <3>4. answer[c] = <<>>
      BY ONLY <2>1, <3>3, Items
    <3>5. PICK m \in Frame : answer'[c] = Append(<<>>, m) /\ m.kind # "reply"
      BY ONLY <2>3, <3>4
    <3>6. Head(answer'[c]) = m
      BY ONLY <3>5
    <3>. QED  BY ONLY <3>5, <3>6 DEF Right
  <2>. QED  BY <2>2, <2>3
<1>14. Conduit(c)'
  BY ONLY <1>2, <1>6, <1>7, <1>8, <1>10, <1>11, <1>12, <1>13 DEF Conduit
<1>15. Line(c)
  BY <1>2 DEF Line
<1>. QED  BY ONLY <1>14, <1>15, Types, Orderly, RSide(c), RRest

\* It sends a frame to rs232_w.
Posts1(c, m, then, held) ==
    /\ Sent(c, m, then, held) /\ m \in Frame /\ m.of = c /\ m.kind \in Downs /\ None(r[c].out)
    /\ reader' = reader
    /\ rfifo'[c] = rfifo[c] \/ \E k \in Posts \ {"remote"} : Took(c, k)
    /\ m.kind \in Quiets => s[c].at = "gone" \/ Near(c) + At(c) + Far(c) = 0

\* The frame counts on its way down from now on.
LEMMA RPosts ==
  ASSUME Types, Orderly, NEW c \in Client, RSide(c), NEW m, NEW then, NEW held \in BOOLEAN,
         Posts1(c, m, then, held)
  PROVE  /\ Line(c) /\ Formed(c)' /\ Offer(c)' /\ InTurn(c)' /\ Right(c)'
         /\ \A K : /\ Down(c, K)' = Down(c, K) + (IF m.kind \in K THEN 1 ELSE 0)
                   /\ Up(c, K)' = Up(c, K)
         /\ Far(c)' = Far(c) /\ Served(c)' = Served(c) /\ Forked(c)' = Forked(c)
         /\ Runs(c)' /\ (Early(c)' <=> then = "locating") /\ (Good(c)' <=> then = "up")
         /\ Held(c)' = IF held THEN 1 ELSE 0
         /\ \A n : Going(c, n) => Going(c, n)'
<1>1. /\ UNCHANGED <<setup, client, s, seg, yfifo, line, lost, receiver, vfifo, taken, got>>
      /\ reader'["B"] = reader["B"] /\ Seg(c)' = Seg(c) /\ (Sends(c)' <=> Sends(c))
      /\ Forked(c)' = Forked(c) /\ Served(c)' = Served(c) /\ Near(c)' = Near(c) /\ At(c)' = At(c)
      /\ \A n : Known(c, n)' <=> Known(c, n)
  BY RLeaves
<1>2. /\ r'[c].at = "sending" /\ r'[c].then = then /\ r'[c].holds = held /\ r'[c].out = m
      /\ writer'["A"] = Append(writer["A"], c) /\ answer'[c] = answer[c]
      /\ m \in Frame /\ m.of = c /\ m.kind \in Downs /\ None(r[c].out) /\ reader' = reader
  BY DEF Posts1, Sent
<1>3. ~ None(m)
  BY <1>2 DEF None, Downs
<1>4. Conduit(c) /\ Amount(c)
  BY Amounts DEF Orderly
<1>5. ASSUME NEW K
      PROVE  /\ Down(c, K)' = Down(c, K) + (IF m.kind \in K THEN 1 ELSE 0)
             /\ Up(c, K)' = Up(c, K)
  <2>1. Is(m, c, K) = (IF m.kind \in K THEN 1 ELSE 0) /\ Is(r[c].out, c, K) = 0
        /\ Is(reader["B"], c, K) \in {0, 1}
    BY ONLY <1>2, <1>3, IsNat
  <2>2. Number(line["A"], c, K) \in Nat
    BY <1>4 DEF Amount
  <2>3. /\ Down(c, K)' = Is(r'[c].out, c, K) + Number(line["A"], c, K) + Is(reader["B"], c, K)
        /\ Up(c, K)' = Is(Seg(c), c, K) + Number(line["B"], c, K) + Is(reader'["A"], c, K)
    BY RLeaves
  <2>4. Is(r'[c].out, c, K) = Is(m, c, K) /\ Is(reader'["A"], c, K) = Is(reader["A"], c, K)
    BY ONLY <1>2
  <2>5. Down(c, K) = Is(r[c].out, c, K) + Number(line["A"], c, K) + Is(reader["B"], c, K)
    BY DEF Down
  <2>6. Down(c, K)' = Down(c, K) + (IF m.kind \in K THEN 1 ELSE 0)
    BY ONLY <2>1, <2>2, <2>3, <2>4, <2>5
  <2>7. Up(c, K)' = Up(c, K)
    BY ONLY <2>3, <2>4 DEF Up
  <2>. QED  BY ONLY <2>6, <2>7
<1>6. Far(c)' = Far(c)
  BY ONLY <1>1, <1>5 DEF Far
<1>7. /\ Runs(c)' /\ (Early(c)' <=> then = "locating") /\ (Good(c)' <=> then = "up")
      /\ Held(c)' = IF held THEN 1 ELSE 0
  BY ONLY <1>2 DEF Runs, Early, Good, Goes, Held
<1>8. /\ Offer(c)'
      /\ \A i \in DOMAIN rfifo'[c] : rfifo'[c][i].of = c /\ rfifo'[c][i].kind \in Posts
  <2>1. CASE rfifo'[c] = rfifo[c]
    <3>1. Offer(c) /\ Formed(c)
      BY <1>4 DEF Conduit
    <3>. QED  BY ONLY <1>2, <2>1, <3>1 DEF Offer, Formed
  <2>2. CASE \E k \in Posts \ {"remote"} : Took(c, k)
    <3>1. PICK k \in Posts \ {"remote"} : Took(c, k)
      BY ONLY <2>2
    <3>. QED  BY <1>2, <3>1, TookIs
  <2>. QED  BY <2>1, <2>2 DEF Posts1
<1>9. Formed(c)'
  <2>1. Formed(c)
    BY <1>4 DEF Conduit
  <2>2. Goes(c)'
    BY ONLY <1>2 DEF Goes
  <2>. QED  BY ONLY <1>1, <1>2, <1>8, <2>1, <2>2 DEF Formed
<1>10. InTurn(c)'
  <2>1. InTurn(c)
    BY <1>4 DEF Conduit
  <2>2. s'[c].at # "gone" /\ Is(r'[c].out, c, Quiets) = 1 => Near(c)' + At(c)' + Far(c)' = 0
    <3>1. Is(m, c, Quiets) = 1 => m.kind \in Quiets
      BY IsNat DEF Of
    <3>2. m.kind \in Quiets => s[c].at = "gone" \/ Near(c) + At(c) + Far(c) = 0
      BY DEF Posts1
    <3>. QED  BY ONLY <1>1, <1>2, <1>6, <3>1, <3>2
  <2>. QED  BY ONLY <1>1, <1>2, <1>6, <2>1, <2>2 DEF InTurn
<1>11. Right(c)'
  <2>1. Right(c)
    BY <1>4 DEF Conduit
  <2>. QED  BY ONLY <1>1, <1>2, <2>1 DEF Right
<1>12. ASSUME NEW n, Going(c, n) PROVE Going(c, n)'
  BY ONLY <1>1, <1>2, <1>5, <1>12 DEF Going
<1>13. Line(c)
  <2>1. writer'["B"] = writer["B"]
    BY DEF RSide
  <2>. QED  BY ONLY <1>2, <1>3, <2>1 DEF Line
<1>. QED  BY ONLY <1>1, <1>5, <1>6, <1>7, <1>8, <1>9, <1>10, <1>11, <1>12, <1>13

\* The conduit is up and it sends what is no request.
LEMMA RQuietOrderly ==
  ASSUME Types, Orderly, NEW c \in Client, RSide(c), NEW m, NEW then \in {"up", "gone"},
         NEW held \in BOOLEAN, Posts1(c, m, then, held), r[c].at = "up",
         m.kind \in {"proxy", "alive", "close"}, held => r[c].holds,
         then = "up" => (held <=> r[c].holds),
         rfifo'[c] = rfifo[c] \/ \E k \in {"proxy", "close"} : Took(c, k)
  PROVE  Orderly'
<1>1. UNCHANGED <<setup, client, s, seg, yfifo, line, lost, receiver, vfifo, taken, got>>
      /\ (Sends(c)' <=> Sends(c)) /\ \A n : Serving(c, n)' <=> Serving(c, n)
  BY RLeaves
<1>2. /\ r'[c].at = "sending" /\ answer'[c] = answer[c] /\ r'[c].out = m /\ reader' = reader
  BY DEF Posts1, Sent
<1>3. /\ Line(c) /\ Formed(c)' /\ Offer(c)' /\ InTurn(c)' /\ Right(c)'
      /\ \A K : /\ Down(c, K)' = Down(c, K) + (IF m.kind \in K THEN 1 ELSE 0)
                /\ Up(c, K)' = Up(c, K)
      /\ Far(c)' = Far(c) /\ Served(c)' = Served(c) /\ Forked(c)' = Forked(c)
      /\ Runs(c)' /\ ~ Early(c)' /\ (Good(c)' <=> then = "up")
      /\ Held(c)' = IF held THEN 1 ELSE 0
      /\ \A n : Going(c, n) => Going(c, n)'
  BY RPosts
<1>4. Conduit(c) /\ Amount(c) /\ Good(c) /\ Runs(c)
  BY Amounts DEF Orderly, Good, Runs
<1>5. /\ \A K : m.kind \notin K => Down(c, K)' = Down(c, K)
      /\ m.kind \notin Looks /\ m.kind \notin Words /\ m.kind \notin Requests
      /\ m.kind \notin Locates
  <2>1. \A K : Down(c, K) \in Nat
    BY ONLY <1>4 DEF Amount
  <2>2. \A K : m.kind \notin K => Down(c, K)' = Down(c, K)
    BY ONLY <1>3, <2>1
  <2>. QED  BY <2>2 DEF Looks, Words, Requests, Locates
<1>6. Held(c)' <= Held(c) /\ (then = "up" => Held(c)' = Held(c)) /\ Held(c)' \in {0, 1}
  BY ONLY <1>3, held \in BOOLEAN, held => r[c].holds, then = "up" => (held <=> r[c].holds) DEF Held
<1>7. /\ Number(rfifo[c], c, Calls)' = Number(rfifo[c], c, Calls)
      /\ Number(rfifo[c], c, Proxies) = 0 => Number(rfifo[c], c, Proxies)' = 0
      /\ Before(rfifo[c], c, Proxies, Calls) => Before(rfifo[c], c, Proxies, Calls)'
      /\ \A n : AllOwn(rfifo[c], c, Calls, n) => AllOwn(rfifo[c], c, Calls, n)'
  <2>1. \/ rfifo'[c] = rfifo[c]
        \/ \E k \in {"proxy", "close"} : Took(c, k) /\ reader' = reader
    BY ONLY <1>2, rfifo'[c] = rfifo[c] \/ \E k \in {"proxy", "close"} : Took(c, k)
  <2>. QED  BY ONLY <1>2, <2>1, Types, Orderly, RSide(c), NotCalled
<1>8. OneOut(c)'
  <2>1. OneOut(c) /\ Number(rfifo[c], c, Calls) \in Nat /\ Len(answer[c]) \in Nat /\ Held(c) \in {0, 1}
    BY <1>4 DEF Conduit, Amount
  <2>2. /\ Len(answer'[c]) <= 1
        /\ client'[c].at \notin {"locating", "sending"} => answer'[c] = <<>>
        /\ client'[c].at # "start"
    BY ONLY <1>1, <1>2, <1>4, <2>1 DEF OneOut
  <2>3. /\ Number(rfifo[c], c, Calls) + Held(c) + Len(answer[c]) <= 1
        /\ client[c].at \in {"start", "idle", "refused"} =>
                 Number(rfifo[c], c, Calls) = 0 /\ Held(c) = 0
        /\ Held(c) = 1 => Number(rfifo[c], c, Proxies) = 0
        /\ Before(rfifo[c], c, Proxies, Calls)
    BY ONLY <1>4, <2>1 DEF OneOut
  <2>4. Number(rfifo[c], c, Calls)' + Held(c)' + Len(answer'[c]) <= 1
    BY ONLY <1>2, <1>6, <1>7, <2>1, <2>3
  <2>5. client'[c].at \in {"start", "idle", "refused"} =>
                 Number(rfifo[c], c, Calls)' = 0 /\ Held(c)' = 0
    BY ONLY <1>1, <1>6, <1>7, <2>3
  <2>6. Held(c)' = 1 => Number(rfifo[c], c, Proxies)' = 0
    BY ONLY <1>6, <1>7, <2>1, <2>3
  <2>7. Before(rfifo[c], c, Proxies, Calls)'
    BY ONLY <1>7, <2>3
  <2>8. r'[c].at = "sending" /\ ~ Early(c)'
    BY ONLY <1>2, <1>3
  <2>. QED  BY ONLY <2>2, <2>4, <2>5, <2>6, <2>7, <2>8 DEF OneOut
<1>9. LookUp(c)'
  <2>1. LookUp(c) /\ Down(c, Looks)' = Down(c, Looks) /\ Down(c, Locates)' = Down(c, Locates)
        /\ Up(c, Looks)' = Up(c, Looks)
    BY <1>3, <1>4, <1>5 DEF Conduit
  <2>. QED  BY ONLY <1>1, <1>2, <1>3, <1>4, <2>1 DEF LookUp
<1>10. Transit(c)'
  <2>1. /\ Transit(c) /\ Down(c, Words)' = Down(c, Words) /\ Down(c, Requests)' = Down(c, Requests)
        /\ Up(c, Requests)' = Up(c, Requests)
    BY <1>3, <1>4, <1>5 DEF Conduit
  <2>2. Good(c)' => Held(c)' = Held(c)
    BY ONLY <1>3, <1>6
  <2>. QED  BY ONLY <1>1, <1>3, <1>4, <2>1, <2>2 DEF Transit
<1>11. Current(c)'
  <2>1. ASSUME client[c].at = "sending"
        PROVE  /\ Coming(c, client[c].asked)' /\ Serving(c, client[c].asked)'
               /\ Going(c, client[c].asked)'
    <3>4. PICK n : n = client[c].asked
      OBVIOUS
    <3>1. Coming(c, n) /\ Serving(c, n) /\ Going(c, n)
      BY <1>4, <2>1, <3>4 DEF Conduit, Current
    <3>2. ~ Of(m, c, Words)
      BY ONLY <1>5 DEF Of
    <3>3. /\ AllOwn(rfifo[c], c, Calls, n)' /\ Own(r'[c].out, c, n)
          /\ AllOwn(line["A"], c, Words, n)' /\ Own(reader["B"], c, n)'
      BY ONLY <1>1, <1>2, <1>7, <3>1, <3>2 DEF Coming, Own
    <3>5. Coming(c, n)' /\ Serving(c, n)' /\ Going(c, n)'
      BY ONLY <1>1, <1>3, <3>1, <3>3 DEF Coming
    <3>. QED  BY ONLY <1>1, <3>4, <3>5
  <2>. QED  BY ONLY <1>1, <2>1 DEF Current
<1>12. Conduit(c)'
  BY ONLY <1>3, <1>8, <1>9, <1>10, <1>11 DEF Conduit
<1>. QED  BY ONLY <1>3, <1>12, Types, Orderly, RSide(c), RRest

\* What HeldIsInTransit counts, by the places of the invariant.
LEMMA InTransitIs ==
  ASSUME Types, Orderly, NEW c \in Client
  PROVE  /\ InTransit(c) = Down(c, Requests) + Up(c, Requests) + Served(c)
         /\ Under(c) \in Nat /\ Back(c) \in Nat
<1>1. \A m : (Request(m, c) <=> Of(m, c, Requests)) /\ Copy(m, c) = Is(m, c, Requests)
  BY DEF Request, Of, Requests, None, Copy, Is
<1>2. \A q : Copies(q, c) = Number(q, c, Requests)
  BY <1>1 DEF Copies, Number
<1>3. Amount(c) /\ Kinds
  BY Amounts DEF Orderly
<1>4. Number(vfifo, c, Requests) = Number(vfifo, c, Words)
  <2>1. \A i \in DOMAIN vfifo : Of(vfifo[i], c, Requests) <=> Of(vfifo[i], c, Words)
    BY <1>3 DEF Kinds, Of, Requests, Words
  <2>2. {i \in DOMAIN vfifo : Of(vfifo[i], c, Requests)} = {i \in DOMAIN vfifo : Of(vfifo[i], c, Words)}
    BY ONLY <2>1
  <2>. QED  BY ONLY <2>2 DEF Number
<1>5. Is(taken, c, Requests) = Is(taken, c, Words)
  BY <1>3 DEF Kinds, Is, Of, Requests, Words
<1>6. \A m, K : Is(m, c, K) \in {0, 1}
  BY IsNat
<1>7. /\ Number(line["A"], c, Requests) \in Nat /\ Number(line["B"], c, Requests) \in Nat
      /\ Number(vfifo, c, Words) \in Nat /\ Len(yfifo[c]) \in Nat
  BY ONLY <1>3 DEF Amount
<1>8. Back(c) = Number(line["B"], c, Requests) + Is(reader["A"], c, Requests) /\ Back(c) \in Nat
  BY ONLY <1>1, <1>2, <1>6, <1>7 DEF Back
<1>9. /\ Under(c) = Down(c, Requests) + Is(Seg(c), c, Requests) + Served(c)
      /\ Under(c) \in Nat
  <2>1. Is(NoFrame, c, Requests) = 0
    BY FrameIs
  <2>2. PICK a, b, d, e, f, g, h :
                /\ a = Is(r[c].out, c, Requests) /\ b = Number(line["A"], c, Requests)
                /\ d = Is(reader["B"], c, Requests) /\ e = Number(vfifo, c, Words)
                /\ f = Is(taken, c, Words) /\ g = Is(Seg(c), c, Requests)
                /\ h = IF Sends(c) THEN 0 ELSE Len(yfifo[c])
    OBVIOUS
  <2>3. /\ a \in Nat /\ b \in Nat /\ d \in Nat /\ e \in Nat /\ f \in Nat /\ g \in Nat
        /\ h \in Nat
    BY ONLY <1>6, <1>7, <2>2
  <2>4. Down(c, Requests) = a + b + d /\ Served(c) = e + f + h
    BY ONLY <2>2 DEF Down, Served
  <2>5. /\ Copy(r[c].out, c) = a /\ Copies(line["A"], c) = b /\ Copy(reader["B"], c) = d
        /\ Copies(vfifo, c) = e /\ Copy(taken, c) = f
        /\ (IF s[c].at = "sending" THEN Copy(seg[c], c) ELSE Len(yfifo[c])) = g + h
    <3>1. /\ Copy(r[c].out, c) = a /\ Copies(line["A"], c) = b /\ Copy(reader["B"], c) = d
          /\ Copies(vfifo, c) = e /\ Copy(taken, c) = f
      BY ONLY <1>1, <1>2, <1>4, <1>5, <2>2
    <3>2. CASE Sends(c)
      <4>1. g = Copy(seg[c], c) /\ h = 0 /\ s[c].at = "sending"
        BY ONLY <1>1, <2>2, <3>2 DEF Seg, Sends
      <4>. QED  BY ONLY <2>3, <3>1, <4>1
    <3>3. CASE ~ Sends(c)
      <4>1. g = 0 /\ h = Len(yfifo[c]) /\ s[c].at # "sending"
        BY ONLY <2>1, <2>2, <3>3 DEF Seg, Sends
      <4>. QED  BY ONLY <2>3, <3>1, <4>1
    <3>. QED  BY ONLY <3>2, <3>3
  <2>6. Under(c) = a + b + d + e + f + (g + h)
    BY ONLY <2>5 DEF Under
  <2>7. Under(c) = (a + b + d) + g + (e + f + h) /\ Under(c) \in Nat
    BY ONLY <2>3, <2>6
  <2>. QED  BY ONLY <2>2, <2>4, <2>7
<1>10. /\ Down(c, Requests) \in Nat /\ Served(c) \in Nat
  BY ONLY <1>3 DEF Amount
<1>11. Up(c, Requests) = Is(Seg(c), c, Requests) + Back(c)
  BY ONLY <1>6, <1>7, <1>8 DEF Up
<1>. QED  BY ONLY <1>6, <1>8, <1>9, <1>10, <1>11 DEF InTransit

\* A conduit that is not about to send has no frame out.
LEMMA NoOut ==
  ASSUME Orderly, NEW c \in Client, r[c].at # "sending"
  PROVE  None(r[c].out)
  BY DEF Orderly, Conduit, Formed, Goes

\* It sends a Trigger,
LEMMA RProxyOrderly ==
  ASSUME Types, Orderly, NEW c \in Client, RProxy(c) PROVE Orderly'
<1>1. /\ RSide(c) /\ Took(c, "proxy") /\ reader' = reader
      /\ r[c].at = "up" /\ Sent(c, Frm("proxy", c), "up", r[c].holds)
  BY RProxyDoes
<1>2. Frm("proxy", c) \in Frame /\ Frm("proxy", c).of = c /\ Frm("proxy", c).kind = "proxy"
      /\ r[c].holds \in BOOLEAN /\ None(r[c].out)
  BY <1>1, FrameIs, NoOut, RTypes DEF Kind, RType
<1>3. Near(c) + At(c) + Far(c) = 0
  <2>1. OneOut(c) /\ Amount(c) /\ Transit(c)
    BY Amounts DEF Orderly, Conduit
  <2>2. Runs(c) /\ Good(c)
    BY <1>1 DEF Runs, Good
  <2>3. Number(rfifo[c], c, Proxies) # 0
    <3>1. Number(rfifo'[c], c, Proxies) \in Nat
          /\ Number(rfifo[c], c, Proxies) = 1 + Number(rfifo'[c], c, Proxies)
      BY <1>1, TookIs DEF Proxies
    <3>. QED  BY ONLY <3>1
  <2>4. Held(c) = 0
    BY ONLY <2>1, <2>2, <2>3 DEF OneOut, Amount
  <2>5. ~ r[c].holds
    BY ONLY <2>4 DEF Held
  <2>6. Down(c, Words) + Far(c) <= 0
    BY ONLY <2>1, <2>2, <2>4 DEF Transit
  <2>7. Far(c) \in Nat /\ Near(c) \in Nat /\ At(c) \in {0, 1} /\ Down(c, Words) \in Nat
    BY ONLY <2>1 DEF Amount
  <2>8. Near(c) + At(c) <= Down(c, Words)
    <3>1. Is(r[c].out, c, Words) \in {0, 1}
      BY IsNat
    <3>. QED  BY ONLY <2>7, <3>1 DEF Down, Near, At
  <2>. QED  BY ONLY <2>6, <2>7, <2>8
<1>4. Posts1(c, Frm("proxy", c), "up", r[c].holds)
  <2>1. "proxy" \in Downs /\ "proxy" \in Posts \ {"remote"}
    BY DEF Downs, Posts
  <2>. QED  BY ONLY <1>1, <1>2, <1>3, <2>1 DEF Posts1
<1>. QED  BY ONLY <1>1, <1>2, <1>4, Types, Orderly, RQuietOrderly

\* ... or that its client leaves,
LEMMA RCloseOrderly ==
  ASSUME Types, Orderly, NEW c \in Client, RClose(c) PROVE Orderly'
<1>1. /\ RSide(c) /\ Took(c, "close") /\ reader' = reader
      /\ r[c].at = "up" /\ Sent(c, Frm("close", c), "gone", r[c].holds)
  BY RCloseDoes
<1>2. Frm("close", c) \in Frame /\ Frm("close", c).of = c /\ Frm("close", c).kind = "close"
      /\ r[c].holds \in BOOLEAN /\ None(r[c].out)
  BY <1>1, FrameIs, NoOut, RTypes DEF Kind, RType
<1>4. Posts1(c, Frm("close", c), "gone", r[c].holds)
  <2>1. "close" \in Downs /\ "close" \in Posts \ {"remote"} /\ "close" \notin Quiets
    BY DEF Downs, Posts, Quiets
  <2>. QED  BY ONLY <1>1, <1>2, <2>1 DEF Posts1
<1>. QED  BY ONLY <1>1, <1>2, <1>4, Types, Orderly, RQuietOrderly

\* ... and no keep-alive.
LEMMA RTimeoutOrderly ==
  ASSUME ~ Alive, NEW c \in Client, RTimeout(c) PROVE Orderly'
  BY DEF RTimeout

\* The message was a call: nothing else of the client is out.
LEMMA OneCall ==
  ASSUME Types, Orderly, NEW c \in Client, RSide(c), NEW k \in Calls, Took(c, k), reader' = reader,
         Runs(c)
  PROVE  /\ Number(rfifo'[c], c, Calls) = 0 /\ Held(c) = 0 /\ Len(answer[c]) = 0
         /\ Number(rfifo'[c], c, Proxies) = 0 /\ Before(rfifo'[c], c, Proxies, Calls)
         /\ client[c].at \notin {"start", "idle", "refused"}
<1>1. OneOut(c) /\ Amount(c)
  BY Amounts DEF Orderly, Conduit
<1>2. /\ Number(rfifo[c], c, Calls) + Held(c) + Len(answer[c]) <= 1
      /\ client[c].at \in {"start", "idle", "refused"} =>
             Number(rfifo[c], c, Calls) = 0 /\ Held(c) = 0
      /\ Before(rfifo[c], c, Proxies, Calls)
  BY ONLY <1>1, Runs(c) DEF OneOut
<1>3. k # "remote"
  BY DEF Calls
<1>4. /\ Number(rfifo'[c], c, Calls) \in Nat
      /\ Number(rfifo[c], c, Calls) = 1 + Number(rfifo'[c], c, Calls)
      /\ Number(rfifo'[c], c, Proxies) = 0 /\ Before(rfifo'[c], c, Proxies, Calls)
  BY ONLY <1>2, <1>3, k \in Calls, Took(c, k), reader' = reader, Types, Orderly, RSide(c), TookIs
<1>5. Held(c) \in {0, 1} /\ Len(answer[c]) \in Nat
  BY ONLY <1>1 DEF Amount
<1>6. Number(rfifo'[c], c, Calls) = 0 /\ Held(c) = 0 /\ Len(answer[c]) = 0
  BY ONLY <1>2, <1>4, <1>5
<1>7. client[c].at \notin {"start", "idle", "refused"}
  BY ONLY <1>2, <1>4
<1>. QED  BY ONLY <1>4, <1>6, <1>7

\* It looks for the receiver on the remote host.
LEMMA RLocateOrderly ==
  ASSUME Types, Orderly, NEW c \in Client, RLocate(c) PROVE Orderly'
<1>. DEFINE m == Frm("locate", c)
<1>1. /\ RSide(c) /\ Took(c, "locate") /\ reader' = reader /\ r[c].at = "attached"
      /\ Moved(c, "faulted") \/ Sent(c, m, "locating", TRUE)
  BY RLocateDoes
<1>2. m \in Frame /\ m.of = c /\ m.kind = "locate"
  BY FrameIs DEF Kind
<1>. HIDE DEF m
<1>3. "locate" \in Posts \ {"remote"} /\ "locate" \in Downs /\ "locate" \notin Quiets /\ "locate" \in Calls
  BY DEF Posts, Downs, Quiets, Calls
<1>4. None(r[c].out)
  BY <1>1, NoOut
<1>5. CASE Moved(c, "faulted")
  <2>1. Pulled(c)
    BY ONLY <1>1, <1>3 DEF Pulled
  <2>2. /\ writer' = writer /\ r'[c].at = "faulted" /\ r'[c].out = r[c].out /\ answer'[c] = answer[c]
    BY ONLY <1>5 DEF Moved
  <2>. QED  BY ONLY <1>1, <1>4, <2>1, <2>2, Types, Orderly, RStops
<1>6. CASE Sent(c, m, "locating", TRUE)
  <2>1. Posts1(c, m, "locating", TRUE)
    BY ONLY <1>1, <1>2, <1>3, <1>4, <1>6 DEF Posts1
  <2>2. /\ Line(c) /\ Formed(c)' /\ Offer(c)' /\ InTurn(c)' /\ Right(c)'
        /\ \A K : /\ Down(c, K)' = Down(c, K) + (IF m.kind \in K THEN 1 ELSE 0)
                  /\ Up(c, K)' = Up(c, K)
        /\ Far(c)' = Far(c) /\ Served(c)' = Served(c) /\ Forked(c)' = Forked(c)
        /\ Runs(c)' /\ (Early(c)' <=> "locating" = "locating") /\ (Good(c)' <=> "locating" = "up")
        /\ Held(c)' = IF TRUE THEN 1 ELSE 0
    BY ONLY <1>1, <2>1, Types, Orderly, RPosts
  <2>3. Early(c) /\ Runs(c) /\ Conduit(c) /\ Amount(c)
    BY <1>1, Amounts DEF Early, Runs, Orderly
  <2>4. /\ UNCHANGED <<client, s, yfifo, receiver, vfifo, taken, lost>>
        /\ (Sends(c)' <=> Sends(c))
    BY <1>1, RLeaves
  <2>5. /\ Number(rfifo'[c], c, Calls) = 0 /\ Held(c) = 0 /\ Len(answer[c]) = 0
        /\ Number(rfifo'[c], c, Proxies) = 0 /\ Before(rfifo'[c], c, Proxies, Calls)
        /\ client[c].at \notin {"start", "idle", "refused"}
    BY ONLY <1>1, <1>3, <2>3, Types, Orderly, OneCall
  <2>6. answer'[c] = answer[c] /\ r'[c].at = "sending"
    BY ONLY <1>6 DEF Sent
  <2>7. OneOut(c)'
    <3>1. /\ answer[c] = <<>> /\ client[c].at \notin {"idle", "sending", "refused"}
      BY ONLY <2>3 DEF Conduit, OneOut
    <3>2. Held(c)' = 1 /\ ~ Good(c)'
      BY ONLY <2>2
    <3>3. /\ Len(answer'[c]) = 0 /\ answer'[c] = <<>>
          /\ client'[c].at \notin {"start", "idle", "sending", "refused"}
      BY ONLY <2>4, <2>5, <2>6, <3>1
    <3>. QED  BY ONLY <2>5, <2>6, <3>2, <3>3 DEF OneOut
  <2>8. LookUp(c)'
    <3>1. /\ Down(c, Looks) + Up(c, Looks) + Forked(c) = 0
          /\ s[c].at = "none" /\ Down(c, Others) + Up(c, Others) = 0
          /\ Up(c, Looks) = 0
          /\ yfifo[c] = <<>> /\ Number(vfifo, c, Words) = 0 /\ Is(taken, c, Words) = 0
      BY ONLY <1>1, <2>3 DEF Conduit, LookUp
    <3>2. /\ Down(c, Looks)' = Down(c, Looks) + 1 /\ Down(c, Others)' = Down(c, Others) + 0
          /\ Down(c, Looks) \in Nat /\ Up(c, Looks) \in Nat /\ Forked(c) \in {0, 1}
          /\ Down(c, Others) \in Nat
      <4>1. "locate" \in Looks /\ "locate" \notin Others
        BY DEF Looks, Others
      <4>. QED  BY ONLY <1>2, <2>2, <2>3, <4>1 DEF Amount
    <3>3. ~ Good(c)' /\ r'[c].at # "attached" /\ s'[c].at = "none"
      BY ONLY <2>2, <2>4, <2>6, <3>1
    <3>4. Down(c, Looks)' + Up(c, Looks)' + Forked(c)' <= 1
      BY ONLY <2>2, <3>1, <3>2
    <3>5. Down(c, Others)' + Up(c, Others)' = 0 /\ Up(c, Looks)' = 0
      BY ONLY <2>2, <3>1, <3>2
    <3>. QED  BY ONLY <2>4, <3>1, <3>3, <3>4, <3>5 DEF LookUp
  <2>9. Transit(c)'
    <3>1. /\ Down(c, Words)' = Down(c, Words)
      <4>1. "locate" \notin Words
        BY DEF Words
      <4>. QED  BY ONLY <1>2, <2>2, <2>3, <4>1 DEF Amount
    <3>2. /\ Down(c, Words) + Far(c) = 0 /\ (Sends(c) => Served(c) = 0)
      BY ONLY <2>3 DEF Conduit, Transit
    <3>3. ~ Good(c)' /\ Down(c, Words)' + Far(c)' = 0
      BY ONLY <2>2, <3>1, <3>2
    <3>. QED  BY ONLY <2>2, <2>4, <3>2, <3>3 DEF Transit
  <2>10. Current(c)'
    BY ONLY <2>2 DEF Current
  <2>11. Conduit(c)'
    BY ONLY <2>2, <2>7, <2>8, <2>9, <2>10 DEF Conduit
  <2>. QED  BY ONLY <1>1, <2>2, <2>11, Types, Orderly, RRest
<1>. QED  BY ONLY <1>1, <1>5, <1>6

\* It passes a request on.
LEMMA RSendOrderly ==
  ASSUME Types, Orderly, NEW c \in Client, RSend(c) PROVE Orderly'
<1>1. PICK m : m = Head(rfifo[c])
  OBVIOUS
<1>2. /\ RSide(c) /\ Took(c, "send") /\ reader' = reader /\ r[c].at = "up"
      /\ Moved(c, "faulted") \/ Sent(c, m, "up", TRUE)
  BY <1>1, RSendDoes
<1>3. m \in Frame /\ m.kind = "send" /\ m.of = c
  <2>1. Head(rfifo[c]).of = c
    BY <1>2, TookIs
  <2>. QED  BY ONLY <1>1, <1>2, <2>1 DEF Took
<1>4. "send" \in Posts \ {"remote"} /\ "send" \in Downs /\ "send" \notin Quiets /\ "send" \in Calls
  BY DEF Posts, Downs, Quiets, Calls
<1>5. None(r[c].out)
  BY <1>2, NoOut
<1>6. CASE Moved(c, "faulted")
  <2>1. Pulled(c)
    BY ONLY <1>2, <1>4 DEF Pulled
  <2>2. /\ writer' = writer /\ r'[c].at = "faulted" /\ r'[c].out = r[c].out /\ answer'[c] = answer[c]
    BY ONLY <1>6 DEF Moved
  <2>. QED  BY ONLY <1>2, <1>5, <2>1, <2>2, Types, Orderly, RStops
<1>7. CASE Sent(c, m, "up", TRUE)
  <2>1. Posts1(c, m, "up", TRUE)
    BY ONLY <1>2, <1>3, <1>4, <1>5, <1>7 DEF Posts1
  <2>2. /\ Line(c) /\ Formed(c)' /\ Offer(c)' /\ InTurn(c)' /\ Right(c)'
        /\ \A K : /\ Down(c, K)' = Down(c, K) + (IF m.kind \in K THEN 1 ELSE 0)
                  /\ Up(c, K)' = Up(c, K)
        /\ Far(c)' = Far(c) /\ Served(c)' = Served(c) /\ Forked(c)' = Forked(c)
        /\ Runs(c)' /\ (Early(c)' <=> "up" = "locating") /\ (Good(c)' <=> "up" = "up")
        /\ Held(c)' = (IF TRUE THEN 1 ELSE 0) /\ \A n : Going(c, n) => Going(c, n)'
    BY ONLY <1>2, <2>1, Types, Orderly, RPosts
  <2>3. Good(c) /\ Runs(c) /\ Conduit(c) /\ Amount(c)
    BY <1>2, Amounts DEF Good, Runs, Orderly
  <2>4. /\ UNCHANGED <<client, s, yfifo, receiver, vfifo, taken, lost, line>>
        /\ (Sends(c)' <=> Sends(c)) /\ reader'["B"] = reader["B"]
        /\ \A n : Serving(c, n)' <=> Serving(c, n)
    BY <1>2, RLeaves
  <2>5. /\ Number(rfifo'[c], c, Calls) = 0 /\ Held(c) = 0 /\ Len(answer[c]) = 0
        /\ Number(rfifo'[c], c, Proxies) = 0 /\ Before(rfifo'[c], c, Proxies, Calls)
        /\ client[c].at \notin {"start", "idle", "refused"}
    BY ONLY <1>2, <1>4, <2>3, Types, Orderly, OneCall
  <2>6. answer'[c] = answer[c] /\ r'[c].at = "sending" /\ r'[c].out = m
    BY ONLY <1>7 DEF Sent
  <2>12. Good(c)' /\ ~ Early(c)' /\ Held(c)' = 1
    BY ONLY <2>2
  <2>7. OneOut(c)'
    <3>1. client[c].at \notin {"locating", "sending"} => answer[c] = <<>>
      BY ONLY <2>3 DEF Conduit, OneOut
    <3>3. /\ Len(answer'[c]) = 0
          /\ client'[c].at \notin {"locating", "sending"} => answer'[c] = <<>>
          /\ client'[c].at \notin {"start", "idle", "refused"}
      BY ONLY <2>4, <2>5, <2>6, <3>1
    <3>. QED  BY ONLY <2>5, <2>6, <2>12, <3>3 DEF OneOut
  <2>8. LookUp(c)'
    <3>1. LookUp(c)
      BY ONLY <2>3 DEF Conduit
    <3>2. Down(c, Looks)' = Down(c, Looks) /\ Down(c, Locates)' = Down(c, Locates)
      <4>1. "send" \notin Looks /\ "send" \notin Locates
        BY DEF Looks, Locates
      <4>. QED  BY ONLY <1>3, <2>2, <2>3, <4>1 DEF Amount
    <3>3. Up(c, Looks)' = Up(c, Looks) /\ r'[c].at # "attached"
      BY ONLY <2>2, <2>6
    <3>. QED  BY ONLY <2>2, <2>3, <2>4, <2>12, <3>1, <3>2, <3>3 DEF LookUp
  <2>9. Transit(c)'
    <3>1. Transit(c) /\ Down(c, Words) \in Nat /\ Far(c) \in Nat /\ Served(c) \in Nat
          /\ Down(c, Requests) \in Nat /\ Up(c, Requests) \in Nat
      BY ONLY <2>3 DEF Conduit, Amount
    <3>2. Down(c, Words)' = Down(c, Words) + 1 /\ Down(c, Requests)' = Down(c, Requests) + 1
      <4>1. "send" \in Words /\ "send" \in Requests
        BY DEF Words, Requests
      <4>. QED  BY ONLY <1>3, <2>2, <4>1
    <3>3. Down(c, Words)' + Far(c)' = 1
      <4>1. Down(c, Words) + Far(c) <= 0
        BY ONLY <2>3, <2>5, <3>1 DEF Transit
      <4>. QED  BY ONLY <2>2, <3>1, <3>2, <4>1
    <3>4. s'[c].at \in {"up", "sending"} /\ receiver' = "up" /\ lost' = 0 =>
             Down(c, Requests)' + Up(c, Requests)' + Served(c)' = 1
      <4>1. s[c].at \in {"up", "sending"} /\ receiver = "up" /\ lost = 0 =>
               Down(c, Requests) + Up(c, Requests) + Served(c) = 0
        BY ONLY <2>3, <2>5, <3>1 DEF Transit
      <4>2. Up(c, Requests)' = Up(c, Requests) /\ Served(c)' = Served(c)
        BY ONLY <2>2
      <4>. QED  BY ONLY <2>4, <3>1, <3>2, <4>1, <4>2
    <3>5. Sends(c)' => Served(c)' = 0
      BY ONLY <2>2, <2>4, <3>1 DEF Transit
    <3>. QED  BY ONLY <2>12, <3>3, <3>4, <3>5 DEF Transit
  <2>10. Current(c)'
    <3>1. ASSUME client[c].at = "sending"
          PROVE  /\ Coming(c, client[c].asked)' /\ Serving(c, client[c].asked)'
                 /\ Going(c, client[c].asked)'
      <4>1. PICK n : n = client[c].asked
        OBVIOUS
      <4>2. Coming(c, n) /\ Serving(c, n) /\ Going(c, n)
        BY ONLY <2>3, <3>1, <4>1 DEF Conduit, Current
      <4>3. AllOwn(rfifo'[c], c, Calls, n) /\ Head(rfifo[c]).n = n
        <5>1. AllOwn(rfifo[c], c, Calls, n) /\ "send" # "remote"
          BY ONLY <4>2 DEF Coming
        <5>. QED  BY ONLY <1>2, <1>4, <5>1, Types, Orderly, TookIs
      <4>4. Own(r'[c].out, c, n)
        BY ONLY <1>1, <2>6, <4>3 DEF Own
      <4>5. Coming(c, n)' /\ Serving(c, n)' /\ Going(c, n)'
        BY ONLY <2>2, <2>4, <4>2, <4>3, <4>4 DEF Coming
      <4>. QED  BY ONLY <2>4, <4>1, <4>5
    <3>. QED  BY ONLY <2>4, <3>1 DEF Current
  <2>11. Conduit(c)'
    BY ONLY <2>2, <2>7, <2>8, <2>9, <2>10 DEF Conduit
  <2>. QED  BY ONLY <1>2, <2>2, <2>11, Types, Orderly, RRest
<1>. QED  BY ONLY <1>2, <1>6, <1>7

\* It goes on as before.
LEMMA RGoesOn ==
  ASSUME Types, Orderly, NEW c \in Client, RSide(c), writer' = writer, answer'[c] = answer[c],
         \/ rfifo'[c] = rfifo[c] /\ reader' = reader
         \/ Took(c, "remote") /\ reader'["A"] = NoFrame /\ reader["A"].kind = "alive",
         None(r[c].out), r'[c].out = r[c].out, r'[c].holds = r[c].holds,
         r[c].at \in {"up", "sending"}, r'[c].at \in {"locating", "up"},
         Early(c)' <=> Early(c), Good(c)' <=> Good(c)
  PROVE  Orderly'
<1>1. /\ UNCHANGED <<setup, client, s, seg, yfifo, line, lost, receiver, vfifo, taken, got>>
      /\ reader'["B"] = reader["B"] /\ Seg(c)' = Seg(c) /\ (Sends(c)' <=> Sends(c))
      /\ Forked(c)' = Forked(c) /\ Served(c)' = Served(c) /\ Near(c)' = Near(c) /\ At(c)' = At(c)
      /\ \A n : (Known(c, n)' <=> Known(c, n)) /\ (Serving(c, n)' <=> Serving(c, n))
  BY RLeaves
<1>2. Pulled(c)
  <2>1. "remote" \in Posts
    BY DEF Posts
  <2>. QED  BY <2>1 DEF Pulled
<1>3. /\ Offer(c)'
      /\ \A i \in DOMAIN rfifo'[c] : rfifo'[c][i].of = c /\ rfifo'[c][i].kind \in Posts
      /\ reader'["A"] = reader["A"] \/ (reader'["A"] = NoFrame /\ reader["A"].of = c)
      /\ \A K : Up(c, K)' <= Up(c, K) /\ Up(c, K)' \in Nat
  BY <1>2, PulledIs
<1>4. Conduit(c) /\ Amount(c)
  BY Amounts DEF Orderly
<1>5. \A K : Down(c, K)' = Down(c, K)
  <2>2. \A K : Down(c, K)' =
                  Is(r'[c].out, c, K) + Number(line["A"], c, K) + Is(reader["B"], c, K)
    BY RLeaves
  <2>. QED  BY ONLY <2>2, r'[c].out = r[c].out DEF Down
<1>6. \A K : "alive" \notin K => Up(c, K)' = Up(c, K)
  <2>1. CASE reader' = reader
    BY ONLY <1>1, <2>1 DEF Up
  <2>2. CASE reader'["A"] = NoFrame /\ reader["A"].kind = "alive"
    <3>1. ASSUME NEW K, "alive" \notin K PROVE Is(reader["A"], c, K) = 0 /\ Is(NoFrame, c, K) = 0
      BY <2>2, <3>1, FrameIs DEF Is, Of
    <3>. QED  BY ONLY <1>1, <2>2, <3>1 DEF Up
  <2>. QED  BY <2>1, <2>2
<1>7. "alive" \notin Looks /\ "alive" \notin Words /\ "alive" \notin Requests
  BY DEF Looks, Words, Requests
<1>8. /\ Number(rfifo[c], c, Calls)' = Number(rfifo[c], c, Calls)
      /\ Number(rfifo[c], c, Proxies) = 0 => Number(rfifo[c], c, Proxies)' = 0
      /\ Before(rfifo[c], c, Proxies, Calls) => Before(rfifo[c], c, Proxies, Calls)'
      /\ \A n : AllOwn(rfifo[c], c, Calls, n) => AllOwn(rfifo[c], c, Calls, n)'
  <2>1. \/ rfifo'[c] = rfifo[c]
        \/ Took(c, "remote") /\ reader'["A"] = NoFrame
    OBVIOUS
  <2>2. reader' = reader \/ reader'["A"] = NoFrame
    OBVIOUS
  <2>. QED  BY ONLY <2>1, <2>2, Types, Orderly, RSide(c), NotCalled
<1>9. Formed(c)'
  <2>1. Formed(c) /\ None(r'[c].out)
    BY <1>4 DEF Conduit
  <2>. QED  BY ONLY <1>1, <1>3, <2>1 DEF Formed
<1>10. OneOut(c)'
  <2>1. OneOut(c) /\ Runs(c)
    BY <1>4 DEF Conduit, Runs
  <2>2. Held(c)' = Held(c) /\ r'[c].at \notin {"attached", "hung"} /\ r[c].at # "attached"
    BY DEF Held
  <2>3. answer'[c] = answer[c] /\ (Early(c)' <=> Early(c)) /\ (Good(c)' <=> Good(c))
    OBVIOUS
  <2>. QED  BY ONLY <1>1, <1>8, <2>1, <2>2, <2>3 DEF OneOut
<1>11. LookUp(c)'
  <2>1. LookUp(c) /\ r'[c].at # "attached" /\ (Early(c)' <=> Early(c)) /\ (Good(c)' <=> Good(c))
    BY <1>4 DEF Conduit
  <2>2. Early(c) => Down(c, Others)' + Up(c, Others)' = 0
    <3>1. Early(c) => Down(c, Others) + Up(c, Others) = 0
      BY ONLY <2>1 DEF LookUp
    <3>2. /\ Down(c, Others) \in Nat /\ Up(c, Others) \in Nat
      BY ONLY <1>4 DEF Amount
    <3>3. Up(c, Others)' \in Nat /\ Up(c, Others)' <= Up(c, Others) /\ Down(c, Others)' = Down(c, Others)
      BY ONLY <1>3, <1>5
    <3>. QED  BY ONLY <3>1, <3>2, <3>3
  <2>3. Up(c, Looks)' = Up(c, Looks) /\ Down(c, Looks)' = Down(c, Looks)
        /\ Down(c, Locates)' = Down(c, Locates)
    BY ONLY <1>5, <1>6, <1>7
  <2>. QED  BY ONLY <1>1, <2>1, <2>2, <2>3 DEF LookUp
<1>12. Far(c)' = Far(c)
  BY ONLY <1>1, <1>6, <1>7 DEF Far
<1>13. Transit(c)'
  <2>1. Transit(c) /\ Held(c)' = Held(c) /\ (Early(c)' <=> Early(c)) /\ (Good(c)' <=> Good(c))
    BY <1>4 DEF Conduit, Held
  <2>2. /\ Up(c, Requests)' = Up(c, Requests) /\ Down(c, Requests)' = Down(c, Requests)
        /\ Down(c, Words)' = Down(c, Words)
    BY ONLY <1>5, <1>6, <1>7
  <2>. QED  BY ONLY <1>1, <1>12, <2>1, <2>2 DEF Transit
<1>14. InTurn(c)'
  <2>1. InTurn(c) /\ r'[c].out = r[c].out
    BY <1>4 DEF Conduit
  <2>. QED  BY ONLY <1>1, <1>12, <2>1 DEF InTurn
<1>15. Current(c)'
  <2>1. ASSUME client[c].at = "sending", Good(c)
        PROVE  /\ Coming(c, client[c].asked)' /\ Serving(c, client[c].asked)'
               /\ Going(c, client[c].asked)'
    <3>1. PICK n : n = client[c].asked
      OBVIOUS
    <3>2. Coming(c, n) /\ Serving(c, n) /\ Going(c, n) /\ r'[c].out = r[c].out
      BY <1>4, <2>1, <3>1 DEF Conduit, Current
    <3>3. Coming(c, n)'
      BY ONLY <1>1, <1>8, <3>2 DEF Coming
    <3>4. Own(reader'["A"], c, n)
      <4>1. ~ Of(NoFrame, c, Words)
        BY FrameIs, IsNat
      <4>. QED  BY ONLY <1>3, <3>2, <4>1 DEF Going, Own
    <3>5. Going(c, n)'
      BY ONLY <1>1, <1>6, <1>7, <3>2, <3>4 DEF Going
    <3>. QED  BY ONLY <1>1, <3>1, <3>2, <3>3, <3>5
  <2>. QED  BY ONLY <1>1, <2>1, Good(c)' <=> Good(c) DEF Current
<1>16. Right(c)'
  <2>1. Right(c) /\ answer'[c] = answer[c]
    BY <1>4 DEF Conduit
  <2>. QED  BY ONLY <1>1, <2>1 DEF Right
<1>17. Conduit(c)'
  BY ONLY <1>3, <1>9, <1>10, <1>11, <1>13, <1>14, <1>15, <1>16 DEF Conduit
<1>18. Line(c)
  BY <1>3 DEF Line
<1>. QED  BY ONLY <1>17, <1>18, Types, Orderly, RSide(c), RRest

\* Its Send returns.
LEMMA RReturnOrderly ==
  ASSUME Types, Orderly, NEW c \in Client, RReturn(c) PROVE Orderly'
<1>1. /\ RSide(c) /\ rfifo'[c] = rfifo[c] /\ reader' = reader /\ r[c].at = "sending"
      /\ None(r[c].out)
      /\ \/ r[c].then = "gone" /\ Ends(c)
         \/ r[c].then \in {"up", "locating"} /\ Moved(c, r[c].then)
  BY RReturnDoes
<1>2. CASE r[c].then = "gone" /\ Ends(c)
  <2>1. Pulled(c)
    BY ONLY <1>1 DEF Pulled
  <2>2. CASE Moved(c, "faulted") \/ Moved(c, "gone")
    <3>1. /\ writer' = writer /\ r'[c].at \in {"faulted", "gone"} /\ r'[c].out = r[c].out
          /\ answer'[c] = answer[c]
      BY ONLY <2>2 DEF Moved
    <3>. QED  BY ONLY <1>1, <2>1, <3>1, Types, Orderly, RStops
  <2>3. CASE r[c].holds /\ Answered(c, Frm("error", c), "gone", "gone")
    <3>1. Held(c) = 1 /\ Runs(c)
      BY ONLY <1>1, <2>3 DEF Held, Runs
    <3>2. Frm("error", c) \in Frame /\ Frm("error", c).kind # "reply"
      BY FrameIs DEF Kind
    <3>3. /\ writer' = writer /\ r'[c].out = r[c].out /\ r'[c].at \in {"gone", "hung"}
          /\ \/ answer'[c] = answer[c] /\ (r'[c].at = "hung" => client[c].at \in {"closing", "killed"})
             \/ /\ client[c].at \in {"locating", "sending"} /\ r'[c].at # "hung"
                /\ answer'[c] = Append(answer[c], Frm("error", c))
      BY ONLY <2>3 DEF Answered
    <3>. QED  BY ONLY <1>1, <2>1, <3>1, <3>2, <3>3, Types, Orderly, RStops
  <2>. QED  BY ONLY <1>2, <2>2, <2>3 DEF Ends
<1>3. CASE r[c].then \in {"up", "locating"} /\ Moved(c, r[c].then)
  <2>1. /\ r'[c].at = r[c].then /\ r'[c].holds = r[c].holds /\ r'[c].out = r[c].out
        /\ writer' = writer /\ answer'[c] = answer[c] /\ r'[c].then = r[c].then
    BY ONLY <1>3 DEF Moved
  <2>2. (Early(c)' <=> Early(c)) /\ (Good(c)' <=> Good(c))
    BY ONLY <1>1, <1>3, <2>1 DEF Early, Good, Goes
  <2>3. r[c].at \in {"up", "sending"} /\ r'[c].at \in {"locating", "up"}
    BY ONLY <1>1, <1>3, <2>1
  <2>. QED  BY ONLY <1>1, <2>1, <2>2, <2>3, Types, Orderly, RGoesOn
<1>. QED  BY ONLY <1>1, <1>2, <1>3

\* It gives up the look-up.
LEMMA RLocateTimeoutOrderly ==
  ASSUME Types, Orderly, NEW c \in Client, RLocateTimeout(c) PROVE Orderly'
<1>1. /\ RSide(c) /\ r[c].at = "locating" /\ rfifo'[c] = rfifo[c] /\ reader' = reader
      /\ Answered(c, Frm("absent", c), "gone", "faulted")
  BY RLocateTimeoutDoes
<1>2. Frm("absent", c) \in Frame /\ Frm("absent", c).kind # "reply"
  BY FrameIs DEF Kind
<1>3. Pulled(c)
  BY ONLY <1>1 DEF Pulled
<1>4. None(r[c].out)
  BY <1>1, NoOut
<1>5. Held(c) = 1 /\ Runs(c)
  <2>1. OneOut(c) /\ Early(c) /\ Runs(c)
    BY <1>1 DEF Orderly, Conduit, Early, Runs
  <2>. QED  BY ONLY <1>1, <2>1 DEF OneOut
<1>6. /\ writer' = writer /\ r'[c].out = r[c].out /\ r'[c].at \in {"gone", "hung", "faulted"}
      /\ \/ answer'[c] = answer[c] /\ (r'[c].at = "hung" => client[c].at \in {"closing", "killed"})
         \/ /\ client[c].at \in {"locating", "sending"} /\ r'[c].at # "hung"
            /\ answer'[c] = Append(answer[c], Frm("absent", c))
  BY ONLY <1>1 DEF Answered
<1>. QED  BY ONLY <1>1, <1>2, <1>3, <1>4, <1>5, <1>6, Types, Orderly, RStops

\* What rs232_r has for its client is passed on.
LEMMA RPassesOn ==
  ASSUME Types, Orderly, NEW c \in Client, RSide(c), writer' = writer, Took(c, "remote"),
         reader'["A"] = NoFrame, r[c].at \in {"locating", "up"}, Held(c) = 1,
         r[c].at = "locating" \/ reader["A"].kind \in {"reply", "found", "absent"},
         r'[c].at = "up", r'[c].holds = FALSE, r'[c].out = r[c].out,
         client[c].at \in {"locating", "sending"}, answer'[c] = Append(answer[c], reader["A"])
  PROVE  Orderly'
<1>1. /\ UNCHANGED <<setup, client, s, seg, yfifo, line, lost, receiver, vfifo, taken, got>>
      /\ reader'["B"] = reader["B"] /\ Seg(c)' = Seg(c) /\ (Sends(c)' <=> Sends(c))
      /\ Forked(c)' = Forked(c) /\ Served(c)' = Served(c) /\ Near(c)' = Near(c) /\ At(c)' = At(c)
      /\ \A n : (Known(c, n)' <=> Known(c, n)) /\ (Serving(c, n)' <=> Serving(c, n))
  BY RLeaves
<1>2. Pulled(c)
  <2>1. "remote" \in Posts
    BY DEF Posts
  <2>. QED  BY <2>1 DEF Pulled
<1>3. /\ Offer(c)'
      /\ \A i \in DOMAIN rfifo'[c] : rfifo'[c][i].of = c /\ rfifo'[c][i].kind \in Posts
      /\ \A K : Up(c, K)' <= Up(c, K) /\ Up(c, K)' \in Nat
  BY <1>2, PulledIs
<1>4. Conduit(c) /\ Amount(c)
  BY Amounts DEF Orderly
<1>5. \A K : Down(c, K)' = Down(c, K)
  <2>2. \A K : Down(c, K)' =
                  Is(r'[c].out, c, K) + Number(line["A"], c, K) + Is(reader["B"], c, K)
    BY RLeaves
  <2>. QED  BY ONLY <2>2, r'[c].out = r[c].out DEF Down
<1>6. PICK m : m = reader["A"]
  OBVIOUS
<1>7. m \in Frame /\ m.of = c /\ m.kind \in Ups /\ ~ None(m)
  BY <1>6, TookIs, RTypes
<1>8. \A K : Up(c, K) = Up(c, K)' + (IF m.kind \in K THEN 1 ELSE 0)
  <2>1. ASSUME NEW K PROVE Is(m, c, K) = (IF m.kind \in K THEN 1 ELSE 0) /\ Is(NoFrame, c, K) = 0
    BY ONLY <1>7, IsNat, FrameIs
  <2>2. \A K : Is(Seg(c), c, K) \in {0, 1} /\ Number(line["B"], c, K) \in Nat
    BY <1>4, IsNat DEF Amount
  <2>3. \A K : Up(c, K)' = Is(Seg(c), c, K) + Number(line["B"], c, K) + Is(reader'["A"], c, K)
    BY RLeaves
  <2>. QED  BY ONLY <1>6, <2>1, <2>2, <2>3, reader'["A"] = NoFrame DEF Up
<1>9. /\ ~ Goes(c)' /\ ~ Early(c)' /\ Good(c)' /\ Runs(c)' /\ Held(c)' = 0
      /\ r'[c].at = "up" /\ None(r[c].out) /\ None(r'[c].out)
  <2>1. None(r[c].out)
    BY NoOut
  <2>. QED  BY <2>1 DEF Goes, Early, Good, Runs, Held
<1>10. /\ r[c].at = "locating" => Early(c) /\ Runs(c)
       /\ r[c].at = "up" => Good(c) /\ Runs(c)
       /\ Runs(c)
  BY DEF Early, Good, Runs
<1>11. /\ r[c].at = "locating" => m.kind \in {"found", "absent"} /\ client[c].at = "locating"
       /\ r[c].at = "up" => m.kind = "reply"
  <2>1. LookUp(c) /\ OneOut(c)
    BY <1>4 DEF Conduit
  <2>2. CASE r[c].at = "locating"
    <3>1. Down(c, Others) + Up(c, Others) = 0 /\ client[c].at \notin {"idle", "sending", "refused"}
      BY ONLY <1>10, <2>1, <2>2 DEF LookUp, OneOut
    <3>2. Down(c, Others) \in Nat /\ Up(c, Others)' \in Nat
      BY ONLY <1>3, <1>4 DEF Amount
    <3>6. m.kind \in Others => Up(c, Others) = Up(c, Others)' + 1
      BY ONLY <1>8
    <3>3. m.kind \notin Others
      BY ONLY <3>1, <3>2, <3>6
    <3>4. m.kind \in {"found", "absent"}
      BY ONLY <1>7, <3>3 DEF Ups, Others
    <3>5. client[c].at = "locating"
      BY ONLY <3>1, client[c].at \in {"locating", "sending"}
    <3>. QED  BY ONLY <2>2, <3>4, <3>5
  <2>3. CASE r[c].at = "up"
    <3>1. Down(c, Looks) + Up(c, Looks) + Forked(c) = 0
      BY ONLY <1>10, <2>1, <2>3 DEF LookUp
    <3>2. Down(c, Looks) \in Nat /\ Up(c, Looks)' \in Nat /\ Forked(c) \in {0, 1}
      BY ONLY <1>3, <1>4 DEF Amount
    <3>6. m.kind \in Looks => Up(c, Looks) = Up(c, Looks)' + 1
      BY ONLY <1>8
    <3>3. m.kind \notin Looks
      BY ONLY <3>1, <3>2, <3>6
    <3>4. m.kind \in {"reply", "found", "absent"}
      BY <1>6, <2>3
    <3>5. m.kind = "reply"
      BY ONLY <3>3, <3>4 DEF Looks
    <3>. QED  BY ONLY <2>3, <3>5
  <2>. QED  BY ONLY <2>2, <2>3, r[c].at \in {"locating", "up"}
<1>12. /\ Number(rfifo[c], c, Calls)' = Number(rfifo[c], c, Calls)
       /\ Number(rfifo[c], c, Proxies) = 0 => Number(rfifo[c], c, Proxies)' = 0
       /\ Before(rfifo[c], c, Proxies, Calls) => Before(rfifo[c], c, Proxies, Calls)'
       /\ \A n : AllOwn(rfifo[c], c, Calls, n) => AllOwn(rfifo[c], c, Calls, n)'
  BY ONLY Took(c, "remote"), reader'["A"] = NoFrame, Types, Orderly, RSide(c), NotCalled
<1>13. Formed(c)'
  <2>1. Formed(c)
    BY <1>4 DEF Conduit
  <2>. QED  BY ONLY <1>1, <1>3, <1>9, <2>1 DEF Formed
<1>14. /\ Len(answer[c]) = 0 /\ Number(rfifo[c], c, Calls) = 0
       /\ answer'[c] = <<m>> /\ Len(answer'[c]) = 1 /\ Head(answer'[c]) = m
       /\ Before(rfifo[c], c, Proxies, Calls)
  <2>1. OneOut(c)
    BY <1>4 DEF Conduit
  <2>2. /\ Number(rfifo[c], c, Calls) + Held(c) + Len(answer[c]) <= 1
        /\ Before(rfifo[c], c, Proxies, Calls)
    BY ONLY <1>10, <2>1 DEF OneOut
  <2>3. Number(rfifo[c], c, Calls) \in Nat /\ Len(answer[c]) \in Nat
    BY ONLY <1>4 DEF Amount
  <2>4. Len(answer[c]) = 0 /\ Number(rfifo[c], c, Calls) = 0
    BY ONLY <2>2, <2>3, Held(c) = 1
  <2>5. answer[c] \in Seq(Frame)
    BY DEF Types
  <2>6. answer[c] = <<>>
    BY ONLY <2>4, <2>5, Items
  <2>7. answer'[c] = Append(<<>>, m)
    BY ONLY <1>6, <2>6, answer'[c] = Append(answer[c], reader["A"])
  <2>8. Append(<<>>, m) = <<m>>
    OBVIOUS
  <2>9. answer'[c] = <<m>>
    BY ONLY <2>7, <2>8
  <2>10. Len(answer'[c]) = 1 /\ Head(answer'[c]) = m
    BY ONLY <2>9
  <2>. QED  BY ONLY <2>2, <2>4, <2>9, <2>10
<1>15. OneOut(c)'
  <2>1. /\ Number(rfifo[c], c, Calls)' = 0 /\ Before(rfifo[c], c, Proxies, Calls)'
    BY ONLY <1>12, <1>14
  <2>2. client'[c].at \in {"locating", "sending"} /\ Len(answer'[c]) = 1
    BY <1>1, <1>14
  <2>. QED  BY ONLY <1>9, <2>1, <2>2 DEF OneOut
<1>16. LookUp(c)'
  <2>1. LookUp(c)
    BY <1>4 DEF Conduit
  <2>2. /\ Down(c, Looks) \in Nat /\ Up(c, Looks)' \in Nat /\ Forked(c) \in {0, 1}
        /\ Down(c, Looks)' = Down(c, Looks) /\ Down(c, Locates)' = Down(c, Locates)
    BY ONLY <1>3, <1>4, <1>5 DEF Amount
  <2>3. Down(c, Looks)' + Up(c, Looks)' + Forked(c)' = 0 /\ s[c].at # "none"
    <3>1. CASE r[c].at = "locating"
      <4>1. m.kind \in Looks
        BY ONLY <1>11, <3>1 DEF Looks
      <4>2. Up(c, Looks) = Up(c, Looks)' + 1
        BY ONLY <1>8, <4>1
      <4>3. Down(c, Looks) + Up(c, Looks) + Forked(c) <= 1
        BY ONLY <2>1 DEF LookUp
      <4>4. Up(c, Looks) # 0
        BY ONLY <2>2, <4>2
      <4>. QED  BY ONLY <1>1, <2>1, <2>2, <4>2, <4>3, <4>4 DEF LookUp
    <3>2. CASE r[c].at = "up"
      <4>1. Down(c, Looks) + Up(c, Looks) + Forked(c) = 0 /\ s[c].at # "none"
        BY ONLY <1>10, <2>1, <3>2 DEF LookUp
      <4>2. Up(c, Looks)' <= Up(c, Looks) /\ Up(c, Looks) \in Nat
        BY ONLY <1>3, <1>4 DEF Amount
      <4>. QED  BY ONLY <1>1, <2>2, <4>1, <4>2
    <3>. QED  BY ONLY <3>1, <3>2, r[c].at \in {"locating", "up"}
  <2>4. Down(c, Looks)' + Up(c, Looks)' + Forked(c)' <= 1
    BY ONLY <2>3
  <2>5. s'[c].at # "none"
    BY ONLY <1>1, <2>3
  <2>. QED  BY ONLY <1>1, <1>9, <2>1, <2>2, <2>3, <2>4, <2>5 DEF LookUp
<1>17. Down(c, Words)' + Far(c)' = 0 /\ Far(c)' = 0 /\ Up(c, Words)' \in Nat
  <2>1. Transit(c) /\ Down(c, Words) \in Nat /\ Served(c) \in Nat /\ Up(c, Words) \in Nat
        /\ Up(c, Words)' \in Nat /\ Down(c, Words)' = Down(c, Words)
    BY <1>3, <1>4, <1>5 DEF Conduit, Amount
  <2>2. CASE r[c].at = "locating"
    <3>1. Down(c, Words) + Far(c) = 0
      BY ONLY <1>10, <2>1, <2>2 DEF Transit
    <3>2. Up(c, Words)' <= Up(c, Words)
      BY ONLY <1>3
    <3>3. Far(c) = Up(c, Words) + Served(c) /\ Far(c)' = Up(c, Words)' + Served(c)
      BY ONLY <1>1 DEF Far
    <3>. QED  BY ONLY <2>1, <3>1, <3>2, <3>3
  <2>3. CASE r[c].at = "up"
    <3>1. Down(c, Words) + Far(c) <= 1
      BY ONLY <2>1 DEF Transit
    <3>2. m.kind \in Words
      BY ONLY <1>11, <2>3 DEF Words
    <3>3. Up(c, Words) = Up(c, Words)' + 1
      BY ONLY <1>8, <3>2
    <3>. QED  BY ONLY <1>1, <2>1, <3>1, <3>3 DEF Far
  <2>. QED  BY ONLY <2>1, <2>2, <2>3, r[c].at \in {"locating", "up"}
<1>18. Transit(c)'
  <2>1. Transit(c) /\ Served(c) \in Nat /\ Down(c, Requests) \in Nat /\ Up(c, Requests)' \in Nat
    BY <1>3, <1>4 DEF Conduit, Amount
  <2>2. s'[c].at \in {"up", "sending"} /\ receiver' = "up" /\ lost' = 0 =>
            Down(c, Requests)' + Up(c, Requests)' + Served(c)' = 0
    <3>1. CASE r[c].at = "locating"
      <4>1. Down(c, Others) + Up(c, Others) = 0
        BY ONLY <1>4, <1>10, <3>1 DEF Conduit, LookUp
      <4>2. Down(c, Others) \in Nat /\ Up(c, Others) \in Nat
        BY ONLY <1>4 DEF Amount
      <4>3. Down(c, Requests) <= Down(c, Others) /\ Up(c, Requests) <= Up(c, Others)
        <5>1. Requests \subseteq Others
          BY DEF Requests, Others
        <5>2. \A n : Is(n, c, Requests) <= Is(n, c, Others)
          BY ONLY <5>1, IsNat
        <5>3. /\ Number(line["A"], c, Requests) <= Number(line["A"], c, Others)
              /\ Number(line["B"], c, Requests) <= Number(line["B"], c, Others)
          <6>1. line["A"] \in Seq(Frame) /\ line["B"] \in Seq(Frame)
            BY DEF Types, Host
          <6>. QED  BY ONLY <5>1, <6>1, NumberMore
        <5>4. /\ \A n, K : Is(n, c, K) \in {0, 1}
              /\ Number(line["B"], c, Requests) \in Nat /\ Number(line["B"], c, Others) \in Nat
              /\ Number(line["A"], c, Requests) \in Nat /\ Number(line["A"], c, Others) \in Nat
          BY <1>4, IsNat DEF Amount
        <5>. QED  BY ONLY <5>2, <5>3, <5>4 DEF Down, Up
      <4>4. Served(c) = 0
        <5>1. Down(c, Words) + Far(c) = 0
          BY ONLY <1>10, <2>1, <3>1 DEF Transit
        <5>2. Down(c, Words) \in Nat /\ Up(c, Words) \in Nat
          BY ONLY <1>4 DEF Amount
        <5>. QED  BY ONLY <2>1, <5>1, <5>2 DEF Far
      <4>5. Up(c, Requests)' <= Up(c, Requests) /\ Up(c, Requests) \in Nat
        BY ONLY <1>3, <1>4 DEF Amount
      <4>6. Down(c, Requests)' = Down(c, Requests)
        BY ONLY <1>5
      <4>. QED  BY ONLY <1>1, <2>1, <4>1, <4>2, <4>3, <4>4, <4>5, <4>6
    <3>2. CASE r[c].at = "up"
      <4>1. s[c].at \in {"up", "sending"} /\ receiver = "up" /\ lost = 0 =>
                Down(c, Requests) + Up(c, Requests) + Served(c) = 1
        BY ONLY <1>10, <2>1, <3>2, Held(c) = 1 DEF Transit
      <4>2. Up(c, Requests) = Up(c, Requests)' + 1
        <5>1. m.kind \in Requests
          BY ONLY <1>11, <3>2 DEF Requests
        <5>. QED  BY ONLY <1>8, <5>1
      <4>3. Down(c, Requests)' = Down(c, Requests)
        BY ONLY <1>5
      <4>. QED  BY ONLY <1>1, <2>1, <4>1, <4>2, <4>3
    <3>. QED  BY ONLY <3>1, <3>2, r[c].at \in {"locating", "up"}
  <2>3. Sends(c)' => Served(c)' = 0
    BY ONLY <1>1, <2>1 DEF Transit
  <2>. QED  BY ONLY <1>9, <1>17, <2>2, <2>3 DEF Transit
<1>19. InTurn(c)'
  <2>1. InTurn(c) /\ r'[c].out = r[c].out
    BY <1>4 DEF Conduit
  <2>2. Is(r'[c].out, c, Quiets) = 0
    BY <1>9, IsNat
  <2>3. At(c) + Far(c) = 0 => At(c)' + Far(c)' = 0
    <3>1. At(c) \in {0, 1} /\ Far(c) \in Nat
      BY ONLY <1>4 DEF Amount
    <3>. QED  BY ONLY <1>1, <1>17, <3>1
  <2>. QED  BY ONLY <1>1, <1>17, <2>1, <2>2, <2>3 DEF InTurn
<1>20. ASSUME client[c].at = "sending", NEW n, n = client[c].asked
       PROVE  /\ Coming(c, n) /\ Serving(c, n) /\ Going(c, n) /\ m.kind = "reply"
              /\ m.n = n /\ Known(c, n)
  <2>1. r[c].at = "up"
    BY ONLY <1>11, <1>20, r[c].at \in {"locating", "up"}
  <2>2. Coming(c, n) /\ Serving(c, n) /\ Going(c, n)
    BY ONLY <1>4, <1>10, <1>20, <2>1 DEF Conduit, Current
  <2>3. m.kind = "reply" /\ m.kind \in Words
    BY ONLY <1>11, <2>1 DEF Words
  <2>4. Of(m, c, Words)
    BY ONLY <1>7, <2>3 DEF Of
  <2>5. Up(c, Words) # 0
    BY ONLY <1>8, <1>17, <2>3
  <2>. QED  BY ONLY <1>6, <2>2, <2>3, <2>4, <2>5 DEF Going, Own
<1>21. Current(c)'
  <2>1. ASSUME client[c].at = "sending"
        PROVE  /\ Coming(c, client[c].asked)' /\ Serving(c, client[c].asked)'
               /\ Going(c, client[c].asked)'
    <3>1. PICK n : n = client[c].asked
      OBVIOUS
    <3>2. Coming(c, n) /\ Serving(c, n) /\ Going(c, n) /\ Known(c, n)
      BY ONLY <1>20, <2>1, <3>1
    <3>3. Coming(c, n)'
      BY ONLY <1>1, <1>12, <3>2, r'[c].out = r[c].out DEF Coming
    <3>4. Own(reader'["A"], c, n)
      <4>1. ~ Of(NoFrame, c, Words)
        BY FrameIs, IsNat
      <4>. QED  BY ONLY <4>1, reader'["A"] = NoFrame DEF Own
    <3>5. Going(c, n)'
      BY ONLY <1>1, <3>2, <3>4 DEF Going
    <3>. QED  BY ONLY <1>1, <3>1, <3>2, <3>3, <3>5
  <2>. QED  BY ONLY <1>1, <2>1 DEF Current
<1>22. Right(c)'
  <2>1. ASSUME client[c].at = "sending"
        PROVE  Head(answer'[c]).n = client[c].asked /\ Known(c, client[c].asked)
    BY ONLY <1>14, <1>20, <2>1
  <2>. QED  BY ONLY <1>1, <2>1 DEF Right
<1>23. Conduit(c)'
  BY ONLY <1>3, <1>13, <1>15, <1>16, <1>18, <1>19, <1>21, <1>22 DEF Conduit
<1>24. Line(c)
  BY <1>6, <1>7 DEF Line
<1>. QED  BY ONLY <1>23, <1>24, Types, Orderly, RSide(c), RRest

\* It hears of the receiver.
LEMMA RLocatedOrderly ==
  ASSUME Types, Orderly, NEW c \in Client, RLocated(c) PROVE Orderly'
<1>1. /\ RSide(c) /\ Took(c, "remote") /\ reader'["A"] = NoFrame /\ r[c].at = "locating"
      /\ Answered(c, reader["A"], "up", "faulted")
  BY RLocatedDoes
<1>2. None(r[c].out)
  BY <1>1, NoOut
<1>3. Held(c) = 1 /\ Runs(c)
  <2>1. OneOut(c) /\ Early(c) /\ Runs(c)
    BY <1>1 DEF Orderly, Conduit, Early, Runs
  <2>. QED  BY ONLY <1>1, <2>1 DEF OneOut
<1>4. Pulled(c)
  <2>1. "remote" \in Posts
    BY DEF Posts
  <2>. QED  BY ONLY <1>1, <2>1 DEF Pulled
<1>5. /\ writer' = writer /\ r'[c].out = r[c].out /\ r'[c].holds = FALSE
      /\ \/ /\ r'[c].at = "up" /\ client[c].at \in {"locating", "sending"}
            /\ answer'[c] = Append(answer[c], reader["A"])
         \/ /\ r'[c].at \in {"hung", "faulted"} /\ answer'[c] = answer[c]
            /\ r'[c].at = "hung" => client[c].at \in {"closing", "killed"}
  BY ONLY <1>1 DEF Answered
<1>6. CASE /\ r'[c].at = "up" /\ client[c].at \in {"locating", "sending"}
           /\ answer'[c] = Append(answer[c], reader["A"])
  BY ONLY <1>1, <1>3, <1>5, <1>6, Types, Orderly, RPassesOn
<1>7. CASE /\ r'[c].at \in {"hung", "faulted"} /\ answer'[c] = answer[c]
           /\ r'[c].at = "hung" => client[c].at \in {"closing", "killed"}
  BY ONLY <1>1, <1>2, <1>4, <1>5, <1>7, Types, Orderly, RStops
<1>. QED  BY ONLY <1>5, <1>6, <1>7

\* It hears from surrogate_s.
LEMMA RRemoteOrderly ==
  ASSUME Types, Orderly, NEW c \in Client, RRemote(c) PROVE Orderly'
<1>1. /\ RSide(c) /\ Took(c, "remote") /\ reader'["A"] = NoFrame /\ r[c].at = "up"
      /\ \/ /\ reader["A"].kind \in {"reply", "found", "absent"} /\ r[c].holds
            /\ Answered(c, reader["A"], "up", "faulted")
         \/ reader["A"].kind = "alive" /\ Moved(c, "up")
         \/ Ends(c)
  BY RRemoteDoes
<1>2. None(r[c].out) /\ Runs(c)
  BY <1>1, NoOut DEF Runs
<1>3. Pulled(c)
  <2>1. "remote" \in Posts
    BY DEF Posts
  <2>. QED  BY ONLY <1>1, <2>1 DEF Pulled
<1>4. CASE /\ reader["A"].kind \in {"reply", "found", "absent"} /\ r[c].holds
           /\ Answered(c, reader["A"], "up", "faulted")
  <2>1. Held(c) = 1
    BY ONLY <1>4 DEF Held
  <2>2. /\ writer' = writer /\ r'[c].out = r[c].out /\ r'[c].holds = FALSE
        /\ \/ /\ r'[c].at = "up" /\ client[c].at \in {"locating", "sending"}
              /\ answer'[c] = Append(answer[c], reader["A"])
           \/ /\ r'[c].at \in {"hung", "faulted"} /\ answer'[c] = answer[c]
              /\ r'[c].at = "hung" => client[c].at \in {"closing", "killed"}
    BY ONLY <1>4 DEF Answered
  <2>3. CASE /\ r'[c].at = "up" /\ client[c].at \in {"locating", "sending"}
             /\ answer'[c] = Append(answer[c], reader["A"])
    BY ONLY <1>1, <1>4, <2>1, <2>2, <2>3, Types, Orderly, RPassesOn
  <2>4. CASE /\ r'[c].at \in {"hung", "faulted"} /\ answer'[c] = answer[c]
             /\ r'[c].at = "hung" => client[c].at \in {"closing", "killed"}
    BY ONLY <1>1, <1>2, <1>3, <2>2, <2>4, Types, Orderly, RStops
  <2>. QED  BY ONLY <2>2, <2>3, <2>4
<1>5. CASE reader["A"].kind = "alive" /\ Moved(c, "up")
  <2>1. /\ r'[c].at = "up" /\ r'[c].holds = r[c].holds /\ r'[c].out = r[c].out
        /\ writer' = writer /\ answer'[c] = answer[c]
    BY ONLY <1>5 DEF Moved
  <2>2. (Early(c)' <=> Early(c)) /\ (Good(c)' <=> Good(c))
    BY ONLY <1>1, <2>1 DEF Early, Good, Goes
  <2>. QED  BY ONLY <1>1, <1>2, <1>5, <2>1, <2>2, Types, Orderly, RGoesOn
<1>6. CASE Ends(c)
  <2>2. CASE Moved(c, "faulted") \/ Moved(c, "gone")
    <3>1. /\ writer' = writer /\ r'[c].at \in {"faulted", "gone"} /\ r'[c].out = r[c].out
          /\ answer'[c] = answer[c]
      BY ONLY <2>2 DEF Moved
    <3>. QED  BY ONLY <1>1, <1>2, <1>3, <3>1, Types, Orderly, RStops
  <2>3. CASE r[c].holds /\ Answered(c, Frm("error", c), "gone", "gone")
    <3>1. Held(c) = 1
      BY ONLY <2>3 DEF Held
    <3>2. Frm("error", c) \in Frame /\ Frm("error", c).kind # "reply"
      BY FrameIs DEF Kind
    <3>3. /\ writer' = writer /\ r'[c].out = r[c].out /\ r'[c].at \in {"gone", "hung"}
          /\ \/ answer'[c] = answer[c] /\ (r'[c].at = "hung" => client[c].at \in {"closing", "killed"})
             \/ /\ client[c].at \in {"locating", "sending"} /\ r'[c].at # "hung"
                /\ answer'[c] = Append(answer[c], Frm("error", c))
      BY ONLY <2>3 DEF Answered
    <3>. QED  BY ONLY <1>1, <1>2, <1>3, <3>1, <3>2, <3>3, Types, Orderly, RStops
  <2>. QED  BY ONLY <1>6, <2>2, <2>3 DEF Ends
<1>. QED  BY ONLY <1>1, <1>4, <1>5, <1>6

-----------------------------------------------------------------------------
(* The steps of surrogate_s.                                               *)

\* What surrogate_s leaves alone of its conduit, and what it counts.
LEMMA SLeaves ==
  ASSUME NEW c \in Client, SSide(c)
  PROVE  /\ UNCHANGED <<setup, client, answer, r, rfifo, line, lost, receiver, taken, got>>
         /\ reader'["A"] = reader["A"] /\ writer'["A"] = writer["A"] /\ Near(c)' = Near(c)
         /\ Held(c)' = Held(c) /\ (Early(c)' <=> Early(c)) /\ (Good(c)' <=> Good(c))
         /\ \A n : Known(c, n)' <=> Known(c, n)
         /\ \A K : /\ Down(c, K)' =
                         Is(r[c].out, c, K) + Number(line["A"], c, K) + Is(reader'["B"], c, K)
                   /\ Up(c, K)' =
                         Is(Seg(c)', c, K) + Number(line["B"], c, K) + Is(reader["A"], c, K)
         /\ Offer(c) => Offer(c)' /\ (OneOut(c) => OneOut(c)') /\ (Right(c) => Right(c)')
<1>1. /\ UNCHANGED <<setup, client, answer, r, rfifo, line, lost, receiver, taken, got>>
      /\ reader'["A"] = reader["A"] /\ writer'["A"] = writer["A"]
  BY DEF SSide, rVars
<1>2. /\ Near(c)' = Near(c) /\ Held(c)' = Held(c) /\ (Goes(c)' <=> Goes(c))
      /\ (Runs(c)' <=> Runs(c)) /\ \A n : Known(c, n)' <=> Known(c, n)
  BY ONLY <1>1 DEF Near, Held, Known, Goes, Runs
<1>3. (Early(c)' <=> Early(c)) /\ (Good(c)' <=> Good(c))
  BY ONLY <1>1, <1>2 DEF Early, Good
<1>4. ASSUME NEW K
      PROVE  /\ Down(c, K)' =
                   Is(r[c].out, c, K) + Number(line["A"], c, K) + Is(reader'["B"], c, K)
             /\ Up(c, K)' =
                   Is(Seg(c)', c, K) + Number(line["B"], c, K) + Is(reader["A"], c, K)
  BY ONLY <1>1 DEF Down, Up
<1>5. (Offer(c) => Offer(c)') /\ (Right(c) => Right(c)')
  BY ONLY <1>1, <1>2 DEF Offer, Right
<1>6. OneOut(c) => OneOut(c)'
  BY ONLY <1>1, <1>2, <1>3 DEF OneOut
<1>. QED  BY ONLY <1>1, <1>2, <1>3, <1>4, <1>5, <1>6

\* It reaches its own conduit only, in its order on the line.
SLine(c) ==
    /\ reader'["B"] = reader["B"] \/ (reader'["B"] = NoFrame /\ reader["B"].of = c)
    /\ s[c].at # "sending" \/ yfifo[c] # <<>>
    /\ \/ writer' = writer
       \/ /\ writer'["B"] = Append(writer["B"], c) /\ s'[c].at = "sending" /\ yfifo'[c] = <<>>
    /\ \/ vfifo' = vfifo
       \/ /\ receiver = "up"
          /\ \E m \in Frame : vfifo' = Append(vfifo, m) /\ m.of = c /\ m.kind \in {"send", "proxy"}

\* So the rest of the invariant holds after its step.
LEMMA SRest ==
  ASSUME Types, Orderly, NEW c \in Client, SSide(c), SLine(c),
         (Formed(c) /\ LookUp(c) /\ Transit(c) /\ InTurn(c) /\ Current(c))'
  PROVE  Orderly'
<1>1. /\ UNCHANGED <<setup, client, answer, r, rfifo, line, lost, receiver, taken, got>>
      /\ reader'["A"] = reader["A"] /\ writer'["A"] = writer["A"] /\ Elsewhere(c) /\ None(NoFrame)
  BY SLeaves, FrameIs DEF SSide
<1>2. vfifo \in Seq(Frame) /\ line["A"] \in Seq(Frame) /\ line["B"] \in Seq(Frame)
      /\ writer["A"] \in Seq(Client) /\ writer["B"] \in Seq(Client)
  BY DEF Types, Host
<1>3. Kinds'
  <2>1. Kinds
    BY DEF Orderly
  <2>2. None(reader'["B"]) \/ reader'["B"].kind \in Downs
    BY ONLY <1>1, <2>1, SLine(c) DEF Kinds, SLine
  <2>3. \A i \in DOMAIN vfifo' : vfifo'[i].kind \in {"send", "proxy"}
    <3>1. \A i \in DOMAIN vfifo : vfifo[i].kind \in {"send", "proxy"}
      BY ONLY <2>1 DEF Kinds
    <3>2. CASE vfifo' = vfifo
      BY ONLY <3>1, <3>2
    <3>3. CASE \E m \in Frame : vfifo' = Append(vfifo, m) /\ m.of = c /\ m.kind \in {"send", "proxy"}
      <4>1. PICK m \in Frame : vfifo' = Append(vfifo, m) /\ m.of = c /\ m.kind \in {"send", "proxy"}
        BY ONLY <3>3
      <4>2. /\ DOMAIN vfifo = 1..Len(vfifo) /\ DOMAIN vfifo' = 1..(Len(vfifo) + 1)
            /\ Len(vfifo) \in Nat /\ vfifo'[Len(vfifo) + 1] = m
            /\ \A i \in 1..Len(vfifo) : vfifo'[i] = vfifo[i]
        BY ONLY <1>2, <4>1, Items
      <4>3. \A i \in DOMAIN vfifo' : i \in DOMAIN vfifo \/ i = Len(vfifo) + 1
        BY ONLY <4>2
      <4>. QED  BY ONLY <3>1, <4>1, <4>2, <4>3
    <3>. QED  BY ONLY <3>2, <3>3, SLine(c) DEF SLine
  <2>4. receiver' = "gone" => vfifo' = <<>> /\ None(taken')
    BY ONLY <1>1, <2>1, SLine(c) DEF Kinds, SLine
  <2>. QED  BY ONLY <1>1, <2>1, <2>2, <2>3, <2>4 DEF Kinds
<1>4. Writers'
  <2>1. /\ \A i \in DOMAIN writer["A"] : ~ None(r[writer["A"][i]].out)
        /\ \A i \in DOMAIN writer["B"] : Sends(writer["B"][i]) /\ yfifo[writer["B"][i]] = <<>>
        /\ Distinct(writer["A"]) /\ Distinct(writer["B"])
    BY DEF Orderly, Writers
  <2>2. \A d \in Client \ {c} : s'[d] = s[d] /\ yfifo'[d] = yfifo[d]
    BY <1>1 DEF Elsewhere
  <2>. DEFINE q == writer["B"]
              p == writer'["B"]
  <2>3. \A i \in DOMAIN q : q[i] \in Client /\ q[i] # c
    <3>1. \A i \in DOMAIN q : q[i] \in Client
      BY <1>2
    <3>. QED  BY <2>1, <3>1 DEF SLine, Sends
  <2>4. \A i \in DOMAIN q : s'[q[i]].at = "sending" /\ yfifo'[q[i]] = <<>>
    BY ONLY <2>1, <2>2, <2>3 DEF Sends
  <2>5. /\ \A i \in DOMAIN p : s'[p[i]].at = "sending" /\ yfifo'[p[i]] = <<>>
        /\ Distinct(p)
    <3>1. CASE writer' = writer
      BY ONLY <2>1, <2>4, <3>1
    <3>2. CASE p = Append(q, c) /\ s'[c].at = "sending" /\ yfifo'[c] = <<>>
      <4>1. /\ DOMAIN q = 1..Len(q) /\ DOMAIN p = 1..(Len(q) + 1) /\ Len(q) \in Nat
            /\ p[Len(q) + 1] = c /\ \A i \in 1..Len(q) : p[i] = q[i]
        BY <1>2, <3>2, Items
      <4>4. Distinct(q)
        BY <2>1
      <4>. HIDE DEF p, q
      <4>5. \A i \in DOMAIN p : i \in DOMAIN q \/ i = Len(q) + 1
        BY ONLY <4>1
      <4>6. \A i \in DOMAIN p : s'[p[i]].at = "sending" /\ yfifo'[p[i]] = <<>>
        BY ONLY <2>4, <3>2, <4>1, <4>5
      <4>7. Distinct(p)
        BY ONLY <2>3, <4>1, <4>4, <4>5 DEF Distinct
      <4>. QED  BY <4>6, <4>7
    <3>. QED  BY <3>1, <3>2 DEF SLine
  <2>. QED  BY ONLY <1>1, <2>1, <2>5 DEF Writers, Sends
<1>5. ASSUME NEW d \in Client \ {c} PROVE Conduit(d)'
  <2>1. /\ \A q \in Seq(Frame) : LikeQ(q, q, d)
        /\ \A m : LikeM(m, m, d)
    BY LikeIs DEF LikeM
  <2>3. LikeM(reader["B"], reader'["B"], d)
    <3>1. CASE reader'["B"] = reader["B"]
      BY ONLY <2>1, <3>1
    <3>2. CASE reader'["B"] = NoFrame /\ reader["B"].of = c
      BY ONLY <1>1, <3>2, LikeMIs, d \in Client \ {c}
    <3>. QED  BY <3>1, <3>2 DEF SLine
  <2>4. LikeQ(vfifo, vfifo', d)
    <3>1. CASE vfifo' = vfifo
      BY ONLY <1>2, <2>1, <3>1
    <3>2. CASE \E m \in Frame : vfifo' = Append(vfifo, m) /\ m.of = c
      BY ONLY <1>2, <3>2, LikeIs, d \in Client \ {c}
    <3>. QED  BY <3>1, <3>2 DEF SLine
  <2>5. Shared(d)
    BY ONLY <1>1, <1>2, <2>1, <2>3, <2>4 DEF Shared
  <2>. QED  BY <1>1, <2>5, Bystander DEF Orderly
<1>6. Offer(c)' /\ OneOut(c)' /\ Right(c)'
  BY SLeaves DEF Orderly, Conduit
<1>7. Conduit(c)'
  BY <1>6 DEF Conduit
<1>. QED  BY ONLY <1>3, <1>4, <1>5, <1>7 DEF Orderly

\* What it counts after it took a frame or not, and after it sent one or not.
LEMMA SCounts ==
  ASSUME Types, NEW c \in Client, SSide(c)
  PROVE  /\ reader'["B"] = reader["B"] => \A K : Down(c, K)' = Down(c, K) /\ At(c)' = At(c)
         /\ Heard(c) => /\ \A K : Down(c, K) = Down(c, K)' + (IF reader["B"].kind \in K THEN 1 ELSE 0)
                        /\ At(c)' = 0 /\ At(c) = IF reader["B"].kind \in Words THEN 1 ELSE 0
                        /\ \A n : Own(reader'["B"], c, n)
                        /\ Is(reader'["B"], c, Quiets) = 0
         /\ \A K : /\ Up(c, K)' + Is(Seg(c), c, K) = Up(c, K) + Is(Seg(c)', c, K)
                   /\ Up(c, K)' \in Nat /\ Down(c, K)' \in Nat
<1>1. \A K : /\ Down(c, K)' =
                   Is(r[c].out, c, K) + Number(line["A"], c, K) + Is(reader'["B"], c, K)
             /\ Up(c, K)' = Is(Seg(c)', c, K) + Number(line["B"], c, K) + Is(reader["A"], c, K)
  BY SLeaves
<1>2. \A m, K : Is(m, c, K) \in {0, 1}
  BY IsNat
<1>3. \A K : Number(line["A"], c, K) \in Nat /\ Number(line["B"], c, K) \in Nat
  BY Amounts DEF Amount
<1>4. ASSUME NEW K
      PROVE  /\ Up(c, K)' + Is(Seg(c), c, K) = Up(c, K) + Is(Seg(c)', c, K)
             /\ Up(c, K)' \in Nat /\ Down(c, K)' \in Nat
  BY ONLY <1>1, <1>2, <1>3 DEF Up
<1>5. ASSUME reader'["B"] = reader["B"] PROVE \A K : Down(c, K)' = Down(c, K) /\ At(c)' = At(c)
  BY ONLY <1>1, <1>5 DEF Down, At
<1>6. ASSUME Heard(c)
      PROVE  /\ \A K : Down(c, K) = Down(c, K)' + (IF reader["B"].kind \in K THEN 1 ELSE 0)
             /\ At(c)' = 0 /\ At(c) = IF reader["B"].kind \in Words THEN 1 ELSE 0
             /\ \A n : Own(reader'["B"], c, n)
             /\ Is(reader'["B"], c, Quiets) = 0
  <2>1. /\ reader["B"].of = c /\ ~ None(reader["B"]) /\ reader'["B"] = NoFrame
    BY ONLY <1>6 DEF Heard, None
  <2>2. \A K : /\ Is(reader["B"], c, K) = (IF reader["B"].kind \in K THEN 1 ELSE 0)
               /\ Is(reader'["B"], c, K) = 0
    BY ONLY <2>1, IsNat, FrameIs
  <2>3. \A n : Own(reader'["B"], c, n)
    BY ONLY <2>2 DEF Is, Own
  <2>4. ASSUME NEW K
        PROVE  Down(c, K) = Down(c, K)' + (IF reader["B"].kind \in K THEN 1 ELSE 0)
    BY ONLY <1>1, <1>2, <1>3, <2>2 DEF Down
  <2>. QED  BY ONLY <2>2, <2>3, <2>4 DEF At
<1>. QED  BY <1>4, <1>5, <1>6

\* No request or answer is lost by it, and none overtakes.
LEMMA SCarries ==
  ASSUME Types, Orderly, NEW c \in Client, SSide(c), SLine(c), Formed(c)', Current(c)',
         s[c].at \in {"up", "sending"}, s'[c].at \in {"up", "sending", "gone"},
         Down(c, Words)' + Far(c)' <= Down(c, Words) + Far(c),
         Down(c, Looks)' + Up(c, Looks)' <= Down(c, Looks) + Up(c, Looks),
         Down(c, Locates)' <= Down(c, Locates),
         Early(c) => Down(c, Others)' + Up(c, Others)' <= Down(c, Others) + Up(c, Others),
         Sends(c)' => Served(c)' = 0, Far(c)' \in Nat,
         s'[c].at # "gone" /\ receiver = "up" =>
             Down(c, Requests)' + Up(c, Requests)' + Served(c)' =
             Down(c, Requests) + Up(c, Requests) + Served(c),
         At(c) + Far(c) = 0 => At(c)' + Far(c)' = 0,
         \/ Is(reader'["B"], c, Quiets) = 0
         \/ reader'["B"] = reader["B"] /\ (Far(c) = 0 => Far(c)' = 0)
  PROVE  Orderly'
<1>1. /\ UNCHANGED <<client, r, rfifo, line, lost, receiver, taken, got>>
      /\ Near(c)' = Near(c)
      /\ Held(c)' = Held(c) /\ (Early(c)' <=> Early(c)) /\ (Good(c)' <=> Good(c))
  BY SLeaves
<1>2. LookUp(c) /\ Transit(c) /\ InTurn(c) /\ Amount(c)
  BY Amounts DEF Orderly, Conduit
<1>3. \A K : /\ Up(c, K)' \in Nat /\ Down(c, K)' \in Nat /\ Up(c, K) \in Nat /\ Down(c, K) \in Nat
  BY <1>2, SCounts DEF Amount
<1>4. LookUp(c)'
  <2>1. Forked(c) = 0 /\ Forked(c)' = 0
    BY DEF Forked
  <2>2. PICK a \in Nat, b \in Nat : a = Down(c, Looks)' /\ b = Up(c, Looks)'
    BY ONLY <1>3
  <2>3. PICK e \in Nat, f \in Nat : e = Down(c, Looks) /\ f = Up(c, Looks) /\ a + b <= e + f
    BY <1>3, <2>2
  <2>4. e + f + 0 <= 1 /\ (r[c].at = "attached" \/ Good(c) => e + f + 0 = 0)
    BY ONLY <1>2, <2>1, <2>3 DEF LookUp
  <2>5. a + b + 0 <= 1 /\ (r[c].at = "attached" \/ Good(c) => a + b + 0 = 0)
    <3>1. a \in Nat /\ b \in Nat /\ e \in Nat /\ f \in Nat /\ a + b <= e + f
      BY <2>3
    <3>2. r[c].at = "attached" \/ Good(c) => e + f + 0 = 0
      BY ONLY <2>4
    <3>3. e + f + 0 <= 1
      BY ONLY <2>4
    <3>4. CASE r[c].at = "attached" \/ Good(c)
      BY ONLY <3>1, <3>2, <3>4
    <3>5. CASE ~ (r[c].at = "attached" \/ Good(c))
      BY ONLY <3>1, <3>3, <3>5
    <3>. QED  BY ONLY <3>4, <3>5
  <2>6. /\ Down(c, Looks)' + Up(c, Looks)' + Forked(c)' <= 1
        /\ r'[c].at = "attached" \/ Good(c)' => Down(c, Looks)' + Up(c, Looks)' + Forked(c)' = 0
    BY ONLY <1>1, <2>1, <2>2, <2>5
  <2>7. Early(c)' => Down(c, Others)' + Up(c, Others)' = 0
    <3>1. Early(c) => Down(c, Others) + Up(c, Others) = 0
      BY ONLY <1>2 DEF LookUp
    <3>2. PICK g \in Nat, h \in Nat : g = Down(c, Others)' /\ h = Up(c, Others)'
      BY ONLY <1>3
    <3>3. Early(c) => g + h <= 0
      BY <3>1, <3>2
    <3>. QED  BY ONLY <1>1, <3>2, <3>3
  <2>8. Down(c, Locates)' = 0
    <3>1. Down(c, Locates) = 0
      BY <1>2 DEF LookUp
    <3>2. Down(c, Locates)' <= Down(c, Locates)
      OBVIOUS
    <3>. QED  BY ONLY <1>3, <3>1, <3>2
  <2>9. s'[c].at \notin {"none", "forked"} /\ r[c].at # "attached"
    BY ONLY <1>2, s[c].at \in {"up", "sending"}, s'[c].at \in {"up", "sending", "gone"} DEF LookUp
  <2>. QED  BY ONLY <1>1, <2>6, <2>7, <2>8, <2>9 DEF LookUp
<1>5. Transit(c)'
  <2>1. PICK a \in Nat, b \in Nat : a = Down(c, Words)' /\ b = Far(c)'
    BY <1>3
  <2>2. PICK e \in Nat, f \in Nat : e = Down(c, Words) /\ f = Far(c) /\ a + b <= e + f
    BY <1>2, <2>1 DEF Amount
  <2>3. /\ e + f <= 1 /\ (Early(c) => e + f = 0) /\ (Good(c) => e + f <= Held(c))
    BY ONLY <1>2, <2>2 DEF Transit
  <2>4. Held(c) \in {0, 1}
    BY ONLY <1>2 DEF Amount
  <2>5. /\ a + b <= 1 /\ (Early(c) => a + b = 0) /\ (Good(c) => a + b <= Held(c))
    <3>1. a \in Nat /\ b \in Nat /\ e \in Nat /\ f \in Nat /\ a + b <= e + f
      BY <2>2
    <3>2. /\ e + f <= 1 => a + b <= 1
          /\ e + f = 0 => a + b = 0
          /\ e + f <= Held(c) => a + b <= Held(c)
      BY ONLY <2>4, <3>1
    <3>. QED  BY ONLY <2>3, <3>2
  <2>6. Good(c) /\ s'[c].at # "gone" /\ receiver = "up" /\ lost = 0 =>
            Down(c, Requests)' + Up(c, Requests)' + Served(c)' = Held(c)
    <3>1. Good(c) /\ receiver = "up" /\ lost = 0 =>
              Down(c, Requests) + Up(c, Requests) + Served(c) = Held(c)
      BY <1>2 DEF Transit
    <3>2. s'[c].at # "gone" /\ receiver = "up" =>
             Down(c, Requests)' + Up(c, Requests)' + Served(c)' =
             Down(c, Requests) + Up(c, Requests) + Served(c)
      OBVIOUS
    <3>. QED  BY ONLY <3>1, <3>2
  <2>7. Sends(c)' => Served(c)' = 0
    OBVIOUS
  <2>. QED  BY ONLY <1>1, <2>1, <2>5, <2>6, <2>7 DEF Transit
<1>6. InTurn(c)'
  <2>1. /\ Is(r[c].out, c, Quiets) = 1 => Near(c) + At(c) + Far(c) = 0
        /\ Number(line["A"], c, Quiets) # 0 => At(c) + Far(c) = 0
        /\ Is(reader["B"], c, Quiets) = 1 => Far(c) = 0
        /\ Before(line["A"], c, Quiets, Words)
    BY <1>2 DEF InTurn
  <2>2. Near(c) \in Nat /\ At(c) \in {0, 1} /\ Far(c) \in Nat
    BY ONLY <1>2 DEF Amount
  <2>3. At(c)' \in {0, 1} /\ Far(c)' \in Nat
    <3>1. \A m : Is(m, c, Words) \in {0, 1}
      BY IsNat
    <3>. QED  BY <3>1 DEF At
  <2>4. At(c) + Far(c) = 0 => At(c)' + Far(c)' = 0
    OBVIOUS
  <2>5. Is(r[c].out, c, Quiets) = 1 => Near(c)' + At(c)' + Far(c)' = 0
    <3>1. Near(c) + At(c) + Far(c) = 0 => Near(c) = 0 /\ At(c) + Far(c) = 0
      BY ONLY <2>2
    <3>2. Near(c) = 0 /\ At(c)' + Far(c)' = 0 => Near(c) + At(c)' + Far(c)' = 0
      BY ONLY <2>3
    <3>. QED  BY ONLY <1>1, <2>1, <2>4, <3>1, <3>2
  <2>6. Number(line["A"], c, Quiets) # 0 => At(c)' + Far(c)' = 0
    BY ONLY <2>1, <2>4
  <2>7. Is(reader'["B"], c, Quiets) = 1 => Far(c)' = 0
    <3>1. \/ Is(reader'["B"], c, Quiets) = 0
          \/ reader'["B"] = reader["B"] /\ (Far(c) = 0 => Far(c)' = 0)
      OBVIOUS
    <3>. QED  BY ONLY <2>1, <3>1
  <2>. QED  BY ONLY <1>1, <2>1, <2>5, <2>6, <2>7 DEF InTurn
<1>. QED  BY <1>4, <1>5, <1>6, SRest

\* What the client's request carries is carried on.
LEMMA SCurrent ==
  ASSUME Types, Orderly, NEW c \in Client, SSide(c), reader'["B"] = reader["B"] \/ Heard(c),
         ASSUME NEW n, Coming(c, n), Serving(c, n), Going(c, n)
         PROVE  Serving(c, n)' /\ Own(Seg(c)', c, n) /\ (Up(c, Words)' # 0 => Known(c, n))
  PROVE  Current(c)'
<1>1. /\ UNCHANGED <<client, r, rfifo, line>> /\ reader'["A"] = reader["A"]
      /\ (Good(c)' <=> Good(c)) /\ \A n : Known(c, n)' <=> Known(c, n)
  BY SLeaves
<1>2. \A n : Own(reader["B"], c, n) => Own(reader'["B"], c, n)
  <2>1. CASE reader'["B"] = reader["B"]
    BY ONLY <2>1
  <2>2. CASE Heard(c)
    BY <2>2, SCounts
  <2>. QED  BY <2>1, <2>2
<1>3. ASSUME client[c].at = "sending", Good(c)
      PROVE  /\ Coming(c, client[c].asked)' /\ Serving(c, client[c].asked)'
             /\ Going(c, client[c].asked)'
  <2>1. PICK n : n = client[c].asked
    OBVIOUS
  <2>2. Current(c)
    BY DEF Orderly, Conduit
  <2>3. Coming(c, n) /\ Serving(c, n) /\ Going(c, n)
    BY ONLY <1>3, <2>1, <2>2 DEF Current
  <2>4. Serving(c, n)' /\ Own(Seg(c)', c, n) /\ (Up(c, Words)' # 0 => Known(c, n))
    BY <2>3
  <2>5. Coming(c, n)'
    BY ONLY <1>1, <1>2, <2>3 DEF Coming
  <2>6. Going(c, n)'
    BY ONLY <1>1, <2>3, <2>4 DEF Going
  <2>. QED  BY ONLY <1>1, <2>1, <2>4, <2>5, <2>6
<1>. QED  BY ONLY <1>1, <1>3 DEF Current

\* A step that moves no request and no answer.
LEMMA SPlain ==
  ASSUME Types, Orderly, NEW c \in Client, SSide(c), SLine(c), Formed(c)', Current(c)',
         s[c].at \in {"up", "sending"}, s'[c].at \in {"up", "sending", "gone"},
         Served(c)' = Served(c), Sends(c)' => Served(c) = 0,
         Up(c, Words)' = Up(c, Words), Up(c, Requests)' = Up(c, Requests),
         Up(c, Looks)' = Up(c, Looks),
         \/ reader'["B"] = reader["B"] /\ (Early(c) => Up(c, Others)' = Up(c, Others))
         \/ Heard(c) /\ ~ Early(c) /\ reader["B"].kind \in {"proxy", "alive", "close"}
  PROVE  Orderly'
<1>1. Amount(c)
  BY Amounts
<1>2. Far(c)' = Far(c) /\ Far(c)' \in Nat /\ (Far(c) = 0 => Far(c)' = 0)
  <2>1. Far(c)' = Far(c)
    BY DEF Far
  <2>. QED  BY ONLY <1>1, <2>1 DEF Amount
<1>3. \A K : Up(c, K) \in Nat /\ Down(c, K) \in Nat /\ Down(c, K)' \in Nat
  BY <1>1, SCounts DEF Amount
<1>4. /\ Down(c, Words)' = Down(c, Words) /\ Down(c, Requests)' = Down(c, Requests)
      /\ Down(c, Looks)' = Down(c, Looks) /\ Down(c, Locates)' = Down(c, Locates)
      /\ At(c)' = At(c) /\ (Early(c) => Down(c, Others)' = Down(c, Others))
      /\ (Early(c) => Up(c, Others)' = Up(c, Others))
      /\ Is(reader'["B"], c, Quiets) = 0 \/ reader'["B"] = reader["B"]
  <2>1. CASE reader'["B"] = reader["B"] /\ (Early(c) => Up(c, Others)' = Up(c, Others))
    <3>1. \A K : Down(c, K)' = Down(c, K) /\ At(c)' = At(c)
      BY <2>1, SCounts
    <3>. QED  BY ONLY <2>1, <3>1
  <2>2. CASE Heard(c) /\ ~ Early(c) /\ reader["B"].kind \in {"proxy", "alive", "close"}
    <3>1. /\ \A K : Down(c, K) = Down(c, K)' + (IF reader["B"].kind \in K THEN 1 ELSE 0)
          /\ At(c)' = 0 /\ At(c) = IF reader["B"].kind \in Words THEN 1 ELSE 0
          /\ Is(reader'["B"], c, Quiets) = 0
      BY <2>2, SCounts
    <3>2. /\ reader["B"].kind \notin Words /\ reader["B"].kind \notin Requests
          /\ reader["B"].kind \notin Looks /\ reader["B"].kind \notin Locates
      BY ONLY <2>2 DEF Words, Requests, Looks, Locates
    <3>3. \A K : reader["B"].kind \notin K => Down(c, K)' = Down(c, K)
      BY ONLY <1>3, <3>1
    <3>. QED  BY ONLY <2>2, <3>1, <3>2, <3>3
  <2>. QED  BY <2>1, <2>2
<1>5. /\ Down(c, Words)' + Far(c)' <= Down(c, Words) + Far(c)
      /\ Down(c, Looks)' + Up(c, Looks)' <= Down(c, Looks) + Up(c, Looks)
      /\ Down(c, Locates)' <= Down(c, Locates)
      /\ Early(c) => Down(c, Others)' + Up(c, Others)' <= Down(c, Others) + Up(c, Others)
  <2>1. \A i, j, k, l \in Nat : i = j /\ k = l => i + k <= j + l
    OBVIOUS
  <2>2. \A i, j \in Nat : i = j => i <= j
    OBVIOUS
  <2>3. Up(c, Looks)' = Up(c, Looks) /\ Far(c) \in Nat
    BY <1>1 DEF Amount
  <2>. QED  BY ONLY <1>2, <1>3, <1>4, <2>1, <2>2, <2>3
<1>6. s'[c].at # "gone" /\ receiver = "up" =>
             Down(c, Requests)' + Up(c, Requests)' + Served(c)' =
             Down(c, Requests) + Up(c, Requests) + Served(c)
  BY <1>4
<1>7. (Sends(c)' => Served(c)' = 0) /\ (At(c) + Far(c) = 0 => At(c)' + Far(c)' = 0)
  BY <1>2, <1>4
<1>8. \/ Is(reader'["B"], c, Quiets) = 0
      \/ reader'["B"] = reader["B"] /\ (Far(c) = 0 => Far(c)' = 0)
  BY ONLY <1>2, <1>4
<1>. QED  BY <1>2, <1>5, <1>6, <1>7, <1>8, SCarries

\* What a surrogate_s that does not send has in its segment is on its way to nowhere.
LEMMA SSegs ==
  ASSUME Types, Orderly, NEW c \in Client, SSide(c)
  PROVE  /\ ~ Sends(c) \/ None(seg[c]) => \A K : Is(Seg(c), c, K) = 0
         /\ ~ Sends(c)' => \A K, n : Is(Seg(c)', c, K) = 0 /\ Own(Seg(c)', c, n)
         /\ Sends(c)' => Seg(c)' = seg'[c]
         /\ Served(c) = Number(vfifo, c, Words) + Is(taken, c, Words)
                        + (IF Sends(c) THEN 0 ELSE Len(yfifo[c]))
         /\ Served(c)' = Number(vfifo', c, Words) + Is(taken, c, Words)
                         + (IF Sends(c)' THEN 0 ELSE Len(yfifo'[c]))
<1>1. UNCHANGED taken
  BY SLeaves
<1>2. \A K, n : Is(NoFrame, c, K) = 0 /\ Own(NoFrame, c, n)
  BY FrameIs DEF Own, Of
<1>3. \A m, K : None(m) => Is(m, c, K) = 0
  BY IsNat
<1>4. Served(c)' = Number(vfifo', c, Words) + Is(taken, c, Words)
                         + (IF Sends(c)' THEN 0 ELSE Len(yfifo'[c]))
  BY ONLY <1>1 DEF Served
<1>. QED  BY ONLY <1>2, <1>3, <1>4 DEF Seg, Served

\* Whoever waits for rs232_w is there, so that it does not fault.
LEMMA NoFaults ==
  ASSUME Types, Orderly, NEW c PROVE ~ Faults /\ \A m, then : Tried(c, m, then) => Posted(c, m, then)
<1>1. ~ Faults
  <2>1. writer["B"] # <<>> => 1 \in DOMAIN writer["B"] /\ writer["B"][1] = Head(writer["B"])
    BY STypes
  <2>. QED  BY <2>1 DEF Faults, SEnded, Orderly, Writers, Sends
<1>. QED  BY <1>1 DEF Tried

\* A queue of one item, before and after it is taken.
LEMMA OneItem ==
  ASSUME NEW S, NEW x \in S
  PROVE  Tail(<<x>>) = <<>> /\ Head(<<x>>) = x /\ Len(<<x>>) = 1 /\ <<x>> # <<>>
         /\ Append(<<>>, x) = <<x>>
  OBVIOUS

\* Its Send to rs232_w returns.
LEMMA SReturnOrderly ==
  ASSUME Types, Orderly, NEW c \in Client, SReturn(c) PROVE Orderly'
<1>1. /\ SSide(c) /\ s[c].at = "sending" /\ reader' = reader /\ vfifo' = vfifo
      /\ yfifo[c] # <<>> /\ yfifo'[c] = Tail(yfifo[c])
      /\ \/ s[c].then \in {"up", "gone"} /\ Stays(c, s[c].then)
         \/ ~ Head(yfifo[c])
  BY SReturnDoes
<1>2. Sends(c) /\ Formed(c) /\ Transit(c) /\ Amount(c)
  BY <1>1, Amounts DEF Orderly, Conduit, Sends
<1>3. yfifo[c] = <<TRUE>> /\ None(seg[c])
  BY ONLY <1>1, <1>2 DEF Formed
<1>4. yfifo'[c] = <<>> /\ Head(yfifo[c])
  <2>1. TRUE \in BOOLEAN
    BY Zenon
  <2>2. Tail(<<TRUE>>) = <<>> /\ Head(<<TRUE>>) = TRUE
    BY <2>1, OneItem, Zenon
  <2>3. Tail(yfifo[c]) = <<>> /\ Head(yfifo[c]) = TRUE
    BY ONLY <1>3, <2>2, Zenon
  <2>. QED  BY <1>1, <2>3, Zenon
<1>5. s'[c].at \in {"up", "gone"} /\ seg'[c] = seg[c] /\ writer' = writer
  BY ONLY <1>1, <1>4 DEF Stays
<1>6. ~ Sends(c)'
  BY ONLY <1>5 DEF Sends
<1>7. /\ \A K : Is(Seg(c), c, K) = 0
      /\ \A K, n : Is(Seg(c)', c, K) = 0 /\ Own(Seg(c)', c, n)
      /\ Served(c) = Number(vfifo, c, Words) + Is(taken, c, Words)
      /\ Served(c)' = Number(vfifo, c, Words) + Is(taken, c, Words)
      /\ Served(c) = 0
  <2>1. Served(c) = Number(vfifo, c, Words) + Is(taken, c, Words) + 0
    BY <1>1, <1>2, SSegs
  <2>2. Served(c)' = Number(vfifo, c, Words) + Is(taken, c, Words) + Len(yfifo'[c])
    BY <1>1, <1>6, SSegs
  <2>3. Len(yfifo'[c]) = 0
    <3>1. yfifo'[c] = <<>>
      BY <1>4
    <3>. QED  BY ONLY <3>1
  <2>4. Number(vfifo, c, Words) \in Nat /\ Is(taken, c, Words) \in Nat
    BY <1>2, IsNat DEF Amount
  <2>5. Served(c) = 0
    BY ONLY <1>2 DEF Transit
  <2>6. /\ \A K : Is(Seg(c), c, K) = 0
        /\ \A K, n : Is(Seg(c)', c, K) = 0 /\ Own(Seg(c)', c, n)
    BY <1>1, <1>3, <1>6, SSegs
  <2>. QED  BY ONLY <2>1, <2>2, <2>3, <2>4, <2>5, <2>6
<1>8. \A K : Up(c, K)' = Up(c, K)
  <2>1. \A K : /\ Up(c, K)' + Is(Seg(c), c, K) = Up(c, K) + Is(Seg(c)', c, K)
               /\ Up(c, K)' \in Nat
    BY <1>1, SCounts
  <2>. QED  BY ONLY <1>2, <1>7, <2>1 DEF Amount
<1>9. Formed(c)'
  <2>1. r'[c].out = r[c].out /\ (Goes(c)' <=> Goes(c)) /\ rfifo'[c] = rfifo[c]
    BY <1>1, SLeaves DEF Goes
  <2>. QED  BY ONLY <1>2, <1>5, <1>6, <2>1 DEF Formed
<1>10. Current(c)'
  <2>1. Number(vfifo, c, Words) = 0 /\ Is(taken, c, Words) = 0
    BY <1>2, <1>7, IsNat DEF Amount
  <2>2. ASSUME NEW n, Serving(c, n), Going(c, n)
        PROVE  Serving(c, n)' /\ Own(Seg(c)', c, n) /\ (Up(c, Words)' # 0 => Known(c, n))
    <3>1. taken' = taken
      BY <1>1, SLeaves
    <3>2. Serving(c, n)'
      <4>1. yfifo'[c] = <<>> /\ vfifo' = vfifo
        BY <1>1, <1>4
      <4>2. Own(taken, c, n) /\ Is(taken, c, Words) = 0
        BY ONLY <2>1, <2>2 DEF Serving
      <4>3. Is(taken, c, Words) # 1
        BY ONLY <4>2
      <4>. QED  BY ONLY <2>1, <3>1, <4>1, <4>2, <4>3, Zenon DEF Serving
    <3>. QED  BY ONLY <1>7, <1>8, <2>2, <3>2 DEF Going
  <2>. QED  BY <1>1, <2>2, SCurrent
<1>11. SLine(c)
  BY ONLY <1>1, <1>5 DEF SLine
<1>12. /\ s[c].at \in {"up", "sending"} /\ s'[c].at \in {"up", "sending", "gone"}
       /\ Served(c)' = Served(c) /\ (Sends(c)' => Served(c) = 0) /\ reader' = reader
       /\ Up(c, Words)' = Up(c, Words) /\ Up(c, Requests)' = Up(c, Requests)
       /\ Up(c, Looks)' = Up(c, Looks) /\ Up(c, Others)' = Up(c, Others)
  BY <1>1, <1>5, <1>6, <1>7, <1>8
<1>. QED  BY <1>1, <1>9, <1>10, <1>11, <1>12, SPlain

\* Its select times out.
LEMMA STimeoutOrderly ==
  ASSUME Types, Orderly, NEW c \in Client, STimeout(c) PROVE Orderly'
<1>1. /\ SSide(c) /\ s[c].at = "up" /\ reader' = reader /\ vfifo' = vfifo /\ yfifo' = yfifo
      /\ Stays(c, "gone") \/ Stays(c, "up")
  BY STimeoutDoes
<1>2. s'[c].at \in {"up", "gone"} /\ seg'[c] = seg[c] /\ writer' = writer
  BY ONLY <1>1 DEF Stays
<1>3. ~ Sends(c) /\ ~ Sends(c)' /\ Formed(c) /\ Amount(c)
  BY <1>1, <1>2, Amounts DEF Orderly, Conduit, Sends
<1>4. /\ \A K : Is(Seg(c), c, K) = 0
      /\ \A K, n : Is(Seg(c)', c, K) = 0 /\ Own(Seg(c)', c, n)
      /\ Served(c)' = Served(c)
  BY <1>1, <1>3, SSegs
<1>5. \A K : Up(c, K)' = Up(c, K)
  <2>1. \A K : /\ Up(c, K)' + Is(Seg(c), c, K) = Up(c, K) + Is(Seg(c)', c, K)
               /\ Up(c, K)' \in Nat
    BY <1>1, SCounts
  <2>. QED  BY ONLY <1>3, <1>4, <2>1 DEF Amount
<1>6. Formed(c)'
  <2>1. r'[c].out = r[c].out /\ (Goes(c)' <=> Goes(c)) /\ rfifo'[c] = rfifo[c]
    BY <1>1, SLeaves DEF Goes
  <2>. QED  BY ONLY <1>2, <1>3, <2>1 DEF Formed
<1>7. Current(c)'
  <2>1. ASSUME NEW n, Serving(c, n), Going(c, n)
        PROVE  Serving(c, n)' /\ Own(Seg(c)', c, n) /\ (Up(c, Words)' # 0 => Known(c, n))
    <3>1. taken' = taken /\ (Known(c, n)' <=> Known(c, n))
      BY <1>1, SLeaves
    <3>2. Serving(c, n)'
      BY ONLY <1>1, <1>2, <2>1, <3>1 DEF Serving
    <3>. QED  BY ONLY <1>4, <1>5, <2>1, <3>2 DEF Going
  <2>. QED  BY <1>1, <2>1, SCurrent
<1>8. SLine(c)
  BY ONLY <1>1, <1>2 DEF SLine
<1>9. /\ s[c].at \in {"up", "sending"} /\ s'[c].at \in {"up", "sending", "gone"}
      /\ Served(c)' = Served(c) /\ ~ Sends(c)' /\ reader' = reader
      /\ Up(c, Words)' = Up(c, Words) /\ Up(c, Requests)' = Up(c, Requests)
      /\ Up(c, Looks)' = Up(c, Looks) /\ Up(c, Others)' = Up(c, Others)
  BY <1>1, <1>2, <1>3, <1>4, <1>5
<1>. QED  BY <1>1, <1>6, <1>7, <1>8, <1>9, SPlain

\* A queue of one item has none left; a queue of none is empty.
LEMMA LastItem ==
  ASSUME NEW S, NEW q \in Seq(S)
  PROVE  /\ Len(q) = 1 => Tail(q) = <<>>
         /\ Len(q) = 0 => q = <<>>
         /\ q # <<>> => Len(q) # 0
<1>1. \A t \in Seq(S) : t # <<>> => Len(t) # 0
  OBVIOUS
<1>2. ASSUME Len(q) = 1 PROVE Tail(q) = <<>>
  <2>1. q # <<>>
    BY <1>2
  <2>2. Tail(q) \in Seq(S) /\ Len(Tail(q)) = 0
    BY <1>2, <2>1
  <2>. QED  BY ONLY <1>1, <2>2
<1>. QED  BY <1>1, <1>2

\* Where a word waits for surrogate_s, or one request is served, there is no other.
LEMMA ServedOne ==
  ASSUME Types, Orderly, NEW c \in Client, s[c].at = "up", yfifo[c] # <<>>
  PROVE  /\ Tail(yfifo[c]) = <<>> /\ Served(c) = 1 /\ Up(c, Words) = 0 /\ Down(c, Words) = 0
         /\ Number(vfifo, c, Words) = 0 /\ Is(taken, c, Words) = 0 /\ ~ Early(c)
<1>1. Amount(c) /\ Transit(c) /\ ~ Sends(c)
  BY Amounts DEF Orderly, Conduit, Sends
<1>2. yfifo[c] \in Seq(BOOLEAN)
  BY STypes
<1>3. Len(yfifo[c]) # 0
  BY <1>2, LastItem, Zenon
<1>4. Served(c) = Number(vfifo, c, Words) + Is(taken, c, Words) + Len(yfifo[c])
  BY ONLY <1>1 DEF Served
<1>5. Is(taken, c, Words) \in {0, 1}
  BY IsNat
<1>6. PICK i \in Nat, j \in Nat, k \in Nat, l \in Nat, d \in Nat :
            /\ i = Number(vfifo, c, Words) /\ j = Is(taken, c, Words) /\ k = Len(yfifo[c])
            /\ l = Up(c, Words) /\ d = Down(c, Words)
  BY ONLY <1>1, <1>5 DEF Amount
<1>7. d + (l + (i + j + k)) <= 1 /\ (Early(c) => d + (l + (i + j + k)) = 0)
  BY ONLY <1>1, <1>4, <1>6 DEF Transit, Far
<1>8. k # 0
  BY <1>3, <1>6
<1>9. /\ i \in Nat /\ j \in Nat /\ k \in Nat /\ l \in Nat /\ d \in Nat
  OBVIOUS
<1>10. i = 0 /\ j = 0 /\ k = 1 /\ l = 0 /\ d = 0 /\ ~ Early(c)
  BY ONLY <1>7, <1>8, <1>9
<1>11. Tail(yfifo[c]) = <<>>
  <2>1. Len(yfifo[c]) = 1
    BY ONLY <1>6, <1>10
  <2>. QED  BY <1>2, <2>1, LastItem, Zenon
<1>12. Served(c) = 1
  BY ONLY <1>4, <1>6, <1>10
<1>. QED  BY ONLY <1>6, <1>10, <1>11, <1>12

\* It passes the word of the receiver on.
LEMMA SReplyOrderly ==
  ASSUME Types, Orderly, NEW c \in Client, SReply(c) PROVE Orderly'
<1>1. /\ SSide(c) /\ s[c].at = "up" /\ reader' = reader /\ vfifo' = vfifo
      /\ yfifo[c] # <<>> /\ yfifo'[c] = Tail(yfifo[c])
  BY SReplyDoes
<1>2. PICK m, then :
         /\ Posted(c, m, then) /\ m.of = c /\ m.kind \in {"reply", "error"}
         /\ m.kind = "reply" => /\ Head(yfifo[c])
                                /\ m.n = IF seg[c].kind = "reply" THEN seg[c].n ELSE 0
  <2>. DEFINE a == [kind |-> "reply", of |-> c, n |-> IF seg[c].kind = "reply" THEN seg[c].n ELSE 0]
              e == Frm("error", c)
  <2>1. a.kind = "reply" /\ a.of = c /\ a.n = IF seg[c].kind = "reply" THEN seg[c].n ELSE 0
    OBVIOUS
  <2>2. e.kind = "error" /\ e.of = c
    BY FrameIs
  <2>3. \/ Head(yfifo[c]) /\ Posted(c, a, "up")
        \/ Posted(c, e, "gone")
    BY SReplyDoes, NoFaults, Zenon
  <2>. HIDE DEF a, e
  <2>4. "error" # "reply" /\ "error" \in {"reply", "error"} /\ "reply" \in {"reply", "error"}
    OBVIOUS
  <2>. QED  BY ONLY <2>1, <2>2, <2>3, <2>4, Zenon
<1>3. Posted(c, m, then) /\ m.of = c /\ m.kind \in {"reply", "error"} /\ ~ None(m)
  BY <1>2, Zenon DEF None
<1>4. /\ s'[c].at = "sending" /\ seg'[c] = m /\ writer'["B"] = Append(writer["B"], c)
  BY ONLY <1>3 DEF Posted
<1>5. /\ Tail(yfifo[c]) = <<>> /\ Served(c) = 1 /\ Up(c, Words) = 0 /\ Down(c, Words) = 0
      /\ Number(vfifo, c, Words) = 0 /\ Is(taken, c, Words) = 0 /\ ~ Early(c)
  BY <1>1, ServedOne
<1>6. yfifo'[c] = <<>> /\ ~ Sends(c) /\ Sends(c)' /\ s[c].at # "sending"
  BY ONLY <1>1, <1>4, <1>5 DEF Sends
<1>7. /\ \A K : Is(Seg(c), c, K) = 0
      /\ \A K : Is(Seg(c)', c, K) = IF m.kind \in K THEN 1 ELSE 0
      /\ Seg(c)' = m /\ Served(c)' = 0
  <2>1. /\ \A K : Is(Seg(c), c, K) = 0
        /\ Seg(c)' = m
        /\ Served(c)' = Number(vfifo, c, Words) + Is(taken, c, Words) + 0
    BY <1>1, <1>4, <1>6, SSegs
  <2>2. \A K : Is(m, c, K) = IF m.kind \in K THEN 1 ELSE 0
    BY ONLY <1>3, IsNat
  <2>. QED  BY ONLY <1>5, <2>1, <2>2
<1>8. Amount(c)
  BY Amounts
<1>9. \A K : Up(c, K)' = Up(c, K) + (IF m.kind \in K THEN 1 ELSE 0)
  <2>1. \A K : /\ Up(c, K)' + Is(Seg(c), c, K) = Up(c, K) + Is(Seg(c)', c, K)
               /\ Up(c, K)' \in Nat
    BY <1>1, SCounts
  <2>. QED  BY ONLY <1>7, <1>8, <2>1 DEF Amount
<1>10. \A K : Down(c, K)' = Down(c, K) /\ At(c)' = At(c)
  BY <1>1, SCounts
<1>11. /\ Up(c, Looks)' = Up(c, Looks) /\ Up(c, Requests)' = Up(c, Requests) + 1
       /\ Up(c, Words)' \in {0, 1} /\ (m.kind = "error" => Up(c, Words)' = 0)
  <2>1. /\ m.kind \notin Looks /\ m.kind \in Requests
        /\ m.kind = "error" => m.kind \notin Words
    BY ONLY <1>3 DEF Looks, Requests, Words
  <2>2. Up(c, Looks)' = Up(c, Looks)
    BY ONLY <1>8, <1>9, <2>1 DEF Amount
  <2>. QED  BY ONLY <1>5, <1>9, <2>1, <2>2
<1>12. /\ Down(c, Words)' + Far(c)' <= Down(c, Words) + Far(c)
       /\ Far(c)' \in Nat /\ Far(c) = 1
  <2>1. Far(c) = 1 /\ Down(c, Words)' = 0
    BY ONLY <1>5, <1>10 DEF Far
  <2>2. Far(c)' \in {0, 1}
    <3>1. Far(c)' = Up(c, Words)' + Served(c)'
      BY DEF Far
    <3>. QED  BY ONLY <1>7, <1>11, <3>1
  <2>. QED  BY ONLY <1>5, <2>1, <2>2
<1>13. /\ Down(c, Looks)' + Up(c, Looks)' <= Down(c, Looks) + Up(c, Looks)
       /\ Down(c, Locates)' <= Down(c, Locates)
  <2>1. \A K : Down(c, K) \in Nat /\ Up(c, K) \in Nat
    BY ONLY <1>8 DEF Amount
  <2>2. Down(c, Looks)' = Down(c, Looks) /\ Down(c, Locates)' = Down(c, Locates)
    BY ONLY <1>10
  <2>3. Up(c, Looks)' = Up(c, Looks)
    BY ONLY <1>11
  <2>4. \A i, j \in Nat : i + j <= i + j /\ i <= i
    OBVIOUS
  <2>. QED  BY ONLY <2>1, <2>2, <2>3, <2>4
<1>14. Down(c, Requests)' + Up(c, Requests)' + Served(c)' =
             Down(c, Requests) + Up(c, Requests) + Served(c)
  <2>1. Down(c, Requests) \in Nat /\ Up(c, Requests) \in Nat
    BY ONLY <1>8 DEF Amount
  <2>2. Down(c, Requests)' = Down(c, Requests) /\ Up(c, Requests)' = Up(c, Requests) + 1
    BY ONLY <1>10, <1>11
  <2>. QED  BY ONLY <1>5, <1>7, <2>1, <2>2
<1>15. Formed(c)'
  <2>1. r'[c].out = r[c].out /\ (Goes(c)' <=> Goes(c)) /\ rfifo'[c] = rfifo[c] /\ Formed(c)
    BY <1>1, SLeaves DEF Goes, Orderly, Conduit
  <2>2. m.kind \in Ups
    BY ONLY <1>3 DEF Ups
  <2>. QED  BY ONLY <1>3, <1>4, <1>6, <2>1, <2>2 DEF Formed
<1>16. Current(c)'
  <2>1. ASSUME NEW n, Serving(c, n)
        PROVE  Serving(c, n)' /\ Own(Seg(c)', c, n) /\ (Up(c, Words)' # 0 => Known(c, n))
    <3>1. taken' = taken
      BY <1>1, SLeaves
    <3>2. Serving(c, n)'
      <4>1. s'[c].at # "up" /\ yfifo'[c] = <<>>
        BY ONLY <1>4, <1>6
      <4>2. Own(taken, c, n) /\ Is(taken, c, Words) # 1
        <5>1. Is(taken, c, Words) # 1
          BY ONLY <1>5
        <5>. QED  BY <2>1, <5>1, Zenon DEF Serving
      <4>. QED  BY ONLY <3>1, <4>1, <4>2, Zenon DEF Serving
    <3>3. m.kind = "reply" => m.n = n /\ Known(c, n)
      <4>1. /\ s[c].at = "up" /\ yfifo[c] # <<>> /\ Head(yfifo[c]) =>
                 seg[c].kind = "reply" /\ seg[c].n = n /\ Known(c, n)
        BY <2>1, Zenon DEF Serving
      <4>. QED  BY ONLY <1>1, <1>2, <4>1, Zenon
    <3>4. Of(m, c, Words) => m.kind = "reply"
      BY ONLY <1>3 DEF Of, Words
    <3>5. Own(Seg(c)', c, n)
      BY ONLY <1>7, <3>3, <3>4 DEF Own
    <3>6. Up(c, Words)' # 0 => Known(c, n)
      BY ONLY <1>3, <1>11, <3>3
    <3>. QED  BY ONLY <3>2, <3>5, <3>6
  <2>. QED  BY <1>1, <2>1, SCurrent
<1>17. SLine(c)
  BY ONLY <1>1, <1>4, <1>6 DEF SLine
<1>18. /\ s[c].at \in {"up", "sending"} /\ s'[c].at \in {"up", "sending", "gone"}
       /\ Sends(c)' => Served(c)' = 0
  BY ONLY <1>1, <1>4, <1>7
<1>19. At(c) + Far(c) = 0 => At(c)' + Far(c)' = 0
  <2>1. At(c) \in {0, 1}
    BY ONLY <1>8 DEF Amount
  <2>. QED  BY ONLY <1>12, <2>1
<1>20. reader'["B"] = reader["B"] /\ (Far(c) = 0 => Far(c)' = 0)
  BY ONLY <1>1, <1>12
<1>. QED  BY <1>1, <1>5, <1>12, <1>13, <1>14, <1>15, <1>16, <1>17, <1>18, <1>19, <1>20, SCarries

\* A message is only put in the fifo of a receiver that is there.
LEMMA SMessageUp ==
  ASSUME NEW c \in Client, SMessage(c)
  PROVE  vfifo' = vfifo \/ receiver = "up"
  BY DEF SMessage

\* What surrogate_s hears is of a conduit that is up, and nothing is before it.
LEMMA HeardIs ==
  ASSUME Types, Orderly, NEW c \in Client, SSide(c), s[c].at = "up", Heard(c)
  PROVE  /\ reader["B"] \in Frame /\ reader["B"].of = c /\ ~ Early(c)
         /\ reader["B"].kind \in {"send", "proxy", "alive", "close"}
         /\ reader["B"].kind # "close" =>
               /\ Far(c) = 0 /\ Served(c) = 0 /\ Up(c, Words) = 0 /\ yfifo[c] = <<>>
               /\ Number(vfifo, c, Words) = 0 /\ Is(taken, c, Words) = 0
         /\ reader["B"].kind = "send" => Down(c, Words) = 1 /\ Down(c, Words)' = 0 /\ At(c) = 1
<1>1. /\ Amount(c) /\ Transit(c) /\ InTurn(c) /\ LookUp(c) /\ ~ Sends(c)
  BY Amounts DEF Orderly, Conduit, Sends
<1>2. reader["B"] \in Frame /\ reader["B"].of = c /\ ~ None(reader["B"])
  BY STypes DEF Heard, None
<1>3. reader["B"].kind \in {"send", "proxy", "alive", "close"}
  BY ONLY Heard(c), <1>2, Orderly DEF Orderly, Kinds, Downs, Heard
<1>4. /\ \A K : Down(c, K) = Down(c, K)' + (IF reader["B"].kind \in K THEN 1 ELSE 0)
      /\ At(c) = IF reader["B"].kind \in Words THEN 1 ELSE 0
      /\ \A K : Down(c, K)' \in Nat
  BY SCounts
<1>5. ~ Early(c)
  <2>1. Down(c, Others) = Down(c, Others)' + 1
    BY ONLY <1>3, <1>4 DEF Others
  <2>2. Down(c, Others)' \in Nat /\ Up(c, Others) \in Nat
    BY ONLY <1>1, <1>4 DEF Amount
  <2>3. Early(c) => Down(c, Others) + Up(c, Others) = 0
    BY ONLY <1>1 DEF LookUp
  <2>. QED  BY ONLY <2>1, <2>2, <2>3
<1>6. ASSUME reader["B"].kind = "send"
      PROVE  Down(c, Words) = 1 /\ Down(c, Words)' = 0 /\ At(c) = 1 /\ Far(c) = 0
  <2>1. Down(c, Words) = Down(c, Words)' + 1 /\ At(c) = 1
    BY ONLY <1>4, <1>6 DEF Words
  <2>2. Down(c, Words)' \in Nat /\ Far(c) \in Nat
    BY ONLY <1>1, <1>4 DEF Amount
  <2>3. Down(c, Words) + Far(c) <= 1
    BY ONLY <1>1 DEF Transit
  <2>. QED  BY ONLY <2>1, <2>2, <2>3
<1>7. ASSUME reader["B"].kind # "close"
      PROVE  /\ Far(c) = 0 /\ Served(c) = 0 /\ Up(c, Words) = 0 /\ yfifo[c] = <<>>
             /\ Number(vfifo, c, Words) = 0 /\ Is(taken, c, Words) = 0
  <2>1. Far(c) = 0
    <3>1. CASE reader["B"].kind = "send"
      BY <1>6, <3>1
    <3>2. CASE reader["B"].kind \in Quiets
      <4>1. Is(reader["B"], c, Quiets) = 1
        BY ONLY <1>2, <3>2, IsNat
      <4>. QED  BY ONLY <1>1, <4>1, s[c].at = "up" DEF InTurn
    <3>. QED  BY ONLY <1>3, <1>7, <3>1, <3>2 DEF Quiets
  <2>2. Up(c, Words) = 0 /\ Served(c) = 0
    <3>1. Up(c, Words) \in Nat /\ Served(c) \in Nat /\ Up(c, Words) + Served(c) = 0
      BY ONLY <1>1, <2>1 DEF Amount, Far
    <3>. QED  BY ONLY <3>1
  <2>3. Number(vfifo, c, Words) = 0 /\ Is(taken, c, Words) = 0 /\ Len(yfifo[c]) = 0
    <3>1. Number(vfifo, c, Words) + Is(taken, c, Words) + Len(yfifo[c]) = 0
      BY ONLY <1>1, <2>2 DEF Served
    <3>2. Number(vfifo, c, Words) \in Nat /\ Is(taken, c, Words) \in Nat /\ Len(yfifo[c]) \in Nat
      BY <1>1, IsNat DEF Amount
    <3>. QED  BY ONLY <3>1, <3>2
  <2>4. yfifo[c] = <<>>
    <3>1. yfifo[c] \in Seq(BOOLEAN)
      BY STypes
    <3>. QED  BY <2>3, <3>1, LastItem, Zenon
  <2>. QED  BY ONLY <2>1, <2>2, <2>3, <2>4
<1>. QED  BY ONLY <1>2, <1>3, <1>5, <1>6, <1>7

\* A request goes to the receiver.
LEMMA SMessageSend ==
  ASSUME Types, Orderly, NEW c \in Client, SSide(c), s[c].at = "up", Heard(c), yfifo' = yfifo,
         reader["B"].kind = "send", s'[c].at = "up", seg'[c] = reader["B"], writer' = writer,
         receiver = "up", vfifo' = Append(vfifo, Frm("send", c))
  PROVE  Orderly'
<1>1. /\ reader["B"] \in Frame /\ reader["B"].of = c /\ ~ Early(c)
      /\ Far(c) = 0 /\ Served(c) = 0 /\ Up(c, Words) = 0 /\ yfifo[c] = <<>>
      /\ Number(vfifo, c, Words) = 0 /\ Is(taken, c, Words) = 0
      /\ Down(c, Words) = 1 /\ Down(c, Words)' = 0 /\ At(c) = 1
  <2>1. reader["B"].kind # "close"
    OBVIOUS
  <2>. QED  BY <2>1, HeardIs
<1>2. ~ Sends(c) /\ ~ Sends(c)' /\ Amount(c)
  BY Amounts DEF Sends
<1>3. Frm("send", c) \in Frame /\ Frm("send", c).of = c /\ Frm("send", c).kind = "send"
      /\ Number(vfifo', c, Words) = 1
  <2>1. Frm("send", c) \in Frame /\ Frm("send", c).of = c /\ Frm("send", c).kind = "send"
    BY FrameIs DEF Kind
  <2>2. Is(Frm("send", c), c, Words) = 1
    BY ONLY <2>1, IsNat DEF Of, None, Words
  <2>3. Number(vfifo', c, Words) = Number(vfifo, c, Words) + Is(Frm("send", c), c, Words)
    BY <2>1, STypes, NumberAppend
  <2>. QED  BY ONLY <1>1, <2>1, <2>2, <2>3
<1>4. /\ \A K : Is(Seg(c), c, K) = 0
      /\ \A K, n : Is(Seg(c)', c, K) = 0 /\ Own(Seg(c)', c, n)
      /\ Served(c)' = 1
  <2>1. /\ \A K : Is(Seg(c), c, K) = 0
        /\ \A K, n : Is(Seg(c)', c, K) = 0 /\ Own(Seg(c)', c, n)
        /\ Served(c)' = Number(vfifo', c, Words) + Is(taken, c, Words) + Len(yfifo'[c])
    BY <1>2, SSegs
  <2>2. Len(yfifo'[c]) = 0
    BY ONLY <1>1, yfifo' = yfifo
  <2>. QED  BY ONLY <1>1, <1>3, <2>1, <2>2
<1>5. \A K : Up(c, K)' = Up(c, K)
  <2>1. \A K : /\ Up(c, K)' + Is(Seg(c), c, K) = Up(c, K) + Is(Seg(c)', c, K)
               /\ Up(c, K)' \in Nat
    BY SCounts
  <2>. QED  BY ONLY <1>2, <1>4, <2>1 DEF Amount
<1>6. /\ \A K : Down(c, K) = Down(c, K)' + (IF reader["B"].kind \in K THEN 1 ELSE 0)
      /\ Is(reader'["B"], c, Quiets) = 0 /\ \A K : Down(c, K)' \in Nat
  BY SCounts
<1>7. /\ Down(c, Looks)' = Down(c, Looks) /\ Down(c, Locates)' = Down(c, Locates)
      /\ Down(c, Requests) = Down(c, Requests)' + 1
  <2>1. "send" \notin Looks /\ "send" \notin Locates /\ "send" \in Requests
    BY DEF Looks, Locates, Requests
  <2>2. Down(c, Requests) = Down(c, Requests)' + 1
    BY ONLY <1>6, <2>1, reader["B"].kind = "send"
  <2>3. Down(c, Looks) = Down(c, Looks)' + 0 /\ Down(c, Locates) = Down(c, Locates)' + 0
    BY ONLY <1>6, <2>1, reader["B"].kind = "send"
  <2>. QED  BY ONLY <1>6, <2>2, <2>3
<1>8. Far(c)' = 1
  <2>1. Far(c)' = Up(c, Words)' + Served(c)'
    BY DEF Far
  <2>. QED  BY ONLY <1>1, <1>4, <1>5, <2>1
<1>9. /\ Down(c, Words)' + Far(c)' <= Down(c, Words) + Far(c)
      /\ Down(c, Looks)' + Up(c, Looks)' <= Down(c, Looks) + Up(c, Looks)
      /\ Down(c, Locates)' <= Down(c, Locates)
  <2>1. \A K : Down(c, K) \in Nat /\ Up(c, K) \in Nat
    BY ONLY <1>2 DEF Amount
  <2>2. \A i, j \in Nat : i + j <= i + j /\ i <= i
    OBVIOUS
  <2>3. Up(c, Looks)' = Up(c, Looks)
    BY ONLY <1>5
  <2>4. Down(c, Words)' + Far(c)' <= Down(c, Words) + Far(c)
    BY ONLY <1>1, <1>8
  <2>. QED  BY ONLY <1>7, <2>1, <2>2, <2>3, <2>4
<1>10. Down(c, Requests)' + Up(c, Requests)' + Served(c)' =
             Down(c, Requests) + Up(c, Requests) + Served(c)
  <2>1. Down(c, Requests)' \in Nat /\ Up(c, Requests) \in Nat /\ Up(c, Requests)' = Up(c, Requests)
    BY <1>2, <1>5, <1>6 DEF Amount
  <2>. QED  BY ONLY <1>1, <1>4, <1>7, <2>1
<1>11. Formed(c)'
  <2>1. r'[c].out = r[c].out /\ (Goes(c)' <=> Goes(c)) /\ rfifo'[c] = rfifo[c] /\ Formed(c)
    BY SLeaves DEF Goes, Orderly, Conduit
  <2>2. seg'[c].of = c
    BY ONLY <1>1, seg'[c] = reader["B"]
  <2>. QED  BY ONLY <1>2, <2>1, <2>2 DEF Formed
<1>12. Current(c)'
  <2>1. ASSUME NEW n, Coming(c, n), Serving(c, n)
        PROVE  Serving(c, n)' /\ Own(Seg(c)', c, n) /\ (Up(c, Words)' # 0 => Known(c, n))
    <3>1. taken' = taken
      BY SLeaves
    <3>2. yfifo'[c] = <<>>
      BY ONLY <1>1, yfifo' = yfifo
    <3>3. Own(taken, c, n) /\ Is(taken, c, Words) # 1
      <4>1. Is(taken, c, Words) # 1
        BY ONLY <1>1
      <4>. QED  BY <2>1, <4>1, Zenon DEF Serving
    <3>4. seg'[c].kind = "send" /\ seg'[c].n = n
      <4>1. Own(reader["B"], c, n)
        BY ONLY <2>1 DEF Coming
      <4>2. Of(reader["B"], c, Words)
        BY ONLY <1>1, reader["B"].kind = "send" DEF Of, None, Words
      <4>. QED  BY ONLY <4>1, <4>2, seg'[c] = reader["B"], reader["B"].kind = "send" DEF Own
    <3>5. Serving(c, n)'
      BY ONLY <3>1, <3>2, <3>3, <3>4, Zenon DEF Serving
    <3>6. Up(c, Words)' = 0
      BY ONLY <1>1, <1>5
    <3>. QED  BY ONLY <1>4, <3>5, <3>6
  <2>. QED  BY <2>1, SCurrent
<1>13. SLine(c)
  <2>1. reader'["B"] = NoFrame /\ reader["B"].of = c
    BY DEF Heard
  <2>2. "send" \in {"send", "proxy"}
    OBVIOUS
  <2>3. \E m \in Frame : vfifo' = Append(vfifo, m) /\ m.of = c /\ m.kind \in {"send", "proxy"}
    BY ONLY <1>3, <2>2, vfifo' = Append(vfifo, Frm("send", c)), Zenon
  <2>. QED  BY ONLY <2>1, <2>3, s[c].at = "up", writer' = writer, receiver = "up" DEF SLine
<1>14. At(c) + Far(c) # 0
  BY ONLY <1>1
<1>15. /\ s[c].at \in {"up", "sending"} /\ s'[c].at \in {"up", "sending", "gone"}
       /\ ~ Sends(c)' /\ Far(c)' \in Nat
  BY <1>2, <1>8
<1>. QED  BY <1>1, <1>6, <1>9, <1>10, <1>11, <1>12, <1>13, <1>14, <1>15, SCarries

\* A Trigger goes to the receiver, or surrogate_s is told to end.
LEMMA SMessageQuiet ==
  ASSUME Types, Orderly, NEW c \in Client, SSide(c), s[c].at = "up", Heard(c), yfifo' = yfifo,
         \/ /\ reader["B"].kind = "proxy" /\ Stays(c, "up") /\ receiver = "up"
            /\ vfifo' = Append(vfifo, reader["B"])
         \/ reader["B"].kind = "close" /\ Stays(c, "gone") /\ vfifo' = vfifo
  PROVE  Orderly'
<1>1. /\ reader["B"] \in Frame /\ reader["B"].of = c /\ ~ Early(c)
      /\ reader["B"].kind = "proxy" =>
               /\ Far(c) = 0 /\ Served(c) = 0 /\ Up(c, Words) = 0 /\ yfifo[c] = <<>>
               /\ Number(vfifo, c, Words) = 0 /\ Is(taken, c, Words) = 0
  BY HeardIs
<1>2. /\ reader["B"].kind \in {"proxy", "close"} /\ s'[c].at \in {"up", "gone"}
      /\ seg'[c] = seg[c] /\ writer' = writer
      /\ s'[c].at = "up" => reader["B"].kind = "proxy"
  BY DEF Stays
<1>3. ~ Sends(c) /\ ~ Sends(c)' /\ Amount(c)
  BY <1>2, Amounts DEF Sends
<1>4. Number(vfifo', c, Words) = Number(vfifo, c, Words)
  <2>1. CASE vfifo' = vfifo
    BY ONLY <2>1
  <2>2. CASE reader["B"].kind = "proxy" /\ vfifo' = Append(vfifo, reader["B"])
    <3>1. Is(reader["B"], c, Words) = 0
      BY ONLY <2>2, IsNat DEF Of, Words
    <3>2. Number(vfifo', c, Words) = Number(vfifo, c, Words) + Is(reader["B"], c, Words)
      BY <1>1, <2>2, STypes, NumberAppend
    <3>. QED  BY ONLY <1>3, <3>1, <3>2 DEF Amount
  <2>. QED  BY <2>1, <2>2
<1>5. /\ \A K : Is(Seg(c), c, K) = 0
      /\ \A K, n : Is(Seg(c)', c, K) = 0 /\ Own(Seg(c)', c, n)
      /\ Served(c)' = Served(c)
  <2>1. /\ \A K : Is(Seg(c), c, K) = 0
        /\ \A K, n : Is(Seg(c)', c, K) = 0 /\ Own(Seg(c)', c, n)
        /\ Served(c) = Number(vfifo, c, Words) + Is(taken, c, Words) + Len(yfifo[c])
        /\ Served(c)' = Number(vfifo', c, Words) + Is(taken, c, Words) + Len(yfifo'[c])
    BY <1>3, SSegs
  <2>. QED  BY ONLY <1>4, <2>1, yfifo' = yfifo
<1>6. \A K : Up(c, K)' = Up(c, K)
  <2>1. \A K : /\ Up(c, K)' + Is(Seg(c), c, K) = Up(c, K) + Is(Seg(c)', c, K)
               /\ Up(c, K)' \in Nat
    BY SCounts
  <2>. QED  BY ONLY <1>3, <1>5, <2>1 DEF Amount
<1>7. Formed(c)'
  <2>1. r'[c].out = r[c].out /\ (Goes(c)' <=> Goes(c)) /\ rfifo'[c] = rfifo[c] /\ Formed(c)
    BY SLeaves DEF Goes, Orderly, Conduit
  <2>2. seg'[c] = seg[c]
    BY <1>2
  <2>. QED  BY ONLY <1>3, <2>1, <2>2 DEF Formed
<1>8. Current(c)'
  <2>1. ASSUME NEW n, Serving(c, n), Going(c, n)
        PROVE  Serving(c, n)' /\ Own(Seg(c)', c, n) /\ (Up(c, Words)' # 0 => Known(c, n))
    <3>1. taken' = taken /\ (Known(c, n)' <=> Known(c, n))
      BY SLeaves
    <3>2. Own(taken, c, n) /\ (Is(taken, c, Words) = 1 => Known(c, n))
      BY <2>1, Zenon DEF Serving
    <3>3. s'[c].at = "up" => Number(vfifo', c, Words) = 0 /\ yfifo'[c] = <<>>
      BY ONLY <1>1, <1>2, <1>4, yfifo' = yfifo
    <3>4. Serving(c, n)'
      BY ONLY <3>1, <3>2, <3>3, Zenon DEF Serving
    <3>. QED  BY ONLY <1>5, <1>6, <2>1, <3>4 DEF Going
  <2>. QED  BY <2>1, SCurrent
<1>9. SLine(c)
  <2>1. reader'["B"] = NoFrame /\ reader["B"].of = c
    BY DEF Heard
  <2>2. \/ vfifo' = vfifo
        \/ /\ receiver = "up"
           /\ \E m \in Frame : vfifo' = Append(vfifo, m) /\ m.of = c /\ m.kind \in {"send", "proxy"}
    <3>1. "proxy" \in {"send", "proxy"}
      OBVIOUS
    <3>. QED  BY <1>1, <3>1, Zenon
  <2>. QED  BY ONLY <1>2, <2>1, <2>2, s[c].at = "up" DEF SLine
<1>10. /\ s[c].at \in {"up", "sending"} /\ s'[c].at \in {"up", "sending", "gone"}
       /\ Served(c)' = Served(c) /\ ~ Sends(c)'
       /\ Up(c, Words)' = Up(c, Words) /\ Up(c, Requests)' = Up(c, Requests)
       /\ Up(c, Looks)' = Up(c, Looks)
       /\ reader["B"].kind \in {"proxy", "alive", "close"}
  BY <1>2, <1>3, <1>5, <1>6
<1>. QED  BY <1>1, <1>7, <1>8, <1>9, <1>10, SPlain

\* surrogate_s says that it is alive, or that the receiver is not.
LEMMA SMessagePosts ==
  ASSUME Types, Orderly, NEW c \in Client, SSide(c), s[c].at = "up", Heard(c), yfifo' = yfifo,
         vfifo' = vfifo, NEW m, m.of = c, NEW then, Posted(c, m, then),
         \/ reader["B"].kind = "alive" /\ m.kind = "alive"
         \/ reader["B"].kind \in {"send", "proxy"} /\ receiver = "gone" /\ m.kind = "error"
  PROVE  Orderly'
<1>1. /\ reader["B"] \in Frame /\ reader["B"].of = c /\ ~ Early(c)
      /\ Far(c) = 0 /\ Served(c) = 0 /\ Up(c, Words) = 0 /\ yfifo[c] = <<>>
      /\ Number(vfifo, c, Words) = 0 /\ Is(taken, c, Words) = 0
  <2>1. reader["B"].kind # "close"
    OBVIOUS
  <2>. QED  BY <2>1, HeardIs
<1>2. /\ s'[c].at = "sending" /\ seg'[c] = m /\ writer'["B"] = Append(writer["B"], c)
      /\ yfifo'[c] = <<>> /\ m.kind \in {"alive", "error"} /\ ~ None(m)
  BY <1>1 DEF Posted, None
<1>3. ~ Sends(c) /\ Sends(c)' /\ Amount(c)
  BY <1>2, Amounts DEF Sends
<1>4. /\ \A K : Is(Seg(c), c, K) = 0
      /\ \A K : Is(Seg(c)', c, K) = IF m.kind \in K THEN 1 ELSE 0
      /\ Seg(c)' = m /\ Served(c)' = 0
  <2>1. /\ \A K : Is(Seg(c), c, K) = 0
        /\ Seg(c)' = m
        /\ Served(c)' = Number(vfifo, c, Words) + Is(taken, c, Words) + 0
    BY <1>2, <1>3, SSegs
  <2>2. \A K : Is(m, c, K) = IF m.kind \in K THEN 1 ELSE 0
    BY ONLY <1>2, m.of = c, IsNat
  <2>. QED  BY ONLY <1>1, <2>1, <2>2
<1>5. \A K : m.kind \notin K => Up(c, K)' = Up(c, K)
  <2>1. \A K : /\ Up(c, K)' + Is(Seg(c), c, K) = Up(c, K) + Is(Seg(c)', c, K)
               /\ Up(c, K)' \in Nat
    BY SCounts
  <2>. QED  BY ONLY <1>3, <1>4, <2>1 DEF Amount
<1>6. /\ Up(c, Words)' = 0 /\ Up(c, Looks)' = Up(c, Looks)
      /\ m.kind = "alive" => Up(c, Requests)' = Up(c, Requests)
  <2>1. /\ m.kind \notin Words /\ m.kind \notin Looks
        /\ m.kind = "alive" => m.kind \notin Requests
    BY ONLY <1>2 DEF Words, Looks, Requests
  <2>. QED  BY ONLY <1>1, <1>5, <2>1
<1>7. Far(c)' = 0
  <2>1. Far(c)' = Up(c, Words)' + Served(c)'
    BY DEF Far
  <2>. QED  BY ONLY <1>4, <1>6, <2>1
<1>8. Formed(c)'
  <2>1. r'[c].out = r[c].out /\ (Goes(c)' <=> Goes(c)) /\ rfifo'[c] = rfifo[c] /\ Formed(c)
    BY SLeaves DEF Goes, Orderly, Conduit
  <2>2. seg'[c].of = c /\ seg'[c].kind \in Ups
    BY ONLY <1>2, m.of = c DEF Ups
  <2>3. yfifo'[c] = <<>>
    BY <1>2
  <2>. QED  BY ONLY <1>3, <2>1, <2>2, <2>3 DEF Formed
<1>9. Current(c)'
  <2>1. ASSUME NEW n, Serving(c, n)
        PROVE  Serving(c, n)' /\ Own(Seg(c)', c, n) /\ (Up(c, Words)' # 0 => Known(c, n))
    <3>1. taken' = taken
      BY SLeaves
    <3>2. s'[c].at # "up" /\ Is(taken, c, Words) # 1
      BY ONLY <1>1, <1>2
    <3>3. Own(taken, c, n)
      BY <2>1, Zenon DEF Serving
    <3>4. Serving(c, n)'
      BY ONLY <3>1, <3>2, <3>3, Zenon DEF Serving
    <3>5. Own(Seg(c)', c, n)
      BY ONLY <1>2, <1>4 DEF Own, Of, Words
    <3>. QED  BY ONLY <1>6, <3>4, <3>5
  <2>. QED  BY <2>1, SCurrent
<1>10. SLine(c)
  <2>1. reader'["B"] = NoFrame /\ reader["B"].of = c
    BY DEF Heard
  <2>. QED  BY ONLY <1>2, <2>1, s[c].at = "up", vfifo' = vfifo DEF SLine
<1>11. /\ s[c].at \in {"up", "sending"} /\ s'[c].at \in {"up", "sending", "gone"}
       /\ Served(c)' = Served(c) /\ (Sends(c)' => Served(c) = 0) /\ Served(c)' = 0
       /\ Up(c, Words)' = Up(c, Words)
  BY <1>1, <1>2, <1>4, <1>6
<1>12. CASE reader["B"].kind = "alive" /\ m.kind = "alive"
  <2>1. reader["B"].kind \in {"proxy", "alive", "close"}
    BY ONLY <1>12
  <2>2. Up(c, Requests)' = Up(c, Requests)
    BY ONLY <1>6, <1>12
  <2>. QED  BY <1>1, <1>6, <1>8, <1>9, <1>10, <1>11, <2>1, <2>2, SPlain
<1>13. CASE receiver = "gone"
  <2>1. /\ \A K : Down(c, K) = Down(c, K)' + (IF reader["B"].kind \in K THEN 1 ELSE 0)
        /\ Is(reader'["B"], c, Quiets) = 0 /\ \A K : Down(c, K)' \in Nat /\ At(c)' = 0
    BY SCounts
  <2>2. \A K : Down(c, K)' <= Down(c, K)
    BY ONLY <2>1
  <2>3. /\ Down(c, Words)' + Far(c)' <= Down(c, Words) + Far(c)
        /\ Down(c, Looks)' + Up(c, Looks)' <= Down(c, Looks) + Up(c, Looks)
        /\ Down(c, Locates)' <= Down(c, Locates)
    <3>1. /\ \A K : Down(c, K) \in Nat /\ Up(c, K) \in Nat /\ Down(c, K)' \in Nat
      BY ONLY <1>3, <2>1 DEF Amount
    <3>2. \A i, j, k \in Nat : i <= j => i + k <= j + k
      OBVIOUS
    <3>3. Far(c)' = Far(c) /\ Far(c) \in Nat /\ Up(c, Looks)' = Up(c, Looks)
      BY ONLY <1>1, <1>6, <1>7
    <3>. QED  BY ONLY <2>2, <3>1, <3>2, <3>3
  <2>4. At(c)' + Far(c)' = 0 /\ Far(c)' \in Nat
    BY ONLY <1>7, <2>1
  <2>5. receiver # "up" /\ (Sends(c)' => Served(c)' = 0)
    BY ONLY <1>11, <1>13
  <2>. QED  BY <1>1, <1>8, <1>9, <1>10, <1>11, <2>1, <2>3, <2>4, <2>5, SCarries
<1>. QED  BY <1>12, <1>13

\* It serves a frame of rs232_r.
LEMMA SMessageOrderly ==
  ASSUME Types, Orderly, NEW c \in Client, SMessage(c) PROVE Orderly'
<1>1. /\ SSide(c) /\ s[c].at = "up" /\ Heard(c) /\ yfifo' = yfifo
      /\ \/ /\ reader["B"].kind = "send" /\ s'[c].at = "up" /\ seg'[c] = reader["B"]
            /\ writer' = writer /\ vfifo' = Append(vfifo, Frm("send", c))
         \/ /\ reader["B"].kind = "proxy" /\ Stays(c, "up")
            /\ vfifo' = Append(vfifo, reader["B"])
         \/ /\ reader["B"].kind \in {"send", "proxy"} /\ receiver = "gone"
            /\ Posted(c, Frm("error", c), "gone") /\ vfifo' = vfifo
         \/ /\ reader["B"].kind = "alive" /\ Posted(c, reader["B"], "up") /\ vfifo' = vfifo
         \/ reader["B"].kind = "close" /\ Stays(c, "gone") /\ vfifo' = vfifo
  BY SMessageDoes, NoFaults
<1>2. ASSUME NEW m \in Frame, vfifo' = Append(vfifo, m) PROVE receiver = "up"
  <2>1. vfifo \in Seq(Frame)
    BY STypes
  <2>2. Append(vfifo, m) # vfifo
    <3>1. Len(Append(vfifo, m)) = Len(vfifo) + 1 /\ Len(vfifo) \in Nat
      BY ONLY <2>1, m \in Frame
    <3>. QED  BY ONLY <3>1
  <2>. QED  BY <1>2, <2>2, SMessageUp
<1>3. /\ Frm("error", c).of = c /\ Frm("error", c).kind = "error"
      /\ Frm("send", c) \in Frame
  BY FrameIs DEF Kind
<1>4. reader["B"].of = c /\ reader["B"] \in Frame
  BY <1>1, HeardIs
<1>5. CASE /\ reader["B"].kind = "send" /\ s'[c].at = "up" /\ seg'[c] = reader["B"]
           /\ writer' = writer /\ vfifo' = Append(vfifo, Frm("send", c))
  BY <1>1, <1>2, <1>3, <1>5, SMessageSend
<1>6. CASE \/ reader["B"].kind = "proxy" /\ Stays(c, "up") /\ vfifo' = Append(vfifo, reader["B"])
           \/ reader["B"].kind = "close" /\ Stays(c, "gone") /\ vfifo' = vfifo
  BY <1>1, <1>2, <1>4, <1>6, SMessageQuiet
<1>7. CASE /\ reader["B"].kind \in {"send", "proxy"} /\ receiver = "gone"
           /\ Posted(c, Frm("error", c), "gone") /\ vfifo' = vfifo
  BY <1>1, <1>3, <1>7, SMessagePosts
<1>8. CASE reader["B"].kind = "alive" /\ Posted(c, reader["B"], "up") /\ vfifo' = vfifo
  BY <1>1, <1>4, <1>8, SMessagePosts
<1>. QED  BY ONLY <1>1, <1>5, <1>6, <1>7, <1>8

\* Before the conduit is up nothing of a request is anywhere.
LEMMA SEarly ==
  ASSUME Types, Orderly, NEW c \in Client, SSide(c), ~ Good(c), s[c].at # "gone",
         Down(c, Words)' = Down(c, Words), Far(c)' = Far(c), At(c)' = At(c),
         Is(reader'["B"], c, Quiets) = 0 \/ reader'["B"] = reader["B"],
         Sends(c)' => Served(c)' = 0
  PROVE  Transit(c)' /\ InTurn(c)' /\ Current(c)'
<1>1. /\ UNCHANGED <<client, r, line, receiver, lost>> /\ Near(c)' = Near(c)
      /\ Held(c)' = Held(c) /\ (Early(c)' <=> Early(c)) /\ ~ Good(c)'
  BY SLeaves
<1>2. Transit(c) /\ InTurn(c)
  BY DEF Orderly, Conduit
<1>3. Transit(c)'
  <2>1. /\ Down(c, Words) + Far(c) <= 1 /\ (Early(c) => Down(c, Words) + Far(c) = 0)
    BY ONLY <1>2 DEF Transit
  <2>2. Down(c, Words)' + Far(c)' = Down(c, Words) + Far(c)
    OBVIOUS
  <2>3. /\ Down(c, Words)' + Far(c)' <= 1 /\ (Early(c)' => Down(c, Words)' + Far(c)' = 0)
    BY ONLY <1>1, <2>1, <2>2
  <2>. QED  BY <1>1, <2>3 DEF Transit
<1>4. InTurn(c)'
  <2>1. /\ Is(r[c].out, c, Quiets) = 1 => Near(c) + At(c) + Far(c) = 0
        /\ Number(line["A"], c, Quiets) # 0 => At(c) + Far(c) = 0
        /\ Is(reader["B"], c, Quiets) = 1 => Far(c) = 0
        /\ Before(line["A"], c, Quiets, Words)
    BY ONLY <1>2, s[c].at # "gone" DEF InTurn
  <2>2. /\ Far(c)' = Far(c) /\ At(c)' = At(c)
        /\ Is(reader'["B"], c, Quiets) = 0 \/ reader'["B"] = reader["B"]
    OBVIOUS
  <2>. QED  BY ONLY <1>1, <2>1, <2>2 DEF InTurn
<1>5. Current(c)'
  BY ONLY <1>1 DEF Current
<1>. QED  BY ONLY <1>3, <1>4, <1>5

\* The more kinds, the more frames under way.
LEMMA DownMore ==
  ASSUME Types, NEW c \in Client
  PROVE  Down(c, Locates) <= Down(c, Looks)
<1>1. /\ Number(line["A"], c, Looks) \in Nat /\ Number(line["A"], c, Locates) \in Nat
  BY Amounts DEF Amount
<1>2. /\ Number(line["A"], c, Locates) <= Number(line["A"], c, Looks)
      /\ \A m : Is(m, c, Locates) <= Is(m, c, Looks)
  <2>1. Locates \subseteq Looks
    BY DEF Locates, Looks
  <2>2. line["A"] \in Seq(Frame)
    BY STypes
  <2>3. Number(line["A"], c, Locates) <= Number(line["A"], c, Looks)
    BY <2>1, <2>2, NumberMore
  <2>4. ASSUME NEW m PROVE Is(m, c, Locates) <= Is(m, c, Looks)
    BY <2>1, IsNat
  <2>. QED  BY <2>3, <2>4
<1>3. \A m : Is(m, c, Looks) \in {0, 1} /\ Is(m, c, Locates) \in {0, 1}
  BY IsNat
<1>. QED  BY <1>1, <1>2, <1>3 DEF Down

\* surrogate_S forks a surrogate_s.
LEMMA SForkOrderly ==
  ASSUME Types, Orderly, NEW c \in Client, SFork(c) PROVE Orderly'
<1>1. /\ SSide(c) /\ reader["B"] = Frm("locate", c) /\ reader'["B"] = NoFrame
      /\ s'[c].at = "forked" /\ seg'[c] = seg[c] /\ writer' = writer
      /\ yfifo' = yfifo /\ vfifo' = vfifo
  BY SForkDoes DEF Stays
<1>2. LookUp(c) /\ Amount(c) /\ Formed(c)
  BY Amounts DEF Orderly, Conduit
<1>3. reader["B"].kind = "locate" /\ reader["B"].of = c /\ ~ None(reader["B"])
  BY <1>1, FrameIs DEF None
<1>4. /\ \A K : Is(reader["B"], c, K) = IF "locate" \in K THEN 1 ELSE 0
      /\ \A K : Is(reader'["B"], c, K) = 0
  BY ONLY <1>1, <1>3, IsNat, FrameIs
<1>5. /\ \A K : Down(c, K) = Down(c, K)' + (IF "locate" \in K THEN 1 ELSE 0)
      /\ \A K : Down(c, K)' \in Nat
  <2>1. /\ \A K : Down(c, K)' =
               Is(r[c].out, c, K) + Number(line["A"], c, K) + Is(reader'["B"], c, K)
    BY <1>1, SLeaves
  <2>2. \A K : Is(r[c].out, c, K) \in {0, 1}
    BY IsNat
  <2>3. \A K : Number(line["A"], c, K) \in Nat
    BY ONLY <1>2 DEF Amount
  <2>4. ASSUME NEW K
        PROVE  /\ Down(c, K) = Down(c, K)' + (IF "locate" \in K THEN 1 ELSE 0)
               /\ Down(c, K)' \in Nat
    BY ONLY <1>4, <2>1, <2>2, <2>3 DEF Down
  <2>. QED  BY ONLY <2>4
<1>6. /\ Down(c, Locates) = Down(c, Locates)' + 1 /\ Down(c, Looks) = Down(c, Looks)' + 1
      /\ Down(c, Others)' = Down(c, Others) /\ Down(c, Words)' = Down(c, Words)
  <2>1. "locate" \in Locates /\ "locate" \in Looks /\ "locate" \notin Others /\ "locate" \notin Words
    BY DEF Locates, Looks, Others, Words
  <2>2. Down(c, Locates) = Down(c, Locates)' + 1 /\ Down(c, Looks) = Down(c, Looks)' + 1
    BY ONLY <1>5, <2>1
  <2>3. Down(c, Others) = Down(c, Others)' + 0 /\ Down(c, Words) = Down(c, Words)' + 0
    BY ONLY <1>5, <2>1
  <2>. QED  BY ONLY <1>5, <2>2, <2>3
<1>7. s[c].at = "none"
  <2>1. Down(c, Locates) # 0
    BY ONLY <1>5, <1>6
  <2>. QED  BY ONLY <1>2, <2>1 DEF LookUp
<1>8. /\ ~ Good(c) /\ Up(c, Looks) = 0 /\ yfifo[c] = <<>> /\ Number(vfifo, c, Words) = 0
      /\ Is(taken, c, Words) = 0 /\ Forked(c) = 0
  BY ONLY <1>2, <1>7 DEF LookUp, Forked
<1>9. Down(c, Looks)' = 0 /\ r[c].at # "attached"
  <2>1. Down(c, Looks) + 0 + 0 <= 1
    BY ONLY <1>2, <1>8 DEF LookUp
  <2>2. r[c].at = "attached" => Down(c, Looks) + 0 + 0 = 0
    BY ONLY <1>2, <1>8 DEF LookUp
  <2>3. Down(c, Looks)' \in Nat /\ Down(c, Looks) \in Nat
    BY ONLY <1>2, <1>5 DEF Amount
  <2>. QED  BY ONLY <1>6, <2>1, <2>2, <2>3
<1>10. Down(c, Locates)' = 0
  <2>1. Down(c, Locates) <= Down(c, Looks)
    BY DownMore
  <2>. QED  BY ONLY <1>5, <1>6, <1>9, <2>1
<1>11. ~ Sends(c) /\ ~ Sends(c)' /\ Forked(c)' = 1
  BY ONLY <1>1, <1>7 DEF Sends, Forked
<1>12. /\ \A K : Is(Seg(c), c, K) = 0
       /\ \A K : Is(Seg(c)', c, K) = 0
       /\ Served(c)' = Served(c)
  <2>1. /\ \A K : Is(Seg(c), c, K) = 0
        /\ \A K, n : Is(Seg(c)', c, K) = 0 /\ Own(Seg(c)', c, n)
        /\ Served(c) = Number(vfifo, c, Words) + Is(taken, c, Words) + Len(yfifo[c])
        /\ Served(c)' = Number(vfifo', c, Words) + Is(taken, c, Words) + Len(yfifo'[c])
    BY <1>1, <1>11, SSegs
  <2>. QED  BY ONLY <1>1, <2>1
<1>13. \A K : Up(c, K)' = Up(c, K)
  <2>1. \A K : /\ Up(c, K)' + Is(Seg(c), c, K) = Up(c, K) + Is(Seg(c)', c, K)
               /\ Up(c, K)' \in Nat
    BY <1>1, SCounts
  <2>. QED  BY ONLY <1>2, <1>12, <2>1 DEF Amount
<1>14. Far(c)' = Far(c)
  BY <1>12, <1>13 DEF Far
<1>15. At(c)' = At(c) /\ Is(reader'["B"], c, Quiets) = 0
  BY ONLY <1>4 DEF At, Words
<1>16. Transit(c)' /\ InTurn(c)' /\ Current(c)'
  BY <1>1, <1>6, <1>7, <1>8, <1>11, <1>14, <1>15, SEarly
<1>17. LookUp(c)'
  <2>1. /\ (Early(c)' <=> Early(c)) /\ (Good(c)' <=> Good(c)) /\ r' = r
        /\ taken' = taken
    BY <1>1, SLeaves
  <2>2. Early(c)' => Down(c, Others)' + Up(c, Others)' = 0
    <3>1. Early(c) => Down(c, Others) + Up(c, Others) = 0
      BY ONLY <1>2 DEF LookUp
    <3>. QED  BY ONLY <1>6, <1>13, <2>1, <3>1
  <2>3. Down(c, Looks)' + Up(c, Looks)' + Forked(c)' <= 1
    <3>1. Up(c, Looks)' = 0
      BY ONLY <1>8, <1>13
    <3>. QED  BY ONLY <1>9, <1>11, <3>1
  <2>4. /\ s'[c].at = "forked" /\ r'[c].at # "attached" /\ ~ Good(c)'
        /\ yfifo'[c] = <<>> /\ Number(vfifo', c, Words) = 0 /\ Is(taken', c, Words) = 0
    BY ONLY <1>1, <1>8, <1>9, <2>1
  <2>. QED  BY ONLY <1>10, <2>2, <2>3, <2>4 DEF LookUp
<1>18. Formed(c)'
  <2>1. r'[c].out = r[c].out /\ (Goes(c)' <=> Goes(c)) /\ rfifo'[c] = rfifo[c]
    BY <1>1, SLeaves DEF Goes
  <2>2. seg'[c] = seg[c]
    BY <1>1
  <2>. QED  BY ONLY <1>2, <1>11, <2>1, <2>2 DEF Formed
<1>19. SLine(c)
  <2>1. s[c].at # "sending"
    BY ONLY <1>7
  <2>. QED  BY ONLY <1>1, <1>3, <2>1 DEF SLine
<1>. QED  BY <1>1, <1>16, <1>17, <1>18, <1>19, SRest

\* It looks for the receiver, and says what it found.
LEMMA SLocateOrderly ==
  ASSUME Types, Orderly, NEW c \in Client, SLocate(c) PROVE Orderly'
<1>1. /\ SSide(c) /\ s[c].at = "forked" /\ reader' = reader /\ yfifo' = yfifo /\ vfifo' = vfifo
      /\ Posted(c, Frm("found", c), "up") \/ Posted(c, Frm("absent", c), "gone")
  BY SLocateDoes, NoFaults
<1>2. PICK m : /\ m.of = c /\ m.kind \in {"found", "absent"}
               /\ s'[c].at = "sending" /\ seg'[c] = m /\ writer'["B"] = Append(writer["B"], c)
  BY <1>1, FrameIs DEF Posted
<1>3. LookUp(c) /\ Amount(c) /\ Formed(c) /\ ~ None(m)
  BY ONLY <1>2, Types, Orderly, c \in Client, Amounts DEF Orderly, Conduit, None
<1>4. /\ yfifo[c] = <<>> /\ Number(vfifo, c, Words) = 0 /\ Is(taken, c, Words) = 0
      /\ Forked(c) = 1 /\ Down(c, Locates) = 0
  BY ONLY <1>1, <1>3 DEF LookUp, Forked
<1>5. Down(c, Looks) = 0 /\ Up(c, Looks) = 0 /\ ~ Good(c) /\ r[c].at # "attached"
  <2>1. /\ Down(c, Looks) + Up(c, Looks) + 1 <= 1
        /\ r[c].at = "attached" \/ Good(c) => Down(c, Looks) + Up(c, Looks) + 1 = 0
    BY ONLY <1>3, <1>4 DEF LookUp
  <2>2. Down(c, Looks) \in Nat /\ Up(c, Looks) \in Nat
    BY ONLY <1>3 DEF Amount
  <2>. QED  BY ONLY <2>1, <2>2
<1>6. ~ Sends(c) /\ Sends(c)' /\ Forked(c)' = 0 /\ yfifo'[c] = <<>>
  BY ONLY <1>1, <1>2, <1>4 DEF Sends, Forked
<1>7. /\ \A K : Is(Seg(c), c, K) = 0
      /\ \A K : Is(Seg(c)', c, K) = IF m.kind \in K THEN 1 ELSE 0
      /\ Served(c)' = 0 /\ Served(c) = 0
  <2>1. /\ \A K : Is(Seg(c), c, K) = 0
        /\ Seg(c)' = m
        /\ Served(c) = Number(vfifo, c, Words) + Is(taken, c, Words) + Len(yfifo[c])
        /\ Served(c)' = Number(vfifo, c, Words) + Is(taken, c, Words) + 0
    BY <1>1, <1>2, <1>6, SSegs
  <2>2. \A K : Is(m, c, K) = IF m.kind \in K THEN 1 ELSE 0
    BY ONLY <1>2, <1>3, IsNat
  <2>3. Len(yfifo[c]) = 0
    BY ONLY <1>4
  <2>. QED  BY ONLY <1>4, <2>1, <2>2, <2>3
<1>8. \A K : Up(c, K)' = Up(c, K) + (IF m.kind \in K THEN 1 ELSE 0)
  <2>1. \A K : /\ Up(c, K)' + Is(Seg(c), c, K) = Up(c, K) + Is(Seg(c)', c, K)
               /\ Up(c, K)' \in Nat
    BY <1>1, SCounts
  <2>. QED  BY ONLY <1>3, <1>7, <2>1 DEF Amount
<1>9. /\ Up(c, Looks)' = 1 /\ Up(c, Words)' = Up(c, Words) /\ Up(c, Others)' = Up(c, Others)
  <2>1. m.kind \in Looks /\ m.kind \notin Words /\ m.kind \notin Others
    BY ONLY <1>2 DEF Looks, Words, Others
  <2>2. Up(c, Looks)' = Up(c, Looks) + 1
    BY ONLY <1>8, <2>1
  <2>3. Up(c, Words)' = Up(c, Words) + 0 /\ Up(c, Others)' = Up(c, Others) + 0
    BY ONLY <1>8, <2>1
  <2>4. Up(c, Words) \in Nat /\ Up(c, Others) \in Nat
    BY ONLY <1>3 DEF Amount
  <2>. QED  BY ONLY <1>5, <2>2, <2>3, <2>4
<1>10. \A K : Down(c, K)' = Down(c, K) /\ At(c)' = At(c)
  BY <1>1, SCounts
<1>11. Far(c)' = Far(c)
  BY <1>7, <1>9 DEF Far
<1>12. Transit(c)' /\ InTurn(c)' /\ Current(c)'
  <2>1. s[c].at # "gone"
    BY ONLY <1>1
  <2>2. Down(c, Words)' = Down(c, Words) /\ At(c)' = At(c)
    BY <1>10
  <2>. QED  BY <1>1, <1>5, <1>7, <1>11, <2>1, <2>2, SEarly
<1>13. LookUp(c)'
  <2>1. /\ (Early(c)' <=> Early(c)) /\ (Good(c)' <=> Good(c)) /\ r' = r
    BY <1>1, SLeaves
  <2>2. Early(c)' => Down(c, Others)' + Up(c, Others)' = 0
    <3>1. Early(c) => Down(c, Others) + Up(c, Others) = 0
      BY ONLY <1>3 DEF LookUp
    <3>. QED  BY ONLY <1>9, <1>10, <2>1, <3>1
  <2>3. Down(c, Looks)' + Up(c, Looks)' + Forked(c)' <= 1
    <3>1. Down(c, Looks)' = 0
      BY ONLY <1>5, <1>10
    <3>. QED  BY ONLY <1>6, <1>9, <3>1
  <2>4. Down(c, Locates)' = 0
    BY ONLY <1>4, <1>10
  <2>. QED  BY ONLY <1>2, <1>5, <2>1, <2>2, <2>3, <2>4 DEF LookUp
<1>14. Formed(c)'
  <2>1. r'[c].out = r[c].out /\ (Goes(c)' <=> Goes(c)) /\ rfifo'[c] = rfifo[c]
    BY <1>1, SLeaves DEF Goes
  <2>2. seg'[c].of = c /\ seg'[c].kind \in Ups
    BY ONLY <1>2 DEF Ups
  <2>. QED  BY ONLY <1>3, <1>6, <2>1, <2>2 DEF Formed
<1>15. SLine(c)
  <2>1. s[c].at # "sending"
    BY ONLY <1>1
  <2>. QED  BY ONLY <1>1, <1>2, <1>6, <2>1 DEF SLine
<1>. QED  BY <1>1, <1>12, <1>13, <1>14, <1>15, SRest

-----------------------------------------------------------------------------
(* The steps of the line and of the receiver.                              *)

\* A queue or a place after a step that reaches one conduit only.
OwnQ(q, p, c) ==
    \/ p = q
    \/ \E m \in Frame : m.of = c /\ p = Append(q, m)
    \/ q # <<>> /\ Head(q).of = c /\ p = Tail(q)
OwnM(m, p, c) == p = m \/ ((None(m) \/ m.of = c) /\ (None(p) \/ p.of = c))

\* No other conduit notices it.
LEMMA OthersKeep ==
  ASSUME Types, Orderly, NEW c \in Client, Elsewhere(c),
         OwnQ(line["A"], line'["A"], c), OwnQ(line["B"], line'["B"], c), OwnQ(vfifo, vfifo', c),
         OwnM(reader["A"], reader'["A"], c), OwnM(reader["B"], reader'["B"], c),
         OwnM(taken, taken', c),
         got \subseteq got', lost' = 0 => lost = 0, receiver' = "up" => receiver = "up"
  PROVE  \A d \in Client \ {c} : Conduit(d)'
<1>1. ASSUME NEW d \in Client \ {c}, NEW q \in Seq(Frame), NEW p, OwnQ(q, p, c)
      PROVE  LikeQ(q, p, d)
  <2>1. CASE p = q
    BY <2>1, LikeIs
  <2>2. CASE \E m \in Frame : m.of = c /\ p = Append(q, m)
    BY <2>2, LikeIs
  <2>3. CASE q # <<>> /\ Head(q).of = c /\ p = Tail(q)
    BY <2>3, LikeIs
  <2>. QED  BY ONLY <1>1, <2>1, <2>2, <2>3 DEF OwnQ
<1>2. ASSUME NEW d \in Client \ {c}, NEW m, NEW p, OwnM(m, p, c)
      PROVE  LikeM(m, p, d)
  <2>1. CASE p = m
    BY ONLY <2>1 DEF LikeM
  <2>2. CASE (None(m) \/ m.of = c) /\ (None(p) \/ p.of = c)
    BY ONLY <2>2, LikeMIs, d \in Client \ {c}
  <2>. QED  BY ONLY <1>2, <2>1, <2>2 DEF OwnM
<1>3. ASSUME NEW d \in Client \ {c} PROVE Conduit(d)'
  <2>1. line["A"] \in Seq(Frame) /\ line["B"] \in Seq(Frame) /\ vfifo \in Seq(Frame)
    BY STypes
  <2>2. /\ LikeQ(line["A"], line'["A"], d) /\ LikeQ(line["B"], line'["B"], d)
        /\ LikeQ(vfifo, vfifo', d)
    BY <1>1, <2>1
  <2>3. /\ LikeM(taken, taken', d) /\ LikeM(reader["A"], reader'["A"], d)
        /\ LikeM(reader["B"], reader'["B"], d)
    BY <1>2
  <2>4. Shared(d)
    BY <2>2, <2>3 DEF Shared
  <2>. QED  BY <2>4, Bystander DEF Orderly
<1>. QED  BY <1>3

\* What such a step does to the conduit it reaches: its programs stay where they are.
Still(c) ==
    /\ client'[c] = client[c] /\ answer'[c] = answer[c] /\ s'[c] = s[c] /\ got \subseteq got'
    /\ r'[c].at = r[c].at /\ r'[c].then = r[c].then /\ r'[c].holds = r[c].holds

\* What follows from it alone.
LEMMA StillIs ==
  ASSUME NEW c \in Client, Still(c)
  PROVE  /\ (Goes(c)' <=> Goes(c)) /\ (Runs(c)' <=> Runs(c)) /\ (Sends(c)' <=> Sends(c))
         /\ (Early(c)' <=> Early(c)) /\ (Good(c)' <=> Good(c))
         /\ Held(c)' = Held(c) /\ Forked(c)' = Forked(c)
         /\ \A n : Known(c, n) => Known(c, n)'
         /\ Right(c) => Right(c)'
         /\ rfifo'[c] = rfifo[c] /\ OneOut(c) => OneOut(c)'
<1>1. (Goes(c)' <=> Goes(c)) /\ (Runs(c)' <=> Runs(c))
  BY DEF Still, Goes, Runs
<1>2. (Early(c)' <=> Early(c)) /\ (Good(c)' <=> Good(c)) /\ Held(c)' = Held(c)
  BY <1>1 DEF Still, Early, Good, Held
<1>3. (Sends(c)' <=> Sends(c)) /\ Forked(c)' = Forked(c)
  BY DEF Still, Sends, Forked
<1>4. \A n : Known(c, n) => Known(c, n)'
  BY DEF Still, Known
<1>5. Right(c) => Right(c)'
  BY <1>4 DEF Still, Right
<1>6. ASSUME rfifo'[c] = rfifo[c], OneOut(c) PROVE OneOut(c)'
  BY <1>1, <1>2, <1>6 DEF Still, OneOut
<1>. QED  BY <1>1, <1>2, <1>3, <1>4, <1>5, <1>6

\* Nothing gets more, and nothing is lost while no frame is.
LEMMA Flows ==
  ASSUME Types, Orderly, NEW c \in Client, Still(c),
         Formed(c)', Offer(c)', OneOut(c)', InTurn(c)', Current(c)',
         \A K : Down(c, K)' \in 0..Down(c, K) /\ Up(c, K)' \in 0..Up(c, K),
         Served(c)' \in 0..Served(c),
         s[c].at \in {"none", "forked"} =>
             yfifo'[c] = yfifo[c] /\ Number(vfifo', c, Words) = Number(vfifo, c, Words)
             /\ Is(taken', c, Words) = Is(taken, c, Words),
         lost' = 0 => lost = 0, receiver' = "up" => receiver = "up",
         Good(c) /\ s[c].at \in {"up", "sending"} /\ receiver' = "up" /\ lost' = 0 =>
             Down(c, Requests)' + Up(c, Requests)' + Served(c)' =
             Down(c, Requests) + Up(c, Requests) + Served(c)
  PROVE  Conduit(c)'
<1>1. /\ (Early(c)' <=> Early(c)) /\ (Good(c)' <=> Good(c)) /\ (Sends(c)' <=> Sends(c))
      /\ Held(c)' = Held(c) /\ Forked(c)' = Forked(c)
      /\ Right(c) => Right(c)'
  BY StillIs
<1>2. LookUp(c) /\ Transit(c) /\ Right(c) /\ Amount(c)
  BY Amounts DEF Orderly, Conduit
<1>3. s'[c] = s[c] /\ r'[c].at = r[c].at
  BY DEF Still
<1>4. \A K : /\ Down(c, K)' \in Nat /\ Up(c, K)' \in Nat
             /\ Down(c, K)' <= Down(c, K) /\ Up(c, K)' <= Up(c, K)
             /\ Down(c, K)' + Up(c, K)' <= Down(c, K) + Up(c, K)
  <2>1. \A K : Down(c, K) \in Nat /\ Up(c, K) \in Nat
    BY ONLY <1>2 DEF Amount
  <2>2. \A i, j \in Nat : \A k \in 0..i, l \in 0..j :
              k \in Nat /\ l \in Nat /\ k <= i /\ l <= j /\ k + l <= i + j
    OBVIOUS
  <2>. QED  BY <2>1, <2>2
<1>5. LookUp(c)'
  <2>1. PICK a \in Nat, b \in Nat, f \in Nat, x \in Nat, y \in Nat :
           /\ a = Down(c, Looks) + Up(c, Looks) /\ b = Down(c, Looks)' + Up(c, Looks)'
           /\ f = Forked(c) /\ b <= a
           /\ x = Down(c, Others) + Up(c, Others) /\ y = Down(c, Others)' + Up(c, Others)' /\ y <= x
    <3>1. /\ Down(c, Looks)' + Up(c, Looks)' <= Down(c, Looks) + Up(c, Looks)
          /\ Down(c, Others)' + Up(c, Others)' <= Down(c, Others) + Up(c, Others)
      BY ONLY <1>4
    <3>2. /\ Down(c, Looks) + Up(c, Looks) \in Nat /\ Down(c, Looks)' + Up(c, Looks)' \in Nat
          /\ Down(c, Others) + Up(c, Others) \in Nat /\ Down(c, Others)' + Up(c, Others)' \in Nat
          /\ Forked(c) \in Nat
      <4>1. /\ \A K : Down(c, K) \in Nat /\ Up(c, K) \in Nat
            /\ \A K : Down(c, K)' \in Nat /\ Up(c, K)' \in Nat
        BY ONLY <1>2, <1>4 DEF Amount
      <4>2. Forked(c) \in Nat
        BY ONLY <1>2 DEF Amount
      <4>3. \A i, j \in Nat : i + j \in Nat
        OBVIOUS
      <4>. QED  BY ONLY <4>1, <4>2, <4>3, Zenon
    <3>. QED  BY ONLY <3>1, <3>2, Zenon
  <2>2. a + f <= 1 /\ (r[c].at = "attached" \/ Good(c) => a + f = 0) /\ (Early(c) => x = 0)
    BY ONLY <1>2, <2>1 DEF LookUp
  <2>3. a \in Nat /\ b \in Nat /\ f \in Nat /\ x \in Nat /\ y \in Nat /\ b <= a /\ y <= x
    BY <2>1
  <2>4. /\ a + f <= 1 => b + f <= 1
        /\ a + f = 0 => b + f = 0
        /\ x = 0 => y = 0
    BY ONLY <2>3
  <2>5. /\ Down(c, Looks)' + Up(c, Looks)' + Forked(c)' <= 1
        /\ r'[c].at = "attached" \/ Good(c)' => Down(c, Looks)' + Up(c, Looks)' + Forked(c)' = 0
        /\ Early(c)' => Down(c, Others)' + Up(c, Others)' = 0
    BY ONLY <1>1, <1>3, <2>1, <2>2, <2>4
  <2>6. s'[c].at # "none" => Down(c, Locates)' = 0
    <3>1. s[c].at # "none" => Down(c, Locates) = 0
      BY ONLY <1>2 DEF LookUp
    <3>2. Down(c, Locates)' \in Nat /\ Down(c, Locates)' <= Down(c, Locates)
      BY ONLY <1>4
    <3>. QED  BY ONLY <1>3, <3>1, <3>2
  <2>7. s'[c].at = "none" => ~ Good(c)' /\ Up(c, Looks)' = 0
    <3>1. s[c].at = "none" => ~ Good(c) /\ Up(c, Looks) = 0
      BY ONLY <1>2 DEF LookUp
    <3>2. Up(c, Looks)' \in Nat /\ Up(c, Looks)' <= Up(c, Looks)
      BY ONLY <1>4
    <3>. QED  BY ONLY <1>1, <1>3, <3>1, <3>2
  <2>8. s'[c].at \in {"none", "forked"} =>
            yfifo'[c] = <<>> /\ Number(vfifo', c, Words) = 0 /\ Is(taken', c, Words) = 0
    <3>1. s[c].at \in {"none", "forked"} =>
            yfifo[c] = <<>> /\ Number(vfifo, c, Words) = 0 /\ Is(taken, c, Words) = 0
      BY ONLY <1>2 DEF LookUp
    <3>. QED  BY <1>3, <3>1
  <2>9. r'[c].at = "attached" => s'[c].at = "none"
    BY ONLY <1>2, <1>3 DEF LookUp
  <2>. QED  BY ONLY <2>5, <2>6, <2>7, <2>8, <2>9 DEF LookUp
<1>6. Transit(c)'
  <2>1. PICK a \in Nat, b \in Nat, e \in Nat, f \in Nat, h \in Nat :
           /\ a = Down(c, Words)' /\ b = Far(c)' /\ e = Down(c, Words) /\ f = Far(c) /\ h = Held(c)
           /\ a + b <= e + f
    <3>1. Served(c) \in Nat /\ Held(c) \in Nat
      BY ONLY <1>2 DEF Amount
    <3>2. /\ Served(c)' \in Nat /\ Served(c)' <= Served(c)
      BY <3>1
    <3>3. /\ Down(c, Words)' \in Nat /\ Up(c, Words)' \in Nat
          /\ Down(c, Words) \in Nat /\ Up(c, Words) \in Nat
          /\ Down(c, Words)' <= Down(c, Words) /\ Up(c, Words)' <= Up(c, Words)
      BY ONLY <1>2, <1>4 DEF Amount
    <3>4. Far(c) = Up(c, Words) + Served(c) /\ Far(c)' = Up(c, Words)' + Served(c)'
      BY DEF Far
    <3>5. \A i, j, k, l, m, n \in Nat : i <= l /\ j <= m /\ k <= n => i + (j + k) <= l + (m + n)
      OBVIOUS
    <3>6. Far(c) \in Nat /\ Far(c)' \in Nat
      BY ONLY <3>1, <3>2, <3>3, <3>4
    <3>7. Down(c, Words)' + Far(c)' <= Down(c, Words) + Far(c)
      BY ONLY <3>1, <3>2, <3>3, <3>4, <3>5
    <3>. QED  BY ONLY <3>1, <3>3, <3>6, <3>7
  <2>2. e + f <= 1 /\ (Early(c) => e + f = 0) /\ (Good(c) => e + f <= h)
    BY ONLY <1>2, <2>1 DEF Transit
  <2>3. a \in Nat /\ b \in Nat /\ e \in Nat /\ f \in Nat /\ h \in Nat /\ a + b <= e + f
    BY <2>1
  <2>4. /\ e + f <= 1 => a + b <= 1
        /\ e + f = 0 => a + b = 0
        /\ e + f <= h => a + b <= h
    BY ONLY <2>3
  <2>5. /\ Down(c, Words)' + Far(c)' <= 1
        /\ Early(c)' => Down(c, Words)' + Far(c)' = 0
        /\ Good(c)' => Down(c, Words)' + Far(c)' <= Held(c)'
    BY ONLY <1>1, <2>1, <2>2, <2>4
  <2>6. Sends(c)' => Served(c)' = 0
    <3>1. Sends(c) => Served(c) = 0
      BY ONLY <1>2 DEF Transit
    <3>. QED  BY <1>1, <3>1
  <2>7. Good(c)' /\ s'[c].at \in {"up", "sending"} /\ receiver' = "up" /\ lost' = 0 =>
            Down(c, Requests)' + Up(c, Requests)' + Served(c)' = Held(c)'
    <3>1. Good(c) /\ s[c].at \in {"up", "sending"} /\ receiver = "up" /\ lost = 0 =>
            Down(c, Requests) + Up(c, Requests) + Served(c) = Held(c)
      BY ONLY <1>2 DEF Transit
    <3>2. /\ lost' = 0 => lost = 0
          /\ receiver' = "up" => receiver = "up"
          /\ Good(c) /\ s[c].at \in {"up", "sending"} /\ receiver' = "up" /\ lost' = 0 =>
                 Down(c, Requests)' + Up(c, Requests)' + Served(c)' =
                 Down(c, Requests) + Up(c, Requests) + Served(c)
      OBVIOUS
    <3>. QED  BY ONLY <1>1, <1>3, <3>1, <3>2
  <2>. QED  BY ONLY <2>5, <2>6, <2>7 DEF Transit
<1>. QED  BY <1>1, <1>2, <1>5, <1>6 DEF Conduit

\* Kinds in a queue that changed at its ends, and who waits after the head was taken.
LEMMA Ended ==
  ASSUME NEW S, NEW q \in Seq(S)
  PROVE  /\ \A K : \A m \in S : (\A i \in DOMAIN q : q[i].kind \in K) /\ m.kind \in K
                => \A i \in DOMAIN Append(q, m) : Append(q, m)[i].kind \in K
         /\ q # <<>> =>
               /\ \A K : (\A i \in DOMAIN q : q[i].kind \in K)
                    => Head(q).kind \in K /\ \A i \in DOMAIN Tail(q) : Tail(q)[i].kind \in K
               /\ \A i \in DOMAIN Tail(q) : \E j \in DOMAIN q : Tail(q)[i] = q[j]
               /\ 1 \in DOMAIN q /\ Head(q) = q[1]
               /\ Distinct(q) => Distinct(Tail(q)) /\ \A i \in DOMAIN Tail(q) : Tail(q)[i] # Head(q)
<1>1. ASSUME NEW K, NEW m \in S, \A i \in DOMAIN q : q[i].kind \in K, m.kind \in K
      PROVE  \A i \in DOMAIN Append(q, m) : Append(q, m)[i].kind \in K
  <2>1. /\ DOMAIN q = 1..Len(q) /\ Len(q) \in Nat /\ DOMAIN Append(q, m) = 1..(Len(q) + 1)
        /\ Append(q, m)[Len(q) + 1] = m
        /\ \A i \in 1..Len(q) : Append(q, m)[i] = q[i]
    BY Items
  <2>. DEFINE p == Append(q, m)
  <2>2. \A i \in DOMAIN p : i \in DOMAIN q \/ i = Len(q) + 1
    BY ONLY <2>1
  <2>3. /\ DOMAIN q = 1..Len(q) /\ p[Len(q) + 1] = m /\ \A i \in 1..Len(q) : p[i] = q[i]
    BY <2>1
  <2>. HIDE DEF p
  <2>4. \A i \in DOMAIN p : p[i].kind \in K
    BY ONLY <1>1, <2>2, <2>3
  <2>. QED  BY <2>4 DEF p
<1>2. ASSUME q # <<>>
      PROVE  /\ \A K : (\A i \in DOMAIN q : q[i].kind \in K)
                    => Head(q).kind \in K /\ \A i \in DOMAIN Tail(q) : Tail(q)[i].kind \in K
             /\ \A i \in DOMAIN Tail(q) : \E j \in DOMAIN q : Tail(q)[i] = q[j]
             /\ 1 \in DOMAIN q /\ Head(q) = q[1]
             /\ Distinct(q) => Distinct(Tail(q)) /\ \A i \in DOMAIN Tail(q) : Tail(q)[i] # Head(q)
  <2>. DEFINE t == Tail(q)
              h == Head(q)
  <2>1. /\ DOMAIN q = 1..Len(q) /\ Len(q) \in Nat /\ Len(q) # 0 /\ DOMAIN t = 1..(Len(q) - 1)
        /\ h = q[1] /\ \A i \in 1..(Len(q) - 1) : t[i] = q[i + 1]
    BY <1>2, Items
  <2>. HIDE DEF t, h
  <2>2. \A i \in DOMAIN t : i \in Nat /\ i + 1 \in DOMAIN q /\ t[i] = q[i + 1] /\ i + 1 # 1
    BY ONLY <2>1
  <2>3. 1 \in DOMAIN q /\ h = q[1]
    BY ONLY <2>1
  <2>4. \A K : (\A i \in DOMAIN q : q[i].kind \in K) => h.kind \in K /\ \A i \in DOMAIN t : t[i].kind \in K
    BY ONLY <2>2, <2>3
  <2>5. ASSUME Distinct(q) PROVE Distinct(t) /\ \A i \in DOMAIN t : t[i] # h
    <3>1. \A i, j \in DOMAIN t : t[i] = t[j] => i = j
      <4>1. \A i, j \in DOMAIN t : t[i] = t[j] => i + 1 = j + 1
        BY ONLY <2>2, <2>5 DEF Distinct
      <4>. QED  BY ONLY <2>2, <4>1
    <3>2. \A i \in DOMAIN t : t[i] # h
      BY ONLY <2>2, <2>3, <2>5 DEF Distinct
    <3>. QED  BY ONLY <3>1, <3>2 DEF Distinct
  <2>6. \A i \in DOMAIN t : \E j \in DOMAIN q : t[i] = q[j]
    BY ONLY <2>2
  <2>. QED  BY <2>3, <2>4, <2>5, <2>6 DEF t, h
<1>. QED  BY <1>1, <1>2

\* rs232_w of the clients' host takes a frame of surrogate_r.
LEMMA WriterAOrderly ==
  ASSUME Types, Orderly, WriterTake("A") PROVE Orderly'
<1>1. PICK c \in Client :
         /\ c = Head(writer["A"]) /\ writer["A"] # <<>> /\ Elsewhere(c)
         /\ writer' \in [Host -> Seq(Client)] /\ writer'["A"] = Tail(writer["A"])
         /\ writer'["B"] = writer["B"]
         /\ r'[c].at = r[c].at /\ r'[c].then = r[c].then
         /\ r'[c].holds = r[c].holds /\ r'[c].out = NoFrame
         /\ Written("A", "B", r[c].out)
         /\ UNCHANGED <<setup, client, answer, rfifo, sVars, reader, vVars>>
  BY WriterADoes
<1>2. UNCHANGED <<client, answer, rfifo, s, seg, yfifo, reader, receiver, vfifo, taken, got>>
  BY <1>1 DEF sVars, vVars
<1>3. PICK m : m = r[c].out
  OBVIOUS
<1>4. /\ Conduit(c) /\ Kinds /\ Writers /\ Amount(c)
  BY Amounts DEF Orderly
<1>5. line["A"] \in Seq(Frame) /\ writer["A"] \in Seq(Client) /\ m \in Frame
  BY <1>3, STypes, RTypes DEF RType
<1>6. /\ ~ None(m) /\ m.of = c /\ m.kind \in Downs
  <2>1. \A i \in DOMAIN writer["A"] : ~ None(r[writer["A"][i]].out)
    BY ONLY <1>4 DEF Writers
  <2>2. 1 \in DOMAIN writer["A"] /\ writer["A"][1] = c
    BY <1>1, <1>5, Ended
  <2>3. ~ None(m)
    BY ONLY <1>3, <2>1, <2>2
  <2>. QED  BY ONLY <1>3, <1>4, <2>3 DEF Conduit, Formed
<1>7. /\ line'["B"] = line["B"]
      /\ \/ line'["A"] = Append(line["A"], m) /\ lost' = lost
         \/ line'["A"] = line["A"] /\ lost' # 0
  BY ONLY <1>1, <1>3 DEF Written
<1>8. Kinds'
  <2>1. \A i \in DOMAIN line'["A"] : line'["A"][i].kind \in Downs
    <3>1. \A i \in DOMAIN line["A"] : line["A"][i].kind \in Downs
      BY ONLY <1>4 DEF Kinds
    <3>2. CASE line'["A"] = line["A"]
      BY ONLY <3>1, <3>2
    <3>3. CASE line'["A"] = Append(line["A"], m)
      BY ONLY <1>5, <1>6, <3>1, <3>3, Ended
    <3>. QED  BY ONLY <1>7, <3>2, <3>3
  <2>. QED  BY ONLY <1>2, <1>4, <1>7, <2>1 DEF Kinds
<1>9. Writers'
  <2>1. /\ \A i \in DOMAIN writer["A"] : ~ None(r[writer["A"][i]].out)
        /\ \A i \in DOMAIN writer["B"] : Sends(writer["B"][i]) /\ yfifo[writer["B"][i]] = <<>>
        /\ Distinct(writer["A"]) /\ Distinct(writer["B"])
    BY ONLY <1>4 DEF Writers
  <2>. DEFINE q == writer["A"]
              p == writer'["A"]
  <2>2. /\ \A i \in DOMAIN p : \E j \in DOMAIN q : p[i] = q[j]
        /\ Distinct(p) /\ \A i \in DOMAIN p : p[i] # c
    BY <1>1, <1>5, <2>1, Ended
  <2>3. \A i \in DOMAIN q : q[i] \in Client
    BY <1>5
  <2>4. \A d \in Client \ {c} : r'[d] = r[d]
    BY <1>1 DEF Elsewhere
  <2>5. \A i \in DOMAIN p : ~ None(r'[p[i]].out)
    BY ONLY <2>1, <2>2, <2>3, <2>4
  <2>6. \A i \in DOMAIN writer'["B"] : s'[writer'["B"][i]].at = "sending" /\ yfifo'[writer'["B"][i]] = <<>>
    BY ONLY <1>1, <1>2, <2>1 DEF Sends
  <2>. QED  BY ONLY <1>1, <2>1, <2>2, <2>5, <2>6 DEF Writers, Sends
<1>10. \A d \in Client \ {c} : Conduit(d)'
  <2>1. /\ OwnQ(line["A"], line'["A"], c) /\ OwnQ(line["B"], line'["B"], c) /\ OwnQ(vfifo, vfifo', c)
    BY ONLY <1>2, <1>5, <1>6, <1>7 DEF OwnQ
  <2>2. /\ OwnM(reader["A"], reader'["A"], c) /\ OwnM(reader["B"], reader'["B"], c)
        /\ OwnM(taken, taken', c)
    BY ONLY <1>2 DEF OwnM
  <2>3. /\ got \subseteq got' /\ (lost' = 0 => lost = 0) /\ (receiver' = "up" => receiver = "up")
    BY ONLY <1>2, <1>7
  <2>. QED  BY <1>1, <2>1, <2>2, <2>3, OthersKeep
<1>11. Still(c)
  BY ONLY <1>1, <1>2 DEF Still
<1>12. \A K : Is(m, c, K) \in {0, 1} /\ Is(r'[c].out, c, K) = 0 /\ Number(line["A"], c, K) \in Nat
  <2>1. \A K : Is(m, c, K) \in {0, 1} /\ Is(NoFrame, c, K) = 0
    BY IsNat, FrameIs
  <2>. QED  BY ONLY <1>1, <1>4, <2>1 DEF Amount
<1>13. \A K : \/ lost' # 0 /\ Number(line'["A"], c, K) = Number(line["A"], c, K)
              \/ lost' = lost /\ Number(line'["A"], c, K) = Number(line["A"], c, K) + Is(m, c, K)
  <2>1. \A K : Number(Append(line["A"], m), c, K) = Number(line["A"], c, K) + Is(m, c, K)
    BY ONLY <1>5, NumberAppend
  <2>. QED  BY ONLY <1>7, <2>1
<1>14. \A K : \/ lost' # 0 /\ Down(c, K) = Down(c, K)' + Is(m, c, K)
              \/ lost' = lost /\ Down(c, K)' = Down(c, K)
  <2>1. \A K : Down(c, K) = Is(m, c, K) + Number(line["A"], c, K) + Is(reader["B"], c, K)
    BY ONLY <1>3 DEF Down
  <2>2. \A K : Down(c, K)' = 0 + Number(line'["A"], c, K) + Is(reader["B"], c, K)
    BY ONLY <1>2, <1>12 DEF Down
  <2>3. \A K : Is(reader["B"], c, K) \in {0, 1}
    BY IsNat
  <2>4. ASSUME NEW K
        PROVE  \/ lost' # 0 /\ Down(c, K) = Down(c, K)' + Is(m, c, K)
               \/ lost' = lost /\ Down(c, K)' = Down(c, K)
    BY ONLY <1>12, <1>13, <2>1, <2>2, <2>3
  <2>. QED  BY ONLY <2>4
<1>15. \A K : Down(c, K)' \in 0..Down(c, K)
  <2>1. \A K : Down(c, K) \in Nat
    BY ONLY <1>4 DEF Amount
  <2>2. \A K : Down(c, K)' \in Nat
    <3>1. \A K : Down(c, K)' = 0 + Number(line'["A"], c, K) + Is(reader["B"], c, K)
      BY ONLY <1>2, <1>12 DEF Down
    <3>2. \A K : Is(reader["B"], c, K) \in {0, 1}
      BY IsNat
    <3>. QED  BY ONLY <1>12, <1>13, <3>1, <3>2
  <2>. QED  BY ONLY <1>12, <1>14, <2>1, <2>2
<1>16. /\ Seg(c)' = Seg(c) /\ Served(c)' = Served(c) /\ At(c)' = At(c)
       /\ \A K : Up(c, K)' = Up(c, K)
  <2>1. (Sends(c)' <=> Sends(c))
    BY <1>11, StillIs
  <2>2. Seg(c)' = Seg(c)
    BY ONLY <1>2, <2>1 DEF Seg
  <2>. QED  BY ONLY <1>2, <1>7, <2>1, <2>2 DEF Served, At, Up
<1>17. Far(c)' = Far(c)
  BY <1>16 DEF Far
<1>18. Formed(c)'
  <2>1. Formed(c) /\ (Goes(c)' <=> Goes(c)) /\ (Sends(c)' <=> Sends(c))
    BY <1>4, <1>11, StillIs DEF Conduit
  <2>2. None(r'[c].out)
    BY <1>1, FrameIs
  <2>. QED  BY ONLY <1>2, <2>1, <2>2 DEF Formed
<1>19. Offer(c)' /\ OneOut(c)'
  <2>1. Offer(c) /\ OneOut(c)
    BY <1>4 DEF Conduit
  <2>2. Offer(c)'
    BY ONLY <1>2, <2>1 DEF Offer
  <2>. QED  BY <1>2, <1>11, <2>1, <2>2, StillIs
<1>20. InTurn(c)'
  <2>1. CASE s[c].at # "gone"
    <3>1. /\ Is(m, c, Quiets) = 1 => Near(c) + At(c) + Far(c) = 0
          /\ Number(line["A"], c, Quiets) # 0 => At(c) + Far(c) = 0
          /\ Is(reader["B"], c, Quiets) = 1 => Far(c) = 0
          /\ Before(line["A"], c, Quiets, Words)
      BY ONLY <1>3, <1>4, <2>1 DEF Conduit, InTurn
    <3>2. Is(m, c, Quiets) = 1 => At(c) + Far(c) = 0 /\ Number(line["A"], c, Words) = 0
      <4>1. Near(c) \in Nat /\ At(c) \in Nat /\ Far(c) \in Nat /\ Near(c) = Number(line["A"], c, Words)
        BY ONLY <1>4 DEF Amount, Near
      <4>2. \A i, j, k \in Nat : i + j + k = 0 => i = 0 /\ j + k = 0
        OBVIOUS
      <4>. QED  BY ONLY <3>1, <4>1, <4>2
    <3>3. Number(line'["A"], c, Quiets) # 0 => At(c) + Far(c) = 0
      BY ONLY <1>12, <1>13, <3>1, <3>2
    <3>4. Before(line'["A"], c, Quiets, Words)
      <4>1. Quiets \cap Words = {}
        BY DEF Quiets, Words
      <4>2. CASE line'["A"] = line["A"]
        BY ONLY <3>1, <4>2
      <4>3. CASE line'["A"] = Append(line["A"], m)
        BY <1>5, <3>1, <3>2, <4>1, <4>3, Added
      <4>. QED  BY ONLY <1>7, <4>2, <4>3
    <3>5. Is(r'[c].out, c, Quiets) # 1
      BY ONLY <1>12
    <3>. QED  BY ONLY <1>2, <1>16, <1>17, <3>1, <3>3, <3>4, <3>5 DEF InTurn
  <2>2. CASE s[c].at = "gone"
    BY ONLY <1>2, <2>2 DEF InTurn
  <2>. QED  BY ONLY <2>1, <2>2
<1>21. Current(c)'
  <2>1. ASSUME client[c].at = "sending", Good(c)
        PROVE  /\ Coming(c, client[c].asked)' /\ Serving(c, client[c].asked)'
               /\ Going(c, client[c].asked)'
    <3>1. PICK n : n = client[c].asked
      OBVIOUS
    <3>2. Coming(c, n) /\ Serving(c, n) /\ Going(c, n)
      BY ONLY <1>4, <2>1, <3>1 DEF Conduit, Current
    <3>3. Serving(c, n)' /\ Going(c, n)' /\ Own(reader'["B"], c, n) /\ AllOwn(rfifo'[c], c, Calls, n)
      BY ONLY <1>2, <1>7, <1>16, <3>2 DEF Serving, Going, Coming, Known
    <3>4. Own(r'[c].out, c, n)
      BY ONLY <1>12 DEF Own, Is
    <3>5. AllOwn(line'["A"], c, Words, n)
      <4>1. AllOwn(line["A"], c, Words, n) /\ Own(m, c, n)
        BY ONLY <1>3, <3>2 DEF Coming
      <4>2. CASE line'["A"] = line["A"]
        BY ONLY <4>1, <4>2
      <4>3. CASE line'["A"] = Append(line["A"], m)
        <5>1. Of(m, c, Words) => m.n = n
          BY ONLY <4>1 DEF Own
        <5>. QED  BY <1>5, <4>1, <4>3, <5>1, Added
      <4>. QED  BY ONLY <1>7, <4>2, <4>3
    <3>6. Coming(c, n)'
      BY ONLY <3>3, <3>4, <3>5 DEF Coming
    <3>. QED  BY ONLY <1>2, <3>1, <3>3, <3>6
  <2>2. (Good(c)' <=> Good(c)) /\ client' = client
    BY <1>2, <1>11, StillIs
  <2>. QED  BY ONLY <2>1, <2>2 DEF Current
<1>22. Conduit(c)'
  <2>1. /\ \A K : Down(c, K)' \in 0..Down(c, K) /\ Up(c, K)' \in 0..Up(c, K)
        /\ Served(c)' \in 0..Served(c)
    <3>1. \A i \in Nat : i \in 0..i
      OBVIOUS
    <3>2. \A K : Up(c, K) \in Nat /\ Served(c) \in Nat
      BY ONLY <1>4 DEF Amount
    <3>. QED  BY ONLY <1>15, <1>16, <3>1, <3>2
  <2>2. /\ lost' = 0 => lost = 0
        /\ receiver' = receiver
        /\ lost' = 0 => Down(c, Requests)' = Down(c, Requests)
        /\ Up(c, Requests)' = Up(c, Requests) /\ Served(c)' = Served(c)
    BY ONLY <1>2, <1>7, <1>14, <1>16
  <2>3. Good(c) /\ s[c].at \in {"up", "sending"} /\ receiver' = "up" /\ lost' = 0 =>
             Down(c, Requests)' + Up(c, Requests)' + Served(c)' =
             Down(c, Requests) + Up(c, Requests) + Served(c)
    BY ONLY <2>2
  <2>4. yfifo'[c] = yfifo[c] /\ Number(vfifo', c, Words) = Number(vfifo, c, Words)
        /\ Is(taken', c, Words) = Is(taken, c, Words)
    BY ONLY <1>2
  <2>. QED  BY <1>11, <1>18, <1>19, <1>20, <1>21, <2>1, <2>2, <2>3, <2>4, Flows
<1>. QED  BY <1>8, <1>9, <1>10, <1>22 DEF Orderly

\* rs232_w of the receiver's host takes a frame of surrogate_s.
LEMMA WriterBOrderly ==
  ASSUME Types, Orderly, WriterTake("B") PROVE Orderly'
<1>1. PICK c \in Client :
         /\ c = Head(writer["B"]) /\ writer["B"] # <<>> /\ Elsewhere(c)
         /\ writer' \in [Host -> Seq(Client)] /\ writer'["B"] = Tail(writer["B"])
         /\ writer'["A"] = writer["A"]
         /\ seg'[c] = NoFrame /\ yfifo'[c] = Append(yfifo[c], TRUE)
         /\ Written("B", "A", seg[c])
         /\ UNCHANGED <<setup, client, answer, rVars, s, reader, vVars>>
  BY WriterBDoes
<1>2. UNCHANGED <<client, answer, r, rfifo, s, reader, receiver, vfifo, taken, got>>
  BY <1>1 DEF rVars, vVars
<1>3. PICK m : m = seg[c]
  OBVIOUS
<1>4. /\ Conduit(c) /\ Kinds /\ Writers /\ Amount(c)
  BY Amounts DEF Orderly
<1>5. line["B"] \in Seq(Frame) /\ writer["B"] \in Seq(Client) /\ m \in Frame
  BY <1>3, STypes
<1>6. Sends(c) /\ yfifo[c] = <<>> /\ ~ None(m) /\ m.of = c /\ m.kind \in Ups
  <2>1. \A i \in DOMAIN writer["B"] : Sends(writer["B"][i]) /\ yfifo[writer["B"][i]] = <<>>
    BY ONLY <1>4 DEF Writers
  <2>2. 1 \in DOMAIN writer["B"] /\ writer["B"][1] = c
    BY <1>1, <1>5, Ended
  <2>3. Sends(c) /\ yfifo[c] = <<>>
    BY ONLY <2>1, <2>2
  <2>4. /\ None(seg[c]) \/ seg[c].of = c
        /\ yfifo[c] = <<TRUE>> \/ seg[c].kind \in Ups
    BY ONLY <1>4, <2>3 DEF Conduit, Formed
  <2>5. yfifo[c] # <<TRUE>>
    <3>1. <<TRUE>> # <<>>
      <4>1. TRUE \in BOOLEAN
        BY Zenon
      <4>. QED  BY <4>1, OneItem, Zenon
    <3>. QED  BY <2>3, <3>1, Zenon
  <2>6. m.kind \in Ups
    BY ONLY <1>3, <2>4, <2>5
  <2>7. ~ None(m)
    BY ONLY <2>6 DEF None, Ups
  <2>. QED  BY ONLY <1>3, <2>3, <2>4, <2>6, <2>7
<1>7. /\ line'["A"] = line["A"]
      /\ \/ line'["B"] = Append(line["B"], m) /\ lost' = lost
         \/ line'["B"] = line["B"] /\ lost' # 0
  BY ONLY <1>1, <1>3 DEF Written
<1>8. Kinds'
  <2>1. \A i \in DOMAIN line'["B"] : line'["B"][i].kind \in Ups
    <3>1. \A i \in DOMAIN line["B"] : line["B"][i].kind \in Ups
      BY ONLY <1>4 DEF Kinds
    <3>2. CASE line'["B"] = line["B"]
      BY ONLY <3>1, <3>2
    <3>3. CASE line'["B"] = Append(line["B"], m)
      BY ONLY <1>5, <1>6, <3>1, <3>3, Ended
    <3>. QED  BY ONLY <1>7, <3>2, <3>3
  <2>. QED  BY ONLY <1>2, <1>4, <1>7, <2>1 DEF Kinds
<1>9. Writers'
  <2>1. /\ \A i \in DOMAIN writer["A"] : ~ None(r[writer["A"][i]].out)
        /\ \A i \in DOMAIN writer["B"] : Sends(writer["B"][i]) /\ yfifo[writer["B"][i]] = <<>>
        /\ Distinct(writer["A"]) /\ Distinct(writer["B"])
    BY ONLY <1>4 DEF Writers
  <2>. DEFINE q == writer["B"]
              p == writer'["B"]
  <2>2. /\ \A i \in DOMAIN p : \E j \in DOMAIN q : p[i] = q[j]
        /\ Distinct(p) /\ \A i \in DOMAIN p : p[i] # c
    BY <1>1, <1>5, <2>1, Ended
  <2>3. \A i \in DOMAIN q : q[i] \in Client
    BY <1>5
  <2>4. \A d \in Client \ {c} : yfifo'[d] = yfifo[d] /\ s'[d] = s[d]
    BY <1>1 DEF Elsewhere
  <2>5. \A i \in DOMAIN p : s'[p[i]].at = "sending" /\ yfifo'[p[i]] = <<>>
    BY ONLY <2>1, <2>2, <2>3, <2>4 DEF Sends
  <2>. QED  BY ONLY <1>1, <1>2, <2>1, <2>2, <2>5 DEF Writers, Sends
<1>10. \A d \in Client \ {c} : Conduit(d)'
  <2>1. /\ OwnQ(line["A"], line'["A"], c) /\ OwnQ(line["B"], line'["B"], c) /\ OwnQ(vfifo, vfifo', c)
    BY ONLY <1>2, <1>5, <1>6, <1>7 DEF OwnQ
  <2>2. /\ OwnM(reader["A"], reader'["A"], c) /\ OwnM(reader["B"], reader'["B"], c)
        /\ OwnM(taken, taken', c)
    BY ONLY <1>2 DEF OwnM
  <2>3. /\ got \subseteq got' /\ (lost' = 0 => lost = 0) /\ (receiver' = "up" => receiver = "up")
    BY ONLY <1>2, <1>7
  <2>. QED  BY <1>1, <2>1, <2>2, <2>3, OthersKeep
<1>11. Still(c)
  BY ONLY <1>2 DEF Still
<1>12. /\ \A K : Is(m, c, K) \in {0, 1} /\ Number(line["B"], c, K) \in Nat
       /\ Seg(c) = m /\ Seg(c)' = NoFrame /\ Sends(c)'
  <2>1. \A K : Is(m, c, K) \in {0, 1}
    BY IsNat
  <2>2. Sends(c)'
    BY <1>6, <1>11, StillIs
  <2>. QED  BY ONLY <1>1, <1>3, <1>4, <1>6, <2>1, <2>2 DEF Amount, Seg
<1>13. \A K : \/ lost' # 0 /\ Number(line'["B"], c, K) = Number(line["B"], c, K)
              \/ lost' = lost /\ Number(line'["B"], c, K) = Number(line["B"], c, K) + Is(m, c, K)
  <2>1. \A K : Number(Append(line["B"], m), c, K) = Number(line["B"], c, K) + Is(m, c, K)
    BY ONLY <1>5, NumberAppend
  <2>. QED  BY ONLY <1>7, <2>1
<1>14. /\ \A K : \/ lost' # 0 /\ Up(c, K) = Up(c, K)' + Is(m, c, K)
                 \/ lost' = lost /\ Up(c, K)' = Up(c, K)
       /\ \A K : Up(c, K)' \in 0..Up(c, K)
  <2>1. \A K : Up(c, K) = Is(m, c, K) + Number(line["B"], c, K) + Is(reader["A"], c, K)
    BY ONLY <1>12 DEF Up
  <2>2. \A K : Is(reader["A"], c, K) \in {0, 1} /\ Is(NoFrame, c, K) = 0
    BY IsNat, FrameIs
  <2>3. \A K : Up(c, K)' = 0 + Number(line'["B"], c, K) + Is(reader["A"], c, K)
    BY ONLY <1>2, <1>12, <2>2 DEF Up
  <2>4. ASSUME NEW K
        PROVE  /\ \/ lost' # 0 /\ Up(c, K) = Up(c, K)' + Is(m, c, K)
                  \/ lost' = lost /\ Up(c, K)' = Up(c, K)
               /\ Up(c, K)' \in Nat
    BY ONLY <1>12, <1>13, <2>1, <2>2, <2>3
  <2>5. \A K : Up(c, K) \in Nat
    BY ONLY <1>4 DEF Amount
  <2>6. ASSUME NEW K PROVE Up(c, K)' \in 0..Up(c, K)
    BY ONLY <1>12, <2>4, <2>5
  <2>. QED  BY ONLY <2>4, <2>6
<1>15. /\ Served(c)' = Served(c) /\ At(c)' = At(c) /\ Near(c)' = Near(c)
       /\ \A K : Down(c, K)' = Down(c, K)
  BY ONLY <1>2, <1>6, <1>7, <1>12 DEF Served, At, Near, Down
<1>16. Far(c)' \in 0..Far(c)
  <2>1. Far(c) = Up(c, Words) + Served(c) /\ Far(c)' = Up(c, Words)' + Served(c)
    BY <1>15 DEF Far
  <2>2. Up(c, Words)' \in 0..Up(c, Words) /\ Up(c, Words) \in Nat /\ Served(c) \in Nat
    BY ONLY <1>4, <1>14 DEF Amount
  <2>. QED  BY ONLY <2>1, <2>2
<1>17. Formed(c)'
  <2>1. Formed(c) /\ (Goes(c)' <=> Goes(c))
    BY <1>4, <1>11, StillIs DEF Conduit
  <2>2. None(seg'[c])
    BY <1>1, FrameIs
  <2>3. yfifo'[c] = <<TRUE>>
    <3>1. Append(<<>>, TRUE) = <<TRUE>>
      <4>1. TRUE \in BOOLEAN
        BY Zenon
      <4>. QED  BY <4>1, OneItem, Zenon
    <3>. QED  BY <1>1, <1>6, <3>1, Zenon
  <2>. QED  BY ONLY <1>2, <2>1, <2>2, <2>3 DEF Formed
<1>18. Offer(c)' /\ OneOut(c)'
  <2>1. Offer(c) /\ OneOut(c)
    BY <1>4 DEF Conduit
  <2>2. Offer(c)'
    BY ONLY <1>2, <2>1 DEF Offer
  <2>. QED  BY <1>2, <1>11, <2>1, <2>2, StillIs
<1>19. InTurn(c)'
  <2>1. /\ Is(r[c].out, c, Quiets) = 1 => Near(c) + At(c) + Far(c) = 0
        /\ Number(line["A"], c, Quiets) # 0 => At(c) + Far(c) = 0
        /\ Is(reader["B"], c, Quiets) = 1 => Far(c) = 0
        /\ Before(line["A"], c, Quiets, Words)
    BY ONLY <1>4, <1>6 DEF Conduit, InTurn, Sends
  <2>2. /\ Near(c) + At(c) + Far(c) = 0 => Near(c) + At(c) + Far(c)' = 0
        /\ At(c) + Far(c) = 0 => At(c) + Far(c)' = 0
        /\ Far(c) = 0 => Far(c)' = 0
    <3>1. Near(c) \in Nat /\ At(c) \in Nat /\ Far(c) \in Nat
      BY ONLY <1>4 DEF Amount
    <3>2. \A i, j, k \in Nat : \A l \in 0..k :
             /\ i + j + k = 0 => i + j + l = 0
             /\ j + k = 0 => j + l = 0
             /\ k = 0 => l = 0
      OBVIOUS
    <3>. QED  BY ONLY <1>16, <3>1, <3>2
  <2>. QED  BY ONLY <1>2, <1>7, <1>15, <2>1, <2>2 DEF InTurn
<1>20. Current(c)'
  <2>1. ASSUME client[c].at = "sending", Good(c)
        PROVE  /\ Coming(c, client[c].asked)' /\ Serving(c, client[c].asked)'
               /\ Going(c, client[c].asked)'
    <3>1. PICK n : n = client[c].asked
      OBVIOUS
    <3>2. Coming(c, n) /\ Serving(c, n) /\ Going(c, n)
      BY ONLY <1>4, <2>1, <3>1 DEF Conduit, Current
    <3>3. Coming(c, n)'
      BY ONLY <1>2, <1>7, <3>2 DEF Coming
    <3>4. s'[c].at # "up"
      BY ONLY <1>12 DEF Sends
    <3>5. Own(taken, c, n) /\ (Is(taken, c, Words) = 1 => Known(c, n)) /\ (Known(c, n)' <=> Known(c, n))
      <4>1. Known(c, n)' <=> Known(c, n)
        BY ONLY <1>2 DEF Known
      <4>. QED  BY <3>2, <4>1, Zenon DEF Serving
    <3>6. Serving(c, n)'
      BY ONLY <1>2, <3>4, <3>5, Zenon DEF Serving
    <3>7. Own(NoFrame, c, n)
      BY FrameIs DEF Own, Of
    <3>8. AllOwn(line'["B"], c, Words, n)
      <4>1. AllOwn(line["B"], c, Words, n) /\ Own(m, c, n)
        BY ONLY <1>12, <3>2 DEF Going
      <4>2. CASE line'["B"] = line["B"]
        BY ONLY <4>1, <4>2
      <4>3. CASE line'["B"] = Append(line["B"], m)
        <5>1. Of(m, c, Words) => m.n = n
          BY ONLY <4>1 DEF Own
        <5>. QED  BY <1>5, <4>1, <4>3, <5>1, Added
      <4>. QED  BY ONLY <1>7, <4>2, <4>3
    <3>9. Up(c, Words)' # 0 => Known(c, n)
      <4>1. Up(c, Words) # 0 => Known(c, n)
        BY ONLY <3>2 DEF Going
      <4>2. Up(c, Words)' \in 0..Up(c, Words) /\ Up(c, Words) \in Nat
        BY ONLY <1>4, <1>14 DEF Amount
      <4>. QED  BY ONLY <4>1, <4>2
    <3>10. Going(c, n)'
      BY ONLY <1>2, <1>12, <3>2, <3>5, <3>7, <3>8, <3>9 DEF Going
    <3>. QED  BY ONLY <1>2, <3>1, <3>3, <3>6, <3>10
  <2>2. (Good(c)' <=> Good(c)) /\ client' = client
    BY <1>2, <1>11, StillIs
  <2>. QED  BY ONLY <2>1, <2>2 DEF Current
<1>21. Conduit(c)'
  <2>1. /\ \A K : Down(c, K)' \in 0..Down(c, K) /\ Up(c, K)' \in 0..Up(c, K)
        /\ Served(c)' \in 0..Served(c)
    <3>1. \A i \in Nat : i \in 0..i
      OBVIOUS
    <3>2. \A K : Down(c, K) \in Nat /\ Served(c) \in Nat
      BY ONLY <1>4 DEF Amount
    <3>. QED  BY ONLY <1>14, <1>15, <3>1, <3>2
  <2>2. /\ lost' = 0 => lost = 0
        /\ receiver' = receiver
        /\ lost' = 0 => Up(c, Requests)' = Up(c, Requests)
        /\ Down(c, Requests)' = Down(c, Requests) /\ Served(c)' = Served(c)
    BY ONLY <1>2, <1>7, <1>14, <1>15
  <2>3. Good(c) /\ s[c].at \in {"up", "sending"} /\ receiver' = "up" /\ lost' = 0 =>
             Down(c, Requests)' + Up(c, Requests)' + Served(c)' =
             Down(c, Requests) + Up(c, Requests) + Served(c)
    BY ONLY <2>2
  <2>4. s[c].at \notin {"none", "forked"}
    BY ONLY <1>6 DEF Sends
  <2>. QED  BY <1>11, <1>17, <1>18, <1>19, <1>20, <2>1, <2>2, <2>3, <2>4, Flows
<1>. QED  BY <1>8, <1>9, <1>10, <1>21 DEF Orderly

\* rs232_r of the clients' host takes a frame from the line.
LEMMA ReaderAOrderly ==
  ASSUME Types, Orderly, ReaderTake("A") PROVE Orderly'
<1>1. PICK m \in Frame :
         /\ m = Head(line["B"]) /\ m.of \in Client /\ None(reader["A"]) /\ line["B"] # <<>>
         /\ Elsewhere(m.of)
         /\ line'["B"] = Tail(line["B"]) /\ line'["A"] = line["A"]
         /\ reader'["B"] = reader["B"]
         /\ \/ /\ reader'["A"] = m /\ rfifo'[m.of] = Append(rfifo[m.of], Frm("remote", m.of))
            \/ REnded(m.of) /\ reader'["A"] = reader["A"] /\ rfifo'[m.of] = rfifo[m.of]
         /\ UNCHANGED <<setup, client, answer, r, sVars, writer, lost, vVars>>
  <2>1. Head(line["B"]).kind \in Ups
    <3>1. line["B"] # <<>> /\ line["B"] \in Seq(Frame)
      BY ReaderADoes, STypes
    <3>2. \A i \in DOMAIN line["B"] : line["B"][i].kind \in Ups
      BY DEF Orderly, Kinds
    <3>. QED  BY ONLY <3>1, <3>2
  <2>. QED  BY <2>1, ReaderADoes
<1>2. PICK c \in Client : c = m.of
  BY <1>1
<1>3. /\ UNCHANGED <<client, answer, r, s, seg, yfifo, writer, lost, receiver, vfifo, taken, got>>
      /\ Elsewhere(c)
      /\ \/ /\ reader'["A"] = m /\ rfifo'[c] = Append(rfifo[c], Frm("remote", c))
         \/ REnded(c) /\ reader'["A"] = reader["A"] /\ rfifo'[c] = rfifo[c]
  BY ONLY <1>1, <1>2 DEF sVars, vVars
<1>4. /\ Conduit(c) /\ Kinds /\ Writers /\ Amount(c)
  BY Amounts DEF Orderly
<1>5. line["B"] \in Seq(Frame) /\ rfifo[c] \in Seq(Frame)
  BY STypes, RTypes
<1>6. /\ m.kind \in Ups /\ ~ None(m)
      /\ \A i \in DOMAIN line'["B"] : line'["B"][i].kind \in Ups
  <2>1. \A i \in DOMAIN line["B"] : line["B"][i].kind \in Ups
    BY ONLY <1>4, Zenon DEF Kinds
  <2>2. m.kind \in Ups /\ \A i \in DOMAIN line'["B"] : line'["B"][i].kind \in Ups
    BY ONLY <1>1, <1>5, <2>1, Ended
  <2>. QED  BY ONLY <2>2 DEF None, Ups
<1>7. Kinds'
  <2>1. None(reader'["A"]) \/ reader'["A"].kind \in Ups
    BY ONLY <1>1, <1>3, <1>6
  <2>. QED  BY ONLY <1>1, <1>3, <1>4, <1>6, <2>1 DEF Kinds
<1>8. Writers'
  BY ONLY <1>3, <1>4 DEF Writers, Sends
<1>9. \A d \in Client \ {c} : Conduit(d)'
  <2>1. /\ OwnQ(line["A"], line'["A"], c) /\ OwnQ(line["B"], line'["B"], c) /\ OwnQ(vfifo, vfifo', c)
    <3>1. /\ line["B"] # <<>> /\ Head(line["B"]).of = c /\ line'["B"] = Tail(line["B"])
          /\ line'["A"] = line["A"] /\ vfifo' = vfifo
      BY <1>1, <1>2, <1>3, Zenon
    <3>2. OwnQ(line["A"], line'["A"], c)
      BY ONLY <3>1 DEF OwnQ
    <3>3. OwnQ(line["B"], line'["B"], c)
      BY ONLY <3>1 DEF OwnQ
    <3>4. OwnQ(vfifo, vfifo', c)
      BY ONLY <3>1 DEF OwnQ
    <3>. QED  BY ONLY <3>2, <3>3, <3>4
  <2>2. /\ OwnM(reader["A"], reader'["A"], c) /\ OwnM(reader["B"], reader'["B"], c)
        /\ OwnM(taken, taken', c)
    <3>1. /\ reader'["A"] = reader["A"] \/ (None(reader["A"]) /\ reader'["A"].of = c)
          /\ reader'["B"] = reader["B"] /\ taken' = taken
      BY <1>1, <1>2, <1>3, Zenon
    <3>2. OwnM(reader["A"], reader'["A"], c)
      BY ONLY <3>1 DEF OwnM
    <3>3. OwnM(reader["B"], reader'["B"], c) /\ OwnM(taken, taken', c)
      BY ONLY <3>1 DEF OwnM
    <3>. QED  BY ONLY <3>2, <3>3
  <2>3. /\ got \subseteq got' /\ (lost' = 0 => lost = 0) /\ (receiver' = "up" => receiver = "up")
    BY ONLY <1>3
  <2>. QED  BY <1>3, <2>1, <2>2, <2>3, OthersKeep
<1>10. Still(c)
  BY ONLY <1>3 DEF Still
<1>11. /\ \A K : Is(m, c, K) = IF m.kind \in K THEN 1 ELSE 0
       /\ \A K : Is(reader["A"], c, K) = 0
       /\ \A K : Number(line["B"], c, K) = Is(m, c, K) + Number(line'["B"], c, K)
       /\ \A K : Number(line'["B"], c, K) \in Nat
  <2>1. /\ \A K : Is(m, c, K) = IF m.kind \in K THEN 1 ELSE 0
        /\ \A K : Is(reader["A"], c, K) = 0
    BY ONLY <1>1, <1>2, <1>6, IsNat
  <2>2. \A K : Number(line["B"], c, K) = Is(m, c, K) + Number(line'["B"], c, K)
    BY ONLY <1>1, <1>5, NumberTail
  <2>3. \A K : Number(line'["B"], c, K) \in Nat
    <3>1. line'["B"] \in Seq(Frame)
      BY ONLY <1>1, <1>5, Items
    <3>. QED  BY ONLY <3>1, NumberNat
  <2>. QED  BY ONLY <2>1, <2>2, <2>3
<1>12. /\ Seg(c)' = Seg(c) /\ Served(c)' = Served(c) /\ At(c)' = At(c) /\ Near(c)' = Near(c)
       /\ \A K : Down(c, K)' = Down(c, K)
  <2>1. Sends(c)' <=> Sends(c)
    BY <1>10, StillIs
  <2>2. Seg(c)' = Seg(c)
    BY ONLY <1>3, <2>1 DEF Seg
  <2>. QED  BY ONLY <1>1, <1>3, <2>1, <2>2 DEF Served, At, Near, Down
<1>13. /\ \A K : Up(c, K)' \in 0..Up(c, K)
       /\ reader'["A"] = m => \A K : Up(c, K)' = Up(c, K)
  <2>1. /\ \A K : Up(c, K) = Is(Seg(c), c, K) + Number(line["B"], c, K) + 0
        /\ \A K : Up(c, K)' = Is(Seg(c), c, K) + Number(line'["B"], c, K) + Is(reader'["A"], c, K)
    BY ONLY <1>11, <1>12 DEF Up
  <2>2. \A K : Is(Seg(c), c, K) \in {0, 1} /\ Is(m, c, K) \in {0, 1}
    BY IsNat
  <2>3. ASSUME NEW K PROVE Up(c, K)' \in 0..Up(c, K) /\ (reader'["A"] = m => Up(c, K)' = Up(c, K))
    <3>1. Is(reader'["A"], c, K) = Is(m, c, K) \/ Is(reader'["A"], c, K) = 0
      BY ONLY <1>3, <1>11
    <3>2. reader'["A"] = m => Is(reader'["A"], c, K) = Is(m, c, K)
      OBVIOUS
    <3>3. PICK a \in Nat, b \in Nat, x \in Nat, y \in Nat :
             /\ a = Is(Seg(c), c, K) /\ b = Number(line'["B"], c, K) /\ x = Is(m, c, K)
             /\ y = Is(reader'["A"], c, K)
      BY ONLY <1>11, <2>2, <3>1
    <3>4. Up(c, K) = a + (x + b) + 0 /\ Up(c, K)' = a + b + y
      BY ONLY <1>11, <2>1, <3>3
    <3>5. y = x \/ y = 0
      BY ONLY <3>1, <3>3
    <3>6. a \in Nat /\ b \in Nat /\ x \in Nat /\ y \in Nat
      OBVIOUS
    <3>7. a + b + y \in 0..(a + (x + b) + 0) /\ (y = x => a + b + y = a + (x + b) + 0)
      BY ONLY <3>5, <3>6
    <3>. QED  BY ONLY <3>2, <3>3, <3>4, <3>7
  <2>. QED  BY ONLY <2>3
<1>14. Far(c)' \in 0..Far(c)
  <2>1. Far(c) = Up(c, Words) + Served(c) /\ Far(c)' = Up(c, Words)' + Served(c)
    BY <1>12 DEF Far
  <2>2. Up(c, Words)' \in 0..Up(c, Words) /\ Up(c, Words) \in Nat /\ Served(c) \in Nat
    BY ONLY <1>4, <1>13 DEF Amount
  <2>. QED  BY ONLY <2>1, <2>2
<1>15. /\ Frm("remote", c) \in Frame /\ Frm("remote", c).of = c /\ Frm("remote", c).kind = "remote"
       /\ ~ None(Frm("remote", c))
  BY FrameIs DEF Kind, None
<1>16. /\ \A K : \/ rfifo'[c] = rfifo[c]
                 \/ /\ reader'["A"] = m
                    /\ Number(rfifo'[c], c, K) = Number(rfifo[c], c, K) + (IF "remote" \in K THEN 1 ELSE 0)
       /\ Before(rfifo[c], c, Proxies, Calls) => Before(rfifo'[c], c, Proxies, Calls)
       /\ \A n : AllOwn(rfifo[c], c, Calls, n) => AllOwn(rfifo'[c], c, Calls, n)
       /\ \A i \in DOMAIN rfifo'[c] : rfifo'[c][i].of = c /\ rfifo'[c][i].kind \in Posts
  <2>. DEFINE e == Frm("remote", c)
              q == rfifo[c]
              p == rfifo'[c]
  <2>1. \A i \in DOMAIN q : q[i].of = c /\ q[i].kind \in Posts
    BY ONLY <1>4 DEF Conduit, Formed
  <2>2. CASE p = q
    BY ONLY <2>1, <2>2
  <2>3. CASE reader'["A"] = m /\ p = Append(q, e)
    <3>1. e \in Frame /\ e.of = c /\ e.kind = "remote" /\ ~ None(e) /\ q \in Seq(Frame)
          /\ p = Append(q, e) /\ reader'["A"] = m
      BY <1>5, <1>15, <2>3
    <3>. HIDE DEF e, q, p
    <3>2. \A K : Is(e, c, K) = IF "remote" \in K THEN 1 ELSE 0
      BY ONLY <3>1, IsNat
    <3>3. \A K : Number(p, c, K) = Number(q, c, K) + (IF "remote" \in K THEN 1 ELSE 0)
      BY ONLY <3>1, <3>2, NumberAppend
    <3>4. "remote" \notin Proxies /\ "remote" \notin Calls /\ "remote" \in Posts
      BY DEF Proxies, Calls, Posts
    <3>5. Before(q, c, Proxies, Calls) => Before(p, c, Proxies, Calls)
      <4>1. Is(e, c, Proxies) # 1
        BY ONLY <3>2, <3>4
      <4>. QED  BY ONLY <3>1, <4>1, Added
    <3>6. \A n : AllOwn(q, c, Calls, n) => AllOwn(p, c, Calls, n)
      <4>1. ~ Of(e, c, Calls)
        BY ONLY <3>1, <3>4 DEF Of
      <4>. QED  BY ONLY <3>1, <4>1, Added
    <3>7. \A i \in DOMAIN p : p[i].of = c /\ p[i].kind \in Posts
      <4>1. /\ DOMAIN q = 1..Len(q) /\ Len(q) \in Nat /\ DOMAIN p = 1..(Len(q) + 1)
            /\ p[Len(q) + 1] = e /\ \A i \in 1..Len(q) : p[i] = q[i]
        BY ONLY <3>1, Items
      <4>2. \A i \in DOMAIN p : i \in DOMAIN q \/ i = Len(q) + 1
        BY ONLY <4>1
      <4>3. \A i \in DOMAIN q : q[i].of = c /\ q[i].kind \in Posts
        BY <2>1 DEF q
      <4>. QED  BY ONLY <3>1, <3>4, <4>1, <4>2, <4>3
    <3>. QED  BY <3>1, <3>3, <3>5, <3>6, <3>7 DEF q, p
  <2>. QED  BY ONLY <1>3, <2>2, <2>3
<1>17. Formed(c)'
  <2>1. Formed(c) /\ (Goes(c)' <=> Goes(c)) /\ (Sends(c)' <=> Sends(c))
    BY <1>4, <1>10, StillIs DEF Conduit
  <2>. QED  BY ONLY <1>3, <1>16, <2>1 DEF Formed
<1>18. Offer(c)'
  <2>1. Number(rfifo[c], c, Remotes) = 0
    BY ONLY <1>4, <1>11 DEF Conduit, Offer
  <2>2. CASE reader'["A"] = m /\ Number(rfifo'[c], c, Remotes) =
                 Number(rfifo[c], c, Remotes) + (IF "remote" \in Remotes THEN 1 ELSE 0)
    <3>1. Number(rfifo'[c], c, Remotes) = 1
      BY ONLY <2>1, <2>2 DEF Remotes
    <3>2. Is(reader'["A"], c, Ups) = 1
      BY ONLY <1>6, <1>11, <2>2
    <3>. QED  BY ONLY <3>1, <3>2 DEF Offer
  <2>3. CASE rfifo'[c] = rfifo[c] /\ reader'["A"] = reader["A"]
    BY ONLY <1>4, <2>3 DEF Conduit, Offer
  <2>4. CASE rfifo'[c] = rfifo[c] /\ reader'["A"] = m /\ rfifo'[c] = Append(rfifo[c], Frm("remote", c))
    <3>1. Number(Append(rfifo[c], Frm("remote", c)), c, Remotes) =
             Number(rfifo[c], c, Remotes) + Is(Frm("remote", c), c, Remotes)
      BY ONLY <1>5, <1>15, NumberAppend
    <3>2. Is(Frm("remote", c), c, Remotes) = 1
      BY ONLY <1>15, IsNat DEF Remotes
    <3>. QED  BY ONLY <2>1, <2>4, <3>1, <3>2
  <2>. QED  BY ONLY <1>3, <1>16, <2>2, <2>3, <2>4
<1>19. OneOut(c)'
  <2>1. /\ OneOut(c) /\ (Runs(c)' <=> Runs(c)) /\ Held(c)' = Held(c)
        /\ (Early(c)' <=> Early(c)) /\ (Good(c)' <=> Good(c))
    BY <1>4, <1>10, StillIs DEF Conduit
  <2>2. /\ Number(rfifo[c], c, Calls)' = Number(rfifo[c], c, Calls)
        /\ Number(rfifo[c], c, Proxies)' = Number(rfifo[c], c, Proxies)
    <3>1. "remote" \notin Calls /\ "remote" \notin Proxies
      BY DEF Calls, Proxies
    <3>2. Number(rfifo[c], c, Calls) \in Nat /\ Number(rfifo[c], c, Proxies) \in Nat
      BY ONLY <1>4 DEF Amount
    <3>3. /\ Number(rfifo'[c], c, Calls) = Number(rfifo[c], c, Calls) + 0
             \/ rfifo'[c] = rfifo[c]
          /\ Number(rfifo'[c], c, Proxies) = Number(rfifo[c], c, Proxies) + 0
             \/ rfifo'[c] = rfifo[c]
      BY ONLY <1>16, <3>1
    <3>. QED  BY ONLY <3>2, <3>3
  <2>. QED  BY ONLY <1>3, <1>16, <2>1, <2>2 DEF OneOut
<1>20. InTurn(c)'
  <2>1. CASE s[c].at # "gone"
    <3>1. /\ Is(r[c].out, c, Quiets) = 1 => Near(c) + At(c) + Far(c) = 0
          /\ Number(line["A"], c, Quiets) # 0 => At(c) + Far(c) = 0
          /\ Is(reader["B"], c, Quiets) = 1 => Far(c) = 0
          /\ Before(line["A"], c, Quiets, Words)
      BY ONLY <1>4, <2>1 DEF Conduit, InTurn
    <3>2. /\ Near(c) + At(c) + Far(c) = 0 => Near(c) + At(c) + Far(c)' = 0
          /\ At(c) + Far(c) = 0 => At(c) + Far(c)' = 0
          /\ Far(c) = 0 => Far(c)' = 0
      <4>1. Near(c) \in Nat /\ At(c) \in Nat /\ Far(c) \in Nat
        BY ONLY <1>4 DEF Amount
      <4>2. \A i, j, k \in Nat : \A l \in 0..k :
               /\ i + j + k = 0 => i + j + l = 0
               /\ j + k = 0 => j + l = 0
               /\ k = 0 => l = 0
        OBVIOUS
      <4>. QED  BY ONLY <1>14, <4>1, <4>2
    <3>. QED  BY ONLY <1>1, <1>3, <1>12, <3>1, <3>2 DEF InTurn
  <2>2. CASE s[c].at = "gone"
    BY ONLY <1>3, <2>2 DEF InTurn
  <2>. QED  BY ONLY <2>1, <2>2
<1>21. Current(c)'
  <2>1. ASSUME client[c].at = "sending", Good(c)
        PROVE  /\ Coming(c, client[c].asked)' /\ Serving(c, client[c].asked)'
               /\ Going(c, client[c].asked)'
    <3>1. PICK n : n = client[c].asked
      OBVIOUS
    <3>2. Coming(c, n) /\ Serving(c, n) /\ Going(c, n)
      BY ONLY <1>4, <2>1, <3>1 DEF Conduit, Current
    <3>3. Coming(c, n)' /\ Serving(c, n)' /\ (Known(c, n)' <=> Known(c, n))
      BY ONLY <1>1, <1>3, <1>16, <3>2 DEF Coming, Serving, Known
    <3>4. AllOwn(line["B"], c, Words, n) /\ Own(reader["A"], c, n) /\ Own(Seg(c), c, n)
          /\ (Up(c, Words) # 0 => Known(c, n))
      BY ONLY <3>2 DEF Going
    <3>5. AllOwn(line'["B"], c, Words, n) /\ (Of(m, c, Words) => m.n = n)
      BY ONLY <1>1, <1>5, <3>4, Removed
    <3>6. Own(reader'["A"], c, n)
      BY ONLY <1>3, <3>4, <3>5 DEF Own
    <3>7. Up(c, Words)' # 0 => Known(c, n)
      <4>1. Up(c, Words)' \in 0..Up(c, Words) /\ Up(c, Words) \in Nat
        BY ONLY <1>4, <1>13 DEF Amount
      <4>. QED  BY ONLY <3>4, <4>1
    <3>8. Going(c, n)'
      BY ONLY <1>12, <3>3, <3>4, <3>5, <3>6, <3>7 DEF Going
    <3>. QED  BY ONLY <1>3, <3>1, <3>3, <3>8
  <2>2. (Good(c)' <=> Good(c)) /\ client' = client
    BY <1>3, <1>10, StillIs
  <2>. QED  BY ONLY <2>1, <2>2 DEF Current
<1>22. Conduit(c)'
  <2>1. /\ \A K : Down(c, K)' \in 0..Down(c, K) /\ Up(c, K)' \in 0..Up(c, K)
        /\ Served(c)' \in 0..Served(c)
    <3>1. \A i \in Nat : i \in 0..i
      OBVIOUS
    <3>2. \A K : Down(c, K) \in Nat /\ Served(c) \in Nat
      BY ONLY <1>4 DEF Amount
    <3>. QED  BY ONLY <1>12, <1>13, <3>1, <3>2
  <2>2. Good(c) => Up(c, Requests)' = Up(c, Requests)
    <3>1. Good(c) => reader'["A"] = m
      BY ONLY <1>3 DEF REnded, Good, Goes
    <3>. QED  BY ONLY <1>13, <3>1
  <2>3. Good(c) /\ s[c].at \in {"up", "sending"} /\ receiver' = "up" /\ lost' = 0 =>
             Down(c, Requests)' + Up(c, Requests)' + Served(c)' =
             Down(c, Requests) + Up(c, Requests) + Served(c)
    BY ONLY <1>12, <2>2
  <2>4. /\ yfifo'[c] = yfifo[c] /\ Number(vfifo', c, Words) = Number(vfifo, c, Words)
        /\ Is(taken', c, Words) = Is(taken, c, Words) /\ lost' = lost /\ receiver' = receiver
    BY ONLY <1>3
  <2>. QED  BY <1>10, <1>17, <1>18, <1>19, <1>20, <1>21, <2>1, <2>3, <2>4, Flows
<1>. QED  BY <1>7, <1>8, <1>9, <1>22, Zenon DEF Orderly

\* rs232_r of the receiver's host takes a frame from the line.
LEMMA ReaderBOrderly ==
  ASSUME Types, Orderly, ReaderTake("B") PROVE Orderly'
<1>1. PICK m \in Frame :
         /\ m = Head(line["A"]) /\ m.of \in Client /\ None(reader["B"]) /\ line["A"] # <<>>
         /\ Elsewhere(m.of)
         /\ line'["A"] = Tail(line["A"]) /\ line'["B"] = line["B"]
         /\ reader'["A"] = reader["A"]
         /\ \/ reader'["B"] = m
            \/ m.kind # "locate" /\ SEnded(m.of) /\ reader'["B"] = reader["B"]
         /\ UNCHANGED <<setup, client, answer, rVars, sVars, writer, lost, vVars>>
  BY ReaderBDoes
<1>2. PICK c \in Client : c = m.of
  BY <1>1
<1>3. /\ UNCHANGED <<client, answer, r, rfifo, s, seg, yfifo, writer, lost, receiver, vfifo, taken, got>>
      /\ Elsewhere(c)
      /\ \/ reader'["B"] = m
         \/ SEnded(c) /\ reader'["B"] = reader["B"]
  BY ONLY <1>1, <1>2 DEF rVars, sVars, vVars
<1>4. /\ Conduit(c) /\ Kinds /\ Writers /\ Amount(c)
  BY Amounts DEF Orderly
<1>5. line["A"] \in Seq(Frame)
  BY STypes
<1>6. /\ m.kind \in Downs /\ ~ None(m)
      /\ \A i \in DOMAIN line'["A"] : line'["A"][i].kind \in Downs
  <2>1. \A i \in DOMAIN line["A"] : line["A"][i].kind \in Downs
    BY ONLY <1>4, Zenon DEF Kinds
  <2>2. m.kind \in Downs /\ \A i \in DOMAIN line'["A"] : line'["A"][i].kind \in Downs
    BY ONLY <1>1, <1>5, <2>1, Ended
  <2>. QED  BY ONLY <2>2 DEF None, Downs
<1>7. Kinds'
  <2>1. None(reader'["B"]) \/ reader'["B"].kind \in Downs
    BY ONLY <1>1, <1>3, <1>6
  <2>. QED  BY ONLY <1>1, <1>3, <1>4, <1>6, <2>1 DEF Kinds
<1>8. Writers'
  BY ONLY <1>3, <1>4 DEF Writers, Sends
<1>9. \A d \in Client \ {c} : Conduit(d)'
  <2>1. /\ OwnQ(line["A"], line'["A"], c) /\ OwnQ(line["B"], line'["B"], c) /\ OwnQ(vfifo, vfifo', c)
    <3>1. /\ line["A"] # <<>> /\ Head(line["A"]).of = c /\ line'["A"] = Tail(line["A"])
          /\ line'["B"] = line["B"] /\ vfifo' = vfifo
      BY <1>1, <1>2, <1>3, Zenon
    <3>2. OwnQ(line["A"], line'["A"], c)
      BY ONLY <3>1 DEF OwnQ
    <3>3. OwnQ(line["B"], line'["B"], c)
      BY ONLY <3>1 DEF OwnQ
    <3>4. OwnQ(vfifo, vfifo', c)
      BY ONLY <3>1 DEF OwnQ
    <3>. QED  BY ONLY <3>2, <3>3, <3>4
  <2>2. /\ OwnM(reader["A"], reader'["A"], c) /\ OwnM(reader["B"], reader'["B"], c)
        /\ OwnM(taken, taken', c)
    <3>1. /\ reader'["B"] = reader["B"] \/ (None(reader["B"]) /\ reader'["B"].of = c)
          /\ reader'["A"] = reader["A"] /\ taken' = taken
      BY <1>1, <1>2, <1>3, Zenon
    <3>2. OwnM(reader["B"], reader'["B"], c)
      BY ONLY <3>1 DEF OwnM
    <3>3. OwnM(reader["A"], reader'["A"], c) /\ OwnM(taken, taken', c)
      BY ONLY <3>1 DEF OwnM
    <3>. QED  BY ONLY <3>2, <3>3
  <2>3. /\ got \subseteq got' /\ (lost' = 0 => lost = 0) /\ (receiver' = "up" => receiver = "up")
    BY ONLY <1>3
  <2>. QED  BY <1>3, <2>1, <2>2, <2>3, OthersKeep
<1>10. Still(c)
  BY ONLY <1>3 DEF Still
<1>11. /\ \A K : Is(m, c, K) = IF m.kind \in K THEN 1 ELSE 0
       /\ \A K : Is(reader["B"], c, K) = 0
       /\ \A K : Number(line["A"], c, K) = Is(m, c, K) + Number(line'["A"], c, K)
       /\ \A K : Number(line'["A"], c, K) \in Nat
  <2>1. /\ \A K : Is(m, c, K) = IF m.kind \in K THEN 1 ELSE 0
        /\ \A K : Is(reader["B"], c, K) = 0
    BY ONLY <1>1, <1>2, <1>6, IsNat
  <2>2. \A K : Number(line["A"], c, K) = Is(m, c, K) + Number(line'["A"], c, K)
    BY ONLY <1>1, <1>5, NumberTail
  <2>3. \A K : Number(line'["A"], c, K) \in Nat
    <3>1. line'["A"] \in Seq(Frame)
      BY ONLY <1>1, <1>5, Items
    <3>. QED  BY ONLY <3>1, NumberNat
  <2>. QED  BY ONLY <2>1, <2>2, <2>3
<1>12. /\ Seg(c)' = Seg(c) /\ Served(c)' = Served(c) /\ Far(c)' = Far(c)
       /\ \A K : Up(c, K)' = Up(c, K)
  <2>1. Sends(c)' <=> Sends(c)
    BY <1>10, StillIs
  <2>2. Seg(c)' = Seg(c)
    BY ONLY <1>3, <2>1 DEF Seg
  <2>3. Served(c)' = Served(c)
    BY ONLY <1>3, <2>1 DEF Served
  <2>4. \A K : Up(c, K)' = Up(c, K)
    BY ONLY <1>1, <2>2 DEF Up
  <2>. QED  BY ONLY <2>2, <2>3, <2>4 DEF Far
<1>13. /\ \A K : Down(c, K)' \in 0..Down(c, K)
       /\ reader'["B"] = m => \A K : Down(c, K)' = Down(c, K)
  <2>1. /\ \A K : Down(c, K) = Is(r[c].out, c, K) + Number(line["A"], c, K) + 0
        /\ \A K : Down(c, K)' = Is(r[c].out, c, K) + Number(line'["A"], c, K) + Is(reader'["B"], c, K)
    BY ONLY <1>3, <1>11 DEF Down
  <2>2. \A K : Is(r[c].out, c, K) \in {0, 1} /\ Is(m, c, K) \in {0, 1}
    BY IsNat
  <2>3. ASSUME NEW K PROVE Down(c, K)' \in 0..Down(c, K) /\ (reader'["B"] = m => Down(c, K)' = Down(c, K))
    <3>1. Is(reader'["B"], c, K) = Is(m, c, K) \/ Is(reader'["B"], c, K) = 0
      BY ONLY <1>3, <1>11
    <3>2. reader'["B"] = m => Is(reader'["B"], c, K) = Is(m, c, K)
      OBVIOUS
    <3>3. PICK a \in Nat, b \in Nat, x \in Nat, y \in Nat :
             /\ a = Is(r[c].out, c, K) /\ b = Number(line'["A"], c, K) /\ x = Is(m, c, K)
             /\ y = Is(reader'["B"], c, K)
      BY ONLY <1>11, <2>2, <3>1
    <3>4. Down(c, K) = a + (x + b) + 0 /\ Down(c, K)' = a + b + y
      BY ONLY <1>11, <2>1, <3>3
    <3>5. y = x \/ y = 0
      BY ONLY <3>1, <3>3
    <3>6. a \in Nat /\ b \in Nat /\ x \in Nat /\ y \in Nat
      OBVIOUS
    <3>7. a + b + y \in 0..(a + (x + b) + 0) /\ (y = x => a + b + y = a + (x + b) + 0)
      BY ONLY <3>5, <3>6
    <3>. QED  BY ONLY <3>2, <3>3, <3>4, <3>7
  <2>. QED  BY ONLY <2>3
<1>14. PICK x \in Nat, y \in Nat, b \in Nat :
          /\ x = Is(m, c, Words) /\ y = At(c)' /\ b = Near(c)' /\ Near(c) = x + b /\ At(c) = 0
          /\ y = x \/ y = 0
  <2>1. Is(m, c, Words) \in {0, 1}
    BY IsNat
  <2>2. At(c)' = Is(reader'["B"], c, Words) /\ Near(c)' = Number(line'["A"], c, Words)
        /\ At(c) = Is(reader["B"], c, Words) /\ Near(c) = Number(line["A"], c, Words)
    BY DEF At, Near
  <2>3. At(c)' = Is(m, c, Words) \/ At(c)' = 0
    BY ONLY <1>3, <1>11, <2>2
  <2>. QED  BY ONLY <1>11, <2>1, <2>2, <2>3
<1>15. Formed(c)' /\ Offer(c)'
  <2>1. Formed(c) /\ Offer(c) /\ (Goes(c)' <=> Goes(c)) /\ (Sends(c)' <=> Sends(c))
    BY <1>4, <1>10, StillIs DEF Conduit
  <2>2. Formed(c)'
    BY ONLY <1>3, <2>1 DEF Formed
  <2>3. Offer(c)'
    BY ONLY <1>1, <1>3, <2>1 DEF Offer
  <2>. QED  BY <2>2, <2>3
<1>16. OneOut(c)'
  BY <1>3, <1>4, <1>10, StillIs DEF Conduit
<1>17. InTurn(c)'
  <2>1. CASE s[c].at # "gone"
    <3>1. /\ Is(r[c].out, c, Quiets) = 1 => Near(c) + At(c) + Far(c) = 0
          /\ Number(line["A"], c, Quiets) # 0 => At(c) + Far(c) = 0
          /\ Before(line["A"], c, Quiets, Words)
      BY ONLY <1>4, <2>1 DEF Conduit, InTurn
    <3>2. /\ Before(line'["A"], c, Quiets, Words)
          /\ Is(m, c, Words) = 1 => Number(line'["A"], c, Quiets) = 0
      BY ONLY <1>1, <1>5, <3>1, Removed
    <3>3. PICK f \in Nat : f = Far(c)
      BY ONLY <1>4 DEF Amount
    <3>4. x \in Nat /\ y \in Nat /\ b \in Nat /\ f \in Nat /\ x \in {0, 1} /\ (y = x \/ y = 0)
      BY <1>14, IsNat
    <3>5. /\ x + b + 0 + f = 0 => b + y + f = 0
          /\ x # 1 /\ 0 + f = 0 => y + f = 0
          /\ 0 + f = 0 => f = 0
      BY ONLY <3>4
    <3>6. Is(r[c].out, c, Quiets) = 1 => Near(c)' + At(c)' + Far(c)' = 0
      <4>1. Near(c) + At(c) + Far(c) = x + b + 0 + f /\ Near(c)' + At(c)' + Far(c)' = b + y + f
        BY ONLY <1>12, <1>14, <3>3
      <4>. QED  BY ONLY <3>1, <3>5, <4>1
    <3>7. /\ Number(line'["A"], c, Quiets) # 0 => Number(line["A"], c, Quiets) # 0
          /\ Is(m, c, Quiets) = 1 => Number(line["A"], c, Quiets) # 0
      <4>1. /\ Number(line["A"], c, Quiets) = Is(m, c, Quiets) + Number(line'["A"], c, Quiets)
            /\ Number(line'["A"], c, Quiets) \in Nat
        BY ONLY <1>11
      <4>2. Is(m, c, Quiets) \in {0, 1}
        BY IsNat
      <4>. QED  BY ONLY <4>1, <4>2
    <3>8. Number(line'["A"], c, Quiets) # 0 => At(c)' + Far(c)' = 0
      <4>1. At(c) + Far(c) = 0 + f /\ At(c)' + Far(c)' = y + f
        BY ONLY <1>12, <1>14, <3>3
      <4>. QED  BY ONLY <1>14, <3>1, <3>2, <3>5, <3>7, <4>1
    <3>9. Is(reader'["B"], c, Quiets) = 1 => Far(c)' = 0
      <4>1. Is(reader'["B"], c, Quiets) = 1 => Is(m, c, Quiets) = 1
        BY ONLY <1>3, <1>11
      <4>2. At(c) + Far(c) = 0 + f
        BY ONLY <1>14, <3>3
      <4>. QED  BY ONLY <1>12, <3>1, <3>3, <3>5, <3>7, <4>1, <4>2
    <3>. QED  BY ONLY <1>3, <3>2, <3>6, <3>8, <3>9 DEF InTurn
  <2>2. CASE s[c].at = "gone"
    BY ONLY <1>3, <2>2 DEF InTurn
  <2>. QED  BY ONLY <2>1, <2>2
<1>18. Current(c)'
  <2>1. ASSUME client[c].at = "sending", Good(c)
        PROVE  /\ Coming(c, client[c].asked)' /\ Serving(c, client[c].asked)'
               /\ Going(c, client[c].asked)'
    <3>1. PICK n : n = client[c].asked
      OBVIOUS
    <3>2. Coming(c, n) /\ Serving(c, n) /\ Going(c, n)
      BY ONLY <1>4, <2>1, <3>1 DEF Conduit, Current
    <3>3. Serving(c, n)' /\ (Known(c, n)' <=> Known(c, n))
      BY ONLY <1>3, <3>2, Zenon DEF Serving, Known
    <3>4. Going(c, n)'
      BY ONLY <1>1, <1>12, <3>2, <3>3 DEF Going
    <3>5. /\ AllOwn(rfifo[c], c, Calls, n) /\ Own(r[c].out, c, n) /\ AllOwn(line["A"], c, Words, n)
          /\ Own(reader["B"], c, n)
      BY ONLY <3>2 DEF Coming
    <3>6. AllOwn(line'["A"], c, Words, n) /\ (Of(m, c, Words) => m.n = n)
      BY ONLY <1>1, <1>5, <3>5, Removed
    <3>7. Own(reader'["B"], c, n)
      BY ONLY <1>3, <3>5, <3>6 DEF Own
    <3>8. Coming(c, n)'
      BY ONLY <1>3, <3>5, <3>6, <3>7 DEF Coming
    <3>. QED  BY ONLY <1>3, <3>1, <3>3, <3>4, <3>8
  <2>2. (Good(c)' <=> Good(c)) /\ client' = client
    BY <1>3, <1>10, StillIs
  <2>. QED  BY ONLY <2>1, <2>2 DEF Current
<1>19. Conduit(c)'
  <2>1. /\ \A K : Down(c, K)' \in 0..Down(c, K) /\ Up(c, K)' \in 0..Up(c, K)
        /\ Served(c)' \in 0..Served(c)
    <3>1. \A i \in Nat : i \in 0..i
      OBVIOUS
    <3>2. \A K : Up(c, K) \in Nat /\ Served(c) \in Nat
      BY ONLY <1>4 DEF Amount
    <3>. QED  BY ONLY <1>12, <1>13, <3>1, <3>2
  <2>2. s[c].at \in {"up", "sending"} => Down(c, Requests)' = Down(c, Requests)
    <3>1. s[c].at \in {"up", "sending"} => reader'["B"] = m
      BY ONLY <1>3 DEF SEnded
    <3>. QED  BY ONLY <1>13, <3>1
  <2>3. Good(c) /\ s[c].at \in {"up", "sending"} /\ receiver' = "up" /\ lost' = 0 =>
             Down(c, Requests)' + Up(c, Requests)' + Served(c)' =
             Down(c, Requests) + Up(c, Requests) + Served(c)
    BY ONLY <1>12, <2>2
  <2>4. /\ yfifo'[c] = yfifo[c] /\ Number(vfifo', c, Words) = Number(vfifo, c, Words)
        /\ Is(taken', c, Words) = Is(taken, c, Words) /\ lost' = lost /\ receiver' = receiver
    BY ONLY <1>3
  <2>. QED  BY <1>10, <1>15, <1>16, <1>17, <1>18, <2>1, <2>3, <2>4, Flows
<1>. QED  BY <1>7, <1>8, <1>9, <1>19, Zenon DEF Orderly

\* The receiver receives what is in the segment: it is the request the message was for.
LEMMA TakeOrderly ==
  ASSUME Types, Orderly, Take PROVE Orderly'
<1>1. PICK m \in Frame :
         /\ m = Head(vfifo) /\ m.of \in Client /\ vfifo # <<>> /\ None(taken) /\ receiver = "up"
         /\ vfifo' = Tail(vfifo) /\ taken' \in Frame /\ got \subseteq got'
         /\ \/ m.kind = "proxy" /\ taken' = taken
            \/ /\ m.kind # "proxy" /\ ~ SEnded(m.of) /\ taken' \in got'
               /\ taken'.kind = "send" /\ taken'.of = m.of
               /\ seg[m.of].kind = "send" => taken'.n = seg[m.of].n
         /\ UNCHANGED <<setup, client, answer, rVars, sVars, wires, receiver>>
  BY TakeDoes
<1>2. PICK c \in Client : c = m.of
  BY <1>1
<1>3. /\ UNCHANGED <<client, answer, r, rfifo, s, seg, yfifo, writer, line, reader, lost, receiver>>
      /\ \/ m.kind = "proxy" /\ taken' = taken
         \/ /\ m.kind # "proxy" /\ ~ SEnded(c) /\ taken' \in got'
            /\ taken'.kind = "send" /\ taken'.of = c
            /\ seg[c].kind = "send" => taken'.n = seg[c].n
  BY ONLY <1>1, <1>2 DEF rVars, sVars, wires
<1>4. /\ Conduit(c) /\ Kinds /\ Writers /\ Amount(c)
  BY Amounts DEF Orderly
<1>5. vfifo \in Seq(Frame)
  BY STypes
<1>6. /\ m.kind \in {"send", "proxy"} /\ ~ None(m)
      /\ \A i \in DOMAIN vfifo' : vfifo'[i].kind \in {"send", "proxy"}
  <2>1. \A i \in DOMAIN vfifo : vfifo[i].kind \in {"send", "proxy"}
    BY ONLY <1>4, Zenon DEF Kinds
  <2>2. m.kind \in {"send", "proxy"} /\ \A i \in DOMAIN vfifo' : vfifo'[i].kind \in {"send", "proxy"}
    BY ONLY <1>1, <1>5, <2>1, Ended
  <2>. QED  BY ONLY <2>2 DEF None
<1>7. Kinds'
  <2>1. None(taken') \/ taken'.kind = "send"
    BY ONLY <1>1, <1>3
  <2>. QED  BY ONLY <1>1, <1>3, <1>4, <1>6, <2>1 DEF Kinds
<1>8. Writers'
  BY ONLY <1>3, <1>4 DEF Writers, Sends
<1>9. \A d \in Client \ {c} : Conduit(d)'
  <2>1. /\ OwnQ(line["A"], line'["A"], c) /\ OwnQ(line["B"], line'["B"], c) /\ OwnQ(vfifo, vfifo', c)
    <3>1. /\ vfifo # <<>> /\ Head(vfifo).of = c /\ vfifo' = Tail(vfifo) /\ line' = line
      BY <1>1, <1>2, <1>3, Zenon
    <3>2. OwnQ(line["A"], line'["A"], c) /\ OwnQ(line["B"], line'["B"], c)
      BY ONLY <3>1 DEF OwnQ
    <3>3. OwnQ(vfifo, vfifo', c)
      BY ONLY <3>1 DEF OwnQ
    <3>. QED  BY ONLY <3>2, <3>3
  <2>2. /\ OwnM(reader["A"], reader'["A"], c) /\ OwnM(reader["B"], reader'["B"], c)
        /\ OwnM(taken, taken', c)
    <3>1. /\ taken' = taken \/ (None(taken) /\ taken'.of = c)
          /\ reader' = reader
      BY <1>1, <1>3, Zenon
    <3>2. OwnM(taken, taken', c)
      BY ONLY <3>1 DEF OwnM
    <3>3. OwnM(reader["A"], reader'["A"], c) /\ OwnM(reader["B"], reader'["B"], c)
      BY ONLY <3>1 DEF OwnM
    <3>. QED  BY ONLY <3>2, <3>3
  <2>3. /\ got \subseteq got' /\ (lost' = 0 => lost = 0) /\ (receiver' = "up" => receiver = "up")
    BY ONLY <1>1, <1>3
  <2>4. Elsewhere(c)
    BY ONLY <1>3 DEF Elsewhere
  <2>. QED  BY <2>1, <2>2, <2>3, <2>4, OthersKeep
<1>10. Still(c)
  BY ONLY <1>1, <1>3 DEF Still
<1>11. /\ Is(m, c, Words) \in {0, 1} /\ Is(taken, c, Words) = 0
       /\ Is(taken', c, Words) = Is(m, c, Words)
       /\ Number(vfifo, c, Words) = Is(m, c, Words) + Number(vfifo', c, Words)
       /\ Number(vfifo', c, Words) \in Nat
       /\ Is(m, c, Words) = 0 => taken' = taken
  <2>1. Is(m, c, Words) = IF m.kind \in Words THEN 1 ELSE 0
    BY ONLY <1>1, <1>2, <1>6, IsNat
  <2>2. Is(taken, c, Words) = 0
    BY ONLY <1>1, IsNat
  <2>3. Number(vfifo, c, Words) = Is(m, c, Words) + Number(vfifo', c, Words)
    BY ONLY <1>1, <1>5, NumberTail
  <2>4. Number(vfifo', c, Words) \in Nat
    <3>1. vfifo' \in Seq(Frame)
      BY ONLY <1>1, <1>5, Items
    <3>. QED  BY ONLY <3>1, NumberNat
  <2>5. CASE m.kind = "proxy"
    <3>1. Is(m, c, Words) = 0
      BY ONLY <2>1, <2>5 DEF Words
    <3>2. taken' = taken
      BY ONLY <1>3, <2>5
    <3>. QED  BY ONLY <2>2, <2>3, <2>4, <3>1, <3>2
  <2>6. CASE m.kind = "send"
    <3>1. Is(m, c, Words) = 1
      BY ONLY <2>1, <2>6 DEF Words
    <3>2. taken'.kind = "send" /\ taken'.of = c
      BY ONLY <1>3, <2>6
    <3>3. Is(taken', c, Words) = 1
      <4>1. ~ None(taken')
        BY ONLY <3>2 DEF None
      <4>. QED  BY ONLY <3>2, <4>1, IsNat DEF Words
    <3>. QED  BY ONLY <2>2, <2>3, <2>4, <3>1, <3>3
  <2>. QED  BY ONLY <1>6, <2>5, <2>6
<1>12. /\ Seg(c)' = Seg(c) /\ Served(c)' = Served(c) /\ At(c)' = At(c) /\ Near(c)' = Near(c)
       /\ Far(c)' = Far(c)
       /\ \A K : Up(c, K)' = Up(c, K) /\ Down(c, K)' = Down(c, K)
  <2>1. Sends(c)' <=> Sends(c)
    BY <1>10, StillIs
  <2>2. Seg(c)' = Seg(c)
    BY ONLY <1>3, <2>1 DEF Seg
  <2>3. Served(c)' = Served(c)
    <3>1. PICK w : w = IF Sends(c) THEN 0 ELSE Len(yfifo[c])
      OBVIOUS
    <3>2. Served(c) = Number(vfifo, c, Words) + Is(taken, c, Words) + w
      BY ONLY <3>1 DEF Served
    <3>3. Served(c)' = Number(vfifo', c, Words) + Is(taken', c, Words) + w
      BY ONLY <1>3, <2>1, <3>1 DEF Served
    <3>4. PICK x \in Nat, b \in Nat : x = Is(m, c, Words) /\ b = Number(vfifo', c, Words)
      BY ONLY <1>11
    <3>5. Number(vfifo, c, Words) + Is(taken, c, Words) = b + x
      BY ONLY <1>11, <3>4
    <3>6. Number(vfifo', c, Words) + Is(taken', c, Words) = b + x
      BY ONLY <1>11, <3>4
    <3>. QED  BY ONLY <3>2, <3>3, <3>5, <3>6
  <2>4. \A K : Up(c, K)' = Up(c, K) /\ Down(c, K)' = Down(c, K)
    BY ONLY <1>3, <2>2 DEF Up, Down
  <2>5. At(c)' = At(c) /\ Near(c)' = Near(c)
    BY ONLY <1>3 DEF At, Near
  <2>. QED  BY ONLY <2>2, <2>3, <2>4, <2>5 DEF Far
<1>13. Formed(c)' /\ Offer(c)' /\ InTurn(c)'
  <2>1. /\ Formed(c) /\ Offer(c) /\ InTurn(c) /\ (Goes(c)' <=> Goes(c))
        /\ (Sends(c)' <=> Sends(c))
    BY <1>4, <1>10, StillIs DEF Conduit
  <2>2. Formed(c)'
    BY ONLY <1>3, <2>1 DEF Formed
  <2>3. Offer(c)'
    BY ONLY <1>3, <2>1 DEF Offer
  <2>4. InTurn(c)'
    BY ONLY <1>3, <1>12, <2>1 DEF InTurn
  <2>. QED  BY <2>2, <2>3, <2>4
<1>14. OneOut(c)'
  BY <1>3, <1>4, <1>10, StillIs DEF Conduit
<1>15. Number(vfifo, c, Words) # 0 /\ ~ SEnded(c) => s[c].at = "up"
  <2>1. ASSUME Number(vfifo, c, Words) # 0 PROVE s[c].at # "forked" /\ s[c].at # "sending"
    <3>1. s[c].at # "forked"
      BY ONLY <1>4, <2>1 DEF Conduit, LookUp
    <3>2. Served(c) # 0
      <4>1. PICK a \in Nat, b \in Nat, e \in Nat :
               a = Number(vfifo, c, Words) /\ b = Is(taken, c, Words)
               /\ e = (IF Sends(c) THEN 0 ELSE Len(yfifo[c]))
        <5>1. Number(vfifo, c, Words) \in Nat /\ Is(taken, c, Words) \in Nat
          BY ONLY <1>11
        <5>2. (IF Sends(c) THEN 0 ELSE Len(yfifo[c])) \in Nat
          <6>1. Len(yfifo[c]) \in Nat
            BY ONLY <1>4 DEF Amount
          <6>. QED  BY ONLY <6>1
        <5>. QED  BY ONLY <5>1, <5>2, Zenon
      <4>2. Served(c) = a + b + e /\ a # 0
        BY ONLY <2>1, <4>1 DEF Served
      <4>3. a \in Nat /\ b \in Nat /\ e \in Nat
        OBVIOUS
      <4>. QED  BY ONLY <4>2, <4>3
    <3>3. s[c].at # "sending"
      BY ONLY <1>4, <3>2 DEF Conduit, Transit, Sends
    <3>. QED  BY <3>1, <3>3
  <2>2. s[c].at \in {"none", "forked", "up", "sending", "gone"}
    BY STypes DEF SType
  <2>. QED  BY ONLY <2>1, <2>2 DEF SEnded
<1>16. Current(c)'
  <2>1. ASSUME client[c].at = "sending", Good(c)
        PROVE  /\ Coming(c, client[c].asked)' /\ Serving(c, client[c].asked)'
               /\ Going(c, client[c].asked)'
    <3>1. PICK n : n = client[c].asked
      OBVIOUS
    <3>2. Coming(c, n) /\ Serving(c, n) /\ Going(c, n)
      BY ONLY <1>4, <2>1, <3>1 DEF Conduit, Current
    <3>3. Known(c, n) => Known(c, n)'
      BY <1>10, StillIs
    <3>4. Coming(c, n)'
      BY ONLY <1>3, <3>2 DEF Coming
    <3>5. Going(c, n)'
      <4>1. Own(Seg(c), c, n) /\ AllOwn(line["B"], c, Words, n) /\ Own(reader["A"], c, n)
            /\ (Up(c, Words) # 0 => Known(c, n))
        BY ONLY <3>2 DEF Going
      <4>. QED  BY ONLY <1>3, <1>12, <3>3, <4>1 DEF Going
    <3>6. /\ Number(vfifo, c, Words) # 0 /\ s[c].at = "up" => seg[c].kind = "send" /\ seg[c].n = n
          /\ Own(taken, c, n)
          /\ s[c].at = "up" /\ yfifo[c] # <<>> /\ Head(yfifo[c]) =>
                 seg[c].kind = "reply" /\ seg[c].n = n /\ Known(c, n)
      BY ONLY <3>2, Zenon DEF Serving
    <3>7. Number(vfifo', c, Words) # 0 => Number(vfifo, c, Words) # 0
      BY ONLY <1>11
    <3>8. Own(taken', c, n) /\ (Is(taken', c, Words) = 1 => Known(c, n)')
      <4>1. CASE Is(m, c, Words) = 0
        <5>1. Own(taken, c, n)
          BY ONLY <3>6, Zenon
        <5>. QED  BY ONLY <1>11, <4>1, <5>1
      <4>2. CASE Is(m, c, Words) = 1
        <5>1. Number(vfifo, c, Words) # 0
          BY ONLY <1>11, <4>2
        <5>2. m.kind = "send"
          <6>1. Is(m, c, Words) = IF m.kind \in Words THEN 1 ELSE 0
            BY ONLY <1>1, <1>2, <1>6, IsNat
          <6>. QED  BY ONLY <1>6, <4>2, <6>1 DEF Words
        <5>3. ~ SEnded(c) /\ taken' \in got' /\ taken'.of = c /\ (seg[c].kind = "send" => taken'.n = seg[c].n)
          BY ONLY <1>3, <5>2
        <5>4. seg[c].kind = "send" /\ seg[c].n = n
          <6>1. Number(vfifo, c, Words) # 0 /\ s[c].at = "up" => seg[c].kind = "send" /\ seg[c].n = n
            BY ONLY <3>6, Zenon
          <6>. QED  BY ONLY <1>15, <5>1, <5>3, <6>1
        <5>5. taken'.n = n
          BY ONLY <5>3, <5>4
        <5>6. Own(taken', c, n)
          BY ONLY <5>5 DEF Own
        <5>7. Known(c, n)'
          BY ONLY <5>3, <5>5 DEF Known
        <5>. QED  BY ONLY <5>6, <5>7
      <4>. QED  BY ONLY <1>11, <4>1, <4>2
    <3>9. Serving(c, n)'
      <4>1. Number(vfifo', c, Words) # 0 /\ s'[c].at = "up" => seg'[c].kind = "send" /\ seg'[c].n = n
        <5>1. Number(vfifo, c, Words) # 0 /\ s[c].at = "up" => seg[c].kind = "send" /\ seg[c].n = n
          BY ONLY <3>6, Zenon
        <5>. QED  BY ONLY <1>3, <3>7, <5>1
      <4>2. s'[c].at = "up" /\ yfifo'[c] # <<>> /\ Head(yfifo'[c]) =>
                 seg'[c].kind = "reply" /\ seg'[c].n = n /\ Known(c, n)'
        <5>1. s' = s /\ yfifo' = yfifo /\ seg' = seg
          BY ONLY <1>3
        <5>. QED  BY ONLY <3>3, <3>6, <5>1, Zenon
      <4>. QED  BY ONLY <3>8, <4>1, <4>2, Zenon DEF Serving
    <3>. QED  BY ONLY <1>3, <3>1, <3>4, <3>5, <3>9
  <2>2. (Good(c)' <=> Good(c)) /\ client' = client
    BY <1>3, <1>10, StillIs
  <2>. QED  BY ONLY <2>1, <2>2 DEF Current
<1>17. Conduit(c)'
  <2>1. /\ \A K : Down(c, K)' \in 0..Down(c, K) /\ Up(c, K)' \in 0..Up(c, K)
        /\ Served(c)' \in 0..Served(c)
    <3>1. \A i \in Nat : i \in 0..i
      OBVIOUS
    <3>2. \A K : Down(c, K) \in Nat /\ Up(c, K) \in Nat /\ Served(c) \in Nat
      BY ONLY <1>4 DEF Amount
    <3>. QED  BY ONLY <1>12, <3>1, <3>2
  <2>2. s[c].at \in {"none", "forked"} =>
             yfifo'[c] = yfifo[c] /\ Number(vfifo', c, Words) = Number(vfifo, c, Words)
             /\ Is(taken', c, Words) = Is(taken, c, Words)
    <3>1. s[c].at \in {"none", "forked"} => Number(vfifo, c, Words) = 0
      BY ONLY <1>4 DEF Conduit, LookUp
    <3>2. Number(vfifo, c, Words) = 0 => Is(m, c, Words) = 0 /\ Number(vfifo', c, Words) = 0
      BY ONLY <1>11
    <3>. QED  BY ONLY <1>3, <1>11, <3>1, <3>2
  <2>3. Good(c) /\ s[c].at \in {"up", "sending"} /\ receiver' = "up" /\ lost' = 0 =>
             Down(c, Requests)' + Up(c, Requests)' + Served(c)' =
             Down(c, Requests) + Up(c, Requests) + Served(c)
    BY ONLY <1>12
  <2>4. lost' = lost /\ receiver' = receiver
    BY ONLY <1>3
  <2>. QED  BY <1>10, <1>13, <1>14, <1>16, <2>1, <2>2, <2>3, <2>4, Flows
<1>. QED  BY <1>7, <1>8, <1>9, <1>17, Zenon DEF Orderly

\* While the receiver has the request of a surrogate_s that is there, nothing waits for
\* surrogate_s and no other request does for the receiver.
LEMMA BeingServed ==
  ASSUME Types, Orderly, NEW c \in Client, Is(taken, c, Words) = 1, ~ SEnded(c)
  PROVE  /\ s[c].at = "up" /\ ~ Sends(c) /\ yfifo[c] = <<>> /\ Len(yfifo[c]) = 0
         /\ Number(vfifo, c, Words) = 0 /\ Served(c) = 1
<1>1. Conduit(c) /\ Amount(c) /\ yfifo[c] \in Seq(BOOLEAN)
  BY Amounts, STypes DEF Orderly
<1>2. PICK a \in Nat, l \in Nat, e \in Nat, v \in Nat, u \in Nat, w \in Nat, z \in Nat :
         /\ a = Number(vfifo, c, Words) /\ l = Len(yfifo[c]) /\ e = (IF Sends(c) THEN 0 ELSE l)
         /\ v = Served(c) /\ u = Up(c, Words) /\ w = Down(c, Words) /\ z = Far(c)
  BY ONLY <1>1 DEF Amount
<1>3. v = a + 1 + e /\ z = u + v /\ w + z <= 1 /\ (Sends(c) => v = 0)
  BY ONLY <1>1, <1>2, Is(taken, c, Words) = 1 DEF Served, Far, Conduit, Transit
<1>4. /\ a \in Nat /\ l \in Nat /\ e \in Nat /\ v \in Nat /\ u \in Nat /\ w \in Nat /\ z \in Nat
      /\ e = IF Sends(c) THEN 0 ELSE l
  BY <1>2
<1>5. a = 0 /\ e = 0 /\ v = 1
  BY ONLY <1>3, <1>4
<1>6. ~ Sends(c)
  BY ONLY <1>3, <1>5
<1>7. l = 0
  BY ONLY <1>4, <1>5, <1>6
<1>8. yfifo[c] = <<>>
  BY ONLY <1>1, <1>2, <1>7, LastItem
<1>9. s[c].at = "up"
  <2>1. s[c].at \notin {"none", "forked"}
    BY ONLY <1>1, Is(taken, c, Words) = 1 DEF Conduit, LookUp
  <2>2. s[c].at \in {"none", "forked", "up", "sending", "gone"}
    BY STypes DEF SType
  <2>3. s[c].at \notin {"none", "gone", "sending"}
    BY <1>6 DEF SEnded, Sends
  <2>. QED  BY ONLY <2>1, <2>2, <2>3
<1>. QED  BY ONLY <1>2, <1>5, <1>6, <1>7, <1>8, <1>9

\* What a reply, or the end of the receiver, does to a conduit.
Replied(c) ==
    /\ UNCHANGED <<client, answer, r, rfifo, s, writer, line, reader, lost, got>>
    /\ Is(taken', c, Words) = 0 /\ \A n : Own(taken', c, n)
    /\ vfifo' = vfifo \/ (vfifo' = <<>> /\ receiver' = "gone")
    /\ receiver' = "up" => receiver = "up"
    /\ \/ /\ yfifo'[c] = yfifo[c] /\ seg'[c] = seg[c]
          /\ Is(taken, c, Words) = 0 \/ s[c].at = "gone" \/ receiver' = "gone"
       \/ /\ Is(taken, c, Words) = 1 /\ ~ SEnded(c) /\ seg'[c] = seg[c]
          /\ yfifo'[c] = Append(yfifo[c], FALSE)
       \/ /\ Is(taken, c, Words) = 1 /\ ~ SEnded(c) /\ yfifo'[c] = Append(yfifo[c], TRUE)
          /\ seg'[c] = [kind |-> "reply", of |-> c, n |-> taken.n]

\* The word is the only one there, and what surrogate_s finds with it is the reply.
LEMMA RepliedIs ==
  ASSUME Types, Orderly, NEW c \in Client, Replied(c)
  PROVE  Conduit(c)' /\ (Sends(c) => yfifo'[c] = yfifo[c])
<1>1. /\ UNCHANGED <<client, answer, r, rfifo, s, writer, line, reader, lost, got>>
      /\ Is(taken', c, Words) = 0 /\ \A n : Own(taken', c, n)
      /\ vfifo' = vfifo \/ (vfifo' = <<>> /\ receiver' = "gone")
      /\ receiver' = "up" => receiver = "up"
  BY ONLY Replied(c) DEF Replied
<1>2. Conduit(c) /\ Amount(c)
  BY Amounts DEF Orderly
<1>3. Still(c)
  BY ONLY <1>1 DEF Still
<1>4. \/ /\ yfifo'[c] = yfifo[c] /\ seg'[c] = seg[c]
         /\ Is(taken, c, Words) = 0 \/ s[c].at = "gone" \/ receiver' = "gone"
      \/ /\ s[c].at = "up" /\ ~ Sends(c) /\ Number(vfifo, c, Words) = 0 /\ Served(c) = 1
         /\ Len(yfifo[c]) = 0 /\ Is(taken, c, Words) = 1
         /\ \/ yfifo'[c] = <<FALSE>> /\ seg'[c] = seg[c]
            \/ yfifo'[c] = <<TRUE>> /\ seg'[c] = [kind |-> "reply", of |-> c, n |-> taken.n]
  <2>1. CASE /\ Is(taken, c, Words) = 1 /\ ~ SEnded(c)
             /\ \/ yfifo'[c] = Append(yfifo[c], FALSE) /\ seg'[c] = seg[c]
                \/ /\ yfifo'[c] = Append(yfifo[c], TRUE)
                   /\ seg'[c] = [kind |-> "reply", of |-> c, n |-> taken.n]
    <3>1. /\ s[c].at = "up" /\ ~ Sends(c) /\ yfifo[c] = <<>> /\ Len(yfifo[c]) = 0
          /\ Number(vfifo, c, Words) = 0 /\ Served(c) = 1
      BY <2>1, BeingServed
    <3>2. Append(<<>>, TRUE) = <<TRUE>> /\ Append(<<>>, FALSE) = <<FALSE>>
      OBVIOUS
    <3>3. \/ yfifo'[c] = <<FALSE>> /\ seg'[c] = seg[c]
          \/ yfifo'[c] = <<TRUE>> /\ seg'[c] = [kind |-> "reply", of |-> c, n |-> taken.n]
      BY ONLY <2>1, <3>1, <3>2, Zenon
    <3>. QED  BY ONLY <2>1, <3>1, <3>3, Zenon
  <2>2. CASE /\ yfifo'[c] = yfifo[c] /\ seg'[c] = seg[c]
             /\ Is(taken, c, Words) = 0 \/ s[c].at = "gone" \/ receiver' = "gone"
    BY ONLY <2>2, Zenon
  <2>. QED  BY ONLY Replied(c), <2>1, <2>2, Zenon DEF Replied
<1>5. /\ (Sends(c)' <=> Sends(c)) /\ Seg(c)' = Seg(c) /\ At(c)' = At(c) /\ Near(c)' = Near(c)
      /\ \A K : Up(c, K)' = Up(c, K) /\ Down(c, K)' = Down(c, K)
  <2>1. Sends(c)' <=> Sends(c)
    BY <1>3, StillIs
  <2>2. Seg(c)' = Seg(c)
    <3>1. Sends(c) => seg'[c] = seg[c]
      BY ONLY <1>4, Zenon
    <3>. QED  BY ONLY <2>1, <3>1 DEF Seg
  <2>3. \A K : Up(c, K)' = Up(c, K) /\ Down(c, K)' = Down(c, K)
    BY ONLY <1>1, <2>2 DEF Up, Down
  <2>4. At(c)' = At(c) /\ Near(c)' = Near(c)
    BY ONLY <1>1 DEF At, Near
  <2>. QED  BY ONLY <2>1, <2>2, <2>3, <2>4
<1>6. /\ Number(vfifo, c, Words) \in Nat /\ Number(vfifo', c, Words) \in 0..Number(vfifo, c, Words)
      /\ receiver' = "up" => Number(vfifo', c, Words) = Number(vfifo, c, Words)
  <2>1. Number(vfifo, c, Words) \in Nat
    BY ONLY <1>2 DEF Amount
  <2>2. Number(<<>>, c, Words) = 0
    BY ONLY NumberEmpty
  <2>3. CASE vfifo' = vfifo
    BY ONLY <2>1, <2>3
  <2>4. CASE vfifo' = <<>> /\ receiver' = "gone"
    BY ONLY <2>1, <2>2, <2>4
  <2>. QED  BY ONLY <1>1, <2>3, <2>4
<1>7. /\ Served(c)' \in 0..Served(c)
      /\ receiver' = "up" /\ s[c].at # "gone" => Served(c)' = Served(c)
  <2>1. PICK a \in Nat, b \in Nat, e \in Nat, t \in {0, 1} :
           /\ a = Number(vfifo, c, Words) /\ b = Number(vfifo', c, Words) /\ b \in 0..a
           /\ receiver' = "up" => b = a
           /\ e = (IF Sends(c) THEN 0 ELSE Len(yfifo[c])) /\ t = Is(taken, c, Words)
    <3>1. (IF Sends(c) THEN 0 ELSE Len(yfifo[c])) \in Nat
      <4>1. Len(yfifo[c]) \in Nat
        BY ONLY <1>2 DEF Amount
      <4>. QED  BY ONLY <4>1
    <3>2. Is(taken, c, Words) \in {0, 1}
      BY ONLY IsNat
    <3>3. Number(vfifo', c, Words) \in Nat
      BY ONLY <1>6
    <3>. QED  BY ONLY <1>6, <3>1, <3>2, <3>3
  <2>2. a \in Nat /\ b \in 0..a /\ e \in Nat /\ t \in {0, 1} /\ (receiver' = "up" => b = a)
    BY <2>1
  <2>3. Served(c) = a + t + e
    BY ONLY <2>1 DEF Served
  <2>4. CASE /\ yfifo'[c] = yfifo[c]
             /\ Is(taken, c, Words) = 0 \/ s[c].at = "gone" \/ receiver' = "gone"
    <3>1. Served(c)' = b + 0 + e
      BY ONLY <1>1, <1>5, <2>1, <2>4 DEF Served
    <3>2. b + 0 + e \in 0..(a + t + e)
      BY ONLY <2>2
    <3>3. t = 0 /\ b = a => b + 0 + e = a + t + e
      BY ONLY <2>2
    <3>4. receiver' = "up" /\ s[c].at # "gone" => t = 0 /\ b = a
      BY ONLY <2>1, <2>4
    <3>. QED  BY ONLY <2>3, <3>1, <3>2, <3>3, <3>4
  <2>5. CASE /\ ~ Sends(c) /\ Number(vfifo, c, Words) = 0 /\ Served(c) = 1 
             /\ yfifo'[c] = <<FALSE>> \/ yfifo'[c] = <<TRUE>>
    <3>1. Len(yfifo'[c]) = 1
      <4>1. Len(<<FALSE>>) = 1 /\ Len(<<TRUE>>) = 1
        OBVIOUS
      <4>. QED  BY ONLY <2>5, <4>1, Zenon
    <3>2. Served(c)' = b + 0 + 1
      BY ONLY <1>1, <1>5, <2>1, <2>5, <3>1 DEF Served
    <3>3. b = 0
      BY ONLY <2>1, <2>5
    <3>. QED  BY ONLY <2>5, <3>2, <3>3
  <2>. QED  BY ONLY <1>4, <2>4, <2>5, Zenon
<1>8. Far(c)' \in 0..Far(c) /\ Far(c) \in Nat
  <2>1. Far(c) = Up(c, Words) + Served(c) /\ Far(c)' = Up(c, Words) + Served(c)'
    BY <1>5 DEF Far
  <2>2. Up(c, Words) \in Nat /\ Served(c) \in Nat
    BY ONLY <1>2 DEF Amount
  <2>. QED  BY ONLY <1>7, <2>1, <2>2
<1>9. Sends(c) => yfifo'[c] = yfifo[c] /\ seg'[c] = seg[c]
  BY ONLY <1>4, Zenon
<1>10. Formed(c)' /\ Offer(c)'
  <2>1. Formed(c) /\ Offer(c) /\ (Goes(c)' <=> Goes(c))
    BY <1>2, <1>3, StillIs DEF Conduit
  <2>2. None(seg'[c]) \/ seg'[c].of = c
    <3>1. None(seg[c]) \/ seg[c].of = c
      BY ONLY <2>1 DEF Formed
    <3>2. [kind |-> "reply", of |-> c, n |-> taken.n].of = c
      OBVIOUS
    <3>3. seg'[c] = seg[c] \/ seg'[c] = [kind |-> "reply", of |-> c, n |-> taken.n]
      BY ONLY <1>4, Zenon
    <3>. QED  BY ONLY <3>1, <3>2, <3>3, Zenon
  <2>3. Formed(c)'
    BY ONLY <1>1, <1>5, <1>9, <2>1, <2>2 DEF Formed
  <2>4. Offer(c)'
    BY ONLY <1>1, <2>1 DEF Offer
  <2>. QED  BY <2>3, <2>4
<1>11. OneOut(c)'
  BY <1>1, <1>2, <1>3, StillIs DEF Conduit
<1>12. InTurn(c)'
  <2>1. CASE s[c].at # "gone"
    <3>1. /\ Is(r[c].out, c, Quiets) = 1 => Near(c) + At(c) + Far(c) = 0
          /\ Number(line["A"], c, Quiets) # 0 => At(c) + Far(c) = 0
          /\ Is(reader["B"], c, Quiets) = 1 => Far(c) = 0
          /\ Before(line["A"], c, Quiets, Words)
      BY ONLY <1>2, <2>1 DEF Conduit, InTurn
    <3>2. /\ Near(c) + At(c) + Far(c) = 0 => Near(c) + At(c) + Far(c)' = 0
          /\ At(c) + Far(c) = 0 => At(c) + Far(c)' = 0
          /\ Far(c) = 0 => Far(c)' = 0
      <4>1. Near(c) \in Nat /\ At(c) \in Nat /\ Far(c) \in Nat
        BY ONLY <1>2 DEF Amount
      <4>2. \A i, j, k \in Nat : \A l \in 0..k :
               /\ i + j + k = 0 => i + j + l = 0
               /\ j + k = 0 => j + l = 0
               /\ k = 0 => l = 0
        OBVIOUS
      <4>. QED  BY ONLY <1>8, <4>1, <4>2
    <3>. QED  BY ONLY <1>1, <1>5, <3>1, <3>2 DEF InTurn
  <2>2. CASE s[c].at = "gone"
    BY ONLY <1>1, <2>2 DEF InTurn
  <2>. QED  BY ONLY <2>1, <2>2
<1>13. Current(c)'
  <2>1. ASSUME client[c].at = "sending", Good(c)
        PROVE  /\ Coming(c, client[c].asked)' /\ Serving(c, client[c].asked)'
               /\ Going(c, client[c].asked)'
    <3>1. PICK n : n = client[c].asked
      OBVIOUS
    <3>2. Coming(c, n) /\ Serving(c, n) /\ Going(c, n)
      BY ONLY <1>2, <2>1, <3>1 DEF Conduit, Current
    <3>3. Known(c, n)' <=> Known(c, n)
      BY ONLY <1>1 DEF Known
    <3>4. Coming(c, n)'
      BY ONLY <1>1, <3>2 DEF Coming
    <3>5. Going(c, n)'
      <4>1. Own(Seg(c), c, n) /\ AllOwn(line["B"], c, Words, n) /\ Own(reader["A"], c, n)
            /\ (Up(c, Words) # 0 => Known(c, n))
        BY ONLY <3>2 DEF Going
      <4>. QED  BY ONLY <1>1, <1>5, <3>3, <4>1 DEF Going
    <3>6. /\ Number(vfifo, c, Words) # 0 /\ s[c].at = "up" => seg[c].kind = "send" /\ seg[c].n = n
          /\ Own(taken, c, n) /\ (Is(taken, c, Words) = 1 => Known(c, n))
          /\ s[c].at = "up" /\ yfifo[c] # <<>> /\ Head(yfifo[c]) =>
                 seg[c].kind = "reply" /\ seg[c].n = n /\ Known(c, n)
      BY ONLY <3>2, Zenon DEF Serving
    <3>7. Own(taken', c, n) /\ (Is(taken', c, Words) = 1 => Known(c, n)')
      BY ONLY <1>1
    <3>8. Number(vfifo', c, Words) # 0 /\ s'[c].at = "up" => seg'[c].kind = "send" /\ seg'[c].n = n
      <4>1. Number(vfifo', c, Words) # 0 => Number(vfifo, c, Words) # 0
        BY ONLY <1>6
      <4>2. Number(vfifo, c, Words) # 0 => seg'[c] = seg[c]
        BY ONLY <1>4, Zenon
      <4>3. Number(vfifo, c, Words) # 0 /\ s[c].at = "up" => seg[c].kind = "send" /\ seg[c].n = n
        BY ONLY <3>6, Zenon
      <4>. QED  BY ONLY <1>1, <4>1, <4>2, <4>3
    <3>9. s'[c].at = "up" /\ yfifo'[c] # <<>> /\ Head(yfifo'[c]) =>
                 seg'[c].kind = "reply" /\ seg'[c].n = n /\ Known(c, n)'
      <4>1. CASE yfifo'[c] = yfifo[c] /\ seg'[c] = seg[c]
        <5>1. s' = s
          BY ONLY <1>1
        <5>. QED  BY ONLY <3>3, <3>6, <4>1, <5>1, Zenon
      <4>2. CASE yfifo'[c] = <<FALSE>>
        <5>1. Head(<<FALSE>>) = FALSE
          <6>1. FALSE \in BOOLEAN
            OBVIOUS
          <6>. QED  BY ONLY <6>1, OneItem, Zenon
        <5>. QED  BY ONLY <4>2, <5>1, Zenon
      <4>3. CASE /\ Is(taken, c, Words) = 1
                 /\ seg'[c] = [kind |-> "reply", of |-> c, n |-> taken.n]
        <5>1. Of(taken, c, Words)
          BY ONLY <4>3, IsNat
        <5>2. Own(taken, c, n) /\ Known(c, n)
          BY ONLY <3>6, <4>3, Zenon
        <5>3. taken.n = n
          BY ONLY <5>1, <5>2 DEF Own
        <5>4. seg'[c].kind = "reply" /\ seg'[c].n = n
          BY ONLY <4>3, <5>3
        <5>. QED  BY ONLY <3>3, <5>2, <5>4, Zenon
      <4>. QED  BY ONLY <1>4, <4>1, <4>2, <4>3, Zenon
    <3>10. Serving(c, n)'
      BY ONLY <3>7, <3>8, <3>9, Zenon DEF Serving
    <3>. QED  BY ONLY <1>1, <3>1, <3>4, <3>5, <3>10
  <2>2. (Good(c)' <=> Good(c)) /\ client' = client
    BY <1>1, <1>3, StillIs
  <2>. QED  BY ONLY <2>1, <2>2 DEF Current
<1>14. Conduit(c)'
  <2>1. \A K : Down(c, K)' \in 0..Down(c, K) /\ Up(c, K)' \in 0..Up(c, K)
    <3>1. \A i \in Nat : i \in 0..i
      OBVIOUS
    <3>2. \A K : Down(c, K) \in Nat /\ Up(c, K) \in Nat
      BY ONLY <1>2 DEF Amount
    <3>. QED  BY ONLY <1>5, <3>1, <3>2
  <2>2. s[c].at \in {"none", "forked"} =>
             yfifo'[c] = yfifo[c] /\ Number(vfifo', c, Words) = Number(vfifo, c, Words)
             /\ Is(taken', c, Words) = Is(taken, c, Words)
    <3>1. s[c].at \in {"none", "forked"} => Number(vfifo, c, Words) = 0 /\ Is(taken, c, Words) = 0
      BY ONLY <1>2 DEF Conduit, LookUp
    <3>2. Number(vfifo, c, Words) = 0 => Number(vfifo', c, Words) = 0
      BY ONLY <1>6
    <3>3. s[c].at \in {"none", "forked"} => yfifo'[c] = yfifo[c]
      <4>1. s[c].at = "up" => s[c].at \notin {"none", "forked"}
        OBVIOUS
      <4>. QED  BY ONLY <1>4, <4>1, Zenon
    <3>. QED  BY ONLY <1>1, <3>1, <3>2, <3>3
  <2>3. Good(c) /\ s[c].at \in {"up", "sending"} /\ receiver' = "up" /\ lost' = 0 =>
             Down(c, Requests)' + Up(c, Requests)' + Served(c)' =
             Down(c, Requests) + Up(c, Requests) + Served(c)
    BY ONLY <1>5, <1>7
  <2>4. lost' = lost /\ (receiver' = "up" => receiver = "up")
    BY ONLY <1>1
  <2>. QED  BY <1>3, <1>7, <1>10, <1>11, <1>12, <1>13, <2>1, <2>2, <2>3, <2>4, Flows
<1>. QED  BY ONLY <1>9, <1>14

\* The receiver replies.
LEMMA AnswerOrderly ==
  ASSUME Types, Orderly, Answer PROVE Orderly'
<1>1. PICK c \in Client : c = taken.of
  BY AnswerDoes
<1>2. /\ receiver = "up" /\ ~ None(taken) /\ taken' = NoFrame /\ Elsewhere(c)
      /\ UNCHANGED <<client, answer, r, rfifo, s, writer, line, reader, lost, receiver, vfifo, got>>
      /\ \/ SEnded(c) /\ seg'[c] = seg[c] /\ yfifo'[c] = yfifo[c]
         \/ /\ ~ SEnded(c) /\ seg'[c] = [kind |-> "reply", of |-> c, n |-> taken.n]
            /\ yfifo'[c] = Append(yfifo[c], TRUE)
         \/ ~ SEnded(c) /\ seg'[c] = seg[c] /\ yfifo'[c] = Append(yfifo[c], FALSE)
  BY <1>1, AnswerDoes, Zenon DEF rVars, wires
<1>3. Conduit(c) /\ Kinds /\ Writers
  BY DEF Orderly
<1>4. /\ Is(taken, c, Words) = 1
      /\ None(taken') /\ Is(taken', c, Words) = 0 /\ \A n : Own(taken', c, n)
  <2>1. taken.kind = "send"
    BY ONLY <1>2, <1>3 DEF Kinds
  <2>2. Is(taken, c, Words) = 1
    <3>1. Is(taken, c, Words) = IF taken.kind \in Words THEN 1 ELSE 0
      BY ONLY <1>1, <1>2, IsNat
    <3>. QED  BY ONLY <2>1, <3>1 DEF Words
  <2>3. None(taken')
    BY ONLY <1>2, FrameIs
  <2>. QED  BY ONLY <2>2, <2>3, IsNat DEF Own, Of
<1>5. s[c].at # "none"
  BY ONLY <1>3, <1>4 DEF Conduit, LookUp
<1>6. Replied(c)
  <2>1. CASE SEnded(c) /\ seg'[c] = seg[c] /\ yfifo'[c] = yfifo[c]
    <3>1. s[c].at = "gone"
      BY ONLY <1>5, <2>1 DEF SEnded
    <3>. QED  BY ONLY <1>2, <1>4, <2>1, <3>1, Zenon DEF Replied
  <2>2. CASE ~ SEnded(c)
    BY ONLY <1>2, <1>4, <2>2, Zenon DEF Replied
  <2>. QED  BY ONLY <1>2, <2>1, <2>2, Zenon
<1>7. Conduit(c)' /\ (Sends(c) => yfifo'[c] = yfifo[c])
  BY <1>6, RepliedIs
<1>8. Kinds'
  BY ONLY <1>2, <1>3, <1>4 DEF Kinds
<1>9. Writers'
  <2>1. \A i \in DOMAIN writer["B"] :
            writer["B"][i] \in Client /\ Sends(writer["B"][i]) /\ yfifo[writer["B"][i]] = <<>>
    <3>1. writer["B"] \in Seq(Client)
      BY STypes
    <3>2. \A i \in DOMAIN writer["B"] : writer["B"][i] \in Client
      BY ONLY <3>1
    <3>. QED  BY ONLY <1>3, <3>2 DEF Writers
  <2>2. \A d \in Client : Sends(d) => yfifo'[d] = yfifo[d] /\ Sends(d)'
    <3>1. \A d \in Client \ {c} : yfifo'[d] = yfifo[d]
      BY ONLY <1>2 DEF Elsewhere
    <3>. QED  BY ONLY <1>2, <1>7, <3>1 DEF Sends
  <2>. QED  BY ONLY <1>2, <1>3, <2>1, <2>2 DEF Writers
<1>10. \A d \in Client \ {c} : Conduit(d)'
  <2>1. /\ OwnQ(line["A"], line'["A"], c) /\ OwnQ(line["B"], line'["B"], c)
        /\ OwnQ(vfifo, vfifo', c)
    BY ONLY <1>2 DEF OwnQ
  <2>2. /\ OwnM(reader["A"], reader'["A"], c) /\ OwnM(reader["B"], reader'["B"], c)
        /\ OwnM(taken, taken', c)
    BY ONLY <1>1, <1>2, <1>4 DEF OwnM
  <2>3. /\ got \subseteq got' /\ (lost' = 0 => lost = 0) /\ (receiver' = "up" => receiver = "up")
    BY ONLY <1>2
  <2>. QED  BY <1>2, <2>1, <2>2, <2>3, OthersKeep
<1>. QED  BY <1>7, <1>8, <1>9, <1>10, Zenon DEF Orderly

\* The receiver ends: what waits for it is gone, and whom it owes an answer gets an error.
LEMMA ReceiverEndsOrderly ==
  ASSUME Types, Orderly, ReceiverExit \/ ReceiverFaults PROVE Orderly'
<1>1. PICK e \in Client : e = taken.of
  BY ReceiverEndsDoes
<1>2. /\ receiver = "up" /\ receiver' = "gone" /\ vfifo' = <<>> /\ taken' = NoFrame
      /\ UNCHANGED <<client, answer, r, rfifo, s, seg, writer, line, reader, lost, got>>
      /\ Elsewhere(e)
      /\ \/ (None(taken) \/ SEnded(e)) /\ yfifo'[e] = yfifo[e]
         \/ ~ None(taken) /\ ~ SEnded(e) /\ yfifo'[e] = Append(yfifo[e], FALSE)
  BY <1>1, ReceiverEndsDoes, Zenon DEF rVars, wires
<1>3. Kinds /\ Writers
  BY DEF Orderly
<1>4. /\ None(taken') /\ \A d : Is(taken', d, Words) = 0 /\ \A n : Own(taken', d, n)
  <2>1. None(taken')
    BY ONLY <1>2, FrameIs
  <2>. QED  BY ONLY <2>1, IsNat DEF Own, Of
<1>5. ASSUME NEW c \in Client PROVE Replied(c)
  <2>1. CASE yfifo'[c] = yfifo[c]
    BY ONLY <1>2, <1>4, <2>1, Zenon DEF Replied
  <2>2. CASE c = e /\ ~ None(taken) /\ ~ SEnded(e) /\ yfifo'[e] = Append(yfifo[e], FALSE)
    <3>1. taken.kind = "send"
      BY ONLY <1>3, <2>2 DEF Kinds
    <3>2. Is(taken, c, Words) = 1
      <4>1. Is(taken, c, Words) = IF taken.kind \in Words THEN 1 ELSE 0
        BY ONLY <1>1, <2>2, IsNat
      <4>. QED  BY ONLY <3>1, <4>1 DEF Words
    <3>. QED  BY ONLY <1>2, <1>4, <2>2, <3>2, Zenon DEF Replied
  <2>3. c # e => yfifo'[c] = yfifo[c]
    BY ONLY <1>2, c \in Client DEF Elsewhere
  <2>. QED  BY ONLY <1>2, <2>1, <2>2, <2>3, Zenon
<1>6. \A c \in Client : Conduit(c)' /\ (Sends(c) => yfifo'[c] = yfifo[c])
  BY <1>5, RepliedIs
<1>7. Kinds'
  <2>1. \A i \in DOMAIN vfifo' : vfifo'[i].kind \in {"send", "proxy"}
    BY ONLY <1>2
  <2>. QED  BY ONLY <1>2, <1>3, <1>4, <2>1 DEF Kinds
<1>8. Writers'
  <2>1. \A i \in DOMAIN writer["B"] :
            writer["B"][i] \in Client /\ Sends(writer["B"][i]) /\ yfifo[writer["B"][i]] = <<>>
    <3>1. writer["B"] \in Seq(Client)
      BY STypes
    <3>2. \A i \in DOMAIN writer["B"] : writer["B"][i] \in Client
      BY ONLY <3>1
    <3>. QED  BY ONLY <1>3, <3>2 DEF Writers
  <2>2. \A d \in Client : Sends(d) => yfifo'[d] = yfifo[d] /\ Sends(d)'
    BY ONLY <1>2, <1>6 DEF Sends
  <2>. QED  BY ONLY <1>2, <1>3, <2>1, <2>2 DEF Writers
<1>. QED  BY <1>6, <1>7, <1>8, Zenon DEF Orderly

-----------------------------------------------------------------------------
(* The theorems.                                                           *)

\* Nobody changes how the conduits are used.
LEMMA SetupKept == [Next]_vars => setup' = setup
<1>. SUFFICES ASSUME [Next]_vars PROVE setup' = setup
  OBVIOUS
<1>1. ASSUME NEW c \in Client,
             \/ Locate(c) \/ ClientSend(c) \/ ClientTrigger(c) \/ ClientReturn(c)
             \/ ClientExit(c) \/ ClientRemove(c) \/ ClientKill(c)
      PROVE  setup' = setup
  BY ONLY <1>1, Zenon DEF Locate, ClientSend, ClientTrigger, ClientReturn, ClientExit, ClientRemove,
                    ClientKill
<1>2. ASSUME NEW c \in Client, RStep(c) \/ RLocateTimeout(c) \/ RTimeout(c)
      PROVE  setup' = setup
  BY ONLY <1>2, Zenon DEF RStep, RLocate, RLocated, RSend, RProxy, RClose, RRemote, RReturn,
                    RLocateTimeout, RTimeout
<1>3. ASSUME NEW c \in Client, SStep(c) \/ SReply(c) \/ STimeout(c)
      PROVE  setup' = setup
  BY ONLY <1>3, Zenon DEF SStep, SFork, SLocate, SReturn, SMessage, SReply, STimeout
<1>4. ASSUME NEW h \in Host, Wire(h) PROVE setup' = setup
  BY ONLY <1>4, Zenon DEF Wire, WriterTake, ReaderTake
<1>5. ASSUME Take \/ Answer \/ ReceiverExit \/ ReceiverFaults PROVE setup' = setup
  BY ONLY <1>5, Zenon DEF Take, Answer, ReceiverExit, ReceiverFaults, ReceiverEnds
<1>6. CASE UNCHANGED vars
  BY ONLY <1>6, Zenon DEF vars
<1>. QED  BY ONLY [Next]_vars, Steps, <1>1, <1>2, <1>3, <1>4, <1>5, <1>6, Zenon

\* A step of a client keeps every conduit in order, whoever's it is.
LEMMA ClientsOrderly ==
  ASSUME Types, Orderly, NEW c \in Client,
         \/ Locate(c) \/ ClientSend(c) \/ ClientTrigger(c) \/ ClientReturn(c)
         \/ ClientExit(c) \/ ClientRemove(c) \/ ClientKill(c)
  PROVE  Orderly'
  BY LocateOrderly, ClientSendOrderly, ClientTriggerOrderly, ClientReturnOrderly,
     ClientLeavesOrderly, Zenon

\* So does one of surrogate_r, without keep-alives,
LEMMA ROrderly ==
  ASSUME Types, Counted, Orderly, ~ Alive, NEW c \in Client,
         RStep(c) \/ RLocateTimeout(c) \/ RTimeout(c)
  PROVE  Orderly'
  BY RLocateOrderly, RLocatedOrderly, RSendOrderly, RProxyOrderly, RCloseOrderly, RRemoteOrderly,
     RReturnOrderly, RLocateTimeoutOrderly, RTimeoutOrderly, Zenon DEF RStep

\* of surrogate_s,
LEMMA SOrderly ==
  ASSUME Types, Orderly, NEW c \in Client, SStep(c) \/ SReply(c) \/ STimeout(c)
  PROVE  Orderly'
  BY SForkOrderly, SLocateOrderly, SReturnOrderly, SMessageOrderly, SReplyOrderly, STimeoutOrderly,
     Zenon DEF SStep

\* of the programs at the line,
LEMMA WireOrderly ==
  ASSUME Types, Orderly, NEW h \in Host, Wire(h)
  PROVE  Orderly'
<1>1. h = "A" \/ h = "B"
  BY DEF Host
<1>. QED  BY <1>1, WriterAOrderly, WriterBOrderly, ReaderAOrderly, ReaderBOrderly, Zenon DEF Wire

\* and of the receiver.
LEMMA ReceiverOrderly ==
  ASSUME Types, Orderly, Take \/ Answer \/ ReceiverExit \/ ReceiverFaults
  PROVE  Orderly'
  BY TakeOrderly, AnswerOrderly, ReceiverEndsOrderly

\* The invariant is inductive.
LEMMA Inductive == IInv /\ [Next]_vars => IInv'
<1>. SUFFICES ASSUME IInv, [Next]_vars PROVE IInv'
  OBVIOUS
<1>1. Types' /\ Counted' /\ setup' = setup
  BY TypesStep, SetupKept DEF IInv
<1>2. ASSUME ~ Alive PROVE Orderly'
  <2>1. Types /\ Counted /\ Orderly
    BY <1>2 DEF IInv
  <2>2. CASE UNCHANGED vars
    <3>1. UNCHANGED <<setup, client, answer, r, rfifo, s, seg, yfifo, writer, line, reader, lost,
                      receiver, vfifo, taken, got>>
      BY <2>2 DEF vars, rVars, sVars, wires, vVars
    <3>2. Kinds' /\ Writers'
      BY ONLY <2>1, <3>1 DEF Orderly, Kinds, Writers, Sends
    <3>3. ASSUME NEW c \in Client PROVE Conduit(c)'
      <4>1. /\ Formed(c) /\ Offer(c) /\ OneOut(c) /\ LookUp(c) /\ Transit(c) /\ InTurn(c)
            /\ Current(c) /\ Right(c)
        BY <2>1 DEF Orderly, Conduit
      <4>2. Still(c)
        BY ONLY <3>1 DEF Still
      <4>3. /\ (Goes(c)' <=> Goes(c)) /\ (Sends(c)' <=> Sends(c)) /\ (Early(c)' <=> Early(c))
            /\ (Good(c)' <=> Good(c)) /\ Held(c)' = Held(c) /\ Forked(c)' = Forked(c)
            /\ OneOut(c)' /\ Right(c)'
        BY <3>1, <4>1, <4>2, StillIs
      <4>4. Seg(c)' = Seg(c)
        BY ONLY <3>1, <4>3 DEF Seg
      <4>5. /\ \A K : Down(c, K)' = Down(c, K) /\ Up(c, K)' = Up(c, K)
            /\ Served(c)' = Served(c) /\ Near(c)' = Near(c) /\ At(c)' = At(c)
        BY ONLY <3>1, <4>3, <4>4 DEF Down, Up, Served, Near, At
      <4>6. Far(c)' = Far(c)
        BY ONLY <4>5 DEF Far
      <4>7. Formed(c)' /\ Offer(c)'
        BY ONLY <3>1, <4>1, <4>3 DEF Formed, Offer
      <4>8. LookUp(c)'
        BY ONLY <3>1, <4>1, <4>3, <4>5 DEF LookUp
      <4>9. Transit(c)'
        BY ONLY <3>1, <4>1, <4>3, <4>5, <4>6 DEF Transit
      <4>10. InTurn(c)'
        BY ONLY <3>1, <4>1, <4>5, <4>6 DEF InTurn
      <4>11. \A n : /\ Coming(c, n) => Coming(c, n)'
                    /\ Serving(c, n) => Serving(c, n)'
                    /\ Going(c, n) => Going(c, n)'
        <5>1. \A n : Known(c, n)' <=> Known(c, n)
          BY ONLY <3>1 DEF Known
        <5>2. \A n : Coming(c, n) => Coming(c, n)'
          BY ONLY <3>1 DEF Coming
        <5>3. \A n : Going(c, n) => Going(c, n)'
          BY ONLY <3>1, <4>4, <4>5, <5>1 DEF Going
        <5>4. \A n : Serving(c, n) => Serving(c, n)'
          BY ONLY <3>1, <5>1, Zenon DEF Serving
        <5>. QED  BY ONLY <5>2, <5>3, <5>4
      <4>12. Current(c)'
        BY ONLY <3>1, <4>1, <4>3, <4>11 DEF Current
      <4>. QED  BY ONLY <4>3, <4>7, <4>8, <4>9, <4>10, <4>12 DEF Conduit
    <3>. QED  BY <3>2, <3>3 DEF Orderly
  <2>. QED  BY ONLY [Next]_vars, ~ Alive, <2>1, <2>2, Steps, ClientsOrderly, ROrderly, SOrderly,
              WireOrderly, ReceiverOrderly, Zenon
<1>3. Alive' <=> Alive
  BY <1>1 DEF Alive
<1>. QED  BY <1>1, <1>2, <1>3 DEF IInv

\* It holds at the start: nothing is anywhere.
LEMMA AtStart == Init => IInv
<1>. SUFFICES ASSUME Init PROVE IInv
  OBVIOUS
<1>1. Types /\ Counted
  BY TypesAtStart
<1>2. /\ lost = 0 /\ vfifo = <<>> /\ taken = NoFrame /\ got = {}
      /\ \A h \in Host : writer[h] = <<>> /\ line[h] = <<>> /\ reader[h] = NoFrame
      /\ "A" \in Host /\ "B" \in Host
  BY DEF Init, Host
<1>3. None(NoFrame) /\ \A d, K, n : Is(NoFrame, d, K) = 0 /\ Own(NoFrame, d, n)
  BY FrameIs DEF Own, Of
<1>4. Kinds
  BY ONLY <1>2, <1>3 DEF Kinds
<1>5. Writers
  BY ONLY <1>2 DEF Writers, Distinct
<1>6. ASSUME NEW c \in Client PROVE Conduit(c)
  <2>1. /\ client[c] = [at |-> "start", asked |-> 0] /\ answer[c] = <<>> /\ rfifo[c] = <<>>
        /\ r[c] = [at |-> "attached", then |-> "up", holds |-> FALSE, missed |-> 0, out |-> NoFrame]
        /\ s[c] = [at |-> "none", then |-> "up", missed |-> 0, room |-> FALSE]
        /\ seg[c] = NoFrame /\ yfifo[c] = <<>>
    BY DEF Init
  <2>2. /\ client[c].at = "start" /\ r[c].at = "attached" /\ r[c].holds = FALSE
        /\ r[c].out = NoFrame /\ s[c].at = "none" /\ answer[c] = <<>> /\ rfifo[c] = <<>>
        /\ seg[c] = NoFrame /\ yfifo[c] = <<>>
    BY ONLY <2>1
  <2>3. /\ ~ Goes(c) /\ Early(c) /\ ~ Good(c) /\ Runs(c) /\ ~ Sends(c) /\ Held(c) = 0
        /\ Forked(c) = 0
    BY ONLY <2>2 DEF Goes, Early, Good, Runs, Sends, Held, Forked
  <2>4. /\ \A K : Number(<<>>, c, K) = 0
        /\ \A K, n : AllOwn(<<>>, c, K, n) /\ \A L : Before(<<>>, c, K, L)
    BY ONLY NumberEmpty DEF AllOwn, Before
  <2>5. /\ \A K : Down(c, K) = 0 /\ Up(c, K) = 0
        /\ Served(c) = 0 /\ Far(c) = 0 /\ Near(c) = 0 /\ At(c) = 0
    <3>1. Seg(c) = NoFrame
      BY ONLY <2>3 DEF Seg
    <3>2. \A K : Down(c, K) = 0 /\ Up(c, K) = 0
      BY ONLY <1>2, <1>3, <2>2, <2>4, <3>1 DEF Down, Up
    <3>3. Served(c) = 0
      <4>1. Len(yfifo[c]) = 0
        BY ONLY <2>2
      <4>. QED  BY ONLY <1>2, <1>3, <2>3, <2>4, <4>1 DEF Served
    <3>. QED  BY ONLY <1>2, <1>3, <2>4, <3>2, <3>3 DEF Far, Near, At
  <2>6. Formed(c) /\ Offer(c)
    BY ONLY <1>2, <1>3, <2>2, <2>3, <2>4 DEF Formed, Offer
  <2>7. OneOut(c)
    <3>1. Len(answer[c]) = 0
      BY ONLY <2>2
    <3>2. /\ Number(rfifo[c], c, Calls) = 0 /\ Number(rfifo[c], c, Proxies) = 0
          /\ Before(rfifo[c], c, Proxies, Calls)
      BY ONLY <2>2, <2>4, Zenon
    <3>3. client[c].at \notin {"idle", "sending", "refused"}
      BY ONLY <2>2
    <3>. QED  BY ONLY <2>2, <2>3, <3>1, <3>2, <3>3 DEF OneOut
  <2>8. LookUp(c)
    BY ONLY <1>2, <1>3, <2>2, <2>3, <2>4, <2>5 DEF LookUp
  <2>9. Transit(c)
    BY ONLY <2>2, <2>3, <2>5 DEF Transit
  <2>10. InTurn(c)
    <3>1. line["A"] = <<>> /\ reader["B"] = NoFrame
      BY ONLY <1>2
    <3>2. Near(c) + At(c) + Far(c) = 0 /\ At(c) + Far(c) = 0
      BY ONLY <2>5
    <3>3. Before(line["A"], c, Quiets, Words)
      BY ONLY <2>4, <3>1, Zenon
    <3>. QED  BY ONLY <2>5, <3>2, <3>3, <3>1, <2>4 DEF InTurn
  <2>11. Current(c) /\ Right(c)
    BY ONLY <2>2 DEF Current, Right
  <2>. QED  BY ONLY <2>6, <2>7, <2>8, <2>9, <2>10, <2>11 DEF Conduit
<1>. QED  BY <1>1, <1>4, <1>5, <1>6 DEF IInv, Orderly

\* The invariant holds in every state.
THEOREM Invariant == Spec => []IInv
  BY AtStart, Inductive, PTL DEF Spec

\* Without keep-alives, a Send that succeeds was received by the remote receiver and returns
\* the reply to this very request: no reply of an earlier one, none of another client on the
\* line and no Trigger is taken for it, whatever is lost and whoever leaves or is killed.
THEOREM EndToEndHolds == Spec => []EndToEnd
<1>1. IInv => EndToEnd
  <2>. SUFFICES ASSUME IInv, ~ Alive PROVE RightReply
    BY DEF EndToEnd
  <2>1. \A c \in Client : Right(c)
    BY DEF IInv, Orderly, Conduit
  <2>. QED  BY ONLY <2>1 DEF RightReply, Right, Known
<1>. QED  BY <1>1, Invariant, PTL

\* Without keep-alives, and as long as both surrogates and the receiver are well and no frame
\* was lost, a client that surrogate_r holds has one request or answer on its way, and who is
\* not held has none.
THEOREM HeldTransitHolds == Spec => []HeldIsInTransit
<1>1. IInv => HeldIsInTransit
  <2>. SUFFICES ASSUME IInv, ~ Alive PROVE HeldIsInTransit
    BY DEF HeldIsInTransit
  <2>1. \A c \in Client :
           Good(c) /\ s[c].at \in {"up", "sending"} /\ receiver = "up" /\ lost = 0 =>
              Down(c, Requests) + Up(c, Requests) + Served(c) = Held(c)
    BY DEF IInv, Orderly, Conduit, Transit
  <2>2. \A c \in Client : InTransit(c) = Down(c, Requests) + Up(c, Requests) + Served(c)
    BY InTransitIs DEF IInv
  <2>. QED  BY ONLY <2>1, <2>2 DEF HeldIsInTransit, Good, Goes, Held
<1>. QED  BY <1>1, Invariant, PTL
=============================================================================
