------------------------- MODULE TclSurrogateProofs -------------------------
(***************************************************************************)
(* What TclSurrogate promises, for every number of senders and of slots:   *)
(* a sender gets the applet's answer to the message it waits for, and the  *)
(* table of slots, the library's table of received senders and the slots   *)
(* named on the socket agree as long as the child and the applet run.      *)
(*                                                                         *)
(* The argument follows a relayed message, here a slip of a slot and a     *)
(* word, from the socket to the applet and back.  It is in one place only, *)
(* it is the only one its sender has out, it carries the message the       *)
(* sender waits for, and the slot it names, if any, has that sender.  So a *)
(* reply that names a slot finds the right sender there.                   *)
(***************************************************************************)
EXTENDS TclSurrogate, FiniteSetTheorems, WellFoundedInduction, TLAPS
\* A relayed message or a reply without its kind: the slot and the word in it.
Slip == [slot : 0..Slots, word : Word]
SlipOf(m) == [slot |-> m.slot, word |-> m.word]

\* The slips of the messages of kind k in q, and whether each is in q once.
Slips(q, k) == {SlipOf(q[i]) : i \in {j \in DOMAIN q : q[j].kind = k}}
Once(q, k) ==
    \A i, j \in DOMAIN q : q[i].kind = k /\ q[j].kind = k /\ SlipOf(q[i]) = SlipOf(q[j]) => i = j

\* What the fifos and the socket carry.
Message(s) == [kind |-> "message", of |-> s]
Post == {Proxy} \cup {Message(s) : s \in Sender}
Returned == {Error, Empty} \cup {Reply(w) : w \in Word}
Asked == {"attach", "detach", "ask", "send", "tell", "ack"}
Up == {Cmd(k) : k \in Asked} \cup [kind : {"reply"}, slot : 0..Slots, word : Word]
Down == {Cmd("answer")} \cup [kind : {"relay"}, slot : 0..Slots, word : Word]

\* The types; the length of an answer is left to EndToEnd.
Types ==
    /\ sender \in [Sender -> [at : {"idle", "waiting", "refused"}, n : 0..MaxSends]]
    /\ answer \in [Sender -> Seq(Returned)]
    /\ fifo \in Seq(Post)
    /\ child \in [at : {"none", "forked", "up", "send", "tell", "gone", "faulted"},
                  named : BOOLEAN, waiting : BOOLEAN]
    /\ slot \in [1..Slots -> Sender \cup {NoOne}]
    /\ held \subseteq Sender /\ IsFiniteSet(held)
    /\ applet \in [at : {"start", "idle", "asking", "hung", "left"}, asked : 0..MaxAsks]
    /\ todo \subseteq Slip
    /\ toChild \in Seq(Up) /\ toApplet \in Seq(Down)
    /\ target \in TargetState

\* A sender that waits for the answer to a message it has sent, without one yet.
Unanswered(s) == sender[s].at = "waiting" /\ sender[s].n # 0 /\ answer[s] = <<>>

\* A sender has one message in the fifo at most, and none there while it is held.
Waiters ==
    /\ \A s \in held : Unanswered(s)
    /\ \A i \in DOMAIN fifo : fifo[i] # Proxy => Unanswered(fifo[i].of) /\ fifo[i].of \notin held
    /\ \A i, j \in DOMAIN fifo : fifo[i] # Proxy /\ fifo[i] = fifo[j] => i = j

\* The child has not ended.
Well == child.at \notin {"gone", "faulted"}

\* A slot has a held sender, and no other slot has it.
Table ==
    /\ \A i \in 1..Slots : slot[i] # NoOne => slot[i] \in held
    /\ \A i, j \in 1..Slots : slot[i] # NoOne /\ slot[i] = slot[j] => i = j

\* What is out is in one place: on the way to the applet, with it or on the way back.
Apart ==
    /\ Once(toApplet, "relay") /\ Once(toChild, "reply")
    /\ Slips(toApplet, "relay") \cap todo = {} /\ todo \cap Slips(toChild, "reply") = {}
    /\ Slips(toApplet, "relay") \cap Slips(toChild, "reply") = {}

\* A sender has one message out.
Single == \A r, t \in Out : r.word.of = t.word.of => r = t

\* What is out is the message a held sender waits for, under the slot that has it.
Current ==
    \A r \in Out : /\ r.word.of \in held /\ r.word.n = sender[r.word.of].n
                   /\ r.slot # None => slot[r.slot] = r.word.of

\* Whoever is held and whatever slot is in use has something out.
Complete ==
    /\ \A s \in held : \E r \in Out : r.word.of = s
    /\ \A i \in 1..Slots : slot[i] # NoOne => \E r \in Out : r.slot = i

\* What every reachable state satisfies.
Orderly ==
    /\ Waiters /\ EndToEnd
    /\ Well => Table /\ Apart /\ Single /\ Current
    /\ Well /\ applet.at # "left" => Complete
IInv == Types /\ Orderly

-----------------------------------------------------------------------------
(* Data: the slips in a fifo, and the first free slot.                     *)

\* A number is the least of any set of them.
LEMMA Least == ASSUME NEW S, S \subseteq Nat, S # {} PROVE \E x \in S : \A y \in S : x <= y
<1>. DEFINE less == OpToRel(<, Nat)
<1>1. IsWellFoundedOn(less, Nat)
  BY NatLessThanWellFounded
<1>2. ASSUME NEW x \in Nat, NEW y \in Nat, y < x PROVE <<y, x>> \in less
  <2>1. <<y, x>> \in Nat \X Nat
    OBVIOUS
  <2>2. <<y, x>>[1] < <<y, x>>[2]
    BY <1>2
  <2>. QED  BY ONLY <2>1, <2>2, Zenon DEF OpToRel
<1>. HIDE DEF less
<1>3. PICK x \in S : \A y \in S : ~ (<<y, x>> \in less)
  BY <1>1, WFMin
<1>4. ASSUME NEW y \in S PROVE x <= y
  <2>1. x \in Nat /\ y \in Nat
    OBVIOUS
  <2>2. ~ (y < x)
    BY <1>2, <1>3, <2>1, Zenon
  <2>. QED  BY <2>1, <2>2
<1>. QED  BY <1>4

\* rememberSender finds a free slot if there is one.
LEMMA Remembered ==
  ASSUME NEW s
  PROVE  \/ RememberSender(s) = None
         \/ RememberSender(s) \in 1..Slots /\ slot[RememberSender(s)] = NoOne
<1>1. CASE FreeSlots = {}
  BY <1>1 DEF RememberSender
<1>2. CASE FreeSlots # {}
  <2>1. FreeSlots \subseteq Nat
    BY TclAssumption DEF FreeSlots
  <2>2. \E i \in FreeSlots : \A j \in FreeSlots : i <= j
    BY <1>2, <2>1, Least
  <2>3. RememberSender(s) \in FreeSlots
    BY <1>2, <2>2 DEF RememberSender
  <2>. QED  BY <2>3 DEF FreeSlots
<1>. QED  BY <1>1, <1>2

\* The items of a fifo after one more, and after its head is taken.
LEMMA Ends1 ==
  ASSUME NEW S, NEW q \in Seq(S)
  PROVE  /\ DOMAIN q = 1..Len(q) /\ Len(q) \in Nat
         /\ \A m \in S : /\ Append(q, m) \in Seq(S) /\ DOMAIN Append(q, m) = 1..(Len(q) + 1)
                         /\ Append(q, m)[Len(q) + 1] = m
                         /\ \A i \in 1..Len(q) : Append(q, m)[i] = q[i]
         /\ q # <<>> => /\ Tail(q) \in Seq(S) /\ DOMAIN Tail(q) = 1..(Len(q) - 1)
                        /\ Len(q) # 0 /\ Head(q) = q[1] /\ Head(q) \in S
                        /\ \A i \in 1..(Len(q) - 1) : Tail(q)[i] = q[i + 1]
  OBVIOUS

\* An empty fifo has no slips.
LEMMA SlipsNone == ASSUME NEW k PROVE Slips(<<>>, k) = {} /\ Once(<<>>, k)
<1>1. DOMAIN <<>> = {}
  OBVIOUS
<1>. QED  BY <1>1 DEF Slips, Once

\* A message put in adds its slip, if it has one.
LEMMA SlipsAppend ==
  ASSUME NEW S, NEW q \in Seq(S), NEW m \in S, NEW k
  PROVE  /\ m.kind = k => Slips(Append(q, m), k) = Slips(q, k) \cup {SlipOf(m)}
         /\ m.kind # k => Slips(Append(q, m), k) = Slips(q, k)
         /\ Once(q, k) /\ (m.kind = k => SlipOf(m) \notin Slips(q, k)) => Once(Append(q, m), k)
<1>. DEFINE w == Append(q, m)
<1>1. /\ DOMAIN q = 1..Len(q) /\ Len(q) \in Nat /\ DOMAIN w = 1..(Len(q) + 1)
      /\ w[Len(q) + 1] = m /\ \A i \in 1..Len(q) : w[i] = q[i]
  BY Ends1
<1>. HIDE DEF w
<1>2. \A x : x \in Slips(w, k) <=> x \in Slips(q, k) \/ (m.kind = k /\ x = SlipOf(m))
  <2>1. ASSUME NEW x \in Slips(w, k) PROVE x \in Slips(q, k) \/ (m.kind = k /\ x = SlipOf(m))
    <3>1. PICK i \in DOMAIN w : w[i].kind = k /\ x = SlipOf(w[i])
      BY DEF Slips
    <3>2. CASE i = Len(q) + 1
      BY <1>1, <3>1, <3>2
    <3>3. CASE i # Len(q) + 1
      <4>1. i \in DOMAIN q /\ w[i] = q[i]
        BY <1>1, <3>3
      <4>. QED  BY <3>1, <4>1 DEF Slips
    <3>. QED  BY <3>2, <3>3
  <2>2. ASSUME NEW x \in Slips(q, k) PROVE x \in Slips(w, k)
    <3>1. PICK i \in DOMAIN q : q[i].kind = k /\ x = SlipOf(q[i])
      BY DEF Slips
    <3>2. i \in DOMAIN w /\ w[i] = q[i]
      BY <1>1
    <3>. QED  BY <3>1, <3>2 DEF Slips
  <2>3. m.kind = k => SlipOf(m) \in Slips(w, k)
    <3>1. Len(q) + 1 \in DOMAIN w
      BY <1>1
    <3>. QED  BY <1>1, <3>1 DEF Slips
  <2>. QED  BY <2>1, <2>2, <2>3
<1>3. ASSUME Once(q, k), m.kind = k => SlipOf(m) \notin Slips(q, k) PROVE Once(w, k)
  <2>. SUFFICES ASSUME NEW i \in DOMAIN w, NEW j \in DOMAIN w, w[i].kind = k, w[j].kind = k,
                       SlipOf(w[i]) = SlipOf(w[j])
                PROVE  i = j
    BY DEF Once
  <2>1. ASSUME NEW n \in DOMAIN w, n # Len(q) + 1
        PROVE  n \in DOMAIN q /\ w[n] = q[n]
    BY <1>1, <2>1
  <2>2. CASE i # Len(q) + 1 /\ j # Len(q) + 1
    BY <1>3, <2>1, <2>2 DEF Once
  <2>3. CASE i = Len(q) + 1 /\ j # Len(q) + 1
    <3>1. SlipOf(w[j]) \in Slips(q, k)
      BY <2>1, <2>3 DEF Slips
    <3>. QED  BY <1>1, <1>3, <2>3, <3>1
  <2>4. CASE i # Len(q) + 1 /\ j = Len(q) + 1
    <3>1. SlipOf(w[i]) \in Slips(q, k)
      BY <2>1, <2>4 DEF Slips
    <3>. QED  BY <1>1, <1>3, <2>4, <3>1
  <2>. QED  BY <2>2, <2>3, <2>4
<1>. QED  BY <1>2, <1>3 DEF w

\* A message taken from the head takes its slip with it.
LEMMA SlipsTail ==
  ASSUME NEW S, NEW q \in Seq(S), q # <<>>, NEW k, Once(q, k)
  PROVE  /\ Once(Tail(q), k)
         /\ Head(q).kind = k =>
               SlipOf(Head(q)) \in Slips(q, k) /\ Slips(Tail(q), k) = Slips(q, k) \ {SlipOf(Head(q))}
         /\ Head(q).kind # k => Slips(Tail(q), k) = Slips(q, k)
<1>. DEFINE w == Tail(q)
            m == Head(q)
<1>1. /\ DOMAIN q = 1..Len(q) /\ Len(q) \in Nat \ {0} /\ DOMAIN w = 1..(Len(q) - 1)
      /\ q[1] = m /\ \A i \in 1..(Len(q) - 1) : w[i] = q[i + 1]
  BY Ends1
<1>. HIDE DEF w, m
<1>2. ASSUME NEW i \in DOMAIN w PROVE i + 1 \in DOMAIN q /\ i + 1 # 1 /\ w[i] = q[i + 1]
  BY <1>1
<1>3. Once(w, k)
  <2>. SUFFICES ASSUME NEW i \in DOMAIN w, NEW j \in DOMAIN w, w[i].kind = k, w[j].kind = k,
                       SlipOf(w[i]) = SlipOf(w[j])
                PROVE  i = j
    BY DEF Once
  <2>1. i + 1 = j + 1
    BY <1>2 DEF Once
  <2>. QED  BY <1>1, <2>1
<1>4. 1 \in DOMAIN q
  BY <1>1
<1>5. m.kind = k => SlipOf(m) \in Slips(q, k)
  BY <1>1, <1>4 DEF Slips
<1>6. ASSUME NEW x \in Slips(w, k) PROVE x \in Slips(q, k) /\ (m.kind = k => x # SlipOf(m))
  <2>1. PICK i \in DOMAIN w : w[i].kind = k /\ x = SlipOf(w[i])
    BY DEF Slips
  <2>2. i + 1 \in DOMAIN q /\ i + 1 # 1 /\ w[i] = q[i + 1]
    BY <1>2
  <2>3. x \in Slips(q, k)
    BY <2>1, <2>2 DEF Slips
  <2>. QED  BY <1>1, <1>4, <2>1, <2>2, <2>3 DEF Once
<1>7. ASSUME NEW x \in Slips(q, k), m.kind = k => x # SlipOf(m) PROVE x \in Slips(w, k)
  <2>1. PICK i \in DOMAIN q : q[i].kind = k /\ x = SlipOf(q[i])
    BY DEF Slips
  <2>2. i # 1
    BY <1>1, <1>7, <2>1
  <2>3. i - 1 \in DOMAIN w /\ w[i - 1] = q[i]
    BY <1>1, <2>2
  <2>. QED  BY <2>1, <2>3 DEF Slips
<1>. QED  BY <1>3, <1>5, <1>6, <1>7 DEF w, m

\* What is out, by the slips.
LEMMA OutIs ==
  /\ Out = Slips(toApplet, "relay") \cup todo \cup Slips(toChild, "reply")
  /\ Out' = Slips(toApplet', "relay") \cup todo' \cup Slips(toChild', "reply")
  BY DEF Out, Slips, SlipOf

\* A fifo that is left alone, gets or loses a message of another kind keeps its slips.
Same(q, w, k) == Slips(w, k) = Slips(q, k) /\ (Once(q, k) => Once(w, k))

\* The messages of other kinds are the commands.
LEMMA SameIs ==
  ASSUME NEW S, NEW q \in Seq(S), NEW k
  PROVE  /\ Same(q, q, k)
         /\ \A m \in S : m.kind # k => Same(q, Append(q, m), k)
         /\ q # <<>> /\ Head(q).kind # k /\ Once(q, k) => Same(q, Tail(q), k)
<1>1. Same(q, q, k)
  BY DEF Same
<1>2. ASSUME NEW m \in S, m.kind # k PROVE Same(q, Append(q, m), k)
  BY <1>2, SlipsAppend DEF Same
<1>3. ASSUME q # <<>>, Head(q).kind # k, Once(q, k) PROVE Same(q, Tail(q), k)
  BY <1>3, SlipsTail DEF Same
<1>. QED  BY <1>1, <1>2, <1>3

\* What is on the socket and in the fifo, for the messages the code writes.
LEMMA Carried ==
  /\ \A k \in Asked : Cmd(k) \in Up /\ Cmd(k).kind = k /\ k # "reply"
  /\ Cmd("answer") \in Down /\ Cmd("answer").kind = "answer"
  /\ \A m \in Up : m.kind = "reply" => SlipOf(m) \in Slip /\ m.slot \in 0..Slots /\ m.word \in Word
  /\ \A m \in Down : /\ m.kind \in {"answer", "relay"}
                     /\ m.kind = "relay" => SlipOf(m) \in Slip
  /\ \A r \in Slip : LET m == [kind |-> "reply", slot |-> r.slot, word |-> r.word]
                     IN  m \in Up /\ m.kind = "reply" /\ SlipOf(m) = r
  /\ \A i \in 0..Slots, w \in Word :
        LET m == [kind |-> "relay", slot |-> i, word |-> w]
        IN  m \in Down /\ m.kind = "relay" /\ SlipOf(m) = [slot |-> i, word |-> w]
<1>1. \A k \in Asked : Cmd(k) \in Up /\ Cmd(k).kind = k /\ k # "reply"
  BY DEF Up, Cmd, Asked
<1>2. Cmd("answer") \in Down /\ Cmd("answer").kind = "answer"
  BY DEF Down, Cmd
<1>3. \A m \in Up : m.kind = "reply" => SlipOf(m) \in Slip /\ m.slot \in 0..Slots /\ m.word \in Word
  BY DEF Up, Cmd, Asked, SlipOf, Slip
<1>4. \A m \in Down : m.kind \in {"answer", "relay"} /\ (m.kind = "relay" => SlipOf(m) \in Slip)
  BY DEF Down, Cmd, SlipOf, Slip
<1>5. \A r \in Slip : LET m == [kind |-> "reply", slot |-> r.slot, word |-> r.word]
                      IN  m \in Up /\ m.kind = "reply" /\ SlipOf(m) = r
  BY DEF Up, Slip, SlipOf
<1>6. \A i \in 0..Slots, w \in Word :
        LET m == [kind |-> "relay", slot |-> i, word |-> w]
        IN  m \in Down /\ m.kind = "relay" /\ SlipOf(m) = [slot |-> i, word |-> w]
  BY DEF Down, SlipOf
<1>. QED  BY <1>1, <1>2, <1>3, <1>4, <1>5, <1>6

\* The senders' messages and a proxy differ.
LEMMA Posted ==
  /\ Proxy \in Post
  /\ \A s \in Sender : /\ Message(s) \in Post /\ Message(s) # Proxy /\ Message(s).of = s
  /\ \A m \in Post : m # Proxy => m.of \in Sender /\ m = Message(m.of)
<1>1. \A s : Message(s).kind = "message" /\ Proxy.kind = "proxy" /\ Message(s).of = s
  BY DEF Message, Proxy
<1>. QED  BY <1>1 DEF Post

\* What is out is typed.
LEMMA OutInSlip == ASSUME Types, NEW r \in Out PROVE r \in Slip
<1>1. toApplet \in Seq(Down) /\ toChild \in Seq(Up) /\ todo \subseteq Slip
  BY DEF Types
<1>2. r \in Slips(toApplet, "relay") \/ r \in todo \/ r \in Slips(toChild, "reply")
  BY ONLY OutIs
<1>3. CASE r \in Slips(toApplet, "relay")
  <2>1. PICK i \in DOMAIN toApplet : toApplet[i].kind = "relay" /\ r = SlipOf(toApplet[i])
    BY ONLY <1>3 DEF Slips
  <2>2. toApplet[i] \in Down
    BY ONLY <1>1, <2>1
  <2>. QED  BY ONLY <2>1, <2>2, Carried
<1>4. CASE r \in Slips(toChild, "reply")
  <2>1. PICK i \in DOMAIN toChild : toChild[i].kind = "reply" /\ r = SlipOf(toChild[i])
    BY ONLY <1>4 DEF Slips
  <2>2. toChild[i] \in Up
    BY ONLY <1>1, <2>1
  <2>. QED  BY ONLY <2>1, <2>2, Carried
<1>. QED  BY ONLY <1>1, <1>2, <1>3, <1>4

-----------------------------------------------------------------------------
(* Steps that leave the senders and the tables alone.                      *)

\* The fifo keeps its messages when a proxy is put in.
LEMMA WaitersKept ==
  ASSUME Types, Waiters, UNCHANGED <<sender, answer, held>>,
         fifo' = fifo \/ fifo' = Append(fifo, Proxy)
  PROVE  Waiters'
<1>1. \A s : Unanswered(s)' <=> Unanswered(s)
  BY DEF Unanswered
<1>2. CASE fifo' = fifo
  BY <1>1, <1>2 DEF Waiters
<1>3. CASE fifo' = Append(fifo, Proxy)
  <2>1. fifo \in Seq(Post)
    BY DEF Types
  <2>2. /\ DOMAIN fifo = 1..Len(fifo) /\ DOMAIN fifo' = 1..(Len(fifo) + 1) /\ Len(fifo) \in Nat
        /\ fifo'[Len(fifo) + 1] = Proxy /\ \A i \in 1..Len(fifo) : fifo'[i] = fifo[i]
    BY ONLY <1>3, <2>1, Ends1, Posted
  <2>3. \A i \in DOMAIN fifo' : fifo'[i] # Proxy => i \in DOMAIN fifo /\ fifo'[i] = fifo[i]
    BY ONLY <2>2
  <2>. QED  BY ONLY <1>1, <2>3, Waiters, UNCHANGED <<sender, answer, held>> DEF Waiters
<1>. QED  BY <1>2, <1>3

\* So do what is out and the tables, when what is out moves from place to place, or
\* is lost with the applet.
LEMMA OutMoves ==
  ASSUME Types, Orderly, UNCHANGED <<sender, answer, slot, held>>,
         fifo' = fifo \/ fifo' = Append(fifo, Proxy),
         Well' => Well /\ Apart' /\ Out' \subseteq Out,
         Well' /\ applet'.at # "left" => applet.at # "left" /\ Out' = Out
  PROVE  Orderly'
<1>1. Waiters' /\ EndToEnd'
  BY WaitersKept DEF Orderly, EndToEnd
<1>2. ASSUME Well' PROVE Table' /\ Single' /\ Current'
  <2>1. Well /\ Out' \subseteq Out
    BY <1>2
  <2>. QED  BY <2>1 DEF Orderly, Table, Single, Current
<1>3. ASSUME Well', applet'.at # "left" PROVE Complete'
  BY <1>3 DEF Orderly, Complete
<1>. QED  BY <1>1, <1>2, <1>3 DEF Orderly

\* Above all when only commands come and go.
LEMMA Quiet ==
  ASSUME Types, Orderly, UNCHANGED <<sender, answer, slot, held, todo>>,
         fifo' = fifo \/ fifo' = Append(fifo, Proxy),
         Well' => /\ Well /\ Same(toApplet, toApplet', "relay")
                  /\ Same(toChild, toChild', "reply"),
         applet'.at # "left" => applet.at # "left"
  PROVE  Orderly'
<1>1. ASSUME Well' PROVE Well /\ Apart' /\ Out' = Out
  <2>1. Apart'
    BY <1>1 DEF Orderly, Apart, Same
  <2>. QED  BY <1>1, <2>1, OutIs DEF Same
<1>. QED  BY <1>1, OutMoves

\* The steps that only move commands, and what they do to the socket.
GetsOn == toChild # <<>> /\ Head(toChild).kind # "reply" /\ toChild' = Tail(toChild)

\* The steps that move commands only: they name no sender and no slot.
LEMMA QuietStep ==
  ASSUME Types, Orderly,
         \/ Accept \/ InitChild \/ ProxySend \/ AnswerAtOnce \/ Ack \/ SendReturns \/ TellFails
         \/ (\E k \in {"send", "tell"} : SendIt(k)) \/ TargetTakes \/ TargetAnswers
         \/ TargetLeaves \/ (\E k \in Asked : AppletAsk(k)) \/ AppletHangs
  PROVE  Orderly'
<1>1. toApplet \in Seq(Down) /\ toChild \in Seq(Up)
  BY DEF Types
<1>2. /\ Same(toApplet, toApplet, "relay") /\ Same(toChild, toChild, "reply")
      /\ Same(toApplet, Append(toApplet, Cmd("answer")), "relay")
      /\ \A k \in Asked : Same(toChild, Append(toChild, Cmd(k)), "reply")
      /\ Well /\ GetsOn => Same(toChild, toChild', "reply")
  <2>1. Well => Once(toChild, "reply")
    BY DEF Orderly, Apart
  <2>. QED  BY ONLY <1>1, <2>1, SameIs, Carried DEF GetsOn
<1>3. CASE Accept
  <2>1. /\ UNCHANGED <<sender, answer, slot, held, todo>>
        /\ applet' = applet \/ applet.at # "left"
        /\ fifo' = fifo
        /\ UNCHANGED <<toApplet, toChild>>
    BY ONLY <1>3 DEF Accept, sVars, aVars, kVars, GetsOn
  <2>2. Well
    BY ONLY <1>3 DEF Accept, Well
  <2>. QED  BY ONLY <1>2, <2>1, <2>2, Types, Orderly, Quiet
<1>4. CASE InitChild
  <2>1. /\ UNCHANGED <<sender, answer, slot, held, todo>>
        /\ applet' = applet \/ applet.at # "left"
        /\ fifo' = fifo
        /\ UNCHANGED <<toApplet, toChild>>
    BY ONLY <1>4 DEF InitChild, sVars, aVars, kVars, GetsOn
  <2>2. Well
    BY ONLY <1>4 DEF InitChild, Well
  <2>. QED  BY ONLY <1>2, <2>1, <2>2, Types, Orderly, Quiet
<1>5. CASE ProxySend
  <2>1. /\ UNCHANGED <<sender, answer, slot, held, todo>>
        /\ applet' = applet \/ applet.at # "left"
        /\ fifo' = fifo \/ fifo' = Append(fifo, Proxy)
        /\ UNCHANGED <<toApplet, toChild>>
    BY ONLY <1>5 DEF ProxySend, Living, sVars, aVars, kVars, GetsOn
  <2>2. Well
    BY ONLY <1>5 DEF ProxySend, Well, Living
  <2>. QED  BY ONLY <1>2, <2>1, <2>2, Types, Orderly, Quiet
<1>6. CASE AnswerAtOnce
  <2>1. /\ UNCHANGED <<sender, answer, slot, held, todo>>
        /\ applet' = applet \/ applet.at # "left"
        /\ fifo' = fifo
        /\ toApplet' = Append(toApplet, Cmd("answer")) /\ GetsOn
    BY ONLY <1>6 DEF AnswerAtOnce, Got, Token, Heard, ToApplet, sVars, aVars, kVars, GetsOn
  <2>2. Well
    BY ONLY <1>6 DEF AnswerAtOnce, Well, Got, Token
  <2>. QED  BY ONLY <1>2, <2>1, <2>2, Types, Orderly, Quiet
<1>7. CASE Ack
  <2>1. /\ UNCHANGED <<sender, answer, slot, held, todo>>
        /\ applet' = applet \/ applet.at # "left"
        /\ fifo' = fifo
        /\ UNCHANGED toApplet /\ GetsOn
    BY ONLY <1>7 DEF Ack, Got, Token, Heard, sVars, aVars, kVars, GetsOn
  <2>2. Well
    BY ONLY <1>7 DEF Ack, Well, Got, Token
  <2>. QED  BY ONLY <1>2, <2>1, <2>2, Types, Orderly, Quiet
<1>8. ASSUME NEW k \in {"send", "tell"}, SendIt(k) PROVE Orderly'
  <2>1. /\ UNCHANGED <<sender, answer, slot, held, todo>>
        /\ applet' = applet \/ applet.at # "left"
        /\ fifo' = fifo
        /\ UNCHANGED toApplet /\ GetsOn
    BY ONLY <1>8 DEF SendIt, Got, Token, Heard, sVars, aVars, kVars, GetsOn
  <2>2. Well
    BY ONLY <1>8 DEF SendIt, Well, Got, Token
  <2>. QED  BY ONLY <1>2, <2>1, <2>2, Types, Orderly, Quiet
<1>9. CASE SendReturns
  <2>1. /\ UNCHANGED <<sender, answer, slot, held, todo>>
        /\ applet' = applet \/ applet.at # "left"
        /\ fifo' = fifo
        /\ toApplet' \in {toApplet, Append(toApplet, Cmd("answer"))} /\ UNCHANGED toChild
    BY ONLY <1>9 DEF SendReturns, ToApplet, sVars, aVars, kVars, GetsOn
  <2>2. Well
    BY ONLY <1>9 DEF SendReturns, Well
  <2>. QED  BY ONLY <1>2, <2>1, <2>2, Types, Orderly, Quiet
<1>10. CASE TellFails
  <2>1. /\ UNCHANGED <<sender, answer, slot, held, todo>>
        /\ applet' = applet \/ applet.at # "left"
        /\ fifo' = fifo
        /\ UNCHANGED toApplet /\ (UNCHANGED toChild \/ GetsOn)
    BY ONLY <1>10 DEF TellFails, Got, Token, Heard, sVars, aVars, kVars, GetsOn
  <2>2. Well
    BY ONLY <1>10 DEF TellFails, Well, Got, Token
  <2>. QED  BY ONLY <1>2, <2>1, <2>2, Types, Orderly, Quiet
<1>11. CASE TargetTakes \/ TargetAnswers
  <2>1. /\ UNCHANGED <<sender, answer, slot, held, todo>>
        /\ applet' = applet \/ applet.at # "left"
        /\ fifo' = fifo
        /\ UNCHANGED <<toApplet, toChild, child>>
    BY ONLY <1>11 DEF TargetTakes, TargetAnswers, sVars, aVars, kVars, GetsOn
  <2>2. Well' => Well
    BY ONLY <2>1 DEF Well
  <2>. QED  BY ONLY <1>2, <2>1, <2>2, Types, Orderly, Quiet
<1>12. CASE TargetLeaves
  <2>1. /\ UNCHANGED <<sender, answer, slot, held, todo>>
        /\ applet' = applet \/ applet.at # "left"
        /\ fifo' = fifo
        /\ UNCHANGED <<toApplet, toChild, child>>
    BY ONLY <1>12 DEF TargetLeaves, sVars, aVars, kVars, GetsOn
  <2>2. Well' => Well
    BY ONLY <2>1 DEF Well
  <2>. QED  BY ONLY <1>2, <2>1, <2>2, Types, Orderly, Quiet
<1>13. ASSUME NEW k \in Asked, AppletAsk(k) PROVE Orderly'
  <2>1. /\ UNCHANGED <<sender, answer, slot, held, todo>>
        /\ applet' = applet \/ applet.at # "left"
        /\ fifo' = fifo
        /\ UNCHANGED toApplet /\ toChild' = Append(toChild, Cmd(k))
    BY ONLY <1>13 DEF AppletAsk, Living, ToChild, sVars, aVars, kVars, GetsOn
  <2>2. Well
    BY ONLY <1>13 DEF AppletAsk, Well, Living
  <2>. QED  BY ONLY <1>2, <2>1, <2>2, Types, Orderly, Quiet
<1>14. CASE AppletHangs
  <2>1. /\ UNCHANGED <<sender, answer, slot, held, todo>>
        /\ applet' = applet \/ applet.at # "left"
        /\ fifo' = fifo
        /\ UNCHANGED <<toApplet, toChild, child>>
    BY ONLY <1>14 DEF AppletHangs, sVars, aVars, kVars, GetsOn
  <2>2. Well' => Well
    BY ONLY <2>1 DEF Well
  <2>. QED  BY ONLY <1>2, <2>1, <2>2, Types, Orderly, Quiet
<1>. QED
  BY <1>3, <1>4, <1>5, <1>6, <1>7, <1>8, <1>9, <1>10, <1>11, <1>12, <1>13, <1>14

-----------------------------------------------------------------------------
(* The child ends.                                                         *)

\* A held sender that is released has an error to return with, and nobody else is
\* told anything.
LEMMA EndKeeps ==
  ASSUME Types, Orderly, NEW S \in SUBSET held, NEW at \in {"gone", "faulted"}, Ends(S, at),
         UNCHANGED sender
  PROVE  Orderly'
<1>1. /\ answer' = [s \in Sender |-> IF s \in S THEN Append(answer[s], Error) ELSE answer[s]]
      /\ held' = held \ S /\ fifo' = <<>> /\ child' = [child EXCEPT !.at = at, !.waiting = FALSE]
  BY ONLY Ends(S, at) DEF Ends, Release
<1>2. ~ Well'
  BY <1>1 DEF Types, Well
<1>3. /\ held \subseteq Sender /\ \A s \in held : Unanswered(s) /\ answer[s] = <<>>
  BY DEF Orderly, Waiters, Unanswered, Types
<1>4. \A s \in Sender : s \notin S => answer'[s] = answer[s]
  BY ONLY <1>1
<1>5. \A s \in S : answer'[s] = <<Error>>
  <2>1. ASSUME NEW s \in S PROVE answer'[s] = Append(<<>>, Error)
    <3>1. s \in Sender /\ answer[s] = <<>>
      BY ONLY <1>3, S \subseteq held
    <3>. QED  BY ONLY <1>1, <3>1
  <2>. QED  BY ONLY <2>1
<1>6. Waiters'
  <2>1. \A s \in held' : Unanswered(s)'
    BY ONLY <1>1, <1>3, <1>4, UNCHANGED sender DEF Unanswered
  <2>2. DOMAIN fifo' = {}
    BY ONLY <1>1
  <2>. QED  BY ONLY <2>1, <2>2 DEF Waiters
<1>7. EndToEnd'
  <2>1. Len(<<Error>>) = 1 /\ <<Error>>[1].kind # "reply"
    BY DEF Error
  <2>2. ASSUME NEW s \in Sender, answer'[s] # <<>>
        PROVE  /\ Len(answer'[s]) = 1 /\ sender'[s].at = "waiting"
               /\ answer'[s][1].kind = "reply" =>
                      answer'[s][1].of = s /\ answer'[s][1].n = sender'[s].n
    <3>1. CASE s \in S
      BY ONLY <1>3, <1>5, <2>1, <3>1, UNCHANGED sender DEF Unanswered
    <3>2. CASE s \notin S
      BY ONLY <1>4, <2>2, <3>2, UNCHANGED sender, Orderly DEF Orderly, EndToEnd
    <3>. QED  BY ONLY <3>1, <3>2
  <2>. QED  BY ONLY <2>2 DEF EndToEnd
<1>. QED  BY ONLY <1>2, <1>6, <1>7 DEF Orderly

\* Those in the slots are held.
LEMMA BlockedAreHeld == ASSUME Orderly, Well PROVE Blocked \subseteq held
  BY TclAssumption DEF Orderly, Table, Blocked

\* The ways to end, but for a relay that fails.
LEMMA EndStep ==
  ASSUME Types, Orderly, Well, UNCHANGED sender, UnblockSenders \/ Fault
  PROVE  Orderly'
<1>1. PICK S \in SUBSET held, at \in {"gone", "faulted"} : Ends(S, at)
  <2>1. CASE UnblockSenders
    BY <2>1, BlockedAreHeld DEF UnblockSenders
  <2>2. CASE Fault
    BY <2>2 DEF Fault
  <2>. QED  BY <2>1, <2>2
<1>. QED  BY <1>1, EndKeeps

\* The message that is in the way at the head of the fifo.
LEMMA AtHead ==
  ASSUME Types, Orderly, fifo # <<>>, Head(fifo) # Proxy
  PROVE  /\ Head(fifo).of \in Sender \ held /\ Unanswered(Head(fifo).of)
         /\ \A i \in DOMAIN Tail(fifo) :
               Tail(fifo)[i] # Proxy =>
                   /\ Unanswered(Tail(fifo)[i].of)
                   /\ Tail(fifo)[i].of \notin held \cup {Head(fifo).of}
         /\ \A i, j \in DOMAIN Tail(fifo) :
               Tail(fifo)[i] # Proxy /\ Tail(fifo)[i] = Tail(fifo)[j] => i = j
<1>. DEFINE w == Tail(fifo)
            m == Head(fifo)
<1>1. fifo \in Seq(Post)
  BY DEF Types
<1>2. /\ DOMAIN fifo = 1..Len(fifo) /\ Len(fifo) \in Nat \ {0} /\ DOMAIN w = 1..(Len(fifo) - 1)
      /\ fifo[1] = m /\ m \in Post /\ \A i \in 1..(Len(fifo) - 1) : w[i] = fifo[i + 1]
      /\ \A i \in DOMAIN fifo : fifo[i] \in Post
  BY <1>1, Ends1
<1>3. m # Proxy
  OBVIOUS
<1>. HIDE DEF w, m
<1>4. 1 \in DOMAIN fifo /\ m.of \in Sender \ held /\ Unanswered(m.of) /\ m = Message(m.of)
  BY <1>2, <1>3, Posted DEF Orderly, Waiters
<1>5. ASSUME NEW i \in DOMAIN w PROVE i + 1 \in DOMAIN fifo /\ i + 1 # 1 /\ w[i] = fifo[i + 1]
  BY <1>2
<1>6. ASSUME NEW i \in DOMAIN w, w[i] # Proxy
      PROVE  Unanswered(w[i].of) /\ w[i].of \notin held \cup {m.of}
  <2>1. Unanswered(w[i].of) /\ w[i].of \notin held
    BY <1>5, <1>6 DEF Orderly, Waiters
  <2>2. w[i] # m
    BY <1>2, <1>3, <1>4, <1>5 DEF Orderly, Waiters
  <2>3. w[i] = Message(w[i].of)
    BY <1>2, <1>5, <1>6, Posted
  <2>. QED  BY <1>4, <2>1, <2>2, <2>3
<1>7. ASSUME NEW i \in DOMAIN w, NEW j \in DOMAIN w, w[i] # Proxy, w[i] = w[j] PROVE i = j
  <2>1. i + 1 = j + 1
    BY <1>5, <1>7 DEF Orderly, Waiters
  <2>. QED  BY <1>2, <2>1
<1>. QED  BY <1>4, <1>6, <1>7 DEF w, m

\* When a relay fails, everybody is told, and the sender of the message first.
LEMMA RelayFailsStep ==
  ASSUME Types, Orderly, child.at = "up", fifo # <<>>, Head(fifo) # Proxy,
         RelayFails(Head(fifo).of), UNCHANGED sender
  PROVE  Orderly'
<1>. DEFINE s == Head(fifo).of
            S == (held \cup Blocked) \ {s}
<1>1. s \in Sender \ held /\ Unanswered(s)
  BY AtHead
<1>2. S \subseteq held /\ s \notin S
  BY BlockedAreHeld DEF Well
<1>3. /\ answer' = [t \in Sender |-> IF t = s THEN Append(answer[t], Empty)
                                     ELSE IF t \in S THEN Append(answer[t], Error)
                                     ELSE answer[t]]
      /\ held' = {} /\ fifo' = <<>> /\ child' = [child EXCEPT !.at = "gone", !.waiting = FALSE]
  BY DEF RelayFails
<1>. HIDE DEF s, S
<1>4. ~ Well'
  BY <1>3 DEF Types, Well
<1>5. \A t \in S \cup {s} : Unanswered(t) /\ answer[t] = <<>> /\ t \in Sender
  BY <1>1, <1>2 DEF Orderly, Waiters, Unanswered, Types
<1>6. \A t \in Sender : IF t \in S \cup {s} THEN answer'[t] \in {<<Error>>, <<Empty>>}
                        ELSE answer'[t] = answer[t]
  <2>1. ASSUME NEW t \in Sender, t \in S \cup {s}
        PROVE  answer'[t] = Append(<<>>, Empty) \/ answer'[t] = Append(<<>>, Error)
    BY ONLY <1>3, <1>5, <2>1
  <2>2. Append(<<>>, Empty) = <<Empty>> /\ Append(<<>>, Error) = <<Error>>
    OBVIOUS
  <2>3. ASSUME NEW t \in Sender, t \notin S \cup {s} PROVE answer'[t] = answer[t]
    BY ONLY <1>3, <2>3
  <2>. QED  BY ONLY <2>1, <2>2, <2>3
<1>7. Waiters'
  BY ONLY <1>3 DEF Waiters
<1>8. EndToEnd'
  <2>1. \A a \in {<<Error>>, <<Empty>>} : Len(a) = 1 /\ a[1].kind # "reply"
    BY DEF Error, Empty
  <2>2. ASSUME NEW t \in Sender, answer'[t] # <<>>
        PROVE  /\ Len(answer'[t]) = 1 /\ sender'[t].at = "waiting"
               /\ answer'[t][1].kind = "reply" =>
                      answer'[t][1].of = t /\ answer'[t][1].n = sender'[t].n
    <3>1. CASE t \in S \cup {s}
      BY ONLY <1>5, <1>6, <2>1, <3>1, UNCHANGED sender DEF Unanswered
    <3>2. CASE t \notin S \cup {s}
      BY ONLY <1>6, <2>2, <3>2, UNCHANGED sender, Orderly DEF Orderly, EndToEnd
    <3>. QED  BY ONLY <3>1, <3>2
  <2>. QED  BY ONLY <2>2 DEF EndToEnd
<1>. QED  BY ONLY <1>4, <1>7, <1>8 DEF Orderly

-----------------------------------------------------------------------------
(* The senders.                                                            *)

\* What the tables say of those who are held does not change with the others.
LEMMA TablesKept ==
  ASSUME Orderly, UNCHANGED <<child, slot, held, aVars, kVars>>,
         \A s \in held : sender'[s] = sender[s]
  PROVE  /\ (Well => Table /\ Apart /\ Single /\ Current)'
         /\ (Well /\ applet.at # "left" => Complete)'
<1>1. UNCHANGED <<applet, todo, toChild, toApplet>>
  BY DEF aVars, kVars
<1>2. Out' = Out /\ (Well' <=> Well)
  BY <1>1, OutIs DEF Well
<1>3. ASSUME Well PROVE Table' /\ Apart' /\ Single' /\ Current'
  <2>1. Table' /\ Single'
    BY <1>2, <1>3 DEF Orderly, Table, Single
  <2>2. Apart'
    BY <1>1, <1>3 DEF Orderly, Apart
  <2>3. Current'
    BY ONLY <1>2, <1>3, Orderly, UNCHANGED <<child, slot, held, aVars, kVars>>,
            \A s \in held : sender'[s] = sender[s] DEF Orderly, Current
  <2>. QED  BY <2>1, <2>2, <2>3
<1>4. ASSUME Well, applet.at # "left" PROVE Complete'
  BY <1>2, <1>4 DEF Orderly, Complete
<1>. QED  BY <1>1, <1>2, <1>3, <1>4

\* A sender that is not waiting for an answer is neither held nor in the fifo.
LEMMA Away ==
  ASSUME Orderly, NEW s, ~ Unanswered(s)
  PROVE  s \notin held /\ \A i \in DOMAIN fifo : fifo[i] # Proxy => fifo[i].of # s
  BY DEF Orderly, Waiters

\* A sender sends: it was not waiting, so it is neither held nor in the fifo already.
LEMMA SenderSendStep == ASSUME Types, Orderly, NEW s \in Sender, SenderSend(s) PROVE Orderly'
<1>1. /\ sender[s].at = "idle" /\ sender[s].n \in Nat /\ ~ Unanswered(s)
      /\ UNCHANGED <<answer, child, slot, held, aVars, kVars>>
  BY DEF SenderSend, Types, Unanswered
<1>2. answer[s] = <<>>
  BY <1>1 DEF Orderly, EndToEnd
<1>3. s \notin held /\ \A i \in DOMAIN fifo : fifo[i] # Proxy => fifo[i].of # s
  BY <1>1, Away
<1>4. \A t \in Sender : t # s => sender'[t] = sender[t]
  BY DEF SenderSend, Types
<1>5. held \subseteq Sender /\ fifo \in Seq(Post)
  BY DEF Types
<1>6. /\ (Well => Table /\ Apart /\ Single /\ Current)'
      /\ (Well /\ applet.at # "left" => Complete)'
  <2>1. \A t \in held : sender'[t] = sender[t]
    BY ONLY <1>3, <1>4, <1>5
  <2>. QED  BY ONLY <1>1, <2>1, Orderly, TablesKept
<1>7. EndToEnd'
  BY ONLY <1>1, <1>2, <1>4, Orderly DEF Orderly, EndToEnd
<1>8. \A t \in Sender : t # s => (Unanswered(t)' <=> Unanswered(t))
  BY ONLY <1>1, <1>4 DEF Unanswered
<1>9. /\ DOMAIN fifo = 1..Len(fifo) /\ Len(fifo) \in Nat
      /\ \A i \in DOMAIN fifo : fifo[i] # Proxy => fifo[i].of \in Sender /\ fifo[i] = Message(fifo[i].of)
  BY ONLY <1>5, Ends1, Posted
<1>10. /\ \A t \in held : Unanswered(t)'
       /\ \A i \in DOMAIN fifo :
             fifo[i] # Proxy => /\ \A t \in Sender : t = fifo[i].of => Unanswered(t)'
                                /\ fifo[i].of \in Sender \ held
       /\ \A i, j \in DOMAIN fifo : fifo[i] # Proxy /\ fifo[i] = fifo[j] => i = j
  <2>1. Waiters
    BY ONLY Orderly DEF Orderly
  <2>2. \A t \in held : Unanswered(t)'
    BY ONLY <1>3, <1>5, <1>8, <2>1 DEF Waiters
  <2>3. ASSUME NEW i \in DOMAIN fifo, fifo[i] # Proxy
        PROVE  /\ \A t \in Sender : t = fifo[i].of => Unanswered(t)'
               /\ fifo[i].of \in Sender \ held
    <3>1. /\ Unanswered(fifo[i].of) /\ fifo[i].of \notin held
          /\ fifo[i].of \in Sender /\ fifo[i].of # s
      BY ONLY <1>3, <1>9, <2>1, <2>3 DEF Waiters
    <3>. QED  BY ONLY <1>8, <3>1
  <2>. QED  BY ONLY <2>1, <2>2, <2>3 DEF Waiters
<1>11. Waiters'
  <2>1. CASE fifo' = fifo
    BY ONLY <1>1, <1>10, <2>1 DEF Waiters, Unanswered
  <2>2. CASE Living
    <3>1. sender' = [sender EXCEPT ![s] = [at |-> "waiting", n |-> @.n + 1]]
          /\ fifo' = Append(fifo, Message(s))
      BY ONLY <2>2, SenderSend(s) DEF SenderSend, Message
    <3>2. sender'[s] = [at |-> "waiting", n |-> sender[s].n + 1]
      BY ONLY <3>1, Types DEF Types
    <3>3. Unanswered(s)'
      BY ONLY <1>1, <1>2, <3>2 DEF Unanswered
    <3>4. /\ DOMAIN fifo' = 1..(Len(fifo) + 1) /\ fifo'[Len(fifo) + 1] = Message(s)
          /\ \A i \in 1..Len(fifo) : fifo'[i] = fifo[i]
      BY ONLY <1>5, <3>1, Ends1, Posted
    <3>5. Message(s).of = s
      BY Posted
    <3>6. \A i \in DOMAIN fifo' :
             \/ i \in DOMAIN fifo /\ fifo'[i] = fifo[i]
             \/ i = Len(fifo) + 1 /\ fifo'[i] = Message(s)
      BY ONLY <1>9, <3>4
    <3>7. ASSUME NEW i \in DOMAIN fifo', fifo'[i] # Proxy
          PROVE  \E t \in Sender : fifo'[i].of = t /\ Unanswered(t)' /\ t \notin held'
      BY ONLY <1>1, <1>3, <1>10, <3>3, <3>5, <3>6, <3>7
    <3>8. \A i, j \in DOMAIN fifo' : fifo'[i] # Proxy /\ fifo'[i] = fifo'[j] => i = j
      BY ONLY <1>3, <1>10, <3>5, <3>6
    <3>9. \A t \in held' : Unanswered(t)'
      BY ONLY <1>1, <1>10
    <3>. QED  BY ONLY <3>7, <3>8, <3>9 DEF Waiters, Unanswered
  <2>. QED  BY ONLY <2>1, <2>2, SenderSend(s) DEF SenderSend
<1>. QED  BY ONLY <1>6, <1>7, <1>11 DEF Orderly

\* A sender returns: it has its answer, so it is neither held nor in the fifo.
LEMMA SenderReturnStep == ASSUME Types, Orderly, NEW s \in Sender, SenderReturn(s) PROVE Orderly'
<1>1. /\ answer[s] # <<>> /\ ~ Unanswered(s)
      /\ UNCHANGED <<fifo, child, slot, held, aVars, kVars>>
  BY DEF SenderReturn, Unanswered
<1>2. s \notin held /\ \A i \in DOMAIN fifo : fifo[i] # Proxy => fifo[i].of # s
  BY <1>1, Away
<1>3. /\ \A t \in Sender : t # s => sender'[t] = sender[t] /\ answer'[t] = answer[t]
      /\ answer'[s] = <<>>
  BY DEF SenderReturn, Types
<1>4. held \subseteq Sender /\ fifo \in Seq(Post)
  BY DEF Types
<1>5. /\ (Well => Table /\ Apart /\ Single /\ Current)'
      /\ (Well /\ applet.at # "left" => Complete)'
  <2>1. \A t \in held : sender'[t] = sender[t]
    BY ONLY <1>2, <1>3, <1>4
  <2>. QED  BY ONLY <1>1, <2>1, Orderly, TablesKept
<1>6. EndToEnd'
  BY ONLY <1>3, Orderly DEF Orderly, EndToEnd
<1>7. \A t \in Sender : t # s => (Unanswered(t)' <=> Unanswered(t))
  BY ONLY <1>3 DEF Unanswered
<1>8. \A i \in DOMAIN fifo : fifo[i] # Proxy => fifo[i].of \in Sender
  BY ONLY <1>4, Ends1, Posted
<1>9. Waiters'
  BY ONLY <1>1, <1>2, <1>4, <1>7, <1>8, Orderly DEF Orderly, Waiters
<1>. QED  BY ONLY <1>5, <1>6, <1>9 DEF Orderly

-----------------------------------------------------------------------------
(* The child receives a message and relays it.                             *)

\* The number of the message a waiting sender has sent.
LEMMA WordOf ==
  ASSUME Types, NEW s \in Sender, Unanswered(s)
  PROVE  [of |-> s, n |-> sender[s].n] \in Word
<1>1. sender[s].n \in 1..MaxSends
  BY TclAssumption DEF Types, Unanswered
<1>. QED  BY <1>1 DEF Word

\* The message is relayed: a new slip, under a slot that nobody has, for a sender that is
\* not held yet.
LEMMA RelayStep ==
  ASSUME Types, Orderly, child.at = "up", fifo # <<>>, Head(fifo) # Proxy,
         Relay(Head(fifo).of), UNCHANGED <<sender, aVars>>
  PROVE  Orderly'
<1>. DEFINE s == Head(fifo).of
            i == RememberSender(s)
            x == [slot |-> i, word |-> [of |-> s, n |-> sender[s].n]]
            m == [kind |-> "relay", slot |-> i, word |-> [of |-> s, n |-> sender[s].n]]
<1>1. s \in Sender /\ s \notin held /\ Unanswered(s)
  BY AtHead
<1>2. /\ toApplet' = Append(toApplet, m)
      /\ slot' = IF i = None THEN slot ELSE [slot EXCEPT ![i] = s]
      /\ held' = held \cup {s} /\ child' = [child EXCEPT !.waiting = TRUE]
      /\ fifo' = Tail(fifo) /\ UNCHANGED <<sender, answer, toChild, applet, todo>>
  BY DEF Relay, aVars
<1>3. i = None \/ (i \in 1..Slots /\ slot[i] = NoOne)
  BY Remembered
<1>4. /\ \A j \in DOMAIN Tail(fifo) :
            Tail(fifo)[j] # Proxy =>
                Unanswered(Tail(fifo)[j].of) /\ Tail(fifo)[j].of \notin held \cup {s}
      /\ \A j, k \in DOMAIN Tail(fifo) :
            Tail(fifo)[j] # Proxy /\ Tail(fifo)[j] = Tail(fifo)[k] => j = k
  BY AtHead
<1>5. i \in 0..Slots
  BY <1>3, TclAssumption DEF None
<1>6. [of |-> s, n |-> sender[s].n] \in Word
  BY <1>1, WordOf
<1>7. m \in Down /\ m.kind = "relay" /\ SlipOf(m) = x
  BY <1>5, <1>6, Carried
<1>8. x.word.of = s /\ x.word.n = sender[s].n /\ x.slot = i
  OBVIOUS
<1>9. Well /\ Well'
  BY <1>2 DEF Well, Types
<1>10. Table /\ Apart /\ Single /\ Current
  BY <1>9 DEF Orderly
<1>. HIDE DEF s, i, x, m
<1>11. \A r \in Out : r.word.of \in held /\ r.word.of # s /\ r # x
  BY ONLY <1>1, <1>8, <1>10 DEF Current
<1>12. toApplet \in Seq(Down) /\ slot \in [1..Slots -> Sender \cup {NoOne}]
  BY DEF Types
<1>13. Slips(toApplet', "relay") = Slips(toApplet, "relay") \cup {x}
  BY ONLY <1>2, <1>7, <1>12, SlipsAppend
<1>14. Out' = Out \cup {x}
  BY ONLY <1>2, <1>13, OutIs
<1>15. /\ \A j \in 1..Slots : j # i => slot'[j] = slot[j]
       /\ i # None => i \in 1..Slots /\ slot[i] = NoOne /\ slot'[i] = s
  BY ONLY <1>2, <1>3, <1>12
<1>16. Waiters'
  <2>1. \A t : Unanswered(t)' <=> Unanswered(t)
    BY ONLY <1>2 DEF Unanswered
  <2>2. \A t \in held : Unanswered(t)
    BY ONLY Orderly DEF Orderly, Waiters
  <2>3. \A t \in held' : Unanswered(t)'
    BY ONLY <1>1, <1>2, <2>1, <2>2
  <2>. QED  BY ONLY <1>2, <1>4, <2>1, <2>3 DEF Waiters, Unanswered
<1>17. EndToEnd'
  BY ONLY <1>2, Orderly DEF Orderly, EndToEnd
<1>18. Table'
  <2>1. ASSUME NEW j \in 1..Slots, slot'[j] # NoOne
        PROVE  \/ j = i /\ slot'[j] = s
               \/ j # i /\ slot'[j] = slot[j] /\ slot[j] \in held
    <3>1. j # None
      BY ONLY TclAssumption DEF None
    <3>. QED  BY ONLY <1>10, <1>15, <2>1, <3>1 DEF Table
  <2>2. \A j \in 1..Slots : slot'[j] # NoOne => slot'[j] \in held'
    BY ONLY <1>2, <2>1
  <2>3. \A j, k \in 1..Slots : slot'[j] # NoOne /\ slot'[j] = slot'[k] => j = k
    BY ONLY <1>1, <1>10, <2>1 DEF Table
  <2>. QED  BY ONLY <2>2, <2>3 DEF Table
<1>19. Apart'
  <2>1. x \notin Slips(toApplet, "relay") /\ x \notin todo /\ x \notin Slips(toChild, "reply")
    BY ONLY <1>11, OutIs
  <2>2. Once(toApplet', "relay")
    BY ONLY <1>2, <1>7, <1>10, <1>12, <2>1, SlipsAppend DEF Apart
  <2>3. Once(toChild', "reply") /\ Slips(toChild', "reply") = Slips(toChild, "reply")
    BY ONLY <1>2, <1>10 DEF Apart
  <2>. QED  BY ONLY <1>2, <1>10, <1>13, <2>1, <2>2, <2>3 DEF Apart
<1>20. Single'
  BY ONLY <1>8, <1>10, <1>11, <1>14 DEF Single
<1>21. Current'
  <2>1. x.word.of \in held' /\ x.word.n = sender'[s].n /\ (x.slot # None => slot'[x.slot] = s)
    BY ONLY <1>2, <1>8, <1>15
  <2>2. ASSUME NEW r \in Out
        PROVE  /\ r.word.of \in held' /\ r.word.n = sender'[r.word.of].n
               /\ r.slot # None => slot'[r.slot] = r.word.of
    <3>1. /\ r.word.of \in held /\ r.word.n = sender[r.word.of].n
          /\ r.slot # None => slot[r.slot] = r.word.of
      BY ONLY <1>10 DEF Current
    <3>2. r.word.of # NoOne
      BY ONLY <3>1, TclAssumption, Types DEF Types
    <3>3. r \in Slip
      BY OutInSlip
    <3>4. r.slot # None => r.slot \in 1..Slots /\ r.slot # i
      BY ONLY <1>15, <3>1, <3>2, <3>3, TclAssumption DEF Slip, None
    <3>. QED  BY ONLY <1>2, <1>15, <3>1, <3>4
  <2>. QED  BY ONLY <1>8, <1>14, <2>1, <2>2 DEF Current
<1>22. ASSUME applet'.at # "left" PROVE Complete'
  <2>1. Complete
    BY ONLY <1>2, <1>9, <1>22, Orderly DEF Orderly
  <2>2. \A t \in held' : \E r \in Out' : r.word.of = t
    BY ONLY <1>2, <1>8, <1>14, <2>1 DEF Complete
  <2>3. \A j \in 1..Slots : slot'[j] # NoOne => \E r \in Out' : r.slot = j
    BY ONLY <1>8, <1>14, <1>15, <2>1 DEF Complete
  <2>. QED  BY ONLY <2>2, <2>3 DEF Complete
<1>. QED  BY ONLY <1>16, <1>17, <1>18, <1>19, <1>20, <1>21, <1>22 DEF Orderly

\* The message is relayed, or the child ends.
LEMMA ChildFifoStep == ASSUME Types, Orderly, ChildFifo PROVE Orderly'
<1>1. child.at = "up" /\ fifo # <<>> /\ UNCHANGED <<sender, aVars>> /\ Well
  BY DEF ChildFifo, Well
<1>2. \/ Fault
      \/ Head(fifo) # Proxy /\ Relay(Head(fifo).of)
      \/ Head(fifo) # Proxy /\ RelayFails(Head(fifo).of)
  BY ONLY ChildFifo DEF ChildFifo
<1>. QED  BY ONLY <1>1, <1>2, Types, Orderly, EndStep, RelayStep, RelayFailsStep

-----------------------------------------------------------------------------
(* The child hears the applet.                                             *)

\* The name is attached, or the child ends.
LEMMA NameAttachStep == ASSUME Types, Orderly, NameAttach PROVE Orderly'
<1>1. /\ Well /\ UNCHANGED sender
      /\ \/ UnblockSenders
         \/ /\ GetsOn /\ toApplet' = Append(toApplet, Cmd("answer"))
            /\ UNCHANGED <<answer, fifo, slot, held, applet, todo>>
  BY ONLY NameAttach DEF NameAttach, Got, Token, Heard, ToApplet, GetsOn, Well, aVars
<1>2. CASE UnblockSenders
  BY ONLY <1>1, <1>2, Types, Orderly, EndStep
<1>3. CASE /\ GetsOn /\ toApplet' = Append(toApplet, Cmd("answer"))
           /\ UNCHANGED <<answer, fifo, slot, held, applet, todo>>
  <2>1. toApplet \in Seq(Down) /\ toChild \in Seq(Up)
    BY DEF Types
  <2>2. Once(toChild, "reply")
    BY ONLY <1>1, Orderly DEF Orderly, Apart
  <2>3. Same(toApplet, toApplet', "relay") /\ Same(toChild, toChild', "reply")
    BY ONLY <1>3, <2>1, <2>2, SameIs, Carried DEF GetsOn
  <2>. QED  BY ONLY <1>1, <1>3, <2>3, Types, Orderly, Quiet
<1>. QED  BY ONLY <1>1, <1>2, <1>3

\* The steps of the applet and of time that end the child.
LEMMA EndingStep ==
  ASSUME Types, Orderly, NameDetach \/ SendFails \/ SocketFails \/ AckTimeout
  PROVE  Orderly'
<1>1. Well /\ UNCHANGED sender /\ (UnblockSenders \/ Fault)
  BY ONLY NameDetach \/ SendFails \/ SocketFails \/ AckTimeout
     DEF NameDetach, SendFails, SocketFails, AckTimeout, Got, Token, Well
<1>. QED  BY ONLY <1>1, Types, Orderly, EndStep

\* A reply goes to the sender in the slot it names, which is the sender of the message
\* the applet answers.
LEMMA ReplyItStep == ASSUME Types, Orderly, ReplyIt PROVE Orderly'
<1>. DEFINE f == Head(toChild)
            s == IF f.slot = None THEN NoOne ELSE slot[f.slot]
            x == SlipOf(f)
<1>1. /\ child.at = "up" /\ toChild # <<>> /\ f.kind = "reply"
      /\ UNCHANGED <<sender, applet, todo, toApplet>> /\ Well
      /\ IF s = NoOne
         THEN Fault
         ELSE /\ answer' = [answer EXCEPT ![s] = Append(@, Reply(f.word))]
              /\ held' = held \ {s} /\ slot' = [slot EXCEPT ![f.slot] = NoOne]
              /\ child' = [child EXCEPT !.waiting = FALSE] /\ toChild' = Tail(toChild)
              /\ UNCHANGED fifo
  BY ONLY ReplyIt DEF ReplyIt, Got, Token, Heard, ForgetSender, Well, aVars
<1>2. toChild \in Seq(Up) /\ f \in Up
  <2>1. toChild \in Seq(Up)
    BY DEF Types
  <2>. QED  BY <1>1, <2>1, Ends1
<1>3. x \in Slip /\ f.word \in Word /\ f.slot \in 0..Slots /\ x.slot = f.slot /\ x.word = f.word
  <2>1. x.slot = f.slot /\ x.word = f.word
    BY DEF SlipOf
  <2>. QED  BY <1>1, <1>2, <2>1, Carried
<1>. HIDE DEF f, x
<1>4. CASE s = NoOne
  BY ONLY <1>1, <1>4, Types, Orderly, EndStep
<1>5. CASE s # NoOne
  <2>1. s = slot[f.slot] /\ f.slot # None
    BY ONLY <1>5
  <2>. HIDE DEF s
  <2>2. f.slot \in 1..Slots
    BY ONLY <1>3, <2>1, TclAssumption DEF None
  <2>3. /\ answer' = [answer EXCEPT ![s] = Append(@, Reply(f.word))]
        /\ held' = held \ {s} /\ slot' = [slot EXCEPT ![f.slot] = NoOne]
        /\ child' = [child EXCEPT !.waiting = FALSE] /\ toChild' = Tail(toChild)
        /\ UNCHANGED <<fifo, sender, applet, todo, toApplet>>
    BY ONLY <1>1, <1>5
  <2>4. Table /\ Apart /\ Single /\ Current
    BY ONLY <1>1, Orderly DEF Orderly
  <2>5. /\ Once(toChild', "reply") /\ x \in Slips(toChild, "reply")
        /\ Slips(toChild', "reply") = Slips(toChild, "reply") \ {x}
    <3>1. Once(toChild, "reply") /\ f = Head(toChild) /\ x = SlipOf(f)
      BY ONLY <2>4 DEF Apart, f, x
    <3>. QED  BY ONLY <1>1, <1>2, <2>3, <3>1, SlipsTail
  <2>6. x \in Out /\ Out' = Out \ {x}
    BY ONLY <2>3, <2>4, <2>5, OutIs DEF Apart
  <2>7. s \in held /\ x.word.of = s /\ f.word.n = sender[s].n
    BY ONLY <1>3, <2>1, <2>4, <2>6 DEF Current
  <2>8. Well'
    <3>1. child.at = "up" /\ child' = [child EXCEPT !.waiting = FALSE]
      BY ONLY <1>1, <2>3
    <3>. QED  BY ONLY <3>1, Types DEF Types, Well
  <2>9. s \in Sender /\ Unanswered(s)
    BY ONLY <2>7, Types, Orderly DEF Types, Orderly, Waiters
  <2>10. /\ \A j \in 1..Slots : j # f.slot => slot'[j] = slot[j]
         /\ slot'[f.slot] = NoOne
    BY ONLY <2>2, <2>3, Types DEF Types
  <2>11. answer'[s] = <<Reply(f.word)>> /\ \A t \in Sender : t # s => answer'[t] = answer[t]
    <3>1. answer \in [Sender -> Seq(Returned)]
      BY DEF Types
    <3>2. answer[s] = <<>>
      BY ONLY <2>9 DEF Unanswered
    <3>3. answer'[s] = Append(<<>>, Reply(f.word)) /\ \A t \in Sender : t # s => answer'[t] = answer[t]
      BY ONLY <2>3, <2>9, <3>1, <3>2
    <3>. QED  BY ONLY <3>3
  <2>12. EndToEnd'
    <3>1. /\ Len(answer'[s]) = 1 /\ answer'[s][1] = Reply(f.word)
      BY ONLY <2>11
    <3>2. Reply(f.word).of = s /\ Reply(f.word).n = sender[s].n
      BY ONLY <1>3, <2>7 DEF Reply
    <3>3. sender'[s].at = "waiting"
      BY ONLY <2>3, <2>9 DEF Unanswered
    <3>. QED  BY ONLY <2>3, <2>11, <3>1, <3>2, <3>3, Orderly DEF Orderly, EndToEnd
  <2>13. Waiters'
    <3>1. \A t \in Sender : t # s => (Unanswered(t)' <=> Unanswered(t))
      BY ONLY <2>3, <2>11 DEF Unanswered
    <3>2. Waiters /\ held \subseteq Sender /\ fifo \in Seq(Post)
      BY DEF Orderly, Types
    <3>3. \A i \in DOMAIN fifo : fifo[i] # Proxy => fifo[i].of \in Sender
      BY ONLY <3>2, Ends1, Posted
    <3>. QED  BY ONLY <2>3, <2>7, <3>1, <3>2, <3>3 DEF Waiters
  <2>14. Table'
    BY ONLY <2>1, <2>2, <2>3, <2>4, <2>10 DEF Table
  <2>15. Apart'
    BY ONLY <2>3, <2>4, <2>5 DEF Apart
  <2>16. Single'
    BY ONLY <2>4, <2>6 DEF Single
  <2>17. Current'
    <3>1. ASSUME NEW r \in Out, r # x
          PROVE  /\ r.word.of \in held' /\ r.word.n = sender'[r.word.of].n
                 /\ r.slot # None => slot'[r.slot] = r.word.of
      <4>1. /\ r.word.of \in held /\ r.word.n = sender[r.word.of].n
            /\ r.slot # None => slot[r.slot] = r.word.of
        BY ONLY <2>4 DEF Current
      <4>2. r.word.of # s
        BY ONLY <2>4, <2>6, <2>7, <3>1 DEF Single
      <4>3. r \in Slip
        BY OutInSlip
      <4>4. r.slot # None => r.slot \in 1..Slots /\ r.slot # f.slot
        BY ONLY <2>1, <4>1, <4>2, <4>3, TclAssumption DEF Slip, None
      <4>. QED  BY ONLY <2>3, <2>10, <4>1, <4>2, <4>4
    <3>. QED  BY ONLY <2>6, <3>1 DEF Current
  <2>18. ASSUME applet'.at # "left" PROVE Complete'
    <3>1. Complete
      BY ONLY <1>1, <2>3, <2>18, Orderly DEF Orderly
    <3>2. \A t \in held' : \E r \in Out' : r.word.of = t
      BY ONLY <2>3, <2>6, <2>7, <3>1 DEF Complete
    <3>3. \A j \in 1..Slots : slot'[j] # NoOne => \E r \in Out' : r.slot = j
      BY ONLY <1>3, <2>6, <2>10, <3>1 DEF Complete
    <3>. QED  BY ONLY <3>2, <3>3 DEF Complete
  <2>. QED  BY ONLY <2>12, <2>13, <2>14, <2>15, <2>16, <2>17, <2>18 DEF Orderly
<1>. QED  BY ONLY <1>4, <1>5

-----------------------------------------------------------------------------
(* The applet: what is out moves on.                                       *)

\* The applet takes a relayed message, or the answer to a command.
LEMMA AppletTakeStep == ASSUME Types, Orderly, AppletTake PROVE Orderly'
<1>. DEFINE m == Head(toApplet)
            x == SlipOf(m)
<1>1. /\ toApplet # <<>> /\ toApplet' = Tail(toApplet)
      /\ UNCHANGED <<sender, answer, fifo, child, slot, held>>
      /\ IF m.kind = "answer"
         THEN applet' = [applet EXCEPT !.at = "idle"] /\ UNCHANGED <<todo, toChild>>
         ELSE /\ todo' = todo \cup {x} /\ UNCHANGED applet
              /\ toChild' = Append(toChild, Cmd("ack")) \/ UNCHANGED toChild
      /\ applet.at # "left"
  BY ONLY AppletTake DEF AppletTake, ToChild, SlipOf, sVars
<1>2. toApplet \in Seq(Down) /\ toChild \in Seq(Up)
  BY DEF Types
<1>3. m.kind \in {"answer", "relay"}
  BY <1>1, <1>2, Ends1, Carried
<1>4. m = Head(toApplet) /\ x = SlipOf(m) /\ "ack" \in Asked
  BY DEF Asked
<1>. HIDE DEF m, x
<1>5. (Well' <=> Well) /\ (Well => Apart)
  BY ONLY <1>1, Orderly DEF Well, Orderly
<1>6. CASE m.kind = "answer"
  <2>1. Well => Same(toApplet, toApplet', "relay") /\ Same(toChild, toChild', "reply")
    BY ONLY <1>1, <1>2, <1>4, <1>5, <1>6, SameIs DEF Apart
  <2>. QED  BY ONLY <1>1, <1>5, <1>6, <2>1, Types, Orderly, Quiet
<1>7. CASE m.kind = "relay"
  <2>1. ASSUME Well PROVE Apart' /\ Out' = Out
    <3>1. Same(toChild, toChild', "reply")
      <4>1. \/ toChild' = toChild
            \/ toChild' = Append(toChild, Cmd("ack"))
        BY ONLY <1>1, <1>7
      <4>2. Cmd("ack") \in Up /\ Cmd("ack").kind # "reply"
        BY ONLY <1>4, Carried
      <4>3. Same(toChild, toChild, "reply") /\ Same(toChild, Append(toChild, Cmd("ack")), "reply")
        BY ONLY <1>2, <4>2, SameIs
      <4>. QED  BY ONLY <4>1, <4>3
    <3>2. /\ Once(toApplet', "relay") /\ x \in Slips(toApplet, "relay")
          /\ Slips(toApplet', "relay") = Slips(toApplet, "relay") \ {x}
      BY ONLY <1>1, <1>2, <1>4, <1>5, <1>7, <2>1, SlipsTail DEF Apart
    <3>3. todo' = todo \cup {x}
      BY ONLY <1>1, <1>7
    <3>4. Apart'
      BY ONLY <1>5, <2>1, <3>1, <3>2, <3>3 DEF Apart, Same
    <3>. QED  BY ONLY <3>1, <3>2, <3>3, <3>4, OutIs DEF Same
  <2>. QED  BY ONLY <1>1, <1>5, <1>7, <2>1, Types, Orderly, OutMoves
<1>. QED  BY ONLY <1>3, <1>6, <1>7

\* The applet replies.
LEMMA AppletReplyStep == ASSUME Types, Orderly, NEW r \in todo, AppletReply(r) PROVE Orderly'
<1>. DEFINE m == [kind |-> "reply", slot |-> r.slot, word |-> r.word]
<1>1. /\ todo' = todo \ {r} /\ toChild' = Append(toChild, m)
      /\ UNCHANGED <<sender, answer, fifo, child, slot, held, applet, toApplet>>
  BY ONLY AppletReply(r) DEF AppletReply, ToChild, sVars
<1>2. toChild \in Seq(Up) /\ r \in Slip
  BY DEF Types
<1>3. m \in Up /\ m.kind = "reply" /\ SlipOf(m) = r
  BY <1>2, Carried
<1>. HIDE DEF m
<1>4. (Well' <=> Well) /\ (Well => Apart)
  BY ONLY <1>1, Orderly DEF Well, Orderly
<1>5. Slips(toChild', "reply") = Slips(toChild, "reply") \cup {r}
  BY ONLY <1>1, <1>2, <1>3, SlipsAppend
<1>6. ASSUME Well PROVE Apart' /\ Out' = Out
  <2>1. r \notin Slips(toChild, "reply") /\ r \notin Slips(toApplet, "relay")
    BY ONLY <1>4, <1>6, r \in todo DEF Apart
  <2>2. Once(toChild', "reply")
    BY ONLY <1>1, <1>2, <1>3, <1>4, <1>6, <2>1, SlipsAppend DEF Apart
  <2>3. Apart'
    BY ONLY <1>1, <1>4, <1>5, <1>6, <2>1, <2>2 DEF Apart
  <2>. QED  BY ONLY <1>1, <1>5, <2>3, OutIs, r \in todo
<1>. QED  BY ONLY <1>1, <1>4, <1>6, Types, Orderly, OutMoves

\* The applet leaves, and what it had to answer is lost.
LEMMA AppletLeavesStep == ASSUME Types, Orderly, AppletLeaves PROVE Orderly'
<1>1. /\ todo' = {} /\ applet' = [applet EXCEPT !.at = "left"]
      /\ UNCHANGED <<sender, answer, fifo, child, slot, held, toApplet, toChild>>
  BY ONLY AppletLeaves DEF AppletLeaves, sVars, kVars
<1>2. applet'.at = "left"
  BY ONLY <1>1, Types DEF Types
<1>3. Well' => Well /\ Apart' /\ Out' \subseteq Out
  <2>1. Well' <=> Well
    BY ONLY <1>1 DEF Well
  <2>2. Well => Apart'
    BY ONLY <1>1, Orderly DEF Orderly, Apart
  <2>. QED  BY ONLY <1>1, <2>1, <2>2, OutIs
<1>. QED  BY ONLY <1>1, <1>2, <1>3, Types, Orderly, OutMoves

\* Every step keeps the order.
LEMMA OrderlyStep == Types /\ Orderly /\ [Next]_vars => Orderly'
<1>. SUFFICES ASSUME Types, Orderly, [Next]_vars PROVE Orderly'
  OBVIOUS
<1>1. CASE \/ Accept \/ InitChild \/ ProxySend \/ AnswerAtOnce \/ Ack \/ SendReturns \/ TellFails
           \/ (\E k \in {"send", "tell"} : SendIt(k)) \/ TargetTakes \/ TargetAnswers
           \/ TargetLeaves \/ (\E k \in {"attach", "detach", "ask", "send", "tell"} : AppletAsk(k)) \/ AppletHangs
  <2>1. \A k \in {"attach", "detach", "ask", "send", "tell"} : k \in Asked
    BY DEF Asked
  <2>. QED  BY ONLY <1>1, <2>1, Types, Orderly, QuietStep
<1>2. CASE ChildFifo \/ NameAttach \/ ReplyIt
  BY <1>2, ChildFifoStep, NameAttachStep, ReplyItStep
<1>3. CASE NameDetach \/ SendFails \/ SocketFails \/ AckTimeout
  BY <1>3, EndingStep
<1>4. CASE \E s \in Sender : SenderSend(s) \/ SenderReturn(s)
  BY <1>4, SenderSendStep, SenderReturnStep
<1>5. CASE AppletTake \/ (\E r \in todo : AppletReply(r)) \/ AppletLeaves
  BY <1>5, AppletTakeStep, AppletReplyStep, AppletLeavesStep
<1>6. CASE UNCHANGED vars
  <2>1. UNCHANGED <<sender, answer, fifo, child, slot, held, applet, todo, toChild, toApplet>>
    BY ONLY <1>6 DEF vars, sVars, aVars, kVars
  <2>2. (Well' <=> Well) /\ (Well => Apart') /\ Out' = Out
    BY ONLY <2>1, Orderly, OutIs DEF Well, Orderly, Apart
  <2>. QED  BY ONLY <2>1, <2>2, Types, Orderly, OutMoves
<1>. QED  BY ONLY <1>1, <1>2, <1>3, <1>4, <1>5, <1>6, [Next]_vars DEF Next, ChildStep

-----------------------------------------------------------------------------
(* The types.                                                              *)

\* What the fifos hold when messages are put in and taken out.
LEMMA Carries ==
  ASSUME Types
  PROVE  /\ fifo \in Seq(Post) /\ toChild \in Seq(Up) /\ toApplet \in Seq(Down)
         /\ Append(fifo, Proxy) \in Seq(Post)
         /\ \A s \in Sender : Append(fifo, Message(s)) \in Seq(Post)
         /\ fifo # <<>> => Tail(fifo) \in Seq(Post)
         /\ toChild # <<>> => Tail(toChild) \in Seq(Up)
         /\ \A k \in Asked : Append(toChild, Cmd(k)) \in Seq(Up)
         /\ toApplet # <<>> => Tail(toApplet) \in Seq(Down)
         /\ Append(toApplet, Cmd("answer")) \in Seq(Down)
<1>1. fifo \in Seq(Post) /\ toChild \in Seq(Up) /\ toApplet \in Seq(Down)
  BY DEF Types
<1>2. /\ Proxy \in Post /\ \A s \in Sender : Message(s) \in Post
      /\ \A k \in Asked : Cmd(k) \in Up
      /\ Cmd("answer") \in Down
  BY ONLY Posted, Carried
<1>. QED  BY ONLY <1>1, <1>2, Ends1

\* Steps that leave the senders alone, the slots and what is held.
LEMMA TypesQuiet ==
  ASSUME Types, UNCHANGED <<sender, answer, slot, held>>,
         fifo' \in Seq(Post), toChild' \in Seq(Up), toApplet' \in Seq(Down), todo' \subseteq Slip,
         child' \in [at : {"none", "forked", "up", "send", "tell", "gone", "faulted"},
                     named : BOOLEAN, waiting : BOOLEAN],
         applet' \in [at : {"start", "idle", "asking", "hung", "left"}, asked : 0..MaxAsks],
         target' \in TargetState
  PROVE  Types'
  BY DEF Types

\* An answer is given and the senders of a set are let go.
LEMMA TypesRelease ==
  ASSUME Types, UNCHANGED <<sender, applet, todo>>,
         \A s \in Sender : \/ answer'[s] = answer[s]
                           \/ \E m \in Returned : answer'[s] = Append(answer[s], m),
         answer' = [s \in Sender |-> answer'[s]],
         held' \subseteq Sender /\ IsFiniteSet(held'),
         slot' \in [1..Slots -> Sender \cup {NoOne}],
         fifo' \in Seq(Post), toChild' \in Seq(Up), toApplet' \in Seq(Down),
         child' \in [at : {"none", "forked", "up", "send", "tell", "gone", "faulted"},
                     named : BOOLEAN, waiting : BOOLEAN],
         target' \in TargetState
  PROVE  Types'
<1>1. answer \in [Sender -> Seq(Returned)]
  BY DEF Types
<1>2. ASSUME NEW s \in Sender PROVE answer'[s] \in Seq(Returned)
  <2>1. answer[s] \in Seq(Returned)
    BY ONLY <1>1
  <2>2. CASE answer'[s] = answer[s]
    BY ONLY <2>1, <2>2
  <2>3. CASE \E m \in Returned : answer'[s] = Append(answer[s], m)
    BY ONLY <2>1, <2>3, Ends1
  <2>. QED  BY <2>2, <2>3
<1>3. answer' \in [Sender -> Seq(Returned)]
  BY <1>2
<1>. QED  BY <1>3 DEF Types
\* The child ends.
LEMMA TypesEnd ==
  ASSUME Types, UNCHANGED <<sender, applet, todo>>, UnblockSenders \/ Fault, Blocked \subseteq held,
         toApplet' \in Seq(Down), target' \in TargetState
  PROVE  Types'
<1>1. PICK S \in SUBSET held, at \in {"gone", "faulted"} : Ends(S, at)
  <2>1. CASE UnblockSenders
    BY <2>1 DEF UnblockSenders
  <2>2. CASE Fault
    BY <2>2 DEF Fault
  <2>. QED  BY <2>1, <2>2
<1>2. /\ answer' = [s \in Sender |-> IF s \in S THEN Append(answer[s], Error) ELSE answer[s]]
      /\ held' = held \ S /\ fifo' = <<>> /\ toChild' = <<>>
      /\ slot' = [i \in 1..Slots |-> NoOne]
      /\ child' = [child EXCEPT !.at = at, !.waiting = FALSE]
  BY ONLY <1>1 DEF Ends, Release
<1>3. /\ \A s \in Sender : \/ answer'[s] = answer[s]
                           \/ \E m \in Returned : answer'[s] = Append(answer[s], m)
      /\ answer' = [s \in Sender |-> answer'[s]]
  <2>1. Error \in Returned
    BY DEF Returned
  <2>. QED  BY ONLY <1>2, <2>1
<1>4. held' \subseteq Sender /\ IsFiniteSet(held')
  <2>1. held \subseteq Sender /\ IsFiniteSet(held)
    BY DEF Types
  <2>. QED  BY ONLY <1>2, <2>1, FS_Subset
<1>5. /\ slot' \in [1..Slots -> Sender \cup {NoOne}] /\ fifo' \in Seq(Post) /\ toChild' \in Seq(Up)
  BY ONLY <1>2
<1>6. child' \in [at : {"none", "forked", "up", "send", "tell", "gone", "faulted"},
                 named : BOOLEAN, waiting : BOOLEAN]
  BY ONLY <1>2, Types DEF Types
<1>. QED  BY ONLY <1>3, <1>4, <1>5, <1>6, Types, UNCHANGED <<sender, applet, todo>>, TypesRelease,
             toApplet' \in Seq(Down), target' \in TargetState

\* The child relays a message, or fails to and ends.
LEMMA TypesRelay ==
  ASSUME Types, Orderly, UNCHANGED <<sender, applet, todo, target>>, child.at = "up",
         fifo # <<>>, Head(fifo) # Proxy, Relay(Head(fifo).of) \/ RelayFails(Head(fifo).of)
  PROVE  Types'
<1>. DEFINE s == Head(fifo).of
            i == RememberSender(s)
            m == [kind |-> "relay", slot |-> i, word |-> [of |-> s, n |-> sender[s].n]]
            S == (held \cup Blocked) \ {s}
<1>1. s \in Sender /\ Unanswered(s)
  BY AtHead
<1>2. [of |-> s, n |-> sender[s].n] \in Word
  BY <1>1, WordOf
<1>3. i = None \/ i \in 1..Slots
  BY Remembered
<1>4. i \in 0..Slots
  BY <1>3, TclAssumption DEF None
<1>5. m \in Down
  BY <1>2, <1>4, Carried
<1>6. CASE Relay(s)
  <2>1. /\ toApplet' = Append(toApplet, m) /\ slot' = IF i = None THEN slot ELSE [slot EXCEPT ![i] = s]
        /\ held' = held \cup {s} /\ child' = [child EXCEPT !.waiting = TRUE]
        /\ fifo' = Tail(fifo) /\ UNCHANGED <<answer, toChild>>
    BY <1>6 DEF Relay
  <2>. HIDE DEF s, i, m
  <2>2. toApplet' \in Seq(Down) /\ fifo' \in Seq(Post) /\ toChild' \in Seq(Up)
    <3>1. toApplet \in Seq(Down)
      BY DEF Types
    <3>. QED  BY ONLY <1>5, <2>1, <3>1, Ends1, Types, Carries, fifo # <<>>
  <2>3. slot' \in [1..Slots -> Sender \cup {NoOne}]
    BY ONLY <1>1, <1>3, <2>1, Types DEF Types
  <2>4. held' \subseteq Sender /\ IsFiniteSet(held')
    <3>1. held \subseteq Sender /\ IsFiniteSet(held)
      BY DEF Types
    <3>. QED  BY ONLY <1>1, <2>1, <3>1, FS_AddElement
  <2>5. child' \in [at : {"none", "forked", "up", "send", "tell", "gone", "faulted"},
                 named : BOOLEAN, waiting : BOOLEAN]
    BY ONLY <2>1, Types DEF Types
  <2>6. UNCHANGED <<sender, applet, todo, target, answer>>
    BY <2>1
  <2>. QED  BY ONLY <2>2, <2>3, <2>4, <2>5, <2>6, Types DEF Types
<1>7. CASE RelayFails(s)
  <2>1. /\ answer' = [t \in Sender |-> IF t = s THEN Append(answer[t], Empty)
                                       ELSE IF t \in S THEN Append(answer[t], Error)
                                       ELSE answer[t]]
        /\ held' = {} /\ slot' = [j \in 1..Slots |-> NoOne]
        /\ child' = [child EXCEPT !.at = "gone", !.waiting = FALSE]
        /\ fifo' = <<>> /\ toChild' = <<>> /\ UNCHANGED toApplet
    BY <1>7 DEF RelayFails
  <2>. HIDE DEF s, i, m, S
  <2>2. /\ \A t \in Sender : \/ answer'[t] = answer[t]
                             \/ \E e \in Returned : answer'[t] = Append(answer[t], e)
        /\ answer' = [t \in Sender |-> answer'[t]]
    <3>1. Error \in Returned /\ Empty \in Returned
      BY DEF Returned
    <3>. QED  BY ONLY <2>1, <3>1
  <2>3. held' \subseteq Sender /\ IsFiniteSet(held')
    BY ONLY <2>1, FS_EmptySet
  <2>4. slot' \in [1..Slots -> Sender \cup {NoOne}] /\ fifo' \in Seq(Post) /\ toChild' \in Seq(Up)
    BY ONLY <2>1
  <2>5. child' \in [at : {"none", "forked", "up", "send", "tell", "gone", "faulted"},
                 named : BOOLEAN, waiting : BOOLEAN]
    BY ONLY <2>1, Types DEF Types
  <2>6. /\ toApplet' \in Seq(Down) /\ target' \in TargetState
    BY <2>1 DEF Types
  <2>. QED  BY ONLY <2>2, <2>3, <2>4, <2>5, <2>6, Types, UNCHANGED <<sender, applet, todo, target>>,
               TypesRelease
<1>. QED  BY <1>6, <1>7
\* The child answers a sender, or faults.
LEMMA TypesReply ==
  ASSUME Types, Orderly, ReplyIt
  PROVE  Types'
<1>. DEFINE f == Head(toChild)
            s == IF f.slot = None THEN NoOne ELSE slot[f.slot]
<1>1. /\ child.at = "up" /\ toChild # <<>> /\ f.kind = "reply" /\ Well
      /\ UNCHANGED <<sender, applet, todo, toApplet, target>>
      /\ IF s = NoOne
         THEN Fault
         ELSE /\ answer' = [answer EXCEPT ![s] = Append(@, Reply(f.word))]
              /\ held' = held \ {s} /\ slot' = [slot EXCEPT ![f.slot] = NoOne]
              /\ child' = [child EXCEPT !.waiting = FALSE] /\ toChild' = Tail(toChild)
              /\ UNCHANGED fifo
  BY ONLY ReplyIt DEF ReplyIt, Got, Token, Heard, ForgetSender, Well, aVars
<1>2. /\ toApplet' \in Seq(Down) /\ target' \in TargetState
  BY <1>1 DEF Types
<1>3. f.word \in Word
  <2>1. toChild \in Seq(Up)
    BY DEF Types
  <2>2. f \in Up
    BY <1>1, <2>1, Ends1
  <2>. QED  BY <1>1, <2>2, Carried
<1>. HIDE DEF f, s
<1>4. CASE s = NoOne
  BY ONLY <1>1, <1>2, <1>4, Types, Orderly, BlockedAreHeld, TypesEnd
<1>5. CASE s # NoOne
  <2>1. /\ answer' = [answer EXCEPT ![s] = Append(@, Reply(f.word))]
        /\ held' = held \ {s} /\ slot' = [slot EXCEPT ![f.slot] = NoOne]
        /\ child' = [child EXCEPT !.waiting = FALSE] /\ toChild' = Tail(toChild)
        /\ UNCHANGED <<fifo, sender, applet, todo>> /\ toChild # <<>>
    BY ONLY <1>1, <1>5
  <2>2. Reply(f.word) \in Returned /\ DOMAIN answer = Sender
    BY <1>3 DEF Returned, Types
  <2>3. /\ \A t \in Sender : \/ answer'[t] = answer[t]
                             \/ \E e \in Returned : answer'[t] = Append(answer[t], e)
        /\ answer' = [t \in Sender |-> answer'[t]]
    BY ONLY <2>1, <2>2
  <2>4. held' \subseteq Sender /\ IsFiniteSet(held')
    <3>1. held \subseteq Sender /\ IsFiniteSet(held)
      BY DEF Types
    <3>. QED  BY ONLY <2>1, <3>1, FS_Subset
  <2>5. slot' \in [1..Slots -> Sender \cup {NoOne}]
    BY ONLY <2>1, Types DEF Types
  <2>6. child' \in [at : {"none", "forked", "up", "send", "tell", "gone", "faulted"},
                 named : BOOLEAN, waiting : BOOLEAN]
    BY ONLY <2>1, Types DEF Types
  <2>7. fifo' \in Seq(Post) /\ toChild' \in Seq(Up)
    BY ONLY <2>1, Types, Carries
  <2>. QED  BY ONLY <1>2, <2>1, <2>3, <2>4, <2>5, <2>6, <2>7, Types, TypesRelease
<1>. QED  BY <1>4, <1>5

\* Every step keeps the types.
LEMMA TypesStep == Types /\ Orderly /\ [Next]_vars => Types'
<1>. SUFFICES ASSUME Types, Orderly, [Next]_vars PROVE Types'
  OBVIOUS
<1>. DEFINE ChildType == [at : {"none", "forked", "up", "send", "tell", "gone", "faulted"},
                          named : BOOLEAN, waiting : BOOLEAN]
            AppletType == [at : {"start", "idle", "asking", "hung", "left"}, asked : 0..MaxAsks]
            TargetType == TargetState
<1>1. child \in ChildType /\ applet \in AppletType /\ target \in TargetType /\ todo \subseteq Slip
  BY DEF Types
<1>2. Well => Blocked \subseteq held
  BY BlockedAreHeld
<1>3. /\ fifo \in Seq(Post) /\ toChild \in Seq(Up) /\ toApplet \in Seq(Down)
      /\ fifo # <<>> => Tail(fifo) \in Seq(Post)
      /\ toChild # <<>> => Tail(toChild) \in Seq(Up)
      /\ toApplet # <<>> => Tail(toApplet) \in Seq(Down)
      /\ Append(toApplet, Cmd("answer")) \in Seq(Down)
      /\ Append(fifo, Proxy) \in Seq(Post)
  BY Carries
<1>4. \A k \in Asked : Append(toChild, Cmd(k)) \in Seq(Up)
  BY Carries
<1>5. CASE \E s \in Sender : SenderSend(s)
  <2>1. PICK s \in Sender : SenderSend(s)
    BY <1>5
  <2>2. sender' \in [Sender -> [at : {"idle", "waiting", "refused"}, n : 0..MaxSends]]
    <3>1. sender[s].n \in 0..MaxSends /\ sender[s].n < MaxSends
      BY ONLY <2>1, Types DEF SenderSend, Types
    <3>2. sender[s].n + 1 \in 0..MaxSends
      BY ONLY <3>1, TclAssumption
    <3>. DEFINE n == sender[s].n
                m == sender[s].n + 1
    <3>3. \/ sender' = [sender EXCEPT ![s] = [at |-> "waiting", n |-> m]]
          \/ sender' = [sender EXCEPT ![s].at = "refused"]
      BY ONLY <2>1 DEF SenderSend
    <3>. HIDE DEF n, m
    <3>4. m \in 0..MaxSends
      BY <3>2 DEF m
    <3>5. \A t \in Sender : sender[t] \in [at : {"idle", "waiting", "refused"}, n : 0..MaxSends]
      BY DEF Types
    <3>6. CASE sender' = [sender EXCEPT ![s] = [at |-> "waiting", n |-> m]]
      BY ONLY <3>4, <3>6, Types DEF Types
    <3>7. CASE sender' = [sender EXCEPT ![s].at = "refused"]
      <4>1. [sender[s] EXCEPT !.at = "refused"]
              \in [at : {"idle", "waiting", "refused"}, n : 0..MaxSends]
        BY ONLY <3>5
      <4>2. sender' = [sender EXCEPT ![s] = [sender[s] EXCEPT !.at = "refused"]]
        BY ONLY <3>7
      <4>. QED  BY ONLY <4>1, <4>2, Types DEF Types
    <3>. QED  BY ONLY <3>3, <3>6, <3>7
  <2>3. fifo' \in Seq(Post)
    <3>1. fifo' = fifo \/ fifo' = Append(fifo, Message(s))
      BY ONLY <2>1 DEF SenderSend, Message
    <3>. QED  BY ONLY <3>1, Types, Carries
  <2>. QED  BY ONLY <2>1, <2>2, <2>3, Types DEF SenderSend, Types, aVars, kVars
<1>6. CASE \E s \in Sender : SenderReturn(s)
  <2>1. PICK s \in Sender : SenderReturn(s)
    BY <1>6
  <2>2. sender' \in [Sender -> [at : {"idle", "waiting", "refused"}, n : 0..MaxSends]]
    BY ONLY <2>1, Types DEF SenderReturn, Types
  <2>3. answer' \in [Sender -> Seq(Returned)]
    BY ONLY <2>1, Types DEF SenderReturn, Types
  <2>. QED  BY ONLY <2>1, <2>2, <2>3, Types DEF SenderReturn, Types, aVars, kVars
<1>7. CASE \/ Accept \/ InitChild \/ ProxySend \/ TargetTakes \/ TargetAnswers \/ TargetLeaves
           \/ AppletHangs
  <2>1. UNCHANGED <<sender, answer, slot, held, todo, toChild, toApplet>>
    BY ONLY <1>7 DEF Accept, InitChild, ProxySend, TargetTakes, TargetAnswers, TargetLeaves,
                     AppletHangs, sVars, aVars, kVars
  <2>2. fifo' = fifo \/ fifo' = Append(fifo, Proxy)
    BY ONLY <1>7 DEF Accept, InitChild, ProxySend, TargetTakes, TargetAnswers, TargetLeaves,
                     AppletHangs
  <2>3. child' \in ChildType
    BY ONLY <1>1, <1>7 DEF Accept, InitChild, ProxySend, TargetTakes, TargetAnswers, TargetLeaves,
                     AppletHangs
  <2>4. applet' \in AppletType
    BY ONLY <1>1, <1>7 DEF Accept, InitChild, ProxySend, TargetTakes, TargetAnswers, TargetLeaves,
                           AppletHangs, aVars
  <2>5. target' \in TargetType
    BY ONLY <1>1, <1>7 DEF Accept, InitChild, ProxySend, TargetTakes, TargetAnswers, TargetLeaves,
                           AppletHangs, TargetState
  <2>. QED  BY ONLY <1>1, <1>3, <2>1, <2>2, <2>3, <2>4, <2>5, Types, TypesQuiet
<1>8. CASE \/ AnswerAtOnce \/ Ack \/ (\E k \in {"send", "tell"} : SendIt(k))
           \/ SendReturns \/ TellFails
  <2>1. UNCHANGED <<sender, answer, fifo, slot, held, applet, todo>>
    BY ONLY <1>8 DEF AnswerAtOnce, Ack, SendIt, SendReturns, TellFails, sVars, aVars
  <2>2. toChild' = toChild \/ (toChild # <<>> /\ toChild' = Tail(toChild))
    BY ONLY <1>8 DEF AnswerAtOnce, Ack, SendIt, SendReturns, TellFails,
                     Got, Token, Heard
  <2>3. toApplet' = toApplet \/ toApplet' = Append(toApplet, Cmd("answer"))
    BY ONLY <1>8 DEF AnswerAtOnce, Ack, SendIt, SendReturns, TellFails, ToApplet
  <2>4. child' \in ChildType
    BY ONLY <1>1, <1>8 DEF AnswerAtOnce, Ack, SendIt, SendReturns, TellFails, Heard
  <2>5. target' \in TargetType
    BY ONLY <1>1, <1>8 DEF AnswerAtOnce, Ack, SendIt, SendReturns, TellFails, TargetState
  <2>. QED  BY ONLY <1>1, <1>3, <2>1, <2>2, <2>3, <2>4, <2>5, Types, TypesQuiet
<1>9. CASE \/ NameDetach \/ SendFails \/ SocketFails \/ AckTimeout \/ (NameAttach /\ UnblockSenders)
  <2>1. UNCHANGED <<sender, applet, todo>> /\ Well
    BY ONLY <1>9 DEF NameDetach, SendFails, SocketFails, AckTimeout, NameAttach, Got, Token, aVars,
                     Well
  <2>2. UnblockSenders \/ Fault
    BY ONLY <1>9 DEF NameDetach, SendFails, SocketFails, AckTimeout
  <2>3. toApplet' = toApplet \/ toApplet' = Append(toApplet, Cmd("answer"))
    BY ONLY <1>9 DEF NameDetach, SendFails, SocketFails, AckTimeout, NameAttach, ToApplet
  <2>4. target' \in TargetType
    BY ONLY <1>1, <1>9 DEF NameDetach, SendFails, SocketFails, AckTimeout, NameAttach,
                           TargetState
  <2>. QED  BY ONLY <1>2, <1>3, <2>1, <2>2, <2>3, <2>4, Types, TypesEnd
<1>10. CASE ChildFifo
  <2>1. /\ child.at = "up" /\ fifo # <<>> /\ Well /\ UNCHANGED <<sender, applet, todo, target>>
        /\ \/ Fault /\ UNCHANGED toApplet
           \/ Head(fifo) # Proxy /\ (Relay(Head(fifo).of) \/ RelayFails(Head(fifo).of))
    BY ONLY <1>10 DEF ChildFifo, Well, aVars
  <2>2. CASE Fault /\ UNCHANGED toApplet
    BY ONLY <1>1, <1>2, <1>3, <2>1, <2>2, Types, TypesEnd
  <2>3. CASE Head(fifo) # Proxy /\ (Relay(Head(fifo).of) \/ RelayFails(Head(fifo).of))
    BY ONLY <2>1, <2>3, Types, Orderly, TypesRelay
  <2>. QED  BY ONLY <2>1, <2>2, <2>3
<1>11. CASE ReplyIt
  BY <1>11, TypesReply
<1>12. CASE \E k \in {"attach", "detach", "ask", "send", "tell"} : AppletAsk(k)
  <2>1. PICK k \in {"attach", "detach", "ask", "send", "tell"} : AppletAsk(k)
    BY <1>12
  <2>2. toChild' \in Seq(Up)
    <3>1. k \in Asked
      BY DEF Asked
    <3>. QED  BY ONLY <1>4, <2>1, <3>1 DEF AppletAsk, ToChild
  <2>3. applet' \in AppletType
    BY ONLY <1>1, <2>1, TclAssumption DEF AppletAsk
  <2>4. UNCHANGED <<sender, answer, fifo, child, slot, held, todo, toApplet, target>>
    BY ONLY <2>1 DEF AppletAsk, sVars
  <2>. QED  BY ONLY <1>1, <1>3, <2>2, <2>3, <2>4, Types, TypesQuiet
<1>13. CASE AppletTake
  <2>1. /\ toApplet # <<>> /\ toApplet' = Tail(toApplet)
        /\ UNCHANGED <<sender, answer, fifo, child, slot, held, target>>
        /\ \/ /\ Head(toApplet).kind = "answer" /\ applet' = [applet EXCEPT !.at = "idle"]
              /\ UNCHANGED <<todo, toChild>>
           \/ /\ Head(toApplet).kind # "answer" /\ UNCHANGED applet
              /\ todo' = todo \cup {SlipOf(Head(toApplet))}
              /\ toChild' = toChild \/ toChild' = Append(toChild, Cmd("ack"))
    BY ONLY <1>13 DEF AppletTake, ToChild, SlipOf, sVars
  <2>2. todo' \subseteq Slip
    <3>1. Head(toApplet) \in Down
      BY ONLY <1>3, <2>1, Ends1
    <3>2. Head(toApplet).kind # "answer" => SlipOf(Head(toApplet)) \in Slip
      BY ONLY <3>1, Carried
    <3>. QED  BY ONLY <1>1, <2>1, <3>2
  <2>3. toChild' \in Seq(Up)
    <3>1. "ack" \in Asked
      BY DEF Asked
    <3>. QED  BY ONLY <1>3, <1>4, <2>1, <3>1
  <2>4. applet' \in AppletType
    BY ONLY <1>1, <2>1
  <2>. QED  BY ONLY <1>1, <1>3, <2>1, <2>2, <2>3, <2>4, Types, TypesQuiet
<1>14. CASE \E r \in todo : AppletReply(r)
  <2>1. PICK r \in todo : AppletReply(r)
    BY <1>14
  <2>2. /\ todo' = todo \ {r}
        /\ toChild' = Append(toChild, [kind |-> "reply", slot |-> r.slot, word |-> r.word])
        /\ UNCHANGED <<sender, answer, fifo, child, slot, held, applet, toApplet, target>>
    BY ONLY <2>1 DEF AppletReply, ToChild, sVars
  <2>3. toChild' \in Seq(Up)
    <3>1. [kind |-> "reply", slot |-> r.slot, word |-> r.word] \in Up
      BY <1>1, Carried
    <3>. QED  BY ONLY <1>3, <2>2, <3>1, Ends1
  <2>4. todo' \subseteq Slip
    BY ONLY <1>1, <2>2
  <2>. QED  BY ONLY <1>1, <1>3, <2>2, <2>3, <2>4, Types, TypesQuiet
<1>15. CASE AppletLeaves
  <2>1. /\ todo' = {} /\ applet' = [applet EXCEPT !.at = "left"]
        /\ UNCHANGED <<sender, answer, fifo, child, slot, held, toApplet, toChild, target>>
    BY ONLY <1>15 DEF AppletLeaves, sVars, kVars
  <2>2. todo' \subseteq Slip /\ applet' \in AppletType
    BY ONLY <1>1, <2>1
  <2>. QED  BY ONLY <1>1, <1>3, <2>1, <2>2, Types, TypesQuiet
<1>16. CASE UNCHANGED vars
  <2>1. UNCHANGED <<sender, answer, fifo, child, slot, held, applet, todo, toChild, toApplet, target>>
    BY ONLY <1>16 DEF vars, sVars, aVars, kVars
  <2>. QED  BY ONLY <1>1, <1>3, <2>1, Types, TypesQuiet
<1>17. CASE NameAttach /\ ~ UnblockSenders
  <2>1. /\ UNCHANGED <<sender, answer, fifo, slot, held, applet, todo, target>>
        /\ toChild # <<>> /\ toChild' = Tail(toChild)
        /\ toApplet' = Append(toApplet, Cmd("answer"))
        /\ child' = [[child EXCEPT !.named = TRUE] EXCEPT !.waiting = FALSE]
    BY ONLY <1>17 DEF NameAttach, Got, Token, Heard, ToApplet, aVars
  <2>2. child' \in ChildType
    BY ONLY <1>1, <2>1
  <2>. QED  BY ONLY <1>1, <1>3, <2>1, <2>2, Types, TypesQuiet
<1>. QED
  BY ONLY <1>17, <1>5, <1>6, <1>7, <1>8, <1>9, <1>10, <1>11, <1>12, <1>13, <1>14, <1>15, <1>16,
          [Next]_vars DEF Next, ChildStep

-----------------------------------------------------------------------------
(* The start, and the theorems.                                            *)

\* The invariant holds at the start.
LEMMA AtStart == Init => Types /\ Orderly
<1>. SUFFICES ASSUME Init PROVE Types /\ Orderly
  OBVIOUS
<1>1. IsFiniteSet({})
  BY FS_EmptySet
<1>2. 0 \in 0..MaxSends /\ 0 \in 0..MaxAsks
  BY TclAssumption
<1>3. Types
  BY ONLY <1>1, <1>2, Init DEF Init, Types, TargetState
<1>4. Out = {}
  <2>1. toApplet = <<>> /\ toChild = <<>> /\ todo = {}
    BY DEF Init
  <2>. QED  BY ONLY <2>1, OutIs, SlipsNone
<1>5. Waiters /\ EndToEnd
  <2>1. held = {} /\ fifo = <<>> /\ \A s \in Sender : answer[s] = <<>>
    BY DEF Init
  <2>. QED  BY ONLY <2>1 DEF Waiters, EndToEnd
<1>6. Table /\ Complete
  <2>1. held = {} /\ \A i \in 1..Slots : slot[i] = NoOne
    BY DEF Init
  <2>. QED  BY ONLY <2>1 DEF Table, Complete
<1>7. Apart
  <2>1. toApplet = <<>> /\ toChild = <<>> /\ todo = {}
    BY DEF Init
  <2>. QED  BY ONLY <2>1, SlipsNone DEF Apart
<1>8. Single /\ Current
  BY ONLY <1>4 DEF Single, Current
<1>. QED  BY ONLY <1>3, <1>5, <1>6, <1>7, <1>8 DEF Orderly

\* What every reachable state satisfies.
THEOREM Invariant == Spec => []IInv
<1>1. Init => IInv
  BY AtStart DEF IInv
<1>2. IInv /\ [Next]_vars => IInv'
  BY TypesStep, OrderlyStep DEF IInv
<1>. QED  BY <1>1, <1>2, PTL DEF Spec

\* What a run checks is the types and EndToEnd.
LEMMA TypesGive == IInv => TypeOK /\ EndToEnd
<1>. SUFFICES ASSUME IInv PROVE TypeOK /\ EndToEnd
  OBVIOUS
<1>1. Types /\ EndToEnd
  BY ONLY IInv DEF IInv, Orderly
<1>2. \A s \in Sender : Len(answer[s]) <= 1
  <2>1. ASSUME NEW s \in Sender PROVE Len(answer[s]) <= 1
    <3>1. CASE answer[s] = <<>>
      BY ONLY <3>1
    <3>2. CASE answer[s] # <<>>
      <4>1. Len(answer[s]) = 1
        BY ONLY <1>1, <3>2 DEF EndToEnd
      <4>. QED  BY ONLY <4>1
    <3>. QED  BY ONLY <3>1, <3>2
  <2>. QED  BY <2>1
<1>3. \A r \in todo : r.slot \in 0..Slots /\ r.word \in Word
  BY ONLY <1>1 DEF Types, Slip
<1>. QED  BY ONLY <1>1, <1>2, <1>3 DEF Types, TypeOK

\* Two sets have the same number of elements if f pairs them off.
LEMMA SameNumber ==
  ASSUME NEW S, NEW T, IsFiniteSet(S), NEW f \in [S -> T],
         \A s, u \in S : f[s] = f[u] => s = u, \A t \in T : \E s \in S : f[s] = t
  PROVE  Cardinality(T) = Cardinality(S)
<1>1. f \in Bijection(S, T)
  BY DEF Bijection, Injection, Surjection, IsInjective
<1>2. ExistsBijection(S, T)
  BY ONLY <1>1 DEF ExistsBijection
<1>. QED  BY ONLY <1>2, IsFiniteSet(S), FS_Bijection

\* The senders that are out are those held, one message each, and the slots in use
\* those under which one is out.
LEMMA OutCounts ==
  ASSUME Types, Single, Current, Complete
  PROVE  /\ {r.word.of : r \in Out} = held /\ Cardinality(Out) = Cardinality(held)
         /\ Cardinality({i \in 1..Slots : slot[i] # NoOne}) =
                Cardinality({r \in Out : r.slot # None})
<1>1. {r.word.of : r \in Out} = held
  BY ONLY Current, Complete DEF Current, Complete
<1>2. Cardinality(Out) = Cardinality(held)
  <2>. DEFINE f == [s \in held |-> CHOOSE r \in Out : r.word.of = s]
  <2>1. ASSUME NEW s \in held PROVE f[s] \in Out /\ f[s].word.of = s
    <3>1. \E r \in Out : r.word.of = s
      BY ONLY Complete DEF Complete
    <3>. QED  BY ONLY <3>1
  <2>2. f \in [held -> Out]
    BY <2>1
  <2>. HIDE DEF f
  <2>3. \A s, u \in held : f[s] = f[u] => s = u
    BY ONLY <2>1
  <2>4. ASSUME NEW r \in Out PROVE \E s \in held : f[s] = r
    <3>1. r.word.of \in held
      BY ONLY Current DEF Current
    <3>2. f[r.word.of] = r
      BY ONLY <2>1, <3>1, Single DEF Single
    <3>. QED  BY ONLY <3>1, <3>2
  <2>5. IsFiniteSet(held)
    BY DEF Types
  <2>. QED  BY ONLY <2>2, <2>3, <2>4, <2>5, SameNumber
<1>3. Cardinality({i \in 1..Slots : slot[i] # NoOne}) = Cardinality({r \in Out : r.slot # None})
  <2>. DEFINE S == {i \in 1..Slots : slot[i] # NoOne}
              T == {r \in Out : r.slot # None}
              f == [i \in S |-> CHOOSE r \in Out : r.slot = i]
  <2>1. ASSUME NEW i \in S PROVE f[i] \in T /\ f[i].slot = i
    <3>1. \E r \in Out : r.slot = i
      BY ONLY Complete DEF Complete
    <3>2. i # None
      BY TclAssumption DEF None
    <3>. QED  BY ONLY <3>1, <3>2
  <2>2. f \in [S -> T]
    BY <2>1
  <2>. HIDE DEF f
  <2>3. \A i, j \in S : f[i] = f[j] => i = j
    BY ONLY <2>1
  <2>4. ASSUME NEW r \in T PROVE \E i \in S : f[i] = r
    <3>1. r \in Out /\ r.slot # None /\ slot[r.slot] = r.word.of /\ r.word.of \in held
      BY ONLY Current DEF Current
    <3>2. r.slot \in 1..Slots
      <4>1. r \in Slip
        BY ONLY <3>1, Types, OutInSlip
      <4>. QED  BY ONLY <3>1, <4>1, TclAssumption DEF Slip, None
    <3>3. r.word.of # NoOne
      BY ONLY <3>1, TclAssumption, Types DEF Types
    <3>4. r.slot \in S
      BY ONLY <3>1, <3>2, <3>3
    <3>5. f[r.slot] \in Out /\ f[r.slot].slot = r.slot
      BY ONLY <2>1, <3>4
    <3>6. f[r.slot].word.of = r.word.of
      BY ONLY <3>1, <3>5, Current DEF Current
    <3>. QED  BY ONLY <3>1, <3>4, <3>5, <3>6, Single DEF Single
  <2>5. IsFiniteSet(S)
    <3>1. IsFiniteSet(1..Slots)
      BY TclAssumption, FS_Interval
    <3>. QED  BY <3>1, FS_Subset
  <2>. HIDE DEF S, T
  <2>6. Cardinality(T) = Cardinality(S)
    BY ONLY <2>2, <2>3, <2>4, <2>5, SameNumber
  <2>. QED  BY ONLY <2>6 DEF S, T
<1>. QED  BY ONLY <1>1, <1>2, <1>3

\* While the child and the applet run, that is what HeldIsOut says.
LEMMA InvariantGives == IInv => HeldIsOut
<1>. SUFFICES ASSUME IInv, Living, applet.at # "left" PROVE HeldIsOut
  BY DEF HeldIsOut
<1>1. Well
  BY DEF Living, Well
<1>2. Types /\ Single /\ Current /\ Complete
  BY ONLY <1>1, IInv, applet.at # "left" DEF IInv, Orderly
<1>. QED  BY ONLY <1>2, OutCounts DEF HeldIsOut, Current

\* The types, and no reply fifo with more than one answer.
THEOREM TypeCorrect == Spec => []TypeOK
<1>1. IInv => TypeOK
  BY TypesGive
<1>. QED  BY <1>1, Invariant, PTL

\* Nobody gets the applet's answer to another message or to somebody else's, whatever
\* slots were used in between and however the child ends.
THEOREM EndToEndHolds == Spec => []EndToEnd
<1>1. IInv => EndToEnd
  BY TypesGive
<1>. QED  BY <1>1, Invariant, PTL

\* While the child and the applet run, each sender received is on its way to the applet,
\* with it or in an answer, once and under the slot that has it, for every number of
\* senders and of slots.
THEOREM HeldIsOutHolds == Spec => []HeldIsOut
<1>1. IInv => HeldIsOut
  BY InvariantGives
<1>. QED  BY <1>1, Invariant, PTL
=============================================================================
