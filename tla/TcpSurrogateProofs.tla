------------------------- MODULE TcpSurrogateProofs -------------------------
(***************************************************************************)
(* Proofs about TcpSurrogate.                                              *)
(***************************************************************************)
EXTENDS TcpSurrogate, FifoLemmas

\* The type invariant, variable by variable.
Types ==
    /\ prompt \in BOOLEAN /\ link \in {"up", "cut"}
    /\ client \in {"start", "locating", "idle", "sending", "refused", "closing",
                   "exited", "killed"}
    /\ r \in {"attached", "locating", "up", "hung", "faulted", "gone", "killed"}
    /\ s \in {"none", "forked", "up", "gone", "killed"}
    /\ receiver \in {"up", "gone", "killed"}
    /\ answer \in Seq(Message) /\ rfifo \in Seq(Message) /\ yfifo \in Seq(Message)
    /\ toS \in Seq(Message) /\ toR \in Seq(Message) /\ vfifo \in Seq(Message)
    /\ holds \in BOOLEAN
    /\ rMissed \in 0..Limit /\ sMissed \in 0..Limit /\ lead \in Nat
    /\ asked \in Nat /\ kicked \in Nat /\ taken \in Nat
    /\ sent \in Seq(Nat) /\ got \in Seq(Nat)

\* The kinds RequestKind counts, and one of them at a time.
RequestKind == {"send", "reply", "error"}
Sends(q) == Count(q, {"send"})
Replies(q) == Count(q, {"reply"})

Held == IF holds THEN 1 ELSE 0
Working == IF taken # 0 THEN 1 ELSE 0

\* Numbers tell requests from proxies; proxies and requests alone get through to
\* the receiver, and replies and errors alone come back.
Formed(q) ==
    \A m \in ToSet(q) : /\ m.kind = "send" => m.n # 0
                        /\ m.kind = "proxy" => m.n = 0
Forms ==
    /\ Formed(rfifo) /\ Formed(toS) /\ Formed(vfifo)
    /\ \A m \in ToSet(vfifo) : Carrier(m)
    /\ \A m \in ToSet(yfifo) : m.kind \in {"reply", "error"}
    /\ s \in {"none", "forked", "up"} => \A m \in ToSet(toR) : m.kind # "error"

\* How far the two surrogates are with setting up the conduit.
Stages ==
    /\ s \in {"none", "forked"} => r # "up" /\ toR = <<>>
    /\ s = "none" => \A m \in ToSet(toS) : m.kind = "locate"
    /\ r \in {"attached", "locating"} =>
          /\ client \notin {"idle", "sending", "refused"} /\ answer = <<>>
          /\ Sends(rfifo) = 0 /\ Replies(toR) = 0 /\ InTransit = 0
          /\ \A m \in ToSet(toS) : m.kind = "locate"
    /\ r = "hung" => client \in {"closing", "exited", "killed"}
    /\ client = "start" => r # "up"
    /\ receiver # "up" => vfifo = <<>> /\ taken = 0

\* The client has one request out at most, and one answer waiting.
OneOut ==
    /\ Len(answer) <= 1
    /\ client \notin {"locating", "sending"} => answer = <<>>
    /\ r = "up" => /\ Sends(rfifo) + Held + Len(answer) <= 1
                   /\ client \in {"start", "idle", "refused"} => Sends(rfifo) = 0 /\ ~ holds

\* The client that r holds has a request or an answer on its way at most, and
\* none is on its way otherwise.
Transit ==
    /\ r = "up" => Replies(toR) <= Held
    /\ r = "up" /\ s = "up" => InTransit <= Held
    /\ HeldIsInTransit

\* All messages of kind k in q are about request n.
About(q, k, n) == \A m \in ToSet(q) : m.kind = k => m.n = n

\* Everything that is on its way is about the client's current request, and what
\* comes back was received before.
Current ==
    /\ r = "up" =>
          /\ About(rfifo, "send", asked) /\ About(toR, "reply", asked)
          /\ s = "up" => /\ About(toS, "send", asked) /\ About(vfifo, "send", asked)
                         /\ About(yfifo, "reply", asked)
                         /\ taken # 0 => taken = asked
    /\ client = "sending" => About(answer, "reply", asked)

Answered(q) == \A m \in ToSet(q) : m.kind = "reply" => Contains(got, m.n)
Received ==
    /\ Answered(yfifo) /\ Answered(toR) /\ Answered(answer)
    /\ taken # 0 => Contains(got, taken)

\* The contents that are past surrogate_r's fifo, and past the connection.
Flow(k, l) ==
    /\ Carries(vfifo, sent, Len(got), k) /\ Carries(toS, sent, k, l)
    /\ r \in {"attached", "locating", "up"} => Carries(rfifo, sent, l, Len(sent))

\* What the receiver has got is a beginning of what the client sent, and as long
\* as the way is whole the rest of it is on the way, in order.
Stream ==
    /\ Len(got) <= Len(sent) /\ \A i \in 1..Len(got) : got[i] = sent[i]
    /\ receiver = "up" /\ s \notin {"gone", "killed"} =>
          \E k, l \in 0..Len(sent) : Flow(k, l)

\* All but the types and the stream.
Orderly == Forms /\ Stages /\ OneOut /\ Transit /\ Current /\ Received

\* What every reachable state satisfies.
IInv == Types /\ Orderly /\ Stream

-----------------------------------------------------------------------------
(* Types.                                                                  *)

\* The conjuncts of the type invariant.
LEMMA TypesAre == Types <=> TypeOK
  BY DEF Types, TypeOK

\* What goes in and out of a fifo.
LEMMA MessageType ==
  /\ Msg("locate") \in Message /\ Msg("found") \in Message /\ Msg("absent") \in Message
  /\ Msg("proxy") \in Message /\ Msg("alive") \in Message /\ Msg("error") \in Message
  /\ Msg("close") \in Message
  /\ \A m \in Message : m.n \in Nat
  /\ \A n \in Nat : /\ [kind |-> "send", n |-> n] \in Message
                    /\ [kind |-> "reply", n |-> n] \in Message
  /\ \A m \in Message : [m EXCEPT !.kind = "reply"] \in Message
  BY DEF Message, Msg, Kind

\* A fifo stays one.
LEMMA FifoType ==
  ASSUME NEW q \in Seq(Message)
  PROVE  /\ \A m \in Message : Append(q, m) \in Seq(Message)
         /\ q # <<>> => Head(q) \in Message /\ Tail(q) \in Seq(Message)
  OBVIOUS

\* Every step keeps the types.
LEMMA TypesStep == Types /\ [Next]_vars => Types'
<1>. SUFFICES ASSUME Types, [Next]_vars PROVE Types'
  OBVIOUS
<1>. USE BoundsAssumption, MessageType, FifoType DEF Types, cVars, rVars, sVars, vVars
<1>1. CASE Locate
  BY <1>1 DEF Locate, RClosed, ROpen
<1>2. CASE ClientSend
  <2>1. asked + 1 \in Nat /\ asked' = asked + 1
    BY ONLY <1>2, Types DEF ClientSend, Types
  <2>2. sent' \in Seq(Nat)
    <3>1. sent' = sent \/ sent' = Append(sent, asked + 1)
      BY <1>2 DEF ClientSend
    <3>2. \A w \in Seq(Nat), n \in Nat : Append(w, n) \in Seq(Nat)
      OBVIOUS
    <3>. QED  BY ONLY <3>1, <3>2, <2>1, Types DEF Types
  <2>3. rfifo' \in Seq(Message)
    <3>1. [kind |-> "send", n |-> asked + 1] \in Message
      BY <2>1
    <3>. QED  BY <1>2, <3>1 DEF ClientSend
  <2>. QED  BY <1>2, <2>1, <2>2, <2>3 DEF ClientSend, RClosed, ROpen
<1>3. CASE ClientTrigger
  <2>1. kicked' \in Nat /\ sent' \in Seq(Nat)
    BY ONLY <1>3, Types DEF ClientTrigger, RClosed, ROpen, Types
  <2>. QED  BY <1>3, <2>1 DEF ClientTrigger, RClosed, ROpen
<1>4. CASE ClientReturn
  BY <1>4 DEF ClientReturn
<1>5. CASE ClientExit
  BY <1>5 DEF ClientExit, RClosed, ROpen
<1>6. CASE ClientRemove
  BY <1>6 DEF ClientRemove
<1>7. CASE ClientKill
  BY <1>7 DEF ClientKill
<1>8. CASE RLocate
  <2>1. /\ rfifo # <<>>
        /\ rfifo' = Tail(rfifo)
        /\ toS' \in {toS, Append(toS, Msg("locate"))}
        /\ answer' \in {answer, Append(answer, Msg("absent"))}
    BY ONLY <1>8 DEF RLocate, RLoses, RTakes, Tell, RAnswer, RWrites, ClientGone
  <2>2. rfifo' \in Seq(Message) /\ toS' \in Seq(Message) /\ answer' \in Seq(Message)
    BY ONLY <2>1, Types, MessageType, FifoType DEF Types
  <2>3. /\ r' \in {"attached", "locating", "up", "hung", "faulted", "gone", "killed"}
        /\ holds' \in BOOLEAN
    BY ONLY <1>8, Types DEF Types, RLocate, RLoses, RTakes, Tell, RAnswer, RWrites,
                            ClientGone
  <2>4. UNCHANGED <<prompt, client, asked, kicked, sent, rMissed, s, yfifo, sMissed, lead,
                    toR, link, receiver, vfifo, taken, got>>
    BY ONLY <1>8 DEF RLocate, RLoses, RTakes, Tell, RAnswer, RWrites, ClientGone, cVars,
                     rVars, sVars, vVars
  <2>. QED  BY ONLY <2>2, <2>3, <2>4, Types DEF Types
<1>9. CASE RLocated
  <2>1. \/ /\ toR # <<>> /\ toR' = Tail(toR)
           /\ answer' \in {answer, Append(answer, Head(toR))}
        \/ toR' = toR /\ answer' \in {answer, Append(answer, Msg("absent"))}
    BY ONLY <1>9 DEF RLocated, Tell, RAnswer
  <2>2. toR' \in Seq(Message) /\ answer' \in Seq(Message)
    BY ONLY <2>1, Types, MessageType, FifoType DEF Types
  <2>3. /\ r' \in {"attached", "locating", "up", "hung", "faulted", "gone", "killed"}
        /\ holds' \in BOOLEAN
    BY ONLY <1>9, Types DEF Types, RLocated, Tell, RAnswer
  <2>4. UNCHANGED <<prompt, client, asked, kicked, sent, rfifo, rMissed, s, yfifo, sMissed,
                    lead, toS, link, receiver, vfifo, taken, got>>
    BY ONLY <1>9 DEF RLocated, Tell, RAnswer, cVars, rVars, sVars, vVars
  <2>. QED  BY ONLY <2>2, <2>3, <2>4, Types DEF Types
<1>10. CASE RLocateTimeout
  <2>1. answer' \in {answer, Append(answer, Msg("absent"))}
    BY ONLY <1>10 DEF RLocateTimeout, Tell, RAnswer
  <2>2. answer' \in Seq(Message)
    BY ONLY <2>1, Types, MessageType, FifoType DEF Types
  <2>3. /\ r' \in {"attached", "locating", "up", "hung", "faulted", "gone", "killed"}
        /\ holds' \in BOOLEAN
    BY ONLY <1>10, Types DEF Types, RLocateTimeout, Tell, RAnswer
  <2>4. UNCHANGED <<prompt, client, asked, kicked, sent, rfifo, rMissed, s, yfifo, sMissed,
                    lead, toS, toR, link, receiver, vfifo, taken, got>>
    BY ONLY <1>10 DEF RLocateTimeout, Tell, RAnswer, cVars, rVars, sVars, vVars
  <2>. QED  BY ONLY <2>2, <2>3, <2>4, Types DEF Types
<1>11. CASE RSend
  <2>1. /\ rfifo # <<>>
        /\ rfifo' = Tail(rfifo)
        /\ toS' \in {toS, Append(toS, Head(rfifo))}
        /\ answer' \in {answer, Append(answer, Msg("error"))}
    BY ONLY <1>11 DEF RSend, Tell, RWrites, RWriteFails, RTakes, RLoses
  <2>2. rfifo' \in Seq(Message) /\ toS' \in Seq(Message) /\ answer' \in Seq(Message)
    BY ONLY <2>1, Types, MessageType, FifoType DEF Types
  <2>3. /\ r' \in {"attached", "locating", "up", "hung", "faulted", "gone", "killed"}
        /\ holds' \in BOOLEAN
    BY ONLY <1>11, Types DEF Types, RSend, Tell, RWrites, RWriteFails, RTakes, RLoses
  <2>4. UNCHANGED <<prompt, client, asked, kicked, sent, rMissed, s, yfifo, sMissed, lead,
                    toR, link, receiver, vfifo, taken, got>>
    BY ONLY <1>11 DEF RSend, Tell, RWrites, RWriteFails, RTakes, RLoses, cVars, rVars,
                      sVars, vVars
  <2>. QED  BY ONLY <2>2, <2>3, <2>4, Types DEF Types
<1>12. CASE RProxy
  <2>1. /\ rfifo # <<>>
        /\ rfifo' = Tail(rfifo)
        /\ toS' \in {toS, Append(toS, Head(rfifo))}
        /\ answer' \in {answer, Append(answer, Msg("error"))}
    BY ONLY <1>12 DEF RProxy, Tell, RExit, RWrites, RWriteFails, RTakes
  <2>2. rfifo' \in Seq(Message) /\ toS' \in Seq(Message) /\ answer' \in Seq(Message)
    BY ONLY <2>1, Types, MessageType, FifoType DEF Types
  <2>3. /\ r' \in {"attached", "locating", "up", "hung", "faulted", "gone", "killed"}
        /\ holds' \in BOOLEAN
    BY ONLY <1>12, Types DEF Types, RProxy, Tell, RExit, RWrites, RWriteFails, RTakes
  <2>4. UNCHANGED <<prompt, client, asked, kicked, sent, rMissed, s, yfifo, sMissed, lead,
                    toR, link, receiver, vfifo, taken, got>>
    BY ONLY <1>12 DEF RProxy, Tell, RExit, RWrites, RWriteFails, RTakes, cVars, rVars,
                      sVars, vVars
  <2>. QED  BY ONLY <2>2, <2>3, <2>4, Types DEF Types
<1>13. CASE RClose
  <2>1. /\ rfifo # <<>>
        /\ rfifo' = Tail(rfifo)
        /\ toS' \in {toS, Append(toS, Msg("close"))}
        /\ answer' \in {answer, Append(answer, Msg("error"))}
    BY ONLY <1>13 DEF RClose, Tell, RExit, RWrites, RWriteFails, RTakes
  <2>2. rfifo' \in Seq(Message) /\ toS' \in Seq(Message) /\ answer' \in Seq(Message)
    BY ONLY <2>1, Types, MessageType, FifoType DEF Types
  <2>3. /\ r' \in {"attached", "locating", "up", "hung", "faulted", "gone", "killed"}
        /\ holds' \in BOOLEAN
    BY ONLY <1>13, Types DEF Types, RClose, Tell, RExit, RWrites, RWriteFails, RTakes
  <2>4. UNCHANGED <<prompt, client, asked, kicked, sent, rMissed, s, yfifo, sMissed, lead,
                    toR, link, receiver, vfifo, taken, got>>
    BY ONLY <1>13 DEF RClose, Tell, RExit, RWrites, RWriteFails, RTakes, cVars, rVars,
                      sVars, vVars
  <2>. QED  BY ONLY <2>2, <2>3, <2>4, Types DEF Types
<1>14. CASE RRemote
  <2>1. \/ /\ toR # <<>> /\ toR' = Tail(toR)
           /\ answer' \in {answer, Append(answer, Head(toR)), Append(answer, Msg("error"))}
        \/ toR' = toR /\ answer' \in {answer, Append(answer, Msg("error"))}
    BY ONLY <1>14 DEF RRemote, Tell, RAnswer, RFail, Heard
  <2>2. toR' \in Seq(Message) /\ answer' \in Seq(Message)
    BY ONLY <2>1, Types, MessageType, FifoType DEF Types
  <2>3. /\ r' \in {"attached", "locating", "up", "hung", "faulted", "gone", "killed"}
        /\ holds' \in BOOLEAN
    BY ONLY <1>14, Types DEF Types, RRemote, Tell, RAnswer, RFail, Heard
  <2>4. rMissed' \in 0..Limit
    BY ONLY <1>14, Types, BoundsAssumption DEF Types, RRemote, Tell, RAnswer, RFail, Heard
  <2>5. UNCHANGED <<prompt, client, asked, kicked, sent, rfifo, s, yfifo, sMissed, lead,
                    toS, link, receiver, vfifo, taken, got>>
    BY ONLY <1>14 DEF RRemote, Tell, RAnswer, RFail, Heard, cVars, rVars, sVars, vVars
  <2>. QED  BY ONLY <2>2, <2>3, <2>4, <2>5, Types DEF Types
<1>15. CASE RTimeout
  <2>1. /\ toS' \in {Append(toS, Msg("close")), Append(toS, Msg("alive"))}
        /\ answer' \in {answer, Append(answer, Msg("error"))}
    BY ONLY <1>15 DEF RTimeout, Tell, RExit, TooMany
  <2>2. toS' \in Seq(Message) /\ answer' \in Seq(Message)
    BY ONLY <2>1, Types, MessageType, FifoType DEF Types
  <2>3. /\ r' \in {"attached", "locating", "up", "hung", "faulted", "gone", "killed"}
        /\ holds' \in BOOLEAN
        /\ lead' \in Nat
    BY ONLY <1>15, Types DEF Types, RTimeout, Tell, RExit, TooMany
  <2>4. rMissed' \in 0..Limit
    BY ONLY <1>15, Types, BoundsAssumption DEF Types, RTimeout, Tell, RExit, TooMany
  <2>5. UNCHANGED <<prompt, client, asked, kicked, sent, rfifo, s, yfifo, sMissed, toR,
                    link, receiver, vfifo, taken, got>>
    BY ONLY <1>15 DEF RTimeout, Tell, RExit, TooMany, cVars, rVars, sVars, vVars
  <2>. QED  BY ONLY <2>2, <2>3, <2>4, <2>5, Types DEF Types
<1>16. CASE RKill
  <2>1. /\ r' \in {"attached", "locating", "up", "hung", "faulted", "gone", "killed"}
        /\ holds' \in BOOLEAN
    BY ONLY <1>16, Types DEF Types, RKill
  <2>2. UNCHANGED <<prompt, client, asked, kicked, sent, answer, rfifo, rMissed, s, yfifo,
                    sMissed, lead, toS, toR, link, receiver, vfifo, taken, got>>
    BY ONLY <1>16 DEF RKill, cVars, rVars, sVars, vVars
  <2>. QED  BY ONLY <2>1, <2>2, Types DEF Types
<1>17. CASE SFork
  <2>1. /\ toS # <<>>
        /\ toS' = Tail(toS)
        /\ toR' \in {toR, Append(toR, Msg("absent"))}
    BY ONLY <1>17 DEF SFork
  <2>2. toS' \in Seq(Message) /\ toR' \in Seq(Message)
    BY ONLY <2>1, Types, MessageType, FifoType DEF Types
  <2>3. s' \in {"none", "forked", "up", "gone", "killed"}
    BY ONLY <1>17, Types DEF Types, SFork
  <2>4. UNCHANGED <<prompt, client, asked, kicked, sent, answer, r, rfifo, holds, rMissed,
                    yfifo, sMissed, lead, link, receiver, vfifo, taken, got>>
    BY ONLY <1>17 DEF SFork, cVars, rVars, sVars, vVars
  <2>. QED  BY ONLY <2>2, <2>3, <2>4, Types DEF Types
<1>18. CASE SLocate
  <2>1. toR' \in {toR, Append(toR, Msg("found")), Append(toR, Msg("absent"))}
    BY ONLY <1>18 DEF SLocate
  <2>2. toR' \in Seq(Message)
    BY ONLY <2>1, Types, MessageType, FifoType DEF Types
  <2>3. s' \in {"none", "forked", "up", "gone", "killed"}
    BY ONLY <1>18, Types DEF Types, SLocate
  <2>4. UNCHANGED <<prompt, client, asked, kicked, sent, answer, r, rfifo, holds, rMissed,
                    yfifo, sMissed, lead, toS, link, receiver, vfifo, taken, got>>
    BY ONLY <1>18 DEF SLocate, cVars, rVars, sVars, vVars
  <2>. QED  BY ONLY <2>2, <2>3, <2>4, Types DEF Types
<1>19. CASE SMessage
  <2>1. /\ toS # <<>>
        /\ toS' = Tail(toS)
        /\ toR' \in {toR, Append(toR, Head(toS)), Append(toR, Msg("error"))}
        /\ vfifo' \in {vfifo, Append(vfifo, Head(toS))}
    BY ONLY <1>19 DEF SMessage, SFail, Posted, Heard
  <2>2. toS' \in Seq(Message) /\ toR' \in Seq(Message) /\ vfifo' \in Seq(Message)
    BY ONLY <2>1, Types, MessageType, FifoType DEF Types
  <2>3. s' \in {"none", "forked", "up", "gone", "killed"}
    BY ONLY <1>19, Types DEF Types, SMessage, SFail, Posted, Heard
  <2>4. sMissed' \in 0..Limit
    BY ONLY <1>19, Types, BoundsAssumption DEF Types, SMessage, SFail, Posted, Heard
  <2>5. UNCHANGED <<prompt, client, asked, kicked, sent, answer, r, rfifo, holds, rMissed,
                    yfifo, lead, link, receiver, taken, got>>
    BY ONLY <1>19 DEF SMessage, SFail, Posted, Heard, cVars, rVars, sVars, vVars
  <2>. QED  BY ONLY <2>2, <2>3, <2>4, <2>5, Types DEF Types
<1>20. CASE SEnd
  BY <1>20 DEF SEnd, SFail, SReadable, RClosed
<1>21. CASE SReply
  <2>1. /\ yfifo # <<>>
        /\ yfifo' = Tail(yfifo)
        /\ toR' \in {toR, Append(toR, [Head(yfifo) EXCEPT !.kind = "reply"]), Append(toR, Msg("error"))}
    BY ONLY <1>21 DEF SReply, SFail, Passed
  <2>2. yfifo' \in Seq(Message) /\ toR' \in Seq(Message)
    BY ONLY <2>1, Types, MessageType, FifoType DEF Types
  <2>3. s' \in {"none", "forked", "up", "gone", "killed"}
    BY ONLY <1>21, Types DEF Types, SReply, SFail, Passed
  <2>4. UNCHANGED <<prompt, client, asked, kicked, sent, answer, r, rfifo, holds, rMissed,
                    sMissed, lead, toS, link, receiver, vfifo, taken, got>>
    BY ONLY <1>21 DEF SReply, SFail, Passed, cVars, rVars, sVars, vVars
  <2>. QED  BY ONLY <2>2, <2>3, <2>4, Types DEF Types
<1>22. CASE STimeout
  <2>1. /\ s' \in {"none", "forked", "up", "gone", "killed"}
        /\ lead' \in Nat
    BY ONLY <1>22, Types DEF Types, STimeout, TooMany
  <2>2. sMissed' \in 0..Limit
    BY ONLY <1>22, Types, BoundsAssumption DEF Types, STimeout, TooMany
  <2>3. UNCHANGED <<prompt, client, asked, kicked, sent, answer, r, rfifo, holds, rMissed,
                    yfifo, toS, toR, link, receiver, vfifo, taken, got>>
    BY ONLY <1>22 DEF STimeout, TooMany, cVars, rVars, sVars, vVars
  <2>. QED  BY ONLY <2>1, <2>2, <2>3, Types DEF Types
<1>23. CASE SKill
  BY <1>23 DEF SKill
<1>24. CASE Take
  <2>1. /\ Head(vfifo) \in Message /\ vfifo' \in Seq(Message)
    BY <1>24 DEF Take
  <2>2. taken' \in Nat /\ got' \in Seq(Nat)
    <3>1. Head(vfifo).n \in Nat
      BY <2>1
    <3>. QED  BY ONLY <1>24, <3>1, Types DEF Take, Types
  <2>. QED  BY <1>24, <2>1, <2>2 DEF Take
<1>25. CASE Answer
  <2>1. yfifo' \in Seq(Message)
    BY <1>25 DEF Answer
  <2>. QED  BY <1>25, <2>1 DEF Answer
<1>26. CASE ReceiverExit
  BY <1>26 DEF ReceiverExit
<1>27. CASE ReceiverKill
  BY <1>27 DEF ReceiverKill
<1>28. CASE Cut
  BY <1>28 DEF Cut
<1>29. CASE UNCHANGED vars
  BY <1>29 DEF vars, cVars, rVars, sVars, vVars
<1>. QED
  BY <1>1, <1>2, <1>3, <1>4, <1>5, <1>6, <1>7, <1>8, <1>9, <1>10, <1>11, <1>12, <1>13, <1>14,
     <1>15, <1>16, <1>17, <1>18, <1>19, <1>20, <1>21, <1>22, <1>23, <1>24, <1>25, <1>26, <1>27,
     <1>28, <1>29 DEF Next, RStep, SStep, Serve, Leave

\* The types are right at the start.
LEMMA TypesAtStart == Init => Types
<1>. SUFFICES ASSUME Init PROVE Types
  OBVIOUS
<1>1. prompt \in BOOLEAN
  BY EnvironmentAssumption DEF Init
<1>2. rMissed \in 0..Limit /\ sMissed \in 0..Limit /\ lead \in Nat
  BY BoundsAssumption DEF Init
<1>3. <<>> \in Seq(Message) /\ <<>> \in Seq(Nat)
  OBVIOUS
<1>. QED  BY <1>1, <1>2, <1>3 DEF Init, Types

\* TypeOK holds in every state: messages stay messages in every fifo, and the
\* counters of time-outs stay within KEEP_ALIVE_FAIL_LIMIT.
THEOREM TypeCorrect == Spec => []TypeOK
  BY TypesAtStart, TypesStep, TypesAre, PTL DEF Spec

-----------------------------------------------------------------------------
(* What goes in and out of the fifos.                                      *)

\* What the invariant sees of fifo p, which is q with m put in at its end.
PutSet(q, p, m) == ToSet(p) = ToSet(q) \cup {m}
PutCount(q, p, m) ==
    /\ Len(p) = Len(q) + 1
    /\ Requests(p) = Requests(q) + One(m, RequestKind)
    /\ Sends(p) = Sends(q) + One(m, {"send"})
    /\ Replies(p) = Replies(q) + One(m, {"reply"})
Put(q, p, m) == PutSet(q, p, m) /\ PutCount(q, p, m)

\* What it sees of fifo p, which is q without its head.
TookSet(q, p) == Head(q) \in ToSet(q) /\ ToSet(p) \subseteq ToSet(q)
TookCount(q, p) ==
    /\ Len(p) + 1 = Len(q)
    /\ Requests(p) + One(Head(q), RequestKind) = Requests(q)
    /\ Sends(p) + One(Head(q), {"send"}) = Sends(q)
    /\ Replies(p) + One(Head(q), {"reply"}) = Replies(q)
Took(q, p) == TookSet(q, p) /\ TookCount(q, p)

\* The model's count of requests is one of the counts of FifoLemmas.
LEMMA RequestsAre == \A q : Requests(q) = Count(q, RequestKind)
  BY DEF Requests, Count, RequestKind

\* How much there is of everything.
LEMMA Numbers ==
  ASSUME NEW q \in Seq(Message)
  PROVE  /\ Requests(q) \in Nat /\ Sends(q) \in Nat /\ Replies(q) \in Nat
         /\ Len(q) \in Nat /\ Replies(q) <= Requests(q)
         /\ Requests(q) = 0 <=> \A m \in ToSet(q) : m.kind \notin RequestKind
         /\ Sends(q) = 0 <=> \A m \in ToSet(q) : m.kind # "send"
         /\ Replies(q) = 0 <=> \A m \in ToSet(q) : m.kind # "reply"
<1>1. /\ Count(q, RequestKind) \in Nat /\ Count(q, {"send"}) \in Nat
      /\ Count(q, {"reply"}) \in Nat
  BY CountNat
<1>2. /\ Count(q, RequestKind) = 0 <=> \A m \in ToSet(q) : m.kind \notin RequestKind
      /\ Count(q, {"send"}) = 0 <=> \A m \in ToSet(q) : m.kind \notin {"send"}
      /\ Count(q, {"reply"}) = 0 <=> \A m \in ToSet(q) : m.kind \notin {"reply"}
  BY CountZero
<1>3. Count(q, {"reply"}) <= Count(q, RequestKind)
  BY CountMore DEF RequestKind
<1>. QED  BY <1>1, <1>2, <1>3, RequestsAre DEF Sends, Replies

\* An empty fifo.
LEMMA Nothing ==
  /\ ToSet(<<>>) = {} /\ Requests(<<>>) = 0 /\ Sends(<<>>) = 0 /\ Replies(<<>>) = 0
<1>1. ToSet(<<>>) = {}
  BY DEF ToSet
<1>. QED  BY <1>1, CountEmpty, RequestsAre DEF Sends, Replies

\* A message put in.
LEMMA PutFacts ==
  ASSUME NEW q \in Seq(Message), NEW m \in Message PROVE Put(q, Append(q, m), m)
<1>1. \A K : Count(Append(q, m), K) = Count(q, K) + One(m, K)
  BY CountAppend
<1>2. ToSet(Append(q, m)) = ToSet(q) \cup {m}
  BY PutIn
<1>3. Len(Append(q, m)) = Len(q) + 1
  OBVIOUS
<1>. QED  BY <1>1, <1>2, <1>3, RequestsAre DEF Put, PutSet, PutCount, Sends, Replies

\* A message taken out.
LEMMA TookFacts ==
  ASSUME NEW q \in Seq(Message), q # <<>> PROVE Took(q, Tail(q))
<1>1. \A K : Count(Tail(q), K) = Count(q, K) - One(Head(q), K)
  BY CountTail
<1>2. \A K : Count(q, K) \in Nat /\ One(Head(q), K) \in Nat
  BY CountNat DEF One
<1>3. Head(q) \in ToSet(q) /\ ToSet(Tail(q)) \subseteq ToSet(q)
  BY TakenOut
<1>4. Len(Tail(q)) + 1 = Len(q)
  OBVIOUS
<1>5. \A K : Count(Tail(q), K) + One(Head(q), K) = Count(q, K)
  BY <1>1, <1>2
<1>. QED  BY <1>3, <1>4, <1>5, RequestsAre DEF Took, TookSet, TookCount, Sends, Replies

\* The constructor of messages without a number.
LEMMA MsgIs == \A k : Msg(k).kind = k /\ Msg(k).n = 0
  BY DEF Msg

\* What the messages of each kind count.
LEMMA OneIs ==
  ASSUME NEW m \in Message
  PROVE  /\ One(m, RequestKind) = IF m.kind \in {"send", "reply", "error"} THEN 1 ELSE 0
         /\ One(m, {"send"}) = IF m.kind = "send" THEN 1 ELSE 0
         /\ One(m, {"reply"}) = IF m.kind = "reply" THEN 1 ELSE 0
  BY DEF One, RequestKind

\* What the messages without a number count.
LEMMA OneMsg ==
  /\ \A k \in {"locate", "found", "absent", "proxy", "alive", "close"} :
        /\ One(Msg(k), RequestKind) = 0 /\ One(Msg(k), {"send"}) = 0
        /\ One(Msg(k), {"reply"}) = 0
  /\ One(Msg("error"), RequestKind) = 1 /\ One(Msg("error"), {"send"}) = 0
  /\ One(Msg("error"), {"reply"}) = 0
  BY MsgIs DEF One, RequestKind

\* What is known of the number of messages in a fifo, and in all of them.
CountedIn(q) ==
    Requests(q) \in Nat /\ Sends(q) \in Nat /\ Replies(q) \in Nat /\ Len(q) \in Nat
Counted ==
    /\ CountedIn(answer) /\ CountedIn(rfifo) /\ CountedIn(yfifo)
    /\ CountedIn(toS) /\ CountedIn(toR) /\ CountedIn(vfifo)

\* All fifos are counted.
LEMMA AllCounted == ASSUME Types PROVE Counted
  BY Numbers DEF Types, Counted, CountedIn

\* So are they after a step.
LEMMA AllCountedNext ==
  ASSUME Types'
  PROVE  /\ CountedIn(answer') /\ CountedIn(rfifo') /\ CountedIn(yfifo')
         /\ CountedIn(toS') /\ CountedIn(toR') /\ CountedIn(vfifo')
  BY Numbers DEF Types, CountedIn

\* What is in transit, and what it is the sum of.
LEMMA TransitIs ==
  ASSUME Types
  PROVE  /\ InTransit = Requests(toS) + Requests(vfifo) + Working + Requests(yfifo) + Requests(toR)
         /\ Requests(toS) \in Nat /\ Requests(vfifo) \in Nat /\ Requests(yfifo) \in Nat
         /\ Requests(toR) \in Nat
         /\ Working \in Nat /\ (taken # 0 => Working = 1) /\ (taken = 0 => Working = 0)
  BY AllCounted DEF Counted, CountedIn, InTransit, Working

\* The same after a step.
LEMMA TransitNext ==
  ASSUME Types'
  PROVE  /\ InTransit' = Requests(toS') + Requests(vfifo') + Working' + Requests(yfifo')
                         + Requests(toR')
         /\ Requests(toS') \in Nat /\ Requests(vfifo') \in Nat /\ Requests(yfifo') \in Nat
         /\ Requests(toR') \in Nat
         /\ Working' \in Nat /\ (taken' # 0 => Working' = 1) /\ (taken' = 0 => Working' = 0)
  BY AllCountedNext DEF CountedIn, InTransit, Working

\* The measures of the invariant are numbers.
LEMMA Measures ==
  ASSUME Types
  PROVE  /\ Sends(rfifo) \in Nat /\ Replies(toR) \in Nat /\ InTransit \in Nat
         /\ Len(answer) \in Nat /\ Replies(toR) <= InTransit
<1>1. Replies(toR) <= Requests(toR)
  BY Numbers DEF Types
<1>2. (IF taken # 0 THEN 1 ELSE 0) \in Nat
  OBVIOUS
<1>3. /\ Requests(toS) \in Nat /\ Requests(vfifo) \in Nat /\ Requests(yfifo) \in Nat
      /\ Requests(toR) \in Nat
  BY Numbers DEF Types
<1>4. InTransit \in Nat /\ Requests(toR) <= InTransit
  BY ONLY <1>2, <1>3 DEF InTransit
<1>5. Sends(rfifo) \in Nat /\ Replies(toR) \in Nat /\ Len(answer) \in Nat
  BY Numbers DEF Types
<1>. QED  BY <1>1, <1>3, <1>4, <1>5

\* So they are after a step.
LEMMA MeasuresNext ==
  ASSUME Types'
  PROVE  /\ Sends(rfifo') \in Nat /\ Replies(toR') \in Nat /\ InTransit' \in Nat
         /\ Len(answer') \in Nat /\ Replies(toR') <= InTransit'
<1>1. Replies(toR') <= Requests(toR')
  BY Numbers DEF Types
<1>2. (IF taken' # 0 THEN 1 ELSE 0) \in Nat
  OBVIOUS
<1>3. /\ Requests(toS') \in Nat /\ Requests(vfifo') \in Nat /\ Requests(yfifo') \in Nat
      /\ Requests(toR') \in Nat
  BY Numbers DEF Types
<1>4. InTransit' \in Nat /\ Requests(toR') <= InTransit'
  BY ONLY <1>2, <1>3 DEF InTransit
<1>5. Sends(rfifo') \in Nat /\ Replies(toR') \in Nat /\ Len(answer') \in Nat
  BY Numbers DEF Types
<1>. QED  BY <1>1, <1>3, <1>4, <1>5

\* What it means that nothing is on its way.
LEMMA QuietIs ==
  ASSUME Types
  PROVE  /\ Sends(rfifo) = 0 => \A m \in ToSet(rfifo) : m.kind # "send"
         /\ Replies(toR) = 0 => \A m \in ToSet(toR) : m.kind # "reply"
         /\ InTransit = 0 => /\ taken = 0
                             /\ \A m \in ToSet(toS) : m.kind # "send"
                             /\ \A m \in ToSet(vfifo) : m.kind # "send"
                             /\ \A m \in ToSet(yfifo) : m.kind \notin RequestKind
                             /\ \A m \in ToSet(toR) : m.kind # "reply"
<1>1. InTransit = 0 => /\ taken = 0 /\ Requests(toS) = 0 /\ Requests(vfifo) = 0
                       /\ Requests(yfifo) = 0 /\ Requests(toR) = 0
  BY TransitIs
<1>2. /\ Requests(toS) = 0 => \A m \in ToSet(toS) : m.kind \notin RequestKind
      /\ Requests(vfifo) = 0 => \A m \in ToSet(vfifo) : m.kind \notin RequestKind
      /\ Requests(yfifo) = 0 => \A m \in ToSet(yfifo) : m.kind \notin RequestKind
      /\ Requests(toR) = 0 => \A m \in ToSet(toR) : m.kind \notin RequestKind
  BY Numbers DEF Types
<1>3. /\ Sends(rfifo) = 0 => \A m \in ToSet(rfifo) : m.kind # "send"
      /\ Replies(toR) = 0 => \A m \in ToSet(toR) : m.kind # "reply"
  BY Numbers DEF Types
<1>. QED  BY <1>1, <1>2, <1>3 DEF RequestKind

\* What has been got stays got.
LEMMA Gotten ==
  ASSUME NEW w \in Seq(Nat), NEW x \in Nat
  PROVE  /\ Contains(Append(w, x), x)
         /\ \A y : Contains(w, y) => Contains(Append(w, x), y)
<1>1. /\ Len(w) \in Nat /\ Len(Append(w, x)) = Len(w) + 1 /\ Append(w, x)[Len(w) + 1] = x
      /\ \A i \in 1..Len(w) : Append(w, x)[i] = w[i]
  OBVIOUS
<1>. QED  BY <1>1 DEF Contains

-----------------------------------------------------------------------------
(* The steps.                                                              *)

\* The client asks for the receiver: its message counts for nothing.
LEMMA LocateOrderly == ASSUME Types, Orderly, Locate, Types' PROVE Orderly'
<1>. USE DEF Orderly
<1>1. Put(rfifo, Append(rfifo, Msg("locate")), Msg("locate"))
  BY PutFacts, TookFacts, FifoType, MessageType DEF Types
<1>2. /\ Sends(rfifo)' = Sends(rfifo)
      /\ Replies(toR)' = Replies(toR)
      /\ InTransit' = InTransit
  BY <1>1, OneMsg, AllCounted DEF Locate, RClosed, ROpen, Put, PutCount, Counted, CountedIn,
     InTransit, cVars, rVars, sVars, vVars
<1>4. Forms'
  BY <1>1, MsgIs DEF Locate, RClosed, ROpen, Put, PutSet, cVars, rVars, sVars, vVars, Forms,
     Formed, Carrier
<1>5. Stages'
  BY <1>2, Measures, MeasuresNext, <1>1, MsgIs DEF Locate, RClosed, ROpen, Stages, OneOut,
     Transit, HeldIsInTransit, Held, cVars, rVars, sVars, vVars, Put, PutSet
<1>6. OneOut'
  BY <1>2, Measures, MeasuresNext DEF Locate, RClosed, ROpen, Stages, OneOut, Transit,
     HeldIsInTransit, Held, cVars, rVars, sVars, vVars
<1>7. Transit'
  BY <1>2, Measures, MeasuresNext DEF Locate, RClosed, ROpen, Stages, OneOut, Transit,
     HeldIsInTransit, Held, cVars, rVars, sVars, vVars
<1>8. Current'
  BY <1>1, MsgIs DEF Locate, RClosed, ROpen, Put, PutSet, cVars, rVars, sVars, vVars, Current,
     About, Stages, OneOut
<1>9. Received'
  BY <1>1, MsgIs DEF Locate, RClosed, ROpen, Put, PutSet, cVars, rVars, sVars, vVars, Received,
     Answered
<1>. QED  BY <1>4, <1>5, <1>6, <1>7, <1>8, <1>9

\* The client has nothing out when it sends, so one request is out afterwards.
LEMMA ClientSendOrderly == ASSUME Types, Orderly, ClientSend, Types' PROVE Orderly'
<1>. USE DEF Orderly
<1>1. Put(rfifo, Append(rfifo, [kind |-> "send", n |-> asked + 1]), [kind |-> "send", n |-> asked + 1])
  <2>1. asked + 1 \in Nat
    BY DEF Types
  <2>2. [kind |-> "send", n |-> asked + 1] \in Message
    BY <2>1, MessageType
  <2>. QED  BY <2>2, PutFacts DEF Types
<1>2. /\ Sends(rfifo)' <= Sends(rfifo) + 1
      /\ Replies(toR)' = Replies(toR)
      /\ InTransit' = InTransit
  <2>1. Sends(rfifo)' <= Sends(rfifo) + 1
    <3>1. rfifo' = rfifo \/ rfifo' = Append(rfifo, [kind |-> "send", n |-> asked + 1])
      BY DEF ClientSend
    <3>2. One([kind |-> "send", n |-> asked + 1], {"send"}) = 1
      BY DEF One
    <3>3. Sends(Append(rfifo, [kind |-> "send", n |-> asked + 1])) = Sends(rfifo) + 1
      BY <1>1, <3>2 DEF Put, PutCount
    <3>4. Sends(rfifo) \in Nat
      BY Measures
    <3>. HIDE DEF Orderly
    <3>5. CASE rfifo' = rfifo
      BY ONLY <3>4, <3>5
    <3>6. CASE rfifo' = Append(rfifo, [kind |-> "send", n |-> asked + 1])
      BY ONLY <3>3, <3>4, <3>6
    <3>. QED  BY <3>1, <3>5, <3>6
  <2>2. Replies(toR)' = Replies(toR)
    BY <1>1, AllCounted DEF ClientSend, RClosed, ROpen, Put, PutCount, Counted, CountedIn,
       InTransit, cVars, rVars, sVars, vVars
  <2>3. InTransit' = InTransit
    BY <1>1, AllCounted DEF ClientSend, RClosed, ROpen, Put, PutCount, Counted, CountedIn,
       InTransit, cVars, rVars, sVars, vVars
  <2>. QED  BY <2>1, <2>2, <2>3
<1>4. Forms'
  <2>1. rfifo' = rfifo \/ ToSet(rfifo') = ToSet(rfifo) \cup {[kind |-> "send", n |-> asked + 1]}
    BY <1>1 DEF ClientSend, Put, PutSet
  <2>2. UNCHANGED <<toS, vfifo, yfifo, toR, s>>
    BY DEF ClientSend, sVars, vVars
  <2>3. asked + 1 # 0
    BY DEF Types
  <2>. QED  BY <2>1, <2>2, <2>3 DEF Forms, Formed, Carrier
<1>5. Stages'
  BY <1>2, Measures, MeasuresNext, <1>1 DEF ClientSend, RClosed, ROpen, Stages, OneOut, Transit,
     HeldIsInTransit, Held, cVars, rVars, sVars, vVars, Put, PutSet
<1>6. OneOut'
  <2>1. CASE ~ ROpen
    BY <2>1 DEF ClientSend, ROpen, RClosed, OneOut, rVars
  <2>2. CASE ROpen
    <3>1. r = "up" => Sends(rfifo) = 0 /\ Held = 0 /\ Len(answer) = 0
      BY Measures DEF ClientSend, OneOut, Held
    <3>2. client' = "sending" /\ UNCHANGED <<answer, r, holds>>
      BY <2>2 DEF ClientSend, rVars
    <3>3. Held' = Held
      BY <3>2 DEF Held
    <3>. QED  BY <1>2, <3>1, <3>2, <3>3, MeasuresNext DEF OneOut
  <2>. QED  BY <2>1, <2>2
<1>7. Transit'
  BY <1>2, Measures, MeasuresNext DEF ClientSend, RClosed, ROpen, Stages, OneOut, Transit,
     HeldIsInTransit, Held, cVars, rVars, sVars, vVars
<1>8. Current'
  <2>1. CASE ~ ROpen
    BY <2>1, Nothing DEF ClientSend, ROpen, RClosed, Current, About, OneOut, rVars, sVars, vVars
  <2>2. CASE ROpen
    <3>1. r = "up" => /\ Sends(rfifo) = 0 /\ Replies(toR) = 0
                      /\ s = "up" => InTransit = 0
      BY Measures DEF ClientSend, OneOut, Transit, Held
    <3>2. answer = <<>>
      BY DEF ClientSend, OneOut
    <3>3. ToSet(rfifo') = ToSet(rfifo) \cup {[kind |-> "send", n |-> asked + 1]}
      BY <1>1, <2>2 DEF ClientSend, Put, PutSet
    <3>4. asked' = asked + 1 /\ UNCHANGED <<answer, r, s, toS, toR, vfifo, yfifo, taken>>
      BY DEF ClientSend, rVars, sVars, vVars
    <3>. QED  BY <3>1, <3>2, <3>3, <3>4, QuietIs, Nothing DEF Current, About, RequestKind
  <2>. QED  BY <2>1, <2>2
<1>9. Received'
  BY <1>1 DEF ClientSend, RClosed, ROpen, Put, PutSet, cVars, rVars, sVars, vVars, Received,
     Answered
<1>. QED  BY <1>4, <1>5, <1>6, <1>7, <1>8, <1>9

\* A proxy is no request, and nobody waits for it.
LEMMA ClientTriggerOrderly == ASSUME Types, Orderly, ClientTrigger, Types' PROVE Orderly'
<1>. USE DEF Orderly
<1>1. Put(rfifo, Append(rfifo, Msg("proxy")), Msg("proxy"))
  BY PutFacts, TookFacts, FifoType, MessageType DEF Types
<1>2. /\ Sends(rfifo)' = Sends(rfifo)
      /\ Replies(toR)' = Replies(toR)
      /\ InTransit' = InTransit
  BY <1>1, OneMsg, AllCounted DEF ClientTrigger, RClosed, ROpen, Put, PutCount, Counted,
     CountedIn, InTransit, cVars, rVars, sVars, vVars
<1>4. Forms'
  BY <1>1, MsgIs DEF ClientTrigger, RClosed, ROpen, Put, PutSet, cVars, rVars, sVars, vVars,
     Forms, Formed, Carrier
<1>5. Stages'
  BY <1>2, Measures, MeasuresNext, <1>1, MsgIs DEF ClientTrigger, RClosed, ROpen, Stages,
     OneOut, Transit, HeldIsInTransit, Held, cVars, rVars, sVars, vVars, Put, PutSet
<1>6. OneOut'
  BY <1>2, Measures, MeasuresNext DEF ClientTrigger, RClosed, ROpen, Stages, OneOut, Transit,
     HeldIsInTransit, Held, cVars, rVars, sVars, vVars
<1>7. Transit'
  BY <1>2, Measures, MeasuresNext DEF ClientTrigger, RClosed, ROpen, Stages, OneOut, Transit,
     HeldIsInTransit, Held, cVars, rVars, sVars, vVars
<1>8. Current'
  BY <1>1, MsgIs DEF ClientTrigger, RClosed, ROpen, Put, PutSet, cVars, rVars, sVars, vVars,
     Current, About, Stages, OneOut
<1>9. Received'
  BY <1>1, MsgIs DEF ClientTrigger, RClosed, ROpen, Put, PutSet, cVars, rVars, sVars, vVars,
     Received, Answered
<1>. QED  BY <1>4, <1>5, <1>6, <1>7, <1>8, <1>9

\* The one answer is taken, and the client has nothing out.
LEMMA ClientReturnOrderly == ASSUME Types, Orderly, ClientReturn, Types' PROVE Orderly'
<1>. USE DEF Orderly
<1>1. answer # <<>> => Took(answer, Tail(answer)) /\ Head(answer) \in Message
  BY PutFacts, TookFacts, FifoType, MessageType DEF Types
<1>2. /\ Len(answer') + 1 = Len(answer)
      /\ Sends(rfifo)' = Sends(rfifo)
      /\ Replies(toR)' = Replies(toR)
      /\ InTransit' = InTransit
  <2>1. Len(answer') + 1 = Len(answer)
    BY <1>1, AllCounted, AllCountedNext, OneIs DEF ClientReturn, Took, TookCount, Counted,
       CountedIn, InTransit, cVars, rVars, sVars, vVars
  <2>2. Sends(rfifo)' = Sends(rfifo)
    BY <1>1, AllCounted, AllCountedNext, OneIs DEF ClientReturn, Took, TookCount, Counted,
       CountedIn, InTransit, cVars, rVars, sVars, vVars
  <2>3. Replies(toR)' = Replies(toR)
    BY <1>1, AllCounted, AllCountedNext, OneIs DEF ClientReturn, Took, TookCount, Counted,
       CountedIn, InTransit, cVars, rVars, sVars, vVars
  <2>4. InTransit' = InTransit
    BY <1>1, AllCounted, AllCountedNext, OneIs DEF ClientReturn, Took, TookCount, Counted,
       CountedIn, InTransit, cVars, rVars, sVars, vVars
  <2>. QED  BY <2>1, <2>2, <2>3, <2>4
<1>4. Forms'
  BY <1>1 DEF ClientReturn, Took, TookSet, cVars, rVars, sVars, vVars, Forms, Formed, Carrier
<1>5. Stages'
  BY <1>2, Measures, MeasuresNext, <1>1 DEF ClientReturn, Stages, OneOut, Transit,
     HeldIsInTransit, Held, cVars, rVars, sVars, vVars, Took, TookSet
<1>6. OneOut'
  BY <1>2, Measures, MeasuresNext DEF ClientReturn, Stages, OneOut, Transit, HeldIsInTransit,
     Held, cVars, rVars, sVars, vVars
<1>7. Transit'
  BY <1>2, Measures, MeasuresNext DEF ClientReturn, Stages, OneOut, Transit, HeldIsInTransit,
     Held, cVars, rVars, sVars, vVars
<1>8. Current'
  BY <1>1 DEF ClientReturn, Took, TookSet, cVars, rVars, sVars, vVars, Current, About, Stages,
     OneOut
<1>9. Received'
  BY <1>1 DEF ClientReturn, Took, TookSet, cVars, rVars, sVars, vVars, Received, Answered
<1>. QED  BY <1>4, <1>5, <1>6, <1>7, <1>8, <1>9

\* The fifos of the client go; PROXY_SHUTDOWN is no request.
LEMMA ClientExitOrderly == ASSUME Types, Orderly, ClientExit, Types' PROVE Orderly'
<1>. USE DEF Orderly
<1>1. Put(rfifo, Append(rfifo, Msg("close")), Msg("close"))
  BY PutFacts, TookFacts, FifoType, MessageType DEF Types
<1>2. /\ answer' = <<>>
      /\ Sends(rfifo)' = Sends(rfifo)
      /\ Replies(toR)' = Replies(toR)
      /\ InTransit' = InTransit
  <2>1. answer' = <<>>
    BY <1>1, OneMsg, Nothing, AllCounted DEF ClientExit, RClosed, ROpen, Put, PutCount, Counted,
       CountedIn, InTransit, cVars, rVars, sVars, vVars
  <2>2. Sends(rfifo)' = Sends(rfifo)
    <3>1. rfifo' = rfifo \/ rfifo' = Append(rfifo, Msg("close"))
      BY DEF ClientExit
    <3>2. Sends(Append(rfifo, Msg("close"))) = Sends(rfifo)
      BY <1>1, OneMsg, Measures DEF Put, PutCount
    <3>. QED  BY <3>1, <3>2
  <2>3. Replies(toR)' = Replies(toR)
    BY <1>1, OneMsg, Nothing, AllCounted DEF ClientExit, RClosed, ROpen, Put, PutCount, Counted,
       CountedIn, InTransit, cVars, rVars, sVars, vVars
  <2>4. InTransit' = InTransit
    BY <1>1, OneMsg, Nothing, AllCounted DEF ClientExit, RClosed, ROpen, Put, PutCount, Counted,
       CountedIn, InTransit, cVars, rVars, sVars, vVars
  <2>. QED  BY <2>1, <2>2, <2>3, <2>4
<1>4. Forms'
  BY <1>1, MsgIs, Nothing DEF ClientExit, RClosed, ROpen, Put, PutSet, cVars, rVars, sVars,
     vVars, Forms, Formed, Carrier
<1>5. Stages'
  BY <1>2, Measures, MeasuresNext, Nothing, <1>1, MsgIs DEF ClientExit, RClosed, ROpen, Stages,
     OneOut, Transit, HeldIsInTransit, Held, cVars, rVars, sVars, vVars, Put, PutSet
<1>6. OneOut'
  BY <1>2, Measures, MeasuresNext, Nothing DEF ClientExit, RClosed, ROpen, Stages, OneOut,
     Transit, HeldIsInTransit, Held, cVars, rVars, sVars, vVars
<1>7. Transit'
  BY <1>2, Measures, MeasuresNext, Nothing DEF ClientExit, RClosed, ROpen, Stages, OneOut,
     Transit, HeldIsInTransit, Held, cVars, rVars, sVars, vVars
<1>8. Current'
  BY <1>1, MsgIs, Nothing DEF ClientExit, RClosed, ROpen, Put, PutSet, cVars, rVars, sVars,
     vVars, Current, About, Stages, OneOut
<1>9. Received'
  BY <1>1, MsgIs, Nothing DEF ClientExit, RClosed, ROpen, Put, PutSet, cVars, rVars, sVars,
     vVars, Received, Answered
<1>. QED  BY <1>4, <1>5, <1>6, <1>7, <1>8, <1>9

\* Nothing is left of the client.
LEMMA ClientRemoveOrderly == ASSUME Types, Orderly, ClientRemove, Types' PROVE Orderly'
<1>. USE DEF Orderly
<1>2. /\ Sends(rfifo)' = Sends(rfifo)
      /\ Replies(toR)' = Replies(toR)
      /\ InTransit' = InTransit
  BY AllCounted DEF ClientRemove, Counted, CountedIn, InTransit, cVars, rVars, sVars, vVars
<1>4. Forms'
  BY DEF ClientRemove, cVars, rVars, sVars, vVars, Forms, Formed, Carrier
<1>5. Stages'
  BY <1>2, Measures, MeasuresNext DEF ClientRemove, Stages, OneOut, Transit, HeldIsInTransit,
     Held, cVars, rVars, sVars, vVars
<1>6. OneOut'
  BY <1>2, Measures, MeasuresNext DEF ClientRemove, Stages, OneOut, Transit, HeldIsInTransit,
     Held, cVars, rVars, sVars, vVars
<1>7. Transit'
  BY <1>2, Measures, MeasuresNext DEF ClientRemove, Stages, OneOut, Transit, HeldIsInTransit,
     Held, cVars, rVars, sVars, vVars
<1>8. Current'
  BY DEF ClientRemove, cVars, rVars, sVars, vVars, Current, About, Stages, OneOut
<1>9. Received'
  BY DEF ClientRemove, cVars, rVars, sVars, vVars, Received, Answered
<1>. QED  BY <1>4, <1>5, <1>6, <1>7, <1>8, <1>9

\* The answer of a killed client goes with it.
LEMMA ClientKillOrderly == ASSUME Types, Orderly, ClientKill, Types' PROVE Orderly'
<1>. USE DEF Orderly
<1>2. /\ Sends(rfifo)' = Sends(rfifo)
      /\ Replies(toR)' = Replies(toR)
      /\ InTransit' = InTransit
  BY Nothing, AllCounted DEF ClientKill, Counted, CountedIn, InTransit, cVars, rVars, sVars,
     vVars
<1>4. Forms'
  BY Nothing DEF ClientKill, cVars, rVars, sVars, vVars, Forms, Formed, Carrier
<1>5. Stages'
  BY <1>2, Measures, MeasuresNext, Nothing DEF ClientKill, Stages, OneOut, Transit,
     HeldIsInTransit, Held, cVars, rVars, sVars, vVars
<1>6. OneOut'
  BY <1>2, Measures, MeasuresNext, Nothing DEF ClientKill, Stages, OneOut, Transit,
     HeldIsInTransit, Held, cVars, rVars, sVars, vVars
<1>7. Transit'
  BY <1>2, Measures, MeasuresNext, Nothing DEF ClientKill, Stages, OneOut, Transit,
     HeldIsInTransit, Held, cVars, rVars, sVars, vVars
<1>8. Current'
  BY Nothing DEF ClientKill, cVars, rVars, sVars, vVars, Current, About, Stages, OneOut
<1>9. Received'
  BY Nothing DEF ClientKill, cVars, rVars, sVars, vVars, Received, Answered
<1>. QED  BY <1>4, <1>5, <1>6, <1>7, <1>8, <1>9

\* The first message opens the conduit, before any request is out.
LEMMA RLocateOrderly == ASSUME Types, Orderly, RLocate, Types' PROVE Orderly'
<1>. USE DEF Orderly
<1>1. /\ rfifo # <<>> => Took(rfifo, Tail(rfifo)) /\ Head(rfifo) \in Message
      /\ Put(toS, Append(toS, Msg("locate")), Msg("locate"))
      /\ Put(answer, Append(answer, Msg("absent")), Msg("absent"))
  BY PutFacts, TookFacts, FifoType, MessageType DEF Types
<1>2. /\ Sends(rfifo)' = Sends(rfifo)
      /\ Replies(toR)' = Replies(toR)
      /\ InTransit' = InTransit
  <2>1. Sends(rfifo)' = Sends(rfifo)
    <3>1. rfifo # <<>> /\ rfifo' = Tail(rfifo) /\ Head(rfifo).kind = "locate"
      BY DEF RLocate, RTakes, RLoses
    <3>2. One(Head(rfifo), {"send"}) = 0
      BY <3>1 DEF One
    <3>. QED  BY <1>1, <3>1, <3>2, Measures, MeasuresNext DEF Took, TookCount
  <2>2. Replies(toR)' = Replies(toR)
    BY <1>1, OneMsg, AllCounted, AllCountedNext, OneIs DEF RLocate, Tell, RAnswer, RWrites,
       RTakes, RLoses, ClientGone, Put, PutCount, Took, TookCount, Counted, CountedIn,
       InTransit, cVars, rVars, sVars, vVars
  <2>3. InTransit' = InTransit
    <3>1. toS' = toS \/ toS' = Append(toS, Msg("locate"))
      BY DEF RLocate, RLoses, RWrites
    <3>2. Requests(Append(toS, Msg("locate"))) = Requests(toS)
      BY <1>1, OneMsg, AllCounted DEF Put, PutCount, Counted, CountedIn
    <3>3. Requests(toS') = Requests(toS) /\ UNCHANGED <<vfifo, taken, yfifo, toR>>
      BY <3>1, <3>2 DEF RLocate, sVars, vVars
    <3>. QED  BY <3>3 DEF InTransit
  <2>. QED  BY <2>1, <2>2, <2>3
<1>3. answer' = answer \/ Len(answer') = Len(answer) + 1
  BY <1>1 DEF RLocate, Tell, RAnswer, RWrites, RTakes, RLoses, ClientGone, Put, PutCount
<1>4. Forms'
  BY <1>1, MsgIs DEF RLocate, Tell, RAnswer, RWrites, RTakes, RLoses, ClientGone, Put, PutSet,
     Took, TookSet, cVars, rVars, sVars, vVars, Forms, Formed, Carrier
<1>5. Stages'
  BY <1>2, Measures, MeasuresNext, <1>3, <1>1, MsgIs DEF RLocate, Tell, RAnswer, RWrites,
     RTakes, RLoses, ClientGone, Stages, OneOut, Transit, HeldIsInTransit, Held, cVars, rVars,
     sVars, vVars, Put, PutSet, Took, TookSet
<1>6. OneOut'
  <2>1. answer = <<>> /\ Len(answer) = 0
    BY DEF RLocate, Stages
  <2>2. UNCHANGED client /\ (answer' # answer => client \in {"locating", "sending"})
    BY DEF RLocate, Tell, RAnswer, RWrites, RTakes, RLoses, ClientGone, cVars
  <2>3. r' # "up"
    BY DEF RLocate, Tell, RAnswer, RWrites, RTakes, RLoses, ClientGone
  <2>4. Len(answer') <= 1
    <3>1. CASE answer' = answer
      BY ONLY <2>1, <3>1
    <3>2. CASE Len(answer') = Len(answer) + 1
      BY ONLY <2>1, <3>2
    <3>. QED  BY ONLY <1>3, <3>1, <3>2
  <2>. QED  BY ONLY <2>1, <2>2, <2>3, <2>4 DEF OneOut
<1>7. Transit'
  BY <1>2, Measures, MeasuresNext, <1>3 DEF RLocate, Tell, RAnswer, RWrites, RTakes, RLoses,
     ClientGone, Stages, OneOut, Transit, HeldIsInTransit, Held, cVars, rVars, sVars, vVars
<1>8. Current'
  BY <1>1, MsgIs DEF RLocate, Tell, RAnswer, RWrites, RTakes, RLoses, ClientGone, Put, PutSet,
     Took, TookSet, cVars, rVars, sVars, vVars, Current, About, Stages, OneOut
<1>9. Received'
  BY <1>1, MsgIs DEF RLocate, Tell, RAnswer, RWrites, RTakes, RLoses, ClientGone, Put, PutSet,
     Took, TookSet, cVars, rVars, sVars, vVars, Received, Answered
<1>. QED  BY <1>4, <1>5, <1>6, <1>7, <1>8, <1>9

\* surrogate_r comes up when nothing is on its way.
LEMMA RLocatedOrderly == ASSUME Types, Orderly, RLocated, Types' PROVE Orderly'
<1>. USE DEF Orderly
<1>1. /\ toR # <<>> => Took(toR, Tail(toR)) /\ Head(toR) \in Message
      /\ toR # <<>> => Put(answer, Append(answer, Head(toR)), Head(toR))
      /\ Put(answer, Append(answer, Msg("absent")), Msg("absent"))
  BY PutFacts, TookFacts, FifoType, MessageType DEF Types
<1>2. /\ Sends(rfifo)' = Sends(rfifo)
      /\ Replies(toR)' <= Replies(toR)
      /\ InTransit' <= InTransit
  <2>1. Sends(rfifo)' = Sends(rfifo)
    BY <1>1, OneMsg, AllCounted, AllCountedNext, OneIs DEF RLocated, Tell, RAnswer, RReadable,
       SClosed, Put, PutCount, Took, TookCount, Counted, CountedIn, InTransit, cVars, rVars,
       sVars, vVars
  <2>2. Replies(toR)' <= Replies(toR)
    <3>1. toR' = toR \/ (toR # <<>> /\ toR' = Tail(toR))
      BY DEF RLocated
    <3>2. toR # <<>> => Replies(toR) = Replies(Tail(toR)) + One(Head(toR), {"reply"})
      BY <1>1 DEF Took, TookCount
    <3>3. One(Head(toR), {"reply"}) \in Nat
      BY DEF One
    <3>. HIDE DEF Orderly
    <3>4. CASE toR' = toR
      BY <3>4, Measures
    <3>5. CASE toR # <<>> /\ toR' = Tail(toR)
      BY <3>2, <3>3, <3>5, MeasuresNext
    <3>. QED  BY <3>1, <3>4, <3>5
  <2>3. InTransit' <= InTransit
    <3>1. toR' = toR \/ (toR # <<>> /\ toR' = Tail(toR))
      BY DEF RLocated
    <3>2. toR # <<>> => Requests(toR) = Requests(Tail(toR)) + One(Head(toR), RequestKind)
      BY <1>1 DEF Took, TookCount
    <3>3. One(Head(toR), RequestKind) \in Nat
      BY DEF One
    <3>4. /\ Working' = Working /\ Requests(yfifo') = Requests(yfifo)
          /\ Requests(vfifo') = Requests(vfifo) /\ Requests(toS') = Requests(toS)
      BY DEF RLocated, sVars, vVars, Working
    <3>. HIDE DEF Orderly
    <3>5. Requests(toR') <= Requests(toR)
      <4>1. CASE toR' = toR
        BY <4>1, TransitIs
      <4>2. CASE toR # <<>> /\ toR' = Tail(toR)
        BY <3>2, <3>3, <4>2, TransitNext
      <4>. QED  BY <3>1, <4>1, <4>2
    <3>. QED  BY ONLY <3>4, <3>5, TransitIs, TransitNext, Types, Types'
  <2>. QED  BY <2>1, <2>2, <2>3
<1>3. answer' = answer \/ Len(answer') = Len(answer) + 1
  BY <1>1 DEF RLocated, Tell, RAnswer, RReadable, SClosed, Put, PutCount
<1>4. Forms'
  BY <1>1, MsgIs DEF RLocated, Tell, RAnswer, RReadable, SClosed, Put, PutSet, Took, TookSet,
     cVars, rVars, sVars, vVars, Forms, Formed, Carrier
<1>5. Stages'
  <2>1. /\ r' \notin {"attached", "locating"}
        /\ UNCHANGED <<client, s, toS, receiver, vfifo, taken>>
    BY DEF RLocated, Tell, RAnswer, RReadable, SClosed, cVars, sVars, vVars
  <2>2. r' = "hung" => client \in {"closing", "exited", "killed"}
    BY DEF RLocated, Tell, RAnswer, RReadable, SClosed
  <2>3. s \in {"none", "forked"} => toR' = <<>> /\ r' # "up"
    BY DEF RLocated, Tell, RAnswer, RReadable, SClosed, Stages
  <2>4. r' = "up" => client \in {"locating", "sending"}
    BY DEF RLocated, Tell, RAnswer, RReadable, SClosed
  <2>. QED  BY <2>1, <2>2, <2>3, <2>4 DEF Stages
<1>6. OneOut'
  <2>1. answer = <<>> /\ Len(answer) = 0
    BY DEF RLocated, Stages
  <2>2. UNCHANGED client /\ (answer' # answer => client \in {"locating", "sending"})
    BY DEF RLocated, Tell, RAnswer, RReadable, SClosed, cVars
  <2>3. r' = "up" => Sends(rfifo') = 0 /\ Held' = 0 /\ client \in {"locating", "sending"}
    BY <1>2 DEF RLocated, Tell, RAnswer, RReadable, SClosed, Stages, Held
  <2>4. Len(answer') <= 1 /\ Len(answer') \in Nat
    <3>1. CASE answer' = answer
      BY ONLY <2>1, <3>1
    <3>2. CASE Len(answer') = Len(answer) + 1
      BY ONLY <2>1, <3>2
    <3>. QED  BY ONLY <1>3, <3>1, <3>2
  <2>5. r' = "up" => Sends(rfifo') + Held' + Len(answer') <= 1
    BY ONLY <2>3, <2>4
  <2>. QED  BY ONLY <2>1, <2>2, <2>3, <2>4, <2>5 DEF OneOut
<1>7. Transit'
  BY <1>2, Measures, MeasuresNext, <1>3 DEF RLocated, Tell, RAnswer, RReadable, SClosed, Stages,
     OneOut, Transit, HeldIsInTransit, Held, cVars, rVars, sVars, vVars
<1>8. Current'
  <2>1. r' = "up" => /\ Sends(rfifo) = 0 /\ Replies(toR) = 0 /\ InTransit = 0
                     /\ toR' = toR \/ ToSet(toR') \subseteq ToSet(toR)
    BY <1>1 DEF RLocated, Tell, RAnswer, RReadable, SClosed, Stages, Took, TookSet
  <2>2. UNCHANGED <<client, asked, rfifo, s, toS, vfifo, yfifo, taken>>
    BY DEF RLocated, cVars, sVars, vVars
  <2>3. client # "sending"
    BY DEF RLocated, Stages
  <2>. QED  BY <2>1, <2>2, <2>3, QuietIs DEF Current, About, RequestKind
<1>9. Received'
  <2>1. UNCHANGED <<got, taken, yfifo>>
    BY DEF RLocated, sVars, vVars
  <2>2. toR' = toR \/ (toR # <<>> /\ ToSet(toR') \subseteq ToSet(toR))
    BY <1>1 DEF RLocated, Took, TookSet
  <2>3. toR = <<>> \/ Head(toR) \in ToSet(toR)
    BY <1>1 DEF Took, TookSet
  <2>4. \/ answer' = answer
        \/ toR # <<>> /\ answer' = Append(answer, Head(toR))
        \/ answer' = Append(answer, Msg("absent"))
    BY DEF RLocated, Tell, RAnswer, RReadable, SClosed
  <2>5. \A m \in ToSet(answer') : m \in ToSet(answer) \/ m \in ToSet(toR) \/ m = Msg("absent")
    BY <1>1, <2>3, <2>4 DEF Put, PutSet
  <2>. QED  BY <2>1, <2>2, <2>5, MsgIs DEF Received, Answered
<1>. QED  BY <1>4, <1>5, <1>6, <1>7, <1>8, <1>9

\* surrogate_r gives up the name locate and goes.
LEMMA RLocateTimeoutOrderly == ASSUME Types, Orderly, RLocateTimeout, Types' PROVE Orderly'
<1>. USE DEF Orderly
<1>1. Put(answer, Append(answer, Msg("absent")), Msg("absent"))
  BY PutFacts, TookFacts, FifoType, MessageType DEF Types
<1>2. /\ Sends(rfifo)' = Sends(rfifo)
      /\ Replies(toR)' = Replies(toR)
      /\ InTransit' = InTransit
  BY <1>1, OneMsg, AllCounted DEF RLocateTimeout, Tell, RAnswer, RReadable, SClosed, Silent,
     Put, PutCount, Counted, CountedIn, InTransit, cVars, rVars, sVars, vVars
<1>3. answer' = answer \/ Len(answer') = Len(answer) + 1
  BY <1>1 DEF RLocateTimeout, Tell, RAnswer, RReadable, SClosed, Silent, Put, PutCount
<1>4. Forms'
  BY <1>1, MsgIs DEF RLocateTimeout, Tell, RAnswer, RReadable, SClosed, Silent, Put, PutSet,
     cVars, rVars, sVars, vVars, Forms, Formed, Carrier
<1>5. Stages'
  BY <1>2, Measures, MeasuresNext, <1>3, <1>1, MsgIs DEF RLocateTimeout, Tell, RAnswer,
     RReadable, SClosed, Silent, Stages, OneOut, Transit, HeldIsInTransit, Held, cVars, rVars,
     sVars, vVars, Put, PutSet
<1>6. OneOut'
  <2>1. answer = <<>> /\ Len(answer) = 0
    BY DEF RLocateTimeout, Stages
  <2>2. UNCHANGED client /\ (answer' # answer => client \in {"locating", "sending"})
    BY DEF RLocateTimeout, Tell, RAnswer, RReadable, SClosed, Silent, cVars
  <2>3. r' # "up"
    BY DEF RLocateTimeout, Tell, RAnswer, RReadable, SClosed, Silent
  <2>4. Len(answer') <= 1
    <3>1. CASE answer' = answer
      BY ONLY <2>1, <3>1
    <3>2. CASE Len(answer') = Len(answer) + 1
      BY ONLY <2>1, <3>2
    <3>. QED  BY ONLY <1>3, <3>1, <3>2
  <2>. QED  BY ONLY <2>1, <2>2, <2>3, <2>4 DEF OneOut
<1>7. Transit'
  BY <1>2, Measures, MeasuresNext, <1>3 DEF RLocateTimeout, Tell, RAnswer, RReadable, SClosed,
     Silent, Stages, OneOut, Transit, HeldIsInTransit, Held, cVars, rVars, sVars, vVars
<1>8. Current'
  BY <1>1, MsgIs DEF RLocateTimeout, Tell, RAnswer, RReadable, SClosed, Silent, Put, PutSet,
     cVars, rVars, sVars, vVars, Current, About, Stages, OneOut
<1>9. Received'
  <2>1. UNCHANGED <<got, taken, yfifo, toR>>
    BY DEF RLocateTimeout, sVars, vVars
  <2>2. answer' = answer \/ answer' = Append(answer, Msg("absent"))
    BY DEF RLocateTimeout, Tell, RAnswer, RReadable, SClosed, Silent
  <2>3. \A m \in ToSet(answer') : m \in ToSet(answer) \/ m = Msg("absent")
    BY <1>1, <2>2 DEF Put, PutSet
  <2>. QED  BY <2>1, <2>3, MsgIs DEF Received, Answered
<1>. QED  BY <1>4, <1>5, <1>6, <1>7, <1>8, <1>9

\* The request leaves the fifo and is on its way as its client gets held.
LEMMA RSendOrderly == ASSUME Types, Orderly, RSend, Types' PROVE Orderly'
<1>. USE DEF Orderly
<1>1. /\ rfifo # <<>> => Took(rfifo, Tail(rfifo)) /\ Head(rfifo) \in Message
      /\ rfifo # <<>> => Put(toS, Append(toS, Head(rfifo)), Head(rfifo))
      /\ Put(answer, Append(answer, Msg("error")), Msg("error"))
  BY PutFacts, TookFacts, FifoType, MessageType DEF Types
<1>2. /\ Sends(rfifo)' + 1 = Sends(rfifo)
      /\ Replies(toR)' = Replies(toR)
      /\ r' = "up" => InTransit' = InTransit + 1
  <2>1. Sends(rfifo)' + 1 = Sends(rfifo)
    BY <1>1, OneMsg, AllCounted, AllCountedNext, OneIs DEF RSend, Tell, RWrites, RWriteFails,
       RTakes, RLoses, SClosed, ClientGone, Put, PutCount, Took, TookCount, Counted, CountedIn,
       InTransit, cVars, rVars, sVars, vVars
  <2>2. Replies(toR)' = Replies(toR)
    BY <1>1, OneMsg, AllCounted, AllCountedNext, OneIs DEF RSend, Tell, RWrites, RWriteFails,
       RTakes, RLoses, SClosed, ClientGone, Put, PutCount, Took, TookCount, Counted, CountedIn,
       InTransit, cVars, rVars, sVars, vVars
  <2>3. r' = "up" => InTransit' = InTransit + 1
    <3>. SUFFICES ASSUME r' = "up" PROVE InTransit' = InTransit + 1
      OBVIOUS
    <3>1. /\ rfifo # <<>> /\ Head(rfifo).kind = "send"
          /\ toS' = Append(toS, Head(rfifo))
      BY DEF RSend, RTakes, RLoses, RWrites, RWriteFails, Tell
    <3>2. One(Head(rfifo), RequestKind) = 1
      BY <3>1 DEF One, RequestKind
    <3>3. Requests(toS') = Requests(toS) + 1
      BY <1>1, <3>1, <3>2 DEF Put, PutCount
    <3>4. UNCHANGED <<vfifo, taken, yfifo, toR>>
      BY DEF RSend, sVars, vVars
    <3>. QED  BY <3>3, <3>4, TransitIs, TransitNext
  <2>. QED  BY <2>1, <2>2, <2>3
<1>3. answer' = answer \/ Len(answer') = Len(answer) + 1
  BY <1>1 DEF RSend, Tell, RWrites, RWriteFails, RTakes, RLoses, SClosed, ClientGone, Put,
     PutCount
<1>4. /\ UNCHANGED <<client, asked, got, s, vfifo, yfifo, taken, toR>> /\ r = "up"
      /\ rfifo # <<>> /\ ToSet(rfifo') \subseteq ToSet(rfifo) /\ Head(rfifo) \in ToSet(rfifo)
      /\ ToSet(toS') \subseteq ToSet(toS) \cup {Head(rfifo)}
      /\ ToSet(answer') \subseteq ToSet(answer) \cup {Msg("error")}
  <2>1. /\ UNCHANGED <<client, asked, got, s, vfifo, yfifo, taken, toR>> /\ r = "up"
        /\ rfifo # <<>> /\ rfifo' = Tail(rfifo)
        /\ toS' \in {toS, Append(toS, Head(rfifo))}
        /\ answer' \in {answer, Append(answer, Msg("error"))}
    BY ONLY RSend DEF RSend, Tell, RWrites, RWriteFails, RTakes, RLoses, cVars, sVars, vVars
  <2>. QED  BY ONLY <1>1, <2>1 DEF Put, PutSet, Took, TookSet
<1>5. Forms'
  BY ONLY <1>4, Orderly, MsgIs DEF Orderly, Forms, Formed
<1>6. Stages'
  BY <1>2, Measures, MeasuresNext, <1>3, <1>1, MsgIs DEF RSend, Tell, RWrites, RWriteFails,
     RTakes, RLoses, SClosed, ClientGone, Stages, OneOut, Transit, HeldIsInTransit, Held, cVars,
     rVars, sVars, vVars, Put, PutSet, Took, TookSet
<1>7. OneOut'
  BY <1>2, Measures, MeasuresNext, <1>3 DEF RSend, Tell, RWrites, RWriteFails, RTakes, RLoses,
     SClosed, ClientGone, Stages, OneOut, Transit, HeldIsInTransit, Held, cVars, rVars, sVars,
     vVars
<1>8. Transit'
  BY <1>2, Measures, MeasuresNext, <1>3 DEF RSend, Tell, RWrites, RWriteFails, RTakes, RLoses,
     SClosed, ClientGone, Stages, OneOut, Transit, HeldIsInTransit, Held, cVars, rVars, sVars,
     vVars
<1>9. Current'
  BY ONLY <1>4, Orderly, MsgIs DEF Orderly, Current, About
<1>10. Received'
  BY ONLY <1>4, Orderly, MsgIs DEF Orderly, Received, Answered
<1>. QED  BY <1>5, <1>6, <1>7, <1>8, <1>9, <1>10

\* A proxy is passed on without its client being held.
LEMMA RProxyOrderly == ASSUME Types, Orderly, RProxy, Types' PROVE Orderly'
<1>. USE DEF Orderly
<1>1. /\ rfifo # <<>> => Took(rfifo, Tail(rfifo)) /\ Head(rfifo) \in Message
      /\ rfifo # <<>> => Put(toS, Append(toS, Head(rfifo)), Head(rfifo))
      /\ Put(answer, Append(answer, Msg("error")), Msg("error"))
  BY PutFacts, TookFacts, FifoType, MessageType DEF Types
<1>2. /\ Sends(rfifo)' = Sends(rfifo)
      /\ Replies(toR)' = Replies(toR)
      /\ InTransit' = InTransit
  <2>1. Sends(rfifo)' = Sends(rfifo)
    <3>1. rfifo # <<>> /\ rfifo' = Tail(rfifo) /\ Head(rfifo).kind = "proxy"
      BY DEF RProxy, RTakes, RLoses
    <3>2. One(Head(rfifo), {"send"}) = 0
      BY <3>1 DEF One
    <3>. QED  BY <1>1, <3>1, <3>2, Measures, MeasuresNext DEF Took, TookCount
  <2>2. Replies(toR)' = Replies(toR)
    BY <1>1, OneMsg, AllCounted, AllCountedNext, OneIs DEF RProxy, Tell, RExit, RWrites,
       RWriteFails, RTakes, SClosed, Put, PutCount, Took, TookCount, Counted, CountedIn,
       InTransit, cVars, rVars, sVars, vVars
  <2>3. InTransit' = InTransit
    <3>1. /\ rfifo # <<>> /\ Head(rfifo).kind = "proxy"
          /\ toS' = toS \/ toS' = Append(toS, Head(rfifo))
      BY DEF RProxy, RTakes, RWrites, RWriteFails
    <3>2. One(Head(rfifo), RequestKind) = 0
      BY <3>1 DEF One, RequestKind
    <3>3. Requests(Append(toS, Head(rfifo))) = Requests(toS)
      BY <1>1, <3>1, <3>2, AllCounted DEF Put, PutCount, Counted, CountedIn
    <3>4. Requests(toS') = Requests(toS) /\ UNCHANGED <<vfifo, taken, yfifo, toR>>
      BY <3>1, <3>3 DEF RProxy, sVars, vVars
    <3>. QED  BY <3>4 DEF InTransit
  <2>. QED  BY <2>1, <2>2, <2>3
<1>3. answer' = answer \/ Len(answer') = Len(answer) + 1
  BY <1>1 DEF RProxy, Tell, RExit, RWrites, RWriteFails, RTakes, SClosed, Put, PutCount
<1>4. /\ UNCHANGED <<client, asked, got, s, vfifo, yfifo, taken, toR>> /\ r = "up"
      /\ rfifo # <<>> /\ ToSet(rfifo') \subseteq ToSet(rfifo) /\ Head(rfifo) \in ToSet(rfifo)
      /\ ToSet(toS') \subseteq ToSet(toS) \cup {Head(rfifo)}
      /\ ToSet(answer') \subseteq ToSet(answer) \cup {Msg("error")}
  <2>1. /\ UNCHANGED <<client, asked, got, s, vfifo, yfifo, taken, toR>> /\ r = "up"
        /\ rfifo # <<>> /\ rfifo' = Tail(rfifo)
        /\ toS' \in {toS, Append(toS, Head(rfifo))}
        /\ answer' \in {answer, Append(answer, Msg("error"))}
    BY ONLY RProxy DEF RProxy, Tell, RExit, RWrites, RWriteFails, RTakes, cVars, sVars, vVars
  <2>. QED  BY ONLY <1>1, <2>1 DEF Put, PutSet, Took, TookSet
<1>5. Forms'
  BY ONLY <1>4, Orderly, MsgIs DEF Orderly, Forms, Formed
<1>6. Stages'
  BY <1>2, Measures, MeasuresNext, <1>3, <1>1, MsgIs DEF RProxy, Tell, RExit, RWrites,
     RWriteFails, RTakes, SClosed, Stages, OneOut, Transit, HeldIsInTransit, Held, cVars, rVars,
     sVars, vVars, Put, PutSet, Took, TookSet
<1>7. OneOut'
  BY <1>2, Measures, MeasuresNext, <1>3 DEF RProxy, Tell, RExit, RWrites, RWriteFails, RTakes,
     SClosed, Stages, OneOut, Transit, HeldIsInTransit, Held, cVars, rVars, sVars, vVars
<1>8. Transit'
  BY <1>2, Measures, MeasuresNext, <1>3 DEF RProxy, Tell, RExit, RWrites, RWriteFails, RTakes,
     SClosed, Stages, OneOut, Transit, HeldIsInTransit, Held, cVars, rVars, sVars, vVars
<1>9. Current'
  BY ONLY <1>4, Orderly, MsgIs DEF Orderly, Current, About
<1>10. Received'
  BY ONLY <1>4, Orderly, MsgIs DEF Orderly, Received, Answered
<1>. QED  BY <1>5, <1>6, <1>7, <1>8, <1>9, <1>10

\* surrogate_r goes when its client goes.
LEMMA RCloseOrderly == ASSUME Types, Orderly, RClose, Types' PROVE Orderly'
<1>. USE DEF Orderly
<1>1. /\ rfifo # <<>> => Took(rfifo, Tail(rfifo)) /\ Head(rfifo) \in Message
      /\ Put(toS, Append(toS, Msg("close")), Msg("close"))
      /\ Put(answer, Append(answer, Msg("error")), Msg("error"))
  BY PutFacts, TookFacts, FifoType, MessageType DEF Types
<1>2. /\ Sends(rfifo)' = Sends(rfifo)
      /\ Replies(toR)' = Replies(toR)
      /\ InTransit' = InTransit
  <2>1. Sends(rfifo)' = Sends(rfifo)
    <3>1. rfifo # <<>> /\ rfifo' = Tail(rfifo) /\ Head(rfifo).kind = "close"
      BY DEF RClose, RTakes, RLoses
    <3>2. One(Head(rfifo), {"send"}) = 0
      BY <3>1 DEF One
    <3>. QED  BY <1>1, <3>1, <3>2, Measures, MeasuresNext DEF Took, TookCount
  <2>2. Replies(toR)' = Replies(toR)
    BY <1>1, OneMsg, AllCounted, AllCountedNext, OneIs DEF RClose, Tell, RExit, RWrites,
       RWriteFails, RTakes, SClosed, Put, PutCount, Took, TookCount, Counted, CountedIn,
       InTransit, cVars, rVars, sVars, vVars
  <2>3. InTransit' = InTransit
    <3>1. toS' = toS \/ toS' = Append(toS, Msg("close"))
      BY DEF RClose, RWrites, RWriteFails
    <3>2. Requests(Append(toS, Msg("close"))) = Requests(toS)
      BY <1>1, OneMsg, TransitIs DEF Put, PutCount
    <3>3. Requests(toS') = Requests(toS) /\ UNCHANGED <<vfifo, taken, yfifo, toR>>
      BY <3>1, <3>2 DEF RClose, sVars, vVars
    <3>. QED  BY <3>3 DEF InTransit
  <2>. QED  BY <2>1, <2>2, <2>3
<1>3. answer' = answer \/ Len(answer') = Len(answer) + 1
  BY <1>1 DEF RClose, Tell, RExit, RWrites, RWriteFails, RTakes, SClosed, Put, PutCount
<1>4. /\ UNCHANGED <<client, asked, got, s, vfifo, yfifo, taken, toR>> /\ r = "up"
      /\ rfifo # <<>> /\ ToSet(rfifo') \subseteq ToSet(rfifo) /\ Head(rfifo) \in ToSet(rfifo)
      /\ ToSet(toS') \subseteq ToSet(toS) \cup {Msg("close")}
      /\ ToSet(answer') \subseteq ToSet(answer) \cup {Msg("error")}
  <2>1. /\ UNCHANGED <<client, asked, got, s, vfifo, yfifo, taken, toR>> /\ r = "up"
        /\ rfifo # <<>> /\ rfifo' = Tail(rfifo)
        /\ toS' \in {toS, Append(toS, Msg("close"))}
        /\ answer' \in {answer, Append(answer, Msg("error"))}
    BY ONLY RClose DEF RClose, Tell, RExit, RWrites, RWriteFails, RTakes, cVars, sVars, vVars
  <2>. QED  BY ONLY <1>1, <2>1 DEF Put, PutSet, Took, TookSet
<1>5. Forms'
  BY ONLY <1>4, Orderly, MsgIs DEF Orderly, Forms, Formed
<1>6. Stages'
  BY <1>2, Measures, MeasuresNext, <1>3, <1>1, MsgIs DEF RClose, Tell, RExit, RWrites,
     RWriteFails, RTakes, SClosed, Stages, OneOut, Transit, HeldIsInTransit, Held, cVars, rVars,
     sVars, vVars, Put, PutSet, Took, TookSet
<1>7. OneOut'
  BY <1>2, Measures, MeasuresNext, <1>3 DEF RClose, Tell, RExit, RWrites, RWriteFails, RTakes,
     SClosed, Stages, OneOut, Transit, HeldIsInTransit, Held, cVars, rVars, sVars, vVars
<1>8. Transit'
  BY <1>2, Measures, MeasuresNext, <1>3 DEF RClose, Tell, RExit, RWrites, RWriteFails, RTakes,
     SClosed, Stages, OneOut, Transit, HeldIsInTransit, Held, cVars, rVars, sVars, vVars
<1>9. Current'
  <2>1. r' # "up"
    BY ONLY RClose DEF RClose, Tell, RExit
  <2>. QED  BY ONLY <1>4, <2>1, Orderly, MsgIs DEF Orderly, Current, About
<1>10. Received'
  BY ONLY <1>4, Orderly, MsgIs DEF Orderly, Received, Answered
<1>. QED  BY <1>5, <1>6, <1>7, <1>8, <1>9, <1>10

\* The reply that was on its way is the answer to the client that is held.
LEMMA RRemoteOrderly == ASSUME Types, Orderly, RRemote, Types' PROVE Orderly'
<1>. USE DEF Orderly
<1>1. /\ toR # <<>> => Took(toR, Tail(toR)) /\ Head(toR) \in Message
      /\ toR # <<>> => Put(answer, Append(answer, Head(toR)), Head(toR))
      /\ Put(answer, Append(answer, Msg("error")), Msg("error"))
  BY PutFacts, TookFacts, FifoType, MessageType DEF Types
<1>2. /\ Sends(rfifo)' = Sends(rfifo)
      /\ r' = "up" => toR # <<>>
      /\ r' = "up" /\ Head(toR).kind = "reply" => Replies(toR)' + 1 = Replies(toR) /\ InTransit' + 1 = InTransit
      /\ r' = "up" /\ Head(toR).kind # "reply" => Replies(toR)' = Replies(toR) /\ InTransit' = InTransit
  <2>1. Sends(rfifo)' = Sends(rfifo)
    BY <1>1, OneMsg, AllCounted, AllCountedNext, OneIs DEF RRemote, Tell, RAnswer, RFail, Heard,
       RReadable, SClosed, Put, PutCount, Took, TookCount, Counted, CountedIn, InTransit, cVars,
       rVars, sVars, vVars
  <2>2. r' = "up" => toR # <<>>
    BY <1>1, OneMsg, AllCounted, AllCountedNext, OneIs DEF RRemote, Tell, RAnswer, RFail, Heard,
       RReadable, SClosed, Put, PutCount, Took, TookCount, Counted, CountedIn, InTransit, cVars,
       rVars, sVars, vVars
  <2>3. r' = "up" /\ Head(toR).kind = "reply" => Replies(toR)' + 1 = Replies(toR) /\ InTransit' + 1 = InTransit
    <3>. SUFFICES ASSUME r' = "up", Head(toR).kind = "reply"
                  PROVE  Replies(toR)' + 1 = Replies(toR) /\ InTransit' + 1 = InTransit
      OBVIOUS
    <3>1. toR # <<>> /\ toR' = Tail(toR)
      BY <2>2 DEF RRemote
    <3>2. One(Head(toR), RequestKind) = 1 /\ One(Head(toR), {"reply"}) = 1
      BY DEF One, RequestKind
    <3>3. Requests(toR') + 1 = Requests(toR) /\ Replies(toR') + 1 = Replies(toR)
      BY <1>1, <3>1, <3>2 DEF Took, TookCount
    <3>4. UNCHANGED <<vfifo, taken, yfifo, toS>>
      BY DEF RRemote, sVars, vVars
    <3>. QED  BY <3>3, <3>4, TransitIs, TransitNext
  <2>4. r' = "up" /\ Head(toR).kind # "reply" => Replies(toR)' = Replies(toR) /\ InTransit' = InTransit
    <3>. SUFFICES ASSUME r' = "up", Head(toR).kind # "reply"
                  PROVE  Replies(toR)' = Replies(toR) /\ InTransit' = InTransit
      OBVIOUS
    <3>1. toR # <<>> /\ toR' = Tail(toR) /\ Head(toR).kind = "alive"
      BY <2>2 DEF RRemote, RFail, Tell
    <3>2. One(Head(toR), RequestKind) = 0 /\ One(Head(toR), {"reply"}) = 0
      BY <3>1 DEF One, RequestKind
    <3>3. Requests(toR') = Requests(toR) /\ Replies(toR') = Replies(toR)
      BY <1>1, <3>1, <3>2, TransitNext, MeasuresNext DEF Took, TookCount
    <3>4. UNCHANGED <<vfifo, taken, yfifo, toS>>
      BY DEF RRemote, sVars, vVars
    <3>. QED  BY <3>3, <3>4 DEF InTransit
  <2>. QED  BY <2>1, <2>2, <2>3, <2>4
<1>3. answer' = answer \/ Len(answer') = Len(answer) + 1
  BY <1>1 DEF RRemote, Tell, RAnswer, RFail, Heard, RReadable, SClosed, Put, PutCount
<1>4. Forms'
  BY <1>1, MsgIs DEF RRemote, Tell, RAnswer, RFail, Heard, RReadable, SClosed, Put, PutSet,
     Took, TookSet, cVars, rVars, sVars, vVars, Forms, Formed, Carrier
<1>5. Stages'
  BY <1>2, Measures, MeasuresNext, <1>3, <1>1, MsgIs DEF RRemote, Tell, RAnswer, RFail, Heard,
     RReadable, SClosed, Stages, OneOut, Transit, HeldIsInTransit, Held, cVars, rVars, sVars,
     vVars, Put, PutSet, Took, TookSet
<1>6. OneOut'
  BY <1>2, Measures, MeasuresNext, <1>3 DEF RRemote, Tell, RAnswer, RFail, Heard, RReadable,
     SClosed, Stages, OneOut, Transit, HeldIsInTransit, Held, cVars, rVars, sVars, vVars
<1>7. Transit'
  BY <1>2, Measures, MeasuresNext, <1>3 DEF RRemote, Tell, RAnswer, RFail, Heard, RReadable,
     SClosed, Stages, OneOut, Transit, HeldIsInTransit, Held, cVars, rVars, sVars, vVars
<1>8. Current'
  <2>1. UNCHANGED <<client, asked, s, vfifo, yfifo, taken, toS, rfifo>> /\ r = "up"
    BY DEF RRemote, cVars, sVars, vVars
  <2>2. toR' = toR \/ (toR # <<>> /\ ToSet(toR') \subseteq ToSet(toR))
    BY <1>1 DEF RRemote, Took, TookSet
  <2>3. toR = <<>> \/ Head(toR) \in ToSet(toR)
    BY <1>1 DEF Took, TookSet
  <2>4. \/ answer' = answer
        \/ toR # <<>> /\ answer' = Append(answer, Head(toR))
        \/ answer' = Append(answer, Msg("error"))
    BY DEF RRemote, Tell, RAnswer, RFail, Heard, RReadable, SClosed
  <2>5. \A m \in ToSet(answer') : m \in ToSet(answer) \/ m \in ToSet(toR) \/ m = Msg("error")
    BY <1>1, <2>3, <2>4 DEF Put, PutSet
  <2>. QED  BY <2>1, <2>2, <2>5, MsgIs DEF Current, About
<1>9. Received'
  <2>1. UNCHANGED <<got, taken, yfifo>>
    BY DEF RRemote, sVars, vVars
  <2>2. toR' = toR \/ (toR # <<>> /\ ToSet(toR') \subseteq ToSet(toR))
    BY <1>1 DEF RRemote, Took, TookSet
  <2>3. toR = <<>> \/ Head(toR) \in ToSet(toR)
    BY <1>1 DEF Took, TookSet
  <2>4. \/ answer' = answer
        \/ toR # <<>> /\ answer' = Append(answer, Head(toR))
        \/ answer' = Append(answer, Msg("error"))
    BY DEF RRemote, Tell, RAnswer, RFail, Heard, RReadable, SClosed
  <2>5. \A m \in ToSet(answer') : m \in ToSet(answer) \/ m \in ToSet(toR) \/ m = Msg("error")
    BY <1>1, <2>3, <2>4 DEF Put, PutSet
  <2>. QED  BY <2>1, <2>2, <2>5, MsgIs DEF Received, Answered
<1>. QED  BY <1>4, <1>5, <1>6, <1>7, <1>8, <1>9

\* A keep-alive is no request.
LEMMA RTimeoutOrderly == ASSUME Types, Orderly, RTimeout, Types' PROVE Orderly'
<1>. USE DEF Orderly
<1>1. /\ Put(toS, Append(toS, Msg("alive")), Msg("alive"))
      /\ Put(toS, Append(toS, Msg("close")), Msg("close"))
      /\ Put(answer, Append(answer, Msg("error")), Msg("error"))
  BY PutFacts, TookFacts, FifoType, MessageType DEF Types
<1>2. /\ Sends(rfifo)' = Sends(rfifo)
      /\ Replies(toR)' = Replies(toR)
      /\ InTransit' = InTransit
  <2>1. toS' = Append(toS, Msg("alive")) \/ toS' = Append(toS, Msg("close"))
    BY DEF RTimeout
  <2>2. /\ Requests(Append(toS, Msg("alive"))) = Requests(toS)
        /\ Requests(Append(toS, Msg("close"))) = Requests(toS)
    BY <1>1, OneMsg, TransitIs DEF Put, PutCount
  <2>3. Requests(toS') = Requests(toS)
    BY <2>1, <2>2
  <2>4. UNCHANGED <<rfifo, vfifo, taken, yfifo, toR>>
    BY DEF RTimeout, sVars, vVars
  <2>. QED  BY <2>3, <2>4 DEF InTransit
<1>3. answer' = answer \/ Len(answer') = Len(answer) + 1
  BY <1>1 DEF RTimeout, Tell, RExit, TooMany, RReadable, SClosed, ClientGone, Silent, Put,
     PutCount
<1>4. Forms'
  <2>1. UNCHANGED <<s, rfifo, vfifo, yfifo, toR>>
    BY DEF RTimeout, sVars, vVars
  <2>2. toS' = Append(toS, Msg("alive")) \/ toS' = Append(toS, Msg("close"))
    BY DEF RTimeout
  <2>3. \A m \in ToSet(toS') : m \in ToSet(toS) \/ m = Msg("alive") \/ m = Msg("close")
    BY <1>1, <2>2 DEF Put, PutSet
  <2>. QED  BY <2>1, <2>3, MsgIs DEF Forms, Formed
<1>5. Stages'
  BY <1>2, Measures, MeasuresNext, <1>3, <1>1, MsgIs DEF RTimeout, Tell, RExit, TooMany,
     RReadable, SClosed, ClientGone, Silent, Stages, OneOut, Transit, HeldIsInTransit, Held,
     cVars, rVars, sVars, vVars, Put, PutSet
<1>6. OneOut'
  BY <1>2, Measures, MeasuresNext, <1>3 DEF RTimeout, Tell, RExit, TooMany, RReadable, SClosed,
     ClientGone, Silent, Stages, OneOut, Transit, HeldIsInTransit, Held, cVars, rVars, sVars,
     vVars
<1>7. Transit'
  BY <1>2, Measures, MeasuresNext, <1>3 DEF RTimeout, Tell, RExit, TooMany, RReadable, SClosed,
     ClientGone, Silent, Stages, OneOut, Transit, HeldIsInTransit, Held, cVars, rVars, sVars,
     vVars
<1>8. Current'
  <2>1. UNCHANGED <<client, asked, s, vfifo, yfifo, taken, toR, rfifo>> /\ r = "up"
    BY DEF RTimeout, cVars, sVars, vVars
  <2>2. toS' = Append(toS, Msg("alive")) \/ toS' = Append(toS, Msg("close"))
    BY DEF RTimeout
  <2>3. \A m \in ToSet(toS') : m \in ToSet(toS) \/ m = Msg("alive") \/ m = Msg("close")
    BY <1>1, <2>2 DEF Put, PutSet
  <2>4. answer' = answer \/ answer' = Append(answer, Msg("error"))
    BY DEF RTimeout, Tell, RExit, TooMany, RReadable, SClosed, ClientGone, Silent
  <2>5. \A m \in ToSet(answer') : m \in ToSet(answer) \/ m = Msg("error")
    BY <1>1, <2>4 DEF Put, PutSet
  <2>. QED  BY <2>1, <2>3, <2>5, MsgIs DEF Current, About
<1>9. Received'
  <2>1. UNCHANGED <<got, taken, yfifo, toR>>
    BY DEF RTimeout, sVars, vVars
  <2>2. answer' = answer \/ answer' = Append(answer, Msg("error"))
    BY DEF RTimeout, Tell, RExit, TooMany, RReadable, SClosed, ClientGone, Silent
  <2>3. \A m \in ToSet(answer') : m \in ToSet(answer) \/ m = Msg("error")
    BY <1>1, <2>2 DEF Put, PutSet
  <2>. QED  BY <2>1, <2>3, MsgIs DEF Received, Answered
<1>. QED  BY <1>4, <1>5, <1>6, <1>7, <1>8, <1>9

\* A killed surrogate_r holds nobody.
LEMMA RKillOrderly == ASSUME Types, Orderly, RKill, Types' PROVE Orderly'
<1>. USE DEF Orderly
<1>2. /\ Sends(rfifo)' = Sends(rfifo)
      /\ Replies(toR)' = Replies(toR)
      /\ InTransit' = InTransit
  BY AllCounted DEF RKill, Counted, CountedIn, InTransit, cVars, rVars, sVars, vVars
<1>4. Forms'
  BY DEF RKill, cVars, rVars, sVars, vVars, Forms, Formed, Carrier
<1>5. Stages'
  BY <1>2, Measures, MeasuresNext DEF RKill, Stages, OneOut, Transit, HeldIsInTransit, Held,
     cVars, rVars, sVars, vVars
<1>6. OneOut'
  BY <1>2, Measures, MeasuresNext DEF RKill, Stages, OneOut, Transit, HeldIsInTransit, Held,
     cVars, rVars, sVars, vVars
<1>7. Transit'
  BY <1>2, Measures, MeasuresNext DEF RKill, Stages, OneOut, Transit, HeldIsInTransit, Held,
     cVars, rVars, sVars, vVars
<1>8. Current'
  BY DEF RKill, cVars, rVars, sVars, vVars, Current, About, Stages, OneOut
<1>9. Received'
  BY DEF RKill, cVars, rVars, sVars, vVars, Received, Answered
<1>. QED  BY <1>4, <1>5, <1>6, <1>7, <1>8, <1>9

\* surrogate_S takes the name locate message only.
LEMMA SForkOrderly == ASSUME Types, Orderly, SFork, Types' PROVE Orderly'
<1>. USE DEF Orderly
<1>1. /\ toS # <<>> => Took(toS, Tail(toS)) /\ Head(toS) \in Message
      /\ Put(toR, Append(toR, Msg("absent")), Msg("absent"))
  BY PutFacts, TookFacts, FifoType, MessageType DEF Types
<1>2. /\ Sends(rfifo)' = Sends(rfifo)
      /\ Replies(toR)' = Replies(toR)
      /\ InTransit' <= InTransit
  <2>1. Sends(rfifo)' = Sends(rfifo)
    BY <1>1, OneMsg, AllCounted, AllCountedNext, OneIs DEF SFork, Put, PutCount, Took,
       TookCount, Counted, CountedIn, InTransit, cVars, rVars, sVars, vVars
  <2>2. Replies(toR)' = Replies(toR)
    <3>1. toR' = toR \/ toR' = Append(toR, Msg("absent"))
      BY DEF SFork
    <3>2. Replies(Append(toR, Msg("absent"))) = Replies(toR)
      BY <1>1, OneMsg, Measures DEF Put, PutCount
    <3>. QED  BY <3>1, <3>2
  <2>3. InTransit' <= InTransit
    <3>1. toR' = toR \/ toR' = Append(toR, Msg("absent"))
      BY DEF SFork
    <3>2. Requests(Append(toR, Msg("absent"))) = Requests(toR)
      BY <1>1, OneMsg, AllCounted DEF Put, PutCount, Counted, CountedIn
    <3>3. Requests(toR') = Requests(toR)
      BY <3>1, <3>2
    <3>4. toS # <<>> /\ toS' = Tail(toS)
      BY DEF SFork
    <3>5. Requests(toS') + One(Head(toS), RequestKind) = Requests(toS)
      BY <1>1, <3>4 DEF Took, TookCount
    <3>6. One(Head(toS), RequestKind) \in Nat
      BY DEF One
    <3>7. UNCHANGED <<vfifo, taken, yfifo>>
      BY DEF SFork, vVars
    <3>. QED  BY <3>3, <3>5, <3>6, <3>7, TransitIs, TransitNext
  <2>. QED  BY <2>1, <2>2, <2>3
<1>4. Forms'
  BY <1>1, MsgIs DEF SFork, Put, PutSet, Took, TookSet, cVars, rVars, sVars, vVars, Forms,
     Formed, Carrier
<1>5. Stages'
  BY <1>2, Measures, MeasuresNext, <1>1, MsgIs DEF SFork, Stages, OneOut, Transit,
     HeldIsInTransit, Held, cVars, rVars, sVars, vVars, Put, PutSet, Took, TookSet
<1>6. OneOut'
  BY <1>2, Measures, MeasuresNext DEF SFork, Stages, OneOut, Transit, HeldIsInTransit, Held,
     cVars, rVars, sVars, vVars
<1>7. Transit'
  BY <1>2, Measures, MeasuresNext DEF SFork, Stages, OneOut, Transit, HeldIsInTransit, Held,
     cVars, rVars, sVars, vVars
<1>8. Current'
  BY <1>1, MsgIs DEF SFork, Put, PutSet, Took, TookSet, cVars, rVars, sVars, vVars, Current,
     About, Stages, OneOut
<1>9. Received'
  BY <1>1, MsgIs DEF SFork, Put, PutSet, Took, TookSet, cVars, rVars, sVars, vVars, Received,
     Answered
<1>. QED  BY <1>4, <1>5, <1>6, <1>7, <1>8, <1>9

\* surrogate_s comes up when nothing is on its way.
LEMMA SLocateOrderly == ASSUME Types, Orderly, SLocate, Types' PROVE Orderly'
<1>. USE DEF Orderly
<1>1. /\ Put(toR, Append(toR, Msg("found")), Msg("found"))
      /\ Put(toR, Append(toR, Msg("absent")), Msg("absent"))
  BY PutFacts, TookFacts, FifoType, MessageType DEF Types
<1>2. /\ Sends(rfifo)' = Sends(rfifo)
      /\ Replies(toR)' = Replies(toR)
      /\ InTransit' = InTransit
  <2>1. \/ toR' = toR \/ toR' = Append(toR, Msg("found"))
        \/ toR' = Append(toR, Msg("absent"))
    BY DEF SLocate
  <2>2. /\ Requests(Append(toR, Msg("found"))) = Requests(toR)
        /\ Requests(Append(toR, Msg("absent"))) = Requests(toR)
        /\ Replies(Append(toR, Msg("found"))) = Replies(toR)
        /\ Replies(Append(toR, Msg("absent"))) = Replies(toR)
    BY <1>1, OneMsg, TransitIs, Measures DEF Put, PutCount
  <2>3. Requests(toR') = Requests(toR) /\ Replies(toR') = Replies(toR)
    BY <2>1, <2>2
  <2>4. UNCHANGED <<rfifo, vfifo, taken, yfifo, toS>>
    BY DEF SLocate, rVars, vVars
  <2>. QED  BY <2>3, <2>4 DEF InTransit
<1>4. Forms'
  <2>1. UNCHANGED <<rfifo, toS, vfifo, yfifo>> /\ s = "forked"
    BY DEF SLocate, rVars, vVars
  <2>2. \/ toR' = toR \/ toR' = Append(toR, Msg("found"))
        \/ toR' = Append(toR, Msg("absent"))
    BY DEF SLocate
  <2>3. \A m \in ToSet(toR') : m \in ToSet(toR) \/ m = Msg("found") \/ m = Msg("absent")
    BY <1>1, <2>2 DEF Put, PutSet
  <2>. QED  BY <2>1, <2>3, MsgIs DEF Forms
<1>5. Stages'
  BY <1>2, Measures, MeasuresNext, <1>1, MsgIs DEF SLocate, RClosed, ReceiverGone, Stages,
     OneOut, Transit, HeldIsInTransit, Held, cVars, rVars, sVars, vVars, Put, PutSet
<1>6. OneOut'
  BY <1>2, Measures, MeasuresNext DEF SLocate, RClosed, ReceiverGone, Stages, OneOut, Transit,
     HeldIsInTransit, Held, cVars, rVars, sVars, vVars
<1>7. Transit'
  BY <1>2, Measures, MeasuresNext DEF SLocate, RClosed, ReceiverGone, Stages, OneOut, Transit,
     HeldIsInTransit, Held, cVars, rVars, sVars, vVars
<1>8. Current'
  BY <1>1, MsgIs DEF SLocate, RClosed, ReceiverGone, Put, PutSet, cVars, rVars, sVars, vVars,
     Current, About, Stages, OneOut
<1>9. Received'
  <2>1. UNCHANGED <<answer, yfifo, taken, got>> /\ s = "forked"
    BY DEF SLocate, rVars, vVars
  <2>2. \/ toR' = toR \/ toR' = Append(toR, Msg("found"))
        \/ toR' = Append(toR, Msg("absent"))
    BY DEF SLocate
  <2>3. \A m \in ToSet(toR') : m \in ToSet(toR) \/ m = Msg("found") \/ m = Msg("absent")
    BY <1>1, <2>2 DEF Put, PutSet
  <2>. QED  BY <2>1, <2>3, MsgIs DEF Received, Answered
<1>. QED  BY <1>4, <1>5, <1>6, <1>7, <1>8, <1>9

\* What leaves the connection goes on to the receiver, or surrogate_s goes.
LEMMA SMessageOrderly == ASSUME Types, Orderly, SMessage, Types' PROVE Orderly'
<1>. USE DEF Orderly
<1>1. /\ toS # <<>> => Took(toS, Tail(toS)) /\ Head(toS) \in Message
      /\ toS # <<>> => Put(vfifo, Append(vfifo, Head(toS)), Head(toS))
      /\ toS # <<>> => Put(toR, Append(toR, Head(toS)), Head(toS))
      /\ Put(toR, Append(toR, Msg("error")), Msg("error"))
  BY PutFacts, TookFacts, FifoType, MessageType DEF Types
<1>2. /\ Sends(rfifo)' = Sends(rfifo)
      /\ Replies(toR)' = Replies(toR)
      /\ s' = "up" => InTransit' = InTransit
  <2>1. Sends(rfifo)' = Sends(rfifo)
    BY <1>1, OneMsg, AllCounted, AllCountedNext, OneIs DEF SMessage, SFail, Posted, Heard,
       RClosed, ReceiverGone, Put, PutCount, Took, TookCount, Counted, CountedIn, InTransit,
       cVars, rVars, sVars, vVars
  <2>2. Replies(toR)' = Replies(toR)
    <3>1. CASE toR' = toR
      BY <3>1
    <3>2. CASE toR' = Append(toR, Msg("error"))
      BY <1>1, <3>2, OneMsg, Measures DEF Put, PutCount
    <3>3. CASE toS # <<>> /\ Head(toS).kind = "alive" /\ toR' = Append(toR, Head(toS))
      <4>1. One(Head(toS), {"reply"}) = 0
        BY <3>3 DEF One
      <4>. QED  BY <1>1, <3>3, <4>1, Measures DEF Put, PutCount
    <3>. QED  BY <3>1, <3>2, <3>3 DEF SMessage, SFail
  <2>3. s' = "up" => InTransit' = InTransit
    <3>. SUFFICES ASSUME s' = "up" PROVE InTransit' = InTransit
      OBVIOUS
    <3>1. toS # <<>> /\ toS' = Tail(toS) /\ UNCHANGED <<taken, yfifo>>
      BY DEF SMessage
    <3>2. Requests(toS') + One(Head(toS), RequestKind) = Requests(toS)
      BY <1>1, <3>1 DEF Took, TookCount
    <3>3. CASE vfifo' = Append(vfifo, Head(toS)) /\ toR' = toR
      <4>1. Requests(vfifo') = Requests(vfifo) + One(Head(toS), RequestKind)
        BY <1>1, <3>1, <3>3 DEF Put, PutCount
      <4>2. One(Head(toS), RequestKind) \in Nat
        BY DEF One
      <4>3. /\ Working' = Working /\ Requests(yfifo') = Requests(yfifo)
            /\ Requests(toR') = Requests(toR)
        BY <3>1, <3>3 DEF Working
      <4>. QED  BY ONLY <3>2, <4>1, <4>2, <4>3, TransitIs, TransitNext, Types, Types'
    <3>4. CASE /\ Head(toS).kind = "alive" /\ vfifo' = vfifo
               /\ toR' = Append(toR, Head(toS))
      <4>1. One(Head(toS), RequestKind) = 0
        BY <3>4 DEF One, RequestKind
      <4>2. Requests(toR') = Requests(toR) + One(Head(toS), RequestKind)
        BY <1>1, <3>1, <3>4 DEF Put, PutCount
      <4>3. /\ Working' = Working /\ Requests(yfifo') = Requests(yfifo)
            /\ Requests(vfifo') = Requests(vfifo)
        BY <3>1, <3>4 DEF Working
      <4>. QED  BY ONLY <3>2, <4>1, <4>2, <4>3, TransitIs, TransitNext, Types, Types'
    <3>. QED  BY <3>3, <3>4 DEF SMessage, SFail, Posted
  <2>. QED  BY <2>1, <2>2, <2>3
<1>4. Forms'
  <2>1. UNCHANGED <<rfifo, yfifo>> /\ s = "up" /\ Head(toS) \in ToSet(toS)
        /\ ToSet(toS') \subseteq ToSet(toS)
    BY <1>1 DEF SMessage, rVars, Took, TookSet
  <2>2. \/ vfifo' = vfifo
        \/ Head(toS).kind \in {"send", "proxy"} /\ ToSet(vfifo') = ToSet(vfifo) \cup {Head(toS)}
    BY <1>1 DEF SMessage, SFail, Posted, Put, PutSet
  <2>3. s' = "up" => \/ toR' = toR
                     \/ Head(toS).kind = "alive" /\ ToSet(toR') = ToSet(toR) \cup {Head(toS)}
    BY <1>1 DEF SMessage, SFail, Put, PutSet
  <2>4. s' \in {"up", "gone"}
    BY <2>1 DEF SMessage, SFail
  <2>. QED  BY <2>1, <2>2, <2>3, <2>4 DEF Forms, Formed, Carrier
<1>5. Stages'
  <2>1. /\ r \notin {"attached", "locating"} /\ UNCHANGED <<client, r, receiver, taken>>
        /\ s' \in {"up", "gone"}
    BY <1>1 DEF SMessage, SFail, Took, TookSet, Stages, cVars, rVars
  <2>2. receiver # "up" => vfifo' = vfifo
    BY DEF SMessage, ReceiverGone, SFail, Types
  <2>. QED  BY <2>1, <2>2 DEF Stages
<1>6. OneOut'
  BY <1>2, Measures, MeasuresNext DEF SMessage, SFail, Posted, Heard, RClosed, ReceiverGone,
     Stages, OneOut, Transit, HeldIsInTransit, Held, cVars, rVars, sVars, vVars
<1>7. Transit'
  BY <1>2, Measures, MeasuresNext DEF SMessage, SFail, Posted, Heard, RClosed, ReceiverGone,
     Stages, OneOut, Transit, HeldIsInTransit, Held, cVars, rVars, sVars, vVars
<1>8. Current'
  <2>1. UNCHANGED <<client, asked, answer, r, rfifo, yfifo, taken>> /\ Head(toS) \in ToSet(toS)
        /\ ToSet(toS') \subseteq ToSet(toS) /\ s = "up"
    BY <1>1 DEF SMessage, cVars, rVars, Took, TookSet
  <2>2. vfifo' = vfifo \/ ToSet(vfifo') = ToSet(vfifo) \cup {Head(toS)}
    BY <1>1 DEF SMessage, SFail, Posted, Put, PutSet
  <2>3. \A m \in ToSet(toR') : m \in ToSet(toR) \/ m.kind \in {"alive", "error"}
    BY <1>1, MsgIs DEF SMessage, SFail, Put, PutSet
  <2>. QED  BY <2>1, <2>2, <2>3 DEF Current, About
<1>9. Received'
  BY <1>1, MsgIs DEF SMessage, SFail, Posted, Heard, RClosed, ReceiverGone, Put, PutSet, Took,
     TookSet, cVars, rVars, sVars, vVars, Received, Answered
<1>. QED  BY <1>4, <1>5, <1>6, <1>7, <1>8, <1>9

\* surrogate_s goes at the end of the stream.
LEMMA SEndOrderly == ASSUME Types, Orderly, SEnd, Types' PROVE Orderly'
<1>. USE DEF Orderly
<1>1. Put(toR, Append(toR, Msg("error")), Msg("error"))
  BY PutFacts, TookFacts, FifoType, MessageType DEF Types
<1>2. /\ Sends(rfifo)' = Sends(rfifo)
      /\ Replies(toR)' = Replies(toR)
  BY <1>1, OneMsg, AllCounted DEF SEnd, SFail, SReadable, RClosed, Put, PutCount, Counted,
     CountedIn, InTransit, cVars, rVars, sVars, vVars
<1>4. Forms'
  BY <1>1, MsgIs DEF SEnd, SFail, SReadable, RClosed, Put, PutSet, cVars, rVars, sVars, vVars,
     Forms, Formed, Carrier
<1>5. Stages'
  BY <1>2, Measures, MeasuresNext, <1>1, MsgIs DEF SEnd, SFail, SReadable, RClosed, Stages,
     OneOut, Transit, HeldIsInTransit, Held, cVars, rVars, sVars, vVars, Put, PutSet
<1>6. OneOut'
  BY <1>2, Measures, MeasuresNext DEF SEnd, SFail, SReadable, RClosed, Stages, OneOut, Transit,
     HeldIsInTransit, Held, cVars, rVars, sVars, vVars
<1>7. Transit'
  BY <1>2, Measures, MeasuresNext DEF SEnd, SFail, SReadable, RClosed, Stages, OneOut, Transit,
     HeldIsInTransit, Held, cVars, rVars, sVars, vVars
<1>8. Current'
  BY <1>1, MsgIs DEF SEnd, SFail, SReadable, RClosed, Put, PutSet, cVars, rVars, sVars, vVars,
     Current, About, Stages, OneOut
<1>9. Received'
  BY <1>1, MsgIs DEF SEnd, SFail, SReadable, RClosed, Put, PutSet, cVars, rVars, sVars, vVars,
     Received, Answered
<1>. QED  BY <1>4, <1>5, <1>6, <1>7, <1>8, <1>9

\* The reply leaves the fifo of surrogate_s for the connection.
LEMMA SReplyOrderly == ASSUME Types, Orderly, SReply, Types' PROVE Orderly'
<1>. USE DEF Orderly
<1>1. /\ yfifo # <<>> => Took(yfifo, Tail(yfifo)) /\ Head(yfifo) \in Message
      /\ yfifo # <<>> => Put(toR, Append(toR, [Head(yfifo) EXCEPT !.kind = "reply"]), [Head(yfifo) EXCEPT !.kind = "reply"])
      /\ Put(toR, Append(toR, Msg("error")), Msg("error"))
  BY PutFacts, TookFacts, FifoType, MessageType DEF Types
<1>2. /\ Sends(rfifo)' = Sends(rfifo)
      /\ InTransit # 0
      /\ s' = "up" => Replies(toR)' = Replies(toR) + 1 /\ InTransit' = InTransit
      /\ s' # "up" => Replies(toR)' = Replies(toR)
  <2>1. Sends(rfifo)' = Sends(rfifo)
    BY <1>1, OneMsg, AllCounted, AllCountedNext, OneIs DEF SReply, SFail, Passed, SReadable,
       RClosed, Put, PutCount, Took, TookCount, Counted, CountedIn, InTransit, cVars, rVars,
       sVars, vVars
  <2>2. InTransit # 0
    <3>1. yfifo # <<>>
      BY DEF SReply
    <3>2. Head(yfifo).kind \in {"reply", "error"} /\ Head(yfifo) \in ToSet(yfifo)
      BY <1>1, <3>1 DEF Forms, Took, TookSet
    <3>3. Requests(yfifo) # 0
      BY <3>2, Numbers DEF Types, RequestKind
    <3>. QED  BY ONLY <3>3, TransitIs, Types
  <2>3. s' = "up" => Replies(toR)' = Replies(toR) + 1 /\ InTransit' = InTransit
    <3>. SUFFICES ASSUME s' = "up"
                  PROVE  Replies(toR)' = Replies(toR) + 1 /\ InTransit' = InTransit
      OBVIOUS
    <3>. DEFINE m == [Head(yfifo) EXCEPT !.kind = "reply"]
    <3>1. /\ yfifo # <<>> /\ yfifo' = Tail(yfifo) /\ Head(yfifo).kind = "reply"
          /\ toR' = Append(toR, m) /\ UNCHANGED <<toS, vfifo, taken>>
      BY DEF SReply, SFail, Passed, vVars
    <3>2. m.kind = "reply"
      BY <1>1, <3>1 DEF Message
    <3>3. /\ One(Head(yfifo), RequestKind) = 1 /\ One(m, RequestKind) = 1
          /\ One(m, {"reply"}) = 1
      BY <3>1, <3>2 DEF One, RequestKind
    <3>4. Requests(yfifo') + 1 = Requests(yfifo)
      BY <1>1, <3>1, <3>3 DEF Took, TookCount
    <3>5. Requests(toR') = Requests(toR) + 1 /\ Replies(toR') = Replies(toR) + 1
      BY <1>1, <3>1, <3>3 DEF Put, PutCount
    <3>6. /\ Working' = Working /\ Requests(toS') = Requests(toS)
          /\ Requests(vfifo') = Requests(vfifo)
      BY <3>1 DEF Working
    <3>. QED  BY ONLY <3>4, <3>5, <3>6, TransitIs, TransitNext, Types, Types'
  <2>4. s' # "up" => Replies(toR)' = Replies(toR)
    <3>. SUFFICES ASSUME s' # "up" PROVE Replies(toR)' = Replies(toR)
      OBVIOUS
    <3>1. toR' = Append(toR, Msg("error"))
      BY DEF SReply, SFail
    <3>. QED  BY <1>1, <3>1, OneMsg, Measures DEF Put, PutCount
  <2>. QED  BY <2>1, <2>2, <2>3, <2>4
<1>4. Forms'
  <2>1. UNCHANGED <<rfifo, toS, vfifo>> /\ yfifo # <<>> /\ Head(yfifo) \in ToSet(yfifo)
        /\ ToSet(yfifo') \subseteq ToSet(yfifo) /\ s = "up"
    BY <1>1 DEF SReply, cVars, rVars, vVars, Took, TookSet
  <2>. DEFINE x == [Head(yfifo) EXCEPT !.kind = "reply"]
  <2>2. x.kind = "reply" /\ x.n = Head(yfifo).n
    BY <1>1, <2>1 DEF Message
  <2>3. \/ s' = s /\ Head(yfifo).kind = "reply" /\ ToSet(toR') = ToSet(toR) \cup {x}
        \/ s' = "gone" /\ ToSet(toR') = ToSet(toR) \cup {Msg("error")}
    BY <1>1, <2>1 DEF SReply, SFail, Passed, Put, PutSet
  <2>. HIDE DEF x
  <2>. QED  BY <2>1, <2>2, <2>3 DEF Forms
<1>5. Stages'
  BY <1>2, Measures, MeasuresNext, <1>1, MsgIs DEF SReply, SFail, Passed, SReadable, RClosed,
     Stages, OneOut, Transit, HeldIsInTransit, Held, cVars, rVars, sVars, vVars, Put, PutSet,
     Took, TookSet
<1>6. OneOut'
  BY <1>2, Measures, MeasuresNext DEF SReply, SFail, Passed, SReadable, RClosed, Stages, OneOut,
     Transit, HeldIsInTransit, Held, cVars, rVars, sVars, vVars
<1>7. Transit'
  BY <1>2, Measures, MeasuresNext DEF SReply, SFail, Passed, SReadable, RClosed, Stages, OneOut,
     Transit, HeldIsInTransit, Held, cVars, rVars, sVars, vVars
<1>8. Current'
  <2>1. UNCHANGED <<client, asked, answer, r, rfifo, toS, vfifo, taken>> /\ yfifo # <<>> /\ Head(yfifo) \in ToSet(yfifo)
        /\ ToSet(yfifo') \subseteq ToSet(yfifo) /\ s = "up"
    BY <1>1 DEF SReply, cVars, rVars, vVars, Took, TookSet
  <2>. DEFINE x == [Head(yfifo) EXCEPT !.kind = "reply"]
  <2>2. x.kind = "reply" /\ x.n = Head(yfifo).n
    BY <1>1, <2>1 DEF Message
  <2>3. \/ s' = s /\ Head(yfifo).kind = "reply" /\ ToSet(toR') = ToSet(toR) \cup {x}
        \/ s' = "gone" /\ ToSet(toR') = ToSet(toR) \cup {Msg("error")}
    BY <1>1, <2>1 DEF SReply, SFail, Passed, Put, PutSet
  <2>. HIDE DEF x
  <2>. QED  BY <2>1, <2>2, <2>3, MsgIs DEF Current, About
<1>9. Received'
  <2>1. UNCHANGED <<answer, got, taken>> /\ yfifo # <<>> /\ Head(yfifo) \in ToSet(yfifo)
        /\ ToSet(yfifo') \subseteq ToSet(yfifo) /\ s = "up"
    BY <1>1 DEF SReply, cVars, rVars, vVars, Took, TookSet
  <2>. DEFINE x == [Head(yfifo) EXCEPT !.kind = "reply"]
  <2>2. x.kind = "reply" /\ x.n = Head(yfifo).n
    BY <1>1, <2>1 DEF Message
  <2>3. \/ s' = s /\ Head(yfifo).kind = "reply" /\ ToSet(toR') = ToSet(toR) \cup {x}
        \/ s' = "gone" /\ ToSet(toR') = ToSet(toR) \cup {Msg("error")}
    BY <1>1, <2>1 DEF SReply, SFail, Passed, Put, PutSet
  <2>. HIDE DEF x
  <2>. QED  BY <2>1, <2>2, <2>3, MsgIs DEF Received, Answered
<1>. QED  BY <1>4, <1>5, <1>6, <1>7, <1>8, <1>9

\* A time-out of surrogate_s moves nothing.
LEMMA STimeoutOrderly == ASSUME Types, Orderly, STimeout, Types' PROVE Orderly'
<1>. USE DEF Orderly
<1>2. /\ Sends(rfifo)' = Sends(rfifo)
      /\ Replies(toR)' = Replies(toR)
      /\ InTransit' = InTransit
  BY AllCounted DEF STimeout, TooMany, SReadable, RClosed, ReceiverGone, Counted, CountedIn,
     InTransit, cVars, rVars, sVars, vVars
<1>4. Forms'
  BY DEF STimeout, TooMany, SReadable, RClosed, ReceiverGone, cVars, rVars, sVars, vVars, Forms,
     Formed, Carrier
<1>5. Stages'
  BY <1>2, Measures, MeasuresNext DEF STimeout, TooMany, SReadable, RClosed, ReceiverGone,
     Stages, OneOut, Transit, HeldIsInTransit, Held, cVars, rVars, sVars, vVars
<1>6. OneOut'
  BY <1>2, Measures, MeasuresNext DEF STimeout, TooMany, SReadable, RClosed, ReceiverGone,
     Stages, OneOut, Transit, HeldIsInTransit, Held, cVars, rVars, sVars, vVars
<1>7. Transit'
  BY <1>2, Measures, MeasuresNext DEF STimeout, TooMany, SReadable, RClosed, ReceiverGone,
     Stages, OneOut, Transit, HeldIsInTransit, Held, cVars, rVars, sVars, vVars
<1>8. Current'
  BY DEF STimeout, TooMany, SReadable, RClosed, ReceiverGone, cVars, rVars, sVars, vVars,
     Current, About, Stages, OneOut
<1>9. Received'
  BY DEF STimeout, TooMany, SReadable, RClosed, ReceiverGone, cVars, rVars, sVars, vVars,
     Received, Answered
<1>. QED  BY <1>4, <1>5, <1>6, <1>7, <1>8, <1>9

\* A killed surrogate_s moves nothing more.
LEMMA SKillOrderly == ASSUME Types, Orderly, SKill, Types' PROVE Orderly'
<1>. USE DEF Orderly
<1>2. /\ Sends(rfifo)' = Sends(rfifo)
      /\ Replies(toR)' = Replies(toR)
      /\ InTransit' = InTransit
  BY AllCounted DEF SKill, Counted, CountedIn, InTransit, cVars, rVars, sVars, vVars
<1>4. Forms'
  BY DEF SKill, cVars, rVars, sVars, vVars, Forms, Formed, Carrier
<1>5. Stages'
  BY <1>2, Measures, MeasuresNext DEF SKill, Stages, OneOut, Transit, HeldIsInTransit, Held,
     cVars, rVars, sVars, vVars
<1>6. OneOut'
  BY <1>2, Measures, MeasuresNext DEF SKill, Stages, OneOut, Transit, HeldIsInTransit, Held,
     cVars, rVars, sVars, vVars
<1>7. Transit'
  BY <1>2, Measures, MeasuresNext DEF SKill, Stages, OneOut, Transit, HeldIsInTransit, Held,
     cVars, rVars, sVars, vVars
<1>8. Current'
  BY DEF SKill, cVars, rVars, sVars, vVars, Current, About, Stages, OneOut
<1>9. Received'
  BY DEF SKill, cVars, rVars, sVars, vVars, Received, Answered
<1>. QED  BY <1>4, <1>5, <1>6, <1>7, <1>8, <1>9

\* The receiver works on the request it has taken.
LEMMA TakeOrderly == ASSUME Types, Orderly, Take, Types' PROVE Orderly'
<1>. USE DEF Orderly
<1>1. vfifo # <<>> => Took(vfifo, Tail(vfifo)) /\ Head(vfifo) \in Message
  BY PutFacts, TookFacts, FifoType, MessageType DEF Types
<1>2. /\ Sends(rfifo)' = Sends(rfifo)
      /\ Replies(toR)' = Replies(toR)
      /\ InTransit' = InTransit
  <2>1. Sends(rfifo)' = Sends(rfifo)
    BY <1>1, AllCounted, AllCountedNext, OneIs DEF Take, Took, TookCount, Counted, CountedIn,
       InTransit, cVars, rVars, sVars, vVars
  <2>2. Replies(toR)' = Replies(toR)
    BY <1>1, AllCounted, AllCountedNext, OneIs DEF Take, Took, TookCount, Counted, CountedIn,
       InTransit, cVars, rVars, sVars, vVars
  <2>3. InTransit' = InTransit
    <3>1. /\ vfifo # <<>> /\ vfifo' = Tail(vfifo) /\ taken = 0 /\ taken' = Head(vfifo).n
          /\ UNCHANGED <<toS, yfifo, toR>>
      BY DEF Take, sVars
    <3>2. Requests(vfifo') + One(Head(vfifo), RequestKind) = Requests(vfifo)
      BY <1>1, <3>1 DEF Took, TookCount
    <3>3. Head(vfifo) \in ToSet(vfifo)
      BY <1>1, <3>1 DEF Took, TookSet
    <3>4. One(Head(vfifo), RequestKind) = IF taken' # 0 THEN 1 ELSE 0
      BY <3>1, <3>3 DEF One, RequestKind, Forms, Formed, Carrier
    <3>. QED
      <4>1. /\ InTransit = Requests(toS) + Requests(vfifo) + Working + Requests(yfifo) + Requests(toR)
            /\ Requests(toS) \in Nat /\ Requests(vfifo) \in Nat /\ Requests(yfifo) \in Nat
            /\ Requests(toR) \in Nat /\ Working \in Nat /\ Working = 0
        BY TransitIs, <3>1
      <4>2. /\ InTransit' = Requests(toS') + Requests(vfifo') + Working' + Requests(yfifo')
                             + Requests(toR')
            /\ Requests(vfifo') \in Nat /\ Working' \in Nat /\ Working' = One(Head(vfifo), RequestKind)
        BY TransitNext, <3>4 DEF Working
      <4>3. /\ Requests(toS') = Requests(toS) /\ Requests(yfifo') = Requests(yfifo)
            /\ Requests(toR') = Requests(toR)
        BY ONLY <3>1
      <4>. QED  BY ONLY <3>2, <4>1, <4>2, <4>3
  <2>. QED  BY <2>1, <2>2, <2>3
<1>4. Forms'
  BY <1>1 DEF Take, Took, TookSet, cVars, rVars, sVars, vVars, Forms, Formed, Carrier
<1>5. Stages'
  BY <1>2, Measures, MeasuresNext, <1>1 DEF Take, Stages, OneOut, Transit, HeldIsInTransit,
     Held, cVars, rVars, sVars, vVars, Took, TookSet
<1>6. OneOut'
  BY <1>2, Measures, MeasuresNext DEF Take, Stages, OneOut, Transit, HeldIsInTransit, Held,
     cVars, rVars, sVars, vVars
<1>7. Transit'
  BY <1>2, Measures, MeasuresNext DEF Take, Stages, OneOut, Transit, HeldIsInTransit, Held,
     cVars, rVars, sVars, vVars
<1>8. Current'
  <2>1. UNCHANGED <<client, asked, answer, r, s, rfifo, toS, toR, yfifo>> /\ vfifo # <<>> /\ Head(vfifo) \in ToSet(vfifo) /\ Head(vfifo) \in Message
        /\ ToSet(vfifo') \subseteq ToSet(vfifo) /\ s = "up" /\ taken' = Head(vfifo).n
        /\ got' = Append(got, Head(vfifo).n)
    BY <1>1 DEF Take, cVars, rVars, sVars, Took, TookSet
  <2>2. Head(vfifo).n # 0 => Head(vfifo).kind = "send"
    BY <2>1 DEF Forms, Formed, Carrier
  <2>. QED  BY <2>1, <2>2 DEF Current, About
<1>9. Received'
  <2>1. UNCHANGED <<answer, toR, yfifo>> /\ vfifo # <<>> /\ Head(vfifo) \in ToSet(vfifo) /\ Head(vfifo) \in Message
        /\ ToSet(vfifo') \subseteq ToSet(vfifo) /\ s = "up" /\ taken' = Head(vfifo).n
        /\ got' = Append(got, Head(vfifo).n)
    BY <1>1 DEF Take, cVars, rVars, sVars, Took, TookSet
  <2>2. Contains(got', taken') /\ \A y : Contains(got, y) => Contains(got', y)
    BY <2>1, Gotten, MessageType DEF Types
  <2>. QED  BY <2>1, <2>2 DEF Received, Answered
<1>. QED  BY <1>4, <1>5, <1>6, <1>7, <1>8, <1>9

\* The reply to the request takes its place.
LEMMA AnswerOrderly == ASSUME Types, Orderly, Answer, Types' PROVE Orderly'
<1>. USE DEF Orderly
<1>1. /\ Put(yfifo, Append(yfifo, [kind |-> "reply", n |-> taken]), [kind |-> "reply", n |-> taken])
      /\ Put(yfifo, Append(yfifo, Msg("error")), Msg("error"))
  BY PutFacts, TookFacts, FifoType, MessageType DEF Types
<1>2. /\ Sends(rfifo)' = Sends(rfifo)
      /\ Replies(toR)' = Replies(toR)
      /\ InTransit # 0
      /\ s = "up" => InTransit' = InTransit
  <2>1. Sends(rfifo)' = Sends(rfifo)
    BY <1>1, OneMsg, AllCounted DEF Answer, Put, PutCount, Counted, CountedIn, InTransit, cVars,
       rVars, sVars, vVars
  <2>2. Replies(toR)' = Replies(toR)
    BY <1>1, OneMsg, AllCounted DEF Answer, Put, PutCount, Counted, CountedIn, InTransit, cVars,
       rVars, sVars, vVars
  <2>3. InTransit # 0
    <3>1. taken # 0
      BY DEF Answer
    <3>. QED  BY <3>1, TransitIs, TransitNext
  <2>4. s = "up" => InTransit' = InTransit
    <3>. SUFFICES ASSUME s = "up" PROVE InTransit' = InTransit
      OBVIOUS
    <3>1. /\ taken # 0 /\ taken' = 0 /\ UNCHANGED <<toS, vfifo, toR>>
          /\ \/ yfifo' = Append(yfifo, [kind |-> "reply", n |-> taken])
             \/ yfifo' = Append(yfifo, Msg("error"))
      BY DEF Answer
    <3>2. One([kind |-> "reply", n |-> taken], RequestKind) = 1
      BY DEF One, RequestKind
    <3>3. Requests(yfifo') = Requests(yfifo) + 1
      BY <1>1, <3>1, <3>2, OneMsg DEF Put, PutCount
    <3>. QED  BY <3>1, <3>3, TransitIs, TransitNext
  <2>. QED  BY <2>1, <2>2, <2>3, <2>4
<1>4. Forms'
  BY <1>1, MsgIs DEF Answer, Put, PutSet, cVars, rVars, sVars, vVars, Forms, Formed, Carrier
<1>5. Stages'
  BY <1>2, Measures, MeasuresNext, <1>1, MsgIs DEF Answer, Stages, OneOut, Transit,
     HeldIsInTransit, Held, cVars, rVars, sVars, vVars, Put, PutSet
<1>6. OneOut'
  BY <1>2, Measures, MeasuresNext DEF Answer, Stages, OneOut, Transit, HeldIsInTransit, Held,
     cVars, rVars, sVars, vVars
<1>7. Transit'
  BY <1>2, Measures, MeasuresNext DEF Answer, Stages, OneOut, Transit, HeldIsInTransit, Held,
     cVars, rVars, sVars, vVars
<1>8. Current'
  BY <1>1, MsgIs DEF Answer, Put, PutSet, cVars, rVars, sVars, vVars, Current, About, Stages,
     OneOut
<1>9. Received'
  BY <1>1, MsgIs DEF Answer, Put, PutSet, cVars, rVars, sVars, vVars, Received, Answered
<1>. QED  BY <1>4, <1>5, <1>6, <1>7, <1>8, <1>9

\* What the receiver had goes with it.
LEMMA ReceiverExitOrderly == ASSUME Types, Orderly, ReceiverExit, Types' PROVE Orderly'
<1>. USE DEF Orderly
<1>1. Put(yfifo, Append(yfifo, Msg("error")), Msg("error"))
  BY PutFacts, TookFacts, FifoType, MessageType DEF Types
<1>2. /\ Sends(rfifo)' = Sends(rfifo)
      /\ Replies(toR)' = Replies(toR)
      /\ InTransit' <= InTransit
  <2>1. Sends(rfifo)' = Sends(rfifo)
    BY <1>1, OneMsg, Nothing, AllCounted DEF ReceiverExit, Put, PutCount, Counted, CountedIn,
       InTransit, cVars, rVars, sVars, vVars
  <2>2. Replies(toR)' = Replies(toR)
    BY <1>1, OneMsg, Nothing, AllCounted DEF ReceiverExit, Put, PutCount, Counted, CountedIn,
       InTransit, cVars, rVars, sVars, vVars
  <2>3. InTransit' <= InTransit
    <3>1. /\ taken' = 0 /\ vfifo' = <<>> /\ UNCHANGED <<toS, toR>>
          /\ yfifo' = yfifo \/ (taken # 0 /\ yfifo' = Append(yfifo, Msg("error")))
      BY DEF ReceiverExit
    <3>2. Requests(Append(yfifo, Msg("error"))) = Requests(yfifo) + 1
      BY <1>1, OneMsg DEF Put, PutCount
    <3>3. Requests(yfifo') <= Requests(yfifo) + Working
      <4>. HIDE DEF Orderly
      <4>1. CASE yfifo' = yfifo
        BY <4>1, TransitIs
      <4>2. CASE taken # 0 /\ yfifo' = Append(yfifo, Msg("error"))
        BY <3>2, <4>2, TransitIs
      <4>. QED  BY <3>1, <4>1, <4>2
    <3>4. Requests(vfifo') = 0
      BY <3>1, Nothing
    <3>5. /\ Working' = 0 /\ Requests(toS') = Requests(toS)
          /\ Requests(toR') = Requests(toR)
      BY <3>1 DEF Working
    <3>. QED  BY ONLY <3>3, <3>4, <3>5, TransitIs, TransitNext, Types, Types'
  <2>. QED  BY <2>1, <2>2, <2>3
<1>4. Forms'
  BY <1>1, MsgIs, Nothing DEF ReceiverExit, Put, PutSet, cVars, rVars, sVars, vVars, Forms,
     Formed, Carrier
<1>5. Stages'
  BY <1>2, Measures, MeasuresNext, Nothing, <1>1, MsgIs DEF ReceiverExit, Stages, OneOut,
     Transit, HeldIsInTransit, Held, cVars, rVars, sVars, vVars, Put, PutSet
<1>6. OneOut'
  BY <1>2, Measures, MeasuresNext, Nothing DEF ReceiverExit, Stages, OneOut, Transit,
     HeldIsInTransit, Held, cVars, rVars, sVars, vVars
<1>7. Transit'
  BY <1>2, Measures, MeasuresNext, Nothing DEF ReceiverExit, Stages, OneOut, Transit,
     HeldIsInTransit, Held, cVars, rVars, sVars, vVars
<1>8. Current'
  BY <1>1, MsgIs, Nothing DEF ReceiverExit, Put, PutSet, cVars, rVars, sVars, vVars, Current,
     About, Stages, OneOut
<1>9. Received'
  BY <1>1, MsgIs, Nothing DEF ReceiverExit, Put, PutSet, cVars, rVars, sVars, vVars, Received,
     Answered
<1>. QED  BY <1>4, <1>5, <1>6, <1>7, <1>8, <1>9

\* What the killed receiver had goes with it.
LEMMA ReceiverKillOrderly == ASSUME Types, Orderly, ReceiverKill, Types' PROVE Orderly'
<1>. USE DEF Orderly
<1>2. /\ Sends(rfifo)' = Sends(rfifo)
      /\ Replies(toR)' = Replies(toR)
      /\ InTransit' <= InTransit
  <2>1. Sends(rfifo)' = Sends(rfifo)
    BY Nothing, AllCounted DEF ReceiverKill, Counted, CountedIn, InTransit, cVars, rVars, sVars,
       vVars
  <2>2. Replies(toR)' = Replies(toR)
    BY Nothing, AllCounted DEF ReceiverKill, Counted, CountedIn, InTransit, cVars, rVars, sVars,
       vVars
  <2>3. InTransit' <= InTransit
    <3>1. taken' = 0 /\ vfifo' = <<>> /\ UNCHANGED <<toS, toR, yfifo>>
      BY DEF ReceiverKill, sVars
    <3>2. Requests(vfifo') = 0
      BY <3>1, Nothing
    <3>. QED
      <4>1. /\ InTransit = Requests(toS) + Requests(vfifo) + Working + Requests(yfifo) + Requests(toR)
            /\ Requests(toS) \in Nat /\ Requests(vfifo) \in Nat /\ Requests(yfifo) \in Nat
            /\ Requests(toR) \in Nat /\ Working \in Nat
        BY TransitIs
      <4>2. /\ InTransit' = Requests(toS') + Requests(vfifo') + Working' + Requests(yfifo')
                             + Requests(toR')
            /\ Requests(vfifo') \in Nat /\ Working' = 0
        BY TransitNext, <3>1
      <4>3. /\ Requests(toS') = Requests(toS) /\ Requests(yfifo') = Requests(yfifo)
            /\ Requests(toR') = Requests(toR)
        BY ONLY <3>1
      <4>. QED  BY ONLY <3>2, <4>1, <4>2, <4>3
  <2>. QED  BY <2>1, <2>2, <2>3
<1>4. Forms'
  BY Nothing DEF ReceiverKill, cVars, rVars, sVars, vVars, Forms, Formed, Carrier
<1>5. Stages'
  BY <1>2, Measures, MeasuresNext, Nothing DEF ReceiverKill, Stages, OneOut, Transit,
     HeldIsInTransit, Held, cVars, rVars, sVars, vVars
<1>6. OneOut'
  BY <1>2, Measures, MeasuresNext, Nothing DEF ReceiverKill, Stages, OneOut, Transit,
     HeldIsInTransit, Held, cVars, rVars, sVars, vVars
<1>7. Transit'
  BY <1>2, Measures, MeasuresNext, Nothing DEF ReceiverKill, Stages, OneOut, Transit,
     HeldIsInTransit, Held, cVars, rVars, sVars, vVars
<1>8. Current'
  BY Nothing DEF ReceiverKill, cVars, rVars, sVars, vVars, Current, About, Stages, OneOut
<1>9. Received'
  BY Nothing DEF ReceiverKill, cVars, rVars, sVars, vVars, Received, Answered
<1>. QED  BY <1>4, <1>5, <1>6, <1>7, <1>8, <1>9

\* Nothing moves when the network fails.
LEMMA CutOrderly == ASSUME Types, Orderly, Cut, Types' PROVE Orderly'
<1>. USE DEF Orderly
<1>2. /\ Sends(rfifo)' = Sends(rfifo)
      /\ Replies(toR)' = Replies(toR)
      /\ InTransit' = InTransit
  BY AllCounted DEF Cut, Counted, CountedIn, InTransit, cVars, rVars, sVars, vVars
<1>4. Forms'
  BY DEF Cut, cVars, rVars, sVars, vVars, Forms, Formed, Carrier
<1>5. Stages'
  BY <1>2, Measures, MeasuresNext DEF Cut, Stages, OneOut, Transit, HeldIsInTransit, Held,
     cVars, rVars, sVars, vVars
<1>6. OneOut'
  BY <1>2, Measures, MeasuresNext DEF Cut, Stages, OneOut, Transit, HeldIsInTransit, Held,
     cVars, rVars, sVars, vVars
<1>7. Transit'
  BY <1>2, Measures, MeasuresNext DEF Cut, Stages, OneOut, Transit, HeldIsInTransit, Held,
     cVars, rVars, sVars, vVars
<1>8. Current'
  BY DEF Cut, cVars, rVars, sVars, vVars, Current, About, Stages, OneOut
<1>9. Received'
  BY DEF Cut, cVars, rVars, sVars, vVars, Received, Answered
<1>. QED  BY <1>4, <1>5, <1>6, <1>7, <1>8, <1>9

-----------------------------------------------------------------------------
(* The stream.                                                             *)

\* What goes in at the end of a fifo of messages, and comes out at its head.
LEMMA Items ==
  ASSUME NEW q \in Seq(Message), q # <<>>
  PROVE  Head(q) \in ToSet(q) /\ ToSet(Tail(q)) \subseteq ToSet(q)
  BY TakenOut

\* Control messages carry nothing.
LEMMA ControlIsPlain ==
  ASSUME NEW q \in Seq(Message), NEW w, NEW k, NEW l, Carries(q, w, k, l)
  PROVE  /\ Carries(Append(q, Msg("locate")), w, k, l)
         /\ Carries(Append(q, Msg("close")), w, k, l)
         /\ Carries(Append(q, Msg("alive")), w, k, l)
<1>1. ~ Carrier(Msg("locate")) /\ ~ Carrier(Msg("close")) /\ ~ Carrier(Msg("alive"))
  BY MsgIs DEF Carrier
<1>. QED  BY <1>1, MessageType, CarriesPlain

\* Who does not touch what is on the way keeps the stream.
LEMMA StreamStays ==
  ASSUME Stream, UNCHANGED <<sent, got, rfifo, toS, vfifo, receiver>>,
         s' \notin {"gone", "killed"} => s \notin {"gone", "killed"},
         r' \in {"attached", "locating", "up"} => r \in {"attached", "locating", "up"}
  PROVE  Stream'
  BY DEF Stream, Flow

\* What an item more does to a list of numbers.
LEMMA Longer ==
  ASSUME NEW w \in Seq(Nat), NEW n \in Nat
  PROVE  /\ Append(w, n) \in Seq(Nat) /\ Len(w) \in Nat /\ Len(Append(w, n)) = Len(w) + 1
         /\ Append(w, n)[Len(w) + 1] = n /\ \A i \in 1..Len(w) : Append(w, n)[i] = w[i]
  OBVIOUS

\* Every step keeps the stream.
LEMMA StreamStep == ASSUME Types, Orderly, Stream, [Next]_vars PROVE Stream'
<1>. USE DEF Types
<1>1. CASE Locate
  <2>1. UNCHANGED <<sent, got, toS, vfifo, r, s, receiver>>
    BY <1>1 DEF Locate, RClosed, ROpen, cVars, rVars, sVars, vVars
  <2>8. ASSUME receiver' = "up", s' \notin {"gone", "killed"}
        PROVE  \E k, l \in 0..Len(sent') : Flow(k, l)'
    <3>1. PICK k \in 0..Len(sent), l \in 0..Len(sent) : Flow(k, l)
      BY <2>1, <2>8 DEF Stream
    <3>2. rfifo' = rfifo \/ rfifo' = Append(rfifo, Msg("locate"))
      BY <1>1 DEF Locate, RClosed, ROpen
    <3>3. r \in {"attached", "locating", "up"} => Carries(rfifo', sent, l, Len(sent))
      BY <3>1, <3>2, ControlIsPlain DEF Flow
    <3>. QED  BY <2>1, <3>1, <3>3 DEF Flow
  <2>. QED  BY <2>1, <2>8 DEF Stream
<1>2. CASE ClientSend
  <2>. DEFINE m == [kind |-> "send", n |-> asked + 1]
  <2>1. UNCHANGED <<got, toS, vfifo, r, s, receiver>>
    BY <1>2 DEF ClientSend, RClosed, ROpen, rVars, sVars, vVars
  <2>2. m \in Message /\ m.n \in Nat /\ Carrier(m)
    <3>1. asked + 1 \in Nat
      OBVIOUS
    <3>. QED  BY <3>1, MessageType DEF Carrier
  <2>3. \/ UNCHANGED <<sent, rfifo>> /\ r \notin {"attached", "locating", "up"}
        \/ sent' = Append(sent, m.n) /\ rfifo' = Append(rfifo, m)
    BY <1>2, MsgIs DEF ClientSend, RClosed, ROpen
  <2>. HIDE DEF m
  <2>4. CASE UNCHANGED <<sent, rfifo>> /\ r \notin {"attached", "locating", "up"}
    BY <2>1, <2>4, StreamStays
  <2>5. CASE sent' = Append(sent, m.n) /\ rfifo' = Append(rfifo, m)
    <3>1. /\ sent' \in Seq(Nat) /\ Len(sent) \in Nat /\ Len(sent') = Len(sent) + 1
          /\ sent'[Len(sent) + 1] = m.n /\ \A i \in 1..Len(sent) : sent'[i] = sent[i]
      BY ONLY <2>2, <2>5, Types, Longer DEF Types
    <3>2. Len(got) <= Len(sent') /\ \A i \in 1..Len(got) : got[i] = sent'[i]
      <4>1. Len(got) <= Len(sent) /\ \A i \in 1..Len(got) : got[i] = sent[i]
        BY ONLY Stream DEF Stream
      <4>2. got \in Seq(Nat)
        BY ONLY Types DEF Types
      <4>3. Len(got) \in Nat
        BY ONLY <4>2
      <4>. QED  BY ONLY <3>1, <4>1, <4>3
    <3>3. ASSUME receiver' = "up", s' \notin {"gone", "killed"}
          PROVE  \E k, l \in 0..Len(sent') : Flow(k, l)'
      <4>1. PICK k \in 0..Len(sent), l \in 0..Len(sent) : Flow(k, l)
        BY <2>1, <3>3 DEF Stream
      <4>2. Carries(vfifo, sent', Len(got), k) /\ Carries(toS, sent', k, l)
        BY ONLY <4>1, <2>2, <2>5, Types, CarriesGrow DEF Flow, Types
      <4>3. ASSUME r \in {"attached", "locating", "up"}
            PROVE  Carries(rfifo', sent', l, Len(sent'))
        <5>1. Carries(rfifo, sent', l, Len(sent))
          BY ONLY <4>1, <4>3, <3>1, <2>2, <2>5, Types, CarriesGrow DEF Flow, Types
        <5>. QED  BY <5>1, <3>1, <2>2, <2>5, CarriesNext
      <4>4. k \in 0..Len(sent') /\ l \in 0..Len(sent')
        BY ONLY <3>1, <4>1
      <4>. QED  BY <2>1, <4>2, <4>3, <4>4 DEF Flow
    <3>. QED  BY <2>1, <3>2, <3>3 DEF Stream
  <2>. QED  BY <2>3, <2>4, <2>5
<1>3. CASE ClientTrigger
  <2>. DEFINE m == Msg("proxy")
  <2>1. UNCHANGED <<got, toS, vfifo, r, s, receiver>>
    BY <1>3 DEF ClientTrigger, RClosed, ROpen, rVars, sVars, vVars
  <2>2. m \in Message /\ m.n \in Nat /\ Carrier(m)
    BY MessageType, MsgIs DEF Carrier
  <2>3. \/ UNCHANGED <<sent, rfifo>> /\ r \notin {"attached", "locating", "up"}
        \/ sent' = Append(sent, m.n) /\ rfifo' = Append(rfifo, m)
    BY <1>3, MsgIs DEF ClientTrigger, RClosed, ROpen
  <2>. HIDE DEF m
  <2>4. CASE UNCHANGED <<sent, rfifo>> /\ r \notin {"attached", "locating", "up"}
    BY <2>1, <2>4, StreamStays
  <2>5. CASE sent' = Append(sent, m.n) /\ rfifo' = Append(rfifo, m)
    <3>1. /\ sent' \in Seq(Nat) /\ Len(sent) \in Nat /\ Len(sent') = Len(sent) + 1
          /\ sent'[Len(sent) + 1] = m.n /\ \A i \in 1..Len(sent) : sent'[i] = sent[i]
      BY ONLY <2>2, <2>5, Types, Longer DEF Types
    <3>2. Len(got) <= Len(sent') /\ \A i \in 1..Len(got) : got[i] = sent'[i]
      <4>1. Len(got) <= Len(sent) /\ \A i \in 1..Len(got) : got[i] = sent[i]
        BY ONLY Stream DEF Stream
      <4>2. got \in Seq(Nat)
        BY ONLY Types DEF Types
      <4>3. Len(got) \in Nat
        BY ONLY <4>2
      <4>. QED  BY ONLY <3>1, <4>1, <4>3
    <3>3. ASSUME receiver' = "up", s' \notin {"gone", "killed"}
          PROVE  \E k, l \in 0..Len(sent') : Flow(k, l)'
      <4>1. PICK k \in 0..Len(sent), l \in 0..Len(sent) : Flow(k, l)
        BY <2>1, <3>3 DEF Stream
      <4>2. Carries(vfifo, sent', Len(got), k) /\ Carries(toS, sent', k, l)
        BY ONLY <4>1, <2>2, <2>5, Types, CarriesGrow DEF Flow, Types
      <4>3. ASSUME r \in {"attached", "locating", "up"}
            PROVE  Carries(rfifo', sent', l, Len(sent'))
        <5>1. Carries(rfifo, sent', l, Len(sent))
          BY ONLY <4>1, <4>3, <3>1, <2>2, <2>5, Types, CarriesGrow DEF Flow, Types
        <5>. QED  BY <5>1, <3>1, <2>2, <2>5, CarriesNext
      <4>4. k \in 0..Len(sent') /\ l \in 0..Len(sent')
        BY ONLY <3>1, <4>1
      <4>. QED  BY <2>1, <4>2, <4>3, <4>4 DEF Flow
    <3>. QED  BY <2>1, <3>2, <3>3 DEF Stream
  <2>. QED  BY <2>3, <2>4, <2>5
<1>4. CASE ClientReturn
  <2>1. /\ UNCHANGED <<sent, got, rfifo, toS, vfifo, receiver>>
        /\ s' \notin {"gone", "killed"} => s \notin {"gone", "killed"}
        /\ r' \in {"attached", "locating", "up"} => r \in {"attached", "locating", "up"}
    BY <1>4 DEF ClientReturn, cVars, rVars, sVars, vVars
  <2>. QED  BY <2>1, StreamStays
<1>5. CASE ClientExit
  <2>1. UNCHANGED <<sent, got, toS, vfifo, r, s, receiver>>
    BY <1>5 DEF ClientExit, RClosed, ROpen, cVars, rVars, sVars, vVars
  <2>8. ASSUME receiver' = "up", s' \notin {"gone", "killed"}
        PROVE  \E k, l \in 0..Len(sent') : Flow(k, l)'
    <3>1. PICK k \in 0..Len(sent), l \in 0..Len(sent) : Flow(k, l)
      BY <2>1, <2>8 DEF Stream
    <3>2. rfifo' = rfifo \/ rfifo' = Append(rfifo, Msg("close"))
      BY <1>5 DEF ClientExit, RClosed, ROpen
    <3>3. r \in {"attached", "locating", "up"} => Carries(rfifo', sent, l, Len(sent))
      BY <3>1, <3>2, ControlIsPlain DEF Flow
    <3>. QED  BY <2>1, <3>1, <3>3 DEF Flow
  <2>. QED  BY <2>1, <2>8 DEF Stream
<1>6. CASE ClientRemove
  <2>1. /\ UNCHANGED <<sent, got, rfifo, toS, vfifo, receiver>>
        /\ s' \notin {"gone", "killed"} => s \notin {"gone", "killed"}
        /\ r' \in {"attached", "locating", "up"} => r \in {"attached", "locating", "up"}
    BY <1>6 DEF ClientRemove, cVars, rVars, sVars, vVars
  <2>. QED  BY <2>1, StreamStays
<1>7. CASE ClientKill
  <2>1. /\ UNCHANGED <<sent, got, rfifo, toS, vfifo, receiver>>
        /\ s' \notin {"gone", "killed"} => s \notin {"gone", "killed"}
        /\ r' \in {"attached", "locating", "up"} => r \in {"attached", "locating", "up"}
    BY <1>7 DEF ClientKill, cVars, rVars, sVars, vVars
  <2>. QED  BY <2>1, StreamStays
<1>8. CASE RLocate
  <2>1. /\ UNCHANGED <<sent, got, vfifo, s, receiver>> /\ r = "attached"
        /\ rfifo # <<>> /\ rfifo' = Tail(rfifo) /\ Head(rfifo).kind = "locate"
        /\ toS' = toS \/ toS' = Append(toS, Msg("locate"))
    BY <1>8 DEF RLocate, Tell, RAnswer, RWrites, RTakes, RLoses, ClientGone, cVars, sVars, vVars
  <2>8. ASSUME receiver' = "up", s' \notin {"gone", "killed"}
        PROVE  \E k, l \in 0..Len(sent') : Flow(k, l)'
    <3>1. PICK k \in 0..Len(sent), l \in 0..Len(sent) : Flow(k, l)
      BY <2>1, <2>8 DEF Stream
    <3>2. Carries(toS', sent, k, l)
      <4>1. toS \in Seq(Message) /\ Carries(toS, sent, k, l)
        BY ONLY <3>1, Types DEF Flow, Types
      <4>2. /\ Carries(Append(toS, Msg("locate")), sent, k, l)
            /\ Carries(Append(toS, Msg("close")), sent, k, l)
            /\ Carries(Append(toS, Msg("alive")), sent, k, l)
        BY ONLY <4>1, ControlIsPlain
      <4>. QED  BY ONLY <2>1, <4>1, <4>2
    <3>3. Carries(rfifo', sent, l, Len(sent))
      BY <2>1, <3>1, CarriesTail DEF Flow, Carrier
    <3>. QED  BY <2>1, <3>1, <3>2, <3>3 DEF Flow
  <2>. QED  BY <2>1, <2>8 DEF Stream
<1>9. CASE RLocated
  <2>1. /\ UNCHANGED <<sent, got, rfifo, toS, vfifo, receiver>>
        /\ s' \notin {"gone", "killed"} => s \notin {"gone", "killed"}
        /\ r' \in {"attached", "locating", "up"} => r \in {"attached", "locating", "up"}
    BY <1>9 DEF RLocated, Tell, RAnswer, RReadable, SClosed, cVars, rVars, sVars, vVars
  <2>. QED  BY <2>1, StreamStays
<1>10. CASE RLocateTimeout
  <2>1. /\ UNCHANGED <<sent, got, rfifo, toS, vfifo, receiver>>
        /\ s' \notin {"gone", "killed"} => s \notin {"gone", "killed"}
        /\ r' \in {"attached", "locating", "up"} => r \in {"attached", "locating", "up"}
    BY <1>10 DEF RLocateTimeout, Tell, RAnswer, RReadable, SClosed, Silent, cVars, rVars, sVars,
       vVars
  <2>. QED  BY <2>1, StreamStays
<1>11. CASE RSend
  <2>1. /\ UNCHANGED <<sent, got, vfifo, s, receiver>> /\ r = "up"
        /\ rfifo # <<>> /\ rfifo' = Tail(rfifo) /\ Carrier(Head(rfifo))
        /\ \/ toS' = toS /\ r' \notin {"attached", "locating", "up"}
           \/ toS' = toS /\ s \in {"gone", "killed"}
           \/ toS' = Append(toS, Head(rfifo))
    BY <1>11 DEF RSend, Tell, RWrites, RWriteFails, RTakes, RLoses, SClosed, ClientGone, cVars,
       sVars, vVars, Carrier
  <2>8. ASSUME receiver' = "up", s' \notin {"gone", "killed"}
        PROVE  \E k, l \in 0..Len(sent') : Flow(k, l)'
    <3>1. PICK k \in 0..Len(sent), l \in 0..Len(sent) : Flow(k, l)
      BY <2>1, <2>8 DEF Stream
    <3>2. CASE toS' = toS /\ r' \notin {"attached", "locating", "up"}
      BY <2>1, <3>1, <3>2 DEF Flow
    <3>3. CASE toS' = Append(toS, Head(rfifo))
      <4>1. /\ sent[l + 1] = Head(rfifo).n /\ l + 1 <= Len(sent)
            /\ Carries(rfifo', sent, l + 1, Len(sent))
        BY <2>1, <3>1, CarriesTail DEF Flow
      <4>2. Carries(toS', sent, k, l + 1)
        BY <2>1, <3>1, <3>3, <4>1, FifoType, CarriesNext DEF Flow
      <4>3. l + 1 \in 0..Len(sent)
        BY <4>1
      <4>. QED  BY <2>1, <3>1, <4>1, <4>2, <4>3 DEF Flow
    <3>. QED  BY <2>1, <2>8, <3>2, <3>3
  <2>. QED  BY <2>1, <2>8 DEF Stream
<1>12. CASE RProxy
  <2>1. /\ UNCHANGED <<sent, got, vfifo, s, receiver>> /\ r = "up"
        /\ rfifo # <<>> /\ rfifo' = Tail(rfifo) /\ Carrier(Head(rfifo))
        /\ \/ toS' = toS /\ r' \notin {"attached", "locating", "up"}
           \/ toS' = toS /\ s \in {"gone", "killed"}
           \/ toS' = Append(toS, Head(rfifo))
    BY <1>12 DEF RProxy, Tell, RExit, RWrites, RWriteFails, RTakes, SClosed, cVars, sVars,
       vVars, Carrier
  <2>8. ASSUME receiver' = "up", s' \notin {"gone", "killed"}
        PROVE  \E k, l \in 0..Len(sent') : Flow(k, l)'
    <3>1. PICK k \in 0..Len(sent), l \in 0..Len(sent) : Flow(k, l)
      BY <2>1, <2>8 DEF Stream
    <3>2. CASE toS' = toS /\ r' \notin {"attached", "locating", "up"}
      BY <2>1, <3>1, <3>2 DEF Flow
    <3>3. CASE toS' = Append(toS, Head(rfifo))
      <4>1. /\ sent[l + 1] = Head(rfifo).n /\ l + 1 <= Len(sent)
            /\ Carries(rfifo', sent, l + 1, Len(sent))
        BY <2>1, <3>1, CarriesTail DEF Flow
      <4>2. Carries(toS', sent, k, l + 1)
        BY <2>1, <3>1, <3>3, <4>1, FifoType, CarriesNext DEF Flow
      <4>3. l + 1 \in 0..Len(sent)
        BY <4>1
      <4>. QED  BY <2>1, <3>1, <4>1, <4>2, <4>3 DEF Flow
    <3>. QED  BY <2>1, <2>8, <3>2, <3>3
  <2>. QED  BY <2>1, <2>8 DEF Stream
<1>13. CASE RClose
  <2>1. /\ UNCHANGED <<sent, got, vfifo, s, receiver>> /\ r = "up"
        /\ UNCHANGED rfifo \/ r' \notin {"attached", "locating", "up"}
        /\ toS' = toS \/ toS' = Append(toS, Msg("close")) \/ toS' = Append(toS, Msg("alive"))
    BY <1>13 DEF RClose, Tell, RExit, RWrites, RWriteFails, RTakes, SClosed, cVars, sVars, vVars
  <2>8. ASSUME receiver' = "up", s' \notin {"gone", "killed"}
        PROVE  \E k, l \in 0..Len(sent') : Flow(k, l)'
    <3>1. PICK k \in 0..Len(sent), l \in 0..Len(sent) : Flow(k, l)
      BY <2>1, <2>8 DEF Stream
    <3>2. Carries(toS', sent, k, l)
      <4>1. toS \in Seq(Message) /\ Carries(toS, sent, k, l)
        BY ONLY <3>1, Types DEF Flow, Types
      <4>2. /\ Carries(Append(toS, Msg("locate")), sent, k, l)
            /\ Carries(Append(toS, Msg("close")), sent, k, l)
            /\ Carries(Append(toS, Msg("alive")), sent, k, l)
        BY ONLY <4>1, ControlIsPlain
      <4>. QED  BY ONLY <2>1, <4>1, <4>2
    <3>. QED  BY <2>1, <3>1, <3>2 DEF Flow
  <2>. QED  BY <2>1, <2>8 DEF Stream
<1>14. CASE RRemote
  <2>1. /\ UNCHANGED <<sent, got, rfifo, toS, vfifo, receiver>>
        /\ s' \notin {"gone", "killed"} => s \notin {"gone", "killed"}
        /\ r' \in {"attached", "locating", "up"} => r \in {"attached", "locating", "up"}
    BY <1>14 DEF RRemote, Tell, RAnswer, RFail, Heard, RReadable, SClosed, cVars, rVars, sVars,
       vVars
  <2>. QED  BY <2>1, StreamStays
<1>15. CASE RTimeout
  <2>1. /\ UNCHANGED <<sent, got, vfifo, s, receiver>> /\ r = "up"
        /\ UNCHANGED rfifo \/ r' \notin {"attached", "locating", "up"}
        /\ toS' = toS \/ toS' = Append(toS, Msg("close")) \/ toS' = Append(toS, Msg("alive"))
    BY <1>15 DEF RTimeout, Tell, RExit, TooMany, RReadable, SClosed, ClientGone, Silent, cVars,
       sVars, vVars
  <2>8. ASSUME receiver' = "up", s' \notin {"gone", "killed"}
        PROVE  \E k, l \in 0..Len(sent') : Flow(k, l)'
    <3>1. PICK k \in 0..Len(sent), l \in 0..Len(sent) : Flow(k, l)
      BY <2>1, <2>8 DEF Stream
    <3>2. Carries(toS', sent, k, l)
      <4>1. toS \in Seq(Message) /\ Carries(toS, sent, k, l)
        BY ONLY <3>1, Types DEF Flow, Types
      <4>2. /\ Carries(Append(toS, Msg("locate")), sent, k, l)
            /\ Carries(Append(toS, Msg("close")), sent, k, l)
            /\ Carries(Append(toS, Msg("alive")), sent, k, l)
        BY ONLY <4>1, ControlIsPlain
      <4>. QED  BY ONLY <2>1, <4>1, <4>2
    <3>. QED  BY <2>1, <3>1, <3>2 DEF Flow
  <2>. QED  BY <2>1, <2>8 DEF Stream
<1>16. CASE RKill
  <2>1. /\ UNCHANGED <<sent, got, rfifo, toS, vfifo, receiver>>
        /\ s' \notin {"gone", "killed"} => s \notin {"gone", "killed"}
        /\ r' \in {"attached", "locating", "up"} => r \in {"attached", "locating", "up"}
    BY <1>16 DEF RKill, cVars, rVars, sVars, vVars
  <2>. QED  BY <2>1, StreamStays
<1>17. CASE SFork
  <2>1. /\ UNCHANGED <<sent, got, vfifo, receiver, r, rfifo>> /\ s = "none"
        /\ toS # <<>> /\ toS' = Tail(toS)
    BY <1>17 DEF SFork, cVars, rVars, vVars
  <2>2. Head(toS).kind = "locate"
    BY <2>1, Items DEF Orderly, Stages
  <2>8. ASSUME receiver' = "up", s' \notin {"gone", "killed"}
        PROVE  \E k, l \in 0..Len(sent') : Flow(k, l)'
    <3>1. PICK k \in 0..Len(sent), l \in 0..Len(sent) : Flow(k, l)
      BY <2>1, <2>8 DEF Stream
    <3>2. Carries(toS', sent, k, l)
      BY <2>1, <2>2, <3>1, CarriesTail DEF Flow, Carrier
    <3>. QED  BY <2>1, <3>1, <3>2 DEF Flow
  <2>. QED  BY <2>1, <2>8 DEF Stream
<1>18. CASE SLocate
  <2>1. /\ UNCHANGED <<sent, got, rfifo, toS, vfifo, receiver>>
        /\ s' \notin {"gone", "killed"} => s \notin {"gone", "killed"}
        /\ r' \in {"attached", "locating", "up"} => r \in {"attached", "locating", "up"}
    BY <1>18 DEF SLocate, RClosed, ReceiverGone, cVars, rVars, sVars, vVars
  <2>. QED  BY <2>1, StreamStays
<1>19. CASE SMessage
  <2>1. /\ UNCHANGED <<sent, got, receiver, r, rfifo>> /\ s = "up"
        /\ toS # <<>> /\ toS' = Tail(toS)
    BY <1>19 DEF SMessage, SFail, Posted, Heard, RClosed, ReceiverGone, cVars, rVars
  <2>2. \/ s' = "gone"
        \/ Carrier(Head(toS)) /\ vfifo' = Append(vfifo, Head(toS))
        \/ ~ Carrier(Head(toS)) /\ vfifo' = vfifo
    BY <1>19 DEF SMessage, SFail, Posted, Heard, RClosed, ReceiverGone, Carrier
  <2>8. ASSUME receiver' = "up", s' \notin {"gone", "killed"}
        PROVE  \E k, l \in 0..Len(sent') : Flow(k, l)'
    <3>1. PICK k \in 0..Len(sent), l \in 0..Len(sent) : Flow(k, l)
      BY <2>1, <2>8 DEF Stream
    <3>2. CASE Carrier(Head(toS)) /\ vfifo' = Append(vfifo, Head(toS))
      <4>1. /\ sent[k + 1] = Head(toS).n /\ k + 1 <= l /\ Carries(toS', sent, k + 1, l)
        BY <2>1, <3>1, <3>2, CarriesTail DEF Flow
      <4>2. Carries(vfifo', sent, Len(got), k + 1)
        BY <2>1, <3>1, <3>2, <4>1, FifoType, CarriesNext DEF Flow
      <4>3. k + 1 \in 0..Len(sent)
        BY <4>1
      <4>. QED  BY <2>1, <3>1, <4>1, <4>2, <4>3 DEF Flow
    <3>3. CASE ~ Carrier(Head(toS)) /\ vfifo' = vfifo
      <4>1. Carries(toS', sent, k, l)
        BY <2>1, <3>1, <3>3, CarriesTail DEF Flow
      <4>. QED  BY <2>1, <3>1, <3>3, <4>1 DEF Flow
    <3>. QED  BY <2>2, <2>8, <3>2, <3>3
  <2>. QED  BY <2>1, <2>8 DEF Stream
<1>20. CASE SEnd
  <2>1. UNCHANGED <<sent, got>> /\ (receiver' # "up" \/ s' = "gone")
    BY <1>20 DEF SEnd, SFail, SReadable, RClosed, cVars, vVars
  <2>. QED  BY <2>1 DEF Stream
<1>21. CASE SReply
  <2>1. /\ UNCHANGED <<sent, got, rfifo, toS, vfifo, receiver>>
        /\ s' \notin {"gone", "killed"} => s \notin {"gone", "killed"}
        /\ r' \in {"attached", "locating", "up"} => r \in {"attached", "locating", "up"}
    BY <1>21 DEF SReply, SFail, Passed, SReadable, RClosed, cVars, rVars, sVars, vVars
  <2>. QED  BY <2>1, StreamStays
<1>22. CASE STimeout
  <2>1. /\ UNCHANGED <<sent, got, rfifo, toS, vfifo, receiver>>
        /\ s' \notin {"gone", "killed"} => s \notin {"gone", "killed"}
        /\ r' \in {"attached", "locating", "up"} => r \in {"attached", "locating", "up"}
    BY <1>22 DEF STimeout, TooMany, SReadable, RClosed, ReceiverGone, cVars, rVars, sVars, vVars
  <2>. QED  BY <2>1, StreamStays
<1>23. CASE SKill
  <2>1. /\ UNCHANGED <<sent, got, rfifo, toS, vfifo, receiver>>
        /\ s' \notin {"gone", "killed"} => s \notin {"gone", "killed"}
        /\ r' \in {"attached", "locating", "up"} => r \in {"attached", "locating", "up"}
    BY <1>23 DEF SKill, cVars, rVars, sVars, vVars
  <2>. QED  BY <2>1, StreamStays
<1>24. CASE Take
  <2>1. /\ UNCHANGED <<sent, receiver, s, r, rfifo, toS>> /\ s = "up" /\ receiver = "up"
        /\ vfifo # <<>> /\ vfifo' = Tail(vfifo) /\ got' = Append(got, Head(vfifo).n)
    BY <1>24 DEF Take, cVars, rVars, sVars
  <2>2. Head(vfifo) \in Message /\ Carrier(Head(vfifo)) /\ Head(vfifo).n \in Nat
    BY <2>1, Items, FifoType, MessageType DEF Orderly, Forms
  <2>3. PICK k \in 0..Len(sent), l \in 0..Len(sent) : Flow(k, l)
    BY <2>1 DEF Stream
  <2>4. /\ sent[Len(got) + 1] = Head(vfifo).n /\ Len(got) + 1 <= k
        /\ Carries(vfifo', sent, Len(got) + 1, k)
    BY <2>1, <2>2, <2>3, CarriesTail DEF Flow
  <2>5. /\ Len(got) \in Nat /\ Len(sent) \in Nat /\ Len(got') = Len(got) + 1
        /\ got'[Len(got) + 1] = Head(vfifo).n /\ \A i \in 1..Len(got) : got'[i] = got[i]
    BY ONLY <2>1, <2>2, Types, Longer DEF Types
  <2>6. Len(got') <= Len(sent) /\ \A i \in 1..Len(got') : got'[i] = sent[i]
    <3>1. \A i \in 1..Len(got) : got[i] = sent[i]
      BY DEF Stream
    <3>2. k <= Len(sent) /\ k \in Nat
      BY <2>3
    <3>. QED  BY ONLY <2>4, <2>5, <3>1, <3>2
  <2>7. Flow(k, l)'
    BY <2>1, <2>3, <2>4, <2>5 DEF Flow
  <2>. QED  BY <2>1, <2>6, <2>7 DEF Stream
<1>25. CASE Answer
  <2>1. /\ UNCHANGED <<sent, got, rfifo, toS, vfifo, receiver>>
        /\ s' \notin {"gone", "killed"} => s \notin {"gone", "killed"}
        /\ r' \in {"attached", "locating", "up"} => r \in {"attached", "locating", "up"}
    BY <1>25 DEF Answer, cVars, rVars, sVars, vVars
  <2>. QED  BY <2>1, StreamStays
<1>26. CASE ReceiverExit
  <2>1. UNCHANGED <<sent, got>> /\ (receiver' # "up" \/ s' = "gone")
    BY <1>26 DEF ReceiverExit, cVars, vVars
  <2>. QED  BY <2>1 DEF Stream
<1>27. CASE ReceiverKill
  <2>1. UNCHANGED <<sent, got>> /\ (receiver' # "up" \/ s' = "gone")
    BY <1>27 DEF ReceiverKill, cVars, vVars
  <2>. QED  BY <2>1 DEF Stream
<1>28. CASE Cut
  <2>1. /\ UNCHANGED <<sent, got, rfifo, toS, vfifo, receiver>>
        /\ s' \notin {"gone", "killed"} => s \notin {"gone", "killed"}
        /\ r' \in {"attached", "locating", "up"} => r \in {"attached", "locating", "up"}
    BY <1>28 DEF Cut, cVars, rVars, sVars, vVars
  <2>. QED  BY <2>1, StreamStays
<1>29. CASE UNCHANGED vars
  BY <1>29, StreamStays DEF vars, cVars, rVars, sVars, vVars
<1>. QED
  BY <1>1, <1>2, <1>3, <1>4, <1>5, <1>6, <1>7, <1>8, <1>9, <1>10, <1>11, <1>12, <1>13, <1>14,
     <1>15, <1>16, <1>17, <1>18, <1>19, <1>20, <1>21, <1>22, <1>23, <1>24, <1>25, <1>26, <1>27,
     <1>28, <1>29 DEF Next, RStep, SStep, Serve, Leave

-----------------------------------------------------------------------------
(* The invariant.                                                          *)

\* Every step keeps Orderly.
LEMMA OrderlyStep == ASSUME Types, Orderly, [Next]_vars, Types' PROVE Orderly'
<1>1. CASE Locate
  BY <1>1, LocateOrderly
<1>2. CASE ClientSend
  BY <1>2, ClientSendOrderly
<1>3. CASE ClientTrigger
  BY <1>3, ClientTriggerOrderly
<1>4. CASE ClientReturn
  BY <1>4, ClientReturnOrderly
<1>5. CASE ClientExit
  BY <1>5, ClientExitOrderly
<1>6. CASE ClientRemove
  BY <1>6, ClientRemoveOrderly
<1>7. CASE ClientKill
  BY <1>7, ClientKillOrderly
<1>8. CASE RLocate
  BY <1>8, RLocateOrderly
<1>9. CASE RLocated
  BY <1>9, RLocatedOrderly
<1>10. CASE RLocateTimeout
  BY <1>10, RLocateTimeoutOrderly
<1>11. CASE RSend
  BY <1>11, RSendOrderly
<1>12. CASE RProxy
  BY <1>12, RProxyOrderly
<1>13. CASE RClose
  BY <1>13, RCloseOrderly
<1>14. CASE RRemote
  BY <1>14, RRemoteOrderly
<1>15. CASE RTimeout
  BY <1>15, RTimeoutOrderly
<1>16. CASE RKill
  BY <1>16, RKillOrderly
<1>17. CASE SFork
  BY <1>17, SForkOrderly
<1>18. CASE SLocate
  BY <1>18, SLocateOrderly
<1>19. CASE SMessage
  BY <1>19, SMessageOrderly
<1>20. CASE SEnd
  BY <1>20, SEndOrderly
<1>21. CASE SReply
  BY <1>21, SReplyOrderly
<1>22. CASE STimeout
  BY <1>22, STimeoutOrderly
<1>23. CASE SKill
  BY <1>23, SKillOrderly
<1>24. CASE Take
  BY <1>24, TakeOrderly
<1>25. CASE Answer
  BY <1>25, AnswerOrderly
<1>26. CASE ReceiverExit
  BY <1>26, ReceiverExitOrderly
<1>27. CASE ReceiverKill
  BY <1>27, ReceiverKillOrderly
<1>28. CASE Cut
  BY <1>28, CutOrderly
<1>29. CASE UNCHANGED vars
  BY <1>29 DEF vars, cVars, rVars, sVars, vVars, Orderly, Forms, Formed, Stages, OneOut, Held,
       Transit, HeldIsInTransit, InTransit, Current, About, Received, Answered
<1>. QED
  BY <1>1, <1>2, <1>3, <1>4, <1>5, <1>6, <1>7, <1>8, <1>9, <1>10, <1>11, <1>12, <1>13, <1>14,
     <1>15, <1>16, <1>17, <1>18, <1>19, <1>20, <1>21, <1>22, <1>23, <1>24, <1>25, <1>26, <1>27,
     <1>28, <1>29 DEF Next, RStep, SStep, Serve, Leave

\* The invariant holds at the start.
LEMMA AtStart == Init => Types /\ Orderly /\ Stream
<1>. SUFFICES ASSUME Init PROVE Types /\ Orderly /\ Stream
  OBVIOUS
<1>1. Types
  BY TypesAtStart
<1>2. InTransit = 0 /\ Len(answer) = 0
  BY Nothing DEF Init, InTransit
<1>3. Forms /\ Stages
  BY <1>2, Nothing DEF Init, Forms, Formed, Stages
<1>4. OneOut /\ Transit /\ Current /\ Received
  BY <1>2, Nothing DEF Init, OneOut, Held, Transit, HeldIsInTransit, Current, About, Received,
     Answered
<1>5. Stream
  <2>1. Len(got) = 0 /\ Len(sent) = 0
    BY DEF Init
  <2>2. Flow(0, 0)
    BY <2>1, CarriesNone DEF Init, Flow
  <2>. QED  BY <2>1, <2>2 DEF Stream
<1>. QED  BY <1>1, <1>3, <1>4, <1>5 DEF Orderly

\* IInv is inductive.
THEOREM Invariant == Spec => []IInv
<1>1. Init => IInv
  BY AtStart DEF IInv
<1>2. IInv /\ [Next]_vars => IInv'
  BY TypesStep, OrderlyStep, StreamStep DEF IInv
<1>. QED  BY <1>1, <1>2, PTL DEF Spec

\* HeldIsInTransit holds in every state: a reply finds the client held, and a
\* client that is held has one request or answer on its way.
THEOREM HeldTransitHolds == Spec => []HeldIsInTransit
<1>1. IInv => HeldIsInTransit
  BY DEF IInv, Orderly, Transit
<1>. QED  BY <1>1, Invariant, PTL

\* The beginning of a sequence.
LEMMA Beginning ==
  ASSUME NEW v \in Seq(Nat), NEW w \in Seq(Nat), Len(v) <= Len(w),
         \A i \in 1..Len(v) : v[i] = w[i]
  PROVE  IsPrefix(v, w)
<1>1. SubSeq(v, 1, Len(v)) = SubSeq(w, 1, Len(v))
  OBVIOUS
<1>. QED  BY <1>1 DEF IsPrefix

\* EndToEnd holds in every state: what the receiver has got is a beginning of
\* what the client sent, and a reply is to the current request, which was received.
THEOREM EndToEndHolds == Spec => []EndToEnd
<1>1. IInv => EndToEnd
  <2>. SUFFICES ASSUME IInv PROVE EndToEnd
    OBVIOUS
  <2>1. IsPrefix(got, sent)
    BY Beginning DEF IInv, Types, Stream
  <2>2. ASSUME client = "sending", answer # <<>>, Head(answer).kind = "reply"
        PROVE  Head(answer).n = asked /\ Contains(got, asked)
    <3>1. Head(answer) \in ToSet(answer)
      BY <2>2, Items DEF IInv, Types
    <3>. QED  BY <2>2, <3>1 DEF IInv, Orderly, Current, About, Received, Answered
  <2>. QED  BY <2>1, <2>2 DEF EndToEnd
<1>. QED  BY <1>1, Invariant, PTL

-----------------------------------------------------------------------------
(* Keep-alives.                                                            *)

\* The keep-alives in a fifo, on the way there or back.
Alive(q) == Count(q, {"alive"})

\* With time-outs that are prompt, a time-out that surrogate_r has counted has
\* its keep-alive on the way, and surrogate_s has counted no more than have run
\* out since the last one of surrogate_r, unless the next keep-alive is due.
Clock ==
    prompt =>
      /\ r \in {"attached", "locating"} => rMissed = 0
      /\ r = "up" /\ s = "up" /\ link = "up" => rMissed <= Alive(toS) + Alive(toR)
      /\ r \in {"attached", "locating", "up"} =>
            sMissed <= lead \/ lead >= Drift \/ Alive(toS) > 0

\* The keep-alives in a fifo as messages go in and out.
LEMMA AliveFacts ==
  ASSUME NEW q \in Seq(Message)
  PROVE  /\ Alive(q) \in Nat /\ (q = <<>> => Alive(q) = 0)
         /\ \A m \in Message : Alive(Append(q, m)) =
               IF m.kind = "alive" THEN Alive(q) + 1 ELSE Alive(q)
         /\ q # <<>> /\ Head(q).kind = "alive" => Alive(Tail(q)) + 1 = Alive(q)
         /\ q # <<>> /\ Head(q).kind # "alive" => Alive(Tail(q)) = Alive(q)
<1>1. Alive(q) \in Nat
  BY CountNat DEF Alive
<1>2. q = <<>> => Alive(q) = 0
  BY CountEmpty DEF Alive
<1>3. ASSUME NEW m \in Message
      PROVE  Alive(Append(q, m)) = IF m.kind = "alive" THEN Alive(q) + 1 ELSE Alive(q)
  <2>1. Alive(Append(q, m)) = Alive(q) + One(m, {"alive"})
    BY CountAppend DEF Alive
  <2>. QED  BY <1>1, <2>1 DEF One
<1>4. ASSUME q # <<>>
      PROVE  Alive(Tail(q)) = IF Head(q).kind = "alive" THEN Alive(q) - 1 ELSE Alive(q)
  <2>1. Alive(Tail(q)) = Alive(q) - One(Head(q), {"alive"})
    BY <1>4, CountTail DEF Alive
  <2>. QED  BY <1>1, <2>1 DEF One
<1>. QED  BY <1>1, <1>2, <1>3, <1>4

\* Every step keeps Clock.
LEMMA ClockStep == ASSUME Types, Stages, Clock, [Next]_vars, Types' PROVE Clock'
<1>0. /\ Alive(toS) \in Nat /\ Alive(toR) \in Nat /\ Alive(toS') \in Nat /\ Alive(toR') \in Nat
      /\ rMissed \in Nat /\ sMissed \in Nat /\ lead \in Nat /\ Limit \in Nat /\ Drift \in Nat
  BY AliveFacts, BoundsAssumption DEF Types
<1>30. /\ toS \in Seq(Message) /\ toR \in Seq(Message) /\ rfifo \in Seq(Message)
       /\ yfifo \in Seq(Message)
  BY DEF Types
<1>1. CASE Locate
  <2>1. /\ UNCHANGED <<prompt, rMissed, sMissed, lead, toS>>
        /\ r' = r \/ r' \notin {"attached", "locating", "up"}
        /\ s' = "up" => s = "up" /\ toR' = toR
        /\ link' = "up" => link = "up"
    BY <1>1 DEF Locate, RClosed, ROpen, cVars, rVars, sVars, vVars
  <2>. QED  BY <2>1 DEF Clock
<1>2. CASE ClientSend
  <2>1. /\ UNCHANGED <<prompt, rMissed, sMissed, lead, toS>>
        /\ r' = r \/ r' \notin {"attached", "locating", "up"}
        /\ s' = "up" => s = "up" /\ toR' = toR
        /\ link' = "up" => link = "up"
    BY <1>2 DEF ClientSend, RClosed, ROpen, cVars, rVars, sVars, vVars
  <2>. QED  BY <2>1 DEF Clock
<1>3. CASE ClientTrigger
  <2>1. /\ UNCHANGED <<prompt, rMissed, sMissed, lead, toS>>
        /\ r' = r \/ r' \notin {"attached", "locating", "up"}
        /\ s' = "up" => s = "up" /\ toR' = toR
        /\ link' = "up" => link = "up"
    BY <1>3 DEF ClientTrigger, RClosed, ROpen, cVars, rVars, sVars, vVars
  <2>. QED  BY <2>1 DEF Clock
<1>4. CASE ClientReturn
  <2>1. /\ UNCHANGED <<prompt, rMissed, sMissed, lead, toS>>
        /\ r' = r \/ r' \notin {"attached", "locating", "up"}
        /\ s' = "up" => s = "up" /\ toR' = toR
        /\ link' = "up" => link = "up"
    BY <1>4 DEF ClientReturn, cVars, rVars, sVars, vVars
  <2>. QED  BY <2>1 DEF Clock
<1>5. CASE ClientExit
  <2>1. /\ UNCHANGED <<prompt, rMissed, sMissed, lead, toS>>
        /\ r' = r \/ r' \notin {"attached", "locating", "up"}
        /\ s' = "up" => s = "up" /\ toR' = toR
        /\ link' = "up" => link = "up"
    BY <1>5 DEF ClientExit, RClosed, ROpen, cVars, rVars, sVars, vVars
  <2>. QED  BY <2>1 DEF Clock
<1>6. CASE ClientRemove
  <2>1. /\ UNCHANGED <<prompt, rMissed, sMissed, lead, toS>>
        /\ r' = r \/ r' \notin {"attached", "locating", "up"}
        /\ s' = "up" => s = "up" /\ toR' = toR
        /\ link' = "up" => link = "up"
    BY <1>6 DEF ClientRemove, cVars, rVars, sVars, vVars
  <2>. QED  BY <2>1 DEF Clock
<1>7. CASE ClientKill
  <2>1. /\ UNCHANGED <<prompt, rMissed, sMissed, lead, toS>>
        /\ r' = r \/ r' \notin {"attached", "locating", "up"}
        /\ s' = "up" => s = "up" /\ toR' = toR
        /\ link' = "up" => link = "up"
    BY <1>7 DEF ClientKill, cVars, rVars, sVars, vVars
  <2>. QED  BY <2>1 DEF Clock
<1>8. CASE RLocate
  <2>1. /\ UNCHANGED <<prompt, rMissed, s, sMissed, lead, link>> /\ r = "attached" /\ r' # "up"
        /\ toS' = toS \/ toS' = Append(toS, Msg("locate"))
    BY <1>8 DEF RLocate, Tell, RAnswer, RWrites, RTakes, RLoses, ClientGone, sVars
  <2>2. Alive(Append(toS, Msg("locate"))) = Alive(toS)
    BY <1>30, AliveFacts, MessageType, MsgIs
  <2>. QED  BY ONLY <1>0, <2>1, <2>2, Clock DEF Clock
<1>9. CASE RLocated
  <2>1. UNCHANGED <<prompt, rMissed, s, sMissed, lead, link, toS>> /\ r = "locating"
    BY <1>9 DEF RLocated, Tell, RAnswer, RReadable, SClosed, sVars
  <2>. QED  BY ONLY <1>0, <2>1, Clock DEF Clock
<1>10. CASE RLocateTimeout
  <2>1. /\ UNCHANGED <<prompt, rMissed, sMissed, lead, toS>>
        /\ r' = r \/ r' \notin {"attached", "locating", "up"}
        /\ s' = "up" => s = "up" /\ toR' = toR
        /\ link' = "up" => link = "up"
    BY <1>10 DEF RLocateTimeout, Tell, RAnswer, RReadable, SClosed, Silent, cVars, rVars, sVars,
       vVars
  <2>. QED  BY <2>1 DEF Clock
<1>11. CASE RSend
  <2>1. /\ UNCHANGED <<prompt, rMissed, s, sMissed, lead, link, toR>> /\ r = "up"
        /\ rfifo # <<>> /\ Head(rfifo).kind \in {"send", "proxy", "close"}
        /\ r' \in {"attached", "locating", "up"} =>
              toS' = toS \/ toS' = Append(toS, Head(rfifo)) \/ toS' = Append(toS, Msg("close"))
        /\ r' \notin {"attached", "locating"}
    BY <1>11 DEF RSend, Tell, RWrites, RWriteFails, RTakes, RLoses, SClosed, ClientGone, sVars
  <2>2. Head(rfifo) \in Message
    BY <1>30, <2>1, FifoType
  <2>3. /\ Alive(Append(toS, Head(rfifo))) = Alive(toS)
        /\ Alive(Append(toS, Msg("close"))) = Alive(toS)
    BY <1>30, <2>1, <2>2, AliveFacts, MessageType, MsgIs
  <2>4. Alive(toR') = Alive(toR)
    BY <2>1
  <2>. QED  BY ONLY <1>0, <2>1, <2>3, <2>4, Clock DEF Clock
<1>12. CASE RProxy
  <2>1. /\ UNCHANGED <<prompt, rMissed, s, sMissed, lead, link, toR>> /\ r = "up"
        /\ rfifo # <<>> /\ Head(rfifo).kind \in {"send", "proxy", "close"}
        /\ r' \in {"attached", "locating", "up"} =>
              toS' = toS \/ toS' = Append(toS, Head(rfifo)) \/ toS' = Append(toS, Msg("close"))
        /\ r' \notin {"attached", "locating"}
    BY <1>12 DEF RProxy, Tell, RExit, RWrites, RWriteFails, RTakes, SClosed, sVars
  <2>2. Head(rfifo) \in Message
    BY <1>30, <2>1, FifoType
  <2>3. /\ Alive(Append(toS, Head(rfifo))) = Alive(toS)
        /\ Alive(Append(toS, Msg("close"))) = Alive(toS)
    BY <1>30, <2>1, <2>2, AliveFacts, MessageType, MsgIs
  <2>4. Alive(toR') = Alive(toR)
    BY <2>1
  <2>. QED  BY ONLY <1>0, <2>1, <2>3, <2>4, Clock DEF Clock
<1>13. CASE RClose
  <2>1. /\ UNCHANGED <<prompt, rMissed, s, sMissed, lead, link, toR>> /\ r = "up"
        /\ rfifo # <<>> /\ Head(rfifo).kind \in {"send", "proxy", "close"}
        /\ r' \in {"attached", "locating", "up"} =>
              toS' = toS \/ toS' = Append(toS, Head(rfifo)) \/ toS' = Append(toS, Msg("close"))
        /\ r' \notin {"attached", "locating"}
    BY <1>13 DEF RClose, Tell, RExit, RWrites, RWriteFails, RTakes, SClosed, sVars
  <2>2. Head(rfifo) \in Message
    BY <1>30, <2>1, FifoType
  <2>3. /\ Alive(Append(toS, Head(rfifo))) = Alive(toS)
        /\ Alive(Append(toS, Msg("close"))) = Alive(toS)
    BY <1>30, <2>1, <2>2, AliveFacts, MessageType, MsgIs
  <2>4. Alive(toR') = Alive(toR)
    BY <2>1
  <2>. QED  BY ONLY <1>0, <2>1, <2>3, <2>4, Clock DEF Clock
<1>14. CASE RRemote
  <2>1. /\ UNCHANGED <<prompt, s, sMissed, lead, link, toS>> /\ r = "up"
        /\ r' \in {"attached", "locating", "up"} =>
              /\ toR # <<>> /\ toR' = Tail(toR) /\ r' = "up"
              /\ \/ Head(toR).kind # "alive" /\ rMissed' = rMissed
                 \/ rMissed' = 0
    BY <1>14 DEF RRemote, Tell, RAnswer, RFail, Heard, RReadable, SClosed, sVars
  <2>2. /\ toR # <<>> /\ toR' = Tail(toR) /\ Head(toR).kind # "alive" => Alive(toR') = Alive(toR)
    BY <1>30, AliveFacts
  <2>. QED  BY ONLY <1>0, <2>1, <2>2, Clock DEF Clock
<1>15. CASE RTimeout
  <2>1. /\ UNCHANGED <<prompt, s, sMissed, toR, link>> /\ r = "up" /\ lead' = 0
        /\ \/ toS' = Append(toS, Msg("alive")) /\ rMissed' = rMissed + 1 /\ r' = "up"
           \/ r' \notin {"attached", "locating", "up"}
    BY <1>15 DEF RTimeout, Tell, RExit, TooMany, RReadable, SClosed, ClientGone, Silent, sVars
  <2>2. toS' = Append(toS, Msg("alive")) => Alive(toS') = Alive(toS) + 1
    BY <1>30, AliveFacts, MessageType, MsgIs
  <2>. QED  BY ONLY <1>0, <2>1, <2>2, Clock DEF Clock
<1>16. CASE RKill
  <2>1. /\ UNCHANGED <<prompt, rMissed, sMissed, lead, toS>>
        /\ r' = r \/ r' \notin {"attached", "locating", "up"}
        /\ s' = "up" => s = "up" /\ toR' = toR
        /\ link' = "up" => link = "up"
    BY <1>16 DEF RKill, cVars, rVars, sVars, vVars
  <2>. QED  BY <2>1 DEF Clock
<1>17. CASE SFork
  <2>1. /\ UNCHANGED <<prompt, r, rMissed, sMissed, lead, link>> /\ s = "none" /\ s' # "up"
        /\ toS # <<>> /\ toS' = Tail(toS)
    BY <1>17 DEF SFork, rVars
  <2>2. Head(toS).kind = "locate"
    BY <1>30, <2>1, Items DEF Stages
  <2>3. Alive(toS') = Alive(toS)
    BY <1>30, <2>1, <2>2, AliveFacts
  <2>. QED  BY ONLY <1>0, <2>1, <2>3, Clock DEF Clock
<1>18. CASE SLocate
  <2>1. UNCHANGED <<prompt, r, rMissed, sMissed, lead, link, toS>> /\ s = "forked"
    BY <1>18 DEF SLocate, RClosed, ReceiverGone, rVars
  <2>. QED  BY <2>1 DEF Clock, Stages
<1>19. CASE SMessage
  <2>1. /\ UNCHANGED <<prompt, r, rMissed, lead, link>> /\ s = "up"
        /\ toS # <<>> /\ toS' = Tail(toS)
    BY <1>19 DEF SMessage, SFail, Posted, Heard, RClosed, ReceiverGone, rVars
  <2>2. \/ s' = "gone" /\ UNCHANGED sMissed /\ Head(toS).kind # "alive"
        \/ s' = "gone" /\ sMissed' = 0
        \/ UNCHANGED <<s, sMissed, toR>> /\ Head(toS).kind # "alive"
        \/ /\ UNCHANGED s /\ sMissed' = 0 /\ Head(toS).kind = "alive"
           /\ toR' = Append(toR, Head(toS))
    BY <1>19 DEF SMessage, SFail, Posted, Heard, RClosed, ReceiverGone
  <2>3. Head(toS) \in Message
    BY <1>30, <2>1, FifoType
  <2>4. CASE Head(toS).kind # "alive"
    <3>1. Alive(toS') = Alive(toS)
      BY <1>30, <2>1, <2>4, AliveFacts
    <3>2. \/ s' = "gone" /\ (UNCHANGED sMissed \/ sMissed' = 0)
          \/ UNCHANGED <<s, sMissed, toR>>
      BY <2>2, <2>4
    <3>3. UNCHANGED <<s, sMissed, toR>> => Alive(toR') = Alive(toR)
      OBVIOUS
    <3>. QED  BY ONLY <1>0, <2>1, <3>1, <3>2, <3>3, Clock DEF Clock
  <2>5. CASE Head(toS).kind = "alive"
    <3>1. Alive(toS') + 1 = Alive(toS) /\ Alive(toS') \in Nat /\ Alive(toS) \in Nat /\ Alive(toR) \in Nat
      BY <1>30, <2>1, <2>5, <1>0, AliveFacts
    <3>2. sMissed' = 0 /\ (s' = "up" => Alive(toR') = Alive(toR) + 1)
      BY <1>30, <2>1, <2>2, <2>3, <2>5, AliveFacts
    <3>. QED  BY ONLY <1>0, <2>1, <2>2, <2>5, <3>1, <3>2, Clock DEF Clock
  <2>. QED  BY <2>4, <2>5
<1>20. CASE SEnd
  <2>1. /\ UNCHANGED <<prompt, rMissed, sMissed, lead, toS>>
        /\ r' = r \/ r' \notin {"attached", "locating", "up"}
        /\ s' = "up" => s = "up" /\ toR' = toR
        /\ link' = "up" => link = "up"
    BY <1>20 DEF SEnd, SFail, SReadable, RClosed, cVars, rVars, sVars, vVars
  <2>. QED  BY <2>1 DEF Clock
<1>21. CASE SReply
  <2>. DEFINE y == [Head(yfifo) EXCEPT !.kind = "reply"]
  <2>1. UNCHANGED <<prompt, r, rMissed, sMissed, lead, link, toS>> /\ s = "up"
    BY <1>21 DEF SReply, SFail, Passed, SReadable, RClosed, rVars
  <2>2. yfifo # <<>> => y \in Message /\ y.kind = "reply"
    BY <1>30, FifoType, MessageType DEF Message
  <2>3. s' = "up" => yfifo # <<>> /\ toR' = Append(toR, y)
    BY <1>21 DEF SReply, SFail, Passed, SReadable, RClosed
  <2>. HIDE DEF y
  <2>4. s' = "up" => Alive(toR') = Alive(toR)
    BY <1>30, <2>2, <2>3, AliveFacts
  <2>. QED  BY ONLY <1>0, <2>1, <2>4, Clock DEF Clock
<1>22. CASE STimeout
  <2>1. /\ UNCHANGED <<prompt, r, rMissed, link, toS, toR>> /\ s = "up"
        /\ lead' = IF prompt /\ lead < Drift THEN lead + 1 ELSE lead
        /\ sMissed' = sMissed \/ sMissed' = sMissed + 1
    BY <1>22 DEF STimeout, TooMany, SReadable, RClosed, ReceiverGone, rVars
  <2>2. Alive(toS') = Alive(toS) /\ Alive(toR') = Alive(toR)
    BY <2>1
  <2>. QED  BY ONLY <1>0, <2>1, <2>2, Clock DEF Clock
<1>23. CASE SKill
  <2>1. /\ UNCHANGED <<prompt, rMissed, sMissed, lead, toS>>
        /\ r' = r \/ r' \notin {"attached", "locating", "up"}
        /\ s' = "up" => s = "up" /\ toR' = toR
        /\ link' = "up" => link = "up"
    BY <1>23 DEF SKill, cVars, rVars, sVars, vVars
  <2>. QED  BY <2>1 DEF Clock
<1>24. CASE Take
  <2>1. /\ UNCHANGED <<prompt, rMissed, sMissed, lead, toS>>
        /\ r' = r \/ r' \notin {"attached", "locating", "up"}
        /\ s' = "up" => s = "up" /\ toR' = toR
        /\ link' = "up" => link = "up"
    BY <1>24 DEF Take, cVars, rVars, sVars, vVars
  <2>. QED  BY <2>1 DEF Clock
<1>25. CASE Answer
  <2>1. /\ UNCHANGED <<prompt, rMissed, sMissed, lead, toS>>
        /\ r' = r \/ r' \notin {"attached", "locating", "up"}
        /\ s' = "up" => s = "up" /\ toR' = toR
        /\ link' = "up" => link = "up"
    BY <1>25 DEF Answer, cVars, rVars, sVars, vVars
  <2>. QED  BY <2>1 DEF Clock
<1>26. CASE ReceiverExit
  <2>1. /\ UNCHANGED <<prompt, rMissed, sMissed, lead, toS>>
        /\ r' = r \/ r' \notin {"attached", "locating", "up"}
        /\ s' = "up" => s = "up" /\ toR' = toR
        /\ link' = "up" => link = "up"
    BY <1>26 DEF ReceiverExit, cVars, rVars, sVars, vVars
  <2>. QED  BY <2>1 DEF Clock
<1>27. CASE ReceiverKill
  <2>1. /\ UNCHANGED <<prompt, rMissed, sMissed, lead, toS>>
        /\ r' = r \/ r' \notin {"attached", "locating", "up"}
        /\ s' = "up" => s = "up" /\ toR' = toR
        /\ link' = "up" => link = "up"
    BY <1>27 DEF ReceiverKill, cVars, rVars, sVars, vVars
  <2>. QED  BY <2>1 DEF Clock
<1>28. CASE Cut
  <2>1. /\ UNCHANGED <<prompt, rMissed, sMissed, lead, toS>>
        /\ r' = r \/ r' \notin {"attached", "locating", "up"}
        /\ s' = "up" => s = "up" /\ toR' = toR
        /\ link' = "up" => link = "up"
    BY <1>28 DEF Cut, cVars, rVars, sVars, vVars
  <2>. QED  BY <2>1 DEF Clock
<1>29. CASE UNCHANGED vars
  BY <1>29 DEF Clock, vars, cVars, rVars, sVars, vVars
<1>. QED
  BY <1>1, <1>2, <1>3, <1>4, <1>5, <1>6, <1>7, <1>8, <1>9, <1>10, <1>11, <1>12, <1>13, <1>14,
     <1>15, <1>16, <1>17, <1>18, <1>19, <1>20, <1>21, <1>22, <1>23, <1>24, <1>25, <1>26, <1>27,
     <1>28, <1>29 DEF Next, RStep, SStep, Serve, Leave

\* The assumption on the timers: a conduit survives one time-out, and
\* surrogate_s gets at least one keep-alive in as many time-outs as it endures.
TimersFit == Limit >= 1 /\ Drift <= Limit

\* OnlyDeadGivenUp holds of every step: when time-outs are prompt, neither
\* surrogate gives up a partner that is there and can be heard.
THEOREM OnlyDeadIsGivenUp == ASSUME TimersFit PROVE Spec => OnlyDeadGivenUp
<1>. DEFINE Step == prompt =>
        /\ RTimeout /\ RClosed' /\ ~ ClientGone => link = "cut" \/ s # "up"
        /\ STimeout /\ SClosed' /\ ~ ReceiverGone => link = "cut" \/ r # "up"
<1>1. Init => Clock
  BY BoundsAssumption DEF Init, Clock
<1>2. IInv /\ Clock /\ [Next]_vars => Clock'
  BY ClockStep, TypesStep DEF IInv, Orderly
<1>3. IInv /\ Clock /\ [Next]_vars => [Step]_vars
  <2>. SUFFICES ASSUME Types, Clock, prompt PROVE Step
    BY DEF IInv
  <2>1. /\ rMissed \in Nat /\ sMissed \in Nat /\ lead \in Nat /\ Limit \in Nat /\ Drift \in Nat
        /\ Limit >= 1 /\ Drift <= Limit /\ link \in {"up", "cut"}
    BY BoundsAssumption, TimersFit DEF Types, TimersFit
  <2>2. (toS = <<>> => Alive(toS) = 0) /\ (toR = <<>> => Alive(toR) = 0)
    BY AliveFacts DEF Types
  <2>3. ASSUME RTimeout, RClosed', ~ ClientGone, link = "up", s = "up" PROVE FALSE
    <3>1. r = "up" /\ toS = <<>> /\ toR = <<>>
      BY <2>3 DEF RTimeout, Silent
    <3>2. rMissed + 1 > Limit
      BY <2>3, <3>1 DEF RTimeout, TooMany, RClosed, ClientGone
    <3>3. rMissed <= 0
      BY <2>2, <2>3, <3>1 DEF Clock
    <3>. QED  BY <2>1, <3>2, <3>3
  <2>4. ASSUME STimeout, SClosed', ~ ReceiverGone, link = "up", r = "up" PROVE FALSE
    <3>1. s = "up" /\ toS = <<>> /\ lead < Drift
      BY <2>4 DEF STimeout, SReadable
    <3>2. sMissed + 1 > Limit
      BY <2>4, <3>1 DEF STimeout, TooMany, SClosed, ReceiverGone
    <3>3. sMissed <= lead
      BY <2>1, <2>2, <2>4, <3>1 DEF Clock
    <3>. QED  BY <2>1, <3>1, <3>2, <3>3
  <2>. QED  BY <2>1, <2>3, <2>4
<1>. QED  BY <1>1, <1>2, <1>3, Invariant, PTL DEF Spec, OnlyDeadGivenUp

=============================================================================
