------------------------------ MODULE TcpXProofs ------------------------------
(***************************************************************************)
(* Proofs about TcpX.                                                      *)
(*                                                                         *)
(* The invariant follows the client's request: through the front's fifo,   *)
(* over the connection, to the receiver and back.  Each action has a lemma *)
(* that says what it does to the variables the invariant looks at (<1>1),  *)
(* what goes in and out of the fifos (<1>2), what that does to the number  *)
(* of requests on their way (<1>3), and then goes through the invariant.   *)
(***************************************************************************)
EXTENDS TcpX, FifoLemmas

\* What the numbers in the messages are, within the bound on Sends and Triggers.
Letter == [kind : Kind, n : 0..MaxAsks]
FrontType == [at : {"none", "forked", "child", "waiting", "up", "stray", "hung",
                    "faulted", "gone", "killed"},
              holds : BOOLEAN, receiving : BOOLEAN, missed : 0..Limit]
BackType == [at : {"none", "forked", "child", "waiting", "up", "stray", "gone"},
             missed : 0..Limit]

\* The type invariant, variable by variable, with the numbers in the messages.
Types ==
    /\ how \in Hows /\ link \in {"up", "cut"} /\ named \in {"no", "yes", "renamed"}
    /\ client \in {"start", "asking", "idle", "sending", "refused", "closing", "exited",
                   "killed"}
    /\ asked \in 0..MaxAsks
    /\ front \in FrontType /\ back \in BackType
    /\ receiver \in {"start", "asking", "up", "refused", "gone"}
    /\ answer \in Seq(Letter) /\ ffifo \in Seq(Letter) /\ yfifo \in Seq(Letter)
    /\ toBack \in Seq(Letter) /\ toFront \in Seq(Letter) /\ vfifo \in Seq(Letter)
    /\ taken \in 0..MaxAsks /\ got \subseteq 1..MaxAsks

\* The kinds Requests counts, and one of them at a time.
RequestKind == {"send", "reply", "error"}
Sends(q) == Count(q, {"send"})
Replies(q) == Count(q, {"reply"})

Held == IF front.holds THEN 1 ELSE 0
Working == IF taken # 0 THEN 1 ELSE 0

\* Numbers tell requests from proxies; proxies and requests alone get through to
\* the receiver, and replies and errors alone come back.
Formed(q) ==
    \A m \in ToSet(q) : /\ m.kind = "send" => m.n # 0
                        /\ m.kind = "proxy" => m.n = 0
Forms ==
    /\ Formed(ffifo) /\ Formed(toBack) /\ Formed(vfifo)
    /\ \A m \in ToSet(vfifo) : m.kind \in {"send", "proxy"}
    /\ \A m \in ToSet(yfifo) : m.kind \in {"reply", "error"}

\* Who sets up a conduit, and how far it is when its ends begin to talk.
Setup ==
    /\ how = "locate" =>
          /\ front.at \notin {"none", "forked"} /\ back.at \notin {"child", "waiting", "stray"}
          /\ client = "start" => front.at = "child" /\ ffifo = <<>>
          /\ back.at \in {"none", "forked"} => front.at # "up" /\ toFront = <<>>
    /\ how = "attach" =>
          /\ front.at \notin {"child", "waiting", "stray"} /\ back.at \notin {"none", "forked"}
          /\ receiver = "start" => back.at = "child"
          /\ front.at \in {"none", "forked"} => back.at # "up" /\ toBack = <<>>
    /\ StrayHoldsNobody

\* The front's name is attached when the other end is told that it is.
Attachment ==
    /\ named # "no" => front.at \notin {"none", "forked"}
    /\ how = "attach" =>
          /\ receiver = "up" => named # "no"
          /\ \A m \in ToSet(toBack) : m.kind = "found" => named # "no"

\* Until the front is up nothing is on its way.
Opening ==
    /\ front.at \in {"none", "forked", "child", "waiting"} =>
          /\ client \notin {"idle", "sending"} /\ answer = <<>>
          /\ Sends(ffifo) = 0 /\ Replies(toFront) = 0 /\ InTransit = 0
          /\ \A m \in ToSet(toBack) : m.kind = "locate"
    /\ front.at \in {"none", "forked", "child"} => ~ front.holds

\* The client has one request out at most, and one answer waiting.
OneOut ==
    /\ Len(answer) <= 1
    /\ client \notin {"asking", "sending"} => answer = <<>>
    /\ front.at = "up" =>
          /\ Sends(ffifo) + Held + Len(answer) <= 1
          /\ client \in {"start", "idle", "refused"} => Sends(ffifo) = 0 /\ ~ front.holds

\* The client that the front holds has a request or an answer on its way at most,
\* and none is on its way otherwise.
Transit ==
    /\ front.at = "up" => Replies(toFront) <= Held
    /\ front.at = "up" /\ back.at # "gone" => InTransit <= Held
    /\ ToggleIsRight

\* All messages of kind k in q are about request n.
About(q, k, n) == \A m \in ToSet(q) : m.kind = k => m.n = n

\* Everything that is on its way is about the client's current request, and what
\* comes back was received before.
Current ==
    /\ front.at = "up" =>
          /\ About(ffifo, "send", asked) /\ About(toFront, "reply", asked)
          /\ back.at # "gone" =>
                /\ About(toBack, "send", asked) /\ About(vfifo, "send", asked)
                /\ About(yfifo, "reply", asked)
                /\ taken # 0 => taken = asked
    /\ client = "sending" => About(answer, "reply", asked)

Answered(q) == \A m \in ToSet(q) : m.kind = "reply" => m.n \in got
Received ==
    /\ Answered(yfifo) /\ Answered(toFront) /\ Answered(answer)
    /\ taken # 0 => taken \in got

\* All but the types.
Orderly ==
    Forms /\ Setup /\ Attachment /\ Opening /\ OneOut /\ Transit /\ Current /\ Received

\* What every reachable state satisfies.
IInv == Types /\ Orderly

-----------------------------------------------------------------------------
(* Types.                                                                  *)

\* What goes in and out of a fifo.
LEMMA LetterIs ==
  /\ Msg("locate") \in Letter /\ Msg("found") \in Letter /\ Msg("absent") \in Letter
  /\ Msg("attach") \in Letter /\ Msg("proxy") \in Letter /\ Msg("clone") \in Letter
  /\ Msg("alive") \in Letter /\ Msg("error") \in Letter /\ Msg("close") \in Letter
  /\ \A n \in 1..MaxAsks : /\ [kind |-> "send", n |-> n] \in Letter
                           /\ [kind |-> "reply", n |-> n] \in Letter
  /\ \A m \in Letter : m.n \in 0..MaxAsks
  BY ConduitAssumption DEF Letter, Msg, Kind

\* The constructor of messages without a number.
LEMMA MsgIs ==
  /\ Msg("locate").kind = "locate" /\ Msg("locate").n = 0
  /\ Msg("found").kind = "found" /\ Msg("found").n = 0
  /\ Msg("absent").kind = "absent" /\ Msg("absent").n = 0
  /\ Msg("attach").kind = "attach" /\ Msg("attach").n = 0
  /\ Msg("proxy").kind = "proxy" /\ Msg("proxy").n = 0
  /\ Msg("clone").kind = "clone" /\ Msg("clone").n = 0
  /\ Msg("alive").kind = "alive" /\ Msg("alive").n = 0
  /\ Msg("error").kind = "error" /\ Msg("error").n = 0
  /\ Msg("close").kind = "close" /\ Msg("close").n = 0
  BY DEF Msg

\* A reply is passed on as it is.
LEMMA SameReply == \A m \in Letter : m.kind = "reply" => [m EXCEPT !.kind = "reply"] = m
  BY DEF Letter

\* A fifo stays one.
LEMMA FifoType ==
  ASSUME NEW q \in Seq(Letter)
  PROVE  /\ \A m \in Letter : Append(q, m) \in Seq(Letter)
         /\ q # <<>> => Head(q) \in Letter /\ Tail(q) \in Seq(Letter)
  OBVIOUS

\* Two of them.
LEMMA Twice ==
  ASSUME NEW q \in Seq(Letter), NEW m \in Letter
  PROVE  q \o <<m, m>> = Append(Append(q, m), m)
  OBVIOUS

\* The invariant's types are TypeOK's.
LEMMA TypesAre == Types => TypeOK
<1>. SUFFICES ASSUME Types PROVE TypeOK
  OBVIOUS
<1>1. Letter \subseteq Message
  BY ConduitAssumption DEF Letter, Message
<1>2. \A q \in Seq(Letter) : q \in Seq(Message)
  BY <1>1
<1>. QED  BY <1>2 DEF Types, TypeOK, FrontType, BackType

\* Every step keeps the types.
LEMMA TypesStep == Types /\ [Next]_vars => Types'
<1>. SUFFICES ASSUME Types, [Next]_vars PROVE Types'
  OBVIOUS
<1>1. CASE ClientLocate
  <2>1. ffifo' \in Seq(Letter)
    BY <1>1, Types, LetterIs, FifoType DEF Types, ClientLocate, FOpen, Puts, FEnded, bVars,
       wires, vVars
  <2>. QED  BY ONLY <1>1, <2>1, Types, ConduitAssumption DEF Types, ClientLocate, FOpen, Puts,
               FEnded, bVars, wires, vVars
<1>2. CASE ClientSend
  <2>1. ffifo' \in Seq(Letter)
    <3>1. ffifo' = ffifo \/ ffifo' = Append(ffifo, [kind |-> "send", n |-> asked + 1])
      BY ONLY <1>2 DEF ClientSend, FOpen, Puts, FEnded, bVars, wires, vVars
    <3>2. asked + 1 \in 1..MaxAsks
      BY ONLY <1>2, Types, ConduitAssumption DEF ClientSend, Types
    <3>3. [kind |-> "send", n |-> asked + 1] \in Letter
      BY ONLY <3>2, LetterIs
    <3>. QED  BY ONLY <3>1, <3>3, Types, FifoType DEF Types
  <2>. QED  BY ONLY <1>2, <2>1, Types, ConduitAssumption DEF Types, ClientSend, FOpen, Puts,
               FEnded, bVars, wires, vVars
<1>3. CASE ClientTrigger
  <2>1. ffifo' \in Seq(Letter)
    BY <1>3, Types, LetterIs, FifoType DEF Types, ClientTrigger, FOpen, Puts, FEnded, bVars,
       wires, vVars
  <2>. QED  BY ONLY <1>3, <2>1, Types, ConduitAssumption DEF Types, ClientTrigger, FOpen, Puts,
               FEnded, bVars, wires, vVars
<1>4. CASE ClientReturn
  <2>1. answer' \in Seq(Letter)
    BY <1>4, Types, LetterIs, FifoType DEF Types, ClientReturn, fVars, bVars, wires, vVars
  <2>. QED  BY ONLY <1>4, <2>1, Types, ConduitAssumption DEF Types, ClientReturn, fVars, bVars,
               wires, vVars
<1>5. CASE ClientExit
  <2>1. answer' \in Seq(Letter) /\ ffifo' \in Seq(Letter)
    <3>1. answer' = <<>> /\ ffifo' \in {ffifo, Append(ffifo, Msg("close"))}
      BY ONLY <1>5 DEF ClientExit, FOpen, Puts, FEnded, bVars, wires, vVars
    <3>2. <<>> \in Seq(Letter)
      OBVIOUS
    <3>. QED  BY ONLY <3>1, <3>2, Types, LetterIs, FifoType DEF Types
  <2>. QED  BY ONLY <1>5, <2>1, Types, ConduitAssumption DEF Types, ClientExit, FOpen, Puts,
               FEnded, bVars, wires, vVars
<1>6. CASE ClientRemove
  BY ONLY <1>6, Types, ConduitAssumption DEF Types, ClientRemove, fVars, bVars, wires, vVars
<1>7. CASE ClientKill
  <2>1. answer' \in Seq(Letter)
    BY <1>7, Types, LetterIs, FifoType DEF Types, ClientKill, fVars, bVars, wires, vVars
  <2>. QED  BY ONLY <1>7, <2>1, Types, ConduitAssumption DEF Types, ClientKill, fVars, bVars,
               wires, vVars
<1>8. CASE FConnect
  <2>1. front' \in FrontType
    <3>1. front \in FrontType /\ 0 \in 0..Limit /\ Limit \in Nat
      BY ONLY Types, ConduitAssumption DEF Types
    <3>. QED  BY ONLY <1>8, <3>1 DEF FrontType, FConnect, Tell, At, FTakes, FLoses, FWrites,
                 Refuses, ClientGone, bVars, vVars
  <2>2. answer' \in Seq(Letter) /\ ffifo' \in Seq(Letter) /\ toBack' \in Seq(Letter)
    <3>1. /\ answer' \in {answer, Append(answer, Msg("absent"))}
          /\ toBack' \in {toBack, Append(toBack, Msg("locate"))}
          /\ ffifo # <<>> /\ ffifo' = Tail(ffifo)
      BY ONLY <1>8 DEF FConnect, Tell, At, FTakes, FLoses, FWrites, Refuses, ClientGone, bVars,
         vVars
    <3>. QED  BY ONLY <3>1, Types, LetterIs, FifoType DEF Types
  <2>. QED  BY ONLY <1>8, <2>1, <2>2, Types, ConduitAssumption DEF Types, FConnect, Tell, At,
               FTakes, FLoses, FWrites, Refuses, ClientGone, bVars, vVars
<1>9. CASE FLocated
  <2>1. front' \in FrontType
    <3>1. front \in FrontType /\ 0 \in 0..Limit /\ Limit \in Nat
      BY ONLY Types, ConduitAssumption DEF Types
    <3>. QED  BY ONLY <1>9, <3>1 DEF FrontType, FLocated, Tell, At, Refuses, bVars, vVars
  <2>2. answer' \in Seq(Letter) /\ toFront' \in Seq(Letter)
    <3>1. \/ /\ answer' \in {answer, Append(answer, Msg("absent"))} /\ toFront' = toFront
          \/ /\ answer' \in {answer, Append(answer, Head(toFront))}
             /\ toFront # <<>> /\ toFront' = Tail(toFront)
      BY ONLY <1>9 DEF FLocated, Tell, At, Refuses, bVars, vVars
    <3>. QED  BY ONLY <3>1, Types, LetterIs, FifoType DEF Types
  <2>. QED  BY ONLY <1>9, <2>1, <2>2, Types, ConduitAssumption DEF Types, FLocated, Tell, At,
               Refuses, bVars, vVars
<1>10. CASE FFork
  <2>1. front' \in FrontType
    <3>1. front \in FrontType /\ 0 \in 0..Limit /\ Limit \in Nat
      BY ONLY Types, ConduitAssumption DEF Types
    <3>. QED  BY ONLY <1>10, <3>1 DEF FrontType, FFork, At, cVars, bVars, vVars
  <2>2. toBack' \in Seq(Letter) /\ toFront' \in Seq(Letter)
    BY <1>10, Types, LetterIs, FifoType DEF Types, FFork, At, cVars, bVars, vVars
  <2>. QED  BY ONLY <1>10, <2>1, <2>2, Types, ConduitAssumption DEF Types, FFork, At, cVars,
               bVars, vVars
<1>11. CASE FAttach
  <2>1. front' \in FrontType
    <3>1. front \in FrontType /\ 0 \in 0..Limit /\ Limit \in Nat
      BY ONLY Types, ConduitAssumption DEF Types
    <3>. QED  BY ONLY <1>11, <3>1 DEF FrontType, FAttach, At, cVars, bVars, vVars
  <2>2. toBack' \in Seq(Letter)
    <3>1. \/ toBack' = Append(toBack, Msg("found"))
          \/ toBack' = toBack \o <<Msg("absent"), Msg("absent")>>
      BY ONLY <1>11 DEF FAttach, At, cVars, bVars, vVars
    <3>2. toBack \o <<Msg("absent"), Msg("absent")>>
            = Append(Append(toBack, Msg("absent")), Msg("absent"))
      BY LetterIs, Twice DEF Types
    <3>3. Append(toBack, Msg("absent")) \in Seq(Letter)
      BY ONLY Types, LetterIs, FifoType DEF Types
    <3>. QED  BY ONLY <3>1, <3>2, <3>3, Types, LetterIs, FifoType DEF Types
  <2>. QED  BY ONLY <1>11, <2>1, <2>2, Types, ConduitAssumption DEF Types, FAttach, At, cVars,
               bVars, vVars
<1>12. CASE FSend
  <2>1. front' \in FrontType
    <3>1. front \in FrontType /\ 0 \in 0..Limit /\ Limit \in Nat
      BY ONLY Types, ConduitAssumption DEF Types
    <3>. QED  BY ONLY <1>12, <3>1 DEF FrontType, FSend, Tell, At, FTakes, FLoses, FWrites,
                 FWriteFails, AfterSend, FHears, BEnded, ClientGone, FReadable, bVars, vVars
  <2>2. answer' \in Seq(Letter) /\ ffifo' \in Seq(Letter) /\ toBack' \in Seq(Letter)
    <3>1. /\ answer' \in {answer, Append(answer, Msg("error"))}
          /\ toBack' \in {toBack, Append(toBack, Head(ffifo))}
          /\ ffifo # <<>> /\ ffifo' = Tail(ffifo)
      BY ONLY <1>12 DEF FSend, Tell, At, FTakes, FLoses, FWrites, FWriteFails, AfterSend,
         FHears, BEnded, ClientGone, FReadable, bVars, vVars
    <3>. QED  BY ONLY <3>1, Types, LetterIs, FifoType DEF Types
  <2>. QED  BY ONLY <1>12, <2>1, <2>2, Types, ConduitAssumption DEF Types, FSend, Tell, At,
               FTakes, FLoses, FWrites, FWriteFails, AfterSend, FHears, BEnded, ClientGone,
               FReadable, bVars, vVars
<1>13. CASE FProxy
  <2>1. front' \in FrontType
    <3>1. front \in FrontType /\ 0 \in 0..Limit /\ Limit \in Nat
      BY ONLY Types, ConduitAssumption DEF Types
    <3>. QED  BY ONLY <1>13, <3>1 DEF FrontType, FProxy, Tell, At, FExits, FTakes, FWrites,
                 FWriteFails, FHears, NameAfter, BEnded, FReadable, bVars, vVars
  <2>2. answer' \in Seq(Letter) /\ ffifo' \in Seq(Letter) /\ toBack' \in Seq(Letter)
    <3>1. /\ answer' \in {answer, Append(answer, Msg("error"))}
          /\ toBack' \in {toBack, Append(toBack, Head(ffifo))}
          /\ ffifo # <<>> /\ ffifo' = Tail(ffifo)
      BY ONLY <1>13 DEF FProxy, Tell, At, FExits, FTakes, FWrites, FWriteFails, FHears,
         NameAfter, BEnded, FReadable, bVars, vVars
    <3>. QED  BY ONLY <3>1, Types, LetterIs, FifoType DEF Types
  <2>. QED  BY ONLY <1>13, <2>1, <2>2, Types, ConduitAssumption DEF Types, FProxy, Tell, At,
               FExits, FTakes, FWrites, FWriteFails, FHears, NameAfter, BEnded, FReadable,
               bVars, vVars
<1>14. CASE FClose
  <2>1. front' \in FrontType
    <3>1. front \in FrontType /\ 0 \in 0..Limit /\ Limit \in Nat
      BY ONLY Types, ConduitAssumption DEF Types
    <3>. QED  BY ONLY <1>14, <3>1 DEF FrontType, FClose, Tell, At, FExits, FTakes, FWrites,
                 FWriteFails, FHears, BEnded, FReadable, bVars, vVars
  <2>2. answer' \in Seq(Letter) /\ ffifo' \in Seq(Letter) /\ toBack' \in Seq(Letter)
    <3>1. /\ answer' \in {answer, Append(answer, Msg("error"))}
          /\ toBack' \in {toBack, Append(toBack, Msg("close"))}
          /\ ffifo # <<>> /\ ffifo' = Tail(ffifo)
      BY ONLY <1>14 DEF FClose, Tell, At, FExits, FTakes, FWrites, FWriteFails, FHears, BEnded,
         FReadable, bVars, vVars
    <3>. QED  BY ONLY <3>1, Types, LetterIs, FifoType DEF Types
  <2>. QED  BY ONLY <1>14, <2>1, <2>2, Types, ConduitAssumption DEF Types, FClose, Tell, At,
               FExits, FTakes, FWrites, FWriteFails, FHears, BEnded, FReadable, bVars, vVars
<1>15. CASE FRemote
  <2>1. front' \in FrontType
    <3>1. front \in FrontType /\ 0 \in 0..Limit /\ Limit \in Nat
      BY ONLY Types, ConduitAssumption DEF Types
    <3>. QED  BY ONLY <1>15, <3>1 DEF FrontType, FRemote, Tell, At, FFails, FListens, BEnded,
                 FReadable, bVars, vVars
  <2>2. answer' \in Seq(Letter) /\ toFront' \in Seq(Letter)
    <3>1. \/ answer' \in {answer, Append(answer, Msg("error"))} /\ toFront' = toFront
          \/ /\ answer' \in {answer, Append(answer, Head(toFront)), Append(answer, Msg("error"))}
             /\ toFront # <<>> /\ toFront' = Tail(toFront)
      BY ONLY <1>15 DEF FRemote, Tell, At, FFails, FListens, BEnded, FReadable, bVars, vVars
    <3>. QED  BY ONLY <3>1, Types, LetterIs, FifoType DEF Types
  <2>. QED  BY ONLY <1>15, <2>1, <2>2, Types, ConduitAssumption DEF Types, FRemote, Tell, At,
               FFails, FListens, BEnded, FReadable, bVars, vVars
<1>16. CASE FTimeout
  <2>1. front' \in FrontType
    <3>1. front \in FrontType /\ 0 \in 0..Limit /\ Limit \in Nat
      BY ONLY Types, ConduitAssumption DEF Types
    <3>2. \/ front' = [front EXCEPT !.at = "gone", !.holds = FALSE]
          \/ front' = [front EXCEPT !.at = "gone"]
          \/ front' = [[front EXCEPT !.at = "gone"] EXCEPT !.holds = FALSE]
          \/ front' = [[front EXCEPT !.at = "gone"] EXCEPT !.holds = FALSE, !.at = "hung"]
          \/ front' = [[front EXCEPT !.at = "gone"] EXCEPT !.holds = FALSE, !.at = "gone"]
          \/ front.missed + 1 <= Limit /\ front' = [front EXCEPT !.missed = @ + 1]
      <4>1. front.missed + 1 > Limit \/ front.missed + 1 <= Limit
        BY ONLY <3>1 DEF FrontType
      <4>. QED  BY ONLY <1>16, <4>1 DEF FTimeout, FExits, Tell, At, TooMany
    <3>3. CASE front.missed + 1 <= Limit /\ front' = [front EXCEPT !.missed = @ + 1]
      BY ONLY <3>1, <3>3 DEF FrontType
    <3>4. CASE front' = [front EXCEPT !.at = "gone", !.holds = FALSE]
      BY ONLY <3>1, <3>4 DEF FrontType
    <3>5. CASE \/ front' = [front EXCEPT !.at = "gone"]
               \/ front' = [[front EXCEPT !.at = "gone"] EXCEPT !.holds = FALSE]
               \/ front' = [[front EXCEPT !.at = "gone"] EXCEPT !.holds = FALSE, !.at = "hung"]
               \/ front' = [[front EXCEPT !.at = "gone"] EXCEPT !.holds = FALSE, !.at = "gone"]
      BY ONLY <3>1, <3>5 DEF FrontType
    <3>. QED  BY ONLY <3>2, <3>3, <3>4, <3>5
  <2>2. answer' \in Seq(Letter) /\ toBack' \in Seq(Letter)
    <3>1. /\ answer' \in {answer, Append(answer, Msg("error"))}
          /\ toBack' \in {Append(toBack, Msg("close")), Append(toBack, Msg("alive"))}
      BY ONLY <1>16 DEF FTimeout, Tell, At, FExits, FWrites, TooMany, SenderDied, KeepAlive,
         BEnded, ClientGone, FReadable, bVars, vVars
    <3>. QED  BY ONLY <3>1, Types, LetterIs, FifoType DEF Types
  <2>. QED  BY ONLY <1>16, <2>1, <2>2, Types, ConduitAssumption DEF Types, FTimeout, Tell, At,
               FExits, FWrites, TooMany, SenderDied, KeepAlive, BEnded, ClientGone, FReadable,
               bVars, vVars
<1>17. CASE FKill
  <2>1. front' \in FrontType
    BY ONLY <1>17, Types, ConduitAssumption DEF Types, FrontType, FKill, cVars, bVars, wires,
       vVars
  <2>. QED  BY ONLY <1>17, <2>1, Types, ConduitAssumption DEF Types, FKill, cVars, bVars, wires,
               vVars
<1>18. CASE ReceiverAttach
  BY ONLY <1>18, Types, ConduitAssumption DEF Types, ReceiverAttach, cVars, fVars, bVars, wires
<1>19. CASE BFork
  <2>1. back' \in BackType
    BY ONLY <1>19, Types, ConduitAssumption DEF Types, BackType, BFork, At, cVars, fVars, vVars
  <2>2. toBack' \in Seq(Letter) /\ toFront' \in Seq(Letter)
    BY <1>19, Types, LetterIs, FifoType DEF Types, BFork, At, cVars, fVars, vVars
  <2>. QED  BY ONLY <1>19, <2>1, <2>2, Types, ConduitAssumption DEF Types, BFork, At, cVars,
               fVars, vVars
<1>20. CASE BLocate
  <2>1. back' \in BackType
    BY ONLY <1>20, Types, ConduitAssumption DEF Types, BackType, BLocate, At, ReceiverFound,
       cVars, fVars, vVars
  <2>2. toFront' \in Seq(Letter)
    BY <1>20, Types, LetterIs, FifoType DEF Types, BLocate, At, ReceiverFound, cVars, fVars,
       vVars
  <2>. QED  BY ONLY <1>20, <2>1, <2>2, Types, ConduitAssumption DEF Types, BLocate, At,
               ReceiverFound, cVars, fVars, vVars
<1>21. CASE BConnect
  <2>1. back' \in BackType
    BY ONLY <1>21, Types, ConduitAssumption DEF Types, BackType, BConnect, At, cVars, fVars
  <2>2. toFront' \in Seq(Letter)
    BY <1>21, Types, LetterIs, FifoType DEF Types, BConnect, At, cVars, fVars
  <2>. QED  BY ONLY <1>21, <2>1, <2>2, Types, ConduitAssumption DEF Types, BConnect, At, cVars,
               fVars
<1>22. CASE BAttached
  <2>1. back' \in BackType
    BY ONLY <1>22, Types, ConduitAssumption DEF Types, BackType, BAttached, At, Attached, cVars,
       fVars
  <2>2. toBack' \in Seq(Letter)
    BY <1>22, Types, LetterIs, FifoType DEF Types, BAttached, At, Attached, cVars, fVars
  <2>. QED  BY ONLY <1>22, <2>1, <2>2, Types, ConduitAssumption DEF Types, BAttached, At,
               Attached, cVars, fVars
<1>23. CASE BMessage
  <2>1. back' \in BackType
    <3>1. back \in BackType /\ 0 \in 0..Limit /\ Limit \in Nat
      BY ONLY Types, ConduitAssumption DEF Types
    <3>. QED  BY ONLY <1>23, <3>1 DEF BackType, BMessage, At, BFails, cVars, fVars
  <2>2. toBack' \in Seq(Letter) /\ toFront' \in Seq(Letter) /\ vfifo' \in Seq(Letter)
    <3>1. /\ toBack # <<>> /\ toBack' = Tail(toBack)
          /\ toFront' \in {toFront, Append(toFront, Head(toBack)), Append(toFront, Msg("error"))}
          /\ vfifo' \in {vfifo, Append(vfifo, Head(toBack))}
      BY ONLY <1>23 DEF BMessage, At, BFails, cVars, fVars
    <3>. QED  BY ONLY <3>1, Types, LetterIs, FifoType DEF Types
  <2>. QED  BY ONLY <1>23, <2>1, <2>2, Types, ConduitAssumption DEF Types, BMessage, At, BFails,
               cVars, fVars
<1>24. CASE BEnd
  <2>1. back' \in BackType
    BY ONLY <1>24, Types, ConduitAssumption DEF Types, BackType, BEnd, At, BFails, FEnded,
       BReadable, cVars, fVars, vVars
  <2>2. toFront' \in Seq(Letter)
    BY <1>24, Types, LetterIs, FifoType DEF Types, BEnd, At, BFails, FEnded, BReadable, cVars,
       fVars, vVars
  <2>. QED  BY ONLY <1>24, <2>1, <2>2, Types, ConduitAssumption DEF Types, BEnd, At, BFails,
               FEnded, BReadable, cVars, fVars, vVars
<1>25. CASE BReply
  <2>1. back' \in BackType
    BY ONLY <1>25, Types, ConduitAssumption DEF Types, BackType, BReply, At, BFails, Passed,
       FEnded, BReadable, cVars, fVars, vVars
  <2>2. yfifo' \in Seq(Letter) /\ toFront' \in Seq(Letter)
    <3>1. /\ yfifo # <<>> /\ yfifo' = Tail(yfifo)
          /\ \/ /\ Head(yfifo).kind = "reply"
                /\ toFront' = Append(toFront, [Head(yfifo) EXCEPT !.kind = "reply"])
             \/ toFront' = Append(toFront, Msg("error"))
      BY ONLY <1>25 DEF BReply, At, BFails, Passed, FEnded, BReadable, cVars, fVars, vVars
    <3>2. Head(yfifo) \in Letter
      BY ONLY <3>1, Types, FifoType DEF Types
    <3>3. toFront' \in {Append(toFront, Head(yfifo)), Append(toFront, Msg("error"))}
      BY ONLY <3>1, <3>2, SameReply
    <3>. QED  BY ONLY <3>1, <3>2, <3>3, Types, LetterIs, FifoType DEF Types
  <2>. QED  BY ONLY <1>25, <2>1, <2>2, Types, ConduitAssumption DEF Types, BReply, At, BFails,
               Passed, FEnded, BReadable, cVars, fVars, vVars
<1>26. CASE BTimeout
  <2>1. back' \in BackType
    <3>1. back \in BackType /\ 0 \in 0..Limit /\ Limit \in Nat
      BY ONLY Types, ConduitAssumption DEF Types
    <3>. QED  BY ONLY <1>26, <3>1 DEF BackType, BTimeout, At, TooMany, FEnded, BReadable, cVars,
                 fVars, wires, vVars
  <2>. QED  BY ONLY <1>26, <2>1, Types, ConduitAssumption DEF Types, BTimeout, At, TooMany,
               FEnded, BReadable, cVars, fVars, wires, vVars
<1>27. CASE BKill
  <2>1. back' \in BackType
    BY ONLY <1>27, Types, ConduitAssumption DEF Types, BackType, BKill, At, cVars, fVars, wires,
       vVars
  <2>. QED  BY ONLY <1>27, <2>1, Types, ConduitAssumption DEF Types, BKill, At, cVars, fVars,
               wires, vVars
<1>28. CASE Take
  <2>1. vfifo' \in Seq(Letter)
    BY <1>28, Types, LetterIs, FifoType DEF Types, Take, cVars, fVars, bVars, wires
  <2>2. Head(vfifo).n \in 0..MaxAsks
    <3>1. Head(vfifo) \in Letter
      BY ONLY <1>28, Types, FifoType DEF Take, Types
    <3>. QED  BY ONLY <3>1, LetterIs
  <2>3. taken' \in 0..MaxAsks /\ got' \subseteq 1..MaxAsks
    <3>1. taken' = Head(vfifo).n /\ got' = IF taken' = 0 THEN got ELSE got \cup {taken'}
      BY ONLY <1>28 DEF Take
    <3>2. got \subseteq 1..MaxAsks /\ MaxAsks \in Nat
      BY ONLY Types, ConduitAssumption DEF Types
    <3>3. taken' # 0 => taken' \in 1..MaxAsks
      BY ONLY <2>2, <3>1, <3>2
    <3>. QED  BY ONLY <2>2, <3>1, <3>2, <3>3
  <2>. QED  BY ONLY <1>28, <2>1, <2>3, Types DEF Types, Take, cVars, fVars, bVars, wires
<1>29. CASE Answer
  <2>1. yfifo' \in Seq(Letter)
    <3>1. \/ yfifo' = yfifo
          \/ yfifo' = Append(yfifo, [kind |-> "reply", n |-> taken])
          \/ yfifo' = Append(yfifo, Msg("error"))
      BY ONLY <1>29 DEF Answer, cVars, fVars, wires
    <3>2. taken \in 1..MaxAsks
      BY ONLY <1>29, Types, ConduitAssumption DEF Answer, Types
    <3>3. [kind |-> "reply", n |-> taken] \in Letter
      BY ONLY <3>2, LetterIs
    <3>. QED  BY ONLY <3>1, <3>3, Types, LetterIs, FifoType DEF Types
  <2>. QED  BY ONLY <1>29, <2>1, Types, ConduitAssumption DEF Types, Answer, cVars, fVars, wires
<1>30. CASE ReceiverExit
  <2>1. yfifo' \in Seq(Letter) /\ vfifo' \in Seq(Letter)
    BY <1>30, Types, LetterIs, FifoType DEF Types, ReceiverExit, cVars, fVars, wires
  <2>. QED  BY ONLY <1>30, <2>1, Types, ConduitAssumption DEF Types, ReceiverExit, cVars, fVars,
               wires
<1>31. CASE Cut
  BY ONLY <1>31, Types, ConduitAssumption DEF Types, Cut, cVars, fVars, bVars, vVars
<1>32. CASE UNCHANGED vars
  BY <1>32 DEF Types, vars, cVars, fVars, bVars, wires, vVars
<1>. QED
  BY <1>1, <1>2, <1>3, <1>4, <1>5, <1>6, <1>7, <1>8, <1>9, <1>10, <1>11, <1>12, <1>13, <1>14,
     <1>15, <1>16, <1>17, <1>18, <1>19, <1>20, <1>21, <1>22, <1>23, <1>24, <1>25, <1>26, <1>27,
     <1>28, <1>29, <1>30, <1>31, <1>32 DEF Next, FStep, BStep, Serve

\* The types are right at the start.
LEMMA TypesAtStart == Init => Types
<1>. SUFFICES ASSUME Init PROVE Types
  OBVIOUS
<1>1. front \in FrontType /\ back \in BackType
  BY ConduitAssumption DEF Init, FrontType, BackType
<1>2. <<>> \in Seq(Letter)
  OBVIOUS
<1>3. receiver \in {"start", "up", "gone"} /\ asked \in 0..MaxAsks /\ taken \in 0..MaxAsks
  BY ConduitAssumption DEF Init
<1>. QED  BY <1>1, <1>2, <1>3 DEF Init, Types

\* TypeOK holds in every state: messages stay messages in every fifo, and the
\* counters of time-outs stay within KEEP_ALIVE_FAIL_LIMIT.
THEOREM TypeCorrect == Spec => []TypeOK
  BY TypesAtStart, TypesStep, TypesAre, PTL DEF Spec

-----------------------------------------------------------------------------
(* What goes in and out of the fifos.                                      *)

\* The model's count of requests is one of the counts of FifoLemmas.
LEMMA RequestsAre == \A q : Requests(q) = Count(q, RequestKind)
  BY DEF Requests, Count, RequestKind

\* What the invariant sees when m goes into q at its end.
Put(q, m) ==
    /\ ToSet(Append(q, m)) = ToSet(q) \cup {m} /\ Len(Append(q, m)) = Len(q) + 1
    /\ m.kind \in RequestKind => Requests(Append(q, m)) = Requests(q) + 1
    /\ m.kind \notin RequestKind => Requests(Append(q, m)) = Requests(q)
    /\ m.kind = "send" => Sends(Append(q, m)) = Sends(q) + 1
    /\ m.kind # "send" => Sends(Append(q, m)) = Sends(q)
    /\ m.kind = "reply" => Replies(Append(q, m)) = Replies(q) + 1
    /\ m.kind # "reply" => Replies(Append(q, m)) = Replies(q)

\* What it sees when the head of q goes out.
Took(q) ==
    /\ Head(q) \in Letter /\ Head(q) \in ToSet(q)
    /\ ToSet(Tail(q)) \subseteq ToSet(q) /\ Len(Tail(q)) + 1 = Len(q)
    /\ Head(q).kind \in RequestKind => Requests(q) = Requests(Tail(q)) + 1
    /\ Head(q).kind \notin RequestKind => Requests(q) = Requests(Tail(q))
    /\ Requests(Tail(q)) <= Requests(q)
    /\ Head(q).kind = "send" => Sends(q) = Sends(Tail(q)) + 1
    /\ Head(q).kind # "send" => Sends(q) = Sends(Tail(q))
    /\ Head(q).kind = "reply" => Replies(q) = Replies(Tail(q)) + 1
    /\ Head(q).kind # "reply" => Replies(q) = Replies(Tail(q))
    /\ Replies(Tail(q)) <= Replies(q)

\* A message put in.
LEMMA PutFacts ==
  ASSUME NEW q \in Seq(Letter), NEW m \in Letter
  PROVE  Put(q, m) /\ Append(q, m) \in Seq(Letter)
<1>1. \A K : Count(q, K) \in Nat /\ Count(Append(q, m), K) = Count(q, K) + One(m, K)
  BY CountAppend, CountNat
<1>2. ToSet(Append(q, m)) = ToSet(q) \cup {m}
  BY PutIn
<1>3. Len(Append(q, m)) = Len(q) + 1 /\ Append(q, m) \in Seq(Letter)
  OBVIOUS
<1>4. \A K : /\ m.kind \in K => Count(Append(q, m), K) = Count(q, K) + 1
             /\ m.kind \notin K => Count(Append(q, m), K) = Count(q, K)
  BY ONLY <1>1 DEF One
<1>. QED  BY <1>2, <1>3, <1>4, RequestsAre DEF Put, Sends, Replies

\* A message taken out.
LEMMA TookFacts == ASSUME NEW q \in Seq(Letter), q # <<>> PROVE Took(q)
<1>1. \A K : Count(q, K) \in Nat /\ Count(Tail(q), K) = Count(q, K) - One(Head(q), K)
  BY CountTail, CountNat
<1>2. Head(q) \in ToSet(q) /\ ToSet(Tail(q)) \subseteq ToSet(q)
  BY TakenOut
<1>3. Len(Tail(q)) + 1 = Len(q) /\ Head(q) \in Letter
  OBVIOUS
<1>4. \A K : /\ Head(q).kind \in K => Count(q, K) = Count(Tail(q), K) + 1
             /\ Head(q).kind \notin K => Count(q, K) = Count(Tail(q), K)
             /\ Count(Tail(q), K) <= Count(q, K)
  BY ONLY <1>1 DEF One
<1>. QED  BY <1>2, <1>3, <1>4, RequestsAre DEF Took, Sends, Replies

\* How much there is of everything.
LEMMA Numbers ==
  ASSUME NEW q \in Seq(Letter)
  PROVE  /\ Requests(q) \in Nat /\ Sends(q) \in Nat /\ Replies(q) \in Nat
         /\ Len(q) \in Nat /\ Replies(q) <= Requests(q)
         /\ Requests(q) = 0 <=> \A m \in ToSet(q) : m.kind \notin RequestKind
         /\ Sends(q) = 0 <=> \A m \in ToSet(q) : m.kind # "send"
         /\ Replies(q) = 0 <=> \A m \in ToSet(q) : m.kind # "reply"
<1>1. /\ Count(q, RequestKind) \in Nat /\ Count(q, {"send"}) \in Nat
      /\ Count(q, {"reply"}) \in Nat
  BY CountNat
<1>2. /\ Count(q, RequestKind) = 0 <=> \A m \in ToSet(q) : m.kind \notin RequestKind
      /\ Count(q, {"send"}) = 0 <=> \A m \in ToSet(q) : m.kind \notin {"send"}
      /\ Count(q, {"reply"}) = 0 <=> \A m \in ToSet(q) : m.kind \notin {"reply"}
  BY CountZero
<1>3. Count(q, {"reply"}) <= Count(q, RequestKind)
  BY CountMore DEF RequestKind
<1>. QED  BY <1>1, <1>2, <1>3, RequestsAre DEF Sends, Replies

\* An empty fifo.
LEMMA Nothing ==
  /\ ToSet(<<>>) = {} /\ Len(<<>>) = 0
  /\ Requests(<<>>) = 0 /\ Sends(<<>>) = 0 /\ Replies(<<>>) = 0
<1>1. ToSet(<<>>) = {}
  BY DEF ToSet
<1>2. Len(<<>>) = 0
  OBVIOUS
<1>. QED  BY <1>1, <1>2, CountEmpty, RequestsAre DEF Sends, Replies

\* What InTransit is the sum of.
Amount ==
    /\ Requests(toBack) \in Nat /\ Requests(vfifo) \in Nat /\ Requests(yfifo) \in Nat
    /\ Requests(toFront) \in Nat
    /\ Working \in {0, 1} /\ (taken = 0 <=> Working = 0)
    /\ InTransit = Requests(toBack) + Requests(vfifo) + Working + Requests(yfifo)
                   + Requests(toFront)

\* These are numbers.
LEMMA Amounts == Types => Amount
  BY Numbers DEF Types, Amount, InTransit, Working

\* So they are after a step.
LEMMA AmountsNext == Types' => Amount'
  BY Amounts, PTL

\* The measures of the invariant.
Measure ==
    /\ Sends(ffifo) \in Nat /\ Replies(toFront) \in Nat /\ InTransit \in Nat
    /\ Len(answer) \in Nat /\ Replies(toFront) <= InTransit /\ Held \in {0, 1}
    /\ front.holds \in BOOLEAN /\ front.receiving \in BOOLEAN

\* They are numbers.
LEMMA Measures == Types => Measure
<1>. SUFFICES ASSUME Types PROVE Measure
  OBVIOUS
<1>1. Replies(toFront) <= Requests(toFront)
  BY Numbers DEF Types
<1>2. InTransit \in Nat /\ Requests(toFront) <= InTransit
  BY ONLY Types, Amounts DEF Amount
<1>3. /\ Sends(ffifo) \in Nat /\ Replies(toFront) \in Nat /\ Len(answer) \in Nat
      /\ Requests(toFront) \in Nat
  BY Numbers DEF Types
<1>4. front.holds \in BOOLEAN /\ front.receiving \in BOOLEAN
  BY DEF Types, FrontType
<1>. QED  BY <1>1, <1>2, <1>3, <1>4 DEF Measure, Held

\* So they are after a step.
LEMMA MeasuresNext == Types' => Measure'
  BY Measures, PTL

\* What it means that nothing is on its way.
Quiet ==
    /\ Sends(ffifo) = 0 => \A m \in ToSet(ffifo) : m.kind # "send"
    /\ Replies(toFront) = 0 => \A m \in ToSet(toFront) : m.kind # "reply"
    /\ InTransit = 0 => /\ taken = 0
                        /\ \A m \in ToSet(toBack) : m.kind # "send"
                        /\ \A m \in ToSet(vfifo) : m.kind # "send"
                        /\ \A m \in ToSet(yfifo) : m.kind # "reply"
                        /\ \A m \in ToSet(toFront) : m.kind # "reply"

\* That is so in every state.
LEMMA QuietIs == Types => Quiet
<1>. SUFFICES ASSUME Types PROVE Quiet
  OBVIOUS
<1>0. InTransit = 0 => /\ Working = 0 /\ Requests(toBack) = 0 /\ Requests(vfifo) = 0
                       /\ Requests(yfifo) = 0 /\ Requests(toFront) = 0
  <2>1. /\ Requests(toBack) \in Nat /\ Requests(vfifo) \in Nat /\ Requests(yfifo) \in Nat
        /\ Requests(toFront) \in Nat /\ Working \in Nat
        /\ InTransit = Requests(toBack) + Requests(vfifo) + Working + Requests(yfifo)
                       + Requests(toFront)
    BY ONLY Types, Amounts DEF Amount
  <2>. QED  BY ONLY <2>1
<1>1. InTransit = 0 => taken = 0
  BY ONLY <1>0, Types, Amounts DEF Amount
<1>2. /\ Requests(toBack) = 0 => \A m \in ToSet(toBack) : m.kind \notin RequestKind
      /\ Requests(vfifo) = 0 => \A m \in ToSet(vfifo) : m.kind \notin RequestKind
      /\ Requests(yfifo) = 0 => \A m \in ToSet(yfifo) : m.kind \notin RequestKind
      /\ Requests(toFront) = 0 => \A m \in ToSet(toFront) : m.kind \notin RequestKind
  BY Numbers DEF Types
<1>3. /\ Sends(ffifo) = 0 => \A m \in ToSet(ffifo) : m.kind # "send"
      /\ Replies(toFront) = 0 => \A m \in ToSet(toFront) : m.kind # "reply"
  BY Numbers DEF Types
<1>. QED  BY <1>0, <1>1, <1>2, <1>3 DEF Quiet, RequestKind

-----------------------------------------------------------------------------
(* The steps.                                                              *)

\* The client asks, or finds the name; neither message counts for anything.
LEMMA ClientLocateOrderly == ASSUME Types, Orderly, ClientLocate, Types' PROVE Orderly'
<1>1. /\ UNCHANGED <<how, asked, answer, front, named, back, yfifo, toBack, toFront,
                     receiver, vfifo, taken, got>>
      /\ client = "start"
  BY DEF ClientLocate, FOpen, Puts, FEnded, bVars, wires, vVars
<1>2. \/ how = "locate" /\ client' = "asking" /\ ffifo' = Append(ffifo, Msg("locate"))
      \/ /\ how = "attach" /\ named = "yes" /\ client' = "idle"
         /\ ffifo' = Append(ffifo, Msg("clone"))
      \/ how = "attach" /\ client' = "refused" /\ ffifo' = ffifo
  BY DEF ClientLocate, FOpen, Puts, FEnded, bVars, wires, vVars
<1>3. /\ Put(ffifo, Msg("locate"))
      /\ Put(ffifo, Msg("clone"))
  BY <1>1, PutFacts, LetterIs DEF Types
<1>4. /\ ToSet(Append(ffifo, Msg("locate"))) = ToSet(ffifo) \cup {Msg("locate")}
      /\ ToSet(Append(ffifo, Msg("clone"))) = ToSet(ffifo) \cup {Msg("clone")}
  BY ONLY <1>3, MsgIs DEF Put, RequestKind
<1>5. /\ Sends(Append(ffifo, Msg("locate"))) = Sends(ffifo)
      /\ Sends(Append(ffifo, Msg("clone"))) = Sends(ffifo)
  BY ONLY <1>3, MsgIs DEF Put, RequestKind
<1>6. /\ Sends(ffifo)' = Sends(ffifo)
      /\ Replies(toFront)' = Replies(toFront)
      /\ InTransit' = InTransit
  BY ONLY <1>1, <1>2, <1>5, Types, Types', Amounts, AmountsNext DEF Amount
<1>7. Forms'
  BY ONLY <1>1, <1>2, <1>4, Orderly, MsgIs DEF Orderly, Forms, Formed
<1>8. Setup'
  BY ONLY <1>1, <1>2, <1>4, Orderly, MsgIs DEF Orderly, Setup, StrayHoldsNobody, Opening, OneOut
<1>9. Attachment'
  BY ONLY <1>1, <1>2, <1>4, Orderly, MsgIs DEF Orderly, Attachment
<1>10. Opening'
  <2>1. front.at \in {"none", "forked", "child", "waiting"} =>
           client' \in {"asking", "refused"}
    BY ONLY <1>1, <1>2, Orderly DEF Orderly, Setup, Attachment
  <2>. QED  BY ONLY <1>1, <1>6, <2>1, Orderly DEF Orderly, Opening
<1>11. OneOut'
  BY ONLY <1>1, <1>2, <1>5, <1>6, Orderly, Types, Types', Measures, MeasuresNext, MsgIs
     DEF Orderly, Measure, Opening, OneOut, Transit, Held, Setup
<1>12. Transit'
  BY ONLY <1>1, <1>2, <1>5, <1>6, Orderly, Types, Types', Measures, MeasuresNext, MsgIs
     DEF Orderly, Measure, Transit, ToggleIsRight, Held, OneOut, Opening, Setup
<1>13. Current'
  BY ONLY <1>1, <1>2, <1>4, Orderly, Types, QuietIs, MsgIs DEF Orderly, Quiet, Current, About,
     Opening, OneOut, Setup
<1>14. Received'
  BY ONLY <1>1, <1>2, <1>4, Orderly, MsgIs DEF Orderly, Received, Answered
<1>. QED  BY <1>7, <1>8, <1>9, <1>10, <1>11, <1>12, <1>13, <1>14 DEF Orderly

\* The client has nothing out when it sends, so one request is out afterwards.
LEMMA ClientSendOrderly == ASSUME Types, Orderly, ClientSend, Types' PROVE Orderly'
<1>. DEFINE m == [kind |-> "send", n |-> asked + 1]
<1>1. m.kind = "send" /\ m.n = asked + 1 /\ m.n # 0 /\ m \in Letter
  <2>1. asked + 1 \in 1..MaxAsks /\ asked + 1 # 0
    BY ConduitAssumption DEF ClientSend, Types
  <2>. QED  BY <2>1, LetterIs
<1>2. /\ UNCHANGED <<how, answer, front, named, back, yfifo, toBack, toFront, receiver,
                     vfifo, taken, got>>
      /\ client = "idle" /\ asked' = asked + 1
  BY DEF ClientSend, FOpen, Puts, FEnded, bVars, wires, vVars
<1>3. \/ client' = "sending" /\ ffifo' = Append(ffifo, m)
      \/ /\ client' = "idle"
         /\ ffifo' = ffifo /\ front.at \in {"faulted", "gone", "killed", "none"}
  BY DEF ClientSend, FOpen, Puts, FEnded, bVars, wires, vVars
<1>. HIDE DEF m
<1>4. Put(ffifo, m)
  BY <1>2, <1>1, PutFacts DEF Types
<1>5. ToSet(Append(ffifo, m)) = ToSet(ffifo) \cup {m}
  BY ONLY <1>4, <1>1 DEF Put, RequestKind
<1>6. Sends(Append(ffifo, m)) = Sends(ffifo) + 1
  BY ONLY <1>4, <1>1 DEF Put, RequestKind
<1>7. /\ Sends(ffifo)' <= Sends(ffifo) + 1
      /\ Replies(toFront)' = Replies(toFront)
      /\ InTransit' = InTransit
  <2>1. UNCHANGED <<toBack, toFront, vfifo, yfifo, taken>>
    BY ONLY <1>2
  <2>2. Sends(ffifo') = Sends(ffifo) \/ Sends(ffifo') = Sends(ffifo) + 1
    BY ONLY <1>3, <1>6
  <2>3. InTransit' = InTransit
    BY ONLY <2>1, Types, Types', Amounts, AmountsNext DEF Amount
  <2>. QED  BY ONLY <2>1, <2>2, <2>3, Types, Measures DEF Measure
<1>8. Forms'
  BY ONLY <1>2, <1>1, <1>3, <1>5, Orderly DEF Orderly, Forms, Formed
<1>9. Setup'
  BY ONLY <1>2, <1>1, <1>3, <1>5, Orderly DEF Orderly, Setup, StrayHoldsNobody, Opening, OneOut
<1>10. Attachment'
  BY ONLY <1>2, <1>1, <1>3, <1>5, Orderly DEF Orderly, Attachment
<1>11. Opening'
  BY ONLY <1>2, <1>1, <1>3, <1>5, <1>7, Orderly, Types, Types', Measures, MeasuresNext
     DEF Orderly, Measure, Opening, Setup, OneOut, Forms
<1>12. OneOut'
  BY ONLY <1>2, <1>1, <1>3, <1>6, <1>7, Orderly, Types, Types', Measures, MeasuresNext
     DEF Orderly, Measure, Opening, OneOut, Transit, Held, Setup
<1>13. Transit'
  BY ONLY <1>2, <1>1, <1>3, <1>6, <1>7, Orderly, Types, Types', Measures, MeasuresNext
     DEF Orderly, Measure, Transit, ToggleIsRight, Held, OneOut, Opening, Setup
<1>14. Current'
  <2>1. front.at = "up" => Sends(ffifo) = 0 /\ ~ front.holds
    BY ONLY <1>2, Orderly DEF Orderly, OneOut
  <2>2. front.at = "up" => Replies(toFront) = 0 /\ (back.at # "gone" => InTransit = 0)
    BY ONLY <2>1, Orderly, Types, Measures DEF Orderly, Transit, Measure, Held
  <2>3. answer = <<>>
    BY ONLY <1>2, Orderly DEF Orderly, OneOut
  <2>4. front.at = "up" =>
           /\ \A k \in ToSet(ffifo) : k.kind # "send"
           /\ \A k \in ToSet(toFront) : k.kind # "reply"
           /\ back.at # "gone" => /\ taken = 0
                                  /\ \A k \in ToSet(toBack) : k.kind # "send"
                                  /\ \A k \in ToSet(vfifo) : k.kind # "send"
                                  /\ \A k \in ToSet(yfifo) : k.kind # "reply"
    BY ONLY <2>1, <2>2, Types, QuietIs DEF Quiet
  <2>5. UNCHANGED <<answer, front, back, yfifo, toBack, toFront, vfifo, taken>>
    BY ONLY <1>2
  <2>6. \A k \in ToSet(ffifo') : k \in ToSet(ffifo) \/ k = m
    BY ONLY <1>3, <1>5
  <2>7. About(answer', "reply", asked')
    BY ONLY <2>3, <2>5, Nothing DEF About
  <2>. QED  BY ONLY <2>4, <2>5, <2>6, <2>7, <1>2, <1>1 DEF Current, About
<1>15. Received'
  BY ONLY <1>2, <1>1, <1>3, <1>5, Orderly DEF Orderly, Received, Answered
<1>. QED  BY <1>8, <1>9, <1>10, <1>11, <1>12, <1>13, <1>14, <1>15 DEF Orderly

\* The client has nothing out when it triggers, and a proxy is no request.
LEMMA ClientTriggerOrderly == ASSUME Types, Orderly, ClientTrigger, Types' PROVE Orderly'
<1>1. /\ UNCHANGED <<how, client, answer, front, named, back, yfifo, toBack, toFront,
                     receiver, vfifo, taken, got>>
      /\ client = "idle"
      /\ ffifo' = Append(ffifo, Msg("proxy"))
  BY DEF ClientTrigger, FOpen, Puts, FEnded, bVars, wires, vVars
<1>2. Put(ffifo, Msg("proxy"))
  BY <1>1, PutFacts, LetterIs DEF Types
<1>3. ToSet(Append(ffifo, Msg("proxy"))) = ToSet(ffifo) \cup {Msg("proxy")}
  BY ONLY <1>2, MsgIs DEF Put, RequestKind
<1>4. Sends(Append(ffifo, Msg("proxy"))) = Sends(ffifo)
  BY ONLY <1>2, MsgIs DEF Put, RequestKind
<1>5. /\ Sends(ffifo)' = Sends(ffifo)
      /\ Replies(toFront)' = Replies(toFront)
      /\ InTransit' = InTransit
  BY ONLY <1>1, <1>4, Types, Types', Amounts, AmountsNext DEF Amount
<1>6. Forms'
  BY ONLY <1>1, <1>3, Orderly, MsgIs DEF Orderly, Forms, Formed
<1>7. Setup'
  BY ONLY <1>1, <1>3, Orderly, MsgIs DEF Orderly, Setup, StrayHoldsNobody, Opening, OneOut
<1>8. Attachment'
  BY ONLY <1>1, <1>3, Orderly, MsgIs DEF Orderly, Attachment
<1>9. Opening'
  BY ONLY <1>1, <1>3, <1>5, Orderly, Types, Types', Measures, MeasuresNext, MsgIs DEF Orderly,
     Measure, Opening, Setup, OneOut, Forms
<1>10. OneOut'
  BY ONLY <1>1, <1>4, <1>5, Orderly, Types, Types', Measures, MeasuresNext, MsgIs DEF Orderly,
     Measure, Opening, OneOut, Transit, Held, Setup
<1>11. Transit'
  BY ONLY <1>1, <1>4, <1>5, Orderly, Types, Types', Measures, MeasuresNext, MsgIs DEF Orderly,
     Measure, Transit, ToggleIsRight, Held, OneOut, Opening, Setup
<1>12. Current'
  <2>1. front.at = "up" => Sends(ffifo) = 0 /\ ~ front.holds
    BY ONLY <1>1, Orderly DEF Orderly, OneOut
  <2>2. front.at = "up" => Replies(toFront) = 0 /\ (back.at # "gone" => InTransit = 0)
    BY ONLY <2>1, Orderly, Types, Measures DEF Orderly, Transit, Measure, Held
  <2>3. answer = <<>>
    BY ONLY <1>1, Orderly DEF Orderly, OneOut
  <2>4. front.at = "up" =>
           /\ \A k \in ToSet(ffifo) : k.kind # "send"
           /\ \A k \in ToSet(toFront) : k.kind # "reply"
           /\ back.at # "gone" => /\ taken = 0
                                  /\ \A k \in ToSet(toBack) : k.kind # "send"
                                  /\ \A k \in ToSet(vfifo) : k.kind # "send"
                                  /\ \A k \in ToSet(yfifo) : k.kind # "reply"
    BY ONLY <2>1, <2>2, Types, QuietIs DEF Quiet
  <2>5. UNCHANGED <<answer, front, back, yfifo, toBack, toFront, vfifo, taken>>
    BY ONLY <1>1
  <2>6. \A k \in ToSet(ffifo') : k \in ToSet(ffifo) \/ k = Msg("proxy")
    BY ONLY <1>1, <1>3
  <2>7. About(answer', "reply", asked')
    BY ONLY <2>3, <2>5, Nothing DEF About
  <2>. QED  BY ONLY <2>4, <2>5, <2>6, <2>7, MsgIs DEF Current, About
<1>13. Received'
  BY ONLY <1>1, <1>3, Orderly, MsgIs DEF Orderly, Received, Answered
<1>. QED  BY <1>6, <1>7, <1>8, <1>9, <1>10, <1>11, <1>12, <1>13 DEF Orderly

\* The one answer is taken, and the client has nothing out.
LEMMA ClientReturnOrderly == ASSUME Types, Orderly, ClientReturn, Types' PROVE Orderly'
<1>1. /\ UNCHANGED <<how, asked, front, ffifo, named, back, yfifo, toBack, toFront,
                     receiver, vfifo, taken, got>>
      /\ client \in {"asking", "sending"} /\ client' \in {"idle", "refused"}
      /\ answer # <<>> /\ answer' = Tail(answer)
  BY DEF ClientReturn, fVars, bVars, wires, vVars
<1>2. answer # <<>> => Took(answer)
  BY <1>1, TookFacts DEF Types
<1>3. answer # <<>> =>
                                                     /\ Head(answer) \in Letter
                                                     /\ Head(answer) \in ToSet(answer)
                                                     /\ ToSet(Tail(answer)) \subseteq ToSet(answer)
  BY ONLY <1>2 DEF Took, RequestKind
<1>4. answer # <<>> => Len(Tail(answer)) + 1 = Len(answer)
  BY ONLY <1>2 DEF Took, RequestKind
<1>5. /\ Sends(ffifo)' = Sends(ffifo)
      /\ Replies(toFront)' = Replies(toFront)
      /\ InTransit' = InTransit
  BY ONLY <1>1, <1>4, Types, Types', Amounts, AmountsNext DEF Amount
<1>6. Forms'
  BY ONLY <1>1, <1>3, Orderly DEF Orderly, Forms, Formed
<1>7. Setup'
  BY ONLY <1>1, <1>3, Orderly DEF Orderly, Setup, StrayHoldsNobody, Opening, OneOut
<1>8. Attachment'
  BY ONLY <1>1, <1>3, Orderly DEF Orderly, Attachment
<1>9. Opening'
  BY ONLY <1>1, <1>3, <1>5, Orderly, Types, Types', Measures, MeasuresNext DEF Orderly, Measure,
     Opening, Setup, OneOut, Forms
<1>10. OneOut'
  BY ONLY <1>1, <1>4, <1>5, Orderly, Types, Types', Measures, MeasuresNext DEF Orderly, Measure,
     Opening, OneOut, Transit, Held, Setup
<1>11. Transit'
  BY ONLY <1>1, <1>4, <1>5, Orderly, Types, Types', Measures, MeasuresNext DEF Orderly, Measure,
     Transit, ToggleIsRight, Held, OneOut, Opening, Setup
<1>12. Current'
  BY ONLY <1>1, <1>3, Orderly, Types, QuietIs DEF Orderly, Quiet, Current, About, Opening,
     OneOut, Setup
<1>13. Received'
  BY ONLY <1>1, <1>3, Orderly DEF Orderly, Received, Answered
<1>. QED  BY <1>6, <1>7, <1>8, <1>9, <1>10, <1>11, <1>12, <1>13 DEF Orderly

\* The fifos of the client go; PROXY_SHUTDOWN is no request.
LEMMA ClientExitOrderly == ASSUME Types, Orderly, ClientExit, Types' PROVE Orderly'
<1>1. /\ UNCHANGED <<how, asked, front, named, back, yfifo, toBack, toFront, receiver,
                     vfifo, taken, got>>
      /\ client \in {"asking", "idle", "sending"} /\ client' = "closing" /\ answer' = <<>>
  BY DEF ClientExit, FOpen, Puts, FEnded, bVars, wires, vVars
<1>2. ffifo' = ffifo \/ ffifo' = Append(ffifo, Msg("close"))
  BY DEF ClientExit, FOpen, Puts, FEnded, bVars, wires, vVars
<1>3. Put(ffifo, Msg("close"))
  BY <1>1, PutFacts, LetterIs DEF Types
<1>4. ToSet(Append(ffifo, Msg("close"))) = ToSet(ffifo) \cup {Msg("close")}
  BY ONLY <1>3, MsgIs DEF Put, RequestKind
<1>5. Sends(Append(ffifo, Msg("close"))) = Sends(ffifo)
  BY ONLY <1>3, MsgIs DEF Put, RequestKind
<1>6. /\ Sends(ffifo)' = Sends(ffifo)
      /\ Replies(toFront)' = Replies(toFront)
      /\ InTransit' = InTransit
  BY ONLY <1>1, <1>2, <1>5, Types, Types', Amounts, AmountsNext, Nothing DEF Amount
<1>7. Forms'
  BY ONLY <1>1, <1>2, <1>4, Orderly, MsgIs, Nothing DEF Orderly, Forms, Formed
<1>8. Setup'
  BY ONLY <1>1, <1>2, <1>4, Orderly, MsgIs, Nothing DEF Orderly, Setup, StrayHoldsNobody,
     Opening, OneOut
<1>9. Attachment'
  BY ONLY <1>1, <1>2, <1>4, Orderly, MsgIs, Nothing DEF Orderly, Attachment
<1>10. Opening'
  BY ONLY <1>1, <1>2, <1>4, <1>6, Orderly, Types, Types', Measures, MeasuresNext, MsgIs, Nothing
     DEF Orderly, Measure, Opening, Setup, OneOut, Forms
<1>11. OneOut'
  BY ONLY <1>1, <1>2, <1>5, <1>6, Orderly, Types, Types', Measures, MeasuresNext, MsgIs, Nothing
     DEF Orderly, Measure, Opening, OneOut, Transit, Held, Setup
<1>12. Transit'
  BY ONLY <1>1, <1>2, <1>5, <1>6, Orderly, Types, Types', Measures, MeasuresNext, MsgIs, Nothing
     DEF Orderly, Measure, Transit, ToggleIsRight, Held, OneOut, Opening, Setup
<1>13. Current'
  BY ONLY <1>1, <1>2, <1>4, Orderly, Types, QuietIs, MsgIs, Nothing DEF Orderly, Quiet, Current,
     About, Opening, OneOut, Setup
<1>14. Received'
  BY ONLY <1>1, <1>2, <1>4, Orderly, MsgIs, Nothing DEF Orderly, Received, Answered
<1>. QED  BY <1>7, <1>8, <1>9, <1>10, <1>11, <1>12, <1>13, <1>14 DEF Orderly

\* Nothing is left of the client.
LEMMA ClientRemoveOrderly == ASSUME Types, Orderly, ClientRemove, Types' PROVE Orderly'
<1>1. /\ UNCHANGED <<how, asked, answer, front, ffifo, named, back, yfifo, toBack, toFront,
                     receiver, vfifo, taken, got>>
      /\ client = "closing" /\ client' = "exited"
  BY DEF ClientRemove, fVars, bVars, wires, vVars
<1>2. /\ Sends(ffifo)' = Sends(ffifo)
      /\ Replies(toFront)' = Replies(toFront)
      /\ InTransit' = InTransit
  BY ONLY <1>1, Types, Types', Amounts, AmountsNext DEF Amount
<1>3. Forms'
  BY ONLY <1>1, Orderly DEF Orderly, Forms, Formed
<1>4. Setup'
  BY ONLY <1>1, Orderly DEF Orderly, Setup, StrayHoldsNobody, Opening, OneOut
<1>5. Attachment'
  BY ONLY <1>1, Orderly DEF Orderly, Attachment
<1>6. Opening'
  BY ONLY <1>1, <1>2, Orderly, Types, Types', Measures, MeasuresNext DEF Orderly, Measure,
     Opening, Setup, OneOut, Forms
<1>7. OneOut'
  BY ONLY <1>1, <1>2, Orderly, Types, Types', Measures, MeasuresNext DEF Orderly, Measure,
     Opening, OneOut, Transit, Held, Setup
<1>8. Transit'
  BY ONLY <1>1, <1>2, Orderly, Types, Types', Measures, MeasuresNext DEF Orderly, Measure,
     Transit, ToggleIsRight, Held, OneOut, Opening, Setup
<1>9. Current'
  BY ONLY <1>1, Orderly, Types, QuietIs DEF Orderly, Quiet, Current, About, Opening, OneOut,
     Setup
<1>10. Received'
  BY ONLY <1>1, Orderly DEF Orderly, Received, Answered
<1>. QED  BY <1>3, <1>4, <1>5, <1>6, <1>7, <1>8, <1>9, <1>10 DEF Orderly

\* The answer of a killed client goes with it.
LEMMA ClientKillOrderly == ASSUME Types, Orderly, ClientKill, Types' PROVE Orderly'
<1>1. /\ UNCHANGED <<how, asked, front, ffifo, named, back, yfifo, toBack, toFront,
                     receiver, vfifo, taken, got>>
      /\ client \in {"asking", "idle", "sending"} /\ client' = "killed" /\ answer' = <<>>
  BY DEF ClientKill, fVars, bVars, wires, vVars
<1>2. /\ Sends(ffifo)' = Sends(ffifo)
      /\ Replies(toFront)' = Replies(toFront)
      /\ InTransit' = InTransit
  BY ONLY <1>1, Types, Types', Amounts, AmountsNext, Nothing DEF Amount
<1>3. Forms'
  BY ONLY <1>1, Orderly, Nothing DEF Orderly, Forms, Formed
<1>4. Setup'
  BY ONLY <1>1, Orderly, Nothing DEF Orderly, Setup, StrayHoldsNobody, Opening, OneOut
<1>5. Attachment'
  BY ONLY <1>1, Orderly, Nothing DEF Orderly, Attachment
<1>6. Opening'
  BY ONLY <1>1, <1>2, Orderly, Types, Types', Measures, MeasuresNext, Nothing DEF Orderly,
     Measure, Opening, Setup, OneOut, Forms
<1>7. OneOut'
  BY ONLY <1>1, <1>2, Orderly, Types, Types', Measures, MeasuresNext, Nothing DEF Orderly,
     Measure, Opening, OneOut, Transit, Held, Setup
<1>8. Transit'
  BY ONLY <1>1, <1>2, Orderly, Types, Types', Measures, MeasuresNext, Nothing DEF Orderly,
     Measure, Transit, ToggleIsRight, Held, OneOut, Opening, Setup
<1>9. Current'
  BY ONLY <1>1, Orderly, Types, QuietIs, Nothing DEF Orderly, Quiet, Current, About, Opening,
     OneOut, Setup
<1>10. Received'
  BY ONLY <1>1, Orderly, Nothing DEF Orderly, Received, Answered
<1>. QED  BY <1>3, <1>4, <1>5, <1>6, <1>7, <1>8, <1>9, <1>10 DEF Orderly

\* The question goes on before any request is out, or the connector goes astray.
LEMMA FConnectOrderly == ASSUME Types, Orderly, FConnect, Types' PROVE Orderly'
<1>1. /\ UNCHANGED <<how, client, asked, named, back, yfifo, toFront, receiver, vfifo,
                     taken, got>>
      /\ how = "locate" /\ front.at = "child"
      /\ ffifo # <<>> /\ Head(ffifo).kind = "locate" /\ ffifo' = Tail(ffifo)
  BY DEF FConnect, Tell, At, FTakes, FLoses, FWrites, Refuses, ClientGone, bVars, vVars
<1>2. \/ toBack' = toBack /\ answer' = answer /\ front'.at = "faulted"
      \/ /\ toBack' = Append(toBack, Msg("locate")) /\ answer' = answer
         /\ front'.at = "waiting"
      \/ /\ toBack' = toBack /\ ~ front'.holds
         /\ \/ /\ client \in {"asking", "sending"}
               /\ answer' = Append(answer, Msg("absent")) /\ front'.at = "stray"
            \/ client \in {"closing", "killed"} /\ answer' = answer /\ front'.at = "hung"
            \/ client = "exited" /\ answer' = answer /\ front'.at = "stray"
  <2>1. front \in FrontType
    BY ONLY Types DEF Types
  <2>. QED
    BY ONLY <2>1, FConnect DEF FConnect, Tell, At, FTakes, FLoses, FWrites, Refuses,
       ClientGone, bVars, vVars, FrontType
<1>3. /\ ffifo # <<>> => Took(ffifo)
      /\ Put(toBack, Msg("locate"))
      /\ Put(answer, Msg("absent"))
  BY <1>1, PutFacts, LetterIs, TookFacts DEF Types, Took
<1>4. /\ ffifo # <<>> =>
            /\ Head(ffifo) \in Letter
            /\ Head(ffifo) \in ToSet(ffifo)
            /\ ToSet(Tail(ffifo)) \subseteq ToSet(ffifo)
      /\ ToSet(Append(toBack, Msg("locate"))) = ToSet(toBack) \cup {Msg("locate")}
      /\ ToSet(Append(answer, Msg("absent"))) = ToSet(answer) \cup {Msg("absent")}
  BY ONLY <1>3, MsgIs DEF Put, Took, RequestKind
<1>5. /\ ffifo # <<>> /\ Head(ffifo).kind = "locate" => Sends(ffifo) = Sends(Tail(ffifo))
      /\ Requests(Append(toBack, Msg("locate"))) = Requests(toBack)
      /\ Len(Append(answer, Msg("absent"))) = Len(answer) + 1
  BY ONLY <1>3, MsgIs DEF Put, Took, RequestKind
<1>6. /\ Sends(ffifo)' = Sends(ffifo)
      /\ Replies(toFront)' = Replies(toFront)
      /\ InTransit' = InTransit
  BY ONLY <1>1, <1>2, <1>5, Types, Types', Amounts, AmountsNext DEF Amount
<1>7. Forms'
  BY ONLY <1>1, <1>2, <1>4, Orderly, MsgIs DEF Orderly, Forms, Formed
<1>8. Setup'
  BY ONLY <1>1, <1>2, <1>4, Orderly, MsgIs DEF Orderly, Setup, StrayHoldsNobody, Opening, OneOut
<1>9. Attachment'
  BY ONLY <1>1, <1>2, <1>4, Orderly, MsgIs DEF Orderly, Attachment
<1>10. Opening'
  <2>1. CASE toBack' = toBack /\ answer' = answer /\ front'.at = "faulted"
    BY ONLY <1>1, <1>4, <1>6, Orderly, Types, Types', Measures, MeasuresNext, MsgIs, <2>1
       DEF Orderly, Measure, Opening, Setup, OneOut, Forms
  <2>2. CASE /\ toBack' = Append(toBack, Msg("locate")) /\ answer' = answer
             /\ front'.at = "waiting"
    BY ONLY <1>1, <1>4, <1>6, Orderly, Types, Types', Measures, MeasuresNext, MsgIs, <2>2
       DEF Orderly, Measure, Opening, Setup, OneOut, Forms
  <2>3. CASE /\ toBack' = toBack /\ ~ front'.holds
             /\ \/ /\ client \in {"asking", "sending"}
                   /\ answer' = Append(answer, Msg("absent")) /\ front'.at = "stray"
                \/ client \in {"closing", "killed"} /\ answer' = answer /\ front'.at = "hung"
                \/ client = "exited" /\ answer' = answer /\ front'.at = "stray"
    BY ONLY <1>1, <1>4, <1>6, Orderly, Types, Types', Measures, MeasuresNext, MsgIs, <2>3
       DEF Orderly, Measure, Opening, Setup, OneOut, Forms
  <2>. QED  BY ONLY <1>2, <2>1, <2>2, <2>3
<1>11. OneOut'
  <2>1. front'.at # "up"
    BY ONLY <1>2
  <2>2. Len(answer) = 0
    BY ONLY <1>1, Orderly, Nothing DEF Orderly, Opening
  <2>3. /\ Len(answer') <= 1
        /\ client \notin {"asking", "sending"} => answer' = answer
    <3>1. \/ answer' = answer
          \/ client \in {"asking", "sending"} /\ Len(answer') = Len(answer) + 1
      BY ONLY <1>2, <1>5
    <3>2. CASE answer' = answer
      BY ONLY <2>2, <3>2
    <3>3. CASE client \in {"asking", "sending"} /\ Len(answer') = Len(answer) + 1
      BY ONLY <2>2, <3>3
    <3>. QED  BY ONLY <3>1, <3>2, <3>3
  <2>. QED  BY ONLY <1>1, <2>1, <2>2, <2>3 DEF OneOut
<1>12. Transit'
  BY ONLY <1>1, <1>2, <1>5, <1>6, Orderly, Types, Types', Measures, MeasuresNext, MsgIs
     DEF Orderly, Measure, Transit, ToggleIsRight, Held, OneOut, Opening, Setup
<1>13. Current'
  BY ONLY <1>1, <1>2, <1>4, Orderly, Types, QuietIs, MsgIs DEF Orderly, Quiet, Current, About,
     Opening, OneOut, Setup
<1>14. Received'
  BY ONLY <1>1, <1>2, <1>4, Orderly, MsgIs DEF Orderly, Received, Answered
<1>. QED  BY <1>7, <1>8, <1>9, <1>10, <1>11, <1>12, <1>13, <1>14 DEF Orderly

\* The front comes up when nothing is on its way, or goes astray.
LEMMA FLocatedOrderly == ASSUME Types, Orderly, FLocated, Types' PROVE Orderly'
<1>1. /\ UNCHANGED <<how, client, asked, ffifo, named, back, yfifo, toBack, receiver,
                     vfifo, taken, got>>
      /\ how = "locate" /\ front.at = "waiting" /\ ~ front'.holds
  BY DEF FLocated, Tell, At, Refuses, bVars, vVars, Types, FrontType, BackType
<1>2. \/ /\ toFront # <<>> /\ toFront' = Tail(toFront)
         /\ \/ /\ client \in {"asking", "sending"}
               /\ answer' = Append(answer, Head(toFront)) /\ front'.at = "up" /\ front'.receiving
            \/ client \in {"closing", "killed"} /\ answer' = answer /\ front'.at = "hung"
            \/ client = "exited" /\ answer' = answer /\ front'.at = "stray"
      \/ /\ toFront' = toFront
         /\ \/ /\ client \in {"asking", "sending"}
               /\ answer' = Append(answer, Msg("absent")) /\ front'.at = "stray"
            \/ client \in {"closing", "killed"} /\ answer' = answer /\ front'.at = "hung"
            \/ client = "exited" /\ answer' = answer /\ front'.at = "stray"
  <2>1. front \in FrontType
    BY ONLY Types DEF Types
  <2>. QED
    BY ONLY <2>1, FLocated DEF FLocated, Tell, At, Refuses, bVars, vVars, FrontType
<1>3. /\ toFront # <<>> => Took(toFront)
      /\ toFront # <<>> => Put(answer, Head(toFront))
      /\ Put(answer, Msg("absent"))
  BY <1>1, PutFacts, LetterIs, TookFacts DEF Types, Took
<1>4. /\ toFront # <<>> =>
            /\ Head(toFront) \in Letter
            /\ Head(toFront) \in ToSet(toFront)
            /\ ToSet(Tail(toFront)) \subseteq ToSet(toFront)
      /\ toFront # <<>> =>
            ToSet(Append(answer, Head(toFront))) = ToSet(answer) \cup {Head(toFront)}
      /\ ToSet(Append(answer, Msg("absent"))) = ToSet(answer) \cup {Msg("absent")}
  BY ONLY <1>3, MsgIs DEF Put, Took, RequestKind
<1>5. /\ toFront # <<>> => Requests(Tail(toFront)) <= Requests(toFront)
      /\ toFront # <<>> => Replies(Tail(toFront)) <= Replies(toFront)
      /\ toFront # <<>> => Len(Append(answer, Head(toFront))) = Len(answer) + 1
      /\ Len(Append(answer, Msg("absent"))) = Len(answer) + 1
  BY ONLY <1>3, MsgIs DEF Put, Took, RequestKind
<1>6. /\ Sends(ffifo)' = Sends(ffifo)
      /\ Replies(toFront)' <= Replies(toFront)
      /\ InTransit' <= InTransit
  <2>1. UNCHANGED <<ffifo, toBack, vfifo, yfifo, taken>>
    BY ONLY <1>1
  <2>2. \/ UNCHANGED toFront
        \/ Requests(toFront') <= Requests(toFront) /\ Replies(toFront') <= Replies(toFront)
    BY ONLY <1>2, <1>5
  <2>3. CASE UNCHANGED toFront
    <3>1. Requests(toFront') = Requests(toFront)
      BY ONLY <2>3
    <3>2. InTransit' = InTransit
      BY ONLY <2>1, <3>1, Types, Types', Amounts, AmountsNext DEF Amount
    <3>. QED  BY ONLY <2>1, <2>3, <3>2, Types, Measures DEF Measure
  <2>4. CASE /\ Requests(toFront') <= Requests(toFront)
             /\ Replies(toFront') <= Replies(toFront)
    BY ONLY <2>1, <2>4, Types, Types', Amounts, AmountsNext DEF Amount
  <2>. QED  BY ONLY <2>2, <2>3, <2>4
<1>7. Forms'
  BY ONLY <1>1, <1>2, <1>4, Orderly, MsgIs DEF Orderly, Forms, Formed
<1>8. Setup'
  BY ONLY <1>1, <1>2, <1>4, Orderly, MsgIs DEF Orderly, Setup, StrayHoldsNobody, Opening, OneOut
<1>9. Attachment'
  BY ONLY <1>1, <1>2, <1>4, Orderly, MsgIs DEF Orderly, Attachment
<1>10. Opening'
  BY ONLY <1>1, <1>2, <1>4, <1>6, Orderly, Types, Types', Measures, MeasuresNext, MsgIs
     DEF Orderly, Measure, Opening, Setup, OneOut, Forms
<1>11. OneOut'
  <2>1. Len(answer) = 0 /\ Sends(ffifo) = 0
    BY ONLY <1>1, Orderly, Nothing DEF Orderly, Opening
  <2>2. /\ Len(answer') <= 1
        /\ client \notin {"asking", "sending"} => answer' = answer
        /\ front'.at = "up" => client \in {"asking", "sending"} /\ Len(answer') = 1
    <3>1. \/ answer' = answer /\ front'.at # "up"
          \/ client \in {"asking", "sending"} /\ Len(answer') = Len(answer) + 1
      BY ONLY <1>2, <1>5
    <3>2. CASE answer' = answer /\ front'.at # "up"
      BY ONLY <2>1, <3>2
    <3>3. CASE client \in {"asking", "sending"} /\ Len(answer') = Len(answer) + 1
      BY ONLY <2>1, <3>3
    <3>. QED  BY ONLY <3>1, <3>2, <3>3
  <2>3. Held' = 0
    BY ONLY <1>1 DEF Held
  <2>. QED  BY ONLY <1>1, <1>6, <2>1, <2>2, <2>3 DEF OneOut
<1>12. Transit'
  BY ONLY <1>1, <1>2, <1>5, <1>6, Orderly, Types, Types', Measures, MeasuresNext, MsgIs
     DEF Orderly, Measure, Transit, ToggleIsRight, Held, OneOut, Opening, Setup
<1>13. Current'
  BY ONLY <1>1, <1>2, <1>4, Orderly, Types, QuietIs, MsgIs DEF Orderly, Quiet, Current, About,
     Opening, OneOut, Setup
<1>14. Received'
  BY ONLY <1>1, <1>2, <1>4, Orderly, MsgIs DEF Orderly, Received, Answered
<1>. QED  BY <1>7, <1>8, <1>9, <1>10, <1>11, <1>12, <1>13, <1>14 DEF Orderly

\* The listener takes the question only.
LEMMA FForkOrderly == ASSUME Types, Orderly, FFork, Types' PROVE Orderly'
<1>1. /\ UNCHANGED <<how, client, asked, answer, ffifo, named, back, yfifo, receiver,
                     vfifo, taken, got>>
      /\ how = "attach" /\ front.at = "none" /\ front'.holds = front.holds
      /\ toFront # <<>> /\ toFront' = Tail(toFront)
  BY DEF FFork, At, cVars, bVars, vVars, Types, FrontType, BackType
<1>2. \/ front'.at = "forked" /\ toBack' = toBack
      \/ front'.at = "gone" /\ toBack' = Append(toBack, Msg("absent"))
  BY DEF FFork, At, cVars, bVars, vVars, Types, FrontType, BackType
<1>3. /\ toFront # <<>> => Took(toFront)
      /\ Put(toBack, Msg("absent"))
  BY <1>1, PutFacts, LetterIs, TookFacts DEF Types, Took
<1>4. /\ toFront # <<>> =>
            /\ Head(toFront) \in Letter
            /\ Head(toFront) \in ToSet(toFront)
            /\ ToSet(Tail(toFront)) \subseteq ToSet(toFront)
      /\ ToSet(Append(toBack, Msg("absent"))) = ToSet(toBack) \cup {Msg("absent")}
  BY ONLY <1>3, MsgIs DEF Put, Took, RequestKind
<1>5. /\ toFront # <<>> => Requests(Tail(toFront)) <= Requests(toFront)
      /\ toFront # <<>> => Replies(Tail(toFront)) <= Replies(toFront)
      /\ Requests(Append(toBack, Msg("absent"))) = Requests(toBack)
  BY ONLY <1>3, MsgIs DEF Put, Took, RequestKind
<1>6. /\ Sends(ffifo)' = Sends(ffifo)
      /\ Replies(toFront)' <= Replies(toFront)
      /\ InTransit' <= InTransit
  <2>1. CASE front'.at = "forked" /\ toBack' = toBack
    BY ONLY <1>1, <1>5, Types, Types', Amounts, AmountsNext, <2>1 DEF Amount
  <2>2. CASE front'.at = "gone" /\ toBack' = Append(toBack, Msg("absent"))
    BY ONLY <1>1, <1>5, Types, Types', Amounts, AmountsNext, <2>2 DEF Amount
  <2>. QED  BY ONLY <1>2, <2>1, <2>2
<1>7. Forms'
  BY ONLY <1>1, <1>2, <1>4, Orderly, MsgIs DEF Orderly, Forms, Formed
<1>8. Setup'
  BY ONLY <1>1, <1>2, <1>4, Orderly, MsgIs DEF Orderly, Setup, StrayHoldsNobody, Opening, OneOut
<1>9. Attachment'
  BY ONLY <1>1, <1>2, <1>4, Orderly, MsgIs DEF Orderly, Attachment
<1>10. Opening'
  BY ONLY <1>1, <1>2, <1>4, <1>6, Orderly, Types, Types', Measures, MeasuresNext, MsgIs
     DEF Orderly, Measure, Opening, Setup, OneOut, Forms
<1>11. OneOut'
  BY ONLY <1>1, <1>2, <1>5, <1>6, Orderly, Types, Types', Measures, MeasuresNext, MsgIs
     DEF Orderly, Measure, Opening, OneOut, Transit, Held, Setup
<1>12. Transit'
  BY ONLY <1>1, <1>2, <1>5, <1>6, Orderly, Types, Types', Measures, MeasuresNext, MsgIs
     DEF Orderly, Measure, Transit, ToggleIsRight, Held, OneOut, Opening, Setup
<1>13. Current'
  BY ONLY <1>1, <1>2, <1>4, Orderly, Types, QuietIs, MsgIs DEF Orderly, Quiet, Current, About,
     Opening, OneOut, Setup
<1>14. Received'
  BY ONLY <1>1, <1>2, <1>4, Orderly, MsgIs DEF Orderly, Received, Answered
<1>. QED  BY <1>7, <1>8, <1>9, <1>10, <1>11, <1>12, <1>13, <1>14 DEF Orderly

\* The front comes up, under its name, when nothing is on its way.
LEMMA FAttachOrderly == ASSUME Types, Orderly, FAttach, Types' PROVE Orderly'
<1>1. /\ UNCHANGED <<how, client, asked, answer, ffifo, back, yfifo, toFront, receiver,
                     vfifo, taken, got>>
      /\ front.at = "forked" /\ front'.holds = front.holds
  BY DEF FAttach, At, cVars, bVars, vVars, Types, FrontType, BackType
<1>2. \/ front'.at = "up" /\ named' = "yes" /\ toBack' = Append(toBack, Msg("found"))
      \/ /\ front'.at = "gone" /\ named' = named
         /\ toBack' = Append(Append(toBack, Msg("absent")), Msg("absent"))
  <2>1. toBack \o <<Msg("absent"), Msg("absent")>>
          = Append(Append(toBack, Msg("absent")), Msg("absent"))
    BY LetterIs, Twice DEF Types
  <2>. QED  BY <2>1 DEF FAttach, At, cVars, bVars, vVars, Types, FrontType
<1>3. /\ Put(toBack, Msg("found"))
      /\ Put(toBack, Msg("absent"))
      /\ Put(Append(toBack, Msg("absent")), Msg("absent"))
  BY <1>1, PutFacts, LetterIs DEF Types
<1>4. /\ ToSet(Append(toBack, Msg("found"))) = ToSet(toBack) \cup {Msg("found")}
      /\ ToSet(Append(toBack, Msg("absent"))) = ToSet(toBack) \cup {Msg("absent")}
      /\ ToSet(Append(Append(toBack, Msg("absent")), Msg("absent")))
           = ToSet(Append(toBack, Msg("absent"))) \cup {Msg("absent")}
  BY ONLY <1>3, MsgIs DEF Put, RequestKind
<1>5. /\ Requests(Append(toBack, Msg("found"))) = Requests(toBack)
      /\ Requests(Append(toBack, Msg("absent"))) = Requests(toBack)
      /\ Requests(Append(Append(toBack, Msg("absent")), Msg("absent")))
           = Requests(Append(toBack, Msg("absent")))
  BY ONLY <1>3, MsgIs DEF Put, RequestKind
<1>6. /\ Sends(ffifo)' = Sends(ffifo)
      /\ Replies(toFront)' = Replies(toFront)
      /\ InTransit' = InTransit
  BY ONLY <1>1, <1>2, <1>5, Types, Types', Amounts, AmountsNext DEF Amount
<1>7. Forms'
  BY ONLY <1>1, <1>2, <1>4, Orderly, MsgIs DEF Orderly, Forms, Formed
<1>8. Setup'
  BY ONLY <1>1, <1>2, <1>4, Orderly, MsgIs DEF Orderly, Setup, StrayHoldsNobody, Opening, OneOut
<1>9. Attachment'
  BY ONLY <1>1, <1>2, <1>4, Orderly, MsgIs DEF Orderly, Attachment
<1>10. Opening'
  BY ONLY <1>1, <1>2, <1>4, <1>6, Orderly, Types, Types', Measures, MeasuresNext, MsgIs
     DEF Orderly, Measure, Opening, Setup, OneOut, Forms
<1>11. OneOut'
  BY ONLY <1>1, <1>2, <1>5, <1>6, Orderly, Types, Types', Measures, MeasuresNext, MsgIs
     DEF Orderly, Measure, Opening, OneOut, Transit, Held, Setup
<1>12. Transit'
  BY ONLY <1>1, <1>2, <1>5, <1>6, Orderly, Types, Types', Measures, MeasuresNext, MsgIs
     DEF Orderly, Measure, Transit, ToggleIsRight, Held, OneOut, Opening, Setup
<1>13. Current'
  BY ONLY <1>1, <1>2, <1>4, Orderly, Types, QuietIs, MsgIs DEF Orderly, Quiet, Current, About,
     Opening, OneOut, Setup
<1>14. Received'
  BY ONLY <1>1, <1>2, <1>4, Orderly, MsgIs DEF Orderly, Received, Answered
<1>. QED  BY <1>7, <1>8, <1>9, <1>10, <1>11, <1>12, <1>13, <1>14 DEF Orderly

\* The request leaves the fifo and is on its way as its client gets held.
LEMMA FSendOrderly == ASSUME Types, Orderly, FSend, Types' PROVE Orderly'
<1>1. /\ UNCHANGED <<how, client, asked, named, back, yfifo, toFront, receiver, vfifo,
                     taken, got>>
      /\ front.at = "up" /\ front.receiving
      /\ ffifo # <<>> /\ Head(ffifo).kind = "send" /\ ffifo' = Tail(ffifo)
  BY DEF FSend, Tell, At, FTakes, FLoses, FWrites, FWriteFails, AfterSend, FHears, BEnded,
     ClientGone, FReadable, bVars, vVars
<1>2. \/ /\ front'.at = "up" /\ front'.holds /\ front'.receiving = (how = "attach")
         /\ toBack' = Append(toBack, Head(ffifo)) /\ answer' = answer
      \/ /\ front'.at \in {"faulted", "gone", "hung"} /\ toBack' = toBack
         /\ \/ answer' = answer
            \/ client \in {"asking", "sending"} /\ answer' = Append(answer, Msg("error"))
  <2>1. front \in FrontType
    BY ONLY Types DEF Types
  <2>. QED
    BY ONLY <2>1, FSend DEF FSend, Tell, At, FTakes, FLoses, FWrites, FWriteFails, AfterSend,
       FHears, BEnded, ClientGone, FReadable, bVars, vVars, FrontType
<1>3. /\ ffifo # <<>> => Took(ffifo)
      /\ ffifo # <<>> => Put(toBack, Head(ffifo))
      /\ Put(answer, Msg("error"))
  BY <1>1, PutFacts, LetterIs, TookFacts DEF Types, Took
<1>4. /\ ffifo # <<>> =>
            /\ Head(ffifo) \in Letter
            /\ Head(ffifo) \in ToSet(ffifo)
            /\ ToSet(Tail(ffifo)) \subseteq ToSet(ffifo)
      /\ ffifo # <<>> /\ Head(ffifo).kind = "send" =>
            ToSet(Append(toBack, Head(ffifo))) = ToSet(toBack) \cup {Head(ffifo)}
      /\ ToSet(Append(answer, Msg("error"))) = ToSet(answer) \cup {Msg("error")}
  BY ONLY <1>3, MsgIs DEF Put, Took, RequestKind
<1>5. /\ ffifo # <<>> /\ Head(ffifo).kind = "send" => Sends(ffifo) = Sends(Tail(ffifo)) + 1
      /\ ffifo # <<>> /\ Head(ffifo).kind = "send" =>
            Requests(Append(toBack, Head(ffifo))) = Requests(toBack) + 1
      /\ Len(Append(answer, Msg("error"))) = Len(answer) + 1
  BY ONLY <1>3, MsgIs DEF Put, Took, RequestKind
<1>6. /\ Sends(ffifo)' + 1 = Sends(ffifo)
      /\ Replies(toFront)' = Replies(toFront)
      /\ front'.at = "up" => InTransit' = InTransit + 1
  <2>1. CASE /\ front'.at = "up" /\ front'.holds /\ front'.receiving = (how = "attach")
             /\ toBack' = Append(toBack, Head(ffifo)) /\ answer' = answer
    BY ONLY <1>1, <1>5, Types, Types', Amounts, AmountsNext, <2>1 DEF Amount
  <2>2. CASE /\ front'.at \in {"faulted", "gone", "hung"} /\ toBack' = toBack
             /\ \/ answer' = answer
                \/ client \in {"asking", "sending"} /\ answer' = Append(answer, Msg("error"))
    BY ONLY <1>1, <1>5, Types, Types', Amounts, AmountsNext, <2>2 DEF Amount
  <2>. QED  BY ONLY <1>2, <2>1, <2>2
<1>7. Forms'
  <2>1. CASE /\ front'.at = "up" /\ front'.holds /\ front'.receiving = (how = "attach")
             /\ toBack' = Append(toBack, Head(ffifo)) /\ answer' = answer
    BY ONLY <1>1, <1>4, Orderly, MsgIs, <2>1 DEF Orderly, Forms, Formed
  <2>2. CASE /\ front'.at \in {"faulted", "gone", "hung"} /\ toBack' = toBack
             /\ \/ answer' = answer
                \/ client \in {"asking", "sending"} /\ answer' = Append(answer, Msg("error"))
    BY ONLY <1>1, <1>4, Orderly, MsgIs, <2>2 DEF Orderly, Forms, Formed
  <2>. QED  BY ONLY <1>2, <2>1, <2>2
<1>8. Setup'
  BY ONLY <1>1, <1>2, <1>4, Orderly, MsgIs DEF Orderly, Setup, StrayHoldsNobody, Opening, OneOut
<1>9. Attachment'
  <2>1. CASE /\ front'.at = "up" /\ front'.holds /\ front'.receiving = (how = "attach")
             /\ toBack' = Append(toBack, Head(ffifo)) /\ answer' = answer
    BY ONLY <1>1, <1>4, Orderly, MsgIs, <2>1 DEF Orderly, Attachment
  <2>2. CASE /\ front'.at \in {"faulted", "gone", "hung"} /\ toBack' = toBack
             /\ \/ answer' = answer
                \/ client \in {"asking", "sending"} /\ answer' = Append(answer, Msg("error"))
    BY ONLY <1>1, <1>4, Orderly, MsgIs, <2>2 DEF Orderly, Attachment
  <2>. QED  BY ONLY <1>2, <2>1, <2>2
<1>10. Opening'
  BY ONLY <1>1, <1>2, <1>4, <1>6, Orderly, Types, Types', Measures, MeasuresNext, MsgIs
     DEF Orderly, Measure, Opening, Setup, OneOut, Forms
<1>11. OneOut'
  BY ONLY <1>1, <1>2, <1>5, <1>6, Orderly, Types, Types', Measures, MeasuresNext, MsgIs
     DEF Orderly, Measure, Opening, OneOut, Transit, Held, Setup
<1>12. Transit'
  <2>1. CASE /\ front'.at = "up" /\ front'.holds /\ front'.receiving = (how = "attach")
             /\ toBack' = Append(toBack, Head(ffifo)) /\ answer' = answer
    BY ONLY <1>1, <1>5, <1>6, Orderly, Types, Types', Measures, MeasuresNext, MsgIs, <2>1
       DEF Orderly, Measure, Transit, ToggleIsRight, Held, OneOut, Opening, Setup
  <2>2. CASE /\ front'.at \in {"faulted", "gone", "hung"} /\ toBack' = toBack
             /\ \/ answer' = answer
                \/ client \in {"asking", "sending"} /\ answer' = Append(answer, Msg("error"))
    BY ONLY <1>1, <1>5, <1>6, Orderly, Types, Types', Measures, MeasuresNext, MsgIs, <2>2
       DEF Orderly, Measure, Transit, ToggleIsRight, Held, OneOut, Opening, Setup
  <2>. QED  BY ONLY <1>2, <2>1, <2>2
<1>13. Current'
  <2>1. CASE /\ front'.at = "up" /\ front'.holds /\ front'.receiving = (how = "attach")
             /\ toBack' = Append(toBack, Head(ffifo)) /\ answer' = answer
    BY ONLY <1>1, <1>4, Orderly, Types, QuietIs, MsgIs, <2>1 DEF Orderly, Quiet, Current, About,
       Opening, OneOut, Setup
  <2>2. CASE /\ front'.at \in {"faulted", "gone", "hung"} /\ toBack' = toBack
             /\ \/ answer' = answer
                \/ client \in {"asking", "sending"} /\ answer' = Append(answer, Msg("error"))
    BY ONLY <1>1, <1>4, Orderly, Types, QuietIs, MsgIs, <2>2 DEF Orderly, Quiet, Current, About,
       Opening, OneOut, Setup
  <2>. QED  BY ONLY <1>2, <2>1, <2>2
<1>14. Received'
  <2>1. CASE /\ front'.at = "up" /\ front'.holds /\ front'.receiving = (how = "attach")
             /\ toBack' = Append(toBack, Head(ffifo)) /\ answer' = answer
    BY ONLY <1>1, <1>4, Orderly, MsgIs, <2>1 DEF Orderly, Received, Answered
  <2>2. CASE /\ front'.at \in {"faulted", "gone", "hung"} /\ toBack' = toBack
             /\ \/ answer' = answer
                \/ client \in {"asking", "sending"} /\ answer' = Append(answer, Msg("error"))
    BY ONLY <1>1, <1>4, Orderly, MsgIs, <2>2 DEF Orderly, Received, Answered
  <2>. QED  BY ONLY <1>2, <2>1, <2>2
<1>. QED  BY <1>7, <1>8, <1>9, <1>10, <1>11, <1>12, <1>13, <1>14 DEF Orderly

\* A proxy is passed on without its client being held.
LEMMA FProxyOrderly == ASSUME Types, Orderly, FProxy, Types' PROVE Orderly'
<1>1. /\ UNCHANGED <<how, client, asked, back, yfifo, toFront, receiver, vfifo, taken, got>>
      /\ front.at = "up" /\ named' \in {named, "renamed"}
      /\ ffifo # <<>> /\ Head(ffifo).kind \in {"proxy", "clone"} /\ ffifo' = Tail(ffifo)
  BY DEF FProxy, Tell, At, FExits, FTakes, FWrites, FWriteFails, FHears, NameAfter, BEnded,
     FReadable, bVars, vVars
<1>2. \/ front' = front /\ toBack' = Append(toBack, Head(ffifo)) /\ answer' = answer
      \/ /\ front'.at \in {"gone", "hung"} /\ toBack' = toBack
         /\ \/ answer' = answer
            \/ /\ front.holds /\ client \in {"asking", "sending"}
               /\ answer' = Append(answer, Msg("error"))
  <2>1. front \in FrontType
    BY ONLY Types DEF Types
  <2>. QED
    BY ONLY <2>1, FProxy DEF FProxy, Tell, At, FExits, FTakes, FWrites, FWriteFails, FHears,
       NameAfter, BEnded, FReadable, bVars, vVars, FrontType
<1>3. /\ ffifo # <<>> => Took(ffifo)
      /\ ffifo # <<>> => Put(toBack, Head(ffifo))
      /\ Put(answer, Msg("error"))
  BY <1>1, PutFacts, LetterIs, TookFacts DEF Types, Took
<1>4. /\ ffifo # <<>> =>
            /\ Head(ffifo) \in Letter
            /\ Head(ffifo) \in ToSet(ffifo)
            /\ ToSet(Tail(ffifo)) \subseteq ToSet(ffifo)
      /\ ffifo # <<>> /\ Head(ffifo).kind \in {"proxy", "clone"} =>
            ToSet(Append(toBack, Head(ffifo))) = ToSet(toBack) \cup {Head(ffifo)}
      /\ ToSet(Append(answer, Msg("error"))) = ToSet(answer) \cup {Msg("error")}
  BY ONLY <1>3, MsgIs DEF Put, Took, RequestKind
<1>5. /\ ffifo # <<>> /\ Head(ffifo).kind \in {"proxy", "clone"} =>
            Sends(ffifo) = Sends(Tail(ffifo))
      /\ ffifo # <<>> /\ Head(ffifo).kind \in {"proxy", "clone"} =>
            Requests(Append(toBack, Head(ffifo))) = Requests(toBack)
      /\ Len(Append(answer, Msg("error"))) = Len(answer) + 1
  BY ONLY <1>3, MsgIs DEF Put, Took, RequestKind
<1>6. /\ Sends(ffifo)' = Sends(ffifo)
      /\ Replies(toFront)' = Replies(toFront)
      /\ InTransit' = InTransit
  BY ONLY <1>1, <1>2, <1>5, Types, Types', Amounts, AmountsNext DEF Amount
<1>7. Forms'
  BY ONLY <1>1, <1>2, <1>4, Orderly, MsgIs DEF Orderly, Forms, Formed
<1>8. Setup'
  BY ONLY <1>1, <1>2, <1>4, Orderly, MsgIs DEF Orderly, Setup, StrayHoldsNobody, Opening, OneOut
<1>9. Attachment'
  BY ONLY <1>1, <1>2, <1>4, Orderly, MsgIs DEF Orderly, Attachment
<1>10. Opening'
  BY ONLY <1>1, <1>2, <1>4, <1>6, Orderly, Types, Types', Measures, MeasuresNext, MsgIs
     DEF Orderly, Measure, Opening, Setup, OneOut, Forms
<1>11. OneOut'
  BY ONLY <1>1, <1>2, <1>5, <1>6, Orderly, Types, Types', Measures, MeasuresNext, MsgIs
     DEF Orderly, Measure, Opening, OneOut, Transit, Held, Setup
<1>12. Transit'
  BY ONLY <1>1, <1>2, <1>5, <1>6, Orderly, Types, Types', Measures, MeasuresNext, MsgIs
     DEF Orderly, Measure, Transit, ToggleIsRight, Held, OneOut, Opening, Setup
<1>13. Current'
  <2>1. CASE front' = front /\ toBack' = Append(toBack, Head(ffifo)) /\ answer' = answer
    BY ONLY <1>1, <1>4, Orderly, Types, QuietIs, MsgIs, <2>1 DEF Orderly, Quiet, Current, About,
       Opening, OneOut, Setup
  <2>2. CASE /\ front'.at \in {"gone", "hung"} /\ toBack' = toBack
             /\ \/ answer' = answer
                \/ /\ front.holds /\ client \in {"asking", "sending"}
                   /\ answer' = Append(answer, Msg("error"))
    BY ONLY <1>1, <1>4, Orderly, Types, QuietIs, MsgIs, <2>2 DEF Orderly, Quiet, Current, About,
       Opening, OneOut, Setup
  <2>. QED  BY ONLY <1>2, <2>1, <2>2
<1>14. Received'
  <2>1. CASE front' = front /\ toBack' = Append(toBack, Head(ffifo)) /\ answer' = answer
    BY ONLY <1>1, <1>4, Orderly, MsgIs, <2>1 DEF Orderly, Received, Answered
  <2>2. CASE /\ front'.at \in {"gone", "hung"} /\ toBack' = toBack
             /\ \/ answer' = answer
                \/ /\ front.holds /\ client \in {"asking", "sending"}
                   /\ answer' = Append(answer, Msg("error"))
    BY ONLY <1>1, <1>4, Orderly, MsgIs, <2>2 DEF Orderly, Received, Answered
  <2>. QED  BY ONLY <1>2, <2>1, <2>2
<1>. QED  BY <1>7, <1>8, <1>9, <1>10, <1>11, <1>12, <1>13, <1>14 DEF Orderly

\* The front goes when its client goes.
LEMMA FCloseOrderly == ASSUME Types, Orderly, FClose, Types' PROVE Orderly'
<1>1. /\ UNCHANGED <<how, client, asked, named, back, yfifo, toFront, receiver, vfifo,
                     taken, got>>
      /\ front.at = "up" /\ front'.at \in {"gone", "hung"}
      /\ ffifo # <<>> /\ Head(ffifo).kind = "close" /\ ffifo' = Tail(ffifo)
  BY DEF FClose, Tell, At, FExits, FTakes, FWrites, FWriteFails, FHears, BEnded, FReadable,
     bVars, vVars, Types, FrontType, BackType
<1>2. /\ toBack' = toBack \/ toBack' = Append(toBack, Msg("close"))
      /\ \/ answer' = answer
         \/ /\ front.holds /\ client \in {"asking", "sending"}
            /\ answer' = Append(answer, Msg("error"))
  BY DEF FClose, Tell, At, FExits, FTakes, FWrites, FWriteFails, FHears, BEnded, FReadable,
     bVars, vVars
<1>3. /\ ffifo # <<>> => Took(ffifo)
      /\ Put(toBack, Msg("close"))
      /\ Put(answer, Msg("error"))
  BY <1>1, PutFacts, LetterIs, TookFacts DEF Types, Took
<1>4. /\ ffifo # <<>> =>
            /\ Head(ffifo) \in Letter
            /\ Head(ffifo) \in ToSet(ffifo)
            /\ ToSet(Tail(ffifo)) \subseteq ToSet(ffifo)
      /\ ToSet(Append(toBack, Msg("close"))) = ToSet(toBack) \cup {Msg("close")}
      /\ ToSet(Append(answer, Msg("error"))) = ToSet(answer) \cup {Msg("error")}
  BY ONLY <1>3, MsgIs DEF Put, Took, RequestKind
<1>5. /\ ffifo # <<>> /\ Head(ffifo).kind = "close" => Sends(ffifo) = Sends(Tail(ffifo))
      /\ Requests(Append(toBack, Msg("close"))) = Requests(toBack)
      /\ Len(Append(answer, Msg("error"))) = Len(answer) + 1
  BY ONLY <1>3, MsgIs DEF Put, Took, RequestKind
<1>6. /\ Sends(ffifo)' = Sends(ffifo)
      /\ Replies(toFront)' = Replies(toFront)
      /\ InTransit' = InTransit
  BY ONLY <1>1, <1>2, <1>5, Types, Types', Amounts, AmountsNext DEF Amount
<1>7. Forms'
  BY ONLY <1>1, <1>2, <1>4, Orderly, MsgIs DEF Orderly, Forms, Formed
<1>8. Setup'
  BY ONLY <1>1, <1>2, <1>4, Orderly, MsgIs DEF Orderly, Setup, StrayHoldsNobody, Opening, OneOut
<1>9. Attachment'
  BY ONLY <1>1, <1>2, <1>4, Orderly, MsgIs DEF Orderly, Attachment
<1>10. Opening'
  BY ONLY <1>1, <1>2, <1>4, <1>6, Orderly, Types, Types', Measures, MeasuresNext, MsgIs
     DEF Orderly, Measure, Opening, Setup, OneOut, Forms
<1>11. OneOut'
  BY ONLY <1>1, <1>2, <1>5, <1>6, Orderly, Types, Types', Measures, MeasuresNext, MsgIs
     DEF Orderly, Measure, Opening, OneOut, Transit, Held, Setup
<1>12. Transit'
  BY ONLY <1>1, <1>2, <1>5, <1>6, Orderly, Types, Types', Measures, MeasuresNext, MsgIs
     DEF Orderly, Measure, Transit, ToggleIsRight, Held, OneOut, Opening, Setup
<1>13. Current'
  BY ONLY <1>1, <1>2, <1>4, Orderly, Types, QuietIs, MsgIs DEF Orderly, Quiet, Current, About,
     Opening, OneOut, Setup
<1>14. Received'
  BY ONLY <1>1, <1>2, <1>4, Orderly, MsgIs DEF Orderly, Received, Answered
<1>. QED  BY <1>7, <1>8, <1>9, <1>10, <1>11, <1>12, <1>13, <1>14 DEF Orderly

\* The reply that was on its way is the answer to the client that is held.
LEMMA FRemoteOrderly == ASSUME Types, Orderly, FRemote, Types' PROVE Orderly'
<1>1. /\ UNCHANGED <<how, client, asked, ffifo, named, back, yfifo, toBack, receiver,
                     vfifo, taken, got>>
      /\ front.at = "up"
  BY DEF FRemote, Tell, At, FFails, FListens, BEnded, FReadable, bVars, vVars
<1>2. \/ /\ toFront # <<>> /\ Head(toFront).kind = "reply" /\ toFront' = Tail(toFront)
         /\ ~ front'.holds /\ front'.receiving /\ front'.at = "up"
         /\ client \in {"asking", "sending"} /\ answer' = Append(answer, Head(toFront))
      \/ /\ toFront # <<>> /\ Head(toFront).kind = "reply" /\ toFront' = Tail(toFront)
         /\ answer' = answer /\ front'.at \in {"hung", "faulted"}
      \/ /\ toFront # <<>> /\ Head(toFront).kind = "alive" /\ toFront' = Tail(toFront)
         /\ front'.at = "up" /\ front'.holds = front.holds /\ front'.receiving = front.receiving
         /\ answer' = answer
      \/ /\ toFront' = toFront \/ (toFront # <<>> /\ toFront' = Tail(toFront))
         /\ front'.at \in {"gone", "faulted", "hung"}
         /\ \/ answer' = answer
            \/ /\ front.holds /\ client \in {"asking", "sending"}
               /\ answer' = Append(answer, Msg("error"))
  <2>1. front \in FrontType
    BY ONLY Types DEF Types
  <2>. QED
    BY ONLY <2>1, FRemote DEF FRemote, Tell, At, FFails, FListens, BEnded, FReadable, bVars,
       vVars, FrontType
<1>3. /\ toFront # <<>> => Took(toFront)
      /\ toFront # <<>> => Put(answer, Head(toFront))
      /\ Put(answer, Msg("error"))
  BY <1>1, PutFacts, LetterIs, TookFacts DEF Types, Took
<1>4. /\ toFront # <<>> =>
            /\ Head(toFront) \in Letter
            /\ Head(toFront) \in ToSet(toFront)
            /\ ToSet(Tail(toFront)) \subseteq ToSet(toFront)
      /\ toFront # <<>> =>
            ToSet(Append(answer, Head(toFront))) = ToSet(answer) \cup {Head(toFront)}
      /\ ToSet(Append(answer, Msg("error"))) = ToSet(answer) \cup {Msg("error")}
  BY ONLY <1>3, MsgIs DEF Put, Took, RequestKind
<1>5. /\ toFront # <<>> /\ Head(toFront).kind = "reply" =>
            Requests(toFront) = Requests(Tail(toFront)) + 1
      /\ toFront # <<>> /\ Head(toFront).kind = "reply" =>
            Replies(toFront) = Replies(Tail(toFront)) + 1
      /\ toFront # <<>> /\ Head(toFront).kind = "alive" =>
            Requests(toFront) = Requests(Tail(toFront))
      /\ toFront # <<>> /\ Head(toFront).kind = "alive" =>
            Replies(toFront) = Replies(Tail(toFront))
      /\ toFront # <<>> => Len(Append(answer, Head(toFront))) = Len(answer) + 1
      /\ Len(Append(answer, Msg("error"))) = Len(answer) + 1
  BY ONLY <1>3, MsgIs DEF Put, Took, RequestKind
<1>6. /\ Sends(ffifo)' = Sends(ffifo)
      /\ front'.at = "up" /\ Head(toFront).kind = "reply" =>
            Replies(toFront)' + 1 = Replies(toFront) /\ InTransit' + 1 = InTransit
      /\ front'.at = "up" /\ Head(toFront).kind # "reply" =>
            Replies(toFront)' = Replies(toFront) /\ InTransit' = InTransit
  <2>1. UNCHANGED <<ffifo, toBack, vfifo, yfifo, taken>>
    BY ONLY <1>1
  <2>2. ASSUME front'.at = "up", Head(toFront).kind = "reply"
        PROVE  Replies(toFront)' + 1 = Replies(toFront) /\ InTransit' + 1 = InTransit
    <3>1. /\ Requests(toFront) = Requests(toFront') + 1
          /\ Replies(toFront) = Replies(toFront') + 1
      BY ONLY <1>2, <1>5, <2>2
    <3>. QED  BY ONLY <2>1, <3>1, Types, Types', Amounts, AmountsNext DEF Amount
  <2>3. ASSUME front'.at = "up", Head(toFront).kind # "reply"
        PROVE  Replies(toFront)' = Replies(toFront) /\ InTransit' = InTransit
    <3>1. Requests(toFront) = Requests(toFront') /\ Replies(toFront) = Replies(toFront')
      BY ONLY <1>2, <1>5, <2>3
    <3>. QED  BY ONLY <2>1, <3>1, Types, Types', Amounts, AmountsNext DEF Amount
  <2>. QED  BY <2>1, <2>2, <2>3
<1>7. Forms'
  BY ONLY <1>1, <1>2, <1>4, Orderly, MsgIs DEF Orderly, Forms, Formed
<1>8. Setup'
  BY ONLY <1>1, <1>2, <1>4, Orderly, MsgIs DEF Orderly, Setup, StrayHoldsNobody, Opening, OneOut
<1>9. Attachment'
  BY ONLY <1>1, <1>2, <1>4, Orderly, MsgIs DEF Orderly, Attachment
<1>10. Opening'
  BY ONLY <1>1, <1>2, <1>4, <1>6, Orderly, Types, Types', Measures, MeasuresNext, MsgIs
     DEF Orderly, Measure, Opening, Setup, OneOut, Forms
<1>11. OneOut'
  BY ONLY <1>1, <1>2, <1>5, <1>6, Orderly, Types, Types', Measures, MeasuresNext, MsgIs
     DEF Orderly, Measure, Opening, OneOut, Transit, Held, Setup
<1>12. Transit'
  <2>1. \/ front'.at # "up"
        \/ /\ front'.at = "up" /\ ~ front'.holds /\ front'.receiving
           /\ Replies(toFront)' + 1 = Replies(toFront) /\ InTransit' + 1 = InTransit
        \/ /\ front'.at = "up" /\ front'.holds = front.holds
           /\ front'.receiving = front.receiving
           /\ Replies(toFront)' = Replies(toFront) /\ InTransit' = InTransit
    BY ONLY <1>2, <1>6
  <2>2. UNCHANGED <<how, back, receiver>> /\ front.at = "up"
    BY ONLY <1>1
  <2>. QED  BY ONLY <2>1, <2>2, Orderly, Types, Types', Measures, MeasuresNext
            DEF Orderly, Measure, Transit, ToggleIsRight, Held
<1>13. Current'
  <2>1. CASE /\ toFront # <<>> /\ Head(toFront).kind = "reply" /\ toFront' = Tail(toFront)
             /\ ~ front'.holds /\ front'.receiving /\ front'.at = "up"
             /\ client \in {"asking", "sending"} /\ answer' = Append(answer, Head(toFront))
    BY ONLY <1>1, <1>4, Orderly, Types, QuietIs, MsgIs, <2>1 DEF Orderly, Quiet, Current, About,
       Opening, OneOut, Setup
  <2>2. CASE /\ toFront # <<>> /\ Head(toFront).kind = "reply" /\ toFront' = Tail(toFront)
             /\ answer' = answer /\ front'.at \in {"hung", "faulted"}
    BY ONLY <1>1, <1>4, Orderly, Types, QuietIs, MsgIs, <2>2 DEF Orderly, Quiet, Current, About,
       Opening, OneOut, Setup
  <2>3. CASE /\ toFront # <<>> /\ Head(toFront).kind = "alive" /\ toFront' = Tail(toFront)
             /\ front'.at = "up" /\ front'.holds = front.holds /\ front'.receiving = front.receiving
             /\ answer' = answer
    BY ONLY <1>1, <1>4, Orderly, Types, QuietIs, MsgIs, <2>3 DEF Orderly, Quiet, Current, About,
       Opening, OneOut, Setup
  <2>4. CASE /\ toFront' = toFront \/ (toFront # <<>> /\ toFront' = Tail(toFront))
             /\ front'.at \in {"gone", "faulted", "hung"}
             /\ \/ answer' = answer
                \/ /\ front.holds /\ client \in {"asking", "sending"}
                   /\ answer' = Append(answer, Msg("error"))
    BY ONLY <1>1, <1>4, Orderly, Types, QuietIs, MsgIs, <2>4 DEF Orderly, Quiet, Current, About,
       Opening, OneOut, Setup
  <2>. QED  BY ONLY <1>2, <2>1, <2>2, <2>3, <2>4
<1>14. Received'
  BY ONLY <1>1, <1>2, <1>4, Orderly, MsgIs DEF Orderly, Received, Answered
<1>. QED  BY <1>7, <1>8, <1>9, <1>10, <1>11, <1>12, <1>13, <1>14 DEF Orderly

\* A keep-alive is no request.
LEMMA FTimeoutOrderly == ASSUME Types, Orderly, FTimeout, Types' PROVE Orderly'
<1>1. /\ UNCHANGED <<how, client, asked, ffifo, named, back, yfifo, toFront, receiver,
                     vfifo, taken, got>>
      /\ front.at = "up"
  BY DEF FTimeout, Tell, At, FExits, FWrites, TooMany, SenderDied, KeepAlive, BEnded,
     ClientGone, FReadable, bVars, vVars
<1>2. /\ toBack' = Append(toBack, Msg("close")) \/ toBack' = Append(toBack, Msg("alive"))
      /\ \/ /\ /\ front'.at = "up"
            /\ front'.holds = front.holds /\ front'.receiving = front.receiving
            /\ answer' = answer
         \/ /\ front'.at \in {"gone", "hung"}
            /\ \/ answer' = answer
               \/ /\ front.holds /\ client \in {"asking", "sending"}
                  /\ answer' = Append(answer, Msg("error"))
  BY DEF FTimeout, Tell, At, FExits, FWrites, TooMany, SenderDied, KeepAlive, BEnded,
     ClientGone, FReadable, bVars, vVars, Types, FrontType, BackType
<1>3. /\ Put(toBack, Msg("close"))
      /\ Put(toBack, Msg("alive"))
      /\ Put(answer, Msg("error"))
  BY <1>1, PutFacts, LetterIs DEF Types
<1>4. /\ ToSet(Append(toBack, Msg("close"))) = ToSet(toBack) \cup {Msg("close")}
      /\ ToSet(Append(toBack, Msg("alive"))) = ToSet(toBack) \cup {Msg("alive")}
      /\ ToSet(Append(answer, Msg("error"))) = ToSet(answer) \cup {Msg("error")}
  BY ONLY <1>3, MsgIs DEF Put, RequestKind
<1>5. /\ Requests(Append(toBack, Msg("close"))) = Requests(toBack)
      /\ Requests(Append(toBack, Msg("alive"))) = Requests(toBack)
      /\ Len(Append(answer, Msg("error"))) = Len(answer) + 1
  BY ONLY <1>3, MsgIs DEF Put, RequestKind
<1>6. /\ Sends(ffifo)' = Sends(ffifo)
      /\ Replies(toFront)' = Replies(toFront)
      /\ InTransit' = InTransit
  BY ONLY <1>1, <1>2, <1>5, Types, Types', Amounts, AmountsNext DEF Amount
<1>7. Forms'
  BY ONLY <1>1, <1>2, <1>4, Orderly, MsgIs DEF Orderly, Forms, Formed
<1>8. Setup'
  BY ONLY <1>1, <1>2, <1>4, Orderly, MsgIs DEF Orderly, Setup, StrayHoldsNobody, Opening, OneOut
<1>9. Attachment'
  BY ONLY <1>1, <1>2, <1>4, Orderly, MsgIs DEF Orderly, Attachment
<1>10. Opening'
  BY ONLY <1>1, <1>2, <1>4, <1>6, Orderly, Types, Types', Measures, MeasuresNext, MsgIs
     DEF Orderly, Measure, Opening, Setup, OneOut, Forms
<1>11. OneOut'
  BY ONLY <1>1, <1>2, <1>5, <1>6, Orderly, Types, Types', Measures, MeasuresNext, MsgIs
     DEF Orderly, Measure, Opening, OneOut, Transit, Held, Setup
<1>12. Transit'
  BY ONLY <1>1, <1>2, <1>5, <1>6, Orderly, Types, Types', Measures, MeasuresNext, MsgIs
     DEF Orderly, Measure, Transit, ToggleIsRight, Held, OneOut, Opening, Setup
<1>13. Current'
  BY ONLY <1>1, <1>2, <1>4, Orderly, Types, QuietIs, MsgIs DEF Orderly, Quiet, Current, About,
     Opening, OneOut, Setup
<1>14. Received'
  BY ONLY <1>1, <1>2, <1>4, Orderly, MsgIs DEF Orderly, Received, Answered
<1>. QED  BY <1>7, <1>8, <1>9, <1>10, <1>11, <1>12, <1>13, <1>14 DEF Orderly

\* A killed front holds nobody.
LEMMA FKillOrderly == ASSUME Types, Orderly, FKill, Types' PROVE Orderly'
<1>1. /\ UNCHANGED <<how, client, asked, answer, ffifo, named, back, yfifo, toBack,
                     toFront, receiver, vfifo, taken, got>>
      /\ front.at \in {"forked", "waiting", "up"} /\ front'.at = "killed"
  BY DEF FKill, cVars, bVars, wires, vVars, Types, FrontType, BackType
<1>2. /\ Sends(ffifo)' = Sends(ffifo)
      /\ Replies(toFront)' = Replies(toFront)
      /\ InTransit' = InTransit
  BY ONLY <1>1, Types, Types', Amounts, AmountsNext DEF Amount
<1>3. Forms'
  BY ONLY <1>1, Orderly DEF Orderly, Forms, Formed
<1>4. Setup'
  BY ONLY <1>1, Orderly DEF Orderly, Setup, StrayHoldsNobody, Opening, OneOut
<1>5. Attachment'
  BY ONLY <1>1, Orderly DEF Orderly, Attachment
<1>6. Opening'
  BY ONLY <1>1, <1>2, Orderly, Types, Types', Measures, MeasuresNext DEF Orderly, Measure,
     Opening, Setup, OneOut, Forms
<1>7. OneOut'
  BY ONLY <1>1, <1>2, Orderly, Types, Types', Measures, MeasuresNext DEF Orderly, Measure,
     Opening, OneOut, Transit, Held, Setup
<1>8. Transit'
  BY ONLY <1>1, <1>2, Orderly, Types, Types', Measures, MeasuresNext DEF Orderly, Measure,
     Transit, ToggleIsRight, Held, OneOut, Opening, Setup
<1>9. Current'
  BY ONLY <1>1, Orderly, Types, QuietIs DEF Orderly, Quiet, Current, About, Opening, OneOut,
     Setup
<1>10. Received'
  BY ONLY <1>1, Orderly DEF Orderly, Received, Answered
<1>. QED  BY <1>3, <1>4, <1>5, <1>6, <1>7, <1>8, <1>9, <1>10 DEF Orderly

\* The receiver asks while its connector waits to be asked.
LEMMA ReceiverAttachOrderly == ASSUME Types, Orderly, ReceiverAttach, Types' PROVE Orderly'
<1>1. /\ UNCHANGED <<how, client, asked, answer, front, ffifo, named, back, yfifo, toBack,
                     toFront, vfifo, taken, got>>
      /\ how = "attach" /\ receiver = "start" /\ receiver' = "asking"
  BY DEF ReceiverAttach, cVars, fVars, bVars, wires
<1>2. /\ Sends(ffifo)' = Sends(ffifo)
      /\ Replies(toFront)' = Replies(toFront)
      /\ InTransit' = InTransit
  BY ONLY <1>1, Types, Types', Amounts, AmountsNext DEF Amount
<1>3. Forms'
  BY ONLY <1>1, Orderly DEF Orderly, Forms, Formed
<1>4. Setup'
  BY ONLY <1>1, Orderly DEF Orderly, Setup, StrayHoldsNobody, Opening, OneOut
<1>5. Attachment'
  BY ONLY <1>1, Orderly DEF Orderly, Attachment
<1>6. Opening'
  BY ONLY <1>1, <1>2, Orderly, Types, Types', Measures, MeasuresNext DEF Orderly, Measure,
     Opening, Setup, OneOut, Forms
<1>7. OneOut'
  BY ONLY <1>1, <1>2, Orderly, Types, Types', Measures, MeasuresNext DEF Orderly, Measure,
     Opening, OneOut, Transit, Held, Setup
<1>8. Transit'
  BY ONLY <1>1, <1>2, Orderly, Types, Types', Measures, MeasuresNext DEF Orderly, Measure,
     Transit, ToggleIsRight, Held, OneOut, Opening, Setup
<1>9. Current'
  BY ONLY <1>1, Orderly, Types, QuietIs DEF Orderly, Quiet, Current, About, Opening, OneOut,
     Setup
<1>10. Received'
  BY ONLY <1>1, Orderly DEF Orderly, Received, Answered
<1>. QED  BY <1>3, <1>4, <1>5, <1>6, <1>7, <1>8, <1>9, <1>10 DEF Orderly

\* The listener takes the question only.
LEMMA BForkOrderly == ASSUME Types, Orderly, BFork, Types' PROVE Orderly'
<1>1. /\ UNCHANGED <<how, client, asked, answer, front, ffifo, named, yfifo, receiver,
                     vfifo, taken, got>>
      /\ how = "locate" /\ back.at = "none"
      /\ toBack # <<>> /\ toBack' = Tail(toBack)
  BY DEF BFork, At, cVars, fVars, vVars
<1>2. \/ back'.at = "forked" /\ toFront' = toFront
      \/ back'.at = "gone" /\ toFront' = Append(toFront, Msg("absent"))
  BY DEF BFork, At, cVars, fVars, vVars, Types, FrontType, BackType
<1>3. /\ toBack # <<>> => Took(toBack)
      /\ Put(toFront, Msg("absent"))
  BY <1>1, PutFacts, LetterIs, TookFacts DEF Types, Took
<1>4. /\ toBack # <<>> =>
            /\ Head(toBack) \in Letter
            /\ Head(toBack) \in ToSet(toBack)
            /\ ToSet(Tail(toBack)) \subseteq ToSet(toBack)
      /\ ToSet(Append(toFront, Msg("absent"))) = ToSet(toFront) \cup {Msg("absent")}
  BY ONLY <1>3, MsgIs DEF Put, Took, RequestKind
<1>5. /\ toBack # <<>> => Requests(Tail(toBack)) <= Requests(toBack)
      /\ Requests(Append(toFront, Msg("absent"))) = Requests(toFront)
      /\ Replies(Append(toFront, Msg("absent"))) = Replies(toFront)
  BY ONLY <1>3, MsgIs DEF Put, Took, RequestKind
<1>6. /\ Sends(ffifo)' = Sends(ffifo)
      /\ Replies(toFront)' = Replies(toFront)
      /\ InTransit' <= InTransit
  <2>1. CASE back'.at = "forked" /\ toFront' = toFront
    BY ONLY <1>1, <1>5, Types, Types', Amounts, AmountsNext, <2>1 DEF Amount
  <2>2. CASE back'.at = "gone" /\ toFront' = Append(toFront, Msg("absent"))
    BY ONLY <1>1, <1>5, Types, Types', Amounts, AmountsNext, <2>2 DEF Amount
  <2>. QED  BY ONLY <1>2, <2>1, <2>2
<1>7. Forms'
  BY ONLY <1>1, <1>2, <1>4, Orderly, MsgIs DEF Orderly, Forms, Formed
<1>8. Setup'
  BY ONLY <1>1, <1>2, <1>4, Orderly, MsgIs DEF Orderly, Setup, StrayHoldsNobody, Opening, OneOut
<1>9. Attachment'
  BY ONLY <1>1, <1>2, <1>4, Orderly, MsgIs DEF Orderly, Attachment
<1>10. Opening'
  BY ONLY <1>1, <1>2, <1>4, <1>6, Orderly, Types, Types', Measures, MeasuresNext, MsgIs
     DEF Orderly, Measure, Opening, Setup, OneOut, Forms
<1>11. OneOut'
  BY ONLY <1>1, <1>2, <1>5, <1>6, Orderly, Types, Types', Measures, MeasuresNext, MsgIs
     DEF Orderly, Measure, Opening, OneOut, Transit, Held, Setup
<1>12. Transit'
  BY ONLY <1>1, <1>2, <1>5, <1>6, Orderly, Types, Types', Measures, MeasuresNext, MsgIs
     DEF Orderly, Measure, Transit, ToggleIsRight, Held, OneOut, Opening, Setup
<1>13. Current'
  BY ONLY <1>1, <1>2, <1>4, Orderly, Types, QuietIs, MsgIs DEF Orderly, Quiet, Current, About,
     Opening, OneOut, Setup
<1>14. Received'
  BY ONLY <1>1, <1>2, <1>4, Orderly, MsgIs DEF Orderly, Received, Answered
<1>. QED  BY <1>7, <1>8, <1>9, <1>10, <1>11, <1>12, <1>13, <1>14 DEF Orderly

\* The back comes up before the front.
LEMMA BLocateOrderly == ASSUME Types, Orderly, BLocate, Types' PROVE Orderly'
<1>1. /\ UNCHANGED <<how, client, asked, answer, front, ffifo, named, yfifo, toBack,
                     receiver, vfifo, taken, got>>
      /\ back.at = "forked"
  BY DEF BLocate, At, ReceiverFound, cVars, fVars, vVars
<1>2. \/ back'.at = "up" /\ toFront' = Append(toFront, Msg("found"))
      \/ back'.at = "gone" /\ toFront' = Append(toFront, Msg("absent"))
  BY DEF BLocate, At, ReceiverFound, cVars, fVars, vVars, Types, FrontType, BackType
<1>3. /\ Put(toFront, Msg("found"))
      /\ Put(toFront, Msg("absent"))
  BY <1>1, PutFacts, LetterIs DEF Types
<1>4. /\ ToSet(Append(toFront, Msg("found"))) = ToSet(toFront) \cup {Msg("found")}
      /\ ToSet(Append(toFront, Msg("absent"))) = ToSet(toFront) \cup {Msg("absent")}
  BY ONLY <1>3, MsgIs DEF Put, RequestKind
<1>5. /\ Requests(Append(toFront, Msg("found"))) = Requests(toFront)
      /\ Replies(Append(toFront, Msg("found"))) = Replies(toFront)
      /\ Requests(Append(toFront, Msg("absent"))) = Requests(toFront)
      /\ Replies(Append(toFront, Msg("absent"))) = Replies(toFront)
  BY ONLY <1>3, MsgIs DEF Put, RequestKind
<1>6. /\ Sends(ffifo)' = Sends(ffifo)
      /\ Replies(toFront)' = Replies(toFront)
      /\ InTransit' = InTransit
  BY ONLY <1>1, <1>2, <1>5, Types, Types', Amounts, AmountsNext DEF Amount
<1>7. Forms'
  BY ONLY <1>1, <1>2, <1>4, Orderly, MsgIs DEF Orderly, Forms, Formed
<1>8. Setup'
  BY ONLY <1>1, <1>2, <1>4, Orderly, MsgIs DEF Orderly, Setup, StrayHoldsNobody, Opening, OneOut
<1>9. Attachment'
  BY ONLY <1>1, <1>2, <1>4, Orderly, MsgIs DEF Orderly, Attachment
<1>10. Opening'
  BY ONLY <1>1, <1>2, <1>4, <1>6, Orderly, Types, Types', Measures, MeasuresNext, MsgIs
     DEF Orderly, Measure, Opening, Setup, OneOut, Forms
<1>11. OneOut'
  BY ONLY <1>1, <1>2, <1>5, <1>6, Orderly, Types, Types', Measures, MeasuresNext, MsgIs
     DEF Orderly, Measure, Opening, OneOut, Transit, Held, Setup
<1>12. Transit'
  BY ONLY <1>1, <1>2, <1>5, <1>6, Orderly, Types, Types', Measures, MeasuresNext, MsgIs
     DEF Orderly, Measure, Transit, ToggleIsRight, Held, OneOut, Opening, Setup
<1>13. Current'
  BY ONLY <1>1, <1>2, <1>4, Orderly, Types, QuietIs, MsgIs DEF Orderly, Quiet, Current, About,
     Opening, OneOut, Setup
<1>14. Received'
  BY ONLY <1>1, <1>2, <1>4, Orderly, MsgIs DEF Orderly, Received, Answered
<1>. QED  BY <1>7, <1>8, <1>9, <1>10, <1>11, <1>12, <1>13, <1>14 DEF Orderly

\* The question goes on, or the connector refuses and goes astray.
LEMMA BConnectOrderly == ASSUME Types, Orderly, BConnect, Types' PROVE Orderly'
<1>1. /\ UNCHANGED <<how, client, asked, answer, front, ffifo, named, yfifo, toBack, vfifo,
                     taken, got>>
      /\ how = "attach" /\ back.at = "child" /\ receiver = "asking"
  BY DEF BConnect, At, cVars, fVars
<1>2. \/ /\ toFront' = Append(toFront, Msg("attach"))
         /\ back'.at = "waiting" /\ receiver' = receiver
      \/ toFront' = toFront /\ back'.at = "stray" /\ receiver' = "refused"
  BY DEF BConnect, At, cVars, fVars, Types, FrontType, BackType
<1>3. Put(toFront, Msg("attach"))
  BY <1>1, PutFacts, LetterIs DEF Types
<1>4. ToSet(Append(toFront, Msg("attach"))) = ToSet(toFront) \cup {Msg("attach")}
  BY ONLY <1>3, MsgIs DEF Put, RequestKind
<1>5. /\ Requests(Append(toFront, Msg("attach"))) = Requests(toFront)
      /\ Replies(Append(toFront, Msg("attach"))) = Replies(toFront)
  BY ONLY <1>3, MsgIs DEF Put, RequestKind
<1>6. /\ Sends(ffifo)' = Sends(ffifo)
      /\ Replies(toFront)' = Replies(toFront)
      /\ InTransit' = InTransit
  BY ONLY <1>1, <1>2, <1>5, Types, Types', Amounts, AmountsNext DEF Amount
<1>7. Forms'
  BY ONLY <1>1, <1>2, <1>4, Orderly, MsgIs DEF Orderly, Forms, Formed
<1>8. Setup'
  BY ONLY <1>1, <1>2, <1>4, Orderly, MsgIs DEF Orderly, Setup, StrayHoldsNobody, Opening, OneOut
<1>9. Attachment'
  BY ONLY <1>1, <1>2, <1>4, Orderly, MsgIs DEF Orderly, Attachment
<1>10. Opening'
  BY ONLY <1>1, <1>2, <1>4, <1>6, Orderly, Types, Types', Measures, MeasuresNext, MsgIs
     DEF Orderly, Measure, Opening, Setup, OneOut, Forms
<1>11. OneOut'
  BY ONLY <1>1, <1>2, <1>5, <1>6, Orderly, Types, Types', Measures, MeasuresNext, MsgIs
     DEF Orderly, Measure, Opening, OneOut, Transit, Held, Setup
<1>12. Transit'
  BY ONLY <1>1, <1>2, <1>5, <1>6, Orderly, Types, Types', Measures, MeasuresNext, MsgIs
     DEF Orderly, Measure, Transit, ToggleIsRight, Held, OneOut, Opening, Setup
<1>13. Current'
  BY ONLY <1>1, <1>2, <1>4, Orderly, Types, QuietIs, MsgIs DEF Orderly, Quiet, Current, About,
     Opening, OneOut, Setup
<1>14. Received'
  BY ONLY <1>1, <1>2, <1>4, Orderly, MsgIs DEF Orderly, Received, Answered
<1>. QED  BY <1>7, <1>8, <1>9, <1>10, <1>11, <1>12, <1>13, <1>14 DEF Orderly

\* The receiver is told that the name is attached only when it is.
LEMMA BAttachedOrderly == ASSUME Types, Orderly, BAttached, Types' PROVE Orderly'
<1>1. /\ UNCHANGED <<how, client, asked, answer, front, ffifo, named, yfifo, toFront,
                     vfifo, taken, got>>
      /\ how = "attach" /\ back.at = "waiting"
  BY DEF BAttached, At, Attached, cVars, fVars
<1>2. \/ /\ toBack # <<>> /\ toBack' = Tail(toBack) /\ back'.at \in {"up", "stray"}
         /\ receiver' = "refused" \/ (receiver' = "up" /\ Head(toBack).kind = "found")
      \/ toBack' = toBack /\ back'.at = "stray" /\ receiver' = "refused"
  <2>1. \A at \in {"up", "stray"} : At(back, at).at = at
    BY DEF At, Types, BackType
  <2>. QED  BY <2>1 DEF BAttached, Attached, cVars, fVars
<1>3. toBack # <<>> => Took(toBack)
  BY <1>1, TookFacts DEF Types
<1>4. toBack # <<>> =>
                                                     /\ Head(toBack) \in Letter
                                                     /\ Head(toBack) \in ToSet(toBack)
                                                     /\ ToSet(Tail(toBack)) \subseteq ToSet(toBack)
  BY ONLY <1>3 DEF Took, RequestKind
<1>5. toBack # <<>> => Requests(Tail(toBack)) <= Requests(toBack)
  BY ONLY <1>3 DEF Took, RequestKind
<1>6. /\ Sends(ffifo)' = Sends(ffifo)
      /\ Replies(toFront)' = Replies(toFront)
      /\ InTransit' <= InTransit
  <2>1. CASE /\ toBack # <<>> /\ toBack' = Tail(toBack) /\ back'.at \in {"up", "stray"}
             /\ receiver' = "refused" \/ (receiver' = "up" /\ Head(toBack).kind = "found")
    BY ONLY <1>1, <1>5, Types, Types', Amounts, AmountsNext, <2>1 DEF Amount
  <2>2. CASE toBack' = toBack /\ back'.at = "stray" /\ receiver' = "refused"
    BY ONLY <1>1, <1>5, Types, Types', Amounts, AmountsNext, <2>2 DEF Amount
  <2>. QED  BY ONLY <1>2, <2>1, <2>2
<1>7. Forms'
  BY ONLY <1>1, <1>2, <1>4, Orderly DEF Orderly, Forms, Formed
<1>8. Setup'
  BY ONLY <1>1, <1>2, <1>4, Orderly DEF Orderly, Setup, StrayHoldsNobody, Opening, OneOut
<1>9. Attachment'
  BY ONLY <1>1, <1>2, <1>4, Orderly DEF Orderly, Attachment
<1>10. Opening'
  BY ONLY <1>1, <1>2, <1>4, <1>6, Orderly, Types, Types', Measures, MeasuresNext DEF Orderly,
     Measure, Opening, Setup, OneOut, Forms
<1>11. OneOut'
  BY ONLY <1>1, <1>2, <1>5, <1>6, Orderly, Types, Types', Measures, MeasuresNext DEF Orderly,
     Measure, Opening, OneOut, Transit, Held, Setup
<1>12. Transit'
  BY ONLY <1>1, <1>2, <1>5, <1>6, Orderly, Types, Types', Measures, MeasuresNext DEF Orderly,
     Measure, Transit, ToggleIsRight, Held, OneOut, Opening, Setup
<1>13. Current'
  BY ONLY <1>1, <1>2, <1>4, Orderly, Types, QuietIs DEF Orderly, Quiet, Current, About, Opening,
     OneOut, Setup
<1>14. Received'
  BY ONLY <1>1, <1>2, <1>4, Orderly DEF Orderly, Received, Answered
<1>. QED  BY <1>7, <1>8, <1>9, <1>10, <1>11, <1>12, <1>13, <1>14 DEF Orderly

\* What leaves the connection goes on to the receiver, or the back goes.
LEMMA BMessageOrderly == ASSUME Types, Orderly, BMessage, Types' PROVE Orderly'
<1>1. /\ UNCHANGED <<how, client, asked, answer, front, ffifo, named, yfifo, receiver,
                     taken, got>>
      /\ back.at = "up"
      /\ toBack # <<>> /\ toBack' = Tail(toBack)
  BY DEF BMessage, At, BFails, cVars, fVars
<1>2. \/ /\ Head(toBack).kind = "send" /\ back'.at = "up"
         /\ vfifo' = Append(vfifo, Head(toBack)) /\ toFront' = toFront
      \/ /\ Head(toBack).kind = "proxy" /\ back'.at = "up"
         /\ vfifo' = Append(vfifo, Head(toBack)) /\ toFront' = toFront
      \/ /\ Head(toBack).kind \in {"send", "proxy", "clone", "absent"} /\ back'.at = "gone"
         /\ vfifo' = vfifo /\ toFront' = Append(toFront, Msg("error"))
      \/ /\ Head(toBack).kind = "alive" /\ back'.at = "up"
         /\ vfifo' = vfifo /\ toFront' = Append(toFront, Head(toBack))
      \/ /\ Head(toBack).kind = "close" /\ back'.at = "gone"
         /\ vfifo' = vfifo /\ toFront' = toFront
  BY DEF BMessage, At, BFails, cVars, fVars, Types, FrontType, BackType
<1>3. /\ toBack # <<>> => Took(toBack)
      /\ toBack # <<>> => Put(vfifo, Head(toBack))
      /\ toBack # <<>> => Put(toFront, Head(toBack))
      /\ Put(toFront, Msg("error"))
  BY <1>1, PutFacts, LetterIs, TookFacts DEF Types, Took
<1>4. /\ toBack # <<>> =>
            /\ Head(toBack) \in Letter
            /\ Head(toBack) \in ToSet(toBack)
            /\ ToSet(Tail(toBack)) \subseteq ToSet(toBack)
      /\ toBack # <<>> /\ Head(toBack).kind = "send" =>
            ToSet(Append(vfifo, Head(toBack))) = ToSet(vfifo) \cup {Head(toBack)}
      /\ toBack # <<>> /\ Head(toBack).kind = "proxy" =>
            ToSet(Append(vfifo, Head(toBack))) = ToSet(vfifo) \cup {Head(toBack)}
      /\ toBack # <<>> /\ Head(toBack).kind = "alive" =>
            ToSet(Append(toFront, Head(toBack))) = ToSet(toFront) \cup {Head(toBack)}
      /\ ToSet(Append(toFront, Msg("error"))) = ToSet(toFront) \cup {Msg("error")}
  BY ONLY <1>3, MsgIs DEF Put, Took, RequestKind
<1>5. /\ toBack # <<>> /\ Head(toBack).kind = "send" =>
            Requests(toBack) = Requests(Tail(toBack)) + 1
      /\ toBack # <<>> /\ Head(toBack).kind = "proxy" =>
            Requests(toBack) = Requests(Tail(toBack))
      /\ toBack # <<>> /\ Head(toBack).kind = "alive" =>
            Requests(toBack) = Requests(Tail(toBack))
      /\ toBack # <<>> /\ Head(toBack).kind = "send" =>
            Requests(Append(vfifo, Head(toBack))) = Requests(vfifo) + 1
      /\ toBack # <<>> /\ Head(toBack).kind = "proxy" =>
            Requests(Append(vfifo, Head(toBack))) = Requests(vfifo)
      /\ toBack # <<>> /\ Head(toBack).kind = "alive" =>
            Requests(Append(toFront, Head(toBack))) = Requests(toFront)
      /\ toBack # <<>> /\ Head(toBack).kind = "alive" =>
            Replies(Append(toFront, Head(toBack))) = Replies(toFront)
      /\ Requests(Append(toFront, Msg("error"))) = Requests(toFront) + 1
      /\ Replies(Append(toFront, Msg("error"))) = Replies(toFront)
  BY ONLY <1>3, MsgIs DEF Put, Took, RequestKind
<1>6. /\ Sends(ffifo)' = Sends(ffifo)
      /\ Replies(toFront)' = Replies(toFront)
      /\ back'.at = "up" => InTransit' = InTransit
  <2>1. CASE /\ Head(toBack).kind = "send" /\ back'.at = "up"
             /\ vfifo' = Append(vfifo, Head(toBack)) /\ toFront' = toFront
    BY ONLY <1>1, <1>5, Types, Types', Amounts, AmountsNext, <2>1 DEF Amount
  <2>2. CASE /\ Head(toBack).kind = "proxy" /\ back'.at = "up"
             /\ vfifo' = Append(vfifo, Head(toBack)) /\ toFront' = toFront
    BY ONLY <1>1, <1>5, Types, Types', Amounts, AmountsNext, <2>2 DEF Amount
  <2>3. CASE /\ Head(toBack).kind \in {"send", "proxy", "clone", "absent"} /\ back'.at = "gone"
             /\ vfifo' = vfifo /\ toFront' = Append(toFront, Msg("error"))
    BY ONLY <1>1, <1>5, Types, Types', Amounts, AmountsNext, <2>3 DEF Amount
  <2>4. CASE /\ Head(toBack).kind = "alive" /\ back'.at = "up"
             /\ vfifo' = vfifo /\ toFront' = Append(toFront, Head(toBack))
    BY ONLY <1>1, <1>5, Types, Types', Amounts, AmountsNext, <2>4 DEF Amount
  <2>5. CASE /\ Head(toBack).kind = "close" /\ back'.at = "gone"
             /\ vfifo' = vfifo /\ toFront' = toFront
    BY ONLY <1>1, <1>5, Types, Types', Amounts, AmountsNext, <2>5 DEF Amount
  <2>. QED  BY ONLY <1>2, <2>1, <2>2, <2>3, <2>4, <2>5
<1>7. Forms'
  <2>1. CASE /\ Head(toBack).kind = "send" /\ back'.at = "up"
             /\ vfifo' = Append(vfifo, Head(toBack)) /\ toFront' = toFront
    BY ONLY <1>1, <1>4, Orderly, MsgIs, <2>1 DEF Orderly, Forms, Formed
  <2>2. CASE /\ Head(toBack).kind = "proxy" /\ back'.at = "up"
             /\ vfifo' = Append(vfifo, Head(toBack)) /\ toFront' = toFront
    BY ONLY <1>1, <1>4, Orderly, MsgIs, <2>2 DEF Orderly, Forms, Formed
  <2>3. CASE /\ Head(toBack).kind \in {"send", "proxy", "clone", "absent"} /\ back'.at = "gone"
             /\ vfifo' = vfifo /\ toFront' = Append(toFront, Msg("error"))
    BY ONLY <1>1, <1>4, Orderly, MsgIs, <2>3 DEF Orderly, Forms, Formed
  <2>4. CASE /\ Head(toBack).kind = "alive" /\ back'.at = "up"
             /\ vfifo' = vfifo /\ toFront' = Append(toFront, Head(toBack))
    BY ONLY <1>1, <1>4, Orderly, MsgIs, <2>4 DEF Orderly, Forms, Formed
  <2>5. CASE /\ Head(toBack).kind = "close" /\ back'.at = "gone"
             /\ vfifo' = vfifo /\ toFront' = toFront
    BY ONLY <1>1, <1>4, Orderly, MsgIs, <2>5 DEF Orderly, Forms, Formed
  <2>. QED  BY ONLY <1>2, <2>1, <2>2, <2>3, <2>4, <2>5
<1>8. Setup'
  BY ONLY <1>1, <1>2, <1>4, Orderly, MsgIs DEF Orderly, Setup, StrayHoldsNobody, Opening, OneOut
<1>9. Attachment'
  BY ONLY <1>1, <1>2, <1>4, Orderly, MsgIs DEF Orderly, Attachment
<1>10. Opening'
  BY ONLY <1>1, <1>2, <1>4, <1>6, Orderly, Types, Types', Measures, MeasuresNext, MsgIs
     DEF Orderly, Measure, Opening, Setup, OneOut, Forms
<1>11. OneOut'
  BY ONLY <1>1, <1>2, <1>5, <1>6, Orderly, Types, Types', Measures, MeasuresNext, MsgIs
     DEF Orderly, Measure, Opening, OneOut, Transit, Held, Setup
<1>12. Transit'
  BY ONLY <1>1, <1>2, <1>5, <1>6, Orderly, Types, Types', Measures, MeasuresNext, MsgIs
     DEF Orderly, Measure, Transit, ToggleIsRight, Held, OneOut, Opening, Setup
<1>13. Current'
  <2>1. CASE /\ Head(toBack).kind = "send" /\ back'.at = "up"
             /\ vfifo' = Append(vfifo, Head(toBack)) /\ toFront' = toFront
    BY ONLY <1>1, <1>4, Orderly, Types, QuietIs, MsgIs, <2>1 DEF Orderly, Quiet, Current, About,
       Opening, OneOut, Setup
  <2>2. CASE /\ Head(toBack).kind = "proxy" /\ back'.at = "up"
             /\ vfifo' = Append(vfifo, Head(toBack)) /\ toFront' = toFront
    BY ONLY <1>1, <1>4, Orderly, Types, QuietIs, MsgIs, <2>2 DEF Orderly, Quiet, Current, About,
       Opening, OneOut, Setup
  <2>3. CASE /\ Head(toBack).kind \in {"send", "proxy", "clone", "absent"} /\ back'.at = "gone"
             /\ vfifo' = vfifo /\ toFront' = Append(toFront, Msg("error"))
    BY ONLY <1>1, <1>4, Orderly, Types, QuietIs, MsgIs, <2>3 DEF Orderly, Quiet, Current, About,
       Opening, OneOut, Setup
  <2>4. CASE /\ Head(toBack).kind = "alive" /\ back'.at = "up"
             /\ vfifo' = vfifo /\ toFront' = Append(toFront, Head(toBack))
    BY ONLY <1>1, <1>4, Orderly, Types, QuietIs, MsgIs, <2>4 DEF Orderly, Quiet, Current, About,
       Opening, OneOut, Setup
  <2>5. CASE /\ Head(toBack).kind = "close" /\ back'.at = "gone"
             /\ vfifo' = vfifo /\ toFront' = toFront
    BY ONLY <1>1, <1>4, Orderly, Types, QuietIs, MsgIs, <2>5 DEF Orderly, Quiet, Current, About,
       Opening, OneOut, Setup
  <2>. QED  BY ONLY <1>2, <2>1, <2>2, <2>3, <2>4, <2>5
<1>14. Received'
  BY ONLY <1>1, <1>2, <1>4, Orderly, MsgIs DEF Orderly, Received, Answered
<1>. QED  BY <1>7, <1>8, <1>9, <1>10, <1>11, <1>12, <1>13, <1>14 DEF Orderly

\* The back goes at the end of the stream.
LEMMA BEndOrderly == ASSUME Types, Orderly, BEnd, Types' PROVE Orderly'
<1>1. /\ UNCHANGED <<how, client, asked, answer, front, ffifo, named, yfifo, toBack,
                     receiver, vfifo, taken, got>>
      /\ back.at = "up" /\ back'.at = "gone" /\ front.at \in {"faulted", "gone", "killed"}
      /\ toFront' = Append(toFront, Msg("error"))
  BY DEF BEnd, At, BFails, FEnded, BReadable, cVars, fVars, vVars, Types, FrontType, BackType
<1>2. Put(toFront, Msg("error"))
  BY <1>1, PutFacts, LetterIs DEF Types
<1>3. ToSet(Append(toFront, Msg("error"))) = ToSet(toFront) \cup {Msg("error")}
  BY ONLY <1>2, MsgIs DEF Put, RequestKind
<1>4. /\ Requests(Append(toFront, Msg("error"))) = Requests(toFront) + 1
      /\ Replies(Append(toFront, Msg("error"))) = Replies(toFront)
  BY ONLY <1>2, MsgIs DEF Put, RequestKind
<1>5. /\ Sends(ffifo)' = Sends(ffifo)
      /\ Replies(toFront)' = Replies(toFront)
  BY ONLY <1>1, <1>4, Types, Types', Amounts, AmountsNext DEF Amount
<1>6. Forms'
  BY ONLY <1>1, <1>3, Orderly, MsgIs DEF Orderly, Forms, Formed
<1>7. Setup'
  BY ONLY <1>1, <1>3, Orderly, MsgIs DEF Orderly, Setup, StrayHoldsNobody, Opening, OneOut
<1>8. Attachment'
  BY ONLY <1>1, <1>3, Orderly, MsgIs DEF Orderly, Attachment
<1>9. Opening'
  BY ONLY <1>1, <1>3, <1>5, Orderly, Types, Types', Measures, MeasuresNext, MsgIs DEF Orderly,
     Measure, Opening, Setup, OneOut, Forms
<1>10. OneOut'
  BY ONLY <1>1, <1>4, <1>5, Orderly, Types, Types', Measures, MeasuresNext, MsgIs DEF Orderly,
     Measure, Opening, OneOut, Transit, Held, Setup
<1>11. Transit'
  BY ONLY <1>1, <1>4, <1>5, Orderly, Types, Types', Measures, MeasuresNext, MsgIs DEF Orderly,
     Measure, Transit, ToggleIsRight, Held, OneOut, Opening, Setup
<1>12. Current'
  BY ONLY <1>1, <1>3, Orderly, Types, QuietIs, MsgIs DEF Orderly, Quiet, Current, About,
     Opening, OneOut, Setup
<1>13. Received'
  BY ONLY <1>1, <1>3, Orderly, MsgIs DEF Orderly, Received, Answered
<1>. QED  BY <1>6, <1>7, <1>8, <1>9, <1>10, <1>11, <1>12, <1>13 DEF Orderly

\* The reply leaves the fifo of the back for the connection.
LEMMA BReplyOrderly == ASSUME Types, Orderly, BReply, Types' PROVE Orderly'
<1>1. /\ UNCHANGED <<how, client, asked, answer, front, ffifo, named, toBack, receiver,
                     vfifo, taken, got>>
      /\ back.at = "up"
      /\ yfifo # <<>> /\ yfifo' = Tail(yfifo)
  BY DEF BReply, At, BFails, Passed, FEnded, BReadable, cVars, fVars, vVars
<1>2. \/ /\ Head(yfifo).kind = "reply"
         /\ back'.at = "up" /\ toFront' = Append(toFront, Head(yfifo))
      \/ back'.at = "gone" /\ toFront' = Append(toFront, Msg("error"))
  <2>1. Head(yfifo) \in Letter
    BY <1>1 DEF Types
  <2>. QED  BY <2>1, SameReply DEF BReply, At, BFails, Passed, FEnded, BReadable, cVars, fVars,
               vVars, Types, BackType
<1>3. /\ yfifo # <<>> => Took(yfifo)
      /\ yfifo # <<>> => Put(toFront, Head(yfifo))
      /\ Put(toFront, Msg("error"))
  BY <1>1, PutFacts, LetterIs, TookFacts DEF Types, Took
<1>4. /\ yfifo # <<>> =>
            /\ Head(yfifo) \in Letter
            /\ Head(yfifo) \in ToSet(yfifo)
            /\ ToSet(Tail(yfifo)) \subseteq ToSet(yfifo)
      /\ yfifo # <<>> /\ Head(yfifo).kind = "reply" =>
            ToSet(Append(toFront, Head(yfifo))) = ToSet(toFront) \cup {Head(yfifo)}
      /\ ToSet(Append(toFront, Msg("error"))) = ToSet(toFront) \cup {Msg("error")}
  BY ONLY <1>3, MsgIs DEF Put, Took, RequestKind
<1>5. /\ yfifo # <<>> /\ Head(yfifo).kind \in {"reply", "error"} =>
            Requests(yfifo) = Requests(Tail(yfifo)) + 1
      /\ yfifo # <<>> /\ Head(yfifo).kind = "reply" =>
            Requests(Append(toFront, Head(yfifo))) = Requests(toFront) + 1
      /\ yfifo # <<>> /\ Head(yfifo).kind = "reply" =>
            Replies(Append(toFront, Head(yfifo))) = Replies(toFront) + 1
      /\ Requests(Append(toFront, Msg("error"))) = Requests(toFront) + 1
      /\ Replies(Append(toFront, Msg("error"))) = Replies(toFront)
  BY ONLY <1>3, MsgIs DEF Put, Took, RequestKind
<1>6. /\ Sends(ffifo)' = Sends(ffifo)
      /\ InTransit # 0
      /\ back'.at = "up" => Replies(toFront)' = Replies(toFront) + 1 /\ InTransit' = InTransit
      /\ back'.at # "up" => Replies(toFront)' = Replies(toFront)
  <2>1. UNCHANGED <<ffifo, toBack, vfifo, taken>>
    BY ONLY <1>1
  <2>2. Head(yfifo).kind \in {"reply", "error"}
    BY ONLY <1>1, <1>4, Orderly DEF Orderly, Forms
  <2>3. Requests(yfifo) = Requests(yfifo') + 1
    BY ONLY <1>1, <1>5, <2>2
  <2>4. back'.at = "up" => /\ Requests(toFront') = Requests(toFront) + 1
                           /\ Replies(toFront') = Replies(toFront) + 1
    BY ONLY <1>1, <1>2, <1>5
  <2>5. back'.at # "up" => Replies(toFront') = Replies(toFront)
    BY ONLY <1>2, <1>5
  <2>. QED  BY ONLY <2>1, <2>3, <2>4, <2>5, Types, Types', Amounts, AmountsNext DEF Amount
<1>7. Forms'
  BY ONLY <1>1, <1>2, <1>4, Orderly, MsgIs DEF Orderly, Forms, Formed
<1>8. Setup'
  BY ONLY <1>1, <1>2, <1>4, Orderly, MsgIs DEF Orderly, Setup, StrayHoldsNobody, Opening, OneOut
<1>9. Attachment'
  BY ONLY <1>1, <1>2, <1>4, Orderly, MsgIs DEF Orderly, Attachment
<1>10. Opening'
  BY ONLY <1>1, <1>2, <1>4, <1>6, Orderly, Types, Types', Measures, MeasuresNext, MsgIs
     DEF Orderly, Measure, Opening, Setup, OneOut, Forms
<1>11. OneOut'
  BY ONLY <1>1, <1>2, <1>5, <1>6, Orderly, Types, Types', Measures, MeasuresNext, MsgIs
     DEF Orderly, Measure, Opening, OneOut, Transit, Held, Setup
<1>12. Transit'
  BY ONLY <1>1, <1>2, <1>5, <1>6, Orderly, Types, Types', Measures, MeasuresNext, MsgIs
     DEF Orderly, Measure, Transit, ToggleIsRight, Held, OneOut, Opening, Setup
<1>13. Current'
  BY ONLY <1>1, <1>2, <1>4, Orderly, Types, QuietIs, MsgIs DEF Orderly, Quiet, Current, About,
     Opening, OneOut, Setup
<1>14. Received'
  BY ONLY <1>1, <1>2, <1>4, Orderly, MsgIs DEF Orderly, Received, Answered
<1>. QED  BY <1>7, <1>8, <1>9, <1>10, <1>11, <1>12, <1>13, <1>14 DEF Orderly

\* A time-out of the back moves nothing.
LEMMA BTimeoutOrderly == ASSUME Types, Orderly, BTimeout, Types' PROVE Orderly'
<1>1. /\ UNCHANGED <<how, client, asked, answer, front, ffifo, named, yfifo, toBack,
                     toFront, receiver, vfifo, taken, got>>
      /\ back.at = "up" /\ back'.at \in {"up", "gone"}
  BY DEF BTimeout, At, TooMany, FEnded, BReadable, cVars, fVars, wires, vVars, Types, FrontType,
     BackType
<1>2. /\ Sends(ffifo)' = Sends(ffifo)
      /\ Replies(toFront)' = Replies(toFront)
      /\ InTransit' = InTransit
  BY ONLY <1>1, Types, Types', Amounts, AmountsNext DEF Amount
<1>3. Forms'
  BY ONLY <1>1, Orderly DEF Orderly, Forms, Formed
<1>4. Setup'
  BY ONLY <1>1, Orderly DEF Orderly, Setup, StrayHoldsNobody, Opening, OneOut
<1>5. Attachment'
  BY ONLY <1>1, Orderly DEF Orderly, Attachment
<1>6. Opening'
  BY ONLY <1>1, <1>2, Orderly, Types, Types', Measures, MeasuresNext DEF Orderly, Measure,
     Opening, Setup, OneOut, Forms
<1>7. OneOut'
  BY ONLY <1>1, <1>2, Orderly, Types, Types', Measures, MeasuresNext DEF Orderly, Measure,
     Opening, OneOut, Transit, Held, Setup
<1>8. Transit'
  BY ONLY <1>1, <1>2, Orderly, Types, Types', Measures, MeasuresNext DEF Orderly, Measure,
     Transit, ToggleIsRight, Held, OneOut, Opening, Setup
<1>9. Current'
  BY ONLY <1>1, Orderly, Types, QuietIs DEF Orderly, Quiet, Current, About, Opening, OneOut,
     Setup
<1>10. Received'
  BY ONLY <1>1, Orderly DEF Orderly, Received, Answered
<1>. QED  BY <1>3, <1>4, <1>5, <1>6, <1>7, <1>8, <1>9, <1>10 DEF Orderly

\* A killed back moves nothing more.
LEMMA BKillOrderly == ASSUME Types, Orderly, BKill, Types' PROVE Orderly'
<1>1. /\ UNCHANGED <<how, client, asked, answer, front, ffifo, named, yfifo, toBack,
                     toFront, receiver, vfifo, taken, got>>
      /\ back.at \in {"forked", "up"} /\ back'.at = "gone"
  BY DEF BKill, At, cVars, fVars, wires, vVars, Types, FrontType, BackType
<1>2. /\ Sends(ffifo)' = Sends(ffifo)
      /\ Replies(toFront)' = Replies(toFront)
      /\ InTransit' = InTransit
  BY ONLY <1>1, Types, Types', Amounts, AmountsNext DEF Amount
<1>3. Forms'
  BY ONLY <1>1, Orderly DEF Orderly, Forms, Formed
<1>4. Setup'
  BY ONLY <1>1, Orderly DEF Orderly, Setup, StrayHoldsNobody, Opening, OneOut
<1>5. Attachment'
  BY ONLY <1>1, Orderly DEF Orderly, Attachment
<1>6. Opening'
  BY ONLY <1>1, <1>2, Orderly, Types, Types', Measures, MeasuresNext DEF Orderly, Measure,
     Opening, Setup, OneOut, Forms
<1>7. OneOut'
  BY ONLY <1>1, <1>2, Orderly, Types, Types', Measures, MeasuresNext DEF Orderly, Measure,
     Opening, OneOut, Transit, Held, Setup
<1>8. Transit'
  BY ONLY <1>1, <1>2, Orderly, Types, Types', Measures, MeasuresNext DEF Orderly, Measure,
     Transit, ToggleIsRight, Held, OneOut, Opening, Setup
<1>9. Current'
  BY ONLY <1>1, Orderly, Types, QuietIs DEF Orderly, Quiet, Current, About, Opening, OneOut,
     Setup
<1>10. Received'
  BY ONLY <1>1, Orderly DEF Orderly, Received, Answered
<1>. QED  BY <1>3, <1>4, <1>5, <1>6, <1>7, <1>8, <1>9, <1>10 DEF Orderly

\* The receiver works on the request it has taken.
LEMMA TakeOrderly == ASSUME Types, Orderly, Take, Types' PROVE Orderly'
<1>1. /\ UNCHANGED <<how, client, asked, answer, front, ffifo, named, back, yfifo, toBack,
                     toFront, receiver>>
      /\ receiver = "up" /\ back.at = "up" /\ taken = 0
      /\ vfifo # <<>> /\ vfifo' = Tail(vfifo)
      /\ taken' = Head(vfifo).n
  BY DEF Take, cVars, fVars, bVars, wires
<1>2. \/ Head(vfifo).kind = "send" /\ taken' # 0 /\ got' = got \cup {taken'}
      \/ Head(vfifo).kind = "proxy" /\ taken' = 0 /\ got' = got
  <2>1. Took(vfifo)
    BY ONLY <1>1, Types, TookFacts DEF Types
  <2>2. Head(vfifo).kind \in {"send", "proxy"}
    BY ONLY <2>1, Orderly DEF Took, Orderly, Forms
  <2>3. /\ Head(vfifo).kind = "send" => Head(vfifo).n # 0
        /\ Head(vfifo).kind = "proxy" => Head(vfifo).n = 0
    BY ONLY <2>1, Orderly DEF Took, Orderly, Forms, Formed
  <2>. QED  BY <2>2, <2>3 DEF Take
<1>3. vfifo # <<>> => Took(vfifo)
  BY <1>1, TookFacts DEF Types
<1>4. vfifo # <<>> =>
                                                   /\ Head(vfifo) \in Letter
                                                   /\ Head(vfifo) \in ToSet(vfifo)
                                                   /\ ToSet(Tail(vfifo)) \subseteq ToSet(vfifo)
  BY ONLY <1>3 DEF Took, RequestKind
<1>5. /\ vfifo # <<>> /\ Head(vfifo).kind = "send" =>
            Requests(vfifo) = Requests(Tail(vfifo)) + 1
      /\ vfifo # <<>> /\ Head(vfifo).kind = "proxy" => Requests(vfifo) = Requests(Tail(vfifo))
  BY ONLY <1>3 DEF Took, RequestKind
<1>6. /\ Sends(ffifo)' = Sends(ffifo)
      /\ Replies(toFront)' = Replies(toFront)
      /\ InTransit' = InTransit
  <2>1. CASE Head(vfifo).kind = "send" /\ taken' # 0 /\ got' = got \cup {taken'}
    BY ONLY <1>1, <1>5, Types, Types', Amounts, AmountsNext, <2>1 DEF Amount
  <2>2. CASE Head(vfifo).kind = "proxy" /\ taken' = 0 /\ got' = got
    BY ONLY <1>1, <1>5, Types, Types', Amounts, AmountsNext, <2>2 DEF Amount
  <2>. QED  BY ONLY <1>2, <2>1, <2>2
<1>7. Forms'
  BY ONLY <1>1, <1>2, <1>4, Orderly DEF Orderly, Forms, Formed
<1>8. Setup'
  BY ONLY <1>1, <1>2, <1>4, Orderly DEF Orderly, Setup, StrayHoldsNobody, Opening, OneOut
<1>9. Attachment'
  BY ONLY <1>1, <1>2, <1>4, Orderly DEF Orderly, Attachment
<1>10. Opening'
  BY ONLY <1>1, <1>2, <1>4, <1>6, Orderly, Types, Types', Measures, MeasuresNext DEF Orderly,
     Measure, Opening, Setup, OneOut, Forms
<1>11. OneOut'
  BY ONLY <1>1, <1>2, <1>5, <1>6, Orderly, Types, Types', Measures, MeasuresNext DEF Orderly,
     Measure, Opening, OneOut, Transit, Held, Setup
<1>12. Transit'
  BY ONLY <1>1, <1>2, <1>5, <1>6, Orderly, Types, Types', Measures, MeasuresNext DEF Orderly,
     Measure, Transit, ToggleIsRight, Held, OneOut, Opening, Setup
<1>13. Current'
  BY ONLY <1>1, <1>2, <1>4, Orderly, Types, QuietIs DEF Orderly, Quiet, Current, About, Opening,
     OneOut, Setup
<1>14. Received'
  BY ONLY <1>1, <1>2, <1>4, Orderly DEF Orderly, Received, Answered
<1>. QED  BY <1>7, <1>8, <1>9, <1>10, <1>11, <1>12, <1>13, <1>14 DEF Orderly

\* The reply to the request takes its place.
LEMMA AnswerOrderly == ASSUME Types, Orderly, Answer, Types' PROVE Orderly'
<1>. DEFINE m == [kind |-> "reply", n |-> taken]
<1>1. m.kind = "reply" /\ m.n = taken /\ m \in Letter
  <2>1. taken \in 1..MaxAsks
    BY DEF Answer, Types
  <2>. QED  BY <2>1, LetterIs
<1>2. /\ UNCHANGED <<how, client, asked, answer, front, ffifo, named, back, toBack,
                     toFront, receiver, vfifo, got>>
      /\ receiver = "up" /\ taken # 0 /\ taken' = 0
  BY DEF Answer, cVars, fVars, wires
<1>3. \/ back.at # "up" /\ yfifo' = yfifo
      \/ back.at = "up" /\ yfifo' = Append(yfifo, m)
      \/ back.at = "up" /\ yfifo' = Append(yfifo, Msg("error"))
  BY DEF Answer, cVars, fVars, wires
<1>. HIDE DEF m
<1>4. /\ Put(yfifo, m)
      /\ Put(yfifo, Msg("error"))
  BY <1>2, <1>1, PutFacts, LetterIs DEF Types
<1>5. /\ ToSet(Append(yfifo, m)) = ToSet(yfifo) \cup {m}
      /\ ToSet(Append(yfifo, Msg("error"))) = ToSet(yfifo) \cup {Msg("error")}
  BY ONLY <1>4, <1>1, MsgIs DEF Put, RequestKind
<1>6. /\ Requests(Append(yfifo, m)) = Requests(yfifo) + 1
      /\ Requests(Append(yfifo, Msg("error"))) = Requests(yfifo) + 1
  BY ONLY <1>4, <1>1, MsgIs DEF Put, RequestKind
<1>7. /\ Sends(ffifo)' = Sends(ffifo)
      /\ Replies(toFront)' = Replies(toFront)
      /\ InTransit # 0
      /\ InTransit' <= InTransit
      /\ back.at = "up" => InTransit' = InTransit
  <2>1. UNCHANGED <<ffifo, toBack, toFront, vfifo>> /\ taken # 0 /\ taken' = 0
    BY ONLY <1>2
  <2>2. \/ back.at # "up" /\ Requests(yfifo') = Requests(yfifo)
        \/ back.at = "up" /\ Requests(yfifo') = Requests(yfifo) + 1
    BY ONLY <1>3, <1>6
  <2>. QED  BY ONLY <2>1, <2>2, Types, Types', Amounts, AmountsNext DEF Amount
<1>8. Forms'
  BY ONLY <1>2, <1>1, <1>3, <1>5, Orderly, MsgIs DEF Orderly, Forms, Formed
<1>9. Setup'
  BY ONLY <1>2, <1>1, <1>3, <1>5, Orderly, MsgIs DEF Orderly, Setup, StrayHoldsNobody, Opening,
     OneOut
<1>10. Attachment'
  BY ONLY <1>2, <1>1, <1>3, <1>5, Orderly, MsgIs DEF Orderly, Attachment
<1>11. Opening'
  BY ONLY <1>2, <1>1, <1>3, <1>5, <1>7, Orderly, Types, Types', Measures, MeasuresNext, MsgIs
     DEF Orderly, Measure, Opening, Setup, OneOut, Forms
<1>12. OneOut'
  BY ONLY <1>2, <1>1, <1>3, <1>6, <1>7, Orderly, Types, Types', Measures, MeasuresNext, MsgIs
     DEF Orderly, Measure, Opening, OneOut, Transit, Held, Setup
<1>13. Transit'
  BY ONLY <1>2, <1>1, <1>3, <1>6, <1>7, Orderly, Types, Types', Measures, MeasuresNext, MsgIs
     DEF Orderly, Measure, Transit, ToggleIsRight, Held, OneOut, Opening, Setup
<1>14. Current'
  BY ONLY <1>2, <1>1, <1>3, <1>5, Orderly, Types, QuietIs, MsgIs DEF Orderly, Quiet, Current,
     About, Opening, OneOut, Setup
<1>15. Received'
  BY ONLY <1>2, <1>1, <1>3, <1>5, Orderly, MsgIs DEF Orderly, Received, Answered
<1>. QED  BY <1>8, <1>9, <1>10, <1>11, <1>12, <1>13, <1>14, <1>15 DEF Orderly

\* What the receiver had goes with it.
LEMMA ReceiverExitOrderly == ASSUME Types, Orderly, ReceiverExit, Types' PROVE Orderly'
<1>1. /\ UNCHANGED <<how, client, asked, answer, front, ffifo, named, back, toBack,
                     toFront, got>>
      /\ receiver = "up" /\ receiver' = "gone" /\ vfifo' = <<>> /\ taken' = 0
  BY DEF ReceiverExit, cVars, fVars, wires
<1>2. \/ yfifo' = yfifo
      \/ taken # 0 /\ yfifo' = Append(yfifo, Msg("error"))
  BY DEF ReceiverExit, cVars, fVars, wires
<1>3. Put(yfifo, Msg("error"))
  BY <1>1, PutFacts, LetterIs DEF Types
<1>4. ToSet(Append(yfifo, Msg("error"))) = ToSet(yfifo) \cup {Msg("error")}
  BY ONLY <1>3, MsgIs DEF Put, RequestKind
<1>5. Requests(Append(yfifo, Msg("error"))) = Requests(yfifo) + 1
  BY ONLY <1>3, MsgIs DEF Put, RequestKind
<1>6. /\ Sends(ffifo)' = Sends(ffifo)
      /\ Replies(toFront)' = Replies(toFront)
      /\ InTransit' <= InTransit
  <2>1. UNCHANGED <<ffifo, toBack, toFront>> /\ taken' = 0 /\ Requests(vfifo') = 0
    BY ONLY <1>1, Nothing
  <2>2. \/ Requests(yfifo') = Requests(yfifo)
        \/ taken # 0 /\ Requests(yfifo') = Requests(yfifo) + 1
    BY ONLY <1>2, <1>5
  <2>. QED  BY ONLY <2>1, <2>2, Types, Types', Amounts, AmountsNext DEF Amount
<1>7. Forms'
  BY ONLY <1>1, <1>2, <1>4, Orderly, MsgIs, Nothing DEF Orderly, Forms, Formed
<1>8. Setup'
  BY ONLY <1>1, <1>2, <1>4, Orderly, MsgIs, Nothing DEF Orderly, Setup, StrayHoldsNobody,
     Opening, OneOut
<1>9. Attachment'
  BY ONLY <1>1, <1>2, <1>4, Orderly, MsgIs, Nothing DEF Orderly, Attachment
<1>10. Opening'
  BY ONLY <1>1, <1>2, <1>4, <1>6, Orderly, Types, Types', Measures, MeasuresNext, MsgIs, Nothing
     DEF Orderly, Measure, Opening, Setup, OneOut, Forms
<1>11. OneOut'
  BY ONLY <1>1, <1>2, <1>5, <1>6, Orderly, Types, Types', Measures, MeasuresNext, MsgIs, Nothing
     DEF Orderly, Measure, Opening, OneOut, Transit, Held, Setup
<1>12. Transit'
  BY ONLY <1>1, <1>2, <1>5, <1>6, Orderly, Types, Types', Measures, MeasuresNext, MsgIs, Nothing
     DEF Orderly, Measure, Transit, ToggleIsRight, Held, OneOut, Opening, Setup
<1>13. Current'
  BY ONLY <1>1, <1>2, <1>4, Orderly, Types, QuietIs, MsgIs, Nothing DEF Orderly, Quiet, Current,
     About, Opening, OneOut, Setup
<1>14. Received'
  BY ONLY <1>1, <1>2, <1>4, Orderly, MsgIs, Nothing DEF Orderly, Received, Answered
<1>. QED  BY <1>7, <1>8, <1>9, <1>10, <1>11, <1>12, <1>13, <1>14 DEF Orderly

\* Nothing moves when the network fails.
LEMMA CutOrderly == ASSUME Types, Orderly, Cut, Types' PROVE Orderly'
<1>1. UNCHANGED <<how, client, asked, answer, front, ffifo, named, back, yfifo, toBack,
                  toFront, receiver, vfifo, taken, got>>
  BY DEF Cut, cVars, fVars, bVars, vVars
<1>2. /\ Sends(ffifo)' = Sends(ffifo)
      /\ Replies(toFront)' = Replies(toFront)
      /\ InTransit' = InTransit
  BY ONLY <1>1, Types, Types', Amounts, AmountsNext DEF Amount
<1>3. Forms'
  BY ONLY <1>1, Orderly DEF Orderly, Forms, Formed
<1>4. Setup'
  BY ONLY <1>1, Orderly DEF Orderly, Setup, StrayHoldsNobody, Opening, OneOut
<1>5. Attachment'
  BY ONLY <1>1, Orderly DEF Orderly, Attachment
<1>6. Opening'
  BY ONLY <1>1, <1>2, Orderly, Types, Types', Measures, MeasuresNext DEF Orderly, Measure,
     Opening, Setup, OneOut, Forms
<1>7. OneOut'
  BY ONLY <1>1, <1>2, Orderly, Types, Types', Measures, MeasuresNext DEF Orderly, Measure,
     Opening, OneOut, Transit, Held, Setup
<1>8. Transit'
  BY ONLY <1>1, <1>2, Orderly, Types, Types', Measures, MeasuresNext DEF Orderly, Measure,
     Transit, ToggleIsRight, Held, OneOut, Opening, Setup
<1>9. Current'
  BY ONLY <1>1, Orderly, Types, QuietIs DEF Orderly, Quiet, Current, About, Opening, OneOut,
     Setup
<1>10. Received'
  BY ONLY <1>1, Orderly DEF Orderly, Received, Answered
<1>. QED  BY <1>3, <1>4, <1>5, <1>6, <1>7, <1>8, <1>9, <1>10 DEF Orderly

\* Every step keeps the invariant.
LEMMA OrderlyStep == ASSUME Types, Orderly, [Next]_vars, Types' PROVE Orderly'
<1>1. CASE ClientLocate
  BY <1>1, ClientLocateOrderly
<1>2. CASE ClientSend
  BY <1>2, ClientSendOrderly
<1>3. CASE ClientTrigger
  BY <1>3, ClientTriggerOrderly
<1>4. CASE ClientReturn
  BY <1>4, ClientReturnOrderly
<1>5. CASE ClientExit
  BY <1>5, ClientExitOrderly
<1>6. CASE ClientRemove
  BY <1>6, ClientRemoveOrderly
<1>7. CASE ClientKill
  BY <1>7, ClientKillOrderly
<1>8. CASE FConnect
  BY <1>8, FConnectOrderly
<1>9. CASE FLocated
  BY <1>9, FLocatedOrderly
<1>10. CASE FFork
  BY <1>10, FForkOrderly
<1>11. CASE FAttach
  BY <1>11, FAttachOrderly
<1>12. CASE FSend
  BY <1>12, FSendOrderly
<1>13. CASE FProxy
  BY <1>13, FProxyOrderly
<1>14. CASE FClose
  BY <1>14, FCloseOrderly
<1>15. CASE FRemote
  BY <1>15, FRemoteOrderly
<1>16. CASE FTimeout
  BY <1>16, FTimeoutOrderly
<1>17. CASE FKill
  BY <1>17, FKillOrderly
<1>18. CASE ReceiverAttach
  BY <1>18, ReceiverAttachOrderly
<1>19. CASE BFork
  BY <1>19, BForkOrderly
<1>20. CASE BLocate
  BY <1>20, BLocateOrderly
<1>21. CASE BConnect
  BY <1>21, BConnectOrderly
<1>22. CASE BAttached
  BY <1>22, BAttachedOrderly
<1>23. CASE BMessage
  BY <1>23, BMessageOrderly
<1>24. CASE BEnd
  BY <1>24, BEndOrderly
<1>25. CASE BReply
  BY <1>25, BReplyOrderly
<1>26. CASE BTimeout
  BY <1>26, BTimeoutOrderly
<1>27. CASE BKill
  BY <1>27, BKillOrderly
<1>28. CASE Take
  BY <1>28, TakeOrderly
<1>29. CASE Answer
  BY <1>29, AnswerOrderly
<1>30. CASE ReceiverExit
  BY <1>30, ReceiverExitOrderly
<1>31. CASE Cut
  BY <1>31, CutOrderly
<1>32. CASE UNCHANGED vars
  <2>. USE DEF vars, cVars, fVars, bVars, wires, vVars
  <2>1. Forms' /\ Setup' /\ Attachment'
    BY <1>32 DEF Orderly, Forms, Formed, Setup, StrayHoldsNobody, Attachment
  <2>2. InTransit' = InTransit /\ Held' = Held
    BY <1>32 DEF InTransit, Held
  <2>3. Opening' /\ OneOut' /\ Transit'
    BY <1>32, <2>2 DEF Orderly, Opening, OneOut, Transit, ToggleIsRight
  <2>4. Current' /\ Received'
    BY <1>32 DEF Orderly, Current, About, Received, Answered
  <2>. QED  BY <2>1, <2>3, <2>4 DEF Orderly
<1>. QED
  BY <1>1, <1>2, <1>3, <1>4, <1>5, <1>6, <1>7, <1>8, <1>9, <1>10, <1>11, <1>12, <1>13, <1>14,
     <1>15, <1>16, <1>17, <1>18, <1>19, <1>20, <1>21, <1>22, <1>23, <1>24, <1>25, <1>26, <1>27,
     <1>28, <1>29, <1>30, <1>31, <1>32 DEF Next, FStep, BStep, Serve

\* The invariant holds at the start.
LEMMA AtStart == Init => IInv
<1>. SUFFICES ASSUME Init PROVE IInv
  OBVIOUS
<1>1. Types
  BY TypesAtStart
<1>2. InTransit = 0 /\ Len(answer) = 0 /\ Sends(ffifo) = 0 /\ Replies(toFront) = 0
  BY Nothing DEF Init, InTransit
<1>3. ~ front.holds /\ front.at \in {"child", "none"} /\ back.at \in {"child", "none"}
  BY DEF Init
<1>4. Forms /\ Received /\ Current
  BY <1>3, Nothing DEF Init, Forms, Formed, Received, Answered, Current
<1>5. Setup /\ Attachment
  BY ConduitAssumption, Nothing DEF Init, Setup, StrayHoldsNobody, Attachment
<1>6. Opening /\ OneOut /\ Transit
  BY <1>2, <1>3, Nothing DEF Init, Opening, OneOut, Transit, ToggleIsRight
<1>. QED  BY <1>1, <1>4, <1>5, <1>6 DEF IInv, Orderly

\* IInv is inductive.
THEOREM Invariant == Spec => []IInv
<1>1. IInv /\ [Next]_vars => IInv'
  BY TypesStep, OrderlyStep DEF IInv
<1>. QED  BY <1>1, AtStart, PTL DEF Spec

\* EndToEnd holds in every state: a Send that succeeds was received, and name_attach
\* succeeds only when the name was attached at the other end.
THEOREM EndToEndHolds == Spec => []EndToEnd
<1>1. IInv => EndToEnd
  <2>. SUFFICES ASSUME IInv PROVE EndToEnd
    OBVIOUS
  <2>1. ASSUME client = "sending", answer # <<>>, Head(answer).kind = "reply"
        PROVE  Head(answer).n = asked /\ asked \in got
    <3>1. Head(answer) \in ToSet(answer)
      BY <2>1, TookFacts DEF IInv, Types, Took
    <3>. QED  BY <2>1, <3>1 DEF IInv, Orderly, Current, About, Received, Answered
  <2>2. how = "attach" /\ receiver = "up" => named # "no"
    BY DEF IInv, Orderly, Attachment
  <2>. QED  BY <2>1, <2>2 DEF EndToEnd
<1>. QED  BY <1>1, Invariant, PTL

\* ToggleIsRight holds in every state: surrogate_r listens to its fifo exactly while
\* no client waits for an answer, and then nothing is on its way.
THEOREM ToggleHolds == Spec => []ToggleIsRight
<1>1. IInv => ToggleIsRight
  BY DEF IInv, Orderly, Transit
<1>. QED  BY <1>1, Invariant, PTL

\* StrayHoldsNobody holds in every state: a connector that could not set up its
\* conduit has told whoever asked for it.
THEOREM StrayHolds == Spec => []StrayHoldsNobody
<1>1. IInv => StrayHoldsNobody
  BY DEF IInv, Orderly, Setup
<1>. QED  BY <1>1, Invariant, PTL

===============================================================================
