-------------------------------- MODULE TcpX --------------------------------
(***************************************************************************)
(* surrogates/tcp_x: a conduit that either end may ask for.  A connector   *)
(* child waits to be asked; the listener on the other host forks a partner *)
(* for it.  One of the two is the front, which the client sends to, the    *)
(* other the back, which posts to the receiver:                            *)
(*                                                                         *)
(*   how        asks      connector           listener's child             *)
(*   "locate"   client    front: surrogate_r  back: surrogate_s            *)
(*   "attach"   receiver  back: surrogate_st  front: surrogate_rt          *)
(*                                                                         *)
(* An attached front stands under the receiver's name with a _ before it.  *)
(* A look-up that finds it asks it to clone itself for the next client.    *)
(* A connector that fails to set up its conduit does not end: it returns   *)
(* into the loop of its parent (at "stray").                               *)
(*                                                                         *)
(* The local halves are taken as in TcpSurrogate.                          *)
(***************************************************************************)
EXTENDS Naturals, Sequences, FiniteSets

CONSTANTS
    Limit,     \* KEEP_ALIVE_FAIL_LIMIT
    MaxAsks,   \* bound: Sends and Triggers of the client
    Exitable,  \* who may leave: "client", "receiver"
    Killable,  \* who may be killed: "client", "front", "back"
    MayCut,    \* may the network fail, so that nothing arrives any more?
    Hows       \* the values of how

ASSUME ConduitAssumption ==
    /\ Limit \in Nat /\ MaxAsks \in Nat /\ MayCut \in BOOLEAN
    /\ Exitable \subseteq {"client", "receiver"}
    /\ Killable \subseteq {"client", "front", "back"}
    /\ Hows \subseteq {"locate", "attach"}

VARIABLES
    how,
    client, asked, answer,   \* the client, its Sends and Triggers, its reply fifo
    front, ffifo,            \* the front and its receive fifo
    named,                   \* the name of an attached front: "no", "yes", "renamed"
    back, yfifo,             \* the back, its reply fifo and segment
    toBack, toFront, link,   \* the connection
    receiver, vfifo, taken, got

cVars == <<client, asked, answer>>
fVars == <<front, ffifo, named>>
bVars == <<back, yfifo>>
wires == <<toBack, toFront, link>>
vVars == <<receiver, vfifo, taken, got>>
vars == <<how, cVars, fVars, bVars, wires, vVars>>

Kind == {"locate", "found", "absent", "attach", "send", "reply", "proxy", "clone",
         "alive", "error", "close"}
Message == [kind : Kind, n : Nat]
Msg(k) == [kind |-> k, n |-> 0]

TypeOK ==
    /\ how \in Hows /\ link \in {"up", "cut"} /\ named \in {"no", "yes", "renamed"}
    /\ client \in {"start", "asking", "idle", "sending", "refused", "closing", "exited",
                   "killed"}
    /\ asked \in 0..MaxAsks
    /\ front \in [at : {"none", "forked", "child", "waiting", "up", "stray", "hung",
                        "faulted", "gone", "killed"},
                  holds : BOOLEAN, receiving : BOOLEAN, missed : 0..Limit]
    /\ back \in [at : {"none", "forked", "child", "waiting", "up", "stray", "gone"},
                 missed : 0..Limit]
    /\ receiver \in {"start", "asking", "up", "refused", "gone"}
    /\ \A q \in {answer, ffifo, yfifo, toBack, toFront, vfifo} : q \in Seq(Message)
    /\ taken \in 0..MaxAsks /\ got \subseteq 1..MaxAsks

Init ==
    /\ how \in Hows /\ link = "up" /\ named = "no"
    /\ client = "start" /\ asked = 0 /\ answer = <<>>
    /\ front = [at |-> IF how = "locate" THEN "child" ELSE "none", holds |-> FALSE,
                receiving |-> FALSE, missed |-> 0]
    /\ back = [at |-> IF how = "attach" THEN "child" ELSE "none", missed |-> 0]
    /\ ffifo = <<>> /\ yfifo = <<>> /\ toBack = <<>> /\ toFront = <<>>
    /\ receiver \in IF how = "attach" THEN {"start"} ELSE {"up", "gone"}
    /\ vfifo = <<>> /\ taken = 0 /\ got = {}

-----------------------------------------------------------------------------
(* The connection and the processes as the kernel sees them.               *)

\* A stray connector keeps its socket, its name and its fifo, and reads none.
FEnded == front.at \in {"faulted", "gone", "killed"}
BEnded == back.at = "gone"
ClientGone == client \in {"exited", "killed"}

FReadable == link = "up" /\ (toFront # <<>> \/ BEnded)
BReadable == link = "up" /\ (toBack # <<>> \/ FEnded)

-----------------------------------------------------------------------------
(* The client.                                                             *)

FOpen == ~ FEnded /\ front.at # "none"
Puts(m) == ffifo' = Append(ffifo, m)

\* The client asks the connector, or finds the attached name: then it triggers
\* PROXY_CLONE and has what it looked for.
ClientLocate ==
    /\ client = "start"
    /\ \/ /\ how = "locate" /\ FOpen
          /\ client' = "asking" /\ Puts(Msg("locate"))
       \/ /\ how = "attach" /\ named = "yes" /\ FOpen
          /\ client' = "idle" /\ Puts(Msg("clone"))
       \/ /\ how = "attach" /\ ~ (named = "yes" /\ FOpen)
          /\ client' = "refused" /\ UNCHANGED ffifo
    /\ UNCHANGED <<how, asked, answer, front, named, bVars, wires, vVars>>

ClientSend ==
    /\ client = "idle" /\ asked < MaxAsks
    /\ asked' = asked + 1
    /\ \/ FOpen /\ Puts([kind |-> "send", n |-> asked']) /\ client' = "sending"
       \/ ~ FOpen /\ UNCHANGED <<ffifo, client>>
    /\ UNCHANGED <<how, answer, front, named, bVars, wires, vVars>>

ClientTrigger ==
    /\ client = "idle" /\ asked < MaxAsks /\ FOpen
    /\ asked' = asked + 1 /\ Puts(Msg("proxy"))
    /\ UNCHANGED <<how, client, answer, front, named, bVars, wires, vVars>>

ClientReturn ==
    /\ client \in {"asking", "sending"} /\ answer # <<>>
    /\ client' = IF client = "sending" \/ Head(answer).kind = "found" THEN "idle" ELSE "refused"
    /\ answer' = Tail(answer)
    /\ UNCHANGED <<how, asked, fVars, bVars, wires, vVars>>

ClientExit ==
    /\ "client" \in Exitable /\ client \in {"asking", "idle", "sending"}
    /\ client' = "closing" /\ answer' = <<>>
    /\ IF client # "asking" /\ FOpen THEN Puts(Msg("close")) ELSE UNCHANGED ffifo
    /\ UNCHANGED <<how, asked, front, named, bVars, wires, vVars>>

ClientRemove ==
    /\ client = "closing" /\ client' = "exited"
    /\ UNCHANGED <<how, asked, answer, fVars, bVars, wires, vVars>>

ClientKill ==
    /\ "client" \in Killable /\ client \in {"asking", "idle", "sending"}
    /\ client' = "killed" /\ answer' = <<>>
    /\ UNCHANGED <<how, asked, fVars, bVars, wires, vVars>>

-----------------------------------------------------------------------------
(* What the front does with the client.                                    *)

\* Reply or ReplyError, see TcpSurrogate; front is f after it.
Tell(m, f, failed) ==
    \/ /\ client \in {"asking", "sending"}
       /\ answer' = Append(answer, m) /\ front' = [f EXCEPT !.holds = FALSE]
    \/ /\ client \in {"closing", "killed"}
       /\ front' = [f EXCEPT !.holds = FALSE, !.at = "hung"] /\ UNCHANGED answer
    \/ /\ client = "exited"
       /\ front' = [f EXCEPT !.holds = FALSE, !.at = failed] /\ UNCHANGED answer

At(f, where) == [f EXCEPT !.at = where]

\* exit releases the client.
FExits == \/ front.holds /\ Tell(Msg("error"), At(front, "gone"), "gone")
          \/ ~ front.holds /\ front' = At(front, "gone") /\ UNCHANGED answer

\* Mutant: exit without a word.
FFailsSilently == front' = At(front, "gone") /\ UNCHANGED answer

\* ReplyError(sender), which faults when sender was answered before, or there
\* was none, and exit.
FFails == \/ front.holds /\ Tell(Msg("error"), At(front, "gone"), "gone")
          \/ ~ front.holds /\ front' = At(front, "faulted") /\ UNCHANGED answer

\* Receive of the head of the fifo, which faults on the segment of a client
\* that is gone.
FTakes(kind) == ffifo # <<>> /\ Head(ffifo).kind = kind /\ ffifo' = Tail(ffifo)
FLoses(kind) ==
    /\ FTakes(kind) /\ ClientGone
    /\ front' = At(front, "faulted") /\ UNCHANGED <<answer, toBack>>

\* A write to a partner that is gone may go through once more.
FWrites(m) == toBack' = Append(toBack, m)
FWriteFails == link = "up" /\ BEnded /\ UNCHANGED toBack

-----------------------------------------------------------------------------
(* Setting up.                                                             *)

\* Mutant: nobody is told.
RefusesSilently == front' = At(front, "stray") /\ UNCHANGED answer

\* replyFailure, and back into the loop of the parent.
Refuses == Tell(Msg("absent"), At(front, "stray"), "stray")

\* surrogate_connector as surrogate_r: connect and pass the question on.
FConnect ==
    /\ how = "locate" /\ front.at = "child"
    /\ \/ FLoses("locate")
       \/ /\ FTakes("locate") /\ ~ ClientGone
          /\ \/ FWrites(Msg("locate")) /\ front' = [front EXCEPT !.at = "waiting", !.holds = TRUE]
                /\ UNCHANGED answer
             \/ Refuses /\ UNCHANGED toBack
    /\ UNCHANGED <<how, client, asked, named, bVars, toFront, link, vVars>>

\* surrogate_r passes the answer on, whatever it is; no answer is a failure.
FLocated ==
    /\ how = "locate" /\ front.at = "waiting"
    /\ \/ /\ link = "up" /\ toFront # <<>> /\ toFront' = Tail(toFront)
          /\ Tell(Head(toFront), [front EXCEPT !.at = "up", !.receiving = TRUE], "stray")
       \/ /\ toFront = <<>> \/ link = "cut"
          /\ Refuses /\ UNCHANGED toFront
    /\ UNCHANGED <<how, client, asked, ffifo, named, bVars, toBack, link, vVars>>

\* surrogate_listener forks surrogate_s, or fails to.
BFork ==
    /\ how = "locate" /\ back.at = "none" /\ link = "up" /\ toBack # <<>>
    /\ toBack' = Tail(toBack)
    /\ \/ back' = At(back, "forked") /\ UNCHANGED toFront
       \/ back' = At(back, "gone") /\ toFront' = Append(toFront, Msg("absent"))
    /\ UNCHANGED <<how, cVars, fVars, yfifo, link, vVars>>

\* locateLocalName
ReceiverFound == receiver = "up"

\* surrogate_s locates the receiver and tells.
BLocate ==
    /\ back.at = "forked"
    /\ toFront' = Append(toFront, Msg(IF ReceiverFound THEN "found" ELSE "absent"))
    /\ back' = At(back, IF ReceiverFound THEN "up" ELSE "gone")
    /\ UNCHANGED <<how, cVars, fVars, yfifo, toBack, link, vVars>>

\* name_attach at the receiver: the local part, then the connector is asked.
ReceiverAttach ==
    /\ how = "attach" /\ receiver = "start"
    /\ receiver' = "asking"
    /\ UNCHANGED <<how, cVars, fVars, bVars, wires, vfifo, taken, got>>

\* surrogate_connector as surrogate_st: connect and pass the question on.
BConnect ==
    /\ how = "attach" /\ back.at = "child" /\ receiver = "asking"
    /\ \/ /\ toFront' = Append(toFront, Msg("attach"))
          /\ back' = At(back, "waiting") /\ UNCHANGED receiver
       \/ receiver' = "refused" /\ back' = At(back, "stray") /\ UNCHANGED toFront
    /\ UNCHANGED <<how, cVars, fVars, yfifo, toBack, link, vfifo, taken, got>>

\* surrogate_listener forks surrogate_rt, or fails to.
FFork ==
    /\ how = "attach" /\ front.at = "none" /\ link = "up" /\ toFront # <<>>
    /\ toFront' = Tail(toFront)
    /\ \/ front' = At(front, "forked") /\ UNCHANGED toBack
       \/ front' = At(front, "gone") /\ toBack' = Append(toBack, Msg("absent"))
    /\ UNCHANGED <<how, cVars, ffifo, named, bVars, link, vVars>>

Attached(m) == m.kind = "found"

\* surrogate_rt attaches the name, unless it is taken, and tells.
FAttach ==
    /\ front.at = "forked"
    /\ \/ /\ front' = [front EXCEPT !.at = "up", !.receiving = TRUE]
          /\ named' = "yes" /\ toBack' = Append(toBack, Msg("found"))
       \/ /\ front' = At(front, "gone")
          /\ toBack' = toBack \o <<Msg("absent"), Msg("absent")>> /\ UNCHANGED named
    /\ UNCHANGED <<how, cVars, ffifo, bVars, toFront, link, vVars>>

\* surrogate_st passes the answer on and locates the receiver, which may have left
\* again: then it too goes back into the loop of the parent.
BAttached ==
    /\ how = "attach" /\ back.at = "waiting"
    /\ \/ /\ link = "up" /\ toBack # <<>> /\ toBack' = Tail(toBack)
          /\ receiver' = IF Attached(Head(toBack)) THEN "up" ELSE "refused"
          /\ \E at \in {"up", "stray"} : back' = At(back, at)
       \/ /\ toBack = <<>> \/ link = "cut"
          /\ receiver' = "refused" /\ back' = At(back, "stray") /\ UNCHANGED toBack
    /\ UNCHANGED <<how, cVars, fVars, yfifo, toFront, link, vfifo, taken, got>>

-----------------------------------------------------------------------------
(* The front in its loop.                                                  *)

\* Mutant: the toggle stays where it is.
Listening(wasReceiving) == wasReceiving

\* hndlSendMsg turns the toggle off, and surrogate_rt on again.
AfterSend(wasReceiving) == how = "attach"

\* surrogate_r looks at its fifo first, surrogate_rt at the socket.
FHears == front.at = "up" /\ front.receiving /\ (how = "attach" => ~ FReadable)
FListens == front.at = "up" /\ FReadable /\ (how = "locate" => ~ front.receiving \/ ffifo = <<>>)

\* hndlSendMsg
FSend ==
    /\ FHears
    /\ \/ FLoses("send")
       \/ /\ FTakes("send") /\ ~ ClientGone
          /\ \/ FWrites(Head(ffifo)) /\ UNCHANGED answer
                /\ front' = [front EXCEPT !.holds = TRUE, !.receiving = AfterSend(@)]
             \/ FWriteFails /\ Tell(Msg("error"), At(front, "gone"), "gone")
    /\ UNCHANGED <<how, client, asked, named, bVars, toFront, link, vVars>>

\* PROXY_CLONE renames the front, so that it is not found again.
NameAfter(k) == IF k = "clone" THEN "renamed" ELSE named

FProxy ==
    /\ FHears
    /\ \E k \in {"proxy", "clone"} :
          /\ FTakes(k)
          /\ named' = NameAfter(k)
    /\ \/ FWrites(Head(ffifo)) /\ UNCHANGED <<front, answer>>
       \/ FWriteFails /\ FExits
    /\ UNCHANGED <<how, client, asked, bVars, toFront, link, vVars>>

\* PROXY_SHUTDOWN
FClose ==
    /\ FHears /\ FTakes("close")
    /\ FWrites(Msg("close")) \/ FWriteFails
    /\ FExits
    /\ UNCHANGED <<how, client, asked, named, bVars, toFront, link, vVars>>

\* hndlRemoteMsg
FRemote ==
    /\ FListens
    /\ \/ /\ toFront # <<>> /\ toFront' = Tail(toFront)
          /\ LET m == Head(toFront) IN
             \/ /\ m.kind = "reply"
                /\ Tell(m, [front EXCEPT !.receiving = TRUE], "faulted")
             \/ m.kind = "alive" /\ front' = [front EXCEPT !.missed = 0] /\ UNCHANGED answer
             \/ m.kind = "error" /\ FFails
       \/ toFront = <<>> /\ FFails /\ UNCHANGED toFront
    /\ UNCHANGED <<how, client, asked, ffifo, named, bVars, toBack, link, vVars>>

\* Mutant: the counter is not looked at.
NeverTooMany(missed) == FALSE

TooMany(missed) == missed > Limit

\* Mutant: the client is not looked for.
SenderNeverDies == FALSE

\* simplCheckProcess, of surrogate_r only.
SenderDied == how = "locate" /\ ClientGone

KeepAlive == FWrites(Msg("alive"))

\* The select times out; surrogate_rt does not look after its client.
FTimeout ==
    /\ front.at = "up" /\ ~ FReadable /\ (front.receiving => ffifo = <<>>)
    /\ \/ /\ SenderDied
          /\ FWrites(Msg("close"))
          /\ front' = [front EXCEPT !.at = "gone", !.holds = FALSE] /\ UNCHANGED answer
       \/ /\ ~ SenderDied
          /\ KeepAlive
          /\ \/ TooMany(front.missed + 1) /\ FExits
             \/ /\ ~ TooMany(front.missed + 1)
                /\ front' = [front EXCEPT !.missed = @ + 1] /\ UNCHANGED answer
    /\ UNCHANGED <<how, client, asked, ffifo, named, bVars, toFront, link, vVars>>

FKill ==
    /\ "front" \in Killable /\ front.at \in {"forked", "waiting", "up"}
    /\ front' = [front EXCEPT !.at = "killed", !.holds = FALSE]
    /\ UNCHANGED <<how, cVars, ffifo, named, bVars, wires, vVars>>

-----------------------------------------------------------------------------
(* The back in its loop.                                                   *)

\* errorReply and exit.
BFails == back' = At(back, "gone") /\ toFront' = Append(toFront, Msg("error"))

\* hndlMessage.  A clone is asked of the protocol _simplTCP, which is that of
\* surrogates/tcp: no child of this one is ever given, and those of the other
\* refuse the message.
BMessage ==
    /\ back.at = "up" /\ link = "up" /\ toBack # <<>> /\ toBack' = Tail(toBack)
    /\ LET m == Head(toBack) IN
       \/ /\ m.kind \in {"send", "proxy"} /\ receiver = "up"
          /\ vfifo' = Append(vfifo, m) /\ UNCHANGED <<back, toFront>>
       \/ /\ \/ m.kind \in {"send", "proxy"} /\ receiver # "up"
             \/ m.kind \in {"clone", "absent"}
          /\ BFails /\ UNCHANGED vfifo
       \/ /\ m.kind = "alive"
          /\ back' = [back EXCEPT !.missed = 0]
          /\ toFront' = Append(toFront, m) /\ UNCHANGED vfifo
       \/ /\ m.kind = "close"
          /\ back' = At(back, "gone") /\ UNCHANGED <<toFront, vfifo>>
    /\ UNCHANGED <<how, cVars, fVars, yfifo, link, receiver, taken, got>>

\* The end of the stream is a read error.
BEnd ==
    /\ back.at = "up" /\ BReadable /\ toBack = <<>>
    /\ BFails
    /\ UNCHANGED <<how, cVars, fVars, yfifo, toBack, link, vVars>>

\* Mutant: the error flag of the reply is not looked at.
PassedUnread(y) == TRUE

Passed(y) == y.kind = "reply"

\* hndlReply
BReply ==
    /\ back.at = "up" /\ ~ BReadable /\ yfifo # <<>>
    /\ yfifo' = Tail(yfifo)
    /\ \/ /\ Passed(Head(yfifo)) /\ UNCHANGED back
          /\ toFront' = Append(toFront, [Head(yfifo) EXCEPT !.kind = "reply"])
       \/ ~ Passed(Head(yfifo)) /\ BFails
    /\ UNCHANGED <<how, cVars, fVars, toBack, link, vVars>>

BTimeout ==
    /\ back.at = "up" /\ ~ BReadable /\ yfifo = <<>>
    /\ IF receiver = "gone" \/ TooMany(back.missed + 1)
       THEN back' = At(back, "gone") ELSE back' = [back EXCEPT !.missed = @ + 1]
    /\ UNCHANGED <<how, cVars, fVars, yfifo, wires, vVars>>

BKill ==
    /\ "back" \in Killable /\ back.at \in {"forked", "up"}
    /\ back' = At(back, "gone")
    /\ UNCHANGED <<how, cVars, fVars, yfifo, wires, vVars>>

-----------------------------------------------------------------------------
(* The receiver and the network.                                           *)

Take ==
    /\ receiver = "up" /\ back.at = "up" /\ vfifo # <<>> /\ taken = 0
    /\ vfifo' = Tail(vfifo)
    /\ taken' = Head(vfifo).n
    /\ got' = IF taken' = 0 THEN got ELSE got \cup {taken'}
    /\ UNCHANGED <<how, cVars, fVars, bVars, wires, receiver>>

Answer ==
    /\ receiver = "up" /\ taken # 0 /\ taken' = 0
    /\ \E y \in {[kind |-> "reply", n |-> taken], Msg("error")} :
          yfifo' = IF back.at = "up" THEN Append(yfifo, y) ELSE yfifo
    /\ UNCHANGED <<how, cVars, fVars, back, wires, receiver, vfifo, got>>

ReceiverExit ==
    /\ "receiver" \in Exitable /\ receiver = "up"
    /\ receiver' = "gone" /\ vfifo' = <<>> /\ taken' = 0
    /\ yfifo' = IF taken # 0 /\ back.at = "up" THEN Append(yfifo, Msg("error")) ELSE yfifo
    /\ UNCHANGED <<how, cVars, fVars, back, wires, got>>

Cut ==
    /\ MayCut /\ link = "up" /\ link' = "cut"
    /\ UNCHANGED <<how, cVars, fVars, bVars, toBack, toFront, vVars>>

-----------------------------------------------------------------------------
FStep == FConnect \/ FLocated \/ FFork \/ FAttach \/ FSend \/ FProxy \/ FClose \/ FRemote
BStep == BFork \/ BLocate \/ BConnect \/ BAttached \/ BMessage \/ BEnd \/ BReply
Serve == Take \/ Answer

Next ==
    \/ ClientLocate \/ ClientSend \/ ClientTrigger \/ ClientReturn \/ ClientExit
    \/ ClientRemove \/ ClientKill \/ FStep \/ FTimeout \/ FKill
    \/ ReceiverAttach \/ BStep \/ BTimeout \/ BKill \/ Serve \/ ReceiverExit \/ Cut

Spec == Init /\ [][Next]_vars

\* As in TcpSurrogate.
Fairness ==
    /\ WF_vars(ClientReturn) /\ WF_vars(ClientRemove)
    /\ WF_vars(FStep) /\ WF_vars(BStep) /\ WF_vars(Serve)
    /\ SF_vars(BReply) /\ SF_vars(FTimeout) /\ SF_vars(BTimeout)

FairSpec == Spec /\ Fairness

-----------------------------------------------------------------------------
\* A Send that succeeds was received by the receiver at the other end, and
\* returns the reply to this very request; name_attach succeeds at the receiver
\* only when the name was attached at the other end.
EndToEnd ==
    /\ client = "sending" /\ answer # <<>> /\ Head(answer).kind = "reply" =>
           Head(answer).n = asked /\ asked \in got
    /\ how = "attach" /\ receiver = "up" => named # "no"

Requests(q) == Cardinality({i \in DOMAIN q : q[i].kind \in {"send", "reply", "error"}})
InTransit ==
    Requests(toBack) + Requests(vfifo) + (IF taken # 0 THEN 1 ELSE 0)
    + Requests(yfifo) + Requests(toFront)

\* The toggle of surrogate_r says whether a request is out: it is off exactly
\* while the client is held, and while the partners are well one request or
\* answer is then on its way.
ToggleIsRight ==
    how = "locate" /\ front.at = "up" =>
        /\ front.receiving = ~ front.holds
        /\ back.at = "up" /\ receiver = "up" => InTransit = (IF front.receiving THEN 0 ELSE 1)

\* A connector that returned into the loop of its parent left nobody waiting
\* for it, neither a client nor a program that attaches a name.
StrayHoldsNobody ==
    /\ front.at = "stray" => ~ front.holds /\ (client = "asking" => answer # <<>>)
    /\ back.at = "stray" => receiver # "asking"

Stranded == FEnded /\ \E i \in DOMAIN ffifo : ffifo[i].kind = "send"

\* Every Send that the front has received returns, unless the front is killed.
SendReturns ==
    client = "sending" ~> client # "sending" \/ Stranded \/ front.at = "killed"

\* A client that leaves takes both ends with it, and so does a receiver.
BothEnd ==
    ClientGone \/ (how = "attach" /\ receiver = "gone") ~>
        /\ FEnded \/ front.at \in {"none", "hung", "stray"}
        /\ back.at \in {"none", "gone", "stray"}

\* "remember the message for cloning operation": a back that is asked for a
\* clone stays, for the client that is about to send.
CloneKeepsConduit ==
    [][BMessage /\ Head(toBack).kind = "clone" => back'.at = "up"]_vars
=============================================================================
