---------------------------- MODULE TcpSurrogate ----------------------------
(***************************************************************************)
(* surrogates/tcp: the conduit between a client on one host and a receiver *)
(* on another.  surrogate_r stands in for the receiver on the client's     *)
(* host, surrogate_s for the client on the receiver's, and one TCP         *)
(* connection joins them.  A step is one turn of a select loop with the    *)
(* whole handler it calls.                                                 *)
(*                                                                         *)
(* The local halves are taken at the level of SendReceiveReply: a Send     *)
(* puts a message in a fifo and waits for one answer.  What the receiver   *)
(* does about a surrogate_s that is gone is SimplIpc's subject.            *)
(***************************************************************************)
EXTENDS Naturals, Sequences, FiniteSets, SequencesExt

CONSTANTS
    Limit,        \* KEEP_ALIVE_FAIL_LIMIT
    Drift,        \* time-outs of s between two time-outs of r, at most
    MaxSends,     \* bound: Sends of the client
    MaxTriggers,  \* bound: Triggers of the client
    Killable,     \* who may get an untrappable signal
    Exitable,     \* who may exit or get a trapped signal
    MayCut,       \* may the network fail, so that nothing arrives any more?
    Prompts       \* the values of prompt

ASSUME BoundsAssumption ==
    /\ Limit \in Nat /\ Drift \in Nat /\ MaxSends \in Nat /\ MaxTriggers \in Nat
ASSUME EnvironmentAssumption ==
    /\ Killable \subseteq {"client", "r", "s", "receiver"}
    /\ Exitable \subseteq {"client", "receiver"}
    /\ MayCut \in BOOLEAN /\ Prompts \subseteq BOOLEAN

VARIABLES
    prompt,    \* do time-outs come late, when all that is on its way is done?
    client,    \* where the client is
    asked,     \* Sends made: the content of the current request
    kicked,    \* Triggers made
    answer,    \* reply fifo and segment of the client
    r, rfifo,  \* where surrogate_r is, and its receive fifo
    holds,     \* has surrogate_r received the client and not answered it?
    rMissed,   \* kaCounter of surrogate_r
    s, yfifo,  \* where surrogate_s is, its reply fifo and segment
    sMissed,   \* kaCounter of surrogate_s
    lead,      \* time-outs of s since the last one of r
    toS, toR,  \* the two directions of the connection
    link,      \* does the network deliver?
    receiver,  \* where the receiver is
    vfifo,     \* its receive fifo
    taken,     \* the request it is working on, 0 for none
    sent, got  \* what the client has put in and the receiver taken out so far

cVars == <<client, asked, kicked, sent>>
rVars == <<r, rfifo, holds, rMissed>>
sVars == <<s, yfifo, sMissed>>
vVars == <<receiver, vfifo, taken, got>>
vars == <<prompt, cVars, answer, rVars, sVars, lead, toS, toR, link, vVars>>

\* A message or an answer; proxies and control messages carry no request.
Kind == {"locate", "found", "absent", "send", "reply", "proxy", "alive", "error", "close"}
Message == [kind : Kind, n : Nat]
Msg(k) == [kind |-> k, n |-> 0]

TypeOK ==
    /\ prompt \in BOOLEAN /\ link \in {"up", "cut"}
    /\ client \in {"start", "locating", "idle", "sending", "refused", "closing",
                   "exited", "killed"}
    /\ r \in {"attached", "locating", "up", "hung", "faulted", "gone", "killed"}
    /\ s \in {"none", "forked", "up", "gone", "killed"}
    /\ receiver \in {"up", "gone", "killed"}
    /\ \A q \in {answer, rfifo, yfifo, toS, toR, vfifo} : q \in Seq(Message)
    /\ holds \in BOOLEAN
    /\ rMissed \in 0..Limit /\ sMissed \in 0..Limit /\ lead \in Nat
    /\ asked \in Nat /\ kicked \in Nat /\ taken \in Nat
    /\ sent \in Seq(Nat) /\ got \in Seq(Nat)

\* surrogate_r has attached its name and the router has named it to the client;
\* the receiver may not be there at all.
Init ==
    /\ prompt \in Prompts /\ link = "up"
    /\ client = "start" /\ asked = 0 /\ kicked = 0 /\ answer = <<>> /\ sent = <<>>
    /\ r = "attached" /\ rfifo = <<>> /\ holds = FALSE /\ rMissed = 0
    /\ s = "none" /\ yfifo = <<>> /\ sMissed = 0 /\ lead = 0
    /\ toS = <<>> /\ toR = <<>>
    /\ receiver \in {"up", "gone"} /\ vfifo = <<>> /\ taken = 0 /\ got = <<>>

-----------------------------------------------------------------------------
(* The connection and the processes as the kernel sees them.               *)

RClosed == r \in {"faulted", "gone", "killed"}
SClosed == s \in {"gone", "killed"}

\* select finds the socket readable: data, or the end of the stream.
RReadable == link = "up" /\ (toR # <<>> \/ SClosed)
SReadable == link = "up" /\ (toS # <<>> \/ RClosed)

\* Mutants: nobody looks after the process at the other end of the fifo.
ClientForgotten == FALSE
ReceiverForgotten == FALSE

\* simplCheckProcess finds no process.
ClientGone == client \in {"exited", "killed"}
ReceiverGone == receiver \in {"gone", "killed"}

\* Mutants: the counter is not looked at; it is not set back.
NeverTooMany(missed) == FALSE
HeardNot(missed) == missed

TooMany(missed) == missed > Limit
Heard(missed) == 0

-----------------------------------------------------------------------------
(* The client: _simpl_net_name_locate, Send, Trigger and name_detach.      *)

ROpen == ~ RClosed

Locate ==
    /\ client = "start" /\ ROpen
    /\ client' = "locating"
    /\ rfifo' = Append(rfifo, Msg("locate"))
    /\ UNCHANGED <<prompt, asked, kicked, sent, answer, r, holds, rMissed, sVars,
                   lead, toS, toR, link, vVars>>

ClientSend ==
    /\ client = "idle" /\ asked < MaxSends
    /\ asked' = asked + 1
    /\ \/ /\ ROpen
          /\ rfifo' = Append(rfifo, [kind |-> "send", n |-> asked + 1])
          /\ sent' = Append(sent, asked + 1)
          /\ client' = "sending"
       \/ ~ ROpen /\ UNCHANGED <<rfifo, sent, client>>
    /\ UNCHANGED <<prompt, kicked, answer, r, holds, rMissed, sVars, lead, toS,
                   toR, link, vVars>>

ClientTrigger ==
    /\ client = "idle" /\ kicked < MaxTriggers /\ ROpen
    /\ kicked' = kicked + 1
    /\ rfifo' = Append(rfifo, Msg("proxy"))
    /\ sent' = Append(sent, 0)
    /\ UNCHANGED <<prompt, client, asked, answer, r, holds, rMissed, sVars, lead,
                   toS, toR, link, vVars>>

\* The Send of the request or of the name locate message returns.
ClientReturn ==
    /\ client \in {"locating", "sending"} /\ answer # <<>>
    /\ client' = IF client = "sending" \/ Head(answer).kind = "found"
                 THEN "idle" ELSE "refused"
    /\ answer' = Tail(answer)
    /\ UNCHANGED <<prompt, asked, kicked, sent, rVars, sVars, lead, toS, toR,
                   link, vVars>>

\* name_detach triggers PROXY_SHUTDOWN at every surrogate it has located and
\* closes the fifos; it removes them in the next step.
ClientExit ==
    /\ "client" \in Exitable /\ client \in {"locating", "idle", "sending", "refused"}
    /\ client' = "closing"
    /\ answer' = <<>>
    /\ rfifo' = IF client \in {"idle", "sending"} /\ ROpen
                THEN Append(rfifo, Msg("close")) ELSE rfifo
    /\ UNCHANGED <<prompt, asked, kicked, sent, r, holds, rMissed, sVars, lead,
                   toS, toR, link, vVars>>

ClientRemove ==
    /\ client = "closing"
    /\ client' = "exited"
    /\ UNCHANGED <<prompt, asked, kicked, sent, answer, rVars, sVars, lead, toS,
                   toR, link, vVars>>

ClientKill ==
    /\ "client" \in Killable /\ client \in {"locating", "idle", "sending", "refused"}
    /\ client' = "killed"
    /\ answer' = <<>>
    /\ UNCHANGED <<prompt, asked, kicked, sent, rVars, sVars, lead, toS, toR,
                   link, vVars>>

-----------------------------------------------------------------------------
(* surrogate_r.                                                            *)

\* Reply or ReplyError to the client, after which surrogate_r is at next; the
\* open waits for ever when nobody reads the fifo, and fails when it is gone.
Tell(m, next, failed) ==
    /\ holds' = FALSE
    /\ \/ client \in {"locating", "sending"} /\ answer' = Append(answer, m) /\ r' = next
       \/ client \in {"closing", "killed"} /\ UNCHANGED answer /\ r' = "hung"
       \/ client = "exited" /\ UNCHANGED answer /\ r' = failed

\* A Reply that fails leaves a detached sender in the table, and name_detach
\* at exit reads it.
RAnswer(m, next) == Tell(m, next, "faulted")

\* exit: name_detach releases the sender it holds.
RExit ==
    \/ holds /\ Tell(Msg("error"), "gone", "gone")
    \/ ~ holds /\ r' = "gone" /\ UNCHANGED <<holds, answer>>

\* ReplyError(sender) and exit, for the sender received last: when that one
\* was answered before, it is read through a pointer that was detached.
RFail ==
    \/ holds /\ Tell(Msg("error"), "gone", "gone")
    \/ ~ holds /\ r' = "faulted" /\ UNCHANGED <<holds, answer>>

\* A write to the socket of a peer that is gone may go through once more.
RWrites(m) == toS' = Append(toS, m)
RWriteFails == link = "up" /\ SClosed /\ UNCHANGED toS

\* Receive of the head of the fifo, which faults when the sender's segment is
\* gone with it.
RTakes(kind) == rfifo # <<>> /\ Head(rfifo).kind = kind /\ rfifo' = Tail(rfifo)
RLoses(kind) ==
    /\ RTakes(kind) /\ ClientGone
    /\ r' = "faulted" /\ UNCHANGED <<holds, answer, toS>>

\* hndlRemoteNameLocate, up to the select: connect, and pass the question on.
RLocate ==
    /\ r = "attached"
    /\ \/ RLoses("locate")
       \/ /\ RTakes("locate") /\ ~ ClientGone
          /\ \/ RWrites(Msg("locate")) /\ r' = "locating" /\ holds' = TRUE
                /\ UNCHANGED answer
             \/ RAnswer(Msg("absent"), "gone") /\ UNCHANGED toS
    /\ UNCHANGED <<prompt, cVars, rMissed, sVars, lead, toR, link, vVars>>

\* ... and after it: the answer is passed on, and surrogate_r stays, also when
\* no receiver was found.
RLocated ==
    /\ r = "locating" /\ RReadable
    /\ \/ toR # <<>> /\ toR' = Tail(toR) /\ RAnswer(Head(toR), "up")
       \/ toR = <<>> /\ RAnswer(Msg("absent"), "gone") /\ UNCHANGED toR
    /\ UNCHANGED <<prompt, cVars, rfifo, rMissed, sVars, lead, toS, link, vVars>>

\* Nothing more will come for it.
Silent == link = "cut" \/ (toS = <<>> /\ toR = <<>> /\ s \in {"up", "gone", "killed"})

\* namelocTimeout runs out.
RLocateTimeout ==
    /\ r = "locating" /\ ~ RReadable
    /\ prompt => Silent
    /\ RAnswer(Msg("absent"), "gone")
    /\ UNCHANGED <<prompt, cVars, rfifo, rMissed, sVars, lead, toS, toR, link, vVars>>

\* hndlSendMsg and hndlProxy; the fifo goes before the socket.
RSend ==
    /\ r = "up"
    /\ \/ RLoses("send")
       \/ /\ RTakes("send") /\ ~ ClientGone
          /\ \/ RWrites(Head(rfifo)) /\ holds' = TRUE /\ UNCHANGED <<r, answer>>
             \/ RWriteFails /\ Tell(Msg("error"), "gone", "gone")
    /\ UNCHANGED <<prompt, cVars, rMissed, sVars, lead, toR, link, vVars>>

RProxy ==
    /\ r = "up" /\ RTakes("proxy")
    /\ \/ RWrites(Head(rfifo)) /\ UNCHANGED <<r, holds, answer>>
       \/ RWriteFails /\ RExit
    /\ UNCHANGED <<prompt, cVars, rMissed, sVars, lead, toR, link, vVars>>

\* PROXY_SHUTDOWN: hndlClose and exit.
RClose ==
    /\ r = "up" /\ RTakes("close")
    /\ RWrites(Msg("close")) \/ RWriteFails
    /\ RExit
    /\ UNCHANGED <<prompt, cVars, rMissed, sVars, lead, toR, link, vVars>>

\* hndlRemoteMsg
RRemote ==
    /\ r = "up" /\ rfifo = <<>> /\ RReadable
    /\ \/ /\ toR # <<>> /\ toR' = Tail(toR)
          /\ \/ Head(toR).kind = "reply" /\ RAnswer(Head(toR), "up") /\ UNCHANGED rMissed
             \/ Head(toR).kind = "alive" /\ rMissed' = Heard(rMissed)
                /\ UNCHANGED <<r, holds, answer>>
             \/ Head(toR).kind = "error" /\ RFail /\ UNCHANGED rMissed
       \/ toR = <<>> /\ RFail /\ UNCHANGED <<toR, rMissed>>
    /\ UNCHANGED <<prompt, cVars, rfifo, sVars, lead, toS, link, vVars>>

\* The select times out: look after the client, then after the partner.
RTimeout ==
    /\ r = "up" /\ rfifo = <<>> /\ ~ RReadable
    /\ prompt => Silent
    /\ lead' = 0
    /\ \/ /\ ClientGone
          /\ toS' = Append(toS, Msg("close"))
          /\ r' = "gone" /\ holds' = FALSE
          /\ UNCHANGED <<answer, rMissed>>
       \/ /\ ~ ClientGone
          /\ toS' = Append(toS, Msg("alive"))
          /\ \/ /\ TooMany(rMissed + 1)
                /\ RExit /\ UNCHANGED rMissed
             \/ /\ ~ TooMany(rMissed + 1)
                /\ rMissed' = rMissed + 1
                /\ UNCHANGED <<r, holds, answer>>
    /\ UNCHANGED <<prompt, cVars, rfifo, sVars, toR, link, vVars>>

RKill ==
    /\ "r" \in Killable /\ r \in {"attached", "locating", "up"}
    /\ r' = "killed" /\ holds' = FALSE
    /\ UNCHANGED <<prompt, cVars, answer, rfifo, rMissed, sVars, lead, toS, toR,
                   link, vVars>>

-----------------------------------------------------------------------------
(* surrogate_S and surrogate_s.                                            *)

\* surrogate_S reads the header and forks surrogate_s, or answers for it.
SFork ==
    /\ s = "none" /\ link = "up" /\ toS # <<>>
    /\ toS' = Tail(toS)
    /\ \/ s' = "forked" /\ UNCHANGED toR
       \/ s' = "gone" /\ toR' = Append(toR, Msg("absent"))
    /\ UNCHANGED <<prompt, cVars, answer, rVars, yfifo, sMissed, lead, link, vVars>>

\* surrogate_s locates the receiver and tells, and goes when there is none.
SLocate ==
    /\ s = "forked"
    /\ \/ /\ ~ ReceiverGone
          /\ toR' = Append(toR, Msg("found"))
          /\ s' = "up"
       \/ /\ ReceiverGone
          /\ toR' = Append(toR, Msg("absent"))
          /\ s' = "gone"
       \/ link = "up" /\ RClosed /\ s' = "gone" /\ UNCHANGED toR
    /\ UNCHANGED <<prompt, cVars, answer, rVars, yfifo, sMissed, lead, toS, link,
                   vVars>>

\* errorReply and exit.
SFail == s' = "gone" /\ toR' = Append(toR, Msg("error"))

\* Mutant: a message is posted again.
PostedTwice(m) == vfifo \o <<m, m>>

Posted(m) == Append(vfifo, m)

\* hndlMessage
SMessage ==
    /\ s = "up" /\ link = "up" /\ toS # <<>>
    /\ toS' = Tail(toS)
    /\ LET m == Head(toS) IN
       \/ /\ m.kind \in {"send", "proxy"} /\ ~ ReceiverGone
          /\ vfifo' = Posted(m)
          /\ UNCHANGED <<s, sMissed, toR>>
       \/ /\ m.kind \in {"send", "proxy"} /\ ReceiverGone
          /\ SFail /\ UNCHANGED <<vfifo, sMissed>>
       \/ /\ m.kind = "alive"
          /\ sMissed' = Heard(sMissed)
          /\ toR' = Append(toR, m) /\ UNCHANGED <<s, vfifo>>
       \/ /\ m.kind = "alive" /\ RClosed
          /\ sMissed' = Heard(sMissed)
          /\ s' = "gone" /\ UNCHANGED <<vfifo, toR>>
       \/ /\ m.kind = "close"
          /\ s' = "gone" /\ UNCHANGED <<vfifo, sMissed, toR>>
    /\ UNCHANGED <<prompt, cVars, answer, rVars, yfifo, lead, link, receiver,
                   taken, got>>

\* The end of the stream is a read error.
SEnd ==
    /\ s = "up" /\ SReadable /\ toS = <<>>
    /\ SFail
    /\ UNCHANGED <<prompt, cVars, answer, rVars, yfifo, sMissed, lead, toS, link,
                   vVars>>

\* Mutant: the error flag of the reply is not looked at.
PassedUnread(y) == TRUE

\* _simpl_readReply finds a reply and not the word of an error.
Passed(y) == y.kind = "reply"

\* hndlReply; the socket goes before the reply fifo.
SReply ==
    /\ s = "up" /\ ~ SReadable /\ yfifo # <<>>
    /\ yfifo' = Tail(yfifo)
    /\ \/ /\ Passed(Head(yfifo))
          /\ toR' = Append(toR, [Head(yfifo) EXCEPT !.kind = "reply"])
          /\ UNCHANGED s
       \/ ~ Passed(Head(yfifo)) /\ SFail
    /\ UNCHANGED <<prompt, cVars, answer, rVars, sMissed, lead, toS, link, vVars>>

\* The select times out: look after the receiver, then count.
STimeout ==
    /\ s = "up" /\ ~ SReadable /\ yfifo = <<>>
    /\ prompt => lead < Drift \/ link = "cut" \/ r # "up"
    /\ lead' = IF prompt /\ lead < Drift THEN lead + 1 ELSE lead
    /\ \/ /\ ReceiverGone \/ TooMany(sMissed + 1)
          /\ s' = "gone" /\ UNCHANGED sMissed
       \/ /\ ~ ReceiverGone /\ ~ TooMany(sMissed + 1)
          /\ sMissed' = sMissed + 1 /\ UNCHANGED s
    /\ UNCHANGED <<prompt, cVars, answer, rVars, yfifo, toS, toR, link, vVars>>

SKill ==
    /\ "s" \in Killable /\ s \in {"forked", "up"}
    /\ s' = "killed"
    /\ UNCHANGED <<prompt, cVars, answer, rVars, yfifo, sMissed, lead, toS, toR,
                   link, vVars>>

-----------------------------------------------------------------------------
(* The receiver and the network.                                           *)

Take ==
    /\ receiver = "up" /\ s = "up" /\ vfifo # <<>> /\ taken = 0
    /\ vfifo' = Tail(vfifo)
    /\ taken' = Head(vfifo).n
    /\ got' = Append(got, Head(vfifo).n)
    /\ UNCHANGED <<prompt, cVars, answer, rVars, sVars, lead, toS, toR, link, receiver>>

\* Reply, or an error when the reply is too large for the client.
Answer ==
    /\ receiver = "up" /\ taken # 0
    /\ \E y \in {[kind |-> "reply", n |-> taken], Msg("error")} :
          yfifo' = IF s = "up" THEN Append(yfifo, y) ELSE yfifo
    /\ taken' = 0
    /\ UNCHANGED <<prompt, cVars, answer, rVars, s, sMissed, lead, toS, toR, link,
                   receiver, vfifo, got>>

ReceiverExit ==
    /\ "receiver" \in Exitable /\ receiver = "up"
    /\ receiver' = "gone" /\ vfifo' = <<>> /\ taken' = 0
    /\ yfifo' = IF taken # 0 /\ s = "up" THEN Append(yfifo, Msg("error")) ELSE yfifo
    /\ UNCHANGED <<prompt, cVars, answer, rVars, s, sMissed, lead, toS, toR, link, got>>

ReceiverKill ==
    /\ "receiver" \in Killable /\ receiver = "up"
    /\ receiver' = "killed" /\ vfifo' = <<>> /\ taken' = 0
    /\ UNCHANGED <<prompt, cVars, answer, rVars, sVars, lead, toS, toR, link, got>>

Cut ==
    /\ MayCut /\ link = "up"
    /\ link' = "cut"
    /\ UNCHANGED <<prompt, cVars, answer, rVars, sVars, lead, toS, toR, vVars>>

-----------------------------------------------------------------------------
RStep == RLocate \/ RLocated \/ RLocateTimeout \/ RSend \/ RProxy \/ RClose \/ RRemote
SStep == SFork \/ SLocate \/ SMessage \/ SEnd \/ SReply
Serve == Take \/ Answer
Leave == ClientExit \/ ClientKill \/ RKill \/ SKill \/ ReceiverExit \/ ReceiverKill \/ Cut

Next ==
    \/ Locate \/ ClientSend \/ ClientTrigger \/ ClientReturn \/ ClientRemove
    \/ RStep \/ RTimeout \/ SStep \/ STimeout \/ Serve \/ Leave

Spec == Init /\ [][Next]_vars

\* Every process is scheduled and the receiver serves.  A time-out is due
\* again and again: Linux' select keeps the time left in tv, so traffic cannot
\* put it off for ever.  Nor can it keep surrogate_s from its reply fifo: the
\* keep-alives on the socket, which goes first, are seconds apart.
Fairness ==
    /\ WF_vars(ClientReturn) /\ WF_vars(ClientRemove)
    /\ WF_vars(RStep) /\ WF_vars(SStep) /\ WF_vars(Serve)
    /\ SF_vars(SReply) /\ SF_vars(RTimeout) /\ SF_vars(STimeout)

FairSpec == Spec /\ Fairness

-----------------------------------------------------------------------------
(* What the conduit owes the two programs at its ends.                     *)

\* Messages and proxies arrive in the order they were sent, none of them twice
\* and none overtaken by a later one; a Send that succeeds was received by the
\* remote receiver, and returns the reply to this very request.
EndToEnd ==
    /\ IsPrefix(got, sent)
    /\ client = "sending" /\ answer # <<>> /\ Head(answer).kind = "reply" =>
           Head(answer).n = asked /\ Contains(got, asked)

Requests(q) == Cardinality({i \in DOMAIN q : q[i].kind \in {"send", "reply", "error"}})

\* The copies of the client's request, or of the answer to it, on their way.
InTransit ==
    Requests(toS) + Requests(vfifo) + (IF taken # 0 THEN 1 ELSE 0)
    + Requests(yfifo) + Requests(toR)

\* As long as both surrogates and the receiver are well, the client that r
\* holds has one request or answer on its way, and there is none otherwise: a
\* reply finds its sender held, and a held sender has something to wait for.
HeldIsInTransit ==
    r = "up" /\ s = "up" /\ receiver = "up" => InTransit = (IF holds THEN 1 ELSE 0)

\* Keep-alives end a conduit only when the partner cannot be heard, whenever
\* the answer to one takes less time than a time-out.
OnlyDeadGivenUp ==
    [][prompt =>
        /\ RTimeout /\ RClosed' /\ ~ ClientGone => link = "cut" \/ s # "up"
        /\ STimeout /\ SClosed' /\ ~ ReceiverGone => link = "cut" \/ r # "up"]_vars

\* surrogate_r has ended with the message of the client still in its fifo:
\* nobody received it, and nobody will answer it.
Stranded == RClosed /\ \E i \in DOMAIN rfifo : rfifo[i].kind = "send"

\* Every Send returns that surrogate_r has received, whatever happens to the
\* network, to the other surrogate and to the receiver, unless surrogate_r
\* itself is killed.
SendReturns == client = "sending" ~> client # "sending" \/ Stranded \/ r = "killed"

\* A client that leaves takes both surrogates with it; but surrogate_r may hang
\* in the open of a fifo the client no longer reads.
BothEnd ==
    client \in {"exited", "killed"} ~>
        (RClosed \/ r = "hung") /\ (SClosed \/ (s = "none" /\ (toS = <<>> \/ link = "cut")))
=============================================================================
