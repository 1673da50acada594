---------------------------- MODULE TclSurrogate ----------------------------
(***************************************************************************)
(* surrogates/tclSurrogate: a child of the surrogate stands in for one     *)
(* Tcl/Tk applet at the other end of a socket.  SIMPL programs send to the *)
(* child under the applet's name; the child notes each sender in a slot,   *)
(* relays the message with the number of the slot, and answers when the    *)
(* applet names the slot in a reply.  The applet sends to SIMPL programs   *)
(* through the child (one of them here: the target) and must show within   *)
(* maxAckTime that it has seen a relayed message.                          *)
(*                                                                         *)
(* The applet is not part of the repository: what it does is taken from    *)
(* the tokens of surroMsgs.h and from test/socketSender.c.  Senders are    *)
(* alive throughout; SimplIpc has the ones that die.                       *)
(***************************************************************************)
EXTENDS Naturals, Sequences, FiniteSets

CONSTANTS
    Sender,      \* SIMPL programs that send to the applet
    NoOne,       \* NULL in a slot
    Slots,       \* the length of myblockedSenders
    MaxSends,    \* bound: Sends of one sender
    MaxAsks,     \* bound: what the applet asks of the child
    MayTrigger,  \* may a program send the child a proxy?
    Faults       \* what may go wrong: subset of {"leave", "hang", "target"}

ASSUME TclAssumption ==
    /\ NoOne \notin Sender /\ Slots \in Nat \ {0} /\ MaxSends \in Nat /\ MaxAsks \in Nat
    /\ MayTrigger \in BOOLEAN /\ Faults \subseteq {"leave", "hang", "target"}

VARIABLES
    sender, answer,     \* each sender, and its reply fifo
    fifo,               \* the child's receive fifo
    child,              \* where the child is, and waitingForAck
    slot,               \* myblockedSenders
    held,               \* the library's table of received senders
    applet, todo,       \* the applet, and the relayed messages it has yet to answer
    toChild, toApplet,  \* the socket
    target              \* the program the applet sends to

sVars == <<sender, answer>>
aVars == <<applet, todo>>
kVars == <<toChild, toApplet>>
vars == <<sVars, fifo, child, slot, held, aVars, kVars, target>>

None == 0                     \* rememberSender's -1: no slot is free
Word == [of : Sender, n : 1..MaxSends]
Reply(w) == [kind |-> "reply", of |-> w.of, n |-> w.n]
Error == [kind |-> "error"]   \* ReplyError
Empty == [kind |-> "empty"]   \* Reply(sender, NULL, 0)
Proxy == [kind |-> "proxy"]

Cmd(k) == [kind |-> k]
TargetState == {"idle", "asked", "taken", "answered", "failed", "lost", "gone"}
Living == child.at \in {"up", "send", "tell"}

TypeOK ==
    /\ sender \in [Sender -> [at : {"idle", "waiting", "refused"}, n : 0..MaxSends]]
    /\ \A s \in Sender : Len(answer[s]) <= 1
    /\ child \in [at : {"none", "forked", "up", "send", "tell", "gone", "faulted"},
                  named : BOOLEAN, waiting : BOOLEAN]
    /\ slot \in [1..Slots -> Sender \cup {NoOne}] /\ held \subseteq Sender
    /\ applet \in [at : {"start", "idle", "asking", "hung", "left"}, asked : 0..MaxAsks]
    /\ \A r \in todo : r.slot \in 0..Slots /\ r.word \in Word
    /\ target \in TargetState

Init ==
    /\ sender = [s \in Sender |-> [at |-> "idle", n |-> 0]]
    /\ answer = [s \in Sender |-> <<>>]
    /\ fifo = <<>> /\ slot = [i \in 1..Slots |-> NoOne] /\ held = {}
    /\ child = [at |-> "none", named |-> FALSE, waiting |-> FALSE]
    /\ applet = [at |-> "start", asked |-> 0] /\ todo = {}
    /\ toChild = <<>> /\ toApplet = <<>> /\ target = "idle"

-----------------------------------------------------------------------------
\* The parent accepts a connection and forks; the child takes a name of its own,
\* which can be taken: the number in it starts again after 999 children.
Accept ==
    /\ child.at = "none" /\ applet.at = "start"
    /\ child' = [child EXCEPT !.at = "forked"] /\ applet' = [applet EXCEPT !.at = "idle"]
    /\ UNCHANGED <<sVars, fifo, slot, held, todo, kVars, target>>

InitChild ==
    /\ child.at = "forked"
    /\ \E at \in {"up", "gone"} : child' = [child EXCEPT !.at = at]
    /\ UNCHANGED <<sVars, fifo, slot, held, aVars, kVars, target>>

\* A sender that has located the applet's name; without the child, Send fails.
SenderSend(s) ==
    /\ sender[s].at = "idle" /\ sender[s].n < MaxSends /\ child.named
    /\ IF Living
       THEN /\ sender' = [sender EXCEPT ![s] = [at |-> "waiting", n |-> @.n + 1]]
            /\ fifo' = Append(fifo, [kind |-> "message", of |-> s])
       ELSE sender' = [sender EXCEPT ![s].at = "refused"] /\ UNCHANGED fifo
    /\ UNCHANGED <<answer, child, slot, held, aVars, kVars, target>>

SenderReturn(s) ==
    /\ sender[s].at = "waiting" /\ answer[s] # <<>>
    /\ sender' = [sender EXCEPT ![s].at = "idle"] /\ answer' = [answer EXCEPT ![s] = <<>>]
    /\ UNCHANGED <<fifo, child, slot, held, aVars, kVars, target>>

ProxySend ==
    /\ MayTrigger /\ child.named /\ Living
    /\ \A i \in DOMAIN fifo : fifo[i] # Proxy
    /\ fifo' = Append(fifo, Proxy)
    /\ UNCHANGED <<sVars, child, slot, held, aVars, kVars, target>>

-----------------------------------------------------------------------------
\* The child leaves: ReplyError for each sender of a set, its fifo removed with what
\* it holds, the socket closed.  A step that faults runs the library's signal handler
\* (name_detach) on memory it may have overwritten.
Blocked == {s \in Sender : \E i \in 1..Slots : slot[i] = s}
Release(S) == answer' = [s \in Sender |-> IF s \in S THEN Append(answer[s], Error)
                                          ELSE answer[s]]

Ends(S, at) ==
    /\ Release(S) /\ held' = held \ S
    /\ slot' = [i \in 1..Slots |-> NoOne]
    /\ child' = [child EXCEPT !.at = at, !.waiting = FALSE]
    /\ fifo' = <<>> /\ toChild' = <<>>

\* Mutant: senders are not told that the child ends
UnblockNobody == Ends({}, "gone")

UnblockSenders == Ends(Blocked \cup held, "gone")
Fault == \E S \in {held, {}} : Ends(S, "faulted")

\* hndlChildFifo: a proxy is taken for a message whose size is negative.
FreeSlots == {i \in 1..Slots : slot[i] = NoOne}
\* Mutants: a slot too many is used, the first slot is always used
RememberBeyond(s) == IF FreeSlots = {} THEN Slots + 1
                     ELSE CHOOSE i \in FreeSlots : \A j \in FreeSlots : i <= j
RememberFirst(s) == 1

RememberSender(s) ==
    IF FreeSlots = {} THEN None ELSE CHOOSE i \in FreeSlots : \A j \in FreeSlots : i <= j
\* Mutant: the slot of an answered sender is kept
ForgetNobody(i) == UNCHANGED slot
ForgetSender(i) == slot' = [slot EXCEPT ![i] = NoOne]

Relay(s) ==
    LET i == RememberSender(s)
    IN  /\ toApplet' = Append(toApplet, [kind |-> "relay", slot |-> i,
                                         word |-> [of |-> s, n |-> sender[s].n]])
        /\ slot' = IF i = None THEN slot ELSE [slot EXCEPT ![i] = s]
        /\ held' = held \cup {s}
        /\ child' = [child EXCEPT !.waiting = TRUE]
        /\ fifo' = Tail(fifo) /\ UNCHANGED <<answer, toChild>>

\* The write to the socket fails: the sender gets an empty reply, and the child ends.
RelayFails(s) ==
    LET S == (held \cup Blocked) \ {s}
    IN  /\ applet.at = "left"
        /\ answer' = [t \in Sender |-> IF t = s THEN Append(answer[t], Empty)
                                       ELSE IF t \in S THEN Append(answer[t], Error)
                                       ELSE answer[t]]
        /\ held' = {} /\ slot' = [i \in 1..Slots |-> NoOne]
        /\ child' = [child EXCEPT !.at = "gone", !.waiting = FALSE]
        /\ fifo' = <<>> /\ toChild' = <<>> /\ UNCHANGED toApplet

ChildFifo ==
    /\ child.at = "up" /\ toChild = <<>> /\ fifo # <<>>
    /\ \/ Head(fifo) = Proxy /\ Fault /\ UNCHANGED toApplet
       \/ Head(fifo) # Proxy /\ (Relay(Head(fifo).of) \/ RelayFails(Head(fifo).of))
    /\ UNCHANGED <<sender, aVars, target>>

-----------------------------------------------------------------------------
\* hndlSocket.  Whatever arrives counts as the acknowledgement.
Token == child.at = "up" /\ toChild # <<>>
Got(k) == Token /\ Head(toChild).kind = k
Heard(c) == child' = [c EXCEPT !.waiting = FALSE] /\ toChild' = Tail(toChild)
ToApplet(k) == toApplet' = Append(toApplet, Cmd(k))

\* The name is the applet's only when no other process holds it.  On a trusted network
\* its earlier holder is killed first, and may or may not be gone by then.
\* (SG_NAME_ATTACH comes once, before anybody knows the child's name.)
NameAttach ==
    /\ Got("attach") /\ ToApplet("answer")
    /\ \/ /\ Heard([child EXCEPT !.named = TRUE])
          /\ UNCHANGED <<answer, fifo, slot, held>>
       \/ UnblockSenders
    /\ UNCHANGED <<sender, aVars, target>>

NameDetach ==
    /\ Got("detach") /\ ToApplet("answer") /\ UnblockSenders
    /\ UNCHANGED <<sender, aVars, target>>

\* SG_NAME_LOCATE, SG_IS_LOGGER_UP, SG_PING: answered at once; SG_ACK: not answered.
AnswerAtOnce ==
    /\ Got("ask") /\ Heard(child) /\ ToApplet("answer")
    /\ UNCHANGED <<sVars, fifo, slot, held, aVars, target>>

Ack ==
    /\ Got("ack") /\ Heard(child)
    /\ UNCHANGED <<sVars, fifo, slot, held, aVars, toApplet, target>>

\* SG_SEND_IT and SG_SEND_NO_REPLY: the child waits in Send, and hears nobody.  After
\* SG_SEND_IT the size of the reply, -1 when Send fails, goes to memcpy.
SendIt(k) ==
    /\ k \in {"send", "tell"} /\ Got(k) /\ target # "gone"
    /\ Heard([child EXCEPT !.at = k]) /\ target' = "asked"
    /\ UNCHANGED <<sVars, fifo, slot, held, aVars, toApplet>>

SendReturns ==
    /\ child.at \in {"send", "tell"} /\ target = "answered"
    /\ child' = [child EXCEPT !.at = "up"] /\ target' = "idle"
    /\ IF child.at = "send" THEN ToApplet("answer") ELSE UNCHANGED toApplet
    /\ UNCHANGED <<sVars, fifo, slot, held, aVars, toChild>>

SendFails ==
    /\ \/ Got("send") /\ target = "gone"
       \/ child.at = "send" /\ target = "failed"
    /\ Fault /\ target' = "gone"
    /\ UNCHANGED <<sender, aVars, toApplet>>

TellFails ==
    /\ \/ Got("tell") /\ target = "gone" /\ Heard(child)
       \/ /\ child.at = "tell" /\ target = "failed"
          /\ child' = [child EXCEPT !.at = "up"] /\ UNCHANGED toChild
    /\ target' = "gone"
    /\ UNCHANGED <<sVars, fifo, slot, held, aVars, toApplet>>

\* SG_REPLY_IT: myblockedSenders[-1] or an empty slot is not a pointer to a message.
ReplyIt ==
    LET f == Head(toChild)
        s == IF f.slot = None THEN NoOne ELSE slot[f.slot]
    IN  /\ Got("reply")
        /\ IF s = NoOne
           THEN Fault
           ELSE /\ answer' = [answer EXCEPT ![s] = Append(@, Reply(f.word))]
                /\ held' = held \ {s} /\ ForgetSender(f.slot)
                /\ Heard(child) /\ UNCHANGED fifo
        /\ UNCHANGED <<sender, aVars, toApplet, target>>

\* End of file on the socket.
SocketFails ==
    /\ child.at = "up" /\ toChild = <<>> /\ applet.at = "left"
    /\ UnblockSenders
    /\ UNCHANGED <<sender, aVars, toApplet, target>>

\* select runs out of maxAckTime.
AckTimeout ==
    /\ child.at = "up" /\ child.waiting /\ toChild = <<>> /\ fifo = <<>>
    /\ applet.at # "left"
    /\ UnblockSenders
    /\ UNCHANGED <<sender, aVars, toApplet, target>>

-----------------------------------------------------------------------------
\* External: the target of the applet's Sends, a SIMPL program that receives and answers.
TargetTakes ==
    /\ target = "asked" /\ target' = "taken"
    /\ UNCHANGED <<sVars, fifo, child, slot, held, aVars, kVars>>

TargetAnswers ==
    /\ target = "taken" /\ target' = "answered"
    /\ UNCHANGED <<sVars, fifo, child, slot, held, aVars, kVars>>

\* A target that leaves releases, in name_detach, whom it has received: Send fails.  A
\* message still in its fifo goes with the fifo, and a killed target releases nobody:
\* the child never comes out of Send.
TargetLeaves ==
    /\ "target" \in Faults
    /\ \/ target = "idle" /\ target' = "gone"
       \/ target = "taken" /\ target' = "failed"
       \/ target \in {"asked", "taken"} /\ target' = "lost"
    /\ UNCHANGED <<sVars, fifo, child, slot, held, aVars, kVars>>

\* External: the applet.  It attaches its name first.  It answers each relayed message
\* once, and may acknowledge it before.
ToChild(f) == toChild' = Append(toChild, f)

AppletAsk(k) ==
    /\ applet.at = "idle" /\ applet.asked < MaxAsks /\ Living
    /\ (k = "attach") = (applet.asked = 0)
    /\ applet' = [at |-> IF k = "tell" THEN "idle" ELSE "asking", asked |-> applet.asked + 1]
    /\ ToChild(Cmd(k))
    /\ UNCHANGED <<sVars, fifo, child, slot, held, todo, toApplet, target>>

AppletTake ==
    /\ applet.at \in {"idle", "asking"} /\ toApplet # <<>>
    /\ IF Head(toApplet).kind = "answer"
       THEN applet' = [applet EXCEPT !.at = "idle"] /\ UNCHANGED <<todo, toChild>>
       ELSE /\ todo' = todo \cup {[slot |-> Head(toApplet).slot, word |-> Head(toApplet).word]}
            /\ ToChild(Cmd("ack")) \/ UNCHANGED toChild
            /\ UNCHANGED applet
    /\ toApplet' = Tail(toApplet)
    /\ UNCHANGED <<sVars, fifo, child, slot, held, target>>

AppletReply(r) ==
    /\ applet.at \in {"idle", "asking"} /\ Living
    /\ todo' = todo \ {r}
    /\ ToChild([kind |-> "reply", slot |-> r.slot, word |-> r.word])
    /\ UNCHANGED <<sVars, fifo, child, slot, held, applet, toApplet, target>>

AppletHangs ==
    /\ "hang" \in Faults /\ applet.at \in {"idle", "asking"}
    /\ applet' = [applet EXCEPT !.at = "hung"]
    /\ UNCHANGED <<sVars, fifo, child, slot, held, todo, kVars, target>>

\* It leaves of itself, or when the child has closed the socket.
AppletLeaves ==
    /\ applet.at \in {"idle", "asking"}
    /\ \/ "leave" \in Faults
       \/ child.at \in {"gone", "faulted"} /\ toApplet = <<>>
    /\ applet' = [applet EXCEPT !.at = "left"] /\ todo' = {}
    /\ UNCHANGED <<sVars, fifo, child, slot, held, kVars, target>>

-----------------------------------------------------------------------------
ChildStep ==
    \/ Accept \/ InitChild \/ ChildFifo
    \/ NameAttach \/ NameDetach \/ AnswerAtOnce \/ Ack \/ ReplyIt
    \/ (\E k \in {"send", "tell"} : SendIt(k)) \/ SendReturns \/ SendFails \/ TellFails
    \/ SocketFails \/ AckTimeout

Next ==
    \/ ChildStep
    \/ \E s \in Sender : SenderSend(s) \/ SenderReturn(s)
    \/ ProxySend \/ TargetTakes \/ TargetAnswers \/ TargetLeaves
    \/ \E k \in {"attach", "detach", "ask", "send", "tell"} : AppletAsk(k)
    \/ AppletTake \/ (\E r \in todo : AppletReply(r)) \/ AppletHangs \/ AppletLeaves

Spec == Init /\ [][Next]_vars

\* The child and the applet run, unless the applet hangs; the target receives and
\* answers, or leaves, or is killed.
FairSpec ==
    /\ Spec /\ WF_vars(ChildStep) /\ WF_vars(AppletTake)
    /\ WF_vars(TargetTakes \/ TargetAnswers)
    /\ WF_vars(\E r \in todo : AppletReply(r))
    /\ \A s \in Sender : WF_vars(SenderReturn(s))

-----------------------------------------------------------------------------
\* A sender gets the applet's answer to the message it waits for, and never an answer
\* to an earlier message or to somebody else's, whatever slots were used in between.
EndToEnd ==
    \A s \in Sender : answer[s] # <<>> =>
        /\ Len(answer[s]) = 1 /\ sender[s].at = "waiting"
        /\ answer[s][1].kind = "reply" =>
               answer[s][1].of = s /\ answer[s][1].n = sender[s].n

\* Each sender the child has received, and only such a sender, is on its way to the
\* applet, with the applet or in an answer, exactly once and under the slot that holds
\* it: neither table forgets a sender or keeps one that was answered.
Out == {[slot |-> toApplet[i].slot, word |-> toApplet[i].word] :
            i \in {j \in DOMAIN toApplet : toApplet[j].kind = "relay"}}
       \cup todo
       \cup {[slot |-> toChild[i].slot, word |-> toChild[i].word] :
            i \in {j \in DOMAIN toChild : toChild[j].kind = "reply"}}

HeldIsOut ==
    Living /\ applet.at # "left" =>
        /\ {r.word.of : r \in Out} = held /\ Cardinality(Out) = Cardinality(held)
        /\ \A r \in Out : r.slot # None => slot[r.slot] = r.word.of
        /\ Cardinality({i \in 1..Slots : slot[i] # NoOne}) =
               Cardinality({r \in Out : r.slot # None})

\* A sender whose message the child has received returns from Send, unless a step of
\* the child faults, the applet stops when the child no longer waits for an
\* acknowledgement, or the child itself is in a Send whose target went without
\* releasing it; one that waits in the fifo is received, unless the child ends first or
\* is caught in such a Send.
SenderReturns ==
    \A s \in Sender :
        /\ s \in held ~> \/ sender[s].at = "idle" \/ child.at = "faulted"
                         \/ applet.at = "hung" /\ ~ child.waiting
                         \/ target = "lost"
        /\ sender[s].at = "waiting" ~>
               \/ s \in held \/ sender[s].at = "idle"
               \/ child.at \in {"gone", "faulted"} \/ target = "lost"
=============================================================================
