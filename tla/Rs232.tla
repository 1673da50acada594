------------------------------- MODULE Rs232 -------------------------------
(***************************************************************************)
(* surrogates/rs232: conduits over one serial line.  On the clients' host  *)
(* (A) a surrogate_r stands in for each client's receiver, on the          *)
(* receiver's host (B) a surrogate_s for each client; on both hosts        *)
(* rs232_w puts frames on the line and rs232_r takes them off and passes   *)
(* them on by token and process id.  All four talk by Send and Reply, and  *)
(* everything a blocked one would do waits.                                *)
(*                                                                         *)
(* surrogate_s has ONE segment and ONE reply fifo: for the message it has  *)
(* posted to the receiver and for its own Sends to rs232_w.  They are      *)
(* modelled as what they hold.  Answers carry data: an answer does not fit *)
(* where there is no room for any.                                         *)
(*                                                                         *)
(* A select leaves the rest of its interval in tv, which is set anew only  *)
(* when it has run out: with keep-alives one may follow anything at once,  *)
(* so a time-out may come whenever nothing waits to be received.           *)
(***************************************************************************)
EXTENDS Naturals, Sequences, FiniteSets

CONSTANTS
    Client,       \* one conduit each
    Limit,        \* bound: KEEP_ALIVE_FAIL_LIMIT, keep-alives that may fail
    LineRoom,     \* frames on a line, the one being written included
    MaxAsks,      \* bound: Sends and Triggers of a client
    MaxLost,      \* bound: frames the line loses
    Setups        \* the ways the conduits may be used, see Setup

ASSUME LineAssumption ==
    /\ Client # {} /\ Limit \in Nat /\ LineRoom \in Nat \ {0}
    /\ MaxAsks \in Nat /\ MaxLost \in Nat

\* alive: are keep-alives on?  Option -k 0 (kaTimeout) turns them off on both
\* hosts.  users: the clients that come; leaves: who of them and the receiver may
\* leave; kills: who may be killed; limit: KEEP_ALIVE_FAIL_LIMIT; asks, loses: bounds
\* on what each client asks and on the frames that get lost.
Setup == [alive : BOOLEAN, users : SUBSET Client,
          leaves : SUBSET (Client \cup {"receiver"}), kills : SUBSET Client,
          limit : 0..Limit, asks : 0..MaxAsks, loses : 0..MaxLost]

ASSUME SetupAssumption == Setups \subseteq Setup

VARIABLES
    setup,     \* how the conduits are used, which never changes
    client,    \* where each client is, and how many Sends and Triggers it made
    answer,    \* reply fifo and segment of each client
    r, rfifo,  \* each surrogate_r and its receive fifo
    s, seg,    \* each surrogate_s, its segment
    yfifo,     \* and its reply fifo, which holds words and no content
    writer,    \* the fifo of rs232_w on each host
    line,      \* the line out of each host
    reader,    \* rs232_r on each host: the frame its Send offers, or NoFrame
    receiver, vfifo, taken, got, \* the receiver on B
    lost

rVars == <<r, rfifo>>
sVars == <<s, seg, yfifo>>
vVars == <<receiver, vfifo, taken, got>>
wires == <<writer, line, reader, lost>>
vars == <<setup, client, answer, rVars, sVars, wires, vVars>>

Alive == setup.alive

Host == {"A", "B"}
Other(h) == IF h = "A" THEN "B" ELSE "A"

Kind == {"none", "locate", "found", "absent", "send", "reply", "proxy", "alive",
         "error", "close", "remote"}
Frame == [kind : Kind, of : Client, n : Nat]
Frm(k, c) == [kind |-> k, of |-> c, n |-> 0]
NoFrame == Frm("none", CHOOSE c \in Client : TRUE)
None(m) == m.kind = "none"

TypeOK ==
    /\ setup \in Setups /\ lost \in 0..MaxLost
    /\ client \in [Client -> [at : {"start", "locating", "idle", "sending", "refused",
                                    "closing", "exited", "killed"},
                              asked : 0..MaxAsks]]
    /\ answer \in [Client -> Seq(Frame)] /\ rfifo \in [Client -> Seq(Frame)]
    /\ r \in [Client -> [at : {"attached", "locating", "up", "sending", "hung",
                               "faulted", "gone"},
                         then : {"locating", "up", "gone"},
                         holds : BOOLEAN, missed : 0..Limit + 1, out : Frame]]
    /\ s \in [Client -> [at : {"none", "forked", "up", "sending", "gone"},
                         then : {"up", "gone"}, missed : 0..Limit, room : BOOLEAN]]
    /\ seg \in [Client -> Frame] /\ yfifo \in [Client -> Seq(BOOLEAN)]
    /\ writer \in [Host -> Seq(Client)]
    /\ line \in [Host -> Seq(Frame)] /\ reader \in [Host -> Frame]
    /\ receiver \in {"up", "gone"} /\ vfifo \in Seq(Frame)
    /\ taken \in Frame /\ got \subseteq Frame

Init ==
    /\ setup \in Setups /\ lost = 0
    /\ client = [c \in Client |-> [at |-> "start", asked |-> 0]]
    /\ answer = [c \in Client |-> <<>>] /\ rfifo = [c \in Client |-> <<>>]
    /\ r = [c \in Client |-> [at |-> "attached", then |-> "up", holds |-> FALSE,
                              missed |-> 0, out |-> NoFrame]]
    /\ s = [c \in Client |-> [at |-> "none", then |-> "up", missed |-> 0,
                              room |-> FALSE]]
    /\ seg = [c \in Client |-> NoFrame] /\ yfifo = [c \in Client |-> <<>>]
    /\ writer = [h \in Host |-> <<>>]
    /\ line = [h \in Host |-> <<>>] /\ reader = [h \in Host |-> NoFrame]
    /\ receiver \in {"up", "gone"} /\ vfifo = <<>> /\ taken = NoFrame /\ got = {}

-----------------------------------------------------------------------------
(* The clients.                                                            *)

REnded(c) == r[c].at \in {"faulted", "gone"}
SEnded(c) == s[c].at \in {"none", "gone"}

\* There is no such process any more.
ClientGone(c) == client[c].at \in {"exited", "killed"}

\* A local message for surrogate_r.
Puts(c, m) == rfifo' = [rfifo EXCEPT ![c] = Append(@, m)]

Locate(c) ==
    /\ c \in setup.users /\ client[c].at = "start" /\ ~ REnded(c)
    /\ client' = [client EXCEPT ![c].at = "locating"]
    /\ Puts(c, Frm("locate", c))
    /\ UNCHANGED <<setup, answer, r, sVars, wires, vVars>>

ClientSend(c) ==
    /\ client[c].at = "idle" /\ client[c].asked < setup.asks
    /\ LET n == client[c].asked + 1 IN
       \/ /\ ~ REnded(c)
          /\ Puts(c, [kind |-> "send", of |-> c, n |-> n])
          /\ client' = [client EXCEPT ![c].asked = n, ![c].at = "sending"]
       \/ REnded(c) /\ client' = [client EXCEPT ![c].asked = n] /\ UNCHANGED rfifo
    /\ UNCHANGED <<setup, answer, r, sVars, wires, vVars>>

ClientTrigger(c) ==
    /\ client[c].at = "idle" /\ client[c].asked < setup.asks /\ ~ REnded(c)
    /\ client' = [client EXCEPT ![c].asked = @ + 1]
    /\ Puts(c, Frm("proxy", c))
    /\ UNCHANGED <<setup, answer, r, sVars, wires, vVars>>

ClientReturn(c) ==
    /\ client[c].at \in {"locating", "sending"} /\ answer[c] # <<>>
    /\ client' = [client EXCEPT ![c].at =
           IF @ = "sending" \/ Head(answer[c]).kind = "found" THEN "idle" ELSE "refused"]
    /\ answer' = [answer EXCEPT ![c] = Tail(@)]
    /\ UNCHANGED <<setup, rVars, sVars, wires, vVars>>

\* name_detach: PROXY_SHUTDOWN, then the fifos are closed, then removed.
ClientExit(c) ==
    /\ c \in setup.leaves /\ client[c].at \in {"locating", "idle", "sending"}
    /\ client' = [client EXCEPT ![c].at = "closing"]
    /\ answer' = [answer EXCEPT ![c] = <<>>]
    /\ IF client[c].at # "locating" /\ ~ REnded(c)
       THEN Puts(c, Frm("close", c)) ELSE UNCHANGED rfifo
    /\ UNCHANGED <<setup, r, sVars, wires, vVars>>

ClientRemove(c) ==
    /\ client[c].at = "closing"
    /\ client' = [client EXCEPT ![c].at = "exited"]
    /\ UNCHANGED <<setup, answer, rVars, sVars, wires, vVars>>

ClientKill(c) ==
    /\ c \in setup.kills /\ client[c].at \in {"locating", "idle", "sending"}
    /\ client' = [client EXCEPT ![c].at = "killed"]
    /\ answer' = [answer EXCEPT ![c] = <<>>]
    /\ UNCHANGED <<setup, rVars, sVars, wires, vVars>>

-----------------------------------------------------------------------------
(* The serial line.                                                        *)

\* rs232_w on B faults when what it receives is of a surrogate_s that has ended,
\* whose segment is gone (see SimplIpc), and then takes nothing more.
Faults == writer["B"] # <<>> /\ SEnded(Head(writer["B"]))

\* rs232_w receives and replies before it writes.  It copies what is in the
\* segment now, and leaves an empty reply there.  Its write blocks while the
\* line is full: that frame counts as one on the line.  A frame may get lost.
WriterTake(h) ==
    /\ writer[h] # <<>> /\ Len(line[h]) < LineRoom /\ (h = "B" => ~ Faults)
    /\ writer' = [writer EXCEPT ![h] = Tail(@)]
    /\ LET c == Head(writer[h])
           m == IF h = "A" THEN r[c].out ELSE seg[c]
       IN
       /\ \/ line' = [line EXCEPT ![h] = Append(@, m)] /\ UNCHANGED lost
          \/ lost < setup.loses /\ lost' = lost + 1 /\ UNCHANGED line
       /\ \/ h = "A" /\ r' = [r EXCEPT ![c].out = NoFrame] /\ UNCHANGED <<seg, yfifo>>
          \/ /\ h = "B" /\ seg' = [seg EXCEPT ![c] = NoFrame]
             /\ yfifo' = [yfifo EXCEPT ![c] = Append(@, TRUE)] /\ UNCHANGED r
    /\ UNCHANGED <<setup, client, answer, rfifo, s, reader, vVars>>

\* Mutant: a surrogate_s that waits for rs232_w is not found.
FoundIdle(h, m) ==
    \/ h = "A" /\ m.kind \in {"found", "absent", "reply", "alive", "error"} /\ ~ REnded(m.of)
    \/ h = "B" /\ (m.kind = "locate" \/ s[m.of].at = "up")

\* Is the token known, and does name_locate find the program the frame is for?
Found(h, m) ==
    \/ h = "A" /\ m.kind \in {"found", "absent", "reply", "alive", "error"} /\ ~ REnded(m.of)
    \/ h = "B" /\ (m.kind = "locate" \/ ~ SEnded(m.of))

\* rs232_r: the frame is offered to its surrogate, or dropped when there is none.
ReaderTake(h) ==
    /\ None(reader[h]) /\ line[Other(h)] # <<>>
    /\ line' = [line EXCEPT ![Other(h)] = Tail(@)]
    /\ LET m == Head(line[Other(h)]) IN
       IF Found(h, m)
       THEN /\ reader' = [reader EXCEPT ![h] = m]
            /\ IF h = "A" THEN Puts(m.of, Frm("remote", m.of)) ELSE UNCHANGED rfifo
       ELSE UNCHANGED <<reader, rfifo>>
    /\ UNCHANGED <<setup, client, answer, r, sVars, writer, lost, vVars>>

-----------------------------------------------------------------------------
(* surrogate_r.                                                            *)

\* Send to rs232_w, with what is done when it returns.
RSends(c, m, then, held) ==
    /\ r' = [r EXCEPT ![c].at = "sending", ![c].then = then, ![c].out = m,
                      ![c].holds = held]
    /\ writer' = [writer EXCEPT !["A"] = Append(@, c)]

\* Reply or ReplyError to the client: see TcpSurrogate.
Tell(c, m, next, failed) ==
    \/ /\ client[c].at \in {"locating", "sending"}
       /\ answer' = [answer EXCEPT ![c] = Append(@, m)]
       /\ r' = [r EXCEPT ![c].holds = FALSE, ![c].at = next]
    \/ /\ client[c].at \in {"closing", "killed"}
       /\ r' = [r EXCEPT ![c].holds = FALSE, ![c].at = "hung"] /\ UNCHANGED answer
    \/ /\ client[c].at = "exited"
       /\ r' = [r EXCEPT ![c].holds = FALSE, ![c].at = failed] /\ UNCHANGED answer

REnds(c) == r' = [r EXCEPT ![c].at = "gone"] /\ UNCHANGED answer
RFaults(c) == r' = [r EXCEPT ![c].at = "faulted"] /\ UNCHANGED answer

\* exit: name_detach releases the client it holds.
RExit(c) ==
    \/ r[c].holds /\ Tell(c, Frm("error", c), "gone", "gone")
    \/ ~ r[c].holds /\ REnds(c)

RTakes(c, kind) ==
    /\ rfifo[c] # <<>> /\ Head(rfifo[c]).kind = kind
    /\ rfifo' = [rfifo EXCEPT ![c] = Tail(@)]

\* hndlRemoteNameLocate, up to the select.
RLocate(c) ==
    /\ r[c].at = "attached" /\ RTakes(c, "locate")
    /\ IF ClientGone(c) THEN RFaults(c) /\ UNCHANGED writer
       ELSE RSends(c, Frm("locate", c), "locating", TRUE) /\ UNCHANGED answer
    /\ UNCHANGED <<setup, client, sVars, line, reader, lost, vVars>>

\* The frame rs232_r offers is received and replied to.
RHears(c) == RTakes(c, "remote") /\ reader' = [reader EXCEPT !["A"] = NoFrame]

\* ... and after it: the result is passed on whatever it is.
RLocated(c) ==
    /\ r[c].at = "locating" /\ RHears(c)
    /\ Tell(c, reader["A"], "up", "faulted")
    /\ UNCHANGED <<setup, client, sVars, writer, line, lost, vVars>>

RLocateTimeout(c) ==
    /\ r[c].at = "locating" /\ rfifo[c] = <<>>
    /\ Tell(c, Frm("absent", c), "gone", "faulted")
    /\ UNCHANGED <<setup, client, rfifo, sVars, wires, vVars>>

\* hndlMsg for a message of the client.
RSend(c) ==
    /\ r[c].at = "up" /\ rfifo[c] # <<>>
    /\ LET m == Head(rfifo[c]) IN
       /\ RTakes(c, "send")
       /\ IF ClientGone(c) THEN RFaults(c) /\ UNCHANGED writer
          ELSE RSends(c, m, "up", TRUE) /\ UNCHANGED answer
    /\ UNCHANGED <<setup, client, sVars, line, reader, lost, vVars>>

RProxy(c) ==
    /\ r[c].at = "up" /\ RTakes(c, "proxy")
    /\ RSends(c, Frm("proxy", c), "up", r[c].holds)
    /\ UNCHANGED <<setup, client, answer, sVars, line, reader, lost, vVars>>

RClose(c) ==
    /\ r[c].at = "up" /\ RTakes(c, "close")
    /\ RSends(c, Frm("close", c), "gone", r[c].holds)
    /\ UNCHANGED <<setup, client, answer, sVars, line, reader, lost, vVars>>

\* Mutant: the counter is not looked at.
NeverTooMany(missed) == FALSE

TooMany(missed) == missed > setup.limit

\* hndlMsg for a frame: the sender is the one received last, through a
\* pointer that is detached once it was answered.
RRemote(c) ==
    /\ r[c].at = "up" /\ RHears(c)
    /\ LET m == reader["A"] IN
       \/ /\ m.kind \in {"reply", "found", "absent"}
          /\ IF r[c].holds THEN Tell(c, m, "up", "faulted") ELSE RFaults(c)
       \/ /\ m.kind = "alive"
          /\ r' = [r EXCEPT ![c].missed = 0] /\ UNCHANGED answer
       \/ /\ m.kind = "error"
          /\ IF r[c].holds THEN Tell(c, Frm("error", c), "gone", "gone") ELSE RFaults(c)
    /\ UNCHANGED <<setup, client, sVars, writer, line, lost, vVars>>

\* Send returns when rs232_w has taken the frame.
RReturn(c) ==
    /\ r[c].at = "sending" /\ None(r[c].out)
    /\ \/ r[c].then = "gone" /\ RExit(c)
       \/ r[c].then # "gone" /\ r' = [r EXCEPT ![c].at = r[c].then] /\ UNCHANGED answer
    /\ UNCHANGED <<setup, client, rfifo, sVars, wires, vVars>>

-----------------------------------------------------------------------------
(* surrogate_S and surrogate_s.                                            *)

SEnds(c) == s' = [s EXCEPT ![c].at = "gone"] /\ UNCHANGED <<seg, writer>>

\* Send to rs232_w: the segment is written over, with no room for an answer.  To an
\* rs232_w that has faulted it fails, and the surrogate_s exits.
SSends(c, m, then, missed) ==
    IF Faults THEN SEnds(c)
    ELSE /\ s' = [s EXCEPT ![c].at = "sending", ![c].then = then, ![c].room = FALSE,
                           ![c].missed = missed]
         /\ seg' = [seg EXCEPT ![c] = m]
         /\ writer' = [writer EXCEPT !["B"] = Append(@, c)]

\* errorReply and exit.
SFails(c) == SSends(c, Frm("error", c), "gone", s[c].missed)

\* A frame for surrogate_s is received and replied to.
SHears(c) ==
    /\ reader["B"].of = c /\ reader["B"].kind \notin {"none", "locate"}
    /\ reader' = [reader EXCEPT !["B"] = NoFrame]

\* rs232_r offers it a frame.
Offered(c) == reader["B"].of = c /\ ~ None(reader["B"])

SFork(c) ==
    /\ reader["B"] = Frm("locate", c)
    /\ reader' = [reader EXCEPT !["B"] = NoFrame]
    /\ s' = [s EXCEPT ![c].at = "forked"]
    /\ UNCHANGED <<setup, client, answer, rVars, seg, yfifo, writer, line, lost, vVars>>

SLocate(c) ==
    /\ s[c].at = "forked"
    /\ \/ receiver = "up" /\ SSends(c, Frm("found", c), "up", 0)
       \/ receiver = "gone" /\ SSends(c, Frm("absent", c), "gone", 0)
    /\ UNCHANGED <<setup, client, answer, rVars, yfifo, line, reader, lost, vVars>>

\* Mutant: Send does not take the word out of the reply fifo.
AllWords(words) == words

NextWords(words) == Tail(words)

\* The Send returns with the first word in the reply fifo, whoever sent it.
SReturn(c) ==
    /\ s[c].at = "sending" /\ yfifo[c] # <<>>
    /\ yfifo' = [yfifo EXCEPT ![c] = NextWords(@)]
    /\ \/ /\ Head(yfifo[c]) \/ s[c].then = "gone"
          /\ s' = [s EXCEPT ![c].at = s[c].then] /\ UNCHANGED <<seg, writer>>
       \/ ~ Head(yfifo[c]) /\ s[c].then = "up" /\ SFails(c)
    /\ UNCHANGED <<setup, client, answer, rVars, line, reader, lost, vVars>>

\* hndlMessage
SMessage(c) ==
    /\ s[c].at = "up" /\ SHears(c)
    /\ LET m == reader["B"] IN
       \/ /\ m.kind = "send" /\ receiver = "up"
          /\ s' = [s EXCEPT ![c].room = TRUE]
          /\ seg' = [seg EXCEPT ![c] = m]
          /\ vfifo' = Append(vfifo, Frm("send", c)) /\ UNCHANGED writer
       \/ /\ m.kind = "proxy" /\ receiver = "up"
          /\ vfifo' = Append(vfifo, m) /\ UNCHANGED <<s, seg, writer>>
       \/ /\ m.kind \in {"send", "proxy"} /\ receiver = "gone"
          /\ SFails(c) /\ UNCHANGED vfifo
       \/ m.kind = "alive" /\ SSends(c, m, "up", 0) /\ UNCHANGED vfifo
       \/ m.kind = "close" /\ SEnds(c) /\ UNCHANGED vfifo
    /\ UNCHANGED <<setup, client, answer, rVars, yfifo, line, lost, receiver, taken, got>>

\* hndlReply passes on what is in the segment; the receive fifo goes first.
SReply(c) ==
    /\ s[c].at = "up" /\ yfifo[c] # <<>> /\ ~ Offered(c)
    /\ yfifo' = [yfifo EXCEPT ![c] = Tail(@)]
    /\ IF Head(yfifo[c])
       THEN SSends(c, [kind |-> "reply", of |-> c,
                       n |-> IF seg[c].kind = "reply" THEN seg[c].n ELSE 0],
                   "up", s[c].missed)
       ELSE SFails(c)
    /\ UNCHANGED <<setup, client, answer, rVars, line, reader, lost, vVars>>

STimeout(c) ==
    /\ Alive
    /\ s[c].at = "up" /\ yfifo[c] = <<>> /\ ~ Offered(c)
    /\ \/ (receiver = "gone" \/ TooMany(s[c].missed + 1)) /\ SEnds(c)
       \/ /\ receiver = "up" /\ ~ TooMany(s[c].missed + 1)
          /\ s' = [s EXCEPT ![c].missed = @ + 1] /\ UNCHANGED <<seg, writer>>
    /\ UNCHANGED <<setup, client, answer, rVars, yfifo, line, reader, lost, vVars>>

-----------------------------------------------------------------------------
(* The receiver.                                                           *)

\* It reads what is in the segment now.
Take ==
    /\ receiver = "up" /\ vfifo # <<>> /\ None(taken)
    /\ LET c == Head(vfifo).of IN
       IF Head(vfifo).kind = "proxy" THEN UNCHANGED <<taken, got>>
       ELSE /\ ~ SEnded(c)
            /\ taken' = [kind |-> "send", of |-> c,
                         n |-> IF seg[c].kind = "send" THEN seg[c].n ELSE 0]
            /\ got' = got \cup {taken'}
    /\ vfifo' = Tail(vfifo)
    /\ UNCHANGED <<setup, client, answer, rVars, sVars, wires, receiver>>

\* Reply: an error when the answer does not fit.
Answer ==
    /\ receiver = "up" /\ ~ None(taken)
    /\ LET c == taken.of IN
       \/ SEnded(c) /\ UNCHANGED <<seg, yfifo>>
       \/ /\ ~ SEnded(c)
          /\ \/ /\ s[c].room
                /\ seg' = [seg EXCEPT ![c] = [kind |-> "reply", of |-> c, n |-> taken.n]]
                /\ yfifo' = [yfifo EXCEPT ![c] = Append(@, TRUE)]
             \/ UNCHANGED seg /\ yfifo' = [yfifo EXCEPT ![c] = Append(@, FALSE)]
    /\ taken' = NoFrame
    /\ UNCHANGED <<setup, client, answer, rVars, s, wires, receiver, vfifo, got>>

\* Who it holds is released, who waits in its fifo is not.
ReceiverEnds ==
    /\ receiver' = "gone" /\ vfifo' = <<>> /\ taken' = NoFrame
    /\ yfifo' = IF None(taken) \/ SEnded(taken.of) THEN yfifo
                ELSE [yfifo EXCEPT ![taken.of] = Append(@, FALSE)]
    /\ UNCHANGED <<setup, client, answer, rVars, s, seg, wires, got>>

ReceiverExit == "receiver" \in setup.leaves /\ receiver = "up" /\ ReceiverEnds

\* It receives the message of a surrogate_s that has ended (see SimplIpc).
ReceiverFaults ==
    /\ receiver = "up" /\ vfifo # <<>> /\ None(taken)
    /\ Head(vfifo).kind = "send" /\ SEnded(Head(vfifo).of)
    /\ ReceiverEnds

-----------------------------------------------------------------------------
(* The time-outs of surrogate_r.                                           *)

\* Mutant: the sender is not looked for.
SenderNeverDies(c) == FALSE

\* simplCheckProcess
SenderDied(c) == ClientGone(c)

RTimeout(c) ==
    /\ Alive
    /\ r[c].at = "up" /\ rfifo[c] = <<>>
    /\ \/ /\ SenderDied(c)
          /\ RSends(c, Frm("close", c), "gone", FALSE)
       \/ /\ ~ SenderDied(c)
          /\ r' = [r EXCEPT ![c].at = "sending", ![c].missed = @ + 1,
                            ![c].out = Frm("alive", c),
                            ![c].then = IF TooMany(r[c].missed + 1) THEN "gone" ELSE "up"]
          /\ writer' = [writer EXCEPT !["A"] = Append(@, c)]
    /\ UNCHANGED <<setup, client, answer, rfifo, sVars, line, reader, lost, vVars>>

-----------------------------------------------------------------------------
RStep(c) == \/ RLocate(c) \/ RLocated(c) \/ RSend(c) \/ RProxy(c) \/ RClose(c)
            \/ RRemote(c) \/ RReturn(c)
SStep(c) == SFork(c) \/ SLocate(c) \/ SReturn(c) \/ SMessage(c)
Wire(h) == WriterTake(h) \/ ReaderTake(h)

Next ==
    \/ \E c \in Client :
          \/ Locate(c) \/ ClientSend(c) \/ ClientTrigger(c) \/ ClientReturn(c)
          \/ ClientExit(c) \/ ClientRemove(c) \/ ClientKill(c)
          \/ RStep(c) \/ RLocateTimeout(c) \/ RTimeout(c)
          \/ SStep(c) \/ SReply(c) \/ STimeout(c)
    \/ \E h \in Host : Wire(h)
    \/ Take \/ Answer \/ ReceiverExit \/ ReceiverFaults

Spec == Init /\ [][Next]_vars

\* The clients that keep-alives may have to look after.
Kept == {c \in Client : \E u \in Setups : u.alive /\ c \in u.leaves \cup u.kills}

\* Every process is scheduled, the line moves, the receiver serves, and a
\* time-out is due again and again (see TcpSurrogate).  Two time-outs of a
\* surrogate_r are kaTimeout apart: surrogate_s is not always late for its select.
Fairness ==
    /\ \A c \in Client :
          /\ WF_vars(ClientReturn(c) \/ ClientRemove(c))
          /\ WF_vars(RStep(c) \/ RLocateTimeout(c)) /\ WF_vars(SStep(c) \/ SReply(c))
    /\ \A c \in Kept :
          /\ SF_vars(RTimeout(c)) /\ SF_vars(STimeout(c))
          /\ SF_vars(SReply(c)) /\ SF_vars(SReturn(c) /\ ~ Offered(c))
    /\ \A h \in Host : WF_vars(Wire(h))
    /\ WF_vars(Take \/ Answer \/ ReceiverFaults)

FairSpec == Spec /\ Fairness

-----------------------------------------------------------------------------
(* What a conduit is for.                                                  *)

\* The requests and answers of a client among the frames of a queue, and in one place.
Request(m, c) == m.of = c /\ m.kind \in {"send", "reply", "error"}
Copies(q, c) == Cardinality({i \in DOMAIN q : Request(q[i], c)})
Copy(m, c) == IF Request(m, c) THEN 1 ELSE 0

\* The copies of a client's request, or of the answer to it, on their way to
\* and from surrogate_s.
Under(c) ==
    Copy(r[c].out, c) + Copies(line["A"], c) + Copy(reader["B"], c)
    + Copies(vfifo, c) + Copy(taken, c)
    + (IF s[c].at = "sending" THEN Copy(seg[c], c) ELSE Len(yfifo[c]))
Back(c) == Copies(line["B"], c) + Copy(reader["A"], c)
InTransit(c) == Under(c) + Back(c)

\* A Send that succeeds was received by the remote receiver, and returns the
\* reply to this very request.
RightReply ==
    \A c \in Client :
        client[c].at = "sending" /\ answer[c] # <<>> /\ Head(answer[c]).kind = "reply" =>
            /\ Head(answer[c]).n = client[c].asked
            /\ \E m \in got : m.of = c /\ m.n = client[c].asked

\* ... which a keep-alive may prevent, however prompt the receiver is.
EndToEnd == ~ Alive => RightReply

\* As long as both surrogates and the receiver are well and no frame was lost,
\* a client that is held has one request or answer on its way, without keep-alives.
HeldIsInTransit ==
    \A c \in Client :
        ~ Alive /\ (r[c].at = "up" \/ (r[c].at = "sending" /\ r[c].then = "up"))
        /\ s[c].at \in {"up", "sending"} /\ receiver = "up" /\ lost = 0 =>
            InTransit(c) = (IF r[c].holds THEN 1 ELSE 0)

Stranded(c) == REnded(c) /\ \E i \in DOMAIN rfifo[c] : rfifo[c][i].kind = "send"

\* rs232_r waits for ever in its Send to a surrogate that has ended or is hung,
\* and no conduit gets a frame on this host any more.
Jammed(h) ==
    /\ ~ None(reader[h]) /\ reader[h].kind # "locate"
    /\ LET c == reader[h].of IN
       \/ h = "A" /\ (REnded(c) \/ r[c].at = "hung")
       \/ h = "B" /\ SEnded(c)

\* Every Send that surrogate_r has received returns, unless a frame is lost or
\* rs232_r waits for ever, or keep-alives are off and the receiver has left.
SendReturns ==
    \A c \in Client :
        client[c].at = "sending" ~>
            \/ client[c].at # "sending" \/ Stranded(c) \/ lost > 0
            \/ (\E h \in Host : Jammed(h)) \/ (~ Alive /\ receiver = "gone")

\* Keep-alives see to it that a client that leaves takes both surrogates with it,
\* also when frames are lost, as long as rs232_r and rs232_w go on.
BothEnd ==
    \A c \in Client :
        Alive /\ ClientGone(c) ~>
            \/ (REnded(c) \/ r[c].at = "hung") /\ SEnded(c)
            \/ (\E h \in Host : Jammed(h)) \/ Faults
=============================================================================
