------------------------------ MODULE SimplIpc ------------------------------
(***************************************************************************)
(* The SIMPL library calls of simplipc/src/simpl.c and the part of         *)
(* simplipc/src/simplUtils.c they run on: blocking Send, Receive, Reply,   *)
(* Relay and Trigger between local processes.  A process owns two named    *)
(* pipes, the receive fifo and the reply fifo, and one shared memory       *)
(* segment that carries its outgoing request and the reply to it.          *)
(*                                                                         *)
(* A step is what one process does between two points at which another     *)
(* process, a signal or a kill can come between.  A process identity is    *)
(* one attachment: a program that runs again is another element of Proc.   *)
(***************************************************************************)
EXTENDS Naturals, Sequences, FiniteSets

CONSTANTS
    Proc,         \* processes, also the identities of their shm segments
    Proxy,        \* proxy values of Trigger, the negative ids of a FIFO_MSG
    ProxyOne,     \* the FIFO_MSG of -1: proxy 1, and "no shm" to the library
    Peers,        \* whom a process may look up with name_locate
    MaxBlocked,   \* MAX_NUM_BLOCKED_SENDERS, slots of _simpl_blockedSenderId
    MaxSends,     \* bound: Sends made by each process
    MaxTriggers,  \* bound: Triggers fired by each process
    FifoCap,      \* capacity of a pipe in FIFO_MSGs; a writer waits when full
    Killable,     \* processes that may get an untrappable signal
    Exitable,     \* processes that may exit, detach or get a trapped signal
    AsyncExit,    \* may a trapped signal strike inside a library call?
    RelayAny      \* may an application relay any sender, or the last one only?

ASSUME ProcAssumption == IsFiniteSet(Proc)
ASSUME ProxyAssumption == Proc \cap Proxy = {} /\ ProxyOne \in Proxy
ASSUME PeersAssumption == Peers \in [Proc -> SUBSET Proc]
ASSUME BoundsAssumption ==
    /\ MaxBlocked \in Nat /\ FifoCap \in Nat
    /\ MaxSends \in [Proc -> Nat] /\ MaxTriggers \in [Proc -> Nat]
ASSUME EnvironmentAssumption ==
    /\ Killable \subseteq Proc /\ Exitable \subseteq Proc
    /\ AsyncExit \in BOOLEAN /\ RelayAny \in BOOLEAN

VARIABLES
    pc,         \* where a process is, see PcState
    call,       \* the peer and the trigger value of the call in progress
    fifo,       \* receive fifo: shm ids of senders and proxies
    yfifo,      \* reply fifo: "ok" (shmid 0) or "err" (shmid -1)
    shm,        \* segment of a process: the request or the reply in it
    inbox,      \* inbox[r][s]: request of s as r copied it out of the segment
    attached,   \* attached[r]: senders whose segment r has attached
    blocked,    \* _simpl_blockedSenderId of a process
    senderShm,  \* _simpl_sender_shmid of a process
    located,    \* receivers a process has an open fd for
    files,      \* do the two fifos of a process exist in the directory?
    segv,       \* is a process inside its SIGSEGV handler?
    sends,      \* Sends made so far, the content of the next request
    kicks       \* Triggers fired so far

vars == <<pc, call, fifo, yfifo, shm, inbox, attached, blocked, senderShm,
          located, files, segv, sends, kicks>>

PcState == {"new", "run", "sendWait", "received", "open", "write", "written",
            "hung", "relayed", "locate", "detach", "closed", "gone", "killed"}
Op == {"none", "receive", "reply", "error", "release", "relay", "locate"}
Answer == {"ok", "err"}
Request == Nat
Call == [op : Op, peer : Proc, val : Answer]
Segment == [tag : {"none", "req", "rep"}, n : Request]

NoCall(p) == [op |-> "none", peer |-> p, val |-> "ok"]

\* No pipe and no table outgrows its limit.
Limits ==
    \A p \in Proc : Len(fifo[p]) <= FifoCap /\ Cardinality(blocked[p]) <= MaxBlocked

\* Every variable has its type, and the table of blocked senders and the pipes
\* keep within their limits: saveSenderId never writes past the table.
TypeOK ==
    /\ pc \in [Proc -> PcState]
    /\ call \in [Proc -> Call]
    /\ fifo \in [Proc -> Seq(Proc \cup Proxy)]
    /\ yfifo \in [Proc -> Seq(Answer)]
    /\ shm \in [Proc -> Segment]
    /\ inbox \in [Proc -> [Proc -> Request]]
    /\ attached \in [Proc -> SUBSET Proc]
    /\ blocked \in [Proc -> SUBSET Proc]
    /\ senderShm \in [Proc -> Proc \cup Proxy]
    /\ located \in [Proc -> SUBSET Proc]
    /\ files \in [Proc -> BOOLEAN]
    /\ segv \in [Proc -> BOOLEAN]
    /\ sends \in [Proc -> Request]
    /\ kicks \in [Proc -> Nat]
    /\ Limits

Init ==
    /\ pc = [p \in Proc |-> "new"]
    /\ call = [p \in Proc |-> NoCall(p)]
    /\ fifo = [p \in Proc |-> <<>>]
    /\ yfifo = [p \in Proc |-> <<>>]
    /\ shm = [p \in Proc |-> [tag |-> "none", n |-> 0]]
    /\ inbox = [p \in Proc |-> [s \in Proc |-> 0]]
    /\ attached = [p \in Proc |-> {}]
    /\ blocked = [p \in Proc |-> {}]
    /\ senderShm = [p \in Proc |-> ProxyOne]
    /\ located = [p \in Proc |-> {}]
    /\ files = [p \in Proc |-> FALSE]
    /\ segv = [p \in Proc |-> FALSE]
    /\ sends = [p \in Proc |-> 0]
    /\ kicks = [p \in Proc |-> 0]

-----------------------------------------------------------------------------
(* What the operating system sees.                                         *)

\* The process has both its fifos open, so a write to them succeeds.
Open(p) == pc[p] \notin {"new", "closed", "gone", "killed"}

\* The segment was marked IPC_RMID when it was made: it lives as long as its
\* owner or a receiver has it attached.
ShmExists(s) ==
    pc[s] \notin {"new", "gone", "killed"} \/ \E r \in Proc : s \in attached[r]

\* The application of p is between two library calls, or blocked in Receive.
Running(p) == pc[p] = "run"

\* The process is running name_detach, or is no more.
Leaving(p) == pc[p] \in {"detach", "closed", "gone", "killed"} \/ call[p].op = "release"

(* Pieces of the steps.                                                    *)

\* Mutant: a write that went through is retried.
KickTwice(q, m) == fifo[q] \o <<m, m>>

\* The fifo of q after one more FIFO_MSG was written to it.
Kick(q, m) == Append(fifo[q], m)

\* Mutants: no check for room, and the last slot is never used.
SaveSenderIdUnchecked(p, s) == blocked[p] \cup {s}
SaveSenderIdOffByOne(p, s) ==
    IF Cardinality(blocked[p]) + 1 < MaxBlocked THEN blocked[p] \cup {s}
                                                ELSE blocked[p]

\* saveSenderId: a full table drops the sender and nobody looks at the result.
SaveSenderId(p, s) ==
    IF Cardinality(blocked[p]) < MaxBlocked THEN blocked[p] \cup {s}
                                            ELSE blocked[p]

\* Mutant: the sender stays in the table.
KeepSenderId(p, s) == blocked[p]

\* removeSenderId
RemoveSenderId(p, s) == blocked[p] \ {s}

\* Mutant: the reply is not copied into the segment.
NotFilled(p, s) == [shm[s] EXCEPT !.tag = "rep", !.n = 0]

\* The segment of s once the reply of p to the request it took is in it.
Filled(p, s) == [tag |-> "rep", n |-> inbox[p][s]]

\* The process p ends without running its clean up: the kernel closes and
\* detaches everything, the two fifos stay in the directory.
Die(p) ==
    /\ pc' = [pc EXCEPT ![p] = "killed"]
    /\ call' = [call EXCEPT ![p] = NoCall(p)]
    /\ fifo' = [fifo EXCEPT ![p] = <<>>]
    /\ yfifo' = [yfifo EXCEPT ![p] = <<>>]
    /\ inbox' = [inbox EXCEPT ![p] = [s \in Proc |-> 0]]
    /\ attached' = [attached EXCEPT ![p] = {}]
    /\ blocked' = [blocked EXCEPT ![p] = {}]
    /\ senderShm' = [senderShm EXCEPT ![p] = ProxyOne]
    /\ located' = [located EXCEPT ![p] = {}]
    /\ UNCHANGED <<shm, files, segv, sends, kicks>>

\* p touches memory it has not mapped while dealing with the blocked senders
\* left.  The handler of SIGSEGV starts name_detach over; a second fault finds
\* the signal blocked and kills the process.
Fault(p, left) ==
    \/ /\ ~ segv[p]
       /\ segv' = [segv EXCEPT ![p] = TRUE]
       /\ pc' = [pc EXCEPT ![p] = "detach"]
       /\ call' = [call EXCEPT ![p] = NoCall(p)]
       /\ blocked' = [blocked EXCEPT ![p] = left]
       /\ UNCHANGED <<fifo, yfifo, shm, inbox, attached, senderShm, located,
                      files, sends, kicks>>
    \/ segv[p] /\ Die(p)

\* Mutant: an error return that forgets to tell the sender.
GoAnswerUntold(p, s, op, val) ==
    /\ pc' = [pc EXCEPT ![p] = IF val = "err" THEN "run" ELSE "open"]
    /\ call' = [call EXCEPT ![p] = IF val = "err" THEN NoCall(p)
                                 ELSE [op |-> op, peer |-> s, val |-> val]]
    /\ attached' = [attached EXCEPT ![p] = @ \ {s}]
    /\ inbox' = [inbox EXCEPT ![p][s] = 0]

\* p detaches the segment of s and goes on to open the reply fifo of s.
GoAnswer(p, s, op, val) ==
    /\ pc' = [pc EXCEPT ![p] = "open"]
    /\ call' = [call EXCEPT ![p] = [op |-> op, peer |-> s, val |-> val]]
    /\ attached' = [attached EXCEPT ![p] = @ \ {s}]
    /\ inbox' = [inbox EXCEPT ![p][s] = 0]

\* Where p continues when its call is over: name_detach goes on with its loop.
BackFrom(p) == IF call[p].op = "release" THEN "detach" ELSE "run"

EndCall(p) ==
    /\ pc' = [pc EXCEPT ![p] = BackFrom(p)]
    /\ call' = [call EXCEPT ![p] = NoCall(p)]

-----------------------------------------------------------------------------
(* name_attach and name_locate.                                            *)

Attach(p) ==
    /\ pc[p] = "new"
    /\ pc' = [pc EXCEPT ![p] = "run"]
    /\ files' = [files EXCEPT ![p] = TRUE]
    /\ UNCHANGED <<call, fifo, yfifo, shm, inbox, attached, blocked, senderShm,
                   located, segv, sends, kicks>>

\* name_locate finds the fifo of q and the process that owns it.
LocateStat(p, q) ==
    /\ Running(p) /\ q \in Peers[p] \ located[p]
    /\ files[q] /\ pc[q] # "killed"
    /\ pc' = [pc EXCEPT ![p] = "locate"]
    /\ call' = [call EXCEPT ![p] = [op |-> "locate", peer |-> q, val |-> "ok"]]
    /\ UNCHANGED <<fifo, yfifo, shm, inbox, attached, blocked, senderShm,
                   located, files, segv, sends, kicks>>

\* It then opens the fifo for writing: the open waits while the fifo has no
\* reader, and fails when the fifo is gone.
LocateOpen(p) ==
    /\ pc[p] = "locate"
    /\ LET q == call[p].peer IN
       \/ /\ Open(q)
          /\ located' = [located EXCEPT ![p] = @ \cup {q}]
          /\ EndCall(p)
       \/ /\ ~ Open(q) /\ ~ files[q]
          /\ EndCall(p)
          /\ UNCHANGED located
       \/ /\ ~ Open(q) /\ files[q]
          /\ pc' = [pc EXCEPT ![p] = "hung"]
          /\ UNCHANGED <<call, located>>
    /\ UNCHANGED <<fifo, yfifo, shm, inbox, attached, blocked, senderShm,
                   files, segv, sends, kicks>>

-----------------------------------------------------------------------------
(* Send and Trigger.                                                       *)

\* Send fills the segment, then kicks the receive fifo of q.  A fifo nobody
\* reads gives EPIPE and Send returns -1.
SendWrite(p, q) ==
    /\ Running(p) /\ q \in located[p] /\ sends[p] < MaxSends[p]
    /\ sends' = [sends EXCEPT ![p] = @ + 1]
    /\ shm' = [shm EXCEPT ![p] = [tag |-> "req", n |-> sends[p] + 1]]
    /\ \/ /\ Open(q) /\ Len(fifo[q]) < FifoCap
          /\ fifo' = [fifo EXCEPT ![q] = Kick(q, p)]
          /\ pc' = [pc EXCEPT ![p] = "sendWait"]
       \/ /\ ~ Open(q)
          /\ UNCHANGED <<fifo, pc>>
    /\ UNCHANGED <<call, yfifo, inbox, attached, blocked, senderShm, located,
                   files, segv, kicks>>

\* Send reads its reply fifo and returns, -1 when the message says "err".
SendReturn(p) ==
    /\ pc[p] = "sendWait" /\ yfifo[p] # <<>>
    /\ yfifo' = [yfifo EXCEPT ![p] = Tail(@)]
    /\ pc' = [pc EXCEPT ![p] = "run"]
    /\ UNCHANGED <<call, fifo, shm, inbox, attached, blocked, senderShm,
                   located, files, segv, sends, kicks>>

Trigger(p, q, v) ==
    /\ Running(p) /\ q \in located[p] /\ kicks[p] < MaxTriggers[p]
    /\ Open(q) /\ Len(fifo[q]) < FifoCap
    /\ fifo' = [fifo EXCEPT ![q] = Kick(q, v)]
    /\ kicks' = [kicks EXCEPT ![p] = @ + 1]
    /\ UNCHANGED <<pc, call, yfifo, shm, inbox, attached, blocked, senderShm,
                   located, files, segv, sends>>

-----------------------------------------------------------------------------
(* Receive.                                                                *)

\* The read of the receive fifo.  A proxy is returned at once.
ReceiveRead(p) ==
    /\ Running(p) /\ fifo[p] # <<>>
    /\ LET m == Head(fifo[p]) IN
       /\ senderShm' = [senderShm EXCEPT ![p] = m]
       /\ \/ /\ m \in Proc
             /\ pc' = [pc EXCEPT ![p] = "received"]
             /\ call' = [call EXCEPT ![p] =
                           [op |-> "receive", peer |-> m, val |-> "ok"]]
          \/ /\ m \in Proxy
             /\ UNCHANGED <<pc, call>>
    /\ fifo' = [fifo EXCEPT ![p] = Tail(@)]
    /\ UNCHANGED <<yfifo, shm, inbox, attached, blocked, located, files, segv,
                   sends, kicks>>

\* The rest of Receive: attach the segment, copy the message, save the sender.
\* A message larger than the buffer is answered with ReplyError.  When the
\* segment is gone, ReplyError is handed the failed pointer and reads it.
ReceiveAttach(p) ==
    /\ pc[p] = "received"
    /\ LET s == call[p].peer IN
       \/ /\ ShmExists(s)
          /\ attached' = [attached EXCEPT ![p] = @ \cup {s}]
          /\ inbox' = [inbox EXCEPT ![p][s] = shm[s].n]
          /\ blocked' = [blocked EXCEPT ![p] = SaveSenderId(p, s)]
          /\ EndCall(p)
          /\ UNCHANGED <<fifo, yfifo, shm, senderShm, located, files, segv,
                         sends, kicks>>
       \/ /\ ShmExists(s)
          /\ GoAnswer(p, s, "error", "err")
          /\ blocked' = [blocked EXCEPT ![p] = RemoveSenderId(p, s)]
          /\ UNCHANGED <<fifo, yfifo, shm, senderShm, located, files, segv,
                         sends, kicks>>
       \/ ~ ShmExists(s) /\ Fault(p, blocked[p])

-----------------------------------------------------------------------------
(* Reply, ReplyError and Relay.                                            *)

\* Reply to a sender p holds: the reply goes into the segment when it fits in
\* the buffer of the sender, else the sender is told of the error.
ReplyStart(p, s) ==
    /\ Running(p) /\ s \in attached[p]
    /\ \/ /\ GoAnswer(p, s, "reply", "ok")
          /\ shm' = [shm EXCEPT ![s] = Filled(p, s)]
       \/ /\ GoAnswer(p, s, "reply", "err")
          /\ UNCHANGED shm
    /\ UNCHANGED <<fifo, yfifo, blocked, senderShm, located, files, segv,
                   sends, kicks>>

\* Reply and ReplyError open the reply fifo of the sender, which waits as long
\* as the fifo has no reader.
AnswerOpen(p) ==
    /\ pc[p] = "open"
    /\ LET s == call[p].peer IN
       \/ /\ Open(s)
          /\ pc' = [pc EXCEPT ![p] = "write"]
          /\ UNCHANGED call
       \/ /\ ~ Open(s) /\ ~ files[s]
          /\ EndCall(p)
       \/ /\ ~ Open(s) /\ files[s]
          /\ pc' = [pc EXCEPT ![p] = "hung"]
          /\ UNCHANGED call
    /\ UNCHANGED <<fifo, yfifo, shm, inbox, attached, blocked, senderShm,
                   located, files, segv, sends, kicks>>

\* ... and write the trigger that unblocks the sender.
AnswerWrite(p) ==
    /\ pc[p] = "write"
    /\ LET s == call[p].peer IN
       \/ /\ Open(s)
          /\ yfifo' = [yfifo EXCEPT ![s] = Append(@, call[p].val)]
          /\ \/ /\ call[p].op = "reply"
                /\ pc' = [pc EXCEPT ![p] = "written"]
                /\ UNCHANGED call
             \/ /\ call[p].op # "reply"
                /\ EndCall(p)
       \/ /\ ~ Open(s)
          /\ EndCall(p)
          /\ UNCHANGED yfifo
    /\ UNCHANGED <<fifo, shm, inbox, attached, blocked, senderShm, located,
                   files, segv, sends, kicks>>

\* Only a Reply that went through forgets the sender.
ReplyFinish(p) ==
    /\ pc[p] = "written"
    /\ senderShm' = [senderShm EXCEPT ![p] = ProxyOne]
    /\ blocked' = [blocked EXCEPT ![p] = RemoveSenderId(p, call[p].peer)]
    /\ EndCall(p)
    /\ UNCHANGED <<fifo, yfifo, shm, inbox, attached, located, files, segv,
                   sends, kicks>>

\* Whom an application relays: anyone it holds, or who it received last.
MayRelay(p, s) == RelayAny \/ senderShm[p] = s

\* Relay writes the global _simpl_sender_shmid, whatever sender it is asked to
\* relay.
RelayWrite(p, s, q) ==
    /\ Running(p) /\ s \in attached[p] /\ q \in located[p]
    /\ MayRelay(p, s)
    /\ \/ /\ Open(q) /\ Len(fifo[q]) < FifoCap
          /\ fifo' = [fifo EXCEPT ![q] = Kick(q, senderShm[p])]
          /\ pc' = [pc EXCEPT ![p] = "relayed"]
          /\ call' = [call EXCEPT ![p] =
                        [op |-> "relay", peer |-> s, val |-> "ok"]]
          /\ UNCHANGED located
       \/ /\ ~ Open(q)
          /\ located' = [located EXCEPT ![p] = @ \ {q}]
          /\ UNCHANGED <<fifo, pc, call>>
    /\ UNCHANGED <<yfifo, shm, inbox, attached, blocked, senderShm, files,
                   segv, sends, kicks>>

RelayFinish(p) ==
    /\ pc[p] = "relayed"
    /\ LET s == call[p].peer IN
       /\ blocked' = [blocked EXCEPT ![p] = RemoveSenderId(p, s)]
       /\ attached' = [attached EXCEPT ![p] = @ \ {s}]
       /\ inbox' = [inbox EXCEPT ![p][s] = 0]
    /\ senderShm' = [senderShm EXCEPT ![p] = ProxyOne]
    /\ EndCall(p)
    /\ UNCHANGED <<fifo, yfifo, shm, located, files, segv, sends, kicks>>

-----------------------------------------------------------------------------
(* Leaving: name_detach, exit, signals, kills, and cleaning up after them.  *)

Interruptible ==
    {"run", "sendWait", "hung"} \cup
    IF AsyncExit THEN {"received", "open", "write", "written", "relayed",
                       "locate"}
                 ELSE {}

\* name_detach is called, by the application, at exit or by the handler of a
\* trapped signal.
Exit(p) ==
    /\ p \in Exitable /\ pc[p] \in Interruptible
    /\ pc' = [pc EXCEPT ![p] = "detach"]
    /\ call' = [call EXCEPT ![p] = NoCall(p)]
    /\ UNCHANGED <<fifo, yfifo, shm, inbox, attached, blocked, senderShm,
                   located, files, segv, sends, kicks>>

\* name_detach hands one saved sender to ReplyError, which forgets it and then
\* reads its segment.  A pointer that was detached before either faults or,
\* when a later attach was given its address, answers that other sender.
DetachRelease(p, s) ==
    /\ pc[p] = "detach" /\ s \in blocked[p]
    /\ \/ /\ s \in attached[p]
          /\ GoAnswer(p, s, "release", "err")
          /\ blocked' = [blocked EXCEPT ![p] = RemoveSenderId(p, s)]
          /\ UNCHANGED <<fifo, yfifo, shm, senderShm, located, files, segv,
                         sends, kicks>>
       \/ /\ s \notin attached[p]
          /\ Fault(p, RemoveSenderId(p, s))
       \/ /\ s \notin attached[p]
          /\ \E t \in attached[p] : GoAnswer(p, t, "release", "err")
          /\ blocked' = [blocked EXCEPT ![p] = RemoveSenderId(p, s)]
          /\ UNCHANGED <<fifo, yfifo, shm, senderShm, located, files, segv,
                         sends, kicks>>

\* name_detach then closes both fifos, and only after that removes them: who
\* opens one of them in between finds no reader.
DetachClose(p) ==
    /\ pc[p] = "detach" /\ blocked[p] = {}
    /\ pc' = [pc EXCEPT ![p] = "closed"]
    /\ fifo' = [fifo EXCEPT ![p] = <<>>]
    /\ yfifo' = [yfifo EXCEPT ![p] = <<>>]
    /\ UNCHANGED <<call, shm, inbox, attached, blocked, senderShm, located,
                   files, segv, sends, kicks>>

\* It detaches the segment and removes the fifos, and the process is no more.
DetachRemove(p) ==
    /\ pc[p] = "closed"
    /\ pc' = [pc EXCEPT ![p] = "gone"]
    /\ files' = [files EXCEPT ![p] = FALSE]
    /\ inbox' = [inbox EXCEPT ![p] = [s \in Proc |-> 0]]
    /\ attached' = [attached EXCEPT ![p] = {}]
    /\ located' = [located EXCEPT ![p] = {}]
    /\ UNCHANGED <<call, fifo, yfifo, shm, blocked, senderShm, segv, sends, kicks>>

Kill(p) == p \in Killable /\ pc[p] \notin {"new", "gone", "killed"} /\ Die(p)

\* simplCheckProcess removes the fifos of a process that no longer runs.
CheckProcess(p, q) ==
    /\ Running(p) /\ q \in attached[p] \cup Peers[p]
    /\ pc[q] = "killed" /\ files[q]
    /\ files' = [files EXCEPT ![q] = FALSE]
    /\ UNCHANGED <<pc, call, fifo, yfifo, shm, inbox, attached, blocked,
                   senderShm, located, segv, sends, kicks>>

-----------------------------------------------------------------------------
\* What a process does inside a library call it has entered.
Continue(p) ==
    \/ LocateOpen(p) \/ SendReturn(p) \/ ReceiveAttach(p)
    \/ AnswerOpen(p) \/ AnswerWrite(p) \/ ReplyFinish(p) \/ RelayFinish(p)
    \/ \E s \in Proc : DetachRelease(p, s)
    \/ DetachClose(p) \/ DetachRemove(p)

\* What a server does with what it gets: receive, then reply or relay.
Serve(p) ==
    \/ ReceiveRead(p)
    \/ \E s \in Proc : ReplyStart(p, s) \/ \E q \in Proc : RelayWrite(p, s, q)

Next ==
    \E p \in Proc :
       \/ Attach(p) \/ Continue(p) \/ Serve(p) \/ Exit(p) \/ Kill(p)
       \/ \E q \in Proc :
             \/ LocateStat(p, q) \/ SendWrite(p, q) \/ CheckProcess(p, q)
             \/ \E v \in Proxy : Trigger(p, q, v)

Spec == Init /\ [][Next]_vars

\* The scheduler runs every process, and the applications are servers that
\* keep receiving and replying.  Nothing is assumed of who sends, exits or is
\* killed.
Fairness == \A p \in Proc : WF_vars(Continue(p)) /\ WF_vars(Serve(p))

FairSpec == Spec /\ Fairness

-----------------------------------------------------------------------------
(* Where the one message of a blocked sender is.                           *)

Waiting(s) == pc[s] = "sendWait"

Answered(s) == yfifo[s] # <<>>

\* The message of s is in the receive fifo of r.
QueuedAt(s, r) == \E i \in DOMAIN fifo[r] : fifo[r][i] = s

\* r has received the message of s and not yet answered or relayed it.
HeldBy(s, r) ==
    \/ pc[r] \in {"received", "open", "write"} /\ call[r].peer = s
    \/ s \in attached[r] /\ ~ (pc[r] = "relayed" /\ call[r].peer = s)

Queued(s) == \E r \in Proc : QueuedAt(s, r)
Held(s) == \E r \in Proc : HeldBy(s, r)

\* A process that is not in a Send has no answer pending and no message left
\* anywhere: Send never returns early and no answer comes twice.
IdleIsClean(s) ==
    ~ Waiting(s) => ~ Answered(s) /\ ~ Queued(s) /\ ~ Held(s)

\* The message of a blocked sender is in one place only.
InOnePlace(s) ==
    /\ Answered(s) => Len(yfifo[s]) = 1 /\ ~ Queued(s) /\ ~ Held(s)
    /\ Queued(s) => ~ Held(s)
    /\ \A r, q \in Proc :
          /\ HeldBy(s, r) /\ HeldBy(s, q) => r = q
          /\ \A i \in DOMAIN fifo[r], j \in DOMAIN fifo[q] :
                fifo[r][i] = s /\ fifo[q][j] = s => r = q /\ i = j

\* Send, Receive, Reply and Relay pass on the one token of a blocked sender:
\* at most one process may answer it, it is answered at most once per Send,
\* and no answer outlives the Send it is for.  (_simpl_readFifoMsg in Send
\* takes whatever the reply fifo holds; nothing ties an answer to a request.)
OneReply == \A s \in Proc : ~ Leaving(s) => IdleIsClean(s) /\ InOnePlace(s)

\* When Send is about to return a reply, the segment it copies the reply from
\* holds the reply to the request of this very Send, computed from that request
\* and not from an older one: requests and replies share the segment.
EndToEnd ==
    \A s \in Proc :
        Waiting(s) /\ Answered(s) /\ Head(yfifo[s]) = "ok"
            => shm[s] = [tag |-> "rep", n |-> sends[s]]

\* The message of a blocked sender is never lost: as long as it waits it is
\* in a receive fifo, with a receiver, or answered.
Accounted ==
    \A s \in Proc : Waiting(s) => Answered(s) \/ Queued(s) \/ Held(s)

\* Every sender that p holds is in its table of blocked senders, so that
\* name_detach can release it, whenever the table has room for all of them.
HeldIsTracked ==
    \A p \in Proc : Open(p) => attached[p] \subseteq blocked[p]

\* No process ever touches memory it has not mapped: its own clean up after a
\* sender that went away must not bring a receiver down.
NoFault == \A p \in Proc : ~ segv[p]

\* Every Send returns.
SendReturns == \A s \in Proc : Waiting(s) ~> ~ Waiting(s)

\* A sender that a receiver has taken is answered or passed on, even when the
\* receiver leaves between two of its calls; only a receiver that hangs itself,
\* in the open of a fifo without a reader, keeps it waiting.
HeldIsReleased ==
    \A s \in Proc :
        Waiting(s) /\ Held(s) ~>
            \/ ~ Waiting(s) \/ Answered(s) \/ Queued(s)
            \/ \E r \in Proc : HeldBy(s, r) /\ pc[r] = "hung"

-----------------------------------------------------------------------------
(* Why OneReply and EndToEnd hold: an inductive invariant.                 *)

\* A reply is sent after the segment was detached, and only name_detach
\* releases.
Structure ==
    \A p \in Proc :
        /\ pc[p] \in {"open", "write"} => call[p].peer \notin attached[p]
        /\ call[p].op = "release" => pc[p] \in {"open", "write", "hung"}

\* OneReply once more, without the existential quantifiers.
TokenOf(s) ==
    /\ Answered(s) => Waiting(s) /\ Len(yfifo[s]) = 1
    /\ \A r \in Proc : Answered(s) => ~ QueuedAt(s, r) /\ ~ HeldBy(s, r)
    /\ \A r \in Proc : QueuedAt(s, r) => Waiting(s)
    /\ \A r, q \in Proc : QueuedAt(s, r) => ~ HeldBy(s, q)
    /\ \A r \in Proc : HeldBy(s, r) => Waiting(s)
    /\ \A r, q \in Proc : HeldBy(s, r) /\ HeldBy(s, q) => r = q
    /\ \A r, q \in Proc : QueuedAt(s, r) /\ QueuedAt(s, q) => r = q
    /\ \A r \in Proc : \A i, j \in DOMAIN fifo[r] :
          fifo[r][i] = s /\ fifo[r][j] = s => i = j

OneToken == \A s \in Proc : ~ Leaving(s) => TokenOf(s)

\* What is in the segment of a sender follows its message on its way.
ContentAt(s, r) ==
    /\ QueuedAt(s, r) => shm[s] = [tag |-> "req", n |-> sends[s]]
    /\ pc[r] = "received" /\ call[r].peer = s
          => shm[s] = [tag |-> "req", n |-> sends[s]]
    /\ s \in attached[r] /\ HeldBy(s, r)
          => shm[s] = [tag |-> "req", n |-> sends[s]] /\ inbox[r][s] = sends[s]
    /\ pc[r] \in {"open", "write"} /\ call[r].peer = s /\ call[r].val = "ok"
          => shm[s] = [tag |-> "rep", n |-> sends[s]]

AnswerContent(s) ==
    Answered(s) /\ Head(yfifo[s]) = "ok" => shm[s] = [tag |-> "rep", n |-> sends[s]]

Content ==
    \A s \in Proc : ~ Leaving(s) =>
        AnswerContent(s) /\ \A r \in Proc : ContentAt(s, r)

\* Every step of the library preserves this, when no trapped signal strikes
\* inside a call and only the sender received last is relayed.
IInv == TypeOK /\ Structure /\ OneToken /\ Content
=============================================================================
