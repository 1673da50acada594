# SIMPL in TLA+

Specifications, model-checking runs and machine-checked proofs for SIMPL, a C
library and a set of daemons for blocking Send/Receive/Reply message passing:
`src/simplipc` (the library), `src/surrogates` (the programs that carry messages
between hosts) and the utilities around them.

## 1. The system

### Components, their state and their operations

| component | code | state | operations | where it is modelled |
|---|---|---|---|---|
| SIMPL calls | `simplipc/src/simpl.c`, `simplUtils.c` | per process: a receive fifo, a reply fifo, one shared memory segment for request and reply, the table of blocked senders, the id received last, descriptors of located receivers | `name_attach`, `name_locate`, `Send`, `Receive`, `Reply`, `ReplyError`, `Relay`, `Trigger`, `name_detach`, signal handler, `simplCheckProcess` | `SimplIpc` |
| names | the same files | the directory `FIFO_PATH` with `name.pid` and `Yname.pid`, the process table | attach, sweep orphans, locate, check, detach | `SimplNames` |
| protocol router | `surrogates/protocol_router` | `protocolTable`: offers of surrogate children | announce, request, dump | `ProtocolRouter` |
| tcp parent | `surrogates/tcp/src/surrogate_R.c` | the child it forked last | fork, announce, wait | `ProtocolRouter` |
| tcp surrogates r and s | `surrogate_rr.c`, `surrogate_ss.c`, `surrogate_S.c` | one TCP connection, the sender held by r, `kaCounter` on both sides | remote name locate, message, proxy, keep-alive, close, error, time-outs | `TcpSurrogate` |
| rs232 surrogates | `surrogates/rs232` | one serial line per direction, frames addressed by token and process id, one segment and one reply fifo in each surrogate_s | the same over `rs232_r` and `rs232_w`, which are SIMPL programs themselves | `Rs232` |
| tcp_x | `surrogates/tcp_x` | a conduit set up from either end, `receiving`, renamed fifos | remote `name_locate` and `name_attach`, connector, listener, clone | `TcpX` |
| tclSurrogate | `surrogates/tclSurrogate` | one socket to an applet, `myblockedSenders`, `waitingForAck` | the select loop and every token of `hndlSocket` | `TclSurrogate` |
| sandboxRelay, fclogger, fcshow, fcslay, binstr, benchmarks | `simplUtils`, `fclogger`, `binstr`, `benchmarks` | small | relay, log, kill, convert, measure | not modelled, see section 6 |

### How they interact

A **Send** writes the request into the sender's own segment, writes the segment's
id (four bytes) into the receiver's fifo and reads its reply fifo. **Receive**
reads the id, attaches the segment and notes the sender in a table. **Reply**
overwrites the segment with the reply, detaches it, opens the sender's reply fifo
by name and writes four bytes. **Relay** hands the id on to another receiver.
Nothing but these bytes says whose turn it is; there are no sequence numbers, no
locks and no time-outs. A **remote name_locate** asks the protocol router (a SIMPL
server) for a surrogate, which a protocol parent (a SIMPL client of the router)
has forked in advance; the client then talks to the surrogate as to a local
receiver, and the surrogate to its partner on the other host: over a TCP
connection of its own (`tcp`, `tcp_x`), or through the two programs that share a
serial line (`rs232`). In `tcp_x` a receiver may also attach its name on the other
host. A **tclSurrogate** child gives an applet at the other end of a socket a SIMPL
name.

### What makes it hard

- *Interleaving.* Every call is several system calls; processes, trapped signals
  and untrappable kills come between any two of them. `name_attach` looks and then
  makes; `name_detach` closes and then removes; `Receive` reads an id and then attaches
  what may be gone.
- *One place for two things.* A process has one segment and one reply fifo. A
  surrogate that has posted a request and then Sends something else uses both
  twice.
- *Stale state.* Pointers into detached segments stay in the table of blocked
  senders and in the surrogates' `sender`; process ids in file names may belong to
  someone else; orphaned fifos are swept late.
- *Failure.* A killed process leaves its fifos without readers, and an `open` of such
  a fifo for writing never returns. A server that leaves must release the senders it
  holds. The network may stop delivering without closing the connection, the line
  may lose a frame. A connector whose set-up fails does not end but goes on as if it
  were its own parent.
- *Everyone waiting on everyone.* `rs232_r` passes a frame on by a Send, surrogates
  Send to `rs232_w`, and `rs232_w` waits while the line is full.
- *Limits.* 40 blocked senders, 32 slots of the tcl surrogate, 10 protocols, the pipe.
- *Time-outs.* Keep-alives are counted on both sides of a connection; the tcl
  surrogate gives an applet some seconds to acknowledge.

### What makes each component correct

- SIMPL calls: one answer per Send, by one process, to this request; no message
  lost; a server that leaves releases whom it holds; no access to unmapped memory.
- Names: two programs never hold one name; a program's fifos are never swept while it
  runs; a name is refused only when taken (or half taken, by the program itself).
- Router: a surrogate child serves one client; a parent waits exactly until its
  child is given away; every request is answered.
- Conduits: end to end what a local Send promises; a client that is held has one
  request or answer on its way; a conduit ends when either end ends, and not while it
  is well; a conduit that could not be set up holds nobody.
- tclSurrogate: an answer goes to the sender in whose name the applet gave it; every
  sender received is answered when the applet answers, stops or leaves.

`PROJECT.json` lists the hazards at their lines with the properties that cover them.

## 2. Modules

| module | models | state ↔ code |
|---|---|---|
| `SendReceiveReply` | the promise to a caller of Send: a request is queued, held, passed on, answered once, with the answer to this request; abstract | - |
| `SimplIpc` | the library calls between local processes | `fifo`, `yfifo`: the two pipes; `shm`: segment; `blocked`: `_simpl_blockedSenderId`; `senderShm`: `_simpl_sender_shmid`; `attached`: `shmat` minus `shmdt`; `files`: the two names in the directory; `pc`, `call`: where in which call |
| `SimplIpcPromise` | the refinement mapping from `SimplIpc` to `SendReceiveReply` | `PhaseOf`, `AnswerOf`: what a sender's call, the fifos and the segments say of its request |
| `MCSimplIpc` | instances of both | - |
| `SimplIpcProofs` | theorems about `SimplIpc` and its refinement | - |
| `SimplNames`, `MCSimplNames`, `SimplNamesProofs` | the directory and everybody who looks at it or changes it | `host`: how the host is run; `dir`: directory entries with their maker; `Beyond`: the number `atoi` finds behind a name and a dot in a longer name; `pid`: `_simpl_myStuff.pid`; `saw`: what a look has found; `pc`: between which two system calls |
| `ProtocolRouter`, `MCProtocolRouter`, `ProtocolRouterProofs` | router, parents, children, clients | `table`: `protocolTable`; `box`: the router's receive fifo; `given`: the answer to a client |
| `TcpSurrogate` | one conduit: client, r, TCP connection, s, receiver | `holds`: r's global `sender` is valid; `rMissed`, `sMissed`: `kaCounter`; `toS`, `toR`: the two directions of the stream; `sent`, `got`: history |
| `FifoLemmas` | lemmas about counting and ordering the messages of a fifo, for the proofs about conduits | - |
| `TcpSurrogateProofs`, `TcpXProofs`, `Rs232Proofs`, `TclSurrogateProofs` | theorems about `TcpSurrogate`, `TcpX`, `Rs232` and `TclSurrogate` | - |
| `Rs232`, `MCRs232` | conduits that share one serial line, one per client | `setup`: how the conduits are used, `alive`: `kaTimeout` is not 0; `r`, `s`: the surrogates with `kaCounter`, `sender` and the frame their Send offers; `seg`, `yfifo`: the one segment and reply fifo of surrogate_s; `writer`: the fifo of `rs232_w`; `line`: frames on the line with the one being written; `reader`: the frame `rs232_r`'s Send offers |
| `TcpX` | one conduit of tcp_x, for a `name_locate` (`how = "locate"`) or a `name_attach` (`"attach"`) | `front`: surrogate_r or surrogate_rt with `receiving`, `sender`, `kaCounter`; `back`: surrogate_s or surrogate_st; `named`: the name `_simpl_FifoRename` gave the front |
| `TclSurrogate` | a child, its applet, its senders and the program the applet sends to | `slot`: `myblockedSenders`; `held`: the library's table; `child.waiting`: `waitingForAck`; `toChild`, `toApplet`: the socket; `todo`: what the applet has yet to answer |

A step of `SimplIpc` and `SimplNames` ends wherever another process can see or
change what the call has read or written. Where a call is cut: `Receive` between the
read of the fifo and the attach; `Reply`, `ReplyError` before the open of the fifo, before
the write, and (Reply) before `removeSenderId`; `Relay` after the write; `name_locate`
before the open; `name_detach` before each release, before the close and before the
removal. The other modules take Send, Receive and Reply at the level of
`SendReceiveReply` (a message waits in a box; its sender waits for one answer), and
their steps are whole turns of a server's loop; what a server risks in Reply - a
dead peer, a fifo without a reader - is kept as an outcome of the step (`hung`,
`faulted`, `down`). The router faults when it receives the announcement of a parent that
has left or was killed, whose segment went with it; a surrogate_st that cannot find its
receiver again goes back into the loop of its parent (`stray`). `Rs232` goes one level lower for surrogate_s, whose segment and
reply fifo serve two purposes at once, and for the Sends to and from `rs232_rw`,
which block: there "sending" is a state and a blocked process does nothing else.

Data is abstract: a request is its number, a name or protocol a model value, a file
name the pair of a prefix and a process id. A segment holds "request n" or "reply to
n", which is what `EndToEnd` needs to tell a reply from an older one.

## 3. Runs

| run | instance | what it shows |
|---|---|---|
| `service` | 2 clients, front server, back server, a proxy; the front server replies, relays or itself sends; nobody leaves | the promise `SendReceiveReply` is kept (`KeepsPromise`: one answer, the right one), nothing lost (`Accounted`), every Send returns (`SendReturns`), the table of blocked senders is never written past its one slot |
| `server_exit` | the same, servers leave between two calls, table of size 2 | every held sender is saved (`HeldIsTracked`) and released (`HeldIsReleased`), without a fault (`NoFault`) |
| `kills` | 2 clients that send twice, 1 server, all may leave or be killed | survivors keep `OneReply` and `EndToEnd`; `IInv` is the inductive invariant of the proof |
| `names` | 3 programs, 2 want one name, killed anywhere, any mkfifo, chmod or open fails; hosts: one attach at a time; concurrent; process ids that come back, a program at nice -1 and one whose `opendir` fails; names `a`, `a.1` and `a.x` | `UniqueName` for attaches one at a time, `FilesKept` (also: `name_detach` leaves nothing, on any host), `RefusedMeansTaken` |
| `router` | 2 protocols, 2 clients, 3 children, one parent exits, one parent and one child are killed | `OneClientPerSurrogate`, `ParentIsTracked`, `RequestAnswered`, `KeepsOffering` |
| `tcp` | one client with 2 Sends and 1 Trigger; everybody may leave or be killed, the network may stop | `EndToEnd` (with the order of messages), `HeldIsInTransit`, `OnlyDeadGivenUp`, `SendReturns`, `BothEnd` |
| `rs232` | a line of two frames. With keep-alives: one client that asks once, with a frame that may get lost, or a kill and a receiver that may leave; two clients of which one is killed. Without: one client that sends or triggers twice, with everything that may happen; two clients on one line, of which one leaves | `EndToEnd` and `HeldIsInTransit` without keep-alives, `SendReturns`, `BothEnd`, as long as `rs232_r` does not wait for ever |
| `tcpx` | a conduit set up from either end, 2 Sends or Triggers; client and receiver may leave, client and both surrogates may be killed, the network may stop | `EndToEnd` (with: `name_attach` succeeds only when the name is attached), `ToggleIsRight` (a front listens to its fifo exactly while it holds nobody), `StrayHoldsNobody` (a connector that returns into its parent's loop has told whoever asked it), `SendReturns`, `BothEnd` |
| `tcl` | 2 senders, 2 messages each, 1 slot; the applet asks twice and may leave or hang, its target may leave or be killed before or after it receives, somebody triggers the child | `EndToEnd` (slots are used again, and no answer goes to an earlier holder of a slot), `HeldIsOut` (whom the child has received is with the applet), `SenderReturns` |

Each property of these runs has a mutant of the code in `PROJECT.json` (an operator
defined just before the one it replaces) that breaks it.

Three runs end in a counterexample to something the repository says; the findings
quote it:

| run | what happens |
|---|---|
| `receive_from_dead` | Receive of a message whose sender has left hands the failed pointer to `ReplyError`: SIGSEGV (`simpl.c:783`) |
| `rs232_alive` | a keep-alive follows a request, at once if the timer says so: `select` leaves the rest of the interval in `tv` (`surrogate_rr.c:126-186`). surrogate_s answers it by a Send of its own, through the segment that holds the posted request and the reply fifo the receiver will write to: the client gets an answer that is not the receiver's (`surrogate_ss.c:412`) |
| `tcpx_clone` | a client looks up an attached name; the front asks the router for a child of `SIMPL_TCP`, the connectors are offered as `SIMPL_X_TCP`: the clone fails and the conduit ends before the client's first Send (`tcp_x/src/surrogate_s.c:617`) |

### Bounds

- Sends and Triggers per process (`MaxSends`, `MaxTriggers`, `MaxAsks`): two Sends are
  needed and enough for an answer to outlive its Send and meet the next one.
- `FifoCap`: a pipe of two messages; a writer waits when it is full, as with a real
  pipe. `MaxBlocked`: 1, 2 or 4 slots instead of 40; what counts is whether the table
  has room for all held senders, and the runs use exactly as much (or as little).
- Three programs in `names`: an owner, a competitor, and a third one that sweeps,
  looks up or takes over a process id.
- `Slots = 2` in `router`: one per parent; three children, so that a parent is let go
  and announces again. `Slots = 1` in `tcl`: the second sender finds no slot.
- `Limit = 1`, `Drift = 1`: one unanswered keep-alive instead of three, with the
  two timers of `tcp` at the same rate. In `rs232` 0 or 1.
- `names`: one host with dots is enough, since what `atoi` reads behind the dot is either
  the id of some process (`a.1`) or no number (`a.x`).
- `LineRoom = 2` in `rs232`: a line with room for the frame being written
  and one more; the loss can strike a request, an answer, a keep-alive or a close.
  With `LineRoom = 1` everyone waits on everyone (below). `Setups` splits what may happen
  over five ways to use the line (`MCRs232`), because everything at once is too much for a
  run with liveness: two conduits share the line with requests but no keep-alives, or the other
  way round. `rs232_w` does fault there (`Faults`), and on either host `rs232_r` does wait for
  ever while another client is held (`Jammed`); what the bounds do not reach is a second surrogate_s whose own Send then fails
  (the branch `SEnds` of `SSends`). `Rs232Proofs` has the invariants for any number of conduits.

`CHECK_DEADLOCK FALSE` in every configuration: programs end, clients stop sending,
children run out; a state in which nobody has anything left to do is normal. That nobody
waits who should not is what the liveness properties say.

### Fairness

- `SimplIpc`: weak fairness of `Continue(p)` (the scheduler runs a process that is in
  the middle of a call) and of `Serve(p)` (an application that is a server goes on
  receiving and replying). None on clients, exits, signals or kills.
- `ProtocolRouter`: weak fairness of each process; parents fork while children last.
- `TcpSurrogate`, `TcpX`, `Rs232`: weak fairness of each process, and strong fairness of the
  time-outs and of surrogate_s reading its reply fifo. Linux' `select` leaves the time
  that remains in `tv`, which the code resets only when it has run out, so traffic cannot
  put a time-out off for ever; and keep-alives are seconds apart, so the socket, which is
  looked at first, cannot keep s from its reply fifo. On a system whose `select` leaves
  `tv` alone, each keep-alive restarts the timer of s, which then never looks after
  the receiver: `SendReturns` is not claimed there.
- `prompt` in `TcpSurrogate`: when it is TRUE a time-out of r comes only when nothing is on
  its way (a keep-alive is answered within the 10 seconds between two of them), and s
  times out at most `Drift` times between two time-outs of r. `OnlyDeadGivenUp` is stated
  for this case; all other properties hold without it too.
- `Rs232`: each host's `rs232_w` and `rs232_r` go on as long as one of them can (`Wire`). Option
  `-k 0` turns keep-alives off (`surrogateInit.c:69,98`), so `Alive` is a constant of a behaviour.
  Where they are on, a time-out may come at any moment at which nothing can be received,
  and the time-outs and surrogate_s' reading of its reply fifo are strongly fair for the
  clients that may leave or be killed (`Kept`). Without keep-alives surrogate_s does not look after its
  receiver: `SendReturns` exempts a receiver that has left, and `BothEnd` is about keep-alives.
- `TclSurrogate`: weak fairness of the child (its acknowledgement timer included), of the
  applet taking and answering what it is sent as long as it is neither hung nor gone,
  of the target receiving and answering, unless it leaves or is killed, and of senders
  returning from Send.

### Where the code does not keep a property

Some properties are stated under a condition because the code breaks them outside it;
each is a hazard in `PROJECT.json`. What TLC shows when the condition is dropped:

- more held senders than slots: the last one is not saved (`simplUtils.c:1297`);
- `RelayAny = TRUE`: `Relay` of a sender other than the last one received passes on the
  wrong message, and `Accounted` fails (`simpl.c:1033`);
- `AsyncExit = TRUE`: a trapped signal inside `Relay` releases a sender that was passed
  on; its next Send gets the reply to the previous one, and `EndToEnd` fails (`simpl.c:1046`);
- an answer to a client inside `name_detach` blocks in the open of a fifo that is closed
  but not yet removed (`simpl.c:511`), and a Reply to a process killed by SIGKILL never
  returns (`simpl.c:987`), nor does the router's to a killed parent: the models have
  `hung`, and liveness exempts the process that hangs;
- two programs that attach one name at once both get it (`simplUtils.c:630`): `UniqueName`
  is stated for hosts where attaches come one after another;
- an owner at nice -1 or a process id that came back (`simplUtils.c:1131`), or an `opendir` that
  fails, which counts as a directory without a match (`simplUtils.c:1105`): `Plain` excludes them;
- names with dots: a search for `a` takes any entry that begins with `a.` and reads a process id
  with `atoi` from what follows (`simplUtils.c:1116-1119`). It takes `a.7.12` for a fifo of process 7 and, when 7
  is gone, removes the fifos of process 12 that runs as `a.7`; it takes `a.b.12` for a fifo of process
  0, which to `getpriority` is the caller, and refuses `a` although nobody has it. And a name that
  is another one with a Y before it has the file name of the other's reply fifo. `Plain` asks
  that no names in use are like that (`NamesApart`); the run has a host with such names;
- a `name_attach` whose second fifo fails leaves the first (`simplUtils.c:645`), and the program's own
  retry is refused: `RefusedMeansTaken` says so;
- rs232 with keep-alives: one that follows a request mixes up its answer with the request's
  (`surrogate_ss.c:412`), and no receiver is prompt enough to prevent it. `EndToEnd` and `HeldIsInTransit` are
  stated for conduits without keep-alives; `RightReply` is `EndToEnd` with them, and `rs232_alive` refutes it;
- `rs232_r` waits for ever in its Send to a surrogate that ends or hangs before it has received the
  frame (`rs232_rw.c:363`), and `rs232_w` faults when it receives a frame of a surrogate_s that
  has ended: every conduit of that host stands still. `SendReturns` exempts the first
  (`Jammed`), `BothEnd` both (`Jammed`, `Faults`). A frame whose segment was written over by a null
  reply of `rs232_w` has no known token and is dropped by `rs232_r`;
- messages not yet received when a server or surrogate leaves: nobody answers
  them (`simpl.c:485`); `HeldIsReleased` and the conduits' `SendReturns` speak of received ones;
- a full table of the router drops an announcement (`protocolRouter.c:162`): a slot per
  parent is assumed;
- surrogate_r answers a sender it has detached when its peer ends quietly
  (`surrogate_rr.c:565`): it faults (`faulted`), at a moment when it holds nobody;
- `rs232` with room for one frame only: `rs232_w` waits for room on the full line while `rs232_r`
  of the other host waits for a surrogate that waits for its own `rs232_w`, and `BothEnd` fails
  (`rs232_rw.c:363`);
- the tcl child faults when a Send it makes for the applet fails (`tclSurroSocket.c:278`) and when a
  message without a slot is answered; a single flag stands for all unacknowledged
  messages, so an applet that stops after one acknowledgement is not noticed:
  `SenderReturns` exempts a fault and an applet that hangs after it has acknowledged;
- the program an applet sends to leaves with the message unread in its fifo, or is killed:
  the child never returns from that Send, and hears neither its applet nor its senders
  (`tclSurroSocket.c:269`). `SenderReturns` exempts it (`target = "lost"`);
- a target that sends to the applet while the applet sends to it: both wait
  (the same line); the model's target does not send;
- an applet that attaches its name a second time loses the senders in between
  (`tclSurroSocket.c:154`); the model's applet attaches once.

## 4. Proofs

The listed theorems, each for any values of the constants that satisfy the modules'
assumptions and the condition named here.

| module | theorem | condition |
|---|---|---|
| `SimplIpcProofs` | `TypeCorrect`: types, limits of pipes and tables | - |
| | `Invariance`, `OneReplyHolds`, `EndToEndHolds` | `~ RelayAny`, `~ AsyncExit` |
| | `HeldIsTrackedHolds` | `Room`: a slot per process |
| | `AccountedHolds` | `~ RelayAny`; `Stay`: nobody may leave or be killed |
| | `NoFaultHolds` | `SendersStay`: who may leave or be killed does not send; `~ AsyncExit` |
| | `PromiseKept`: `SimplIpc` implements `SendReceiveReply` | `~ RelayAny`, `~ AsyncExit` |
| `ProtocolRouterProofs` | `TypeCorrect`, `OneClientHolds` | - |
| | `ParentIsTrackedHolds` | `Room`: finitely many parents, a slot for each |
| `SimplNamesProofs` | `TypeCorrect`, `UniqueNameHolds`, `FilesKeptHolds`, `RefusedMeansTakenHolds` | `Plain`, in the properties themselves: no reuse of process ids, no nice value of -1, a readable directory, no name in use that is another one up to a dot or with a Y before it (`NamesApart`); `UniqueName` also `serial` |
| `TcpSurrogateProofs` | `TypeCorrect`, `HeldTransitHolds`, `EndToEndHolds` | - |
| | `OnlyDeadIsGivenUp` | `TimersFit`: `Limit >= 1`, `Drift <= Limit` |
| `TcpXProofs` | `TypeCorrect`, `EndToEndHolds`, `ToggleHolds`, `StrayHolds` | - |
| `Rs232Proofs` | `TypeCorrect` | - |
| | `EndToEndHolds`, `HeldTransitHolds` | `~ Alive`, in the properties themselves: no keep-alives |
| `TclSurrogateProofs` | `TypeCorrect`, `EndToEndHolds`, `HeldIsOutHolds` | - |

The conditions are those under which the code keeps the property (section 3 says what
happens outside them), not conveniences of the proofs. `TimersFit` holds of the program:
`KEEP_ALIVE_FAIL_LIMIT` is 3, and both surrogates count time-outs of the same length. Whether there
are keep-alives on a serial line is the option `-k`; `rs232_alive` shows that this condition
cannot go.

**One token per message** (`SimplIpcProofs`). `OneReply` is not inductive: it says nothing
about the content of segments and quantifies over unspecified holders. `IInv` is
`TypeOK /\ Structure /\ OneToken /\ Content`. `OneToken` says that the message of a sender that
is not leaving is a token in at most one place - one position of one receive fifo, one
holder, or one answer - and is nowhere unless the sender is blocked in Send. `Content`
attaches to each place what the segment must hold there: the request while it is queued
or held, the reply from the moment it is written. `Structure` says that a reply is sent
after its segment was detached, which is what makes "held" end when "answering" begins.
A leaving process is exempt: its clean up may answer through a stale pointer, and its own
answers are nobody's any more. The proof of a step goes by the variable a place depends
on (`FifoStep`, `HeldStep`, `WaitStep`, `ShmStep`, ...): each lemma says what any step can
do to that place, and the preservation lemmas combine them, so that no lemma treats all
actions for all conjuncts.

**Nobody is forgotten** (`SimplIpcProofs`). `HeldIsTracked` fails in the middle of a Reply
unless one knows that the sender being answered is no longer attached, because
`removeSenderId` forgets it before the call is over: `Table` adds that, and `SavedAlways`
shows by a count that a table with a slot for each process never drops a sender. This
holds with signals inside calls and with any relay. `AccountedHolds` is the opposite of
`OneReply`: not "in at most one place" but "in at least one". `Quiet` says that with nobody
leaving no process is in `name_detach` and every id in a fifo, in a call or in
`_simpl_sender_shmid` is of a process that has attached, so that Receive always finds the
segment. Then each step either leaves a place alone or hands the message to the next
(`QueuedKept`, `HeldKept`, `AnsweredKept`, `ComesToWait`).

`NoFaultHolds` needs the same places for another reason: an id in a fifo, in a call or in
the table names a segment that exists as long as its owner cannot leave.

**What Send promises** (`SimplIpcProofs`). A step of the library maps to a step of
`SendReceiveReply` or changes nothing there. The mapping reads the phase of a sender off the one
place its token is in, so `OneToken` is what makes a step of one process leave the phases of
the others alone, and `Content` what makes the answer that is mapped to be the answer to this
request. The proof has one lemma per call, each with the step of the abstract specification
it is.

**A request and its way round** (`TcpSurrogateProofs`, `TcpXProofs`). `HeldIsInTransit` and
`ToggleIsRight` are not inductive: a message could be of an earlier request, or be on its way for a
client that has never sent. The invariant follows the one request a client can have: in
the surrogate's fifo, held by r with one thing on its way - request, message being worked on,
or answer - or answered (`OneOut`, `Transit`); all of these carry the number of the client's current
request (`Current`), and what comes back was received (`Received`). Before the conduit is up there
is nothing of the kind anywhere (`Stages`; in `TcpX` `Setup`, `Attachment` and `Opening`, for either end that
may have asked). The number of requests on their way is a sum over five places; each action
has a lemma that says what goes in and out of which fifo, what that does to the sum, and
then goes through the parts of the invariant. For the order of messages
`TcpSurrogateProofs` adds `Stream`: what the receiver has got, followed by what is in the fifos and the
connection, is what the client sent, a statement about the concatenation of fifos for
which `FifoLemmas` has the lemmas (`Carries`). `OnlyDeadIsGivenUp` has an invariant of its own, `Clock`: a time-out
that r has counted has its keep-alive still on the way, and s has counted no more
time-outs than have run out since r's last one.

**Many conduits, one line** (`Rs232Proofs`). The theorems hold for any number of clients that
share a line, which is more than TLC can reach with liveness. The invariant is `Types /\ Counted /\
(Alive \/ Orderly)`; `Counted` says that no keep-alive counter runs over while its surrogate goes on.
`Orderly` says of the shared parts only what kinds of frames go which way
(`Kinds`) and that who waits for `rs232_w` is in its fifo once (`Writers`). The rest speaks of
one conduit. Frames are counted per client: on the way down (offered by surrogate_r, on the line,
offered by `rs232_r`), on the way up, and with the receiver (its fifo, what it works on, the word
in surrogate_s' reply fifo). A client has at most one request out (`OneOut`), the look-up is alone on its
conduit until surrogate_s runs (`LookUp`), and a request or answer is in one of these places at
most, and in one exactly while surrogate_r holds its sender and nothing was lost (`Transit`). `Current` says
that it is the client's present request, also in the segment, which holds the request until the
receiver overwrites it with the reply. What makes `EndToEnd` hold although segment and reply fifo of
surrogate_s serve two purposes is `InTurn`: a Trigger has no request of its client before it on
its way, so surrogate_s never Sends an error of its own while a request is posted. A
keep-alive is exactly what breaks it. With `Writers`, nobody of whom a frame waits for `rs232_w` has
ended, so without keep-alives `Faults` never holds. Since frames are counted per client, a step of one
conduit leaves the counts of the others alone (`OthersKeep`, `Bystander`), and each action has to be
looked at for its own conduit only.

**A slip and its slot** (`TclSurrogateProofs`). A relayed message is followed as a slip of a slot
and a word, through the socket, the applet and the socket back. `EndToEnd` needs that the slot
the applet names still has the sender it was given to, so the invariant says of every slip
that it is in one place (`Apart`), the only one of its sender (`Single`), that it carries the message
the sender waits for and that the slot it names has that sender (`Current`); of the slots that
they have held senders and no sender twice (`Table`); and, while the applet has not left, that
whoever is held and every slot in use has a slip (`Complete`). `HeldIsOut` compares numbers; that
they are equal follows from pairing senders, slots and slips off (`SameNumber`). Nothing is said
of the tables of a child that has ended: what is left then is that those it released have one
error each (`EndKeeps`), and that those it held and did not release have none.

**The life of an announcement** (`ProtocolRouterProofs`). An announcement waits in the router's box,
then in one slot, and its child stays the last one its parent forked until the parent has
been unblocked (`BoxInv`, `TableInv`, `KidInv`). `GivenInv` adds that a child that was given
away is in neither place any more, which is why no second client can get it. `Tracked` uses
`RoomForOne`: offers in the table are of different parents, so that with a slot for each
one is free for the parent that has none there.

**Who may remove what** (`SimplNamesProofs`). A process id is one program's (`Ids`); an entry was
made by the program in its name, which has not yet removed it (`Made`), and where that
program stands says which entries it has (`Own`); who sweeps has seen an id of a program
that is dead (`SawDead`), which needs names that are apart (`Plain`): only then is the id it read the
id of the entry. From these, a late sweep cannot hit a live program's fifos. `OneEach` says
that while attaches come one after another there is one receive fifo per name.

Each `IInv` was checked as an invariant of the corresponding instance before it was
proved (`kills` still does so for `SimplIpc`).

**Only model-checked.** Liveness (`SendReturns`, `HeldIsReleased`, `RequestAnswered`,
`KeepsOffering`, `BothEnd`, `SenderReturns`) and anything under fairness or with ENABLED is
beyond the proof system used here. So are proofs by induction over data and about
RECURSIVE operators; the modules have none. Every invariant and action property of the
runs has a theorem.

## 5. Plan

1. *Done:* `SimplIpc` with `SendReceiveReply`; `SimplNames`; `ProtocolRouter`; `TcpSurrogate`; `Rs232`;
   `TcpX`; `TclSurrogate`; the proofs of section 4, the refinement and all conduits among them.
2. *Extend if wanted:* the remote branches of `name_attach` and `name_detach` in the library, with the
   state of a program whose remote attach failed half way; the listener's own end;
   several conduits in `TcpX`, should clones be repaired.

## 6. Not modelled, and why

- Message contents, sizes and memory layout (`createShmem`, `postMsg`, `readReply`), text conversion
  of headers (`SUR_CHR`, `binstr`): data the properties above do not tell apart, computed
  within one step of one process. The errors of arithmetic found there by reading are
  hazards with a note.
- `sandboxRelay`, `fclogger`, `fcshow`, `fcslay`, the benchmarks: each is a sender or a receiver in a loop;
  `SimplIpc`'s front and back servers and clients include what they do.
- `tcp_x/src/name_attach.c`: a copy of library code that no program uses.
- A surrogate_rt whose handler returns -1 leaves a listener child that spins on a closed socket;
  noise inside an rs232 frame; the parent of the tcl surrogate beyond one accept; start-up options
  everywhere: left out of the modules named.
- Partial reads and writes of a pipe or socket: four-byte writes to a pipe are atomic;
  `surRead` loops.
- The protocol router's dump and the utilities that only print.
