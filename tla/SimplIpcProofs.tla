--------------------------- MODULE SimplIpcProofs ---------------------------
(***************************************************************************)
(* Theorems about SimplIpc, for any set of processes and any limits:       *)
(*   - TypeCorrect: the types, the limits of pipes and of tables;          *)
(*   - OneReplyHolds, EndToEndHolds: a Send gets one answer, the one to    *)
(*     its own request;                                                    *)
(*   - HeldIsTrackedHolds: with a slot for each process, whoever a process *)
(*     holds is in its table of blocked senders, however signals and kills *)
(*     strike and whoever is relayed;                                      *)
(*   - NoFaultHolds: while those who send stay, no process touches memory  *)
(*     it has not mapped, whoever leaves or is killed of the others;       *)
(*   - AccountedHolds: while nobody leaves, no message is lost;            *)
(*   - PromiseKept: each step of the library is a step of the journey of   *)
(*     one request in SendReceiveReply, a departure that loses requests,   *)
(*     or no step of it at all.                                            *)
(***************************************************************************)
EXTENDS SimplIpcPromise, FiniteSetTheorems, SequenceTheorems, TLAPS

-----------------------------------------------------------------------------
(* Every variable keeps its type.  Three groups keep the leaves small.     *)

CallTypes == pc \in [Proc -> PcState] /\ call \in [Proc -> Call]

DataTypes ==
    /\ fifo \in [Proc -> Seq(Proc \cup Proxy)]
    /\ yfifo \in [Proc -> Seq(Answer)]
    /\ shm \in [Proc -> Segment]
    /\ inbox \in [Proc -> [Proc -> Request]]

TableTypes ==
    /\ attached \in [Proc -> SUBSET Proc]
    /\ blocked \in [Proc -> SUBSET Proc]
    /\ senderShm \in [Proc -> Proc \cup Proxy]
    /\ located \in [Proc -> SUBSET Proc]
    /\ files \in [Proc -> BOOLEAN]
    /\ segv \in [Proc -> BOOLEAN]
    /\ sends \in [Proc -> Request]
    /\ kicks \in [Proc -> Nat]

Types == CallTypes /\ DataTypes /\ TableTypes

\* Writing one more item to a pipe keeps the type of the pipes.
LEMMA AppendType ==
  ASSUME NEW S, NEW f \in [Proc -> Seq(S)], NEW p \in Proc, NEW v \in S
  PROVE  [f EXCEPT ![p] = Append(f[p], v)] \in [Proc -> Seq(S)]
  OBVIOUS

\* Taking the head off a pipe that is not empty does so too.
LEMMA TailType ==
  ASSUME NEW S, NEW f \in [Proc -> Seq(S)], NEW p \in Proc, f[p] # <<>>
  PROVE  /\ [f EXCEPT ![p] = Tail(f[p])] \in [Proc -> Seq(S)]
         /\ Head(f[p]) \in S
  OBVIOUS

\* The fields of a call in progress have their types.
LEMMA CallFields ==
  ASSUME Types, NEW p \in Proc
  PROVE  call[p].peer \in Proc /\ call[p].val \in Answer /\ call[p].op \in Op
  BY DEF Types, CallTypes, Call

\* How a process continues after a call.
LEMMA EndCallTypes ==
  ASSUME Types, NEW p \in Proc, EndCall(p) PROVE CallTypes'
  BY DEF Types, CallTypes, EndCall, BackFrom, PcState, Call, Op, Answer, NoCall

\* Starting to answer a sender keeps the types it touches.
LEMMA GoAnswerTypes ==
  ASSUME Types, NEW p \in Proc, NEW s \in Proc, NEW op \in Op, NEW val \in Answer,
         GoAnswer(p, s, op, val)
  PROVE  /\ CallTypes'
         /\ attached' \in [Proc -> SUBSET Proc]
         /\ inbox' \in [Proc -> [Proc -> Request]]
<1>1. CallTypes'
  BY DEF Types, CallTypes, GoAnswer, PcState, Call
<1>2. attached' \in [Proc -> SUBSET Proc]
  BY DEF Types, TableTypes, GoAnswer
<1>3. inbox' \in [Proc -> [Proc -> Request]]
  BY DEF Types, DataTypes, GoAnswer, Request
<1>. QED  BY <1>1, <1>2, <1>3

\* So does the end of a process,
LEMMA DieTypes == ASSUME Types, NEW p \in Proc, Die(p) PROVE Types'
<1>1. CallTypes'
  BY DEF Types, CallTypes, Die, PcState, Call, Op, Answer, NoCall
<1>2. DataTypes'
  BY DEF Types, DataTypes, Die, Request
<1>3. TableTypes'
  BY ProxyAssumption DEF Types, TableTypes, Die
<1>. QED  BY <1>1, <1>2, <1>3 DEF Types

\* ... a fault,
LEMMA FaultTypes ==
  ASSUME Types, NEW p \in Proc, NEW left \in SUBSET Proc, Fault(p, left)
  PROVE  Types'
<1>1. CASE segv[p] /\ Die(p)
  BY <1>1, DieTypes
<1>2. CASE ~ (segv[p] /\ Die(p))
  <2>1. CallTypes'
    BY <1>2 DEF Types, CallTypes, Fault, PcState, Call, Op, Answer, NoCall
  <2>2. DataTypes' /\ TableTypes'
    BY <1>2 DEF Types, DataTypes, TableTypes, Fault
  <2>. QED  BY <2>1, <2>2 DEF Types
<1>. QED  BY <1>1, <1>2

\* ... and the initial state has the types.
LEMMA TypesInit == Init => Types
<1>. SUFFICES ASSUME Init PROVE Types
  OBVIOUS
<1>1. CallTypes
  BY DEF Init, CallTypes, PcState, Call, Op, Answer, NoCall
<1>2. DataTypes
  BY DEF Init, DataTypes, Segment, Request
<1>3. TableTypes
  BY ProxyAssumption DEF Init, TableTypes, Request
<1>. QED  BY <1>1, <1>2, <1>3 DEF Types

\* One step of a process, the alternatives of Next spelled out.
StepOf(p) ==
    \/ Attach(p) \/ LocateOpen(p) \/ SendReturn(p) \/ ReceiveAttach(p)
    \/ AnswerOpen(p) \/ AnswerWrite(p) \/ ReplyFinish(p) \/ RelayFinish(p)
    \/ DetachClose(p) \/ DetachRemove(p) \/ ReceiveRead(p) \/ Exit(p) \/ Kill(p)
    \/ \E s \in Proc : DetachRelease(p, s) \/ ReplyStart(p, s)
    \/ \E q \in Proc : LocateStat(p, q) \/ SendWrite(p, q) \/ CheckProcess(p, q)
    \/ \E s \in Proc, q \in Proc : RelayWrite(p, s, q)
    \/ \E q \in Proc, v \in Proxy : Trigger(p, q, v)

\* A step of the system is a step of one process.
LEMMA NextIsStep == Next <=> \E p \in Proc : StepOf(p)
  BY DEF Next, StepOf, Continue, Serve

\* No step of a process ruins a type.
LEMMA TypesStep == ASSUME Types, NEW p \in Proc, StepOf(p) PROVE Types'
<1>. USE DEF Types
<1>1. CASE Attach(p)
  BY <1>1 DEF Attach, CallTypes, DataTypes, TableTypes, PcState
<1>2. CASE LocateOpen(p)
  <2>1. CallTypes'
    BY <1>2, EndCallTypes DEF LocateOpen, CallTypes, PcState
  <2>2. located' \in [Proc -> SUBSET Proc]
    BY <1>2, CallFields DEF LocateOpen, TableTypes
  <2>. QED  BY <1>2, <2>1, <2>2 DEF LocateOpen, DataTypes, TableTypes
<1>3. CASE SendReturn(p)
  <2>1. yfifo' \in [Proc -> Seq(Answer)]
    BY <1>3, TailType DEF SendReturn, DataTypes
  <2>. QED  BY <1>3, <2>1 DEF SendReturn, CallTypes, DataTypes, TableTypes, PcState
<1>4. CASE ReceiveAttach(p)
  <2>. DEFINE s == call[p].peer
  <2>1. s \in Proc /\ "error" \in Op /\ "err" \in Answer
    BY CallFields DEF Op, Answer
  <2>2. blocked[p] \in SUBSET Proc
    BY DEF TableTypes
  <2>3. CASE Fault(p, blocked[p])
    BY <2>2, <2>3, FaultTypes
  <2>4. CASE /\ GoAnswer(p, s, "error", "err")
             /\ blocked' = [blocked EXCEPT ![p] = RemoveSenderId(p, s)]
             /\ UNCHANGED <<fifo, yfifo, shm, senderShm, located, files, segv,
                            sends, kicks>>
    <3>1. /\ CallTypes' /\ attached' \in [Proc -> SUBSET Proc]
          /\ inbox' \in [Proc -> [Proc -> Request]]
      BY <2>1, <2>4, GoAnswerTypes
    <3>2. blocked' \in [Proc -> SUBSET Proc]
      BY <2>4 DEF TableTypes, RemoveSenderId
    <3>. QED  BY <2>4, <3>1, <3>2 DEF DataTypes, TableTypes
  <2>5. CASE /\ attached' = [attached EXCEPT ![p] = @ \cup {s}]
             /\ inbox' = [inbox EXCEPT ![p][s] = shm[s].n]
             /\ blocked' = [blocked EXCEPT ![p] = SaveSenderId(p, s)]
             /\ EndCall(p)
             /\ UNCHANGED <<fifo, yfifo, shm, senderShm, located, files, segv,
                            sends, kicks>>
    <3>1. CallTypes'
      BY <2>5, EndCallTypes
    <3>2. inbox' \in [Proc -> [Proc -> Request]]
      BY <2>1, <2>5 DEF DataTypes, Segment
    <3>3. /\ attached' \in [Proc -> SUBSET Proc]
          /\ blocked' \in [Proc -> SUBSET Proc]
      BY <2>1, <2>5 DEF TableTypes, SaveSenderId
    <3>. QED  BY <2>5, <3>1, <3>2, <3>3 DEF DataTypes, TableTypes
  <2>. QED  BY <1>4, <2>3, <2>4, <2>5 DEF ReceiveAttach
<1>5. CASE AnswerOpen(p)
  <2>1. CallTypes'
    BY <1>5, EndCallTypes DEF AnswerOpen, CallTypes, PcState
  <2>. QED  BY <1>5, <2>1 DEF AnswerOpen, DataTypes, TableTypes
<1>6. CASE AnswerWrite(p)
  <2>1. CallTypes'
    BY <1>6, EndCallTypes DEF AnswerWrite, CallTypes, PcState
  <2>2. yfifo' \in [Proc -> Seq(Answer)]
    <3>. DEFINE s == call[p].peer
    <3>1. [yfifo EXCEPT ![s] = Append(yfifo[s], call[p].val)] \in [Proc -> Seq(Answer)]
      BY CallFields, AppendType DEF DataTypes
    <3>. QED  BY <1>6, <3>1 DEF AnswerWrite, DataTypes
  <2>. QED  BY <1>6, <2>1, <2>2 DEF AnswerWrite, DataTypes, TableTypes
<1>7. CASE ReplyFinish(p)
  <2>1. CallTypes'
    BY <1>7, EndCallTypes DEF ReplyFinish
  <2>2. /\ senderShm' \in [Proc -> Proc \cup Proxy]
        /\ blocked' \in [Proc -> SUBSET Proc]
    BY <1>7, ProxyAssumption DEF ReplyFinish, TableTypes, RemoveSenderId
  <2>. QED  BY <1>7, <2>1, <2>2 DEF ReplyFinish, DataTypes, TableTypes
<1>8. CASE RelayFinish(p)
  <2>1. CallTypes'
    BY <1>8, EndCallTypes DEF RelayFinish
  <2>2. inbox' \in [Proc -> [Proc -> Request]]
    BY <1>8 DEF RelayFinish, DataTypes, Request
  <2>3. /\ senderShm' \in [Proc -> Proc \cup Proxy]
        /\ blocked' \in [Proc -> SUBSET Proc]
        /\ attached' \in [Proc -> SUBSET Proc]
    BY <1>8, ProxyAssumption DEF RelayFinish, TableTypes, RemoveSenderId
  <2>. QED  BY <1>8, <2>1, <2>2, <2>3 DEF RelayFinish, DataTypes, TableTypes
<1>9. ASSUME NEW s \in Proc, DetachRelease(p, s) PROVE Types'
  <2>1. RemoveSenderId(p, s) \in SUBSET Proc
    BY DEF TableTypes, RemoveSenderId
  <2>2. CASE Fault(p, RemoveSenderId(p, s))
    BY <2>1, <2>2, FaultTypes
  <2>3. ASSUME NEW t \in Proc, GoAnswer(p, t, "release", "err"),
               blocked' = [blocked EXCEPT ![p] = RemoveSenderId(p, s)],
               UNCHANGED <<fifo, yfifo, shm, senderShm, located, files, segv,
                           sends, kicks>>
        PROVE  Types'
    <3>1. "release" \in Op /\ "err" \in Answer
      BY DEF Op, Answer
    <3>2. /\ CallTypes' /\ attached' \in [Proc -> SUBSET Proc]
          /\ inbox' \in [Proc -> [Proc -> Request]]
      BY <2>3, <3>1, GoAnswerTypes
    <3>3. blocked' \in [Proc -> SUBSET Proc]
      BY <2>1, <2>3 DEF TableTypes
    <3>. QED  BY <2>3, <3>2, <3>3 DEF DataTypes, TableTypes
  <2>4. attached[p] \subseteq Proc
    BY DEF TableTypes
  <2>. QED  BY <1>9, <2>2, <2>3, <2>4 DEF DetachRelease
<1>10. CASE DetachClose(p)
  <2>1. CallTypes'
    BY <1>10 DEF DetachClose, CallTypes, PcState
  <2>2. DataTypes'
    BY <1>10 DEF DetachClose, DataTypes, Request
  <2>. QED  BY <1>10, <2>1, <2>2 DEF DetachClose, TableTypes
<1>11. CASE DetachRemove(p)
  <2>1. CallTypes'
    BY <1>11 DEF DetachRemove, CallTypes, PcState
  <2>2. DataTypes'
    BY <1>11 DEF DetachRemove, DataTypes, Request
  <2>. QED  BY <1>11, <2>1, <2>2 DEF DetachRemove, TableTypes
<1>12. CASE ReceiveRead(p)
  <2>1. fifo' \in [Proc -> Seq(Proc \cup Proxy)] /\ Head(fifo[p]) \in Proc \cup Proxy
    BY <1>12, TailType DEF ReceiveRead, DataTypes
  <2>2. CallTypes'
    <3>1. CASE Head(fifo[p]) \in Proc
      <4>1. /\ "received" \in PcState
            /\ [op |-> "receive", peer |-> Head(fifo[p]), val |-> "ok"] \in Call
        BY <3>1 DEF PcState, Call, Op, Answer
      <4>. QED  BY <1>12, <3>1, <4>1 DEF ReceiveRead, CallTypes
    <3>2. CASE Head(fifo[p]) \notin Proc
      BY <1>12, <3>2 DEF ReceiveRead, CallTypes
    <3>. QED  BY <3>1, <3>2
  <2>. QED  BY <1>12, <2>1, <2>2 DEF ReceiveRead, DataTypes, TableTypes
<1>13. ASSUME NEW s \in Proc, ReplyStart(p, s) PROVE Types'
  <2>1. "reply" \in Op /\ Answer = {"ok", "err"}
    BY DEF Op, Answer
  <2>2. /\ CallTypes' /\ attached' \in [Proc -> SUBSET Proc]
        /\ inbox' \in [Proc -> [Proc -> Request]]
    BY <1>13, <2>1, GoAnswerTypes DEF ReplyStart
  <2>3. shm' \in [Proc -> Segment]
    <3>1. Filled(p, s) \in Segment
      BY DEF DataTypes, Segment, Filled
    <3>. QED  BY <1>13, <3>1 DEF ReplyStart, DataTypes
  <2>. QED  BY <1>13, <2>2, <2>3 DEF ReplyStart, DataTypes, TableTypes
<1>14. ASSUME NEW s \in Proc, NEW q \in Proc, RelayWrite(p, s, q) PROVE Types'
  <2>1. CallTypes'
    BY <1>14 DEF RelayWrite, CallTypes, PcState, Call, Op, Answer
  <2>2. senderShm[p] \in Proc \cup Proxy
    BY DEF TableTypes
  <2>3. fifo' \in [Proc -> Seq(Proc \cup Proxy)]
    <3>1. [fifo EXCEPT ![q] = Kick(q, senderShm[p])] \in [Proc -> Seq(Proc \cup Proxy)]
      BY <2>2, AppendType DEF Kick, DataTypes
    <3>. QED  BY <1>14, <3>1 DEF RelayWrite, DataTypes
  <2>4. located' \in [Proc -> SUBSET Proc]
    <3>1. located \in [Proc -> SUBSET Proc]
      BY DEF TableTypes
    <3>2. located' = located \/ located' = [located EXCEPT ![p] = @ \ {q}]
      BY ONLY <1>14 DEF RelayWrite
    <3>. QED  BY ONLY <3>1, <3>2
  <2>. QED  BY <1>14, <2>1, <2>3, <2>4 DEF RelayWrite, DataTypes, TableTypes
<1>15. CASE Exit(p)
  <2>1. CallTypes'
    BY <1>15 DEF Exit, CallTypes, PcState, Call, Op, Answer, NoCall
  <2>. QED  BY <1>15, <2>1 DEF Exit, DataTypes, TableTypes
<1>16. CASE Kill(p)
  BY <1>16, DieTypes DEF Kill
<1>17. ASSUME NEW q \in Proc, LocateStat(p, q) PROVE Types'
  <2>1. CallTypes'
    BY <1>17 DEF LocateStat, CallTypes, PcState, Call, Op, Answer
  <2>. QED  BY <1>17, <2>1 DEF LocateStat, DataTypes, TableTypes
<1>18. ASSUME NEW q \in Proc, SendWrite(p, q) PROVE Types'
  <2>1. fifo' \in [Proc -> Seq(Proc \cup Proxy)]
    <3>1. [fifo EXCEPT ![q] = Kick(q, p)] \in [Proc -> Seq(Proc \cup Proxy)]
      BY AppendType DEF Kick, DataTypes
    <3>. QED  BY <1>18, <3>1 DEF SendWrite, DataTypes
  <2>2. sends[p] + 1 \in Request /\ sends' \in [Proc -> Request]
    BY <1>18 DEF SendWrite, TableTypes, Request
  <2>3. shm' \in [Proc -> Segment]
    BY <1>18, <2>2 DEF SendWrite, DataTypes, Segment
  <2>4. CallTypes'
    BY <1>18 DEF SendWrite, CallTypes, PcState
  <2>. QED  BY <1>18, <2>1, <2>2, <2>3, <2>4 DEF SendWrite, DataTypes, TableTypes
<1>19. ASSUME NEW q \in Proc, CheckProcess(p, q) PROVE Types'
  BY <1>19 DEF CheckProcess, CallTypes, DataTypes, TableTypes
<1>20. ASSUME NEW q \in Proc, NEW v \in Proxy, Trigger(p, q, v) PROVE Types'
  <2>1. fifo' \in [Proc -> Seq(Proc \cup Proxy)]
    BY <1>20, AppendType DEF Trigger, Kick, DataTypes
  <2>. QED  BY <1>20, <2>1 DEF Trigger, CallTypes, DataTypes, TableTypes
<1>. QED
  BY <1>1, <1>2, <1>3, <1>4, <1>5, <1>6, <1>7, <1>8, <1>9, <1>10, <1>11, <1>12,
     <1>13, <1>14, <1>15, <1>16, <1>17, <1>18, <1>19, <1>20 DEF StepOf


-----------------------------------------------------------------------------
(* What a step of p does to the other processes, and who leaves.           *)

\* A step of p leaves where the others are, and their requests, alone.
LEMMA Frame ==
  ASSUME Types, NEW p \in Proc, StepOf(p), NEW r \in Proc, r # p
  PROVE  /\ pc'[r] = pc[r] /\ call'[r] = call[r] /\ sends'[r] = sends[r]
         /\ attached'[r] = attached[r] /\ inbox'[r] = inbox[r]
<1>. USE DEF Types, CallTypes, DataTypes, TableTypes
<1>. DEFINE Same == /\ pc'[r] = pc[r] /\ call'[r] = call[r] /\ sends'[r] = sends[r]
                    /\ attached'[r] = attached[r] /\ inbox'[r] = inbox[r]
<1>1. CASE Attach(p)
  BY <1>1 DEF Attach
<1>2. CASE LocateOpen(p)
  BY <1>2 DEF LocateOpen, EndCall, BackFrom, NoCall
<1>3. CASE SendReturn(p)
  BY <1>3 DEF SendReturn
<1>4. CASE ReceiveAttach(p)
  BY <1>4 DEF ReceiveAttach, Fault, Die, GoAnswer, EndCall, BackFrom, NoCall
<1>5. CASE AnswerOpen(p)
  BY <1>5 DEF AnswerOpen, EndCall, BackFrom, NoCall
<1>6. CASE AnswerWrite(p)
  BY <1>6 DEF AnswerWrite, EndCall, BackFrom, NoCall
<1>7. CASE ReplyFinish(p)
  BY <1>7 DEF ReplyFinish, EndCall, BackFrom, NoCall
<1>8. CASE RelayFinish(p)
  BY <1>8 DEF RelayFinish, EndCall, BackFrom, NoCall
<1>9. ASSUME NEW s \in Proc, DetachRelease(p, s) PROVE Same
  BY <1>9 DEF DetachRelease, Fault, Die, GoAnswer, NoCall
<1>10. CASE DetachClose(p)
  BY <1>10 DEF DetachClose
<1>11. CASE DetachRemove(p)
  BY <1>11 DEF DetachRemove
<1>12. CASE ReceiveRead(p)
  BY <1>12 DEF ReceiveRead
<1>13. ASSUME NEW s \in Proc, ReplyStart(p, s) PROVE Same
  BY <1>13 DEF ReplyStart, GoAnswer
<1>14. ASSUME NEW s \in Proc, NEW q \in Proc, RelayWrite(p, s, q) PROVE Same
  BY <1>14 DEF RelayWrite
<1>15. CASE Exit(p)
  BY <1>15 DEF Exit, NoCall
<1>16. CASE Kill(p)
  BY <1>16 DEF Kill, Die, NoCall
<1>17. ASSUME NEW q \in Proc, LocateStat(p, q) PROVE Same
  BY <1>17 DEF LocateStat
<1>18. ASSUME NEW q \in Proc, SendWrite(p, q) PROVE Same
  BY <1>18 DEF SendWrite
<1>19. ASSUME NEW q \in Proc, CheckProcess(p, q) PROVE Same
  BY <1>19 DEF CheckProcess
<1>20. ASSUME NEW q \in Proc, NEW v \in Proxy, Trigger(p, q, v) PROVE Same
  BY <1>20 DEF Trigger
<1>. QED
  BY <1>1, <1>2, <1>3, <1>4, <1>5, <1>6, <1>7, <1>8, <1>9, <1>10, <1>11, <1>12, <1>13, <1>14, <1>15, <1>16, <1>17, <1>18, <1>19, <1>20
     DEF StepOf

\* A process that leaves does not come back.
LEMMA LeaverStays ==
  ASSUME Types, Structure, NEW p \in Proc, StepOf(p), Leaving(p)
  PROVE  Leaving(p)'
<1>. USE DEF Types, CallTypes, TableTypes, Structure, Leaving
<1>1. CASE Attach(p)
  BY <1>1 DEF Attach, Running, Open
<1>2. CASE LocateOpen(p)
  BY <1>2 DEF LocateOpen, EndCall, BackFrom, NoCall, Running, Open
<1>3. CASE SendReturn(p)
  BY <1>3 DEF SendReturn, Running, Open
<1>4. CASE ReceiveAttach(p)
  BY <1>4 DEF ReceiveAttach, Fault, Die, GoAnswer, EndCall, BackFrom, NoCall, Running, Open
<1>5. CASE AnswerOpen(p)
  BY <1>5 DEF AnswerOpen, EndCall, BackFrom, NoCall, Running, Open
<1>6. CASE AnswerWrite(p)
  BY <1>6 DEF AnswerWrite, EndCall, BackFrom, NoCall, Running, Open
<1>7. CASE ReplyFinish(p)
  BY <1>7 DEF ReplyFinish, EndCall, BackFrom, NoCall, Running, Open
<1>8. CASE RelayFinish(p)
  BY <1>8 DEF RelayFinish, EndCall, BackFrom, NoCall, Running, Open
<1>9. ASSUME NEW s \in Proc, DetachRelease(p, s) PROVE Leaving(p)'
  BY <1>9 DEF DetachRelease, Fault, Die, GoAnswer, NoCall, Running, Open
<1>10. CASE DetachClose(p)
  BY <1>10 DEF DetachClose, Running, Open
<1>11. CASE DetachRemove(p)
  BY <1>11 DEF DetachRemove, Running, Open
<1>12. CASE ReceiveRead(p)
  BY <1>12 DEF ReceiveRead, Running, Open
<1>13. ASSUME NEW s \in Proc, ReplyStart(p, s) PROVE Leaving(p)'
  BY <1>13 DEF ReplyStart, GoAnswer, Running, Open
<1>14. ASSUME NEW s \in Proc, NEW q \in Proc, RelayWrite(p, s, q) PROVE Leaving(p)'
  BY <1>14 DEF RelayWrite, Running, Open
<1>15. CASE Exit(p)
  BY <1>15 DEF Exit, NoCall, Running, Open
<1>16. CASE Kill(p)
  BY <1>16 DEF Kill, Die, NoCall, Running, Open
<1>17. ASSUME NEW q \in Proc, LocateStat(p, q) PROVE Leaving(p)'
  BY <1>17 DEF LocateStat, Running, Open
<1>18. ASSUME NEW q \in Proc, SendWrite(p, q) PROVE Leaving(p)'
  BY <1>18 DEF SendWrite, Running, Open
<1>19. ASSUME NEW q \in Proc, CheckProcess(p, q) PROVE Leaving(p)'
  BY <1>19 DEF CheckProcess, Running, Open
<1>20. ASSUME NEW q \in Proc, NEW v \in Proxy, Trigger(p, q, v) PROVE Leaving(p)'
  BY <1>20 DEF Trigger, Running, Open
<1>. QED
  BY <1>1, <1>2, <1>3, <1>4, <1>5, <1>6, <1>7, <1>8, <1>9, <1>10, <1>11, <1>12, <1>13, <1>14, <1>15, <1>16, <1>17, <1>18, <1>19, <1>20
     DEF StepOf

\* Neither do the others that have left come back.
LEMMA LeavingStays ==
  ASSUME Types, Structure, NEW p \in Proc, StepOf(p), NEW s \in Proc, Leaving(s)
  PROVE  Leaving(s)'
  BY Frame, LeaverStays DEF Leaving

\* A step of p keeps the facts of Structure about p itself.
LEMMA StructureSelf ==
  ASSUME Types, Structure, NEW p \in Proc, StepOf(p)
  PROVE  /\ pc'[p] \in {"open", "write"} => call'[p].peer \notin attached'[p]
         /\ call'[p].op = "release" => pc'[p] \in {"open", "write", "hung"}
<1>. USE DEF Types, CallTypes, TableTypes, Structure
<1>. DEFINE Goal == /\ pc'[p] \in {"open", "write"} => call'[p].peer \notin attached'[p]
                    /\ call'[p].op = "release" => pc'[p] \in {"open", "write", "hung"}
<1>1. CASE Attach(p)
  BY <1>1 DEF Attach, Running, Open
<1>2. CASE LocateOpen(p)
  BY <1>2 DEF LocateOpen, EndCall, BackFrom, NoCall, Running, Open
<1>3. CASE SendReturn(p)
  BY <1>3 DEF SendReturn, Running, Open
<1>4. CASE ReceiveAttach(p)
  BY <1>4 DEF ReceiveAttach, Fault, Die, GoAnswer, EndCall, BackFrom, NoCall, Running, Open
<1>5. CASE AnswerOpen(p)
  BY <1>5 DEF AnswerOpen, EndCall, BackFrom, NoCall, Running, Open
<1>6. CASE AnswerWrite(p)
  BY <1>6 DEF AnswerWrite, EndCall, BackFrom, NoCall, Running, Open
<1>7. CASE ReplyFinish(p)
  BY <1>7 DEF ReplyFinish, EndCall, BackFrom, NoCall, Running, Open
<1>8. CASE RelayFinish(p)
  BY <1>8 DEF RelayFinish, EndCall, BackFrom, NoCall, Running, Open
<1>9. ASSUME NEW s \in Proc, DetachRelease(p, s) PROVE Goal
  BY <1>9 DEF DetachRelease, Fault, Die, GoAnswer, NoCall, Running, Open
<1>10. CASE DetachClose(p)
  BY <1>10 DEF DetachClose, Running, Open
<1>11. CASE DetachRemove(p)
  BY <1>11 DEF DetachRemove, Running, Open
<1>12. CASE ReceiveRead(p)
  BY <1>12 DEF ReceiveRead, Running, Open
<1>13. ASSUME NEW s \in Proc, ReplyStart(p, s) PROVE Goal
  BY <1>13 DEF ReplyStart, GoAnswer, Running, Open
<1>14. ASSUME NEW s \in Proc, NEW q \in Proc, RelayWrite(p, s, q) PROVE Goal
  BY <1>14 DEF RelayWrite, Running, Open
<1>15. CASE Exit(p)
  BY <1>15 DEF Exit, NoCall, Running, Open
<1>16. CASE Kill(p)
  BY <1>16 DEF Kill, Die, NoCall, Running, Open
<1>17. ASSUME NEW q \in Proc, LocateStat(p, q) PROVE Goal
  BY <1>17 DEF LocateStat, Running, Open
<1>18. ASSUME NEW q \in Proc, SendWrite(p, q) PROVE Goal
  BY <1>18 DEF SendWrite, Running, Open
<1>19. ASSUME NEW q \in Proc, CheckProcess(p, q) PROVE Goal
  BY <1>19 DEF CheckProcess, Running, Open
<1>20. ASSUME NEW q \in Proc, NEW v \in Proxy, Trigger(p, q, v) PROVE Goal
  BY <1>20 DEF Trigger, Running, Open
<1>. QED
  BY <1>1, <1>2, <1>3, <1>4, <1>5, <1>6, <1>7, <1>8, <1>9, <1>10, <1>11, <1>12, <1>13, <1>14, <1>15, <1>16, <1>17, <1>18, <1>19, <1>20
     DEF StepOf

\* No step ruins Structure.
LEMMA StructureStep ==
  ASSUME Types, Structure, NEW p \in Proc, StepOf(p) PROVE Structure'
<1>1. ASSUME NEW r \in Proc
      PROVE  /\ pc'[r] \in {"open", "write"} => call'[r].peer \notin attached'[r]
             /\ call'[r].op = "release" => pc'[r] \in {"open", "write", "hung"}
  BY Frame, StructureSelf DEF Structure
<1>. QED  BY <1>1 DEF Structure

\* The only way for p to come to hold a sender is to read its message.
LEMMA HeldSelf ==
  ASSUME Types, Structure, ~ AsyncExit, NEW p \in Proc, StepOf(p), NEW x \in Proc, HeldBy(x, p)'
  PROVE  HeldBy(x, p) \/ (ReceiveRead(p) /\ Head(fifo[p]) = x)
<1>. USE DEF Types, CallTypes, TableTypes, HeldBy
<1>. DEFINE Goal == HeldBy(x, p) \/ (ReceiveRead(p) /\ Head(fifo[p]) = x)
<1>1. CASE Attach(p)
  BY <1>1 DEF Attach, Running, Open, Structure, Interruptible
<1>2. CASE LocateOpen(p)
  BY <1>2 DEF LocateOpen, EndCall, BackFrom, NoCall, Running, Open, Structure, Interruptible
<1>3. CASE SendReturn(p)
  BY <1>3 DEF SendReturn, Running, Open, Structure, Interruptible
<1>4. CASE ReceiveAttach(p)
  BY <1>4 DEF ReceiveAttach, Fault, Die, GoAnswer, EndCall, BackFrom, NoCall, Running, Open, Structure, Interruptible
<1>5. CASE AnswerOpen(p)
  BY <1>5 DEF AnswerOpen, EndCall, BackFrom, NoCall, Running, Open, Structure, Interruptible
<1>6. CASE AnswerWrite(p)
  BY <1>6 DEF AnswerWrite, EndCall, BackFrom, NoCall, Running, Open, Structure, Interruptible
<1>7. CASE ReplyFinish(p)
  BY <1>7 DEF ReplyFinish, EndCall, BackFrom, NoCall, Running, Open, Structure, Interruptible
<1>8. CASE RelayFinish(p)
  BY <1>8 DEF RelayFinish, EndCall, BackFrom, NoCall, Running, Open, Structure, Interruptible
<1>9. ASSUME NEW s \in Proc, DetachRelease(p, s) PROVE Goal
  BY <1>9 DEF DetachRelease, Fault, Die, GoAnswer, NoCall, Running, Open, Structure, Interruptible
<1>10. CASE DetachClose(p)
  BY <1>10 DEF DetachClose, Running, Open, Structure, Interruptible
<1>11. CASE DetachRemove(p)
  BY <1>11 DEF DetachRemove, Running, Open, Structure, Interruptible
<1>12. CASE ReceiveRead(p)
  BY <1>12 DEF ReceiveRead, Running, Open, Structure, Interruptible
<1>13. ASSUME NEW s \in Proc, ReplyStart(p, s) PROVE Goal
  BY <1>13 DEF ReplyStart, GoAnswer, Running, Open, Structure, Interruptible
<1>14. ASSUME NEW s \in Proc, NEW q \in Proc, RelayWrite(p, s, q) PROVE Goal
  BY <1>14 DEF RelayWrite, Running, Open, Structure, Interruptible
<1>15. CASE Exit(p)
  BY <1>15 DEF Exit, NoCall, Running, Open, Structure, Interruptible
<1>16. CASE Kill(p)
  BY <1>16 DEF Kill, Die, NoCall, Running, Open, Structure, Interruptible
<1>17. ASSUME NEW q \in Proc, LocateStat(p, q) PROVE Goal
  BY <1>17 DEF LocateStat, Running, Open, Structure, Interruptible
<1>18. ASSUME NEW q \in Proc, SendWrite(p, q) PROVE Goal
  BY <1>18 DEF SendWrite, Running, Open, Structure, Interruptible
<1>19. ASSUME NEW q \in Proc, CheckProcess(p, q) PROVE Goal
  BY <1>19 DEF CheckProcess, Running, Open, Structure, Interruptible
<1>20. ASSUME NEW q \in Proc, NEW v \in Proxy, Trigger(p, q, v) PROVE Goal
  BY <1>20 DEF Trigger, Running, Open, Structure, Interruptible
<1>. QED
  BY <1>1, <1>2, <1>3, <1>4, <1>5, <1>6, <1>7, <1>8, <1>9, <1>10, <1>11, <1>12, <1>13, <1>14, <1>15, <1>16, <1>17, <1>18, <1>19, <1>20
     DEF StepOf


-----------------------------------------------------------------------------
(* Where messages can move in one step.                                    *)

\* How a step changes the receive fifos.
LEMMA FifoStep ==
  ASSUME Types, ~ RelayAny, NEW p \in Proc, StepOf(p)
  PROVE  \/ fifo' = fifo
         \/ fifo' = [fifo EXCEPT ![p] = <<>>]
         \/ fifo[p] # <<>> /\ fifo' = [fifo EXCEPT ![p] = Tail(@)]
         \/ \E q \in Proc, m \in Proc \cup Proxy :
               /\ fifo' = [fifo EXCEPT ![q] = Append(@, m)]
               /\ Len(fifo[q]) < FifoCap
               /\ m \in Proc => (SendWrite(p, q) /\ m = p) \/ RelayWrite(p, m, q)
<1>. DEFINE Put(q, m) == /\ fifo' = [fifo EXCEPT ![q] = Append(@, m)]
                         /\ Len(fifo[q]) < FifoCap
                         /\ m \in Proc => (SendWrite(p, q) /\ m = p) \/ RelayWrite(p, m, q)
            Goal == \/ fifo' = fifo
                    \/ fifo' = [fifo EXCEPT ![p] = <<>>]
                    \/ fifo[p] # <<>> /\ fifo' = [fifo EXCEPT ![p] = Tail(@)]
                    \/ \E q \in Proc, m \in Proc \cup Proxy : Put(q, m)
<1>1. CASE Attach(p)
  BY <1>1 DEF Attach
<1>2. CASE LocateOpen(p)
  BY <1>2 DEF LocateOpen, EndCall, BackFrom, NoCall
<1>3. CASE SendReturn(p)
  BY <1>3 DEF SendReturn
<1>4. CASE ReceiveAttach(p)
  BY <1>4 DEF ReceiveAttach, Fault, Die, GoAnswer, EndCall, BackFrom, NoCall
<1>5. CASE AnswerOpen(p)
  BY <1>5 DEF AnswerOpen, EndCall, BackFrom, NoCall
<1>6. CASE AnswerWrite(p)
  BY <1>6 DEF AnswerWrite, EndCall, BackFrom, NoCall
<1>7. CASE ReplyFinish(p)
  BY <1>7 DEF ReplyFinish, EndCall, BackFrom, NoCall
<1>8. CASE RelayFinish(p)
  BY <1>8 DEF RelayFinish, EndCall, BackFrom, NoCall
<1>9. ASSUME NEW s \in Proc, DetachRelease(p, s) PROVE Goal
  BY <1>9 DEF DetachRelease, Fault, Die, GoAnswer, NoCall
<1>10. CASE DetachClose(p)
  BY <1>10 DEF DetachClose
<1>11. CASE DetachRemove(p)
  BY <1>11 DEF DetachRemove
<1>12. CASE ReceiveRead(p)
  BY <1>12 DEF ReceiveRead
<1>13. ASSUME NEW s \in Proc, ReplyStart(p, s) PROVE Goal
  BY <1>13 DEF ReplyStart, GoAnswer
<1>14. ASSUME NEW s \in Proc, NEW q \in Proc, RelayWrite(p, s, q) PROVE Goal
  <2>1. CASE fifo' = fifo
    BY <2>1
  <2>2. CASE fifo' # fifo
    <3>1. senderShm[p] = s
      BY <1>14 DEF RelayWrite, MayRelay
    <3>2. Put(q, s)
      BY <1>14, <2>2, <3>1 DEF RelayWrite, Kick
    <3>. QED  BY <3>2
  <2>. QED  BY <2>1, <2>2
<1>15. CASE Exit(p)
  BY <1>15 DEF Exit, NoCall
<1>16. CASE Kill(p)
  BY <1>16 DEF Kill, Die, NoCall
<1>17. ASSUME NEW q \in Proc, LocateStat(p, q) PROVE Goal
  BY <1>17 DEF LocateStat
<1>18. ASSUME NEW q \in Proc, SendWrite(p, q) PROVE Goal
  <2>1. CASE fifo' = fifo
    BY <2>1
  <2>2. CASE fifo' # fifo
    <3>1. Put(q, p)
      BY <1>18, <2>2 DEF SendWrite, Kick
    <3>. QED  BY <3>1
  <2>. QED  BY <2>1, <2>2
<1>19. ASSUME NEW q \in Proc, CheckProcess(p, q) PROVE Goal
  BY <1>19 DEF CheckProcess
<1>20. ASSUME NEW q \in Proc, NEW v \in Proxy, Trigger(p, q, v) PROVE Goal
  <2>1. Put(q, v)
    BY <1>20, ProxyAssumption DEF Trigger, Kick
  <2>. QED  BY <2>1
<1>. QED
  BY <1>1, <1>2, <1>3, <1>4, <1>5, <1>6, <1>7, <1>8, <1>9, <1>10, <1>11, <1>12, <1>13, <1>14, <1>15, <1>16, <1>17, <1>18, <1>19, <1>20
     DEF StepOf

\* Where a message is put into a receive fifo.
LEMMA QueuedStep ==
  ASSUME Types, ~ RelayAny, NEW p \in Proc, StepOf(p), NEW x \in Proc, NEW r \in Proc,
         QueuedAt(x, r)'
  PROVE  \/ QueuedAt(x, r)
         \/ SendWrite(p, r) /\ x = p
         \/ RelayWrite(p, x, r)
<1>. USE DEF Types, DataTypes, QueuedAt
<1>1. CASE fifo' = fifo
  BY <1>1
<1>2. CASE fifo' = [fifo EXCEPT ![p] = <<>>]
  BY <1>2
<1>3. CASE fifo[p] # <<>> /\ fifo' = [fifo EXCEPT ![p] = Tail(@)]
  <2>1. fifo[p] \in Seq(Proc \cup Proxy) /\ fifo[r] \in Seq(Proc \cup Proxy)
    OBVIOUS
  <2>2. PICK i \in DOMAIN fifo'[r] : fifo'[r][i] = x
    OBVIOUS
  <2>3. CASE r = p
    <3>1. i + 1 \in DOMAIN fifo[p] /\ fifo[p][i + 1] = x
      BY <1>3, <2>1, <2>2, <2>3
    <3>. QED  BY <2>3, <3>1
  <2>4. CASE r # p
    BY <1>3, <2>2, <2>4
  <2>. QED  BY <2>3, <2>4
<1>4. ASSUME NEW q \in Proc, NEW m \in Proc \cup Proxy,
             fifo' = [fifo EXCEPT ![q] = Append(@, m)],
             m \in Proc => (SendWrite(p, q) /\ m = p) \/ RelayWrite(p, m, q)
      PROVE  \/ QueuedAt(x, r)
             \/ SendWrite(p, r) /\ x = p
             \/ RelayWrite(p, x, r)
  <2>1. fifo[q] \in Seq(Proc \cup Proxy) /\ fifo[r] \in Seq(Proc \cup Proxy)
    OBVIOUS
  <2>2. PICK i \in DOMAIN fifo'[r] : fifo'[r][i] = x
    OBVIOUS
  <2>3. CASE r = q
    <3>1. \/ i \in DOMAIN fifo[q] /\ fifo[q][i] = x
          \/ m = x
      BY <1>4, <2>1, <2>2, <2>3
    <3>. QED  BY <1>4, <2>3, <3>1
  <2>4. CASE r # q
    BY <1>4, <2>2, <2>4
  <2>. QED  BY <2>3, <2>4
<1>. QED  BY <1>1, <1>2, <1>3, <1>4, FifoStep

\* A message is in a fifo once only, unless it is put there a second time.
LEMMA UniqueStep ==
  ASSUME Types, ~ RelayAny, NEW p \in Proc, StepOf(p), NEW x \in Proc, NEW r \in Proc,
         \A i, j \in DOMAIN fifo[r] : fifo[r][i] = x /\ fifo[r][j] = x => i = j,
         QueuedAt(x, r) => ~ (x = p /\ SendWrite(p, r)) /\ ~ RelayWrite(p, x, r)
  PROVE  \A i, j \in DOMAIN fifo'[r] : fifo'[r][i] = x /\ fifo'[r][j] = x => i = j
<1>. USE DEF Types, DataTypes
<1>. SUFFICES ASSUME NEW i \in DOMAIN fifo'[r], NEW j \in DOMAIN fifo'[r],
                     fifo'[r][i] = x, fifo'[r][j] = x
              PROVE  i = j
  OBVIOUS
<1>1. CASE fifo' = fifo
  BY <1>1
<1>2. CASE fifo' = [fifo EXCEPT ![p] = <<>>]
  BY <1>2
<1>3. CASE fifo[p] # <<>> /\ fifo' = [fifo EXCEPT ![p] = Tail(@)]
  <2>1. fifo[p] \in Seq(Proc \cup Proxy) /\ fifo[r] \in Seq(Proc \cup Proxy)
    OBVIOUS
  <2>2. CASE r = p
    <3>1. /\ i + 1 \in DOMAIN fifo[p] /\ fifo[p][i + 1] = x
          /\ j + 1 \in DOMAIN fifo[p] /\ fifo[p][j + 1] = x
          /\ i \in Nat /\ j \in Nat
      BY <1>3, <2>1, <2>2
    <3>. QED  BY <2>2, <3>1
  <2>3. CASE r # p
    BY <1>3, <2>3
  <2>. QED  BY <2>2, <2>3
<1>4. ASSUME NEW q \in Proc, NEW m \in Proc \cup Proxy,
             fifo' = [fifo EXCEPT ![q] = Append(@, m)],
             m \in Proc => (SendWrite(p, q) /\ m = p) \/ RelayWrite(p, m, q)
      PROVE  i = j
  <2>1. fifo[q] \in Seq(Proc \cup Proxy) /\ fifo[r] \in Seq(Proc \cup Proxy)
    OBVIOUS
  <2>2. CASE r = q /\ m = x
    <3>1. \A k \in DOMAIN fifo[q] : fifo[q][k] # x
      BY <1>4, <2>2 DEF QueuedAt
    <3>. QED  BY <1>4, <2>1, <2>2, <3>1
  <2>3. CASE r = q /\ m # x
    BY <1>4, <2>1, <2>3
  <2>4. CASE r # q
    BY <1>4, <2>4
  <2>. QED  BY <2>2, <2>3, <2>4
<1>. QED  BY <1>1, <1>2, <1>3, <1>4, FifoStep

\* Where answers come from and go.
LEMMA AnswerStep ==
  ASSUME Types, NEW p \in Proc, StepOf(p), NEW x \in Proc, ~ Leaving(x)'
  PROVE  \/ yfifo'[x] = yfifo[x]
         \/ x = p /\ SendReturn(p)
         \/ AnswerWrite(p) /\ call[p].peer = x /\ yfifo'[x] = Append(yfifo[x], call[p].val)
<1>. USE DEF Types, CallTypes, DataTypes, TableTypes, Leaving
<1>. DEFINE Goal == \/ yfifo'[x] = yfifo[x]
                    \/ x = p /\ SendReturn(p)
                    \/ AnswerWrite(p) /\ call[p].peer = x /\ yfifo'[x] = Append(yfifo[x], call[p].val)
<1>1. CASE Attach(p)
  BY <1>1 DEF Attach
<1>2. CASE LocateOpen(p)
  BY <1>2 DEF LocateOpen, EndCall, BackFrom, NoCall
<1>3. CASE SendReturn(p)
  BY <1>3 DEF SendReturn
<1>4. CASE ReceiveAttach(p)
  BY <1>4 DEF ReceiveAttach, Fault, Die, GoAnswer, EndCall, BackFrom, NoCall
<1>5. CASE AnswerOpen(p)
  BY <1>5 DEF AnswerOpen, EndCall, BackFrom, NoCall
<1>6. CASE AnswerWrite(p)
  <2>1. CASE yfifo' = yfifo
    BY <2>1
  <2>2. CASE yfifo' # yfifo
    <3>1. yfifo' = [yfifo EXCEPT ![call[p].peer] = Append(yfifo[call[p].peer], call[p].val)]
      BY <1>6, <2>2 DEF AnswerWrite
    <3>2. call[p].peer = x \/ yfifo'[x] = yfifo[x]
      BY <3>1
    <3>3. call[p].peer = x => yfifo'[x] = Append(yfifo[x], call[p].val)
      BY <3>1
    <3>. QED  BY <1>6, <3>2, <3>3
  <2>. QED  BY <2>1, <2>2
<1>7. CASE ReplyFinish(p)
  BY <1>7 DEF ReplyFinish, EndCall, BackFrom, NoCall
<1>8. CASE RelayFinish(p)
  BY <1>8 DEF RelayFinish, EndCall, BackFrom, NoCall
<1>9. ASSUME NEW s \in Proc, DetachRelease(p, s) PROVE Goal
  BY <1>9 DEF DetachRelease, Fault, Die, GoAnswer, NoCall
<1>10. CASE DetachClose(p)
  BY <1>10 DEF DetachClose
<1>11. CASE DetachRemove(p)
  BY <1>11 DEF DetachRemove
<1>12. CASE ReceiveRead(p)
  BY <1>12 DEF ReceiveRead
<1>13. ASSUME NEW s \in Proc, ReplyStart(p, s) PROVE Goal
  BY <1>13 DEF ReplyStart, GoAnswer
<1>14. ASSUME NEW s \in Proc, NEW q \in Proc, RelayWrite(p, s, q) PROVE Goal
  BY <1>14 DEF RelayWrite
<1>15. CASE Exit(p)
  BY <1>15 DEF Exit, NoCall
<1>16. CASE Kill(p)
  BY <1>16 DEF Kill, Die, NoCall
<1>17. ASSUME NEW q \in Proc, LocateStat(p, q) PROVE Goal
  BY <1>17 DEF LocateStat
<1>18. ASSUME NEW q \in Proc, SendWrite(p, q) PROVE Goal
  BY <1>18 DEF SendWrite
<1>19. ASSUME NEW q \in Proc, CheckProcess(p, q) PROVE Goal
  BY <1>19 DEF CheckProcess
<1>20. ASSUME NEW q \in Proc, NEW v \in Proxy, Trigger(p, q, v) PROVE Goal
  BY <1>20 DEF Trigger
<1>. QED
  BY <1>1, <1>2, <1>3, <1>4, <1>5, <1>6, <1>7, <1>8, <1>9, <1>10, <1>11, <1>12, <1>13, <1>14, <1>15, <1>16, <1>17, <1>18, <1>19, <1>20
     DEF StepOf

\* A process begins and ends to wait for an answer in its own Send only.
LEMMA WaitStep ==
  ASSUME Types, Structure, NEW p \in Proc, StepOf(p), NEW x \in Proc, ~ Leaving(x)'
  PROVE  \/ Waiting(x)' = Waiting(x)
         \/ x = p /\ SendReturn(p)
         \/ x = p /\ \E q \in Proc : SendWrite(p, q) /\ Waiting(x)'
<1>. USE DEF Types, CallTypes, DataTypes, TableTypes, Leaving
<1>. DEFINE Goal == \/ Waiting(x)' = Waiting(x)
                    \/ x = p /\ SendReturn(p)
                    \/ x = p /\ \E q \in Proc : SendWrite(p, q) /\ Waiting(x)'
<1>1. CASE Attach(p)
  BY <1>1 DEF Attach, Waiting, Running
<1>2. CASE LocateOpen(p)
  BY <1>2 DEF LocateOpen, EndCall, BackFrom, NoCall, Waiting, Running
<1>3. CASE SendReturn(p)
  BY <1>3 DEF SendReturn, Waiting, Running
<1>4. CASE ReceiveAttach(p)
  BY <1>4 DEF ReceiveAttach, Fault, Die, GoAnswer, EndCall, BackFrom, NoCall, Waiting, Running
<1>5. CASE AnswerOpen(p)
  BY <1>5 DEF AnswerOpen, EndCall, BackFrom, NoCall, Waiting, Running
<1>6. CASE AnswerWrite(p)
  BY <1>6 DEF AnswerWrite, EndCall, BackFrom, NoCall, Waiting, Running
<1>7. CASE ReplyFinish(p)
  BY <1>7 DEF ReplyFinish, EndCall, BackFrom, NoCall, Waiting, Running
<1>8. CASE RelayFinish(p)
  BY <1>8 DEF RelayFinish, EndCall, BackFrom, NoCall, Waiting, Running
<1>9. ASSUME NEW s \in Proc, DetachRelease(p, s) PROVE Goal
  BY <1>9 DEF DetachRelease, Fault, Die, GoAnswer, NoCall, Waiting, Running
<1>10. CASE DetachClose(p)
  BY <1>10 DEF DetachClose, Waiting, Running
<1>11. CASE DetachRemove(p)
  BY <1>11 DEF DetachRemove, Waiting, Running
<1>12. CASE ReceiveRead(p)
  BY <1>12 DEF ReceiveRead, Waiting, Running
<1>13. ASSUME NEW s \in Proc, ReplyStart(p, s) PROVE Goal
  BY <1>13 DEF ReplyStart, GoAnswer, Waiting, Running
<1>14. ASSUME NEW s \in Proc, NEW q \in Proc, RelayWrite(p, s, q) PROVE Goal
  BY <1>14 DEF RelayWrite, Waiting, Running
<1>15. CASE Exit(p)
  BY <1>15 DEF Exit, NoCall, Waiting, Running
<1>16. CASE Kill(p)
  BY <1>16 DEF Kill, Die, NoCall, Waiting, Running
<1>17. ASSUME NEW q \in Proc, LocateStat(p, q) PROVE Goal
  BY <1>17 DEF LocateStat, Waiting, Running
<1>18. ASSUME NEW q \in Proc, SendWrite(p, q) PROVE Goal
  BY <1>18 DEF SendWrite, Waiting, Running
<1>19. ASSUME NEW q \in Proc, CheckProcess(p, q) PROVE Goal
  BY <1>19 DEF CheckProcess, Waiting, Running
<1>20. ASSUME NEW q \in Proc, NEW v \in Proxy, Trigger(p, q, v) PROVE Goal
  BY <1>20 DEF Trigger, Waiting, Running
<1>. QED
  BY <1>1, <1>2, <1>3, <1>4, <1>5, <1>6, <1>7, <1>8, <1>9, <1>10, <1>11, <1>12, <1>13, <1>14, <1>15, <1>16, <1>17, <1>18, <1>19, <1>20
     DEF StepOf


-----------------------------------------------------------------------------
(* The one token of a sender that stays.                                   *)

\* The only way for anyone to come to hold a sender is to read its message.
LEMMA HeldStep ==
  ASSUME Types, Structure, ~ AsyncExit, NEW p \in Proc, StepOf(p),
         NEW x \in Proc, NEW r \in Proc, HeldBy(x, r)'
  PROVE  HeldBy(x, r) \/ (r = p /\ ReceiveRead(p) /\ Head(fifo[p]) = x)
<1>1. CASE r = p
  BY <1>1, HeldSelf
<1>2. CASE r # p
  BY <1>2, Frame DEF HeldBy
<1>. QED  BY <1>1, <1>2

\* The facts a case of the next lemma starts from.
LEMMA SendToken ==
  ASSUME Types, NEW p \in Proc, NEW q \in Proc, SendWrite(p, q), NEW r \in Proc
  PROVE  /\ ~ Waiting(p)
         /\ yfifo' = yfifo
         /\ ~ ReceiveRead(p)
         /\ ~ SendReturn(p)
         /\ \A x \in Proc : ~ RelayWrite(p, x, r)
         /\ QueuedAt(p, r)' => QueuedAt(p, r) \/ (r = q /\ Waiting(p)')
<1>. USE DEF Types, CallTypes, DataTypes, TableTypes, Waiting
<1>1. sends'[p] # sends[p] /\ pc[p] = "run"
  <2>1. sends[p] \in Nat /\ sends'[p] = sends[p] + 1 /\ pc[p] = "run"
    BY DEF SendWrite, Running, Request
  <2>. QED  BY <2>1
<1>2. ~ Waiting(p) /\ yfifo' = yfifo /\ ~ SendReturn(p)
  BY <1>1 DEF SendWrite, SendReturn
<1>3. ~ ReceiveRead(p) /\ \A x \in Proc : ~ RelayWrite(p, x, r)
  BY <1>1 DEF ReceiveRead, RelayWrite
<1>4. ASSUME QueuedAt(p, r)', ~ QueuedAt(p, r)
      PROVE  r = q /\ Waiting(p)'
  BY <1>4 DEF SendWrite, QueuedAt
<1>. QED  BY <1>2, <1>3, <1>4

\* Reading the message of x takes it out of the fifo.
LEMMA ReceiveToken ==
  ASSUME Types, NEW p \in Proc, ReceiveRead(p), NEW x \in Proc, Head(fifo[p]) = x
  PROVE  /\ QueuedAt(x, p)
         /\ yfifo' = yfifo
         /\ Waiting(x)' = Waiting(x)
         /\ \A r \in Proc : QueuedAt(x, r)' => QueuedAt(x, r)
         /\ \A r \in Proc : r # p => (HeldBy(x, r)' <=> HeldBy(x, r))
         /\ (\A i, j \in DOMAIN fifo[p] : fifo[p][i] = x /\ fifo[p][j] = x => i = j)
               => ~ QueuedAt(x, p)'
<1>. USE DEF Types, CallTypes, DataTypes, TableTypes
<1>. DEFINE f == fifo[p]
<1>1. f \in Seq(Proc \cup Proxy) /\ f # <<>> /\ 1 \in DOMAIN f /\ f[1] = x
  BY DEF ReceiveRead
<1>2. fifo' = [fifo EXCEPT ![p] = Tail(f)] /\ fifo'[p] = Tail(f)
  BY DEF ReceiveRead
<1>3. \A i \in DOMAIN Tail(f) : i \in Nat /\ i + 1 \in DOMAIN f /\ Tail(f)[i] = f[i + 1] /\ i + 1 # 1
  BY <1>1
<1>4. QueuedAt(x, p) /\ (QueuedAt(x, p)' => QueuedAt(x, p))
  BY <1>1, <1>2, <1>3 DEF QueuedAt
<1>5. \A r \in Proc : QueuedAt(x, r)' => QueuedAt(x, r)
  BY <1>2, <1>4 DEF QueuedAt
<1>6. (\A i, j \in DOMAIN fifo[p] : fifo[p][i] = x /\ fifo[p][j] = x => i = j) => ~ QueuedAt(x, p)'
  BY <1>1, <1>2, <1>3 DEF QueuedAt
<1>7. yfifo' = yfifo /\ attached' = attached
  BY DEF ReceiveRead
<1>8. \A r \in Proc : r # p => pc'[r] = pc[r] /\ call'[r] = call[r]
  BY DEF ReceiveRead
<1>9. \A r \in Proc : r # p => (HeldBy(x, r)' <=> HeldBy(x, r))
  BY <1>7, <1>8 DEF HeldBy
<1>10. Waiting(x)' = Waiting(x)
  BY DEF ReceiveRead, Waiting, Running
<1>. QED  BY <1>4, <1>5, <1>6, <1>7, <1>9, <1>10

\* A relay that goes through moves the message of x out of the hands of p.
LEMMA RelayToken ==
  ASSUME Types, ~ RelayAny, NEW p \in Proc, NEW x \in Proc, NEW q \in Proc,
         RelayWrite(p, x, q), fifo' # fifo
  PROVE  /\ HeldBy(x, p) /\ ~ HeldBy(x, p)'
         /\ yfifo' = yfifo
         /\ Waiting(x)' = Waiting(x)
         /\ ~ ReceiveRead(p)
         /\ \A r \in Proc : QueuedAt(x, r)' => QueuedAt(x, r) \/ r = q
<1>. USE DEF Types, CallTypes, DataTypes, TableTypes
<1>1. pc[p] = "run" /\ pc'[p] = "relayed" /\ call'[p].peer = x /\ x \in attached[p]
  BY DEF RelayWrite, Running
<1>2. HeldBy(x, p) /\ ~ HeldBy(x, p)'
  BY <1>1 DEF HeldBy
<1>3. yfifo' = yfifo /\ ~ ReceiveRead(p)
  BY <1>1 DEF RelayWrite, ReceiveRead
<1>4. Waiting(x)' = Waiting(x)
  BY DEF RelayWrite, Waiting, Running
<1>5. \A r \in Proc : r # q => fifo'[r] = fifo[r]
  BY DEF RelayWrite
<1>6. \A r \in Proc : QueuedAt(x, r)' => QueuedAt(x, r) \/ r = q
  BY <1>5 DEF QueuedAt
<1>. QED  BY <1>2, <1>3, <1>4, <1>6

\* An answer takes the message of x out of the hands of p.
LEMMA AnswerToken ==
  ASSUME Types, Structure, NEW p \in Proc, AnswerWrite(p), NEW x \in Proc, call[p].peer = x
  PROVE  /\ HeldBy(x, p) /\ ~ HeldBy(x, p)'
         /\ fifo' = fifo
         /\ Waiting(x)' = Waiting(x)
         /\ ~ ReceiveRead(p)
<1>. USE DEF Types, CallTypes, DataTypes, TableTypes
<1>1. pc[p] = "write" /\ x \notin attached[p] /\ attached' = attached
  BY DEF AnswerWrite, Structure
<1>2. pc'[p] \notin {"received", "open", "write", "sendWait"}
  BY DEF AnswerWrite, EndCall, BackFrom
<1>3. HeldBy(x, p) /\ ~ HeldBy(x, p)'
  BY <1>1, <1>2 DEF HeldBy
<1>4. fifo' = fifo /\ ~ ReceiveRead(p)
  BY <1>1 DEF AnswerWrite, ReceiveRead, Running
<1>5. Waiting(x)' = Waiting(x)
  BY <1>1 DEF AnswerWrite, EndCall, BackFrom, Waiting
<1>. QED  BY <1>3, <1>4, <1>5

\* A sequence of length 0 is the empty one,
LEMMA EmptyIsEmpty ==
  ASSUME NEW S, NEW t \in Seq(S), Len(t) = 0
  PROVE  t = <<>>
  OBVIOUS

\* ... and the tail of a sequence of length 1.
LEMMA TailOfOne ==
  ASSUME NEW S, NEW t \in Seq(S), Len(t) = 1
  PROVE  Tail(t) = <<>>
<1>1. t # <<>>
  OBVIOUS
<1>2. Tail(t) \in Seq(S) /\ Len(Tail(t)) = 0
  BY <1>1, HeadTailProperties
<1>. QED  BY <1>2, EmptyIsEmpty

\* A sender that stays keeps its one token in every step.
LEMMA TokenStep ==
  ASSUME Types, Structure, OneToken, ~ RelayAny, ~ AsyncExit,
         NEW p \in Proc, StepOf(p), NEW x \in Proc, ~ Leaving(x)'
  PROVE  TokenOf(x)'
<1>1. ~ Leaving(x) /\ TokenOf(x)
  BY LeavingStays DEF OneToken
<1>2. \A r \in Proc : HeldBy(x, r)' =>
         HeldBy(x, r) \/ (r = p /\ ReceiveRead(p) /\ Head(fifo[p]) = x)
  BY HeldStep
<1>3. \A r \in Proc : QueuedAt(x, r)' =>
         QueuedAt(x, r) \/ (SendWrite(p, r) /\ x = p) \/ RelayWrite(p, x, r)
  BY QueuedStep
<1>4. \/ yfifo'[x] = yfifo[x]
      \/ x = p /\ SendReturn(p)
      \/ AnswerWrite(p) /\ call[p].peer = x /\ yfifo'[x] = Append(yfifo[x], call[p].val)
  BY AnswerStep
<1>5. \/ Waiting(x)' = Waiting(x)
      \/ x = p /\ SendReturn(p)
      \/ x = p /\ \E q \in Proc : SendWrite(p, q) /\ Waiting(x)'
  BY WaitStep
\* A step that does not put the message anywhere keeps it in a fifo once.
<1>6. \A r \in Proc :
         (QueuedAt(x, r) => ~ (x = p /\ SendWrite(p, r)) /\ ~ RelayWrite(p, x, r)) =>
            \A i, j \in DOMAIN fifo'[r] : fifo'[r][i] = x /\ fifo'[r][j] = x => i = j
  BY <1>1, UniqueStep DEF TokenOf
<1>7. CASE x = p /\ \E q \in Proc : SendWrite(p, q)
  <2>1. PICK q \in Proc : SendWrite(p, q)
    BY <1>7
  <2>2. /\ ~ Waiting(x) /\ yfifo' = yfifo
        /\ ~ ReceiveRead(p)
        /\ \A r \in Proc : ~ RelayWrite(p, x, r)
        /\ \A r \in Proc : QueuedAt(x, r)' => QueuedAt(x, r) \/ (r = q /\ Waiting(x)')
    BY <1>7, <2>1, SendToken
  <2>3. \A r \in Proc : ~ Answered(x) /\ ~ QueuedAt(x, r) /\ ~ HeldBy(x, r)
    BY <1>1, <2>2 DEF TokenOf
  <2>4. ~ Answered(x)'
    BY <2>2, <2>3 DEF Answered
  <2>5. \A r \in Proc : ~ HeldBy(x, r)'
    BY <1>2, <2>2, <2>3
  <2>6. \A r \in Proc : QueuedAt(x, r)' => r = q /\ Waiting(x)'
    BY <2>2, <2>3
  <2>7. \A r \in Proc : \A i, j \in DOMAIN fifo'[r] :
           fifo'[r][i] = x /\ fifo'[r][j] = x => i = j
    BY <1>6, <2>3
  <2>. QED  BY <2>4, <2>5, <2>6, <2>7 DEF TokenOf
<1>8. CASE ~ (x = p /\ \E q \in Proc : SendWrite(p, q))
  <2>1. \A r \in Proc : QueuedAt(x, r)' => QueuedAt(x, r) \/ RelayWrite(p, x, r)
    BY <1>3, <1>8
  <2>2. CASE x = p /\ SendReturn(p)
    <3>1. yfifo[x] # <<>> /\ fifo' = fifo /\ yfifo'[x] = Tail(yfifo[x]) /\ pc[p] = "sendWait"
      BY <2>2 DEF SendReturn, Types, DataTypes
    <3>2. Answered(x) /\ ~ ReceiveRead(p)
      BY <3>1 DEF Answered, ReceiveRead, Running
    <3>3. Len(yfifo[x]) = 1 /\ yfifo[x] \in Seq(Answer)
      BY <1>1, <3>2 DEF TokenOf, Types, DataTypes
    <3>4. ~ Answered(x)'
      BY <3>1, <3>3, TailOfOne DEF Answered
    <3>5. \A r \in Proc : ~ QueuedAt(x, r) /\ ~ HeldBy(x, r)
      BY <1>1, <3>2 DEF TokenOf
    <3>6. \A r \in Proc : ~ QueuedAt(x, r)' /\ ~ HeldBy(x, r)'
      BY <1>2, <3>1, <3>2, <3>5 DEF QueuedAt
    <3>7. \A r \in Proc : \A i, j \in DOMAIN fifo'[r] :
             fifo'[r][i] = x /\ fifo'[r][j] = x => i = j
      BY <1>6, <3>5
    <3>. QED  BY <3>4, <3>6, <3>7 DEF TokenOf
  <2>3. CASE AnswerWrite(p) /\ call[p].peer = x /\ yfifo'[x] = Append(yfifo[x], call[p].val)
    <3>1. /\ HeldBy(x, p) /\ ~ HeldBy(x, p)' /\ fifo' = fifo
          /\ Waiting(x)' = Waiting(x) /\ ~ ReceiveRead(p)
      BY <2>3, AnswerToken
    <3>2. /\ Waiting(x) /\ ~ Answered(x)
          /\ \A r \in Proc : ~ QueuedAt(x, r) /\ (HeldBy(x, r) => r = p)
      BY <1>1, <3>1 DEF TokenOf
    <3>3. Len(yfifo'[x]) = 1
      BY <2>3, <3>2 DEF Answered, Types, DataTypes, CallTypes, Call
    <3>4. \A r \in Proc : ~ HeldBy(x, r)'
      BY <1>2, <3>1, <3>2
    <3>5. \A r \in Proc : ~ QueuedAt(x, r)'
      BY <3>1, <3>2 DEF QueuedAt
    <3>6. \A r \in Proc : \A i, j \in DOMAIN fifo'[r] :
             fifo'[r][i] = x /\ fifo'[r][j] = x => i = j
      BY <1>6, <3>2
    <3>. QED  BY <3>1, <3>2, <3>3, <3>4, <3>5, <3>6 DEF TokenOf
  <2>4. CASE yfifo'[x] = yfifo[x] /\ ~ (x = p /\ SendReturn(p))
    <3>1. Waiting(x)' = Waiting(x) /\ Answered(x)' = Answered(x)
      BY <1>5, <1>8, <2>4 DEF Answered
    <3>2. CASE ReceiveRead(p) /\ Head(fifo[p]) = x
      <4>1. /\ QueuedAt(x, p) /\ ~ QueuedAt(x, p)'
            /\ \A r \in Proc : QueuedAt(x, r)' => QueuedAt(x, r)
        BY <1>1, <3>2, ReceiveToken DEF TokenOf
      <4>2. /\ Waiting(x) /\ ~ Answered(x)
            /\ \A r \in Proc : ~ HeldBy(x, r) /\ (QueuedAt(x, r) => r = p)
        BY <1>1, <4>1 DEF TokenOf
      <4>3. \A r \in Proc : ~ QueuedAt(x, r)' /\ (HeldBy(x, r)' => r = p)
        BY <1>2, <4>1, <4>2
      <4>4. \A r \in Proc : \A i, j \in DOMAIN fifo'[r] :
               ~ (fifo'[r][i] = x /\ fifo'[r][j] = x)
        BY <4>3 DEF QueuedAt
      <4>. QED  BY <3>1, <4>2, <4>3, <4>4 DEF TokenOf
    <3>3. CASE ~ (ReceiveRead(p) /\ Head(fifo[p]) = x)
      <4>1. \A r \in Proc : HeldBy(x, r)' => HeldBy(x, r)
        BY <1>2, <3>3
      <4>2. CASE fifo' # fifo /\ \E q \in Proc : RelayWrite(p, x, q)
        <5>1. PICK q \in Proc : RelayWrite(p, x, q)
          BY <4>2
        <5>2. /\ HeldBy(x, p) /\ ~ HeldBy(x, p)'
              /\ \A r \in Proc : QueuedAt(x, r)' => QueuedAt(x, r) \/ r = q
          BY <4>2, <5>1, RelayToken
        <5>3. /\ Waiting(x) /\ ~ Answered(x)
              /\ \A r \in Proc : ~ QueuedAt(x, r) /\ (HeldBy(x, r) => r = p)
          BY <1>1, <5>2 DEF TokenOf
        <5>4. \A r \in Proc : ~ HeldBy(x, r)' /\ (QueuedAt(x, r)' => r = q)
          BY <4>1, <5>2, <5>3
        <5>5. \A r \in Proc : \A i, j \in DOMAIN fifo'[r] :
                 fifo'[r][i] = x /\ fifo'[r][j] = x => i = j
          BY <1>6, <5>3
        <5>. QED  BY <3>1, <5>3, <5>4, <5>5 DEF TokenOf
      <4>3. CASE fifo' = fifo \/ ~ \E q \in Proc : RelayWrite(p, x, q)
        <5>1. \A r \in Proc : QueuedAt(x, r)' => QueuedAt(x, r)
          BY <2>1, <4>3 DEF QueuedAt
        <5>2. \A r \in Proc : \A i, j \in DOMAIN fifo'[r] :
                 fifo'[r][i] = x /\ fifo'[r][j] = x => i = j
          <6>1. CASE fifo' = fifo
            BY <1>1, <6>1 DEF TokenOf
          <6>2. CASE ~ \E q \in Proc : RelayWrite(p, x, q)
            BY <1>6, <1>8, <6>2
          <6>. QED  BY <4>3, <6>1, <6>2
        <5>3. Answered(x)' => Waiting(x)' /\ Len(yfifo'[x]) = 1
          BY <1>1, <2>4, <3>1 DEF TokenOf
        <5>. QED  BY <1>1, <3>1, <4>1, <5>1, <5>2, <5>3 DEF TokenOf
      <4>. QED  BY <4>2, <4>3
    <3>. QED  BY <3>2, <3>3
  <2>. QED  BY <1>4, <2>2, <2>3, <2>4
<1>. QED  BY <1>7, <1>8

\* No step ruins OneToken.
LEMMA OneTokenStep ==
  ASSUME Types, Structure, OneToken, ~ RelayAny, ~ AsyncExit, NEW p \in Proc, StepOf(p)
  PROVE  OneToken'
<1>1. ASSUME NEW x \in Proc, ~ Leaving(x)' PROVE TokenOf(x)'
  BY <1>1, TokenStep
<1>. QED  BY <1>1 DEF OneToken

-----------------------------------------------------------------------------
(* What is in the segment of a sender that stays.                          *)

\* A segment changes when its owner sends and when a receiver replies.
LEMMA ShmStep ==
  ASSUME Types, NEW p \in Proc, StepOf(p), NEW x \in Proc
  PROVE  \/ shm'[x] = shm[x] /\ sends'[x] = sends[x]
         \/ x = p /\ \E q \in Proc : SendWrite(p, q)
         \/ ReplyStart(p, x) /\ call'[p].val = "ok"
<1>. USE DEF Types, CallTypes, DataTypes, TableTypes
<1>. DEFINE Goal == \/ shm'[x] = shm[x] /\ sends'[x] = sends[x]
                    \/ x = p /\ \E q \in Proc : SendWrite(p, q)
                    \/ ReplyStart(p, x) /\ call'[p].val = "ok"
<1>1. CASE Attach(p)
  BY <1>1 DEF Attach
<1>2. CASE LocateOpen(p)
  BY <1>2 DEF LocateOpen, EndCall, BackFrom, NoCall
<1>3. CASE SendReturn(p)
  BY <1>3 DEF SendReturn
<1>4. CASE ReceiveAttach(p)
  BY <1>4 DEF ReceiveAttach, Fault, Die, GoAnswer, EndCall, BackFrom, NoCall
<1>5. CASE AnswerOpen(p)
  BY <1>5 DEF AnswerOpen, EndCall, BackFrom, NoCall
<1>6. CASE AnswerWrite(p)
  BY <1>6 DEF AnswerWrite, EndCall, BackFrom, NoCall
<1>7. CASE ReplyFinish(p)
  BY <1>7 DEF ReplyFinish, EndCall, BackFrom, NoCall
<1>8. CASE RelayFinish(p)
  BY <1>8 DEF RelayFinish, EndCall, BackFrom, NoCall
<1>9. ASSUME NEW s \in Proc, DetachRelease(p, s) PROVE Goal
  BY <1>9 DEF DetachRelease, Fault, Die, GoAnswer, NoCall
<1>10. CASE DetachClose(p)
  BY <1>10 DEF DetachClose
<1>11. CASE DetachRemove(p)
  BY <1>11 DEF DetachRemove
<1>12. CASE ReceiveRead(p)
  BY <1>12 DEF ReceiveRead
<1>13. ASSUME NEW s \in Proc, ReplyStart(p, s) PROVE Goal
  BY <1>13 DEF ReplyStart, GoAnswer
<1>14. ASSUME NEW s \in Proc, NEW q \in Proc, RelayWrite(p, s, q) PROVE Goal
  BY <1>14 DEF RelayWrite
<1>15. CASE Exit(p)
  BY <1>15 DEF Exit, NoCall
<1>16. CASE Kill(p)
  BY <1>16 DEF Kill, Die, NoCall
<1>17. ASSUME NEW q \in Proc, LocateStat(p, q) PROVE Goal
  BY <1>17 DEF LocateStat
<1>18. ASSUME NEW q \in Proc, SendWrite(p, q) PROVE Goal
  BY <1>18 DEF SendWrite
<1>19. ASSUME NEW q \in Proc, CheckProcess(p, q) PROVE Goal
  BY <1>19 DEF CheckProcess
<1>20. ASSUME NEW q \in Proc, NEW v \in Proxy, Trigger(p, q, v) PROVE Goal
  BY <1>20 DEF Trigger
<1>. QED
  BY <1>1, <1>2, <1>3, <1>4, <1>5, <1>6, <1>7, <1>8, <1>9, <1>10, <1>11, <1>12, <1>13, <1>14, <1>15, <1>16, <1>17, <1>18, <1>19, <1>20
     DEF StepOf

\* A process is about to attach the segment it has just read the id of.
LEMMA ReceivedStep ==
  ASSUME Types, Structure, NEW p \in Proc, StepOf(p), pc'[p] = "received"
  PROVE  ReceiveRead(p) /\ Head(fifo[p]) = call'[p].peer
<1>. USE DEF Types, CallTypes, DataTypes, TableTypes, Structure
<1>. DEFINE Goal == ReceiveRead(p) /\ Head(fifo[p]) = call'[p].peer
<1>1. CASE Attach(p)
  BY <1>1 DEF Attach, Running
<1>2. CASE LocateOpen(p)
  BY <1>2 DEF LocateOpen, EndCall, BackFrom, NoCall, Running
<1>3. CASE SendReturn(p)
  BY <1>3 DEF SendReturn, Running
<1>4. CASE ReceiveAttach(p)
  BY <1>4 DEF ReceiveAttach, Fault, Die, GoAnswer, EndCall, BackFrom, NoCall, Running
<1>5. CASE AnswerOpen(p)
  BY <1>5 DEF AnswerOpen, EndCall, BackFrom, NoCall, Running
<1>6. CASE AnswerWrite(p)
  BY <1>6 DEF AnswerWrite, EndCall, BackFrom, NoCall, Running
<1>7. CASE ReplyFinish(p)
  BY <1>7 DEF ReplyFinish, EndCall, BackFrom, NoCall, Running
<1>8. CASE RelayFinish(p)
  BY <1>8 DEF RelayFinish, EndCall, BackFrom, NoCall, Running
<1>9. ASSUME NEW s \in Proc, DetachRelease(p, s) PROVE Goal
  BY <1>9 DEF DetachRelease, Fault, Die, GoAnswer, NoCall, Running
<1>10. CASE DetachClose(p)
  BY <1>10 DEF DetachClose, Running
<1>11. CASE DetachRemove(p)
  BY <1>11 DEF DetachRemove, Running
<1>12. CASE ReceiveRead(p)
  BY <1>12 DEF ReceiveRead, Running
<1>13. ASSUME NEW s \in Proc, ReplyStart(p, s) PROVE Goal
  BY <1>13 DEF ReplyStart, GoAnswer, Running
<1>14. ASSUME NEW s \in Proc, NEW q \in Proc, RelayWrite(p, s, q) PROVE Goal
  BY <1>14 DEF RelayWrite, Running
<1>15. CASE Exit(p)
  BY <1>15 DEF Exit, NoCall, Running
<1>16. CASE Kill(p)
  BY <1>16 DEF Kill, Die, NoCall, Running
<1>17. ASSUME NEW q \in Proc, LocateStat(p, q) PROVE Goal
  BY <1>17 DEF LocateStat, Running
<1>18. ASSUME NEW q \in Proc, SendWrite(p, q) PROVE Goal
  BY <1>18 DEF SendWrite, Running
<1>19. ASSUME NEW q \in Proc, CheckProcess(p, q) PROVE Goal
  BY <1>19 DEF CheckProcess, Running
<1>20. ASSUME NEW q \in Proc, NEW v \in Proxy, Trigger(p, q, v) PROVE Goal
  BY <1>20 DEF Trigger, Running
<1>. QED
  BY <1>1, <1>2, <1>3, <1>4, <1>5, <1>6, <1>7, <1>8, <1>9, <1>10, <1>11, <1>12, <1>13, <1>14, <1>15, <1>16, <1>17, <1>18, <1>19, <1>20
     DEF StepOf

\* A segment p has attached was attached before, with the same request copied
\* out of it, or is the one p has just received.
LEMMA AttachedStep ==
  ASSUME Types, Structure, ~ AsyncExit, NEW p \in Proc, StepOf(p), NEW x \in Proc,
         x \in attached'[p]
  PROVE  \/ x \in attached[p] /\ HeldBy(x, p) /\ inbox'[p][x] = inbox[p][x]
         \/ x \in attached[p] /\ ~ HeldBy(x, p) /\ ~ HeldBy(x, p)'
         \/ pc[p] = "received" /\ call[p].peer = x /\ inbox'[p][x] = shm[x].n
<1>. USE DEF Types, CallTypes, DataTypes, TableTypes, HeldBy
<1>. DEFINE Goal == \/ x \in attached[p] /\ HeldBy(x, p) /\ inbox'[p][x] = inbox[p][x]
                    \/ x \in attached[p] /\ ~ HeldBy(x, p) /\ ~ HeldBy(x, p)'
                    \/ pc[p] = "received" /\ call[p].peer = x /\ inbox'[p][x] = shm[x].n
<1>1. CASE Attach(p)
  BY <1>1 DEF Attach, Running, Open, Interruptible
<1>2. CASE LocateOpen(p)
  BY <1>2 DEF LocateOpen, EndCall, BackFrom, NoCall, Running, Open, Interruptible
<1>3. CASE SendReturn(p)
  BY <1>3 DEF SendReturn, Running, Open, Interruptible
<1>4. CASE ReceiveAttach(p)
  BY <1>4 DEF ReceiveAttach, Fault, Die, GoAnswer, EndCall, BackFrom, NoCall, Running, Open, Interruptible
<1>5. CASE AnswerOpen(p)
  BY <1>5 DEF AnswerOpen, EndCall, BackFrom, NoCall, Running, Open, Interruptible
<1>6. CASE AnswerWrite(p)
  BY <1>6 DEF AnswerWrite, EndCall, BackFrom, NoCall, Running, Open, Interruptible
<1>7. CASE ReplyFinish(p)
  BY <1>7 DEF ReplyFinish, EndCall, BackFrom, NoCall, Running, Open, Interruptible
<1>8. CASE RelayFinish(p)
  BY <1>8 DEF RelayFinish, EndCall, BackFrom, NoCall, Running, Open, Interruptible
<1>9. ASSUME NEW s \in Proc, DetachRelease(p, s) PROVE Goal
  BY <1>9 DEF DetachRelease, Fault, Die, GoAnswer, NoCall, Running, Open, Interruptible
<1>10. CASE DetachClose(p)
  BY <1>10 DEF DetachClose, Running, Open, Interruptible
<1>11. CASE DetachRemove(p)
  BY <1>11 DEF DetachRemove, Running, Open, Interruptible
<1>12. CASE ReceiveRead(p)
  BY <1>12 DEF ReceiveRead, Running, Open, Interruptible
<1>13. ASSUME NEW s \in Proc, ReplyStart(p, s) PROVE Goal
  BY <1>13 DEF ReplyStart, GoAnswer, Running, Open, Interruptible
<1>14. ASSUME NEW s \in Proc, NEW q \in Proc, RelayWrite(p, s, q) PROVE Goal
  BY <1>14 DEF RelayWrite, Running, Open, Interruptible
<1>15. CASE Exit(p)
  BY <1>15 DEF Exit, NoCall, Running, Open, Interruptible
<1>16. CASE Kill(p)
  BY <1>16 DEF Kill, Die, NoCall, Running, Open, Interruptible
<1>17. ASSUME NEW q \in Proc, LocateStat(p, q) PROVE Goal
  BY <1>17 DEF LocateStat, Running, Open, Interruptible
<1>18. ASSUME NEW q \in Proc, SendWrite(p, q) PROVE Goal
  BY <1>18 DEF SendWrite, Running, Open, Interruptible
<1>19. ASSUME NEW q \in Proc, CheckProcess(p, q) PROVE Goal
  BY <1>19 DEF CheckProcess, Running, Open, Interruptible
<1>20. ASSUME NEW q \in Proc, NEW v \in Proxy, Trigger(p, q, v) PROVE Goal
  BY <1>20 DEF Trigger, Running, Open, Interruptible
<1>. QED
  BY <1>1, <1>2, <1>3, <1>4, <1>5, <1>6, <1>7, <1>8, <1>9, <1>10, <1>11, <1>12, <1>13, <1>14, <1>15, <1>16, <1>17, <1>18, <1>19, <1>20
     DEF StepOf

\* A process about to answer with a reply has put the reply in the segment.
LEMMA AnsweringStep ==
  ASSUME Types, NEW p \in Proc, StepOf(p), pc'[p] \in {"open", "write"}, call'[p].val = "ok"
  PROVE  \/ pc[p] \in {"open", "write"} /\ call'[p] = call[p]
         \/ ReplyStart(p, call'[p].peer)
<1>. USE DEF Types, CallTypes, DataTypes, TableTypes
<1>. DEFINE Goal == \/ pc[p] \in {"open", "write"} /\ call'[p] = call[p]
                    \/ ReplyStart(p, call'[p].peer)
<1>1. CASE Attach(p)
  BY <1>1 DEF Attach, Running, Open
<1>2. CASE LocateOpen(p)
  BY <1>2 DEF LocateOpen, EndCall, BackFrom, NoCall, Running, Open
<1>3. CASE SendReturn(p)
  BY <1>3 DEF SendReturn, Running, Open
<1>4. CASE ReceiveAttach(p)
  BY <1>4 DEF ReceiveAttach, Fault, Die, GoAnswer, EndCall, BackFrom, NoCall, Running, Open
<1>5. CASE AnswerOpen(p)
  BY <1>5 DEF AnswerOpen, EndCall, BackFrom, NoCall, Running, Open
<1>6. CASE AnswerWrite(p)
  BY <1>6 DEF AnswerWrite, EndCall, BackFrom, NoCall, Running, Open
<1>7. CASE ReplyFinish(p)
  BY <1>7 DEF ReplyFinish, EndCall, BackFrom, NoCall, Running, Open
<1>8. CASE RelayFinish(p)
  BY <1>8 DEF RelayFinish, EndCall, BackFrom, NoCall, Running, Open
<1>9. ASSUME NEW s \in Proc, DetachRelease(p, s) PROVE Goal
  BY <1>9 DEF DetachRelease, Fault, Die, GoAnswer, NoCall, Running, Open
<1>10. CASE DetachClose(p)
  BY <1>10 DEF DetachClose, Running, Open
<1>11. CASE DetachRemove(p)
  BY <1>11 DEF DetachRemove, Running, Open
<1>12. CASE ReceiveRead(p)
  BY <1>12 DEF ReceiveRead, Running, Open
<1>13. ASSUME NEW s \in Proc, ReplyStart(p, s) PROVE Goal
  BY <1>13 DEF ReplyStart, GoAnswer, Running, Open
<1>14. ASSUME NEW s \in Proc, NEW q \in Proc, RelayWrite(p, s, q) PROVE Goal
  BY <1>14 DEF RelayWrite, Running, Open
<1>15. CASE Exit(p)
  BY <1>15 DEF Exit, NoCall, Running, Open
<1>16. CASE Kill(p)
  BY <1>16 DEF Kill, Die, NoCall, Running, Open
<1>17. ASSUME NEW q \in Proc, LocateStat(p, q) PROVE Goal
  BY <1>17 DEF LocateStat, Running, Open
<1>18. ASSUME NEW q \in Proc, SendWrite(p, q) PROVE Goal
  BY <1>18 DEF SendWrite, Running, Open
<1>19. ASSUME NEW q \in Proc, CheckProcess(p, q) PROVE Goal
  BY <1>19 DEF CheckProcess, Running, Open
<1>20. ASSUME NEW q \in Proc, NEW v \in Proxy, Trigger(p, q, v) PROVE Goal
  BY <1>20 DEF Trigger, Running, Open
<1>. QED
  BY <1>1, <1>2, <1>3, <1>4, <1>5, <1>6, <1>7, <1>8, <1>9, <1>10, <1>11, <1>12, <1>13, <1>14, <1>15, <1>16, <1>17, <1>18, <1>19, <1>20
     DEF StepOf


\* What is in the segment of a sender that stays belongs to where its message is.
LEMMA ContentStep ==
  ASSUME Types, Structure, OneToken, Content, ~ RelayAny, ~ AsyncExit,
         NEW p \in Proc, StepOf(p), NEW x \in Proc, ~ Leaving(x)'
  PROVE  AnswerContent(x)' /\ \A r \in Proc : ContentAt(x, r)'
<1>. DEFINE req == [tag |-> "req", n |-> sends[x]]
            rep == [tag |-> "rep", n |-> sends[x]]
<1>1. ~ Leaving(x) /\ TokenOf(x) /\ AnswerContent(x) /\ \A r \in Proc : ContentAt(x, r)
  BY LeavingStays DEF OneToken, Content
<1>2. TokenOf(x)'
  BY TokenStep
<1>3. \A r \in Proc : HeldBy(x, r)' =>
         HeldBy(x, r) \/ (r = p /\ ReceiveRead(p) /\ Head(fifo[p]) = x)
  BY HeldStep
\* Every clause of ContentAt but the first is about a process that holds x.
<1>4. \A r \in Proc : pc'[r] \in {"received", "open", "write"} /\ call'[r].peer = x => HeldBy(x, r)'
  BY DEF HeldBy
<1>5. CASE x = p /\ \E q \in Proc : SendWrite(p, q)
  <2>1. PICK q \in Proc : SendWrite(p, q)
    BY <1>5
  <2>2. ~ Waiting(x) /\ ~ ReceiveRead(p) /\ yfifo' = yfifo
    BY <1>5, <2>1, SendToken
  <2>3. ~ Answered(x)' /\ \A r \in Proc : ~ HeldBy(x, r)'
    BY <1>1, <1>3, <2>2 DEF TokenOf, Answered
  <2>4. shm'[x] = [tag |-> "req", n |-> sends'[x]]
    BY <1>5, <2>1 DEF SendWrite, Types, DataTypes, TableTypes
  <2>. QED  BY <1>4, <2>3, <2>4 DEF AnswerContent, ContentAt
<1>6. CASE ReplyStart(p, x) /\ call'[p].val = "ok"
  <2>1. /\ pc[p] = "run" /\ x \in attached[p] /\ fifo' = fifo /\ yfifo' = yfifo
        /\ sends' = sends /\ attached'[p] = attached[p] \ {x}
    BY <1>6 DEF ReplyStart, GoAnswer, Running, Types, TableTypes
  <2>2. shm'[x] = [tag |-> "rep", n |-> inbox[p][x]]
    BY <1>6 DEF ReplyStart, GoAnswer, Filled, Types, CallTypes, DataTypes
  <2>3. HeldBy(x, p)
    BY <2>1 DEF HeldBy
  <2>4. shm'[x] = [tag |-> "rep", n |-> sends'[x]]
    BY <1>1, <2>1, <2>2, <2>3 DEF ContentAt
  <2>5. ~ Answered(x) /\ \A r \in Proc : ~ QueuedAt(x, r) /\ (HeldBy(x, r) => r = p)
    BY <1>1, <2>3 DEF TokenOf
  <2>6. ~ Answered(x)' /\ \A r \in Proc : ~ QueuedAt(x, r)'
    BY <2>1, <2>5 DEF Answered, QueuedAt
  <2>7. \A r \in Proc : HeldBy(x, r)' => r = p
    BY <1>3, <2>5
  <2>8. pc'[p] = "open" /\ x \notin attached'[p]
    BY <1>6, <2>1 DEF ReplyStart, GoAnswer, Types, CallTypes
  <2>. QED  BY <1>4, <2>4, <2>6, <2>7, <2>8 DEF AnswerContent, ContentAt
<1>7. CASE /\ shm'[x] = shm[x] /\ sends'[x] = sends[x]
           /\ ~ (x = p /\ \E q \in Proc : SendWrite(p, q))
           /\ ~ (ReplyStart(p, x) /\ call'[p].val = "ok")
  <2>1. ASSUME NEW r \in Proc, QueuedAt(x, r)' PROVE shm[x] = req
    <3>1. CASE QueuedAt(x, r)
      BY <1>1, <3>1 DEF ContentAt
    <3>2. CASE RelayWrite(p, x, r)
      <4>1. x \in attached[p] /\ HeldBy(x, p)
        BY <3>2 DEF RelayWrite, Running, HeldBy
      <4>. QED  BY <1>1, <4>1 DEF ContentAt
    <3>. QED  BY <1>7, <2>1, <3>1, <3>2, QueuedStep
  <2>2. ASSUME pc'[p] = "received", call'[p].peer = x PROVE shm[x] = req
    <3>1. QueuedAt(x, p)
      BY <2>2, ReceivedStep, ReceiveToken
    <3>. QED  BY <1>1, <3>1 DEF ContentAt
  <2>3. ASSUME x \in attached'[p], HeldBy(x, p)'
        PROVE  shm[x] = req /\ inbox'[p][x] = sends[x]
    <3>1. CASE x \in attached[p] /\ HeldBy(x, p) /\ inbox'[p][x] = inbox[p][x]
      BY <1>1, <3>1 DEF ContentAt
    <3>2. CASE pc[p] = "received" /\ call[p].peer = x /\ inbox'[p][x] = shm[x].n
      <4>1. shm[x] = req
        BY <1>1, <3>2 DEF ContentAt
      <4>. QED  BY <3>2, <4>1
    <3>. QED  BY <2>3, <3>1, <3>2, AttachedStep
  <2>4. ASSUME pc'[p] \in {"open", "write"}, call'[p].peer = x, call'[p].val = "ok"
        PROVE  shm[x] = rep
    <3>1. pc[p] \in {"open", "write"} /\ call[p].peer = x /\ call[p].val = "ok"
      BY <1>7, <2>4, AnsweringStep
    <3>. QED  BY <1>1, <3>1 DEF ContentAt
  <2>5. ContentAt(x, p)'
    BY <1>7, <2>1, <2>2, <2>3, <2>4 DEF ContentAt
  <2>6. ASSUME NEW r \in Proc, r # p PROVE ContentAt(x, r)'
    <3>1. pc'[r] = pc[r] /\ call'[r] = call[r] /\ attached'[r] = attached[r] /\ inbox'[r] = inbox[r]
      BY <2>6, Frame
    <3>2. HeldBy(x, r)' => HeldBy(x, r)
      BY <1>3, <2>6
    <3>. QED  BY <1>1, <1>7, <2>1, <3>1, <3>2 DEF ContentAt
  <2>7. AnswerContent(x)'
    <3>1. CASE yfifo'[x] = yfifo[x]
      BY <1>1, <1>7, <3>1 DEF AnswerContent, Answered
    <3>2. CASE x = p /\ SendReturn(p)
      <4>1. yfifo[x] # <<>> /\ yfifo'[x] = Tail(yfifo[x]) /\ yfifo[x] \in Seq(Answer)
        BY <3>2 DEF SendReturn, Types, DataTypes
      <4>2. ~ Answered(x)'
        BY <1>1, <4>1, TailOfOne DEF Answered, TokenOf
      <4>. QED  BY <4>2 DEF AnswerContent
    <3>3. CASE AnswerWrite(p) /\ call[p].peer = x /\ yfifo'[x] = Append(yfifo[x], call[p].val)
      <4>1. HeldBy(x, p) /\ pc[p] = "write"
        BY <3>3, AnswerToken DEF AnswerWrite
      <4>2. yfifo[x] = <<>>
        BY <1>1, <4>1 DEF TokenOf, Answered
      <4>3. Head(yfifo'[x]) = call[p].val
        BY <3>3, <4>2
      <4>. QED  BY <1>1, <1>7, <3>3, <4>1, <4>3 DEF AnswerContent, ContentAt
    <3>. QED  BY <3>1, <3>2, <3>3, AnswerStep
  <2>. QED  BY <2>5, <2>6, <2>7
<1>. QED  BY <1>5, <1>6, <1>7, ShmStep

-----------------------------------------------------------------------------
(* The limits of the pipes and of the table of blocked senders.            *)

\* A write to a pipe that has room keeps the limit, and so does a read.
LEMMA PipeLimit ==
  ASSUME NEW S, NEW f \in [Proc -> Seq(S)], NEW n \in Nat, \A r \in Proc : Len(f[r]) <= n,
         NEW q \in Proc
  PROVE  /\ \A v \in S : Len(f[q]) < n =>
               \A r \in Proc : Len([f EXCEPT ![q] = Append(f[q], v)][r]) <= n
         /\ f[q] # <<>> => \A r \in Proc : Len([f EXCEPT ![q] = Tail(f[q])][r]) <= n
         /\ \A r \in Proc : Len([f EXCEPT ![q] = <<>>][r]) <= n
  OBVIOUS

\* No step overfills a receive fifo.
LEMMA FifoLimitStep ==
  ASSUME Types, Limits, NEW p \in Proc, StepOf(p)
  PROVE  \A r \in Proc : Len(fifo'[r]) <= FifoCap
<1>. DEFINE Goal == \A r \in Proc : Len(fifo'[r]) <= FifoCap
<1>. FifoCap \in Nat /\ fifo \in [Proc -> Seq(Proc \cup Proxy)] /\ \A r \in Proc : Len(fifo[r]) <= FifoCap
  BY BoundsAssumption DEF Types, DataTypes, Limits
<1>. senderShm[p] \in Proc \cup Proxy
  BY DEF Types, TableTypes
<1>1. CASE Attach(p)
  BY <1>1, PipeLimit DEF Attach, Kick
<1>2. CASE LocateOpen(p)
  BY <1>2, PipeLimit DEF LocateOpen, EndCall, BackFrom, NoCall, Kick
<1>3. CASE SendReturn(p)
  BY <1>3, PipeLimit DEF SendReturn, Kick
<1>4. CASE ReceiveAttach(p)
  BY <1>4, PipeLimit DEF ReceiveAttach, Fault, Die, GoAnswer, EndCall, BackFrom, NoCall, Kick
<1>5. CASE AnswerOpen(p)
  BY <1>5, PipeLimit DEF AnswerOpen, EndCall, BackFrom, NoCall, Kick
<1>6. CASE AnswerWrite(p)
  BY <1>6, PipeLimit DEF AnswerWrite, EndCall, BackFrom, NoCall, Kick
<1>7. CASE ReplyFinish(p)
  BY <1>7, PipeLimit DEF ReplyFinish, EndCall, BackFrom, NoCall, Kick
<1>8. CASE RelayFinish(p)
  BY <1>8, PipeLimit DEF RelayFinish, EndCall, BackFrom, NoCall, Kick
<1>9. ASSUME NEW s \in Proc, DetachRelease(p, s) PROVE Goal
  BY <1>9, PipeLimit DEF DetachRelease, Fault, Die, GoAnswer, NoCall, Kick
<1>10. CASE DetachClose(p)
  BY <1>10, PipeLimit DEF DetachClose, Kick
<1>11. CASE DetachRemove(p)
  BY <1>11, PipeLimit DEF DetachRemove, Kick
<1>12. CASE ReceiveRead(p)
  BY <1>12, PipeLimit DEF ReceiveRead, Kick
<1>13. ASSUME NEW s \in Proc, ReplyStart(p, s) PROVE Goal
  BY <1>13, PipeLimit DEF ReplyStart, GoAnswer, Kick
<1>14. ASSUME NEW s \in Proc, NEW q \in Proc, RelayWrite(p, s, q) PROVE Goal
  <2>1. fifo' = fifo \/ (Len(fifo[q]) < FifoCap /\ fifo' = [fifo EXCEPT ![q] = Append(fifo[q], senderShm[p])])
    BY <1>14 DEF RelayWrite, Kick
  <2>2. CASE fifo' = fifo
    BY <2>2
  <2>3. CASE Len(fifo[q]) < FifoCap /\ fifo' = [fifo EXCEPT ![q] = Append(fifo[q], senderShm[p])]
    BY <2>3, PipeLimit
  <2>. QED  BY <2>1, <2>2, <2>3
<1>15. CASE Exit(p)
  BY <1>15, PipeLimit DEF Exit, NoCall, Kick
<1>16. CASE Kill(p)
  BY <1>16, PipeLimit DEF Kill, Die, NoCall, Kick
<1>17. ASSUME NEW q \in Proc, LocateStat(p, q) PROVE Goal
  BY <1>17, PipeLimit DEF LocateStat, Kick
<1>18. ASSUME NEW q \in Proc, SendWrite(p, q) PROVE Goal
  <2>1. fifo' = fifo \/ (Len(fifo[q]) < FifoCap /\ fifo' = [fifo EXCEPT ![q] = Append(fifo[q], p)])
    BY <1>18 DEF SendWrite, Kick
  <2>2. CASE fifo' = fifo
    BY <2>2
  <2>3. CASE Len(fifo[q]) < FifoCap /\ fifo' = [fifo EXCEPT ![q] = Append(fifo[q], p)]
    BY <2>3, PipeLimit
  <2>. QED  BY <2>1, <2>2, <2>3
<1>19. ASSUME NEW q \in Proc, CheckProcess(p, q) PROVE Goal
  BY <1>19, PipeLimit DEF CheckProcess, Kick
<1>20. ASSUME NEW q \in Proc, NEW v \in Proxy, Trigger(p, q, v) PROVE Goal
  BY <1>20, PipeLimit DEF Trigger, Kick
<1>. QED
  BY <1>1, <1>2, <1>3, <1>4, <1>5, <1>6, <1>7, <1>8, <1>9, <1>10, <1>11, <1>12, <1>13, <1>14, <1>15, <1>16, <1>17, <1>18, <1>19, <1>20
     DEF StepOf

\* How a step changes a table of blocked senders.
LEMMA TableStep ==
  ASSUME Types, NEW p \in Proc, StepOf(p), NEW r \in Proc
  PROVE  \/ blocked'[r] \in SUBSET blocked[r]
         \/ \E x \in Proc : Cardinality(blocked[r]) < MaxBlocked /\ blocked'[r] = blocked[r] \cup {x}
<1>. USE DEF Types, CallTypes, TableTypes
<1>. DEFINE Goal == \/ blocked'[r] \in SUBSET blocked[r]
                    \/ \E x \in Proc : /\ Cardinality(blocked[r]) < MaxBlocked
                                       /\ blocked'[r] = blocked[r] \cup {x}
<1>. call[p].peer \in Proc
  BY CallFields
<1>1. CASE Attach(p)
  BY <1>1 DEF Attach, SaveSenderId, RemoveSenderId
<1>2. CASE LocateOpen(p)
  BY <1>2 DEF LocateOpen, EndCall, BackFrom, NoCall, SaveSenderId, RemoveSenderId
<1>3. CASE SendReturn(p)
  BY <1>3 DEF SendReturn, SaveSenderId, RemoveSenderId
<1>4. CASE ReceiveAttach(p)
  <2>1. \/ blocked' = [blocked EXCEPT ![p] = SaveSenderId(p, call[p].peer)]
        \/ blocked' = [blocked EXCEPT ![p] = RemoveSenderId(p, call[p].peer)]
        \/ blocked' = [blocked EXCEPT ![p] = blocked[p]]
        \/ blocked' = [blocked EXCEPT ![p] = {}]
    BY <1>4 DEF ReceiveAttach, Fault, Die
  <2>. QED  BY <2>1 DEF SaveSenderId, RemoveSenderId
<1>5. CASE AnswerOpen(p)
  BY <1>5 DEF AnswerOpen, EndCall, BackFrom, NoCall, SaveSenderId, RemoveSenderId
<1>6. CASE AnswerWrite(p)
  BY <1>6 DEF AnswerWrite, EndCall, BackFrom, NoCall, SaveSenderId, RemoveSenderId
<1>7. CASE ReplyFinish(p)
  BY <1>7 DEF ReplyFinish, EndCall, BackFrom, NoCall, SaveSenderId, RemoveSenderId
<1>8. CASE RelayFinish(p)
  BY <1>8 DEF RelayFinish, EndCall, BackFrom, NoCall, SaveSenderId, RemoveSenderId
<1>9. ASSUME NEW s \in Proc, DetachRelease(p, s) PROVE Goal
  <2>1. \/ blocked' = [blocked EXCEPT ![p] = RemoveSenderId(p, s)]
        \/ blocked' = [blocked EXCEPT ![p] = {}]
    BY <1>9 DEF DetachRelease, Fault, Die
  <2>. QED  BY <2>1 DEF RemoveSenderId
<1>10. CASE DetachClose(p)
  BY <1>10 DEF DetachClose, SaveSenderId, RemoveSenderId
<1>11. CASE DetachRemove(p)
  BY <1>11 DEF DetachRemove, SaveSenderId, RemoveSenderId
<1>12. CASE ReceiveRead(p)
  BY <1>12 DEF ReceiveRead, SaveSenderId, RemoveSenderId
<1>13. ASSUME NEW s \in Proc, ReplyStart(p, s) PROVE Goal
  BY <1>13 DEF ReplyStart, GoAnswer, SaveSenderId, RemoveSenderId
<1>14. ASSUME NEW s \in Proc, NEW q \in Proc, RelayWrite(p, s, q) PROVE Goal
  BY <1>14 DEF RelayWrite, SaveSenderId, RemoveSenderId
<1>15. CASE Exit(p)
  BY <1>15 DEF Exit, NoCall, SaveSenderId, RemoveSenderId
<1>16. CASE Kill(p)
  BY <1>16 DEF Kill, Die, NoCall, SaveSenderId, RemoveSenderId
<1>17. ASSUME NEW q \in Proc, LocateStat(p, q) PROVE Goal
  BY <1>17 DEF LocateStat, SaveSenderId, RemoveSenderId
<1>18. ASSUME NEW q \in Proc, SendWrite(p, q) PROVE Goal
  BY <1>18 DEF SendWrite, SaveSenderId, RemoveSenderId
<1>19. ASSUME NEW q \in Proc, CheckProcess(p, q) PROVE Goal
  BY <1>19 DEF CheckProcess, SaveSenderId, RemoveSenderId
<1>20. ASSUME NEW q \in Proc, NEW v \in Proxy, Trigger(p, q, v) PROVE Goal
  BY <1>20 DEF Trigger, SaveSenderId, RemoveSenderId
<1>. QED
  BY <1>1, <1>2, <1>3, <1>4, <1>5, <1>6, <1>7, <1>8, <1>9, <1>10, <1>11, <1>12, <1>13, <1>14, <1>15, <1>16, <1>17, <1>18, <1>19, <1>20
     DEF StepOf

\* No step overfills a receive fifo or a table of blocked senders.
LEMMA LimitsStep ==
  ASSUME Types, Limits, NEW p \in Proc, StepOf(p)
  PROVE  Limits'
<1>1. ASSUME NEW r \in Proc PROVE Cardinality(blocked'[r]) <= MaxBlocked
  <2>. IsFiniteSet(blocked[r]) /\ Cardinality(blocked[r]) \in Nat /\ MaxBlocked \in Nat
    BY ProcAssumption, BoundsAssumption, FS_Subset, FS_CardinalityType DEF Types, TableTypes
  <2>1. Cardinality(blocked[r]) <= MaxBlocked
    BY DEF Limits
  <2>2. CASE blocked'[r] \in SUBSET blocked[r]
    <3>1. Cardinality(blocked'[r]) <= Cardinality(blocked[r]) /\ Cardinality(blocked'[r]) \in Nat
      BY <2>2, FS_Subset, FS_CardinalityType
    <3>. QED  BY <2>1, <3>1
  <2>3. ASSUME NEW x \in Proc, Cardinality(blocked[r]) < MaxBlocked,
               blocked'[r] = blocked[r] \cup {x}
        PROVE  Cardinality(blocked'[r]) <= MaxBlocked
    <3>1. Cardinality(blocked'[r]) \in {Cardinality(blocked[r]), Cardinality(blocked[r]) + 1}
      BY <2>3, FS_AddElement
    <3>. QED  BY <2>3, <3>1
  <2>. QED  BY <2>2, <2>3, TableStep
<1>. QED  BY <1>1, FifoLimitStep DEF Limits

-----------------------------------------------------------------------------
(* The theorems.                                                           *)

\* The type invariant, in the groups the proofs use.
LEMMA TypeOKIsTypes == TypeOK <=> Types /\ Limits
  BY DEF TypeOK, Types, CallTypes, DataTypes, TableTypes

\* A stuttering step changes none of the invariants.
LEMMA Stutter == ASSUME UNCHANGED vars
                 PROVE  /\ TypeOK <=> TypeOK'
                        /\ Structure <=> Structure'
                        /\ OneToken <=> OneToken'
                        /\ Content <=> Content'
<1>1. TypeOK <=> TypeOK'
  BY DEF vars, TypeOK, Limits
<1>2. Structure <=> Structure'
  BY DEF vars, Structure
<1>3. OneToken <=> OneToken'
  BY DEF vars, OneToken, TokenOf, Leaving, Answered, Waiting, QueuedAt, HeldBy
<1>4. Content <=> Content'
  BY DEF vars, Content, AnswerContent, ContentAt, Leaving, Answered, QueuedAt, HeldBy
<1>. QED  BY <1>1, <1>2, <1>3, <1>4

\* The pipes and tables are empty at first.
LEMMA LimitsInit == Init => Limits
<1>1. Cardinality({}) = 0
  BY FS_EmptySet
<1>. QED  BY <1>1, BoundsAssumption DEF Init, Limits

\* No step, of any process and however signals and kills strike, ruins a type,
\* overfills a pipe or writes past the table of blocked senders.
THEOREM TypeCorrect == Spec => []TypeOK
<1>1. Init => TypeOK
  BY TypesInit, LimitsInit, TypeOKIsTypes
<1>2. TypeOK /\ [Next]_vars => TypeOK'
  <2>1. ASSUME TypeOK, Next PROVE TypeOK'
    <3>1. Types /\ Limits
      BY <2>1, TypeOKIsTypes
    <3>2. PICK p \in Proc : StepOf(p)
      BY <2>1, NextIsStep
    <3>3. Types' /\ Limits'
      BY <3>1, <3>2, TypesStep, LimitsStep
    <3>. QED  BY <3>3 DEF TypeOK, Types, CallTypes, DataTypes, TableTypes
  <2>2. ASSUME TypeOK, UNCHANGED vars PROVE TypeOK'
    BY <2>2, Stutter
  <2>. QED  BY <2>1, <2>2
<1>. QED  BY <1>1, <1>2, PTL DEF Spec

\* The inductive invariant holds initially,
LEMMA IInvInit == Init => IInv
<1>. SUFFICES ASSUME Init PROVE IInv
  OBVIOUS
<1>1. TypeOK
  BY TypesInit, LimitsInit, TypeOKIsTypes
<1>2. Structure
  BY DEF Init, Structure, NoCall
<1>3. \A s, r \in Proc : ~ QueuedAt(s, r) /\ ~ HeldBy(s, r) /\ ~ Answered(s) /\ pc[r] = "new" /\ fifo[r] = <<>>
  BY DEF Init, QueuedAt, HeldBy, Answered
<1>4. OneToken
  BY <1>3 DEF OneToken, TokenOf
<1>5. Content
  BY <1>3 DEF Content, AnswerContent, ContentAt
<1>. QED  BY <1>1, <1>2, <1>4, <1>5 DEF IInv

\* ... and no step ruins it.
LEMMA IInvStep ==
  ASSUME ~ RelayAny, ~ AsyncExit, IInv, [Next]_vars
  PROVE  IInv'
<1>1. ASSUME Next PROVE IInv'
  <2>1. Types /\ Limits /\ Structure /\ OneToken /\ Content
    BY TypeOKIsTypes DEF IInv
  <2>2. PICK p \in Proc : StepOf(p)
    BY <1>1, NextIsStep
  <2>3. TypeOK'
    BY <2>1, <2>2, TypesStep, LimitsStep DEF TypeOK, Types, CallTypes, DataTypes, TableTypes
  <2>4. Structure' /\ OneToken'
    BY <2>1, <2>2, StructureStep, OneTokenStep
  <2>5. Content'
    BY <2>1, <2>2, ContentStep DEF Content
  <2>. QED  BY <2>3, <2>4, <2>5 DEF IInv
<1>2. CASE UNCHANGED vars
  BY <1>2, Stutter DEF IInv
<1>. QED  BY <1>1, <1>2

\* IInv is inductive: it holds in every state any number of processes can reach.
THEOREM Invariance == ASSUME ~ RelayAny, ~ AsyncExit PROVE Spec => []IInv
<1>1. IInv /\ [Next]_vars => IInv'
  BY IInvStep
<1>. QED  BY <1>1, IInvInit, PTL DEF Spec

\* Any number of clients and servers, replying, relaying, leaving and being
\* killed: one answer at most per Send, none outside of one.
THEOREM OneReplyHolds == ASSUME ~ RelayAny, ~ AsyncExit PROVE Spec => []OneReply
<1>1. IInv => OneReply
  <2>. SUFFICES ASSUME IInv, NEW s \in Proc, ~ Leaving(s)
                PROVE  IdleIsClean(s) /\ InOnePlace(s)
    BY DEF OneReply
  <2>1. TokenOf(s)
    BY DEF IInv, OneToken
  <2>2. IdleIsClean(s)
    BY <2>1 DEF TokenOf, IdleIsClean, Queued, Held
  <2>3. ASSUME NEW r \in Proc, NEW q \in Proc, NEW i \in DOMAIN fifo[r], NEW j \in DOMAIN fifo[q],
               fifo[r][i] = s, fifo[q][j] = s
        PROVE  r = q /\ i = j
    <3>1. QueuedAt(s, r) /\ QueuedAt(s, q)
      BY <2>3 DEF QueuedAt
    <3>2. r = q
      BY <2>1, <3>1 DEF TokenOf
    <3>. QED  BY <2>1, <2>3, <3>2 DEF TokenOf
  <2>4. Answered(s) => Len(yfifo[s]) = 1 /\ ~ Queued(s) /\ ~ Held(s)
    BY <2>1 DEF TokenOf, Queued, Held
  <2>5. Queued(s) => ~ Held(s)
    BY <2>1 DEF TokenOf, Queued, Held
  <2>6. \A r, q \in Proc : HeldBy(s, r) /\ HeldBy(s, q) => r = q
    BY <2>1 DEF TokenOf
  <2>7. InOnePlace(s)
    BY <2>3, <2>4, <2>5, <2>6 DEF InOnePlace
  <2>. QED  BY <2>2, <2>7
<1>. QED  BY <1>1, Invariance, PTL

\* A process that leaves is in no Send.
LEMMA LeaverWaitsNot == ASSUME Structure, NEW s \in Proc, Waiting(s) PROVE ~ Leaving(s)
  BY DEF Structure, Waiting, Leaving

\* The reply Send returns was made from the request of this very Send.
THEOREM EndToEndHolds == ASSUME ~ RelayAny, ~ AsyncExit PROVE Spec => []EndToEnd
<1>1. IInv => EndToEnd
  BY LeaverWaitsNot DEF IInv, EndToEnd, Content, AnswerContent
<1>. QED  BY <1>1, Invariance, PTL

-----------------------------------------------------------------------------
(* The table of blocked senders.                                           *)

\* The table has a slot for whoever may send.
Room == Cardinality(Proc) <= MaxBlocked

\* A process holds only whom its table knows, and a sender whose segment it has
\* detached to answer is not held any more: removeSenderId may forget it.
TableOf(p) ==
    /\ pc[p] = "new" => attached[p] = {}
    /\ pc[p] \in {"open", "write", "written"} => call[p].peer \notin attached[p]
    /\ Open(p) => attached[p] \subseteq blocked[p]

Table == \A p \in Proc : TableOf(p)

\* With room, saveSenderId never drops a sender.
LEMMA SavedAlways ==
  ASSUME Types, Limits, Room, NEW p \in Proc, NEW s \in Proc
  PROVE  SaveSenderId(p, s) = blocked[p] \cup {s}
<1>. blocked[p] \subseteq Proc /\ IsFiniteSet(Proc) /\ MaxBlocked \in Nat
  BY ProcAssumption, BoundsAssumption DEF Types, TableTypes
<1>1. CASE s \in blocked[p]
  BY <1>1 DEF SaveSenderId
<1>2. CASE s \notin blocked[p]
  <2>1. /\ Cardinality(blocked[p]) <= Cardinality(Proc)
        /\ Cardinality(blocked[p]) = Cardinality(Proc) => Proc = blocked[p]
        /\ IsFiniteSet(blocked[p])
    BY FS_Subset
  <2>2. Cardinality(blocked[p]) \in Nat /\ Cardinality(Proc) \in Nat
    BY <2>1, FS_CardinalityType
  <2>3. Cardinality(blocked[p]) < MaxBlocked
    BY <1>2, <2>1, <2>2 DEF Room
  <2>. QED  BY <2>3 DEF SaveSenderId
<1>. QED  BY <1>1, <1>2

\* A step of p leaves the tables of the others alone.
LEMMA TableFrame ==
  ASSUME Types, NEW p \in Proc, StepOf(p), NEW r \in Proc, r # p
  PROVE  blocked'[r] = blocked[r]
<1>. USE DEF Types, TableTypes
<1>. DEFINE Goal == blocked'[r] = blocked[r]
<1>1. CASE Attach(p)
  BY <1>1 DEF Attach
<1>2. CASE LocateOpen(p)
  BY <1>2 DEF LocateOpen, EndCall, BackFrom, NoCall
<1>3. CASE SendReturn(p)
  BY <1>3 DEF SendReturn
<1>4. CASE ReceiveAttach(p)
  BY <1>4 DEF ReceiveAttach, Fault, Die, GoAnswer, EndCall, BackFrom, NoCall
<1>5. CASE AnswerOpen(p)
  BY <1>5 DEF AnswerOpen, EndCall, BackFrom, NoCall
<1>6. CASE AnswerWrite(p)
  BY <1>6 DEF AnswerWrite, EndCall, BackFrom, NoCall
<1>7. CASE ReplyFinish(p)
  BY <1>7 DEF ReplyFinish, EndCall, BackFrom, NoCall
<1>8. CASE RelayFinish(p)
  BY <1>8 DEF RelayFinish, EndCall, BackFrom, NoCall
<1>9. ASSUME NEW s \in Proc, DetachRelease(p, s) PROVE Goal
  BY <1>9 DEF DetachRelease, Fault, Die, GoAnswer, NoCall
<1>10. CASE DetachClose(p)
  BY <1>10 DEF DetachClose
<1>11. CASE DetachRemove(p)
  BY <1>11 DEF DetachRemove
<1>12. CASE ReceiveRead(p)
  BY <1>12 DEF ReceiveRead
<1>13. ASSUME NEW s \in Proc, ReplyStart(p, s) PROVE Goal
  BY <1>13 DEF ReplyStart, GoAnswer
<1>14. ASSUME NEW s \in Proc, NEW q \in Proc, RelayWrite(p, s, q) PROVE Goal
  BY <1>14 DEF RelayWrite
<1>15. CASE Exit(p)
  BY <1>15 DEF Exit, NoCall
<1>16. CASE Kill(p)
  BY <1>16 DEF Kill, Die, NoCall
<1>17. ASSUME NEW q \in Proc, LocateStat(p, q) PROVE Goal
  BY <1>17 DEF LocateStat
<1>18. ASSUME NEW q \in Proc, SendWrite(p, q) PROVE Goal
  BY <1>18 DEF SendWrite
<1>19. ASSUME NEW q \in Proc, CheckProcess(p, q) PROVE Goal
  BY <1>19 DEF CheckProcess
<1>20. ASSUME NEW q \in Proc, NEW v \in Proxy, Trigger(p, q, v) PROVE Goal
  BY <1>20 DEF Trigger
<1>. QED
  BY <1>1, <1>2, <1>3, <1>4, <1>5, <1>6, <1>7, <1>8, <1>9, <1>10, <1>11,
     <1>12, <1>13, <1>14, <1>15, <1>16, <1>17, <1>18, <1>19, <1>20
     DEF StepOf

\* A step of p keeps its own table true.
LEMMA TableSelf ==
  ASSUME Types, Limits, Room, NEW p \in Proc, StepOf(p), TableOf(p), Structure
  PROVE  TableOf(p)'
<1>. USE DEF Types, CallTypes, TableTypes, TableOf, Open, RemoveSenderId
<1>. DEFINE Goal == TableOf(p)'
<1>1. CASE Attach(p)
  BY <1>1 DEF Attach, Running, Interruptible
<1>2. CASE LocateOpen(p)
  BY <1>2 DEF LocateOpen, EndCall, BackFrom, NoCall, Running, Interruptible
<1>3. CASE SendReturn(p)
  BY <1>3 DEF SendReturn, Running, Interruptible
<1>4. CASE ReceiveAttach(p)
  <2>1. call[p].peer \in Proc
    BY CallFields
  <2>2. SaveSenderId(p, call[p].peer) = blocked[p] \cup {call[p].peer}
    BY <2>1, SavedAlways
  <2>. QED  BY <1>4, <2>2 DEF ReceiveAttach, Fault, Die, GoAnswer, EndCall, BackFrom, NoCall
<1>5. CASE AnswerOpen(p)
  BY <1>5 DEF AnswerOpen, EndCall, BackFrom, NoCall, Running, Interruptible
<1>6. CASE AnswerWrite(p)
  BY <1>6 DEF AnswerWrite, EndCall, BackFrom, NoCall, Running, Interruptible
<1>7. CASE ReplyFinish(p)
  BY <1>7 DEF ReplyFinish, EndCall, BackFrom, NoCall, Running, Interruptible
<1>8. CASE RelayFinish(p)
  BY <1>8 DEF RelayFinish, EndCall, BackFrom, NoCall, Running, Interruptible
<1>9. ASSUME NEW s \in Proc, DetachRelease(p, s) PROVE Goal
  BY <1>9 DEF DetachRelease, Fault, Die, GoAnswer, NoCall, Running, Interruptible
<1>10. CASE DetachClose(p)
  BY <1>10 DEF DetachClose, Running, Interruptible
<1>11. CASE DetachRemove(p)
  BY <1>11 DEF DetachRemove, Running, Interruptible
<1>12. CASE ReceiveRead(p)
  BY <1>12 DEF ReceiveRead, Running, Interruptible
<1>13. ASSUME NEW s \in Proc, ReplyStart(p, s) PROVE Goal
  BY <1>13 DEF ReplyStart, GoAnswer, Running, Interruptible
<1>14. ASSUME NEW s \in Proc, NEW q \in Proc, RelayWrite(p, s, q) PROVE Goal
  BY <1>14 DEF RelayWrite, Running, Interruptible
<1>15. CASE Exit(p)
  BY <1>15 DEF Exit, NoCall, Running, Interruptible
<1>16. CASE Kill(p)
  BY <1>16 DEF Kill, Die, NoCall, Running, Interruptible
<1>17. ASSUME NEW q \in Proc, LocateStat(p, q) PROVE Goal
  BY <1>17 DEF LocateStat, Running, Interruptible
<1>18. ASSUME NEW q \in Proc, SendWrite(p, q) PROVE Goal
  BY <1>18 DEF SendWrite, Running, Interruptible
<1>19. ASSUME NEW q \in Proc, CheckProcess(p, q) PROVE Goal
  BY <1>19 DEF CheckProcess, Running, Interruptible
<1>20. ASSUME NEW q \in Proc, NEW v \in Proxy, Trigger(p, q, v) PROVE Goal
  BY <1>20 DEF Trigger, Running, Interruptible
<1>. QED
  BY <1>1, <1>2, <1>3, <1>4, <1>5, <1>6, <1>7, <1>8, <1>9, <1>10, <1>11,
     <1>12, <1>13, <1>14, <1>15, <1>16, <1>17, <1>18, <1>19, <1>20
     DEF StepOf

\* So a step keeps the tables of all processes true.
LEMMA KeepsTable ==
  ASSUME Types, Limits, Structure, Room, Table, NEW p \in Proc, StepOf(p)
  PROVE  Table'
<1>1. TableOf(p)'
  BY TableSelf DEF Table
<1>2. ASSUME NEW r \in Proc, r # p PROVE TableOf(r)'
  BY <1>2, Frame, TableFrame DEF Table, TableOf, Open
<1>. QED  BY <1>1, <1>2 DEF Table

\* name_detach finds everyone whom its process holds in _simpl_blockedSenderId.
THEOREM HeldIsTrackedHolds == ASSUME Room PROVE Spec => []HeldIsTracked
<1>. DEFINE Inv == TypeOK /\ Structure /\ Table
<1>1. Init => Inv
  <2>. SUFFICES ASSUME Init PROVE Inv
    OBVIOUS
  <2>1. TypeOK
    BY TypesInit, LimitsInit, TypeOKIsTypes
  <2>2. Structure /\ Table
    BY DEF Init, Structure, Table, TableOf, Open, NoCall
  <2>. QED  BY <2>1, <2>2
<1>2. Inv /\ [Next]_vars => Inv'
  <2>1. ASSUME Inv, Next PROVE Inv'
    <3>1. Types /\ Limits /\ Structure /\ Table
      BY <2>1, TypeOKIsTypes
    <3>2. PICK p \in Proc : StepOf(p)
      BY <2>1, NextIsStep
    <3>3. Types' /\ Limits' /\ Structure' /\ Table'
      BY <3>1, <3>2, TypesStep, LimitsStep, StructureStep, KeepsTable
    <3>4. TypeOK'
      BY <3>3 DEF TypeOK, Types, CallTypes, DataTypes, TableTypes
    <3>. QED  BY <3>3, <3>4
  <2>2. ASSUME Inv, UNCHANGED vars PROVE Inv'
    <3>1. TypeOK' /\ Structure'
      BY <2>2, Stutter
    <3>2. Table'
      BY <2>2 DEF vars, Table, TableOf, Open
    <3>. QED  BY <3>1, <3>2
  <2>. QED  BY <2>1, <2>2
<1>3. Inv => HeldIsTracked
  BY DEF Table, TableOf, HeldIsTracked
<1>. QED  BY <1>1, <1>2, <1>3, PTL DEF Spec

-----------------------------------------------------------------------------
(* No fault while those who send stay.                                     *)

\* Whoever may exit, get a signal or be killed sends nothing.
SendersStay == \A p \in Exitable \cup Killable : MaxSends[p] = 0

\* A sender: a process that sends and that has attached its name.
Sender(x) == x \in Proc => MaxSends[x] # 0 /\ pc[x] # "new"

\* The call of p in which it has detached the segment of a sender that its table
\* still names.
Replying(p) == pc[p] \in {"open", "write", "written"} /\ call[p].op = "reply"

\* Every process that p could come to attach or answer is a sender.
NamesOf(p) ==
    /\ Sender(senderShm[p])
    /\ pc[p] \in {"received", "open", "write"} => Sender(call[p].peer)
    /\ \A x \in attached[p] : Sender(x)

\* The segments of the senders in the table of p are mapped.
MappedOf(p) ==
    /\ \A x \in blocked[p] : x \in attached[p] \/ (Replying(p) /\ x = call[p].peer)
    /\ pc[p] = "written" => call[p].op = "reply"
    /\ pc[p] = "closed" => blocked[p] = {}
    /\ ~ segv[p]

\* A sender runs.
RunsOf(p) ==
    MaxSends[p] # 0 => /\ pc[p] \notin {"detach", "closed", "gone", "killed"}
                       /\ call[p].op # "release"

Mapped ==
    /\ \A p \in Proc : NamesOf(p) /\ MappedOf(p) /\ RunsOf(p)
    /\ \A p \in Proc : \A i \in DOMAIN fifo[p] : Sender(fifo[p][i])

\* A process that has attached its name is never new again.
LEMMA NeverNew ==
  ASSUME Types, NEW p \in Proc, StepOf(p), NEW x \in Proc, pc'[x] = "new"
  PROVE  pc[x] = "new"
<1>. USE DEF Types, CallTypes
<1>1. CASE Attach(p)
  BY <1>1 DEF Attach
<1>2. CASE LocateOpen(p)
  BY <1>2 DEF LocateOpen, EndCall, BackFrom, NoCall
<1>3. CASE SendReturn(p)
  BY <1>3 DEF SendReturn
<1>4. CASE ReceiveAttach(p)
  BY <1>4 DEF ReceiveAttach, Fault, Die, GoAnswer, EndCall, BackFrom, NoCall
<1>5. CASE AnswerOpen(p)
  BY <1>5 DEF AnswerOpen, EndCall, BackFrom, NoCall
<1>6. CASE AnswerWrite(p)
  BY <1>6 DEF AnswerWrite, EndCall, BackFrom, NoCall
<1>7. CASE ReplyFinish(p)
  BY <1>7 DEF ReplyFinish, EndCall, BackFrom, NoCall
<1>8. CASE RelayFinish(p)
  BY <1>8 DEF RelayFinish, EndCall, BackFrom, NoCall
<1>9. ASSUME NEW s \in Proc, DetachRelease(p, s) PROVE pc[x] = "new"
  <2>1. pc' = [pc EXCEPT ![p] = "killed"] \/ pc' = [pc EXCEPT ![p] = "detach"] \/ pc' = [pc EXCEPT ![p] = "open"]
    BY <1>9 DEF DetachRelease, Fault, Die, GoAnswer
  <2>. QED  BY <2>1
<1>10. CASE DetachClose(p)
  BY <1>10 DEF DetachClose
<1>11. CASE DetachRemove(p)
  BY <1>11 DEF DetachRemove
<1>12. CASE ReceiveRead(p)
  BY <1>12 DEF ReceiveRead
<1>13. ASSUME NEW s \in Proc, ReplyStart(p, s) PROVE pc[x] = "new"
  BY <1>13 DEF ReplyStart, GoAnswer
<1>14. ASSUME NEW s \in Proc, NEW q \in Proc, RelayWrite(p, s, q) PROVE pc[x] = "new"
  BY <1>14 DEF RelayWrite
<1>15. CASE Exit(p)
  BY <1>15 DEF Exit, NoCall
<1>16. CASE Kill(p)
  BY <1>16 DEF Kill, Die, NoCall
<1>17. ASSUME NEW q \in Proc, LocateStat(p, q) PROVE pc[x] = "new"
  BY <1>17 DEF LocateStat
<1>18. ASSUME NEW q \in Proc, SendWrite(p, q) PROVE pc[x] = "new"
  BY <1>18 DEF SendWrite
<1>19. ASSUME NEW q \in Proc, CheckProcess(p, q) PROVE pc[x] = "new"
  BY <1>19 DEF CheckProcess
<1>20. ASSUME NEW q \in Proc, NEW v \in Proxy, Trigger(p, q, v) PROVE pc[x] = "new"
  BY <1>20 DEF Trigger
<1>. QED
  BY <1>1, <1>2, <1>3, <1>4, <1>5, <1>6, <1>7, <1>8, <1>9, <1>10, <1>11,
     <1>12, <1>13, <1>14, <1>15, <1>16, <1>17, <1>18, <1>19, <1>20
     DEF StepOf

\* A sender has its fifos open and its segment mapped.
LEMMA SenderRuns ==
  ASSUME Mapped, NEW x \in Proc, Sender(x)
  PROVE  Open(x) /\ ShmExists(x)
  BY DEF Mapped, RunsOf, Sender, Open, ShmExists

\* A step of p does not disturb what it is itself.
LEMMA MappedSelf ==
  ASSUME Types, SendersStay, ~ AsyncExit, Mapped, NEW p \in Proc, StepOf(p)
  PROVE  /\ Sender(senderShm'[p])
         /\ pc'[p] \in {"received", "open", "write"} => Sender(call'[p].peer)
         /\ \A x \in attached'[p] : Sender(x)
         /\ MappedOf(p)' /\ RunsOf(p)'
<1>. USE DEF Types, CallTypes, TableTypes, MappedOf, RunsOf, Replying, Running
<1>. DEFINE Goal == /\ Sender(senderShm'[p])
                    /\ pc'[p] \in {"received", "open", "write"} => Sender(call'[p].peer)
                    /\ \A x \in attached'[p] : Sender(x)
                    /\ MappedOf(p)' /\ RunsOf(p)'
<1>. NamesOf(p) /\ MappedOf(p) /\ RunsOf(p) /\ Sender(ProxyOne)
  BY ProxyAssumption DEF Mapped, Sender
<1>. call[p].peer \in Proc
  BY CallFields
<1>1. CASE Attach(p)
  BY <1>1 DEF Attach, NamesOf
<1>2. CASE LocateOpen(p)
  BY <1>2 DEF LocateOpen, EndCall, BackFrom, NoCall, NamesOf
<1>3. CASE SendReturn(p)
  BY <1>3 DEF SendReturn, NamesOf
<1>4. CASE ReceiveAttach(p)
  <2>. DEFINE s == call[p].peer
  <2>1. Sender(s) /\ ShmExists(s)
    BY <1>4, SenderRuns DEF ReceiveAttach, NamesOf
  <2>2. SaveSenderId(p, s) \subseteq blocked[p] \cup {s}
    BY DEF SaveSenderId
  <2>. QED  BY <1>4, <2>1, <2>2 DEF ReceiveAttach, GoAnswer, EndCall, BackFrom, NoCall, NamesOf, RemoveSenderId
<1>5. CASE AnswerOpen(p)
  <2>1. Open(call[p].peer)
    BY <1>5, SenderRuns DEF AnswerOpen, NamesOf
  <2>. QED  BY <1>5, <2>1 DEF AnswerOpen, NamesOf
<1>6. CASE AnswerWrite(p)
  <2>1. Open(call[p].peer)
    BY <1>6, SenderRuns DEF AnswerWrite, NamesOf
  <2>. QED  BY <1>6, <2>1 DEF AnswerWrite, EndCall, BackFrom, NoCall, NamesOf
<1>7. CASE ReplyFinish(p)
  BY <1>7 DEF ReplyFinish, EndCall, BackFrom, NoCall, NamesOf, RemoveSenderId
<1>8. CASE RelayFinish(p)
  BY <1>8 DEF RelayFinish, EndCall, BackFrom, NoCall, NamesOf, RemoveSenderId
<1>9. ASSUME NEW s \in Proc, DetachRelease(p, s) PROVE Goal
  <2>1. s \in attached[p]
    BY <1>9 DEF DetachRelease
  <2>. QED  BY <1>9, <2>1 DEF DetachRelease, GoAnswer, NamesOf, RemoveSenderId
<1>10. CASE DetachClose(p)
  BY <1>10 DEF DetachClose, NamesOf
<1>11. CASE DetachRemove(p)
  BY <1>11 DEF DetachRemove, NamesOf
<1>12. CASE ReceiveRead(p)
  <2>1. fifo[p] \in Seq(Proc \cup Proxy) /\ fifo[p] # <<>>
    BY <1>12 DEF ReceiveRead, DataTypes
  <2>2. 1 \in DOMAIN fifo[p] /\ Head(fifo[p]) = fifo[p][1]
    BY <2>1
  <2>3. Sender(Head(fifo[p]))
    BY <2>2 DEF Mapped
  <2>. QED  BY <1>12, <2>3 DEF ReceiveRead, NamesOf
<1>13. ASSUME NEW s \in Proc, ReplyStart(p, s) PROVE Goal
  BY <1>13 DEF ReplyStart, GoAnswer, NamesOf
<1>14. ASSUME NEW s \in Proc, NEW q \in Proc, RelayWrite(p, s, q) PROVE Goal
  BY <1>14 DEF RelayWrite, NamesOf
<1>15. CASE Exit(p)
  <2>1. MaxSends[p] = 0 /\ pc[p] \in {"run", "sendWait", "hung"}
    BY <1>15 DEF Exit, SendersStay, Interruptible
  <2>. QED  BY <1>15, <2>1 DEF Exit, NoCall, NamesOf
<1>16. CASE Kill(p)
  <2>1. MaxSends[p] = 0
    BY <1>16 DEF Kill, SendersStay
  <2>. QED  BY <1>16, <2>1 DEF Kill, Die, NoCall, NamesOf
<1>17. ASSUME NEW q \in Proc, LocateStat(p, q) PROVE Goal
  BY <1>17 DEF LocateStat, NamesOf
<1>18. ASSUME NEW q \in Proc, SendWrite(p, q) PROVE Goal
  BY <1>18 DEF SendWrite, NamesOf
<1>19. ASSUME NEW q \in Proc, CheckProcess(p, q) PROVE Goal
  BY <1>19 DEF CheckProcess, NamesOf
<1>20. ASSUME NEW q \in Proc, NEW v \in Proxy, Trigger(p, q, v) PROVE Goal
  BY <1>20 DEF Trigger, NamesOf
<1>. QED
  BY <1>1, <1>2, <1>3, <1>4, <1>5, <1>6, <1>7, <1>8, <1>9, <1>10, <1>11,
     <1>12, <1>13, <1>14, <1>15, <1>16, <1>17, <1>18, <1>19, <1>20
     DEF StepOf

\* A step of p leaves the tables of the others alone.
LEMMA MappedFrame ==
  ASSUME Types, NEW p \in Proc, StepOf(p), NEW r \in Proc, r # p
  PROVE  senderShm'[r] = senderShm[r] /\ segv'[r] = segv[r]
<1>. USE DEF Types, TableTypes
<1>. DEFINE Goal == senderShm'[r] = senderShm[r] /\ segv'[r] = segv[r]
<1>1. CASE Attach(p)
  BY <1>1 DEF Attach
<1>2. CASE LocateOpen(p)
  BY <1>2 DEF LocateOpen, EndCall, BackFrom, NoCall
<1>3. CASE SendReturn(p)
  BY <1>3 DEF SendReturn
<1>4. CASE ReceiveAttach(p)
  BY <1>4 DEF ReceiveAttach, Fault, Die, GoAnswer, EndCall, BackFrom, NoCall
<1>5. CASE AnswerOpen(p)
  BY <1>5 DEF AnswerOpen, EndCall, BackFrom, NoCall
<1>6. CASE AnswerWrite(p)
  BY <1>6 DEF AnswerWrite, EndCall, BackFrom, NoCall
<1>7. CASE ReplyFinish(p)
  BY <1>7 DEF ReplyFinish, EndCall, BackFrom, NoCall
<1>8. CASE RelayFinish(p)
  BY <1>8 DEF RelayFinish, EndCall, BackFrom, NoCall
<1>9. ASSUME NEW s \in Proc, DetachRelease(p, s) PROVE Goal
  BY <1>9 DEF DetachRelease, Fault, Die, GoAnswer, NoCall
<1>10. CASE DetachClose(p)
  BY <1>10 DEF DetachClose
<1>11. CASE DetachRemove(p)
  BY <1>11 DEF DetachRemove
<1>12. CASE ReceiveRead(p)
  BY <1>12 DEF ReceiveRead
<1>13. ASSUME NEW s \in Proc, ReplyStart(p, s) PROVE Goal
  BY <1>13 DEF ReplyStart, GoAnswer
<1>14. ASSUME NEW s \in Proc, NEW q \in Proc, RelayWrite(p, s, q) PROVE Goal
  BY <1>14 DEF RelayWrite
<1>15. CASE Exit(p)
  BY <1>15 DEF Exit, NoCall
<1>16. CASE Kill(p)
  BY <1>16 DEF Kill, Die, NoCall
<1>17. ASSUME NEW q \in Proc, LocateStat(p, q) PROVE Goal
  BY <1>17 DEF LocateStat
<1>18. ASSUME NEW q \in Proc, SendWrite(p, q) PROVE Goal
  BY <1>18 DEF SendWrite
<1>19. ASSUME NEW q \in Proc, CheckProcess(p, q) PROVE Goal
  BY <1>19 DEF CheckProcess
<1>20. ASSUME NEW q \in Proc, NEW v \in Proxy, Trigger(p, q, v) PROVE Goal
  BY <1>20 DEF Trigger
<1>. QED
  BY <1>1, <1>2, <1>3, <1>4, <1>5, <1>6, <1>7, <1>8, <1>9, <1>10, <1>11,
     <1>12, <1>13, <1>14, <1>15, <1>16, <1>17, <1>18, <1>19, <1>20
     DEF StepOf

\* What is in a fifo was there, is its writer, or was the last sender of a relay.
LEMMA QueuedNames ==
  ASSUME Types, Mapped, NEW p \in Proc, StepOf(p), NEW r \in Proc, NEW i \in DOMAIN fifo'[r]
  PROVE  Sender(fifo'[r][i])
<1>. USE DEF Types, DataTypes
<1>. DEFINE Goal == Sender(fifo'[r][i])
<1>. fifo' = fifo => Goal
  BY DEF Mapped
<1>a. ASSUME NEW q \in Proc, NEW m \in Proc \cup Proxy, Sender(m), fifo' = [fifo EXCEPT ![q] = Append(fifo[q], m)]
      PROVE  Goal
  <2>1. CASE r # q
    BY <1>a, <2>1 DEF Mapped
  <2>2. CASE r = q
    <3>1. fifo'[r] = Append(fifo[r], m) /\ fifo[r] \in Seq(Proc \cup Proxy)
      BY <1>a, <2>2
    <3>2. \/ i \in DOMAIN fifo[r] /\ fifo'[r][i] = fifo[r][i]
          \/ fifo'[r][i] = m
      BY <3>1
    <3>. QED  BY <1>a, <3>2 DEF Mapped
  <2>. QED  BY <2>1, <2>2
<1>b. ASSUME fifo' = [fifo EXCEPT ![p] = <<>>] PROVE Goal
  BY <1>b DEF Mapped
<1>c. ASSUME fifo[p] # <<>>, fifo' = [fifo EXCEPT ![p] = Tail(fifo[p])] PROVE Goal
  <2>1. CASE r # p
    BY <1>c, <2>1 DEF Mapped
  <2>2. CASE r = p
    <3>1. fifo'[r] = Tail(fifo[r]) /\ fifo[r] \in Seq(Proc \cup Proxy) /\ fifo[r] # <<>>
      BY <1>c, <2>2
    <3>2. i + 1 \in DOMAIN fifo[r] /\ fifo'[r][i] = fifo[r][i + 1]
      BY <3>1
    <3>. QED  BY <3>2 DEF Mapped
  <2>. QED  BY <2>1, <2>2
<1>1. CASE Attach(p)
  BY <1>1 DEF Attach
<1>2. CASE LocateOpen(p)
  BY <1>2 DEF LocateOpen, EndCall, BackFrom, NoCall
<1>3. CASE SendReturn(p)
  BY <1>3 DEF SendReturn
<1>4. CASE ReceiveAttach(p)
  BY <1>4, <1>b DEF ReceiveAttach, Fault, Die
<1>5. CASE AnswerOpen(p)
  BY <1>5 DEF AnswerOpen, EndCall, BackFrom, NoCall
<1>6. CASE AnswerWrite(p)
  BY <1>6 DEF AnswerWrite, EndCall, BackFrom, NoCall
<1>7. CASE ReplyFinish(p)
  BY <1>7 DEF ReplyFinish, EndCall, BackFrom, NoCall
<1>8. CASE RelayFinish(p)
  BY <1>8 DEF RelayFinish, EndCall, BackFrom, NoCall
<1>9. ASSUME NEW s \in Proc, DetachRelease(p, s) PROVE Goal
  BY <1>9, <1>b DEF DetachRelease, Fault, Die
<1>10. CASE DetachClose(p)
  BY <1>10, <1>b DEF DetachClose
<1>11. CASE DetachRemove(p)
  BY <1>11 DEF DetachRemove
<1>12. CASE ReceiveRead(p)
  BY <1>12, <1>c DEF ReceiveRead
<1>13. ASSUME NEW s \in Proc, ReplyStart(p, s) PROVE Goal
  BY <1>13 DEF ReplyStart, GoAnswer
<1>14. ASSUME NEW s \in Proc, NEW q \in Proc, RelayWrite(p, s, q) PROVE Goal
  <2>1. Sender(senderShm[p]) /\ senderShm[p] \in Proc \cup Proxy
    BY DEF Mapped, NamesOf, TableTypes
  <2>. QED  BY <1>14, <2>1, <1>a DEF RelayWrite, Kick
<1>15. CASE Exit(p)
  BY <1>15 DEF Exit, NoCall
<1>16. CASE Kill(p)
  BY <1>16, <1>b DEF Kill, Die
<1>17. ASSUME NEW q \in Proc, LocateStat(p, q) PROVE Goal
  BY <1>17 DEF LocateStat
<1>18. ASSUME NEW q \in Proc, SendWrite(p, q) PROVE Goal
  <2>1. Sender(p)
    <3>1. pc[p] = "run" /\ sends[p] < MaxSends[p]
      BY <1>18 DEF SendWrite, Running
    <3>2. sends[p] \in Nat /\ MaxSends[p] \in Nat
      BY BoundsAssumption DEF TableTypes, Request
    <3>. QED  BY <3>1, <3>2 DEF Sender
  <2>. QED  BY <1>18, <2>1, <1>a DEF SendWrite, Kick
<1>19. ASSUME NEW q \in Proc, CheckProcess(p, q) PROVE Goal
  BY <1>19 DEF CheckProcess
<1>20. ASSUME NEW q \in Proc, NEW v \in Proxy, Trigger(p, q, v) PROVE Goal
  <2>1. Sender(v)
    BY ProxyAssumption DEF Sender
  <2>. QED  BY <1>20, <2>1, <1>a DEF Trigger, Kick
<1>. QED
  BY <1>1, <1>2, <1>3, <1>4, <1>5, <1>6, <1>7, <1>8, <1>9, <1>10, <1>11,
     <1>12, <1>13, <1>14, <1>15, <1>16, <1>17, <1>18, <1>19, <1>20
     DEF StepOf

\* No process touches a segment that is not mapped, neither in Receive nor in the
\* clean up of name_detach, as long as whoever sends stays: servers may exit, get
\* a signal between two calls and be killed, and relay whom they hold.
THEOREM NoFaultHolds == ASSUME SendersStay, ~ AsyncExit PROVE Spec => []NoFault
<1>. DEFINE Inv == TypeOK /\ Mapped
<1>1. Init => Inv
  <2>. SUFFICES ASSUME Init PROVE Inv
    OBVIOUS
  <2>1. TypeOK
    BY TypesInit, LimitsInit, TypeOKIsTypes
  <2>2. /\ \A p \in Proc : pc[p] = "new" /\ call[p].op = "none" /\ senderShm[p] = ProxyOne /\ ~ segv[p]
        /\ \A p \in Proc : fifo[p] = <<>> /\ attached[p] = {} /\ blocked[p] = {}
    BY DEF Init, NoCall
  <2>3. Mapped
    BY <2>2, ProxyAssumption DEF Mapped, NamesOf, MappedOf, RunsOf, Sender, Replying
  <2>. QED  BY <2>1, <2>3
<1>2. Inv /\ [Next]_vars => Inv'
  <2>1. ASSUME Inv, Next PROVE Inv'
    <3>1. Types /\ Limits /\ Mapped
      BY <2>1, TypeOKIsTypes
    <3>2. PICK p \in Proc : StepOf(p)
      BY <2>1, NextIsStep
    <3>3. Types' /\ Limits'
      BY <3>1, <3>2, TypesStep, LimitsStep
    <3>4. TypeOK'
      BY <3>3 DEF TypeOK, Types, CallTypes, DataTypes, TableTypes
    <3>5. \A x \in Proc : pc[x] # "new" => pc'[x] # "new"
      BY <3>1, <3>2, NeverNew
    <3>6. ASSUME NEW r \in Proc PROVE NamesOf(r)' /\ MappedOf(r)' /\ RunsOf(r)'
      <4>1. CASE r = p
        BY <3>1, <3>2, <3>5, <4>1, MappedSelf DEF NamesOf, Sender
      <4>2. CASE r # p
        <5>1. /\ pc'[r] = pc[r] /\ call'[r] = call[r] /\ attached'[r] = attached[r] /\ blocked'[r] = blocked[r]
              /\ senderShm'[r] = senderShm[r] /\ segv'[r] = segv[r]
          BY <3>1, <3>2, <4>2, Frame, TableFrame, MappedFrame
        <5>2. NamesOf(r) /\ MappedOf(r) /\ RunsOf(r)
          BY <3>1 DEF Mapped
        <5>. QED  BY <3>5, <5>1, <5>2 DEF NamesOf, MappedOf, RunsOf, Replying, Sender
      <4>. QED  BY <4>1, <4>2
    <3>7. \A r \in Proc : \A i \in DOMAIN fifo'[r] :
             fifo'[r][i] \in Proc => MaxSends[fifo'[r][i]] # 0 /\ pc'[fifo'[r][i]] # "new"
      BY <3>1, <3>2, <3>5, QueuedNames DEF Sender
    <3>. QED  BY <3>4, <3>6, <3>7 DEF Mapped, Sender
  <2>2. ASSUME Inv, UNCHANGED vars PROVE Inv'
    <3>1. TypeOK'
      BY <2>2, Stutter
    <3>2. Mapped'
      BY <2>2 DEF vars, Mapped, NamesOf, MappedOf, RunsOf, Sender, Replying
    <3>. QED  BY <3>1, <3>2
  <2>. QED  BY <2>1, <2>2
<1>3. Inv => NoFault
  BY DEF Mapped, MappedOf, NoFault
<1>. QED  BY <1>1, <1>2, <1>3, PTL DEF Spec

-----------------------------------------------------------------------------
(* No message is lost while nobody leaves.                                 *)

\* Nobody may exit, get a signal or be killed.
Stay == Exitable = {} /\ Killable = {}

\* A sender that is named somewhere has attached its name.
Known(x) == x \in Proc => pc[x] # "new"

\* Nobody is leaving, and every sender named in a fifo or a call is there.
Quiet ==
    /\ \A p \in Proc : pc[p] \notin {"detach", "closed", "gone", "killed"} /\ call[p].op # "release"
    /\ \A p \in Proc : pc[p] = "received" => Known(call[p].peer)
    /\ \A p \in Proc : Known(senderShm[p])
    /\ \A p \in Proc : \A i \in DOMAIN fifo[p] : Known(fifo[p][i])

\* A step that is not part of an end.
WorkOf(p) ==
    \/ Attach(p) \/ LocateOpen(p) \/ SendReturn(p) \/ ReceiveAttach(p)
    \/ AnswerOpen(p) \/ AnswerWrite(p) \/ ReplyFinish(p) \/ RelayFinish(p) \/ ReceiveRead(p)
    \/ \E s \in Proc : ReplyStart(p, s)
    \/ \E q \in Proc : LocateStat(p, q) \/ SendWrite(p, q) \/ CheckProcess(p, q)
    \/ \E s \in Proc, q \in Proc : RelayWrite(p, s, q)
    \/ \E q \in Proc, v \in Proxy : Trigger(p, q, v)

\* When nobody may leave, no step is part of an end.
LEMMA NobodyLeaves ==
  ASSUME Types, Stay, Quiet, NEW p \in Proc, StepOf(p) PROVE WorkOf(p)
<1>1. ~ Exit(p) /\ ~ Kill(p)
  BY DEF Stay, Exit, Kill
<1>2. ~ DetachClose(p) /\ ~ DetachRemove(p) /\ \A s \in Proc : ~ DetachRelease(p, s)
  BY DEF Quiet, DetachClose, DetachRemove, DetachRelease
<1>. QED  BY <1>1, <1>2 DEF StepOf, WorkOf

\* Receive always finds the segment of a sender.
LEMMA NoFaultHere ==
  ASSUME Types, Quiet, NEW p \in Proc, ReceiveAttach(p)
  PROVE  ShmExists(call[p].peer)
  BY CallFields DEF ReceiveAttach, Quiet, Known, ShmExists

\* What a process is and calls stays quiet.
LEMMA QuietSelf ==
  ASSUME Types, Quiet, NEW p \in Proc, WorkOf(p)
  PROVE  /\ pc'[p] \notin {"detach", "closed", "gone", "killed", "new"} /\ call'[p].op # "release"
         /\ pc'[p] = "received" => Known(call'[p].peer)
         /\ Known(senderShm'[p])
<1>. USE DEF Types, CallTypes, DataTypes, TableTypes, Quiet, Known
<1>. DEFINE Goal == /\ pc'[p] \notin {"detach", "closed", "gone", "killed", "new"} /\ call'[p].op # "release"
                    /\ pc'[p] = "received" => Known(call'[p].peer)
                    /\ Known(senderShm'[p])
<1>1. CASE Attach(p)
  BY <1>1 DEF Attach, Running
<1>2. CASE LocateOpen(p)
  BY <1>2 DEF LocateOpen, EndCall, BackFrom, NoCall, Running
<1>3. CASE SendReturn(p)
  BY <1>3 DEF SendReturn, Running
<1>4. CASE ReceiveAttach(p)
  BY <1>4, NoFaultHere DEF ReceiveAttach, GoAnswer, EndCall, BackFrom, NoCall
<1>5. CASE AnswerOpen(p)
  BY <1>5 DEF AnswerOpen, EndCall, BackFrom, NoCall, Running
<1>6. CASE AnswerWrite(p)
  BY <1>6 DEF AnswerWrite, EndCall, BackFrom, NoCall, Running
<1>7. CASE ReplyFinish(p)
  BY <1>7, ProxyAssumption DEF ReplyFinish, EndCall, BackFrom, NoCall, Running
<1>8. CASE RelayFinish(p)
  BY <1>8, ProxyAssumption DEF RelayFinish, EndCall, BackFrom, NoCall, Running
<1>9. CASE ReceiveRead(p)
  <2>1. fifo[p] \in Seq(Proc \cup Proxy) /\ fifo[p] # <<>>
    BY <1>9 DEF ReceiveRead
  <2>2. 1 \in DOMAIN fifo[p] /\ Head(fifo[p]) = fifo[p][1]
    BY <2>1
  <2>3. Known(Head(fifo[p]))
    BY <2>2
  <2>. QED  BY <1>9, <2>3 DEF ReceiveRead, Running
<1>10. ASSUME NEW s \in Proc, ReplyStart(p, s) PROVE Goal
  BY <1>10 DEF ReplyStart, GoAnswer, Running
<1>11. ASSUME NEW s \in Proc, NEW q \in Proc, RelayWrite(p, s, q) PROVE Goal
  BY <1>11 DEF RelayWrite, Running
<1>12. ASSUME NEW q \in Proc, LocateStat(p, q) PROVE Goal
  BY <1>12 DEF LocateStat, Running
<1>13. ASSUME NEW q \in Proc, SendWrite(p, q) PROVE Goal
  BY <1>13 DEF SendWrite, Running
<1>14. ASSUME NEW q \in Proc, CheckProcess(p, q) PROVE Goal
  BY <1>14 DEF CheckProcess, Running
<1>15. ASSUME NEW q \in Proc, NEW v \in Proxy, Trigger(p, q, v) PROVE Goal
  BY <1>15 DEF Trigger, Running
<1>. QED
  BY <1>1, <1>2, <1>3, <1>4, <1>5, <1>6, <1>7, <1>8, <1>9, <1>10, <1>11,
     <1>12, <1>13, <1>14, <1>15
     DEF WorkOf

\* A fifo is not empty after a write.
LEMMA AppendNotEmpty ==
  ASSUME NEW S, NEW u \in Seq(S), NEW v \in S PROVE Append(u, v) # <<>>
<1>1. Len(Append(u, v)) = Len(u) + 1 /\ Len(u) \in Nat
  OBVIOUS
<1>2. Len(<<>>) = 0
  OBVIOUS
<1>. QED  BY <1>1, <1>2

\* Messages in a fifo stay there until they are read.
LEMMA QueueAppend ==
  ASSUME Types, NEW q \in Proc, NEW m \in Proc \cup Proxy, fifo' = [fifo EXCEPT ![q] = Append(fifo[q], m)],
         NEW s \in Proc, NEW r \in Proc
  PROVE  /\ QueuedAt(s, r) => QueuedAt(s, r)'
         /\ m = s => QueuedAt(s, q)'
<1>. USE DEF Types, DataTypes
<1>1. /\ fifo'[q] = Append(fifo[q], m) /\ Len(fifo[q]) \in Nat /\ DOMAIN fifo[q] = 1..Len(fifo[q])
      /\ DOMAIN fifo'[q] = 1..(Len(fifo[q]) + 1) /\ fifo'[q][Len(fifo[q]) + 1] = m
      /\ \A i \in DOMAIN fifo[q] : fifo'[q][i] = fifo[q][i]
  OBVIOUS
<1>2. ASSUME m = s PROVE QueuedAt(s, q)'
  <2>1. Len(fifo[q]) + 1 \in DOMAIN fifo'[q]
    BY <1>1
  <2>. QED  BY <1>1, <1>2, <2>1 DEF QueuedAt
<1>3. ASSUME QueuedAt(s, r) PROVE QueuedAt(s, r)'
  <2>1. CASE r # q
    BY <1>3, <2>1 DEF QueuedAt
  <2>2. CASE r = q
    <3>1. PICK i \in DOMAIN fifo[q] : fifo[q][i] = s
      BY <1>3, <2>2 DEF QueuedAt
    <3>2. i \in DOMAIN fifo'[q] /\ fifo'[q][i] = s
      BY <1>1, <3>1
    <3>. QED  BY <2>2, <3>2 DEF QueuedAt
  <2>. QED  BY <2>1, <2>2
<1>. QED  BY <1>2, <1>3

\* Reading takes one message, the first.
LEMMA QueueTail ==
  ASSUME Types, NEW p \in Proc, fifo[p] # <<>>, fifo' = [fifo EXCEPT ![p] = Tail(fifo[p])],
         NEW s \in Proc, NEW r \in Proc, QueuedAt(s, r)
  PROVE  QueuedAt(s, r)' \/ (r = p /\ Head(fifo[p]) = s)
<1>. USE DEF Types, DataTypes
<1>1. CASE r # p
  BY <1>1 DEF QueuedAt
<1>2. CASE r = p
  <2>1. PICK i \in DOMAIN fifo[p] : fifo[p][i] = s
    BY <1>2 DEF QueuedAt
  <2>2. /\ Len(fifo[p]) \in Nat /\ DOMAIN fifo[p] = 1..Len(fifo[p]) /\ Head(fifo[p]) = fifo[p][1]
        /\ fifo'[p] = Tail(fifo[p]) /\ DOMAIN fifo'[p] = 1..(Len(fifo[p]) - 1)
        /\ \A j \in DOMAIN fifo'[p] : fifo'[p][j] = fifo[p][j + 1]
    OBVIOUS
  <2>3. CASE i = 1
    BY <1>2, <2>1, <2>2, <2>3
  <2>4. CASE i # 1
    <3>1. i - 1 \in DOMAIN fifo'[p] /\ fifo'[p][i - 1] = s
      BY <2>1, <2>2, <2>4
    <3>. QED  BY <1>2, <3>1 DEF QueuedAt
  <2>. QED  BY <2>3, <2>4
<1>. QED  BY <1>1, <1>2

\* Every message in a fifo is from somebody who is there.
LEMMA QuietFifo ==
  ASSUME Types, ~ RelayAny, Quiet, NEW p \in Proc, WorkOf(p), StepOf(p)
  PROVE  \A r \in Proc : \A i \in DOMAIN fifo'[r] : fifo'[r][i] \in Proc => pc[fifo'[r][i]] # "new"
<1>. SUFFICES ASSUME NEW r \in Proc, NEW x \in Proc, \E i \in DOMAIN fifo'[r] : fifo'[r][i] = x
              PROVE  pc[x] # "new"
  OBVIOUS
<1>1. QueuedAt(x, r)'
  BY DEF QueuedAt
<1>2. QueuedAt(x, r) \/ (SendWrite(p, r) /\ x = p) \/ RelayWrite(p, x, r)
  BY <1>1, QueuedStep
<1>3. ASSUME QueuedAt(x, r) PROVE pc[x] # "new"
  BY <1>3 DEF QueuedAt, Quiet, Known
<1>4. ASSUME SendWrite(p, r), x = p PROVE pc[x] # "new"
  BY <1>4 DEF SendWrite, Running
<1>5. ASSUME RelayWrite(p, x, r) PROVE pc[x] # "new"
  BY <1>5 DEF RelayWrite, MayRelay, Quiet, Known
<1>. QED  BY <1>2, <1>3, <1>4, <1>5

\* A step of p leaves the note of the last sender of the others alone.
LEMMA SenderFrame ==
  ASSUME Types, NEW p \in Proc, WorkOf(p), Quiet, NEW r \in Proc, r # p
  PROVE  senderShm'[r] = senderShm[r]
<1>. USE DEF Types, TableTypes
<1>. DEFINE Goal == senderShm'[r] = senderShm[r]
<1>1. CASE Attach(p)
  BY <1>1 DEF Attach
<1>2. CASE LocateOpen(p)
  BY <1>2 DEF LocateOpen, EndCall, BackFrom, NoCall
<1>3. CASE SendReturn(p)
  BY <1>3 DEF SendReturn
<1>4. CASE ReceiveAttach(p)
  BY <1>4 DEF ReceiveAttach, Fault, Die, GoAnswer, EndCall, BackFrom, NoCall
<1>5. CASE AnswerOpen(p)
  BY <1>5 DEF AnswerOpen, EndCall, BackFrom, NoCall
<1>6. CASE AnswerWrite(p)
  BY <1>6 DEF AnswerWrite, EndCall, BackFrom, NoCall
<1>7. CASE ReplyFinish(p)
  BY <1>7 DEF ReplyFinish, EndCall, BackFrom, NoCall
<1>8. CASE RelayFinish(p)
  BY <1>8 DEF RelayFinish, EndCall, BackFrom, NoCall
<1>9. CASE ReceiveRead(p)
  BY <1>9 DEF ReceiveRead
<1>10. ASSUME NEW s \in Proc, ReplyStart(p, s) PROVE Goal
  BY <1>10 DEF ReplyStart, GoAnswer
<1>11. ASSUME NEW s \in Proc, NEW q \in Proc, RelayWrite(p, s, q) PROVE Goal
  BY <1>11 DEF RelayWrite
<1>12. ASSUME NEW q \in Proc, LocateStat(p, q) PROVE Goal
  BY <1>12 DEF LocateStat
<1>13. ASSUME NEW q \in Proc, SendWrite(p, q) PROVE Goal
  BY <1>13 DEF SendWrite
<1>14. ASSUME NEW q \in Proc, CheckProcess(p, q) PROVE Goal
  BY <1>14 DEF CheckProcess
<1>15. ASSUME NEW q \in Proc, NEW v \in Proxy, Trigger(p, q, v) PROVE Goal
  BY <1>15 DEF Trigger
<1>. QED
  BY <1>1, <1>2, <1>3, <1>4, <1>5, <1>6, <1>7, <1>8, <1>9, <1>10, <1>11,
     <1>12, <1>13, <1>14, <1>15
     DEF WorkOf

\* Quiet is inductive while nobody may leave.
LEMMA QuietStep ==
  ASSUME Types, ~ RelayAny, Stay, Quiet, NEW p \in Proc, StepOf(p) PROVE Quiet'
<1>1. WorkOf(p)
  BY NobodyLeaves
<1>2. /\ pc'[p] \notin {"detach", "closed", "gone", "killed", "new"} /\ call'[p].op # "release"
      /\ pc'[p] = "received" => Known(call'[p].peer)
      /\ Known(senderShm'[p])
  BY <1>1, QuietSelf
<1>3. \A x \in Proc : pc[x] # "new" => pc'[x] # "new"
  BY <1>2, Frame
<1>4. ASSUME NEW x, Known(x) PROVE Known(x)'
  BY <1>3, <1>4 DEF Known
<1>5. ASSUME NEW r \in Proc
      PROVE  /\ pc'[r] \notin {"detach", "closed", "gone", "killed"} /\ call'[r].op # "release"
             /\ pc'[r] = "received" => (call'[r].peer \in Proc => pc'[call'[r].peer] # "new")
             /\ senderShm'[r] \in Proc => pc'[senderShm'[r]] # "new"
  <2>1. CASE r = p
    BY <1>2, <1>3, <2>1 DEF Known
  <2>2. CASE r # p
    <3>1. pc'[r] = pc[r] /\ call'[r] = call[r] /\ senderShm'[r] = senderShm[r]
      BY <1>1, <2>2, Frame, SenderFrame
    <3>. QED  BY <1>3, <3>1 DEF Quiet, Known
  <2>. QED  BY <2>1, <2>2
<1>6. \A r \in Proc : \A i \in DOMAIN fifo'[r] : fifo'[r][i] \in Proc => pc'[fifo'[r][i]] # "new"
  BY <1>1, <1>3, QuietFifo
<1>. QED  BY <1>5, <1>6 DEF Quiet, Known

\* Whom p holds it holds still, or has answered or passed on.
LEMMA HeldKept ==
  ASSUME Types, ~ RelayAny, Quiet, NEW p \in Proc, WorkOf(p), NEW s \in Proc, Waiting(s), s # p, HeldBy(s, p)
  PROVE  HeldBy(s, p)' \/ Answered(s)' \/ Queued(s)'
<1>. USE DEF Types, CallTypes, TableTypes, HeldBy
<1>. DEFINE Goal == HeldBy(s, p)' \/ Answered(s)' \/ Queued(s)'
<1>. Open(s)
  BY DEF Waiting, Open
<1>1. CASE Attach(p)
  BY <1>1 DEF Attach, Running
<1>2. CASE LocateOpen(p)
  BY <1>2 DEF LocateOpen, EndCall, BackFrom, NoCall, Running
<1>3. CASE SendReturn(p)
  BY <1>3 DEF SendReturn, Running
<1>4. CASE ReceiveAttach(p)
  BY <1>4, NoFaultHere DEF ReceiveAttach, GoAnswer, EndCall, BackFrom, NoCall
<1>5. CASE AnswerOpen(p)
  BY <1>5 DEF AnswerOpen, EndCall, BackFrom, NoCall, Running
<1>6. CASE AnswerWrite(p)
  <2>1. CASE call[p].peer = s
    <3>1. yfifo' = [yfifo EXCEPT ![s] = Append(yfifo[s], call[p].val)]
      BY <1>6, <2>1 DEF AnswerWrite
    <3>2. yfifo'[s] = Append(yfifo[s], call[p].val) /\ yfifo[s] \in Seq(Answer)
      BY <3>1 DEF DataTypes
    <3>3. yfifo'[s] # <<>>
      BY <3>2, CallFields, AppendNotEmpty
    <3>. QED  BY <3>3 DEF Answered
  <2>2. CASE call[p].peer # s
    BY <1>6, <2>2 DEF AnswerWrite, EndCall, BackFrom, NoCall
  <2>. QED  BY <2>1, <2>2
<1>7. CASE ReplyFinish(p)
  BY <1>7 DEF ReplyFinish, EndCall, BackFrom, NoCall, Running
<1>8. CASE RelayFinish(p)
  BY <1>8 DEF RelayFinish, EndCall, BackFrom, NoCall, Running
<1>9. CASE ReceiveRead(p)
  BY <1>9 DEF ReceiveRead, Running
<1>10. ASSUME NEW x \in Proc, ReplyStart(p, x) PROVE Goal
  <2>1. CASE x = s
    BY <1>10, <2>1 DEF ReplyStart, GoAnswer
  <2>2. CASE x # s
    BY <1>10, <2>2 DEF ReplyStart, GoAnswer, Running
  <2>. QED  BY <2>1, <2>2
<1>11. ASSUME NEW x \in Proc, NEW q \in Proc, RelayWrite(p, x, q) PROVE Goal
  <2>1. CASE /\ fifo' = [fifo EXCEPT ![q] = Append(fifo[q], senderShm[p])]
             /\ pc' = [pc EXCEPT ![p] = "relayed"] /\ call'[p].peer = x
    <3>1. senderShm[p] = x /\ attached' = attached
      BY <1>11 DEF RelayWrite, MayRelay
    <3>2. CASE x = s
      <4>1. QueuedAt(s, q)'
        BY <2>1, <3>1, <3>2, QueueAppend
      <4>. QED  BY <4>1 DEF Queued
    <3>3. CASE x # s
      <4>1. s \in attached[p]
        BY <1>11 DEF RelayWrite, Running
      <4>. QED  BY <2>1, <3>1, <3>3, <4>1
    <3>. QED  BY <3>2, <3>3
  <2>2. CASE UNCHANGED <<pc, call, attached>>
    BY <2>2
  <2>. QED  BY <1>11, <2>1, <2>2 DEF RelayWrite, Kick
<1>12. ASSUME NEW q \in Proc, LocateStat(p, q) PROVE Goal
  BY <1>12 DEF LocateStat, Running
<1>13. ASSUME NEW q \in Proc, SendWrite(p, q) PROVE Goal
  BY <1>13 DEF SendWrite, Running
<1>14. ASSUME NEW q \in Proc, CheckProcess(p, q) PROVE Goal
  BY <1>14 DEF CheckProcess, Running
<1>15. ASSUME NEW q \in Proc, NEW v \in Proxy, Trigger(p, q, v) PROVE Goal
  BY <1>15 DEF Trigger, Running
<1>. QED
  BY <1>1, <1>2, <1>3, <1>4, <1>5, <1>6, <1>7, <1>8, <1>9, <1>10, <1>11,
     <1>12, <1>13, <1>14, <1>15
     DEF WorkOf

\* Answers and queued messages of a sender that waits stay until it returns.
LEMMA AnsweredKept ==
  ASSUME Types, Quiet, NEW p \in Proc, WorkOf(p), NEW s \in Proc, s # p, Answered(s)
  PROVE  Answered(s)'
<1>. USE DEF Types, DataTypes, Answered
<1>. DEFINE Goal == Answered(s)'
<1>1. CASE Attach(p)
  BY <1>1 DEF Attach
<1>2. CASE LocateOpen(p)
  BY <1>2 DEF LocateOpen, EndCall, BackFrom, NoCall
<1>3. CASE SendReturn(p)
  BY <1>3 DEF SendReturn
<1>4. CASE ReceiveAttach(p)
  BY <1>4, NoFaultHere DEF ReceiveAttach
<1>5. CASE AnswerOpen(p)
  BY <1>5 DEF AnswerOpen, EndCall, BackFrom, NoCall
<1>6. CASE AnswerWrite(p)
  <2>1. yfifo'[s] = yfifo[s] \/ yfifo'[s] = Append(yfifo[s], call[p].val)
    BY <1>6 DEF AnswerWrite
  <2>2. yfifo[s] \in Seq(Answer) /\ Append(yfifo[s], call[p].val) # <<>>
    BY CallFields, AppendNotEmpty
  <2>. QED  BY <2>1, <2>2
<1>7. CASE ReplyFinish(p)
  BY <1>7 DEF ReplyFinish, EndCall, BackFrom, NoCall
<1>8. CASE RelayFinish(p)
  BY <1>8 DEF RelayFinish, EndCall, BackFrom, NoCall
<1>9. CASE ReceiveRead(p)
  BY <1>9 DEF ReceiveRead
<1>10. ASSUME NEW x \in Proc, ReplyStart(p, x) PROVE Goal
  BY <1>10 DEF ReplyStart, GoAnswer
<1>11. ASSUME NEW x \in Proc, NEW q \in Proc, RelayWrite(p, x, q) PROVE Goal
  BY <1>11 DEF RelayWrite
<1>12. ASSUME NEW q \in Proc, LocateStat(p, q) PROVE Goal
  BY <1>12 DEF LocateStat
<1>13. ASSUME NEW q \in Proc, SendWrite(p, q) PROVE Goal
  BY <1>13 DEF SendWrite
<1>14. ASSUME NEW q \in Proc, CheckProcess(p, q) PROVE Goal
  BY <1>14 DEF CheckProcess
<1>15. ASSUME NEW q \in Proc, NEW v \in Proxy, Trigger(p, q, v) PROVE Goal
  BY <1>15 DEF Trigger
<1>. QED
  BY <1>1, <1>2, <1>3, <1>4, <1>5, <1>6, <1>7, <1>8, <1>9, <1>10, <1>11,
     <1>12, <1>13, <1>14, <1>15
     DEF WorkOf

\* A queued message stays queued, or its reader holds it.
LEMMA QueuedKept ==
  ASSUME Types, Quiet, NEW p \in Proc, WorkOf(p), NEW s \in Proc, NEW r \in Proc, QueuedAt(s, r)
  PROVE  QueuedAt(s, r)' \/ HeldBy(s, p)'
<1>. DEFINE Goal == QueuedAt(s, r)' \/ HeldBy(s, p)'
<1>. fifo' = fifo => QueuedAt(s, r)'
  BY DEF QueuedAt
<1>1. CASE Attach(p)
  BY <1>1 DEF Attach
<1>2. CASE LocateOpen(p)
  BY <1>2 DEF LocateOpen, EndCall, BackFrom, NoCall
<1>3. CASE SendReturn(p)
  BY <1>3 DEF SendReturn
<1>4. CASE ReceiveAttach(p)
  BY <1>4, NoFaultHere DEF ReceiveAttach
<1>5. CASE AnswerOpen(p)
  BY <1>5 DEF AnswerOpen, EndCall, BackFrom, NoCall
<1>6. CASE AnswerWrite(p)
  BY <1>6 DEF AnswerWrite, EndCall, BackFrom, NoCall
<1>7. CASE ReplyFinish(p)
  BY <1>7 DEF ReplyFinish, EndCall, BackFrom, NoCall
<1>8. CASE RelayFinish(p)
  BY <1>8 DEF RelayFinish, EndCall, BackFrom, NoCall
<1>9. CASE ReceiveRead(p)
  <2>1. fifo[p] # <<>> /\ fifo' = [fifo EXCEPT ![p] = Tail(fifo[p])]
    BY <1>9 DEF ReceiveRead
  <2>2. QueuedAt(s, r)' \/ Head(fifo[p]) = s
    BY <2>1, QueueTail
  <2>3. ASSUME Head(fifo[p]) = s PROVE HeldBy(s, p)'
    <3>1. s \notin Proxy
      BY ProxyAssumption
    <3>. QED  BY <1>9, <2>3, <3>1 DEF ReceiveRead, HeldBy, Types, CallTypes
  <2>. QED  BY <2>2, <2>3
<1>10. ASSUME NEW x \in Proc, ReplyStart(p, x) PROVE Goal
  BY <1>10 DEF ReplyStart, GoAnswer
<1>11. ASSUME NEW x \in Proc, NEW q \in Proc, RelayWrite(p, x, q) PROVE Goal
  <2>1. fifo' = fifo \/ fifo' = [fifo EXCEPT ![q] = Append(fifo[q], senderShm[p])]
    BY <1>11 DEF RelayWrite, Kick
  <2>2. senderShm[p] \in Proc \cup Proxy
    BY DEF Types, TableTypes
  <2>. QED  BY <2>1, <2>2, QueueAppend
<1>12. ASSUME NEW q \in Proc, LocateStat(p, q) PROVE Goal
  BY <1>12 DEF LocateStat
<1>13. ASSUME NEW q \in Proc, SendWrite(p, q) PROVE Goal
  <2>1. fifo' = fifo \/ fifo' = [fifo EXCEPT ![q] = Append(fifo[q], p)]
    BY <1>13 DEF SendWrite, Kick
  <2>. QED  BY <2>1, QueueAppend
<1>14. ASSUME NEW q \in Proc, CheckProcess(p, q) PROVE Goal
  BY <1>14 DEF CheckProcess
<1>15. ASSUME NEW q \in Proc, NEW v \in Proxy, Trigger(p, q, v) PROVE Goal
  <2>1. fifo' = [fifo EXCEPT ![q] = Append(fifo[q], v)]
    BY <1>15 DEF Trigger, Kick
  <2>. QED  BY <2>1, QueueAppend
<1>. QED
  BY <1>1, <1>2, <1>3, <1>4, <1>5, <1>6, <1>7, <1>8, <1>9, <1>10, <1>11,
     <1>12, <1>13, <1>14, <1>15
     DEF WorkOf

\* Whoever comes to wait has just put its message into a fifo.
LEMMA ComesToWait ==
  ASSUME Types, Quiet, NEW p \in Proc, WorkOf(p), Waiting(p)' PROVE Queued(p)'
<1>. USE DEF Types, CallTypes, Waiting
<1>. DEFINE Goal == Queued(p)'
<1>1. CASE Attach(p)
  BY <1>1 DEF Attach, Running
<1>2. CASE LocateOpen(p)
  BY <1>2 DEF LocateOpen, EndCall, BackFrom, NoCall, Running
<1>3. CASE SendReturn(p)
  BY <1>3 DEF SendReturn, Running
<1>4. CASE ReceiveAttach(p)
  BY <1>4, NoFaultHere DEF ReceiveAttach, GoAnswer, EndCall, BackFrom, Quiet
<1>5. CASE AnswerOpen(p)
  BY <1>5 DEF AnswerOpen, EndCall, BackFrom, NoCall, Running
<1>6. CASE AnswerWrite(p)
  BY <1>6 DEF AnswerWrite, EndCall, BackFrom, NoCall, Running
<1>7. CASE ReplyFinish(p)
  BY <1>7 DEF ReplyFinish, EndCall, BackFrom, NoCall, Running
<1>8. CASE RelayFinish(p)
  BY <1>8 DEF RelayFinish, EndCall, BackFrom, NoCall, Running
<1>9. CASE ReceiveRead(p)
  BY <1>9 DEF ReceiveRead, Running
<1>10. ASSUME NEW s \in Proc, ReplyStart(p, s) PROVE Goal
  BY <1>10 DEF ReplyStart, GoAnswer, Running
<1>11. ASSUME NEW s \in Proc, NEW q \in Proc, RelayWrite(p, s, q) PROVE Goal
  BY <1>11 DEF RelayWrite, Running
<1>12. ASSUME NEW q \in Proc, LocateStat(p, q) PROVE Goal
  BY <1>12 DEF LocateStat, Running
<1>13. ASSUME NEW q \in Proc, SendWrite(p, q) PROVE Goal
  <2>1. fifo' = [fifo EXCEPT ![q] = Append(fifo[q], p)]
    BY <1>13 DEF SendWrite, Kick, Running
  <2>2. QueuedAt(p, q)'
    BY <2>1, QueueAppend
  <2>. QED  BY <2>2 DEF Queued
<1>14. ASSUME NEW q \in Proc, CheckProcess(p, q) PROVE Goal
  BY <1>14 DEF CheckProcess, Running
<1>15. ASSUME NEW q \in Proc, NEW v \in Proxy, Trigger(p, q, v) PROVE Goal
  BY <1>15 DEF Trigger, Running
<1>. QED
  BY <1>1, <1>2, <1>3, <1>4, <1>5, <1>6, <1>7, <1>8, <1>9, <1>10, <1>11,
     <1>12, <1>13, <1>14, <1>15
     DEF WorkOf

\* As long as nobody leaves, Receive, Reply and Relay lose no message, whatever
\* number of servers passes it on.
THEOREM AccountedHolds == ASSUME ~ RelayAny, Stay PROVE Spec => []Accounted
<1>. DEFINE Inv == TypeOK /\ Quiet /\ Accounted
<1>1. Init => Inv
  <2>. SUFFICES ASSUME Init PROVE Inv
    OBVIOUS
  <2>1. TypeOK
    BY TypesInit, LimitsInit, TypeOKIsTypes
  <2>2. \A p \in Proc : pc[p] = "new" /\ call[p].op = "none" /\ senderShm[p] = ProxyOne /\ fifo[p] = <<>>
    BY DEF Init, NoCall
  <2>3. Quiet
    BY <2>2, ProxyAssumption DEF Quiet, Known
  <2>. QED  BY <2>1, <2>2, <2>3 DEF Accounted, Waiting
<1>2. Inv /\ [Next]_vars => Inv'
  <2>1. ASSUME Inv, Next PROVE Inv'
    <3>1. Types /\ Limits /\ Quiet /\ Accounted
      BY <2>1, TypeOKIsTypes
    <3>2. PICK p \in Proc : StepOf(p)
      BY <2>1, NextIsStep
    <3>3. WorkOf(p)
      BY <3>1, <3>2, NobodyLeaves
    <3>4. Types' /\ Limits' /\ Quiet'
      BY <3>1, <3>2, TypesStep, LimitsStep, QuietStep
    <3>5. TypeOK'
      BY <3>4 DEF TypeOK, Types, CallTypes, DataTypes, TableTypes
    <3>6. ASSUME NEW s \in Proc, Waiting(s)' PROVE Answered(s)' \/ Queued(s)' \/ Held(s)'
      <4>1. CASE s = p
        BY <3>1, <3>3, <3>6, <4>1, ComesToWait
      <4>2. CASE s # p
        <5>1. Waiting(s)
          BY <3>1, <3>2, <3>6, <4>2, Frame DEF Waiting
        <5>2. CASE Answered(s)
          BY <3>1, <3>3, <4>2, <5>2, AnsweredKept
        <5>3. CASE Queued(s)
          BY <3>1, <3>3, <5>3, QueuedKept DEF Queued, Held
        <5>4. CASE Held(s)
          <6>1. PICK r \in Proc : HeldBy(s, r)
            BY <5>4 DEF Held
          <6>2. CASE r = p
            BY <3>1, <3>3, <4>2, <5>1, <6>1, <6>2, HeldKept DEF Held
          <6>3. CASE r # p
            BY <3>1, <3>2, <6>1, <6>3, Frame DEF Held, HeldBy
          <6>. QED  BY <6>2, <6>3
        <5>. QED  BY <3>1, <5>1, <5>2, <5>3, <5>4 DEF Accounted
      <4>. QED  BY <4>1, <4>2
    <3>. QED  BY <3>4, <3>5, <3>6 DEF Accounted
  <2>2. ASSUME Inv, UNCHANGED vars PROVE Inv'
    <3>1. TypeOK'
      BY <2>2, Stutter
    <3>2. Quiet' /\ Accounted'
      BY <2>2 DEF vars, Quiet, Known, Accounted, Waiting, Answered, Queued, QueuedAt, Held, HeldBy
    <3>. QED  BY <3>1, <3>2
  <2>. QED  BY <2>1, <2>2
<1>. QED  BY <1>1, <1>2, PTL DEF Spec

-----------------------------------------------------------------------------
(* The invariant the refinement rests on.                                  *)

\* Whom a process has located had attached its name.
LocatedKnown == \A p \in Proc : \A q \in located[p] : pc[q] # "new"

Here == IInv /\ LocatedKnown /\ (Stay => Quiet)

\* A process comes to locate only whom it could open.
LEMMA LocatedStep ==
  ASSUME Types, NEW p \in Proc, StepOf(p), NEW r \in Proc, NEW x \in located'[r]
  PROVE  x \in located[r] \/ Open(x)
<1>. USE DEF Types, CallTypes, TableTypes
<1>. DEFINE Goal == x \in located[r] \/ Open(x)
<1>1. CASE Attach(p)
  BY <1>1 DEF Attach
<1>2. CASE LocateOpen(p)
  BY <1>2 DEF LocateOpen, EndCall, BackFrom, NoCall
<1>3. CASE SendReturn(p)
  BY <1>3 DEF SendReturn
<1>4. CASE ReceiveAttach(p)
  BY <1>4 DEF ReceiveAttach, Fault, Die, GoAnswer, EndCall, BackFrom, NoCall
<1>5. CASE AnswerOpen(p)
  BY <1>5 DEF AnswerOpen, EndCall, BackFrom, NoCall
<1>6. CASE AnswerWrite(p)
  BY <1>6 DEF AnswerWrite, EndCall, BackFrom, NoCall
<1>7. CASE ReplyFinish(p)
  BY <1>7 DEF ReplyFinish, EndCall, BackFrom, NoCall
<1>8. CASE RelayFinish(p)
  BY <1>8 DEF RelayFinish, EndCall, BackFrom, NoCall
<1>9. ASSUME NEW s \in Proc, DetachRelease(p, s) PROVE Goal
  <2>1. located' = located \/ located' = [located EXCEPT ![p] = {}]
    BY <1>9 DEF DetachRelease, Fault, Die
  <2>. QED  BY <2>1
<1>10. CASE DetachClose(p)
  BY <1>10 DEF DetachClose
<1>11. CASE DetachRemove(p)
  BY <1>11 DEF DetachRemove
<1>12. CASE ReceiveRead(p)
  BY <1>12 DEF ReceiveRead
<1>13. ASSUME NEW s \in Proc, ReplyStart(p, s) PROVE Goal
  BY <1>13 DEF ReplyStart, GoAnswer
<1>14. ASSUME NEW s \in Proc, NEW q \in Proc, RelayWrite(p, s, q) PROVE Goal
  BY <1>14 DEF RelayWrite
<1>15. CASE Exit(p)
  BY <1>15 DEF Exit, NoCall
<1>16. CASE Kill(p)
  BY <1>16 DEF Kill, Die, NoCall
<1>17. ASSUME NEW q \in Proc, LocateStat(p, q) PROVE Goal
  BY <1>17 DEF LocateStat
<1>18. ASSUME NEW q \in Proc, SendWrite(p, q) PROVE Goal
  BY <1>18 DEF SendWrite
<1>19. ASSUME NEW q \in Proc, CheckProcess(p, q) PROVE Goal
  BY <1>19 DEF CheckProcess
<1>20. ASSUME NEW q \in Proc, NEW v \in Proxy, Trigger(p, q, v) PROVE Goal
  BY <1>20 DEF Trigger
<1>. QED
  BY <1>1, <1>2, <1>3, <1>4, <1>5, <1>6, <1>7, <1>8, <1>9, <1>10, <1>11,
     <1>12, <1>13, <1>14, <1>15, <1>16, <1>17, <1>18, <1>19, <1>20
     DEF StepOf

\* What the refinement rests on is inductive.
LEMMA HereStep ==
  ASSUME ~ RelayAny, ~ AsyncExit, Here, [Next]_vars PROVE Here'
<1>1. IInv'
  BY IInvStep DEF Here
<1>2. ASSUME Next PROVE LocatedKnown' /\ (Stay => Quiet')
  <2>1. PICK p \in Proc : StepOf(p)
    BY <1>2, NextIsStep
  <2>2. Types
    BY TypeOKIsTypes DEF Here, IInv
  <2>3. LocatedKnown'
    <3>. SUFFICES ASSUME NEW r \in Proc, NEW x \in located'[r] PROVE pc'[x] # "new"
      BY DEF LocatedKnown
    <3>1. x \in Proc
      BY <1>1, TypeOKIsTypes DEF IInv, TypeOK
    <3>. QED  BY <2>1, <2>2, <3>1, LocatedStep, NeverNew DEF Here, LocatedKnown, Open
  <2>4. Stay => Quiet'
    BY <2>1, <2>2, QuietStep DEF Here
  <2>. QED  BY <2>3, <2>4
<1>3. ASSUME UNCHANGED vars PROVE LocatedKnown' /\ (Stay => Quiet')
  BY <1>3 DEF vars, Here, LocatedKnown, Quiet, Known
<1>. QED  BY <1>1, <1>2, <1>3 DEF Here, Stay

\* It holds initially.
LEMMA HereInit == Init => Here
<1>. SUFFICES ASSUME Init PROVE Here
  OBVIOUS
<1>1. /\ \A p \in Proc : pc[p] = "new" /\ call[p].op = "none" /\ senderShm[p] = ProxyOne
      /\ \A p \in Proc : fifo[p] = <<>> /\ located[p] = {}
  BY DEF Init, NoCall
<1>2. Quiet
  BY <1>1, ProxyAssumption DEF Quiet, Known
<1>. QED  BY <1>1, <1>2, IInvInit DEF Here, LocatedKnown

-----------------------------------------------------------------------------
(* What a step does to the request of one sender.                          *)

\* Phase and answer follow from a few facts about the sender.
LEMMA SameView ==
  ASSUME NEW x \in Proc, Leaving(x)' <=> Leaving(x),
         ~ Leaving(x) => /\ Waiting(x)' <=> Waiting(x)
                         /\ yfifo'[x] = yfifo[x] /\ sends'[x] = sends[x]
                         /\ Answered(x) => shm'[x] = shm[x]
                         /\ Held(x)' <=> Held(x)
                         /\ Queued(x)' <=> Queued(x)
  PROVE  PhaseOf(x)' = PhaseOf(x) /\ AnswerOf(x)' = AnswerOf(x)
<1>1. PhaseOf(x)' = PhaseOf(x)
  BY DEF PhaseOf, Answered
<1>2. AnswerOf(x)' = AnswerOf(x)
  BY DEF AnswerOf, Answered
<1>. QED  BY <1>1, <1>2

\* A step with which a process ends, or falls apart further.
EndOf(p) ==
    \/ Exit(p) \/ Kill(p) \/ DetachClose(p) \/ DetachRemove(p)
    \/ ReceiveAttach(p) /\ Fault(p, blocked[p])
    \/ \E s \in Proc : DetachRelease(p, s) /\ Fault(p, RemoveSenderId(p, s))

\* Such a step leaves the segments, and the answers of the others, as they are.
LEMMA EndFacts ==
  ASSUME Types, NEW p \in Proc, EndOf(p)
  PROVE  /\ pc'[p] \in {"detach", "closed", "gone", "killed"}
         /\ shm' = shm /\ sends' = sends
         /\ \A x \in Proc : x # p => yfifo'[x] = yfifo[x]
<1>. USE DEF Types, CallTypes, DataTypes
<1>. DEFINE Goal == /\ pc'[p] \in {"detach", "closed", "gone", "killed"}
                    /\ shm' = shm /\ sends' = sends
                    /\ \A x \in Proc : x # p => yfifo'[x] = yfifo[x]
<1>1. CASE Exit(p)
  BY <1>1 DEF Exit
<1>2. CASE Kill(p)
  BY <1>2 DEF Kill, Die
<1>3. CASE DetachClose(p)
  BY <1>3 DEF DetachClose
<1>4. CASE DetachRemove(p)
  BY <1>4 DEF DetachRemove
<1>5. ASSUME NEW left, Fault(p, left) PROVE Goal
  BY <1>5 DEF Fault, Die
<1>. QED  BY <1>1, <1>2, <1>3, <1>4, <1>5 DEF EndOf

\* No other step makes a process leave.
LEMMA WorkStays ==
  ASSUME Types, NEW p \in Proc, StepOf(p), ~ EndOf(p), Leaving(p)'
  PROVE  Leaving(p)
<1>. USE DEF Types, CallTypes, EndOf, Leaving, Running
<1>1. CASE Attach(p)
  BY <1>1 DEF Attach
<1>2. CASE LocateOpen(p)
  BY <1>2 DEF LocateOpen, EndCall, BackFrom, NoCall
<1>3. CASE SendReturn(p)
  BY <1>3 DEF SendReturn
<1>4. CASE ReceiveAttach(p)
  BY <1>4 DEF ReceiveAttach, Fault, Die, GoAnswer, EndCall, BackFrom, NoCall
<1>5. CASE AnswerOpen(p)
  BY <1>5 DEF AnswerOpen, EndCall, BackFrom, NoCall
<1>6. CASE AnswerWrite(p)
  BY <1>6 DEF AnswerWrite, EndCall, BackFrom, NoCall
<1>7. CASE ReplyFinish(p)
  BY <1>7 DEF ReplyFinish, EndCall, BackFrom, NoCall
<1>8. CASE RelayFinish(p)
  BY <1>8 DEF RelayFinish, EndCall, BackFrom, NoCall
<1>9. ASSUME NEW s \in Proc, DetachRelease(p, s) PROVE Leaving(p)
  BY <1>9 DEF DetachRelease, Fault, Die, GoAnswer, NoCall
<1>10. CASE DetachClose(p)
  BY <1>10 DEF DetachClose
<1>11. CASE DetachRemove(p)
  BY <1>11 DEF DetachRemove
<1>12. CASE ReceiveRead(p)
  BY <1>12 DEF ReceiveRead
<1>13. ASSUME NEW s \in Proc, ReplyStart(p, s) PROVE Leaving(p)
  BY <1>13 DEF ReplyStart, GoAnswer
<1>14. ASSUME NEW s \in Proc, NEW q \in Proc, RelayWrite(p, s, q) PROVE Leaving(p)
  BY <1>14 DEF RelayWrite
<1>15. CASE Exit(p)
  BY <1>15 DEF Exit, NoCall
<1>16. CASE Kill(p)
  BY <1>16 DEF Kill, Die, NoCall
<1>17. ASSUME NEW q \in Proc, LocateStat(p, q) PROVE Leaving(p)
  BY <1>17 DEF LocateStat
<1>18. ASSUME NEW q \in Proc, SendWrite(p, q) PROVE Leaving(p)
  BY <1>18 DEF SendWrite
<1>19. ASSUME NEW q \in Proc, CheckProcess(p, q) PROVE Leaving(p)
  BY <1>19 DEF CheckProcess
<1>20. ASSUME NEW q \in Proc, NEW v \in Proxy, Trigger(p, q, v) PROVE Leaving(p)
  BY <1>20 DEF Trigger
<1>. QED
  BY <1>1, <1>2, <1>3, <1>4, <1>5, <1>6, <1>7, <1>8, <1>9, <1>10, <1>11,
     <1>12, <1>13, <1>14, <1>15, <1>16, <1>17, <1>18, <1>19, <1>20
     DEF StepOf

\* Whom p holds it holds on to, until it answers it or passes it on.
LEMMA HeldLost ==
  ASSUME Types, NEW p \in Proc, StepOf(p), ~ EndOf(p), NEW x \in Proc, Waiting(x),
         HeldBy(x, p), ~ HeldBy(x, p)'
  PROVE  \/ \E q \in Proc : RelayWrite(p, x, q) /\ fifo' # fifo
         \/ AnswerWrite(p) /\ call[p].peer = x
<1>. USE DEF Types, CallTypes, DataTypes, TableTypes, EndOf, HeldBy, Running
<1>. DEFINE Goal == \/ \E q \in Proc : RelayWrite(p, x, q) /\ fifo' # fifo
                    \/ AnswerWrite(p) /\ call[p].peer = x
<1>. Open(x)
  BY DEF Waiting, Open
<1>1. CASE Attach(p)
  BY <1>1 DEF Attach
<1>2. CASE LocateOpen(p)
  BY <1>2 DEF LocateOpen, EndCall, BackFrom, NoCall
<1>3. CASE SendReturn(p)
  BY <1>3 DEF SendReturn
<1>4. CASE ReceiveAttach(p)
  BY <1>4 DEF ReceiveAttach, Fault, Die, GoAnswer, EndCall, BackFrom, NoCall
<1>5. CASE AnswerOpen(p)
  BY <1>5 DEF AnswerOpen, EndCall, BackFrom, NoCall
<1>6. CASE AnswerWrite(p)
  BY <1>6 DEF AnswerWrite, EndCall, BackFrom, NoCall
<1>7. CASE ReplyFinish(p)
  BY <1>7 DEF ReplyFinish, EndCall, BackFrom, NoCall
<1>8. CASE RelayFinish(p)
  BY <1>8 DEF RelayFinish, EndCall, BackFrom, NoCall
<1>9. ASSUME NEW s \in Proc, DetachRelease(p, s) PROVE Goal
  <2>1. PICK t \in Proc : GoAnswer(p, t, "release", "err")
    BY <1>9 DEF DetachRelease
  <2>2. /\ pc[p] = "detach" /\ pc'[p] = "open" /\ call'[p].peer = t
        /\ attached'[p] = attached[p] \ {t}
    BY <1>9, <2>1 DEF DetachRelease, GoAnswer
  <2>. QED  BY <2>2
<1>10. CASE DetachClose(p)
  BY <1>10
<1>11. CASE DetachRemove(p)
  BY <1>11
<1>12. CASE ReceiveRead(p)
  BY <1>12 DEF ReceiveRead
<1>13. ASSUME NEW s \in Proc, ReplyStart(p, s) PROVE Goal
  BY <1>13 DEF ReplyStart, GoAnswer
<1>14. ASSUME NEW s \in Proc, NEW q \in Proc, RelayWrite(p, s, q) PROVE Goal
  <2>1. CASE UNCHANGED <<pc, call, attached>>
    BY <2>1
  <2>2. CASE /\ Len(fifo[q]) < FifoCap /\ fifo' = [fifo EXCEPT ![q] = Append(fifo[q], senderShm[p])]
             /\ pc'[p] = "relayed" /\ call'[p].peer = s
    <3>1. Len(fifo'[q]) = Len(fifo[q]) + 1 /\ Len(fifo[q]) \in Nat
      BY <2>2
    <3>2. fifo' # fifo
      BY <3>1
    <3>3. attached' = attached /\ pc[p] = "run"
      BY <1>14 DEF RelayWrite
    <3>4. s = x
      BY <2>2, <3>3
    <3>. QED  BY <1>14, <3>2, <3>4
  <2>3. \/ fifo' = [fifo EXCEPT ![q] = Append(fifo[q], senderShm[p])] /\ pc' = [pc EXCEPT ![p] = "relayed"]
           /\ call' = [call EXCEPT ![p] = [op |-> "relay", peer |-> s, val |-> "ok"]] /\ Len(fifo[q]) < FifoCap
        \/ UNCHANGED <<pc, call, attached>>
    BY <1>14 DEF RelayWrite, Kick
  <2>. QED  BY <2>1, <2>2, <2>3
<1>15. CASE Exit(p)
  BY <1>15
<1>16. CASE Kill(p)
  BY <1>16
<1>17. ASSUME NEW q \in Proc, LocateStat(p, q) PROVE Goal
  BY <1>17 DEF LocateStat
<1>18. ASSUME NEW q \in Proc, SendWrite(p, q) PROVE Goal
  BY <1>18 DEF SendWrite
<1>19. ASSUME NEW q \in Proc, CheckProcess(p, q) PROVE Goal
  BY <1>19 DEF CheckProcess
<1>20. ASSUME NEW q \in Proc, NEW v \in Proxy, Trigger(p, q, v) PROVE Goal
  BY <1>20 DEF Trigger
<1>. QED
  BY <1>1, <1>2, <1>3, <1>4, <1>5, <1>6, <1>7, <1>8, <1>9, <1>10, <1>11,
     <1>12, <1>13, <1>14, <1>15, <1>16, <1>17, <1>18, <1>19, <1>20
     DEF StepOf

\* A message leaves a fifo when its reader takes it.
LEMMA QueueLost ==
  ASSUME Types, NEW p \in Proc, StepOf(p), ~ EndOf(p), NEW x \in Proc, NEW r \in Proc,
         QueuedAt(x, r), ~ QueuedAt(x, r)'
  PROVE  ReceiveRead(p) /\ Head(fifo[p]) = x
<1>. USE DEF EndOf
<1>. DEFINE Goal == ReceiveRead(p) /\ Head(fifo[p]) = x
<1>. fifo' # fifo
  BY DEF QueuedAt
<1>1. CASE Attach(p)
  BY <1>1 DEF Attach
<1>2. CASE LocateOpen(p)
  BY <1>2 DEF LocateOpen, EndCall, BackFrom, NoCall
<1>3. CASE SendReturn(p)
  BY <1>3 DEF SendReturn
<1>4. CASE ReceiveAttach(p)
  BY <1>4 DEF ReceiveAttach, Fault, Die, GoAnswer, EndCall, BackFrom, NoCall
<1>5. CASE AnswerOpen(p)
  BY <1>5 DEF AnswerOpen, EndCall, BackFrom, NoCall
<1>6. CASE AnswerWrite(p)
  BY <1>6 DEF AnswerWrite, EndCall, BackFrom, NoCall
<1>7. CASE ReplyFinish(p)
  BY <1>7 DEF ReplyFinish, EndCall, BackFrom, NoCall
<1>8. CASE RelayFinish(p)
  BY <1>8 DEF RelayFinish, EndCall, BackFrom, NoCall
<1>9. ASSUME NEW s \in Proc, DetachRelease(p, s) PROVE Goal
  BY <1>9 DEF DetachRelease, Fault, Die, GoAnswer, NoCall
<1>10. CASE DetachClose(p)
  BY <1>10 DEF DetachClose
<1>11. CASE DetachRemove(p)
  BY <1>11 DEF DetachRemove
<1>12. CASE ReceiveRead(p)
  <2>1. fifo[p] # <<>> /\ fifo' = [fifo EXCEPT ![p] = Tail(fifo[p])]
    BY <1>12 DEF ReceiveRead
  <2>. QED  BY <1>12, <2>1, QueueTail
<1>13. ASSUME NEW s \in Proc, ReplyStart(p, s) PROVE Goal
  BY <1>13 DEF ReplyStart, GoAnswer
<1>14. ASSUME NEW s \in Proc, NEW q \in Proc, RelayWrite(p, s, q) PROVE Goal
  <2>1. fifo' = [fifo EXCEPT ![q] = Append(fifo[q], senderShm[p])] /\ senderShm[p] \in Proc \cup Proxy
    BY <1>14 DEF RelayWrite, Kick, Types, TableTypes
  <2>. QED  BY <2>1, QueueAppend
<1>15. CASE Exit(p)
  BY <1>15 DEF Exit, NoCall
<1>16. CASE Kill(p)
  BY <1>16 DEF Kill, Die, NoCall
<1>17. ASSUME NEW q \in Proc, LocateStat(p, q) PROVE Goal
  BY <1>17 DEF LocateStat
<1>18. ASSUME NEW q \in Proc, SendWrite(p, q) PROVE Goal
  <2>1. fifo' = [fifo EXCEPT ![q] = Append(fifo[q], p)]
    BY <1>18 DEF SendWrite, Kick
  <2>. QED  BY <2>1, QueueAppend
<1>19. ASSUME NEW q \in Proc, CheckProcess(p, q) PROVE Goal
  BY <1>19 DEF CheckProcess
<1>20. ASSUME NEW q \in Proc, NEW v \in Proxy, Trigger(p, q, v) PROVE Goal
  <2>1. fifo' = [fifo EXCEPT ![q] = Append(fifo[q], v)]
    BY <1>20 DEF Trigger, Kick
  <2>. QED  BY <2>1, QueueAppend
<1>. QED
  BY <1>1, <1>2, <1>3, <1>4, <1>5, <1>6, <1>7, <1>8, <1>9, <1>10, <1>11,
     <1>12, <1>13, <1>14, <1>15, <1>16, <1>17, <1>18, <1>19, <1>20
     DEF StepOf

\* The steps that move the request of x on.
Moves(p, x) ==
    \/ x = p /\ (SendReturn(p) \/ \E q \in Proc : SendWrite(p, q))
    \/ ReceiveRead(p) /\ Head(fifo[p]) = x
    \/ \E q \in Proc : RelayWrite(p, x, q) /\ fifo' # fifo
    \/ AnswerWrite(p) /\ call[p].peer = x

\* One step moves one request.
LEMMA OneMove ==
  ASSUME Types, NEW p \in Proc, NEW x \in Proc, NEW y \in Proc, Moves(p, x), Moves(p, y)
  PROVE  x = y
<1>1. ASSUME NEW z \in Proc, NEW q \in Proc, RelayWrite(p, z, q), fifo' # fifo
      PROVE  pc[p] = "run" /\ pc'[p] = "relayed" /\ call'[p].peer = z /\ sends' = sends
  BY <1>1 DEF RelayWrite, Running, Types, CallTypes
<1>2. ASSUME NEW z \in Proc, ReceiveRead(p), Head(fifo[p]) = z
      PROVE  pc[p] = "run" /\ pc'[p] = "received" /\ sends' = sends
  BY <1>2, ProxyAssumption DEF ReceiveRead, Running, Types, CallTypes
<1>3. ASSUME NEW q \in Proc, SendWrite(p, q)
      PROVE  pc[p] = "run" /\ sends' # sends
  <2>1. sends'[p] = sends[p] + 1 /\ sends[p] \in Nat /\ pc[p] = "run"
    BY <1>3 DEF SendWrite, Running, Types, TableTypes, Request
  <2>. QED  BY <2>1
<1>4. SendReturn(p) => pc[p] = "sendWait"
  BY DEF SendReturn
<1>5. AnswerWrite(p) => pc[p] = "write"
  BY DEF AnswerWrite
<1>. QED  BY <1>1, <1>2, <1>3, <1>4, <1>5 DEF Moves

\* A step that moves not the request of x leaves its phase and answer alone.
LEMMA OthersSame ==
  ASSUME Types, Structure, OneToken, ~ RelayAny, ~ AsyncExit,
         NEW p \in Proc, StepOf(p), ~ EndOf(p), NEW x \in Proc, Leaving(x) \/ ~ Moves(p, x)
  PROVE  PhaseOf(x)' = PhaseOf(x) /\ AnswerOf(x)' = AnswerOf(x)
<1>1. Leaving(x)' <=> Leaving(x)
  BY LeavingStays, WorkStays, Frame DEF Leaving
<1>2. CASE Leaving(x)
  BY <1>1, <1>2, SameView
<1>3. CASE ~ Leaving(x)
  <2>1. TokenOf(x) /\ ~ Moves(p, x) /\ ~ Leaving(x)'
    BY <1>1, <1>3 DEF OneToken
  <2>2. Waiting(x)' <=> Waiting(x)
    BY <2>1, WaitStep DEF Moves
  <2>3. yfifo'[x] = yfifo[x]
    BY <2>1, AnswerStep DEF Moves
  <2>4. sends'[x] = sends[x] /\ (Answered(x) => shm'[x] = shm[x])
    <3>1. CASE shm'[x] = shm[x] /\ sends'[x] = sends[x]
      BY <3>1
    <3>2. CASE ReplyStart(p, x)
      <4>1. HeldBy(x, p) /\ sends' = sends
        BY <3>2 DEF ReplyStart, HeldBy, Running
      <4>. QED  BY <2>1, <4>1 DEF TokenOf
    <3>. QED  BY <2>1, <3>1, <3>2, ShmStep DEF Moves
  <2>5. ASSUME NEW r \in Proc PROVE HeldBy(x, r)' <=> HeldBy(x, r)
    <3>1. HeldBy(x, r)' => HeldBy(x, r)
      BY <2>1, HeldStep DEF Moves
    <3>2. HeldBy(x, p) => HeldBy(x, p)'
      BY <2>1, HeldLost DEF TokenOf, Moves
    <3>3. r # p => (HeldBy(x, r) => HeldBy(x, r)')
      BY Frame DEF HeldBy
    <3>. QED  BY <3>1, <3>2, <3>3
  <2>6. ASSUME NEW r \in Proc PROVE QueuedAt(x, r)' <=> QueuedAt(x, r)
    <3>1. QueuedAt(x, r) => QueuedAt(x, r)'
      BY <2>1, QueueLost DEF Moves
    <3>2. fifo' = fifo => (QueuedAt(x, r)' => QueuedAt(x, r))
      BY DEF QueuedAt
    <3>3. QueuedAt(x, r)' => QueuedAt(x, r)
      BY <2>1, <3>2, QueuedStep DEF Moves
    <3>. QED  BY <3>1, <3>3
  <2>7. (Held(x)' <=> Held(x)) /\ (Queued(x)' <=> Queued(x))
    BY <2>5, <2>6 DEF Held, Queued
  <2>. QED  BY <1>1, <2>2, <2>3, <2>4, <2>7, SameView
<1>. QED  BY <1>2, <1>3

-----------------------------------------------------------------------------
(* Each step that moves a request is a step of the promise.                *)

\* Where the request of a sender that stays is: nowhere but there.
LEMMA PhaseIs ==
  ASSUME NEW x \in Proc, ~ Leaving(x), TokenOf(x)
  PROVE  /\ ~ Waiting(x) => PhaseOf(x) = "idle" /\ AnswerOf(x) = 0
         /\ Answered(x) => PhaseOf(x) = "answered"
         /\ Held(x) => PhaseOf(x) = "held" /\ AnswerOf(x) = 0
         /\ Queued(x) => PhaseOf(x) = "queued" /\ AnswerOf(x) = 0
<1>1. Held(x) => Waiting(x) /\ ~ Answered(x)
  BY DEF Held, TokenOf
<1>2. Queued(x) => Waiting(x) /\ ~ Answered(x) /\ ~ Held(x)
  BY DEF Queued, Held, TokenOf
<1>3. Answered(x) => Waiting(x)
  BY DEF TokenOf
<1>. QED  BY <1>1, <1>2, <1>3 DEF PhaseOf, AnswerOf

\* A Send that reaches its receiver queues the request.
LEMMA AskPhase ==
  ASSUME Types, Structure, OneToken, ~ RelayAny, ~ AsyncExit,
         NEW p \in Proc, NEW q \in Proc, SendWrite(p, q), StepOf(p), ~ EndOf(p), ~ Leaving(p)
  PROVE  /\ PhaseOf(p) = "idle" /\ AnswerOf(p) = 0 /\ AnswerOf(p)' = 0
         /\ PhaseOf(p)' = "queued" \/ (PhaseOf(p)' = "idle" /\ ~ Open(q))
<1>1. TokenOf(p) /\ ~ Leaving(p)' /\ TokenOf(p)'
  BY WorkStays, TokenStep DEF OneToken
<1>2. PhaseOf(p) = "idle" /\ AnswerOf(p) = 0
  BY <1>1, SendToken, PhaseIs
<1>3. CASE ~ Open(q)
  <2>1. ~ Waiting(p)'
    BY <1>3 DEF SendWrite, Waiting, Running
  <2>. QED  BY <1>1, <1>2, <1>3, <2>1, PhaseIs DEF PhaseOf, AnswerOf
<1>4. CASE Open(q)
  <2>1. fifo' = [fifo EXCEPT ![q] = Append(fifo[q], p)]
    BY <1>4 DEF SendWrite, Kick
  <2>2. QueuedAt(p, q)'
    BY <2>1, QueueAppend
  <2>3. Queued(p)'
    BY <2>2 DEF Queued
  <2>4. Waiting(p)' /\ ~ Answered(p)' /\ \A r \in Proc : ~ HeldBy(p, r)'
    BY <1>1, <2>2 DEF TokenOf
  <2>. QED  BY <1>2, <2>3, <2>4, <1>1 DEF PhaseOf, AnswerOf, Held
<1>. QED  BY <1>3, <1>4

\* A Send that returns ends the request.
LEMMA ReturnPhase ==
  ASSUME Types, Structure, OneToken, ~ RelayAny, ~ AsyncExit,
         NEW p \in Proc, SendReturn(p), StepOf(p), ~ EndOf(p), ~ Leaving(p)
  PROVE  PhaseOf(p) = "answered" /\ PhaseOf(p)' = "idle" /\ AnswerOf(p)' = 0 /\ sends' = sends
<1>1. TokenOf(p) /\ ~ Leaving(p)'
  BY WorkStays DEF OneToken
<1>2. Answered(p) /\ ~ Waiting(p)' /\ sends' = sends
  BY DEF SendReturn, Answered, Waiting, Types, CallTypes
<1>. QED  BY <1>1, <1>2, PhaseIs DEF PhaseOf, AnswerOf

\* A Receive of a message takes the request.
LEMMA TakePhase ==
  ASSUME Types, Structure, OneToken, ~ RelayAny, ~ AsyncExit, NEW p \in Proc, NEW x \in Proc,
         ReceiveRead(p), Head(fifo[p]) = x, StepOf(p), ~ EndOf(p), ~ Leaving(x)
  PROVE  /\ PhaseOf(x) = "queued" /\ PhaseOf(x)' = "held"
         /\ AnswerOf(x) = 0 /\ AnswerOf(x)' = 0 /\ sends' = sends
<1>1. TokenOf(x) /\ ~ Leaving(x)'
  BY LeavingStays, WorkStays, Frame DEF OneToken, Leaving
<1>2. QueuedAt(x, p) /\ sends' = sends
  BY ReceiveToken DEF ReceiveRead
<1>3. HeldBy(x, p)'
  <2>1. x \notin Proxy
    BY ProxyAssumption
  <2>. QED  BY <2>1 DEF ReceiveRead, HeldBy, Types, CallTypes
<1>4. TokenOf(x)'
  BY <1>1, TokenStep
<1>5. Queued(x) /\ Held(x)'
  BY <1>2, <1>3 DEF Queued, Held
<1>6. Waiting(x)' /\ ~ Answered(x)'
  BY <1>3, <1>4 DEF TokenOf
<1>. QED  BY <1>1, <1>2, <1>5, <1>6, PhaseIs DEF PhaseOf, AnswerOf

\* A Relay that reaches its receiver queues the request once more.
LEMMA PassOnPhase ==
  ASSUME Types, Structure, OneToken, ~ RelayAny, ~ AsyncExit, NEW p \in Proc, NEW x \in Proc, NEW q \in Proc,
         RelayWrite(p, x, q), fifo' # fifo, StepOf(p), ~ EndOf(p), ~ Leaving(x)
  PROVE  /\ PhaseOf(x) = "held" /\ PhaseOf(x)' = "queued"
         /\ AnswerOf(x) = 0 /\ AnswerOf(x)' = 0 /\ sends' = sends
<1>1. TokenOf(x) /\ ~ Leaving(x)'
  BY LeavingStays, WorkStays, Frame DEF OneToken, Leaving
<1>2. HeldBy(x, p) /\ sends' = sends
  BY RelayToken DEF RelayWrite
<1>3. senderShm[p] = x /\ fifo' = [fifo EXCEPT ![q] = Append(fifo[q], senderShm[p])]
  BY DEF RelayWrite, MayRelay, Kick
<1>4. QueuedAt(x, q)'
  BY <1>3, QueueAppend
<1>5. TokenOf(x)'
  BY <1>1, TokenStep
<1>6. Waiting(x)' /\ ~ Answered(x)' /\ ~ Held(x)' /\ Queued(x)' /\ Held(x)
  BY <1>2, <1>4, <1>5 DEF TokenOf, Held, Queued
<1>. QED  BY <1>1, <1>2, <1>6, PhaseIs DEF PhaseOf, AnswerOf

\* The write to its reply fifo answers the request, with an error or with the
\* reply that was computed from this very request.
LEMMA AnswerPhase ==
  ASSUME Types, Structure, OneToken, Content, ~ RelayAny, ~ AsyncExit, NEW p \in Proc, NEW x \in Proc,
         AnswerWrite(p), call[p].peer = x, StepOf(p), ~ EndOf(p), ~ Leaving(x)
  PROVE  /\ PhaseOf(x) = "held" /\ PhaseOf(x)' = "answered"
         /\ AnswerOf(x)' \in {sends[x], 0} /\ sends' = sends
<1>1. TokenOf(x) /\ ~ Leaving(x)' /\ ContentAt(x, p)
  BY LeavingStays, WorkStays, Frame DEF OneToken, Leaving, Content
<1>2. HeldBy(x, p) /\ Waiting(x)' = Waiting(x) /\ pc[p] = "write" /\ sends' = sends /\ shm' = shm
  BY AnswerToken DEF AnswerWrite
<1>3. Waiting(x) /\ ~ Answered(x) /\ Held(x)
  BY <1>1, <1>2 DEF TokenOf, Held
<1>4. Open(x)
  BY <1>3 DEF Waiting, Open
<1>5. yfifo'[x] = Append(yfifo[x], call[p].val) /\ yfifo[x] = <<>>
  BY <1>3, <1>4 DEF AnswerWrite, Answered, Types, DataTypes
<1>6. call[p].val \in Answer
  BY CallFields
<1>7. yfifo'[x] # <<>> /\ Head(yfifo'[x]) = call[p].val
  BY <1>5, <1>6, AppendNotEmpty
<1>8. call[p].val = "ok" => shm[x] = [tag |-> "rep", n |-> sends[x]]
  BY <1>1, <1>2 DEF ContentAt
<1>9. PhaseOf(x)' = "answered"
  BY <1>1, <1>2, <1>3, <1>7 DEF PhaseOf, Answered
<1>10. AnswerOf(x)' \in {sends[x], 0}
  BY <1>2, <1>7, <1>8 DEF AnswerOf
<1>. QED  BY <1>1, <1>2, <1>3, <1>9, <1>10, PhaseIs

\* A step with which a process leaves, or falls apart further, may lose the
\* requests it holds or has not read, and touches no other.
LEMMA LeavePhase ==
  ASSUME Types, Structure, OneToken, ~ RelayAny, ~ AsyncExit,
         NEW p \in Proc, StepOf(p), EndOf(p), NEW x \in Proc, x # p
  PROVE  /\ AnswerOf(x)' = AnswerOf(x)
         /\ \/ PhaseOf(x)' = PhaseOf(x)
            \/ PhaseOf(x) \in {"queued", "held"} /\ PhaseOf(x)' = "lost"
<1>1. /\ Leaving(x)' <=> Leaving(x)
      /\ Waiting(x)' <=> Waiting(x)
  BY Frame DEF Leaving, Waiting
<1>2. yfifo'[x] = yfifo[x] /\ shm' = shm /\ sends' = sends
  BY EndFacts
<1>3. CASE Leaving(x)
  BY <1>1, <1>2, <1>3, SameView
<1>4. CASE ~ Leaving(x)
  <2>1. TokenOf(x)
    BY <1>4 DEF OneToken
  <2>2. /\ ~ ReceiveRead(p)
        /\ \A r \in Proc : ~ RelayWrite(p, x, r)
    BY EndFacts DEF Types, CallTypes, ReceiveRead, RelayWrite, Running
  <2>3. Held(x)' => Held(x)
    BY <2>2, HeldStep DEF Held
  <2>4. Queued(x)' => Queued(x)
    BY <2>2, QueuedStep DEF Queued
  <2>5. Queued(x) => ~ Held(x)
    BY <2>1 DEF TokenOf, Queued, Held
  <2>6. AnswerOf(x)' = AnswerOf(x)
    BY <1>1, <1>2 DEF AnswerOf, Answered
  <2>7. \/ PhaseOf(x)' = PhaseOf(x)
        \/ PhaseOf(x) \in {"queued", "held"} /\ PhaseOf(x)' = "lost"
    BY <1>1, <1>2, <1>4, <2>3, <2>4, <2>5 DEF PhaseOf, Answered
  <2>. QED  BY <2>6, <2>7
<1>. QED  BY <1>3, <1>4

\* Nobody leaves when nobody may.
LEMMA LeavesOnlyIfMay ==
  ASSUME Types, Stay => Quiet, NEW p \in Proc, EndOf(p) PROVE ~ Stay
<1>. SUFFICES ASSUME Stay PROVE FALSE
  OBVIOUS
<1>1. Quiet
  OBVIOUS
<1>2. ~ (ReceiveAttach(p) /\ Fault(p, blocked[p]))
  BY <1>1, NoFaultHere, EndFacts DEF EndOf, ReceiveAttach, GoAnswer, EndCall, BackFrom, Quiet, Types, CallTypes
<1>. QED  BY <1>1, <1>2 DEF EndOf, Stay, Exit, Kill, Quiet, DetachClose, DetachRemove, DetachRelease

-----------------------------------------------------------------------------
(* The refinement.                                                         *)

\* A step in which the request of x alone is moved, as the variables of the
\* promise see it.
OnlyMoves(x, to, n) ==
    /\ [s \in Proc |-> PhaseOf(s)]' = [[s \in Proc |-> PhaseOf(s)] EXCEPT ![x] = to]
    /\ [s \in Proc |-> AnswerOf(s)]' = [[s \in Proc |-> AnswerOf(s)] EXCEPT ![x] = n]

\* When the step moves x, it moves nothing else.
LEMMA OnlyOne ==
  ASSUME Types, Structure, OneToken, ~ RelayAny, ~ AsyncExit,
         NEW p \in Proc, StepOf(p), ~ EndOf(p), NEW x \in Proc, Moves(p, x)
  PROVE  OnlyMoves(x, PhaseOf(x)', AnswerOf(x)')
<1>1. ASSUME NEW y \in Proc, y # x PROVE PhaseOf(y)' = PhaseOf(y) /\ AnswerOf(y)' = AnswerOf(y)
  BY <1>1, OneMove, OthersSame
<1>. QED  BY <1>1 DEF OnlyMoves

\* Every step of the library is a step of the promise, or none.
LEMMA PromiseStep ==
  ASSUME ~ RelayAny, ~ AsyncExit, Here, Next
  PROVE  [Promise!Next]_(Promise!vars)
<1>1. /\ Types /\ Structure /\ OneToken /\ Content
      /\ Stay => Quiet
  BY TypeOKIsTypes DEF Here, IInv
<1>2. PICK p \in Proc : StepOf(p)
  BY NextIsStep
<1>3. CASE EndOf(p)
  <2>. DEFINE lost == {x \in Proc \ {p} : PhaseOf(x)' # PhaseOf(x)}
  <2>1. ~ (Killable = {} /\ Exitable = {})
    BY <1>1, <1>3, LeavesOnlyIfMay DEF Stay
  <2>2. ASSUME NEW x \in Proc, x # p
        PROVE  /\ AnswerOf(x)' = AnswerOf(x)
               /\ x \notin lost => PhaseOf(x)' = PhaseOf(x)
               /\ x \in lost => PhaseOf(x) \in {"queued", "held"} /\ PhaseOf(x)' = "lost"
    BY <1>1, <1>2, <1>3, <2>2, LeavePhase
  <2>3. PhaseOf(p)' = "out" /\ AnswerOf(p)' = 0
    BY <1>1, <1>3, EndFacts DEF PhaseOf, AnswerOf, Leaving, Answered, Waiting
  <2>4. sends' = sends
    BY <1>1, <1>3, EndFacts
  <2>5. Promise!Leave(p, lost)
    <3>1. \A s \in lost : [x \in Proc |-> PhaseOf(x)][s] \in {"queued", "held"}
      BY <2>2
    <3>2. [x \in Proc |-> PhaseOf(x)]' =
            [s \in Proc |-> IF s = p THEN "out" ELSE IF s \in lost THEN "lost"
                            ELSE [x \in Proc |-> PhaseOf(x)][s]]
      BY <2>2, <2>3
    <3>3. [x \in Proc |-> AnswerOf(x)]' = [[x \in Proc |-> AnswerOf(x)] EXCEPT ![p] = 0]
      BY <2>2, <2>3
    <3>. QED  BY <2>1, <2>4, <3>1, <3>2, <3>3 DEF Promise!Leave
  <2>6. lost \in SUBSET (Proc \ {p})
    OBVIOUS
  <2>. QED  BY <2>5, <2>6 DEF Promise!Next
<1>4. CASE ~ EndOf(p) /\ \E x \in Proc : Moves(p, x) /\ ~ Leaving(x)
  <2>1. PICK x \in Proc : Moves(p, x) /\ ~ Leaving(x)
    BY <1>4
  <2>2. OnlyMoves(x, PhaseOf(x)', AnswerOf(x)')
    BY <1>1, <1>2, <1>4, <2>1, OnlyOne
  <2>3. ASSUME NEW q \in Proc, x = p, SendWrite(p, q) PROVE Promise!Ask(x)
    <3>1. /\ PhaseOf(p) = "idle" /\ AnswerOf(p) = 0 /\ AnswerOf(p)' = 0
          /\ PhaseOf(p)' = "queued" \/ (PhaseOf(p)' = "idle" /\ ~ Open(q))
      BY <1>1, <1>2, <1>4, <2>1, <2>3, AskPhase
    <3>2. sends[p] < MaxSends[p] /\ sends' = [sends EXCEPT ![p] = @ + 1] /\ q \in located[p]
      BY <2>3 DEF SendWrite
    <3>3. ~ Open(q) => ~ (Killable = {} /\ Exitable = {})
      BY <1>1, <3>2 DEF Open, Here, LocatedKnown, Stay, Quiet
    <3>4. [s \in Proc |-> AnswerOf(s)]' = [s \in Proc |-> AnswerOf(s)]
      BY <2>2, <2>3, <3>1 DEF OnlyMoves
    <3>5. \/ [s \in Proc |-> PhaseOf(s)]' = [[s \in Proc |-> PhaseOf(s)] EXCEPT ![x] = "queued"]
          \/ ~ Open(q) /\ [s \in Proc |-> PhaseOf(s)]' = [s \in Proc |-> PhaseOf(s)]
      <4>1. PhaseOf(x)' = "queued" \/ (PhaseOf(x)' = PhaseOf(x) /\ ~ Open(q))
        BY <2>3, <3>1
      <4>. QED  BY <2>2, <4>1 DEF OnlyMoves
    <3>. QED  BY <2>3, <3>1, <3>2, <3>3, <3>4, <3>5 DEF Promise!Ask
  <2>4. ASSUME x = p, SendReturn(p) PROVE Promise!Return(x)
    BY <1>1, <1>2, <1>4, <2>1, <2>2, <2>4, ReturnPhase DEF OnlyMoves, Promise!Return
  <2>5. ASSUME ReceiveRead(p), Head(fifo[p]) = x PROVE Promise!Take(x)
    <3>1. /\ PhaseOf(x) = "queued" /\ PhaseOf(x)' = "held"
          /\ AnswerOf(x) = 0 /\ AnswerOf(x)' = 0 /\ sends' = sends
      BY <1>1, <1>2, <1>4, <2>1, <2>5, TakePhase
    <3>. QED  BY <2>2, <3>1 DEF OnlyMoves, Promise!Take
  <2>6. ASSUME NEW q \in Proc, RelayWrite(p, x, q), fifo' # fifo PROVE Promise!PassOn(x)
    <3>1. /\ PhaseOf(x) = "held" /\ PhaseOf(x)' = "queued"
          /\ AnswerOf(x) = 0 /\ AnswerOf(x)' = 0 /\ sends' = sends
      BY <1>1, <1>2, <1>4, <2>1, <2>6, PassOnPhase
    <3>. QED  BY <2>2, <3>1 DEF OnlyMoves, Promise!PassOn
  <2>7. ASSUME AnswerWrite(p), call[p].peer = x PROVE Promise!Answer(x)
    <3>1. /\ PhaseOf(x) = "held" /\ PhaseOf(x)' = "answered"
          /\ AnswerOf(x)' \in {sends[x], 0} /\ sends' = sends
      BY <1>1, <1>2, <1>4, <2>1, <2>7, AnswerPhase
    <3>. QED  BY <2>2, <3>1 DEF OnlyMoves, Promise!Answer
  <2>. QED  BY <2>1, <2>3, <2>4, <2>5, <2>6, <2>7 DEF Moves, Promise!Next
<1>5. CASE ~ EndOf(p) /\ \A x \in Proc : Leaving(x) \/ ~ Moves(p, x)
  <2>1. \A x \in Proc : PhaseOf(x)' = PhaseOf(x) /\ AnswerOf(x)' = AnswerOf(x)
    BY <1>1, <1>2, <1>5, OthersSame
  <2>2. \A q \in Proc : ~ SendWrite(p, q)
    BY <1>1, <1>5 DEF Moves, SendWrite, Running, Leaving, Structure
  <2>3. ASSUME NEW x \in Proc PROVE sends'[x] = sends[x]
    BY <1>1, <1>2, <2>2, ShmStep DEF ReplyStart
  <2>4. sends' = sends
    BY <1>1, <1>2, <2>3, TypesStep DEF Types, TableTypes
  <2>. QED  BY <2>1, <2>4 DEF Promise!vars
<1>. QED  BY <1>3, <1>4, <1>5

\* The promise holds of any number of processes that send, serve and relay whom
\* they received last, leave between two calls, and are killed at any point.
THEOREM PromiseKept == ASSUME ~ RelayAny, ~ AsyncExit PROVE Spec => KeepsPromise
<1>1. Init => Here
  BY HereInit
<1>2. Here /\ [Next]_vars => Here'
  BY HereStep
<1>3. Init => Promise!Init
  <2>. SUFFICES ASSUME Init PROVE Promise!Init
    OBVIOUS
  <2>1. \A x \in Proc : PhaseOf(x) = "idle" /\ AnswerOf(x) = 0
    BY DEF Init, NoCall, PhaseOf, AnswerOf, Leaving, Waiting, Answered
  <2>. QED  BY <2>1 DEF Init, Promise!Init
<1>4. Here /\ [Next]_vars => [Promise!Next]_(Promise!vars)
  <2>1. ASSUME UNCHANGED vars PROVE UNCHANGED Promise!vars
    BY <2>1 DEF vars, Promise!vars, PhaseOf, AnswerOf, Leaving, Waiting, Answered, Held, HeldBy, Queued, QueuedAt
  <2>. QED  BY <2>1, PromiseStep
<1>. QED  BY <1>1, <1>2, <1>3, <1>4, PTL DEF Spec, KeepsPromise, Promise!Spec
=============================================================================
