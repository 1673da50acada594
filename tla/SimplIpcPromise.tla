--------------------------- MODULE SimplIpcPromise ---------------------------
(***************************************************************************)
(* The promise of SendReceiveReply, kept by the fifos and segments of      *)
(* SimplIpc: where the request of a process is follows from where its      *)
(* message, its sender's segment and its answer are.                       *)
(***************************************************************************)
EXTENDS SimplIpc

PhaseOf(s) ==
    IF Leaving(s) THEN "out"
    ELSE IF ~ Waiting(s) THEN "idle"
    ELSE IF Answered(s) THEN "answered"
    ELSE IF Held(s) THEN "held"
    ELSE IF Queued(s) THEN "queued"
    ELSE "lost"

\* The request an answer was made for; a segment that does not hold a reply
\* is no answer to any request.
AnswerOf(s) ==
    IF ~ Leaving(s) /\ Waiting(s) /\ Answered(s) /\ Head(yfifo[s]) = "ok"
    THEN IF shm[s].tag = "rep" THEN shm[s].n ELSE sends[s] + 1
    ELSE 0

Promise == INSTANCE SendReceiveReply WITH
    phase <- [s \in Proc |-> PhaseOf(s)],
    asked <- sends,
    answer <- [s \in Proc |-> AnswerOf(s)],
    Reliable <- Killable = {} /\ Exitable = {}

\* The calls of the library keep the promise made to the caller of Send.
KeepsPromise == Promise!Spec
=============================================================================
