-------------------------- MODULE SendReceiveReply --------------------------
(***************************************************************************)
(* What SIMPL promises a process that calls Send: its request is taken by  *)
(* one receiver at a time, is answered once, and the answer belongs to the *)
(* request.  No fifos, segments, tables or signals: a sender and the       *)
(* journey of its current request.                                         *)
(***************************************************************************)
EXTENDS Naturals

CONSTANTS
    Proc,      \* processes
    MaxSends,  \* bound: requests of each process
    Reliable   \* no process ever leaves

VARIABLES
    phase,     \* where the current request of a process is
    asked,     \* number of the current request
    answer     \* the request the answer was made for, 0 for an error

vars == <<phase, asked, answer>>

Phase == {"idle", "queued", "held", "answered", "lost", "out"}

TypeOK ==
    /\ phase \in [Proc -> Phase]
    /\ asked \in [Proc -> Nat]
    /\ answer \in [Proc -> Nat]

Init ==
    /\ phase = [s \in Proc |-> "idle"]
    /\ asked = [s \in Proc |-> 0]
    /\ answer = [s \in Proc |-> 0]

\* A request is put to a receiver, or the receiver turns out to be gone.
Ask(s) ==
    /\ phase[s] = "idle" /\ asked[s] < MaxSends[s]
    /\ asked' = [asked EXCEPT ![s] = @ + 1]
    /\ \/ phase' = [phase EXCEPT ![s] = "queued"]
       \/ ~ Reliable /\ UNCHANGED phase
    /\ UNCHANGED answer

Take(s) ==
    /\ phase[s] = "queued"
    /\ phase' = [phase EXCEPT ![s] = "held"]
    /\ UNCHANGED <<asked, answer>>

PassOn(s) ==
    /\ phase[s] = "held"
    /\ phase' = [phase EXCEPT ![s] = "queued"]
    /\ UNCHANGED <<asked, answer>>

Answer(s) ==
    /\ phase[s] = "held"
    /\ phase' = [phase EXCEPT ![s] = "answered"]
    /\ \E a \in {asked[s], 0} : answer' = [answer EXCEPT ![s] = a]
    /\ UNCHANGED asked

Return(s) ==
    /\ phase[s] = "answered"
    /\ phase' = [phase EXCEPT ![s] = "idle"]
    /\ answer' = [answer EXCEPT ![s] = 0]
    /\ UNCHANGED asked

\* p leaves, or falls apart further, and requests that were with it are lost.
Leave(p, lost) ==
    /\ ~ Reliable
    /\ \A s \in lost : phase[s] \in {"queued", "held"}
    /\ phase' = [s \in Proc |-> IF s = p THEN "out"
                                ELSE IF s \in lost THEN "lost" ELSE phase[s]]
    /\ answer' = [answer EXCEPT ![p] = 0]
    /\ UNCHANGED asked

Next ==
    \E s \in Proc :
        \/ Ask(s) \/ Take(s) \/ PassOn(s) \/ Answer(s) \/ Return(s)
        \/ \E lost \in SUBSET (Proc \ {s}) : Leave(s, lost)

Spec == Init /\ [][Next]_vars
=============================================================================
