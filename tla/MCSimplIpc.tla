----------------------------- MODULE MCSimplIpc -----------------------------
(* Small instances of SimplIpc: two clients, a front server that may relay *)
(* to a back server.                                                       *)
EXTENDS SimplIpcPromise, TLC

CONSTANTS c1, c2, front, back, proxy1

Server == Proc \cap {front, back}
Client == Proc \ Server

\* Clients know the front server only, the front server the back one.
ClientServer ==
    [p \in Proc |-> IF p \in Client THEN {front} \cap Proc
                    ELSE IF p = front THEN {back} \cap Proc ELSE {}]

Clients == Permutations(Client)

\* How often each process sends or triggers.
Never == [p \in Proc |-> 0]
\* The front server also sends to the back server while it holds clients.
FrontToo == [p \in Proc |-> IF p = back THEN 0 ELSE 1]
ClientsOnce == [p \in Proc |-> IF p \in Client THEN 1 ELSE 0]
ClientsTwice == [p \in Proc |-> IF p \in Client THEN 2 ELSE 0]
OneClient == [p \in Proc |-> IF p = c1 THEN 1 ELSE 0]
=============================================================================
