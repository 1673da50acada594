-------------------------- MODULE MCProtocolRouter --------------------------
(* Small instances of ProtocolRouter: two parents of different protocols,  *)
(* a client of the first protocol and one of the default.                  *)
EXTENDS ProtocolRouter

CONSTANTS tcp, rs232, pTcp, pSer, c1, c2

Protocols == [p \in Parent |-> IF p = pTcp THEN tcp ELSE rs232]
Requests == [c \in Client |-> IF c = c1 THEN rs232 ELSE Default]
Once == [c \in Client |-> 1]
=============================================================================
