------------------------------ MODULE MCRs232 ------------------------------
(***************************************************************************)
(* Rs232 on small hosts.                                                   *)
(***************************************************************************)
EXTENDS Rs232

CONSTANTS c1, c2

\* One client and keep-alives: the client is killed and the receiver leaves, or the
\* client leaves and a frame is lost.
Killed == [alive |-> TRUE, users |-> {c1}, leaves |-> {"receiver"},
           kills |-> {c1}, limit |-> 1, asks |-> 1, loses |-> 0]
Left == [Killed EXCEPT !.leaves = {c1}, !.kills = {}, !.limit = 0, !.loses = 1]

\* One client, which asks twice, or two that share the line, without keep-alives.
Lone == [alive |-> FALSE, users |-> {c1}, leaves |-> {c1, "receiver"},
         kills |-> {c1}, limit |-> 0, asks |-> 2, loses |-> 1]
Pair == [Lone EXCEPT !.users = {c1, c2}, !.leaves = {c1}, !.kills = {},
                     !.asks = 1, !.loses = 0]

\* Two that share the line, with keep-alives: one is killed.
Shared == [Pair EXCEPT !.alive = TRUE, !.leaves = {}, !.kills = {c1}, !.asks = 0]

\* One client and keep-alives, nobody leaves.
Steady == [Killed EXCEPT !.leaves = {}, !.kills = {}]

Every == {Killed, Left, Lone, Pair, Shared}
Quiet == {Steady}
============================================================================
