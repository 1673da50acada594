--------------------------- MODULE ProtocolRouter ---------------------------
(***************************************************************************)
(* surrogates/protocol_router and the programs around it on one host.  A   *)
(* protocol parent (surrogate_R of tcp and rs232, surrogate_cparent of     *)
(* tcp_x) forks a surrogate child, announces it to the router and stays    *)
(* send blocked until the router has given the child away.  A client in a  *)
(* remote name_locate asks the router for a surrogate and then locates it. *)
(*                                                                         *)
(* Send, Receive and Reply are taken at the level of SendReceiveReply: a   *)
(* message waits in the box of the router and its sender waits for the     *)
(* answer.  A router that leaves takes the messages it never received with *)
(* it: their senders wait for ever.                                        *)
(***************************************************************************)
EXTENDS Naturals, Sequences

CONSTANTS
    Parent, Client, Child,  \* protocol parents, clients, surrogate children
    Protocol, Default,      \* protocol names, and SIMPL_DEFAULT
    Speaks,                 \* Speaks[p]: the protocol of parent p
    Asks,                   \* Asks[c]: what client c asks for
    Slots,                  \* MAX_NUM_PROTOCOLS
    MaxAsks,                \* bound: requests of client c are MaxAsks[c]
    Killable,               \* parents and children that may be killed
    Exitable                \* parents that may exit on a trapped signal

ASSUME NamesAssumption ==
    /\ Parent \cap Client = {} /\ Default \notin Protocol
    /\ Speaks \in [Parent -> Protocol] /\ Asks \in [Client -> Protocol \cup {Default}]
ASSUME BoundsAssumption ==
    /\ Child \subseteq Nat
    /\ Slots \in Nat /\ MaxAsks \in [Client -> Nat]
    /\ Killable \subseteq Parent \cup Child /\ Exitable \subseteq Parent

VARIABLES
    router,  \* is the router running, hung in a Reply, or down?
    box,     \* the senders of the messages it has not received
    table,   \* protocolTable: each slot holds no offer or one
    parent,  \* where a parent is
    kid,     \* kid[p]: set of the child p forked last
    child,   \* where a child is
    client,  \* where a client is
    given,   \* given[c]: set of the child the router named to c last
    asks     \* requests made so far

vars == <<router, box, table, parent, kid, child, client, given, asks>>

Slot == 1..Slots
Offer == [by : Parent, kid : Child]  \* sender and programName of an entry

TypeOK ==
    /\ router \in {"up", "hung", "down"}
    /\ box \in Seq(Parent \cup Client)
    /\ table \in [Slot -> SUBSET Offer]
    /\ parent \in [Parent -> {"fork", "send", "blocked", "gone", "killed"}]
    /\ kid \in [Parent -> SUBSET Child]
    /\ child \in [Child -> {"none", "forked", "ready", "taken", "dead"}]
    /\ client \in [Client -> {"idle", "asked", "told", "served"}]
    /\ given \in [Client -> SUBSET Child]
    /\ asks \in [Client -> Nat]

Init ==
    /\ router = "up" /\ box = <<>>
    /\ table = [i \in Slot |-> {}]
    /\ parent = [p \in Parent |-> "fork"]
    /\ kid = [p \in Parent |-> {}]
    /\ child = [k \in Child |-> "none"]
    /\ client = [c \in Client |-> "idle"]
    /\ given = [c \in Client |-> {}]
    /\ asks = [c \in Client |-> 0]

-----------------------------------------------------------------------------
(* The parents and their children.                                         *)

\* The children are numbered in the order they are forked.
Fork(p, k) ==
    /\ parent[p] = "fork"
    /\ child[k] = "none" /\ \A j \in Child : j < k => child[j] # "none"
    /\ child' = [child EXCEPT ![k] = "forked"]
    /\ kid' = [kid EXCEPT ![p] = {k}]
    /\ parent' = [parent EXCEPT ![p] = "send"]
    /\ UNCHANGED <<router, box, table, client, given, asks>>

\* The child runs on its own: it attaches its name when it gets to it.
ChildAttach(k) ==
    /\ child[k] = "forked"
    /\ child' = [child EXCEPT ![k] = "ready"]
    /\ UNCHANGED <<router, box, table, parent, kid, client, given, asks>>

\* SUR_SURROGATE_READY; a parent whose Send fails exits.
Announce(p) ==
    /\ parent[p] = "send"
    /\ \/ /\ router # "down"
          /\ box' = Append(box, p)
          /\ parent' = [parent EXCEPT ![p] = "blocked"]
       \/ /\ router = "down"
          /\ parent' = [parent EXCEPT ![p] = "gone"]
          /\ UNCHANGED box
    /\ UNCHANGED <<router, table, kid, child, client, given, asks>>

-----------------------------------------------------------------------------
(* The clients: _simpl_net_name_locate and _simpl_net_name_attach.         *)

\* SUR_REQUEST_PROTOCOL
Ask(c) ==
    /\ client[c] = "idle" /\ asks[c] < MaxAsks[c] /\ router # "down"
    /\ asks' = [asks EXCEPT ![c] = @ + 1]
    /\ box' = Append(box, c)
    /\ client' = [client EXCEPT ![c] = "asked"]
    /\ UNCHANGED <<router, table, parent, kid, child, given>>

\* The client locates the child it was told of and sends to it; without a
\* child, or when nobody has attached that name, its name_locate fails.
UseSurrogate(c) ==
    /\ client[c] = "told"
    /\ \/ \E k \in given[c] :
             /\ child[k] \in {"ready", "taken"}
             /\ child' = [child EXCEPT ![k] = "taken"]
             /\ client' = [client EXCEPT ![c] = "served"]
             /\ UNCHANGED given
       \/ /\ \A k \in given[c] : child[k] \notin {"ready", "taken"}
          /\ client' = [client EXCEPT ![c] = "idle"]
          /\ given' = [given EXCEPT ![c] = {}]
          /\ UNCHANGED child
    /\ UNCHANGED <<router, box, table, parent, kid, asks>>

-----------------------------------------------------------------------------
(* The router.                                                             *)

InTable(p) == \E i \in Slot : \E o \in table[i] : o.by = p

Fail(S) == parent' = [p \in Parent |-> IF p \in S THEN "gone" ELSE parent[p]]

\* Receive of the message of a parent that has left or was killed: its memory,
\* marked for removal when it was made, went with it and cannot be attached.
\* The router faults, and its clean up fails every Send it holds, until it comes to
\* that of a killed parent, whose reply fifo has no reader: there it hangs.
Crash ==
    /\ router = "up" /\ box # <<>>
    /\ Head(box) \in Parent /\ parent[Head(box)] \in {"gone", "killed"}
    /\ \/ /\ \A p \in Parent : parent[p] = "killed" => ~ InTable(p)
          /\ Fail({p \in Parent : parent[p] = "blocked" /\ InTable(p)})
          /\ router' = "down" /\ box' = <<>>
          /\ table' = [i \in Slot |-> {}]
       \/ /\ \E p \in Parent : parent[p] = "killed" /\ InTable(p)
          /\ \E S \in SUBSET {p \in Parent : parent[p] = "blocked" /\ InTable(p)} : Fail(S)
          /\ router' = "hung" /\ box' = Tail(box)
          /\ UNCHANGED table
    /\ UNCHANGED <<kid, child, client, given, asks>>

Free == {i \in Slot : table[i] = {}}

FirstOf(S) == CHOOSE i \in S : \A j \in S : i <= j

Offers(p) == {[by |-> p, kid |-> k] : k \in kid[p]}

\* Receive of the announcement of p.
ReceiveReady(p) ==
    /\ router = "up" /\ box # <<>> /\ Head(box) = p /\ parent[p] = "blocked"
    /\ box' = Tail(box)
    /\ UNCHANGED <<router, kid, child, client, given, asks>>

\* Mutant: the slots are counted from one to MAX_NUM_PROTOCOLS.
TakeReadyBeyond(p) ==
    /\ ReceiveReady(p)
    /\ LET i == FirstOf({j \in 2..Slots + 1 : j \notin Slot \/ table[j] = {}}) IN
       table' = [j \in Slot \cup {i} |-> IF j = i THEN Offers(p) ELSE table[j]]
    /\ UNCHANGED parent

\* modifyProtocolTable: with a full table the parent is simply forgotten.
TakeReady(p) ==
    /\ ReceiveReady(p)
    /\ table' = IF Free = {} THEN table ELSE [table EXCEPT ![FirstOf(Free)] = Offers(p)]
    /\ UNCHANGED parent

\* Slots that can serve a request, in table order.
Fitting(protocol) ==
    {i \in Slot : \E o \in table[i] : protocol \in {Default, Speaks[o.by]}}

\* Mutant: the slot is not cleared.
ClearedNever(i) == table

Cleared(i) == [table EXCEPT ![i] = {}]

\* Mutant: the parent is left blocked.
UnblockNone(p) == UNCHANGED <<parent, router>>

\* Reply to the parent in the slot: one that was killed after it was received leaves
\* a reply fifo without a reader, and the open of it never returns.
Unblock(p) ==
    \/ /\ parent[p] # "killed"
       /\ parent' = [parent EXCEPT ![p] = IF @ = "blocked" THEN "fork" ELSE @]
       /\ UNCHANGED router
    \/ parent[p] = "killed" /\ router' = "hung" /\ UNCHANGED parent

\* hndlProtocolRequest with a slot that fits: the parent is answered first,
\* then the client gets the name of the child.
TakeRequest(c) ==
    /\ router = "up" /\ box # <<>> /\ Head(box) = c
    /\ Fitting(Asks[c]) # {}
    /\ box' = Tail(box)
    /\ LET i == FirstOf(Fitting(Asks[c])) IN
       \E o \in table[i] :
          /\ Unblock(o.by)
          /\ IF router' = "hung" THEN UNCHANGED <<table, client, given>>
             ELSE /\ table' = Cleared(i)
                  /\ client' = [client EXCEPT ![c] = "told"]
                  /\ given' = [given EXCEPT ![c] = {o.kid}]
    /\ UNCHANGED <<kid, child, asks>>

\* Mutant: a request that no slot fits is not answered.
RefuseSilently(c) ==
    /\ router = "up" /\ box # <<>> /\ Head(box) = c
    /\ Fitting(Asks[c]) = {}
    /\ box' = Tail(box)
    /\ UNCHANGED <<router, table, parent, kid, child, client, given, asks>>

\* No slot fits: the client gets an empty name.
RefuseRequest(c) ==
    /\ router = "up" /\ box # <<>> /\ Head(box) = c
    /\ Fitting(Asks[c]) = {}
    /\ box' = Tail(box)
    /\ client' = [client EXCEPT ![c] = "told"]
    /\ UNCHANGED <<router, table, parent, kid, child, given, asks>>

-----------------------------------------------------------------------------
(* The end of parents and children.                                        *)

\* A trapped signal: the parent detaches its name and takes its fifos away.
ParentExit(p) ==
    /\ p \in Exitable /\ parent[p] \in {"fork", "send", "blocked"}
    /\ parent' = [parent EXCEPT ![p] = "gone"]
    /\ UNCHANGED <<router, box, table, kid, child, client, given, asks>>

ParentKill(p) ==
    /\ p \in Killable /\ parent[p] \in {"fork", "send", "blocked"}
    /\ parent' = [parent EXCEPT ![p] = "killed"]
    /\ UNCHANGED <<router, box, table, kid, child, client, given, asks>>

ChildKill(k) ==
    /\ k \in Killable /\ child[k] \in {"forked", "ready", "taken"}
    /\ child' = [child EXCEPT ![k] = "dead"]
    /\ UNCHANGED <<router, box, table, parent, kid, client, given, asks>>

-----------------------------------------------------------------------------
Route ==
    \/ \E p \in Parent : TakeReady(p)
    \/ \E c \in Client : TakeRequest(c) \/ RefuseRequest(c)
    \/ Crash

Next ==
    \/ Route
    \/ \E p \in Parent : Announce(p) \/ ParentExit(p) \/ ParentKill(p)
    \/ \E p \in Parent, k \in Child : Fork(p, k)
    \/ \E k \in Child : ChildAttach(k) \/ ChildKill(k)
    \/ \E c \in Client : Ask(c) \/ UseSurrogate(c)

Spec == Init /\ [][Next]_vars

\* Every process is scheduled; parents fork as long as the bound allows.
Fairness ==
    /\ WF_vars(Route)
    /\ \A p \in Parent : WF_vars(Announce(p)) /\ WF_vars(\E k \in Child : Fork(p, k))
    /\ \A k \in Child : WF_vars(ChildAttach(k))
    /\ \A c \in Client : WF_vars(UseSurrogate(c))

FairSpec == Spec /\ Fairness

-----------------------------------------------------------------------------
(* What the router owes parents and clients.                               *)

\* A surrogate carries the messages of one client only.
OneClientPerSurrogate ==
    \A b, c \in Client : b # c => given[b] \cap given[c] = {}

InBox(x) == \E i \in DOMAIN box : box[i] = x

\* While the router is well, a blocked parent has its message in the box or
\* its child in the table, never both and never twice: somebody will unblock
\* it, and nobody does so before its child was given away.
ParentIsTracked ==
    router = "up" => \A p \in Parent : parent[p] = "blocked" =>
        /\ InBox(p) \/ InTable(p)
        /\ ~ (InBox(p) /\ InTable(p))
        /\ \A i, j \in Slot : \A o \in table[i], q \in table[j] :
               o.by = p /\ q.by = p => i = j

\* Every request for a surrogate is answered, as long as the router is well.
RequestAnswered ==
    \A c \in Client : client[c] = "asked" ~> client[c] # "asked" \/ router # "up"

\* As long as children can be forked, every parent that runs has one on offer
\* again and again: a client that keeps asking is not refused for ever.
KeepsOffering ==
    \A p \in Parent : []<> \/ InTable(p)
                            \/ \A k \in Child : child[k] # "none"
                            \/ parent[p] \in {"gone", "killed"} \/ router # "up"
=============================================================================
