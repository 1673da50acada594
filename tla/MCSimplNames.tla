---------------------------- MODULE MCSimplNames ----------------------------
(* Small instances of SimplNames: three programs that want one name and    *)
(* another, or names of which one begins with the other and a dot.         *)
EXTENDS SimplNames

CONSTANTS p1, p2, p3, a, b, ya, yb, a1, ya1, ax, yax

\* The reply fifos.
Replies == [n \in Name |-> CASE n = a -> ya [] n = b -> yb [] n = a1 -> ya1 [] n = ax -> yax]

\* a1 stands for the name a.1, ax for a.x: who searches a reads 1, or no number.
Dots == [[n \in Name |-> [f \in File |-> {}]] EXCEPT ![a][a1] = {1}, ![a][ax] = {0}]

\* p1 and p2 both call themselves a, or p2 has a dot in its name.
Wants(n2, n3) == [p \in Prog |-> CASE p = p1 -> a [] p = p2 -> n2 [] p = p3 -> n3]

\* Ways to run the host.
Ordinary == [want |-> Wants(a, b), nice |-> {}, blind |-> {}, serial |-> TRUE, reuse |-> FALSE]
Racing == [Ordinary EXCEPT !.serial = FALSE]
Hostile == [Ordinary EXCEPT !.nice = {p1}, !.blind = {p2}, !.reuse = TRUE]
Dotted == [Ordinary EXCEPT !.want = Wants(a1, ax)]
AllHosts == {Ordinary, Racing, Hostile, Dotted}
=============================================================================
