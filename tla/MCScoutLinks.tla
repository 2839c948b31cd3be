----------------------------- MODULE MCScoutLinks -----------------------------
(* Instances of ScoutLinks for TLC.                                        *)
EXTENDS ScoutLinks

CONSTANTS a, c, french, nowhere, junk

(* Links as they are written; one URL may be written in two ways.          *)
Written == {"a", "c", "c?tracked", "french", "nowhere", "junk"}

Target == [a |-> a, c |-> c, french |-> french, nowhere |-> nowhere, junk |-> junk]

(* All links of the french page lead to c, and those of junk nowhere else. *)
Leads ==
  [p \in Urls |-> [l \in Raw |->
     IF p = junk THEN junk ELSE IF p = french \/ l = "c?tracked" THEN c ELSE Target[l]]]

(* What is another domain to the rest; to it the rest is.                  *)
Elsewhere == [p \in Urls |-> IF p = nowhere THEN Urls \ {nowhere} ELSE {nowhere}]

Kinds == {"item", "noise", "field", "metadata", "picture"}

Page(up, k2, k3, l2, l3) ==
  [parent |-> <<1, 1, up>>, kind |-> <<"item", k2, k3>>, link |-> <<NoLink, l2, l3>>]

(* A root and two components.  The first links to c, the second to         *)
(* anything; junk stands alone.                                            *)
Alone == {"junk"}
SmallPages ==
  {Page(up, k2, k3, "c", l3) : up \in {1, 2}, k2 \in Kinds, k3 \in Kinds, l3 \in Raw \ Alone}
  \union {Page(2, k2, k3, NoLink, l3) : k2 \in Kinds, k3 \in Kinds, l3 \in Alone}
=============================================================================
