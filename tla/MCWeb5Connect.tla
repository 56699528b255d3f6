--------------------------- MODULE MCWeb5Connect ---------------------------
(* Instances of Web5Connect. *)
EXTENDS Web5Connect

CONSTANTS p1, p2, r1, r2

\* One protocol to read.
OneAsk == {[p \in {p1} |-> {"read"}]}

\* The right to read is sent to one endpoint, the other grants to another.
Apart == {[t \in MessageType |-> IF t = "MessagesRead" THEN r2 ELSE r1]}

AllOptions == {[wallet |-> TRUE, sync |-> TRUE, registration |-> FALSE],
               [wallet |-> TRUE, sync |-> FALSE, registration |-> FALSE],
               [wallet |-> FALSE, sync |-> TRUE, registration |-> TRUE]}
=============================================================================
