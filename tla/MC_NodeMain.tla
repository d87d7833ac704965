------------------------------ MODULE MC_NodeMain ------------------------------
EXTENDS NodeMain

CONSTANTS a1, b1, c1, v1, w1, X, Y, Z, p1, p2

(* a1, b1, c1 are IPv4 literals in the /16s X, Y, Z; v1 an IPv6 literal;   *)
(* w1 any other part (a protocol name, a port, a peer id).                 *)
MCIPv4 == {a1, b1, c1}
MCPrefix16 == [a \in MCIPv4 |-> CASE a = a1 -> X [] a = b1 -> Y [] a = c1 -> Z]
=============================================================================
