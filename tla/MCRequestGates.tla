--------------------------- MODULE MCRequestGates ---------------------------
(* Model-checking instance of RequestGates: a request for two addresses of one *)
(* host, one for an address of that host, and one for an address of another.   *)
EXTENDS RequestGates

CONSTANTS r1, r2, r3, x, y

PlanOf == [r \in Requests |-> CASE r = r1 -> <<x, x>> [] r = r2 -> <<x>> [] OTHER -> <<y>>]
=============================================================================
