------------------------------ MODULE MCForkWatch ------------------------------
(* TLC instance of ForkWatch: a node that checks, and its one peer, which  *)
(* starts with an empty ledger and may admit the packet the node has.       *)
EXTENDS ForkWatch, TLC

CONSTANTS a, b, p, q

MCPeers == a :> {b} @@ b :> {a}
MCHeld == a :> <<p>> @@ b :> <<>>
MCAdmits == a :> {p, q} @@ b :> {p}
MCContradictions == {{p, q}}
=============================================================================
