-------------------------------- MODULE MCMesh --------------------------------
(* TLC instance of Mesh: a reconciler with two request threads and a peer   *)
(* with one, a claim, a claim that contradicts it, and a resolution, which  *)
(* the peer's policy does not accept.                                       *)
EXTENDS Mesh, TLC

CONSTANTS c, b, claim, counter, finding, verdict, h1, h2

MCPeers == c :> {b} @@ b :> {c}
MCAdmits == c :> Packet @@ b :> {claim, counter}
MCContradicts == claim :> {} @@ counter :> {claim} @@ finding :> {}
MCFindings == verdict :> {finding}
MCHandlers == c :> {h1, h2} @@ b :> {h1}
=============================================================================
