------------------------------ MODULE MCReliance ------------------------------
(* TLC instance of Reliance: a claim, two homes of different operators that *)
(* trust each other; the screen has a reason against a second claim, which  *)
(* only the first home can admit a review of.                               *)
EXTENDS Reliance, TLC

CONSTANTS a, b, alice, bob, carol, finding, draft

MCOperator == a :> alice @@ b :> bob
MCAuthor == finding :> carol @@ draft :> bob
supported == [id |-> 1, claim |-> finding, method |-> "rerun", verifier |-> bob, outcome |-> "supported"]
failed == [id |-> 2, claim |-> finding, method |-> "rerun", verifier |-> carol, outcome |-> "failed"]
MCResult == {supported, failed}
needs == [id |-> 1, claim |-> finding, by |-> alice, decision |-> "need-evidence"]
accepts == [id |-> 2, claim |-> finding, by |-> bob, decision |-> "accept-display"]
waves == [id |-> 3, claim |-> draft, by |-> alice, decision |-> "accept-display"]
MCReview == {needs, accepts, waves}
first == [id |-> 4, claim |-> finding, by |-> bob, decision |-> "prefer-a"]
second == [id |-> 5, claim |-> finding, by |-> alice, decision |-> "prefer-b"]
MCResolution == {first, second}
MCAdmits == a :> Packet @@ b :> Packet \ {draft, waves}
MCRuns == a :> Result @@ b :> {}
display == [mode |-> "display", accept |-> FALSE]
strict == [mode |-> "consequential", accept |-> FALSE]
open == [mode |-> "consequential", accept |-> TRUE]
MCPolicies == a :> {display, strict, open} @@ b :> {open}
MCTrustedVerifiers == a :> {bob} @@ b :> {bob}
MCTrustedResolvers == a :> {bob} @@ b :> {alice}
=============================================================================
