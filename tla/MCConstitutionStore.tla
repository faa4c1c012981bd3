-------------------------- MODULE MCConstitutionStore --------------------------
(* TLC instance of ConstitutionStore: two versions of one constitution, and *)
(* a second content for the older one, which has no guidance.               *)
EXTENDS ConstitutionStore, TLC

CONSTANTS old, other, new, v1, v2, topic, runtime, packet

MCPath == old :> v1 @@ other :> v1 @@ new :> v2
MCRank == old :> 1 @@ other :> 1 @@ new :> 2
MCCovers == [m \in Manifest |-> {topic}]
MCCompatible == [m \in Manifest |-> {runtime}]
MCMeets == old :> {packet} @@ other :> {} @@ new :> {packet}
MCAbout == packet :> topic
MCBundles == {<<new, other>>}
=============================================================================
