---------------------------- MODULE MCPublication ----------------------------
(* TLC instance of Publication: two publishers and three snapshots that     *)
(* overlap in packets and disagree about one manifest, under limits small   *)
(* enough to be reached.                                                    *)
EXTENDS Publication, TLC

CONSTANTS p1, p2, s1, s2, s3, k1, m1, m2, m3

SnapshotPackets == s1 :> {p1} @@ s2 :> {p1, p2} @@ s3 :> {p2}
SnapshotManifests == s1 :> m1 @@ s2 :> m2 @@ s3 :> m3
WellFormedManifests == s1 :> m1 @@ s2 :> m2 @@ s3 :> NoManifest
OneKey == [m \in {m1, m2, m3} |-> k1]
=============================================================================
