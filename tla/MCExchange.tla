------------------------------ MODULE MCExchange ------------------------------
(* TLC instance of Exchange: the first home may follow the other two.       *)
(* Packet 1 is private and signed at both of these; packet 2 expires, and   *)
(* its constitution is one the first home installs late or never.           *)
EXTENDS Exchange, TLC

CONSTANTS research, lab, w1, w2

MCUnder == 1 :> research @@ 2 :> lab
MCWrites == 1 :> {} @@ 2 :> {1, 2} @@ 3 :> {1}
MCChosen == 1 :> research @@ 2 :> lab @@ 3 :> research
MCInstalls == 1 :> {lab} @@ 2 :> {research} @@ 3 :> {}
MCFollows == 1 :> {2, 3} @@ 2 :> {} @@ 3 :> {}
Processes == Permutations(Worker)
=============================================================================
