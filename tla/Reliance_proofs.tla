---------------------------- MODULE Reliance_proofs ----------------------------
(* What a home may rely on, for any homes, claims, reviews, results,        *)
(* resolutions and policies: conflicts do not go silently, and no packet    *)
(* alone makes a claim one to rely on.                                      *)
EXTENDS Reliance, TLAPS

\* What a step may do to the packets of a home and to its results.
HeldGrows == \A h \in Home : held[h] \subseteq held'[h]
Keeps(h, r) ==
  /\ recorded[h][r] # "absent" => recorded'[h][r] # "absent"
  /\ recorded[h][r] = "signed" => recorded'[h][r] \in {"signed", "unsigned"}

LEMMA TypeInit == Init => TypeOK
BY RelianceAssumption DEF Init, TypeOK, PolicyFields

\* A packet that a home admits is held there, and changes nothing else.
LEMMA HoldTypes ==
  ASSUME TypeOK, NEW h \in Home, NEW p \in Admits[h], Hold(h, p),
         UNCHANGED <<recorded, policy>>
  PROVE  TypeOK' /\ HeldGrows
<1>1. held \in [Home -> SUBSET Packet] /\ p \in Packet
  BY RelianceAssumption DEF TypeOK
<1>2. held' \in [Home -> SUBSET Packet] /\ HeldGrows
  BY <1>1 DEF Hold, HeldGrows
<1>3. \A g \in Home : held'[g] \subseteq Admits[g]
  BY <1>1 DEF Hold, TypeOK
<1> QED BY <1>2, <1>3 DEF TypeOK

\* Every step that adds a packet is one that the home admits it in.
LEMMA PacketSteps ==
  ASSUME NEW h \in Home,
         \/ \E v \in Review : Decide(h, v)
         \/ \E p \in Resolution : Resolve(h, p)
         \/ \E p \in Packet : Propose(h, p) \/ Arrive(h, p)
  PROVE  \E p \in Admits[h] : Hold(h, p) /\ UNCHANGED <<recorded, policy>>
BY DEF Decide, Resolve, Propose, Arrive

LEMMA RecordTypes ==
  ASSUME TypeOK, NEW h \in Home, NEW r \in Runs[h], NEW mark \in {"signed", "unsigned"},
         Record(h, r, mark)
  PROVE  /\ TypeOK' /\ HeldGrows
         /\ \A g \in Home, s \in Result : Keeps(g, s)
<1>1. r \in Result
  BY RelianceAssumption
<1>2. recorded \in [Home -> [Result -> {"absent", "signed", "unsigned"}]]
  BY DEF TypeOK
<1>3. recorded' \in [Home -> [Result -> {"absent", "signed", "unsigned"}]]
  BY <1>1, <1>2 DEF Record
<1>4. ASSUME NEW g \in Home, NEW s \in Result
      PROVE  Keeps(g, s)
  <2>1. recorded'[g][s] = mark \/ recorded'[g][s] = recorded[g][s]
    BY <1>1, <1>2 DEF Record
  <2> QED BY <2>1 DEF Keeps
<1> QED BY <1>3, <1>4 DEF Record, TypeOK, HeldGrows

\* The kinds of steps, and what all of them keep.
LEMMA StepKeeps ==
  ASSUME TypeOK, [Next]_vars
  PROVE  /\ TypeOK' /\ HeldGrows
         /\ \A h \in Home, r \in Result : Keeps(h, r)
<1>1. CASE UNCHANGED vars
  BY <1>1 DEF vars, TypeOK, HeldGrows, Keeps
<1>2. ASSUME NEW h \in Home, NEW r \in Runs[h], NEW mark \in {"signed", "unsigned"},
             Record(h, r, mark)
      PROVE  TypeOK' /\ HeldGrows /\ \A g \in Home, s \in Result : Keeps(g, s)
  BY <1>2, RecordTypes
<1>3. ASSUME NEW h \in Home,
             \/ \E v \in Review : Decide(h, v)
             \/ \E p \in Resolution : Resolve(h, p)
             \/ \E p \in Packet : Propose(h, p) \/ Arrive(h, p)
      PROVE  TypeOK' /\ HeldGrows /\ \A g \in Home, s \in Result : Keeps(g, s)
  <2>1. PICK p \in Admits[h] : Hold(h, p) /\ UNCHANGED <<recorded, policy>>
    BY <1>3, PacketSteps
  <2>2. TypeOK' /\ HeldGrows
    BY <2>1, HoldTypes
  <2> QED BY <2>1, <2>2 DEF Keeps
<1>4. ASSUME NEW h \in Home, NEW fields \in Policies[h], SetPolicy(h, fields)
      PROVE  TypeOK' /\ HeldGrows /\ \A g \in Home, s \in Result : Keeps(g, s)
  <2>1. fields \in PolicyFields
    BY RelianceAssumption
  <2>2. policy' \in [Home -> PolicyFields]
    BY <1>4, <2>1 DEF SetPolicy, TypeOK
  <2> QED BY <1>4, <2>2 DEF SetPolicy, TypeOK, HeldGrows, Keeps
<1> QED BY <1>1, <1>2, <1>3, <1>4 DEF Next

\* Homes hold only packets they admit, and well-formed results and policies.
THEOREM RelianceTypes == Spec => []TypeOK
<1>1. TypeOK /\ [Next]_vars => TypeOK'
  BY StepKeeps
<1> QED BY TypeInit, <1>1, PTL DEF Spec

-----------------------------------------------------------------------------
(* Conflicts and badges.                                                    *)

LEMMA IncompatibleGrows ==
  ASSUME NEW V, NEW W, V \subseteq W, Incompatible(V)
  PROVE  Incompatible(W)
BY DEF Incompatible

\* Signed results stay signed where no signature is undone.
LEMMA SignedGrows ==
  ASSUME TypeOK, [Next]_vars, NEW h \in Home, NEW c \in Claim, ~Undoes(h, c)
  PROVE  Signed(h, c) \subseteq Signed(h, c)'
<1>1. \A r \in Result : Keeps(h, r)
  BY StepKeeps
<1>2. ASSUME NEW r \in Result, r.claim = c, recorded[h][r] = "signed"
      PROVE  recorded'[h][r] = "signed"
  BY <1>1, <1>2 DEF Keeps, Undoes
<1> QED BY <1>2 DEF Signed

LEMMA ConflictStays ==
  ASSUME TypeOK, [Next]_vars, NEW h \in Home, NEW c \in Claim, ~Undoes(h, c), Conflict(h, c)
  PROVE  Conflict(h, c)'
<1>1. Signed(h, c) \subseteq Signed(h, c)'
  BY SignedGrows
<1>2. ReviewsOf(h, c) \subseteq ReviewsOf(h, c)'
  BY StepKeeps DEF ReviewsOf, HeldGrows
<1>3. Values(h, c) \subseteq Values(h, c)'
  BY <1>1, <1>2 DEF Values
<1>4. Incompatible(Values(h, c)')
  BY <1>3, IncompatibleGrows DEF Conflict
<1> QED BY <1>4 DEF Conflict, Incompatible

LEMMA BadgesStay ==
  ASSUME TypeOK, [Next]_vars, NEW h \in Home, NEW c \in Claim,
         NEW badge \in Badges(h, c), badge \notin Badges(h, c)'
  PROVE  \/ badge = "supported" /\ Conflict(h, c)'
         \/ badge = "independent" /\ Undoes(h, c)
<1> DEFINE Seen == {s \in Result : s.claim = c /\ recorded[h][s] # "absent"}
           Shown == {r.outcome : r \in Seen}
<1>1. Seen \subseteq Seen'
  BY StepKeeps DEF Keeps
<1>2. Shown \subseteq Shown'
  BY <1>1
<1>3. Badges(h, c) = {o \in {"digest_checked", "reproduced"} : o \in Shown}
         \cup (IF "supported" \in Shown /\ ~Conflict(h, c) THEN {"supported"} ELSE {})
         \cup (IF \E r \in Signed(h, c) : r.verifier # Author[c] THEN {"independent"} ELSE {})
  BY DEF Badges
<1>4. Badges(h, c)' = {o \in {"digest_checked", "reproduced"} : o \in Shown'}
         \cup (IF "supported" \in Shown' /\ ~Conflict(h, c)' THEN {"supported"} ELSE {})
         \cup (IF \E r \in Signed(h, c)' : r.verifier # Author[c] THEN {"independent"} ELSE {})
  BY DEF Badges
<1> HIDE DEF Seen, Shown
<1>5. CASE badge \in {"digest_checked", "reproduced"} /\ badge \in Shown
  BY <1>2, <1>4, <1>5
<1>6. CASE badge = "supported" /\ "supported" \in Shown
  BY <1>2, <1>4, <1>6
<1>7. CASE badge = "independent" /\ \E r \in Signed(h, c) : r.verifier # Author[c]
  <2>1. ~(\E r \in Signed(h, c)' : r.verifier # Author[c])
    BY <1>4, <1>7
  <2> QED BY <1>7, <2>1, SignedGrows
<1> QED BY <1>3, <1>5, <1>6, <1>7

LEMMA ReviewQueue ==
  ASSUME TypeOK, [Next]_vars, NEW h \in Home
  PROVE  InReview(h)' \cap held[h] \subseteq InReview(h)
<1>1. held[h] \subseteq held'[h]
  BY StepKeeps DEF HeldGrows
<1> QED BY <1>1 DEF InReview

\* conflicts.py:1 "Append-only": a conflict, a badge or an answered review goes
\* only for the causes the property names, at any number of homes.
THEOREM StatusIsKept == Spec => StatusPersists
<1>1. ASSUME TypeOK, [Next]_vars
      PROVE  [\A h \in Home :
                /\ \A c \in Claim :
                     /\ Conflict(h, c) => Conflict(h, c)' \/ Undoes(h, c)
                     /\ \A badge \in Badges(h, c) \ Badges(h, c)' :
                          \/ badge = "supported" /\ Conflict(h, c)'
                          \/ badge = "independent" /\ Undoes(h, c)
                /\ InReview(h)' \cap held[h] \subseteq InReview(h)]_vars
  BY <1>1, ConflictStays, BadgesStay, ReviewQueue
<1> QED BY <1>1, RelianceTypes, PTL DEF Spec, StatusPersists

-----------------------------------------------------------------------------
(* Reliance.                                                                *)

\* Without a new result the signed results, and what they support, are the same.
LEMMA SameResults ==
  ASSUME NEW h \in Home, NEW c \in Claim, recorded'[h] = recorded[h]
  PROVE  /\ Signed(h, c)' = Signed(h, c)
         /\ ConsequentialOk(h, c)' <=> ConsequentialOk(h, c)
         /\ ~Undoes(h, c)
<1>1. Signed(h, c)' = Signed(h, c)
  BY DEF Signed
<1>2. ~Undoes(h, c)
  BY DEF Undoes
<1> QED BY <1>1, <1>2 DEF ConsequentialOk

\* docs/NORTH-STAR.md:34 "No silent promotion", at any number of homes.
THEOREM NoSilentPromotion == Spec => PromotionHasCause
<1>1. ASSUME TypeOK, [Next]_vars, NEW h \in Home, NEW c \in held[h] \cap Claim,
             ~RelyOk(h, c), RelyOk(h, c)', recorded'[h] = recorded[h]
      PROVE  Conflict(h, c)' /\ \E p \in held'[h] \cap Resolution :
               p.claim = c /\ p.by \in TrustedResolvers[h]
  <2>1. ConsequentialOk(h, c)' <=> ConsequentialOk(h, c)
    BY <1>1, SameResults
  <2>2. Conflict(h, c) => Conflict(h, c)'
    BY <1>1, SameResults, ConflictStays
  <2>3. Conflict(h, c)'
    BY <1>1, <2>1, <2>2 DEF RelyOk
  <2>4. Accepted(h, c)'
    BY <1>1, <2>3 DEF RelyOk
  <2>5. PICK p \in ResolutionsOf(h, c)' : Verdict(h, p)' = "ok_resolution"
    BY <2>4 DEF Accepted
  <2>6. p.by \in TrustedResolvers[h]
    BY <2>5 DEF Verdict
  <2> QED BY <2>3, <2>5, <2>6 DEF ResolutionsOf
<1>2. ASSUME TypeOK, [Next]_vars
      PROVE  [\A h \in Home : \A c \in held[h] \cap Claim :
                ~RelyOk(h, c) /\ RelyOk(h, c)' =>
                  \/ recorded'[h] # recorded[h]
                  \/ Conflict(h, c)' /\ \E p \in held'[h] \cap Resolution :
                       p.claim = c /\ p.by \in TrustedResolvers[h]]_vars
  BY <1>1, <1>2
<1> QED BY <1>2, RelianceTypes, PTL DEF Spec, PromotionHasCause
=============================================================================
