------------------------------- MODULE Reliance -------------------------------
(***************************************************************************)
(* What a W1 home lets its user rely on: the verification results recorded *)
(* in verification/ (verification.py), the signed review packets           *)
(* (review.py), the conflict between them and the resolution packets that  *)
(* answer it (conflicts.py), under the home's policy.rely.json.            *)
(*                                                                         *)
(* Results and the policy never leave their home.  Reviews and resolutions *)
(* are packets: homes pull and import them one at a time, in any order and *)
(* without what they were about.  A command is one step here; what happens *)
(* inside a pull is in Exchange.                                           *)
(***************************************************************************)
EXTENDS Naturals, FiniteSets

CONSTANTS
  Home,
  Agent,             \* identities: operators of homes, authors, verifiers
  Operator,          \* home -> the identity in its identity.json
  Claim,             \* packets that are reviewed
  Author,            \* claim -> author_agent_id
  Screened,          \* claims the mechanical screen has no reason against
  Review,            \* packets of commons/review/result
  Resolution,        \* packets of commons/review/resolution
  Result,            \* verification results, by verification_id
  Runs,              \* home -> results its user records
  Policies,          \* home -> modes and acceptances its user chooses
  Admits,            \* home -> packets its constitutions and policy accept
  TrustedVerifiers, TrustedResolvers,   \* home -> agents (policy.rely.json)
  AllowSameOperator, AllowSameOperatorResolve   \* homes whose policy says so

Decisions == {"accept-display", "need-evidence", "reject-spam", "reject-scope",
              "reject-constitution", "conflict", "escalate"}
Outcomes == {"digest_checked", "reproduced", "supported", "failed", "unavailable"}
AcceptedDecisions == {"prefer-a", "prefer-b"}
PolicyFields == [mode : {"display", "consequential"}, accept : BOOLEAN]
Packet == Claim \cup Review \cup Resolution

\* Ids are numbers in the order of the digests: results and reviews are listed
\* by file name.
ASSUME RelianceAssumption ==
  /\ Operator \in [Home -> Agent] /\ Author \in [Claim -> Agent]
  /\ Screened \subseteq Claim
  /\ Review \subseteq [id : Nat, claim : Claim, by : Agent, decision : Decisions]
  /\ Resolution \subseteq
       [id : Nat, claim : Claim, by : Agent,
        decision : AcceptedDecisions \cup {"neither", "escalate"}]
  /\ Result \subseteq
       [id : Nat, claim : Claim, method : STRING, verifier : Agent, outcome : Outcomes]
  /\ Runs \in [Home -> SUBSET Result]
  /\ Policies \in [Home -> SUBSET PolicyFields]
  /\ Claim \cap (Review \cup Resolution) = {} /\ Review \cap Resolution = {}
  /\ Admits \in [Home -> SUBSET Packet]
  /\ TrustedVerifiers \in [Home -> SUBSET Agent]
  /\ TrustedResolvers \in [Home -> SUBSET Agent]
  /\ AllowSameOperator \subseteq Home /\ AllowSameOperatorResolve \subseteq Home

VARIABLES
  held,        \* packets in the objects/ of each home
  recorded,    \* verification/: absent, signed or unsigned, per home and result
  policy       \* mode and accept_resolution of policy.rely.json

vars == <<held, recorded, policy>>

-----------------------------------------------------------------------------
(* What a status says, from what the home holds.                            *)

Signed(h, c) == {r \in Result : r.claim = c /\ recorded[h][r] = "signed"}

\* Seeded fault: only the latest review of a claim is looked at.
ReviewsOfLatest(h, c) ==
  LET all == {v \in Review \cap held[h] : v.claim = c} IN
  {v \in all : \A w \in all : w.id <= v.id}

ReviewsOf(h, c) == {v \in Review \cap held[h] : v.claim = c}

ResolutionsOf(h, c) == {p \in Resolution \cap held[h] : p.claim = c}

\* All reviews share the method "review".
Values(h, c) ==
  {<<r.method, r.outcome>> : r \in Signed(h, c)}
    \cup {<<"review", v.decision>> : v \in ReviewsOf(h, c)}

Supportive == {"supported", "reproduced", "accept-display"}

Incompatible(values) ==
  \E v, w \in values :
    \/ v[1] = w[1] /\ v[2] # w[2]
    \/ v[2] \in Supportive /\ w[2] \notin Supportive

Conflict(h, c) == Incompatible(Values(h, c))

\* The first of conflict_digests: results come before reviews.
FirstDigest(h, c) ==
  LET pool == IF Signed(h, c) # {} THEN Signed(h, c) ELSE ReviewsOf(h, c) IN
  CHOOSE d \in pool : \A e \in pool : d.id <= e.id

\* Seeded fault: a review that accepts the display counts as support.
ConsequentialOkByReview(h, c) ==
  \/ \E v \in ReviewsOf(h, c) : v.decision = "accept-display"
  \/ \E r \in Signed(h, c) :
       r.outcome \in {"reproduced", "supported"} /\ r.verifier \in TrustedVerifiers[h]

ConsequentialOk(h, c) ==
  \E r \in Signed(h, c) :
    /\ r.outcome \in {"reproduced", "supported"}
    /\ r.verifier \in TrustedVerifiers[h]
    /\ r.verifier # Author[c] \/ h \in AllowSameOperator

\* Why a resolution counts or does not, in the order the code asks.
Verdict(h, p) ==
  CASE p.by = Author[p.claim] /\ h \notin AllowSameOperatorResolve -> "same_operator"
    [] p.decision \notin AcceptedDecisions -> "decision_neither"
    [] policy[h].mode # "consequential" -> "policy_display"
    [] policy[h].accept /\ p.by \in TrustedResolvers[h] -> "ok_resolution"
    [] OTHER -> "untrusted_resolver"

Accepted(h, c) == \E p \in ResolutionsOf(h, c) : Verdict(h, p) = "ok_resolution"

\* A home that has not got the claim has no status of it.
RelyOk(h, c) ==
  /\ c \in held[h]
  /\ IF Conflict(h, c) THEN Accepted(h, c) ELSE ConsequentialOk(h, c)

\* Unsigned results count for the badges, not for reliance.
Badges(h, c) ==
  LET outcome == {r.outcome : r \in {s \in Result : s.claim = c /\ recorded[h][s] # "absent"}} IN
  {o \in {"digest_checked", "reproduced"} : o \in outcome}
    \cup (IF "supported" \in outcome /\ ~Conflict(h, c) THEN {"supported"} ELSE {})
    \cup (IF \E r \in Signed(h, c) : r.verifier # Author[c] THEN {"independent"} ELSE {})

\* Every packet that is no review is listed as a claim, resolutions included.
InReview(h) == {c \in held[h] \ Review : \A v \in Review \cap held[h] : v.claim # c}

-----------------------------------------------------------------------------
Init ==
  /\ held = [h \in Home |-> {}]
  /\ recorded = [h \in Home |-> [r \in Result |-> "absent"]]
  /\ policy = [h \in Home |-> [mode |-> "display", accept |-> FALSE]]

Hold(h, p) == held' = [held EXCEPT ![h] = @ \cup {p}]

\* Packets carry the second they were made in: a command makes a new one.
Fresh(p) == \A h \in Home : p \notin held[h]

\* The id covers everything but the signature: recording a result again without
\* an identity replaces the signed file.
Record(h, r, mark) ==
  /\ recorded' = [recorded EXCEPT ![h][r] = mark]
  /\ UNCHANGED <<held, policy>>

\* `commons review decide`.
Decide(h, v) ==
  /\ v.claim \in held[h] /\ Fresh(v)
  /\ v.by = Operator[h]
  /\ v.decision = "accept-display" => v.claim \in Screened
  /\ v \in Admits[h]
  /\ Hold(h, v)
  /\ UNCHANGED <<recorded, policy>>

\* `commons resolve`: the user prefers one of the conflicting digests.
Resolve(h, p) ==
  /\ Fresh(p) /\ p.by = Operator[h] /\ p \in Admits[h]
  /\ Conflict(h, p.claim)
  /\ \E preferred \in Signed(h, p.claim) \cup ReviewsOf(h, p.claim) :
       p.decision = IF preferred = FirstDigest(h, p.claim) THEN "prefer-a" ELSE "prefer-b"
  /\ Hold(h, p)
  /\ UNCHANGED <<recorded, policy>>

\* The MCP tool commons_propose takes kind, namespace and scope as they are: a
\* claim, or a review or resolution without the checks of decide and resolve.
Propose(h, p) ==
  /\ Fresh(p) /\ p \in Admits[h]
  /\ p \notin Claim => p.by = Operator[h]
  /\ Hold(h, p)
  /\ UNCHANGED <<recorded, policy>>

\* `commons policy set` writes both fields; the lists stay as the file has them.
SetPolicy(h, fields) ==
  /\ policy' = [policy EXCEPT ![h] = fields]
  /\ UNCHANGED <<held, recorded>>

\* Seeded fault: what a home pulls is not tried against its own constitutions.
ArriveUnchecked(h, p) ==
  /\ \E g \in Home : p \in held[g]
  /\ Hold(h, p)
  /\ UNCHANGED <<recorded, policy>>

\* A pull or an import admits a packet of another home.
Arrive(h, p) ==
  /\ \E g \in Home : p \in held[g]
  /\ p \in Admits[h] \ held[h]
  /\ Hold(h, p)
  /\ UNCHANGED <<recorded, policy>>

Next ==
  \E h \in Home :
    \/ \E r \in Runs[h], mark \in {"signed", "unsigned"} : Record(h, r, mark)
    \/ \E v \in Review : Decide(h, v)
    \/ \E p \in Resolution : Resolve(h, p)
    \/ \E p \in Packet : Propose(h, p) \/ Arrive(h, p)
    \/ \E fields \in Policies[h] : SetPolicy(h, fields)

Spec == Init /\ [][Next]_vars

-----------------------------------------------------------------------------
TypeOK ==
  /\ held \in [Home -> SUBSET Packet]
  /\ \A h \in Home : held[h] \subseteq Admits[h]
  /\ recorded \in [Home -> [Result -> {"absent", "signed", "unsigned"}]]
  /\ policy \in [Home -> PolicyFields]

\* A signed result of the claim was recorded again without a signature.
Undoes(h, c) ==
  \E r \in Result : r.claim = c /\ recorded[h][r] = "signed" /\ recorded'[h][r] = "unsigned"

\* conflicts.py:1 "Append-only": whatever is reviewed, resolved, pulled or set,
\* a conflict stays until a signed result is recorded again without signature;
\* no badge of a claim goes but for the same reason, or "supported" because a
\* conflict opens; and no packet returns to the review queue.
StatusPersists ==
  [][\A h \in Home :
       /\ \A c \in Claim :
            /\ Conflict(h, c) => Conflict(h, c)' \/ Undoes(h, c)
            /\ \A badge \in Badges(h, c) \ Badges(h, c)' :
                 \/ badge = "supported" /\ Conflict(h, c)'
                 \/ badge = "independent" /\ Undoes(h, c)
       /\ InReview(h)' \cap held[h] \subseteq InReview(h)]_vars

\* docs/NORTH-STAR.md:34 "No silent promotion": a claim becomes one to rely on
\* when this home records a result, or when a conflict is open after the step and
\* a trusted resolver has answered about the claim.  No other packet and no
\* change of the policy does it.
PromotionHasCause ==
  [][\A h \in Home : \A c \in held[h] \cap Claim :
       ~RelyOk(h, c) /\ RelyOk(h, c)' =>
         \/ recorded'[h] # recorded[h]
         \/ Conflict(h, c)' /\ \E p \in held'[h] \cap Resolution :
              p.claim = c /\ p.by \in TrustedResolvers[h]]_vars

\* docs/REVIEW.md:80 "None of these set `supported` or `rely_ok` by themselves":
\* no step that only adds a review makes a claim one to rely on.
ReviewsDoNotSetRelyOk ==
  [][\A h \in Home : \A c \in held[h] \cap Claim :
       ~RelyOk(h, c) /\ RelyOk(h, c)' =>
         (held'[h] \ held[h]) \cap Review = {}]_vars
=============================================================================
