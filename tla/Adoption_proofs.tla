--------------------------- MODULE Adoption_proofs ---------------------------
(* What the adoption stores promise for every number of agents, requests,   *)
(* decisions and crashes.                                                    *)
EXTENDS Adoption, FiniteSetTheorems, TLAPS

-----------------------------------------------------------------------------
(* The inductive invariant.  AgentOK says what an agent in the middle of a  *)
(* call knows about files that only ever grow; Sightings are the decisions  *)
(* that some get has returned or is about to return.                        *)

Deciding(x) == x.pc \in {"list", "open", "write"}
Getting(x) == x.pc \in {"glob", "read"}

NamesOK(x) ==
  /\ x.pc \in {"write-handshake", "read-handshake"} => x.handshake \in Handshakes
  /\ x.pc \in {"write-request", "read-request"} => x.request \in Requests
  /\ x.pc \in {"write-handshake", "read-handshake", "select", "write-request",
               "read-request"} => x.session = "none"
  /\ x.session # "none" => x.request \in Requests
  /\ Deciding(x) \/ Getting(x) => x.request \in Requests
  /\ Deciding(x) \/ (Getting(x) /\ x.purpose = "compare") => x.decision \in Decisions
  /\ x.pc = "read" => x.seen \in Decisions
  /\ Getting(x) /\ x.purpose = "session" => x.session = "accepted"
  /\ Getting(x) /\ x.purpose = "effective" => x.decision \in Decisions

FilesOK(x) ==
  /\ Deciding(x) \/ Getting(x) => requests[x.request] = "whole"
  /\ x.session # "none" => requests[x.request] = "whole"
  /\ x.session = "accepted" =>
       \E d \in Accepting : decisions[x.request][d] = "whole"
  /\ x.pc = "write" => decisions[x.request][x.decision] # "none"
  /\ x.pc = "read" => decisions[x.request][x.seen] # "none"
  /\ x.pc = "read" /\ x.purpose = "session" => x.seen \in Accepting
  /\ Getting(x) /\ x.purpose = "effective" => <<x.request, x.decision>> \in given

AgentOK(a) == NamesOK(agent[a]) /\ FilesOK(agent[a])

Sighted(r, d) ==
  \/ <<r, d>> \in given
  \/ \E a \in Agents : agent[a].pc = "read" /\ agent[a].request = r /\ agent[a].seen = d

SightingsAgree ==
  \A r \in Requests : \A d, e \in Decisions : Sighted(r, d) /\ Sighted(r, e) => d = e

GivenWhole == \A r \in Requests, d \in Decisions :
  <<r, d>> \in given => decisions[r][d] = "whole"

DecidedBacked == \A r \in Requests : Decided(r) # {} => requests[r] = "whole"

Inv ==
  /\ TypeOK
  /\ \A a \in Agents : AgentOK(a)
  /\ DecidedBacked
  /\ GivenWhole
  /\ SightingsAgree
  /\ ActiveIsAccepted

\* What every step does to the stores and to the history of reads.
Grows ==
  /\ \A h \in Handshakes : Keeps(handshakes[h], handshakes'[h])
  /\ \A r \in Requests : Keeps(requests[r], requests'[r])
  /\ \A r \in Requests, d \in Decisions : Keeps(decisions[r][d], decisions'[r][d])
  /\ given \subseteq given'

\* A step of agent a changes only what a holds, keeps the types and lets the
\* stores grow.
AgentMoves(a) ==
  /\ agent' \in [Agents -> Locals]
  /\ \A b \in Agents \ {a} : agent'[b] = agent[b]
  /\ NamesOK(agent'[a])

StoresMove ==
  /\ handshakes' \in [Handshakes -> FileStates]
  /\ requests' \in [Requests -> FileStates]
  /\ decisions' \in [Requests -> [Decisions -> FileStates]]
  /\ Grows

\* The agent's own part of a step: what it holds afterwards is named here.
LEMMA BecomesMoves ==
  ASSUME TypeOK, NEW a \in Agents, NEW x \in Locals, NamesOK(x), Becomes(a, x)
  PROVE  AgentMoves(a) /\ agent'[a] = x
  BY DEF TypeOK, AgentMoves, Becomes

LEMMA GotoMoves ==
  ASSUME TypeOK, NEW a \in Agents, NEW label \in Labels, Goto(a, label),
         NamesOK([agent[a] EXCEPT !.pc = label])
  PROVE  AgentMoves(a) /\ agent'[a] = [agent[a] EXCEPT !.pc = label]
<1>1. [agent[a] EXCEPT !.pc = label] \in Locals
  BY DEF TypeOK, Locals
<1> QED BY <1>1, BecomesMoves DEF Goto

\* A call that ends leaves its session, which still names a request.
LEMMA EndsMoves ==
  ASSUME TypeOK, NEW a \in Agents, NEW status \in Sessions, Ends(a, status),
         status # "none" => agent[a].request \in Requests
  PROVE  /\ AgentMoves(a)
         /\ agent'[a].pc = "idle"
         /\ agent'[a].session = status
         /\ status # "none" => agent'[a].request = agent[a].request
<1> DEFINE x == [Idle EXCEPT
      !.session = status,
      !.request = IF status = "none" THEN NoName ELSE agent[a].request]
<1>1. x \in Locals
  BY DEF Idle, Locals, Labels, Purposes, Sessions
<1>2. NamesOK(x)
  BY <1>1 DEF NamesOK, Deciding, Getting, Idle
<1>3. AgentMoves(a) /\ agent'[a] = x
  BY <1>1, <1>2, BecomesMoves DEF Ends
<1> QED BY <1>3 DEF Idle

-----------------------------------------------------------------------------
(* What is left for each action to show.                                    *)

NoNewSighting ==
  \A r \in Requests, d \in Decisions :
    Sighted(r, d)' => Sighted(r, d) \/ Decided(r) = {d}

Histories ==
  /\ given' \subseteq Requests \X Decisions
  /\ active' \subseteq Requests \X Decisions
  /\ crashes' \in 0..MaxCrashes
  /\ GivenWhole'
  /\ ActiveIsAccepted'

Safe(a) ==
  /\ AgentMoves(a)
  /\ StoresMove
  /\ FilesOK(agent[a])'
  /\ DecidedBacked'
  /\ NoNewSighting
  /\ Histories

\* Stores that a step leaves alone have grown, trivially.
LEMMA SameStores ==
  ASSUME TypeOK, UNCHANGED stores, given \subseteq given'
  PROVE  StoresMove
  BY DEF TypeOK, StoresMove, Grows, Keeps, stores

\* An agent that is not left reading adds nothing to what has been sighted.
LEMMA NotReading ==
  ASSUME Inv, NEW a \in Agents, AgentMoves(a), agent'[a].pc # "read",
         given' = given \/ (agent[a].pc = "read" /\
                            given' = given \cup {<<agent[a].request, agent[a].seen>>})
  PROVE  NoNewSighting
  BY DEF NoNewSighting, Sighted, AgentMoves

LEMMA SameHistory ==
  ASSUME Inv, StoresMove, UNCHANGED <<given, active>>, crashes' \in 0..MaxCrashes
  PROVE  Histories
<1>1. GivenWhole'
  BY DEF Inv, GivenWhole, StoresMove, Grows, Keeps
<1>2. ASSUME NEW x \in active
      PROVE  /\ x[2] \in Accepting
             /\ decisions'[x[1]][x[2]] = "whole"
             /\ requests'[x[1]] = "whole"
  <2>1. x[1] \in Requests /\ x[2] \in Decisions
    BY DEF Inv, TypeOK
  <2> QED BY <2>1 DEF Inv, ActiveIsAccepted, StoresMove, Grows, Keeps
<1> QED BY <1>1, <1>2 DEF Inv, TypeOK, Histories, ActiveIsAccepted

LEMMA SameDecided ==
  ASSUME Inv, StoresMove, UNCHANGED decisions
  PROVE  DecidedBacked'
  BY DEF Inv, DecidedBacked, Decided, StoresMove, Grows, Keeps

\* A call that ends while the stores grow is safe when the session it leaves is.
LEMMA EndsSafely ==
  ASSUME Inv, NEW a \in Agents, NEW status \in Sessions, Ends(a, status), StoresMove,
         status # "none" => agent[a].request \in Requests /\ requests'[agent[a].request] = "whole",
         status = "accepted" =>
           \E d \in Accepting : decisions'[agent[a].request][d] = "whole"
  PROVE  AgentMoves(a) /\ FilesOK(agent[a])' /\ agent'[a].pc = "idle"
<1>1. /\ AgentMoves(a)
      /\ agent'[a].pc = "idle"
      /\ agent'[a].session = status
      /\ status # "none" => agent'[a].request = agent[a].request
  BY EndsMoves DEF Inv
<1> QED BY <1>1 DEF FilesOK, Deciding, Getting

\* A call that raises keeps the session it had.
LEMMA RaisesSafely ==
  ASSUME Inv, NEW a \in Agents, Raises(a), StoresMove
  PROVE  AgentMoves(a) /\ FilesOK(agent[a])' /\ agent'[a].pc = "idle"
<1> DEFINE status == agent[a].session
<1>1. status \in Sessions /\ Ends(a, status)
  BY DEF Inv, TypeOK, Locals, Raises
<1>2. status # "none" =>
        agent[a].request \in Requests /\ requests'[agent[a].request] = "whole"
  BY DEF Inv, AgentOK, NamesOK, FilesOK, StoresMove, Grows, Keeps
<1>3. status = "accepted" =>
        \E d \in Accepting : decisions'[agent[a].request][d] = "whole"
  <2>1. SUFFICES ASSUME status = "accepted"
                 PROVE  \E d \in Accepting : decisions'[agent[a].request][d] = "whole"
    OBVIOUS
  <2>2. PICK d \in Accepting : decisions[agent[a].request][d] = "whole"
    BY <2>1 DEF Inv, AgentOK, FilesOK
  <2>3. d \in Decisions /\ agent[a].request \in Requests
    BY <2>1, <1>2, NamesAssumption
  <2> QED BY <2>2, <2>3 DEF StoresMove, Grows, Keeps
<1> QED BY <1>1, <1>2, <1>3, EndsSafely

-----------------------------------------------------------------------------
(* The actions, one lemma for each group.                                   *)

\* A step that changes neither files nor histories only has to leave the agent
\* in order, and not reading.
LEMMA QuietSafe ==
  ASSUME Inv, NEW a \in Agents, UNCHANGED <<stores, history>>, AgentMoves(a),
         FilesOK(agent[a])', agent'[a].pc # "read"
  PROVE  Safe(a)
<1>1. StoresMove
  BY SameStores DEF Inv, history
<1>2. Histories
  BY <1>1, SameHistory DEF Inv, TypeOK, history
<1>3. DecidedBacked'
  BY <1>1, SameDecided DEF stores
<1>4. NoNewSighting
  BY NotReading DEF history
<1> QED BY <1>1, <1>2, <1>3, <1>4 DEF Safe

LEMMA QuietRaise ==
  ASSUME Inv, NEW a \in Agents, UNCHANGED <<stores, history>>, Raises(a)
  PROVE  Safe(a)
<1>1. StoresMove
  BY SameStores DEF Inv, history
<1> QED BY <1>1, RaisesSafely, QuietSafe

LEMMA QuietBecomes ==
  ASSUME Inv, NEW a \in Agents, UNCHANGED <<stores, history>>,
         NEW x \in Locals, NamesOK(x), FilesOK(x), x.pc # "read", Becomes(a, x)
  PROVE  Safe(a)
<1>1. AgentMoves(a) /\ agent'[a] = x
  BY BecomesMoves DEF Inv
<1>2. FilesOK(agent[a])'
  BY <1>1 DEF FilesOK, Deciding, Getting, stores, history
<1> QED BY <1>1, <1>2, QuietSafe

\* A step that writes a file that is not a decision.
LEMMA RecordSafe ==
  ASSUME Inv, NEW a \in Agents, UNCHANGED <<decisions, history>>, StoresMove,
         AgentMoves(a), FilesOK(agent[a])', agent'[a].pc # "read"
  PROVE  Safe(a)
<1>1. Histories
  BY SameHistory DEF Inv, TypeOK, history
<1>2. DecidedBacked'
  BY SameDecided
<1>3. NoNewSighting
  BY NotReading DEF history
<1> QED BY <1>1, <1>2, <1>3 DEF Safe

LEMMA JoinSafe ==
  ASSUME Inv, NEW a \in Agents, Join(a)
  PROVE  Safe(a)
<1> DEFINE x == agent[a]
<1>0. x \in Locals /\ NamesOK(x) /\ FilesOK(x)
  BY DEF Inv, TypeOK, AgentOK
<1>1. ASSUME NEW h \in Handshakes, BeginSession(a, h) PROVE Safe(a)
  <2> DEFINE y(label) == [Idle EXCEPT !.pc = label, !.handshake = h]
  <2>1. ASSUME NEW label \in {"write-handshake", "read-handshake"}
        PROVE  /\ y(label) \in Locals /\ NamesOK(y(label)) /\ y(label).pc = label
               /\ y(label).session = "none"
    BY DEF Locals, Labels, Purposes, Sessions, Idle, NamesOK, Deciding, Getting
  <2>2. \E label \in {"write-handshake", "read-handshake"} : Becomes(a, y(label))
    BY <1>1 DEF BeginSession
  <2>3. PICK label \in {"write-handshake", "read-handshake"} : Becomes(a, y(label))
    BY <2>2
  <2>4. AgentMoves(a) /\ agent'[a] = y(label)
    BY <2>1, <2>3, BecomesMoves DEF Inv
  <2>5. StoresMove
    BY <1>1 DEF BeginSession, Inv, TypeOK, StoresMove, Grows, Keeps, history, FileStates
  <2>6. FilesOK(agent[a])'
    BY <2>1, <2>4 DEF FilesOK, Deciding, Getting
  <2> QED BY <1>1, <2>1, <2>4, <2>5, <2>6, RecordSafe DEF BeginSession
<1>2. CASE WriteHandshake(a)
  <2>1. AgentMoves(a) /\ agent'[a] = [x EXCEPT !.pc = "select"]
    BY <1>2, <1>0, GotoMoves DEF WriteHandshake, Inv, Labels, Locals, NamesOK, Deciding, Getting
  <2>2. StoresMove
    BY <1>2 DEF WriteHandshake, Inv, TypeOK, StoresMove, Grows, Keeps, history, FileStates
  <2>3. FilesOK(agent[a])' /\ agent'[a].pc # "read"
    BY <1>2, <1>0, <2>1 DEF WriteHandshake, FilesOK, NamesOK, Deciding, Getting, Locals
  <2> QED BY <1>2, <2>1, <2>2, <2>3, RecordSafe DEF WriteHandshake
<1>3. CASE ReadHandshake(a)
  <2>1. CASE Goto(a, "select") /\ x.pc = "read-handshake"
    <3> DEFINE y == [x EXCEPT !.pc = "select"]
    <3>1. y \in Locals /\ NamesOK(y) /\ FilesOK(y) /\ y.pc # "read"
      BY <1>0, <2>1 DEF Locals, Labels, NamesOK, FilesOK, Deciding, Getting
    <3> HIDE DEF y
    <3> QED BY <1>3, <2>1, <3>1, QuietBecomes DEF ReadHandshake, Goto, y
  <2> QED BY <1>3, <2>1, QuietRaise DEF ReadHandshake
<1>4. ASSUME NEW r \in Requests, OpenRequest(a, r) PROVE Safe(a)
  <2> DEFINE y(label) == [x EXCEPT !.pc = label, !.request = r]
  <2>1. ASSUME NEW label \in {"write-request", "read-request"}
        PROVE  /\ y(label) \in Locals /\ NamesOK(y(label)) /\ y(label).pc = label
               /\ y(label).session = "none"
    BY <1>0, <1>4 DEF OpenRequest, Locals, Labels, NamesOK, Deciding, Getting
  <2>2. \E label \in {"write-request", "read-request"} : Becomes(a, y(label))
    BY <1>4 DEF OpenRequest
  <2>3. PICK label \in {"write-request", "read-request"} : Becomes(a, y(label))
    BY <2>2
  <2>4. AgentMoves(a) /\ agent'[a] = y(label)
    BY <2>1, <2>3, BecomesMoves DEF Inv
  <2>5. StoresMove
    BY <1>4 DEF OpenRequest, Inv, TypeOK, StoresMove, Grows, Keeps, history, FileStates
  <2>6. FilesOK(agent[a])'
    BY <2>1, <2>4 DEF FilesOK, Deciding, Getting
  <2> QED BY <1>4, <2>1, <2>4, <2>5, <2>6, RecordSafe DEF OpenRequest
<1>5. CASE RefuseRequest(a)
  BY <1>5, QuietRaise DEF RefuseRequest
<1>6. CASE WriteRequest(a)
  <2>1. x.request \in Requests
    BY <1>0, <1>6 DEF WriteRequest, NamesOK
  <2>2. StoresMove /\ requests'[x.request] = "whole"
    BY <1>6, <2>1 DEF WriteRequest, Inv, TypeOK, StoresMove, Grows, Keeps, history, FileStates
  <2>3. AgentMoves(a) /\ FilesOK(agent[a])' /\ agent'[a].pc = "idle"
    BY <1>6, <2>1, <2>2, EndsSafely DEF WriteRequest, Sessions
  <2> QED BY <1>6, <2>2, <2>3, RecordSafe DEF WriteRequest
<1>7. CASE ReadRequest(a)
  <2>1. CASE Ends(a, "awaiting-runtime-acceptance") /\ requests[x.request] = "whole"
    <3>1. x.request \in Requests
      BY <1>0, <1>7 DEF ReadRequest, NamesOK
    <3>2. StoresMove
      BY <1>7, SameStores DEF ReadRequest, Inv, history
    <3>3. AgentMoves(a) /\ FilesOK(agent[a])' /\ agent'[a].pc = "idle"
      BY <1>7, <2>1, <3>1, <3>2, EndsSafely DEF ReadRequest, Sessions, stores
    <3> QED BY <1>7, <3>3, QuietSafe DEF ReadRequest
  <2> QED BY <1>7, <2>1, QuietRaise DEF ReadRequest
<1> QED BY <1>1, <1>2, <1>3, <1>4, <1>5, <1>6, <1>7 DEF Join

\* What a get that finds its file whole tells the caller: a decision sighted
\* before, so the history of reads gains nothing that was not sighted.
LEMMA GetsFacts ==
  ASSUME Inv, NEW a \in Agents, NEW purpose \in Purposes, Gets(a, purpose), UNCHANGED stores
  PROVE  /\ agent[a].request \in Requests /\ agent[a].seen \in Decisions
         /\ requests[agent[a].request] = "whole"
         /\ decisions[agent[a].request][agent[a].seen] = "whole"
         /\ Sighted(agent[a].request, agent[a].seen)
         /\ StoresMove
         /\ given' \subseteq Requests \X Decisions
         /\ GivenWhole'
<1>1. agent[a] \in Locals /\ NamesOK(agent[a]) /\ FilesOK(agent[a]) /\ agent[a].pc = "read"
  BY DEF Inv, TypeOK, AgentOK, Gets
<1>2. /\ agent[a].request \in Requests /\ agent[a].seen \in Decisions
      /\ requests[agent[a].request] = "whole"
      /\ decisions[agent[a].request][agent[a].seen] = "whole"
  BY <1>1 DEF NamesOK, FilesOK, Getting, Gets
<1>3. Sighted(agent[a].request, agent[a].seen)
  BY <1>1 DEF Sighted
<1>4. StoresMove
  BY SameStores DEF Inv, Gets
<1>5. given' \subseteq Requests \X Decisions
  BY <1>2 DEF Inv, TypeOK, Gets
<1>6. GivenWhole'
  BY <1>2 DEF Inv, GivenWhole, Gets, stores
<1> QED BY <1>2, <1>3, <1>4, <1>5, <1>6

\* A get leaves its agent in order; the contexts it makes active are accepted.
LEMMA GetsSafe ==
  ASSUME Inv, NEW a \in Agents, NEW purpose \in Purposes, Gets(a, purpose), UNCHANGED stores,
         AgentMoves(a), FilesOK(agent[a])', agent'[a].pc # "read", UNCHANGED crashes,
         NEW d \in Accepting,
         active' = active \/
           (active' = active \cup {<<agent[a].request, d>>}
              /\ decisions[agent[a].request][d] = "whole")
  PROVE  Safe(a)
<1>1. /\ agent[a].request \in Requests /\ requests[agent[a].request] = "whole"
      /\ StoresMove /\ GivenWhole' /\ given' \subseteq Requests \X Decisions
  BY GetsFacts
<1>2. d \in Decisions
  BY NamesAssumption
<1>3. ActiveIsAccepted' /\ active' \subseteq Requests \X Decisions
  BY <1>1, <1>2 DEF Inv, TypeOK, ActiveIsAccepted, stores
<1>4. DecidedBacked'
  BY <1>1, SameDecided DEF stores
<1>5. NoNewSighting
  BY NotReading DEF Gets
<1>6. Histories
  BY <1>1, <1>3 DEF Histories, Inv, TypeOK
<1> QED BY <1>1, <1>4, <1>5, <1>6 DEF Safe

\* The same for a get after which no context is active.
LEMMA GetsOnly ==
  ASSUME Inv, NEW a \in Agents, NEW purpose \in Purposes, Gets(a, purpose),
         UNCHANGED <<stores, active, crashes>>,
         AgentMoves(a), FilesOK(agent[a])', agent'[a].pc # "read"
  PROVE  Safe(a)
<1>1. /\ StoresMove /\ GivenWhole' /\ given' \subseteq Requests \X Decisions
  BY GetsFacts
<1>2. ActiveIsAccepted'
  BY DEF Inv, ActiveIsAccepted, stores
<1>3. DecidedBacked'
  BY <1>1, SameDecided DEF stores
<1>4. NoNewSighting
  BY NotReading DEF Gets
<1>5. Histories
  BY <1>1, <1>2 DEF Histories, Inv, TypeOK
<1> QED BY <1>1, <1>3, <1>4, <1>5 DEF Safe

\* record answers the status of a decision that is whole.
LEMMA AnswersSafely ==
  ASSUME Inv, NEW a \in Agents, Answers(a), StoresMove,
         agent[a].request \in Requests, agent[a].decision \in Decisions,
         requests'[agent[a].request] = "whole",
         decisions'[agent[a].request][agent[a].decision] = "whole"
  PROVE  AgentMoves(a) /\ FilesOK(agent[a])' /\ agent'[a].pc = "idle"
<1> DEFINE status == IF agent[a].session = "none" THEN "none" ELSE Status(agent[a].decision)
<1>1. status \in Sessions /\ Ends(a, status)
  BY DEF Sessions, Status, Answers
<1>2. status = "accepted" => \E d \in Accepting : decisions'[agent[a].request][d] = "whole"
  BY DEF Status
<1> QED BY <1>1, <1>2, EndsSafely

LEMMA DecideSafe ==
  ASSUME Inv, NEW a \in Agents, Decide(a)
  PROVE  Safe(a)
<1> DEFINE x == agent[a]
<1>0. x \in Locals /\ NamesOK(x) /\ FilesOK(x)
  BY DEF Inv, TypeOK, AgentOK
<1>1. ASSUME NEW r \in Requests, NEW d \in Decisions, Respond(a, r, d) PROVE Safe(a)
  <2> DEFINE y == [x EXCEPT !.pc = "list", !.request = r, !.decision = d]
  <2>1. y \in Locals /\ NamesOK(y) /\ y.pc # "read"
    BY <1>0 DEF Locals, Labels, NamesOK, Deciding, Getting
  <2>2. FilesOK(y)
    BY <1>0, <1>1 DEF Respond, MayUse, FilesOK, Deciding, Getting, Locals
  <2>3. Becomes(a, y)
    BY <1>1 DEF Respond
  <2> HIDE DEF y
  <2> QED BY <1>1, <2>1, <2>2, <2>3, QuietBecomes DEF Respond
<1>2. CASE ListDecisions(a)
  <2>1. CASE Goto(a, "open")
    <3> DEFINE y == [x EXCEPT !.pc = "open"]
    <3>1. y \in Locals /\ NamesOK(y) /\ FilesOK(y) /\ y.pc # "read" /\ Becomes(a, y)
      BY <1>0, <1>2, <2>1 DEF ListDecisions, Goto, Locals, Labels, NamesOK, FilesOK, Deciding, Getting
    <3> HIDE DEF y
    <3> QED BY <1>2, <3>1, QuietBecomes DEF ListDecisions
  <2>2. CASE Becomes(a, [x EXCEPT !.pc = "glob", !.purpose = "compare"])
    <3> DEFINE y == [x EXCEPT !.pc = "glob", !.purpose = "compare"]
    <3>1. y \in Locals /\ NamesOK(y) /\ FilesOK(y) /\ y.pc # "read" /\ Becomes(a, y)
      BY <1>0, <1>2, <2>2 DEF ListDecisions, Locals, Labels, Purposes, NamesOK, FilesOK, Deciding, Getting
    <3> HIDE DEF y
    <3> QED BY <1>2, <3>1, QuietBecomes DEF ListDecisions
  <2> QED BY <1>2, <2>1, <2>2 DEF ListDecisions
<1>3. CASE OpenDecision(a)
  <2> DEFINE r == x.request  d == x.decision
  <2>0. /\ x.pc = "open" /\ r \in Requests /\ d \in Decisions /\ requests[r] = "whole"
        /\ UNCHANGED <<handshakes, requests, history>>
    BY <1>0, <1>3 DEF OpenDecision, NamesOK, FilesOK, Deciding
  <2>1. CASE decisions[r][d] = "none" /\ Goto(a, "write")
             /\ decisions' = [decisions EXCEPT ![r][d] = "empty"]
    <3>1. AgentMoves(a) /\ agent'[a] = [x EXCEPT !.pc = "write"]
      BY <1>0, <2>0, <2>1, GotoMoves DEF Inv, Labels, Locals, NamesOK, Deciding, Getting
    <3>2. StoresMove /\ decisions'[r][d] = "empty"
      BY <2>0, <2>1 DEF Inv, TypeOK, StoresMove, Grows, Keeps, history, FileStates
    <3>3. FilesOK(agent[a])' /\ agent'[a].pc # "read"
      <4>1. /\ agent'[a].pc = "write" /\ agent'[a].request = r /\ agent'[a].decision = d
            /\ agent'[a].session = x.session
        BY <1>0, <3>1 DEF Locals
      <4>2. x.session = "accepted" => \E e \in Accepting : decisions'[r][e] = "whole"
        BY <1>0, <2>0, <3>2, NamesAssumption DEF FilesOK, StoresMove, Grows, Keeps
      <4> QED BY <2>0, <3>2, <4>1, <4>2 DEF FilesOK, Deciding, Getting
    <3>4. DecidedBacked'
      <4>1. ASSUME NEW q \in Requests, Decided(q)' # {} PROVE requests[q] = "whole"
        <5>1. CASE q = r
          BY <5>1, <2>0
        <5>2. CASE q # r
          <6>1. decisions'[q] = decisions[q]
            BY <5>2, <2>1 DEF Inv, TypeOK
          <6> QED BY <4>1, <6>1 DEF Decided, Inv, DecidedBacked
        <5> QED BY <5>1, <5>2
      <4> QED BY <4>1, <2>0 DEF DecidedBacked
    <3>5. Histories
      BY <2>0, <3>2, SameHistory DEF Inv, TypeOK, history
    <3>6. NoNewSighting
      BY <2>0, <3>1, <3>3, NotReading DEF history
    <3> QED BY <3>1, <3>2, <3>3, <3>4, <3>5, <3>6 DEF Safe
  <2>2. CASE Becomes(a, [x EXCEPT !.pc = "glob", !.purpose = "compare"]) /\ UNCHANGED decisions
    <3> DEFINE y == [x EXCEPT !.pc = "glob", !.purpose = "compare"]
    <3>1. y \in Locals /\ NamesOK(y) /\ FilesOK(y) /\ y.pc # "read" /\ Becomes(a, y)
      BY <1>0, <2>0, <2>2 DEF Locals, Labels, Purposes, NamesOK, FilesOK, Deciding, Getting
    <3> HIDE DEF y
    <3> QED BY <2>0, <2>2, <3>1, QuietBecomes DEF stores
  <2> QED BY <1>3, <2>1, <2>2 DEF OpenDecision
<1>4. CASE WriteDecision(a)
  <2> DEFINE r == x.request  d == x.decision
  <2>1. /\ x.pc = "write" /\ r \in Requests /\ d \in Decisions /\ requests[r] = "whole"
        /\ decisions[r][d] # "none" /\ UNCHANGED <<handshakes, requests, history>>
        /\ decisions' = [decisions EXCEPT ![r][d] = "whole"] /\ Answers(a)
    BY <1>0, <1>4 DEF WriteDecision, NamesOK, FilesOK, Deciding
  <2>2. StoresMove /\ decisions'[r][d] = "whole"
    BY <2>1 DEF Inv, TypeOK, StoresMove, Grows, Keeps, history, FileStates
  <2>3. AgentMoves(a) /\ FilesOK(agent[a])' /\ agent'[a].pc = "idle"
    BY <2>1, <2>2, AnswersSafely
  <2>4. \A q \in Requests : Decided(q)' = Decided(q)
    BY <2>1 DEF Inv, TypeOK, Decided
  <2>5. DecidedBacked'
    BY <2>1, <2>4 DEF Inv, DecidedBacked
  <2>6. Histories
    BY <2>1, <2>2, SameHistory DEF Inv, TypeOK, history
  <2>7. NoNewSighting
    BY <2>1, <2>3, NotReading DEF history
  <2> QED BY <2>2, <2>3, <2>5, <2>6, <2>7 DEF Safe
<1>5. CASE ReadToCompare(a)
  <2>1. /\ Gets(a, "compare") /\ UNCHANGED <<stores, active, crashes>> /\ "compare" \in Purposes
    BY <1>5 DEF ReadToCompare, Purposes
  <2>2. /\ x.request \in Requests /\ x.seen \in Decisions /\ requests[x.request] = "whole"
        /\ decisions[x.request][x.seen] = "whole" /\ StoresMove
    BY <2>1, GetsFacts
  <2>3. CASE x.seen = x.decision /\ Answers(a)
    <3>1. AgentMoves(a) /\ FilesOK(agent[a])' /\ agent'[a].pc = "idle"
      BY <2>1, <2>2, <2>3, AnswersSafely DEF stores
    <3> QED BY <2>1, <3>1, GetsOnly
  <2>4. CASE Raises(a)
    BY <2>1, <2>2, <2>4, RaisesSafely, GetsOnly
  <2> QED BY <1>5, <2>3, <2>4 DEF ReadToCompare
<1> QED BY <1>1, <1>2, <1>3, <1>4, <1>5 DEF Decide

\* A listing that finds one path sights the decision at it, the only one that
\* can have been sighted before.
LEMMA GlobSafe ==
  ASSUME Inv, NEW a \in Agents, Glob(a)
  PROVE  Safe(a)
<1> DEFINE x == agent[a]
<1>0. x \in Locals /\ NamesOK(x) /\ FilesOK(x) /\ x.pc = "glob"
      /\ UNCHANGED <<stores, history>>
  BY DEF Inv, TypeOK, AgentOK, Glob
<1>1. ASSUME NEW d \in Decisions, Decided(x.request) = {d},
             Becomes(a, [x EXCEPT !.pc = "read", !.seen = d])
      PROVE  Safe(a)
  <2> DEFINE y == [x EXCEPT !.pc = "read", !.seen = d]
  <2>1. /\ y \in Locals /\ NamesOK(y) /\ y.pc = "read" /\ y.seen = d
        /\ y.request = x.request /\ y.session = x.session /\ y.purpose = x.purpose
        /\ y.decision = x.decision /\ x.request \in Requests
    BY <1>0 DEF Locals, Labels, NamesOK, Deciding, Getting
  <2>2. decisions[x.request][d] # "none"
    BY <1>1 DEF Decided
  <2>3. x.session = "accepted" => d \in Accepting
    BY <1>0, <1>1, NamesAssumption DEF FilesOK, Decided
  <2>4. FilesOK(y)
    BY <1>0, <2>1, <2>2, <2>3 DEF FilesOK, NamesOK, Deciding, Getting
  <2>5. AgentMoves(a) /\ agent'[a] = y
    BY <1>1, <2>1, BecomesMoves DEF Inv
  <2> HIDE DEF y
  <2>6. StoresMove
    BY <1>0, SameStores DEF Inv, history
  <2>7. FilesOK(agent[a])'
    BY <1>0, <2>4, <2>5 DEF FilesOK, Deciding, Getting, stores, history
  <2>8. NoNewSighting
    BY <1>0, <1>1, <2>1, <2>5 DEF NoNewSighting, Sighted, AgentMoves, history
  <2>9. Histories /\ DecidedBacked'
    BY <1>0, <2>6, SameHistory, SameDecided DEF Inv, TypeOK, history, stores
  <2> QED BY <2>5, <2>6, <2>7, <2>8, <2>9 DEF Safe
<1>2. CASE Raises(a)
  BY <1>0, <1>2, QuietRaise
<1> QED BY <1>1, <1>2 DEF Glob

LEMMA UseContextSafe ==
  ASSUME Inv, NEW a \in Agents, UseContext(a)
  PROVE  Safe(a)
<1> DEFINE x == agent[a]
<1>0. x \in Locals /\ NamesOK(x) /\ FilesOK(x)
  BY DEF Inv, TypeOK, AgentOK
<1>1. CASE WorkingContext(a)
  <2> DEFINE y == [x EXCEPT !.pc = "glob", !.purpose = "session"]
  <2>1. y \in Locals /\ NamesOK(y) /\ FilesOK(y) /\ y.pc # "read" /\ Becomes(a, y)
    BY <1>0, <1>1 DEF WorkingContext, Locals, Labels, Purposes, NamesOK, FilesOK, Deciding, Getting
  <2> HIDE DEF y
  <2> QED BY <1>1, <2>1, QuietBecomes DEF WorkingContext
<1>2. CASE ReadForSession(a)
  <2>1. Gets(a, "session") /\ UNCHANGED <<stores, crashes>> /\ Raises(a)
        /\ active' = active \cup {<<x.request, x.seen>>} /\ "session" \in Purposes
    BY <1>2 DEF ReadForSession, Purposes
  <2>2. x.seen \in Accepting
    BY <1>0, <2>1 DEF FilesOK, Gets
  <2>3. decisions[x.request][x.seen] = "whole" /\ StoresMove
    BY <2>1, GetsFacts
  <2>4. AgentMoves(a) /\ FilesOK(agent[a])' /\ agent'[a].pc = "idle"
    BY <2>1, <2>3, RaisesSafely
  <2> QED BY <2>1, <2>2, <2>3, <2>4, GetsSafe
<1>3. ASSUME NEW r \in Requests, AgentContext(a, r) PROVE Safe(a)
  <2> DEFINE y == [x EXCEPT !.pc = "glob", !.purpose = "shown", !.request = r]
  <2>1. y \in Locals /\ NamesOK(y) /\ FilesOK(y) /\ y.pc # "read" /\ Becomes(a, y)
    BY <1>0, <1>3 DEF AgentContext, Locals, Labels, Purposes, NamesOK, FilesOK, Deciding, Getting
  <2> HIDE DEF y
  <2> QED BY <1>3, <2>1, QuietBecomes DEF AgentContext
<1>4. CASE ReadShown(a)
  <2> DEFINE y == [x EXCEPT !.pc = "glob", !.purpose = "effective", !.decision = x.seen]
  <2>1. Gets(a, "shown") /\ UNCHANGED <<stores, active, crashes>> /\ Becomes(a, y)
        /\ "shown" \in Purposes
    BY <1>4 DEF ReadShown, Purposes
  <2>2. /\ x.request \in Requests /\ x.seen \in Decisions /\ requests[x.request] = "whole"
        /\ given' = given \cup {<<x.request, x.seen>>}
    BY <2>1, GetsFacts DEF Gets
  <2>3. /\ y \in Locals /\ NamesOK(y) /\ y.pc = "glob" /\ y.purpose = "effective"
        /\ y.request = x.request /\ y.decision = x.seen /\ y.session = x.session
    BY <1>0, <2>2 DEF Locals, Labels, Purposes, NamesOK, Deciding, Getting
  <2>4. AgentMoves(a) /\ agent'[a] = y
    BY <2>1, <2>3, BecomesMoves DEF Inv
  <2> HIDE DEF y
  <2>5. FilesOK(agent[a])'
    BY <1>0, <2>1, <2>2, <2>3, <2>4 DEF FilesOK, Deciding, Getting, stores
  <2> QED BY <2>1, <2>3, <2>4, <2>5, GetsOnly
<1>5. CASE ReadEffective(a)
  <2>1. Gets(a, "effective") /\ UNCHANGED <<stores, crashes>> /\ Raises(a)
        /\ "effective" \in Purposes
    BY <1>5 DEF ReadEffective, Purposes
  <2>2. /\ x.request \in Requests /\ x.seen \in Decisions /\ StoresMove
        /\ decisions[x.request][x.seen] = "whole" /\ Sighted(x.request, x.seen)
    BY <2>1, GetsFacts
  <2>3. x.decision \in Decisions /\ Sighted(x.request, x.decision)
    BY <1>0, <2>1 DEF NamesOK, FilesOK, Getting, Sighted, Gets
  <2>4. x.decision = x.seen
    BY <2>2, <2>3 DEF Inv, SightingsAgree
  <2>5. AgentMoves(a) /\ FilesOK(agent[a])' /\ agent'[a].pc = "idle"
    BY <2>1, <2>2, RaisesSafely
  <2>6. CASE x.seen \in Accepting /\ active' = active \cup {<<x.request, x.decision>>}
    BY <2>1, <2>2, <2>4, <2>5, <2>6, GetsSafe
  <2>7. CASE UNCHANGED active
    BY <2>1, <2>5, <2>7, GetsOnly
  <2> QED BY <1>5, <2>6, <2>7 DEF ReadEffective
<1> QED BY <1>1, <1>2, <1>3, <1>4, <1>5 DEF UseContext

LEMMA OtherwiseSafe ==
  ASSUME Inv, NEW a \in Agents, ReadEmpty(a) \/ Leave(a) \/ Crash(a)
  PROVE  Safe(a)
<1>1. CASE ReadEmpty(a)
  BY <1>1, QuietRaise DEF ReadEmpty
<1>2. Idle \in Locals /\ NamesOK(Idle) /\ FilesOK(Idle) /\ Idle.pc # "read"
  BY DEF Idle, Locals, Labels, Purposes, Sessions, NamesOK, FilesOK, Deciding, Getting
<1>3. CASE Leave(a)
  BY <1>2, <1>3, QuietBecomes DEF Leave
<1>4. CASE Crash(a)
  <2>1. /\ UNCHANGED <<stores, given, active>> /\ Becomes(a, Idle)
        /\ crashes' \in 0..MaxCrashes
    BY <1>4, MaxCrashesAssumption DEF Crash, Inv, TypeOK
  <2>2. AgentMoves(a) /\ agent'[a] = Idle
    BY <1>2, <2>1, BecomesMoves DEF Inv
  <2>3. FilesOK(agent[a])'
    BY <1>2, <2>1, <2>2 DEF FilesOK, Deciding, Getting, stores, Idle
  <2>4. StoresMove
    BY <2>1, SameStores DEF Inv
  <2>5. Histories /\ DecidedBacked'
    BY <2>1, <2>4, SameHistory, SameDecided DEF stores
  <2>6. NoNewSighting
    BY <1>2, <2>1, <2>2, NotReading
  <2> QED BY <2>2, <2>3, <2>4, <2>5, <2>6 DEF Safe
<1> QED BY <1>1, <1>3, <1>4

-----------------------------------------------------------------------------
(* A safe step of one agent keeps the invariant.                            *)

LEMMA SightedDecided ==
  ASSUME Inv, NEW r \in Requests, NEW d \in Decisions, Sighted(r, d)
  PROVE  d \in Decided(r)
  BY DEF Inv, Sighted, GivenWhole, AgentOK, FilesOK, Decided

LEMMA SafeKeepsInv ==
  ASSUME Inv, NEW a \in Agents, Safe(a)
  PROVE  Inv' /\ Grows
<1>1. Grows /\ DecidedBacked' /\ GivenWhole' /\ ActiveIsAccepted'
  BY DEF Safe, StoresMove, Histories
<1>2. ASSUME NEW b \in Agents PROVE AgentOK(b)'
  <2>1. CASE b = a
    BY <2>1 DEF Safe, AgentMoves, AgentOK
  <2>2. CASE b # a
    <3>1. agent'[b] = agent[b] /\ NamesOK(agent[b]) /\ FilesOK(agent[b])
      BY <2>2 DEF Safe, AgentMoves, Inv, AgentOK
    <3>2. FilesOK(agent[b])'
      BY <1>1, <3>1, NamesAssumption
      DEF FilesOK, NamesOK, Deciding, Getting, Grows, Keeps
    <3> QED BY <3>1, <3>2 DEF AgentOK
  <2> QED BY <2>1, <2>2
<1>3. TypeOK'
  BY <1>2 DEF TypeOK, AgentOK, NamesOK, Safe, AgentMoves, StoresMove, Histories
<1>4. SightingsAgree'
  <2>1. SUFFICES ASSUME NEW r \in Requests, NEW d \in Decisions, NEW e \in Decisions,
                        Sighted(r, d)', Sighted(r, e)'
                 PROVE  d = e
    BY DEF SightingsAgree
  <2>2. Sighted(r, d) \/ Decided(r) = {d}
    BY <2>1 DEF Safe, NoNewSighting
  <2>3. Sighted(r, e) \/ Decided(r) = {e}
    BY <2>1 DEF Safe, NoNewSighting
  <2> QED BY <2>2, <2>3, SightedDecided DEF Inv, SightingsAgree
<1> QED BY <1>1, <1>2, <1>3, <1>4 DEF Inv

LEMMA InitInv == Init => Inv
<1> SUFFICES ASSUME Init PROVE Inv
  OBVIOUS
<1>1. Idle \in Locals /\ NamesOK(Idle) /\ FilesOK(Idle) /\ Idle.session = "none"
      /\ Idle.pc = "idle"
  BY DEF Idle, Locals, Labels, Purposes, Sessions, NamesOK, FilesOK, Deciding, Getting
<1>2. \A a \in Agents : agent[a] = Idle
  BY DEF Init
<1>3. TypeOK
  BY <1>1, <1>2, MaxCrashesAssumption DEF Init, TypeOK, FileStates
<1>4. \A a \in Agents : AgentOK(a)
  BY <1>1, <1>2 DEF AgentOK
<1>5. DecidedBacked /\ GivenWhole /\ ActiveIsAccepted
  BY DEF Init, DecidedBacked, Decided, GivenWhole, ActiveIsAccepted
<1>6. SightingsAgree
  BY <1>1, <1>2 DEF Init, SightingsAgree, Sighted
<1> QED BY <1>3, <1>4, <1>5, <1>6 DEF Inv

LEMMA StepInv == Inv /\ [Next]_vars => Inv' /\ Grows
<1> SUFFICES ASSUME Inv, [Next]_vars PROVE Inv' /\ Grows
  OBVIOUS
<1>1. ASSUME NEW a \in Agents,
             \/ Join(a) \/ Decide(a) \/ Glob(a) \/ ReadEmpty(a) \/ UseContext(a)
             \/ Leave(a) \/ Crash(a)
      PROVE  Inv' /\ Grows
  BY <1>1, JoinSafe, DecideSafe, GlobSafe, UseContextSafe, OtherwiseSafe, SafeKeepsInv
<1>2. CASE UNCHANGED vars
  <2>1. UNCHANGED <<handshakes, requests, decisions, agent, given, active, crashes>>
    BY <1>2 DEF vars, stores, history
  <2>2. Grows
    BY <2>1 DEF Grows, Keeps
  <2>3. Inv'
    BY <2>1 DEF Inv, TypeOK, AgentOK, NamesOK, FilesOK, Deciding, Getting, DecidedBacked,
       Decided, GivenWhole, SightingsAgree, Sighted, ActiveIsAccepted
  <2> QED BY <2>2, <2>3
<1> QED BY <1>1, <1>2 DEF Next

THEOREM Invariance == Spec => []Inv
  BY InitInv, StepInv, PTL DEF Spec

-----------------------------------------------------------------------------
(* The results.                                                             *)

\* Type correctness: what an agent holds stays a session and a call in progress
\* of join.py, whatever the other agents and the resolver do.
THEOREM TypeCorrect == Spec => []TypeOK
<1>1. Inv => TypeOK
  BY DEF Inv
<1> QED BY <1>1, Invariance, PTL

\* FileAdoptionDecisionStore.get never returns two different decisions for one
\* request, for any number of racing recorders, readers and crashes.
THEOREM ReadersAgree == Spec => []ReadsAgree
<1>1. Inv => ReadsAgree
  <2> SUFFICES ASSUME Inv, NEW x \in given, NEW y \in given, x[1] = y[1]
               PROVE  x[2] = y[2]
    BY DEF ReadsAgree
  <2>1. /\ x = <<x[1], x[2]>> /\ x[1] \in Requests /\ x[2] \in Decisions
        /\ y = <<y[1], y[2]>> /\ y[2] \in Decisions
    BY DEF Inv, TypeOK
  <2>2. Sighted(x[1], x[2]) /\ Sighted(x[1], y[2])
    BY <2>1 DEF Sighted
  <2> QED BY <2>1, <2>2 DEF Inv, SightingsAgree
<1> QED BY <1>1, Invariance, PTL

\* No session and no context command makes guidance active under a decision
\* that rejects, although working_context trusts the session's own state.
THEOREM OnlyAcceptedIsActive == Spec => []ActiveIsAccepted
<1>1. Inv => ActiveIsAccepted
  BY DEF Inv
<1> QED BY <1>1, Invariance, PTL

\* A session's request and the request of every decision file can be read.
THEOREM RequestsAreBacked == Spec => []RequestsBacked
<1>1. Inv => RequestsBacked
  BY DEF Inv, RequestsBacked, AgentOK, FilesOK, DecidedBacked
<1> QED BY <1>1, Invariance, PTL

\* No file of the three stores disappears or loses its text.
THEOREM StoresAreImmutable == Spec => StoresImmutable
<1>1. Inv /\ [Next]_vars =>
        [/\ \A h \in Handshakes : Keeps(handshakes[h], handshakes'[h])
         /\ \A r \in Requests : Keeps(requests[r], requests'[r])
         /\ \A r \in Requests, d \in Decisions :
              Keeps(decisions[r][d], decisions'[r][d])]_vars
  BY StepInv DEF Grows
<1> QED BY <1>1, Invariance, PTL DEF Spec, StoresImmutable
=============================================================================
