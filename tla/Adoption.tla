------------------------------- MODULE Adoption -------------------------------
(***************************************************************************)
(* Joining and adopting a constitution (join.py over the handshake,        *)
(* request and decision stores of handshake.py and adoption.py).  The      *)
(* three stores are directories of content-addressed files, created with   *)
(* open(.., "x") and then written: between the two calls, and for ever if  *)
(* the process dies there, the file is empty.  No store takes a lock, and  *)
(* agents, sessions and command-line calls share the directories.          *)
(*                                                                         *)
(* The constitution resolver is whatever the caller configured: here it    *)
(* may raise at every use.  A file's text is fixed by its name, so a file  *)
(* is absent, empty or whole.                                              *)
(***************************************************************************)
EXTENDS Naturals, FiniteSets

CONSTANTS
  Agents,       \* threads and processes that use the home
  Handshakes,   \* content addresses of runtime handshakes
  Requests,     \* content addresses of adoption requests
  Decisions,    \* what a decision says: accepted or not, the reason, the second
  Accepting,    \* the decisions that accept
  NoName,       \* no handshake, request or decision
  MaxCrashes    \* bound: crashes in a behaviour

ASSUME NamesAssumption ==
  /\ Accepting \subseteq Decisions
  /\ NoName \notin Handshakes \cup Requests \cup Decisions

ASSUME MaxCrashesAssumption == MaxCrashes \in Nat

VARIABLES
  handshakes,   \* runtime-handshakes/<handshake>.json
  requests,     \* adoption-requests/<request>.json
  decisions,    \* adoption-decisions/<request>/<decision>.json
  agent,        \* what each agent holds: its call in progress and its session
  given,        \* history: <<request, decision>> that a get has returned
  active,       \* history: <<request, decision>> of every active context
  crashes       \* history: crashes so far

stores == <<handshakes, requests, decisions>>
history == <<given, active, crashes>>
vars == <<stores, agent, history>>

-----------------------------------------------------------------------------
FileStates == {"none", "empty", "whole"}
Sessions == {"none", "awaiting-runtime-acceptance", "accepted", "rejected"}
Labels ==
  {"idle", "write-handshake", "read-handshake", "select", "write-request",
   "read-request", "list", "open", "write", "glob", "read"}
Purposes == {"compare", "session", "shown", "effective"}   \* who calls get

Locals ==
  [pc : Labels, purpose : Purposes, session : Sessions,
   handshake : Handshakes \cup {NoName}, request : Requests \cup {NoName},
   decision : Decisions \cup {NoName},    \* being recorded, or to be shown
   seen : Decisions \cup {NoName}]        \* the one path a get has found

Idle ==
  [pc |-> "idle", purpose |-> "compare", session |-> "none",
   handshake |-> NoName, request |-> NoName, decision |-> NoName, seen |-> NoName]

Init ==
  /\ handshakes = [h \in Handshakes |-> "none"]
  /\ requests = [r \in Requests |-> "none"]
  /\ decisions = [r \in Requests |-> [d \in Decisions |-> "none"]]
  /\ agent = [a \in Agents |-> Idle]
  /\ given = {}
  /\ active = {}
  /\ crashes = 0

Decided(r) == {d \in Decisions : decisions[r][d] # "none"}

\* What an agent holds is changed by nobody else.
Becomes(a, locals) == agent' = [agent EXCEPT ![a] = locals]
Goto(a, label) == Becomes(a, [agent[a] EXCEPT !.pc = label])

\* A call that returns or raises leaves the agent with its session, if any.
Ends(a, status) ==
  Becomes(a, [Idle EXCEPT
    !.session = status,
    !.request = IF status = "none" THEN NoName ELSE agent[a].request])

Raises(a) == Ends(a, agent[a].session)

-----------------------------------------------------------------------------
(* AgentJoinSession.begin: record the handshake, choose a constitution,     *)
(* record the request.                                                      *)

BeginSession(a, h) ==
  /\ agent[a].pc = "idle"
  /\ \/ /\ handshakes[h] = "none"
        /\ handshakes' = [handshakes EXCEPT ![h] = "empty"]
        /\ Becomes(a, [Idle EXCEPT !.pc = "write-handshake", !.handshake = h])
     \/ /\ handshakes[h] # "none"
        /\ Becomes(a, [Idle EXCEPT !.pc = "read-handshake", !.handshake = h])
        /\ UNCHANGED handshakes
  /\ UNCHANGED <<requests, decisions, history>>

WriteHandshake(a) ==
  /\ agent[a].pc = "write-handshake"
  /\ handshakes' = [handshakes EXCEPT ![agent[a].handshake] = "whole"]
  /\ Goto(a, "select")
  /\ UNCHANGED <<requests, decisions, history>>

ReadHandshake(a) ==
  /\ agent[a].pc = "read-handshake"
  /\ \/ handshakes[agent[a].handshake] = "whole" /\ Goto(a, "select")
     \/ handshakes[agent[a].handshake] # "whole" /\ Raises(a)
  /\ UNCHANGED <<stores, history>>

\* Any request may be formed: its id covers the manifest and the second.
OpenRequest(a, r) ==
  /\ agent[a].pc = "select"
  /\ \/ /\ requests[r] = "none"
        /\ requests' = [requests EXCEPT ![r] = "empty"]
        /\ Becomes(a, [agent[a] EXCEPT !.pc = "write-request", !.request = r])
     \/ /\ requests[r] # "none"
        /\ Becomes(a, [agent[a] EXCEPT !.pc = "read-request", !.request = r])
        /\ UNCHANGED requests
  /\ UNCHANGED <<handshakes, decisions, history>>

\* Nothing suitable is installed, or the resolver refuses the manifest.
RefuseRequest(a) ==
  /\ agent[a].pc = "select"
  /\ Raises(a)
  /\ UNCHANGED <<stores, history>>

WriteRequest(a) ==
  /\ agent[a].pc = "write-request"
  /\ requests' = [requests EXCEPT ![agent[a].request] = "whole"]
  /\ Ends(a, "awaiting-runtime-acceptance")
  /\ UNCHANGED <<handshakes, decisions, history>>

ReadRequest(a) ==
  /\ agent[a].pc = "read-request"
  /\ \/ /\ requests[agent[a].request] = "whole"
        /\ Ends(a, "awaiting-runtime-acceptance")
     \/ requests[agent[a].request] # "whole" /\ Raises(a)
  /\ UNCHANGED <<stores, history>>

-----------------------------------------------------------------------------
(* respond_to_adoption_request, from a session or from the command line.    *)
(* Sessions are frozen objects: one that has been answered leaves the       *)
(* awaiting one behind it usable.                                           *)

MayUse(a, r) == agent[a].session = "none" \/ agent[a].request = r

\* Seeded fault: the request is not read before it is decided.
RespondUnread(a, r, d) ==
  /\ agent[a].pc = "idle" /\ MayUse(a, r)
  /\ Becomes(a, [agent[a] EXCEPT !.pc = "list", !.request = r, !.decision = d])
  /\ UNCHANGED <<stores, history>>

Respond(a, r, d) ==
  /\ agent[a].pc = "idle" /\ MayUse(a, r)
  /\ requests[r] = "whole"
  /\ Becomes(a, [agent[a] EXCEPT !.pc = "list", !.request = r, !.decision = d])
  /\ UNCHANGED <<stores, history>>

\* FileAdoptionDecisionStore.record looks for decisions of the request and,
\* when there are any, compares the one get returns.
ListDecisions(a) ==
  /\ agent[a].pc = "list"
  /\ \/ Decided(agent[a].request) = {} /\ Goto(a, "open")
     \/ /\ Decided(agent[a].request) # {}
        /\ Becomes(a, [agent[a] EXCEPT !.pc = "glob", !.purpose = "compare"])
  /\ UNCHANGED <<stores, history>>

OpenDecision(a) ==
  LET r == agent[a].request  d == agent[a].decision IN
  /\ agent[a].pc = "open"
  /\ \/ /\ decisions[r][d] = "none"
        /\ decisions' = [decisions EXCEPT ![r][d] = "empty"]
        /\ Goto(a, "write")
     \/ /\ decisions[r][d] # "none"
        /\ Becomes(a, [agent[a] EXCEPT !.pc = "glob", !.purpose = "compare"])
        /\ UNCHANGED decisions
  /\ UNCHANGED <<handshakes, requests, history>>

\* A session takes the status of the decision it asked for.
Status(d) == IF d \in Accepting THEN "accepted" ELSE "rejected"
Answers(a) ==
  Ends(a, IF agent[a].session = "none" THEN "none" ELSE Status(agent[a].decision))

WriteDecision(a) ==
  /\ agent[a].pc = "write"
  /\ decisions' = [decisions EXCEPT ![agent[a].request][agent[a].decision] = "whole"]
  /\ Answers(a)
  /\ UNCHANGED <<handshakes, requests, history>>

-----------------------------------------------------------------------------
(* FileAdoptionDecisionStore.get: list the directory, insist on exactly one *)
(* path, read it.                                                           *)

\* Seeded fault: the first of several paths is good enough.
GlobFirst(a) ==
  /\ agent[a].pc = "glob"
  /\ \/ \E d \in Decided(agent[a].request) :
          Becomes(a, [agent[a] EXCEPT !.pc = "read", !.seen = d])
     \/ Decided(agent[a].request) = {} /\ Raises(a)
  /\ UNCHANGED <<stores, history>>

Glob(a) ==
  /\ agent[a].pc = "glob"
  /\ \/ \E d \in Decisions :
          /\ Decided(agent[a].request) = {d}
          /\ Becomes(a, [agent[a] EXCEPT !.pc = "read", !.seen = d])
     \/ Cardinality(Decided(agent[a].request)) # 1 /\ Raises(a)
  /\ UNCHANGED <<stores, history>>

\* get returns the decision it has found.
Gets(a, purpose) ==
  /\ agent[a].pc = "read" /\ agent[a].purpose = purpose
  /\ decisions[agent[a].request][agent[a].seen] = "whole"
  /\ given' = given \cup {<<agent[a].request, agent[a].seen>>}

\* The file is still, or for ever, empty.
ReadEmpty(a) ==
  /\ agent[a].pc = "read"
  /\ decisions[agent[a].request][agent[a].seen] # "whole"
  /\ Raises(a)
  /\ UNCHANGED <<stores, history>>

\* Seeded fault: a decision that exists is taken for the caller's own.
ReadToCompareTrusts(a) ==
  /\ Gets(a, "compare")
  /\ Answers(a)
  /\ UNCHANGED <<stores, active, crashes>>

\* record: another decision for the request is refused.
ReadToCompare(a) ==
  /\ Gets(a, "compare")
  /\ \/ agent[a].seen = agent[a].decision /\ Answers(a)
     \/ agent[a].seen # agent[a].decision /\ Raises(a)
  /\ UNCHANGED <<stores, active, crashes>>

\* AgentJoinSession.working_context trusts the state of the session: what the
\* decision says is not looked at again.
WorkingContext(a) ==
  /\ agent[a].pc = "idle" /\ agent[a].session = "accepted"
  /\ Becomes(a, [agent[a] EXCEPT !.pc = "glob", !.purpose = "session"])
  /\ UNCHANGED <<stores, history>>

ReadForSession(a) ==
  /\ Gets(a, "session")
  /\ active' = active \cup {<<agent[a].request, agent[a].seen>>}
  /\ Raises(a)
  /\ UNCHANGED <<stores, crashes>>

\* The context command reads the request and a decision, which is the one it
\* shows, and then resolve_adopted_constitution, which reads both again.
AgentContext(a, r) ==
  /\ agent[a].pc = "idle" /\ agent[a].session = "none"
  /\ requests[r] = "whole"
  /\ Becomes(a, [agent[a] EXCEPT !.pc = "glob", !.purpose = "shown", !.request = r])
  /\ UNCHANGED <<stores, history>>

ReadShown(a) ==
  /\ Gets(a, "shown")
  /\ Becomes(a, [agent[a] EXCEPT
       !.pc = "glob", !.purpose = "effective", !.decision = agent[a].seen])
  /\ UNCHANGED <<stores, active, crashes>>

ReadEffective(a) ==
  /\ Gets(a, "effective")
  /\ \/ /\ agent[a].seen \in Accepting
        /\ active' = active \cup {<<agent[a].request, agent[a].decision>>}
     \/ UNCHANGED active       \* a rejection, or the resolver raises
  /\ Raises(a)
  /\ UNCHANGED <<stores, crashes>>

-----------------------------------------------------------------------------
\* The session object is dropped.
Leave(a) ==
  /\ agent[a].pc = "idle" /\ agent[a].session # "none"
  /\ Becomes(a, Idle)
  /\ UNCHANGED <<stores, history>>

\* The process dies in a call; its session dies with it.
Crash(a) ==
  /\ agent[a].pc # "idle"
  /\ crashes < MaxCrashes
  /\ Becomes(a, Idle)
  /\ crashes' = crashes + 1
  /\ UNCHANGED <<stores, given, active>>

Join(a) ==
  \/ \E h \in Handshakes : BeginSession(a, h)
  \/ WriteHandshake(a) \/ ReadHandshake(a)
  \/ \E r \in Requests : OpenRequest(a, r)
  \/ RefuseRequest(a)
  \/ WriteRequest(a) \/ ReadRequest(a)

Decide(a) ==
  \/ \E r \in Requests, d \in Decisions : Respond(a, r, d)
  \/ ListDecisions(a) \/ OpenDecision(a) \/ WriteDecision(a)
  \/ ReadToCompare(a)

UseContext(a) ==
  \/ WorkingContext(a) \/ ReadForSession(a)
  \/ \E r \in Requests : AgentContext(a, r)
  \/ ReadShown(a) \/ ReadEffective(a)

Next ==
  \E a \in Agents :
    \/ Join(a) \/ Decide(a) \/ Glob(a) \/ ReadEmpty(a) \/ UseContext(a)
    \/ Leave(a) \/ Crash(a)

Spec == Init /\ [][Next]_vars

-----------------------------------------------------------------------------
TypeOK ==
  /\ handshakes \in [Handshakes -> FileStates]
  /\ requests \in [Requests -> FileStates]
  /\ decisions \in [Requests -> [Decisions -> FileStates]]
  /\ agent \in [Agents -> Locals]
  /\ \A a \in Agents : agent[a].session # "none" => agent[a].request \in Requests
  /\ given \subseteq Requests \X Decisions
  /\ active \subseteq Requests \X Decisions
  /\ crashes \in 0..MaxCrashes

\* No two readers of a request are ever given different decisions, however the
\* recorders race and wherever a process dies: record may let two decisions be
\* created, but get then refuses for good (adoption.py:315).
ReadsAgree ==
  \A x, y \in given : x[1] = y[1] => x[2] = y[2]

\* Guidance is active only under a decision that accepts and that is on disk
\* with its request.  working_context does not look at what the decision it
\* reads says, and the context command shows one reading and tests another:
\* neither makes a rejected request active.
ActiveIsAccepted ==
  \A x \in active :
    x[2] \in Accepting /\ decisions[x[1]][x[2]] = "whole" /\ requests[x[1]] = "whole"

\* What an agent builds on is readable: its session's request, and the request
\* of every decision file, also when other processes died creating them.
RequestsBacked ==
  /\ \A a \in Agents :
       agent[a].session # "none" => requests[agent[a].request] = "whole"
  /\ \A r \in Requests : Decided(r) # {} => requests[r] = "whole"

\* The three stores are immutable: a file never disappears and never loses its
\* text, whatever later calls ask for.
Keeps(old, new) == (old # "none" => new # "none") /\ (old = "whole" => new = "whole")

StoresImmutable ==
  [][/\ \A h \in Handshakes : Keeps(handshakes[h], handshakes'[h])
     /\ \A r \in Requests : Keeps(requests[r], requests'[r])
     /\ \A r \in Requests, d \in Decisions :
          Keeps(decisions[r][d], decisions'[r][d])]_vars

\* adoption.py:268 "One immutable local runtime decision per adoption request."
OneDecision == \A r \in Requests : Cardinality(Decided(r)) <= 1
=============================================================================
