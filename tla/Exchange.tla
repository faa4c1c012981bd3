------------------------------- MODULE Exchange -------------------------------
(***************************************************************************)
(* How W1 homes come by each other's packets: the list of followed peers   *)
(* (peers.json), pull and replicate over the HTTP server of w1.py, and the *)
(* snapshots of sharing.py.  Any number of processes run commands on the   *)
(* homes; a request thread of a server is one of them.  A process may be   *)
(* killed between two steps.                                               *)
(*                                                                         *)
(* Homes are numbers in the order of their URLs and packets numbers in the *)
(* order of their digests, the orders in which both are visited.  A submit *)
(* is one step here: CommonsHome takes it apart.                           *)
(***************************************************************************)
EXTENDS Naturals, FiniteSets, FiniteSetsExt

CONSTANTS
  Home, Packet,
  Constitution,
  Under,          \* packet -> the constitution it names
  Public,         \* packets of visibility "public"
  Perishable,     \* packets with an expiry time
  Writes,         \* home -> packets its user signs there
  Chosen,         \* home -> constitution it was initialized with
  Installs,       \* home -> constitutions its user installs later
  Follows,        \* home -> homes its user may follow, replicate or drop
  Serves,         \* homes that are served
  Worker,         \* processes
  NoWorker,
  MaxCommands, MaxCrashes      \* bounds on the behaviours explored

ASSUME ExchangeAssumption ==
  /\ Home \subseteq Nat \ {0} /\ Packet \subseteq Nat
  /\ IsFiniteSet(Home) /\ IsFiniteSet(Packet)
  /\ Under \in [Packet -> Constitution]
  /\ Public \subseteq Packet /\ Perishable \subseteq Packet
  /\ Writes \in [Home -> SUBSET Packet]
  /\ Chosen \in [Home -> Constitution]
  /\ Installs \in [Home -> SUBSET Constitution]
  /\ Follows \in [Home -> SUBSET Home]
  /\ Serves \subseteq Home
  /\ NoWorker \notin Worker
  /\ MaxCommands \in Nat /\ MaxCrashes \in Nat

\* An object is known by the home it was signed at: signing a packet again, at
\* another home of its author, gives another receipt.  0 is no object.
Stores == [Packet -> Home \cup {0}]
Bag(S) == {p \in Packet : S[p] # 0}
Nothing == [p \in Packet |-> 0]

Locals == [
  pc : {"idle", "editing", "writing", "pulling", "importing", "checked",
        "bound", "serving", "closed"},
  home : Home \cup {0},
  peer : Home \cup {0},    \* peer of this request, or the port served
  peers : SUBSET Home,     \* list to write, or peers still to be pulled from
  got : Stores,            \* what this command has fetched or loaded
  queue : SUBSET Packet]   \* and has still to submit

Idle == [pc |-> "idle", home |-> 0, peer |-> 0, peers |-> {}, got |-> Nothing, queue |-> {}]

VARIABLES
  store,        \* objects/ of each home
  installed,    \* constitutions/ of each home
  expired,      \* packets whose expiry time has passed
  peers,        \* peers.json of each home: a list, or no JSON
  pid,          \* node.pid of each home
  snapshot,     \* the exported file: packets and constitutions
  local,        \* the state of each process
  commands, crashes,
  wanted,       \* history: peers followed by the commands that completed
  muddled,      \* history: homes whose peer list was edited by two at once
  raced         \* history: homes two servers were started on at once

listFiles == <<peers, wanted, muddled>>
servers == <<pid, raced>>
content == <<store, installed, expired, snapshot>>
vars == <<content, listFiles, servers, local, commands, crashes>>

Init ==
  /\ store = [h \in Home |-> Nothing]
  /\ installed = [h \in Home |-> {Chosen[h]}]
  /\ expired = {}
  /\ peers = [h \in Home |-> [json |-> TRUE, list |-> {}]]
  /\ pid = [h \in Home |-> NoWorker]
  /\ snapshot = [packets |-> Nothing, constitutions |-> {}]
  /\ local = [w \in Worker |-> Idle]
  /\ commands = 0 /\ crashes = 0
  /\ wanted = [h \in Home |-> {}]
  /\ muddled = {} /\ raced = {}

Becomes(w, l) == local' = [local EXCEPT ![w] = l]
Begins(w, l) ==
  /\ local[w].pc = "idle" /\ commands < MaxCommands
  /\ commands' = commands + 1
  /\ Becomes(w, l)
Continues(w, l) == Becomes(w, l) /\ UNCHANGED commands

-----------------------------------------------------------------------------
(* What users do to a single home, and time.                                *)

Admits(h, p) == Under[p] \in installed[h] /\ p \notin expired

\* Seeded fault: a packet replaces the object that was there.
CanStoreAnything(h, p, origin) == TRUE

\* submit raises when the home holds the packet with another receipt.
CanStore(h, p, origin) == store[h][p] \in {0, origin}

Install(h, c) ==
  /\ c \in Installs[h] \ installed[h]
  /\ installed' = [installed EXCEPT ![h] = @ \cup {c}]
  /\ UNCHANGED <<store, expired, snapshot, listFiles, servers, local, commands, crashes>>

Propose(h, p) ==
  /\ p \in Writes[h] /\ store[h][p] = 0 /\ Admits(h, p)
  /\ store' = [store EXCEPT ![h][p] = h]
  /\ UNCHANGED <<installed, expired, snapshot, listFiles, servers, local, commands, crashes>>

Expire(p) ==
  /\ p \in Perishable \ expired
  /\ expired' = expired \cup {p}
  /\ UNCHANGED <<store, installed, snapshot, listFiles, servers, local, commands, crashes>>

-----------------------------------------------------------------------------
(* follow and unfollow: read peers.json, write it back.                     *)

Edits(h) == {w \in Worker : local[w].home = h /\ local[w].pc \in {"editing", "writing"}}

\* Seeded fault: follow starts from an empty list.
ReadPeersNot(h) == {}

ReadPeers(h) == peers[h].list

\* A list that is not JSON ends the command, here and in Pull.
Edit(w, h, g) ==
  /\ g \in Follows[h] /\ peers[h].json
  /\ \E list \in {ReadPeers(h) \cup {g}, ReadPeers(h) \ {g}} :
       Begins(w, [Idle EXCEPT !.pc = "editing", !.home = h, !.peer = g, !.peers = list])
  /\ muddled' = IF Edits(h) # {} THEN muddled \cup {h} ELSE muddled
  /\ UNCHANGED <<content, peers, wanted, servers, crashes>>

\* write_text opens with truncation.
OpenPeers(w) ==
  /\ local[w].pc = "editing"
  /\ peers' = [peers EXCEPT ![local[w].home] = [json |-> FALSE, list |-> {}]]
  /\ Continues(w, [local[w] EXCEPT !.pc = "writing"])
  /\ UNCHANGED <<content, wanted, muddled, servers, crashes>>

\* Over a longer list that was written since the file was opened, the end of
\* that list stays.
WritePeers(w) ==
  LET me == local[w]
      h == me.home
      joins == me.peer \in me.peers
  IN
  /\ me.pc = "writing"
  /\ peers' = [peers EXCEPT ![h] =
       IF @.json /\ Cardinality(@.list) > Cardinality(me.peers)
       THEN [json |-> FALSE, list |-> {}] ELSE [json |-> TRUE, list |-> me.peers]]
  /\ wanted' = [wanted EXCEPT ![h] = IF joins THEN @ \cup {me.peer} ELSE @ \ {me.peer}]
  /\ Continues(w, Idle)
  /\ UNCHANGED <<content, muddled, servers, crashes>>

-----------------------------------------------------------------------------
(* serve: node.pid keeps a home from being served twice.                    *)

Alive(w, h) ==
  w \in Worker /\ local[w].home = h
    /\ local[w].pc \in {"checked", "bound", "serving", "closed"}
Starting(h) == {w \in Worker : local[w].home = h /\ local[w].pc \in {"checked", "bound"}}
Served(h) == {w \in Worker : local[w].home = h /\ local[w].pc \in {"bound", "serving"}}

\* Seeded fault: a pid file is always taken for stale.
CheckPidBlindly(w, h) ==
  /\ h \in Serves
  /\ pid' = [pid EXCEPT ![h] = NoWorker]
  /\ Begins(w, [Idle EXCEPT !.pc = "checked", !.home = h])
  /\ raced' = IF Starting(h) # {} THEN raced \cup {h} ELSE raced
  /\ UNCHANGED <<content, listFiles, crashes>>

\* The file of a process that is gone is removed; that of a live one refuses.
CheckPid(w, h) ==
  /\ h \in Serves /\ ~Alive(pid[h], h)
  /\ pid' = [pid EXCEPT ![h] = NoWorker]
  /\ Begins(w, [Idle EXCEPT !.pc = "checked", !.home = h])
  /\ raced' = IF Starting(h) # {} THEN raced \cup {h} ELSE raced
  /\ UNCHANGED <<content, listFiles, crashes>>

\* Port 0 stands for a --port its followers do not know.
Bind(w) ==
  LET h == local[w].home IN
  /\ local[w].pc = "checked"
  /\ \/ Continues(w, [local[w] EXCEPT !.pc = "bound"])
     \/ /\ \A v \in Served(h) : local[v].peer # h
        /\ Continues(w, [local[w] EXCEPT !.pc = "bound", !.peer = h])
     \/ /\ \E v \in Served(h) : local[v].peer = h
        /\ Continues(w, Idle)
  /\ UNCHANGED <<content, listFiles, servers, crashes>>

WritePid(w) ==
  /\ local[w].pc = "bound"
  /\ pid' = [pid EXCEPT ![local[w].home] = w]
  /\ Continues(w, [local[w] EXCEPT !.pc = "serving"])
  /\ UNCHANGED <<content, listFiles, raced, crashes>>

\* SIGTERM: the listener is closed and then the pid file removed, whosever it is.
Stop(w) ==
  /\ local[w].pc = "serving"
  /\ Continues(w, [local[w] EXCEPT !.pc = "closed"])
  /\ UNCHANGED <<content, listFiles, servers, crashes>>

RemovePid(w) ==
  /\ local[w].pc = "closed"
  /\ pid' = [pid EXCEPT ![local[w].home] = NoWorker]
  /\ Continues(w, Idle)
  /\ UNCHANGED <<content, listFiles, raced, crashes>>

-----------------------------------------------------------------------------
(* pull, replicate and import-published.                                    *)

Pull(w, h) ==
  /\ peers[h].json /\ peers[h].list # {}
  /\ Begins(w, [Idle EXCEPT !.pc = "pulling", !.home = h, !.peers = peers[h].list])
  /\ UNCHANGED <<content, listFiles, servers, crashes>>

Replicate(w, h, g) ==
  /\ g \in Follows[h]
  /\ Begins(w, [Idle EXCEPT !.pc = "pulling", !.home = h, !.peers = {g}])
  /\ UNCHANGED <<content, listFiles, servers, crashes>>

\* GET /packets answers with all objects of the peer, in the order of their ids.
\* Whether a server of the peer is up is left open: FetchFails stands for none.
Fetch(w) ==
  LET me == local[w]
      g == Min(me.peers)
  IN
  /\ me.pc = "pulling" /\ me.queue = {} /\ me.peers # {}
  /\ Continues(w, [me EXCEPT !.peer = g, !.peers = @ \ {g},
                             !.got = store[g], !.queue = Bag(store[g])])
  /\ UNCHANGED <<content, listFiles, servers, crashes>>

\* No server, a timeout, an answer cut short: the whole pull ends.
FetchFails(w) ==
  /\ local[w].pc = "pulling" /\ local[w].queue = {} /\ local[w].peers # {}
  /\ Continues(w, Idle)
  /\ UNCHANGED <<content, listFiles, servers, crashes>>

Exported(h) == Bag(store[h]) \cap Public

\* The constitutions that the packets name go with them.
Export(h) ==
  /\ commands < MaxCommands /\ commands' = commands + 1
  /\ snapshot' = [packets |-> [p \in Packet |-> IF p \in Exported(h) THEN store[h][p] ELSE 0],
                  constitutions |-> {Under[p] : p \in Exported(h)}]
  /\ UNCHANGED <<store, installed, expired, listFiles, servers, local, crashes>>

\* Seeded fault: the recipient's own constitutions have to do.
ImportBare(w, h) ==
  /\ Bag(snapshot.packets) # {}
  /\ Begins(w, [Idle EXCEPT !.pc = "importing", !.home = h, !.got = snapshot.packets,
                            !.queue = Bag(snapshot.packets)])
  /\ UNCHANGED <<content, listFiles, servers, crashes>>

\* All packets are checked (public, signed) before the constitutions are installed.
Import(w, h) ==
  /\ Bag(snapshot.packets) # {}
  /\ Bag(snapshot.packets) \subseteq Public
  /\ installed' = [installed EXCEPT ![h] = @ \cup snapshot.constitutions]
  /\ Begins(w, [Idle EXCEPT !.pc = "importing", !.home = h, !.got = snapshot.packets,
                            !.queue = Bag(snapshot.packets)])
  /\ UNCHANGED <<store, expired, snapshot, listFiles, servers, crashes>>

\* The next packet, in the order of the ids.
Next1(w) == Min(local[w].queue)

\* Seeded fault: the constitutions of this home are not asked.
RefusedByReceipt(w) ==
  LET me == local[w] IN
  /\ me.pc \in {"pulling", "importing"} /\ me.queue # {}
  /\ ~CanStore(me.home, Next1(w), me.got[Next1(w)])

Refused(w) ==
  LET me == local[w] IN
  /\ me.pc \in {"pulling", "importing"} /\ me.queue # {}
  /\ ~(Admits(me.home, Next1(w)) /\ CanStore(me.home, Next1(w), me.got[Next1(w)]))

\* Seeded fault: a packet that is refused is passed over.
SubmitNextSkips(w) ==
  LET me == local[w]
      p == Next1(w)
  IN
  /\ me.pc \in {"pulling", "importing"} /\ me.queue # {}
  /\ store' = IF Refused(w) THEN store ELSE [store EXCEPT ![me.home][p] = me.got[p]]
  /\ Continues(w, [me EXCEPT !.queue = @ \ {p}])
  /\ UNCHANGED <<installed, expired, snapshot, listFiles, servers, crashes>>

SubmitNext(w) ==
  LET me == local[w]
      p == Next1(w)
  IN
  /\ me.pc \in {"pulling", "importing"} /\ me.queue # {} /\ ~Refused(w)
  /\ store' = [store EXCEPT ![me.home][p] = me.got[p]]
  /\ Continues(w, [me EXCEPT !.queue = @ \ {p}])
  /\ UNCHANGED <<installed, expired, snapshot, listFiles, servers, crashes>>

\* One packet that is rejected or held with another receipt ends the command,
\* whatever was still to come from this peer and the next ones.
StopAtRefusal(w) ==
  /\ Refused(w)
  /\ Continues(w, Idle)
  /\ UNCHANGED <<content, listFiles, servers, crashes>>

Finish(w) ==
  LET me == local[w] IN
  /\ me.pc \in {"pulling", "importing"} /\ me.queue = {}
  /\ me.pc = "pulling" => me.peers = {}
  /\ Continues(w, Idle)
  /\ UNCHANGED <<content, listFiles, servers, crashes>>

Crash(w) ==
  /\ crashes < MaxCrashes /\ crashes' = crashes + 1
  /\ local[w].pc # "idle"
  /\ Becomes(w, Idle)
  /\ muddled' = IF local[w].pc = "writing" THEN muddled \cup {local[w].home} ELSE muddled
  /\ UNCHANGED <<content, peers, wanted, servers, commands>>

-----------------------------------------------------------------------------
ServeStep(w) == Bind(w) \/ WritePid(w) \/ Stop(w) \/ RemovePid(w)
PullStep(w) ==
  Fetch(w) \/ FetchFails(w) \/ SubmitNext(w) \/ StopAtRefusal(w) \/ Finish(w)

Next ==
  \/ \E h \in Home :
       \/ \E c \in Constitution : Install(h, c)
       \/ \E p \in Packet : Propose(h, p)
       \/ Export(h)
  \/ \E p \in Packet : Expire(p)
  \/ \E w \in Worker :
       \/ \E h \in Home :
            \/ \E g \in Home : Edit(w, h, g) \/ Replicate(w, h, g)
            \/ CheckPid(w, h) \/ Pull(w, h) \/ Import(w, h)
       \/ OpenPeers(w) \/ WritePeers(w)
       \/ ServeStep(w) \/ PullStep(w) \/ Crash(w)

Spec == Init /\ [][Next]_vars

-----------------------------------------------------------------------------
\* Every object is under a constitution its home has installed, whichever way
\* it came.
TypeOK ==
  /\ store \in [Home -> Stores]
  /\ \A h \in Home : {Under[p] : p \in Bag(store[h])} \subseteq installed[h]
  /\ installed \in [Home -> SUBSET Constitution]
  /\ expired \subseteq Perishable
  /\ peers \in [Home -> [json : BOOLEAN, list : SUBSET Home]]
  /\ pid \in [Home -> Worker \cup {NoWorker}]
  /\ snapshot \in [packets : Stores, constitutions : SUBSET Constitution]
  /\ local \in [Worker -> Locals]
  /\ commands \in 0..MaxCommands /\ crashes \in 0..MaxCrashes
  /\ wanted \in [Home -> SUBSET Home]
  /\ muddled \subseteq Home /\ raced \subseteq Home

\* w1.py:326, sharing.py:62: whatever runs beside it, a pull or import holds at
\* every moment all it has got past, each packet with the receipt it fetched.
\* So a command that ends well brought everything, and one that stops kept what
\* comes before the packet it stopped at.
FetchedIsHeld ==
  \A w \in Worker :
    LET me == local[w] IN
    me.pc \in {"pulling", "importing"} =>
      \A p \in Bag(me.got) \ me.queue : store[me.home][p] = me.got[p]

\* A pull of h from g would stop before its end.
Blocked(h, g) ==
  \E p \in Bag(store[g]) : ~Admits(h, p) \/ store[h][p] \notin {0, store[g][p]}

\* w1.py:330: a home that one packet of a peer stops goes on being stopped by
\* that peer, until a constitution is installed: pulling again is no cure.
BlockedForGood ==
  [][\A h \in Home, g \in Home :
       Blocked(h, g) => Blocked(h, g)' \/ installed'[h] # installed[h]]_vars

\* sharing.py:62: a snapshot brings the constitutions its packets need, so an
\* import is only ever stopped by time or by another receipt of a packet.
ImportStopsExplained ==
  \A w \in Worker :
    LET me == local[w] IN
    me.pc = "importing" /\ Refused(w) =>
      \/ Next1(w) \in expired
      \/ store[me.home][Next1(w)] \notin {0, me.got[Next1(w)]}

\* w1.py:297-310: peers.json is the list that follow and unfollow commands made
\* of it, unless two of them overlapped or one was killed while it wrote.
FollowsExplained ==
  \A h \in Home :
    \/ h \in muddled
    \/ \E w \in Edits(h) : local[w].pc = "writing"
    \/ peers[h] = [json |-> TRUE, list |-> wanted[h]]

\* w1.py:412: a home is served twice only if the second server was started
\* before the first one had written its pid file.
OneServerUnlessRaced ==
  \A h \in Home \ raced : Cardinality(Served(h)) <= 1
=============================================================================
