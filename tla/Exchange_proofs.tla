---------------------------- MODULE Exchange_proofs ----------------------------
(* What pulls, imports, peer lists and servers keep, for any homes, packets, *)
(* processes and constitutions, and any number of commands and crashes.      *)
EXTENDS Exchange, FiniteSetTheorems, WellFoundedInduction, TLAPS

-----------------------------------------------------------------------------
(* The next packet and the next peer are among those that are waiting.      *)

LEMMA MinIsMember ==
  ASSUME NEW S, S \subseteq Nat, S # {}
  PROVE  Min(S) \in S
<1>1. PICK x \in S : \A y \in S : ~(<<y, x>> \in OpToRel(<, Nat))
  <2>1. IsWellFoundedOn(OpToRel(<, Nat), Nat)
    BY NatLessThanWellFounded
  <2> QED BY <2>1, WFMin
<1>2. \A y \in S : x <= y
  <2>1. SUFFICES ASSUME NEW y \in S, ~(x <= y)
                 PROVE  FALSE
    OBVIOUS
  <2>2. x \in Nat /\ y \in Nat /\ y < x
    BY <2>1
  <2>3. <<y, x>> \in OpToRel(<, Nat)
    BY <2>2 DEF OpToRel
  <2> QED BY <1>1, <2>3
<1> QED BY <1>2 DEF Min

-----------------------------------------------------------------------------
(* Types.                                                                   *)

\* A process that is at work has a home, and one that edits a list a peer.
AtWork ==
  \A w \in Worker :
    /\ local[w].pc # "idle" => local[w].home \in Home
    /\ local[w].pc \in {"editing", "writing"} => local[w].peer \in Home

Types == TypeOK /\ AtWork

LEMMA IdleType == Idle \in Locals
BY DEF Idle, Locals, Nothing, Stores

\* A process goes on to another step and keeps the rest of its state.
LEMMA Relabelled ==
  ASSUME NEW r \in Locals,
         NEW label \in {"writing", "bound", "serving", "closed"}
  PROVE  LET l == [r EXCEPT !.pc = label] IN
         l \in Locals /\ l.pc = label /\ l.home = r.home /\ l.peer = r.peer
BY DEF Locals

\* A step of process w leaves the others where they are.
LEMMA OneMoves ==
  ASSUME local \in [Worker -> Locals], NEW w \in Worker, NEW l \in Locals, Becomes(w, l)
  PROVE  /\ local' \in [Worker -> Locals]
         /\ local'[w] = l
         /\ \A v \in Worker \ {w} : local'[v] = local[v]
BY DEF Becomes

LEMMA HomesAreNumbers ==
  /\ Home \subseteq Nat /\ 0 \notin Home /\ Packet \subseteq Nat
BY ExchangeAssumption

\* The next packet to submit is one of those waiting.
LEMMA NextWaits ==
  ASSUME TypeOK, NEW w \in Worker, local[w].queue # {}
  PROVE  Next1(w) \in local[w].queue /\ Next1(w) \in Packet
<1>1. local[w].queue \subseteq Packet
  BY DEF TypeOK, Locals
<1>2. Min(local[w].queue) \in local[w].queue
  BY <1>1, HomesAreNumbers, MinIsMember
<1> QED BY <1>1, <1>2 DEF Next1

LEMMA TypesInit == Init => Types
<1> SUFFICES ASSUME Init PROVE Types
  OBVIOUS
<1>1. local \in [Worker -> Locals] /\ AtWork
  BY IdleType DEF Init, AtWork, Idle
<1>2. TypeOK
  BY <1>1, ExchangeAssumption DEF Init, TypeOK, Stores, Bag, Nothing
<1> QED BY <1>1, <1>2 DEF Types

\* How the actions move their process.
LEMMA Moves ==
  ASSUME Types, NEW w \in Worker, NEW l \in Locals, Becomes(w, l),
         l.pc # "idle" => l.home \in Home,
         l.pc \in {"editing", "writing"} => l.peer \in Home
  PROVE  local' \in [Worker -> Locals] /\ AtWork'
<1>1. /\ local' \in [Worker -> Locals]
      /\ local'[w] = l
      /\ \A v \in Worker \ {w} : local'[v] = local[v]
  BY OneMoves DEF Types, TypeOK
<1> QED BY <1>1 DEF Types, AtWork

LEMMA Rests ==
  ASSUME Types, NEW w \in Worker, Becomes(w, Idle)
  PROVE  local' \in [Worker -> Locals] /\ AtWork'
<1>1. Idle.pc = "idle"
  BY DEF Idle
<1> QED BY <1>1, IdleType, Moves

LEMMA UserTypes ==
  ASSUME Types,
         \/ \E h \in Home, c \in Constitution : Install(h, c)
         \/ \E h \in Home, p \in Packet : Propose(h, p)
         \/ \E h \in Home : Export(h)
         \/ \E p \in Packet : Expire(p)
         \/ UNCHANGED vars
  PROVE  Types'
<1>1. ASSUME NEW h \in Home, NEW c \in Constitution, Install(h, c)
      PROVE  Types'
  BY <1>1 DEF Install, Types, TypeOK, AtWork, listFiles, servers
<1>2. ASSUME NEW h \in Home, NEW p \in Packet, Propose(h, p)
      PROVE  Types'
  <2>1. store' \in [Home -> Stores]
    BY <1>2, HomesAreNumbers DEF Propose, Types, TypeOK, Stores
  <2>2. \A g \in Home : {Under[q] : q \in Bag(store'[g])} \subseteq installed[g]
    BY <1>2 DEF Propose, Types, TypeOK, Stores, Bag, Admits
  <2> QED BY <1>2, <2>1, <2>2 DEF Propose, Types, TypeOK, AtWork, listFiles, servers
<1>3. ASSUME NEW h \in Home, Export(h)
      PROVE  Types'
  <2>1. snapshot' \in [packets : Stores, constitutions : SUBSET Constitution]
    BY <1>3, ExchangeAssumption DEF Export, Exported, Bag, Types, TypeOK, Stores
  <2>2. commands' \in 0..MaxCommands
    BY <1>3, ExchangeAssumption DEF Export, Types, TypeOK
  <2> QED BY <1>3, <2>1, <2>2 DEF Export, Types, TypeOK, AtWork, listFiles, servers
<1>4. ASSUME NEW p \in Packet, Expire(p)
      PROVE  Types'
  BY <1>4 DEF Expire, Types, TypeOK, AtWork, listFiles, servers
<1>5. CASE UNCHANGED vars
  BY <1>5 DEF vars, content, listFiles, servers, Types, TypeOK, AtWork
<1> QED BY <1>1, <1>2, <1>3, <1>4, <1>5

\* Commands are counted.
LEMMA BeginsTypes ==
  ASSUME Types, NEW w \in Worker, NEW l \in Locals, Begins(w, l),
         l.home \in Home, l.pc = "editing" => l.peer \in Home, l.pc # "writing"
  PROVE  local' \in [Worker -> Locals] /\ AtWork' /\ commands' \in 0..MaxCommands
<1>1. Becomes(w, l) /\ commands' \in 0..MaxCommands
  BY ExchangeAssumption DEF Begins, Types, TypeOK
<1> QED BY <1>1, Moves

LEMMA EditTypes ==
  ASSUME Types, NEW w \in Worker,
         \/ \E h \in Home, g \in Home : Edit(w, h, g)
         \/ OpenPeers(w)
         \/ WritePeers(w)
  PROVE  Types'
<1>1. ASSUME NEW h \in Home, NEW g \in Home, Edit(w, h, g)
      PROVE  Types'
  <2>1. PICK list \in {ReadPeers(h) \cup {g}, ReadPeers(h) \ {g}} :
          Begins(w, [Idle EXCEPT !.pc = "editing", !.home = h, !.peer = g, !.peers = list])
    BY <1>1 DEF Edit
  <2>2. list \subseteq Home
    BY <2>1 DEF ReadPeers, Types, TypeOK
  <2> DEFINE l == [Idle EXCEPT !.pc = "editing", !.home = h, !.peer = g, !.peers = list]
  <2>3. l \in Locals /\ l.home \in Home /\ l.peer \in Home /\ l.pc = "editing"
    BY <2>2, IdleType DEF Locals, Idle
  <2>4. local' \in [Worker -> Locals] /\ AtWork' /\ commands' \in 0..MaxCommands
    BY <2>1, <2>3, BeginsTypes
  <2> QED BY <1>1, <2>4 DEF Edit, Types, TypeOK, content, servers
<1>2. CASE OpenPeers(w)
  <2> DEFINE l == [local[w] EXCEPT !.pc = "writing"]
  <2>1. l \in Locals /\ l.home \in Home /\ l.peer \in Home
    <3>1. local[w] \in Locals /\ local[w].home \in Home /\ local[w].peer \in Home
      BY <1>2 DEF OpenPeers, Types, TypeOK, AtWork
    <3> QED BY <3>1, Relabelled
  <2>2. local' \in [Worker -> Locals] /\ AtWork'
    BY <1>2, <2>1, Moves DEF OpenPeers, Continues
  <2>3. peers' \in [Home -> [json : BOOLEAN, list : SUBSET Home]]
    BY <1>2 DEF OpenPeers, Types, TypeOK
  <2> QED BY <1>2, <2>2, <2>3 DEF OpenPeers, Continues, Types, TypeOK, content, servers
<1>3. CASE WritePeers(w)
  <2>1. local' \in [Worker -> Locals] /\ AtWork'
    BY <1>3, Rests DEF WritePeers, Continues
  <2>2. /\ local[w].home \in Home /\ local[w].peer \in Home
        /\ local[w].peers \subseteq Home
    BY <1>3 DEF WritePeers, Types, TypeOK, AtWork, Locals
  <2>3. /\ peers' \in [Home -> [json : BOOLEAN, list : SUBSET Home]]
        /\ wanted' \in [Home -> SUBSET Home]
    BY <1>3, <2>2 DEF WritePeers, Types, TypeOK
  <2> QED BY <1>3, <2>1, <2>3 DEF WritePeers, Continues, Types, TypeOK, content, servers
<1> QED BY <1>1, <1>2, <1>3

LEMMA ServeTypes ==
  ASSUME Types, NEW w \in Worker,
         (\E h \in Home : CheckPid(w, h)) \/ ServeStep(w)
  PROVE  Types'
<1>1. ASSUME NEW h \in Home, CheckPid(w, h)
      PROVE  Types'
  <2> DEFINE l == [Idle EXCEPT !.pc = "checked", !.home = h]
  <2>1. l \in Locals /\ l.home \in Home /\ l.pc = "checked"
    BY IdleType DEF Locals, Idle
  <2>2. local' \in [Worker -> Locals] /\ AtWork' /\ commands' \in 0..MaxCommands
    BY <1>1, <2>1, BeginsTypes DEF CheckPid
  <2> QED BY <1>1, <2>2 DEF CheckPid, Types, TypeOK, content, listFiles
<1>2. CASE Bind(w)
  <2>1. local[w].pc = "checked" /\ local[w] \in Locals /\ local[w].home \in Home
    BY <1>2 DEF Bind, Types, TypeOK, AtWork
  <2> DEFINE l == [local[w] EXCEPT !.pc = "bound"]
             k == [local[w] EXCEPT !.pc = "bound", !.peer = local[w].home]
  <2>2. l \in Locals /\ l.home \in Home /\ l.pc = "bound"
    BY <2>1, Relabelled
  <2>4. k \in Locals /\ k.home \in Home /\ k.pc = "bound"
    BY <2>1 DEF Locals
  <2>3. local' \in [Worker -> Locals] /\ AtWork'
    <3>1. Becomes(w, l) \/ Becomes(w, k) \/ Becomes(w, Idle)
      BY <1>2 DEF Bind, Continues
    <3> QED BY <3>1, <2>2, <2>4, Moves, Rests
  <2> QED BY <1>2, <2>3 DEF Bind, Continues, Types, TypeOK, content, listFiles, servers
<1>3. CASE WritePid(w)
  <2> DEFINE l == [local[w] EXCEPT !.pc = "serving"]
  <2>1. l \in Locals /\ l.home \in Home /\ l.pc = "serving"
    <3>1. local[w] \in Locals /\ local[w].home \in Home
      BY <1>3 DEF WritePid, Types, TypeOK, AtWork
    <3> QED BY <3>1, Relabelled
  <2>2. local' \in [Worker -> Locals] /\ AtWork'
    BY <1>3, <2>1, Moves DEF WritePid, Continues
  <2> QED BY <1>3, <2>2 DEF WritePid, Continues, Types, TypeOK, content, listFiles
<1>4. CASE Stop(w)
  <2> DEFINE l == [local[w] EXCEPT !.pc = "closed"]
  <2>1. l \in Locals /\ l.home \in Home /\ l.pc = "closed"
    <3>1. local[w] \in Locals /\ local[w].home \in Home
      BY <1>4 DEF Stop, Types, TypeOK, AtWork
    <3> QED BY <3>1, Relabelled
  <2>2. local' \in [Worker -> Locals] /\ AtWork'
    BY <1>4, <2>1, Moves DEF Stop, Continues
  <2> QED BY <1>4, <2>2 DEF Stop, Continues, Types, TypeOK, content, listFiles, servers
<1>5. CASE RemovePid(w)
  <2>1. local' \in [Worker -> Locals] /\ AtWork'
    BY <1>5, Rests DEF RemovePid, Continues
  <2> QED BY <1>5, <2>1 DEF RemovePid, Continues, Types, TypeOK, content, listFiles
<1> QED BY <1>1, <1>2, <1>3, <1>4, <1>5 DEF ServeStep

\* A pull begins, asks the next peer, or ends.
LEMMA PullTypes ==
  ASSUME Types, NEW w \in Worker,
         \/ \E h \in Home : Pull(w, h) \/ \E g \in Home : Replicate(w, h, g)
         \/ Fetch(w) \/ FetchFails(w) \/ StopAtRefusal(w) \/ Finish(w)
  PROVE  Types'
<1>1. ASSUME NEW h \in Home, NEW list \in SUBSET Home,
             Begins(w, [Idle EXCEPT !.pc = "pulling", !.home = h, !.peers = list]),
             UNCHANGED <<content, listFiles, servers, crashes>>
      PROVE  Types'
  <2> DEFINE l == [Idle EXCEPT !.pc = "pulling", !.home = h, !.peers = list]
  <2>1. l \in Locals /\ l.home \in Home /\ l.pc = "pulling"
    BY IdleType DEF Locals, Idle
  <2>2. local' \in [Worker -> Locals] /\ AtWork' /\ commands' \in 0..MaxCommands
    BY <1>1, <2>1, BeginsTypes
  <2> QED BY <1>1, <2>2 DEF Types, TypeOK, content, listFiles, servers
<1>2. ASSUME NEW h \in Home, Pull(w, h)
      PROVE  Types'
  <2>1. peers[h].list \in SUBSET Home
    BY DEF Types, TypeOK
  <2> QED BY <1>1, <1>2, <2>1 DEF Pull
<1>3. ASSUME NEW h \in Home, NEW g \in Home, Replicate(w, h, g)
      PROVE  Types'
  <2>1. {g} \in SUBSET Home
    OBVIOUS
  <2> QED BY <1>1, <1>3, <2>1 DEF Replicate
<1>4. CASE Fetch(w)
  <2> DEFINE g == Min(local[w].peers)
             l == [local[w] EXCEPT !.peer = g, !.peers = @ \ {g},
                                   !.got = store[g], !.queue = Bag(store[g])]
  <2>1. /\ local[w] \in Locals /\ local[w].home \in Home
        /\ local[w].pc = "pulling" /\ local[w].peers # {}
    BY <1>4 DEF Fetch, Types, TypeOK, AtWork
  <2>2. local[w].peers \subseteq Home
    BY <2>1 DEF Locals
  <2>3. g \in Home
    BY <2>1, <2>2, HomesAreNumbers, MinIsMember
  <2>4. store[g] \in Stores /\ Bag(store[g]) \subseteq Packet
    BY <2>3 DEF Types, TypeOK, Bag
  <2>5. l \in Locals /\ l.home \in Home /\ l.pc = "pulling"
    BY <2>1, <2>3, <2>4 DEF Locals
  <2>6. Becomes(w, l)
    BY <1>4 DEF Fetch, Continues
  <2>7. local' \in [Worker -> Locals] /\ AtWork'
    BY <2>5, <2>6, Moves
  <2> QED BY <1>4, <2>7 DEF Fetch, Continues, Types, TypeOK, content, listFiles, servers
<1>5. CASE FetchFails(w) \/ StopAtRefusal(w) \/ Finish(w)
  <2>1. /\ Becomes(w, Idle)
        /\ UNCHANGED <<content, listFiles, servers, commands, crashes>>
    BY <1>5 DEF FetchFails, StopAtRefusal, Finish, Continues
  <2>2. local' \in [Worker -> Locals] /\ AtWork'
    BY <2>1, Rests
  <2> QED BY <2>1, <2>2 DEF Types, TypeOK, content, listFiles, servers
<1> QED BY <1>2, <1>3, <1>4, <1>5

\* A packet that is admitted fills a place that was empty, or changes nothing.
LEMMA SubmitStores ==
  ASSUME Types, NEW w \in Worker, SubmitNext(w)
  PROVE  LET h == local[w].home
             p == Next1(w)
         IN
         /\ h \in Home /\ p \in Packet /\ p \in local[w].queue
         /\ Admits(h, p)
         /\ local[w].got[p] \in Home \cup {0}
         /\ store' = [store EXCEPT ![h][p] = local[w].got[p]]
         /\ store[h][p] \in {0, local[w].got[p]}
         /\ Becomes(w, [local[w] EXCEPT !.queue = @ \ {p}])
<1>1. local[w].home \in Home /\ local[w].pc \in {"pulling", "importing"}
  BY DEF SubmitNext, Types, AtWork
<1>2. Next1(w) \in local[w].queue /\ Next1(w) \in Packet
  BY NextWaits DEF SubmitNext, Types
<1>3. local[w].got \in Stores
  BY DEF Types, TypeOK, Locals
<1> QED BY <1>1, <1>2, <1>3 DEF SubmitNext, Refused, CanStore, Continues, Stores

LEMMA SubmitTypes ==
  ASSUME Types, NEW w \in Worker, SubmitNext(w)
  PROVE  Types'
<1> DEFINE h == local[w].home
           p == Next1(w)
           l == [local[w] EXCEPT !.queue = @ \ {p}]
<1>1. /\ h \in Home /\ p \in Packet /\ Admits(h, p)
      /\ local[w].got[p] \in Home \cup {0}
      /\ store' = [store EXCEPT ![h][p] = local[w].got[p]]
      /\ Becomes(w, l)
  BY SubmitStores
<1> HIDE DEF p
<1>2. store' \in [Home -> Stores]
  BY <1>1 DEF Types, TypeOK, Stores
<1>3. ASSUME NEW g \in Home, NEW q \in Bag(store'[g])
      PROVE  Under[q] \in installed[g]
  <2>1. (g = h /\ q = p) \/ q \in Bag(store[g])
    BY <1>1, <1>3 DEF Types, TypeOK, Stores, Bag
  <2> QED BY <1>1, <2>1 DEF Types, TypeOK, Admits
<1>4. local' \in [Worker -> Locals] /\ AtWork'
  <2>1. local[w] \in Locals /\ local[w].pc \in {"pulling", "importing"}
    BY DEF SubmitNext, Types, TypeOK
  <2>2. l \in Locals /\ l.home = h /\ l.pc = local[w].pc
    BY <2>1 DEF Locals
  <2> QED BY <1>1, <2>1, <2>2, Moves
<1> QED BY <1>2, <1>3, <1>4
        DEF SubmitNext, Continues, Types, TypeOK, listFiles, servers

LEMMA ImportTypes ==
  ASSUME Types, NEW w \in Worker, NEW h \in Home, Import(w, h)
  PROVE  Types'
<1> DEFINE l == [Idle EXCEPT !.pc = "importing", !.home = h, !.got = snapshot.packets,
                             !.queue = Bag(snapshot.packets)]
<1>1. snapshot.packets \in Stores /\ snapshot.constitutions \subseteq Constitution
  BY DEF Types, TypeOK
<1>2. Bag(snapshot.packets) \subseteq Packet
  BY DEF Bag
<1>3. l \in Locals /\ l.home \in Home /\ l.pc = "importing"
  BY <1>1, <1>2, IdleType DEF Locals, Idle
<1>4. local' \in [Worker -> Locals] /\ AtWork' /\ commands' \in 0..MaxCommands
  BY <1>3, BeginsTypes DEF Import
<1>5. installed' \in [Home -> SUBSET Constitution]
  BY <1>1 DEF Import, Types, TypeOK
<1>6. \A g \in Home : installed[g] \subseteq installed'[g]
  BY DEF Import, Types, TypeOK
<1> QED BY <1>4, <1>5, <1>6 DEF Import, Types, TypeOK, listFiles, servers

LEMMA CrashTypes ==
  ASSUME Types, NEW w \in Worker, Crash(w)
  PROVE  Types'
<1>1. local' \in [Worker -> Locals] /\ AtWork'
  BY Rests DEF Crash
<1>2. muddled' \subseteq Home /\ crashes' \in 0..MaxCrashes
  BY ExchangeAssumption DEF Crash, Types, TypeOK, AtWork
<1> QED BY <1>1, <1>2 DEF Crash, Types, TypeOK, content, servers

LEMMA TypesStep ==
  ASSUME Types, [Next]_vars
  PROVE  Types'
BY UserTypes, EditTypes, ServeTypes, PullTypes, SubmitTypes, ImportTypes, CrashTypes
   DEF Next, PullStep

\* Every object of every home is under a constitution installed there.
THEOREM ExchangeTypes == Spec => []TypeOK
<1>1. Types /\ [Next]_vars => Types'
  BY TypesStep
<1>2. Types => TypeOK
  BY DEF Types
<1> QED BY TypesInit, <1>1, <1>2, PTL DEF Spec

-----------------------------------------------------------------------------
(* A process changes its own state only.                                    *)

Moved(w) ==
  \/ \E h \in Home :
       \/ \E g \in Home : Edit(w, h, g) \/ Replicate(w, h, g)
       \/ CheckPid(w, h) \/ Pull(w, h) \/ Import(w, h)
  \/ OpenPeers(w) \/ WritePeers(w)
  \/ ServeStep(w) \/ PullStep(w) \/ Crash(w)

LEMMA OthersRest ==
  ASSUME NEW v \in Worker, NEW w \in Worker \ {v}, Moved(w), local \in [Worker -> Locals]
  PROVE  local'[v] = local[v]
<1>1. ASSUME NEW l, Becomes(w, l)
      PROVE  local'[v] = local[v]
  BY <1>1 DEF Becomes
<1> QED BY <1>1
        DEF Moved, Begins, Continues, Edit, Replicate, CheckPid, Pull, Import, OpenPeers,
            WritePeers, ServeStep, Bind, WritePid, Stop, RemovePid, PullStep, Fetch,
            FetchFails, SubmitNext, StopAtRefusal, Finish, Crash

LEMMA WhoMoves ==
  ASSUME Types, [Next]_vars, NEW v \in Worker, local'[v] # local[v]
  PROVE  Moved(v)
<1>1. local \in [Worker -> Locals]
  BY DEF Types, TypeOK
<1>2. \E w \in Worker : Moved(w)
  BY DEF Next, Moved, vars, Install, Propose, Export, Expire
<1> QED BY <1>1, <1>2, OthersRest

\* Three kinds of commands: those that pull and import, ...
LEMMA PullKind ==
  ASSUME Types, NEW v \in Worker,
         \/ \E h \in Home : Pull(v, h) \/ Import(v, h) \/ \E g \in Home : Replicate(v, h, g)
         \/ PullStep(v)
  PROVE  /\ local[v].pc \in {"idle", "pulling", "importing"}
         /\ local'[v].pc \in {"idle", "pulling", "importing"}
         /\ UNCHANGED <<listFiles, servers>>
         /\ \/ SubmitNext(v)
            \/ \E h \in Home : Import(v, h)
            \/ local'[v].pc = "idle"
            \/ local'[v].pc = "pulling" /\ local'[v].queue = Bag(local'[v].got)
<1>1. local[v] \in Locals
  BY DEF Types, TypeOK
<1>2. ASSUME NEW h \in Home, Import(v, h)
      PROVE  /\ local[v].pc = "idle" /\ local'[v].pc = "importing"
             /\ UNCHANGED <<listFiles, servers>>
  BY <1>2 DEF Import, Begins, Becomes, Types, TypeOK, Idle
<1>3. CASE \E h \in Home : Pull(v, h) \/ \E g \in Home : Replicate(v, h, g)
  <2>1. PICK h, list : Becomes(v, [Idle EXCEPT !.pc = "pulling", !.home = h, !.peers = list])
    BY <1>3 DEF Pull, Replicate, Begins
  <2>2. /\ local'[v].pc = "pulling"
        /\ local'[v].queue = {} /\ local'[v].got = Nothing
    BY <2>1 DEF Becomes, Types, TypeOK, Idle
  <2>3. local[v].pc = "idle" /\ UNCHANGED <<listFiles, servers>>
    BY <1>3 DEF Pull, Replicate, Begins
  <2> QED BY <2>2, <2>3 DEF Bag, Nothing
<1>4. CASE Fetch(v)
  BY <1>1, <1>4 DEF Fetch, Continues, Becomes, Types, TypeOK, Locals
<1>5. CASE FetchFails(v) \/ StopAtRefusal(v) \/ Finish(v)
  <2>1. /\ local[v].pc \in {"pulling", "importing"} /\ Becomes(v, Idle)
        /\ UNCHANGED <<listFiles, servers>>
    BY <1>5 DEF FetchFails, StopAtRefusal, Refused, Finish, Continues
  <2> QED BY <2>1 DEF Becomes, Types, TypeOK, Idle
<1>6. CASE SubmitNext(v)
  BY <1>1, <1>6 DEF SubmitNext, Continues, Becomes, Types, TypeOK, Locals
<1> QED BY <1>2, <1>3, <1>4, <1>5, <1>6 DEF PullStep

\* ... those that serve, ...
LEMMA ServeKind ==
  ASSUME Types, NEW v \in Worker, (\E h \in Home : CheckPid(v, h)) \/ ServeStep(v)
  PROVE  /\ local[v].pc \in {"idle", "checked", "bound", "serving", "closed"}
         /\ local'[v].pc \in {"idle", "checked", "bound", "serving", "closed"}
         /\ local'[v].pc # "idle" /\ local[v].pc # "idle" => local'[v].home = local[v].home
         /\ UNCHANGED listFiles
<1>1. local[v] \in Locals
  BY DEF Types, TypeOK
<1>2. ASSUME NEW h \in Home, CheckPid(v, h)
      PROVE  /\ local[v].pc = "idle" /\ local'[v].pc = "checked"
             /\ UNCHANGED listFiles
  BY <1>2 DEF CheckPid, Begins, Becomes, Types, TypeOK, Idle
<1>3. CASE Bind(v)
  <2>1. /\ local[v].pc = "checked" /\ UNCHANGED listFiles
        /\ \/ local'[v] = [local[v] EXCEPT !.pc = "bound"]
           \/ local'[v] = [local[v] EXCEPT !.pc = "bound", !.peer = local[v].home]
           \/ local'[v] = Idle
    BY <1>3 DEF Bind, Continues, Becomes, Types, TypeOK
  <2>2. CASE local'[v] = [local[v] EXCEPT !.pc = "bound"]
    BY <1>1, <2>1, <2>2, Relabelled
  <2>3. CASE local'[v] = [local[v] EXCEPT !.pc = "bound", !.peer = local[v].home]
    BY <1>1, <2>1, <2>3 DEF Locals
  <2>4. CASE local'[v] = Idle
    BY <2>1, <2>4 DEF Idle
  <2> QED BY <2>1, <2>2, <2>3, <2>4
<1>4. CASE WritePid(v) \/ Stop(v)
  <2>1. PICK label \in {"serving", "closed"} : local'[v] = [local[v] EXCEPT !.pc = label]
    BY <1>4 DEF WritePid, Stop, Continues, Becomes, Types, TypeOK
  <2>2. local'[v].pc = label /\ local'[v].home = local[v].home
    BY <1>1, <2>1, Relabelled
  <2>3. local[v].pc \in {"bound", "serving"} /\ UNCHANGED listFiles
    BY <1>4 DEF WritePid, Stop
  <2> QED BY <2>2, <2>3
<1>5. CASE RemovePid(v)
  BY <1>5 DEF RemovePid, Continues, Becomes, Types, TypeOK, Idle
<1> QED BY <1>2, <1>3, <1>4, <1>5 DEF ServeStep

\* ... and those that edit a list.
LEMMA EditKind ==
  ASSUME Types, NEW v \in Worker,
         (\E h \in Home, g \in Home : Edit(v, h, g)) \/ OpenPeers(v) \/ WritePeers(v)
  PROVE  /\ local[v].pc \in {"idle", "editing", "writing"}
         /\ local'[v].pc \in {"idle", "editing", "writing"}
         /\ UNCHANGED servers
<1>1. local[v] \in Locals
  BY DEF Types, TypeOK
<1>2. ASSUME NEW h \in Home, NEW g \in Home, Edit(v, h, g)
      PROVE  /\ local[v].pc = "idle" /\ local'[v].pc = "editing"
             /\ UNCHANGED servers
  <2>1. PICK list :
          Becomes(v, [Idle EXCEPT !.pc = "editing", !.home = h, !.peer = g, !.peers = list])
    BY <1>2 DEF Edit, Begins
  <2>2. local'[v].pc = "editing"
    BY <2>1 DEF Becomes, Types, TypeOK, Idle
  <2> QED BY <1>2, <2>2 DEF Edit, Begins
<1>3. CASE OpenPeers(v)
  <2>1. local'[v] = [local[v] EXCEPT !.pc = "writing"]
    BY <1>3 DEF OpenPeers, Continues, Becomes, Types, TypeOK
  <2> QED BY <1>1, <1>3, <2>1, Relabelled DEF OpenPeers
<1>4. CASE WritePeers(v)
  BY <1>4 DEF WritePeers, Continues, Becomes, Types, TypeOK, Idle
<1> QED BY <1>2, <1>3, <1>4

LEMMA CrashKind ==
  ASSUME Types, NEW v \in Worker, Crash(v)
  PROVE  local'[v] = Idle /\ Idle.pc = "idle" /\ UNCHANGED <<content, peers, wanted, servers>>
BY DEF Crash, Becomes, Types, TypeOK, Idle

-----------------------------------------------------------------------------
(* Objects stay, and with them what blocks a peer.                          *)

LEMMA ObjectsStay ==
  ASSUME Types, [Next]_vars, NEW h \in Home, NEW p \in Packet, store[h][p] # 0
  PROVE  store'[h][p] = store[h][p]
<1>1. CASE store' = store
  BY <1>1
<1>2. ASSUME NEW g \in Home, NEW q \in Packet, Propose(g, q)
      PROVE  store'[h][p] = store[h][p]
  BY <1>2 DEF Propose, Types, TypeOK, Stores
<1>3. ASSUME NEW w \in Worker, SubmitNext(w)
      PROVE  store'[h][p] = store[h][p]
  <2> DEFINE g == local[w].home
             q == Next1(w)
  <2>1. /\ g \in Home /\ q \in Packet
        /\ store' = [store EXCEPT ![g][q] = local[w].got[q]]
        /\ store[g][q] \in {0, local[w].got[q]}
    BY <1>3, SubmitStores
  <2> HIDE DEF q, g
  <2> QED BY <2>1 DEF Types, TypeOK, Stores
<1>4. store' = store
      \/ (\E g \in Home, q \in Packet : Propose(g, q))
      \/ (\E w \in Worker : SubmitNext(w))
  BY DEF Next, vars, content, Install, Export, Expire, Edit, OpenPeers, WritePeers, CheckPid,
         ServeStep, Bind, WritePid, Stop, RemovePid, Pull, Replicate, PullStep, Fetch,
         FetchFails, StopAtRefusal, Finish, Import, Crash
<1> QED BY <1>1, <1>2, <1>3, <1>4

LEMMA TimeGoesOn ==
  ASSUME [Next]_vars
  PROVE  expired \subseteq expired'
BY DEF Next, vars, content, Install, Propose, Export, Expire, Edit, OpenPeers, WritePeers,
       CheckPid, ServeStep, Bind, WritePid, Stop, RemovePid, Pull, Replicate, PullStep, Fetch,
       FetchFails, SubmitNext, StopAtRefusal, Finish, Import, Crash

\* w1.py:330: pulling again is no cure, for any homes, peers and packets.
THEOREM RefusalsLast == Spec => BlockedForGood
<1>1. ASSUME Types, [Next]_vars, NEW h \in Home, NEW g \in Home,
             Blocked(h, g), installed'[h] = installed[h]
      PROVE  Blocked(h, g)'
  <2>1. PICK p \in Bag(store[g]) : ~Admits(h, p) \/ store[h][p] \notin {0, store[g][p]}
    BY <1>1 DEF Blocked
  <2>2. p \in Packet /\ store[g][p] # 0
    BY DEF Bag
  <2>3. store'[g][p] = store[g][p] /\ p \in Bag(store'[g])
    BY <1>1, <2>2, ObjectsStay DEF Bag
  <2>4. ~Admits(h, p) => ~Admits(h, p)'
    BY <1>1, TimeGoesOn DEF Admits
  <2>5. store[h][p] # 0 => store'[h][p] = store[h][p]
    BY <1>1, <2>2, ObjectsStay
  <2> QED BY <2>1, <2>3, <2>4, <2>5 DEF Blocked
<1>2. ASSUME Types, [Next]_vars
      PROVE  [\A h \in Home, g \in Home :
                Blocked(h, g) => Blocked(h, g)' \/ installed'[h] # installed[h]]_vars
  BY <1>1, <1>2
<1>3. Types /\ [Next]_vars => Types'
  BY TypesStep
<1> QED BY TypesInit, <1>2, <1>3, PTL DEF Spec, BlockedForGood

-----------------------------------------------------------------------------
(* What a pull or an import has got past.                                   *)

\* The queue is what was fetched, less what has been submitted.
LEMMA FetchedStep ==
  ASSUME Types, FetchedIsHeld, [Next]_vars
  PROVE  FetchedIsHeld'
<1> SUFFICES ASSUME NEW v \in Worker, local'[v].pc \in {"pulling", "importing"},
                    NEW p \in Bag(local'[v].got) \ local'[v].queue
             PROVE  store'[local'[v].home][p] = local'[v].got[p]
  BY DEF FetchedIsHeld
<1>1. CASE local'[v] = local[v]
  <2>1. store[local[v].home][p] = local[v].got[p] /\ local[v].got[p] # 0 /\ p \in Packet
    BY <1>1 DEF FetchedIsHeld, Bag
  <2>2. local[v].home \in Home
    BY <1>1 DEF Types, AtWork
  <2> QED BY <1>1, <2>1, <2>2, ObjectsStay
<1>2. CASE local'[v].queue = Bag(local'[v].got)
  BY <1>2
<1>3. CASE SubmitNext(v)
  <2> DEFINE h == local[v].home
             q == Next1(v)
  <2>1. /\ h \in Home /\ q \in Packet
        /\ store' = [store EXCEPT ![h][q] = local[v].got[q]]
        /\ Becomes(v, [local[v] EXCEPT !.queue = @ \ {q}])
    BY <1>3, SubmitStores
  <2>2. local[v] \in Locals /\ local[v].pc \in {"pulling", "importing"}
    BY <1>3 DEF SubmitNext, Types, TypeOK
  <2> HIDE DEF q
  <2>3. /\ local'[v].home = h /\ local'[v].got = local[v].got
        /\ local'[v].queue = local[v].queue \ {q}
    BY <2>1, <2>2 DEF Becomes, Types, TypeOK, Locals
  <2>4. CASE p = q
    BY <2>1, <2>3, <2>4 DEF Types, TypeOK, Stores
  <2>5. CASE p # q
    <3>1. store[h][p] = local[v].got[p]
      BY <2>2, <2>3, <2>5 DEF FetchedIsHeld
    <3> QED BY <2>1, <2>3, <2>5, <3>1 DEF Types, TypeOK, Stores
  <2> QED BY <2>4, <2>5
<1>4. \/ local'[v] = local[v]
      \/ local'[v].queue = Bag(local'[v].got)
      \/ SubmitNext(v)
  <2>1. CASE \E h \in Home : Import(v, h)
    BY <2>1 DEF Import, Begins, Becomes, Types, TypeOK, Idle
  <2> QED BY <2>1, WhoMoves, PullKind, ServeKind, EditKind, CrashKind DEF Moved
<1> QED BY <1>1, <1>2, <1>3, <1>4

LEMMA FetchedInit == Init => FetchedIsHeld
BY DEF Init, FetchedIsHeld, Idle

\* w1.py:326, sharing.py:62, at any number of homes and processes.
THEOREM FetchedStays == Spec => []FetchedIsHeld
<1>1. Types /\ FetchedIsHeld /\ [Next]_vars => Types' /\ FetchedIsHeld'
  BY TypesStep, FetchedStep
<1> QED BY TypesInit, FetchedInit, <1>1, PTL DEF Spec

-----------------------------------------------------------------------------
(* What a snapshot needs goes with it.                                      *)

Supplied ==
  /\ \A p \in Bag(snapshot.packets) : Under[p] \in snapshot.constitutions
  /\ \A w \in Worker : local[w].pc = "importing" =>
       \A p \in local[w].queue : Under[p] \in installed[local[w].home]

LEMMA InstalledStays ==
  ASSUME Types, [Next]_vars, NEW h \in Home
  PROVE  installed[h] \subseteq installed'[h]
<1>1. ASSUME NEW w \in Worker, NEW g \in Home, Import(w, g)
      PROVE  installed[h] \subseteq installed'[h]
  BY <1>1 DEF Import, Types, TypeOK
<1>2. ASSUME NEW g \in Home, NEW c \in Constitution, Install(g, c)
      PROVE  installed[h] \subseteq installed'[h]
  BY <1>2 DEF Install, Types, TypeOK
<1>3. \/ installed' = installed
      \/ \E w \in Worker, g \in Home : Import(w, g)
      \/ \E g \in Home, c \in Constitution : Install(g, c)
  BY DEF Next, vars, content, Propose, Export, Expire, Edit, OpenPeers, WritePeers, CheckPid,
         ServeStep, Bind, WritePid, Stop, RemovePid, Pull, Replicate, PullStep, Fetch,
         FetchFails, SubmitNext, StopAtRefusal, Finish, Crash
<1> QED BY <1>1, <1>2, <1>3

LEMMA SuppliedStep ==
  ASSUME Types, Supplied, [Next]_vars
  PROVE  Supplied'
<1>1. ASSUME NEW p \in Bag(snapshot'.packets)
      PROVE  Under[p] \in snapshot'.constitutions
  <2>1. CASE snapshot' = snapshot
    BY <1>1, <2>1 DEF Supplied
  <2>2. ASSUME NEW h \in Home, Export(h)
        PROVE  Under[p] \in snapshot'.constitutions
    BY <1>1, <2>2 DEF Export, Bag, Exported
  <2>3. snapshot' = snapshot \/ \E h \in Home : Export(h)
    BY DEF Next, vars, content, Install, Propose, Expire, Edit, OpenPeers, WritePeers,
           CheckPid, ServeStep, Bind, WritePid, Stop, RemovePid, Pull, Replicate, PullStep,
           Fetch, FetchFails, SubmitNext, StopAtRefusal, Finish, Import, Crash
  <2> QED BY <2>1, <2>2, <2>3
<1>2. ASSUME NEW v \in Worker, local'[v].pc = "importing", NEW p \in local'[v].queue
      PROVE  Under[p] \in installed'[local'[v].home]
  <2>1. CASE local'[v] = local[v]
    <3>1. local[v].home \in Home
      BY <1>2, <2>1 DEF Types, AtWork
    <3> QED BY <1>2, <2>1, <3>1, InstalledStays DEF Supplied
  <2>2. ASSUME NEW h \in Home, Import(v, h)
        PROVE  Under[p] \in installed'[local'[v].home]
    <3>1. local'[v].home = h /\ local'[v].queue = Bag(snapshot.packets)
      BY <2>2 DEF Import, Begins, Becomes, Types, TypeOK, Idle
    <3>2. installed'[h] = installed[h] \cup snapshot.constitutions
      BY <2>2 DEF Import, Types, TypeOK
    <3> QED BY <1>2, <3>1, <3>2 DEF Supplied
  <2>3. CASE SubmitNext(v)
    <3>1. local[v] \in Locals /\ local[v].home \in Home
      BY <2>3 DEF SubmitNext, Types, TypeOK, AtWork
    <3>2. /\ local'[v].home = local[v].home /\ local'[v].pc = local[v].pc
          /\ local'[v].queue \subseteq local[v].queue
      BY <2>3, <3>1 DEF SubmitNext, Continues, Becomes, Types, TypeOK, Locals
    <3> QED BY <1>2, <3>1, <3>2, InstalledStays DEF Supplied
  <2> QED BY <1>2, <2>1, <2>2, <2>3, WhoMoves, PullKind, ServeKind, EditKind, CrashKind
          DEF Moved
<1> QED BY <1>1, <1>2 DEF Supplied

LEMMA SuppliedInit == Init => Supplied
BY DEF Init, Supplied, Idle, Bag, Nothing

\* sharing.py:62, for any snapshots and constitutions.
THEOREM ImportStops == Spec => []ImportStopsExplained
<1>1. Types /\ Supplied /\ [Next]_vars => Types' /\ Supplied'
  BY TypesStep, SuppliedStep
<1>2. ASSUME Types, Supplied
      PROVE  ImportStopsExplained
  <2> SUFFICES ASSUME NEW w \in Worker, local[w].pc = "importing", Refused(w)
               PROVE  \/ Next1(w) \in expired
                      \/ store[local[w].home][Next1(w)] \notin {0, local[w].got[Next1(w)]}
    BY DEF ImportStopsExplained
  <2>1. Next1(w) \in local[w].queue
    BY <1>2, NextWaits DEF Refused, Types
  <2>2. Under[Next1(w)] \in installed[local[w].home]
    BY <1>2, <2>1 DEF Supplied
  <2> QED BY <2>2 DEF Refused, Admits, CanStore
<1> QED BY TypesInit, SuppliedInit, <1>1, <1>2, PTL DEF Spec

-----------------------------------------------------------------------------
(* Peer lists.                                                              *)

\* Where no two edits met, the list is what the commands made of it, and the one
\* that is being edited follows from it.
ListKept(h) ==
  /\ \A v, w \in Edits(h) : v = w
  /\ \A w \in Edits(h) :
       local[w].peers \in {wanted[h] \cup {local[w].peer}, wanted[h] \ {local[w].peer}}
  /\ (\A w \in Edits(h) : local[w].pc # "writing") =>
       peers[h] = [json |-> TRUE, list |-> wanted[h]]
  /\ (\E w \in Edits(h) : local[w].pc = "writing") => ~peers[h].json

Lists == \A h \in Home \ muddled : ListKept(h)

LEMMA ListsInit == Init => Lists
BY DEF Init, Lists, ListKept, Edits, Idle

\* Nobody edits the list of h differently than before.
LEMMA SameEdits ==
  ASSUME NEW h \in Home, ListKept(h), peers'[h] = peers[h], wanted'[h] = wanted[h],
         Edits(h)' = Edits(h), \A w \in Edits(h) : local'[w] = local[w]
  PROVE  ListKept(h)'
BY DEF ListKept

LEMMA EditsOf ==
  ASSUME Types, NEW w \in Worker, NEW h \in Home, \A v \in Worker \ {w} : local'[v] = local[v],
         ~(w \in Edits(h)), ~(w \in Edits(h)')
  PROVE  Edits(h)' = Edits(h) /\ \A v \in Edits(h) : local'[v] = local[v]
BY DEF Edits

LEMMA BeginEdit ==
  ASSUME Types, Lists, NEW w \in Worker, NEW g \in Home, NEW k \in Home, Edit(w, g, k),
         NEW h \in Home \ muddled'
  PROVE  ListKept(h)'
<1>1. PICK list \in {ReadPeers(g) \cup {k}, ReadPeers(g) \ {k}} :
        Becomes(w, [Idle EXCEPT !.pc = "editing", !.home = g, !.peer = k, !.peers = list])
  BY DEF Edit, Begins
<1>2. /\ local'[w].pc = "editing" /\ local'[w].home = g
      /\ local'[w].peer = k /\ local'[w].peers = list
      /\ \A v \in Worker \ {w} : local'[v] = local[v]
  BY <1>1 DEF Becomes, Types, TypeOK, Idle
<1>3. /\ local[w].pc = "idle" /\ UNCHANGED <<peers, wanted>>
      /\ muddled \subseteq muddled' /\ (Edits(g) # {} => g \in muddled')
  BY DEF Edit, Begins
<1>4. ListKept(h) /\ w \notin Edits(h)
  BY <1>3 DEF Lists, Edits
<1>5. CASE h # g
  <2>1. w \notin Edits(h)'
    BY <1>2, <1>5 DEF Edits
  <2> QED BY <1>2, <1>3, <1>4, <2>1, EditsOf, SameEdits
<1>6. CASE h = g
  <2>1. Edits(h) = {}
    BY <1>3, <1>6
  <2>2. Edits(h)' = {w}
    BY <1>2, <1>6, <2>1 DEF Edits
  <2>3. peers[h] = [json |-> TRUE, list |-> wanted[h]]
    BY <1>4, <2>1 DEF ListKept
  <2>4. list \in {wanted[h] \cup {k}, wanted[h] \ {k}}
    BY <1>6, <2>3 DEF ReadPeers
  <2> QED BY <1>2, <1>3, <2>2, <2>3, <2>4 DEF ListKept
<1> QED BY <1>5, <1>6

LEMMA OpenEdit ==
  ASSUME Types, Lists, NEW w \in Worker, OpenPeers(w), NEW h \in Home \ muddled'
  PROVE  ListKept(h)'
<1>1. local[w] \in Locals /\ local[w].pc = "editing" /\ local[w].home \in Home
  BY DEF OpenPeers, Types, TypeOK, AtWork
<1>2. /\ local'[w] = [local[w] EXCEPT !.pc = "writing"]
      /\ \A v \in Worker \ {w} : local'[v] = local[v]
  BY DEF OpenPeers, Continues, Becomes, Types, TypeOK
<1>3. /\ local'[w].pc = "writing" /\ local'[w].home = local[w].home
      /\ local'[w].peer = local[w].peer /\ local'[w].peers = local[w].peers
  BY <1>1, <1>2 DEF Locals
<1>4. /\ UNCHANGED <<wanted, muddled>>
      /\ peers' = [peers EXCEPT ![local[w].home] = [json |-> FALSE, list |-> {}]]
  BY DEF OpenPeers
<1>5. ListKept(h)
  BY <1>4 DEF Lists
<1>6. CASE h # local[w].home
  <2>1. w \notin Edits(h) /\ w \notin Edits(h)' /\ peers'[h] = peers[h]
    BY <1>3, <1>4, <1>6 DEF Edits, Types, TypeOK
  <2> QED BY <1>2, <1>4, <1>5, <2>1, EditsOf, SameEdits
<1>7. CASE h = local[w].home
  <2>1. w \in Edits(h) /\ Edits(h)' = Edits(h)
    <3>1. w \in Edits(h) /\ w \in Edits(h)'
      BY <1>1, <1>3, <1>7 DEF Edits
    <3>2. \A v \in Worker \ {w} : v \in Edits(h)' <=> v \in Edits(h)
      BY <1>2 DEF Edits
    <3> QED BY <3>1, <3>2 DEF Edits
  <2>2. ~peers'[h].json
    BY <1>4, <1>7 DEF Types, TypeOK
  <2>3. \A v \in Edits(h) : v = w
    BY <1>5, <2>1 DEF ListKept
  <2> QED BY <1>3, <1>4, <1>5, <2>1, <2>2, <2>3 DEF ListKept
<1> QED BY <1>6, <1>7

LEMMA EndEdit ==
  ASSUME Types, Lists, NEW w \in Worker, WritePeers(w), NEW h \in Home \ muddled'
  PROVE  ListKept(h)'
<1> DEFINE me == local[w]
<1>1. me.pc = "writing" /\ me.home \in Home /\ me.peer \in Home
  BY DEF WritePeers, Types, TypeOK, AtWork
<1>2. /\ local'[w] = Idle /\ \A v \in Worker \ {w} : local'[v] = local[v]
      /\ w \notin Edits(h)'
  BY DEF WritePeers, Continues, Becomes, Types, TypeOK, Edits, Idle
<1>3. /\ UNCHANGED muddled
      /\ wanted' = [wanted EXCEPT ![me.home] =
           IF me.peer \in me.peers THEN @ \cup {me.peer} ELSE @ \ {me.peer}]
      /\ peers' = [peers EXCEPT ![me.home] =
           IF @.json /\ Cardinality(@.list) > Cardinality(me.peers)
           THEN [json |-> FALSE, list |-> {}] ELSE [json |-> TRUE, list |-> me.peers]]
  BY DEF WritePeers
<1>4. ListKept(h)
  BY <1>3 DEF Lists
<1>5. CASE h # me.home
  <2>1. w \notin Edits(h) /\ peers'[h] = peers[h] /\ wanted'[h] = wanted[h]
    BY <1>1, <1>3, <1>5 DEF Edits, Types, TypeOK
  <2> QED BY <1>2, <1>4, <2>1, EditsOf, SameEdits
<1>6. CASE h = me.home
  <2>1. w \in Edits(h)
    BY <1>1, <1>6 DEF Edits
  <2>2. Edits(h)' = {}
    BY <1>2, <1>4, <2>1 DEF ListKept, Edits
  <2>3. ~peers[h].json /\ me.peers \in {wanted[h] \cup {me.peer}, wanted[h] \ {me.peer}}
    BY <1>1, <1>4, <2>1 DEF ListKept
  <2>4. peers'[h] = [json |-> TRUE, list |-> me.peers]
    BY <1>3, <1>6, <2>3 DEF Types, TypeOK
  <2>5. wanted'[h] = me.peers
    BY <1>3, <1>6, <2>3 DEF Types, TypeOK
  <2> QED BY <2>2, <2>4, <2>5 DEF ListKept
<1> QED BY <1>5, <1>6

LEMMA CrashEdit ==
  ASSUME Types, Lists, NEW w \in Worker, Crash(w), NEW h \in Home \ muddled'
  PROVE  ListKept(h)'
<1>1. /\ local'[w] = Idle /\ \A v \in Worker \ {w} : local'[v] = local[v]
      /\ w \notin Edits(h)' /\ UNCHANGED <<peers, wanted>>
  BY DEF Crash, Becomes, Types, TypeOK, Edits, Idle
<1>2. ListKept(h)
  BY DEF Crash, Lists
<1>3. CASE w \notin Edits(h)
  BY <1>1, <1>2, <1>3, EditsOf, SameEdits
<1>4. CASE w \in Edits(h)
  <2>1. local[w].pc # "writing"
    BY <1>4 DEF Crash, Edits
  <2>2. Edits(h)' = {}
    BY <1>1, <1>2, <1>4 DEF ListKept, Edits
  <2>3. peers[h] = [json |-> TRUE, list |-> wanted[h]]
    BY <1>2, <1>4, <2>1 DEF ListKept
  <2> QED BY <1>1, <2>2, <2>3 DEF ListKept
<1> QED BY <1>3, <1>4

LEMMA ListsStep ==
  ASSUME Types, Lists, [Next]_vars
  PROVE  Lists'
<1> SUFFICES ASSUME NEW h \in Home \ muddled'
             PROVE  ListKept(h)'
  BY DEF Lists
<1>1. CASE UNCHANGED <<local, listFiles>>
  <2>1. ListKept(h)
    BY <1>1 DEF Lists, listFiles
  <2> QED BY <1>1, <2>1, SameEdits DEF Edits, listFiles
<1>2. ASSUME NEW w \in Worker, UNCHANGED listFiles,
             \A v \in Worker \ {w} : local'[v] = local[v],
             local[w].pc \notin {"editing", "writing"}, local'[w].pc \notin {"editing", "writing"}
      PROVE  ListKept(h)'
  <2>1. ListKept(h) /\ w \notin Edits(h) /\ w \notin Edits(h)'
    BY <1>2 DEF Lists, listFiles, Edits
  <2> QED BY <1>2, <2>1, EditsOf, SameEdits DEF listFiles
<1>3. ASSUME NEW w \in Worker, Moved(w)
      PROVE  ListKept(h)'
  <2>1. \A v \in Worker \ {w} : local'[v] = local[v]
    BY <1>3, OthersRest DEF Types, TypeOK
  <2> QED BY <1>2, <1>3, <2>1, PullKind, ServeKind, BeginEdit, OpenEdit, EndEdit, CrashEdit
          DEF Moved
<1>4. (\E w \in Worker : Moved(w)) \/ UNCHANGED <<local, listFiles>>
  BY DEF Next, Moved, vars, Install, Propose, Export, Expire
<1> QED BY <1>1, <1>3, <1>4

\* w1.py:297, for any peers and any number of processes.
THEOREM FollowsKept == Spec => []FollowsExplained
<1>1. Types /\ Lists /\ [Next]_vars => Types' /\ Lists'
  BY TypesStep, ListsStep
<1>2. Lists => FollowsExplained
  BY DEF Lists, ListKept, FollowsExplained
<1> QED BY TypesInit, ListsInit, <1>1, <1>2, PTL DEF Spec

-----------------------------------------------------------------------------
(* Servers.                                                                 *)

\* Where no two servers were starting at once there is one server process at
\* most, and the pid file of one that serves or is stopping is its own.
OneProcess(h) ==
  /\ \A v, w \in Worker : Alive(v, h) /\ Alive(w, h) => v = w
  /\ \A w \in Worker : Alive(w, h) /\ local[w].pc \in {"serving", "closed"} => pid[h] = w

Servers == \A h \in Home \ raced : OneProcess(h)

LEMMA ServersInit == Init => Servers
BY DEF Init, Servers, OneProcess, Alive, Idle

\* Who is alive stays so, except that w may be gone.
LEMMA NoNewServer ==
  ASSUME NEW h \in Home, OneProcess(h), NEW w \in Worker, pid'[h] = pid[h],
         \A v \in Worker \ {w} : local'[v] = local[v],
         Alive(w, h)' => Alive(w, h) /\ (local'[w].pc \in {"serving", "closed"} => pid[h] = w)
  PROVE  OneProcess(h)'
<1>1. \A v \in Worker : Alive(v, h)' => Alive(v, h)
  BY DEF Alive
<1>2. \A v \in Worker \ {w} : Alive(v, h)' => local'[v].pc = local[v].pc
  OBVIOUS
<1> QED BY <1>1, <1>2 DEF OneProcess

LEMMA BeginServer ==
  ASSUME Types, Servers, NEW w \in Worker, NEW g \in Home, CheckPid(w, g),
         NEW h \in Home \ raced'
  PROVE  OneProcess(h)'
<1>1. /\ local'[w].pc = "checked" /\ local'[w].home = g
      /\ \A v \in Worker \ {w} : local'[v] = local[v]
  BY DEF CheckPid, Begins, Becomes, Types, TypeOK, Idle
<1>2. OneProcess(h)
  BY DEF CheckPid, Servers
<1>3. CASE h # g
  <2>1. pid'[h] = pid[h] /\ ~Alive(w, h)'
    BY <1>1, <1>3 DEF CheckPid, Alive, Types, TypeOK
  <2> QED BY <1>1, <1>2, <2>1, NoNewServer
<1>4. CASE h = g
  <2>1. Starting(h) = {} /\ ~Alive(pid[h], h)
    BY <1>4 DEF CheckPid
  <2>2. \A v \in Worker : ~Alive(v, h)
    BY <1>2, <2>1 DEF OneProcess, Alive, Starting
  <2>3. \A v \in Worker : Alive(v, h)' => v = w
    BY <1>1, <2>2 DEF Alive
  <2> QED BY <1>1, <2>3 DEF OneProcess
<1> QED BY <1>3, <1>4

LEMMA ServerSteps ==
  ASSUME Types, Servers, NEW w \in Worker, ServeStep(w), NEW h \in Home \ raced'
  PROVE  OneProcess(h)'
<1>1. local[w] \in Locals /\ local[w].home \in Home /\ raced' = raced
  BY DEF ServeStep, Bind, WritePid, Stop, RemovePid, servers, Types, TypeOK, AtWork
<1>2. OneProcess(h)
  BY <1>1 DEF Servers
<1>3. \A v \in Worker \ {w} : local'[v] = local[v]
  BY OthersRest DEF Moved, Types, TypeOK
<1>4. CASE Bind(w)
  <2>1. /\ local'[w].pc \in {"bound", "idle"} /\ pid' = pid
        /\ local'[w].pc # "idle" => local'[w].home = local[w].home
        /\ local[w].pc = "checked"
    <3>1. /\ local[w].pc = "checked" /\ pid' = pid
          /\ \/ local'[w] = [local[w] EXCEPT !.pc = "bound"]
             \/ local'[w] = [local[w] EXCEPT !.pc = "bound", !.peer = local[w].home]
             \/ local'[w] = Idle
      BY <1>4 DEF Bind, Continues, Becomes, Types, TypeOK, servers
    <3>2. CASE local'[w] = [local[w] EXCEPT !.pc = "bound"]
      BY <1>1, <3>1, <3>2, Relabelled
    <3>3. CASE local'[w] = [local[w] EXCEPT !.pc = "bound", !.peer = local[w].home]
      BY <1>1, <3>1, <3>3 DEF Locals
    <3>4. CASE local'[w] = Idle
      BY <3>1, <3>4 DEF Idle
    <3> QED BY <3>1, <3>2, <3>3, <3>4
  <2>2. Alive(w, h)' => Alive(w, h)
    BY <2>1 DEF Alive
  <2> QED BY <1>2, <1>3, <2>1, <2>2, NoNewServer
<1>5. CASE WritePid(w)
  <2>1. local'[w].pc = "serving" /\ local'[w].home = local[w].home /\ local[w].pc = "bound"
    BY <1>1, <1>5, Relabelled DEF WritePid, Continues, Becomes, Types, TypeOK
  <2>2. pid' = [pid EXCEPT ![local[w].home] = w]
    BY <1>5 DEF WritePid
  <2>3. CASE h # local[w].home
    <3>1. pid'[h] = pid[h] /\ ~Alive(w, h)'
      BY <1>1, <2>1, <2>2, <2>3 DEF Alive, Types, TypeOK
    <3> QED BY <1>2, <1>3, <3>1, NoNewServer
  <2>4. CASE h = local[w].home
    <3>1. Alive(w, h) /\ pid'[h] = w
      BY <2>1, <2>2, <2>4 DEF Alive, Types, TypeOK
    <3>2. \A v \in Worker : Alive(v, h)' => v = w
      BY <1>2, <1>3, <3>1 DEF OneProcess, Alive
    <3> QED BY <3>1, <3>2 DEF OneProcess
  <2> QED BY <2>3, <2>4
<1>6. CASE Stop(w)
  <2>1. /\ local'[w].pc = "closed" /\ local'[w].home = local[w].home
        /\ local[w].pc = "serving" /\ pid' = pid
    BY <1>1, <1>6, Relabelled DEF Stop, Continues, Becomes, Types, TypeOK, servers
  <2>2. Alive(w, h)' => Alive(w, h) /\ pid[h] = w
    BY <1>2, <2>1 DEF OneProcess, Alive
  <2> QED BY <1>2, <1>3, <2>1, <2>2, NoNewServer
<1>7. CASE RemovePid(w)
  <2>1. /\ local'[w].pc = "idle" /\ local[w].pc = "closed"
        /\ pid' = [pid EXCEPT ![local[w].home] = NoWorker]
    BY <1>7 DEF RemovePid, Continues, Becomes, Types, TypeOK, Idle
  <2>2. ~Alive(w, h)'
    BY <2>1 DEF Alive
  <2>3. CASE h # local[w].home
    BY <1>1, <1>2, <1>3, <2>1, <2>2, <2>3, NoNewServer DEF Types, TypeOK
  <2>4. CASE h = local[w].home
    <3>1. Alive(w, h)
      BY <2>1, <2>4 DEF Alive
    <3>2. \A v \in Worker : ~Alive(v, h)'
      BY <1>2, <1>3, <2>2, <3>1 DEF OneProcess, Alive
    <3> QED BY <3>2 DEF OneProcess
  <2> QED BY <2>3, <2>4
<1> QED BY <1>4, <1>5, <1>6, <1>7 DEF ServeStep

LEMMA ServersStep ==
  ASSUME Types, Servers, [Next]_vars
  PROVE  Servers'
<1> SUFFICES ASSUME NEW h \in Home \ raced'
             PROVE  OneProcess(h)'
  BY DEF Servers
<1>1. CASE UNCHANGED <<local, servers>>
  BY <1>1 DEF Servers, OneProcess, Alive, servers
<1>2. ASSUME NEW w \in Worker, UNCHANGED servers, \A v \in Worker \ {w} : local'[v] = local[v],
             local'[w].pc \notin {"checked", "bound", "serving", "closed"}
      PROVE  OneProcess(h)'
  <2>1. OneProcess(h) /\ pid'[h] = pid[h] /\ ~Alive(w, h)'
    BY <1>2 DEF Servers, servers, Alive
  <2> QED BY <1>2, <2>1, NoNewServer
<1>3. ASSUME NEW w \in Worker, Moved(w)
      PROVE  OneProcess(h)'
  <2>1. \A v \in Worker \ {w} : local'[v] = local[v]
    BY <1>3, OthersRest DEF Types, TypeOK
  <2> QED BY <1>2, <1>3, <2>1, PullKind, EditKind, CrashKind, BeginServer, ServerSteps
          DEF Moved
<1>4. (\E w \in Worker : Moved(w)) \/ UNCHANGED <<local, servers>>
  BY DEF Next, Moved, vars, Install, Propose, Export, Expire
<1> QED BY <1>1, <1>3, <1>4

LEMMA AtMostOne ==
  ASSUME NEW S, \A v, w \in S : v = w
  PROVE  Cardinality(S) <= 1
<1>1. CASE S = {}
  BY <1>1, FS_EmptySet
<1>2. CASE S # {}
  <2>1. PICK v \in S : S = {v}
    BY <1>2
  <2> QED BY <2>1, FS_Singleton
<1> QED BY <1>1, <1>2

\* w1.py:412, for any homes and any number of servers.
THEOREM OneServer == Spec => []OneServerUnlessRaced
<1>1. Types /\ Servers /\ [Next]_vars => Types' /\ Servers'
  BY TypesStep, ServersStep
<1>2. ASSUME Servers
      PROVE  OneServerUnlessRaced
  <2> SUFFICES ASSUME NEW h \in Home \ raced
               PROVE  Cardinality(Served(h)) <= 1
    BY DEF OneServerUnlessRaced
  <2>1. \A v, w \in Served(h) : v = w
    BY <1>2 DEF Servers, OneProcess, Alive, Served
  <2> QED BY <2>1, AtMostOne
<1> QED BY TypesInit, ServersInit, <1>1, <1>2, PTL DEF Spec
=============================================================================
