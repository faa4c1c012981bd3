--------------------------------- MODULE Mesh ---------------------------------
(***************************************************************************)
(* The mesh daemon (commons_node.py): nodes that admit packets, tell their *)
(* peers, fetch what they are told of, replicate from a peer and note      *)
(* contradictions.  Every node runs request threads and one replication    *)
(* thread.  submit_packet holds the node's lock; /resolve writes the same  *)
(* store and ledger without it; gossip, fetches and replication run        *)
(* outside it.                                                             *)
(*                                                                         *)
(* A crash is followed by a restart, which reads conflicts and resolutions *)
(* back from disk.  Requests between nodes may fail at any time.  A torn   *)
(* conflict or resolution file is skipped by the restart and so counts as  *)
(* no file.  Heartbeats and fork records are outside this module.          *)
(***************************************************************************)
EXTENDS Naturals, Sequences, SequencesExt, FiniteSets

CONSTANTS
  Node,
  Packet,         \* signed packets, by packet id
  Resolution,     \* resolution ids
  Peers,          \* node -> the nodes it was started with as peers
  Admits,         \* node -> the packets its policy and constitutions accept
  Contradicts,    \* packet -> the packets it contradicts
  Findings,       \* resolution -> the packets that publish it when signed
  Reconciler,     \* nodes of role reconciliation
  Handler,        \* names of request threads
  Handlers,       \* node -> its request threads
  Replicator,     \* the replication thread of every node
  NoPacket, NoResolution,
  MaxRequests,    \* bound: requests of clients in a behaviour
  MaxRounds,      \* bound: replication rounds in a behaviour
  MaxCrashes      \* bound: crashes in a behaviour

ASSUME MeshAssumption ==
  /\ Peers \in [Node -> SUBSET Node]
  /\ Admits \in [Node -> SUBSET Packet]
  /\ Contradicts \in [Packet -> SUBSET Packet]
  /\ Findings \in [Resolution -> SUBSET Packet]
  /\ Handlers \in [Node -> SUBSET Handler]
  /\ Replicator \notin Handler
  /\ NoPacket \notin Packet /\ NoResolution \notin Resolution

\* A packet names what it contradicts by digest, and so never itself; a
\* finding that publishes a resolution contradicts nothing (:990).
ASSUME ContradictsAssumption ==
  /\ \A p \in Packet : p \notin Contradicts[p]
  /\ \A r \in Resolution : \A p \in Findings[r] : Contradicts[p] = {}

ASSUME BoundsAssumption ==
  MaxRequests \in Nat /\ MaxRounds \in Nat /\ MaxCrashes \in Nat

VARIABLES
  object,           \* objects/: absent, torn or whole, per node and packet
  ledger,           \* ledger.jsonl: the blocks of each node
  seen,             \* _seen_tips: packets a node has been told of
  conflicts,        \* _conflicts: contradicting pairs
  conflictFiles,    \* conflicts/
  resolutions,      \* _resolutions
  resolutionFiles,  \* resolutions/
  thread,           \* locals, per node and thread
  wire,             \* tip gossip a server has accepted and not handled yet
  requests,         \* history: requests of clients so far
  rounds,           \* history: replication rounds so far
  crashes,          \* history: crashes so far
  crashed,          \* history: nodes that have crashed
  lost              \* history: some request between nodes has failed

store == <<object, ledger>>
memory == <<seen, conflicts, resolutions>>
files == <<conflictFiles, resolutionFiles>>
history == <<requests, rounds, crashes, crashed, lost>>
vars == <<store, memory, files, thread, wire, history>>

-----------------------------------------------------------------------------
Absent == "absent"    Torn == "torn"    Whole == "whole"

\* A block hash covers signer, height, packet and the hash before it, hence
\* the headers of all blocks behind it.
Headers == [signer : Node, height : Nat, packet : Packet]
Hashes == Seq(Headers)
Genesis == <<>>
Blocks == [header : Headers, previous : Hashes]
Hash(block) == Append(block.previous, block.header)
Tip(n) == IF ledger[n] = <<>> THEN Genesis ELSE Hash(Last(ledger[n]))
Height(n) == IF ledger[n] = <<>> THEN 0 ELSE Last(ledger[n]).header.height

Committed(n) == {ledger[n][i].header.packet : i \in DOMAIN ledger[n]}
Pairs == {{p, q} : p, q \in Packet}    \* conflict ids: the sorted packet ids
FindingPackets == UNION {Findings[r] : r \in Resolution}

Thread == Handler \cup {Replicator}
LockedSteps == {"create", "fill", "blocks", "append", "check", "note"}
Labels == LockedSteps \cup
  {"idle", "hear", "pull", "admit", "tell", "resolve", "file", "publish", "asked", "compare"}
Origins == {"client", "gossip", "replica", "resolve"}

Locals ==
  [pc : Labels, origin : Origins, packet : Packet \cup {NoPacket},
   left : SUBSET Node,          \* peers still to try, to tell or to hear
   against : SUBSET Packet,     \* contradicted packets still to look up
   rival : Packet \cup {NoPacket},
   resolution : Resolution \cup {NoResolution},
   tip : Hashes, height : Nat,  \* what replication, then append, has read
   queue : SUBSET (Nat \X Blocks)]   \* a peer's blocks still to be taken, by position

Idle ==
  [pc |-> "idle", origin |-> "client", packet |-> NoPacket, left |-> {},
   against |-> {}, rival |-> NoPacket, resolution |-> NoResolution,
   tip |-> Genesis, height |-> 0, queue |-> {}]

Init ==
  /\ object = [n \in Node |-> [p \in Packet |-> Absent]]
  /\ ledger = [n \in Node |-> <<>>]
  /\ seen = [n \in Node |-> {}]
  /\ conflicts = [n \in Node |-> {}]
  /\ conflictFiles = [n \in Node |-> {}]
  /\ resolutions = [n \in Node |-> {}]
  /\ resolutionFiles = [n \in Node |-> {}]
  /\ thread = [n \in Node |-> [t \in Thread |-> Idle]]
  /\ wire = {}
  /\ requests = 0
  /\ rounds = 0
  /\ crashes = 0
  /\ crashed = {}
  /\ lost = FALSE

Becomes(n, t, locals) == thread' = [thread EXCEPT ![n][t] = locals]
Goto(n, t, label) == Becomes(n, t, [thread[n][t] EXCEPT !.pc = label])

\* The peers that are still to be told of a packet.
ToTell(p, peers) ==
  IF peers = {} THEN Idle
  ELSE [Idle EXCEPT !.pc = "tell", !.packet = p, !.left = peers]

HoldsLock(n, t) ==
  thread[n][t].pc \in LockedSteps /\ thread[n][t].origin # "resolve"

-----------------------------------------------------------------------------
(* Admission: submit_packet, called by /submit and /propose, by a fetch and *)
(* by replication.                                                          *)

\* A packet that publishes a resolution exists once it has been signed.
Signed(p) == p \in FindingPackets => \E m \in Node : object[m][p] # Absent

Submit(n, t, p) ==
  /\ thread[n][t].pc = "idle"
  /\ requests < MaxRequests
  /\ Signed(p) /\ p \in Admits[n]
  /\ Becomes(n, t, [Idle EXCEPT !.pc = "admit", !.packet = p])
  /\ requests' = requests + 1
  /\ UNCHANGED <<store, memory, files, wire, rounds, crashes, crashed, lost>>

\* Seeded fault: admission does not take the lock.
AdmitUnlocked(n, t) ==
  LET me == thread[n][t] IN
  /\ me.pc = "admit"
  /\ Becomes(n, t, IF object[n][me.packet] = Absent
                   THEN [me EXCEPT !.pc = "create"]
                   ELSE [me EXCEPT !.pc = "check", !.against = Contradicts[me.packet]])
  /\ UNCHANGED <<store, memory, files, wire, history>>

\* The lock is taken, and the object found or not.
Admit(n, t) ==
  LET me == thread[n][t] IN
  /\ me.pc = "admit"
  /\ \A u \in Thread : ~HoldsLock(n, u)
  /\ Becomes(n, t, IF object[n][me.packet] = Absent
                   THEN [me EXCEPT !.pc = "create"]
                   ELSE [me EXCEPT !.pc = "check", !.against = Contradicts[me.packet]])
  /\ UNCHANGED <<store, memory, files, wire, history>>

OpenObject(n, t) ==
  /\ thread[n][t].pc = "create"
  /\ object' = [object EXCEPT ![n][thread[n][t].packet] = Torn]
  /\ Goto(n, t, "fill")
  /\ UNCHANGED <<ledger, memory, files, wire, history>>

\* Seeded fault: the text is never flushed to the file.
WriteUnflushed(n, t) ==
  /\ thread[n][t].pc = "fill"
  /\ Goto(n, t, "blocks")
  /\ UNCHANGED <<store, memory, files, wire, history>>

WriteObject(n, t) ==
  /\ thread[n][t].pc = "fill"
  /\ object' = [object EXCEPT ![n][thread[n][t].packet] = Whole]
  /\ Goto(n, t, "blocks")
  /\ UNCHANGED <<ledger, memory, files, wire, history>>

ReadBlocks(n, t) ==
  /\ thread[n][t].pc = "blocks"
  /\ Becomes(n, t, [thread[n][t] EXCEPT
       !.pc = "append", !.tip = Tip(n), !.height = Len(ledger[n]) + 1])
  /\ UNCHANGED <<store, memory, files, wire, history>>

\* Seeded fault: an accepted packet is returned before the conflict check.
AppendUnchecked(n, t) ==
  LET me == thread[n][t]
      header == [signer |-> n, height |-> me.height, packet |-> me.packet]
  IN
  /\ me.pc = "append"
  /\ ledger' = [ledger EXCEPT
       ![n] = Append(@, [header |-> header, previous |-> me.tip])]
  /\ Becomes(n, t, Idle)
  /\ UNCHANGED <<object, memory, files, wire, history>>

\* Only what a client submits, and a resolution, is told to the peers.
AppendBlock(n, t) ==
  LET me == thread[n][t]
      header == [signer |-> n, height |-> me.height, packet |-> me.packet]
  IN
  /\ me.pc = "append"
  /\ ledger' = [ledger EXCEPT
       ![n] = Append(@, [header |-> header, previous |-> me.tip])]
  /\ Becomes(n, t,
       IF me.origin = "resolve" THEN ToTell(me.packet, Peers[n])
       ELSE [me EXCEPT
               !.pc = "check", !.against = Contradicts[me.packet],
               !.left = IF me.origin = "client" THEN Peers[n] ELSE {},
               !.tip = Genesis, !.height = 0])
  /\ UNCHANGED <<object, memory, files, wire, history>>

\* One contradicted packet: not here, known, or a new conflict.
CheckConflict(n, t, q) ==
  LET me == thread[n][t]
      pair == {me.packet, q}
  IN
  /\ me.pc = "check" /\ q \in me.against
  /\ \/ /\ object[n][q] = Absent \/ pair \in conflicts[n]
        /\ Becomes(n, t, [me EXCEPT !.against = @ \ {q}])
        /\ UNCHANGED conflicts
     \/ /\ object[n][q] # Absent /\ pair \notin conflicts[n]
        /\ conflicts' = [conflicts EXCEPT ![n] = @ \cup {pair}]
        /\ Becomes(n, t, [me EXCEPT !.pc = "note", !.against = @ \ {q}, !.rival = q])
  /\ UNCHANGED <<store, seen, resolutions, files, wire, history>>

WriteConflict(n, t) ==
  LET me == thread[n][t] IN
  /\ me.pc = "note"
  /\ conflictFiles' = [conflictFiles EXCEPT ![n] = @ \cup {{me.packet, me.rival}}]
  /\ Becomes(n, t, [me EXCEPT !.pc = "check", !.rival = NoPacket])
  /\ UNCHANGED <<store, memory, resolutionFiles, wire, history>>

\* The lock is released and the result goes to the caller.
Admitted(n, t) ==
  LET me == thread[n][t] IN
  /\ me.pc = "check" /\ me.against = {}
  /\ Becomes(n, t,
       IF me.origin = "replica"
       THEN [Idle EXCEPT !.pc = "compare", !.origin = "replica", !.queue = me.queue]
       ELSE ToTell(me.packet, me.left))
  /\ UNCHANGED <<store, memory, files, wire, history>>

-----------------------------------------------------------------------------
(* Gossip: told once, to the configured peers, and fetched once.            *)

Tell(n, t, m) ==
  LET me == thread[n][t] IN
  /\ me.pc = "tell" /\ m \in me.left
  /\ \/ /\ wire' = wire \cup {[to |-> m, from |-> n, packet |-> me.packet]}
        /\ UNCHANGED lost
     \/ /\ lost' = TRUE
        /\ UNCHANGED wire
  /\ Becomes(n, t, ToTell(me.packet, me.left \ {m}))
  /\ UNCHANGED <<store, memory, files, requests, rounds, crashes, crashed>>

HearTip(n, t, gossip) ==
  /\ thread[n][t].pc = "idle"
  /\ gossip \in wire /\ gossip.to = n
  /\ wire' = wire \ {gossip}
  /\ Becomes(n, t,
       IF gossip.packet \in seen[n] THEN Idle
       ELSE [Idle EXCEPT !.pc = "hear", !.origin = "gossip",
                         !.packet = gossip.packet, !.left = {gossip.from}])
  /\ UNCHANGED <<store, memory, files, history>>

\* The tip is noted.  The sender is looked up among the peers by its health
\* page; if it does not answer or is no peer, every peer is asked.
NoteTip(n, t, found) ==
  LET me == thread[n][t]
      asked == IF found THEN me.left ELSE Peers[n]
  IN
  /\ me.pc = "hear"
  /\ seen' = [seen EXCEPT ![n] = @ \cup {me.packet}]
  /\ found => me.left \subseteq Peers[n]
  /\ lost' = (lost \/ (~found /\ me.left \subseteq Peers[n]))
  /\ Becomes(n, t, IF asked = {} THEN Idle
                   ELSE [me EXCEPT !.pc = "pull", !.left = asked])
  /\ UNCHANGED <<store, conflicts, resolutions, files, wire,
                 requests, rounds, crashes, crashed>>

\* Seeded fault: fire and forget, the packet that comes is not submitted.
FetchAndForget(n, t, m) ==
  LET me == thread[n][t] IN
  /\ me.pc = "pull" /\ m \in me.left
  /\ object[m][me.packet] = Whole
  /\ Becomes(n, t, Idle)
  /\ UNCHANGED <<store, memory, files, wire, history>>

\* A packet that comes is admitted or rejected by the policy.
Fetch(n, t, m) ==
  LET me == thread[n][t] IN
  /\ me.pc = "pull" /\ m \in me.left
  /\ object[m][me.packet] = Whole
  /\ Becomes(n, t, IF me.packet \in Admits[n]
                   THEN [me EXCEPT !.pc = "admit", !.left = {}]
                   ELSE Idle)
  /\ UNCHANGED <<store, memory, files, wire, history>>

FetchFails(n, t, m) ==
  LET me == thread[n][t]
      rest == me.left \ {m}
  IN
  /\ me.pc = "pull" /\ m \in me.left
  /\ lost' = (lost \/ object[m][me.packet] = Whole)
  /\ Becomes(n, t, IF rest = {} THEN Idle ELSE [me EXCEPT !.left = rest])
  /\ UNCHANGED <<store, memory, files, wire, requests, rounds, crashes, crashed>>

-----------------------------------------------------------------------------
(* Replication from one peer at a time.                                     *)

AskReplica(n, m) ==
  /\ thread[n][Replicator].pc = "idle" /\ m \in Peers[n]
  /\ rounds < MaxRounds
  /\ rounds' = rounds + 1
  /\ Becomes(n, Replicator, [Idle EXCEPT
       !.pc = "asked", !.origin = "replica", !.left = {m}, !.height = Height(n)])
  /\ UNCHANGED <<store, memory, files, wire, requests, crashes, crashed, lost>>

\* The peer serves its blocks from the asked height on, that one included,
\* with their packets; an object that is torn makes the answer an error.
HearReplica(n, m) ==
  LET me == thread[n][Replicator]
      served == {i \in DOMAIN ledger[m] : ledger[m][i].header.height >= me.height}
  IN
  /\ me.pc = "asked" /\ m \in me.left
  /\ \A i \in served : object[m][ledger[m][i].header.packet] = Whole
  /\ Becomes(n, Replicator,
       [Idle EXCEPT !.pc = "compare", !.origin = "replica",
                    !.queue = {<<i, ledger[m][i]>> : i \in served}])
  /\ UNCHANGED <<store, memory, files, wire, history>>

ReplicaFails(n) ==
  /\ thread[n][Replicator].pc = "asked"
  /\ Becomes(n, Replicator, Idle)
  /\ lost' = TRUE
  /\ UNCHANGED <<store, memory, files, wire, requests, rounds, crashes, crashed>>

IsNext(entry, queue) == entry \in queue /\ \A other \in queue : entry[1] <= other[1]

\* The next block continues the own tip, and its packet is submitted here.
TakeBlock(n) ==
  LET me == thread[n][Replicator] IN
  /\ me.pc = "compare"
  /\ \E entry \in me.queue :
       /\ IsNext(entry, me.queue)
       /\ entry[2].previous = Tip(n)
       /\ Becomes(n, Replicator,
            IF entry[2].header.packet \in Admits[n]
            THEN [me EXCEPT !.pc = "admit", !.packet = entry[2].header.packet,
                            !.tip = entry[2].previous, !.queue = @ \ {entry}]
            ELSE [me EXCEPT !.queue = @ \ {entry}])
  /\ UNCHANGED <<store, memory, files, wire, history>>

\* No block is left, or the next one does not continue the own tip: a fork.
StopReplication(n) ==
  LET me == thread[n][Replicator] IN
  /\ me.pc = "compare"
  /\ \A entry \in me.queue : IsNext(entry, me.queue) => entry[2].previous # Tip(n)
  /\ Becomes(n, Replicator, Idle)
  /\ UNCHANGED <<store, memory, files, wire, history>>

-----------------------------------------------------------------------------
(* /resolve, on the reconciliation node, without the lock.                  *)

Resolve(n, t, r) ==
  /\ n \in Reconciler
  /\ thread[n][t].pc = "idle"
  /\ requests < MaxRequests
  /\ r \notin resolutions[n]
  /\ Becomes(n, t, [Idle EXCEPT
       !.pc = "resolve", !.origin = "resolve", !.resolution = r])
  /\ requests' = requests + 1
  /\ UNCHANGED <<store, memory, files, wire, rounds, crashes, crashed, lost>>

RememberResolution(n, t) ==
  /\ thread[n][t].pc = "resolve"
  /\ resolutions' = [resolutions EXCEPT ![n] = @ \cup {thread[n][t].resolution}]
  /\ Goto(n, t, "file")
  /\ UNCHANGED <<store, seen, conflicts, files, wire, history>>

\* The file is written and the finding signed.
WriteResolution(n, t) ==
  LET r == thread[n][t].resolution IN
  /\ thread[n][t].pc = "file"
  /\ resolutionFiles' = [resolutionFiles EXCEPT ![n] = @ \cup {r}]
  /\ \E p \in Findings[r] :
       Becomes(n, t, [thread[n][t] EXCEPT !.pc = "publish", !.packet = p])
  /\ UNCHANGED <<store, memory, conflictFiles, wire, history>>

\* Seeded fault: the test for the object is the wrong way round.
PublishAgain(n, t) ==
  LET me == thread[n][t] IN
  /\ me.pc = "publish"
  /\ Becomes(n, t, IF object[n][me.packet] # Absent
                   THEN [me EXCEPT !.pc = "create"] ELSE Idle)
  /\ UNCHANGED <<store, memory, files, wire, history>>

Publish(n, t) ==
  LET me == thread[n][t] IN
  /\ me.pc = "publish"
  /\ Becomes(n, t, IF object[n][me.packet] = Absent
                   THEN [me EXCEPT !.pc = "create"] ELSE Idle)
  /\ UNCHANGED <<store, memory, files, wire, history>>

-----------------------------------------------------------------------------
\* The process dies and is started again: __init__ loads what disk has.
Crash(n) ==
  /\ crashes < MaxCrashes
  /\ crashes' = crashes + 1
  /\ crashed' = crashed \cup {n}
  /\ thread' = [thread EXCEPT ![n] = [t \in Thread |-> Idle]]
  /\ wire' = {g \in wire : g.to # n}
  /\ seen' = [seen EXCEPT ![n] = {}]
  /\ conflicts' = [conflicts EXCEPT ![n] = conflictFiles[n]]
  /\ resolutions' = [resolutions EXCEPT ![n] = resolutionFiles[n]]
  /\ UNCHANGED <<store, files, requests, rounds, lost>>

Step(n, t) ==
  \/ Admit(n, t) \/ OpenObject(n, t) \/ WriteObject(n, t)
  \/ ReadBlocks(n, t) \/ AppendBlock(n, t)
  \/ \E q \in Packet : CheckConflict(n, t, q)
  \/ WriteConflict(n, t) \/ Admitted(n, t)
  \/ \E found \in BOOLEAN : NoteTip(n, t, found)
  \/ \E m \in Node : Tell(n, t, m) \/ Fetch(n, t, m) \/ FetchFails(n, t, m)
  \/ RememberResolution(n, t) \/ WriteResolution(n, t) \/ Publish(n, t)

Replicate(n) ==
  \/ \E m \in Node : AskReplica(n, m) \/ HearReplica(n, m)
  \/ ReplicaFails(n) \/ TakeBlock(n) \/ StopReplication(n)

Hear(n) == \E t \in Handlers[n], gossip \in wire : HearTip(n, t, gossip)

Request(n) ==
  \E t \in Handlers[n] :
    \/ \E p \in Packet : Submit(n, t, p)
    \/ \E r \in Resolution : Resolve(n, t, r)

Next ==
  \E n \in Node :
    \/ \E t \in Thread : Step(n, t)
    \/ Replicate(n) \/ Hear(n) \/ Request(n) \/ Crash(n)

Spec == Init /\ [][Next]_vars

-----------------------------------------------------------------------------
TypeOK ==
  /\ object \in [Node -> [Packet -> {Absent, Torn, Whole}]]
  /\ ledger \in [Node -> Seq(Blocks)]
  /\ seen \in [Node -> SUBSET Packet]
  /\ conflicts \in [Node -> SUBSET Pairs]
  /\ conflictFiles \in [Node -> SUBSET Pairs]
  /\ resolutions \in [Node -> SUBSET Resolution]
  /\ resolutionFiles \in [Node -> SUBSET Resolution]
  /\ thread \in [Node -> [Thread -> Locals]]
  /\ wire \subseteq [to : Node, from : Node, packet : Packet]
  /\ requests \in 0..MaxRequests /\ rounds \in 0..MaxRounds
  /\ crashes \in 0..MaxCrashes
  /\ crashed \subseteq Node /\ lost \in BOOLEAN

\* The lock keeps a node's ledger a chain through admissions from clients,
\* gossip and replication and through crashes.  Where it is broken, at a
\* reconciler, one of the two blocks publishes a resolution (:1017).
OnlyResolutionsBreakTheChain ==
  \A n \in Node : \A i \in 2..Len(ledger[n]) :
    \/ ledger[n][i].previous = Hash(ledger[n][i - 1])
    \/ /\ n \in Reconciler
       /\ \/ ledger[n][i].header.packet \in FindingPackets
          \/ ledger[n][i - 1].header.packet \in FindingPackets

\* A packet has one block on a node however often it is submitted, told and
\* replicated at once, unless two requests publish one resolution (:1009).
CommittedOnce ==
  \A n \in Node : \A i, j \in DOMAIN ledger[n] :
    ledger[n][i].header.packet = ledger[n][j].header.packet
      => \/ i = j
         \/ n \in Reconciler /\ ledger[n][i].header.packet \in FindingPackets

\* What a ledger names can be served (:469, :660): its object is there, and
\* whole, unless a second publication of the resolution is writing it again.
CommittedCanBeServed ==
  \A n \in Node : \A p \in Committed(n) :
    \/ object[n][p] = Whole
    \/ n \in Reconciler /\ p \in FindingPackets /\ object[n][p] = Torn

\* A recorded conflict is about two packets this node holds, one of which
\* contradicts the other, and what a restart loads was known before.
ConflictsAreReal ==
  \A n \in Node :
    /\ conflictFiles[n] \subseteq conflicts[n]
    /\ \A pair \in conflicts[n] :
         /\ \A p \in pair : object[n][p] # Absent
         /\ \E p, q \in pair : pair = {p, q} /\ q \in Contradicts[p]

\* A held contradiction that is not recorded is one that is being looked for,
\* one a crash interrupted, or one whose contradicted packet came second,
\* since only the packet that contradicts is looked at (:424).
MissedConflictExplained ==
  \A n \in Node : \A p \in Committed(n) : \A q \in Contradicts[p] :
    (object[n][q] # Absent /\ {p, q} \notin conflicts[n]) =>
      \/ n \in crashed
      \/ \E t \in Thread :
           thread[n][t].packet = p /\ q \in thread[n][t].against
      \/ \A i, j \in DOMAIN ledger[n] :
           (ledger[n][i].header.packet = p /\ ledger[n][j].header.packet = q)
             => i < j

\* A remembered resolution is in the ledger, on its way there, or was cut off
\* by a crash (after which the memory keeps /resolve from publishing, :977).
UnpublishedExplained ==
  \A n \in Node : \A r \in resolutions[n] :
    \/ Findings[r] \cap Committed(n) # {}
    \/ \E t \in Thread :
         thread[n][t].resolution = r \/ thread[n][t].packet \in Findings[r]
    \/ n \in crashed

\* A packet a node has been told of and accepts is held, or being fetched or
\* admitted, unless something failed, or a node told it that it does not know as
\* a peer and so does not ask: the tip is noted before the fetch and a fetch is
\* not repeated (:757).  Findings are excepted: a second publication may be
\* writing one again while it is fetched.
SeenIsHeld ==
  \A n \in Node : \A p \in (seen[n] \cap Admits[n]) \ FindingPackets :
    \/ object[n][p] # Absent
    \/ \E t \in Thread : thread[n][t].packet = p
    \/ lost \/ crashed # {}
    \/ \E m \in Node \ Peers[n] : n \in Peers[m]
=============================================================================
