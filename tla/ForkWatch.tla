------------------------------- MODULE ForkWatch -------------------------------
(***************************************************************************)
(* How a mesh node notices a fork (commons_node.py): heartbeats announce   *)
(* the tip of every ledger, check_and_publish_fork compares the tips a     *)
(* node has heard, and a difference that stays becomes a fork record.      *)
(*                                                                         *)
(* Both background threads of a node check, without a lock: heartbeat_loop *)
(* after every heartbeat, replicate_loop when a peer's block does not      *)
(* extend the ledger.  Heartbeats may be lost, late and out of order;      *)
(* peers grow stale; a process may be told to stop, killed and started     *)
(* again.  How packets reach a ledger is module Mesh; here a ledger grows  *)
(* by any packet and its contradictions are noted later.                   *)
(***************************************************************************)
EXTENDS Naturals, Sequences, FiniteSets, SequencesExt

CONSTANTS
  Node,
  Watcher,        \* nodes whose checks are modelled; the others only announce
  Peers,          \* node -> the nodes it was started with as peers
  Packet,
  Contradictions, \* pairs of packets that contradict each other
  Beating, Replicating,   \* the background threads of a node
  Unknown,        \* no heartbeat, no snapshot
  StableChecks,   \* identical snapshots wanted after the first: 3 in the code
  Held,           \* node -> the ledger it is started with
  Admits,         \* node -> the packets its policy accepts
  MaxRounds,      \* bound: checks of the replication threads in a behaviour
  MaxFaults       \* bound: peers found 30 seconds old and processes stopped
                  \* or killed in a behaviour

ASSUME ForkWatchAssumption ==
  /\ IsFiniteSet(Node) /\ Watcher \subseteq Node
  /\ Peers \in [Node -> SUBSET Node] /\ \A n \in Node : n \notin Peers[n]
  /\ Contradictions \subseteq SUBSET Packet
  /\ Beating # Replicating
  /\ Held \in [Node -> Seq(Packet)] /\ Admits \in [Node -> SUBSET Packet]
  /\ StableChecks \in Nat /\ MaxRounds \in Nat /\ MaxFaults \in Nat

VARIABLES
  ledger,         \* ledger.jsonl: packets in the order of their blocks
  conflicts,      \* _conflicts, kept on disk
  process,        \* "up", "hung" in the signal handler, "down"
  known,          \* _known_peers: tip and freshness of who was heard
  snapshot, count,  \* _last_tip_snapshot and _tip_stable_count
  records,        \* _fork_records
  files,          \* fork-records/
  thread,         \* locals of both threads
  wire,           \* heartbeats sent and not handled yet
  rounds, faults,
  raced           \* history: nodes whose threads last published both at once

world == <<ledger, conflicts>>
memory == <<known, snapshot, count, records>>
bounds == <<rounds, faults>>
vars == <<world, process, memory, files, thread, wire, bounds, raced>>

-----------------------------------------------------------------------------
Thread == {Beating, Replicating}
Genesis == <<>>
Tip(n) == IF ledger[n] = <<>> THEN Genesis ELSE <<n, ledger[n]>>
Merkle(n) == ToSet(ledger[n])
Heard(n) == {p \in Node : known[n][p] # Unknown}

\* A record is its fork_id: packets, tips by agent, conflicts.
Record(packets, tips, noted) == [packets |-> packets, tips |-> tips, conflicts |-> noted]
Tips(view) == {view[p] : p \in DOMAIN view}

Idle == [pc |-> "idle", stale |-> {}, tip |-> Genesis, packets |-> {}, size |-> 0,
         fork |-> Unknown, old |-> {}]

Init ==
  /\ ledger = Held /\ conflicts = [n \in Node |-> {}]
  /\ process = [n \in Node |-> "up"]
  /\ known = [n \in Node |-> [p \in Node |-> Unknown]]
  /\ snapshot = [n \in Node |-> Unknown] /\ count = [n \in Node |-> 0]
  /\ records = [n \in Node |-> {}] /\ files = [n \in Node |-> {}]
  /\ thread = [n \in Node |-> [t \in Thread |-> Idle]]
  /\ wire = {}
  /\ rounds = 0 /\ faults = 0 /\ raced = {}

Becomes(n, t, l) == thread' = [thread EXCEPT ![n][t] = l]
Goto(n, t, label) == Becomes(n, t, [thread[n][t] EXCEPT !.pc = label])

\* The loops suppress every exception: a check that raises is over.
Ends(n, t) == Becomes(n, t, Idle)
Fault == faults < MaxFaults /\ faults' = faults + 1
Publishing(n) == {t \in Thread : thread[n][t].pc \in {"list", "unlink", "write"}}

-----------------------------------------------------------------------------
(* The world: ledgers and conflicts, as module Mesh has them grow.          *)

Admit(n, p) ==
  /\ process[n] = "up" /\ p \in Admits[n] \ Merkle(n)
  /\ ledger' = [ledger EXCEPT ![n] = Append(@, p)]
  /\ UNCHANGED <<conflicts, process, memory, files, thread, wire, bounds, raced>>

NoteConflict(n, pair) ==
  /\ process[n] = "up" /\ pair \subseteq Merkle(n) /\ pair \notin conflicts[n]
  /\ conflicts' = [conflicts EXCEPT ![n] = @ \cup {pair}]
  /\ UNCHANGED <<ledger, process, memory, files, thread, wire, bounds, raced>>

-----------------------------------------------------------------------------
(* Heartbeats.                                                              *)

\* send_heartbeat: what a node announces to its peers, before it checks.
Beat(n) ==
  /\ process[n] = "up" /\ thread[n][Beating].pc = "idle"
  /\ wire' = wire \cup {[from |-> n, to |-> p, tip |-> Tip(n)] : p \in Peers[n] \cap Watcher}
  /\ IF n \in Watcher THEN Goto(n, Beating, "prune") ELSE UNCHANGED thread
  /\ UNCHANGED <<world, process, memory, files, bounds, raced>>

Hear(m) ==
  /\ process[m.to] = "up"
  /\ known' = [known EXCEPT ![m.to][m.from] = [tip |-> m.tip, fresh |-> TRUE]]
  /\ wire' = wire \ {m}
  /\ UNCHANGED <<world, process, snapshot, count, records, files, thread, bounds, raced>>

\* A request that fails or that nobody answers in time; the sender goes on.
Lose(m) ==
  /\ wire' = wire \ {m}
  /\ UNCHANGED <<world, process, memory, files, thread, bounds, raced>>

Age(n, p) ==
  /\ Fault
  /\ p \in Heard(n) /\ known[n][p].fresh
  /\ known' = [known EXCEPT ![n][p].fresh = FALSE]
  /\ UNCHANGED <<world, process, snapshot, count, records, files, thread, wire, rounds, raced>>

-----------------------------------------------------------------------------
(* check_and_publish_fork.                                                  *)

\* replicate_from_peer at a block that does not extend the node's ledger.
Mismatch(n, p) ==
  /\ rounds < MaxRounds /\ rounds' = rounds + 1
  /\ process[n] = "up" /\ process[p] = "up" /\ thread[n][Replicating].pc = "idle"
  /\ ledger[n] # <<>> /\ Len(ledger[p]) >= Len(ledger[n])
  /\ Goto(n, Replicating, "prune")
  /\ UNCHANGED <<world, process, memory, files, wire, faults, raced>>

\* With no stale peer left, the node reads its own tip.
Fresh(n, t) == [Idle EXCEPT !.pc = "read", !.tip = Tip(n)]

\* _prune_stale_peers lists the stale peers, ...
Prune(n, t) ==
  /\ thread[n][t].pc = "prune"
  /\ LET stale == {p \in Heard(n) : ~known[n][p].fresh} IN
     Becomes(n, t, IF stale = {} THEN Fresh(n, t)
                   ELSE [thread[n][t] EXCEPT !.pc = "delete", !.stale = stale])
  /\ UNCHANGED <<world, process, memory, files, wire, bounds, raced>>

\* ... and deletes them by name, heard again since or not; one that is gone raises.
Delete(n, t) ==
  LET stale == thread[n][t].stale IN
  /\ thread[n][t].pc = "delete"
  /\ \E p \in stale :
       IF p \in Heard(n)
       THEN /\ known' = [known EXCEPT ![n][p] = Unknown]
            /\ Becomes(n, t, IF stale = {p} THEN Fresh(n, t)
                             ELSE [thread[n][t] EXCEPT !.stale = @ \ {p}])
       ELSE Ends(n, t) /\ UNCHANGED known
  /\ UNCHANGED <<world, process, snapshot, count, records, files, wire, bounds, raced>>

\* The packets, after the tip; the iteration over the peers begins.
Read(n, t) ==
  /\ thread[n][t].pc = "read"
  /\ Becomes(n, t, [thread[n][t] EXCEPT !.pc = "compare", !.packets = Merkle(n),
                                        !.size = Cardinality(Heard(n))])
  /\ UNCHANGED <<world, process, memory, files, wire, bounds, raced>>

\* Seeded fault: the tip is read after the packets.
ViewLate(n, t) == [p \in {n} \cup Heard(n) |-> IF p = n THEN Tip(n) ELSE known[n][p].tip]

View(n, t) == [p \in {n} \cup Heard(n) |-> IF p = n THEN thread[n][t].tip ELSE known[n][p].tip]

\* Any agent heard counts for a peer.
Partial(n, t) == Cardinality(Heard(n)) < Cardinality(Peers[n])

\* How often in a row the same view has been seen.
Stability(n, view) ==
  IF view = snapshot[n]
  THEN /\ count' = [count EXCEPT ![n] = IF @ < StableChecks THEN @ + 1 ELSE @]
       /\ UNCHANGED snapshot
  ELSE /\ count' = [count EXCEPT ![n] = 0]
       /\ snapshot' = [snapshot EXCEPT ![n] = view]

\* A peer that comes or goes during the iteration makes it raise.
Compare(n, t) ==
  LET me == thread[n][t]
      view == View(n, t)
      fork == Record(me.packets, view, conflicts[n])
  IN
  /\ me.pc = "compare"
  /\ IF Cardinality(Heard(n)) # me.size \/ Partial(n, t)
     THEN Ends(n, t) /\ UNCHANGED <<snapshot, count>>
     ELSE /\ Stability(n, view)
          /\ IF count'[n] < StableChecks \/ Cardinality(Tips(view)) <= 1
             THEN Ends(n, t)
             ELSE Becomes(n, t, [Idle EXCEPT !.pc = "remember", !.fork = fork])
  /\ UNCHANGED <<world, process, known, records, files, wire, bounds, raced>>

\* Seeded fault: a record that is there is kept.
NewsOnce(n, fork) == records[n] = {}

News(n, fork) == records[n] # {fork}

Remember(n, t) ==
  LET fork == thread[n][t].fork IN
  /\ thread[n][t].pc = "remember"
  /\ IF News(n, fork)
     THEN /\ records' = [records EXCEPT ![n] = {fork}]
          /\ Goto(n, t, "list")
          /\ raced' = IF Publishing(n) # {} THEN raced \cup {n} ELSE raced \ {n}
     ELSE Ends(n, t) /\ UNCHANGED <<records, raced>>
  /\ UNCHANGED <<world, process, known, snapshot, count, files, wire, bounds>>

\* Seeded fault: the files of older records stay.
ListNone(n, t) ==
  /\ thread[n][t].pc = "list"
  /\ Goto(n, t, "write")
  /\ UNCHANGED <<world, process, memory, files, wire, bounds, raced>>

List(n, t) ==
  /\ thread[n][t].pc = "list"
  /\ Becomes(n, t, [thread[n][t] EXCEPT !.old = files[n],
                      !.pc = IF files[n] = {} THEN "write" ELSE "unlink"])
  /\ UNCHANGED <<world, process, memory, files, wire, bounds, raced>>

\* A file that the other thread has removed raises: nothing is written.
Unlink(n, t) ==
  LET old == thread[n][t].old IN
  /\ thread[n][t].pc = "unlink"
  /\ \E f \in old :
       IF f \in files[n]
       THEN /\ files' = [files EXCEPT ![n] = @ \ {f}]
            /\ Becomes(n, t, [thread[n][t] EXCEPT !.old = @ \ {f},
                                !.pc = IF old = {f} THEN "write" ELSE @])
       ELSE Ends(n, t) /\ UNCHANGED files
  /\ UNCHANGED <<world, process, memory, wire, bounds, raced>>

WriteRecord(n, t) ==
  /\ thread[n][t].pc = "write"
  /\ files' = [files EXCEPT ![n] = @ \cup {thread[n][t].fork}]
  /\ Ends(n, t)
  /\ UNCHANGED <<world, process, memory, wire, bounds, raced>>

Check(n, t) ==
  \/ Prune(n, t) \/ Delete(n, t) \/ Read(n, t) \/ Compare(n, t) \/ Remember(n, t)
  \/ List(n, t) \/ Unlink(n, t) \/ WriteRecord(n, t)

-----------------------------------------------------------------------------
(* Processes.                                                               *)

\* SIGTERM: the handler runs in the thread of serve_forever and waits in
\* shutdown() for it to end.  The loops begin nothing more.
Terminate(n) ==
  /\ process[n] = "up" /\ Fault
  /\ process' = [process EXCEPT ![n] = "hung"]
  /\ UNCHANGED <<world, memory, files, thread, wire, rounds, raced>>

\* SIGKILL, by kill_existing two seconds after SIGTERM, or a crash: threads and
\* memory are gone.
Kill(n) ==
  /\ \/ process[n] = "up" /\ Fault
     \/ process[n] = "hung" /\ UNCHANGED faults
  /\ process' = [process EXCEPT ![n] = "down"]
  /\ thread' = [thread EXCEPT ![n] = [t \in Thread |-> Idle]]
  /\ known' = [known EXCEPT ![n] = [p \in Node |-> Unknown]]
  /\ snapshot' = [snapshot EXCEPT ![n] = Unknown] /\ count' = [count EXCEPT ![n] = 0]
  /\ records' = [records EXCEPT ![n] = {}]
  /\ raced' = raced \ {n}
  /\ UNCHANGED <<world, files, wire, rounds>>

\* main: ledger, conflicts and records are read back; heartbeats are not kept.
Start(n) ==
  /\ process[n] = "down"
  /\ process' = [process EXCEPT ![n] = "up"]
  /\ records' = [records EXCEPT ![n] = files[n]]
  /\ UNCHANGED <<world, known, snapshot, count, files, thread, wire, bounds, raced>>

-----------------------------------------------------------------------------
Next ==
  \/ \E n \in Node :
       \/ \E p \in Packet : Admit(n, p)
       \/ \E pair \in Contradictions : NoteConflict(n, pair)
       \/ Beat(n)
       \/ n \in Watcher /\ (\/ Terminate(n) \/ Kill(n) \/ Start(n)
                            \/ \E p \in Peers[n] : Mismatch(n, p)
                            \/ \E p \in Node : Age(n, p)
                            \/ \E t \in Thread : Check(n, t))
  \/ \E m \in wire : Hear(m) \/ Lose(m)

Spec == Init /\ [][Next]_vars

\* The heartbeat thread of a node goes on for as long as the process is up, and
\* a heartbeat sent again and again is handled at last.
HearFrom(n, p) == \E m \in wire : m.from = n /\ m.to = p /\ Hear(m)
Fairness ==
  /\ \A n \in Node : WF_vars(Beat(n))
  /\ \A n \in Watcher, t \in Thread : WF_vars(Check(n, t))
  /\ \A n \in Node : \A p \in Peers[n] \cap Watcher : SF_vars(HearFrom(n, p))

FairSpec == Spec /\ Fairness
-----------------------------------------------------------------------------
\* Records are well-formed: of more agents than the node has peers, of tips that
\* differ, and of all packets behind the node's own tip, which was read first.
TypeOK ==
  /\ ledger \in [Node -> Seq(Packet)]
  /\ \A n \in Node : \A r \in records[n] \cup files[n] :
       /\ Cardinality(DOMAIN r.tips) > Cardinality(Peers[n]) /\ Cardinality(Tips(r.tips)) > 1
       /\ r.packets \subseteq Merkle(n) /\ r.conflicts \subseteq conflicts[n]
       /\ r.tips[n] # Genesis => ToSet(r.tips[n][2]) \subseteq r.packets
  /\ process \in [Node -> {"up", "hung", "down"}] /\ count \in [Node -> 0..StableChecks]
  /\ \A m \in wire : m.to \in Peers[m.from]

\* commons_node.py:306 replaces the record in memory first and the files after: on
\* disk is the record a running node answers with, once nobody publishes, unless
\* its two threads published at once.  The next publication, by one of them, or a
\* restart, which loads what is on disk, ends the difference.
RecordOnDisk ==
  \A n \in Watcher :
    process[n] # "down" /\ Publishing(n) = {} => files[n] = records[n] \/ n \in raced

\* mesh.py "same on every node that sees the same world": a node whose peers all
\* announce themselves ends with one record, of its own packets and conflicts and
\* the last tips of all that announce to it, whatever records it had before, once
\* ledgers rest, all processes stay up, and the tips differ.
Announcers(n) == {p \in Node : n \in Peers[p]}
LastTips(n) == [p \in {n} \cup Announcers(n) |-> Tip(p)]
ForkRecorded ==
  <>[](\A n \in Node : process[n] = "up") =>
    \A n \in Watcher :
      <>[](Cardinality(Tips(LastTips(n))) > 1 =>
             records[n] = {Record(Merkle(n), LastTips(n), conflicts[n])})
=============================================================================
