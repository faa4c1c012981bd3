--------------------------- MODULE ForkWatch_proofs ---------------------------
(* What a node's fork records are, and when memory and disk agree, for every *)
(* number of nodes, packets, checks and faults.                              *)
EXTENDS ForkWatch, FiniteSetTheorems, TLAPS

-----------------------------------------------------------------------------
(* The inductive invariant: what a check carries from one step to the next,  *)
(* and what a publication under way has done to the directory.               *)

TipSet == {Genesis} \cup (Node \X Seq(Packet))
Announced == [tip : TipSet, fresh : BOOLEAN]
Views == UNION {[D -> TipSet] : D \in SUBSET Node}
Forks == [packets : SUBSET Packet, tips : Views, conflicts : SUBSET Contradictions]

Labels == {"idle", "prune", "delete", "read", "compare", "remember", "list", "unlink", "write"}
Published == {"list", "unlink", "write"}

Locals ==
  [pc : Labels, stale : SUBSET Node, tip : TipSet, packets : SUBSET Packet, size : Nat,
   fork : Forks \cup {Unknown}, old : SUBSET Forks]

WorldOK ==
  /\ ledger \in [Node -> Seq(Packet)] /\ conflicts \in [Node -> SUBSET Contradictions]
  /\ process \in [Node -> {"up", "hung", "down"}]

\* Heartbeats come from others, so no node has heard itself.
HeardOK ==
  /\ wire \subseteq [from : Node, to : Node, tip : TipSet]
  /\ \A m \in wire : m.to \in Peers[m.from]
  /\ known \in [Node -> [Node -> Announced \cup {Unknown}]]
  /\ \A n \in Node : known[n][n] = Unknown
  /\ count \in [Node -> 0..StableChecks]

\* A tip, read before the packets S.
TipWithin(tip, S) == tip # Genesis => ToSet(tip[2]) \subseteq S

\* A record of node n, with packets of M and conflicts of C.
ForkOK(n, r, M, C) ==
  /\ r \in Forks
  /\ Cardinality(DOMAIN r.tips) > Cardinality(Peers[n]) /\ Cardinality(Tips(r.tips)) > 1
  /\ r.packets \subseteq M /\ r.conflicts \subseteq C
  /\ TipWithin(r.tips[n], r.packets)

ThreadOK(n, l, M, C) ==
  /\ l.pc = "read" => TipWithin(l.tip, M)
  /\ l.pc = "compare" => TipWithin(l.tip, l.packets) /\ l.packets \subseteq M
  /\ l.pc \in Published \cup {"remember"} => ForkOK(n, l.fork, M, C)

RecordsOK(n, R, F, M, C) == \A r \in R \cup F : ForkOK(n, r, M, C)

\* A sole publication: the record is in memory, and the directory holds what the
\* thread has still to remove, or nothing.
DiskOK(P, l, R, F) ==
  \/ P = {} /\ F = R
  \/ \E t \in P :
       /\ P = {t} /\ R = {l[t].fork}
       /\ l[t].pc = "unlink" => F = l[t].old
       /\ l[t].pc = "write" => F = {}

ThreadsOK ==
  /\ thread \in [Node -> [Thread -> Locals]]
  /\ \A n \in Node, t \in Thread : ThreadOK(n, thread[n][t], Merkle(n), conflicts[n])
  /\ \A n \in Node : process[n] = "down" => \A t \in Thread : thread[n][t].pc = "idle"

DirectoriesOK ==
  /\ records \in [Node -> SUBSET Forks] /\ files \in [Node -> SUBSET Forks]
  /\ \A n \in Node : RecordsOK(n, records[n], files[n], Merkle(n), conflicts[n])
  /\ \A n \in Node : process[n] # "down" /\ n \notin raced =>
       DiskOK(Publishing(n), thread[n], records[n], files[n])

WatchInv == WorldOK /\ HeardOK /\ ThreadsOK /\ DirectoriesOK

-----------------------------------------------------------------------------
(* Operators.                                                                *)

LEMMA ToSetGrows ==
  ASSUME NEW s \in Seq(Packet), NEW p \in Packet
  PROVE  ToSet(s) \subseteq ToSet(Append(s, p)) /\ Append(s, p) \in Seq(Packet)
BY DEF ToSet

LEMMA OwnTip ==
  ASSUME WorldOK, NEW n \in Node
  PROVE  Tip(n) \in TipSet /\ TipWithin(Tip(n), Merkle(n)) /\ Merkle(n) \in SUBSET Packet
<1>1. ledger[n] \in Seq(Packet)
  BY DEF WorldOK
<1>2. \A s \in Seq(Packet) : ToSet(s) \in SUBSET Packet
  BY DEF ToSet
<1>3. \A m, s : <<m, s>>[2] = s
  OBVIOUS
<1> QED BY <1>1, <1>2, <1>3 DEF Tip, TipSet, TipWithin, Merkle

\* Records survive what a ledger and its conflicts grow by.
LEMMA ForkStays ==
  ASSUME NEW n, NEW r, NEW M, NEW C, NEW M2, NEW C2, ForkOK(n, r, M, C), M \subseteq M2, C \subseteq C2
  PROVE  ForkOK(n, r, M2, C2)
BY DEF ForkOK

LEMMA ThreadStays ==
  ASSUME NEW n, NEW l, NEW M, NEW C, NEW M2, NEW C2, ThreadOK(n, l, M, C), M \subseteq M2, C \subseteq C2
  PROVE  ThreadOK(n, l, M2, C2)
<1>1. ForkOK(n, l.fork, M, C) => ForkOK(n, l.fork, M2, C2)
  BY ForkStays
<1> QED BY <1>1 DEF ThreadOK, TipWithin

LEMMA IdleFits ==
  /\ Idle \in Locals /\ Idle.pc = "idle"
  /\ \A n, M, C : ThreadOK(n, Idle, M, C)
BY DEF Idle, Locals, Labels, TipSet, ThreadOK, Published

LEMMA BecomesThread ==
  ASSUME thread \in [Node -> [Thread -> Locals]], NEW n \in Node, NEW t \in Thread,
         NEW y \in Locals, Becomes(n, t, y)
  PROVE  /\ thread' \in [Node -> [Thread -> Locals]] /\ thread'[n][t] = y
         /\ \A u \in Thread \ {t} : thread'[n][u] = thread[n][u]
         /\ \A m \in Node \ {n} : thread'[m] = thread[m]
BY DEF Becomes

-----------------------------------------------------------------------------
(* Steps of a check.                                                         *)

\* A step of one thread of n, which may replace its records and files.
LEMMA ThreadStep ==
  ASSUME WatchInv, NEW n \in Node, NEW t \in Thread, NEW y \in Locals, Becomes(n, t, y),
         NEW R \in SUBSET Forks, NEW F \in SUBSET Forks,
         records' = [records EXCEPT ![n] = R], files' = [files EXCEPT ![n] = F],
         UNCHANGED <<ledger, conflicts, process>>, process[n] # "down",
         raced' \ {n} = raced \ {n},
         ThreadOK(n, y, Merkle(n), conflicts[n]),
         RecordsOK(n, R, F, Merkle(n), conflicts[n]),
         n \notin raced' => DiskOK(Publishing(n)', thread'[n], R, F),
         HeardOK'
  PROVE  WatchInv'
<1>1. /\ thread' \in [Node -> [Thread -> Locals]] /\ thread'[n][t] = y
      /\ \A u \in Thread \ {t} : thread'[n][u] = thread[n][u]
      /\ \A m \in Node \ {n} : thread'[m] = thread[m]
  BY BecomesThread DEF WatchInv, ThreadsOK
<1>2. WorldOK'
  BY DEF WatchInv, WorldOK
<1>3. \A m \in Node : Merkle(m)' = Merkle(m)
  BY DEF Merkle
<1>4. ThreadsOK'
  <2>1. \A m \in Node, u \in Thread : ThreadOK(m, thread'[m][u], Merkle(m), conflicts[m])
    BY <1>1 DEF WatchInv, ThreadsOK
  <2>2. \A m \in Node : process[m] = "down" => \A u \in Thread : thread'[m][u].pc = "idle"
    BY <1>1 DEF WatchInv, ThreadsOK
  <2> QED BY <1>1, <1>3, <2>1, <2>2 DEF ThreadsOK
<1>5. DirectoriesOK'
  <2>1. /\ records' \in [Node -> SUBSET Forks] /\ files' \in [Node -> SUBSET Forks]
        /\ records'[n] = R /\ files'[n] = F
        /\ \A m \in Node \ {n} : records'[m] = records[m] /\ files'[m] = files[m]
    BY DEF WatchInv, DirectoriesOK
  <2>2. \A m \in Node : RecordsOK(m, records'[m], files'[m], Merkle(m), conflicts[m])
    BY <2>1 DEF WatchInv, DirectoriesOK
  <2>3. ASSUME NEW m \in Node, process[m] # "down", m \notin raced'
        PROVE  DiskOK(Publishing(m)', thread'[m], records'[m], files'[m])
    <3>1. CASE m = n
      BY <2>1, <2>3, <3>1
    <3>2. CASE m # n
      <4>1. thread'[m] = thread[m] /\ Publishing(m)' = Publishing(m) /\ m \notin raced
        BY <1>1, <2>3, <3>2 DEF Publishing
      <4> QED BY <2>1, <2>3, <3>2, <4>1 DEF WatchInv, DirectoriesOK
    <3> QED BY <3>1, <3>2
  <2> QED BY <1>3, <2>1, <2>2, <2>3 DEF DirectoriesOK
<1> QED BY <1>2, <1>4, <1>5 DEF WatchInv

\* A step that publishes nothing.
LEMMA CheckingStep ==
  ASSUME WatchInv, NEW n \in Node, NEW t \in Thread, NEW y \in Locals, Becomes(n, t, y),
         UNCHANGED <<ledger, conflicts, process, records, files, raced>>, process[n] # "down",
         thread[n][t].pc \notin Published, y.pc \notin Published,
         ThreadOK(n, y, Merkle(n), conflicts[n]), HeardOK'
  PROVE  WatchInv'
<1>1. /\ thread' \in [Node -> [Thread -> Locals]] /\ thread'[n][t] = y
      /\ \A u \in Thread \ {t} : thread'[n][u] = thread[n][u]
  BY BecomesThread DEF WatchInv, ThreadsOK
<1>2. Publishing(n)' = Publishing(n)
  BY <1>1 DEF Publishing, Published
<1>3. \A u \in Publishing(n) : thread'[n][u] = thread[n][u]
  BY <1>1 DEF Publishing, Published
<1>4. n \notin raced' => DiskOK(Publishing(n)', thread'[n], records[n], files[n])
  <2>1. n \notin raced => DiskOK(Publishing(n), thread[n], records[n], files[n])
    BY DEF WatchInv, DirectoriesOK
  <2> QED BY <1>2, <1>3, <2>1 DEF DiskOK
<1>5. /\ records[n] \in SUBSET Forks /\ files[n] \in SUBSET Forks
      /\ records' = [records EXCEPT ![n] = records[n]]
      /\ files' = [files EXCEPT ![n] = files[n]]
      /\ RecordsOK(n, records[n], files[n], Merkle(n), conflicts[n])
  BY DEF WatchInv, DirectoriesOK
<1> QED BY <1>4, <1>5, ThreadStep

\* A thread that is checking, and its process.
LEMMA Checking ==
  ASSUME WatchInv, NEW n \in Node, NEW t \in Thread, thread[n][t].pc # "idle"
  PROVE  /\ process[n] # "down" /\ thread[n][t] \in Locals
         /\ ThreadOK(n, thread[n][t], Merkle(n), conflicts[n])
BY DEF WatchInv, ThreadsOK

LEMMA HeardStays ==
  ASSUME WatchInv, UNCHANGED <<wire, known, count>>
  PROVE  HeardOK'
BY DEF WatchInv, HeardOK

\* A check that ends, or raises.
LEMMA EndsStep ==
  ASSUME WatchInv, NEW n \in Node, NEW t \in Thread, Ends(n, t),
         thread[n][t].pc # "idle", thread[n][t].pc \notin Published,
         UNCHANGED <<ledger, conflicts, process, records, files, raced>>, HeardOK'
  PROVE  WatchInv'
BY CheckingStep, Checking, IdleFits DEF Ends, Published

LEMMA BeatStep ==
  ASSUME WatchInv, NEW n \in Node, Beat(n)
  PROVE  WatchInv'
<1> DEFINE me == thread[n][Beating]
           y == [me EXCEPT !.pc = "prune"]
<1>1. /\ process[n] = "up" /\ me.pc = "idle"
      /\ wire' = wire \cup {[from |-> n, to |-> p, tip |-> Tip(n)] : p \in Peers[n] \cap Watcher}
      /\ UNCHANGED <<ledger, conflicts, process, known, count, records, files, raced>>
      /\ IF n \in Watcher THEN Becomes(n, Beating, y) ELSE UNCHANGED thread
  BY DEF Beat, Goto, world, memory
<1>2. Tip(n) \in TipSet /\ Peers[n] \subseteq Node
  BY OwnTip, ForkWatchAssumption DEF WatchInv
<1>3. HeardOK'
  BY <1>1, <1>2 DEF WatchInv, HeardOK
<1>4. CASE n \in Watcher
  <2>1. me \in Locals
    BY DEF WatchInv, ThreadsOK, Thread
  <2>2. y \in Locals /\ y.pc = "prune"
    BY <2>1 DEF Locals, Labels
  <2>3. Becomes(n, Beating, y)
    BY <1>1, <1>4
  <2> HIDE DEF y
  <2>4. ThreadOK(n, y, Merkle(n), conflicts[n]) /\ y.pc \notin Published /\ me.pc \notin Published
    BY <1>1, <2>2 DEF ThreadOK, Published
  <2>5. Beating \in Thread /\ process[n] # "down"
    BY <1>1 DEF Thread
  <2> QED BY <1>1, <1>3, <2>2, <2>3, <2>4, <2>5, CheckingStep
<1>5. CASE n \notin Watcher
  <2>1. thread' = thread
    BY <1>1, <1>5
  <2> QED BY <1>1, <1>3, <2>1
          DEF WatchInv, WorldOK, ThreadsOK, DirectoriesOK, Merkle, Publishing
<1> QED BY <1>4, <1>5

LEMMA MismatchStep ==
  ASSUME WatchInv, NEW n \in Node, NEW p \in Node, Mismatch(n, p)
  PROVE  WatchInv'
<1> DEFINE me == thread[n][Replicating]
           y == [me EXCEPT !.pc = "prune"]
<1>1. /\ process[n] = "up" /\ me.pc = "idle" /\ Becomes(n, Replicating, y)
      /\ UNCHANGED <<ledger, conflicts, process, known, count, records, files, raced, wire>>
  BY DEF Mismatch, Goto, world, memory
<1>2. Replicating \in Thread /\ me \in Locals
  BY DEF WatchInv, ThreadsOK, Thread
<1>3. y \in Locals /\ y.pc = "prune"
  BY <1>2 DEF Locals, Labels
<1> HIDE DEF y
<1>4. ThreadOK(n, y, Merkle(n), conflicts[n]) /\ y.pc \notin Published /\ me.pc \notin Published
  BY <1>1, <1>3 DEF ThreadOK, Published
<1>5. HeardOK' /\ process[n] # "down"
  BY <1>1, HeardStays
<1> QED BY <1>1, <1>2, <1>3, <1>4, <1>5, CheckingStep

LEMMA FreshFits ==
  ASSUME WatchInv, NEW n \in Node, NEW t \in Thread
  PROVE  LET y == Fresh(n, t) IN
         y \in Locals /\ y.pc = "read" /\ ThreadOK(n, y, Merkle(n), conflicts[n])
<1> DEFINE y == Fresh(n, t)
<1>1. Tip(n) \in TipSet /\ TipWithin(Tip(n), Merkle(n))
  BY OwnTip DEF WatchInv
<1>2. y \in Locals
  BY <1>1, IdleFits DEF Fresh, Locals, Labels
<1>3. y.pc = "read" /\ y.tip = Tip(n)
  BY IdleFits DEF Fresh, Idle
<1> QED BY <1>1, <1>2, <1>3 DEF ThreadOK, Published

LEMMA PruneStep ==
  ASSUME WatchInv, NEW n \in Node, NEW t \in Thread, Prune(n, t)
  PROVE  WatchInv'
<1> DEFINE me == thread[n][t]
           stale == {p \in Heard(n) : ~known[n][p].fresh}
           y == IF stale = {} THEN Fresh(n, t) ELSE [me EXCEPT !.pc = "delete", !.stale = stale]
<1>1. /\ me.pc = "prune" /\ Becomes(n, t, y)
      /\ UNCHANGED <<ledger, conflicts, process, known, count, records, files, raced, wire>>
  BY DEF Prune, world, memory
<1>2. stale \in SUBSET Node
  BY DEF Heard
<1>3. y \in Locals /\ y.pc \in {"read", "delete"} /\ ThreadOK(n, y, Merkle(n), conflicts[n])
  <2>1. CASE stale = {}
    BY <2>1, FreshFits
  <2>2. CASE stale # {}
    <3> DEFINE z == [me EXCEPT !.pc = "delete", !.stale = stale]
    <3>1. me \in Locals
      BY <1>1, Checking
    <3> HIDE DEF stale
    <3>2. z \in Locals /\ z.pc = "delete"
      BY <1>2, <3>1 DEF Locals, Labels
    <3> HIDE DEF z
    <3>3. ThreadOK(n, z, Merkle(n), conflicts[n])
      BY <3>2 DEF ThreadOK, Published
    <3> QED BY <2>2, <3>2, <3>3 DEF z
  <2> QED BY <2>1, <2>2
<1> HIDE DEF y, stale
<1>4. process[n] # "down" /\ me.pc \notin Published /\ y.pc \notin Published /\ HeardOK'
  BY <1>1, <1>3, Checking, HeardStays DEF Published
<1> QED BY <1>1, <1>3, <1>4, CheckingStep

LEMMA DeleteStep ==
  ASSUME WatchInv, NEW n \in Node, NEW t \in Thread, Delete(n, t)
  PROVE  WatchInv'
<1> DEFINE me == thread[n][t]
<1>1. /\ me.pc = "delete" /\ me \in Locals /\ process[n] # "down" /\ me.pc \notin Published
      /\ UNCHANGED <<ledger, conflicts, process, count, records, files, raced, wire>>
  BY Checking DEF Delete, world, Published
<1>2. PICK p \in me.stale :
        IF p \in Heard(n)
        THEN /\ known' = [known EXCEPT ![n][p] = Unknown]
             /\ Becomes(n, t, IF me.stale = {p} THEN Fresh(n, t)
                              ELSE [me EXCEPT !.stale = @ \ {p}])
        ELSE Ends(n, t) /\ UNCHANGED known
  BY Zenon DEF Delete
<1>3. CASE p \in Heard(n)
  <2> DEFINE z == [me EXCEPT !.stale = @ \ {p}]
             y == IF me.stale = {p} THEN Fresh(n, t) ELSE z
  <2>1. Becomes(n, t, y) /\ known' = [known EXCEPT ![n][p] = Unknown]
    BY <1>2, <1>3
  <2>2. z \in Locals /\ z.pc = "delete"
    BY <1>1 DEF Locals
  <2> HIDE DEF z
  <2>3. ThreadOK(n, z, Merkle(n), conflicts[n])
    BY <2>2 DEF ThreadOK, Published
  <2>4. y \in Locals /\ y.pc \in {"read", "delete"} /\ ThreadOK(n, y, Merkle(n), conflicts[n])
    BY <2>2, <2>3, FreshFits
  <2> HIDE DEF y
  <2>5. p \in Node
    BY <1>1 DEF Locals
  <2>6. HeardOK'
    BY <1>1, <2>1, <2>5 DEF WatchInv, HeardOK
  <2>7. y.pc \notin Published
    BY <2>4 DEF Published
  <2> QED BY <1>1, <2>1, <2>4, <2>6, <2>7, CheckingStep
<1>4. CASE p \notin Heard(n)
  BY <1>1, <1>2, <1>4, EndsStep, HeardStays
<1> QED BY <1>3, <1>4

LEMMA ReadStep ==
  ASSUME WatchInv, NEW n \in Node, NEW t \in Thread, Read(n, t)
  PROVE  WatchInv'
<1> DEFINE me == thread[n][t]
           y == [me EXCEPT !.pc = "compare", !.packets = Merkle(n), !.size = Cardinality(Heard(n))]
<1>1. /\ me.pc = "read" /\ Becomes(n, t, y)
      /\ UNCHANGED <<ledger, conflicts, process, known, count, records, files, raced, wire>>
  BY DEF Read, world, memory
<1>2. process[n] # "down" /\ me \in Locals /\ TipWithin(me.tip, Merkle(n))
  BY <1>1, Checking DEF ThreadOK
<1>3. Cardinality(Heard(n)) \in Nat /\ Merkle(n) \in SUBSET Packet
  <2>1. IsFiniteSet(Heard(n))
    BY ForkWatchAssumption, FS_Subset DEF Heard
  <2> QED BY <2>1, FS_CardinalityType, OwnTip DEF WatchInv
<1>4. y \in Locals /\ y.pc = "compare" /\ y.packets = Merkle(n) /\ y.tip = me.tip
  BY <1>2, <1>3 DEF Locals, Labels
<1> HIDE DEF y
<1>5. ThreadOK(n, y, Merkle(n), conflicts[n])
  BY <1>2, <1>4 DEF ThreadOK, Published
<1>6. me.pc \notin Published /\ y.pc \notin Published /\ HeardOK'
  BY <1>1, <1>4, HeardStays DEF Published
<1> QED BY <1>1, <1>2, <1>4, <1>5, <1>6, CheckingStep

-----------------------------------------------------------------------------
(* The comparison, and the publication.                                      *)

\* A view of more agents than a node has peers, with tips that differ, is a fork.
LEMMA ForkFound ==
  ASSUME WatchInv, NEW n \in Node, NEW t \in Thread, thread[n][t].pc = "compare",
         ~Partial(n, t), ~(Cardinality(Tips(View(n, t))) <= 1)
  PROVE  ForkOK(n, Record(thread[n][t].packets, View(n, t), conflicts[n]), Merkle(n), conflicts[n])
<1> DEFINE me == thread[n][t]
           view == View(n, t)
           D == {n} \cup Heard(n)
           r == Record(me.packets, view, conflicts[n])
<1>1. me \in Locals /\ TipWithin(me.tip, me.packets) /\ me.packets \subseteq Merkle(n)
  BY Checking DEF ThreadOK
<1>2. D \in SUBSET Node /\ IsFiniteSet(D) /\ IsFiniteSet(Heard(n)) /\ n \notin Heard(n)
  BY ForkWatchAssumption, FS_Subset DEF Heard, WatchInv, HeardOK
<1>3. view \in [D -> TipSet] /\ view[n] = me.tip
  <2>1. \A p \in Heard(n) : known[n][p].tip \in TipSet
    BY DEF WatchInv, HeardOK, Heard, Announced
  <2>2. me.tip \in TipSet
    BY <1>1 DEF Locals
  <2> QED BY <2>1, <2>2 DEF View
<1>4. Cardinality(D) > Cardinality(Peers[n])
  <2>1. IsFiniteSet(Peers[n])
    BY ForkWatchAssumption, FS_Subset
  <2>2. /\ Cardinality(D) = Cardinality(Heard(n)) + 1
        /\ Cardinality(Heard(n)) \in Nat /\ Cardinality(Peers[n]) \in Nat
    BY <1>2, <2>1, FS_AddElement, FS_CardinalityType
  <2> QED BY <2>2 DEF Partial
<1>5. Cardinality(Tips(view)) > 1
  <2>1. Tips(view) = {view[p] : p \in D}
    BY <1>3 DEF Tips
  <2>0. view \in [D -> TipSet]
    BY <1>3
  <2> HIDE DEF view, D
  <2>2. IsFiniteSet(Tips(view))
    <3>1. view \in Surjection(D, Tips(view))
      BY <2>0, <2>1 DEF Surjection
    <3> QED BY <1>2, <3>1, FS_Surjection
  <2>3. Cardinality(Tips(view)) \in Nat
    BY <2>2, FS_CardinalityType
  <2> QED BY <2>3 DEF view
<1>6. view \in Views /\ DOMAIN view = D
  <2> HIDE DEF view, D
  <2> QED BY <1>2, <1>3 DEF Views
<1>7. conflicts[n] \in SUBSET Contradictions /\ me.packets \in SUBSET Packet
  BY <1>1 DEF WatchInv, WorldOK, Locals
<1> HIDE DEF view, D
<1>8. /\ r \in Forks /\ r.tips = view /\ r.packets = me.packets /\ r.conflicts = conflicts[n]
  BY <1>6, <1>7 DEF Record, Forks
<1> HIDE DEF r
<1>9. ForkOK(n, r, Merkle(n), conflicts[n])
  BY <1>1, <1>3, <1>4, <1>5, <1>6, <1>8 DEF ForkOK
<1> QED BY <1>9 DEF r, view

LEMMA CompareStep ==
  ASSUME WatchInv, NEW n \in Node, NEW t \in Thread, Compare(n, t)
  PROVE  WatchInv'
<1> DEFINE me == thread[n][t]
           view == View(n, t)
           fork == Record(me.packets, view, conflicts[n])
           y == [Idle EXCEPT !.pc = "remember", !.fork = fork]
<1>1. /\ me.pc = "compare"
      /\ UNCHANGED <<ledger, conflicts, process, known, records, files, raced, wire>>
      /\ IF Cardinality(Heard(n)) # me.size \/ Partial(n, t)
         THEN Ends(n, t) /\ UNCHANGED <<snapshot, count>>
         ELSE /\ Stability(n, view)
              /\ IF count'[n] < StableChecks \/ Cardinality(Tips(view)) <= 1
                 THEN Ends(n, t)
                 ELSE Becomes(n, t, y)
  BY Zenon DEF Compare, world
<1>2. me.pc # "idle" /\ me.pc \notin Published /\ process[n] # "down"
  BY <1>1, Checking DEF Published
<1>3. HeardOK'
  <2>1. Stability(n, view) => count' \in [Node -> 0..StableChecks]
    <3> HIDE DEF view
    <3>1. count \in [Node -> 0..StableChecks] /\ StableChecks \in Nat
      BY ForkWatchAssumption DEF WatchInv, HeardOK
    <3>2. Stability(n, view) =>
            \/ count' = [count EXCEPT ![n] = IF @ < StableChecks THEN @ + 1 ELSE @]
            \/ count' = [count EXCEPT ![n] = 0]
      BY DEF Stability
    <3> QED BY <3>1, <3>2
  <2>2. count' \in [Node -> 0..StableChecks]
    BY <1>1, <2>1 DEF WatchInv, HeardOK
  <2> QED BY <1>1, <2>2 DEF WatchInv, HeardOK
<1>4. CASE Ends(n, t)
  BY <1>1, <1>2, <1>3, <1>4, EndsStep
<1>5. CASE ~Partial(n, t) /\ ~(Cardinality(Tips(view)) <= 1) /\ Becomes(n, t, y)
  <2>1. ForkOK(n, fork, Merkle(n), conflicts[n])
    BY <1>1, <1>5, ForkFound
  <2> HIDE DEF fork
  <2>2. y \in Locals /\ y.pc = "remember" /\ y.fork = fork
    <3>1. fork \in Forks /\ Idle \in Locals
      BY <2>1, IdleFits DEF ForkOK
    <3> QED BY <3>1 DEF Locals, Labels
  <2>3. Becomes(n, t, y)
    BY <1>5
  <2> HIDE DEF y
  <2>4. ThreadOK(n, y, Merkle(n), conflicts[n]) /\ y.pc \notin Published
    BY <2>1, <2>2 DEF ThreadOK, Published
  <2> QED BY <1>1, <1>2, <1>3, <2>2, <2>3, <2>4, CheckingStep
<1> QED BY <1>1, <1>4, <1>5

LEMMA RememberStep ==
  ASSUME WatchInv, NEW n \in Node, NEW t \in Thread, Remember(n, t)
  PROVE  WatchInv'
<1> DEFINE me == thread[n][t]
           y == [me EXCEPT !.pc = "list"]
<1>1. /\ me.pc = "remember"
      /\ UNCHANGED <<ledger, conflicts, process, known, count, files, wire>>
      /\ \/ /\ records' = [records EXCEPT ![n] = {me.fork}] /\ Becomes(n, t, y)
            /\ raced' = IF Publishing(n) # {} THEN raced \cup {n} ELSE raced \ {n}
         \/ Ends(n, t) /\ UNCHANGED <<records, raced>>
  BY DEF Remember, Goto, world
<1>2. /\ me.pc # "idle" /\ me.pc \notin Published /\ process[n] # "down" /\ me \in Locals
      /\ ForkOK(n, me.fork, Merkle(n), conflicts[n]) /\ HeardOK'
  BY <1>1, Checking, HeardStays DEF Published, ThreadOK
<1>3. CASE Ends(n, t) /\ UNCHANGED <<records, raced>>
  BY <1>1, <1>2, <1>3, EndsStep
<1>4. CASE /\ records' = [records EXCEPT ![n] = {me.fork}] /\ Becomes(n, t, y)
           /\ raced' = IF Publishing(n) # {} THEN raced \cup {n} ELSE raced \ {n}
  <2>1. y \in Locals /\ y.pc = "list" /\ y.fork = me.fork
    BY <1>2 DEF Locals, Labels
  <2>2. Becomes(n, t, y) /\ raced' \ {n} = raced \ {n}
    BY <1>4
  <2> HIDE DEF y
  <2>3. thread'[n][t] = y /\ \A u \in Thread \ {t} : thread'[n][u] = thread[n][u]
    BY <2>1, <2>2, BecomesThread DEF WatchInv, ThreadsOK
  <2>4. ThreadOK(n, y, Merkle(n), conflicts[n])
    BY <1>2, <2>1 DEF ThreadOK
  <2>5. /\ {me.fork} \in SUBSET Forks /\ files[n] \in SUBSET Forks
        /\ files' = [files EXCEPT ![n] = files[n]]
        /\ RecordsOK(n, {me.fork}, files[n], Merkle(n), conflicts[n])
    BY <1>1, <1>2 DEF WatchInv, DirectoriesOK, RecordsOK, ForkOK
  <2>6. ASSUME n \notin raced' PROVE DiskOK(Publishing(n)', thread'[n], {me.fork}, files[n])
    <3>1. Publishing(n) = {}
      BY <1>4, <2>6
    <3>2. Publishing(n)' = {t}
      BY <2>1, <2>3, <3>1 DEF Publishing
    <3> QED BY <2>1, <2>3, <3>2 DEF DiskOK
  <2>7. records' = [records EXCEPT ![n] = {me.fork}]
    BY <1>4
  <2> QED BY <1>1, <1>2, <2>1, <2>2, <2>4, <2>5, <2>6, <2>7, ThreadStep
<1> QED BY <1>1, <1>3, <1>4

\* A sole publication, seen from the thread that publishes.
LEMMA SolePublication ==
  ASSUME WatchInv, NEW n \in Node, NEW t \in Thread, thread[n][t].pc \in Published, n \notin raced
  PROVE  LET me == thread[n][t] IN
         /\ Publishing(n) = {t} /\ records[n] = {me.fork}
         /\ me.pc = "unlink" => files[n] = me.old
         /\ me.pc = "write" => files[n] = {}
<1>1. t \in Publishing(n) /\ process[n] # "down"
  BY Checking DEF Publishing, Published
<1>2. DiskOK(Publishing(n), thread[n], records[n], files[n])
  BY <1>1 DEF WatchInv, DirectoriesOK
<1> QED BY <1>1, <1>2 DEF DiskOK

\* What the steps of a publication have in common.
LEMMA PublishingStep ==
  ASSUME WatchInv, NEW n \in Node, NEW t \in Thread, thread[n][t].pc \in Published,
         NEW y \in Locals, Becomes(n, t, y),
         NEW F \in SUBSET Forks, files' = [files EXCEPT ![n] = F],
         UNCHANGED <<ledger, conflicts, process, records, raced, known, count, wire>>,
         ThreadOK(n, y, Merkle(n), conflicts[n]),
         \A r \in F : ForkOK(n, r, Merkle(n), conflicts[n]),
         n \notin raced =>
           IF y.pc \in Published
           THEN /\ y.fork = thread[n][t].fork
                /\ y.pc = "unlink" => F = y.old
                /\ y.pc = "write" => F = {}
           ELSE F = records[n]
  PROVE  WatchInv'
<1>1. /\ thread'[n][t] = y /\ \A u \in Thread \ {t} : thread'[n][u] = thread[n][u]
  BY BecomesThread DEF WatchInv, ThreadsOK
<1>2. /\ records[n] \in SUBSET Forks /\ records' = [records EXCEPT ![n] = records[n]]
      /\ RecordsOK(n, records[n], F, Merkle(n), conflicts[n])
  BY DEF WatchInv, DirectoriesOK, RecordsOK
<1>3. process[n] # "down" /\ HeardOK'
  BY Checking, HeardStays DEF Published
<1>4. ASSUME n \notin raced' PROVE DiskOK(Publishing(n)', thread'[n], records[n], F)
  <2>1. Publishing(n) = {t} /\ records[n] = {thread[n][t].fork}
    BY <1>4, SolePublication
  <2>2. CASE y.pc \in Published
    <3>1. Publishing(n)' = {t}
      BY <1>1, <2>1, <2>2 DEF Publishing, Published
    <3> QED BY <1>1, <1>4, <2>1, <2>2, <3>1 DEF DiskOK
  <2>3. CASE y.pc \notin Published
    <3>1. Publishing(n)' = {}
      BY <1>1, <2>1, <2>3 DEF Publishing, Published
    <3> QED BY <1>4, <2>3, <3>1 DEF DiskOK
  <2> QED BY <2>2, <2>3
<1> QED BY <1>2, <1>3, <1>4, ThreadStep

\* The files of a node, and what a thread that publishes them has at hand.
LEMMA Publication ==
  ASSUME WatchInv, NEW n \in Node, NEW t \in Thread, thread[n][t].pc \in Published
  PROVE  /\ thread[n][t] \in Locals /\ ForkOK(n, thread[n][t].fork, Merkle(n), conflicts[n])
         /\ files[n] \in SUBSET Forks
         /\ \A r \in files[n] : ForkOK(n, r, Merkle(n), conflicts[n])
BY Checking DEF WatchInv, DirectoriesOK, RecordsOK, ThreadOK, Published

LEMMA ListStep ==
  ASSUME WatchInv, NEW n \in Node, NEW t \in Thread, List(n, t)
  PROVE  WatchInv'
<1> DEFINE me == thread[n][t]
           label == IF files[n] = {} THEN "write" ELSE "unlink"
           y == [me EXCEPT !.old = files[n], !.pc = label]
<1>1. /\ me.pc = "list" /\ me.pc \in Published /\ Becomes(n, t, y)
      /\ UNCHANGED <<ledger, conflicts, process, records, raced, known, count, wire, files>>
  BY DEF List, world, memory, Published
<1>2. y \in Locals /\ y.pc = label /\ y.old = files[n] /\ y.fork = me.fork
  <2>1. label \in Labels
    BY DEF Labels
  <2> HIDE DEF label
  <2> QED BY <1>1, <2>1, Publication DEF Locals
<1> HIDE DEF y
<1>3. ThreadOK(n, y, Merkle(n), conflicts[n])
  BY <1>1, <1>2, Publication DEF ThreadOK
<1>4. files' = [files EXCEPT ![n] = files[n]]
  BY <1>1 DEF WatchInv, DirectoriesOK
<1>5. n \notin raced =>
        IF y.pc \in Published
        THEN /\ y.fork = me.fork
             /\ y.pc = "unlink" => files[n] = y.old
             /\ y.pc = "write" => files[n] = {}
        ELSE files[n] = records[n]
  BY <1>2 DEF Published
<1>6. files[n] \in SUBSET Forks /\ \A r \in files[n] : ForkOK(n, r, Merkle(n), conflicts[n])
  BY <1>1, Publication
<1> QED BY <1>1, <1>2, <1>3, <1>4, <1>5, <1>6, PublishingStep

LEMMA UnlinkStep ==
  ASSUME WatchInv, NEW n \in Node, NEW t \in Thread, Unlink(n, t)
  PROVE  WatchInv'
<1> DEFINE me == thread[n][t]
<1>1. /\ me.pc = "unlink" /\ me.pc \in Published
      /\ UNCHANGED <<ledger, conflicts, process, records, raced, known, count, wire>>
  BY DEF Unlink, world, memory, Published
<1>2. PICK f \in me.old :
        IF f \in files[n]
        THEN /\ files' = [files EXCEPT ![n] = @ \ {f}]
             /\ Becomes(n, t, [me EXCEPT !.old = @ \ {f},
                                 !.pc = IF me.old = {f} THEN "write" ELSE @])
        ELSE Ends(n, t) /\ UNCHANGED files
  BY Zenon DEF Unlink
<1>3. CASE f \in files[n]
  <2> DEFINE label == IF me.old = {f} THEN "write" ELSE me.pc
             y == [me EXCEPT !.old = @ \ {f}, !.pc = label]
             F == files[n] \ {f}
  <2>1. Becomes(n, t, y) /\ files' = [files EXCEPT ![n] = F]
    BY <1>2, <1>3
  <2>2. y \in Locals /\ y.pc = label /\ y.old = me.old \ {f} /\ y.fork = me.fork
    <3>1. label \in Labels
      BY <1>1 DEF Labels
    <3> HIDE DEF label
    <3> QED BY <1>1, <3>1, Publication DEF Locals
  <2> HIDE DEF y
  <2>3. ThreadOK(n, y, Merkle(n), conflicts[n])
    BY <1>1, <2>2, Publication DEF ThreadOK
  <2>4. F \in SUBSET Forks /\ \A r \in F : ForkOK(n, r, Merkle(n), conflicts[n])
    BY <1>1, Publication
  <2>5. n \notin raced => files[n] = me.old
    BY <1>1, SolePublication
  <2>6. n \notin raced =>
          IF y.pc \in Published
          THEN /\ y.fork = me.fork
               /\ y.pc = "unlink" => F = y.old
               /\ y.pc = "write" => F = {}
          ELSE F = records[n]
    BY <1>1, <2>2, <2>5 DEF Published
  <2> HIDE DEF F
  <2> QED BY <1>1, <2>1, <2>2, <2>3, <2>4, <2>6, PublishingStep
<1>4. CASE f \notin files[n]
  <2>1. n \in raced
    BY <1>1, <1>4, SolePublication
  <2>2. Becomes(n, t, Idle) /\ files' = [files EXCEPT ![n] = files[n]]
    BY <1>2, <1>4 DEF Ends, WatchInv, DirectoriesOK
  <2> QED BY <1>1, <2>1, <2>2, IdleFits, Publication, PublishingStep
<1> QED BY <1>3, <1>4

LEMMA WriteRecordStep ==
  ASSUME WatchInv, NEW n \in Node, NEW t \in Thread, WriteRecord(n, t)
  PROVE  WatchInv'
<1> DEFINE me == thread[n][t]
           F == files[n] \cup {me.fork}
<1>1. /\ me.pc = "write" /\ me.pc \in Published /\ Becomes(n, t, Idle)
      /\ files' = [files EXCEPT ![n] = F]
      /\ UNCHANGED <<ledger, conflicts, process, records, raced, known, count, wire>>
  BY DEF WriteRecord, world, memory, Published, Ends, WatchInv, DirectoriesOK
<1>2. F \in SUBSET Forks /\ \A r \in F : ForkOK(n, r, Merkle(n), conflicts[n])
  BY <1>1, Publication DEF ForkOK
<1>3. n \notin raced => F = records[n]
  BY <1>1, SolePublication
<1>4. Idle.pc \notin Published
  BY IdleFits DEF Published
<1> QED BY <1>1, <1>2, <1>3, <1>4, IdleFits, PublishingStep

LEMMA CheckStep ==
  ASSUME WatchInv, NEW n \in Node, NEW t \in Thread, Check(n, t)
  PROVE  WatchInv'
BY PruneStep, DeleteStep, ReadStep, CompareStep, RememberStep, ListStep, UnlinkStep,
   WriteRecordStep, Zenon DEF Check

-----------------------------------------------------------------------------
(* The world, heartbeats and processes.                                      *)

\* What is known of others changes, or nothing does.
LEMMA HeardStep ==
  ASSUME WatchInv, HeardOK',
         UNCHANGED <<ledger, conflicts, process, records, files, thread, raced>>
  PROVE  WatchInv'
BY DEF WatchInv, WorldOK, ThreadsOK, DirectoriesOK, Merkle, Publishing

LEMMA HearStep ==
  ASSUME WatchInv, NEW m \in wire, Hear(m)
  PROVE  WatchInv'
<1>1. /\ known' = [known EXCEPT ![m.to][m.from] = [tip |-> m.tip, fresh |-> TRUE]]
      /\ wire' = wire \ {m}
      /\ UNCHANGED <<ledger, conflicts, process, count, records, files, thread, raced>>
  BY DEF Hear, world
<1>2. m.from \in Node /\ m.to \in Node /\ m.tip \in TipSet /\ m.to \in Peers[m.from]
  BY DEF WatchInv, HeardOK
<1>3. m.from # m.to
  BY <1>2, ForkWatchAssumption
<1>4. [tip |-> m.tip, fresh |-> TRUE] \in Announced
  BY <1>2 DEF Announced
<1>5. HeardOK'
  BY <1>1, <1>2, <1>3, <1>4 DEF WatchInv, HeardOK
<1> QED BY <1>1, <1>5, HeardStep

LEMMA LoseStep ==
  ASSUME WatchInv, NEW m \in wire, Lose(m)
  PROVE  WatchInv'
<1>1. /\ wire' = wire \ {m}
      /\ UNCHANGED <<ledger, conflicts, process, known, count, records, files, thread, raced>>
  BY DEF Lose, world, memory
<1>2. HeardOK'
  BY <1>1 DEF WatchInv, HeardOK
<1> QED BY <1>1, <1>2, HeardStep

LEMMA AgeStep ==
  ASSUME WatchInv, NEW n \in Node, NEW p \in Node, Age(n, p)
  PROVE  WatchInv'
<1>1. /\ known[n][p] # Unknown /\ known' = [known EXCEPT ![n][p].fresh = FALSE]
      /\ UNCHANGED <<ledger, conflicts, process, count, wire, records, files, thread, raced>>
  BY DEF Age, world, Heard
<1>2. n # p /\ known[n][p] \in Announced
  BY <1>1 DEF WatchInv, HeardOK
<1>3. [known[n][p] EXCEPT !.fresh = FALSE] \in Announced
  BY <1>2 DEF Announced
<1>4. HeardOK'
  BY <1>1, <1>2, <1>3 DEF WatchInv, HeardOK
<1> QED BY <1>1, <1>4, HeardStep

\* A ledger or the conflicts noted grow.
LEMMA WorldGrows ==
  ASSUME WatchInv, WorldOK', \A n \in Node : Merkle(n) \subseteq Merkle(n)',
         \A n \in Node : conflicts[n] \subseteq conflicts'[n],
         UNCHANGED <<process, known, count, wire, records, files, thread, raced>>
  PROVE  WatchInv'
<1>1. HeardOK'
  BY HeardStays
<1>2. ThreadsOK'
  <2>1. \A n \in Node, t \in Thread : ThreadOK(n, thread[n][t], Merkle(n)', conflicts'[n])
    BY ThreadStays DEF WatchInv, ThreadsOK
  <2> QED BY <2>1 DEF WatchInv, ThreadsOK
<1>3. DirectoriesOK'
  <2>1. \A n \in Node : RecordsOK(n, records[n], files[n], Merkle(n)', conflicts'[n])
    BY ForkStays DEF WatchInv, DirectoriesOK, RecordsOK
  <2>2. \A n \in Node : Publishing(n)' = Publishing(n)
    BY DEF Publishing
  <2> QED BY <2>1, <2>2 DEF WatchInv, DirectoriesOK
<1> QED BY <1>1, <1>2, <1>3 DEF WatchInv

LEMMA AdmitStep ==
  ASSUME WatchInv, NEW n \in Node, NEW p \in Packet, Admit(n, p)
  PROVE  WatchInv'
<1>1. /\ ledger' = [ledger EXCEPT ![n] = Append(@, p)]
      /\ UNCHANGED <<conflicts, process, known, count, wire, records, files, thread, raced>>
  BY DEF Admit, memory
<1>2. ledger[n] \in Seq(Packet)
  BY DEF WatchInv, WorldOK
<1>3. /\ ledger' \in [Node -> Seq(Packet)] /\ ledger'[n] = Append(ledger[n], p)
      /\ \A m \in Node \ {n} : ledger'[m] = ledger[m]
  BY <1>1, <1>2, ToSetGrows DEF WatchInv, WorldOK
<1>4. \A m \in Node : ToSet(ledger[m]) \subseteq ToSet(ledger'[m])
  BY <1>2, <1>3, ToSetGrows
<1>5. \A m \in Node : Merkle(m) \subseteq Merkle(m)'
  BY <1>4 DEF Merkle
<1>6. WorldOK'
  BY <1>1, <1>3 DEF WatchInv, WorldOK
<1> QED BY <1>1, <1>5, <1>6, WorldGrows

LEMMA NoteConflictStep ==
  ASSUME WatchInv, NEW n \in Node, NEW pair \in Contradictions, NoteConflict(n, pair)
  PROVE  WatchInv'
<1>1. /\ conflicts' = [conflicts EXCEPT ![n] = @ \cup {pair}]
      /\ UNCHANGED <<ledger, process, known, count, wire, records, files, thread, raced>>
  BY DEF NoteConflict, memory
<1>2. WorldOK' /\ \A m \in Node : conflicts[m] \subseteq conflicts'[m]
  BY <1>1 DEF WatchInv, WorldOK
<1>3. \A m \in Node : Merkle(m)' = Merkle(m)
  BY <1>1 DEF Merkle
<1> QED BY <1>1, <1>2, <1>3, WorldGrows

LEMMA TerminateStep ==
  ASSUME WatchInv, NEW n \in Node, Terminate(n)
  PROVE  WatchInv'
<1>1. /\ process[n] = "up" /\ process' = [process EXCEPT ![n] = "hung"]
      /\ UNCHANGED <<ledger, conflicts, known, count, wire, records, files, thread, raced>>
  BY DEF Terminate, world, memory
<1>2. WorldOK' /\ \A m \in Node : process'[m] = "down" <=> process[m] = "down"
  BY <1>1 DEF WatchInv, WorldOK
<1> QED BY <1>1, <1>2, HeardStays DEF WatchInv, ThreadsOK, DirectoriesOK, Merkle, Publishing

LEMMA KillStep ==
  ASSUME WatchInv, NEW n \in Node, Kill(n)
  PROVE  WatchInv'
<1>1. /\ process' = [process EXCEPT ![n] = "down"]
      /\ thread' = [thread EXCEPT ![n] = [t \in Thread |-> Idle]]
      /\ known' = [known EXCEPT ![n] = [p \in Node |-> Unknown]]
      /\ count' = [count EXCEPT ![n] = 0]
      /\ records' = [records EXCEPT ![n] = {}]
      /\ raced' = raced \ {n}
      /\ UNCHANGED <<ledger, conflicts, files, wire>>
  BY DEF Kill, world
<1>2. /\ process'[n] = "down" /\ \A m \in Node \ {n} : process'[m] = process[m]
      /\ WorldOK'
  BY <1>1 DEF WatchInv, WorldOK
<1>3. HeardOK'
  BY <1>1, ForkWatchAssumption DEF WatchInv, HeardOK
<1>4. /\ thread' \in [Node -> [Thread -> Locals]]
      /\ \A t \in Thread : thread'[n][t] = Idle
      /\ \A m \in Node \ {n} : thread'[m] = thread[m]
  BY <1>1, IdleFits DEF WatchInv, ThreadsOK
<1>5. \A m \in Node : Merkle(m)' = Merkle(m)
  BY <1>1 DEF Merkle
<1>6. ThreadsOK'
  <2>1. \A m \in Node, t \in Thread : ThreadOK(m, thread'[m][t], Merkle(m), conflicts[m])
    BY <1>4, IdleFits DEF WatchInv, ThreadsOK
  <2>2. \A m \in Node : process'[m] = "down" => \A t \in Thread : thread'[m][t].pc = "idle"
    BY <1>2, <1>4, IdleFits DEF WatchInv, ThreadsOK
  <2> QED BY <1>1, <1>4, <1>5, <2>1, <2>2 DEF ThreadsOK
<1>7. DirectoriesOK'
  <2>1. /\ records' \in [Node -> SUBSET Forks] /\ records'[n] = {}
        /\ \A m \in Node \ {n} : records'[m] = records[m]
    BY <1>1 DEF WatchInv, DirectoriesOK
  <2>2. \A m \in Node : RecordsOK(m, records'[m], files[m], Merkle(m), conflicts[m])
    BY <2>1 DEF WatchInv, DirectoriesOK, RecordsOK
  <2>3. ASSUME NEW m \in Node, process'[m] # "down", m \notin raced'
        PROVE  DiskOK(Publishing(m)', thread'[m], records'[m], files[m])
    <3>1. m # n /\ m \notin raced /\ process[m] # "down"
      BY <1>1, <1>2, <2>3
    <3>2. Publishing(m)' = Publishing(m) /\ thread'[m] = thread[m] /\ records'[m] = records[m]
      BY <1>4, <2>1, <3>1 DEF Publishing
    <3> QED BY <3>1, <3>2 DEF WatchInv, DirectoriesOK
  <2> QED BY <1>1, <1>5, <2>1, <2>2, <2>3 DEF WatchInv, DirectoriesOK
<1> QED BY <1>2, <1>3, <1>6, <1>7 DEF WatchInv

LEMMA StartStep ==
  ASSUME WatchInv, NEW n \in Node, Start(n)
  PROVE  WatchInv'
<1>1. /\ process[n] = "down" /\ process' = [process EXCEPT ![n] = "up"]
      /\ records' = [records EXCEPT ![n] = files[n]]
      /\ UNCHANGED <<ledger, conflicts, known, count, files, thread, wire, raced>>
  BY DEF Start, world
<1>2. WorldOK' /\ process'[n] = "up" /\ \A m \in Node \ {n} : process'[m] = process[m]
  BY <1>1 DEF WatchInv, WorldOK
<1>3. \A m \in Node : Merkle(m)' = Merkle(m) /\ Publishing(m)' = Publishing(m)
  BY <1>1 DEF Merkle, Publishing
<1>4. ThreadsOK'
  <2>1. \A m \in Node : process'[m] = "down" => process[m] = "down"
    BY <1>2
  <2> QED BY <1>1, <1>3, <2>1 DEF WatchInv, ThreadsOK
<1>5. DirectoriesOK'
  <2>1. /\ records' \in [Node -> SUBSET Forks] /\ records'[n] = files[n]
        /\ \A m \in Node \ {n} : records'[m] = records[m]
    BY <1>1 DEF WatchInv, DirectoriesOK
  <2>2. \A m \in Node : RecordsOK(m, records'[m], files[m], Merkle(m), conflicts[m])
    BY <2>1 DEF WatchInv, DirectoriesOK, RecordsOK
  <2>3. Publishing(n) = {}
    BY <1>1 DEF WatchInv, ThreadsOK, Publishing
  <2>4. ASSUME NEW m \in Node, process'[m] # "down", m \notin raced
        PROVE  DiskOK(Publishing(m), thread[m], records'[m], files[m])
    <3>1. CASE m = n
      BY <2>1, <2>3, <3>1 DEF DiskOK
    <3>2. CASE m # n
      BY <1>2, <2>1, <2>4, <3>2 DEF WatchInv, DirectoriesOK
    <3> QED BY <3>1, <3>2
  <2> QED BY <1>1, <1>3, <2>1, <2>2, <2>4 DEF WatchInv, DirectoriesOK
<1>6. HeardOK'
  BY <1>1, HeardStays
<1> QED BY <1>2, <1>4, <1>5, <1>6 DEF WatchInv

-----------------------------------------------------------------------------
(* Every state.                                                              *)

LEMMA WatchInit == Init => WatchInv
<1> SUFFICES ASSUME Init PROVE WatchInv
  OBVIOUS
<1>1. WorldOK /\ HeardOK
  BY ForkWatchAssumption DEF Init, WorldOK, HeardOK
<1>2. \A n \in Node : Publishing(n) = {}
  BY IdleFits DEF Init, Publishing
<1>3. ThreadsOK
  BY IdleFits DEF Init, ThreadsOK
<1>4. DirectoriesOK
  BY <1>2 DEF Init, DirectoriesOK, RecordsOK, DiskOK
<1> QED BY <1>1, <1>3, <1>4 DEF WatchInv

LEMMA WatchStep == WatchInv /\ [Next]_vars => WatchInv'
<1> SUFFICES ASSUME WatchInv, [Next]_vars PROVE WatchInv'
  OBVIOUS
<1>1. CASE UNCHANGED vars
  <2>1. UNCHANGED <<ledger, conflicts, process, known, count, wire, records, files, thread, raced>>
    BY <1>1 DEF vars, world, memory
  <2> QED BY <2>1, HeardStep, HeardStays
<1>2. ASSUME NEW n \in Node, NEW p \in Packet, Admit(n, p) PROVE WatchInv'
  BY <1>2, AdmitStep
<1>3. ASSUME NEW n \in Node, NEW pair \in Contradictions, NoteConflict(n, pair) PROVE WatchInv'
  BY <1>3, NoteConflictStep
<1>4. ASSUME NEW n \in Node, Beat(n) PROVE WatchInv'
  BY <1>4, BeatStep
<1>5. ASSUME NEW n \in Node, Terminate(n) \/ Kill(n) \/ Start(n) PROVE WatchInv'
  BY <1>5, TerminateStep, KillStep, StartStep
<1>6. ASSUME NEW n \in Node, NEW p \in Peers[n], Mismatch(n, p) PROVE WatchInv'
  <2>1. p \in Node
    BY ForkWatchAssumption
  <2> QED BY <1>6, <2>1, MismatchStep
<1>7. ASSUME NEW n \in Node, NEW p \in Node, Age(n, p) PROVE WatchInv'
  BY <1>7, AgeStep
<1>8. ASSUME NEW n \in Node, NEW t \in Thread, Check(n, t) PROVE WatchInv'
  BY <1>8, CheckStep
<1>9. ASSUME NEW m \in wire, Hear(m) \/ Lose(m) PROVE WatchInv'
  BY <1>9, HearStep, LoseStep
<1> QED BY <1>1, <1>2, <1>3, <1>4, <1>5, <1>6, <1>7, <1>8, <1>9, Zenon DEF Next

LEMMA WatchIsKept == Spec => []WatchInv
BY WatchInit, WatchStep, PTL DEF Spec

\* A fork record names more agents than the node has peers and tips that differ,
\* packets and conflicts the node has, and all packets behind its own tip:
\* check_and_publish_fork reads the tip first.
THEOREM ForkWatchTypes == Spec => []TypeOK
<1>1. WatchInv => TypeOK
  <2> SUFFICES ASSUME WatchInv PROVE TypeOK
    OBVIOUS
  <2>1. ASSUME NEW n \in Node, NEW r \in records[n] \cup files[n]
        PROVE  /\ Cardinality(DOMAIN r.tips) > Cardinality(Peers[n])
               /\ Cardinality(Tips(r.tips)) > 1
               /\ r.packets \subseteq Merkle(n) /\ r.conflicts \subseteq conflicts[n]
               /\ r.tips[n] # Genesis => ToSet(r.tips[n][2]) \subseteq r.packets
    BY DEF WatchInv, DirectoriesOK, RecordsOK, ForkOK, TipWithin
  <2>2. /\ ledger \in [Node -> Seq(Packet)] /\ process \in [Node -> {"up", "hung", "down"}]
        /\ count \in [Node -> 0..StableChecks] /\ \A m \in wire : m.to \in Peers[m.from]
    BY DEF WatchInv, WorldOK, HeardOK
  <2> QED BY <2>1, <2>2 DEF TypeOK
<1> QED BY <1>1, WatchIsKept, PTL

\* commons_node.py:306: once nobody publishes, the disk has the record a running
\* node answers with, unless its two threads published at once.
THEOREM RecordIsOnDisk == Spec => []RecordOnDisk
<1>1. WatchInv => RecordOnDisk
  BY ForkWatchAssumption DEF WatchInv, DirectoriesOK, DiskOK, RecordOnDisk
<1> QED BY <1>1, WatchIsKept, PTL

===============================================================================
