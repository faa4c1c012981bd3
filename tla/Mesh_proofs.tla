----------------------------- MODULE Mesh_proofs -----------------------------
(* What a mesh node keeps for every number of nodes, threads, packets,      *)
(* failed requests and crashes.                                              *)
EXTENDS Mesh, TLAPS

-----------------------------------------------------------------------------
(* The inductive invariant, for one node: nothing in it looks at another.   *)

\* A finding at a reconciler may be written by threads without the lock.
Special(n, p) == n \in Reconciler /\ p \in FindingPackets

Writing == {"fill", "blocks", "append"}
Holds(x) == x.pc \in LockedSteps /\ x.origin # "resolve"

NamesOK(n, x) ==
  /\ x.pc \in {"hear", "pull", "admit", "tell", "publish"} \cup LockedSteps
       => x.packet \in Packet
  /\ x.pc = "note" => x.rival \in Contradicts[x.packet]
  /\ x.pc \in {"resolve", "file", "publish"} => x.origin = "resolve"
  /\ x.origin = "resolve" =>
       /\ n \in Reconciler
       /\ x.pc \in {"resolve", "file", "publish", "create"} \cup Writing
       /\ x.resolution \in Resolution
       /\ x.pc \in {"publish", "create"} \cup Writing => x.packet \in Findings[x.resolution]
  /\ x.resolution \in Resolution => x.origin = "resolve"
  /\ x.against # {} => x.pc \in {"check", "note"} /\ x.against \subseteq Contradicts[x.packet]

\* What a thread in the middle of an admission knows.
FactsOK(n, x) ==
  /\ x.pc \in Writing \cup {"check", "note"} => object[n][x.packet] # Absent
  /\ x.pc \in {"blocks", "append"} /\ ~Special(n, x.packet) => object[n][x.packet] = Whole
  /\ x.pc \in {"create"} \cup Writing /\ ~Special(n, x.packet) => x.packet \notin Committed(n)
  /\ x.pc = "note" => {x.packet, x.rival} \in conflicts[n]
  /\ x.pc = "append" /\ x.origin # "resolve" =>
       \/ x.tip = Tip(n)
       \/ /\ n \in Reconciler
          /\ ledger[n] # <<>> /\ Last(ledger[n]).header.packet \in FindingPackets

LockOK(n) == \A t, u \in Thread : Holds(thread[n][t]) /\ Holds(thread[n][u]) => t = u

ChainOK(n) ==
  \A i \in 2..Len(ledger[n]) :
    \/ ledger[n][i].previous = Hash(ledger[n][i - 1])
    \/ /\ n \in Reconciler
       /\ \/ ledger[n][i].header.packet \in FindingPackets
          \/ ledger[n][i - 1].header.packet \in FindingPackets

OnceOK(n) ==
  \A i, j \in DOMAIN ledger[n] :
    ledger[n][i].header.packet = ledger[n][j].header.packet
      => i = j \/ Special(n, ledger[n][i].header.packet)

ServedOK(n) ==
  \A p \in Committed(n) :
    object[n][p] = Whole \/ (Special(n, p) /\ object[n][p] = Torn)

RealOK(n) ==
  /\ conflictFiles[n] \subseteq conflicts[n]
  /\ \A pair \in conflicts[n] :
       /\ \A p \in pair : object[n][p] # Absent
       /\ \E p, q \in pair : pair = {p, q} /\ q \in Contradicts[p]

Precedes(n, p, q) ==
  \A i, j \in DOMAIN ledger[n] :
    (ledger[n][i].header.packet = p /\ ledger[n][j].header.packet = q) => i < j

Looking(n, p, q) == \E t \in Thread : thread[n][t].packet = p /\ q \in thread[n][t].against

MissedOK(n) ==
  \A p \in Committed(n) : \A q \in Contradicts[p] :
    (object[n][q] # Absent /\ {p, q} \notin conflicts[n]) =>
      n \in crashed \/ Looking(n, p, q) \/ Precedes(n, p, q)

\* An object without a block has a thread on its way to append one.
InWriting(n, p) == \E t \in Thread : thread[n][t].packet = p /\ thread[n][t].pc \in Writing

AccountedOK(n) ==
  \A p \in Packet : object[n][p] # Absent =>
    n \in crashed \/ p \in Committed(n) \/ InWriting(n, p)

Published(n, r) == \E p \in Findings[r] : p \in Committed(n)

Publishing(n, r) ==
  \/ \E t \in Thread : thread[n][t].resolution = r
  \/ \E p \in Findings[r] : InWriting(n, p)

UnpublishedOK(n) ==
  \A r \in resolutions[n] : n \in crashed \/ Published(n, r) \/ Publishing(n, r)

ThreadsOK(n) == \A t \in Thread : NamesOK(n, thread[n][t]) /\ FactsOK(n, thread[n][t])

NodeInv(n) ==
  /\ ThreadsOK(n) /\ LockOK(n)
  /\ ChainOK(n) /\ OnceOK(n) /\ ServedOK(n)
  /\ RealOK(n) /\ MissedOK(n)
  /\ AccountedOK(n) /\ UnpublishedOK(n)

MeshInv == TypeOK /\ \A n \in Node : NodeInv(n)

-----------------------------------------------------------------------------
(* A step of thread t of node n, and what it leaves alone.                  *)

Moves(n, t, y) ==
  /\ thread'[n][t] = y
  /\ \A u \in Thread \ {t} : thread'[n][u] = thread[n][u]
  /\ \A m \in Node \ {n} : thread'[m] = thread[m]

LEMMA BecomesMoves ==
  ASSUME TypeOK, NEW n \in Node, NEW t \in Thread, NEW y \in Locals, Becomes(n, t, y)
  PROVE  /\ Moves(n, t, y)
         /\ thread' \in [Node -> [Thread -> Locals]]
<1>1. thread \in [Node -> [Thread -> Locals]]
  BY DEF TypeOK
<1>2. [thread[n] EXCEPT ![t] = y] \in [Thread -> Locals]
  BY <1>1
<1>3. thread' = [thread EXCEPT ![n] = [thread[n] EXCEPT ![t] = y]]
  BY <1>1 DEF Becomes
<1> QED BY <1>1, <1>2, <1>3 DEF Moves

\* What one node knows is not touched by the steps of others.
LEMMA Elsewhere ==
  ASSUME NEW m \in Node, NodeInv(m),
         object'[m] = object[m], ledger'[m] = ledger[m], conflicts'[m] = conflicts[m],
         conflictFiles'[m] = conflictFiles[m], resolutions'[m] = resolutions[m],
         thread'[m] = thread[m], m \in crashed => m \in crashed'
  PROVE  NodeInv(m)'
<1>1. ThreadsOK(m)' /\ LockOK(m)'
  BY DEF NodeInv, ThreadsOK, LockOK, NamesOK, FactsOK, Tip, Committed
<1>2. ChainOK(m)' /\ OnceOK(m)' /\ ServedOK(m)' /\ RealOK(m)'
  BY DEF NodeInv, ChainOK, OnceOK, ServedOK, RealOK, Committed
<1>3. MissedOK(m)'
  BY DEF NodeInv, MissedOK, Looking, Precedes, Committed
<1>4. AccountedOK(m)' /\ UnpublishedOK(m)'
  BY DEF NodeInv, AccountedOK, UnpublishedOK, InWriting, Published, Publishing, Committed
<1> QED BY <1>1, <1>2, <1>3, <1>4 DEF NodeInv

\* A thread moves and its node's store stays: what is left to show is about
\* the thread alone.
Harmless(n, x, y) ==
  /\ NamesOK(n, y) /\ FactsOK(n, y)
  /\ Holds(y) => Holds(x) \/ \A u \in Thread : ~Holds(thread[n][u])
  /\ x.pc \in Writing => y.pc \in Writing /\ y.packet = x.packet
  /\ \A q \in x.against :
       \/ y.packet = x.packet /\ q \in y.against
       \/ object[n][q] = Absent \/ {x.packet, q} \in conflicts[n]
  /\ x.resolution \in Resolution =>
       \/ y.resolution = x.resolution
       \/ \E p \in Findings[x.resolution] : object[n][p] # Absent

LEMMA QuietStep ==
  ASSUME TypeOK, NEW n \in Node, NodeInv(n), NEW t \in Thread, NEW y \in Locals,
         Moves(n, t, y), Harmless(n, thread[n][t], y),
         object'[n] = object[n], ledger'[n] = ledger[n], conflicts'[n] = conflicts[n],
         conflictFiles'[n] \subseteq conflicts[n],
         resolutions'[n] \subseteq resolutions[n] \cup {y.resolution},
         crashed' = crashed
  PROVE  NodeInv(n)'
<1> DEFINE x == thread[n][t]
<1>0. thread'[n][t] = y /\ \A u \in Thread \ {t} : thread'[n][u] = thread[n][u]
  BY DEF Moves
<1>1. ThreadsOK(n)'
  <2>1. ASSUME NEW u \in Thread
        PROVE  NamesOK(n, thread'[n][u]) /\ FactsOK(n, thread'[n][u])
    BY <1>0 DEF NodeInv, ThreadsOK, Harmless
  <2>2. ASSUME NEW u \in Thread
        PROVE  NamesOK(n, thread[n][u])'
    BY <2>1 DEF NamesOK
  <2>3. ASSUME NEW u \in Thread
        PROVE  FactsOK(n, thread[n][u])'
    BY <2>1 DEF FactsOK, Tip, Committed
  <2> QED BY <2>2, <2>3 DEF ThreadsOK
<1>2. LockOK(n)'
  BY <1>0 DEF NodeInv, LockOK, Harmless
<1>3. ChainOK(n)' /\ OnceOK(n)' /\ ServedOK(n)' /\ RealOK(n)'
  BY DEF NodeInv, ChainOK, OnceOK, ServedOK, RealOK, Committed
<1>4. MissedOK(n)'
  <2>1. SUFFICES ASSUME NEW p \in Committed(n), NEW q \in Contradicts[p],
                        object[n][q] # Absent, {p, q} \notin conflicts[n],
                        n \notin crashed, ~Precedes(n, p, q)
                 PROVE  Looking(n, p, q)'
    BY DEF MissedOK, Committed, Precedes
  <2>2. PICK u \in Thread : thread[n][u].packet = p /\ q \in thread[n][u].against
    BY <2>1 DEF NodeInv, MissedOK, Looking
  <2>3. thread'[n][u].packet = p /\ q \in thread'[n][u].against
    BY <1>0, <2>1, <2>2 DEF Harmless
  <2> QED BY <2>3 DEF Looking
<1>5. \A p : InWriting(n, p) => InWriting(n, p)'
  BY <1>0 DEF InWriting, Harmless
<1>6. AccountedOK(n)'
  BY <1>5 DEF NodeInv, AccountedOK, Committed
<1>7. UnpublishedOK(n)'
  <2>0. \A r : y.resolution = r => Publishing(n, r)'
    BY <1>0 DEF Publishing
  <2>1. SUFFICES ASSUME NEW r \in resolutions[n], n \notin crashed, ~Published(n, r)
                 PROVE  Publishing(n, r)'
    BY <2>0 DEF UnpublishedOK, Published, Committed
  <2>2. r \in Resolution
    BY DEF TypeOK
  <2>3. ASSUME NEW p \in Findings[r], object[n][p] # Absent
        PROVE  Publishing(n, r)'
    <3>1. p \in Packet
      BY <2>2, MeshAssumption
    <3>2. InWriting(n, p)
      BY <2>1, <2>3, <3>1 DEF NodeInv, AccountedOK, Published
    <3> QED BY <1>5, <3>2 DEF Publishing
  <2>4. CASE \E p \in Findings[r] : InWriting(n, p)
    BY <1>5, <2>4 DEF Publishing
  <2>5. CASE \E u \in Thread : thread[n][u].resolution = r
    BY <1>0, <2>2, <2>3, <2>5 DEF Harmless, Publishing
  <2> QED BY <2>1, <2>4, <2>5 DEF NodeInv, UnpublishedOK, Publishing
<1> QED BY <1>1, <1>2, <1>3, <1>4, <1>6, <1>7 DEF NodeInv

\* A thread that goes on with the same packet keeps what it stands for.
Advances(x, y) ==
  /\ y.packet = x.packet /\ y.against = x.against /\ y.resolution = x.resolution
  /\ x.pc \in Writing => y.pc \in Writing

LEMMA Advancing ==
  ASSUME NEW n \in Node, NEW t \in Thread, NEW y, Moves(n, t, y),
         Advances(thread[n][t], y)
  PROVE  /\ \A p, q : Looking(n, p, q) => Looking(n, p, q)'
         /\ \A p : InWriting(n, p) => InWriting(n, p)'
         /\ \A r : Publishing(n, r) => Publishing(n, r)'
<1>0. thread'[n][t] = y /\ \A u \in Thread \ {t} : thread'[n][u] = thread[n][u]
  BY DEF Moves
<1>1. \A p, q : Looking(n, p, q) => Looking(n, p, q)'
  BY <1>0 DEF Looking, Advances
<1>2. \A p : InWriting(n, p) => InWriting(n, p)'
  BY <1>0 DEF InWriting, Advances
<1>3. \A r : Publishing(n, r) => Publishing(n, r)'
  BY <1>0, <1>2 DEF Publishing, Advances
<1> QED BY <1>1, <1>2, <1>3

\* Two threads that write one ordinary packet are one: both hold the lock.
LEMMA OneWriter ==
  ASSUME NEW n \in Node, NodeInv(n), NEW t \in Thread, NEW u \in Thread,
         thread[n][t].pc \in {"create"} \cup Writing,
         thread[n][u].pc \in {"create"} \cup Writing,
         thread[n][u].packet = thread[n][t].packet,
         ~Special(n, thread[n][t].packet)
  PROVE  t = u
<1>1. ASSUME NEW v \in Thread, thread[n][v].pc \in {"create"} \cup Writing,
             ~Special(n, thread[n][v].packet)
      PROVE  Holds(thread[n][v])
  BY <1>1, MeshAssumption
     DEF NodeInv, ThreadsOK, NamesOK, Special, FindingPackets, Holds, Writing, LockedSteps
<1> QED BY <1>1 DEF NodeInv, LockOK

LEMMA LedgerPackets ==
  ASSUME TypeOK, NEW n \in Node
  PROVE  /\ Committed(n) \subseteq Packet
         /\ \A i \in DOMAIN ledger[n] : ledger[n][i] \in Blocks
<1>1. ledger[n] \in Seq(Blocks)
  BY DEF TypeOK
<1>2. \A i \in DOMAIN ledger[n] : ledger[n][i] \in Blocks
  BY <1>1
<1>3. \A block \in Blocks : block.header.packet \in Packet
  BY DEF Blocks, Headers
<1> QED BY <1>2, <1>3 DEF Committed

LEMMA ConflictPackets ==
  ASSUME TypeOK, NEW n \in Node, NEW pair \in conflicts[n]
  PROVE  pair \subseteq Packet
<1>1. pair \in Pairs
  BY DEF TypeOK
<1> QED BY <1>1 DEF Pairs

\* The object of the packet a thread admits is opened, or filled.
Writes(x, y, v) ==
  \/ x.pc = "create" /\ y = [x EXCEPT !.pc = "fill"] /\ v = Torn
  \/ x.pc = "fill" /\ y = [x EXCEPT !.pc = "blocks"] /\ v = Whole

LEMMA WriteStep ==
  ASSUME TypeOK, NEW n \in Node, NodeInv(n), NEW t \in Thread, NEW y \in Locals,
         Moves(n, t, y), NEW v, Writes(thread[n][t], y, v),
         object'[n] = [object[n] EXCEPT ![thread[n][t].packet] = v],
         ledger'[n] = ledger[n], conflicts'[n] = conflicts[n],
         conflictFiles'[n] = conflictFiles[n], resolutions'[n] = resolutions[n],
         crashed' = crashed
  PROVE  NodeInv(n)'
<1> DEFINE x == thread[n][t]
           p == x.packet
<1>a. thread'[n][t] = y /\ \A u \in Thread \ {t} : thread'[n][u] = thread[n][u]
  BY DEF Moves
<1>b. NamesOK(n, x) /\ FactsOK(n, x)
  BY DEF NodeInv, ThreadsOK
<1>c. x \in Locals /\ object[n] \in [Packet -> {Absent, Torn, Whole}]
  BY DEF TypeOK
<1>d. p \in Packet /\ x.pc \in {"create", "fill"}
  BY <1>b DEF NamesOK, LockedSteps, Writes
<1>1. /\ object'[n][p] = v /\ v # Absent
      /\ \A q \in Packet \ {p} : object'[n][q] = object[n][q]
  BY <1>c, <1>d DEF Writes, Absent, Torn, Whole
<1>2. /\ y.packet = p /\ y.against = x.against /\ y.resolution = x.resolution
      /\ y.origin = x.origin
      /\ \/ x.pc = "create" /\ y.pc = "fill"
         \/ x.pc = "fill" /\ y.pc = "blocks" /\ v = Whole
  <2>1. CASE y = [x EXCEPT !.pc = "fill"] /\ x.pc = "create"
    BY <1>c, <2>1 DEF Locals
  <2>2. CASE y = [x EXCEPT !.pc = "blocks"] /\ x.pc = "fill" /\ v = Whole
    BY <1>c, <2>2 DEF Locals
  <2> QED BY <2>1, <2>2 DEF Writes
<1>3. Advances(x, y) /\ y.pc \in Writing /\ y.pc \in LockedSteps /\ y.pc # "append"
  BY <1>2 DEF Advances, Writing, LockedSteps
<1>4. ThreadsOK(n)'
  <2>1. NamesOK(n, y)
    BY <1>b, <1>d, <1>2 DEF NamesOK, LockedSteps, Writing
  <2>2. ASSUME NEW u \in Thread PROVE NamesOK(n, thread'[n][u])
    BY <1>a, <2>1 DEF NodeInv, ThreadsOK
  <2>3. FactsOK(n, y)'
    BY <1>a, <1>b, <1>d, <1>1, <1>2 DEF FactsOK, Committed, Writing
  <2>4. ASSUME NEW u \in Thread \ {t} PROVE FactsOK(n, thread[n][u])'
    <3> DEFINE z == thread[n][u]
    <3>0. NamesOK(n, z) /\ FactsOK(n, z) /\ thread'[n][u] = z
      BY <1>a DEF NodeInv, ThreadsOK
    <3>1. z.pc \in Writing \cup {"check", "note"} => z.packet \in Packet
      BY <3>0 DEF NamesOK, Writing, LockedSteps
    <3>2. z.pc \in {"blocks", "append"} /\ ~Special(n, z.packet) => z.packet # p
      BY <1>d, <2>4, OneWriter DEF Writing
    <3>3. z.pc \in Writing \cup {"check", "note"} => object'[n][z.packet] # Absent
      BY <1>1, <3>0, <3>1 DEF FactsOK
    <3>4. z.pc \in {"blocks", "append"} /\ ~Special(n, z.packet)
             => object'[n][z.packet] = Whole
      BY <1>1, <3>0, <3>1, <3>2 DEF FactsOK, Writing
    <3> QED BY <3>0, <3>3, <3>4 DEF FactsOK, Committed, Tip
  <2>5. ASSUME NEW u \in Thread PROVE NamesOK(n, thread[n][u])'
    BY <2>2 DEF NamesOK
  <2>6. FactsOK(n, thread[n][t])'
    BY <1>a, <2>3 DEF FactsOK, Tip, Committed
  <2> QED BY <2>4, <2>5, <2>6 DEF ThreadsOK
<1>5. LockOK(n)'
  BY <1>a, <1>d, <1>2 DEF NodeInv, LockOK, Holds, LockedSteps
<1>6. ChainOK(n)' /\ OnceOK(n)'
  BY DEF NodeInv, ChainOK, OnceOK
<1>7. \A q \in Packet : object[n][q] # Absent => object'[n][q] # Absent
  BY <1>1
<1>8. ServedOK(n)'
  <2>1. SUFFICES ASSUME NEW q \in Committed(n)
                 PROVE  object'[n][q] = Whole \/ (Special(n, q) /\ object'[n][q] = Torn)
    BY DEF ServedOK, Committed, Special
  <2>2. object[n][q] = Whole \/ (Special(n, q) /\ object[n][q] = Torn)
    BY DEF NodeInv, ServedOK
  <2>3. q \in Packet
    BY LedgerPackets
  <2>4. CASE q = p
    <3>1. Special(n, q)
      BY <1>b, <1>d, <2>1, <2>4 DEF FactsOK, Writing
    <3> QED BY <1>1, <2>4, <3>1 DEF Writes
  <2> QED BY <1>1, <2>2, <2>3, <2>4
<1>9. RealOK(n)'
  <2>1. \A pair \in conflicts[n] : pair \subseteq Packet
    BY ConflictPackets
  <2>2. \A pair \in conflicts[n] : \A q \in pair : object'[n][q] # Absent
    BY <1>7, <2>1 DEF NodeInv, RealOK
  <2> QED BY <2>2 DEF NodeInv, RealOK
<1>10. MissedOK(n)'
  <2>1. SUFFICES ASSUME NEW a \in Committed(n), NEW q \in Contradicts[a],
                        object'[n][q] # Absent, {a, q} \notin conflicts[n], n \notin crashed
                 PROVE  Looking(n, a, q)' \/ Precedes(n, a, q)
    BY DEF MissedOK, Committed, Precedes
  <2>2. CASE object[n][q] # Absent
    BY <1>3, <2>1, <2>2, Advancing DEF NodeInv, MissedOK
  <2>3. CASE object[n][q] = Absent
    <3>1. q \notin Committed(n)
      BY <2>3 DEF NodeInv, ServedOK, Absent, Torn, Whole
    <3> QED BY <3>1 DEF Precedes, Committed
  <2> QED BY <2>2, <2>3
<1>11. AccountedOK(n)'
  <2>1. InWriting(n, y.packet)'
    BY <1>a, <1>3 DEF InWriting
  <2>2. \A q : InWriting(n, q) => InWriting(n, q)'
    BY <1>3, Advancing
  <2>3. ASSUME NEW q \in Packet, object'[n][q] # Absent, n \notin crashed
        PROVE  q \in Committed(n) \/ InWriting(n, q)'
    BY <1>1, <1>2, <2>1, <2>2, <2>3 DEF NodeInv, AccountedOK
  <2> QED BY <2>3 DEF AccountedOK, Committed
<1>12. UnpublishedOK(n)'
  <2>1. \A r : Publishing(n, r) => Publishing(n, r)'
    BY <1>3, Advancing
  <2> QED BY <2>1 DEF NodeInv, UnpublishedOK, Published, Committed
<1> QED BY <1>4, <1>5, <1>6, <1>8, <1>9, <1>10, <1>11, <1>12 DEF NodeInv

\* What a thread is after its append.
Appended(n, x, y) ==
  \/ /\ x.origin = "resolve"
     /\ y = ToTell(x.packet, Peers[n])
  \/ /\ x.origin # "resolve"
     /\ y.pc = "check" /\ y.packet = x.packet /\ y.against = Contradicts[x.packet]
     /\ y.origin = x.origin /\ y.resolution = x.resolution

LEMMA ToTellShape ==
  ASSUME NEW p \in Packet, NEW peers \in SUBSET Node
  PROVE  LET y == ToTell(p, peers) IN
           /\ y \in Locals
           /\ y.pc = "idle" \/ (y.pc = "tell" /\ y.packet = p)
           /\ y.against = {} /\ y.origin = "client" /\ y.resolution = NoResolution
<1>1. Genesis \in Hashes
  BY DEF Genesis, Hashes
<1>2. Idle \in Locals
  BY <1>1 DEF Idle, Locals, Labels, LockedSteps, Origins
<1>3. [Idle EXCEPT !.pc = "tell", !.packet = p, !.left = peers] \in Locals
  BY <1>1 DEF Idle, Locals, Labels, LockedSteps, Origins
<1>4. CASE peers = {}
  BY <1>2, <1>4 DEF ToTell, Idle
<1>5. CASE peers # {}
  BY <1>3, <1>5 DEF ToTell, Idle
<1> QED BY <1>4, <1>5

LEMMA AppendStep ==
  ASSUME TypeOK, NEW n \in Node, NodeInv(n), NEW t \in Thread, NEW y \in Locals,
         Moves(n, t, y), thread[n][t].pc = "append", Appended(n, thread[n][t], y),
         ledger'[n] = Append(ledger[n],
           [header |-> [signer |-> n, height |-> thread[n][t].height,
                        packet |-> thread[n][t].packet],
            previous |-> thread[n][t].tip]),
         object'[n] = object[n], conflicts'[n] = conflicts[n],
         conflictFiles'[n] = conflictFiles[n], resolutions'[n] = resolutions[n],
         crashed' = crashed
  PROVE  NodeInv(n)' /\ ledger'[n] \in Seq(Blocks)
<1> DEFINE x == thread[n][t]
           p == x.packet
           block == [header |-> [signer |-> n, height |-> x.height, packet |-> p],
                     previous |-> x.tip]
           old == ledger[n]
           new == ledger'[n]
           last == Len(old) + 1
<1>a. thread'[n][t] = y /\ \A u \in Thread \ {t} : thread'[n][u] = thread[n][u]
  BY DEF Moves
<1>b. NamesOK(n, x) /\ FactsOK(n, x)
  BY DEF NodeInv, ThreadsOK
<1>c. x \in Locals /\ object[n] \in [Packet -> {Absent, Torn, Whole}] /\ old \in Seq(Blocks)
  BY DEF TypeOK
<1>d. p \in Packet
  BY <1>b DEF NamesOK, LockedSteps
<1>e. x.against = {}
  BY <1>b DEF NamesOK
<1>f. x.origin = "resolve" =>
         /\ n \in Reconciler /\ x.resolution \in Resolution
         /\ p \in Findings[x.resolution] /\ p \in FindingPackets
  BY <1>b DEF NamesOK, Writing, FindingPackets
<1>1. block \in Blocks
  BY <1>c, <1>d DEF Locals, Blocks, Headers
<1>2. /\ new \in Seq(Blocks) /\ Len(new) = last /\ last \in Nat /\ Len(old) \in Nat
      /\ new[last] = block
      /\ \A i \in 1..Len(old) : new[i] = old[i]
      /\ DOMAIN new = 1..last /\ DOMAIN old = 1..Len(old)
  BY <1>1, <1>c
<1>3. Last(new) = block /\ new # <<>>
  BY <1>2 DEF Last
<1>4. Committed(n)' = Committed(n) \cup {p}
  <2>1. p \in Committed(n)' /\ Committed(n) \subseteq Committed(n)'
    BY <1>2 DEF Committed
  <2>2. \A i \in 1..last : i = last \/ i \in 1..Len(old)
    BY <1>2
  <2>3. Committed(n)' \subseteq Committed(n) \cup {p}
    BY <1>2, <2>2 DEF Committed
  <2> QED BY <2>1, <2>3
<1>5. /\ \A i \in 1..last : i = last \/ i \in 1..Len(old)
      /\ \A i \in 1..Len(old) : i \in 1..last
  BY <1>2
<1>6. ThreadsOK(n)'
  <2>0. \/ /\ x.origin = "resolve"
           /\ y.pc = "idle" \/ (y.pc = "tell" /\ y.packet = p)
           /\ y.against = {} /\ y.origin = "client" /\ y.resolution = NoResolution
        \/ x.origin # "resolve" /\ Appended(n, x, y)
    BY <1>d, MeshAssumption, ToTellShape DEF Appended
  <2>1. NamesOK(n, y)
    BY <1>b, <1>d, <2>0, MeshAssumption DEF NamesOK, LockedSteps, Writing, Appended
  <2>2. FactsOK(n, y)'
    BY <1>b, <2>0 DEF FactsOK, Writing, Appended
  <2>3. ASSUME NEW u \in Thread \ {t} PROVE FactsOK(n, thread[n][u])'
    <3> DEFINE z == thread[n][u]
    <3>0. NamesOK(n, z) /\ FactsOK(n, z) /\ thread'[n][u] = z
      BY <1>a DEF NodeInv, ThreadsOK
    <3>1. z.pc \in {"create"} \cup Writing /\ ~Special(n, z.packet) => z.packet # p
      BY <2>3, OneWriter DEF Writing
    <3>2. z.pc \in {"create"} \cup Writing /\ ~Special(n, z.packet)
             => z.packet \notin Committed(n)'
      BY <1>4, <3>0, <3>1 DEF FactsOK
    <3>3. z.pc = "append" /\ z.origin # "resolve" =>
             n \in Reconciler /\ p \in FindingPackets
      BY <1>f, <2>3 DEF NodeInv, LockOK, Holds, LockedSteps
    <3> QED BY <1>3, <3>0, <3>2, <3>3 DEF FactsOK
  <2>4. ASSUME NEW u \in Thread PROVE NamesOK(n, thread'[n][u])
    BY <1>a, <2>1 DEF NodeInv, ThreadsOK
  <2>5. ASSUME NEW u \in Thread PROVE NamesOK(n, thread[n][u])'
    BY <2>4 DEF NamesOK
  <2>6. FactsOK(n, thread[n][t])'
    BY <1>a, <2>2 DEF FactsOK, Tip, Committed
  <2> QED BY <2>3, <2>5, <2>6 DEF ThreadsOK
<1>7. LockOK(n)'
  <2>1. Holds(y) => Holds(x)
    BY <1>d, MeshAssumption, ToTellShape DEF Appended, Holds, LockedSteps
  <2> QED BY <1>a, <2>1 DEF NodeInv, LockOK
<1>8. ChainOK(n)'
  <2>1. ASSUME NEW i \in 2..last
        PROVE  \/ new[i].previous = Hash(new[i - 1])
               \/ /\ n \in Reconciler
                  /\ \/ new[i].header.packet \in FindingPackets
                     \/ new[i - 1].header.packet \in FindingPackets
    <3>1. CASE i = last
      <4>1. Len(old) # 0 /\ i - 1 = Len(old) /\ old # <<>>
        BY <1>2, <2>1, <3>1
      <4>2. new[i - 1] = Last(old) /\ new[i] = block
        BY <1>2, <3>1, <4>1 DEF Last
      <4>3. CASE x.origin = "resolve"
        BY <1>f, <4>2, <4>3
      <4>4. CASE x.origin # "resolve"
        <5>1. \/ x.tip = Hash(Last(old))
              \/ n \in Reconciler /\ Last(old).header.packet \in FindingPackets
          BY <1>b, <4>1, <4>4 DEF FactsOK, Tip
        <5> QED BY <4>2, <5>1
      <4> QED BY <4>3, <4>4
    <3>2. CASE i # last
      <4>1. i \in 2..Len(old) /\ new[i] = old[i] /\ new[i - 1] = old[i - 1]
        BY <1>2, <2>1, <3>2
      <4> QED BY <4>1 DEF NodeInv, ChainOK
    <3> QED BY <3>1, <3>2
  <2>2. Len(new) = last
    BY <1>2
  <2> QED BY <2>1, <2>2 DEF ChainOK
<1>9. OnceOK(n)'
  <2>1. ASSUME NEW i \in 1..Len(old), old[i].header.packet = p
        PROVE  Special(n, p)
    <3>1. p \in Committed(n)
      BY <1>2, <2>1 DEF Committed
    <3> QED BY <1>b, <3>1 DEF FactsOK, Writing
  <2>2. ASSUME NEW i \in 1..last, NEW j \in 1..last,
               new[i].header.packet = new[j].header.packet, i # j
        PROVE  Special(n, new[i].header.packet)
    <3>1. CASE i \in 1..Len(old) /\ j \in 1..Len(old)
      BY <1>2, <2>2, <3>1 DEF NodeInv, OnceOK
    <3>2. CASE i = last \/ j = last
      BY <1>2, <1>5, <2>1, <2>2, <3>2
    <3> QED BY <1>5, <3>1, <3>2
  <2> QED BY <1>2, <2>2 DEF OnceOK, Special
<1>10. ServedOK(n)'
  <2>1. object[n][p] = Whole \/ (Special(n, p) /\ object[n][p] = Torn)
    BY <1>b, <1>c, <1>d DEF FactsOK, Writing
  <2>2. ASSUME NEW q \in Committed(n)'
        PROVE  object[n][q] = Whole \/ (Special(n, q) /\ object[n][q] = Torn)
    BY <1>4, <2>1 DEF NodeInv, ServedOK
  <2> QED BY <2>2 DEF ServedOK, Special
<1>11. RealOK(n)'
  BY DEF NodeInv, RealOK
<1>12. MissedOK(n)'
  <2>1. SUFFICES ASSUME NEW a \in Committed(n)', NEW q \in Contradicts[a],
                        object[n][q] # Absent, {a, q} \notin conflicts[n], n \notin crashed
                 PROVE  Looking(n, a, q)' \/ Precedes(n, a, q)'
    BY DEF MissedOK
  <2>2. a \in Packet /\ q \in Packet /\ a # q
    BY <1>4, <1>d, LedgerPackets, MeshAssumption, ContradictsAssumption
  <2>3. CASE a \in Committed(n)
    <3>0. a = p => FALSE
      <4>1. SUFFICES ASSUME a = p PROVE FALSE
        OBVIOUS
      <4>2. a \in FindingPackets
        BY <1>b, <2>3, <4>1 DEF FactsOK, Special, Writing
      <4> QED BY <4>2, ContradictsAssumption DEF FindingPackets
    <3>1. Looking(n, a, q) => Looking(n, a, q)'
      BY <1>a, <1>e DEF Looking
    <3>2. Precedes(n, a, q) => Precedes(n, a, q)'
      BY <1>2, <1>5, <3>0 DEF Precedes
    <3> QED BY <2>1, <2>3, <3>1, <3>2 DEF NodeInv, MissedOK
  <2>4. CASE a \notin Committed(n)
    <3>1. a = p
      BY <1>4, <2>4
    <3>2. x.origin # "resolve"
      BY <1>f, <3>1, ContradictsAssumption
    <3>3. y.packet = a /\ q \in y.against
      BY <3>1, <3>2 DEF Appended
    <3> QED BY <1>a, <3>3 DEF Looking
  <2> QED BY <2>3, <2>4
<1>13. \A q : InWriting(n, q) => InWriting(n, q)' \/ q = p
  BY <1>a DEF InWriting
<1>14. AccountedOK(n)'
  BY <1>4, <1>13 DEF NodeInv, AccountedOK
<1>15. UnpublishedOK(n)'
  <2>1. SUFFICES ASSUME NEW r \in resolutions[n], n \notin crashed
                 PROVE  Published(n, r)' \/ Publishing(n, r)'
    BY DEF UnpublishedOK
  <2>2. r \in Resolution
    BY DEF TypeOK
  <2>3. Published(n, r) => Published(n, r)'
    BY <1>4 DEF Published
  <2>4. ASSUME p \in Findings[r] PROVE Published(n, r)'
    BY <1>4, <2>4 DEF Published
  <2>5. ASSUME NEW q \in Findings[r], InWriting(n, q)
        PROVE  Published(n, r)' \/ Publishing(n, r)'
    BY <1>13, <2>4, <2>5 DEF Publishing
  <2>6. ASSUME NEW u \in Thread, thread[n][u].resolution = r
        PROVE  Published(n, r)' \/ Publishing(n, r)'
    <3>1. CASE u = t
      BY <1>b, <2>2, <2>4, <2>6, <3>1 DEF NamesOK, Writing
    <3>2. CASE u # t
      BY <1>a, <2>6, <3>2 DEF Publishing
    <3> QED BY <3>1, <3>2
  <2> QED BY <2>1, <2>3, <2>5, <2>6 DEF NodeInv, UnpublishedOK, Publishing
<1> QED BY <1>2, <1>6, <1>7, <1>8, <1>9, <1>10, <1>11, <1>12, <1>14, <1>15 DEF NodeInv

LEMMA ConflictStep ==
  ASSUME TypeOK, NEW n \in Node, NodeInv(n), NEW t \in Thread, NEW y \in Locals,
         Moves(n, t, y), thread[n][t].pc = "check",
         NEW q \in thread[n][t].against, object[n][q] # Absent,
         y = [thread[n][t] EXCEPT !.pc = "note", !.against = @ \ {q}, !.rival = q],
         conflicts'[n] = conflicts[n] \cup {{thread[n][t].packet, q}},
         object'[n] = object[n], ledger'[n] = ledger[n],
         conflictFiles'[n] = conflictFiles[n], resolutions'[n] = resolutions[n],
         crashed' = crashed
  PROVE  NodeInv(n)'
<1> DEFINE x == thread[n][t]
           p == x.packet
<1>a. thread'[n][t] = y /\ \A u \in Thread \ {t} : thread'[n][u] = thread[n][u]
  BY DEF Moves
<1>b. NamesOK(n, x) /\ FactsOK(n, x)
  BY DEF NodeInv, ThreadsOK
<1>c. x \in Locals
  BY DEF TypeOK
<1>1. /\ y.pc = "note" /\ y.packet = p /\ y.against = x.against \ {q} /\ y.rival = q
      /\ y.resolution = x.resolution /\ y.origin = x.origin
  BY <1>c DEF Locals
<1>2. p \in Packet /\ q \in Contradicts[p] /\ object[n][p] # Absent
  BY <1>b DEF NamesOK, FactsOK, LockedSteps
<1>3. ThreadsOK(n)'
  <2>1. NamesOK(n, y)
    BY <1>b, <1>1, <1>2 DEF NamesOK, LockedSteps, Writing
  <2>2. FactsOK(n, y)'
    BY <1>1, <1>2 DEF FactsOK, Writing
  <2>3. ASSUME NEW u \in Thread \ {t} PROVE FactsOK(n, thread[n][u])'
    <3>1. FactsOK(n, thread[n][u]) /\ thread'[n][u] = thread[n][u]
      BY <1>a DEF NodeInv, ThreadsOK
    <3> QED BY <3>1 DEF FactsOK, Tip, Committed
  <2>4. ASSUME NEW u \in Thread PROVE NamesOK(n, thread'[n][u])
    BY <1>a, <2>1 DEF NodeInv, ThreadsOK
  <2>5. ASSUME NEW u \in Thread PROVE NamesOK(n, thread[n][u])'
    BY <2>4 DEF NamesOK
  <2>6. FactsOK(n, thread[n][t])'
    BY <1>a, <2>2 DEF FactsOK, Tip, Committed
  <2> QED BY <2>3, <2>5, <2>6 DEF ThreadsOK
<1>4. LockOK(n)'
  <2>1. Holds(y) => Holds(x)
    BY <1>1 DEF Holds, LockedSteps
  <2> QED BY <1>a, <2>1 DEF NodeInv, LockOK
<1>5. ChainOK(n)' /\ OnceOK(n)' /\ ServedOK(n)'
  BY DEF NodeInv, ChainOK, OnceOK, ServedOK, Committed
<1>6. RealOK(n)'
  BY <1>2 DEF NodeInv, RealOK
<1>7. MissedOK(n)'
  <2>1. ASSUME NEW a, NEW b, Looking(n, a, b)
        PROVE  Looking(n, a, b)' \/ {a, b} = {p, q}
    <3>1. PICK u \in Thread : thread[n][u].packet = a /\ b \in thread[n][u].against
      BY <2>1 DEF Looking
    <3>2. CASE u = t
      BY <1>a, <1>1, <3>1, <3>2 DEF Looking
    <3>3. CASE u # t
      BY <1>a, <3>1, <3>3 DEF Looking
    <3> QED BY <3>2, <3>3
  <2>2. ASSUME NEW a \in Committed(n), NEW b \in Contradicts[a],
               object[n][b] # Absent, {a, b} \notin conflicts'[n], n \notin crashed
        PROVE  Looking(n, a, b)' \/ Precedes(n, a, b)
    BY <2>1, <2>2 DEF NodeInv, MissedOK
  <2> QED BY <2>2 DEF MissedOK, Precedes, Committed
<1>8. \A a : InWriting(n, a) => InWriting(n, a)'
  BY <1>a DEF InWriting, Writing
<1>9. AccountedOK(n)'
  BY <1>8 DEF NodeInv, AccountedOK, Committed
<1>10. UnpublishedOK(n)'
  <2>1. ASSUME NEW r, Publishing(n, r) PROVE Publishing(n, r)'
    <3>1. CASE \E a \in Findings[r] : InWriting(n, a)
      BY <1>8, <3>1 DEF Publishing
    <3>2. ASSUME NEW u \in Thread, thread[n][u].resolution = r
          PROVE  thread'[n][u].resolution = r
      BY <1>a, <1>1, <3>2
    <3> QED BY <2>1, <3>1, <3>2 DEF Publishing
  <2> QED BY <2>1 DEF NodeInv, UnpublishedOK, Published, Committed
<1> QED BY <1>3, <1>4, <1>5, <1>6, <1>7, <1>9, <1>10 DEF NodeInv

LEMMA CrashStep ==
  ASSUME NEW n \in Node, NodeInv(n), \A t \in Thread : thread'[n][t] = Idle,
         n \in crashed', object'[n] = object[n], ledger'[n] = ledger[n],
         conflicts'[n] = conflictFiles[n], conflictFiles'[n] = conflictFiles[n]
  PROVE  NodeInv(n)'
<1>1. NamesOK(n, Idle) /\ FactsOK(n, Idle)' /\ ~Holds(Idle)
  BY MeshAssumption DEF NamesOK, FactsOK, Holds, Idle, LockedSteps, Writing
<1>2. ThreadsOK(n)' /\ LockOK(n)'
  <2>1. ASSUME NEW u \in Thread PROVE NamesOK(n, thread'[n][u])
    BY <1>1
  <2>2. ASSUME NEW u \in Thread PROVE NamesOK(n, thread[n][u])'
    BY <2>1 DEF NamesOK
  <2>3. ASSUME NEW u \in Thread PROVE FactsOK(n, thread[n][u])'
    BY <1>1 DEF FactsOK, Tip, Committed
  <2> QED BY <1>1, <2>2, <2>3 DEF ThreadsOK, LockOK
<1>3. ChainOK(n)' /\ OnceOK(n)' /\ ServedOK(n)' /\ RealOK(n)'
  BY DEF NodeInv, ChainOK, OnceOK, ServedOK, RealOK, Committed
<1>4. MissedOK(n)' /\ AccountedOK(n)' /\ UnpublishedOK(n)'
  BY DEF MissedOK, AccountedOK, UnpublishedOK
<1> QED BY <1>2, <1>3, <1>4 DEF NodeInv

-----------------------------------------------------------------------------
(* Every action, from the lemma of its kind.                                 *)

LEMMA Known ==
  ASSUME MeshInv, NEW n \in Node, NEW t \in Thread
  PROVE  /\ thread[n][t] \in Locals
         /\ NamesOK(n, thread[n][t]) /\ FactsOK(n, thread[n][t])
BY DEF MeshInv, TypeOK, NodeInv, ThreadsOK

\* An action of node n leaves the others as they are.
LEMMA OnlyHere ==
  ASSUME MeshInv, NEW n \in Node, NodeInv(n)',
         \A m \in Node \ {n} :
           /\ object'[m] = object[m] /\ ledger'[m] = ledger[m]
           /\ conflicts'[m] = conflicts[m] /\ conflictFiles'[m] = conflictFiles[m]
           /\ resolutions'[m] = resolutions[m] /\ thread'[m] = thread[m],
         crashed \subseteq crashed'
  PROVE  \A m \in Node : NodeInv(m)'
<1>1. ASSUME NEW m \in Node \ {n} PROVE NodeInv(m)'
  BY Elsewhere DEF MeshInv
<1> QED BY <1>1

LEMMA QuietAction ==
  ASSUME MeshInv, NEW n \in Node, NEW t \in Thread, NEW y \in Locals,
         Becomes(n, t, y), Harmless(n, thread[n][t], y),
         UNCHANGED <<store, conflicts, crashed>>,
         conflictFiles'[n] \subseteq conflicts[n],
         resolutions'[n] \subseteq resolutions[n] \cup {y.resolution},
         \A m \in Node \ {n} : /\ conflictFiles'[m] = conflictFiles[m]
                               /\ resolutions'[m] = resolutions[m]
  PROVE  /\ \A m \in Node : NodeInv(m)'
         /\ thread' \in [Node -> [Thread -> Locals]]
<1>0. TypeOK /\ NodeInv(n)
  BY DEF MeshInv
<1>1. Moves(n, t, y) /\ thread' \in [Node -> [Thread -> Locals]]
  BY <1>0, BecomesMoves
<1>2. NodeInv(n)'
  BY <1>0, <1>1, QuietStep DEF store
<1> QED BY <1>1, <1>2, OnlyHere DEF store, Moves

\* A thread outside the lock and outside /resolve goes on outside them.
Outside(x) ==
  /\ x.pc \in {"idle", "hear", "pull", "admit", "tell", "asked", "compare"}
  /\ x.origin # "resolve" /\ x.against = {} /\ x.resolution \notin Resolution

LEMMA StaysOutside ==
  ASSUME NEW n \in Node, NEW x, NEW y,
         x.pc \notin Writing, x.against = {}, x.resolution \notin Resolution,
         Outside(y), y.pc \in {"hear", "pull", "admit", "tell"} => y.packet \in Packet
  PROVE  Harmless(n, x, y)
<1>1. NamesOK(n, y) /\ FactsOK(n, y)
  BY DEF Outside, NamesOK, FactsOK, LockedSteps, Writing
<1>2. ~Holds(y)
  BY DEF Outside, Holds, LockedSteps
<1> QED BY <1>1, <1>2 DEF Harmless

LEMMA OutsideAction ==
  ASSUME MeshInv, NEW n \in Node, NEW t \in Thread, NEW y \in Locals,
         Becomes(n, t, y), Outside(y),
         y.pc \in {"hear", "pull", "admit", "tell"} => y.packet \in Packet,
         \/ Outside(thread[n][t])
         \/ thread[n][t].pc = "check" /\ thread[n][t].against = {},
         UNCHANGED <<store, conflicts, resolutions, files, crashes, crashed>>,
         seen' \in [Node -> SUBSET Packet],
         wire' \subseteq [to : Node, from : Node, packet : Packet],
         requests' \in 0..MaxRequests, rounds' \in 0..MaxRounds, lost' \in BOOLEAN
  PROVE  MeshInv'
<1> DEFINE x == thread[n][t]
<1>1. NodeInv(n) /\ TypeOK
  BY DEF MeshInv
<1>2. x.pc \notin Writing /\ x.against = {} /\ x.resolution \notin Resolution
  BY Known DEF Outside, NamesOK, Writing
<1>3. Harmless(n, x, y)
  BY <1>2, StaysOutside
<1>4. conflictFiles[n] \subseteq conflicts[n]
  BY <1>1 DEF NodeInv, RealOK
<1>5. (\A m \in Node : NodeInv(m)') /\ thread' \in [Node -> [Thread -> Locals]]
  BY <1>3, <1>4, QuietAction DEF files
<1>6. TypeOK'
  BY <1>1, <1>5 DEF TypeOK, store, files
<1> QED BY <1>5, <1>6 DEF MeshInv

LEMMA WaitingIsOutside ==
  ASSUME MeshInv, NEW n \in Node, NEW t \in Thread,
         thread[n][t].pc \in {"idle", "hear", "pull", "admit", "tell", "asked", "compare"}
  PROVE  Outside(thread[n][t])
BY Known DEF Outside, NamesOK, LockedSteps, Writing

LEMMA IdleIsOutside == Idle \in Locals /\ Outside(Idle) /\ Idle.pc = "idle"
<1>1. Genesis \in Hashes
  BY DEF Genesis, Hashes
<1> QED BY <1>1, MeshAssumption DEF Idle, Outside, Locals, Labels, LockedSteps, Origins

LEMMA ToTellIsOutside ==
  ASSUME NEW p \in Packet, NEW peers \in SUBSET Node
  PROVE  /\ ToTell(p, peers) \in Locals /\ Outside(ToTell(p, peers))
         /\ ToTell(p, peers).pc = "idle" \/ ToTell(p, peers).packet = p
BY ToTellShape, MeshAssumption DEF Outside

LEMMA SubmitSafe ==
  ASSUME MeshInv, NEW n \in Node, NEW t \in Thread, NEW p \in Packet, Submit(n, t, p)
  PROVE  MeshInv'
<1> DEFINE y == [Idle EXCEPT !.pc = "admit", !.packet = p]
<1>1. y \in Locals /\ Outside(y) /\ y.packet = p
  BY IdleIsOutside DEF Locals, Outside, Labels
<1>2. requests' \in 0..MaxRequests
  BY BoundsAssumption DEF Submit, MeshInv, TypeOK
<1> QED BY <1>1, <1>2, OutsideAction, WaitingIsOutside
       DEF Submit, MeshInv, TypeOK, memory

LEMMA AdmittedSafe ==
  ASSUME MeshInv, NEW n \in Node, NEW t \in Thread, Admitted(n, t)
  PROVE  MeshInv'
<1> DEFINE x == thread[n][t]
           back == [Idle EXCEPT !.pc = "compare", !.origin = "replica", !.queue = x.queue]
<1>1. x \in Locals /\ x.packet \in Packet /\ x.pc = "check" /\ x.against = {}
  BY Known DEF Admitted, NamesOK, LockedSteps
<1>2. back \in Locals /\ Outside(back) /\ back.pc = "compare"
  BY <1>1, IdleIsOutside DEF Locals, Outside, Labels, Origins
<1>3. x.left \in SUBSET Node
  BY <1>1 DEF Locals
<1>4. CASE x.origin = "replica"
  BY <1>1, <1>2, <1>4, OutsideAction DEF Admitted, memory, history, MeshInv, TypeOK
<1>5. CASE x.origin # "replica"
  BY <1>1, <1>3, <1>5, OutsideAction, ToTellIsOutside
     DEF Admitted, memory, history, MeshInv, TypeOK
<1> QED BY <1>4, <1>5

LEMMA TellSafe ==
  ASSUME MeshInv, NEW n \in Node, NEW t \in Thread, NEW m \in Node, Tell(n, t, m)
  PROVE  MeshInv'
<1> DEFINE x == thread[n][t]
<1>1. x \in Locals /\ x.packet \in Packet /\ Outside(x)
  BY Known, WaitingIsOutside DEF Tell, NamesOK
<1>2. x.left \ {m} \in SUBSET Node
  BY <1>1 DEF Locals
<1>3. /\ wire' \subseteq [to : Node, from : Node, packet : Packet]
      /\ lost' \in BOOLEAN
  <2>1. /\ wire \subseteq [to : Node, from : Node, packet : Packet]
        /\ lost \in BOOLEAN
    BY DEF MeshInv, TypeOK
  <2>2. [to |-> m, from |-> n, packet |-> x.packet]
           \in [to : Node, from : Node, packet : Packet]
    BY <1>1
  <2> QED BY <2>1, <2>2 DEF Tell
<1> QED BY <1>1, <1>2, <1>3, OutsideAction, ToTellIsOutside
       DEF Tell, memory, MeshInv, TypeOK

LEMMA HearTipSafe ==
  ASSUME MeshInv, NEW n \in Node, NEW t \in Thread, NEW gossip, HearTip(n, t, gossip)
  PROVE  MeshInv'
<1> DEFINE y == [Idle EXCEPT !.pc = "hear", !.origin = "gossip",
                             !.packet = gossip.packet, !.left = {gossip.from}]
<1>1. wire \subseteq [to : Node, from : Node, packet : Packet]
  BY DEF MeshInv, TypeOK
<1>2. gossip.packet \in Packet /\ gossip.from \in Node
  BY <1>1 DEF HearTip
<1>3. y \in Locals /\ Outside(y) /\ y.packet \in Packet
  BY <1>2, IdleIsOutside DEF Locals, Outside, Labels, Origins
<1>4. wire' \subseteq wire
  BY DEF HearTip
<1>5. CASE gossip.packet \in seen[n]
  BY <1>1, <1>4, <1>5, IdleIsOutside, OutsideAction, WaitingIsOutside
     DEF HearTip, memory, history, MeshInv, TypeOK
<1>6. CASE gossip.packet \notin seen[n]
  BY <1>1, <1>3, <1>4, <1>6, OutsideAction, WaitingIsOutside
     DEF HearTip, memory, history, MeshInv, TypeOK
<1> QED BY <1>5, <1>6

LEMMA NoteTipSafe ==
  ASSUME MeshInv, NEW n \in Node, NEW t \in Thread, NEW found \in BOOLEAN,
         NoteTip(n, t, found)
  PROVE  MeshInv'
<1> DEFINE x == thread[n][t]
           asked == IF found THEN x.left ELSE Peers[n]
           y == [x EXCEPT !.pc = "pull", !.left = asked]
<1>1. x \in Locals /\ x.packet \in Packet /\ Outside(x)
  BY Known, WaitingIsOutside DEF NoteTip, NamesOK
<1>2. asked \in SUBSET Node
  BY <1>1, MeshAssumption DEF Locals
<1>3. y \in Locals /\ Outside(y) /\ y.packet \in Packet
  BY <1>1, <1>2 DEF Locals, Outside, Labels
<1>4. seen' \in [Node -> SUBSET Packet] /\ lost' \in BOOLEAN
  BY <1>1 DEF NoteTip, MeshInv, TypeOK
<1>5. CASE asked = {}
  BY <1>1, <1>4, <1>5, IdleIsOutside, OutsideAction DEF NoteTip, MeshInv, TypeOK
<1>6. CASE asked # {}
  BY <1>1, <1>3, <1>4, <1>6, OutsideAction DEF NoteTip, MeshInv, TypeOK
<1> QED BY <1>5, <1>6

LEMMA FetchSafe ==
  ASSUME MeshInv, NEW n \in Node, NEW t \in Thread, NEW m \in Node, Fetch(n, t, m)
  PROVE  MeshInv'
<1> DEFINE x == thread[n][t]
           y == [x EXCEPT !.pc = "admit", !.left = {}]
<1>1. x \in Locals /\ x.packet \in Packet /\ Outside(x)
  BY Known, WaitingIsOutside DEF Fetch, NamesOK
<1>2. y \in Locals /\ Outside(y) /\ y.packet \in Packet
  BY <1>1 DEF Locals, Outside, Labels
<1>3. CASE x.packet \in Admits[n]
  BY <1>1, <1>2, <1>3, OutsideAction DEF Fetch, memory, history, MeshInv, TypeOK
<1>4. CASE x.packet \notin Admits[n]
  BY <1>1, <1>4, IdleIsOutside, OutsideAction DEF Fetch, memory, history, MeshInv, TypeOK
<1> QED BY <1>3, <1>4

LEMMA FetchFailsSafe ==
  ASSUME MeshInv, NEW n \in Node, NEW t \in Thread, NEW m \in Node, FetchFails(n, t, m)
  PROVE  MeshInv'
<1> DEFINE x == thread[n][t]
           rest == x.left \ {m}
           y == [x EXCEPT !.left = rest]
<1>1. x \in Locals /\ x.packet \in Packet /\ Outside(x)
  BY Known, WaitingIsOutside DEF FetchFails, NamesOK
<1>2. y \in Locals /\ Outside(y) /\ y.packet \in Packet
  BY <1>1 DEF Locals, Outside, Labels
<1>3. lost' \in BOOLEAN
  BY DEF FetchFails, MeshInv, TypeOK
<1>4. CASE rest = {}
  BY <1>1, <1>3, <1>4, IdleIsOutside, OutsideAction
     DEF FetchFails, memory, MeshInv, TypeOK
<1>5. CASE rest # {}
  BY <1>1, <1>2, <1>3, <1>5, OutsideAction DEF FetchFails, memory, MeshInv, TypeOK
<1> QED BY <1>4, <1>5

LEMMA ReplicationSafe ==
  ASSUME MeshInv, NEW n \in Node, Replicate(n)
  PROVE  MeshInv'
<1> DEFINE x == thread[n][Replicator]
<1>0. /\ Replicator \in Thread /\ x \in Locals
      /\ \A m \in Node : ledger[m] \in Seq(Blocks)
  BY Known DEF Thread, MeshInv, TypeOK
<1>1. ASSUME NEW m \in Node, AskReplica(n, m) PROVE MeshInv'
  <2> DEFINE y == [Idle EXCEPT !.pc = "asked", !.origin = "replica", !.left = {m},
                               !.height = Height(n)]
  <2>1. Height(n) \in Nat
    <3>1. CASE ledger[n] = <<>>
      BY <3>1 DEF Height
    <3>2. CASE ledger[n] # <<>>
      <4>1. Last(ledger[n]) \in Blocks
        BY <1>0, <3>2 DEF Last
      <4> QED BY <3>2, <4>1 DEF Height, Blocks, Headers
    <3> QED BY <3>1, <3>2
  <2>2. y \in Locals /\ Outside(y) /\ y.pc = "asked"
    BY <2>1, IdleIsOutside DEF Locals, Outside, Labels, Origins
  <2>3. rounds' \in 0..MaxRounds
    BY <1>1, BoundsAssumption DEF AskReplica, MeshInv, TypeOK
  <2> QED BY <1>0, <1>1, <2>2, <2>3, OutsideAction, WaitingIsOutside
          DEF AskReplica, memory, MeshInv, TypeOK
<1>2. ASSUME NEW m \in Node, HearReplica(n, m) PROVE MeshInv'
  <2> DEFINE served == {i \in DOMAIN ledger[m] : ledger[m][i].header.height >= x.height}
             queue == {<<i, ledger[m][i]>> : i \in served}
             y == [Idle EXCEPT !.pc = "compare", !.origin = "replica", !.queue = queue]
  <2>1. queue \in SUBSET (Nat \X Blocks)
    BY <1>0
  <2>2. y \in Locals /\ Outside(y) /\ y.pc = "compare"
    BY <2>1, IdleIsOutside DEF Locals, Outside, Labels, Origins
  <2> QED BY <1>0, <1>2, <2>2, OutsideAction, WaitingIsOutside
          DEF HearReplica, memory, history, MeshInv, TypeOK
<1>3. CASE ReplicaFails(n)
  BY <1>0, <1>3, IdleIsOutside, OutsideAction, WaitingIsOutside
     DEF ReplicaFails, memory, MeshInv, TypeOK
<1>4. CASE TakeBlock(n)
  <2>1. Outside(x)
    BY <1>0, <1>4, WaitingIsOutside DEF TakeBlock
  <2>2. PICK entry \in x.queue :
          Becomes(n, Replicator,
            IF entry[2].header.packet \in Admits[n]
            THEN [x EXCEPT !.pc = "admit", !.packet = entry[2].header.packet,
                           !.tip = entry[2].previous, !.queue = @ \ {entry}]
            ELSE [x EXCEPT !.queue = @ \ {entry}])
    BY <1>4 DEF TakeBlock
  <2> DEFINE y == [x EXCEPT !.pc = "admit", !.packet = entry[2].header.packet,
                            !.tip = entry[2].previous, !.queue = @ \ {entry}]
             z == [x EXCEPT !.queue = @ \ {entry}]
  <2>3. x.queue \in SUBSET (Nat \X Blocks)
    BY <1>0 DEF Locals
  <2>4. entry[2].header.packet \in Packet /\ entry[2].previous \in Hashes
    BY <2>3 DEF Blocks, Headers
  <2>5. y \in Locals /\ Outside(y) /\ y.packet \in Packet
    BY <1>0, <2>1, <2>3, <2>4 DEF Locals, Outside, Labels
  <2>6. z \in Locals /\ Outside(z) /\ z.pc = "compare"
    BY <1>0, <1>4, <2>1, <2>3 DEF TakeBlock, Locals, Outside
  <2>7. CASE entry[2].header.packet \in Admits[n]
    BY <1>0, <1>4, <2>1, <2>2, <2>5, <2>7, OutsideAction
       DEF TakeBlock, memory, history, MeshInv, TypeOK
  <2>8. CASE entry[2].header.packet \notin Admits[n]
    BY <1>0, <1>4, <2>1, <2>2, <2>6, <2>8, OutsideAction
       DEF TakeBlock, memory, history, MeshInv, TypeOK
  <2> QED BY <2>7, <2>8
<1>5. CASE StopReplication(n)
  BY <1>0, <1>5, IdleIsOutside, OutsideAction, WaitingIsOutside
     DEF StopReplication, memory, history, MeshInv, TypeOK
<1> QED BY <1>1, <1>2, <1>3, <1>4, <1>5 DEF Replicate

LEMMA AdmitSafe ==
  ASSUME MeshInv, NEW n \in Node, NEW t \in Thread, Admit(n, t)
  PROVE  MeshInv'
<1> DEFINE x == thread[n][t]
           p == x.packet
           y == [x EXCEPT !.pc = "create"]
           z == [x EXCEPT !.pc = "check", !.against = Contradicts[p]]
<1>0. NodeInv(n) /\ TypeOK
  BY DEF MeshInv
<1>1. x \in Locals /\ p \in Packet /\ x.pc = "admit" /\ Outside(x)
  BY Known, WaitingIsOutside DEF Admit, NamesOK
<1>2. \A u \in Thread : ~Holds(thread[n][u])
  BY DEF Admit, Holds, HoldsLock
<1>3. \E v \in {y, z} :
        /\ v \in Locals /\ Becomes(n, t, v)
        /\ Harmless(n, x, v)
  <2>1. CASE object[n][p] = Absent
    <3>1. y \in Locals /\ y.pc = "create" /\ y.packet = p
          /\ y.against = {} /\ y.origin = x.origin /\ y.resolution = x.resolution
      BY <1>1 DEF Locals, Labels, LockedSteps, Outside
    <3>2. p \notin Committed(n)
      BY <1>0, <2>1 DEF NodeInv, ServedOK, Absent, Torn, Whole
    <3>3. NamesOK(n, y) /\ FactsOK(n, y)
      BY <1>1, <3>1, <3>2 DEF Outside, NamesOK, FactsOK, LockedSteps, Writing
    <3>4. Harmless(n, x, y)
      BY <1>1, <1>2, <3>1, <3>3 DEF Outside, Harmless, Writing
    <3> QED BY <2>1, <3>1, <3>4 DEF Admit
  <2>2. CASE object[n][p] # Absent
    <3>1. z \in Locals /\ z.pc = "check" /\ z.packet = p
          /\ z.against = Contradicts[p] /\ z.origin = x.origin
          /\ z.resolution = x.resolution
      BY <1>1, MeshAssumption DEF Locals, Labels, LockedSteps
    <3>2. NamesOK(n, z) /\ FactsOK(n, z)
      BY <1>1, <2>2, <3>1 DEF Outside, NamesOK, FactsOK, LockedSteps, Writing
    <3>3. Harmless(n, x, z)
      BY <1>1, <1>2, <3>1, <3>2 DEF Outside, Harmless, Writing
    <3> QED BY <2>2, <3>1, <3>3 DEF Admit
  <2> QED BY <2>1, <2>2
<1>4. conflictFiles[n] \subseteq conflicts[n]
  BY <1>0 DEF NodeInv, RealOK
<1>5. (\A m \in Node : NodeInv(m)') /\ thread' \in [Node -> [Thread -> Locals]]
  BY <1>3, <1>4, QuietAction DEF Admit, memory, files, history
<1>6. TypeOK'
  BY <1>0, <1>5 DEF Admit, TypeOK, store, memory, files, history
<1> QED BY <1>5, <1>6 DEF MeshInv

LEMMA WriteSafe ==
  ASSUME MeshInv, NEW n \in Node, NEW t \in Thread, OpenObject(n, t) \/ WriteObject(n, t)
  PROVE  MeshInv'
<1> DEFINE x == thread[n][t]
           p == x.packet
<1>0. NodeInv(n) /\ TypeOK
  BY DEF MeshInv
<1>1. x \in Locals /\ p \in Packet
  BY Known DEF OpenObject, WriteObject, NamesOK, LockedSteps
<1>2. \E y \in Locals, v \in {Torn, Whole} :
        /\ Becomes(n, t, y) /\ Writes(x, y, v)
        /\ object' = [object EXCEPT ![n][p] = v]
  <2>1. [x EXCEPT !.pc = "fill"] \in Locals /\ [x EXCEPT !.pc = "blocks"] \in Locals
    BY <1>1 DEF Locals, Labels, LockedSteps
  <2>2. CASE OpenObject(n, t)
    BY <2>1, <2>2 DEF OpenObject, Goto, Writes
  <2>3. CASE WriteObject(n, t)
    BY <2>1, <2>3 DEF WriteObject, Goto, Writes
  <2> QED BY <2>2, <2>3
<1>3. PICK y \in Locals, v \in {Torn, Whole} :
        /\ Becomes(n, t, y) /\ Writes(x, y, v)
        /\ object' = [object EXCEPT ![n][p] = v]
  BY <1>2
<1>4. Moves(n, t, y) /\ thread' \in [Node -> [Thread -> Locals]]
  BY <1>0, <1>3, BecomesMoves
<1>5. /\ object' \in [Node -> [Packet -> {Absent, Torn, Whole}]]
      /\ object'[n] = [object[n] EXCEPT ![p] = v]
      /\ \A m \in Node \ {n} : object'[m] = object[m]
  BY <1>0, <1>3 DEF TypeOK
<1>6. UNCHANGED <<ledger, memory, files, wire, history>>
  BY DEF OpenObject, WriteObject
<1>7. NodeInv(n)'
  BY <1>0, <1>3, <1>4, <1>5, <1>6, WriteStep DEF memory, files, history
<1>8. \A m \in Node : NodeInv(m)'
  BY <1>4, <1>5, <1>6, <1>7, OnlyHere DEF memory, files, history, Moves
<1>9. TypeOK'
  BY <1>0, <1>4, <1>5, <1>6 DEF TypeOK, memory, files, history
<1> QED BY <1>8, <1>9 DEF MeshInv

LEMMA TipInHashes ==
  ASSUME TypeOK, NEW n \in Node
  PROVE  Tip(n) \in Hashes /\ Len(ledger[n]) \in Nat
<1>1. ledger[n] \in Seq(Blocks)
  BY DEF TypeOK
<1>2. CASE ledger[n] = <<>>
  BY <1>1, <1>2 DEF Tip, Genesis, Hashes
<1>3. CASE ledger[n] # <<>>
  <2>1. Last(ledger[n]) \in Blocks
    BY <1>1, <1>3 DEF Last
  <2>2. Append(Last(ledger[n]).previous, Last(ledger[n]).header) \in Seq(Headers)
    BY <2>1 DEF Blocks, Hashes
  <2> QED BY <1>1, <1>3, <2>2 DEF Tip, Hash, Hashes
<1> QED BY <1>2, <1>3

LEMMA ReadBlocksSafe ==
  ASSUME MeshInv, NEW n \in Node, NEW t \in Thread, ReadBlocks(n, t)
  PROVE  MeshInv'
<1> DEFINE x == thread[n][t]
           y == [x EXCEPT !.pc = "append", !.tip = Tip(n), !.height = Len(ledger[n]) + 1]
<1>0. NodeInv(n) /\ TypeOK
  BY DEF MeshInv
<1>1. x \in Locals /\ x.pc = "blocks" /\ NamesOK(n, x) /\ FactsOK(n, x)
  BY Known DEF ReadBlocks
<1>2. Tip(n) \in Hashes /\ Len(ledger[n]) + 1 \in Nat
  BY <1>0, TipInHashes
<1>3. y \in Locals /\ y.pc = "append" /\ y.packet = x.packet /\ y.against = x.against
      /\ y.origin = x.origin /\ y.resolution = x.resolution /\ y.tip = Tip(n)
  BY <1>1, <1>2 DEF Locals, Labels, LockedSteps
<1>4. NamesOK(n, y) /\ FactsOK(n, y)
  BY <1>1, <1>3 DEF NamesOK, FactsOK, LockedSteps, Writing
<1>5. Harmless(n, x, y)
  BY <1>1, <1>3, <1>4 DEF Harmless, Holds, Writing, LockedSteps
<1>6. conflictFiles[n] \subseteq conflicts[n]
  BY <1>0 DEF NodeInv, RealOK
<1>7. (\A m \in Node : NodeInv(m)') /\ thread' \in [Node -> [Thread -> Locals]]
  BY <1>3, <1>5, <1>6, QuietAction DEF ReadBlocks, memory, files, history
<1>8. TypeOK'
  BY <1>0, <1>7 DEF ReadBlocks, TypeOK, store, memory, files, history
<1> QED BY <1>7, <1>8 DEF MeshInv

LEMMA AppendSafe ==
  ASSUME MeshInv, NEW n \in Node, NEW t \in Thread, AppendBlock(n, t)
  PROVE  MeshInv'
<1> DEFINE x == thread[n][t]
           p == x.packet
           y == IF x.origin = "resolve" THEN ToTell(p, Peers[n])
                ELSE [x EXCEPT
                        !.pc = "check", !.against = Contradicts[p],
                        !.left = IF x.origin = "client" THEN Peers[n] ELSE {},
                        !.tip = Genesis, !.height = 0]
<1>0. NodeInv(n) /\ TypeOK
  BY DEF MeshInv
<1>1. x \in Locals /\ p \in Packet /\ x.pc = "append"
  BY Known DEF AppendBlock, NamesOK, LockedSteps
<1>2. y \in Locals /\ Appended(n, x, y)
  <2>1. CASE x.origin = "resolve"
    BY <1>1, <2>1, ToTellShape, MeshAssumption DEF Appended
  <2>2. CASE x.origin # "resolve"
    <3>1. Genesis \in Hashes
      BY DEF Genesis, Hashes
    <3> QED BY <1>1, <2>2, <3>1, MeshAssumption DEF Appended, Locals, Labels, LockedSteps
  <2> QED BY <2>1, <2>2
<1>3. Becomes(n, t, y)
  BY DEF AppendBlock
<1>4. Moves(n, t, y) /\ thread' \in [Node -> [Thread -> Locals]]
  BY <1>0, <1>2, <1>3, BecomesMoves
<1>5. /\ ledger'[n] = Append(ledger[n],
           [header |-> [signer |-> n, height |-> x.height, packet |-> p],
            previous |-> x.tip])
      /\ \A m \in Node \ {n} : ledger'[m] = ledger[m]
  BY <1>0 DEF AppendBlock, TypeOK
<1>6. UNCHANGED <<object, memory, files, wire, history>>
  BY DEF AppendBlock
<1>7. NodeInv(n)' /\ ledger'[n] \in Seq(Blocks)
  BY <1>0, <1>1, <1>2, <1>4, <1>5, <1>6, AppendStep DEF memory, files, history
<1>8. \A m \in Node : NodeInv(m)'
  BY <1>4, <1>5, <1>6, <1>7, OnlyHere DEF memory, files, history, Moves
<1>9. ledger' \in [Node -> Seq(Blocks)]
  BY <1>0, <1>7 DEF AppendBlock, TypeOK
<1>10. TypeOK'
  BY <1>0, <1>4, <1>6, <1>9 DEF TypeOK, memory, files, history
<1> QED BY <1>8, <1>10 DEF MeshInv

LEMMA CheckConflictSafe ==
  ASSUME MeshInv, NEW n \in Node, NEW t \in Thread, NEW q \in Packet, CheckConflict(n, t, q)
  PROVE  MeshInv'
<1> DEFINE x == thread[n][t]
           pair == {x.packet, q}
           y == [x EXCEPT !.against = @ \ {q}]
           z == [x EXCEPT !.pc = "note", !.against = @ \ {q}, !.rival = q]
<1>0. NodeInv(n) /\ TypeOK
  BY DEF MeshInv
<1>1. /\ x \in Locals /\ x.packet \in Packet /\ x.pc = "check" /\ q \in x.against
      /\ NamesOK(n, x) /\ FactsOK(n, x) /\ pair \in Pairs
  BY Known DEF CheckConflict, NamesOK, LockedSteps, Pairs
<1>2. UNCHANGED <<store, seen, resolutions, files, wire, history>>
  BY DEF CheckConflict
<1>3. CASE object[n][q] = Absent \/ pair \in conflicts[n]
  <2>1. Becomes(n, t, y) /\ UNCHANGED conflicts
    BY <1>3 DEF CheckConflict
  <2>2. /\ y \in Locals /\ y.pc = "check" /\ y.packet = x.packet
        /\ y.against = x.against \ {q} /\ y.origin = x.origin
        /\ y.resolution = x.resolution
    BY <1>1 DEF Locals
  <2>3. NamesOK(n, y) /\ FactsOK(n, y)
    BY <1>1, <2>2 DEF NamesOK, FactsOK, LockedSteps, Writing
  <2>4. Harmless(n, x, y)
    BY <1>1, <1>3, <2>2, <2>3 DEF Harmless, Holds, Writing
  <2>5. conflictFiles[n] \subseteq conflicts[n]
    BY <1>0 DEF NodeInv, RealOK
  <2>6. (\A m \in Node : NodeInv(m)') /\ thread' \in [Node -> [Thread -> Locals]]
    BY <1>2, <2>1, <2>2, <2>4, <2>5, QuietAction DEF files, history
  <2>7. TypeOK'
    BY <1>0, <1>2, <2>1, <2>6 DEF TypeOK, store, files, history
  <2> QED BY <2>6, <2>7 DEF MeshInv
<1>4. CASE object[n][q] # Absent /\ pair \notin conflicts[n]
  <2>1. /\ Becomes(n, t, z)
        /\ conflicts' = [conflicts EXCEPT ![n] = @ \cup {pair}]
    BY <1>4 DEF CheckConflict
  <2>2. z \in Locals
    BY <1>1 DEF Locals, Labels, LockedSteps
  <2>3. Moves(n, t, z) /\ thread' \in [Node -> [Thread -> Locals]]
    BY <1>0, <2>1, <2>2, BecomesMoves
  <2>4. /\ conflicts' \in [Node -> SUBSET Pairs]
        /\ conflicts'[n] = conflicts[n] \cup {pair}
        /\ \A m \in Node \ {n} : conflicts'[m] = conflicts[m]
    BY <1>0, <1>1, <2>1 DEF TypeOK
  <2>5. NodeInv(n)'
    BY <1>0, <1>1, <1>2, <1>4, <2>2, <2>3, <2>4, ConflictStep DEF store, files, history
  <2>6. \A m \in Node : NodeInv(m)'
    BY <1>2, <2>3, <2>4, <2>5, OnlyHere DEF store, files, history, Moves
  <2>7. TypeOK'
    BY <1>0, <1>2, <2>3, <2>4 DEF TypeOK, store, files, history
  <2> QED BY <2>6, <2>7 DEF MeshInv
<1> QED BY <1>3, <1>4

LEMMA WriteConflictSafe ==
  ASSUME MeshInv, NEW n \in Node, NEW t \in Thread, WriteConflict(n, t)
  PROVE  MeshInv'
<1> DEFINE x == thread[n][t]
           y == [x EXCEPT !.pc = "check", !.rival = NoPacket]
<1>0. NodeInv(n) /\ TypeOK
  BY DEF MeshInv
<1>1. /\ x \in Locals /\ x.packet \in Packet /\ x.pc = "note"
      /\ NamesOK(n, x) /\ FactsOK(n, x)
  BY Known DEF WriteConflict, NamesOK, LockedSteps
<1>2. {x.packet, x.rival} \in conflicts[n] /\ {x.packet, x.rival} \in Pairs
  BY <1>0, <1>1 DEF FactsOK, TypeOK
<1>3. /\ y \in Locals /\ y.pc = "check" /\ y.packet = x.packet
      /\ y.against = x.against /\ y.origin = x.origin /\ y.resolution = x.resolution
  BY <1>1 DEF Locals, Labels, LockedSteps
<1>4. NamesOK(n, y) /\ FactsOK(n, y)
  BY <1>1, <1>3 DEF NamesOK, FactsOK, LockedSteps, Writing
<1>5. Harmless(n, x, y)
  BY <1>1, <1>3, <1>4 DEF Harmless, Holds, Writing, LockedSteps
<1>6. /\ conflictFiles' \in [Node -> SUBSET Pairs]
      /\ conflictFiles'[n] = conflictFiles[n] \cup {{x.packet, x.rival}}
      /\ \A m \in Node \ {n} : conflictFiles'[m] = conflictFiles[m]
  BY <1>0, <1>2 DEF WriteConflict, TypeOK
<1>7. conflictFiles'[n] \subseteq conflicts[n]
  BY <1>0, <1>2, <1>6 DEF NodeInv, RealOK
<1>8. Becomes(n, t, y) /\ UNCHANGED <<store, memory, resolutionFiles, wire, history>>
  BY DEF WriteConflict
<1>9. (\A m \in Node : NodeInv(m)') /\ thread' \in [Node -> [Thread -> Locals]]
  BY <1>3, <1>5, <1>6, <1>7, <1>8, QuietAction DEF memory, history
<1>10. TypeOK'
  BY <1>0, <1>6, <1>8, <1>9 DEF TypeOK, store, memory, history
<1> QED BY <1>9, <1>10 DEF MeshInv

\* A step of /resolve up to its look at the object.
LEMMA ResolvingSafe ==
  ASSUME MeshInv, NEW n \in Node, NEW t \in Thread,
         \/ \E r \in Resolution : Resolve(n, t, r)
         \/ RememberResolution(n, t) \/ WriteResolution(n, t) \/ Publish(n, t)
  PROVE  MeshInv'
<1> DEFINE x == thread[n][t]
<1>0. NodeInv(n) /\ TypeOK /\ conflictFiles[n] \subseteq conflicts[n]
  BY DEF MeshInv, NodeInv, RealOK
<1>1. x \in Locals /\ NamesOK(n, x) /\ FactsOK(n, x)
  BY Known
<1>2. ASSUME NEW r \in Resolution, Resolve(n, t, r) PROVE MeshInv'
  <2> DEFINE y == [Idle EXCEPT !.pc = "resolve", !.origin = "resolve", !.resolution = r]
  <2>1. /\ y \in Locals /\ y.pc = "resolve" /\ y.origin = "resolve"
        /\ y.resolution = r /\ y.against = {}
    BY IdleIsOutside DEF Locals, Labels, Origins, Idle
  <2>2. Becomes(n, t, y) /\ n \in Reconciler /\ x.pc = "idle"
    BY <1>2 DEF Resolve
  <2>3. NamesOK(n, y) /\ FactsOK(n, y)
    BY <2>1, <2>2 DEF NamesOK, FactsOK, LockedSteps, Writing
  <2>4. Harmless(n, x, y)
    BY <1>1, <2>1, <2>2, <2>3 DEF Harmless, Holds, NamesOK, LockedSteps, Writing
  <2>a. UNCHANGED <<store, conflicts, crashed>> /\ UNCHANGED <<conflictFiles, resolutions>>
    BY <1>2 DEF Resolve, memory, files
  <2>5. (\A m \in Node : NodeInv(m)') /\ thread' \in [Node -> [Thread -> Locals]]
    BY <1>0, <2>1, <2>2, <2>4, <2>a, QuietAction
  <2>6. requests' \in 0..MaxRequests
    <3>1. requests \in 0..MaxRequests
      BY <1>0 DEF TypeOK
    <3>2. requests < MaxRequests /\ requests' = requests + 1
      BY <1>2 DEF Resolve
    <3> QED BY <3>1, <3>2, BoundsAssumption
  <2>7. TypeOK'
    BY <1>0, <1>2, <2>5, <2>6 DEF Resolve, TypeOK, store, memory, files
  <2> QED BY <2>5, <2>7 DEF MeshInv
<1>3. CASE RememberResolution(n, t)
  <2> DEFINE y == [x EXCEPT !.pc = "file"]
  <2>1. /\ y \in Locals /\ y.pc = "file" /\ y.origin = x.origin /\ y.packet = x.packet
        /\ y.resolution = x.resolution /\ y.against = x.against
    BY <1>1 DEF Locals, Labels
  <2>2. Becomes(n, t, y) /\ x.pc = "resolve" /\ x.resolution \in Resolution
    BY <1>1, <1>3 DEF RememberResolution, Goto, NamesOK
  <2>3. NamesOK(n, y) /\ FactsOK(n, y)
    BY <1>1, <2>1, <2>2 DEF NamesOK, FactsOK, LockedSteps, Writing
  <2>4. Harmless(n, x, y)
    BY <2>1, <2>2, <2>3 DEF Harmless, Holds, LockedSteps, Writing
  <2>5. /\ resolutions' \in [Node -> SUBSET Resolution]
        /\ resolutions'[n] = resolutions[n] \cup {x.resolution}
        /\ \A m \in Node \ {n} : resolutions'[m] = resolutions[m]
    BY <1>0, <1>3, <2>2 DEF RememberResolution, TypeOK
  <2>6. UNCHANGED <<store, seen, conflicts, files, wire, history>>
    BY <1>3 DEF RememberResolution
  <2>7. (\A m \in Node : NodeInv(m)') /\ thread' \in [Node -> [Thread -> Locals]]
    BY <1>0, <2>1, <2>2, <2>4, <2>5, <2>6, QuietAction DEF files, history
  <2>8. TypeOK'
    BY <1>0, <2>5, <2>6, <2>7 DEF TypeOK, store, files, history
  <2> QED BY <2>7, <2>8 DEF MeshInv
<1>4. CASE WriteResolution(n, t)
  <2>1. x.pc = "file" /\ x.resolution \in Resolution /\ x.origin = "resolve"
    BY <1>1, <1>4 DEF WriteResolution, NamesOK
  <2>2. PICK p \in Findings[x.resolution] :
          Becomes(n, t, [x EXCEPT !.pc = "publish", !.packet = p])
    BY <1>4 DEF WriteResolution
  <2> DEFINE y == [x EXCEPT !.pc = "publish", !.packet = p]
  <2>3. p \in Packet
    BY <2>1, MeshAssumption
  <2>4. /\ y \in Locals /\ y.pc = "publish" /\ y.origin = x.origin /\ y.packet = p
        /\ y.resolution = x.resolution /\ y.against = x.against
    BY <1>1, <2>3 DEF Locals, Labels
  <2>5. NamesOK(n, y) /\ FactsOK(n, y)
    BY <1>1, <2>1, <2>3, <2>4 DEF NamesOK, FactsOK, LockedSteps, Writing
  <2>6. x.against = {}
    BY <1>1, <2>1 DEF NamesOK
  <2>7. Harmless(n, x, y)
    BY <2>1, <2>4, <2>5, <2>6 DEF Harmless, Holds, LockedSteps, Writing
  <2>8. resolutionFiles' \in [Node -> SUBSET Resolution]
    BY <1>0, <1>4, <2>1 DEF WriteResolution, TypeOK
  <2>9. UNCHANGED <<store, memory, conflictFiles, wire, history>>
    BY <1>4 DEF WriteResolution
  <2>10. (\A m \in Node : NodeInv(m)') /\ thread' \in [Node -> [Thread -> Locals]]
    BY <1>0, <2>2, <2>4, <2>7, <2>9, QuietAction DEF memory, history
  <2>11. TypeOK'
    BY <1>0, <2>8, <2>9, <2>10 DEF TypeOK, store, memory, history
  <2> QED BY <2>10, <2>11 DEF MeshInv
<1>5. CASE Publish(n, t)
  <2> DEFINE y == [x EXCEPT !.pc = "create"]
  <2>1. /\ x.pc = "publish" /\ x.origin = "resolve" /\ x.resolution \in Resolution
        /\ x.packet \in Findings[x.resolution] /\ n \in Reconciler
        /\ x.packet \in Packet /\ x.against = {}
    BY <1>1, <1>5 DEF Publish, NamesOK
  <2>2. \E v \in Locals : Becomes(n, t, v) /\ Harmless(n, x, v)
    <3>1. CASE object[n][x.packet] = Absent
      <4>1. /\ y \in Locals /\ y.pc = "create" /\ y.origin = x.origin
            /\ y.packet = x.packet /\ y.resolution = x.resolution /\ y.against = x.against
        BY <1>1 DEF Locals, Labels, LockedSteps
      <4>2. Special(n, x.packet)
        BY <2>1 DEF Special, FindingPackets
      <4>3. NamesOK(n, y) /\ FactsOK(n, y)
        BY <1>1, <2>1, <4>1, <4>2 DEF NamesOK, FactsOK, LockedSteps, Writing
      <4>4. Harmless(n, x, y)
        BY <2>1, <4>1, <4>3 DEF Harmless, Holds, LockedSteps, Writing
      <4> QED BY <1>5, <3>1, <4>1, <4>4 DEF Publish
    <3>2. CASE object[n][x.packet] # Absent
      <4>1. NamesOK(n, Idle) /\ FactsOK(n, Idle) /\ ~Holds(Idle)
        BY MeshAssumption DEF NamesOK, FactsOK, Holds, Idle, LockedSteps, Writing
      <4>2. Harmless(n, x, Idle)
        BY <2>1, <3>2, <4>1 DEF Harmless, Writing
      <4> QED BY <1>5, <3>2, <4>2, IdleIsOutside DEF Publish
    <3> QED BY <3>1, <3>2
  <2>3. UNCHANGED <<store, memory, files, wire, history>>
    BY <1>5 DEF Publish
  <2>4. (\A m \in Node : NodeInv(m)') /\ thread' \in [Node -> [Thread -> Locals]]
    BY <1>0, <2>2, <2>3, QuietAction DEF memory, files, history
  <2>5. TypeOK'
    BY <1>0, <2>3, <2>4 DEF TypeOK, store, memory, files, history
  <2> QED BY <2>4, <2>5 DEF MeshInv
<1> QED BY <1>2, <1>3, <1>4, <1>5

LEMMA CrashSafe ==
  ASSUME MeshInv, NEW n \in Node, Crash(n)
  PROVE  MeshInv'
<1>0. NodeInv(n) /\ TypeOK
  BY DEF MeshInv
<1>1. /\ thread' \in [Node -> [Thread -> Locals]]
      /\ \A t \in Thread : thread'[n][t] = Idle
      /\ \A m \in Node \ {n} : thread'[m] = thread[m]
  BY <1>0, IdleIsOutside DEF Crash, TypeOK
<1>2. /\ conflicts' \in [Node -> SUBSET Pairs] /\ conflicts'[n] = conflictFiles[n]
      /\ \A m \in Node \ {n} : conflicts'[m] = conflicts[m]
      /\ resolutions' \in [Node -> SUBSET Resolution]
      /\ \A m \in Node \ {n} : resolutions'[m] = resolutions[m]
  BY <1>0 DEF Crash, TypeOK
<1>3. n \in crashed' /\ crashed \subseteq crashed' /\ crashed' \subseteq Node
  BY <1>0 DEF Crash, TypeOK
<1>4. NodeInv(n)'
  BY <1>0, <1>1, <1>2, <1>3, CrashStep DEF Crash, store, files
<1>5. \A m \in Node : NodeInv(m)'
  BY <1>1, <1>2, <1>3, <1>4, OnlyHere DEF Crash, store, files
<1>6. /\ crashes' \in 0..MaxCrashes
      /\ wire' \subseteq [to : Node, from : Node, packet : Packet]
      /\ seen' \in [Node -> SUBSET Packet]
  BY <1>0, BoundsAssumption DEF Crash, TypeOK
<1>7. TypeOK'
  BY <1>0, <1>1, <1>2, <1>3, <1>6 DEF Crash, TypeOK, store, files
<1> QED BY <1>5, <1>7 DEF MeshInv

-----------------------------------------------------------------------------
(* The invariant, and what it says of every behaviour.                       *)

LEMMA MeshInit == Init => MeshInv
<1> SUFFICES ASSUME Init PROVE MeshInv
  OBVIOUS
<1>1. TypeOK
  <2>1. ledger \in [Node -> Seq(Blocks)]
    BY DEF Init
  <2>2. thread \in [Node -> [Thread -> Locals]]
    BY IdleIsOutside DEF Init
  <2>3. object \in [Node -> [Packet -> {Absent, Torn, Whole}]]
    BY DEF Init
  <2>4. 0 \in 0..MaxRequests /\ 0 \in 0..MaxRounds /\ 0 \in 0..MaxCrashes
    BY BoundsAssumption
  <2>5. /\ seen \in [Node -> SUBSET Packet]
        /\ conflicts \in [Node -> SUBSET Pairs]
        /\ conflictFiles \in [Node -> SUBSET Pairs]
        /\ resolutions \in [Node -> SUBSET Resolution]
        /\ resolutionFiles \in [Node -> SUBSET Resolution]
    BY DEF Init
  <2> QED BY <2>1, <2>2, <2>3, <2>4, <2>5 DEF Init, TypeOK
<1>2. ASSUME NEW n \in Node PROVE NodeInv(n)
  <2>1. /\ ledger[n] = <<>> /\ Committed(n) = {} /\ conflicts[n] = {}
        /\ conflictFiles[n] = {} /\ resolutions[n] = {}
        /\ \A p \in Packet : object[n][p] = Absent
        /\ \A t \in Thread : thread[n][t] = Idle
    BY DEF Init, Committed
  <2>2. NamesOK(n, Idle) /\ FactsOK(n, Idle) /\ ~Holds(Idle)
    BY MeshAssumption DEF NamesOK, FactsOK, Holds, Idle, LockedSteps, Writing
  <2>3. ThreadsOK(n) /\ LockOK(n)
    BY <2>1, <2>2 DEF ThreadsOK, LockOK
  <2>4. ChainOK(n) /\ OnceOK(n) /\ ServedOK(n) /\ RealOK(n)
    BY <2>1 DEF ChainOK, OnceOK, ServedOK, RealOK
  <2>5. MissedOK(n) /\ AccountedOK(n) /\ UnpublishedOK(n)
    BY <2>1 DEF MissedOK, AccountedOK, UnpublishedOK
  <2> QED BY <2>3, <2>4, <2>5 DEF NodeInv
<1> QED BY <1>1, <1>2 DEF MeshInv

LEMMA MeshStep == MeshInv /\ [Next]_vars => MeshInv'
<1> SUFFICES ASSUME MeshInv, [Next]_vars PROVE MeshInv'
  OBVIOUS
<1>1. ASSUME NEW n \in Node, NEW t \in Thread, Step(n, t) PROVE MeshInv'
  BY <1>1, AdmitSafe, WriteSafe, ReadBlocksSafe, AppendSafe, CheckConflictSafe,
     WriteConflictSafe, AdmittedSafe, NoteTipSafe, TellSafe, FetchSafe,
     FetchFailsSafe, ResolvingSafe DEF Step
<1>2. ASSUME NEW n \in Node, Replicate(n) PROVE MeshInv'
  BY <1>2, ReplicationSafe
<1>3. \A n \in Node : Handlers[n] \subseteq Thread
  BY MeshAssumption DEF Thread
<1>4. ASSUME NEW n \in Node, Hear(n) PROVE MeshInv'
  BY <1>3, <1>4, HearTipSafe DEF Hear
<1>5. ASSUME NEW n \in Node, Request(n) PROVE MeshInv'
  BY <1>3, <1>5, SubmitSafe, ResolvingSafe DEF Request
<1>6. ASSUME NEW n \in Node, Crash(n) PROVE MeshInv'
  BY <1>6, CrashSafe
<1>7. CASE UNCHANGED vars
  <2>1. TypeOK'
    BY <1>7 DEF MeshInv, TypeOK, vars, store, memory, files, history
  <2>2. \A n \in Node : NodeInv(n)'
    BY <1>7, Elsewhere DEF MeshInv, vars, store, memory, files, history
  <2> QED BY <2>1, <2>2 DEF MeshInv
<1> QED BY <1>1, <1>2, <1>4, <1>5, <1>6, <1>7 DEF Next

\* Every reachable state of the mesh satisfies the invariant.
THEOREM MeshInvariant == Spec => []MeshInv
BY MeshInit, MeshStep, PTL DEF Spec

\* Stores, ledgers, memories, files, messages and locals have their types.
THEOREM MeshTypes == Spec => []TypeOK
<1>1. MeshInv => TypeOK
  BY DEF MeshInv
<1> QED BY <1>1, MeshInvariant, PTL

\* A ledger is a chain except around blocks that publish a resolution at a
\* reconciler: submit_packet appends under the lock, /resolve does not.
THEOREM ChainBrokenByResolutions == Spec => []OnlyResolutionsBreakTheChain
<1>1. MeshInv => OnlyResolutionsBreakTheChain
  BY DEF MeshInv, NodeInv, ChainOK, OnlyResolutionsBreakTheChain
<1> QED BY <1>1, MeshInvariant, PTL

\* A packet gets one block on a node, whatever the order in which it is
\* submitted, fetched and replicated, except for doubly published resolutions.
THEOREM PacketsCommittedOnce == Spec => []CommittedOnce
<1>1. MeshInv => CommittedOnce
  BY DEF MeshInv, NodeInv, OnceOK, Special, CommittedOnce
<1> QED BY <1>1, MeshInvariant, PTL

\* An object is written before the block that names it, and again only by a
\* second publication of a resolution.
THEOREM LedgerCanBeServed == Spec => []CommittedCanBeServed
<1>1. MeshInv => CommittedCanBeServed
  BY DEF MeshInv, NodeInv, ServedOK, Special, CommittedCanBeServed
<1> QED BY <1>1, MeshInvariant, PTL

\* A recorded conflict names two held packets, one contradicting the other.
THEOREM RecordedConflictsAreReal == Spec => []ConflictsAreReal
<1>1. MeshInv => ConflictsAreReal
  BY DEF MeshInv, NodeInv, RealOK, ConflictsAreReal
<1> QED BY <1>1, MeshInvariant, PTL

\* A held contradiction without a record is being looked for, was cut off by a
\* crash, or names a packet that came after the one that contradicts it.
THEOREM MissedConflictsExplained == Spec => []MissedConflictExplained
<1>1. MeshInv => MissedConflictExplained
  BY DEF MeshInv, NodeInv, MissedOK, Looking, Precedes, MissedConflictExplained
<1> QED BY <1>1, MeshInvariant, PTL

\* Only a crash leaves a remembered resolution without its block.
THEOREM ResolutionsPublished == Spec => []UnpublishedExplained
<1>1. MeshInv => UnpublishedExplained
  BY DEF MeshInv, NodeInv, UnpublishedOK, Published, Publishing, InWriting,
         UnpublishedExplained
<1> QED BY <1>1, MeshInvariant, PTL

-----------------------------------------------------------------------------
(* What is told is held.  This part of the invariant relates nodes: whoever  *)
(* tells a packet has it whole, and keeps it.                                *)

Ordinary(p) == p \notin FindingPackets

\* Every node that tells n is a peer of n, where n looks for the sender.
KnowsTellers(n) == \A m \in Node : n \in Peers[m] => m \in Peers[n]

Serves(m, p) == Ordinary(p) => object[m][p] = Whole

\* What a thread that talks to other nodes may rely on: only a packet that was
\* appended here is told, and whoever told one can still be asked for it.
TalkOK(n, x) ==
  /\ x.pc \in {"idle", "asked", "compare", "resolve", "file"} => x.packet = NoPacket
  /\ x.pc \in {"compare", "admit"} => x.left = {}
  /\ x.pc \in {"check", "note", "tell"} /\ x.left # {} =>
       x.left \subseteq Peers[n] /\ Serves(n, x.packet)
  /\ x.pc = "create" /\ Ordinary(x.packet) => object[n][x.packet] = Absent
  /\ x.pc = "hear" => \E m \in Node : x.left = {m} /\ n \in Peers[m] /\ Serves(m, x.packet)

\* Somebody who is still to be asked has the packet.
Finds(n, x, failed) ==
  x.pc = "pull" =>
    failed \/ ~KnowsTellers(n) \/ \E m \in x.left : Serves(m, x.packet)

WireOK == \A g \in wire : g.to \in Peers[g.from] /\ Serves(g.from, g.packet)

Excused(n) == lost \/ crashed # {} \/ ~KnowsTellers(n)

Carried(n, p) == \E t \in Thread : thread[n][t].packet = p

SeenOK(n) ==
  \A p \in seen[n] \cap Admits[n] :
    Ordinary(p) => object[n][p] # Absent \/ Carried(n, p) \/ Excused(n)

GossipInv ==
  /\ WireOK
  /\ \A n \in Node : SeenOK(n)
  /\ \A n \in Node : \A t \in Thread :
       TalkOK(n, thread[n][t]) /\ Finds(n, thread[n][t], lost)

-----------------------------------------------------------------------------
(* What a step of one thread does to it.                                     *)

\* The store stays, or the object of the packet being admitted is written.
Touches(n, x, y) ==
  \/ object' = object
  \/ /\ x.pc = "create" /\ y.pc = "fill"
     /\ object' = [object EXCEPT ![n][x.packet] = Torn]
  \/ /\ x.pc = "fill" /\ y.pc = "blocks"
     /\ object' = [object EXCEPT ![n][x.packet] = Whole]

LEMMA ServedStays ==
  ASSUME MeshInv, GossipInv, NEW n \in Node, NEW t \in Thread, NEW y,
         Touches(n, thread[n][t], y), NEW m \in Node, NEW p \in Packet
  PROVE  /\ Serves(m, p) => Serves(m, p)'
         /\ object[m][p] # Absent => object'[m][p] # Absent
         /\ (m # n \/ p # thread[n][t].packet) => object'[m][p] = object[m][p]
<1> DEFINE x == thread[n][t]
<1>0. object \in [Node -> [Packet -> {Absent, Torn, Whole}]]
  BY DEF MeshInv, TypeOK
<1>1. CASE object' = object
  BY <1>1 DEF Serves
<1>2. ASSUME NEW v \in {Torn, Whole}, x.packet \in Packet,
             object' = [object EXCEPT ![n][x.packet] = v],
             v = Torn /\ Ordinary(x.packet) => object[n][x.packet] = Absent
      PROVE  /\ Serves(m, p) => Serves(m, p)'
             /\ object[m][p] # Absent => object'[m][p] # Absent
             /\ (m # n \/ p # x.packet) => object'[m][p] = object[m][p]
  <2>1. object'[m][p] = IF m = n /\ p = x.packet THEN v ELSE object[m][p]
    BY <1>0, <1>2
  <2>2. Serves(m, p) => Serves(m, p)'
    BY <1>2, <2>1 DEF Serves, Ordinary, Absent, Torn, Whole
  <2> QED BY <2>1, <2>2 DEF Absent, Torn, Whole
<1>3. x.pc \in {"create", "fill"} => x.packet \in Packet
  BY Known DEF NamesOK, LockedSteps
<1>4. x.pc = "create" /\ Ordinary(x.packet) => object[n][x.packet] = Absent
  BY DEF GossipInv, TalkOK
<1> QED BY <1>1, <1>2, <1>3, <1>4 DEF Touches, Torn, Whole

Speaks == {"check", "note", "tell", "hear", "pull"}

\* The packet a thread carried may be dropped here.
MayDrop(n, p) ==
  \/ p = NoPacket \/ p \in FindingPackets \/ p \notin Admits[n]
  \/ object[n][p] # Absent

LEMMA GossipAction ==
  ASSUME MeshInv, GossipInv, NEW n \in Node, NEW t \in Thread, NEW y \in Locals,
         Moves(n, t, y), Touches(n, thread[n][t], y),
         TalkOK(n, y), Finds(n, y, lost'), y.pc \in Speaks => y.packet \in Packet,
         \/ y.packet = thread[n][t].packet \/ MayDrop(n, thread[n][t].packet)
         \/ lost' \/ ~KnowsTellers(n),
         seen'[n] \subseteq seen[n] \cup {y.packet} \/ lost' \/ ~KnowsTellers(n),
         \A m \in Node \ {n} : seen'[m] = seen[m],
         crashed' = crashed, lost => lost', WireOK'
  PROVE  GossipInv'
<1> DEFINE x == thread[n][t]
<1>0. TypeOK /\ \A m \in Node : NodeInv(m)
  BY DEF MeshInv
<1>a. thread'[n][t] = y /\ \A u \in Thread \ {t} : thread'[n][u] = thread[n][u]
  BY DEF Moves
<1>b. \A m \in Node \ {n} : thread'[m] = thread[m]
  BY DEF Moves
<1>1. \A m \in Node : \A p \in Packet :
        /\ Serves(m, p) => Serves(m, p)'
        /\ object[m][p] # Absent => object'[m][p] # Absent
        /\ (m # n \/ p # x.packet) => object'[m][p] = object[m][p]
  BY ServedStays
<1>3. ASSUME NEW m \in Node, NEW u \in Thread, m # n \/ u # t
      PROVE  TalkOK(m, thread[m][u])' /\ Finds(m, thread[m][u], lost)'
  <2> DEFINE z == thread[m][u]
  <2>1. thread'[m][u] = z /\ TalkOK(m, z) /\ Finds(m, z, lost)
    BY <1>3, <1>a, <1>b DEF GossipInv
  <2>2. z.pc \in Speaks \cup {"create"} => z.packet \in Packet
    BY Known DEF NamesOK, Speaks, LockedSteps
  <2>3. z.pc = "create" /\ Ordinary(z.packet) => object'[m][z.packet] = Absent
    <3>1. SUFFICES ASSUME z.pc = "create", Ordinary(z.packet)
                   PROVE  object'[m][z.packet] = object[m][z.packet]
      BY <2>1 DEF TalkOK
    <3>2. CASE m # n \/ z.packet # x.packet
      BY <1>1, <2>2, <3>1, <3>2
    <3>3. CASE m = n /\ z.packet = x.packet
      <4>1. x.pc \notin {"create", "fill"}
        BY <1>0, <1>3, <3>1, <3>3, OneWriter DEF Writing, Special, Ordinary
      <4> QED BY <3>3, <4>1 DEF Touches
    <3> QED BY <3>2, <3>3
  <2>4. z.pc \in Speaks => \A k \in Node : Serves(k, z.packet) => Serves(k, z.packet)'
    BY <1>1, <2>1, <2>2 DEF Serves, Ordinary
  <2>5. TalkOK(m, thread[m][u])'
    BY <2>1, <2>3, <2>4 DEF TalkOK, Speaks, Ordinary
  <2>6. Finds(m, thread[m][u], lost)'
    <3>1. z \in Locals
      BY Known
    <3>2. z.left \subseteq Node
      BY <3>1 DEF Locals
    <3> QED BY <2>1, <2>4, <3>2 DEF Finds, KnowsTellers, Speaks
  <2> QED BY <2>5, <2>6
<1>4. TalkOK(n, thread[n][t])' /\ Finds(n, thread[n][t], lost)'
  <2>1. y.pc \in Speaks => \A k \in Node : Serves(k, y.packet) => Serves(k, y.packet)'
    BY <1>1
  <2>2. y.pc = "create" => object' = object
    BY DEF Touches
  <2>3. TalkOK(n, thread[n][t])'
    BY <1>a, <2>1, <2>2 DEF TalkOK, Speaks, Ordinary
  <2>4. y.left \subseteq Node
    BY DEF Locals
  <2>5. Finds(n, thread[n][t], lost)'
    BY <1>a, <2>1, <2>4 DEF Finds, KnowsTellers, Speaks
  <2> QED BY <2>3, <2>5
<1>5. ASSUME NEW m \in Node PROVE SeenOK(m)'
  <2>1. SUFFICES ASSUME NEW p \in seen'[m] \cap Admits[m], Ordinary(p), ~Excused(m)'
                 PROVE  object'[m][p] # Absent \/ Carried(m, p)'
    BY DEF SeenOK, Ordinary
  <2>2. ~Excused(m) /\ (m = n => ~lost' /\ KnowsTellers(n))
    BY <2>1 DEF Excused, KnowsTellers
  <2>3. p \in Packet
    BY <2>1, MeshAssumption
  <2>4. CASE m # n
    BY <1>1, <1>b, <2>1, <2>2, <2>3, <2>4 DEF GossipInv, SeenOK, Carried
  <2>5. CASE m = n /\ p = y.packet
    BY <1>a, <2>5 DEF Carried
  <2>6. CASE m = n /\ p \in seen[n]
    <3>1. object[n][p] # Absent \/ Carried(n, p)
      BY <2>1, <2>2, <2>6 DEF GossipInv, SeenOK
    <3>2. CASE object[n][p] # Absent
      BY <1>1, <2>3, <2>6, <3>2
    <3>3. CASE Carried(n, p)
      <4>1. PICK u \in Thread : thread[n][u].packet = p
        BY <3>3 DEF Carried
      <4>2. CASE u # t \/ y.packet = x.packet
        BY <1>a, <2>6, <4>1, <4>2 DEF Carried
      <4>3. CASE u = t /\ MayDrop(n, x.packet)
        BY <1>1, <2>1, <2>3, <2>6, <4>1, <4>3, MeshAssumption DEF MayDrop, Ordinary
      <4> QED BY <2>2, <2>6, <4>2, <4>3
    <3> QED BY <3>1, <3>2, <3>3
  <2> QED BY <2>1, <2>2, <2>4, <2>5, <2>6
<1> QED BY <1>3, <1>4, <1>5 DEF GossipInv

\* A step that sends nothing leaves what is on the wire servable.
LEMMA WireStays ==
  ASSUME MeshInv, GossipInv, NEW n \in Node, NEW t \in Thread, NEW y,
         Touches(n, thread[n][t], y), wire' \subseteq wire
  PROVE  WireOK'
<1>1. \A g \in wire : g.from \in Node /\ g.packet \in Packet
  BY DEF MeshInv, TypeOK
<1>2. \A g \in wire : Serves(g.from, g.packet) => Serves(g.from, g.packet)'
  BY <1>1, ServedStays
<1> QED BY <1>2 DEF GossipInv, WireOK

\* One step of a thread, given what it becomes.
LEMMA GossipBecomes ==
  ASSUME MeshInv, MeshInv', GossipInv, NEW n \in Node, NEW t \in Thread, NEW y,
         Becomes(n, t, y), Touches(n, thread[n][t], y), TalkOK(n, y), Finds(n, y, lost'),
         \/ y.packet = thread[n][t].packet \/ MayDrop(n, thread[n][t].packet)
         \/ lost' \/ ~KnowsTellers(n),
         seen'[n] \subseteq seen[n] \cup {y.packet} \/ lost' \/ ~KnowsTellers(n),
         \A m \in Node \ {n} : seen'[m] = seen[m],
         crashed' = crashed, lost => lost', wire' \subseteq wire \/ WireOK'
  PROVE  GossipInv'
<1>1. thread \in [Node -> [Thread -> Locals]] /\ TypeOK
  BY DEF MeshInv, TypeOK
<1>2. thread'[n][t] = y
  BY <1>1 DEF Becomes
<1>3. thread'[n][t] \in Locals
  BY DEF MeshInv, TypeOK
<1>4. NamesOK(n, thread[n][t])'
  BY DEF MeshInv, NodeInv, ThreadsOK
<1>5. y.pc \in Speaks => y.packet \in Packet
  BY <1>2, <1>4 DEF NamesOK, Speaks, LockedSteps
<1>6. Moves(n, t, y) /\ y \in Locals
  BY <1>1, <1>2, <1>3, BecomesMoves
<1>7. WireOK'
  BY WireStays
<1> QED BY <1>5, <1>6, <1>7, GossipAction

\* The fields of a thread that starts anew.
LEMMA IdleFields ==
  /\ Idle.pc = "idle" /\ Idle.packet = NoPacket /\ Idle.left = {} /\ Idle.origin = "client"
  /\ \A n \in Node : TalkOK(n, Idle) /\ \A failed : Finds(n, Idle, failed)
BY DEF Idle, TalkOK, Finds

LEMMA SubmitGossip ==
  ASSUME MeshInv, MeshInv', GossipInv, NEW n \in Node, NEW t \in Thread,
         NEW p \in Packet, Submit(n, t, p)
  PROVE  GossipInv'
<1> DEFINE y == [Idle EXCEPT !.pc = "admit", !.packet = p]
<1>1. Becomes(n, t, y) /\ UNCHANGED <<object, seen, crashed, lost, wire>> /\ thread[n][t].pc = "idle"
  BY DEF Submit, store, memory
<1>2. thread[n][t].packet = NoPacket
  BY <1>1 DEF GossipInv, TalkOK
<1>3. y.pc = "admit" /\ y.left = {}
  BY DEF Idle
<1>4. TalkOK(n, y) /\ Finds(n, y, lost')
  BY <1>3 DEF TalkOK, Finds
<1>5. Touches(n, thread[n][t], y) /\ MayDrop(n, thread[n][t].packet)
  BY <1>1, <1>2 DEF Touches, MayDrop
<1> QED BY <1>1, <1>4, <1>5, GossipBecomes

\* Admission up to the append: the packet stays with its thread, and an object
\* that is not there is created under the lock.
LEMMA AdmissionGossip ==
  ASSUME MeshInv, MeshInv', GossipInv, NEW n \in Node, NEW t \in Thread,
         \/ Admit(n, t) \/ OpenObject(n, t) \/ WriteObject(n, t) \/ ReadBlocks(n, t)
  PROVE  GossipInv'
<1> DEFINE x == thread[n][t]
<1>0. x \in Locals /\ TalkOK(n, x)
  BY Known DEF GossipInv
<1>1. CASE Admit(n, t)
  <2> DEFINE y == thread'[n][t]
             z == IF object[n][x.packet] = Absent THEN [x EXCEPT !.pc = "create"]
                  ELSE [x EXCEPT !.pc = "check", !.against = Contradicts[x.packet]]
  <2>1. /\ x.pc = "admit" /\ Becomes(n, t, z)
        /\ UNCHANGED <<object, seen, crashed, lost, wire>>
    BY <1>1 DEF Admit, store, memory, history
  <2>2. /\ z.packet = x.packet /\ z.left = {}
        /\ (z.pc = "create" /\ object[n][x.packet] = Absent) \/ z.pc = "check"
    BY <1>0, <2>1 DEF TalkOK, Locals
  <2>3. TalkOK(n, z) /\ Finds(n, z, lost')
    BY <2>2 DEF TalkOK, Finds
  <2> QED BY <2>1, <2>2, <2>3, GossipBecomes DEF Touches
<1>2. CASE OpenObject(n, t)
  <2> DEFINE z == [x EXCEPT !.pc = "fill"]
  <2>1. /\ x.pc = "create" /\ Becomes(n, t, z) /\ object' = [object EXCEPT ![n][x.packet] = Torn]
        /\ UNCHANGED <<seen, crashed, lost, wire>>
    BY <1>2 DEF OpenObject, Goto, memory, history
  <2>2. z.packet = x.packet /\ z.pc = "fill"
    BY <1>0 DEF Locals
  <2>3. TalkOK(n, z) /\ Finds(n, z, lost')
    BY <2>2 DEF TalkOK, Finds
  <2> QED BY <2>1, <2>2, <2>3, GossipBecomes DEF Touches
<1>3. CASE WriteObject(n, t)
  <2> DEFINE z == [x EXCEPT !.pc = "blocks"]
  <2>1. /\ x.pc = "fill" /\ Becomes(n, t, z) /\ object' = [object EXCEPT ![n][x.packet] = Whole]
        /\ UNCHANGED <<seen, crashed, lost, wire>>
    BY <1>3 DEF WriteObject, Goto, memory, history
  <2>2. z.packet = x.packet /\ z.pc = "blocks"
    BY <1>0 DEF Locals
  <2>3. TalkOK(n, z) /\ Finds(n, z, lost')
    BY <2>2 DEF TalkOK, Finds
  <2> QED BY <2>1, <2>2, <2>3, GossipBecomes DEF Touches
<1>4. CASE ReadBlocks(n, t)
  <2> DEFINE z == [x EXCEPT !.pc = "append", !.tip = Tip(n), !.height = Len(ledger[n]) + 1]
  <2>1. /\ x.pc = "blocks" /\ Becomes(n, t, z) /\ UNCHANGED <<object, seen, crashed, lost, wire>>
    BY <1>4 DEF ReadBlocks, store, memory, history
  <2>2. z.packet = x.packet /\ z.pc = "append"
    BY <1>0 DEF Locals
  <2>3. TalkOK(n, z) /\ Finds(n, z, lost')
    BY <2>2 DEF TalkOK, Finds
  <2> QED BY <2>1, <2>2, <2>3, GossipBecomes DEF Touches
<1> QED BY <1>1, <1>2, <1>3, <1>4

\* What is still to be told is whole here.
LEMMA ToTellTalks ==
  ASSUME NEW n \in Node, NEW p \in Packet, NEW peers \in SUBSET Node,
         peers # {} => peers \subseteq Peers[n] /\ Serves(n, p)
  PROVE  /\ TalkOK(n, ToTell(p, peers)) /\ \A failed : Finds(n, ToTell(p, peers), failed)
         /\ ToTell(p, peers).pc \in {"idle", "tell"}
         /\ ToTell(p, peers).packet = p \/ peers = {}
<1>1. CASE peers = {}
  BY <1>1, IdleFields DEF ToTell
<1>2. CASE peers # {}
  <2> DEFINE y == [Idle EXCEPT !.pc = "tell", !.packet = p, !.left = peers]
  <2>1. ToTell(p, peers) = y
    BY <1>2 DEF ToTell
  <2>2. y.pc = "tell" /\ y.packet = p /\ y.left = peers
    BY DEF Idle
  <2> QED BY <1>2, <2>1, <2>2 DEF TalkOK, Finds
<1> QED BY <1>1, <1>2

\* The packet is appended: a client's goes on to be told, a resolution's at once.
LEMMA AppendGossip ==
  ASSUME MeshInv, MeshInv', GossipInv, NEW n \in Node, NEW t \in Thread, AppendBlock(n, t)
  PROVE  GossipInv'
<1> DEFINE x == thread[n][t]
<1>0. x \in Locals /\ NamesOK(n, x) /\ FactsOK(n, x)
  BY Known
<1>1. x.pc = "append" /\ UNCHANGED <<object, seen, crashed, lost, wire>>
  BY DEF AppendBlock, memory, history
<1>2. /\ x.packet \in Packet /\ Peers[n] \in SUBSET Node
      /\ object[n][x.packet] # Absent /\ Serves(n, x.packet)
  BY <1>0, <1>1, MeshAssumption
     DEF NamesOK, FactsOK, Writing, LockedSteps, Serves, Special, Ordinary
<1>3. \A y : Touches(n, x, y) /\ MayDrop(n, x.packet)
  BY <1>1, <1>2 DEF Touches, MayDrop
<1>4. CASE x.origin = "resolve"
  <2>1. Becomes(n, t, ToTell(x.packet, Peers[n]))
    BY <1>4 DEF AppendBlock
  <2>2. TalkOK(n, ToTell(x.packet, Peers[n])) /\ Finds(n, ToTell(x.packet, Peers[n]), lost')
    BY <1>2, ToTellTalks
  <2> QED BY <1>1, <1>3, <2>1, <2>2, GossipBecomes
<1>5. CASE x.origin # "resolve"
  <2> DEFINE z == [x EXCEPT !.pc = "check", !.against = Contradicts[x.packet],
                            !.left = IF x.origin = "client" THEN Peers[n] ELSE {},
                            !.tip = Genesis, !.height = 0]
  <2>1. Becomes(n, t, z)
    BY <1>5 DEF AppendBlock
  <2>2. z.pc = "check" /\ z.packet = x.packet /\ z.left \in {{}, Peers[n]}
    BY <1>0 DEF Locals
  <2>3. TalkOK(n, z) /\ Finds(n, z, lost')
    BY <1>2, <2>2 DEF TalkOK, Finds
  <2> QED BY <1>1, <1>3, <2>1, <2>3, GossipBecomes
<1> QED BY <1>4, <1>5

\* The search for contradictions keeps the packet.
LEMMA CheckGossip ==
  ASSUME MeshInv, MeshInv', GossipInv, NEW n \in Node, NEW t \in Thread,
         NEW q \in Packet, CheckConflict(n, t, q)
  PROVE  GossipInv'
<1> DEFINE x == thread[n][t]
           y == [x EXCEPT !.against = @ \ {q}]
           z == [x EXCEPT !.pc = "note", !.against = @ \ {q}, !.rival = q]
<1>1. x \in Locals /\ TalkOK(n, x)
  BY Known DEF GossipInv
<1>2. x.pc = "check" /\ UNCHANGED <<store, seen, wire, history>>
  BY DEF CheckConflict
<1>3. Becomes(n, t, y) \/ Becomes(n, t, z)
  BY DEF CheckConflict
<1>4. /\ y.packet = x.packet /\ y.left = x.left /\ y.pc = "check"
      /\ z.packet = x.packet /\ z.left = x.left /\ z.pc = "note"
  BY <1>1, <1>2 DEF Locals
<1>5. TalkOK(n, y) /\ Finds(n, y, lost') /\ TalkOK(n, z) /\ Finds(n, z, lost')
  BY <1>1, <1>2, <1>4 DEF TalkOK, Finds
<1>6. UNCHANGED <<object, crashed, lost>>
  BY <1>2 DEF store, history
<1>7. Touches(n, x, y) /\ Touches(n, x, z)
  BY <1>6 DEF Touches
<1> QED BY <1>2, <1>3, <1>4, <1>5, <1>6, <1>7, GossipBecomes

\* An admission ends with its packet held.
LEMMA AdmittedGossip ==
  ASSUME MeshInv, MeshInv', GossipInv, NEW n \in Node, NEW t \in Thread,
         WriteConflict(n, t) \/ Admitted(n, t)
  PROVE  GossipInv'
<1> DEFINE x == thread[n][t]
<1>0. x \in Locals /\ NamesOK(n, x) /\ FactsOK(n, x) /\ TalkOK(n, x)
  BY Known DEF GossipInv
<1>2. CASE WriteConflict(n, t)
  <2> DEFINE z == [x EXCEPT !.pc = "check", !.rival = NoPacket]
  <2>1. /\ x.pc = "note" /\ Becomes(n, t, z) /\ UNCHANGED <<object, seen, crashed, lost, wire>>
    BY <1>2 DEF WriteConflict, store, memory, history
  <2>2. z.packet = x.packet /\ z.left = x.left /\ z.pc = "check"
    BY <1>0 DEF Locals
  <2>3. TalkOK(n, z) /\ Finds(n, z, lost')
    BY <1>0, <2>1, <2>2 DEF TalkOK, Finds
  <2> QED BY <2>1, <2>2, <2>3, GossipBecomes DEF Touches
<1>3. CASE Admitted(n, t)
  <2>1. x.pc = "check" /\ UNCHANGED <<object, seen, crashed, lost, wire>>
    BY <1>3 DEF Admitted, store, memory, history
  <2>2. object[n][x.packet] # Absent /\ x.packet \in Packet
    BY <1>0, <2>1 DEF NamesOK, FactsOK, LockedSteps
  <2>3. \A y : Touches(n, x, y) /\ MayDrop(n, x.packet)
    BY <2>1, <2>2 DEF Touches, MayDrop
  <2>4. CASE x.origin = "replica"
    <3> DEFINE z == [Idle EXCEPT !.pc = "compare", !.origin = "replica", !.queue = x.queue]
    <3>1. Becomes(n, t, z)
      BY <1>3, <2>4 DEF Admitted
    <3>2. z.pc = "compare" /\ z.packet = NoPacket /\ z.left = {}
      BY DEF Idle
    <3>3. TalkOK(n, z) /\ Finds(n, z, lost')
      BY <3>2 DEF TalkOK, Finds
    <3> QED BY <2>1, <2>3, <3>1, <3>3, GossipBecomes
  <2>5. CASE x.origin # "replica"
    <3>1. Becomes(n, t, ToTell(x.packet, x.left))
      BY <1>3, <2>5 DEF Admitted
    <3>2. x.left \in SUBSET Node
      BY <1>0 DEF Locals
    <3>3. TalkOK(n, ToTell(x.packet, x.left)) /\ Finds(n, ToTell(x.packet, x.left), lost')
      BY <1>0, <2>1, <2>2, <3>2, ToTellTalks DEF TalkOK
    <3> QED BY <2>1, <2>3, <3>1, <3>3, GossipBecomes
  <2> QED BY <2>4, <2>5
<1> QED BY <1>2, <1>3

\* A peer is told, or the request fails.
LEMMA TellGossip ==
  ASSUME MeshInv, MeshInv', GossipInv, NEW n \in Node, NEW t \in Thread,
         NEW m \in Node, Tell(n, t, m)
  PROVE  GossipInv'
<1> DEFINE x == thread[n][t]
           y == ToTell(x.packet, x.left \ {m})
           message == [to |-> m, from |-> n, packet |-> x.packet]
<1>0. x \in Locals /\ NamesOK(n, x) /\ TalkOK(n, x)
  BY Known DEF GossipInv
<1>1. /\ x.pc = "tell" /\ m \in x.left /\ Becomes(n, t, y)
      /\ UNCHANGED <<object, seen, crashed>>
      /\ lost' = lost \/ lost' = TRUE
      /\ wire' = wire \/ wire' = wire \cup {message}
  BY DEF Tell, store, memory
<1>2. x.packet \in Packet /\ x.left \ {m} \in SUBSET Node
  BY <1>0, <1>1 DEF NamesOK, Locals
<1>3. x.left \subseteq Peers[n] /\ Serves(n, x.packet)
  BY <1>0, <1>1 DEF TalkOK
<1>4. TalkOK(n, y) /\ Finds(n, y, lost')
  BY <1>2, <1>3, ToTellTalks
<1>5. MayDrop(n, x.packet) /\ Touches(n, x, y)
  BY <1>1, <1>3 DEF MayDrop, Touches, Serves, Ordinary, Absent, Whole
<1>6. WireOK'
  <2>1. ASSUME NEW g \in wire' PROVE g.to \in Peers[g.from] /\ Serves(g.from, g.packet)
    BY <1>1, <1>3 DEF GossipInv, WireOK
  <2> QED BY <1>1, <2>1 DEF WireOK, Serves, Ordinary
<1> QED BY <1>1, <1>4, <1>5, <1>6, GossipBecomes

\* A tip is heard from a node that has the packet.
LEMMA HearTipGossip ==
  ASSUME MeshInv, MeshInv', GossipInv, NEW n \in Node, NEW t \in Thread,
         NEW g \in wire, HearTip(n, t, g)
  PROVE  GossipInv'
<1> DEFINE x == thread[n][t]
           z == [Idle EXCEPT !.pc = "hear", !.origin = "gossip",
                             !.packet = g.packet, !.left = {g.from}]
<1>1. /\ x.pc = "idle" /\ g.to = n /\ wire' = wire \ {g}
      /\ Becomes(n, t, Idle) \/ Becomes(n, t, z)
      /\ UNCHANGED <<object, seen, crashed, lost>>
  BY DEF HearTip, store, memory, history
<1>2. MayDrop(n, x.packet) /\ \A y : Touches(n, x, y)
  BY <1>1 DEF GossipInv, TalkOK, MayDrop, Touches
<1>3. z.pc = "hear" /\ z.left = {g.from} /\ z.packet = g.packet
  BY DEF Idle
<1>4. g.from \in Node /\ n \in Peers[g.from] /\ Serves(g.from, g.packet)
  BY <1>1 DEF GossipInv, WireOK, MeshInv, TypeOK
<1>5. TalkOK(n, z) /\ Finds(n, z, lost')
  BY <1>3, <1>4 DEF TalkOK, Finds
<1>6. TalkOK(n, Idle) /\ Finds(n, Idle, lost')
  BY IdleFields
<1> QED BY <1>1, <1>2, <1>5, <1>6, GossipBecomes

\* The sender is asked if it is found among the peers, and if it is not then
\* its health page has failed or it is no peer.
LEMMA NoteTipGossip ==
  ASSUME MeshInv, MeshInv', GossipInv, NEW n \in Node, NEW t \in Thread,
         NEW found \in BOOLEAN, NoteTip(n, t, found)
  PROVE  GossipInv'
<1> DEFINE x == thread[n][t]
           asked == IF found THEN x.left ELSE Peers[n]
           z == [x EXCEPT !.pc = "pull", !.left = asked]
<1>0. x \in Locals /\ TalkOK(n, x)
  BY Known DEF GossipInv
<1>1. /\ x.pc = "hear" /\ seen' = [seen EXCEPT ![n] = @ \cup {x.packet}]
      /\ found => x.left \subseteq Peers[n]
      /\ lost' = (lost \/ (~found /\ x.left \subseteq Peers[n]))
      /\ Becomes(n, t, IF asked = {} THEN Idle ELSE z)
      /\ UNCHANGED <<object, crashed, wire>>
  BY DEF NoteTip, store
<1>2. PICK m \in Node : x.left = {m} /\ n \in Peers[m] /\ Serves(m, x.packet)
  BY <1>0, <1>1 DEF TalkOK
<1>3. found \/ lost' \/ ~KnowsTellers(n)
  BY <1>1, <1>2 DEF KnowsTellers
<1>4. z.pc = "pull" /\ z.left = asked /\ z.packet = x.packet
  BY <1>0 DEF Locals
<1>5. TalkOK(n, z) /\ Finds(n, z, lost')
  BY <1>2, <1>3, <1>4 DEF TalkOK, Finds
<1>6. TalkOK(n, Idle) /\ Finds(n, Idle, lost')
  BY IdleFields
<1>7. \A y : Touches(n, x, y)
  BY <1>1 DEF Touches
<1>8. /\ seen'[n] = seen[n] \cup {x.packet}
      /\ \A k \in Node \ {n} : seen'[k] = seen[k]
  BY <1>1 DEF MeshInv, TypeOK
<1>9. CASE asked = {}
  <2>1. lost' \/ ~KnowsTellers(n)
    BY <1>2, <1>3, <1>9
  <2> QED BY <1>1, <1>6, <1>7, <1>8, <1>9, <2>1, GossipBecomes
<1>10. CASE asked # {}
  BY <1>1, <1>4, <1>5, <1>7, <1>8, <1>10, GossipBecomes
<1> QED BY <1>9, <1>10

\* An answer is admitted or rejected; a failure leaves others to be asked.
LEMMA FetchGossip ==
  ASSUME MeshInv, MeshInv', GossipInv, NEW n \in Node, NEW t \in Thread, NEW m \in Node,
         Fetch(n, t, m) \/ FetchFails(n, t, m)
  PROVE  GossipInv'
<1> DEFINE x == thread[n][t]
<1>0. x \in Locals /\ Finds(n, x, lost)
  BY Known DEF GossipInv
<1>1. TalkOK(n, Idle) /\ Finds(n, Idle, lost')
  BY IdleFields
<1>2. CASE Fetch(n, t, m)
  <2> DEFINE z == [x EXCEPT !.pc = "admit", !.left = {}]
  <2>1. /\ x.pc = "pull" /\ UNCHANGED <<object, seen, crashed, lost, wire>>
        /\ Becomes(n, t, IF x.packet \in Admits[n] THEN z ELSE Idle)
    BY <1>2 DEF Fetch, store, memory, history
  <2>2. z.pc = "admit" /\ z.left = {} /\ z.packet = x.packet
    BY <1>0 DEF Locals
  <2>3. TalkOK(n, z) /\ Finds(n, z, lost')
    BY <2>2 DEF TalkOK, Finds
  <2>4. x.packet \notin Admits[n] => MayDrop(n, x.packet)
    BY DEF MayDrop
  <2>5. \A y : Touches(n, x, y)
    BY <2>1 DEF Touches
  <2>6. CASE x.packet \in Admits[n]
    BY <2>1, <2>2, <2>3, <2>5, <2>6, GossipBecomes
  <2>7. CASE x.packet \notin Admits[n]
    BY <1>1, <2>1, <2>4, <2>5, <2>7, GossipBecomes
  <2> QED BY <2>6, <2>7
<1>3. CASE FetchFails(n, t, m)
  <2> DEFINE rest == x.left \ {m}
             z == [x EXCEPT !.left = rest]
  <2>1. /\ x.pc = "pull" /\ UNCHANGED <<object, seen, crashed, wire>>
        /\ lost' = (lost \/ object[m][x.packet] = Whole)
        /\ Becomes(n, t, IF rest = {} THEN Idle ELSE z)
    BY <1>3 DEF FetchFails, store, memory
  <2>2. z.pc = "pull" /\ z.left = rest /\ z.packet = x.packet
    BY <1>0, <2>1 DEF Locals
  <2>3. lost' \/ ~KnowsTellers(n) \/ ~Ordinary(x.packet) \/ \E k \in rest : Serves(k, x.packet)
    BY <1>0, <2>1 DEF Finds, Serves
  <2>4. rest # {} => TalkOK(n, z) /\ Finds(n, z, lost')
    BY <2>2, <2>3 DEF TalkOK, Finds, Serves
  <2>5. rest = {} => MayDrop(n, x.packet) \/ lost' \/ ~KnowsTellers(n)
    BY <2>3 DEF MayDrop, Ordinary
  <2>6. \A y : Touches(n, x, y)
    BY <2>1 DEF Touches
  <2>7. CASE rest = {}
    BY <1>1, <2>1, <2>5, <2>6, <2>7, GossipBecomes
  <2>8. CASE rest # {}
    BY <2>1, <2>2, <2>4, <2>6, <2>8, GossipBecomes
  <2> QED BY <2>7, <2>8
<1> QED BY <1>2, <1>3

\* A thread that carries nothing, or a finding, may become what it likes.
LEMMA FreeGossip ==
  ASSUME MeshInv, MeshInv', GossipInv, NEW n \in Node, NEW t \in Thread, NEW y,
         Becomes(n, t, y), MayDrop(n, thread[n][t].packet), TalkOK(n, y), y.pc # "pull",
         UNCHANGED <<object, seen, crashed, wire>>, lost => lost'
  PROVE  GossipInv'
<1>1. Touches(n, thread[n][t], y) /\ Finds(n, y, lost')
  BY DEF Touches, Finds
<1> QED BY <1>1, GossipBecomes

\* The replication thread carries no packet until it submits one.
LEMMA AskGossip ==
  ASSUME MeshInv, MeshInv', GossipInv, NEW n \in Node, NEW m \in Node,
         AskReplica(n, m) \/ HearReplica(n, m)
  PROVE  GossipInv'
<1> DEFINE t == Replicator
           x == thread[n][t]
           served == {i \in DOMAIN ledger[m] : ledger[m][i].header.height >= x.height}
           queue == {<<i, ledger[m][i]>> : i \in served}
           y == [Idle EXCEPT
                  !.pc = "asked", !.origin = "replica", !.left = {m}, !.height = Height(n)]
           z == [Idle EXCEPT !.pc = "compare", !.origin = "replica", !.queue = queue]
<1>0. t \in Thread /\ TalkOK(n, x)
  BY DEF Thread, GossipInv
<1>1. CASE AskReplica(n, m)
  <2>1. x.pc = "idle" /\ Becomes(n, t, y) /\ UNCHANGED <<object, seen, crashed, wire, lost>>
    BY <1>1 DEF AskReplica, store, memory
  <2>2. y.pc = "asked" /\ y.packet = NoPacket
    BY DEF Idle
  <2>3. TalkOK(n, y) /\ MayDrop(n, x.packet)
    BY <1>0, <2>1, <2>2 DEF TalkOK, MayDrop
  <2> QED BY <1>0, <2>1, <2>2, <2>3, FreeGossip
<1>2. CASE HearReplica(n, m)
  <2>1. x.pc = "asked" /\ UNCHANGED <<object, seen, crashed, wire, lost>>
    BY <1>2 DEF HearReplica, store, memory, history
  <2>2. Becomes(n, t, z)
    BY <1>2, Zenon DEF HearReplica
  <2>3. z.pc = "compare" /\ z.packet = NoPacket /\ z.left = {}
    BY DEF Idle
  <2>4. TalkOK(n, z) /\ MayDrop(n, x.packet)
    BY <1>0, <2>1, <2>3 DEF TalkOK, MayDrop
  <2> HIDE DEF z
  <2> QED BY <1>0, <2>1, <2>2, <2>3, <2>4, FreeGossip
<1> QED BY <1>1, <1>2

LEMMA TakeGossip ==
  ASSUME MeshInv, MeshInv', GossipInv, NEW n \in Node, TakeBlock(n)
  PROVE  GossipInv'
<1> DEFINE t == Replicator
           x == thread[n][t]
           Taken(entry) == [x EXCEPT !.pc = "admit", !.packet = entry[2].header.packet,
                                     !.tip = entry[2].previous, !.queue = @ \ {entry}]
           Passed(entry) == [x EXCEPT !.queue = @ \ {entry}]
<1>0. t \in Thread
  BY DEF Thread
<1>1. x \in Locals /\ TalkOK(n, x)
  BY <1>0, Known DEF GossipInv
<1>2. \E entry \in x.queue : Becomes(n, t, Taken(entry)) \/ Becomes(n, t, Passed(entry))
  BY Zenon DEF TakeBlock
<1>3. x.pc = "compare" /\ UNCHANGED <<object, seen, crashed, wire, lost>>
  BY DEF TakeBlock, store, memory, history
<1>4. x.packet = NoPacket /\ x.left = {}
  BY <1>1, <1>3 DEF TalkOK
<1>5. ASSUME NEW entry
      PROVE  /\ Taken(entry).pc = "admit" /\ Taken(entry).left = {}
             /\ Passed(entry).pc = "compare" /\ Passed(entry).left = {}
             /\ Passed(entry).packet = NoPacket
  BY <1>1, <1>3, <1>4 DEF Locals
<1> HIDE DEF Taken, Passed
<1>6. \A entry : TalkOK(n, Taken(entry)) /\ TalkOK(n, Passed(entry))
  BY <1>5 DEF TalkOK
<1>7. MayDrop(n, x.packet)
  BY <1>4 DEF MayDrop
<1> QED BY <1>0, <1>2, <1>3, <1>5, <1>6, <1>7, FreeGossip

LEMMA ReplicationGossip ==
  ASSUME MeshInv, MeshInv', GossipInv, NEW n \in Node, Replicate(n)
  PROVE  GossipInv'
<1>0. Replicator \in Thread
  BY DEF Thread
<1>1. CASE ReplicaFails(n) \/ StopReplication(n)
  <2>1. /\ thread[n][Replicator].pc \in {"asked", "compare"} /\ Becomes(n, Replicator, Idle)
        /\ UNCHANGED <<object, seen, crashed, wire>>
        /\ lost => lost'
    BY <1>1 DEF ReplicaFails, StopReplication, store, memory, history
  <2>2. MayDrop(n, thread[n][Replicator].packet)
    BY <1>0, <2>1 DEF GossipInv, TalkOK, MayDrop
  <2> QED BY <1>0, <2>1, <2>2, IdleFields, FreeGossip
<1> QED BY <1>1, AskGossip, TakeGossip DEF Replicate

\* /resolve carries a finding, or nothing yet.
LEMMA ResolveGossip ==
  ASSUME MeshInv, MeshInv', GossipInv, NEW n \in Node, NEW t \in Thread,
         NEW r \in Resolution, Resolve(n, t, r)
  PROVE  GossipInv'
<1> DEFINE x == thread[n][t]
           y == [Idle EXCEPT !.pc = "resolve", !.origin = "resolve", !.resolution = r]
<1>1. x.pc = "idle" /\ Becomes(n, t, y) /\ UNCHANGED <<object, seen, crashed, wire, lost>>
  BY DEF Resolve, store, memory
<1>2. y.pc = "resolve" /\ y.packet = NoPacket
  BY DEF Idle
<1>3. TalkOK(n, y) /\ MayDrop(n, x.packet)
  BY <1>1, <1>2 DEF GossipInv, TalkOK, MayDrop
<1> QED BY <1>1, <1>2, <1>3, FreeGossip

LEMMA RememberGossip ==
  ASSUME MeshInv, MeshInv', GossipInv, NEW n \in Node, NEW t \in Thread,
         RememberResolution(n, t)
  PROVE  GossipInv'
<1> DEFINE x == thread[n][t]
           y == [x EXCEPT !.pc = "file"]
<1>0. x \in Locals /\ TalkOK(n, x)
  BY Known DEF GossipInv
<1>1. x.pc = "resolve" /\ Becomes(n, t, y) /\ UNCHANGED <<object, seen, crashed, wire, lost>>
  BY DEF RememberResolution, Goto, store, history
<1>2. y.pc = "file" /\ y.packet = x.packet /\ x.packet = NoPacket
  BY <1>0, <1>1 DEF TalkOK, Locals
<1>3. TalkOK(n, y) /\ MayDrop(n, x.packet)
  BY <1>2 DEF TalkOK, MayDrop
<1> QED BY <1>1, <1>2, <1>3, FreeGossip

LEMMA WriteResolutionGossip ==
  ASSUME MeshInv, MeshInv', GossipInv, NEW n \in Node, NEW t \in Thread,
         WriteResolution(n, t)
  PROVE  GossipInv'
<1> DEFINE x == thread[n][t]
           Signs(p) == [x EXCEPT !.pc = "publish", !.packet = p]
<1>0. x \in Locals /\ TalkOK(n, x)
  BY Known DEF GossipInv
<1>1. PICK p : Becomes(n, t, Signs(p))
  BY Zenon DEF WriteResolution
<1>2. x.pc = "file" /\ UNCHANGED <<object, seen, crashed, wire, lost>>
  BY DEF WriteResolution, store, memory, history
<1>3. Signs(p).pc = "publish" /\ MayDrop(n, x.packet)
  BY <1>0, <1>2 DEF TalkOK, MayDrop, Locals
<1> HIDE DEF Signs
<1>4. TalkOK(n, Signs(p))
  BY <1>3 DEF TalkOK
<1> QED BY <1>1, <1>2, <1>3, <1>4, FreeGossip

LEMMA PublishGossip ==
  ASSUME MeshInv, MeshInv', GossipInv, NEW n \in Node, NEW t \in Thread, Publish(n, t)
  PROVE  GossipInv'
<1> DEFINE x == thread[n][t]
           y == [x EXCEPT !.pc = "create"]
<1>0. x \in Locals /\ NamesOK(n, x)
  BY Known
<1>1. /\ x.pc = "publish" /\ UNCHANGED <<object, seen, crashed, wire, lost>>
      /\ Becomes(n, t, y) \/ Becomes(n, t, Idle)
  BY DEF Publish, store, memory, history
<1>2. x.packet \in FindingPackets
  BY <1>0, <1>1 DEF NamesOK, FindingPackets
<1>3. y.pc = "create" /\ y.packet = x.packet
  BY <1>0 DEF Locals
<1>4. TalkOK(n, y) /\ MayDrop(n, x.packet)
  BY <1>2, <1>3 DEF TalkOK, Ordinary, MayDrop
<1> QED BY <1>1, <1>3, <1>4, IdleFields, FreeGossip

\* What a crash loses excuses every node.
LEMMA CrashGossip ==
  ASSUME MeshInv, GossipInv, NEW n \in Node, Crash(n)
  PROVE  GossipInv'
<1>1. /\ wire' \subseteq wire /\ UNCHANGED <<object, lost>> /\ n \in crashed'
      /\ thread' = [thread EXCEPT ![n] = [t \in Thread |-> Idle]]
  BY DEF Crash, store
<1>2. WireOK'
  BY <1>1 DEF GossipInv, WireOK, Serves
<1>3. \A m \in Node : SeenOK(m)'
  BY <1>1 DEF SeenOK, Excused
<1>4. ASSUME NEW m \in Node, NEW t \in Thread
      PROVE  TalkOK(m, thread[m][t])' /\ Finds(m, thread[m][t], lost)'
  <2>1. thread'[m][t] = thread[m][t] \/ thread'[m][t] = Idle
    BY <1>1 DEF MeshInv, TypeOK
  <2>2. TalkOK(m, thread'[m][t]) /\ Finds(m, thread'[m][t], lost)
    BY <2>1, IdleFields DEF GossipInv
  <2> QED BY <1>1, <2>2 DEF TalkOK, Finds, Serves, KnowsTellers
<1> QED BY <1>2, <1>3, <1>4 DEF GossipInv

LEMMA GossipInit == Init => GossipInv
<1> SUFFICES ASSUME Init PROVE GossipInv
  OBVIOUS
<1>1. WireOK /\ \A n \in Node : SeenOK(n)
  BY DEF Init, WireOK, SeenOK
<1>2. \A n \in Node : \A t \in Thread : thread[n][t] = Idle
  BY DEF Init
<1> QED BY <1>1, <1>2, IdleFields DEF GossipInv

LEMMA GossipStep == MeshInv /\ MeshInv' /\ GossipInv /\ [Next]_vars => GossipInv'
<1> SUFFICES ASSUME MeshInv, MeshInv', GossipInv, [Next]_vars PROVE GossipInv'
  OBVIOUS
<1>1. ASSUME NEW n \in Node, NEW t \in Thread, Step(n, t) PROVE GossipInv'
  BY <1>1, AdmissionGossip, AppendGossip, CheckGossip, AdmittedGossip, NoteTipGossip,
     TellGossip, FetchGossip, RememberGossip, WriteResolutionGossip, PublishGossip
     DEF Step
<1>2. ASSUME NEW n \in Node, Replicate(n) PROVE GossipInv'
  BY <1>2, ReplicationGossip
<1>3. \A n \in Node : Handlers[n] \subseteq Thread
  BY MeshAssumption DEF Thread
<1>4. ASSUME NEW n \in Node, Hear(n) PROVE GossipInv'
  BY <1>3, <1>4, HearTipGossip DEF Hear
<1>5. ASSUME NEW n \in Node, Request(n) PROVE GossipInv'
  BY <1>3, <1>5, SubmitGossip, ResolveGossip DEF Request
<1>6. ASSUME NEW n \in Node, Crash(n) PROVE GossipInv'
  BY <1>6, CrashGossip
<1>7. CASE UNCHANGED vars
  <2>1. UNCHANGED <<object, seen, thread, wire, crashed, lost>>
    BY <1>7 DEF vars, store, memory, history
  <2> QED BY <2>1 DEF GossipInv, WireOK, SeenOK, TalkOK, Finds, Serves, Carried, Excused,
                      Ordinary, KnowsTellers
<1> QED BY <1>1, <1>2, <1>4, <1>5, <1>6, <1>7 DEF Next

\* Whoever is told a packet can fetch it from a node that still has it, so what
\* a node has been told of and accepts is held, or in the hands of a thread,
\* while no request fails, no node crashes and it knows all who tell it.
THEOREM WhatIsToldIsHeld == Spec => []SeenIsHeld
<1>1. Init => MeshInv /\ GossipInv
  BY MeshInit, GossipInit
<1>2. (MeshInv /\ GossipInv) /\ [Next]_vars => (MeshInv /\ GossipInv)'
  BY MeshStep, GossipStep
<1>3. MeshInv /\ GossipInv => SeenIsHeld
  <2>1. SUFFICES ASSUME MeshInv, GossipInv, NEW n \in Node,
                        NEW p \in (seen[n] \cap Admits[n]) \ FindingPackets,
                        ~Excused(n)
                 PROVE  object[n][p] # Absent \/ Carried(n, p)
    BY DEF SeenIsHeld, Excused, KnowsTellers, Carried
  <2> QED BY <2>1 DEF GossipInv, SeenOK, Ordinary
<1> QED BY <1>1, <1>2, <1>3, PTL DEF Spec
=============================================================================
