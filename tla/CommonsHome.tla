----------------------------- MODULE CommonsHome -----------------------------
(***************************************************************************)
(* One commons home: the directory of content-addressed packet objects and *)
(* the hash-chained ledger.jsonl beside it, as the threads and processes   *)
(* that call CommonsRepository.submit see them (repository.py, ledger.py). *)
(*                                                                         *)
(* submit takes no lock.  The threads of one `w1 serve`, the handlers of a *)
(* mesh node and a command-line process share the two files, so a submit   *)
(* is a sequence of file-system steps here, and a process may die between  *)
(* any two of them.  What a packet says, how it is signed and why a policy *)
(* refuses it are abstracted: a packet is its content address, an envelope *)
(* is one of the receipts under which that content was signed.             *)
(***************************************************************************)
EXTENDS Naturals, Sequences, FiniteSets

CONSTANTS
  Writers,     \* threads and processes that submit into this home
  Packets,     \* content addresses (SignedPacket.packet_id)
  Receipts,    \* signing again gives the same packet another receipt
  Stamps,      \* a block's authority key and whole second
  NoFile,      \* no object file has this name
  Torn,        \* a file that does not parse: truncated, or two texts overlaid
  NoJob,       \* a writer that has not called submit since it started
  MaxCrashes   \* bound: crashes in a behaviour

ASSUME MarkersAssumption ==
  /\ NoFile \notin Receipts /\ Torn \notin Receipts /\ NoFile # Torn
  /\ NoJob \notin [packet : Packets, receipt : Receipts]

ASSUME MaxCrashesAssumption == MaxCrashes \in Nat

VARIABLES
  object,      \* objects/<packet id>.json
  ledger,      \* the lines of ledger.jsonl
  pc,          \* where each writer is in submit, or what its last call answered
  job,         \* the envelope the writer submits
  tip,         \* what append computed from the blocks it read
  crashes,     \* history: crashes so far
  lost         \* history: packets whose writer died after creating the file

files == <<object, ledger>>
locals == <<pc, job, tip>>
history == <<crashes, lost>>
vars == <<files, locals, history>>

-----------------------------------------------------------------------------
(* Blocks.  A hash is modelled by what it covers: the chain of headers that *)
(* ends in the block.  The genesis hash is the empty chain.                 *)

Headers == [height : Nat, packet : Packets, stamp : Stamps]
Genesis == <<>>
Blocks == [previous_hash : Seq(Headers), header : Headers]

BlockHash(b) == Append(b.previous_hash, b.header)

\* The hash the next block must name when these blocks were read.
TipHash(blocks) ==
  IF blocks = <<>> THEN Genesis ELSE BlockHash(blocks[Len(blocks)])

\* Ledger.verify: the expected height and the previous hash of every line.
LedgerVerifies(blocks) ==
  \A i \in 1..Len(blocks) :
    /\ blocks[i].header.height = i - 1
    /\ blocks[i].previous_hash = TipHash(SubSeq(blocks, 1, i - 1))

CommittedBy(blocks) == {blocks[i].header.packet : i \in 1..Len(blocks)}
Committed == CommittedBy(ledger)

-----------------------------------------------------------------------------
Jobs == [packet : Packets, receipt : Receipts]
NoTip == [height |-> 0, previous_hash |-> Genesis]

Answers == {"rejected", "already-present", "collision", "unreadable", "admissible"}
Returned == Answers \cup {"idle"}
Running == {"exists", "read", "open", "write", "blocks", "append"}
Opened == {"write", "blocks", "append"}   \* the file is there, the block is not

Init ==
  /\ object = [p \in Packets |-> NoFile]
  /\ ledger = <<>>
  /\ pc = [w \in Writers |-> "idle"]
  /\ job = [w \in Writers |-> NoJob]
  /\ tip = [w \in Writers |-> NoTip]
  /\ crashes = 0
  /\ lost = {}

Goto(w, label) == pc' = [pc EXCEPT ![w] = label]

\* Resolving the constitution and AdmissionPolicy.evaluate read the envelope,
\* immutable manifests and the clock, nothing submit writes: either verdict.
Submit(w, p, r) ==
  /\ pc[w] \in Returned
  /\ \E next \in {"rejected", "exists"} : Goto(w, next)
  /\ job' = [job EXCEPT ![w] = [packet |-> p, receipt |-> r]]
  /\ UNCHANGED <<files, tip, history>>

\* Seeded fault: the block is appended for a packet whose file is not written.
PathExistsCommitsFirst(w) ==
  /\ pc[w] = "exists"
  /\ Goto(w, IF object[job[w].packet] = NoFile THEN "blocks" ELSE "read")
  /\ UNCHANGED <<files, job, tip, history>>

PathExists(w) ==
  /\ pc[w] = "exists"
  /\ Goto(w, IF object[job[w].packet] = NoFile THEN "open" ELSE "read")
  /\ UNCHANGED <<files, job, tip, history>>

\* Seeded fault: a packet that is already there is committed once more.
ReadExistingRecommits(w) ==
  LET found == object[job[w].packet] IN
  /\ pc[w] = "read"
  /\ Goto(w, IF found = job[w].receipt THEN "blocks" ELSE "collision")
  /\ UNCHANGED <<files, job, tip, history>>

\* An empty or overlaid file raises from json.loads, another envelope of the
\* same packet raises "content-address collision or attempted mutation".
ReadExisting(w) ==
  LET found == object[job[w].packet] IN
  /\ pc[w] = "read"
  /\ \/ found = Torn /\ Goto(w, "unreadable")
     \/ found = job[w].receipt /\ Goto(w, "already-present")
     \/ found \notin {Torn, job[w].receipt} /\ Goto(w, "collision")
  /\ UNCHANGED <<files, job, tip, history>>

\* write_text opens the path for writing, which creates or truncates it ...
OpenObject(w) ==
  /\ pc[w] = "open"
  /\ object' = [object EXCEPT ![job[w].packet] = Torn]
  /\ Goto(w, "write")
  /\ UNCHANGED <<ledger, job, tip, history>>

\* Seeded fault: submit answers before it has appended the block.
WriteObjectReturns(w) ==
  /\ pc[w] = "write"
  /\ object' = [object EXCEPT ![job[w].packet] = job[w].receipt]
  /\ Goto(w, "admissible")
  /\ UNCHANGED <<ledger, job, tip, history>>

\* ... and writes from offset zero.  Text another writer put there since is
\* covered; receipts differ in length, so its tail may stick out.
WriteObject(w) ==
  LET p == job[w].packet
      r == job[w].receipt
  IN
  /\ pc[w] = "write"
  /\ \E text \in {r} \cup (IF object[p] \in {r, Torn} THEN {} ELSE {Torn}) :
       object' = [object EXCEPT ![p] = text]
  /\ Goto(w, "blocks")
  /\ UNCHANGED <<ledger, job, tip, history>>

\* Seeded fault: heights that start at one, as HeightOneLedger counts them in
\* commons_node.py.
ReadBlocksFromOne(w) ==
  /\ pc[w] = "blocks"
  /\ tip' = [tip EXCEPT ![w] =
       [height |-> Len(ledger) + 1, previous_hash |-> TipHash(ledger)]]
  /\ Goto(w, "append")
  /\ UNCHANGED <<files, job, history>>

\* Ledger.append first reads the blocks to learn the height and the tip ...
ReadBlocks(w) ==
  /\ pc[w] = "blocks"
  /\ tip' = [tip EXCEPT ![w] =
       [height |-> Len(ledger), previous_hash |-> TipHash(ledger)]]
  /\ Goto(w, "append")
  /\ UNCHANGED <<files, job, history>>

\* Seeded fault: the height is counted again when the line is written.
AppendBlockRecounts(w, stamp) ==
  /\ pc[w] = "append"
  /\ ledger' = Append(ledger,
       [previous_hash |-> tip[w].previous_hash,
        header |-> [height |-> Len(ledger), packet |-> job[w].packet, stamp |-> stamp]])
  /\ tip' = [tip EXCEPT ![w] = NoTip]
  /\ Goto(w, "admissible")
  /\ UNCHANGED <<object, job, history>>

\* ... then adds one line to whatever the file holds by now (O_APPEND).
AppendBlock(w, stamp) ==
  LET header == [height |-> tip[w].height, packet |-> job[w].packet, stamp |-> stamp]
      block == [previous_hash |-> tip[w].previous_hash, header |-> header]
  IN
  /\ pc[w] = "append"
  /\ ledger' = Append(ledger, block)
  /\ tip' = [tip EXCEPT ![w] = NoTip]
  /\ Goto(w, "admissible")
  /\ UNCHANGED <<object, job, history>>

\* The writer's process is killed: what it had not written is gone.
Crash(w) ==
  /\ pc[w] \in Running
  /\ crashes < MaxCrashes
  /\ crashes' = crashes + 1
  /\ lost' = IF pc[w] \in Opened THEN lost \cup {job[w].packet} ELSE lost
  /\ Goto(w, "idle")
  /\ job' = [job EXCEPT ![w] = NoJob]
  /\ tip' = [tip EXCEPT ![w] = NoTip]
  /\ UNCHANGED files

SubmitStep(w) ==
  \/ PathExists(w)
  \/ ReadExisting(w)
  \/ OpenObject(w)
  \/ WriteObject(w)
  \/ ReadBlocks(w)
  \/ \E stamp \in Stamps : AppendBlock(w, stamp)

Next ==
  \E w \in Writers :
    \/ \E p \in Packets, r \in Receipts : Submit(w, p, r)
    \/ SubmitStep(w)
    \/ Crash(w)

Spec == Init /\ [][Next]_vars

\* A thread that is inside submit is scheduled until it returns; nothing
\* forces anyone to call submit, and nothing forces a crash.
FairSpec == Spec /\ \A w \in Writers : WF_vars(SubmitStep(w))

-----------------------------------------------------------------------------
TypeOK ==
  /\ object \in [Packets -> Receipts \cup {NoFile, Torn}]
  /\ ledger \in Seq(Blocks)
  /\ pc \in [Writers -> Returned \cup Running]
  /\ job \in [Writers -> Jobs \cup {NoJob}]
  /\ \A w \in Writers : pc[w] # "idle" => job[w] \in Jobs
  /\ tip \in [Writers -> [height : Nat, previous_hash : Seq(Headers)]]
  /\ crashes \in 0..MaxCrashes
  /\ lost \subseteq Packets

\* Every block extends a prefix of the file it is in: a block of height h
\* names the hash of line h (the genesis hash for h = 0) and stands behind
\* that line.  Threads that race in Ledger.append fork the chain, they never
\* leave a block that descends from nothing.
BlocksExtendPrefixes ==
  \A i \in 1..Len(ledger) :
    LET h == ledger[i].header.height IN
    /\ h < i
    /\ ledger[i].previous_hash = TipHash(SubSeq(ledger, 1, h))

\* The height and hash a writer took from its read still name a prefix: the
\* file may have grown since, but not changed below them.
TipsNamePrefixes ==
  \A w \in Writers :
    pc[w] = "append" =>
      /\ tip[w].height <= Len(ledger)
      /\ tip[w].previous_hash = TipHash(SubSeq(ledger, 1, tip[w].height))

\* Every packet the ledger commits has an object file, whatever raced and
\* whenever a writer died: submit creates the object before the block.
CommittedHaveFiles == \A p \in Committed : object[p] # NoFile

\* And so has every packet that a writer is about to commit.
OpenedHaveFiles ==
  \A w \in Writers : pc[w] \in Opened => object[job[w].packet] # NoFile

\* A file that is in no block is the work of a submit still under way, or of
\* one that was killed: nothing else leaves an uncommitted object behind.
UncommittedAccounted ==
  \A p \in Packets :
    object[p] # NoFile =>
      \/ p \in Committed
      \/ p \in lost
      \/ \E w \in Writers : pc[w] \in Opened /\ job[w].packet = p

\* However often a packet is submitted, the ledger holds at most one block
\* for it per writer: only writers that saw no file before the first one
\* created it go on to commit.
CommitsBounded ==
  \A p \in Packets :
    Cardinality({i \in 1..Len(ledger) : ledger[i].header.packet = p})
      <= Cardinality(Writers)

\* The inductive invariant: how the two files fit together, and what the
\* writers between two steps still hold true of them.
HomeInv ==
  /\ TypeOK
  /\ BlocksExtendPrefixes
  /\ TipsNamePrefixes
  /\ CommittedHaveFiles
  /\ OpenedHaveFiles
  /\ UncommittedAccounted

\* The files only grow: no line of the ledger is ever changed or dropped, and
\* an object file never disappears.
HomeOnlyGrows ==
  [][/\ Len(ledger) <= Len(ledger')
     /\ SubSeq(ledger', 1, Len(ledger)) = ledger
     /\ \A p \in Packets : object[p] # NoFile => object'[p] # NoFile]_vars

\* An object that has been created is committed in the end, unless its writer
\* was killed: no interleaving of submits drops the second half of one.
CreatedThenCommitted ==
  \A p \in Packets : (object[p] # NoFile) ~> (p \in Committed \/ p \in lost)

\* One writer at a time: the "single-authority ledger" of the documents.
Solo == \A v, w \in Writers : v = w

\* A home with one writer keeps a chain that Ledger.verify accepts at every
\* instant, between the steps of a submit and after any crash.
ChainHolds == LedgerVerifies(ledger)

\* The home of one writer implements the admission log of the architecture
\* document: an object file counts as stored once it is readable.
Abstract == INSTANCE AdmissionLog WITH
  NotStored <- NoFile,
  stored <- [p \in Packets |-> IF object[p] = Torn THEN NoFile ELSE object[p]],
  log <- [i \in 1..Len(ledger) |-> ledger[i].header.packet]

AdmitsAsPromised == Abstract!Spec
=============================================================================
