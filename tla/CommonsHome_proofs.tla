-------------------------- MODULE CommonsHome_proofs --------------------------
(* What holds of a commons home for every set of writers, packets, receipts *)
(* and stamps and for any number of crashes; what one writer adds to it: a  *)
(* chain that verifies and the admission log; and what the report of        *)
(* CommonsRepository.verify is worth beside the writers.                    *)
EXTENDS AuditedHome, FiniteSetTheorems, TLAPS

-----------------------------------------------------------------------------
(* Prefixes and tips.                                                       *)

\* A prefix of a ledger is a prefix of the ledger with one more line.
LEMMA PrefixOfAppend ==
  ASSUME NEW S, NEW s \in Seq(S), NEW e \in S, NEW n \in 0..Len(s)
  PROVE  SubSeq(Append(s, e), 1, n) = SubSeq(s, 1, n)
  OBVIOUS

\* The whole of a sequence is its longest prefix.
LEMMA WholePrefix ==
  ASSUME NEW S, NEW s \in Seq(S)
  PROVE  SubSeq(s, 1, Len(s)) = s
  OBVIOUS

\* The tip of a ledger is a hash.
LEMMA TipHashType ==
  ASSUME NEW s \in Seq(Blocks)
  PROVE  TipHash(s) \in Seq(Headers)
<1>1. CASE s = <<>>
  BY <1>1 DEF TipHash, Genesis
<1>2. CASE s # <<>>
  <2>1. s[Len(s)] \in Blocks
    BY <1>2
  <2> QED BY <1>2, <2>1 DEF TipHash, BlockHash, Blocks
<1> QED BY <1>1, <1>2

-----------------------------------------------------------------------------
(* Types.                                                                   *)

\* What a writer works on is an envelope as long as it is inside submit.
LEMMA RunningHasJob ==
  ASSUME TypeOK, NEW w \in Writers, pc[w] \in Running
  PROVE  job[w].packet \in Packets /\ job[w].receipt \in Receipts
  BY DEF TypeOK, Running, Jobs

LEMMA TypeStep == TypeOK /\ [Next]_vars => TypeOK'
<1> SUFFICES ASSUME TypeOK, [Next]_vars PROVE TypeOK'
  OBVIOUS
<1>1. ASSUME NEW w \in Writers, NEW p \in Packets, NEW r \in Receipts, Submit(w, p, r)
      PROVE  TypeOK'
  BY <1>1 DEF TypeOK, Submit, Goto, Jobs, Returned, Running, Answers, files, history
<1>2. ASSUME NEW w \in Writers, PathExists(w) PROVE TypeOK'
  BY <1>2 DEF TypeOK, PathExists, Goto, Returned, Running, files, history
<1>3. ASSUME NEW w \in Writers, ReadExisting(w) PROVE TypeOK'
  BY <1>3 DEF TypeOK, ReadExisting, Goto, Returned, Running, Answers, files, history
<1>4. ASSUME NEW w \in Writers, OpenObject(w) PROVE TypeOK'
  BY <1>4 DEF TypeOK, OpenObject, Goto, Returned, Running, history
<1>5. ASSUME NEW w \in Writers, WriteObject(w) PROVE TypeOK'
  <2>1. job[w].receipt \in Receipts
    BY <1>5, RunningHasJob DEF WriteObject, Running
  <2> QED BY <1>5, <2>1 DEF TypeOK, WriteObject, Goto, Returned, Running, history
<1>6. ASSUME NEW w \in Writers, ReadBlocks(w) PROVE TypeOK'
  <2>1. TipHash(ledger) \in Seq(Headers) /\ Len(ledger) \in Nat
    BY TipHashType DEF TypeOK
  <2> QED BY <1>6, <2>1 DEF TypeOK, ReadBlocks, Goto, Returned, Running, files, history
<1>7. ASSUME NEW w \in Writers, NEW s \in Stamps, AppendBlock(w, s) PROVE TypeOK'
  <2> DEFINE header == [height |-> tip[w].height, packet |-> job[w].packet, stamp |-> s]
             block == [previous_hash |-> tip[w].previous_hash, header |-> header]
  <2>1. job[w].packet \in Packets
    BY <1>7, RunningHasJob DEF AppendBlock, Running
  <2>2. tip[w].height \in Nat /\ tip[w].previous_hash \in Seq(Headers)
    BY DEF TypeOK
  <2>3. block \in Blocks
    BY <2>1, <2>2 DEF Blocks, Headers
  <2>4. ledger' \in Seq(Blocks)
    BY <1>7, <2>3 DEF AppendBlock, TypeOK
  <2>5. NoTip \in [height : Nat, previous_hash : Seq(Headers)]
    BY DEF NoTip, Genesis
  <2>6. tip' \in [Writers -> [height : Nat, previous_hash : Seq(Headers)]]
    BY <1>7, <2>5 DEF AppendBlock, TypeOK
  <2> QED BY <1>7, <2>4, <2>6 DEF TypeOK, AppendBlock, Goto, Returned, Answers, history
<1>8. ASSUME NEW w \in Writers, Crash(w) PROVE TypeOK'
  <2>1. NoTip \in [height : Nat, previous_hash : Seq(Headers)]
    BY DEF NoTip, Genesis
  <2>2. tip' \in [Writers -> [height : Nat, previous_hash : Seq(Headers)]]
    BY <1>8, <2>1 DEF Crash, TypeOK
  <2>3. lost' \subseteq Packets
    BY <1>8, RunningHasJob DEF Crash, TypeOK, Opened, Running
  <2>4. crashes' \in 0..MaxCrashes
    BY <1>8, MaxCrashesAssumption DEF Crash, TypeOK
  <2> QED BY <1>8, <2>2, <2>3, <2>4 DEF TypeOK, Crash, Goto, Returned, files
<1>9. CASE UNCHANGED vars
  BY <1>9 DEF TypeOK, vars, files, locals, history
<1> QED BY <1>1, <1>2, <1>3, <1>4, <1>5, <1>6, <1>7, <1>8, <1>9 DEF Next, SubmitStep

LEMMA TypeInit == Init => TypeOK
<1> SUFFICES ASSUME Init PROVE TypeOK
  OBVIOUS
<1>1. NoTip \in [height : Nat, previous_hash : Seq(Headers)]
  BY DEF NoTip, Genesis
<1>2. crashes \in 0..MaxCrashes
  BY MaxCrashesAssumption DEF Init
<1> QED BY <1>1, <1>2 DEF Init, TypeOK, Returned

\* Every variable of the home keeps its type, whoever submits what.
THEOREM TypeCorrect == Spec => []TypeOK
  BY TypeInit, TypeStep, PTL DEF Spec

-----------------------------------------------------------------------------
(* The two files.                                                           *)

\* A submit that is not appending leaves the ledger as it is; appending adds
\* the block that was computed from the tip.
LEMMA LedgerStep ==
  ASSUME TypeOK, [Next]_vars
  PROVE  \/ /\ ledger' = ledger
            /\ \A w \in Writers :
                 pc'[w] = "append" =>
                   \/ pc[w] = "append" /\ tip'[w] = tip[w]
                   \/ tip'[w] = [height |-> Len(ledger), previous_hash |-> TipHash(ledger)]
         \/ \E w \in Writers, s \in Stamps :
              /\ AppendBlock(w, s)
              /\ \A v \in Writers : pc'[v] = "append" => pc[v] = "append" /\ tip'[v] = tip[v]
<1>1. ASSUME NEW w \in Writers, NEW p \in Packets, NEW r \in Receipts, Submit(w, p, r)
      PROVE  /\ ledger' = ledger
             /\ \A v \in Writers : pc'[v] = "append" => pc[v] = "append" /\ tip'[v] = tip[v]
  BY <1>1 DEF Submit, Goto, TypeOK, files
<1>2. ASSUME NEW w \in Writers, PathExists(w) \/ ReadExisting(w) \/ OpenObject(w)
                                 \/ WriteObject(w) \/ Crash(w)
      PROVE  /\ ledger' = ledger
             /\ \A v \in Writers : pc'[v] = "append" => pc[v] = "append" /\ tip'[v] = tip[v]
  BY <1>2 DEF PathExists, ReadExisting, OpenObject, WriteObject, Crash, Goto, TypeOK, files
<1>3. ASSUME NEW w \in Writers, ReadBlocks(w)
      PROVE  /\ ledger' = ledger
             /\ \A v \in Writers :
                  pc'[v] = "append" =>
                    \/ pc[v] = "append" /\ tip'[v] = tip[v]
                    \/ tip'[v] = [height |-> Len(ledger), previous_hash |-> TipHash(ledger)]
  BY <1>3 DEF ReadBlocks, Goto, TypeOK, files
<1>4. ASSUME NEW w \in Writers, NEW s \in Stamps, AppendBlock(w, s)
      PROVE  \A v \in Writers : pc'[v] = "append" => pc[v] = "append" /\ tip'[v] = tip[v]
  BY <1>4 DEF AppendBlock, Goto, TypeOK
<1>5. CASE UNCHANGED vars
  BY <1>5 DEF vars, files, locals
<1> QED BY <1>1, <1>2, <1>3, <1>4, <1>5 DEF Next, SubmitStep

\* What AppendBlock writes, and that it is a block.
LEMMA AppendedBlock ==
  ASSUME TypeOK, NEW w \in Writers, NEW s \in Stamps, AppendBlock(w, s)
  PROVE  \E b \in Blocks :
           /\ ledger' = Append(ledger, b)
           /\ b.header.height = tip[w].height
           /\ b.previous_hash = tip[w].previous_hash
           /\ b.header.packet = job[w].packet
           /\ job[w].packet \in Packets
<1> DEFINE header == [height |-> tip[w].height, packet |-> job[w].packet, stamp |-> s]
           block == [previous_hash |-> tip[w].previous_hash, header |-> header]
<1>1. job[w].packet \in Packets
  BY RunningHasJob DEF AppendBlock, Running
<1>2. tip[w].height \in Nat /\ tip[w].previous_hash \in Seq(Headers)
  BY DEF TypeOK
<1>3. block \in Blocks
  BY <1>1, <1>2 DEF Blocks, Headers
<1>4. ledger' = Append(ledger, block)
  BY DEF AppendBlock
<1> QED BY <1>1, <1>3, <1>4

LEMMA PrefixStep ==
  ASSUME TypeOK, BlocksExtendPrefixes, TipsNamePrefixes, [Next]_vars
  PROVE  BlocksExtendPrefixes' /\ TipsNamePrefixes'
<1>0. ledger \in Seq(Blocks) /\ Len(ledger) \in Nat
  BY DEF TypeOK
<1>a. ASSUME NEW i \in 1..Len(ledger) PROVE ledger[i].header.height \in Nat
  <2>1. ledger[i] \in Blocks
    BY <1>0
  <2> QED BY <2>1 DEF Blocks, Headers
<1>b. \A w \in Writers : tip[w].height \in Nat
  BY DEF TypeOK
<1>1. CASE /\ ledger' = ledger
           /\ \A w \in Writers :
                pc'[w] = "append" =>
                  \/ pc[w] = "append" /\ tip'[w] = tip[w]
                  \/ tip'[w] = [height |-> Len(ledger), previous_hash |-> TipHash(ledger)]
  <2>1. BlocksExtendPrefixes'
    BY <1>1 DEF BlocksExtendPrefixes
  <2>2. SubSeq(ledger, 1, Len(ledger)) = ledger
    BY <1>0, WholePrefix
  <2>3. ASSUME NEW w \in Writers, pc'[w] = "append"
        PROVE  /\ tip'[w].height <= Len(ledger)
               /\ tip'[w].previous_hash = TipHash(SubSeq(ledger, 1, tip'[w].height))
    <3>1. CASE pc[w] = "append" /\ tip'[w] = tip[w]
      BY <3>1 DEF TipsNamePrefixes
    <3>2. CASE tip'[w] = [height |-> Len(ledger), previous_hash |-> TipHash(ledger)]
      <4>1. tip'[w].height = Len(ledger) /\ tip'[w].previous_hash = TipHash(ledger)
        BY <3>2
      <4>2. SubSeq(ledger, 1, tip'[w].height) = ledger
        BY <2>2, <4>1, Zenon
      <4>3. tip'[w].height <= Len(ledger)
        BY <1>0, <4>1
      <4> QED BY <4>1, <4>2, <4>3
    <3> QED BY <1>1, <2>3, <3>1, <3>2
  <2>4. TipsNamePrefixes'
    BY <1>1, <2>3 DEF TipsNamePrefixes
  <2> QED BY <2>1, <2>4
<1>2. ASSUME NEW w \in Writers, NEW s \in Stamps, AppendBlock(w, s),
             \A v \in Writers : pc'[v] = "append" => pc[v] = "append" /\ tip'[v] = tip[v]
      PROVE  BlocksExtendPrefixes' /\ TipsNamePrefixes'
  <2>1. PICK b \in Blocks : /\ ledger' = Append(ledger, b)
                            /\ b.header.height = tip[w].height
                            /\ b.previous_hash = tip[w].previous_hash
    BY <1>2, AppendedBlock
  <2>2. Len(ledger') = Len(ledger) + 1
    BY <1>0, <2>1
  <2>3. \A n \in 0..Len(ledger) : SubSeq(ledger', 1, n) = SubSeq(ledger, 1, n)
    BY <1>0, <2>1, PrefixOfAppend
  <2>4. tip[w].height \in 0..Len(ledger)
        /\ tip[w].previous_hash = TipHash(SubSeq(ledger, 1, tip[w].height))
    BY <1>0, <1>2, <1>b DEF TipsNamePrefixes, AppendBlock
  <2>5. ASSUME NEW i \in 1..Len(ledger)
        PROVE  LET h == ledger'[i].header.height IN
               h < i /\ ledger'[i].previous_hash = TipHash(SubSeq(ledger', 1, h))
    <3>1. ledger'[i] = ledger[i]
      BY <1>0, <2>1
    <3>2. ledger[i].header.height < i
          /\ ledger[i].previous_hash = TipHash(SubSeq(ledger, 1, ledger[i].header.height))
      BY DEF BlocksExtendPrefixes
    <3>3. ledger[i].header.height \in 0..Len(ledger)
      BY <1>0, <1>a, <3>2
    <3> QED BY <2>3, <3>1, <3>2, <3>3
  <2>6. ASSUME NEW i \in {Len(ledger) + 1}
        PROVE  LET h == ledger'[i].header.height IN
               h < i /\ ledger'[i].previous_hash = TipHash(SubSeq(ledger', 1, h))
    <3>1. ledger'[i] = b
      BY <1>0, <2>1
    <3>2. tip[w].height < i
      BY <1>0, <2>4
    <3>3. SubSeq(ledger', 1, tip[w].height) = SubSeq(ledger, 1, tip[w].height)
      BY <2>3, <2>4
    <3> QED BY <2>1, <2>4, <3>1, <3>2, <3>3
  <2>7. BlocksExtendPrefixes'
    <3> SUFFICES ASSUME NEW i \in 1..Len(ledger')
                 PROVE  LET h == ledger'[i].header.height IN
                        h < i /\ ledger'[i].previous_hash = TipHash(SubSeq(ledger', 1, h))
      BY DEF BlocksExtendPrefixes, TipHash, BlockHash, Genesis
    <3>1. i \in 1..Len(ledger) \/ i = Len(ledger) + 1
      BY <1>0, <2>2
    <3> QED BY <2>5, <2>6, <3>1
  <2>8. TipsNamePrefixes'
    <3> SUFFICES ASSUME NEW v \in Writers, pc'[v] = "append"
                 PROVE  /\ tip'[v].height <= Len(ledger')
                        /\ tip'[v].previous_hash = TipHash(SubSeq(ledger', 1, tip'[v].height))
      BY DEF TipsNamePrefixes, TipHash, BlockHash, Genesis
    <3>1. tip'[v] = tip[v] /\ tip[v].height <= Len(ledger)
          /\ tip[v].previous_hash = TipHash(SubSeq(ledger, 1, tip[v].height))
      BY <1>2 DEF TipsNamePrefixes
    <3>2. tip[v].height \in 0..Len(ledger)
      BY <1>0, <1>b, <3>1
    <3>3. SubSeq(ledger', 1, tip[v].height) = SubSeq(ledger, 1, tip[v].height)
      BY <2>3, <3>2
    <3>4. tip[v].height <= Len(ledger')
      BY <1>0, <2>2, <3>2
    <3> QED BY <3>1, <3>3, <3>4
  <2> QED BY <2>7, <2>8
<1> QED BY <1>1, <1>2, LedgerStep

\* No step removes an object file, and only WriteObject and OpenObject touch
\* one; a file they touch is there afterwards.
LEMMA ObjectStep ==
  ASSUME TypeOK, [Next]_vars, OpenedHaveFiles
  PROVE  /\ \A p \in Packets : object[p] # NoFile => object'[p] # NoFile
         /\ \A p \in Packets :
              object[p] = NoFile /\ object'[p] # NoFile =>
                \E w \in Writers : pc'[w] \in Opened /\ job'[w].packet = p
<1>1. ASSUME NEW w \in Writers, OpenObject(w)
      PROVE  /\ \A p \in Packets : object[p] # NoFile => object'[p] # NoFile
             /\ \A p \in Packets :
                  object[p] = NoFile /\ object'[p] # NoFile =>
                    pc'[w] \in Opened /\ job'[w].packet = p
  BY <1>1, MarkersAssumption DEF OpenObject, Goto, TypeOK, Opened
<1>2. ASSUME NEW w \in Writers, WriteObject(w)
      PROVE  /\ \A p \in Packets : object[p] # NoFile => object'[p] # NoFile
             /\ \A p \in Packets : object[p] = NoFile => object'[p] = NoFile
  <2>1. job[w].packet \in Packets /\ job[w].receipt \in Receipts
    BY <1>2, RunningHasJob DEF WriteObject, Running
  <2>2. object[job[w].packet] # NoFile
    BY <1>2 DEF OpenedHaveFiles, Opened, WriteObject
  <2>3. PICK text \in Receipts \cup {Torn} :
          object' = [object EXCEPT ![job[w].packet] = text]
    BY <1>2, <2>1 DEF WriteObject
  <2> QED BY <2>1, <2>2, <2>3, MarkersAssumption DEF TypeOK
<1>3. ASSUME NEW w \in Writers, NEW p \in Packets, NEW r \in Receipts, Submit(w, p, r)
      PROVE  object' = object
  BY <1>3 DEF Submit, files
<1>4. ASSUME NEW w \in Writers, PathExists(w) \/ ReadExisting(w) \/ ReadBlocks(w) \/ Crash(w)
      PROVE  object' = object
  BY <1>4 DEF PathExists, ReadExisting, ReadBlocks, Crash, files
<1>5. ASSUME NEW w \in Writers, NEW s \in Stamps, AppendBlock(w, s)
      PROVE  object' = object
  BY <1>5 DEF AppendBlock
<1>6. CASE UNCHANGED vars
  BY <1>6 DEF vars, files
<1> QED BY <1>1, <1>2, <1>3, <1>4, <1>5, <1>6 DEF Next, SubmitStep

\* A writer stays between its file and its block until it has committed the
\* packet or is killed.
LEMMA OpenedStep ==
  ASSUME TypeOK, [Next]_vars, NEW w \in Writers, pc[w] \in Opened
  PROVE  \/ pc'[w] \in Opened /\ job'[w] = job[w]
         \/ \E s \in Stamps : AppendBlock(w, s)
         \/ job[w].packet \in lost'
<1>1. ASSUME NEW v \in Writers, NEW p \in Packets, NEW r \in Receipts, Submit(v, p, r)
      PROVE  pc'[w] \in Opened /\ job'[w] = job[w]
  BY <1>1 DEF Submit, Goto, TypeOK, Opened, Returned, Answers
<1>2. ASSUME NEW v \in Writers, PathExists(v) \/ ReadExisting(v) \/ OpenObject(v)
                                 \/ WriteObject(v) \/ ReadBlocks(v)
      PROVE  pc'[w] \in Opened /\ job'[w] = job[w]
  BY <1>2 DEF PathExists, ReadExisting, OpenObject, WriteObject, ReadBlocks, Goto,
              TypeOK, Opened
<1>3. ASSUME NEW v \in Writers, NEW s \in Stamps, AppendBlock(v, s)
      PROVE  v = w \/ (pc'[w] \in Opened /\ job'[w] = job[w])
  BY <1>3 DEF AppendBlock, Goto, TypeOK
<1>4. ASSUME NEW v \in Writers, Crash(v)
      PROVE  job[w].packet \in lost' \/ (pc'[w] \in Opened /\ job'[w] = job[w])
  BY <1>4 DEF Crash, Goto, TypeOK
<1>5. CASE UNCHANGED vars
  BY <1>5 DEF vars, locals
<1> QED BY <1>1, <1>2, <1>3, <1>4, <1>5 DEF Next, SubmitStep

\* A writer comes to stand between its file and its block by opening the file.
LEMMA OpenedBefore ==
  ASSUME TypeOK, [Next]_vars, NEW w \in Writers, pc'[w] \in Opened
  PROVE  \/ pc[w] \in Opened /\ job'[w] = job[w]
         \/ OpenObject(w)
<1>1. ASSUME NEW v \in Writers, NEW p \in Packets, NEW r \in Receipts, Submit(v, p, r)
      PROVE  pc[w] \in Opened /\ job'[w] = job[w]
  BY <1>1 DEF Submit, Goto, TypeOK, Opened
<1>2. ASSUME NEW v \in Writers, PathExists(v) \/ ReadExisting(v) \/ WriteObject(v)
                                 \/ ReadBlocks(v) \/ Crash(v)
      PROVE  pc[w] \in Opened /\ job'[w] = job[w]
  BY <1>2 DEF PathExists, ReadExisting, WriteObject, ReadBlocks, Crash, Goto, TypeOK, Opened
<1>3. ASSUME NEW v \in Writers, OpenObject(v)
      PROVE  v = w \/ (pc[w] \in Opened /\ job'[w] = job[w])
  BY <1>3 DEF OpenObject, Goto, TypeOK
<1>4. ASSUME NEW v \in Writers, NEW s \in Stamps, AppendBlock(v, s)
      PROVE  pc[w] \in Opened /\ job'[w] = job[w]
  BY <1>4 DEF AppendBlock, Goto, TypeOK, Opened
<1>5. CASE UNCHANGED vars
  BY <1>5 DEF vars, locals
<1> QED BY <1>1, <1>2, <1>3, <1>4, <1>5 DEF Next, SubmitStep

\* Only AppendBlock commits, and it commits the packet of its writer.
LEMMA CommittedStep ==
  ASSUME TypeOK, [Next]_vars
  PROVE  \/ Committed' = Committed
         \/ \E w \in Writers, s \in Stamps :
              /\ AppendBlock(w, s)
              /\ Committed' = Committed \cup {job[w].packet}
<1>0. ledger \in Seq(Blocks)
  BY DEF TypeOK
<1>1. CASE ledger' = ledger
  BY <1>1 DEF Committed, CommittedBy
<1>2. ASSUME NEW w \in Writers, NEW s \in Stamps, AppendBlock(w, s)
      PROVE  Committed' = Committed \cup {job[w].packet}
  <2>1. PICK b \in Blocks : ledger' = Append(ledger, b) /\ b.header.packet = job[w].packet
    BY <1>2, AppendedBlock
  <2>2. Len(ledger') = Len(ledger) + 1 /\ Len(ledger) \in Nat
    BY <1>0, <2>1
  <2>3. \A i \in 1..Len(ledger) : ledger'[i] = ledger[i]
    BY <1>0, <2>1
  <2>4. ledger'[Len(ledger) + 1] = b
    BY <1>0, <2>1
  <2>5. 1..Len(ledger') = 1..Len(ledger) \cup {Len(ledger) + 1}
    BY <2>2
  <2> QED BY <2>1, <2>3, <2>4, <2>5 DEF Committed, CommittedBy
<1> QED BY <1>1, <1>2, LedgerStep

LEMMA FilesStep ==
  ASSUME HomeInv, [Next]_vars
  PROVE  OpenedHaveFiles' /\ CommittedHaveFiles' /\ UncommittedAccounted'
<1> USE DEF HomeInv
<1>0. /\ \A p \in Packets : object[p] # NoFile => object'[p] # NoFile
      /\ \A p \in Packets :
           object[p] = NoFile /\ object'[p] # NoFile =>
             \E w \in Writers : pc'[w] \in Opened /\ job'[w].packet = p
  BY ObjectStep
<1>a. Committed \subseteq Committed'
  BY CommittedStep
<1>b. Committed \subseteq Packets
  <2>1. ASSUME NEW i \in 1..Len(ledger) PROVE ledger[i] \in Blocks
    BY DEF TypeOK
  <2> QED BY <2>1 DEF Committed, CommittedBy, Blocks, Headers
<1>c. lost \subseteq lost'
  BY DEF Next, SubmitStep, Submit, PathExists, ReadExisting, OpenObject, WriteObject,
         ReadBlocks, AppendBlock, Crash, vars, history
<1>1. OpenedHaveFiles'
  <2> SUFFICES ASSUME NEW w \in Writers, pc'[w] \in Opened
               PROVE  object'[job'[w].packet] # NoFile
    BY DEF OpenedHaveFiles, Opened
  <2>1. CASE pc[w] \in Opened /\ job'[w] = job[w]
    <3>1. object[job[w].packet] # NoFile
      BY <2>1 DEF OpenedHaveFiles
    <3>2. job[w].packet \in Packets
      BY <2>1, RunningHasJob DEF Opened, Running
    <3> QED BY <1>0, <2>1, <3>1, <3>2
  <2>2. CASE OpenObject(w)
    <3>1. job[w].packet \in Packets
      BY <2>2, RunningHasJob DEF OpenObject, Running
    <3> QED BY <2>2, <3>1, MarkersAssumption DEF OpenObject, TypeOK
  <2> QED BY <2>1, <2>2, OpenedBefore
<1>2. CommittedHaveFiles'
  <2>1. CASE Committed' = Committed
    BY <1>0, <1>b, <2>1 DEF CommittedHaveFiles
  <2>2. ASSUME NEW w \in Writers, NEW s \in Stamps, AppendBlock(w, s),
               Committed' = Committed \cup {job[w].packet}
        PROVE  CommittedHaveFiles'
    <3>1. pc[w] \in Opened
      BY <2>2 DEF AppendBlock, Opened
    <3>2. object[job[w].packet] # NoFile /\ job[w].packet \in Packets
      BY <3>1, RunningHasJob DEF OpenedHaveFiles, Opened, Running
    <3> QED BY <1>0, <1>b, <2>2, <3>2 DEF CommittedHaveFiles
  <2> QED BY <2>1, <2>2, CommittedStep
<1>3. UncommittedAccounted'
  <2> SUFFICES ASSUME NEW p \in Packets, object'[p] # NoFile, p \notin Committed', p \notin lost'
               PROVE  \E w \in Writers : pc'[w] \in Opened /\ job'[w].packet = p
    BY DEF UncommittedAccounted, Opened
  <2>1. CASE object[p] = NoFile
    BY <1>0, <2>1
  <2>2. CASE object[p] # NoFile
    <3>1. PICK w \in Writers : pc[w] \in Opened /\ job[w].packet = p
      BY <1>a, <1>c, <2>2 DEF UncommittedAccounted
    <3>2. ASSUME NEW s \in Stamps, AppendBlock(w, s) PROVE FALSE
      <4>1. PICK b \in Blocks : ledger' = Append(ledger, b) /\ b.header.packet = p
        BY <3>1, <3>2, AppendedBlock
      <4>2. Len(ledger') = Len(ledger) + 1 /\ Len(ledger) \in Nat
            /\ ledger'[Len(ledger) + 1] = b
        BY <4>1 DEF TypeOK
      <4>3. Len(ledger) + 1 \in 1..Len(ledger')
        BY <4>2
      <4> QED BY <4>1, <4>2, <4>3 DEF Committed, CommittedBy
    <3> QED BY <3>1, <3>2, OpenedStep
  <2> QED BY <2>1, <2>2
<1> QED BY <1>1, <1>2, <1>3

-----------------------------------------------------------------------------
LEMMA InvInit == Init => HomeInv
<1> SUFFICES ASSUME Init PROVE HomeInv
  OBVIOUS
<1>1. TypeOK
  BY TypeInit
<1>2. ledger = <<>> /\ 1..Len(ledger) = {}
  BY DEF Init
<1>3. BlocksExtendPrefixes /\ CommittedHaveFiles
  BY <1>2 DEF BlocksExtendPrefixes, CommittedHaveFiles, Committed, CommittedBy
<1>4. TipsNamePrefixes /\ OpenedHaveFiles /\ UncommittedAccounted
  BY DEF Init, TipsNamePrefixes, OpenedHaveFiles, Opened, UncommittedAccounted
<1> QED BY <1>1, <1>3, <1>4 DEF HomeInv

LEMMA InvStep == HomeInv /\ [Next]_vars => HomeInv'
  BY TypeStep, PrefixStep, FilesStep DEF HomeInv

LEMMA InvCorrect == Spec => []HomeInv
  BY InvInit, InvStep, PTL DEF Spec

\* However submits overlap and crash, every block of ledger.jsonl extends a
\* prefix of the file: Ledger.append can fork the chain but not break it off.
THEOREM LedgerIsATree == Spec => []BlocksExtendPrefixes
<1>1. HomeInv => BlocksExtendPrefixes
  BY DEF HomeInv
<1> QED BY <1>1, InvCorrect, PTL

\* submit writes the object before the block, so no block ever commits a
\* packet that the home has no file of.
THEOREM CommittedAreStored == Spec => []CommittedHaveFiles
<1>1. HomeInv => CommittedHaveFiles
  BY DEF HomeInv
<1> QED BY <1>1, InvCorrect, PTL

\* An uncommitted object has a live writer or a dead one; the code has no
\* other way to leave one behind.
THEOREM OrphansHaveACause == Spec => []UncommittedAccounted
<1>1. HomeInv => UncommittedAccounted
  BY DEF HomeInv
<1> QED BY <1>1, InvCorrect, PTL

\* Neither file ever loses anything.
THEOREM HomeGrows == Spec => HomeOnlyGrows
<1> DEFINE Grows == /\ Len(ledger) <= Len(ledger')
                    /\ SubSeq(ledger', 1, Len(ledger)) = ledger
                    /\ \A p \in Packets : object[p] # NoFile => object'[p] # NoFile
<1>1. ASSUME HomeInv, [Next]_vars PROVE Grows
  <2>1. ledger \in Seq(Blocks) /\ Len(ledger) \in Nat
    BY <1>1 DEF HomeInv, TypeOK
  <2>2. \A p \in Packets : object[p] # NoFile => object'[p] # NoFile
    BY <1>1, ObjectStep DEF HomeInv
  <2>3. SubSeq(ledger, 1, Len(ledger)) = ledger
    BY <2>1, WholePrefix
  <2>4. CASE ledger' = ledger
    BY <2>1, <2>2, <2>3, <2>4
  <2>5. ASSUME NEW b \in Blocks, ledger' = Append(ledger, b)
        PROVE  Grows
    <3>1. Len(ledger') = Len(ledger) + 1
      BY <2>1, <2>5
    <3>2. SubSeq(ledger', 1, Len(ledger)) = SubSeq(ledger, 1, Len(ledger))
      BY <2>1, <2>5, PrefixOfAppend
    <3> QED BY <2>1, <2>2, <2>3, <3>1, <3>2
  <2>6. ledger' = ledger \/ \E b \in Blocks : ledger' = Append(ledger, b)
    BY <1>1, LedgerStep, AppendedBlock DEF HomeInv
  <2> QED BY <2>4, <2>5, <2>6
<1>2. HomeInv /\ [Next]_vars => [Grows]_vars
  BY <1>1
<1> QED BY <1>2, InvCorrect, PTL DEF Spec, HomeOnlyGrows

-----------------------------------------------------------------------------
(* How many blocks a packet can get.                                        *)

\* The writers that found no file of the packet and have not committed it.
Claimants(p) ==
  {w \in Writers : pc[w] \in {"open"} \cup Opened /\ job[w].packet = p}

BlocksOf(p) == {i \in 1..Len(ledger) : ledger[i].header.packet = p}

\* Once a packet has a file nobody joins its claimants, and each of them
\* trades its place for one block.
WithinBudget ==
  \A p \in Packets :
    object[p] # NoFile =>
      Cardinality(BlocksOf(p)) + Cardinality(Claimants(p)) <= Cardinality(Writers)

\* Nobody joins the claimants of a packet that has a file, and the writer
\* that commits the packet leaves them.
LEMMA ClaimantsShrink ==
  ASSUME TypeOK, [Next]_vars, NEW p \in Packets, object[p] # NoFile
  PROVE  Claimants(p)' \subseteq Claimants(p)
<1>1. ASSUME NEW v \in Writers, NEW q \in Packets, NEW r \in Receipts, Submit(v, q, r)
      PROVE  Claimants(p)' \subseteq Claimants(p)
  BY <1>1 DEF Submit, Goto, TypeOK, Claimants, Opened
<1>2. ASSUME NEW v \in Writers, PathExists(v)
      PROVE  Claimants(p)' \subseteq Claimants(p)
  BY <1>2 DEF PathExists, Goto, TypeOK, Claimants, Opened
<1>3. ASSUME NEW v \in Writers, ReadExisting(v) \/ OpenObject(v) \/ WriteObject(v)
                                 \/ ReadBlocks(v) \/ Crash(v)
      PROVE  Claimants(p)' \subseteq Claimants(p)
  BY <1>3 DEF ReadExisting, OpenObject, WriteObject, ReadBlocks, Crash, Goto, TypeOK,
              Claimants, Opened
<1>4. ASSUME NEW v \in Writers, NEW s \in Stamps, AppendBlock(v, s)
      PROVE  Claimants(p)' \subseteq Claimants(p)
  BY <1>4 DEF AppendBlock, Goto, TypeOK, Claimants, Opened
<1>5. CASE UNCHANGED vars
  BY <1>5 DEF vars, locals, Claimants
<1> QED BY <1>1, <1>2, <1>3, <1>4, <1>5 DEF Next, SubmitStep

LEMMA BlocksOfStep ==
  ASSUME TypeOK, [Next]_vars, NEW p \in Packets
  PROVE  \/ BlocksOf(p)' = BlocksOf(p)
         \/ \E w \in Writers, s \in Stamps :
              /\ AppendBlock(w, s)
              /\ w \in Claimants(p) /\ w \notin Claimants(p)'
              /\ BlocksOf(p)' = BlocksOf(p) \cup {Len(ledger) + 1}
<1>0. ledger \in Seq(Blocks) /\ Len(ledger) \in Nat
  BY DEF TypeOK
<1>1. CASE ledger' = ledger
  BY <1>1 DEF BlocksOf
<1>2. ASSUME NEW w \in Writers, NEW s \in Stamps, AppendBlock(w, s)
      PROVE  \/ BlocksOf(p)' = BlocksOf(p)
             \/ /\ w \in Claimants(p) /\ w \notin Claimants(p)'
                /\ BlocksOf(p)' = BlocksOf(p) \cup {Len(ledger) + 1}
  <2>1. PICK b \in Blocks : ledger' = Append(ledger, b) /\ b.header.packet = job[w].packet
    BY <1>2, AppendedBlock
  <2>2. Len(ledger') = Len(ledger) + 1 /\ ledger'[Len(ledger) + 1] = b
        /\ \A i \in 1..Len(ledger) : ledger'[i] = ledger[i]
    BY <1>0, <2>1
  <2>3. 1..Len(ledger') = 1..Len(ledger) \cup {Len(ledger) + 1}
    BY <1>0, <2>2
  <2>4. CASE job[w].packet = p
    <3>1. w \in Claimants(p)
      BY <1>2, <2>4 DEF AppendBlock, Claimants, Opened
    <3>2. w \notin Claimants(p)'
      BY <1>2 DEF AppendBlock, Goto, TypeOK, Claimants, Opened
    <3> QED BY <2>1, <2>2, <2>3, <2>4, <3>1, <3>2 DEF BlocksOf
  <2>5. CASE job[w].packet # p
    BY <2>1, <2>2, <2>3, <2>5 DEF BlocksOf
  <2> QED BY <2>4, <2>5
<1> QED BY <1>1, <1>2, LedgerStep

LEMMA BudgetStep ==
  ASSUME IsFiniteSet(Writers), HomeInv, WithinBudget, [Next]_vars
  PROVE  WithinBudget'
<1> SUFFICES ASSUME NEW p \in Packets, object'[p] # NoFile
             PROVE  Cardinality(BlocksOf(p)') + Cardinality(Claimants(p)') <= Cardinality(Writers)
  BY DEF WithinBudget, BlocksOf, Claimants, Opened
<1> USE DEF HomeInv
<1>0. TypeOK /\ ledger \in Seq(Blocks) /\ Len(ledger) \in Nat
  BY DEF TypeOK
<1>1. /\ IsFiniteSet(Claimants(p)') /\ Cardinality(Claimants(p)') <= Cardinality(Writers)
      /\ IsFiniteSet(Claimants(p))
  <2>1. Claimants(p)' \in SUBSET Writers /\ Claimants(p) \in SUBSET Writers
    BY DEF Claimants
  <2> QED BY <2>1, FS_Subset
<1>2. IsFiniteSet(BlocksOf(p))
  <2>1. IsFiniteSet(1..Len(ledger))
    BY <1>0, FS_Interval
  <2>2. BlocksOf(p) \in SUBSET (1..Len(ledger))
    BY DEF BlocksOf
  <2> QED BY <2>1, <2>2, FS_Subset
<1>3. /\ Cardinality(Claimants(p)') \in Nat /\ Cardinality(Claimants(p)) \in Nat
      /\ Cardinality(BlocksOf(p)) \in Nat /\ Cardinality(Writers) \in Nat
  BY <1>1, <1>2, FS_CardinalityType
<1>4. CASE object[p] = NoFile
  <2>1. p \notin Committed
    BY <1>4 DEF CommittedHaveFiles
  <2>2. BlocksOf(p) = {}
    BY <2>1 DEF BlocksOf, Committed, CommittedBy
  <2>3. BlocksOf(p)' = BlocksOf(p)
    <3>1. ASSUME NEW w \in Writers, NEW s \in Stamps, AppendBlock(w, s) PROVE FALSE
      BY <1>4, <3>1 DEF AppendBlock
    <3> QED BY <1>0, <3>1, BlocksOfStep
  <2>4. Cardinality(BlocksOf(p)') = 0
    BY <2>2, <2>3, FS_EmptySet
  <2> QED BY <1>1, <1>3, <2>4
<1>5. CASE object[p] # NoFile
  <2>1. Claimants(p)' \subseteq Claimants(p)
    BY <1>0, <1>5, ClaimantsShrink
  <2>2. Cardinality(BlocksOf(p)) + Cardinality(Claimants(p)) <= Cardinality(Writers)
    BY <1>5 DEF WithinBudget
  <2>3. CASE BlocksOf(p)' = BlocksOf(p)
    <3>1. Cardinality(Claimants(p)') <= Cardinality(Claimants(p))
      BY <1>1, <2>1, FS_Subset
    <3>2. Cardinality(BlocksOf(p)') = Cardinality(BlocksOf(p))
      BY <2>3
    <3> QED BY <1>3, <2>2, <3>1, <3>2
  <2>4. ASSUME NEW w \in Writers, w \in Claimants(p), w \notin Claimants(p)',
               BlocksOf(p)' = BlocksOf(p) \cup {Len(ledger) + 1}
        PROVE  Cardinality(BlocksOf(p)') + Cardinality(Claimants(p)') <= Cardinality(Writers)
    <3>1. Len(ledger) + 1 \notin BlocksOf(p)
      BY <1>0 DEF BlocksOf
    <3>2. Cardinality(BlocksOf(p)') = Cardinality(BlocksOf(p)) + 1
      BY <1>2, <2>4, <3>1, FS_AddElement
    <3>3. /\ IsFiniteSet(Claimants(p) \ {w})
          /\ Cardinality(Claimants(p) \ {w}) = Cardinality(Claimants(p)) - 1
      BY <1>1, <2>4, FS_RemoveElement
    <3>4. Claimants(p)' \in SUBSET (Claimants(p) \ {w})
      BY <2>1, <2>4
    <3>5. Cardinality(Claimants(p)') <= Cardinality(Claimants(p) \ {w})
      BY <3>3, <3>4, FS_Subset
    <3> QED BY <1>3, <2>2, <3>2, <3>3, <3>5
  <2> QED BY <1>0, <2>3, <2>4, BlocksOfStep
<1> QED BY <1>4, <1>5

\* A packet gets at most one block per writer, however often it is submitted
\* and whatever overlaps.
THEOREM CommitsAreBounded ==
  ASSUME IsFiniteSet(Writers)
  PROVE  Spec => []CommitsBounded
<1> DEFINE BudgetInv == HomeInv /\ WithinBudget
<1>1. Init => BudgetInv
  BY InvInit DEF Init, WithinBudget
<1>2. BudgetInv /\ [Next]_vars => BudgetInv'
  BY InvStep, BudgetStep
<1>3. ASSUME BudgetInv PROVE CommitsBounded
  <2> SUFFICES ASSUME NEW p \in Packets
               PROVE  Cardinality(BlocksOf(p)) <= Cardinality(Writers)
    BY DEF CommitsBounded, BlocksOf
  <2>1. Cardinality(Writers) \in Nat /\ IsFiniteSet(Claimants(p))
        /\ IsFiniteSet(BlocksOf(p))
    <3>1. Claimants(p) \in SUBSET Writers /\ BlocksOf(p) \in SUBSET (1..Len(ledger))
      BY DEF Claimants, BlocksOf
    <3>2. IsFiniteSet(1..Len(ledger))
      <4>1. Len(ledger) \in Int
        BY <1>3 DEF HomeInv, TypeOK
      <4> QED BY <4>1, FS_Interval
    <3> QED BY <3>1, <3>2, FS_Subset, FS_CardinalityType
  <2>2. Cardinality(Claimants(p)) \in Nat /\ Cardinality(BlocksOf(p)) \in Nat
    BY <2>1, FS_CardinalityType
  <2>3. CASE object[p] # NoFile
    BY <1>3, <2>1, <2>2, <2>3 DEF WithinBudget
  <2>4. CASE object[p] = NoFile
    <3>1. BlocksOf(p) = {}
      BY <1>3, <2>4 DEF HomeInv, CommittedHaveFiles, Committed, CommittedBy, BlocksOf
    <3> QED BY <2>1, <3>1, FS_EmptySet
  <2> QED BY <2>3, <2>4
<1>4. BudgetInv => CommitsBounded
  BY <1>3
<1> QED BY <1>1, <1>2, <1>4, PTL DEF Spec

-----------------------------------------------------------------------------
(* A home that one writer submits into, whatever it submits and whenever it  *)
(* dies.                                                                     *)

\* What the only writer read of the ledger is still the ledger.
TipsCurrent ==
  \A w \in Writers :
    pc[w] = "append" =>
      tip[w] = [height |-> Len(ledger), previous_hash |-> TipHash(ledger)]

ChainInv == TypeOK /\ ChainHolds /\ TipsCurrent

LEMMA ChainInit == Init => ChainInv
<1> SUFFICES ASSUME Init PROVE ChainInv
  OBVIOUS
<1>1. ledger = <<>> /\ 1..Len(ledger) = {}
  BY DEF Init
<1> QED BY <1>1, TypeInit DEF ChainInv, ChainHolds, LedgerVerifies, TipsCurrent, Init

LEMMA ChainStep ==
  ASSUME Solo, ChainInv, [Next]_vars
  PROVE  ChainInv'
<1> USE DEF ChainInv
<1>0. ledger \in Seq(Blocks) /\ Len(ledger) \in Nat
  BY DEF TypeOK
<1>1. TypeOK'
  BY TypeStep
<1>2. CASE /\ ledger' = ledger
           /\ \A w \in Writers :
                pc'[w] = "append" =>
                  \/ pc[w] = "append" /\ tip'[w] = tip[w]
                  \/ tip'[w] = [height |-> Len(ledger), previous_hash |-> TipHash(ledger)]
  BY <1>1, <1>2 DEF ChainHolds, TipsCurrent
<1>3. ASSUME NEW w \in Writers, NEW s \in Stamps, AppendBlock(w, s)
      PROVE  ChainHolds' /\ TipsCurrent'
  <2>1. PICK b \in Blocks : /\ ledger' = Append(ledger, b)
                            /\ b.header.height = tip[w].height
                            /\ b.previous_hash = tip[w].previous_hash
    BY <1>3, AppendedBlock
  <2>2. b.header.height = Len(ledger) /\ b.previous_hash = TipHash(ledger)
    BY <1>3, <2>1 DEF AppendBlock, TipsCurrent
  <2>3. Len(ledger') = Len(ledger) + 1 /\ ledger'[Len(ledger) + 1] = b
        /\ \A i \in 1..Len(ledger) : ledger'[i] = ledger[i]
    BY <1>0, <2>1
  <2>4. \A n \in 0..Len(ledger) : SubSeq(ledger', 1, n) = SubSeq(ledger, 1, n)
    BY <1>0, <2>1, PrefixOfAppend
  <2>5. ASSUME NEW i \in 1..Len(ledger')
        PROVE  /\ ledger'[i].header.height = i - 1
               /\ ledger'[i].previous_hash = TipHash(SubSeq(ledger', 1, i - 1))
    <3>1. SubSeq(ledger', 1, i - 1) = SubSeq(ledger, 1, i - 1)
      BY <1>0, <2>3, <2>4
    <3>2. CASE i \in 1..Len(ledger)
      BY <2>3, <3>1, <3>2 DEF ChainHolds, LedgerVerifies
    <3>3. CASE i = Len(ledger) + 1
      <4>1. SubSeq(ledger, 1, i - 1) = ledger
        BY <1>0, <3>3, WholePrefix
      <4>2. i - 1 = Len(ledger)
        BY <1>0, <3>3
      <4> QED BY <2>2, <2>3, <3>1, <3>3, <4>1, <4>2
    <3> QED BY <1>0, <2>3, <3>2, <3>3
  <2>6. ChainHolds'
    BY <2>5 DEF ChainHolds, LedgerVerifies, TipHash, BlockHash, Genesis
  <2>7. \A v \in Writers : pc'[v] # "append"
    BY <1>3 DEF AppendBlock, Goto, Solo, TypeOK
  <2> QED BY <2>6, <2>7 DEF TipsCurrent
<1> QED BY <1>1, <1>2, <1>3, LedgerStep

\* With one writer, Ledger.verify accepts the ledger at every instant.
THEOREM SoloChainHolds == ASSUME Solo PROVE Spec => []ChainHolds
<1>1. Init => ChainInv
  BY ChainInit
<1>2. ChainInv /\ [Next]_vars => ChainInv'
  BY ChainStep
<1>3. ChainInv => ChainHolds
  BY DEF ChainInv
<1> QED BY <1>1, <1>2, <1>3, PTL DEF Spec

-----------------------------------------------------------------------------
(* The admission log.                                                       *)

\* What the only writer knows of its packet: no file until it opens one, its
\* own text in the file once it has written, and no block before it appends.
WriterKnows ==
  \A w \in Writers :
    LET p == job[w].packet IN
    /\ pc[w] = "open" => object[p] = NoFile
    /\ pc[w] = "write" => object[p] = Torn
    /\ pc[w] \in {"blocks", "append"} => object[p] = job[w].receipt
    /\ pc[w] \in Opened => p \notin Committed

LogInv == HomeInv /\ WriterKnows

LEMMA LogInvStep ==
  ASSUME Solo, LogInv, [Next]_vars
  PROVE  LogInv'
<1> USE DEF LogInv
<1>t. TypeOK
  BY DEF HomeInv
<1>0. HomeInv'
  BY InvStep
<1>1. ASSUME NEW w \in Writers, NEW p \in Packets, NEW r \in Receipts, Submit(w, p, r)
      PROVE  WriterKnows'
  <2>1. \A v \in Writers : pc'[v] \in {"rejected", "exists"}
    BY <1>1, <1>t DEF Submit, Goto, Solo, TypeOK
  <2> QED BY <2>1 DEF WriterKnows, Opened
<1>2. ASSUME NEW w \in Writers, ReadExisting(w) \/ Crash(w)
      PROVE  WriterKnows'
  <2>1. \A v \in Writers : pc'[v] \in Returned
    BY <1>2, <1>t DEF ReadExisting, Crash, Goto, Solo, TypeOK, Returned, Answers
  <2> QED BY <2>1 DEF WriterKnows, Opened, Returned, Answers
<1>3. ASSUME NEW w \in Writers, PathExists(w)
      PROVE  WriterKnows'
  <2>1. \A v \in Writers : v = w
    BY DEF Solo
  <2>2. pc'[w] \in {"open", "read"} /\ job' = job /\ object' = object
        /\ (pc'[w] = "open" => object[job[w].packet] = NoFile)
    BY <1>3, <1>t DEF PathExists, Goto, TypeOK, files
  <2> QED BY <2>1, <2>2 DEF WriterKnows, Opened
<1>4. ASSUME NEW w \in Writers, OpenObject(w)
      PROVE  WriterKnows'
  <2>1. \A v \in Writers : v = w
    BY DEF Solo
  <2>2. job[w].packet \in Packets
    BY <1>4, <1>t, RunningHasJob DEF OpenObject, Running
  <2>3. job[w].packet \notin Committed
    BY <1>4 DEF OpenObject, WriterKnows, HomeInv, CommittedHaveFiles
  <2>4. pc'[w] = "write" /\ job' = job /\ object'[job[w].packet] = Torn /\ ledger' = ledger
    BY <1>4, <1>t, <2>2 DEF OpenObject, Goto, TypeOK
  <2>5. Committed' = Committed
    BY <2>4 DEF Committed, CommittedBy
  <2> QED BY <2>1, <2>3, <2>4, <2>5 DEF WriterKnows, Opened
<1>5. ASSUME NEW w \in Writers, WriteObject(w)
      PROVE  WriterKnows'
  <2>1. \A v \in Writers : v = w
    BY DEF Solo
  <2>2. job[w].packet \in Packets
    BY <1>5, <1>t, RunningHasJob DEF WriteObject, Running
  <2>3. object[job[w].packet] = Torn /\ job[w].packet \notin Committed
    BY <1>5 DEF WriteObject, WriterKnows, Opened
  <2>4. object' = [object EXCEPT ![job[w].packet] = job[w].receipt]
    BY <1>5, <2>3 DEF WriteObject
  <2>5. pc'[w] = "blocks" /\ job' = job /\ ledger' = ledger
        /\ object'[job[w].packet] = job[w].receipt
    BY <1>5, <1>t, <2>2, <2>4 DEF WriteObject, Goto, TypeOK
  <2>6. Committed' = Committed
    BY <2>5 DEF Committed, CommittedBy
  <2> QED BY <2>1, <2>3, <2>5, <2>6 DEF WriterKnows, Opened
<1>6. ASSUME NEW w \in Writers, ReadBlocks(w)
      PROVE  WriterKnows'
  <2>1. \A v \in Writers : v = w
    BY DEF Solo
  <2>2. pc[w] = "blocks" /\ pc'[w] = "append" /\ job' = job /\ object' = object
        /\ ledger' = ledger
    BY <1>6, <1>t DEF ReadBlocks, Goto, TypeOK, files
  <2>3. Committed' = Committed
    BY <2>2 DEF Committed, CommittedBy
  <2> QED BY <2>1, <2>2, <2>3 DEF WriterKnows, Opened
<1>7. ASSUME NEW w \in Writers, NEW s \in Stamps, AppendBlock(w, s)
      PROVE  WriterKnows'
  <2>1. \A v \in Writers : pc'[v] = "admissible"
    BY <1>7, <1>t DEF AppendBlock, Goto, Solo, TypeOK
  <2> QED BY <2>1 DEF WriterKnows, Opened
<1>8. CASE UNCHANGED vars
  BY <1>0, <1>8 DEF vars, files, locals, WriterKnows, Opened, Committed, CommittedBy
<1> QED BY <1>0, <1>1, <1>2, <1>3, <1>4, <1>5, <1>6, <1>7, <1>8 DEF Next, SubmitStep

\* The abstract state of a home.
Stored == [p \in Packets |-> IF object[p] = Torn THEN NoFile ELSE object[p]]
LogOf(blocks) == [i \in 1..Len(blocks) |-> blocks[i].header.packet]

\* One more block is one more packet in the log.
LEMMA LogOfAppend ==
  ASSUME NEW s \in Seq(Blocks), NEW b \in Blocks
  PROVE  LogOf(Append(s, b)) = Append(LogOf(s), b.header.packet)
<1> DEFINE t == Append(s, b)
           u == Append(LogOf(s), b.header.packet)
<1>0. t \in Seq(Blocks) /\ Len(s) \in Nat
  OBVIOUS
<1>1. Len(t) = Len(s) + 1 /\ t[Len(s) + 1] = b /\ \A i \in 1..Len(s) : t[i] = s[i]
  OBVIOUS
<1>2. \A i \in 1..Len(s) : s[i] \in Blocks
  OBVIOUS
<1>3. LogOf(s) \in Seq(Packets) /\ Len(LogOf(s)) = Len(s)
  BY <1>0, <1>1, <1>2 DEF LogOf, Blocks, Headers
<1>4. b.header.packet \in Packets
  BY DEF Blocks, Headers
<1>5. u \in Seq(Packets) /\ Len(u) = Len(s) + 1 /\ u[Len(s) + 1] = b.header.packet
      /\ \A i \in 1..Len(s) : u[i] = LogOf(s)[i]
  BY <1>0, <1>3, <1>4
<1>6. DOMAIN u = 1..Len(t) /\ u = [i \in DOMAIN u |-> u[i]]
  BY <1>0, <1>1, <1>5
<1>7. \A i \in 1..Len(t) : u[i] = t[i].header.packet
  BY <1>0, <1>1, <1>3, <1>5 DEF LogOf
<1> QED BY <1>6, <1>7 DEF LogOf

LEMMA AbstractInit == Init => Abstract!Init
<1> SUFFICES ASSUME Init PROVE Abstract!Init
  OBVIOUS
<1>1. \A p \in Packets : object[p] = NoFile /\ NoFile # Torn
  BY MarkersAssumption DEF Init
<1>2. [i \in 1..Len(ledger) |-> ledger[i].header.packet] = <<>>
  BY DEF Init
<1> QED BY <1>1, <1>2 DEF Abstract!Init

LEMMA AbstractStep ==
  ASSUME Solo, LogInv, [Next]_vars
  PROVE  [Abstract!Next]_(Abstract!vars)
<1> USE DEF LogInv
<1>t. TypeOK
  BY DEF HomeInv
<1>1. CASE object' = object /\ ledger' = ledger
  BY <1>1 DEF Abstract!vars
<1>2. ASSUME NEW w \in Writers, OpenObject(w)
      PROVE  UNCHANGED Abstract!vars
  <2>1. job[w].packet \in Packets
    BY <1>2, <1>t, RunningHasJob DEF OpenObject, Running
  <2>2. object[job[w].packet] = NoFile
    BY <1>2 DEF OpenObject, WriterKnows
  <2>3. object' = [object EXCEPT ![job[w].packet] = Torn] /\ ledger' = ledger
    BY <1>2 DEF OpenObject
  <2>4. Stored' = Stored
    BY <1>t, <2>1, <2>2, <2>3, MarkersAssumption DEF Stored, TypeOK
  <2> QED BY <2>3, <2>4 DEF Abstract!vars, Stored
<1>3. ASSUME NEW w \in Writers, WriteObject(w)
      PROVE  Abstract!Next
  <2>1. PICK p \in Packets, r \in Receipts : p = job[w].packet /\ r = job[w].receipt
    BY <1>3, <1>t, RunningHasJob DEF WriteObject, Running
  <2>2. object[p] = Torn
    BY <1>3, <2>1 DEF WriteObject, WriterKnows
  <2>3. object' = [object EXCEPT ![p] = r] /\ ledger' = ledger
    BY <1>3, <2>1, <2>2 DEF WriteObject
  <2>4. Stored[p] = NoFile
    BY <2>1, <2>2 DEF Stored
  <2>5. Stored' = [Stored EXCEPT ![p] = r]
    BY <1>t, <2>1, <2>3, MarkersAssumption DEF Stored, TypeOK
  <2>6. Abstract!Store(p, r)
    BY <2>3, <2>4, <2>5 DEF Abstract!Store, Stored
  <2> QED BY <2>6 DEF Abstract!Next
<1>4. ASSUME NEW w \in Writers, NEW s \in Stamps, AppendBlock(w, s)
      PROVE  Abstract!Next
  <2>1. PICK p \in Packets : p = job[w].packet /\ job[w].receipt \in Receipts
    BY <1>4, <1>t, RunningHasJob DEF AppendBlock, Running
  <2>2. Stored[p] # NoFile
    BY <1>4, <2>1, MarkersAssumption DEF AppendBlock, WriterKnows, Stored
  <2>3. p \notin Committed
    BY <1>4, <2>1 DEF AppendBlock, WriterKnows, Opened
  <2>4. PICK b \in Blocks : ledger' = Append(ledger, b) /\ b.header.packet = p
    BY <1>4, <1>t, <2>1, AppendedBlock
  <2>5. LogOf(ledger') = Append(LogOf(ledger), p)
    BY <1>t, <2>4, LogOfAppend DEF TypeOK
  <2>6. object' = object
    BY <1>4 DEF AppendBlock
  <2>7. Abstract!Logged = Committed
    <3>1. Len(LogOf(ledger)) = Len(ledger)
      BY <1>t DEF LogOf, TypeOK
    <3>2. \A i \in 1..Len(ledger) : LogOf(ledger)[i] = ledger[i].header.packet
      BY DEF LogOf
    <3> QED BY <3>1, <3>2 DEF Abstract!Logged, Committed, CommittedBy, LogOf
  <2>8. Abstract!Commit(p)
    BY <2>2, <2>3, <2>5, <2>6, <2>7 DEF Abstract!Commit, Stored, LogOf
  <2> QED BY <2>8 DEF Abstract!Next
<1>5. \/ object' = object /\ ledger' = ledger
      \/ \E w \in Writers : OpenObject(w) \/ WriteObject(w)
      \/ \E w \in Writers, s \in Stamps : AppendBlock(w, s)
  BY DEF Next, SubmitStep, Submit, PathExists, ReadExisting, ReadBlocks, Crash, vars, files
<1> QED BY <1>1, <1>2, <1>3, <1>4, <1>5

\* The home of one writer implements the admission log: every packet is
\* stored under one envelope, committed at most once and only when stored.
THEOREM SoloAdmitsAsPromised == ASSUME Solo PROVE Spec => AdmitsAsPromised
<1>1. Init => LogInv
  <2>1. Init => WriterKnows
    BY DEF Init, WriterKnows, Opened
  <2> QED BY <2>1, InvInit DEF LogInv
<1>2. LogInv /\ [Next]_vars => LogInv'
  BY LogInvStep
<1>3. LogInv /\ [Next]_vars => [Abstract!Next]_(Abstract!vars)
  BY AbstractStep
<1> QED BY <1>1, <1>2, <1>3, AbstractInit, PTL DEF Spec, AdmitsAsPromised, Abstract!Spec

-----------------------------------------------------------------------------
(* The audit, beside any number of writers.                                  *)

\* The first lines of the ledger.
FirstLines(n) == SubSeq(ledger, 1, n)

\* From Ledger.verify on, what the audit has seen of the ledger is a prefix of
\* what the file holds now.
AuditInv ==
  /\ AuditTypeOK
  /\ audit.stage \in {"ledger", "reported"} =>
       /\ audit.blocks <= Len(ledger)
       /\ audit.chained => LedgerVerifies(FirstLines(audit.blocks))
  /\ audit.stage = "reported" /\ audit.valid =>
       /\ audit.chained
       /\ CommittedBy(FirstLines(audit.blocks)) \subseteq audit.ids

\* Steps of the writers leave every prefix of the ledger as it was.
LEMMA PrefixesStay ==
  ASSUME TypeOK, [Next]_vars, NEW n \in Nat, n <= Len(ledger)
  PROVE  n <= Len(ledger') /\ FirstLines(n)' = FirstLines(n)
<1>0. ledger \in Seq(Blocks) /\ Len(ledger) \in Nat
  BY DEF TypeOK
<1>1. CASE ledger' = ledger
  BY <1>1 DEF FirstLines
<1>2. ASSUME NEW b \in Blocks, ledger' = Append(ledger, b)
      PROVE  n <= Len(ledger') /\ FirstLines(n)' = FirstLines(n)
  <2>1. Len(ledger') = Len(ledger) + 1
    BY <1>0, <1>2
  <2>2. n \in 0..Len(ledger)
    BY <1>0
  <2>3. SubSeq(ledger', 1, n) = SubSeq(ledger, 1, n)
    BY <1>0, <1>2, <2>2, PrefixOfAppend
  <2> QED BY <1>0, <2>1, <2>3 DEF FirstLines
<1>3. ledger' = ledger \/ \E b \in Blocks : ledger' = Append(ledger, b)
  BY LedgerStep, AppendedBlock
<1> QED BY <1>1, <1>2, <1>3

\* A prefix commits no more than the whole.
LEMMA PrefixCommits ==
  ASSUME ledger \in Seq(Blocks), NEW n \in Nat, n <= Len(ledger)
  PROVE  CommittedBy(FirstLines(n)) \subseteq Committed
<1>1. Len(FirstLines(n)) = n /\ \A i \in 1..n : FirstLines(n)[i] = ledger[i]
  BY DEF FirstLines
<1>2. 1..n \subseteq 1..Len(ledger)
  OBVIOUS
<1> QED BY <1>1, <1>2 DEF Committed, CommittedBy

LEMMA AuditInvInit == AuditInit => AuditInv
<1> SUFFICES ASSUME AuditInit PROVE AuditInv
  OBVIOUS
<1>1. TypeOK
  BY TypeInit DEF AuditInit
<1>2. audit = NoAudit /\ disturbed \in BOOLEAN
  BY DEF AuditInit
<1>3. audit.stage = "idle" /\ AuditTypeOK
  BY <1>1, <1>2 DEF AuditTypeOK, NoAudit, Stages
<1> QED BY <1>3 DEF AuditInv

LEMMA AuditInvStep == AuditInv /\ [AuditNext]_allVars => AuditInv'
<1> SUFFICES ASSUME AuditInv, [AuditNext]_allVars PROVE AuditInv'
  OBVIOUS
<1> USE DEF AuditInv, AuditTypeOK, Stages
<1>0. ledger \in Seq(Blocks) /\ Len(ledger) \in Nat
  BY DEF TypeOK
<1>1. CASE BeginVerify
  BY <1>1 DEF BeginVerify, NoAudit, InFlight, vars, files, locals, history, TypeOK
<1>2. ASSUME NEW p \in Packets, VerifyObject(p) PROVE AuditInv'
  BY <1>2 DEF VerifyObject, FirstLines, vars, files, locals, history, TypeOK
<1>3. CASE VerifyLedger
  <2>1. audit'.stage = "ledger" /\ audit'.blocks = Len(ledger)
        /\ audit'.chained = LedgerVerifies(ledger) /\ vars' = vars
    BY <1>3 DEF VerifyLedger, AuditInv
  <2>2. ledger' = ledger /\ TypeOK'
    BY <2>1 DEF vars, files, locals, history, TypeOK
  <2>3. FirstLines(Len(ledger)) = ledger
    BY <1>0, WholePrefix DEF FirstLines
  <2>4. SubSeq(ledger', 1, audit'.blocks) = ledger
    BY <2>1, <2>2, <2>3 DEF FirstLines
  <2>5. audit' \in [stage : Stages, todo : SUBSET Packets, ids : SUBSET Packets,
                   unreadable : BOOLEAN, chained : BOOLEAN, blocks : Nat,
                   valid : BOOLEAN]
    BY <1>0, <1>3 DEF VerifyLedger, LedgerVerifies
  <2>6. disturbed' \in BOOLEAN
    BY <1>3 DEF VerifyLedger
  <2>7. AuditTypeOK'
    BY <2>2, <2>5, <2>6
  <2>8. audit'.blocks <= Len(ledger')
    BY <1>0, <2>1, <2>2
  <2>9. audit'.chained => LedgerVerifies(SubSeq(ledger', 1, audit'.blocks))
    BY <2>1, <2>4
  <2> QED BY <2>1, <2>7, <2>8, <2>9 DEF FirstLines
<1>4. CASE CompareReferences
  <2>1. audit.stage = "ledger" /\ ledger' = ledger /\ TypeOK'
    BY <1>4 DEF CompareReferences, vars, files, locals, history, TypeOK
  <2>2. audit'.blocks = audit.blocks /\ audit'.chained = audit.chained
        /\ audit'.ids = audit.ids
        /\ audit'.valid = (audit.chained /\ ~audit.unreadable /\ Committed = audit.ids)
    BY <1>4 DEF CompareReferences
  <2>3. CommittedBy(FirstLines(audit.blocks)) \subseteq Committed
    BY <1>0, <2>1, PrefixCommits
  <2>4. AuditTypeOK'
    BY <1>4, <2>1 DEF CompareReferences
  <2> QED BY <2>1, <2>2, <2>3, <2>4 DEF FirstLines
<1>5. CASE Next /\ disturbed' = (disturbed \/ InFlight') /\ UNCHANGED audit
  <2>1. TypeOK'
    BY <1>5, TypeStep
  <2>2. audit.blocks <= Len(ledger) =>
          audit.blocks <= Len(ledger')
          /\ FirstLines(audit.blocks)' = FirstLines(audit.blocks)
    <3>1. SubSeq(ledger', 1, audit'.blocks) = SubSeq(ledger', 1, audit.blocks)
      BY <1>5
    <3>2. ASSUME NEW n \in Nat, n = audit.blocks, n <= Len(ledger)
          PROVE  n <= Len(ledger') /\ SubSeq(ledger', 1, n) = SubSeq(ledger, 1, n)
      BY <1>5, <3>2, PrefixesStay DEF FirstLines
    <3> QED BY <3>1, <3>2 DEF FirstLines
  <2>3. disturbed' \in BOOLEAN
    BY <1>5 DEF InFlight
  <2> QED BY <1>5, <2>1, <2>2, <2>3
<1>6. CASE UNCHANGED allVars
  BY <1>6 DEF allVars, auditVars, vars, files, locals, history, TypeOK, FirstLines
<1> QED BY <1>1, <1>2, <1>3, <1>4, <1>5, <1>6 DEF AuditNext, AuditStep

\* Whatever races with it, a "valid" audit has verified a true prefix of the
\* present ledger and has read every packet of that prefix.
THEOREM ValidAuditsAreSound == AuditSpec => []ValidIsSound
<1>1. AuditInv => ValidIsSound
  BY DEF AuditInv, ValidIsSound, FirstLines
<1> QED BY <1>1, AuditInvInit, AuditInvStep, PTL DEF AuditSpec

\* The audit only observes: beside it, the home does what it does alone.
THEOREM AuditOnlyObserves == AuditSpec => Spec
<1>1. AuditInit => Init
  BY DEF AuditInit
<1>2. [AuditNext]_allVars => [Next]_vars
  BY DEF AuditNext, AuditStep, BeginVerify, VerifyObject, VerifyLedger, CompareReferences,
         allVars
<1> QED BY <1>1, <1>2, PTL DEF AuditSpec, Spec

-----------------------------------------------------------------------------
(* The verdict of an audit that no submit of the one writer overlapped.      *)

\* What the only writer left behind when it was killed: a file, whole or torn,
\* that gets no block any more.  A torn file is being written, or left behind.
OrphansStay ==
  /\ \A p \in lost : object[p] # NoFile /\ p \notin Committed
  /\ \A w \in Writers : pc[w] \in Opened => job[w].packet \notin lost
  /\ \A p \in Packets :
       object[p] = Torn =>
         p \in lost \/ \E w \in Writers : pc[w] = "write" /\ job[w].packet = p

\* An undisturbed audit has read the files as they still are.
QuietAudit ==
  audit.stage # "idle" /\ ~disturbed =>
    /\ ~InFlight
    /\ audit.ids = {p \in Packets : object[p] \notin {NoFile, Torn}} \ audit.todo
    /\ audit.unreadable <=> \E p \in Packets \ audit.todo : object[p] = Torn
    /\ \A p \in audit.todo : object[p] # NoFile
    /\ audit.stage # "objects" => audit.todo = {} /\ audit.chained
    /\ audit.stage = "reported" =>
         audit.valid = (audit.chained /\ ~audit.unreadable /\ Committed = audit.ids)

QuietInv == AuditTypeOK /\ ChainInv /\ LogInv /\ OrphansStay /\ QuietAudit

LEMMA OrphansStep ==
  ASSUME Solo, LogInv, OrphansStay, [Next]_vars
  PROVE  OrphansStay'
<1>t. TypeOK /\ OpenedHaveFiles
  BY DEF LogInv, HomeInv
<1>1. ASSUME NEW p \in lost' PROVE object'[p] # NoFile /\ p \notin Committed'
  <2>1. p \in Packets
    BY <1>t, TypeStep DEF TypeOK
  <2>2. CASE p \in lost
    <3>1. object'[p] # NoFile
      BY <1>t, <2>1, <2>2, ObjectStep DEF OrphansStay
    <3>2. ASSUME NEW w \in Writers, NEW s \in Stamps, AppendBlock(w, s)
          PROVE  job[w].packet # p
      BY <2>2, <3>2 DEF AppendBlock, Opened, OrphansStay
    <3> QED BY <1>t, <2>2, <3>1, <3>2, CommittedStep DEF OrphansStay
  <2>3. ASSUME p \notin lost, NEW w \in Writers, Crash(w)
        PROVE  object'[p] # NoFile /\ p \notin Committed'
    <3>1. pc[w] \in Opened /\ p = job[w].packet /\ object' = object /\ ledger' = ledger
      BY <2>3 DEF Crash, files
    <3>2. object[p] # NoFile /\ p \notin Committed
      BY <1>t, <3>1 DEF OpenedHaveFiles, LogInv, WriterKnows
    <3> QED BY <3>1, <3>2 DEF Committed, CommittedBy
  <2>4. lost' = lost \/ \E w \in Writers : Crash(w)
    BY DEF Next, SubmitStep, Submit, PathExists, ReadExisting, OpenObject, WriteObject,
           ReadBlocks, AppendBlock, vars, history
  <2> QED BY <2>2, <2>3, <2>4
<1>2. ASSUME NEW w \in Writers, pc'[w] \in Opened PROVE job'[w].packet \notin lost'
  <2>1. lost' = lost
    <3>1. ASSUME NEW v \in Writers, Crash(v) PROVE FALSE
      BY <1>t, <1>2, <3>1 DEF Crash, Goto, Solo, TypeOK, Opened
    <3> QED BY <3>1 DEF Next, SubmitStep, Submit, PathExists, ReadExisting, OpenObject,
               WriteObject, ReadBlocks, AppendBlock, vars, history
  <2>2. CASE pc[w] \in Opened /\ job'[w] = job[w]
    BY <2>1, <2>2 DEF OrphansStay
  <2>3. CASE OpenObject(w)
    <3>1. object[job[w].packet] = NoFile /\ job' = job
      BY <2>3 DEF OpenObject, LogInv, WriterKnows
    <3> QED BY <2>1, <3>1 DEF OrphansStay
  <2> QED BY <1>t, <1>2, <2>2, <2>3, OpenedBefore
<1>3. ASSUME NEW p \in Packets, object'[p] = Torn
      PROVE  p \in lost' \/ \E w \in Writers : pc'[w] = "write" /\ job'[w].packet = p
  <2> DEFINE Goal == p \in lost' \/ \E w \in Writers : pc'[w] = "write" /\ job'[w].packet = p
  <2>0. object[p] = Torn => p \in lost \/ \E w \in Writers : pc[w] = "write" /\ job[w].packet = p
    BY DEF OrphansStay
  <2>1. ASSUME NEW w \in Writers, NEW q \in Packets, NEW r \in Receipts, Submit(w, q, r)
        PROVE  Goal
    BY <1>t, <1>3, <2>0, <2>1 DEF Submit, Goto, TypeOK, files, history, Returned, Answers
  <2>2. ASSUME NEW w \in Writers, PathExists(w) \/ ReadExisting(w) \/ ReadBlocks(w)
        PROVE  Goal
    BY <1>t, <1>3, <2>0, <2>2 DEF PathExists, ReadExisting, ReadBlocks, Goto, TypeOK, files,
       history
  <2>3. ASSUME NEW w \in Writers, OpenObject(w) PROVE Goal
    BY <1>t, <1>3, <2>0, <2>3 DEF OpenObject, Goto, TypeOK, history
  <2>4. ASSUME NEW w \in Writers, WriteObject(w) PROVE Goal
    <3>1. job[w].packet \in Packets /\ job[w].receipt \in Receipts
      BY <1>t, <2>4, RunningHasJob DEF WriteObject, Running
    <3>2. object[job[w].packet] = Torn
      BY <2>4 DEF WriteObject, LogInv, WriterKnows
    <3>3. object' = [object EXCEPT ![job[w].packet] = job[w].receipt] /\ lost' = lost
      BY <2>4, <3>2 DEF WriteObject, history
    <3>4. p # job[w].packet /\ object[p] = Torn
      BY <1>t, <1>3, <3>1, <3>3, MarkersAssumption DEF TypeOK
    <3>5. p \in lost
      BY <2>0, <3>4 DEF Solo
    <3> QED BY <3>3, <3>5
  <2>5. ASSUME NEW w \in Writers, NEW s \in Stamps, AppendBlock(w, s) PROVE Goal
    BY <1>t, <1>3, <2>0, <2>5 DEF AppendBlock, Goto, TypeOK, history
  <2>6. ASSUME NEW w \in Writers, Crash(w) PROVE Goal
    <3>1. object' = object /\ lost \subseteq lost'
          /\ (pc[w] \in Opened => job[w].packet \in lost')
      BY <2>6 DEF Crash, files
    <3> QED BY <1>3, <2>0, <3>1 DEF Solo, Opened
  <2>7. CASE UNCHANGED vars
    BY <1>3, <2>0, <2>7 DEF vars, files, locals, history
  <2> QED BY <2>1, <2>2, <2>3, <2>4, <2>5, <2>6, <2>7 DEF Next, SubmitStep
<1> QED BY <1>1, <1>2, <1>3 DEF OrphansStay

\* A writer that stays outside of submit leaves the files alone.
LEMMA QuietFiles ==
  ASSUME TypeOK, ~InFlight, ~InFlight', [Next]_vars
  PROVE  object' = object /\ ledger' = ledger /\ lost' = lost
<1>1. ASSUME NEW w \in Writers, SubmitStep(w) \/ Crash(w) PROVE FALSE
  BY <1>1 DEF SubmitStep, PathExists, ReadExisting, OpenObject, WriteObject, ReadBlocks,
     AppendBlock, Crash, InFlight, Running
<1>2. ASSUME NEW w \in Writers, NEW p \in Packets, NEW r \in Receipts, Submit(w, p, r)
      PROVE  object' = object /\ ledger' = ledger /\ lost' = lost
  BY <1>2 DEF Submit, files, history
<1> QED BY <1>1, <1>2 DEF Next, vars, files, history

LEMMA QuietStep ==
  ASSUME AuditTypeOK, ChainHolds, QuietAudit, [AuditNext]_allVars
  PROVE  QuietAudit'
<1>t. TypeOK /\ audit.todo \subseteq Packets
  BY DEF AuditTypeOK
<1>1. CASE BeginVerify
  <2>1. /\ audit'.stage = "objects" /\ audit'.ids = {} /\ audit'.unreadable = FALSE
        /\ audit'.todo = {p \in Packets : object[p] # NoFile}
        /\ disturbed' = InFlight /\ UNCHANGED vars
    BY <1>1 DEF BeginVerify, NoAudit
  <2>2. object' = object /\ pc' = pc /\ InFlight' = InFlight
    BY <2>1 DEF vars, files, locals, InFlight
  <2>3. {p \in Packets : object[p] \notin {NoFile, Torn}} \ audit'.todo = {}
        /\ ~ \E p \in Packets \ audit'.todo : object[p] = Torn
    BY <2>1, MarkersAssumption
  <2> QED BY <2>1, <2>2, <2>3 DEF QuietAudit
<1>2. ASSUME NEW p \in Packets, VerifyObject(p) PROVE QuietAudit'
  <2>1. /\ audit.stage = "objects" /\ audit'.stage = "objects" /\ p \in audit.todo
        /\ audit'.todo = audit.todo \ {p}
        /\ audit'.ids = IF object[p] = Torn THEN audit.ids ELSE audit.ids \cup {p}
        /\ audit'.unreadable = IF object[p] = Torn THEN TRUE ELSE audit.unreadable
        /\ disturbed' = disturbed
    BY <1>2 DEF VerifyObject, AuditTypeOK
  <2>2. object' = object /\ InFlight' = InFlight
    BY <1>2 DEF VerifyObject, vars, files, locals, InFlight
  <2>3. ASSUME ~disturbed PROVE QuietAudit'
    <3>1. /\ ~InFlight /\ \A q \in audit.todo : object[q] # NoFile
          /\ audit.ids = {q \in Packets : object[q] \notin {NoFile, Torn}} \ audit.todo
          /\ audit.unreadable <=> \E q \in Packets \ audit.todo : object[q] = Torn
      BY <2>1, <2>3 DEF QuietAudit
    <3>2. audit'.ids = {q \in Packets : object[q] \notin {NoFile, Torn}} \ audit'.todo
      BY <2>1, <3>1
    <3>3. audit'.unreadable <=> \E q \in Packets \ audit'.todo : object[q] = Torn
      BY <2>1, <3>1
    <3> QED BY <2>1, <2>2, <3>1, <3>2, <3>3 DEF QuietAudit
  <2> QED BY <2>1, <2>3 DEF QuietAudit
<1>3. CASE VerifyLedger
  <2>1. /\ audit.stage = "objects" /\ audit'.stage = "ledger" /\ audit.todo = {}
        /\ audit'.todo = {} /\ audit'.ids = audit.ids
        /\ audit'.unreadable = audit.unreadable /\ audit'.chained = LedgerVerifies(ledger)
        /\ disturbed' = disturbed
    BY <1>3 DEF VerifyLedger, AuditTypeOK
  <2>2. object' = object /\ InFlight' = InFlight
    BY <1>3 DEF VerifyLedger, vars, files, locals, InFlight
  <2> QED BY <2>1, <2>2 DEF QuietAudit, ChainHolds
<1>4. CASE CompareReferences
  <2>1. /\ audit.stage = "ledger" /\ audit'.stage = "reported"
        /\ audit'.todo = audit.todo /\ audit'.ids = audit.ids
        /\ audit'.unreadable = audit.unreadable /\ audit'.chained = audit.chained
        /\ audit'.valid = (audit.chained /\ ~audit.unreadable /\ Committed = audit.ids)
        /\ disturbed' = disturbed
    BY <1>4 DEF CompareReferences, AuditTypeOK
  <2>2. object' = object /\ ledger' = ledger /\ InFlight' = InFlight
    BY <1>4 DEF CompareReferences, vars, files, locals, InFlight
  <2>3. Committed' = Committed
    BY <2>2 DEF Committed, CommittedBy
  <2> QED BY <2>1, <2>2, <2>3 DEF QuietAudit
<1>5. CASE Next /\ disturbed' = (disturbed \/ InFlight') /\ UNCHANGED audit
  <2>1. ASSUME ~disturbed', audit.stage # "idle" PROVE QuietAudit'
    <3>1. ~disturbed /\ ~InFlight' /\ ~InFlight
      BY <1>5, <2>1 DEF QuietAudit
    <3>2. object' = object /\ ledger' = ledger
      BY <1>t, <1>5, <3>1, QuietFiles
    <3>3. Committed' = Committed
      BY <3>2 DEF Committed, CommittedBy
    <3> QED BY <1>5, <2>1, <3>1, <3>2, <3>3 DEF QuietAudit
  <2> QED BY <1>5, <2>1 DEF QuietAudit
<1>6. CASE UNCHANGED allVars
  BY <1>6 DEF allVars, auditVars, vars, files, locals, QuietAudit, InFlight, Committed,
     CommittedBy
<1> QED BY <1>1, <1>2, <1>3, <1>4, <1>5, <1>6 DEF AuditNext, AuditStep

\* Beside one writer, an audit that no submit overlapped says exactly whether
\* some submit was killed between its file and its block.
LEMMA QuietIsExact == QuietInv => QuietVerdictExact
<1> SUFFICES ASSUME QuietInv, audit.stage = "reported", ~disturbed
             PROVE  audit.valid <=> lost = {}
  BY DEF QuietVerdictExact
<1>1. /\ ~InFlight /\ audit.chained /\ audit.todo = {}
      /\ audit.ids = {p \in Packets : object[p] \notin {NoFile, Torn}}
      /\ audit.unreadable <=> \E p \in Packets : object[p] = Torn
      /\ audit.valid = (audit.chained /\ ~audit.unreadable /\ Committed = audit.ids)
  BY DEF QuietInv, QuietAudit
<1>2. TypeOK /\ CommittedHaveFiles /\ UncommittedAccounted /\ OrphansStay
  BY DEF QuietInv, LogInv, HomeInv
<1>3. \A w \in Writers : pc[w] \notin Opened
  BY <1>1 DEF InFlight, Running, Opened
<1>4. ASSUME lost = {} PROVE audit.valid
  <2>1. \A p \in Packets : object[p] # Torn
    BY <1>2, <1>3, <1>4 DEF OrphansStay, Opened
  <2>2. \A p \in Packets : object[p] # NoFile => p \in Committed
    BY <1>2, <1>3, <1>4 DEF UncommittedAccounted
  <2>3. Committed \subseteq Packets
    <3>0. ledger \in Seq(Blocks)
      BY <1>2 DEF TypeOK
    <3>1. \A i \in 1..Len(ledger) : ledger[i].header.packet \in Packets
      <4>1. \A i \in 1..Len(ledger) : ledger[i] \in Blocks
        BY <3>0
      <4> QED BY <4>1 DEF Blocks, Headers
    <3> QED BY <3>1 DEF Committed, CommittedBy
  <2>4. Committed = audit.ids
    BY <1>1, <1>2, <2>1, <2>2, <2>3 DEF CommittedHaveFiles
  <2> QED BY <1>1, <2>1, <2>4
<1>5. ASSUME NEW p \in lost PROVE ~audit.valid
  <2>1. p \in Packets /\ object[p] # NoFile /\ p \notin Committed
    BY <1>2 DEF TypeOK, OrphansStay
  <2> QED BY <1>1, <2>1
<1> QED BY <1>4, <1>5

THEOREM QuietAuditsAreExact == ASSUME Solo PROVE AuditSpec => []QuietVerdictExact
<1>1. AuditInit => QuietInv
  <2> SUFFICES ASSUME AuditInit PROVE QuietInv
    OBVIOUS
  <2>1. Init /\ audit.stage = "idle"
    BY DEF AuditInit, NoAudit
  <2>2. AuditTypeOK
    BY AuditInvInit DEF AuditInv
  <2>3. WriterKnows
    BY <2>1 DEF Init, WriterKnows, Opened
  <2>4. OrphansStay
    BY <2>1, MarkersAssumption DEF Init, OrphansStay, Opened
  <2> QED BY <2>1, <2>2, <2>3, <2>4, ChainInit, InvInit DEF QuietInv, LogInv, QuietAudit
<1>2. QuietInv /\ AuditInv /\ [AuditNext]_allVars => QuietInv'
  <2> SUFFICES ASSUME QuietInv, AuditInv, [AuditNext]_allVars PROVE QuietInv'
    OBVIOUS
  <2>1. [Next]_vars
    BY DEF AuditNext, AuditStep, BeginVerify, VerifyObject, VerifyLedger, CompareReferences,
           allVars
  <2>2. AuditTypeOK'
    BY AuditInvStep DEF AuditInv
  <2>3. ChainInv' /\ LogInv' /\ OrphansStay'
    BY <2>1, ChainStep, LogInvStep, OrphansStep DEF QuietInv
  <2>4. QuietAudit'
    BY QuietStep DEF QuietInv, ChainInv
  <2> QED BY <2>2, <2>3, <2>4 DEF QuietInv
<1> QED BY <1>1, <1>2, QuietIsExact, AuditInvInit, AuditInvStep, PTL DEF AuditSpec
=============================================================================
