------------------------ MODULE ConstitutionStore_proofs ------------------------
(* What a root of constitutions keeps for every number of processes,         *)
(* manifests, commands and kills.                                            *)
EXTENDS ConstitutionStore, FiniteSetTheorems, WellFoundedInduction, TLAPS

-----------------------------------------------------------------------------
(* The inductive invariant: what files hold, what a process between two     *)
(* steps knows, and that a file has one writer unless `overlapped` says so.  *)

Labels == {"idle", "opening", "writing", "installing", "initializing",
           "preferring", "asking", "recording"}

Locals ==
  [pc : Labels, file : File \cup {None}, text : Text \cup {None}, todo : Seq(Manifest),
   checked : BOOLEAN, init : Manifest \cup {None}, id : Identity \cup {None},
   found : Manifest \cup {None}, topic : Topic \cup {None}, runtime : Runtime \cup {None},
   accepted : SUBSET Manifest]

FilesOK ==
  /\ files \in [File -> Text \cup {None, Torn}]
  /\ files[IdentityFile] \in Identity \cup {None, Torn}
  /\ files[ActiveFile] \in shown \cup {None, Torn}
  /\ \A f \in Paths : files[f] \in {m \in shown : Path[m] = f} \cup {None, Torn}

HistoryOK ==
  /\ reported \subseteq [identity : Identity, constitution : shown]
  /\ shown \subseteq Manifest
  /\ overlapped \cup damaged \subseteq File /\ crossed \subseteq Paths
  /\ commands \in 0..MaxCommands /\ crashes \in 0..MaxCrashes

Writing(l) == l.pc \in {"opening", "writing"}

\* What is written where, and for which command.  S is what has been shown.
WritesOK(l, S) ==
  /\ ~Writing(l) => l.file = None
  /\ Writing(l) =>
       \/ /\ l.file = IdentityFile /\ l.text = l.id /\ l.init # None /\ l.todo = <<>>
       \/ /\ l.file = ActiveFile /\ l.text = l.init /\ l.init \in S /\ l.todo = <<>>
          /\ l.found \in {None, l.init}
       \/ /\ l.todo # <<>> /\ l.text = Head(l.todo) /\ l.file = Path[l.text]

InitOK(l, S) ==
  /\ l.init # None => l.id \in Identity /\ ~l.checked
  /\ l.pc = "initializing" => l.init # None /\ l.todo = <<>>
  /\ l.pc \in {"preferring", "asking"} => l.init = None /\ ~l.checked
  /\ l.init # None /\ l.todo # <<>> => l.todo = <<l.init>>
  /\ l.init # None /\ l.todo = <<>> /\ l.pc = "installing" => l.init \in S

\* A suitable constitution that is accepted, its file not in O, the overlapped.
Preferable(l, O) ==
  \E m \in l.accepted : Suits(m, l.topic, l.runtime) /\ Path[m] \notin O

ChoiceOK(l, S, O) ==
  /\ l.accepted \subseteq S
  /\ l.pc = "asking" /\ Preferable(l, O) => l.found \in l.accepted
  /\ l.pc = "recording" =>
       /\ l.found \in Manifest /\ Suits(l.found, l.topic, l.runtime)
       /\ Preferable(l, O) => l.found \in l.accepted \/ Path[l.found] \in O

LocalOK(l, S, O) == WritesOK(l, S) /\ InitOK(l, S) /\ ChoiceOK(l, S, O)

RequestOK(r, S, O) ==
  /\ r.constitution \in S /\ Suits(r.constitution, r.topic, r.runtime)
  /\ Preferable(r, O) => r.constitution \in r.accepted \/ Path[r.constitution] \in O

\* A file that is being written holds what its only writer left there.
WriterOK(w) ==
  LET l == local[w] IN
  Writing(l) /\ l.file \notin overlapped =>
    /\ \A v \in Creating(l.file) : v = w
    /\ l.pc = "opening" /\ l.file # ActiveFile => files[l.file] = None
    /\ l.pc = "writing" => files[l.file] = Torn

\* An init that is about to pin the constitution, and what it has read before.
Pins(l) == l.init # None /\ l.pc \in {"installing", "opening", "writing"} /\ l.file # IdentityFile

PinningOK(w) ==
  LET l == local[w] IN
  Pins(l) /\ ActiveFile \notin overlapped =>
    /\ \A v \in Pinning : v = w
    /\ (l.file = ActiveFile /\ l.pc = "writing") \/ files[ActiveFile] = l.found

\* The identity an init goes on with is that of the home.
IdentityOK(w) ==
  LET l == local[w] IN
  l.init # None /\ l.file # IdentityFile =>
    files[IdentityFile] = l.id \/ IdentityFile \in overlapped

\* What a checked bundle still has to install is not in the way, or explained.
BundleOK(w) ==
  LET l == local[w] IN
  l.checked =>
    /\ OnePerVersion(l.todo)
    /\ \A i \in DOMAIN l.todo :
         LET f == Path[l.todo[i]] IN
         /\ Creating(f) \subseteq {w} \/ f \in crossed
         /\ \/ files[f] \in {None, l.todo[i]}
            \/ f \in crossed \cup damaged \cup overlapped \/ Creating(f) # {}

WorkersOK == \A w \in Worker : WriterOK(w) /\ PinningOK(w) /\ IdentityOK(w) /\ BundleOK(w)

\* A manifest that was found is the content of its version.
Kept(m) == files[Path[m]] = m \/ Path[m] \in overlapped
ShownKept == \A m \in shown : Kept(m)

OutcomeOK ==
  /\ \A r \in requests : RequestOK(r, shown, overlapped)
  /\ \A a \in admitted :
       a.under \in shown /\ About[a.packet] \in Covers[a.under] /\ a.packet \in Meets[a.under]

\* What an init has pinned is there, or being written again.
PinnedOK ==
  \A r \in reported :
    /\ files[IdentityFile] = r.identity \/ IdentityFile \in overlapped
    /\ \/ files[ActiveFile] = r.constitution \/ ActiveFile \in overlapped \cup damaged
       \/ \E w \in Creating(ActiveFile) :
            local[w].pc = "writing" /\ local[w].text = r.constitution

StoreInv ==
  /\ FilesOK /\ HistoryOK /\ OutcomeOK /\ PinnedOK
  /\ local \in [Worker -> Locals] /\ \A w \in Worker : LocalOK(local[w], shown, overlapped)
  /\ WorkersOK /\ ShownKept /\ TornExplained
-----------------------------------------------------------------------------
(* Constants and operators.                                                  *)

LEMMA Names ==
  /\ None \notin Manifest /\ Torn \notin Manifest /\ None \notin Identity
  /\ Torn \notin Identity /\ None # Torn /\ Manifest \cap Identity = {}
  /\ IdentityFile \notin Paths /\ ActiveFile \notin Paths /\ IdentityFile # ActiveFile
  /\ Paths \subseteq File /\ IdentityFile \in File /\ ActiveFile \in File
  /\ \A m \in Manifest : Path[m] \in Paths
  /\ None \notin File
BY StoreAssumption DEF Text, Paths, File

\* Manifests are finitely many, and so any of them have a highest version.
LEMMA HighestRank ==
  ASSUME NEW S \in SUBSET Manifest, S # {}
  PROVE  \E m \in S : \A n \in S : Rank[n] <= Rank[m]
<1> DEFINE Above(m) == {n \in S : Rank[n] > Rank[m]}
           T == {Above(m) : m \in S}
           R == StrictSubsetOrdering(S)
<1>1. IsFiniteSet(S)
  BY StoreAssumption, FS_Subset
<1>2. IsWellFoundedOn(R, SUBSET S)
  BY <1>1, FS_StrictSubsetOrderingWellFounded, FS_FiniteSubsetsOfFinite
<1>3. T \subseteq SUBSET S /\ T # {}
  OBVIOUS
<1>4. PICK U \in T : \A V \in T : ~ (<<V, U>> \in R)
  <2> HIDE DEF T, R
  <2> QED BY <1>2, <1>3, WFMin
<1>5. PICK m \in S : U = Above(m)
  BY <1>4
<1>6. \A n \in S : Rank[n] \in Nat
  BY StoreAssumption
<1>7. ASSUME NEW n \in S, ~(Rank[n] <= Rank[m]) PROVE FALSE
  <2>1. n \in Above(m) /\ n \notin Above(n)
    BY <1>6, <1>7
  <2>2. Above(n) \subseteq Above(m)
    BY <1>6, <1>7
  <2>3. <<Above(n), Above(m)>> \in R
    BY <2>1, <2>2 DEF StrictSubsetOrdering
  <2> QED BY <1>4, <1>5, <2>3
<1> QED BY <1>7

\* The choice is one of those offered, and accepted if any of them is.
LEMMA BestIsOffered ==
  ASSUME NEW S \in SUBSET Manifest, S # {}, NEW accepted
  PROVE  /\ Best(S, accepted) \in S
         /\ S \cap accepted # {} => Best(S, accepted) \in accepted
<1> DEFINE first == IF S \cap accepted # {} THEN S \cap accepted ELSE S
<1>1. first \in SUBSET Manifest /\ first # {}
  OBVIOUS
<1>2. \E m \in first : \A n \in first : Rank[n] <= Rank[m]
  BY <1>1, HighestRank
<1>3. Best(S, accepted) \in first
  BY <1>2 DEF Best
<1> QED BY <1>3

\* What the catalog lists is the content of its own version.
LEMMA CatalogReads ==
  ASSUME FilesOK, Readable, NEW m \in Catalog
  PROVE  m \in shown /\ files[Path[m]] = m
BY Names DEF FilesOK, Readable, Catalog

\* What a process knows survives what others show and overlap.
LEMMA LocalStays ==
  ASSUME NEW l, NEW S, NEW O, NEW S2, NEW O2, LocalOK(l, S, O), S \subseteq S2, O \subseteq O2
  PROVE  LocalOK(l, S2, O2)
BY DEF LocalOK, WritesOK, InitOK, ChoiceOK, Preferable

LEMMA RequestStays ==
  ASSUME NEW r, NEW S, NEW O, NEW S2, NEW O2, RequestOK(r, S, O), S \subseteq S2, O \subseteq O2
  PROVE  RequestOK(r, S2, O2)
BY DEF RequestOK, Preferable

\* The file of a process that writes one.
LEMMA WritesFile ==
  ASSUME StoreInv, NEW w \in Worker, Writing(local[w])
  PROVE  LET l == local[w] IN
         /\ l.file \in File /\ l.text \in Text /\ w \in Creating(l.file)
         /\ l.file = IdentityFile => l.text = l.id /\ l.id \in Identity /\ l.init # None
         /\ l.file = ActiveFile => l.text = l.init /\ l.init \in shown /\ l.found \in {None, l.init}
         /\ l.file \notin {IdentityFile, ActiveFile} =>
              /\ l.todo # <<>> /\ l.text = Head(l.todo)
              /\ l.text \in Manifest /\ l.file = Path[l.text] /\ l.file \in Paths
<1> DEFINE l == local[w]
<1>1. l \in Locals /\ WritesOK(l, shown) /\ InitOK(l, shown)
  BY DEF StoreInv, LocalOK
<1>2. w \in Creating(l.file)
  BY DEF Creating, Writing
<1>3. l.todo # <<>> => Head(l.todo) \in Manifest
  BY <1>1 DEF Locals
<1>4. shown \subseteq Manifest
  BY DEF StoreInv, HistoryOK
<1> QED BY <1>1, <1>2, <1>3, <1>4, Names DEF WritesOK, InitOK, Text

LEMMA BecomesLocal ==
  ASSUME local \in [Worker -> Locals], NEW w \in Worker, NEW y \in Locals, Becomes(w, y)
  PROVE  /\ local' \in [Worker -> Locals] /\ local'[w] = y
         /\ \A v \in Worker \ {w} : local'[v] = local[v]
BY DEF Becomes

-----------------------------------------------------------------------------
(* Steps that leave the files alone: w goes on as y, and whatever it may     *)
(* disturb by that is in a history already.                                  *)

HistoryGrows ==
  /\ shown \subseteq shown' /\ shown' \subseteq Manifest
  /\ overlapped \subseteq overlapped' /\ damaged \subseteq damaged' /\ crossed \subseteq crossed'
  /\ overlapped' \cup damaged' \subseteq File /\ crossed' \subseteq Paths
  /\ commands' \in 0..MaxCommands /\ crashes' \in 0..MaxCrashes

\* w becomes a creator of the file of y.
EntersFile(w, y) ==
  Writing(y) =>
    /\ Creating(y.file) \subseteq {w} \/ y.file \in overlapped'
    /\ y.file # ActiveFile => files[y.file] = None \/ y.file \in overlapped'
    /\ Awaiting(w, y.file) => y.file \in crossed'

EntersInit(w, y) ==
  /\ Pins(y) => \/ ActiveFile \in overlapped'
                \/ files[ActiveFile] = y.found /\ Pinning \subseteq {w}
  /\ y.init # None /\ y.file # IdentityFile =>
       files[IdentityFile] = y.id \/ IdentityFile \in overlapped'

EntersBundle(w, y) ==
  y.checked =>
    /\ OnePerVersion(y.todo)
    /\ \A i \in DOMAIN y.todo :
         LET f == Path[y.todo[i]] IN
         /\ Creating(f) \subseteq {w} \/ f \in crossed'
         /\ files[f] \in {None, y.todo[i]} \/ f \in crossed' \cup damaged' \cup overlapped'

Enters(w, y) ==
  /\ UNCHANGED <<files, reported, admitted>>
  /\ Becomes(w, y) /\ y \in Locals /\ y.pc # "writing" /\ LocalOK(y, shown', overlapped')
  /\ HistoryGrows
  /\ EntersFile(w, y) /\ EntersInit(w, y) /\ EntersBundle(w, y)
  /\ local[w].pc = "writing" => local[w].file \in damaged'
  /\ \A m \in shown' \ shown : files[Path[m]] = m
  /\ requests \subseteq requests'
  /\ \A r \in requests' \ requests : RequestOK(r, shown', overlapped')

\* Creating of any state of the processes.
Makers(loc, f) == {v \in Worker : loc[v].pc \in {"opening", "writing"} /\ loc[v].file = f}

LEMMA EnterStep ==
  ASSUME StoreInv, NEW w \in Worker, NEW y, Enters(w, y)
  PROVE  StoreInv'
<1>1. /\ local' \in [Worker -> Locals] /\ local'[w] = y
      /\ \A v \in Worker \ {w} : local'[v] = local[v]
  BY BecomesLocal DEF Enters, StoreInv
<1>2. files' = files /\ reported' = reported /\ admitted' = admitted /\ HistoryGrows
  BY DEF Enters
<1>3. ASSUME NEW f
      PROVE  /\ Makers(local', f) \subseteq Makers(local, f) \cup {w}
             /\ Makers(local, f) \subseteq Makers(local', f) \cup {w}
             /\ w \in Makers(local', f) => Writing(y) /\ y.file = f
  BY <1>1 DEF Makers, Writing
<1>4. ASSUME NEW f, NEW v \in Makers(local, f), local[v].pc = "writing"
      PROVE  \/ v \in Makers(local', f) /\ local'[v] = local[v]
             \/ f \in damaged'
  <2>1. CASE v = w
    BY <2>1, <1>4 DEF Makers, Enters
  <2>2. CASE v # w
    BY <2>2, <1>1, <1>4 DEF Makers
  <2> QED BY <2>1, <2>2
<1>5. FilesOK' /\ HistoryOK'
  BY <1>2 DEF StoreInv, FilesOK, HistoryOK, HistoryGrows
<1>6. OutcomeOK'
  <2>1. \A r \in requests : RequestOK(r, shown', overlapped')
    BY <1>2, RequestStays DEF StoreInv, OutcomeOK, HistoryGrows
  <2> QED BY <1>2, <2>1 DEF StoreInv, OutcomeOK, HistoryGrows, Enters
<1>7. PinnedOK'
  <2> SUFFICES ASSUME NEW r \in reported
               PROVE  /\ files[IdentityFile] = r.identity \/ IdentityFile \in overlapped'
                      /\ \/ files[ActiveFile] = r.constitution
                         \/ ActiveFile \in overlapped' \cup damaged'
                         \/ \E v \in Makers(local', ActiveFile) :
                              local'[v].pc = "writing" /\ local'[v].text = r.constitution
    BY <1>2 DEF PinnedOK, Creating, Makers
  <2>1. \/ files[ActiveFile] = r.constitution \/ ActiveFile \in overlapped \cup damaged
        \/ \E v \in Makers(local, ActiveFile) :
             local[v].pc = "writing" /\ local[v].text = r.constitution
    BY DEF StoreInv, PinnedOK, Creating, Makers
  <2>2. files[IdentityFile] = r.identity \/ IdentityFile \in overlapped
    BY DEF StoreInv, PinnedOK
  <2> QED BY <1>2, <1>4, <2>1, <2>2 DEF HistoryGrows
<1>8. \A v \in Worker : LocalOK(local'[v], shown', overlapped')
  BY <1>1, <1>2, LocalStays DEF StoreInv, HistoryGrows, Enters
<1>9. ASSUME NEW v \in Worker PROVE WriterOK(v)'
  <2> SUFFICES ASSUME Writing(local'[v]), local'[v].file \notin overlapped'
               PROVE  LET l == local'[v] IN
                      /\ \A u \in Makers(local', l.file) : u = v
                      /\ l.pc = "opening" /\ l.file # ActiveFile => files[l.file] = None
                      /\ l.pc = "writing" => files[l.file] = Torn
    BY <1>2 DEF WriterOK, Creating, Makers
  <2>1. CASE v = w
    <3>1. Makers(local, y.file) \subseteq {w} /\ (y.file # ActiveFile => files[y.file] = None)
      BY <1>1, <2>1 DEF Enters, EntersFile, Creating, Makers
    <3> QED BY <1>1, <1>3, <2>1, <3>1 DEF Enters
  <2>2. CASE v # w
    <3> DEFINE f == local[v].file
    <3>1. local'[v] = local[v] /\ Writing(local[v]) /\ f \notin overlapped /\ f \notin overlapped'
      BY <1>1, <1>2, <2>2 DEF HistoryGrows
    <3>2. /\ v \in Makers(local, f) /\ \A u \in Makers(local, f) : u = v
          /\ local[v].pc = "opening" /\ f # ActiveFile => files[f] = None
          /\ local[v].pc = "writing" => files[f] = Torn
      BY <3>1 DEF WriterOK, StoreInv, WorkersOK, Creating, Makers, Writing
    <3>3. ASSUME w \in Makers(local', f) PROVE FALSE
      <4>1. Writing(y) /\ y.file = f
        BY <1>3, <3>3
      <4> QED BY <2>2, <3>1, <3>2, <4>1 DEF Enters, EntersFile, Creating, Makers
    <3> QED BY <1>3, <3>1, <3>2, <3>3
  <2> QED BY <2>1, <2>2
<1>10. ASSUME NEW v \in Worker PROVE PinningOK(v)'
  <2>1. \A u \in Worker : u \in Pinning <=> Pins(local[u])
    BY DEF Pinning, Pins
  <2>2. Pinning' \subseteq Worker /\ \A u \in Worker : u \in Pinning' <=> Pins(local'[u])
    BY DEF Pinning, Pins
  <2>3. CASE v = w
    BY <1>1, <1>2, <2>1, <2>2, <2>3 DEF PinningOK, Enters, EntersInit
  <2>4. CASE v # w
    BY <1>1, <1>2, <2>1, <2>2, <2>4
    DEF PinningOK, Enters, EntersInit, StoreInv, WorkersOK, HistoryGrows
  <2> QED BY <2>3, <2>4
<1>11. ASSUME NEW v \in Worker PROVE IdentityOK(v)'
  BY <1>1, <1>2 DEF IdentityOK, Enters, EntersInit, StoreInv, WorkersOK, HistoryGrows
<1>12. ASSUME NEW v \in Worker PROVE BundleOK(v)'
  <2> SUFFICES ASSUME local'[v].checked
               PROVE  /\ OnePerVersion(local'[v].todo)
                      /\ \A i \in DOMAIN local'[v].todo :
                           LET f == Path[local'[v].todo[i]] IN
                           /\ Makers(local', f) \subseteq {v} \/ f \in crossed'
                           /\ \/ files[f] \in {None, local'[v].todo[i]}
                              \/ f \in crossed' \cup damaged' \cup overlapped'
                              \/ Makers(local', f) # {}
    BY <1>2 DEF BundleOK, OnePerVersion, Creating, Makers
  <2>1. CASE v = w
    <3>1. OnePerVersion(y.todo)
      BY <1>1, <2>1 DEF Enters, EntersBundle
    <3>2. ASSUME NEW i \in DOMAIN y.todo
          PROVE  LET f == Path[y.todo[i]] IN
                 /\ Makers(local, f) \subseteq {w} \/ f \in crossed'
                 /\ files[f] \in {None, y.todo[i]} \/ f \in crossed' \cup damaged' \cup overlapped'
      BY <1>1, <2>1 DEF Enters, EntersBundle, Creating, Makers
    <3> QED BY <1>1, <1>3, <2>1, <3>1, <3>2
  <2>2. CASE v # w
    <3>1. local'[v] = local[v] /\ OnePerVersion(local[v].todo)
      BY <1>1, <2>2 DEF BundleOK, StoreInv, WorkersOK
    <3> SUFFICES ASSUME NEW i \in DOMAIN local[v].todo
                 PROVE  LET f == Path[local[v].todo[i]] IN
                        /\ Makers(local', f) \subseteq {v} \/ f \in crossed'
                        /\ \/ files[f] \in {None, local[v].todo[i]}
                           \/ f \in crossed' \cup damaged' \cup overlapped'
                           \/ Makers(local', f) # {}
      BY <3>1
    <3> DEFINE f == Path[local[v].todo[i]]
    <3>2. /\ Makers(local, f) \subseteq {v} \/ f \in crossed
          /\ \/ files[f] \in {None, local[v].todo[i]}
             \/ f \in crossed \cup damaged \cup overlapped \/ Makers(local, f) # {}
      BY <3>1 DEF BundleOK, StoreInv, WorkersOK, Creating, Makers
    <3>3. ASSUME w \in Makers(local', f) PROVE f \in crossed'
      <4>1. Writing(y) /\ y.file = f
        BY <1>3, <3>3
      <4>2. Awaiting(w, y.file)
        BY <2>2, <4>1 DEF Awaiting
      <4> QED BY <4>1, <4>2 DEF Enters, EntersFile
    <3>4. w \in Makers(local, f) => f \in crossed'
      BY <1>2, <2>2, <3>2 DEF HistoryGrows
    <3> HIDE DEF f
    <3>5. Makers(local', f) \subseteq {v} \/ f \in crossed'
      BY <1>2, <1>3, <3>2, <3>3 DEF HistoryGrows
    <3>6. Makers(local, f) # {} => Makers(local', f) # {} \/ f \in crossed'
      BY <1>3, <3>4
    <3> QED BY <1>2, <3>2, <3>5, <3>6 DEF HistoryGrows, f
  <2> QED BY <2>1, <2>2
<1>13. ShownKept'
  BY <1>2 DEF StoreInv, ShownKept, Kept, Enters, HistoryGrows
<1>14. TornExplained'
  <2> SUFFICES ASSUME NEW f \in File, files[f] = Torn
               PROVE  \/ f \in damaged' \cup overlapped'
                      \/ \E v \in Makers(local', f) : local'[v].pc = "writing"
    BY <1>2 DEF TornExplained, Creating, Makers
  <2>1. \/ f \in damaged \cup overlapped
        \/ \E v \in Makers(local, f) : local[v].pc = "writing"
    BY DEF StoreInv, TornExplained, Creating, Makers
  <2> QED BY <1>2, <1>4, <2>1 DEF HistoryGrows
<1> QED BY <1>1, <1>5, <1>6, <1>7, <1>8, <1>9, <1>10, <1>11, <1>12, <1>13, <1>14
        DEF StoreInv, WorkersOK

-----------------------------------------------------------------------------
(* The steps of that kind.                                                   *)

LEMMA Bounds ==
  ASSUME StoreInv
  PROVE  /\ shown \subseteq Manifest /\ overlapped \cup damaged \subseteq File
         /\ crossed \subseteq Paths
         /\ commands \in 0..MaxCommands /\ crashes \in 0..MaxCrashes
         /\ MaxCommands \in Nat /\ MaxCrashes \in Nat
BY StoreAssumption DEF StoreInv, HistoryOK

LEMMA IdleFits ==
  /\ Idle \in Locals /\ ~Writing(Idle) /\ Idle.init = None /\ Idle.checked = FALSE
  /\ \A S, O : LocalOK(Idle, S, O)
BY DEF Idle, Locals, Labels, Writing, LocalOK, WritesOK, InitOK, ChoiceOK, Preferable

\* A process that ends, by itself or killed.
LEMMA EndStep ==
  ASSUME StoreInv, NEW w \in Worker, Becomes(w, Idle),
         UNCHANGED <<files, reported, admitted, overlapped, crossed, shown>>,
         damaged \subseteq damaged', damaged' \subseteq File,
         local[w].pc = "writing" => local[w].file \in damaged',
         commands' = commands, crashes' \in 0..MaxCrashes,
         requests \subseteq requests',
         \A r \in requests' \ requests : RequestOK(r, shown, overlapped)
  PROVE  StoreInv'
<1>1. HistoryGrows
  BY Bounds DEF HistoryGrows
<1>2. EntersFile(w, Idle) /\ EntersInit(w, Idle) /\ EntersBundle(w, Idle)
  BY IdleFits DEF EntersFile, EntersInit, EntersBundle, Pins
<1>3. Idle.pc # "writing"
  BY DEF Idle
<1>4. Enters(w, Idle)
  BY <1>1, <1>2, <1>3, IdleFits DEF Enters
<1> QED BY <1>4, EnterStep

LEMMA FailsStep ==
  ASSUME StoreInv, NEW w \in Worker, local[w].pc # "writing", Fails(w)
  PROVE  StoreInv'
BY EndStep, Bounds DEF Fails, Continues, outcome, history

LEMMA InstalledStep ==
  ASSUME StoreInv, NEW w \in Worker, Installed(w)
  PROVE  StoreInv'
BY EndStep, Bounds DEF Installed, Continues, outcome, history

LEMMA CrashStep ==
  ASSUME StoreInv, NEW w \in Worker, Crash(w)
  PROVE  StoreInv'
<1>1. local[w].pc = "writing" => local[w].file \in File
  BY WritesFile DEF Writing
<1>2. crashes' \in 0..MaxCrashes
  BY Bounds DEF Crash
<1> QED BY <1>1, <1>2, EndStep, Bounds DEF Crash, outcome

LEMMA RecordRequestStep ==
  ASSUME StoreInv, NEW w \in Worker, RecordRequest(w)
  PROVE  StoreInv'
<1> DEFINE me == local[w]
           r == [topic |-> me.topic, runtime |-> me.runtime,
                 constitution |-> me.found, accepted |-> me.accepted]
<1>1. CASE files[Path[me.found]] # me.found
  BY <1>1, FailsStep DEF RecordRequest
<1>2. CASE files[Path[me.found]] = me.found
  <2>1. me.pc = "recording" /\ ChoiceOK(me, shown, overlapped)
    BY DEF RecordRequest, StoreInv, LocalOK
  <2>2. me.found \in shown
    BY <1>2, <2>1, Names DEF ChoiceOK, StoreInv, FilesOK
  <2>3. Preferable(r, overlapped) <=> Preferable(me, overlapped)
    BY DEF Preferable
  <2>4. RequestOK(r, shown, overlapped)
    BY <2>1, <2>2, <2>3 DEF ChoiceOK, RequestOK
  <2>5. requests' = requests \cup {r}
    BY <1>2 DEF RecordRequest
  <2> HIDE DEF r
  <2>6. \A q \in requests' \ requests : RequestOK(q, shown, overlapped)
    BY <2>4, <2>5
  <2>7. /\ Becomes(w, Idle) /\ commands' = commands /\ local[w].pc # "writing"
        /\ UNCHANGED <<files, reported, admitted, overlapped, crossed, shown, damaged, crashes>>
    BY <1>2 DEF RecordRequest, Continues, history
  <2> QED BY <2>5, <2>6, <2>7, EndStep, Bounds
<1> QED BY <1>1, <1>2

\* A process goes on to create a file that it has not found.
LEMMA CreateStep ==
  ASSUME StoreInv, NEW w \in Worker, NEW l \in Locals, NEW f \in File, NEW text \in Text,
         Creates(w, l, f, text), local[w].pc # "writing",
         commands' \in 0..MaxCommands,
         f # ActiveFile => files[f] = None,
         LocalOK([l EXCEPT !.pc = "opening", !.file = f, !.text = text], shown, overlapped),
         EntersInit(w, [l EXCEPT !.pc = "opening", !.file = f, !.text = text]),
         EntersBundle(w, l)
  PROVE  StoreInv'
<1> DEFINE y == [l EXCEPT !.pc = "opening", !.file = f, !.text = text]
<1>1. /\ y \in Locals /\ y.pc = "opening" /\ y.file = f /\ y.checked = l.checked
      /\ y.todo = l.todo
  BY DEF Locals, Labels
<1>2. Becomes(w, y) /\ LocalOK(y, shown, overlapped) /\ EntersInit(w, y)
  BY DEF Creates
<1>3. /\ overlapped' = IF Creating(f) # {} THEN overlapped \cup {f} ELSE overlapped
      /\ crossed' = IF Awaiting(w, f) THEN crossed \cup {f} ELSE crossed
      /\ UNCHANGED <<files, requests, admitted, reported, crashes, damaged, shown>>
  BY DEF Creates, outcome
<1> HIDE DEF y
<1>4. Awaiting(w, f) => f \in Paths
  BY Names DEF Awaiting, StoreInv, Locals, Paths
<1>5. HistoryGrows
  BY <1>3, <1>4, Bounds DEF HistoryGrows
<1>6. EntersFile(w, y)
  BY <1>1, <1>3 DEF EntersFile
<1>7. EntersBundle(w, y)
  BY <1>1 DEF EntersBundle
<1>8. LocalOK(y, shown', overlapped')
  BY <1>2, <1>5, LocalStays DEF HistoryGrows
<1>9. Enters(w, y)
  BY <1>1, <1>2, <1>3, <1>5, <1>6, <1>7, <1>8 DEF Enters
<1> QED BY <1>9, EnterStep

\* What Begins and Continues have in common, for a step that creates nothing.
LEMMA GoOnStep ==
  ASSUME StoreInv, NEW w \in Worker, NEW y \in Locals, Becomes(w, y),
         local[w].pc # "writing", ~Writing(y), LocalOK(y, shown', overlapped'),
         UNCHANGED <<files, requests, admitted, reported, crashes, damaged>>,
         commands' \in 0..MaxCommands,
         shown \subseteq shown', shown' \subseteq Manifest,
         \A m \in shown' \ shown : files[Path[m]] = m,
         overlapped \subseteq overlapped', overlapped' \subseteq File,
         crossed \subseteq crossed', crossed' \subseteq Paths,
         EntersInit(w, y), EntersBundle(w, y)
  PROVE  StoreInv'
<1>1. HistoryGrows
  BY Bounds DEF HistoryGrows
<1>2. EntersFile(w, y) /\ y.pc # "writing"
  BY DEF EntersFile, Writing
<1>3. Enters(w, y)
  BY <1>1, <1>2 DEF Enters
<1> QED BY <1>3, EnterStep

LEMMA Counted ==
  ASSUME StoreInv, commands < MaxCommands, commands' = commands + 1
  PROVE  commands' \in 0..MaxCommands
BY Bounds

LEMMA InstallingFits ==
  ASSUME NEW b \in Seq(Manifest), NEW S, NEW O
  PROVE  LET y == [Idle EXCEPT !.pc = "installing", !.todo = b] IN
         y \in Locals /\ ~Writing(y) /\ LocalOK(y, S, O)
BY DEF Idle, Locals, Labels, Writing, LocalOK, WritesOK, InitOK, ChoiceOK, Preferable

LEMMA InstallStep ==
  ASSUME StoreInv, NEW w \in Worker, NEW m \in Manifest, Install(w, m)
  PROVE  StoreInv'
<1> DEFINE y == [Idle EXCEPT !.pc = "installing", !.todo = <<m>>]
<1>1. y \in Locals /\ ~Writing(y) /\ LocalOK(y, shown, overlapped)
  <2>1. <<m>> \in Seq(Manifest)
    OBVIOUS
  <2> QED BY <2>1, InstallingFits, Zenon
<1>2. EntersInit(w, y) /\ EntersBundle(w, y)
  BY DEF EntersInit, EntersBundle, Pins, Idle
<1>3. /\ Becomes(w, y) /\ local[w].pc = "idle" /\ commands' \in 0..MaxCommands
      /\ UNCHANGED <<files, requests, admitted, reported, crashes, damaged, shown, overlapped, crossed>>
  BY Counted DEF Install, Begins, outcome, history
<1> HIDE DEF y
<1> QED BY <1>1, <1>2, <1>3, GoOnStep, Bounds

LEMMA BundleStep ==
  ASSUME StoreInv, NEW w \in Worker, NEW b \in Bundles, BeginsBundle(w, b), OnePerVersion(b),
         \A i \in DOMAIN b : files[Path[b[i]]] \in {None, Torn, b[i]}
  PROVE  StoreInv'
<1> DEFINE y == [Idle EXCEPT !.pc = "installing", !.todo = b, !.checked = TRUE]
<1>1. y \in Locals /\ ~Writing(y) /\ LocalOK(y, shown, overlapped)
  BY StoreAssumption
  DEF Idle, Locals, Labels, Writing, LocalOK, WritesOK, InitOK, ChoiceOK, Preferable
<1>2. EntersInit(w, y)
  BY DEF EntersInit, Pins, Idle
<1>3. /\ Becomes(w, y) /\ local[w].pc = "idle" /\ commands' \in 0..MaxCommands
      /\ UNCHANGED <<files, requests, admitted, reported, crashes, damaged, shown, overlapped>>
  BY Counted DEF BeginsBundle, Begins, outcome
<1>4. crossed' = crossed \cup {f \in {Path[b[i]] : i \in DOMAIN b} : Creating(f) # {}}
  BY DEF BeginsBundle
<1>5. \A i \in DOMAIN b : Path[b[i]] \in Paths
  BY StoreAssumption, Names
<1>6. EntersBundle(w, y)
  <2>1. y.todo = b
    BY DEF Idle
  <2> SUFFICES ASSUME NEW i \in DOMAIN b
               PROVE  LET f == Path[b[i]] IN
                      /\ Creating(f) \subseteq {w} \/ f \in crossed'
                      /\ files[f] \in {None, b[i]} \/ f \in crossed' \cup damaged' \cup overlapped'
    BY <2>1 DEF EntersBundle
  <2> DEFINE f == Path[b[i]]
  <2>2. Creating(f) # {} => f \in crossed'
    BY <1>4
  <2>3. files[f] = Torn => f \in damaged \cup overlapped \/ Creating(f) # {}
    BY <1>5, Names DEF StoreInv, TornExplained
  <2> QED BY <1>3, <2>2, <2>3
<1> HIDE DEF y
<1>7. crossed \subseteq crossed' /\ crossed' \subseteq Paths
  BY <1>4, <1>5, Bounds
<1> QED BY <1>1, <1>2, <1>3, <1>6, <1>7, GoOnStep, Bounds

LEMMA InstallAllStep ==
  ASSUME StoreInv, NEW w \in Worker, NEW b \in Bundles, InstallAll(w, b)
  PROVE  StoreInv'
BY BundleStep DEF InstallAll

LEMMA ImportDirStep ==
  ASSUME StoreInv, NEW w \in Worker, NEW b \in Bundles, ImportDir(w, b)
  PROVE  StoreInv'
BY BundleStep DEF ImportDir

\* What a process that is installing has seen, and what is ahead of it.
LEMMA Ahead ==
  ASSUME StoreInv, NEW w \in Worker, local[w].pc = "installing"
  PROVE  LET l == local[w] IN
         /\ l \in Locals /\ l.file = None /\ LocalOK(l, shown, overlapped)
         /\ l.init # None =>
              /\ \/ ActiveFile \in overlapped
                 \/ files[ActiveFile] = l.found /\ Pinning \subseteq {w}
              /\ files[IdentityFile] = l.id \/ IdentityFile \in overlapped
         /\ l.checked =>
              /\ OnePerVersion(l.todo)
              /\ \A i \in DOMAIN l.todo :
                   LET f == Path[l.todo[i]] IN
                   /\ Creating(f) \subseteq {w} \/ f \in crossed
                   /\ files[f] \in {None, l.todo[i]} \/ f \in crossed \cup damaged \cup overlapped
<1> DEFINE l == local[w]
<1>1. l \in Locals /\ l.file = None /\ LocalOK(l, shown, overlapped)
  BY DEF StoreInv, LocalOK, WritesOK, Writing
<1>2. ASSUME l.init # None
      PROVE  /\ \/ ActiveFile \in overlapped
                \/ files[ActiveFile] = l.found /\ Pinning \subseteq {w}
             /\ files[IdentityFile] = l.id \/ IdentityFile \in overlapped
  <2>1. Pins(l) /\ l.file # IdentityFile
    BY <1>1, <1>2, Names DEF Pins
  <2> QED BY <1>1, <1>2, <2>1, Names DEF StoreInv, WorkersOK, PinningOK, IdentityOK
<1>3. \A f : w \notin Creating(f)
  BY DEF Creating
<1>4. BundleOK(w)
  BY DEF StoreInv, WorkersOK
<1> QED BY <1>1, <1>2, <1>3, <1>4 DEF BundleOK

\* The rest of the manifests, once the first is there.
LEMMA RestAhead ==
  ASSUME NEW todo \in Seq(Manifest), todo # <<>>
  PROVE  /\ Head(todo) \in Manifest /\ Tail(todo) \in Seq(Manifest) /\ todo[1] = Head(todo)
         /\ 1 \in DOMAIN todo
         /\ \A i \in DOMAIN Tail(todo) : i + 1 \in DOMAIN todo /\ Tail(todo)[i] = todo[i + 1]
         /\ OnePerVersion(todo) => OnePerVersion(Tail(todo))
<1>1. /\ Head(todo) \in Manifest /\ Tail(todo) \in Seq(Manifest) /\ todo[1] = Head(todo)
      /\ 1 \in DOMAIN todo
      /\ \A i \in DOMAIN Tail(todo) : i + 1 \in DOMAIN todo /\ Tail(todo)[i] = todo[i + 1]
  OBVIOUS
<1>2. \A i \in DOMAIN Tail(todo) : i \in Nat
  OBVIOUS
<1> QED BY <1>1, <1>2 DEF OnePerVersion

LEMMA TestFileStep ==
  ASSUME StoreInv, NEW w \in Worker, TestFile(w)
  PROVE  StoreInv'
<1> DEFINE me == local[w]
           m == Head(me.todo)
           f == Path[m]
<1>1. me.pc = "installing" /\ me.todo # <<>>
  BY DEF TestFile
<1>2. /\ me \in Locals /\ me.file = None /\ LocalOK(me, shown, overlapped)
      /\ me.todo \in Seq(Manifest) /\ m \in Manifest
  BY <1>1, Ahead, RestAhead DEF Locals
<1>3. CASE files[f] = None /\ Creates(w, me, f, m) /\ UNCHANGED commands
  <2> DEFINE y == [me EXCEPT !.pc = "opening", !.file = f, !.text = m]
  <2>1. f \in Paths /\ f \in File /\ f # IdentityFile /\ m \in Text
    BY <1>2, Names DEF Text
  <2>2. /\ y.pc = "opening" /\ y.file = f /\ y.text = m /\ y.todo = me.todo /\ y.init = me.init
        /\ y.id = me.id /\ y.found = me.found /\ y.checked = me.checked
        /\ y.accepted = me.accepted /\ y.topic = me.topic /\ y.runtime = me.runtime
    BY <1>2 DEF Locals
  <2> HIDE DEF y, f, m
  <2>3. LocalOK(y, shown, overlapped)
    BY <1>1, <1>2, <2>2 DEF LocalOK, WritesOK, InitOK, ChoiceOK, Preferable, Writing, f, m
  <2>4. overlapped \subseteq overlapped' /\ crossed \subseteq crossed' /\ damaged' = damaged
    BY <1>3 DEF Creates
  <2>5. EntersInit(w, y)
    BY <1>1, Ahead, <2>2, <2>4 DEF EntersInit, Pins
  <2>6. EntersBundle(w, me)
    BY <1>1, Ahead, <2>4 DEF EntersBundle
  <2>7. commands' \in 0..MaxCommands /\ local[w].pc # "writing"
    BY <1>1, <1>3, Bounds
  <2> QED BY <1>2, <1>3, <2>1, <2>3, <2>5, <2>6, <2>7, CreateStep, Zenon DEF y
<1>4. CASE /\ files[f] = m
           /\ Continues(w, [me EXCEPT !.todo = Tail(@)])
           /\ shown' = shown \cup {m}
           /\ UNCHANGED <<files, outcome, crashes, overlapped, crossed, damaged>>
  <2> DEFINE y == [me EXCEPT !.todo = Tail(@)]
  <2>1. /\ y \in Locals /\ ~Writing(y) /\ y.pc = me.pc /\ y.file = None
        /\ y.todo = Tail(me.todo) /\ y.init = me.init
        /\ y.id = me.id /\ y.found = me.found /\ y.checked = me.checked
        /\ y.accepted = me.accepted /\ y.topic = me.topic /\ y.runtime = me.runtime
    BY <1>1, <1>2, RestAhead DEF Locals, Writing
  <2> HIDE DEF y
  <2>2. me.init # None => me.init = m /\ y.todo = <<>>
    <3>1. \A i \in Manifest : Head(<<i>>) = i /\ Tail(<<i>>) = <<>>
      OBVIOUS
    <3>2. me.init # None => me.init \in Manifest /\ me.todo = <<me.init>>
      BY <1>1, <1>2 DEF LocalOK, InitOK, Locals
    <3> QED BY <2>1, <3>1, <3>2
  <2>3. WritesOK(y, shown') /\ InitOK(y, shown')
    BY <1>1, <1>2, <1>4, <2>1, <2>2 DEF LocalOK, WritesOK, InitOK
  <2>4. ChoiceOK(y, shown', overlapped')
    BY <1>1, <1>2, <1>4, <2>1 DEF LocalOK, ChoiceOK
  <2>5. EntersInit(w, y)
    <3>1. overlapped' = overlapped
      BY <1>4
    <3>2. /\ Pins(y) => y.init # None
          /\ y.init # None => \/ ActiveFile \in overlapped
                              \/ files[ActiveFile] = y.found /\ Pinning \subseteq {w}
          /\ y.init # None => files[IdentityFile] = y.id \/ IdentityFile \in overlapped
      BY <1>1, Ahead, <2>1 DEF Pins
    <3> QED BY <3>1, <3>2 DEF EntersInit
  <2>6. EntersBundle(w, y)
    <3>1. overlapped' = overlapped /\ crossed' = crossed /\ damaged' = damaged
      BY <1>4
    <3> SUFFICES ASSUME me.checked
                 PROVE  /\ OnePerVersion(Tail(me.todo))
                        /\ \A i \in DOMAIN Tail(me.todo) :
                             LET g == Path[Tail(me.todo)[i]] IN
                             /\ Creating(g) \subseteq {w} \/ g \in crossed
                             /\ \/ files[g] \in {None, Tail(me.todo)[i]}
                                \/ g \in crossed \cup damaged \cup overlapped
      BY <2>1, <3>1, Zenon DEF EntersBundle
    <3>2. /\ OnePerVersion(me.todo)
          /\ \A i \in DOMAIN me.todo :
               LET g == Path[me.todo[i]] IN
               /\ Creating(g) \subseteq {w} \/ g \in crossed
               /\ files[g] \in {None, me.todo[i]} \/ g \in crossed \cup damaged \cup overlapped
      BY <1>1, Ahead
    <3>3. /\ \A i \in DOMAIN Tail(me.todo) :
               i + 1 \in DOMAIN me.todo /\ Tail(me.todo)[i] = me.todo[i + 1]
          /\ OnePerVersion(me.todo) => OnePerVersion(Tail(me.todo))
      BY <1>1, <1>2, RestAhead
    <3> QED BY <3>2, <3>3
  <2>7. /\ Becomes(w, y) /\ commands' = commands
        /\ UNCHANGED <<files, requests, admitted, reported, crashes, damaged, overlapped, crossed>>
    BY <1>4 DEF Continues, outcome, y
  <2> QED BY <1>1, <1>2, <1>4, <2>1, <2>3, <2>4, <2>5, <2>6, <2>7, GoOnStep, Bounds DEF LocalOK
<1>5. CASE files[f] \notin {None, m} /\ Fails(w)
  BY <1>1, <1>5, FailsStep
<1> QED BY <1>3, <1>4, <1>5 DEF TestFile

LEMMA InitHomeStep ==
  ASSUME StoreInv, NEW w \in Worker, NEW m \in InitWith, InitHome(w, m)
  PROVE  StoreInv'
<1> DEFINE l == [Idle EXCEPT !.init = m]
<1>0. local[w].pc = "idle" /\ commands < MaxCommands /\ commands' = commands + 1
  BY Zenon DEF InitHome
<1>1. m \in Manifest /\ local[w].pc = "idle" /\ commands' \in 0..MaxCommands
  BY <1>0, StoreAssumption, Counted
<1>2. CASE /\ files[IdentityFile] = None
           /\ \E i \in Identity :
                Fresh(i) /\ Creates(w, [l EXCEPT !.id = i], IdentityFile, i)
  <2>1. PICK i \in Identity : Creates(w, [l EXCEPT !.id = i], IdentityFile, i)
    BY <1>2, Zenon
  <2> DEFINE k == [l EXCEPT !.id = i]
             y == [k EXCEPT !.pc = "opening", !.file = IdentityFile, !.text = i]
  <2>2. k \in Locals /\ k.checked = FALSE /\ i \in Text
    <3>1. <<>> \in Seq(Manifest)
      OBVIOUS
    <3> QED BY <1>1, <3>1 DEF Idle, Locals, Labels, Text
  <2>3. /\ y.pc = "opening" /\ y.file = IdentityFile /\ y.text = i /\ y.todo = <<>> /\ y.init = m
        /\ y.id = i /\ y.checked = FALSE /\ y.accepted = {}
    BY DEF Idle
  <2>4. Creates(w, k, IdentityFile, i)
    BY <2>1
  <2> HIDE DEF k
  <2>5. LocalOK(y, shown, overlapped)
    <3> HIDE DEF y
    <3> QED BY <1>1, <2>3, Names DEF LocalOK, WritesOK, InitOK, ChoiceOK, Preferable, Writing
  <2>6. EntersInit(w, y)
    <3> HIDE DEF y
    <3> QED BY <2>3 DEF EntersInit, Pins
  <2>7. EntersBundle(w, k)
    BY <2>2 DEF EntersBundle
  <2>8. local[w].pc # "writing" /\ IdentityFile \in File /\ files[IdentityFile] = None
    BY <1>1, <1>2, Names
  <2> QED BY <1>1, <2>2, <2>4, <2>5, <2>6, <2>7, <2>8, CreateStep, Zenon
<1>3. CASE /\ files[IdentityFile] \in Identity
           /\ Becomes(w, [l EXCEPT !.pc = "initializing", !.id = files[IdentityFile]])
           /\ UNCHANGED <<files, outcome, crashes, history>>
  <2> DEFINE y == [l EXCEPT !.pc = "initializing", !.id = files[IdentityFile]]
  <2>1. y \in Locals
    BY <1>1, <1>3, IdleFits DEF Locals, Labels
  <2>2. /\ y.pc = "initializing" /\ y.file = None /\ y.todo = <<>> /\ y.init = m
        /\ y.id = files[IdentityFile] /\ y.checked = FALSE /\ y.accepted = {}
    BY DEF Idle
  <2>3. Becomes(w, y)
    BY <1>3
  <2> HIDE DEF y
  <2>4. ~Writing(y) /\ LocalOK(y, shown, overlapped)
    BY <1>1, <1>3, <2>2, Names DEF LocalOK, WritesOK, InitOK, ChoiceOK, Preferable, Writing
  <2>5. EntersInit(w, y) /\ EntersBundle(w, y)
    BY <2>2 DEF EntersInit, EntersBundle, Pins
  <2>6. UNCHANGED <<files, requests, admitted, reported, crashes, damaged, shown, overlapped, crossed>>
    BY <1>3 DEF outcome, history
  <2> QED BY <1>1, <2>1, <2>3, <2>4, <2>5, <2>6, GoOnStep, Bounds
<1> QED BY <1>2, <1>3, Zenon DEF InitHome

LEMMA ReadActiveStep ==
  ASSUME StoreInv, NEW w \in Worker, ReadActive(w)
  PROVE  StoreInv'
<1> DEFINE me == local[w]
           y == [me EXCEPT !.pc = "installing", !.todo = <<me.init>>, !.found = files[ActiveFile]]
<1>1. me.pc = "initializing"
  BY DEF ReadActive
<1>2. /\ me \in Locals /\ me.file = None /\ LocalOK(me, shown, overlapped)
      /\ me.init # None /\ me.init \in Manifest /\ me.checked = FALSE /\ me.id \in Identity
  BY <1>1 DEF StoreInv, LocalOK, WritesOK, InitOK, Writing, Locals
<1>3. CASE files[ActiveFile] = Torn /\ Fails(w)
  BY <1>1, <1>3, FailsStep
<1>4. CASE /\ files[ActiveFile] # Torn
           /\ Continues(w, y)
           /\ overlapped' = IF Pinning # {} THEN overlapped \cup {ActiveFile} ELSE overlapped
           /\ UNCHANGED <<files, outcome, crashes, crossed, damaged, shown>>
  <2>1. files[ActiveFile] \in Manifest \cup {None} /\ <<me.init>> \in Seq(Manifest)
    BY <1>2, <1>4, Bounds DEF StoreInv, FilesOK
  <2>2. /\ y \in Locals /\ y.pc = "installing" /\ y.file = None /\ y.todo = <<me.init>>
        /\ y.init = me.init /\ y.id = me.id /\ y.found = files[ActiveFile]
        /\ y.checked = FALSE /\ y.accepted = me.accepted
    BY <1>2, <2>1 DEF Locals, Labels
  <2>3. Becomes(w, y) /\ commands' = commands /\ commands' \in 0..MaxCommands
    BY <1>4, Bounds DEF Continues
  <2>4. UNCHANGED <<files, requests, admitted, reported, crashes, damaged, shown, crossed>>
    BY <1>4 DEF outcome
  <2>5. overlapped \subseteq overlapped' /\ overlapped' \subseteq File
    BY <1>4, Bounds, Names
  <2> HIDE DEF y
  <2>6. <<me.init>> # <<>>
    OBVIOUS
  <2>7. ~Writing(y) /\ LocalOK(y, shown, overlapped)
    BY <1>2, <2>2, <2>6 DEF LocalOK, WritesOK, InitOK, ChoiceOK, Writing
  <2>8. LocalOK(y, shown', overlapped')
    BY <2>4, <2>5, <2>7, LocalStays
  <2>9. EntersInit(w, y)
    <3>1. IdentityOK(w) /\ me.file # IdentityFile
      BY <1>2, Names DEF StoreInv, WorkersOK
    <3>2. files[IdentityFile] = me.id \/ IdentityFile \in overlapped
      BY <1>2, <3>1 DEF IdentityOK
    <3> QED BY <1>4, <2>2, <2>5, <3>2 DEF EntersInit
  <2>10. EntersBundle(w, y)
    BY <2>2 DEF EntersBundle
  <2> QED BY <1>1, <2>2, <2>3, <2>4, <2>5, <2>7, <2>8, <2>9, <2>10, GoOnStep, Bounds
<1> QED BY <1>3, <1>4 DEF ReadActive

LEMMA PinStep ==
  ASSUME StoreInv, NEW w \in Worker, Pin(w)
  PROVE  StoreInv'
<1> DEFINE me == local[w]
           y == [me EXCEPT !.pc = "opening", !.file = ActiveFile, !.text = me.init]
<1>1. me.pc = "installing" /\ me.todo = <<>> /\ me.init # None
  BY DEF Pin
<1>2. CASE me.found \notin {None, me.init} /\ Fails(w)
  BY <1>1, <1>2, FailsStep
<1>3. CASE me.found \in {None, me.init} /\ Creates(w, me, ActiveFile, me.init) /\ UNCHANGED commands
  <2>1. /\ me \in Locals /\ LocalOK(me, shown, overlapped) /\ me.init \in shown
        /\ me.init \in Text /\ me.checked = FALSE
    BY <1>1, Ahead, Bounds DEF LocalOK, InitOK, Locals, Text
  <2>2. /\ y.pc = "opening" /\ y.file = ActiveFile /\ y.text = me.init /\ y.todo = <<>>
        /\ y.init = me.init /\ y.id = me.id /\ y.found = me.found /\ y.checked = FALSE
        /\ y.accepted = me.accepted
    BY <1>1, <2>1 DEF Locals
  <2>3. LocalOK(y, shown, overlapped)
    <3> HIDE DEF y
    <3> QED BY <1>1, <1>3, <2>1, <2>2 DEF LocalOK, WritesOK, InitOK, ChoiceOK, Writing
  <2>4. overlapped \subseteq overlapped'
    BY <1>3 DEF Creates
  <2>5. EntersInit(w, y)
    <3> HIDE DEF y
    <3>1. /\ \/ ActiveFile \in overlapped
             \/ files[ActiveFile] = me.found /\ Pinning \subseteq {w}
          /\ files[IdentityFile] = me.id \/ IdentityFile \in overlapped
      BY <1>1, Ahead
    <3> QED BY <2>2, <2>4, <3>1 DEF EntersInit
  <2>6. EntersBundle(w, me)
    BY <2>1 DEF EntersBundle
  <2>7. commands' \in 0..MaxCommands /\ me.pc # "writing" /\ ActiveFile \in File
    BY <1>1, <1>3, Bounds, Names
  <2> QED BY <1>3, <2>1, <2>3, <2>5, <2>6, <2>7, CreateStep, Zenon
<1> QED BY <1>2, <1>3 DEF Pin

-----------------------------------------------------------------------------
(* Discovery, and what it decides.                                           *)

\* What was found and kept is in the catalog.
LEMMA ShownIsListed ==
  ASSUME StoreInv, NEW m \in shown, Path[m] \notin overlapped
  PROVE  m \in Catalog
BY Names, Bounds DEF StoreInv, ShownKept, Kept, Catalog

LEMMA JoinStep ==
  ASSUME StoreInv, NEW w \in Worker, NEW topic \in Topic, NEW runtime \in Runtime,
         NEW accepts \in SUBSET Paths, Join(w, topic, runtime, accepts)
  PROVE  StoreInv'
<1> DEFINE A == {files[f] : f \in accepts}
           y == [Idle EXCEPT !.pc = "preferring", !.topic = topic, !.runtime = runtime,
                             !.accepted = A]
<1>1. ASSUME NEW m \in A PROVE m \in shown /\ files[Path[m]] = m
  BY Names DEF Join, StoreInv, FilesOK
<1>2. /\ local[w].pc = "idle" /\ commands' \in 0..MaxCommands /\ shown' = shown \cup A
      /\ Becomes(w, y)
      /\ UNCHANGED <<files, requests, admitted, reported, crashes, damaged, overlapped, crossed>>
  BY Counted DEF Join, Begins, outcome
<1>3. A \in SUBSET Manifest /\ A \subseteq shown
  BY <1>1, Bounds
<1> HIDE DEF A
<1>4. y \in Locals
  <2>1. <<>> \in Seq(Manifest)
    OBVIOUS
  <2> QED BY <1>3, <2>1 DEF Idle, Locals, Labels
<1>5. /\ y.pc = "preferring" /\ y.file = None /\ y.todo = <<>> /\ y.init = None
      /\ y.checked = FALSE /\ y.accepted = A
  BY DEF Idle
<1> HIDE DEF y
<1>6. ~Writing(y) /\ LocalOK(y, shown', overlapped')
  BY <1>2, <1>3, <1>5 DEF LocalOK, WritesOK, InitOK, ChoiceOK, Writing
<1>7. EntersInit(w, y) /\ EntersBundle(w, y)
  BY <1>5 DEF EntersInit, EntersBundle, Pins
<1>8. shown' = shown
  BY <1>2, <1>3
<1> QED BY <1>2, <1>4, <1>6, <1>7, <1>8, GoOnStep, Bounds

LEMMA AskStep ==
  ASSUME StoreInv, NEW w \in Worker, NEW topic \in Topic, NEW runtime \in Runtime,
         NEW exact \in Manifest \cup {None}, Ask(w, topic, runtime, exact)
  PROVE  StoreInv'
<1> DEFINE y == [Idle EXCEPT !.pc = "asking", !.topic = topic, !.runtime = runtime,
                             !.found = exact]
<1>1. y \in Locals
  <2>1. <<>> \in Seq(Manifest)
    OBVIOUS
  <2> QED BY <2>1 DEF Idle, Locals, Labels
<1>2. /\ y.pc = "asking" /\ y.file = None /\ y.todo = <<>> /\ y.init = None
      /\ y.checked = FALSE /\ y.accepted = {}
  BY DEF Idle
<1>3. /\ local[w].pc = "idle" /\ commands' \in 0..MaxCommands /\ Becomes(w, y)
      /\ UNCHANGED <<files, requests, admitted, reported, crashes, damaged, shown, overlapped, crossed>>
  BY Counted DEF Ask, Begins, outcome, history
<1> HIDE DEF y
<1>4. ~Writing(y) /\ LocalOK(y, shown, overlapped)
  BY <1>2 DEF LocalOK, WritesOK, InitOK, ChoiceOK, Preferable, Writing
<1>5. EntersInit(w, y) /\ EntersBundle(w, y)
  BY <1>2 DEF EntersInit, EntersBundle, Pins
<1> QED BY <1>1, <1>3, <1>4, <1>5, GoOnStep, Bounds

\* Between two steps of a discovery only what it has found changes.
LEMMA FoundStep ==
  ASSUME StoreInv, NEW w \in Worker, local[w].pc \in {"preferring", "asking"},
         NEW pc \in {"asking", "recording"}, NEW found \in Manifest \cup {None},
         Continues(w, [local[w] EXCEPT !.pc = pc, !.found = found]),
         UNCHANGED <<files, outcome, crashes, history>>,
         ChoiceOK([local[w] EXCEPT !.pc = pc, !.found = found], shown, overlapped)
  PROVE  StoreInv'
<1> DEFINE me == local[w]
           y == [me EXCEPT !.pc = pc, !.found = found]
<1>1. me \in Locals /\ me.file = None /\ me.init = None /\ me.checked = FALSE
  BY DEF StoreInv, LocalOK, WritesOK, InitOK, Writing, Locals
<1>2. y \in Locals
  BY <1>1 DEF Locals, Labels
<1>3. /\ y.pc = pc /\ y.file = None /\ y.init = None /\ y.checked = FALSE
  BY <1>1 DEF Locals
<1>4. /\ Becomes(w, y) /\ commands' \in 0..MaxCommands /\ me.pc # "writing"
      /\ UNCHANGED <<files, requests, admitted, reported, crashes, damaged, shown, overlapped, crossed>>
  BY Bounds DEF Continues, outcome, history
<1> HIDE DEF y
<1>5. ~Writing(y) /\ WritesOK(y, shown) /\ InitOK(y, shown)
  BY <1>3 DEF WritesOK, InitOK, Writing
<1>6. EntersInit(w, y) /\ EntersBundle(w, y)
  BY <1>3 DEF EntersInit, EntersBundle, Pins
<1>7. ChoiceOK(y, shown, overlapped)
  BY DEF y
<1> QED BY <1>2, <1>4, <1>5, <1>6, <1>7, GoOnStep, Bounds DEF LocalOK

LEMMA PreferStep ==
  ASSUME StoreInv, NEW w \in Worker, Prefer(w)
  PROVE  StoreInv'
<1> DEFINE me == local[w]
           best == IF Candidates(w) = {} THEN None ELSE Best(Candidates(w), me.accepted)
           y == [me EXCEPT !.pc = "asking", !.found = best]
<1>1. me.pc = "preferring" /\ me \in Locals /\ ChoiceOK(me, shown, overlapped)
  BY DEF Prefer, StoreInv, LocalOK
<1>2. CASE ~Readable
  BY <1>1, <1>2, FailsStep DEF Prefer
<1>3. CASE Readable
  <2>1. Continues(w, y) /\ UNCHANGED <<files, outcome, crashes, history>>
    BY <1>3 DEF Prefer
  <2>2. Candidates(w) \in SUBSET Manifest
    BY <1>3, CatalogReads, Bounds DEF Candidates, StoreInv
  <2>3. /\ best \in Manifest \cup {None}
        /\ Candidates(w) \cap me.accepted # {} => best \in me.accepted
    BY <2>2, BestIsOffered
  <2> HIDE DEF best
  <2>4. /\ y.pc = "asking" /\ y.found = best /\ y.accepted = me.accepted
        /\ y.topic = me.topic /\ y.runtime = me.runtime
    BY <1>1 DEF Locals
  <2>5. Preferable(me, overlapped) => Candidates(w) \cap me.accepted # {}
    BY <1>1, ShownIsListed DEF Preferable, ChoiceOK, Candidates
  <2>6. ChoiceOK(y, shown, overlapped)
    <3> HIDE DEF y
    <3>1. Preferable(y, overlapped) => Preferable(me, overlapped)
      BY <2>4 DEF Preferable
    <3> QED BY <1>1, <2>3, <2>4, <2>5, <3>1 DEF ChoiceOK
  <2>7. me.pc \in {"preferring", "asking"} /\ "asking" \in {"asking", "recording"}
    BY <1>1
  <2> QED BY <2>1, <2>3, <2>6, <2>7, FoundStep, Zenon
<1> QED BY <1>2, <1>3

LEMMA ChooseGuidanceStep ==
  ASSUME StoreInv, NEW w \in Worker, ChooseGuidance(w)
  PROVE  StoreInv'
<1> DEFINE me == local[w]
           named == IF me.found = None THEN Candidates(w)
                    ELSE {m \in Candidates(w) : Path[m] = Path[me.found]}
           best == Best(named, {})
           y == [me EXCEPT !.pc = "recording", !.found = best]
<1>1. me.pc = "asking" /\ me \in Locals /\ ChoiceOK(me, shown, overlapped)
  BY DEF ChooseGuidance, StoreInv, LocalOK
<1>2. CASE ~Readable \/ named = {}
  BY <1>1, <1>2, FailsStep DEF ChooseGuidance
<1>3. CASE Readable /\ named # {}
  <2>1. Continues(w, y) /\ UNCHANGED <<files, outcome, crashes, history>>
    BY <1>3 DEF ChooseGuidance
  <2>2. Candidates(w) \in SUBSET Manifest
    BY <1>3, CatalogReads, Bounds DEF Candidates, StoreInv
  <2>3. named \in SUBSET Manifest /\ best \in named
    BY <1>3, <2>2, BestIsOffered
  <2>4. /\ best \in Manifest /\ Suits(best, me.topic, me.runtime) /\ files[Path[best]] = best
        /\ me.found # None => Path[best] = Path[me.found]
    <3>1. best \in Candidates(w) /\ (me.found # None => Path[best] = Path[me.found])
      BY <2>3
    <3> HIDE DEF best
    <3> QED BY <1>3, <2>2, <3>1, CatalogReads DEF Candidates, StoreInv
  <2> HIDE DEF best
  <2>5. /\ y.pc = "recording" /\ y.found = best /\ y.accepted = me.accepted
        /\ y.topic = me.topic /\ y.runtime = me.runtime
    BY <1>1 DEF Locals
  <2>6. ASSUME Preferable(me, overlapped) PROVE best \in me.accepted \/ Path[best] \in overlapped
    <3>1. me.found \in me.accepted /\ me.found \in shown /\ me.found \in Manifest
      BY <1>1, <2>6, Bounds DEF ChoiceOK
    <3>2. Kept(me.found) /\ me.found # None
      BY <3>1, Names DEF StoreInv, ShownKept
    <3> QED BY <2>4, <3>1, <3>2 DEF Kept
  <2>7. ChoiceOK(y, shown, overlapped)
    <3> HIDE DEF y
    <3>1. Preferable(y, overlapped) => Preferable(me, overlapped)
      BY <2>5 DEF Preferable
    <3>2. Preferable(y, overlapped) => best \in me.accepted \/ Path[best] \in overlapped
      BY <2>6, <3>1
    <3> QED BY <1>1, <2>4, <2>5, <3>2 DEF ChoiceOK
  <2>8. /\ me.pc \in {"preferring", "asking"} /\ "recording" \in {"asking", "recording"}
        /\ best \in Manifest \cup {None}
    BY <1>1, <2>4
  <2> QED BY <2>1, <2>7, <2>8, FoundStep, Zenon
<1> QED BY <1>2, <1>3

\* Steps that change no process.
LEMMA QuietStep ==
  ASSUME StoreInv, UNCHANGED <<files, requests, reported, local, commands, crashes, overlapped,
                               crossed, damaged, shown>>,
         \A a \in admitted' \ admitted :
           a.under \in shown /\ About[a.packet] \in Covers[a.under] /\ a.packet \in Meets[a.under]
  PROVE  StoreInv'
<1>1. OutcomeOK'
  BY DEF StoreInv, OutcomeOK
<1>2. FilesOK' /\ HistoryOK' /\ PinnedOK' /\ WorkersOK' /\ ShownKept' /\ TornExplained'
  BY DEF StoreInv, FilesOK, HistoryOK, PinnedOK, WorkersOK, WriterOK, PinningOK, IdentityOK,
         BundleOK, Creating, Pinning, ShownKept, Kept, TornExplained
<1> QED BY <1>1, <1>2 DEF StoreInv

LEMMA ShowCatalogStep ==
  ASSUME StoreInv, ShowCatalog
  PROVE  StoreInv'
<1>1. shown' = shown
  BY CatalogReads DEF ShowCatalog, StoreInv
<1> QED BY <1>1, QuietStep DEF ShowCatalog, outcome

LEMMA ProposeStep ==
  ASSUME StoreInv, NEW p \in Packet, Propose(p)
  PROVE  StoreInv'
<1> DEFINE m == files[ActiveFile]
<1>1. m \in shown /\ About[p] \in Covers[m] /\ p \in Meets[m]
  BY Names DEF Propose, StoreInv, FilesOK
<1>2. \A a \in admitted' \ admitted : a = [packet |-> p, under |-> m]
  BY DEF Propose
<1> QED BY <1>1, <1>2, QuietStep DEF Propose, history

-----------------------------------------------------------------------------
(* Writing a file.  Unless it is overlapped, its writer has it for itself.   *)

LEMMA SoleWriter ==
  ASSUME StoreInv, NEW w \in Worker, Writing(local[w]), local[w].file \notin overlapped
  PROVE  LET l == local[w] IN
         /\ \A v \in Makers(local, l.file) : v = w
         /\ l.pc = "opening" /\ l.file # ActiveFile => files[l.file] = None
         /\ l.pc = "writing" => files[l.file] = Torn
         /\ l.pc = "opening" /\ l.file = ActiveFile => files[ActiveFile] = l.found
         /\ l.file = ActiveFile => \A v \in Worker : Pins(local[v]) => v = w
<1> DEFINE l == local[w]
<1>1. WriterOK(w) /\ PinningOK(w)
  BY DEF StoreInv, WorkersOK
<1>2. l.file = ActiveFile => Pins(l)
  <2>1. l.file = ActiveFile => l.init \in shown
    BY WritesFile
  <2> QED BY <2>1, Names, Bounds DEF Pins, Writing
<1>3. \A v \in Worker : v \in Pinning <=> Pins(local[v])
  BY DEF Pinning, Pins
<1> QED BY <1>1, <1>2, <1>3 DEF WriterOK, PinningOK, Makers, Creating

LEMMA OpenStep ==
  ASSUME StoreInv, NEW w \in Worker, Open(w)
  PROVE  StoreInv'
<1> DEFINE me == local[w]
           f == me.file
           y == [me EXCEPT !.pc = "writing"]
<1>1. /\ me.pc = "opening" /\ Writing(me) /\ me \in Locals /\ LocalOK(me, shown, overlapped)
      /\ Becomes(w, y) /\ files' = [files EXCEPT ![f] = Torn]
      /\ UNCHANGED <<requests, admitted, reported, commands, crashes, overlapped, crossed,
                     damaged, shown>>
  BY DEF Open, Continues, outcome, history, Writing, StoreInv
<1>2. /\ y \in Locals /\ Writing(y) /\ y.pc = "writing" /\ y.file = f /\ y.text = me.text
      /\ y.todo = me.todo /\ y.init = me.init /\ y.id = me.id /\ y.found = me.found
      /\ y.checked = me.checked /\ y.accepted = me.accepted
  BY <1>1 DEF Locals, Labels, Writing
<1> HIDE DEF y
<1>3. /\ local' \in [Worker -> Locals] /\ local'[w] = y
      /\ \A v \in Worker \ {w} : local'[v] = local[v]
  BY <1>1, <1>2, BecomesLocal DEF StoreInv
<1>4. f \in File /\ w \in Makers(local, f) /\ w \in Makers(local', f)
  BY <1>1, <1>2, <1>3, WritesFile DEF Makers, Writing
<1>5. \A g : Makers(local', g) = Makers(local, g)
  BY <1>1, <1>2, <1>3 DEF Makers
<1>6. \A v \in Worker : Pins(local'[v]) <=> Pins(local[v])
  BY <1>1, <1>2, <1>3 DEF Pins
<1>7. /\ files' \in [File -> Text \cup {None, Torn}] /\ files'[f] = Torn
      /\ \A g \in File \ {f} : files'[g] = files[g]
  BY <1>1, <1>4 DEF StoreInv, FilesOK
<1>8. f \notin overlapped =>
        /\ \A v \in Makers(local, f) : v = w
        /\ f # ActiveFile => files[f] = None
        /\ f = ActiveFile => files[f] = me.found /\ \A v \in Worker : Pins(local[v]) => v = w
  BY <1>1, SoleWriter
<1>8a. ASSUME NEW g, NEW v \in Makers(local, g), local[v].pc = "writing"
       PROVE  v \in Makers(local', g) /\ local'[v] = local[v]
  <2>1. v \in Worker \ {w}
    BY <1>1, <1>8a DEF Makers
  <2> QED BY <1>3, <1>5, <1>8a, <2>1
<1>9. FilesOK'
  BY <1>1, <1>7, Names DEF StoreInv, FilesOK
<1>10. HistoryOK' /\ OutcomeOK'
  BY <1>1 DEF StoreInv, HistoryOK, OutcomeOK
<1>11. PinnedOK'
  <2> SUFFICES ASSUME NEW r \in reported
               PROVE  /\ files'[IdentityFile] = r.identity \/ IdentityFile \in overlapped
                      /\ \/ files'[ActiveFile] = r.constitution
                         \/ ActiveFile \in overlapped \cup damaged
                         \/ \E v \in Makers(local', ActiveFile) :
                              local'[v].pc = "writing" /\ local'[v].text = r.constitution
    BY <1>1 DEF PinnedOK, Creating, Makers
  <2>1. /\ files[IdentityFile] = r.identity \/ IdentityFile \in overlapped
        /\ \/ files[ActiveFile] = r.constitution
           \/ ActiveFile \in overlapped \cup damaged
           \/ \E v \in Makers(local, ActiveFile) :
                local[v].pc = "writing" /\ local[v].text = r.constitution
    BY DEF StoreInv, PinnedOK, Creating, Makers
  <2>2. r.identity \in Identity /\ r.constitution \in Manifest
    BY Bounds DEF StoreInv, HistoryOK
  <2>3. files'[IdentityFile] = r.identity \/ IdentityFile \in overlapped
    BY <1>7, <1>8, <2>1, <2>2, Names
  <2>4. CASE f # ActiveFile
    <3>1. files'[ActiveFile] = files[ActiveFile]
      BY <1>7, <2>4, Names
    <3> QED BY <1>8a, <2>1, <2>3, <3>1
  <2>5. CASE f = ActiveFile /\ f \notin overlapped \cup damaged
    <3>1. files[ActiveFile] = r.constitution /\ files[ActiveFile] = me.found
      BY <1>1, <1>8, <2>1, <2>5
    <3>2. me.text = me.init /\ me.found \in {None, me.init}
      BY <1>1, <2>5, WritesFile
    <3>3. y.text = r.constitution
      BY <1>2, <2>2, <3>1, <3>2, Names
    <3> QED BY <1>2, <1>3, <1>4, <2>3, <2>5, <3>3
  <2> QED BY <2>3, <2>4, <2>5
<1>12. \A v \in Worker : LocalOK(local'[v], shown', overlapped')
  <2>1. LocalOK(y, shown, overlapped)
    BY <1>1, <1>2 DEF LocalOK, WritesOK, InitOK, ChoiceOK
  <2> QED BY <1>1, <1>3, <2>1 DEF StoreInv
<1>13. ASSUME NEW v \in Worker PROVE WriterOK(v)'
  <2> SUFFICES ASSUME Writing(local'[v]), local'[v].file \notin overlapped
               PROVE  LET l == local'[v] IN
                      /\ \A u \in Makers(local', l.file) : u = v
                      /\ l.pc = "opening" /\ l.file # ActiveFile => files'[l.file] = None
                      /\ l.pc = "writing" => files'[l.file] = Torn
    BY <1>1 DEF WriterOK, Creating, Makers
  <2>1. CASE v = w
    BY <1>2, <1>3, <1>5, <1>7, <1>8, <2>1
  <2>2. CASE v # w
    <3>1. local'[v] = local[v] /\ Writing(local[v]) /\ local[v].file \notin overlapped
      BY <1>3, <2>2
    <3>2. v \in Makers(local, local[v].file) /\ local[v].file \in File
      BY <3>1, WritesFile DEF Makers, Writing
    <3>3. local[v].file # f
      BY <1>8, <2>2, <3>1, <3>2
    <3> QED BY <1>5, <1>7, <3>1, <3>2, <3>3, SoleWriter
  <2> QED BY <2>1, <2>2
<1>14. ASSUME NEW v \in Worker PROVE PinningOK(v)'
  <2> SUFFICES ASSUME Pins(local'[v]), ActiveFile \notin overlapped
               PROVE  /\ \A u \in Worker : Pins(local'[u]) => u = v
                      /\ \/ local'[v].file = ActiveFile /\ local'[v].pc = "writing"
                         \/ files'[ActiveFile] = local'[v].found
    BY <1>1 DEF PinningOK, Pinning, Pins
  <2>1. /\ \A u \in Worker : Pins(local[u]) => u = v
        /\ \/ local[v].file = ActiveFile /\ local[v].pc = "writing"
           \/ files[ActiveFile] = local[v].found
    BY <1>6 DEF StoreInv, WorkersOK, PinningOK, Pinning, Pins
  <2>2. CASE v = w
    BY <1>1, <1>2, <1>3, <1>6, <1>7, <2>1, <2>2, Names
  <2>3. CASE v # w
    BY <1>3, <1>6, <1>7, <1>8, <2>1, <2>3, Names
  <2> QED BY <2>2, <2>3
<1>15. ASSUME NEW v \in Worker PROVE IdentityOK(v)'
  <2> SUFFICES ASSUME local'[v].init # None, local'[v].file # IdentityFile
               PROVE  files'[IdentityFile] = local'[v].id \/ IdentityFile \in overlapped
    BY <1>1 DEF IdentityOK
  <2>1. /\ local[v].init = local'[v].init /\ local[v].file = local'[v].file
        /\ local[v].id = local'[v].id
    BY <1>2, <1>3
  <2>2. files[IdentityFile] = local[v].id \/ IdentityFile \in overlapped
    BY <2>1 DEF StoreInv, WorkersOK, IdentityOK
  <2>3. local[v].id \in Identity
    BY <2>1 DEF StoreInv, LocalOK, InitOK
  <2> QED BY <1>7, <1>8, <2>1, <2>2, <2>3, Names
<1>16. ASSUME NEW v \in Worker PROVE BundleOK(v)'
  <2>1. local'[v].checked = local[v].checked /\ local'[v].todo = local[v].todo
    BY <1>2, <1>3
  <2> SUFFICES ASSUME local[v].checked
               PROVE  /\ OnePerVersion(local[v].todo)
                      /\ \A i \in DOMAIN local[v].todo :
                           LET g == Path[local[v].todo[i]] IN
                           /\ Makers(local', g) \subseteq {v} \/ g \in crossed
                           /\ \/ files'[g] \in {None, local[v].todo[i]}
                              \/ g \in crossed \cup damaged \cup overlapped
                              \/ Makers(local', g) # {}
    BY <1>1, <2>1 DEF BundleOK, OnePerVersion, Creating, Makers
  <2>2. /\ OnePerVersion(local[v].todo)
        /\ \A i \in DOMAIN local[v].todo :
             LET g == Path[local[v].todo[i]] IN
             /\ Makers(local, g) \subseteq {v} \/ g \in crossed
             /\ \/ files[g] \in {None, local[v].todo[i]}
                \/ g \in crossed \cup damaged \cup overlapped
                \/ Makers(local, g) # {}
    BY DEF StoreInv, WorkersOK, BundleOK, Creating, Makers
  <2>3. \A i \in DOMAIN local[v].todo : Path[local[v].todo[i]] \in File
    BY Names DEF StoreInv, Locals
  <2> QED BY <1>4, <1>5, <1>7, <2>2, <2>3
<1>17. ShownKept'
  <2> SUFFICES ASSUME NEW m \in shown, Path[m] \notin overlapped
               PROVE  files'[Path[m]] = m
    BY <1>1 DEF ShownKept, Kept
  <2>1. files[Path[m]] = m /\ m \in Manifest /\ Path[m] \in Paths
    BY Bounds, Names DEF StoreInv, ShownKept, Kept
  <2> QED BY <1>7, <1>8, <2>1, Names
<1>18. TornExplained'
  <2> SUFFICES ASSUME NEW g \in File, files'[g] = Torn
               PROVE  \/ g \in damaged \cup overlapped
                      \/ \E v \in Makers(local', g) : local'[v].pc = "writing"
    BY <1>1 DEF TornExplained, Creating, Makers
  <2>1. CASE g = f
    BY <1>2, <1>3, <1>4, <2>1
  <2>2. CASE g # f
    <3>1. \/ g \in damaged \cup overlapped
          \/ \E v \in Makers(local, g) : local[v].pc = "writing"
      BY <1>7, <2>2 DEF StoreInv, TornExplained, Creating, Makers
    <3> QED BY <1>8a, <3>1
  <2> QED BY <2>1, <2>2
<1> QED BY <1>3, <1>9, <1>10, <1>11, <1>12, <1>13, <1>14, <1>15, <1>16, <1>17, <1>18
        DEF StoreInv, WorkersOK

\* What w goes on to when its file is written.
WrittenBy(w) ==
  LET me == local[w] IN
  CASE me.file = IdentityFile -> [me EXCEPT !.pc = "initializing", !.file = None]
    [] me.file = ActiveFile -> Idle
    [] OTHER -> [me EXCEPT !.pc = "installing", !.file = None, !.todo = Tail(@)]

LEMMA WriterGoesOn ==
  ASSUME StoreInv, NEW w \in Worker, local[w].pc = "writing"
  PROVE  LET me == local[w]
             y == WrittenBy(w)
         IN
         /\ y \in Locals /\ ~Writing(y) /\ y.file = None
         /\ me.file = IdentityFile => y.pc = "initializing" /\ y.init = me.init /\ y.id = me.text
         /\ me.file = ActiveFile => y.pc = "idle" /\ y.init = None /\ y.checked = FALSE
         /\ me.file \notin {IdentityFile, ActiveFile} =>
              /\ y.pc = "installing" /\ y.init = me.init /\ y.id = me.id /\ y.found = me.found
              /\ y.checked = me.checked
         /\ y.checked => me.file \notin {IdentityFile, ActiveFile} /\ y.todo = Tail(me.todo)
         /\ LocalOK(y, shown \cup ({me.text} \cap Manifest), overlapped)
<1> DEFINE me == local[w]
           y == WrittenBy(w)
           S == shown \cup ({me.text} \cap Manifest)
<1>1. Writing(me) /\ me \in Locals /\ LocalOK(me, shown, overlapped)
  BY DEF StoreInv, Writing
<1>2. LocalOK(me, S, overlapped)
  BY <1>1, LocalStays
<1>3. CASE me.file = IdentityFile
  <2> DEFINE z == [me EXCEPT !.pc = "initializing", !.file = None]
  <2>1. y = z
    BY <1>3, Names DEF WrittenBy
  <2>2. /\ z \in Locals /\ z.pc = "initializing" /\ z.file = None /\ z.init = me.init
        /\ z.id = me.id /\ z.todo = me.todo /\ z.checked = me.checked /\ z.accepted = me.accepted
    BY <1>1 DEF Locals, Labels
  <2> HIDE DEF z, y
  <2>3. me.text = me.id /\ me.init # None /\ me.id \in Identity /\ me.todo = <<>>
    <3>1. \A m \in Manifest : Path[m] # me.file
      BY <1>3, Names
    <3>2. me.todo # <<>> => Head(me.todo) \in Manifest
      BY <1>1 DEF Locals
    <3> QED BY <1>1, <1>3, <3>1, <3>2, Names DEF LocalOK, WritesOK, InitOK
  <2>4. me.checked = FALSE
    BY <1>1, <2>3 DEF LocalOK, InitOK, Locals
  <2>5. LocalOK(y, S, overlapped)
    BY <1>2, <2>1, <2>2, <2>3, <2>4 DEF LocalOK, WritesOK, InitOK, ChoiceOK, Writing
  <2> QED BY <1>3, <2>1, <2>2, <2>3, <2>4, <2>5, Names DEF Writing, y
<1>4. CASE me.file = ActiveFile
  <2>1. y = Idle
    BY <1>4, Names DEF WrittenBy
  <2>2. Idle.pc = "idle" /\ Idle.file = None
    BY DEF Idle
  <2> QED BY <1>4, <2>1, <2>2, IdleFits, Names
<1>5. CASE me.file \notin {IdentityFile, ActiveFile}
  <2> DEFINE z == [me EXCEPT !.pc = "installing", !.file = None, !.todo = Tail(@)]
  <2>1. y = z
    BY <1>5 DEF WrittenBy
  <2>2. me.todo # <<>> /\ me.text = Head(me.todo) /\ me.text \in Manifest /\ me.todo \in Seq(Manifest)
    BY <1>1, <1>5, WritesFile DEF Locals
  <2>3. /\ z \in Locals /\ z.pc = "installing" /\ z.file = None /\ z.init = me.init
        /\ z.id = me.id /\ z.todo = Tail(me.todo) /\ z.found = me.found
        /\ z.checked = me.checked /\ z.accepted = me.accepted
    BY <1>1, <2>2, RestAhead DEF Locals, Labels
  <2> HIDE DEF z, y
  <2>4. me.init # None => me.init = me.text /\ z.todo = <<>>
    <3>1. \A i \in Manifest : Head(<<i>>) = i /\ Tail(<<i>>) = <<>>
      OBVIOUS
    <3>2. me.init # None => me.init \in Manifest /\ me.todo = <<me.init>>
      BY <1>1, <2>2 DEF LocalOK, InitOK, Locals
    <3> QED BY <2>2, <2>3, <3>1, <3>2
  <2>5. LocalOK(z, S, overlapped)
    BY <1>2, <2>2, <2>3, <2>4 DEF LocalOK, WritesOK, InitOK, ChoiceOK, Writing
  <2> QED BY <1>5, <2>1, <2>3, <2>5 DEF Writing, y
<1> QED BY <1>3, <1>4, <1>5

LEMMA WriteStep ==
  ASSUME StoreInv, NEW w \in Worker, Write(w)
  PROVE  StoreInv'
<1> DEFINE me == local[w]
           f == me.file
           y == WrittenBy(w)
           result == files'[f]
<1>1. /\ me.pc = "writing" /\ Writing(me) /\ me \in Locals /\ LocalOK(me, shown, overlapped)
      /\ Becomes(w, y)
      /\ shown' = shown \cup ({me.text} \cap Manifest)
      /\ reported' = IF f = ActiveFile
                     THEN reported \cup {[identity |-> me.id, constitution |-> me.init]}
                     ELSE reported
      /\ UNCHANGED <<requests, admitted, commands, crashes, overlapped, crossed, damaged>>
  BY DEF Write, Continues, Writing, StoreInv, WrittenBy
<1>2. f \in File /\ w \in Makers(local, f) /\ me.text \in Text
  BY <1>1, WritesFile DEF Makers, Writing
<1>3. f \notin overlapped => files[f] = Torn /\ \A v \in Makers(local, f) : v = w
  BY <1>1, SoleWriter
<1>4. /\ files' \in [File -> Text \cup {None, Torn}]
      /\ result \in {me.text, Torn} /\ (f \notin overlapped => result = me.text)
      /\ \A g \in File \ {f} : files'[g] = files[g]
  <2>1. PICK new \in {me.text} \cup (IF files[f] \in {Torn, me.text} THEN {} ELSE {Torn}) :
          files' = [files EXCEPT ![f] = new]
    BY DEF Write
  <2>2. new \in {me.text, Torn} /\ (f \notin overlapped => new = me.text)
    BY <1>3, <2>1
  <2>3. files \in [File -> Text \cup {None, Torn}]
    BY DEF StoreInv, FilesOK
  <2> QED BY <1>2, <2>1, <2>2, <2>3
<1> HIDE DEF y, result
<1>5. /\ y \in Locals /\ ~Writing(y) /\ y.file = None
      /\ f = IdentityFile => y.pc = "initializing" /\ y.init = me.init /\ y.id = me.text
      /\ f = ActiveFile => y.pc = "idle" /\ y.init = None /\ y.checked = FALSE
      /\ f \notin {IdentityFile, ActiveFile} =>
           /\ y.pc = "installing" /\ y.init = me.init /\ y.id = me.id /\ y.found = me.found
           /\ y.checked = me.checked
      /\ y.checked => f \notin {IdentityFile, ActiveFile} /\ y.todo = Tail(me.todo)
      /\ LocalOK(y, shown', overlapped')
  BY <1>1, WriterGoesOn DEF y
<1>6. /\ local' \in [Worker -> Locals] /\ local'[w] = y
      /\ \A v \in Worker \ {w} : local'[v] = local[v]
  BY <1>1, <1>5, BecomesLocal DEF StoreInv
<1>7. /\ \A g : Makers(local', g) \subseteq Makers(local, g) \ {w}
      /\ \A g : g # f => Makers(local', g) = Makers(local, g) /\ w \notin Makers(local, g)
  BY <1>1, <1>5, <1>6 DEF Makers, Writing
<1>8. /\ f = IdentityFile => me.text = me.id /\ me.id \in Identity /\ me.init # None
      /\ f = ActiveFile => me.text = me.init /\ me.init \in shown
      /\ f \notin {IdentityFile, ActiveFile} =>
           /\ me.todo # <<>> /\ me.text = Head(me.todo)
           /\ me.text \in Manifest /\ f = Path[me.text] /\ f \in Paths
  BY <1>1, WritesFile
<1>9. shown \subseteq shown' /\ shown' \subseteq Manifest
  BY <1>1, Bounds
<1>10. FilesOK'
  <2>1. f = IdentityFile => files'[f] \in Identity \cup {None, Torn}
    BY <1>4, <1>8 DEF result
  <2>2. f = ActiveFile => files'[f] \in shown' \cup {None, Torn}
    BY <1>4, <1>8, <1>9 DEF result
  <2>3. f \in Paths => files'[f] \in {m \in shown' : Path[m] = f} \cup {None, Torn}
    BY <1>1, <1>4, <1>8, Names DEF result
  <2> QED BY <1>4, <1>9, <2>1, <2>2, <2>3, Names DEF StoreInv, FilesOK
<1>11. me.init # None => me.id \in Identity
  BY <1>1 DEF LocalOK, InitOK
<1>12. HistoryOK'
  <2>1. f = ActiveFile => me.init # None
    BY <1>8, Bounds, Names
  <2>2. reported' \subseteq [identity : Identity, constitution : shown']
    BY <1>1, <1>8, <1>9, <1>11, <2>1 DEF StoreInv, HistoryOK
  <2> QED BY <1>1, <1>9, <2>2 DEF StoreInv, HistoryOK
<1>13. OutcomeOK'
  <2>1. \A r \in requests : RequestOK(r, shown', overlapped)
    BY <1>9, RequestStays DEF StoreInv, OutcomeOK
  <2> QED BY <1>1, <1>9, <2>1 DEF StoreInv, OutcomeOK
<1>14. PinnedOK'
  <2> SUFFICES ASSUME NEW r \in reported'
               PROVE  /\ files'[IdentityFile] = r.identity \/ IdentityFile \in overlapped
                      /\ \/ files'[ActiveFile] = r.constitution
                         \/ ActiveFile \in overlapped \cup damaged
                         \/ \E v \in Makers(local', ActiveFile) :
                              local'[v].pc = "writing" /\ local'[v].text = r.constitution
    BY <1>1 DEF PinnedOK, Creating, Makers
  <2>1. CASE r \in reported
    <3>1. /\ files[IdentityFile] = r.identity \/ IdentityFile \in overlapped
          /\ \/ files[ActiveFile] = r.constitution
             \/ ActiveFile \in overlapped \cup damaged
             \/ \E v \in Makers(local, ActiveFile) :
                  local[v].pc = "writing" /\ local[v].text = r.constitution
      BY <2>1 DEF StoreInv, PinnedOK, Creating, Makers
    <3>2. r.identity \in Identity /\ r.constitution \in Manifest
      BY <2>1, Bounds DEF StoreInv, HistoryOK
    <3>3. files'[IdentityFile] = r.identity \/ IdentityFile \in overlapped
      BY <1>3, <1>4, <3>1, <3>2, Names
    <3>4. CASE f # ActiveFile
      <4>1. files'[ActiveFile] = files[ActiveFile]
        BY <1>4, <3>4, Names
      <4>2. ASSUME NEW v \in Makers(local, ActiveFile)
            PROVE  v \in Makers(local', ActiveFile) /\ local'[v] = local[v]
        <5>1. v \in Worker \ {w}
          BY <1>7, <3>4 DEF Makers
        <5> QED BY <1>6, <1>7, <3>4, <5>1
      <4> QED BY <3>1, <3>3, <4>1, <4>2
    <3>5. CASE f = ActiveFile /\ f \notin overlapped \cup damaged
      <4>1. me.text = r.constitution
        BY <1>3, <3>1, <3>2, <3>5, Names
      <4> QED BY <1>4, <3>3, <3>5, <4>1 DEF result
    <3> QED BY <3>3, <3>4, <3>5
  <2>2. CASE f = ActiveFile /\ r = [identity |-> me.id, constitution |-> me.init]
    <3>1. me.init # None
      BY <1>8, <2>2, Bounds, Names
    <3>2. files[IdentityFile] = me.id \/ IdentityFile \in overlapped
      BY <2>2, <3>1, Names DEF StoreInv, WorkersOK, IdentityOK
    <3>3. files'[IdentityFile] = files[IdentityFile]
      BY <1>4, <2>2, Names
    <3>4. files'[ActiveFile] = me.init \/ ActiveFile \in overlapped
      BY <1>4, <1>8, <2>2 DEF result
    <3>5. r.identity = me.id /\ r.constitution = me.init
      BY <2>2
    <3> QED BY <3>2, <3>3, <3>4, <3>5
  <2> QED BY <1>1, <2>1, <2>2
<1>15. \A v \in Worker : LocalOK(local'[v], shown', overlapped')
  BY <1>1, <1>5, <1>6, <1>9, LocalStays DEF StoreInv
<1>16. ASSUME NEW v \in Worker PROVE WriterOK(v)'
  <2> SUFFICES ASSUME Writing(local'[v]), local'[v].file \notin overlapped
               PROVE  LET l == local'[v] IN
                      /\ \A u \in Makers(local', l.file) : u = v
                      /\ l.pc = "opening" /\ l.file # ActiveFile => files'[l.file] = None
                      /\ l.pc = "writing" => files'[l.file] = Torn
    BY <1>1 DEF WriterOK, Creating, Makers
  <2>1. v # w /\ local'[v] = local[v]
    BY <1>5, <1>6
  <2>2. v \in Makers(local, local[v].file) /\ local[v].file \in File
    BY <2>1, WritesFile DEF Makers, Writing
  <2>3. local[v].file # f
    BY <1>3, <2>1, <2>2
  <2> QED BY <1>4, <1>7, <2>1, <2>2, <2>3, SoleWriter
<1>17. ASSUME NEW v \in Worker PROVE PinningOK(v)'
  <2> SUFFICES ASSUME Pins(local'[v]), ActiveFile \notin overlapped
               PROVE  /\ \A u \in Worker : Pins(local'[u]) => u = v
                      /\ \/ local'[v].file = ActiveFile /\ local'[v].pc = "writing"
                         \/ files'[ActiveFile] = local'[v].found
    BY <1>1 DEF PinningOK, Pinning, Pins
  <2>1. Pins(y) => Pins(me) /\ f # ActiveFile /\ y.found = me.found
    BY <1>1, <1>5, Names DEF Pins
  <2>2. \A u \in Worker : Pins(local'[u]) => Pins(local[u]) /\ local'[u].found = local[u].found
    BY <1>6, <2>1
  <2>3. /\ \A u \in Worker : Pins(local[u]) => u = v
        /\ \/ local[v].file = ActiveFile /\ local[v].pc = "writing"
           \/ files[ActiveFile] = local[v].found
    BY <2>2 DEF StoreInv, WorkersOK, PinningOK, Pinning, Pins
  <2>4. f # ActiveFile
    <3>1. v # w => ~(f = ActiveFile)
      BY <1>1, <2>2, SoleWriter
    <3> QED BY <1>6, <2>1, <3>1
  <2>5. files'[ActiveFile] = files[ActiveFile]
    BY <1>4, <2>4, Names
  <2> QED BY <1>6, <2>1, <2>2, <2>3, <2>4, <2>5
<1>18. ASSUME NEW v \in Worker PROVE IdentityOK(v)'
  <2> SUFFICES ASSUME local'[v].init # None, local'[v].file # IdentityFile,
                      IdentityFile \notin overlapped
               PROVE  files'[IdentityFile] = local'[v].id
    BY <1>1 DEF IdentityOK
  <2>1. CASE v = w /\ f = IdentityFile
    BY <1>4, <1>5, <1>6, <2>1 DEF result
  <2>2. CASE ~(v = w /\ f = IdentityFile)
    <3>1. /\ local[v].init # None /\ local[v].file # IdentityFile /\ local[v].id = local'[v].id
      BY <1>5, <1>6, <2>2
    <3>2. files[IdentityFile] = local[v].id
      BY <3>1 DEF StoreInv, WorkersOK, IdentityOK
    <3>3. local[v].id \in Identity
      BY <3>1 DEF StoreInv, LocalOK, InitOK
    <3> QED BY <1>3, <1>4, <3>1, <3>2, <3>3, Names
  <2> QED BY <2>1, <2>2
<1>19. ASSUME NEW v \in Worker PROVE BundleOK(v)'
  <2> SUFFICES ASSUME local'[v].checked
               PROVE  /\ OnePerVersion(local'[v].todo)
                      /\ \A i \in DOMAIN local'[v].todo :
                           LET g == Path[local'[v].todo[i]] IN
                           /\ Makers(local', g) \subseteq {v} \/ g \in crossed
                           /\ \/ files'[g] \in {None, local'[v].todo[i]}
                              \/ g \in crossed \cup damaged \cup overlapped
                              \/ Makers(local', g) # {}
    BY <1>1 DEF BundleOK, OnePerVersion, Creating, Makers
  <2>1. local[v].checked /\ local[v].todo \in Seq(Manifest)
    BY <1>5, <1>6 DEF StoreInv, Locals
  <2>2. /\ OnePerVersion(local[v].todo)
        /\ \A i \in DOMAIN local[v].todo :
             LET g == Path[local[v].todo[i]] IN
             /\ Makers(local, g) \subseteq {v} \/ g \in crossed
             /\ \/ files[g] \in {None, local[v].todo[i]}
                \/ g \in crossed \cup damaged \cup overlapped
                \/ Makers(local, g) # {}
    BY <2>1 DEF StoreInv, WorkersOK, BundleOK, Creating, Makers
  <2>3. \A i \in DOMAIN local[v].todo : Path[local[v].todo[i]] \in File
    BY <2>1, Names
  <2>4. CASE v # w
    <3>1. local'[v].todo = local[v].todo
      BY <1>6, <2>4
    <3> SUFFICES ASSUME NEW i \in DOMAIN local[v].todo
                 PROVE  LET g == Path[local[v].todo[i]] IN
                        /\ Makers(local', g) \subseteq {v} \/ g \in crossed
                        /\ \/ files'[g] \in {None, local[v].todo[i]}
                           \/ g \in crossed \cup damaged \cup overlapped
                           \/ Makers(local', g) # {}
      BY <2>2, <3>1
    <3> DEFINE g == Path[local[v].todo[i]]
    <3>2. CASE g = f
      BY <1>2, <1>7, <2>2, <2>4, <3>2
    <3>3. CASE g # f
      BY <1>4, <1>7, <2>2, <2>3, <3>3
    <3> QED BY <3>2, <3>3
  <2>5. CASE v = w
    <3>1. /\ f \notin {IdentityFile, ActiveFile} /\ local'[w].todo = Tail(me.todo)
          /\ me.todo # <<>> /\ me.text = Head(me.todo) /\ f = Path[me.text]
      BY <1>5, <1>6, <1>8, <2>5
    <3>2. /\ OnePerVersion(Tail(me.todo)) /\ me.todo[1] = me.text /\ 1 \in DOMAIN me.todo
          /\ \A i \in DOMAIN Tail(me.todo) :
               i + 1 \in DOMAIN me.todo /\ Tail(me.todo)[i] = me.todo[i + 1]
      BY <2>1, <2>2, <2>5, <3>1, RestAhead
    <3> SUFFICES ASSUME NEW i \in DOMAIN Tail(me.todo)
                 PROVE  LET g == Path[Tail(me.todo)[i]] IN
                        /\ Makers(local', g) \subseteq {w} \/ g \in crossed
                        /\ \/ files'[g] \in {None, Tail(me.todo)[i]}
                           \/ g \in crossed \cup damaged \cup overlapped
                           \/ Makers(local', g) # {}
      BY <2>5, <3>1, <3>2
    <3> DEFINE m == me.todo[i + 1]
               g == Path[m]
    <3>3. /\ i + 1 \in DOMAIN me.todo /\ Tail(me.todo)[i] = m /\ g \in File
          /\ Makers(local, g) \subseteq {w} \/ g \in crossed
          /\ \/ files[g] \in {None, m} \/ g \in crossed \cup damaged \cup overlapped
             \/ Makers(local, g) # {}
      BY <2>2, <2>3, <2>5, <3>2
    <3>4. g = f => m = me.text
      BY <2>2, <2>5, <3>1, <3>2, <3>3 DEF OnePerVersion
    <3> HIDE DEF m
    <3>5. CASE g = f
      BY <1>4, <1>7, <3>3, <3>4, <3>5 DEF result
    <3>6. CASE g # f
      BY <1>4, <1>7, <3>3, <3>6
    <3> QED BY <3>3, <3>5, <3>6
  <2> QED BY <2>4, <2>5
<1>20. ShownKept'
  <2> SUFFICES ASSUME NEW m \in shown', Path[m] \notin overlapped
               PROVE  files'[Path[m]] = m
    BY <1>1 DEF ShownKept, Kept
  <2>1. CASE m \in shown
    <3>1. files[Path[m]] = m /\ m \in Manifest /\ Path[m] \in Paths
      BY <2>1, Bounds, Names DEF StoreInv, ShownKept, Kept
    <3> QED BY <1>3, <1>4, <3>1, Names
  <2>2. CASE m \notin shown
    <3>1. m = me.text /\ f = Path[m]
      BY <1>1, <1>8, <2>2, Names
    <3> QED BY <1>4, <3>1 DEF result
  <2> QED BY <2>1, <2>2
<1>21. TornExplained'
  <2> SUFFICES ASSUME NEW g \in File, files'[g] = Torn
               PROVE  \/ g \in damaged \cup overlapped
                      \/ \E v \in Makers(local', g) : local'[v].pc = "writing"
    BY <1>1 DEF TornExplained, Creating, Makers
  <2>1. CASE g = f
    <3>1. me.text # Torn
      BY <1>2, Names DEF Text
    <3> QED BY <1>4, <2>1, <3>1 DEF result
  <2>2. CASE g # f
    <3>1. \/ g \in damaged \cup overlapped
          \/ \E v \in Makers(local, g) : local[v].pc = "writing"
      BY <1>4, <2>2 DEF StoreInv, TornExplained, Creating, Makers
    <3>2. \A v \in Makers(local, g) : v \in Makers(local', g) /\ local'[v] = local[v]
      <4>1. \A v \in Makers(local, g) : v \in Worker \ {w}
        BY <1>7, <2>2 DEF Makers
      <4> QED BY <1>6, <1>7, <2>2, <4>1
    <3> QED BY <3>1, <3>2
  <2> QED BY <2>1, <2>2
<1> QED BY <1>6, <1>10, <1>12, <1>13, <1>14, <1>15, <1>16, <1>17, <1>18, <1>19, <1>20, <1>21
        DEF StoreInv, WorkersOK

-----------------------------------------------------------------------------
(* Every state.                                                              *)

LEMMA StoreInit == Init => StoreInv
<1> SUFFICES ASSUME Init PROVE StoreInv
  OBVIOUS
<1>1. \A w \in Worker : local[w] = Idle
  BY DEF Init
<1>2. local \in [Worker -> Locals] /\ \A w \in Worker : LocalOK(local[w], shown, overlapped)
  BY <1>1, IdleFits DEF Init
<1>3. FilesOK /\ HistoryOK /\ OutcomeOK /\ PinnedOK /\ ShownKept
  BY StoreAssumption, Names
  DEF Init, FilesOK, HistoryOK, OutcomeOK, PinnedOK, ShownKept
<1>4. WorkersOK
  BY <1>1, IdleFits DEF WorkersOK, WriterOK, PinningOK, IdentityOK, BundleOK, Pins
<1>5. TornExplained
  BY Names DEF Init, TornExplained
<1> QED BY <1>2, <1>3, <1>4, <1>5 DEF StoreInv

LEMMA StoreStep == StoreInv /\ [Next]_vars => StoreInv'
<1> SUFFICES ASSUME StoreInv, [Next]_vars PROVE StoreInv'
  OBVIOUS
<1>1. CASE UNCHANGED vars
  <2>1. UNCHANGED <<files, requests, admitted, reported, local, commands, crashes, overlapped,
                    crossed, damaged, shown>>
    BY <1>1 DEF vars, outcome, history
  <2> QED BY <2>1, QuietStep
<1>2. ASSUME NEW w \in Worker, Command(w) PROVE StoreInv'
  <2>1. ASSUME NEW m \in Manifest, Install(w, m) PROVE StoreInv'
    BY <2>1, InstallStep
  <2>2. ASSUME NEW b \in Bundles, InstallAll(w, b) \/ ImportDir(w, b) PROVE StoreInv'
    BY <2>2, InstallAllStep, ImportDirStep
  <2>3. ASSUME NEW m \in InitWith, InitHome(w, m) PROVE StoreInv'
    BY <2>3, InitHomeStep
  <2>4. ASSUME NEW topic \in Topic, NEW runtime \in Runtime,
               NEW m \in Manifest \cup {None}, Ask(w, topic, runtime, m)
        PROVE  StoreInv'
    BY <2>4, AskStep
  <2>5. ASSUME NEW topic \in Topic, NEW runtime \in Runtime,
               NEW accepts \in SUBSET Paths, Join(w, topic, runtime, accepts)
        PROVE  StoreInv'
    BY <2>5, JoinStep
  <2> QED BY <1>2, <2>1, <2>2, <2>3, <2>4, <2>5, Zenon DEF Command
<1>3. ASSUME NEW w \in Worker, Step(w) PROVE StoreInv'
  BY <1>3, OpenStep, WriteStep, TestFileStep, InstalledStep, ReadActiveStep, PinStep,
     PreferStep, ChooseGuidanceStep, RecordRequestStep, Zenon DEF Step
<1>4. ASSUME NEW w \in Worker, Crash(w) PROVE StoreInv'
  BY <1>4, CrashStep
<1>5. CASE ShowCatalog
  BY <1>5, ShowCatalogStep
<1>6. ASSUME NEW p \in Packet, Propose(p) PROVE StoreInv'
  BY <1>6, ProposeStep
<1> QED BY <1>1, <1>2, <1>3, <1>4, <1>5, <1>6, Zenon DEF Next

LEMMA StoreIsKept == Spec => []StoreInv
BY StoreInit, StoreStep, PTL DEF Spec

-----------------------------------------------------------------------------
(* What follows.                                                             *)

\* Every file holds a text of its own kind, and every request and packet is
\* within the constitution it pins.
THEOREM StoreTypes == Spec => []TypeOK
<1>1. StoreInv => TypeOK
  <2> SUFFICES ASSUME StoreInv PROVE TypeOK
    OBVIOUS
  <2>1. \A m \in Manifest, f \in File : files[f] = m => f \in {Path[m], ActiveFile}
    BY Names DEF StoreInv, FilesOK, File
  <2>2. \A r \in requests : Suits(r.constitution, r.topic, r.runtime)
    BY DEF StoreInv, OutcomeOK, RequestOK
  <2>3. \A a \in admitted : About[a.packet] \in Covers[a.under] /\ a.packet \in Meets[a.under]
    BY DEF StoreInv, OutcomeOK
  <2>4. reported \subseteq [identity : Identity, constitution : Manifest]
    BY DEF StoreInv, HistoryOK
  <2> QED BY <2>1, <2>2, <2>3, <2>4, Bounds DEF TypeOK, StoreInv, FilesOK
<1> QED BY <1>1, StoreIsKept, PTL

\* docs/CONSTITUTIONS.md:97 "<version> is immutable", for whatever was found,
\* shown, requested or admitted under, by any number of processes.
THEOREM VersionsStay == Spec => []VersionsImmutable
<1>1. StoreInv => VersionsImmutable
  <2> SUFFICES ASSUME StoreInv PROVE VersionsImmutable
    OBVIOUS
  <2>1. \A r \in requests : r.constitution \in shown
    BY DEF StoreInv, OutcomeOK, RequestOK
  <2>2. \A a \in admitted : a.under \in shown
    BY DEF StoreInv, OutcomeOK
  <2>3. \A m \in shown : files[Path[m]] = m \/ Path[m] \in overlapped
    BY DEF StoreInv, ShownKept, Kept
  <2> QED BY <2>1, <2>2, <2>3 DEF VersionsImmutable
<1> QED BY <1>1, StoreIsKept, PTL

\* constitutions.py:483: no listing fails for a file that nobody is writing,
\* whose writers had no company and were not killed.
THEOREM TornIsExplained == Spec => []TornExplained
<1>1. StoreInv => TornExplained
  BY DEF StoreInv
<1> QED BY <1>1, StoreIsKept, PTL

\* cli.py:384: a bundle that passed its check stops half way only for a file
\* that came up since, or was being written or damaged.
THEOREM BundleStopsAreExplained == Spec => []BundleStopsExplained
<1>1. StoreInv => BundleStopsExplained
  <2> SUFFICES ASSUME StoreInv, NEW w \in Worker, local[w].checked, local[w].todo # <<>>,
                      local[w].pc = "installing",
                      files[Path[Head(local[w].todo)]] \notin {None, Head(local[w].todo)}
               PROVE  Path[Head(local[w].todo)] \in crossed \cup damaged \cup overlapped
    BY DEF BundleStopsExplained
  <2>1. local[w].todo \in Seq(Manifest)
    BY DEF StoreInv, Locals
  <2>2. 1 \in DOMAIN local[w].todo /\ local[w].todo[1] = Head(local[w].todo)
    BY <2>1, RestAhead
  <2> QED BY <2>2, Ahead
<1> QED BY <1>1, StoreIsKept, PTL

\* w1.py:104: what an init has reported is what the home has.
THEOREM InitsAreKept == Spec => []InitKept
<1>1. StoreInv => InitKept
  <2> SUFFICES ASSUME StoreInv, NEW r \in reported
               PROVE  /\ files[IdentityFile] = r.identity \/ IdentityFile \in overlapped
                      /\ Kept(r.constitution)
                      /\ \/ files[ActiveFile] = r.constitution
                         \/ ActiveFile \in overlapped \cup damaged \/ Creating(ActiveFile) # {}
    BY DEF InitKept, Kept
  <2>1. r.constitution \in shown
    BY DEF StoreInv, HistoryOK
  <2> QED BY <2>1 DEF StoreInv, PinnedOK, ShownKept
<1> QED BY <1>1, StoreIsKept, PTL

\* discovery.py:216 "preferring its exact accepted refs", through two listings
\* and whatever is installed between them.
THEOREM RequestsPreferAccepted == Spec => []AcceptedIsRequested
<1>1. StoreInv => AcceptedIsRequested
  BY DEF StoreInv, OutcomeOK, RequestOK, Preferable, AcceptedIsRequested
<1> QED BY <1>1, StoreIsKept, PTL

=================================================================================
