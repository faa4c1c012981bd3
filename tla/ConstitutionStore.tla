--------------------------- MODULE ConstitutionStore ---------------------------
(***************************************************************************)
(* The constitutions of a home: installation (FileConstitutionResolver,    *)
(* the install, import and import-dir commands, commons init), discovery   *)
(* (ConstitutionCatalog: list, select, ask, join) and what they decide     *)
(* (requests, and packets proposed over the MCP server).                   *)
(*                                                                         *)
(* Any number of processes work on one root without a lock.  A file is     *)
(* tested, opened with truncation and written in three steps; a process    *)
(* may be killed between them.  Commands that only read do so in one step. *)
(***************************************************************************)
EXTENDS Naturals, Sequences, FiniteSets

CONSTANTS
  Manifest,        \* contents of a manifest
  Path,            \* manifest -> its file, <id>/<version>.json
  Rank,            \* manifest -> place in the order of (version, id)
  Topic, Runtime,  \* a topic is a namespace and a packet kind
  Covers,          \* manifest -> topics in its namespaces and kinds
  Compatible,      \* manifest -> runtimes it lists as compatible
  Guided,          \* manifests with guidance
  Packet, About,   \* packets, and packet -> its topic
  Meets,           \* manifest -> packets within its other rules and the policy
  Bundles,         \* sequences of manifests installed by one command
  InitWith,        \* manifests `commons init` is called with
  Worker, Identity,
  IdentityFile, ActiveFile,     \* identity.json and constitution.json
  None, Torn,                   \* no file; a file that is no JSON
  MaxCommands, MaxCrashes       \* bounds on the behaviours explored

Paths == {Path[m] : m \in Manifest}
File == Paths \cup {IdentityFile, ActiveFile}
Text == Manifest \cup Identity

ASSUME StoreAssumption ==
  /\ Rank \in [Manifest -> Nat]
  /\ \A m, n \in Manifest : Rank[m] = Rank[n] => Path[m] = Path[n]
  /\ Covers \in [Manifest -> SUBSET Topic] /\ Compatible \in [Manifest -> SUBSET Runtime]
  /\ Meets \in [Manifest -> SUBSET Packet] /\ About \in [Packet -> Topic]
  /\ Guided \subseteq Manifest /\ InitWith \subseteq Manifest
  /\ \A b \in Bundles : b \in Seq(Manifest)
  /\ IsFiniteSet(Manifest) /\ Manifest \cap Identity = {}
  /\ None \notin Text /\ Torn \notin Text /\ None # Torn
  /\ IdentityFile \notin Paths \cup {ActiveFile} /\ ActiveFile \notin Paths /\ None \notin File
  /\ MaxCommands \in Nat /\ MaxCrashes \in Nat

VARIABLES
  files,        \* what each file holds
  requests,     \* adoption requests, and the references their handshake accepts
  admitted,     \* objects/: packets with the manifest they pin
  local,        \* the state of each process
  commands, crashes,
  overlapped,   \* history: files two processes were creating at once
  crossed,      \* history: files created while another's bundle still held them
  damaged,      \* history: files whose writer was killed
  shown,        \* history: manifests a process has found installed
  reported      \* history: what each `commons init` has reported, by its end

outcome == <<requests, admitted, reported>>
history == <<overlapped, crossed, damaged, shown>>
vars == <<files, outcome, local, commands, crashes, history>>

\* file and text: what is being written; todo: manifests to install, in order;
\* init: the manifest of `commons init`; found: the manifest read or chosen.
Idle == [pc |-> "idle", file |-> None, text |-> None, todo |-> <<>>, checked |-> FALSE,
         init |-> None, id |-> None, found |-> None, topic |-> None, runtime |-> None,
         accepted |-> {}]

Init ==
  /\ files = [f \in File |-> None]
  /\ requests = {} /\ admitted = {} /\ reported = {}
  /\ local = [w \in Worker |-> Idle]
  /\ commands = 0 /\ crashes = 0
  /\ overlapped = {} /\ crossed = {} /\ damaged = {} /\ shown = {}

Becomes(w, l) == local' = [local EXCEPT ![w] = l]
Begins(w, l) ==
  /\ local[w].pc = "idle" /\ commands < MaxCommands
  /\ commands' = commands + 1
  /\ Becomes(w, l)
Continues(w, l) == Becomes(w, l) /\ UNCHANGED commands

\* A command that raises ends; what it has written stays.
Fails(w) ==
  /\ Continues(w, Idle)
  /\ UNCHANGED <<files, outcome, crashes, history>>

-----------------------------------------------------------------------------
(* Writing a file: path.write_text, wherever it stands.                     *)

Creating(f) == {w \in Worker : local[w].pc \in {"opening", "writing"} /\ local[w].file = f}
Awaiting(w, f) == \E v \in Worker \ {w} : \E i \in DOMAIN local[v].todo : Path[local[v].todo[i]] = f

\* What a process that found no file f goes on to.
Creates(w, l, f, text) ==
  /\ Becomes(w, [l EXCEPT !.pc = "opening", !.file = f, !.text = text])
  /\ overlapped' = IF Creating(f) # {} THEN overlapped \cup {f} ELSE overlapped
  /\ crossed' = IF Awaiting(w, f) THEN crossed \cup {f} ELSE crossed
  /\ UNCHANGED <<files, outcome, crashes, damaged, shown>>

Open(w) ==
  /\ local[w].pc = "opening"
  /\ files' = [files EXCEPT ![local[w].file] = Torn]
  /\ Continues(w, [local[w] EXCEPT !.pc = "writing"])
  /\ UNCHANGED <<outcome, crashes, history>>

\* Over another text, written since the file was opened, a shorter one leaves
\* the end of the other.
Write(w) ==
  LET me == local[w]
      f == me.file
  IN
  /\ me.pc = "writing"
  /\ \E result \in {me.text} \cup (IF files[f] \in {Torn, me.text} THEN {} ELSE {Torn}) :
       files' = [files EXCEPT ![f] = result]
  /\ Continues(w,
       CASE f = IdentityFile -> [me EXCEPT !.pc = "initializing", !.file = None]
         [] f = ActiveFile -> Idle
         [] OTHER -> [me EXCEPT !.pc = "installing", !.file = None, !.todo = Tail(@)])
  /\ shown' = shown \cup ({me.text} \cap Manifest)
  /\ reported' = IF f = ActiveFile
                 THEN reported \cup {[identity |-> me.id, constitution |-> me.init]}
                 ELSE reported
  /\ UNCHANGED <<requests, admitted, crashes, overlapped, crossed, damaged>>

-----------------------------------------------------------------------------
(* Installing.                                                              *)

\* `constitutions install` and `import`, the demo and imported snapshots.
Install(w, m) ==
  /\ Begins(w, [Idle EXCEPT !.pc = "installing", !.todo = <<m>>])
  /\ UNCHANGED <<files, outcome, crashes, history>>

\* A checked bundle; another process may be creating one of its files already.
BeginsBundle(w, b) ==
  /\ Begins(w, [Idle EXCEPT !.pc = "installing", !.todo = b, !.checked = TRUE])
  /\ crossed' = crossed \cup {f \in {Path[b[i]] : i \in DOMAIN b} : Creating(f) # {}}
  /\ UNCHANGED <<files, outcome, crashes, overlapped, damaged, shown>>

\* Seeded fault: nothing is compared before the first file is installed.
InstallAllUnchecked(w, b) == BeginsBundle(w, b)

\* No two manifests of one version in the bundle.
OnePerVersion(b) == \A i, j \in DOMAIN b : Path[b[i]] = Path[b[j]] => b[i] = b[j]

\* install-all: every file there is has to read as the package says.  The
\* registry holds the packages by id and version.
InstallAll(w, b) ==
  /\ OnePerVersion(b)
  /\ \A i \in DOMAIN b : files[Path[b[i]]] \in {None, b[i]}
  /\ BeginsBundle(w, b)

\* import-dir: no other manifest in the way; a file that does not read counts as
\* none here.
ImportDir(w, b) ==
  /\ OnePerVersion(b)
  /\ \A i \in DOMAIN b : files[Path[b[i]]] \in {None, Torn, b[i]}
  /\ BeginsBundle(w, b)

\* Seeded fault: a version that is there is written again.
TestFileNot(w) ==
  LET me == local[w] IN
  /\ me.pc = "installing" /\ me.todo # <<>>
  /\ Creates(w, me, Path[Head(me.todo)], Head(me.todo)) /\ UNCHANGED commands

\* FileConstitutionResolver.install up to the write.
TestFile(w) ==
  LET me == local[w]
      m == Head(me.todo)
      f == Path[m]
  IN
  /\ me.pc = "installing" /\ me.todo # <<>>
  /\ \/ /\ files[f] = None
        /\ Creates(w, me, f, m) /\ UNCHANGED commands
     \/ /\ files[f] = m
        /\ Continues(w, [me EXCEPT !.todo = Tail(@)])
        /\ shown' = shown \cup {m}
        /\ UNCHANGED <<files, outcome, crashes, overlapped, crossed, damaged>>
     \/ files[f] \notin {None, m} /\ Fails(w)

Installed(w) ==
  /\ local[w].pc = "installing" /\ local[w].todo = <<>> /\ local[w].init = None
  /\ Continues(w, Idle)
  /\ UNCHANGED <<files, outcome, crashes, history>>

-----------------------------------------------------------------------------
(* commons init: an identity, the constitution, and constitution.json.      *)

\* Identity.generate: no process has it or has reported it.
Fresh(i) == (\A r \in reported : r.identity # i) /\ \A v \in Worker : local[v].id # i

\* Seeded fault: an identity that is there is not loaded.
InitHomeAnew(w, m) ==
  /\ local[w].pc = "idle" /\ commands < MaxCommands /\ commands' = commands + 1
  /\ \E i \in Identity :
       /\ Fresh(i)
       /\ Creates(w, [Idle EXCEPT !.init = m, !.id = i], IdentityFile, i)

InitHome(w, m) ==
  LET l == [Idle EXCEPT !.init = m] IN
  /\ local[w].pc = "idle" /\ commands < MaxCommands /\ commands' = commands + 1
  /\ \/ /\ files[IdentityFile] = None
        /\ \E i \in Identity :
             /\ Fresh(i)
             /\ Creates(w, [l EXCEPT !.id = i], IdentityFile, i)
     \/ /\ files[IdentityFile] \in Identity
        /\ Becomes(w, [l EXCEPT !.pc = "initializing", !.id = files[IdentityFile]])
        /\ UNCHANGED <<files, outcome, crashes, history>>

\* Another init that has read constitution.json and not written it yet.
Pinning == {v \in Worker : local[v].init # None
              /\ local[v].pc \in {"installing", "opening", "writing"}
              /\ local[v].file # IdentityFile}

\* _load_constitution, before the package is installed.
ReadActive(w) ==
  LET me == local[w] IN
  /\ me.pc = "initializing"
  /\ \/ /\ files[ActiveFile] # Torn
        /\ Continues(w, [me EXCEPT !.pc = "installing", !.todo = <<me.init>>,
                                   !.found = files[ActiveFile]])
        /\ overlapped' = IF Pinning # {} THEN overlapped \cup {ActiveFile} ELSE overlapped
        /\ UNCHANGED <<files, outcome, crashes, crossed, damaged, shown>>
     \/ files[ActiveFile] = Torn /\ Fails(w)

\* Seeded fault: constitution.json is opened before its text is compared.
PinOpened(w) ==
  LET me == local[w] IN
  /\ me.pc = "installing" /\ me.todo = <<>> /\ me.init # None
  /\ \/ me.found \in {None, me.init} /\ Creates(w, me, ActiveFile, me.init) /\ UNCHANGED commands
     \/ /\ me.found \notin {None, me.init}
        /\ Continues(w, Idle) /\ files' = [files EXCEPT ![ActiveFile] = Torn]
        /\ UNCHANGED <<outcome, crashes, history>>

Pin(w) ==
  LET me == local[w] IN
  /\ me.pc = "installing" /\ me.todo = <<>> /\ me.init # None
  /\ \/ /\ me.found \in {None, me.init}
        /\ Creates(w, me, ActiveFile, me.init) /\ UNCHANGED commands
     \/ me.found \notin {None, me.init} /\ Fails(w)

-----------------------------------------------------------------------------
(* Discovery.                                                               *)

\* list raises at the first file it cannot read.
Readable == \A f \in Paths : files[f] # Torn
Catalog == {files[f] : f \in Paths} \ {None}

Suits(m, topic, runtime) == runtime \in Compatible[m] /\ topic \in Covers[m] /\ m \in Guided

\* Seeded fault: the accepted references are not looked at.
BestByRank(S, accepted) == CHOOSE m \in S : \A n \in S : Rank[n] <= Rank[m]

\* Accepted references first, then the highest version.
Best(S, accepted) ==
  LET first == IF S \cap accepted # {} THEN S \cap accepted ELSE S IN
  CHOOSE m \in first : \A n \in first : Rank[n] <= Rank[m]

\* `catalog list`, `catalog select` and `constitutions verify` report the catalog.
ShowCatalog ==
  /\ Readable /\ shown' = shown \cup Catalog
  /\ UNCHANGED <<files, outcome, local, commands, crashes, overlapped, crossed, damaged>>

\* `agent join`: a handshake that accepts the constitutions at some files.
Join(w, topic, runtime, accepts) ==
  /\ \A f \in accepts : files[f] \in Manifest
  /\ Begins(w, [Idle EXCEPT !.pc = "preferring", !.topic = topic, !.runtime = runtime,
                            !.accepted = {files[f] : f \in accepts}])
  /\ shown' = shown \cup {files[f] : f \in accepts}
  /\ UNCHANGED <<files, outcome, crashes, overlapped, crossed, damaged>>

Candidates(w) == {m \in Catalog : Suits(m, local[w].topic, local[w].runtime)}

\* select_for_handshake; the choice goes on as ID@VERSION, without its digest.
Prefer(w) ==
  LET me == local[w] IN
  /\ me.pc = "preferring"
  /\ IF ~Readable THEN Fails(w)
     ELSE /\ Continues(w, [me EXCEPT !.pc = "asking", !.found =
               IF Candidates(w) = {} THEN None ELSE Best(Candidates(w), me.accepted)])
          /\ UNCHANGED <<files, outcome, crashes, history>>

\* `agent ask`, with or without --constitution ID@VERSION.
Ask(w, topic, runtime, exact) ==
  /\ Begins(w, [Idle EXCEPT !.pc = "asking", !.topic = topic, !.runtime = runtime,
                            !.found = exact])
  /\ UNCHANGED <<files, outcome, crashes, history>>

\* Seeded fault: a constitution that is named is not examined.
ChooseGuidanceNamed(w) ==
  LET me == local[w]
      named == IF me.found = None THEN Candidates(w)
               ELSE {m \in Catalog : Path[m] = Path[me.found]}
  IN
  /\ me.pc = "asking"
  /\ IF ~Readable \/ named = {} THEN Fails(w)
     ELSE /\ Continues(w, [me EXCEPT !.pc = "recording", !.found = Best(named, {})])
          /\ UNCHANGED <<files, outcome, crashes, history>>

\* request_adoption.
ChooseGuidance(w) ==
  LET me == local[w]
      named == IF me.found = None THEN Candidates(w)
               ELSE {m \in Candidates(w) : Path[m] = Path[me.found]}
  IN
  /\ me.pc = "asking"
  /\ IF ~Readable \/ named = {} THEN Fails(w)
     ELSE /\ Continues(w, [me EXCEPT !.pc = "recording", !.found = Best(named, {})])
          /\ UNCHANGED <<files, outcome, crashes, history>>

\* record_adoption_request resolves the pinned manifest once more.
RecordRequest(w) ==
  LET me == local[w] IN
  /\ me.pc = "recording"
  /\ IF files[Path[me.found]] # me.found THEN Fails(w)
     ELSE /\ requests' = requests \cup {[topic |-> me.topic, runtime |-> me.runtime,
                                         constitution |-> me.found, accepted |-> me.accepted]}
          /\ Continues(w, Idle)
          /\ UNCHANGED <<files, admitted, reported, crashes, history>>

\* The MCP tool commons_propose: the packet pins the constitution of the home.
Propose(p) ==
  LET m == files[ActiveFile] IN
  /\ files[IdentityFile] \in Identity
  /\ m \in Manifest /\ files[Path[m]] = m
  /\ About[p] \in Covers[m] /\ p \in Meets[m]
  /\ admitted' = admitted \cup {[packet |-> p, under |-> m]}
  /\ UNCHANGED <<files, requests, reported, local, commands, crashes, history>>

Crash(w) ==
  /\ crashes < MaxCrashes /\ crashes' = crashes + 1
  /\ local[w].pc # "idle"
  /\ Becomes(w, Idle)
  /\ damaged' = IF local[w].pc = "writing" THEN damaged \cup {local[w].file} ELSE damaged
  /\ UNCHANGED <<files, outcome, commands, overlapped, crossed, shown>>

-----------------------------------------------------------------------------
Command(w) ==
  \/ \E m \in Manifest : Install(w, m)
  \/ \E b \in Bundles : InstallAll(w, b) \/ ImportDir(w, b)
  \/ \E m \in InitWith : InitHome(w, m)
  \/ \E topic \in Topic, runtime \in Runtime :
       \/ \E m \in Manifest \cup {None} : Ask(w, topic, runtime, m)
       \/ \E accepts \in SUBSET Paths : Join(w, topic, runtime, accepts)

Step(w) ==
  \/ Open(w) \/ Write(w) \/ TestFile(w) \/ Installed(w) \/ ReadActive(w) \/ Pin(w)
  \/ Prefer(w) \/ ChooseGuidance(w) \/ RecordRequest(w)

Next ==
  \/ \E w \in Worker : Command(w) \/ Step(w) \/ Crash(w)
  \/ ShowCatalog
  \/ \E p \in Packet : Propose(p)

Spec == Init /\ [][Next]_vars

-----------------------------------------------------------------------------
\* Every file holds a text of its own kind, whoever wrote it, and every request
\* and packet is within the constitution it pins.
TypeOK ==
  /\ files \in [File -> Text \cup {None, Torn}]
  /\ \A m \in Manifest, f \in File : files[f] = m => f \in {Path[m], ActiveFile}
  /\ \A r \in requests : Suits(r.constitution, r.topic, r.runtime)
  /\ \A a \in admitted : About[a.packet] \in Covers[a.under] /\ a.packet \in Meets[a.under]
  /\ reported \subseteq [identity : Identity, constitution : Manifest]
  /\ shown \subseteq Manifest
  /\ overlapped \cup damaged \subseteq File /\ crossed \subseteq Paths
  /\ commands \in 0..MaxCommands /\ crashes \in 0..MaxCrashes

\* docs/CONSTITUTIONS.md:97 "<version> is immutable": a manifest that a process
\* has found, shown, accepted, requested or admitted a packet under stays the
\* content of its version, unless two processes created the file at once.
VersionsImmutable ==
  \A m \in shown \cup {r.constitution : r \in requests} \cup {a.under : a \in admitted} :
    files[Path[m]] = m \/ Path[m] \in overlapped

\* constitutions.py:483: the catalog of a root, and with it list, select, ask and
\* verify, fail only while a file is being written, or because its writer was
\* killed or had company.
TornExplained ==
  \A f \in File : files[f] = Torn =>
    f \in damaged \cup overlapped \/ \E w \in Creating(f) : local[w].pc = "writing"

\* cli.py:384: import-dir and install-all stop half way only at a file that came
\* up after their check, or that was being written or damaged before.
BundleStopsExplained ==
  \A w \in Worker :
    LET f == Path[Head(local[w].todo)] IN
    local[w].checked /\ local[w].todo # <<>> /\ local[w].pc = "installing"
      /\ files[f] \notin {None, Head(local[w].todo)} =>
        f \in crossed \cup damaged \cup overlapped \/ Creating(f) # {}

\* w1.py:104: the identity and the constitution that `commons init` reports stay
\* those of the home, and the constitution can be proposed under, unless two
\* inits ran at once or one was killed.
InitKept ==
  \A r \in reported :
    /\ files[IdentityFile] = r.identity \/ IdentityFile \in overlapped
    /\ files[Path[r.constitution]] = r.constitution \/ Path[r.constitution] \in overlapped
    /\ \/ files[ActiveFile] = r.constitution
       \/ ActiveFile \in overlapped \cup damaged \/ Creating(ActiveFile) # {}

\* discovery.py:216 "preferring its exact accepted refs": what is requested for a
\* handshake that accepts something suitable is what it accepts, whatever is
\* installed between the two listings.
AcceptedIsRequested ==
  \A r \in requests :
    (\E m \in r.accepted : Suits(m, r.topic, r.runtime) /\ Path[m] \notin overlapped)
      => r.constitution \in r.accepted \/ Path[r.constitution] \in overlapped
=============================================================================
