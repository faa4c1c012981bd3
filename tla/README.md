# A formal model of AAFP Commons

AAFP Commons is a local notebook of signed knowledge packets.  A *home* holds
packet objects named by their digest and a hash-chained ledger that commits
them; homes follow and replicate each other; agents adopt constitutions; a
publication service aggregates public snapshots; a mesh node gossips between
peers.  These modules model that behaviour in TLA+, check it with TLC on small
instances and prove the most important results with TLAPS for all instances.

The package takes no file lock anywhere, every command is a process of its own,
and the servers are threaded.  So the questions asked here are: what survives
concurrent callers, what survives a crash between two writes, and what a
restart finds.

## Inventory of the system

| Part | State | Operations | Hard behaviour | What makes it correct |
|---|---|---|---|---|
| Home (`repository.py`, `ledger.py`) | `objects/*.json`, `ledger.jsonl` | submit, get, query, verify | concurrent submits; crash between object and block; verify beside writers | each admitted packet written once and committed; the ledger a chain; verify tells the truth |
| Joining and adoption (`join.py`, `adoption.py`, `handshake.py`) | three directories of create-once files; session objects | begin, accept, reject, working_context, `agent respond`, `agent context` | racing responders; empty files after a crash; repeated use of frozen sessions | one decision per request; guidance active only when accepted |
| Publication (`publication.py`, `index.py`) | records, counters, revocations, index; `index.json`, `service.json` | publish, revoke, save, load, sync_from_peer | crash between the two files; repeated publication; limits | a saved service restarts with all it promised |
| Mesh node (`commons_node.py`, `mesh.py`) | a ledger with lock, peers, conflicts, forks, seen tips | submit, gossip, heartbeat, replica, propose, resolve; background loops | lost and late messages, forks, peers of unknown age | replicas converge or publish a fork |
| W1 (`w1.py`) | `peers.json`, `node.pid`, a home | follow, unfollow, replicate, pull, serve | partial replication, lost updates, two servers | what was pulled is held; one list, one server |
| Verification, review, conflicts | `verification/*.json`, `policy.rely.json`; reviews and resolutions are packets | verify, review, resolve, policy set, status | order of results; packets that arrive without what they are about | no conflict goes silently, nothing is relied upon without a cause |
| Constitutions, discovery | `constitutions/<id>/<version>.json`, `constitution.json` | install, install-all, import-dir, init, list, select, ask, join | two installations at once; half-written files; listing twice | a version is immutable; what was accepted is requested |
| Policy, UCAN | none | evaluate, verify | a constitution not installed yet, expiry | nothing is admitted without a reason |
| Sharing | a snapshot file | export, import | refusal in the middle | what was got past is held; only time or another receipt stops it |
| Transport | peer stores | send_join and handlers | one of two messages arrives | both acknowledged or an error |
| Signing, canonical form | none | digest, sign, verify | | outside the model: names are what they cover |
| MCP server, CLI, packages, providers | none of their own | request loops, printing | | their state changes are calls of the parts above |

Components interact through files and calls: W1, MCP, the mesh's propose and
the importers all end in `CommonsRepository.submit`; homes exchange objects
over the W1 server or a snapshot; reviews and resolutions travel as packets and
change what another home relies on; a join session and the command line share
the adoption stores; the admission policy reads constitutions; the publication
service owns its index.

`PROJECT.json` lists under "hazards" what is hard to test in this code, each at
its line, with the properties that cover it.  Three have no property, and say
why: no document of the repository promises anything about them, nobody calls
the code, or what happens is decided by a library outside it.

## Modules

| Module | Models |
|---|---|
| `AdmissionLog` | the promise of docs/ARCHITECTURE.md, invariant 4: a packet is stored once, then committed once |
| `CommonsHome` | `submit` and `Ledger.append` as file steps of any number of writers, with crashes |
| `AuditedHome` | `CommonsRepository.verify` running beside those writers |
| `Publication` | the publication service and its index, saved in steps, killed, loaded |
| `Adoption` | join sessions and command-line calls over the three create-once stores |
| `Mesh` | mesh nodes (`commons_node.py`): admission, gossip, fetch, replication, conflicts, /resolve, crash and restart |
| `ForkWatch` | the same nodes' heartbeats, pruning, fork records, signals and restarts |
| `Exchange` | W1 homes that follow, pull, serve, export and import |
| `Reliance` | results, reviews, resolutions and policies, and the status they give a claim |
| `ConstitutionStore` | installation, init and discovery by concurrent processes on one root |
| `MC*` | instances for TLC: constants, overlapping snapshots, symmetry |
| `CommonsHome_proofs` | theorems and proofs about `CommonsHome`, `AuditedHome` and `AdmissionLog` |
| `Publication_proofs`, `Adoption_proofs`, `Mesh_proofs`, `ForkWatch_proofs`, `Exchange_proofs`, `Reliance_proofs`, `ConstitutionStore_proofs` | theorems and proofs about the module they are named after |

The modules meet at their interfaces.  `Exchange` takes a submit as one step
and `CommonsHome` takes that step apart; `Reliance` takes a pull as the arrival
of single packets in any order, which is what `Exchange` makes of it;
`ForkWatch` lets a ledger grow by any packet, as `Mesh` has it grow;
`AuditedHome` extends `CommonsHome` and with one writer both implement
`AdmissionLog`.

### CommonsHome

`object[p]` is the file of packet `p`: absent, an envelope (which receipt), or
`Torn`.  A submit is `Submit` (resolve, policy), `PathExists`
(repository.py:98), `ReadExisting` (99-102), `OpenObject` and `WriteObject`
(`write_text` truncates, then writes: 103), `ReadBlocks` and `AppendBlock`
(ledger.py:138-158).  Two writers of one object may overlay their texts; the
result is either text or `Torn`.  A block's hash is modelled by what it covers,
the chain of headers behind it, so equal hashes mean equal histories.
`Crash` ends a call between any two steps.  Line 156-157 of ledger.py is one
append of a short line and is taken as atomic.  The policy's verdict is either
one: nothing `submit` writes changes what the policy reads.

`AuditedHome` adds `verify`: a listing, one reading per file, the ledger's own
verification, and the comparison with a second reading of the ledger.

### Publication

Each call of the service is one step; a refused call raises before it changes
anything and is a stuttering step.  `save` is four steps (truncate and write
index.json, truncate and write service.json) and `Stop` may fall between any
two.  `Load` has the checks of both load functions.  `IndexOrDefault` is
`index or PublicResearchIndex()`: an index of length zero counts as absent.

### Adoption

A file of the three stores is absent, empty (after `open(.., "x")`) or whole
(after `write`); content addressing fixes what a whole file says.  An agent is
a thread or process with at most one session.  `BeginSession` .. `ReadRequest`
are `AgentJoinSession.begin`; `Respond` .. `ReadToCompare` are
`respond_to_adoption_request`; `Glob` and the `Read..` actions are
`FileAdoptionDecisionStore.get`, which lists first and reads later, for its
four callers: `record` (to compare), `working_context`, and twice the context
command.  `MayUse` lets a session object that has been answered be used again,
since the objects are frozen and the awaiting one stays valid.  Selection among
installed constitutions and the resolver's checks only decide whether a call
goes on, so they are a choice to raise (`RefuseRequest`, stuttering elsewhere).

### Mesh

Every node has its store, ledger, memory (`seen`, `conflicts`, `resolutions`)
and files, and threads: the request threads of its `ThreadingHTTPServer` and
the replication loop.  A thread's locals are one record; `origin` says who
called.  `Admit` takes the lock of `submit_packet` and looks for the object;
`OpenObject` .. `AppendBlock` write object and block (`ReadBlocks` is the first
half of `HeightOneLedger.append`); `CheckConflict` and `WriteConflict` are
`_check_conflicts`, one contradicted packet at a time; `Admitted` releases the
lock, which is held exactly while a thread is at one of `LockedSteps` and not
in /resolve.  `Resolve` .. `Publish` are /resolve, which then runs the same
writing steps without the lock (:1017-1046).  `Tell`, `HearTip`, `NoteTip`,
`Fetch`, `FetchFails` are the gossip of tips: told once, acknowledged, marked
seen and then fetched.  `AskReplica` .. `StopReplication` are
`replicate_from_peer`, where the comparison with the own tip (:563) is outside
the lock.  `Crash` loses memory and threads and loads what disk has.

Signatures, envelopes and policies are the constant `Admits`: the packets a
node accepts.  What a packet contradicts is the constant `Contradicts`, and
the findings that may publish a resolution are `Findings`.

### ForkWatch

`known` is `_known_peers` (tip and age of who was heard), `snapshot` and
`count` are `_last_tip_snapshot` and `_tip_stable_count`, `records` is
`_fork_records` and `files` the directory fork-records/.  Both background
threads of a node run `check_and_publish_fork` without a lock, one field access
or file operation at a time: `Prune` and `Delete` (list the stale peers, delete
them by name), `Read` (own tip, then the packets), `Compare`, `Remember`,
`List`, `Unlink`, `WriteRecord`.  The loops suppress every exception, so a
check that raises is over and the next one begins anew.  Heartbeats are sent
into `wire`, where they are lost, late or overtaken; `Age` lets a heard peer
become older than 30 seconds.

`Terminate` is SIGTERM: the handler calls `server.shutdown()` in the thread
that runs `serve_forever`, which waits for itself, so the process is "hung"
(its threads finish the check they are in) until `Kill`, which is also any
other end of a process.  `Start` loads ledger, conflicts and records; what was
heard is gone.  A ledger grows by any admitted packet and contradictions are
noted later (`Admit`, `NoteConflict`), both as in `Mesh`.

Three things were noticed on the way.  Any agent that was heard counts as a
peer, where a docstring says "tips from ALL configured peers".
`_publish_fork_to_ledger` is never called, so records exist in memory and on
disk only.  The prune of heartbeat_loop is the first step of the check that
follows it.  A record file that does not read counts as none, and several
processes on one root are not modelled.

### Exchange

Homes are numbered in the order of their URLs, packets in the order of their
digests: that is how a pull visits them.  An object is known by the home that
signed it, so that an author who signs one packet at two homes makes two
receipts of it.  `Edit`, `OpenPeers`, `WritePeers` are follow and unfollow
(w1.py:297-310): the list is read, and later the file truncated and written.
`CheckPid` .. `RemovePid` are serve: test the pid file, bind a port, write the
file, and at SIGTERM close the listener and remove the file.  `Pull` and
`Replicate` visit peers (`Fetch`, `FetchFails`) and submit what they got packet
by packet (`SubmitNext`); a packet that is refused ends the command
(`StopAtRefusal`).  `Export` and `Import` share those steps.  `Propose`,
`Install` and `Expire` are what changes in between.  Of the admission policy
this module has what changes over time: a constitution that is not installed,
and expiry.

`wanted`, `muddled` and `raced` are history: what the completed commands should
have made of the list, and the homes whose list or server was handled by two
processes at once.

### Reliance

`held` is the objects/ directory of each home, `recorded` its verification/
directory (a result is absent, signed or unsigned) and `policy` the two fields
that `policy set` writes.  `Record`, `Decide`, `Resolve`, `Propose`,
`SetPolicy` and `Arrive` are the commands and the arrival of another home's
packet.  What a status shows is a function of these: `Values`, `Conflict`,
`ConsequentialOk`, `Verdict`, `Accepted`, `RelyOk`, `Badges`, `InReview`, each
from the function of verification.py, conflicts.py or review.py it is named
after.  Results and policies never leave a home, which is why two homes may
rely on different claims.

### ConstitutionStore

`files` has what each file holds: a manifest, an identity, nothing, or a text
that is no JSON.  Installing tests the file (`TestFile`), opens it with
truncation (`Open`) and writes (`Write`); install-all and import-dir check the
whole bundle first, in one step, and then install file by file.  A bundle has
one manifest of each version (`OnePerVersion`: cli.py:399 refuses another, and
the registry keeps its packages by id and version).  `InitHome`,
`ReadActive` and `Pin` are `commons init` around an installation; an identity
it generates is one nobody has (`Fresh`).  `Join`,
`Prefer`, `Ask`, `ChooseGuidance` and `RecordRequest` are discovery: it lists
the root when it chooses for a handshake, lists it again when it looks for
guidance, and resolves once more when it records.  `Propose` is the MCP tool,
which pins the home's constitution.  Commands that only read are one step.

History: `overlapped` has the files two processes were creating at once,
`damaged` those whose writer was killed, `crossed` those created while the
checked bundle of another process still held them, `shown` the manifests some
process has found installed.

## Runs

| Run | Instance | What it shows |
|---|---|---|
| `home_race` | 2 writers, 2 packets, 2 receipts, 1 crash | what the lock-free home still keeps, and that a created object gets its block unless its writer died |
| `home_solo` | 1 writer, 2 packets, 2 receipts, 2 stamps, 2 crashes, an auditor | the chain, the exact verdict of verify, and refinement of `AdmissionLog` |
| `publication_restart` | 2 publishers, 3 overlapping snapshots, quota 2, limits 2 and 1 | quota, revocation and records over crashes and restarts |
| `publication_safe_restart` | the same, well-formed manifests | violated: a repeated publication makes the saved state unloadable |
| `adoption_race` | 2 agents, 1 handshake, 1 request, 3 decisions (2 accept), 2 crashes | readers agree, only accepted guidance is active, requests are readable |
| `adoption_one_decision` | 2 agents, no crash | violated: two decisions for one request |
| `mesh_race` | a reconciler with 2 request threads, a peer with 1; a claim, a claim against it, a finding; 2 requests, 1 replication round, 1 crash | the lock keeps chain and uniqueness except around resolutions; missed conflicts and unpublished resolutions have a cause; what was told is held unless something failed or the teller is no peer |
| `fork_watch` | a watcher and a peer, 2 packets that contradict each other, 1 check of the second thread, 1 fault | records are true, the one in memory is on disk unless two threads published at once, and a difference of tips that lasts becomes the one record of it |
| `exchange` | 3 homes (one follows the others), 2 packets, 2 constitutions, 2 processes, 4 commands, 1 crash | what a pull or import holds, what stops it, and what becomes of peer lists and servers |
| `reliance` | 2 homes, 2 claims, 2 results, 3 reviews, 2 resolutions, 3 policies | conflicts and badges do not go silently; nothing is relied upon without a cause |
| `reliance_review` | the same | violated: a review sets `rely_ok` |
| `constitutions` | 2 versions, one with two contents, a bundle, 2 processes, 3 commands, 1 crash | versions stay, damage and half-done bundles have a cause, init is kept, what was accepted is requested |

Bounds.  Two writers (agents, processes, threads) give every pairwise
interleaving.  Two packets and two receipts give both ways in which submits
meet: the same packet under the same or another envelope, and different packets
meeting in the ledger.  A crash is needed once to lose a block and twice to
show that losses do not add up to something new.  Writers may submit again and
again; the ledger stays finite because a packet that is present is not
committed again (`CommitsBounded`).  The limits of `publication_restart` are
small enough that quota, packet limit and the default limit are all reached.
`adoption_race` has one more decision than agents; requests share nothing but
the code, so one is enough for TLC, and the theorems cover any number.  In
`mesh_race` two requests and one round are three callers of the same node at
once (each request also reaches the other node by gossip), so every pair of
submission, resolution, fetch and replication meets; the finding may be signed
twice, and the peer rejects it, so refusals occur.

In `fork_watch` one identical snapshot after the first is enough to publish
(`StableChecks`, 3 in the code): counting to three repeats the same steps.  One
fault (a peer gone stale, a SIGTERM or a kill) falls at any step; losing
heartbeats is not counted and may happen without end.  Ledgers grow and
conflicts are noted while checks run, so a watcher meets records it has to
replace.  In `exchange` four commands are two pulls of a home beside two edits,
two servers or an export and an import; private and perishable packets, a
constitution installed late and a packet with two receipts are all there.  In
`reliance` nothing is bounded but the constants; each home trusts the other,
one allows the same operator to verify, and one does not admit everything, so
resolutions arrive before, after and without their conflicts.  In
`constitutions` three commands are two installations and a reader, or an init
between two installations.  `MaxRequests`, `MaxRounds`, `MaxCommands`,
`MaxFaults` and `MaxCrashes` bound what users and the environment start, never
what the program does.

Fairness is assumed in two places.  `FairSpec` of `CommonsHome` gives each
writer weak fairness for the steps of a submit it has begun (operating-system
threads run; no step waits for another process).  Beginning a submit and
crashing are never forced.  It is used by `CreatedThenCommitted` only.
`FairSpec` of `ForkWatch` gives weak fairness to the heartbeat loop (it repeats
every 5 seconds for as long as the process runs) and to the steps of a check
that has begun, and strong fairness to hearing a peer: of the heartbeats a node
sends again and again, one is handled in the end, however many are lost.
Nobody is forced to admit packets, to replicate, to stop or to start.
`ForkRecorded`, which uses it, therefore speaks of nodes that stay up.

The deadlock check is off where the system may really stop: in the publication
runs a process that has stopped with files it cannot load stays down; in the
`home_*`, `exchange`, `reliance` and `constitutions` runs no user need start
another command, and the bounds end them; `mesh_race` is quiet once the bounded
requests are answered.  The adoption runs and `fork_watch` check for deadlock.

## What the checks found

Three disagreements with what the repository says, each a run:

* Publishing a snapshot twice overwrites the record and counts it again
  (publication.py:151-152); the saved state is then refused
  (publication.py:110).
* Two responders may both record a decision (adoption.py:286); every later get
  raises, and both were told that theirs is recorded.
* A review may set `rely_ok` (docs/REVIEW.md:80 says it does not).  As soon as
  a claim has a conflict, every resolution of the claim is asked, whatever it
  was about (verification.py:322); where a trusted resolver's resolution is
  held and no conflict is open, a review that opens one makes the claim relied
  upon.

What the properties that hold name as the exceptions was found in the same way,
by counterexamples to stronger forms; no document promises otherwise:

* Two submits of one packet may both write and commit it (repository.py:98),
  and the ledger of a raced home is a tree of blocks that `Ledger.verify`
  rejects (`BlocksExtendPrefixes`, `CommitsBounded`).  A crash between
  repository.py:103 and :104 leaves a packet that later submits call
  already-present and never commit (`UncommittedAccounted`).
* In the mesh, /resolve breaks the chain, because it appends without the lock;
  a replica compares hashes before it takes the lock (commons_node.py:563); a
  contradiction whose packets arrive in the other order is not recorded; a
  resolution cut off by a crash is never published; a node never gets beyond
  the first block of a peer by replication once it has signed a block of its
  own.
* A node that is told a tip by a node outside its own list of peers notes the
  tip as seen and asks nobody who has it (commons_node.py:757), so the packet
  stays away although nothing failed.  This came up in the proof: in
  `mesh_race` both nodes list each other, and no run has a one-sided list
  (`SeenIsHeld`).
* Two threads that publish a fork at once may leave a record on disk that is
  not the one in memory, until the next publication or restart (`RecordOnDisk`).
* A packet that a home refuses stops every later pull from that peer
  (`BlockedForGood`), and a signed result that is recorded again unsigned takes
  its conflict or its support with it (`StatusPersists`).
* Two processes that install different contents of one version at once both
  succeed, and the later one stays (`VersionsImmutable`); a process killed in
  `write_text` leaves a file on which every listing of the root raises
  (`TornExplained`).

What holds in spite of this is the larger part: no block without its object, no
lost committed history, every orphan explained, a sound verify, quota and
revocation over restarts, agreement of readers, no context under a rejection,
pulls that hold what they got past, imports that bring what they need, one
record per lasting fork, and no silent promotion.

## Proofs

All theorems hold for every value of the constants, under the assumptions the
modules name: markers differ from real values, bounds are naturals, limits are
positive, snapshots are not empty.  Finite are assumed the homes and packets of
`Exchange` (`Home`, `Packet`: what a pull visits is sorted), the manifests of
`ConstitutionStore` (of those that suit, one has the highest version), the nodes
of `ForkWatch` (peers are counted) and, as a hypothesis of `CommitsAreBounded`,
the writers.  "One writer" is a hypothesis (`Solo`) of `SoloChainHolds`,
`SoloAdmitsAsPromised` and `QuietAuditsAreExact`; the other theorems have none.

Every invariant and action property that a passing run checks is also a
theorem.  Each proof follows one pattern: an invariant that is inductive, a lemma for each
kind of step, and the property as a consequence.

* `CommonsHome_proofs`.  `HomeInv` is the inductive invariant: types, blocks
  that extend prefixes of the ledger, *tips that name prefixes* (what `append`
  has read stays a prefix because the ledger only grows), *committed packets
  and opened objects have files* (a writer past `OpenObject` has its file) and
  the account of uncommitted objects.  The helpers are not interesting alone,
  but the properties are not inductive without them.  `CommitsAreBounded`
  needs `WithinBudget`: once a packet has a file, its blocks and the writers
  that may still append one are together at most the writers there are, since
  each trades its place among them for one block.
  - One writer.  `ChainInv` adds that its tip is the ledger's end and proves the
    chain; `LogInv` adds what the writer knows of the object it works on and
    proves, by a refinement mapping that reads a torn file as not stored, that
    each step of the home is a step of `AdmissionLog` or stutters.
  - Audits.  `AuditOnlyObserves` carries what is true of the home over to a home
    that is verified.  `AuditInv` has the ledger length at the time of reading:
    whatever is appended later, the verified blocks stay a prefix
    (`ValidAuditsAreSound`).  `QuietInv` proves the exact verdict: a file
    without a block was left by a writer that died and never gets one
    (`OrphansStay`), and what an undisturbed audit has read is still so
    (`QuietAudit`).
* `Publication_proofs`.  `PubInv` compares memory with disk through one order,
  *covers*: memory covers a readable file, an index file covers the service
  file's records, also in the middle of a save.  `Loadable` says of memory and
  of both files alike that they would load (within the limit, every manifest
  parses, counters match records) unless history names the reason: what is
  saved is what memory holds, and what is loaded is what a file holds.
* `Adoption_proofs`.  The stores only grow, so what an agent has found stays
  true.  The key part of `Inv` is `SightingsAgree`: a decision that some get
  has returned *or is about to return* is the only one ever sighted.  A listing
  that finds exactly one path can only find the one sighted before, because
  that path has not gone away.  From this follow `ReadersAgree` and, with the
  session's own record, `OnlyAcceptedIsActive`.
* `Mesh_proofs`.  `MeshInv` is `TypeOK` and, for each node, `NodeInv`; nothing
  in it looks at another node, which is why gossip and replication cannot break
  it.  Its own parts: what a thread in the middle of an admission knows
  (`FactsOK`: its packet has no block yet, the tip it read is still the tip),
  *one thread holds the lock* (`LockOK`), and *an object without a block has a
  thread on its way to append one* (`AccountedOK`), which carries
  `UnpublishedExplained` past the early return of /resolve.  The steps fall
  into kinds, with one lemma for each: those that only move a thread
  (`QuietStep`), writing, appending, noting a conflict, crashing; the actions
  follow from these.
  - `GossipInv` is the part that relates nodes and proves `WhatIsToldIsHeld`:
    who tells a packet, on the wire or still in a thread, has its whole object
    (`WireOK`, `TalkOK`); a thread that looks for a packet has somebody left to
    ask who serves it, unless a request was lost (`Finds`); and a packet that
    was seen is held, carried by a thread, or excused (`SeenOK`).  `Finds` is
    what a one-sided list of peers breaks.
* `ForkWatch_proofs`.  `WatchInv` has what a check carries from step to step: a
  tip that was read before the packets names packets among them (`TipWithin`),
  and a fork that was compared once stays one, since ledgers and conflicts only
  grow (`ForkStays`).  `DiskOK` is the heart of `RecordIsOnDisk`: of a sole
  publication the record is in memory, and the directory holds what the thread
  has still to remove, or nothing.
* `Exchange_proofs`.  `Types` is `TypeOK` with what a process at work has (a
  home, a peer).  The next packet and the next peer are minima of sets of
  numbers, which exist because `<` is well-founded on the naturals.  A place in
  a store is filled once and for all (`ObjectsStay`), from which `FetchedStays`
  and `RefusalsLast` follow.  `Supplied` says that a snapshot has the
  constitutions of its packets and that an import under way has them installed.
  `Lists` and `Servers` are one conjunction per home that was not handled by
  two processes at once: the one edit under way follows from the list the
  commands made, and the one server process owns the pid file.  Commands fall
  into three kinds (`PullKind`, `ServeKind`, `EditKind`), so each invariant is
  proved over the actions of one kind.
* `Reliance_proofs`.  Packets are only added and a signed result goes only when
  it is recorded again unsigned (`StepKeeps`); the values that conflict grow,
  and incompatibility grows with them.  `NoSilentPromotion` shows that a change
  of policy needs no mention: a policy only matters under a conflict, and there
  it takes a trusted resolver.
* `ConstitutionStore_proofs`.  `StoreInv` is local to one file or one process.
  What a file may hold is what was shown to be installed under its name
  (`FilesOK`); a file outside `overlapped` has one writer, who finds what it
  left there (`WriterOK`); an init that is about to pin its constitution is
  alone and still right about what it read (`PinningOK`, `IdentityOK`); what a
  checked bundle has still to install is not in its way, or explained
  (`BundleOK`); and the choice between two listings only gets better, because
  what was shown stays (`ChoiceOK`, `ShownKept`).  Most commands leave the files
  alone and enter a new state of one process: they share one lemma
  (`EnterStep`).  `Open` and `Write`, which change a file, have a lemma for each
  part of the invariant.

Two properties were false as first stated, and the proofs showed it.
`SeenIsHeld` needed the exception for one-sided lists of peers.
`BundleStopsExplained` needed that a bundle has one manifest of each version:
otherwise the bundle would meet its own earlier file.  `InitKept` became
stronger: it speaks of the identity that was reported, and not of the
constitution alone.

The type invariants of `CommonsHome`, `Adoption` and `Mesh` are theorems and
are not repeated in runs.

Model-checked only: `CreatedThenCommitted` and `ForkRecorded`.  They are
liveness under fairness, which is out of the prover's reach, as is `ENABLED`.
The three properties that runs show violated have no theorem, of course.

## Not modelled

* Cryptography, canonical JSON, identities on disk, argument parsing, printing.
  A digest is taken to determine its text.
* The AAFP library and the network below it.  `transport.py` is a client of
  that library, whose delivery guarantees are not in the repository; a model
  would have to invent them.
* Capability chains (UCAN): a pure check of signatures and attenuation.  Its
  outcome is part of what a home admits.
* Blocks of several packets and the Merkle root over them: the package appends
  single packets only.  Checkpoints and deltas of the public index: nothing in
  the repository synchronises two indexes.
* The pid and key files of the mesh daemon and its read-only pages; the request
  loop of the MCP server, which is sequential and calls what the modules model.
* Power loss (reordered or lost writes after a call returned): a crash is the
  death of a process.  Readers other than verify and the listings of
  `ConstitutionStore` raise on a torn file and change nothing.
* `src/scripts` and the benchmarks drive the system and promise nothing.

## Plan

1. Done: the modules above, with the proofs named.
2. Next proofs: a step-by-step safety part of `ForkRecorded` (what a finished
   check leaves in memory when its view was stable), and the refinement of
   `AdmissionLog` by a mesh node whose ledger no resolution touches.
