------------------------------ MODULE Publication ------------------------------
(***************************************************************************)
(* PublicationService over PublicResearchIndex (publication.py, index.py): *)
(* publishers hand in snapshots, the service keeps a record per            *)
(* publication, a quota and a revocation list, and writes everything to    *)
(* index.json and service.json so that a later process can load it.  The   *)
(* calls are synchronous; what interrupts them is the death of the         *)
(* process, which may fall between any two file operations of save.        *)
(*                                                                         *)
(* A refused call (revoked, over quota, not authorised, private, over the  *)
(* packet limit) raises and changes nothing: it is a stuttering step.      *)
(***************************************************************************)
EXTENDS Naturals, FiniteSets

CONSTANTS
  Publishers, Packets, Snapshots,
  PacketsOf,       \* the packets of a snapshot
  Keys,            \* constitution id and version
  Manifests, KeyOf,
  ManifestOf,      \* the manifest a snapshot carries, or NoManifest
  Malformed,       \* manifests that ConstitutionManifest.from_dict refuses
  NoManifest, NoFile, Torn,
  Quota,           \* max_publications_per_publisher
  GivenLimit,      \* max_packets of the index handed to the constructor
  DefaultLimit     \* max_packets of an index made without arguments

ASSUME DataAssumption ==
  /\ PacketsOf \in [Snapshots -> (SUBSET Packets) \ {{}}]
  /\ KeyOf \in [Manifests -> Keys]
  /\ ManifestOf \in [Snapshots -> Manifests \cup {NoManifest}]
  /\ Malformed \subseteq Manifests
  /\ NoManifest \notin Manifests

ASSUME LimitAssumption ==
  /\ Quota \in Nat \ {0}
  /\ GivenLimit \in Nat \ {0}
  /\ DefaultLimit \in Nat \ {0}

VARIABLES
  up,              \* a process holds the service
  index,           \* its PublicResearchIndex
  service,         \* records, counters and revocations
  saving,          \* how far save has come
  indexFile, serviceFile,
  republished,     \* history: some publication was submitted again
  malformed        \* history: a malformed manifest has been retained

memory == <<index, service>>
disk == <<indexFile, serviceFile>>
history == <<republished, malformed>>
vars == <<up, memory, saving, disk, history>>

-----------------------------------------------------------------------------
(* The index.                                                               *)

Indexes ==
  [packets : SUBSET Packets, manifests : [Keys -> Manifests \cup {NoManifest}],
   limit : {GivenLimit, DefaultLimit}]

EmptyIndex(limit) ==
  [packets |-> {}, manifests |-> [k \in Keys |-> NoManifest], limit |-> limit]

Fits(i, s) == Cardinality(i.packets \cup PacketsOf[s]) <= i.limit

\* The first manifest retained under a key stays (dict.setdefault).
Ingested(i, s) ==
  LET m == ManifestOf[s] IN
  [i EXCEPT
    !.packets = @ \cup PacketsOf[s],
    !.manifests = [k \in Keys |->
      IF i.manifests[k] = NoManifest /\ m # NoManifest /\ k = KeyOf[m]
        THEN m ELSE i.manifests[k]]]

\* `index or PublicResearchIndex()`: an index without packets has length zero
\* and counts as absent, so its limit and manifests are not the ones kept.
IndexOrDefault(i) == IF i.packets = {} THEN EmptyIndex(DefaultLimit) ELSE i

-----------------------------------------------------------------------------
(* The service.  A publication's id is the digest of snapshot and publisher. *)

Publications == Publishers \X Snapshots
Services ==
  [records : SUBSET Publications, counts : [Publishers -> 0..Quota],
   revoked : SUBSET Publishers]

NewService ==
  [records |-> {}, counts |-> [u \in Publishers |-> 0], revoked |-> {}]

RecordsOf(s, u) == {r \in s.records : r[1] = u}

Init ==
  /\ up = TRUE
  /\ \E given \in SUBSET Packets :
       /\ Cardinality(given) <= GivenLimit
       /\ index = IndexOrDefault([EmptyIndex(GivenLimit) EXCEPT !.packets = given])
  /\ service = NewService
  /\ saving = "no"
  /\ indexFile = NoFile
  /\ serviceFile = NoFile
  /\ republished = FALSE
  /\ malformed = FALSE

\* What publish does to the service; the faults below drop or move a check.
Recorded(u, s) ==
  [service EXCEPT !.records = @ \cup {<<u, s>>}, !.counts[u] = @ + 1]

\* Seeded fault: the quota is off by one.
PublishOverQuota(u, s) ==
  /\ up /\ saving = "no"
  /\ u \notin service.revoked
  /\ service.counts[u] <= Quota /\ Fits(index, s)
  /\ index' = Ingested(index, s) /\ service' = Recorded(u, s)
  /\ UNCHANGED <<up, saving, disk, history>>

\* Seeded faults: the record, or the counter alone, is kept although the index
\* then refuses the snapshot.
PublishUnindexed(u, s) ==
  /\ up /\ saving = "no"
  /\ u \notin service.revoked
  /\ service.counts[u] < Quota
  /\ index' = IF Fits(index, s) THEN Ingested(index, s) ELSE index
  /\ service' = Recorded(u, s)
  /\ UNCHANGED <<up, saving, disk, history>>

PublishCountsRefusals(u, s) ==
  /\ up /\ saving = "no"
  /\ u \notin service.revoked
  /\ service.counts[u] < Quota /\ ~Fits(index, s)
  /\ service' = [service EXCEPT !.counts[u] = @ + 1]
  /\ UNCHANGED <<up, index, saving, disk, history>>

\* The record of the same snapshot by the same publisher is overwritten, the
\* counter grows all the same.
Publish(u, s) ==
  /\ up /\ saving = "no"
  /\ u \notin service.revoked
  /\ service.counts[u] < Quota
  /\ Fits(index, s)
  /\ index' = Ingested(index, s)
  /\ service' = Recorded(u, s)
  /\ republished' = (republished \/ <<u, s>> \in service.records)
  /\ malformed' = (malformed \/ \E k \in Keys : index'.manifests[k] \in Malformed)
  /\ UNCHANGED <<up, saving, disk>>

Revoke(u) ==
  /\ up /\ saving = "no"
  /\ service' = [service EXCEPT !.revoked = @ \cup {u}]
  /\ UNCHANGED <<up, index, saving, disk, history>>

\* save writes index.json, then service.json; each write truncates first.
SaveIndex ==
  /\ up
  /\ \/ saving = "no" /\ saving' = "index" /\ indexFile' = Torn
     \/ saving = "index" /\ saving' = "between" /\ indexFile' = index
  /\ UNCHANGED <<up, memory, serviceFile, history>>

SaveService ==
  /\ up
  /\ \/ saving = "between" /\ saving' = "service" /\ serviceFile' = Torn
     \/ saving = "service" /\ saving' = "no" /\ serviceFile' = service
  /\ UNCHANGED <<up, memory, indexFile, history>>

\* The process ends, in an orderly way or not: nothing is saved on the way out.
Stop ==
  /\ up
  /\ up' = FALSE
  /\ saving' = "no"
  /\ UNCHANGED <<memory, disk, history>>

-----------------------------------------------------------------------------
Readable(file) == file \notin {NoFile, Torn}

\* The checks of PublicationService.load and PublicResearchIndex.load.
CountersMatch(s) == \A u \in Publishers : s.counts[u] = Cardinality(RecordsOf(s, u))
IndexLoads(i) ==
  /\ \A k \in Keys : i.manifests[k] \notin Malformed
  /\ Cardinality(i.packets) <= i.limit

Loads ==
  /\ Readable(serviceFile) /\ CountersMatch(serviceFile)
  /\ Readable(indexFile) /\ IndexLoads(indexFile)

\* Seeded fault: the revocations in the file are not taken over.
LoadForgetful ==
  /\ ~up /\ Loads
  /\ up' = TRUE
  /\ index' = IndexOrDefault(indexFile)
  /\ service' = [serviceFile EXCEPT !.revoked = {}]
  /\ UNCHANGED <<saving, disk, history>>

\* Seeded fault: the counters start again from zero.
LoadRecounts ==
  /\ ~up /\ Loads
  /\ up' = TRUE
  /\ index' = IndexOrDefault(indexFile)
  /\ service' = [serviceFile EXCEPT !.counts = [u \in Publishers |-> 0]]
  /\ UNCHANGED <<saving, disk, history>>

Load ==
  /\ ~up /\ Loads
  /\ up' = TRUE
  /\ index' = IndexOrDefault(indexFile)
  /\ service' = serviceFile
  /\ UNCHANGED <<saving, disk, history>>

Next ==
  \/ \E u \in Publishers, s \in Snapshots : Publish(u, s)
  \/ \E u \in Publishers : Revoke(u)
  \/ SaveIndex
  \/ SaveService
  \/ Stop
  \/ Load

Spec == Init /\ [][Next]_vars

-----------------------------------------------------------------------------
TypeOK ==
  /\ up \in BOOLEAN
  /\ index \in Indexes
  /\ service \in Services
  /\ saving \in {"no", "index", "between", "service"}
  /\ indexFile \in Indexes \cup {NoFile, Torn}
  /\ serviceFile \in Services \cup {NoFile, Torn}
  /\ republished \in BOOLEAN
  /\ malformed \in BOOLEAN

\* Every publication the service shows has all its packets in the index, also
\* after a process died between the two files: index.json is written first,
\* so it is never older than service.json.
RecordsBacked ==
  up => \A r \in service.records : PacketsOf[r[2]] \subseteq index.packets

\* The quota holds over any number of restarts: a publisher never has more
\* publications than its counter shows, and never more than the quota.
QuotaHolds ==
  \A u \in Publishers :
    /\ Cardinality(RecordsOf(service, u)) <= service.counts[u]
    /\ service.counts[u] <= Quota

\* What a process has of a readable file is at least what the file says: no
\* restart takes back a revocation, a record, a packet or a manifest that was
\* saved, and a saved manifest is never replaced by another one.
MemoryCoversDisk ==
  /\ up /\ Readable(serviceFile) =>
       /\ serviceFile.revoked \subseteq service.revoked
       /\ serviceFile.records \subseteq service.records
  /\ up /\ Readable(indexFile) =>
       /\ indexFile.packets \subseteq index.packets
       /\ \A k \in Keys : indexFile.manifests[k] \in {NoManifest, index.manifests[k]}

\* A publisher on the revocation list adds nothing to what it has published.
RevokedAddNothing ==
  [][\A u \in service.revoked :
       up /\ up' => RecordsOf(service', u) \subseteq RecordsOf(service, u)]_vars

\* load refuses files that were written completely only for one of two
\* reasons: a publication was submitted twice, or a manifest that does not
\* parse was retained.  Nothing else the service accepts makes its own files
\* unreadable.
RefusalExplained ==
  (Readable(serviceFile) /\ Readable(indexFile) /\ ~Loads) => (republished \/ malformed)

\* publication.py:67 "Persist index and publisher lifecycle state for safe
\* restart": what a save has written completely can be loaded again.
SafeRestart ==
  (~up /\ Readable(serviceFile) /\ Readable(indexFile)) => Loads
=============================================================================
