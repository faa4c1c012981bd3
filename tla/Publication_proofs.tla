-------------------------- MODULE Publication_proofs --------------------------
(* What a publication service keeps through any sequence of publications,    *)
(* revocations, saves, crashes and restarts, for every quota and limit.      *)
EXTENDS Publication, FiniteSetTheorems, TLAPS

-----------------------------------------------------------------------------
(* The index.                                                               *)

\* An index that holds no packet retains no manifest either.
Bare(i) == i.packets = {} => \A k \in Keys : i.manifests[k] = NoManifest

\* Later is at least what earlier was.
IndexCovers(later, earlier) ==
  /\ earlier.packets \subseteq later.packets
  /\ \A k \in Keys : earlier.manifests[k] \in {NoManifest, later.manifests[k]}

LEMMA CoversTransitive ==
  ASSUME NEW a \in Indexes, NEW b \in Indexes, NEW c \in Indexes,
         IndexCovers(b, a), IndexCovers(c, b)
  PROVE  IndexCovers(c, a)
  BY DEF IndexCovers

\* Ingesting a snapshot only adds: its packets are there afterwards.
LEMMA IngestCovers ==
  ASSUME NEW i \in Indexes, NEW s \in Snapshots
  PROVE  /\ Ingested(i, s) \in Indexes
         /\ IndexCovers(Ingested(i, s), i)
         /\ PacketsOf[s] \subseteq Ingested(i, s).packets
         /\ Bare(Ingested(i, s))
<1> DEFINE m == ManifestOf[s]
           kept == [k \in Keys |->
                      IF i.manifests[k] = NoManifest /\ m # NoManifest /\ k = KeyOf[m]
                        THEN m ELSE i.manifests[k]]
<1>1. PacketsOf[s] \subseteq Packets /\ PacketsOf[s] # {} /\ m \in Manifests \cup {NoManifest}
  BY DataAssumption
<1>2. i.packets \subseteq Packets /\ i.manifests \in [Keys -> Manifests \cup {NoManifest}]
      /\ i.limit \in {GivenLimit, DefaultLimit}
  BY DEF Indexes
<1>3. kept \in [Keys -> Manifests \cup {NoManifest}]
  BY <1>1, <1>2
<1>4. \A k \in Keys : i.manifests[k] \in {NoManifest, kept[k]}
  BY <1>2
<1>5. Ingested(i, s) = [i EXCEPT !.packets = @ \cup PacketsOf[s], !.manifests = kept]
  BY DEF Ingested
<1>6. /\ Ingested(i, s).packets = i.packets \cup PacketsOf[s]
      /\ Ingested(i, s).manifests = kept
      /\ Ingested(i, s) \in Indexes
  BY <1>1, <1>2, <1>3, <1>5 DEF Indexes
<1> QED BY <1>1, <1>4, <1>6 DEF IndexCovers, Bare

\* Dropping the limit of an index without packets loses none of its content.
LEMMA DefaultCovers ==
  ASSUME NEW i \in Indexes, Bare(i)
  PROVE  /\ IndexOrDefault(i) \in Indexes
         /\ IndexCovers(IndexOrDefault(i), i)
         /\ Bare(IndexOrDefault(i))
  BY DEF IndexOrDefault, EmptyIndex, Indexes, IndexCovers, Bare

-----------------------------------------------------------------------------
(* The service.                                                             *)

ServiceCovers(later, earlier) ==
  /\ earlier.revoked \subseteq later.revoked
  /\ earlier.records \subseteq later.records

\* Each counter is at least the number of records it stands for.
Counted(s) ==
  \A u \in Publishers :
    IsFiniteSet(RecordsOf(s, u)) /\ Cardinality(RecordsOf(s, u)) <= s.counts[u]

Backed(s, i) == \A r \in s.records : PacketsOf[r[2]] \subseteq i.packets

LEMMA RecordedCounted ==
  ASSUME service \in Services, Counted(service),
         NEW u \in Publishers, NEW s \in Snapshots, service.counts[u] < Quota
  PROVE  /\ Recorded(u, s) \in Services
         /\ ServiceCovers(Recorded(u, s), service)
         /\ Recorded(u, s).records = service.records \cup {<<u, s>>}
         /\ Counted(Recorded(u, s))
<1> DEFINE new == Recorded(u, s)
<1>1. /\ new.records = service.records \cup {<<u, s>>}
      /\ new.revoked = service.revoked
      /\ new.counts = [service.counts EXCEPT ![u] = @ + 1]
      /\ DOMAIN new = {"records", "counts", "revoked"}
      /\ service.counts \in [Publishers -> 0..Quota]
  BY DEF Recorded, Services
<1>2. Quota \in Nat
  BY LimitAssumption
<1>3. new.counts \in [Publishers -> 0..Quota]
  BY <1>1, <1>2
<1>4. new \in Services
  <2>1. service.records \cup {<<u, s>>} \in SUBSET Publications
    BY DEF Services, Publications
  <2>2. new = [service EXCEPT !.records = service.records \cup {<<u, s>>},
                              !.counts = [service.counts EXCEPT ![u] = @ + 1]]
    BY DEF Recorded
  <2> QED BY <1>1, <1>3, <2>1, <2>2 DEF Services
<1>5. ASSUME NEW v \in Publishers
      PROVE  /\ IsFiniteSet(RecordsOf(new, v))
             /\ Cardinality(RecordsOf(new, v)) <= new.counts[v]
  <2>1. /\ IsFiniteSet(RecordsOf(service, v)) /\ Cardinality(RecordsOf(service, v)) \in Nat
        /\ Cardinality(RecordsOf(service, v)) <= service.counts[v]
        /\ service.counts[v] \in Nat
    BY <1>1, <1>2, FS_CardinalityType DEF Counted
  <2>2. CASE v = u
    <3>1. RecordsOf(new, v) = RecordsOf(service, v) \cup {<<u, s>>}
      BY <1>1, <2>2 DEF RecordsOf
    <3>2. /\ IsFiniteSet(RecordsOf(new, v))
          /\ Cardinality(RecordsOf(new, v)) <= Cardinality(RecordsOf(service, v)) + 1
      <4> HIDE DEF new
      <4>1. /\ IsFiniteSet(RecordsOf(service, v) \cup {<<u, s>>})
            /\ Cardinality(RecordsOf(service, v) \cup {<<u, s>>})
                 = IF <<u, s>> \in RecordsOf(service, v)
                     THEN Cardinality(RecordsOf(service, v))
                     ELSE Cardinality(RecordsOf(service, v)) + 1
        BY <2>1, FS_AddElement
      <4> QED BY <2>1, <3>1, <4>1
    <3>3. new.counts[v] = service.counts[v] + 1
      BY <1>1, <2>2
    <3>4. Cardinality(RecordsOf(new, v)) \in Nat
      BY <3>2, FS_CardinalityType
    <3> QED BY <2>1, <3>2, <3>3, <3>4
  <2>3. CASE v # u
    <3>1. RecordsOf(new, v) = RecordsOf(service, v)
      BY <1>1, <2>3 DEF RecordsOf
    <3>2. new.counts[v] = service.counts[v]
      BY <1>1, <2>3
    <3> QED BY <2>1, <3>1, <3>2
  <2> QED BY <2>2, <2>3
<1> QED BY <1>1, <1>4, <1>5 DEF ServiceCovers, Counted

-----------------------------------------------------------------------------
(* The inductive invariant.  Its point is the order of the two files: while  *)
(* service.json is being written, index.json already equals the index.       *)

PubInv ==
  /\ TypeOK
  /\ Counted(service) /\ Bare(index)
  /\ Readable(serviceFile) => Counted(serviceFile)
  /\ Readable(indexFile) => Bare(indexFile)
  /\ up => Backed(service, index)
  /\ up /\ Readable(serviceFile) => ServiceCovers(service, serviceFile)
  /\ up /\ Readable(indexFile) => IndexCovers(index, indexFile)
  /\ Readable(serviceFile) /\ Readable(indexFile) => Backed(serviceFile, indexFile)
  /\ up /\ saving \in {"between", "service"} => indexFile = index
  /\ ~up => saving = "no"

\* The values that history and program counter may take.
LEMMA Readables ==
  ASSUME TypeOK
  PROVE  /\ Readable(serviceFile) => serviceFile \in Services
         /\ Readable(indexFile) => indexFile \in Indexes
  BY DEF TypeOK, Readable

LEMMA PublishKeeps ==
  ASSUME PubInv, NEW u \in Publishers, NEW s \in Snapshots, Publish(u, s)
  PROVE  PubInv'
<1> USE DEF PubInv
<1>1. /\ up /\ up' = up /\ saving = "no" /\ saving' = saving
      /\ indexFile' = indexFile /\ serviceFile' = serviceFile
      /\ index' = Ingested(index, s) /\ service' = Recorded(u, s)
      /\ republished' \in BOOLEAN /\ malformed' \in BOOLEAN
  BY DEF Publish, disk, TypeOK
<1>2. /\ index' \in Indexes /\ IndexCovers(index', index)
      /\ PacketsOf[s] \subseteq index'.packets /\ Bare(index')
  BY <1>1, IngestCovers DEF TypeOK
<1>3. /\ service' \in Services /\ ServiceCovers(service', service)
      /\ service'.records = service.records \cup {<<u, s>>}
      /\ Counted(service')
  BY <1>1, RecordedCounted DEF Publish, TypeOK
<1>4. TypeOK'
  BY <1>1, <1>2, <1>3 DEF TypeOK
<1>5. Backed(service', index')
  BY <1>1, <1>2, <1>3 DEF Backed, IndexCovers
<1>6. Readable(serviceFile) => ServiceCovers(service', serviceFile)
  BY <1>1, <1>3 DEF ServiceCovers
<1>7. Readable(indexFile) => IndexCovers(index', indexFile)
  BY <1>1, <1>2, Readables, CoversTransitive DEF TypeOK
<1> QED BY <1>1, <1>2, <1>3, <1>4, <1>5, <1>6, <1>7 DEF Readable, Counted, RecordsOf,
           Bare, Backed, ServiceCovers, IndexCovers

LEMMA RevokeKeeps ==
  ASSUME PubInv, NEW u \in Publishers, Revoke(u)
  PROVE  PubInv'
<1> USE DEF PubInv
<1>1. /\ up /\ up' = up /\ saving = "no" /\ saving' = saving
      /\ indexFile' = indexFile /\ serviceFile' = serviceFile /\ index' = index
      /\ republished' = republished /\ malformed' = malformed
      /\ service' = [service EXCEPT !.revoked = @ \cup {u}]
  BY DEF Revoke, disk, history
<1>2. /\ service' \in Services /\ service'.records = service.records
      /\ service'.counts = service.counts /\ service.revoked \subseteq service'.revoked
  BY <1>1 DEF TypeOK, Services
<1>3. TypeOK'
  BY <1>1, <1>2 DEF TypeOK
<1>4. Counted(service)'
  BY <1>2 DEF Counted, RecordsOf
<1> QED BY <1>1, <1>2, <1>3, <1>4 DEF Readable, Counted, RecordsOf, Bare, Backed,
           ServiceCovers, IndexCovers

LEMMA SaveKeeps ==
  ASSUME PubInv, SaveIndex \/ SaveService
  PROVE  PubInv'
<1> USE DEF PubInv
<1>1. /\ up /\ up' = up /\ index' = index /\ service' = service
      /\ republished' = republished /\ malformed' = malformed
  BY DEF SaveIndex, SaveService, memory, history
<1>2. CASE indexFile' = Torn /\ saving' = "index" /\ serviceFile' = serviceFile
  BY <1>1, <1>2 DEF TypeOK, Readable, Counted, RecordsOf, Bare, Backed, ServiceCovers,
     IndexCovers
<1>3. CASE indexFile' = index /\ saving' = "between" /\ serviceFile' = serviceFile
  <2>1. IndexCovers(index, index)
    BY DEF IndexCovers, TypeOK, Indexes
  <2>2. Readable(serviceFile) => Backed(serviceFile, index)
    BY <1>1 DEF Backed, ServiceCovers
  <2> QED BY <1>1, <1>3, <2>1, <2>2 DEF TypeOK, Readable, Counted, RecordsOf, Bare, Backed,
             ServiceCovers, IndexCovers
<1>4. CASE serviceFile' = Torn /\ saving' = "service" /\ indexFile' = indexFile
           /\ saving = "between"
  BY <1>1, <1>4 DEF TypeOK, Readable, Counted, RecordsOf, Bare, Backed, ServiceCovers,
     IndexCovers
<1>5. CASE serviceFile' = service /\ saving' = "no" /\ indexFile' = indexFile
           /\ saving = "service"
  <2>1. indexFile = index
    BY <1>1, <1>5
  <2>2. ServiceCovers(service, service)
    BY DEF ServiceCovers
  <2> QED BY <1>1, <1>5, <2>1, <2>2 DEF TypeOK, Readable, Counted, RecordsOf, Bare, Backed,
             ServiceCovers, IndexCovers
<1> QED BY <1>2, <1>3, <1>4, <1>5 DEF SaveIndex, SaveService

LEMMA LoadKeeps ==
  ASSUME PubInv, Load
  PROVE  PubInv'
<1> USE DEF PubInv
<1>1. /\ ~up /\ up' = TRUE /\ saving = "no" /\ saving' = saving
      /\ indexFile' = indexFile /\ serviceFile' = serviceFile
      /\ republished' = republished /\ malformed' = malformed
      /\ index' = IndexOrDefault(indexFile) /\ service' = serviceFile
      /\ Readable(indexFile) /\ Readable(serviceFile)
  BY DEF Load, Loads, disk, history
<1>2. indexFile \in Indexes /\ serviceFile \in Services
  BY <1>1, Readables
<1>3. /\ index' \in Indexes /\ IndexCovers(index', indexFile) /\ Bare(index')
  BY <1>1, <1>2, DefaultCovers
<1>4. TypeOK'
  BY <1>1, <1>2, <1>3 DEF TypeOK
<1>5. Backed(service', index')
  BY <1>1, <1>3 DEF Backed, IndexCovers
<1>6. ServiceCovers(service', serviceFile)
  BY <1>1 DEF ServiceCovers
<1> QED BY <1>1, <1>3, <1>4, <1>5, <1>6 DEF Readable, Counted, RecordsOf, Bare, Backed,
           ServiceCovers, IndexCovers

LEMMA PubInvInit == Init => PubInv
<1> SUFFICES ASSUME Init PROVE PubInv
  OBVIOUS
<1>1. PICK given \in SUBSET Packets :
        index = IndexOrDefault([EmptyIndex(GivenLimit) EXCEPT !.packets = given])
  BY DEF Init
<1>2. index \in Indexes /\ Bare(index)
  BY <1>1 DEF IndexOrDefault, EmptyIndex, Indexes, Bare
<1>3. service \in Services /\ service.records = {}
  BY LimitAssumption DEF Init, NewService, Services
<1>4. Counted(service)
  <2>1. \A u \in Publishers : RecordsOf(service, u) = {} /\ service.counts[u] = 0
    BY DEF RecordsOf, Init, NewService
  <2> QED BY <2>1, FS_EmptySet DEF Counted
<1>5. TypeOK
  BY <1>2, <1>3 DEF TypeOK, Init
<1> QED BY <1>2, <1>3, <1>4, <1>5 DEF PubInv, Init, Readable, Backed

LEMMA PubInvStep == PubInv /\ [Next]_vars => PubInv'
<1> SUFFICES ASSUME PubInv, [Next]_vars PROVE PubInv'
  OBVIOUS
<1>1. ASSUME NEW u \in Publishers, NEW s \in Snapshots, Publish(u, s) PROVE PubInv'
  BY <1>1, PublishKeeps
<1>2. ASSUME NEW u \in Publishers, Revoke(u) PROVE PubInv'
  BY <1>2, RevokeKeeps
<1>3. CASE SaveIndex \/ SaveService
  BY <1>3, SaveKeeps
<1>4. CASE Stop
  BY <1>4 DEF Stop, memory, disk, history, PubInv, TypeOK, Readable, Counted, RecordsOf,
     Bare, Backed, ServiceCovers, IndexCovers
<1>5. CASE Load
  BY <1>5, LoadKeeps
<1>6. CASE UNCHANGED vars
  BY <1>6 DEF vars, memory, disk, history, PubInv, TypeOK, Readable, Counted, RecordsOf,
     Bare, Backed, ServiceCovers, IndexCovers
<1> QED BY <1>1, <1>2, <1>3, <1>4, <1>5, <1>6 DEF Next

LEMMA PubInvCorrect == Spec => []PubInv
  BY PubInvInit, PubInvStep, PTL DEF Spec

\* Records never outrun the index, across crashes between the two files.
THEOREM PublicationsAreBacked == Spec => []RecordsBacked
<1>1. PubInv => RecordsBacked
  BY DEF PubInv, RecordsBacked, Backed
<1> QED BY <1>1, PubInvCorrect, PTL

\* The quota bounds what a publisher has published, over all restarts.
THEOREM QuotaIsKept == Spec => []QuotaHolds
<1>1. PubInv => QuotaHolds
  BY LimitAssumption DEF PubInv, TypeOK, Services, Counted, QuotaHolds
<1> QED BY <1>1, PubInvCorrect, PTL

\* A restart takes back nothing that was saved.
THEOREM RestartKeepsSaved == Spec => []MemoryCoversDisk
<1>1. PubInv => MemoryCoversDisk
  BY DEF PubInv, MemoryCoversDisk, ServiceCovers, IndexCovers
<1> QED BY <1>1, PubInvCorrect, PTL

\* Revocation is final for a running service: nobody on the list publishes.
THEOREM RevocationIsKept == Spec => RevokedAddNothing
<1> DEFINE Silent == \A u \in service.revoked :
                       up /\ up' => RecordsOf(service', u) \subseteq RecordsOf(service, u)
<1>1. ASSUME PubInv, Next PROVE Silent
  <2>1. ASSUME NEW v \in Publishers, NEW s \in Snapshots, Publish(v, s) PROVE Silent
    <3>1. v \notin service.revoked /\ service'.records = service.records \cup {<<v, s>>}
      BY <1>1, <2>1, RecordedCounted DEF Publish, PubInv, TypeOK
    <3> QED BY <3>1 DEF RecordsOf
  <2>2. ASSUME NEW v \in Publishers, Revoke(v) PROVE Silent
    <3>1. service'.records = service.records
      BY <1>1, <2>2 DEF Revoke, PubInv, TypeOK, Services
    <3> QED BY <3>1 DEF RecordsOf
  <2>3. CASE SaveIndex \/ SaveService
    BY <2>3 DEF SaveIndex, SaveService, memory
  <2>4. CASE Stop \/ Load
    BY <2>4 DEF Stop, Load
  <2> QED BY <1>1, <2>1, <2>2, <2>3, <2>4 DEF Next
<1>2. PubInv /\ [Next]_vars => [Silent]_vars
  BY <1>1
<1> QED BY <1>2, PubInvCorrect, PTL DEF Spec, RevokedAddNothing

\* The values of memory and disk, over all restarts.
THEOREM PublicationTypes == Spec => []TypeOK
<1>1. PubInv => TypeOK
  BY DEF PubInv
<1> QED BY <1>1, PubInvCorrect, PTL

-----------------------------------------------------------------------------
(* What a complete save loads again.                                        *)

WithinLimit(i) == Cardinality(i.packets) <= i.limit
Parses(i) == \A k \in Keys : i.manifests[k] \notin Malformed

\* Memory and a readable file load unless history names the reason: what is
\* written to a file is what memory holds, so both are said of both.
Loadable ==
  /\ WithinLimit(index)
  /\ Readable(indexFile) => WithinLimit(indexFile)
  /\ ~malformed => Parses(index) /\ (Readable(indexFile) => Parses(indexFile))
  /\ ~republished =>
       CountersMatch(service) /\ (Readable(serviceFile) => CountersMatch(serviceFile))

\* An index loaded without packets takes the default limit and no manifests.
LEMMA DefaultLoads ==
  ASSUME NEW i \in Indexes, WithinLimit(i)
  PROVE  /\ WithinLimit(IndexOrDefault(i))
         /\ Parses(i) => Parses(IndexOrDefault(i))
<1>1. Cardinality({}) = 0 /\ 0 <= DefaultLimit
  BY FS_EmptySet, LimitAssumption
<1>2. NoManifest \notin Malformed
  BY DataAssumption
<1> QED BY <1>1, <1>2 DEF WithinLimit, Parses, IndexOrDefault, EmptyIndex

\* A first publication is one record more and one count more.
LEMMA FirstPublicationMatches ==
  ASSUME service \in Services, Counted(service), CountersMatch(service),
         NEW u \in Publishers, NEW s \in Snapshots, <<u, s>> \notin service.records
  PROVE  CountersMatch(Recorded(u, s))
<1>1. /\ Recorded(u, s).records = service.records \cup {<<u, s>>}
      /\ Recorded(u, s).counts = [service.counts EXCEPT ![u] = @ + 1]
      /\ service.counts \in [Publishers -> 0..Quota]
  BY DEF Recorded, Services
<1>2. ASSUME NEW v \in Publishers
      PROVE  Recorded(u, s).counts[v] = Cardinality(RecordsOf(Recorded(u, s), v))
  <2>1. IsFiniteSet(RecordsOf(service, v)) /\ service.counts[v] = Cardinality(RecordsOf(service, v))
    BY DEF Counted, CountersMatch
  <2>2. CASE v = u
    <3>1. RecordsOf(Recorded(u, s), v) = RecordsOf(service, v) \cup {<<u, s>>}
      BY <1>1, <2>2 DEF RecordsOf
    <3>2. <<u, s>> \notin RecordsOf(service, v)
      BY DEF RecordsOf
    <3>3. Cardinality(RecordsOf(service, v) \cup {<<u, s>>}) = Cardinality(RecordsOf(service, v)) + 1
      BY <2>1, <3>2, FS_AddElement
    <3> QED BY <1>1, <2>1, <2>2, <3>1, <3>3
  <2>3. CASE v # u
    <3>1. RecordsOf(Recorded(u, s), v) = RecordsOf(service, v)
      BY <1>1, <2>3 DEF RecordsOf
    <3> QED BY <1>1, <2>1, <2>3, <3>1
  <2> QED BY <2>2, <2>3
<1> QED BY <1>2 DEF CountersMatch

LEMMA PublishLoads ==
  ASSUME PubInv, Loadable, NEW u \in Publishers, NEW s \in Snapshots, Publish(u, s)
  PROVE  Loadable'
<1>1. /\ index' = Ingested(index, s) /\ service' = Recorded(u, s) /\ Fits(index, s)
      /\ indexFile' = indexFile /\ serviceFile' = serviceFile
      /\ republished' = (republished \/ <<u, s>> \in service.records)
      /\ malformed' = (malformed \/ \E k \in Keys : index'.manifests[k] \in Malformed)
  BY DEF Publish, disk
<1>2. index'.packets = index.packets \cup PacketsOf[s] /\ index'.limit = index.limit
  BY <1>1 DEF Ingested, PubInv, TypeOK, Indexes
<1>3. WithinLimit(index')
  BY <1>1, <1>2 DEF WithinLimit, Fits
<1>4. ~malformed' => ~malformed /\ Parses(index')
  BY <1>1 DEF Parses
<1>5. ~republished' => ~republished /\ CountersMatch(service')
  BY <1>1, FirstPublicationMatches DEF Loadable, PubInv, TypeOK
<1>6. Loadable' <=>
        /\ WithinLimit(index')
        /\ Readable(indexFile') => WithinLimit(indexFile')
        /\ ~malformed' => Parses(index') /\ (Readable(indexFile') => Parses(indexFile'))
        /\ ~republished' => CountersMatch(service')
             /\ (Readable(serviceFile') => CountersMatch(serviceFile'))
  BY DEF Loadable, WithinLimit, Parses, CountersMatch, RecordsOf, Readable
<1> QED BY <1>1, <1>3, <1>4, <1>5, <1>6 DEF Loadable

LEMMA LoadableInit == Init => Loadable
<1> SUFFICES ASSUME Init PROVE Loadable
  OBVIOUS
<1>1. PICK given \in SUBSET Packets :
        /\ Cardinality(given) <= GivenLimit
        /\ index = IndexOrDefault([EmptyIndex(GivenLimit) EXCEPT !.packets = given])
  BY DEF Init
<1> DEFINE i == [EmptyIndex(GivenLimit) EXCEPT !.packets = given]
<1>2. i \in Indexes /\ i.packets = given /\ i.limit = GivenLimit
      /\ \A k \in Keys : i.manifests[k] = NoManifest
  BY DEF EmptyIndex, Indexes
<1>3. WithinLimit(i)
  BY <1>1, <1>2 DEF WithinLimit
<1>4. Parses(i)
  BY <1>2, DataAssumption DEF Parses
<1>5. WithinLimit(index) /\ Parses(index)
  <2> HIDE DEF i
  <2> QED BY <1>1, <1>2, <1>3, <1>4, DefaultLoads DEF i
<1>6. CountersMatch(service)
  <2>1. \A u \in Publishers : RecordsOf(service, u) = {} /\ service.counts[u] = 0
    BY DEF RecordsOf, Init, NewService
  <2> QED BY <2>1, FS_EmptySet DEF CountersMatch
<1> QED BY <1>5, <1>6 DEF Loadable, Init, Readable

LEMMA LoadableStep ==
  ASSUME PubInv, Loadable, [Next]_vars
  PROVE  Loadable'
<1> USE DEF Loadable, WithinLimit, Parses, CountersMatch, RecordsOf, Readable
<1>1. ASSUME NEW u \in Publishers, NEW s \in Snapshots, Publish(u, s) PROVE Loadable'
  BY <1>1, PublishLoads
<1>2. ASSUME NEW u \in Publishers, Revoke(u) PROVE Loadable'
  <2>1. service'.records = service.records /\ service'.counts = service.counts
        /\ index' = index /\ indexFile' = indexFile /\ serviceFile' = serviceFile
        /\ malformed' = malformed /\ republished' = republished
    BY <1>2 DEF Revoke, PubInv, TypeOK, Services, disk, history
  <2> QED BY <2>1
<1>3. CASE SaveIndex
  BY <1>3 DEF SaveIndex, memory, history
<1>4. CASE SaveService
  BY <1>4 DEF SaveService, memory, history
<1>5. CASE Stop
  BY <1>5 DEF Stop, memory, disk, history
<1>6. CASE Load
  <2>1. /\ index' = IndexOrDefault(indexFile) /\ service' = serviceFile
        /\ indexFile' = indexFile /\ serviceFile' = serviceFile
        /\ malformed' = malformed /\ republished' = republished
        /\ Readable(indexFile) /\ Readable(serviceFile)
    BY <1>6 DEF Load, Loads, disk, history
  <2>2. indexFile \in Indexes
    BY <2>1, Readables DEF PubInv
  <2>3. WithinLimit(index') /\ (Parses(indexFile) => Parses(index'))
    BY <2>1, <2>2, DefaultLoads
  <2> QED BY <2>1, <2>3
<1>7. CASE UNCHANGED vars
  BY <1>7 DEF vars, memory, disk, history
<1> QED BY <1>1, <1>2, <1>3, <1>4, <1>5, <1>6, <1>7 DEF Next

\* Of files that were written completely, load refuses only those of a service
\* that took a publication twice or a manifest that does not parse.
THEOREM RefusalsExplained == Spec => []RefusalExplained
<1>1. PubInv /\ Loadable => RefusalExplained
  BY DEF Loadable, RefusalExplained, Loads, IndexLoads, WithinLimit, Parses
<1>2. PubInv /\ Loadable /\ [Next]_vars => Loadable'
  BY LoadableStep
<1> QED BY <1>1, <1>2, LoadableInit, PubInvCorrect, PTL DEF Spec
=============================================================================
