------------------------------ MODULE AuditedHome ------------------------------
(***************************************************************************)
(* CommonsRepository.verify beside the writers of a home.  The audit reads *)
(* the object files one by one, then the ledger twice (Ledger.verify, then *)
(* Ledger.blocks for the packets it commits), and takes no lock: a submit  *)
(* may fall between any two of its reads.                                  *)
(***************************************************************************)
EXTENDS CommonsHome

VARIABLES
  audit,       \* the local variables of verify and what it reported
  disturbed    \* history: a submit was under way at some point of the audit

auditVars == <<audit, disturbed>>
allVars == <<vars, auditVars>>

Stages == {"idle", "objects", "ledger", "references", "reported"}

NoAudit ==
  [stage |-> "idle", todo |-> {}, ids |-> {}, unreadable |-> FALSE,
   chained |-> FALSE, blocks |-> 0, valid |-> FALSE]

InFlight == \E w \in Writers : pc[w] \in Running

AuditInit == Init /\ audit = NoAudit /\ disturbed = FALSE

\* sorted(objects_dir.glob("*.json")): the names present when it is called.
BeginVerify ==
  /\ audit.stage \in {"idle", "reported"}
  /\ audit' = [NoAudit EXCEPT !.stage = "objects",
                              !.todo = {p \in Packets : object[p] # NoFile}]
  /\ disturbed' = InFlight
  /\ UNCHANGED vars

\* One file of the listing: parsed and counted, or reported as an error.
VerifyObject(p) ==
  /\ audit.stage = "objects"
  /\ p \in audit.todo
  /\ audit' = IF object[p] = Torn
                THEN [audit EXCEPT !.todo = @ \ {p}, !.unreadable = TRUE]
                ELSE [audit EXCEPT !.todo = @ \ {p}, !.ids = @ \cup {p}]
  /\ UNCHANGED <<vars, disturbed>>

VerifyLedger ==
  /\ audit.stage = "objects"
  /\ audit.todo = {}
  /\ audit' = [audit EXCEPT !.stage = "ledger",
                            !.chained = LedgerVerifies(ledger),
                            !.blocks = Len(ledger)]
  /\ UNCHANGED <<vars, disturbed>>

\* Seeded faults: only one of the two differences is reported.
CompareMissingOnly ==
  /\ audit.stage = "ledger"
  /\ audit' = [audit EXCEPT
       !.stage = "reported",
       !.valid = audit.chained /\ ~audit.unreadable /\ Committed \subseteq audit.ids]
  /\ UNCHANGED <<vars, disturbed>>

CompareUncommittedOnly ==
  /\ audit.stage = "ledger"
  /\ audit' = [audit EXCEPT
       !.stage = "reported",
       !.valid = audit.chained /\ ~audit.unreadable /\ audit.ids \subseteq Committed]
  /\ UNCHANGED <<vars, disturbed>>

\* "ledger references missing object" and "object is not committed to ledger".
CompareReferences ==
  /\ audit.stage = "ledger"
  /\ audit' = [audit EXCEPT
       !.stage = "reported",
       !.valid = audit.chained /\ ~audit.unreadable /\ Committed = audit.ids]
  /\ UNCHANGED <<vars, disturbed>>

AuditStep ==
  \/ BeginVerify
  \/ \E p \in Packets : VerifyObject(p)
  \/ VerifyLedger
  \/ CompareReferences

AuditNext ==
  \/ AuditStep
  \/ /\ Next
     /\ disturbed' = (disturbed \/ InFlight')
     /\ UNCHANGED audit

AuditSpec == AuditInit /\ [][AuditNext]_allVars

-----------------------------------------------------------------------------
AuditTypeOK ==
  /\ TypeOK
  /\ audit \in [stage : Stages, todo : SUBSET Packets, ids : SUBSET Packets,
                unreadable : BOOLEAN, chained : BOOLEAN, blocks : Nat,
                valid : BOOLEAN]
  /\ disturbed \in BOOLEAN

\* With one writer, an audit that no submit overlapped reports exactly the
\* truth: valid when every submit that created a file also committed it, and
\* invalid for ever after the first one that died in between.
QuietVerdictExact ==
  (audit.stage = "reported" /\ ~disturbed) => (audit.valid <=> lost = {})

\* Whatever runs beside it, an audit that reports "valid" has verified a true
\* prefix of today's ledger, and each packet of that prefix was read intact.
ValidIsSound ==
  (audit.stage = "reported" /\ audit.valid) =>
    LET verified == SubSeq(ledger, 1, audit.blocks) IN
    /\ audit.blocks <= Len(ledger)
    /\ LedgerVerifies(verified)
    /\ CommittedBy(verified) \subseteq audit.ids
=============================================================================
