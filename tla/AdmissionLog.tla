----------------------------- MODULE AdmissionLog -----------------------------
(***************************************************************************)
(* What a commons home promises about admitted packets, in the terms of    *)
(* docs/ARCHITECTURE.md: a packet is stored once, under one envelope, and  *)
(* then committed once.  A stored packet may stay uncommitted (its writer  *)
(* died), a committed one is always stored, and nothing is ever revised.   *)
(***************************************************************************)
EXTENDS Naturals, Sequences

CONSTANTS
  Packets, Receipts,
  NotStored    \* not an envelope: the packet has not been admitted

VARIABLES
  stored,      \* the envelope each packet was admitted under
  log          \* the packets in the order of their blocks

vars == <<stored, log>>

Logged == {log[i] : i \in 1..Len(log)}

Init ==
  /\ stored = [p \in Packets |-> NotStored]
  /\ log = <<>>

Store(p, r) ==
  /\ stored[p] = NotStored
  /\ stored' = [stored EXCEPT ![p] = r]
  /\ UNCHANGED log

Commit(p) ==
  /\ stored[p] # NotStored
  /\ p \notin Logged
  /\ log' = Append(log, p)
  /\ UNCHANGED stored

Next ==
  \E p \in Packets :
    \/ \E r \in Receipts : Store(p, r)
    \/ Commit(p)

Spec == Init /\ [][Next]_vars
=============================================================================
