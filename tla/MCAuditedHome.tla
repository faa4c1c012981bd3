---------------------------- MODULE MCAuditedHome ----------------------------
(* TLC instance of AuditedHome: one writer, so that the promises of the     *)
(* admission log can be asked of the home.                                  *)
EXTENDS AuditedHome, TLC

=============================================================================
