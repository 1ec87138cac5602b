----------------------------- MODULE MCAuditLog -----------------------------
(* Instances of AuditLog for TLC: how many calls and failures there may be *)
(* is in the .cfg.                                                         *)
EXTENDS AuditLog
=============================================================================
