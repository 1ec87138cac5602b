------------------------------ MODULE MCCdrSync ------------------------------
(* Small instances of CdrSync: one Asterisk, one call, two passes.         *)
EXTENDS CdrSync

CONSTANTS s1, p1, p2
=============================================================================
