----------------------------- MODULE MCRanBlock -----------------------------
(* Small instances of RanBlock: one radio, its inbound and outbound rule. *)
EXTENDS RanBlock

CONSTANTS i1, r1, r2, t1
=============================================================================
