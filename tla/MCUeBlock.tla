------------------------------ MODULE MCUeBlock ------------------------------
(* Small instances of UeBlock. *)
EXTENDS UeBlock

CONSTANTS u1, i1, i2, r1, t1

\* A UE that was never blocked, never seen, or dropped on an address before.
MCRowsAtBoot == [Imsis -> {Absent, NoIp, i1}]
MCAddrsAtBoot == [Imsis -> {NoIp, i1}]
=============================================================================
