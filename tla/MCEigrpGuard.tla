---------------------------- MODULE MCEigrpGuard ----------------------------
(* Small instances of EigrpGuard: the times of the guard, scaled down; a prefix that must *)
(* have its route and one that need not.                                                   *)
EXTENDS EigrpGuard

CONSTANTS radio, other, n1, none
=============================================================================
