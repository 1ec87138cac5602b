----------------------------- MODULE MCCallDebug -----------------------------
(* Instances of CallDebug for TLC: who acts, and how often, is in the .cfg. *)
EXTENDS CallDebug
=============================================================================
