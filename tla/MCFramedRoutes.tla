--------------------------- MODULE MCFramedRoutes ---------------------------
(* Small instances of FramedRoutes.                                        *)
EXTENDS FramedRoutes

CONSTANTS r1, r2, t1, i1, i2, c1, d1, ogstun, tun2, none
=============================================================================
