---------------------------- MODULE MCAutoAssign ----------------------------
(* Small instances of AutoAssign: three subscribers, the third without an  *)
(* IMS session, the second with a further one, and four numbers in each    *)
(* pool.                                                                   *)
EXTENDS AutoAssign

CONSTANTS r1, r2

MCLacking == {<<3, "ims">>, <<1, "further">>, <<3, "further">>}

\* The profile of the internet pool keeps number 1 for static use.
MCDynamic == [p \in Pools |-> [lo |-> IF p = "internet" THEN 2 ELSE 1, hi |-> 4]]

Holding(internet, ims, msisdn, further) ==
    [u \in Subs |-> [internet |-> internet[u], ims |-> ims[u], msisdn |-> msisdn[u],
                     further |-> further[u]]]

MCInitialHeld ==
    {Holding(<<0, 2, 0>>, <<1, 0, 0>>, <<2, 0, 1>>, <<0, 4, 0>>),
     Holding(<<1, 0, 0>>, <<2, 1, 0>>, <<2, 1, 0>>, <<0, 0, 0>>)}

Job(kind, pools, scope, over, hi) ==
    [kind |-> kind, pools |-> pools, scope |-> scope, over |-> over,
     lo |-> [p \in Pools |-> 1],
     hi |-> [p \in Pools |-> IF p = "msisdn" THEN MaxNumber ELSE hi]]

MCRequests ==
    {Job("assign", SlicePools, 1..3, {}, 4),
     Job("assign", {"internet"}, 1..2, {"internet"}, 2),
     Job("assign", SlicePools, 2..3, {"internet", "ims"}, 4),
     Job("assign", {"msisdn"}, 1..3, {}, 4),
     Job("assign", {"msisdn"}, 1..2, {"msisdn"}, 4),
     Job("bulk", SliceSlots, 1..3, {}, 4),
     Job("bulk", SliceSlots, 1..2, {"internet", "further"}, 4)}
=============================================================================
