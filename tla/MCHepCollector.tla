---------------------------- MODULE MCHepCollector ----------------------------
(* Small instances of HepCollector: the datagrams that decideScope() tells *)
(* apart.                                                                  *)
EXTENDS HepCollector, TLC

Sip(options, identified, of) ==
    [shape |-> "sip", options |-> options, identified |-> identified, of |-> of]

Plain == Sip(FALSE, TRUE, {})
Both == Sip(FALSE, TRUE, {1, 2})
Ping == Sip(TRUE, TRUE, {})

MCDatagrams == {Plain, Both, Ping}
OneSession == {1}
TwoSessions == {1, 2}
HandlerSymmetry == Permutations(Starters) \cup Permutations(Stoppers)
=============================================================================
