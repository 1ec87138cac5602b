------------------------------ MODULE MCApply ------------------------------
(* Small instances of ApplyConfig: two YAML files and a third that this host *)
(* does not have, three units of which one is a container.                    *)
EXTENDS ApplyConfig

CONSTANTS a1, a2, e1, s1

Doc(ui, hand) == [ui |-> ui, hand |-> hand]

MCFields == {"ui", "hand"}
\* "localhost" is written back as "loopback", "null" is left out.
MCValues == {"old", "new", "edited", "localhost", "loopback", "null"}
MCNormal == [v \in MCValues |->
    CASE v = "localhost" -> "loopback" [] v = "null" -> Unset [] OTHER -> v]
MCFiles == {"nrf", "amf", "sepp1"}
MCBackupOrder == <<"nrf", "amf", "sepp1">>
MCRequired == {"nrf", "amf"}
MCSaveOrder == <<"nrf", "sepp1", "amf">>
MCUnits == {"mongodb", "nrf", "amf"}
MCRestartOrder == <<"mongodb", "nrf", "amf">>
\* The optional file is missing, or there and empty.
MCInitDisks ==
    {[f \in MCFiles |-> CASE f = "sepp1" -> c
                         [] f = "nrf" -> Doc("old", "localhost")
                         [] OTHER -> Doc("old", "null")] : c \in {NoFile, Blank}}

\* One request names every file, one leaves nrf out, one only sets a hand field.
MCRequests ==
    {[f \in MCFiles |-> Doc("new", Unset)],
     [f \in MCFiles |-> IF f = "amf" THEN Doc(Unset, "new") ELSE NoDoc]}
=============================================================================
