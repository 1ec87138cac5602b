--------------------------- MODULE MCConfigRestore ---------------------------
(* Two files and two backups of them, the older one without the second file. *)
EXTENDS ConfigRestore

MCFiles == {"nrf", "amf"}
MCCopyOrder == <<"nrf", "amf">>
MCRestartOrder == <<"amf", "nrf">>
MCBackups == {"old", "new"}
MCMinute == ("old" :> 1) @@ ("new" :> 2)
MCHad == ("old" :> {"nrf"}) @@ ("new" :> MCFiles)
=============================================================================
