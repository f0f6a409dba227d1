---- MODULE MCRTManager ----
(* RTManager with the updater, a session, and one source of both kinds (or, *)
(* for the overlapping Rebuilds, of trip updates only).                     *)
EXTENDS RTManager

MCVPSources == {1}
MCNoVPSources == {}
====
