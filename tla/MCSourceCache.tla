---- MODULE MCSourceCache ----
(* SourceCache with two URLs, one of them with live OSM updates, and either *)
(* the OSM extract or the GTFS feed remote.                                 *)
EXTENDS SourceCache

MCURLs == {"geofabrik", "other"}
MCLiveURLs == {"geofabrik"}
MCSetups == {{"osm"}, {"gtfs"}, {"osm", "gtfs"}}

MCFeedOnly == {{"gtfs"}}
====
