---- MODULE MCGbfs ----
(* Gbfs with an operator of stations and vehicles, of free bikes, or of      *)
(* free bikes and nothing else; availability of vehicles bears no time.      *)
EXTENDS Gbfs

MCLayouts == {{"static", "station_status", "vehicle_status"},
              {"static", "free_bike_status"},
              {"free_bike_status"}}
MCStamped == {"static", "station_status"}
====
