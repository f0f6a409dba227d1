---- MODULE MCLiveQuery ----
(* LiveQuery with one remote feed, for TLC. *)
EXTENDS LiveQuery

MCLocalFeeds == {}
====
