---- MODULE MCUpdater ----
(* Updater with one remote and one local feed, for TLC. *)
EXTENDS Updater

MCLocalFeeds == {2}
====
