---------------------------- MODULE MCWatcherHistory ----------------------------
(* The instances of MCWatcher with the history variables. *)
EXTENDS WatcherHistory, MCWatcher
=============================================================================
