---------------------------- MODULE MCWatchSync ----------------------------
(***************************************************************************)
(* A directory with two files.                                             *)
(***************************************************************************)
EXTENDS WatchSync
=============================================================================
