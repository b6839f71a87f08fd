---------------------------- MODULE MCWebService ----------------------------
(* An instance of WebService for TLC: one replica and the host beside it,  *)
(* two jobs at a time on a pool of two connections.                        *)
EXTENDS WebService
=============================================================================
