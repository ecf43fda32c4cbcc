---------------------------- MODULE MCServerStart ----------------------------
(* A small instance of ServerStart for TLC: the files of MCBootstrap, a    *)
(* process and another server.                                             *)
EXTENDS ServerStart, MCBootstrap
=============================================================================
