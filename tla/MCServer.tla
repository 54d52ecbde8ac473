------------------------------- MODULE MCServer -------------------------------
(* The jobs and the clock of MCDueBackups; two sockets, either of which may *)
(* supersede the other, and two sessions, so that one is revoked while the  *)
(* other is in use.                                                         *)
EXTENDS Server, MCDueBackups
=============================================================================
