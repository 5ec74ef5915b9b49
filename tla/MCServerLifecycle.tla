------------------------- MODULE MCServerLifecycle -------------------------
(* A command answered with the status, one that uses the logger, both of   *)
(* which may raise, and the empty message.                                 *)
EXTENDS ServerLifecycle

MCCommands == {"handshake", "start_cpu_profiling", ""}
=============================================================================
