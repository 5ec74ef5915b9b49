---------------------------- MODULE MCProfiling ----------------------------
(* Two servers and two starts: a command of the first server's dispatch    *)
(* thread may still run while the second starts and runs; a start that     *)
(* raised can be repeated; a stopped Server can be started again.          *)
EXTENDS Profiling
=============================================================================
