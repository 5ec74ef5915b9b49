---------------------------- MODULE MCObjectDump ----------------------------
(* object_dump.cfg has pages of 2 and messages of 3 objects: messages end  *)
(* inside pages, at their ends, and span them; 7 objects need a short last *)
(* message, 6 a full one.                                                  *)
EXTENDS ObjectDump
=============================================================================
