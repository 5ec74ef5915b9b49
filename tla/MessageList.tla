---------------------------- MODULE MessageList ----------------------------
(***************************************************************************)
(* What the message aggregator (ext/rbkit_message_aggregator.c) promises   *)
(* the rest of the server: between message_list_new and                    *)
(* message_list_destroy it is a sequence of messages that only grows at    *)
(* its end and is only ever emptied as a whole.  Bytes, capacities and the *)
(* growth of the buffer are the business of MessageAggregator, which       *)
(* implements this module.                                                 *)
(***************************************************************************)
EXTENDS Sequences

CONSTANT Messages       \* the packed events a caller may queue

VARIABLES
  alive,                \* between message_list_new and message_list_destroy
  batch                 \* the messages queued since the last clear

vars == <<alive, batch>>

TypeOK ==
  /\ alive \in BOOLEAN
  /\ batch \in Seq(Messages)

Init == alive = FALSE /\ batch = <<>>

(* Of a live list too: its messages are lost. *)
New ==
  /\ alive' = TRUE
  /\ batch' = <<>>

(* queue_message returns only on a live list (see MessageAggregator). *)
Queue(m) ==
  /\ alive
  /\ batch' = Append(batch, m)
  /\ UNCHANGED alive

Clear ==
  /\ batch' = <<>>
  /\ UNCHANGED alive

Destroy ==
  /\ alive' = FALSE
  /\ batch' = <<>>

Next ==
  \/ New
  \/ Clear
  \/ Destroy
  \/ \E m \in Messages : Queue(m)

Spec == Init /\ [][Next]_vars
=============================================================================
