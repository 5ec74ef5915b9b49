---------------------------- MODULE EventStream ----------------------------
(***************************************************************************)
(* What a client of rbkit is promised when no publish callback is set      *)
(* (docs/protocol.md, "Message frame for event_collection"): events reach  *)
(* it in the order they happened, each at most once, and while the server  *)
(* runs only closing the stream keeps one from being delivered.            *)
(***************************************************************************)
EXTENDS Naturals, Sequences

VARIABLES
  open,            \* are events accepted?
  running,         \* was the stream opened without an error?
  produced,        \* events so far, named 1, 2, ...
  pending,         \* accepted and not delivered
  delivered

vars == <<open, running, produced, pending, delivered>>

Init ==
  /\ open = FALSE
  /\ running = FALSE
  /\ produced = 0
  /\ pending = <<>>
  /\ delivered = <<>>

(* Opening may fail half-way, with the stream open but not running.  It can *)
(* then be opened again, which starts it over.                             *)
Open ==
  /\ ~running
  /\ open' = TRUE
  /\ running' \in BOOLEAN
  /\ pending' = <<>>
  /\ UNCHANGED <<produced, delivered>>

Accept ==
  /\ open
  /\ produced' = produced + 1
  /\ pending' = Append(pending, produced + 1)
  /\ UNCHANGED <<open, running, delivered>>

Deliver ==
  /\ open
  /\ pending # <<>>
  /\ delivered' = delivered \o pending
  /\ pending' = <<>>
  /\ UNCHANGED <<open, running, produced>>

Close ==
  /\ running
  /\ open' = FALSE
  /\ running' = FALSE
  /\ pending' = <<>>
  /\ UNCHANGED <<produced, delivered>>

Next == Open \/ Accept \/ Deliver \/ Close

Spec == Init /\ [][Next]_vars
=============================================================================
