---------------------------- MODULE EventPacking ----------------------------
(***************************************************************************)
(* How events become MessagePack objects (ext/rbkit_event_packer.c) and    *)
(* the objects one message (ext/rbkit_server.c): a map or an array only    *)
(* announces how many objects follow, so a client can read a collection    *)
(* only when every announcement in it was kept.                            *)
(*                                                                         *)
(* C code keeps the global lock: hooks, samples and dumps pack and queue   *)
(* in one step, the hooks all in one buffer.  Packing a hash calls to_s on *)
(* its keys and values; that is Ruby, in which the lock may be lost, a     *)
(* hook may run, the server may stop, an exception may be raised.  An      *)
(* unknown event type raises before anything is packed and changes nothing.*)
(***************************************************************************)
EXTENDS Integers, Sequences, FiniteSets, SequencesExt

CONSTANTS
  NULL,
  Threads,        \* Ruby threads that may send a hash
  MaxEvents,      \* bound: events packed in a behaviour
  MaxSize         \* bound: pairs of a hash, objects, references, frames

(* Packed data is a sequence of items of an event: scalars in a row, or a  *)
(* map or array.  An item fills places opened before it, one a scalar, and *)
(* opens as many as its map or array announces.                            *)
Item == [event : Nat, fills : Nat, opens : Nat]

(* A hash in packing: the pairs rb_hash_foreach has left, and the packer's *)
(* buffer.                                                                 *)
HashEvent ==
  [event : Nat, kind : {"gc_stats", "users", "handshake"}, left : Nat,
   buffer : Seq(Item)]

ASSUME NullIsNoHash == NULL \notin HashEvent
ASSUME BoundsAreNat == MaxEvents \in Nat /\ MaxSize \in Nat

VARIABLES
  alive,           \* logger # 0, and the message list is there
  sbuf,            \* logger->sbuf, of the hooks
  message_array,   \* the list, all its messages in a row
  no_of_messages,
  packing,         \* the hash event a thread is packing, or NULL
  published,       \* the last event_collection
  reply,           \* the last handshake
  sampling,        \* a sampling job is registered, or will be by a timer
  stuck,           \* queue_message is at work on a destroyed list
  produced,        \* history: events so far, named 1, 2, ...
  shrunk,          \* history: events whose hash lost a pair while packed
  started_over,    \* history: a server was started while there was one
  overtaken        \* history: a stop left something that goes on queueing

History == <<started_over, overtaken>>

vars == <<alive, sbuf, message_array, no_of_messages, packing, published,
          reply, sampling, stuck, produced, shrunk, History>>

Init ==
  /\ alive = FALSE
  /\ sbuf = <<>>
  /\ message_array = <<>>
  /\ no_of_messages = 0
  /\ packing = [t \in Threads |-> NULL]
  /\ published = <<>>
  /\ reply = <<>>
  /\ sampling = FALSE
  /\ stuck = FALSE
  /\ produced = 0
  /\ shrunk = {}
  /\ started_over = FALSE
  /\ overtaken = FALSE

-----------------------------------------------------------------------------
Scalars(e, n) == << [event |-> e, fills |-> n, opens |-> 0] >>
Array(e, n) == << [event |-> e, fills |-> 1, opens |-> n] >>
Map(e, n) == Array(e, 2 * n)

(* Event type and timestamp, with their keys. *)
pack_event_header(e) == Scalars(e, 4)

(* A class without a name is nil, an item like any other. *)
pack_obj_created_event(e) ==
  Map(e, 3) \o pack_event_header(e) \o Scalars(e, 1)
    \o Map(e, 2) \o Scalars(e, 4)

pack_obj_destroyed_event(e) ==
  Map(e, 3) \o pack_event_header(e) \o Scalars(e, 1)
    \o Map(e, 1) \o Scalars(e, 2)

(* gc_start, gc_end_m, gc_end_s. *)
pack_event_header_only(e) == Map(e, 2) \o pack_event_header(e)

(* All that precedes the pairs; RHASH_SIZE is read here. *)
pack_hash_event(e, size) ==
  Map(e, 3) \o pack_event_header(e) \o Scalars(e, 1) \o Map(e, size)

hash_pack_iterator(e) == Scalars(e, 2)

(* An object's six entries, the third an array of its references. *)
DumpedObject(e, references) ==
  Map(e, 6) \o Scalars(e, 5) \o Array(e, references)
    \o Scalars(e, references + 6)

pack_object_space_dump_event(e, objects, references) ==
  Map(e, 5) \o pack_event_header(e) \o Scalars(e, 5) \o Array(e, objects)
    \o FlattenSeq([i \in 1 .. objects |-> DumpedObject(e, references)])

pack_cpu_sample_event(e, frames) ==
  Map(e, 3) \o pack_event_header(e) \o Scalars(e, 1) \o Array(e, frames)
    \o FlattenSeq([i \in 1 .. frames |-> Map(e, 6) \o Scalars(e, 12)])

(* Variant: the array announces one message less. *)
pack_event_collection_event_one_short(buffer, count) ==
  Map(0, 4) \o pack_event_header(0) \o Scalars(0, 3) \o Array(0, count - 1)
    \o buffer

(* The queued messages' bytes are copied behind the array's announcement.  *)
pack_event_collection_event(buffer, count) ==
  Map(0, 4) \o pack_event_header(0) \o Scalars(0, 3) \o Array(0, count)
    \o buffer

(* Variant: the buffer is not cleared. *)
pack_event_appends(buffer, packed) == buffer \o packed

(* What is in the buffer afterwards. *)
pack_event(buffer, packed) == packed

-----------------------------------------------------------------------------
(* send_message, queue_message; when to publish is EventPipeline's.  On a  *)
(* destroyed list queue_message does not return (see MessageAggregator).   *)
send_message(buffer) ==
  IF alive
    THEN /\ message_array' = message_array \o buffer
         /\ no_of_messages' = no_of_messages + 1
         /\ UNCHANGED stuck
    ELSE /\ stuck' = TRUE
         /\ UNCHANGED <<message_array, no_of_messages>>

NewEvent == produced < MaxEvents /\ produced' = produced + 1

(* newobj_i, freeobj_i and the three gc hooks, while a server has enabled  *)
(* them.  A start that is repeated after it raised makes new tracepoints,  *)
(* and nothing disables the old ones any more.                             *)
Hook ==
  /\ ~stuck
  /\ alive \/ started_over
  /\ NewEvent
  /\ \E packed \in {pack_obj_created_event(produced'),
                    pack_obj_destroyed_event(produced'),
                    pack_event_header_only(produced')} :
       sbuf' = pack_event(sbuf, packed)
  /\ send_message(sbuf')
  /\ UNCHANGED <<alive, packing, published, reply, sampling, shrunk, History>>

(* One message of send_objectspace_dump, which a thread calls; without a   *)
(* logger the process ends (see ServerLifecycle).                          *)
send_objectspace_dump ==
  /\ ~stuck
  /\ alive
  /\ NewEvent
  /\ \E objects, references \in 0 .. MaxSize :
       send_message(pack_event(<<>>, pack_object_space_dump_event(produced', objects, references)))
  /\ UNCHANGED <<alive, sbuf, packing, published, reply, sampling, shrunk, History>>

(* A sample is taken by a postponed job, which runs at any time and does   *)
(* not look whether there still is a server.                               *)
queue_cpu_sample_for_sending ==
  /\ ~stuck
  /\ sampling
  /\ NewEvent
  /\ \E frames \in 0 .. MaxSize :
       send_message(pack_event(<<>>, pack_cpu_sample_event(produced', frames)))
  /\ UNCHANGED <<alive, sbuf, packing, published, reply, sampling, shrunk, History>>

start_sampling_profiler ==
  /\ ~stuck
  /\ alive /\ ~sampling
  /\ sampling' = TRUE
  /\ UNCHANGED <<alive, sbuf, message_array, no_of_messages, packing, published,
                 reply, stuck, produced, shrunk, History>>

(* stop_sampling_profiler, and the last registered job has run.            *)
SamplingEnds ==
  /\ ~stuck
  /\ sampling
  /\ sampling' = FALSE
  /\ UNCHANGED <<alive, sbuf, message_array, no_of_messages, packing, published,
                 reply, stuck, produced, shrunk, History>>

(* Variant: send_hash_as_event does not look at the logger. *)
SendHash_unchecked(t) ==
  /\ ~stuck
  /\ packing[t] = NULL
  /\ NewEvent
  /\ \E kind \in {"gc_stats", "users", "handshake"}, size \in 0 .. MaxSize :
       packing' = [packing EXCEPT ![t] =
         [event |-> produced', kind |-> kind, left |-> size,
          buffer |-> pack_event(<<>>, pack_hash_event(produced', size))]]
  /\ UNCHANGED <<alive, sbuf, message_array, no_of_messages, published, reply,
                 sampling, stuck, shrunk, History>>

(* send_hash_as_event up to the first pair: for the gc statistics, or      *)
(* called by the user; send_handshake_response, on a polled request, which *)
(* does not look at the logger.                                            *)
SendHash(t) ==
  /\ ~stuck
  /\ packing[t] = NULL
  /\ NewEvent
  /\ \E kind \in {"gc_stats", "users", "handshake"}, size \in 0 .. MaxSize :
       /\ kind # "handshake" => alive
       /\ packing' = [packing EXCEPT ![t] =
            [event |-> produced', kind |-> kind, left |-> size,
             buffer |-> pack_event(<<>>, pack_hash_event(produced', size))]]
  /\ UNCHANGED <<alive, sbuf, message_array, no_of_messages, published, reply,
                 sampling, stuck, shrunk, History>>

PackPair(t) ==
  /\ ~stuck
  /\ packing[t] # NULL
  /\ packing[t].left > 0
  /\ packing' = [packing EXCEPT ![t] =
       [@ EXCEPT !.left = packing[t].left - 1,
                 !.buffer = packing[t].buffer \o hash_pack_iterator(packing[t].event)]]
  /\ UNCHANGED <<alive, sbuf, message_array, no_of_messages, published, reply,
                 sampling, stuck, produced, shrunk, History>>

(* Other code deletes a pair rb_hash_foreach has not come to.  The two     *)
(* hashes rbkit makes are seen by nobody else.                             *)
DeletePair(t) ==
  /\ ~stuck
  /\ packing[t] # NULL
  /\ packing[t].kind = "users"
  /\ packing[t].left > 0
  /\ packing' = [packing EXCEPT ![t].left = @ - 1]
  /\ shrunk' = shrunk \cup {packing[t].event}
  /\ UNCHANGED <<alive, sbuf, message_array, no_of_messages, published, reply,
                 sampling, stuck, produced, History>>

(* to_s raises, or returns a string with a NUL in it. *)
ToSRaises(t) ==
  /\ ~stuck
  /\ packing[t] # NULL
  /\ packing[t].left > 0
  /\ packing' = [packing EXCEPT ![t] = NULL]
  /\ UNCHANGED <<alive, sbuf, message_array, no_of_messages, published, reply,
                 sampling, stuck, produced, shrunk, History>>

(* The rest of send_hash_as_event or send_handshake_response. *)
FinishHash(t) ==
  /\ ~stuck
  /\ packing[t] # NULL
  /\ packing[t].left = 0
  /\ IF packing[t].kind = "handshake"
       THEN /\ reply' = packing[t].buffer
            /\ UNCHANGED <<message_array, no_of_messages, stuck>>
       ELSE /\ send_message(packing[t].buffer)
            /\ UNCHANGED reply
  /\ packing' = [packing EXCEPT ![t] = NULL]
  /\ UNCHANGED <<alive, sbuf, published, sampling, produced, shrunk, History>>

(* trigger_publish_callback, get_event_collection_message. *)
Publish ==
  /\ ~stuck
  /\ no_of_messages > 0
  /\ published' = pack_event(<<>>, pack_event_collection_event(message_array, no_of_messages))
  /\ message_array' = <<>>
  /\ no_of_messages' = 0
  /\ UNCHANGED <<alive, sbuf, packing, reply, sampling, stuck, produced, shrunk,
                 History>>

(* start_stat_server: message_list_new and get_trace_logger, whether there *)
(* is a server or, after a start that raised, there is one already.        *)
StartServer ==
  /\ ~stuck
  /\ alive' = TRUE
  /\ message_array' = <<>>
  /\ no_of_messages' = 0
  /\ started_over' = (started_over \/ alive)
  /\ UNCHANGED <<sbuf, packing, published, reply, sampling, stuck, produced,
                 shrunk, overtaken>>

(* stop_stat_server: message_list_destroy, and the logger's buffer.  It    *)
(* overtakes the hashes in packing, the samples still to be taken and the  *)
(* tracepoints of a start that was repeated.                               *)
StopServer ==
  /\ ~stuck
  /\ alive
  /\ alive' = FALSE
  /\ sbuf' = <<>>
  /\ message_array' = <<>>
  /\ no_of_messages' = 0
  /\ overtaken' = \/ overtaken \/ sampling \/ started_over
                  \/ \E t \in Threads : packing[t] # NULL /\ packing[t].kind # "handshake"
  /\ UNCHANGED <<packing, published, reply, sampling, stuck, produced, shrunk,
                 started_over>>

Next ==
  \/ Hook
  \/ send_objectspace_dump
  \/ queue_cpu_sample_for_sending
  \/ start_sampling_profiler
  \/ SamplingEnds
  \/ \E t \in Threads :
       \/ SendHash(t)
       \/ PackPair(t)
       \/ DeletePair(t)
       \/ ToSRaises(t)
       \/ FinishHash(t)
  \/ Publish
  \/ StartServer
  \/ StopServer

Spec == Init /\ [][Next]_vars

-----------------------------------------------------------------------------
(* Reading: the places still open after item i; below zero, and for good, *)
(* when an item fills more than there were.                                *)
Open(items) ==
  LET open[i \in 0 .. Len(items)] ==
        IF i = 0 THEN 0
        ELSE LET before == open[i - 1] IN
             IF before < 0 THEN before
             ELSE (IF before = 0 THEN 1 ELSE before)
                    - items[i].fills + items[i].opens
  IN  open

Ends(items) == LET open == Open(items) IN {i \in DOMAIN items : open[i] = 0}

Intact(items) == \A i \in DOMAIN items : items[i].event \notin shrunk

(* Reading the list gives its messages: as many objects as are counted,    *)
(* none with items of two events in it and no event in two objects.  So it *)
(* is whatever hooks, samples and stops come between the pairs of a hash,  *)
(* and whichever to_s raises; a hash that lost a pair spoils its batch.    *)
ListHoldsWholeMessages ==
  Intact(message_array) =>
    LET LastOfItsEvent(i) ==
          i = Len(message_array)
            \/ message_array[i + 1].event # message_array[i].event
    IN  /\ Ends(message_array) = {i \in DOMAIN message_array : LastOfItsEvent(i)}
        /\ Cardinality(Ends(message_array)) = no_of_messages

(* What is sent is one object to its last item: collections, and the       *)
(* handshake replies, which no hash of the user's gets into.               *)
WhatIsSentIsOneObject ==
  \A sent \in {published, reply} :
    sent # <<>> /\ Intact(sent) => Ends(sent) = {Len(sent)}

(* What queues on a destroyed list was overtaken by its stop: a hash of    *)
(* which send_hash_as_event had seen the server before the packing, a      *)
(* sampling job registered before the stop, a tracepoint of a start that   *)
(* was repeated.  Neither restarts nor raising to_s let anything else in.  *)
StuckOnlyIfOvertaken == stuck => overtaken
=============================================================================
