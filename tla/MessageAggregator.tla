------------------------- MODULE MessageAggregator -------------------------
(***************************************************************************)
(* ext/rbkit_message_aggregator.c, byte by byte: one growing heap block    *)
(* that packed events are copied to the end of, and from which an          *)
(* event_collection message is made.  Every function runs to its end       *)
(* holding Ruby's global lock and calls no Ruby code, so nothing comes     *)
(* between the steps of queue_message; its while loop is nevertheless one  *)
(* step per doubling, because whether it ends is one of the questions.     *)
(*                                                                         *)
(* malloc and realloc are assumed to succeed and sizes to stay below 2^64. *)
(***************************************************************************)
EXTENDS Integers, Sequences

CONSTANTS
  Messages,       \* the packed events: msgpack buffers
  SizeOf,         \* [Messages -> size in bytes]
  initial_size,   \* bytes reserved by message_list_new (1024 in the code)
  MaxQueued,      \* bound: messages queued between two clears
  None,           \* no queue_message call is under way
  Garbage         \* a byte malloc or realloc left unset

(* An event packs to at least its map header, so never to zero bytes. *)
ASSUME SizesArePositive == SizeOf \in [Messages -> Nat \ {0}]
ASSUME InitialSizeIsPositive == initial_size \in Nat \ {0}
ASSUME MaxQueuedIsNat == MaxQueued \in Nat
ASSUME NoneIsNoMessage == None \notin Messages

VARIABLES
  message_array,    \* the block: [offset -> byte], empty when freed
  used_memsize,
  total_capacity,
  no_of_messages,
  buffer,           \* the argument of the queue_message call under way
  queued            \* history: what was queued since the last clear, and where

vars == <<message_array, used_memsize, total_capacity, no_of_messages,
          buffer, queued>>

-----------------------------------------------------------------------------
(* The k-th byte of message m is the pair <<m, k>>. *)
Byte == {Garbage} \cup (Messages \X Nat)

Block(n) == [0 .. n - 1 -> Byte]

Chunk == [message : Messages, offset : Nat]

(* Variant: one byte too generous. *)
has_enough_space_for_off_by_one(size) ==
  total_capacity - used_memsize + 1 >= size

has_enough_space_for(size) == total_capacity - used_memsize >= size

(* queue_message copies buffer->data to message_array + used_memsize. *)
CopiedAtOffset(m, offset) ==
  [a \in 0 .. total_capacity - 1 |->
     IF offset <= a /\ a < offset + SizeOf[m]
       THEN <<m, a - offset>>
       ELSE message_array[a]]

Init ==
  /\ message_array = [a \in 0 .. -1 |-> Garbage]
  /\ used_memsize = 0
  /\ total_capacity = 0
  /\ no_of_messages = 0
  /\ buffer = None
  /\ queued = <<>>

(* Called by start_stat_server.  A start that raises later leaves the list *)
(* behind, so it may be made anew when it exists: its block is then leaked *)
(* and its messages are lost.                                              *)
message_list_new ==
  /\ buffer = None
  /\ message_array' = [a \in 0 .. initial_size - 1 |-> Garbage]
  /\ total_capacity' = initial_size
  /\ used_memsize' = 0
  /\ no_of_messages' = 0
  /\ queued' = <<>>
  /\ UNCHANGED buffer

message_list_destroy ==
  /\ buffer = None
  /\ total_capacity > 0
  /\ message_array' = [a \in 0 .. -1 |-> Garbage]
  /\ used_memsize' = 0
  /\ total_capacity' = 0
  /\ no_of_messages' = 0
  /\ queued' = <<>>
  /\ UNCHANGED buffer

(* The bytes stay where they are.  A publish job that outlives the server  *)
(* clears a destroyed list, so there is no guard on the list being alive.  *)
message_list_clear ==
  /\ buffer = None
  /\ used_memsize' = 0
  /\ no_of_messages' = 0
  /\ queued' = <<>>
  /\ UNCHANGED <<message_array, total_capacity, buffer>>

(* queue_message is entered.  Nothing in it asks whether the list exists,  *)
(* and a sampling job that outlives the server calls it on a freed one.    *)
queue_message(m) ==
  /\ buffer = None
  /\ Len(queued) < MaxQueued
  /\ buffer' = m
  /\ UNCHANGED <<message_array, used_memsize, total_capacity, no_of_messages,
                 queued>>

(* Variant: the capacity is doubled but the block is not reallocated. *)
double_the_capacity_without_realloc ==
  /\ buffer # None
  /\ ~has_enough_space_for(SizeOf[buffer])
  /\ total_capacity' = total_capacity * 2
  /\ UNCHANGED <<message_array, used_memsize, no_of_messages, buffer, queued>>

(* Variant: a fresh block instead of a reallocated one. *)
double_the_capacity_by_malloc ==
  /\ buffer # None
  /\ ~has_enough_space_for(SizeOf[buffer])
  /\ total_capacity' = total_capacity * 2
  /\ message_array' = [a \in 0 .. total_capacity * 2 - 1 |-> Garbage]
  /\ UNCHANGED <<used_memsize, no_of_messages, buffer, queued>>

(* Variant: the doubled capacity is not stored. *)
double_the_capacity_not_stored ==
  /\ buffer # None
  /\ ~has_enough_space_for(SizeOf[buffer])
  /\ UNCHANGED vars

(* One turn of queue_message's loop; realloc keeps the old bytes.  Twice a *)
(* capacity of zero is zero, and then the loop turns for ever.             *)
double_the_capacity ==
  /\ buffer # None
  /\ ~has_enough_space_for(SizeOf[buffer])
  /\ total_capacity' = total_capacity * 2
  /\ message_array' = [a \in 0 .. total_capacity * 2 - 1 |->
                         IF a < total_capacity THEN message_array[a]
                                               ELSE Garbage]
  /\ UNCHANGED <<used_memsize, no_of_messages, buffer, queued>>

(* The rest of queue_message, after its loop. *)
CopyMessage ==
  /\ buffer # None
  /\ has_enough_space_for(SizeOf[buffer])
  /\ message_array' = CopiedAtOffset(buffer, used_memsize)
  /\ used_memsize' = used_memsize + SizeOf[buffer]
  /\ no_of_messages' = no_of_messages + 1
  /\ queued' = Append(queued, [message |-> buffer, offset |-> used_memsize])
  /\ buffer' = None
  /\ UNCHANGED total_capacity

Next ==
  \/ message_list_new
  \/ message_list_destroy
  \/ message_list_clear
  \/ double_the_capacity
  \/ CopyMessage
  \/ \E m \in Messages : queue_message(m)

Spec == Init /\ [][Next]_vars

(* queue_message runs to its end without being preempted. *)
FairSpec == Spec /\ WF_vars(double_the_capacity) /\ WF_vars(CopyMessage)

-----------------------------------------------------------------------------
(* What get_event_collection_message packs: the array header announces     *)
(* message_count messages, then buffer_size bytes follow.  With no message *)
(* it packs nothing at all.                                                *)
event_collection ==
  [message_count |-> no_of_messages,
   payload       |-> [a \in 0 .. used_memsize - 1 |-> message_array[a]]]

-----------------------------------------------------------------------------
TypeOK ==
  /\ total_capacity \in Nat
  /\ message_array \in Block(total_capacity)
  /\ used_memsize \in Nat
  /\ no_of_messages \in Nat
  /\ buffer \in Messages \cup {None}
  /\ queued \in Seq(Chunk)

EndOf(chunk) == chunk.offset + SizeOf[chunk.message]

(* The copies never run past the block, whatever the order of doublings,   *)
(* clears and restarts; it also keeps the unsigned subtraction of          *)
(* has_enough_space_for (line 10) from wrapping around.                    *)
WithinCapacity == used_memsize <= total_capacity

(* Messages lie one after the other from offset 0, without gap or overlap, *)
(* up to used_memsize, and no_of_messages counts them: a reader of the     *)
(* concatenated bytes finds exactly the announced number of messages.      *)
Tiled ==
  /\ no_of_messages = Len(queued)
  /\ \A i \in 1 .. Len(queued) :
       queued[i].offset = IF i = 1 THEN 0 ELSE EndOf(queued[i - 1])
  /\ used_memsize = IF queued = <<>> THEN 0 ELSE EndOf(queued[Len(queued)])

(* The collection holds every byte of every message queued since the last  *)
(* clear, where it was put: a later copy, a realloc of the block or bytes  *)
(* left over from before a clear never disturb an earlier message.         *)
CollectionIsFaithful ==
  /\ event_collection.message_count = Len(queued)
  /\ \A i \in 1 .. Len(queued) :
       \A k \in 0 .. SizeOf[queued[i].message] - 1 :
         /\ queued[i].offset + k \in DOMAIN event_collection.payload
         /\ event_collection.payload[queued[i].offset + k]
              = <<queued[i].message, k>>

(* A destroyed list has no message, so a publish job that runs after the   *)
(* server was stopped does not read the freed block.                       *)
DestroyedIsEmpty ==
  total_capacity = 0 => no_of_messages = 0 /\ used_memsize = 0

(* On a live list queue_message always returns: the doubling loop ends.    *)
(* (On a destroyed one it does not: see EventPipeline, NeverWedged.)       *)
QueueReturns ==
  [](total_capacity > 0 /\ buffer # None => <>(buffer = None))

(* The aggregator implements the abstract list. *)
AbstractList == INSTANCE MessageList
                  WITH alive <- total_capacity > 0,
                       batch <- [i \in 1 .. Len(queued) |-> queued[i].message]

(* Each step of the aggregator is an operation of the list or none: in     *)
(* particular a message shows up at the end of the batch, once, when       *)
(* queue_message returns, and never on a destroyed list.                   *)
ImplementsMessageList == AbstractList!Spec
=============================================================================
