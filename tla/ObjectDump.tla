----------------------------- MODULE ObjectDump -----------------------------
(***************************************************************************)
(* send_objectspace_dump: every object of the heap is copied into a linked *)
(* list of fixed-size pages, and the pages are then cut into messages.     *)
(* Pages and messages have sizes of their own, so a message may begin and  *)
(* end anywhere in a page; pages and reference arrays are freed on the way.*)
(* Sources: ext/rbkit_object_graph.c, ext/rbkit_event.c,                   *)
(* ext/rbkit_event_packer.c, ext/rbkit_server.c.                           *)
(*                                                                         *)
(* The heap is visited in a fixed order, and its objects are named by it:  *)
(* 1, 2, ...  Of an object's data only its identity and whether it has an  *)
(* array of references are kept.  One dump holds the global lock to its    *)
(* end, so dumps follow one another.                                       *)
(***************************************************************************)
EXTENDS Naturals, Sequences, SequencesExt

CONSTANTS
  RBKIT_OBJECT_DUMP_PAGE_SIZE,   \* 1000 in the code
  MAX_OBJECT_DUMPS_IN_MESSAGE,   \* 1000 in the code
  MaxObjects,                    \* bound: objects in the heap
  MaxDumps                       \* bound: dumps in a behaviour

ASSUME SizesArePositive ==
  /\ RBKIT_OBJECT_DUMP_PAGE_SIZE \in Nat \ {0}
  /\ MAX_OBJECT_DUMPS_IN_MESSAGE \in Nat \ {0}
ASSUME BoundsAreNat == MaxObjects \in Nat /\ MaxDumps \in Nat

VARIABLES
  phase,               \* where send_objectspace_dump is
  pages,               \* dump->first, ...: each page its initialised slots
  object_count,        \* of the dump
  freed,               \* pages given to free, in that order
  references,          \* objects whose array of references is allocated
  current_page,        \* of the event: the number of a page
  current_page_index,
  packed_objects,
  correlation_id,      \* of the last event; never reset
  objects_in_batch,    \* of the message being packed
  buffer,              \* the objects in the message buffer
  messages,            \* history: what was queued
  heaps                \* history: how many objects each dump's walk found

vars == <<phase, pages, object_count, freed, references, current_page,
          current_page_index, packed_objects, correlation_id,
          objects_in_batch, buffer, messages, heaps>>

Dump == <<pages, object_count>>
Event == <<current_page, current_page_index, packed_objects, correlation_id>>

Init ==
  /\ phase = "idle"
  /\ pages = <<>>
  /\ object_count = 0
  /\ freed = <<>>
  /\ references = {}
  /\ current_page = 0
  /\ current_page_index = 0
  /\ packed_objects = 0
  /\ correlation_id = 0
  /\ objects_in_batch = 0
  /\ buffer = <<>>
  /\ messages = <<>>
  /\ heaps = <<>>

-----------------------------------------------------------------------------
(* get_object_dump, up to the walk over the heap, into a new buffer. *)
get_object_dump ==
  /\ phase = "idle"
  /\ correlation_id < MaxDumps
  /\ phase' = "collecting"
  /\ pages' = <<>>
  /\ object_count' = 0
  /\ freed' = <<>>
  /\ buffer' = <<>>
  /\ UNCHANGED <<references, Event, objects_in_batch, messages, heaps>>

(* Variant: a page takes one object too many. *)
AddToPages_off_by_one(data) ==
  IF pages = <<>> \/ Len(Last(pages)) > RBKIT_OBJECT_DUMP_PAGE_SIZE
    THEN Append(pages, <<data>>)
    ELSE [pages EXCEPT ![Len(pages)] = Append(@, data)]

(* initialize_object_data: the slot after the last one in use, on a new    *)
(* page when the last page is full.                                        *)
AddToPages(data) ==
  IF pages = <<>> \/ Len(Last(pages)) = RBKIT_OBJECT_DUMP_PAGE_SIZE
    THEN Append(pages, <<data>>)
    ELSE [pages EXCEPT ![Len(pages)] = Append(@, data)]

(* dump_heap_object, for the next object heap_obj_i accepts. *)
dump_heap_object ==
  /\ phase = "collecting"
  /\ object_count < MaxObjects
  /\ \E has_references \in BOOLEAN :
       LET data == [object_id |-> object_count + 1,
                    has_references |-> has_references] IN
       /\ pages' = AddToPages(data)
       /\ references' = IF has_references
                          THEN references \cup {data.object_id}
                          ELSE references
  /\ object_count' = object_count + 1
  /\ UNCHANGED <<phase, freed, Event, objects_in_batch, buffer, messages,
                 heaps>>

(* new_rbkit_object_space_dump_event.  A Ruby heap is never empty, or      *)
(* dump->object_count would be read without ever being set.                *)
new_rbkit_object_space_dump_event ==
  /\ phase = "collecting"
  /\ object_count > 0
  /\ phase' = "sending"
  /\ current_page' = 1
  /\ current_page_index' = 0
  /\ packed_objects' = 0
  /\ correlation_id' = correlation_id + 1
  /\ heaps' = Append(heaps, object_count)
  /\ UNCHANGED <<Dump, freed, references, objects_in_batch, buffer, messages>>

-----------------------------------------------------------------------------
(* Variant: the size of a message is not limited. *)
BatchSize_unlimited(objects_left) == objects_left

BatchSize(objects_left) ==
  IF objects_left < MAX_OBJECT_DUMPS_IN_MESSAGE
    THEN objects_left
    ELSE MAX_OBJECT_DUMPS_IN_MESSAGE

(* pack_event, which empties the buffer: queue_message has not done so;    *)
(* then pack_object_space_dump_event up to its loop.                       *)
BeginMessage ==
  /\ phase = "sending"
  /\ packed_objects < object_count
  /\ phase' = "packing"
  /\ buffer' = <<>>
  /\ objects_in_batch' = BatchSize(object_count - packed_objects)
  /\ UNCHANGED <<Dump, freed, references, Event, messages, heaps>>

PageIsDone == current_page_index = RBKIT_OBJECT_DUMP_PAGE_SIZE

(* Where the loop reads next: a page and an index into it, from 0. *)
NextPage == IF PageIsDone THEN current_page + 1 ELSE current_page
NextIndex == IF PageIsDone THEN 0 ELSE current_page_index

(* Variant: the page that is read next is freed instead of the old one. *)
FreePage_frees_next ==
  freed' = IF PageIsDone THEN Append(freed, NextPage) ELSE freed

FreePage == freed' = IF PageIsDone THEN Append(freed, current_page) ELSE freed

(* Variant: the array of references stays allocated. *)
PackObject_keeps_references ==
  LET data == pages[NextPage][NextIndex + 1] IN
  /\ phase = "packing"
  /\ Len(buffer) < objects_in_batch
  /\ FreePage
  /\ buffer' = Append(buffer, data.object_id)
  /\ current_page' = NextPage
  /\ current_page_index' = NextIndex + 1
  /\ packed_objects' = packed_objects + 1
  /\ UNCHANGED <<phase, Dump, correlation_id, references, objects_in_batch,
                 messages, heaps>>

(* Variant: the event forgets, at the end of a page, to go to slot 0. *)
PackObject_restarts_page ==
  LET data == pages[current_page][NextIndex + 1] IN
  /\ phase = "packing"
  /\ Len(buffer) < objects_in_batch
  /\ buffer' = Append(buffer, data.object_id)
  /\ references' = references \ {data.object_id}
  /\ current_page_index' = NextIndex + 1
  /\ packed_objects' = packed_objects + 1
  /\ UNCHANGED <<phase, Dump, freed, current_page, correlation_id,
                 objects_in_batch, messages, heaps>>

(* One round of the loop of pack_object_space_dump_event. *)
PackObject ==
  LET data == pages[NextPage][NextIndex + 1] IN
  /\ phase = "packing"
  /\ Len(buffer) < objects_in_batch
  /\ FreePage
  /\ buffer' = Append(buffer, data.object_id)
  /\ references' = IF data.has_references
                     THEN references \ {data.object_id}
                     ELSE references
  /\ current_page' = NextPage
  /\ current_page_index' = NextIndex + 1
  /\ packed_objects' = packed_objects + 1
  /\ UNCHANGED <<phase, Dump, correlation_id, objects_in_batch, messages,
                 heaps>>

(* send_message: queue_message copies what is in the buffer.  The field    *)
(* complete_message_count is the number of objects, although               *)
(* rbkit_event_packer.c:125 says "total number of messages".               *)
SendMessage ==
  /\ phase = "packing"
  /\ Len(buffer) = objects_in_batch
  /\ phase' = "sending"
  /\ messages' = Append(messages, [correlation_id |-> correlation_id,
                                   complete_message_count |-> object_count,
                                   payload |-> buffer])
  /\ UNCHANGED <<Dump, freed, references, Event, objects_in_batch, buffer,
                 heaps>>

(* The rest of send_objectspace_dump. *)
EndDump ==
  /\ phase = "sending"
  /\ packed_objects = object_count
  /\ phase' = "idle"
  /\ freed' = Append(freed, current_page)
  /\ UNCHANGED <<Dump, references, Event, objects_in_batch, buffer, messages,
                 heaps>>

Next ==
  \/ get_object_dump
  \/ dump_heap_object
  \/ new_rbkit_object_space_dump_event
  \/ BeginMessage
  \/ PackObject
  \/ SendMessage
  \/ EndDump

Spec == Init /\ [][Next]_vars

-----------------------------------------------------------------------------
Slot == [object_id : Nat \ {0}, has_references : BOOLEAN]

(* Every page has room for what is in it. *)
TypeOK ==
  /\ phase \in {"idle", "collecting", "sending", "packing"}
  /\ pages \in Seq(Seq(Slot))
  /\ \A p \in DOMAIN pages : Len(pages[p]) <= RBKIT_OBJECT_DUMP_PAGE_SIZE
  /\ object_count \in Nat
  /\ freed \in Seq(Nat \ {0})
  /\ references \subseteq Nat \ {0}
  /\ current_page \in Nat
  /\ current_page_index \in 0 .. RBKIT_OBJECT_DUMP_PAGE_SIZE
  /\ packed_objects \in Nat
  /\ correlation_id \in Nat
  /\ objects_in_batch \in 0 .. MAX_OBJECT_DUMPS_IN_MESSAGE
  /\ buffer \in Seq(Nat \ {0})
  /\ messages \in Seq([correlation_id : Nat \ {0},
                       complete_message_count : Nat,
                       payload : Seq(Nat \ {0})])
  /\ heaps \in Seq(Nat \ {0})
  /\ Len(heaps) = correlation_id

Freed == {freed[i] : i \in DOMAIN freed}

(* What the packing loop reads next is an initialised slot of a page that  *)
(* is still allocated, wherever messages and pages end.                    *)
NextReadIsSafe ==
  phase = "packing" /\ Len(buffer) < objects_in_batch =>
    /\ NextPage \in DOMAIN pages \ Freed
    /\ NextIndex + 1 \in DOMAIN pages[NextPage]

(* What the client receives of dump d, in the order it receives it. *)
PartsOf(d) == [i \in DOMAIN messages |->
                 IF messages[i].correlation_id = d THEN messages[i].payload
                                                   ELSE <<>>]
ObjectsOf(d) == FlattenSeq(PartsOf(d))

FinishedDumps ==
  1 .. (IF phase \in {"sending", "packing"} THEN correlation_id - 1
                                            ELSE correlation_id)

(* A client that puts together the messages with one correlation_id has    *)
(* every object that the walk of that dump found, exactly once.  (It can't *)
(* tell from complete_message_count when it has all messages: see          *)
(* SendMessage.)                                                           *)
EveryObjectDumpedOnce ==
  \A d \in FinishedDumps : ObjectsOf(d) = [k \in 1 .. heaps[d] |-> k]

(* spec/object_space_dump_spec.rb:63: a dump is split into messages of     *)
(* MAX_OBJECT_DUMPS_IN_MESSAGE objects each; only its last message may     *)
(* have fewer, and none is empty.                                          *)
MessagesAreFull ==
  \A i \in DOMAIN messages :
    /\ Len(messages[i].payload) \in 1 .. MAX_OBJECT_DUMPS_IN_MESSAGE
    /\ i + 1 \in DOMAIN messages
         /\ messages[i + 1].correlation_id = messages[i].correlation_id
       => Len(messages[i].payload) = MAX_OBJECT_DUMPS_IN_MESSAGE

(* No page is freed twice, and when the dump has ended every page and      *)
(* every array of references was freed.                                    *)
FreedExactlyOnce ==
  /\ IsInjective(freed)
  /\ phase = "idle" => Freed = DOMAIN pages /\ references = {}
=============================================================================
