-------------------------- MODULE ObjectDump_proofs --------------------------
(***************************************************************************)
(* Proofs about ObjectDump, for any sizes of pages, messages and heap.     *)
(***************************************************************************)
EXTENDS ObjectDump, RecursionLemmas

P == RBKIT_OBJECT_DUMP_PAGE_SIZE
M == MAX_OBJECT_DUMPS_IN_MESSAGE

(* All pages but the last are full, and the last is not empty. *)
PagesAreFilled ==
  /\ \A p \in 1 .. Len(pages) : Len(pages[p]) >= 1
  /\ \A p \in 1 .. Len(pages) : p < Len(pages) => Len(pages[p]) = P
  /\ Len(pages) = 0 => object_count = 0
  /\ Len(pages) > 0 =>
       object_count = (Len(pages) - 1) * P + Len(pages[Len(pages)])

(* The place of an object tells which object it is, and only objects that  *)
(* have references own an array of them.                                   *)
SlotsAreNumbered ==
  \A p \in 1 .. Len(pages) : \A i \in 1 .. Len(pages[p]) :
    /\ pages[p][i].object_id = (p - 1) * P + i
    /\ pages[p][i].object_id <= object_count
    /\ ~pages[p][i].has_references => pages[p][i].object_id \notin references

ReferencesAreOfObjects == \A r \in references : r <= object_count

FreedInOrder == \A i \in 1 .. Len(freed) : freed[i] = i

(* Where the event is: all before it is packed, freed and never read again. *)
Position ==
  phase \in {"sending", "packing"} =>
    /\ current_page \in 1 .. Len(pages)
    /\ packed_objects = (current_page - 1) * P + current_page_index
    /\ packed_objects <= object_count
    /\ Len(freed) = current_page - 1
    /\ \A r \in references : packed_objects < r
    /\ correlation_id > 0

(* What is left of the message being packed fits what is left of the dump. *)
Batch ==
  phase = "packing" =>
    /\ objects_in_batch >= 1
    /\ Len(buffer) <= objects_in_batch
    /\ packed_objects + (objects_in_batch - Len(buffer)) <= object_count
    /\ \/ objects_in_batch = M
       \/ packed_objects + (objects_in_batch - Len(buffer)) = object_count

AtRest ==
  /\ phase = "collecting" => Len(freed) = 0
  /\ phase = "idle" => Len(freed) = Len(pages) /\ references = {}

(* A dump that goes on after its last message has sent full ones only. *)
MessagesSoFar ==
  /\ \A i \in 1 .. Len(messages) : messages[i].correlation_id <= correlation_id
  /\ phase \in {"sending", "packing"} /\ Len(messages) > 0 =>
       LET last == messages[Len(messages)] IN
         \/ last.correlation_id # correlation_id
         \/ Len(last.payload) = M
         \/ phase = "sending" /\ packed_objects = object_count

Inv ==
  /\ TypeOK
  /\ PagesAreFilled
  /\ SlotsAreNumbered
  /\ ReferencesAreOfObjects
  /\ FreedInOrder
  /\ Position
  /\ Batch
  /\ AtRest
  /\ MessagesSoFar
  /\ MessagesAreFull

USE SizesArePositive

Message == [correlation_id : Nat \ {0}, complete_message_count : Nat,
            payload : Seq(Nat \ {0})]

LEMMA MessagesAreTyped ==
  ASSUME TypeOK
  PROVE  /\ messages \in Seq(Message)
         /\ Len(messages) \in Nat
         /\ \A i \in 1 .. Len(messages) :
              /\ messages[i].correlation_id \in Nat \ {0}
              /\ Len(messages[i].payload) \in Nat
<1>1. messages \in Seq(Message)
  BY DEF TypeOK, Message
<1>2. ASSUME NEW i \in 1 .. Len(messages)
      PROVE  /\ messages[i].correlation_id \in Nat \ {0}
             /\ Len(messages[i].payload) \in Nat
  <2>1. messages[i] \in Message
    BY <1>1, <1>2
  <2>2. /\ messages[i].correlation_id \in Nat \ {0}
        /\ messages[i].payload \in Seq(Nat \ {0})
    BY <2>1 DEF Message
  <2> QED BY <2>2
<1> QED BY <1>1, <1>2

-----------------------------------------------------------------------------
LEMMA Monotone ==
  ASSUME NEW a \in Nat, NEW b \in Nat, a <= b
  PROVE  a * P <= b * P
<1>1. P \in Nat /\ b - a \in Nat
  BY DEF P
<1>2. (b - a) * P >= 0 /\ b * P = a * P + (b - a) * P
  BY <1>1
<1>3. a * P \in Nat /\ b * P \in Nat /\ (b - a) * P \in Nat
  BY <1>1
<1> QED BY <1>2, <1>3

(* The object read next exists, is still allocated, and is the next in the *)
(* order of the heap.                                                      *)
LEMMA NextRead ==
  ASSUME Inv, phase = "packing", Len(buffer) < objects_in_batch
  PROVE  /\ NextPage \in 1 .. Len(pages)
         /\ NextIndex + 1 \in 1 .. Len(pages[NextPage])
         /\ NextPage \notin Freed
         /\ pages[NextPage][NextIndex + 1] \in Slot
         /\ pages[NextPage][NextIndex + 1].object_id = packed_objects + 1
         /\ packed_objects < object_count
         /\ packed_objects + 1 = (NextPage - 1) * P + NextIndex + 1
         /\ NextIndex + 1 <= P
<1> DEFINE L == Len(pages)
<1>1. /\ P \in Nat \ {0}
      /\ pages \in Seq(Seq(Slot)) /\ L \in Nat
      /\ current_page \in 1 .. L
      /\ current_page_index \in 0 .. P
      /\ packed_objects \in Nat /\ object_count \in Nat
      /\ objects_in_batch \in Nat /\ Len(buffer) \in Nat
      /\ freed \in Seq(Nat \ {0})
  BY DEF Inv, TypeOK, Position, P
<1>2. packed_objects < object_count
  BY <1>1 DEF Inv, Batch
<1>3. packed_objects = (current_page - 1) * P + current_page_index
  BY DEF Inv, Position
<1>4. object_count = (L - 1) * P + Len(pages[L])
  <2>1. L > 0
    BY <1>1
  <2> QED BY <2>1 DEF Inv, PagesAreFilled
<1>5. \A p \in 1 .. L : Len(pages[p]) \in 1 .. P /\ (p < L => Len(pages[p]) = P)
  BY <1>1 DEF Inv, PagesAreFilled, TypeOK, P
<1>6. current_page = L => current_page_index < Len(pages[L])
  <2> SUFFICES ASSUME current_page = L
               PROVE  current_page_index < Len(pages[L])
    OBVIOUS
  <2> DEFINE Before == (L - 1) * P
  <2>1. Before \in Int /\ Len(pages[L]) \in Nat
    BY <1>1, <1>5
  <2>2. Before + current_page_index < Before + Len(pages[L])
    BY <1>2, <1>3, <1>4
  <2>3. current_page_index \in Nat
    BY <1>1
  <2> HIDE DEF Before
  <2> QED BY <2>1, <2>2, <2>3
<1>7. NextPage \in 1 .. L /\ NextIndex \in Nat
  BY <1>1, <1>5, <1>6 DEF NextPage, NextIndex, PageIsDone, P
<1>8. NextIndex + 1 \in 1 .. Len(pages[NextPage])
  <2>1. CASE PageIsDone
    BY <1>1, <1>5, <1>7, <2>1 DEF NextPage, NextIndex
  <2>2. CASE ~PageIsDone
    BY <1>1, <1>5, <1>6, <1>7, <2>2 DEF NextPage, NextIndex, PageIsDone, P
  <2> QED BY <2>1, <2>2
<1>9. packed_objects = (NextPage - 1) * P + NextIndex
  <2>1. CASE PageIsDone
    <3>1. NextPage - 1 = current_page /\ NextIndex = 0 /\ current_page_index = P
      BY <1>1, <2>1 DEF NextPage, NextIndex, PageIsDone, P
    <3>2. current_page * P = (current_page - 1) * P + P
      BY <1>1
    <3>3. current_page * P \in Nat
      BY <1>1
    <3> QED BY <1>3, <3>1, <3>2, <3>3
  <2>2. CASE ~PageIsDone
    BY <1>3, <2>2 DEF NextPage, NextIndex
  <2> QED BY <2>1, <2>2
<1>10. NextPage \notin Freed
  <2>1. Len(freed) = current_page - 1 /\ \A i \in 1 .. Len(freed) : freed[i] = i
    BY DEF Inv, Position, FreedInOrder
  <2>2. Freed \subseteq 1 .. current_page - 1
    BY <1>1, <2>1 DEF Freed
  <2> QED BY <1>1, <2>2 DEF NextPage
<1>11. pages[NextPage] \in Seq(Slot)
  BY <1>1, <1>7
<1>12. pages[NextPage][NextIndex + 1] \in Slot
  BY <1>8, <1>11
<1>13. pages[NextPage][NextIndex + 1].object_id = (NextPage - 1) * P + (NextIndex + 1)
  BY <1>7, <1>8 DEF Inv, SlotsAreNumbered
<1>14. (NextPage - 1) * P \in Int
  BY <1>1, <1>7
<1>15. NextIndex + 1 <= P
  BY <1>1, <1>5, <1>7, <1>8
<1> HIDE DEF L
<1>16. packed_objects + 1 = (NextPage - 1) * P + NextIndex + 1
  BY <1>7, <1>9, <1>14
<1>17. pages[NextPage][NextIndex + 1].object_id = packed_objects + 1
  BY <1>7, <1>9, <1>13, <1>14
<1> QED BY <1>2, <1>7, <1>8, <1>10, <1>12, <1>15, <1>16, <1>17 DEF L

(* When everything is packed the event is on the last page. *)
LEMMA LastPage ==
  ASSUME Inv, phase = "sending", packed_objects = object_count
  PROVE  current_page = Len(pages)
<1> DEFINE L == Len(pages)
<1>1. /\ P \in Nat \ {0}
      /\ L \in Nat
      /\ current_page \in 1 .. L
      /\ current_page_index \in 0 .. P
  BY DEF Inv, TypeOK, Position, P
<1>2. L > 0 /\ Len(pages[L]) >= 1 /\ Len(pages[L]) \in Nat
  <2>1. pages[L] \in Seq(Slot)
    BY <1>1 DEF Inv, TypeOK
  <2> QED BY <1>1, <2>1 DEF Inv, PagesAreFilled
<1>3. (current_page - 1) * P + current_page_index = (L - 1) * P + Len(pages[L])
  BY <1>1, <1>2 DEF Inv, PagesAreFilled, Position
<1>4. SUFFICES ASSUME current_page < L
               PROVE  FALSE
  BY <1>1
<1> DEFINE x == (current_page - 1) * P
           y == (L - 1) * P
           z == current_page * P
<1>5. z <= y
  BY <1>1, <1>4, Monotone
<1>6. z = x + P
  BY <1>1
<1>7. x \in Nat /\ y \in Nat /\ z \in Nat
  BY <1>1
<1>8. x + current_page_index = y + Len(pages[L])
  BY <1>3
<1>9. current_page_index \in Nat /\ current_page_index <= P
  BY <1>1
<1> HIDE DEF x, y, z, L
<1> QED BY <1>1, <1>2, <1>5, <1>6, <1>7, <1>8, <1>9

-----------------------------------------------------------------------------
LEMMA InitHolds == Init => Inv
BY DEF Init, Inv, TypeOK, PagesAreFilled, SlotsAreNumbered, FreedInOrder,
   ReferencesAreOfObjects, Position, Batch, AtRest, MessagesSoFar,
   MessagesAreFull

LEMMA GetObjectDumpKeepsInv == Inv /\ get_object_dump => Inv'
<1> SUFFICES ASSUME Inv, get_object_dump
             PROVE  Inv'
  OBVIOUS
<1> USE DEF get_object_dump, Inv, Event
<1>1. TypeOK'
  BY DEF TypeOK
<1>2. PagesAreFilled' /\ SlotsAreNumbered' /\ ReferencesAreOfObjects' /\ FreedInOrder'
  BY DEF PagesAreFilled, SlotsAreNumbered, ReferencesAreOfObjects,
         FreedInOrder, AtRest
<1>3. Position' /\ Batch' /\ AtRest'
  BY DEF Position, Batch, AtRest
<1>4. MessagesSoFar' /\ MessagesAreFull'
  BY DEF MessagesSoFar, MessagesAreFull
<1> QED BY <1>1, <1>2, <1>3, <1>4

LEMMA NewEventKeepsInv == Inv /\ new_rbkit_object_space_dump_event => Inv'
<1> SUFFICES ASSUME Inv, new_rbkit_object_space_dump_event
             PROVE  Inv'
  OBVIOUS
<1> USE DEF new_rbkit_object_space_dump_event, Inv, Dump
<1>1. TypeOK'
  BY DEF TypeOK
<1>2. PagesAreFilled' /\ SlotsAreNumbered' /\ ReferencesAreOfObjects' /\ FreedInOrder'
  BY DEF PagesAreFilled, SlotsAreNumbered, ReferencesAreOfObjects, FreedInOrder
<1>3. Position'
  <2>1. Len(pages) \in Nat /\ Len(pages) > 0 /\ object_count \in Nat
    BY DEF TypeOK, PagesAreFilled
  <2>2. \A r \in references : r > 0
    BY DEF TypeOK
  <2>3. P \in Nat /\ Len(freed) = 0
    BY DEF P, AtRest
  <2>4. (1 - 1) * P + 0 = 0
    BY <2>3
  <2>5. correlation_id \in Nat
    BY DEF TypeOK
  <2> QED BY <2>1, <2>2, <2>3, <2>4, <2>5 DEF Position
<1>4. Batch' /\ AtRest'
  BY DEF Batch, AtRest
<1>5. MessagesSoFar'
  <2>1. /\ Len(messages) \in Nat
        /\ \A i \in 1 .. Len(messages) : messages[i].correlation_id \in Nat
        /\ correlation_id \in Nat
    BY MessagesAreTyped DEF TypeOK
  <2>2. \A i \in 1 .. Len(messages) : messages[i].correlation_id <= correlation_id
    BY DEF MessagesSoFar
  <2>3. messages' = messages /\ correlation_id' = correlation_id + 1
    OBVIOUS
  <2>4. \A i \in 1 .. Len(messages) :
          /\ messages[i].correlation_id <= correlation_id'
          /\ messages[i].correlation_id # correlation_id'
    BY <2>1, <2>2, <2>3
  <2>5. Len(messages) > 0 => messages[Len(messages)].correlation_id # correlation_id'
    BY <2>1, <2>4
  <2>6. /\ \A i \in 1 .. Len(messages') :
               messages'[i].correlation_id <= correlation_id'
        /\ Len(messages') > 0 =>
             messages'[Len(messages')].correlation_id # correlation_id'
    BY <2>3, <2>4, <2>5
  <2> HIDE DEF Inv, new_rbkit_object_space_dump_event
  <2> QED BY <2>6 DEF MessagesSoFar
<1>6. MessagesAreFull'
  BY DEF MessagesAreFull
<1> QED BY <1>1, <1>2, <1>3, <1>4, <1>5, <1>6

LEMMA BeginMessageKeepsInv == Inv /\ BeginMessage => Inv'
<1> SUFFICES ASSUME Inv, BeginMessage
             PROVE  Inv'
  OBVIOUS
<1> USE DEF BeginMessage, Inv, Dump, Event
<1>1. TypeOK'
  BY DEF TypeOK, BatchSize
<1>2. PagesAreFilled' /\ SlotsAreNumbered' /\ ReferencesAreOfObjects' /\ FreedInOrder'
  BY DEF PagesAreFilled, SlotsAreNumbered, ReferencesAreOfObjects, FreedInOrder
<1>3. Position' /\ AtRest'
  BY DEF Position, AtRest
<1>4. Batch'
  BY DEF Batch, BatchSize, TypeOK, M
<1>5. MessagesSoFar'
  BY DEF MessagesSoFar, TypeOK
<1>6. MessagesAreFull'
  BY DEF MessagesAreFull
<1> QED BY <1>1, <1>2, <1>3, <1>4, <1>5, <1>6

LEMMA EndDumpKeepsInv == Inv /\ EndDump => Inv'
<1> SUFFICES ASSUME Inv, EndDump
             PROVE  Inv'
  OBVIOUS
<1> USE DEF EndDump, Inv, Dump, Event
<1>1. current_page = Len(pages) /\ current_page \in Nat \ {0}
  <2>1. current_page = Len(pages)
    BY LastPage
  <2> QED BY <2>1 DEF Position, TypeOK
<1>2. TypeOK'
  BY <1>1 DEF TypeOK
<1>3. PagesAreFilled' /\ SlotsAreNumbered' /\ ReferencesAreOfObjects'
  BY DEF PagesAreFilled, SlotsAreNumbered, ReferencesAreOfObjects
<1>4. Len(freed) = current_page - 1 /\ freed \in Seq(Nat \ {0})
  BY DEF Position, TypeOK
<1>5. FreedInOrder'
  BY <1>1, <1>4 DEF FreedInOrder
<1>6. references = {}
  <2>1. \A r \in references : r <= object_count /\ r > object_count /\ r \in Nat
    BY DEF ReferencesAreOfObjects, Position, TypeOK
  <2> QED BY <2>1 DEF TypeOK
<1>7. Position' /\ Batch' /\ AtRest'
  BY <1>1, <1>4, <1>6 DEF Position, Batch, AtRest
<1>8. MessagesSoFar' /\ MessagesAreFull'
  BY DEF MessagesSoFar, MessagesAreFull
<1> QED BY <1>2, <1>3, <1>5, <1>7, <1>8

LEMMA SendMessageKeepsInv == Inv /\ SendMessage => Inv'
<1> DEFINE m == [correlation_id |-> correlation_id,
                 complete_message_count |-> object_count,
                 payload |-> buffer]
           n == Len(messages)
<1> SUFFICES ASSUME Inv, SendMessage
             PROVE  Inv'
  OBVIOUS
<1> USE DEF Inv, Dump, Event
<1>1. /\ phase = "packing" /\ phase' = "sending"
      /\ Len(buffer) = objects_in_batch
      /\ messages' = Append(messages, m)
      /\ buffer' = buffer
      /\ UNCHANGED <<Dump, freed, references, Event, objects_in_batch, heaps>>
  BY DEF SendMessage
<1>2. correlation_id \in Nat \ {0} /\ buffer \in Seq(Nat \ {0}) /\ object_count \in Nat
  BY <1>1 DEF TypeOK, Position
<1>3. m \in Message
  BY <1>2 DEF Message
<1>4. messages \in Seq(Message) /\ n \in Nat
  BY MessagesAreTyped
<1>5. /\ Len(messages') = n + 1
      /\ messages' \in Seq(Message)
      /\ messages'[n + 1] = m
      /\ \A i \in 1 .. n : messages'[i] = messages[i]
  BY <1>1, <1>3, <1>4
<1>6. /\ m.correlation_id = correlation_id
      /\ Len(m.payload) = objects_in_batch
  BY <1>1
<1>7. objects_in_batch \in 1 .. M
  BY <1>1 DEF TypeOK, Batch, M
<1> HIDE DEF m, n
<1>8. TypeOK'
  BY <1>1, <1>5 DEF TypeOK, Message
<1>9. PagesAreFilled' /\ SlotsAreNumbered' /\ ReferencesAreOfObjects' /\ FreedInOrder'
  BY <1>1 DEF PagesAreFilled, SlotsAreNumbered, ReferencesAreOfObjects, FreedInOrder
<1>10. Position' /\ Batch' /\ AtRest'
  BY <1>1 DEF Position, Batch, AtRest
<1>11. MessagesSoFar'
  <2>1. \A i \in 1 .. n + 1 : messages'[i].correlation_id <= correlation_id
    <3>1. \A i \in 1 .. n : messages[i].correlation_id <= correlation_id
      BY DEF MessagesSoFar, n
    <3> QED BY <1>2, <1>4, <1>5, <1>6, <3>1
  <2>2. objects_in_batch = M \/ packed_objects = object_count
    BY <1>1, <1>2, <1>7 DEF Batch, TypeOK
  <2>3. correlation_id' = correlation_id /\ packed_objects' = packed_objects
        /\ object_count' = object_count
    BY <1>1
  <2>4. Len(messages'[n + 1].payload) = M \/ packed_objects = object_count
    BY <1>5, <1>6, <2>2
  <2> QED BY <1>1, <1>5, <2>1, <2>3, <2>4 DEF MessagesSoFar
<1>12. MessagesAreFull'
  <2>1. \A i \in 1 .. n : Len(messages[i].payload) \in 1 .. M
    BY <1>4 DEF MessagesAreFull, M, n
  <2>2. \A i \in 1 .. n + 1 : Len(messages'[i].payload) \in 1 .. M
    BY <1>4, <1>5, <1>6, <1>7, <2>1
  <2>3. \A i \in 1 .. n : i + 1 \in 1 .. n
                            /\ messages[i + 1].correlation_id = messages[i].correlation_id
                          => Len(messages[i].payload) = M
    BY <1>4 DEF MessagesAreFull, M, n
  <2>4. n > 0 /\ messages[n].correlation_id = correlation_id
        => Len(messages[n].payload) = M
    BY <1>1 DEF MessagesSoFar, n
  <2>5. ASSUME NEW i \in 1 .. n + 1, i + 1 \in 1 .. n + 1,
               messages'[i + 1].correlation_id = messages'[i].correlation_id
        PROVE  Len(messages'[i].payload) = M
    <3>1. CASE i = n
      <4>1. i \in 1 .. n /\ n > 0
        BY <1>4, <3>1, <2>5
      <4>2. messages'[i] = messages[n] /\ messages'[i + 1] = m
        BY <1>5, <3>1, <4>1
      <4> QED BY <1>6, <2>4, <2>5, <4>1, <4>2
    <3>2. CASE i # n
      <4>1. i \in 1 .. n /\ i + 1 \in 1 .. n
        BY <1>4, <2>5, <3>2
      <4>2. messages'[i] = messages[i] /\ messages'[i + 1] = messages[i + 1]
        BY <1>5, <4>1
      <4> QED BY <2>3, <2>5, <4>1, <4>2
    <3> QED BY <3>1, <3>2
  <2>6. DOMAIN messages' = 1 .. n + 1
    BY <1>5
  <2> QED BY <2>2, <2>5, <2>6 DEF MessagesAreFull, M
<1> QED BY <1>8, <1>9, <1>10, <1>11, <1>12

LEMMA PackObjectKeepsInv == Inv /\ PackObject => Inv'
<1> DEFINE data == pages[NextPage][NextIndex + 1]
<1> SUFFICES ASSUME Inv, PackObject
             PROVE  Inv'
  OBVIOUS
<1>1. /\ phase = "packing" /\ phase' = "packing"
      /\ Len(buffer) < objects_in_batch
      /\ freed' = IF PageIsDone THEN Append(freed, current_page) ELSE freed
      /\ buffer' = Append(buffer, data.object_id)
      /\ references' = IF data.has_references
                         THEN references \ {data.object_id}
                         ELSE references
      /\ current_page' = NextPage
      /\ current_page_index' = NextIndex + 1
      /\ packed_objects' = packed_objects + 1
      /\ pages' = pages /\ object_count' = object_count
      /\ correlation_id' = correlation_id
      /\ objects_in_batch' = objects_in_batch
      /\ messages' = messages /\ heaps' = heaps
  BY DEF PackObject, FreePage, Dump
<1>2. /\ NextPage \in 1 .. Len(pages)
      /\ NextIndex + 1 \in 1 .. Len(pages[NextPage])
      /\ data \in Slot
      /\ data.object_id = packed_objects + 1
      /\ packed_objects < object_count
      /\ packed_objects + 1 = (NextPage - 1) * P + (NextIndex + 1)
      /\ NextIndex + 1 <= P
  <2>1. /\ NextPage \in 1 .. Len(pages)
        /\ NextIndex + 1 \in 1 .. Len(pages[NextPage])
        /\ data \in Slot
        /\ data.object_id = packed_objects + 1
        /\ packed_objects < object_count
        /\ packed_objects + 1 = (NextPage - 1) * P + NextIndex + 1
        /\ NextIndex + 1 <= P
    BY <1>1, NextRead
  <2>2. P \in Nat /\ Len(pages) \in Nat /\ NextIndex \in Nat
    BY DEF P, Inv, TypeOK, NextIndex
  <2>3. (NextPage - 1) * P \in Int
    BY <2>1, <2>2
  <2>4. (NextPage - 1) * P + NextIndex + 1 = (NextPage - 1) * P + (NextIndex + 1)
    BY <2>2, <2>3
  <2> QED BY <2>1, <2>4
<1>3. /\ current_page \in 1 .. Len(pages) /\ Len(pages) \in Nat
      /\ packed_objects \in Nat /\ object_count \in Nat
      /\ Len(freed) = current_page - 1 /\ freed \in Seq(Nat \ {0})
      /\ buffer \in Seq(Nat \ {0}) /\ objects_in_batch \in Nat
      /\ NextIndex + 1 \in Nat
  BY <1>1 DEF Inv, TypeOK, Position, NextIndex
<1>4. data.object_id \in Nat \ {0}
  BY <1>2 DEF Slot
<1>5. Len(buffer') = Len(buffer) + 1 /\ buffer' \in Seq(Nat \ {0})
  BY <1>1, <1>3, <1>4
<1>6. /\ freed' \in Seq(Nat \ {0})
      /\ Len(freed') = NextPage - 1
      /\ FreedInOrder'
  <2>1. CASE PageIsDone
    <3>1. freed' = Append(freed, current_page) /\ NextPage = current_page + 1
      BY <1>1, <2>1 DEF NextPage
    <3>2. \A i \in 1 .. Len(freed) : freed[i] = i
      BY DEF Inv, FreedInOrder
    <3> QED BY <1>3, <3>1, <3>2 DEF FreedInOrder
  <2>2. CASE ~PageIsDone
    BY <1>1, <1>3, <2>2 DEF NextPage, Inv, FreedInOrder
  <2> QED BY <2>1, <2>2
<1>7. \A r \in references' : r \in references /\ packed_objects' < r
  <2>1. \A r \in references : packed_objects < r /\ r \in Nat
    BY <1>1 DEF Inv, Position, TypeOK
  <2>2. data.object_id \notin references'
    <3>1. CASE data.has_references
      BY <1>1, <3>1
    <3>2. CASE ~data.has_references
      BY <1>1, <1>2, <3>2 DEF Inv, SlotsAreNumbered
    <3> QED BY <3>1, <3>2
  <2>3. references' \subseteq references
    BY <1>1
  <2>4. ASSUME NEW r \in references'
        PROVE  r # packed_objects + 1 /\ packed_objects < r /\ r \in Nat
    BY <1>2, <2>1, <2>2, <2>3
  <2> QED BY <1>1, <1>3, <2>3, <2>4
<1> HIDE DEF data
<1>8. TypeOK'
  <2>1. current_page_index' \in 0 .. RBKIT_OBJECT_DUMP_PAGE_SIZE
    BY <1>1, <1>2, <1>3 DEF P
  <2>2. current_page' \in Nat /\ packed_objects' \in Nat
    BY <1>1, <1>2, <1>3
  <2>3. references' \subseteq Nat \ {0}
    BY <1>7 DEF Inv, TypeOK
  <2> QED BY <1>1, <1>5, <1>6, <2>1, <2>2, <2>3 DEF Inv, TypeOK
<1>9. PagesAreFilled'
  BY <1>1 DEF Inv, PagesAreFilled
<1>10. SlotsAreNumbered' /\ ReferencesAreOfObjects'
  BY <1>1, <1>7 DEF Inv, SlotsAreNumbered, ReferencesAreOfObjects
<1>11. Position'
  <2>1. packed_objects' <= object_count'
    BY <1>1, <1>2, <1>3
  <2>2. packed_objects' = (current_page' - 1) * P + current_page_index'
    BY <1>1, <1>2
  <2>3. correlation_id' > 0
    BY <1>1 DEF Inv, Position
  <2> QED BY <1>1, <1>2, <1>6, <1>7, <2>1, <2>2, <2>3 DEF Position
<1>12. Batch'
  <2>1. /\ objects_in_batch >= 1
        /\ packed_objects + (objects_in_batch - Len(buffer)) <= object_count
        /\ \/ objects_in_batch = M
           \/ packed_objects + (objects_in_batch - Len(buffer)) = object_count
    BY <1>1 DEF Inv, Batch
  <2>2. Len(buffer) \in Nat
    BY <1>3
  <2>3. packed_objects' + (objects_in_batch' - Len(buffer'))
          = packed_objects + (objects_in_batch - Len(buffer))
    BY <1>1, <1>3, <1>5, <2>2
  <2>4. Len(buffer') <= objects_in_batch'
    BY <1>1, <1>3, <1>5, <2>2
  <2> QED BY <1>1, <2>1, <2>3, <2>4 DEF Batch
<1>13. AtRest'
  BY <1>1 DEF AtRest
<1>14. MessagesSoFar' /\ MessagesAreFull'
  BY <1>1 DEF Inv, MessagesSoFar, MessagesAreFull
<1> QED BY <1>6, <1>8, <1>9, <1>10, <1>11, <1>12, <1>13, <1>14 DEF Inv

(* The new slot is the last of the last page and has the next number; all  *)
(* other slots stay.                                                       *)
LEMMA Added ==
  ASSUME Inv, NEW data \in Slot, pages' = AddToPages(data)
  PROVE  LET q == Len(pages')
             k == Len(pages'[q])
         IN
           /\ pages' \in Seq(Seq(Slot))
           /\ q >= 1 /\ k \in 1 .. P
           /\ pages'[q][k] = data
           /\ object_count + 1 = (q - 1) * P + k
           /\ \A p \in 1 .. q - 1 : /\ p \in 1 .. Len(pages)
                                    /\ pages'[p] = pages[p]
                                    /\ Len(pages[p]) = P
           /\ k > 1 => /\ q \in 1 .. Len(pages) /\ Len(pages[q]) = k - 1
                       /\ \A i \in 1 .. k - 1 : pages'[q][i] = pages[q][i]
<1> DEFINE n == Len(pages)
<1>1. /\ P \in Nat \ {0}
      /\ pages \in Seq(Seq(Slot)) /\ n \in Nat
      /\ object_count \in Nat
  BY DEF Inv, TypeOK, P
<1>0. /\ n = 0 => object_count = 0
      /\ n > 0 => object_count = (n - 1) * P + Len(pages[n])
  BY DEF Inv, PagesAreFilled
<1>2. \A p \in 1 .. n : pages[p] \in Seq(Slot) /\ Len(pages[p]) \in 1 .. P
  <2>1. \A p \in 1 .. n : pages[p] \in Seq(Slot)
    BY <1>1
  <2>2. \A p \in 1 .. n : Len(pages[p]) <= P /\ Len(pages[p]) >= 1
    BY <1>1 DEF Inv, TypeOK, PagesAreFilled, P
  <2> QED BY <2>1, <2>2
<1>3. \A p \in 1 .. n - 1 : Len(pages[p]) = P
  BY <1>1 DEF Inv, PagesAreFilled
<1>4. n = 0 <=> pages = <<>>
  BY <1>1
<1>5. CASE pages = <<>> \/ Len(Last(pages)) = P
  <2>1. pages' = Append(pages, <<data>>)
    BY <1>5 DEF AddToPages, P
  <2>2. /\ pages' \in Seq(Seq(Slot)) /\ Len(pages') = n + 1
        /\ pages'[n + 1] = <<data>>
        /\ \A p \in 1 .. n : pages'[p] = pages[p]
    BY <1>1, <2>1
  <2>3. \A p \in 1 .. n : Len(pages[p]) = P
    BY <1>1, <1>3, <1>4, <1>5 DEF Last
  <2>4. object_count = n * P
    <3>1. CASE n = 0
      BY <1>0, <1>1, <3>1
    <3>2. CASE n > 0
      <4>1. Len(pages[n]) = P /\ object_count = (n - 1) * P + Len(pages[n])
        BY <1>0, <1>1, <2>3, <3>2
      <4>2. (n - 1) * P + P = n * P
        BY <1>1
      <4> QED BY <4>1, <4>2
    <3> QED BY <1>1, <3>1, <3>2
  <2>5. (n + 1 - 1) * P + 1 = n * P + 1
    BY <1>1
  <2>6. Len(pages'[n + 1]) = 1 /\ pages'[n + 1][1] = data
    BY <2>2
  <2>7. object_count + 1 = ((n + 1) - 1) * P + 1
    BY <2>4, <2>5
  <2>8. \A p \in 1 .. (n + 1) - 1 :
          p \in 1 .. n /\ pages'[p] = pages[p] /\ Len(pages[p]) = P
    BY <1>1, <2>2, <2>3
  <2>9. n + 1 >= 1 /\ 1 \in 1 .. P /\ ~(1 > 1)
    BY <1>1
  <2> HIDE DEF n
  <2> QED BY <2>2, <2>6, <2>7, <2>8, <2>9 DEF n
<1>6. CASE ~(pages = <<>> \/ Len(Last(pages)) = P)
  <2> DEFINE k == Len(pages[n]) + 1
  <2>1. n > 0 /\ n \in 1 .. n + 1 /\ n \in 1 .. n
    BY <1>1, <1>4, <1>6
  <2>2. Len(pages[n]) # P /\ Len(pages[n]) \in 1 .. P
    BY <1>2, <1>6, <2>1 DEF Last
  <2>3. pages' = [pages EXCEPT ![n] = Append(@, data)]
    BY <1>6 DEF AddToPages, P
  <2>4. /\ k \in 1 .. P /\ k > 1 /\ k - 1 = Len(pages[n])
    BY <1>1, <2>2
  <2>5. pages[n] \in Seq(Slot)
    BY <1>2, <2>1
  <2>6. Append(pages[n], data) \in Seq(Slot)
    BY <2>5
  <2>7. /\ pages' \in Seq(Seq(Slot)) /\ Len(pages') = n
        /\ pages'[n] = Append(pages[n], data)
        /\ \A p \in 1 .. n - 1 : pages'[p] = pages[p]
    BY <1>1, <2>1, <2>3, <2>6
  <2>8. /\ Len(pages'[n]) = k /\ pages'[n][k] = data
        /\ \A i \in 1 .. k - 1 : pages'[n][i] = pages[n][i]
    BY <2>5, <2>7
  <2>9. object_count + 1 = (n - 1) * P + k
    <3>1. object_count = (n - 1) * P + Len(pages[n])
      BY <1>0, <2>1
    <3>2. (n - 1) * P \in Int /\ Len(pages[n]) \in Int
      BY <1>1, <2>2
    <3> QED BY <3>1, <3>2
  <2>10. \A p \in 1 .. n - 1 : p \in 1 .. n /\ pages'[p] = pages[p] /\ Len(pages[p]) = P
    BY <1>1, <1>3, <2>7
  <2> HIDE DEF k, n
  <2> QED BY <2>1, <2>4, <2>7, <2>8, <2>9, <2>10 DEF n
<1> QED BY <1>5, <1>6

LEMMA DumpHeapObjectKeepsInv == Inv /\ dump_heap_object => Inv'
<1> SUFFICES ASSUME Inv, dump_heap_object
             PROVE  Inv'
  OBVIOUS
<1>1. PICK has_references \in BOOLEAN :
        LET data == [object_id |-> object_count + 1,
                     has_references |-> has_references] IN
        /\ pages' = AddToPages(data)
        /\ references' = IF has_references
                           THEN references \cup {data.object_id}
                           ELSE references
  BY DEF dump_heap_object
<1> DEFINE id == object_count + 1
           data == [object_id |-> id, has_references |-> has_references]
           q == Len(pages')
           k == Len(pages'[q])
<1>2. /\ phase = "collecting" /\ phase' = phase
      /\ object_count' = id
      /\ UNCHANGED <<freed, current_page, current_page_index, packed_objects,
                     correlation_id, objects_in_batch, buffer, messages, heaps>>
  BY DEF dump_heap_object, Event
<1>3. /\ object_count \in Nat /\ id \in Nat \ {0}
      /\ P \in Nat \ {0}
      /\ references \subseteq Nat \ {0}
  BY DEF Inv, TypeOK, P
<1>4. /\ data \in Slot
      /\ data.object_id = id
      /\ data.has_references = has_references
  BY <1>3 DEF Slot
<1>5. pages' = AddToPages(data)
  BY <1>1
<1>6. references' = IF has_references THEN references \cup {id} ELSE references
  BY <1>1
<1>7. /\ pages' \in Seq(Seq(Slot))
      /\ q >= 1 /\ k \in 1 .. P
      /\ pages'[q][k] = data
      /\ id = (q - 1) * P + k
      /\ \A p \in 1 .. q - 1 : /\ p \in 1 .. Len(pages)
                               /\ pages'[p] = pages[p]
                               /\ Len(pages[p]) = P
      /\ k > 1 => /\ q \in 1 .. Len(pages) /\ Len(pages[q]) = k - 1
                  /\ \A i \in 1 .. k - 1 : pages'[q][i] = pages[q][i]
  <2> HIDE DEF data
  <2> QED BY <1>4, <1>5, Added
<1>8. q \in Nat \ {0} /\ k \in Nat \ {0}
  BY <1>3, <1>7
<1>9. /\ q = Len(pages') /\ k = Len(pages'[q])
      /\ id = object_count'
  BY <1>2
<1> HIDE DEF data, id, q, k
<1>10. \A p \in 1 .. q - 1 : Len(pages'[p]) = P
  BY <1>7
<1>11. references' \subseteq references \cup {id}
  BY <1>6
<1>12. TypeOK'
  <2>1. \A p \in 1 .. q : Len(pages'[p]) <= P
    <3>1. ASSUME NEW p \in 1 .. q
          PROVE  Len(pages'[p]) <= P
      <4>1. CASE p = q
        BY <1>3, <1>7, <1>9, <4>1
      <4>2. CASE p # q
        <5>1. p \in 1 .. q - 1
          BY <1>8, <4>2
        <5> QED BY <1>3, <1>10, <5>1
      <4> QED BY <4>1, <4>2
    <3> QED BY <3>1
  <2>2. DOMAIN pages' = 1 .. q
    BY <1>7, <1>9
  <2>3. references' \subseteq Nat \ {0}
    BY <1>3, <1>11
  <2> QED BY <1>2, <1>3, <1>7, <1>9, <2>1, <2>2, <2>3 DEF Inv, TypeOK, P
<1>13. PagesAreFilled'
  <2>1. ASSUME NEW p \in 1 .. q
        PROVE  Len(pages'[p]) >= 1 /\ (p < q => Len(pages'[p]) = P)
    <3>1. CASE p = q
      BY <1>3, <1>7, <1>8, <1>9, <3>1
    <3>2. CASE p # q
      <4>1. p \in 1 .. q - 1
        BY <1>8, <3>2
      <4> QED BY <1>3, <1>10, <4>1
    <3> QED BY <3>1, <3>2
  <2>2. object_count' = (q - 1) * P + k
    BY <1>7, <1>9
  <2> QED BY <1>8, <1>9, <2>1, <2>2 DEF PagesAreFilled
<1>14. SlotsAreNumbered'
  <2>1. ASSUME NEW p \in 1 .. Len(pages), NEW i \in 1 .. Len(pages[p])
        PROVE  /\ pages[p][i].object_id = (p - 1) * P + i
               /\ pages[p][i].object_id <= id
               /\ ~pages[p][i].has_references =>
                    pages[p][i].object_id \notin references'
    <3>1. /\ pages[p][i].object_id = (p - 1) * P + i
          /\ pages[p][i].object_id <= object_count
          /\ ~pages[p][i].has_references =>
               pages[p][i].object_id \notin references
      BY DEF Inv, SlotsAreNumbered
    <3>2. pages[p][i].object_id \in Nat
      <4>1. pages \in Seq(Seq(Slot))
        BY DEF Inv, TypeOK
      <4>2. pages[p] \in Seq(Slot)
        BY <4>1
      <4>3. pages[p][i] \in Slot
        BY <4>2
      <4> QED BY <4>3 DEF Slot
    <3>3. pages[p][i].object_id # id /\ pages[p][i].object_id <= id
      BY <1>3, <3>1, <3>2 DEF id
    <3> QED BY <1>11, <3>1, <3>3
  <2>2. id \notin references
    BY <1>3 DEF Inv, ReferencesAreOfObjects, id
  <2>3. /\ pages'[q][k].object_id = (q - 1) * P + k
        /\ pages'[q][k].object_id <= id
        /\ ~pages'[q][k].has_references =>
             pages'[q][k].object_id \notin references'
    BY <1>3, <1>4, <1>6, <1>7, <2>2
  <2>4. ASSUME NEW p \in 1 .. q, NEW i \in 1 .. Len(pages'[p])
        PROVE  /\ pages'[p][i].object_id = (p - 1) * P + i
               /\ pages'[p][i].object_id <= id
               /\ ~pages'[p][i].has_references =>
                    pages'[p][i].object_id \notin references'
    <3>1. CASE p # q
      <4>1. p \in 1 .. q - 1
        BY <1>8, <3>1
      <4>2. p \in 1 .. Len(pages) /\ pages'[p] = pages[p]
        BY <1>7, <4>1
      <4> QED BY <2>1, <4>2
    <3>2. CASE p = q /\ i = k
      BY <2>3, <3>2
    <3>3. CASE p = q /\ i # k
      <4>1. i \in 1 .. k - 1 /\ k > 1
        BY <1>8, <1>9, <3>3
      <4>2. /\ q \in 1 .. Len(pages) /\ Len(pages[q]) = k - 1
            /\ pages'[q][i] = pages[q][i]
        BY <1>7, <4>1
      <4>3. i \in 1 .. Len(pages[q])
        BY <4>1, <4>2
      <4> QED BY <2>1, <3>3, <4>2, <4>3
    <3> QED BY <3>1, <3>2, <3>3
  <2> QED BY <1>9, <2>4 DEF SlotsAreNumbered
<1>15. ReferencesAreOfObjects'
  <2>1. \A r \in references : r \in Nat /\ r <= object_count
    BY <1>3 DEF Inv, ReferencesAreOfObjects
  <2> QED BY <1>3, <1>9, <1>11, <2>1 DEF ReferencesAreOfObjects, id
<1>16. FreedInOrder' /\ Position' /\ Batch' /\ AtRest'
  BY <1>2 DEF Inv, FreedInOrder, Position, Batch, AtRest
<1>17. MessagesSoFar' /\ MessagesAreFull'
  BY <1>2 DEF Inv, MessagesSoFar, MessagesAreFull
<1> QED BY <1>12, <1>13, <1>14, <1>15, <1>16, <1>17 DEF Inv

LEMMA StutterKeepsInv == Inv /\ UNCHANGED vars => Inv'
BY DEF vars, Inv, TypeOK, PagesAreFilled, SlotsAreNumbered,
       ReferencesAreOfObjects, FreedInOrder, Position, Batch, AtRest,
       MessagesSoFar, MessagesAreFull

LEMMA Invariance == Spec => []Inv
<1>1. Init => Inv
  BY InitHolds
<1>2. Inv /\ [Next]_vars => Inv'
  BY GetObjectDumpKeepsInv, DumpHeapObjectKeepsInv, NewEventKeepsInv,
     BeginMessageKeepsInv, PackObjectKeepsInv, SendMessageKeepsInv,
     EndDumpKeepsInv, StutterKeepsInv DEF Next
<1> QED BY <1>1, <1>2, PTL DEF Spec

-----------------------------------------------------------------------------
(* Every variable keeps its type; in particular no page is ever filled     *)
(* past the slots malloc'ed for it (initialize_object_data), and the index *)
(* and the batch of the event stay in their bounds.                        *)
THEOREM TypeCorrect == Spec => []TypeOK
<1>1. Inv => TypeOK
  BY DEF Inv
<1> QED BY <1>1, Invariance, PTL

(* The loop of pack_object_space_dump_event reads initialised slots of     *)
(* pages not yet freed, whatever the sizes of pages, messages and heap.    *)
THEOREM ReadsAreSafe == Spec => []NextReadIsSafe
<1>1. Inv => NextReadIsSafe
  <2> SUFFICES ASSUME Inv, phase = "packing", Len(buffer) < objects_in_batch
               PROVE  /\ NextPage \in DOMAIN pages \ Freed
                      /\ NextIndex + 1 \in DOMAIN pages[NextPage]
    BY DEF NextReadIsSafe
  <2>1. /\ NextPage \in 1 .. Len(pages)
        /\ NextIndex + 1 \in 1 .. Len(pages[NextPage])
    BY NextRead
  <2>2. /\ pages \in Seq(Seq(Slot)) /\ freed \in Seq(Nat \ {0})
        /\ current_page \in 1 .. Len(pages) /\ Len(freed) = current_page - 1
    BY DEF Inv, TypeOK, Position
  <2>3. pages[NextPage] \in Seq(Slot)
    BY <2>1, <2>2
  <2>4. DOMAIN pages = 1 .. Len(pages)
        /\ DOMAIN pages[NextPage] = 1 .. Len(pages[NextPage])
        /\ DOMAIN freed = 1 .. Len(freed)
    BY <2>2, <2>3
  <2>5. \A i \in 1 .. Len(freed) : freed[i] = i /\ i < current_page
    BY <2>2 DEF Inv, FreedInOrder
  <2>6. NextPage >= current_page /\ NextPage \in Nat /\ current_page \in Nat
    BY <2>1, <2>2 DEF NextPage
  <2>7. NextPage \notin Freed
    BY <2>4, <2>5, <2>6 DEF Freed
  <2> QED BY <2>1, <2>4, <2>7
<1> QED BY <1>1, Invariance, PTL

(* Only the last message of a dump has less than                           *)
(* MAX_OBJECT_DUMPS_IN_MESSAGE objects, and no message is empty            *)
(* (pack_object_space_dump_event and the loop of                           *)
(* send_objectspace_dump).                                                 *)
THEOREM FullMessages == Spec => []MessagesAreFull
<1>1. Inv => MessagesAreFull
  BY DEF Inv
<1> QED BY <1>1, Invariance, PTL

(* Between the packing loop, which frees the pages it has left, and the    *)
(* end of send_objectspace_dump, which frees the last one, every page is   *)
(* freed, none of them twice, and so is every array of references.         *)
THEOREM NothingLeakedOrFreedTwice == Spec => []FreedExactlyOnce
<1>1. Inv => FreedExactlyOnce
  <2> SUFFICES ASSUME Inv
               PROVE  FreedExactlyOnce
    OBVIOUS
  <2>1. /\ DOMAIN freed = 1 .. Len(freed)
        /\ DOMAIN pages = 1 .. Len(pages)
        /\ \A i \in 1 .. Len(freed) : freed[i] = i
    BY DEF Inv, TypeOK, FreedInOrder
  <2>2. IsInjective(freed)
    BY <2>1 DEF IsInjective
  <2>3. ASSUME phase = "idle"
        PROVE  Freed = DOMAIN pages /\ references = {}
    <3>1. Len(freed) = Len(pages) /\ references = {}
      BY <2>3 DEF Inv, AtRest
    <3>2. Freed = 1 .. Len(freed)
      BY <2>1 DEF Freed
    <3> QED BY <2>1, <3>1, <3>2
  <2> QED BY <2>2, <2>3 DEF FreedExactlyOnce
<1> QED BY <1>1, Invariance, PTL
-----------------------------------------------------------------------------
(* Which objects the client has of the dump that is being sent.            *)
Numbers(n) == [k \in 1 .. n |-> k]

HeapIsCounted ==
  phase \in {"sending", "packing"} => heaps[correlation_id] = object_count

(* Nothing is sent before its dump, and of the current dump the objects up *)
(* to packed_objects are in messages or in the buffer, in their order.     *)
Sent ==
  /\ \A d \in Nat : d > correlation_id => ObjectsOf(d) = <<>>
  /\ HeapIsCounted
  /\ phase = "packing" => ObjectsOf(correlation_id) \o buffer = Numbers(packed_objects)
  /\ phase = "sending" => ObjectsOf(correlation_id) = Numbers(packed_objects)
  /\ EveryObjectDumpedOnce

LEMMA OneMoreNumber ==
  ASSUME NEW n \in Nat
  PROVE  /\ Numbers(n) \in Seq(Nat \ {0})
         /\ Append(Numbers(n), n + 1) = Numbers(n + 1)
<1>1. Numbers(n) \in Seq(Nat \ {0}) /\ Len(Numbers(n)) = n
  BY DEF Numbers
<1>2. Append(Numbers(n), n + 1) = Numbers(n + 1)
  BY <1>1 DEF Numbers
<1> QED BY <1>1, <1>2

LEMMA PartsAreTyped ==
  ASSUME Inv, NEW d
  PROVE  PartsOf(d) \in Seq(Seq(Nat \ {0})) /\ ObjectsOf(d) \in Seq(Nat \ {0})
<1>1. messages \in Seq(Message) /\ Len(messages) \in Nat
  BY MessagesAreTyped DEF Inv
<1>2. \A i \in 1 .. Len(messages) : messages[i].payload \in Seq(Nat \ {0})
  <2>1. \A i \in 1 .. Len(messages) : messages[i] \in Message
    BY <1>1
  <2> QED BY <2>1 DEF Message
<1>3. <<>> \in Seq(Nat \ {0})
  BY EmptySeq
<1>4. PartsOf(d) \in Seq(Seq(Nat \ {0}))
  <2> DEFINE Objects == Seq(Nat \ {0})
  <2>1. PartsOf(d) \in [1 .. Len(messages) -> Objects]
    <3> HIDE DEF Objects
    <3>1. DOMAIN messages = 1 .. Len(messages)
      BY <1>1
    <3>2. <<>> \in Objects /\ \A i \in 1 .. Len(messages) : messages[i].payload \in Objects
      BY <1>2, <1>3 DEF Objects
    <3> QED BY <3>1, <3>2 DEF PartsOf
  <2> HIDE DEF Objects
  <2>2. PartsOf(d) \in Seq(Objects)
    BY <1>1, <2>1, SeqDef
  <2> QED BY <2>2 DEF Objects
<1> QED BY <1>4, FlattenIsTyped DEF ObjectsOf

(* As long as no message is sent the client has what it had. *)
LEMMA ObjectsStay ==
  ASSUME UNCHANGED messages
  PROVE  \A d : ObjectsOf(d)' = ObjectsOf(d)
BY DEF ObjectsOf, PartsOf

(* A message adds its payload to the objects of its own dump only. *)
LEMMA ObjectsGrow ==
  ASSUME Inv, SendMessage, NEW d
  PROVE  ObjectsOf(d)' = IF d = correlation_id THEN ObjectsOf(d) \o buffer
                                               ELSE ObjectsOf(d)
<1> DEFINE s == IF d = correlation_id THEN buffer ELSE <<>>
           n == Len(messages)
<1>1. messages \in Seq(Message) /\ n \in Nat
  BY MessagesAreTyped DEF Inv
<1>2. PICK m \in Message :
        /\ messages' = Append(messages, m)
        /\ m.correlation_id = correlation_id
        /\ m.payload = buffer
  <2>1. correlation_id \in Nat \ {0} /\ buffer \in Seq(Nat \ {0}) /\ object_count \in Nat
    BY DEF SendMessage, Inv, TypeOK, Position
  <2> DEFINE new == [correlation_id |-> correlation_id,
                     complete_message_count |-> object_count,
                     payload |-> buffer]
  <2>2. new \in Message
    BY <2>1 DEF Message
  <2> QED BY <2>2 DEF SendMessage
<1>3. /\ Len(messages') = n + 1 /\ messages'[n + 1] = m
      /\ messages' \in Seq(Message)
      /\ \A i \in 1 .. n : messages'[i] = messages[i]
  BY <1>1, <1>2, AppendProperties
<1>4. s \in Seq(Nat \ {0})
  BY EmptySeq DEF Inv, TypeOK
<1>5. PartsOf(d) \in Seq(Seq(Nat \ {0})) /\ ObjectsOf(d) \in Seq(Nat \ {0})
  BY PartsAreTyped
<1>6. PartsOf(d)' = Append(PartsOf(d), s)
  <2> DEFINE Part(i) == IF messages'[i].correlation_id = d THEN messages'[i].payload ELSE <<>>
  <2>1. PartsOf(d)' = [i \in 1 .. n + 1 |-> Part(i)]
    BY <1>1, <1>3 DEF PartsOf
  <2>2. DOMAIN PartsOf(d) = 1 .. n /\ Len(PartsOf(d)) = n
    BY <1>1, <1>5 DEF PartsOf
  <2>3. \A i \in 1 .. n : PartsOf(d)[i] = Part(i)
    BY <1>1, <1>3 DEF PartsOf
  <2>4. Part(n + 1) = s
    BY <1>2, <1>3
  <2>5. /\ Append(PartsOf(d), s) \in Seq(Seq(Nat \ {0}))
        /\ Len(Append(PartsOf(d), s)) = n + 1
        /\ Append(PartsOf(d), s)[n + 1] = s
        /\ \A i \in 1 .. n : Append(PartsOf(d), s)[i] = PartsOf(d)[i]
    <3> HIDE DEF s, n
    <3> QED BY <1>4, <1>5, <2>2, AppendProperties
  <2>6. Append(PartsOf(d), s) = [i \in 1 .. n + 1 |-> Part(i)]
    <3> HIDE DEF Part, s, n
    <3>1. \A i \in 1 .. n + 1 : Append(PartsOf(d), s)[i] = Part(i)
      BY <1>1, <2>3, <2>4, <2>5 DEF n
    <3> DEFINE a == Append(PartsOf(d), s)
    <3>2. a = [i \in 1 .. n + 1 |-> a[i]]
      <4>1. a \in Seq(Seq(Nat \ {0})) /\ Len(a) = n + 1
        BY <2>5
      <4> HIDE DEF a
      <4> QED BY <4>1
    <3> HIDE DEF a
    <3>3. \A i \in 1 .. n + 1 : a[i] = Part(i)
      BY <3>1 DEF a
    <3>4. a = [i \in 1 .. n + 1 |-> Part(i)]
      BY <3>2, <3>3
    <3> QED BY <3>4 DEF a
  <2> QED BY <2>1, <2>6
<1>7. ObjectsOf(d)' = ObjectsOf(d) \o s
  <2> HIDE DEF s
  <2> QED BY <1>4, <1>5, <1>6, FlattenAppend DEF ObjectsOf
<1> QED BY <1>5, <1>7, ConcatEmptySeq

-----------------------------------------------------------------------------
LEMMA SentAtFirst == Init => Sent
<1> SUFFICES ASSUME Init PROVE Sent
  OBVIOUS
<1>1. messages = <<>> /\ phase = "idle" /\ correlation_id = 0
  BY DEF Init
<1>2. \A d : ObjectsOf(d) = <<>>
  <2>1. \A d : Len(PartsOf(d)) = 0 /\ PartsOf(d) = <<>>
    BY <1>1 DEF PartsOf
  <2> QED BY <2>1, FlattenIsLastPrefix DEF ObjectsOf
<1>3. EveryObjectDumpedOnce
  BY <1>1 DEF EveryObjectDumpedOnce, FinishedDumps
<1> QED BY <1>1, <1>2, <1>3 DEF Sent, HeapIsCounted

(* Steps that neither send nor finish a dump leave what was sent before.   *)
LEMMA FinishedStay ==
  ASSUME EveryObjectDumpedOnce, UNCHANGED <<messages, heaps>>,
         FinishedDumps' \subseteq FinishedDumps
  PROVE  EveryObjectDumpedOnce'
BY ObjectsStay DEF EveryObjectDumpedOnce

LEMMA GetObjectDumpKeepsSent == Inv /\ Sent /\ get_object_dump => Sent'
<1> SUFFICES ASSUME Inv, Sent, get_object_dump PROVE Sent'
  OBVIOUS
<1>1. /\ phase = "idle" /\ phase' = "collecting"
      /\ messages' = messages /\ heaps' = heaps /\ correlation_id' = correlation_id
  BY DEF get_object_dump, Event
<1>2. EveryObjectDumpedOnce'
  BY <1>1, FinishedStay DEF Sent, FinishedDumps
<1> QED BY <1>1, <1>2, ObjectsStay DEF Sent, HeapIsCounted

LEMMA DumpHeapObjectKeepsSent == Inv /\ Sent /\ dump_heap_object => Sent'
<1> SUFFICES ASSUME Inv, Sent, dump_heap_object PROVE Sent'
  OBVIOUS
<1>1. /\ phase = "collecting" /\ phase' = "collecting"
      /\ messages' = messages /\ heaps' = heaps /\ correlation_id' = correlation_id
  BY DEF dump_heap_object, Event
<1>2. EveryObjectDumpedOnce'
  BY <1>1, FinishedStay DEF Sent, FinishedDumps
<1> QED BY <1>1, <1>2, ObjectsStay DEF Sent, HeapIsCounted

LEMMA NewEventKeepsSent == Inv /\ Sent /\ new_rbkit_object_space_dump_event => Sent'
<1> SUFFICES ASSUME Inv, Sent, new_rbkit_object_space_dump_event PROVE Sent'
  OBVIOUS
<1>1. /\ phase = "collecting" /\ phase' = "sending"
      /\ object_count > 0 /\ object_count' = object_count
      /\ packed_objects' = 0
      /\ messages' = messages /\ correlation_id' = correlation_id + 1
      /\ heaps' = Append(heaps, object_count)
  BY DEF new_rbkit_object_space_dump_event, Dump
<1>2. /\ correlation_id \in Nat
      /\ \A i \in 1 .. Len(messages) :
           /\ messages[i].correlation_id \in Nat
           /\ messages[i].correlation_id <= correlation_id
  BY MessagesAreTyped DEF Inv, TypeOK, MessagesSoFar
<1>3. /\ heaps'[correlation_id'] = object_count
      /\ \A d \in 1 .. correlation_id : heaps'[d] = heaps[d]
      /\ FinishedDumps = 1 .. correlation_id /\ FinishedDumps' = 1 .. correlation_id
  <2>1. heaps \in Seq(Nat \ {0}) /\ Len(heaps) = correlation_id /\ object_count \in Nat \ {0}
    BY <1>1 DEF Inv, TypeOK
  <2>2. correlation_id' - 1 = correlation_id
    BY <1>1, <1>2
  <2> QED BY <1>1, <1>2, <2>1, <2>2, AppendProperties DEF FinishedDumps
<1>4. \A d \in Nat : d > correlation_id => ObjectsOf(d)' = <<>>
  BY <1>1, ObjectsStay DEF Sent
<1>5. \A d \in Nat : d > correlation_id' => ObjectsOf(d)' = <<>>
  BY <1>1, <1>2, <1>4
<1>6. ObjectsOf(correlation_id') = <<>> /\ ObjectsOf(correlation_id)' = <<>>
  <2>1. correlation_id' \in Nat /\ correlation_id' > correlation_id
    BY <1>1, <1>2
  <2> QED BY <1>1, <2>1, ObjectsStay DEF Sent, ObjectsOf, PartsOf
<1>7. Numbers(0) = <<>>
  BY DEF Numbers
<1>8. HeapIsCounted'
  BY <1>1, <1>3 DEF HeapIsCounted
<1>9. EveryObjectDumpedOnce'
  BY <1>1, <1>3, ObjectsStay DEF Sent, EveryObjectDumpedOnce
<1> QED BY <1>1, <1>5, <1>6, <1>7, <1>8, <1>9 DEF Sent

LEMMA BeginMessageKeepsSent == Inv /\ Sent /\ BeginMessage => Sent'
<1> SUFFICES ASSUME Inv, Sent, BeginMessage PROVE Sent'
  OBVIOUS
<1>1. /\ phase = "sending" /\ phase' = "packing" /\ buffer' = <<>>
      /\ object_count' = object_count /\ packed_objects' = packed_objects
      /\ messages' = messages /\ heaps' = heaps /\ correlation_id' = correlation_id
  BY DEF BeginMessage, Dump, Event
<1>2. EveryObjectDumpedOnce'
  BY <1>1, FinishedStay DEF Sent, FinishedDumps
<1>3. ObjectsOf(correlation_id) \o <<>> = ObjectsOf(correlation_id)
  BY PartsAreTyped, ConcatEmptySeq
<1>4. HeapIsCounted'
  BY <1>1 DEF Sent, HeapIsCounted
<1> QED BY <1>1, <1>2, <1>3, <1>4, ObjectsStay DEF Sent

LEMMA PackObjectKeepsSent == Inv /\ Sent /\ PackObject => Sent'
<1> SUFFICES ASSUME Inv, Sent, PackObject PROVE Sent'
  OBVIOUS
<1> DEFINE id == pages[NextPage][NextIndex + 1].object_id
           o == ObjectsOf(correlation_id)
<1>1. /\ phase = "packing" /\ phase' = "packing" /\ Len(buffer) < objects_in_batch
      /\ buffer' = Append(buffer, id)
      /\ object_count' = object_count /\ packed_objects' = packed_objects + 1
      /\ messages' = messages /\ heaps' = heaps /\ correlation_id' = correlation_id
  BY DEF PackObject, Dump
<1>2. id = packed_objects + 1 /\ packed_objects \in Nat /\ buffer \in Seq(Nat \ {0})
  BY <1>1, NextRead DEF Inv, TypeOK
<1>3. o \in Seq(Nat \ {0}) /\ id \in Nat \ {0}
  BY <1>2, PartsAreTyped
<1>4. o \o Append(buffer, id) = Append(o \o buffer, id)
  <2> HIDE DEF o, id
  <2> QED BY <1>2, <1>3
<1>5. o \o buffer' = Numbers(packed_objects')
  <2>1. o \o buffer = Numbers(packed_objects)
    BY <1>1 DEF Sent
  <2>2. Append(Numbers(packed_objects), packed_objects + 1) = Numbers(packed_objects + 1)
    BY <1>2, OneMoreNumber
  <2> QED BY <1>1, <1>2, <1>4, <2>1, <2>2
<1>6. EveryObjectDumpedOnce'
  BY <1>1, FinishedStay DEF Sent, FinishedDumps
<1>7. HeapIsCounted'
  BY <1>1 DEF Sent, HeapIsCounted
<1> QED BY <1>1, <1>5, <1>6, <1>7, ObjectsStay DEF Sent

LEMMA SendMessageKeepsSent == Inv /\ Sent /\ SendMessage => Sent'
<1> SUFFICES ASSUME Inv, Sent, SendMessage PROVE Sent'
  OBVIOUS
<1>1. /\ phase = "packing" /\ phase' = "sending"
      /\ object_count' = object_count /\ packed_objects' = packed_objects
      /\ correlation_id' = correlation_id /\ heaps' = heaps
  BY DEF SendMessage, Dump, Event
<1>2. correlation_id \in Nat \ {0}
  BY <1>1 DEF Inv, TypeOK, Position
<1>3. ObjectsOf(correlation_id)' = ObjectsOf(correlation_id) \o buffer
  BY <1>1, ObjectsGrow DEF ObjectsOf, PartsOf
<1>4. \A d : d # correlation_id => ObjectsOf(d)' = ObjectsOf(d)
  BY ObjectsGrow
<1>5. EveryObjectDumpedOnce'
  <2>1. FinishedDumps' = FinishedDumps /\ correlation_id \notin FinishedDumps
    BY <1>1, <1>2 DEF FinishedDumps
  <2> QED BY <1>1, <1>4, <2>1 DEF Sent, EveryObjectDumpedOnce
<1>6. \A d \in Nat : d > correlation_id' => ObjectsOf(d)' = <<>>
  BY <1>1, <1>2, <1>4 DEF Sent
<1>7. ObjectsOf(correlation_id)' = Numbers(packed_objects')
  BY <1>1, <1>3 DEF Sent
<1>8. HeapIsCounted'
  BY <1>1 DEF Sent, HeapIsCounted
<1> QED BY <1>1, <1>5, <1>6, <1>7, <1>8 DEF Sent

LEMMA EndDumpKeepsSent == Inv /\ Sent /\ EndDump => Sent'
<1> SUFFICES ASSUME Inv, Sent, EndDump PROVE Sent'
  OBVIOUS
<1>1. /\ phase = "sending" /\ phase' = "idle" /\ packed_objects = object_count
      /\ messages' = messages /\ heaps' = heaps /\ correlation_id' = correlation_id
  BY DEF EndDump, Event
<1>2. ObjectsOf(correlation_id) = Numbers(heaps[correlation_id])
  BY <1>1 DEF Sent, HeapIsCounted
<1>3. FinishedDumps' \subseteq FinishedDumps \cup {correlation_id}
  BY <1>1 DEF FinishedDumps, Inv, TypeOK
<1>4. EveryObjectDumpedOnce'
  BY <1>1, <1>2, <1>3, ObjectsStay DEF Sent, EveryObjectDumpedOnce, Numbers
<1> QED BY <1>1, <1>4, ObjectsStay DEF Sent, HeapIsCounted

LEMMA StutterKeepsSent == Inv /\ Sent /\ UNCHANGED vars => Sent'
<1> SUFFICES ASSUME Inv, Sent, UNCHANGED vars PROVE Sent'
  OBVIOUS
<1>1. UNCHANGED <<phase, object_count, packed_objects, correlation_id, buffer,
                  messages, heaps>>
  BY DEF vars
<1>2. EveryObjectDumpedOnce'
  BY <1>1, FinishedStay DEF Sent, FinishedDumps
<1> QED BY <1>1, <1>2, ObjectsStay DEF Sent, HeapIsCounted

LEMMA SentIsInvariant == Spec => []Sent
<1>1. Init => Sent
  BY SentAtFirst
<1>2. Inv /\ Sent /\ [Next]_vars => Sent'
  BY GetObjectDumpKeepsSent, DumpHeapObjectKeepsSent, NewEventKeepsSent,
     BeginMessageKeepsSent, PackObjectKeepsSent, SendMessageKeepsSent,
     EndDumpKeepsSent, StutterKeepsSent DEF Next
<1> QED BY <1>1, <1>2, Invariance, PTL DEF Spec

(* A client that puts together the messages of a finished dump (the loop   *)
(* of send_objectspace_dump over pack_object_space_dump_event) has every   *)
(* object the walk over the heap found, once, in the order of the heap.    *)
THEOREM WholeHeapIsSentOnce == Spec => []EveryObjectDumpedOnce
<1>1. Sent => EveryObjectDumpedOnce
  BY DEF Sent
<1> QED BY <1>1, SentIsInvariant, PTL
=============================================================================
