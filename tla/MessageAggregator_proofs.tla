---------------------- MODULE MessageAggregator_proofs ----------------------
(***************************************************************************)
(* Proofs about MessageAggregator, for any set of messages, any positive   *)
(* sizes and any positive initial size.                                    *)
(***************************************************************************)
EXTENDS MessageAggregator, TLAPS

(* Tiled relates each message to its neighbour only; that no message       *)
(* reaches into the free part of the block needs saying to be inductive.   *)
ChunksBelowUsed ==
  \A i \in 1 .. Len(queued) : EndOf(queued[i]) <= used_memsize

Inv ==
  /\ TypeOK
  /\ WithinCapacity
  /\ Tiled
  /\ CollectionIsFaithful
  /\ DestroyedIsEmpty
  /\ ChunksBelowUsed

USE SizesArePositive, InitialSizeIsPositive, MaxQueuedIsNat, NoneIsNoMessage

-----------------------------------------------------------------------------
(* Once the loop of queue_message is over, the copy fits in the block and  *)
(* every part of the invariant survives it.                                *)
LEMMA CopyKeepsInv ==
  ASSUME Inv, CopyMessage
  PROVE  Inv'
<1> DEFINE chunk == [message |-> buffer, offset |-> used_memsize]
<1> DEFINE last == Len(queued) + 1
<1>1. /\ buffer \in Messages
      /\ SizeOf[buffer] \in Nat \ {0}
      /\ used_memsize \in Nat
      /\ total_capacity \in Nat
      /\ used_memsize + SizeOf[buffer] <= total_capacity
  BY DEF Inv, TypeOK, CopyMessage, has_enough_space_for
<1>2. /\ chunk \in Chunk
      /\ queued \in Seq(Chunk)
      /\ queued' = Append(queued, chunk)
  BY <1>1 DEF Inv, TypeOK, CopyMessage, Chunk
<1>3. /\ Len(queued') = last
      /\ queued'[last] = chunk
      /\ \A i \in 1 .. Len(queued) : queued'[i] = queued[i]
  BY <1>2
<1>4. \A i \in 1 .. Len(queued) :
        /\ queued[i].offset \in Nat
        /\ queued[i].message \in Messages
        /\ SizeOf[queued[i].message] \in Nat \ {0}
  <2>1. \A i \in 1 .. Len(queued) : queued[i] \in Chunk
    BY <1>2
  <2>2. \A c \in Chunk : c.offset \in Nat /\ c.message \in Messages
    BY DEF Chunk
  <2> QED BY <2>1, <2>2
<1>5. TypeOK'
  <2>1. message_array' \in Block(total_capacity)
    <3>1. message_array \in Block(total_capacity)
      BY DEF Inv, TypeOK
    <3>2. ASSUME NEW a \in 0 .. total_capacity - 1
          PROVE  message_array'[a] \in Byte
      BY <1>1, <3>1 DEF CopyMessage, CopiedAtOffset, Block, Byte
    <3>3. message_array' = [a \in 0 .. total_capacity - 1 |-> message_array'[a]]
      BY DEF CopyMessage, CopiedAtOffset
    <3> QED BY <3>2, <3>3 DEF Block
  <2> QED BY <1>1, <1>2, <2>1 DEF Inv, TypeOK, CopyMessage
<1>6. WithinCapacity'
  BY <1>1 DEF CopyMessage, WithinCapacity
<1>7. Tiled'
  <2>1. (no_of_messages = Len(queued))'
    BY <1>2, <1>3 DEF Inv, Tiled, CopyMessage
  <2>2. ASSUME NEW i \in 1 .. last
        PROVE  queued'[i].offset = IF i = 1 THEN 0
                                            ELSE EndOf(queued'[i - 1])
    <3>1. CASE i = last
      <4>1. queued'[i].offset = used_memsize
        BY <1>3, <3>1
      <4>2. CASE queued = <<>>
        BY <1>2, <3>1, <4>1, <4>2 DEF Inv, Tiled
      <4>3. CASE queued # <<>>
        <5>1. i # 1 /\ i - 1 = Len(queued) /\ i - 1 \in 1 .. Len(queued)
          BY <1>2, <3>1, <4>3
        <5> QED BY <1>3, <4>1, <4>3, <5>1 DEF Inv, Tiled, EndOf
      <4> QED BY <4>2, <4>3
    <3>2. CASE i # last
      <4>1. i \in 1 .. Len(queued) /\ (i # 1 => i - 1 \in 1 .. Len(queued))
        BY <1>2, <3>2
      <4> QED BY <1>3, <4>1 DEF Inv, Tiled, EndOf
    <3> QED BY <3>1, <3>2
  <2>3. used_memsize' = EndOf(queued'[Len(queued')]) /\ queued' # <<>>
    BY <1>1, <1>2, <1>3 DEF CopyMessage, EndOf
  <2> QED BY <1>3, <2>1, <2>2, <2>3 DEF Tiled, EndOf
<1>8. ChunksBelowUsed'
  <2>1. ASSUME NEW i \in 1 .. last
        PROVE  EndOf(queued'[i]) <= used_memsize'
    <3>1. CASE i = last
      BY <1>1, <1>3, <3>1 DEF CopyMessage, EndOf
    <3>2. CASE i # last
      <4>1. i \in 1 .. Len(queued)
        BY <1>2, <3>2
      <4>2. EndOf(queued'[i]) <= used_memsize
        BY <1>3, <4>1 DEF EndOf, Inv, ChunksBelowUsed
      <4>3. used_memsize' = used_memsize + SizeOf[buffer]
        BY DEF CopyMessage
      <4>4. EndOf(queued'[i]) \in Nat
        BY <1>3, <1>4, <4>1 DEF EndOf
      <4> QED BY <1>1, <4>2, <4>3, <4>4
    <3> QED BY <3>1, <3>2
  <2> QED BY <1>3, <2>1 DEF ChunksBelowUsed, EndOf
<1>9. CollectionIsFaithful'
  <2>0. /\ used_memsize' = used_memsize + SizeOf[buffer]
        /\ \A a \in 0 .. total_capacity - 1 :
             message_array'[a] = IF used_memsize <= a /\ a < used_memsize + SizeOf[buffer]
                                   THEN <<buffer, a - used_memsize>>
                                   ELSE message_array[a]
    BY DEF CopyMessage, CopiedAtOffset
  <2>1. ASSUME NEW i \in 1 .. last, NEW k \in 0 .. SizeOf[queued'[i].message] - 1
        PROVE  /\ queued'[i].offset + k \in 0 .. used_memsize' - 1
               /\ message_array'[queued'[i].offset + k] = <<queued'[i].message, k>>
    <3>1. CASE i = last
      <4>1. /\ queued'[i].offset = used_memsize
            /\ queued'[i].message = buffer
        BY <1>3, <3>1
      <4>2. used_memsize + k \in 0 .. total_capacity - 1
        BY <1>1, <4>1
      <4>3. k \in Nat /\ k < SizeOf[buffer]
        BY <1>1, <4>1
      <4> DEFINE a == used_memsize + k
      <4>4. a \in 0 .. total_capacity - 1 /\ used_memsize <= a /\ a < used_memsize + SizeOf[buffer]
        BY <1>1, <4>2, <4>3
      <4>5. a - used_memsize = k
        BY <1>1, <4>3
      <4> HIDE DEF a
      <4>6. message_array'[a] = <<buffer, k>>
        BY <2>0, <4>4, <4>5
      <4> USE DEF a
      <4> QED BY <1>1, <2>0, <4>1, <4>3, <4>6
    <3>2. CASE i # last
      <4>1. i \in 1 .. Len(queued)
        BY <1>2, <3>2
      <4>2. /\ queued'[i] = queued[i]
            /\ k \in 0 .. SizeOf[queued[i].message] - 1
        BY <1>3, <4>1
      <4>3. /\ queued[i].offset + k \in 0 .. used_memsize - 1
            /\ message_array[queued[i].offset + k] = <<queued[i].message, k>>
        BY <1>1, <1>4, <4>1, <4>2 DEF Inv, CollectionIsFaithful, event_collection
      <4> DEFINE a == queued[i].offset + k
      <4>4. a \in 0 .. total_capacity - 1 /\ ~(used_memsize <= a)
        BY <1>1, <4>3
      <4>5. message_array'[a] = message_array[a]
        BY <2>0, <4>4
      <4>6. a \in 0 .. used_memsize' - 1
        BY <1>1, <2>0, <4>3
      <4> QED BY <4>2, <4>3, <4>5, <4>6
    <3> QED BY <3>1, <3>2
  <2>2. no_of_messages' = Len(queued')
    BY <1>7 DEF Tiled
  <2> QED BY <1>3, <2>1, <2>2 DEF CollectionIsFaithful, event_collection
<1>10. DestroyedIsEmpty'
  BY <1>1 DEF CopyMessage, DestroyedIsEmpty
<1> QED BY <1>5, <1>6, <1>7, <1>8, <1>9, <1>10 DEF Inv

(* realloc keeps the bytes that were there and only makes room. *)
LEMMA DoublingKeepsInv ==
  ASSUME Inv, double_the_capacity
  PROVE  Inv'
<1>1. /\ total_capacity \in Nat
      /\ total_capacity' = total_capacity * 2
      /\ total_capacity * 2 \in Nat
      /\ total_capacity <= total_capacity * 2
      /\ total_capacity * 2 = 0 => total_capacity = 0
      /\ UNCHANGED <<used_memsize, no_of_messages, buffer, queued>>
  BY DEF Inv, TypeOK, double_the_capacity
<1>2. /\ message_array' \in Block(total_capacity * 2)
      /\ \A a \in 0 .. total_capacity - 1 : message_array'[a] = message_array[a]
  <2>1. message_array \in Block(total_capacity)
    BY DEF Inv, TypeOK
  <2>2. ASSUME NEW a \in 0 .. total_capacity * 2 - 1
        PROVE  message_array'[a] \in Byte
    BY <1>1, <2>1 DEF double_the_capacity, Block, Byte
  <2>3. message_array' = [a \in 0 .. total_capacity * 2 - 1 |-> message_array'[a]]
    BY DEF double_the_capacity
  <2> QED BY <1>1, <2>2, <2>3 DEF double_the_capacity, Block
<1>3. TypeOK'
  BY <1>1, <1>2 DEF Inv, TypeOK
<1>4. WithinCapacity' /\ DestroyedIsEmpty'
  BY <1>1 DEF Inv, TypeOK, WithinCapacity, DestroyedIsEmpty
<1>5. Tiled' /\ ChunksBelowUsed'
  BY <1>1 DEF Inv, Tiled, ChunksBelowUsed, EndOf
<1>6. CollectionIsFaithful'
  <2>1. \A a \in 0 .. used_memsize - 1 : message_array'[a] = message_array[a]
    BY <1>1, <1>2 DEF Inv, TypeOK, WithinCapacity
  <2> QED BY <1>1, <2>1 DEF Inv, CollectionIsFaithful, event_collection
<1> QED BY <1>3, <1>4, <1>5, <1>6 DEF Inv

(* Nothing queued: the parts of the invariant about the messages are void. *)
LEMMA EmptyListHasInv ==
  ASSUME queued = <<>>, used_memsize = 0, no_of_messages = 0,
         total_capacity \in Nat, message_array \in Block(total_capacity),
         buffer \in Messages \cup {None}
  PROVE  Inv
BY DEF Inv, TypeOK, WithinCapacity, Tiled, CollectionIsFaithful,
       DestroyedIsEmpty, ChunksBelowUsed, event_collection

LEMMA InitHasInv == Init => Inv
<1> SUFFICES ASSUME Init PROVE Inv
  OBVIOUS
<1>1. message_array \in Block(total_capacity)
  BY DEF Init, Block
<1> QED BY <1>1, EmptyListHasInv DEF Init

LEMMA NextKeepsInv == Inv /\ [Next]_vars => Inv'
<1> SUFFICES ASSUME Inv, [Next]_vars PROVE Inv'
  OBVIOUS
<1>1. CASE message_list_new
  <2>1. message_array' \in Block(total_capacity')
    BY <1>1 DEF message_list_new, Block, Byte
  <2> QED BY <1>1, <2>1, EmptyListHasInv DEF message_list_new, Inv, TypeOK,
         WithinCapacity, Tiled, CollectionIsFaithful, DestroyedIsEmpty,
         ChunksBelowUsed, event_collection
<1>2. CASE message_list_destroy
  <2>1. message_array' \in Block(total_capacity')
    BY <1>2 DEF message_list_destroy, Block
  <2> QED BY <1>2, <2>1 DEF message_list_destroy, Inv, TypeOK,
         WithinCapacity, Tiled, CollectionIsFaithful, DestroyedIsEmpty,
         ChunksBelowUsed, event_collection
<1>3. CASE message_list_clear
  BY <1>3 DEF message_list_clear, Inv, TypeOK, WithinCapacity, Tiled,
       CollectionIsFaithful, DestroyedIsEmpty, ChunksBelowUsed, event_collection
<1>4. ASSUME NEW m \in Messages, queue_message(m) PROVE Inv'
  BY <1>4 DEF queue_message, Inv, TypeOK, WithinCapacity, Tiled,
       CollectionIsFaithful, DestroyedIsEmpty, ChunksBelowUsed,
       event_collection, EndOf
<1>5. CASE double_the_capacity
  BY <1>5, DoublingKeepsInv
<1>6. CASE CopyMessage
  BY <1>6, CopyKeepsInv
<1>7. CASE UNCHANGED vars
  BY <1>7 DEF vars, Inv, TypeOK, WithinCapacity, Tiled, CollectionIsFaithful,
       DestroyedIsEmpty, ChunksBelowUsed, event_collection, EndOf
<1> QED BY <1>1, <1>2, <1>3, <1>4, <1>5, <1>6, <1>7 DEF Next

LEMMA AlwaysInv == Spec => []Inv
<1> QED BY InitHasInv, NextKeepsInv, PTL DEF Spec

-----------------------------------------------------------------------------
(* The aggregator's variables always have their types; in particular the   *)
(* block always has exactly total_capacity bytes.                          *)
THEOREM TypeCorrect == Spec => []TypeOK
<1>1. Inv => TypeOK
  BY DEF Inv
<1> QED BY <1>1, AlwaysInv, PTL

(* The used part never exceeds the block, so no memcpy overruns it and     *)
(* has_enough_space_for's unsigned subtraction never wraps.                *)
THEOREM NeverOverrun == Spec => []WithinCapacity
<1>1. Inv => WithinCapacity
  BY DEF Inv
<1> QED BY <1>1, AlwaysInv, PTL

(* Messages are contiguous from the start of the block to used_memsize and *)
(* no_of_messages counts them.                                             *)
THEOREM AlwaysTiled == Spec => []Tiled
<1>1. Inv => Tiled
  BY DEF Inv
<1> QED BY <1>1, AlwaysInv, PTL

(* An event_collection always carries, byte for byte, the messages queued  *)
(* since the last clear, through every copy and every realloc.             *)
THEOREM CollectionCorrect == Spec => []CollectionIsFaithful
<1>1. Inv => CollectionIsFaithful
  BY DEF Inv
<1> QED BY <1>1, AlwaysInv, PTL

(* No message is ever in a destroyed list, although queue_message may be   *)
(* called on one: no message is so short that it fits in no bytes.         *)
THEOREM NothingInDestroyedList == Spec => []DestroyedIsEmpty
<1>1. Inv => DestroyedIsEmpty
  BY DEF Inv
<1> QED BY <1>1, AlwaysInv, PTL

-----------------------------------------------------------------------------
Batch == [i \in 1 .. Len(queued) |-> queued[i].message]

(* What the copy does to the abstract list: the message goes to its end.   *)
LEMMA CopyAppends ==
  ASSUME Inv, CopyMessage
  PROVE  Batch' = Append(Batch, buffer)
<1> DEFINE chunk == [message |-> buffer, offset |-> used_memsize]
<1> DEFINE extended == Append(queued, chunk)
<1>1. queued \in Seq(Chunk) /\ chunk \in Chunk /\ queued' = extended
  BY DEF Inv, TypeOK, CopyMessage, Chunk
<1>2. /\ Len(extended) = Len(queued) + 1
      /\ Len(queued) \in Nat
      /\ \A i \in 1 .. Len(queued) : extended[i] = queued[i]
      /\ extended[Len(queued) + 1] = chunk
  BY <1>1
<1> HIDE DEF extended
<1>3. \A i \in 1 .. Len(queued) : queued[i].message \in Messages
  <2>1. \A i \in 1 .. Len(queued) : queued[i] \in Chunk
    BY <1>1
  <2>2. \A c \in Chunk : c.message \in Messages
    BY DEF Chunk
  <2> QED BY <2>1, <2>2
<1>4. Batch \in Seq(Messages) /\ Len(Batch) = Len(queued)
  BY <1>2, <1>3 DEF Batch
<1>5. buffer \in Messages
  BY DEF Inv, TypeOK, CopyMessage
<1>6. /\ Batch' = [i \in 1 .. Len(queued) + 1 |-> extended[i].message]
      /\ Append(Batch, buffer) =
           [i \in 1 .. Len(queued) + 1 |->
              IF i <= Len(queued) THEN Batch[i] ELSE buffer]
  BY <1>1, <1>2, <1>4, <1>5 DEF Batch
<1>7. ASSUME NEW i \in 1 .. Len(queued) + 1
      PROVE  extended[i].message = IF i <= Len(queued) THEN Batch[i] ELSE buffer
  <2>1. CASE i <= Len(queued)
    BY <1>2, <2>1 DEF Batch
  <2>2. CASE ~(i <= Len(queued))
    BY <1>2, <2>2
  <2> QED BY <2>1, <2>2
<1> QED BY <1>6, <1>7

LEMMA InitIsAbstractInit == Init => AbstractList!Init
BY DEF Init, AbstractList!Init

LEMMA StepIsAbstractStep ==
  Inv /\ [Next]_vars => [AbstractList!Next]_(AbstractList!vars)
<1> SUFFICES ASSUME Inv, [Next]_vars
             PROVE  AbstractList!Next \/ UNCHANGED AbstractList!vars
  OBVIOUS
<1>0. total_capacity \in Nat
  BY DEF Inv, TypeOK
<1>1. CASE message_list_new
  BY <1>1 DEF message_list_new, AbstractList!Next, AbstractList!New
<1>2. CASE message_list_destroy
  BY <1>2 DEF message_list_destroy, AbstractList!Next, AbstractList!Destroy
<1>3. CASE message_list_clear
  BY <1>3 DEF message_list_clear, AbstractList!Next, AbstractList!Clear
<1>4. ASSUME NEW m \in Messages, queue_message(m)
      PROVE  UNCHANGED AbstractList!vars
  BY <1>4 DEF queue_message, AbstractList!vars
<1>5. CASE double_the_capacity
  <2>1. (total_capacity > 0)' = (total_capacity > 0)
    BY <1>0, <1>5 DEF double_the_capacity
  <2> QED BY <1>5, <2>1 DEF double_the_capacity, AbstractList!vars
<1>6. CASE CopyMessage
  <2>1. /\ buffer \in Messages
        /\ total_capacity > 0
        /\ total_capacity' = total_capacity
    BY <1>0, <1>6 DEF Inv, TypeOK, CopyMessage, has_enough_space_for
  <2>2. PICK m \in Messages : m = buffer
    BY <2>1
  <2>3. AbstractList!Queue(m)
    BY <1>6, <2>1, <2>2, CopyAppends DEF AbstractList!Queue, Batch
  <2> QED BY <2>3 DEF AbstractList!Next
<1>7. CASE UNCHANGED vars
  BY <1>7 DEF vars, AbstractList!vars
<1> QED BY <1>1, <1>2, <1>3, <1>4, <1>5, <1>6, <1>7 DEF Next

(* The byte buffer implements the abstract list of MessageList, on which   *)
(* the event pipeline is modelled: every step is one list operation, or    *)
(* invisible.                                                              *)
THEOREM AggregatorImplementsList == Spec => ImplementsMessageList
<1> QED BY InitIsAbstractInit, StepIsAbstractStep, AlwaysInv, PTL
        DEF Spec, ImplementsMessageList, AbstractList!Spec
=============================================================================
