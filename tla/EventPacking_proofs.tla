------------------------- MODULE EventPacking_proofs -------------------------
(***************************************************************************)
(* Proofs about EventPacking, for any threads and any sizes of hashes,     *)
(* dumps and backtraces.                                                   *)
(***************************************************************************)
EXTENDS EventPacking, RecursionLemmas

ItemOf(e) == [event : {e}, fills : Nat, opens : Nat]

(* The places open after an item, from those before it. *)
After(before, item) ==
  IF before < 0 THEN before
  ELSE (IF before = 0 THEN 1 ELSE before) - item.fills + item.opens

(* Open, for a reader who has p places open to begin with. *)
Places(p, items) ==
  CHOOSE open : open = [i \in 0 .. Len(items) |->
                          IF i = 0 THEN p ELSE After(open[i - 1], items[i])]

(* A reader with p places open reads all items without running out of      *)
(* places, and has q open in the end.                                      *)
Leads(p, items, q) ==
  /\ \A i \in 0 .. Len(items) - 1 : Places(p, items)[i] > 0
  /\ Places(p, items)[Len(items)] = q

(* One object, to its last item. *)
IsObject(items) == items # <<>> /\ Leads(1, items, 0)

EventsOf(items) == {items[i].event : i \in DOMAIN items}

TypeOK ==
  /\ alive \in BOOLEAN
  /\ message_array \in Seq(Item)
  /\ no_of_messages \in Nat
  /\ packing \in [Threads -> HashEvent \cup {NULL}]
  /\ published \in Seq(Item)
  /\ reply \in Seq(Item)
  /\ produced \in Nat

(* Events are packed apart from each other, until they are queued. *)
PackedApart ==
  /\ EventsOf(message_array) \subseteq 1 .. produced
  /\ \A t \in Threads :
       packing[t] # NULL =>
         /\ packing[t].event \in 1 .. produced
         /\ packing[t].event \notin EventsOf(message_array)
         /\ packing[t].buffer # <<>>
         /\ packing[t].buffer \in Seq(ItemOf(packing[t].event))
  /\ \A t, u \in Threads :
       t # u /\ packing[t] # NULL /\ packing[u] # NULL =>
         packing[t].event # packing[u].event

(* A hash that is being packed has as many places open as its pairs fill. *)
PairsAreMissing ==
  \A t \in Threads :
    packing[t] # NULL /\ packing[t].event \notin shrunk =>
      Leads(1, packing[t].buffer, 2 * packing[t].left)

(* The messages in the list fill as many places as are counted. *)
ListFillsCount ==
  Intact(message_array) => Leads(no_of_messages, message_array, 0)

(* Without a server there is a hash, sample or hook to queue a message     *)
(* only after a stop that overtook it.                                     *)
QueuersHaveServer ==
  /\ \A t \in Threads :
       packing[t] # NULL /\ packing[t].kind # "handshake" => alive \/ overtaken
  /\ sampling \/ started_over => alive \/ overtaken

Inv ==
  /\ TypeOK
  /\ PackedApart
  /\ PairsAreMissing
  /\ ListFillsCount
  /\ QueuersHaveServer
  /\ ListHoldsWholeMessages
  /\ WhatIsSentIsOneObject
  /\ StuckOnlyIfOvertaken

USE DEF History

-----------------------------------------------------------------------------
LEMMA OpenIsPlaces ==
  ASSUME NEW items
  PROVE  Open(items) = Places(0, items)
BY DEF Open, Places, After

LEMMA PlacesStep ==
  ASSUME NEW p \in Int, NEW items \in Seq(Item)
  PROVE  /\ Places(p, items)[0] = p
         /\ \A i \in 1 .. Len(items) :
              Places(p, items)[i] = After(Places(p, items)[i - 1], items[i])
<1> DEFINE Value(h, i) == IF i = 0 THEN p ELSE After(h[i - 1], items[i])
           Step(h, m) == [i \in 0 .. m |-> Value(h, i)]
           N == {m \in Nat : \E f : f = Step(f, m)}
<1>1. 0 \in N
  <2> DEFINE g == [i \in 0 .. 0 |-> p]
  <2>1. \A i \in 0 .. 0 : Value(g, i) = p
    OBVIOUS
  <2>2. g = Step(g, 0)
    <3> HIDE DEF Value
    <3> QED BY <2>1
  <2>3. \E f : f = Step(f, 0)
    <3> HIDE DEF g
    <3> QED BY ONLY <2>2
  <2> QED BY ONLY <2>3
<1>2. ASSUME NEW m \in N PROVE m + 1 \in N
  <2>1. PICK f : f = Step(f, m)
    OBVIOUS
  <2> DEFINE g == [i \in 0 .. m + 1 |-> Value(f, i)]
  <2>2. \A i \in 0 .. m : f[i] = Value(f, i)
    BY ONLY <2>1
  <2>3. m \in Nat /\ 0 .. m \subseteq 0 .. m + 1
    OBVIOUS
  <2>4. \A i \in 0 .. m : g[i] = f[i]
    BY ONLY <2>2, <2>3
  <2>5. \A i \in 0 .. m + 1 : i # 0 => i - 1 \in 0 .. m
    BY ONLY <2>3
  <2>6. \A i \in 0 .. m + 1 : Value(f, i) = Value(g, i)
    BY ONLY <2>4, <2>5
  <2>7. g = [i \in 0 .. m + 1 |-> Value(g, i)]
    <3> HIDE DEF Value
    <3> QED BY ONLY <2>6
  <2>8. g = Step(g, m + 1)
    BY ONLY <2>7
  <2>9. \E h : h = Step(h, m + 1)
    <3> HIDE DEF g
    <3> QED BY ONLY <2>8
  <2>10. m + 1 \in Nat
    BY <2>3
  <2> QED BY ONLY <2>9, <2>10
<1>3. Len(items) \in N
  <2> HIDE DEF N
  <2>1. N \subseteq Nat
    BY DEF N
  <2>2. Len(items) \in Nat
    BY LenProperties
  <2> QED BY <1>1, <1>2, <2>1, <2>2, SetInduction
<1>4. \E f : f = Step(f, Len(items))
  BY <1>3
<1>5. Places(p, items) = Step(Places(p, items), Len(items))
  BY <1>4 DEF Places
<1>6. Len(items) \in Nat
  BY LenProperties
<1>7. \A i \in 0 .. Len(items) : Places(p, items)[i] = Value(Places(p, items), i)
  BY <1>5
<1> QED BY <1>6, <1>7

LEMMA PlacesAreTyped ==
  ASSUME NEW p \in Int, NEW items \in Seq(Item)
  PROVE  \A i \in 0 .. Len(items) : Places(p, items)[i] \in Int
<1> DEFINE n == Len(items)
           N == {m \in Nat : m \in 0 .. n => Places(p, items)[m] \in Int}
<1>1. n \in Nat /\ \A i \in 1 .. n : items[i] \in Item
  BY LenProperties, ElementOfSeq
<1>2. 0 \in N
  BY PlacesStep
<1>3. ASSUME NEW m \in N PROVE m + 1 \in N
  <2>1. SUFFICES ASSUME m + 1 \in 0 .. n PROVE Places(p, items)[m + 1] \in Int
    OBVIOUS
  <2>2. m \in Nat /\ m + 1 \in 1 .. n /\ (m + 1) - 1 = m /\ Places(p, items)[m] \in Int
    BY <1>1, <2>1
  <2>3. Places(p, items)[m + 1] = After(Places(p, items)[m], items[m + 1])
    BY <2>2, PlacesStep
  <2>4. items[m + 1].fills \in Nat /\ items[m + 1].opens \in Nat
    BY <1>1, <2>2 DEF Item
  <2> QED BY <2>2, <2>3, <2>4 DEF After
<1>4. N = Nat
  <2>1. N \subseteq Nat
    OBVIOUS
  <2> HIDE DEF N
  <2> QED BY <1>2, <1>3, <2>1, SetInduction
<1> QED BY <1>1, <1>4

(* From place k on, the first l items of b. *)
Holds(a, k, b, l) ==
  l <= Len(b) /\ k + l <= Len(a) /\ \A j \in 1 .. l : a[k + j] = b[j]

(* A reader goes through the same items alike wherever they are; before a  *)
(* new object it makes no difference whether none or one place is open.    *)
LEMMA PlacesAgree ==
  ASSUME NEW p \in Int, NEW q \in Int, NEW a \in Seq(Item), NEW b \in Seq(Item),
         NEW k \in Nat, NEW l \in Nat, Holds(a, k, b, l),
         Places(p, a)[k] = q \/ (Places(p, a)[k] = 0 /\ q = 1)
  PROVE  \A j \in 1 .. l : Places(p, a)[k + j] = Places(q, b)[j]
<1> DEFINE N == {m \in Nat : m \in 1 .. l => Places(p, a)[k + m] = Places(q, b)[m]}
<1>1. Len(a) \in Nat /\ Len(b) \in Nat
  BY LenProperties
<1>2. 0 \in N
  OBVIOUS
<1>3. ASSUME NEW m \in N PROVE m + 1 \in N
  <2>1. SUFFICES ASSUME m + 1 \in 1 .. l
                 PROVE  Places(p, a)[k + (m + 1)] = Places(q, b)[m + 1]
    OBVIOUS
  <2>2. /\ m \in Nat /\ k + (m + 1) \in 1 .. Len(a) /\ (k + (m + 1)) - 1 = k + m
        /\ m + 1 \in 1 .. Len(b) /\ (m + 1) - 1 = m
    BY <1>1, <2>1 DEF Holds
  <2>3. /\ Places(p, a)[k + (m + 1)] = After(Places(p, a)[k + m], a[k + (m + 1)])
        /\ Places(q, b)[m + 1] = After(Places(q, b)[m], b[m + 1])
    <3>1. \A i \in 1 .. Len(a) : Places(p, a)[i] = After(Places(p, a)[i - 1], a[i])
      BY PlacesStep
    <3>2. \A i \in 1 .. Len(b) : Places(q, b)[i] = After(Places(q, b)[i - 1], b[i])
      BY PlacesStep
    <3>3. Places(p, a)[k + (m + 1)]
            = After(Places(p, a)[(k + (m + 1)) - 1], a[k + (m + 1)])
      BY ONLY <2>2, <3>1
    <3>4. Places(q, b)[m + 1] = After(Places(q, b)[(m + 1) - 1], b[m + 1])
      BY ONLY <2>2, <3>2
    <3> QED BY ONLY <2>2, <3>3, <3>4
  <2>4. a[k + (m + 1)] = b[m + 1]
    BY <2>1 DEF Holds
  <2>5. CASE m = 0
    <3>1. Places(q, b)[m] = q /\ k + m = k
      BY <2>5, PlacesStep
    <3> QED BY <2>3, <2>4, <3>1 DEF After
  <2>6. CASE m # 0
    <3>1. m \in 1 .. l
      BY <2>1, <2>2, <2>6
    <3> QED BY <2>3, <2>4, <3>1
  <2> QED BY <2>5, <2>6
<1>4. N = Nat
  <2>1. N \subseteq Nat
    OBVIOUS
  <2> HIDE DEF N
  <2> QED BY <1>2, <1>3, <2>1, SetInduction
<1> QED BY <1>4

-----------------------------------------------------------------------------
(* What a reader with places open goes through. *)
LEMMA LeadsEmpty ==
  ASSUME NEW p \in Int
  PROVE  Leads(p, <<>>, p)
<1>1. <<>> \in Seq(Item) /\ Len(<<>>) = 0
  BY EmptySeq
<1>2. Places(p, <<>>)[0] = p
  BY <1>1, PlacesStep
<1>3. 0 .. Len(<<>>) - 1 = {}
  BY <1>1
<1> QED BY <1>1, <1>2, <1>3 DEF Leads

LEMMA LeadsItem ==
  ASSUME NEW p \in Nat, p > 0, NEW item \in Item
  PROVE  Leads(p, <<item>>, p - item.fills + item.opens)
<1>1. <<item>> \in Seq(Item) /\ Len(<<item>>) = 1 /\ <<item>>[1] = item
  OBVIOUS
<1>2. Places(p, <<item>>)[0] = p /\ Places(p, <<item>>)[1] = After(p, item)
  <2> DEFINE one == <<item>>
  <2>1. 1 \in 1 .. Len(one) /\ 1 - 1 = 0 /\ p \in Int /\ one \in Seq(Item)
    BY <1>1
  <2>2. one[1] = item
    OBVIOUS
  <2> HIDE DEF one
  <2>3. /\ Places(p, one)[0] = p
        /\ \A i \in 1 .. Len(one) : Places(p, one)[i] = After(Places(p, one)[i - 1], one[i])
    BY <2>1, PlacesStep
  <2>4. Places(p, one)[1] = After(Places(p, one)[1 - 1], one[1])
    BY ONLY <2>1, <2>3
  <2> QED BY <2>1, <2>2, <2>3, <2>4 DEF one
<1>3. After(p, item) = p - item.fills + item.opens
  BY DEF After
<1> QED BY <1>1, <1>2, <1>3 DEF Leads

LEMMA ConcatTyped ==
  ASSUME NEW S, NEW a \in Seq(S), NEW b \in Seq(S)
  PROVE  /\ a \o b \in Seq(S)
         /\ Len(a) \in Nat /\ Len(b) \in Nat /\ Len(a \o b) = Len(a) + Len(b)
         /\ \A i \in 1 .. Len(a) : (a \o b)[i] = a[i]
         /\ \A i \in 1 .. Len(b) : (a \o b)[Len(a) + i] = b[i]
<1>1. Len(a) \in Nat /\ Len(b) \in Nat
  BY LenProperties
<1> QED BY <1>1, ConcatProperties

LEMMA LeadsConcat ==
  ASSUME NEW p \in Int, NEW q \in Int, NEW r \in Int,
         NEW a \in Seq(Item), NEW b \in Seq(Item),
         Leads(p, a, q), Leads(q, b, r)
  PROVE  Leads(p, a \o b, r)
<1> DEFINE c == a \o b
           m == Len(a)
           n == Len(b)
<1>1. /\ c \in Seq(Item) /\ m \in Nat /\ n \in Nat /\ Len(c) = m + n
      /\ \A i \in 1 .. m : c[i] = a[i]
      /\ \A i \in 1 .. n : c[m + i] = b[i]
  BY ConcatTyped
<1> HIDE DEF c, m, n
<1>2. Places(p, c)[0] = p /\ Places(p, a)[0] = p /\ Places(q, b)[0] = q
  BY <1>1, PlacesStep
<1>3. \A i \in 0 .. m : Places(p, c)[i] = Places(p, a)[i]
  <2>1. Holds(c, 0, a, m)
    BY <1>1 DEF Holds, m
  <2>2. \A i \in 1 .. m : Places(p, c)[0 + i] = Places(p, a)[i]
    BY ONLY p \in Int, a \in Seq(Item), <1>1, <1>2, <2>1, PlacesAgree
  <2>3. \A i \in 1 .. m : 0 + i = i
    BY <1>1
  <2> QED BY <1>1, <1>2, <2>2, <2>3
<1>4. Places(p, c)[m] = q
  BY <1>1, <1>3 DEF Leads, m
<1>5. \A i \in 0 .. n : Places(p, c)[m + i] = Places(q, b)[i]
  <2>1. Holds(c, m, b, n)
    BY <1>1 DEF Holds, n
  <2>2. \A i \in 1 .. n : Places(p, c)[m + i] = Places(q, b)[i]
    BY ONLY p \in Int, q \in Int, b \in Seq(Item), <1>1, <1>4, <2>1, PlacesAgree
  <2> QED BY <1>1, <1>2, <1>4, <2>2
<1>6. Places(p, c)[Len(c)] = r
  BY <1>1, <1>5 DEF Leads, n
<1>7. ASSUME NEW i \in 0 .. Len(c) - 1 PROVE Places(p, c)[i] > 0
  <2>1. CASE i < m
    <3>1. i \in 0 .. m - 1 /\ i \in 0 .. m
      BY <1>1, <2>1
    <3>2. Places(p, a)[i] > 0
      BY <3>1 DEF Leads, m
    <3> QED BY <1>3, <3>1, <3>2
  <2>2. CASE i >= m
    <3>1. i - m \in 0 .. n - 1 /\ m + (i - m) = i /\ i - m \in 0 .. n
      BY <1>1, <2>2
    <3>2. Places(q, b)[i - m] > 0
      BY <3>1 DEF Leads, n
    <3> QED BY <1>5, <3>1, <3>2
  <2> QED BY <1>1, <2>1, <2>2
<1> QED BY <1>6, <1>7 DEF Leads, c

(* More places open stay open. *)
LEMMA LeadsWithMore ==
  ASSUME NEW p \in Int, NEW q \in Int, NEW d \in Nat, NEW a \in Seq(Item),
         Leads(p, a, q)
  PROVE  Leads(p + d, a, q + d)
<1> DEFINE n == Len(a)
           N == {m \in Nat : m \in 0 .. n => Places(p + d, a)[m] = Places(p, a)[m] + d}
<1>1. n \in Nat /\ p + d \in Int /\ \A i \in 1 .. n : a[i] \in Item
  BY LenProperties, ElementOfSeq
<1>2. 0 \in N
  BY <1>1, PlacesStep
<1>3. ASSUME NEW m \in N PROVE m + 1 \in N
  <2>1. SUFFICES ASSUME m + 1 \in 0 .. n
                 PROVE  Places(p + d, a)[m + 1] = Places(p, a)[m + 1] + d
    OBVIOUS
  <2>2. /\ m \in Nat /\ m + 1 \in 1 .. n /\ (m + 1) - 1 = m
        /\ m \in 0 .. n - 1 /\ m \in 0 .. n
    BY <1>1, <2>1
  <2>3. Places(p + d, a)[m + 1] = After(Places(p + d, a)[m], a[m + 1])
    BY <1>1, <2>2, PlacesStep
  <2>4. Places(p, a)[m + 1] = After(Places(p, a)[m], a[m + 1])
    BY <1>1, <2>2, PlacesStep
  <2>5. Places(p, a)[m] > 0 /\ Places(p, a)[m] \in Int
    BY <2>2, PlacesAreTyped DEF Leads
  <2>6. Places(p + d, a)[m] = Places(p, a)[m] + d
    BY <2>2
  <2>7. a[m + 1].fills \in Nat /\ a[m + 1].opens \in Nat
    BY <1>1, <2>2 DEF Item
  <2>8. PICK x \in Int : x = Places(p, a)[m]
    BY <2>5
  <2>9. x \in Int /\ x + d \in Int /\ x > 0 /\ x + d > 0
    BY <2>5, <2>8
  <2>10. /\ After(x, a[m + 1]) = x - a[m + 1].fills + a[m + 1].opens
         /\ After(x + d, a[m + 1]) = (x + d) - a[m + 1].fills + a[m + 1].opens
    <3>1. \A z \in Int : z > 0 => ~(z < 0) /\ z # 0
      OBVIOUS
    <3>2. ~(x < 0) /\ x # 0 /\ ~(x + d < 0) /\ x + d # 0
      BY <2>9, <3>1
    <3> QED BY ONLY <3>2 DEF After
  <2>11. PICK f \in Nat, o \in Nat : f = a[m + 1].fills /\ o = a[m + 1].opens
    BY <2>7
  <2>12. (x + d) - f + o = (x - f + o) + d
    OBVIOUS
  <2> QED BY ONLY <2>3, <2>4, <2>6, <2>8, <2>10, <2>11, <2>12
<1>4. N = Nat
  <2>1. N \subseteq Nat
    OBVIOUS
  <2> HIDE DEF N
  <2> QED BY <1>2, <1>3, <2>1, SetInduction
<1>5. \A m \in 0 .. n : Places(p + d, a)[m] = Places(p, a)[m] + d
  BY <1>1, <1>4
<1>6. \A m \in 0 .. n : Places(p, a)[m] \in Int
  BY PlacesAreTyped
<1>7. Places(p + d, a)[n] = q + d
  BY <1>1, <1>5 DEF Leads
<1>8. ASSUME NEW i \in 0 .. n - 1 PROVE Places(p + d, a)[i] > 0
  <2>1. i \in 0 .. n /\ Places(p, a)[i] > 0
    BY <1>1 DEF Leads
  <2>2. Places(p + d, a)[i] = Places(p, a)[i] + d /\ Places(p, a)[i] \in Int
    BY <1>5, <1>6, <2>1
  <2> QED BY <2>1, <2>2
<1> QED BY <1>7, <1>8 DEF Leads

(* Objects in a row, as an array of them is packed. *)
LEMMA LeadsThroughObjects ==
  ASSUME NEW b \in Seq(Item), IsObject(b), NEW n \in Nat
  PROVE  /\ FlattenSeq([i \in 1 .. n |-> b]) \in Seq(Item)
         /\ Leads(n, FlattenSeq([i \in 1 .. n |-> b]), 0)
<1> DEFINE Row(m) == [i \in 1 .. m |-> b]
           N == {m \in Nat : Leads(m, FlattenSeq(Row(m)), 0)}
<1>1. \A m \in Nat : Row(m) \in Seq(Seq(Item)) /\ Len(Row(m)) = m
  OBVIOUS
<1>2. \A m \in Nat : FlattenSeq(Row(m)) \in Seq(Item)
  <2> HIDE DEF Row
  <2> QED BY <1>1, FlattenIsTyped
<1>3. 0 \in N
  <2>1. Row(0) = <<>>
    OBVIOUS
  <2>2. FlattenSeq(Row(0)) = <<>>
    BY <1>1, <2>1, FlattenIsLastPrefix
  <2> QED BY <2>2, LeadsEmpty
<1>4. ASSUME NEW m \in N PROVE m + 1 \in N
  <2>1. m \in Nat /\ m + 1 \in Nat /\ Leads(m, FlattenSeq(Row(m)), 0)
    OBVIOUS
  <2>2. Row(m + 1) = Append(Row(m), b)
    BY <2>1
  <2> HIDE DEF Row
  <2>3. FlattenSeq(Row(m + 1)) = FlattenSeq(Row(m)) \o b
    BY <1>1, <2>1, <2>2, FlattenAppend
  <2>4. Leads(m + 1, FlattenSeq(Row(m)), 0 + 1)
    <3>1. m \in Int /\ 0 \in Int /\ 1 \in Nat /\ FlattenSeq(Row(m)) \in Seq(Item)
      BY <1>2, <2>1
    <3> QED BY <2>1, <3>1, LeadsWithMore
  <2>5. Leads(m + 1, FlattenSeq(Row(m)) \o b, 0)
    BY <1>2, <2>1, <2>4, LeadsConcat DEF IsObject
  <2> QED BY <2>1, <2>3, <2>5
<1>5. N = Nat
  <2>1. N \subseteq Nat
    OBVIOUS
  <2> HIDE DEF N
  <2> QED BY <1>3, <1>4, <2>1, SetInduction
<1> QED BY <1>2, <1>5

-----------------------------------------------------------------------------
(* Items of event e, which a reader with p places open comes out of with q. *)
Packed(e, p, items, q) == items \in Seq(ItemOf(e)) /\ Leads(p, items, q)

LEMMA ItemsOfAnEvent ==
  ASSUME NEW e \in Nat
  PROVE  ItemOf(e) \subseteq Item /\ Seq(ItemOf(e)) \subseteq Seq(Item)
<1>1. ItemOf(e) \subseteq Item
  BY DEF ItemOf, Item
<1> QED BY <1>1, SeqDef

LEMMA PackedConcat ==
  ASSUME NEW e \in Nat, NEW p \in Int, NEW q \in Int, NEW r \in Int, NEW a, NEW b,
         Packed(e, p, a, q), Packed(e, q, b, r)
  PROVE  Packed(e, p, a \o b, r)
<1>1. a \in Seq(ItemOf(e)) /\ b \in Seq(ItemOf(e))
  BY DEF Packed
<1>2. a \o b \in Seq(ItemOf(e))
  BY <1>1, ConcatTyped
<1>3. a \in Seq(Item) /\ b \in Seq(Item)
  BY <1>1, ItemsOfAnEvent
<1>4. Leads(p, a \o b, r)
  BY <1>3, LeadsConcat DEF Packed
<1> QED BY <1>2, <1>4 DEF Packed

LEMMA ScalarsPacked ==
  ASSUME NEW e \in Nat, NEW p \in Nat, p > 0, NEW n \in Nat
  PROVE  Packed(e, p, Scalars(e, n), p - n)
<1> DEFINE item == [event |-> e, fills |-> n, opens |-> 0]
<1>1. item \in Item /\ item \in ItemOf(e) /\ item.fills = n /\ item.opens = 0
  BY DEF Item, ItemOf
<1> HIDE DEF item
<1>2. Leads(p, <<item>>, p - n + 0) /\ p - n + 0 = p - n
  BY <1>1, LeadsItem
<1>3. <<item>> \in Seq(ItemOf(e))
  BY <1>1
<1> QED BY <1>2, <1>3 DEF Packed, Scalars, item

LEMMA ArrayPacked ==
  ASSUME NEW e \in Nat, NEW p \in Nat, p > 0, NEW n \in Nat
  PROVE  Packed(e, p, Array(e, n), (p - 1) + n)
<1> DEFINE item == [event |-> e, fills |-> 1, opens |-> n]
<1>1. item \in Item /\ item \in ItemOf(e) /\ item.fills = 1 /\ item.opens = n
  BY DEF Item, ItemOf
<1> HIDE DEF item
<1>2. Leads(p, <<item>>, p - 1 + n)
  BY <1>1, LeadsItem
<1>3. <<item>> \in Seq(ItemOf(e))
  BY <1>1
<1> QED BY <1>2, <1>3 DEF Packed, Array, item

LEMMA MapPacked ==
  ASSUME NEW e \in Nat, NEW p \in Nat, p > 0, NEW n \in Nat
  PROVE  Packed(e, p, Map(e, n), (p - 1) + 2 * n)
<1>1. 2 * n \in Nat
  OBVIOUS
<1> QED BY <1>1, ArrayPacked DEF Map

(* Every message begins with a map of n entries, the first two its header. *)
LEMMA HeaderPacked ==
  ASSUME NEW e \in Nat, NEW n \in Nat, n > 1
  PROVE  Packed(e, 1, Map(e, n) \o pack_event_header(e), 2 * n - 4)
<1>1. Packed(e, 1, Map(e, n), 2 * n)
  <2>1. Packed(e, 1, Map(e, n), (1 - 1) + 2 * n) /\ (1 - 1) + 2 * n = 2 * n
    BY MapPacked
  <2> QED BY <2>1
<1>2. Packed(e, 2 * n, pack_event_header(e), 2 * n - 4)
  <2>1. 2 * n \in Nat /\ 2 * n > 0
    OBVIOUS
  <2> QED BY <2>1, ScalarsPacked DEF pack_event_header
<1>3. 2 * n \in Int /\ 2 * n - 4 \in Int
  OBVIOUS
<1> QED BY <1>1, <1>2, <1>3, PackedConcat

LEMMA NotEmpty ==
  ASSUME NEW items \in Seq(Item), Leads(1, items, 0)
  PROVE  items # <<>> /\ Len(items) \in Nat \ {0} /\ IsObject(items)
<1>1. Len(items) \in Nat
  BY LenProperties
<1>2. Places(1, items)[0] = 1 /\ Places(1, items)[Len(items)] = 0
  BY PlacesStep DEF Leads
<1>3. Len(items) # 0
  BY <1>2
<1>4. items # <<>>
  BY <1>3, EmptySeq
<1> QED BY <1>1, <1>3, <1>4 DEF IsObject

-----------------------------------------------------------------------------
(* Each message is one object: what its maps and arrays announce follows.  *)
(* For the hooks' messages, of any event. *)
LEMMA HookMessagesAreObjects ==
  ASSUME NEW e \in Nat
  PROVE  /\ Packed(e, 1, pack_obj_created_event(e), 0)
         /\ Packed(e, 1, pack_obj_destroyed_event(e), 0)
         /\ Packed(e, 1, pack_event_header_only(e), 0)
<1>1. Packed(e, 1, Map(e, 3) \o pack_event_header(e), 2)
  <2>1. 2 * 3 - 4 = 2 /\ 3 > 1
    OBVIOUS
  <2> QED BY <2>1, HeaderPacked
<1>2. Packed(e, 1, Map(e, 3) \o pack_event_header(e) \o Scalars(e, 1), 1)
  <2>1. Packed(e, 2, Scalars(e, 1), 2 - 1) /\ 2 - 1 = 1
    BY ScalarsPacked
  <2> QED BY <1>1, <2>1, PackedConcat
<1>3. Packed(e, 1, Map(e, 3) \o pack_event_header(e) \o Scalars(e, 1) \o Map(e, 2), 4)
  <2>1. Packed(e, 1, Map(e, 2), (1 - 1) + 2 * 2) /\ (1 - 1) + 2 * 2 = 4
    BY MapPacked
  <2> QED BY <1>2, <2>1, PackedConcat
<1>4. Packed(e, 1, pack_obj_created_event(e), 0)
  <2>1. Packed(e, 4, Scalars(e, 4), 4 - 4) /\ 4 - 4 = 0
    BY ScalarsPacked
  <2> QED BY <1>3, <2>1, PackedConcat DEF pack_obj_created_event
<1>5. Packed(e, 1, Map(e, 3) \o pack_event_header(e) \o Scalars(e, 1) \o Map(e, 1), 2)
  <2>1. Packed(e, 1, Map(e, 1), (1 - 1) + 2 * 1) /\ (1 - 1) + 2 * 1 = 2
    BY MapPacked
  <2> QED BY <1>2, <2>1, PackedConcat
<1>6. Packed(e, 1, pack_obj_destroyed_event(e), 0)
  <2>1. Packed(e, 2, Scalars(e, 2), 2 - 2) /\ 2 - 2 = 0
    BY ScalarsPacked
  <2> QED BY <1>5, <2>1, PackedConcat DEF pack_obj_destroyed_event
<1>7. Packed(e, 1, pack_event_header_only(e), 0)
  <2>1. 2 * 2 - 4 = 0 /\ 2 > 1
    OBVIOUS
  <2> QED BY <2>1, HeaderPacked DEF pack_event_header_only
<1> QED BY <1>4, <1>6, <1>7

(* A hash has, before its pairs, as many places open as they will fill. *)
LEMMA HashMissesItsPairs ==
  ASSUME NEW e \in Nat, NEW size \in Nat
  PROVE  Packed(e, 1, pack_hash_event(e, size), 2 * size)
<1>1. Packed(e, 1, Map(e, 3) \o pack_event_header(e), 2)
  <2>1. 2 * 3 - 4 = 2 /\ 3 > 1
    OBVIOUS
  <2> QED BY <2>1, HeaderPacked
<1>2. Packed(e, 1, Map(e, 3) \o pack_event_header(e) \o Scalars(e, 1), 1)
  <2>1. Packed(e, 2, Scalars(e, 1), 2 - 1) /\ 2 - 1 = 1
    BY ScalarsPacked
  <2> QED BY <1>1, <2>1, PackedConcat
<1>3. Packed(e, 1, Map(e, size), 2 * size)
  <2>1. Packed(e, 1, Map(e, size), (1 - 1) + 2 * size) /\ (1 - 1) + 2 * size = 2 * size
    BY MapPacked
  <2> QED BY <2>1
<1>4. 2 * size \in Int
  OBVIOUS
<1> QED BY <1>2, <1>3, <1>4, PackedConcat DEF pack_hash_event

LEMMA RowPacked ==
  ASSUME NEW e \in Nat, NEW b, Packed(e, 1, b, 0), NEW n \in Nat
  PROVE  Packed(e, n, FlattenSeq([i \in 1 .. n |-> b]), 0)
<1>1. b \in Seq(ItemOf(e)) /\ b \in Seq(Item)
  BY ItemsOfAnEvent DEF Packed
<1>2. IsObject(b)
  BY <1>1, NotEmpty DEF Packed
<1>3. [i \in 1 .. n |-> b] \in Seq(Seq(ItemOf(e)))
  BY <1>1
<1>4. FlattenSeq([i \in 1 .. n |-> b]) \in Seq(ItemOf(e))
  BY <1>3, FlattenIsTyped
<1> QED BY <1>1, <1>2, <1>4, LeadsThroughObjects DEF Packed

(* An object of a dump, with any number of references. *)
LEMMA DumpedObjectIsObject ==
  ASSUME NEW e \in Nat, NEW references \in Nat
  PROVE  Packed(e, 1, DumpedObject(e, references), 0)
<1>1. Packed(e, 1, Map(e, 6), 12)
  <2>1. Packed(e, 1, Map(e, 6), (1 - 1) + 2 * 6) /\ (1 - 1) + 2 * 6 = 12
    BY MapPacked
  <2> QED BY <2>1
<1>2. Packed(e, 1, Map(e, 6) \o Scalars(e, 5), 7)
  <2>1. Packed(e, 12, Scalars(e, 5), 12 - 5) /\ 12 - 5 = 7
    BY ScalarsPacked
  <2> QED BY <1>1, <2>1, PackedConcat
<1>3. Packed(e, 1, Map(e, 6) \o Scalars(e, 5) \o Array(e, references), references + 6)
  <2>1. Packed(e, 7, Array(e, references), (7 - 1) + references)
    BY ArrayPacked
  <2>2. (7 - 1) + references = references + 6 /\ references + 6 \in Int
    OBVIOUS
  <2> QED BY <1>2, <2>1, <2>2, PackedConcat
<1>4. Packed(e, references + 6, Scalars(e, references + 6), 0)
  <2>1. /\ references + 6 \in Nat /\ references + 6 > 0
        /\ (references + 6) - (references + 6) = 0
    OBVIOUS
  <2>2. Packed(e, references + 6, Scalars(e, references + 6),
               (references + 6) - (references + 6))
    BY <2>1, ScalarsPacked
  <2> QED BY <2>1, <2>2
<1>5. references + 6 \in Int
  OBVIOUS
<1> QED BY <1>3, <1>4, <1>5, PackedConcat DEF DumpedObject

(* A message of a dump, with any number of objects. *)
LEMMA DumpMessageIsObject ==
  ASSUME NEW e \in Nat, NEW objects \in Nat, NEW references \in Nat
  PROVE  Packed(e, 1, pack_object_space_dump_event(e, objects, references), 0)
<1>1. Packed(e, 1, Map(e, 5) \o pack_event_header(e), 6)
  <2>1. 2 * 5 - 4 = 6 /\ 5 > 1
    OBVIOUS
  <2> QED BY <2>1, HeaderPacked
<1>2. Packed(e, 1, Map(e, 5) \o pack_event_header(e) \o Scalars(e, 5), 1)
  <2>1. Packed(e, 6, Scalars(e, 5), 6 - 5) /\ 6 - 5 = 1
    BY ScalarsPacked
  <2> QED BY <1>1, <2>1, PackedConcat
<1>3. Packed(e, 1, Array(e, objects), objects)
  <2>1. Packed(e, 1, Array(e, objects), (1 - 1) + objects) /\ (1 - 1) + objects = objects
    BY ArrayPacked
  <2> QED BY <2>1
<1>4. objects \in Int
  OBVIOUS
<1>5. Packed(e, 1, Map(e, 5) \o pack_event_header(e) \o Scalars(e, 5)
                     \o Array(e, objects), objects)
  BY <1>2, <1>3, <1>4, PackedConcat
<1>6. Packed(e, objects, FlattenSeq([i \in 1 .. objects |-> DumpedObject(e, references)]), 0)
  BY DumpedObjectIsObject, RowPacked
<1> QED BY <1>4, <1>5, <1>6, PackedConcat DEF pack_object_space_dump_event

(* A sample, with any number of frames. *)
LEMMA SampleMessageIsObject ==
  ASSUME NEW e \in Nat, NEW frames \in Nat
  PROVE  Packed(e, 1, pack_cpu_sample_event(e, frames), 0)
<1>1. Packed(e, 1, Map(e, 3) \o pack_event_header(e), 2)
  <2>1. 2 * 3 - 4 = 2 /\ 3 > 1
    OBVIOUS
  <2> QED BY <2>1, HeaderPacked
<1>2. Packed(e, 1, Map(e, 3) \o pack_event_header(e) \o Scalars(e, 1), 1)
  <2>1. Packed(e, 2, Scalars(e, 1), 2 - 1) /\ 2 - 1 = 1
    BY ScalarsPacked
  <2> QED BY <1>1, <2>1, PackedConcat
<1>3. Packed(e, 1, Array(e, frames), frames)
  <2>1. Packed(e, 1, Array(e, frames), (1 - 1) + frames) /\ (1 - 1) + frames = frames
    BY ArrayPacked
  <2> QED BY <2>1
<1>4. frames \in Int
  OBVIOUS
<1>5. Packed(e, 1, Map(e, 3) \o pack_event_header(e) \o Scalars(e, 1)
                     \o Array(e, frames), frames)
  BY <1>2, <1>3, <1>4, PackedConcat
<1>6. Packed(e, 1, Map(e, 6) \o Scalars(e, 12), 0)
  <2>1. Packed(e, 1, Map(e, 6), (1 - 1) + 2 * 6) /\ (1 - 1) + 2 * 6 = 12
    BY MapPacked
  <2>2. Packed(e, 12, Scalars(e, 12), 12 - 12) /\ 12 - 12 = 0
    BY ScalarsPacked
  <2> QED BY <2>1, <2>2, PackedConcat
<1>7. Packed(e, frames, FlattenSeq([i \in 1 .. frames |-> Map(e, 6) \o Scalars(e, 12)]), 0)
  BY <1>6, RowPacked
<1> QED BY <1>4, <1>5, <1>7, PackedConcat DEF pack_cpu_sample_event

(* A collection: the list behind the announcement of its length. *)
LEMMA CollectionIsObject ==
  ASSUME NEW count \in Nat, NEW buffer \in Seq(Item)
  PROVE  LET sent == pack_event_collection_event(buffer, count) IN
         /\ sent \in Seq(Item)
         /\ Leads(count, buffer, 0) => Leads(1, sent, 0)
         /\ EventsOf(buffer) \subseteq EventsOf(sent)
<1> DEFINE header == Map(0, 4) \o pack_event_header(0) \o Scalars(0, 3) \o Array(0, count)
<1>1. Packed(0, 1, header, count)
  <2>1. Packed(0, 1, Map(0, 4) \o pack_event_header(0), 4)
    <3>1. 2 * 4 - 4 = 4 /\ 4 > 1
      OBVIOUS
    <3> QED BY <3>1, HeaderPacked
  <2>2. Packed(0, 1, Map(0, 4) \o pack_event_header(0) \o Scalars(0, 3), 1)
    <3>1. Packed(0, 4, Scalars(0, 3), 4 - 3) /\ 4 - 3 = 1
      BY ScalarsPacked
    <3> QED BY <2>1, <3>1, PackedConcat
  <2>3. Packed(0, 1, Array(0, count), count)
    <3>1. Packed(0, 1, Array(0, count), (1 - 1) + count) /\ (1 - 1) + count = count
      BY ArrayPacked
    <3> QED BY <3>1
  <2>4. count \in Int
    OBVIOUS
  <2> QED BY <2>2, <2>3, <2>4, PackedConcat
<1>2. header \in Seq(Item)
  BY <1>1, ItemsOfAnEvent DEF Packed
<1> HIDE DEF header
<1>3. pack_event_collection_event(buffer, count) = header \o buffer
  BY DEF header, pack_event_collection_event
<1>4. header \o buffer \in Seq(Item)
  BY <1>2, ConcatTyped
<1>5. Leads(count, buffer, 0) => Leads(1, header \o buffer, 0)
  <2>1. count \in Int
    OBVIOUS
  <2> QED BY <1>1, <1>2, <2>1, LeadsConcat DEF Packed
<1>6. EventsOf(buffer) \subseteq EventsOf(header \o buffer)
  <2>1. /\ Len(header) \in Nat /\ Len(buffer) \in Nat
        /\ Len(header \o buffer) = Len(header) + Len(buffer)
        /\ \A i \in 1 .. Len(buffer) : (header \o buffer)[Len(header) + i] = buffer[i]
    BY <1>2, ConcatTyped
  <2>2. /\ DOMAIN buffer = 1 .. Len(buffer)
        /\ DOMAIN (header \o buffer) = 1 .. Len(header \o buffer)
    BY <1>4, LenProperties
  <2>3. \A i \in 1 .. Len(buffer) : Len(header) + i \in 1 .. Len(header \o buffer)
    BY <2>1
  <2> QED BY <2>1, <2>2, <2>3 DEF EventsOf
<1> QED BY <1>3, <1>4, <1>5, <1>6

-----------------------------------------------------------------------------
(* Reading. *)
LEMMA EndsOfConcat ==
  ASSUME NEW a \in Seq(Item), NEW b \in Seq(Item), Open(a)[Len(a)] = 0, Leads(1, b, 0)
  PROVE  /\ Ends(a \o b) = Ends(a) \cup {Len(a) + Len(b)}
         /\ Ends(a) \subseteq 1 .. Len(a)
<1> DEFINE c == a \o b
           m == Len(a)
           n == Len(b)
<1>1. /\ c \in Seq(Item) /\ m \in Nat /\ n \in Nat /\ Len(c) = m + n
      /\ \A i \in 1 .. m : c[i] = a[i]
      /\ \A i \in 1 .. n : c[m + i] = b[i]
  BY ConcatTyped
<1>2. DOMAIN a = 1 .. m /\ DOMAIN c = 1 .. Len(c)
  BY <1>1, LenProperties
<1>3. n # 0
  BY NotEmpty
<1> HIDE DEF c, m, n
<1>4. Open(a) = Places(0, a) /\ Open(c) = Places(0, c)
  BY OpenIsPlaces
<1>5. Places(0, c)[0] = 0 /\ Places(0, a)[0] = 0
  BY <1>1, PlacesStep
<1>6. \A i \in 0 .. m : Places(0, c)[i] = Places(0, a)[i]
  <2>1. Holds(c, 0, a, m)
    BY <1>1 DEF Holds, m
  <2>2. \A i \in 1 .. m : Places(0, c)[0 + i] = Places(0, a)[i]
    BY ONLY a \in Seq(Item), <1>1, <1>5, <2>1, PlacesAgree
  <2>3. \A i \in 1 .. m : 0 + i = i
    BY <1>1
  <2> QED BY <1>1, <1>5, <2>2, <2>3
<1>7. \A i \in 1 .. n : Places(0, c)[m + i] = Places(1, b)[i]
  <2>1. Holds(c, m, b, n)
    BY <1>1 DEF Holds, n
  <2>2. Places(0, c)[m] = 0
    BY <1>1, <1>4, <1>6 DEF m
  <2> QED BY ONLY b \in Seq(Item), <1>1, <2>1, <2>2, PlacesAgree
<1>8. /\ \A i \in 1 .. n : i # n => Places(1, b)[i] # 0
      /\ Places(1, b)[n] = 0
  <2>1. \A i \in 1 .. n : i # n => i \in 0 .. n - 1
    BY <1>1
  <2>2. \A i \in 0 .. n : Places(1, b)[i] \in Int
    BY PlacesAreTyped DEF n
  <2> QED BY <1>1, <2>1, <2>2 DEF Leads, n
<1>9. ASSUME NEW i \in 1 .. m + n
      PROVE  Places(0, c)[i] = 0 <=> (i <= m /\ Places(0, a)[i] = 0) \/ i = m + n
  <2>1. CASE i <= m
    BY <1>1, <1>3, <1>6, <2>1
  <2>2. CASE i > m
    <3>1. i - m \in 1 .. n /\ m + (i - m) = i /\ (i - m = n <=> i = m + n)
      BY <1>1, <2>2
    <3>2. Places(0, c)[i] = Places(1, b)[i - m]
      BY <1>7, <3>1
    <3>3. Places(0, c)[i] = 0 <=> i - m = n
      BY <1>8, <3>1, <3>2
    <3>4. ~(i <= m)
      BY <1>1, <2>2
    <3> QED BY <3>1, <3>3, <3>4
  <2> QED BY <1>1, <2>1, <2>2
<1>10. Ends(c) = {i \in 1 .. m + n : Places(0, c)[i] = 0}
  BY <1>1, <1>2, <1>4 DEF Ends
<1>11. Ends(a) = {i \in 1 .. m : Places(0, a)[i] = 0}
  BY <1>2, <1>4 DEF Ends
<1>12. Ends(c) = Ends(a) \cup {m + n}
  <2>1. m + n \in 1 .. m + n /\ 1 .. m \subseteq 1 .. m + n
    BY <1>1, <1>3
  <2>2. \A i \in 1 .. m + n : i <= m <=> i \in 1 .. m
    BY <1>1
  <2> QED BY <1>9, <1>10, <1>11, <2>1, <2>2
<1> QED BY <1>11, <1>12 DEF c, m, n

LEMMA EndsOfNothing ==
  Ends(<<>>) = {} /\ Open(<<>>)[0] = 0 /\ Len(<<>>) = 0 /\ <<>> \in Seq(Item)
<1>1. <<>> \in Seq(Item) /\ Len(<<>>) = 0 /\ DOMAIN <<>> = {}
  BY EmptySeq
<1>2. Open(<<>>)[0] = 0
  <2>1. Leads(0, <<>>, 0)
    BY LeadsEmpty
  <2>2. Places(0, <<>>)[0] = 0
    BY <1>1, <2>1 DEF Leads
  <2> QED BY <2>2, OpenIsPlaces
<1> QED BY <1>1, <1>2 DEF Ends

(* What leads from one place to none is read as one object. *)
LEMMA EndsOfObject ==
  ASSUME NEW items \in Seq(Item), Leads(1, items, 0)
  PROVE  Ends(items) = {Len(items)}
<1>1. <<>> \o items = items /\ Len(items) \in Nat
  BY ConcatEmptySeq, LenProperties
<1>2. Ends(<<>> \o items) = Ends(<<>>) \cup {Len(<<>>) + Len(items)}
  BY EndsOfNothing, EndsOfConcat
<1> QED BY <1>1, <1>2, EndsOfNothing

LEMMA EventsOfConcat ==
  ASSUME NEW a \in Seq(Item), NEW b \in Seq(Item)
  PROVE  EventsOf(a \o b) = EventsOf(a) \cup EventsOf(b)
<1>1. /\ a \o b \in Seq(Item) /\ Len(a) \in Nat /\ Len(b) \in Nat
      /\ Len(a \o b) = Len(a) + Len(b)
      /\ \A i \in 1 .. Len(a) : (a \o b)[i] = a[i]
      /\ \A i \in 1 .. Len(b) : (a \o b)[Len(a) + i] = b[i]
  BY ConcatTyped
<1>2. /\ DOMAIN a = 1 .. Len(a) /\ DOMAIN b = 1 .. Len(b)
      /\ DOMAIN (a \o b) = 1 .. Len(a) + Len(b)
  BY <1>1, LenProperties
<1>3. ASSUME NEW i \in 1 .. Len(a) + Len(b)
      PROVE  \/ i \in 1 .. Len(a) /\ (a \o b)[i] = a[i]
             \/ i - Len(a) \in 1 .. Len(b) /\ (a \o b)[i] = b[i - Len(a)]
  <2>1. CASE i <= Len(a)
    BY <1>1, <2>1
  <2>2. CASE i > Len(a)
    <3>1. i - Len(a) \in 1 .. Len(b) /\ Len(a) + (i - Len(a)) = i
      BY <1>1, <2>2
    <3> QED BY <1>1, <3>1
  <2> QED BY <1>1, <2>1, <2>2
<1>4. EventsOf(a \o b) \subseteq EventsOf(a) \cup EventsOf(b)
  BY <1>2, <1>3 DEF EventsOf
<1>5. EventsOf(a) \subseteq EventsOf(a \o b)
  <2>1. 1 .. Len(a) \subseteq 1 .. Len(a) + Len(b)
    BY <1>1
  <2> QED BY <1>1, <1>2, <2>1 DEF EventsOf
<1>6. EventsOf(b) \subseteq EventsOf(a \o b)
  <2>1. \A i \in 1 .. Len(b) : Len(a) + i \in 1 .. Len(a) + Len(b)
    BY <1>1
  <2>2. ASSUME NEW i \in DOMAIN b PROVE b[i].event \in EventsOf(a \o b)
    <3>1. Len(a) + i \in DOMAIN (a \o b) /\ (a \o b)[Len(a) + i] = b[i]
      BY <1>1, <1>2, <2>1
    <3> QED BY <3>1 DEF EventsOf
  <2> QED BY <2>2 DEF EventsOf
<1> QED BY <1>4, <1>5, <1>6

LEMMA EventsOfAnEvent ==
  ASSUME NEW e \in Nat, NEW b \in Seq(ItemOf(e)), b # <<>>
  PROVE  EventsOf(b) = {e} /\ \A i \in 1 .. Len(b) : b[i].event = e
<1>1. Len(b) \in Nat /\ Len(b) # 0 /\ DOMAIN b = 1 .. Len(b)
  BY LenProperties, EmptySeq
<1>2. \A i \in 1 .. Len(b) : b[i].event = e
  <2>1. \A i \in 1 .. Len(b) : b[i] \in ItemOf(e)
    BY <1>1
  <2> QED BY <2>1 DEF ItemOf
<1>3. 1 \in 1 .. Len(b)
  BY <1>1
<1> QED BY <1>1, <1>2, <1>3 DEF EventsOf

-----------------------------------------------------------------------------
(* What ListHoldsWholeMessages says of an intact list and its count. *)
LastItems(list) ==
  {i \in DOMAIN list : i = Len(list) \/ list[i + 1].event # list[i].event}

Whole(list, count) ==
  Ends(list) = LastItems(list) /\ Cardinality(Ends(list)) = count

LEMMA WholeEmpty == Whole(<<>>, 0)
<1>1. LastItems(<<>>) = {}
  BY EmptySeq DEF LastItems
<1> QED BY <1>1, EndsOfNothing, FS_EmptySet DEF Whole

(* A message of an event the list has nothing of keeps it whole. *)
LEMMA WholeAppend ==
  ASSUME NEW list \in Seq(Item), NEW count \in Nat, Whole(list, count),
         NEW e \in Nat, e \notin EventsOf(list), NEW b, Packed(e, 1, b, 0)
  PROVE  Whole(list \o b, count + 1)
<1> DEFINE c == list \o b
           m == Len(list)
           n == Len(b)
<1>1. b \in Seq(ItemOf(e)) /\ b \in Seq(Item) /\ Leads(1, b, 0) /\ b # <<>>
  BY ItemsOfAnEvent, NotEmpty DEF Packed
<1>2. /\ c \in Seq(Item) /\ m \in Nat /\ n \in Nat \ {0} /\ Len(c) = m + n
      /\ \A i \in 1 .. m : c[i] = list[i]
      /\ \A i \in 1 .. n : c[m + i] = b[i]
  BY <1>1, ConcatTyped, NotEmpty
<1>3. DOMAIN list = 1 .. m /\ DOMAIN c = 1 .. m + n
  BY <1>2, LenProperties
<1>4. \A i \in 1 .. n : b[i].event = e
  BY <1>1, EventsOfAnEvent
<1>5. \A i \in 1 .. m : list[i].event # e
  BY <1>3 DEF EventsOf
<1> HIDE DEF c, m, n
<1>6. Open(list)[Len(list)] = 0
  <2>1. CASE m = 0
    <3>1. list = <<>>
      BY <2>1, EmptySeq DEF m
    <3> QED BY <3>1, EndsOfNothing
  <2>2. CASE m # 0
    <3>1. m \in 1 .. m
      BY <1>2, <2>2
    <3>2. m \in LastItems(list)
      BY <1>3, <3>1 DEF LastItems, m
    <3>3. m \in Ends(list)
      BY <3>2 DEF Whole
    <3> QED BY <3>3 DEF Ends, m
  <2> QED BY <2>1, <2>2
<1>7. Ends(c) = Ends(list) \cup {m + n} /\ Ends(list) \subseteq 1 .. m
  BY <1>1, <1>6, EndsOfConcat DEF c, m, n
<1>8. LastItems(c) = LastItems(list) \cup {m + n}
  <2>1. m + n \in 1 .. m + n /\ 1 .. m \subseteq 1 .. m + n
    BY <1>2
  <2>2. ASSUME NEW i \in 1 .. m + n
        PROVE  i = m + n \/ c[i + 1].event # c[i].event
                 <=> (i \in 1 .. m /\ (i = m \/ list[i + 1].event # list[i].event))
                       \/ i = m + n
    <3>1. CASE i < m
      <4>1. i \in 1 .. m /\ i + 1 \in 1 .. m
        BY <1>2, <3>1
      <4> QED BY <1>2, <3>1, <4>1
    <3>2. CASE i = m
      <4>1. i \in 1 .. m /\ 1 \in 1 .. n
        BY <1>2, <3>2
      <4>2. c[i] = list[i] /\ c[i + 1] = b[1]
        BY <1>2, <3>2, <4>1
      <4> QED BY <1>4, <1>5, <3>2, <4>1, <4>2
    <3>3. CASE i > m /\ i # m + n
      <4>1. /\ i - m \in 1 .. n /\ (i + 1) - m \in 1 .. n
            /\ m + (i - m) = i /\ m + ((i + 1) - m) = i + 1
            /\ i \notin 1 .. m
        BY <1>2, <3>3
      <4>2. c[i] = b[i - m] /\ c[i + 1] = b[(i + 1) - m]
        BY <1>2, <4>1
      <4> QED BY <1>4, <3>3, <4>1, <4>2
    <3>4. CASE i = m + n
      BY <3>4
    <3> QED BY <1>2, <3>1, <3>2, <3>3, <3>4
  <2>3. LastItems(c) = {i \in 1 .. m + n : i = m + n \/ c[i + 1].event # c[i].event}
    BY <1>2, <1>3 DEF LastItems
  <2>4. LastItems(list) = {i \in 1 .. m : i = m \/ list[i + 1].event # list[i].event}
    BY <1>3 DEF LastItems, m
  <2> QED BY <2>1, <2>2, <2>3, <2>4
<1>9. Cardinality(Ends(c)) = count + 1
  <2>1. m + n \notin Ends(list)
    BY <1>2, <1>7
  <2>2. IsFiniteSet(Ends(list))
    <3>1. 0 \in Int /\ m \in Int /\ 1 \in Int
      BY <1>2
    <3>2. IsFiniteSet(1 .. m)
      BY <3>1, FS_Interval
    <3> QED BY <1>7, <3>2, FS_Subset
  <2>3. Cardinality(Ends(list)) = count
    BY DEF Whole
  <2> QED BY <1>7, <2>1, <2>2, <2>3, FS_AddElement
<1> QED BY <1>7, <1>8, <1>9 DEF Whole, c

-----------------------------------------------------------------------------
(* The inductive invariant: initially. *)
LEMMA InitInv == Init => Inv
<1> SUFFICES ASSUME Init PROVE Inv
  OBVIOUS
<1>1. <<>> \in Seq(Item) /\ EventsOf(<<>>) = {}
  BY EmptySeq DEF EventsOf
<1>2. TypeOK
  BY <1>1 DEF Init, TypeOK
<1>3. PackedApart /\ PairsAreMissing /\ QueuersHaveServer
  BY <1>1 DEF Init, PackedApart, PairsAreMissing, QueuersHaveServer
<1>4. ListFillsCount
  BY LeadsEmpty DEF Init, ListFillsCount
<1>5. ListHoldsWholeMessages
  BY WholeEmpty DEF Init, ListHoldsWholeMessages, Whole, LastItems
<1>6. WhatIsSentIsOneObject /\ StuckOnlyIfOvertaken
  BY DEF Init, WhatIsSentIsOneObject, StuckOnlyIfOvertaken
<1> QED BY <1>2, <1>3, <1>4, <1>5, <1>6 DEF Inv

(* The lists of which this is true, whose shrunk events these are. *)
WholeUnlessShrunk(list, count, lost) ==
  EventsOf(list) \cap lost = {} => Leads(count, list, 0) /\ Whole(list, count)

LEMMA ListParts ==
  ListFillsCount /\ ListHoldsWholeMessages
    <=> WholeUnlessShrunk(message_array, no_of_messages, shrunk)
BY DEF ListFillsCount, ListHoldsWholeMessages, WholeUnlessShrunk, Whole, LastItems,
       Intact, EventsOf

LEMMA WholeUnlessShrunkAppend ==
  ASSUME NEW list \in Seq(Item), NEW count \in Nat, NEW lost,
         WholeUnlessShrunk(list, count, lost),
         NEW e \in Nat, e \notin EventsOf(list),
         NEW b \in Seq(ItemOf(e)), b # <<>>,
         e \notin lost => Leads(1, b, 0)
  PROVE  /\ list \o b \in Seq(Item)
         /\ WholeUnlessShrunk(list \o b, count + 1, lost)
         /\ EventsOf(list \o b) = EventsOf(list) \cup {e}
<1>1. b \in Seq(Item)
  BY ItemsOfAnEvent
<1>2. list \o b \in Seq(Item)
  BY <1>1, ConcatTyped
<1>3. EventsOf(list \o b) = EventsOf(list) \cup {e}
  BY <1>1, EventsOfConcat, EventsOfAnEvent
<1>4. ASSUME EventsOf(list \o b) \cap lost = {}
      PROVE  Leads(count + 1, list \o b, 0) /\ Whole(list \o b, count + 1)
  <2>1. e \notin lost /\ EventsOf(list) \cap lost = {}
    BY <1>3, <1>4
  <2>2. Leads(1, b, 0) /\ Leads(count, list, 0) /\ Whole(list, count)
    BY <2>1 DEF WholeUnlessShrunk
  <2>3. Leads(count + 1, list, 1)
    <3>1. count \in Int /\ 0 \in Int /\ 1 \in Nat
      OBVIOUS
    <3>2. Leads(count + 1, list, 0 + 1)
      BY <2>2, <3>1, LeadsWithMore
    <3> QED BY <3>2
  <2>4. Leads(count + 1, list \o b, 0)
    <3>1. count + 1 \in Int /\ 1 \in Int /\ 0 \in Int
      OBVIOUS
    <3> QED BY <1>1, <2>2, <2>3, <3>1, LeadsConcat
  <2>5. Whole(list \o b, count + 1)
    BY <2>2, WholeAppend DEF Packed
  <2> QED BY <2>4, <2>5
<1> QED BY <1>2, <1>3, <1>4 DEF WholeUnlessShrunk

(* What a step that leaves the list, or what was sent, as it is keeps. *)
LEMMA ListUntouched ==
  ASSUME ListFillsCount, ListHoldsWholeMessages,
         UNCHANGED <<message_array, no_of_messages>>,
         Intact(message_array)' => Intact(message_array)
  PROVE  ListFillsCount' /\ ListHoldsWholeMessages'
BY DEF ListFillsCount, ListHoldsWholeMessages, Ends, Open

LEMMA SentUntouched ==
  ASSUME WhatIsSentIsOneObject, UNCHANGED <<published, reply>>, shrunk \subseteq shrunk'
  PROVE  WhatIsSentIsOneObject'
BY DEF WhatIsSentIsOneObject, Intact, Ends, Open

(* A message of an event that is new to the list is queued. *)
LEMMA QueueStep ==
  ASSUME TypeOK, ListFillsCount, ListHoldsWholeMessages, UNCHANGED shrunk,
         NEW e \in Nat, e \notin EventsOf(message_array),
         NEW b \in Seq(ItemOf(e)), b # <<>>, e \notin shrunk => Leads(1, b, 0),
         message_array' = message_array \o b, no_of_messages' = no_of_messages + 1
  PROVE  /\ message_array' \in Seq(Item) /\ no_of_messages' \in Nat
         /\ EventsOf(message_array') = EventsOf(message_array) \cup {e}
         /\ ListFillsCount' /\ ListHoldsWholeMessages'
<1>1. message_array \in Seq(Item) /\ no_of_messages \in Nat
  BY DEF TypeOK
<1>2. WholeUnlessShrunk(message_array, no_of_messages, shrunk)
  BY ListParts
<1>3. /\ message_array' \in Seq(Item)
      /\ WholeUnlessShrunk(message_array', no_of_messages', shrunk)
      /\ EventsOf(message_array') = EventsOf(message_array) \cup {e}
  BY <1>1, <1>2, WholeUnlessShrunkAppend
<1>4. ListFillsCount' /\ ListHoldsWholeMessages'
  <2>1. Intact(message_array)' => EventsOf(message_array') \cap shrunk = {}
    BY DEF Intact, EventsOf
  <2>2. ListFillsCount'
    BY <1>3, <2>1 DEF ListFillsCount, WholeUnlessShrunk
  <2>3. ListHoldsWholeMessages'
    BY <1>3, <2>1 DEF ListHoldsWholeMessages, WholeUnlessShrunk, Whole, LastItems
  <2> QED BY <2>2, <2>3
<1> QED BY <1>1, <1>3, <1>4

(* C code packs and queues a message in one step; so the hooks, dumps and  *)
(* samples have to show that their message is an object, and that it is    *)
(* queued on a destroyed list only when a stop overtook them.              *)
LEMMA MessageStep ==
  ASSUME Inv, alive \/ overtaken, NewEvent, NEW b, Packed(produced', 1, b, 0),
         send_message(b),
         UNCHANGED <<alive, packing, published, reply, sampling, shrunk, History>>
  PROVE  Inv'
<1> DEFINE e == produced'
<1>1. TypeOK /\ PackedApart
  BY DEF Inv
<1>2. produced \in Nat /\ e \in Nat /\ e = produced + 1 /\ 1 .. e = 1 .. produced \cup {e}
      /\ e \notin 1 .. produced
  BY <1>1 DEF TypeOK, NewEvent
<1> HIDE DEF e
<1>3. Packed(e, 1, b, 0)
  BY DEF e
<1>4. b \in Seq(ItemOf(e)) /\ b # <<>> /\ Leads(1, b, 0)
  BY <1>2, <1>3, ItemsOfAnEvent, NotEmpty DEF Packed
<1>5. e \notin EventsOf(message_array)
  BY <1>1, <1>2 DEF PackedApart
<1>6. /\ message_array' \in Seq(Item) /\ no_of_messages' \in Nat
      /\ EventsOf(message_array') \subseteq EventsOf(message_array) \cup {e}
      /\ ListFillsCount' /\ ListHoldsWholeMessages' /\ StuckOnlyIfOvertaken'
  <2>1. CASE alive
    <3>1. /\ message_array' = message_array \o b
          /\ no_of_messages' = no_of_messages + 1
          /\ UNCHANGED stuck
      BY <2>1 DEF send_message
    <3>2. /\ message_array' \in Seq(Item) /\ no_of_messages' \in Nat
          /\ EventsOf(message_array') = EventsOf(message_array) \cup {e}
          /\ ListFillsCount' /\ ListHoldsWholeMessages'
      BY <1>1, <1>2, <1>4, <1>5, <3>1, QueueStep DEF Inv
    <3>3. StuckOnlyIfOvertaken'
      BY <3>1 DEF Inv, StuckOnlyIfOvertaken
    <3> QED BY <3>2, <3>3
  <2>2. CASE ~alive
    <3>1. UNCHANGED <<message_array, no_of_messages>>
      BY <2>2 DEF send_message
    <3>2. Intact(message_array)' => Intact(message_array)
      BY <3>1 DEF Intact
    <3>3. ListFillsCount' /\ ListHoldsWholeMessages'
      BY <3>1, <3>2, ListUntouched DEF Inv
    <3>4. overtaken'
      BY <2>2
    <3> QED BY <1>1, <3>1, <3>3, <3>4 DEF TypeOK, StuckOnlyIfOvertaken
  <2> QED BY <2>1, <2>2
<1>7. TypeOK'
  BY <1>1, <1>2, <1>6 DEF TypeOK, e
<1>8. PackedApart'
  <2>1. EventsOf(message_array') \subseteq 1 .. e
    BY <1>1, <1>2, <1>6 DEF PackedApart
  <2>2. ASSUME NEW t \in Threads, packing[t] # NULL
        PROVE  /\ packing[t].event \in 1 .. e
               /\ packing[t].event \notin EventsOf(message_array')
    BY <1>1, <1>2, <1>6, <2>2 DEF PackedApart
  <2> QED BY <1>1, <2>1, <2>2 DEF PackedApart, e
<1>9. PairsAreMissing' /\ QueuersHaveServer'
  BY DEF Inv, PairsAreMissing, QueuersHaveServer
<1>10. WhatIsSentIsOneObject'
  BY SentUntouched DEF Inv
<1> QED BY <1>6, <1>7, <1>8, <1>9, <1>10 DEF Inv

LEMMA HookStep == ASSUME Inv, Hook PROVE Inv'
<1>1. PICK b \in {pack_obj_created_event(produced'), pack_obj_destroyed_event(produced'),
                  pack_event_header_only(produced')} : sbuf' = b
  BY DEF Hook, pack_event
<1>2. produced' \in Nat
  BY DEF Hook, NewEvent, Inv, TypeOK
<1>3. Packed(produced', 1, b, 0)
  BY <1>2, HookMessagesAreObjects
<1>4. NewEvent /\ send_message(b)
      /\ UNCHANGED <<alive, packing, published, reply, sampling, shrunk, History>>
  BY <1>1 DEF Hook
<1>5. alive \/ overtaken
  BY DEF Hook, Inv, QueuersHaveServer
<1> QED BY <1>3, <1>4, <1>5, MessageStep

USE NullIsNoHash, BoundsAreNat

LEMMA DumpStep == ASSUME Inv, send_objectspace_dump PROVE Inv'
<1>1. PICK objects \in 0 .. MaxSize, references \in 0 .. MaxSize :
        send_message(pack_object_space_dump_event(produced', objects, references))
  BY DEF send_objectspace_dump, pack_event
<1>2. produced' \in Nat /\ objects \in Nat /\ references \in Nat
  BY DEF send_objectspace_dump, NewEvent, Inv, TypeOK
<1>3. alive /\ NewEvent
      /\ UNCHANGED <<alive, packing, published, reply, sampling, shrunk, History>>
  BY DEF send_objectspace_dump
<1> QED BY <1>1, <1>2, <1>3, DumpMessageIsObject, MessageStep

LEMMA SampleStep == ASSUME Inv, queue_cpu_sample_for_sending PROVE Inv'
<1>1. PICK frames \in 0 .. MaxSize :
        send_message(pack_cpu_sample_event(produced', frames))
  BY DEF queue_cpu_sample_for_sending, pack_event
<1>2. produced' \in Nat /\ frames \in Nat
  BY DEF queue_cpu_sample_for_sending, NewEvent, Inv, TypeOK
<1>3. sampling /\ NewEvent
      /\ UNCHANGED <<alive, packing, published, reply, sampling, shrunk, History>>
  BY DEF queue_cpu_sample_for_sending
<1>4. alive \/ overtaken
  BY <1>3 DEF Inv, QueuersHaveServer
<1> QED BY <1>1, <1>2, <1>3, <1>4, SampleMessageIsObject, MessageStep

(* What the steps of a hash that queue nothing leave alone. *)
LEMMA OthersUntouched ==
  ASSUME Inv, UNCHANGED <<message_array, no_of_messages, published, reply, stuck, overtaken>>,
         shrunk \subseteq shrunk'
  PROVE  /\ ListFillsCount' /\ ListHoldsWholeMessages'
         /\ WhatIsSentIsOneObject' /\ StuckOnlyIfOvertaken'
<1>1. Intact(message_array)' => Intact(message_array)
  BY DEF Intact
<1> QED BY <1>1, ListUntouched, SentUntouched DEF Inv, StuckOnlyIfOvertaken

LEMMA SendHashStep ==
  ASSUME Inv, NEW t \in Threads, SendHash(t)
  PROVE  Inv'
<1> DEFINE e == produced'
<1>1. TypeOK /\ PackedApart
  BY DEF Inv
<1>2. PICK kind \in {"gc_stats", "users", "handshake"}, size \in 0 .. MaxSize :
        /\ kind # "handshake" => alive
        /\ packing' = [packing EXCEPT ![t] =
             [event |-> produced', kind |-> kind, left |-> size,
              buffer |-> pack_hash_event(produced', size)]]
  BY DEF SendHash, pack_event
<1>3. produced \in Nat /\ e \in Nat /\ e = produced + 1 /\ 1 .. e = 1 .. produced \cup {e}
      /\ e \notin 1 .. produced /\ size \in Nat
  BY <1>1 DEF TypeOK, NewEvent, SendHash
<1> HIDE DEF e
<1>4. Packed(e, 1, pack_hash_event(e, size), 2 * size)
  BY <1>3, HashMissesItsPairs
<1> DEFINE buffer == pack_hash_event(e, size)
           hash == [event |-> e, kind |-> kind, left |-> size, buffer |-> buffer]
<1>5. buffer \in Seq(ItemOf(e)) /\ buffer \in Seq(Item) /\ Leads(1, buffer, 2 * size)
  BY <1>3, <1>4, ItemsOfAnEvent DEF Packed
<1>6. buffer # <<>>
  <2> SUFFICES ASSUME buffer = <<>> PROVE FALSE
    OBVIOUS
  <2>1. Leads(1, <<>>, 1) /\ Leads(1, <<>>, 2 * size)
    BY <1>5, LeadsEmpty
  <2>2. 2 * size = 1
    BY <2>1 DEF Leads
  <2> QED BY <1>3, <2>2
<1> HIDE DEF buffer
<1>7. packing' = [packing EXCEPT ![t] = hash]
  BY <1>2 DEF e, buffer
<1>8. hash \in HashEvent /\ hash # NULL
  <2>1. hash \in HashEvent
    BY <1>3, <1>5 DEF HashEvent
  <2> QED BY <2>1
<1>9. /\ hash.event = e /\ hash.kind = kind /\ hash.left = size /\ hash.buffer = buffer
      /\ packing' \in [Threads -> HashEvent \cup {NULL}]
      /\ packing'[t] = hash
      /\ \A u \in Threads : u # t => packing'[u] = packing[u]
  <2>1. packing \in [Threads -> HashEvent \cup {NULL}]
    BY <1>1 DEF TypeOK
  <2> HIDE DEF hash
  <2>2. /\ packing' \in [Threads -> HashEvent \cup {NULL}] /\ packing'[t] = hash
        /\ \A u \in Threads : u # t => packing'[u] = packing[u]
    BY <1>7, <1>8, <2>1
  <2> QED BY <2>2 DEF hash
<1> HIDE DEF hash
<1>10. UNCHANGED <<alive, sbuf, message_array, no_of_messages, published, reply,
                   sampling, stuck, shrunk, History>>
  BY DEF SendHash
<1>11. TypeOK'
  BY <1>1, <1>3, <1>9, <1>10 DEF TypeOK, e
<1>12. PackedApart'
  <2>1. EventsOf(message_array') \subseteq 1 .. e
    BY <1>1, <1>3, <1>10 DEF PackedApart
  <2>2. ASSUME NEW u \in Threads, packing'[u] # NULL
        PROVE  /\ packing'[u].event \in 1 .. e
               /\ packing'[u].event \notin EventsOf(message_array')
               /\ packing'[u].buffer # <<>>
               /\ packing'[u].buffer \in Seq(ItemOf(packing'[u].event))
    <3>1. CASE u = t
      <4>1. e \in 1 .. e /\ e \notin EventsOf(message_array')
        BY <1>1, <1>3, <1>10 DEF PackedApart
      <4> QED BY <1>5, <1>6, <1>9, <3>1, <4>1
    <3>2. CASE u # t
      BY <1>1, <1>3, <1>9, <1>10, <2>2, <3>2 DEF PackedApart
    <3> QED BY <3>1, <3>2
  <2>3. ASSUME NEW u \in Threads, NEW v \in Threads, u # v,
               packing'[u] # NULL, packing'[v] # NULL
        PROVE  packing'[u].event # packing'[v].event
    <3>1. \A w \in Threads : w # t /\ packing'[w] # NULL => packing'[w].event # e
      BY <1>1, <1>3, <1>9 DEF PackedApart
    <3>2. CASE u = t \/ v = t
      BY <1>9, <2>3, <3>1, <3>2
    <3>3. CASE u # t /\ v # t
      BY <1>1, <1>9, <2>3, <3>3 DEF PackedApart
    <3> QED BY <3>2, <3>3
  <2> QED BY <2>1, <2>2, <2>3 DEF PackedApart, e
<1>13. PairsAreMissing'
  BY <1>5, <1>9, <1>10 DEF Inv, PairsAreMissing
<1>14. QueuersHaveServer'
  BY <1>2, <1>9, <1>10 DEF Inv, QueuersHaveServer
<1> QED BY <1>10, <1>11, <1>12, <1>13, <1>14, OthersUntouched DEF Inv

(* A hash goes on being packed as hash, or is given up. *)
LEMMA PackingGoesOn ==
  ASSUME TypeOK, PackedApart, NEW t \in Threads, packing[t] # NULL,
         NEW hash \in HashEvent \cup {NULL}, packing' = [packing EXCEPT ![t] = hash],
         hash # NULL =>
           /\ hash.event = packing[t].event
           /\ hash.buffer # <<>>
           /\ hash.buffer \in Seq(ItemOf(hash.event)),
         UNCHANGED produced,
         EventsOf(message_array')
           \subseteq EventsOf(message_array) \cup
                       (IF hash = NULL THEN {packing[t].event} ELSE {})
  PROVE  /\ packing' \in [Threads -> HashEvent \cup {NULL}]
         /\ packing'[t] = hash
         /\ \A u \in Threads : u # t => packing'[u] = packing[u]
         /\ PackedApart'
<1>1. packing \in [Threads -> HashEvent \cup {NULL}]
  BY DEF TypeOK
<1>2. /\ packing' \in [Threads -> HashEvent \cup {NULL}]
      /\ packing'[t] = hash
      /\ \A u \in Threads : u # t => packing'[u] = packing[u]
  BY <1>1
<1>3. EventsOf(message_array') \subseteq 1 .. produced
  BY DEF PackedApart
<1>4. ASSUME NEW u \in Threads, packing'[u] # NULL
      PROVE  /\ packing'[u].event = packing[u].event /\ packing[u] # NULL
             /\ packing'[u].buffer # <<>>
             /\ packing'[u].buffer \in Seq(ItemOf(packing'[u].event))
  BY <1>2, <1>4 DEF PackedApart
<1>5. ASSUME NEW u \in Threads, packing'[u] # NULL
      PROVE  packing'[u].event \in 1 .. produced /\ packing'[u].event \notin EventsOf(message_array')
  <2>1. /\ packing'[u].event = packing[u].event /\ packing[u] # NULL
        /\ packing[u].event \in 1 .. produced
        /\ packing[u].event \notin EventsOf(message_array)
    BY <1>4, <1>5 DEF PackedApart
  <2>2. hash = NULL => u # t
    BY <1>2, <1>5
  <2>3. u # t => packing[u].event # packing[t].event
    BY <2>1 DEF PackedApart
  <2> QED BY <2>1, <2>2, <2>3
<1>6. ASSUME NEW u \in Threads, NEW v \in Threads, u # v,
             packing'[u] # NULL, packing'[v] # NULL
      PROVE  packing'[u].event # packing'[v].event
  <2>1. packing'[u].event = packing[u].event /\ packing[u] # NULL
    BY <1>4, <1>6
  <2>2. packing'[v].event = packing[v].event /\ packing[v] # NULL
    BY <1>4, <1>6
  <2> QED BY <1>6, <2>1, <2>2 DEF PackedApart
<1>7. PackedApart'
  BY <1>3, <1>4, <1>5, <1>6 DEF PackedApart
<1> QED BY <1>2, <1>7

LEMMA HashTyped ==
  ASSUME TypeOK, PackedApart, NEW t \in Threads, packing[t] # NULL
  PROVE  /\ packing[t] \in HashEvent
         /\ packing[t].event \in Nat /\ packing[t].left \in Nat
         /\ packing[t].kind \in {"gc_stats", "users", "handshake"}
         /\ packing[t].buffer \in Seq(Item)
         /\ packing[t].event \in 1 .. produced
         /\ packing[t].event \notin EventsOf(message_array)
         /\ packing[t].buffer # <<>>
         /\ packing[t].buffer \in Seq(ItemOf(packing[t].event))
<1>1. packing[t] \in HashEvent
  BY DEF TypeOK
<1> QED BY <1>1 DEF HashEvent, PackedApart

LEMMA HashExcept ==
  ASSUME NEW hash \in HashEvent, NEW l, NEW b
  PROVE  [hash EXCEPT !.left = l, !.buffer = b]
           = [event |-> hash.event, kind |-> hash.kind, left |-> l, buffer |-> b]
<1>1. hash = [event |-> hash.event, kind |-> hash.kind, left |-> hash.left,
              buffer |-> hash.buffer]
  BY DEF HashEvent
<1> DEFINE shorter == [event |-> hash.event, kind |-> hash.kind, left |-> l,
                       buffer |-> hash.buffer]
<1>2. [hash EXCEPT !.left = l] = shorter
  BY <1>1
<1>3. [shorter EXCEPT !.buffer = b]
        = [event |-> hash.event, kind |-> hash.kind, left |-> l, buffer |-> b]
  OBVIOUS
<1>4. [hash EXCEPT !.left = l, !.buffer = b] = [[hash EXCEPT !.left = l] EXCEPT !.buffer = b]
  OBVIOUS
<1> QED BY <1>2, <1>3, <1>4

LEMMA PackPairStep ==
  ASSUME Inv, NEW t \in Threads, PackPair(t)
  PROVE  Inv'
<1> DEFINE old == packing[t]
           new == [event |-> old.event, kind |-> old.kind, left |-> old.left - 1,
                   buffer |-> old.buffer \o hash_pack_iterator(old.event)]
<1>1. TypeOK /\ PackedApart /\ packing[t] # NULL
  BY DEF Inv, PackPair
<1>2. PICK e \in Nat : e = old.event
  BY <1>1, HashTyped
<1>3. PICK left \in Nat : left = old.left /\ left > 0
  BY <1>1, HashTyped DEF PackPair
<1>4. PICK buffer : buffer = old.buffer
  OBVIOUS
<1>5. /\ buffer \in Seq(ItemOf(e)) /\ buffer \in Seq(Item) /\ buffer # <<>>
      /\ old \in HashEvent /\ old.kind \in {"gc_stats", "users", "handshake"}
  BY <1>1, <1>2, <1>4, HashTyped
<1>6. Packed(e, 2 * left, Scalars(e, 2), 2 * left - 2)
  <2>1. 2 * left \in Nat /\ 2 * left > 0
    BY <1>3
  <2> QED BY <2>1, ScalarsPacked
<1>7. Scalars(e, 2) \in Seq(ItemOf(e)) /\ Scalars(e, 2) \in Seq(Item)
  BY <1>6, ItemsOfAnEvent DEF Packed
<1> DEFINE longer == buffer \o Scalars(e, 2)
<1>8. longer \in Seq(ItemOf(e)) /\ longer \in Seq(Item)
  BY <1>5, <1>7, ConcatTyped
<1>9. longer # <<>>
  <2>1. Len(buffer) \in Nat /\ Len(buffer) # 0
    BY <1>5, LenProperties, EmptySeq
  <2>2. Len(Scalars(e, 2)) \in Nat /\ Len(longer) = Len(buffer) + Len(Scalars(e, 2))
    BY <1>5, <1>7, ConcatTyped
  <2>3. Len(longer) # 0
    BY <2>1, <2>2
  <2> QED BY <2>3, EmptySeq
<1>10. e \notin shrunk => Leads(1, longer, 2 * (left - 1))
  <2>1. SUFFICES ASSUME e \notin shrunk PROVE Leads(1, longer, 2 * (left - 1))
    OBVIOUS
  <2>2. Leads(1, buffer, 2 * left)
    BY <1>1, <1>2, <1>3, <1>4, <2>1 DEF Inv, PairsAreMissing
  <2>3. 2 * left - 2 = 2 * (left - 1)
    OBVIOUS
  <2>4. PICK q \in Int, r \in Int : q = 2 * left /\ r = 2 * left - 2
    OBVIOUS
  <2>5. Leads(1, buffer, q) /\ Leads(q, Scalars(e, 2), r)
    BY <1>6, <2>2, <2>4 DEF Packed
  <2>6. Leads(1, longer, r)
    BY <1>5, <1>7, <2>5, LeadsConcat
  <2> QED BY <2>3, <2>4, <2>6
<1> HIDE DEF longer
<1>11. new = [event |-> e, kind |-> old.kind, left |-> left - 1, buffer |-> longer]
  BY <1>2, <1>3, <1>4 DEF longer, hash_pack_iterator
<1>12. new \in HashEvent
  <2>1. PICK kind \in {"gc_stats", "users", "handshake"} : kind = old.kind
    BY <1>5
  <2>2. left - 1 \in Nat
    BY <1>3
  <2>3. [event |-> e, kind |-> kind, left |-> left - 1, buffer |-> longer] \in HashEvent
    BY <1>8, <2>2 DEF HashEvent
  <2> QED BY <1>11, <2>1, <2>3
<1>13. packing' = [packing EXCEPT ![t] = new]
  <2>1. [old EXCEPT !.left = old.left - 1,
                    !.buffer = old.buffer \o hash_pack_iterator(old.event)] = new
    BY <1>5, HashExcept
  <2>2. packing' = [packing EXCEPT ![t] =
          [old EXCEPT !.left = old.left - 1,
                      !.buffer = old.buffer \o hash_pack_iterator(old.event)]]
    <3>1. packing \in [Threads -> HashEvent \cup {NULL}]
      BY <1>1 DEF TypeOK
    <3> QED BY <3>1 DEF PackPair
  <2> QED BY <2>1, <2>2
<1>14. new.event = e /\ new.left = left - 1 /\ new.buffer = longer /\ new.kind = old.kind
  BY <1>11
<1>15. UNCHANGED <<alive, sbuf, message_array, no_of_messages, published, reply,
                   sampling, stuck, produced, shrunk, History>>
  BY DEF PackPair
<1>16. /\ packing' \in [Threads -> HashEvent \cup {NULL}]
       /\ packing'[t] = new
       /\ \A u \in Threads : u # t => packing'[u] = packing[u]
       /\ PackedApart'
  <2>1. new # NULL /\ new \in HashEvent \cup {NULL} /\ new.event = packing[t].event
    BY <1>2, <1>12, <1>14
  <2>2. new.buffer # <<>> /\ new.buffer \in Seq(ItemOf(new.event))
    BY <1>8, <1>9, <1>14
  <2>3. EventsOf(message_array') \subseteq EventsOf(message_array)
    BY <1>15
  <2> HIDE DEF new
  <2> QED BY <1>1, <1>13, <1>15, <2>1, <2>2, <2>3, PackingGoesOn
<1> HIDE DEF new
<1>17. TypeOK'
  BY <1>1, <1>15, <1>16 DEF TypeOK
<1>18. PairsAreMissing'
  BY <1>10, <1>14, <1>15, <1>16 DEF Inv, PairsAreMissing
<1>19. QueuersHaveServer'
  BY <1>1, <1>14, <1>15, <1>16 DEF Inv, QueuersHaveServer
<1> QED BY <1>15, <1>16, <1>17, <1>18, <1>19, OthersUntouched DEF Inv

LEMMA DeletePairStep ==
  ASSUME Inv, NEW t \in Threads, DeletePair(t)
  PROVE  Inv'
<1> DEFINE old == packing[t]
           new == [old EXCEPT !.left = old.left - 1]
<1>1. TypeOK /\ PackedApart /\ packing[t] # NULL
  BY DEF Inv, DeletePair
<1>2. /\ old \in HashEvent /\ old.left \in Nat /\ old.left > 0
      /\ old.buffer # <<>> /\ old.buffer \in Seq(ItemOf(old.event))
  BY <1>1, HashTyped DEF DeletePair
<1>3. /\ new \in HashEvent
      /\ new.event = old.event /\ new.kind = old.kind /\ new.buffer = old.buffer
  BY <1>2 DEF HashEvent
<1>4. packing' = [packing EXCEPT ![t] = new]
  <2>1. packing \in [Threads -> HashEvent \cup {NULL}]
    BY <1>1 DEF TypeOK
  <2> QED BY <2>1 DEF DeletePair
<1>5. /\ UNCHANGED <<alive, sbuf, message_array, no_of_messages, published, reply,
                     sampling, stuck, produced, History>>
      /\ shrunk' = shrunk \cup {old.event}
  BY DEF DeletePair
<1>6. /\ packing' \in [Threads -> HashEvent \cup {NULL}]
      /\ packing'[t] = new
      /\ \A u \in Threads : u # t => packing'[u] = packing[u]
      /\ PackedApart'
  <2>1. new # NULL /\ new \in HashEvent \cup {NULL} /\ new.event = packing[t].event
    BY <1>3
  <2>2. new.buffer # <<>> /\ new.buffer \in Seq(ItemOf(new.event))
    BY <1>2, <1>3
  <2>3. EventsOf(message_array') \subseteq EventsOf(message_array)
    BY <1>5
  <2> HIDE DEF new
  <2> QED BY <1>1, <1>4, <1>5, <2>1, <2>2, <2>3, PackingGoesOn
<1> HIDE DEF new
<1>7. TypeOK'
  BY <1>1, <1>5, <1>6 DEF TypeOK
<1>8. PairsAreMissing'
  <2>1. old.event \in shrunk' /\ shrunk \subseteq shrunk'
    BY <1>5
  <2> QED BY <1>3, <1>6, <2>1 DEF Inv, PairsAreMissing
<1>9. QueuersHaveServer'
  BY <1>1, <1>3, <1>5, <1>6 DEF Inv, QueuersHaveServer
<1> QED BY <1>5, <1>6, <1>7, <1>8, <1>9, OthersUntouched DEF Inv

(* A hash is given up. *)
LEMMA GivenUp ==
  ASSUME Inv, NEW t \in Threads, packing[t] # NULL,
         packing' = [packing EXCEPT ![t] = NULL],
         UNCHANGED <<alive, sampling, produced, shrunk, History>>,
         EventsOf(message_array') \subseteq EventsOf(message_array) \cup {packing[t].event}
  PROVE  /\ packing' \in [Threads -> HashEvent \cup {NULL}]
         /\ PackedApart' /\ PairsAreMissing' /\ QueuersHaveServer'
<1>1. /\ packing' \in [Threads -> HashEvent \cup {NULL}]
      /\ packing'[t] = NULL
      /\ \A u \in Threads : u # t => packing'[u] = packing[u]
      /\ PackedApart'
  <2>1. NULL \in HashEvent \cup {NULL}
    OBVIOUS
  <2> QED BY <2>1, PackingGoesOn DEF Inv
<1>2. PairsAreMissing'
  BY <1>1 DEF Inv, PairsAreMissing
<1>3. QueuersHaveServer'
  BY <1>1 DEF Inv, QueuersHaveServer
<1> QED BY <1>1, <1>2, <1>3

LEMMA ToSRaisesStep ==
  ASSUME Inv, NEW t \in Threads, ToSRaises(t)
  PROVE  Inv'
<1>1. /\ UNCHANGED <<alive, sbuf, message_array, no_of_messages, published, reply,
                     sampling, stuck, produced, shrunk, History>>
      /\ packing' = [packing EXCEPT ![t] = NULL] /\ packing[t] # NULL
  BY DEF ToSRaises
<1>2. EventsOf(message_array') \subseteq EventsOf(message_array)
  BY <1>1
<1>3. /\ packing' \in [Threads -> HashEvent \cup {NULL}]
      /\ PackedApart' /\ PairsAreMissing' /\ QueuersHaveServer'
  BY <1>1, <1>2, GivenUp
<1>4. TypeOK'
  BY <1>1, <1>3 DEF Inv, TypeOK
<1> QED BY <1>1, <1>3, <1>4, OthersUntouched DEF Inv

(* A hash whose pairs are all packed is one object, unless it lost one. *)
LEMMA PackedHashIsObject ==
  ASSUME Inv, NEW t \in Threads, packing[t] # NULL, packing[t].left = 0,
         packing[t].event \notin shrunk
  PROVE  Leads(1, packing[t].buffer, 0)
<1>1. Leads(1, packing[t].buffer, 2 * packing[t].left)
  BY DEF Inv, PairsAreMissing
<1>2. 2 * packing[t].left = 0
  OBVIOUS
<1> QED BY <1>1, <1>2

LEMMA FinishHashStep ==
  ASSUME Inv, NEW t \in Threads, FinishHash(t)
  PROVE  Inv'
<1>1. TypeOK /\ PackedApart /\ packing[t] # NULL /\ packing[t].left = 0
  BY DEF Inv, FinishHash
<1>2. PICK e \in Nat : e = packing[t].event
  BY <1>1, HashTyped
<1>3. PICK b \in Seq(ItemOf(e)) : b = packing[t].buffer /\ b # <<>> /\ b \in Seq(Item)
  BY <1>1, <1>2, HashTyped
<1>4. e \notin EventsOf(message_array)
  BY <1>1, <1>2, HashTyped
<1>5. e \notin shrunk => Leads(1, b, 0)
  BY <1>1, <1>2, <1>3, PackedHashIsObject
<1>6. /\ UNCHANGED <<alive, sbuf, published, sampling, produced, shrunk, History>>
      /\ packing' = [packing EXCEPT ![t] = NULL]
  BY DEF FinishHash
<1>7. CASE packing[t].kind = "handshake"
  <2>1. reply' = b /\ UNCHANGED <<message_array, no_of_messages, stuck>>
    BY <1>3, <1>7 DEF FinishHash
  <2>2. EventsOf(message_array') \subseteq EventsOf(message_array)
    BY <2>1
  <2>3. /\ packing' \in [Threads -> HashEvent \cup {NULL}]
        /\ PackedApart' /\ PairsAreMissing' /\ QueuersHaveServer'
    BY <1>1, <1>6, <2>2, GivenUp
  <2>4. TypeOK'
    BY <1>1, <1>3, <1>6, <2>1, <2>3 DEF TypeOK
  <2>5. ListFillsCount' /\ ListHoldsWholeMessages'
    <3>1. Intact(message_array)' => Intact(message_array)
      BY <1>6, <2>1 DEF Intact
    <3> QED BY <2>1, <3>1, ListUntouched DEF Inv
  <2>6. WhatIsSentIsOneObject'
    <3>1. Intact(b)' => Ends(b) = {Len(b)}
      <4>1. SUFFICES ASSUME Intact(b)' PROVE Ends(b) = {Len(b)}
        OBVIOUS
      <4>2. EventsOf(b) = {e}
        BY <1>3, EventsOfAnEvent
      <4>3. e \notin shrunk
        BY <1>6, <4>1, <4>2 DEF Intact, EventsOf
      <4> QED BY <1>3, <1>5, <4>3, EndsOfObject
    <3>2. published # <<>> /\ Intact(published)' => Ends(published) = {Len(published)}
      BY <1>6 DEF Inv, WhatIsSentIsOneObject, Intact
    <3> QED BY <1>6, <2>1, <3>1, <3>2 DEF WhatIsSentIsOneObject, Intact
  <2>7. StuckOnlyIfOvertaken'
    BY <1>6, <2>1 DEF Inv, StuckOnlyIfOvertaken
  <2> QED BY <2>3, <2>4, <2>5, <2>6, <2>7 DEF Inv
<1>8. CASE packing[t].kind # "handshake" /\ alive
  <2>1. /\ message_array' = message_array \o b /\ no_of_messages' = no_of_messages + 1
        /\ UNCHANGED <<stuck, reply>>
    BY <1>3, <1>8 DEF FinishHash, send_message
  <2>2. /\ message_array' \in Seq(Item) /\ no_of_messages' \in Nat
        /\ EventsOf(message_array') = EventsOf(message_array) \cup {e}
        /\ ListFillsCount' /\ ListHoldsWholeMessages'
    BY <1>1, <1>3, <1>4, <1>5, <1>6, <2>1, QueueStep DEF Inv
  <2>3. /\ packing' \in [Threads -> HashEvent \cup {NULL}]
        /\ PackedApart' /\ PairsAreMissing' /\ QueuersHaveServer'
    BY <1>1, <1>2, <1>6, <2>2, GivenUp
  <2>4. TypeOK'
    BY <1>1, <1>6, <2>1, <2>2, <2>3 DEF TypeOK
  <2>5. WhatIsSentIsOneObject'
    BY <1>6, <2>1, SentUntouched DEF Inv
  <2>6. StuckOnlyIfOvertaken'
    BY <1>6, <2>1 DEF Inv, StuckOnlyIfOvertaken
  <2> QED BY <2>2, <2>3, <2>4, <2>5, <2>6 DEF Inv
<1>9. CASE packing[t].kind # "handshake" /\ ~alive
  <2>1. UNCHANGED <<message_array, no_of_messages, reply>> /\ stuck' = TRUE
    BY <1>9 DEF FinishHash, send_message
  <2>2. EventsOf(message_array') \subseteq EventsOf(message_array)
    BY <2>1
  <2>3. /\ packing' \in [Threads -> HashEvent \cup {NULL}]
        /\ PackedApart' /\ PairsAreMissing' /\ QueuersHaveServer'
    BY <1>1, <1>6, <2>2, GivenUp
  <2>4. TypeOK'
    BY <1>1, <1>6, <2>1, <2>3 DEF TypeOK
  <2>5. ListFillsCount' /\ ListHoldsWholeMessages'
    <3>1. Intact(message_array)' => Intact(message_array)
      BY <1>6, <2>1 DEF Intact
    <3> QED BY <2>1, <3>1, ListUntouched DEF Inv
  <2>6. WhatIsSentIsOneObject'
    BY <1>6, <2>1, SentUntouched DEF Inv
  <2>7. StuckOnlyIfOvertaken'
    BY <1>1, <1>6, <1>9 DEF Inv, QueuersHaveServer, StuckOnlyIfOvertaken
  <2> QED BY <2>3, <2>4, <2>5, <2>6, <2>7 DEF Inv
<1>10. alive \in BOOLEAN
  BY <1>1 DEF TypeOK
<1> QED BY <1>7, <1>8, <1>9, <1>10

LEMMA PublishStep == ASSUME Inv, Publish PROVE Inv'
<1> DEFINE sent == pack_event_collection_event(message_array, no_of_messages)
<1>1. TypeOK /\ message_array \in Seq(Item) /\ no_of_messages \in Nat
  BY DEF Inv, TypeOK
<1>2. /\ published' = sent /\ message_array' = <<>> /\ no_of_messages' = 0
      /\ UNCHANGED <<alive, sbuf, packing, reply, sampling, stuck, produced, shrunk, History>>
  BY DEF Publish, pack_event
<1>3. /\ sent \in Seq(Item)
      /\ Leads(no_of_messages, message_array, 0) => Leads(1, sent, 0)
      /\ EventsOf(message_array) \subseteq EventsOf(sent)
  BY <1>1, CollectionIsObject
<1> HIDE DEF sent
<1>4. PICK c \in Seq(Item) : c = sent
  BY <1>3
<1>5. <<>> \in Seq(Item) /\ EventsOf(<<>>) = {}
  BY EmptySeq DEF EventsOf
<1>6. TypeOK'
  BY <1>1, <1>2, <1>3, <1>5 DEF TypeOK
<1>7. PackedApart' /\ PairsAreMissing' /\ QueuersHaveServer' /\ StuckOnlyIfOvertaken'
  BY <1>2, <1>5 DEF Inv, PackedApart, PairsAreMissing, QueuersHaveServer, StuckOnlyIfOvertaken
<1>8. ListFillsCount'
  BY <1>2, LeadsEmpty DEF ListFillsCount
<1>9. ListHoldsWholeMessages'
  BY <1>2, WholeEmpty DEF ListHoldsWholeMessages, Whole, LastItems
<1>10. Intact(c)' => Ends(c) = {Len(c)}
  <2>1. SUFFICES ASSUME Intact(c)' PROVE Ends(c) = {Len(c)}
    OBVIOUS
  <2>2. EventsOf(c) \cap shrunk = {}
    BY <1>2, <2>1 DEF Intact, EventsOf
  <2>3. Intact(message_array)
    BY <1>3, <1>4, <2>2 DEF Intact, EventsOf
  <2>4. Leads(1, c, 0)
    BY <1>3, <1>4, <2>3 DEF Inv, ListFillsCount
  <2> QED BY <2>4, EndsOfObject
<1>11. WhatIsSentIsOneObject'
  <2>1. reply # <<>> /\ Intact(reply)' => Ends(reply) = {Len(reply)}
    BY <1>2 DEF Inv, WhatIsSentIsOneObject, Intact
  <2> QED BY <1>2, <1>10, <1>4, <2>1 DEF WhatIsSentIsOneObject, Intact
<1> QED BY <1>6, <1>7, <1>8, <1>9, <1>11 DEF Inv

LEMMA SamplingStep ==
  ASSUME Inv, start_sampling_profiler \/ SamplingEnds
  PROVE  Inv'
<1>1. /\ sampling' => alive
      /\ UNCHANGED <<alive, sbuf, message_array, no_of_messages, packing, published,
                     reply, stuck, produced, shrunk, History>>
  BY DEF start_sampling_profiler, SamplingEnds
<1>2. TypeOK' /\ PackedApart' /\ PairsAreMissing' /\ QueuersHaveServer'
  BY <1>1 DEF Inv, TypeOK, PackedApart, PairsAreMissing, QueuersHaveServer
<1> QED BY <1>1, <1>2, OthersUntouched DEF Inv

(* Of starting and stopping: a list that is made anew or destroyed.        *)
LEMMA EmptyListStep ==
  ASSUME Inv, message_array' = <<>>, no_of_messages' = 0, alive' \in BOOLEAN,
         UNCHANGED <<packing, published, reply, stuck, produced, shrunk>>,
         overtaken => overtaken', QueuersHaveServer'
  PROVE  Inv'
<1>1. <<>> \in Seq(Item) /\ EventsOf(<<>>) = {}
  BY EmptySeq DEF EventsOf
<1>2. TypeOK'
  BY <1>1 DEF Inv, TypeOK
<1>3. PackedApart' /\ PairsAreMissing'
  BY <1>1 DEF Inv, PackedApart, PairsAreMissing
<1>4. StuckOnlyIfOvertaken'
  BY DEF Inv, StuckOnlyIfOvertaken
<1>5. ListFillsCount'
  BY LeadsEmpty DEF ListFillsCount
<1>6. ListHoldsWholeMessages'
  BY WholeEmpty DEF ListHoldsWholeMessages, Whole, LastItems
<1>7. WhatIsSentIsOneObject'
  BY SentUntouched DEF Inv
<1> QED BY <1>2, <1>3, <1>4, <1>5, <1>6, <1>7 DEF Inv

LEMMA StartServerStep == ASSUME Inv, StartServer PROVE Inv'
<1>1. /\ alive' = TRUE /\ message_array' = <<>> /\ no_of_messages' = 0
      /\ UNCHANGED <<packing, published, reply, stuck, produced, shrunk, overtaken>>
  BY DEF StartServer
<1>2. QueuersHaveServer'
  BY <1>1 DEF QueuersHaveServer
<1> QED BY <1>1, <1>2, EmptyListStep

LEMMA StopServerStep == ASSUME Inv, StopServer PROVE Inv'
<1>1. /\ alive' = FALSE /\ message_array' = <<>> /\ no_of_messages' = 0
      /\ overtaken' = \/ overtaken \/ sampling \/ started_over
                      \/ \E t \in Threads : packing[t] # NULL /\ packing[t].kind # "handshake"
      /\ UNCHANGED <<packing, published, reply, sampling, stuck, produced, shrunk,
                     started_over>>
  BY DEF StopServer
<1>2. QueuersHaveServer'
  BY <1>1 DEF QueuersHaveServer
<1> QED BY <1>1, <1>2, EmptyListStep

LEMMA InvStep == ASSUME Inv, [Next]_vars PROVE Inv'
<1>1. CASE UNCHANGED vars
  <2>1. TypeOK' /\ PackedApart' /\ PairsAreMissing' /\ QueuersHaveServer'
    BY <1>1 DEF vars, Inv, TypeOK, PackedApart, PairsAreMissing, QueuersHaveServer
  <2> QED BY <1>1, <2>1, OthersUntouched DEF vars, Inv
<1>2. CASE Hook
  BY <1>2, HookStep
<1>3. CASE send_objectspace_dump
  BY <1>3, DumpStep
<1>4. CASE \E t \in Threads : SendHash(t)
  BY <1>4, SendHashStep
<1>5. CASE \E t \in Threads : PackPair(t)
  BY <1>5, PackPairStep
<1>6. CASE \E t \in Threads : DeletePair(t)
  BY <1>6, DeletePairStep
<1>7. CASE \E t \in Threads : ToSRaises(t)
  BY <1>7, ToSRaisesStep
<1>8. CASE \E t \in Threads : FinishHash(t)
  BY <1>8, FinishHashStep
<1>9. CASE Publish
  BY <1>9, PublishStep
<1>10. CASE StartServer
  BY <1>10, StartServerStep
<1>11. CASE StopServer
  BY <1>11, StopServerStep
<1>12. CASE queue_cpu_sample_for_sending
  BY <1>12, SampleStep
<1>13. CASE start_sampling_profiler \/ SamplingEnds
  BY <1>13, SamplingStep
<1> QED
  BY <1>1, <1>2, <1>3, <1>4, <1>5, <1>6, <1>7, <1>8, <1>9, <1>10, <1>11, <1>12, <1>13
    DEF Next

(* The conjuncts of Inv hold in every state, however many events are       *)
(* packed, by however many threads.                                        *)
THEOREM InvIsInvariant == Spec => []Inv
BY InitInv, InvStep, PTL DEF Spec

-----------------------------------------------------------------------------
(* The list, what is sent and the hashes being packed (rbkit_server.c,     *)
(* rbkit_event_packer.c) hold items of events; of a hash in packing never  *)
(* a negative number of pairs is left.                                     *)
THEOREM TypeCorrect == Spec => []TypeOK
<1>1. Inv => TypeOK
  BY DEF Inv
<1> QED BY <1>1, InvIsInvariant, PTL

(* The message list (rbkit_message_aggregator.c) reads as so many objects  *)
(* as no_of_messages counts, one of each event, however the packing of     *)
(* hashes is interrupted, unless a hash in it lost a pair.                 *)
THEOREM ListIsWholeMessages == Spec => []ListHoldsWholeMessages
<1>1. Inv => ListHoldsWholeMessages
  BY DEF Inv
<1> QED BY <1>1, InvIsInvariant, PTL

(* Each event_collection and handshake (pack_event_collection_event,       *)
(* send_handshake_response) is one object to its last byte, for dumps,     *)
(* samples, backtraces and hashes of any size.                             *)
THEOREM MessagesSentAreObjects == Spec => []WhatIsSentIsOneObject
<1>1. Inv => WhatIsSentIsOneObject
  BY DEF Inv
<1> QED BY <1>1, InvIsInvariant, PTL

(* queue_message (rbkit_message_aggregator.c) is at work on a destroyed    *)
(* list only after a stop_stat_server which came between the pairs of a    *)
(* hash, while samples were still to be taken, or after a repeated start.  *)
THEOREM StuckOnlyAfterOvertakingStop == Spec => []StuckOnlyIfOvertaken
<1>1. Inv => StuckOnlyIfOvertaken
  BY DEF Inv
<1> QED BY <1>1, InvIsInvariant, PTL
=============================================================================
