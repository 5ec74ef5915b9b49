--------------------------- MODULE HeapDump_proofs ---------------------------
(***************************************************************************)
(* Proofs about AllocationInfo, and about HeapDump, which puts a walk of   *)
(* the heap on top of it: for any finite heap and any strings.             *)
(***************************************************************************)
EXTENDS HeapDump, FiniteSetTheorems, TLAPS

-----------------------------------------------------------------------------
(* AllocationInfo.                                                         *)

(* Nothing is traced and nothing recorded while no server runs. *)
IdleWhenStopped == ~running => ~enabled /\ DOMAIN object_table = {}

(* TypeOK and CountsAreExact need each other: that a count never goes      *)
(* below zero follows from its being a number of holders.                  *)
Inv ==
  /\ TypeOK
  /\ CountsAreExact
  /\ CurrentUnlessMissed
  /\ IdleWhenStopped

USE AddressesAreFinite, NullIsNoString

-----------------------------------------------------------------------------
(* Counting. *)
One(P) == IF P THEN 1 ELSE 0

(* Two sets that differ at most in one element. *)
LEMMA CardinalityOfChange ==
  ASSUME NEW S, NEW T, NEW a, IsFiniteSet(S), T \ {a} = S \ {a}
  PROVE  Cardinality(T) = Cardinality(S) - One(a \in S) + One(a \in T)
<1> DEFINE R == S \ {a}
<1>1. Cardinality(S) \in Nat
  BY FS_CardinalityType
<1>2. IsFiniteSet(R) /\ Cardinality(R) = Cardinality(S) - One(a \in S)
  <2>1. CASE a \in S
    BY <2>1, FS_RemoveElement DEF One
  <2>2. CASE a \notin S
    <3>1. R = S
      BY <2>2
    <3> QED BY <1>1, <2>2, <3>1 DEF One
  <2> QED BY <2>1, <2>2
<1>3. CASE a \in T
  <2>1. T = R \cup {a} /\ a \notin R
    BY <1>3
  <2>2. Cardinality(R \cup {a}) = Cardinality(R) + 1
    BY <1>2, <2>1, FS_AddElement
  <2> QED BY <1>1, <1>2, <1>3, <2>1, <2>2 DEF One
<1>4. CASE a \notin T
  <2>1. T = R
    BY <1>4
  <2> QED BY <1>1, <1>2, <1>4, <2>1 DEF One
<1> QED BY <1>3, <1>4

(* What the two string operations do to one string's count. *)
LEMMA MakeCounts ==
  ASSUME NEW table \in [Strings -> Int], NEW n \in Names
  PROVE  /\ make_unique_str(table, n) \in [Strings -> Int]
         /\ \A s \in Strings :
              make_unique_str(table, n)[s] = table[s] + One(n = s)
BY DEF make_unique_str, One, Names

LEMMA DeleteCounts ==
  ASSUME NEW table \in [Strings -> Int], NEW n \in Names
  PROVE  /\ delete_unique_str(table, n) \in [Strings -> Int]
         /\ \A s \in Strings :
              delete_unique_str(table, n)[s] = table[s] - One(n = s)
BY DEF delete_unique_str, One, Names

LEMMA DeleteInfoCounts ==
  ASSUME NEW table \in [Strings -> Int], NEW info \in Info
  PROVE  /\ delete_info(table, info) \in [Strings -> Int]
         /\ \A s \in Strings :
              delete_info(table, info)[s]
                = table[s] - One(info.path = s) - One(info.class_path = s)
<1> DEFINE once == delete_unique_str(table, info.path)
<1>1. info.path \in Names /\ info.class_path \in Names
  BY DEF Info
<1>2. /\ once \in [Strings -> Int]
      /\ \A s \in Strings : once[s] = table[s] - One(info.path = s)
  BY <1>1, DeleteCounts
<1> HIDE DEF once
<1>3. /\ delete_unique_str(once, info.class_path) \in [Strings -> Int]
      /\ \A s \in Strings :
           delete_unique_str(once, info.class_path)[s]
             = once[s] - One(info.class_path = s)
  BY <1>1, <1>2, DeleteCounts
<1>4. delete_info(table, info) = delete_unique_str(once, info.class_path)
  BY DEF delete_info, once
<1> QED BY <1>2, <1>3, <1>4

LEMMA HoldersAreFinite ==
  ASSUME TypeOK, NEW s
  PROVE  /\ IsFiniteSet(PathHolders(s)) /\ Cardinality(PathHolders(s)) \in Nat
         /\ IsFiniteSet(ClassHolders(s)) /\ Cardinality(ClassHolders(s)) \in Nat
<1>1. PathHolders(s) \subseteq Addresses /\ ClassHolders(s) \subseteq Addresses
  BY DEF TypeOK, PathHolders, ClassHolders
<1> QED BY <1>1, FS_Subset, FS_CardinalityType

-----------------------------------------------------------------------------
(* new_rbkit_allocation_info keeps the counts exact, for an address with   *)
(* an info of its own as for one without.                                  *)
LEMMA NewKeepsCounts ==
  ASSUME TypeOK, CountsAreExact,
         NEW a \in Addresses, NEW p \in Names, NEW c \in Names,
         new_rbkit_allocation_info(a, p, c)
  PROVE  /\ str_table' \in [Strings -> Int]
         /\ CountsAreExact'
         /\ DOMAIN object_table' \subseteq Addresses
         /\ object_table' \in [DOMAIN object_table' -> Info]
<1> DEFINE old == object_table[a]
<1> DEFINE had == a \in DOMAIN object_table
<1> DEFINE made1 == make_unique_str(str_table, p)
<1> DEFINE made == make_unique_str(made1, c)
<1>1. str_table \in [Strings -> Int]
  BY DEF TypeOK
<1>2. /\ made \in [Strings -> Int]
      /\ \A s \in Strings : made[s] = str_table[s] + One(p = s) + One(c = s)
  <2>1. /\ made1 \in [Strings -> Int]
        /\ \A s \in Strings : made1[s] = str_table[s] + One(p = s)
    BY <1>1, MakeCounts
  <2> HIDE DEF made1
  <2>2. /\ made \in [Strings -> Int]
        /\ \A s \in Strings : made[s] = made1[s] + One(c = s)
    BY <2>1, MakeCounts
  <2> QED BY <1>1, <2>1, <2>2 DEF One
<1>3. str_table' = IF had THEN delete_info(made, old) ELSE made
  BY DEF new_rbkit_allocation_info
<1> HIDE DEF made
<1>4. had => old \in Info
  BY DEF TypeOK
<1>5. /\ str_table' \in [Strings -> Int]
      /\ \A s \in Strings :
           str_table'[s] = str_table[s] + One(p = s) + One(c = s)
                             - One(had /\ old.path = s)
                             - One(had /\ old.class_path = s)
  <2>1. CASE had
    <3> HIDE DEF had, old
    <3>1. /\ str_table' \in [Strings -> Int]
          /\ \A s \in Strings :
               str_table'[s] = made[s] - One(old.path = s) - One(old.class_path = s)
      BY <1>2, <1>3, <1>4, <2>1, DeleteInfoCounts
    <3> QED BY <1>1, <1>2, <2>1, <3>1 DEF One
  <2>2. CASE ~had
    <3> HIDE DEF had, old
    <3> QED BY <1>1, <1>2, <1>3, <2>2 DEF One
  <2> QED BY <2>1, <2>2
<1>6. object_table' = [x \in DOMAIN object_table \cup {a} |->
                         IF x = a THEN [path |-> p, class_path |-> c]
                                  ELSE object_table[x]]
  BY DEF new_rbkit_allocation_info, st_insert
<1>7. ASSUME NEW s \in Strings
      PROVE  str_table'[s] = Cardinality(PathHolders(s)')
                               + Cardinality(ClassHolders(s)')
  <2>1. /\ PathHolders(s)' \ {a} = PathHolders(s) \ {a}
        /\ ClassHolders(s)' \ {a} = ClassHolders(s) \ {a}
    BY <1>6 DEF PathHolders, ClassHolders
  <2>2. /\ (a \in PathHolders(s)) <=> (had /\ old.path = s)
        /\ (a \in ClassHolders(s)) <=> (had /\ old.class_path = s)
        /\ (a \in PathHolders(s)') <=> (p = s)
        /\ (a \in ClassHolders(s)') <=> (c = s)
    BY <1>6 DEF PathHolders, ClassHolders
  <2>3. /\ IsFiniteSet(PathHolders(s)) /\ Cardinality(PathHolders(s)) \in Nat
        /\ IsFiniteSet(ClassHolders(s)) /\ Cardinality(ClassHolders(s)) \in Nat
    BY HoldersAreFinite
  <2>4. Cardinality(PathHolders(s)')
          = Cardinality(PathHolders(s)) - One(had /\ old.path = s) + One(p = s)
    <3> HIDE DEF had, old
    <3> QED BY <2>1, <2>2, <2>3, CardinalityOfChange DEF One
  <2>5. Cardinality(ClassHolders(s)')
          = Cardinality(ClassHolders(s)) - One(had /\ old.class_path = s) + One(c = s)
    <3> HIDE DEF had, old
    <3> QED BY <2>1, <2>2, <2>3, CardinalityOfChange DEF One
  <2>6. str_table[s] = Cardinality(PathHolders(s)) + Cardinality(ClassHolders(s))
    BY DEF CountsAreExact
  <2> HIDE DEF had, old
  <2> QED BY <1>5, <2>3, <2>4, <2>5, <2>6 DEF One
<1>8. CountsAreExact'
  BY <1>7 DEF CountsAreExact
<1>9. /\ DOMAIN object_table' \subseteq Addresses
      /\ object_table' \in [DOMAIN object_table' -> Info]
  BY <1>6 DEF TypeOK, Info
<1> QED BY <1>5, <1>8, <1>9

(* So does delete_rbkit_allocation_info. *)
LEMMA DeleteKeepsCounts ==
  ASSUME TypeOK, CountsAreExact, NEW a \in Addresses,
         a \in DOMAIN object_table, delete_rbkit_allocation_info(a)
  PROVE  /\ str_table' \in [Strings -> Int]
         /\ CountsAreExact'
         /\ DOMAIN object_table' \subseteq Addresses
         /\ object_table' \in [DOMAIN object_table' -> Info]
<1> DEFINE old == object_table[a]
<1>1. str_table \in [Strings -> Int] /\ old \in Info
  BY DEF TypeOK
<1>2. str_table' = delete_info(str_table, old)
  BY DEF delete_rbkit_allocation_info
<1>3. object_table' = [x \in DOMAIN object_table \ {a} |-> object_table[x]]
  BY DEF delete_rbkit_allocation_info, st_delete, Restrict
<1>4. /\ str_table' \in [Strings -> Int]
      /\ \A s \in Strings :
           str_table'[s] = str_table[s] - One(old.path = s) - One(old.class_path = s)
  BY <1>1, <1>2, DeleteInfoCounts
<1>5. ASSUME NEW s \in Strings
      PROVE  str_table'[s] = Cardinality(PathHolders(s)')
                               + Cardinality(ClassHolders(s)')
  <2>1. /\ PathHolders(s)' \ {a} = PathHolders(s) \ {a}
        /\ ClassHolders(s)' \ {a} = ClassHolders(s) \ {a}
        /\ a \notin PathHolders(s)' /\ a \notin ClassHolders(s)'
    BY <1>3 DEF PathHolders, ClassHolders
  <2>2. /\ (a \in PathHolders(s)) <=> (old.path = s)
        /\ (a \in ClassHolders(s)) <=> (old.class_path = s)
    BY DEF PathHolders, ClassHolders
  <2>3. /\ IsFiniteSet(PathHolders(s)) /\ Cardinality(PathHolders(s)) \in Nat
        /\ IsFiniteSet(ClassHolders(s)) /\ Cardinality(ClassHolders(s)) \in Nat
    BY HoldersAreFinite
  <2>4. Cardinality(PathHolders(s)')
          = Cardinality(PathHolders(s)) - One(old.path = s)
    <3> HIDE DEF old
    <3> QED BY <2>1, <2>2, <2>3, CardinalityOfChange DEF One
  <2>5. Cardinality(ClassHolders(s)')
          = Cardinality(ClassHolders(s)) - One(old.class_path = s)
    <3> HIDE DEF old
    <3> QED BY <2>1, <2>2, <2>3, CardinalityOfChange DEF One
  <2>6. str_table[s] = Cardinality(PathHolders(s)) + Cardinality(ClassHolders(s))
    BY DEF CountsAreExact
  <2> HIDE DEF old
  <2> QED BY <1>4, <2>3, <2>4, <2>5, <2>6 DEF One
<1>6. CountsAreExact'
  BY <1>5 DEF CountsAreExact
<1>7. /\ DOMAIN object_table' \subseteq Addresses
      /\ object_table' \in [DOMAIN object_table' -> Info]
  BY <1>3 DEF TypeOK
<1> QED BY <1>4, <1>6, <1>7

(* Exact counts are natural numbers. *)
LEMMA CountsAreNatNext ==
  ASSUME CountsAreExact', DOMAIN object_table' \subseteq Addresses,
         str_table' \in [Strings -> Int]
  PROVE  str_table' \in [Strings -> Nat]
<1>1. ASSUME NEW s \in Strings PROVE str_table'[s] \in Nat
  <2>1. PathHolders(s)' \subseteq Addresses /\ ClassHolders(s)' \subseteq Addresses
    BY DEF PathHolders, ClassHolders
  <2>2. Cardinality(PathHolders(s)') \in Nat /\ Cardinality(ClassHolders(s)') \in Nat
    BY <2>1, FS_Subset, FS_CardinalityType
  <2>3. str_table'[s] = Cardinality(PathHolders(s)') + Cardinality(ClassHolders(s)')
    BY DEF CountsAreExact
  <2> QED BY <2>2, <2>3
<1> QED BY <1>1

-----------------------------------------------------------------------------
(* The part of the invariant about which object an info describes depends  *)
(* on the tables' domains only.                                            *)
LEMMA NewObjectKeepsInv ==
  ASSUME Inv, NEW a \in Addresses, NEW p \in Names, NEW c \in Names,
         NewObject(a, p, c)
  PROVE  Inv'
<1>1. /\ heap' = [x \in DOMAIN heap \cup {a} |-> IF x = a THEN p ELSE heap[x]]
      /\ a \notin DOMAIN heap
      /\ UNCHANGED <<running, enabled>>
  BY DEF NewObject, st_insert
<1>2. DOMAIN heap' \subseteq Addresses /\ heap' \in [DOMAIN heap' -> Names]
  BY <1>1 DEF Inv, TypeOK
<1>3. CASE enabled
  <2>1. new_rbkit_allocation_info(a, p, c) /\ missed' = missed \ {a}
    BY <1>3 DEF NewObject
  <2>2. /\ str_table' \in [Strings -> Int]
        /\ CountsAreExact'
        /\ DOMAIN object_table' \subseteq Addresses
        /\ object_table' \in [DOMAIN object_table' -> Info]
    BY <2>1, NewKeepsCounts DEF Inv
  <2>3. str_table' \in [Strings -> Nat]
    BY <2>2, CountsAreNatNext
  <2>4. CurrentUnlessMissed'
    <3>1. object_table' = [x \in DOMAIN object_table \cup {a} |->
                             IF x = a THEN [path |-> p, class_path |-> c]
                                      ELSE object_table[x]]
      BY <2>1 DEF new_rbkit_allocation_info, st_insert
    <3> QED BY <1>1, <2>1, <3>1 DEF Inv, CurrentUnlessMissed
  <2> QED BY <1>1, <1>2, <1>3, <2>1, <2>2, <2>3, <2>4 DEF Inv, TypeOK, IdleWhenStopped
<1>4. CASE ~enabled
  <2>1. UNCHANGED <<object_table, str_table, missed>>
    BY <1>4 DEF NewObject
  <2>2. CountsAreExact'
    BY <2>1 DEF Inv, CountsAreExact, PathHolders, ClassHolders
  <2>3. CurrentUnlessMissed'
    BY <1>1, <2>1 DEF Inv, CurrentUnlessMissed
  <2> QED BY <1>1, <1>2, <2>1, <2>2, <2>3 DEF Inv, TypeOK, IdleWhenStopped
<1> QED BY <1>3, <1>4 DEF Inv, TypeOK

LEMMA NewObjectNamingClassKeepsInv ==
  ASSUME Inv, NEW a \in Addresses, NEW p \in Names, NEW c \in Names,
         NewObjectNamingClass(a, p, c)
  PROVE  Inv'
<1>1. PICK garbage \in SUBSET DOMAIN heap, name \in SUBSET Addresses :
        /\ name \cap ((DOMAIN heap \ garbage) \cup {a}) = {}
        /\ heap' = [x \in (DOMAIN heap \ garbage) \cup name \cup {a} |->
                      IF x \in DOMAIN heap \ garbage THEN heap[x] ELSE p]
        /\ missed' = (missed \ {a}) \cup garbage
  BY DEF NewObjectNamingClass
<1>2. /\ enabled /\ a \notin DOMAIN heap
      /\ new_rbkit_allocation_info(a, p, c)
      /\ UNCHANGED <<running, enabled>>
  BY DEF NewObjectNamingClass
<1>3. /\ DOMAIN heap' \subseteq Addresses /\ heap' \in [DOMAIN heap' -> Names]
      /\ missed' \subseteq Addresses
  BY <1>1 DEF Inv, TypeOK
<1>4. /\ str_table' \in [Strings -> Int]
      /\ CountsAreExact'
      /\ DOMAIN object_table' \subseteq Addresses
      /\ object_table' \in [DOMAIN object_table' -> Info]
  BY <1>2, NewKeepsCounts DEF Inv
<1>5. str_table' \in [Strings -> Nat]
  BY <1>4, CountsAreNatNext
<1>6. CurrentUnlessMissed'
  <2>1. object_table' = [x \in DOMAIN object_table \cup {a} |->
                           IF x = a THEN [path |-> p, class_path |-> c]
                                    ELSE object_table[x]]
    BY <1>2 DEF new_rbkit_allocation_info, st_insert
  <2>2. \A x \in DOMAIN object_table \ missed :
          x \in DOMAIN heap /\ object_table[x].path = heap[x]
    BY DEF Inv, CurrentUnlessMissed
  <2> QED BY <1>1, <1>2, <2>1, <2>2 DEF CurrentUnlessMissed
<1> QED BY <1>2, <1>3, <1>4, <1>5, <1>6 DEF Inv, TypeOK, IdleWhenStopped

LEMMA FreeObjectKeepsInv ==
  ASSUME Inv, NEW a \in Addresses, FreeObject(a)
  PROVE  Inv'
<1>1. /\ heap' = [x \in DOMAIN heap \ {a} |-> heap[x]]
      /\ UNCHANGED <<running, enabled>>
      /\ missed \subseteq missed' /\ missed' \subseteq missed \cup {a}
  BY DEF FreeObject, st_delete, Restrict
<1>2. /\ DOMAIN heap' \subseteq Addresses /\ heap' \in [DOMAIN heap' -> Names]
      /\ missed' \subseteq Addresses
  BY <1>1 DEF Inv, TypeOK
<1>3. CASE enabled /\ a \in DOMAIN object_table
  <2>1. delete_rbkit_allocation_info(a)
    BY <1>3 DEF FreeObject
  <2>2. /\ str_table' \in [Strings -> Int]
        /\ CountsAreExact'
        /\ DOMAIN object_table' \subseteq Addresses
        /\ object_table' \in [DOMAIN object_table' -> Info]
    BY <1>3, <2>1, DeleteKeepsCounts DEF Inv
  <2>3. str_table' \in [Strings -> Nat]
    BY <2>2, CountsAreNatNext
  <2>4. CurrentUnlessMissed'
    <3>1. object_table' = [x \in DOMAIN object_table \ {a} |-> object_table[x]]
      BY <1>3, <2>1 DEF delete_rbkit_allocation_info, st_delete, Restrict
    <3> QED BY <1>1, <3>1 DEF Inv, CurrentUnlessMissed
  <2> QED BY <1>1, <1>2, <1>3, <2>2, <2>3, <2>4 DEF Inv, TypeOK, IdleWhenStopped
<1>4. CASE ~(enabled /\ a \in DOMAIN object_table)
  <2>1. UNCHANGED <<object_table, str_table>>
    BY <1>4 DEF FreeObject, delete_rbkit_allocation_info
  <2>2. CountsAreExact'
    BY <2>1 DEF Inv, CountsAreExact, PathHolders, ClassHolders
  <2>3. a \in DOMAIN object_table => a \in missed'
    BY <1>4 DEF FreeObject, Inv, IdleWhenStopped
  <2>4. CurrentUnlessMissed'
    BY <1>1, <2>1, <2>3 DEF Inv, CurrentUnlessMissed
  <2> QED BY <1>1, <1>2, <2>1, <2>2, <2>4 DEF Inv, TypeOK, IdleWhenStopped
<1> QED BY <1>3, <1>4

(* Starting and stopping the server leave empty tables. *)
LEMMA EmptyTablesKeepInv ==
  ASSUME Inv, object_table' = [a \in {} |-> NULL], str_table' = NoStrings,
         running' \in BOOLEAN, enabled' \in BOOLEAN, ~running' => ~enabled',
         heap' = heap, missed' \subseteq Addresses
  PROVE  Inv'
<1>1. ASSUME NEW s \in Strings
      PROVE  PathHolders(s)' = {} /\ ClassHolders(s)' = {}
  BY DEF PathHolders, ClassHolders
<1>2. Cardinality({}) = 0
  BY FS_EmptySet
<1>3. ASSUME NEW s \in Strings
      PROVE  str_table'[s] = Cardinality(PathHolders(s)') + Cardinality(ClassHolders(s)')
  <2>1. /\ str_table'[s] = 0
        /\ Cardinality(PathHolders(s)') = 0
        /\ Cardinality(ClassHolders(s)') = 0
    BY <1>1, <1>2 DEF NoStrings
  <2> QED BY <2>1
<1>3a. CountsAreExact'
  BY <1>3 DEF CountsAreExact
<1>4. TypeOK'
  BY DEF Inv, TypeOK, NoStrings
<1>5. CurrentUnlessMissed' /\ IdleWhenStopped'
  BY DEF CurrentUnlessMissed, IdleWhenStopped
<1> QED BY <1>3a, <1>4, <1>5 DEF Inv

LEMMA InitHasInv == Init => Inv
<1> SUFFICES ASSUME Init PROVE Inv
  OBVIOUS
<1>1. ASSUME NEW s \in Strings
      PROVE  PathHolders(s) = {} /\ ClassHolders(s) = {}
  BY DEF PathHolders, ClassHolders, Init
<1>2. Cardinality({}) = 0
  BY FS_EmptySet
<1>3. ASSUME NEW s \in Strings
      PROVE  str_table[s] = Cardinality(PathHolders(s)) + Cardinality(ClassHolders(s))
  <2>1. /\ str_table[s] = 0
        /\ Cardinality(PathHolders(s)) = 0
        /\ Cardinality(ClassHolders(s)) = 0
    BY <1>1, <1>2 DEF NoStrings, Init
  <2> QED BY <2>1
<1>3a. CountsAreExact
  BY <1>3 DEF CountsAreExact
<1>4. TypeOK
  BY DEF Init, TypeOK, NoStrings
<1>5. CurrentUnlessMissed /\ IdleWhenStopped
  BY DEF Init, CurrentUnlessMissed, IdleWhenStopped
<1> QED BY <1>3a, <1>4, <1>5 DEF Inv

LEMMA NextKeepsInv == Inv /\ [Next]_vars => Inv'
<1> SUFFICES ASSUME Inv, [Next]_vars PROVE Inv'
  OBVIOUS
<1>1. ASSUME NEW a \in Addresses, NEW p \in Names, NEW c \in Names,
             NewObject(a, p, c)
      PROVE  Inv'
  BY <1>1, NewObjectKeepsInv
<1>1a. ASSUME NEW a \in Addresses, NEW p \in Names, NEW c \in Names,
              NewObjectNamingClass(a, p, c)
       PROVE  Inv'
  BY <1>1a, NewObjectNamingClassKeepsInv
<1>2. ASSUME NEW a \in Addresses, FreeObject(a) PROVE Inv'
  BY <1>2, FreeObjectKeepsInv
<1>3. CASE start_stat_tracing
  BY <1>3 DEF start_stat_tracing, Inv, TypeOK, CountsAreExact, PathHolders,
       ClassHolders, CurrentUnlessMissed, IdleWhenStopped
<1>4. CASE stop_stat_tracing
  BY <1>4 DEF stop_stat_tracing, Inv, TypeOK, CountsAreExact, PathHolders,
       ClassHolders, CurrentUnlessMissed, IdleWhenStopped
<1>5. CASE start_stat_server
  BY <1>5, EmptyTablesKeepInv DEF start_stat_server, Inv, TypeOK
<1>6. CASE stop_stat_server
  BY <1>6, EmptyTablesKeepInv DEF stop_stat_server, Inv, TypeOK
<1>7. CASE UNCHANGED vars
  BY <1>7 DEF vars, Inv, TypeOK, CountsAreExact, PathHolders, ClassHolders,
       CurrentUnlessMissed, IdleWhenStopped
<1> QED BY <1>1, <1>1a, <1>2, <1>3, <1>4, <1>5, <1>6, <1>7 DEF Next

LEMMA AlwaysInv == Spec => []Inv
<1> QED BY InitHasInv, NextKeepsInv, PTL DEF Spec

-----------------------------------------------------------------------------
(* The tables always have their types; in particular no reference count    *)
(* ever goes below zero, that is, delete_unique_str never looks up a       *)
(* string that is not in the table.                                        *)
THEOREM TypeCorrect == Spec => []TypeOK
<1>1. Inv => TypeOK
  BY DEF Inv
<1> QED BY <1>1, AlwaysInv, PTL

(* Each name's reference count is exactly the number of pointers to it     *)
(* from allocation infos, so it is freed with the last one and not before. *)
THEOREM ReferenceCountsAreExact == Spec => []CountsAreExact
<1>1. Inv => CountsAreExact
  BY DEF Inv
<1> QED BY <1>1, AlwaysInv, PTL

(* The allocation info at an address is about the object that lives there, *)
(* except where a free went unseen: tracing was off, or newobj_i running.  *)
THEOREM InfoIsCurrentUnlessMissed == Spec => []CurrentUnlessMissed
<1>1. Inv => CurrentUnlessMissed
  BY DEF Inv
<1> QED BY <1>1, AlwaysInv, PTL

-----------------------------------------------------------------------------
(* HeapDump: WalkSpec, with the tables of AllocationInfo under it.         *)

(* Between two dumps nothing of a dump is left. *)
NothingBetweenDumps ==
  phase = "idle" =>
    visited = {} /\ entries = NoEntries /\ gone = {} /\ dangling = {}

(* The walk has reached the object whose class is being named, and it has  *)
(* no entry yet.                                                           *)
NamedIsNew == phase = "naming" => current \in visited \ DOMAIN entries

(* That no survivor's file dangles rests on the counts of AllocationInfo:  *)
(* a name is not freed while an info points to it.                         *)
WalkInv ==
  /\ Inv
  /\ WalkTypeOK
  /\ DanglingOnlyIfCollected
  /\ SurvivorsKeepTheirFile
  /\ NothingBetweenDumps
  /\ NamedIsNew

USE NullIsNoAddress

-----------------------------------------------------------------------------
(* A name some info points to is in the string table. *)
LEMMA HeldNameIsKept ==
  ASSUME Inv', NEW x, x \in DOMAIN object_table',
         NEW s \in Strings, object_table'[x].path = s
  PROVE  str_table'[s] > 0
<1>1. /\ PathHolders(s)' \subseteq Addresses /\ ClassHolders(s)' \subseteq Addresses
      /\ x \in PathHolders(s)'
  BY DEF Inv, TypeOK, PathHolders, ClassHolders
<1>2. /\ IsFiniteSet(PathHolders(s)')
      /\ Cardinality(PathHolders(s)') \in Nat
      /\ Cardinality(ClassHolders(s)') \in Nat
  BY <1>1, FS_Subset, FS_CardinalityType
<1>3. Cardinality(PathHolders(s)') # 0
  BY <1>1, <1>2, FS_EmptySet
<1>4. str_table'[s] = Cardinality(PathHolders(s)') + Cardinality(ClassHolders(s)')
  BY DEF Inv, CountsAreExact
<1> QED BY <1>2, <1>3, <1>4

(* An object that lives on through a step with the info it had: what its   *)
(* entry points to is not freed by the step, and is still its file.        *)
LEMMA SurvivorIsSafe ==
  ASSUME WalkInv, Inv', NEW x \in DOMAIN entries \ gone,
         x \in DOMAIN heap', FileIn(object_table', x) = FileIn(object_table, x)
  PROVE  /\ <<x, "file">> \notin FilesFreed
         /\ entries[x].file = FileIn(object_table', x)
         /\ x \notin missed' => entries[x].file \in {NULL, heap'[x]}
<1>1. entries[x].file = FileIn(object_table', x)
  BY DEF WalkInv, SurvivorsKeepTheirFile, DumpedFile
<1>2. <<x, "file">> \notin FilesFreed
  <2> SUFFICES ASSUME entries[x].file # NULL, str_table'[entries[x].file] = 0
               PROVE  FALSE
    BY DEF FilesFreed
  <2>1. x \in DOMAIN object_table' /\ entries[x].file = object_table'[x].path
    BY <1>1 DEF FileIn
  <2>2. entries[x].file \in Strings
    BY DEF WalkInv, WalkTypeOK, Entry, Names
  <2>3. str_table'[entries[x].file] > 0
    BY <2>1, <2>2, HeldNameIsKept
  <2> QED BY <2>3
<1>3. x \notin missed' => entries[x].file \in {NULL, heap'[x]}
  BY <1>1 DEF FileIn, Inv, CurrentUnlessMissed
<1> QED BY <1>1, <1>2, <1>3

-----------------------------------------------------------------------------
(* Steps that leave the heap and its tables alone. *)
LEMMA UnchangedKeepsInv == Inv /\ UNCHANGED vars => Inv'
BY NextKeepsInv

LEMMA TraceKeepsWalkInv == WalkInv /\ Trace => WalkInv'
<1> SUFFICES ASSUME WalkInv, Trace PROVE WalkInv'
  OBVIOUS
<1>1. Inv'
  BY NextKeepsInv DEF WalkInv, Trace
<1>2. UNCHANGED walk /\ phase = "idle" /\ DOMAIN entries = {} /\ gone = {} /\ dangling = {}
  BY DEF WalkInv, Trace, NothingBetweenDumps, NoEntries
<1> QED
  BY <1>1, <1>2 DEF WalkInv, WalkTypeOK, Inv, walk, DanglingOnlyIfCollected,
    SurvivorsKeepTheirFile, NothingBetweenDumps, NamedIsNew

LEMMA GetObjectDumpKeepsWalkInv == WalkInv /\ get_object_dump => WalkInv'
<1> SUFFICES ASSUME WalkInv, get_object_dump PROVE WalkInv'
  OBVIOUS
<1>1. Inv'
  BY UnchangedKeepsInv DEF WalkInv, get_object_dump
<1> QED
  BY <1>1 DEF WalkInv, WalkTypeOK, Inv, get_object_dump, vars,
    DanglingOnlyIfCollected, SurvivorsKeepTheirFile, NothingBetweenDumps,
    NamedIsNew, DumpedFile

LEMMA PassFreeSlotKeepsWalkInv ==
  ASSUME WalkInv, NEW a \in Addresses, PassFreeSlot(a)
  PROVE  WalkInv'
<1>1. Inv'
  BY UnchangedKeepsInv DEF WalkInv, PassFreeSlot
<1> QED
  BY <1>1 DEF WalkInv, WalkTypeOK, Inv, PassFreeSlot, vars,
    DanglingOnlyIfCollected, SurvivorsKeepTheirFile, NothingBetweenDumps,
    NamedIsNew, DumpedFile

(* The new entry is that of an object no other entry and no pointer of the *)
(* dump is about.                                                          *)
LEMMA DumpObjectKeepsWalkInv ==
  ASSUME WalkInv, NEW a \in Addresses, DumpObject(a)
  PROVE  WalkInv'
<1>1. Inv'
  BY UnchangedKeepsInv DEF WalkInv, DumpObject
<1>2. /\ phase = "walking" /\ a \in DOMAIN heap \ visited
      /\ visited' = visited \cup {a}
      /\ UNCHANGED <<object_table, str_table, running, enabled, heap, missed>>
      /\ UNCHANGED <<phase, current, gone, dangling>>
  BY DEF DumpObject, vars
<1>3. entries' = [x \in DOMAIN entries \cup {a} |->
                    IF x = a THEN [file |-> DumpedFile(a), class_name |-> NULL]
                             ELSE entries[x]]
  BY DEF DumpObject, st_insert
<1>4. a \notin DOMAIN entries /\ gone \subseteq DOMAIN entries
  BY <1>2 DEF WalkInv, WalkTypeOK
<1>5. DumpedFile(a) \in Names
  BY DEF WalkInv, Inv, TypeOK, DumpedFile, FileIn, Info, Names
<1>6. WalkTypeOK'
  BY <1>1, <1>2, <1>3, <1>5 DEF WalkInv, WalkTypeOK, Inv, Entry
<1>7. DanglingOnlyIfCollected'
  BY <1>2, <1>3, <1>4 DEF WalkInv, WalkTypeOK, DanglingOnlyIfCollected
<1>8. SurvivorsKeepTheirFile'
  <2> SUFFICES ASSUME NEW x \in DOMAIN entries' \ gone'
               PROVE  /\ x \in DOMAIN heap'
                      /\ entries'[x].file = DumpedFile(x)'
                      /\ x \notin missed' => entries'[x].file \in {NULL, heap'[x]}
    BY DEF SurvivorsKeepTheirFile
  <2>1. DumpedFile(x)' = DumpedFile(x)
    BY <1>2 DEF DumpedFile
  <2>2. CASE x = a
    BY <1>1, <1>2, <1>3, <2>1, <2>2 DEF DumpedFile, FileIn, Inv, CurrentUnlessMissed
  <2>3. CASE x # a
    BY <1>2, <1>3, <2>1, <2>3 DEF WalkInv, SurvivorsKeepTheirFile
  <2> QED BY <2>2, <2>3
<1> QED
  BY <1>1, <1>2, <1>6, <1>7, <1>8 DEF WalkInv, NothingBetweenDumps, NamedIsNew

LEMMA NameClassKeepsWalkInv ==
  ASSUME WalkInv, NEW a \in Addresses, NameClass(a)
  PROVE  WalkInv'
<1>1. Inv'
  BY UnchangedKeepsInv DEF WalkInv, NameClass
<1> QED
  BY <1>1 DEF WalkInv, WalkTypeOK, Inv, NameClass, vars,
    DanglingOnlyIfCollected, SurvivorsKeepTheirFile, NothingBetweenDumps,
    NamedIsNew, DumpedFile

-----------------------------------------------------------------------------
(* Steps in which the heap changes under the walk. *)
LEMMA CollectGarbageKeepsWalkInv ==
  ASSUME WalkInv, NEW a \in Addresses, CollectGarbage(a)
  PROVE  WalkInv'
<1>1. FreeObject(a)
  BY DEF CollectGarbage
<1>2. Inv'
  BY <1>1, FreeObjectKeepsInv DEF WalkInv
<1>3. /\ phase = "naming" /\ a # current
      /\ gone' = gone \cup ({a} \cap DOMAIN entries)
      /\ dangling' = dangling \cup FilesFreed \cup NamesFreed(a)
      /\ UNCHANGED <<phase, visited, current, entries>>
  BY DEF CollectGarbage
<1>4. DOMAIN heap' = DOMAIN heap \ {a}
  BY <1>1 DEF FreeObject, st_delete, Restrict
<1>5. \A x : x # a => FileIn(object_table', x) = FileIn(object_table, x)
  BY <1>1 DEF FreeObject, delete_rbkit_allocation_info, st_delete, Restrict, FileIn
<1>6. \A x \in DOMAIN entries' \ gone' :
        x \in DOMAIN entries \ gone /\ x # a /\ x \in DOMAIN heap'
  BY <1>3, <1>4 DEF WalkInv, SurvivorsKeepTheirFile
<1>7. WalkTypeOK'
  <2>1. dangling' \subseteq (DOMAIN entries') \X {"file", "class_name"}
    BY <1>3 DEF WalkInv, WalkTypeOK, FilesFreed, NamesFreed
  <2>2. current' \in IF phase' = "naming" THEN DOMAIN heap' ELSE {NULL}
    BY <1>3, <1>4 DEF WalkInv, WalkTypeOK
  <2> QED BY <1>2, <1>3, <2>1, <2>2 DEF WalkInv, WalkTypeOK, Inv
<1>8. DanglingOnlyIfCollected'
  <2> SUFFICES ASSUME NEW x \in DOMAIN entries'
               PROVE  /\ <<x, "file">> \in dangling' => x \in gone'
                      /\ <<x, "class_name">> \in dangling' => entries'[x].class_name # NULL
    BY DEF DanglingOnlyIfCollected
  <2>1. ASSUME <<x, "file">> \in dangling', x \notin gone' PROVE FALSE
    <3>1. <<x, "file">> \notin FilesFreed
      BY <1>2, <1>5, <1>6, <2>1, SurvivorIsSafe
    <3>2. <<x, "file">> \notin NamesFreed(a)
      BY DEF NamesFreed
    <3> QED BY <1>3, <2>1, <3>1, <3>2 DEF WalkInv, DanglingOnlyIfCollected
  <2>2. ASSUME <<x, "class_name">> \in dangling' PROVE entries'[x].class_name # NULL
    <3>1. <<x, "class_name">> \notin FilesFreed
      BY DEF FilesFreed
    <3>2. <<x, "class_name">> \in NamesFreed(a) => entries[x].class_name # NULL
      BY DEF NamesFreed
    <3> QED BY <1>3, <2>2, <3>1, <3>2 DEF WalkInv, DanglingOnlyIfCollected
  <2> QED BY <2>1, <2>2
<1>9. SurvivorsKeepTheirFile'
  BY <1>2, <1>3, <1>5, <1>6, SurvivorIsSafe DEF SurvivorsKeepTheirFile, DumpedFile
<1> QED
  BY <1>2, <1>3, <1>7, <1>8, <1>9 DEF WalkInv, NothingBetweenDumps, NamedIsNew

(* The String made takes a slot in which no survivor lives. *)
LEMMA NameMadeKeepsWalkInv == WalkInv /\ NameMade => WalkInv'
<1> SUFFICES ASSUME WalkInv, NameMade PROVE WalkInv'
  OBVIOUS
<1>1. PICK name \in Addresses \cup {NULL} :
        /\ \/ /\ name # NULL
              /\ \E path, class_path \in Names : NewObject(name, path, class_path)
           \/ /\ name = NULL
              /\ UNCHANGED vars
        /\ entries' = st_insert(entries, current,
                        [file |-> FileIn(object_table', current), class_name |-> name])
  BY DEF NameMade
<1>2. /\ phase = "naming" /\ phase' = "walking" /\ current' = NULL
      /\ dangling' = dangling \cup FilesFreed
      /\ UNCHANGED <<visited, gone>>
  BY DEF NameMade
<1>3. /\ Inv'
      /\ name \notin DOMAIN heap
      /\ DOMAIN heap \subseteq DOMAIN heap'
      /\ \A x : x # name => FileIn(object_table', x) = FileIn(object_table, x)
  <2>1. CASE name = NULL
    BY <1>1, <2>1, UnchangedKeepsInv DEF WalkInv, Inv, TypeOK, vars
  <2>2. CASE name # NULL
    <3>1. PICK path \in Names, class_path \in Names : NewObject(name, path, class_path)
      BY <1>1, <2>2
    <3>2. Inv'
      BY <3>1, <2>2, NewObjectKeepsInv DEF WalkInv
    <3>3. name \notin DOMAIN heap /\ DOMAIN heap' = DOMAIN heap \cup {name}
      BY <3>1 DEF NewObject, st_insert
    <3>4. \A x : x # name => FileIn(object_table', x) = FileIn(object_table, x)
      BY <3>1 DEF NewObject, new_rbkit_allocation_info, st_insert, FileIn
    <3> QED BY <3>2, <3>3, <3>4
  <2> QED BY <2>1, <2>2
<1>4. entries' = [x \in DOMAIN entries \cup {current} |->
                    IF x = current
                      THEN [file |-> FileIn(object_table', current), class_name |-> name]
                      ELSE entries[x]]
  BY <1>1 DEF st_insert
<1>5. /\ current \in DOMAIN heap /\ current \in visited \ DOMAIN entries
      /\ current # name
      /\ gone \subseteq DOMAIN entries
  BY <1>2, <1>3 DEF WalkInv, WalkTypeOK, NamedIsNew
<1>6. \A x \in DOMAIN entries \ gone : x # name /\ x \in DOMAIN heap'
  BY <1>3 DEF WalkInv, SurvivorsKeepTheirFile
<1>7. WalkTypeOK'
  <2>1. FileIn(object_table', current) \in Names
    BY <1>3 DEF Inv, TypeOK, FileIn, Info, Names
  <2>2. dangling' \subseteq (DOMAIN entries') \X {"file", "class_name"}
    BY <1>2, <1>4 DEF WalkInv, WalkTypeOK, FilesFreed
  <2>3. entries' \in [DOMAIN entries' -> Entry]
    BY <1>4, <2>1 DEF WalkInv, WalkTypeOK, Entry
  <2>4. current \in visited
    BY <1>2 DEF WalkInv, WalkTypeOK, NamedIsNew
  <2> QED BY <1>2, <1>3, <1>4, <2>2, <2>3, <2>4 DEF WalkInv, WalkTypeOK, Inv
<1>8. DanglingOnlyIfCollected'
  <2> SUFFICES ASSUME NEW x \in DOMAIN entries'
               PROVE  /\ <<x, "file">> \in dangling' => x \in gone'
                      /\ <<x, "class_name">> \in dangling' => entries'[x].class_name # NULL
    BY DEF DanglingOnlyIfCollected
  <2>1. CASE x = current
    BY <1>2, <1>5, <2>1 DEF WalkInv, WalkTypeOK, FilesFreed
  <2>2. CASE x # current
    <3>1. x \in DOMAIN entries /\ entries'[x] = entries[x]
      BY <1>4, <2>2
    <3>2. x \notin gone => <<x, "file">> \notin FilesFreed
      BY <1>3, <1>6, <3>1, SurvivorIsSafe
    <3>3. <<x, "class_name">> \notin FilesFreed
      BY DEF FilesFreed
    <3> QED BY <1>2, <3>1, <3>2, <3>3 DEF WalkInv, DanglingOnlyIfCollected
  <2> QED BY <2>1, <2>2
<1>9. SurvivorsKeepTheirFile'
  <2> SUFFICES ASSUME NEW x \in DOMAIN entries' \ gone'
               PROVE  /\ x \in DOMAIN heap'
                      /\ entries'[x].file = FileIn(object_table', x)
                      /\ x \notin missed' => entries'[x].file \in {NULL, heap'[x]}
    BY DEF SurvivorsKeepTheirFile, DumpedFile
  <2>1. CASE x = current
    <3>1. entries'[x].file = FileIn(object_table', x) /\ x \in DOMAIN heap'
      BY <1>3, <1>4, <1>5, <2>1
    <3> QED BY <1>3, <3>1 DEF FileIn, Inv, CurrentUnlessMissed
  <2>2. CASE x # current
    <3>1. x \in DOMAIN entries \ gone /\ entries'[x] = entries[x]
      BY <1>2, <1>4, <2>2
    <3> QED BY <1>3, <1>6, <3>1, SurvivorIsSafe
  <2> QED BY <2>1, <2>2
<1> QED
  BY <1>2, <1>3, <1>7, <1>8, <1>9 DEF WalkInv, NothingBetweenDumps, NamedIsNew

LEMMA PackEntriesKeepsWalkInv == WalkInv /\ PackEntries => WalkInv'
<1> SUFFICES ASSUME WalkInv, PackEntries PROVE WalkInv'
  OBVIOUS
<1>1. Inv'
  BY UnchangedKeepsInv DEF WalkInv, PackEntries
<1>2. DOMAIN NoEntries = {}
  BY DEF NoEntries
<1> QED
  BY <1>1, <1>2 DEF WalkInv, WalkTypeOK, Inv, PackEntries,
    DanglingOnlyIfCollected, SurvivorsKeepTheirFile, NothingBetweenDumps,
    NamedIsNew

-----------------------------------------------------------------------------
LEMMA WalkInitHasWalkInv == WalkInit => WalkInv
<1> SUFFICES ASSUME WalkInit PROVE WalkInv
  OBVIOUS
<1>1. Inv
  BY InitHasInv DEF WalkInit
<1>2. DOMAIN NoEntries = {}
  BY DEF NoEntries
<1> QED
  BY <1>1, <1>2 DEF WalkInv, WalkTypeOK, Inv, WalkInit,
    DanglingOnlyIfCollected, SurvivorsKeepTheirFile, NothingBetweenDumps,
    NamedIsNew

LEMMA WalkNextKeepsWalkInv == WalkInv /\ [WalkNext]_<<vars, walk>> => WalkInv'
<1> SUFFICES ASSUME WalkInv, [WalkNext]_<<vars, walk>> PROVE WalkInv'
  OBVIOUS
<1>1. CASE Trace
  BY <1>1, TraceKeepsWalkInv
<1>2. CASE get_object_dump
  BY <1>2, GetObjectDumpKeepsWalkInv
<1>3. ASSUME NEW a \in Addresses, PassFreeSlot(a) PROVE WalkInv'
  BY <1>3, PassFreeSlotKeepsWalkInv
<1>4. ASSUME NEW a \in Addresses, DumpObject(a) PROVE WalkInv'
  BY <1>4, DumpObjectKeepsWalkInv
<1>5. ASSUME NEW a \in Addresses, NameClass(a) PROVE WalkInv'
  BY <1>5, NameClassKeepsWalkInv
<1>6. ASSUME NEW a \in Addresses, CollectGarbage(a) PROVE WalkInv'
  BY <1>6, CollectGarbageKeepsWalkInv
<1>7. CASE NameMade
  BY <1>7, NameMadeKeepsWalkInv
<1>8. CASE PackEntries
  BY <1>8, PackEntriesKeepsWalkInv
<1>9. CASE UNCHANGED <<vars, walk>>
  <2>1. Inv'
    BY <1>9, UnchangedKeepsInv DEF WalkInv
  <2> QED
    BY <1>9, <2>1 DEF WalkInv, WalkTypeOK, Inv, vars, walk,
      DanglingOnlyIfCollected, SurvivorsKeepTheirFile, NothingBetweenDumps,
      NamedIsNew, DumpedFile
<1> QED
  BY <1>1, <1>2, <1>3, <1>4, <1>5, <1>6, <1>7, <1>8, <1>9 DEF WalkNext

LEMMA AlwaysWalkInv == WalkSpec => []WalkInv
<1> QED BY WalkInitHasWalkInv, WalkNextKeepsWalkInv, PTL DEF WalkSpec

-----------------------------------------------------------------------------
(* The walk's variables keep their types, with the garbage collector at    *)
(* work: the object whose class is being named is never freed, and every   *)
(* entry, collected or dangling pointer is of a slot the walk has passed.  *)
THEOREM WalkTypeCorrect == WalkSpec => []WalkTypeOK
<1>1. WalkInv => WalkTypeOK
  BY DEF WalkInv
<1> QED BY <1>1, AlwaysWalkInv, PTL

(* Garbage collections during the walk are the only reason for which       *)
(* get_object_dump may pack a freed file name, and only of an object that  *)
(* was itself collected after it was dumped; or a freed class name, and    *)
(* only one that rb_class2name made up for the dump.                       *)
THEOREM DumpDanglesOnlyIfCollected == WalkSpec => []DanglingOnlyIfCollected
<1>1. WalkInv => DanglingOnlyIfCollected
  BY DEF WalkInv
<1> QED BY <1>1, AlwaysWalkInv, PTL

(* An object that outlives the walk is dumped with the file its allocation *)
(* info still holds when the dump is packed.                               *)
THEOREM SurvivorsAreDumpedRight == WalkSpec => []SurvivorsKeepTheirFile
<1>1. WalkInv => SurvivorsKeepTheirFile
  BY DEF WalkInv
<1> QED BY <1>1, AlwaysWalkInv, PTL

(* A dump leaves the tables of AllocationInfo as it found them promising:  *)
(* counts stay exact and infos current, whatever its walk collects.        *)
THEOREM WalkKeepsTables == WalkSpec => [](CountsAreExact /\ CurrentUnlessMissed)
<1>1. WalkInv => CountsAreExact /\ CurrentUnlessMissed
  BY DEF WalkInv, Inv
<1> QED BY <1>1, AlwaysWalkInv, PTL
=============================================================================
