--------------------------- MODULE AllocationInfo ---------------------------
(***************************************************************************)
(* ext/rbkit_allocation_info.c: where each traced object was allocated.    *)
(* object_table maps an object's address to its allocation info; the file  *)
(* and class names the infos point to are kept once each in str_table,     *)
(* with the number of pointers to them, and freed with the last one.       *)
(*                                                                         *)
(* The Ruby heap is modelled as far as the tables depend on it: an address *)
(* is free or holds an object, and may hold another one later.  Rbkit      *)
(* hears of it when its tracepoints are enabled (start_stat_tracing and    *)
(* stop_stat_tracing in ext/rbkit_server.c), except for what happens while *)
(* one of its hooks runs: the VM does not nest internal hooks.             *)
(* Line, method id and generation are set like path and are left out.      *)
(***************************************************************************)
EXTENDS Integers, FiniteSets, Functions

CONSTANTS
  Addresses,      \* slots of the Ruby heap
  Strings,        \* contents of file names and class names
  NULL            \* no path, or no class: the C null pointer

ASSUME AddressesAreFinite == IsFiniteSet(Addresses)
ASSUME NullIsNoString == NULL \notin Strings

VARIABLES
  object_table,   \* [address -> info], partial
  str_table,      \* [string -> reference count], 0 when not in the table
  running,        \* between start_stat_server and stop_stat_server
  enabled,        \* are the tracepoints enabled?
  heap,           \* external: [address -> file that allocated], partial
  missed          \* history: addresses freed without freeobj_i being called

vars == <<object_table, str_table, running, enabled, heap, missed>>

-----------------------------------------------------------------------------
Names == Strings \cup {NULL}

Info == [path : Names, class_path : Names]

NoStrings == [s \in Strings |-> 0]

(* Variant: only the first use of a string is counted. *)
make_unique_str_counts_once(table, s) ==
  IF s = NULL THEN table ELSE [table EXCEPT ![s] = IF @ = 0 THEN 1 ELSE @]

(* make_unique_str: the string's key is shared, or copied on first use. *)
make_unique_str(table, s) ==
  IF s = NULL THEN table ELSE [table EXCEPT ![s] = @ + 1]

(* delete_unique_str: the last reference frees the string.  st_lookup's    *)
(* result is not looked at; a string that is not in the table would make   *)
(* the count wrap, here -1, which TypeOK excludes.                         *)
delete_unique_str(table, s) ==
  IF s = NULL THEN table ELSE [table EXCEPT ![s] = @ - 1]

(* Variant: the path is dropped for the class name, too. *)
delete_info_drops_path_twice(table, info) ==
  delete_unique_str(delete_unique_str(table, info.path), info.path)

delete_info(table, info) ==
  delete_unique_str(delete_unique_str(table, info.path), info.class_path)

(* ruby/st.h. *)
st_delete(table, key) == Restrict(table, DOMAIN table \ {key})

st_insert(table, key, value) ==
  [k \in DOMAIN table \cup {key} |-> IF k = key THEN value ELSE table[k]]

Init ==
  /\ object_table = [a \in {} |-> NULL]
  /\ str_table = NoStrings
  /\ running = FALSE
  /\ enabled = FALSE
  /\ heap = [a \in {} |-> NULL]
  /\ missed = {}

-----------------------------------------------------------------------------
(* Variant: a reused info keeps its references to the old names. *)
new_rbkit_allocation_info_leaks(a, path, class_path) ==
  /\ str_table' =
       make_unique_str(make_unique_str(str_table, path), class_path)
  /\ object_table' =
       st_insert(object_table, a, [path |-> path, class_path |-> class_path])

(* newobj_i's call, new_rbkit_allocation_info.  The names are referenced   *)
(* before those of the info that is reused are dropped.                    *)
new_rbkit_allocation_info(a, path, class_path) ==
  LET made == make_unique_str(make_unique_str(str_table, path), class_path)
  IN  /\ str_table' = IF a \in DOMAIN object_table
                        THEN delete_info(made, object_table[a])
                        ELSE made
      /\ object_table' =
           st_insert(object_table, a, [path |-> path, class_path |-> class_path])

(* Variant: the entry of the freed object stays in the table. *)
delete_rbkit_allocation_info_keeps_entry(a) ==
  IF a \in DOMAIN object_table
    THEN /\ str_table' = delete_info(str_table, object_table[a])
         /\ UNCHANGED object_table
    ELSE UNCHANGED <<object_table, str_table>>

(* freeobj_i's call.  Objects that were allocated before tracing began     *)
(* have no info.                                                           *)
delete_rbkit_allocation_info(a) ==
  IF a \in DOMAIN object_table
    THEN /\ object_table' = st_delete(object_table, a)
         /\ str_table' = delete_info(str_table, object_table[a])
    ELSE UNCHANGED <<object_table, str_table>>

(* Ruby allocates an object in a free slot. *)
NewObject(a, path, class_path) ==
  /\ a \notin DOMAIN heap
  /\ heap' = st_insert(heap, a, path)
  /\ missed' = IF enabled THEN missed \ {a} ELSE missed
  /\ IF enabled THEN new_rbkit_allocation_info(a, path, class_path)
                ELSE UNCHANGED <<object_table, str_table>>
  /\ UNCHANGED <<running, enabled>>

(* newobj_i for an object whose class has no name: rb_class2name makes one *)
(* up, and allocating that String may collect garbage first.  No hook runs *)
(* within newobj_i: neither the objects freed nor the String are seen.     *)
(* The String takes a free slot, or one outside Addresses.                 *)
NewObjectNamingClass(a, path, class_path) ==
  /\ enabled
  /\ a \notin DOMAIN heap
  /\ new_rbkit_allocation_info(a, path, class_path)
  /\ \E garbage \in SUBSET DOMAIN heap, name \in SUBSET Addresses :
       LET kept == DOMAIN heap \ garbage IN
       /\ Cardinality(name) <= 1 /\ name \cap (kept \cup {a}) = {}
       /\ heap' = [x \in kept \cup name \cup {a} |->
                     IF x \in kept THEN heap[x] ELSE path]
       /\ missed' = (missed \ {a}) \cup garbage
  /\ UNCHANGED <<running, enabled>>

(* The garbage collector frees an object. *)
FreeObject(a) ==
  /\ a \in DOMAIN heap
  /\ heap' = st_delete(heap, a)
  /\ missed' = IF running /\ ~enabled THEN missed \cup {a} ELSE missed
  /\ IF enabled THEN delete_rbkit_allocation_info(a)
                ELSE UNCHANGED <<object_table, str_table>>
  /\ UNCHANGED <<running, enabled>>

start_stat_tracing ==
  /\ running
  /\ enabled' = TRUE
  /\ UNCHANGED <<object_table, str_table, running, heap, missed>>

(* The tables are kept. *)
stop_stat_tracing ==
  /\ running
  /\ enabled' = FALSE
  /\ UNCHANGED <<object_table, str_table, running, heap, missed>>

(* get_trace_logger makes empty tables. *)
start_stat_server ==
  /\ ~running
  /\ running' = TRUE
  /\ object_table' = [a \in {} |-> NULL]
  /\ str_table' = NoStrings
  /\ missed' = {}
  /\ UNCHANGED <<enabled, heap>>

stop_stat_server ==
  /\ running
  /\ running' = FALSE
  /\ enabled' = FALSE
  /\ object_table' = [a \in {} |-> NULL]
  /\ str_table' = NoStrings
  /\ UNCHANGED <<heap, missed>>

Next ==
  \/ \E a \in Addresses, path, class_path \in Names :
       \/ NewObject(a, path, class_path)
       \/ NewObjectNamingClass(a, path, class_path)
  \/ \E a \in Addresses : FreeObject(a)
  \/ start_stat_tracing
  \/ stop_stat_tracing
  \/ start_stat_server
  \/ stop_stat_server

Spec == Init /\ [][Next]_vars

(* dump_heap_object: the file a dump reports for the object at a. *)
FileIn(table, a) == IF a \in DOMAIN table THEN table[a].path ELSE NULL

DumpedFile(a) == FileIn(object_table, a)

-----------------------------------------------------------------------------
TypeOK ==
  /\ DOMAIN object_table \subseteq Addresses
  /\ object_table \in [DOMAIN object_table -> Info]
  /\ str_table \in [Strings -> Nat]
  /\ running \in BOOLEAN
  /\ enabled \in BOOLEAN
  /\ DOMAIN heap \subseteq Addresses
  /\ heap \in [DOMAIN heap -> Names]
  /\ missed \subseteq Addresses

PathHolders(s) == {a \in DOMAIN object_table : object_table[a].path = s}

ClassHolders(s) == {a \in DOMAIN object_table : object_table[a].class_path = s}

(* A string's count is the number of infos that point to it, through any   *)
(* order of allocations, frees, reuses of an info and pauses of tracing:   *)
(* no name is freed while an info points to it, and none is kept when none *)
(* does. (The pointers a heap dump holds besides are HeapDump's subject.)  *)
CountsAreExact ==
  \A s \in Strings :
    str_table[s] = Cardinality(PathHolders(s)) + Cardinality(ClassHolders(s))

(* An info is that of the object now living at its address, unless that    *)
(* address was freed while tracing was off, or within newobj_i, and no     *)
(* allocation was seen there since: a dump is wrong about no other object, *)
(* and slots whose free is seen leave nothing behind.                      *)
CurrentUnlessMissed ==
  \A a \in DOMAIN object_table \ missed :
    a \in DOMAIN heap /\ object_table[a].path = heap[a]

(* spec/object_space_dump_spec.rb:78, "should record correct file info":   *)
(* the file reported for a live object is the one that allocated it, or    *)
(* none.                                                                   *)
DumpedFileIsCorrect == \A a \in DOMAIN heap : DumpedFile(a) \in {NULL, heap[a]}
=============================================================================
