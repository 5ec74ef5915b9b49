------------------------------ MODULE HeapDump ------------------------------
(***************************************************************************)
(* get_object_dump (ext/rbkit_object_graph.c) walks over the heap whose    *)
(* allocation infos AllocationInfo keeps, while the garbage collector may  *)
(* run: dump_heap_object calls rb_class2name, which allocates a String     *)
(* for a class that has no name.  The dump keeps bare pointers, to the     *)
(* path of an allocation info and to the characters of a class name, and   *)
(* ObjectDump packs them when the walk is over.                            *)
(*                                                                         *)
(* The walk holds the global lock: no other thread, no command and no      *)
(* start or stop of tracing comes between its steps, only what making a    *)
(* class name allocates and collects.  Names of named classes are kept by  *)
(* the VM as long as the class: a class whose constant is removed, or that *)
(* is itself collected, during the walk is left out.  Packing allocates no *)
(* Ruby object.                                                            *)
(***************************************************************************)
EXTENDS AllocationInfo

ASSUME NullIsNoAddress == NULL \notin Addresses

VARIABLES
  phase,          \* "idle", "walking", or "naming" a class
  visited,        \* slots the walk has passed
  current,        \* the object whose class is being named, or NULL
  entries,        \* [address -> what initialize_object_data's slot holds]
  gone,           \* history: entries whose object was freed since
  dangling        \* history: pointers of entries to freed memory

walk == <<phase, visited, current, entries, gone, dangling>>

(* class_name: the address of the String made up for a class without a     *)
(* name; NULL for a name that its class keeps.                             *)
Entry == [file : Names, class_name : Addresses \cup {NULL}]

NoEntries == [a \in {} |-> NULL]

WalkInit ==
  /\ Init
  /\ phase = "idle"
  /\ visited = {}
  /\ current = NULL
  /\ entries = NoEntries
  /\ gone = {}
  /\ dangling = {}

(* What the program does while no dump is made. *)
Trace ==
  /\ phase = "idle"
  /\ Next
  /\ UNCHANGED walk

get_object_dump ==
  /\ phase = "idle"
  /\ running
  /\ phase' = "walking"
  /\ UNCHANGED <<vars, visited, current, entries, gone, dangling>>

(* heap_obj_i passes a free slot. *)
PassFreeSlot(a) ==
  /\ phase = "walking"
  /\ a \notin visited \cup DOMAIN heap
  /\ visited' = visited \cup {a}
  /\ UNCHANGED <<vars, phase, current, entries, gone, dangling>>

(* dump_heap_object, for an object whose class has a name. *)
DumpObject(a) ==
  /\ phase = "walking"
  /\ a \in DOMAIN heap \ visited
  /\ visited' = visited \cup {a}
  /\ entries' = st_insert(entries, a, [file |-> DumpedFile(a), class_name |-> NULL])
  /\ UNCHANGED <<vars, phase, current, gone, dangling>>

(* dump_heap_object, for one whose class has none, up to rb_class2name. *)
NameClass(a) ==
  /\ phase = "walking"
  /\ a \in DOMAIN heap \ visited
  /\ phase' = "naming"
  /\ visited' = visited \cup {a}
  /\ current' = a
  /\ UNCHANGED <<vars, entries, gone, dangling>>

(* The pointers that the step from str_table to its next value, freeing    *)
(* the object at a (if any), leaves dangling.                              *)
FilesFreed ==
  {<<x, "file">> : x \in {y \in DOMAIN entries :
     LET file == entries[y].file IN
     file # NULL /\ str_table[file] > 0 /\ str_table'[file] = 0}}

NamesFreed(a) ==
  {<<x, "class_name">> : x \in {y \in DOMAIN entries : entries[y].class_name = a}}

(* Allocating the name collects an object.  The one being dumped is on the *)
(* stack of dump_heap_object and stays.                                    *)
CollectGarbage(a) ==
  /\ phase = "naming"
  /\ a # current
  /\ FreeObject(a)
  /\ gone' = gone \cup ({a} \cap DOMAIN entries)
  /\ dangling' = dangling \cup FilesFreed \cup NamesFreed(a)
  /\ UNCHANGED <<phase, visited, current, entries>>

(* The String is made, in a free slot or outside Addresses, and the rest   *)
(* of dump_heap_object follows, which looks the file up only now.          *)
NameMade ==
  /\ phase = "naming"
  /\ \E name \in Addresses \cup {NULL} :
       /\ \/ /\ name # NULL
             /\ \E path, class_path \in Names : NewObject(name, path, class_path)
          \/ /\ name = NULL
             /\ UNCHANGED vars
       /\ entries' = st_insert(entries, current,
                       [file |-> FileIn(object_table', current), class_name |-> name])
  /\ dangling' = dangling \cup FilesFreed
  /\ phase' = "walking"
  /\ current' = NULL
  /\ UNCHANGED <<visited, gone>>

(* Variant: the next dump goes on in the pages of this one. *)
PackEntries_keeps_pages ==
  /\ phase = "walking"
  /\ visited = Addresses
  /\ phase' = "idle"
  /\ visited' = {}
  /\ UNCHANGED <<vars, current, entries, gone, dangling>>

(* The walk is over: ObjectDump packs the entries and frees them. *)
PackEntries ==
  /\ phase = "walking"
  /\ visited = Addresses
  /\ phase' = "idle"
  /\ visited' = {}
  /\ entries' = NoEntries
  /\ gone' = {}
  /\ dangling' = {}
  /\ UNCHANGED <<vars, current>>

WalkNext ==
  \/ Trace
  \/ get_object_dump
  \/ \E a \in Addresses :
       \/ PassFreeSlot(a)
       \/ DumpObject(a)
       \/ NameClass(a)
       \/ CollectGarbage(a)
  \/ NameMade
  \/ PackEntries

WalkSpec == WalkInit /\ [][WalkNext]_<<vars, walk>>

-----------------------------------------------------------------------------
WalkTypeOK ==
  /\ TypeOK
  /\ phase \in {"idle", "walking", "naming"}
  /\ visited \subseteq Addresses
  /\ current \in IF phase = "naming" THEN DOMAIN heap ELSE {NULL}
  /\ DOMAIN entries \subseteq visited
  /\ entries \in [DOMAIN entries -> Entry]
  /\ gone \subseteq DOMAIN entries
  /\ dangling \subseteq (DOMAIN entries) \X {"file", "class_name"}

(* A dump is packed from freed memory only where the garbage collector ran *)
(* during its walk: the file of an object is freed only if that object was *)
(* collected after it was dumped (and then all that came from its file),   *)
(* and a class name only if it was a String made up by the dump itself.    *)
DanglingOnlyIfCollected ==
  \A a \in DOMAIN entries :
    /\ <<a, "file">> \in dangling => a \in gone
    /\ <<a, "class_name">> \in dangling => entries[a].class_name # NULL

(* Whatever is collected or allocated during the walk, an object that      *)
(* outlives it is dumped with the file its allocation info still holds,    *)
(* which is the file that allocated it unless a free there went unseen.    *)
SurvivorsKeepTheirFile ==
  \A a \in DOMAIN entries \ gone :
    /\ a \in DOMAIN heap
    /\ entries[a].file = DumpedFile(a)
    /\ a \notin missed => entries[a].file \in {NULL, heap[a]}
=============================================================================
