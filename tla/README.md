# rbkit in TLA+

rbkit is a profiling server inside a Ruby process. A C extension (`ext/`) turns
VM hooks, profiling signals and heap walks into msgpack messages, collects them
in a byte buffer and publishes them over ZeroMQ; a thin Ruby layer (`lib/`)
starts and stops it, takes commands on a REP socket and runs a dispatch thread.
This directory holds TLA+ models of it, TLC configurations and TLAPS proofs.

    tlc -config aggregator.cfg MCMessageAggregator      # any run: module, cfg
    tlapm MessageAggregator_proofs.tla                  # any *_proofs module

## 1. Inventory

| Component | Code | State | Operations |
|---|---|---|---|
| Message aggregator | `ext/rbkit_message_aggregator.c` | block, used size, capacity, count | new, queue, clear, destroy, collect |
| Event pipeline | `ext/rbkit_server.c` 43-185, `rbkit_event_packer.c`, `rbkit_test_helper.c` | the aggregator, postponed jobs, callback, test mode, message counter | send_message, send_messages, trigger_publish_callback, test read |
| Allocation info | `ext/rbkit_allocation_info.c`, hooks and start/stop of tracing in `rbkit_server.c` | `object_table`, counted strings in `str_table` | newobj, freeobj, start/stop tracing, start/stop server |
| Object space dump | `ext/rbkit_object_graph.c`, `rbkit_event.c`, `rbkit_event_packer.c` 108-216 | pages, reference arrays, position in them | collect, pack a message, send, free |
| Server lifecycle | `lib/rbkit.rb`, `lib/rbkit/server.rb`, `start_stat_server`, `stop_stat_server` | Server objects and flags, the C statics (logger, sockets) | start, stop, restart |
| Dispatch, request and reply | `server.rb` 41-85, `rbkit_server.c` 55-65, 232-308 | dispatch threads, REP socket | poll, process, acknowledge |
| Sampling profiler | `ext/rbkit_sampling_profiler.c`, commands in `server.rb` 59-111 | handler, timer, job, clock type | install, signal, sample, uninstall |
| Event packing | `rbkit_event_packer.c`, `rbkit_event.c`, `rbkit_event.h` | the hooks' shared buffer, a hash half packed | pack each kind of event, pack a collection |
| GC statistics, timer, time helper | `rbkit_gc.rb`, `timer.rb`, `rbkit_time_helper.c` | none, or a clock | reading of numbers |

**How they interact.** Hooks, samples, dump messages and gc statistics all end
in `send_message`, which appends to the one aggregator. The 400th message, the
dispatch thread's timer and user code register `trigger_publish_callback` with
the VM as a postponed job. The VM runs it on whichever thread next checks for
interrupts; it reads the whole queue, sends it, calls the user's callback and
clears the queue. A dump reads what allocation info recorded. The lifecycle
creates and destroys everything, through statics that every Server object
shares.

**What is hard.** Ruby threads share one lock: C code is atomic until it calls
Ruby, Ruby code can be interrupted between any two C calls. Jobs and signals
outlive the call that asked for them. A Ruby exception leaves C code half-way.
Tracing can be paused while objects come and go. Offsets, capacities and page
boundaries are computed by hand. `PROJECT.json` lists each hazard at its line.

**What makes each component correct.**
Aggregator: what is read is what was queued, byte for byte, inside the block.
Pipeline: every event is sent once, in order, eventually.
Allocation info: counts are exact and an entry describes the living object.
Dump: every object once, in full messages, all memory freed once, no name used
after it was freed.
Sampling profiler: the flag tells the truth about timer and handler, no signal
finds its default action, samples keep coming.
Packing: every message and collection is one object a client can read.
Lifecycle: a running server is complete and served, a stopped one leaves
nothing behind, every request gets its own reply.

## 2. Modules

| Module | Models | Instantiates |
|---|---|---|
| `MessageList` | what the aggregator promises: a list that is alive or not | |
| `MessageAggregator` | the aggregator, byte by byte | `MessageList` (implemented) |
| `EventStream` | what the pipeline promises without a callback | |
| `EventPipeline` | from `send_message` to the client | `MessageList` (its queue), `EventStream` (implemented) |
| `AllocationInfo` | tables of allocation infos and strings | |
| `HeapDump` | the dump's walk over that heap, with the garbage collector | extends `AllocationInfo` |
| `ObjectDump` | collecting and paging of one dump after the other | |
| `ServerLifecycle` | starts, stops, dispatch threads, requests | |
| `Profiling` | sampling profiler and tracepoints under starts, stops and commands | |
| `EventPacking` | the shape of packed events and how they come into the list | |
| `MC*` | constants for TLC | the module of the same name |
| `*_proofs` | theorems | extends the module of the same name; `HeapDump_proofs` also has those about `AllocationInfo` |
| `RecursionLemmas` | induction, and what `FlattenSeq` of the community modules computes | |

Names follow the code: variables and actions are called what the C statics,
Ruby instance variables, functions and methods are called. An action that stands
for part of a function (up to a call of Ruby, or the remainder after it) has a
name of its own and says so. Operators whose comment begins with "Variant:" are
not part of a model: they are plausible mistakes, kept to show that a property
notices them. Variables marked "history" record what happened for the
properties; no guard reads them, except as a bound.

**MessageAggregator.** `message_array` is the heap block, a function from offsets
to bytes (a byte of message m is the pair of m and its index), empty when freed;
`used_memsize`, `total_capacity` and `no_of_messages` are the C statics;
`buffer` is the argument of the `queue_message` under way, `queued` the history
of which messages the list holds and where each was put. The loop of
`queue_message` is one step per doubling, because whether it ends is one of the
questions: on a destroyed list, which is included, doubling zero never does.
`message_list_new` may come on a live list, as it does when a start that raised
is repeated.

**EventPipeline.** The aggregator is the abstract list, which the other module
implements. `publish_jobs` counts registered jobs, `sampling_job` is the one
sampling job. `server` says whether Rbkit has a Server, and whether that was
stopped before, `server_running` is its flag and `dispatching` whether its
dispatch thread is at work: a start that raises (on a clock type or interval that
is none) makes none, a Server stopped by `Server#stop` gets one that ends at once
when it is started again, and an exception ends one (`DispatchThreadFails`). A
start that raised leaves a live list without a running server; a Server without
ports can then be started again, which makes the list anew and loses what was
in it. `RunPublishJob` is `trigger_publish_callback` up to the callback,
`CallbackReturns` and `CallbackRaises` are the rest: everything else can happen
between them. `wedged` is a thread in the endless loop on a destroyed list; it
holds the lock, so nothing happens any more. `EventStream` is the promise without
callbacks and test mode: in order, at most once, nothing lost while the server
runs except by closing; opening may fail half-way and start over.

A sampling job can indeed be registered when the server is stopped. A signal
registers it with the thread that last ran, which need not be the thread that
calls stop: with the wall-clock timer signals arrive while all threads sleep,
and a thread inside another job or a callback does not run jobs.

**AllocationInfo.** `heap` is what lives at each address, `object_table` and
`str_table` are the hash tables, a string is a name with a count. `missed` is
the history of addresses whose free went unseen, with tracing off or within
`newobj_i`. An object's line, method and generation are handled exactly like its path and left out. The
VM does not call hooks from within a hook, so hooks are not nested: what
`rb_class2name` allocates and frees inside `newobj_i`, for a class without a
name, goes unseen (`NewObjectNamingClass`).

**HeapDump.** The steps of `get_object_dump` that a garbage collection can come
between. `entries` is what the slots of the dump's pages hold for each object: a
pointer to the path of its allocation info, and to the characters of its class
name, which for a class without a name are those of a String made on the spot.
The name of a named class is taken to live as long as the walk: a class whose
constant is removed, or that is collected, during the walk is left out. Making
a name may free anything but the object at hand, and `freeobj_i` then frees
paths; `dangling` is the history of pointers of the dump to freed memory. The
model confirms that such pointers arise (an object collected after it was
dumped, or a made-up name collected before packing) and that, among files and
made-up names, they arise in no other way. Outside a walk all of
`AllocationInfo` goes on.

**ObjectDump.** `pages` holds the initialised slots of each page; a page stays
in it after it was freed, and `freed` says so. `messages` is what was queued.
A heap has at least one object: for an empty one `object_count` would be read
uninitialised. The packing buffer is a variable: it is cleared by packing, not by
sending. Nothing interleaves, since a dump does not give up the lock.

**ServerLifecycle.** Per-object flags are functions of the Server's number,
C statics are plain variables. `user` is the thread that calls the API, and
`start` and `stop` are split where Ruby can switch threads. A dispatch thread
is where it is in its loop, with the request it has in hand. A REP socket is a
list of arrived requests and the request it owes a reply; it receives nothing
while it owes one, and a send when it owes none fails unnoticed, as does a
send to a closed socket. With `CommandRaises`, `start_cpu_profiling` (a clock type
that is no Symbol) and `handshake` (a status that cannot be built or packed) may
raise before they are answered: the thread has died with its request in hand and
the socket owes a reply for good. With `CallbackRaises`, so may the callback
after an answer. `zmq_poll` of a closed socket fails and leaves
`revents` alone. Servers are made through `Rbkit`, with both ports given, and
`zmq_ctx_destroy` is taken to return. A client that sends while no server is
bound is not modelled: its request arrives when one is.

**Profiling.** `timer`, `handler` and `pending` are the kernel's, one for each of
the two clocks (ITIMER_REAL with SIGALRM, ITIMER_PROF with SIGPROF); `clock` is
the C statics `clock_type` and `signal_type`; `logger` holds the two flags and
the start that made its tracepoints, `tracepoints` those that are enabled. A
signal may come at any instruction, so installing is two steps (handler, then
timer and flag) and so is removing (timer, then handler and flag). A Server is a
record with its flags, its settings and the command its dispatch thread has
received. A sampling job that finds no server makes the process hang, a command
that finds no logger crashes it (both are `EventPipeline`'s and
`ServerLifecycle`'s subject; here they end the behaviour). Requests and replies,
and which ports are free, are in `ServerLifecycle`; servers without ports, which
have no commands but can be started again after a start that raised, only here.
A clock type is `wall`, `cpu`, another Symbol, which installing takes for `cpu`
(`ClockOf`), or none at all, which raises.
`cpu_profiling_mode` is always `:sampling`: README.md:126 of rbkit knows no other.
`@enable_gc_stats` is left out. The three histories name the exceptions:
`asked` what the profiler was last started with and whether its Server's
clock type was set anew since, `orphaned` a logger freed with its profiler
running, `retried` a start repeated after it had raised.

**EventPacking.** Packed data is a sequence of items: runs of scalars, and maps
and arrays that open as many places as they announce. `Ends` reads such a
sequence as a client does. Hooks pack into the logger's one buffer (`sbuf`),
dumps and samples into their own, each in one step with the queueing. A hash is
packed pair by pair, because `to_s` of a key or value is Ruby code: in
between, other threads and hooks run, the server may stop or start again,
another owner of the hash may delete a pair, and `to_s` may raise.
`stuck` is `queue_message` on a destroyed list, as in `EventPipeline`. Neither
a sampling job nor a tracepoint looks at the logger first: `sampling` is whether
there may still be a job (`start_sampling_profiler` allows them, `SamplingEnds`
is the last one after the timer stopped), and once a start was repeated on a
live server (`started_over`) the overwritten tracepoints outlive the stop.

## 3. Runs

Passing runs:

| Run | Shows | States |
|---|---|---|
| `aggregator` | the block is never overrun, a collection is exactly what was queued, queueing on a live list returns, and the module implements `MessageList` | 157k |
| `pipeline_reliable` | without a callback: `EventPipeline` implements `EventStream`, and what is queued is eventually sent as long as a dispatch thread is at work and the list is not discarded | 34k |
| `pipeline_callbacks` | with callbacks and test mode: an event is lost only by a callback, a stop or a start that repeats one that raised, sent twice only if a callback left it uncleared; collections are non-empty gapless runs, counted without gap; nothing is sent from a destroyed list | 1.06M |
| `allocation` | counts are exact, infos are current unless a free was missed; a dump points to freed memory only where its own walk collected garbage, and an object that outlives the walk is dumped with the file of its allocation info | 2.35M |
| `object_dump` | reads are safe, every object is sent once and in order, messages are full, memory is freed exactly once | 28k |
| `lifecycle` | a running server is complete, ports are released unless a start leaked them, crashes and mixed-up or missing replies need a stop in the middle of the dispatch loop (or an empty request, a raising command or callback, a reused Server); dispatch threads end, requests are answered | 196k |
| `profiling` | no signal ever ends the process; the profiler's flag is the truth about both clocks' timers and handlers (except when orphaned); the reported clock is the one in use unless set anew; no tracepoint is left with a freed logger unless a start that raised was repeated; samples keep coming while a profiler with a usable interval is on | 1.5M |
| `packing` | queued messages are whole, collections and replies are one object each (unless a hash lost a pair meanwhile); only a hash in packing, a late sample or the tracepoint of a repeated start, overtaken by a stop, gets `queue_message` a destroyed list | 2.6M |

Runs that find the code at odds with what is said about it:

| Run | Property | What happens |
|---|---|---|
| `event_loss` | `AllEventsAreSent` | events queued while the callback runs are cleared unsent |
| `late_sample` | `StopEndsProfiling` | a sampling job runs after the stop and never returns |
| `stale_info` | `DumpedFileIsCorrect` | an object is dumped with the file of a dead one whose free went unseen, here within `newobj_i` (a pause of tracing does the same, in more steps) |
| `restart_unserved` | `RunningServerIsServed` | a Server stopped by `Server#stop` and started again never takes a request |

The passing runs state the same promises with the code's exceptions named, so
they show that nothing else goes wrong. Two more disagreements need no run. A
start that fails on the request port keeps the publishing port, so that no
later start succeeds; `PortsReleasedUnlessLeaked` names it as its exception. And
each message of a dump carries the dump's number of objects as
`complete_message_count`, which the comment at `rbkit_event_packer.c:125` and
`object_space_dump_spec.rb:52` call the number of messages. No property takes the
field for either: `EveryObjectDumpedOnce` compares what is sent with what the walk
found.

Some hazards do strike, and no document of rbkit says they should not: the
properties name them as exceptions, which shows what they can spoil and that
nothing else does, but not that they are harmless. These are a dead dispatch
thread, mixed-up replies after a stop in the middle of the loop, an interval the
kernel refuses, a profiler orphaned by a command between the two halves of a
stop, tracepoints of a repeated start, and a hash that loses a pair while it is
packed. `PROJECT.json` says so at each.

**Bounds, and why they are enough.**
- `aggregator`: messages of 1 and 5 bytes, an initial block of 2 bytes (1024
  in the code), four messages: an exact fit, one and several
  doublings, and a clear in between are all reached. The proofs drop the bounds.
- `pipeline_*`: batches of 2 (400 in the code), so batches are met, passed and
  missed; a job buffer of 2 that overflows; two threads, so that two jobs
  are inside callbacks at once; three events with callbacks, where two batches
  overlap, and six without. `MaxRepublished` caps how often an uncleared batch
  is sent again. Threads are interchangeable where symmetry is used, in a run
  that has no liveness property.
- `allocation`: three addresses and two strings: two infos share a string, a
  third object's class is being named, and its String takes a slot just freed.
- `profiling`: two Servers and two successful starts, so a command of the first
  Server's thread may run under the second; one unusable interval of each kind.
- `packing`: three events, so a hook and a hash interleave within a batch of
  another; two threads with a hash each (interchangeable), hashes, dumps, samples
  and reference arrays of 0 to 2 elements. Starts and stops are not bounded.
- `object_dump`: pages of 2 and messages of 3, so messages end inside and at the
  end of pages and span three; up to 7 objects, so the last message is short or
  full; two dumps, so ids differ.
- `lifecycle`: two Servers, two successful starts (hence two threads, an old and
  a new one), two requests. Three commands stand for all: one answered by the
  status, one that uses the logger, and the empty message; the first two may
  also raise before they are answered.

`CHECK_DEADLOCK FALSE` is said where the system may really stop: a wedged or
crashed process does nothing, and nobody need ask for another dump or start.

**Fairness.** `EventPipeline`: a dispatch thread, as long as it is at work,
ticks again (its loop sleeps 0.05 s and fires a one-second timer), and the VM
runs a registered job at an interrupt check of some thread. Nothing is assumed
of a server that has no such thread, and `QueuedIsSent` promises nothing for it.
`ServerLifecycle`: each dispatch thread keeps getting the lock, and a call of
start or stop once begun goes on. `Profiling`: the kernel's timers expire again
and its signals are delivered, a C function runs to its end, and some Ruby
thread looks for registered jobs. Users, callbacks, clients and other processes
are never made to act.

## 4. Theorems

Proved by TLAPS for all values of the constants.

`MessageAggregator_proofs`, from the assumptions that sizes are positive
naturals: `TypeCorrect`, `NeverOverrun`, `AlwaysTiled`, `CollectionCorrect`,
`NothingInDestroyedList`, and `AggregatorImplementsList` (every initial state
and step of the byte buffer is one of `MessageList`, or a stutter). That what is
collected is what was queued is not inductive: a copy could overwrite older
bytes. The invariant adds that messages tile the used part of the block, that
each chunk lies below `used_memsize`, and that this is within the capacity; a
copy at the offset `used_memsize` then touches no chunk, and a realloc, which
keeps the old bytes, keeps all of them.

`HeapDump_proofs`, for any finite set of addresses and any names (which must
not be `NULL`), hooks that miss a garbage collection included. About
`AllocationInfo`: `TypeCorrect`, `ReferenceCountsAreExact`,
`InfoIsCurrentUnlessMissed`. Types and counts need each other: a count stays a
natural number when it is decremented because it is the cardinality of the set
of infos that use the name, which holds the one being deleted; each table
operation then adds or removes one element. That infos are current needs that
a stopped server has empty tables. About the walk: `WalkTypeCorrect`,
`DumpDanglesOnlyIfCollected`, `SurvivorsAreDumpedRight`, and `WalkKeepsTables`,
for the walk's steps on the tables are `AllocationInfo`'s. The invariant adds
that nothing of a walk is left between dumps and that the object at hand is
alive; a garbage collection during the walk then frees only what an info named
whose object it also collected.

`ObjectDump_proofs`, for any sizes of page, message and heap: `TypeCorrect`,
`ReadsAreSafe`, `FullMessages`, `NothingLeakedOrFreedTwice`,
`WholeHeapIsSentOnce`. A read is safe only because of where the pages came from,
so the invariant relates collecting and packing: all pages but the last are
full; the object in slot i of page p is number (p - 1) * page size + i;
`packed_objects` is the position of the event by the same formula; the pages
freed are those before `current_page`, in order; no reference array of a packed
object is left. While objects remain, the event is then before the end of the
last page. Full messages need that what is left of
a batch never exceeds what is left of the dump, and that a dump which goes on
has sent full messages only. That a client gets the whole heap once
(`Sent`): the payloads sent of the current dump, with the buffer after them, are
the objects 1 to `packed_objects`; the object packed next is the next number
(`NextRead`), and a message adds its payload to its own dump alone
(`ObjectsGrow`, from `FlattenAppend`).

`EventPipeline_proofs`, for any threads, batch size and job buffer, with
callbacks and test mode or without: `TypeCorrect`,
`EventsAreLostOnlyByCallbackStopOrRetry`, `EventsAreSentTwiceOnlyIfUncleared`,
`EveryCollectionIsARun`, the action property `StoppedServerSendsNothing`, and,
assuming neither callbacks nor test mode, `PipelineImplementsStream`. What makes
them inductive is that the list always is a gapless run of the latest events;
that an event in it which was sent has its excuse (a callback is running or has
left it uncleared); that while a callback runs, whatever in the list was not
sent came during it, so that the clear which follows loses only that; and that a
destroyed list is empty and never that of a running server. The refinement maps
a publish job that finds events waiting to `Deliver`, one that finds none, and
every step of jobs and signals, to a stutter.

`ServerLifecycle_proofs`, for any commands and any number of servers, starts and
requests: `TypeCorrect`, `RunningServerHasStatics`, `StopReleasesPorts`,
`NoCrashWithoutRace`, `RepliesAreOfTheirRequests`, `RepliesOwedAreWorkedOn`,
`RunningServerIsServedUnlessReused`. The properties speak of the time between
calls, so the invariant extends each to the middle of starting and stopping
(`ServerIsUp`, `PortsAreReleased`). `ThreadsFollowFlags` ties a thread's end to
its Server's flag, which is set for good before the Server stops running.
`BusyIsServed` and `OneAtWork` say what `raced` spoils: without a stop in the
middle of its loop a busy thread has all it needs, and one thread at most works
on a request, the one the socket owes a reply. A command that raises keeps the
request in the dead thread's hand, which is how `OwesOnlyWorkedOnRequests` tells
it from a request that was lost.

`Profiling_proofs`, for any number of servers and starts (a logger must not be
`NULL`): `TypeCorrect`, `ProcessIsNeverKilled`, `FlagIsTheTruth`,
`ReportedClockIsInUse`, `TracepointsAreOfLiveLogger`. `FlagIsTheTruth` holds
between the two halves of installing and removing only in another form, which
`TimersMatchCall` states: while installing, the handler is there and the timer
not yet; while removing, the timer is gone and the handler is still there. No
signal kills the process because a timer is armed, or a signal pending, only
where the handler has been installed once, and removing leaves SIG_IGN, never
the default.

`EventPacking_proofs`, for any threads and any sizes of hashes, dumps, reference
arrays and backtraces (a hash in packing must not be `NULL`): `TypeCorrect`,
`ListIsWholeMessages`, `MessagesSentAreObjects`, `StuckOnlyAfterOvertakingStop`.
The proof follows a reader: `Leads(p, items, q)` says that one who has p places
open gets through the items and has q open in the end. It composes
along concatenation and bears more open places, so each `pack_*` operator is
computed part by part, and a row of objects by induction. The invariant says
that a hash in packing has exactly the places open which its remaining pairs will
fill, that the list leads from `no_of_messages` to none, and that no two hashes,
nor a hash and the list, share an event; and that whoever may still queue has a
server or was overtaken by its stop (`QueuersHaveServer`).

`RecursionLemmas` makes the induction possible. The library's induction theorems
take the formula as an operator parameter, which the provers cannot
instantiate. `SetInduction` says instead that a set of numbers with zero and
all successors is `Nat`, which needs no such parameter; it follows from the
well-foundedness of inclusion among finite sets. With it recursive functions are
shown to exist, and `FlattenSeq` to be what one expects.

Assumptions: the named `ASSUME`s of the modules, which TLC evaluates in every run.
They say that bounds and sizes are naturals (batches and blocks not empty), that
addresses are finitely many, and that `NULL` is none of the values it is compared
with.

Only model-checked:
- liveness (`DispatchThreadsEnd`, `RequestsAreAnswered`, `QueueReturns`,
  `SamplesAreTaken`, `QueuedIsSent`), which TLAPS does not cover;
- the four properties that the code violates, which are false.

## 5. Not modelled

- Failure of malloc and realloc, and sizes near 2^64: the code checks neither.
- The bytes of a packed number or string, the numbers of gc statistics, debug
  timing, the build files: no state and no control.
- The Strings a cpu sample's names point to while it is made: whether they
  survive depends on what the compiler leaves on the stack.
- The application's own use of SIGALRM and SIGPROF, which profiling ends.
- `send_hash_as_event` called by a user with the number of an event that is not
  a hash: the packer then reads another struct than it was given.
- `@enable_gc_stats`, which only adds a kind of event to the dispatch loop.
- What the network does to published messages: a PUB socket drops them when
  no client is connected, which the code cannot see.
- The name of a class that is removed or collected during a dump's walk.
- Time. Timers fire at any moment; a wall clock set back is not modelled.

## 6. Plan

Written so far, in this order: `MessageList` and `MessageAggregator` (everything
goes through it), `EventPipeline`, `AllocationInfo`, `ObjectDump`,
`ServerLifecycle`, `HeapDump`, `Profiling`, `EventPacking`.

Theorems followed in the same order, and every invariant of the passing runs is
proved. What is left is an abstract specification of the tables (which objects
are recorded, with which names), implemented by `AllocationInfo`.
