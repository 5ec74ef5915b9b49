--------------------------- MODULE EventPipeline ---------------------------
(***************************************************************************)
(* How events reach the client: queued one by one in the aggregator        *)
(* (MessageList), turned into event_collection messages by                 *)
(* trigger_publish_callback, which the Ruby VM runs as a postponed job,    *)
(* and handed to the PUB socket and to the user's @publish_callback.       *)
(* Sources: ext/rbkit_server.c, ext/rbkit_sampling_profiler.c,             *)
(* ext/rbkit_test_helper.c, lib/rbkit/server.rb.                           *)
(*                                                                         *)
(* Ruby threads share one global lock.  C code keeps it, so every action   *)
(* is atomic except where C calls back into Ruby: the user's callback is   *)
(* Ruby code, it may run for long, and other threads, allocations and the  *)
(* callback itself go on producing events in the meantime.                 *)
(***************************************************************************)
EXTENDS Naturals, Sequences, SequencesExt

CONSTANTS
  Threads,             \* Ruby threads that may run postponed jobs
  MESSAGE_BATCH_SIZE,  \* 400 in the code
  Callbacks,           \* TRUE when the user may set @publish_callback
  TestMode,            \* TRUE when Rbkit.enable_test_mode was called first
  MaxEvents,           \* bound: events produced in a behaviour
  MaxJobs,             \* size of the VM's postponed-job buffer
  MaxRepublished       \* bound: how often a batch is sent again

ASSUME BatchSizeIsPositive == MESSAGE_BATCH_SIZE \in Nat \ {0}
ASSUME BoundsAreNat ==
  MaxEvents \in Nat /\ MaxJobs \in Nat \ {0} /\ MaxRepublished \in Nat
ASSUME SwitchesAreBoolean == Callbacks \in BOOLEAN /\ TestMode \in BOOLEAN

VARIABLES
  alive, batch,               \* the aggregator, as MessageList describes it
  publish_jobs,               \* trigger_publish_callback jobs registered
  sampling_job,               \* is sampling_job_handler registered?
  sampling_profiler_enabled,  \* is the profiling timer on?
  publish_callback,           \* is @publish_callback a proc?
  test_mode_enabled,
  server,                     \* Rbkit.server: see ServerState
  server_running,             \* its @server_running
  dispatching,                \* is its dispatch thread at work?
  in_callback,                \* threads suspended inside @publish_callback
  message_counter,            \* of the next event_collection (packer.c)
  wedged,                     \* queue_message never returns: the GVL is gone
  produced,                   \* history: events made so far, named 1, 2, ...
  collections,                \* history: the event_collections given away
  overlapped,                 \* history: events queued during a callback
  discarded,                  \* history: events queued when the list was made
                              \* anew or destroyed
  uncleared                   \* history: events left in the list after sending

(* Rbkit.server is "nil", a Server that was never stopped ("fresh"), or one *)
(* that Server#stop was called on ("stopped"): its @stop_profiler_thread   *)
(* stays set, so that a dispatch thread made later ends at once.           *)
ServerState == <<server, server_running, dispatching>>

vars == <<ServerState, alive, batch, publish_jobs, sampling_job,
          sampling_profiler_enabled, publish_callback, test_mode_enabled,
          in_callback, message_counter, wedged, produced, collections,
          overlapped, discarded, uncleared>>

List == INSTANCE MessageList WITH Messages <- 1 .. MaxEvents

Elements(s) == {s[i] : i \in DOMAIN s}

Init ==
  /\ List!Init
  /\ publish_jobs = 0
  /\ sampling_job = FALSE
  /\ sampling_profiler_enabled = FALSE
  /\ publish_callback = FALSE
  /\ test_mode_enabled = TestMode
  /\ server = "nil"
  /\ server_running = FALSE
  /\ dispatching = FALSE
  /\ in_callback = {}
  /\ message_counter = 0
  /\ wedged = FALSE
  /\ produced = 0
  /\ collections = <<>>
  /\ overlapped = {}
  /\ discarded = {}
  /\ uncleared = {}

-----------------------------------------------------------------------------
(* rb_postponed_job_register: a full buffer drops the job, and send_messages *)
(* does not look at the result.                                            *)
register_publish_job ==
  publish_jobs' = IF publish_jobs + (IF sampling_job THEN 1 ELSE 0) < MaxJobs
                    THEN publish_jobs + 1
                    ELSE publish_jobs

(* Variant: jobs are kept in a list that has no end. *)
send_messages_unbounded ==
  IF test_mode_enabled THEN UNCHANGED publish_jobs
                       ELSE publish_jobs' = publish_jobs + 1

send_messages ==
  IF test_mode_enabled THEN UNCHANGED publish_jobs ELSE register_publish_job

(* send_message: queue the event; the message that makes the batch full,   *)
(* and only that one, asks for it to be sent.                              *)
send_message ==
  /\ produced < MaxEvents
  /\ produced' = produced + 1
  /\ List!Queue(produced + 1)
  /\ IF Len(batch') = MESSAGE_BATCH_SIZE
       THEN send_messages
       ELSE UNCHANGED publish_jobs
  /\ overlapped' = IF in_callback = {} THEN overlapped
                                       ELSE overlapped \cup {produced + 1}

(* Variant: the last message of the list is left out. *)
get_event_collection_message_off_by_one ==
  [message_counter |-> message_counter, payload |-> Front(batch)]

(* get_event_collection_message: what one job or one test reads. *)
get_event_collection_message ==
  [message_counter |-> message_counter, payload |-> batch]

HandOver ==
  /\ Len(collections) < MaxEvents + MaxRepublished
  /\ collections' = Append(collections, get_event_collection_message)
  /\ message_counter' = message_counter + 1
  /\ uncleared' = IF in_callback = {} THEN uncleared
                                      ELSE uncleared \cup Elements(batch)

-----------------------------------------------------------------------------
(* A tracepoint hook, send_hash_as_event or one page of an object dump.    *)
(* All of them are off once the server has stopped: the tracepoints are    *)
(* disabled, send_hash_as_event looks at the logger (before it packs: what *)
(* a stop in the middle of that does is in EventPacking).                  *)
ProduceEvent ==
  /\ ~wedged
  /\ alive
  /\ send_message
  /\ UNCHANGED <<ServerState, sampling_job, sampling_profiler_enabled,
                 publish_callback, test_mode_enabled, in_callback,
                 message_counter, wedged, collections, discarded,
                 uncleared>>

(* Variant: the timer leaves incomplete batches alone. *)
DispatchTick_full_batches_only ==
  /\ ~wedged
  /\ IF Len(batch) >= MESSAGE_BATCH_SIZE THEN send_messages
                                         ELSE UNCHANGED publish_jobs
  /\ UNCHANGED <<ServerState, alive, batch, sampling_job,
                 sampling_profiler_enabled, publish_callback,
                 test_mode_enabled, in_callback, message_counter, wedged,
                 produced, collections, overlapped, discarded, uncleared>>

(* The dispatch thread's timer, or user code calling Server#send_messages. *)
(* The thread may have seen the stop flag unset just before a stop.        *)
DispatchTick ==
  /\ ~wedged
  /\ send_messages
  /\ UNCHANGED <<ServerState, alive, batch, sampling_job,
                 sampling_profiler_enabled, publish_callback,
                 test_mode_enabled, in_callback, message_counter, wedged,
                 produced, collections, overlapped, discarded, uncleared>>

(* Variant: the list is not cleared after it was sent. *)
RunPublishJob_without_clear(t) ==
  /\ ~wedged
  /\ publish_jobs > 0
  /\ t \notin in_callback
  /\ publish_jobs' = publish_jobs - 1
  /\ IF batch = <<>> THEN UNCHANGED <<message_counter, collections, uncleared>>
                     ELSE HandOver
  /\ UNCHANGED <<ServerState, alive, batch, in_callback, sampling_job,
                 sampling_profiler_enabled, publish_callback,
                 test_mode_enabled, wedged, produced, overlapped,
                 discarded>>

(* Variant: an empty list is sent too. *)
RunPublishJob_sends_empty_list(t) ==
  /\ ~wedged
  /\ publish_jobs > 0
  /\ t \notin in_callback
  /\ publish_jobs' = publish_jobs - 1
  /\ HandOver
  /\ List!Clear
  /\ UNCHANGED <<ServerState, in_callback, sampling_job,
                 sampling_profiler_enabled, publish_callback,
                 test_mode_enabled, wedged, produced, overlapped,
                 discarded>>

(* trigger_publish_callback up to and including zmq_send, and to its end   *)
(* when no callback is set.  A thread that is running a postponed job does *)
(* not start another one.                                                  *)
RunPublishJob(t) ==
  /\ ~wedged
  /\ publish_jobs > 0
  /\ t \notin in_callback
  /\ publish_jobs' = publish_jobs - 1
  /\ IF batch = <<>>
       THEN UNCHANGED <<message_counter, collections, uncleared>>
       ELSE HandOver
  /\ IF batch # <<>> /\ publish_callback
       THEN /\ in_callback' = in_callback \cup {t}
            /\ UNCHANGED <<alive, batch>>
       ELSE /\ List!Clear
            /\ UNCHANGED in_callback
  /\ UNCHANGED <<ServerState, sampling_job, sampling_profiler_enabled,
                 publish_callback, test_mode_enabled, wedged, produced,
                 overlapped, discarded>>

(* The rest of trigger_publish_callback, after the user's proc returned.   *)
CallbackReturns(t) ==
  /\ ~wedged
  /\ t \in in_callback
  /\ in_callback' = in_callback \ {t}
  /\ List!Clear
  /\ UNCHANGED <<ServerState, publish_jobs, sampling_job,
                 sampling_profiler_enabled, publish_callback,
                 test_mode_enabled, message_counter, wedged, produced,
                 collections, overlapped, discarded, uncleared>>

(* A Ruby exception leaves trigger_publish_callback by longjmp: the list   *)
(* is not cleared.                                                         *)
CallbackRaises(t) ==
  /\ ~wedged
  /\ t \in in_callback
  /\ in_callback' = in_callback \ {t}
  /\ uncleared' = uncleared \cup Elements(batch)
  /\ UNCHANGED <<ServerState, alive, batch, publish_jobs, sampling_job,
                 sampling_profiler_enabled, publish_callback,
                 test_mode_enabled, message_counter, wedged, produced,
                 collections, overlapped, discarded>>

-----------------------------------------------------------------------------
start_sampling_profiler ==
  /\ ~wedged
  /\ alive
  /\ sampling_profiler_enabled' = TRUE
  /\ UNCHANGED <<ServerState, alive, batch, publish_jobs, sampling_job,
                 publish_callback, test_mode_enabled, in_callback,
                 message_counter, wedged, produced, collections, overlapped,
                 discarded, uncleared>>

(* The timer is stopped; a job its last signal registered stays registered. *)
stop_sampling_profiler ==
  /\ ~wedged
  /\ alive
  /\ sampling_profiler_enabled' = FALSE
  /\ UNCHANGED <<ServerState, alive, batch, publish_jobs, sampling_job,
                 publish_callback, test_mode_enabled, in_callback,
                 message_counter, wedged, produced, collections, overlapped,
                 discarded, uncleared>>

(* SIGPROF or SIGALRM: rb_postponed_job_register_one. *)
SamplingSignal ==
  /\ ~wedged
  /\ sampling_profiler_enabled
  /\ ~sampling_job
  /\ sampling_job' = (publish_jobs < MaxJobs)
  /\ UNCHANGED <<ServerState, alive, batch, publish_jobs,
                 sampling_profiler_enabled, publish_callback,
                 test_mode_enabled, in_callback, message_counter, wedged,
                 produced, collections, overlapped, discarded, uncleared>>

(* sampling_job_handler, with queue_cpu_sample_for_sending.  It does not   *)
(* ask whether the server still runs; on a destroyed list queue_message    *)
(* doubles a capacity of zero for ever (MessageAggregator).                *)
RunSamplingJob(t) ==
  /\ ~wedged
  /\ sampling_job
  /\ t \notin in_callback
  /\ sampling_job' = FALSE
  /\ \/ /\ alive
        /\ send_message
        /\ UNCHANGED wedged
     \/ /\ ~alive
        /\ wedged' = TRUE
        /\ UNCHANGED <<alive, batch, publish_jobs, produced, overlapped>>
  /\ UNCHANGED <<ServerState, sampling_profiler_enabled, publish_callback,
                 test_mode_enabled, in_callback, message_counter,
                 collections, discarded, uncleared>>

-----------------------------------------------------------------------------
(* Rbkit.start_server and start_profiling.  Server#start makes the list    *)
(* before it can raise (on a clock type or interval that is none): a       *)
(* Server without ports can then be started again, on the live list, whose *)
(* messages are lost.  Only a start that does not raise makes a dispatch   *)
(* thread.                                                                 *)
StartServer ==
  /\ ~wedged
  /\ ~server_running
  /\ server' = IF server = "nil" THEN "fresh" ELSE server
  /\ List!New
  /\ discarded' = discarded \cup Elements(batch)
  /\ \/ /\ server_running' = TRUE
        /\ dispatching' = (server' = "fresh")
     \/ UNCHANGED <<server_running, dispatching>>
  /\ UNCHANGED <<publish_jobs, sampling_job, sampling_profiler_enabled,
                 publish_callback, test_mode_enabled, in_callback,
                 message_counter, wedged, produced, collections, overlapped,
                 uncleared>>

(* Rbkit.stop_server forgets the Server and its callback; after a call of  *)
(* Server#stop itself both are kept for the next start.                    *)
ServerAfterStop ==
  \/ server' = "nil" /\ publish_callback' = FALSE
  \/ server' = "stopped" /\ UNCHANGED publish_callback

(* Variant: message_list_destroy forgets to reset the count. *)
StopServer_keeps_batch ==
  /\ ~wedged
  /\ server_running
  /\ server_running' = FALSE
  /\ dispatching' = FALSE
  /\ ServerAfterStop
  /\ alive' = FALSE
  /\ sampling_profiler_enabled' = FALSE
  /\ discarded' = discarded \cup Elements(batch)
  /\ UNCHANGED <<batch, publish_jobs, sampling_job, test_mode_enabled,
                 in_callback, message_counter, wedged, produced, collections,
                 overlapped, uncleared>>

(* Server#stop, with stop_stat_server.  Registered jobs and running        *)
(* callbacks are left alone, queued events are discarded.                  *)
StopServer ==
  /\ ~wedged
  /\ server_running
  /\ server_running' = FALSE
  /\ dispatching' = FALSE
  /\ ServerAfterStop
  /\ List!Destroy
  /\ sampling_profiler_enabled' = FALSE
  /\ discarded' = discarded \cup Elements(batch)
  /\ UNCHANGED <<publish_jobs, sampling_job, test_mode_enabled, in_callback,
                 message_counter, wedged, produced, collections, overlapped,
                 uncleared>>

(* The dispatch thread ends by an exception of a command, a callback or    *)
(* the gc statistics, or one of these never returns.                       *)
DispatchThreadFails ==
  /\ ~wedged
  /\ dispatching
  /\ dispatching' = FALSE
  /\ UNCHANGED <<server, server_running, alive, batch, publish_jobs,
                 sampling_job, sampling_profiler_enabled, publish_callback,
                 test_mode_enabled, in_callback, message_counter, wedged,
                 produced, collections, overlapped, discarded, uncleared>>

SetPublishCallback ==
  /\ ~wedged
  /\ Callbacks
  /\ server # "nil"
  /\ publish_callback' = ~publish_callback
  /\ UNCHANGED <<ServerState, alive, batch, publish_jobs, sampling_job,
                 sampling_profiler_enabled, test_mode_enabled, in_callback,
                 message_counter, wedged, produced, collections, overlapped,
                 discarded, uncleared>>

(* Rbkit.enable_test_mode and Rbkit.disable_test_mode. *)
SwitchTestMode ==
  /\ ~wedged
  /\ TestMode
  /\ test_mode_enabled' = ~test_mode_enabled
  /\ UNCHANGED <<ServerState, alive, batch, publish_jobs, sampling_job,
                 sampling_profiler_enabled, publish_callback, in_callback,
                 message_counter, wedged, produced, collections, overlapped,
                 discarded, uncleared>>

(* get_queued_messages, the test helper.  The Ruby string it returns is    *)
(* itself an allocation: when traced, its event is queued between the      *)
(* reading of the list and its clearing, and lost.                         *)
get_queued_messages ==
  /\ ~wedged
  /\ TestMode
  /\ batch # <<>>
  /\ HandOver
  /\ List!Clear
  /\ \/ UNCHANGED <<produced, overlapped>>
     \/ /\ produced < MaxEvents
        /\ produced' = produced + 1
        /\ overlapped' = overlapped \cup {produced + 1}
  /\ UNCHANGED <<ServerState, publish_jobs, sampling_job,
                 sampling_profiler_enabled, publish_callback,
                 test_mode_enabled, in_callback, wedged, discarded>>

Next ==
  \/ ProduceEvent
  \/ DispatchTick
  \/ \E t \in Threads : RunPublishJob(t)
  \/ \E t \in Threads : CallbackReturns(t)
  \/ \E t \in Threads : CallbackRaises(t)
  \/ start_sampling_profiler
  \/ stop_sampling_profiler
  \/ SamplingSignal
  \/ \E t \in Threads : RunSamplingJob(t)
  \/ StartServer
  \/ StopServer
  \/ DispatchThreadFails
  \/ SetPublishCallback
  \/ SwitchTestMode
  \/ get_queued_messages

Spec == Init /\ [][Next]_vars

(* A dispatch thread at work runs its timer again and again, and the VM    *)
(* runs a registered job at the next interrupt check of some thread.       *)
(* Nothing is assumed about callbacks, signals or users, nor about a       *)
(* server that has no such thread.                                         *)
FairSpec ==
  /\ Spec
  /\ WF_vars(dispatching /\ DispatchTick)
  /\ WF_vars(\E t \in Threads : RunPublishJob(t))

-----------------------------------------------------------------------------
Events == 1 .. MaxEvents

TypeOK ==
  /\ List!TypeOK
  /\ publish_jobs \in 0 .. MaxJobs
  /\ sampling_job \in BOOLEAN
  /\ sampling_profiler_enabled \in BOOLEAN
  /\ publish_callback \in BOOLEAN
  /\ test_mode_enabled \in BOOLEAN
  /\ server \in {"nil", "fresh", "stopped"}
  /\ server_running \in BOOLEAN
  /\ dispatching \in BOOLEAN
  /\ in_callback \subseteq Threads
  /\ message_counter \in Nat
  /\ wedged \in BOOLEAN
  /\ produced \in 0 .. MaxEvents
  /\ collections \in Seq([message_counter : Nat, payload : Seq(Events)])
  /\ overlapped \subseteq Events
  /\ discarded \subseteq Events
  /\ uncleared \subseteq Events

SentIn(e, i) == e \in Elements(collections[i].payload)

Sent(e) == \E i \in DOMAIN collections : SentIn(e, i)

Queued(e) == e \in Elements(batch)

(* Every event is waiting, sent, or has one of the excuses the code has    *)
(* for losing it: it was queued while a callback ran, or was waiting when  *)
(* the server was stopped or, after a start that raised, started over.     *)
(* Races of jobs, threads, signals, restarts and test mode lose nothing    *)
(* else.                                                                   *)
LostOnlyByCallbackStopOrRetry ==
  \A e \in 1 .. produced :
    Queued(e) \/ Sent(e) \/ e \in overlapped \/ e \in discarded

(* An event is in two collections only if a callback raised over it, or a  *)
(* second job or test read the list while a callback had it: two pending   *)
(* jobs, or a job pending across a restart, send nothing twice.            *)
SentTwiceOnlyIfUncleared ==
  \A i, j \in DOMAIN collections :
    \A e \in 1 .. produced :
      i # j /\ SentIn(e, i) /\ SentIn(e, j) => e \in uncleared

(* A client that numbers what it receives is not misled: collections are   *)
(* counted without a gap across restarts and test reads, none is empty,    *)
(* and each is a gapless run of the events in the order they happened.     *)
CollectionsAreRuns ==
  \A i \in DOMAIN collections :
    LET c == collections[i] IN
      /\ c.message_counter = i - 1
      /\ c.payload # <<>>
      /\ \A k \in DOMAIN c.payload : c.payload[k] = c.payload[1] + k - 1

(* Jobs that outlive the server publish nothing: no collection is ever     *)
(* made from the freed list.                                               *)
NothingSentWhenStopped == [][collections' # collections => alive]_vars

(* docs/protocol.md:91: "All events are aggregated in the server and sent  *)
(* as the payload of a special type of event named `event_collection`".    *)
(* Only stopping the server, or starting it over, may keep an event from   *)
(* being sent.                                                             *)
AllEventsAreSent ==
  \A e \in 1 .. produced : Queued(e) \/ Sent(e) \/ e \in discarded

(* lib/rbkit.rb:44: stop_server "stops profiling and brings down the       *)
(* rbkit server".  No profiling job is at work on the list afterwards, so  *)
(* the application is never stuck in one.                                  *)
StopEndsProfiling == ~wedged

-----------------------------------------------------------------------------
(* Without a callback the pipeline is a reliable, ordered event stream.    *)
Delivered == FlattenSeq([i \in DOMAIN collections |-> collections[i].payload])

Stream == INSTANCE EventStream
            WITH open <- alive, running <- server_running, pending <- batch,
                 delivered <- Delivered

(* Without a callback, every event is delivered at most once, in order,    *)
(* and while the server runs only stopping it discards one: a list made    *)
(* anew, by a start that repeats one that raised, belongs to a server that *)
(* is not running yet.                                                     *)
ImplementsEventStream == Stream!Spec

(* Without a callback a queued event is eventually sent, as long as the    *)
(* dispatch thread is at work and the list is not discarded: a batch that  *)
(* grows past MESSAGE_BATCH_SIZE without its job, or whose job was dropped *)
(* by a full buffer, is not forgotten.  A Server that was started again    *)
(* after Server#stop, or whose start raised, has no such thread.           *)
QueuedIsSent ==
  \A e \in Events :
    Queued(e) ~> Sent(e) \/ e \in discarded \/ test_mode_enabled \/ ~dispatching
=============================================================================
