----------------------------- MODULE Profiling -----------------------------
(***************************************************************************)
(* What start, stop and a client's commands switch on and off: the sampling*)
(* profiler, that is an interval timer, its signal and the job the signal  *)
(* registers (ext/rbkit_sampling_profiler.c), and the tracepoints          *)
(* (ext/rbkit_server.c), as lib/rbkit/server.rb drives them.               *)
(*                                                                         *)
(* C code keeps the global lock, so a C function is one step for the other *)
(* threads; a signal may come at any instruction, so installing and        *)
(* removing the profiler take two.  Ruby code may lose the lock between    *)
(* two C functions.  Sockets, requests and replies are ServerLifecycle's,  *)
(* the queue of messages is EventPipeline's.                               *)
(***************************************************************************)
EXTENDS Naturals, Sequences

CONSTANTS
  NULL,
  MaxServers,     \* bound: Server objects created
  MaxStarts       \* bound: calls of start_stat_server

ASSUME BoundsAreNat == MaxServers \in Nat /\ MaxStarts \in Nat

(* wall: ITIMER_REAL and SIGALRM; cpu: ITIMER_PROF and SIGPROF. *)
Clocks == {"wall", "cpu"}

(* What @clock_type may be set to.  Any symbol but :wall stands for the    *)
(* cpu clock; what is no symbol raises.                                    *)
ClockTypes == Clocks \cup {"other symbol", "no symbol"}
ClockOf(clock_type) == IF clock_type = "wall" THEN "wall" ELSE "cpu"

(* What setitimer makes of tv_usec: 0 disarms, a million or more is EINVAL. *)
Intervals == {"usable", "zero", "too long"}

(* hooks: which start_stat_server made its tracepoints. *)
Logger == [enabled : BOOLEAN, sampling_profiler_enabled : BOOLEAN, hooks : Nat]

ASSUME NullIsNoLogger == NULL \notin Logger

Commands == {"start_memory_profile", "stop_memory_profile",
             "use_cpu_time", "use_wall_time",
             "start_cpu_profiling", "stop_cpu_profiling"}

VARIABLES
  server,         \* Rbkit.server: an index of servers, 0 for nil
  servers,        \* the Server objects made so far
  user,           \* where the thread calling the Rbkit API is
  starts,         \* calls of start_stat_server that went well
  logger,         \* NULL or the static logger
  tracepoints,    \* the enabled ones, by the start that made them
  clock,          \* the statics clock_type and signal_type
  call,           \* a C function a signal may interrupt, or "none"
  timer,          \* is the interval timer armed?
  handler,        \* what the signal does
  pending,        \* has the kernel yet to deliver the signal?
  job,            \* is sampling_job_handler registered?
  process,        \* "up", or how it ended
  asked,          \* history: how the profiler was last started
  orphaned,       \* history: a logger was freed with its profiler running
  retried         \* history: a start was repeated after it had raised

Ruby == <<server, servers, user>>
Extension == <<starts, logger, tracepoints>>
Kernel == <<timer, handler, pending>>
History == <<asked, orphaned, retried>>

vars == <<Ruby, Extension, clock, call, Kernel, job, process, History>>

(* Some thread can take the global lock. *)
Free == process = "up" /\ call = "none"

Init ==
  /\ server = 0
  /\ servers = <<>>
  /\ user = "idle"
  /\ starts = 0
  /\ logger = NULL
  /\ tracepoints = {}
  /\ clock = "wall"
  /\ call = "none"
  /\ timer = [c \in Clocks |-> FALSE]
  /\ handler = [c \in Clocks |-> "SIG_DFL"]
  /\ pending = [c \in Clocks |-> FALSE]
  /\ job = FALSE
  /\ process = "up"
  /\ asked = [server |-> 0, interval |-> "usable", changed |-> FALSE]
  /\ orphaned = FALSE
  /\ retried = FALSE

-----------------------------------------------------------------------------
(* The kernel. *)
TimerExpires(c) ==
  /\ process = "up"
  /\ timer[c]
  /\ handler[c] # "SIG_IGN"
  /\ pending' = [pending EXCEPT ![c] = TRUE]
  /\ UNCHANGED <<Ruby, Extension, clock, call, timer, handler, job, process, History>>

(* The default action of both signals ends the process.  signal_handler    *)
(* registers the job, once.                                                *)
DeliverSignal(c) ==
  /\ process = "up"
  /\ pending[c]
  /\ pending' = [pending EXCEPT ![c] = FALSE]
  /\ process' = IF handler[c] = "SIG_DFL" THEN "killed" ELSE process
  /\ job' = (job \/ handler[c] = "signal_handler")
  /\ UNCHANGED <<Ruby, Extension, clock, call, timer, handler, History>>

(* sampling_job_handler, on whichever Ruby thread looks for jobs first.    *)
(* Without a server its sample goes to the destroyed message list, and     *)
(* queue_message does not return (see EventPipeline).                      *)
RunSamplingJob ==
  /\ Free
  /\ job
  /\ job' = FALSE
  /\ process' = IF logger = NULL THEN "hung" ELSE process
  /\ UNCHANGED <<Ruby, Extension, clock, call, Kernel, History>>

start_sigprof_timer(c, interval) ==
  timer' = CASE interval = "usable" -> [timer EXCEPT ![c] = TRUE]
             [] interval = "zero" -> [timer EXCEPT ![c] = FALSE]
             [] interval = "too long" -> timer

stop_sigprof_timer(c) == timer' = [timer EXCEPT ![c] = FALSE]

(* Variant: the handler is installed the first time only. *)
install_signal_handler_once(c) ==
  handler' = [handler EXCEPT ![c] = IF @ = "SIG_DFL" THEN "signal_handler" ELSE @]

install_signal_handler(c) == handler' = [handler EXCEPT ![c] = "signal_handler"]

(* Variant: the default action is put back. *)
uninstall_signal_handler_default(c) ==
  /\ handler' = [handler EXCEPT ![c] = "SIG_DFL"]
  /\ UNCHANGED pending

(* Ignoring a signal discards it if it is pending. *)
uninstall_signal_handler(c) ==
  /\ handler' = [handler EXCEPT ![c] = "SIG_IGN"]
  /\ pending' = [pending EXCEPT ![c] = FALSE]

-----------------------------------------------------------------------------
(* The C functions.  They say what becomes of logger, tracepoints, the     *)
(* statics and the kernel's state; a leading condition is an early return. *)

(* Variant: it is not remembered that the tracepoints are on. *)
start_stat_tracing_forgets_flag(l) ==
  /\ tracepoints' = tracepoints \cup {l.hooks}
  /\ logger' = l

start_stat_tracing(l) ==
  IF l.enabled
    THEN logger' = l /\ UNCHANGED tracepoints
    ELSE /\ tracepoints' = tracepoints \cup {l.hooks}
         /\ logger' = [l EXCEPT !.enabled = TRUE]

stop_stat_tracing ==
  /\ tracepoints' = tracepoints \ {logger.hooks}
  /\ logger' = [logger EXCEPT !.enabled = FALSE]

(* Variant: the default of Server#start_cpu_profiling's clock_type is used. *)
InstallProfiler_wall(s, clock_type, interval) ==
  /\ clock' = "wall"
  /\ install_signal_handler("wall")
  /\ call' = "install"
  /\ asked' = [server |-> s, interval |-> interval, changed |-> FALSE]
  /\ UNCHANGED <<timer, pending>>

(* start_sampling_profiler, rbkit_install_sampling_profiler with its       *)
(* signal handler, for a Server with this @clock_type.                     *)
InstallProfiler(s, clock_type, interval) ==
  /\ clock' = ClockOf(clock_type)
  /\ install_signal_handler(ClockOf(clock_type))
  /\ call' = "install"
  /\ asked' = [server |-> s, interval |-> interval, changed |-> FALSE]
  /\ UNCHANGED <<timer, pending>>

(* Its start_sigprof_timer, whose result is not looked at, and the flag. *)
FinishInstall ==
  /\ process = "up"
  /\ call = "install"
  /\ call' = "none"
  /\ start_sigprof_timer(clock, asked.interval)
  /\ logger' = [logger EXCEPT !.sampling_profiler_enabled = TRUE]
  /\ UNCHANGED <<Ruby, starts, tracepoints, clock, handler, pending, job, process, History>>

(* Variant: the timer of the clock chosen now is stopped. *)
StopProfiler_of_setting(s) ==
  IF logger.sampling_profiler_enabled
    THEN /\ stop_sigprof_timer(ClockOf(servers[s].clock_type))
         /\ call' = "uninstall"
    ELSE UNCHANGED <<timer, call>>

(* stop_sampling_profiler, stop_sigprof_timer. *)
StopProfiler(s) ==
  IF logger.sampling_profiler_enabled
    THEN stop_sigprof_timer(clock) /\ call' = "uninstall"
    ELSE UNCHANGED <<timer, call>>

(* uninstall_signal_handler, and the flag. *)
FinishUninstall ==
  /\ process = "up"
  /\ call = "uninstall"
  /\ call' = "none"
  /\ uninstall_signal_handler(clock)
  /\ logger' = [logger EXCEPT !.sampling_profiler_enabled = FALSE]
  /\ UNCHANGED <<Ruby, starts, tracepoints, clock, timer, job, process, History>>

-----------------------------------------------------------------------------
(* Server.new: ports are given or, with portless, both nil. *)
NewServer(portless) ==
  [portless |-> portless, stop_profiler_thread |-> FALSE,
   server_running |-> FALSE, clock_type |-> "cpu", interval |-> "usable",
   dispatch |-> FALSE, command |-> NULL]

(* Rbkit.start_server and start_profiling, Server#start, start_stat_server *)
(* for ports that are free.  After a start that raised, the old logger is  *)
(* still there and gets new tracepoints; with ports that cannot happen,    *)
(* for the server's own sockets hold them.                                 *)
StartServer ==
  /\ Free
  /\ user = "idle"
  /\ starts < MaxStarts
  /\ \/ /\ server = 0 /\ Len(servers) < MaxServers
        /\ \E portless \in BOOLEAN : servers' = Append(servers, NewServer(portless))
     \/ /\ server # 0 /\ ~servers[server].server_running
        /\ UNCHANGED servers
  /\ server' = IF server = 0 THEN Len(servers') ELSE server
  /\ logger # NULL => servers'[server'].portless
  /\ user' = "starting"
  /\ starts' = starts + 1
  /\ logger' = IF logger = NULL
                 THEN [enabled |-> FALSE, sampling_profiler_enabled |-> FALSE,
                       hooks |-> starts + 1]
                 ELSE [logger EXCEPT !.hooks = starts + 1]
  /\ retried' = (retried \/ logger # NULL)
  /\ UNCHANGED <<tracepoints, clock, call, Kernel, job, process, asked, orphaned>>

(* The settings start keeps: those it is given, else those it has. *)
Settings(old, clock_type, interval) ==
  [old EXCEPT !.clock_type = IF clock_type = NULL THEN @ ELSE clock_type,
              !.interval = IF interval = NULL THEN @ ELSE interval]

(* The rest of Server#start.  The new dispatch thread ends at once when    *)
(* the Server was stopped before (see ServerLifecycle).                    *)
Running(s) ==
  [s EXCEPT !.server_running = TRUE, !.dispatch = @ \/ ~s.stop_profiler_thread]

FinishStart ==
  /\ Free
  /\ user = "starting"
  /\ user' = "idle"
  /\ \E trace, profile \in BOOLEAN,
        clock_type \in ClockTypes \cup {NULL},
        interval \in Intervals \cup {NULL} :
       LET old == servers[server]
           set == Settings(old, clock_type, interval)
           starting == profile /\ ~logger.sampling_profiler_enabled
           raises == starting /\ set.clock_type = "no symbol" IN
       /\ IF trace THEN start_stat_tracing(logger)
                   ELSE UNCHANGED <<logger, tracepoints>>
       /\ servers' = [servers EXCEPT
            ![server] = IF raises THEN set ELSE Running(set)]
       /\ IF starting /\ ~raises
            THEN InstallProfiler(server, set.clock_type, set.interval)
            ELSE /\ asked' = [asked EXCEPT !.changed =
                      @ \/ (server = asked.server /\ set.clock_type # old.clock_type)]
                 /\ UNCHANGED <<clock, call, timer, handler, pending>>
  /\ UNCHANGED <<server, starts, job, process, orphaned, retried>>

(* Rbkit.stop_server and Server#stop, which sets the flag of the dispatch  *)
(* thread and calls stop_cpu_profiling.                                    *)
stop ==
  /\ Free
  /\ user = "idle"
  /\ server # 0 /\ servers[server].server_running
  /\ user' = "stopping"
  /\ servers' = [servers EXCEPT ![server].stop_profiler_thread = TRUE]
  /\ StopProfiler(server)
  /\ UNCHANGED <<server, Extension, clock, handler, pending, job, process, History>>

(* Variant: the Server goes on taking itself for running. *)
stop_stat_server_stays_running ==
  /\ Free
  /\ user = "stopping"
  /\ user' = "idle"
  /\ tracepoints' = IF logger.enabled THEN tracepoints \ {logger.hooks} ELSE tracepoints
  /\ logger' = NULL
  /\ orphaned' = (orphaned \/ logger.sampling_profiler_enabled)
  /\ server' \in {server, 0}
  /\ UNCHANGED <<servers, starts, clock, call, Kernel, job, process, asked, retried>>

(* stop_stat_server, which does not look at the profiler; @server_running; *)
(* and, unless user code called Server#stop itself, @server = nil.         *)
stop_stat_server ==
  /\ Free
  /\ user = "stopping"
  /\ user' = "idle"
  /\ tracepoints' = IF logger.enabled THEN tracepoints \ {logger.hooks} ELSE tracepoints
  /\ logger' = NULL
  /\ orphaned' = (orphaned \/ logger.sampling_profiler_enabled)
  /\ servers' = [servers EXCEPT ![server].server_running = FALSE]
  /\ server' \in {server, 0}
  /\ UNCHANGED <<starts, clock, call, Kernel, job, process, asked, retried>>

-----------------------------------------------------------------------------
(* The dispatch thread of Server s has polled a command and found the      *)
(* Server running; it may lose the global lock before it runs the command. *)
ReceiveCommand(s) ==
  /\ Free
  /\ servers[s].dispatch /\ ~servers[s].portless
  /\ servers[s].command = NULL
  /\ servers[s].server_running
  /\ \E c \in Commands : servers' = [servers EXCEPT ![s].command = c]
  /\ UNCHANGED <<server, user, Extension, clock, call, Kernel, job, process, History>>

(* Back at the top of the loop, the flag is looked at. *)
Done(s) == [s EXCEPT !.command = NULL, !.dispatch = ~s.stop_profiler_thread]

EndDispatchThread(s) ==
  /\ Free
  /\ servers[s].dispatch /\ servers[s].stop_profiler_thread
  /\ servers[s].command = NULL
  /\ servers' = [servers EXCEPT ![s].dispatch = FALSE]
  /\ UNCHANGED <<server, user, Extension, clock, call, Kernel, job, process, History>>

TraceCommand(s) ==
  /\ servers[s].command \in {"start_memory_profile", "stop_memory_profile"}
  /\ IF servers[s].command = "start_memory_profile"
       THEN start_stat_tracing(logger)
       ELSE stop_stat_tracing
  /\ servers' = [servers EXCEPT ![s] = Done(@)]
  /\ UNCHANGED <<clock, call, timer, handler, pending, asked>>

ClockCommand(s) ==
  /\ servers[s].command \in {"use_cpu_time", "use_wall_time"}
  /\ LET c == IF servers[s].command = "use_cpu_time" THEN "cpu" ELSE "wall" IN
       /\ servers' = [servers EXCEPT ![s] = [Done(@) EXCEPT !.clock_type = c]]
       /\ asked' = [asked EXCEPT !.changed =
                      @ \/ (s = asked.server /\ c # servers[s].clock_type)]
  /\ UNCHANGED <<logger, tracepoints, clock, call, timer, handler, pending>>

(* A clock_type that is no symbol raises and ends the dispatch thread. *)
StartProfilingCommand(s) ==
  /\ servers[s].command = "start_cpu_profiling"
  /\ LET starting == ~logger.sampling_profiler_enabled
         raises == starting /\ servers[s].clock_type = "no symbol" IN
       /\ servers' = [servers EXCEPT ![s] =
            [Done(servers[s]) EXCEPT !.dispatch = @ /\ ~raises]]
       /\ IF starting /\ ~raises
            THEN InstallProfiler(s, servers[s].clock_type, servers[s].interval)
            ELSE UNCHANGED <<clock, call, timer, handler, pending, asked>>
  /\ UNCHANGED <<logger, tracepoints>>

StopProfilingCommand(s) ==
  /\ servers[s].command = "stop_cpu_profiling"
  /\ StopProfiler(s)
  /\ servers' = [servers EXCEPT ![s] = Done(@)]
  /\ UNCHANGED <<logger, tracepoints, clock, handler, pending, asked>>

(* Without a logger all but the clock commands end the process. *)
RunCommand(s) ==
  /\ Free
  /\ servers[s].command # NULL
  /\ IF logger = NULL /\ servers[s].command \notin {"use_cpu_time", "use_wall_time"}
       THEN /\ process' = "crashed"
            /\ UNCHANGED <<servers, logger, tracepoints, clock, call, Kernel, asked>>
       ELSE /\ \/ TraceCommand(s)
               \/ ClockCommand(s)
               \/ StartProfilingCommand(s)
               \/ StopProfilingCommand(s)
            /\ UNCHANGED process
  /\ UNCHANGED <<server, user, starts, job, orphaned, retried>>

Next ==
  \/ \E c \in Clocks : TimerExpires(c) \/ DeliverSignal(c)
  \/ RunSamplingJob
  \/ FinishInstall
  \/ FinishUninstall
  \/ StartServer
  \/ FinishStart
  \/ stop
  \/ stop_stat_server
  \/ \E s \in DOMAIN servers :
       \/ ReceiveCommand(s)
       \/ EndDispatchThread(s)
       \/ RunCommand(s)

(* The kernel's timers and signals go on, a C function runs to its end,    *)
(* and some Ruby thread soon looks for registered jobs.  Of users, clients *)
(* and dispatch threads nothing is assumed.                                *)
Spec ==
  /\ Init /\ [][Next]_vars
  /\ \A c \in Clocks : WF_vars(TimerExpires(c)) /\ WF_vars(DeliverSignal(c))
  /\ WF_vars(RunSamplingJob)
  /\ WF_vars(FinishInstall) /\ WF_vars(FinishUninstall)

-----------------------------------------------------------------------------
Server ==
  [portless : BOOLEAN, stop_profiler_thread : BOOLEAN, server_running : BOOLEAN,
   clock_type : ClockTypes, interval : Intervals,
   dispatch : BOOLEAN, command : Commands \cup {NULL}]

(* A running server has its logger, and that the tracepoints of a start    *)
(* that was made.                                                          *)
TypeOK ==
  /\ servers \in Seq(Server) /\ Len(servers) <= MaxServers
  /\ server \in 0 .. Len(servers)
  /\ user \in {"idle", "starting", "stopping"}
  /\ starts \in 0 .. MaxStarts
  /\ \/ logger = NULL
     \/ logger \in Logger /\ logger.hooks \in 1 .. starts
  /\ \A s \in DOMAIN servers : servers[s].server_running => logger # NULL
  /\ tracepoints \subseteq 1 .. starts
  /\ clock \in Clocks
  /\ call \in {"none", "install", "uninstall"}
  /\ timer \in [Clocks -> BOOLEAN]
  /\ handler \in [Clocks -> {"SIG_DFL", "signal_handler", "SIG_IGN"}]
  /\ pending \in [Clocks -> BOOLEAN]
  /\ job \in BOOLEAN
  /\ process \in {"up", "killed", "crashed", "hung"}
  /\ asked \in [server : 0 .. Len(servers), interval : Intervals, changed : BOOLEAN]
  /\ orphaned \in BOOLEAN
  /\ retried \in BOOLEAN

(* However starts, stops and commands of two servers interleave with the   *)
(* signals, no SIGALRM or SIGPROF ever finds its default action, which     *)
(* would end the profiled process: handlers come before their timers and   *)
(* stay until no signal of theirs can be on its way.                       *)
NeverKilled == process # "killed"

Sampling == logger # NULL /\ logger.sampling_profiler_enabled

(* The flag that status reports and that guards starting and stopping is   *)
(* the truth about timers and handlers: those of the clock chosen at the   *)
(* start are in place, the other clock's are not, and after a stop neither *)
(* is.  Exceptions: an interval setitimer refuses, and a command that      *)
(* started the profiler between stop_cpu_profiling and stop_stat_server.   *)
TimersMatchProfiler ==
  Free /\ ~orphaned =>
    \A c \in Clocks :
      /\ handler[c] = "signal_handler" <=> Sampling /\ clock = c
      /\ timer[c] <=> Sampling /\ clock = c /\ asked.interval = "usable"

(* The clock in use is the one the clock_type that status reports stands   *)
(* for, unless that was set anew after the profiler had been started, or   *)
(* the profiler was started by another Server's dispatch thread.           *)
StatusIsTrueUnlessChanged ==
  \A s \in DOMAIN servers :
    servers[s].server_running /\ Sampling /\ s = asked.server /\ ~asked.changed
      => clock = ClockOf(servers[s].clock_type)

(* The enabled tracepoints are those of the live logger, when its flag is  *)
(* set, and no others: none is left pointing to a freed logger.  A start   *)
(* that raised and was repeated, which it can be without ports only, makes *)
(* new tracepoints and loses the old ones.                                 *)
TracepointsHaveLogger ==
  ~retried =>
    tracepoints = IF logger # NULL /\ logger.enabled THEN {logger.hooks} ELSE {}

(* While the profiler is on with a usable interval, samples keep coming.   *)
SamplesAreTaken ==
  \/ []<><<RunSamplingJob>>_vars
  \/ []<>~(process = "up" /\ Sampling /\ asked.interval = "usable")
=============================================================================
