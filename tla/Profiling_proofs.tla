-------------------------- MODULE Profiling_proofs --------------------------
(***************************************************************************)
(* Proofs about Profiling, for any number of servers and starts.           *)
(***************************************************************************)
EXTENDS Profiling, SequenceTheorems, TLAPS

(* Who may need the logger: the running server, which is Rbkit.server, a   *)
(* start or stop under way, and a C function interrupted by a signal.      *)
LoggerIsThere ==
  /\ \A s \in DOMAIN servers : servers[s].server_running => s = server
  /\ user # "idle" => server # 0 /\ logger # NULL
  /\ call # "none" => logger # NULL

(* A handler is installed before its timer, and never replaced by the      *)
(* default action.                                                         *)
SignalsAreHandled ==
  /\ \A c \in Clocks : timer[c] \/ pending[c] => handler[c] # "SIG_DFL"
  /\ call = "install" => handler[clock] # "SIG_DFL"

(* TimersMatchProfiler, also in the middle of installing and removing, and *)
(* after the process has ended.                                            *)
TimersMatchCall ==
  ~orphaned =>
    /\ call = "install" => ~Sampling
    /\ call = "uninstall" => Sampling
    /\ \A c \in Clocks :
         /\ handler[c] = "signal_handler"
              <=> (Sampling \/ call = "install") /\ clock = c
         /\ timer[c]
              <=> Sampling /\ call = "none" /\ clock = c /\ asked.interval = "usable"

(* StatusIsTrueUnlessChanged, also when the profiler is off or its Server  *)
(* does not run.                                                           *)
ClockIsAsAsked ==
  \A s \in DOMAIN servers :
    s = asked.server /\ ~asked.changed => clock = ClockOf(servers[s].clock_type)

Inv ==
  /\ TypeOK
  /\ LoggerIsThere
  /\ SignalsAreHandled
  /\ NeverKilled
  /\ TimersMatchCall
  /\ ClockIsAsAsked
  /\ TracepointsHaveLogger

USE NullIsNoLogger, BoundsAreNat DEF Clocks

-----------------------------------------------------------------------------
(* Sequences of Server records: one is changed, or one is added. *)
LEMMA ServerChanged ==
  ASSUME TypeOK, NEW s \in DOMAIN servers, NEW x \in Server,
         servers' = [servers EXCEPT ![s] = x]
  PROVE  /\ servers' \in Seq(Server)
         /\ Len(servers') = Len(servers)
         /\ DOMAIN servers' = DOMAIN servers
         /\ \A r \in DOMAIN servers : servers'[r] = IF r = s THEN x ELSE servers[r]
BY ExceptSeq, LenProperties DEF TypeOK

LEMMA ServersAreTyped ==
  ASSUME TypeOK
  PROVE  /\ Len(servers) \in Nat
         /\ DOMAIN servers = 1 .. Len(servers)
         /\ \A s \in DOMAIN servers : servers[s] \in Server
         /\ server # 0 => server \in DOMAIN servers
BY LenProperties, ElementOfSeq DEF TypeOK

LEMMA InitHasInv == Init => Inv
<1> SUFFICES ASSUME Init PROVE Inv
  OBVIOUS
<1>1. servers \in Seq(Server) /\ Len(servers) = 0 /\ DOMAIN servers = {}
  BY EmptySeq DEF Init
<1>2. TypeOK
  <2>1. /\ timer \in [Clocks -> BOOLEAN] /\ pending \in [Clocks -> BOOLEAN]
        /\ handler \in [Clocks -> {"SIG_DFL", "signal_handler", "SIG_IGN"}]
    BY DEF Init
  <2>2. asked \in [server : 0 .. Len(servers), interval : Intervals, changed : BOOLEAN]
    BY <1>1 DEF Init, Intervals
  <2>3. /\ server \in 0 .. Len(servers) /\ Len(servers) <= MaxServers
        /\ starts \in 0 .. MaxStarts
        /\ tracepoints \subseteq 1 .. starts
    BY <1>1 DEF Init
  <2>4. /\ job \in BOOLEAN /\ orphaned \in BOOLEAN /\ retried \in BOOLEAN
        /\ logger = NULL
    BY DEF Init
  <2>5. \A s \in DOMAIN servers : servers[s].server_running => logger # NULL
    BY <1>1
  <2> QED BY <1>1, <2>1, <2>2, <2>3, <2>4, <2>5 DEF Init, TypeOK
<1> QED
  BY <1>1, <1>2 DEF Init, Inv, LoggerIsThere, SignalsAreHandled, NeverKilled,
    TimersMatchCall, ClockIsAsAsked, TracepointsHaveLogger, Sampling

-----------------------------------------------------------------------------
(* The kernel and the sampling job. *)
LEMMA TimerExpiresKeepsInv ==
  ASSUME Inv, NEW c \in Clocks, TimerExpires(c)
  PROVE  Inv'
BY DEF TimerExpires, Ruby, Extension, History,
  Inv, TypeOK, LoggerIsThere, SignalsAreHandled, NeverKilled,
  TimersMatchCall, ClockIsAsAsked, TracepointsHaveLogger, Sampling

LEMMA DeliverSignalKeepsInv ==
  ASSUME Inv, NEW c \in Clocks, DeliverSignal(c)
  PROVE  Inv'
BY DEF DeliverSignal, Ruby, Extension, History,
  Inv, TypeOK, LoggerIsThere, SignalsAreHandled, NeverKilled,
  TimersMatchCall, ClockIsAsAsked, TracepointsHaveLogger, Sampling

LEMMA RunSamplingJobKeepsInv == Inv /\ RunSamplingJob => Inv'
<1> SUFFICES ASSUME Inv, RunSamplingJob PROVE Inv'
  OBVIOUS
<1>1. process' \in {"up", "hung"} /\ job' = FALSE
  BY DEF RunSamplingJob, Free
<1> QED
  BY <1>1 DEF RunSamplingJob, Ruby, Extension, Kernel, History,
    Inv, TypeOK, LoggerIsThere, SignalsAreHandled, NeverKilled,
    TimersMatchCall, ClockIsAsAsked, TracepointsHaveLogger, Sampling

(* The two C functions a signal may interrupt come to their ends. *)
LEMMA FinishInstallKeepsInv == Inv /\ FinishInstall => Inv'
<1> SUFFICES ASSUME Inv, FinishInstall PROVE Inv'
  OBVIOUS
<1>1. /\ logger \in Logger
      /\ logger' \in Logger /\ logger' # NULL
      /\ logger'.hooks = logger.hooks /\ logger'.enabled = logger.enabled
      /\ logger'.sampling_profiler_enabled = TRUE
  BY DEF FinishInstall, Inv, TypeOK, LoggerIsThere, Logger
<1>2. /\ timer' \in [Clocks -> BOOLEAN]
      /\ \A c \in Clocks : timer'[c] =
           IF c = clock /\ asked.interval # "too long"
             THEN asked.interval = "usable" ELSE timer[c]
  BY DEF FinishInstall, start_sigprof_timer, Inv, TypeOK, Intervals
<1> QED
  BY <1>1, <1>2 DEF FinishInstall, Ruby, History,
    Inv, TypeOK, LoggerIsThere, SignalsAreHandled, NeverKilled,
    TimersMatchCall, ClockIsAsAsked, TracepointsHaveLogger, Sampling, Intervals

LEMMA FinishUninstallKeepsInv == Inv /\ FinishUninstall => Inv'
<1> SUFFICES ASSUME Inv, FinishUninstall PROVE Inv'
  OBVIOUS
<1>1. /\ logger \in Logger
      /\ logger' \in Logger /\ logger' # NULL
      /\ logger'.hooks = logger.hooks /\ logger'.enabled = logger.enabled
      /\ logger'.sampling_profiler_enabled = FALSE
  BY DEF FinishUninstall, Inv, TypeOK, LoggerIsThere, Logger
<1> QED
  BY <1>1 DEF FinishUninstall, uninstall_signal_handler, Ruby, History,
    Inv, TypeOK, LoggerIsThere, SignalsAreHandled, NeverKilled,
    TimersMatchCall, ClockIsAsAsked, TracepointsHaveLogger, Sampling

-----------------------------------------------------------------------------
(* Starting and stopping. *)
LEMMA StartServerKeepsInv == Inv /\ StartServer => Inv'
<1> SUFFICES ASSUME Inv, StartServer PROVE Inv'
  OBVIOUS
<1>1. /\ servers' \in Seq(Server) /\ Len(servers') <= MaxServers
      /\ Len(servers) <= Len(servers') /\ Len(servers') \in Nat
      /\ DOMAIN servers' = 1 .. Len(servers')
      /\ \A s \in DOMAIN servers : s \in DOMAIN servers' /\ servers'[s] = servers[s]
      /\ \A s \in DOMAIN servers' \ DOMAIN servers :
           ~servers'[s].server_running /\ server = 0
      /\ server' \in 1 .. Len(servers')
      /\ server # 0 => server' = server
  <2>1. CASE server = 0
    <3>1. PICK portless \in BOOLEAN : servers' = Append(servers, NewServer(portless))
      BY <2>1 DEF StartServer
    <3>2. NewServer(portless) \in Server /\ ~NewServer(portless).server_running
      BY DEF NewServer, Server, Intervals, ClockTypes
    <3>3. /\ Len(servers) < MaxServers /\ server' = Len(servers')
      BY <2>1 DEF StartServer
    <3> HIDE DEF NewServer
    <3> QED
      BY <2>1, <3>1, <3>2, <3>3, AppendProperties, LenProperties, ServersAreTyped
        DEF Inv, TypeOK
  <2>2. CASE server # 0
    BY <2>2, ServersAreTyped DEF StartServer, Inv, TypeOK
  <2> QED BY <2>1, <2>2
<1>2. /\ logger' \in Logger /\ logger' # NULL /\ logger'.hooks = starts + 1
      /\ logger = NULL => ~logger'.enabled
      /\ Sampling' <=> Sampling
  <2>1. starts + 1 \in Nat
    BY DEF Inv, TypeOK
  <2>2. CASE logger = NULL
    <3>1. logger' = [enabled |-> FALSE, sampling_profiler_enabled |-> FALSE,
                     hooks |-> starts + 1]
      BY <2>2 DEF StartServer
    <3>2. /\ logger' \in Logger /\ logger'.hooks = starts + 1
          /\ ~logger'.enabled /\ ~logger'.sampling_profiler_enabled
      BY <2>1, <3>1 DEF Logger
    <3> QED BY <2>2, <3>2 DEF Sampling
  <2>3. CASE logger # NULL
    <3>1. logger \in Logger /\ logger' = [logger EXCEPT !.hooks = starts + 1]
      BY <2>3 DEF StartServer, Inv, TypeOK
    <3>2. /\ logger' \in Logger /\ logger'.hooks = starts + 1
          /\ logger'.sampling_profiler_enabled = logger.sampling_profiler_enabled
      BY <2>1, <3>1 DEF Logger
    <3> QED BY <2>3, <3>2 DEF Sampling
  <2> QED BY <2>2, <2>3
<1>3. /\ starts \in Nat /\ starts' = starts + 1 /\ starts' <= MaxStarts
      /\ user' = "starting" /\ call = "none"
      /\ retried' = (retried \/ logger # NULL)
      /\ UNCHANGED <<tracepoints, clock, call, timer, handler, pending, job,
                     process, asked, orphaned>>
  BY DEF StartServer, Free, Kernel, Inv, TypeOK
<1>4. TypeOK'
  <2>1. asked' \in [server : 0 .. Len(servers'), interval : Intervals, changed : BOOLEAN]
    BY <1>1, <1>3, ServersAreTyped DEF Inv, TypeOK
  <2>2. tracepoints' \subseteq 1 .. starts'
    BY <1>3 DEF Inv, TypeOK
  <2>3. retried' \in BOOLEAN
    BY <1>3 DEF Inv, TypeOK
  <2> QED BY <1>1, <1>2, <1>3, <2>1, <2>2, <2>3 DEF Inv, TypeOK
<1>5. LoggerIsThere'
  <2>1. \A s \in DOMAIN servers' : servers'[s].server_running => s = server'
    <3>1. \A s \in DOMAIN servers : s # 0
      BY ServersAreTyped DEF Inv
    <3> QED BY <1>1, <3>1 DEF Inv, LoggerIsThere
  <2> QED BY <1>1, <1>2, <1>3, <2>1 DEF LoggerIsThere
<1>6. SignalsAreHandled' /\ NeverKilled'
  BY <1>3 DEF Inv, SignalsAreHandled, NeverKilled
<1>7. TimersMatchCall'
  BY <1>2, <1>3 DEF Inv, TimersMatchCall
<1>8. ClockIsAsAsked'
  <2>1. asked.server \in 0 .. Len(servers)
    BY DEF Inv, TypeOK
  <2>2. \A s \in DOMAIN servers' : s = asked.server => s \in DOMAIN servers
    BY <1>1, <2>1, ServersAreTyped DEF Inv
  <2> QED BY <1>1, <1>3, <2>2 DEF Inv, ClockIsAsAsked
<1>9. TracepointsHaveLogger'
  BY <1>2, <1>3 DEF Inv, TracepointsHaveLogger
<1> QED BY <1>4, <1>5, <1>6, <1>7, <1>8, <1>9 DEF Inv

(* The tracepoints go with the logger's flag. *)
LEMMA TracingStarted ==
  ASSUME Inv, logger # NULL, start_stat_tracing(logger), UNCHANGED <<starts, retried>>
  PROVE  /\ logger' \in Logger /\ logger'.hooks \in 1 .. starts
         /\ logger'.sampling_profiler_enabled = logger.sampling_profiler_enabled
         /\ tracepoints' \subseteq 1 .. starts
         /\ TracepointsHaveLogger'
<1>1. logger \in Logger /\ logger.hooks \in 1 .. starts
  BY DEF Inv, TypeOK
<1>2. CASE logger.enabled
  <2>1. logger' = logger /\ tracepoints' = tracepoints
    BY <1>2 DEF start_stat_tracing
  <2> QED BY <1>1, <2>1 DEF Inv, TypeOK, TracepointsHaveLogger
<1>3. CASE ~logger.enabled
  <2>1. /\ tracepoints' = tracepoints \cup {logger.hooks}
        /\ logger' = [logger EXCEPT !.enabled = TRUE]
    BY <1>3 DEF start_stat_tracing
  <2>2. /\ logger' \in Logger /\ logger'.hooks = logger.hooks /\ logger'.enabled
        /\ logger'.sampling_profiler_enabled = logger.sampling_profiler_enabled
    BY <1>1, <2>1 DEF Logger
  <2> QED BY <1>1, <1>3, <2>1, <2>2 DEF Inv, TypeOK, TracepointsHaveLogger
<1> QED BY <1>2, <1>3

LEMMA TracingStopped ==
  ASSUME Inv, logger # NULL, stop_stat_tracing, UNCHANGED <<starts, retried>>
  PROVE  /\ logger' \in Logger /\ logger'.hooks \in 1 .. starts
         /\ logger'.sampling_profiler_enabled = logger.sampling_profiler_enabled
         /\ tracepoints' \subseteq 1 .. starts
         /\ TracepointsHaveLogger'
<1>1. logger \in Logger /\ logger.hooks \in 1 .. starts
  BY DEF Inv, TypeOK
<1>2. /\ tracepoints' = tracepoints \ {logger.hooks}
      /\ logger' = [logger EXCEPT !.enabled = FALSE]
  BY DEF stop_stat_tracing
<1>3. /\ logger' \in Logger /\ logger'.hooks = logger.hooks /\ ~logger'.enabled
      /\ logger'.sampling_profiler_enabled = logger.sampling_profiler_enabled
  BY <1>1, <1>2 DEF Logger
<1> QED BY <1>1, <1>2, <1>3 DEF Inv, TypeOK, TracepointsHaveLogger

(* Installing the profiler, up to the handler, while no profiler is on. *)
LEMMA ProfilerInstalled ==
  ASSUME Inv, call = "none", ~Sampling, ~Sampling', UNCHANGED <<process, orphaned>>,
         NEW s \in DOMAIN servers, NEW set \in ClockTypes, NEW interval \in Intervals,
         InstallProfiler(s, set, interval),
         Len(servers') = Len(servers), servers'[s].clock_type = set
  PROVE  /\ clock' \in Clocks /\ call' = "install"
         /\ timer' \in [Clocks -> BOOLEAN] /\ pending' \in [Clocks -> BOOLEAN]
         /\ handler' \in [Clocks -> {"SIG_DFL", "signal_handler", "SIG_IGN"}]
         /\ asked' \in [server : 0 .. Len(servers'), interval : Intervals, changed : BOOLEAN]
         /\ SignalsAreHandled' /\ TimersMatchCall' /\ ClockIsAsAsked'
<1> DEFINE c == ClockOf(set)
<1>1. /\ clock' = c /\ c \in Clocks /\ call' = "install"
      /\ handler' = [handler EXCEPT ![c] = "signal_handler"]
      /\ asked' = [server |-> s, interval |-> interval, changed |-> FALSE]
      /\ UNCHANGED <<timer, pending>>
  BY DEF InstallProfiler, install_signal_handler, ClockOf
<1> HIDE DEF c
<1>2. s \in 0 .. Len(servers)
  BY ServersAreTyped DEF Inv
<1>3. asked' \in [server : 0 .. Len(servers'), interval : Intervals, changed : BOOLEAN]
  BY <1>1, <1>2
<1>4. handler' \in [Clocks -> {"SIG_DFL", "signal_handler", "SIG_IGN"}]
  BY <1>1 DEF Inv, TypeOK
<1>5. SignalsAreHandled'
  BY <1>1 DEF Inv, TypeOK, SignalsAreHandled
<1>6. TimersMatchCall'
  BY <1>1 DEF Inv, TypeOK, TimersMatchCall
<1>7. ClockIsAsAsked'
  BY <1>1 DEF ClockIsAsAsked, c
<1> QED BY <1>1, <1>3, <1>4, <1>5, <1>6, <1>7 DEF Inv, TypeOK

(* A Server's clock is set while the profiler is left alone. *)
LEMMA ProfilerUntouched ==
  ASSUME Inv, NEW s \in DOMAIN servers, NEW x \in Server,
         servers' = [servers EXCEPT ![s] = x],
         Sampling' <=> Sampling,
         UNCHANGED <<clock, call, timer, handler, pending, process, orphaned>>,
         asked' = [asked EXCEPT !.changed =
                     @ \/ (s = asked.server /\ x.clock_type # servers[s].clock_type)]
  PROVE  /\ clock' \in Clocks /\ call' \in {"none", "install", "uninstall"}
         /\ timer' \in [Clocks -> BOOLEAN] /\ pending' \in [Clocks -> BOOLEAN]
         /\ handler' \in [Clocks -> {"SIG_DFL", "signal_handler", "SIG_IGN"}]
         /\ asked' \in [server : 0 .. Len(servers'), interval : Intervals, changed : BOOLEAN]
         /\ SignalsAreHandled' /\ TimersMatchCall' /\ ClockIsAsAsked'
<1>1. /\ Len(servers') = Len(servers) /\ DOMAIN servers' = DOMAIN servers
      /\ \A r \in DOMAIN servers : servers'[r] = IF r = s THEN x ELSE servers[r]
  BY ServerChanged DEF Inv
<1>2. asked \in [server : 0 .. Len(servers), interval : Intervals, changed : BOOLEAN]
  BY DEF Inv, TypeOK
<1>3. /\ asked'.server = asked.server /\ asked'.interval = asked.interval
      /\ asked'.changed <=>
           asked.changed \/ (s = asked.server /\ x.clock_type # servers[s].clock_type)
      /\ asked' \in [server : 0 .. Len(servers'), interval : Intervals, changed : BOOLEAN]
  BY <1>1, <1>2
<1>4. ClockIsAsAsked'
  BY <1>1, <1>3 DEF Inv, ClockIsAsAsked
<1> QED BY <1>3, <1>4 DEF Inv, TypeOK, SignalsAreHandled, TimersMatchCall

LEMMA FinishStartKeepsInv == Inv /\ FinishStart => Inv'
<1> SUFFICES ASSUME Inv, FinishStart PROVE Inv'
  OBVIOUS
<1>1. /\ logger \in Logger /\ logger # NULL /\ logger.hooks \in 1 .. starts
      /\ server \in DOMAIN servers /\ servers[server] \in Server
      /\ call = "none" /\ user' = "idle"
      /\ UNCHANGED <<server, starts, job, process, orphaned, retried>>
  BY ServersAreTyped DEF FinishStart, Free, Inv, TypeOK, LoggerIsThere
<1>2. PICK trace \in BOOLEAN, profile \in BOOLEAN,
           clock_type \in ClockTypes \cup {NULL},
           interval \in Intervals \cup {NULL} :
        LET old == servers[server]
            set == Settings(old, clock_type, interval)
            starting == profile /\ ~logger.sampling_profiler_enabled
            raises == starting /\ set.clock_type = "no symbol" IN
        /\ IF trace THEN start_stat_tracing(logger)
                    ELSE UNCHANGED <<logger, tracepoints>>
        /\ servers' = [servers EXCEPT
             ![server] = IF raises THEN set ELSE Running(set)]
        /\ IF starting /\ ~raises
             THEN InstallProfiler(server, set.clock_type, set.interval)
             ELSE /\ asked' = [asked EXCEPT !.changed =
                       @ \/ (server = asked.server /\ set.clock_type # old.clock_type)]
                  /\ UNCHANGED <<clock, call, timer, handler, pending>>
  BY DEF FinishStart
<1> DEFINE old == servers[server]
           set == Settings(old, clock_type, interval)
           starting == profile /\ ~logger.sampling_profiler_enabled
           raises == starting /\ set.clock_type = "no symbol"
           now == IF raises THEN set ELSE Running(set)
<1>3. /\ set \in Server
      /\ Running(set) \in Server /\ Running(set).clock_type = set.clock_type
  <2>1. set \in Server
    BY <1>1 DEF Settings, Server
  <2> HIDE DEF set
  <2> QED BY <2>1 DEF Running, Server
<1>4. now \in Server /\ now.clock_type = set.clock_type
  BY <1>3
<1>5. servers' = [servers EXCEPT ![server] = now]
  BY <1>2
<1> HIDE DEF now
<1>6. /\ servers' \in Seq(Server)
      /\ Len(servers') = Len(servers) /\ DOMAIN servers' = DOMAIN servers
      /\ \A r \in DOMAIN servers : servers'[r] = IF r = server THEN now ELSE servers[r]
  BY <1>1, <1>4, <1>5, ServerChanged DEF Inv
<1>7. /\ logger' \in Logger /\ logger'.hooks \in 1 .. starts
      /\ logger'.sampling_profiler_enabled = logger.sampling_profiler_enabled
      /\ tracepoints' \subseteq 1 .. starts
      /\ TracepointsHaveLogger'
  BY <1>1, <1>2, TracingStarted DEF Inv, TypeOK, TracepointsHaveLogger
<1>8. Sampling' <=> Sampling
  BY <1>1, <1>7 DEF Sampling
<1>9. /\ clock' \in Clocks /\ call' \in {"none", "install", "uninstall"}
      /\ timer' \in [Clocks -> BOOLEAN] /\ pending' \in [Clocks -> BOOLEAN]
      /\ handler' \in [Clocks -> {"SIG_DFL", "signal_handler", "SIG_IGN"}]
      /\ asked' \in [server : 0 .. Len(servers'), interval : Intervals, changed : BOOLEAN]
      /\ SignalsAreHandled' /\ TimersMatchCall' /\ ClockIsAsAsked'
  <2>1. CASE starting /\ ~raises
    <3>1. InstallProfiler(server, set.clock_type, set.interval)
      BY <1>2, <2>1
    <3>2. set.clock_type \in ClockTypes /\ set.interval \in Intervals
      BY <1>3, <2>1 DEF Server
    <3>3. ~Sampling /\ ~Sampling'
      BY <1>8, <2>1 DEF Sampling
    <3>4. servers'[server].clock_type = set.clock_type
      BY <1>1, <1>4, <1>6
    <3> HIDE DEF set
    <3> QED BY <1>1, <1>6, <3>1, <3>2, <3>3, <3>4, ProfilerInstalled
  <2>2. CASE ~(starting /\ ~raises)
    <3>1. /\ asked' = [asked EXCEPT !.changed =
               @ \/ (server = asked.server /\ now.clock_type # servers[server].clock_type)]
          /\ UNCHANGED <<clock, call, timer, handler, pending>>
      BY <1>2, <1>4, <2>2
    <3> QED BY <1>1, <1>4, <1>5, <1>8, <3>1, ProfilerUntouched
  <2> QED BY <2>1, <2>2
<1>10. LoggerIsThere'
  BY <1>1, <1>6, <1>7 DEF Inv, LoggerIsThere
<1>11. TypeOK'
  BY <1>1, <1>6, <1>7, <1>9 DEF Inv, TypeOK
<1> QED BY <1>1, <1>7, <1>9, <1>10, <1>11 DEF Inv, NeverKilled

(* Stopping the profiler, up to its timer, for whichever Server. *)
LEMMA ProfilerStopped ==
  ASSUME Inv, call = "none", logger # NULL, NEW s, StopProfiler(s),
         Sampling' <=> Sampling,
         UNCHANGED <<clock, handler, pending, process, orphaned, asked>>
  PROVE  /\ call' \in {"none", "uninstall"}
         /\ timer' \in [Clocks -> BOOLEAN]
         /\ SignalsAreHandled' /\ TimersMatchCall'
<1>1. CASE logger.sampling_profiler_enabled
  <2>1. timer' = [timer EXCEPT ![clock] = FALSE] /\ call' = "uninstall"
    BY <1>1 DEF StopProfiler, stop_sigprof_timer
  <2> QED BY <1>1, <2>1 DEF Inv, TypeOK, SignalsAreHandled, TimersMatchCall, Sampling
<1>2. CASE ~logger.sampling_profiler_enabled
  <2>1. timer' = timer /\ call' = call
    BY <1>2 DEF StopProfiler
  <2> QED BY <2>1 DEF Inv, TypeOK, SignalsAreHandled, TimersMatchCall
<1> QED BY <1>1, <1>2

LEMMA StopKeepsInv == Inv /\ stop => Inv'
<1> SUFFICES ASSUME Inv, stop PROVE Inv'
  OBVIOUS
<1> DEFINE now == [servers[server] EXCEPT !.stop_profiler_thread = TRUE]
<1>1. /\ server # 0 /\ server \in DOMAIN servers /\ servers[server] \in Server
      /\ logger # NULL /\ call = "none" /\ user' = "stopping"
      /\ servers' = [servers EXCEPT ![server] = now]
      /\ StopProfiler(server)
      /\ UNCHANGED <<server, starts, logger, tracepoints, clock, handler, pending,
                     job, process, asked, orphaned, retried>>
  BY ServersAreTyped DEF stop, Free, Extension, History, Inv, TypeOK
<1>2. /\ now \in Server /\ now.server_running = servers[server].server_running
      /\ now.clock_type = servers[server].clock_type
  BY <1>1 DEF Server
<1> HIDE DEF now
<1>3. /\ servers' \in Seq(Server)
      /\ Len(servers') = Len(servers) /\ DOMAIN servers' = DOMAIN servers
      /\ \A r \in DOMAIN servers : servers'[r] = IF r = server THEN now ELSE servers[r]
  BY <1>1, <1>2, ServerChanged DEF Inv
<1>4. /\ call' \in {"none", "uninstall"}
      /\ timer' \in [Clocks -> BOOLEAN]
      /\ SignalsAreHandled' /\ TimersMatchCall'
  BY <1>1, ProfilerStopped DEF Sampling
<1>5. TypeOK'
  BY <1>1, <1>3, <1>4 DEF Inv, TypeOK
<1>6. LoggerIsThere' /\ ClockIsAsAsked'
  BY <1>1, <1>2, <1>3 DEF Inv, LoggerIsThere, ClockIsAsAsked
<1> QED BY <1>1, <1>4, <1>5, <1>6 DEF Inv, NeverKilled, TracepointsHaveLogger

LEMMA StopStatServerKeepsInv == Inv /\ stop_stat_server => Inv'
<1> SUFFICES ASSUME Inv, stop_stat_server PROVE Inv'
  OBVIOUS
<1> DEFINE now == [servers[server] EXCEPT !.server_running = FALSE]
<1>1. /\ server # 0 /\ server \in DOMAIN servers /\ servers[server] \in Server
      /\ logger \in Logger /\ logger # NULL /\ logger' = NULL /\ call = "none" /\ user' = "idle"
      /\ tracepoints' = IF logger.enabled THEN tracepoints \ {logger.hooks} ELSE tracepoints
      /\ orphaned' = (orphaned \/ logger.sampling_profiler_enabled)
      /\ servers' = [servers EXCEPT ![server] = now]
      /\ server' \in {server, 0}
      /\ UNCHANGED <<starts, clock, call, timer, handler, pending, job, process,
                     asked, retried>>
  BY ServersAreTyped DEF stop_stat_server, Free, Kernel, Inv, TypeOK, LoggerIsThere
<1>2. /\ now \in Server /\ ~now.server_running
      /\ now.clock_type = servers[server].clock_type
  BY <1>1 DEF Server
<1> HIDE DEF now
<1>3. /\ servers' \in Seq(Server)
      /\ Len(servers') = Len(servers) /\ DOMAIN servers' = DOMAIN servers
      /\ \A r \in DOMAIN servers : servers'[r] = IF r = server THEN now ELSE servers[r]
  BY <1>1, <1>2, ServerChanged DEF Inv
<1>4. \A s \in DOMAIN servers : ~servers'[s].server_running
  BY <1>2, <1>3 DEF Inv, LoggerIsThere
<1>5. TypeOK'
  BY <1>1, <1>3, <1>4 DEF Inv, TypeOK, Logger
<1>6. LoggerIsThere' /\ ClockIsAsAsked'
  BY <1>1, <1>2, <1>3, <1>4 DEF Inv, LoggerIsThere, ClockIsAsAsked
<1>7. TimersMatchCall'
  BY <1>1 DEF Inv, TimersMatchCall, Sampling
<1>8. TracepointsHaveLogger'
  BY <1>1 DEF Inv, TracepointsHaveLogger
<1> QED
  BY <1>1, <1>5, <1>6, <1>7, <1>8 DEF Inv, NeverKilled, SignalsAreHandled

-----------------------------------------------------------------------------
(* The dispatch threads. *)

(* What a dispatch thread does to its Server's record alone. *)
LEMMA OnlyServerChanges ==
  ASSUME Inv, NEW s \in DOMAIN servers, NEW x \in Server,
         servers' = [servers EXCEPT ![s] = x],
         x.server_running = servers[s].server_running,
         x.clock_type = servers[s].clock_type,
         UNCHANGED <<server, user, Extension, clock, call, Kernel, job, History>>,
         process' \in {process, "crashed"}
  PROVE  Inv'
<1>1. /\ servers' \in Seq(Server)
      /\ Len(servers') = Len(servers) /\ DOMAIN servers' = DOMAIN servers
      /\ \A r \in DOMAIN servers : servers'[r] = IF r = s THEN x ELSE servers[r]
  BY ServerChanged DEF Inv
<1>2. TypeOK'
  BY <1>1 DEF Extension, Kernel, History, Inv, TypeOK
<1> QED
  BY <1>1, <1>2 DEF Extension, Kernel, History, Inv, LoggerIsThere,
    SignalsAreHandled, NeverKilled, TimersMatchCall, ClockIsAsAsked,
    TracepointsHaveLogger, Sampling

LEMMA ReceiveCommandKeepsInv ==
  ASSUME Inv, NEW s \in DOMAIN servers, ReceiveCommand(s)
  PROVE  Inv'
<1>1. servers[s] \in Server
  BY ServersAreTyped DEF Inv
<1>2. PICK c \in Commands : servers' = [servers EXCEPT ![s].command = c]
  BY DEF ReceiveCommand
<1> DEFINE now == [servers[s] EXCEPT !.command = c]
<1>3. /\ now \in Server /\ now.server_running = servers[s].server_running
      /\ now.clock_type = servers[s].clock_type
  BY <1>1 DEF Server
<1>4. servers' = [servers EXCEPT ![s] = now]
  BY <1>2
<1> HIDE DEF now
<1> QED BY <1>3, <1>4, OnlyServerChanges DEF ReceiveCommand

LEMMA EndDispatchThreadKeepsInv ==
  ASSUME Inv, NEW s \in DOMAIN servers, EndDispatchThread(s)
  PROVE  Inv'
<1>1. servers[s] \in Server
  BY ServersAreTyped DEF Inv
<1> DEFINE now == [servers[s] EXCEPT !.dispatch = FALSE]
<1>2. /\ now \in Server /\ now.server_running = servers[s].server_running
      /\ now.clock_type = servers[s].clock_type
  BY <1>1 DEF Server
<1>3. servers' = [servers EXCEPT ![s] = now]
  BY DEF EndDispatchThread
<1> HIDE DEF now
<1> QED BY <1>2, <1>3, OnlyServerChanges DEF EndDispatchThread

LEMMA DoneIsServer ==
  ASSUME NEW x \in Server
  PROVE  /\ Done(x) \in Server
         /\ Done(x).server_running = x.server_running
         /\ Done(x).clock_type = x.clock_type
BY DEF Done, Server

(* A command that runs keeps the invariant, provided that the parts of it  *)
(* that each kind of command treats in its own way are kept.               *)
LEMMA CommandKeepsInv ==
  ASSUME Inv, NEW s \in DOMAIN servers, NEW x \in Server,
         servers' = [servers EXCEPT ![s] = x],
         x.server_running = servers[s].server_running,
         UNCHANGED <<server, user, starts, job, process, orphaned, retried>>,
         logger = NULL <=> logger' = NULL,
         logger' # NULL => logger' \in Logger /\ logger'.hooks \in 1 .. starts,
         tracepoints' \subseteq 1 .. starts,
         clock' \in Clocks,
         call' \in {"none", "install", "uninstall"},
         call' # call => logger # NULL,
         timer' \in [Clocks -> BOOLEAN], pending' \in [Clocks -> BOOLEAN],
         handler' \in [Clocks -> {"SIG_DFL", "signal_handler", "SIG_IGN"}],
         asked' \in [server : 0 .. Len(servers'), interval : Intervals, changed : BOOLEAN],
         SignalsAreHandled', TimersMatchCall', ClockIsAsAsked', TracepointsHaveLogger'
  PROVE  Inv'
<1>1. /\ servers' \in Seq(Server)
      /\ Len(servers') = Len(servers) /\ DOMAIN servers' = DOMAIN servers
      /\ \A r \in DOMAIN servers : servers'[r] = IF r = s THEN x ELSE servers[r]
  BY ServerChanged DEF Inv
<1>2. TypeOK'
  BY <1>1 DEF Inv, TypeOK
<1>3. LoggerIsThere'
  BY <1>1 DEF Inv, LoggerIsThere
<1> QED BY <1>2, <1>3 DEF Inv, NeverKilled

(* The setting's reading of a command that leaves the clock alone. *)
LEMMA AskedUnchanged ==
  ASSUME Inv, NEW s \in DOMAIN servers, NEW x,
         x.clock_type = servers[s].clock_type, asked' = asked
  PROVE  asked' = [asked EXCEPT !.changed =
                     @ \/ (s = asked.server /\ x.clock_type # servers[s].clock_type)]
<1>1. asked \in [server : 0 .. Len(servers), interval : Intervals, changed : BOOLEAN]
  BY DEF Inv, TypeOK
<1> QED BY <1>1

LEMMA TraceCommandKeepsInv ==
  ASSUME Inv, NEW s \in DOMAIN servers, TraceCommand(s), logger # NULL,
         UNCHANGED <<server, user, starts, job, process, orphaned, retried>>
  PROVE  Inv'
<1> DEFINE now == Done(servers[s])
<1>1. /\ now \in Server /\ now.server_running = servers[s].server_running
      /\ now.clock_type = servers[s].clock_type
  BY ServersAreTyped, DoneIsServer DEF Inv
<1>2. /\ servers' = [servers EXCEPT ![s] = now]
      /\ UNCHANGED <<clock, call, timer, handler, pending, asked>>
      /\ start_stat_tracing(logger) \/ stop_stat_tracing
  BY DEF TraceCommand
<1>3. /\ logger' \in Logger /\ logger'.hooks \in 1 .. starts /\ logger' # NULL
      /\ logger'.sampling_profiler_enabled = logger.sampling_profiler_enabled
      /\ tracepoints' \subseteq 1 .. starts
      /\ TracepointsHaveLogger'
  BY <1>2, TracingStarted, TracingStopped
<1>4. Sampling' <=> Sampling
  BY <1>3 DEF Sampling
<1> HIDE DEF now
<1>5. asked' = [asked EXCEPT !.changed =
                  @ \/ (s = asked.server /\ now.clock_type # servers[s].clock_type)]
  BY <1>1, <1>2, AskedUnchanged
<1>6. /\ clock' \in Clocks /\ call' \in {"none", "install", "uninstall"}
      /\ timer' \in [Clocks -> BOOLEAN] /\ pending' \in [Clocks -> BOOLEAN]
      /\ handler' \in [Clocks -> {"SIG_DFL", "signal_handler", "SIG_IGN"}]
      /\ asked' \in [server : 0 .. Len(servers'), interval : Intervals, changed : BOOLEAN]
      /\ SignalsAreHandled' /\ TimersMatchCall' /\ ClockIsAsAsked'
  BY <1>1, <1>2, <1>4, <1>5, ProfilerUntouched
<1> QED BY <1>1, <1>2, <1>3, <1>6, CommandKeepsInv

LEMMA ClockCommandKeepsInv ==
  ASSUME Inv, NEW s \in DOMAIN servers, ClockCommand(s),
         UNCHANGED <<server, user, starts, job, process, orphaned, retried>>
  PROVE  Inv'
<1> DEFINE c == IF servers[s].command = "use_cpu_time" THEN "cpu" ELSE "wall"
           now == [Done(servers[s]) EXCEPT !.clock_type = c]
<1>1. /\ servers' = [servers EXCEPT ![s] = now]
      /\ asked' = [asked EXCEPT !.changed =
                     @ \/ (s = asked.server /\ c # servers[s].clock_type)]
      /\ UNCHANGED <<logger, tracepoints, clock, call, timer, handler, pending>>
  BY DEF ClockCommand
<1>2. /\ now \in Server /\ now.server_running = servers[s].server_running
      /\ now.clock_type = c
  <2>1. /\ Done(servers[s]) \in Server
        /\ Done(servers[s]).server_running = servers[s].server_running
    BY ServersAreTyped, DoneIsServer DEF Inv
  <2>2. c \in ClockTypes
    BY DEF ClockTypes
  <2> HIDE DEF c
  <2> QED BY <2>1, <2>2 DEF Server
<1> HIDE DEF c, now
<1>3. Sampling' <=> Sampling
  BY <1>1 DEF Sampling
<1>4. /\ clock' \in Clocks /\ call' \in {"none", "install", "uninstall"}
      /\ timer' \in [Clocks -> BOOLEAN] /\ pending' \in [Clocks -> BOOLEAN]
      /\ handler' \in [Clocks -> {"SIG_DFL", "signal_handler", "SIG_IGN"}]
      /\ asked' \in [server : 0 .. Len(servers'), interval : Intervals, changed : BOOLEAN]
      /\ SignalsAreHandled' /\ TimersMatchCall' /\ ClockIsAsAsked'
  BY <1>1, <1>2, <1>3, ProfilerUntouched
<1>5. /\ logger # NULL => logger \in Logger /\ logger.hooks \in 1 .. starts
      /\ tracepoints' \subseteq 1 .. starts
      /\ TracepointsHaveLogger'
  BY <1>1 DEF Inv, TypeOK, TracepointsHaveLogger
<1> QED BY <1>1, <1>2, <1>4, <1>5, CommandKeepsInv

LEMMA StartProfilingCommandKeepsInv ==
  ASSUME Inv, NEW s \in DOMAIN servers, StartProfilingCommand(s), logger # NULL,
         call = "none",
         UNCHANGED <<server, user, starts, job, process, orphaned, retried>>
  PROVE  Inv'
<1> DEFINE starting == ~logger.sampling_profiler_enabled
           raises == starting /\ servers[s].clock_type = "no symbol"
           now == [Done(servers[s]) EXCEPT !.dispatch = @ /\ ~raises]
<1>1. /\ servers' = [servers EXCEPT ![s] = now]
      /\ IF starting /\ ~raises
           THEN InstallProfiler(s, servers[s].clock_type, servers[s].interval)
           ELSE UNCHANGED <<clock, call, timer, handler, pending, asked>>
      /\ UNCHANGED <<logger, tracepoints>>
  BY DEF StartProfilingCommand
<1>2. servers[s] \in Server
  BY ServersAreTyped DEF Inv
<1>3. /\ now \in Server /\ now.server_running = servers[s].server_running
      /\ now.clock_type = servers[s].clock_type
  <2>1. /\ Done(servers[s]) \in Server
        /\ Done(servers[s]).server_running = servers[s].server_running
        /\ Done(servers[s]).clock_type = servers[s].clock_type
    BY <1>2, DoneIsServer
  <2> HIDE DEF raises
  <2> QED BY <2>1 DEF Server
<1> HIDE DEF now
<1>4. /\ Len(servers') = Len(servers)
      /\ servers'[s].clock_type = servers[s].clock_type
  BY <1>1, <1>3, ServerChanged DEF Inv
<1>5. Sampling' <=> Sampling
  BY <1>1 DEF Sampling
<1>6. /\ clock' \in Clocks /\ call' \in {"none", "install", "uninstall"}
      /\ timer' \in [Clocks -> BOOLEAN] /\ pending' \in [Clocks -> BOOLEAN]
      /\ handler' \in [Clocks -> {"SIG_DFL", "signal_handler", "SIG_IGN"}]
      /\ asked' \in [server : 0 .. Len(servers'), interval : Intervals, changed : BOOLEAN]
      /\ SignalsAreHandled' /\ TimersMatchCall' /\ ClockIsAsAsked'
  <2>1. CASE starting /\ ~raises
    <3>1. servers[s].clock_type \in ClockTypes /\ servers[s].interval \in Intervals
      BY <1>2, <2>1 DEF Server
    <3>2. ~Sampling /\ ~Sampling'
      BY <1>5, <2>1 DEF Sampling
    <3> QED BY <1>1, <1>4, <2>1, <3>1, <3>2, ProfilerInstalled
  <2>2. CASE ~(starting /\ ~raises)
    <3>1. UNCHANGED <<clock, call, timer, handler, pending, asked>>
      BY <1>1, <2>2
    <3>2. asked' = [asked EXCEPT !.changed =
               @ \/ (s = asked.server /\ now.clock_type # servers[s].clock_type)]
      BY <1>3, <3>1, AskedUnchanged
    <3> QED BY <1>1, <1>3, <1>5, <3>1, <3>2, ProfilerUntouched
  <2> QED BY <2>1, <2>2
<1>7. /\ logger \in Logger /\ logger.hooks \in 1 .. starts
      /\ tracepoints' \subseteq 1 .. starts
      /\ TracepointsHaveLogger'
  BY <1>1 DEF Inv, TypeOK, TracepointsHaveLogger
<1> QED BY <1>1, <1>3, <1>6, <1>7, CommandKeepsInv

LEMMA StopProfilingCommandKeepsInv ==
  ASSUME Inv, NEW s \in DOMAIN servers, StopProfilingCommand(s), logger # NULL,
         call = "none",
         UNCHANGED <<server, user, starts, job, process, orphaned, retried>>
  PROVE  Inv'
<1> DEFINE now == Done(servers[s])
<1>1. /\ servers' = [servers EXCEPT ![s] = now]
      /\ StopProfiler(s)
      /\ UNCHANGED <<logger, tracepoints, clock, handler, pending, asked>>
  BY DEF StopProfilingCommand
<1>2. /\ now \in Server /\ now.server_running = servers[s].server_running
      /\ now.clock_type = servers[s].clock_type
  BY ServersAreTyped, DoneIsServer DEF Inv
<1> HIDE DEF now
<1>3. /\ call' \in {"none", "uninstall"}
      /\ timer' \in [Clocks -> BOOLEAN]
      /\ SignalsAreHandled' /\ TimersMatchCall'
  BY <1>1, ProfilerStopped DEF Sampling
<1>4. /\ Len(servers') = Len(servers) /\ DOMAIN servers' = DOMAIN servers
      /\ \A r \in DOMAIN servers : servers'[r] = IF r = s THEN now ELSE servers[r]
  BY <1>1, <1>2, ServerChanged DEF Inv
<1>5. ClockIsAsAsked'
  BY <1>1, <1>2, <1>4 DEF Inv, ClockIsAsAsked
<1>6. /\ logger \in Logger /\ logger.hooks \in 1 .. starts
      /\ tracepoints' \subseteq 1 .. starts
      /\ clock' \in Clocks /\ pending' \in [Clocks -> BOOLEAN]
      /\ handler' \in [Clocks -> {"SIG_DFL", "signal_handler", "SIG_IGN"}]
      /\ asked' \in [server : 0 .. Len(servers'), interval : Intervals, changed : BOOLEAN]
      /\ TracepointsHaveLogger'
  BY <1>1, <1>4 DEF Inv, TypeOK, TracepointsHaveLogger
<1> QED BY <1>1, <1>2, <1>3, <1>5, <1>6, CommandKeepsInv

LEMMA RunCommandKeepsInv ==
  ASSUME Inv, NEW s \in DOMAIN servers, RunCommand(s)
  PROVE  Inv'
<1> DEFINE needs_logger == servers[s].command \notin {"use_cpu_time", "use_wall_time"}
<1>1. CASE logger = NULL /\ needs_logger
  <2>1. /\ process' = "crashed"
        /\ UNCHANGED <<servers, logger, tracepoints, clock, call, Kernel, asked,
                       server, user, starts, job, orphaned, retried>>
    BY <1>1 DEF RunCommand
  <2> QED
    BY <2>1 DEF Kernel, Inv, TypeOK, LoggerIsThere, SignalsAreHandled,
      NeverKilled, TimersMatchCall, ClockIsAsAsked, TracepointsHaveLogger, Sampling
<1>2. CASE ~(logger = NULL /\ needs_logger)
  <2>1. /\ \/ TraceCommand(s)
           \/ ClockCommand(s)
           \/ StartProfilingCommand(s)
           \/ StopProfilingCommand(s)
        /\ call = "none"
        /\ UNCHANGED <<process, server, user, starts, job, orphaned, retried>>
    BY <1>2 DEF RunCommand, Free
  <2>2. CASE ClockCommand(s)
    BY <2>1, <2>2, ClockCommandKeepsInv
  <2>3. CASE TraceCommand(s)
    <3>1. logger # NULL
      BY <1>2, <2>3 DEF TraceCommand
    <3> QED BY <2>1, <2>3, <3>1, TraceCommandKeepsInv
  <2>4. CASE StartProfilingCommand(s)
    <3>1. logger # NULL
      BY <1>2, <2>4 DEF StartProfilingCommand
    <3> QED BY <2>1, <2>4, <3>1, StartProfilingCommandKeepsInv
  <2>5. CASE StopProfilingCommand(s)
    <3>1. logger # NULL
      BY <1>2, <2>5 DEF StopProfilingCommand
    <3> QED BY <2>1, <2>5, <3>1, StopProfilingCommandKeepsInv
  <2> QED BY <2>1, <2>2, <2>3, <2>4, <2>5
<1> QED BY <1>1, <1>2

-----------------------------------------------------------------------------
LEMMA NextKeepsInv == Inv /\ [Next]_vars => Inv'
<1> SUFFICES ASSUME Inv, [Next]_vars PROVE Inv'
  OBVIOUS
<1>1. ASSUME NEW c \in Clocks, TimerExpires(c) PROVE Inv'
  BY <1>1, TimerExpiresKeepsInv
<1>2. ASSUME NEW c \in Clocks, DeliverSignal(c) PROVE Inv'
  BY <1>2, DeliverSignalKeepsInv
<1>3. CASE RunSamplingJob
  BY <1>3, RunSamplingJobKeepsInv
<1>4. CASE FinishInstall
  BY <1>4, FinishInstallKeepsInv
<1>5. CASE FinishUninstall
  BY <1>5, FinishUninstallKeepsInv
<1>6. CASE StartServer
  BY <1>6, StartServerKeepsInv
<1>7. CASE FinishStart
  BY <1>7, FinishStartKeepsInv
<1>8. CASE stop
  BY <1>8, StopKeepsInv
<1>9. CASE stop_stat_server
  BY <1>9, StopStatServerKeepsInv
<1>10. ASSUME NEW s \in DOMAIN servers, ReceiveCommand(s) PROVE Inv'
  BY <1>10, ReceiveCommandKeepsInv
<1>11. ASSUME NEW s \in DOMAIN servers, EndDispatchThread(s) PROVE Inv'
  BY <1>11, EndDispatchThreadKeepsInv
<1>12. ASSUME NEW s \in DOMAIN servers, RunCommand(s) PROVE Inv'
  BY <1>12, RunCommandKeepsInv
<1>13. CASE UNCHANGED vars
  BY <1>13 DEF vars, Ruby, Extension, Kernel, History, Inv, TypeOK, LoggerIsThere,
    SignalsAreHandled, NeverKilled, TimersMatchCall, ClockIsAsAsked,
    TracepointsHaveLogger, Sampling
<1> QED
  BY <1>1, <1>2, <1>3, <1>4, <1>5, <1>6, <1>7, <1>8, <1>9, <1>10, <1>11,
     <1>12, <1>13 DEF Next

LEMMA AlwaysInv == Spec => []Inv
<1> QED BY InitHasInv, NextKeepsInv, PTL DEF Spec

-----------------------------------------------------------------------------
(* The statics of rbkit_sampling_profiler.c and rbkit_server.c, the timers *)
(* and handlers and the Servers keep their types: a running Server has a   *)
(* logger, and its tracepoints are of a start that took place.             *)
THEOREM TypeCorrect == Spec => []TypeOK
<1>1. Inv => TypeOK
  BY DEF Inv
<1> QED BY <1>1, AlwaysInv, PTL

(* However many servers are started and stopped, whatever their dispatch   *)
(* threads are told and whenever a signal comes: none ever finds the       *)
(* default action, so profiling never ends the profiled process.           *)
THEOREM ProcessIsNeverKilled == Spec => []NeverKilled
<1>1. Inv => NeverKilled
  BY DEF Inv
<1> QED BY <1>1, AlwaysInv, PTL

(* Outside the C functions that install and remove the profiler, its flag  *)
(* is the truth about both clocks' timers and handlers, unless a logger    *)
(* was freed with its profiler running.                                    *)
THEOREM FlagIsTheTruth == Spec => []TimersMatchProfiler
<1>1. Inv => TimersMatchProfiler
  BY DEF Inv, TimersMatchCall, TimersMatchProfiler, Free
<1> QED BY <1>1, AlwaysInv, PTL

(* status reports the clock that is in use, unless that was set anew.      *)
THEOREM ReportedClockIsInUse == Spec => []StatusIsTrueUnlessChanged
<1>1. Inv => StatusIsTrueUnlessChanged
  BY DEF Inv, ClockIsAsAsked, StatusIsTrueUnlessChanged
<1> QED BY <1>1, AlwaysInv, PTL

(* No enabled tracepoint ever points to a freed logger, unless a start     *)
(* that raised was repeated.                                               *)
THEOREM TracepointsAreOfLiveLogger == Spec => []TracepointsHaveLogger
<1>1. Inv => TracepointsHaveLogger
  BY DEF Inv
<1> QED BY <1>1, AlwaysInv, PTL
=============================================================================
