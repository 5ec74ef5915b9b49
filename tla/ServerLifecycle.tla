--------------------------- MODULE ServerLifecycle ---------------------------
(***************************************************************************)
(* Starting, stopping and restarting the server, the dispatch thread each  *)
(* start creates, and the requests of a client.                            *)
(* Sources: lib/rbkit.rb, lib/rbkit/server.rb, ext/rbkit_server.c.         *)
(*                                                                         *)
(* Server objects have variables of their own, but the logger, the sockets *)
(* and the poll item are statics of the C extension which all of them      *)
(* share.  C code keeps the global lock, so a C function is one step; Ruby *)
(* code may lose the lock between any two C functions.                     *)
(***************************************************************************)
EXTENDS Naturals, Sequences, FiniteSets

CONSTANTS
  Commands,       \* what a client may request; "" is the empty message
  DirectStop,     \* TRUE when user code also calls Server#stop itself
  CallbackRaises, \* TRUE when @respond_callback may raise
  CommandRaises,  \* TRUE when carrying out a command may raise
  StartRaises,    \* TRUE when start may raise, e.g. on a bad clock_type
  MaxServers,     \* bound: Server objects created
  MaxStarts,      \* bound: starts that succeed, so dispatch threads
  MaxRequests     \* bound: requests sent

ASSUME SwitchesAreBoolean ==
  /\ DirectStop \in BOOLEAN /\ CallbackRaises \in BOOLEAN
  /\ CommandRaises \in BOOLEAN /\ StartRaises \in BOOLEAN
ASSUME BoundsAreNat ==
  MaxServers \in Nat /\ MaxStarts \in Nat /\ MaxRequests \in Nat
ASSUME CommandsAreStrings == Commands \subseteq STRING

VARIABLES
  server,               \* Rbkit.server: the number of a Server, 0 for nil
  servers,              \* Server objects made so far, numbered 1, 2, ...
  stop_profiler_thread, \* of each Server
  server_running,       \* of each Server
  user,                 \* where the thread calling the Rbkit API is
  logger,               \* is the static logger allocated?
  zmq_publisher, zmq_response_socket,
  pub_port, request_port, \* who is bound to them
  revents,              \* items[0].revents: what the last poll reported
  dispatch,             \* the dispatch threads, in order of creation
  inbox,                \* requests waiting in zmq_response_socket
  replying_to,          \* request that socket owes a reply, 0 for none
  waiting_for,          \* request whose reply the client awaits, 0 for none
  sent,                 \* requests sent so far: their commands
  replies,              \* history: replies sent, and what made them
  crashed,              \* a NULL logger was used or an assertion failed
  raced,                \* history: a server was stopped under a busy thread
  reused,               \* history: a stopped Server was started again
  leaked                \* history: a start failed half-way

Ruby == <<server, servers, stop_profiler_thread, server_running>>
Sockets == <<zmq_publisher, zmq_response_socket, pub_port, request_port>>
Rep == <<inbox, replying_to>>
Client == <<waiting_for, sent, replies>>
History == <<raced, reused, leaked>>

vars == <<Ruby, user, logger, Sockets, revents, dispatch, Rep, Client,
          crashed, History>>

Servers == 1 .. MaxServers
Threads == DOMAIN dispatch

(* A dispatch thread that has seen its stop flag unset and goes on.  A     *)
(* thread asleep at the end of its loop will look at the flag first.       *)
Busy(t) == dispatch[t].at \in {"poll", "process", "command", "ack"}

Init ==
  /\ server = 0
  /\ servers = 0
  /\ stop_profiler_thread = [s \in Servers |-> FALSE]
  /\ server_running = [s \in Servers |-> FALSE]
  /\ user = "idle"
  /\ logger = FALSE
  /\ zmq_publisher = "NULL"
  /\ zmq_response_socket = "NULL"
  /\ pub_port = "free"
  /\ request_port = "free"
  /\ revents = FALSE
  /\ dispatch = <<>>
  /\ inbox = <<>>
  /\ replying_to = 0
  /\ waiting_for = 0
  /\ sent = <<>>
  /\ replies = {}
  /\ crashed = FALSE
  /\ raced = FALSE
  /\ reused = FALSE
  /\ leaked = FALSE

-----------------------------------------------------------------------------
(* Variant: @server = Server.new(...) *)
UseServer_always_new(s) ==
  /\ servers < MaxServers
  /\ s = servers + 1
  /\ server' = s
  /\ servers' = s

(* @server ||= Server.new(...) *)
UseServer(s) ==
  /\ IF server = 0
       THEN servers < MaxServers /\ s = servers + 1
       ELSE s = server
  /\ server' = s
  /\ servers' = IF server = 0 THEN s ELSE servers

PublishPortTaken ==
  /\ pub_port # "free"
  /\ zmq_publisher' = "unbound"
  /\ UNCHANGED <<user, logger, zmq_response_socket, pub_port, request_port,
                 Rep, History>>

RequestPortTaken ==
  /\ pub_port = "free"
  /\ request_port # "free"
  /\ zmq_publisher' = "bound"
  /\ pub_port' = "rbkit"
  /\ zmq_response_socket' = "unbound"
  /\ leaked' = TRUE
  /\ UNCHANGED <<user, logger, request_port, Rep, raced, reused>>

BothPortsBound(s) ==
  /\ pub_port = "free"
  /\ request_port = "free"
  /\ Len(dispatch) < MaxStarts
  /\ zmq_publisher' = "bound"
  /\ pub_port' = "rbkit"
  /\ zmq_response_socket' = "bound"
  /\ request_port' = "rbkit"
  /\ logger' = TRUE
  /\ inbox' = <<>>
  /\ replying_to' = 0
  /\ reused' = (reused \/ stop_profiler_thread[s])
  /\ user' = "starting"
  /\ UNCHANGED <<raced, leaked>>

(* Rbkit.start_server and Rbkit.start_profiling, up to start_stat_server.  *)
start_server ==
  /\ ~crashed
  /\ user = "idle"
  /\ \E s \in Servers :
       /\ UseServer(s)
       /\ ~server_running[s]
       /\ PublishPortTaken \/ RequestPortTaken \/ BothPortsBound(s)
  /\ UNCHANGED <<stop_profiler_thread, server_running, revents, dispatch,
                 Client, crashed>>

(* The rest of Server#start. *)
StartDispatchThread ==
  /\ ~crashed
  /\ user = "starting"
  /\ server_running' = [server_running EXCEPT ![server] = TRUE]
  /\ dispatch' = Append(dispatch, [server |-> server, at |-> "check", request |-> 0])
  /\ user' = "idle"
  /\ UNCHANGED <<server, servers, stop_profiler_thread, logger, Sockets,
                 revents, Rep, Client, crashed, History>>

(* Server#start leaves by an exception of start_cpu_profiling. *)
StartFails ==
  /\ ~crashed
  /\ StartRaises
  /\ user = "starting"
  /\ leaked' = TRUE
  /\ user' = "idle"
  /\ UNCHANGED <<Ruby, logger, Sockets, revents, dispatch, Rep, Client,
                 crashed, raced, reused>>

-----------------------------------------------------------------------------
(* Variant: the dispatch loop is not told to stop. *)
stop_without_flag ==
  /\ ~crashed
  /\ user = "idle"
  /\ server # 0
  /\ server_running[server]
  /\ \/ user' = "in stop_server"
     \/ DirectStop /\ user' = "in stop"
  /\ UNCHANGED <<Ruby, logger, Sockets, revents, dispatch, Rep, Client,
                 crashed, History>>

(* Rbkit.stop_server or Server#stop, up to stop_stat_server. *)
stop ==
  /\ ~crashed
  /\ user = "idle"
  /\ server # 0
  /\ server_running[server]
  /\ stop_profiler_thread' = [stop_profiler_thread EXCEPT ![server] = TRUE]
  /\ \/ user' = "in stop_server"
     \/ DirectStop /\ user' = "in stop"
  /\ UNCHANGED <<server, servers, server_running, logger, Sockets, revents,
                 dispatch, Rep, Client, crashed, History>>

Stopping == user \in {"in stop_server", "in stop"}

(* Variant: the publishing socket is not closed. *)
stop_stat_server_keeps_publisher ==
  /\ ~crashed
  /\ Stopping /\ logger
  /\ logger' = FALSE
  /\ zmq_response_socket' = "closed"
  /\ request_port' = "free"
  /\ inbox' = <<>>
  /\ replying_to' = 0
  /\ raced' = (raced \/ \E t \in Threads : Busy(t))
  /\ UNCHANGED <<Ruby, user, zmq_publisher, pub_port, revents, dispatch,
                 Client, crashed, reused, leaked>>

stop_stat_server ==
  /\ ~crashed
  /\ Stopping /\ logger
  /\ logger' = FALSE
  /\ zmq_publisher' = "closed"
  /\ pub_port' = "free"
  /\ zmq_response_socket' = "closed"
  /\ request_port' = "free"
  /\ inbox' = <<>>
  /\ replying_to' = 0
  /\ raced' = (raced \/ \E t \in Threads : Busy(t))
  /\ UNCHANGED <<Ruby, user, revents, dispatch, Client, crashed, reused, leaked>>

(* The rest of Server#stop, and of Rbkit.stop_server. *)
FinishStop ==
  /\ ~crashed
  /\ Stopping /\ ~logger
  /\ server_running' = [server_running EXCEPT ![server] = FALSE]
  /\ server' = IF user = "in stop_server" THEN 0 ELSE server
  /\ user' = "idle"
  /\ UNCHANGED <<servers, stop_profiler_thread, logger, Sockets, revents,
                 dispatch, Rep, Client, crashed, History>>

-----------------------------------------------------------------------------
(* The dispatch loop of thread t. *)
GoTo(t, at, request) ==
  dispatch' = [dispatch EXCEPT ![t].at = at, ![t].request = request]

(* Variant: the loop has no end. *)
CheckStopFlag_ignored(t) ==
  /\ ~crashed
  /\ dispatch[t].at = "check"
  /\ GoTo(t, "poll", 0)
  /\ UNCHANGED <<Ruby, user, logger, Sockets, revents, Rep, Client, crashed,
                 History>>

(* Variant: the flag is a class variable, shared by all Servers. *)
CheckStopFlag_of_any_server(t) ==
  /\ ~crashed
  /\ dispatch[t].at = "check"
  /\ IF \E s \in Servers : stop_profiler_thread[s]
       THEN GoTo(t, "ended", 0)
       ELSE GoTo(t, "poll", 0)
  /\ UNCHANGED <<Ruby, user, logger, Sockets, revents, Rep, Client, crashed,
                 History>>

(* break if @stop_profiler_thread *)
CheckStopFlag(t) ==
  /\ ~crashed
  /\ dispatch[t].at = "check"
  /\ IF stop_profiler_thread[dispatch[t].server]
       THEN GoTo(t, "ended", 0)
       ELSE GoTo(t, "poll", 0)
  /\ UNCHANGED <<Ruby, user, logger, Sockets, revents, Rep, Client, crashed,
                 History>>

(* A REP socket reports no input while it owes a reply. *)
RequestArrived ==
  zmq_response_socket = "bound" /\ replying_to = 0 /\ inbox # <<>>

(* Variant: the loop does not look whether a request was received. *)
poll_for_request_nil_too(t) ==
  /\ ~crashed
  /\ dispatch[t].at = "poll"
  /\ \/ /\ RequestArrived
        /\ revents' = TRUE
        /\ replying_to' = Head(inbox)
        /\ inbox' = Tail(inbox)
        /\ GoTo(t, "process", Head(inbox))
     \/ /\ ~RequestArrived
        /\ revents' = FALSE
        /\ GoTo(t, "process", 0)
        /\ UNCHANGED Rep
  /\ UNCHANGED <<Ruby, user, logger, Sockets, Client, crashed, History>>

(* poll_for_request, with tracer_string_recv.  The poll of a closed socket *)
(* fails and leaves revents as it was; receiving from it then fails the    *)
(* assertion.                                                              *)
poll_for_request(t) ==
  /\ ~crashed
  /\ dispatch[t].at = "poll"
  /\ \/ /\ RequestArrived
        /\ revents' = TRUE
        /\ replying_to' = Head(inbox)
        /\ inbox' = Tail(inbox)
        /\ IF sent[Head(inbox)] = ""
             THEN GoTo(t, "check", 0)
             ELSE GoTo(t, "process", Head(inbox))
        /\ UNCHANGED crashed
     \/ /\ zmq_response_socket = "bound" /\ ~RequestArrived
        /\ revents' = FALSE
        /\ GoTo(t, "check", 0)
        /\ UNCHANGED <<Rep, crashed>>
     \/ /\ zmq_response_socket # "bound"
        /\ crashed' = revents
        /\ GoTo(t, "check", 0)
        /\ UNCHANGED <<revents, Rep>>
  /\ UNCHANGED <<Ruby, user, logger, Sockets, Client, History>>

(* process_incoming_request: return if !@server_running *)
process_incoming_request(t) ==
  /\ ~crashed
  /\ dispatch[t].at = "process"
  /\ IF server_running[dispatch[t].server]
       THEN GoTo(t, "command", dispatch[t].request)
       ELSE GoTo(t, "check", 0)
  /\ UNCHANGED <<Ruby, user, logger, Sockets, revents, Rep, Client, crashed,
                 History>>

(* The commands that use the logger without looking whether there is one. *)
NeedsLogger ==
  {"start_memory_profile", "stop_memory_profile", "objectspace_snapshot",
   "start_cpu_profiling", "stop_cpu_profiling"}

(* The commands that may raise before there is a reply: a clock_type that  *)
(* is no Symbol, or a status that cannot be built or packed.               *)
MayRaise == {"start_cpu_profiling", "handshake"}

(* respond_with_message, by thread t: the socket sends to whomever it owes *)
(* a reply, and to nobody when it owes none.                               *)
respond_with_message(t, answer) ==
  IF zmq_response_socket = "bound" /\ replying_to # 0
    THEN /\ replying_to' = 0
         /\ waiting_for' = IF waiting_for = replying_to THEN 0 ELSE waiting_for
         /\ replies' = replies \cup
              {[to |-> replying_to, for |-> dispatch[t].request, answer |-> answer]}
    ELSE UNCHANGED <<replying_to, waiting_for, replies>>

(* respond_with_message ends with @respond_callback, which may raise and   *)
(* end the thread.                                                         *)
AfterResponse(t) ==
  \/ GoTo(t, "check", 0)
  \/ CallbackRaises /\ GoTo(t, "died", 0)

(* Variant: a handshake is answered like any other command. *)
RunCommand_only_acks(t) ==
  /\ ~crashed
  /\ dispatch[t].at = "command"
  /\ GoTo(t, "ack", dispatch[t].request)
  /\ crashed' = (sent[dispatch[t].request] \in NeedsLogger /\ ~logger)
  /\ UNCHANGED <<Ruby, user, logger, Sockets, revents, Rep, Client, History>>

(* The case statement of process_incoming_request.  An exception ends the  *)
(* thread with the request still in its hand, and nobody replies to it.    *)
RunCommand(t) ==
  LET command == sent[dispatch[t].request] IN
  /\ ~crashed
  /\ dispatch[t].at = "command"
  /\ \/ /\ command = "handshake"
        /\ respond_with_message(t, "status")
        /\ AfterResponse(t)
        /\ UNCHANGED crashed
     \/ /\ command # "handshake"
        /\ crashed' = (command \in NeedsLogger /\ ~logger)
        /\ GoTo(t, "ack", dispatch[t].request)
        /\ UNCHANGED <<replying_to, waiting_for, replies>>
     \/ /\ CommandRaises
        /\ command \in MayRaise
        /\ command \in NeedsLogger => logger
        /\ GoTo(t, "died", dispatch[t].request)
        /\ UNCHANGED <<crashed, replying_to, waiting_for, replies>>
  /\ UNCHANGED <<Ruby, user, logger, Sockets, revents, inbox, sent, History>>

(* Variant: the command is carried out, but not acknowledged. *)
send_command_ack_forgotten(t) ==
  /\ ~crashed
  /\ dispatch[t].at = "ack"
  /\ GoTo(t, "check", 0)
  /\ UNCHANGED <<Ruby, user, logger, Sockets, revents, Rep, Client, crashed,
                 History>>

send_command_ack(t) ==
  /\ ~crashed
  /\ dispatch[t].at = "ack"
  /\ respond_with_message(t, "ok")
  /\ AfterResponse(t)
  /\ UNCHANGED <<Ruby, user, logger, Sockets, revents, inbox, sent, crashed,
                 History>>

DispatchStep(t) ==
  \/ CheckStopFlag(t)
  \/ poll_for_request(t)
  \/ process_incoming_request(t)
  \/ RunCommand(t)
  \/ send_command_ack(t)

-----------------------------------------------------------------------------
(* The client's REQ socket: one request at a time. *)
ClientSends ==
  /\ ~crashed
  /\ waiting_for = 0
  /\ zmq_response_socket = "bound"
  /\ Len(sent) < MaxRequests
  /\ \E command \in Commands : sent' = Append(sent, command)
  /\ waiting_for' = Len(sent) + 1
  /\ inbox' = Append(inbox, Len(sent) + 1)
  /\ UNCHANGED <<Ruby, user, logger, Sockets, revents, dispatch, replying_to,
                 replies, crashed, History>>

(* The client loses patience and makes a new socket for its next request. *)
ClientGivesUp ==
  /\ ~crashed
  /\ waiting_for # 0
  /\ waiting_for' = 0
  /\ UNCHANGED <<Ruby, user, logger, Sockets, revents, dispatch, Rep, sent,
                 replies, crashed, History>>

(* Another process binds the ports, or releases them. *)
OtherProcess ==
  /\ ~crashed
  /\ \/ /\ pub_port \in {"free", "other"}
        /\ pub_port' = IF pub_port = "free" THEN "other" ELSE "free"
        /\ UNCHANGED request_port
     \/ /\ request_port \in {"free", "other"}
        /\ request_port' = IF request_port = "free" THEN "other" ELSE "free"
        /\ UNCHANGED pub_port
  /\ UNCHANGED <<Ruby, user, logger, zmq_publisher, zmq_response_socket,
                 revents, dispatch, Rep, Client, crashed, History>>

Next ==
  \/ start_server
  \/ StartDispatchThread
  \/ StartFails
  \/ stop
  \/ stop_stat_server
  \/ FinishStop
  \/ \E t \in Threads : DispatchStep(t)
  \/ ClientSends
  \/ ClientGivesUp
  \/ OtherProcess

Spec == Init /\ [][Next]_vars

(* Every dispatch thread gets the global lock again and again, and a call  *)
(* of start or stop that has begun goes on.  Nothing makes the user, the   *)
(* client or other processes do anything.                                  *)
FairSpec ==
  /\ Spec
  /\ \A t \in 1 .. MaxStarts : WF_vars(t \in Threads /\ DispatchStep(t))
  /\ WF_vars(StartDispatchThread)
  /\ WF_vars(stop_stat_server)
  /\ WF_vars(FinishStop)

-----------------------------------------------------------------------------
SocketStates == {"NULL", "unbound", "bound", "closed"}
Owners == {"free", "rbkit", "other"}
DispatchThread ==
  [server : Servers, at : {"check", "poll", "ended", "died"}, request : {0}]
    \cup
  [server : Servers, at : {"process", "command", "ack", "died"},
   request : 1 .. MaxRequests]

TypeOK ==
  /\ server \in 0 .. servers
  /\ servers \in 0 .. MaxServers
  /\ stop_profiler_thread \in [Servers -> BOOLEAN]
  /\ server_running \in [Servers -> BOOLEAN]
  /\ user \in {"idle", "starting", "in stop_server", "in stop"}
  /\ logger \in BOOLEAN
  /\ zmq_publisher \in SocketStates
  /\ zmq_response_socket \in SocketStates
  /\ pub_port \in Owners
  /\ request_port \in Owners
  /\ revents \in BOOLEAN
  /\ dispatch \in Seq(DispatchThread)
  /\ inbox \in Seq(1 .. Len(sent))
  /\ replying_to \in 0 .. Len(sent)
  /\ waiting_for \in 0 .. Len(sent)
  /\ sent \in Seq(Commands)
  /\ replies \subseteq [to : 1 .. MaxRequests, for : 1 .. MaxRequests,
                        answer : {"ok", "status"}]
  /\ crashed \in BOOLEAN
  /\ raced \in BOOLEAN
  /\ reused \in BOOLEAN
  /\ leaked \in BOOLEAN

(* A Server that believes to be running is the one and only, and has the   *)
(* statics: failed starts, restarts and stops never part them.             *)
RunningServerIsUp ==
  \A s \in Servers :
    server_running[s] /\ ~Stopping =>
      /\ s = server
      /\ \A r \in Servers \ {s} : ~server_running[r]
      /\ logger
      /\ zmq_publisher = "bound" /\ pub_port = "rbkit"
      /\ zmq_response_socket = "bound" /\ request_port = "rbkit"

(* Once no server runs its ports are free for the next one, but for a      *)
(* start that failed half-way.                                             *)
PortsReleasedUnlessLeaked ==
  user = "idle" /\ (\A s \in Servers : ~server_running[s]) =>
    \/ leaked
    \/ pub_port # "rbkit" /\ request_port # "rbkit"

(* Neither a NULL logger nor a closed socket is ever used, except that a   *)
(* stop came while the dispatch thread was in the middle of its loop.      *)
CrashOnlyIfRaced == crashed => raced

(* Every reply goes to the request it was made for, and is of its kind; it *)
(* takes a stop in the middle of the loop to mix up the replies of two     *)
(* servers.                                                                *)
RepliesMatchUnlessRaced ==
  \/ raced
  \/ \A r \in replies :
       /\ r.to = r.for
       /\ r.answer = IF sent[r.to] = "handshake" THEN "status" ELSE "ok"

(* A socket that owes a reply owes it to the request some thread is at     *)
(* work on; else nothing will ever be received again.  The exceptions: an  *)
(* empty request, a request whose command raised before the reply, and a   *)
(* request taken by the thread of a stopped server.                        *)
OwesOnlyWorkedOnRequests ==
  \/ raced
  \/ replying_to = 0
  \/ sent[replying_to] = ""
  \/ \E t \in Threads :
       /\ dispatch[t].request = replying_to
       /\ \/ Busy(t)
          \/ dispatch[t].at = "died" /\ sent[replying_to] \in MayRaise

ThreadsOf(s) == {t \in Threads : dispatch[t].server = s}

(* A running server has a dispatch thread at work, unless that died of an  *)
(* exception, or the Server had been stopped before.                       *)
ServedUnlessReused ==
  \/ reused
  \/ \A s \in Servers :
       server_running[s] /\ ~Stopping =>
         \E t \in ThreadsOf(s) : dispatch[t].at # "ended"

(* The threads of a stopped server come to an end, whatever its successor  *)
(* and the client do.                                                      *)
DispatchThreadsEnd ==
  \A t \in 1 .. MaxStarts :
    (t \in Threads /\ stop_profiler_thread[dispatch[t].server])
      ~> (crashed \/ (t \in Threads /\ dispatch[t].at \in {"ended", "died"}))

(* A request that a socket has received is answered, unless the server is  *)
(* stopped, the client gives up, or one of the code's own exceptions is    *)
(* met: an empty request, a thread that died, a race, a reused Server.     *)
RequestsAreAnswered ==
  \A r \in 1 .. MaxRequests :
    (waiting_for = r /\ (r = replying_to \/ \E i \in DOMAIN inbox : inbox[i] = r))
      ~> \/ waiting_for # r
         \/ user # "idle" \/ \A s \in Servers : ~server_running[s]
         \/ raced \/ reused
         \/ replying_to # 0 /\ sent[replying_to] = ""
         \/ sent[r] = ""
         \/ \E t \in Threads : dispatch[t].at = "died"

(* README.md:78-79, "Starts the Rbkit server and waits for a client to     *)
(* connect and issue commands to the request_port": a running server has a *)
(* dispatch thread that polls for requests.                                *)
RunningServerIsServed ==
  \A s \in Servers :
    server_running[s] /\ ~Stopping =>
      \E t \in ThreadsOf(s) : dispatch[t].at # "ended"
=============================================================================
