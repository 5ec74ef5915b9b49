------------------------ MODULE ServerLifecycle_proofs ------------------------
(***************************************************************************)
(* Proofs about ServerLifecycle, for any commands and any number of        *)
(* servers, starts and requests.                                           *)
(***************************************************************************)
EXTENDS ServerLifecycle, SequenceTheorems, TLAPS

(* Requests are numbered as they are sent. *)
RequestsWereSent ==
  /\ Len(sent) <= MaxRequests
  /\ \A t \in Threads : dispatch[t].request <= Len(sent)
  /\ \A r \in replies : r.to <= Len(sent)

AllUp ==
  /\ logger
  /\ zmq_publisher = "bound" /\ pub_port = "rbkit"
  /\ zmq_response_socket = "bound" /\ request_port = "rbkit"

(* RunningServerIsUp, also in the middle of starting and stopping. *)
ServerIsUp ==
  /\ \A s \in Servers : server_running[s] => s = server
  /\ user # "idle" => server # 0
  /\ user = "starting" => AllUp
  /\ user = "idle" /\ (\E s \in Servers : server_running[s]) => AllUp
  /\ Stopping => server_running[server] /\ (logger => AllUp)

(* PortsReleasedUnlessLeaked, also in the middle of stopping. *)
PortsAreReleased ==
  \/ leaked
  \/ user = "starting"
  \/ user = "idle" /\ \E s \in Servers : server_running[s]
  \/ Stopping /\ logger
  \/ pub_port # "rbkit" /\ request_port # "rbkit"

(* A Server's flag is set for good before it stops running, and its        *)
(* threads end only when it is set.                                        *)
ThreadsFollowFlags ==
  /\ \A t \in Threads :
       /\ stop_profiler_thread[dispatch[t].server] \/ server_running[dispatch[t].server]
       /\ dispatch[t].at = "ended" => stop_profiler_thread[dispatch[t].server]
  /\ \A s \in Servers : server_running[s] => ThreadsOf(s) # {}
  /\ Stopping => stop_profiler_thread[server]
  /\ ~reused =>
       /\ user = "starting" => ~stop_profiler_thread[server]
       /\ \A s \in Servers :
            server_running[s] /\ ~Stopping => ~stop_profiler_thread[s]

(* Without a race a busy thread has a running server and all it needs. *)
BusyIsServed ==
  ~raced =>
    \A t \in Threads :
      Busy(t) => /\ server_running[dispatch[t].server]
                 /\ logger
                 /\ zmq_response_socket = "bound"

(* Without a race one thread at most is at work on a request, and that is  *)
(* the one the socket owes a reply.                                        *)
Working(t) == dispatch[t].at \in {"process", "command", "ack"}

OneAtWork ==
  ~raced =>
    /\ \A t \in Threads : Working(t) => dispatch[t].request = replying_to
    /\ \A t, u \in Threads : Working(t) /\ Working(u) => t = u

HandshakesHaveNoAck ==
  \A t \in Threads : dispatch[t].at = "ack" => sent[dispatch[t].request] # "handshake"

Inv ==
  /\ TypeOK
  /\ RequestsWereSent
  /\ ServerIsUp
  /\ PortsAreReleased
  /\ ThreadsFollowFlags
  /\ BusyIsServed
  /\ OneAtWork
  /\ HandshakesHaveNoAck
  /\ CrashOnlyIfRaced
  /\ RepliesMatchUnlessRaced
  /\ OwesOnlyWorkedOnRequests

USE SwitchesAreBoolean, BoundsAreNat

-----------------------------------------------------------------------------
(* What TypeOK says of a Server and of a thread. *)
LEMMA ThreadsAreTyped ==
  ASSUME TypeOK
  PROVE  /\ Len(dispatch) \in Nat /\ Threads = 1 .. Len(dispatch)
         /\ \A t \in Threads :
              /\ dispatch[t] \in DispatchThread
              /\ dispatch[t].server \in Servers
              /\ dispatch[t].request \in 0 .. MaxRequests
              /\ ~Working(t) /\ dispatch[t].at # "died" => dispatch[t].request = 0
              /\ Working(t) => dispatch[t].request \in 1 .. MaxRequests
         /\ server # 0 => server \in Servers
         /\ Len(sent) \in Nat /\ DOMAIN sent = 1 .. Len(sent)
<1>1. /\ Len(dispatch) \in Nat /\ Threads = 1 .. Len(dispatch)
      /\ \A t \in Threads : dispatch[t] \in DispatchThread
  BY LenProperties, ElementOfSeq DEF TypeOK, Threads
<1>2. \A t \in Threads :
        /\ dispatch[t].server \in Servers
        /\ dispatch[t].request \in 0 .. MaxRequests
        /\ ~Working(t) /\ dispatch[t].at # "died" => dispatch[t].request = 0
        /\ Working(t) => dispatch[t].request \in 1 .. MaxRequests
  BY <1>1 DEF DispatchThread, Working
<1>3. Len(sent) \in Nat /\ DOMAIN sent = 1 .. Len(sent)
  BY LenProperties DEF TypeOK
<1>4. server \in 0 .. servers /\ servers \in 0 .. MaxServers
  BY DEF TypeOK
<1>5. server # 0 => server \in Servers
  BY <1>4 DEF Servers
<1> QED BY <1>1, <1>2, <1>3, <1>5

(* GoTo moves one thread, and keeps the others and whose thread each is. *)
LEMMA GoToMovesOneThread ==
  ASSUME TypeOK, NEW t \in Threads, NEW at, NEW request, GoTo(t, at, request),
         \/ at \in {"check", "poll", "ended", "died"} /\ request = 0
         \/ at \in {"process", "command", "ack", "died"} /\ request \in 1 .. MaxRequests
  PROVE  /\ dispatch' \in Seq(DispatchThread)
         /\ Threads' = Threads
         /\ dispatch'[t].at = at /\ dispatch'[t].request = request
         /\ \A u \in Threads : dispatch'[u].server = dispatch[u].server
         /\ \A u \in Threads \ {t} : dispatch'[u] = dispatch[u]
<1> DEFINE moved == [dispatch[t] EXCEPT !.at = at, !.request = request]
<1>1. dispatch \in Seq(DispatchThread) /\ Threads = 1 .. Len(dispatch)
      /\ dispatch[t] \in DispatchThread
  BY ThreadsAreTyped DEF TypeOK
<1>2. /\ moved \in DispatchThread /\ moved.server = dispatch[t].server
      /\ moved.at = at /\ moved.request = request
  BY <1>1 DEF DispatchThread
<1>3. dispatch' = [dispatch EXCEPT ![t] = moved]
  BY <1>1, LenProperties DEF GoTo, DispatchThread
<1> HIDE DEF moved
<1>4. /\ dispatch' \in Seq(DispatchThread) /\ Len(dispatch') = Len(dispatch)
      /\ \A u \in 1 .. Len(dispatch) :
           dispatch'[u] = IF u = t THEN moved ELSE dispatch[u]
  BY <1>1, <1>2, <1>3, ExceptSeq
<1>5. Threads' = Threads
  BY <1>1, <1>4, LenProperties DEF Threads
<1> QED BY <1>1, <1>2, <1>4, <1>5

LEMMA InitHasInv == Init => Inv
<1> SUFFICES ASSUME Init PROVE Inv
  OBVIOUS
<1>1. /\ dispatch \in Seq(DispatchThread) /\ Threads = {}
      /\ inbox \in Seq(1 .. Len(sent)) /\ sent \in Seq(Commands) /\ Len(sent) = 0
  BY EmptySeq DEF Init, Threads
<1>2. TypeOK
  <2>1. /\ server \in 0 .. servers /\ servers \in 0 .. MaxServers
        /\ stop_profiler_thread \in [Servers -> BOOLEAN]
        /\ server_running \in [Servers -> BOOLEAN]
        /\ replying_to \in 0 .. Len(sent) /\ waiting_for \in 0 .. Len(sent)
    BY <1>1 DEF Init
  <2> QED BY <1>1, <2>1 DEF Init, TypeOK, SocketStates, Owners
<1> QED
  BY <1>1, <1>2 DEF Init, Inv, RequestsWereSent, ServerIsUp, Stopping, AllUp,
    PortsAreReleased, ThreadsFollowFlags, BusyIsServed, OneAtWork,
    HandshakesHaveNoAck, CrashOnlyIfRaced, RepliesMatchUnlessRaced,
    OwesOnlyWorkedOnRequests

-----------------------------------------------------------------------------
(* Starting. A Server that may be started leaves none running. *)
LEMMA NoneRunsAtStart ==
  ASSUME Inv, user = "idle", NEW s \in Servers, UseServer(s), ~server_running[s]
  PROVE  /\ \A r \in Servers : ~server_running[r]
         /\ ~raced => \A t \in Threads : ~Busy(t)
         /\ \/ leaked
            \/ pub_port # "rbkit" /\ request_port # "rbkit"
         /\ server' = s /\ server' \in 0 .. servers' /\ servers' \in 0 .. MaxServers
<1>1. \A r \in Servers : ~server_running[r]
  BY DEF Inv, ServerIsUp, UseServer, Servers
<1>2. ~raced => \A t \in Threads : ~Busy(t)
  BY <1>1, ThreadsAreTyped DEF Inv, BusyIsServed
<1>3. \/ leaked
      \/ pub_port # "rbkit" /\ request_port # "rbkit"
  BY <1>1 DEF Inv, PortsAreReleased, Stopping
<1>4. server' = s /\ server' \in 0 .. servers' /\ servers' \in 0 .. MaxServers
  BY DEF UseServer, Servers, Inv, TypeOK
<1> QED BY <1>1, <1>2, <1>3, <1>4

LEMMA StartServerKeepsInv == Inv /\ start_server => Inv'
<1> SUFFICES ASSUME Inv, start_server PROVE Inv'
  OBVIOUS
<1> USE DEF Ruby, Sockets, Rep, Client, History
<1>1. PICK s \in Servers :
        /\ UseServer(s) /\ ~server_running[s]
        /\ PublishPortTaken \/ RequestPortTaken \/ BothPortsBound(s)
  BY DEF start_server
<1>2. /\ ~crashed /\ user = "idle"
      /\ UNCHANGED <<stop_profiler_thread, server_running, revents, dispatch,
                     waiting_for, sent, replies, crashed>>
  BY DEF start_server
<1>3. /\ \A r \in Servers : ~server_running[r]
      /\ ~raced => \A t \in Threads : ~Busy(t)
      /\ \/ leaked
         \/ pub_port # "rbkit" /\ request_port # "rbkit"
      /\ server' = s /\ server' \in 0 .. servers' /\ servers' \in 0 .. MaxServers
      /\ s # 0
  BY <1>1, <1>2, NoneRunsAtStart DEF Servers
<1>4. Threads' = Threads /\ \A t \in Threads : (Busy(t)' <=> Busy(t)) /\ (Working(t)' <=> Working(t))
  BY <1>2 DEF Threads, Busy, Working
<1>5. \A t \in Threads : Working(t) => Busy(t)
  BY DEF Busy, Working
<1>6. UNCHANGED raced /\ replying_to' \in {0, replying_to}
      /\ user' \in {"idle", "starting"} /\ ~Stopping'
  BY <1>1, <1>2 DEF PublishPortTaken, RequestPortTaken, BothPortsBound, Stopping
<1>7. TypeOK'
  <2>1. <<>> \in Seq(1 .. Len(sent))
    OBVIOUS
  <2>2. inbox' \in Seq(1 .. Len(sent))
    BY <1>1, <2>1 DEF PublishPortTaken, RequestPortTaken, BothPortsBound, Inv, TypeOK
  <2>3. /\ logger' \in BOOLEAN /\ leaked' \in BOOLEAN /\ reused' \in BOOLEAN
        /\ zmq_publisher' \in SocketStates /\ zmq_response_socket' \in SocketStates
        /\ pub_port' \in Owners /\ request_port' \in Owners
    BY <1>1 DEF PublishPortTaken, RequestPortTaken, BothPortsBound, Inv, TypeOK,
      SocketStates, Owners
  <2>4. /\ stop_profiler_thread' \in [Servers -> BOOLEAN]
        /\ server_running' \in [Servers -> BOOLEAN]
        /\ dispatch' \in Seq(DispatchThread) /\ sent' \in Seq(Commands)
        /\ waiting_for' \in 0 .. Len(sent') /\ replying_to' \in 0 .. Len(sent')
        /\ inbox' \in Seq(1 .. Len(sent'))
    <3>1. 0 \in 0 .. Len(sent)
      BY ThreadsAreTyped DEF Inv
    <3> QED BY <1>2, <1>6, <2>2, <3>1 DEF Inv, TypeOK
  <2>5. /\ revents' \in BOOLEAN /\ crashed' \in BOOLEAN /\ raced' \in BOOLEAN
        /\ replies' \subseteq [to : 1 .. MaxRequests, for : 1 .. MaxRequests,
                               answer : {"ok", "status"}]
    BY <1>2, <1>6 DEF Inv, TypeOK
  <2> QED BY <1>3, <1>6, <2>3, <2>4, <2>5 DEF TypeOK
<1>8. RequestsWereSent' /\ HandshakesHaveNoAck' /\ CrashOnlyIfRaced'
      /\ RepliesMatchUnlessRaced'
  BY <1>2, <1>4, <1>6 DEF Inv, RequestsWereSent, HandshakesHaveNoAck, CrashOnlyIfRaced,
    RepliesMatchUnlessRaced
<1>9. ServerIsUp'
  BY <1>1, <1>2, <1>3, <1>6
    DEF PublishPortTaken, RequestPortTaken, BothPortsBound, ServerIsUp, AllUp
<1>10. PortsAreReleased'
  BY <1>1, <1>2, <1>3
    DEF PublishPortTaken, RequestPortTaken, BothPortsBound, PortsAreReleased
<1>11. ThreadsFollowFlags'
  <2>1. ~reused' => ~reused /\ (user' = "starting" => ~stop_profiler_thread[s])
    BY <1>1, <1>2 DEF PublishPortTaken, RequestPortTaken, BothPortsBound
  <2> QED BY <1>2, <1>3, <1>4, <1>6, <2>1 DEF Inv, ThreadsFollowFlags, ThreadsOf, Stopping
<1>12. BusyIsServed' /\ OneAtWork' /\ OwesOnlyWorkedOnRequests'
  BY <1>2, <1>3, <1>4, <1>5, <1>6
    DEF Inv, BusyIsServed, OneAtWork, OwesOnlyWorkedOnRequests
<1> QED BY <1>7, <1>8, <1>9, <1>10, <1>11, <1>12 DEF Inv

LEMMA StartDispatchThreadKeepsInv == Inv /\ StartDispatchThread => Inv'
<1> SUFFICES ASSUME Inv, StartDispatchThread PROVE Inv'
  OBVIOUS
<1> DEFINE new == [server |-> server, at |-> "check", request |-> 0]
<1> USE DEF Sockets, Rep, Client, History
<1>1. /\ ~crashed /\ user = "starting" /\ user' = "idle"
      /\ server_running' = [server_running EXCEPT ![server] = TRUE]
      /\ dispatch' = Append(dispatch, new)
      /\ UNCHANGED <<server, servers, stop_profiler_thread, logger, Sockets,
                     revents, Rep, Client, crashed, History>>
  BY DEF StartDispatchThread
<1>2. /\ server \in Servers /\ server # 0 /\ AllUp /\ ~Stopping /\ ~Stopping'
  BY <1>1, ThreadsAreTyped DEF Inv, ServerIsUp, Stopping
<1>3. new \in DispatchThread
  BY <1>2 DEF DispatchThread
<1>4. /\ dispatch' \in Seq(DispatchThread) /\ Len(dispatch') = Len(dispatch) + 1
      /\ \A t \in 1 .. Len(dispatch) : dispatch'[t] = dispatch[t]
      /\ dispatch'[Len(dispatch) + 1] = new
  <2> HIDE DEF new
  <2> QED BY <1>1, <1>3, AppendProperties DEF Inv, TypeOK
<1>5. PICK n : n = Len(dispatch) + 1
  OBVIOUS
<1>6. /\ Threads' = Threads \cup {n} /\ n \notin Threads
      /\ \A t \in Threads : dispatch'[t] = dispatch[t]
      /\ dispatch'[n] = new
  <2>1. Threads' = 1 .. Len(dispatch')
    BY <1>4, LenProperties DEF Threads
  <2> QED BY <1>4, <1>5, <2>1, ThreadsAreTyped DEF Inv
<1>7. /\ \A t \in Threads : (Busy(t)' <=> Busy(t)) /\ (Working(t)' <=> Working(t))
      /\ ~Busy(n)' /\ ~Working(n)' /\ dispatch'[n].at = "check"
      /\ dispatch'[n].server = server /\ dispatch'[n].request = 0
  BY <1>6 DEF Busy, Working
<1>8. /\ server_running' \in [Servers -> BOOLEAN]
      /\ \A s \in Servers :
           server_running'[s] <=> s = server \/ server_running[s]
  BY <1>1, <1>2 DEF Inv, TypeOK
<1>9. TypeOK'
  <2>1. /\ server' \in 0 .. servers' /\ servers' \in 0 .. MaxServers
        /\ stop_profiler_thread' \in [Servers -> BOOLEAN]
        /\ logger' \in BOOLEAN /\ zmq_publisher' \in SocketStates
        /\ zmq_response_socket' \in SocketStates
        /\ pub_port' \in Owners /\ request_port' \in Owners
        /\ revents' \in BOOLEAN /\ inbox' \in Seq(1 .. Len(sent'))
        /\ replying_to' \in 0 .. Len(sent') /\ waiting_for' \in 0 .. Len(sent')
        /\ sent' \in Seq(Commands)
        /\ replies' \subseteq [to : 1 .. MaxRequests, for : 1 .. MaxRequests,
                               answer : {"ok", "status"}]
        /\ crashed' \in BOOLEAN /\ raced' \in BOOLEAN
        /\ reused' \in BOOLEAN /\ leaked' \in BOOLEAN
    BY <1>1 DEF Inv, TypeOK
  <2> QED BY <1>1, <1>4, <1>8, <2>1 DEF TypeOK
<1>10. RequestsWereSent'
  <2>1. UNCHANGED <<sent, replies>> /\ RequestsWereSent /\ 0 <= Len(sent)
    BY <1>1, ThreadsAreTyped DEF Inv
  <2> QED BY <1>6, <1>7, <2>1 DEF RequestsWereSent
<1>11. ServerIsUp'
  BY <1>1, <1>2, <1>8 DEF Inv, ServerIsUp, AllUp
<1>12. PortsAreReleased'
  BY <1>1, <1>2, <1>8 DEF PortsAreReleased
<1>13. ThreadsFollowFlags'
  <2>1. \A s \in Servers : ThreadsOf(s) \subseteq ThreadsOf(s)' /\ n \in ThreadsOf(server)'
    BY <1>1, <1>6, <1>7 DEF ThreadsOf
  <2>2. \A t \in Threads' :
          /\ dispatch'[t].server \in Servers
          /\ \/ stop_profiler_thread'[dispatch'[t].server]
             \/ server_running'[dispatch'[t].server]
          /\ dispatch'[t].at = "ended" => stop_profiler_thread'[dispatch'[t].server]
    BY <1>1, <1>2, <1>6, <1>7, <1>8, ThreadsAreTyped DEF Inv, ThreadsFollowFlags
  <2>3. \A s \in Servers : server_running'[s] => ThreadsOf(s)' # {}
    <3>1. \A s \in Servers : server_running[s] => ThreadsOf(s) # {}
      BY DEF Inv, ThreadsFollowFlags
    <3> QED BY <1>1, <1>8, <2>1, <3>1
  <2>4. ~reused' => \A s \in Servers : server_running'[s] => ~stop_profiler_thread'[s]
    BY <1>1, <1>2, <1>8 DEF Inv, ThreadsFollowFlags
  <2> QED BY <1>1, <1>2, <2>2, <2>3, <2>4 DEF ThreadsFollowFlags
<1>14. BusyIsServed' /\ OneAtWork' /\ HandshakesHaveNoAck'
  <2>1. UNCHANGED <<raced, logger, zmq_response_socket, replying_to, sent>>
    BY <1>1
  <2>2. \A t \in Threads : server_running[dispatch[t].server]
                             => server_running'[dispatch'[t].server]
    BY <1>6, <1>8, ThreadsAreTyped DEF Inv
  <2>3. BusyIsServed'
    BY <1>6, <1>7, <2>1, <2>2 DEF Inv, BusyIsServed
  <2>4. OneAtWork'
    BY <1>6, <1>7, <2>1 DEF Inv, OneAtWork
  <2>5. HandshakesHaveNoAck'
    BY <1>6, <1>7, <2>1 DEF Inv, HandshakesHaveNoAck
  <2> QED BY <2>3, <2>4, <2>5
<1>15. CrashOnlyIfRaced' /\ RepliesMatchUnlessRaced' /\ OwesOnlyWorkedOnRequests'
  BY <1>1, <1>6, <1>7
    DEF Inv, CrashOnlyIfRaced, RepliesMatchUnlessRaced, OwesOnlyWorkedOnRequests
<1> QED
  BY <1>9, <1>10, <1>11, <1>12, <1>13, <1>14, <1>15 DEF Inv

-----------------------------------------------------------------------------
(* The other actions that leave the dispatch threads alone. *)
LEMMA StartFailsKeepsInv == Inv /\ StartFails => Inv'
<1> SUFFICES ASSUME Inv, StartFails PROVE Inv'
  OBVIOUS
<1>1. /\ user = "starting" /\ user' = "idle" /\ leaked' = TRUE
      /\ UNCHANGED <<Ruby, logger, Sockets, revents, dispatch, Rep, Client,
                     crashed, raced, reused>>
  BY DEF StartFails
<1>2. TypeOK'
  BY <1>1 DEF Ruby, Sockets, Rep, Client, Inv, TypeOK
<1> QED
  BY <1>1, <1>2 DEF Ruby, Sockets, Rep, Client, Inv, RequestsWereSent, ServerIsUp,
    Stopping, AllUp, PortsAreReleased, ThreadsFollowFlags, ThreadsOf, Threads,
    BusyIsServed, Busy, OneAtWork, Working, HandshakesHaveNoAck, CrashOnlyIfRaced,
    RepliesMatchUnlessRaced, OwesOnlyWorkedOnRequests

LEMMA StopKeepsInv == Inv /\ stop => Inv'
<1> SUFFICES ASSUME Inv, stop PROVE Inv'
  OBVIOUS
<1>1. /\ user = "idle" /\ user' \in {"in stop_server", "in stop"}
      /\ server # 0 /\ server_running[server]
      /\ stop_profiler_thread' = [stop_profiler_thread EXCEPT ![server] = TRUE]
      /\ UNCHANGED <<server, servers, server_running, logger, Sockets, revents,
                     dispatch, Rep, Client, crashed, History>>
  BY DEF stop
<1>2. /\ server \in Servers /\ AllUp /\ Stopping' /\ ~Stopping
      /\ stop_profiler_thread' \in [Servers -> BOOLEAN]
      /\ \A s \in Servers :
           stop_profiler_thread'[s] <=> s = server \/ stop_profiler_thread[s]
  BY <1>1, ThreadsAreTyped DEF Inv, TypeOK, ServerIsUp, Stopping
<1>3. TypeOK'
  BY <1>1, <1>2 DEF Sockets, Rep, Client, History, Inv, TypeOK
<1>4. ServerIsUp' /\ PortsAreReleased'
  BY <1>1, <1>2 DEF Sockets, Inv, ServerIsUp, PortsAreReleased, AllUp
<1>5. ThreadsFollowFlags'
  <2>1. /\ Threads' = Threads /\ UNCHANGED <<dispatch, server_running>>
        /\ \A s \in Servers : ThreadsOf(s)' = ThreadsOf(s)
    BY <1>1 DEF Threads, ThreadsOf
  <2>2. \A t \in Threads :
          stop_profiler_thread[dispatch[t].server]
            => stop_profiler_thread'[dispatch[t].server]
    BY <1>2, ThreadsAreTyped DEF Inv
  <2>3. \A t \in Threads' :
          /\ \/ stop_profiler_thread'[dispatch'[t].server]
             \/ server_running'[dispatch'[t].server]
          /\ dispatch'[t].at = "ended" => stop_profiler_thread'[dispatch'[t].server]
    BY <2>1, <2>2 DEF Inv, ThreadsFollowFlags
  <2>4. /\ \A s \in Servers : server_running'[s] => ThreadsOf(s)' # {}
        /\ stop_profiler_thread'[server'] /\ user' # "starting"
    BY <1>1, <1>2, <2>1 DEF Inv, ThreadsFollowFlags
  <2> QED BY <1>2, <2>3, <2>4 DEF ThreadsFollowFlags
<1> QED
  BY <1>1, <1>3, <1>4, <1>5 DEF Sockets, Rep, Client, History, Inv, RequestsWereSent,
    Threads, BusyIsServed, Busy, OneAtWork, Working, HandshakesHaveNoAck,
    CrashOnlyIfRaced, RepliesMatchUnlessRaced, OwesOnlyWorkedOnRequests

LEMMA StopStatServerKeepsInv == Inv /\ stop_stat_server => Inv'
<1> SUFFICES ASSUME Inv, stop_stat_server PROVE Inv'
  OBVIOUS
<1>1. /\ ~crashed /\ Stopping /\ logger /\ logger' = FALSE
      /\ zmq_publisher' = "closed" /\ pub_port' = "free"
      /\ zmq_response_socket' = "closed" /\ request_port' = "free"
      /\ inbox' = <<>> /\ replying_to' = 0
      /\ raced' = (raced \/ \E t \in Threads : Busy(t))
      /\ UNCHANGED <<Ruby, user, revents, dispatch, Client, crashed, reused, leaked>>
  BY DEF stop_stat_server
<1>2. /\ Stopping'
      /\ Threads' = Threads
      /\ \A t \in Threads : (Busy(t)' <=> Busy(t)) /\ (Working(t) => Busy(t))
                            /\ (Working(t)' <=> Working(t))
      /\ ~raced' => ~raced /\ \A t \in Threads : ~Busy(t)
  BY <1>1 DEF Stopping, Busy, Working, Threads
<1>3. TypeOK'
  <2>1. <<>> \in Seq(1 .. Len(sent)) /\ 0 \in 0 .. Len(sent)
    BY ThreadsAreTyped DEF Inv
  <2>2. raced' \in BOOLEAN
    BY <1>1
  <2> QED BY <1>1, <2>1, <2>2 DEF Ruby, Client, Inv, TypeOK, SocketStates, Owners
<1>4. ServerIsUp' /\ PortsAreReleased'
  BY <1>1, <1>2 DEF Ruby, Inv, ServerIsUp, PortsAreReleased, Stopping
<1>5. ThreadsFollowFlags'
  BY <1>1, <1>2 DEF Ruby, Inv, ThreadsFollowFlags, ThreadsOf, Stopping
<1>6. RequestsWereSent' /\ HandshakesHaveNoAck' /\ CrashOnlyIfRaced'
      /\ RepliesMatchUnlessRaced'
  BY <1>1, <1>2 DEF Client, Inv, RequestsWereSent, HandshakesHaveNoAck,
    CrashOnlyIfRaced, RepliesMatchUnlessRaced
<1>7. BusyIsServed' /\ OneAtWork' /\ OwesOnlyWorkedOnRequests'
  BY <1>1, <1>2 DEF BusyIsServed, OneAtWork, OwesOnlyWorkedOnRequests
<1> QED BY <1>3, <1>4, <1>5, <1>6, <1>7 DEF Inv

LEMMA FinishStopKeepsInv == Inv /\ FinishStop => Inv'
<1> SUFFICES ASSUME Inv, FinishStop PROVE Inv'
  OBVIOUS
<1>1. /\ ~crashed /\ Stopping /\ ~logger /\ user' = "idle"
      /\ server_running' = [server_running EXCEPT ![server] = FALSE]
      /\ server' \in {0, server}
      /\ UNCHANGED <<servers, stop_profiler_thread, logger, Sockets, revents,
                     dispatch, Rep, Client, crashed, History>>
  BY DEF FinishStop
<1>2. /\ server \in Servers /\ stop_profiler_thread[server]
      /\ server_running' \in [Servers -> BOOLEAN]
      /\ \A s \in Servers : ~server_running'[s] /\ (server_running[s] => s = server)
      /\ ~Stopping' /\ user # "starting" /\ user # "idle"
  BY <1>1, ThreadsAreTyped
    DEF Inv, TypeOK, ServerIsUp, ThreadsFollowFlags, Stopping
<1>3. TypeOK'
  <2>1. server' \in 0 .. servers'
    <3>1. server \in 0 .. servers /\ servers \in 0 .. MaxServers
      BY DEF Inv, TypeOK
    <3> QED BY <1>1, <3>1
  <2> QED BY <1>1, <1>2, <2>1 DEF Sockets, Rep, Client, History, Inv, TypeOK
<1>4. ServerIsUp' /\ PortsAreReleased'
  BY <1>1, <1>2 DEF Sockets, History, Inv, ServerIsUp, PortsAreReleased, AllUp
<1>5. ThreadsFollowFlags'
  BY <1>1, <1>2, ThreadsAreTyped
    DEF Inv, ThreadsFollowFlags, ThreadsOf, Threads, History
<1>6. BusyIsServed'
  BY <1>1 DEF Sockets, History, Inv, BusyIsServed, Busy, Threads
<1> QED
  BY <1>1, <1>3, <1>4, <1>5, <1>6 DEF Sockets, Rep, Client, History, Inv,
    RequestsWereSent, Threads, Busy, OneAtWork, Working, HandshakesHaveNoAck,
    CrashOnlyIfRaced, RepliesMatchUnlessRaced, OwesOnlyWorkedOnRequests

LEMMA ClientSendsKeepsInv == Inv /\ ClientSends => Inv'
<1> SUFFICES ASSUME Inv, ClientSends PROVE Inv'
  OBVIOUS
<1> DEFINE n == Len(sent) + 1
<1>1. /\ Len(sent) < MaxRequests /\ waiting_for' = n /\ inbox' = Append(inbox, n)
      /\ UNCHANGED <<Ruby, user, logger, Sockets, revents, dispatch, replying_to,
                     replies, crashed, History>>
  BY DEF ClientSends
<1>2. PICK command \in Commands : sent' = Append(sent, command)
  BY DEF ClientSends
<1>3. /\ sent' \in Seq(Commands) /\ Len(sent') = n /\ n \in Nat
      /\ \A r \in 1 .. Len(sent) : sent'[r] = sent[r]
  <2>1. sent \in Seq(Commands) /\ Len(sent) \in Nat
    BY ThreadsAreTyped DEF Inv, TypeOK
  <2>2. /\ Append(sent, command) \in Seq(Commands)
        /\ Len(Append(sent, command)) = Len(sent) + 1
        /\ \A r \in 1 .. Len(sent) : Append(sent, command)[r] = sent[r]
    BY <2>1, AppendProperties
  <2> QED BY <1>2, <2>1, <2>2
<1>4. inbox' \in Seq(1 .. n) /\ waiting_for' \in 0 .. n /\ replying_to' \in 0 .. n
  <2>1. 1 .. Len(sent) \subseteq 1 .. n /\ n \in 1 .. n
    BY <1>3, ThreadsAreTyped DEF Inv
  <2>2. inbox \in Seq(1 .. Len(sent)) /\ replying_to \in 0 .. Len(sent)
    BY DEF Inv, TypeOK
  <2>3. inbox \in Seq(1 .. n)
    <3>1. inbox \in [1 .. Len(inbox) -> 1 .. Len(sent)] /\ Len(inbox) \in Nat
      BY <2>2, LenProperties
    <3>2. inbox \in [1 .. Len(inbox) -> 1 .. n]
      BY <2>1, <3>1
    <3> QED BY <3>1, <3>2
  <2> HIDE DEF n
  <2>4. Append(inbox, n) \in Seq(1 .. n)
    BY <2>1, <2>3, AppendProperties
  <2>5. waiting_for' \in 0 .. n
    BY <1>1, <1>3
  <2>6. replying_to' \in 0 .. n
    <3> USE DEF n
    <3> QED BY <1>1, <2>2, ThreadsAreTyped DEF Inv
  <2> QED BY <1>1, <2>4, <2>5, <2>6
<1>5. Threads' = Threads
      /\ \A t \in Threads : (Busy(t)' <=> Busy(t)) /\ (Working(t)' <=> Working(t))
  BY <1>1 DEF Threads, Busy, Working
<1>6. TypeOK'
  BY <1>1, <1>3, <1>4 DEF Ruby, Sockets, History, Inv, TypeOK
<1>7. RequestsWereSent'
  <2>1. \A t \in Threads : dispatch[t].request \in Nat
    BY ThreadsAreTyped DEF Inv
  <2>2. \A r \in replies : r.to \in 1 .. MaxRequests
    BY DEF Inv, TypeOK
  <2> QED BY <1>1, <1>3, <1>5, <2>1, <2>2, ThreadsAreTyped DEF Inv, RequestsWereSent
<1>8. HandshakesHaveNoAck' /\ RepliesMatchUnlessRaced' /\ OwesOnlyWorkedOnRequests'
  <2>1. \A t \in Threads :
          dispatch[t].at = "ack" => sent'[dispatch[t].request] = sent[dispatch[t].request]
    BY <1>3, ThreadsAreTyped DEF Inv, RequestsWereSent, Working
  <2>2. \A r \in replies : sent'[r.to] = sent[r.to]
    <3>1. \A r \in replies : r.to \in 1 .. MaxRequests /\ r.to <= Len(sent)
      BY DEF Inv, TypeOK, RequestsWereSent
    <3> QED BY <1>3, <3>1, ThreadsAreTyped DEF Inv
  <2>3. replying_to # 0 => sent'[replying_to] = sent[replying_to]
    <3>1. replying_to \in 0 .. Len(sent)
      BY DEF Inv, TypeOK
    <3> QED BY <1>3, <3>1, ThreadsAreTyped DEF Inv
  <2> QED BY <1>1, <1>5, <2>1, <2>2, <2>3
    DEF History, Inv, HandshakesHaveNoAck, RepliesMatchUnlessRaced,
      OwesOnlyWorkedOnRequests
<1> QED
  BY <1>1, <1>5, <1>6, <1>7, <1>8 DEF Ruby, Sockets, History, Inv, ServerIsUp,
    Stopping, AllUp, PortsAreReleased, ThreadsFollowFlags, ThreadsOf,
    BusyIsServed, OneAtWork, CrashOnlyIfRaced

LEMMA ClientGivesUpKeepsInv == Inv /\ ClientGivesUp => Inv'
<1> SUFFICES ASSUME Inv, ClientGivesUp PROVE Inv'
  OBVIOUS
<1>1. /\ waiting_for' = 0
      /\ UNCHANGED <<Ruby, user, logger, Sockets, revents, dispatch, Rep, sent,
                     replies, crashed, History>>
  BY DEF ClientGivesUp
<1>2. 0 \in 0 .. Len(sent)
  BY ThreadsAreTyped DEF Inv
<1>3. TypeOK'
  BY <1>1, <1>2 DEF Ruby, Sockets, Rep, History, Inv, TypeOK
<1> QED
  BY <1>1, <1>3 DEF Ruby, Sockets, Rep, History, Inv, RequestsWereSent, ServerIsUp,
    Stopping, AllUp, PortsAreReleased, ThreadsFollowFlags, ThreadsOf, Threads,
    BusyIsServed, Busy, OneAtWork, Working, HandshakesHaveNoAck, CrashOnlyIfRaced,
    RepliesMatchUnlessRaced, OwesOnlyWorkedOnRequests

(* Another process never takes the ports of a server that is up. *)
LEMMA OtherProcessKeepsInv == Inv /\ OtherProcess => Inv'
<1> SUFFICES ASSUME Inv, OtherProcess PROVE Inv'
  OBVIOUS
<1>1. /\ pub_port' \in Owners /\ request_port' \in Owners
      /\ pub_port' = "rbkit" <=> pub_port = "rbkit"
      /\ request_port' = "rbkit" <=> request_port = "rbkit"
      /\ UNCHANGED <<Ruby, user, logger, zmq_publisher, zmq_response_socket,
                     revents, dispatch, Rep, Client, crashed, History>>
  BY DEF OtherProcess, Owners, Inv, TypeOK
<1>2. TypeOK'
  BY <1>1 DEF Ruby, Rep, Client, History, Inv, TypeOK
<1> QED
  BY <1>1, <1>2 DEF Ruby, Rep, Client, History, Inv, RequestsWereSent, ServerIsUp,
    Stopping, AllUp, PortsAreReleased, ThreadsFollowFlags, ThreadsOf, Threads,
    BusyIsServed, Busy, OneAtWork, Working, HandshakesHaveNoAck, CrashOnlyIfRaced,
    RepliesMatchUnlessRaced, OwesOnlyWorkedOnRequests

-----------------------------------------------------------------------------
(* The steps of a dispatch thread. What they have in common: they change   *)
(* nothing of the server, and a thread comes to be busy only while its     *)
(* Server runs.                                                            *)
Kept == <<Ruby, user, logger, Sockets, sent, History>>

LEMMA ThreadMoves ==
  ASSUME Inv, NEW t \in Threads, NEW at, NEW request, GoTo(t, at, request),
         \/ at \in {"check", "poll", "ended", "died"} /\ request = 0
         \/ at \in {"process", "command", "ack", "died"} /\ request \in 1 .. Len(sent),
         at = "ended" => stop_profiler_thread[dispatch[t].server],
         at = "ack" => sent[request] # "handshake",
         ~raced /\ at \in {"poll", "process", "command", "ack"} =>
           Busy(t) \/ ~stop_profiler_thread[dispatch[t].server],
         UNCHANGED Kept
  PROVE  /\ dispatch' \in Seq(DispatchThread) /\ Threads' = Threads
         /\ dispatch'[t].at = at /\ dispatch'[t].request = request
         /\ \A u \in Threads \ {t} : dispatch'[u] = dispatch[u]
         /\ ServerIsUp' /\ PortsAreReleased' /\ ThreadsFollowFlags'
         /\ BusyIsServed' /\ HandshakesHaveNoAck'
         /\ \A u \in Threads' : dispatch'[u].request <= Len(sent')
<1> USE DEF Ruby, Sockets, History, Kept
<1>1. /\ 1 .. Len(sent) \subseteq 1 .. MaxRequests /\ 0 <= Len(sent)
      /\ Len(sent) \in Nat
  BY ThreadsAreTyped DEF Inv, RequestsWereSent
<1>2. /\ dispatch' \in Seq(DispatchThread)
      /\ Threads' = Threads
      /\ dispatch'[t].at = at /\ dispatch'[t].request = request
      /\ \A u \in Threads : dispatch'[u].server = dispatch[u].server
      /\ \A u \in Threads \ {t} : dispatch'[u] = dispatch[u]
  BY <1>1, GoToMovesOneThread DEF Inv
<1>3. ServerIsUp' /\ PortsAreReleased'
  BY DEF Inv, ServerIsUp, AllUp, PortsAreReleased, Stopping
<1>4. ThreadsFollowFlags'
  <2>1. \A s \in Servers : ThreadsOf(s)' = ThreadsOf(s)
    BY <1>2 DEF ThreadsOf
  <2>2. \A u \in Threads :
          dispatch'[u].at = "ended" => stop_profiler_thread[dispatch[u].server]
    BY <1>2 DEF Inv, ThreadsFollowFlags
  <2> QED BY <1>2, <2>1, <2>2 DEF Inv, ThreadsFollowFlags, Stopping
<1>5. BusyIsServed'
  <2>1. SUFFICES ASSUME ~raced, NEW u \in Threads, Busy(u)'
                 PROVE  /\ server_running[dispatch[u].server]
                        /\ logger /\ zmq_response_socket = "bound"
    BY <1>2 DEF BusyIsServed
  <2>2. CASE Busy(u)
    BY <2>1, <2>2 DEF Inv, BusyIsServed
  <2>3. CASE ~Busy(u)
    <3>1. u = t /\ ~stop_profiler_thread[dispatch[t].server]
      BY <1>2, <2>1, <2>3 DEF Busy
    <3>2. dispatch[t].server \in Servers /\ server_running[dispatch[t].server]
      BY <3>1, ThreadsAreTyped DEF Inv, ThreadsFollowFlags
    <3>3. dispatch[t].server = server /\ ~Stopping
      BY <3>1, <3>2 DEF Inv, ServerIsUp, ThreadsFollowFlags
    <3>4. AllUp
      BY <3>2, <3>3 DEF Inv, TypeOK, ServerIsUp, Stopping
    <3> QED BY <3>1, <3>2, <3>4 DEF AllUp
  <2> QED BY <2>2, <2>3
<1>6. HandshakesHaveNoAck'
  BY <1>2 DEF Inv, HandshakesHaveNoAck
<1>7. \A u \in Threads' : dispatch'[u].request <= Len(sent')
  BY <1>1, <1>2 DEF Inv, RequestsWereSent
<1> QED BY <1>2, <1>3, <1>4, <1>5, <1>6, <1>7

LEMMA CheckStopFlagKeepsInv ==
  ASSUME Inv, NEW t \in Threads, CheckStopFlag(t)
  PROVE  Inv'
<1> USE DEF Kept, Ruby, Sockets, Rep, Client, History
<1>1. /\ dispatch[t].at = "check"
      /\ UNCHANGED <<Ruby, user, logger, Sockets, revents, Rep, Client, crashed,
                     History>>
  BY DEF CheckStopFlag
<1>2. PICK at \in {"ended", "poll"} :
        /\ GoTo(t, at, 0)
        /\ at = "ended" <=> stop_profiler_thread[dispatch[t].server]
  BY DEF CheckStopFlag
<1>3. /\ dispatch' \in Seq(DispatchThread) /\ Threads' = Threads
      /\ dispatch'[t].at = at /\ dispatch'[t].request = 0
      /\ \A u \in Threads \ {t} : dispatch'[u] = dispatch[u]
      /\ ServerIsUp' /\ PortsAreReleased' /\ ThreadsFollowFlags'
      /\ BusyIsServed' /\ HandshakesHaveNoAck'
      /\ \A u \in Threads' : dispatch'[u].request <= Len(sent')
  <2>1. UNCHANGED Kept
    BY <1>1
  <2> QED BY <1>1, <1>2, <2>1, ThreadMoves
<1>4. TypeOK' /\ RequestsWereSent'
  BY <1>1, <1>3 DEF Inv, TypeOK, RequestsWereSent
<1>5. /\ ~Working(t) /\ ~Working(t)' /\ ~Busy(t)
      /\ \A u \in Threads \ {t} :
           (Working(u)' <=> Working(u)) /\ (Busy(u)' <=> Busy(u))
  BY <1>1, <1>2, <1>3 DEF Working, Busy
<1>6. OneAtWork' /\ OwesOnlyWorkedOnRequests'
  BY <1>1, <1>3, <1>5 DEF Inv, OneAtWork, OwesOnlyWorkedOnRequests
<1> QED
  BY <1>1, <1>3, <1>4, <1>6 DEF Inv, CrashOnlyIfRaced, RepliesMatchUnlessRaced

(* A request is received only when no other is being worked on. *)
LEMMA PollForRequestKeepsInv ==
  ASSUME Inv, NEW t \in Threads, poll_for_request(t)
  PROVE  Inv'
<1> USE DEF Kept, Ruby, Sockets, Client, History
<1>1. /\ ~crashed /\ dispatch[t].at = "poll"
      /\ UNCHANGED <<Ruby, user, logger, Sockets, Client, History>>
  BY DEF poll_for_request
<1>2. Busy(t) /\ ~Working(t)
  BY <1>1 DEF Busy, Working
<1> DEFINE received == Head(inbox)
<1>3. RequestArrived =>
        /\ received \in 1 .. Len(sent) /\ Tail(inbox) \in Seq(1 .. Len(sent))
        /\ received # 0
        /\ ~raced => \A u \in Threads : ~Working(u)
  <2>1. RequestArrived => received \in 1 .. Len(sent) /\ Tail(inbox) \in Seq(1 .. Len(sent))
    BY HeadTailProperties DEF RequestArrived, Inv, TypeOK
  <2>2. RequestArrived /\ ~raced => \A u \in Threads : ~Working(u)
    BY ThreadsAreTyped DEF RequestArrived, Inv, OneAtWork
  <2> QED BY <2>1, <2>2
<1> HIDE DEF received
<1>4. PICK at \in {"check", "process"}, request \in {0, received} :
        /\ GoTo(t, at, request)
        /\ at = "check" => request = 0
        /\ at = "process" => RequestArrived /\ request = received
        /\ RequestArrived =>
             /\ replying_to' = received /\ inbox' = Tail(inbox)
             /\ at = "check" => sent[received] = ""
        /\ ~RequestArrived => UNCHANGED Rep
        /\ crashed' => zmq_response_socket # "bound"
        /\ revents' \in BOOLEAN /\ crashed' \in BOOLEAN
  <2>1. revents \in BOOLEAN /\ crashed \in BOOLEAN
    BY DEF Inv, TypeOK
  <2>2. CASE RequestArrived
    <3>1. zmq_response_socket = "bound"
      BY <2>2 DEF RequestArrived
    <3>2. /\ revents' = TRUE /\ replying_to' = received /\ inbox' = Tail(inbox)
          /\ UNCHANGED crashed
          /\ IF sent[received] = "" THEN GoTo(t, "check", 0)
                                    ELSE GoTo(t, "process", received)
      BY <2>2, <3>1 DEF poll_for_request, received
    <3>3. CASE sent[received] = ""
      <4>1. GoTo(t, "check", 0)
        BY <3>2, <3>3
      <4> QED BY <1>1, <2>1, <2>2, <3>2, <3>3, <4>1
    <3>4. CASE sent[received] # ""
      <4>1. GoTo(t, "process", received)
        BY <3>2, <3>4
      <4> QED BY <1>1, <2>1, <2>2, <3>2, <3>4, <4>1
    <3> QED BY <3>3, <3>4
  <2>3. CASE ~RequestArrived
    <3>1. /\ GoTo(t, "check", 0) /\ UNCHANGED Rep
          /\ revents' \in BOOLEAN /\ crashed' \in BOOLEAN
          /\ crashed' => zmq_response_socket # "bound"
      <4>1. CASE zmq_response_socket = "bound"
        <5>1. /\ revents' = FALSE /\ GoTo(t, "check", 0)
              /\ UNCHANGED <<Rep, crashed>>
          BY <2>3, <4>1 DEF poll_for_request
        <5> QED BY <1>1, <2>1, <5>1
      <4>2. CASE zmq_response_socket # "bound"
        <5>1. /\ crashed' = revents /\ GoTo(t, "check", 0)
              /\ UNCHANGED <<revents, Rep>>
          BY <2>3, <4>2 DEF poll_for_request
        <5> QED BY <2>1, <4>2, <5>1
      <4> QED BY <4>1, <4>2
    <3> QED BY <2>3, <3>1
  <2> QED BY <2>2, <2>3
<1>5. /\ dispatch' \in Seq(DispatchThread) /\ Threads' = Threads
      /\ dispatch'[t].at = at /\ dispatch'[t].request = request
      /\ \A u \in Threads \ {t} : dispatch'[u] = dispatch[u]
      /\ ServerIsUp' /\ PortsAreReleased' /\ ThreadsFollowFlags'
      /\ BusyIsServed' /\ HandshakesHaveNoAck'
      /\ \A u \in Threads' : dispatch'[u].request <= Len(sent')
  <2>1. UNCHANGED Kept
    BY <1>1
  <2> QED BY <1>2, <1>3, <1>4, <2>1, ThreadMoves
<1>6. TypeOK' /\ RequestsWereSent'
  <2>1. /\ inbox' \in Seq(1 .. Len(sent')) /\ replying_to' \in 0 .. Len(sent')
    <3>1. inbox \in Seq(1 .. Len(sent)) /\ replying_to \in 0 .. Len(sent)
      BY DEF Inv, TypeOK
    <3>2. sent' = sent /\ 1 .. Len(sent) \subseteq 0 .. Len(sent)
      BY <1>1, ThreadsAreTyped DEF Inv
    <3>3. CASE RequestArrived
      BY <1>3, <1>4, <3>2, <3>3
    <3>4. CASE ~RequestArrived
      BY <1>4, <3>1, <3>2, <3>4 DEF Rep
    <3> QED BY <3>3, <3>4
  <2> QED BY <1>1, <1>4, <1>5, <2>1 DEF Inv, TypeOK, RequestsWereSent
<1>7. /\ Working(t)' <=> at = "process"
      /\ Busy(t)' <=> at = "process"
      /\ \A u \in Threads \ {t} :
           (Working(u)' <=> Working(u)) /\ (Busy(u)' <=> Busy(u))
  BY <1>4, <1>5 DEF Working, Busy
<1>8. OneAtWork'
  <2>1. CASE RequestArrived
    BY <1>1, <1>3, <1>4, <1>5, <1>7, <2>1 DEF OneAtWork
  <2>2. CASE ~RequestArrived
    BY <1>1, <1>4, <1>5, <1>7, <2>2 DEF Rep, Inv, OneAtWork
  <2> QED BY <2>1, <2>2
<1>9. OwesOnlyWorkedOnRequests'
  <2>1. CASE RequestArrived
    BY <1>1, <1>4, <1>5, <1>7, <2>1 DEF OwesOnlyWorkedOnRequests
  <2>2. CASE ~RequestArrived
    <3>1. dispatch[t].request = 0
      BY <1>1, <1>2, ThreadsAreTyped DEF Inv
    <3> QED BY <1>1, <1>4, <1>5, <1>7, <2>2, <3>1 DEF Rep, Inv, OwesOnlyWorkedOnRequests
  <2> QED BY <2>1, <2>2
<1>10. CrashOnlyIfRaced' /\ RepliesMatchUnlessRaced'
  <2>1. ~raced => zmq_response_socket = "bound"
    BY <1>2 DEF Inv, BusyIsServed
  <2> QED BY <1>1, <1>4, <2>1 DEF Inv, CrashOnlyIfRaced, RepliesMatchUnlessRaced
<1> QED BY <1>5, <1>6, <1>8, <1>9, <1>10 DEF Inv

LEMMA ProcessIncomingRequestKeepsInv ==
  ASSUME Inv, NEW t \in Threads, process_incoming_request(t)
  PROVE  Inv'
<1> USE DEF Kept, Ruby, Sockets, Rep, Client, History
<1>1. /\ dispatch[t].at = "process"
      /\ UNCHANGED <<Ruby, user, logger, Sockets, revents, Rep, Client, crashed,
                     History>>
  BY DEF process_incoming_request
<1>2. /\ Busy(t) /\ Working(t)
      /\ dispatch[t].request \in 1 .. Len(sent)
  <2>1. Busy(t) /\ Working(t)
    BY <1>1 DEF Busy, Working
  <2>2. dispatch[t].request \in 1 .. MaxRequests /\ dispatch[t].request <= Len(sent)
    BY <2>1, ThreadsAreTyped DEF Inv, RequestsWereSent
  <2> QED BY <2>1, <2>2, ThreadsAreTyped DEF Inv
<1>3. PICK at \in {"check", "command"}, request \in {0, dispatch[t].request} :
        /\ GoTo(t, at, request)
        /\ at = "check" => request = 0 /\ ~server_running[dispatch[t].server]
        /\ at = "command" => request = dispatch[t].request
  BY DEF process_incoming_request
<1>4. /\ dispatch' \in Seq(DispatchThread) /\ Threads' = Threads
      /\ dispatch'[t].at = at /\ dispatch'[t].request = request
      /\ \A u \in Threads \ {t} : dispatch'[u] = dispatch[u]
      /\ ServerIsUp' /\ PortsAreReleased' /\ ThreadsFollowFlags'
      /\ BusyIsServed' /\ HandshakesHaveNoAck'
      /\ \A u \in Threads' : dispatch'[u].request <= Len(sent')
  <2>1. UNCHANGED Kept
    BY <1>1
  <2> QED BY <1>2, <1>3, <2>1, ThreadMoves
<1>5. TypeOK' /\ RequestsWereSent'
  BY <1>1, <1>4 DEF Inv, TypeOK, RequestsWereSent
<1>6. ~raced => at = "command"
  BY <1>2, <1>3 DEF Inv, BusyIsServed
<1>7. /\ at = "command" => Working(t)' /\ Busy(t)' /\ request = dispatch[t].request
      /\ \A u \in Threads \ {t} :
           (Working(u)' <=> Working(u)) /\ (Busy(u)' <=> Busy(u))
  BY <1>3, <1>4 DEF Working, Busy
<1>8. OneAtWork' /\ OwesOnlyWorkedOnRequests'
  BY <1>1, <1>2, <1>4, <1>6, <1>7 DEF Inv, OneAtWork, OwesOnlyWorkedOnRequests
<1> QED
  BY <1>1, <1>4, <1>5, <1>8 DEF Inv, CrashOnlyIfRaced, RepliesMatchUnlessRaced

(* Without a race, a thread answers the very request it has worked on, and *)
(* the socket owes no reply after that.                                    *)
LEMMA AnswerKeepsInv ==
  ASSUME Inv, NEW t \in Threads, NEW answer,
         dispatch[t].at \in {"command", "ack"},
         respond_with_message(t, answer), AfterResponse(t),
         answer = IF sent[dispatch[t].request] = "handshake" THEN "status" ELSE "ok",
         UNCHANGED <<Ruby, user, logger, Sockets, revents, inbox, sent, crashed,
                     History>>
  PROVE  Inv'
<1> USE DEF Kept, Ruby, Sockets, Rep, History
<1>1. /\ Busy(t) /\ Working(t)
      /\ dispatch[t].request \in 1 .. Len(sent)
      /\ dispatch[t].request \in 1 .. MaxRequests
  <2>1. Busy(t) /\ Working(t)
    BY DEF Busy, Working
  <2>2. dispatch[t].request \in 1 .. MaxRequests /\ dispatch[t].request <= Len(sent)
    BY <2>1, ThreadsAreTyped DEF Inv, RequestsWereSent
  <2> QED BY <2>1, <2>2, ThreadsAreTyped DEF Inv
<1>2. PICK at \in {"check", "died"} : GoTo(t, at, 0)
  BY DEF AfterResponse
<1>3. /\ dispatch' \in Seq(DispatchThread) /\ Threads' = Threads
      /\ dispatch'[t].at = at /\ dispatch'[t].request = 0
      /\ \A u \in Threads \ {t} : dispatch'[u] = dispatch[u]
      /\ ServerIsUp' /\ PortsAreReleased' /\ ThreadsFollowFlags'
      /\ BusyIsServed' /\ HandshakesHaveNoAck'
      /\ \A u \in Threads' : dispatch'[u].request <= Len(sent')
  <2>1. UNCHANGED Kept
    OBVIOUS
  <2> QED BY <1>1, <1>2, <2>1, ThreadMoves
<1> DEFINE reply == [to |-> replying_to, for |-> dispatch[t].request, answer |-> answer]
<1>4. /\ replying_to \in 0 .. Len(sent) /\ waiting_for \in 0 .. Len(sent)
      /\ Len(sent) \in Nat /\ Len(sent) <= MaxRequests
  BY ThreadsAreTyped DEF Inv, TypeOK, RequestsWereSent
<1>5. /\ replying_to' \in 0 .. Len(sent) /\ waiting_for' \in 0 .. Len(sent)
      /\ replies' \subseteq replies \cup {reply}
      /\ replying_to = 0 => replies' = replies
  <2>1. 0 \in 0 .. Len(sent)
    BY <1>4
  <2> QED BY <1>4, <2>1 DEF respond_with_message
<1>6. ~raced => /\ replying_to = dispatch[t].request /\ replying_to' = 0
                /\ \A u \in Threads \ {t} : ~Working(u)
  <2>1. ~raced => /\ replying_to = dispatch[t].request
                  /\ zmq_response_socket = "bound"
                  /\ \A u \in Threads \ {t} : ~Working(u)
    BY <1>1 DEF Inv, BusyIsServed, OneAtWork
  <2>2. dispatch[t].request # 0
    BY <1>1, <1>4
  <2> QED BY <2>1, <2>2 DEF respond_with_message
<1>7. replying_to # 0 => /\ reply.to <= Len(sent)
                         /\ reply \in [to : 1 .. MaxRequests, for : 1 .. MaxRequests,
                                       answer : {"ok", "status"}]
  <2>1. replying_to # 0 => replying_to \in 1 .. MaxRequests /\ replying_to <= Len(sent)
    BY <1>4
  <2> QED BY <1>1, <2>1
<1>8. /\ reply.to = replying_to /\ reply.for = dispatch[t].request
      /\ reply.answer = answer
  OBVIOUS
<1> HIDE DEF reply
<1>9. RepliesMatchUnlessRaced'
  BY <1>5, <1>6, <1>8 DEF Inv, RepliesMatchUnlessRaced
<1>10. TypeOK' /\ RequestsWereSent'
  <2>1. /\ replies' \subseteq [to : 1 .. MaxRequests, for : 1 .. MaxRequests,
                               answer : {"ok", "status"}]
        /\ \A r \in replies' : r.to <= Len(sent)
    BY <1>5, <1>7 DEF Inv, TypeOK, RequestsWereSent
  <2> QED BY <1>3, <1>4, <1>5, <2>1 DEF Inv, TypeOK, RequestsWereSent
<1>11. /\ ~Working(t)'
       /\ \A u \in Threads \ {t} : Working(u)' <=> Working(u)
  BY <1>2, <1>3 DEF Working
<1>12. OneAtWork' /\ OwesOnlyWorkedOnRequests'
  BY <1>3, <1>6, <1>11 DEF OneAtWork, OwesOnlyWorkedOnRequests
<1> QED
  BY <1>3, <1>9, <1>10, <1>12 DEF Inv, CrashOnlyIfRaced

(* A command that raises leaves the reply owed to the thread that died.    *)
LEMMA RunCommandKeepsInv ==
  ASSUME Inv, NEW t \in Threads, RunCommand(t)
  PROVE  Inv'
<1> DEFINE request == dispatch[t].request
<1>1. /\ dispatch[t].at = "command"
      /\ UNCHANGED <<Ruby, user, logger, Sockets, revents, inbox, sent, History>>
  BY DEF RunCommand
<1>2. CASE /\ sent[request] = "handshake"
           /\ respond_with_message(t, "status") /\ AfterResponse(t)
           /\ UNCHANGED crashed
  BY <1>1, <1>2, AnswerKeepsInv
<1>3. ASSUME NEW at \in {"ack", "died"}, GoTo(t, at, request),
             at = "ack" => sent[request] # "handshake",
             at = "died" => sent[request] \in MayRaise,
             crashed' \in BOOLEAN, crashed' => crashed \/ ~logger,
             UNCHANGED <<replying_to, waiting_for, replies>>
      PROVE  Inv'
  <2> USE DEF Kept, Ruby, Sockets, Rep, Client, History
  <2>1. /\ Busy(t) /\ Working(t)
        /\ request \in 1 .. Len(sent)
    <3>1. Busy(t) /\ Working(t)
      BY <1>1 DEF Busy, Working
    <3>2. request \in 1 .. MaxRequests /\ request <= Len(sent)
      BY <3>1, ThreadsAreTyped DEF Inv, RequestsWereSent
    <3> QED BY <3>1, <3>2, ThreadsAreTyped DEF Inv
  <2>2. /\ dispatch' \in Seq(DispatchThread) /\ Threads' = Threads
        /\ dispatch'[t].at = at /\ dispatch'[t].request = request
        /\ \A u \in Threads \ {t} : dispatch'[u] = dispatch[u]
        /\ ServerIsUp' /\ PortsAreReleased' /\ ThreadsFollowFlags'
        /\ BusyIsServed' /\ HandshakesHaveNoAck'
        /\ \A u \in Threads' : dispatch'[u].request <= Len(sent')
    <3>1. UNCHANGED Kept
      BY <1>1
    <3> HIDE DEF request
    <3> QED BY <1>1, <1>3, <2>1, <3>1, ThreadMoves
  <2>3. CrashOnlyIfRaced'
    <3>1. ~raced => logger
      BY <2>1 DEF Inv, BusyIsServed
    <3> QED BY <1>1, <1>3, <3>1 DEF Inv, CrashOnlyIfRaced
  <2>4. TypeOK' /\ RequestsWereSent'
    BY <1>1, <1>3, <2>2 DEF Inv, TypeOK, RequestsWereSent
  <2>5. /\ at = "ack" => Working(t)' /\ Busy(t)'
        /\ at = "died" => ~Working(t)'
        /\ \A u \in Threads \ {t} :
             (Working(u)' <=> Working(u)) /\ (Busy(u)' <=> Busy(u))
    BY <2>2 DEF Working, Busy
  <2>6. OneAtWork'
    BY <1>1, <1>3, <2>1, <2>2, <2>5 DEF Inv, OneAtWork
  <2>7. OwesOnlyWorkedOnRequests'
    <3>1. ~raced => request = replying_to
      BY <2>1 DEF Inv, OneAtWork
    <3>2. \/ Busy(t)'
          \/ dispatch'[t].at = "died" /\ sent'[request] \in MayRaise
      BY <1>1, <1>3, <2>2, <2>5
    <3> QED BY <1>1, <1>3, <2>2, <3>1, <3>2 DEF OwesOnlyWorkedOnRequests
  <2> QED
    BY <1>1, <1>3, <2>2, <2>3, <2>4, <2>6, <2>7 DEF Inv, RepliesMatchUnlessRaced
<1>4. CASE /\ sent[request] # "handshake"
           /\ crashed' = (sent[request] \in NeedsLogger /\ ~logger)
           /\ GoTo(t, "ack", request)
           /\ UNCHANGED <<replying_to, waiting_for, replies>>
  <2>1. crashed' \in BOOLEAN /\ (crashed' => ~logger)
    BY <1>4
  <2> HIDE DEF request
  <2> QED BY <1>3, <1>4, <2>1
<1>5. CASE /\ sent[request] \in MayRaise /\ GoTo(t, "died", request)
           /\ UNCHANGED <<crashed, replying_to, waiting_for, replies>>
  <2>1. crashed' \in BOOLEAN
    BY <1>5 DEF Inv, TypeOK
  <2> HIDE DEF request
  <2> QED BY <1>3, <1>5, <2>1
<1> QED BY <1>2, <1>4, <1>5 DEF RunCommand

LEMMA SendCommandAckKeepsInv ==
  ASSUME Inv, NEW t \in Threads, send_command_ack(t)
  PROVE  Inv'
<1>1. /\ dispatch[t].at = "ack"
      /\ respond_with_message(t, "ok") /\ AfterResponse(t)
      /\ UNCHANGED <<Ruby, user, logger, Sockets, revents, inbox, sent, crashed,
                     History>>
  BY DEF send_command_ack
<1>2. sent[dispatch[t].request] # "handshake"
  BY <1>1 DEF Inv, HandshakesHaveNoAck
<1> QED BY <1>1, <1>2, AnswerKeepsInv

-----------------------------------------------------------------------------
LEMMA StutteringKeepsInv == Inv /\ UNCHANGED vars => Inv'
<1> SUFFICES ASSUME Inv, UNCHANGED vars PROVE Inv'
  OBVIOUS
<1> USE DEF vars, Ruby, Sockets, Rep, Client, History
<1>1. TypeOK'
  BY DEF Inv, TypeOK
<1> QED
  BY <1>1 DEF Inv, RequestsWereSent, ServerIsUp,
    Stopping, AllUp, PortsAreReleased, ThreadsFollowFlags, ThreadsOf, Threads,
    BusyIsServed, Busy, OneAtWork, Working, HandshakesHaveNoAck, CrashOnlyIfRaced,
    RepliesMatchUnlessRaced, OwesOnlyWorkedOnRequests

(* Whatever is started, stopped, requested, taken over by other processes, *)
(* and in whatever order: Inv holds.                                       *)
THEOREM InvIsInvariant == Spec => []Inv
<1>1. Inv /\ [Next]_vars => Inv'
  <2> SUFFICES ASSUME Inv, [Next]_vars PROVE Inv'
    OBVIOUS
  <2>1. CASE start_server
    BY <2>1, StartServerKeepsInv
  <2>2. CASE StartDispatchThread
    BY <2>2, StartDispatchThreadKeepsInv
  <2>3. CASE StartFails
    BY <2>3, StartFailsKeepsInv
  <2>4. CASE stop
    BY <2>4, StopKeepsInv
  <2>5. CASE stop_stat_server
    BY <2>5, StopStatServerKeepsInv
  <2>6. CASE FinishStop
    BY <2>6, FinishStopKeepsInv
  <2>7. CASE \E t \in Threads : DispatchStep(t)
    <3>1. PICK t \in Threads : DispatchStep(t)
      BY <2>7
    <3> QED BY <3>1, CheckStopFlagKeepsInv, PollForRequestKeepsInv,
        ProcessIncomingRequestKeepsInv, RunCommandKeepsInv, SendCommandAckKeepsInv
      DEF DispatchStep
  <2>8. CASE ClientSends
    BY <2>8, ClientSendsKeepsInv
  <2>9. CASE ClientGivesUp
    BY <2>9, ClientGivesUpKeepsInv
  <2>10. CASE OtherProcess
    BY <2>10, OtherProcessKeepsInv
  <2>11. CASE UNCHANGED vars
    BY <2>11, StutteringKeepsInv
  <2> QED BY <2>1, <2>2, <2>3, <2>4, <2>5, <2>6, <2>7, <2>8, <2>9, <2>10, <2>11 DEF Next
<1> QED BY <1>1, InitHasInv, PTL DEF Spec

(* Server objects (lib/rbkit/server.rb), the statics of rbkit_server.c and *)
(* the dispatch threads keep their types: a thread always belongs to a     *)
(* Server that was made, and has a request in hand only while it works.    *)
THEOREM TypeCorrect == Spec => []TypeOK
<1>1. Inv => TypeOK
  BY DEF Inv
<1> QED BY <1>1, InvIsInvariant, PTL

(* start_server and stop_server never part a running Server from the       *)
(* logger, the sockets and the ports it shares with all others.            *)
THEOREM RunningServerHasStatics == Spec => []RunningServerIsUp
<1>1. Inv => RunningServerIsUp
  <2> SUFFICES ASSUME Inv, NEW s \in Servers, server_running[s], ~Stopping
               PROVE  /\ s = server
                      /\ \A r \in Servers \ {s} : ~server_running[r]
                      /\ AllUp
    BY DEF RunningServerIsUp, AllUp
  <2>1. s = server /\ \A r \in Servers : server_running[r] => r = server
    BY DEF Inv, ServerIsUp
  <2>2. user \in {"idle", "starting"}
    BY DEF Inv, TypeOK, Stopping
  <2>3. AllUp
    BY <2>2 DEF Inv, ServerIsUp
  <2> QED BY <2>1, <2>3
<1> QED BY <1>1, InvIsInvariant, PTL

(* Only a start that fails half-way leaves a port bound: every complete    *)
(* stop releases both.                                                     *)
THEOREM StopReleasesPorts == Spec => []PortsReleasedUnlessLeaked
<1>1. Inv => PortsReleasedUnlessLeaked
  BY DEF Inv, PortsAreReleased, PortsReleasedUnlessLeaked, Stopping
<1> QED BY <1>1, InvIsInvariant, PTL

(* A dispatch thread uses a NULL logger or a closed socket only if a stop  *)
(* came while a thread was in the middle of its loop.                      *)
THEOREM NoCrashWithoutRace == Spec => []CrashOnlyIfRaced
<1>1. Inv => CrashOnlyIfRaced
  BY DEF Inv
<1> QED BY <1>1, InvIsInvariant, PTL

(* Without such a stop, respond_with_message answers the request that the  *)
(* thread has carried out, and answers it the way its command asks for.    *)
THEOREM RepliesAreOfTheirRequests == Spec => []RepliesMatchUnlessRaced
<1>1. Inv => RepliesMatchUnlessRaced
  BY DEF Inv
<1> QED BY <1>1, InvIsInvariant, PTL

(* Without such a stop, the response socket owes a reply only to a request *)
(* that some thread has in hand, to the empty request, which               *)
(* poll_for_request takes and the loop drops, or to one whose command      *)
(* raised before send_command_ack or send_handshake_response replied.      *)
THEOREM RepliesOwedAreWorkedOn == Spec => []OwesOnlyWorkedOnRequests
<1>1. Inv => OwesOnlyWorkedOnRequests
  BY DEF Inv
<1> QED BY <1>1, InvIsInvariant, PTL

(* The dispatch loop of a running Server has not left by its break, unless *)
(* the Server was stopped before: nobody ever resets its flag.             *)
THEOREM RunningServerIsServedUnlessReused == Spec => []ServedUnlessReused
<1>1. Inv => ServedUnlessReused
  <2> SUFFICES ASSUME Inv, ~reused, NEW s \in Servers, server_running[s], ~Stopping
               PROVE  \E t \in ThreadsOf(s) : dispatch[t].at # "ended"
    BY DEF ServedUnlessReused
  <2>1. ThreadsOf(s) # {} /\ ~stop_profiler_thread[s]
    BY DEF Inv, ThreadsFollowFlags
  <2>2. PICK t \in ThreadsOf(s) : dispatch[t].at # "ended"
    BY <2>1 DEF Inv, ThreadsFollowFlags, ThreadsOf
  <2> QED BY <2>2
<1> QED BY <1>1, InvIsInvariant, PTL
=============================================================================
