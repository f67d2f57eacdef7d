--------------------------- MODULE WebSocketServer ---------------------------
(***************************************************************************)
(* The WebSocket server: StartServer and StopServer on threads of the user *)
(* and on the threads that ScheduleShutdown detaches, the handlers that    *)
(* websocketpp calls on the one io thread, the broadcasts of the           *)
(* background thread, and the rescan that JSONRPCHandler runs with         *)
(* std::async.                                                             *)
(*                                                                         *)
(* server_state_mutex is held through all of StartServer and StopServer,   *)
(* also while StopServer joins the io thread; so no handler may wait for   *)
(* anything that needs it.  A section under clients_mutex is one step.     *)
(***************************************************************************)
EXTENDS Naturals, FiniteSets

CONSTANTS
    Clients, \* connections that are made
    Users,   \* threads that start and stop the server: the GUI, the service, Init
    NoThread

ASSUME ThreadsAssumption ==
    /\ IsFiniteSet(Clients) /\ IsFiniteSet(Users)
    /\ Clients \cap Users = {} /\ NoThread \notin Clients \cup Users

VARIABLES
    server_online,
    asio,      \* state of the websocketpp endpoint
    stopped,   \* its io_service was told to stop
    running,   \* "running" of the endpoint file
    state,     \* thread that holds server_state_mutex
    upc,       \* where each thread that starts or stops the server is
    io,        \* where the io thread is
    conn,      \* state of each connection
    clients,   \* connections with an entry in the map
    live,      \* connections whose WebSocketClientInfo is not deleted
    dropped,   \* connections that a broadcast erased from the map
    list,      \* holder of DeviceListChangeMutex
    bg,        \* where the background thread is
    rescan,    \* holder of rescan_mutex
    rescan_in_progress,
    rescan_future, \* the worker it refers to, 0 for none
    wpc        \* where each worker of std::async is

server  == <<server_online, asio, stopped, running, state, upc>>
records == <<conn, clients, live, dropped>>
jobs    == <<rescan, rescan_in_progress, rescan_future, wpc>>
lists   == <<list, bg>>
vars == <<server, io, records, jobs, lists>>

\* A client that asked for a shutdown stands for the thread that carries it out.
Stoppers == Users \cup Clients
Workers == {1, 2} \* the worker of rescan_future and the one about to replace it

Init ==
    /\ server_online = FALSE /\ asio = "uninitialized" /\ stopped = FALSE
    /\ running \in BOOLEAN   \* left by an earlier process
    /\ state = NoThread /\ upc = [u \in Stoppers |-> "idle"]
    /\ io = "none"
    /\ conn = [c \in Clients |-> "new"]
    /\ clients = {} /\ live = {} /\ dropped = {}
    /\ list = "none" /\ bg = "idle"
    /\ rescan = "none" /\ rescan_in_progress = FALSE
    /\ rescan_future = 0 /\ wpc = [w \in Workers |-> "none"]

-----------------------------------------------------------------------------
(***************************************************************************)
(* Faults: wrong variants of definitions below.                            *)
(***************************************************************************)

\* The thread is asked to stop but not joined.
NotJoined == TRUE

\* The entry of a closed connection stays in the map.
DeleteOnly(c) == live' = live \ {c} /\ UNCHANGED clients

\* Only the flag is looked at, and reset, when a rescan is asked for.
ForgetsFuture == FALSE

\* The io_service is left to end by itself.
WorkReset(u) ==
    /\ upc[u] = "stop" /\ asio' = "ready"
    /\ upc' = [upc EXCEPT ![u] = "join"]
    /\ UNCHANGED <<server_online, stopped, running, state, io, records, jobs, lists>>

-----------------------------------------------------------------------------
(***************************************************************************)
(* Start and stop.                                                         *)
(***************************************************************************)

\* init_asio fails unless it is the first call; listen may fail on the port.
InitAsio == asio = "uninitialized"

StartServer(u) ==
    /\ u \in Users /\ upc[u] = "idle" /\ state = NoThread
    /\ ~server_online /\ InitAsio
    /\ \/ /\ asio' = "listening" /\ server_online' = TRUE /\ io' = "idle"
          /\ state' = u /\ upc' = [upc EXCEPT ![u] = "write"]
       \/ /\ asio' = "ready"
          /\ UNCHANGED <<server_online, io, state, upc>>
    /\ UNCHANGED <<stopped, running, records, jobs, lists>>

WriteEndpointFile(u) ==
    /\ upc[u] = "write"
    /\ running' = TRUE
    /\ state' = NoThread /\ upc' = [upc EXCEPT ![u] = "idle"]
    /\ UNCHANGED <<server_online, asio, stopped, io, records, jobs, lists>>

\* A user calls it at any time, the thread of a shutdown once, after its sleep.
MayStop(u) == IF u \in Users THEN upc[u] = "idle" ELSE upc[u] = "sleep"
AfterStop(u) == IF u \in Users THEN "idle" ELSE "ended"

StopServer(u) ==
    /\ MayStop(u) /\ state = NoThread
    /\ \/ /\ server_online /\ server_online' = FALSE
          /\ state' = u /\ upc' = [upc EXCEPT ![u] = "close"]
       \/ /\ ~server_online
          /\ upc' = [upc EXCEPT ![u] = AfterStop(u)]
          /\ UNCHANGED <<server_online, state>>
    /\ UNCHANGED <<asio, stopped, running, io, records, jobs, lists>>

CloseAllConnections(u) ==
    /\ upc[u] = "close"
    /\ conn' = [c \in Clients |->
                  IF c \in clients /\ conn[c] = "open" THEN "closing" ELSE conn[c]]
    /\ upc' = [upc EXCEPT ![u] = "stop"]
    /\ UNCHANGED <<server_online, asio, stopped, running, state, io,
                   clients, live, dropped, jobs, lists>>

StopListening(u) ==
    /\ upc[u] = "stop"
    /\ asio' = "ready" /\ stopped' = TRUE
    /\ upc' = [upc EXCEPT ![u] = "join"]
    /\ UNCHANGED <<server_online, running, state, io, records, jobs, lists>>

\* The timeout of JoinWithTimeout is ignored.
IoThreadJoined == io = "ended"

JoinWithTimeout(u) ==
    /\ upc[u] = "join" /\ IoThreadJoined
    /\ upc' = [upc EXCEPT ![u] = "clear"]
    /\ UNCHANGED <<server_online, asio, stopped, running, state, io, records, jobs, lists>>

ClearClients(u) ==
    /\ upc[u] = "clear"
    /\ live' = live \ clients /\ clients' = {}
    /\ upc' = [upc EXCEPT ![u] = "file"]
    /\ UNCHANGED <<server_online, asio, stopped, running, state, io,
                   conn, dropped, jobs, lists>>

ClearEndpointFile(u) ==
    /\ upc[u] = "file"
    /\ running' = FALSE
    /\ state' = NoThread /\ upc' = [upc EXCEPT ![u] = AfterStop(u)]
    /\ UNCHANGED <<server_online, asio, stopped, io, records, jobs, lists>>

-----------------------------------------------------------------------------
(***************************************************************************)
(* Broadcasts, from the io thread and from the background thread.          *)
(***************************************************************************)

\* send fails on a connection that is no longer open; its entry is erased.
Dead == {c \in clients : conn[c] # "open"}

BroadcastNotification ==
    /\ clients' = clients \ Dead
    /\ dropped' = dropped \cup Dead
    /\ UNCHANGED <<conn, live>>

BroadcastFromHandler ==
    /\ io = "broadcast" /\ BroadcastNotification /\ io' = "idle"
    /\ UNCHANGED <<server, jobs, lists>>

\* DeviceConnected, DeviceDisconnected and DeviceListChanged run under
\* DeviceListChangeMutex, ScanComplete takes it only to serialise the list.
TakeDeviceList ==
    /\ bg = "idle" /\ list = "none"
    /\ \/ bg' = "changed" /\ list' = "bg"
       \/ bg' = "scanned" /\ list' = "none"
    /\ UNCHANGED <<server, io, records, jobs>>

BroadcastFromBackground ==
    /\ bg # "idle" /\ BroadcastNotification /\ bg' = "idle"
    /\ list' = IF bg = "changed" THEN "none" ELSE list
    /\ UNCHANGED <<server, io, jobs>>

-----------------------------------------------------------------------------
(***************************************************************************)
(* The io thread.                                                          *)
(***************************************************************************)

\* io_service::run calls no handler after it was told to stop.
Polling == io = "idle" /\ ~stopped

\* The client is authenticated and registered, or its connection is closed.
OnOpen(c) ==
    /\ Polling /\ asio = "listening" /\ conn[c] = "new"
    /\ \/ /\ conn' = [conn EXCEPT ![c] = "open"]
          /\ clients' = clients \cup {c} /\ live' = live \cup {c}
          /\ io' = "broadcast"
       \/ /\ conn' = [conn EXCEPT ![c] = "closing"]
          /\ UNCHANGED <<clients, live, io>>
    /\ UNCHANGED <<dropped, server, jobs, lists>>

DeleteClient(c) ==
    /\ clients' = clients \ {c}
    /\ live' = IF c \in clients THEN live \ {c} ELSE live

OnClose(c) ==
    /\ Polling /\ conn[c] \in {"open", "closing"}
    /\ conn' = [conn EXCEPT ![c] = "gone"] /\ DeleteClient(c)
    /\ io' = "broadcast"
    /\ UNCHANGED <<dropped, server, jobs, lists>>

\* websocketpp reports a failure only before a connection is open.
OnFail(c) ==
    /\ Polling /\ asio = "listening" /\ conn[c] = "new"
    /\ conn' = [conn EXCEPT ![c] = "gone"] /\ DeleteClient(c)
    /\ UNCHANGED <<dropped, io, server, jobs, lists>>

\* The peer sent a close frame, or a binary frame, on which OnMessage closes.
Closing(c) ==
    /\ Polling /\ conn[c] = "open"
    /\ conn' = [conn EXCEPT ![c] = "closing"]
    /\ UNCHANGED <<clients, live, dropped, io, server, jobs, lists>>

\* A request about devices, one about profiles, which works without a lock and
\* then tells all clients, or a rescan; or one whose handling throws outside
\* of HandleRequest, which only RunThread catches, around run.
OnMessage(c) ==
    /\ Polling /\ conn[c] = "open"
    /\ io' \in {"device", "broadcast", "rescan", "ended"}
    /\ UNCHANGED <<server, records, jobs, lists>>

\* At most one shutdown per client: a bound.
ScheduleShutdown(c) ==
    /\ Polling /\ conn[c] = "open" /\ upc[c] = "idle"
    /\ upc' = [upc EXCEPT ![c] = "sleep"]
    /\ UNCHANGED <<server_online, asio, stopped, running, state,
                   io, records, jobs, lists>>

LockDevices ==
    /\ io = "device" /\ list = "none"
    /\ list' = "io" /\ UNCHANGED <<server, io, records, jobs, bg>>

DeviceRequest ==
    /\ list = "io" /\ list' = "none" /\ io' = "idle"
    /\ UNCHANGED <<server, records, jobs, bg>>

RunThreadEnds ==
    /\ io = "idle" /\ stopped /\ io' = "ended"
    /\ UNCHANGED <<server, records, jobs, lists>>

-----------------------------------------------------------------------------
(***************************************************************************)
(* The asynchronous rescan.                                                *)
(***************************************************************************)

Ready(w) == wpc[w] = "ended"
RescanRuns == rescan_in_progress /\ rescan_future # 0 /\ ~Ready(rescan_future)
Other(w) == IF w = 1 THEN 2 ELSE 1

RescanDevices ==
    /\ io = "rescan" /\ rescan = "none"
    /\ \/ /\ RescanRuns /\ io' = "idle" /\ UNCHANGED jobs
       \/ /\ ~RescanRuns
          /\ rescan' = "io" /\ rescan_in_progress' = TRUE
          /\ wpc' = [wpc EXCEPT ![Other(rescan_future)] = "request"]
          /\ io' = "assign" /\ UNCHANGED rescan_future
    /\ UNCHANGED <<server, records, lists>>

\* The assignment gives up the last reference to the previous worker and so
\* waits for its end, with rescan_mutex held.
AssignFuture ==
    /\ io = "assign"
    /\ rescan_future # 0 => Ready(rescan_future)
    /\ rescan_future' = Other(rescan_future)
    /\ rescan' = "none" /\ io' = "idle"
    /\ UNCHANGED <<rescan_in_progress, wpc, server, records, lists>>

\* ResourceManager::RescanDevices, which may throw: the flag then stays set.
WorkerRequests(w) ==
    /\ wpc[w] = "request"
    /\ \E l \in {"reset", "ended"} : wpc' = [wpc EXCEPT ![w] = l]
    /\ UNCHANGED <<rescan, rescan_in_progress, rescan_future, server, io, records, lists>>

WorkerResets(w) ==
    /\ wpc[w] = "reset" /\ rescan = "none"
    /\ rescan_in_progress' = FALSE /\ wpc' = [wpc EXCEPT ![w] = "ending"]
    /\ UNCHANGED <<rescan, rescan_future, server, io, records, lists>>

WorkerEnds(w) ==
    /\ wpc[w] = "ending" /\ wpc' = [wpc EXCEPT ![w] = "ended"]
    /\ UNCHANGED <<rescan, rescan_in_progress, rescan_future, server, io, records, lists>>

-----------------------------------------------------------------------------
StopStep(u) ==
    \/ WriteEndpointFile(u) \/ CloseAllConnections(u) \/ StopListening(u)
    \/ JoinWithTimeout(u) \/ ClearClients(u) \/ ClearEndpointFile(u)

HandlerStep ==
    \/ BroadcastFromHandler \/ DeviceRequest \/ RescanDevices \/ AssignFuture
    \/ RunThreadEnds

WorkerStep(w) == WorkerRequests(w) \/ WorkerResets(w) \/ WorkerEnds(w)

ClientStep(c) ==
    \/ OnOpen(c) \/ OnClose(c) \/ OnFail(c) \/ Closing(c)
    \/ OnMessage(c) \/ ScheduleShutdown(c)

Next ==
    \/ \E u \in Stoppers : StartServer(u) \/ StopServer(u) \/ StopStep(u)
    \/ \E c \in Clients : ClientStep(c)
    \/ \E w \in Workers : WorkerStep(w)
    \/ HandlerStep \/ LockDevices \/ TakeDeviceList \/ BroadcastFromBackground

Spec == Init /\ [][Next]_vars

(***************************************************************************)
(* Every thread that can go on goes on, and a thread waiting for the lock  *)
(* of the list, which the background thread takes again and again, gets it *)
(* at last.  Nobody has to start, to connect or to send.                   *)
(***************************************************************************)
FairSpec ==
    /\ Spec
    /\ \A u \in Stoppers : WF_vars(StopStep(u))
    /\ \A c \in Clients : WF_vars(StopServer(c))
    /\ \A w \in Workers : WF_vars(WorkerStep(w))
    /\ WF_vars(HandlerStep) /\ SF_vars(LockDevices) /\ WF_vars(BroadcastFromBackground)

-----------------------------------------------------------------------------
TypeOK ==
    /\ server_online \in BOOLEAN /\ stopped \in BOOLEAN /\ running \in BOOLEAN
    /\ asio \in {"uninitialized", "listening", "ready"}
    /\ state \in Users \cup Clients \cup {NoThread}
    /\ upc \in [Stoppers -> {"idle", "sleep", "write", "close", "stop", "join",
                            "clear", "file", "ended"}]
    /\ io \in {"none", "idle", "broadcast", "device", "rescan", "assign", "ended"}
    /\ conn \in [Clients -> {"new", "open", "closing", "gone"}]
    /\ clients \subseteq Clients /\ live \subseteq Clients /\ dropped \subseteq Clients
    /\ list \in {"none", "io", "bg"} /\ bg \in {"idle", "changed", "scanned"}
    /\ rescan \in {"none", "io"} /\ rescan_in_progress \in BOOLEAN
    /\ rescan_future \in Workers \cup {0}
    /\ wpc \in [Workers -> {"none", "request", "reset", "ending", "ended"}]

(***************************************************************************)
(* The map never refers to a deleted record or to a connection that is     *)
(* gone, and a record outside of it is one that a broadcast dropped.       *)
(***************************************************************************)
RecordsOwned ==
    /\ TypeOK
    /\ clients \subseteq live /\ live \ clients \subseteq dropped
    /\ \A c \in clients : conn[c] \in {"open", "closing"}

(***************************************************************************)
(* After StopServer no thread serves and no record is left in the map, and *)
(* the endpoint file does not say that the server runs.                    *)
(***************************************************************************)
StoppedClean ==
    ~server_online /\ stopped /\ state = NoThread
        => io = "ended" /\ clients = {} /\ ~running

(***************************************************************************)
(* ResourceManager::RescanDevices is never asked for twice at a time, also *)
(* when a rescan threw and left rescan_in_progress set.                    *)
(***************************************************************************)
OneWorker == Cardinality({w \in Workers : wpc[w] \in {"request", "reset"}}) <= 1

(***************************************************************************)
(* StopServer and StartServer return, although they hold the state mutex   *)
(* and join the io thread, and a shutdown that was scheduled is done.      *)
(***************************************************************************)
StopReturns == \A u \in Stoppers : upc[u] # "idle" ~> upc[u] \in {"idle", "ended"}

-----------------------------------------------------------------------------
(***************************************************************************)
(* What a comment says of the code, and the code does not do: "don't       *)
(* delete the info here; OnClose/OnFail will handle cleanup".  The record  *)
(* of a connection that a broadcast dropped is deleted when the connection *)
(* is closed (WebSocketServer.cpp:743).                                    *)
(***************************************************************************)
DroppedIsCleaned == \A c \in dropped : conn[c] = "gone" => c \notin live

=============================================================================
