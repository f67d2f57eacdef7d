-------------------------- MODULE WebSocketProofs --------------------------
(***************************************************************************)
(* Theorems about WebSocketServer, for any clients and users.              *)
(*                                                                         *)
(* RecordsOwned is inductive.  OneWorker is not: that a second rescan is   *)
(* not asked for rests on rescan_in_progress being set while a worker has  *)
(* work left (Marked), on that being the worker of rescan_future, or the   *)
(* one that is about to become it (Current), and on rescan_mutex being     *)
(* held from the start of a worker to the end of the assignment (Assigns). *)
(* The io thread is where it was left: it starts with the server           *)
(* (Unstarted), and holds the lock of the list in a request only (Locks).  *)
(* StoppedClean rests on who holds server_state_mutex (Holds), on what     *)
(* that thread has done so far (Progress), and on an endpoint that was     *)
(* stopped never being used again (OnlineOnce).                            *)
(***************************************************************************)
EXTENDS WebSocketServer, FiniteSetTheorems, TLAPS

\* The workers that have yet to ask for a rescan or to reset the flag.
Working == {w \in Workers : wpc[w] \in {"request", "reset"}}

\* rescan_mutex is held over the assignment, and otherwise only for a step.
Assigns == rescan = "io" <=> io = "assign"

\* While a worker works the flag is set.
Marked == Working # {} => rescan_in_progress

\* The worker that works is the one of rescan_future, or its successor.
Current == Working \subseteq {IF rescan = "io" THEN Other(rescan_future) ELSE rescan_future}

\* The io thread does not run before the first start.
Unstarted == asio = "uninitialized" => io = "none"

\* It holds DeviceListChangeMutex in requests about devices only.
Locks == list = "io" => io = "device"

WorkersInv == Assigns /\ Marked /\ Current /\ Unstarted /\ Locks

\* server_state_mutex is held by the thread that is inside StartServer or StopServer.
Holds ==
    \A u \in Stoppers :
        upc[u] \in {"write", "close", "stop", "join", "clear", "file"} <=> state = u

\* An endpoint that was told to stop is not used again.
OnlineOnce ==
    /\ stopped => ~server_online
    /\ stopped \/ server_online => asio # "uninitialized"

\* How far the thread that holds server_state_mutex has brought the endpoint.
Progress ==
    \A u \in Stoppers :
        /\ upc[u] = "write" => ~stopped
        /\ upc[u] \in {"close", "stop"} => ~stopped /\ asio # "uninitialized"
        /\ upc[u] \in {"close", "stop", "join", "clear", "file"} => ~server_online
        /\ upc[u] \in {"clear", "file"} => io = "ended"
        /\ upc[u] = "file" => clients = {}

StopInv == Holds /\ OnlineOnce /\ Progress /\ StoppedClean

-----------------------------------------------------------------------------
USE ThreadsAssumption

(***************************************************************************)
(* Types and records.                                                      *)
(***************************************************************************)

LEMMA InitRecords == Init => RecordsOwned
  BY DEF Init, RecordsOwned, TypeOK, Stoppers, Workers

LEMMA StopTypes ==
    ASSUME RecordsOwned, NEW u \in Stoppers, StartServer(u) \/ StopServer(u) \/ StopStep(u)
    PROVE  RecordsOwned'
<1> USE DEF RecordsOwned, TypeOK, Stoppers, records, jobs, lists
<1>0. AfterStop(u) \in {"idle", "ended"}
  BY DEF AfterStop
<1>1. CASE StartServer(u)
  <2>1. server_online' \in BOOLEAN
    BY <1>1 DEF StartServer
  <2>2. asio' \in {"uninitialized", "listening", "ready"}
    BY <1>1 DEF StartServer
  <2>3. upc' \in [Stoppers -> {"idle", "sleep", "write", "close", "stop", "join",
                              "clear", "file", "ended"}]
    BY <1>1 DEF StartServer
  <2>4. state' \in Users \cup Clients \cup {NoThread} /\ io' \in {io, "idle"}
    BY <1>1 DEF StartServer
  <2>5. UNCHANGED <<stopped, running, conn, clients, live, dropped, list, bg,
                    rescan, rescan_in_progress, rescan_future, wpc>>
    BY <1>1 DEF StartServer
  <2>6. QED
    BY <2>1, <2>2, <2>3, <2>4, <2>5
<1>2. CASE StopServer(u)
  <2>1. server_online' \in BOOLEAN
    BY <1>2 DEF StopServer
  <2>2. upc' \in [Stoppers -> {"idle", "sleep", "write", "close", "stop", "join",
                              "clear", "file", "ended"}]
    BY <1>0, <1>2 DEF StopServer
  <2>3. state' \in Users \cup Clients \cup {NoThread}
    BY <1>2 DEF StopServer
  <2>4. UNCHANGED <<asio, stopped, running, io, conn, clients, live, dropped, list, bg,
                    rescan, rescan_in_progress, rescan_future, wpc>>
    BY <1>2 DEF StopServer
  <2>5. QED
    BY <2>1, <2>2, <2>3, <2>4
<1>3. CASE WriteEndpointFile(u)
  BY <1>3 DEF WriteEndpointFile
<1>4. CASE CloseAllConnections(u)
  BY <1>4 DEF CloseAllConnections
<1>5. CASE StopListening(u)
  BY <1>5 DEF StopListening
<1>6. CASE JoinWithTimeout(u)
  BY <1>6 DEF JoinWithTimeout
<1>7. CASE ClearClients(u)
  BY <1>7 DEF ClearClients
<1>8. CASE ClearEndpointFile(u)
  <2>1. running' \in BOOLEAN
    BY <1>8 DEF ClearEndpointFile
  <2>2. upc' \in [Stoppers -> {"idle", "sleep", "write", "close", "stop", "join",
                              "clear", "file", "ended"}]
    BY <1>0, <1>8 DEF ClearEndpointFile
  <2>3. state' = NoThread /\ UNCHANGED <<server_online, asio, stopped, io, records, jobs, lists>>
    BY <1>8 DEF ClearEndpointFile
  <2>4. QED
    BY <2>1, <2>2, <2>3
<1>9. QED
  BY <1>1, <1>2, <1>3, <1>4, <1>5, <1>6, <1>7, <1>8 DEF StopStep

LEMMA ClientTypes ==
    ASSUME RecordsOwned, NEW c \in Clients, ClientStep(c)
    PROVE  RecordsOwned'
<1> USE DEF RecordsOwned, TypeOK, Stoppers, server, records, jobs, lists
<1>1. CASE OnOpen(c)
  BY <1>1 DEF OnOpen
<1>2. CASE OnClose(c)
  BY <1>2 DEF OnClose, DeleteClient
<1>3. CASE OnFail(c)
  BY <1>3 DEF OnFail, DeleteClient
<1>4. CASE Closing(c)
  BY <1>4 DEF Closing
<1>5. CASE OnMessage(c)
  BY <1>5 DEF OnMessage
<1>6. CASE ScheduleShutdown(c)
  BY <1>6 DEF ScheduleShutdown
<1>7. QED
  BY <1>1, <1>2, <1>3, <1>4, <1>5, <1>6 DEF ClientStep

LEMMA RecordsStep == RecordsOwned /\ [Next]_vars => RecordsOwned'
<1> SUFFICES ASSUME RecordsOwned, [Next]_vars PROVE RecordsOwned'
  OBVIOUS
<1>1. ASSUME NEW u \in Stoppers, StartServer(u) \/ StopServer(u) \/ StopStep(u)
      PROVE RecordsOwned'
  BY <1>1, StopTypes
<1>2. ASSUME NEW c \in Clients, ClientStep(c) PROVE RecordsOwned'
  BY <1>2, ClientTypes
<1> USE DEF RecordsOwned, TypeOK, Stoppers, server, records, jobs, lists
<1>3. ASSUME NEW w \in Workers, WorkerStep(w) PROVE RecordsOwned'
  <2>1. CASE WorkerRequests(w)
    BY <2>1 DEF WorkerRequests
  <2>2. CASE WorkerResets(w)
    <3>1. rescan_in_progress' \in BOOLEAN
      BY <2>2 DEF WorkerResets
    <3>2. wpc' \in [Workers -> {"none", "request", "reset", "ending", "ended"}]
      BY <2>2 DEF WorkerResets
    <3>3. UNCHANGED <<rescan, rescan_future, server, io, records, lists>>
      BY <2>2 DEF WorkerResets
    <3>4. QED
      BY <3>1, <3>2, <3>3
  <2>3. CASE WorkerEnds(w)
    BY <2>3 DEF WorkerEnds
  <2>4. QED
    BY <1>3, <2>1, <2>2, <2>3 DEF WorkerStep
<1>4. CASE BroadcastFromHandler
  BY <1>4 DEF BroadcastFromHandler, BroadcastNotification, Dead
<1>5. CASE DeviceRequest
  BY <1>5 DEF DeviceRequest
<1>6. CASE RescanDevices
  <2>1. Other(rescan_future) \in Workers
    BY DEF Other, Workers
  <2>2. QED
    <3>1. CASE RescanRuns
      BY <1>6, <3>1 DEF RescanDevices
    <3>2. CASE ~RescanRuns
      <4>1. wpc' \in [Workers -> {"none", "request", "reset", "ending", "ended"}]
        BY <1>6, <2>1, <3>2 DEF RescanDevices
      <4>2. /\ rescan' = "io" /\ rescan_in_progress' = TRUE /\ io' = "assign"
            /\ UNCHANGED <<rescan_future, server, records, lists>>
        BY <1>6, <3>2 DEF RescanDevices
      <4>3. QED
        BY <4>1, <4>2
    <3>3. QED
      BY <3>1, <3>2
<1>7. CASE AssignFuture
  BY <1>7 DEF AssignFuture, Other, Workers
<1>8. CASE RunThreadEnds
  BY <1>8 DEF RunThreadEnds
<1>9. CASE LockDevices
  BY <1>9 DEF LockDevices
<1>10. CASE TakeDeviceList
  BY <1>10 DEF TakeDeviceList
<1>11. CASE BroadcastFromBackground
  BY <1>11 DEF BroadcastFromBackground, BroadcastNotification, Dead
<1>12. CASE UNCHANGED vars
  BY <1>12 DEF vars
<1>13. QED
  BY <1>1, <1>2, <1>3, <1>4, <1>5, <1>6, <1>7, <1>8, <1>9, <1>10, <1>11, <1>12
     DEF Next, HandlerStep

LEMMA RecordsInvariance == Spec => []RecordsOwned
  BY InitRecords, RecordsStep, PTL DEF Spec

-----------------------------------------------------------------------------
(***************************************************************************)
(* The rescan.                                                             *)
(***************************************************************************)

LEMMA InitWorkers == Init => WorkersInv
  BY DEF Init, WorkersInv, Assigns, Marked, Current, Unstarted, Locks, Working, Workers

\* A step that leaves the rescan alone and does not enter or leave "assign".
LEMMA OtherSteps ==
    ASSUME WorkersInv, UNCHANGED jobs, io' = io \/ (io # "assign" /\ io' # "assign")
    PROVE  (Assigns /\ Marked /\ Current)'
  BY DEF WorkersInv, Assigns, Marked, Current, Working, Other, jobs

LEMMA WorkersStep == TypeOK /\ WorkersInv /\ [Next]_vars => (Assigns /\ Marked /\ Current)'
<1> SUFFICES ASSUME TypeOK, WorkersInv, [Next]_vars PROVE (Assigns /\ Marked /\ Current)'
  OBVIOUS
<1>1. ASSUME NEW u \in Stoppers, StartServer(u) \/ StopServer(u) \/ StopStep(u)
      PROVE (Assigns /\ Marked /\ Current)'
  <2>1. CASE StartServer(u)
    <3>1. UNCHANGED jobs /\ (io' = io \/ (io = "none" /\ io' = "idle"))
      BY <2>1 DEF StartServer, InitAsio, WorkersInv, Unstarted
    <3>2. QED
      BY <3>1, OtherSteps
  <2>2. CASE StopServer(u) \/ StopStep(u)
    <3>1. UNCHANGED jobs /\ io' = io
      BY <2>2 DEF StopServer, StopStep, WriteEndpointFile, CloseAllConnections,
                  StopListening, JoinWithTimeout, ClearClients, ClearEndpointFile
    <3>2. QED
      BY <3>1, OtherSteps
  <2>3. QED
    BY <1>1, <2>1, <2>2
<1>2. ASSUME NEW c \in Clients, ClientStep(c) PROVE (Assigns /\ Marked /\ Current)'
  <2>1. UNCHANGED jobs /\ (io' = io \/ (io = "idle" /\ io' # "assign"))
    BY <1>2 DEF ClientStep, OnOpen, OnClose, OnFail, Closing, OnMessage, ScheduleShutdown,
                Polling
  <2>2. QED
    BY <2>1, OtherSteps
<1>3. ASSUME NEW w \in Workers, WorkerStep(w) PROVE (Assigns /\ Marked /\ Current)'
  <2> USE DEF TypeOK, WorkersInv, Assigns, Marked, Current, Working, Other
  <2>1. CASE WorkerRequests(w)
    BY <2>1 DEF WorkerRequests
  <2>2. CASE WorkerResets(w)
    BY <2>2 DEF WorkerResets
  <2>3. CASE WorkerEnds(w)
    BY <2>3 DEF WorkerEnds
  <2>4. QED
    BY <1>3, <2>1, <2>2, <2>3 DEF WorkerStep
<1>4. CASE RescanDevices
  BY <1>4 DEF RescanDevices, RescanRuns, Ready, TypeOK, jobs,
              WorkersInv, Assigns, Marked, Current, Working, Other, Workers
<1>5. CASE AssignFuture
  BY <1>5 DEF AssignFuture, Ready, TypeOK,
              WorkersInv, Assigns, Marked, Current, Working, Other, Workers
<1>6. CASE BroadcastFromHandler \/ DeviceRequest \/ RunThreadEnds
  <2>1. UNCHANGED jobs /\ io \in {"broadcast", "device", "idle"} /\ io' # "assign"
    BY <1>6 DEF BroadcastFromHandler, DeviceRequest, RunThreadEnds, WorkersInv, Locks
  <2>2. QED
    BY <2>1, OtherSteps
<1>7. CASE LockDevices \/ TakeDeviceList \/ BroadcastFromBackground \/ UNCHANGED vars
  <2>1. UNCHANGED jobs /\ io' = io
    BY <1>7 DEF LockDevices, TakeDeviceList, BroadcastFromBackground, vars
  <2>2. QED
    BY <2>1, OtherSteps
<1>8. QED
  BY <1>1, <1>2, <1>3, <1>4, <1>5, <1>6, <1>7 DEF Next, HandlerStep

LEMMA ThreadStep == TypeOK /\ WorkersInv /\ [Next]_vars => (Unstarted /\ Locks)'
<1> SUFFICES ASSUME TypeOK, WorkersInv, [Next]_vars PROVE (Unstarted /\ Locks)'
  OBVIOUS
<1> USE DEF TypeOK, WorkersInv, Unstarted, Locks, server, jobs, lists
<1>1. ASSUME NEW u \in Stoppers, StartServer(u) \/ StopServer(u) \/ StopStep(u)
      PROVE (Unstarted /\ Locks)'
  BY <1>1 DEF StartServer, InitAsio, StopServer, StopStep, WriteEndpointFile,
              CloseAllConnections, StopListening, JoinWithTimeout, ClearClients,
              ClearEndpointFile
<1>2. ASSUME NEW c \in Clients, ClientStep(c) PROVE (Unstarted /\ Locks)'
  BY <1>2 DEF ClientStep, OnOpen, OnClose, OnFail, Closing, OnMessage, ScheduleShutdown,
              Polling
<1>3. ASSUME NEW w \in Workers, WorkerStep(w) PROVE (Unstarted /\ Locks)'
  BY <1>3 DEF WorkerStep, WorkerRequests, WorkerResets, WorkerEnds
<1>4. CASE HandlerStep
  BY <1>4 DEF HandlerStep, BroadcastFromHandler, DeviceRequest, RescanDevices,
              AssignFuture, RunThreadEnds
<1>5. CASE LockDevices \/ TakeDeviceList \/ BroadcastFromBackground \/ UNCHANGED vars
  BY <1>5 DEF LockDevices, TakeDeviceList, BroadcastFromBackground, vars
<1>6. QED
  BY <1>1, <1>2, <1>3, <1>4, <1>5 DEF Next

LEMMA WorkersInvariance == Spec => []WorkersInv
<1>1. RecordsOwned => TypeOK
  BY DEF RecordsOwned
<1>2. TypeOK /\ WorkersInv /\ [Next]_vars => WorkersInv'
  BY WorkersStep, ThreadStep DEF WorkersInv
<1>3. QED
  BY RecordsInvariance, <1>1, <1>2, InitWorkers, PTL DEF Spec

-----------------------------------------------------------------------------
(***************************************************************************)
(* Stopping.                                                               *)
(***************************************************************************)

LEMMA InitStopped == Init => StopInv
  BY DEF Init, StopInv, Holds, OnlineOnce, Progress, StoppedClean, Stoppers

\* A step without server_state_mutex that a stopped io thread cannot take.
LEMMA Elsewhere ==
    ASSUME StopInv, UNCHANGED <<server_online, asio, stopped, running, state>>,
           \A u \in Stoppers :
               upc'[u] = upc[u] \/ {upc[u], upc'[u]} \subseteq {"idle", "sleep", "ended"},
           io = "ended" => io' = "ended" /\ clients' \subseteq clients
    PROVE  StopInv'
  BY DEF StopInv, Holds, OnlineOnce, Progress, StoppedClean

LEMMA StopStepInv ==
    ASSUME TypeOK, StopInv, NEW u \in Stoppers, StartServer(u) \/ StopServer(u) \/ StopStep(u)
    PROVE  StopInv'
<1> USE DEF TypeOK, StopInv, Holds, OnlineOnce, Progress, StoppedClean, Stoppers, records
<1>1. CASE StartServer(u)
  BY <1>1 DEF StartServer, InitAsio
<1>2. CASE StopServer(u)
  BY <1>2 DEF StopServer, MayStop, AfterStop
<1>3. CASE WriteEndpointFile(u)
  BY <1>3 DEF WriteEndpointFile
<1>4. CASE CloseAllConnections(u)
  BY <1>4 DEF CloseAllConnections
<1>5. CASE StopListening(u)
  BY <1>5 DEF StopListening
<1>6. CASE JoinWithTimeout(u)
  BY <1>6 DEF JoinWithTimeout, IoThreadJoined
<1>7. CASE ClearClients(u)
  BY <1>7 DEF ClearClients
<1>8. CASE ClearEndpointFile(u)
  BY <1>8 DEF ClearEndpointFile, AfterStop
<1>9. QED
  BY <1>1, <1>2, <1>3, <1>4, <1>5, <1>6, <1>7, <1>8 DEF StopStep

LEMMA StoppedStep == TypeOK /\ WorkersInv /\ StopInv /\ [Next]_vars => StopInv'
<1> SUFFICES ASSUME TypeOK, WorkersInv, StopInv, [Next]_vars PROVE StopInv'
  OBVIOUS
<1>1. ASSUME NEW u \in Stoppers, StartServer(u) \/ StopServer(u) \/ StopStep(u)
      PROVE StopInv'
  BY <1>1, StopStepInv
<1> USE DEF server, records
<1>2. ASSUME NEW c \in Clients, ClientStep(c) PROVE StopInv'
  <2>1. UNCHANGED <<server_online, asio, stopped, running, state>> /\ io = "idle"
    BY <1>2 DEF ClientStep, OnOpen, OnClose, OnFail, Closing, OnMessage, ScheduleShutdown,
                Polling
  <2>2. \A u \in Stoppers :
            upc'[u] = upc[u] \/ {upc[u], upc'[u]} \subseteq {"idle", "sleep", "ended"}
    BY <1>2 DEF ClientStep, OnOpen, OnClose, OnFail, Closing, OnMessage, ScheduleShutdown,
                TypeOK
  <2>3. QED
    BY <2>1, <2>2, Elsewhere
<1>3. ASSUME NEW w \in Workers, WorkerStep(w) PROVE StopInv'
  BY <1>3, Elsewhere DEF WorkerStep, WorkerRequests, WorkerResets, WorkerEnds
<1>4. CASE HandlerStep
  <2>1. UNCHANGED <<server_online, asio, stopped, running, state, upc>> /\ io # "ended"
    BY <1>4 DEF HandlerStep, BroadcastFromHandler, DeviceRequest, RescanDevices,
                AssignFuture, RunThreadEnds, WorkersInv, Locks
  <2>2. QED
    BY <2>1, Elsewhere
<1>5. CASE LockDevices \/ TakeDeviceList \/ BroadcastFromBackground \/ UNCHANGED vars
  <2>1. UNCHANGED <<server_online, asio, stopped, running, state, upc, io>>
    BY <1>5 DEF LockDevices, TakeDeviceList, BroadcastFromBackground, vars
  <2>2. clients' \subseteq clients
    BY <1>5 DEF LockDevices, TakeDeviceList, BroadcastFromBackground, BroadcastNotification,
                vars
  <2>3. QED
    BY <2>1, <2>2, Elsewhere
<1>6. QED
  BY <1>1, <1>2, <1>3, <1>4, <1>5 DEF Next

-----------------------------------------------------------------------------
\* Whatever OnOpen, OnClose, broadcasts and StopServer do to the map of the
\* clients in whatever order, it holds no deleted record and no connection
\* that is gone.
THEOREM MapOwnsRecords == Spec => []RecordsOwned
  BY RecordsInvariance

\* Rescans that clients ask for do not overlap, although the flag is reset by
\* the worker, may stay set when the rescan throws, and a new worker starts
\* before the future refers to it.
THEOREM RescansDoNotOverlap == Spec => []OneWorker
<1>1. WorkersInv => OneWorker
  <2> SUFFICES ASSUME WorkersInv PROVE Cardinality(Working) <= 1
    BY DEF OneWorker, Working
  <2> DEFINE w == IF rescan = "io" THEN Other(rescan_future) ELSE rescan_future
  <2>1. IsFiniteSet({w}) /\ Cardinality({w}) = 1
    BY FS_Singleton
  <2>2. Working \subseteq {w}
    BY DEF WorkersInv, Current
  <2>3. QED
    BY <2>1, <2>2, FS_Subset
<1>2. QED
  BY WorkersInvariance, <1>1, PTL

\* Whenever StopServer has returned the io thread has ended, the map of the
\* clients is empty and the endpoint file says that nothing runs, whichever
\* threads start, stop and serve meanwhile.
THEOREM StopsClean == Spec => []StoppedClean
<1>1. RecordsOwned => TypeOK
  BY DEF RecordsOwned
<1>2. StopInv => StoppedClean
  BY DEF StopInv
<1>3. QED
  BY RecordsInvariance, WorkersInvariance, <1>1, <1>2, InitStopped, StoppedStep, PTL DEF Spec
=============================================================================
