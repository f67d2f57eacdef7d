----------------------------- MODULE ClientSync -----------------------------
(***************************************************************************)
(* How a NetworkClient copies the controller list of an SDK server: its    *)
(* connection thread, which connects and asks, its listener threads, which *)
(* handle what comes back, StopClient on a thread of the user, the         *)
(* server's side of the connection, and UpdateDeviceList of the client's   *)
(* own process, which takes every copy for a device that is gone.          *)
(*                                                                         *)
(* A copied controller is [dev, idx]: the server's device it describes and *)
(* the index it sends its own requests to.  The threads share plain flags; *)
(* only the two lists are under ControllerListMutex, which                 *)
(* UpdateDeviceList does not take.  The version exchange and the client's  *)
(* name, which the list does not depend on, are left out.                  *)
(***************************************************************************)
EXTENDS Naturals, SequencesExt

CONSTANTS
    Devices,     \* devices the server may have
    InitialLists, \* lists it may start with
    NoDevice,    \* in messages that describe none
    MaxChanges,  \* bound on changes of the server's list
    MaxConns,    \* bound on connections
    Races        \* what follows a race is explored, see raced

ASSUME SyncAssumption ==
    /\ InitialLists \subseteq Seq(Devices) /\ NoDevice \notin Devices
    /\ MaxChanges \in Nat /\ MaxConns \in Nat \ {0} /\ Races \in BOOLEAN

VARIABLES
    srv,        \* the server's controllers
    announced,  \* the clients were told of the last change
    changes,    \* number of changes
    conn,       \* the open connection, 0 if there is none
    conns,      \* number of connections so far
    c2s, s2c,   \* what is under way on it
    client_active, server_connected, server_initialized,
    server_controller_count, server_controller_count_requested,
    server_controller_count_received,
    requested_controllers, controller_data_requested, controller_data_received,
    server_controllers, \* the client's copy
    controllers,        \* what it shows of it in rgb_controllers
    wiped,        \* OwnUpdate erased copies since they were added
    cpc,          \* where the connection thread is
    lpc,          \* where the listener thread of each connection is
    ListenThread, \* the connection whose listener StopClient waits for
    upc,          \* where StopClient is
    raced         \* what happened at a moment the code does not expect

server == <<srv, announced, changes>>
wire   == <<conn, conns, c2s, s2c>>
count  == <<server_controller_count, server_controller_count_requested,
            server_controller_count_received>>
data   == <<requested_controllers, controller_data_requested, controller_data_received>>
state  == <<client_active, server_connected, server_initialized>>
lists  == <<server_controllers, controllers, wiped>>
threads == <<lpc, ListenThread, upc>>
vars == <<server, wire, state, count, data, lists, cpc, threads, raced>>

Conns == 1..MaxConns
ConnectionLabels == {"top", "connect", "connected", "listen", "sync", "askCount",
    "countAsked", "next", "prepare", "askData", "dataAsked", "check", "add", "added",
    "ended"}
ListenLabels == {"none", "recv", "count", "data", "changed", "uninit", "reset",
    "closing", "closed", "delete", "ended"}
StopLabels == {"idle", "inactive", "shutdown", "disconnect", "joinListen", "joinConn",
    "stopped"}

Message(kind, n, dev) == [kind |-> kind, n |-> n, dev |-> dev]
Messages == [kind : {"count", "data", "changed"}, n : Nat, dev : Devices \cup {NoDevice}]
Copies   == [dev : Devices, idx : Nat]

Init ==
    /\ srv \in InitialLists
    /\ announced = TRUE /\ changes = 0
    /\ conn = 0 /\ conns = 0 /\ c2s = <<>> /\ s2c = <<>>
    /\ client_active = TRUE /\ server_connected = FALSE /\ server_initialized = FALSE
    /\ server_controller_count = 0 /\ server_controller_count_requested = FALSE
    /\ server_controller_count_received = FALSE
    /\ requested_controllers = 0 /\ controller_data_requested = FALSE
    /\ controller_data_received = FALSE
    /\ server_controllers = <<>> /\ controllers = <<>> /\ wiped = FALSE
    /\ cpc = "top" /\ lpc = [k \in Conns |-> "none"]
    /\ ListenThread = 0 /\ upc = "idle" /\ raced = {}

\* The client has copied the list and nothing is under way.
Calm ==
    \/ conns = 0
    \/ /\ server_initialized /\ cpc = "top"
       /\ c2s = <<>> /\ s2c = <<>>
       /\ conn # 0 /\ lpc[conn] = "recv" /\ upc = "idle"

Alive(k) == lpc[k] \notin {"none", "ended"}

\* Without Races, what follows a race is not explored.
Explored == Races \/ raced = {}

Race(unexpected) == raced' = IF unexpected THEN raced \cup {"race"} ELSE raced

At(label)             == Explored /\ cpc = label
ListenerAt(k, labels) == Explored /\ lpc[k] \in labels

-----------------------------------------------------------------------------
(***************************************************************************)
(* Faults: wrong variants of definitions below.                            *)
(***************************************************************************)

\* The copies are deleted and rgb_controllers keeps them.
DeleteHere == server_controllers' = <<>> /\ UNCHANGED <<controllers, wiped>>

\* A changed list leaves server_initialized as it is.
StayInitialized(k) ==
    /\ ListenerAt(k, {"uninit", "closing"})
    /\ server_initialized' = (server_initialized /\ lpc[k] = "uninit")
    /\ lpc' = [lpc EXCEPT ![k] = IF @ = "uninit" THEN "recv" ELSE "closed"]
    /\ UNCHANGED <<server, wire, client_active, server_connected, count, data, lists,
                   cpc,
                   ListenThread, upc, raced>>

\* recv_select does not look at server_connected.
DoneWhenLost(k) ==
    /\ ListenerAt(k, {"recv"})
    /\ conn # k
    /\ lpc' = [lpc EXCEPT ![k] = "reset"]
    /\ UNCHANGED <<server, wire, state, count, data, lists, cpc, ListenThread, upc,
                   raced>>

\* The listener thread is detached instead of joined.
DetachListen ==
    /\ Explored /\ upc = "joinListen" /\ upc' = "joinConn"
    /\ ListenThread' = 0
    /\ UNCHANGED <<server, wire, state, count, data, lists, cpc, lpc, raced>>

-----------------------------------------------------------------------------
(***************************************************************************)
(* The server.                                                             *)
(***************************************************************************)

\* A rescan clears the hardware list, detectors add controllers, one leaves.
ServerChange ==
    /\ Explored /\ changes < MaxChanges
    /\ \/ srv # <<>> /\ srv' = <<>>
       \/ \E d \in Devices \ ToSet(srv) : srv' = Append(srv, d)
       \/ \E d \in ToSet(srv) : srv' = RemoveFirst(srv, d)
    /\ announced' = FALSE /\ changes' = changes + 1
    /\ Race(~Calm)
    /\ UNCHANGED <<wire, state, count, data, lists, cpc, threads>>

\* UpdateDeviceList: NetworkServer::DeviceListChanged.
ServerAnnounce ==
    /\ Explored /\ ~announced
    /\ announced' = TRUE
    /\ s2c' = IF conn = 0 THEN s2c ELSE Append(s2c, Message("changed", 0, NoDevice))
    /\ Race(~Calm)
    /\ UNCHANGED <<srv, changes, conn, conns, c2s, state, count, data, lists, cpc,
                   threads>>

\* SendReply_ControllerCount.
CountReply == Message("count", Len(srv), NoDevice)

\* SendReply_ControllerData: an index that is too large gets no reply.
ServerReply ==
    /\ Explored /\ c2s # <<>>
    /\ c2s' = Tail(c2s)
    /\ LET n == Head(c2s).n
       IN  s2c' = IF Head(c2s).kind = "count"
                  THEN Append(s2c, CountReply)
                  ELSE IF n < Len(srv)
                  THEN Append(s2c, Message("data", n, srv[n + 1]))
                  ELSE s2c
    /\ UNCHANGED <<server, conn, conns, state, count, data, lists, cpc, threads, raced>>

Disconnect == conn' = 0 /\ c2s' = <<>> /\ s2c' = <<>> /\ UNCHANGED conns

\* The connection breaks; what was under way is lost.
ConnectionLost ==
    /\ Explored /\ conn # 0
    /\ Disconnect
    /\ Race(~Calm)
    /\ UNCHANGED <<server, state, count, data, lists, cpc, threads>>

-----------------------------------------------------------------------------
(***************************************************************************)
(* ConnectionThreadFunction.                                               *)
(***************************************************************************)

\* The loop: end, connect, or copy the list if that is not done.
Top ==
    /\ At("top")
    /\ cpc' = IF ~client_active THEN "ended"
              ELSE IF ~server_connected THEN "connect"
              ELSE IF ~server_initialized THEN "sync" ELSE "top"
    /\ UNCHANGED <<server, wire, state, count, data, lists, threads, raced>>

\* tcp_client_connect succeeds or fails.
Connect ==
    /\ At("connect")
    /\ server_initialized' = FALSE
    /\ \/ /\ conns < MaxConns
          /\ conns' = conns + 1 /\ conn' = conns' /\ c2s' = <<>> /\ s2c' = <<>>
          /\ cpc' = "connected"
       \/ cpc' = "top" /\ UNCHANGED wire
    /\ UNCHANGED <<server, client_active, server_connected, count, data, lists, threads,
                   raced>>

\* server_connected = true, while an old listener may still clean up, or
\* StopClient may be past the place where it resets the flag.
Connected ==
    /\ At("connected")
    /\ server_connected' = TRUE
    /\ cpc' = "listen"
    /\ raced' = raced \cup {r \in {"race"} : upc # "idle"}
                     \cup {r \in {"overlap"} : \E k \in Conns : Alive(k)}
    /\ UNCHANGED <<server, wire, client_active, server_initialized, count, data, lists,
                   threads>>

\* Start the listener thread; whatever ListenThread was is forgotten.
Listen ==
    /\ At("listen")
    /\ lpc' = [lpc EXCEPT ![conns] = "recv"]
    /\ ListenThread' = conns
    /\ server_initialized' = FALSE
    /\ cpc' = "top"
    /\ Race(upc # "idle")
    /\ UNCHANGED <<server, wire, client_active, server_connected, count, data, lists,
                   upc>>

\* Ask for the number of controllers, or for the controllers.  The listener may
\* be in the middle of noting the number.
Sync ==
    /\ At("sync")
    /\ cpc' = IF ~server_controller_count_requested THEN "askCount"
              ELSE IF server_controller_count_received THEN "next" ELSE "top"
    /\ Race(\E k \in Conns : lpc[k] = "count")
    /\ UNCHANGED <<server, wire, state, count, data, lists, threads>>

\* A request goes out, or is lost with the connection.
Send(kind, n) ==
    /\ c2s' = IF conn = 0 THEN c2s ELSE Append(c2s, Message(kind, n, NoDevice))
    /\ Race(conn = 0)
    /\ UNCHANGED <<conn, conns, s2c>>

AskCount ==
    /\ At("askCount")
    /\ Send("count", 0)
    /\ cpc' = "countAsked"
    /\ UNCHANGED <<server, state, count, data, lists, threads>>

CountAsked ==
    /\ At("countAsked")
    /\ server_controller_count_requested' = TRUE
    /\ cpc' = "top"
    /\ UNCHANGED <<server, wire, state, server_controller_count,
                   server_controller_count_received, data, lists, threads, raced>>

\* If the data has come, go on to the next controller.
Check(requested) ==
    /\ cpc' = "top"
    /\ IF controller_data_received
       THEN /\ requested_controllers' = requested_controllers + 1
            /\ controller_data_requested' = FALSE
       ELSE /\ controller_data_requested' = requested
            /\ UNCHANGED requested_controllers
    /\ UNCHANGED <<server, wire, state, count, controller_data_received, lists, threads,
                   raced>>

\* Is there another controller to ask for, and is it asked for already?
NextController ==
    /\ At("next")
    /\ cpc' = IF requested_controllers >= server_controller_count THEN "add"
              ELSE IF controller_data_requested THEN "check" ELSE "prepare"
    /\ UNCHANGED <<server, wire, state, count, data, lists, threads, raced>>

Prepare ==
    /\ At("prepare")
    /\ controller_data_received' = FALSE
    /\ cpc' = "askData"
    /\ UNCHANGED <<server, wire, state, count, requested_controllers,
                   controller_data_requested, lists, threads, raced>>

AskData ==
    /\ At("askData")
    /\ Send("data", requested_controllers)
    /\ cpc' = "dataAsked"
    /\ UNCHANGED <<server, state, count, data, lists, threads>>

DataAsked ==
    /\ At("dataAsked")
    /\ Check(TRUE)

\* One more controller was received.
CheckData ==
    /\ At("check")
    /\ Check(controller_data_requested)

\* All controllers received: add them to the list that is shown.
AddToMaster ==
    /\ At("add")
    /\ controllers' = controllers \o server_controllers
    /\ wiped' = FALSE
    /\ cpc' = "added"
    /\ UNCHANGED <<server, wire, state, count, data, server_controllers, threads,
                   raced>>

\* The same with OwnUpdate at work in the middle of the loop: it erases what was
\* shown before and the first n of those that are added.
AddUnderUpdate ==
    /\ At("add")
    /\ \E n \in 1..(Len(server_controllers) - 1) :
          controllers' = SubSeq(server_controllers, n + 1, Len(server_controllers))
    /\ wiped' = TRUE
    /\ cpc' = "added"
    /\ raced' = raced \cup {"overlap"}
    /\ UNCHANGED <<server, wire, state, count, data, server_controllers, threads>>

Added ==
    /\ At("added")
    /\ server_initialized' = TRUE
    /\ cpc' = "top"
    /\ UNCHANGED <<server, wire, client_active, server_connected, count, data, lists,
                   threads, raced>>

ConnectionThread ==
    \/ Top \/ Connect \/ Connected \/ Listen \/ Sync \/ AskCount \/ CountAsked
    \/ NextController \/ Prepare \/ AskData \/ DataAsked \/ CheckData
    \/ AddToMaster \/ AddUnderUpdate \/ Added

-----------------------------------------------------------------------------
(***************************************************************************)
(* ListenThreadFunction of connection k.                                   *)
(***************************************************************************)

\* A whole packet has arrived.
Receive(k, kind) ==
    /\ ListenerAt(k, {"recv"})
    /\ conn = k /\ server_connected
    /\ s2c # <<>> /\ Head(s2c).kind = kind
    /\ s2c' = Tail(s2c)
    /\ lpc' = [lpc EXCEPT ![k] = kind]
    /\ UNCHANGED <<server, conn, conns, c2s, state, data, cpc, ListenThread, upc,
                   raced>>

\* ProcessReply_ControllerCount.
ReceiveCount(k) ==
    /\ Receive(k, "count")
    /\ server_controller_count' = Head(s2c).n
    /\ server_controller_count_received' = TRUE
    /\ UNCHANGED <<server_controller_count_requested, lists>>

\* server_controllers with the description of device d at index n: a new
\* controller, or new data for an old one, which stays what it is.
WithCopy(n, d) ==
    IF n >= Len(server_controllers)
    THEN Append(server_controllers, [dev |-> d, idx |-> n])
    ELSE server_controllers

\* ProcessReply_ControllerData.
ReceiveData(k) ==
    /\ Receive(k, "data")
    /\ server_controllers' = WithCopy(Head(s2c).n, Head(s2c).dev)
    /\ UNCHANGED <<count, controllers, wiped>>

\* rgb_controllers after the first n copies were looked for and erased once.
ErasedCopies[n \in 0..Len(server_controllers)] ==
    IF n = 0 THEN controllers
    ELSE RemoveFirst(ErasedCopies[n - 1], server_controllers[n])

\* Delete the copies, here and in rgb_controllers.
DeleteCopies ==
    /\ controllers' = ErasedCopies[Len(server_controllers)]
    /\ server_controllers' = <<>>
    /\ UNCHANGED wiped

\* ProcessRequest_DeviceListChanged.
ReceiveChanged(k) ==
    /\ Receive(k, "changed")
    /\ DeleteCopies
    /\ UNCHANGED count

\* The rest of ProcessReply_ControllerCount.
StartOver(k) ==
    /\ ListenerAt(k, {"count"})
    /\ requested_controllers' = 0 /\ controller_data_requested' = FALSE
    /\ lpc' = [lpc EXCEPT ![k] = "recv"]
    /\ UNCHANGED <<server, wire, state, count, controller_data_received, lists, cpc,
                   ListenThread, upc, raced>>

\* The rest of ProcessReply_ControllerData.
DataReceived(k) ==
    /\ ListenerAt(k, {"data"})
    /\ controller_data_received' = TRUE
    /\ lpc' = [lpc EXCEPT ![k] = "recv"]
    /\ UNCHANGED <<server, wire, state, count, requested_controllers,
                   controller_data_requested, lists, cpc, ListenThread, upc, raced>>

\* The connection is lost, or StopClient reset server_connected.
ListenDone(k) ==
    /\ ListenerAt(k, {"recv"})
    /\ conn # k \/ ~server_connected
    /\ lpc' = [lpc EXCEPT ![k] = "reset"]
    /\ UNCHANGED <<server, wire, state, count, data, lists, cpc, ListenThread, upc,
                   raced>>

\* After listen_done and in ProcessRequest_DeviceListChanged: the flags that
\* say how far the connection thread is.
ResetFlags(k) ==
    /\ ListenerAt(k, {"changed", "reset"})
    /\ requested_controllers' = 0 /\ controller_data_requested' = FALSE
    /\ controller_data_received' = FALSE
    /\ server_controller_count' = 0 /\ server_controller_count_requested' = FALSE
    /\ server_controller_count_received' = FALSE
    /\ lpc' = [lpc EXCEPT ![k] = IF @ = "changed" THEN "uninit" ELSE "closing"]
    /\ UNCHANGED <<server, wire, state, lists, cpc, ListenThread, upc, raced>>

Uninitialize(k) ==
    /\ ListenerAt(k, {"uninit", "closing"})
    /\ server_initialized' = FALSE
    /\ lpc' = [lpc EXCEPT ![k] = IF @ = "uninit" THEN "recv" ELSE "closed"]
    /\ UNCHANGED <<server, wire, client_active, server_connected, count, data, lists,
                   cpc,
                   ListenThread, upc, raced>>

Closed(k) ==
    /\ ListenerAt(k, {"closed"})
    /\ server_connected' = FALSE
    /\ lpc' = [lpc EXCEPT ![k] = "delete"]
    /\ UNCHANGED <<server, wire, client_active, server_initialized, count, data, lists,
                   cpc, ListenThread, upc, raced>>

Delete(k) ==
    /\ ListenerAt(k, {"delete"})
    /\ DeleteCopies
    /\ lpc' = [lpc EXCEPT ![k] = "ended"]
    /\ UNCHANGED <<server, wire, state, count, data, cpc, ListenThread, upc, raced>>

Listener(k) ==
    \/ ReceiveCount(k) \/ ReceiveData(k) \/ ReceiveChanged(k)
    \/ StartOver(k) \/ DataReceived(k) \/ ListenDone(k) \/ ResetFlags(k)
    \/ Uninitialize(k) \/ Closed(k) \/ Delete(k)

-----------------------------------------------------------------------------
(***************************************************************************)
(* StopClient.                                                             *)
(***************************************************************************)

StopAt(from, to) ==
    /\ Explored /\ upc = from /\ upc' = to
    /\ UNCHANGED <<server, server_initialized, count, data, lists, cpc, lpc, raced>>

\* Reset server_connected, then client_active.
StopClient ==
    /\ StopAt("idle", "inactive")
    /\ server_connected' = FALSE
    /\ UNCHANGED <<wire, client_active, ListenThread>>

StopActive ==
    /\ StopAt("inactive", "shutdown")
    /\ client_active' = FALSE
    /\ UNCHANGED <<wire, server_connected, ListenThread>>

\* Close the socket if server_connected.
StopShutdown ==
    /\ StopAt("shutdown", "disconnect")
    /\ IF server_connected /\ conn # 0 THEN Disconnect ELSE UNCHANGED wire
    /\ UNCHANGED <<client_active, server_connected, ListenThread>>

\* Reset both flags again.
StopDisconnect ==
    /\ StopAt("disconnect", "joinListen")
    /\ client_active' = FALSE /\ server_connected' = FALSE
    /\ UNCHANGED <<wire, ListenThread>>

\* Wait for the listener thread, if there is one.
JoinListen ==
    /\ StopAt("joinListen", "joinConn")
    /\ ListenThread # 0 => lpc[ListenThread] = "ended"
    /\ ListenThread' = 0
    /\ UNCHANGED <<wire, client_active, server_connected>>

\* Wait for the connection thread.
JoinConnection ==
    /\ StopAt("joinConn", "stopped")
    /\ cpc = "ended"
    /\ UNCHANGED <<wire, client_active, server_connected, ListenThread>>

Stopping == StopActive \/ StopShutdown \/ StopDisconnect \/ JoinListen \/ JoinConnection

-----------------------------------------------------------------------------
(***************************************************************************)
(* The client's own process.                                               *)
(***************************************************************************)

\* UpdateDeviceList after a detection, or because another client was removed:
\* the copies are not in the hardware list, so they are erased from what is
\* shown.  Neither the client nor server_initialized hears of it.
OwnUpdate ==
    /\ Explored
    /\ controllers' = <<>>
    /\ wiped' = (wiped \/ controllers # <<>>)
    /\ UNCHANGED <<server, wire, state, count, data, server_controllers, cpc, threads,
                   raced>>

Next ==
    \/ ServerChange \/ ServerAnnounce \/ ServerReply \/ ConnectionLost
    \/ ConnectionThread
    \/ \E k \in Conns : Listener(k)
    \/ StopClient \/ Stopping \/ OwnUpdate

Spec == Init /\ [][Next]_vars

\* Threads that can run do, and a working connection delivers; nobody is
\* obliged to change the list, to break the connection, to stop or to detect.
Fairness ==
    /\ WF_vars(ServerAnnounce) /\ WF_vars(ServerReply)
    /\ WF_vars(ConnectionThread)
    /\ \A k \in Conns : WF_vars(Listener(k))
    /\ WF_vars(Stopping)

FairSpec == Spec /\ Fairness

-----------------------------------------------------------------------------
(***************************************************************************)
(* Properties.                                                             *)
(***************************************************************************)

\* Every variable has its type.
TypeOK ==
    /\ srv \in Seq(Devices) /\ announced \in BOOLEAN /\ changes \in Nat
    /\ conn \in Conns \cup {0} /\ conns \in Nat
    /\ c2s \in Seq(Messages) /\ s2c \in Seq(Messages)
    /\ client_active \in BOOLEAN /\ server_connected \in BOOLEAN
    /\ server_initialized \in BOOLEAN
    /\ server_controller_count \in Nat
    /\ server_controller_count_requested \in BOOLEAN
    /\ server_controller_count_received \in BOOLEAN
    /\ requested_controllers \in Nat
    /\ controller_data_requested \in BOOLEAN /\ controller_data_received \in BOOLEAN
    /\ server_controllers \in Seq(Copies) /\ controllers \in Seq(Copies)
    /\ wiped \in BOOLEAN
    /\ cpc \in ConnectionLabels /\ lpc \in [Conns -> ListenLabels]
    /\ ListenThread \in Conns \cup {0} /\ upc \in StopLabels /\ raced \subseteq {"race", "overlap"}

\* The listener and the connection thread both touch the lists, and a copy that
\* is deleted is erased once from what is shown: unless a connection is made while
\* the listener of an earlier one is still at work, or the list is rebuilt while
\* the copies are added, the client shows the first of its copies, in their
\* order, so never a deleted one and none twice.  Nor does it show two copies of
\* one controller, if nothing raced.
NoDangling ==
    /\ TypeOK
    /\ "overlap" \notin raced => IsPrefix(controllers, server_controllers)
    /\ raced = {} => IsInjective(controllers)

\* The client shows the server's devices, each under the server's index.
InSync == controllers = [i \in DOMAIN srv |-> [dev |-> srv[i], idx |-> i - 1]]

\* A client that is connected comes to show the server's list, after changes
\* of the list and after reconnections that met it at rest, unless its own
\* process rebuilds the list after the copies were added: that erases them, and
\* only a change of the server's list, or a new connection, brings them back.
Converges == <>[](conn # 0 /\ upc = "idle" /\ raced = {} /\ ~wiped => InSync)

\* StopClient returns unless a connection is being made under it, and leaves
\* no thread and no copy behind.
StopReturns == upc # "idle" ~> upc = "stopped" \/ raced # {}
StoppedClean ==
    upc = "stopped" /\ raced = {} => controllers = <<>> /\ \A k \in Conns : ~Alive(k)

-----------------------------------------------------------------------------
(***************************************************************************)
(* What a comment says of the code, and the code does not do.              *)
(***************************************************************************)

\* "Mark server as uninitialized and reset server initialization state so
\* that it restarts the list requesting process": after a change the client
\* requests the list, also when it comes while it requests the last one.
RestartsRequesting ==
    <>[](conn # 0 /\ upc = "idle" /\ conns = 1 /\ ~wiped => InSync)

\* "Remove controllers that are no longer in the hardware list (devices that
\* were unplugged)": the copies never were in that list, and what is erased of
\* a client that is connected and initialised is not requested again.
ErasesUnplugged == <>[](conn # 0 /\ upc = "idle" /\ raced = {} => InSync)

\* "All controllers received, add them to master list": on a connection that
\* works and a list that does not change.
AllReceived ==
    /\ cpc = "added" /\ conn # 0 /\ upc = "idle"
    /\ conns = 1 /\ changes = 0 /\ ~wiped
    => InSync
=============================================================================
