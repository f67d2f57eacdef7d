---------------------------- MODULE ServerClients ----------------------------
(***************************************************************************)
(* The connections of the SDK server: StartServer and StopServer on a      *)
(* thread of the user, one connection thread per server socket, one        *)
(* listener thread per client, and DeviceListChanged, which the background *)
(* thread calls to tell the clients of a new list.                         *)
(*                                                                         *)
(* No thread is joined: all are detached and are expected to notice that   *)
(* server_online was reset.  Only ServerClients and the records in it are  *)
(* under ServerClientsMutex, and DeviceListChanged does not take it.  A    *)
(* record and its socket are one model object: the destructor closes the   *)
(* socket.  The record that a connection thread prepares is given its      *)
(* identity when a client is accepted.  Numbers of closed sockets and      *)
(* addresses of deleted records are not used again.                        *)
(***************************************************************************)
EXTENDS Naturals, FiniteSets, SequencesExt

CONSTANTS
    NumSockets,  \* addresses the host name resolves to
    MaxStarts,   \* bound on calls of StartServer
    Clients,     \* client connections that are made
    WindowsClients, \* those of them made on Windows, where threads add records of their own
    NoClient

ASSUME ServerAssumption ==
    /\ NumSockets \in Nat \ {0} /\ MaxStarts \in Nat \ {0}
    /\ IsFiniteSet(Clients) /\ WindowsClients \subseteq Clients
    /\ NoClient \notin Clients \cup ((1..MaxStarts) \X (1..NumSockets))

VARIABLES
    windows,          \* SOCKET is unsigned, and an address can be bound twice
    server_online, server_listening,
    starts,           \* number of calls of StartServer
    socket_count,
    server_sock,      \* the start that created the socket at each index
    open,             \* the open server sockets
    cpc,              \* where each connection thread is
    fd,               \* the start whose socket it accepts from
    accepted,         \* the record it is about to register
    lpc,              \* where the listener thread of each record is
    live,             \* records that are not deleted
    ServerClients,
    upc,              \* where StopServer is
    orphans,          \* clients whose records StopServer deleted
    lastEnd,          \* how the last connection thread to end ended
    next, told, shifted \* DeviceListChanged: index, clients told, a removal meanwhile

sockets   == <<windows, starts, socket_count, server_sock, open>>
flags     == <<server_online, server_listening>>
accepting == <<cpc, fd, accepted, lastEnd>>
records   == <<live, ServerClients, orphans>>
broadcast == <<next, told, shifted>>
vars == <<sockets, flags, accepting, lpc, records, upc, broadcast>>

Indices == 1..NumSockets
Threads == (1..MaxStarts) \X Indices   \* connection threads: start and index
\* A record of a client, or the one with INVALID_SOCKET that a thread of Windows made.
Records == Clients \cup Threads
ConnectionLabels == {"none", "loop", "listen", "accept", "selected", "accepted",
                     "spawned", "exit", "ended"}
ListenLabels == {"none", "recv", "done", "deleted", "ended"}

Init ==
    /\ windows \in BOOLEAN
    /\ server_online = FALSE /\ server_listening = FALSE
    /\ starts = 0 /\ socket_count = 0
    /\ server_sock = [i \in Indices |-> 0] /\ open = {}
    /\ cpc = [t \in Threads |-> "none"] /\ fd = [t \in Threads |-> 0]
    /\ accepted = [t \in Threads |-> NoClient]
    /\ lpc = [c \in Records |-> "none"]
    /\ live = {} /\ ServerClients = <<>> /\ orphans = {}
    /\ upc = "idle" /\ lastEnd = "none"
    /\ next = 0 /\ told = {} /\ shifted = FALSE

-----------------------------------------------------------------------------
(***************************************************************************)
(* Faults: wrong variants of definitions below.                            *)
(***************************************************************************)

\* The listener thread is started before the mutex is taken.
SpawnedUnlocked == (\A c \in Records : lpc[c] # "deleted") /\ upc # "deleted"

\* The end of the loop resets one flag only.
ExitListening(t) ==
    /\ cpc[t] = "exit"
    /\ server_online' = FALSE
    /\ cpc' = [cpc EXCEPT ![t] = "ended"] /\ lastEnd' = "closed"
    /\ UNCHANGED <<sockets, server_listening, fd, accepted, lpc, records, upc, broadcast>>

\* recv_select does not look at server_online.
SocketClosed(c) == c \notin live \/ c \in Threads

-----------------------------------------------------------------------------
\* No thread is between lock and unlock of ServerClientsMutex.
ServerClientsMutexFree ==
    /\ \A t \in Threads : cpc[t] # "spawned"
    /\ \A c \in Records : lpc[c] # "deleted"
    /\ upc # "deleted"

Listed == ToSet(ServerClients)

\* A record leaves the list; it matters to a DeviceListChanged that is under way.
Shift == shifted' = (next > 0) /\ told' = {}

-----------------------------------------------------------------------------
(***************************************************************************)
(* StartServer and StopServer.                                             *)
(***************************************************************************)

\* bind fails where an earlier socket still listens, and may fail anywhere.
CanBind(i) == windows \/ \A n \in 1..starts : <<n, i>> \notin open

\* StartServer creates `bound' sockets and goes online if none is missing; if one is
\* it returns and leaves those before it open.
StartServer(bound) ==
    /\ upc = "idle" /\ ~server_online /\ starts < MaxStarts
    /\ \A i \in 1..bound : CanBind(i)
    /\ starts' = starts + 1
    /\ socket_count' = bound
    /\ server_sock' = [i \in Indices |-> IF i <= bound THEN starts + 1 ELSE server_sock[i]]
    /\ open' = open \cup {<<starts + 1, i>> : i \in 1..bound}
    /\ server_online' = (bound = NumSockets)
    /\ cpc' = [t \in Threads |-> IF bound = NumSockets /\ t[1] = starts + 1
                                 THEN "loop" ELSE cpc[t]]
    /\ UNCHANGED <<windows, server_listening, fd, accepted, lastEnd, lpc, records, upc,
                   broadcast>>

StopRequested ==
    /\ upc = "idle" /\ server_online
    /\ server_online' = FALSE
    /\ upc' = "delete"
    /\ UNCHANGED <<sockets, server_listening, accepting, lpc, records, broadcast>>

StopDeletes ==
    /\ upc = "delete" /\ ServerClientsMutexFree
    /\ live' = live \ Listed
    /\ orphans' = orphans \cup Listed
    /\ Shift
    /\ upc' = "deleted"
    /\ UNCHANGED <<sockets, flags, accepting, lpc, ServerClients, next>>

StopClears ==
    /\ upc = "deleted"
    /\ ServerClients' = <<>>
    /\ open' = open \ {<<server_sock[i], i>> : i \in 1..socket_count}
    /\ socket_count' = 0
    /\ Shift
    /\ upc' = "idle"
    /\ UNCHANGED <<windows, starts, server_sock, flags, accepting, lpc, live, orphans,
                   next>>

StopServer == StopRequested \/ StopDeletes \/ StopClears

-----------------------------------------------------------------------------
(***************************************************************************)
(* ConnectionThreadFunction.                                               *)
(***************************************************************************)

Go(t, label) == cpc' = [cpc EXCEPT ![t] = label]

ConnectionLoop(t) ==
    /\ cpc[t] = "loop"
    /\ Go(t, IF server_online THEN "listen" ELSE "exit")
    /\ UNCHANGED <<sockets, flags, fd, accepted, lastEnd, lpc, records, upc, broadcast>>

Listen(t) ==
    /\ cpc[t] = "listen"
    /\ <<server_sock[t[2]], t[2]>> \in open
    /\ server_listening' = TRUE
    /\ fd' = [fd EXCEPT ![t] = server_sock[t[2]]]
    /\ Go(t, "accept")
    /\ UNCHANGED <<sockets, server_online, accepted, lastEnd, lpc, records, upc, broadcast>>

\* The socket was closed meanwhile: the thread returns and leaves server_listening.
ListenFails(t) ==
    /\ cpc[t] = "listen"
    /\ <<server_sock[t[2]], t[2]>> \notin open
    /\ server_online' = FALSE
    /\ Go(t, "ended") /\ lastEnd' = "listen"
    /\ UNCHANGED <<sockets, server_listening, fd, accepted, lpc, records, upc, broadcast>>

\* accept_select: select sees a client and the server is online.
Select(t) ==
    /\ cpc[t] = "accept" /\ server_online /\ <<fd[t], t[2]>> \in open
    /\ Go(t, "selected")
    /\ UNCHANGED <<sockets, flags, fd, accepted, lastEnd, lpc, records, upc, broadcast>>

Register(t, c) ==
    /\ accepted' = [accepted EXCEPT ![t] = c]
    /\ lpc' = [lpc EXCEPT ![c] = "none"]
    /\ live' = live \cup {c}
    /\ fd' = [fd EXCEPT ![t] = 0]
    /\ Go(t, "accepted")
    /\ UNCHANGED <<sockets, flags, lastEnd, ServerClients, orphans, upc, broadcast>>

Accept(t, c) ==
    /\ cpc[t] = "selected" /\ <<fd[t], t[2]>> \in open
    /\ lpc[c] = "none" /\ c \notin live /\ (windows => c \in WindowsClients)
    /\ Register(t, c)

\* accept_select returns -1: the server is offline, its socket is closed, or accept
\* failed, as it does when the client has already gone.
NoSocket(t) ==
    \/ cpc[t] = "accept" /\ (~server_online \/ <<fd[t], t[2]>> \notin open)
    \/ cpc[t] = "selected"

AcceptFails(t) ==
    /\ NoSocket(t) /\ ~windows
    /\ server_online' = FALSE /\ server_listening' = FALSE
    /\ fd' = [fd EXCEPT ![t] = 0]
    /\ Go(t, "ended") /\ lastEnd' = "closed"
    /\ UNCHANGED <<sockets, accepted, lpc, records, upc, broadcast>>

\* As a SOCKET of Windows, -1 is not below 0: the thread goes on with INVALID_SOCKET.
AcceptsInvalid(t) ==
    /\ NoSocket(t) /\ windows
    /\ lpc[t] \in {"none", "ended"} /\ t \notin live
    /\ Register(t, t)

\* Under the mutex, which is held until the record is listed.
SpawnListener(t) ==
    /\ cpc[t] = "accepted" /\ ServerClientsMutexFree
    /\ lpc' = [lpc EXCEPT ![accepted[t]] = "recv"]
    /\ Go(t, "spawned")
    /\ UNCHANGED <<sockets, flags, fd, accepted, lastEnd, records, upc, broadcast>>

PushClient(t) ==
    /\ cpc[t] = "spawned"
    /\ ServerClients' = Append(ServerClients, accepted[t])
    /\ accepted' = [accepted EXCEPT ![t] = NoClient]
    /\ Go(t, "loop")
    /\ UNCHANGED <<sockets, flags, fd, lastEnd, lpc, live, orphans, upc, broadcast>>

ConnectionExit(t) ==
    /\ cpc[t] = "exit"
    /\ server_online' = FALSE /\ server_listening' = FALSE
    /\ Go(t, "ended") /\ lastEnd' = "closed"
    /\ UNCHANGED <<sockets, fd, accepted, lpc, records, upc, broadcast>>

ConnectionStep(t) ==
    \/ ConnectionLoop(t) \/ Listen(t) \/ ListenFails(t)
    \/ AcceptFails(t) \/ AcceptsInvalid(t) \/ (\E c \in Clients : Accept(t, c))
    \/ SpawnListener(t) \/ PushClient(t) \/ ConnectionExit(t)

-----------------------------------------------------------------------------
(***************************************************************************)
(* ListenThreadFunction.                                                   *)
(***************************************************************************)

GoListener(c, label) == lpc' = [lpc EXCEPT ![c] = label]

\* recv_select returns 0 when the server is offline or the socket closed, recv does when
\* the client has gone.  What requests do is not modelled here.
Disconnected(c) == ~server_online \/ c \notin live \/ c \in Threads

StopReceiving(c) ==
    /\ lpc[c] = "recv"
    /\ GoListener(c, "done")
    /\ UNCHANGED <<sockets, flags, accepting, records, upc, broadcast>>

ReceiveFails(c) == Disconnected(c) /\ StopReceiving(c)
ClientLost(c)   == ~Disconnected(c) /\ StopReceiving(c)

DeleteOwn(c) ==
    /\ lpc[c] = "done" /\ ServerClientsMutexFree
    /\ IF c \in Listed
       THEN /\ live' = live \ {c} /\ Shift
            /\ GoListener(c, "deleted")
       ELSE /\ GoListener(c, "ended")
            /\ UNCHANGED <<live, shifted, told>>
    /\ orphans' = orphans \ {c}
    /\ UNCHANGED <<sockets, flags, accepting, ServerClients, upc, next>>

EraseOwn(c) ==
    /\ lpc[c] = "deleted"
    /\ \E i \in 1..Len(ServerClients) :
           /\ ServerClients[i] = c /\ \A j \in 1..(i - 1) : ServerClients[j] # c
           /\ ServerClients' = RemoveAt(ServerClients, i)
    /\ Shift
    /\ GoListener(c, "ended")
    /\ UNCHANGED <<sockets, flags, accepting, live, orphans, upc, next>>

ListenerStep(c) == ReceiveFails(c) \/ DeleteOwn(c) \/ EraseOwn(c)

-----------------------------------------------------------------------------
(***************************************************************************)
(* DeviceListChanged: one loop iteration per step, without the mutex.      *)
(***************************************************************************)

DeviceListChanged ==
    /\ next = 0 /\ ServerClients # <<>>
    /\ next' = 1
    /\ UNCHANGED <<sockets, flags, accepting, lpc, records, upc, told, shifted>>

TellNext ==
    /\ next \in 1..Len(ServerClients)
    /\ told' = IF shifted THEN {} ELSE told \cup {ServerClients[next]}
    /\ next' = next + 1
    /\ UNCHANGED <<sockets, flags, accepting, lpc, records, upc, shifted>>

ToldAll ==
    /\ next > Len(ServerClients)
    /\ next' = 0 /\ told' = {} /\ shifted' = FALSE
    /\ UNCHANGED <<sockets, flags, accepting, lpc, records, upc>>

Tell == TellNext \/ ToldAll

-----------------------------------------------------------------------------
Next ==
    \/ \E bound \in 0..NumSockets : StartServer(bound)
    \/ StopServer
    \/ \E t \in Threads : Select(t) \/ ConnectionStep(t)
    \/ \E c \in Records : ListenerStep(c)
    \/ \E c \in Clients : ClientLost(c)
    \/ DeviceListChanged \/ Tell

Spec == Init /\ [][Next]_vars

\* While threads of the server can take a step, one of them does; nobody has to start or
\* stop, connect or go.  That each thread that can run does so, as a scheduler grants,
\* implies it.
FairSpec ==
    /\ Spec
    /\ WF_vars(\/ StopDeletes \/ StopClears
               \/ \E t \in Threads : ConnectionStep(t)
               \/ \E c \in Records : ListenerStep(c))

-----------------------------------------------------------------------------
(***************************************************************************)
(* Properties.                                                             *)
(***************************************************************************)

\* Every variable has its type.
TypeOK ==
    /\ windows \in BOOLEAN /\ server_online \in BOOLEAN /\ server_listening \in BOOLEAN
    /\ starts \in 0..MaxStarts /\ socket_count \in 0..NumSockets
    /\ server_sock \in [Indices -> 0..MaxStarts] /\ open \subseteq Threads
    /\ cpc \in [Threads -> ConnectionLabels] /\ fd \in [Threads -> 0..MaxStarts]
    /\ accepted \in [Threads -> Records \cup {NoClient}]
    /\ lpc \in [Records -> ListenLabels]
    /\ live \subseteq Records /\ orphans \subseteq Records
    /\ ServerClients \in Seq(Records)
    /\ upc \in {"idle", "delete", "deleted"} /\ lastEnd \in {"none", "closed", "listen"}
    /\ next \in Nat /\ told \subseteq Records /\ shifted \in BOOLEAN

\* ServerClients (NetworkServer.cpp:480): a record is in the list once, as long as it
\* is alive; when ServerClientsMutex is free no deleted record is in the list.  Each
\* has a listener thread that will remove it ("We need to lock before the thread could
\* possibly finish"), each that is not in the list is about to be put there, and
\* only StopServer takes a record away from a listener that works for it.
RecordsSound ==
    /\ TypeOK
    /\ IsInjective(ServerClients)
    /\ ServerClientsMutexFree => Listed \subseteq live
    /\ \A c \in Listed : lpc[c] # "ended"
    /\ \A c \in live \ Listed : \E t \in Threads : accepted[t] = c
    /\ \A c \in Records : lpc[c] \in {"recv", "done"} => c \in live \cup orphans

\* server_online (NetworkServer.cpp:418): an online server accepts on every socket.
\* Threads of an earlier start may bring it offline, but never leave it online and deaf.
OnlineIsServed ==
    server_online => \A i \in 1..socket_count : cpc[<<starts, i>>] # "ended"

\* server_listening (NetworkServer.cpp:424): when the connection threads have ended, in
\* whatever order and however often the server was restarted, it is reset, except when
\* the last of them to end found its socket closed on its way to listen.
ListeningEnds ==
    (\A t \in Threads : cpc[t] \in {"none", "ended"}) /\ server_listening
        => lastEnd = "listen"

\* DeviceListChanged (NetworkServer.cpp:105): the clients that it has passed were told,
\* unless a client was removed meanwhile, which moves the others under the loop's index.
ToldUnlessShifted ==
    next > 0 /\ ~shifted => \A i \in 1..(next - 1) : ServerClients[i] \in told

\* The threads have ended and no record is left.
Drained ==
    /\ \A t \in Threads : cpc[t] \in {"none", "ended"}
    /\ \A c \in Records : lpc[c] \in {"none", "ended"}
    /\ ServerClients = <<>> /\ live = {}

\* StopServer (NetworkServer.cpp:359) joins no thread: nonetheless all of them end and
\* delete their records, unless the server is started again.
GoesOffline == ~server_online ~> server_online \/ Drained

=============================================================================
