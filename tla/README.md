# A verification development for MiraBox SyncRGB

MiraBox SyncRGB (`src/RGBServer`) is a fork of OpenRGB: a server that detects
RGB devices on USB, I2C and serial busses, keeps one controller object for
each, and lets a GUI, a command line, a binary SDK protocol and a JSON-RPC /
WebSocket interface change their modes and colors.  What is hard about it is
not the colors but who may touch the controllers when: detection replaces all
of them while half a dozen kinds of threads use them.

This directory models that core in TLA+, checks the models with TLC and proves
with TLAPS nearly all of the safety that they show (section 6).

## 1. The system

| part | state | operations | talks to |
|---|---|---|---|
| ResourceManager: detection (`ResourceManager.cpp`) | `rgb_controllers_hw`, `rgb_controllers`, `..._cleanup_pending`, `..._matched`, `detection_is_required`, `detection_enabled`, the scheduled coroutine, three mutexes | `Initialize`, `RescanDevices`, `Cleanup`, `ProcessPreDetection`, `DetectDevicesCoroutine`, `RegisterRGBController`, `ProcessPostDetection`, `StopDeviceDetection`, `RunInBackgroundThread` | called by GUI, network and JSON-RPC threads; calls detectors, servers and callbacks |
| ResourceManager: published list | both lists, callbacks | `UpdateDeviceList`, `UnregisterRGBController` | notifies GUI, SDK and WebSocket clients |
| RGBController (`RGBController.cpp`) | modes, zones, colors; two call flags; `DeviceInitialized`; a thread | `SetLED…`, `SetMode`, `UpdateLEDs`, `UpdateMode`, `DeviceCallThreadFunction`, destructor | device class; all handlers |
| NetworkServer (`NetworkServer.cpp`) | client records, server sockets, two flags | `StartServer`, `StopServer`, a connection thread per socket, a listener thread per client, `DeviceListChanged` | ResourceManager, RGBController, clients |
| NetworkClient (`NetworkClient.cpp`) | copies of the controllers of another server | connection thread, listener thread per connection, `StopClient` | NetworkServer, ResourceManager |
| WebSocketServer (`WebSocketServer.cpp`) | client map, io thread, endpoint file | `StartServer`, `StopServer`, handlers, broadcasts, shutdown | JSONRPCHandler, ResourceManager |
| JSONRPCHandler (`JSONRPCHandler.cpp`) | rescan worker | color, zone, profile and rescan requests | ResourceManager, RGBController, ProfileManager |
| ProfileManager (`ProfileManager.cpp`) | profile files, the file of zone sizes | load, save, match saved with present controllers | ResourceManager |
| SettingsManager, LogManager | files | load, save, buffer, rotate | all |
| Drivers (`Controllers/`), I2C, SPD, serial, sockets | the devices | transfers | external to the models |
| CLI, GUI, start-up, plugins, keyboard layouts | presentation | - | ResourceManager |

`PROJECT.json` lists them all, with the reason for what is left out.

**What is hard.** Threads: one background thread that runs coroutines one at a
time, one call thread per controller, one listener per connection, JSON-RPC
workers, the GUI.  Locks that cover less than they seem to:
`DeviceListChangeMutex` keeps two rebuilds of `rgb_controllers` apart, but those
who register, remove or clear controllers write the same vectors without it, and
the servers use `rgb_controllers_hw`.  Flags that are read and reset by
two threads.  One slot for the scheduled coroutine.  Objects that are deleted
while others may hold them.  Connections that break in the middle of a list.
`PROJECT.json` lists the hazards by line; section 4 says which property watches
which of them.

## 2. The modules

| module | models | state and actions |
|---|---|---|
| `Detection` | the detection life cycle of ResourceManager, the threads that ask for rescans, SDK handlers that use controllers | `pc` of each thread is a place in the C++ function it executes; each action is one critical section or one stretch of code without shared accesses of another thread in between; the names are those of the functions |
| `DetectionProofs`, `DeviceListProofs`, `DeviceCallProofs`, `ClientSyncProofs`, `ServerClientsProofs`, `WebSocketProofs`, `ZonesProofs`, `ProfilesProofs` | - | the inductive invariants and the theorems about `Detection`, `DeviceList`, `DeviceCall`, `ClientSync`, `ServerClients`, `WebSocketServer`, `Zones` and `Profiles` |
| `DeviceList` | `UpdateDeviceList`, one loop iteration per action, and all that writes the two lists beside it, at any moment: registration, the two erasures of a removal, `Cleanup`, network clients | `step` and `idx` are the loop and its index; `at` is how far a controller's registration or removal is; `added`, `removed` are the events; `raced` and `harm` record which writers met a rebuild and what they did to it |
| `ControllerList` | what `UpdateDeviceList` promises: the shown list becomes the hardware list in one step, unless somebody wrote a list meanwhile | abstract specification, implemented by `DeviceList` |
| `DeviceCall` | one controller's call thread, its callers, direct writers, lazy initialisation and the destructor, whose derived part goes first | `flag`, `want` (the data), `shown` (the device); data are numbered, so that "older" has a meaning |
| `ClientSync` | how a NetworkClient copies a server's list: connection thread, listener threads (an old one may still clean up while the next one runs), `StopClient`, the server's replies and change messages, and `UpdateDeviceList` of the client's own process, which erases the copies (`OwnUpdate`, `AddUnderUpdate`) | the flags of the class under their own names; `cpc`, `lpc`, `upc` are the places of the three kinds of threads |
| `ServerClients` | NetworkServer's connections: start and stop, the connection threads, the client records and their listener threads, the announcement of a new list | `cpc`, `lpc`, `upc` are places in `ConnectionThreadFunction`, `ListenThreadFunction`, `StopServer`; sections under `ServerClientsMutex` are steps, `DeviceListChanged` is one step per client |
| `WebSocketServer` | start and stop under the state mutex, the io thread and its handlers, broadcasts, shutdown threads, the endpoint file; the worker of JSON-RPC's `RescanDevices` | `upc`, `io`, `bg`, `wpc` are the places of the threads; the holders of the three mutexes that they take together are variables |
| `Zones` | one controller's color vector and zones, three kinds of drivers, and the JSON-RPC requests that write and resize them | `dev` is the controller; every request is one step, as each holds the list's lock throughout |
| `Profiles` | zone sizes and colors over detections, restarts, the file of sizes and profiles | lists of controllers as the code has them, with `used` and `matched` as sets of indices; the loop over the controllers of a profile is a recursive function, `Taken` |
| `MC…` | instances for TLC | model values, symmetry, initial lists |

How they compose.  `Detection` uses `UpdateDeviceList` as one step (`Rebuild`).
`DeviceList` shows when it may: for those who hold `DeviceListChangeMutex` it is
the one step of `ControllerList` (the property `ShowsHardware`, a refinement), and
what it makes of the list is the hardware list if nobody wrote a list while it ran.
In `Detection` somebody can only with several requesters, or through `Cleanup`; that
the list is right again once every writer has had its own rebuild is `RacesHeal`.
`PostReapAmid` is the one place where `Detection` itself looks into another thread's
rebuild: `ProcessPostDetection` reads the list without the mutex (1485-1510) and may
miss what that rebuild moves or adds.
`Detection` treats the controllers as objects with a state that handlers
change; `DeviceCall` opens one of them.  `ClientSync` is the other end of a
connection, and changes its own process's list through the `AddRemote` and
`DropRemote` of `DeviceList`.  `ServerClients` is the near end: it leaves out what
a listener thread does with a packet, which `Detection` (use of a controller),
`DeviceCall` (a write), `ClientSync` (a reply) and `Profiles` (a resize) have.
`WebSocketServer` likewise runs requests as steps of the io thread that take the
lock of the list or hand over a rescan; `Zones` and `Profiles` have their
contents.  `Profiles` opens the registration of `Detection`: there mode and
colors are one value that a new controller takes over, here it is seen what the
number of LEDs does to it.

Abstractions.  A device is a model value and a controller object the pair of
the device and the detection run that created it, so that "the same device
again" and "a deleted object" can be told apart; the comparison of name,
location and serial that matches them in the code is this equality.  Mode and
colors are one value.  Detectors run in any order (static registration).
Logging, progress and the contents of messages are left out.  The HID library
is left out of `Detection`: see section 5 for what the code does with it.

In `ClientSync` tests of flags that follow each other without an access of
another thread that could tell them apart are one step (`Top` reads
`client_active`, `server_connected` and `server_initialized`), and the flags
reset together in a row are reset in one step, except where a reader can see
the difference: the received flags come before the others in
`ProcessReply_ControllerCount`, `server_initialized` and `server_connected`
last.

In `ServerClients` a record and its socket are one object, numbers of closed
sockets and addresses of freed records are not used again, start and stop are
called by one thread (the GUI's and the service's, which asks `GetOnline` first)
and a failed accept resets both flags in one step.  In `WebSocketServer` a
connection is what websocketpp makes of it (external): handlers run one at a time
on the io thread, and a connection that fails before it opens gets `OnFail`
alone.  In `Zones` the driver is one of three kinds: `"setup"` (MSI 185) resizes
within the zone's limits, sets up all zones again and may read the device;
`"count"` (ASRock Polychrome USB) changes `leds_count` and nothing else, so that the
vector stays as it was; `"fixed"` (ASRock Polychrome V1) sets one zone to one LED
whatever it is asked, and with `Addressable = 0` is a driver whose `ResizeZone` does
nothing.  The pointer to the colors of a zone that had none when `SetupColors` ran is
NULL; the code does not test it, and in the model a request that goes through it ends
the process (reply `"crash"`).  A controller of `Profiles` has one zone and
one color for its LEDs.  There detectors run in the same order in every run, that of
the device numbers: twins without serial numbers are told apart by nothing else, and
where an operating system enumerates them in another order their sizes are swapped.
A save takes the values of the controllers when it opens the file; the code
(ProfileManager.cpp:84-104) reads each controller when its turn comes, later.  The
profile that JSON-RPC saves is one that it can load: by default `SaveProfile` writes
an `.ors` file, which its `LoadProfile` does not read.

`UpdateDeviceList` on vectors takes one step for an insertion, for an erasure with the
search before it, and for a `push_back`; the search for a controller and its insertion
(ResourceManager.cpp:878-901) are two, as other threads shrink the vectors in between.
What the program does after an insertion behind the end is undefined, and nothing is
said of it (`"broken"`).

**Faults.** Each module has wrong variants of some definitions: a forgotten
reset, a missing lock, an index off by one.  No specification uses them; each
stands for a bug that is easy to write, and put in the place of the right
definition it makes the property it is listed with in `PROJECT.json` fail.
That is the evidence that the property can fail at all.

## 3. The runs

| run | instance | what it shows |
|---|---|---|
| `rescans` | 2 devices, 1 requester, 2 rescans, stops, a JSON-RPC handler, 2 values, throwing detectors, hot-plug between scans | every device once; no object lost track of; complete scans; the verdict on changes; sizes loaded before a controller is shown; handlers with the lock are safe from deletion |
| `live` | 1 device, 2 requesters, 2 rescans, requests during initialisation, hot-plug at any step, a handler that locks, stops, detection disabled or not, auto-connection | no list keeps a deleted controller, although one thread reaps while another rebuilds; no lost wake-up, a sound state at rest; initialisation ends, requests are answered |
| `list_updates` | 3 controllers, 1 remote one, every writer at every step | whatever writes the lists: no controller twice in the middle of a rebuild, lists that heal, removed controllers gone; in undisturbed rebuilds the events are right; `UpdateDeviceList` refines `ControllerList` |
| `call_requests` | 2 callers, 2 kinds of request, deletion, both kinds of controller | requests are not lost, one initialisation, deletion ends, and without aborting if no update is pending |
| `copies` | 2 devices, 2 changes, 2 connections, stop, rebuilds of the client's own list | the copy becomes right; stopping ends and leaves nothing |
| `listeners` | 2 devices, 1 change, 2 connections, races included | nothing deleted is shown |
| `sdk_server` | 1 socket, 2 starts, 2 clients, Windows and others, failing accepts | records are owned, flags and threads end |
| `websocket` | 2 clients, 1 user, 2 workers, handlers that throw | stopping returns and leaves nothing, records are owned, rescans do not overlap |
| `zone_requests` | each of 3 drivers, 3 zones (one or two LEDs; none to two, for effects only with the driver that knows such zones; fixed), up to 2 LEDs sent for each | zones divide the vector; only zones for effects and zones that outgrew their part are written beyond it, until then requests show what they sent and keep the rest; errors, also after other zones were resized, cost no color |
| `sizes` | 2 devices of one identity, 2 sizes, 1 resize, 1 restart | saved sizes and profiles come back to their devices |
| `inside`, `reconnected` | small ones that show it | the code does not do what a comment or document says, section 5 |

**Bounds and why they suffice.**  Two devices give a list in which one can be
lost, duplicated or swapped for another.  Two rescans give an object that is
current, one that is pending and, with the initial scan, one that is deleted;
the matched and pending lists return to empty after each.  Two requesters give
every pair of overlapping rescans, and in `live` a background thread that reaps
while one of them rebuilds; a third would meet the same refusals.  Two
connections give an old listener that cleans up while the new one works.
Three controllers and a remote one let `UpdateDeviceList` keep, move, insert and
erase in one call, at both ends and in the middle, with a registration, a removal,
a `Cleanup` and a network client at work meanwhile; each controller object lives
once.  `MaxRequests`, `MaxChanges`, `MaxConns`
bound what the environment asks; nothing else is bounded.  `HotplugWhen` says
at which steps of the background thread devices come and go (any in `live`).
`MaxStarts = 2` in `ServerClients` gives threads of an earlier start next to those
of the next; they meet on the flags and on the slot of the socket, and a third
start would meet the same two kinds.  One socket suffices for that.  Two clients
make a list in which one is removed in front of another.  In `WebSocketServer`
each client asks for at most one shutdown, and two workers are the one that a
future refers to and the one about to replace it: an older one has ended, because
the assignment waits for it.  `MaxSent = 2` allows a zone to be empty, of one LED,
and of more than a zone for effects only shows; the `unsigned char` to which driver
`"count"` cuts a size is modelled but not reached.  `MaxResizes = 1` in `Profiles`
makes one device differ from its twin and from the default size, and `MaxRestarts
= 1` lets the file be read once after that.
`raced` of `ClientSync` records that the threads met at a moment for which the code
makes no provision: `"overlap"` if a connection was made while the listener of an
earlier one was still at work, or the list was rebuilt between the additions of two
copies, `"race"` for everything else.  `wiped` records that a rebuild erased copies
that were complete.  The promises that such
a meeting breaks are stated for states without it.  With `Races = FALSE` what follows
a race is not explored; `listeners` explores it.
`CHECK_DEADLOCK FALSE` stands where the system may rest: a deleted controller, a
stopped client or server; a device list all of whose controllers have come and gone,
or an insertion behind its end; a request that ended the process.

Symmetry is used for devices, requesters and controllers in runs without
liveness properties, and not in `ClientSync`, whose initial list names a device.

**Fairness.**  `FairSpec` in each module assumes that a thread that can take a
step eventually does (weak fairness per thread), as the operating system's
scheduler grants, and nothing of the environment: nobody must request, stop,
plug, break a connection or delete.  In `Detection` the steps that take
`DeviceListChangeMutex` have strong fairness: JSON-RPC handlers take the mutex
again and again, but each holds it for one request only and the mutex is not
withheld from a waiting thread for ever.  In `ClientSync` the server's replies
and change messages are fair, because the connection delivers what it accepted
until it breaks.  `ServerClients` needs less: that some thread of the server moves
while one can.  In `WebSocketServer` a handler that waits for the list's lock,
which the background thread takes again and again, has strong fairness, for the
same reason as in `Detection`; the io thread, the workers, a stop that has begun
and a scheduled shutdown have weak fairness.

## 4. Properties and the hazards they watch

* *Rescans against each other and against initialisation*: `FreedUnreachable`,
  `NothingLeaked`, `OneControllerPerDevice`, `Settled`, `ScanFindsDevices`.
* *The single coroutine slot and its condition variable*: `NoLostWakeup`,
  `RequestAnswered`, `InitFinishes`.
* *Deletion in `ProcessPostDetection` against handlers and rebuilds*:
  `LockedReaderSafe`, `FreedUnreachable`.
* *State carried over a rescan*: `SettingsRestored`, `SizesLoadedWhenListed`,
  `ChangeVerdict`.
* *A list that is rebuilt under its readers and written by others meanwhile*:
  `SoundMidRebuild`, `RacesHeal`, `GoneIsGone`, `ShowsHardware`; the events that tell
  clients of it: `DeltasComplete`, `LostSlots`.
* *A flag that two threads raise and lower*: `NothingLost`, `Converges`,
  `InitializedOnce` of `DeviceCall`; *an object destroyed under its own thread*:
  `DestructorReturns`, `QuietTeardown`.
* *A list copied over a connection that changes and breaks*: `Converges`,
  `NoDangling`, `StopReturns`, `StoppedClean` of `ClientSync`.
* *Detached threads that outlive a stop, and a list of records that one thread
  reads without its lock*: `RecordsSound`, `OnlineIsServed`, `ListeningEnds`,
  `ToldUnlessShifted`, `GoesOffline`.
* *A stop that holds one mutex and joins a thread whose handlers take others, two
  stops at once, a future that waits for its predecessor*: `StopReturns`,
  `StoppedClean`, `RecordsOwned`, `OneWorker` of `WebSocketServer`.
* *Zones that are resized behind the driver's back in one shared vector*: `Divided`,
  `StaysInPart`, `ShowsSent`, `ForceKeepsOthers`; *the second of several zones fails*:
  `RejectedKeepsColors`.
* *Saved entries that are matched by identity and order, a file that is cut off by
  a crash*: `SizesComeBack`, `ProfileComesBack`.

Type invariants are proved (section 6), as theorems of their own or as the first
conjunct of `SoundMidRebuild`, `NoDangling`, `RecordsSound`, `RecordsOwned` and
`Divided`.  `SettingsRestored` of `Detection`, `OnlineIsServed` and `ToldUnlessShifted`
of `ServerClients` and the type invariant of `Profiles` are proved too, and no run
repeats them.

Some hold under a condition, and the condition is the message.  `NothingLost`
and `Converges` of `DeviceCall` hold for controllers with
`CONTROLLER_FLAG_RESET_BEFORE_UPDATE`, for requests after the thread has started
(`~early`) and without writes on a caller's own thread (`~direct`); without any
one of the three the code loses updates.  `Converges` of `ClientSync` holds when
changes and losses meet the client at rest and the connection thread does not
read the reply to its count while it is being noted (`raced = {}`), and when no rebuild
of the client's own list came after the copies were added (`~wiped`).  `NoDangling`
needs less: that the copies shown are the first of those owned excepts only a
listener that overlaps its successor's connection and a rebuild in the middle of the
additions, that each is shown once excepts every race.
`DestructorReturns` lets the process end: the base destructor joins a thread that may
call pure virtual functions.  `QuietTeardown` says that this takes an update that was
pending or under way when the derived part went.
`SoundMidRebuild` and `RacesHeal` except a hardware list that shrank between the search
for a controller and its insertion: the insertion reads the vector again, and may put
a controller in twice.  `RacesHeal` also excepts a network client that lost controllers
during the last rebuild, whose `to_remove` may then name one that is back.  What a
rebuild reports (`DeltasComplete`, `LostSlots`) is promised where nobody wrote a list
during it.
`SizesLoadedWhenListed` holds for `rgb_controllers`, which the GUI shows.  In
`rgb_controllers_hw`, which the servers read unless `all_controllers` is set, the
controller pushed last stands without its sizes from ResourceManager.cpp:409 to 428.
`NothingLeaked` and the other properties of `rescans` are about one requester: two that
ask at once run `Cleanup` side by side, and TLC finds each of them violated.
`GoesOffline` rests on the fairness of a failing accept: where a second thread took the
waiting client and nobody stops the server, `accept` (NetworkServer.cpp:525) may block.
`SettingsRestored` is about devices that the previous detection found.
`ListeningEnds` has one exception, the path on which `listen` fails and
`server_listening` is not reset.  `ToldUnlessShifted` excepts broadcasts during
which a client was removed: the index of the loop then passes over one that was
not told (or beyond the end).  `StaysInPart` says that the bound of the loops that
write colors (`leds_count`, or what was sent) and the room that `SetupColors` made differ
for two sorts of zones only: those for effects only, and those whose `leds_count` the
driver raised alone.  There the loops write into the next zone or past the vector, and
`ShowsSent` and `ForceKeepsOthers` are about controllers to which this has not happened.
`RejectedKeepsColors` allows sizes to change: zones before the one that failed stay
resized.
`SizesComeBack` is about sizes saved at
rest: `SaveProfile("sizes")` during a scan writes the controllers found so far.

## 5. Where code and text disagree

Two runs end in a counterexample.

* `inside`: `ResourceManager.h` promises whoever holds `DeviceListChangeMutex` a
  stable controller vector; `Cleanup` clears `rgb_controllers_hw`, the vector
  the handler indexes, and deletes the I2C busses without it.
* `reconnected`: the README promises that modes, colors and zones of devices are
  preserved when they are reconnected.  `RegisterRGBController` copies the colors
  only if there are as many in the new controller, which at that moment still has
  its default size; the saved size is loaded afterwards, and is the one of the
  program's start (ResourceManager.cpp:231).

Other statements of comments and documents are formulas of the modules, without a
run of their own.  Put in the place of the properties of the cfg named (as an invariant,
or as a property where that is said) each has a counterexample.

| formula | add to | statement, and what happens |
|---|---|---|
| `NothingLeftAtStart` | `MCDetection_live.cfg` | "If there's anything left from the last time, we shall remove it first" (ResourceManager.cpp:1388): a rescan during initialisation makes two detections run on one `Cleanup` |
| `UpdatesShown` | `MCDeviceCall_requests.cfg` | "Update all LEDs based on the colors vector" (RGBControllerAPI.md:313): ordinary controllers clear the request flag after the update, and a request made during it is lost |
| `ReportsCachedSlot` | `MCDeviceList_updates.cfg` | `deviceDisconnected` is meant to name "the slot the client currently has cached" (ResourceManager.cpp:938-940): the first loop has already moved controllers, and where one that stays was behind one that goes, no client has the slot that is named; `LostSlots` is what holds |
| `RestartsRequesting` | `MCClientSync_copies.cfg`, as a property, with `Races = TRUE` | "so that it restarts the list requesting process" (NetworkClient.cpp:732): a change handled between the connection thread's last test and `server_initialized = true` is overwritten, and the list is not requested again |
| `AllReceived` | `MCClientSync_listeners.cfg`, with `InitialLists <- TwoList` | "All controllers received" (NetworkClient.cpp:385): the listener's reply to the count resets what the connection thread has requested; one controller is counted twice and the last is missing |
| `ErasesUnplugged` | `MCClientSync_copies.cfg`, as a property | "Remove controllers that are no longer in the hardware list (devices that were unplugged)" (ResourceManager.cpp:914-917): the loop also erases the controllers of connected network clients, which never were in it, and they are not requested again |
| `DroppedIsCleaned` | `MCWebSocketServer_server.cfg` | "OnClose/OnFail will handle cleanup" (WebSocketServer.cpp:741): they look the record up in the map from which the broadcast erased it, and it is never deleted |
| `TreatedAsSingleLED` | `MCZones_requests.cfg` | "treat as single LED" (RGBController.h:127): the requests write `leds_count` colors |

Other disagreements met while modelling:

* `UnregisterRGBController` removes a controller from both lists, so that no
  `deviceDisconnected` event reports it (ResourceManager.cpp:466).
* "First, load sizes for the new controllers" (ResourceManager.cpp:422) comes after the
  controller was pushed into the vector that the servers read.
* The writers of both lists take no lock, or another one, and `UpdateDeviceList` reads
  `rgb_controllers_hw` again after it has searched for a controller: one that is removed
  at that moment shows up twice, or the insertion is undefined (ResourceManager.cpp:901).
* "They remain accessible during device detection" (ResourceManager.cpp:1289-1291):
  the old controllers leave `rgb_controllers` before the first detector runs.
* `hid_init` is called on the requesting thread, against
  ResourceManager.cpp:2419-2420, and the scheduled `HidExitCoroutine` may run
  after it.
* A detector that throws leaves `detection_is_required` set and
  `DetectDeviceMutex` locked: no later rescan is accepted
  (ResourceManager.cpp:2441).
* Settings are "preserved across hot-plug events" (`MODIFICATIONS.md:41`) only
  for a device that is back at the next scan.
* SDK handlers of NetworkServer take no lock at all and can use a deleted
  controller.
* A request before the call thread first runs is wiped out by the thread's own
  initialisation of the flags (RGBController.cpp:2169).
* The base destructor joins the call thread when the derived class is already
  gone; a pending update then calls a pure virtual function and the process ends
  (RGBController.cpp:78; `Abort` in `DeviceCall`).
* `StopClient` resets `server_connected` before it tests it, so that "Shut down
  and close the client socket" (NetworkClient.cpp:186) does not happen.
* A connection thread of an earlier start sets `server_online` to false when it
  ends, also when the server was started again meanwhile (NetworkServer.cpp:495).
* On Windows `SOCKET` is unsigned, so `client_sock < 0` (NetworkServer.cpp:433) never
  holds and a record with an invalid socket is registered.
* `init_asio` succeeds once per endpoint and StopServer does not replace the
  endpoint, so that the WebSocket server cannot be started a second time
  (WebSocketServer.cpp:83).
* `JoinWithTimeout` ignores its timeout (WebSocketServer.cpp:684), and an exception
  that escapes a handler ends the io thread of a server that stays online.
* "Reset flag when done" (JSONRPCHandler.cpp:369) resets `rescan_in_progress` when
  the scan was scheduled.
* JSON-RPC's `LoadProfile` loads colors before sizes, so that a zone that must be
  resized loses the colors it was just given (JSONRPCHandler.cpp:1243), and its
  `ResizeZone` does not save the sizes as the SDK's does.
* "Ignore remote and virtual controllers when saving sizes": the loop ends at the
  first of them (ProfileManager.cpp:93).
* JSON-RPC's requests for zones write through `zones[i].colors` without testing it, which
  is NULL where the zone had no LED when `SetupColors` ran (RGBController.cpp:1932-1939);
  with a driver that changes `leds_count` alone this ends the process.
* "Zone does not support the requested LED count" (JSONRPCHandler.cpp:652-657) is answered
  when the zones before it have been resized already.
* A single LED update accepts `led_idx == leds.size()` (RGBController.cpp:1751).
* With fewer log files than the limit, the number of files to remove wraps around
  and all of them are removed (LogManager.cpp:766).

## 6. What is proved

Eight modules hold theorems.  Every theorem is about the specification that the
runs check, for every value of the constants that the assumptions admit; the
assumptions are those beside the constants (threads are distinct, flags are booleans,
bounds are numbers, the sizes of a zone are in order), and three conditions that are
hypotheses of the theorems they are named at below.  Lists have any length, and there
are any number of devices, threads, requests, connections and starts.

**Detection** (`DetectionProofs`)

| theorem | property | condition |
|---|---|---|
| `TypeCorrect`, `FreedNeverReachable`, `WakeupNeverLost`, `HandlersSafe` | `TypeOK`, `FreedUnreachable`, `NoLostWakeup`, `LockedReaderSafe` | none |
| `ListsSettle` | `Settled` | no detector throws |
| `DevicesShownOnce`, `ObjectsKept`, `VerdictRight`, `SizesComeFirst`, `RestoresSettings` | `OneControllerPerDevice`, `NothingLeaked`, `ChangeVerdict`, `SizesLoadedWhenListed`, `SettingsRestored` | `OneRequester` |
| `ScanComplete` | `ScanFindsDevices` | `OneRequester`, devices come and go between scans |

`FreedUnreachable` is not inductive.  `ProcessPostDetection` deletes the pending
controllers that are not in `rgb_controllers`; that no hardware list holds one of
them follows only if every hardware controller is shown.  `HwShown` says so, with
one exception: the controller whose registration is being published, which is new.
That it is new, and so neither pending nor deleted, is `Fresh`: objects of a run are
created once, by detectors that have not run yet.  `Opened` says that all lists hold
objects that were created.  A deletion by a requester, on the path where detection
is disabled, is covered by `Phase`: then nothing was ever detected.  The wake-up
needs `HoldsMutex`: whoever schedules holds the mutex, so nothing is scheduled while
the background thread runs, and it looks once more before it waits.  `IInv` is the
conjunction of all this; each part has a lemma with one step per action.
`HandlersSafe` adds `InHand`, what a handler between lock and unlock holds in hand,
and `ListsSettle` adds `RebuildAhead` and `ReapAhead`: where a list is out of date or
something is left to delete, somebody is about to do it.

The other theorems need `OneRequester` (at most one thread asks for rescans, and none
during initialisation), and so does the code: `ProcessPreDetection` tests
`detection_is_required` long before it sets it, two threads that ask at once run
`Cleanup` side by side, and with two requesters TLC finds every one of these
properties violated.  With one, requests and runs take turns (`Turns`), except that a
request may save and clear while a stopped run is on its way out, when there is
nothing left to clear (`Emptied`).  Everything else in the invariant `Serial` follows
that order: what each list holds beside the others (`ShownOnly`, `Saved`), of which
run (`Current`, `Latest`, `Previous`), matched to what (`Matching`), with which sizes
(`Sizes`), and that each device is in it once (`Distinct`).

**DeviceList** (`DeviceListProofs`): `ListIsSound` (`SoundMidRebuild`), `DeltasRight`
(`DeltasComplete`), `RacesAreHealed` (`RacesHeal`), and `OneStepForOutsiders`: `Spec => ShowsHardware`, that is,
`DeviceList` implements `ControllerList`, its initial states are initial there and each
step is a step there or a stutter, the unlocked writers included.  The invariant follows
the three loops of `UpdateDeviceList` in rebuilds that at most the additions of network
clients disturb (`Good`): each pass of the first makes one more controller of the list
agree with the hardware list (`Agree`, `InsertPass`), so that afterwards the list is the
hardware list and a surplus; the second collects that surplus (`CollectPass`); what the
third has left to erase is what is left of it (`ErasePass`); then the lists are equal but
for network clients' controllers behind (`Finished`).  The events go along where nobody
wrote at all (`Calm`).  All of it needs that no list shows a controller twice, because
the erasures find controllers by value, and only a writer between a search and its
insertion can spoil that (`ListDistinct`).  Of a disturbed rebuild nothing is said but
that whoever disturbed it owes one of its own (`RacersOwe`): so the last of them runs
undisturbed, and leaves the lists in order (`AtRest`).

**DeviceCall** (`DeviceCallProofs`): `TypeCorrect`, `NoRequestLost` (`NothingLost`),
`InitializedExactlyOnce` (`InitializedOnce`), `TeardownQuiet` (`QuietTeardown`).
`NothingLost` says that what the device
shows is the latest unless a flag is up or a thread is at a request.  It is not
inductive: a thread that writes makes the device show what it read before, and that
must be the latest or be asked for again.  `Fetched` says so; it holds because whoever
changes data is then at `raise`, and because the flag goes down before the data are
read (`ClearsFirst`), which is what the other kind of controller does not do.  The
thread's own first step, which clears both flags, is harmless only because nothing was
requested before it (`Quiet`); `Underway` is what remains of `NothingLost` when these
are put together.  For `InitializedOnce`, `Owned` says that whoever is between the lock
and the unlock of `DeviceInitializeMutex` owns it, and `Counted` ties the number of
calls of `DeviceInitialize` to `DeviceInitialized` and to that thread.  `TeardownQuiet`
needs that nobody is at the controller any more once it is being deleted (`Left`): then
no flag goes up, and a thread that is at ease finds none.

**ClientSync** (`ClientSyncProofs`): `CopiesSafe` (`NoDangling`) and `NothingLeftBehind`
(`StoppedClean`), for `Races` true and false.  That the copies shown are the first of
those owned (`Shown`) holds through every race but an overlap: of listeners, or of a
rebuild of the client's own list with the additions to it.  The rest
is promised for `raced = {}`, and then the threads of the client take turns: at most
one request or answer is on its way (`Talk`); whose turn it is follows from the flags
they wait on (`Number` for the count, `Progress` for the controllers); a lost
connection is torn down (`Lost`) before the next one is opened (`Offline`,
`Connections`), and `Stop` says what `StopClient` has done by when.

**ServerClients** (`ServerClientsProofs`): `TypeCorrect`, `RecordsAreSound`
(`RecordsSound`), `OnlineServed` (`OnlineIsServed`), `ListeningEnded`
(`ListeningEnds`), `EveryoneTold` (`ToldUnlessShifted`).  `RecordsSound` is the visible
part of an ownership discipline: a record belongs to the connection thread that
prepares it (`Preparing`) until it is in the list, then to its listener (`Owned`), and
what the list and the set of live records disagree on is being deleted by the one
thread that holds `ServerClientsMutex` (`OneHolder`, `Listing`).  `OnlineIsServed` and
`ListeningEnds` are inductive, given the types; `ToldUnlessShifted` needs that the index
of the broadcast stays inside a list that only grew (`Inside`).

**WebSocketServer** (`WebSocketProofs`): `MapOwnsRecords` (`RecordsOwned`),
`RescansDoNotOverlap` (`OneWorker`), `StopsClean` (`StoppedClean`).  `RecordsOwned` is
inductive as it stands.  `OneWorker` is not: nothing in it keeps a second worker from
being started.  `Marked` says that the flag is set while a worker has work left,
`Current` that this is the worker of `rescan_future`, or its successor while
`rescan_mutex` is held for the assignment (`Assigns`).  `StoppedClean` rests on who
holds `server_state_mutex` (`Holds`), on what that thread has done so far
(`Progress`), and on an endpoint that was stopped never being used again
(`OnlineOnce`).

**Zones** (`ZonesProofs`): `ZonesDivided` (`Divided`), `SpillsBounded`
(`StaysInPart`), `SentIsShown` (`ShowsSent`), `OthersKept` (`ForceKeepsOthers`),
`RejectsKeepColors` (`RejectedKeepsColors`), for any number of zones, sizes, flags and
colors and each kind of driver.  The loops of the code over the zones (the sums of
`SetupColors`, the resizing, the writing) are recursive functions in `Zones`; `Iteration`
proves that such a function exists, `ZoneInduction` what it computes.  Parts lie behind
one another (`Totals`), so no place belongs to two zones (`Disjoint`) and none lies behind
the vector (`Inside`); that is what makes a write to one zone leave the others alone
(`WriteAll`) and a forced resize put the colors of the zones that it moves back
(`ForceStep`).  Of the drivers it is used that one sets up all zones and never fails
within their limits (`SetupDriver`), and that the others change sizes and nothing else
(`SizesDrivers`), so that any sequence of resizes does one or the other (`ResizeAll`).
The invariant adds to the properties that no zone becomes one for effects, that only a
driver that counts leaves a zone larger than its part (`Sized`), and that what a zone
holds, as distinct from what a read of it returns, is what it was sent (`Shows`).

**Profiles** (`ProfilesProofs`): `TypeCorrect` (`TypeOK`), `SavedSizesComeBack`
(`SizesComeBack`), `SavedProfileComesBack` (`ProfileComesBack`), for any number of
devices, whatever identities they share.  Saved entries are matched by identity, and
devices of one identity only by who comes first; that this gives each its own entry
is a matter of order.  The devices that are registered come before all that are still
to be found, and the list is in the order of the detectors (`Ordered`).  A list that
was saved at rest is in that order too (`SizesAre`, `EntriesAre`), and stays what the
file holds through an interrupted write and a restart (`FilesDescribed`).  If it is of
the devices of this detection, the flags of used entries are those of the devices
registered so far (`UsedAreListed`), no more and no fewer: so every entry before a
device's own is taken, and its own is the first that matches (`OwnEntry`).  Loading a
profile is the same argument over the controllers, by induction on the loop
(`TakenAreOwn`), twice for JSON-RPC, whose first pass moves no device.  A flag that
stays from the last detection, an entry that is matched twice or a file in another
order breaks it at that place, and these are the mutants.  `SettingsKept`, which the run
`reconnected` refutes, holds in part: `RescanKeepsColors` says of a rescan that finds
the same devices that it takes every color from the same device's old controller
(`MatchedAreListed`), exactly if the zone had the driver's default size then and has it
again once the saved size is loaded; else the LEDs are black.  No run checks this one by
itself.

**What the proofs share.**  The library's theorems about induction and recursion take
operators as parameters, which the provers cannot instantiate.  So each module that
reasons about a loop has it from `LeastElement` (a set of numbers has a least element,
from the library's well-founded orders): `ZoneInduction`, `UpTo`, and with them that
the recursive function that models the loop exists (`Iteration`, `RemovesEach`,
`TakenRecursion`).  `DeviceListProofs` has what inserting, erasing and appending do to a
list, `ClientSyncProofs` what prefixes and the loop that erases copies do.

**Model-checked only.**  The liveness properties (`InitFinishes`, `RequestAnswered`,
`Converges`, `DestructorReturns`, `StopReturns`, `GoesOffline`): fairness and `ENABLED`
are beyond the prover.  Of the invariants and action properties that a run shows to hold
two are not theorems, `GoneIsGone` and `LostSlots` of `DeviceList`: the one would need
how an insertion under way and the removal's own rebuild meet, the other the order of
the whole list beside its contents.

## 7. Not modelled

Most of the repository is not the program's own logic.  About 1500 files below
`Controllers/` speak the protocol of one device each, `dependencies/` holds
vendored libraries, `PawnIO` is a kernel driver; together they are more than nine
tenths of the lines.  To the models a detector, a device and a library call are
one step each.  The map therefore covers a small part of the repository's lines
and a large one of the files that decide who may touch what and when.

Of the rest: binary descriptions of controllers (including the check of the index of
a single LED), segments, the packets of the SDK that do not touch
what is modelled, the syntax checks of JSON-RPC, update callbacks of RGBController
(they are registered and called without a common lock, which C++ leaves undefined:
there is nothing that could hold), settings, log files, plugins, GUI, command line,
start-up code of the operating systems, keyboard layouts, the endpoint file as
other processes see it, and the destructor of WebSocketServer, which a detached
shutdown thread may outlive.  In `Detection`: pre-detection hooks,
forwarding a rescan to a remote server, the state of the HID library, the
destructor (the one instance is never deleted).  In `DeviceCall`:
`SetDeviceInitializer`, which only constructors call, and
`ResetDeviceInitialization`, which nothing calls.  In `ClientSync`: the version
exchange and the client's name, which the list does not depend on, info
callbacks, and the merging of a second description into an existing copy
beyond that it stays one copy.

In `Profiles`: modes, segments, controllers of remote servers in
a profile, and a change of the configuration directory, after which
`detection_size_entry_used` keeps its old length until the next scan.

## 8. Plan

Done: `Detection`, `ControllerList`, `DeviceList`, `DeviceCall`, `ClientSync`,
`ServerClients`, `WebSocketServer` with the JSON-RPC rescan worker, `Zones`, `Profiles`,
and proofs of every invariant and action property of theirs that a run shows to hold.

To model next: the rotation of log files and the suppression of messages over a
scan, settings, binary descriptions of zones with segments.
