------------------------------ MODULE Detection ------------------------------
(***************************************************************************)
(* The detection life cycle of ResourceManager: the background thread that *)
(* runs scheduled coroutines, the threads that ask for a rescan, and the   *)
(* SDK handler threads that reach controllers through the device lists.    *)
(*                                                                         *)
(* BackgroundThreadStateMutex is held by the background thread from the    *)
(* moment it returns from the condition variable until it waits again, so  *)
(* it is free exactly in StateMutexFree.  DetectDeviceMutex is `detecting',*)
(* DeviceListChangeMutex is `listLock'.                                    *)
(*                                                                         *)
(* A controller object is a pair <<device, run>>: every detection run      *)
(* creates new objects, at most one for each device that is plugged in.    *)
(***************************************************************************)
EXTENDS Naturals, Sequences, FiniteSets

CONSTANTS
    Devices,            \* the physical devices that may be plugged in
    Requesters,         \* threads that call ResourceManager::RescanDevices
    Readers,            \* SDK handler threads that use controllers
    LockedReaders,      \* those that hold DeviceListChangeMutex (JSON-RPC)
    Values,             \* runtime state of a controller: mode, and colors if their number is the same
    DefaultValue,       \* what a freshly opened controller has
    BG, NoThread,       \* the background thread; nobody
    DetectChoices,      \* Initialize(detectDevices): a set of booleans
    AutoConnect,        \* Initialize(tryConnect) may find a local server
    AllControllers,     \* Server/all_controllers: serve rgb_controllers
    RequestsDuringInit, \* requests may arrive before init_finished
    HotplugWhen,        \* the steps of BG during which devices may come and go
    StopAllowed,        \* StopDeviceDetection may be called
    DetectorsThrow,     \* a detector may throw an exception
    MaxRequests         \* bound on rescan requests

ASSUME ThreadAssumption ==
    /\ BG # NoThread
    /\ BG \notin Requesters \cup Readers
    /\ NoThread \notin Requesters \cup Readers
    /\ Requesters \cap Readers = {}
    /\ LockedReaders \subseteq Readers

ASSUME ValueAssumption == DefaultValue \in Values

ASSUME FlagAssumption ==
    /\ DetectChoices \subseteq BOOLEAN
    /\ AutoConnect \in BOOLEAN /\ AllControllers \in BOOLEAN
    /\ RequestsDuringInit \in BOOLEAN
    /\ StopAllowed \in BOOLEAN
    /\ DetectorsThrow \in BOOLEAN
    /\ MaxRequests \in Nat

VARIABLES
    pc,        \* where each requester and the background thread is
    sched,     \* ScheduledBackgroundFunction
    enabled,   \* detection_enabled
    required,  \* detection_is_required
    detecting, \* DetectDeviceMutex is held (by the background thread)
    listLock,  \* owner of DeviceListChangeMutex
    hw,        \* rgb_controllers_hw
    listed,    \* rgb_controllers
    pending,   \* rgb_controllers_hw_cleanup_pending
    matched,   \* rgb_controllers_hw_matched
    prevSize,  \* detection_prev_size
    sized,     \* controllers whose saved zone sizes were loaded
    run,       \* number of detection runs started
    todo,      \* detectors the current run has not executed yet
    found,     \* the device whose detector is registering a controller
    changed,   \* devices_changed of the last run
    present,   \* devices plugged in
    val,       \* mode and colors of every controller object created so far
    busDead,   \* the I2C busses of the runs up to this one were deleted
    freed,     \* controller objects deleted
    serversUp, \* the SDK servers accept requests
    initDone,  \* init_finished
    requests,  \* rescan requests so far
    owed,      \* requesters not yet answered by a scanComplete event
    rd, rdIdx, rdCtl  \* each reader: its phase, index and controller

bgVars  == <<sched, enabled, required, detecting>>
lists   == <<hw, listed, pending, matched, prevSize, sized>>
scan    == <<run, todo, found, changed>>
env     == <<present, serversUp, initDone, requests, owed>>
objects == <<val, busDead, freed>>
rdVars  == <<rd, rdIdx, rdCtl>>
vars == <<pc, bgVars, listLock, lists, scan, env, objects, rdVars>>

Threads     == Requesters \cup {BG}
Controllers == Devices \X Nat
Device(c)   == c[1]
Elems(s)    == {s[i] : i \in DOMAIN s}

PreLabels  == {"check", "wait", "save", "clear", "schedExit", "update", "require"}
PostLabels == {"postFlag", "postReap", "postScan"}
ReqLabels  == PreLabels \cup PostLabels \cup
              {"idle", "notifyExit", "schedDetect", "notifyDetect"}
RunLabels  == {"loop", "register", "sizes", "show", "publish"}
BgLabels   == PreLabels \cup PostLabels \cup RunLabels \cup
              {"start", "waiting", "woken", "hidExit", "init", "servers", "detect"}

Goto(t, label)  == pc' = [pc EXCEPT ![t] = label]
StateMutexFree  == pc[BG] \in {"start", "waiting", "woken"}
Served          == IF AllControllers THEN listed ELSE hw

Init ==
    /\ pc = [t \in Threads |-> IF t = BG THEN "start" ELSE "idle"]
    /\ sched = "init"                \* main: Initialize(...)
    /\ enabled \in DetectChoices
    /\ required = FALSE /\ detecting = FALSE
    /\ listLock = NoThread
    /\ hw = <<>> /\ listed = <<>> /\ pending = <<>>
    /\ matched = {} /\ prevSize = 0 /\ sized = {}
    /\ run = 0 /\ todo = {} /\ found = {} /\ changed = FALSE
    /\ present \in (IF HotplugWhen = {} THEN {Devices} ELSE SUBSET Devices)
    /\ val = <<>>
    /\ busDead = 0 /\ freed = {}
    /\ serversUp = FALSE /\ initDone = FALSE
    /\ requests = 0 /\ owed = {}
    /\ rd = [u \in Readers |-> "idle"]
    /\ rdIdx = [u \in Readers |-> 0]
    /\ rdCtl = [u \in Readers |-> {}]

-----------------------------------------------------------------------------
(***************************************************************************)
(* Faults: wrong variants of definitions below, each a bug that is easy to *)
(* write into the code.  No specification uses them; each is put in the    *)
(* place of its original to see that a property notices.                   *)
(***************************************************************************)

\* Cleanup forgets rgb_controllers_hw.clear().
ClearMatchedOnly(t) ==
    /\ pc[t] = "clear"
    /\ matched' = {}
    /\ prevSize' = 0
    /\ busDead' = run
    /\ Goto(t, IF t = BG THEN "update" ELSE "schedExit")
    /\ UNCHANGED <<bgVars, listLock, hw, listed, pending, sized, scan, env,
                   val, freed, rdVars>>

\* UpdateDeviceList without DeviceListChangeMutex.
RebuildUnlocked(label, t) ==
    /\ pc[t] = label
    /\ listed' = hw

\* RunInBackgroundThread forgets notify_one.
NotifyNobody(t) ==
    /\ pc[t] \in {"notifyExit", "notifyDetect"}
    /\ Goto(t, IF pc[t] = "notifyExit" THEN "update" ELSE "idle")
    /\ UNCHANGED <<bgVars, listLock, lists, scan, env, objects, rdVars>>

\* ProcessPostDetection forgets detection_is_required = false.
FlagKept(t) ==
    /\ pc[t] = "postFlag"
    /\ Goto(t, "postReap")
    /\ UNCHANGED <<bgVars, listLock, lists, scan, env, objects, rdVars>>

\* ProcessPostDetection deletes without looking at rgb_controllers, or drops
\* the pending list without deleting, or forgets the matched list.
ReapAll  == Elems(pending)
ReapNone == {}
ReapKeepsMatched(t) ==
    /\ pc[t] = "postReap"
    /\ freed' = freed \cup (Elems(pending) \ Elems(listed))
    /\ pending' = <<>>
    /\ Goto(t, "postScan")
    /\ UNCHANGED <<bgVars, listLock, hw, listed, matched, prevSize, sized, scan,
                   env, val, busDead, rdVars>>

\* InitCoroutine skips ProcessPostDetection when detection is disabled.
ServersOnly ==
    /\ pc[BG] = "servers"
    /\ serversUp' = TRUE
    /\ Goto(BG, IF enabled THEN "check" ELSE "waiting")
    /\ UNCHANGED <<bgVars, listLock, lists, scan, present, initDone,
                   requests, owed, objects, rdVars>>

\* DetectDevicesCoroutine goes on where the last run ended.
DetectGoesOn ==
    /\ pc[BG] = "detect"
    /\ detecting' = TRUE
    /\ run' = run + 1
    /\ Goto(BG, "loop")
    /\ UNCHANGED <<sched, enabled, required, listLock, lists, todo, found,
                   changed,
                   env, objects, rdVars>>

\* Sizes are loaded from the second new controller on; devices_changed looks
\* at the number of devices only.
AddedButFirst   == {hw[i] : i \in (prevSize + 2)..Len(hw)}
CountChanged    == Len(hw) # Len(pending)

-----------------------------------------------------------------------------
(***************************************************************************)
(* ProcessPreDetection and DetectDevices, on the thread t that calls them. *)
(***************************************************************************)

\* A thread calls RescanDevices: the GUI, a network listener thread or the
\* worker of the JSON-RPC handler.
RequestRescan(t) ==
    /\ pc[t] = "idle"
    /\ serversUp
    /\ initDone \/ RequestsDuringInit
    /\ requests < MaxRequests
    /\ requests' = requests + 1
    /\ owed' = owed \cup {t}
    /\ Goto(t, "check")
    /\ UNCHANGED <<bgVars, listLock, lists, scan, present, serversUp,
                   initDone, objects, rdVars>>

\* What ProcessPreDetection returns when it does nothing: DetectDevices goes
\* on to ProcessPostDetection if detection is disabled, InitCoroutine ends.
AfterRefusal(t) ==
    IF ~enabled THEN "postFlag" ELSE IF t = BG THEN "waiting" ELSE "idle"

\* The test of detection_enabled and of detection_is_required.
CheckRequired(t) ==
    /\ pc[t] = "check"
    /\ Goto(t, IF enabled /\ ~required THEN "wait" ELSE AfterRefusal(t))
    /\ initDone' = (initDone \/ (t = BG /\ enabled /\ required))
    /\ UNCHANGED <<bgVars, listLock, lists, scan, present, serversUp, requests,
                   owed, objects, rdVars>>

\* Cleanup: WaitForDeviceDetection locks and unlocks DetectDeviceMutex.
WaitForDetection(t) ==
    /\ pc[t] = "wait"
    /\ ~detecting
    /\ Goto(t, "save")
    /\ UNCHANGED <<bgVars, listLock, lists, scan, env, objects, rdVars>>

\* Cleanup: the old controllers become pending, unless some still are.
SavePending(t) ==
    /\ pc[t] = "save"
    /\ pending' = IF pending = <<>> THEN hw ELSE pending
    /\ Goto(t, "clear")
    /\ UNCHANGED <<bgVars, listLock, hw, listed, matched, prevSize, sized, scan,
                   env, objects, rdVars>>

\* Cleanup: the matched and the hardware list are cleared, and the I2C busses
\* deleted that the controllers so far talk through.  The background thread
\* itself then shuts the HID library down at once; the library's own state is
\* left out, it comes up again when it is used.
ClearHardware(t) ==
    /\ pc[t] = "clear"
    /\ matched' = {}
    /\ hw' = <<>>
    /\ prevSize' = 0
    /\ busDead' = run
    /\ Goto(t, IF t = BG THEN "update" ELSE "schedExit")
    /\ UNCHANGED <<bgVars, listLock, listed, pending, sized, scan, env,
                   val, freed, rdVars>>

\* RunInBackgroundThread(HidExitCoroutine) from another thread: it blocks
\* until the background thread sleeps and overwrites what is scheduled.
ScheduleHidExit(t) ==
    /\ pc[t] = "schedExit"
    /\ t # BG /\ StateMutexFree
    /\ sched' = "hidExit"
    /\ Goto(t, "notifyExit")
    /\ UNCHANGED <<enabled, required, detecting, listLock, lists, scan, env,
                   objects, rdVars>>

\* BackgroundFunctionStartTrigger.notify_one, after BackgroundThreadStateMutex
\* was unlocked: only a thread that waits is woken.
Notify(t) ==
    /\ pc[t] \in {"notifyExit", "notifyDetect"}
    /\ LET next == IF pc[t] = "notifyExit" THEN "update" ELSE "idle"
       IN  pc' = [pc EXCEPT ![t] = next,
                            ![BG] = IF @ = "waiting" THEN "woken" ELSE @]
    /\ UNCHANGED <<bgVars, listLock, lists, scan, env, objects, rdVars>>

\* UpdateDeviceList under DeviceListChangeMutex: afterwards rgb_controllers
\* is rgb_controllers_hw (module DeviceList shows it step by step).
Rebuild(label, t) ==
    /\ pc[t] = label
    /\ listLock = NoThread
    /\ listed' = hw

\* ProcessPreDetection: UpdateDeviceList.
UpdateList(t) ==
    /\ Rebuild("update", t)
    /\ Goto(t, "require")
    /\ UNCHANGED <<bgVars, listLock, hw, pending, matched, prevSize, sized,
                   scan,
                   env, objects, rdVars>>

\* ProcessPreDetection: hid_init, then detection_is_required = true.
\* InitCoroutine goes on with DetectDevicesCoroutine, DetectDevices schedules it.
SetRequired(t) ==
    /\ pc[t] = "require"
    /\ required' = TRUE
    /\ Goto(t, IF t = BG THEN "detect" ELSE "schedDetect")
    /\ UNCHANGED <<sched, enabled, detecting, listLock, lists, scan, env,
                   objects, rdVars>>

\* RunInBackgroundThread(DetectDevicesCoroutine), up to the unlock.
ScheduleDetect(t) ==
    /\ pc[t] = "schedDetect"
    /\ StateMutexFree
    /\ sched' = "detect"
    /\ Goto(t, "notifyDetect")
    /\ UNCHANGED <<enabled, required, detecting, listLock, lists, scan, env,
                   objects, rdVars>>

PreDetection(t) ==
    \/ CheckRequired(t) \/ WaitForDetection(t) \/ SavePending(t)
    \/ ClearHardware(t) \/ UpdateList(t) \/ SetRequired(t)

-----------------------------------------------------------------------------
(***************************************************************************)
(* ProcessPostDetection, on the thread t that calls it.                    *)
(***************************************************************************)

\* Progress 100, detection end callbacks, detection_is_required = false.
PostFlag(t) ==
    /\ pc[t] = "postFlag"
    /\ required' = FALSE
    /\ Goto(t, "postReap")
    /\ UNCHANGED <<sched, enabled, detecting, listLock, lists, scan, env,
                   objects, rdVars>>

\* The pending controllers that are not in rgb_controllers.
Reapable == Elems(pending) \ Elems(listed)

\* Delete them.
PostReap(t) ==
    /\ pc[t] = "postReap"
    /\ freed' = freed \cup Reapable
    /\ pending' = <<>>
    /\ matched' = {}
    /\ Goto(t, "postScan")
    /\ UNCHANGED <<bgVars, listLock, hw, listed, prevSize, sized, scan, env,
                   val, busDead, rdVars>>

\* rgb_controllers is read for it one by one and without its mutex.  While
\* thread r rebuilds it, the loop may see or miss what the rebuild takes out;
\* what stays is not moved, because rgb_controllers_hw only grows at its end
\* or is cleared.  The two are one step here, when both are over.
PostReapAmid(t, r) ==
    /\ pc[t] = "postReap" /\ r # t
    /\ Rebuild("update", r)
    /\ \E seen \in SUBSET Elems(listed) :
          /\ Elems(listed) \cap Elems(hw) \subseteq seen
          /\ freed' = freed \cup (Elems(pending) \ seen)
    /\ pending' = <<>>
    /\ matched' = {}
    /\ pc' = [pc EXCEPT ![t] = "postScan", ![r] = "require"]
    /\ UNCHANGED <<bgVars, listLock, hw, prevSize, sized, scan, env,
                   val, busDead, rdVars>>

\* Broadcast scanComplete with what rgb_controllers holds, read under
\* DeviceListChangeMutex; the caller then returns (the background thread
\* unlocks DetectDeviceMutex and goes back to its condition variable).
PostScan(t) ==
    /\ pc[t] = "postScan"
    /\ listLock = NoThread
    /\ owed' = {}
    /\ IF t = BG
       THEN initDone' = TRUE /\ detecting' = FALSE /\ Goto(t, "waiting")
       ELSE Goto(t, "idle") /\ UNCHANGED <<initDone, detecting>>
    /\ UNCHANGED <<sched, enabled, required, listLock, lists, scan, present,
                   serversUp, requests, objects, rdVars>>

PostDetection(t) ==
    \/ PostFlag(t) \/ PostReap(t) \/ PostScan(t)
    \/ \E r \in Requesters : PostReapAmid(t, r)

-----------------------------------------------------------------------------
(***************************************************************************)
(* The background thread.                                                  *)
(***************************************************************************)

\* It holds the mutex, and runs what is scheduled or waits.
BgDispatch ==
    /\ pc[BG] \in {"start", "woken"}
    /\ Goto(BG, IF sched = "none" THEN "waiting" ELSE sched)
    /\ sched' = "none"
    /\ UNCHANGED <<enabled, required, detecting, listLock, lists, scan, env,
                   objects, rdVars>>

\* The condition variable may wake up without a notification.
BgSpuriousWakeup ==
    /\ pc[BG] = "waiting"
    /\ Goto(BG, "woken")
    /\ UNCHANGED <<bgVars, listLock, lists, scan, env, objects, rdVars>>

\* HidExitCoroutine.
BgHidExit ==
    /\ pc[BG] = "hidExit"
    /\ Goto(BG, "waiting")
    /\ UNCHANGED <<bgVars, listLock, lists, scan, env, objects, rdVars>>

\* InitCoroutine: a local server may be found, then detection is disabled.
BgInit ==
    /\ pc[BG] = "init"
    /\ enabled' \in (IF AutoConnect THEN {enabled, FALSE} ELSE {enabled})
    /\ Goto(BG, "servers")
    /\ UNCHANGED <<sched, required, detecting, listLock, lists, scan, env,
                   objects, rdVars>>

\* InitCoroutine: start the SDK servers, then detect or finish.
BgStartServers ==
    /\ pc[BG] = "servers"
    /\ serversUp' = TRUE
    /\ Goto(BG, IF enabled THEN "check" ELSE "postFlag")
    /\ UNCHANGED <<bgVars, listLock, lists, scan, present, initDone,
                   requests, owed, objects, rdVars>>

\* DetectDevicesCoroutine: lock DetectDeviceMutex and start over.
BgDetect ==
    /\ pc[BG] = "detect"
    /\ detecting' = TRUE
    /\ run' = run + 1
    /\ todo' = Devices
    /\ Goto(BG, "loop")
    /\ UNCHANGED <<sched, enabled, required, listLock, lists, found, changed,
                   env, objects, rdVars>>

\* One detector, for as long as detection_is_required.  Detectors run in the
\* order their static registrations happened to execute.
BgDetector(d) ==
    /\ pc[BG] = "loop"
    /\ required
    /\ d \in todo
    /\ todo' = todo \ {d}
    /\ found' = IF d \in present THEN {d} ELSE {}
    /\ Goto(BG, IF d \in present THEN "register" ELSE "loop")
    /\ UNCHANGED <<bgVars, listLock, lists, run, changed, env, objects,
                   rdVars>>

\* The positions of the pending controllers of device d that are not matched.
Unmatched(d) ==
    {i \in DOMAIN pending : Device(pending[i]) = d /\ pending[i] \notin matched}

\* RegisterRGBController: append a controller of device d with state v.
Register(d, v) ==
    /\ pc[BG] = "register"
    /\ d \in found
    /\ hw' = Append(hw, <<d, run>>)
    /\ val' = [c \in DOMAIN val \cup {<<d, run>>} |-> IF c = <<d, run>> THEN v ELSE val[c]]
    /\ Goto(BG, "sizes")
    /\ UNCHANGED <<bgVars, listLock, listed, pending, prevSize, sized, scan,
                   env, busDead, freed, rdVars>>

\* No pending controller matches: the device keeps its own state.
BgRegisterNew(d) ==
    /\ Register(d, DefaultValue)
    /\ Unmatched(d) = {}
    /\ UNCHANGED matched

\* The first pending controller that matches hands over its mode and colors
\* (colors only to a controller with as many of them: module Profiles).
BgRegisterKnown(d) ==
    \E i \in Unmatched(d) :
        /\ \A j \in Unmatched(d) : i <= j
        /\ Register(d, val[pending[i]])
        /\ matched' = matched \cup {pending[i]}

\* The controllers added since the last call of RegisterRGBController.
NewlyAdded == {hw[i] : i \in (prevSize + 1)..Len(hw)}

\* RegisterRGBController: load the saved zone sizes of the controllers added
\* since the last time, if there are any.  They are in rgb_controllers_hw
\* already, which the servers read.
BgLoadSizes ==
    /\ pc[BG] = "sizes"
    /\ sized' = sized \cup NewlyAdded
    /\ Goto(BG, IF Len(hw) # prevSize THEN "show" ELSE "publish")
    /\ UNCHANGED <<bgVars, listLock, hw, listed, pending, matched, prevSize, scan,
                   env, objects, rdVars>>

\* RegisterRGBController: then call UpdateDeviceList and note the new size.
BgShow ==
    /\ Rebuild("show", BG)
    /\ prevSize' = Len(hw)
    /\ Goto(BG, "publish")
    /\ UNCHANGED <<bgVars, listLock, hw, pending, matched, sized, scan, env, objects,
                   rdVars>>

\* RegisterRGBController: call UpdateDeviceList again.
BgPublish ==
    /\ Rebuild("publish", BG)
    /\ found' = {}
    /\ Goto(BG, "loop")
    /\ UNCHANGED <<bgVars, listLock, hw, pending, matched, prevSize, sized, run,
                   todo,
                   changed, env, objects, rdVars>>

\* devices_changed: another number of devices, or not all of them matched.
DevicesChanged == Len(hw) # Len(pending) \/ Cardinality(matched) # Len(hw)

\* All detectors have run or detection was stopped.
BgLoopEnd ==
    /\ pc[BG] = "loop"
    /\ todo = {} \/ ~required
    /\ todo' = {} /\ found' = {}
    /\ changed' = DevicesChanged
    /\ Goto(BG, "postFlag")
    /\ UNCHANGED <<bgVars, listLock, lists, run, env, objects, rdVars>>

\* A detector throws: BackgroundThreadFunction catches the exception, and the
\* rest of DetectDevicesCoroutine and of InitCoroutine does not happen.
BgThrow ==
    /\ DetectorsThrow
    /\ pc[BG] = "loop" /\ required /\ todo # {}
    /\ found' = {}
    /\ Goto(BG, "waiting")
    /\ UNCHANGED <<bgVars, listLock, lists, run, todo, changed, env, objects,
                   rdVars>>

BgRun ==
    \/ BgDispatch \/ BgHidExit \/ BgInit \/ BgStartServers
    \/ PreDetection(BG)
    \/ BgDetect \/ BgLoadSizes \/ BgShow \/ BgPublish
    \/ \E d \in Devices : BgDetector(d) \/ BgRegisterNew(d) \/ BgRegisterKnown(d)
    \/ BgLoopEnd \/ PostDetection(BG)

RequesterStep(t) ==
    \/ PreDetection(t) \/ ScheduleHidExit(t) \/ Notify(t) \/ ScheduleDetect(t)
    \/ PostDetection(t)

-----------------------------------------------------------------------------
(***************************************************************************)
(* SDK handler threads.  JSON-RPC handlers hold DeviceListChangeMutex over *)
(* the three steps, NetworkServer handlers hold nothing.                   *)
(***************************************************************************)

\* The range check on the device index.
ReaderCheck(u, i) ==
    /\ rd[u] = "idle"
    /\ serversUp
    /\ i \in DOMAIN Served
    /\ IF u \in LockedReaders
       THEN listLock = NoThread /\ listLock' = u
       ELSE UNCHANGED listLock
    /\ rd' = [rd EXCEPT ![u] = "checked"]
    /\ rdIdx' = [rdIdx EXCEPT ![u] = i]
    /\ UNCHANGED <<pc, bgVars, lists, scan, env, objects, rdCtl>>

\* controllers[device_idx]: past the end if the vector shrank meanwhile.
ReaderFetch(u) ==
    /\ rd[u] = "checked"
    /\ rd' = [rd EXCEPT ![u] = IF rdIdx[u] \in DOMAIN Served THEN "using" ELSE "outside"]
    /\ rdCtl' = [rdCtl EXCEPT ![u] = IF rdIdx[u] \in DOMAIN Served
                                     THEN {Served[rdIdx[u]]} ELSE {}]
    /\ UNCHANGED <<pc, bgVars, listLock, lists, scan, env, objects, rdIdx>>

\* Set the mode or the colors and return.
ReaderUse(u, v) ==
    /\ rd[u] \in {"using", "outside"}
    /\ val' = [c \in DOMAIN val |-> IF c \in rdCtl[u] THEN v ELSE val[c]]
    /\ rd' = [rd EXCEPT ![u] = "idle"]
    /\ rdIdx' = [rdIdx EXCEPT ![u] = 0]
    /\ rdCtl' = [rdCtl EXCEPT ![u] = {}]
    /\ listLock' = IF listLock = u THEN NoThread ELSE listLock
    /\ UNCHANGED <<pc, bgVars, lists, scan, env, busDead, freed>>

ReaderStep(u) == ReaderFetch(u) \/ (\E v \in Values : ReaderUse(u, v))

-----------------------------------------------------------------------------
(***************************************************************************)
(* The environment.                                                        *)
(***************************************************************************)

\* StopDeviceDetection: the GUI's stop button, service stop, shutdown.
StopDeviceDetection ==
    /\ StopAllowed
    /\ required
    /\ required' = FALSE
    /\ UNCHANGED <<pc, sched, enabled, detecting, listLock, lists, scan, env,
                   objects, rdVars>>

PlugOrUnplug ==
    /\ pc[BG] \in HotplugWhen
    /\ \E d \in Devices :
         present' = IF d \in present THEN present \ {d} ELSE present \cup {d}
    /\ UNCHANGED <<pc, bgVars, listLock, lists, scan, serversUp, initDone,
                   requests, owed, objects, rdVars>>

Next ==
    \/ BgRun \/ BgSpuriousWakeup \/ BgThrow
    \/ \E t \in Requesters : RequestRescan(t) \/ RequesterStep(t)
    \/ \E u \in Readers : ReaderStep(u) \/ (\E i \in DOMAIN Served : ReaderCheck(u, i))
    \/ StopDeviceDetection \/ PlugOrUnplug

Spec == Init /\ [][Next]_vars

\* The steps that take DeviceListChangeMutex.
LocksList(t) == UpdateList(t) \/ PostScan(t) \/ (t = BG /\ (BgShow \/ BgPublish))

\* Threads that can run do run; requests, stops, hot-plug and spurious
\* wake-ups are never obliged to happen.  A thread blocked on
\* DeviceListChangeMutex gets it although handlers keep taking it in between:
\* each handler releases it after one request.
Fairness ==
    /\ WF_vars(BgRun)
    /\ \A t \in Requesters : WF_vars(RequesterStep(t))
    /\ \A u \in Readers : WF_vars(ReaderStep(u))
    /\ \A t \in Threads : SF_vars(LocksList(t))

FairSpec == Spec /\ Fairness

-----------------------------------------------------------------------------
(***************************************************************************)
(* Properties.                                                             *)
(***************************************************************************)

FlagsOK ==
    /\ enabled \in BOOLEAN /\ required \in BOOLEAN /\ detecting \in BOOLEAN
    /\ changed \in BOOLEAN
    /\ serversUp \in BOOLEAN /\ initDone \in BOOLEAN

ControlOK ==
    /\ pc \in [Threads -> ReqLabels \cup BgLabels]
    /\ \A t \in Requesters : pc[t] \in ReqLabels
    /\ pc[BG] \in BgLabels
    /\ sched \in {"none", "init", "hidExit", "detect"}
    /\ listLock \in LockedReaders \cup {NoThread}
    /\ requests \in Nat /\ owed \subseteq Requesters

ObjectsOK ==
    /\ hw \in Seq(Controllers) /\ listed \in Seq(Controllers)
    /\ pending \in Seq(Controllers)
    /\ matched \subseteq Controllers /\ sized \subseteq Controllers
    /\ prevSize \in Nat /\ run \in Nat
    /\ todo \subseteq Devices /\ found \subseteq Devices
    /\ present \subseteq Devices
    /\ DOMAIN val \subseteq Controllers
    /\ \A c \in DOMAIN val : val[c] \in Values
    /\ busDead \in Nat /\ freed \subseteq Controllers

HandlersOK ==
    /\ rd \in [Readers -> {"idle", "checked", "using", "outside"}]
    /\ rdIdx \in [Readers -> Nat]
    /\ rdCtl \in [Readers -> SUBSET Controllers]

\* Every variable has its type.
TypeOK == FlagsOK /\ ControlOK /\ ObjectsOK /\ HandlersOK

\* ProcessPostDetection deletes old controllers while other threads rebuild
\* the lists it reads for that: whatever the interleaving of rescans, stops and
\* detection, no list holds a deleted controller, except that of a rebuild
\* in progress, which takes it out.
FreedUnreachable ==
    /\ Elems(hw) \cap freed = {}
    /\ Elems(listed) \cap freed = {}

\* RunInBackgroundThread notifies after it unlocked the mutex, and it may
\* overwrite what another thread scheduled: still the background thread never
\* sleeps on a scheduled coroutine that no thread is about to announce.
NoLostWakeup ==
    sched # "none" =>
        \/ pc[BG] # "waiting"
        \/ \E t \in Requesters : pc[t] \in {"notifyExit", "notifyDetect"}

\* When nothing runs and nothing is scheduled, the list the GUI shows is the
\* hardware list, and no old controller is left pending.
Settled ==
    (/\ pc[BG] = "waiting" /\ sched = "none" /\ initDone
     /\ \A t \in Requesters : pc[t] = "idle")
    => listed = hw /\ pending = <<>> /\ matched = {}

\* A device is shown once, however often it was detected.
OneControllerPerDevice ==
    \A s \in {hw, listed} : \A i, j \in DOMAIN s :
        Device(s[i]) = Device(s[j]) => i = j

\* Every controller object is in a list, waiting to be deleted, or deleted.
NothingLeaked ==
    DOMAIN val \subseteq Elems(hw) \cup Elems(listed) \cup Elems(pending) \cup freed

\* A device that the previous detection had found, too, gets the mode and the
\* colors that its old controller has when the new one is registered (what a
\* different number of colors does to them is in Profiles).
SettingsRestored ==
    [][\A c \in DOMAIN val' \ DOMAIN val :
         \A old \in DOMAIN val :
            Device(old) = Device(c) /\ old[2] + 1 = c[2] => val'[c] = val[old]]_vars

\* A detection that nobody stopped finds every device that is plugged in.
ScanFindsDevices ==
    pc[BG] = "postFlag" /\ enabled /\ required => {Device(c) : c \in Elems(hw)} = present

\* devices_changed, which decides whether the buffered log of the scan is
\* thrown away, is false exactly if the scan found the same devices again.
ChangeVerdict ==
    pc[BG] = "postFlag" /\ enabled =>
        (changed <=> {Device(c) : c \in Elems(hw)} # {Device(c) : c \in Elems(pending)})

\* "First, load sizes for the new controllers": rgb_controllers, which the GUI
\* shows, has only controllers whose saved zone sizes were loaded.  In
\* rgb_controllers_hw, which the servers read unless all_controllers is set, the
\* last one may lack its sizes, between push_back and the loading.
SizesLoadedWhenListed ==
    /\ Elems(listed) \subseteq sized
    /\ Elems(hw) \ sized \subseteq IF pc[BG] = "sizes" THEN {hw[Len(hw)]} ELSE {}

\* A handler that holds DeviceListChangeMutex never works on a controller
\* that ProcessPostDetection deleted under it.
LockedReaderSafe == \A u \in LockedReaders : rdCtl[u] \cap freed = {}

\* Initialisation finishes, and every accepted rescan request is answered by
\* a scanComplete event, also when the request was dropped because a
\* detection was running or its coroutine was overwritten by another one.
InitFinishes == <>initDone
RequestAnswered == \A t \in Requesters : t \in owed ~> t \notin owed

-----------------------------------------------------------------------------
(***************************************************************************)
(* What comments and documents say of the code, and the code does not do.  *)
(***************************************************************************)

\* "If there's anything left from the last time, we shall remove it first":
\* a detection starts from an empty hardware list.
NothingLeftAtStart == pc[BG] = "detect" /\ required => hw = <<>>

\* "Any code that reads/writes the controller vector must hold this lock
\* [...] otherwise it can race with an in-flight rescan and observe the list
\* mid-rebuild": a handler that holds it stays inside the vector, and the I2C
\* bus of its controller stays open.
LockedReaderUndisturbed ==
    \A u \in LockedReaders :
        /\ rd[u] # "outside"
        /\ \A c \in rdCtl[u] : c[2] > busDead
=============================================================================
