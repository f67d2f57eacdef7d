--------------------------- MODULE DetectionProofs ---------------------------
(***************************************************************************)
(* Theorems about Detection, for any number of devices, requesting         *)
(* threads, handler threads and rescans.                                   *)
(*                                                                         *)
(* The inductive invariant IInv adds to TypeOK and to the two properties   *)
(* what the code relies on without saying so: which thread may be where    *)
(* before the servers are up and when detection is disabled (Phase), that  *)
(* nothing is scheduled while the background thread runs (HoldsMutex), and *)
(* that an object in the hardware list is shown, or is the one whose       *)
(* registration is just being published (HwShown).                         *)
(***************************************************************************)
EXTENDS Detection, FiniteSetTheorems, FunctionTheorems, TLAPS

QuietLabels == {"start", "waiting", "woken", "init", "servers"}

\* Until InitCoroutine has started the servers nobody asks for a rescan and
\* no controller exists; afterwards InitCoroutine's first part is over.
Phase ==
    /\ ~serversUp =>
         /\ \A t \in Requesters : pc[t] = "idle"
         /\ pc[BG] \in QuietLabels
         /\ sched # "none" => sched = "init"
         /\ hw = <<>> /\ listed = <<>> /\ pending = <<>> /\ DOMAIN val = {}
    /\ serversUp => sched # "init" /\ pc[BG] \notin {"init", "servers"}
    /\ serversUp /\ ~enabled =>
         /\ hw = <<>>
         /\ pc[BG] \in {"waiting", "woken"} \cup PostLabels
         /\ sched = "none"
         /\ \A t \in Requesters : pc[t] \in {"idle", "check"} \cup PostLabels
    /\ enabled => \A t \in Requesters : pc[t] \notin PostLabels

\* Whoever schedules holds the mutex, so nothing is scheduled during a run.
HoldsMutex == ~StateMutexFree => sched = "none"

\* The detectors of the current run that registered nothing yet.
FreshDevices ==
    IF pc[BG] \in RunLabels
    THEN todo \cup (IF pc[BG] = "register" THEN found ELSE {})
    ELSE {}

\* Objects are created once.
Fresh ==
    /\ \A c \in DOMAIN val : c[2] <= run
    /\ pc[BG] \notin {"register", "sizes", "show", "publish"} => found = {}
    /\ pc[BG] = "register" => todo \cap found = {}
    /\ \A d \in FreshDevices : <<d, run>> \notin DOMAIN val

\* Lists and handlers refer to objects that exist.
Opened ==
    /\ Elems(hw) \subseteq DOMAIN val
    /\ Elems(listed) \subseteq DOMAIN val
    /\ Elems(pending) \subseteq DOMAIN val
    /\ freed \subseteq DOMAIN val

\* A hardware controller is shown unless its registration is in progress.
HwShown ==
    \A c \in Elems(hw) :
        \/ c \in Elems(listed)
        \/ pc[BG] \in {"sizes", "show", "publish"} /\ \E d \in found : c = <<d, run>>

IInv ==
    /\ TypeOK /\ Phase /\ HoldsMutex /\ Fresh /\ Opened /\ HwShown
    /\ FreedUnreachable /\ NoLostWakeup

-----------------------------------------------------------------------------
USE ThreadAssumption, ValueAssumption, FlagAssumption

LEMMA InitInv == Init => IInv
<1> SUFFICES ASSUME Init PROVE IInv
  OBVIOUS
<1>1. FlagsOK
  <2>1. enabled \in BOOLEAN
    BY DEF Init
  <2>2. QED
    BY <2>1, Zenon DEF Init, FlagsOK
<1>2. ControlOK /\ HandlersOK
  BY DEF Init, ControlOK, HandlersOK, Threads, ReqLabels, BgLabels
<1>3. DOMAIN val = {}
  BY DEF Init
<1>4. present \subseteq Devices
  BY DEF Init
<1>5. ObjectsOK
  BY <1>3, <1>4 DEF Init, ObjectsOK
<1>6. Phase /\ HoldsMutex
  <2>1. pc[BG] = "start" /\ \A t \in Requesters : pc[t] = "idle"
    BY DEF Init, Threads
  <2>2. QED
    BY <2>1, <1>3 DEF Init, Phase, HoldsMutex, QuietLabels, StateMutexFree, PostLabels
<1>7. Fresh /\ Opened /\ HwShown
  BY <1>3 DEF Init, Fresh, Opened, HwShown, FreshDevices, Elems, Threads
<1>8. FreedUnreachable /\ NoLostWakeup
  BY DEF Init, FreedUnreachable, NoLostWakeup, Elems, Threads
<1>9. QED
  BY <1>1, <1>2, <1>5, <1>6, <1>7, <1>8 DEF IInv, TypeOK

LEMMA FlagsStep == IInv /\ [Next]_vars => FlagsOK'
<1> SUFFICES ASSUME IInv, [Next]_vars PROVE FlagsOK'
  OBVIOUS
<1> USE DEF FlagsOK, bgVars, lists, scan, env, objects
<1>0. FlagsOK /\ ControlOK
  BY DEF IInv, TypeOK
<1>1. ASSUME NEW t \in Threads, CheckRequired(t) PROVE FlagsOK'
  BY <1>0, Zenon, <1>1 DEF CheckRequired, AfterRefusal
<1>2. ASSUME NEW t \in Threads, WaitForDetection(t) PROVE FlagsOK'
  BY <1>0, Zenon, <1>2 DEF WaitForDetection
<1>3. ASSUME NEW t \in Threads, SavePending(t) PROVE FlagsOK'
  BY <1>0, Zenon, <1>3 DEF SavePending
<1>4. ASSUME NEW t \in Threads, ClearHardware(t) PROVE FlagsOK'
  BY <1>0, Zenon, <1>4 DEF ClearHardware
<1>5. ASSUME NEW t \in Threads, UpdateList(t) PROVE FlagsOK'
  BY <1>0, Zenon, <1>5 DEF UpdateList, Rebuild
<1>6. ASSUME NEW t \in Threads, SetRequired(t) PROVE FlagsOK'
  BY <1>0, Zenon, <1>6 DEF SetRequired
<1>7. ASSUME NEW t \in Threads, PostFlag(t) PROVE FlagsOK'
  BY <1>0, Zenon, <1>7 DEF PostFlag
<1>8. ASSUME NEW t \in Threads, PostReap(t) PROVE FlagsOK'
  BY <1>0, Zenon, <1>8 DEF PostReap, Reapable
<1>9. ASSUME NEW t \in Threads, PostScan(t) PROVE FlagsOK'
  BY <1>0, Zenon, <1>9 DEF PostScan
<1>10. ASSUME NEW t \in Requesters, RequestRescan(t) PROVE FlagsOK'
  BY <1>0, Zenon, <1>10 DEF RequestRescan
<1>11. ASSUME NEW t \in Requesters, ScheduleHidExit(t) PROVE FlagsOK'
  BY <1>0, Zenon, <1>11 DEF ScheduleHidExit
<1>12. ASSUME NEW t \in Requesters, Notify(t) PROVE FlagsOK'
  BY <1>0, Zenon, <1>12 DEF Notify
<1>13. ASSUME NEW t \in Requesters, ScheduleDetect(t) PROVE FlagsOK'
  BY <1>0, Zenon, <1>13 DEF ScheduleDetect
<1>14. CASE BgThrow
  BY <1>0, Zenon, <1>14 DEF BgThrow
<1>15. CASE BgDispatch
  BY <1>0, Zenon, <1>15 DEF BgDispatch
<1>16. CASE BgSpuriousWakeup
  BY <1>0, Zenon, <1>16 DEF BgSpuriousWakeup
<1>17. CASE BgHidExit
  BY <1>0, Zenon, <1>17 DEF BgHidExit
<1>18. CASE BgInit
  BY <1>0, Zenon, <1>18 DEF BgInit
<1>19. CASE BgStartServers
  BY <1>0, Zenon, <1>19 DEF BgStartServers
<1>20. CASE BgDetect
  BY <1>0, Zenon, <1>20 DEF BgDetect
<1>21. CASE BgLoadSizes \/ BgShow
  BY <1>0, Zenon, <1>21 DEF BgLoadSizes, BgShow, Rebuild, NewlyAdded
<1>22. CASE BgPublish
  BY <1>0, Zenon, <1>22 DEF BgPublish, Rebuild
<1>23. CASE BgLoopEnd
  BY <1>0, Zenon, <1>23 DEF BgLoopEnd, DevicesChanged
<1>24. CASE StopDeviceDetection
  BY <1>0, Zenon, <1>24 DEF StopDeviceDetection
<1>25. CASE PlugOrUnplug
  BY <1>0, Zenon, <1>25 DEF PlugOrUnplug
<1>26. ASSUME NEW d \in Devices, BgDetector(d) PROVE FlagsOK'
  BY <1>0, Zenon, <1>26 DEF BgDetector
<1>27. ASSUME NEW d \in Devices, BgRegisterNew(d) PROVE FlagsOK'
  BY <1>0, Zenon, <1>27 DEF BgRegisterNew, Register
<1>28. ASSUME NEW d \in Devices, BgRegisterKnown(d) PROVE FlagsOK'
  BY <1>0, Zenon, <1>28 DEF BgRegisterKnown, Register, Unmatched
<1>29. ASSUME NEW u \in Readers, NEW i \in DOMAIN Served, ReaderCheck(u, i) PROVE FlagsOK'
  BY <1>0, Zenon, <1>29 DEF ReaderCheck
<1>30. ASSUME NEW u \in Readers, ReaderFetch(u) PROVE FlagsOK'
  BY <1>0, Zenon, <1>30 DEF ReaderFetch
<1>31. ASSUME NEW u \in Readers, NEW v \in Values, ReaderUse(u, v) PROVE FlagsOK'
  BY <1>0, Zenon, <1>31 DEF ReaderUse
<1>32. CASE UNCHANGED vars
  BY <1>0, Zenon, <1>32 DEF vars
<1>m. ASSUME NEW t \in Threads, NEW r \in Requesters, PostReapAmid(t, r) PROVE FlagsOK'
  BY <1>0, <1>m DEF PostReapAmid, Rebuild
<1> HIDE DEF FlagsOK, bgVars, lists, scan, env, objects
<1>33. QED
    BY <1>m, <1>1, <1>2, <1>3, <1>4, <1>5, <1>6, <1>7, <1>8, <1>9, <1>10, <1>11, <1>12,
     <1>13, <1>14, <1>15, <1>16, <1>17, <1>18, <1>19, <1>20, <1>21, <1>22, <1>23,
     <1>24, <1>25, <1>26, <1>27, <1>28, <1>29, <1>30, <1>31,
     <1>32 DEF Next, BgRun, RequesterStep, PreDetection, PostDetection, ReaderStep, Threads

LEMMA ControlStep == IInv /\ [Next]_vars => ControlOK'
<1> SUFFICES ASSUME IInv, [Next]_vars PROVE ControlOK'
  OBVIOUS
<1> USE DEF ControlOK, Threads, Goto, ReqLabels, BgLabels, PreLabels, PostLabels,
            RunLabels, bgVars, lists, scan, env, objects, rdVars
<1>0. ControlOK /\ FlagsOK
  BY DEF IInv, TypeOK
<1>1. ASSUME NEW t \in Threads, CheckRequired(t) PROVE ControlOK'
  BY <1>0, <1>1 DEF CheckRequired, AfterRefusal
<1>2. ASSUME NEW t \in Threads, WaitForDetection(t) PROVE ControlOK'
  BY <1>0, <1>2 DEF WaitForDetection
<1>3. ASSUME NEW t \in Threads, SavePending(t) PROVE ControlOK'
  BY <1>0, <1>3 DEF SavePending
<1>4. ASSUME NEW t \in Threads, ClearHardware(t) PROVE ControlOK'
  BY <1>0, <1>4 DEF ClearHardware
<1>5. ASSUME NEW t \in Threads, UpdateList(t) PROVE ControlOK'
  BY <1>0, <1>5 DEF UpdateList, Rebuild
<1>6. ASSUME NEW t \in Threads, SetRequired(t) PROVE ControlOK'
  BY <1>0, <1>6 DEF SetRequired
<1>7. ASSUME NEW t \in Threads, PostFlag(t) PROVE ControlOK'
  BY <1>0, <1>7 DEF PostFlag
<1>8. ASSUME NEW t \in Threads, PostReap(t) PROVE ControlOK'
  BY <1>0, <1>8 DEF PostReap, Reapable
<1>9. ASSUME NEW t \in Threads, PostScan(t) PROVE ControlOK'
  BY <1>0, <1>9 DEF PostScan
<1>10. ASSUME NEW t \in Requesters, RequestRescan(t) PROVE ControlOK'
  BY <1>0, <1>10 DEF RequestRescan
<1>11. ASSUME NEW t \in Requesters, ScheduleHidExit(t) PROVE ControlOK'
  BY <1>0, <1>11 DEF ScheduleHidExit
<1>12. ASSUME NEW t \in Requesters, Notify(t) PROVE ControlOK'
  BY <1>0, <1>12 DEF Notify
<1>13. ASSUME NEW t \in Requesters, ScheduleDetect(t) PROVE ControlOK'
  BY <1>0, <1>13 DEF ScheduleDetect
<1>14. CASE BgThrow
  BY <1>0, <1>14 DEF BgThrow
<1>15. CASE BgDispatch
  BY <1>0, <1>15 DEF BgDispatch
<1>16. CASE BgSpuriousWakeup
  BY <1>0, <1>16 DEF BgSpuriousWakeup
<1>17. CASE BgHidExit
  BY <1>0, <1>17 DEF BgHidExit
<1>18. CASE BgInit
  BY <1>0, <1>18 DEF BgInit
<1>19. CASE BgStartServers
  BY <1>0, <1>19 DEF BgStartServers
<1>20. CASE BgDetect
  BY <1>0, <1>20 DEF BgDetect
<1>21. CASE BgLoadSizes \/ BgShow
  BY <1>0, <1>21 DEF BgLoadSizes, BgShow, Rebuild, NewlyAdded
<1>22. CASE BgPublish
  BY <1>0, <1>22 DEF BgPublish, Rebuild
<1>23. CASE BgLoopEnd
  BY <1>0, <1>23 DEF BgLoopEnd, DevicesChanged
<1>24. CASE StopDeviceDetection
  BY <1>0, <1>24 DEF StopDeviceDetection
<1>25. CASE PlugOrUnplug
  BY <1>0, <1>25 DEF PlugOrUnplug
<1>26. ASSUME NEW d \in Devices, BgDetector(d) PROVE ControlOK'
  BY <1>0, <1>26 DEF BgDetector
<1>27. ASSUME NEW d \in Devices, BgRegisterNew(d) PROVE ControlOK'
  BY <1>0, <1>27 DEF BgRegisterNew, Register
<1>28. ASSUME NEW d \in Devices, BgRegisterKnown(d) PROVE ControlOK'
  BY <1>0, <1>28 DEF BgRegisterKnown, Register, Unmatched
<1>29. ASSUME NEW u \in Readers, NEW i \in DOMAIN Served, ReaderCheck(u, i) PROVE ControlOK'
  BY <1>0, <1>29 DEF ReaderCheck
<1>30. ASSUME NEW u \in Readers, ReaderFetch(u) PROVE ControlOK'
  BY <1>0, <1>30 DEF ReaderFetch
<1>31. ASSUME NEW u \in Readers, NEW v \in Values, ReaderUse(u, v) PROVE ControlOK'
  BY <1>0, <1>31 DEF ReaderUse
<1>32. CASE UNCHANGED vars
  BY <1>0, <1>32 DEF vars
<1>m. ASSUME NEW t \in Threads, NEW r \in Requesters, PostReapAmid(t, r) PROVE ControlOK'
  BY <1>0, <1>m DEF PostReapAmid, Rebuild
<1> HIDE DEF ControlOK, Threads, Goto, ReqLabels, BgLabels, PreLabels, PostLabels,
            RunLabels, bgVars, lists, scan, env, objects, rdVars
<1>33. QED
    BY <1>m, <1>1, <1>2, <1>3, <1>4, <1>5, <1>6, <1>7, <1>8, <1>9, <1>10, <1>11, <1>12,
     <1>13, <1>14, <1>15, <1>16, <1>17, <1>18, <1>19, <1>20, <1>21, <1>22, <1>23,
     <1>24, <1>25, <1>26, <1>27, <1>28, <1>29, <1>30, <1>31,
     <1>32 DEF Next, BgRun, RequesterStep, PreDetection, PostDetection, ReaderStep, Threads

LEMMA ObjectsStep == IInv /\ [Next]_vars => ObjectsOK'
<1> SUFFICES ASSUME IInv, [Next]_vars PROVE ObjectsOK'
  OBVIOUS
<1> USE DEF ObjectsOK, Controllers, bgVars, lists, scan, env, objects, rdVars
<1>0. ObjectsOK /\ Opened
  BY DEF IInv, TypeOK
<1>1. ASSUME NEW t \in Threads, CheckRequired(t) PROVE ObjectsOK'
  BY <1>0, <1>1 DEF CheckRequired, AfterRefusal
<1>2. ASSUME NEW t \in Threads, WaitForDetection(t) PROVE ObjectsOK'
  BY <1>0, <1>2 DEF WaitForDetection
<1>3. ASSUME NEW t \in Threads, SavePending(t) PROVE ObjectsOK'
  BY <1>0, <1>3 DEF SavePending, Elems
<1>4. ASSUME NEW t \in Threads, ClearHardware(t) PROVE ObjectsOK'
  BY <1>0, <1>4 DEF ClearHardware
<1>5. ASSUME NEW t \in Threads, UpdateList(t) PROVE ObjectsOK'
  BY <1>0, <1>5 DEF UpdateList, Rebuild
<1>6. ASSUME NEW t \in Threads, SetRequired(t) PROVE ObjectsOK'
  BY <1>0, <1>6 DEF SetRequired
<1>7. ASSUME NEW t \in Threads, PostFlag(t) PROVE ObjectsOK'
  BY <1>0, <1>7 DEF PostFlag
<1>8. ASSUME NEW t \in Threads, PostReap(t) PROVE ObjectsOK'
  BY <1>0, <1>8 DEF PostReap, Reapable, Elems
<1>9. ASSUME NEW t \in Threads, PostScan(t) PROVE ObjectsOK'
  BY <1>0, <1>9 DEF PostScan
<1>10. ASSUME NEW t \in Requesters, RequestRescan(t) PROVE ObjectsOK'
  BY <1>0, <1>10 DEF RequestRescan
<1>11. ASSUME NEW t \in Requesters, ScheduleHidExit(t) PROVE ObjectsOK'
  BY <1>0, <1>11 DEF ScheduleHidExit
<1>12. ASSUME NEW t \in Requesters, Notify(t) PROVE ObjectsOK'
  BY <1>0, <1>12 DEF Notify
<1>13. ASSUME NEW t \in Requesters, ScheduleDetect(t) PROVE ObjectsOK'
  BY <1>0, <1>13 DEF ScheduleDetect
<1>14. CASE BgThrow
  BY <1>0, <1>14 DEF BgThrow
<1>15. CASE BgDispatch
  BY <1>0, <1>15 DEF BgDispatch
<1>16. CASE BgSpuriousWakeup
  BY <1>0, <1>16 DEF BgSpuriousWakeup
<1>17. CASE BgHidExit
  BY <1>0, <1>17 DEF BgHidExit
<1>18. CASE BgInit
  BY <1>0, <1>18 DEF BgInit
<1>19. CASE BgStartServers
  BY <1>0, <1>19 DEF BgStartServers
<1>20. CASE BgDetect
  BY <1>0, <1>20 DEF BgDetect
<1>21. CASE BgLoadSizes \/ BgShow
  <2>1. NewlyAdded \subseteq Controllers
    <3>1. ASSUME NEW i \in (prevSize + 1)..Len(hw) PROVE hw[i] \in Controllers
      BY <1>0, <3>1
    <3>2. QED
      BY <3>1, Zenon DEF NewlyAdded
  <2>2. CASE BgLoadSizes
    BY <1>0, <2>1, <2>2 DEF BgLoadSizes
  <2>3. CASE BgShow
    BY <1>0, <2>3 DEF BgShow, Rebuild
  <2>4. QED
    BY <1>21, <2>2, <2>3
<1>22. CASE BgPublish
  BY <1>0, <1>22 DEF BgPublish, Rebuild
<1>23. CASE BgLoopEnd
  BY <1>0, <1>23 DEF BgLoopEnd, DevicesChanged
<1>24. CASE StopDeviceDetection
  BY <1>0, <1>24 DEF StopDeviceDetection
<1>25. CASE PlugOrUnplug
  BY <1>0, <1>25 DEF PlugOrUnplug
<1>26. ASSUME NEW d \in Devices, BgDetector(d) PROVE ObjectsOK'
  BY <1>0, <1>26 DEF BgDetector
<1>27. ASSUME NEW d \in Devices, BgRegisterNew(d) PROVE ObjectsOK'
  BY <1>0, <1>27 DEF BgRegisterNew, Register
<1>28. ASSUME NEW d \in Devices, BgRegisterKnown(d) PROVE ObjectsOK'
  BY <1>0, <1>28 DEF BgRegisterKnown, Register, Unmatched, Opened, Elems
<1>29. ASSUME NEW u \in Readers, NEW i \in DOMAIN Served, ReaderCheck(u, i) PROVE ObjectsOK'
  BY <1>0, <1>29 DEF ReaderCheck
<1>30. ASSUME NEW u \in Readers, ReaderFetch(u) PROVE ObjectsOK'
  BY <1>0, <1>30 DEF ReaderFetch
<1>31. ASSUME NEW u \in Readers, NEW v \in Values, ReaderUse(u, v) PROVE ObjectsOK'
  BY <1>0, <1>31 DEF ReaderUse
<1>32. CASE UNCHANGED vars
  BY <1>0, <1>32 DEF vars
<1>m. ASSUME NEW t \in Threads, NEW r \in Requesters, PostReapAmid(t, r) PROVE ObjectsOK'
  <2>1. PICK seen \in SUBSET Elems(listed) : freed' = freed \cup (Elems(pending) \ seen)
    BY <1>m, Zenon DEF PostReapAmid
  <2>2. freed' \subseteq Controllers
    BY <1>0, <2>1 DEF Elems
  <2>3. /\ listed' = hw /\ pending' = <<>> /\ matched' = {}
        /\ UNCHANGED <<hw, prevSize, sized, scan, present, val, busDead>>
    BY <1>m DEF PostReapAmid, Rebuild
  <2>4. QED
    BY <1>0, <2>2, <2>3
<1> HIDE DEF ObjectsOK, Controllers, bgVars, lists, scan, env, objects, rdVars
<1>33. QED
    BY <1>m, <1>1, <1>2, <1>3, <1>4, <1>5, <1>6, <1>7, <1>8, <1>9, <1>10, <1>11, <1>12,
     <1>13, <1>14, <1>15, <1>16, <1>17, <1>18, <1>19, <1>20, <1>21, <1>22, <1>23,
     <1>24, <1>25, <1>26, <1>27, <1>28, <1>29, <1>30, <1>31,
     <1>32 DEF Next, BgRun, RequesterStep, PreDetection, PostDetection, ReaderStep, Threads

LEMMA HandlersStep == IInv /\ [Next]_vars => HandlersOK'
<1> SUFFICES ASSUME IInv, [Next]_vars PROVE HandlersOK'
  OBVIOUS
<1> USE DEF HandlersOK, ObjectsOK, Controllers, Served, bgVars, lists, scan, env, objects, rdVars
<1>0. HandlersOK /\ ObjectsOK
  BY DEF IInv, TypeOK
<1>1. ASSUME NEW t \in Threads, CheckRequired(t) PROVE HandlersOK'
  BY <1>0, <1>1 DEF CheckRequired, AfterRefusal
<1>2. ASSUME NEW t \in Threads, WaitForDetection(t) PROVE HandlersOK'
  BY <1>0, <1>2 DEF WaitForDetection
<1>3. ASSUME NEW t \in Threads, SavePending(t) PROVE HandlersOK'
  BY <1>0, <1>3 DEF SavePending
<1>4. ASSUME NEW t \in Threads, ClearHardware(t) PROVE HandlersOK'
  BY <1>0, <1>4 DEF ClearHardware
<1>5. ASSUME NEW t \in Threads, UpdateList(t) PROVE HandlersOK'
  BY <1>0, <1>5 DEF UpdateList, Rebuild
<1>6. ASSUME NEW t \in Threads, SetRequired(t) PROVE HandlersOK'
  BY <1>0, <1>6 DEF SetRequired
<1>7. ASSUME NEW t \in Threads, PostFlag(t) PROVE HandlersOK'
  BY <1>0, <1>7 DEF PostFlag
<1>8. ASSUME NEW t \in Threads, PostReap(t) PROVE HandlersOK'
  BY <1>0, <1>8 DEF PostReap, Reapable
<1>9. ASSUME NEW t \in Threads, PostScan(t) PROVE HandlersOK'
  BY <1>0, <1>9 DEF PostScan
<1>10. ASSUME NEW t \in Requesters, RequestRescan(t) PROVE HandlersOK'
  BY <1>0, <1>10 DEF RequestRescan
<1>11. ASSUME NEW t \in Requesters, ScheduleHidExit(t) PROVE HandlersOK'
  BY <1>0, <1>11 DEF ScheduleHidExit
<1>12. ASSUME NEW t \in Requesters, Notify(t) PROVE HandlersOK'
  BY <1>0, <1>12 DEF Notify
<1>13. ASSUME NEW t \in Requesters, ScheduleDetect(t) PROVE HandlersOK'
  BY <1>0, <1>13 DEF ScheduleDetect
<1>14. CASE BgThrow
  BY <1>0, <1>14 DEF BgThrow
<1>15. CASE BgDispatch
  BY <1>0, <1>15 DEF BgDispatch
<1>16. CASE BgSpuriousWakeup
  BY <1>0, <1>16 DEF BgSpuriousWakeup
<1>17. CASE BgHidExit
  BY <1>0, <1>17 DEF BgHidExit
<1>18. CASE BgInit
  BY <1>0, <1>18 DEF BgInit
<1>19. CASE BgStartServers
  BY <1>0, <1>19 DEF BgStartServers
<1>20. CASE BgDetect
  BY <1>0, <1>20 DEF BgDetect
<1>21. CASE BgLoadSizes \/ BgShow
  BY <1>0, <1>21 DEF BgLoadSizes, BgShow, Rebuild, NewlyAdded
<1>22. CASE BgPublish
  BY <1>0, <1>22 DEF BgPublish, Rebuild
<1>23. CASE BgLoopEnd
  BY <1>0, <1>23 DEF BgLoopEnd, DevicesChanged
<1>24. CASE StopDeviceDetection
  BY <1>0, <1>24 DEF StopDeviceDetection
<1>25. CASE PlugOrUnplug
  BY <1>0, <1>25 DEF PlugOrUnplug
<1>26. ASSUME NEW d \in Devices, BgDetector(d) PROVE HandlersOK'
  BY <1>0, <1>26 DEF BgDetector
<1>27. ASSUME NEW d \in Devices, BgRegisterNew(d) PROVE HandlersOK'
  BY <1>0, <1>27 DEF BgRegisterNew, Register
<1>28. ASSUME NEW d \in Devices, BgRegisterKnown(d) PROVE HandlersOK'
  BY <1>0, <1>28 DEF BgRegisterKnown, Register, Unmatched
<1>29. ASSUME NEW u \in Readers, NEW i \in DOMAIN Served, ReaderCheck(u, i) PROVE HandlersOK'
  BY <1>0, <1>29 DEF ReaderCheck
<1>30. ASSUME NEW u \in Readers, ReaderFetch(u) PROVE HandlersOK'
  BY <1>0, <1>30 DEF ReaderFetch
<1>31. ASSUME NEW u \in Readers, NEW v \in Values, ReaderUse(u, v) PROVE HandlersOK'
  BY <1>0, <1>31 DEF ReaderUse
<1>32. CASE UNCHANGED vars
  BY <1>0, <1>32 DEF vars
<1>m. ASSUME NEW t \in Threads, NEW r \in Requesters, PostReapAmid(t, r) PROVE HandlersOK'
  BY <1>0, <1>m DEF PostReapAmid, Rebuild
<1> HIDE DEF HandlersOK, ObjectsOK, Controllers, Served, bgVars, lists, scan, env, objects, rdVars
<1>33. QED
    BY <1>m, <1>1, <1>2, <1>3, <1>4, <1>5, <1>6, <1>7, <1>8, <1>9, <1>10, <1>11, <1>12,
     <1>13, <1>14, <1>15, <1>16, <1>17, <1>18, <1>19, <1>20, <1>21, <1>22, <1>23,
     <1>24, <1>25, <1>26, <1>27, <1>28, <1>29, <1>30, <1>31,
     <1>32 DEF Next, BgRun, RequesterStep, PreDetection, PostDetection, ReaderStep, Threads

LEMMA PhaseStep == IInv /\ [Next]_vars => Phase'
<1> SUFFICES ASSUME IInv, [Next]_vars PROVE Phase'
  OBVIOUS
<1> USE DEF Phase, HoldsMutex, StateMutexFree, QuietLabels, PostLabels, RunLabels, lists, ControlOK, Threads, Goto, bgVars, env, objects
<1>0. ControlOK /\ Phase /\ HoldsMutex
  BY DEF IInv, TypeOK
<1>1. ASSUME NEW t \in Threads, CheckRequired(t) PROVE Phase'
  BY <1>0, <1>1 DEF CheckRequired, AfterRefusal
<1>2. ASSUME NEW t \in Threads, WaitForDetection(t) PROVE Phase'
  BY <1>0, <1>2 DEF WaitForDetection
<1>3. ASSUME NEW t \in Threads, SavePending(t) PROVE Phase'
  BY <1>0, <1>3 DEF SavePending
<1>4. ASSUME NEW t \in Threads, ClearHardware(t) PROVE Phase'
  BY <1>0, <1>4 DEF ClearHardware
<1>5. ASSUME NEW t \in Threads, UpdateList(t) PROVE Phase'
  BY <1>0, <1>5 DEF UpdateList, Rebuild
<1>6. ASSUME NEW t \in Threads, SetRequired(t) PROVE Phase'
  BY <1>0, <1>6 DEF SetRequired
<1>7. ASSUME NEW t \in Threads, PostFlag(t) PROVE Phase'
  BY <1>0, <1>7 DEF PostFlag
<1>8. ASSUME NEW t \in Threads, PostReap(t) PROVE Phase'
  BY <1>0, <1>8 DEF PostReap, Reapable
<1>9. ASSUME NEW t \in Threads, PostScan(t) PROVE Phase'
  BY <1>0, <1>9 DEF PostScan
<1>10. ASSUME NEW t \in Requesters, RequestRescan(t) PROVE Phase'
  BY <1>0, <1>10 DEF RequestRescan
<1>11. ASSUME NEW t \in Requesters, ScheduleHidExit(t) PROVE Phase'
  BY <1>0, <1>11 DEF ScheduleHidExit
<1>12. ASSUME NEW t \in Requesters, Notify(t) PROVE Phase'
  BY <1>0, <1>12 DEF Notify
<1>13. ASSUME NEW t \in Requesters, ScheduleDetect(t) PROVE Phase'
  BY <1>0, <1>13 DEF ScheduleDetect
<1>14. CASE BgThrow
  BY <1>0, <1>14 DEF BgThrow
<1>15. CASE BgDispatch
  BY <1>0, <1>15 DEF BgDispatch
<1>16. CASE BgSpuriousWakeup
  BY <1>0, <1>16 DEF BgSpuriousWakeup
<1>17. CASE BgHidExit
  BY <1>0, <1>17 DEF BgHidExit
<1>18. CASE BgInit
  BY <1>0, <1>18 DEF BgInit
<1>19. CASE BgStartServers
  BY <1>0, <1>19 DEF BgStartServers
<1>20. CASE BgDetect
  BY <1>0, <1>20 DEF BgDetect
<1>21. CASE BgLoadSizes \/ BgShow
  BY <1>0, <1>21 DEF BgLoadSizes, BgShow, Rebuild, NewlyAdded
<1>22. CASE BgPublish
  BY <1>0, <1>22 DEF BgPublish, Rebuild
<1>23. CASE BgLoopEnd
  BY <1>0, <1>23 DEF BgLoopEnd, DevicesChanged
<1>24. CASE StopDeviceDetection
  BY <1>0, <1>24 DEF StopDeviceDetection
<1>25. CASE PlugOrUnplug
  BY <1>0, <1>25 DEF PlugOrUnplug
<1>26. ASSUME NEW d \in Devices, BgDetector(d) PROVE Phase'
  BY <1>0, <1>26 DEF BgDetector
<1>27. ASSUME NEW d \in Devices, BgRegisterNew(d) PROVE Phase'
  BY <1>0, <1>27 DEF BgRegisterNew, Register
<1>28. ASSUME NEW d \in Devices, BgRegisterKnown(d) PROVE Phase'
  BY <1>0, <1>28 DEF BgRegisterKnown, Register, Unmatched
<1>29. ASSUME NEW u \in Readers, NEW i \in DOMAIN Served, ReaderCheck(u, i) PROVE Phase'
  BY <1>0, <1>29 DEF ReaderCheck
<1>30. ASSUME NEW u \in Readers, ReaderFetch(u) PROVE Phase'
  BY <1>0, <1>30 DEF ReaderFetch
<1>31. ASSUME NEW u \in Readers, NEW v \in Values, ReaderUse(u, v) PROVE Phase'
  BY <1>0, <1>31 DEF ReaderUse
<1>32. CASE UNCHANGED vars
  BY <1>0, <1>32 DEF vars
<1>m. ASSUME NEW t \in Threads, NEW r \in Requesters, PostReapAmid(t, r) PROVE Phase'
  BY <1>0, <1>m DEF PostReapAmid, Rebuild
<1> HIDE DEF Phase, HoldsMutex, StateMutexFree, QuietLabels, PostLabels, RunLabels, lists, ControlOK, Threads, Goto, bgVars, env, objects
<1>33. QED
    BY <1>m, <1>1, <1>2, <1>3, <1>4, <1>5, <1>6, <1>7, <1>8, <1>9, <1>10, <1>11, <1>12,
     <1>13, <1>14, <1>15, <1>16, <1>17, <1>18, <1>19, <1>20, <1>21, <1>22, <1>23,
     <1>24, <1>25, <1>26, <1>27, <1>28, <1>29, <1>30, <1>31,
     <1>32 DEF Next, BgRun, RequesterStep, PreDetection, PostDetection, ReaderStep, Threads

LEMMA HoldsMutexStep == IInv /\ [Next]_vars => HoldsMutex'
<1> SUFFICES ASSUME IInv, [Next]_vars PROVE HoldsMutex'
  OBVIOUS
<1> USE DEF HoldsMutex, StateMutexFree, Phase, QuietLabels, ControlOK, Threads, Goto, bgVars, env, objects
<1>0. ControlOK /\ HoldsMutex /\ Phase
  BY DEF IInv, TypeOK
<1>1. ASSUME NEW t \in Threads, CheckRequired(t) PROVE HoldsMutex'
  BY <1>0, <1>1 DEF CheckRequired, AfterRefusal
<1>2. ASSUME NEW t \in Threads, WaitForDetection(t) PROVE HoldsMutex'
  BY <1>0, <1>2 DEF WaitForDetection
<1>3. ASSUME NEW t \in Threads, SavePending(t) PROVE HoldsMutex'
  BY <1>0, <1>3 DEF SavePending
<1>4. ASSUME NEW t \in Threads, ClearHardware(t) PROVE HoldsMutex'
  BY <1>0, <1>4 DEF ClearHardware
<1>5. ASSUME NEW t \in Threads, UpdateList(t) PROVE HoldsMutex'
  BY <1>0, <1>5 DEF UpdateList, Rebuild
<1>6. ASSUME NEW t \in Threads, SetRequired(t) PROVE HoldsMutex'
  BY <1>0, <1>6 DEF SetRequired
<1>7. ASSUME NEW t \in Threads, PostFlag(t) PROVE HoldsMutex'
  BY <1>0, <1>7 DEF PostFlag
<1>8. ASSUME NEW t \in Threads, PostReap(t) PROVE HoldsMutex'
  BY <1>0, <1>8 DEF PostReap, Reapable
<1>9. ASSUME NEW t \in Threads, PostScan(t) PROVE HoldsMutex'
  BY <1>0, <1>9 DEF PostScan
<1>10. ASSUME NEW t \in Requesters, RequestRescan(t) PROVE HoldsMutex'
  BY <1>0, <1>10 DEF RequestRescan
<1>11. ASSUME NEW t \in Requesters, ScheduleHidExit(t) PROVE HoldsMutex'
  BY <1>0, <1>11 DEF ScheduleHidExit
<1>12. ASSUME NEW t \in Requesters, Notify(t) PROVE HoldsMutex'
  BY <1>0, <1>12 DEF Notify
<1>13. ASSUME NEW t \in Requesters, ScheduleDetect(t) PROVE HoldsMutex'
  BY <1>0, <1>13 DEF ScheduleDetect
<1>14. CASE BgThrow
  BY <1>0, <1>14 DEF BgThrow
<1>15. CASE BgDispatch
  BY <1>0, <1>15 DEF BgDispatch
<1>16. CASE BgSpuriousWakeup
  BY <1>0, <1>16 DEF BgSpuriousWakeup
<1>17. CASE BgHidExit
  BY <1>0, <1>17 DEF BgHidExit
<1>18. CASE BgInit
  BY <1>0, <1>18 DEF BgInit
<1>19. CASE BgStartServers
  BY <1>0, <1>19 DEF BgStartServers
<1>20. CASE BgDetect
  BY <1>0, <1>20 DEF BgDetect
<1>21. CASE BgLoadSizes \/ BgShow
  BY <1>0, <1>21 DEF BgLoadSizes, BgShow, Rebuild, NewlyAdded
<1>22. CASE BgPublish
  BY <1>0, <1>22 DEF BgPublish, Rebuild
<1>23. CASE BgLoopEnd
  BY <1>0, <1>23 DEF BgLoopEnd, DevicesChanged
<1>24. CASE StopDeviceDetection
  BY <1>0, <1>24 DEF StopDeviceDetection
<1>25. CASE PlugOrUnplug
  BY <1>0, <1>25 DEF PlugOrUnplug
<1>26. ASSUME NEW d \in Devices, BgDetector(d) PROVE HoldsMutex'
  BY <1>0, <1>26 DEF BgDetector
<1>27. ASSUME NEW d \in Devices, BgRegisterNew(d) PROVE HoldsMutex'
  BY <1>0, <1>27 DEF BgRegisterNew, Register
<1>28. ASSUME NEW d \in Devices, BgRegisterKnown(d) PROVE HoldsMutex'
  BY <1>0, <1>28 DEF BgRegisterKnown, Register, Unmatched
<1>29. ASSUME NEW u \in Readers, NEW i \in DOMAIN Served, ReaderCheck(u, i) PROVE HoldsMutex'
  BY <1>0, <1>29 DEF ReaderCheck
<1>30. ASSUME NEW u \in Readers, ReaderFetch(u) PROVE HoldsMutex'
  BY <1>0, <1>30 DEF ReaderFetch
<1>31. ASSUME NEW u \in Readers, NEW v \in Values, ReaderUse(u, v) PROVE HoldsMutex'
  BY <1>0, <1>31 DEF ReaderUse
<1>32. CASE UNCHANGED vars
  BY <1>0, <1>32 DEF vars
<1>m. ASSUME NEW t \in Threads, NEW r \in Requesters, PostReapAmid(t, r) PROVE HoldsMutex'
  BY <1>0, <1>m DEF PostReapAmid, Rebuild
<1> HIDE DEF HoldsMutex, StateMutexFree, Phase, QuietLabels, ControlOK, Threads, Goto, bgVars, env, objects
<1>33. QED
    BY <1>m, <1>1, <1>2, <1>3, <1>4, <1>5, <1>6, <1>7, <1>8, <1>9, <1>10, <1>11, <1>12,
     <1>13, <1>14, <1>15, <1>16, <1>17, <1>18, <1>19, <1>20, <1>21, <1>22, <1>23,
     <1>24, <1>25, <1>26, <1>27, <1>28, <1>29, <1>30, <1>31,
     <1>32 DEF Next, BgRun, RequesterStep, PreDetection, PostDetection, ReaderStep, Threads

LEMMA WakeupStep == IInv /\ [Next]_vars => NoLostWakeup'
<1> SUFFICES ASSUME IInv, [Next]_vars PROVE NoLostWakeup'
  OBVIOUS
<1> USE DEF NoLostWakeup, HoldsMutex, StateMutexFree, ControlOK, Threads, Goto, bgVars, env, objects
<1>0. ControlOK /\ HoldsMutex /\ NoLostWakeup
  BY DEF IInv, TypeOK
<1>1. ASSUME NEW t \in Threads, CheckRequired(t) PROVE NoLostWakeup'
  BY <1>0, <1>1 DEF CheckRequired, AfterRefusal
<1>2. ASSUME NEW t \in Threads, WaitForDetection(t) PROVE NoLostWakeup'
  BY <1>0, <1>2 DEF WaitForDetection
<1>3. ASSUME NEW t \in Threads, SavePending(t) PROVE NoLostWakeup'
  BY <1>0, <1>3 DEF SavePending
<1>4. ASSUME NEW t \in Threads, ClearHardware(t) PROVE NoLostWakeup'
  BY <1>0, <1>4 DEF ClearHardware
<1>5. ASSUME NEW t \in Threads, UpdateList(t) PROVE NoLostWakeup'
  BY <1>0, <1>5 DEF UpdateList, Rebuild
<1>6. ASSUME NEW t \in Threads, SetRequired(t) PROVE NoLostWakeup'
  BY <1>0, <1>6 DEF SetRequired
<1>7. ASSUME NEW t \in Threads, PostFlag(t) PROVE NoLostWakeup'
  BY <1>0, <1>7 DEF PostFlag
<1>8. ASSUME NEW t \in Threads, PostReap(t) PROVE NoLostWakeup'
  BY <1>0, <1>8 DEF PostReap, Reapable
<1>9. ASSUME NEW t \in Threads, PostScan(t) PROVE NoLostWakeup'
  BY <1>0, <1>9 DEF PostScan
<1>10. ASSUME NEW t \in Requesters, RequestRescan(t) PROVE NoLostWakeup'
  BY <1>0, <1>10 DEF RequestRescan
<1>11. ASSUME NEW t \in Requesters, ScheduleHidExit(t) PROVE NoLostWakeup'
  BY <1>0, <1>11 DEF ScheduleHidExit
<1>12. ASSUME NEW t \in Requesters, Notify(t) PROVE NoLostWakeup'
  BY <1>0, <1>12 DEF Notify
<1>13. ASSUME NEW t \in Requesters, ScheduleDetect(t) PROVE NoLostWakeup'
  BY <1>0, <1>13 DEF ScheduleDetect
<1>14. CASE BgThrow
  BY <1>0, <1>14 DEF BgThrow
<1>15. CASE BgDispatch
  BY <1>0, <1>15 DEF BgDispatch
<1>16. CASE BgSpuriousWakeup
  BY <1>0, <1>16 DEF BgSpuriousWakeup
<1>17. CASE BgHidExit
  BY <1>0, <1>17 DEF BgHidExit
<1>18. CASE BgInit
  BY <1>0, <1>18 DEF BgInit
<1>19. CASE BgStartServers
  BY <1>0, <1>19 DEF BgStartServers
<1>20. CASE BgDetect
  BY <1>0, <1>20 DEF BgDetect
<1>21. CASE BgLoadSizes \/ BgShow
  BY <1>0, <1>21 DEF BgLoadSizes, BgShow, Rebuild, NewlyAdded
<1>22. CASE BgPublish
  BY <1>0, <1>22 DEF BgPublish, Rebuild
<1>23. CASE BgLoopEnd
  BY <1>0, <1>23 DEF BgLoopEnd, DevicesChanged
<1>24. CASE StopDeviceDetection
  BY <1>0, <1>24 DEF StopDeviceDetection
<1>25. CASE PlugOrUnplug
  BY <1>0, <1>25 DEF PlugOrUnplug
<1>26. ASSUME NEW d \in Devices, BgDetector(d) PROVE NoLostWakeup'
  BY <1>0, <1>26 DEF BgDetector
<1>27. ASSUME NEW d \in Devices, BgRegisterNew(d) PROVE NoLostWakeup'
  BY <1>0, <1>27 DEF BgRegisterNew, Register
<1>28. ASSUME NEW d \in Devices, BgRegisterKnown(d) PROVE NoLostWakeup'
  BY <1>0, <1>28 DEF BgRegisterKnown, Register, Unmatched
<1>29. ASSUME NEW u \in Readers, NEW i \in DOMAIN Served, ReaderCheck(u, i) PROVE NoLostWakeup'
  BY <1>0, <1>29 DEF ReaderCheck
<1>30. ASSUME NEW u \in Readers, ReaderFetch(u) PROVE NoLostWakeup'
  BY <1>0, <1>30 DEF ReaderFetch
<1>31. ASSUME NEW u \in Readers, NEW v \in Values, ReaderUse(u, v) PROVE NoLostWakeup'
  BY <1>0, <1>31 DEF ReaderUse
<1>32. CASE UNCHANGED vars
  BY <1>0, <1>32 DEF vars
<1>m. ASSUME NEW t \in Threads, NEW r \in Requesters, PostReapAmid(t, r) PROVE NoLostWakeup'
  BY <1>0, <1>m DEF PostReapAmid, Rebuild
<1> HIDE DEF NoLostWakeup, HoldsMutex, StateMutexFree, ControlOK, Threads, Goto, bgVars, env, objects
<1>33. QED
    BY <1>m, <1>1, <1>2, <1>3, <1>4, <1>5, <1>6, <1>7, <1>8, <1>9, <1>10, <1>11, <1>12,
     <1>13, <1>14, <1>15, <1>16, <1>17, <1>18, <1>19, <1>20, <1>21, <1>22, <1>23,
     <1>24, <1>25, <1>26, <1>27, <1>28, <1>29, <1>30, <1>31,
     <1>32 DEF Next, BgRun, RequesterStep, PreDetection, PostDetection, ReaderStep, Threads

LEMMA FreshStep == IInv /\ [Next]_vars => Fresh'
<1> SUFFICES ASSUME IInv, [Next]_vars PROVE Fresh'
  OBVIOUS
<1> USE DEF Fresh, FreshDevices, ControlOK, ObjectsOK, Controllers, Threads, Goto, scan, RunLabels, objects
<1>0. ControlOK /\ ObjectsOK /\ Fresh
  BY DEF IInv, TypeOK
<1>1. ASSUME NEW t \in Threads, CheckRequired(t) PROVE Fresh'
  BY <1>0, <1>1 DEF CheckRequired, AfterRefusal
<1>2. ASSUME NEW t \in Threads, WaitForDetection(t) PROVE Fresh'
  BY <1>0, <1>2 DEF WaitForDetection
<1>3. ASSUME NEW t \in Threads, SavePending(t) PROVE Fresh'
  BY <1>0, <1>3 DEF SavePending
<1>4. ASSUME NEW t \in Threads, ClearHardware(t) PROVE Fresh'
  BY <1>0, <1>4 DEF ClearHardware
<1>5. ASSUME NEW t \in Threads, UpdateList(t) PROVE Fresh'
  BY <1>0, <1>5 DEF UpdateList, Rebuild
<1>6. ASSUME NEW t \in Threads, SetRequired(t) PROVE Fresh'
  BY <1>0, <1>6 DEF SetRequired
<1>7. ASSUME NEW t \in Threads, PostFlag(t) PROVE Fresh'
  BY <1>0, <1>7 DEF PostFlag
<1>8. ASSUME NEW t \in Threads, PostReap(t) PROVE Fresh'
  BY <1>0, <1>8 DEF PostReap, Reapable
<1>9. ASSUME NEW t \in Threads, PostScan(t) PROVE Fresh'
  BY <1>0, <1>9 DEF PostScan
<1>10. ASSUME NEW t \in Requesters, RequestRescan(t) PROVE Fresh'
  BY <1>0, <1>10 DEF RequestRescan
<1>11. ASSUME NEW t \in Requesters, ScheduleHidExit(t) PROVE Fresh'
  BY <1>0, <1>11 DEF ScheduleHidExit
<1>12. ASSUME NEW t \in Requesters, Notify(t) PROVE Fresh'
  BY <1>0, <1>12 DEF Notify
<1>13. ASSUME NEW t \in Requesters, ScheduleDetect(t) PROVE Fresh'
  BY <1>0, <1>13 DEF ScheduleDetect
<1>14. CASE BgThrow
  BY <1>0, <1>14 DEF BgThrow
<1>15. CASE BgDispatch
  BY <1>0, <1>15 DEF BgDispatch
<1>16. CASE BgSpuriousWakeup
  BY <1>0, <1>16 DEF BgSpuriousWakeup
<1>17. CASE BgHidExit
  BY <1>0, <1>17 DEF BgHidExit
<1>18. CASE BgInit
  BY <1>0, <1>18 DEF BgInit
<1>19. CASE BgStartServers
  BY <1>0, <1>19 DEF BgStartServers
<1>20. CASE BgDetect
  <2>1. run' = run + 1 /\ val' = val /\ pc'[BG] = "loop" /\ found' = {}
    BY <1>0, <1>20 DEF BgDetect
  <2>2. ASSUME NEW c \in DOMAIN val PROVE c[2] <= run' /\ c[2] # run'
    BY <1>0, <2>1, <2>2
  <2>3. ASSUME NEW d \in Devices PROVE <<d, run'>> \notin DOMAIN val
    BY <2>2
  <2>4. QED
    BY <1>0, <2>1, <2>2, <2>3
<1>21. CASE BgLoadSizes \/ BgShow
  BY <1>0, <1>21 DEF BgLoadSizes, BgShow, Rebuild, NewlyAdded
<1>22. CASE BgPublish
  BY <1>0, <1>22 DEF BgPublish, Rebuild
<1>23. CASE BgLoopEnd
  BY <1>0, <1>23 DEF BgLoopEnd, DevicesChanged
<1>24. CASE StopDeviceDetection
  BY <1>0, <1>24 DEF StopDeviceDetection
<1>25. CASE PlugOrUnplug
  BY <1>0, <1>25 DEF PlugOrUnplug
<1>26. ASSUME NEW d \in Devices, BgDetector(d) PROVE Fresh'
  BY <1>0, <1>26 DEF BgDetector
<1>27. ASSUME NEW d \in Devices, BgRegisterNew(d) PROVE Fresh'
  BY <1>0, <1>27 DEF BgRegisterNew, Register
<1>28. ASSUME NEW d \in Devices, BgRegisterKnown(d) PROVE Fresh'
  BY <1>0, <1>28 DEF BgRegisterKnown, Register, Unmatched
<1>29. ASSUME NEW u \in Readers, NEW i \in DOMAIN Served, ReaderCheck(u, i) PROVE Fresh'
  BY <1>0, <1>29 DEF ReaderCheck
<1>30. ASSUME NEW u \in Readers, ReaderFetch(u) PROVE Fresh'
  BY <1>0, <1>30 DEF ReaderFetch
<1>31. ASSUME NEW u \in Readers, NEW v \in Values, ReaderUse(u, v) PROVE Fresh'
  BY <1>0, <1>31 DEF ReaderUse
<1>32. CASE UNCHANGED vars
  BY <1>0, <1>32 DEF vars
<1>m. ASSUME NEW t \in Threads, NEW r \in Requesters, PostReapAmid(t, r) PROVE Fresh'
  BY <1>0, <1>m DEF PostReapAmid, Rebuild
<1> HIDE DEF Fresh, FreshDevices, ControlOK, ObjectsOK, Controllers, Threads, Goto, scan, RunLabels, objects
<1>33. QED
    BY <1>m, <1>1, <1>2, <1>3, <1>4, <1>5, <1>6, <1>7, <1>8, <1>9, <1>10, <1>11, <1>12,
     <1>13, <1>14, <1>15, <1>16, <1>17, <1>18, <1>19, <1>20, <1>21, <1>22, <1>23,
     <1>24, <1>25, <1>26, <1>27, <1>28, <1>29, <1>30, <1>31,
     <1>32 DEF Next, BgRun, RequesterStep, PreDetection, PostDetection, ReaderStep, Threads

LEMMA ElemsAppend ==
  ASSUME NEW S, NEW q \in Seq(S), NEW x \in S
  PROVE  Elems(Append(q, x)) = Elems(q) \cup {x}
<1>1. DOMAIN q = 1..Len(q) /\ DOMAIN Append(q, x) = 1..(Len(q) + 1)
  OBVIOUS
<1>2. \A i \in 1..Len(q) : Append(q, x)[i] = q[i]
  OBVIOUS
<1>3. Append(q, x)[Len(q) + 1] = x
  OBVIOUS
<1>4. QED
  BY <1>1, <1>2, <1>3 DEF Elems

LEMMA OpenedStep == IInv /\ [Next]_vars => Opened'
<1> SUFFICES ASSUME IInv, [Next]_vars PROVE Opened'
  OBVIOUS
<1> USE DEF Opened, ObjectsOK, Elems, Controllers, lists, objects
<1>0. ObjectsOK /\ Opened
  BY DEF IInv, TypeOK
<1>1. ASSUME NEW t \in Threads, CheckRequired(t) PROVE Opened'
  BY <1>0, <1>1 DEF CheckRequired, AfterRefusal
<1>2. ASSUME NEW t \in Threads, WaitForDetection(t) PROVE Opened'
  BY <1>0, <1>2 DEF WaitForDetection
<1>3. ASSUME NEW t \in Threads, SavePending(t) PROVE Opened'
  BY <1>0, <1>3 DEF SavePending
<1>4. ASSUME NEW t \in Threads, ClearHardware(t) PROVE Opened'
  BY <1>0, <1>4 DEF ClearHardware
<1>5. ASSUME NEW t \in Threads, UpdateList(t) PROVE Opened'
  BY <1>0, <1>5 DEF UpdateList, Rebuild
<1>6. ASSUME NEW t \in Threads, SetRequired(t) PROVE Opened'
  BY <1>0, <1>6 DEF SetRequired
<1>7. ASSUME NEW t \in Threads, PostFlag(t) PROVE Opened'
  BY <1>0, <1>7 DEF PostFlag
<1>8. ASSUME NEW t \in Threads, PostReap(t) PROVE Opened'
  BY <1>0, <1>8 DEF PostReap, Reapable
<1>9. ASSUME NEW t \in Threads, PostScan(t) PROVE Opened'
  BY <1>0, <1>9 DEF PostScan
<1>10. ASSUME NEW t \in Requesters, RequestRescan(t) PROVE Opened'
  BY <1>0, <1>10 DEF RequestRescan
<1>11. ASSUME NEW t \in Requesters, ScheduleHidExit(t) PROVE Opened'
  BY <1>0, <1>11 DEF ScheduleHidExit
<1>12. ASSUME NEW t \in Requesters, Notify(t) PROVE Opened'
  BY <1>0, <1>12 DEF Notify
<1>13. ASSUME NEW t \in Requesters, ScheduleDetect(t) PROVE Opened'
  BY <1>0, <1>13 DEF ScheduleDetect
<1>14. CASE BgThrow
  BY <1>0, <1>14 DEF BgThrow
<1>15. CASE BgDispatch
  BY <1>0, <1>15 DEF BgDispatch
<1>16. CASE BgSpuriousWakeup
  BY <1>0, <1>16 DEF BgSpuriousWakeup
<1>17. CASE BgHidExit
  BY <1>0, <1>17 DEF BgHidExit
<1>18. CASE BgInit
  BY <1>0, <1>18 DEF BgInit
<1>19. CASE BgStartServers
  BY <1>0, <1>19 DEF BgStartServers
<1>20. CASE BgDetect
  BY <1>0, <1>20 DEF BgDetect
<1>21. CASE BgLoadSizes \/ BgShow
  BY <1>0, <1>21 DEF BgLoadSizes, BgShow, Rebuild, NewlyAdded
<1>22. CASE BgPublish
  BY <1>0, <1>22 DEF BgPublish, Rebuild
<1>23. CASE BgLoopEnd
  BY <1>0, <1>23 DEF BgLoopEnd, DevicesChanged
<1>24. CASE StopDeviceDetection
  BY <1>0, <1>24 DEF StopDeviceDetection
<1>25. CASE PlugOrUnplug
  BY <1>0, <1>25 DEF PlugOrUnplug
<1>26. ASSUME NEW d \in Devices, BgDetector(d) PROVE Opened'
  BY <1>0, <1>26 DEF BgDetector
<1>27. ASSUME NEW d \in Devices, BgRegisterNew(d) PROVE Opened'
  BY <1>0, <1>27 DEF BgRegisterNew, Register
<1>28. ASSUME NEW d \in Devices, BgRegisterKnown(d) PROVE Opened'
  <2>1. PICK i \in Unmatched(d) : Register(d, val[pending[i]])
    BY <1>28 DEF BgRegisterKnown
  <2>2. /\ hw' = Append(hw, <<d, run>>) /\ DOMAIN val' = DOMAIN val \cup {<<d, run>>}
        /\ UNCHANGED <<listed, pending, freed>>
    BY <1>28, <2>1 DEF BgRegisterKnown, Register
  <2>. QED
    <3> HIDE DEF ControlOK, ObjectsOK, Opened, Elems, Controllers
    <3>1. hw \in Seq(Controllers) /\ <<d, run>> \in Controllers
      BY <1>0, <1>28 DEF ObjectsOK, Controllers
    <3>2. Elems(hw') = Elems(hw) \cup {<<d, run>>}
      BY <2>2, <3>1, ElemsAppend
    <3>. QED
      BY <1>0, <2>2, <3>2 DEF Opened
<1>29. ASSUME NEW u \in Readers, NEW i \in DOMAIN Served, ReaderCheck(u, i) PROVE Opened'
  BY <1>0, <1>29 DEF ReaderCheck
<1>30. ASSUME NEW u \in Readers, ReaderFetch(u) PROVE Opened'
  BY <1>0, <1>30 DEF ReaderFetch
<1>31. ASSUME NEW u \in Readers, NEW v \in Values, ReaderUse(u, v) PROVE Opened'
  BY <1>0, <1>31 DEF ReaderUse
<1>32. CASE UNCHANGED vars
  BY <1>0, <1>32 DEF vars
<1>m. ASSUME NEW t \in Threads, NEW r \in Requesters, PostReapAmid(t, r) PROVE Opened'
  BY <1>0, <1>m DEF PostReapAmid, Rebuild
<1> HIDE DEF Opened, ObjectsOK, Elems, Controllers, lists, objects
<1>33. QED
    BY <1>m, <1>1, <1>2, <1>3, <1>4, <1>5, <1>6, <1>7, <1>8, <1>9, <1>10, <1>11, <1>12,
     <1>13, <1>14, <1>15, <1>16, <1>17, <1>18, <1>19, <1>20, <1>21, <1>22, <1>23,
     <1>24, <1>25, <1>26, <1>27, <1>28, <1>29, <1>30, <1>31,
     <1>32 DEF Next, BgRun, RequesterStep, PreDetection, PostDetection, ReaderStep, Threads

LEMMA HwShownStep == IInv /\ [Next]_vars => HwShown'
<1> SUFFICES ASSUME IInv, [Next]_vars PROVE HwShown'
  OBVIOUS
<1> USE DEF ControlOK, ObjectsOK, Threads, Goto, lists, scan, objects
<1>0. ControlOK /\ ObjectsOK /\ HwShown
  BY DEF IInv, TypeOK
<1>a. (hw' = hw /\ listed' = listed
      /\ (pc[BG] \in {"sizes", "show", "publish"} =>
            pc'[BG] \in {"sizes", "show", "publish"} /\ found' = found /\ run' = run)) => HwShown'
  BY <1>0 DEF HwShown
<1>1. ASSUME NEW t \in Threads, CheckRequired(t) PROVE HwShown'
  BY <1>0, <1>a, <1>1 DEF CheckRequired, AfterRefusal
<1>2. ASSUME NEW t \in Threads, WaitForDetection(t) PROVE HwShown'
  BY <1>0, <1>a, <1>2 DEF WaitForDetection
<1>3. ASSUME NEW t \in Threads, SavePending(t) PROVE HwShown'
  BY <1>0, <1>a, <1>3 DEF SavePending
<1>4. ASSUME NEW t \in Threads, ClearHardware(t) PROVE HwShown'
  BY <1>0, <1>a, <1>4 DEF ClearHardware, HwShown, Elems
<1>5. ASSUME NEW t \in Threads, UpdateList(t) PROVE HwShown'
  BY <1>0, <1>a, <1>5 DEF UpdateList, Rebuild, HwShown
<1>6. ASSUME NEW t \in Threads, SetRequired(t) PROVE HwShown'
  BY <1>0, <1>a, <1>6 DEF SetRequired
<1>7. ASSUME NEW t \in Threads, PostFlag(t) PROVE HwShown'
  BY <1>0, <1>a, <1>7 DEF PostFlag
<1>8. ASSUME NEW t \in Threads, PostReap(t) PROVE HwShown'
  BY <1>0, <1>a, <1>8 DEF PostReap, Reapable
<1>9. ASSUME NEW t \in Threads, PostScan(t) PROVE HwShown'
  BY <1>0, <1>a, <1>9 DEF PostScan
<1>10. ASSUME NEW t \in Requesters, RequestRescan(t) PROVE HwShown'
  BY <1>0, <1>a, <1>10 DEF RequestRescan
<1>11. ASSUME NEW t \in Requesters, ScheduleHidExit(t) PROVE HwShown'
  BY <1>0, <1>a, <1>11 DEF ScheduleHidExit
<1>12. ASSUME NEW t \in Requesters, Notify(t) PROVE HwShown'
  BY <1>0, <1>a, <1>12 DEF Notify
<1>13. ASSUME NEW t \in Requesters, ScheduleDetect(t) PROVE HwShown'
  BY <1>0, <1>a, <1>13 DEF ScheduleDetect
<1>14. CASE BgThrow
  BY <1>0, <1>a, <1>14 DEF BgThrow
<1>15. CASE BgDispatch
  BY <1>0, <1>a, <1>15 DEF BgDispatch
<1>16. CASE BgSpuriousWakeup
  BY <1>0, <1>a, <1>16 DEF BgSpuriousWakeup
<1>17. CASE BgHidExit
  BY <1>0, <1>a, <1>17 DEF BgHidExit
<1>18. CASE BgInit
  BY <1>0, <1>a, <1>18 DEF BgInit
<1>19. CASE BgStartServers
  BY <1>0, <1>a, <1>19 DEF BgStartServers
<1>20. CASE BgDetect
  BY <1>0, <1>a, <1>20 DEF BgDetect
<1>21. CASE BgLoadSizes \/ BgShow
  BY <1>0, <1>a, <1>21 DEF BgLoadSizes, BgShow, Rebuild, NewlyAdded, HwShown
<1>22. CASE BgPublish
  BY <1>0, <1>a, <1>22 DEF BgPublish, Rebuild, HwShown
<1>23. CASE BgLoopEnd
  BY <1>0, <1>a, <1>23 DEF BgLoopEnd, DevicesChanged
<1>24. CASE StopDeviceDetection
  BY <1>0, <1>a, <1>24 DEF StopDeviceDetection
<1>25. CASE PlugOrUnplug
  BY <1>0, <1>a, <1>25 DEF PlugOrUnplug
<1>26. ASSUME NEW d \in Devices, BgDetector(d) PROVE HwShown'
  BY <1>0, <1>a, <1>26 DEF BgDetector
<1>27. ASSUME NEW d \in Devices, BgRegisterNew(d) PROVE HwShown'
  <2>1. hw' = Append(hw, <<d, run>>) /\ d \in found /\ pc'[BG] = "sizes"
         /\ found' = found /\ run' = run /\ listed' = listed
         /\ pc[BG] \notin {"sizes", "show", "publish"}
    BY <1>0, <1>27 DEF BgRegisterNew, Register
  <2>2. hw \in Seq(Controllers) /\ <<d, run>> \in Controllers
    BY <1>0 DEF Controllers
  <2>3. Elems(hw') = Elems(hw) \cup {<<d, run>>}
    <3> HIDE DEF ControlOK, ObjectsOK
    <3>1. QED
      BY <2>1, <2>2, ElemsAppend
  <2>4. QED
    BY <2>1, <2>3, <1>0 DEF HwShown
<1>28. ASSUME NEW d \in Devices, BgRegisterKnown(d) PROVE HwShown'
  <2>1. hw' = Append(hw, <<d, run>>) /\ d \in found /\ pc'[BG] = "sizes"
         /\ found' = found /\ run' = run /\ listed' = listed
         /\ pc[BG] \notin {"sizes", "show", "publish"}
    BY <1>0, <1>28 DEF BgRegisterKnown, Register
  <2>2. hw \in Seq(Controllers) /\ <<d, run>> \in Controllers
    BY <1>0 DEF Controllers
  <2>3. Elems(hw') = Elems(hw) \cup {<<d, run>>}
    <3> HIDE DEF ControlOK, ObjectsOK
    <3>1. QED
      BY <2>1, <2>2, ElemsAppend
  <2>4. QED
    BY <2>1, <2>3, <1>0 DEF HwShown
<1>29. ASSUME NEW u \in Readers, NEW i \in DOMAIN Served, ReaderCheck(u, i) PROVE HwShown'
  BY <1>0, <1>a, <1>29 DEF ReaderCheck
<1>30. ASSUME NEW u \in Readers, ReaderFetch(u) PROVE HwShown'
  BY <1>0, <1>a, <1>30 DEF ReaderFetch
<1>31. ASSUME NEW u \in Readers, NEW v \in Values, ReaderUse(u, v) PROVE HwShown'
  BY <1>0, <1>a, <1>31 DEF ReaderUse
<1>32. CASE UNCHANGED vars
  BY <1>0, <1>a, <1>32 DEF vars
<1>m. ASSUME NEW t \in Threads, NEW r \in Requesters, PostReapAmid(t, r) PROVE HwShown'
  <2>1. listed' = hw /\ hw' = hw
    BY <1>m DEF PostReapAmid, Rebuild
  <2>2. QED
    BY <2>1 DEF HwShown
<1> HIDE DEF ControlOK, ObjectsOK, Threads, Goto, lists, scan, objects
<1>33. QED
    BY <1>m, <1>1, <1>2, <1>3, <1>4, <1>5, <1>6, <1>7, <1>8, <1>9, <1>10, <1>11, <1>12,
     <1>13, <1>14, <1>15, <1>16, <1>17, <1>18, <1>19, <1>20, <1>21, <1>22, <1>23,
     <1>24, <1>25, <1>26, <1>27, <1>28, <1>29, <1>30, <1>31,
     <1>32 DEF Next, BgRun, RequesterStep, PreDetection, PostDetection, ReaderStep, Threads

LEMMA FreedStep == IInv /\ [Next]_vars => FreedUnreachable'
<1> SUFFICES ASSUME IInv, [Next]_vars PROVE FreedUnreachable'
  OBVIOUS
<1> USE DEF ControlOK, ObjectsOK, lists, scan, Threads, objects
<1>0. /\ ControlOK /\ ObjectsOK /\ Opened /\ HwShown /\ Phase /\ Fresh
      /\ FreedUnreachable
  BY DEF IInv, TypeOK
<1>a. hw' = hw /\ listed' = listed /\ freed' = freed => FreedUnreachable'
  BY <1>0 DEF FreedUnreachable
<1>1. ASSUME NEW t \in Threads, CheckRequired(t) PROVE FreedUnreachable'
  BY <1>0, <1>a, <1>1 DEF CheckRequired, AfterRefusal
<1>2. ASSUME NEW t \in Threads, WaitForDetection(t) PROVE FreedUnreachable'
  BY <1>0, <1>a, <1>2 DEF WaitForDetection
<1>3. ASSUME NEW t \in Threads, SavePending(t) PROVE FreedUnreachable'
  BY <1>0, <1>a, <1>3 DEF SavePending
<1>4. ASSUME NEW t \in Threads, ClearHardware(t) PROVE FreedUnreachable'
  BY <1>0, <1>a, <1>4 DEF ClearHardware, FreedUnreachable, Elems
<1>5. ASSUME NEW t \in Threads, UpdateList(t) PROVE FreedUnreachable'
  BY <1>0, <1>a, <1>5 DEF UpdateList, Rebuild, FreedUnreachable
<1>6. ASSUME NEW t \in Threads, SetRequired(t) PROVE FreedUnreachable'
  BY <1>0, <1>a, <1>6 DEF SetRequired
<1>7. ASSUME NEW t \in Threads, PostFlag(t) PROVE FreedUnreachable'
  BY <1>0, <1>a, <1>7 DEF PostFlag
<1>8. ASSUME NEW t \in Threads, PostReap(t) PROVE FreedUnreachable'
  <2>1. freed' = freed \cup (Elems(pending) \ Elems(listed))
         /\ hw' = hw /\ listed' = listed
    BY <1>8 DEF PostReap, Reapable
  <2>2. CASE t = BG
    BY <2>1, <2>2, <1>0, <1>8 DEF PostReap, HwShown, FreedUnreachable
  <2>3. CASE t \in Requesters
    <3>1. hw = <<>>
      BY <2>3, <1>0, <1>8 DEF PostReap, Phase, PostLabels
    <3>2. Elems(hw) = {}
      BY <3>1 DEF Elems
    <3>3. QED
      BY <3>2, <2>1, <1>0 DEF FreedUnreachable
  <2>4. QED
    BY <2>2, <2>3 DEF Threads
<1>9. ASSUME NEW t \in Threads, PostScan(t) PROVE FreedUnreachable'
  BY <1>0, <1>a, <1>9 DEF PostScan
<1>10. ASSUME NEW t \in Requesters, RequestRescan(t) PROVE FreedUnreachable'
  BY <1>0, <1>a, <1>10 DEF RequestRescan
<1>11. ASSUME NEW t \in Requesters, ScheduleHidExit(t) PROVE FreedUnreachable'
  BY <1>0, <1>a, <1>11 DEF ScheduleHidExit
<1>12. ASSUME NEW t \in Requesters, Notify(t) PROVE FreedUnreachable'
  BY <1>0, <1>a, <1>12 DEF Notify
<1>13. ASSUME NEW t \in Requesters, ScheduleDetect(t) PROVE FreedUnreachable'
  BY <1>0, <1>a, <1>13 DEF ScheduleDetect
<1>14. CASE BgThrow
  BY <1>0, <1>a, <1>14 DEF BgThrow
<1>15. CASE BgDispatch
  BY <1>0, <1>a, <1>15 DEF BgDispatch
<1>16. CASE BgSpuriousWakeup
  BY <1>0, <1>a, <1>16 DEF BgSpuriousWakeup
<1>17. CASE BgHidExit
  BY <1>0, <1>a, <1>17 DEF BgHidExit
<1>18. CASE BgInit
  BY <1>0, <1>a, <1>18 DEF BgInit
<1>19. CASE BgStartServers
  BY <1>0, <1>a, <1>19 DEF BgStartServers
<1>20. CASE BgDetect
  BY <1>0, <1>a, <1>20 DEF BgDetect
<1>21. CASE BgLoadSizes \/ BgShow
  BY <1>0, <1>a, <1>21 DEF BgLoadSizes, BgShow, Rebuild, NewlyAdded, FreedUnreachable
<1>22. CASE BgPublish
  BY <1>0, <1>a, <1>22 DEF BgPublish, Rebuild, FreedUnreachable
<1>23. CASE BgLoopEnd
  BY <1>0, <1>a, <1>23 DEF BgLoopEnd, DevicesChanged
<1>24. CASE StopDeviceDetection
  BY <1>0, <1>a, <1>24 DEF StopDeviceDetection
<1>25. CASE PlugOrUnplug
  BY <1>0, <1>a, <1>25 DEF PlugOrUnplug
<1>26. ASSUME NEW d \in Devices, BgDetector(d) PROVE FreedUnreachable'
  BY <1>0, <1>a, <1>26 DEF BgDetector
<1>27. ASSUME NEW d \in Devices, BgRegisterNew(d) PROVE FreedUnreachable'
  <2>1. hw' = Append(hw, <<d, run>>) /\ <<d, run>> \in Controllers
         /\ <<d, run>> \notin freed /\ freed' = freed /\ listed' = listed
    BY <1>0, <1>27 DEF BgRegisterNew, Register, Fresh, FreshDevices, Opened, RunLabels, Controllers
  <2>2. hw \in Seq(Controllers)
    BY <1>0
  <2>3. Elems(hw') = Elems(hw) \cup {<<d, run>>}
    <3> HIDE DEF ControlOK, ObjectsOK, Controllers, Elems
    <3>1. QED
      BY <2>1, <2>2, ElemsAppend
  <2>4. Elems(hw) \cap freed = {} /\ Elems(listed) \cap freed = {}
    BY <1>0 DEF FreedUnreachable
  <2> HIDE DEF ControlOK, ObjectsOK, Controllers, Elems
  <2>5. QED
    BY <2>1, <2>3, <2>4 DEF FreedUnreachable
<1>28. ASSUME NEW d \in Devices, BgRegisterKnown(d) PROVE FreedUnreachable'
  <2>1. hw' = Append(hw, <<d, run>>) /\ <<d, run>> \in Controllers
         /\ <<d, run>> \notin freed /\ freed' = freed /\ listed' = listed
    BY <1>0, <1>28 DEF BgRegisterKnown, Register, Fresh, FreshDevices, Opened, RunLabels, Controllers
  <2>2. hw \in Seq(Controllers)
    BY <1>0
  <2>3. Elems(hw') = Elems(hw) \cup {<<d, run>>}
    <3> HIDE DEF ControlOK, ObjectsOK, Controllers, Elems
    <3>1. QED
      BY <2>1, <2>2, ElemsAppend
  <2>4. Elems(hw) \cap freed = {} /\ Elems(listed) \cap freed = {}
    BY <1>0 DEF FreedUnreachable
  <2> HIDE DEF ControlOK, ObjectsOK, Controllers, Elems
  <2>5. QED
    BY <2>1, <2>3, <2>4 DEF FreedUnreachable
<1>29. ASSUME NEW u \in Readers, NEW i \in DOMAIN Served, ReaderCheck(u, i) PROVE FreedUnreachable'
  BY <1>0, <1>a, <1>29 DEF ReaderCheck
<1>30. ASSUME NEW u \in Readers, ReaderFetch(u) PROVE FreedUnreachable'
  BY <1>0, <1>a, <1>30 DEF ReaderFetch
<1>31. ASSUME NEW u \in Readers, NEW v \in Values, ReaderUse(u, v) PROVE FreedUnreachable'
  BY <1>0, <1>a, <1>31 DEF ReaderUse
<1>32. CASE UNCHANGED vars
  BY <1>0, <1>a, <1>32 DEF vars
<1>m. ASSUME NEW t \in Threads, NEW r \in Requesters, PostReapAmid(t, r) PROVE FreedUnreachable'
  <2>1. PICK seen \in SUBSET Elems(listed) :
           /\ Elems(listed) \cap Elems(hw) \subseteq seen
           /\ freed' = freed \cup (Elems(pending) \ seen)
    BY <1>m, Zenon DEF PostReapAmid
  <2>2. pc[t] = "postReap" /\ pc[r] = "update" /\ listed' = hw /\ hw' = hw
    BY <1>m DEF PostReapAmid, Rebuild
  <2>3. t = BG
    BY <1>0, <2>2 DEF Phase, PostLabels
  <2>4. Elems(hw) \subseteq Elems(listed)
    BY <1>0, <2>2, <2>3 DEF HwShown
  <2>5. Elems(hw) \cap freed' = {}
    BY <1>0, <2>1, <2>4 DEF FreedUnreachable
  <2>6. QED
    BY <2>2, <2>5 DEF FreedUnreachable
<1> HIDE DEF ControlOK, ObjectsOK, lists, scan, Threads, objects
<1>33. QED
    BY <1>m, <1>1, <1>2, <1>3, <1>4, <1>5, <1>6, <1>7, <1>8, <1>9, <1>10, <1>11, <1>12,
     <1>13, <1>14, <1>15, <1>16, <1>17, <1>18, <1>19, <1>20, <1>21, <1>22, <1>23,
     <1>24, <1>25, <1>26, <1>27, <1>28, <1>29, <1>30, <1>31,
     <1>32 DEF Next, BgRun, RequesterStep, PreDetection, PostDetection, ReaderStep, Threads

LEMMA Inductive == IInv /\ [Next]_vars => IInv'
  BY FlagsStep, ControlStep, ObjectsStep, HandlersStep, PhaseStep, HoldsMutexStep,
     WakeupStep, FreshStep, OpenedStep, HwShownStep, FreedStep DEF IInv, TypeOK

LEMMA Invariance == Spec => []IInv
  BY InitInv, Inductive, PTL DEF Spec

-----------------------------------------------------------------------------
\* The state of the detection stays well-formed, for any number of threads.
THEOREM TypeCorrect == Spec => []TypeOK
  BY Invariance, PTL DEF IInv

\* No list ever holds a controller that ProcessPostDetection deleted: an
\* object leaves the hardware list only by way of the pending list, and what
\* is hardware and pending at once is shown, so PostReap spares it, also if
\* the list is rebuilt meanwhile.
THEOREM FreedNeverReachable == Spec => []FreedUnreachable
  BY Invariance, PTL DEF IInv

\* RunInBackgroundThread loses no wake-up: a coroutine is only scheduled while
\* the background thread is off its mutex, and the thread that scheduled it
\* has its notification still to come.
THEOREM WakeupNeverLost == Spec => []NoLostWakeup
  BY Invariance, PTL DEF IInv

-----------------------------------------------------------------------------
(***************************************************************************)
(* What a rescan does to the device lists.                                 *)
(*                                                                         *)
(* Two hold for any number of requesting threads: a handler that holds     *)
(* DeviceListChangeMutex works on no deleted controller (InHand), and,     *)
(* unless a detector throws, the lists agree when everything is idle       *)
(* (RebuildAhead, ReapAhead: what still has to be done has somebody who    *)
(* is about to do it).                                                     *)
(*                                                                         *)
(* The others need OneRequester: ProcessPreDetection tests                 *)
(* detection_is_required long before it sets it, so two threads that ask   *)
(* at once run Cleanup side by side, and then a controller may leak, a     *)
(* device may be shown twice and its settings may be lost; TLC finds each  *)
(* of these with two requesters.  With one, that has to wait until         *)
(* InitCoroutine is over, the invariant is Serial: its requests, with      *)
(* their Cleanup, and the runs of the background thread take turns         *)
(* (Turns), except that a request may save and clear while a stopped run   *)
(* is still on its way out, and then there is nothing left to clear        *)
(* (Emptied).  Everything else follows that order: what each list holds    *)
(* beside the other (ShownOnly, Saved), of which run (Current, Latest,     *)
(* Previous), and that each device is in it once (Distinct).               *)
(***************************************************************************)
(***************************************************************************)
(* Any number of requesters.                                               *)
(***************************************************************************)

\* About to rebuild the list.
Rebuilding == {"schedExit", "notifyExit", "update"}

\* Where the list is out of date, somebody is about to rebuild it.
RebuildAhead ==
    \/ listed = hw
    \/ \E t \in Threads : pc[t] \in Rebuilding
    \/ pc[BG] \in {"sizes", "show", "publish"}

\* Where something is pending or matched, somebody is about to reap it.
ReapAhead ==
    \/ pending = <<>> /\ matched = {}
    \/ \E t \in Threads :
         pc[t] \in Rebuilding \cup {"clear", "require", "schedDetect"}
    \/ sched = "detect"
    \/ pc[BG] \in {"detect", "postFlag", "postReap"} \cup RunLabels

\* A locked handler holds the mutex from its check to its last use, and its
\* controller is alive: it is shown, or was registered a moment ago.
InHand ==
    \A u \in LockedReaders :
        /\ rd[u] # "idle" => listLock = u
        /\ rd[u] # "using" => rdCtl[u] = {}
        /\ rdCtl[u] \cap freed = {}
        /\ \A c \in rdCtl[u] :
              c \in Elems(listed) \/ pc[BG] \in {"sizes", "show", "publish"}

\* A list that is out of date has its UpdateDeviceList still to come, whoever
\* cleared the hardware list and whoever registers a controller.
LEMMA RebuildAheadStep ==
    ASSUME IInv, RebuildAhead, [Next]_vars
    PROVE  RebuildAhead'
<1> USE DEF ControlOK, RebuildAhead, Rebuilding, Threads, Goto, bgVars,
        lists, scan, env, objects, rdVars
<1>0. ControlOK
  BY DEF IInv, TypeOK
<1>1. ASSUME NEW t \in Threads,
                CheckRequired(t) \/ WaitForDetection(t) \/ SavePending(t)
             \/ ClearHardware(t) \/ UpdateList(t) \/ SetRequired(t)
             \/ PostFlag(t) \/ PostReap(t) \/ PostScan(t)
      PROVE  RebuildAhead'
  BY <1>0, <1>1
    DEF CheckRequired, AfterRefusal, WaitForDetection, SavePending,
        ClearHardware, UpdateList, Rebuild, SetRequired, PostFlag, PostReap,
        PostScan
<1>2. ASSUME NEW t \in Requesters,
                RequestRescan(t) \/ ScheduleHidExit(t) \/ Notify(t)
             \/ ScheduleDetect(t)
      PROVE  RebuildAhead'
  BY <1>0, <1>2 DEF RequestRescan, ScheduleHidExit, Notify, ScheduleDetect
<1>3. ASSUME
                BgThrow \/ BgDispatch \/ BgSpuriousWakeup \/ BgHidExit
             \/ BgInit \/ BgStartServers \/ BgDetect \/ BgLoadSizes \/ BgShow
             \/ BgPublish \/ BgLoopEnd \/ StopDeviceDetection \/ PlugOrUnplug
             \/ UNCHANGED vars
      PROVE  RebuildAhead'
  BY <1>0, <1>3
    DEF BgThrow, BgDispatch, BgSpuriousWakeup, BgHidExit, BgInit,
        BgStartServers, BgDetect, BgLoadSizes, BgShow, Rebuild, BgPublish, BgLoopEnd,
        StopDeviceDetection, PlugOrUnplug, vars
<1>4. ASSUME NEW d \in Devices,
                BgDetector(d) \/ BgRegisterNew(d) \/ BgRegisterKnown(d)
      PROVE  RebuildAhead'
  BY <1>0, <1>4 DEF BgDetector, BgRegisterNew, Register, BgRegisterKnown
<1>5. ASSUME NEW u \in Readers, NEW i \in DOMAIN Served,
             ReaderCheck(u, i)
      PROVE  RebuildAhead'
  BY <1>5 DEF ReaderCheck
<1>6. ASSUME NEW u \in Readers, ReaderFetch(u) PROVE RebuildAhead'
  BY <1>6 DEF ReaderFetch
<1>7. ASSUME NEW u \in Readers, NEW v \in Values,
             ReaderUse(u, v)
      PROVE  RebuildAhead'
  BY <1>7 DEF ReaderUse
<1>m. ASSUME NEW t \in Threads, NEW r \in Requesters, PostReapAmid(t, r) PROVE RebuildAhead'
  BY <1>0, <1>m DEF PostReapAmid, Rebuild
<1> HIDE DEF ControlOK, RebuildAhead, Rebuilding, Threads, Goto, bgVars,
        lists, scan, env, objects, rdVars
<1>8. QED
    BY <1>m, <1>1, <1>2, <1>3, <1>4, <1>5, <1>6, <1>7
    DEF Next, BgRun, RequesterStep, PreDetection, PostDetection,
        ReaderStep, Threads

\* Pending controllers have their detection, and so ProcessPostDetection,
\* still to come, as long as no detector takes the coroutine down.
LEMMA ReapAheadStep ==
    ASSUME IInv, ~DetectorsThrow, ReapAhead, [Next]_vars
    PROVE  ReapAhead'
<1> USE DEF ControlOK, ReapAhead, Rebuilding, RunLabels, Threads, Goto,
        bgVars, lists, scan, env, objects, rdVars
<1>0. ControlOK
  BY DEF IInv, TypeOK
<1>1. ASSUME NEW t \in Threads,
                CheckRequired(t) \/ WaitForDetection(t) \/ SavePending(t)
             \/ ClearHardware(t) \/ UpdateList(t) \/ SetRequired(t)
             \/ PostFlag(t) \/ PostReap(t) \/ PostScan(t)
      PROVE  ReapAhead'
  BY <1>0, <1>1
    DEF CheckRequired, AfterRefusal, WaitForDetection, SavePending,
        ClearHardware, UpdateList, Rebuild, SetRequired, PostFlag, PostReap,
        PostScan
<1>2. ASSUME NEW t \in Requesters,
                RequestRescan(t) \/ ScheduleHidExit(t) \/ Notify(t)
             \/ ScheduleDetect(t)
      PROVE  ReapAhead'
  BY <1>0, <1>2 DEF RequestRescan, ScheduleHidExit, Notify, ScheduleDetect
<1>3. ASSUME
                BgThrow \/ BgDispatch \/ BgSpuriousWakeup \/ BgHidExit
             \/ BgInit \/ BgStartServers \/ BgDetect \/ BgLoadSizes \/ BgShow
             \/ BgPublish \/ BgLoopEnd \/ StopDeviceDetection \/ PlugOrUnplug
             \/ UNCHANGED vars
      PROVE  ReapAhead'
  BY <1>0, <1>3
    DEF BgThrow, BgDispatch, BgSpuriousWakeup, BgHidExit, BgInit,
        BgStartServers, BgDetect, BgLoadSizes, BgShow, Rebuild, BgPublish, BgLoopEnd,
        StopDeviceDetection, PlugOrUnplug, vars
<1>4. ASSUME NEW d \in Devices,
                BgDetector(d) \/ BgRegisterNew(d) \/ BgRegisterKnown(d)
      PROVE  ReapAhead'
  BY <1>0, <1>4 DEF BgDetector, BgRegisterNew, Register, BgRegisterKnown
<1>5. ASSUME NEW u \in Readers, NEW i \in DOMAIN Served,
             ReaderCheck(u, i)
      PROVE  ReapAhead'
  BY <1>5 DEF ReaderCheck
<1>6. ASSUME NEW u \in Readers, ReaderFetch(u) PROVE ReapAhead'
  BY <1>6 DEF ReaderFetch
<1>7. ASSUME NEW u \in Readers, NEW v \in Values,
             ReaderUse(u, v)
      PROVE  ReapAhead'
  BY <1>7 DEF ReaderUse
<1>m. ASSUME NEW t \in Threads, NEW r \in Requesters, PostReapAmid(t, r) PROVE ReapAhead'
  BY <1>0, <1>m DEF PostReapAmid, Rebuild
<1> HIDE DEF ControlOK, ReapAhead, Rebuilding, RunLabels, Threads, Goto,
        bgVars, lists, scan, env, objects, rdVars
<1>8. QED
    BY <1>m, <1>1, <1>2, <1>3, <1>4, <1>5, <1>6, <1>7
    DEF Next, BgRun, RequesterStep, PreDetection, PostDetection,
        ReaderStep, Threads

\* The rebuilds wait for DeviceListChangeMutex, and ProcessPostDetection
\* spares what is shown: the handler's controller is either shown or was
\* registered a moment ago.
LEMMA InHandStep ==
    ASSUME IInv, InHand, [Next]_vars
    PROVE  InHand'
<1> USE DEF ControlOK, HandlersOK, InHand, Threads, Goto, bgVars, lists,
        scan, env, objects, rdVars
<1>0. ControlOK /\ HandlersOK /\ HwShown /\ FreedUnreachable /\ Phase
  BY DEF IInv, TypeOK
<1>a. (/\ listed' = listed /\ freed' = freed
       /\ UNCHANGED <<listLock, rd, rdCtl>>
       /\ pc[BG] \in {"sizes", "show", "publish"} => pc'[BG] \in {"sizes", "show", "publish"})
      => InHand'
  BY DEF InHand
<1>1. ASSUME NEW t \in Threads, UpdateList(t) PROVE InHand'
  BY <1>1 DEF UpdateList, Rebuild
<1>2. ASSUME NEW t \in Threads, PostReap(t) PROVE InHand'
  BY <1>0, <1>2 DEF PostReap, Reapable, Phase, PostLabels
<1>3. ASSUME BgLoadSizes \/ BgShow PROVE InHand'
  <2>1. CASE BgLoadSizes
    BY <1>0, <1>a, <2>1 DEF BgLoadSizes
  <2>2. CASE BgShow
    BY <2>2 DEF BgShow, Rebuild
  <2>3. QED
    BY <1>3, <2>1, <2>2
<1>4. ASSUME BgPublish PROVE InHand'
  BY <1>4 DEF BgPublish, Rebuild
<1>5. ASSUME NEW u \in Readers, ReaderFetch(u) PROVE InHand'
  <2>1. rd[u] = "checked" /\ rdCtl' = [rdCtl EXCEPT ![u] = rdCtl'[u]]
         /\ rd' = [rd EXCEPT ![u] = rd'[u]]
         /\ UNCHANGED <<listLock, listed, freed, pc>>
    BY <1>5 DEF ReaderFetch
  <2>2. rdCtl'[u] \subseteq Elems(hw) \cup Elems(listed)
    BY <1>0, <1>5 DEF ReaderFetch, Served, Elems
  <2>3. rd'[u] # "using" => rdCtl'[u] = {}
    BY <1>0, <1>5 DEF ReaderFetch
  <2>4. \A c \in rdCtl'[u] : c \notin freed
    BY <1>0, <2>2 DEF FreedUnreachable
  <2>5. \A c \in rdCtl'[u] : c \in Elems(listed) \/ pc[BG] \in {"sizes", "show", "publish"}
    BY <1>0, <2>2 DEF HwShown
  <2>6. QED
    BY <1>0, <2>1, <2>3, <2>4, <2>5
<1>6. ASSUME NEW t \in Threads,
                CheckRequired(t) \/ WaitForDetection(t) \/ SavePending(t)
             \/ ClearHardware(t) \/ SetRequired(t) \/ PostFlag(t)
             \/ PostScan(t)
      PROVE  InHand'
  BY <1>0, <1>6
    DEF CheckRequired, AfterRefusal, WaitForDetection, SavePending,
        ClearHardware, SetRequired, PostFlag, PostScan
<1>7. ASSUME NEW t \in Requesters,
                RequestRescan(t) \/ ScheduleHidExit(t) \/ Notify(t)
             \/ ScheduleDetect(t)
      PROVE  InHand'
  BY <1>0, <1>7 DEF RequestRescan, ScheduleHidExit, Notify, ScheduleDetect
<1>8. ASSUME
                BgThrow \/ BgDispatch \/ BgSpuriousWakeup \/ BgHidExit
             \/ BgInit \/ BgStartServers \/ BgDetect \/ BgLoopEnd
             \/ StopDeviceDetection \/ PlugOrUnplug \/ UNCHANGED vars
      PROVE  InHand'
  BY <1>8
    DEF BgThrow, BgDispatch, BgSpuriousWakeup, BgHidExit, BgInit,
        BgStartServers, BgDetect, BgLoopEnd, StopDeviceDetection,
        PlugOrUnplug, vars
<1>9. ASSUME NEW d \in Devices,
                BgDetector(d) \/ BgRegisterNew(d) \/ BgRegisterKnown(d)
      PROVE  InHand'
  BY <1>9 DEF BgDetector, BgRegisterNew, Register, BgRegisterKnown
<1>10. ASSUME NEW u \in Readers, NEW i \in DOMAIN Served,
             ReaderCheck(u, i)
      PROVE  InHand'
  BY <1>10 DEF ReaderCheck
<1>11. ASSUME NEW u \in Readers, NEW v \in Values,
             ReaderUse(u, v)
      PROVE  InHand'
  BY <1>0, <1>11 DEF ReaderUse
<1>m. ASSUME NEW t \in Threads, NEW r \in Requesters, PostReapAmid(t, r) PROVE InHand'
  BY <1>0, <1>m DEF PostReapAmid, Rebuild
<1> HIDE DEF ControlOK, HandlersOK, InHand, Threads, Goto, bgVars, lists,
        scan, env, objects, rdVars
<1>12. QED
    BY <1>m, <1>1, <1>2, <1>3, <1>4, <1>5, <1>6, <1>7, <1>8, <1>9, <1>10, <1>11
    DEF Next, BgRun, RequesterStep, PreDetection, PostDetection,
        ReaderStep, Threads

\* At first the lists are empty and no handler is at work.
LEMMA InitGeneral == Init => RebuildAhead /\ ReapAhead /\ InHand
<1> SUFFICES ASSUME Init PROVE RebuildAhead /\ ReapAhead /\ InHand
  OBVIOUS
<1>1. listed = hw /\ pending = <<>> /\ matched = {}
  BY DEF Init
<1>2. \A u \in Readers : rd[u] = "idle" /\ rdCtl[u] = {}
  BY DEF Init
<1>3. QED
  BY <1>1, <1>2 DEF RebuildAhead, ReapAhead, InHand

\* A handler that holds DeviceListChangeMutex works on no deleted controller,
\* however many threads ask for rescans meanwhile.
THEOREM HandlersSafe == Spec => []LockedReaderSafe
<1>1. IInv /\ InHand /\ [Next]_vars => InHand'
  BY InHandStep
<1>2. InHand => LockedReaderSafe
  BY DEF InHand, LockedReaderSafe
<1>3. QED
  BY <1>1, <1>2, InitGeneral, Invariance, PTL DEF Spec

\* Without an exception in a detector, an idle program shows the hardware
\* list and has no old controller left, however the requests, the stops and
\* the hot-plugging interleaved.
THEOREM ListsSettle == ASSUME ~DetectorsThrow PROVE Spec => []Settled
<1>1. IInv /\ RebuildAhead /\ ReapAhead /\ [Next]_vars
        => RebuildAhead' /\ ReapAhead'
  BY RebuildAheadStep, ReapAheadStep
<1>2. RebuildAhead /\ ReapAhead => Settled
  BY DEF RebuildAhead, ReapAhead, Settled, Threads, Rebuilding, RunLabels
<1>3. QED
  BY <1>1, <1>2, InitGeneral, Invariance, PTL DEF Spec

-----------------------------------------------------------------------------
(***************************************************************************)
(* One requester.                                                          *)
(***************************************************************************)

\* Rescans are asked for by one thread, after InitCoroutine.
OneRequester == (\A t, u \in Requesters : t = u) /\ ~RequestsDuringInit

\* The devices of a list, and that it has one controller for each.
DevicesOf(s) == {Device(c) : c \in Elems(s)}
OneEach(s)   == \A i, j \in DOMAIN s : Device(s[i]) = Device(s[j]) => i = j

\* Where a run stands, and where a request does.
Running  == pc[BG] \in RunLabels \cup PostLabels          \* a run goes on,
Coming   == sched = "detect" \/ pc[BG] = "detect"         \* is about to start
Asking   == {"save", "clear", "schedExit"}                \* in Cleanup
Changing == {"notifyExit", "update", "require", "schedDetect"}

\* Cleanup and the background thread take turns.
Turns ==
    /\ initDone => serversUp /\ pc[BG] \notin PreLabels \cup {"start"}
    /\ ~initDone => \A t \in Requesters : pc[t] = "idle"
    /\ ~initDone /\ serversUp => sched = "none"
    /\ Running /\ enabled => detecting
    /\ \A t \in Requesters :
         /\ pc[t] \in Asking \cup {"wait", "notifyExit", "update", "require"}
              => ~required
         /\ pc[t] \in Asking => pc[BG] \notin {"register", "sizes", "show", "publish"}
         /\ pc[t] \in Asking /\ detecting => Running
         /\ pc[t] \in Changing =>
              pc[BG] \in {"waiting", "woken", "hidExit"} /\ ~Coming

\* When the lists are empty.
Emptied ==
    /\ ~serversUp => matched = {}
    /\ pc[BG] \in PreLabels =>
         hw = <<>> /\ listed = <<>> /\ pending = <<>> /\ matched = {}
    /\ Coming => hw = <<>> /\ matched = {}
    /\ \A t \in Requesters :
         /\ pc[t] \in Changing \cup {"schedExit"} => hw = <<>> /\ matched = {}
         /\ pc[t] \in Asking /\ (Running \/ Coming) => hw = <<>> /\ listed = <<>>

\* The list shows the old controllers until it is rebuilt.
ShownOnly ==
    /\ (\E t \in Requesters : pc[t] \in Rebuilding) =>
         Elems(listed) \subseteq Elems(pending)
    /\ (\A t \in Requesters : pc[t] \notin Rebuilding) =>
         Elems(listed) \subseteq Elems(hw)

\* The old controllers are pending before they are cleared, and no pending
\* ones of an earlier run are in the way.
Saved ==
    /\ \A t \in Requesters : pc[t] = "clear" => Elems(hw) \subseteq Elems(pending)
    /\ hw # <<>> /\ pending # <<>> =>
         detecting \/ \E t \in Requesters : pc[t] = "clear"
    /\ pc[BG] = "postScan" => pending = <<>>
    /\ serversUp /\ ~enabled => DOMAIN val = {}

\* The hardware list is of the current run, and of devices whose detectors ran.
Current ==
    pc[BG] \in RunLabels =>
        \A c \in Elems(hw) : c[2] = run /\ Device(c) \notin FreshDevices

\* No list shows a device twice.
Distinct == OneEach(hw) /\ OneEach(listed) /\ OneEach(pending)

\* Controllers of the latest run are hardware, or pending after it.
Latest ==
    \A c \in DOMAIN val : c[2] = run =>
        c \in Elems(hw) \/ (~Running /\ c \in Elems(pending))

\* Those of the run before are pending while the run goes on.
Previous ==
    pc[BG] \in RunLabels =>
        \A c \in DOMAIN val : c[2] + 1 = run => c \in Elems(pending)

\* Matched are those pending whose device was found again.
Matching ==
    pc[BG] \in RunLabels \cup {"postFlag"} =>
        matched = {c \in Elems(pending) : Device(c) \in DevicesOf(hw)}

\* A controller without its sizes is the last one, which was just pushed, and
\* it is behind detection_prev_size.
Sizes ==
    /\ prevSize <= Len(hw)
    /\ pc[BG] = "sizes" => prevSize < Len(hw)
    /\ \A i \in 1..Len(hw) : hw[i] \notin sized => pc[BG] = "sizes" /\ i = Len(hw)

\* What one requester's invariant adds.
Serial ==
    /\ Turns /\ Emptied /\ ShownOnly /\ Saved /\ Current /\ Distinct /\ Latest
    /\ Previous /\ Matching /\ Sizes
    /\ NothingLeaked /\ ChangeVerdict /\ SizesLoadedWhenListed

\* What the running detectors have found.
Searched ==
    /\ pc[BG] = "register" => found \subseteq present /\ \A a, b \in found : a = b
    /\ pc[BG] \in RunLabels /\ required =>
         DevicesOf(hw) =
            (present \ todo) \ (IF pc[BG] = "register" THEN found ELSE {})
    /\ pc[BG] = "postFlag" /\ enabled /\ required => DevicesOf(hw) = present

-----------------------------------------------------------------------------

\* A list without elements is empty.
LEMMA ElemsEmpty ==
    ASSUME NEW S, NEW q \in Seq(S)
    PROVE  q = <<>> <=> Elems(q) = {}
<1>1. DOMAIN q = 1..Len(q) /\ Len(q) \in Nat
  OBVIOUS
<1>2. ASSUME q # <<>> PROVE q[1] \in Elems(q)
  BY <1>1, <1>2 DEF Elems
<1>3. ASSUME q = <<>> PROVE Elems(q) = {}
  BY <1>3 DEF Elems
<1>4. QED
  BY <1>2, <1>3

\* With one requester no list is rebuilt while ProcessPostDetection reads it.
LEMMA Alone ==
    ASSUME IInv, Turns, NEW t \in Threads, NEW r \in Requesters
    PROVE  ~PostReapAmid(t, r)
<1> SUFFICES ASSUME PostReapAmid(t, r) PROVE FALSE
  OBVIOUS
<1>1. pc[t] = "postReap" /\ pc[r] = "update"
  BY DEF PostReapAmid, Rebuild
<1>2. pc[BG] # "postReap"
  BY <1>1 DEF Turns, Changing
<1>3. t \in Requesters
  BY <1>1, <1>2 DEF Threads
<1>4. QED
  BY <1>1, <1>3 DEF IInv, Phase, PostLabels

\* For the three lists of controllers.
LEMMA ListsEmpty ==
    ASSUME IInv
    PROVE  /\ Elems(<<>>) = {}
           /\ hw = <<>> <=> Elems(hw) = {}
           /\ listed = <<>> <=> Elems(listed) = {}
           /\ pending = <<>> <=> Elems(pending) = {}
<1>1. /\ hw \in Seq(Controllers) /\ listed \in Seq(Controllers)
      /\ pending \in Seq(Controllers)
  BY DEF IInv, TypeOK, ObjectsOK
<1>2. QED
  BY <1>1, ElemsEmpty DEF Elems

\* What registering a controller does to the hardware list and to the settings.
LEMMA Registered ==
    ASSUME IInv, NEW d \in Devices, BgRegisterNew(d) \/ BgRegisterKnown(d)
    PROVE  /\ pc[BG] = "register" /\ pc' = [pc EXCEPT ![BG] = "sizes"]
           /\ pc'[BG] = "sizes" /\ \A t \in Requesters : pc'[t] = pc[t]
           /\ d \in found /\ d \notin todo
           /\ <<d, run>> \in Controllers /\ <<d, run>> \notin DOMAIN val
           /\ hw' = Append(hw, <<d, run>>)
           /\ Elems(hw') = Elems(hw) \cup {<<d, run>>}
           /\ DevicesOf(hw') = DevicesOf(hw) \cup {d}
           /\ DOMAIN val' = DOMAIN val \cup {<<d, run>>}
           /\ serversUp /\ enabled /\ sched = "none"
           /\ UNCHANGED <<bgVars, listLock, listed, pending, prevSize, sized,
                          scan, env, busDead, freed, rdVars>>
<1>1. /\ pc[BG] = "register" /\ d \in found /\ Goto(BG, "sizes")
      /\ hw' = Append(hw, <<d, run>>)
      /\ DOMAIN val' = DOMAIN val \cup {<<d, run>>}
      /\ UNCHANGED <<bgVars, listLock, listed, pending, prevSize, sized,
                     scan, env, busDead, freed, rdVars>>
  BY DEF BgRegisterNew, BgRegisterKnown, Register
<1>2. ControlOK /\ ObjectsOK /\ Phase /\ HoldsMutex /\ Fresh
  BY DEF IInv, TypeOK
<1>3. pc'[BG] = "sizes" /\ \A t \in Requesters : pc'[t] = pc[t]
  BY <1>1, <1>2 DEF ControlOK, Goto, Threads
<1>4. d \notin todo /\ <<d, run>> \notin DOMAIN val
  BY <1>1, <1>2 DEF Fresh, FreshDevices, RunLabels
<1>5. serversUp /\ enabled /\ sched = "none"
  BY <1>1, <1>2 DEF Phase, HoldsMutex, StateMutexFree, QuietLabels, PostLabels
<1>6. hw \in Seq(Controllers) /\ <<d, run>> \in Controllers
  BY <1>2 DEF ObjectsOK, Controllers
<1>7. Elems(hw') = Elems(hw) \cup {<<d, run>>}
  BY <1>1, <1>6, ElemsAppend
<1>8. DevicesOf(hw') = DevicesOf(hw) \cup {d}
  <2>1. Device(<<d, run>>) = d
    BY DEF Device
  <2>2. /\ DevicesOf(hw') = {Device(c) : c \in Elems(hw')}
        /\ DevicesOf(hw) = {Device(c) : c \in Elems(hw)}
    BY DEF DevicesOf
  <2>3. QED
    BY <1>7, <2>1, <2>2
<1>9. QED
  BY <1>1, <1>3, <1>4, <1>5, <1>6, <1>7, <1>8 DEF Goto

\* A list stays with one controller for each device when a new device's is
\* appended.
LEMMA OneEachAppend ==
    ASSUME NEW q \in Seq(Controllers), NEW x \in Controllers,
           OneEach(q), \A c \in Elems(q) : Device(c) # Device(x)
    PROVE  OneEach(Append(q, x))
<1>1. DOMAIN q = 1..Len(q) /\ DOMAIN Append(q, x) = 1..(Len(q) + 1)
  OBVIOUS
<1>2. Append(q, x)[Len(q) + 1] = x /\ \A i \in DOMAIN q : Append(q, x)[i] = q[i]
  OBVIOUS
<1>3. \A i \in DOMAIN q : Device(q[i]) # Device(x)
  BY DEF Elems
<1>4. \A i \in DOMAIN Append(q, x) : i \in DOMAIN q \/ i = Len(q) + 1
  BY <1>1
<1> HIDE DEF Device
<1>5. QED
  BY <1>2, <1>3, <1>4 DEF OneEach

\* A list with one controller for each device is as long as it has devices.
LEMMA DeviceCount ==
    ASSUME NEW q \in Seq(Controllers), OneEach(q)
    PROVE  /\ IsFiniteSet(DevicesOf(q))
           /\ Cardinality(DevicesOf(q)) = Len(q)
<1> DEFINE f == [i \in 1..Len(q) |-> Device(q[i])]
<1>1. Len(q) \in Nat /\ DOMAIN q = 1..Len(q)
  OBVIOUS
<1>2. IsFiniteSet(1..Len(q)) /\ Cardinality(1..Len(q)) = Len(q)
  BY <1>1, FS_Interval, SMTT(30)
<1>3. DevicesOf(q) = {Device(q[i]) : i \in 1..Len(q)}
  BY <1>1 DEF DevicesOf, Elems
<1>4. f \in Bijection(1..Len(q), DevicesOf(q))
  <2>1. f \in [1..Len(q) -> DevicesOf(q)]
    BY <1>3
  <2>2. \A i, j \in 1..Len(q) : f[i] = f[j] => i = j
    BY <1>1 DEF OneEach
  <2>3. \A d \in DevicesOf(q) : \E i \in 1..Len(q) : f[i] = d
    BY <1>3
  <2>4. QED
    BY <2>1, <2>2, <2>3 DEF Bijection, Injection, Surjection, IsInjective
<1>5. ExistsBijection(1..Len(q), DevicesOf(q))
  BY <1>4 DEF ExistsBijection
<1>6. QED
  BY <1>2, <1>5, FS_Bijection

\* The matched controllers are as many as the devices both lists have.
LEMMA MatchedCount ==
    ASSUME NEW q \in Seq(Controllers), OneEach(q), NEW D
    PROVE  LET m == {c \in Elems(q) : Device(c) \in D}
           IN  Cardinality(m) = Cardinality(D \cap DevicesOf(q))
<1> DEFINE m == {c \in Elems(q) : Device(c) \in D}
           both == D \cap DevicesOf(q)
           f == [c \in m |-> Device(c)]
<1>1. \A c, e \in Elems(q) : Device(c) = Device(e) => c = e
  BY DEF OneEach, Elems
<1>2. f \in Bijection(m, both)
  <2>1. f \in [m -> both]
    BY DEF DevicesOf
  <2>2. \A c, e \in m : f[c] = f[e] => c = e
    BY <1>1
  <2>3. \A d \in both : \E c \in m : f[c] = d
    BY DEF DevicesOf
  <2>4. QED
    BY <2>1, <2>2, <2>3 DEF Bijection, Injection, Surjection, IsInjective
<1>3. ExistsBijection(both, m)
  BY <1>2, Fun_ExistsBijSymmetric DEF ExistsBijection
<1>4. IsFiniteSet(both)
  BY DeviceCount, FS_Subset
<1>5. QED
  BY <1>3, <1>4, FS_Bijection

\* devices_changed compares numbers; it compares the devices nevertheless.
LEMMA Verdict ==
    ASSUME NEW h \in Seq(Controllers), NEW p \in Seq(Controllers),
           OneEach(h), OneEach(p), NEW m,
           m = {c \in Elems(p) : Device(c) \in DevicesOf(h)}
    PROVE  (Len(h) # Len(p) \/ Cardinality(m) # Len(h))
              <=> DevicesOf(h) # DevicesOf(p)
<1> DEFINE A == DevicesOf(h)
           B == DevicesOf(p)
<1>1. IsFiniteSet(A) /\ Cardinality(A) = Len(h)
  BY DeviceCount
<1>2. IsFiniteSet(B) /\ Cardinality(B) = Len(p)
  BY DeviceCount
<1>3. Cardinality(m) = Cardinality(A \cap B)
  BY MatchedCount
<1>4. ASSUME Cardinality(A) = Cardinality(B), Cardinality(A \cap B) = Cardinality(A)
      PROVE  A = B
  <2>1. A \cap B = A
    BY <1>1, <1>4, FS_Subset
  <2>2. A \cap B = B
    BY <1>2, <1>4, FS_Subset
  <2>3. QED
    BY <2>1, <2>2
<1>5. A = B => Cardinality(A \cap B) = Cardinality(A) /\ Cardinality(A) = Cardinality(B)
  <2>1. ASSUME A = B PROVE A \cap B = A
    BY <2>1
  <2>2. QED
    BY <2>1
<1>6. QED
  BY <1>1, <1>2, <1>3, <1>4, <1>5

\* One requester at a time: it passes WaitForDeviceDetection only while no
\* run is going on, and from its HidExitCoroutine to its scheduling of the
\* detection the background thread runs nothing else.
LEMMA TurnsStep ==
    ASSUME IInv, OneRequester, Serial, [Next]_vars
    PROVE  Turns'
<1> USE DEF ControlOK, FlagsOK, Turns, Running, Coming, Asking, Changing,
        OneRequester, PreLabels, PostLabels, RunLabels, Threads, Goto,
        bgVars, lists, scan, env, objects, rdVars
<1>0. ControlOK /\ FlagsOK /\ Turns /\ Phase /\ HoldsMutex
  BY DEF IInv, TypeOK, Serial
<1>1. ASSUME NEW t \in Threads, CheckRequired(t) PROVE Turns'
  BY <1>0, <1>1 DEF CheckRequired, AfterRefusal, Phase, QuietLabels
<1>2. ASSUME NEW t \in Threads, WaitForDetection(t) PROVE Turns'
  BY <1>0, <1>2 DEF WaitForDetection, Phase
<1>3. ASSUME NEW t \in Threads, SetRequired(t) PROVE Turns'
  BY <1>0, <1>3 DEF SetRequired
<1>4. ASSUME NEW t \in Threads, PostScan(t) PROVE Turns'
  BY <1>0, <1>4 DEF PostScan, Phase, QuietLabels
<1>5. ASSUME NEW t \in Requesters, RequestRescan(t) PROVE Turns'
  BY <1>0, <1>5 DEF RequestRescan
<1>6. ASSUME NEW t \in Requesters, ScheduleHidExit(t) PROVE Turns'
  BY <1>0, <1>6 DEF ScheduleHidExit, StateMutexFree
<1>7. ASSUME NEW t \in Requesters, Notify(t) PROVE Turns'
  BY <1>0, <1>7 DEF Notify
<1>8. ASSUME NEW t \in Requesters, ScheduleDetect(t) PROVE Turns'
  BY <1>0, <1>8 DEF ScheduleDetect
<1>9. ASSUME BgThrow PROVE Turns'
  BY <1>0, <1>9 DEF BgThrow
<1>10. ASSUME BgDispatch PROVE Turns'
  BY <1>0, <1>10 DEF BgDispatch, Phase
<1>11. ASSUME BgSpuriousWakeup PROVE Turns'
  BY <1>0, <1>11 DEF BgSpuriousWakeup
<1>12. ASSUME BgInit PROVE Turns'
  BY <1>0, <1>12 DEF BgInit
<1>13. ASSUME BgStartServers PROVE Turns'
  BY <1>0, <1>13 DEF BgStartServers, Phase, HoldsMutex, StateMutexFree
<1>14. ASSUME BgDetect PROVE Turns'
  BY <1>0, <1>14 DEF BgDetect
<1>15. ASSUME NEW d \in Devices, BgDetector(d) PROVE Turns'
  BY <1>0, <1>15 DEF BgDetector
<1>16. ASSUME NEW t \in Threads,
                SavePending(t) \/ ClearHardware(t) \/ UpdateList(t)
             \/ PostFlag(t) \/ PostReap(t)
      PROVE  Turns'
  BY <1>0, <1>16
    DEF SavePending, ClearHardware, UpdateList, Rebuild, PostFlag, PostReap
<1>17. ASSUME
                BgHidExit \/ BgLoadSizes \/ BgShow \/ BgPublish \/ BgLoopEnd
             \/ StopDeviceDetection \/ PlugOrUnplug \/ UNCHANGED vars
      PROVE  Turns'
  BY <1>0, <1>17
    DEF BgHidExit, BgLoadSizes, BgShow, Rebuild, BgPublish, BgLoopEnd,
        StopDeviceDetection, PlugOrUnplug, vars
<1>18. ASSUME NEW d \in Devices,
                BgRegisterNew(d) \/ BgRegisterKnown(d)
      PROVE  Turns'
  BY <1>0, <1>18 DEF BgRegisterNew, Register, BgRegisterKnown
<1>19. ASSUME NEW u \in Readers, NEW i \in DOMAIN Served,
             ReaderCheck(u, i)
      PROVE  Turns'
  BY <1>0, <1>19 DEF ReaderCheck
<1>20. ASSUME NEW u \in Readers, ReaderFetch(u) PROVE Turns'
  BY <1>0, <1>20 DEF ReaderFetch
<1>21. ASSUME NEW u \in Readers, NEW v \in Values,
             ReaderUse(u, v)
      PROVE  Turns'
  BY <1>0, <1>21 DEF ReaderUse
<1>m. ASSUME NEW t \in Threads, NEW r \in Requesters, PostReapAmid(t, r) PROVE Turns'
  BY <1>m, Alone DEF Serial
<1> HIDE DEF ControlOK, FlagsOK, Turns, Running, Coming, Asking, Changing,
        OneRequester, PreLabels, PostLabels, RunLabels, Threads, Goto,
        bgVars, lists, scan, env, objects, rdVars
<1>22. QED
    BY <1>m, <1>1, <1>2, <1>3, <1>4, <1>5, <1>6, <1>7, <1>8, <1>9, <1>10, <1>11, <1>12, <1>13, <1>14, <1>15, <1>16, <1>17, <1>18, <1>19, <1>20, <1>21
    DEF Next, BgRun, RequesterStep, PreDetection, PostDetection,
        ReaderStep, Threads

\* From Cleanup to the start of the run nobody fills the hardware list.
LEMMA EmptiedStep ==
    ASSUME IInv, OneRequester, Serial, [Next]_vars
    PROVE  Emptied'
<1> USE DEF ControlOK, FlagsOK, Emptied, Running, Coming, Asking, Changing,
        PreLabels, PostLabels, RunLabels, Threads, Goto, bgVars, lists,
        scan, env, objects, rdVars
<1>0. ControlOK /\ FlagsOK /\ Turns /\ Emptied /\ Phase /\ HoldsMutex /\ ShownOnly
  BY DEF IInv, TypeOK, Serial
<1>1. ASSUME NEW t \in Threads, WaitForDetection(t) PROVE Emptied'
  <2>0. pc[t] = "wait" /\ ~detecting /\ pc' = [pc EXCEPT ![t] = "save"]
         /\ UNCHANGED <<serversUp, sched, hw, listed, pending, matched>>
    BY <1>1 DEF WaitForDetection
  <2>1. CASE t = BG
    BY <1>0, <2>0, <2>1
  <2>2. CASE t \in Requesters
    <3>1. \A u \in Requesters : u = t
      BY <2>2 DEF OneRequester
    <3>2. ~Running
      BY <1>0, <2>0, <2>2 DEF Turns, Phase
    <3>3. Coming => hw = <<>> /\ listed = <<>>
      <4>1. \A u \in Requesters : pc[u] \notin Rebuilding
        BY <2>0, <3>1 DEF Rebuilding
      <4>2. Elems(listed) \subseteq Elems(hw)
        BY <1>0, <4>1 DEF ShownOnly
      <4>3. hw = <<>> => Elems(listed) = {} 
        BY <4>2, ListsEmpty
      <4>4. QED
        BY <1>0, <4>3, ListsEmpty
    <3>4. pc'[BG] = pc[BG] /\ pc'[t] = "save" /\ (Running' <=> Running) /\ (Coming' <=> Coming)
      BY <1>0, <2>0, <2>2
    <3>5. QED
      BY <1>0, <2>0, <2>2, <3>1, <3>2, <3>3, <3>4
  <2>3. QED
    BY <2>1, <2>2
<1>2. ASSUME NEW t \in Threads, SavePending(t) PROVE Emptied'
  BY <1>0, <1>2 DEF SavePending
<1>3. ASSUME NEW t \in Threads, ClearHardware(t) PROVE Emptied'
  BY <1>0, <1>3 DEF ClearHardware
<1>4. ASSUME NEW t \in Threads, UpdateList(t) PROVE Emptied'
  BY <1>0, <1>4 DEF UpdateList, Rebuild
<1>5. ASSUME NEW t \in Threads, SetRequired(t) PROVE Emptied'
  BY <1>0, <1>5 DEF SetRequired
<1>6. ASSUME NEW t \in Threads, PostReap(t) PROVE Emptied'
  BY <1>0, <1>6 DEF PostReap
<1>7. ASSUME NEW t \in Threads, PostScan(t) PROVE Emptied'
  BY <1>0, <1>7 DEF PostScan
<1>8. ASSUME NEW t \in Requesters, RequestRescan(t) PROVE Emptied'
  BY <1>0, <1>8 DEF RequestRescan
<1>9. ASSUME NEW t \in Requesters, ScheduleHidExit(t) PROVE Emptied'
  BY <1>0, <1>9 DEF ScheduleHidExit
<1>10. ASSUME NEW t \in Requesters, Notify(t) PROVE Emptied'
  BY <1>0, <1>10 DEF Notify
<1>11. ASSUME NEW t \in Requesters, ScheduleDetect(t) PROVE Emptied'
  BY <1>0, <1>11 DEF ScheduleDetect, OneRequester
<1>12. ASSUME BgThrow PROVE Emptied'
  BY <1>0, <1>12 DEF BgThrow
<1>13. ASSUME BgDispatch PROVE Emptied'
  BY <1>0, <1>13 DEF BgDispatch
<1>14. ASSUME BgInit PROVE Emptied'
  BY <1>0, <1>14 DEF BgInit
<1>15. ASSUME BgStartServers PROVE Emptied'
  BY <1>0, <1>15 DEF BgStartServers, Phase
<1>16. ASSUME BgDetect PROVE Emptied'
  BY <1>0, <1>16 DEF BgDetect
<1>17. ASSUME BgLoadSizes \/ BgShow PROVE Emptied'
  BY <1>0, <1>17 DEF BgLoadSizes, BgShow, Rebuild
<1>18. ASSUME BgPublish PROVE Emptied'
  BY <1>0, <1>18 DEF BgPublish, Rebuild
<1>19. ASSUME NEW d \in Devices, BgDetector(d) PROVE Emptied'
  BY <1>0, <1>19 DEF BgDetector
<1>20. ASSUME NEW d \in Devices, BgRegisterNew(d) PROVE Emptied'
  BY <1>0, <1>20
    DEF BgRegisterNew, Register, HoldsMutex, StateMutexFree, Turns
<1>21. ASSUME NEW d \in Devices, BgRegisterKnown(d) PROVE Emptied'
  BY <1>0, <1>21
    DEF BgRegisterKnown, Register, Phase, HoldsMutex, StateMutexFree,
        QuietLabels, Turns
<1>22. ASSUME NEW t \in Threads,
                CheckRequired(t) \/ PostFlag(t)
      PROVE  Emptied'
  BY <1>0, <1>22 DEF CheckRequired, AfterRefusal, PostFlag
<1>23. ASSUME
                BgSpuriousWakeup \/ BgHidExit \/ BgLoopEnd
             \/ StopDeviceDetection \/ PlugOrUnplug \/ UNCHANGED vars
      PROVE  Emptied'
  BY <1>0, <1>23
    DEF BgSpuriousWakeup, BgHidExit, BgLoopEnd, StopDeviceDetection,
        PlugOrUnplug, vars
<1>24. ASSUME NEW u \in Readers, NEW i \in DOMAIN Served,
             ReaderCheck(u, i)
      PROVE  Emptied'
  BY <1>0, <1>24 DEF ReaderCheck
<1>25. ASSUME NEW u \in Readers, ReaderFetch(u) PROVE Emptied'
  BY <1>0, <1>25 DEF ReaderFetch
<1>26. ASSUME NEW u \in Readers, NEW v \in Values,
             ReaderUse(u, v)
      PROVE  Emptied'
  BY <1>0, <1>26 DEF ReaderUse
<1>m. ASSUME NEW t \in Threads, NEW r \in Requesters, PostReapAmid(t, r) PROVE Emptied'
  BY <1>m, Alone DEF Serial
<1> HIDE DEF ControlOK, FlagsOK, Emptied, Running, Coming, Asking,
        Changing, PreLabels, PostLabels, RunLabels, Threads, Goto, bgVars,
        lists, scan, env, objects, rdVars
<1>27. QED
    BY <1>m, <1>1, <1>2, <1>3, <1>4, <1>5, <1>6, <1>7, <1>8, <1>9, <1>10, <1>11, <1>12, <1>13, <1>14, <1>15, <1>16, <1>17, <1>18, <1>19, <1>20, <1>21, <1>22, <1>23, <1>24, <1>25, <1>26
    DEF Next, BgRun, RequesterStep, PreDetection, PostDetection,
        ReaderStep, Threads

\* Controllers shown beside the hardware list are pending.
LEMMA ShownOnlyStep ==
    ASSUME IInv, OneRequester, Serial, [Next]_vars
    PROVE  ShownOnly'
<1> USE DEF ControlOK, ShownOnly, Running, Rebuilding, Asking, Changing,
        PreLabels, PostLabels, RunLabels, Threads, Goto, bgVars, lists,
        scan, env, objects, rdVars
<1>0. ControlOK /\ Turns /\ Emptied /\ Phase /\ HoldsMutex /\ ShownOnly /\ Saved
  BY DEF IInv, TypeOK, Serial
<1>a. /\ Elems(<<>>) = {}
      /\ listed = <<>> <=> Elems(listed) = {}
  BY ListsEmpty
<1>b. (/\ UNCHANGED <<listed, hw, pending>>
       /\ \A t \in Requesters : pc'[t] \in Rebuilding <=> pc[t] \in Rebuilding)
      => ShownOnly'
  BY <1>0
<1>1. ASSUME NEW t \in Threads, SavePending(t) PROVE ShownOnly'
  BY <1>0, <1>1 DEF SavePending, Emptied
<1>2. ASSUME NEW t \in Threads, ClearHardware(t) PROVE ShownOnly'
  BY <1>0, <1>2 DEF ClearHardware, Emptied, Saved
<1>3. ASSUME NEW t \in Threads, UpdateList(t) PROVE ShownOnly'
  BY <1>0, <1>3 DEF UpdateList, Rebuild, OneRequester, Emptied
<1>4. ASSUME NEW t \in Threads, PostReap(t) PROVE ShownOnly'
  BY <1>0, <1>4 DEF PostReap, Turns, OneRequester, Emptied
<1>5. ASSUME BgDetect PROVE ShownOnly'
  BY <1>b, <1>5 DEF BgDetect
<1>6. ASSUME BgLoadSizes \/ BgShow PROVE ShownOnly'
  BY <1>0, <1>6 DEF BgLoadSizes, BgShow, Rebuild, Turns
<1>7. ASSUME BgPublish PROVE ShownOnly'
  BY <1>0, <1>7 DEF BgPublish, Rebuild, Turns
<1>8. ASSUME NEW d \in Devices, BgRegisterNew(d) PROVE ShownOnly'
  BY <1>0, <1>8, Registered
<1>9. ASSUME NEW d \in Devices, BgRegisterKnown(d) PROVE ShownOnly'
  BY <1>0, <1>9, Registered
<1>10. ASSUME NEW t \in Threads,
                CheckRequired(t) \/ WaitForDetection(t) \/ SetRequired(t)
             \/ PostFlag(t) \/ PostScan(t)
      PROVE  ShownOnly'
  BY <1>0, <1>10
    DEF CheckRequired, AfterRefusal, WaitForDetection, SetRequired, PostFlag,
        PostScan
<1>11. ASSUME NEW t \in Requesters,
                RequestRescan(t) \/ ScheduleHidExit(t) \/ Notify(t)
             \/ ScheduleDetect(t)
      PROVE  ShownOnly'
  BY <1>0, <1>11 DEF RequestRescan, ScheduleHidExit, Notify, ScheduleDetect
<1>12. ASSUME
                BgThrow \/ BgDispatch \/ BgSpuriousWakeup \/ BgHidExit
             \/ BgInit \/ BgStartServers \/ BgLoopEnd \/ StopDeviceDetection
             \/ PlugOrUnplug \/ UNCHANGED vars
      PROVE  ShownOnly'
  BY <1>0, <1>12
    DEF BgThrow, BgDispatch, BgSpuriousWakeup, BgHidExit, BgInit,
        BgStartServers, BgLoopEnd, StopDeviceDetection, PlugOrUnplug, vars
<1>13. ASSUME NEW d \in Devices, BgDetector(d) PROVE ShownOnly'
  BY <1>b, <1>13 DEF BgDetector
<1>14. ASSUME NEW u \in Readers, NEW i \in DOMAIN Served,
             ReaderCheck(u, i)
      PROVE  ShownOnly'
  BY <1>b, <1>14 DEF ReaderCheck
<1>15. ASSUME NEW u \in Readers, ReaderFetch(u) PROVE ShownOnly'
  BY <1>b, <1>15 DEF ReaderFetch
<1>16. ASSUME NEW u \in Readers, NEW v \in Values,
             ReaderUse(u, v)
      PROVE  ShownOnly'
  BY <1>b, <1>16 DEF ReaderUse
<1>m. ASSUME NEW t \in Threads, NEW r \in Requesters, PostReapAmid(t, r) PROVE ShownOnly'
  BY <1>m, Alone DEF Serial
<1> HIDE DEF ControlOK, ShownOnly, Running, Rebuilding, Asking, Changing,
        PreLabels, PostLabels, RunLabels, Threads, Goto, bgVars, lists,
        scan, env, objects, rdVars
<1>17. QED
    BY <1>m, <1>1, <1>2, <1>3, <1>4, <1>5, <1>6, <1>7, <1>8, <1>9, <1>10, <1>11, <1>12, <1>13, <1>14, <1>15, <1>16
    DEF Next, BgRun, RequesterStep, PreDetection, PostDetection,
        ReaderStep, Threads

\* Cleanup clears nothing that it did not save before.
LEMMA SavedStep ==
    ASSUME IInv, OneRequester, Serial, [Next]_vars
    PROVE  Saved'
<1> USE DEF ControlOK, FlagsOK, Saved, Running, Asking, Changing,
        PreLabels, PostLabels, RunLabels, Threads, Goto, bgVars, lists,
        scan, env, objects, rdVars
<1>0. ControlOK /\ FlagsOK /\ Turns /\ Emptied /\ Phase /\ HoldsMutex /\ Saved
  BY DEF IInv, TypeOK, Serial
<1>a. Elems(<<>>) = {}
  BY ListsEmpty
<1>b. (/\ UNCHANGED <<hw, pending, detecting, enabled, serversUp>>
       /\ DOMAIN val' = DOMAIN val
       /\ \A t \in Requesters : pc'[t] = "clear" <=> pc[t] = "clear"
       /\ pc'[BG] = "postScan" => pc[BG] = "postScan")
      => Saved'
  BY <1>0
<1>1. ASSUME NEW t \in Threads, SavePending(t) PROVE Saved'
  BY <1>0, <1>a, <1>1 DEF SavePending, Turns, Emptied
<1>2. ASSUME NEW t \in Threads, ClearHardware(t) PROVE Saved'
  BY <1>0, <1>2 DEF ClearHardware, OneRequester, Emptied
<1>3. ASSUME NEW t \in Threads, UpdateList(t) PROVE Saved'
  BY <1>b, <1>3 DEF UpdateList, Rebuild
<1>4. ASSUME NEW t \in Threads, PostReap(t) PROVE Saved'
  BY <1>0, <1>4 DEF PostReap, OneRequester, Emptied
<1>5. ASSUME NEW t \in Threads, PostScan(t) PROVE Saved'
  BY <1>0, <1>5 DEF PostScan
<1>6. ASSUME BgInit PROVE Saved'
  BY <1>0, <1>6 DEF BgInit, Phase
<1>7. ASSUME BgStartServers PROVE Saved'
  BY <1>0, <1>7 DEF BgStartServers, Phase
<1>8. ASSUME BgDetect PROVE Saved'
  BY <1>0, <1>8 DEF BgDetect
<1>9. ASSUME NEW d \in Devices, BgRegisterNew(d) PROVE Saved'
  BY <1>0, <1>9, Registered DEF Turns
<1>10. ASSUME NEW d \in Devices, BgRegisterKnown(d) PROVE Saved'
  BY <1>0, <1>10, Registered DEF Turns
<1>11. ASSUME NEW t \in Threads,
                CheckRequired(t) \/ WaitForDetection(t) \/ SetRequired(t)
             \/ PostFlag(t)
      PROVE  Saved'
  BY <1>0, <1>11
    DEF CheckRequired, AfterRefusal, WaitForDetection, SetRequired, PostFlag
<1>12. ASSUME NEW t \in Requesters,
                RequestRescan(t) \/ ScheduleHidExit(t) \/ Notify(t)
             \/ ScheduleDetect(t)
      PROVE  Saved'
  BY <1>0, <1>12 DEF RequestRescan, ScheduleHidExit, Notify, ScheduleDetect
<1>13. ASSUME
                BgThrow \/ BgDispatch \/ BgSpuriousWakeup \/ BgHidExit
             \/ BgLoadSizes \/ BgShow \/ BgPublish \/ BgLoopEnd \/ StopDeviceDetection
             \/ PlugOrUnplug \/ UNCHANGED vars
      PROVE  Saved'
  BY <1>0, <1>13
    DEF BgThrow, BgDispatch, BgSpuriousWakeup, BgHidExit, BgLoadSizes, BgShow,
        Rebuild, BgPublish, BgLoopEnd, StopDeviceDetection, PlugOrUnplug, vars
<1>14. ASSUME NEW d \in Devices, BgDetector(d) PROVE Saved'
  BY <1>b, <1>14 DEF BgDetector
<1>15. ASSUME NEW u \in Readers, NEW i \in DOMAIN Served,
             ReaderCheck(u, i)
      PROVE  Saved'
  BY <1>b, <1>15 DEF ReaderCheck
<1>16. ASSUME NEW u \in Readers, ReaderFetch(u) PROVE Saved'
  BY <1>b, <1>16 DEF ReaderFetch
<1>17. ASSUME NEW u \in Readers, NEW v \in Values,
             ReaderUse(u, v)
      PROVE  Saved'
  BY <1>b, <1>17 DEF ReaderUse
<1>m. ASSUME NEW t \in Threads, NEW r \in Requesters, PostReapAmid(t, r) PROVE Saved'
  BY <1>m, Alone DEF Serial
<1> HIDE DEF ControlOK, FlagsOK, Saved, Running, Asking, Changing,
        PreLabels, PostLabels, RunLabels, Threads, Goto, bgVars, lists,
        scan, env, objects, rdVars
<1>18. QED
    BY <1>m, <1>1, <1>2, <1>3, <1>4, <1>5, <1>6, <1>7, <1>8, <1>9, <1>10, <1>11, <1>12, <1>13, <1>14, <1>15, <1>16, <1>17
    DEF Next, BgRun, RequesterStep, PreDetection, PostDetection,
        ReaderStep, Threads

\* During a run the hardware list holds this run's controllers, each of a
\* device whose detector ran.
LEMMA CurrentStep ==
    ASSUME IInv, OneRequester, Serial, [Next]_vars
    PROVE  Current'
<1> USE DEF ControlOK, FlagsOK, Current, FreshDevices, Device, PreLabels,
        PostLabels, RunLabels, Threads, Goto, bgVars, lists, scan, env,
        objects, rdVars
<1>0. ControlOK /\ FlagsOK /\ Emptied /\ Current /\ Fresh
  BY DEF IInv, TypeOK, Serial
<1>a. Elems(<<>>) = {}
  BY ListsEmpty
<1>b. (/\ UNCHANGED <<hw, run, todo, found>>
       /\ pc'[BG] \in RunLabels => pc[BG] \in RunLabels
       /\ pc'[BG] = "register" <=> pc[BG] = "register")
      => Current'
  BY <1>0
<1>1. ASSUME BgDispatch PROVE Current'
  BY <1>0, <1>1 DEF BgDispatch
<1>2. ASSUME BgDetect PROVE Current'
  BY <1>0, <1>a, <1>2 DEF BgDetect, Emptied, Coming
<1>3. ASSUME BgLoadSizes \/ BgShow PROVE Current'
  BY <1>0, <1>b, <1>3 DEF BgLoadSizes, BgShow, Rebuild
<1>4. ASSUME BgPublish PROVE Current'
  BY <1>0, <1>4 DEF BgPublish, Rebuild
<1>5. ASSUME NEW d \in Devices, BgDetector(d) PROVE Current'
  BY <1>0, <1>5 DEF BgDetector
<1>6. ASSUME NEW d \in Devices, BgRegisterNew(d) PROVE Current'
  <2>1. /\ Elems(hw') = Elems(hw) \cup {<<d, run>>} /\ pc[BG] = "register"
        /\ d \notin todo /\ run' = run /\ todo' = todo /\ pc'[BG] = "sizes"
    BY <1>6, Registered
  <2>2. \A c \in Elems(hw') : c[2] = run /\ c[1] \notin todo
    BY <1>0, <2>1
  <2>3. QED
    BY <2>1, <2>2
<1>7. ASSUME NEW d \in Devices, BgRegisterKnown(d) PROVE Current'
  <2>1. /\ Elems(hw') = Elems(hw) \cup {<<d, run>>} /\ pc[BG] = "register"
        /\ d \notin todo /\ run' = run /\ todo' = todo /\ pc'[BG] = "sizes"
    BY <1>7, Registered
  <2>2. \A c \in Elems(hw') : c[2] = run /\ c[1] \notin todo
    BY <1>0, <2>1
  <2>3. QED
    BY <2>1, <2>2
<1>8. ASSUME NEW t \in Threads,
                CheckRequired(t) \/ WaitForDetection(t) \/ SavePending(t)
             \/ ClearHardware(t) \/ UpdateList(t) \/ SetRequired(t)
             \/ PostFlag(t) \/ PostReap(t) \/ PostScan(t)
      PROVE  Current'
  BY <1>0, <1>a, <1>8
    DEF CheckRequired, AfterRefusal, WaitForDetection, SavePending,
        ClearHardware, UpdateList, Rebuild, SetRequired, PostFlag, PostReap,
        PostScan
<1>9. ASSUME NEW t \in Requesters,
                RequestRescan(t) \/ ScheduleHidExit(t) \/ Notify(t)
             \/ ScheduleDetect(t)
      PROVE  Current'
  BY <1>0, <1>9 DEF RequestRescan, ScheduleHidExit, Notify, ScheduleDetect
<1>10. ASSUME
                BgThrow \/ BgSpuriousWakeup \/ BgHidExit \/ BgInit
             \/ BgStartServers \/ BgLoopEnd \/ StopDeviceDetection
             \/ PlugOrUnplug \/ UNCHANGED vars
      PROVE  Current'
  BY <1>0, <1>10
    DEF BgThrow, BgSpuriousWakeup, BgHidExit, BgInit, BgStartServers,
        BgLoopEnd, StopDeviceDetection, PlugOrUnplug, vars
<1>11. ASSUME NEW u \in Readers, NEW i \in DOMAIN Served,
             ReaderCheck(u, i)
      PROVE  Current'
  BY <1>b, <1>11 DEF ReaderCheck
<1>12. ASSUME NEW u \in Readers, ReaderFetch(u) PROVE Current'
  BY <1>b, <1>12 DEF ReaderFetch
<1>13. ASSUME NEW u \in Readers, NEW v \in Values,
             ReaderUse(u, v)
      PROVE  Current'
  BY <1>b, <1>13 DEF ReaderUse
<1>m. ASSUME NEW t \in Threads, NEW r \in Requesters, PostReapAmid(t, r) PROVE Current'
  BY <1>m, Alone DEF Serial
<1> HIDE DEF ControlOK, FlagsOK, Current, FreshDevices, Device, PreLabels,
        PostLabels, RunLabels, Threads, Goto, bgVars, lists, scan, env,
        objects, rdVars
<1>14. QED
    BY <1>m, <1>1, <1>2, <1>3, <1>4, <1>5, <1>6, <1>7, <1>8, <1>9, <1>10, <1>11, <1>12, <1>13
    DEF Next, BgRun, RequesterStep, PreDetection, PostDetection,
        ReaderStep, Threads

\* A detector registers a device that is not in the list yet.
LEMMA DistinctStep ==
    ASSUME IInv, OneRequester, Serial, [Next]_vars
    PROVE  Distinct'
<1> USE DEF Distinct, bgVars, lists, scan, env, objects, rdVars
<1>0. ObjectsOK /\ Distinct /\ Current
  BY DEF IInv, TypeOK, Serial
<1>a. OneEach(<<>>)
  BY DEF OneEach
<1>b. UNCHANGED <<hw, listed, pending>> => Distinct'
  BY <1>0
<1>1. ASSUME NEW d \in Devices, BgRegisterNew(d) PROVE Distinct'
  <2>1. /\ hw' = Append(hw, <<d, run>>) /\ pc[BG] = "register" /\ d \in found
        /\ listed' = listed /\ pending' = pending /\ <<d, run>> \in Controllers
    BY <1>1, Registered
  <2>2. \A c \in Elems(hw) : Device(c) # d
    BY <1>0, <2>1 DEF Current, FreshDevices, RunLabels
  <2>3. Device(<<d, run>>) = d
    BY DEF Device
  <2>4. hw \in Seq(Controllers)
    BY <1>0 DEF ObjectsOK
  <2>5. OneEach(Append(hw, <<d, run>>))
    BY <1>0, <2>1, <2>2, <2>3, <2>4, OneEachAppend
  <2>6. QED
    BY <1>0, <2>1, <2>5
<1>2. ASSUME NEW d \in Devices, BgRegisterKnown(d) PROVE Distinct'
  <2>1. /\ hw' = Append(hw, <<d, run>>) /\ pc[BG] = "register" /\ d \in found
        /\ listed' = listed /\ pending' = pending /\ <<d, run>> \in Controllers
    BY <1>2, Registered
  <2>2. \A c \in Elems(hw) : Device(c) # d
    BY <1>0, <2>1 DEF Current, FreshDevices, RunLabels
  <2>3. Device(<<d, run>>) = d
    BY DEF Device
  <2>4. hw \in Seq(Controllers)
    BY <1>0 DEF ObjectsOK
  <2>5. OneEach(Append(hw, <<d, run>>))
    BY <1>0, <2>1, <2>2, <2>3, <2>4, OneEachAppend
  <2>6. QED
    BY <1>0, <2>1, <2>5
<1>3. ASSUME NEW t \in Threads,
                CheckRequired(t) \/ WaitForDetection(t) \/ SavePending(t)
             \/ ClearHardware(t) \/ UpdateList(t) \/ SetRequired(t)
             \/ PostFlag(t) \/ PostReap(t) \/ PostScan(t)
      PROVE  Distinct'
  BY <1>0, <1>a, <1>3
    DEF CheckRequired, AfterRefusal, WaitForDetection, SavePending,
        ClearHardware, UpdateList, Rebuild, SetRequired, PostFlag, PostReap,
        PostScan
<1>4. ASSUME NEW t \in Requesters,
                RequestRescan(t) \/ ScheduleHidExit(t) \/ Notify(t)
             \/ ScheduleDetect(t)
      PROVE  Distinct'
  BY <1>b, <1>4 DEF RequestRescan, ScheduleHidExit, Notify, ScheduleDetect
<1>5. ASSUME
                BgThrow \/ BgDispatch \/ BgSpuriousWakeup \/ BgHidExit
             \/ BgInit \/ BgStartServers \/ BgDetect \/ BgLoadSizes \/ BgShow
             \/ BgPublish \/ BgLoopEnd \/ StopDeviceDetection \/ PlugOrUnplug
             \/ UNCHANGED vars
      PROVE  Distinct'
  BY <1>0, <1>5
    DEF BgThrow, BgDispatch, BgSpuriousWakeup, BgHidExit, BgInit,
        BgStartServers, BgDetect, BgLoadSizes, BgShow, Rebuild, BgPublish, BgLoopEnd,
        StopDeviceDetection, PlugOrUnplug, vars
<1>6. ASSUME NEW d \in Devices, BgDetector(d) PROVE Distinct'
  BY <1>b, <1>6 DEF BgDetector
<1>7. ASSUME NEW u \in Readers, NEW i \in DOMAIN Served,
             ReaderCheck(u, i)
      PROVE  Distinct'
  BY <1>b, <1>7 DEF ReaderCheck
<1>8. ASSUME NEW u \in Readers, ReaderFetch(u) PROVE Distinct'
  BY <1>b, <1>8 DEF ReaderFetch
<1>9. ASSUME NEW u \in Readers, NEW v \in Values,
             ReaderUse(u, v)
      PROVE  Distinct'
  BY <1>b, <1>9 DEF ReaderUse
<1>m. ASSUME NEW t \in Threads, NEW r \in Requesters, PostReapAmid(t, r) PROVE Distinct'
  BY <1>m, Alone DEF Serial
<1> HIDE DEF Distinct, bgVars, lists, scan, env, objects, rdVars
<1>10. QED
    BY <1>m, <1>1, <1>2, <1>3, <1>4, <1>5, <1>6, <1>7, <1>8, <1>9
    DEF Next, BgRun, RequesterStep, PreDetection, PostDetection,
        ReaderStep, Threads

\* The last run's controllers are hardware, or pending for the next run.
LEMMA LatestStep ==
    ASSUME IInv, OneRequester, Serial, [Next]_vars
    PROVE  Latest'
<1> USE DEF ControlOK, FlagsOK, Latest, Running, PreLabels, PostLabels,
        RunLabels, Threads, Goto, bgVars, lists, scan, env, objects, rdVars
<1>0. ControlOK /\ FlagsOK /\ Turns /\ Emptied /\ Phase /\ Saved /\ Latest
  BY DEF IInv, TypeOK, Serial
<1>a. Elems(<<>>) = {}
  BY ListsEmpty
<1>b. (/\ UNCHANGED <<hw, pending, run>> /\ DOMAIN val' = DOMAIN val
       /\ Running' => Running)
      => Latest'
  BY <1>0
<1>c. run \in Nat /\ \A c \in DOMAIN val : c[2] \in Nat /\ c[2] <= run
  BY DEF IInv, TypeOK, ObjectsOK, Fresh, Controllers
<1>1. ASSUME NEW t \in Threads, CheckRequired(t) PROVE Latest'
  BY <1>0, <1>1 DEF CheckRequired, AfterRefusal, Phase
<1>2. ASSUME NEW t \in Threads, SavePending(t) PROVE Latest'
  BY <1>0, <1>a, <1>2 DEF SavePending
<1>3. ASSUME NEW t \in Threads, ClearHardware(t) PROVE Latest'
  BY <1>0, <1>3 DEF ClearHardware, Emptied, Saved, Asking
<1>4. ASSUME NEW t \in Threads, PostReap(t) PROVE Latest'
  BY <1>0, <1>4 DEF PostReap, Phase, Saved
<1>5. ASSUME BgDispatch PROVE Latest'
  BY <1>0, <1>5 DEF BgDispatch
<1>6. ASSUME BgStartServers PROVE Latest'
  BY <1>0, <1>6 DEF BgStartServers, Phase
<1>7. ASSUME BgDetect PROVE Latest'
  BY <1>c, <1>7 DEF BgDetect
<1>8. ASSUME NEW d \in Devices, BgRegisterNew(d) PROVE Latest'
  <2>1. /\ Elems(hw') = Elems(hw) \cup {<<d, run>>} /\ pc'[BG] = "sizes"
        /\ pc[BG] = "register" /\ DOMAIN val' = DOMAIN val \cup {<<d, run>>}
        /\ UNCHANGED <<pending, run>>
    BY <1>8, Registered
  <2>2. QED
    BY <1>0, <2>1
<1>9. ASSUME NEW d \in Devices, BgRegisterKnown(d) PROVE Latest'
  <2>1. /\ Elems(hw') = Elems(hw) \cup {<<d, run>>} /\ pc'[BG] = "sizes"
        /\ pc[BG] = "register" /\ DOMAIN val' = DOMAIN val \cup {<<d, run>>}
        /\ UNCHANGED <<pending, run>>
    BY <1>9, Registered
  <2>2. QED
    BY <1>0, <2>1
<1>10. ASSUME NEW t \in Threads,
                WaitForDetection(t) \/ UpdateList(t) \/ SetRequired(t)
             \/ PostFlag(t) \/ PostScan(t)
      PROVE  Latest'
  BY <1>0, <1>10
    DEF WaitForDetection, UpdateList, Rebuild, SetRequired, PostFlag, PostScan
<1>11. ASSUME NEW t \in Requesters,
                RequestRescan(t) \/ ScheduleHidExit(t) \/ Notify(t)
             \/ ScheduleDetect(t)
      PROVE  Latest'
  BY <1>0, <1>11 DEF RequestRescan, ScheduleHidExit, Notify, ScheduleDetect
<1>12. ASSUME
                BgThrow \/ BgSpuriousWakeup \/ BgHidExit \/ BgInit
             \/ BgLoadSizes \/ BgShow \/ BgPublish \/ BgLoopEnd \/ StopDeviceDetection
             \/ PlugOrUnplug \/ UNCHANGED vars
      PROVE  Latest'
  BY <1>0, <1>12
    DEF BgThrow, BgSpuriousWakeup, BgHidExit, BgInit, BgLoadSizes, BgShow, Rebuild,
        BgPublish, BgLoopEnd, StopDeviceDetection, PlugOrUnplug, vars
<1>13. ASSUME NEW d \in Devices, BgDetector(d) PROVE Latest'
  BY <1>b, <1>13 DEF BgDetector
<1>14. ASSUME NEW u \in Readers, NEW i \in DOMAIN Served,
             ReaderCheck(u, i)
      PROVE  Latest'
  BY <1>b, <1>14 DEF ReaderCheck
<1>15. ASSUME NEW u \in Readers, ReaderFetch(u) PROVE Latest'
  BY <1>b, <1>15 DEF ReaderFetch
<1>16. ASSUME NEW u \in Readers, NEW v \in Values,
             ReaderUse(u, v)
      PROVE  Latest'
  BY <1>b, <1>16 DEF ReaderUse
<1>m. ASSUME NEW t \in Threads, NEW r \in Requesters, PostReapAmid(t, r) PROVE Latest'
  BY <1>m, Alone DEF Serial
<1> HIDE DEF ControlOK, FlagsOK, Latest, Running, PreLabels, PostLabels,
        RunLabels, Threads, Goto, bgVars, lists, scan, env, objects, rdVars
<1>17. QED
    BY <1>m, <1>1, <1>2, <1>3, <1>4, <1>5, <1>6, <1>7, <1>8, <1>9, <1>10, <1>11, <1>12, <1>13, <1>14, <1>15, <1>16
    DEF Next, BgRun, RequesterStep, PreDetection, PostDetection,
        ReaderStep, Threads

\* During a run the controllers of the run before are pending.
LEMMA PreviousStep ==
    ASSUME IInv, OneRequester, Serial, [Next]_vars
    PROVE  Previous'
<1> USE DEF ControlOK, FlagsOK, Previous, PreLabels, PostLabels, RunLabels,
        Threads, Goto, bgVars, lists, scan, env, objects, rdVars
<1>0. ControlOK /\ FlagsOK /\ Turns /\ Emptied /\ Phase /\ Latest /\ Previous
  BY DEF IInv, TypeOK, Serial
<1>a. Elems(<<>>) = {}
  BY ListsEmpty
<1>b. (/\ UNCHANGED <<pending, run>> /\ DOMAIN val' = DOMAIN val
       /\ pc'[BG] \in RunLabels => pc[BG] \in RunLabels)
      => Previous'
  BY <1>0
<1>c. run \in Nat /\ \A c \in DOMAIN val : c[2] \in Nat /\ c[2] <= run
  BY DEF IInv, TypeOK, ObjectsOK, Fresh, Controllers
<1>1. ASSUME NEW t \in Threads, PostReap(t) PROVE Previous'
  BY <1>0, <1>1 DEF PostReap, Phase
<1>2. ASSUME BgDispatch PROVE Previous'
  BY <1>0, <1>2 DEF BgDispatch
<1>3. ASSUME BgDetect PROVE Previous'
  BY <1>0, <1>a, <1>c, <1>3 DEF BgDetect, Latest, Emptied, Coming
<1>4. ASSUME NEW d \in Devices, BgRegisterNew(d) PROVE Previous'
  <2>1. /\ DOMAIN val' = DOMAIN val \cup {<<d, run>>} /\ run' = run
        /\ pending' = pending /\ pc[BG] = "register"
    BY <1>4, Registered
  <2>2. \A c \in DOMAIN val' : c[2] = run \/ c \in DOMAIN val
    BY <2>1
  <2>3. run + 1 # run
    BY <1>c
  <2>4. QED
    BY <1>0, <2>1, <2>2, <2>3
<1>5. ASSUME NEW d \in Devices, BgRegisterKnown(d) PROVE Previous'
  <2>1. /\ DOMAIN val' = DOMAIN val \cup {<<d, run>>} /\ run' = run
        /\ pending' = pending /\ pc[BG] = "register"
    BY <1>5, Registered
  <2>2. \A c \in DOMAIN val' : c[2] = run \/ c \in DOMAIN val
    BY <2>1
  <2>3. run + 1 # run
    BY <1>c
  <2>4. QED
    BY <1>0, <2>1, <2>2, <2>3
<1>6. ASSUME NEW t \in Threads,
                CheckRequired(t) \/ WaitForDetection(t) \/ SavePending(t)
             \/ ClearHardware(t) \/ UpdateList(t) \/ SetRequired(t)
             \/ PostFlag(t) \/ PostScan(t)
      PROVE  Previous'
  BY <1>0, <1>a, <1>6
    DEF CheckRequired, AfterRefusal, WaitForDetection, SavePending,
        ClearHardware, UpdateList, Rebuild, SetRequired, PostFlag, PostScan
<1>7. ASSUME NEW t \in Requesters,
                RequestRescan(t) \/ ScheduleHidExit(t) \/ Notify(t)
             \/ ScheduleDetect(t)
      PROVE  Previous'
  BY <1>0, <1>7 DEF RequestRescan, ScheduleHidExit, Notify, ScheduleDetect
<1>8. ASSUME
                BgThrow \/ BgSpuriousWakeup \/ BgHidExit \/ BgInit
             \/ BgStartServers \/ BgLoadSizes \/ BgShow \/ BgPublish \/ BgLoopEnd
             \/ StopDeviceDetection \/ PlugOrUnplug \/ UNCHANGED vars
      PROVE  Previous'
  BY <1>0, <1>8
    DEF BgThrow, BgSpuriousWakeup, BgHidExit, BgInit, BgStartServers,
        BgLoadSizes, BgShow, Rebuild, BgPublish, BgLoopEnd, StopDeviceDetection,
        PlugOrUnplug, vars
<1>9. ASSUME NEW d \in Devices, BgDetector(d) PROVE Previous'
  BY <1>b, <1>9 DEF BgDetector
<1>10. ASSUME NEW u \in Readers, NEW i \in DOMAIN Served,
             ReaderCheck(u, i)
      PROVE  Previous'
  BY <1>b, <1>10 DEF ReaderCheck
<1>11. ASSUME NEW u \in Readers, ReaderFetch(u) PROVE Previous'
  BY <1>b, <1>11 DEF ReaderFetch
<1>12. ASSUME NEW u \in Readers, NEW v \in Values,
             ReaderUse(u, v)
      PROVE  Previous'
  BY <1>b, <1>12 DEF ReaderUse
<1>m. ASSUME NEW t \in Threads, NEW r \in Requesters, PostReapAmid(t, r) PROVE Previous'
  BY <1>m, Alone DEF Serial
<1> HIDE DEF ControlOK, FlagsOK, Previous, PreLabels, PostLabels,
        RunLabels, Threads, Goto, bgVars, lists, scan, env, objects, rdVars
<1>13. QED
    BY <1>m, <1>1, <1>2, <1>3, <1>4, <1>5, <1>6, <1>7, <1>8, <1>9, <1>10, <1>11, <1>12
    DEF Next, BgRun, RequesterStep, PreDetection, PostDetection,
        ReaderStep, Threads

\* Matched are the pending controllers whose devices were found again.
LEMMA MatchingStep ==
    ASSUME IInv, OneRequester, Serial, [Next]_vars
    PROVE  Matching'
<1> USE DEF ControlOK, FlagsOK, Matching, PreLabels, PostLabels, RunLabels,
        Threads, Goto, bgVars, lists, scan, env, objects, rdVars
<1>0. /\ ControlOK /\ FlagsOK /\ Turns /\ Emptied /\ Phase /\ Current /\ Distinct
      /\ Matching
  BY DEF IInv, TypeOK, Serial
<1>a. Elems(<<>>) = {} /\ DevicesOf(<<>>) = {}
  BY ListsEmpty DEF DevicesOf
<1>b. (/\ UNCHANGED <<hw, pending, matched>>
       /\ pc'[BG] \in RunLabels \cup {"postFlag"} =>
            pc[BG] \in RunLabels \cup {"postFlag"})
      => Matching'
  BY <1>0
<1>1. ASSUME NEW t \in Threads, CheckRequired(t) PROVE Matching'
  BY <1>0, <1>1 DEF CheckRequired, AfterRefusal, Phase, QuietLabels
<1>2. ASSUME NEW t \in Threads, SavePending(t) PROVE Matching'
  BY <1>0, <1>2 DEF SavePending, Emptied, Asking, Running
<1>3. ASSUME NEW t \in Threads, ClearHardware(t) PROVE Matching'
  BY <1>a, <1>3 DEF ClearHardware
<1>4. ASSUME NEW t \in Threads, PostReap(t) PROVE Matching'
  BY <1>a, <1>4 DEF PostReap
<1>5. ASSUME BgDispatch PROVE Matching'
  BY <1>0, <1>5 DEF BgDispatch
<1>6. ASSUME BgStartServers PROVE Matching'
  BY <1>0, <1>a, <1>6 DEF BgStartServers, Phase, Emptied
<1>7. ASSUME BgDetect PROVE Matching'
  BY <1>0, <1>a, <1>7 DEF BgDetect, Emptied, Coming
<1>8. ASSUME NEW d \in Devices, BgRegisterNew(d) PROVE Matching'
  <2>1. /\ Elems(hw') = Elems(hw) \cup {<<d, run>>} /\ pc[BG] = "register"
        /\ d \in found /\ pending' = pending /\ pc'[BG] = "sizes"
    BY <1>8, Registered
  <2>2. \A c \in Elems(hw) : Device(c) # d
    BY <1>0, <2>1 DEF Current, FreshDevices
  <2>3. DevicesOf(hw') = DevicesOf(hw) \cup {d}
    BY <1>8, Registered
  <2>4. matched' = matched /\ \A c \in Elems(pending) : Device(c) = d => c \in matched
    BY <1>8 DEF BgRegisterNew, Unmatched, Elems
  <2>5. d \notin DevicesOf(hw)
    BY <2>2 DEF DevicesOf
  <2>6. QED
    BY <1>0, <2>1, <2>3, <2>4, <2>5
<1>9. ASSUME NEW d \in Devices, BgRegisterKnown(d) PROVE Matching'
  <2>1. /\ Elems(hw') = Elems(hw) \cup {<<d, run>>} /\ pc[BG] = "register"
        /\ pending' = pending /\ pc'[BG] = "sizes"
    BY <1>9, Registered
  <2>2. DevicesOf(hw') = DevicesOf(hw) \cup {d}
    BY <1>9, Registered
  <2>3. PICK i \in Unmatched(d) : matched' = matched \cup {pending[i]}
    BY <1>9 DEF BgRegisterKnown
  <2>4. pending[i] \in Elems(pending) /\ Device(pending[i]) = d
    BY <2>3 DEF Unmatched, Elems
  <2>5. \A c \in Elems(pending) : Device(c) = d => c = pending[i]
    BY <1>0, <2>3, <2>4 DEF Distinct, OneEach, Elems, Unmatched
  <2>6. QED
    BY <1>0, <2>1, <2>2, <2>3, <2>4, <2>5
<1>10. ASSUME NEW t \in Threads,
                WaitForDetection(t) \/ UpdateList(t) \/ SetRequired(t)
             \/ PostFlag(t) \/ PostScan(t)
      PROVE  Matching'
  BY <1>0, <1>10
    DEF WaitForDetection, UpdateList, Rebuild, SetRequired, PostFlag, PostScan
<1>11. ASSUME NEW t \in Requesters,
                RequestRescan(t) \/ ScheduleHidExit(t) \/ Notify(t)
             \/ ScheduleDetect(t)
      PROVE  Matching'
  BY <1>0, <1>11 DEF RequestRescan, ScheduleHidExit, Notify, ScheduleDetect
<1>12. ASSUME
                BgThrow \/ BgSpuriousWakeup \/ BgHidExit \/ BgInit
             \/ BgLoadSizes \/ BgShow \/ BgPublish \/ BgLoopEnd \/ StopDeviceDetection
             \/ PlugOrUnplug \/ UNCHANGED vars
      PROVE  Matching'
  BY <1>0, <1>12
    DEF BgThrow, BgSpuriousWakeup, BgHidExit, BgInit, BgLoadSizes, BgShow, Rebuild,
        BgPublish, BgLoopEnd, StopDeviceDetection, PlugOrUnplug, vars
<1>13. ASSUME NEW d \in Devices, BgDetector(d) PROVE Matching'
  BY <1>b, <1>13 DEF BgDetector
<1>14. ASSUME NEW u \in Readers, NEW i \in DOMAIN Served,
             ReaderCheck(u, i)
      PROVE  Matching'
  BY <1>b, <1>14 DEF ReaderCheck
<1>15. ASSUME NEW u \in Readers, ReaderFetch(u) PROVE Matching'
  BY <1>b, <1>15 DEF ReaderFetch
<1>16. ASSUME NEW u \in Readers, NEW v \in Values,
             ReaderUse(u, v)
      PROVE  Matching'
  BY <1>b, <1>16 DEF ReaderUse
<1>m. ASSUME NEW t \in Threads, NEW r \in Requesters, PostReapAmid(t, r) PROVE Matching'
  BY <1>m, Alone DEF Serial
<1> HIDE DEF ControlOK, FlagsOK, Matching, PreLabels, PostLabels,
        RunLabels, Threads, Goto, bgVars, lists, scan, env, objects, rdVars
<1>17. QED
    BY <1>m, <1>1, <1>2, <1>3, <1>4, <1>5, <1>6, <1>7, <1>8, <1>9, <1>10, <1>11, <1>12, <1>13, <1>14, <1>15, <1>16
    DEF Next, BgRun, RequesterStep, PreDetection, PostDetection,
        ReaderStep, Threads

\* RegisterRGBController loads the sizes of what is behind detection_prev_size.
LEMMA SizesStep ==
    ASSUME IInv, OneRequester, Serial, [Next]_vars
    PROVE  Sizes'
<1> USE DEF ControlOK, ObjectsOK, Sizes, Threads, Goto, bgVars, lists,
        scan, env, objects, rdVars
<1>0. ControlOK /\ ObjectsOK /\ Turns /\ Emptied /\ Sizes
  BY DEF IInv, TypeOK, Serial
<1>b. (/\ UNCHANGED <<hw, prevSize>> /\ sized \subseteq sized'
       /\ pc'[BG] = "sizes" <=> pc[BG] = "sizes")
      => Sizes'
  BY <1>0
<1>1. ASSUME NEW t \in Threads, ClearHardware(t) PROVE Sizes'
  BY <1>0, <1>1 DEF ClearHardware, Turns, Asking
<1>2. ASSUME BgDispatch PROVE Sizes'
  BY <1>0, <1>2 DEF BgDispatch
<1>3. ASSUME BgLoadSizes \/ BgShow PROVE Sizes'
  BY <1>0, <1>3 DEF BgLoadSizes, BgShow, Rebuild, NewlyAdded
<1>4. ASSUME NEW d \in Devices, BgRegisterNew(d) PROVE Sizes'
  <2>1. /\ hw' = Append(hw, <<d, run>>) /\ pc[BG] = "register" /\ pc'[BG] = "sizes"
        /\ prevSize' = prevSize /\ sized' = sized /\ <<d, run>> \in Controllers
    BY <1>4, Registered
  <2>2. Len(hw') = Len(hw) + 1 /\ \A i \in 1..Len(hw) : hw'[i] = hw[i]
    BY <2>1
  <2>3. Len(hw) \in Nat /\ prevSize \in Nat
    BY <1>0
  <2>4. prevSize' < Len(hw') /\ prevSize' <= Len(hw')
    BY <1>0, <2>1, <2>2, <2>3
  <2>5. \A i \in 1..Len(hw) : hw[i] \in sized
    BY <1>0, <2>1
  <2>6. QED
    BY <1>0, <2>1, <2>2, <2>3, <2>4, <2>5
<1>5. ASSUME NEW d \in Devices, BgRegisterKnown(d) PROVE Sizes'
  <2>1. /\ hw' = Append(hw, <<d, run>>) /\ pc[BG] = "register" /\ pc'[BG] = "sizes"
        /\ prevSize' = prevSize /\ sized' = sized /\ <<d, run>> \in Controllers
    BY <1>5, Registered
  <2>2. Len(hw') = Len(hw) + 1 /\ \A i \in 1..Len(hw) : hw'[i] = hw[i]
    BY <2>1
  <2>3. Len(hw) \in Nat /\ prevSize \in Nat
    BY <1>0
  <2>4. prevSize' < Len(hw') /\ prevSize' <= Len(hw')
    BY <1>0, <2>1, <2>2, <2>3
  <2>5. \A i \in 1..Len(hw) : hw[i] \in sized
    BY <1>0, <2>1
  <2>6. QED
    BY <1>0, <2>1, <2>2, <2>3, <2>4, <2>5
<1>6. ASSUME NEW t \in Threads,
                CheckRequired(t) \/ WaitForDetection(t) \/ SavePending(t)
             \/ UpdateList(t) \/ SetRequired(t) \/ PostFlag(t) \/ PostReap(t)
             \/ PostScan(t)
      PROVE  Sizes'
  BY <1>0, <1>6
    DEF CheckRequired, AfterRefusal, WaitForDetection, SavePending,
        UpdateList, Rebuild, SetRequired, PostFlag, PostReap, PostScan
<1>7. ASSUME NEW t \in Requesters,
                RequestRescan(t) \/ ScheduleHidExit(t) \/ Notify(t)
             \/ ScheduleDetect(t)
      PROVE  Sizes'
  BY <1>0, <1>7 DEF RequestRescan, ScheduleHidExit, Notify, ScheduleDetect
<1>8. ASSUME
                BgThrow \/ BgSpuriousWakeup \/ BgHidExit \/ BgInit
             \/ BgStartServers \/ BgDetect \/ BgPublish \/ BgLoopEnd
             \/ StopDeviceDetection \/ PlugOrUnplug \/ UNCHANGED vars
      PROVE  Sizes'
  BY <1>0, <1>8
    DEF BgThrow, BgSpuriousWakeup, BgHidExit, BgInit, BgStartServers,
        BgDetect, BgPublish, Rebuild, BgLoopEnd, StopDeviceDetection,
        PlugOrUnplug, vars
<1>9. ASSUME NEW d \in Devices, BgDetector(d) PROVE Sizes'
  BY <1>b, <1>9 DEF BgDetector
<1>10. ASSUME NEW u \in Readers, NEW i \in DOMAIN Served,
             ReaderCheck(u, i)
      PROVE  Sizes'
  BY <1>b, <1>10 DEF ReaderCheck
<1>11. ASSUME NEW u \in Readers, ReaderFetch(u) PROVE Sizes'
  BY <1>b, <1>11 DEF ReaderFetch
<1>12. ASSUME NEW u \in Readers, NEW v \in Values,
             ReaderUse(u, v)
      PROVE  Sizes'
  BY <1>b, <1>12 DEF ReaderUse
<1>m. ASSUME NEW t \in Threads, NEW r \in Requesters, PostReapAmid(t, r) PROVE Sizes'
  BY <1>m, Alone DEF Serial
<1> HIDE DEF ControlOK, ObjectsOK, Sizes, Threads, Goto, bgVars, lists,
        scan, env, objects, rdVars
<1>13. QED
    BY <1>m, <1>1, <1>2, <1>3, <1>4, <1>5, <1>6, <1>7, <1>8, <1>9, <1>10, <1>11, <1>12
    DEF Next, BgRun, RequesterStep, PreDetection, PostDetection,
        ReaderStep, Threads

\* It rebuilds the list only after it has loaded the new ones' sizes.
LEMMA SizesLoadedStep ==
    ASSUME IInv, OneRequester, Serial, [Next]_vars
    PROVE  SizesLoadedWhenListed'
<1> USE DEF ControlOK, ObjectsOK, SizesLoadedWhenListed, Threads, Goto,
        bgVars, lists, scan, env, objects, rdVars
<1>0. ControlOK /\ ObjectsOK /\ Emptied /\ Sizes /\ SizesLoadedWhenListed
  BY DEF IInv, TypeOK, Serial
<1>a. Elems(<<>>) = {}
  BY ListsEmpty
<1>b. Elems(hw') \ sized' \subseteq IF pc'[BG] = "sizes" THEN {hw'[Len(hw')]} ELSE {}
  BY SizesStep DEF Sizes, Elems
<1>c. listed' = listed /\ sized \subseteq sized' => SizesLoadedWhenListed'
  BY <1>0, <1>b
<1>1. ASSUME NEW t \in Threads, UpdateList(t) PROVE SizesLoadedWhenListed'
  BY <1>0, <1>b, <1>a, <1>1 DEF UpdateList, Rebuild, Emptied, Changing, PreLabels
<1>2. ASSUME BgLoadSizes \/ BgShow PROVE SizesLoadedWhenListed'
  BY <1>0, <1>b, <1>2, SMTT(30) DEF BgLoadSizes, BgShow, Rebuild, NewlyAdded, Sizes, Elems
<1>3. ASSUME BgPublish PROVE SizesLoadedWhenListed'
  BY <1>0, <1>b, <1>3 DEF BgPublish, Rebuild, Sizes, Elems
<1>4. ASSUME NEW d \in Devices, BgRegisterNew(d) PROVE SizesLoadedWhenListed'
  BY <1>c, <1>4, Registered
<1>5. ASSUME NEW d \in Devices,
             BgRegisterKnown(d)
      PROVE  SizesLoadedWhenListed'
  BY <1>c, <1>5, Registered
<1>6. ASSUME NEW t \in Threads,
                CheckRequired(t) \/ WaitForDetection(t) \/ SavePending(t)
             \/ ClearHardware(t) \/ SetRequired(t) \/ PostFlag(t)
             \/ PostReap(t) \/ PostScan(t)
      PROVE  SizesLoadedWhenListed'
  BY <1>c, <1>6
    DEF CheckRequired, AfterRefusal, WaitForDetection, SavePending,
        ClearHardware, SetRequired, PostFlag, PostReap, PostScan
<1>7. ASSUME NEW t \in Requesters,
                RequestRescan(t) \/ ScheduleHidExit(t) \/ Notify(t)
             \/ ScheduleDetect(t)
      PROVE  SizesLoadedWhenListed'
  BY <1>c, <1>7 DEF RequestRescan, ScheduleHidExit, Notify, ScheduleDetect
<1>8. ASSUME
                BgThrow \/ BgDispatch \/ BgSpuriousWakeup \/ BgHidExit
             \/ BgInit \/ BgStartServers \/ BgDetect \/ BgLoopEnd
             \/ StopDeviceDetection \/ PlugOrUnplug \/ UNCHANGED vars
      PROVE  SizesLoadedWhenListed'
  BY <1>c, <1>8
    DEF BgThrow, BgDispatch, BgSpuriousWakeup, BgHidExit, BgInit,
        BgStartServers, BgDetect, BgLoopEnd, StopDeviceDetection,
        PlugOrUnplug, vars
<1>9. ASSUME NEW d \in Devices, BgDetector(d) PROVE SizesLoadedWhenListed'
  BY <1>c, <1>9 DEF BgDetector
<1>10. ASSUME NEW u \in Readers, NEW i \in DOMAIN Served,
             ReaderCheck(u, i)
      PROVE  SizesLoadedWhenListed'
  BY <1>c, <1>10 DEF ReaderCheck
<1>11. ASSUME NEW u \in Readers, ReaderFetch(u) PROVE SizesLoadedWhenListed'
  BY <1>c, <1>11 DEF ReaderFetch
<1>12. ASSUME NEW u \in Readers, NEW v \in Values,
             ReaderUse(u, v)
      PROVE  SizesLoadedWhenListed'
  BY <1>c, <1>12 DEF ReaderUse
<1>m. ASSUME NEW t \in Threads, NEW r \in Requesters, PostReapAmid(t, r) PROVE SizesLoadedWhenListed'
  BY <1>m, Alone DEF Serial
<1> HIDE DEF ControlOK, ObjectsOK, SizesLoadedWhenListed, Threads, Goto,
        bgVars, lists, scan, env, objects, rdVars
<1>13. QED
    BY <1>m, <1>1, <1>2, <1>3, <1>4, <1>5, <1>6, <1>7, <1>8, <1>9, <1>10, <1>11, <1>12
    DEF Next, BgRun, RequesterStep, PreDetection, PostDetection,
        ReaderStep, Threads

\* Whoever drops a list has the objects in another one, or deletes them.
LEMMA NothingLeakedStep ==
    ASSUME IInv, OneRequester, Serial, [Next]_vars
    PROVE  NothingLeaked'
<1> USE DEF ControlOK, NothingLeaked, Threads, Goto, bgVars, lists, scan,
        env, objects, rdVars
<1>0. ControlOK /\ Emptied /\ Saved /\ ShownOnly /\ NothingLeaked
  BY DEF IInv, TypeOK, Serial
<1>a. Elems(<<>>) = {}
  BY ListsEmpty
<1>b. UNCHANGED <<hw, listed, pending, freed>> /\ DOMAIN val' = DOMAIN val => NothingLeaked'
  BY <1>0
<1>1. ASSUME NEW t \in Threads, ClearHardware(t) PROVE NothingLeaked'
  BY <1>0, <1>1 DEF ClearHardware, Emptied, PreLabels, Saved
<1>2. ASSUME NEW t \in Threads, UpdateList(t) PROVE NothingLeaked'
  BY <1>0, <1>2 DEF UpdateList, Rebuild, ShownOnly
<1>3. ASSUME NEW t \in Threads, PostReap(t) PROVE NothingLeaked'
  BY <1>0, <1>3 DEF PostReap, Reapable
<1>4. ASSUME BgLoadSizes \/ BgShow PROVE NothingLeaked'
  BY <1>0, <1>4 DEF BgLoadSizes, BgShow, Rebuild, ShownOnly
<1>5. ASSUME BgPublish PROVE NothingLeaked'
  BY <1>0, <1>5 DEF BgPublish, Rebuild, ShownOnly
<1>6. ASSUME NEW d \in Devices, BgRegisterNew(d) PROVE NothingLeaked'
  BY <1>0, <1>6, Registered
<1>7. ASSUME NEW d \in Devices, BgRegisterKnown(d) PROVE NothingLeaked'
  BY <1>0, <1>7, Registered
<1>8. ASSUME NEW t \in Threads,
                CheckRequired(t) \/ WaitForDetection(t) \/ SavePending(t)
             \/ SetRequired(t) \/ PostFlag(t) \/ PostScan(t)
      PROVE  NothingLeaked'
  BY <1>0, <1>a, <1>8
    DEF CheckRequired, AfterRefusal, WaitForDetection, SavePending,
        SetRequired, PostFlag, PostScan
<1>9. ASSUME NEW t \in Requesters,
                RequestRescan(t) \/ ScheduleHidExit(t) \/ Notify(t)
             \/ ScheduleDetect(t)
      PROVE  NothingLeaked'
  BY <1>b, <1>9 DEF RequestRescan, ScheduleHidExit, Notify, ScheduleDetect
<1>10. ASSUME
                BgThrow \/ BgDispatch \/ BgSpuriousWakeup \/ BgHidExit
             \/ BgInit \/ BgStartServers \/ BgDetect \/ BgLoopEnd
             \/ StopDeviceDetection \/ PlugOrUnplug \/ UNCHANGED vars
      PROVE  NothingLeaked'
  BY <1>b, <1>10
    DEF BgThrow, BgDispatch, BgSpuriousWakeup, BgHidExit, BgInit,
        BgStartServers, BgDetect, BgLoopEnd, StopDeviceDetection,
        PlugOrUnplug, vars
<1>11. ASSUME NEW d \in Devices, BgDetector(d) PROVE NothingLeaked'
  BY <1>b, <1>11 DEF BgDetector
<1>12. ASSUME NEW u \in Readers, NEW i \in DOMAIN Served,
             ReaderCheck(u, i)
      PROVE  NothingLeaked'
  BY <1>b, <1>12 DEF ReaderCheck
<1>13. ASSUME NEW u \in Readers, ReaderFetch(u) PROVE NothingLeaked'
  BY <1>b, <1>13 DEF ReaderFetch
<1>14. ASSUME NEW u \in Readers, NEW v \in Values,
             ReaderUse(u, v)
      PROVE  NothingLeaked'
  BY <1>b, <1>14 DEF ReaderUse
<1>m. ASSUME NEW t \in Threads, NEW r \in Requesters, PostReapAmid(t, r) PROVE NothingLeaked'
  BY <1>m, Alone DEF Serial
<1> HIDE DEF ControlOK, NothingLeaked, Threads, Goto, bgVars, lists, scan,
        env, objects, rdVars
<1>15. QED
    BY <1>m, <1>1, <1>2, <1>3, <1>4, <1>5, <1>6, <1>7, <1>8, <1>9, <1>10, <1>11, <1>12, <1>13, <1>14
    DEF Next, BgRun, RequesterStep, PreDetection, PostDetection,
        ReaderStep, Threads

\* The verdict stays right until ProcessPostDetection has reported it.
LEMMA ChangeVerdictStep ==
    ASSUME IInv, OneRequester, Serial, [Next]_vars
    PROVE  ChangeVerdict'
<1> USE DEF ControlOK, ChangeVerdict, PreLabels, PostLabels, RunLabels,
        Threads, Goto, bgVars, lists, scan, env, objects, rdVars
<1>0. ControlOK /\ Turns /\ Emptied /\ Phase /\ ChangeVerdict
  BY DEF IInv, TypeOK, Serial
<1>b. (/\ UNCHANGED <<hw, pending, changed>> /\ (enabled' => enabled)
       /\ pc'[BG] = "postFlag" => pc[BG] = "postFlag")
      => ChangeVerdict'
  BY <1>0
<1>1. ASSUME NEW t \in Threads, CheckRequired(t) PROVE ChangeVerdict'
  BY <1>b, <1>1 DEF CheckRequired, AfterRefusal
<1>2. ASSUME NEW t \in Threads, SavePending(t) PROVE ChangeVerdict'
  BY <1>0, <1>2 DEF SavePending, Emptied, Asking, Running
<1>3. ASSUME NEW t \in Threads, ClearHardware(t) PROVE ChangeVerdict'
  BY <1>0, <1>3 DEF ClearHardware, Emptied, Asking, Running
<1>4. ASSUME NEW t \in Threads, PostReap(t) PROVE ChangeVerdict'
  BY <1>0, <1>4 DEF PostReap, Phase
<1>5. ASSUME BgDispatch PROVE ChangeVerdict'
  BY <1>0, <1>5 DEF BgDispatch
<1>6. ASSUME BgInit PROVE ChangeVerdict'
  BY <1>6 DEF BgInit
<1>7. ASSUME BgStartServers PROVE ChangeVerdict'
  BY <1>7 DEF BgStartServers
<1>8. ASSUME BgLoopEnd PROVE ChangeVerdict'
  <2>1. /\ pc[BG] = "loop" /\ changed' = DevicesChanged
        /\ UNCHANGED <<hw, pending, enabled>>
    BY <1>8 DEF BgLoopEnd
  <2>2. hw \in Seq(Controllers) /\ pending \in Seq(Controllers)
    BY DEF IInv, TypeOK, ObjectsOK
  <2>3. OneEach(hw) /\ OneEach(pending)
    BY DEF Serial, Distinct
  <2>4. matched = {c \in Elems(pending) : Device(c) \in DevicesOf(hw)}
    BY <2>1 DEF Serial, Matching
  <2>5. DevicesChanged <=> DevicesOf(hw) # DevicesOf(pending)
    BY <2>2, <2>3, <2>4, Verdict DEF DevicesChanged
  <2>6. QED
    BY <2>1, <2>5 DEF DevicesOf
<1>9. ASSUME NEW d \in Devices, BgRegisterNew(d) PROVE ChangeVerdict'
  BY <1>9, Registered
<1>10. ASSUME NEW d \in Devices, BgRegisterKnown(d) PROVE ChangeVerdict'
  BY <1>10, Registered
<1>11. ASSUME NEW t \in Threads,
                WaitForDetection(t) \/ UpdateList(t) \/ SetRequired(t)
             \/ PostFlag(t) \/ PostScan(t)
      PROVE  ChangeVerdict'
  BY <1>0, <1>11
    DEF WaitForDetection, UpdateList, Rebuild, SetRequired, PostFlag, PostScan
<1>12. ASSUME NEW t \in Requesters,
                RequestRescan(t) \/ ScheduleHidExit(t) \/ Notify(t)
             \/ ScheduleDetect(t)
      PROVE  ChangeVerdict'
  BY <1>0, <1>12 DEF RequestRescan, ScheduleHidExit, Notify, ScheduleDetect
<1>13. ASSUME
                BgThrow \/ BgSpuriousWakeup \/ BgHidExit \/ BgDetect
             \/ BgLoadSizes \/ BgShow \/ BgPublish \/ StopDeviceDetection
             \/ PlugOrUnplug \/ UNCHANGED vars
      PROVE  ChangeVerdict'
  BY <1>0, <1>13
    DEF BgThrow, BgSpuriousWakeup, BgHidExit, BgDetect, BgLoadSizes, BgShow, Rebuild,
        BgPublish, StopDeviceDetection, PlugOrUnplug, vars
<1>14. ASSUME NEW d \in Devices, BgDetector(d) PROVE ChangeVerdict'
  BY <1>14 DEF BgDetector
<1>15. ASSUME NEW u \in Readers, NEW i \in DOMAIN Served,
             ReaderCheck(u, i)
      PROVE  ChangeVerdict'
  BY <1>b, <1>15 DEF ReaderCheck
<1>16. ASSUME NEW u \in Readers, ReaderFetch(u) PROVE ChangeVerdict'
  BY <1>b, <1>16 DEF ReaderFetch
<1>17. ASSUME NEW u \in Readers, NEW v \in Values,
             ReaderUse(u, v)
      PROVE  ChangeVerdict'
  BY <1>b, <1>17 DEF ReaderUse
<1>m. ASSUME NEW t \in Threads, NEW r \in Requesters, PostReapAmid(t, r) PROVE ChangeVerdict'
  BY <1>m, Alone DEF Serial
<1> HIDE DEF ControlOK, ChangeVerdict, PreLabels, PostLabels, RunLabels,
        Threads, Goto, bgVars, lists, scan, env, objects, rdVars
<1>18. QED
    BY <1>m, <1>1, <1>2, <1>3, <1>4, <1>5, <1>6, <1>7, <1>8, <1>9, <1>10, <1>11, <1>12, <1>13, <1>14, <1>15, <1>16, <1>17
    DEF Next, BgRun, RequesterStep, PreDetection, PostDetection,
        ReaderStep, Threads

\* During a run that nobody stopped, the hardware list holds exactly the
\* devices that are plugged in and whose detectors have run.
LEMMA SearchedStep ==
    ASSUME IInv, OneRequester, Serial, HotplugWhen \subseteq {"waiting"}, Searched, [Next]_vars
    PROVE  Searched'
<1> USE DEF ControlOK, FlagsOK, Searched, PreLabels, PostLabels, RunLabels,
        Threads, Goto, bgVars, lists, scan, env, objects, rdVars
<1>0. /\ ControlOK /\ FlagsOK /\ Turns /\ Emptied /\ Phase /\ Fresh
      /\ Searched
  BY DEF IInv, TypeOK, Serial
<1>a. Elems(<<>>) = {} /\ DevicesOf(<<>>) = {} /\ present \subseteq Devices
  BY ListsEmpty DEF DevicesOf, IInv, TypeOK, ObjectsOK
<1>b. (/\ UNCHANGED <<hw, present, todo, found>> /\ (required' => required) /\ (enabled' => enabled)
       /\ pc'[BG] \in RunLabels \cup {"postFlag"} => pc[BG] = pc'[BG])
      => Searched'
  OBVIOUS
<1>1. ASSUME NEW t \in Threads, CheckRequired(t) PROVE Searched'
  BY <1>1 DEF CheckRequired, AfterRefusal
<1>2. ASSUME NEW t \in Threads, SavePending(t) PROVE Searched'
  BY <1>2 DEF SavePending
<1>3. ASSUME NEW t \in Threads, ClearHardware(t) PROVE Searched'
  BY <1>0, <1>3 DEF ClearHardware, Emptied, Asking, Running
<1>4. ASSUME NEW t \in Threads, SetRequired(t) PROVE Searched'
  BY <1>0, <1>4 DEF SetRequired, Turns, Changing
<1>5. ASSUME NEW t \in Threads, PostReap(t) PROVE Searched'
  BY <1>5 DEF PostReap
<1>6. ASSUME BgDispatch PROVE Searched'
  BY <1>0, <1>6 DEF BgDispatch
<1>7. ASSUME BgInit PROVE Searched'
  BY <1>7 DEF BgInit
<1>8. ASSUME BgStartServers PROVE Searched'
  BY <1>8 DEF BgStartServers
<1>9. ASSUME BgDetect PROVE Searched'
  BY <1>0, <1>a, <1>9 DEF BgDetect, Emptied, Coming
<1>10. ASSUME BgLoadSizes \/ BgShow PROVE Searched'
  BY <1>0, <1>10 DEF BgLoadSizes, BgShow, Rebuild
<1>11. ASSUME BgPublish PROVE Searched'
  BY <1>11 DEF BgPublish, Rebuild
<1>12. ASSUME BgLoopEnd PROVE Searched'
  BY <1>12 DEF BgLoopEnd
<1>13. ASSUME NEW d \in Devices, BgRegisterNew(d) PROVE Searched'
  <2>1. /\ Elems(hw') = Elems(hw) \cup {<<d, run>>} /\ pc[BG] = "register"
        /\ d \in found /\ d \notin todo /\ pc'[BG] = "sizes"
        /\ UNCHANGED <<present, todo, required>>
    BY <1>13, Registered
  <2>2. DevicesOf(hw') = DevicesOf(hw) \cup {d}
    BY <1>13, Registered
  <2>3. found = {d} /\ d \in present
    BY <2>1
  <2>4. QED
    BY <2>1, <2>2, <2>3
<1>14. ASSUME NEW d \in Devices, BgRegisterKnown(d) PROVE Searched'
  <2>1. /\ Elems(hw') = Elems(hw) \cup {<<d, run>>} /\ pc[BG] = "register"
        /\ d \in found /\ d \notin todo /\ pc'[BG] = "sizes"
        /\ UNCHANGED <<present, todo, required>>
    BY <1>14, Registered
  <2>2. DevicesOf(hw') = DevicesOf(hw) \cup {d}
    BY <1>14, Registered
  <2>3. found = {d} /\ d \in present
    BY <2>1
  <2>4. QED
    BY <2>1, <2>2, <2>3
<1>15. ASSUME StopDeviceDetection PROVE Searched'
  BY <1>15 DEF StopDeviceDetection
<1>16. ASSUME PlugOrUnplug PROVE Searched'
  BY <1>16 DEF PlugOrUnplug
<1>17. ASSUME NEW t \in Threads,
                WaitForDetection(t) \/ UpdateList(t) \/ PostFlag(t)
             \/ PostScan(t)
      PROVE  Searched'
  BY <1>0, <1>17 DEF WaitForDetection, UpdateList, Rebuild, PostFlag, PostScan
<1>18. ASSUME NEW t \in Requesters,
                RequestRescan(t) \/ ScheduleHidExit(t) \/ Notify(t)
             \/ ScheduleDetect(t)
      PROVE  Searched'
  BY <1>0, <1>18 DEF RequestRescan, ScheduleHidExit, Notify, ScheduleDetect
<1>19. ASSUME
                BgThrow \/ BgSpuriousWakeup \/ BgHidExit \/ UNCHANGED vars
      PROVE  Searched'
  BY <1>0, <1>19 DEF BgThrow, BgSpuriousWakeup, BgHidExit, vars
<1>20. ASSUME NEW d \in Devices, BgDetector(d) PROVE Searched'
  BY <1>0, <1>20 DEF BgDetector
<1>21. ASSUME NEW u \in Readers, NEW i \in DOMAIN Served,
             ReaderCheck(u, i)
      PROVE  Searched'
  BY <1>21 DEF ReaderCheck
<1>22. ASSUME NEW u \in Readers, ReaderFetch(u) PROVE Searched'
  BY <1>22 DEF ReaderFetch
<1>23. ASSUME NEW u \in Readers, NEW v \in Values,
             ReaderUse(u, v)
      PROVE  Searched'
  BY <1>23 DEF ReaderUse
<1>m. ASSUME NEW t \in Threads, NEW r \in Requesters, PostReapAmid(t, r) PROVE Searched'
  BY <1>m, Alone DEF Serial
<1> HIDE DEF ControlOK, FlagsOK, Searched, PreLabels, PostLabels,
        RunLabels, Threads, Goto, bgVars, lists, scan, env, objects, rdVars
<1>24. QED
    BY <1>m, <1>1, <1>2, <1>3, <1>4, <1>5, <1>6, <1>7, <1>8, <1>9, <1>10, <1>11, <1>12, <1>13, <1>14, <1>15, <1>16, <1>17, <1>18, <1>19, <1>20, <1>21, <1>22, <1>23
    DEF Next, BgRun, RequesterStep, PreDetection, PostDetection,
        ReaderStep, Threads

-----------------------------------------------------------------------------
\* Serial and Searched hold at first.
LEMMA InitSerial == Init => Serial /\ Searched
<1> SUFFICES ASSUME Init PROVE Serial /\ Searched
  OBVIOUS
<1>1. pc[BG] = "start" /\ \A t \in Requesters : pc[t] = "idle"
  BY DEF Init, Threads
<1>2. /\ hw = <<>> /\ listed = <<>> /\ pending = <<>> /\ matched = {}
      /\ prevSize = 0 /\ DOMAIN val = {} /\ ~serversUp /\ ~initDone
      /\ sched = "init"
  BY DEF Init
<1>3. Elems(<<>>) = {} /\ OneEach(<<>>)
  BY DEF Elems, OneEach
<1>4. Turns
  BY <1>1, <1>2 DEF Turns, Running, Asking, Changing, RunLabels, PostLabels
<1>5. Emptied
  BY <1>1, <1>2 DEF Emptied
<1>6. ShownOnly /\ Saved /\ Distinct /\ Latest /\ Sizes
  BY <1>1, <1>2, <1>3 DEF ShownOnly, Saved, Distinct, Latest, Sizes
<1>7. Current /\ Previous /\ Matching /\ Searched
  BY <1>1 DEF Current, Previous, Matching, Searched, RunLabels
<1>8. NothingLeaked /\ ChangeVerdict /\ SizesLoadedWhenListed
  BY <1>1, <1>2, <1>3 DEF NothingLeaked, ChangeVerdict, SizesLoadedWhenListed
<1>9. QED
  BY <1>4, <1>5, <1>6, <1>7, <1>8 DEF Serial

\* Every step preserves Serial.
LEMMA SerialStep ==
    ASSUME IInv, OneRequester, Serial, [Next]_vars
    PROVE  Serial'
  BY TurnsStep, EmptiedStep, ShownOnlyStep, SavedStep, CurrentStep,
     DistinctStep, LatestStep, PreviousStep, MatchingStep, SizesStep,
     NothingLeakedStep, ChangeVerdictStep, SizesLoadedStep DEF Serial

\* So with one requester it always holds.
LEMMA SerialInvariance == ASSUME OneRequester PROVE Spec => [](IInv /\ Serial)
<1>1. IInv /\ Serial /\ [Next]_vars => Serial'
  BY SerialStep
<1>2. QED
  BY <1>1, InitSerial, InitInv, Inductive, PTL DEF Spec

-----------------------------------------------------------------------------
\* With one requester, no list ever shows a device twice.
THEOREM DevicesShownOnce ==
    ASSUME OneRequester PROVE Spec => []OneControllerPerDevice
<1>1. Serial => OneControllerPerDevice
  BY DEF Serial, Distinct, OneEach, OneControllerPerDevice
<1>2. QED
  BY <1>1, SerialInvariance, PTL

\* With one requester, no controller object is forgotten.
THEOREM ObjectsKept == ASSUME OneRequester PROVE Spec => []NothingLeaked
<1>1. Serial => NothingLeaked
  BY DEF Serial
<1>2. QED
  BY <1>1, SerialInvariance, PTL

\* With one requester, devices_changed is right although it only compares
\* the lengths of the lists and the number of matched controllers.
THEOREM VerdictRight == ASSUME OneRequester PROVE Spec => []ChangeVerdict
<1>1. Serial => ChangeVerdict
  BY DEF Serial
<1>2. QED
  BY <1>1, SerialInvariance, PTL

\* With one requester, a controller's saved sizes are loaded before the list
\* shows it; in the hardware list, which the servers read, just the one that was
\* pushed last may still lack them.
THEOREM SizesComeFirst ==
    ASSUME OneRequester PROVE Spec => []SizesLoadedWhenListed
<1>1. Serial => SizesLoadedWhenListed
  BY DEF Serial
<1>2. QED
  BY <1>1, SerialInvariance, PTL

\* With one requester, and devices that come and go only while the background
\* thread sleeps, a detection that ran to its end found what is plugged in.
THEOREM ScanComplete ==
    ASSUME OneRequester, HotplugWhen \subseteq {"waiting"}
    PROVE  Spec => []ScanFindsDevices
<1>1. IInv /\ Serial /\ Searched /\ [Next]_vars => Searched'
  BY SearchedStep
<1>2. Searched => ScanFindsDevices
  BY DEF Searched, ScanFindsDevices, DevicesOf
<1>3. QED
  BY <1>1, <1>2, InitSerial, SerialInvariance, PTL DEF Spec

\* The two lists hold what they hold when a controller is registered: a
\* controller of the last run is pending, unmatched and the only one.
LEMMA OldFound ==
    ASSUME IInv, Serial, pc[BG] = "register", NEW d \in found,
           NEW old \in DOMAIN val, Device(old) = d, old[2] + 1 = run
    PROVE  \A i \in DOMAIN pending :
              pending[i] = old => Unmatched(d) = {i}
<1>1. d \notin DevicesOf(hw)
  BY DEF Serial, Current, FreshDevices, RunLabels, DevicesOf
<1>2. old \notin matched
  BY <1>1 DEF Serial, Matching, RunLabels
<1>3. \A i, j \in DOMAIN pending : Device(pending[i]) = Device(pending[j]) => i = j
  BY DEF Serial, Distinct, OneEach
<1>4. QED
  BY <1>2, <1>3 DEF Unmatched

\* Only RegisterRGBController creates controllers.
LEMMA Creates ==
    ASSUME IInv, DOMAIN val' # DOMAIN val, [Next]_vars
    PROVE  \E d \in Devices : BgRegisterNew(d) \/ BgRegisterKnown(d)
<1> USE DEF bgVars, lists, scan, env, objects, rdVars
<1>1. ASSUME NEW e \in Devices,
             BgRegisterNew(e)
      PROVE  \E d \in Devices : BgRegisterNew(d) \/ BgRegisterKnown(d)
  BY <1>1
<1>2. ASSUME NEW e \in Devices,
             BgRegisterKnown(e)
      PROVE  \E d \in Devices : BgRegisterNew(d) \/ BgRegisterKnown(d)
  BY <1>2
<1>3. ASSUME NEW t \in Threads,
                CheckRequired(t) \/ WaitForDetection(t) \/ SavePending(t)
             \/ ClearHardware(t) \/ UpdateList(t) \/ SetRequired(t)
             \/ PostFlag(t) \/ PostReap(t) \/ PostScan(t)
      PROVE  \E d \in Devices : BgRegisterNew(d) \/ BgRegisterKnown(d)
  BY <1>3
    DEF CheckRequired, AfterRefusal, WaitForDetection, SavePending,
        ClearHardware, UpdateList, Rebuild, SetRequired, PostFlag,
        PostReap, PostScan
<1>4. ASSUME NEW t \in Requesters,
                RequestRescan(t) \/ ScheduleHidExit(t) \/ Notify(t)
             \/ ScheduleDetect(t)
      PROVE  \E d \in Devices : BgRegisterNew(d) \/ BgRegisterKnown(d)
  BY <1>4 DEF RequestRescan, ScheduleHidExit, Notify, ScheduleDetect
<1>5. ASSUME
                BgThrow \/ BgDispatch \/ BgSpuriousWakeup \/ BgHidExit
             \/ BgInit \/ BgStartServers \/ BgDetect \/ BgLoadSizes \/ BgShow
             \/ BgPublish \/ BgLoopEnd \/ StopDeviceDetection \/ PlugOrUnplug
             \/ UNCHANGED vars
      PROVE  \E d \in Devices : BgRegisterNew(d) \/ BgRegisterKnown(d)
  BY <1>5
    DEF BgThrow, BgDispatch, BgSpuriousWakeup, BgHidExit, BgInit,
        BgStartServers, BgDetect, BgLoadSizes, BgShow, Rebuild, BgPublish, Rebuild,
        BgLoopEnd, StopDeviceDetection, PlugOrUnplug, vars
<1>6. ASSUME NEW e \in Devices,
             BgDetector(e)
      PROVE  \E d \in Devices : BgRegisterNew(d) \/ BgRegisterKnown(d)
  BY <1>6 DEF BgDetector
<1>7. ASSUME NEW u \in Readers, NEW i \in DOMAIN Served,
             ReaderCheck(u, i)
      PROVE  \E d \in Devices : BgRegisterNew(d) \/ BgRegisterKnown(d)
  BY <1>7 DEF ReaderCheck
<1>8. ASSUME NEW u \in Readers,
             ReaderFetch(u)
      PROVE  \E d \in Devices : BgRegisterNew(d) \/ BgRegisterKnown(d)
  BY <1>8 DEF ReaderFetch
<1>9. ASSUME NEW u \in Readers, NEW v \in Values,
             ReaderUse(u, v)
      PROVE  \E d \in Devices : BgRegisterNew(d) \/ BgRegisterKnown(d)
  BY <1>9 DEF ReaderUse
<1>m. ASSUME NEW t \in Threads, NEW r \in Requesters, PostReapAmid(t, r) PROVE \E d \in Devices : BgRegisterNew(d) \/ BgRegisterKnown(d)
  BY <1>m DEF PostReapAmid
<1> HIDE DEF bgVars, lists, scan, env, objects, rdVars
<1>10. QED
    BY <1>m, <1>1, <1>2, <1>3, <1>4, <1>5, <1>6, <1>7, <1>8, <1>9
    DEF Next, BgRun, RequesterStep, PreDetection, PostDetection,
        ReaderStep, Threads

\* With one requester, a device that the last detection found gets its mode
\* and colors back: its old controller is pending, and the only match.
THEOREM RestoresSettings == ASSUME OneRequester PROVE Spec => SettingsRestored
<1>1. IInv /\ Serial /\ [Next]_vars
        => [\A c \in DOMAIN val' \ DOMAIN val :
              \A old \in DOMAIN val :
                 Device(old) = Device(c) /\ old[2] + 1 = c[2]
                    => val'[c] = val[old]]_vars
  <2> SUFFICES ASSUME IInv, Serial, [Next]_vars,
                      NEW c \in DOMAIN val' \ DOMAIN val, NEW old \in DOMAIN val,
                      Device(old) = Device(c), old[2] + 1 = c[2]
               PROVE  val'[c] = val[old]
    OBVIOUS
  <2>1. PICK d \in Devices : BgRegisterNew(d) \/ BgRegisterKnown(d)
    BY Creates
  <2>2. /\ pc[BG] = "register" /\ d \in found /\ <<d, run>> \notin DOMAIN val
        /\ DOMAIN val' = DOMAIN val \cup {<<d, run>>}
    BY <2>1, Registered
  <2>3. c = <<d, run>>
    BY <2>2
  <2>4. Device(old) = d /\ old[2] + 1 = run
    BY <2>3 DEF Device
  <2>5. old \in Elems(pending)
    BY <2>2, <2>4 DEF Serial, Previous, RunLabels
  <2>6. PICK i \in DOMAIN pending : pending[i] = old
    BY <2>5 DEF Elems
  <2>7. Unmatched(d) = {i}
    BY <2>2, <2>4, <2>6, OldFound
  <2>8. BgRegisterKnown(d)
    BY <2>1, <2>7 DEF BgRegisterNew
  <2>9. Register(d, val[old])
    BY <2>6, <2>7, <2>8 DEF BgRegisterKnown
  <2>10. QED
    BY <2>2, <2>3, <2>9 DEF Register
<1>2. QED
  BY <1>1, SerialInvariance, PTL DEF Spec, SettingsRestored

=============================================================================
