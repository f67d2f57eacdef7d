----------------------------- MODULE DeviceCall -----------------------------
(***************************************************************************)
(* The device call thread of one RGBController, and the threads that ask   *)
(* it to show new colors or a new mode: callers change the data, raise a   *)
(* flag and go on; the thread polls the flags and writes to the device.    *)
(*                                                                         *)
(* A request of kind "leds" is SetLED... and UpdateLEDs, one of kind       *)
(* "mode" is SetMode.  Each gives its data a new number, so that a number  *)
(* tells how old the state of the device is.  Some network requests write  *)
(* to the device on the caller's own thread.                               *)
(***************************************************************************)
EXTENDS Naturals

CONSTANTS
    Callers,     \* threads that use the controller
    Thread,      \* DeviceCallThread
    Nobody,      \* no thread
    MaxRequests  \* bound on the requests of each kind

ASSUME CallAssumption ==
    /\ Thread \notin Callers /\ Nobody \notin Callers \cup {Thread}
    /\ MaxRequests \in Nat

VARIABLES
    resetFirst, \* the controller has CONTROLLER_FLAG_RESET_BEFORE_UPDATE
    pc,        \* where each thread is
    kind,      \* the kind of request it is at
    buf,       \* the data it is writing to the device
    flag,      \* CallFlag_UpdateMode, CallFlag_UpdateLEDs
    want,      \* the controller's data: active_mode and modes, colors
    shown,     \* what the device shows
    inited,    \* DeviceInitialized
    initOwner, \* owner of DeviceInitializeMutex
    inits,     \* calls of DeviceInitialize
    running,   \* DeviceThreadRunning
    life,      \* the controller object: its derived part goes first; or aborted
    early,     \* a request came before the thread had started
    direct     \* a caller wrote to the device itself

ready == <<inited, initOwner, inits>>
fixed == <<resetFirst, early, direct>>
vars  == <<pc, kind, buf, flag, want, shown, ready, running, life, fixed>>

Kinds == {"mode", "leds"}
Procs == Callers \cup {Thread}

DeviceLabels == {"ensure", "lock", "retest", "initialize", "read", "write"}
ThreadLabels == {"start", "loop", "test", "take", "done", "ended"} \cup DeviceLabels
CallerLabels == {"idle", "raise"} \cup DeviceLabels

Goto(p, label) == pc' = [pc EXCEPT ![p] = label]

Init ==
    /\ resetFirst \in BOOLEAN /\ early = FALSE /\ direct = FALSE
    /\ pc = [p \in Procs |-> IF p = Thread THEN "start" ELSE "idle"]
    /\ kind = [p \in Procs |-> "mode"]
    /\ buf = [p \in Procs |-> 0]
    /\ flag \in [Kinds -> BOOLEAN]      \* the constructor does not set them
    /\ want = [k \in Kinds |-> 0] /\ shown = [k \in Kinds |-> 0]
    /\ inited = FALSE /\ initOwner = Nobody /\ inits = 0
    /\ running = TRUE /\ life = "whole"

\* Wrong variant of Advance: the LEDs are looked at in an else branch that is
\* never reached.
AdvanceToLoop == Goto(Thread, "loop") /\ UNCHANGED kind

\* The thread is done with one kind: LEDs follow mode, then the loop starts over.
Advance ==
    IF kind[Thread] = "mode"
    THEN Goto(Thread, "test") /\ kind' = [kind EXCEPT ![Thread] = "leds"]
    ELSE Goto(Thread, "loop") /\ UNCHANGED kind

-----------------------------------------------------------------------------
(***************************************************************************)
(* Faults: wrong variants of definitions below.                            *)
(***************************************************************************)

\* DeviceThreadRunning is not tested.
LoopForever ==
    /\ pc[Thread] = "loop"
    /\ Goto(Thread, "test") /\ kind' = [kind EXCEPT ![Thread] = "mode"]
    /\ UNCHANGED <<buf, flag, want, shown, ready, running, life, fixed>>

\* The call thread does not clear the flags when it starts.
StartUncleared ==
    /\ pc[Thread] = "start"
    /\ Goto(Thread, "loop")
    /\ UNCHANGED <<kind, buf, flag, want, shown, ready, running, life, fixed>>

\* The second test, under the mutex, is left out.
InitializeAnyway(p) ==
    /\ pc[p] = "retest"
    /\ inits' = inits + 1
    /\ Goto(p, "initialize")
    /\ UNCHANGED <<kind, buf, flag, want, shown, inited, initOwner, running, life, fixed>>

\* The flag is cleared once more after the update.
WriteAndClear(p) ==
    /\ pc[p] = "write"
    /\ shown' = [shown EXCEPT ![kind[p]] = buf[p]]
    /\ flag' = [flag EXCEPT ![kind[p]] = FALSE]
    /\ IF p = Thread THEN Advance ELSE Goto(p, "idle") /\ UNCHANGED kind
    /\ UNCHANGED <<buf, want, ready, running, life, fixed>>

-----------------------------------------------------------------------------
(***************************************************************************)
(* Callers.                                                                *)
(***************************************************************************)

\* A caller changes the data; then it raises the flag or, for some requests,
\* writes to the device itself.
Set(c, k) ==
    /\ life = "whole"
    /\ pc[c] = "idle"
    /\ want[k] < MaxRequests
    /\ want' = [want EXCEPT ![k] = @ + 1]
    /\ kind' = [kind EXCEPT ![c] = k]
    /\ \/ Goto(c, "raise") /\ UNCHANGED direct
       \/ Goto(c, "ensure") /\ direct' = TRUE
    /\ early' = (early \/ pc[Thread] = "start")
    /\ UNCHANGED <<resetFirst, buf, flag, shown, ready, running, life>>

\* UpdateLEDs, UpdateMode.
Raise(c) ==
    /\ pc[c] = "raise"
    /\ flag' = [flag EXCEPT ![kind[c]] = TRUE]
    /\ Goto(c, "idle")
    /\ UNCHANGED <<kind, buf, want, shown, ready, running, life, fixed>>

-----------------------------------------------------------------------------
(***************************************************************************)
(* Access to the device, on the device call thread or on a caller's.       *)
(***************************************************************************)

\* EnsureInitializedForControl: the test without the mutex, and the lock.
EnsureTest(p) ==
    /\ pc[p] = "ensure"
    /\ Goto(p, IF inited THEN "read" ELSE "lock")
    /\ UNCHANGED <<kind, buf, flag, want, shown, ready, running, life, fixed>>

EnsureLock(p) ==
    /\ pc[p] = "lock"
    /\ initOwner = Nobody
    /\ initOwner' = p
    /\ Goto(p, "retest")
    /\ UNCHANGED <<kind, buf, flag, want, shown, inited, inits, running, life, fixed>>

\* The test under the mutex: nothing is left to do, or DeviceInitialize starts.
EnsureRetest(p) ==
    /\ pc[p] = "retest"
    /\ \/ /\ inited
          /\ initOwner' = Nobody /\ UNCHANGED inits
          /\ Goto(p, "read")
       \/ /\ ~inited
          /\ inits' = inits + 1 /\ UNCHANGED initOwner
          /\ Goto(p, "initialize")
    /\ UNCHANGED <<kind, buf, flag, want, shown, inited, running, life, fixed>>

\* DeviceInitialize returns; the flag is set and the mutex released.
Initialize(p) ==
    /\ pc[p] = "initialize"
    /\ inited' = TRUE /\ initOwner' = Nobody
    /\ Goto(p, "read")
    /\ UNCHANGED <<kind, buf, flag, want, shown, inits, running, life, fixed>>

\* DeviceUpdateLEDs, DeviceUpdateMode, UpdateZoneLEDs...: read the data, then
\* send it to the device.
Read(p) ==
    /\ pc[p] = "read" /\ life = "whole"
    /\ buf' = [buf EXCEPT ![p] = want[kind[p]]]
    /\ Goto(p, "write")
    /\ UNCHANGED <<kind, flag, want, shown, ready, running, life, fixed>>

Write(p) ==
    /\ pc[p] = "write"
    /\ shown' = [shown EXCEPT ![kind[p]] = buf[p]]
    /\ IF p \in Callers THEN Goto(p, "idle") /\ UNCHANGED kind
       ELSE IF resetFirst THEN Advance
       ELSE Goto(p, "done") /\ UNCHANGED kind
    /\ UNCHANGED <<buf, flag, want, ready, running, life, fixed>>

\* Once the destructor of the device class has run, these functions are pure
\* virtual, and a call of one ends the process; a call that had begun goes on
\* without the members of the device class, and may end it too.
Abort ==
    /\ life = "base"
    /\ pc[Thread] \in {"read", "write"}
    /\ life' = "aborted"
    /\ UNCHANGED <<pc, kind, buf, flag, want, shown, ready, running, fixed>>

Access(p) ==
    \/ EnsureTest(p) \/ EnsureLock(p) \/ EnsureRetest(p) \/ Initialize(p)
    \/ Read(p) \/ Write(p)

-----------------------------------------------------------------------------
(***************************************************************************)
(* DeviceCallThreadFunction.                                               *)
(***************************************************************************)

\* Both flags are cleared when the thread starts.
Start ==
    /\ pc[Thread] = "start"
    /\ flag' = [k \in Kinds |-> FALSE]
    /\ Goto(Thread, "loop")
    /\ UNCHANGED <<kind, buf, want, shown, ready, running, life, fixed>>

Loop ==
    /\ pc[Thread] = "loop"
    /\ IF running
       THEN Goto(Thread, "test") /\ kind' = [kind EXCEPT ![Thread] = "mode"]
       ELSE Goto(Thread, "ended") /\ UNCHANGED kind
    /\ UNCHANGED <<buf, flag, want, shown, ready, running, life, fixed>>

Test ==
    /\ pc[Thread] = "test"
    /\ IF flag[kind[Thread]]
       THEN Goto(Thread, IF resetFirst THEN "take" ELSE "ensure") /\ UNCHANGED kind
       ELSE Advance
    /\ UNCHANGED <<buf, flag, want, shown, ready, running, life, fixed>>

\* With RESET_BEFORE_UPDATE the flag goes down before the update.
Take ==
    /\ pc[Thread] = "take"
    /\ flag' = [flag EXCEPT ![kind[Thread]] = FALSE]
    /\ Goto(Thread, "ensure")
    /\ UNCHANGED <<kind, buf, want, shown, ready, running, life, fixed>>

\* Without it, the flag goes down afterwards.
Done ==
    /\ pc[Thread] = "done"
    /\ flag' = [flag EXCEPT ![kind[Thread]] = FALSE]
    /\ Advance
    /\ UNCHANGED <<buf, want, shown, ready, running, life, fixed>>

ThreadStep ==
    /\ life # "aborted"
    /\ Start \/ Loop \/ Test \/ Take \/ Done \/ Access(Thread) \/ Abort

-----------------------------------------------------------------------------
(***************************************************************************)
(* delete: the destructor of the device class runs first, then that of     *)
(* RGBController, which stops the thread and waits for it.                 *)
(***************************************************************************)
DeleteDevice ==
    /\ life = "whole"
    /\ \A c \in Callers : pc[c] = "idle"
    /\ life' = "base"
    /\ UNCHANGED <<pc, kind, buf, flag, want, shown, ready, running, fixed>>

StopThread ==
    /\ life = "base" /\ running
    /\ running' = FALSE
    /\ UNCHANGED <<pc, kind, buf, flag, want, shown, ready, life, fixed>>

Join ==
    /\ life = "base" /\ ~running
    /\ pc[Thread] = "ended"
    /\ life' = "gone"
    /\ UNCHANGED <<pc, kind, buf, flag, want, shown, ready, running, fixed>>

Next ==
    \/ ThreadStep
    \/ \E c \in Callers : (\E k \in Kinds : Set(c, k)) \/ Raise(c) \/ Access(c)
    \/ DeleteDevice \/ StopThread \/ Join

Spec == Init /\ [][Next]_vars

\* Every thread that can go on does; nobody is obliged to ask or to delete.
Fairness ==
    /\ WF_vars(ThreadStep)
    /\ \A c \in Callers : WF_vars(Raise(c) \/ Access(c))
    /\ WF_vars(StopThread \/ Join)

FairSpec == Spec /\ Fairness

-----------------------------------------------------------------------------
(***************************************************************************)
(* Properties.                                                             *)
(***************************************************************************)

\* Every variable has its type.
TypeOK ==
    /\ pc \in [Procs -> ThreadLabels \cup CallerLabels]
    /\ pc[Thread] \in ThreadLabels
    /\ \A c \in Callers : pc[c] \in CallerLabels
    /\ kind \in [Procs -> Kinds] /\ buf \in [Procs -> Nat]
    /\ flag \in [Kinds -> BOOLEAN]
    /\ want \in [Kinds -> Nat] /\ shown \in [Kinds -> Nat]
    /\ inited \in BOOLEAN /\ initOwner \in Procs \cup {Nobody} /\ inits \in Nat
    /\ resetFirst \in BOOLEAN /\ early \in BOOLEAN /\ direct \in BOOLEAN
    /\ running \in BOOLEAN /\ life \in {"whole", "base", "gone", "aborted"}

\* A thread is about to do something for a request of kind k.
Busy(k) == \E p \in Procs : kind[p] = k /\ pc[p] \in {"raise"} \cup DeviceLabels

\* No flag is up, no thread is at a request, and the device shows older data.
Stale == \E k \in Kinds : ~flag[k] /\ ~Busy(k) /\ shown[k] # want[k]

\* With RESET_BEFORE_UPDATE no request is lost, though requests keep coming
\* while the thread writes: once everybody is done, the device shows the last
\* data.  Requests before the thread has started and writes on a caller's own
\* thread are the exceptions.
NothingLost == resetFirst /\ ~early /\ ~direct => ~Stale

\* The device is initialised at most once, whoever gets there first, and its
\* initialisation has ended before anybody reads data to write to it.
InitializedOnce ==
    /\ inits <= 1
    /\ \A p \in Procs : pc[p] \in {"read", "write"} =>
          inits = 1 /\ inited /\ \A q \in Procs : pc[q] # "initialize"

\* When the requests end, such a device comes to show the last data for good,
\* unless it is deleted.
Converges ==
    <>[](resetFirst /\ ~early /\ ~direct /\ life = "whole" => shown = want)

\* No update is pending or on its way.  What was requested before the thread
\* started does not count, for its start drops it.
AtEase ==
    \/ pc[Thread] = "start"
    \/ /\ pc[Thread] \notin DeviceLabels \cup {"take"}
       /\ \A k \in Kinds : flag[k] => pc[Thread] = "done" /\ kind[Thread] = k

\* The destructor's join returns, unless the process ends: the thread tests the
\* flags once more after the derived part is gone.
DestructorReturns == life = "base" ~> life \in {"gone", "aborted"}

\* It does not end if no update was pending when the derived part went: from
\* then on none comes up again.
QuietTeardown ==
    [][life = "base" /\ AtEase => life' # "aborted" /\ AtEase']_vars

-----------------------------------------------------------------------------
(***************************************************************************)
(* What the documentation says and the code does not do.                   *)
(***************************************************************************)

\* "Update all LEDs based on the `colors` vector": UpdateLEDs does so for
\* every controller, at least when no other thread writes to the device.
UpdatesShown == ~early /\ ~direct => ~Stale
=============================================================================
