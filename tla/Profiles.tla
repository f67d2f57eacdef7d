------------------------------- MODULE Profiles -------------------------------
(***************************************************************************)
(* Zone sizes and colors of the hardware controllers: where they come from *)
(* when a detection registers a controller, the file of sizes that is      *)
(* written whenever a zone is resized, and profiles.                       *)
(*                                                                         *)
(* A controller has one zone, of a size, and one color for all its LEDs.   *)
(* A saved list is a sequence of entries; a controller takes the first     *)
(* entry of its identity that no other controller took.  Devices of one    *)
(* model without a serial number have the same identity.  The file of      *)
(* sizes is read when the program starts and not again.                    *)
(***************************************************************************)
EXTENDS Naturals, FiniteSets, SequencesExt

CONSTANTS
    NumDevices,  \* devices, numbered in the order of their detectors
    Identity,    \* what type, name, serial number and location say of each
    Sizes,       \* sizes of a zone
    DefaultSize, \* the one a driver begins with
    Colors, Black,
    MaxResizes, MaxRestarts \* bounds on the user's calls

Devices == 1..NumDevices

ASSUME ProfilesAssumption ==
    /\ NumDevices \in Nat \ {0} /\ DOMAIN Identity = Devices
    /\ DefaultSize \in Sizes /\ Black \notin Colors
    /\ MaxResizes \in Nat /\ MaxRestarts \in Nat

VARIABLES
    present,      \* devices that are plugged in
    controllers,  \* the registered controllers
    pending,      \* those of the previous detection, while the next one runs
    matched,      \* indices of pending that gave their state to a new one
    todo,         \* devices that the running detection has yet to find
    detecting,
    used,         \* detection_size_entry_used, as a set of indices
    sizesFile,    \* sizes.ors
    sizes,        \* rgb_controllers_sizes
    saving, copy, \* SaveProfile("sizes"): where it is, and the list it writes
    profile,      \* a profile file
    resizes, restarts,
    \* history: the sizes by device in the file and in rgb_controllers_sizes if
    \* they were saved at rest, the same of the profile, the devices of the
    \* last detection, and those resized since it found them
    saved, loaded, profiled, scanned, touched

devices == <<present, controllers, pending, matched, todo, detecting, used, scanned>>
files   == <<sizesFile, sizes, saving, copy, saved, loaded>>
vars == <<devices, files, profile, profiled, resizes, restarts, touched>>

Controller(d, s, c) == [dev |-> d, size |-> s, color |-> c]
Nothing == [d \in {} |-> 0]
Listed == {controllers[i].dev : i \in DOMAIN controllers}

\* What a detection at rest leaves behind, by device.
BySize == [d \in Listed |-> (CHOOSE c \in ToSet(controllers) : c.dev = d).size]
ByColor == [d \in Listed |-> CHOOSE c \in ToSet(controllers) : c.dev = d]

Init ==
    /\ present \in SUBSET Devices
    /\ controllers = <<>> /\ pending = <<>> /\ matched = {}
    /\ todo = {} /\ detecting = FALSE /\ used = {} /\ scanned = {}
    /\ sizesFile = <<>> /\ sizes = <<>> /\ saving = "no" /\ copy = <<>>
    /\ saved = Nothing /\ loaded = Nothing
    /\ profile = <<>> /\ profiled = Nothing
    /\ resizes = 0 /\ restarts = 0 /\ touched = {}

-----------------------------------------------------------------------------
(***************************************************************************)
(* Matching saved controllers with registered ones.                        *)
(***************************************************************************)

\* Fault: an entry may be taken again.
AllMatches(list, taken, d) == {i \in DOMAIN list : Identity[list[i].dev] = Identity[d]}

Matches(list, taken, d) ==
    {i \in DOMAIN list \ taken : Identity[list[i].dev] = Identity[d]}

\* A driver that resizes a zone clears its colors.
ResizeZone(c, n) == [c EXCEPT !.size = n, !.color = Black]

\* Fault: the zone is set up again whether or not its size differs.
SizeAlways(c, entry) == ResizeZone(c, entry.size)

LoadSize(c, entry) == IF c.size # entry.size THEN ResizeZone(c, entry.size) ELSE c

\* Colors are taken over if there are as many of them.
LoadSettings(c, entry) == IF c.size = entry.size THEN [c EXCEPT !.color = entry.color] ELSE c

\* The first of the entries that match, if any does.
First(M) == IF M = {} THEN {} ELSE {Min(M)}

\* The entries that the first n of cs took, in their order.
Taken(cs, list) ==
    LET taken[n \in 0..Len(cs)] ==
            IF n = 0 THEN {}
            ELSE taken[n - 1] \cup First(Matches(list, taken[n - 1], cs[n].dev))
    IN  taken

\* Each of cs takes its entry of the list.
LoadList(Load(_, _), cs, list) ==
    LET taken == Taken(cs, list)
    IN  [i \in DOMAIN cs |->
            LET M == Matches(list, taken[i - 1], cs[i].dev)
            IN  IF M = {} THEN cs[i] ELSE Load(cs[i], list[Min(M)])]

-----------------------------------------------------------------------------
(***************************************************************************)
(* Detection.                                                              *)
(***************************************************************************)

Plug(d) ==
    /\ ~detecting
    /\ present' = IF d \in present THEN present \ {d} ELSE present \cup {d}
    /\ UNCHANGED <<controllers, pending, matched, todo, detecting, used, scanned,
                   files, profile, profiled, resizes, restarts, touched>>

\* Fault: the flags of the last detection stay.
KeepUsed == used' = used

ResetUsed == used' = {}

DetectDevices ==
    /\ ~detecting /\ detecting' = TRUE
    /\ pending' = controllers /\ controllers' = <<>> /\ matched' = {}
    /\ todo' = present /\ scanned' = present
    /\ ResetUsed /\ touched' = {}
    /\ UNCHANGED <<present, files, profile, profiled, resizes, restarts>>

\* The state of an old controller, then the saved size, then the list shows it.
RegisterRGBController ==
    /\ detecting /\ todo # {}
    /\ LET new == Controller(Min(todo), DefaultSize, Black)
           Old == Matches(pending, matched, new.dev)
           M   == Matches(sizes, used, new.dev)
           c   == IF Old = {} THEN new ELSE LoadSettings(new, pending[Min(Old)])
       IN  /\ matched' = matched \cup First(Old)
           /\ used' = used \cup First(M)
           /\ controllers' = Append(controllers,
                                    IF M = {} THEN c ELSE LoadSize(c, sizes[Min(M)]))
    /\ todo' = todo \ {Min(todo)}
    /\ UNCHANGED <<present, pending, detecting, scanned, files, profile, profiled,
                   resizes, restarts, touched>>

ForgetMatched == matched' = {}

\* All devices were found, or StopDeviceDetection came first.
ProcessPostDetection ==
    /\ detecting /\ detecting' = FALSE
    /\ pending' = <<>> /\ ForgetMatched /\ todo' = {}
    /\ UNCHANGED <<present, controllers, used, scanned, files, profile, profiled,
                   resizes, restarts, touched>>

-----------------------------------------------------------------------------
(***************************************************************************)
(* Requests of the user.                                                   *)
(***************************************************************************)

Resize(i, n) ==
    /\ resizes < MaxResizes /\ resizes' = resizes + 1
    /\ controllers' = [controllers EXCEPT ![i] = ResizeZone(@, n)]
    /\ touched' = touched \cup {controllers[i].dev}
    /\ UNCHANGED <<present, pending, matched, todo, detecting, used, scanned,
                   sizesFile, sizes, copy, saved, loaded, profile, profiled, restarts>>

\* SDK, command line and windows save the sizes after it, JSON-RPC does not.
ResizeAndSave(i, n) == Resize(i, n) /\ saving = "no" /\ saving' = "asked"
ResizeOnly(i, n)    == Resize(i, n) /\ UNCHANGED saving

\* The file is truncated when it is opened.  The colors in it are never used.
OpenSizes ==
    /\ saving = "asked" /\ saving' = "open"
    /\ copy' = [i \in DOMAIN controllers |-> [controllers[i] EXCEPT !.color = Black]]
    /\ sizesFile' = <<>>
    /\ saved' = IF detecting THEN Nothing ELSE BySize
    /\ UNCHANGED <<sizes, loaded, devices, profile, profiled, resizes, restarts, touched>>

\* Fault: the list is written from its end.
WriteReversed == sizesFile' = Reverse(copy)

WriteControllers == sizesFile' = copy

WriteSizes ==
    /\ saving = "open" /\ saving' = "no"
    /\ WriteControllers /\ copy' = <<>>
    /\ UNCHANGED <<sizes, saved, loaded, devices, profile, profiled, resizes, restarts,
                   touched>>

SetColor(i, c) ==
    /\ controllers' = [controllers EXCEPT ![i].color = c]
    /\ UNCHANGED <<present, pending, matched, todo, detecting, used, scanned, files,
                   profile, profiled, resizes, restarts, touched>>

\* At most one profile that is not empty: a bound.
SaveProfile ==
    /\ profile = <<>> /\ profile' = controllers
    /\ profiled' = IF detecting THEN Nothing ELSE ByColor
    /\ UNCHANGED <<devices, files, resizes, restarts, touched>>

\* SDK, command line and windows load the settings.
LoadProfile ==
    /\ controllers' = LoadList(LoadSettings, controllers, profile)
    /\ UNCHANGED <<present, pending, matched, todo, detecting, used, scanned, files,
                   profile, profiled, resizes, restarts, touched>>

\* JSON-RPC loads the settings and after them the sizes.
LoadProfileAndSize ==
    /\ controllers' = LoadList(LoadSize, LoadList(LoadSettings, controllers, profile), profile)
    /\ touched' = touched \cup Listed
    /\ UNCHANGED <<present, pending, matched, todo, detecting, used, scanned, files,
                   profile, profiled, resizes, restarts>>

\* The process ends, maybe while the sizes are written, and starts again.
Restart ==
    /\ restarts < MaxRestarts /\ restarts' = restarts + 1
    /\ controllers' = <<>> /\ pending' = <<>> /\ matched' = {} /\ todo' = {}
    /\ detecting' = FALSE /\ used' = {} /\ scanned' = {} /\ touched' = {}
    /\ sizes' = sizesFile /\ saving' = "no" /\ copy' = <<>>
    /\ saved' = (IF saving = "open" THEN Nothing ELSE saved) /\ loaded' = saved'
    /\ UNCHANGED <<present, sizesFile, profile, profiled, resizes>>

Next ==
    \/ \E d \in Devices : Plug(d)
    \/ DetectDevices \/ RegisterRGBController \/ ProcessPostDetection
    \/ \E i \in DOMAIN controllers, n \in Sizes : ResizeAndSave(i, n) \/ ResizeOnly(i, n)
    \/ OpenSizes \/ WriteSizes
    \/ \E i \in DOMAIN controllers, c \in Colors : SetColor(i, c)
    \/ SaveProfile \/ LoadProfile \/ LoadProfileAndSize \/ Restart

Spec == Init /\ [][Next]_vars

-----------------------------------------------------------------------------
ControllerLists == Seq([dev : Devices, size : Sizes, color : Colors \cup {Black}])

TypeOK ==
    /\ present \subseteq Devices /\ scanned \subseteq Devices /\ touched \subseteq Devices
    /\ controllers \in ControllerLists /\ pending \in ControllerLists
    /\ sizesFile \in ControllerLists /\ sizes \in ControllerLists
    /\ copy \in ControllerLists /\ profile \in ControllerLists
    /\ matched \subseteq DOMAIN pending /\ used \subseteq DOMAIN sizes
    /\ todo \subseteq Devices /\ detecting \in BOOLEAN
    /\ saving \in {"no", "asked", "open"}
    /\ resizes \in 0..MaxResizes /\ restarts \in 0..MaxRestarts

(***************************************************************************)
(* Sizes that were saved at rest come back after a restart, in every       *)
(* detection that finds the same devices, also when two of them cannot be  *)
(* told apart.                                                             *)
(***************************************************************************)
SizesComeBack ==
    DOMAIN loaded = scanned =>
        \A i \in DOMAIN controllers :
            controllers[i].dev \notin touched => controllers[i].size = loaded[controllers[i].dev]

(***************************************************************************)
(* A profile that was saved at rest, loaded on the same devices, gives     *)
(* each its color back unless its size has changed, and by JSON-RPC its    *)
(* size in any case.                                                       *)
(***************************************************************************)
ProfileComesBack ==
    [][DOMAIN profiled = Listed =>
         \A i \in DOMAIN controllers :
            LET c == controllers[i]
                e == profiled[c.dev]
            IN  /\ LoadProfile \/ LoadProfileAndSize =>
                     (c.size = e.size => controllers'[i].color = e.color)
                /\ LoadProfileAndSize => controllers'[i].size = e.size]_vars

(***************************************************************************)
(* "Device settings (modes, colors, zones) are now preserved when devices  *)
(* are disconnected and reconnected" (README.md:21): what a detection      *)
(* registers is as the previous one left it.                               *)
(***************************************************************************)
SettingsKept ==
    [][RegisterRGBController =>
         \A i \in DOMAIN pending \ matched :
            pending[i].dev = Min(todo) => Last(controllers') = pending[i]]_vars

=============================================================================
