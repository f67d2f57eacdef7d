----------------------------- MODULE DeviceList -----------------------------
(***************************************************************************)
(* ResourceManager::UpdateDeviceList, iteration by iteration, and          *)
(* everything that writes the two lists beside it.                         *)
(*                                                                         *)
(* DeviceListChangeMutex is taken by UpdateDeviceList alone.  The others   *)
(* (registration, removal, Cleanup, the network clients) write the lists   *)
(* without it, at any moment; those that change the hardware list call     *)
(* UpdateDeviceList afterwards.  An operation on a vector (push_back,      *)
(* insert, find and erase) is one step.  Indices count from 1.             *)
(***************************************************************************)
EXTENDS SequencesExt

CONSTANTS
    Controllers,   \* controller objects of local devices
    Remote         \* controller objects of network clients

ASSUME ControllerAssumption ==
    /\ Controllers \cap Remote = {}
    /\ Controllers \cap {"rescan", "client"} = {}

VARIABLES
    hw,        \* rgb_controllers_hw
    list,      \* rgb_controllers
    at,        \* where the life of each local controller is
    rescan,    \* Cleanup was done, its UpdateDeviceList was not
    step,      \* where UpdateDeviceList is
    by,        \* for whom it runs: a controller, a rescan, or a client
    idx,       \* its loop index
    cur,       \* rgb_controllers_hw[idx] when the list was searched for it
    is_new,    \* it was not found
    to_remove, \* controllers that are no longer present
    added,     \* new controllers with their index, for deviceConnected
    removed,   \* lost controllers with their index, for deviceDisconnected
    old,       \* history: rgb_controllers when UpdateDeviceList took the lock
    raced,     \* history: who wrote a list during this rebuild
    harm       \* history: what writers did to a rebuild at a bad moment

locals  == <<by, idx, cur, is_new, to_remove, added, removed>>
history == <<old, raced, harm>>
vars    == <<hw, list, at, rescan, step, locals, history>>

Objects == Controllers \cup Remote
Places  == {"out", "registering", "in", "erasing", "leaving", "gone"}
Steps   == {"idle", "insert", "place", "collect", "erase", "notify", "broken"}
Slots   == [index : Nat \ {0}, controller : Objects]
Writers == {"register", "unregister", "cleanup", "add", "drop"}
Harms   == {"shrunk", "shifted"}

Init ==
    /\ hw = <<>> /\ list = <<>> /\ old = <<>>
    /\ at = [c \in Controllers |-> "out"] /\ rescan = FALSE
    /\ step = "idle" /\ by = "client" /\ idx = 1
    /\ cur = <<>> /\ is_new = FALSE
    /\ to_remove = <<>> /\ added = <<>> /\ removed = <<>>
    /\ raced = {} /\ harm = {}

-----------------------------------------------------------------------------
(***************************************************************************)
(* Faults: wrong variants of definitions below.                            *)
(***************************************************************************)

\* An index is recorded one too high.
EntryAfter(c) == [index |-> idx + 1, controller |-> c]

\* The slots of lost controllers are not recorded.
NotRecorded(c) == removed

\* The slots of lost controllers are recorded as the erasures will find them.
SlotAtErasure(c) == Append(removed, [index |-> idx - Len(removed), controller |-> c])

\* The pass over the list stops before its last element.
CollectsAllButLast == idx < Len(list)

\* A lost controller is erased at the beginning of the list.
ErasedFirst(c) == RemoveFirst(list, list[1])

-----------------------------------------------------------------------------
(***************************************************************************)
(* The unlocked writers.                                                   *)
(***************************************************************************)

\* History: a writer was here while a rebuild was in progress.
Race(writer) == raced' = IF step = "idle" THEN raced ELSE raced \cup {writer}

\* History: rgb_controllers_hw shrinks between the search for its controller
\* and the insertion, which reads it again; the list shrinks under the index
\* of the second loop.
ShrinksHw   == harm' = IF step = "place" THEN harm \cup {"shrunk"} ELSE harm
ShrinksList == harm' = IF step = "collect" THEN harm \cup {"shifted"} ELSE harm

\* RegisterRGBController: a new object joins the hardware list.
Register(c) ==
    /\ at[c] = "out"
    /\ hw' = Append(hw, c)
    /\ at' = [at EXCEPT ![c] = "registering"]
    /\ Race("register")
    /\ UNCHANGED <<list, rescan, step, locals, old, harm>>

\* UnregisterRGBController: the hardware list loses it,
Unregister(c) ==
    /\ at[c] = "in"
    /\ hw' = RemoveFirst(hw, c)
    /\ at' = [at EXCEPT ![c] = "erasing"]
    /\ Race("unregister") /\ ShrinksHw
    /\ UNCHANGED <<list, rescan, step, locals, old>>

\* and then the shown list.
UnregisterShown(c) ==
    /\ at[c] = "erasing"
    /\ list' = RemoveFirst(list, c)
    /\ at' = [at EXCEPT ![c] = "leaving"]
    /\ Race("unregister") /\ ShrinksList
    /\ UNCHANGED <<hw, rescan, step, locals, old>>

\* Cleanup at the start of a rescan.
Cleanup ==
    /\ ~rescan
    /\ hw' = <<>>
    /\ rescan' = TRUE
    /\ Race("cleanup") /\ ShrinksHw
    /\ UNCHANGED <<list, at, step, locals, old>>

\* NetworkClient, under its own mutex: all controllers received, or the
\* connection is over.
AddRemote(r) ==
    /\ r \notin ToSet(list) \cup ToSet(to_remove)
    /\ list' = Append(list, r)
    /\ Race("add")
    /\ UNCHANGED <<hw, at, rescan, step, locals, old, harm>>

DropRemote(r) ==
    /\ r \in ToSet(list)
    /\ list' = RemoveFirst(list, r)
    /\ Race("drop") /\ ShrinksList
    /\ UNCHANGED <<hw, at, rescan, step, locals, old>>

-----------------------------------------------------------------------------
(***************************************************************************)
(* UpdateDeviceList.                                                       *)
(***************************************************************************)

\* Who waits for the mutex: a thread that registered or removed a
\* controller, one that rescans, one that removed a network client.
Callers ==
    {c \in Controllers : at[c] \in {"registering", "leaving"}}
        \cup (IF rescan THEN {"rescan"} ELSE {}) \cup {"client"}

Lock ==
    /\ step = "idle"
    /\ by' \in Callers
    /\ step' = "insert"
    /\ idx' = 1
    /\ old' = list /\ raced' = {}
    /\ UNCHANGED <<hw, list, at, rescan, cur, is_new, to_remove, added, removed, harm>>

\* What is remembered of a controller that is added or lost.
Entry(c) == [index |-> idx, controller |-> c]

InPlace == idx <= Len(list) /\ list[idx] = hw[idx]

\* One hardware controller: it is in place, or the list is searched for it
\* and loses it where it was found.
Insert ==
    /\ step = "insert" /\ idx <= Len(hw)
    /\ IF InPlace
       THEN /\ idx' = idx + 1
            /\ UNCHANGED <<list, step, cur, is_new>>
       ELSE /\ list' = RemoveFirst(list, hw[idx])
            /\ cur' = hw[idx]
            /\ is_new' = (hw[idx] \notin ToSet(list))
            /\ step' = "place"
            /\ UNCHANGED idx
    /\ UNCHANGED <<hw, at, rescan, by, to_remove, added, removed, history>>

\* The controller that the insertion reads: the vector's storage keeps what
\* was in a slot that the vector has lost since.
Present == IF idx <= Len(hw) THEN hw[idx] ELSE cur

\* insert at the index; a new controller is remembered.  Behind the end of
\* the list the insertion is undefined, and nothing is said of what follows.
Place ==
    /\ step = "place"
    /\ IF idx <= Len(list) + 1
       THEN /\ list' = InsertAt(list, idx, Present)
            /\ added' = IF is_new THEN Append(added, Entry(Present)) ELSE added
            /\ idx' = idx + 1
            /\ step' = "insert"
            /\ cur' = <<>> /\ is_new' = FALSE
       ELSE /\ step' = "broken"
            /\ UNCHANGED <<list, added, idx, cur, is_new>>
    /\ UNCHANGED <<hw, at, rescan, by, to_remove, removed, history>>

InsertDone ==
    /\ step = "insert" /\ idx > Len(hw)
    /\ step' = "collect" /\ idx' = 1
    /\ UNCHANGED <<hw, list, at, rescan, by, cur, is_new, to_remove, added, removed, history>>

\* removed.push_back.
WithSlot(c) == Append(removed, Entry(c))

Collecting == idx <= Len(list)

\* Look at one controller of the list: is it still in the hardware list?
Collect ==
    /\ step = "collect" /\ Collecting
    /\ IF list[idx] \in ToSet(hw)
       THEN UNCHANGED <<to_remove, removed>>
       ELSE /\ to_remove' = Append(to_remove, list[idx])
            /\ removed' = WithSlot(list[idx])
    /\ idx' = idx + 1
    /\ UNCHANGED <<hw, list, at, rescan, step, by, cur, is_new, added, history>>

CollectDone ==
    /\ step = "collect" /\ ~Collecting
    /\ step' = "erase"
    /\ UNCHANGED <<hw, list, at, rescan, locals, history>>

\* rgb_controllers.erase.
Erased(c) == RemoveFirst(list, c)

\* Erase one of the controllers that are no longer present.
Erase ==
    /\ step = "erase" /\ to_remove # <<>>
    /\ list' = Erased(Head(to_remove))
    /\ to_remove' = Tail(to_remove)
    /\ UNCHANGED <<hw, at, rescan, step, by, idx, cur, is_new, added, removed, history>>

EraseDone ==
    /\ step = "erase" /\ to_remove = <<>>
    /\ step' = "notify"
    /\ UNCHANGED <<hw, list, at, rescan, locals, history>>

\* Callbacks, server and WebSocket notifications, unlock, return to the caller.
Notify ==
    /\ step = "notify"
    /\ step' = "idle"
    /\ at' = [c \in Controllers |->
                 IF c # by THEN at[c] ELSE IF at[c] = "leaving" THEN "gone" ELSE "in"]
    /\ rescan' = (rescan /\ by # "rescan")
    /\ by' = "client" /\ idx' = 1
    /\ added' = <<>> /\ removed' = <<>> /\ old' = <<>>
    /\ UNCHANGED <<hw, list, cur, is_new, to_remove, raced, harm>>

UpdateDeviceList ==
    \/ Lock \/ Insert \/ Place \/ InsertDone \/ Collect \/ CollectDone
    \/ Erase \/ EraseDone \/ Notify

Write ==
    \/ \E c \in Controllers : Register(c) \/ Unregister(c) \/ UnregisterShown(c)
    \/ Cleanup
    \/ \E r \in Remote : AddRemote(r) \/ DropRemote(r)

Next == step # "broken" /\ (Write \/ UpdateDeviceList)

Spec == Init /\ [][Next]_vars

-----------------------------------------------------------------------------
(***************************************************************************)
(* Properties.                                                             *)
(***************************************************************************)

\* Every variable has its type.
TypeOK ==
    /\ hw \in Seq(Controllers) /\ list \in Seq(Objects)
    /\ at \in [Controllers -> Places] /\ rescan \in BOOLEAN
    /\ step \in Steps /\ idx \in Nat \ {0} /\ is_new \in BOOLEAN
    /\ by \in Controllers \cup {"rescan", "client"}
    /\ cur \in Controllers \cup {<<>>}
    /\ to_remove \in Seq(Objects)
    /\ added \in Seq(Slots) /\ removed \in Seq(Slots)
    /\ old \in Seq(Objects) /\ raced \in SUBSET Writers /\ harm \in SUBSET Harms

\* For those who hold DeviceListChangeMutex, UpdateDeviceList is one step
\* after which the list is the hardware list, unless someone wrote a list
\* meanwhile.
Promise == INSTANCE ControllerList
               WITH shown     <- IF step = "idle" THEN list ELSE old,
                    busy      <- step # "idle",
                    disturbed <- step # "idle" /\ raced # {}
ShowsHardware == Promise!Spec

Calm == raced = {} /\ IsInjective(old)

\* Whoever looks at the list in the middle of a rebuild (the network server
\* does, it takes no lock) finds no controller twice, whatever the unlocked
\* writers do, unless the hardware list ever shrank between the search for a
\* controller and its insertion.  In a rebuild that nobody disturbs it finds
\* every controller that stays, but for the one being moved, and once the first loop is
\* over every new one; and the insertion never misses the list.
SoundMidRebuild ==
    /\ TypeOK
    /\ "shrunk" \notin harm => IsInjective(list)
    /\ Calm =>
        /\ step # "broken"
        /\ step # "idle" =>
               ToSet(old) \cap ToSet(hw) \subseteq
                   ToSet(list) \cup (IF step = "place" THEN {cur} ELSE {})
        /\ step \notin {"idle", "insert", "place"} => ToSet(hw) \subseteq ToSet(list)

\* deviceConnected and deviceDisconnected account for the whole change that
\* an undisturbed UpdateDeviceList makes, each controller once, and
\* deviceConnected names the index at which the finished list has the new
\* controller ("remember its final index").
DeltasComplete ==
    step = "notify" /\ Calm =>
        /\ ToSet(list) \ ToSet(old) = {e.controller : e \in ToSet(added)}
        /\ ToSet(old) \ ToSet(list) = {e.controller : e \in ToSet(removed)}
        /\ Len(list) = Len(old) + Len(added) - Len(removed)
        /\ \A e \in ToSet(added) : e.index \in DOMAIN list /\ list[e.index] = e.controller

\* Nobody is on the way to UpdateDeviceList.
Settled ==
    /\ step = "idle" /\ ~rescan
    /\ \A c \in Controllers : at[c] \in {"out", "in", "gone"}

\* Whatever raced: once every writer has had its own UpdateDeviceList, the
\* shown list is the hardware list and, behind it, controllers of network
\* clients.  Two things only can spoil it: a hardware list that shrank before an
\* insertion, for good, and a network client that lost controllers during the
\* last rebuild.
RacesHeal ==
    Settled /\ "shrunk" \notin harm /\ "drop" \notin raced =>
        /\ IsPrefix(hw, list)
        /\ \A i \in DOMAIN list : i > Len(hw) => list[i] \in Remote

\* A controller whose UnregisterRGBController has returned, which its owner
\* deletes now, is in neither list, whatever raced: an insertion that was under
\* way may bring it back, but its own UpdateDeviceList removes it, unless the
\* list shrinks under the second loop as well.
GoneIsGone ==
    \A c \in Controllers : at[c] = "gone" =>
        /\ c \notin ToSet(hw)
        /\ harm # Harms => c \notin ToSet(list)

\* What a client that caches the list has when it was told of the new
\* controllers.
Cached == FoldLeft(LAMBDA s, e : InsertAt(s, e.index, e.controller), old, added)

StayersFirst ==
    \A i, j \in DOMAIN old : i < j /\ old[j] \in ToSet(hw) =>
        \E k, l \in DOMAIN hw : k < l /\ old[i] = hw[k] /\ old[j] = hw[l]

\* An undisturbed rebuild names each lost controller by its slot in what
\* clients have cached, if the controllers that stay were in front of it, in
\* the order of the hardware list.
LostSlots ==
    step = "notify" /\ Calm /\ StayersFirst =>
        \A e \in ToSet(removed) : e.index \in DOMAIN Cached /\ Cached[e.index] = e.controller

\* "the deviceDisconnected event reports the slot the client currently has
\* cached" (ResourceManager.cpp:938-940), in a rebuild that nobody disturbs.
ReportsCachedSlot ==
    step = "notify" /\ Calm =>
        \A e \in ToSet(removed) : e.index \in DOMAIN Cached /\ Cached[e.index] = e.controller
=============================================================================
