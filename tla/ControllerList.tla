--------------------------- MODULE ControllerList ---------------------------
(***************************************************************************)
(* What a thread that takes DeviceListChangeMutex may rely on: it sees     *)
(* rgb_controllers before or after an UpdateDeviceList, never in between,  *)
(* and UpdateDeviceList makes the list equal to rgb_controllers_hw, unless *)
(* someone writes a list meanwhile: nobody but UpdateDeviceList takes the  *)
(* mutex to write, so that the lists also change by themselves.  Module    *)
(* Detection uses UpdateDeviceList as this one step.                       *)
(***************************************************************************)
EXTENDS SequencesExt

CONSTANTS Controllers, Remote

VARIABLES hw,        \* rgb_controllers_hw
          shown,     \* rgb_controllers, as seen under the mutex
          busy,      \* an UpdateDeviceList has the mutex
          disturbed  \* somebody wrote a list since it took it

vars == <<hw, shown, busy, disturbed>>

Init == hw = <<>> /\ shown = <<>> /\ ~busy /\ ~disturbed

\* A writer without the mutex: it disturbs the UpdateDeviceList that is running.
Unlocked == disturbed' = busy /\ UNCHANGED busy

\* What happens to the list during an UpdateDeviceList is seen at its end.
ShownBecomes(s) == shown' = IF busy THEN shown ELSE s

\* A controller is registered, one is removed from the hardware list, or a
\* rescan forgets the hardware list.
WriteHw ==
    /\ Unlocked
    /\ \/ \E c \in Controllers : hw' = Append(hw, c) \/ hw' = RemoveFirst(hw, c)
       \/ hw' = <<>>
    /\ UNCHANGED shown

\* A removed controller leaves the shown list, and the controllers of a network
\* client come and go.
WriteShown ==
    /\ Unlocked
    /\ \/ \E c \in Controllers \cup Remote : ShownBecomes(RemoveFirst(shown, c))
       \/ \E r \in Remote : ShownBecomes(Append(shown, r))
    /\ UNCHANGED hw

\* UpdateDeviceList takes the mutex,
Begin ==
    /\ ~busy /\ busy' /\ ~disturbed'
    /\ UNCHANGED <<hw, shown>>

\* and releases it.
End ==
    /\ busy /\ ~busy' /\ ~disturbed'
    /\ IF ~disturbed /\ IsInjective(shown)
       THEN shown' = hw
       ELSE shown' \in Seq(Controllers \cup Remote)
    /\ UNCHANGED hw

Next == WriteHw \/ WriteShown \/ Begin \/ End

Spec == Init /\ [][Next]_vars
=============================================================================
