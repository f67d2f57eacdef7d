-------------------------------- MODULE Zones --------------------------------
(***************************************************************************)
(* The colors of one controller and the JSON-RPC requests that write them. *)
(*                                                                         *)
(* All zones share one vector of colors; SetupColors gives each zone the   *)
(* place where its part begins.  A zone for effects only has one color     *)
(* however many LEDs it counts.  A request that sends another number of    *)
(* colors than a zone has resizes the zone: through the driver, or, with   *)
(* "Force", behind the driver's back.  Drivers differ in what they make of *)
(* a resize: a controller has one of three kinds.  Requests hold the lock  *)
(* of the controller list throughout, so each is one step.  What lies      *)
(* behind the vector is read as Junk; what is written there is lost.  A    *)
(* zone without a part has no colors (NULL): touching one of them ends the *)
(* process.                                                                *)
(***************************************************************************)
EXTENDS Naturals, FiniteSets, SequencesExt

CONSTANTS
    leds_min, leds_max, \* sequences: the sizes the driver allows for each zone
    Drivers,      \* kinds of drivers that the controller may have:
                  \* "setup": resizes within the limits and sets its zones up again
                  \* "count": changes leds_count, to anything, and nothing else
                  \* "fixed": gives Addressable one LED, whatever is asked
    EffectsOnly,  \* zones to which "setup" gives ZONE_FLAG_RESIZE_EFFECTS_ONLY
    Addressable,  \* 0: there is none (drivers whose ResizeZone is empty)
    LastResizable, \* "setup" reads the device when this zone is first resized (0: never)
    Reported,     \* and finds these colors
    Colors,
    Black, Junk,
    MaxSent       \* bound on the number of colors sent for a zone

ASSUME ZonesAssumption ==
    /\ leds_min \in Seq(Nat) /\ leds_max \in Seq(Nat) /\ Len(leds_min) = Len(leds_max) /\ leds_min # <<>>
    /\ \A z \in DOMAIN leds_min : leds_min[z] <= leds_max[z]
    /\ EffectsOnly \subseteq DOMAIN leds_min
    /\ Black \notin Colors /\ Junk \notin Colors /\ Junk # Black
    /\ MaxSent \in Nat \ {0}
    /\ Drivers \subseteq {"setup", "count", "fixed"} /\ Drivers # {}
    /\ {Addressable, LastResizable} \subseteq {0} \cup DOMAIN leds_min
    /\ Addressable # 0 => leds_min[Addressable] = 1
    /\ Reported \in [DOMAIN leds_min -> Colors \cup {Black}]

Zones == DOMAIN leds_min

VARIABLES
    dev,     \* the controller
    spilled, \* zones whose writes or reads left their part of the vector
    request, \* what the last request asked for
    reply    \* and its result

vars == <<dev, spilled, request, reply>>

Sent == BoundedSeq(Colors, MaxSent)
NoColors == [z \in Zones |-> <<>>]
Request(op, colors) == [op |-> op, colors |-> colors]

-----------------------------------------------------------------------------
(***************************************************************************)
(* The controller: its driver, count, effects and leds, the colors, and    *)
(* where each zone's part of them starts and how long it was made; last is *)
(* the zone whose resize makes the driver read the device.                 *)
(***************************************************************************)

GetLEDsInZone(d, z) == IF z \in d.effects /\ d.count[z] > 1 THEN 1 ELSE d.count[z]

Parts(d) == [z \in Zones |-> GetLEDsInZone(d, z)]

\* The sum of the first n parts, for every n.
Sums(part) ==
    LET sum[n \in 0..Len(leds_min)] == IF n = 0 THEN 0 ELSE sum[n - 1] + part[n]
    IN  sum

SlotsBelow(part, z) == Sums(part)[z - 1]
TotalLEDs(part) == Sums(part)[Len(leds_min)]

ResizeColors(s, n) == [k \in 1..n |-> IF k <= Len(s) THEN s[k] ELSE Black]

SetupColors(d) ==
    [d EXCEPT !.colors = ResizeColors(@, TotalLEDs(Parts(d))),
              !.start = [z \in Zones |-> SlotsBelow(Parts(d), z)],
              !.part = Parts(d)]

\* Fault: a write begins one place too late.
WriteLate(d, z, cs) ==
    [d EXCEPT !.colors = [i \in DOMAIN @ |->
        IF i - d.start[z] - 1 \in DOMAIN cs THEN cs[i - d.start[z] - 1] ELSE @[i]]]

\* The part of the vector that a loop over leds_count, or over the colors of a
\* request, walks through, whatever the zone owns of it.
ReadZone(d, z) ==
    [k \in 1..d.count[z] |->
        LET i == d.start[z] + k IN IF i <= Len(d.colors) THEN d.colors[i] ELSE Junk]

WriteZone(d, z, cs) ==
    [d EXCEPT !.colors = [i \in DOMAIN @ |->
        IF i - d.start[z] \in DOMAIN cs THEN cs[i - d.start[z]] ELSE @[i]]]

WriteZones(d, cs) ==
    LET written[n \in 0..Len(leds_min)] ==
            IF n = 0 THEN d ELSE WriteZone(written[n - 1], n, cs[n])
    IN  written[Len(leds_min)]

\* The zones whose part is left by a loop over cs, and whether one has no part.
Spills(d, cs) == {z \in Zones : Len(cs[z]) > d.part[z]}
Ends(d, cs) == \E z \in Zones : cs[z] # <<>> /\ d.part[z] = 0

\* One color, for each of the LEDs that a zone owns by its flags and leds_count.
Fill(d, z, c) == [k \in 1..GetLEDsInZone(d, z) |-> c]

-----------------------------------------------------------------------------
(***************************************************************************)
(* What drivers make of ResizeZone.                                        *)
(***************************************************************************)

InRange(z, n) == leds_min[z] <= n /\ n <= leds_max[z]

\* One LED is pushed for a zone for effects that has any.
SetupZones(d) ==
    LET pushed == [z \in Zones |-> IF z \in d.effects /\ d.count[z] > 0 THEN 1 ELSE d.count[z]]
    IN  SetupColors([d EXCEPT !.leds = TotalLEDs(pushed), !.colors = <<>>])

GetDeviceConfig(d) ==
    [WriteZones(d, [z \in Zones |-> Fill(d, z, Reported[z])]) EXCEPT !.last = 0]

SetupResize(d, z, n) ==
    LET e == SetupZones([d EXCEPT !.count[z] = n]) IN
    IF ~InRange(z, n) THEN d ELSE
    IF z = d.last THEN GetDeviceConfig(e) ELSE e

CountResize(d, z, n) == [d EXCEPT !.count[z] = n % 256]

\* Fault: the driver that has one LED anyway sets up its zones again.
FixedSetup(d) == SetupZones([d EXCEPT !.count = [y \in Zones |-> IF y = Addressable THEN 1 ELSE @[y]]])

FixedResize(d) == [d EXCEPT !.count = [y \in Zones |-> IF y = Addressable THEN 1 ELSE @[y]]]

ResizeZone(d, z, n) ==
    IF d.driver = "setup" THEN SetupResize(d, z, n) ELSE
    IF d.driver = "count" THEN CountResize(d, z, n) ELSE FixedResize(d)

Unset(k, c) ==
    [driver |-> k, count |-> c, effects |-> IF k = "setup" THEN EffectsOnly ELSE {},
     leds |-> 0, colors |-> <<>>, start |-> [z \in Zones |-> 0], part |-> [z \in Zones |-> 0],
     last |-> LastResizable]

\* The sizes a driver sets up first, which most find as the colors, by asking the
\* device.
Sizes(k) == {c \in [Zones -> UNION {leds_min[z]..leds_max[z] : z \in Zones}] :
               \A z \in Zones : InRange(z, c[z]) /\ (k = "fixed" /\ z = Addressable => c[z] = 1)}

Init ==
    /\ spilled = {} /\ request = Request("none", NoColors) /\ reply = "none"
    /\ \E k \in Drivers :
          \/ k = "setup" /\ dev = SetupZones(Unset(k, leds_min))
          \/ /\ k # "setup"
             /\ \E c \in Sizes(k) : \E s \in [1..TotalLEDs(c) -> Colors \cup {Black}] :
                   dev = [SetupZones(Unset(k, c)) EXCEPT !.colors = s]

-----------------------------------------------------------------------------
(***************************************************************************)
(* Faults: wrong variants of definitions below.                            *)
(***************************************************************************)

\* leds is resized before the new sizes are known.
SetupEarly(d, cs) ==
    SetupColors([d EXCEPT
        !.leds = TotalLEDs(Parts(d)),
        !.count = [z \in Zones |-> IF cs[z] # <<>> THEN Len(cs[z]) ELSE @[z]],
        !.effects = @ \ {z \in Zones : cs[z] # <<>>}])

\* The colors of all zones are written back, or of none.
RestoreAll(d, cs) == [z \in Zones |-> ReadZone(d, z)]
RestoreNone(d, cs) == NoColors

\* Each zone is checked when its turn comes to be resized.
CheckWhileResizing(cs) ==
    LET d == FoldLeft(LAMBDA e, z : ResizeZone(e, z, Len(cs[z])), dev, [z \in Zones |-> z])
        r == Request("zones", cs)
    IN
    /\ \A z \in Zones : cs[z] # <<>>
    /\ \/ /\ \E z \in Zones : d.count[z] # Len(cs[z])
          /\ dev' = d /\ reply' = "error" /\ request' = r /\ UNCHANGED spilled
       \/ /\ \A z \in Zones : d.count[z] = Len(cs[z])
          /\ dev' = WriteZones(d, cs) /\ reply' = "success" /\ request' = r
          /\ UNCHANGED spilled

\* Nobody asks whether the driver did what it was told.
TrustDriver(d, cs) == TRUE

-----------------------------------------------------------------------------
(***************************************************************************)
(* Requests.                                                               *)
(***************************************************************************)

Answer(result, r) == reply' = result /\ request' = r
Reject(r) == Answer("error", r) /\ UNCHANGED <<dev, spilled>>

\* The colors written, after which the request succeeds, unless it never returns.
Show(d, cs, r) ==
    /\ dev' = WriteZones(d, cs) /\ spilled' = spilled \cup Spills(d, cs)
    /\ Answer(IF Ends(d, cs) THEN "crash" ELSE "success", r)

\* The sizes that are sent, written into the zones, and the vectors after them.
ForceSizes(d, cs) ==
    LET e == [d EXCEPT
              !.count = [z \in Zones |-> IF cs[z] # <<>> THEN Len(cs[z]) ELSE @[z]],
              !.effects = @ \ {z \in Zones : cs[z] # <<>>}]
    IN  SetupColors([e EXCEPT !.leds = TotalLEDs(Parts(e))])

Fits(d, cs) == \A z \in Zones : Len(cs[z]) = d.count[z] \/ InRange(z, Len(cs[z]))

\* The zones named have the sizes that are sent for them.
Obeyed(d, cs) == \A z \in Zones : cs[z] # <<>> => d.count[z] = Len(cs[z])

\* The turn of zone z, which is not reached after a zone that was not resized
\* (a driver changes no size but the one asked for, except when it fails).
Resized(e, z, cs) ==
    IF (\E y \in 1..(z - 1) : e.count[y] # Len(cs[y])) \/ e.count[z] = Len(cs[z])
    THEN e ELSE ResizeZone(e, z, Len(cs[z]))

ResizeZones(d, cs) ==
    LET resized[n \in 0..Len(leds_min)] ==
            IF n = 0 THEN d ELSE Resized(resized[n - 1], n, cs)
    IN  resized[Len(leds_min)]

SetLEDColor(l, c) ==
    LET r == Request("led", NoColors) IN
    IF l >= dev.leds THEN Reject(r) ELSE
    /\ Answer("success", r) /\ UNCHANGED spilled
    /\ dev' = [dev EXCEPT !.colors = [i \in DOMAIN @ |-> IF i = l + 1 THEN c ELSE @[i]]]

\* The items for LEDs that the controller does not have are skipped.
SetMultipleColors(items) ==
    /\ Answer("success", Request("leds", NoColors)) /\ UNCHANGED spilled
    /\ dev' = [dev EXCEPT !.colors = [i \in DOMAIN @ |->
                  IF i - 1 \in DOMAIN items /\ i <= dev.leds THEN items[i - 1] ELSE @[i]]]

SetZoneColor(z, c) ==
    LET cs == [NoColors EXCEPT ![z] = Fill(dev, z, c)] IN Show(dev, cs, Request("fill", cs))

SetAllColors(c) ==
    LET all == [z \in Zones |-> Fill(dev, z, c)] IN Show(dev, all, Request("fill", all))

\* The reply is "error" also when the driver was asked and did not resize.
SetZoneMultipleLed(z, s, force) ==
    LET cs == [NoColors EXCEPT ![z] = s]
        r  == Request("zone", cs)
        d  == ResizeZone(dev, z, Len(s))
    IN
    /\ s # <<>>
    /\ \/ Len(s) = dev.count[z] /\ Show(dev, cs, r)
       \/ Len(s) # dev.count[z] /\ force /\ Show(ForceSizes(dev, cs), cs, r)
       \/ Len(s) # dev.count[z] /\ ~force /\ ~InRange(z, Len(s)) /\ Reject(r)
       \/ /\ Len(s) # dev.count[z] /\ ~force /\ InRange(z, Len(s))
          /\ \/ Obeyed(d, cs) /\ Show(d, cs, r)
             \/ ~Obeyed(d, cs) /\ dev' = d /\ Answer("error", r) /\ UNCHANGED spilled

SetMultipleZoneMultipleLed(cs) ==
    LET r == Request("zones", cs)
        d == ResizeZones(dev, cs)
    IN
    /\ \A z \in Zones : cs[z] # <<>>
    /\ \/ ~Fits(dev, cs) /\ Reject(r)
       \/ Fits(dev, cs) /\ Obeyed(d, cs) /\ Show(d, cs, r)
       \/ Fits(dev, cs) /\ ~Obeyed(d, cs) /\ dev' = d /\ Answer("error", r) /\ UNCHANGED spilled

\* What is saved of all zones, and written back for those that got no colors.
Saved(d) == [z \in Zones |-> ReadZone(d, z)]
Restored(d, cs) == [z \in Zones |-> IF cs[z] = <<>> THEN ReadZone(d, z) ELSE <<>>]

ForceMultipleZoneMultipleLed(cs) ==
    LET d    == ForceSizes(dev, cs)
        back == Restored(dev, cs)
    IN
    /\ dev' = WriteZones(WriteZones(d, back), cs)
    /\ spilled' = spilled \cup Spills(dev, Saved(dev)) \cup Spills(d, back) \cup Spills(d, cs)
    /\ Answer(IF Ends(dev, Saved(dev)) \/ Ends(d, back) THEN "crash" ELSE "success",
              Request("force", cs))

\* The reply says "success" whatever the driver does.
Resize(z, n) ==
    LET r == Request("resize", NoColors) IN
    IF leds_min[z] = leds_max[z] THEN Reject(r) ELSE
    /\ dev' = ResizeZone(dev, z, n) /\ Answer("success", r) /\ UNCHANGED spilled

Next ==
    /\ reply # "crash"
    /\ \/ \E l \in 0..dev.leds, c \in Colors : SetLEDColor(l, c)
       \/ \E L \in SUBSET (0..dev.leds) : \E items \in [L -> Colors] : SetMultipleColors(items)
       \/ \E z \in Zones, c \in Colors : SetZoneColor(z, c)
       \/ \E c \in Colors : SetAllColors(c)
       \/ \E z \in Zones, s \in Sent, f \in BOOLEAN : SetZoneMultipleLed(z, s, f)
       \/ \E cs \in [Zones -> Sent] : SetMultipleZoneMultipleLed(cs)
       \/ \E cs \in [Zones -> Sent] : ForceMultipleZoneMultipleLed(cs)
       \/ \E z \in Zones, n \in 0..MaxSent : Resize(z, n)

Spec == Init /\ [][Next]_vars

-----------------------------------------------------------------------------
TypeOK ==
    /\ dev \in [driver : Drivers, count : [Zones -> Nat], effects : SUBSET Zones, leds : Nat,
                colors : Seq(Colors \cup {Black} \cup (IF spilled = {} THEN {} ELSE {Junk})),
                start : [Zones -> Nat], part : [Zones -> Nat], last : {0} \cup Zones]
    /\ spilled \subseteq Zones /\ reply \in {"none", "success", "error", "crash"}
    /\ request.colors \in [Zones -> Seq(Colors)]

(***************************************************************************)
(* leds and colors have the same length, and the parts divide the vector   *)
(* without a gap, after driver and "Force" resized in any order.  No zone  *)
(* owns more LEDs than its part has, unless the driver only counts.        *)
(***************************************************************************)
Divided ==
    /\ TypeOK
    /\ dev.leds = Len(dev.colors) /\ dev.leds = TotalLEDs(dev.part)
    /\ \A z \in Zones : dev.start[z] = SlotsBelow(dev.part, z)
    /\ dev.driver # "count" => \A z \in Zones : GetLEDsInZone(dev, z) <= dev.part[z]
    /\ dev.driver = "setup" => dev.part = Parts(dev)

(***************************************************************************)
(* A request leaves a zone's part of the vector only if the zone is for    *)
(* effects only, or was resized by a driver that changes leds_count alone  *)
(* (RGBController_ASRockPolychromeUSB.cpp:276) and since then by nothing   *)
(* that sets up the colors.                                                *)
(***************************************************************************)
Outgrown(d) == {z \in Zones : d.driver = "count" /\ GetLEDsInZone(d, z) > d.part[z]}

StaysInPart == [][spilled' \subseteq spilled \cup EffectsOnly \cup Outgrown(dev) \cup Outgrown(dev')]_vars

(***************************************************************************)
(* Until that happened, a request that succeeded shows what it sent.       *)
(***************************************************************************)
ShowsSent ==
    reply = "success" /\ spilled = {} =>
        \A z \in Zones : request.colors[z] # <<>> =>
            SubSeq(ReadZone(dev, z), 1, GetLEDsInZone(dev, z)) = request.colors[z]

(***************************************************************************)
(* A forced request keeps the colors of the zones it does not name, though *)
(* their place in the vector moves.                                        *)
(***************************************************************************)
ForceKeepsOthers ==
    [][request'.op = "force" /\ spilled' = {} =>
         \A z \in Zones : request'.colors[z] = <<>> => ReadZone(dev, z)' = ReadZone(dev, z)]_vars

(***************************************************************************)
(* A request that is answered with an error costs no color, also if some   *)
(* zones were resized before the driver failed (JSONRPCHandler.cpp:652):   *)
(* a driver that clears the colors never fails within the limits that were *)
(* checked, and leaves all as it was; the others change sizes at most.     *)
(***************************************************************************)
RejectedKeepsColors ==
    [][reply' = "error" =>
         dev' = IF dev.driver = "setup" THEN dev ELSE [dev EXCEPT !.count = dev'.count]]_vars

(***************************************************************************)
(* "Zone is resizable, but only for effects - treat as single LED"         *)
(* (RGBController.h:127): no more than one color is ever written to it.    *)
(***************************************************************************)
TreatedAsSingleLED == spilled = {}

=============================================================================
