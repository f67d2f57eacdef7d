---------------------------- MODULE ZonesProofs ----------------------------
(***************************************************************************)
(* Theorems about Zones, for any number of zones of any sizes and flags,   *)
(* any colors, requests of any length and each kind of driver.             *)
(*                                                                         *)
(* The zones divide the vector (Laid) because every part that SetupColors  *)
(* sums up begins where the one before it ends (Totals), so that no place  *)
(* belongs to two zones (Disjoint) or lies behind the vector (Inside).     *)
(* Writing moves no zone (SameLayout).  A driver either sets all of it up  *)
(* again (SetupDriver) or changes sizes only (SizesDrivers); ForceSizes    *)
(* sets all of it up.  What the loops over the zones do is proved by       *)
(* induction over the zones: WriteAll, ResizeAll.  A loop over the LEDs    *)
(* that a zone counts leaves the zone's part only if the zone is for       *)
(* effects or was Outgrown (SpillsAre), and where none did, each zone      *)
(* named holds what it was sent (Shows) and shows it (HeldIsRead).         *)
(***************************************************************************)
EXTENDS Zones, SequenceTheorems, WellFoundedInduction, TLAPS

\* The number of zones.
N == Len(leds_min)

\* The controllers whose vector holds values in V.
ControllersOver(V) ==
    [driver : Drivers, count : [Zones -> Nat], effects : SUBSET Zones, leds : Nat, colors : Seq(V),
     start : [Zones -> Nat], part : [Zones -> Nat], last : {0} \cup Zones]

\* All of the vector is divided among the zones.
Laid(d) ==
    /\ d.leds = Len(d.colors) /\ d.leds = TotalLEDs(d.part)
    /\ \A z \in Zones : d.start[z] = SlotsBelow(d.part, z)

\* e differs from d in the colors at most.
SameLayout(d, e) ==
    /\ e.driver = d.driver /\ e.count = d.count /\ e.effects = d.effects /\ e.leds = d.leds
    /\ e.start = d.start /\ e.part = d.part /\ Len(e.colors) = Len(d.colors)

\* The zones are the numbers from 1.
LEMMA ZoneNumbers ==
  N \in Nat /\ N # 0 /\ Zones = 1..N /\ 0..N \subseteq Nat
BY ZonesAssumption, EmptySeq DEF Zones, N

-----------------------------------------------------------------------------
\* Every set of naturals that is not empty has a least element, which Min gives.
LEMMA LeastElement ==
  ASSUME NEW T, T \subseteq Nat, T # {}
  PROVE  Min(T) \in T /\ \A m \in T : Min(T) <= m
<1>. DEFINE R == OpToRel(<, Nat)
<1>1. IsWellFoundedOn(R, Nat)
  BY NatLessThanWellFounded
<1>2. \A m, n \in Nat : m < n => <<m, n>> \in R
  BY DEF OpToRel
<1>. HIDE DEF R
<1>3. PICK n \in T : \A m \in T : ~(<<m, n>> \in R)
  BY <1>1, WFMin
<1>4. ASSUME NEW m \in T
      PROVE  n <= m
  <2>1. m \in Nat /\ n \in Nat
    OBVIOUS
  <2>2. ~(m < n)
    BY <1>2, <1>3, <2>1
  <2>. QED
    BY <2>1, <2>2
<1>. QED
  BY <1>4 DEF Min

\* Induction over the zones.
LEMMA ZoneInduction ==
  ASSUME NEW T, 0 \in T, \A n \in Zones : n - 1 \in T => n \in T
  PROVE  0..N \subseteq T
<1>. DEFINE U == {n \in 0..N : n \notin T}
<1>1. SUFFICES ASSUME U # {}
               PROVE  FALSE
  OBVIOUS
<1>2. PICK n \in U : \A k \in U : n <= k
  <2>1. U \subseteq Nat
    BY ZoneNumbers
  <2>. HIDE DEF U
  <2>. QED
    BY <1>1, <2>1, LeastElement
<1>3. n \in Zones /\ n - 1 \notin U /\ n - 1 \in 0..N
  BY <1>2, ZoneNumbers
<1>. QED
  BY <1>2, <1>3

\* The loop's state is b before the first zone, and g[n] makes the next one.
Iterates(w, b, g) == w[0] = b /\ \A n \in Zones : w[n] = g[n][w[n - 1]]

\* A loop over the zones that is modelled by a recursive function ends.
LEMMA Iteration ==
  ASSUME NEW S, NEW b \in S, NEW g \in [Zones -> [S -> S]]
  PROVE  \E w \in [0..N -> S] : Iterates(w, b, g)
<1>. DEFINE Upto(w, m) == /\ w \in [0..m -> S] /\ w[0] = b
                          /\ \A n \in 1..m : w[n] = g[n][w[n - 1]]
            T == {m \in 0..N : \E w : Upto(w, m)}
<1>1. 0 \in T
  <2>. Upto([n \in 0..0 |-> b], 0)
    OBVIOUS
  <2>. HIDE DEF Upto
  <2>. QED
    BY ZoneNumbers
<1>2. ASSUME NEW m \in Zones, m - 1 \in T
      PROVE  m \in T
  <2>1. PICK w : Upto(w, m - 1)
    BY <1>2
  <2>2. m \in Nat /\ m # 0 /\ m - 1 \in 0..(m - 1) /\ m \in 0..N
    BY ZoneNumbers
  <2>. DEFINE x == [n \in 0..m |-> IF n = m THEN g[m][w[m - 1]] ELSE w[n]]
  <2>3. w[m - 1] \in S /\ g[m][w[m - 1]] \in S
    BY <2>1, <2>2
  <2>4. x \in [0..m -> S]
    BY <2>1, <2>2, <2>3
  <2>5. x[0] = b
    BY <2>1, <2>2
  <2>6. ASSUME NEW n \in 1..m
        PROVE  x[n] = g[n][x[n - 1]]
    <3>1. CASE n = m
      BY <2>2, <3>1
    <3>2. CASE n # m
      <4>1. n \in 1..(m - 1) /\ n - 1 \in 0..m /\ n - 1 # m /\ n \in 0..m
        BY <2>2, <3>2
      <4>2. w[n] = g[n][w[n - 1]]
        BY <2>1, <4>1
      <4>. QED
        BY <3>2, <4>1, <4>2
    <3>. QED
      BY <3>1, <3>2
  <2>7. Upto(x, m)
    BY <2>4, <2>5, <2>6
  <2>. HIDE DEF Upto
  <2>. QED
    BY <2>2, <2>7
<1>3. N \in T
  <2>. HIDE DEF T
  <2>. QED
    BY <1>1, <1>2, ZoneInduction, ZoneNumbers
<1>4. PICK w : Upto(w, N)
  BY <1>3
<1>5. Iterates(w, b, g)
  BY <1>4, ZoneNumbers DEF Iterates
<1>. QED
  BY <1>4, <1>5

\* A function on the first n numbers is a sequence of n elements.
LEMMA Tabulated ==
  ASSUME NEW V, NEW n \in Nat, NEW f \in [1..n -> V]
  PROVE  f \in Seq(V) /\ Len(f) = n
OBVIOUS

\* The recursive definition of Sums defines the sums.
LEMMA SumsProperties ==
  ASSUME NEW part \in [Zones -> Nat]
  PROVE  /\ Sums(part) \in [0..N -> Nat]
         /\ Sums(part)[0] = 0
         /\ \A n \in Zones : Sums(part)[n] = Sums(part)[n - 1] + part[n]
<1>. DEFINE Add(n) == [m \in Nat |-> m + part[n]]
            g == [n \in Zones |-> Add(n)]
<1>1. g \in [Zones -> [Nat -> Nat]]
  OBVIOUS
<1>2. PICK w \in [0..N -> Nat] : Iterates(w, 0, g)
  <2>. DEFINE S == Nat
              b == 0
  <2>1. b \in S /\ g \in [Zones -> [S -> S]]
    BY <1>1
  <2>. HIDE DEF S, g, b
  <2>2. \E w \in [0..N -> S] : Iterates(w, b, g)
    BY <2>1, Iteration
  <2>. QED
    BY <2>2 DEF S, b
<1>3. ASSUME NEW n \in Zones
      PROVE  n \in 0..N /\ n # 0 /\ n - 1 \in 0..N
  BY ZoneNumbers
<1>4. w[0] = 0 /\ \A n \in Zones : w[n] = w[n - 1] + part[n]
  <2>1. w[0] = 0
    BY <1>2 DEF Iterates
  <2>2. ASSUME NEW n \in Zones
        PROVE  w[n] = w[n - 1] + part[n]
    <3>1. w[n] = g[n][w[n - 1]] /\ w[n - 1] \in Nat
      BY <1>2, <1>3 DEF Iterates
    <3>. QED
      BY <3>1
  <2>. QED
    BY <2>1, <2>2
<1>5. w = [n \in 0..N |-> IF n = 0 THEN 0 ELSE w[n - 1] + part[n]]
  <2>1. ASSUME NEW n \in 0..N
        PROVE  w[n] = IF n = 0 THEN 0 ELSE w[n - 1] + part[n]
    BY <1>4, ZoneNumbers
  <2>. QED
    BY <1>2, <2>1
<1>6. \E s : s = [n \in 0..N |-> IF n = 0 THEN 0 ELSE s[n - 1] + part[n]]
  BY <1>5
<1>7. Sums(part) = [n \in 0..N |-> IF n = 0 THEN 0 ELSE Sums(part)[n - 1] + part[n]]
  BY <1>6 DEF Sums, N
<1>. DEFINE s == Sums(part)
<1>. HIDE DEF s
<1>8. s[0] = 0 /\ \A n \in Zones : s[n] = s[n - 1] + part[n]
  <2>1. s = [n \in 0..N |-> IF n = 0 THEN 0 ELSE s[n - 1] + part[n]]
    BY <1>7 DEF s
  <2>2. 0 \in 0..N
    BY ZoneNumbers
  <2>3. s[0] = 0
    BY <2>1, <2>2
  <2>4. ASSUME NEW n \in Zones
        PROVE  s[n] = s[n - 1] + part[n]
    BY <1>3, <2>1
  <2>. QED
    BY <2>3, <2>4
<1>9. \A n \in 0..N : s[n] \in Nat
  <2>. DEFINE T == {n \in 0..N : s[n] \in Nat}
  <2>1. 0 \in T
    <3>1. 0 \in 0..N /\ 0 \in Nat
      BY ZoneNumbers
    <3>. QED
      BY <1>8, <3>1
  <2>2. ASSUME NEW n \in Zones, n - 1 \in T
        PROVE  n \in T
    <3>1. s[n - 1] \in Nat /\ s[n] = s[n - 1] + part[n] /\ part[n] \in Nat
      BY <1>8, <2>2
    <3>2. s[n] \in Nat
      BY <3>1
    <3>. QED
      BY <1>3, <3>2
  <2>. HIDE DEF T
  <2>3. 0..N \subseteq T
    BY <2>1, <2>2, ZoneInduction
  <2>. QED
    BY <2>3 DEF T
<1>10. s \in [0..N -> Nat]
  BY <1>7, <1>9 DEF s
<1>. QED
  BY <1>8, <1>10 DEF s

\* Sums of more parts are not smaller.
LEMMA SumsMonotone ==
  ASSUME NEW part \in [Zones -> Nat], NEW m \in 0..N, NEW n \in 0..N, m <= n
  PROVE  Sums(part)[m] <= Sums(part)[n]
<1>. DEFINE s == Sums(part)
            T == {i \in 0..N : m <= i => s[m] <= s[i]}
<1>1. /\ s \in [0..N -> Nat]
      /\ \A i \in Zones : s[i] = s[i - 1] + part[i]
  BY SumsProperties
<1>. HIDE DEF s
<1>5. \A i \in 0..N : s[i] \in Nat
  BY <1>1
<1>2. 0 \in T
  BY <1>5, ZoneNumbers
<1>3. ASSUME NEW i \in Zones, i - 1 \in T
      PROVE  i \in T
  <2>1. i \in 0..N /\ i - 1 \in 0..N
    BY ZoneNumbers
  <2>2. CASE m = i
    BY <1>5, <2>1, <2>2
  <2>3. CASE m # i
    <3>1. s[i] = s[i - 1] + part[i] /\ part[i] \in Nat
      BY <1>1
    <3>2. s[i] \in Nat /\ s[i - 1] \in Nat /\ s[m] \in Nat
      BY <1>5, <2>1
    <3>3. m <= i => s[m] <= s[i - 1]
      BY <1>3, <2>1, <2>3, ZoneNumbers
    <3>4. s[i - 1] <= s[i]
      BY <3>1, <3>2
    <3>5. s[m] <= s[i - 1] => s[m] <= s[i]
      BY <3>2, <3>4
    <3>. QED
      BY <2>1, <3>3, <3>5
  <2>. QED
    BY <2>2, <2>3
<1>4. n \in T
  <2>. HIDE DEF T
  <2>. QED
    BY <1>2, <1>3, ZoneInduction
<1>. QED
  BY <1>4 DEF s
-----------------------------------------------------------------------------
\* The types of a controller's fields.
LEMMA Fields ==
  ASSUME NEW V, NEW d \in ControllersOver(V)
  PROVE  /\ d.driver \in Drivers /\ d.count \in [Zones -> Nat]
         /\ d.effects \subseteq Zones /\ d.leds \in Nat
         /\ d.colors \in Seq(V) /\ Len(d.colors) \in Nat
         /\ \A i \in 1..Len(d.colors) : d.colors[i] \in V
         /\ d.start \in [Zones -> Nat] /\ \A z \in Zones : d.start[z] \in Nat
         /\ d.part \in [Zones -> Nat] /\ \A z \in Zones : d.part[z] \in Nat
         /\ \A z \in Zones : d.count[z] \in Nat
BY DEF ControllersOver

\* A zone owns no more LEDs than it counts, and fewer only if it is for effects.
LEMMA PartsProperties ==
  ASSUME NEW V, NEW d \in ControllersOver(V)
  PROVE  /\ Parts(d) \in [Zones -> Nat]
         /\ \A z \in Zones : /\ Parts(d)[z] = GetLEDsInZone(d, z)
                             /\ Parts(d)[z] <= d.count[z]
                             /\ Parts(d)[z] # d.count[z] => z \in d.effects
<1>1. \A z \in Zones : d.count[z] \in Nat
  BY DEF ControllersOver
<1>. QED
  BY <1>1 DEF Parts, GetLEDsInZone

\* Parts lie behind one another, in the order of the zones, within the total.
LEMMA Totals ==
  ASSUME NEW p \in [Zones -> Nat]
  PROVE  /\ TotalLEDs(p) \in Nat
         /\ \A z \in Zones : /\ SlotsBelow(p, z) \in Nat
                             /\ SlotsBelow(p, z) + p[z] <= TotalLEDs(p)
         /\ \A y, z \in Zones : y < z => SlotsBelow(p, y) + p[y] <= SlotsBelow(p, z)
<1>. DEFINE s == Sums(p)
<1>2. /\ s \in [0..N -> Nat]
      /\ \A n \in Zones : s[n] = s[n - 1] + p[n]
  BY SumsProperties
<1>3. \A m, n \in 0..N : m <= n => s[m] <= s[n]
  BY SumsMonotone
<1>. HIDE DEF s
<1>4. TotalLEDs(p) = s[N] /\ \A z \in Zones : SlotsBelow(p, z) = s[z - 1]
  BY DEF TotalLEDs, SlotsBelow, N, s
<1>5. N \in 0..N /\ \A z \in Zones : z \in 0..N /\ z - 1 \in 0..N /\ z <= N /\ z \in Nat
  BY ZoneNumbers
<1>6. ASSUME NEW z \in Zones
      PROVE  s[z - 1] \in Nat /\ s[z - 1] + p[z] = s[z] /\ s[z] <= s[N]
  BY <1>2, <1>3, <1>5
<1>7. ASSUME NEW y \in Zones, NEW z \in Zones, y < z
      PROVE  s[y - 1] + p[y] <= s[z - 1]
  <2>1. y <= z - 1
    BY <1>5, <1>7
  <2>2. s[y] <= s[z - 1]
    BY <1>3, <1>5, <2>1
  <2>. QED
    BY <1>6, <2>2
<1>8. s[N] \in Nat
  BY <1>2, <1>5
<1>. QED
  BY <1>4, <1>6, <1>7, <1>8

\* What zones own depends on their sizes and flags alone.
LEMMA SameParts ==
  ASSUME NEW d, NEW e, e.count = d.count, e.effects = d.effects
  PROVE  /\ Parts(e) = Parts(d)
         /\ \A z \in Zones : GetLEDsInZone(e, z) = GetLEDsInZone(d, z)
<1>1. \A z \in Zones : GetLEDsInZone(e, z) = GetLEDsInZone(d, z)
  BY DEF GetLEDsInZone
<1>2. Parts(e) = Parts(d)
  BY <1>1 DEF Parts
<1>. QED
  BY <1>1, <1>2

\* No place of the vector belongs to two zones.
LEMMA Disjoint ==
  ASSUME NEW V, NEW d \in ControllersOver(V), Laid(d),
         NEW y \in Zones, NEW z \in Zones,
         NEW k \in 1..d.part[y], NEW l \in 1..d.part[z],
         d.start[y] + k = d.start[z] + l
  PROVE  y = z /\ k = l
<1>1. /\ d.part[y] \in Nat /\ d.part[z] \in Nat
      /\ d.start[y] \in Nat /\ d.start[z] \in Nat /\ y \in Nat /\ z \in Nat
  <2>1. d.part \in [Zones -> Nat] /\ \A x \in Zones : d.start[x] \in Nat
    BY Fields
  <2>2. d.part[y] \in Nat /\ d.part[z] \in Nat
    BY <2>1
  <2>3. y \in Nat /\ z \in Nat
    BY ZoneNumbers
  <2>. QED
    BY <2>1, <2>2, <2>3
<1>2. /\ y < z => d.start[y] + d.part[y] <= d.start[z]
      /\ z < y => d.start[z] + d.part[z] <= d.start[y]
  BY Fields, Totals DEF Laid
<1>. DEFINE a == d.start[y]
            b == d.start[z]
            p == d.part[y]
            q == d.part[z]
<1>3. a + k = b + l /\ k \in 1..p /\ l \in 1..q
  OBVIOUS
<1>. HIDE DEF a, b, p, q
<1>4. a \in Nat /\ b \in Nat /\ p \in Nat /\ q \in Nat
      /\ (y < z => a + p <= b) /\ (z < y => b + q <= a)
  BY <1>1, <1>2 DEF a, b, p, q
<1>5. ~(y < z)
  BY <1>3, <1>4
<1>6. ~(z < y)
  BY <1>3, <1>4
<1>7. y = z
  BY <1>1, <1>5, <1>6
<1>8. a = b
  BY <1>7 DEF a, b
<1>. QED
  BY <1>3, <1>4, <1>7, <1>8

\* Each zone's part is within the vector.
LEMMA Inside ==
  ASSUME NEW V, NEW d \in ControllersOver(V), Laid(d),
         NEW z \in Zones, NEW k \in 1..d.part[z]
  PROVE  d.start[z] + k \in 1..Len(d.colors)
<1>1. d.part[z] \in Nat /\ d.start[z] \in Nat /\ Len(d.colors) \in Nat
  BY Fields
<1>2. d.start[z] + d.part[z] <= Len(d.colors)
  BY Fields, Totals DEF Laid
<1>. DEFINE a == d.start[z]
            p == d.part[z]
            m == Len(d.colors)
<1>3. k \in 1..p
  OBVIOUS
<1>4. a \in Nat /\ p \in Nat /\ m \in Nat /\ a + p <= m
  BY <1>1, <1>2
<1>. HIDE DEF a, p, m
<1>5. a + k \in 1..m
  BY <1>3, <1>4
<1>. QED
  BY <1>5 DEF a, m

\* Writing colors does not change how the vector is divided.
LEMMA LaidKept ==
  ASSUME NEW d, NEW e, Laid(d), SameLayout(d, e)
  PROVE  Laid(e)
BY DEF Laid, SameLayout

\* SetupColors divides the vector, if leds has the right length.
LEMMA Setup ==
  ASSUME NEW V, Black \in V, NEW d \in ControllersOver(V)
  PROVE  /\ SetupColors(d) \in ControllersOver(V)
         /\ SetupColors(d).driver = d.driver
         /\ SetupColors(d).count = d.count /\ SetupColors(d).effects = d.effects
         /\ SetupColors(d).part = Parts(d) /\ Parts(SetupColors(d)) = Parts(d)
         /\ d.leds = TotalLEDs(Parts(d)) => Laid(SetupColors(d))
<1>. DEFINE p == Parts(d)
            c == ResizeColors(d.colors, TotalLEDs(p))
            t == [z \in Zones |-> SlotsBelow(p, z)]
            e == SetupColors(d)
<1>0. p \in [Zones -> Nat]
  BY PartsProperties
<1>1. c \in Seq(V) /\ Len(c) = TotalLEDs(p)
  <2>1. TotalLEDs(p) \in Nat /\ d.colors \in Seq(V)
    BY <1>0, Totals, Fields
  <2>2. c \in [1..TotalLEDs(p) -> V]
    BY <2>1 DEF ResizeColors
  <2>. HIDE DEF c
  <2>. QED
    BY <2>1, <2>2, Tabulated
<1>2. t \in [Zones -> Nat] /\ \A z \in Zones : t[z] = SlotsBelow(p, z)
  BY <1>0, Totals
<1>3. e = [d EXCEPT !.colors = c, !.start = t, !.part = p]
  BY DEF SetupColors
<1>. HIDE DEF c, t, e, p
<1>4. /\ e \in ControllersOver(V) /\ e.driver = d.driver
      /\ e.count = d.count /\ e.effects = d.effects /\ e.leds = d.leds
      /\ e.colors = c /\ e.start = t /\ e.part = p
  BY <1>0, <1>1, <1>2, <1>3 DEF ControllersOver
<1>5. ASSUME d.leds = TotalLEDs(p)
      PROVE  Laid(e)
  BY <1>1, <1>2, <1>4, <1>5 DEF Laid
<1>6. Parts(e) = Parts(d)
  BY <1>4, SameParts
<1>. QED
  BY <1>4, <1>5, <1>6 DEF e, p

\* SetupZones pushes as many LEDs as SetupColors counts, so that it divides the
\* vector whatever it was before.
LEMMA ZonesSetUp ==
  ASSUME NEW V, Black \in V, NEW d \in ControllersOver(V)
  PROVE  /\ SetupZones(d) \in ControllersOver(V) /\ Laid(SetupZones(d))
         /\ SetupZones(d).driver = d.driver
         /\ SetupZones(d).count = d.count /\ SetupZones(d).effects = d.effects
         /\ SetupZones(d).part = Parts(d) /\ Parts(SetupZones(d)) = Parts(d)
<1>. DEFINE pushed == [z \in Zones |-> IF z \in d.effects /\ d.count[z] > 0 THEN 1 ELSE d.count[z]]
            c == [d EXCEPT !.leds = TotalLEDs(Parts(d)), !.colors = <<>>]
<1>1. pushed = Parts(d)
  <2>1. \A z \in Zones : d.count[z] \in Nat
    BY Fields
  <2>2. \A z \in Zones : (IF z \in d.effects /\ d.count[z] > 0 THEN 1 ELSE d.count[z]) = GetLEDsInZone(d, z)
    BY <2>1 DEF GetLEDsInZone
  <2>. QED
    BY <2>2 DEF Parts
<1>2. SetupZones(d) = SetupColors(c)
  BY <1>1 DEF SetupZones
<1>3. TotalLEDs(Parts(d)) \in Nat /\ <<>> \in Seq(V)
  BY PartsProperties, Totals, EmptySeq
<1>4. /\ c \in ControllersOver(V) /\ c.leds = TotalLEDs(Parts(d))
      /\ c.driver = d.driver /\ c.count = d.count /\ c.effects = d.effects
  BY <1>3 DEF ControllersOver
<1>. HIDE DEF c
<1>5. Parts(c) = Parts(d)
  BY <1>4, SameParts
<1>. QED
  BY <1>2, <1>4, <1>5, Setup

\* "Force" gives the zones that are named the size sent for them.
LEMMA Forced ==
  ASSUME NEW V, Black \in V, NEW d \in ControllersOver(V), NEW cs \in [Zones -> Seq(Colors)]
  PROVE  /\ ForceSizes(d, cs) \in ControllersOver(V) /\ Laid(ForceSizes(d, cs))
         /\ \A z \in Zones : ForceSizes(d, cs).count[z] =
                IF cs[z] # <<>> THEN Len(cs[z]) ELSE d.count[z]
         /\ ForceSizes(d, cs).effects = d.effects \ {z \in Zones : cs[z] # <<>>}
         /\ ForceSizes(d, cs).part = Parts(ForceSizes(d, cs)) /\ ForceSizes(d, cs).driver = d.driver
<1>. DEFINE m == [z \in Zones |-> IF cs[z] # <<>> THEN Len(cs[z]) ELSE d.count[z]]
            x == d.effects \ {z \in Zones : cs[z] # <<>>}
            e == [d EXCEPT !.count = m, !.effects = x]
            f == [e EXCEPT !.leds = TotalLEDs(Parts(e))]
<1>1. m \in [Zones -> Nat] /\ x \in SUBSET Zones
  <2>1. \A z \in Zones : d.count[z] \in Nat /\ Len(cs[z]) \in Nat
    BY DEF ControllersOver
  <2>. QED
    BY <2>1 DEF ControllersOver
<1>2. ForceSizes(d, cs) = SetupColors(f)
  BY DEF ForceSizes
<1>3. \A z \in Zones : m[z] = IF cs[z] # <<>> THEN Len(cs[z]) ELSE d.count[z]
  OBVIOUS
<1>4. /\ e \in ControllersOver(V) /\ e.count = m /\ e.effects = x /\ e.driver = d.driver
  <2>. HIDE DEF m, x
  <2>. QED
    BY <1>1 DEF ControllersOver
<1>5. x = d.effects \ {z \in Zones : cs[z] # <<>>}
  OBVIOUS
<1>. HIDE DEF m, x, e
<1>6. TotalLEDs(Parts(e)) \in Nat
  BY <1>4, PartsProperties, Totals
<1>7. /\ f \in ControllersOver(V) /\ f.count = m /\ f.effects = x /\ f.leds = TotalLEDs(Parts(e))
      /\ f.driver = d.driver
  BY <1>4, <1>6 DEF ControllersOver
<1>. HIDE DEF f
<1>8. f.leds = TotalLEDs(Parts(f))
  BY <1>4, <1>7, SameParts
<1>9. /\ SetupColors(f) \in ControllersOver(V) /\ Laid(SetupColors(f))
      /\ SetupColors(f).count = m /\ SetupColors(f).effects = x
      /\ SetupColors(f).part = Parts(SetupColors(f)) /\ SetupColors(f).driver = d.driver
  BY <1>7, <1>8, Setup
<1>. QED
  BY <1>2, <1>3, <1>5, <1>9

\* One write: the places it reaches, and that it moves no zone.
LEMMA Write ==
  ASSUME NEW V, NEW d \in ControllersOver(V), NEW z \in Zones, NEW s \in Seq(V)
  PROVE  /\ WriteZone(d, z, s) \in ControllersOver(V)
         /\ SameLayout(d, WriteZone(d, z, s))
         /\ \A i \in 1..Len(d.colors) : WriteZone(d, z, s).colors[i] =
                IF i - d.start[z] \in 1..Len(s) THEN s[i - d.start[z]] ELSE d.colors[i]
<1>. DEFINE c == [i \in 1..Len(d.colors) |->
                    IF i - d.start[z] \in 1..Len(s) THEN s[i - d.start[z]] ELSE d.colors[i]]
            e == WriteZone(d, z, s)
<1>1. d.colors \in Seq(V) /\ Len(d.colors) \in Nat /\ DOMAIN d.colors = 1..Len(d.colors)
      /\ DOMAIN s = 1..Len(s)
  BY DEF ControllersOver
<1>2. c \in Seq(V) /\ Len(c) = Len(d.colors)
  <2>1. ASSUME NEW i \in 1..Len(d.colors)
        PROVE  (IF i - d.start[z] \in 1..Len(s) THEN s[i - d.start[z]] ELSE d.colors[i]) \in V
    <3>1. \A k \in 1..Len(s) : s[k] \in V
      OBVIOUS
    <3>2. d.colors[i] \in V
      BY Fields
    <3>. QED
      BY <3>1, <3>2
  <2>2. c \in [1..Len(d.colors) -> V]
    BY <2>1
  <2>. HIDE DEF c
  <2>. QED
    BY <1>1, <2>2, Tabulated
<1>3. e = [d EXCEPT !.colors = c]
  BY <1>1 DEF WriteZone
<1>4. \A i \in 1..Len(d.colors) : c[i] =
          IF i - d.start[z] \in 1..Len(s) THEN s[i - d.start[z]] ELSE d.colors[i]
  OBVIOUS
<1>. HIDE DEF c, e
<1>5. /\ e \in ControllersOver(V) /\ e.colors = c /\ e.driver = d.driver
      /\ e.count = d.count /\ e.effects = d.effects /\ e.leds = d.leds /\ e.start = d.start
      /\ e.part = d.part /\ e.last = d.last
  BY <1>2, <1>3 DEF ControllersOver
<1>. QED
  BY <1>2, <1>4, <1>5 DEF SameLayout, e

-----------------------------------------------------------------------------
\* One place after a write.
LEMMA Written ==
  ASSUME NEW V, NEW d \in ControllersOver(V), NEW z \in Zones, NEW s \in Seq(V),
         NEW i \in 1..Len(d.colors)
  PROVE  WriteZone(d, z, s).colors[i] =
            IF i - d.start[z] \in 1..Len(s) THEN s[i - d.start[z]] ELSE d.colors[i]
BY Write

\* The controllers that the loop of WriteZones goes through.
WritesThrough(w, d, cs) ==
    /\ w[0] = d /\ WriteZones(d, cs) = w[N]
    /\ \A n \in Zones : w[n] = WriteZone(w[n - 1], n, cs[n])

\* The loop of WriteZones ends, over such controllers.
LEMMA Writing ==
  ASSUME NEW V, NEW d \in ControllersOver(V), NEW cs \in [Zones -> Seq(V)]
  PROVE  \E w \in [0..N -> ControllersOver(V)] : WritesThrough(w, d, cs)
<1>. DEFINE S == ControllersOver(V)
            g == [n \in Zones |-> [e \in S |-> WriteZone(e, n, cs[n])]]
            R(f) == f = [n \in 0..Len(leds_min) |->
                            IF n = 0 THEN d ELSE WriteZone(f[n - 1], n, cs[n])]
            written == CHOOSE f : R(f)
<1>1. g \in [Zones -> [S -> S]]
  BY Write
<1>2. \A n \in Zones, e \in S : g[n][e] = WriteZone(e, n, cs[n])
  OBVIOUS
<1>3. ASSUME NEW n \in Zones
      PROVE  n \in 0..N /\ n # 0 /\ n - 1 \in 0..N
  BY ZoneNumbers
<1>4. \E f : R(f)
  <2>. HIDE DEF g
  <2>1. d \in S
    OBVIOUS
  <2>. HIDE DEF S
  <2>2. PICK w \in [0..N -> S] : Iterates(w, d, g)
    BY <1>1, <2>1, Iteration
  <2>3. ASSUME NEW n \in 0..N
        PROVE  w[n] = IF n = 0 THEN d ELSE WriteZone(w[n - 1], n, cs[n])
    <3>1. CASE n = 0
      BY <2>2, <3>1 DEF Iterates
    <3>2. CASE n # 0
      <4>1. n \in Zones
        BY <3>2, ZoneNumbers
      <4>2. w[n] = g[n][w[n - 1]] /\ w[n - 1] \in S
        BY <1>3, <2>2, <4>1 DEF Iterates
      <4>. QED
        BY <1>2, <3>2, <4>1, <4>2
    <3>. QED
      BY <3>1, <3>2
  <2>4. w = [n \in 0..N |-> IF n = 0 THEN d ELSE WriteZone(w[n - 1], n, cs[n])]
    BY <2>2, <2>3
  <2>5. R(w)
    BY <2>4 DEF N
  <2>. QED
    BY <2>5
<1>5. R(written)
  BY <1>4
<1>6. WriteZones(d, cs) = written[N]
  BY DEF WriteZones, N
<1>7. written = [n \in 0..N |-> IF n = 0 THEN d ELSE WriteZone(written[n - 1], n, cs[n])]
  BY <1>5 DEF N
<1>. HIDE DEF R, written, g, S
<1>8. written[0] = d
  <2>1. 0 \in 0..N
    BY ZoneNumbers
  <2>. QED
    BY <1>7, <2>1
<1>9. ASSUME NEW n \in Zones
      PROVE  written[n] = WriteZone(written[n - 1], n, cs[n])
  BY <1>3, <1>7
<1>10. written \in [0..N -> S]
  <2>. DEFINE T == {n \in 0..N : written[n] \in S}
  <2>1. 0 \in T
    BY <1>8, ZoneNumbers DEF S
  <2>2. ASSUME NEW n \in Zones, n - 1 \in T
        PROVE  n \in T
    <3>1. written[n - 1] \in S /\ cs[n] \in Seq(V)
      BY <2>2
    <3>2. WriteZone(written[n - 1], n, cs[n]) \in S
      BY <3>1, Write DEF S
    <3>. QED
      BY <1>3, <1>9, <3>2
  <2>. HIDE DEF T
  <2>3. 0..N \subseteq T
    BY <2>1, <2>2, ZoneInduction
  <2>4. \A n \in 0..N : written[n] \in S
    BY <2>3 DEF T
  <2>. QED
    BY <1>7, <2>4
<1>. QED
  BY <1>6, <1>8, <1>9, <1>10 DEF S, WritesThrough

\* Writing all zones moves none; if no zone gets more than its part, each has
\* what is written to it and keeps the rest.
LEMMA WriteAll ==
  ASSUME NEW V, NEW d \in ControllersOver(V), NEW cs \in [Zones -> Seq(V)]
  PROVE  /\ WriteZones(d, cs) \in ControllersOver(V)
         /\ SameLayout(d, WriteZones(d, cs))
         /\ Laid(d) /\ (\A z \in Zones : Len(cs[z]) <= d.part[z]) =>
              \A z \in Zones : \A k \in 1..d.part[z] :
                WriteZones(d, cs).colors[d.start[z] + k] =
                    IF k <= Len(cs[z]) THEN cs[z][k] ELSE d.colors[d.start[z] + k]
<1>. PICK w \in [0..N -> ControllersOver(V)] : WritesThrough(w, d, cs)
  BY Writing
<1>1. /\ w[0] = d /\ WriteZones(d, cs) = w[N]
      /\ \A n \in Zones : w[n] = WriteZone(w[n - 1], n, cs[n])
  BY DEF WritesThrough
<1>2. ASSUME NEW n \in Zones
      PROVE  n \in 0..N /\ n - 1 \in 0..N
  BY ZoneNumbers
<1>3. ASSUME NEW n \in Zones
      PROVE  /\ w[n - 1] \in ControllersOver(V) /\ cs[n] \in Seq(V)
             /\ w[n] = WriteZone(w[n - 1], n, cs[n])
  BY <1>1, <1>2
<1>4. 0..N \subseteq {n \in 0..N : SameLayout(d, w[n])}
  <2>. DEFINE T == {n \in 0..N : SameLayout(d, w[n])}
  <2>1. 0 \in T
    BY <1>1, ZoneNumbers DEF SameLayout
  <2>2. ASSUME NEW n \in Zones, n - 1 \in T
        PROVE  n \in T
    <3>1. SameLayout(w[n - 1], w[n])
      BY <1>3, Write
    <3>. QED
      BY <1>2, <2>2, <3>1 DEF SameLayout
  <2>. HIDE DEF T
  <2>3. 0..N \subseteq T
    BY <2>1, <2>2, ZoneInduction
  <2>. QED
    BY <2>3 DEF T
<1>5. N \in 0..N
  BY ZoneNumbers
<1>6. ASSUME Laid(d), \A z \in Zones : Len(cs[z]) <= d.part[z],
             NEW z \in Zones, NEW k \in 1..d.part[z]
      PROVE  w[N].colors[d.start[z] + k] =
                IF k <= Len(cs[z]) THEN cs[z][k] ELSE d.colors[d.start[z] + k]
  <2>. DEFINE i == d.start[z] + k
              Shown(n) == w[n].colors[i] =
                    IF z <= n /\ k <= Len(cs[z]) THEN cs[z][k] ELSE d.colors[i]
              T == {n \in 0..N : Shown(n)}
  <2>1. i \in 1..Len(d.colors)
    BY <1>6, Inside
  <2>2. z \in Nat /\ z \in 1..N /\ Len(cs[z]) \in Nat /\ d.part[z] \in Nat /\ k \in Nat /\ k >= 1
    <3>1. d.part[z] \in Nat
      BY Fields
    <3>2. k \in 1..d.part[z]
      OBVIOUS
    <3>3. k \in Nat /\ k >= 1
      BY <3>1, <3>2
    <3>. QED
      BY <1>3, <3>1, <3>3, ZoneNumbers
  <2>3. 0 \in T
    BY <1>1, <2>2, ZoneNumbers
  <2>4. ASSUME NEW n \in Zones, n - 1 \in T
        PROVE  n \in T
    <3>1. /\ w[n - 1].start = d.start /\ Len(w[n - 1].colors) = Len(d.colors)
      BY <1>2, <1>4 DEF SameLayout
    <3>2. w[n].colors[i] = IF i - d.start[n] \in 1..Len(cs[n]) THEN cs[n][i - d.start[n]]
                           ELSE w[n - 1].colors[i]
      <4>1. i \in 1..Len(w[n - 1].colors)
        BY <2>1, <3>1
      <4>. DEFINE e == w[n - 1]
      <4>2. e \in ControllersOver(V) /\ cs[n] \in Seq(V) /\ i \in 1..Len(e.colors)
            /\ w[n] = WriteZone(e, n, cs[n]) /\ e.start[n] = d.start[n]
        BY <1>3, <3>1, <4>1
      <4>. HIDE DEF i, e
      <4>3. WriteZone(e, n, cs[n]).colors[i] =
                IF i - e.start[n] \in 1..Len(cs[n]) THEN cs[n][i - e.start[n]] ELSE e.colors[i]
        <5>. DEFINE s == cs[n]
        <5>1. s \in Seq(V)
          BY <4>2
        <5>. HIDE DEF s
        <5>2. WriteZone(e, n, s).colors[i] =
                  IF i - e.start[n] \in 1..Len(s) THEN s[i - e.start[n]] ELSE e.colors[i]
          <6>. SUFFICES ASSUME e \in ControllersOver(V), i \in 1..Len(e.colors)
                        PROVE  WriteZone(e, n, s).colors[i] =
                                  IF i - e.start[n] \in 1..Len(s) THEN s[i - e.start[n]] ELSE e.colors[i]
            BY <4>2
          <6>. QED
            BY <5>1, Written
        <5>. QED
          BY <5>2 DEF s
      <4>4. w[n].colors[i] =
                IF i - d.start[n] \in 1..Len(cs[n]) THEN cs[n][i - d.start[n]] ELSE e.colors[i]
        BY <4>2, <4>3
      <4>. QED
        BY <4>4 DEF e
    <3>3. d.start[n] \in Nat /\ d.start[z] \in Nat
      BY Fields
    <3>4. Shown(n - 1)
      BY <2>4
    <3>5. n \in Nat /\ n \in 0..N
      BY ZoneNumbers
    <3>6. CASE i - d.start[n] \in 1..Len(cs[n])
      <4>. DEFINE l == i - d.start[n]
      <4>1. Len(cs[n]) \in Nat /\ d.part[n] \in Nat /\ Len(cs[n]) <= d.part[n]
        <5>1. d.part[n] \in Nat
          BY Fields
        <5>. QED
          BY <1>3, <1>6, <5>1
      <4>2. l \in 1..d.part[n]
        <5>1. l \in 1..Len(cs[n])
          BY <3>6
        <5>. HIDE DEF l
        <5>. QED
          BY <4>1, <5>1
      <4>3. d.start[z] + k = d.start[n] + l
        <5>1. \A a, b \in Nat : a + k = b + ((a + k) - b)
          BY <2>2
        <5>. QED
          BY <3>3, <5>1
      <4>. HIDE DEF l
      <4>4. z = n /\ k = l
        BY <1>6, <4>2, <4>3, Disjoint
      <4>5. k <= Len(cs[z]) /\ z <= n
        BY <2>2, <3>6, <4>4 DEF l
      <4>6. w[n].colors[i] = cs[z][k]
        BY <3>2, <3>6, <4>4 DEF l
      <4>. QED
        BY <3>5, <4>5, <4>6
    <3>7. CASE i - d.start[n] \notin 1..Len(cs[n])
      <4>1. w[n].colors[i] = w[n - 1].colors[i]
        BY <3>2, <3>7
      <4>2. z = n => ~(k <= Len(cs[z]))
        <5>1. z = n => i - d.start[n] = k
          <6>1. \A a \in Nat : (a + k) - a = k
            BY <2>2
          <6>. QED
            BY <3>3, <6>1
        <5>. HIDE DEF i
        <5>. QED
          BY <2>2, <3>7, <5>1
      <4>3. (z <= n /\ k <= Len(cs[z])) <=> (z <= n - 1 /\ k <= Len(cs[z]))
        BY <2>2, <3>5, <4>2
      <4>. HIDE DEF i
      <4>. QED
        BY <3>4, <3>5, <4>1, <4>3
    <3>. QED
      BY <3>6, <3>7
  <2>. HIDE DEF T
  <2>5. N \in T
    BY <1>5, <2>3, <2>4, ZoneInduction
  <2>6. Shown(N)
    BY <2>5 DEF T
  <2>7. z <= N
    BY <2>2, ZoneNumbers
  <2>. QED
    BY <2>6, <2>7
<1>7. w[N] \in ControllersOver(V) /\ SameLayout(d, w[N])
  BY <1>4, <1>5
<1>. QED
  BY <1>1, <1>6, <1>7

-----------------------------------------------------------------------------
\* What a loop over leds_count reads within the zone's part is what is there.
ReadsPart(V, d, z) ==
    \A k \in 1..d.count[z] : k <= d.part[z] =>
        ReadZone(d, z)[k] = d.colors[d.start[z] + k] /\ ReadZone(d, z)[k] \in V

\* A zone that counts no more LEDs than its part has is read from there.
LEMMA Read ==
  ASSUME NEW V, NEW d \in ControllersOver(V), NEW z \in Zones
  PROVE  /\ ReadZone(d, z) \in Seq(V \cup {Junk}) /\ Len(ReadZone(d, z)) = d.count[z]
         /\ Laid(d) => ReadsPart(V, d, z)
         /\ Laid(d) /\ d.count[z] <= d.part[z] => ReadZone(d, z) \in Seq(V)
<1>. DEFINE Color(k) == LET i == d.start[z] + k IN IF i <= Len(d.colors) THEN d.colors[i] ELSE Junk
            s == [k \in 1..d.count[z] |-> Color(k)]
<1>1. ReadZone(d, z) = s
  BY DEF ReadZone
<1>2. d.count[z] \in Nat /\ d.start[z] \in Nat /\ Len(d.colors) \in Nat /\ d.part[z] \in Nat
  BY Fields
<1>3. ASSUME NEW k \in 1..d.count[z]
      PROVE  Color(k) \in V \cup {Junk}
  <2>1. k \in Nat /\ k >= 1
    BY <1>2
  <2>2. d.start[z] + k <= Len(d.colors) => d.start[z] + k \in 1..Len(d.colors)
    <3>1. \A a, m \in Nat : a + k <= m => a + k \in 1..m
      BY <2>1
    <3>. QED
      BY <1>2, <3>1
  <2>3. d.start[z] + k <= Len(d.colors) => d.colors[d.start[z] + k] \in V
    BY <2>2, Fields
  <2>. QED
    BY <2>3
<1>4. s \in [1..d.count[z] -> V \cup {Junk}]
  <2>. HIDE DEF Color
  <2>. QED
    BY <1>3
<1>5. s \in Seq(V \cup {Junk}) /\ Len(s) = d.count[z]
  <2>. HIDE DEF s
  <2>. QED
    BY <1>2, <1>4, Tabulated
<1>6. ASSUME Laid(d), NEW k \in 1..d.count[z], k <= d.part[z]
      PROVE  s[k] = d.colors[d.start[z] + k] /\ s[k] \in V
  <2>1. k \in 1..d.part[z]
    <3>. DEFINE p == d.part[z]
                c == d.count[z]
    <3>1. k \in 1..c /\ p \in Nat /\ c \in Nat /\ k <= p
      BY <1>2, <1>6
    <3>. HIDE DEF p, c
    <3>2. k \in 1..p
      BY <3>1
    <3>. QED
      BY <3>2 DEF p
  <2>2. d.start[z] + k \in 1..Len(d.colors)
    BY <1>6, <2>1, Inside
  <2>3. d.start[z] + k <= Len(d.colors)
    BY <1>2, <2>2
  <2>4. d.colors[d.start[z] + k] \in V
    BY <2>2, Fields
  <2>. QED
    BY <1>6, <2>3, <2>4
<1>7. ASSUME Laid(d), d.count[z] <= d.part[z]
      PROVE  s \in Seq(V)
  <2>1. ASSUME NEW k \in 1..d.count[z]
        PROVE  s[k] \in V
    <3>1. k <= d.part[z]
      <4>1. \A c, p \in Nat : k \in 1..c /\ c <= p => k <= p
        OBVIOUS
      <4>. QED
        BY <1>2, <1>7, <4>1
    <3>. QED
      BY <1>6, <1>7, <3>1
  <2>2. s = [k \in 1..d.count[z] |-> s[k]]
    BY <1>4
  <2>. HIDE DEF s
  <2>3. s \in [1..d.count[z] -> V]
    BY <2>1, <2>2
  <2>. QED
    BY <1>2, <2>3, Tabulated
<1>. QED
  BY <1>1, <1>5, <1>6, <1>7 DEF ReadsPart

\* The part of zone z, which owns as many LEDs, holds the colors s.
Holds(d, z, s) ==
    /\ Len(s) = Parts(d)[z] /\ Len(s) <= d.part[z]
    /\ \A k \in 1..Len(s) : d.colors[d.start[z] + k] = s[k]

\* Each zone that is named holds what it was sent.
Shows(d, cs) == \A z \in Zones : cs[z] # <<>> => Holds(d, z, cs[z])

\* Sequences, and controllers, over fewer values are such over more.
LEMMA Widen ==
  ASSUME NEW V, NEW W, V \subseteq W
  PROVE  /\ \A s \in Seq(V) : s \in Seq(W)
         /\ ControllersOver(V) \subseteq ControllersOver(W)
<1>1. ASSUME NEW s \in Seq(V)
      PROVE  s \in Seq(W)
  <2>1. Len(s) \in Nat /\ s = [i \in 1..Len(s) |-> s[i]] /\ \A i \in 1..Len(s) : s[i] \in V
    OBVIOUS
  <2>2. s \in [1..Len(s) -> W]
    BY <2>1
  <2>. QED
    BY <2>1, <2>2, Tabulated
<1>2. ASSUME NEW d \in ControllersOver(V)
      PROVE  d \in ControllersOver(W)
  BY <1>1 DEF ControllersOver
<1>. QED
  BY <1>1, <1>2

\* What a zone's part holds is what the property reads.
LEMMA HeldIsRead ==
  ASSUME NEW V, NEW d \in ControllersOver(V), Laid(d), NEW z \in Zones,
         NEW s \in Seq(V), Holds(d, z, s)
  PROVE  SubSeq(ReadZone(d, z), 1, GetLEDsInZone(d, z)) = s
<1>. DEFINE r == ReadZone(d, z)
            p == Parts(d)[z]
            W == V \cup {Junk}
<1>2. p \in Nat /\ p <= d.count[z] /\ p = GetLEDsInZone(d, z) /\ d.count[z] \in Nat
      /\ p <= d.part[z] /\ d.part[z] \in Nat
  BY PartsProperties, Fields DEF Holds
<1>1. r \in Seq(W) /\ Len(r) = d.count[z] /\ \A k \in 1..p : r[k] = d.colors[d.start[z] + k]
  <2>1. r \in Seq(W) /\ Len(r) = d.count[z]
    BY Read
  <2>2. ReadsPart(V, d, z)
    BY Read
  <2>3. \A k \in 1..p : k \in 1..d.count[z] /\ k <= d.part[z]
    <3>. HIDE DEF p
    <3>1. \A c, q \in Nat : p <= c /\ p <= q => \A k \in 1..p : k \in 1..c /\ k <= q
      BY <1>2
    <3>. QED
      BY <1>2, <3>1
  <2>. QED
    BY <2>1, <2>2, <2>3 DEF ReadsPart
<1>3. Len(s) = p /\ \A k \in 1..p : d.colors[d.start[z] + k] = s[k]
  BY DEF Holds
<1>4. \A k \in 1..p : r[k] = s[k]
  BY <1>1, <1>3
<1>5. p <= Len(r)
  BY <1>1, <1>2
<1>6. s \in Seq(W)
  BY Widen
<1>. HIDE DEF r, p, W
<1>. DEFINE t == SubSeq(r, 1, p)
<1>7. t \in Seq(W) /\ Len(t) = p /\ \A k \in 1..p : t[k] = r[k]
  <2>1. \A k \in 1..p : k \in 1..Len(r) /\ r[k] \in W
    <3>1. \A k \in 1..p : k \in 1..Len(r)
      BY <1>1, <1>2, <1>5
    <3>. QED
      BY <1>1, <3>1
  <2>. QED
    BY <1>1, <1>2, <2>1, SubSeqProperties
<1>. HIDE DEF t
<1>8. t = s
  BY <1>3, <1>4, <1>6, <1>7, SeqEqual
<1>. QED
  BY <1>2, <1>8 DEF t, r

\* Zones that get a color for each LED they own, and no more than their part
\* has, hold what is written to them.
LEMMA WriteShows ==
  ASSUME NEW V, NEW d \in ControllersOver(V), Laid(d), NEW cs \in [Zones -> Seq(V)],
         \A z \in Zones : cs[z] # <<>> => Len(cs[z]) = Parts(d)[z] /\ Len(cs[z]) <= d.part[z]
  PROVE  Shows(WriteZones(d, cs), cs)
<1>. DEFINE e == WriteZones(d, cs)
<1>1. \A z \in Zones : Len(cs[z]) <= d.part[z]
  <2>1. \A z \in Zones : d.part[z] \in Nat
    BY Fields
  <2>. QED
    BY <2>1, EmptySeq
<1>2. /\ SameLayout(d, e)
      /\ \A z \in Zones : \A k \in 1..d.part[z] :
            e.colors[d.start[z] + k] =
                IF k <= Len(cs[z]) THEN cs[z][k] ELSE d.colors[d.start[z] + k]
  <2>1. SameLayout(d, WriteZones(d, cs))
    BY WriteAll
  <2>2. \A z \in Zones : \A k \in 1..d.part[z] :
            WriteZones(d, cs).colors[d.start[z] + k] =
                IF k <= Len(cs[z]) THEN cs[z][k] ELSE d.colors[d.start[z] + k]
    BY <1>1, WriteAll
  <2>. QED
    BY <2>1, <2>2
<1>. HIDE DEF e
<1>3. e.start = d.start /\ e.part = d.part /\ Parts(e) = Parts(d)
  BY <1>2, SameParts DEF SameLayout
<1>4. ASSUME NEW z \in Zones, cs[z] # <<>>
      PROVE  Holds(e, z, cs[z])
  <2>1. Len(cs[z]) = Parts(d)[z] /\ Len(cs[z]) <= d.part[z] /\ d.part[z] \in Nat /\ Len(cs[z]) \in Nat
    BY <1>4, Fields
  <2>2. \A k \in 1..Len(cs[z]) : k \in 1..d.part[z] /\ k <= Len(cs[z])
    <3>. DEFINE m == Len(cs[z])
                p == d.part[z]
    <3>1. m \in Nat /\ p \in Nat /\ m <= p
      BY <2>1
    <3>. HIDE DEF m, p
    <3>2. \A k \in 1..m : k \in 1..p /\ k <= m
      BY <3>1
    <3>. QED
      BY <3>2 DEF m, p
  <2>3. \A k \in 1..Len(cs[z]) : e.colors[d.start[z] + k] = cs[z][k]
    BY <1>2, <2>2
  <2>. QED
    BY <1>3, <2>1, <2>3 DEF Holds
<1>. QED
  BY <1>4 DEF Shows, e

\* A fill has one color for each LED that the zone owns.
LEMMA Fills ==
  ASSUME NEW V, NEW d \in ControllersOver(V), NEW W, NEW z \in Zones, NEW c \in W
  PROVE  Fill(d, z, c) \in Seq(W) /\ Len(Fill(d, z, c)) = Parts(d)[z]
<1>. DEFINE p == Parts(d)[z]
            s == [k \in 1..p |-> c]
<1>1. p \in Nat /\ p = GetLEDsInZone(d, z)
  BY PartsProperties
<1>2. Fill(d, z, c) = s
  BY <1>1 DEF Fill
<1>. HIDE DEF p
<1>3. s \in [1..p -> W]
  OBVIOUS
<1>. HIDE DEF s
<1>. QED
  BY <1>1, <1>2, <1>3, Tabulated DEF p

-----------------------------------------------------------------------------
\* The colors that the vector may hold when the zones in sp have left their parts.
Values(sp) == Colors \cup {Black} \cup (IF sp = {} THEN {} ELSE {Junk})

\* The values grow with the zones that spilled.
LEMMA ValuesGrow ==
  ASSUME NEW sp, NEW sq, sp \subseteq sq
  PROVE  /\ Values(sp) \subseteq Values(sq) /\ Black \in Values(sp) /\ Colors \subseteq Values(sp)
         /\ sq # {} => Values(sp) \cup {Junk} \subseteq Values(sq)
BY DEF Values

\* The sizes that each kind of driver leaves the zones with.
Sized(d) ==
    /\ d.effects \subseteq EffectsOnly
    /\ d.driver # "setup" => d.effects = {}
    /\ d.driver = "setup" => d.part = Parts(d)
    /\ d.driver = "fixed" =>
          /\ \A z \in Zones : Parts(d)[z] <= d.part[z]
          /\ Addressable # 0 => d.count[Addressable] > 0

\* A controller as the requests leave it.
Good(d, sp) == d \in ControllersOver(Values(sp)) /\ Laid(d) /\ Sized(d)

\* Only the sizes of zones differ.
OnlySizes(d, e) == e = [d EXCEPT !.count = e.count]

\* What ZonesAssumption says, in the terms used here.
LEMMA Kinds ==
  /\ Drivers \subseteq {"setup", "count", "fixed"} /\ EffectsOnly \subseteq Zones
  /\ Addressable = 0 \/ Addressable \in Zones
  /\ Reported \in [Zones -> Colors \cup {Black}]
BY ZonesAssumption DEF Zones

\* Writing colors moves no zone.
LEMMA GoodKept ==
  ASSUME NEW d, NEW sp, Good(d, sp), NEW sq, NEW e \in ControllersOver(Values(sq)), SameLayout(d, e)
  PROVE  Good(e, sq)
<1>1. Laid(e)
  BY LaidKept DEF Good
<1>2. Parts(e) = Parts(d) /\ e.part = d.part /\ e.count = d.count /\ e.effects = d.effects
      /\ e.driver = d.driver
  BY SameParts DEF SameLayout
<1>3. Sized(e)
  BY <1>2 DEF Good, Sized
<1>. QED
  BY <1>1, <1>3 DEF Good

\* A good controller stays one when more zones have spilled.
LEMMA GoodGrows ==
  ASSUME NEW d, NEW sp, Good(d, sp), NEW sq, sp \subseteq sq
  PROVE  Good(d, sq)
<1>1. Values(sp) \subseteq Values(sq)
  BY ValuesGrow
<1>2. ControllersOver(Values(sp)) \subseteq ControllersOver(Values(sq))
  BY <1>1, Widen
<1>. QED
  BY <1>2 DEF Good

-----------------------------------------------------------------------------
\* GetDeviceConfig writes the zones' parts and moves none.
LEMMA ReadBack ==
  ASSUME NEW sp, NEW d \in ControllersOver(Values(sp))
  PROVE  /\ GetDeviceConfig(d) \in ControllersOver(Values(sp))
         /\ SameLayout(d, GetDeviceConfig(d))
<1>. DEFINE V == Values(sp)
            cs == [z \in Zones |-> Fill(d, z, Reported[z])]
            e == WriteZones(d, cs)
<1>1. \A z \in Zones : Reported[z] \in V
  BY Kinds DEF Values
<1>. HIDE DEF V
<1>2. cs \in [Zones -> Seq(V)]
  BY <1>1, Fills DEF V
<1>3. GetDeviceConfig(d) = [e EXCEPT !.last = 0]
  BY DEF GetDeviceConfig
<1>. HIDE DEF cs
<1>4. e \in ControllersOver(V) /\ SameLayout(d, e)
  BY <1>2, WriteAll DEF V
<1>. HIDE DEF e
<1>. QED
  BY <1>3, <1>4 DEF ControllersOver, SameLayout, V

\* The driver that sets its zones up again.
LEMMA SetupDriver ==
  ASSUME NEW sp, NEW d, Good(d, sp), NEW z \in Zones, NEW n \in Nat, d.driver = "setup"
  PROVE  /\ Good(SetupResize(d, z, n), sp) /\ SetupResize(d, z, n).driver = d.driver
         /\ InRange(z, n) => SetupResize(d, z, n).count = [d.count EXCEPT ![z] = n]
<1>. DEFINE V == Values(sp)
            c == [d EXCEPT !.count[z] = n]
            e == SetupZones(c)
            g == GetDeviceConfig(e)
<1>1. Black \in V /\ d \in ControllersOver(V) /\ d.effects \subseteq EffectsOnly
  BY DEF Values, Good, Sized
<1>2. /\ c \in ControllersOver(V) /\ c.effects = d.effects /\ c.driver = d.driver
      /\ c.count = [d.count EXCEPT ![z] = n]
  BY <1>1 DEF ControllersOver
<1>3. SetupResize(d, z, n) = IF ~InRange(z, n) THEN d ELSE IF z = d.last THEN g ELSE e
  BY DEF SetupResize
<1>. HIDE DEF c, V
<1>4. /\ e \in ControllersOver(V) /\ Laid(e) /\ e.count = c.count /\ e.effects = c.effects
      /\ e.driver = c.driver /\ e.part = Parts(c) /\ Parts(e) = Parts(c)
  BY <1>1, <1>2, ZonesSetUp
<1>. HIDE DEF e
<1>5. Good(e, sp)
  BY <1>1, <1>2, <1>4, Kinds DEF Good, Sized, V
<1>6. g \in ControllersOver(V) /\ SameLayout(e, g)
  BY <1>4, ReadBack DEF V
<1>. HIDE DEF g
<1>7. Good(g, sp) /\ g.count = e.count /\ g.driver = e.driver
  BY <1>5, <1>6, GoodKept DEF V, SameLayout
<1>. QED
  BY <1>2, <1>3, <1>4, <1>5, <1>7

\* The drivers that change sizes only.
LEMMA SizesDrivers ==
  ASSUME NEW sp, NEW d, Good(d, sp), NEW z \in Zones, NEW n \in Nat, d.driver # "setup"
  PROVE  /\ Good(ResizeZone(d, z, n), sp) /\ OnlySizes(d, ResizeZone(d, z, n))
         /\ ResizeZone(d, z, n).driver = d.driver
<1>. DEFINE e == ResizeZone(d, z, n)
<1>1. d \in ControllersOver(Values(sp)) /\ d.count \in [Zones -> Nat] /\ d.driver \in Drivers
  BY Fields DEF Good
<1>2. ASSUME NEW m \in [Zones -> Nat], e = [d EXCEPT !.count = m]
      PROVE  /\ e \in ControllersOver(Values(sp)) /\ Laid(e) /\ OnlySizes(d, e)
             /\ e.effects = d.effects /\ e.part = d.part /\ e.count = m /\ e.driver = d.driver
  <2>. HIDE DEF e
  <2>1. /\ e \in ControllersOver(Values(sp)) /\ e.count = m /\ e.effects = d.effects
        /\ e.part = d.part /\ e.leds = d.leds /\ e.start = d.start /\ e.colors = d.colors
        /\ e.driver = d.driver
    BY <1>1, <1>2 DEF ControllersOver
  <2>2. Laid(e)
    BY <2>1 DEF Good, Laid
  <2>3. OnlySizes(d, e)
    BY <1>2, <2>1 DEF OnlySizes
  <2>. QED
    BY <2>1, <2>2, <2>3
<1>3. CASE d.driver = "count"
  <2>1. n % 256 \in Nat
    OBVIOUS
  <2>. DEFINE m == [d.count EXCEPT ![z] = n % 256]
  <2>2. m \in [Zones -> Nat] /\ e = [d EXCEPT !.count = m]
    BY <1>1, <1>3, <2>1 DEF ResizeZone, CountResize
  <2>. HIDE DEF e, m
  <2>3. /\ e \in ControllersOver(Values(sp)) /\ Laid(e) /\ OnlySizes(d, e)
        /\ e.effects = d.effects /\ e.driver = d.driver
    BY <1>2, <2>2
  <2>4. Sized(e)
    BY <1>3, <2>3 DEF Sized, Good
  <2>. QED
    BY <2>3, <2>4 DEF Good, e
<1>4. CASE d.driver = "fixed"
  <2>. DEFINE m == [y \in Zones |-> IF y = Addressable THEN 1 ELSE d.count[y]]
  <2>1. m \in [Zones -> Nat] /\ e = [d EXCEPT !.count = m]
    BY <1>1, <1>4 DEF ResizeZone, FixedResize
  <2>2. \A y \in Zones : m[y] = IF y = Addressable THEN 1 ELSE d.count[y]
    OBVIOUS
  <2>. HIDE DEF e, m
  <2>3. /\ e \in ControllersOver(Values(sp)) /\ Laid(e) /\ OnlySizes(d, e)
        /\ e.effects = d.effects /\ e.part = d.part /\ e.count = m /\ e.driver = d.driver
    BY <1>2, <2>1
  <2>4. d.effects = {} /\ e.effects = {}
    BY <1>4, <2>3, Kinds DEF Good, Sized
  <2>5. ASSUME NEW y \in Zones
        PROVE  Parts(e)[y] <= e.part[y]
    <3>1. Parts(d)[y] = d.count[y] /\ Parts(e)[y] = e.count[y]
      BY <2>4 DEF Parts, GetLEDsInZone
    <3>2. d.count[y] <= d.part[y] /\ d.count[y] \in Nat /\ d.part[y] \in Nat
      BY <1>1, <1>4, <3>1, Fields DEF Good, Sized
    <3>3. CASE y = Addressable
      <4>1. d.count[y] > 0
        <5>1. y # 0
          BY ZoneNumbers
        <5>. QED
          BY <1>4, <3>3, <5>1 DEF Good, Sized
      <4>2. e.count[y] = 1
        BY <2>2, <2>3, <3>3
      <4>. QED
        BY <2>3, <3>1, <3>2, <4>1, <4>2
    <3>4. CASE y # Addressable
      <4>1. e.count[y] = d.count[y]
        BY <2>2, <2>3, <3>4
      <4>. QED
        BY <2>3, <3>1, <3>2, <4>1
    <3>. QED
      BY <3>3, <3>4
  <2>6. Addressable # 0 => e.count[Addressable] > 0
    BY <2>2, <2>3, Kinds
  <2>7. Sized(e)
    BY <1>4, <2>3, <2>4, <2>5, <2>6 DEF Sized
  <2>. QED
    BY <2>3, <2>7 DEF Good, e
<1>. QED
  BY <1>1, <1>3, <1>4, Kinds

\* A driver's ResizeZone leaves the vector divided, whatever it makes of it.
LEMMA DriverResizes ==
  ASSUME NEW sp, NEW d, Good(d, sp), NEW z \in Zones, NEW n \in Nat
  PROVE  /\ Good(ResizeZone(d, z, n), sp) /\ ResizeZone(d, z, n).driver = d.driver
         /\ d.driver = "setup" /\ InRange(z, n) =>
                ResizeZone(d, z, n).count = [d.count EXCEPT ![z] = n]
         /\ d.driver # "setup" => OnlySizes(d, ResizeZone(d, z, n))
<1>1. CASE d.driver = "setup"
  <2>1. ResizeZone(d, z, n) = SetupResize(d, z, n)
    BY <1>1 DEF ResizeZone
  <2>. QED
    BY <1>1, <2>1, SetupDriver
<1>2. CASE d.driver # "setup"
  BY <1>2, SizesDrivers
<1>. QED
  BY <1>1, <1>2

\* "Force" leaves a good controller, whose zones count what they were made for.
LEMMA ForcedIsGood ==
  ASSUME NEW sp, NEW d, Good(d, sp), NEW cs \in [Zones -> Seq(Colors)]
  PROVE  /\ Good(ForceSizes(d, cs), sp)
         /\ \A z \in Zones : ForceSizes(d, cs).count[z] =
                IF cs[z] # <<>> THEN Len(cs[z]) ELSE d.count[z]
         /\ ForceSizes(d, cs).part = Parts(ForceSizes(d, cs))
<1>. DEFINE V == Values(sp)
            e == ForceSizes(d, cs)
<1>1. Black \in V /\ d \in ControllersOver(V)
  BY DEF Values, Good
<1>. HIDE DEF V
<1>2. /\ e \in ControllersOver(V) /\ Laid(e) /\ e.part = Parts(e)
      /\ \A z \in Zones : e.count[z] = IF cs[z] # <<>> THEN Len(cs[z]) ELSE d.count[z]
      /\ e.effects = d.effects \ {z \in Zones : cs[z] # <<>>} /\ e.driver = d.driver
  BY <1>1, Forced
<1>. HIDE DEF e
<1>3. e.effects \subseteq EffectsOnly /\ (e.driver # "setup" => e.effects = {})
  BY <1>2 DEF Good, Sized
<1>4. ASSUME NEW z \in Zones
      PROVE  Parts(e)[z] <= e.part[z]
  BY <1>2, PartsProperties
<1>5. ASSUME d.driver = "fixed", Addressable # 0
      PROVE  e.count[Addressable] > 0
  <2>1. Addressable \in Zones /\ d.count[Addressable] > 0
    BY <1>5, Kinds DEF Good, Sized
  <2>2. cs[Addressable] # <<>> => Len(cs[Addressable]) > 0
    <3>1. cs[Addressable] \in Seq(Colors)
      BY <2>1
    <3>. QED
      BY <3>1
  <2>. QED
    BY <1>2, <2>1, <2>2
<1>6. Sized(e)
  BY <1>2, <1>3, <1>4, <1>5 DEF Sized
<1>. QED
  BY <1>2, <1>6 DEF Good, e, V

-----------------------------------------------------------------------------
\* The controllers that the loop of ResizeZones goes through.
ResizesThrough(w, d, cs) ==
    /\ w[0] = d /\ ResizeZones(d, cs) = w[N]
    /\ \A n \in Zones : w[n] = Resized(w[n - 1], n, cs)

\* Good controllers that d may become when drivers resize it.
Become(d, sp) ==
    {e \in ControllersOver(Values(sp)) :
        /\ Good(e, sp) /\ e.driver = d.driver
        /\ d.driver # "setup" => OnlySizes(d, e)}

\* Any change of sizes after another is one.
LEMMA OnlySizesAgain ==
  ASSUME NEW V, NEW d \in ControllersOver(V), NEW e, NEW f, OnlySizes(d, e), OnlySizes(e, f)
  PROVE  OnlySizes(d, f)
BY DEF OnlySizes, ControllersOver

\* A controller has only its own sizes.
LEMMA OnlyOwnSizes ==
  ASSUME NEW V, NEW d \in ControllersOver(V)
  PROVE  OnlySizes(d, d)
BY DEF OnlySizes, ControllersOver

\* One turn of ResizeZones' loop.
LEMMA ResizedOne ==
  ASSUME NEW sp, NEW d \in ControllersOver(Values(sp)), NEW e \in Become(d, sp), NEW z \in Zones,
         NEW cs \in [Zones -> Seq(Colors)]
  PROVE  Resized(e, z, cs) \in Become(d, sp)
<1>1. /\ Good(e, sp) /\ e.driver = d.driver /\ (d.driver # "setup" => OnlySizes(d, e))
      /\ Len(cs[z]) \in Nat
  <2>1. Good(e, sp) /\ e.driver = d.driver /\ (d.driver # "setup" => OnlySizes(d, e))
    BY DEF Become
  <2>2. cs[z] \in Seq(Colors)
    OBVIOUS
  <2>. QED
    BY <2>1, <2>2, LenProperties
<1>. DEFINE n == Len(cs[z])
            f == ResizeZone(e, z, n)
<1>2. Good(f, sp) /\ f.driver = e.driver /\ (e.driver # "setup" => OnlySizes(e, f))
  <2>1. Good(e, sp) /\ n \in Nat
    BY <1>1
  <2>. HIDE DEF n
  <2>2. ASSUME NEW x, Good(x, sp)
        PROVE  /\ Good(ResizeZone(x, z, n), sp) /\ ResizeZone(x, z, n).driver = x.driver
               /\ x.driver = "setup" /\ InRange(z, n) =>
                      ResizeZone(x, z, n).count = [x.count EXCEPT ![z] = n]
               /\ x.driver # "setup" => OnlySizes(x, ResizeZone(x, z, n))
    BY <2>1, <2>2, DriverResizes
  <2>. QED
    BY <2>1, <2>2
<1>3. Resized(e, z, cs) = e \/ Resized(e, z, cs) = f
  BY DEF Resized
<1>. HIDE DEF f
<1>4. f \in Become(d, sp)
  <2>1. d.driver # "setup" => OnlySizes(d, f)
    BY <1>1, <1>2, OnlySizesAgain
  <2>. QED
    BY <1>1, <1>2, <2>1 DEF Become, Good
<1>. QED
  BY <1>3, <1>4

\* The loop of ResizeZones ends.
LEMMA Resizing ==
  ASSUME NEW sp, NEW d, Good(d, sp), NEW cs \in [Zones -> Seq(Colors)]
  PROVE  \E w \in [0..N -> Become(d, sp)] : ResizesThrough(w, d, cs)
<1>. DEFINE S == Become(d, sp)
            g == [n \in Zones |-> [e \in S |-> Resized(e, n, cs)]]
            R(f) == f = [n \in 0..Len(leds_min) |->
                            IF n = 0 THEN d ELSE Resized(f[n - 1], n, cs)]
            resized == CHOOSE f : R(f)
<1>0. d \in ControllersOver(Values(sp))
  BY DEF Good
<1>1. g \in [Zones -> [S -> S]]
  BY <1>0, ResizedOne
<1>2. \A n \in Zones, e \in S : g[n][e] = Resized(e, n, cs)
  OBVIOUS
<1>3. ASSUME NEW n \in Zones
      PROVE  n \in 0..N /\ n # 0 /\ n - 1 \in 0..N
  BY ZoneNumbers
<1>d. d \in S
  BY <1>0, OnlyOwnSizes DEF Become
<1>4. \E f : R(f)
  <2>. HIDE DEF g, S
  <2>2. PICK w \in [0..N -> S] : Iterates(w, d, g)
    BY <1>1, <1>d, Iteration
  <2>3. ASSUME NEW n \in 0..N
        PROVE  w[n] = IF n = 0 THEN d ELSE Resized(w[n - 1], n, cs)
    <3>1. CASE n = 0
      BY <2>2, <3>1 DEF Iterates
    <3>2. CASE n # 0
      <4>1. n \in Zones
        BY <3>2, ZoneNumbers
      <4>2. w[n] = g[n][w[n - 1]] /\ w[n - 1] \in S
        BY <1>3, <2>2, <4>1 DEF Iterates
      <4>. QED
        BY <1>2, <3>2, <4>1, <4>2
    <3>. QED
      BY <3>1, <3>2
  <2>4. w = [n \in 0..N |-> IF n = 0 THEN d ELSE Resized(w[n - 1], n, cs)]
    BY <2>2, <2>3
  <2>5. R(w)
    BY <2>4 DEF N
  <2>. QED
    BY <2>5
<1>5. R(resized)
  BY <1>4
<1>6. ResizeZones(d, cs) = resized[N]
  BY DEF ResizeZones, N
<1>7. resized = [n \in 0..N |-> IF n = 0 THEN d ELSE Resized(resized[n - 1], n, cs)]
  BY <1>5 DEF N
<1>. HIDE DEF R, resized, g, S
<1>8. resized[0] = d
  <2>1. 0 \in 0..N
    BY ZoneNumbers
  <2>. QED
    BY <1>7, <2>1
<1>9. ASSUME NEW n \in Zones
      PROVE  resized[n] = Resized(resized[n - 1], n, cs)
  BY <1>3, <1>7
<1>10. resized \in [0..N -> S]
  <2>. DEFINE T == {n \in 0..N : resized[n] \in S}
  <2>1. 0 \in T
    BY <1>8, <1>d, ZoneNumbers
  <2>2. ASSUME NEW n \in Zones, n - 1 \in T
        PROVE  n \in T
    <3>1. resized[n - 1] \in S
      BY <2>2
    <3>2. Resized(resized[n - 1], n, cs) \in S
      BY <1>0, <3>1, ResizedOne DEF S
    <3>. QED
      BY <1>3, <1>9, <3>2
  <2>. HIDE DEF T
  <2>3. 0..N \subseteq T
    BY <2>1, <2>2, ZoneInduction
  <2>4. \A n \in 0..N : resized[n] \in S
    BY <2>3 DEF T
  <2>. QED
    BY <1>7, <2>4
<1>. QED
  BY <1>6, <1>8, <1>9, <1>10 DEF S, ResizesThrough

\* What the loop leaves: a driver that sets up its zones gives every zone of a
\* request that fits the size it sends; the others change sizes at most.
LEMMA ResizeAll ==
  ASSUME NEW sp, NEW d, Good(d, sp), NEW cs \in [Zones -> Seq(Colors)]
  PROVE  /\ Good(ResizeZones(d, cs), sp)
         /\ d.driver # "setup" => OnlySizes(d, ResizeZones(d, cs))
         /\ d.driver = "setup" /\ Fits(d, cs) =>
                \A z \in Zones : ResizeZones(d, cs).count[z] = Len(cs[z])
<1>. PICK w \in [0..N -> Become(d, sp)] : ResizesThrough(w, d, cs)
  BY Resizing
<1>1. /\ w[0] = d /\ ResizeZones(d, cs) = w[N]
      /\ \A n \in Zones : w[n] = Resized(w[n - 1], n, cs)
  BY DEF ResizesThrough
<1>2. ASSUME NEW n \in Zones
      PROVE  n \in 0..N /\ n - 1 \in 0..N /\ n \in Nat /\ 1..(n - 1) \subseteq Zones
  BY ZoneNumbers
<1>3. N \in 0..N /\ \A z \in Zones : z <= N
  BY ZoneNumbers
<1>4. ASSUME d.driver = "setup", Fits(d, cs)
      PROVE  \A z \in Zones : w[N].count[z] = Len(cs[z])
  <2>. DEFINE Done(n) == \A z \in Zones : w[n].count[z] = IF z <= n THEN Len(cs[z]) ELSE d.count[z]
              T == {n \in 0..N : Done(n)}
  <2>1. 0 \in T
    BY <1>1, <1>2, ZoneNumbers
  <2>2. ASSUME NEW n \in Zones, n - 1 \in T
        PROVE  n \in T
    <3>. DEFINE e == w[n - 1]
                m == Len(cs[n])
    <3>1. Good(e, sp) /\ e.count \in [Zones -> Nat] /\ m \in Nat /\ e.driver = d.driver
      <4>1. e \in Become(d, sp) /\ cs[n] \in Seq(Colors)
        BY <1>2
      <4>. HIDE DEF e
      <4>2. Good(e, sp) /\ e.driver = d.driver /\ e \in ControllersOver(Values(sp))
        BY <4>1 DEF Become
      <4>3. m \in Nat
        BY <4>1, LenProperties
      <4>. QED
        BY <4>2, <4>3, Fields
    <3>2. e.count[n] = d.count[n]
      BY <1>2, <2>2
    <3>3. \A y \in 1..(n - 1) : e.count[y] = Len(cs[y])
      BY <1>2, <2>2
    <3>4. w[n] = IF m = e.count[n] THEN e ELSE ResizeZone(e, n, m)
      <4>1. w[n] = Resized(e, n, cs)
        BY <1>1
      <4>. QED
        BY <3>3, <4>1 DEF Resized
    <3>5. InRange(n, m) \/ m = e.count[n]
      BY <1>4, <3>2 DEF Fits
    <3>. HIDE DEF e, m
    <3>6. w[n].count = [e.count EXCEPT ![n] = m]
      <4>1. CASE m = e.count[n]
        BY <3>1, <3>4, <4>1
      <4>2. CASE m # e.count[n]
        BY <1>4, <3>1, <3>4, <3>5, <4>2, DriverResizes
      <4>. QED
        BY <4>1, <4>2
    <3>7. ASSUME NEW z \in Zones
          PROVE  w[n].count[z] = IF z <= n THEN Len(cs[z]) ELSE d.count[z]
      <4>1. CASE z = n
        BY <1>2, <3>1, <3>6, <4>1 DEF m
      <4>2. CASE z # n
        <5>1. w[n].count[z] = e.count[z]
          BY <3>1, <3>6, <4>2
        <5>2. z <= n <=> z <= n - 1
          <6>1. z \in Nat /\ n \in Nat
            BY <1>2
          <6>. QED
            BY <4>2, <6>1
        <5>. QED
          BY <2>2, <5>1, <5>2 DEF e
      <4>. QED
        BY <4>1, <4>2
    <3>. QED
      BY <1>2, <3>7
  <2>. HIDE DEF T
  <2>3. N \in T
    BY <1>3, <2>1, <2>2, ZoneInduction
  <2>4. Done(N)
    BY <2>3 DEF T
  <2>. QED
    BY <1>3, <2>4
<1>5. w[N] \in Become(d, sp)
  BY <1>3
<1>6. Good(w[N], sp) /\ (d.driver # "setup" => OnlySizes(d, w[N]))
  <2>. DEFINE e == w[N]
  <2>. HIDE DEF e
  <2>1. e \in Become(d, sp)
    BY <1>5 DEF e
  <2>2. Good(e, sp) /\ (d.driver # "setup" => OnlySizes(d, e))
    BY <2>1 DEF Become
  <2>. QED
    BY <2>2 DEF e
<1>. QED
  BY <1>1, <1>4, <1>6

-----------------------------------------------------------------------------
\* Loops over no more than the LEDs that the zones count leave a part only for
\* zones for effects and zones that outgrew theirs.
LEMMA SpillsAre ==
  ASSUME NEW sp, NEW d, Good(d, sp), NEW W, NEW cs \in [Zones -> Seq(W)],
         \A z \in Zones : Len(cs[z]) <= d.count[z]
  PROVE  /\ Spills(d, cs) \subseteq EffectsOnly \cup Outgrown(d)
         /\ Spills(d, cs) = {} => \A z \in Zones : Len(cs[z]) <= d.part[z]
<1>1. ASSUME NEW z \in Zones
      PROVE  /\ Parts(d)[z] = GetLEDsInZone(d, z) /\ Parts(d)[z] \in Nat /\ d.count[z] \in Nat
             /\ Len(cs[z]) \in Nat /\ Len(cs[z]) <= d.count[z] /\ d.part[z] \in Nat
             /\ Parts(d)[z] # d.count[z] => z \in d.effects
  BY PartsProperties, Fields DEF Good
<1>2. ASSUME NEW z \in Spills(d, cs), z \notin EffectsOnly
      PROVE  z \in Outgrown(d)
  <2>1. z \in Zones /\ Len(cs[z]) > d.part[z]
    BY DEF Spills
  <2>2. Parts(d)[z] = d.count[z]
    BY <1>1, <1>2, <2>1 DEF Good, Sized
  <2>3. Parts(d)[z] > d.part[z]
    BY <1>1, <2>1, <2>2
  <2>4. d.driver # "setup" /\ d.driver # "fixed"
    <3>1. d.driver = "setup" => Parts(d)[z] = d.part[z]
      BY DEF Good, Sized
    <3>2. d.driver = "fixed" => Parts(d)[z] <= d.part[z]
      BY <2>1 DEF Good, Sized
    <3>. QED
      BY <1>1, <2>1, <2>3, <3>1, <3>2
  <2>. QED
    <3>1. d.driver = "count"
      BY <2>4, Fields, Kinds DEF Good
    <3>. QED
      BY <1>1, <2>1, <2>3, <3>1 DEF Outgrown
<1>3. ASSUME Spills(d, cs) = {}, NEW z \in Zones
      PROVE  Len(cs[z]) <= d.part[z]
  <2>1. ~(Len(cs[z]) > d.part[z])
    BY <1>3 DEF Spills
  <2>. QED
    BY <1>1, <2>1
<1>. QED
  BY <1>2, <1>3

\* Where nothing spills, a zone that gets a color for each LED it counts owns
\* all of them.
LEMMA CountedIsOwned ==
  ASSUME NEW sp, NEW d, Good(d, sp), NEW z \in Zones, d.count[z] <= d.part[z]
  PROVE  d.count[z] = Parts(d)[z]
<1>1. d.count[z] \in Nat /\ Parts(d)[z] \in Nat /\ Parts(d)[z] <= d.count[z]
      /\ (Parts(d)[z] # d.count[z] => z \in d.effects)
  BY PartsProperties, Fields DEF Good
<1>2. CASE d.driver = "setup"
  BY <1>1, <1>2 DEF Good, Sized
<1>3. CASE d.driver # "setup"
  BY <1>1, <1>3, Kinds DEF Good, Sized
<1>. QED
  BY <1>2, <1>3

\* Outgrowing a part is a matter of sizes.
LEMMA OutgrownKept ==
  ASSUME NEW d, NEW e, SameLayout(d, e)
  PROVE  Outgrown(e) = Outgrown(d)
<1>1. /\ e.driver = d.driver /\ e.part = d.part
      /\ \A z \in Zones : GetLEDsInZone(e, z) = GetLEDsInZone(d, z)
  BY SameParts DEF SameLayout
<1>. QED
  BY <1>1 DEF Outgrown

-----------------------------------------------------------------------------
\* The inductive invariant.
IInv ==
    /\ Good(dev, spilled)
    /\ spilled \subseteq Zones /\ reply \in {"none", "success", "error", "crash"}
    /\ request.colors \in [Zones -> Seq(Colors)]
    /\ reply = "success" /\ spilled = {} => Shows(dev, request.colors)

\* What the action property says of a step.
Stays == spilled' \subseteq spilled \cup EffectsOnly \cup Outgrown(dev) \cup Outgrown(dev')

\* A request without colors for zones shows what it sent.
LEMMA NothingNamed ==
  /\ NoColors \in [Zones -> Seq(Colors)] /\ \A d : Shows(d, NoColors)
  /\ \A z \in Zones : NoColors[z] = <<>>
<1>1. <<>> \in Seq(Colors)
  BY EmptySeq
<1>2. NoColors \in [Zones -> Seq(Colors)] /\ \A z \in Zones : NoColors[z] = <<>>
  BY <1>1 DEF NoColors
<1>. QED
  BY <1>2 DEF Shows

\* What is sent are sequences of colors.
LEMMA SentIsSeq == Sent \subseteq Seq(Colors)
<1>1. SUFFICES ASSUME NEW s \in Sent
               PROVE  s \in Seq(Colors)
  OBVIOUS
<1>2. PICK m \in 0..MaxSent : s \in [1..m -> Colors]
  BY DEF Sent, BoundedSeq, SeqOf
<1>3. m \in Nat
  BY <1>2, ZonesAssumption
<1>. QED
  BY <1>2, <1>3, Tabulated

\* Other colors in the same number of places.
LEMMA Recolored ==
  ASSUME NEW V, NEW d \in ControllersOver(V), NEW f, f \in [1..Len(d.colors) -> V]
  PROVE  LET e == [d EXCEPT !.colors = f]
         IN  e \in ControllersOver(V) /\ SameLayout(d, e)
<1>1. Len(d.colors) \in Nat
  BY Fields
<1>2. f \in Seq(V) /\ Len(f) = Len(d.colors)
  BY <1>1, Tabulated
<1>. QED
  BY <1>2 DEF ControllersOver, SameLayout

\* The zones for effects that a kind of driver knows.
Flagged(k) == IF k = "setup" THEN EffectsOnly ELSE {}

\* A controller of any sizes within the limits, before SetupZones.
LEMMA Unsets ==
  ASSUME NEW k \in Drivers, NEW c \in [Zones -> Nat]
  PROVE  /\ Unset(k, c) \in ControllersOver(Values({})) /\ Unset(k, c).count = c
         /\ Unset(k, c).effects = Flagged(k) /\ Unset(k, c).driver = k
<1>. DEFINE V == Values({})
<1>1. <<>> \in Seq(V)
  BY EmptySeq
<1>2. LastResizable \in {0} \cup Zones
  BY ZonesAssumption DEF Zones
<1>3. Flagged(k) \subseteq Zones
  BY Kinds DEF Flagged
<1>. HIDE DEF V
<1>4. /\ Unset(k, c) \in ControllersOver(V) /\ Unset(k, c).count = c
      /\ Unset(k, c).effects = Flagged(k) /\ Unset(k, c).driver = k
  BY <1>1, <1>2, <1>3 DEF ControllersOver, Unset, Flagged
<1>. QED
  BY <1>4 DEF V

\* The sizes that devices start with.
LEMMA SizesInRange ==
  /\ leds_min \in [Zones -> Nat]
  /\ \A k : \A c \in Sizes(k) : c \in [Zones -> Nat] /\ \A z \in Zones : leds_min[z] <= c[z]
<1>1. leds_min \in [Zones -> Nat] /\ leds_max \in [Zones -> Nat]
  BY ZonesAssumption DEF Zones
<1>2. UNION {leds_min[z]..leds_max[z] : z \in Zones} \subseteq Nat
  BY <1>1
<1>3. ASSUME NEW k, NEW c \in Sizes(k)
      PROVE  c \in [Zones -> Nat] /\ \A z \in Zones : leds_min[z] <= c[z]
  BY <1>2 DEF Sizes, InRange
<1>. QED
  BY <1>1, <1>3

\* A controller that was just set up is as requests leave it.
LEMMA SetUpIsGood ==
  ASSUME NEW k \in Drivers, NEW c \in [Zones -> Nat],
         k = "fixed" /\ Addressable # 0 => c[Addressable] > 0
  PROVE  LET e == SetupZones(Unset(k, c))
         IN  Good(e, {}) /\ Parts(e) = e.part /\ e.count = c /\ e.effects = Flagged(k)
<1>. DEFINE V == Values({})
            d == Unset(k, c)
            e == SetupZones(d)
<1>1. Black \in V
  BY DEF Values
<1>2. d \in ControllersOver(V) /\ d.count = c /\ d.effects = Flagged(k) /\ d.driver = k
  BY Unsets
<1>. HIDE DEF V, d
<1>3. /\ e \in ControllersOver(V) /\ Laid(e) /\ e.count = c /\ e.effects = Flagged(k)
      /\ e.driver = k /\ e.part = Parts(d) /\ Parts(e) = Parts(d)
  BY <1>1, <1>2, ZonesSetUp
<1>. HIDE DEF e
<1>4. \A z \in Zones : Parts(e)[z] <= e.part[z]
  BY <1>3, PartsProperties
<1>5. Sized(e)
  BY <1>3, <1>4 DEF Sized, Flagged
<1>. QED
  BY <1>3, <1>5 DEF Good, V, d, e

\* The invariant holds initially.
LEMMA Starts == Init => IInv
<1>. SUFFICES ASSUME Init
              PROVE  IInv
  OBVIOUS
<1>1. spilled = {} /\ request.colors = NoColors /\ reply = "none"
  BY DEF Init, Request
<1>2. PICK k \in Drivers :
          \/ k = "setup" /\ dev = SetupZones(Unset(k, leds_min))
          \/ /\ k # "setup"
             /\ \E c \in Sizes(k) : \E s \in [1..TotalLEDs(c) -> Colors \cup {Black}] :
                   dev = [SetupZones(Unset(k, c)) EXCEPT !.colors = s]
  BY DEF Init
<1>3. CASE k = "setup" /\ dev = SetupZones(Unset(k, leds_min))
  <2>1. Good(dev, {})
    BY <1>3, SizesInRange, SetUpIsGood
  <2>. QED
    BY <1>1, <2>1, NothingNamed DEF IInv
<1>4. ASSUME k # "setup", NEW c \in Sizes(k), NEW s \in [1..TotalLEDs(c) -> Colors \cup {Black}],
             dev = [SetupZones(Unset(k, c)) EXCEPT !.colors = s]
      PROVE  IInv
  <2>. DEFINE d == SetupZones(Unset(k, c))
              V == Values({})
  <2>1. c \in [Zones -> Nat] /\ (k = "fixed" /\ Addressable # 0 => c[Addressable] > 0)
    <3>1. c \in [Zones -> Nat] /\ \A z \in Zones : leds_min[z] <= c[z] /\ leds_min[z] \in Nat
      BY SizesInRange
    <3>2. Addressable # 0 => leds_min[Addressable] > 0 /\ Addressable \in Zones
      BY ZonesAssumption, Kinds
    <3>. QED
      BY <3>1, <3>2
  <2>2. /\ Good(d, {}) /\ Parts(d) = d.part /\ d.count = c /\ d.effects = {}
    BY <1>4, <2>1, SetUpIsGood DEF Flagged
  <2>. HIDE DEF d
  <2>3. Parts(d) = c
    <3>1. \A z \in Zones : GetLEDsInZone(d, z) = c[z]
      BY <2>2 DEF GetLEDsInZone
    <3>. QED
      BY <2>1, <3>1 DEF Parts
  <2>4. d \in ControllersOver(V) /\ Laid(d) /\ Len(d.colors) = TotalLEDs(c)
    BY <2>2, <2>3 DEF Good, Laid
  <2>5. s \in [1..Len(d.colors) -> V]
    BY <2>4 DEF Values
  <2>6. dev = [d EXCEPT !.colors = s]
    BY <1>4 DEF d
  <2>. HIDE DEF V
  <2>7. dev \in ControllersOver(V) /\ SameLayout(d, dev)
    BY <2>4, <2>5, <2>6, Recolored
  <2>8. Good(dev, {})
    BY <2>2, <2>7, GoodKept DEF V
  <2>. QED
    BY <1>1, <2>8, NothingNamed DEF IInv
<1>. QED
  BY <1>2, <1>3, <1>4

\* A request that is rejected keeps the invariant.
LEMMA Rejects ==
  ASSUME IInv, NEW op, NEW cs \in [Zones -> Seq(Colors)], Reject(Request(op, cs))
  PROVE  IInv' /\ Stays
<1>1. /\ dev' = dev /\ spilled' = spilled /\ reply' = "error"
      /\ request'.colors = cs
  BY DEF Reject, Answer, Request
<1>. QED
  BY <1>1 DEF IInv, Stays

\* So does one that shows nothing, because the driver resized no more than some
\* zones, or because it names no zone for its colors.
LEMMA ShowsNothing ==
  ASSUME IInv, NEW op, NEW result \in {"success", "error"}, NEW cs \in [Zones -> Seq(Colors)],
         Answer(result, Request(op, cs)), Good(dev', spilled), spilled' = spilled,
         result = "success" => cs = NoColors
  PROVE  IInv' /\ Stays
<1>1. reply' = result /\ request'.colors = cs
  BY DEF Answer, Request
<1>2. IInv'
  BY <1>1, NothingNamed DEF IInv
<1>. QED
  BY <1>2 DEF Stays

\* The colors of a request are written to zones that count, or own, as many LEDs.
LEMMA ShowStep ==
  ASSUME IInv, NEW op, NEW cs \in [Zones -> Seq(Colors)], NEW d, Good(d, spilled),
         Show(d, cs, Request(op, cs)),
         \A z \in Zones : cs[z] = <<>> \/ Len(cs[z]) = d.count[z] \/ Len(cs[z]) = Parts(d)[z]
  PROVE  IInv' /\ Stays
<1>. DEFINE W == Values(spilled')
<1>1. /\ dev' = WriteZones(d, cs) /\ spilled' = spilled \cup Spills(d, cs)
      /\ reply' \in {"success", "crash"} /\ request'.colors = cs
  BY DEF Show, Answer, Request
<1>2. Good(d, spilled')
  BY <1>1, GoodGrows
<1>3. d \in ControllersOver(W) /\ Laid(d)
  BY <1>2 DEF Good
<1>4. cs \in [Zones -> Seq(W)]
  BY ValuesGrow, Widen
<1>. HIDE DEF W
<1>5. dev' \in ControllersOver(W) /\ SameLayout(d, dev')
  BY <1>1, <1>3, <1>4, WriteAll
<1>6. Good(dev', spilled')
  BY <1>2, <1>5, GoodKept DEF W
<1>7. ASSUME NEW z \in Zones
      PROVE  /\ Len(cs[z]) \in Nat /\ d.count[z] \in Nat /\ Parts(d)[z] \in Nat
             /\ Parts(d)[z] <= d.count[z] /\ Len(cs[z]) <= d.count[z]
  <2>1. Len(cs[z]) \in Nat /\ d.count[z] \in Nat /\ Parts(d)[z] \in Nat /\ Parts(d)[z] <= d.count[z]
    BY <1>3, Fields, PartsProperties
  <2>2. cs[z] = <<>> => Len(cs[z]) = 0
    BY EmptySeq
  <2>. QED
    BY <2>1, <2>2
<1>8. /\ Spills(d, cs) \subseteq EffectsOnly \cup Outgrown(d)
      /\ Spills(d, cs) = {} => \A z \in Zones : Len(cs[z]) <= d.part[z]
  BY <1>2, <1>7, SpillsAre
<1>9. Stays
  BY <1>1, <1>5, <1>8, OutgrownKept DEF Stays
<1>10. ASSUME spilled' = {}
       PROVE  Shows(dev', cs)
  <2>1. \A z \in Zones : Len(cs[z]) <= d.part[z]
    BY <1>1, <1>8, <1>10
  <2>2. ASSUME NEW z \in Zones, cs[z] # <<>>
        PROVE  Len(cs[z]) = Parts(d)[z] /\ Len(cs[z]) <= d.part[z]
    <3>1. CASE Len(cs[z]) = d.count[z]
      BY <1>2, <2>1, <3>1, CountedIsOwned
    <3>2. CASE Len(cs[z]) = Parts(d)[z]
      BY <2>1, <3>2
    <3>. QED
      BY <2>2, <3>1, <3>2
  <2>. QED
    BY <1>1, <1>3, <1>4, <2>2, WriteShows
<1>11. spilled' \subseteq Zones
  BY <1>1 DEF IInv, Spills
<1>12. IInv'
  BY <1>1, <1>6, <1>10, <1>11 DEF IInv
<1>. QED
  BY <1>9, <1>12

-----------------------------------------------------------------------------
\* One LED.
LEMMA LEDStep ==
  ASSUME IInv, NEW l \in 0..dev.leds, NEW c \in Colors, SetLEDColor(l, c)
  PROVE  IInv' /\ Stays
<1>. DEFINE f == [i \in DOMAIN dev.colors |-> IF i = l + 1 THEN c ELSE dev.colors[i]]
            V == Values(spilled)
<1>1. CASE l >= dev.leds
  <2>1. Reject(Request("led", NoColors))
    BY <1>1 DEF SetLEDColor
  <2>. QED
    BY <2>1, NothingNamed, Rejects
<1>2. CASE ~(l >= dev.leds)
  <2>1. /\ Answer("success", Request("led", NoColors)) /\ spilled' = spilled
        /\ dev' = [dev EXCEPT !.colors = f]
    BY <1>2 DEF SetLEDColor
  <2>2. dev \in ControllersOver(V) /\ Good(dev, spilled)
    BY DEF IInv, Good
  <2>3. Colors \subseteq V
    BY ValuesGrow
  <2>4. DOMAIN dev.colors = 1..Len(dev.colors) /\ \A i \in 1..Len(dev.colors) : dev.colors[i] \in V
    <3>. HIDE DEF V
    <3>. QED
      BY <2>2, Fields
  <2>5. f \in [1..Len(dev.colors) -> V]
    <3>. HIDE DEF V
    <3>. QED
      BY <2>3, <2>4
  <2>. HIDE DEF f
  <2>6. dev' \in ControllersOver(V) /\ SameLayout(dev, dev')
    BY <2>1, <2>2, <2>5, Recolored
  <2>7. Good(dev', spilled)
    BY <2>2, <2>6, GoodKept
  <2>. QED
    BY <2>1, <2>7, NothingNamed, ShowsNothing
<1>. QED
  BY <1>1, <1>2

\* Several LEDs.
LEMMA LEDsStep ==
  ASSUME IInv, NEW L \in SUBSET (0..dev.leds), NEW items \in [L -> Colors], SetMultipleColors(items)
  PROVE  IInv' /\ Stays
<1>. DEFINE f == [i \in DOMAIN dev.colors |->
                    IF i - 1 \in DOMAIN items /\ i <= dev.leds THEN items[i - 1] ELSE dev.colors[i]]
            V == Values(spilled)
<1>1. /\ Answer("success", Request("leds", NoColors)) /\ spilled' = spilled
      /\ dev' = [dev EXCEPT !.colors = f]
  BY DEF SetMultipleColors
<1>2. dev \in ControllersOver(V) /\ Good(dev, spilled)
  BY DEF IInv, Good
<1>3. \A j \in DOMAIN items : items[j] \in V
  BY ValuesGrow
<1>4. DOMAIN dev.colors = 1..Len(dev.colors) /\ \A i \in 1..Len(dev.colors) : dev.colors[i] \in V
  <2>. HIDE DEF V
  <2>. QED
    BY <1>2, Fields
<1>5. f \in [1..Len(dev.colors) -> V]
  <2>. HIDE DEF V
  <2>. QED
    BY <1>3, <1>4
<1>. HIDE DEF f
<1>6. dev' \in ControllersOver(V) /\ SameLayout(dev, dev')
  BY <1>1, <1>2, <1>5, Recolored
<1>7. Good(dev', spilled)
  BY <1>2, <1>6, GoodKept
<1>. QED
  BY <1>1, <1>7, NothingNamed, ShowsNothing

\* What one zone is sent, the others nothing.
LEMMA OneNamed ==
  ASSUME NEW z \in Zones, NEW s \in Seq(Colors)
  PROVE  LET cs == [NoColors EXCEPT ![z] = s]
         IN  /\ cs \in [Zones -> Seq(Colors)] /\ cs[z] = s
             /\ \A y \in Zones : y # z => cs[y] = <<>>
<1>1. NoColors \in [Zones -> Seq(Colors)] /\ \A y \in Zones : NoColors[y] = <<>>
  BY NothingNamed
<1>. QED
  BY <1>1

\* One zone in one color.
LEMMA ZoneStep ==
  ASSUME IInv, NEW z \in Zones, NEW c \in Colors, SetZoneColor(z, c)
  PROVE  IInv' /\ Stays
<1>. DEFINE s == Fill(dev, z, c)
            cs == [NoColors EXCEPT ![z] = s]
            V == Values(spilled)
<1>1. Show(dev, cs, Request("fill", cs))
  BY DEF SetZoneColor
<1>2. dev \in ControllersOver(V) /\ Good(dev, spilled)
  BY DEF IInv, Good
<1>. HIDE DEF V
<1>3. s \in Seq(Colors) /\ Len(s) = Parts(dev)[z]
  BY <1>2, Fills
<1>. HIDE DEF s
<1>4. /\ cs \in [Zones -> Seq(Colors)] /\ cs[z] = s
      /\ \A y \in Zones : y # z => cs[y] = <<>>
  BY <1>3, OneNamed
<1>. HIDE DEF cs
<1>5. \A y \in Zones : cs[y] = <<>> \/ Len(cs[y]) = dev.count[y] \/ Len(cs[y]) = Parts(dev)[y]
  BY <1>3, <1>4
<1>. QED
  BY <1>1, <1>2, <1>4, <1>5, ShowStep

\* All zones in one color.
LEMMA AllStep ==
  ASSUME IInv, NEW c \in Colors, SetAllColors(c)
  PROVE  IInv' /\ Stays
<1>. DEFINE cs == [z \in Zones |-> Fill(dev, z, c)]
            V == Values(spilled)
<1>1. Show(dev, cs, Request("fill", cs))
  BY DEF SetAllColors
<1>2. dev \in ControllersOver(V) /\ Good(dev, spilled)
  BY DEF IInv, Good
<1>. HIDE DEF V
<1>3. cs \in [Zones -> Seq(Colors)] /\ \A z \in Zones : Len(cs[z]) = Parts(dev)[z]
  BY <1>2, Fills
<1>. HIDE DEF cs
<1>. QED
  BY <1>1, <1>2, <1>3, ShowStep

\* Colors for one zone: as it is, forced, rejected or resized.
LEMMA ZoneLEDsStep ==
  ASSUME IInv, NEW z \in Zones, NEW s \in Sent, NEW force \in BOOLEAN,
         SetZoneMultipleLed(z, s, force)
  PROVE  IInv' /\ Stays
<1>. DEFINE cs == [NoColors EXCEPT ![z] = s]
            r == Request("zone", cs)
            e == ForceSizes(dev, cs)
            d == ResizeZone(dev, z, Len(s))
<1>1. s \in Seq(Colors) /\ Len(s) \in Nat
  BY SentIsSeq
<1>2. /\ cs \in [Zones -> Seq(Colors)] /\ cs[z] = s
      /\ \A y \in Zones : y # z => cs[y] = <<>>
  BY <1>1, OneNamed
<1>3. Good(dev, spilled)
  BY DEF IInv
<1>4. /\ s # <<>>
      /\ \/ Len(s) = dev.count[z] /\ Show(dev, cs, r)
         \/ Show(e, cs, r)
         \/ Reject(r)
         \/ Obeyed(d, cs) /\ Show(d, cs, r)
         \/ dev' = d /\ Answer("error", r) /\ UNCHANGED spilled
  BY DEF SetZoneMultipleLed
<1>. HIDE DEF cs
<1>5. ASSUME NEW f, Good(f, spilled), f.count[z] = Len(s), Show(f, cs, r)
      PROVE  IInv' /\ Stays
  <2>1. \A y \in Zones : cs[y] = <<>> \/ Len(cs[y]) = f.count[y] \/ Len(cs[y]) = Parts(f)[y]
    BY <1>2, <1>5
  <2>. QED
    BY <1>2, <1>5, <2>1, ShowStep
<1>6. CASE Len(s) = dev.count[z] /\ Show(dev, cs, r)
  BY <1>3, <1>5, <1>6
<1>7. CASE Show(e, cs, r)
  <2>1. Good(e, spilled) /\ e.count[z] = Len(s)
    BY <1>2, <1>3, <1>4, ForcedIsGood
  <2>. QED
    BY <1>5, <1>7, <2>1
<1>8. CASE Reject(r)
  BY <1>2, <1>8, Rejects
<1>9. Good(d, spilled)
  BY <1>1, <1>3, DriverResizes
<1>10. CASE Obeyed(d, cs) /\ Show(d, cs, r)
  <2>1. d.count[z] = Len(s)
    BY <1>2, <1>4, <1>10 DEF Obeyed
  <2>. QED
    BY <1>5, <1>9, <1>10, <2>1
<1>11. CASE dev' = d /\ Answer("error", r) /\ UNCHANGED spilled
  BY <1>2, <1>9, <1>11, ShowsNothing
<1>. QED
  BY <1>4, <1>6, <1>7, <1>8, <1>10, <1>11

\* Colors for all zones, resized by the driver where they differ.
LEMMA ZonesLEDsStep ==
  ASSUME IInv, NEW cs \in [Zones -> Sent], SetMultipleZoneMultipleLed(cs)
  PROVE  IInv' /\ Stays
<1>. DEFINE d == ResizeZones(dev, cs)
            r == Request("zones", cs)
<1>1. cs \in [Zones -> Seq(Colors)] /\ Good(dev, spilled)
  BY SentIsSeq DEF IInv
<1>2. Good(d, spilled)
  BY <1>1, ResizeAll
<1>. HIDE DEF d
<1>3. CASE Reject(r)
  BY <1>1, <1>3, Rejects
<1>4. CASE Obeyed(d, cs) /\ Show(d, cs, r)
  <2>1. \A z \in Zones : cs[z] = <<>> \/ Len(cs[z]) = d.count[z] \/ Len(cs[z]) = Parts(d)[z]
    BY <1>4 DEF Obeyed
  <2>. QED
    BY <1>1, <1>2, <1>4, <2>1, ShowStep
<1>5. CASE dev' = d /\ Answer("error", r) /\ UNCHANGED spilled
  BY <1>1, <1>2, <1>5, ShowsNothing
<1>. QED
  BY <1>3, <1>4, <1>5 DEF SetMultipleZoneMultipleLed, d

\* A resize without colors.
LEMMA ResizeStep ==
  ASSUME IInv, NEW z \in Zones, NEW n \in 0..MaxSent, Resize(z, n)
  PROVE  IInv' /\ Stays
<1>1. CASE Reject(Request("resize", NoColors))
  BY <1>1, NothingNamed, Rejects
<1>2. CASE /\ dev' = ResizeZone(dev, z, n) /\ Answer("success", Request("resize", NoColors))
           /\ spilled' = spilled
  <2>1. n \in Nat
    BY ZonesAssumption
  <2>2. Good(dev, spilled)
    BY DEF IInv
  <2>3. Good(dev', spilled)
    BY <1>2, <2>1, <2>2, DriverResizes
  <2>. QED
    BY <1>2, <2>3, NothingNamed, ShowsNothing
<1>. QED
  BY <1>1, <1>2 DEF Resize

\* A forced request: what was read before the sizes change is written to the new
\* parts, then the colors that are sent.
LEMMA ForceStep ==
  ASSUME IInv, NEW cs \in [Zones -> Sent], ForceMultipleZoneMultipleLed(cs)
  PROVE  /\ IInv' /\ Stays
         /\ spilled' = {} =>
                \A z \in Zones : cs[z] = <<>> => ReadZone(dev', z) = ReadZone(dev, z)
<1>. DEFINE d == ForceSizes(dev, cs)
            all == Saved(dev)
            back == Restored(dev, cs)
            f == WriteZones(d, back)
            V == Values(spilled)
            W == Values(spilled')
<1>1. /\ dev' = WriteZones(f, cs)
      /\ spilled' = spilled \cup Spills(dev, all) \cup Spills(d, back) \cup Spills(d, cs)
      /\ reply' \in {"success", "crash"} /\ request'.colors = cs
  BY DEF ForceMultipleZoneMultipleLed, Answer, Request
<1>2. cs \in [Zones -> Seq(Colors)]
  BY SentIsSeq
<1>3. Good(dev, spilled) /\ dev \in ControllersOver(V) /\ Laid(dev)
  BY DEF IInv, Good
<1>4. /\ Good(d, spilled) /\ d.part = Parts(d)
      /\ \A z \in Zones : d.count[z] = IF cs[z] # <<>> THEN Len(cs[z]) ELSE dev.count[z]
  <2>. HIDE DEF V
  <2>. QED
    BY <1>2, <1>3, ForcedIsGood
<1>5. d \in ControllersOver(V) /\ Laid(d)
  BY <1>4 DEF Good
<1>. HIDE DEF V, d
<1>6. ASSUME NEW z \in Zones
      PROVE  /\ dev.count[z] \in Nat /\ d.count[z] \in Nat /\ dev.part[z] \in Nat
             /\ d.part[z] \in Nat /\ Len(cs[z]) \in Nat
             /\ ReadZone(dev, z) \in Seq(V \cup {Junk}) /\ Len(ReadZone(dev, z)) = dev.count[z]
             /\ dev.count[z] <= dev.part[z] => ReadZone(dev, z) \in Seq(V)
  <2>1. dev.count[z] \in Nat /\ dev.part[z] \in Nat
    BY <1>3, Fields
  <2>2. d.count[z] \in Nat /\ d.part[z] \in Nat
    BY <1>5, Fields
  <2>3. cs[z] \in Seq(Colors) /\ Len(cs[z]) \in Nat
    <3>1. cs[z] \in Seq(Colors)
      BY <1>2
    <3>. QED
      BY <3>1, LenProperties
  <2>4. /\ ReadZone(dev, z) \in Seq(V \cup {Junk}) /\ Len(ReadZone(dev, z)) = dev.count[z]
        /\ Laid(dev) /\ dev.count[z] <= dev.part[z] => ReadZone(dev, z) \in Seq(V)
    <3>1. dev \in ControllersOver(V)
      BY <1>3
    <3>. QED
      BY <3>1, Read
  <2>. QED
    BY <1>3, <2>1, <2>2, <2>3, <2>4
<1>7. /\ all \in [Zones -> Seq(V \cup {Junk})]
      /\ \A z \in Zones : Len(all[z]) = dev.count[z]
  BY <1>6 DEF Saved
<1>8. /\ back \in [Zones -> Seq(V \cup {Junk})]
      /\ \A z \in Zones : /\ cs[z] = <<>> => back[z] = ReadZone(dev, z) /\ Len(back[z]) = dev.count[z]
                          /\ cs[z] # <<>> => back[z] = <<>> /\ Len(back[z]) = 0
  <2>1. <<>> \in Seq(V \cup {Junk}) /\ Len(<<>>) = 0
    BY EmptySeq
  <2>. QED
    BY <1>6, <2>1 DEF Restored
<1>. HIDE DEF all, back
<1>9. \A z \in Zones : /\ Len(all[z]) <= dev.count[z] /\ Len(back[z]) <= d.count[z]
                       /\ Len(cs[z]) <= d.count[z]
  BY <1>4, <1>6, <1>7, <1>8, EmptySeq
<1>10. /\ Spills(dev, all) \subseteq EffectsOnly \cup Outgrown(dev)
       /\ Spills(dev, all) = {} => \A z \in Zones : Len(all[z]) <= dev.part[z]
  BY <1>3, <1>7, <1>9, SpillsAre
<1>11. /\ Spills(d, back) \subseteq EffectsOnly \cup Outgrown(d)
       /\ Spills(d, back) = {} => \A z \in Zones : Len(back[z]) <= d.part[z]
  BY <1>4, <1>8, <1>9, SpillsAre
<1>12. /\ Spills(d, cs) \subseteq EffectsOnly \cup Outgrown(d)
       /\ Spills(d, cs) = {} => \A z \in Zones : Len(cs[z]) <= d.part[z]
  BY <1>2, <1>4, <1>9, SpillsAre
<1>13. ASSUME spilled' = {}
       PROVE  /\ spilled = {}
              /\ \A z \in Zones : /\ dev.count[z] <= dev.part[z] /\ Len(back[z]) <= d.part[z]
                                  /\ Len(cs[z]) <= d.part[z]
  <2>1. spilled = {} /\ Spills(dev, all) = {} /\ Spills(d, back) = {} /\ Spills(d, cs) = {}
    BY <1>1, <1>13
  <2>2. \A z \in Zones : Len(all[z]) <= dev.part[z]
    BY <1>10, <2>1
  <2>. QED
    BY <1>7, <1>11, <1>12, <2>1, <2>2
<1>14. back \in [Zones -> Seq(W)]
  <2>1. CASE spilled' = {}
    <3>1. \A z \in Zones : back[z] \in Seq(V)
      BY <1>6, <1>8, <1>13, <2>1, EmptySeq
    <3>2. V = W
      BY <1>13, <2>1 DEF V
    <3>. HIDE DEF W
    <3>. QED
      BY <1>8, <3>1, <3>2
  <2>2. CASE spilled' # {}
    <3>1. V \cup {Junk} \subseteq W
      BY <1>1, <2>2, ValuesGrow DEF V
    <3>. HIDE DEF W
    <3>. QED
      BY <1>8, <3>1, Widen
  <2>. QED
    BY <2>1, <2>2
<1>15. Good(d, spilled') /\ d \in ControllersOver(W) /\ Laid(d)
  BY <1>1, <1>4, GoodGrows DEF Good
<1>16. cs \in [Zones -> Seq(W)]
  <2>1. Colors \subseteq W
    BY ValuesGrow
  <2>. HIDE DEF W
  <2>. QED
    BY <1>2, <2>1, Widen
<1>. HIDE DEF W
<1>17. f \in ControllersOver(W) /\ SameLayout(d, f)
  BY <1>14, <1>15, WriteAll
<1>18. ASSUME spilled' = {}, NEW z \in Zones, NEW k \in 1..d.part[z]
       PROVE  f.colors[d.start[z] + k] =
                  IF k <= Len(back[z]) THEN back[z][k] ELSE d.colors[d.start[z] + k]
  <2>1. \A y \in Zones : Len(back[y]) <= d.part[y]
    BY <1>13, <1>18
  <2>. QED
    BY <1>14, <1>15, <2>1, WriteAll
<1>. HIDE DEF f
<1>19. /\ Laid(f) /\ f.part = d.part /\ f.start = d.start /\ f.count = d.count
       /\ Parts(f) = Parts(d)
  BY <1>15, <1>17, LaidKept, SameParts DEF SameLayout
<1>20. dev' \in ControllersOver(W) /\ SameLayout(f, dev')
  BY <1>1, <1>16, <1>17, WriteAll
<1>21. ASSUME spilled' = {}, NEW z \in Zones, NEW k \in 1..f.part[z]
       PROVE  dev'.colors[f.start[z] + k] =
                  IF k <= Len(cs[z]) THEN cs[z][k] ELSE f.colors[f.start[z] + k]
  <2>1. \A y \in Zones : Len(cs[y]) <= f.part[y]
    BY <1>13, <1>19, <1>21
  <2>. DEFINE g == WriteZones(f, cs)
  <2>2. g.colors[f.start[z] + k] =
            IF k <= Len(cs[z]) THEN cs[z][k] ELSE f.colors[f.start[z] + k]
    BY <1>16, <1>17, <1>19, <2>1, WriteAll
  <2>. QED
    BY <1>1, <2>2
<1>22. SameLayout(d, dev')
  BY <1>17, <1>20 DEF SameLayout
<1>23. Good(dev', spilled') /\ Laid(dev')
  BY <1>15, <1>20, <1>22, GoodKept DEF W, Good
<1>24. Stays
  <2>1. Outgrown(dev') = Outgrown(d)
    BY <1>22, OutgrownKept
  <2>. QED
    BY <1>1, <1>10, <1>11, <1>12, <2>1 DEF Stays
<1>25. ASSUME spilled' = {}
       PROVE  Shows(dev', cs)
  <2>1. ASSUME NEW z \in Zones, cs[z] # <<>>
        PROVE  Len(cs[z]) = Parts(f)[z] /\ Len(cs[z]) <= f.part[z]
    <3>1. d.count[z] = Len(cs[z]) /\ Len(cs[z]) <= d.part[z]
      BY <1>4, <1>13, <1>25, <2>1
    <3>2. d.count[z] = Parts(d)[z]
      BY <1>4, <3>1, CountedIsOwned
    <3>. QED
      BY <1>19, <3>1, <3>2
  <2>2. Shows(WriteZones(f, cs), cs)
    BY <1>16, <1>17, <1>19, <2>1, WriteShows
  <2>. QED
    BY <1>1, <2>2
<1>26. ASSUME spilled' = {}, NEW z \in Zones, cs[z] = <<>>
       PROVE  ReadZone(dev', z) = ReadZone(dev, z)
  <2>. DEFINE r == ReadZone(dev, z)
              t == ReadZone(dev', z)
              n == dev.count[z]
              U == W \cup {Junk}
  <2>1. n \in Nat /\ d.count[z] = n /\ dev'.count[z] = n
    BY <1>4, <1>6, <1>22, <1>26 DEF SameLayout
  <2>2. r = back[z] /\ Len(r) = n /\ r \in Seq(W)
    BY <1>8, <1>14, <1>26
  <2>3. n <= d.part[z] /\ d.part[z] \in Nat /\ dev'.part = d.part /\ dev'.start = d.start
    BY <1>6, <1>13, <1>22, <1>26, <2>2 DEF SameLayout
  <2>4. t \in Seq(U) /\ Len(t) = n
    <3>1. ReadZone(dev', z) \in Seq(W \cup {Junk}) /\ Len(ReadZone(dev', z)) = dev'.count[z]
      BY <1>20, Read
    <3>. QED
      BY <2>1, <3>1
  <2>5. r \in Seq(U)
    BY <2>2, Widen
  <2>6. ASSUME NEW k \in 1..n
        PROVE  t[k] = r[k]
    <3>1. ReadsPart(W, dev', z)
      BY <1>20, <1>23, Read
    <3>2. k \in 1..d.part[z] /\ k <= d.part[z]
      <4>. DEFINE p == d.part[z]
      <4>1. n \in Nat /\ p \in Nat /\ n <= p /\ k \in 1..n
        BY <2>1, <2>3
      <4>. HIDE DEF n, p
      <4>2. k \in 1..p /\ k <= p
        BY <4>1
      <4>. QED
        BY <4>2 DEF p
    <3>3. t[k] = dev'.colors[d.start[z] + k]
      BY <2>1, <2>3, <3>1, <3>2 DEF ReadsPart
    <3>4. ~(k <= Len(cs[z])) /\ k <= Len(back[z])
      <4>1. Len(cs[z]) = 0
        BY <1>26, EmptySeq
      <4>. QED
        BY <2>1, <2>2, <4>1
    <3>5. dev'.colors[d.start[z] + k] = f.colors[d.start[z] + k]
      BY <1>19, <1>21, <1>26, <3>2, <3>4
    <3>6. f.colors[d.start[z] + k] = back[z][k]
      BY <1>18, <1>26, <3>2, <3>4
    <3>. QED
      BY <2>2, <3>3, <3>5, <3>6
  <2>. HIDE DEF r, t, n, U
  <2>7. t = r
    BY <2>2, <2>4, <2>5, <2>6, SeqEqual
  <2>. QED
    BY <2>7 DEF t, r
<1>27. spilled' \subseteq Zones
  BY <1>1 DEF IInv, Spills
<1>28. IInv'
  BY <1>1, <1>2, <1>23, <1>25, <1>27 DEF IInv
<1>. QED
  BY <1>24, <1>26, <1>28

-----------------------------------------------------------------------------
\* Every step keeps the invariant, and leaves parts of the vector as it should.
LEMMA Inductive == IInv /\ [Next]_vars => IInv' /\ Stays
<1>. SUFFICES ASSUME IInv, [Next]_vars
              PROVE  IInv' /\ Stays
  OBVIOUS
<1>1. ASSUME NEW l \in 0..dev.leds, NEW c \in Colors, SetLEDColor(l, c)
      PROVE  IInv' /\ Stays
  BY <1>1, LEDStep
<1>2. ASSUME NEW L \in SUBSET (0..dev.leds), NEW items \in [L -> Colors], SetMultipleColors(items)
      PROVE  IInv' /\ Stays
  BY <1>2, LEDsStep
<1>3. ASSUME NEW z \in Zones, NEW c \in Colors, SetZoneColor(z, c)
      PROVE  IInv' /\ Stays
  BY <1>3, ZoneStep
<1>4. ASSUME NEW c \in Colors, SetAllColors(c)
      PROVE  IInv' /\ Stays
  BY <1>4, AllStep
<1>5. ASSUME NEW z \in Zones, NEW s \in Sent, NEW f \in BOOLEAN, SetZoneMultipleLed(z, s, f)
      PROVE  IInv' /\ Stays
  BY <1>5, ZoneLEDsStep
<1>6. ASSUME NEW cs \in [Zones -> Sent], SetMultipleZoneMultipleLed(cs)
      PROVE  IInv' /\ Stays
  BY <1>6, ZonesLEDsStep
<1>7. ASSUME NEW cs \in [Zones -> Sent], ForceMultipleZoneMultipleLed(cs)
      PROVE  IInv' /\ Stays
  BY <1>7, ForceStep
<1>8. ASSUME NEW z \in Zones, NEW n \in 0..MaxSent, Resize(z, n)
      PROVE  IInv' /\ Stays
  BY <1>8, ResizeStep
<1>9. CASE UNCHANGED vars
  BY <1>9 DEF vars, IInv, Stays
<1>. QED
  BY <1>1, <1>2, <1>3, <1>4, <1>5, <1>6, <1>7, <1>8, <1>9 DEF Next

\* The invariant holds in every reachable state.
LEMMA Invariance == Spec => []IInv
<1>1. Init => IInv
  BY Starts
<1>2. IInv /\ [Next]_vars => IInv'
  BY Inductive
<1>. QED
  BY <1>1, <1>2, PTL DEF Spec

\* leds and colors have the same length and the zones' parts divide the vector
\* without a gap, whatever SetupColors, any of the drivers and "Force" resized;
\* unless the driver only counts, no zone owns more LEDs than its part has.
THEOREM ZonesDivided == Spec => []Divided
<1>1. ASSUME IInv
      PROVE  Divided
  <2>1. /\ dev \in ControllersOver(Values(spilled)) /\ Laid(dev) /\ Sized(dev)
        /\ spilled \subseteq Zones /\ reply \in {"none", "success", "error", "crash"}
        /\ request.colors \in [Zones -> Seq(Colors)]
    BY <1>1 DEF IInv, Good
  <2>2. TypeOK
    BY <2>1 DEF TypeOK, ControllersOver, Values
  <2>3. ASSUME dev.driver # "count", NEW z \in Zones
        PROVE  GetLEDsInZone(dev, z) <= dev.part[z]
    <3>1. Parts(dev)[z] = GetLEDsInZone(dev, z) /\ Parts(dev)[z] \in Nat
      BY <2>1, PartsProperties
    <3>. QED
      <4>1. dev.driver \in {"setup", "count", "fixed"}
        BY <2>1, Fields, Kinds
      <4>. QED
        BY <2>1, <2>3, <3>1, <4>1 DEF Sized
  <2>. QED
    BY <2>1, <2>2, <2>3 DEF Divided, Laid, Sized
<1>2. IInv => Divided
  BY <1>1
<1>. QED
  BY <1>2, Invariance, PTL

\* The loops that write or read the colors of a zone leave its part of the
\* vector only for zones with ZONE_FLAG_RESIZE_EFFECTS_ONLY, and for zones whose
\* leds_count the driver raised without setting up the colors.
THEOREM SpillsBounded == Spec => StaysInPart
<1>1. IInv /\ [Next]_vars =>
        [spilled' \subseteq spilled \cup EffectsOnly \cup Outgrown(dev) \cup Outgrown(dev')]_vars
  BY Inductive DEF Stays
<1>. QED
  BY <1>1, Invariance, PTL DEF Spec, StaysInPart
\* Until one did, a request that succeeds shows what it sent, in every zone
\* that it names.
THEOREM SentIsShown == Spec => []ShowsSent
<1>1. ASSUME IInv, reply = "success", spilled = {}, NEW z \in Zones, request.colors[z] # <<>>
      PROVE  SubSeq(ReadZone(dev, z), 1, GetLEDsInZone(dev, z)) = request.colors[z]
  <2>. DEFINE V == Values(spilled)
              s == request.colors[z]
  <2>1. dev \in ControllersOver(V) /\ Laid(dev) /\ Holds(dev, z, s)
    BY <1>1 DEF IInv, Good, Shows
  <2>2. s \in Seq(V)
    BY <1>1, ValuesGrow, Widen DEF IInv
  <2>. HIDE DEF V, s
  <2>3. SubSeq(ReadZone(dev, z), 1, GetLEDsInZone(dev, z)) = s
    BY <2>1, <2>2, HeldIsRead
  <2>. QED
    BY <2>3 DEF s
<1>2. IInv => ShowsSent
  BY <1>1 DEF ShowsSent
<1>. QED
  BY <1>2, Invariance, PTL

\* A request with "Force" writes the colors of the zones that it does not name
\* back to where they belong after the resize.
THEOREM OthersKept == Spec => ForceKeepsOthers
<1>. DEFINE A == request'.op = "force" /\ spilled' = {} =>
                    \A z \in Zones : request'.colors[z] = <<>> => ReadZone(dev, z)' = ReadZone(dev, z)
<1>1. ASSUME IInv, Next
      PROVE  A
  <2>1. CASE request'.op = "force"
    <3>1. PICK cs \in [Zones -> Sent] : ForceMultipleZoneMultipleLed(cs)
      <4>0. \A op, x : Request(op, x).op = op
        BY DEF Request
      <4>1. \A op, x : op # "force" =>
              /\ \A result : ~Answer(result, Request(op, x))
              /\ ~Reject(Request(op, x))
              /\ \A d, y : ~Show(d, y, Request(op, x))
        BY <2>1, <4>0 DEF Answer, Reject, Show
      <4>2. ASSUME NEW l, NEW c
            PROVE  ~SetLEDColor(l, c)
        BY <4>1 DEF SetLEDColor
      <4>3. ASSUME NEW items
            PROVE  ~SetMultipleColors(items)
        BY <4>1 DEF SetMultipleColors
      <4>4. ASSUME NEW z, NEW c
            PROVE  ~SetZoneColor(z, c) /\ ~SetAllColors(c)
        BY <4>1 DEF SetZoneColor, SetAllColors
      <4>5. ASSUME NEW z, NEW s, NEW f
            PROVE  ~SetZoneMultipleLed(z, s, f)
        BY <4>1 DEF SetZoneMultipleLed
      <4>6. ASSUME NEW cs
            PROVE  ~SetMultipleZoneMultipleLed(cs)
        BY <4>1 DEF SetMultipleZoneMultipleLed
      <4>7. ASSUME NEW z, NEW n
            PROVE  ~Resize(z, n)
        BY <4>1 DEF Resize
      <4>. QED
        BY <1>1, <4>2, <4>3, <4>4, <4>5, <4>6, <4>7 DEF Next
    <3>2. request'.colors = cs
      BY <3>1 DEF ForceMultipleZoneMultipleLed, Answer, Request
    <3>. QED
      BY <1>1, <3>1, <3>2, ForceStep
  <2>. QED
    BY <2>1
<1>2. IInv /\ [Next]_vars => [A]_vars
  BY <1>1
<1>. QED
  BY <1>2, Invariance, PTL DEF Spec, ForceKeepsOthers

\* A request answered with an error changed no color, and with a driver that
\* sets up its zones nothing, though some zones may have been resized before the
\* driver failed.
THEOREM RejectsKeepColors == Spec => RejectedKeepsColors
<1>. DEFINE A == reply' = "error" =>
                    dev' = IF dev.driver = "setup" THEN dev ELSE [dev EXCEPT !.count = dev'.count]
<1>1. ASSUME IInv, Next, reply' = "error"
      PROVE  dev' = dev \/ (dev.driver # "setup" /\ OnlySizes(dev, dev'))
  <2>0. Good(dev, spilled)
    BY <1>1 DEF IInv
  <2>1. ASSUME NEW d, NEW cs, NEW r, Show(d, cs, r)
        PROVE  FALSE
    BY <1>1, <2>1 DEF Show, Answer
  <2>2. ASSUME NEW r, Reject(r)
        PROVE  dev' = dev
    BY <2>2 DEF Reject
  <2>3. ASSUME NEW r, Answer("success", r)
        PROVE  FALSE
    BY <1>1, <2>3 DEF Answer
  <2>4. ASSUME NEW l, NEW c, SetLEDColor(l, c)
        PROVE  dev' = dev
    BY <2>2, <2>3, <2>4 DEF SetLEDColor
  <2>5. ASSUME NEW items, SetMultipleColors(items)
        PROVE  FALSE
    BY <2>3, <2>5 DEF SetMultipleColors
  <2>6. ASSUME NEW z, NEW c, SetZoneColor(z, c) \/ SetAllColors(c)
        PROVE  FALSE
    BY <2>1, <2>6 DEF SetZoneColor, SetAllColors
  <2>7. ASSUME NEW z \in Zones, NEW s \in Sent, NEW f \in BOOLEAN, SetZoneMultipleLed(z, s, f)
        PROVE  dev' = dev \/ (dev.driver # "setup" /\ OnlySizes(dev, dev'))
    <3>. DEFINE cs == [NoColors EXCEPT ![z] = s]
                d == ResizeZone(dev, z, Len(s))
    <3>1. s \in Seq(Colors) /\ Len(s) \in Nat
      BY SentIsSeq
    <3>2. /\ cs \in [Zones -> Seq(Colors)] /\ cs[z] = s
          /\ \A y \in Zones : y # z => cs[y] = <<>>
      BY <3>1, OneNamed
    <3>3. \/ Reject(Request("zone", cs))
          \/ InRange(z, Len(s)) /\ ~Obeyed(d, cs) /\ dev' = d
      BY <2>1, <2>7 DEF SetZoneMultipleLed
    <3>. HIDE DEF cs, d
    <3>4. CASE InRange(z, Len(s)) /\ ~Obeyed(d, cs) /\ dev' = d
      <4>1. CASE dev.driver = "setup"
        <5>1. d.count = [dev.count EXCEPT ![z] = Len(s)] /\ dev.count \in [Zones -> Nat]
          BY <2>0, <3>1, <3>4, <4>1, DriverResizes, Fields DEF Good, d
        <5>2. d.count[z] = Len(s)
          BY <5>1
        <5>. QED
          BY <3>2, <3>4, <5>2 DEF Obeyed
      <4>2. CASE dev.driver # "setup"
        BY <2>0, <3>1, <3>4, <4>2, DriverResizes DEF d
      <4>. QED
        BY <4>1, <4>2
    <3>. QED
      BY <2>2, <3>3, <3>4
  <2>8. ASSUME NEW cs \in [Zones -> Sent], SetMultipleZoneMultipleLed(cs)
        PROVE  dev' = dev \/ (dev.driver # "setup" /\ OnlySizes(dev, dev'))
    <3>. DEFINE d == ResizeZones(dev, cs)
    <3>1. cs \in [Zones -> Seq(Colors)]
      BY SentIsSeq
    <3>2. \/ Reject(Request("zones", cs))
          \/ Fits(dev, cs) /\ ~Obeyed(d, cs) /\ dev' = d
      BY <2>1, <2>8 DEF SetMultipleZoneMultipleLed
    <3>3. /\ dev.driver # "setup" => OnlySizes(dev, d)
          /\ dev.driver = "setup" /\ Fits(dev, cs) => \A z \in Zones : d.count[z] = Len(cs[z])
      BY <2>0, <3>1, ResizeAll
    <3>. HIDE DEF d
    <3>. QED
      BY <2>2, <3>2, <3>3 DEF Obeyed
  <2>9. ASSUME NEW cs, ForceMultipleZoneMultipleLed(cs)
        PROVE  FALSE
    BY <1>1, <2>9 DEF ForceMultipleZoneMultipleLed, Answer
  <2>10. ASSUME NEW z, NEW n, Resize(z, n)
         PROVE  dev' = dev
    BY <2>2, <2>3, <2>10 DEF Resize
  <2>. QED
    BY <1>1, <2>4, <2>5, <2>6, <2>7, <2>8, <2>9, <2>10 DEF Next
<1>2. IInv => OnlySizes(dev, dev)
  BY OnlyOwnSizes DEF IInv, Good
<1>3. ASSUME IInv, Next
      PROVE  A
  BY <1>1, <1>2, <1>3 DEF OnlySizes
<1>4. IInv /\ [Next]_vars => [A]_vars
  BY <1>3
<1>. QED
  BY <1>4, Invariance, PTL DEF Spec, RejectedKeepsColors
=============================================================================
