--------------------------- MODULE ProfilesProofs ---------------------------
(***************************************************************************)
(* Theorems about Profiles, for any number of devices, any identities,     *)
(* sizes and colors, and any number of resizes and restarts.               *)
(*                                                                         *)
(* Devices of one identity are told apart only by the order in which they  *)
(* take their entries.  It is the order of the detectors in every list: of *)
(* the controllers (Ordered), and of a list that was saved at rest         *)
(* (SizesAre, EntriesAre).  If such a list is of the devices that are      *)
(* there, the entries that are taken are those of the devices that took    *)
(* one (UsedAreListed, MatchedAreListed, TakenAreOwn), so that the first   *)
(* entry that matches the next device is its own (OwnEntry).               *)
(***************************************************************************)
EXTENDS Profiles, SequenceTheorems, WellFoundedInduction, TLAPS

\* The devices of a list, and that it is in the order of their detectors.
DevicesOf(list) == {list[k].dev : k \in DOMAIN list}
Increasing(list) == \A j, k \in DOMAIN list : j < k => list[j].dev < list[k].dev

\* If f describes any device, the list was saved at rest, and f gives the sizes
\* or the entries in it.
SizesAre(list, f) ==
    DOMAIN f # {} => /\ Increasing(list) /\ DOMAIN f = DevicesOf(list)
                     /\ \A k \in DOMAIN list : f[list[k].dev] = list[k].size

EntriesAre(list, f) ==
    DOMAIN f # {} => /\ Increasing(list) /\ DOMAIN f = DevicesOf(list)
                     /\ \A k \in DOMAIN list : f[list[k].dev] = list[k]

\* A detection finds the devices in the order of their detectors.
Ordered ==
    /\ Increasing(controllers) /\ Listed \subseteq scanned
    /\ detecting => /\ scanned = Listed \cup todo
                    /\ \A d \in Listed, e \in todo : d < e

\* What the files hold, and the sizes that were read when the program started.
FilesDescribed ==
    /\ SizesAre(IF saving = "open" THEN copy ELSE sizesFile, saved)
    /\ SizesAre(sizes, loaded) /\ EntriesAre(profile, profiled)

\* The entries that are taken are those of the devices that are registered.
UsedAreListed ==
    DOMAIN loaded = scanned => used = {k \in DOMAIN sizes : sizes[k].dev \in Listed}

IInv == TypeOK /\ Ordered /\ FilesDescribed /\ UsedAreListed /\ SizesComeBack

-----------------------------------------------------------------------------
\* Every set of naturals that is not empty has a least element, which Min gives.
LEMMA LeastElement ==
  ASSUME NEW T, T \subseteq Nat, T # {}
  PROVE  Min(T) \in T /\ \A m \in T : Min(T) <= m
<1>. DEFINE R == OpToRel(<, Nat)
<1>1. IsWellFoundedOn(R, Nat)
  BY NatLessThanWellFounded
<1>2. \A m, n \in Nat : m < n => <<m, n>> \in R
  BY DEF OpToRel
<1>. HIDE DEF R
<1>3. PICK n \in T : \A m \in T : ~(<<m, n>> \in R)
  BY <1>1, WFMin
<1>4. ASSUME NEW m \in T
      PROVE  n <= m
  <2>1. m \in Nat /\ n \in Nat
    OBVIOUS
  <2>2. ~(m < n)
    BY <1>2, <1>3, <2>1
  <2>. QED
    BY <2>1, <2>2
<1>. QED
  BY <1>4 DEF Min

\* Nothing but the least element is Min.
LEMMA LeastIsMin ==
  ASSUME NEW T, T \subseteq Nat, NEW n \in T, \A m \in T : n <= m
  PROVE  Min(T) = n
<1>1. Min(T) \in T /\ Min(T) <= n /\ n <= Min(T)
  BY LeastElement
<1>2. Min(T) \in Nat /\ n \in Nat
  BY <1>1
<1>. QED
  BY <1>1, <1>2

\* Induction over the first m numbers.
LEMMA UpTo ==
  ASSUME NEW m \in Nat, NEW T, 0 \in T, \A n \in 1..m : n - 1 \in T => n \in T
  PROVE  0..m \subseteq T
<1>. DEFINE U == {n \in 0..m : n \notin T}
<1>1. SUFFICES ASSUME U # {}
               PROVE  FALSE
  OBVIOUS
<1>2. PICK n \in U : \A k \in U : n <= k
  <2>. HIDE DEF U
  <2>1. U \subseteq Nat
    BY DEF U
  <2>. QED
    BY <1>1, <2>1, LeastElement
<1>3. n \in 1..m /\ n - 1 \notin U /\ n - 1 \in 0..m
  BY <1>2
<1>. QED
  BY <1>2, <1>3

-----------------------------------------------------------------------------
(***************************************************************************)
(* Lists and the entries that are taken from them.                         *)
(***************************************************************************)

\* An entry of a list.
Entries == [dev : Devices, size : Sizes, color : Colors \cup {Black}]

\* Devices are numbers; lists are sequences of entries.
LEMMA Types ==
  /\ Devices \subseteq Nat /\ ControllerLists = Seq(Entries)
  /\ \A list \in ControllerLists :
        /\ DOMAIN list = 1..Len(list) /\ Len(list) \in Nat
        /\ \A k \in DOMAIN list : k \in Nat /\ list[k] \in Entries
        /\ \A k \in DOMAIN list : list[k].dev \in Devices /\ list[k].dev \in Nat
<1>1. Devices \subseteq Nat
  BY ProfilesAssumption DEF Devices
<1>2. ControllerLists = Seq(Entries)
  BY DEF ControllerLists, Entries
<1>3. ASSUME NEW list \in Seq(Entries)
      PROVE  /\ DOMAIN list = 1..Len(list) /\ Len(list) \in Nat
             /\ \A k \in DOMAIN list : k \in Nat /\ list[k] \in Entries
  OBVIOUS
<1>4. \A c \in Entries : c.dev \in Devices
  BY DEF Entries
<1>. QED
  BY <1>1, <1>2, <1>3, <1>4

\* Setting a zone up again gives a controller of the same device.
LEMMA ResizeType ==
  ASSUME NEW c \in Entries, NEW n \in Sizes
  PROVE  ResizeZone(c, n) \in Entries /\ ResizeZone(c, n).dev = c.dev
BY DEF Entries, ResizeZone

\* So does loading a size or colors.
LEMMA LoadTypes ==
  ASSUME NEW c \in Entries, NEW entry \in Entries
  PROVE  /\ LoadSize(c, entry) \in Entries /\ LoadSize(c, entry).dev = c.dev
         /\ LoadSettings(c, entry) \in Entries /\ LoadSettings(c, entry).dev = c.dev
BY DEF Entries, ResizeZone, LoadSize, LoadSettings

\* What loading a size or colors does to the size and the color.
LEMMA LoadEffects ==
  ASSUME NEW c \in Entries, NEW entry \in Entries
  PROVE  /\ LoadSize(c, entry).size = entry.size
         /\ LoadSize(c, entry).color = IF c.size = entry.size THEN c.color ELSE Black
         /\ LoadSettings(c, entry).size = c.size
         /\ LoadSettings(c, entry).color =
               IF c.size = entry.size THEN entry.color ELSE c.color
BY DEF Entries, ResizeZone, LoadSize, LoadSettings

\* The entry that is taken is one of the list that matches and is not taken yet.
LEMMA TakenEntry ==
  ASSUME NEW list \in ControllerLists, NEW taken, NEW d
  PROVE  LET M == Matches(list, taken, d)
         IN  /\ M \subseteq DOMAIN list /\ First(M) \subseteq M
             /\ M # {} => Min(M) \in M /\ list[Min(M)] \in Entries
<1>. DEFINE M == Matches(list, taken, d)
<1>1. M \subseteq DOMAIN list /\ M \subseteq Nat
  BY Types DEF Matches
<1>. HIDE DEF M
<1>2. M # {} => Min(M) \in M
  BY <1>1, LeastElement
<1>3. M # {} => list[Min(M)] \in Entries
  BY <1>1, <1>2, Types
<1>. QED
  BY <1>1, <1>2, <1>3 DEF M, First

\* A device's own entry is the first that matches it, when the list is in the
\* order of the detectors and the entries of all devices before it are taken.
LEMMA OwnEntry ==
  ASSUME NEW list \in ControllerLists, Increasing(list), NEW taken,
         NEW k \in DOMAIN list, k \notin taken,
         \A j \in DOMAIN list : j \notin taken => list[k].dev <= list[j].dev
  PROVE  LET M == Matches(list, taken, list[k].dev)
         IN  M # {} /\ Min(M) = k /\ First(M) = {k}
<1>. DEFINE M == Matches(list, taken, list[k].dev)
<1>1. k \in M /\ M \subseteq Nat
  BY Types DEF Matches
<1>2. ASSUME NEW j \in M
      PROVE  k <= j
  <2>1. j \in DOMAIN list /\ j \notin taken
    BY DEF Matches
  <2>2. list[k].dev <= list[j].dev
    BY <2>1
  <2>3. j \in Nat /\ k \in Nat /\ list[k].dev \in Nat /\ list[j].dev \in Nat
    BY <2>1, Types
  <2>4. j < k => list[j].dev < list[k].dev
    BY <2>1 DEF Increasing
  <2>. QED
    BY <2>2, <2>3, <2>4
<1>. HIDE DEF M
<1>3. Min(M) = k
  BY <1>1, <1>2, LeastIsMin
<1>. QED
  BY <1>1, <1>3 DEF M, First

\* No two entries of a list in the order of the detectors are of one device.
LEMMA OneEntry ==
  ASSUME NEW list \in ControllerLists, Increasing(list),
         NEW j \in DOMAIN list, NEW k \in DOMAIN list, list[j].dev = list[k].dev
  PROVE  j = k
<1>1. j \in Nat /\ k \in Nat /\ list[j].dev \in Nat /\ list[k].dev \in Nat
  BY Types
<1>2. (j < k => list[j].dev < list[k].dev) /\ (k < j => list[k].dev < list[j].dev)
  BY DEF Increasing
<1>. QED
  BY <1>1, <1>2

\* The two things that the recursive definition of Taken says.
TakenBy(t, cs, list) ==
    /\ t[0] = {}
    /\ \A n \in 1..Len(cs) :
          t[n] = t[n - 1] \cup First(Matches(list, t[n - 1], cs[n].dev))

\* The recursive definition of Taken defines a function.
LEMMA TakenRecursion ==
  ASSUME NEW cs, Len(cs) \in Nat, NEW list
  PROVE  TakenBy(Taken(cs, list), cs, list)
<1>. DEFINE m == Len(cs)
            With(s, n) == s \cup First(Matches(list, s, cs[n].dev))
            IsTaken(t, k) == t = [n \in 0..k |-> IF n = 0 THEN {} ELSE With(t[n - 1], n)]
            T == {k \in 0..m : \E t : IsTaken(t, k)}
<1>. HIDE DEF With
<1>1. 0 \in T
  <2>. IsTaken([n \in 0..0 |-> {}], 0)
    OBVIOUS
  <2>. HIDE DEF IsTaken
  <2>. QED
    BY 0 \in 0..m
<1>2. ASSUME NEW k \in 1..m, k - 1 \in T
      PROVE  k \in T
  <2>1. PICK t : IsTaken(t, k - 1)
    BY <1>2
  <2>. DEFINE u == [n \in 0..k |-> IF n = k THEN With(t[k - 1], k) ELSE t[n]]
  <2>2. ASSUME NEW n \in 0..k
        PROVE  u[n] = IF n = 0 THEN {} ELSE With(u[n - 1], n)
    <3>1. CASE n = k
      <4>1. k - 1 \in 0..k /\ k - 1 # k /\ n # 0
        BY <3>1
      <4>. QED
        BY <3>1, <4>1
    <3>2. CASE n # k /\ n = 0
      <4>1. t[0] = {}
        BY <2>1
      <4>. QED
        BY <3>2, <4>1
    <3>3. CASE n # k /\ n # 0
      <4>1. n \in 0..(k - 1) /\ n - 1 \in 0..k /\ n - 1 # k
        BY <3>3
      <4>2. t[n] = With(t[n - 1], n)
        BY <2>1, <3>3, <4>1
      <4>. QED
        BY <3>3, <4>1, <4>2
    <3>. QED
      BY <3>1, <3>2, <3>3
  <2>3. IsTaken(u, k)
    BY <2>2
  <2>. HIDE DEF IsTaken
  <2>. QED
    BY <2>3, k \in 0..m
<1>3. \E t : IsTaken(t, m)
  <2>1. 0..m \subseteq T
    <3>. HIDE DEF T
    <3>. QED
      BY <1>1, <1>2, UpTo
  <2>. HIDE DEF IsTaken
  <2>. QED
    BY <2>1, m \in 0..m
<1>. DEFINE t == Taken(cs, list)
<1>4. IsTaken(t, m)
  BY <1>3 DEF Taken, With
<1>. HIDE DEF t
<1>5. t[0] = {}
  BY <1>4, 0 \in 0..m
<1>6. ASSUME NEW n \in 1..m
      PROVE  t[n] = With(t[n - 1], n)
  <2>1. n \in 0..m /\ n # 0
    OBVIOUS
  <2>. QED
    BY <1>4, <2>1
<1>. QED
  BY <1>5, <1>6 DEF TakenBy, With, t

\* The entries for the i-th of cs to choose from.
Choice(cs, list, i) == Matches(list, Taken(cs, list)[i - 1], cs[i].dev)

\* ds has the devices of cs, in their places.
SameDevices(cs, ds) ==
    /\ ds \in ControllerLists /\ DOMAIN ds = DOMAIN cs
    /\ \A i \in DOMAIN cs : ds[i].dev = cs[i].dev

\* Entries of the devices in D.
EntriesOf(list, D) == {k \in DOMAIN list : list[k].dev \in D}

\* A list with the same devices is in the same order and has the same set of them.
LEMMA SameOrder ==
  ASSUME NEW cs, NEW ds, SameDevices(cs, ds)
  PROVE  DevicesOf(ds) = DevicesOf(cs) /\ (Increasing(ds) <=> Increasing(cs))
BY DEF SameDevices, DevicesOf, Increasing

\* A list that is made entry by entry, each of the same device.
LEMMA MadeList ==
  ASSUME NEW cs \in ControllerLists, NEW ds, ds = [i \in DOMAIN cs |-> ds[i]],
         \A i \in DOMAIN cs : ds[i] \in Entries /\ ds[i].dev = cs[i].dev
  PROVE  SameDevices(cs, ds)
<1>1. DOMAIN cs = 1..Len(cs) /\ Len(cs) \in Nat /\ ControllerLists = Seq(Entries)
  BY Types
<1>2. ds \in [1..Len(cs) -> Entries]
  BY <1>1
<1>3. ds \in Seq(Entries)
  BY <1>1, <1>2
<1>. QED
  BY <1>1, <1>2, <1>3 DEF SameDevices

\* Loading the colors of a profile leaves devices and sizes as they are.
LEMMA LoadColors ==
  ASSUME NEW cs \in ControllerLists, NEW list \in ControllerLists
  PROVE  LET ds == LoadList(LoadSettings, cs, list)
         IN  /\ SameDevices(cs, ds)
             /\ \A i \in DOMAIN cs :
                   /\ ds[i].size = cs[i].size
                   /\ Choice(cs, list, i) # {} =>
                         ds[i] = LoadSettings(cs[i], list[Min(Choice(cs, list, i))])
<1>. DEFINE ds == LoadList(LoadSettings, cs, list)
<1>1. ds = [i \in DOMAIN cs |->
               IF Choice(cs, list, i) = {} THEN cs[i]
               ELSE LoadSettings(cs[i], list[Min(Choice(cs, list, i))])]
  BY DEF LoadList, Choice
<1>. HIDE DEF ds
<1>2. ASSUME NEW i \in DOMAIN cs
      PROVE  ds[i] \in Entries /\ ds[i].dev = cs[i].dev /\ ds[i].size = cs[i].size
  <2>1. cs[i] \in Entries
    BY Types
  <2>2. CASE Choice(cs, list, i) = {}
    BY <1>1, <2>1, <2>2
  <2>3. CASE Choice(cs, list, i) # {}
    <3>1. list[Min(Choice(cs, list, i))] \in Entries
      BY <2>3, TakenEntry DEF Choice
    <3>2. ds[i] = LoadSettings(cs[i], list[Min(Choice(cs, list, i))])
      BY <1>1, <2>3
    <3>3. ds[i] \in Entries /\ ds[i].dev = cs[i].dev
      BY <2>1, <3>1, <3>2, LoadTypes
    <3>4. ds[i].size = cs[i].size
      BY <2>1, <3>1, <3>2, LoadEffects
    <3>. QED
      BY <3>3, <3>4
  <2>. QED
    BY <2>2, <2>3
<1>3. SameDevices(cs, ds)
  BY <1>1, <1>2, MadeList
<1>. QED
  BY <1>1, <1>2, <1>3 DEF ds

\* Loading the sizes of a profile leaves the devices as they are.
LEMMA LoadSizes ==
  ASSUME NEW cs \in ControllerLists, NEW list \in ControllerLists
  PROVE  LET ds == LoadList(LoadSize, cs, list)
         IN  /\ SameDevices(cs, ds)
             /\ \A i \in DOMAIN cs :
                   Choice(cs, list, i) # {} =>
                      ds[i] = LoadSize(cs[i], list[Min(Choice(cs, list, i))])
<1>. DEFINE ds == LoadList(LoadSize, cs, list)
<1>1. ds = [i \in DOMAIN cs |->
               IF Choice(cs, list, i) = {} THEN cs[i]
               ELSE LoadSize(cs[i], list[Min(Choice(cs, list, i))])]
  BY DEF LoadList, Choice
<1>. HIDE DEF ds
<1>2. ASSUME NEW i \in DOMAIN cs
      PROVE  ds[i] \in Entries /\ ds[i].dev = cs[i].dev
  <2>1. cs[i] \in Entries
    BY Types
  <2>2. CASE Choice(cs, list, i) = {}
    BY <1>1, <2>1, <2>2
  <2>3. CASE Choice(cs, list, i) # {}
    <3>1. list[Min(Choice(cs, list, i))] \in Entries
      BY <2>3, TakenEntry DEF Choice
    <3>2. ds[i] = LoadSize(cs[i], list[Min(Choice(cs, list, i))])
      BY <1>1, <2>3
    <3>. QED
      BY <2>1, <3>1, <3>2, LoadTypes
  <2>. QED
    BY <2>2, <2>3
<1>3. SameDevices(cs, ds)
  BY <1>1, <1>2, MadeList
<1>. QED
  BY <1>1, <1>2, <1>3 DEF ds

\* When a list was saved in the order of the detectors and is loaded for the
\* same devices, each of them takes its own entry.
LEMMA TakenAreOwn ==
  ASSUME NEW cs \in ControllerLists, NEW list \in ControllerLists,
         Increasing(cs), Increasing(list), DevicesOf(cs) = DevicesOf(list),
         NEW i \in DOMAIN cs, NEW k \in DOMAIN list, list[k].dev = cs[i].dev
  PROVE  Choice(cs, list, i) # {} /\ Min(Choice(cs, list, i)) = k
<1>. DEFINE t == Taken(cs, list)
            Before(n) == EntriesOf(list, {cs[j].dev : j \in 1..n})
            T == {n \in 0..Len(cs) : t[n] = Before(n)}
<1>1. /\ DOMAIN cs = 1..Len(cs) /\ Len(cs) \in Nat
      /\ \A j \in DOMAIN cs : cs[j].dev \in Nat
  BY Types
<1>2. TakenBy(t, cs, list)
  BY <1>1, TakenRecursion
<1>. HIDE DEF t
<1>3. ASSUME NEW n \in 1..Len(cs), NEW l \in DOMAIN list, list[l].dev = cs[n].dev,
             t[n - 1] = Before(n - 1)
      PROVE  LET M == Matches(list, t[n - 1], cs[n].dev)
             IN  M # {} /\ Min(M) = l /\ First(M) = {l}
  <2>1. l \notin t[n - 1]
    <3>1. ASSUME NEW j \in 1..(n - 1), cs[j].dev = list[l].dev
          PROVE  FALSE
      <4>1. j \in DOMAIN cs /\ n \in DOMAIN cs /\ j # n
        BY <1>1
      <4>. QED
        BY <1>3, <3>1, <4>1, OneEntry
    <3>. QED
      BY <1>3, <3>1 DEF EntriesOf
  <2>2. ASSUME NEW j \in DOMAIN list, j \notin t[n - 1]
        PROVE  list[l].dev <= list[j].dev
    <3>1. PICK h \in DOMAIN cs : cs[h].dev = list[j].dev
      BY DEF DevicesOf
    <3>2. h \notin 1..(n - 1)
      BY <1>3, <2>2, <3>1 DEF EntriesOf
    <3>3. n \in DOMAIN cs /\ h \in Nat /\ (n < h \/ n = h)
      BY <1>1, <3>2
    <3>4. cs[n].dev <= cs[h].dev
      <4>1. n < h => cs[n].dev < cs[h].dev
        BY <3>3 DEF Increasing
      <4>2. cs[n].dev \in Nat /\ cs[h].dev \in Nat
        BY <1>1, <3>3
      <4>. QED
        BY <3>3, <4>1, <4>2
    <3>. QED
      BY <1>3, <3>1, <3>4
  <2>3. LET M == Matches(list, t[n - 1], list[l].dev)
        IN  M # {} /\ Min(M) = l /\ First(M) = {l}
    BY <2>1, <2>2, OwnEntry
  <2>. QED
    BY <1>3, <2>3
<1>4. 0 \in T
  BY <1>1, <1>2 DEF TakenBy, EntriesOf
<1>5. ASSUME NEW n \in 1..Len(cs), n - 1 \in T
      PROVE  n \in T
  <2>0. n \in DOMAIN cs /\ n \in 0..Len(cs) /\ t[n - 1] = Before(n - 1)
    BY <1>1, <1>5
  <2>1. PICK l \in DOMAIN list : list[l].dev = cs[n].dev
    BY <2>0 DEF DevicesOf
  <2>2. First(Matches(list, t[n - 1], cs[n].dev)) = {l}
    BY <1>3, <2>0, <2>1
  <2>3. t[n] = Before(n - 1) \cup {l}
    BY <1>2, <2>0, <2>2 DEF TakenBy
  <2>4. ASSUME NEW j \in DOMAIN list
        PROVE  j \in Before(n) <=> j \in Before(n - 1) \cup {l}
    <3>1. j \in Before(n) <=> j \in Before(n - 1) \/ list[j].dev = cs[n].dev
      <4>1. 1..n = 1..(n - 1) \cup {n}
        BY <1>1
      <4>. QED
        BY <4>1 DEF EntriesOf
    <3>2. list[j].dev = cs[n].dev <=> j = l
      BY <2>1, OneEntry
    <3>. QED
      BY <3>1, <3>2
  <2>5. Before(n) \subseteq DOMAIN list /\ Before(n - 1) \subseteq DOMAIN list
    BY DEF EntriesOf
  <2>. HIDE DEF Before
  <2>6. Before(n) = Before(n - 1) \cup {l}
    BY <2>1, <2>4, <2>5
  <2>. QED
    BY <2>0, <2>3, <2>6
<1>6. 0..Len(cs) \subseteq T
  <2>. HIDE DEF T
  <2>. QED
    BY <1>1, <1>4, <1>5, UpTo
<1>7. i \in 1..Len(cs) /\ i - 1 \in 0..Len(cs)
  BY <1>1
<1>8. t[i - 1] = Before(i - 1)
  BY <1>6, <1>7
<1>. HIDE DEF T, Before
<1>. QED
  BY <1>3, <1>7, <1>8 DEF Choice, t

-----------------------------------------------------------------------------
(***************************************************************************)
(* Type correctness.                                                       *)
(***************************************************************************)

\* A list that is the same but for one entry of the same device.
LEMMA ChangedList ==
  ASSUME NEW cs \in ControllerLists, NEW i \in DOMAIN cs, NEW c \in Entries,
         c.dev = cs[i].dev
  PROVE  SameDevices(cs, [cs EXCEPT ![i] = c])
<1>. DEFINE ds == [cs EXCEPT ![i] = c]
<1>1. ds = [j \in DOMAIN cs |-> ds[j]]
  OBVIOUS
<1>2. ASSUME NEW j \in DOMAIN cs
      PROVE  ds[j] \in Entries /\ ds[j].dev = cs[j].dev
  <2>1. cs[j] \in Entries
    BY Types
  <2>. QED
    BY <2>1
<1>. HIDE DEF ds
<1>3. SameDevices(cs, ds)
  BY <1>1, <1>2, MadeList
<1>. QED
  BY <1>3 DEF ds

\* A resize changes one controller, of the device that it touches.
LEMMA ResizeSame ==
  ASSUME TypeOK, NEW i \in DOMAIN controllers, NEW n \in Sizes, Resize(i, n)
  PROVE  /\ SameDevices(controllers, controllers')
         /\ \A j \in DOMAIN controllers : j # i => controllers'[j] = controllers[j]
<1>. DEFINE c == ResizeZone(controllers[i], n)
<1>1. controllers \in ControllerLists /\ controllers[i] \in Entries
  BY Types DEF TypeOK
<1>2. c \in Entries /\ c.dev = controllers[i].dev
  BY <1>1, ResizeType
<1>3. controllers' = [controllers EXCEPT ![i] = c]
  BY DEF Resize
<1>. HIDE DEF c
<1>. QED
  BY <1>1, <1>2, <1>3, ChangedList

\* A new color leaves device and size as they are.
LEMMA SetColorSame ==
  ASSUME TypeOK, NEW i \in DOMAIN controllers, NEW c \in Colors, SetColor(i, c)
  PROVE  /\ SameDevices(controllers, controllers')
         /\ \A j \in DOMAIN controllers : controllers'[j].size = controllers[j].size
<1>. DEFINE e == [controllers[i] EXCEPT !.color = c]
<1>1. controllers \in ControllerLists /\ controllers[i] \in Entries
  BY Types DEF TypeOK
<1>2. e \in Entries /\ e.dev = controllers[i].dev /\ e.size = controllers[i].size
  BY <1>1 DEF Entries
<1>3. controllers' = [controllers EXCEPT ![i] = e]
  BY DEF SetColor
<1>. HIDE DEF e
<1>. QED
  BY <1>1, <1>2, <1>3, ChangedList

\* Loading a profile by SDK leaves devices and sizes as they are.
LEMMA LoadProfileSame ==
  ASSUME TypeOK, LoadProfile
  PROVE  /\ SameDevices(controllers, controllers')
         /\ \A j \in DOMAIN controllers : controllers'[j].size = controllers[j].size
<1>1. controllers \in ControllerLists /\ profile \in ControllerLists
  BY DEF TypeOK
<1>. QED
  BY <1>1, LoadColors DEF LoadProfile

\* Loading one by JSON-RPC leaves the devices as they are.
LEMMA LoadProfileAndSizeSame ==
  ASSUME TypeOK, LoadProfileAndSize
  PROVE  SameDevices(controllers, controllers')
<1>. DEFINE cs == LoadList(LoadSettings, controllers, profile)
            ds == LoadList(LoadSize, cs, profile)
<1>1. controllers \in ControllerLists /\ profile \in ControllerLists
  BY DEF TypeOK
<1>2. SameDevices(controllers, cs)
  BY <1>1, LoadColors
<1>3. cs \in ControllerLists
  BY <1>2 DEF SameDevices
<1>4. controllers' = ds
  BY DEF LoadProfileAndSize
<1>. HIDE DEF cs
<1>5. SameDevices(cs, ds)
  BY <1>1, <1>3, LoadSizes
<1>. QED
  BY <1>2, <1>4, <1>5 DEF SameDevices

\* What a registration appends, and which entries it takes.
Registers(c) ==
    LET d   == Min(todo)
        Old == Matches(pending, matched, d)
        M   == Matches(sizes, used, d)
    IN  /\ c \in Entries /\ c.dev = d
        /\ controllers' = Append(controllers, c)
        /\ M # {} => c.size = sizes[Min(M)].size
        /\ c.color = IF Old # {} /\ pending[Min(Old)].size = DefaultSize /\ c.size = DefaultSize
                     THEN pending[Min(Old)].color ELSE Black
        /\ matched' = matched \cup First(Old) /\ First(Old) \subseteq DOMAIN pending
        /\ used' = used \cup First(M) /\ First(M) \subseteq DOMAIN sizes
        /\ d \in todo /\ \A e \in todo : d <= e

\* A registration appends a controller of the first device that is to be found.
LEMMA Registration ==
  ASSUME TypeOK, RegisterRGBController
  PROVE  \E c : Registers(c)
<1>. DEFINE d   == Min(todo)
            new == Controller(d, DefaultSize, Black)
            Old == Matches(pending, matched, d)
            M   == Matches(sizes, used, d)
            b   == IF Old = {} THEN new ELSE LoadSettings(new, pending[Min(Old)])
            c   == IF M = {} THEN b ELSE LoadSize(b, sizes[Min(M)])
<1>1. d \in todo /\ d \in Devices /\ \A e \in todo : d <= e
  <2>1. todo \subseteq Nat /\ todo # {} /\ todo \subseteq Devices
    BY Types DEF TypeOK, RegisterRGBController
  <2>. QED
    BY <2>1, LeastElement
<1>2. pending \in ControllerLists /\ sizes \in ControllerLists
  BY DEF TypeOK
<1>3. /\ First(Old) \subseteq DOMAIN pending
      /\ Old # {} => pending[Min(Old)] \in Entries
  BY <1>2, TakenEntry
<1>4. /\ First(M) \subseteq DOMAIN sizes
      /\ M # {} => sizes[Min(M)] \in Entries
  BY <1>2, TakenEntry
<1>5. /\ matched' = matched \cup First(Old) /\ used' = used \cup First(M)
      /\ controllers' = Append(controllers, c)
  BY DEF RegisterRGBController, Controller
<1>6. new \in Entries /\ new.dev = d /\ new.size = DefaultSize /\ new.color = Black
  BY <1>1, ProfilesAssumption DEF Controller, Entries
<1>. HIDE DEF new, Old, M, d
<1>7. b \in Entries /\ b.dev = d
  BY <1>3, <1>6, LoadTypes
<1>8. /\ b.size = DefaultSize
      /\ b.color = IF Old # {} /\ pending[Min(Old)].size = DefaultSize
                   THEN pending[Min(Old)].color ELSE Black
  BY <1>3, <1>6, LoadEffects
<1>. HIDE DEF b
<1>9. c \in Entries /\ c.dev = d
  BY <1>4, <1>7, LoadTypes
<1>10. /\ M # {} => c.size = sizes[Min(M)].size
       /\ c.color = IF c.size = DefaultSize THEN b.color ELSE Black
  <2>1. CASE M = {}
    BY <1>8, <2>1
  <2>2. CASE M # {}
    BY <1>4, <1>7, <1>8, <2>2, LoadEffects
  <2>. QED
    BY <2>1, <2>2
<1>. HIDE DEF c
<1>11. c.color = IF Old # {} /\ pending[Min(Old)].size = DefaultSize /\ c.size = DefaultSize
                 THEN pending[Min(Old)].color ELSE Black
  BY <1>8, <1>10
<1>12. Registers(c)
  BY <1>1, <1>3, <1>4, <1>5, <1>9, <1>10, <1>11 DEF Registers, M, Old, d
<1>. QED
  BY <1>12

\* The copy that is written to the file of sizes.
LEMMA CopyTypes ==
  ASSUME TypeOK, OpenSizes
  PROVE  /\ SameDevices(controllers, copy')
         /\ \A i \in DOMAIN controllers : copy'[i].size = controllers[i].size
<1>1. controllers \in ControllerLists
      /\ copy' = [i \in DOMAIN controllers |-> [controllers[i] EXCEPT !.color = Black]]
  BY DEF TypeOK, OpenSizes
<1>2. ASSUME NEW i \in DOMAIN controllers
      PROVE  /\ copy'[i] \in Entries /\ copy'[i].dev = controllers[i].dev
             /\ copy'[i].size = controllers[i].size
  <2>1. controllers[i] \in Entries
    BY <1>1, Types
  <2>2. copy'[i] = [controllers[i] EXCEPT !.color = Black]
    BY <1>1
  <2>. QED
    BY <2>1, <2>2 DEF Entries
<1>3. copy' = [i \in DOMAIN controllers |-> copy'[i]]
  BY <1>1
<1>. QED
  BY <1>1, <1>2, <1>3, MadeList

\* The empty list.
LEMMA EmptyList ==
  <<>> \in ControllerLists /\ DOMAIN <<>> = {} /\ Increasing(<<>>)
BY EmptySeq DEF ControllerLists, Increasing

\* Every step keeps the types.
LEMMA TypeStep ==
  ASSUME TypeOK, [Next]_vars
  PROVE  TypeOK'
<1>. USE EmptyList DEF TypeOK
<1>0. resizes \in Nat /\ restarts \in Nat /\ MaxResizes \in Nat /\ MaxRestarts \in Nat
  BY ProfilesAssumption
<1>1. ASSUME NEW d \in Devices, Plug(d)
      PROVE  TypeOK'
  BY <1>1 DEF Plug, files
<1>2. CASE DetectDevices
  BY <1>2 DEF DetectDevices, ResetUsed, files
<1>3. CASE RegisterRGBController
  <2>1. PICK c : Registers(c)
    BY <1>3, Registration
  <2>2. controllers' \in ControllerLists
    BY <2>1, Types DEF Registers
  <2>3. matched' \subseteq DOMAIN pending /\ used' \subseteq DOMAIN sizes
    BY <2>1 DEF Registers
  <2>. QED
    BY <1>3, <2>2, <2>3 DEF RegisterRGBController, files
<1>4. CASE ProcessPostDetection
  BY <1>4 DEF ProcessPostDetection, ForgetMatched, files
<1>5. ASSUME NEW i \in DOMAIN controllers, NEW n \in Sizes, Resize(i, n),
             saving' \in {"asked", saving}
      PROVE  TypeOK'
  <2>1. controllers' \in ControllerLists
    BY <1>5, ResizeSame DEF SameDevices
  <2>2. controllers[i].dev \in Devices
    BY Types
  <2>3. resizes' \in 0..MaxResizes
    BY <1>0, <1>5 DEF Resize
  <2>. QED
    BY <1>5, <2>1, <2>2, <2>3 DEF Resize
<1>6. CASE OpenSizes
  BY <1>6, CopyTypes DEF OpenSizes, SameDevices, devices
<1>7. CASE WriteSizes
  BY <1>7 DEF WriteSizes, WriteControllers, devices
<1>8. ASSUME NEW i \in DOMAIN controllers, NEW c \in Colors, SetColor(i, c)
      PROVE  TypeOK'
  BY <1>8, SetColorSame DEF SetColor, SameDevices, files
<1>9. CASE SaveProfile
  BY <1>9 DEF SaveProfile, devices, files
<1>10. CASE LoadProfile
  BY <1>10, LoadProfileSame DEF LoadProfile, SameDevices, files
<1>11. CASE LoadProfileAndSize
  <2>1. controllers' \in ControllerLists
    BY <1>11, LoadProfileAndSizeSame DEF SameDevices
  <2>2. Listed \subseteq Devices
    BY Types DEF Listed
  <2>. QED
    BY <1>11, <2>1, <2>2 DEF LoadProfileAndSize, files
<1>12. CASE Restart
  <2>1. restarts' \in 0..MaxRestarts
    BY <1>0, <1>12 DEF Restart
  <2>. QED
    BY <1>12, <2>1 DEF Restart
<1>13. CASE UNCHANGED vars
  BY <1>13 DEF vars, devices, files
<1>. QED
  BY <1>1, <1>2, <1>3, <1>4, <1>5, <1>6, <1>7, <1>8, <1>9, <1>10, <1>11, <1>12, <1>13
     DEF Next, ResizeAndSave, ResizeOnly

\* The initial state has the types.
LEMMA TypeInit == Init => TypeOK
<1>1. 0 \in 0..MaxResizes /\ 0 \in 0..MaxRestarts
  BY ProfilesAssumption
<1>. QED
  BY <1>1, EmptyList DEF Init, TypeOK

\* Indices of taken entries stay within their lists, whatever is loaded, resized
\* or found, and all else has its type.
THEOREM TypeCorrect == Spec => []TypeOK
<1>1. TypeOK /\ [Next]_vars => TypeOK'
  BY TypeStep
<1>. QED
  BY <1>1, TypeInit, PTL DEF Spec

-----------------------------------------------------------------------------
(***************************************************************************)
(* The order of the lists, and what the files describe.                    *)
(***************************************************************************)

\* The devices of the controllers, by index.
LEMMA ListedDevices ==
  Listed = DevicesOf(controllers)
BY DEF Listed, DevicesOf

\* Appending an entry of a later device keeps the order, and adds the device.
LEMMA AppendOrder ==
  ASSUME NEW list \in ControllerLists, Increasing(list), NEW c \in Entries,
         \A d \in DevicesOf(list) : d < c.dev
  PROVE  /\ Increasing(Append(list, c))
         /\ DevicesOf(Append(list, c)) = DevicesOf(list) \cup {c.dev}
<1>. DEFINE new == Append(list, c)
<1>1. /\ DOMAIN list = 1..Len(list) /\ Len(list) \in Nat
      /\ ControllerLists = Seq(Entries)
  BY Types
<1>2. /\ DOMAIN new = 1..(Len(list) + 1)
      /\ new[Len(list) + 1] = c
      /\ \A k \in 1..Len(list) : new[k] = list[k]
  BY <1>1, AppendProperties
<1>. HIDE DEF new
<1>3. Increasing(new)
  <2>. SUFFICES ASSUME NEW j \in DOMAIN new, NEW k \in DOMAIN new, j < k
                PROVE  new[j].dev < new[k].dev
    BY DEF Increasing
  <2>1. j \in DOMAIN list /\ new[j] = list[j]
    BY <1>1, <1>2
  <2>2. CASE k = Len(list) + 1
    BY <1>2, <2>1, <2>2 DEF DevicesOf
  <2>3. CASE k # Len(list) + 1
    <3>1. k \in DOMAIN list /\ new[k] = list[k]
      BY <1>1, <1>2, <2>3
    <3>. QED
      BY <2>1, <3>1 DEF Increasing
  <2>. QED
    BY <2>2, <2>3
<1>4. DevicesOf(new) = DevicesOf(list) \cup {c.dev}
  <2>1. ASSUME NEW k \in DOMAIN new
        PROVE  new[k].dev \in DevicesOf(list) \cup {c.dev}
    <3>1. CASE k = Len(list) + 1
      BY <1>2, <3>1
    <3>2. CASE k # Len(list) + 1
      <4>1. k \in DOMAIN list /\ new[k] = list[k]
        BY <1>1, <1>2, <3>2
      <4>. QED
        BY <4>1 DEF DevicesOf
    <3>. QED
      BY <3>1, <3>2
  <2>2. c.dev \in DevicesOf(new)
    BY <1>1, <1>2 DEF DevicesOf
  <2>3. ASSUME NEW k \in DOMAIN list
        PROVE  list[k].dev \in DevicesOf(new)
    <3>1. k \in DOMAIN new /\ new[k] = list[k]
      BY <1>1, <1>2
    <3>. QED
      BY <3>1 DEF DevicesOf
  <2>. QED
    BY <2>1, <2>2, <2>3 DEF DevicesOf
<1>. QED
  BY <1>3, <1>4 DEF new

\* A registration adds the device that it finds.
LEMMA RegistrationOrder ==
  ASSUME TypeOK, Ordered, detecting, NEW c, Registers(c)
  PROVE  /\ Increasing(controllers')
         /\ Listed' = Listed \cup {Min(todo)}
<1>1. controllers \in ControllerLists /\ Increasing(controllers)
  BY DEF TypeOK, Ordered
<1>2. c \in Entries /\ c.dev = Min(todo) /\ Min(todo) \in todo
      /\ controllers' = Append(controllers, c)
  BY DEF Registers
<1>3. \A d \in DevicesOf(controllers) : d < c.dev
  BY <1>2, ListedDevices DEF Ordered
<1>4. Increasing(controllers') /\ DevicesOf(controllers') = DevicesOf(controllers) \cup {c.dev}
  BY <1>1, <1>2, <1>3, AppendOrder
<1>. QED
  BY <1>2, <1>4 DEF Listed, DevicesOf

\* The controllers stay in the order of their detectors when each stays of its
\* device.
LEMMA SameListed ==
  ASSUME SameDevices(controllers, controllers')
  PROVE  Listed' = Listed /\ (Increasing(controllers') <=> Increasing(controllers))
BY SameOrder DEF Listed, DevicesOf

\* Every step keeps the order of the controllers and of the devices to find.
LEMMA OrderedStep ==
  ASSUME TypeOK, Ordered, [Next]_vars
  PROVE  Ordered'
<1>1. ASSUME NEW d \in Devices, Plug(d)
      PROVE  Ordered'
  BY <1>1 DEF Plug, Ordered, Listed
<1>2. CASE DetectDevices
  BY <1>2, EmptyList DEF DetectDevices, Ordered, Listed
<1>3. CASE RegisterRGBController
  <2>. DEFINE d == Min(todo)
  <2>1. PICK c : Registers(c)
    BY <1>3, Registration
  <2>2. Increasing(controllers') /\ Listed' = Listed \cup {d}
    BY <1>3, <2>1, RegistrationOrder DEF RegisterRGBController
  <2>3. /\ d \in todo /\ \A e \in todo : d <= e
        /\ todo' = todo \ {d} /\ detecting /\ scanned' = scanned
    BY <1>3, <2>1 DEF RegisterRGBController, Registers
  <2>4. todo \subseteq Nat /\ d \in Nat
    BY <2>3, Types DEF TypeOK
  <2>. HIDE DEF d
  <2>5. ASSUME NEW a \in Listed', NEW e \in todo'
        PROVE  a < e
    <3>1. CASE a \in Listed
      BY <2>3, <2>5, <3>1 DEF Ordered
    <3>2. CASE a = d
      BY <2>3, <2>4, <2>5, <3>2
    <3>. QED
      BY <2>2, <2>5, <3>1, <3>2
  <2>6. scanned' = Listed' \cup todo'
    BY <2>2, <2>3 DEF Ordered
  <2>. QED
    BY <2>2, <2>5, <2>6 DEF Ordered
<1>4. CASE ProcessPostDetection
  BY <1>4 DEF ProcessPostDetection, Ordered, Listed
<1>5. ASSUME NEW i \in DOMAIN controllers, NEW n \in Sizes, Resize(i, n)
      PROVE  Ordered'
  BY <1>5, ResizeSame, SameListed DEF Resize, Ordered
<1>6. CASE OpenSizes
  BY <1>6 DEF OpenSizes, devices, Ordered, Listed
<1>7. CASE WriteSizes
  BY <1>7 DEF WriteSizes, devices, Ordered, Listed
<1>8. ASSUME NEW i \in DOMAIN controllers, NEW c \in Colors, SetColor(i, c)
      PROVE  Ordered'
  BY <1>8, SetColorSame, SameListed DEF SetColor, Ordered
<1>9. CASE SaveProfile
  BY <1>9 DEF SaveProfile, devices, Ordered, Listed
<1>10. CASE LoadProfile
  BY <1>10, LoadProfileSame, SameListed DEF LoadProfile, Ordered
<1>11. CASE LoadProfileAndSize
  BY <1>11, LoadProfileAndSizeSame, SameListed DEF LoadProfileAndSize, Ordered
<1>12. CASE Restart
  BY <1>12, EmptyList DEF Restart, Ordered, Listed
<1>13. CASE UNCHANGED vars
  BY <1>13 DEF vars, devices, Ordered, Listed
<1>. QED
  BY <1>1, <1>2, <1>3, <1>4, <1>5, <1>6, <1>7, <1>8, <1>9, <1>10, <1>11, <1>12, <1>13
     DEF Next, ResizeAndSave, ResizeOnly

\* What is saved at rest describes the controllers.
LEMMA AtRest ==
  ASSUME TypeOK, Ordered
  PROVE  SizesAre(controllers, BySize) /\ EntriesAre(controllers, ByColor)
<1>1. controllers \in ControllerLists /\ Increasing(controllers)
  BY DEF TypeOK, Ordered
<1>2. ASSUME NEW k \in DOMAIN controllers
      PROVE  (CHOOSE c \in ToSet(controllers) : c.dev = controllers[k].dev) = controllers[k]
  <2>1. controllers[k] \in ToSet(controllers)
    BY DEF ToSet
  <2>2. ASSUME NEW c \in ToSet(controllers), c.dev = controllers[k].dev
        PROVE  c = controllers[k]
    <3>1. PICK j \in DOMAIN controllers : c = controllers[j]
      BY DEF ToSet
    <3>. QED
      BY <1>1, <2>2, <3>1, OneEntry
  <2>. QED
    BY <2>1, <2>2
<1>3. DOMAIN BySize = Listed /\ DOMAIN ByColor = Listed
  BY DEF BySize, ByColor
<1>4. ASSUME NEW k \in DOMAIN controllers
      PROVE  /\ BySize[controllers[k].dev] = controllers[k].size
             /\ ByColor[controllers[k].dev] = controllers[k]
  <2>1. controllers[k].dev \in Listed
    BY DEF Listed
  <2>. QED
    BY <1>2, <2>1 DEF BySize, ByColor
<1>. QED
  BY <1>1, <1>3, <1>4, ListedDevices DEF SizesAre, EntriesAre

\* A list with the same devices and sizes is described by the same function.
LEMMA SameSizes ==
  ASSUME NEW cs, NEW ds, SameDevices(cs, ds), \A i \in DOMAIN cs : ds[i].size = cs[i].size,
         NEW f, SizesAre(cs, f)
  PROVE  SizesAre(ds, f)
<1>1. DevicesOf(ds) = DevicesOf(cs) /\ (Increasing(ds) <=> Increasing(cs))
  BY SameOrder
<1>2. \A k \in DOMAIN ds : k \in DOMAIN cs /\ ds[k].dev = cs[k].dev /\ ds[k].size = cs[k].size
  BY DEF SameDevices
<1>. QED
  BY <1>1, <1>2 DEF SizesAre

\* A function of nothing describes every list.
LEMMA NothingDescribed ==
  DOMAIN Nothing = {} /\ \A list : SizesAre(list, Nothing) /\ EntriesAre(list, Nothing)
BY DEF Nothing, SizesAre, EntriesAre

\* Every step keeps the files as they are described.
LEMMA FilesStep ==
  ASSUME TypeOK, Ordered, FilesDescribed, [Next]_vars
  PROVE  FilesDescribed'
<1>1. ASSUME UNCHANGED <<files, profile, profiled>>
      PROVE  FilesDescribed'
  BY <1>1 DEF files, FilesDescribed, SizesAre, EntriesAre
<1>2. ASSUME NEW i \in DOMAIN controllers, NEW n \in Sizes, ResizeAndSave(i, n) \/ ResizeOnly(i, n)
      PROVE  FilesDescribed'
  <2>1. (saving' = "open" <=> saving = "open") /\ copy' = copy /\ sizesFile' = sizesFile
        /\ saved' = saved
    BY <1>2 DEF ResizeAndSave, ResizeOnly, Resize
  <2>2. UNCHANGED <<sizes, loaded, profile, profiled>>
    BY <1>2 DEF ResizeAndSave, ResizeOnly, Resize
  <2>. QED
    BY <2>1, <2>2 DEF FilesDescribed, SizesAre, EntriesAre
<1>3. CASE OpenSizes
  <2>1. SizesAre(controllers, saved')
    BY <1>3, AtRest, NothingDescribed DEF OpenSizes
  <2>2. SizesAre(copy', saved')
    BY <1>3, <2>1, CopyTypes, SameSizes
  <2>3. saving' = "open" /\ UNCHANGED <<sizes, loaded, profile, profiled>>
    BY <1>3 DEF OpenSizes
  <2>. QED
    BY <2>2, <2>3 DEF FilesDescribed, SizesAre, EntriesAre
<1>4. CASE WriteSizes
  <2>1. /\ saving = "open" /\ saving' = "no" /\ sizesFile' = copy
        /\ UNCHANGED <<saved, sizes, loaded, profile, profiled>>
    BY <1>4 DEF WriteSizes, WriteControllers
  <2>. QED
    BY <2>1 DEF FilesDescribed, SizesAre, EntriesAre
<1>5. CASE SaveProfile
  <2>1. EntriesAre(profile', profiled')
    BY <1>5, AtRest, NothingDescribed DEF SaveProfile
  <2>2. UNCHANGED files
    BY <1>5 DEF SaveProfile
  <2>. QED
    BY <2>1, <2>2 DEF FilesDescribed, files, SizesAre, EntriesAre
<1>6. CASE Restart
  <2>1. SizesAre(sizesFile, saved')
    BY <1>6, NothingDescribed DEF Restart, FilesDescribed
  <2>2. /\ saving' = "no" /\ sizesFile' = sizesFile /\ sizes' = sizesFile /\ loaded' = saved'
        /\ UNCHANGED <<profile, profiled>>
    BY <1>6 DEF Restart
  <2>. QED
    BY <2>1, <2>2 DEF FilesDescribed, SizesAre, EntriesAre
<1>7. CASE (\E d \in Devices : Plug(d)) \/ DetectDevices \/ RegisterRGBController
           \/ ProcessPostDetection
  BY <1>1, <1>7 DEF Plug, DetectDevices, RegisterRGBController, ProcessPostDetection
<1>8. CASE (\E i \in DOMAIN controllers, c \in Colors : SetColor(i, c))
           \/ LoadProfile \/ LoadProfileAndSize \/ UNCHANGED vars
  BY <1>1, <1>8 DEF SetColor, LoadProfile, LoadProfileAndSize, vars
<1>. QED
  BY <1>2, <1>3, <1>4, <1>5, <1>6, <1>7, <1>8 DEF Next

-----------------------------------------------------------------------------
(***************************************************************************)
(* Sizes.                                                                  *)
(***************************************************************************)

\* When a list is of the devices of this detection, and those taken are of the
\* devices registered so far, the next device takes its own entry.
LEMMA OwnNext ==
  ASSUME TypeOK, Ordered, detecting, NEW d \in todo, \A e \in todo : d <= e,
         NEW list \in ControllerLists, Increasing(list), DevicesOf(list) = scanned,
         NEW taken, taken = EntriesOf(list, Listed)
  PROVE  LET M == Matches(list, taken, d)
         IN  \E k \in DOMAIN list :
                /\ list[k].dev = d /\ M # {} /\ Min(M) = k
                /\ taken \cup First(M) = EntriesOf(list, Listed \cup {d})
<1>. DEFINE M == Matches(list, taken, d)
<1>1. d \in scanned /\ d \notin Listed
  <2>1. d \in Nat
    BY Types DEF TypeOK
  <2>. QED
    BY <2>1 DEF Ordered
<1>2. PICK k \in DOMAIN list : list[k].dev = d
  BY <1>1 DEF DevicesOf
<1>3. k \notin taken
  BY <1>1, <1>2 DEF EntriesOf
<1>4. ASSUME NEW j \in DOMAIN list, j \notin taken
      PROVE  list[k].dev <= list[j].dev
  <2>1. list[j].dev \in scanned /\ list[j].dev \notin Listed
    BY <1>4 DEF DevicesOf, EntriesOf
  <2>2. list[j].dev \in todo
    BY <2>1 DEF Ordered
  <2>. QED
    BY <1>2, <2>2
<1>5. M # {} /\ Min(M) = k /\ First(M) = {k}
  BY <1>2, <1>3, <1>4, OwnEntry
<1>. HIDE DEF M
<1>6. ASSUME NEW j \in DOMAIN list
      PROVE  list[j].dev = d <=> j = k
  BY <1>2, OneEntry
<1>7. taken \cup First(M) = EntriesOf(list, Listed \cup {d})
  BY <1>5, <1>6 DEF EntriesOf
<1>. QED
  BY <1>2, <1>5, <1>7 DEF M

\* When the sizes were saved for the devices of this detection, the next device
\* finds its own size.
LEMMA OwnSize ==
  ASSUME TypeOK, Ordered, SizesAre(sizes, loaded), UsedAreListed, detecting,
         DOMAIN loaded = scanned, NEW c, Registers(c)
  PROVE  /\ c.size = loaded[c.dev]
         /\ used' = EntriesOf(sizes, Listed \cup {c.dev})
<1>. DEFINE d == Min(todo)
            M == Matches(sizes, used, d)
<1>1. /\ c.dev = d /\ d \in todo /\ \A e \in todo : d <= e
      /\ M # {} => c.size = sizes[Min(M)].size
      /\ used' = used \cup First(M)
  BY DEF Registers
<1>2. d \in scanned
  BY <1>1 DEF Ordered
<1>3. /\ Increasing(sizes) /\ DevicesOf(sizes) = scanned /\ sizes \in ControllerLists
      /\ \A k \in DOMAIN sizes : loaded[sizes[k].dev] = sizes[k].size
      /\ used = EntriesOf(sizes, Listed)
  BY <1>2 DEF SizesAre, TypeOK, UsedAreListed, EntriesOf
<1>. HIDE DEF d
<1>4. \E k \in DOMAIN sizes :
         /\ sizes[k].dev = d /\ M # {} /\ Min(M) = k
         /\ used \cup First(M) = EntriesOf(sizes, Listed \cup {d})
  BY <1>1, <1>3, OwnNext
<1>. QED
  BY <1>1, <1>3, <1>4

\* SizesComeBack, by the sizes alone.
SizesKept(cs, f, t) ==
    \A i \in DOMAIN cs : cs[i].dev \notin t => cs[i].size = f[cs[i].dev]

\* Both stay true while the controllers keep their sizes, or are touched.
LEMMA SizesStay ==
  ASSUME TypeOK, UsedAreListed, SizesComeBack, SameDevices(controllers, controllers'),
         UNCHANGED <<scanned, used, sizes, loaded>>, touched \subseteq touched',
         \A i \in DOMAIN controllers :
            controllers[i].dev \in touched' \/ controllers'[i].size = controllers[i].size
  PROVE  UsedAreListed' /\ SizesComeBack'
<1>1. UsedAreListed'
  BY SameListed DEF UsedAreListed
<1>2. SizesComeBack'
  <2>. SUFFICES ASSUME DOMAIN loaded = scanned, NEW i \in DOMAIN controllers',
                       controllers'[i].dev \notin touched'
                PROVE  controllers'[i].size = loaded[controllers'[i].dev]
    BY DEF SizesComeBack
  <2>1. i \in DOMAIN controllers /\ controllers'[i].dev = controllers[i].dev
    BY DEF SameDevices
  <2>. QED
    BY <2>1 DEF SizesComeBack
<1>. QED
  BY <1>1, <1>2

\* A list has its own devices.
LEMMA Unchanged ==
  ASSUME TypeOK, UNCHANGED controllers
  PROVE  SameDevices(controllers, controllers')
BY DEF TypeOK, SameDevices

\* Every step keeps the saved sizes, and the record of which were used.
LEMMA SizesStep ==
  ASSUME IInv, [Next]_vars
  PROVE  UsedAreListed' /\ SizesComeBack'
<1>. USE DEF IInv
<1>1. ASSUME NEW d \in Devices, Plug(d)
      PROVE  UsedAreListed' /\ SizesComeBack'
  BY <1>1, Unchanged, SizesStay DEF Plug, files
<1>2. CASE DetectDevices \/ Restart
  <2>1. controllers' = <<>> /\ used' = {}
    BY <1>2 DEF DetectDevices, ResetUsed, Restart
  <2>2. DOMAIN controllers' = {} /\ Listed' = {}
    BY <2>1, EmptyList DEF Listed
  <2>. QED
    BY <2>1, <2>2 DEF UsedAreListed, SizesComeBack
<1>3. CASE RegisterRGBController
  <2>. SUFFICES ASSUME DOMAIN loaded = scanned
                PROVE  /\ used' = EntriesOf(sizes, Listed')
                       /\ SizesKept(controllers', loaded, touched)
    BY <1>3 DEF RegisterRGBController, files, UsedAreListed, SizesComeBack, EntriesOf, SizesKept
  <2>1. PICK c : Registers(c)
    BY <1>3, Registration
  <2>2. detecting /\ SizesAre(sizes, loaded)
    BY <1>3 DEF RegisterRGBController, FilesDescribed
  <2>3. c.size = loaded[c.dev] /\ used' = EntriesOf(sizes, Listed \cup {c.dev})
    BY <2>1, <2>2, OwnSize
  <2>4. Listed' = Listed \cup {c.dev}
    BY <2>1, <2>2, RegistrationOrder DEF Registers
  <2>5. SizesKept(controllers', loaded, touched)
    <3>1. controllers \in Seq(Entries) /\ c \in Entries /\ controllers' = Append(controllers, c)
      BY <2>1, Types DEF Registers, TypeOK
    <3>2. ASSUME NEW i \in DOMAIN controllers', controllers'[i].dev \notin touched
          PROVE  controllers'[i].size = loaded[controllers'[i].dev]
      <4>1. CASE i = Len(controllers) + 1
        BY <2>3, <3>1, <4>1
      <4>2. CASE i # Len(controllers) + 1
        <5>1. i \in DOMAIN controllers /\ controllers'[i] = controllers[i]
          BY <3>1, <4>2
        <5>. QED
          BY <3>2, <5>1 DEF SizesComeBack
      <4>. QED
        BY <4>1, <4>2
    <3>. QED
      BY <3>2 DEF SizesKept
  <2>. QED
    BY <2>3, <2>4, <2>5
<1>4. CASE ProcessPostDetection
  BY <1>4, Unchanged, SizesStay DEF ProcessPostDetection, files
<1>5. ASSUME NEW i \in DOMAIN controllers, NEW n \in Sizes, Resize(i, n)
      PROVE  UsedAreListed' /\ SizesComeBack'
  <2>1. /\ SameDevices(controllers, controllers')
        /\ \A j \in DOMAIN controllers : j # i => controllers'[j] = controllers[j]
    BY <1>5, ResizeSame
  <2>2. touched' = touched \cup {controllers[i].dev} /\ UNCHANGED <<scanned, used, sizes, loaded>>
    BY <1>5 DEF Resize
  <2>. QED
    BY <2>1, <2>2, SizesStay
<1>6. CASE OpenSizes
  BY <1>6, Unchanged, SizesStay DEF OpenSizes, devices
<1>7. CASE WriteSizes
  BY <1>7, Unchanged, SizesStay DEF WriteSizes, devices
<1>8. ASSUME NEW i \in DOMAIN controllers, NEW c \in Colors, SetColor(i, c)
      PROVE  UsedAreListed' /\ SizesComeBack'
  BY <1>8, SetColorSame, SizesStay DEF SetColor, files
<1>9. CASE SaveProfile
  BY <1>9, Unchanged, SizesStay DEF SaveProfile, devices, files
<1>10. CASE LoadProfile
  BY <1>10, LoadProfileSame, SizesStay DEF LoadProfile, files
<1>11. CASE LoadProfileAndSize
  <2>1. touched' = touched \cup Listed /\ UNCHANGED <<scanned, used, sizes, loaded>>
    BY <1>11 DEF LoadProfileAndSize, files
  <2>2. \A i \in DOMAIN controllers : controllers[i].dev \in touched'
    BY <2>1 DEF Listed
  <2>. QED
    BY <1>11, <2>1, <2>2, LoadProfileAndSizeSame, SizesStay
<1>12. CASE UNCHANGED vars
  BY <1>12, Unchanged, SizesStay DEF vars, devices, files
<1>. QED
  BY <1>1, <1>2, <1>3, <1>4, <1>5, <1>6, <1>7, <1>8, <1>9, <1>10, <1>11, <1>12
     DEF Next, ResizeAndSave, ResizeOnly

\* The invariant holds in every state.
LEMMA Invariant == Spec => []IInv
<1>1. Init => IInv
  <2>. SUFFICES ASSUME Init
                PROVE  IInv
    OBVIOUS
  <2>1. TypeOK
    BY TypeInit
  <2>2. Ordered /\ UsedAreListed /\ SizesComeBack
    BY EmptyList DEF Init, Ordered, UsedAreListed, SizesComeBack, Listed
  <2>3. FilesDescribed
    BY NothingDescribed DEF Init, FilesDescribed
  <2>. QED
    BY <2>1, <2>2, <2>3 DEF IInv
<1>2. IInv /\ [Next]_vars => IInv'
  BY TypeStep, OrderedStep, FilesStep, SizesStep DEF IInv
<1>. QED
  BY <1>1, <1>2, PTL DEF Spec

\* Sizes that were saved at rest come back in every detection that finds the
\* same devices, whatever their identities.
THEOREM SavedSizesComeBack == Spec => []SizesComeBack
<1>1. IInv => SizesComeBack
  BY DEF IInv
<1>. QED
  BY <1>1, Invariant, PTL

-----------------------------------------------------------------------------
(***************************************************************************)
(* Profiles.                                                               *)
(***************************************************************************)

\* A profile that was saved at rest and is loaded for the same devices gives
\* each of them its own entry.
LEMMA OwnProfile ==
  ASSUME NEW cs \in ControllerLists, NEW list \in ControllerLists, NEW f,
         EntriesAre(list, f), Increasing(cs), DOMAIN f = DevicesOf(cs), NEW i \in DOMAIN cs
  PROVE  LET M == Choice(cs, list, i)
         IN  M # {} /\ list[Min(M)] = f[cs[i].dev] /\ f[cs[i].dev] \in Entries
<1>1. cs[i].dev \in DevicesOf(cs)
  BY DEF DevicesOf
<1>2. /\ Increasing(list) /\ DevicesOf(list) = DevicesOf(cs)
      /\ \A k \in DOMAIN list : f[list[k].dev] = list[k]
  BY <1>1 DEF EntriesAre
<1>3. PICK k \in DOMAIN list : list[k].dev = cs[i].dev
  BY <1>1, <1>2 DEF DevicesOf
<1>4. Choice(cs, list, i) # {} /\ Min(Choice(cs, list, i)) = k
  BY <1>2, <1>3, TakenAreOwn
<1>. QED
  BY <1>2, <1>3, <1>4, Types

\* What loading a profile gives back, in terms of the entry of each device.
GivenBack(c, new, e) == c.size = e.size => new.color = e.color

\* Loading the colors gives each device its color back unless its size differs.
LEMMA ColorsGivenBack ==
  ASSUME NEW cs \in ControllerLists, NEW list \in ControllerLists, NEW f,
         EntriesAre(list, f), Increasing(cs), DOMAIN f = DevicesOf(cs), NEW i \in DOMAIN cs
  PROVE  GivenBack(cs[i], LoadList(LoadSettings, cs, list)[i], f[cs[i].dev])
<1>. DEFINE new == LoadList(LoadSettings, cs, list)[i]
            e   == f[cs[i].dev]
<1>1. /\ Choice(cs, list, i) # {} /\ list[Min(Choice(cs, list, i))] = e
      /\ e \in Entries /\ cs[i] \in Entries
  BY OwnProfile, Types
<1>2. new = LoadSettings(cs[i], e)
  BY <1>1, LoadColors
<1>. HIDE DEF new, e
<1>3. GivenBack(cs[i], new, e)
  BY <1>1, <1>2, LoadEffects DEF GivenBack
<1>. QED
  BY <1>3 DEF new, e

\* A step that loads a profile gives back what was saved.
LEMMA ProfileStep ==
  ASSUME IInv, DOMAIN profiled = Listed, NEW i \in DOMAIN controllers,
         LoadProfile \/ LoadProfileAndSize
  PROVE  LET c == controllers[i]
             e == profiled[c.dev]
         IN  /\ GivenBack(c, controllers'[i], e)
             /\ LoadProfileAndSize => controllers'[i].size = e.size
<1>. DEFINE e  == profiled[controllers[i].dev]
            cs == LoadList(LoadSettings, controllers, profile)
            ds == LoadList(LoadSize, cs, profile)
<1>1. /\ controllers \in ControllerLists /\ profile \in ControllerLists
      /\ EntriesAre(profile, profiled) /\ Increasing(controllers)
      /\ DOMAIN profiled = DevicesOf(controllers)
  BY ListedDevices DEF IInv, TypeOK, FilesDescribed, Ordered
<1>2. GivenBack(controllers[i], cs[i], e)
  BY <1>1, ColorsGivenBack
<1>3. CASE LoadProfile /\ ~LoadProfileAndSize
  BY <1>2, <1>3 DEF LoadProfile
<1>4. CASE LoadProfileAndSize
  <2>1. /\ SameDevices(controllers, cs) /\ cs[i].size = controllers[i].size
    BY <1>1, LoadColors
  <2>2. /\ cs \in ControllerLists /\ i \in DOMAIN cs /\ cs[i].dev = controllers[i].dev
        /\ Increasing(cs) /\ DOMAIN profiled = DevicesOf(cs)
    BY <1>1, <2>1, SameOrder DEF SameDevices
  <2>3. controllers' = ds
    BY <1>4 DEF LoadProfileAndSize
  <2>. HIDE DEF cs
  <2>4. /\ Choice(cs, profile, i) # {} /\ profile[Min(Choice(cs, profile, i))] = e
        /\ e \in Entries /\ cs[i] \in Entries
    BY <1>1, <2>2, OwnProfile, Types
  <2>5. ds[i] = LoadSize(cs[i], e)
    <3>1. Choice(cs, profile, i) # {} =>
             ds[i] = LoadSize(cs[i], profile[Min(Choice(cs, profile, i))])
      BY <1>1, <2>2, LoadSizes
    <3>. QED
      BY <2>4, <3>1
  <2>. HIDE DEF ds, e
  <2>6. ds[i].size = e.size /\ (cs[i].size = e.size => ds[i].color = cs[i].color)
    BY <2>4, <2>5, LoadEffects
  <2>7. GivenBack(controllers[i], ds[i], e) /\ ds[i].size = e.size
    BY <1>2, <2>1, <2>6 DEF GivenBack
  <2>. QED
    BY <2>3, <2>7 DEF e
<1>. QED
  BY <1>3, <1>4

\* A profile saved at rest comes back on the same devices: colors where the
\* size has not changed, and by JSON-RPC the size in any case.
THEOREM SavedProfileComesBack == Spec => ProfileComesBack
<1>1. ASSUME IInv, [Next]_vars
      PROVE  [DOMAIN profiled = Listed =>
                \A i \in DOMAIN controllers :
                   LET c == controllers[i]
                       e == profiled[c.dev]
                   IN  /\ LoadProfile \/ LoadProfileAndSize =>
                            (c.size = e.size => controllers'[i].color = e.color)
                       /\ LoadProfileAndSize => controllers'[i].size = e.size]_vars
  BY <1>1, ProfileStep DEF GivenBack
<1>. QED
  BY <1>1, Invariant, PTL DEF Spec, ProfileComesBack

-----------------------------------------------------------------------------
(***************************************************************************)
(* Colors over a rescan.                                                   *)
(***************************************************************************)

\* If the devices of the previous detection are found again, its controllers
\* that were matched are those of the devices that are registered.
MatchedAreListed ==
    detecting => /\ Increasing(pending)
                 /\ DevicesOf(pending) = scanned => matched = EntriesOf(pending, Listed)

\* Of a rescan that finds the same devices: what it registers has the color of
\* the same device's old controller exactly if the zone had the driver's default
\* size and has it again once the saved size is loaded; else its LEDs are black
\* (the condition under which README.md:21 holds of colors).
ColorsOverRescan ==
    [][RegisterRGBController /\ DevicesOf(pending) = scanned =>
         \A i \in DOMAIN pending : pending[i].dev = Min(todo) =>
            LET c == Last(controllers')
            IN  /\ c.dev = pending[i].dev
                /\ c.color = IF pending[i].size = DefaultSize /\ c.size = DefaultSize
                             THEN pending[i].color ELSE Black]_vars

\* The old controller that is matched is the one of the same device.
LEMMA OwnOld ==
  ASSUME TypeOK, Ordered, MatchedAreListed, detecting, DevicesOf(pending) = scanned,
         NEW c, Registers(c)
  PROVE  LET Old == Matches(pending, matched, Min(todo))
         IN  \E k \in DOMAIN pending :
                /\ pending[k].dev = Min(todo) /\ Old # {} /\ Min(Old) = k
                /\ matched' = EntriesOf(pending, Listed \cup {Min(todo)})
<1>. DEFINE d == Min(todo)
            Old == Matches(pending, matched, d)
<1>1. d \in todo /\ (\A e \in todo : d <= e) /\ matched' = matched \cup First(Old)
  BY DEF Registers
<1>2. pending \in ControllerLists /\ Increasing(pending) /\ matched = EntriesOf(pending, Listed)
  BY DEF TypeOK, MatchedAreListed
<1>. HIDE DEF d
<1>3. \E k \in DOMAIN pending :
         /\ pending[k].dev = d /\ Old # {} /\ Min(Old) = k
         /\ matched \cup First(Old) = EntriesOf(pending, Listed \cup {d})
  BY <1>1, <1>2, OwnNext
<1>. QED
  BY <1>1, <1>3 DEF d

\* Every step keeps the record of what was matched.
LEMMA MatchedStep ==
  ASSUME IInv, MatchedAreListed, [Next]_vars
  PROVE  MatchedAreListed'
<1>. USE DEF IInv
<1>1. ASSUME UNCHANGED <<pending, matched, detecting, scanned>>, Listed' = Listed
      PROVE  MatchedAreListed'
  BY <1>1 DEF MatchedAreListed, DevicesOf, EntriesOf, Increasing
<1>2. CASE DetectDevices
  <2>1. pending' = controllers /\ matched' = {} /\ Listed' = {}
    BY <1>2, EmptyList DEF DetectDevices, Listed
  <2>2. Increasing(controllers)
    BY DEF Ordered
  <2>. QED
    BY <2>1, <2>2 DEF MatchedAreListed, EntriesOf, Increasing
<1>3. CASE RegisterRGBController
  <2>1. PICK c : Registers(c)
    BY <1>3, Registration
  <2>2. detecting /\ UNCHANGED <<pending, detecting, scanned>>
    BY <1>3 DEF RegisterRGBController
  <2>3. Listed' = Listed \cup {Min(todo)}
    BY <2>1, <2>2, RegistrationOrder
  <2>4. DevicesOf(pending) = scanned => matched' = EntriesOf(pending, Listed')
    BY <2>1, <2>2, <2>3, OwnOld
  <2>. QED
    BY <2>2, <2>4 DEF MatchedAreListed, DevicesOf, EntriesOf, Increasing
<1>4. CASE ProcessPostDetection \/ Restart
  BY <1>4 DEF ProcessPostDetection, Restart, MatchedAreListed
<1>5. ASSUME NEW i \in DOMAIN controllers, NEW n \in Sizes, Resize(i, n)
      PROVE  MatchedAreListed'
  BY <1>1, <1>5, ResizeSame, SameListed DEF Resize
<1>6. ASSUME NEW i \in DOMAIN controllers, NEW c \in Colors, SetColor(i, c)
      PROVE  MatchedAreListed'
  BY <1>1, <1>6, SetColorSame, SameListed DEF SetColor
<1>7. CASE LoadProfile
  BY <1>1, <1>7, LoadProfileSame, SameListed DEF LoadProfile
<1>8. CASE LoadProfileAndSize
  BY <1>1, <1>8, LoadProfileAndSizeSame, SameListed DEF LoadProfileAndSize
<1>9. CASE (\E d \in Devices : Plug(d)) \/ OpenSizes \/ WriteSizes \/ SaveProfile
           \/ UNCHANGED vars
  BY <1>1, <1>9 DEF Plug, OpenSizes, WriteSizes, SaveProfile, devices, vars, Listed
<1>. QED
  BY <1>2, <1>3, <1>4, <1>5, <1>6, <1>7, <1>8, <1>9 DEF Next, ResizeAndSave, ResizeOnly

\* A registration in a rescan that finds the same devices.
LEMMA RescanStep ==
  ASSUME IInv, MatchedAreListed, RegisterRGBController, DevicesOf(pending) = scanned,
         NEW i \in DOMAIN pending, pending[i].dev = Min(todo)
  PROVE  LET c == Last(controllers')
         IN  /\ c.dev = pending[i].dev
             /\ c.color = IF pending[i].size = DefaultSize /\ c.size = DefaultSize
                          THEN pending[i].color ELSE Black
<1>. USE DEF IInv
<1>1. PICK c : Registers(c)
  BY Registration
<1>2. detecting /\ pending \in ControllerLists /\ Increasing(pending)
  BY DEF RegisterRGBController, TypeOK, MatchedAreListed
<1>3. PICK k \in DOMAIN pending :
          /\ pending[k].dev = Min(todo)
          /\ Matches(pending, matched, Min(todo)) # {}
          /\ Min(Matches(pending, matched, Min(todo))) = k
  BY <1>1, <1>2, OwnOld
<1>4. k = i
  BY <1>2, <1>3, OneEntry
<1>5. /\ c.dev = pending[i].dev
      /\ c.color = IF pending[i].size = DefaultSize /\ c.size = DefaultSize
                   THEN pending[i].color ELSE Black
  BY <1>1, <1>3, <1>4 DEF Registers
<1>6. Last(controllers') = c
  <2>1. controllers \in Seq(Entries) /\ c \in Entries /\ controllers' = Append(controllers, c)
    BY <1>1, Types DEF Registers, TypeOK
  <2>2. Len(controllers') = Len(controllers) + 1 /\ controllers'[Len(controllers) + 1] = c
    BY <2>1, AppendProperties
  <2>. QED
    BY <2>2 DEF Last
<1>. QED
  BY <1>5, <1>6

\* A rescan that finds the same devices keeps the colors of those whose zones
\* have the default size before and after, of no other, and mixes none up.
THEOREM RescanKeepsColors == Spec => ColorsOverRescan
<1>1. Init => MatchedAreListed
  BY DEF Init, MatchedAreListed
<1>2. IInv /\ MatchedAreListed /\ [Next]_vars => MatchedAreListed'
  BY MatchedStep
<1>3. ASSUME IInv, MatchedAreListed, [Next]_vars
      PROVE  [RegisterRGBController /\ DevicesOf(pending) = scanned =>
                \A i \in DOMAIN pending : pending[i].dev = Min(todo) =>
                   LET c == Last(controllers')
                   IN  /\ c.dev = pending[i].dev
                       /\ c.color = IF pending[i].size = DefaultSize /\ c.size = DefaultSize
                                    THEN pending[i].color ELSE Black]_vars
  BY <1>3, RescanStep
<1>. QED
  BY <1>1, <1>2, <1>3, Invariant, PTL DEF Spec, ColorsOverRescan

=============================================================================
