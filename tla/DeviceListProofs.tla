-------------------------- MODULE DeviceListProofs --------------------------
(***************************************************************************)
(* Theorems about DeviceList, for any number of hardware and remote        *)
(* controllers and lists of any length.                                    *)
(*                                                                         *)
(* The invariant follows UpdateDeviceList's three loops.  In a rebuild     *)
(* that at most additions by network clients disturb (Good) each pass of   *)
(* the first makes one more controller of the list agree with the          *)
(* hardware list (Agree, InsertPass), so that at its end the list is the   *)
(* hardware list followed by a surplus; the second collects exactly that   *)
(* surplus (CollectPass); while the third erases it, what is left to erase *)
(* is what is left of the surplus, with network clients' controllers       *)
(* behind it (ErasePass); and then nothing else is left (Finished).  What  *)
(* was recorded as added and as removed goes along where nobody wrote a    *)
(* list at all (Calm: InsertCalm to FinishedCalm).  It all needs that no   *)
(* list shows a controller twice, which a writer can only spoil between    *)
(* the search for a controller and its insertion (ListDistinct).           *)
(*                                                                         *)
(* Of a rebuild that others disturb nothing is said but that the writers   *)
(* who did owe one of their own (RacersOwe).  So the last one of them has  *)
(* a rebuild that is Good, and leaves the lists in order (AtRest).         *)
(***************************************************************************)
EXTENDS DeviceList, SequenceTheorems, WellFoundedInduction, TLAPS

-----------------------------------------------------------------------------
(***************************************************************************)
(* What std::vector's push_back, insert, erase, and std::find before it do *)
(* to the elements and the distinctness of a list.                         *)
(***************************************************************************)

\* Every set of naturals that is not empty has a least element, which Min gives.
LEMMA LeastElement ==
  ASSUME NEW T, T \subseteq Nat, T # {}
  PROVE  Min(T) \in T /\ \A m \in T : Min(T) <= m
<1>. DEFINE R == OpToRel(<, Nat)
<1>1. IsWellFoundedOn(R, Nat)
  BY NatLessThanWellFounded
<1>2. \A m, n \in Nat : m < n => <<m, n>> \in R
  BY DEF OpToRel
<1>. HIDE DEF R
<1>3. PICK n \in T : \A m \in T : ~(<<m, n>> \in R)
  BY <1>1, WFMin
<1>4. ASSUME NEW m \in T
      PROVE  n <= m
  <2>1. m \in Nat /\ n \in Nat
    OBVIOUS
  <2>2. ~(m < n)
    BY <1>2, <1>3, <2>1
  <2>. QED
    BY <2>1, <2>2
<1>. QED
  BY <1>4 DEF Min

\* A sequence's set of elements, and what it is for them to be distinct, by
\* index.
LEMMA Elements ==
  ASSUME NEW S, NEW s \in Seq(S)
  PROVE  /\ ToSet(s) \subseteq S
         /\ \A i \in 1..Len(s) : s[i] \in ToSet(s)
         /\ \A x \in ToSet(s) : \E i \in 1..Len(s) : s[i] = x
         /\ IsInjective(s) <=> \A i, j \in 1..Len(s) : s[i] = s[j] => i = j
BY DEF ToSet, IsInjective

\* Length and elements of a sequence whose i-th element is erased
\* (vector::erase).
LEMMA RemoveAtProperties ==
  ASSUME NEW S, NEW s \in Seq(S), NEW i \in 1..Len(s)
  PROVE  /\ RemoveAt(s, i) \in Seq(S)
         /\ Len(RemoveAt(s, i)) = Len(s) - 1
         /\ \A k \in 1..(Len(s) - 1) : RemoveAt(s, i)[k] = IF k < i THEN s[k] ELSE s[k + 1]
<1>. DEFINE a == SubSeq(s, 1, i - 1)
            b == SubSeq(s, i + 1, Len(s))
<1>1. /\ a \in Seq(S) /\ Len(a) = i - 1
      /\ \A k \in 1..(i - 1) : a[k] = s[k]
  <2>1. \A k \in 1..(i - 1) : s[k] \in S
    OBVIOUS
  <2>. QED
    BY <2>1, SubSeqProperties, i - 1 \in Int
<1>2. /\ b \in Seq(S) /\ Len(b) = Len(s) - i
      /\ \A k \in 1..(Len(s) - i) : b[k] = s[i + k]
  <2>1. \A k \in (i + 1)..Len(s) : s[k] \in S
    OBVIOUS
  <2>2. /\ b \in Seq(S)
        /\ Len(b) = IF i + 1 <= Len(s) THEN Len(s) - (i + 1) + 1 ELSE 0
        /\ \A k \in 1..(Len(s) - (i + 1) + 1) : b[k] = s[(i + 1) + k - 1]
    BY <2>1, SubSeqProperties, i + 1 \in Int, Len(s) \in Int
  <2>. QED
    BY <2>2
<1>. HIDE DEF a, b
<1>3. /\ a \o b \in Seq(S)
      /\ Len(a \o b) = Len(a) + Len(b)
      /\ \A k \in 1..(Len(a) + Len(b)) :
             (a \o b)[k] = IF k <= Len(a) THEN a[k] ELSE b[k - Len(a)]
  BY <1>1, <1>2, ConcatProperties
<1>4. RemoveAt(s, i) = a \o b
  BY DEF RemoveAt, a, b
<1>5. ASSUME NEW k \in 1..(Len(s) - 1)
      PROVE  (a \o b)[k] = IF k < i THEN s[k] ELSE s[k + 1]
  <2>1. CASE k < i
    BY <1>1, <1>2, <1>3, <2>1
  <2>2. CASE ~(k < i)
    <3>1. (a \o b)[k] = b[k - (i - 1)]
      BY <1>1, <1>2, <1>3, <2>2
    <3>2. k - (i - 1) \in 1..(Len(s) - i)
      BY <2>2
    <3>. QED
      BY <1>2, <2>2, <3>1, <3>2
  <2>. QED
    BY <2>1, <2>2
<1>6. Len(a) + Len(b) = Len(s) - 1
  BY <1>1, <1>2
<1>. QED
  BY <1>3, <1>4, <1>5, <1>6

\* Length and elements of a sequence with e inserted at i (vector::insert).
LEMMA InsertAtProperties ==
  ASSUME NEW S, NEW s \in Seq(S), NEW i \in 1..(Len(s) + 1), NEW e \in S
  PROVE  /\ InsertAt(s, i, e) \in Seq(S)
         /\ Len(InsertAt(s, i, e)) = Len(s) + 1
         /\ \A k \in 1..(Len(s) + 1) :
                InsertAt(s, i, e)[k] = IF k < i THEN s[k] ELSE IF k = i THEN e ELSE s[k - 1]
<1>. DEFINE a == SubSeq(s, 1, i - 1)
            b == SubSeq(s, i, Len(s))
<1>1. /\ a \in Seq(S) /\ Len(a) = i - 1
      /\ \A k \in 1..(i - 1) : a[k] = s[k]
  <2>1. \A k \in 1..(i - 1) : s[k] \in S
    OBVIOUS
  <2>. QED
    BY <2>1, SubSeqProperties, i - 1 \in Int
<1>2. /\ b \in Seq(S) /\ Len(b) = Len(s) - i + 1
      /\ \A k \in 1..(Len(s) - i + 1) : b[k] = s[i + k - 1]
  <2>1. \A k \in i..Len(s) : s[k] \in S
    OBVIOUS
  <2>. QED
    BY <2>1, SubSeqProperties, i \in Int, Len(s) \in Int
<1>. HIDE DEF a, b
<1>3. /\ a \o <<e>> \in Seq(S)
      /\ Len(a \o <<e>>) = i
      /\ \A k \in 1..i : (a \o <<e>>)[k] = IF k < i THEN s[k] ELSE e
  BY <1>1
<1>. DEFINE c == a \o <<e>>
<1>. HIDE DEF c
<1>4. /\ c \in Seq(S) /\ Len(c) = i
      /\ \A k \in 1..i : c[k] = IF k < i THEN s[k] ELSE e
  BY <1>3 DEF c
<1>5. /\ c \o b \in Seq(S)
      /\ Len(c \o b) = Len(c) + Len(b)
      /\ \A k \in 1..(Len(c) + Len(b)) :
             (c \o b)[k] = IF k <= Len(c) THEN c[k] ELSE b[k - Len(c)]
  BY <1>2, <1>4, ConcatProperties
<1>6. InsertAt(s, i, e) = c \o b
  BY DEF InsertAt, a, b, c
<1>7. ASSUME NEW k \in 1..(Len(s) + 1)
      PROVE  (c \o b)[k] = IF k < i THEN s[k] ELSE IF k = i THEN e ELSE s[k - 1]
  <2>1. CASE k <= i
    BY <1>2, <1>4, <1>5, <2>1
  <2>2. CASE ~(k <= i)
    <3>1. (c \o b)[k] = b[k - i]
      BY <1>2, <1>4, <1>5, <2>2
    <3>2. k - i \in 1..(Len(s) - i + 1)
      BY <2>2
    <3>. QED
      BY <1>2, <2>2, <3>1, <3>2
  <2>. QED
    BY <2>1, <2>2
<1>. QED
  BY <1>2, <1>4, <1>5, <1>6, <1>7

\* Removing the first occurrence of e (std::find, then erase) closes the gap it
\* leaves, and changes nothing where e does not occur.
LEMMA RemoveFirstProperties ==
  ASSUME NEW S, NEW s \in Seq(S), NEW e
  PROVE  /\ RemoveFirst(s, e) \in Seq(S)
         /\ e \notin ToSet(s) => RemoveFirst(s, e) = s
         /\ e \in ToSet(s) =>
               \E i \in 1..Len(s) :
                  /\ s[i] = e
                  /\ \A j \in 1..(i - 1) : s[j] # e
                  /\ Len(RemoveFirst(s, e)) = Len(s) - 1
                  /\ \A k \in 1..(Len(s) - 1) :
                        RemoveFirst(s, e)[k] = IF k < i THEN s[k] ELSE s[k + 1]
<1>1. CASE e \notin ToSet(s)
  <2>1. ~ \E i \in 1..Len(s) : s[i] = e
    BY <1>1 DEF ToSet
  <2>. QED
    BY <1>1, <2>1 DEF RemoveFirst
<1>2. CASE e \in ToSet(s)
  <2>. DEFINE I == {i \in 1..Len(s) : s[i] = e}
              m == Min(I)
  <2>1. I \subseteq Nat /\ I # {}
    BY <1>2 DEF ToSet
  <2>2. m \in I /\ \A j \in I : m <= j
    <3>. HIDE DEF I
    <3>. QED
      BY <2>1, LeastElement
  <2>3. RemoveFirst(s, e) = RemoveAt(s, m)
    BY <2>1 DEF RemoveFirst, SelectInSeq
  <2>. HIDE DEF m
  <2>4. m \in 1..Len(s) /\ s[m] = e /\ \A j \in 1..(m - 1) : s[j] # e
    BY <2>2
  <2>. QED
    <3>. DEFINE r == RemoveFirst(s, e)
    <3>1. /\ r \in Seq(S) /\ Len(r) = Len(s) - 1
          /\ \A k \in 1..(Len(s) - 1) : r[k] = IF k < m THEN s[k] ELSE s[k + 1]
      BY <2>3, <2>4, RemoveAtProperties
    <3>. HIDE DEF r
    <3>2. \E i \in 1..Len(s) :
             /\ s[i] = e
             /\ \A j \in 1..(i - 1) : s[j] # e
             /\ Len(r) = Len(s) - 1
             /\ \A k \in 1..(Len(s) - 1) : r[k] = IF k < i THEN s[k] ELSE s[k + 1]
      BY <2>4, <3>1
    <3>. QED
      BY <1>2, <3>1, <3>2 DEF r
<1>. QED
  BY <1>1, <1>2

\* What it leaves where there was something to remove.
LEMMA FoundAndErased ==
  ASSUME NEW S, NEW s \in Seq(S), NEW e \in ToSet(s)
  PROVE  \E n \in 1..Len(s) :
            /\ s[n] = e
            /\ \A j \in 1..(n - 1) : s[j] # e
            /\ Len(RemoveFirst(s, e)) = Len(s) - 1
            /\ \A k \in 1..(Len(s) - 1) :
                  RemoveFirst(s, e)[k] = IF k < n THEN s[k] ELSE s[k + 1]
<1>1. e \in ToSet(s) =>
          \E n \in 1..Len(s) :
             /\ s[n] = e
             /\ \A j \in 1..(n - 1) : s[j] # e
             /\ Len(RemoveFirst(s, e)) = Len(s) - 1
             /\ \A k \in 1..(Len(s) - 1) :
                   RemoveFirst(s, e)[k] = IF k < n THEN s[k] ELSE s[k + 1]
  BY RemoveFirstProperties, SMTT(30)
<1>. QED
  BY <1>1

\* Appending adds the element, and keeps a sequence without duplicates so if
\* the element is new.
LEMMA AppendDistinct ==
  ASSUME NEW S, NEW s \in Seq(S), NEW e \in S
  PROVE  /\ ToSet(Append(s, e)) = ToSet(s) \cup {e}
         /\ IsInjective(s) /\ e \notin ToSet(s) => IsInjective(Append(s, e))
<1>. DEFINE t == Append(s, e)
<1>1. /\ t \in Seq(S) /\ Len(t) = Len(s) + 1 /\ t[Len(s) + 1] = e
      /\ \A i \in 1..Len(s) : t[i] = s[i]
  BY AppendProperties
<1>. HIDE DEF t
<1>2. ToSet(t) \subseteq ToSet(s) \cup {e}
  <2>. SUFFICES ASSUME NEW i \in 1..Len(t)
                PROVE  t[i] \in ToSet(s) \cup {e}
    BY <1>1, Elements
  <2>. QED
    <3>1. CASE i <= Len(s)
      <4>1. i \in 1..Len(s) /\ t[i] = s[i]
        BY <1>1, <3>1
      <4>. QED
        BY <4>1, Elements
    <3>2. CASE ~(i <= Len(s))
      BY <1>1, <3>2
    <3>. QED
      BY <3>1, <3>2
<1>3. ToSet(s) \cup {e} \subseteq ToSet(t)
  <2>1. e \in ToSet(t)
    BY <1>1, Elements, Len(s) + 1 \in 1..Len(t)
  <2>2. ASSUME NEW i \in 1..Len(s)
        PROVE  s[i] \in ToSet(t)
    BY <1>1, Elements, i \in 1..Len(t)
  <2>. QED
    BY <2>1, <2>2, Elements
<1>4. ASSUME IsInjective(s), e \notin ToSet(s)
      PROVE  IsInjective(t)
  <2>. SUFFICES ASSUME NEW i \in 1..Len(t), NEW j \in 1..Len(t), t[i] = t[j]
                PROVE  i = j
    BY <1>1, Elements
  <2>1. \A k \in 1..Len(s) : s[k] # e
    BY <1>4, Elements
  <2>2. \A k, l \in 1..Len(s) : s[k] = s[l] => k = l
    BY <1>4, Elements
  <2>. QED
    BY <1>1, <2>1, <2>2
<1>. QED
  BY <1>2, <1>3, <1>4 DEF t

\* Without duplicates, removing the first occurrence removes the element
\* altogether, and makes no duplicates.
LEMMA RemoveFirstDistinct ==
  ASSUME NEW S, NEW s \in Seq(S), IsInjective(s), NEW e
  PROVE  /\ IsInjective(RemoveFirst(s, e))
         /\ ToSet(RemoveFirst(s, e)) = ToSet(s) \ {e}
<1>. DEFINE t == RemoveFirst(s, e)
<1>1. t \in Seq(S)
  BY RemoveFirstProperties
<1>2. CASE e \notin ToSet(s)
  BY <1>2, RemoveFirstProperties
<1>3. CASE e \in ToSet(s)
  <2>1. PICK n \in 1..Len(s) :
            /\ s[n] = e
            /\ Len(t) = Len(s) - 1
            /\ \A k \in 1..(Len(s) - 1) : t[k] = IF k < n THEN s[k] ELSE s[k + 1]
    BY <1>3, RemoveFirstProperties
  <2>2. \A i, j \in 1..Len(s) : s[i] = s[j] => i = j
    BY Elements
  <2>. HIDE DEF t
  <2>3. IsInjective(t)
    <3>. SUFFICES ASSUME NEW i \in 1..Len(t), NEW j \in 1..Len(t), t[i] = t[j]
                  PROVE  i = j
      BY <1>1, Elements
    <3>. QED
      <4>. DEFINE At(k) == IF k < n THEN k ELSE k + 1
      <4>1. /\ At(i) \in 1..Len(s) /\ t[i] = s[At(i)]
            /\ At(j) \in 1..Len(s) /\ t[j] = s[At(j)]
        BY <2>1
      <4>2. At(i) = At(j)
        BY <2>2, <4>1
      <4>. QED
        BY <4>2
  <2>4. ASSUME NEW k \in 1..Len(t)
        PROVE  t[k] \in ToSet(s) \ {e}
    <3>1. PICK j \in 1..Len(s) : t[k] = s[j] /\ j # n
      BY <2>1
    <3>2. s[j] \in ToSet(s) /\ s[j] # e
      BY <2>1, <2>2, <3>1, Elements
    <3>. QED
      BY <3>1, <3>2
  <2>5. ASSUME NEW i \in 1..Len(s), s[i] # e
        PROVE  s[i] \in ToSet(t)
    <3>1. CASE i < n
      <4>1. i \in 1..Len(t) /\ t[i] = s[i]
        BY <2>1, <3>1
      <4>. QED
        BY <1>1, <4>1, Elements
    <3>2. CASE ~(i < n)
      <4>1. i - 1 \in 1..Len(t) /\ t[i - 1] = s[i]
        BY <2>1, <2>5, <3>2
      <4>. QED
        BY <1>1, <4>1, Elements
    <3>. QED
      BY <3>1, <3>2
  <2>6. ToSet(t) = ToSet(s) \ {e}
    <3>1. \A x \in ToSet(t) : x \in ToSet(s) \ {e}
      BY <1>1, <2>4, Elements
    <3>2. ASSUME NEW x \in ToSet(s) \ {e}
          PROVE  x \in ToSet(t)
      <4>1. PICK i \in 1..Len(s) : s[i] = x
        BY Elements
      <4>. QED
        BY <2>5, <4>1
    <3>. QED
      BY <3>1, <3>2
  <2>. QED
    BY <2>3, <2>6 DEF t
<1>. QED
  BY <1>2, <1>3

\* Inserting an element that is new adds it, wherever it is inserted, and makes
\* no duplicates.
LEMMA InsertAtDistinct ==
  ASSUME NEW S, NEW s \in Seq(S), NEW n \in 1..(Len(s) + 1), NEW e \in S,
         IsInjective(s), e \notin ToSet(s)
  PROVE  /\ IsInjective(InsertAt(s, n, e))
         /\ ToSet(InsertAt(s, n, e)) = ToSet(s) \cup {e}
<1>. DEFINE t == InsertAt(s, n, e)
<1>1. /\ t \in Seq(S) /\ Len(t) = Len(s) + 1
      /\ \A k \in 1..(Len(s) + 1) :
             t[k] = IF k < n THEN s[k] ELSE IF k = n THEN e ELSE s[k - 1]
  BY InsertAtProperties
<1>2. \A i, j \in 1..Len(s) : s[i] = s[j] => i = j
  BY Elements
<1>3. \A i \in 1..Len(s) : s[i] # e
  BY Elements
<1>. HIDE DEF t
<1>4. IsInjective(t)
  <2>. SUFFICES ASSUME NEW i \in 1..Len(t), NEW j \in 1..Len(t), t[i] = t[j]
                PROVE  i = j
    BY <1>1, Elements
  <2>. DEFINE Old(k) == IF k < n THEN k ELSE k - 1
  <2>1. \A k \in 1..Len(t) : k # n => Old(k) \in 1..Len(s) /\ t[k] = s[Old(k)]
    BY <1>1
  <2>2. t[n] = e
    BY <1>1
  <2>3. CASE i # n /\ j # n
    <3>1. Old(i) = Old(j)
      <4>. HIDE DEF Old
      <4>. QED
        BY <1>2, <2>1, <2>3
    <3>. QED
      BY <1>1, <2>3, <3>1
  <2>4. CASE i = n \/ j = n
    <3>. HIDE DEF Old
    <3>. QED
      BY <1>3, <2>1, <2>2, <2>4
  <2>. QED
    BY <2>3, <2>4
<1>5. ASSUME NEW k \in 1..Len(t)
      PROVE  t[k] \in ToSet(s) \cup {e}
  <2>1. t[k] = e \/ \E i \in 1..Len(s) : t[k] = s[i]
    <3>1. CASE k < n
      BY <1>1, <3>1, k \in 1..Len(s)
    <3>2. CASE k > n
      BY <1>1, <3>2, k - 1 \in 1..Len(s)
    <3>3. CASE k = n
      BY <1>1, <3>3
    <3>. QED
      BY <3>1, <3>2, <3>3
  <2>. QED
    BY <2>1, Elements
<1>6. e \in ToSet(t)
  BY <1>1, Elements, n \in 1..Len(t), t[n] = e
<1>7. ASSUME NEW i \in 1..Len(s)
      PROVE  s[i] \in ToSet(t)
  <2>1. CASE i < n
    BY <1>1, <2>1, Elements, i \in 1..Len(t), t[i] = s[i]
  <2>2. CASE ~(i < n)
    BY <1>1, <2>2, Elements, i + 1 \in 1..Len(t), t[i + 1] = s[i]
  <2>. QED
    BY <2>1, <2>2
<1>8. ToSet(t) = ToSet(s) \cup {e}
  <2>1. \A x \in ToSet(t) : x \in ToSet(s) \cup {e}
    BY <1>1, <1>5, Elements
  <2>2. \A x \in ToSet(s) : x \in ToSet(t)
    BY <1>7, Elements
  <2>. QED
    BY <1>6, <2>1, <2>2
<1>. QED
  BY <1>4, <1>8 DEF t

-----------------------------------------------------------------------------
USE ControllerAssumption

\* A rebuild that at most additions by network clients disturb, of a list
\* without duplicates.
Good == raced \subseteq {"add"} /\ IsInjective(old)

\* The first n controllers of the list are those of the hardware list.
Agree(n) == n <= Len(list) /\ \A i \in 1..n : list[i] = hw[i]

\* Behind the first n controllers there are only those of network clients.
RemoteBehind(n) == \A i \in 1..Len(list) : i > n => list[i] \in Remote

\* added describes those of the first n controllers that are new.
NewAmong(n) ==
    /\ \A i \in 1..n : hw[i] \notin ToSet(old) =>
           \E e \in ToSet(added) : e.controller = hw[i]
    /\ \A e \in ToSet(added) :
           /\ e.index \in 1..n /\ hw[e.index] = e.controller
           /\ e.controller \notin ToSet(old)

\* s has n controllers, those of the list from behind its first Len(hw) on.
Surplus(s, n) == Len(s) = n /\ \A k \in 1..n : s[k] = list[Len(hw) + k]

\* removed describes all that were lost.
LostRecorded ==
    /\ {e.controller : e \in ToSet(removed)} = ToSet(old) \ ToSet(hw)
    /\ Len(hw) = Len(old) + Len(added) - Len(removed)

\* The hardware list has no controller twice, and none that is being removed.
HwDistinct ==
    /\ IsInjective(hw)
    /\ \A i \in 1..Len(hw) : at[hw[i]] \in {"registering", "in"}

\* Between search and insertion, the controller at idx is the one that was
\* searched for, and the list does not have it.
Holding == idx <= Len(hw) /\ hw[idx] = cur /\ \A i \in 1..Len(list) : list[i] # cur

\* As long as the hardware list did not shrink there, no list has a controller
\* twice.
ListDistinct ==
    "shrunk" \notin harm =>
        /\ IsInjective(list)
        /\ step # "idle" => IsInjective(old)
        /\ step = "place" => Holding

\* During the first loop, the controllers before idx are in place,
InsertPass ==
    step \in {"insert", "place"} /\ Good =>
        /\ IsInjective(list)
        /\ idx <= Len(hw) + 1 /\ Agree(idx - 1)
        /\ to_remove = <<>>
        /\ step = "place" => Holding

\* What was taken from the list to be inserted again.
InHand == IF step = "place" /\ ~is_new THEN 1 ELSE 0

\* and nothing else was added or lost if nobody wrote the list.
InsertCalm ==
    step \in {"insert", "place"} /\ Calm =>
        /\ NewAmong(idx - 1)
        /\ ToSet(list) \cup (IF InHand = 1 THEN {cur} ELSE {})
               = ToSet(old) \cup {hw[i] : i \in 1..(idx - 1)}
        /\ Len(list) + InHand = Len(old) + Len(added)
        /\ removed = <<>>
        /\ step = "place" => (is_new <=> cur \notin ToSet(old))

\* During the second, the surplus before idx is collected.
Collected == IF idx - 1 > Len(hw) THEN idx - 1 - Len(hw) ELSE 0
CollectPass ==
    step = "collect" /\ Good =>
        /\ IsInjective(list)
        /\ idx <= Len(list) + 1
        /\ Agree(Len(hw)) /\ Surplus(to_remove, Collected)

CollectCalm ==
    step = "collect" /\ Calm =>
        /\ NewAmong(Len(hw))
        /\ ToSet(list) = ToSet(old) \cup ToSet(hw)
        /\ Len(list) = Len(old) + Len(added)
        /\ Len(removed) = Len(to_remove)
        /\ \A k \in 1..Len(removed) : removed[k].controller = to_remove[k]

\* During the third, what is left of to_remove is the surplus of the list,
\* with nothing behind it but what network clients have added since.
ErasePass ==
    step = "erase" /\ Good =>
        /\ IsInjective(list)
        /\ Agree(Len(hw)) /\ Surplus(to_remove, Len(to_remove))
        /\ Len(hw) + Len(to_remove) <= Len(list)
        /\ RemoteBehind(Len(hw) + Len(to_remove))

EraseCalm ==
    step = "erase" /\ Calm =>
        /\ NewAmong(Len(hw)) /\ LostRecorded
        /\ Len(list) = Len(hw) + Len(to_remove)

\* When the callbacks run, the list is the hardware list and what was added
\* since, and the records are complete.
Finished ==
    step = "notify" /\ Good => Agree(Len(hw)) /\ RemoteBehind(Len(hw))

FinishedCalm ==
    step = "notify" /\ Calm => list = hw /\ NewAmong(Len(hw)) /\ LostRecorded

\* A rebuild that nobody disturbs does not miss the list.
NotMissed == Good => step # "broken"

Passes ==
    /\ InsertPass /\ InsertCalm /\ CollectPass /\ CollectCalm
    /\ ErasePass /\ EraseCalm /\ Finished /\ FinishedCalm /\ NotMissed

\* Who runs UpdateDeviceList has reason to.
CallerWaits ==
    /\ step = "idle" => by = "client"
    /\ by \in Controllers => at[by] \in {"registering", "leaving"}
    /\ by = "rescan" => rescan

\* Somebody other than b has changed a list and not yet called
\* UpdateDeviceList.
OwedBeside(b) ==
    \/ \E c \in Controllers : c # b /\ at[c] \in {"registering", "erasing", "leaving"}
    \/ rescan /\ b # "rescan"

\* A local writer that disturbs a rebuild owes one of its own.
RacersOwe == raced \cap {"register", "unregister", "cleanup"} # {} => OwedBeside(by)

\* When nobody owes one, the list shows the hardware.
AtRest ==
    step = "idle" /\ "shrunk" \notin harm /\ "drop" \notin raced /\ ~OwedBeside("client") =>
        Agree(Len(hw)) /\ RemoteBehind(Len(hw))

\* Between rebuilds nothing is recorded; what was searched for is local.
Locals ==
    /\ step \in {"idle", "notify"} => to_remove = <<>>
    /\ step = "idle" => added = <<>> /\ removed = <<>>
    /\ step = "place" => cur \in Controllers

\* The inductive invariant.
IInv ==
    /\ TypeOK /\ Locals /\ HwDistinct /\ ListDistinct /\ Passes
    /\ CallerWaits /\ RacersOwe /\ AtRest

-----------------------------------------------------------------------------
\* The types of the lists' lengths and elements, for arithmetic on their
\* indices.
LEMMA IndexTypes ==
  ASSUME TypeOK
  PROVE  /\ Len(hw) \in Nat /\ Len(list) \in Nat /\ Len(old) \in Nat
         /\ Len(added) \in Nat /\ Len(removed) \in Nat /\ Len(to_remove) \in Nat
         /\ hw \in Seq(Objects) /\ idx \in Nat /\ idx >= 1
         /\ \A i \in 1..Len(hw) : hw[i] \in Objects
         /\ \A i \in 1..Len(list) : list[i] \in Objects
<1>1. hw \in Seq(Objects)
  <2>1. Controllers \subseteq Objects
    BY DEF Objects
  <2>. QED
    BY <2>1, SeqMonotonic DEF TypeOK
<1>. QED
  BY <1>1 DEF TypeOK

\* While somebody rebuilds the list, a writer other than a network client that
\* adds controllers makes the rebuild one of which nothing is said.
LEMMA Disturbed ==
  ASSUME step' = step,
         step # "idle" => raced' \cap {"register", "unregister", "cleanup", "drop"} # {}
  PROVE  Passes'
<1>1. step' = "idle" \/ (~Good' /\ ~Calm')
  BY DEF Good, Calm
<1>. QED
  BY <1>1 DEF Passes, InsertPass, InsertCalm, CollectPass, CollectCalm, ErasePass,
              EraseCalm, Finished, FinishedCalm, NotMissed

\* A new controller joins the hardware list.
LEMMA RegisterStep ==
  ASSUME IInv, NEW c \in Controllers, Register(c)
  PROVE  IInv'
<1>. USE DEF IInv
<1>0. /\ at[c] = "out" /\ hw' = Append(hw, c) /\ at' = [at EXCEPT ![c] = "registering"]
      /\ raced' = IF step = "idle" THEN raced ELSE raced \cup {"register"}
      /\ UNCHANGED <<list, rescan, step, locals, old, harm>>
  BY DEF Register, Race
<1>1. hw \in Seq(Controllers) /\ at \in [Controllers -> Places] /\ raced \in SUBSET Writers
  BY DEF TypeOK
<1>2. /\ hw' \in Seq(Controllers) /\ Len(hw') = Len(hw) + 1 /\ Len(hw) \in Nat
      /\ \A i \in 1..Len(hw) : hw'[i] = hw[i]
      /\ hw'[Len(hw) + 1] = c
  BY <1>0, <1>1, AppendProperties
<1>3. \A i \in 1..Len(hw) : hw[i] # c
  BY <1>0 DEF HwDistinct
<1>4. TypeOK'
  BY <1>0, <1>1, <1>2 DEF TypeOK, Places, Writers, locals
<1>5. HwDistinct'
  <2>1. c \notin ToSet(hw)
    BY <1>1, <1>3, Elements
  <2>2. IsInjective(hw')
    BY <1>0, <1>1, <2>1, AppendDistinct DEF HwDistinct
  <2>3. ASSUME NEW i \in 1..Len(hw')
        PROVE  at'[hw'[i]] \in {"registering", "in"}
    <3>1. CASE i = Len(hw) + 1
      BY <1>0, <1>1, <1>2, <3>1
    <3>2. CASE i # Len(hw) + 1
      <4>1. i \in 1..Len(hw) /\ hw[i] \in Controllers /\ hw[i] # c
        BY <1>1, <1>2, <1>3, <3>2
      <4>2. at'[hw'[i]] = at[hw[i]]
        BY <1>0, <1>1, <1>2, <4>1
      <4>. QED
        BY <4>1, <4>2 DEF HwDistinct
    <3>. QED
      BY <3>1, <3>2
  <2>. QED
    BY <2>2, <2>3 DEF HwDistinct
<1>6. ListDistinct'
  <2>1. Holding => Holding'
    <3>. SUFFICES ASSUME Holding
                  PROVE  Holding'
      OBVIOUS
    <3>1. idx \in 1..Len(hw)
      BY <1>2, IndexTypes DEF Holding
    <3>. QED
      BY <1>0, <1>2, <3>1 DEF Holding, locals
  <2>. QED
    BY <1>0, <2>1 DEF ListDistinct, locals
<1>7. Passes' /\ Locals'
  BY <1>0, Disturbed DEF Locals, locals
<1>8. at'[c] = "registering" /\ by # c /\ by' = by
  BY <1>0, <1>1 DEF CallerWaits, locals
<1>9. CallerWaits' /\ RacersOwe'
  BY <1>0, <1>1, <1>8 DEF CallerWaits, RacersOwe, OwedBeside, locals
<1>10. AtRest'
  <2>1. c # "client"
    OBVIOUS
  <2>. QED
    BY <1>8, <2>1 DEF AtRest, OwedBeside
<1>. QED
  BY <1>4, <1>5, <1>6, <1>7, <1>9, <1>10

\* A controller leaves the hardware list.
LEMMA UnregisterStep ==
  ASSUME IInv, NEW c \in Controllers, Unregister(c)
  PROVE  IInv'
<1>. USE DEF IInv
<1>0. /\ at[c] = "in" /\ hw' = RemoveFirst(hw, c) /\ at' = [at EXCEPT ![c] = "erasing"]
      /\ raced' = IF step = "idle" THEN raced ELSE raced \cup {"unregister"}
      /\ harm' = IF step = "place" THEN harm \cup {"shrunk"} ELSE harm
      /\ UNCHANGED <<list, rescan, step, locals, old>>
  BY DEF Unregister, Race, ShrinksHw
<1>1. /\ hw \in Seq(Controllers) /\ at \in [Controllers -> Places]
      /\ raced \in SUBSET Writers /\ harm \in SUBSET Harms
  BY DEF TypeOK
<1>2. /\ hw' \in Seq(Controllers) /\ IsInjective(hw')
      /\ ToSet(hw') = ToSet(hw) \ {c}
  BY <1>0, <1>1, RemoveFirstProperties, RemoveFirstDistinct DEF HwDistinct
<1>4. TypeOK'
  BY <1>0, <1>1, <1>2 DEF TypeOK, Places, Writers, Harms, locals
<1>5. HwDistinct'
  <2>1. ASSUME NEW i \in 1..Len(hw')
        PROVE  at'[hw'[i]] \in {"registering", "in"}
    <3>1. hw'[i] \in ToSet(hw) /\ hw'[i] # c
      BY <1>2, Elements
    <3>2. PICK j \in 1..Len(hw) : hw[j] = hw'[i]
      BY <1>1, <3>1, Elements
    <3>3. hw[j] \in Controllers /\ at[hw[j]] \in {"registering", "in"}
      BY <1>1 DEF HwDistinct
    <3>. QED
      BY <1>0, <1>1, <3>1, <3>2, <3>3
  <2>. QED
    BY <1>2, <2>1 DEF HwDistinct
<1>6. ListDistinct'
  BY <1>0 DEF ListDistinct, locals
<1>7. Passes' /\ Locals'
  BY <1>0, Disturbed DEF Locals, locals
<1>8. at'[c] = "erasing" /\ by # c /\ by' = by
  BY <1>0, <1>1 DEF CallerWaits, locals
<1>9. CallerWaits' /\ RacersOwe'
  BY <1>0, <1>1, <1>8 DEF CallerWaits, RacersOwe, OwedBeside, locals
<1>10. AtRest'
  <2>1. c # "client"
    OBVIOUS
  <2>. QED
    BY <1>8, <2>1 DEF AtRest, OwedBeside
<1>. QED
  BY <1>4, <1>5, <1>6, <1>7, <1>9, <1>10

\* A list from which something was erased has what it had, none of it twice.
LEMMA ErasedList ==
  ASSUME TypeOK, NEW e, list' = RemoveFirst(list, e)
  PROVE  /\ list' \in Seq(Objects)
         /\ IsInjective(list) => IsInjective(list')
         /\ \A i \in 1..Len(list') : \E j \in 1..Len(list) : list'[i] = list[j]
<1>1. list \in Seq(Objects)
  BY DEF TypeOK
<1>2. list' \in Seq(Objects)
  BY <1>1, RemoveFirstProperties
<1>3. IsInjective(list) => IsInjective(list')
  BY <1>1, RemoveFirstDistinct
<1>4. ASSUME NEW i \in 1..Len(list')
      PROVE  \E j \in 1..Len(list) : list'[i] = list[j]
  <2>1. CASE e \notin ToSet(list)
    BY <1>1, <2>1, RemoveFirstProperties
  <2>2. CASE e \in ToSet(list)
    <3>0. \E n \in 1..Len(list) :
              /\ list[n] = e
              /\ \A j \in 1..(n - 1) : list[j] # e
              /\ Len(RemoveFirst(list, e)) = Len(list) - 1
              /\ \A k \in 1..(Len(list) - 1) :
                    RemoveFirst(list, e)[k] = IF k < n THEN list[k] ELSE list[k + 1]
      BY <1>1, <2>2, FoundAndErased, ZenonT(40)
    <3>1. PICK n \in 1..Len(list) :
              /\ Len(list') = Len(list) - 1
              /\ \A k \in 1..(Len(list) - 1) : list'[k] = IF k < n THEN list[k] ELSE list[k + 1]
      BY <3>0
    <3>2. Len(list) \in Nat /\ i \in 1..(Len(list) - 1)
      BY <1>1, <3>1
    <3>. QED
      BY <3>1, <3>2, i \in 1..Len(list), i + 1 \in 1..Len(list)
  <2>. QED
    BY <2>1, <2>2
<1>. QED
  BY <1>2, <1>3, <1>4

\* It leaves the shown list.
LEMMA UnregisterShownStep ==
  ASSUME IInv, NEW c \in Controllers, UnregisterShown(c)
  PROVE  IInv'
<1>. USE DEF IInv
<1>0. /\ at[c] = "erasing" /\ list' = RemoveFirst(list, c)
      /\ at' = [at EXCEPT ![c] = "leaving"]
      /\ raced' = IF step = "idle" THEN raced ELSE raced \cup {"unregister"}
      /\ harm' = IF step = "collect" THEN harm \cup {"shifted"} ELSE harm
      /\ UNCHANGED <<hw, rescan, step, locals, old>>
  BY DEF UnregisterShown, Race, ShrinksList
<1>1. /\ hw \in Seq(Controllers) /\ at \in [Controllers -> Places]
      /\ raced \in SUBSET Writers /\ harm \in SUBSET Harms
  BY DEF TypeOK
<1>2. /\ list' \in Seq(Objects)
      /\ IsInjective(list) => IsInjective(list')
      /\ \A i \in 1..Len(list') : \E j \in 1..Len(list) : list'[i] = list[j]
  BY <1>0, ErasedList
<1>4. TypeOK'
  BY <1>0, <1>1, <1>2 DEF TypeOK, Places, Writers, Harms, locals
<1>5. HwDistinct'
  <2>1. ASSUME NEW i \in 1..Len(hw)
        PROVE  at'[hw[i]] \in {"registering", "in"}
    <3>1. hw[i] \in Controllers /\ at[hw[i]] \in {"registering", "in"}
      BY <1>1 DEF HwDistinct
    <3>. QED
      BY <1>0, <1>1, <3>1
  <2>. QED
    BY <1>0, <2>1 DEF HwDistinct
<1>6. ListDistinct'
  BY <1>0, <1>2 DEF ListDistinct, Holding, locals
<1>7. Passes' /\ Locals'
  BY <1>0, Disturbed DEF Locals, locals
<1>8. at'[c] = "leaving" /\ by # c /\ by' = by
  BY <1>0, <1>1 DEF CallerWaits, locals
<1>9. CallerWaits' /\ RacersOwe'
  BY <1>0, <1>1, <1>8 DEF CallerWaits, RacersOwe, OwedBeside, locals
<1>10. AtRest'
  <2>1. c # "client"
    OBVIOUS
  <2>. QED
    BY <1>8, <2>1 DEF AtRest, OwedBeside
<1>. QED
  BY <1>4, <1>5, <1>6, <1>7, <1>9, <1>10

\* A rescan clears the hardware list.
LEMMA CleanupStep ==
  ASSUME IInv, Cleanup
  PROVE  IInv'
<1>. USE DEF IInv
<1>0. /\ ~rescan /\ hw' = <<>> /\ rescan' = TRUE
      /\ raced' = IF step = "idle" THEN raced ELSE raced \cup {"cleanup"}
      /\ harm' = IF step = "place" THEN harm \cup {"shrunk"} ELSE harm
      /\ UNCHANGED <<list, at, step, locals, old>>
  BY DEF Cleanup, Race, ShrinksHw
<1>1. raced \in SUBSET Writers /\ harm \in SUBSET Harms
  BY DEF TypeOK
<1>4. TypeOK'
  BY <1>0, <1>1 DEF TypeOK, Writers, Harms, locals
<1>5. HwDistinct'
  BY <1>0 DEF HwDistinct, IsInjective
<1>6. ListDistinct'
  BY <1>0 DEF ListDistinct, locals
<1>7. Passes' /\ Locals'
  BY <1>0, Disturbed DEF Locals, locals
<1>8. by # "rescan" /\ by' = by
  BY <1>0 DEF CallerWaits, locals
<1>9. CallerWaits' /\ RacersOwe'
  BY <1>0, <1>1, <1>8 DEF CallerWaits, RacersOwe, OwedBeside, locals
<1>10. AtRest'
  BY <1>0 DEF AtRest, OwedBeside
<1>. QED
  BY <1>4, <1>5, <1>6, <1>7, <1>9, <1>10

\* A network client's controller joins the end of the shown list.
LEMMA AddRemoteStep ==
  ASSUME IInv, NEW r \in Remote, AddRemote(r)
  PROVE  IInv'
<1>. USE DEF IInv
<1>0. /\ r \notin ToSet(list) \cup ToSet(to_remove) /\ list' = Append(list, r)
      /\ raced' = IF step = "idle" THEN raced ELSE raced \cup {"add"}
      /\ UNCHANGED <<hw, at, rescan, step, locals, old, harm>>
  BY DEF AddRemote, Race
<1>1. /\ hw \in Seq(Controllers) /\ list \in Seq(Objects) /\ r \in Objects
      /\ raced \in SUBSET Writers /\ cur \in Controllers \cup {<<>>}
      /\ Len(hw) \in Nat /\ Len(list) \in Nat /\ idx \in Nat /\ idx >= 1
      /\ Len(to_remove) \in Nat
  BY IndexTypes DEF TypeOK, Objects
<1>2. /\ list' \in Seq(Objects) /\ Len(list') = Len(list) + 1
      /\ \A i \in 1..Len(list) : list'[i] = list[i]
      /\ list'[Len(list) + 1] = r
  BY <1>0, <1>1, AppendProperties
<1>3. IsInjective(list) => IsInjective(list')
  BY <1>0, <1>1, AppendDistinct
<1>4. TypeOK'
  BY <1>0, <1>1, <1>2 DEF TypeOK, Writers, locals
<1>5. HwDistinct'
  BY <1>0 DEF HwDistinct
<1>6. step = "place" /\ Holding => Holding'
  <2>. SUFFICES ASSUME Holding
                PROVE  Holding'
    OBVIOUS
  <2>1. cur \in Controllers
    BY <1>1, IndexTypes DEF Holding
  <2>2. r # cur
    BY <2>1
  <2>. QED
    BY <1>0, <1>1, <1>2, <2>2 DEF Holding, locals
<1>7. ListDistinct' /\ Locals'
  BY <1>0, <1>3, <1>6 DEF ListDistinct, Locals, locals
<1>8. \A n \in Nat : Agree(n) => Agree(n)'
  BY <1>0, <1>1, <1>2 DEF Agree
<1>9. \A n \in Nat : RemoteBehind(n) => RemoteBehind(n)'
  <2>. SUFFICES ASSUME NEW n \in Nat, RemoteBehind(n), NEW i \in 1..Len(list'), i > n
                PROVE  list'[i] \in Remote
    BY DEF RemoteBehind
  <2>1. CASE i = Len(list) + 1
    BY <1>2, <2>1
  <2>2. CASE i # Len(list) + 1
    <3>1. i \in 1..Len(list)
      BY <1>1, <1>2, <2>2
    <3>. QED
      BY <1>2, <3>1 DEF RemoteBehind
  <2>. QED
    BY <2>1, <2>2
<1>10. \A n \in Nat : Len(hw) + n <= Len(list) /\ Surplus(to_remove, n) => Surplus(to_remove, n)'
  <2>. SUFFICES ASSUME NEW n \in Nat, Len(hw) + n <= Len(list), Surplus(to_remove, n)
                PROVE  Surplus(to_remove, n)'
    OBVIOUS
  <2>1. \A k \in 1..n : Len(hw) + k \in 1..Len(list) /\ list'[Len(hw) + k] = list[Len(hw) + k]
    BY <1>1, <1>2
  <2>. QED
    BY <1>0, <2>1 DEF Surplus, locals
<1>11. CASE step = "idle"
  <2>1. InsertPass' /\ InsertCalm' /\ CollectPass' /\ CollectCalm'
    BY <1>0, <1>11 DEF InsertPass, InsertCalm, CollectPass, CollectCalm
  <2>2. ErasePass' /\ EraseCalm' /\ Finished' /\ FinishedCalm' /\ NotMissed'
    BY <1>0, <1>11 DEF ErasePass, EraseCalm, Finished, FinishedCalm, NotMissed
  <2>3. CallerWaits' /\ RacersOwe'
    BY <1>0, <1>11 DEF CallerWaits, RacersOwe, OwedBeside, locals
  <2>4. AtRest'
    BY <1>0, <1>1, <1>8, <1>9, <1>11 DEF AtRest, OwedBeside
  <2>. QED
    BY <1>4, <1>5, <1>7, <2>1, <2>2, <2>3, <2>4 DEF Passes
<1>12. CASE step # "idle"
  <2>1. Good' => Good
    BY <1>0, <1>12 DEF Good
  <2>2. ~Calm'
    BY <1>0, <1>12 DEF Calm
  <2>3. InsertCalm' /\ CollectCalm' /\ EraseCalm' /\ FinishedCalm'
    BY <2>2 DEF InsertCalm, CollectCalm, EraseCalm, FinishedCalm
  <2>4. InsertPass'
    <3>1. idx - 1 \in Nat
      BY <1>1
    <3>. QED
      BY <1>0, <1>3, <1>6, <1>8, <2>1, <3>1 DEF Passes, InsertPass, locals
  <2>5. CollectPass'
    <3>. SUFFICES ASSUME step = "collect", Good
                  PROVE  CollectPass'
      BY <1>0, <2>1 DEF CollectPass
    <3>1. /\ IsInjective(list) /\ idx <= Len(list) + 1
          /\ Agree(Len(hw)) /\ Surplus(to_remove, Collected)
      BY DEF Passes, CollectPass
    <3>2. Collected \in Nat /\ Len(hw) + Collected <= Len(list) /\ Collected' = Collected
      BY <1>0, <1>1, <3>1 DEF Collected, Agree, locals
    <3>3. Surplus(to_remove, Collected)'
      <4>. DEFINE n == Collected
      <4>1. n \in Nat /\ Len(hw) + n <= Len(list) /\ Surplus(to_remove, n) /\ n' = n
        BY <3>1, <3>2
      <4>. HIDE DEF n
      <4>2. Surplus(to_remove, n)'
        BY <1>0, <1>10, <4>1 DEF Surplus, locals
      <4>. QED
        BY <4>2 DEF n
    <3>4. idx' <= Len(list') + 1 /\ Agree(Len(hw))'
      BY <1>0, <1>1, <1>2, <1>8, <3>1 DEF locals
    <3>. QED
      BY <1>3, <3>1, <3>3, <3>4 DEF CollectPass
  <2>6. ErasePass'
    <3>. SUFFICES ASSUME step = "erase", Good
                  PROVE  ErasePass'
      BY <1>0, <2>1 DEF ErasePass
    <3>1. /\ IsInjective(list)
          /\ Agree(Len(hw)) /\ Surplus(to_remove, Len(to_remove))
          /\ Len(hw) + Len(to_remove) <= Len(list)
          /\ RemoteBehind(Len(hw) + Len(to_remove))
      BY DEF Passes, ErasePass
    <3>2. Surplus(to_remove, Len(to_remove))'
      BY <1>0, <1>1, <1>10, <3>1 DEF Surplus, locals
    <3>3. Len(hw') + Len(to_remove') <= Len(list')
      BY <1>0, <1>1, <1>2, <3>1 DEF locals
    <3>4. RemoteBehind(Len(hw) + Len(to_remove))'
      <4>1. Len(hw) + Len(to_remove) \in Nat
        BY <1>1
      <4>2. RemoteBehind(Len(hw) + Len(to_remove))'
        BY <1>0, <1>9, <3>1, <4>1 DEF RemoteBehind, locals
      <4>. QED
        BY <4>2
    <3>. QED
      BY <1>0, <1>1, <1>3, <1>8, <3>1, <3>2, <3>3, <3>4 DEF ErasePass
  <2>7. Finished' /\ NotMissed'
    BY <1>0, <1>1, <1>8, <1>9, <2>1 DEF Passes, Finished, NotMissed
  <2>8. CallerWaits' /\ RacersOwe' /\ AtRest'
    BY <1>0, <1>12 DEF CallerWaits, RacersOwe, OwedBeside, AtRest, locals
  <2>. QED
    BY <1>4, <1>5, <1>7, <2>3, <2>4, <2>5, <2>6, <2>7, <2>8 DEF Passes
<1>. QED
  BY <1>11, <1>12

\* It leaves the shown list.
LEMMA DropRemoteStep ==
  ASSUME IInv, NEW r \in Remote, DropRemote(r)
  PROVE  IInv'
<1>. USE DEF IInv
<1>0. /\ r \in ToSet(list) /\ list' = RemoveFirst(list, r)
      /\ raced' = IF step = "idle" THEN raced ELSE raced \cup {"drop"}
      /\ harm' = IF step = "collect" THEN harm \cup {"shifted"} ELSE harm
      /\ UNCHANGED <<hw, at, rescan, step, locals, old>>
  BY DEF DropRemote, Race, ShrinksList
<1>1. /\ hw \in Seq(Controllers) /\ list \in Seq(Objects)
      /\ raced \in SUBSET Writers /\ harm \in SUBSET Harms
      /\ Len(hw) \in Nat /\ Len(list) \in Nat
  BY IndexTypes DEF TypeOK
<1>2. /\ list' \in Seq(Objects)
      /\ IsInjective(list) => IsInjective(list')
      /\ \A i \in 1..Len(list') : \E j \in 1..Len(list) : list'[i] = list[j]
  BY <1>0, ErasedList
<1>4. TypeOK'
  BY <1>0, <1>1, <1>2 DEF TypeOK, Writers, Harms, locals
<1>5. HwDistinct'
  BY <1>0 DEF HwDistinct
<1>6. ListDistinct'
  BY <1>0, <1>2 DEF ListDistinct, Holding, locals
<1>7. Passes' /\ Locals'
  BY <1>0, Disturbed DEF Locals, locals
<1>8. CallerWaits' /\ RacersOwe'
  BY <1>0, <1>1 DEF CallerWaits, RacersOwe, OwedBeside, locals
<1>9. Agree(Len(hw)) /\ RemoteBehind(Len(hw)) => Agree(Len(hw))' /\ RemoteBehind(Len(hw))'
  <2>. SUFFICES ASSUME Agree(Len(hw)), RemoteBehind(Len(hw))
                PROVE  Agree(Len(hw))' /\ RemoteBehind(Len(hw))'
    OBVIOUS
  <2>0. \E n \in 1..Len(list) :
            /\ list[n] = r
            /\ \A j \in 1..(n - 1) : list[j] # r
            /\ Len(RemoveFirst(list, r)) = Len(list) - 1
            /\ \A k \in 1..(Len(list) - 1) :
                  RemoveFirst(list, r)[k] = IF k < n THEN list[k] ELSE list[k + 1]
    BY <1>0, <1>1, FoundAndErased, ZenonT(40)
  <2>1. PICK n \in 1..Len(list) :
            /\ list[n] = r
            /\ Len(list') = Len(list) - 1
            /\ \A k \in 1..(Len(list) - 1) : list'[k] = IF k < n THEN list[k] ELSE list[k + 1]
    BY <1>0, <2>0
  <2>2. n > Len(hw)
    <3>1. ASSUME n <= Len(hw)
          PROVE  FALSE
      <4>1. n \in 1..Len(hw) /\ list[n] = hw[n]
        BY <1>1, <3>1 DEF Agree
      <4>2. hw[n] \in Controllers
        BY <1>1, <4>1
      <4>. QED
        BY <2>1, <4>1, <4>2
    <3>. QED
      BY <1>1, <3>1
  <2>3. Agree(Len(hw))'
    <3>1. ASSUME NEW k \in 1..Len(hw)
          PROVE  list'[k] = hw[k]
      <4>1. k \in 1..(Len(list) - 1) /\ k < n
        BY <1>1, <2>2
      <4>. QED
        BY <2>1, <4>1 DEF Agree
    <3>. QED
      BY <1>0, <1>1, <2>1, <2>2, <3>1 DEF Agree
  <2>4. ASSUME NEW k \in 1..Len(list'), k > Len(hw)
        PROVE  list'[k] \in Remote
    <3>1. k \in 1..(Len(list) - 1) /\ k \in 1..Len(list) /\ k + 1 \in 1..Len(list)
      BY <1>1, <2>1
    <3>2. list[k] \in Remote /\ list[k + 1] \in Remote
      BY <1>1, <2>4, <3>1 DEF RemoteBehind
    <3>. QED
      BY <2>1, <3>1, <3>2
  <2>. QED
    BY <1>0, <2>3, <2>4 DEF RemoteBehind
<1>10. AtRest'
  BY <1>0, <1>9 DEF AtRest, OwedBeside
<1>. QED
  BY <1>4, <1>5, <1>6, <1>7, <1>8, <1>10

\* The loops change neither the hardware list nor who owes a rebuild.
LEMMA LoopKeeps ==
  ASSUME IInv, step # "idle", step' # "idle",
         UNCHANGED <<hw, at, rescan, by, history>>
  PROVE  HwDistinct' /\ CallerWaits' /\ RacersOwe' /\ AtRest'
<1>. USE DEF IInv
<1>1. HwDistinct' /\ CallerWaits'
  BY DEF HwDistinct, CallerWaits
<1>2. RacersOwe' /\ AtRest'
  BY DEF RacersOwe, OwedBeside, AtRest, history
<1>. QED
  BY <1>1, <1>2

\* A rebuild starts with nothing compared and nothing recorded.
LEMMA LockStep ==
  ASSUME IInv, Lock
  PROVE  IInv'
<1>. USE DEF IInv
<1>0. /\ step = "idle" /\ by' \in Callers /\ step' = "insert" /\ idx' = 1
      /\ old' = list /\ raced' = {}
      /\ UNCHANGED <<hw, list, at, rescan, cur, is_new, to_remove, added, removed, harm>>
  BY DEF Lock
<1>. HIDE DEF Lock
<1>1. /\ hw \in Seq(Controllers) /\ list \in Seq(Objects) /\ at \in [Controllers -> Places]
      /\ Len(hw) \in Nat /\ Len(list) \in Nat
  BY IndexTypes DEF TypeOK
<1>2. /\ by' \in Controllers \cup {"rescan", "client"}
      /\ by' \in Controllers => at[by'] \in {"registering", "leaving"}
      /\ by' = "rescan" => rescan
  BY <1>0 DEF Callers
<1>3. TypeOK'
  BY <1>0, <1>2 DEF TypeOK, Steps
<1>4. HwDistinct' /\ ListDistinct'
  BY <1>0 DEF HwDistinct, ListDistinct
<1>5. CallerWaits'
  BY <1>0, <1>2 DEF CallerWaits
<1>6. RacersOwe' /\ AtRest'
  BY <1>0 DEF RacersOwe, AtRest
<1>7. to_remove = <<>> /\ added = <<>> /\ removed = <<>>
  BY <1>0 DEF Locals
<1>8. InsertPass'
  <2>1. Agree(idx - 1)'
    BY <1>0, <1>1 DEF Agree
  <2>2. idx' <= Len(hw') + 1 /\ to_remove' = <<>> /\ step' # "place"
    BY <1>0, <1>1, <1>7
  <2>3. Good' => IsInjective(list')
    BY <1>0 DEF Good
  <2>. QED
    BY <2>1, <2>2, <2>3 DEF InsertPass
<1>9. InsertCalm'
  <2>1. 1..(idx' - 1) = {}
    BY <1>0
  <2>2. NewAmong(idx - 1)'
    BY <1>0, <1>7, <2>1 DEF NewAmong, ToSet
  <2>3. {hw'[i] : i \in 1..(idx' - 1)} = {}
    BY <2>1
  <2>4. InHand' = 0
    BY <1>0 DEF InHand
  <2>5. Len(list') + InHand' = Len(old') + Len(added')
    <3>1. Len(added') = 0
      BY <1>0, <1>7
    <3>. QED
      BY <1>0, <1>1, <2>4, <3>1
  <2>. QED
    BY <1>0, <1>7, <2>2, <2>3, <2>4, <2>5 DEF InsertCalm
<1>10. Passes'
  BY <1>0, <1>8, <1>9 DEF Passes, CollectPass, CollectCalm, ErasePass, EraseCalm,
                          Finished, FinishedCalm, NotMissed
<1>11. Locals'
  BY <1>0 DEF Locals
<1>. QED
  BY <1>3, <1>4, <1>5, <1>6, <1>10, <1>11

\* A pass of the first loop leaves a controller that is in place, and takes
\* another out of the list.
LEMMA InsertStep ==
  ASSUME IInv, Insert
  PROVE  IInv'
<1>. USE DEF IInv
<1>. DEFINE c == hw[idx]
<1>0. /\ step = "insert" /\ idx <= Len(hw)
      /\ UNCHANGED <<hw, at, rescan, by, to_remove, added, removed, history>>
      /\ InPlace => idx' = idx + 1 /\ UNCHANGED <<list, step, cur, is_new>>
      /\ ~InPlace => /\ list' = RemoveFirst(list, c) /\ cur' = c
                     /\ is_new' = (c \notin ToSet(list))
                     /\ step' = "place" /\ idx' = idx
  BY DEF Insert
<1>1. /\ Len(hw) \in Nat /\ Len(list) \in Nat /\ Len(old) \in Nat
      /\ Len(added) \in Nat /\ idx \in Nat /\ idx >= 1
      /\ idx \in 1..Len(hw) /\ c \in Controllers /\ c \in Objects
      /\ hw \in Seq(Controllers) /\ hw \in Seq(Objects) /\ list \in Seq(Objects)
  BY <1>0, IndexTypes DEF TypeOK
<1>2. \A i, j \in 1..Len(hw) : hw[i] = hw[j] => i = j
  BY <1>1, Elements DEF HwDistinct
<1>3. HwDistinct' /\ CallerWaits' /\ RacersOwe' /\ AtRest'
  <2>1. step' # "idle" /\ step # "idle"
    BY <1>0
  <2>. QED
    BY <1>0, <2>1, LoopKeeps DEF history
<1>4. UNCHANGED <<old, raced, harm>> /\ (Good' <=> Good) /\ (Calm' <=> Calm)
  BY <1>0 DEF history, Good, Calm
<1>5. CASE InPlace
  <2>1. /\ step' = "insert" /\ idx' = idx + 1 /\ list' = list /\ list[idx] = c
        /\ idx <= Len(list) /\ UNCHANGED <<cur, is_new>>
    BY <1>0, <1>5 DEF InPlace
  <2>2. TypeOK' /\ ListDistinct' /\ Locals'
    BY <1>0, <1>1, <1>4, <2>1 DEF TypeOK, ListDistinct, Locals
  <2>3. InsertPass'
    <3>. SUFFICES ASSUME Good
                  PROVE  InsertPass'
      BY <1>4 DEF InsertPass
    <3>1. IsInjective(list) /\ Agree(idx - 1) /\ to_remove = <<>>
      BY <1>0 DEF Passes, InsertPass
    <3>2. ASSUME NEW i \in 1..idx
          PROVE  list[i] = hw[i]
      <4>1. i = idx \/ i \in 1..(idx - 1)
        BY <1>1
      <4>. QED
        BY <2>1, <3>1, <4>1 DEF Agree
    <3>3. idx' - 1 = idx /\ idx' <= Len(hw') + 1
      BY <1>0, <1>1, <2>1
    <3>4. Agree(idx - 1)'
      BY <1>0, <2>1, <3>2, <3>3 DEF Agree
    <3>. QED
      BY <1>0, <2>1, <3>1, <3>3, <3>4 DEF InsertPass
  <2>4. InsertCalm'
    <3>. SUFFICES ASSUME Calm
                  PROVE  InsertCalm'
      BY <1>4 DEF InsertCalm
    <3>0. Good /\ InHand = 0 /\ InHand' = 0
      BY <1>0, <2>1 DEF Good, Calm, InHand
    <3>1. /\ NewAmong(idx - 1)
          /\ ToSet(list) = ToSet(old) \cup {hw[i] : i \in 1..(idx - 1)}
          /\ Len(list) = Len(old) + Len(added)
          /\ removed = <<>>
      BY <1>0, <1>1, <3>0 DEF Passes, InsertCalm
    <3>2. c \in ToSet(list)
      BY <1>1, <2>1, Elements, idx \in 1..Len(list)
    <3>3. c \in ToSet(old)
      <4>1. \A i \in 1..(idx - 1) : hw[i] # c
        BY <1>1, <1>2
      <4>. QED
        BY <3>1, <3>2, <4>1
    <3>4. NewAmong(idx - 1)'
      <4>1. ASSUME NEW i \in 1..idx, hw[i] \notin ToSet(old)
            PROVE  \E e \in ToSet(added) : e.controller = hw[i]
        <5>1. i \in 1..(idx - 1)
          BY <1>1, <3>3, <4>1
        <5>. QED
          BY <3>1, <4>1, <5>1 DEF NewAmong
      <4>2. ASSUME NEW e \in ToSet(added)
            PROVE  /\ e.index \in 1..idx /\ hw[e.index] = e.controller
                   /\ e.controller \notin ToSet(old)
        BY <1>1, <3>1 DEF NewAmong
      <4>3. idx' - 1 = idx /\ hw' = hw /\ old' = old /\ added' = added
        BY <1>0, <1>1, <1>4, <2>1
      <4>. HIDE DEF c
      <4>4. \A i \in 1..(idx' - 1) : hw'[i] \notin ToSet(old') =>
                \E e \in ToSet(added') : e.controller = hw'[i]
        BY <4>1, <4>3
      <4>5. \A e \in ToSet(added') :
                /\ e.index \in 1..(idx' - 1) /\ hw'[e.index] = e.controller
                /\ e.controller \notin ToSet(old')
        BY <4>2, <4>3
      <4>. QED
        BY <4>4, <4>5 DEF NewAmong
    <3>5. ToSet(list') = ToSet(old') \cup {hw'[i] : i \in 1..(idx' - 1)}
      <4>1. 1..(idx' - 1) = (1..(idx - 1)) \cup {idx}
        BY <1>1, <2>1
      <4>2. {hw[i] : i \in 1..(idx' - 1)} = {hw[i] : i \in 1..(idx - 1)} \cup {c}
        BY <4>1
      <4>3. hw' = hw /\ old' = old /\ list' = list
        BY <1>0, <1>4, <2>1
      <4>4. ToSet(list) = ToSet(old) \cup {hw[i] : i \in 1..(idx - 1)}
        BY <3>1
      <4>. HIDE DEF c
      <4>5. ToSet(list) = ToSet(old) \cup {hw[i] : i \in 1..(idx' - 1)}
        BY <3>3, <4>2, <4>4
      <4>. QED
        BY <4>3, <4>5
    <3>. QED
      BY <1>0, <1>1, <1>4, <2>1, <3>0, <3>1, <3>4, <3>5 DEF InsertCalm
  <2>5. Passes'
    BY <2>1, <2>3, <2>4 DEF Passes, CollectPass, CollectCalm, ErasePass, EraseCalm,
                            Finished, FinishedCalm, NotMissed
  <2>. QED
    BY <1>3, <2>2, <2>5
<1>6. CASE ~InPlace
  <2>1. /\ step' = "place" /\ idx' = idx /\ list' = RemoveFirst(list, c) /\ cur' = c
        /\ is_new' = (c \notin ToSet(list))
    BY <1>0, <1>6
  <2>2. list' \in Seq(Objects)
    BY <1>1, <2>1, RemoveFirstProperties
  <2>3. ASSUME IsInjective(list)
        PROVE  IsInjective(list') /\ ToSet(list') = ToSet(list) \ {c} /\ Holding'
    <3>1. IsInjective(list') /\ ToSet(list') = ToSet(list) \ {c}
      BY <1>1, <2>1, <2>3, RemoveFirstDistinct
    <3>2. \A i \in 1..Len(list') : list'[i] # c
      BY <2>2, <3>1, Elements
    <3>. QED
      BY <1>0, <2>1, <3>1, <3>2 DEF Holding
  <2>4. TypeOK' /\ Locals'
    BY <1>0, <1>1, <1>4, <2>1, <2>2 DEF TypeOK, Locals, Steps
  <2>5. ListDistinct'
    BY <1>0, <1>4, <2>1, <2>3 DEF ListDistinct
  <2>6. ASSUME Good
        PROVE  InsertPass' /\ \A i \in 1..(idx - 1) : list[i] # c
    <3>1. IsInjective(list) /\ Agree(idx - 1) /\ to_remove = <<>>
      BY <1>0, <2>6 DEF Passes, InsertPass
    <3>2. \A i \in 1..(idx - 1) : list[i] # c
      BY <1>1, <1>2, <3>1 DEF Agree
    <3>3. Agree(idx - 1)'
      <4>1. CASE c \notin ToSet(list)
        <5>1. list' = list
          BY <1>1, <2>1, <4>1, RemoveFirstProperties
        <5>. QED
          BY <1>0, <2>1, <3>1, <5>1 DEF Agree
      <4>2. CASE c \in ToSet(list)
        <5>0. \E n \in 1..Len(list) :
                  /\ list[n] = c
                  /\ \A j \in 1..(n - 1) : list[j] # c
                  /\ Len(RemoveFirst(list, c)) = Len(list) - 1
                  /\ \A k \in 1..(Len(list) - 1) :
                        RemoveFirst(list, c)[k] = IF k < n THEN list[k] ELSE list[k + 1]
          BY <1>1, <4>2, FoundAndErased, ZenonT(40)
        <5>1. PICK n \in 1..Len(list) :
                  /\ list[n] = c
                  /\ Len(list') = Len(list) - 1
                  /\ \A k \in 1..(Len(list) - 1) : list'[k] = IF k < n THEN list[k] ELSE list[k + 1]
          BY <2>1, <5>0
        <5>. HIDE DEF c
        <5>2. n > idx - 1
          BY <1>1, <3>2, <5>1
        <5>3. idx - 1 <= Len(list')
          BY <1>1, <5>1, <5>2
        <5>4. ASSUME NEW k \in 1..(idx - 1)
              PROVE  list'[k] = hw[k]
          <6>1. k \in 1..(Len(list) - 1) /\ k < n
            BY <1>1, <5>1, <5>2
          <6>. QED
            BY <3>1, <5>1, <6>1 DEF Agree
        <5>. QED
          BY <1>0, <2>1, <5>3, <5>4 DEF Agree
      <4>. QED
        BY <4>1, <4>2
    <3>4. idx' <= Len(hw') + 1
      BY <1>0, <1>1, <2>1
    <3>. QED
      BY <1>0, <2>1, <2>3, <3>1, <3>2, <3>3, <3>4 DEF InsertPass
  <2>7. InsertPass'
    BY <1>4, <2>6 DEF InsertPass
  <2>8. InsertCalm'
    <3>. SUFFICES ASSUME Calm
                  PROVE  InsertCalm'
      BY <1>4 DEF InsertCalm
    <3>0. Good /\ InHand = 0
      BY <1>0 DEF Good, Calm, InHand
    <3>1. /\ NewAmong(idx - 1)
          /\ ToSet(list) = ToSet(old) \cup {hw[i] : i \in 1..(idx - 1)}
          /\ Len(list) = Len(old) + Len(added)
          /\ removed = <<>> /\ IsInjective(list)
      BY <1>0, <1>1, <3>0 DEF Passes, InsertCalm, InsertPass
    <3>2. is_new' <=> c \notin ToSet(old)
      <4>1. \A i \in 1..(idx - 1) : hw[i] # c
        BY <1>1, <1>2
      <4>. QED
        BY <2>1, <3>1, <4>1
    <3>3. NewAmong(idx - 1)'
      <4>1. idx' = idx /\ hw' = hw /\ old' = old /\ added' = added
        BY <1>0, <1>4, <2>1
      <4>. QED
        BY <3>1, <4>1 DEF NewAmong
    <3>4. ToSet(list') \cup (IF InHand' = 1 THEN {cur'} ELSE {}) = ToSet(list)
      <4>1. InHand' = IF c \in ToSet(list) THEN 1 ELSE 0
        BY <2>1 DEF InHand
      <4>2. ToSet(list') = ToSet(list) \ {c} /\ cur' = c
        BY <2>1, <2>3, <3>1
      <4>. HIDE DEF c
      <4>. QED
        BY <4>1, <4>2
    <3>5. Len(list') + InHand' = Len(list)
      <4>1. CASE c \notin ToSet(list)
        <5>1. list' = list /\ InHand' = 0
          BY <1>1, <2>1, <4>1, RemoveFirstProperties DEF InHand
        <5>. QED
          BY <1>1, <5>1
      <4>2. CASE c \in ToSet(list)
        <5>0. \E n \in 1..Len(list) :
                  /\ list[n] = c
                  /\ \A j \in 1..(n - 1) : list[j] # c
                  /\ Len(RemoveFirst(list, c)) = Len(list) - 1
                  /\ \A k \in 1..(Len(list) - 1) :
                        RemoveFirst(list, c)[k] = IF k < n THEN list[k] ELSE list[k + 1]
          BY <1>1, <4>2, FoundAndErased, ZenonT(40)
        <5>1. Len(list') = Len(list) - 1 /\ InHand' = 1
          BY <2>1, <4>2, <5>0 DEF InHand
        <5>. QED
          BY <1>1, <5>1
      <4>. QED
        BY <4>1, <4>2
    <3>. QED
      BY <1>0, <1>4, <2>1, <3>1, <3>2, <3>3, <3>4, <3>5 DEF InsertCalm
  <2>9. Passes'
    BY <2>1, <2>7, <2>8 DEF Passes, CollectPass, CollectCalm, ErasePass, EraseCalm,
                            Finished, FinishedCalm, NotMissed
  <2>. QED
    BY <1>3, <2>4, <2>5, <2>9
<1>. QED
  BY <1>5, <1>6

\* Inserting a controller that the list does not have puts it in its place and
\* leaves those before it where they are.
LEMMA PlaceStep ==
  ASSUME IInv, Place
  PROVE  IInv'
<1>. USE DEF IInv
<1>. DEFINE c == Present
            e == [index |-> idx, controller |-> c]
<1>0. /\ step = "place"
      /\ UNCHANGED <<hw, at, rescan, by, to_remove, removed, history>>
      /\ idx <= Len(list) + 1 =>
            /\ list' = InsertAt(list, idx, c)
            /\ added' = IF is_new THEN Append(added, e) ELSE added
            /\ idx' = idx + 1 /\ step' = "insert" /\ cur' = <<>> /\ is_new' = FALSE
      /\ ~(idx <= Len(list) + 1) =>
            step' = "broken" /\ UNCHANGED <<list, added, idx, cur, is_new>>
  BY DEF Place, Entry
<1>1. /\ Len(hw) \in Nat /\ Len(list) \in Nat /\ Len(old) \in Nat
      /\ Len(added) \in Nat /\ idx \in Nat /\ idx >= 1
      /\ hw \in Seq(Controllers) /\ hw \in Seq(Objects) /\ list \in Seq(Objects)
      /\ added \in Seq(Slots)
  BY <1>0, IndexTypes DEF TypeOK
<1>2. UNCHANGED <<old, raced, harm>> /\ (Good' <=> Good) /\ (Calm' <=> Calm)
  BY <1>0 DEF history, Good, Calm
<1>3. HwDistinct' /\ CallerWaits' /\ RacersOwe' /\ AtRest'
  <2>1. step' # "idle" /\ step # "idle"
    BY <1>0
  <2>. QED
    BY <1>0, <2>1, LoopKeeps DEF history
<1>4. c \in Controllers /\ c \in Objects
  BY <1>0, <1>1 DEF Present, Locals, Objects
<1>5. CASE ~(idx <= Len(list) + 1)
  <2>1. step' = "broken" /\ UNCHANGED <<list, added, idx, cur, is_new>>
    BY <1>0, <1>5
  <2>2. ~Good
    <3>. SUFFICES ASSUME Good
                  PROVE  FALSE
      OBVIOUS
    <3>1. idx - 1 <= Len(list)
      BY <1>0 DEF Passes, InsertPass, Agree
    <3>. QED
      BY <1>1, <1>5, <3>1
  <2>3. ~Good' /\ ~Calm'
    BY <1>2, <2>2 DEF Good, Calm
  <2>4. TypeOK' /\ Locals'
    BY <1>0, <1>2, <2>1 DEF TypeOK, Locals, Steps
  <2>5. ListDistinct'
    BY <1>0, <1>2, <2>1 DEF ListDistinct
  <2>6. Passes'
    BY <2>1, <2>3 DEF Passes, InsertPass, InsertCalm, CollectPass, CollectCalm,
                      ErasePass, EraseCalm, Finished, FinishedCalm, NotMissed
  <2>. QED
    BY <1>3, <2>4, <2>5, <2>6
<1>6. CASE idx <= Len(list) + 1
  <2>1. /\ list' = InsertAt(list, idx, c)
        /\ added' = IF is_new THEN Append(added, e) ELSE added
        /\ idx' = idx + 1 /\ step' = "insert" /\ cur' = <<>> /\ is_new' = FALSE
    BY <1>0, <1>6
  <2>2. idx \in 1..(Len(list) + 1)
    BY <1>1, <1>6
  <2>. HIDE DEF c
  <2>3. /\ list' \in Seq(Objects) /\ Len(list') = Len(list) + 1
        /\ \A k \in 1..(Len(list) + 1) :
               list'[k] = IF k < idx THEN list[k] ELSE IF k = idx THEN c ELSE list[k - 1]
    <3>1. /\ InsertAt(list, idx, c) \in Seq(Objects)
          /\ Len(InsertAt(list, idx, c)) = Len(list) + 1
          /\ \A k \in 1..(Len(list) + 1) :
                 InsertAt(list, idx, c)[k] =
                     IF k < idx THEN list[k] ELSE IF k = idx THEN c ELSE list[k - 1]
      <4>1. list \in Seq(Objects) /\ c \in Objects
        BY <1>1, <1>4
      <4>. QED
        BY <2>2, <4>1, InsertAtProperties
    <3>2. list' = InsertAt(list, idx, c)
      BY <2>1
    <3>. QED
      BY <3>1, <3>2
  <2>4. /\ added' \in Seq(Slots)
        /\ ~is_new => added' = added
        /\ is_new => ToSet(added') = ToSet(added) \cup {e} /\ Len(added') = Len(added) + 1
    <3>1. e \in Slots
      BY <1>1, <1>4 DEF Slots
    <3>. HIDE DEF e
    <3>. QED
      BY <1>1, <2>1, <3>1, AppendDistinct, AppendProperties
  <2>5. TypeOK' /\ Locals'
    <3>1. idx' \in Nat \ {0}
      BY <1>1, <2>1
    <3>. QED
      BY <1>0, <1>2, <2>1, <2>3, <2>4, <3>1 DEF TypeOK, Locals, Steps
  <2>6. ASSUME IsInjective(list), Holding
        PROVE  /\ c = hw[idx] /\ c = cur /\ idx \in 1..Len(hw)
               /\ IsInjective(list') /\ ToSet(list') = ToSet(list) \cup {c}
    <3>1. c = hw[idx] /\ c = cur /\ idx \in 1..Len(hw)
      BY <1>1, <2>6 DEF c, Present, Holding
    <3>2. c \notin ToSet(list)
      <4>1. \A i \in 1..Len(list) : list[i] # c
        BY <2>6, <3>1 DEF Holding
      <4>. QED
        BY <1>1, <4>1, Elements
    <3>3. IsInjective(list') /\ ToSet(list') = ToSet(list) \cup {c}
      BY <1>1, <1>4, <2>1, <2>2, <2>6, <3>2, InsertAtDistinct
    <3>. QED
      BY <3>1, <3>3
  <2>7. ListDistinct'
    <3>. SUFFICES ASSUME "shrunk" \notin harm
                  PROVE  ListDistinct'
      BY <1>2 DEF ListDistinct
    <3>1. IsInjective(list) /\ IsInjective(old) /\ Holding
      BY <1>0 DEF ListDistinct
    <3>. QED
      BY <1>2, <2>1, <2>6, <3>1 DEF ListDistinct
  <2>8. InsertPass'
    <3>. SUFFICES ASSUME Good
                  PROVE  InsertPass'
      BY <1>2 DEF InsertPass
    <3>1. IsInjective(list) /\ Agree(idx - 1) /\ to_remove = <<>> /\ Holding
      BY <1>0 DEF Passes, InsertPass
    <3>2. /\ c = hw[idx] /\ idx \in 1..Len(hw) /\ IsInjective(list')
      BY <2>6, <3>1
    <3>3. ASSUME NEW i \in 1..idx
          PROVE  list'[i] = hw[i]
      <4>1. CASE i = idx
        BY <1>1, <2>2, <2>3, <3>2, <4>1
      <4>2. CASE i # idx
        <5>1. i \in 1..(Len(list) + 1) /\ i < idx /\ i \in 1..(idx - 1)
          BY <1>1, <2>2, <4>2
        <5>. QED
          BY <2>3, <3>1, <5>1 DEF Agree
      <4>. QED
        BY <4>1, <4>2
    <3>4. idx' - 1 = idx /\ idx <= Len(list') /\ idx' <= Len(hw') + 1
      BY <1>0, <1>1, <2>1, <2>2, <2>3, <3>2
    <3>5. Agree(idx - 1)'
      BY <1>0, <3>3, <3>4 DEF Agree
    <3>. QED
      BY <1>0, <2>1, <3>1, <3>2, <3>4, <3>5 DEF InsertPass
  <2>9. InsertCalm'
    <3>. SUFFICES ASSUME Calm
                  PROVE  InsertCalm'
      BY <1>2 DEF InsertCalm
    <3>0. Good
      BY DEF Good, Calm
    <3>1. IsInjective(list) /\ Holding
      BY <1>0, <3>0 DEF Passes, InsertPass
    <3>2. /\ c = hw[idx] /\ c = cur /\ idx \in 1..Len(hw) /\ ToSet(list') = ToSet(list) \cup {c}
      BY <2>6, <3>1
    <3>3. /\ NewAmong(idx - 1)
          /\ ToSet(list) \cup (IF InHand = 1 THEN {cur} ELSE {})
                 = ToSet(old) \cup {hw[i] : i \in 1..(idx - 1)}
          /\ Len(list) + InHand = Len(old) + Len(added)
          /\ removed = <<>>
          /\ is_new <=> c \notin ToSet(old)
      BY <1>0, <3>2 DEF Passes, InsertCalm
    <3>4. InHand = (IF is_new THEN 0 ELSE 1) /\ InHand' = 0
      BY <1>0, <2>1 DEF InHand
    <3>5. idx' - 1 = idx /\ hw' = hw /\ old' = old
      BY <1>0, <1>1, <1>2, <2>1
    <3>6. NewAmong(idx - 1)'
      <4>1. ASSUME NEW i \in 1..idx, hw[i] \notin ToSet(old)
            PROVE  \E f \in ToSet(added') : f.controller = hw[i]
        <5>1. CASE i = idx
          <6>1. is_new
            BY <3>2, <3>3, <4>1, <5>1
          <6>2. e \in ToSet(added')
            BY <2>4, <6>1
          <6>. QED
            BY <3>2, <5>1, <6>2
        <5>2. CASE i # idx
          <6>1. i \in 1..(idx - 1)
            BY <1>1, <5>2
          <6>2. \E f \in ToSet(added) : f.controller = hw[i]
            BY <3>3, <4>1, <6>1 DEF NewAmong
          <6>3. ToSet(added) \subseteq ToSet(added')
            BY <2>4
          <6>. QED
            BY <6>2, <6>3
        <5>. QED
          BY <5>1, <5>2
      <4>2. ASSUME NEW f \in ToSet(added')
            PROVE  /\ f.index \in 1..idx /\ hw[f.index] = f.controller
                   /\ f.controller \notin ToSet(old)
        <5>1. CASE f \in ToSet(added)
          BY <1>1, <3>3, <5>1 DEF NewAmong
        <5>2. CASE f \notin ToSet(added)
          <6>1. is_new /\ f = e
            BY <2>4, <4>2, <5>2
          <6>2. f.index = idx /\ f.controller = c
            BY <6>1
          <6>3. hw[idx] = c /\ c \notin ToSet(old) /\ idx \in 1..idx
            BY <1>1, <3>2, <3>3, <6>1
          <6>. HIDE DEF e
          <6>. QED
            BY <6>2, <6>3
        <5>. QED
          BY <5>1, <5>2
      <4>3. \A i \in 1..(idx' - 1) : hw'[i] \notin ToSet(old') =>
                \E f \in ToSet(added') : f.controller = hw'[i]
        BY <3>5, <4>1
      <4>4. \A f \in ToSet(added') :
                /\ f.index \in 1..(idx' - 1) /\ hw'[f.index] = f.controller
                /\ f.controller \notin ToSet(old')
        BY <3>5, <4>2
      <4>. QED
        BY <4>3, <4>4 DEF NewAmong
    <3>7. ToSet(list') = ToSet(old') \cup {hw'[i] : i \in 1..(idx' - 1)}
      <4>1. 1..(idx' - 1) = (1..(idx - 1)) \cup {idx}
        BY <1>1, <3>5
      <4>2. {hw[i] : i \in 1..(idx' - 1)} = {hw[i] : i \in 1..(idx - 1)} \cup {c}
        BY <3>2, <4>1
      <4>3. ToSet(list) \cup {c} = ToSet(old) \cup {hw[i] : i \in 1..(idx - 1)} \cup {c}
        <5>1. CASE is_new
          BY <3>3, <3>4, <5>1
        <5>2. CASE ~is_new
          <6>1. ToSet(list) \cup {c} = ToSet(old) \cup {hw[i] : i \in 1..(idx - 1)}
            BY <3>2, <3>3, <3>4, <5>2
          <6>. QED
            BY <6>1
        <5>. QED
          BY <5>1, <5>2
      <4>4. ToSet(list') = ToSet(old) \cup {hw[i] : i \in 1..(idx' - 1)}
        BY <3>2, <4>2, <4>3
      <4>. QED
        BY <3>5, <4>4
    <3>8. Len(list') + InHand' = Len(old') + Len(added')
      <4>0. Len(list') = Len(list) + 1 /\ Len(list) + InHand = Len(old) + Len(added)
        BY <2>3, <3>3
      <4>1. CASE is_new
        <5>1. Len(added') = Len(added) + 1 /\ InHand = 0 /\ InHand' = 0
          BY <2>4, <3>4, <4>1
        <5>. QED
          BY <1>1, <3>5, <4>0, <5>1
      <4>2. CASE ~is_new
        <5>1. added' = added /\ InHand = 1 /\ InHand' = 0
          BY <2>4, <3>4, <4>2
        <5>. QED
          BY <1>1, <3>5, <4>0, <5>1
      <4>. QED
        BY <4>1, <4>2
    <3>. QED
      BY <1>0, <2>1, <3>3, <3>4, <3>6, <3>7, <3>8 DEF InsertCalm
  <2>10. Passes'
    BY <2>1, <2>8, <2>9 DEF Passes, CollectPass, CollectCalm, ErasePass, EraseCalm,
                            Finished, FinishedCalm, NotMissed
  <2>. QED
    BY <1>3, <2>5, <2>7, <2>10
<1>. QED
  BY <1>5, <1>6

\* After the last one the list begins with the hardware list.
LEMMA InsertDoneStep ==
  ASSUME IInv, InsertDone
  PROVE  IInv'
<1>. USE DEF IInv
<1>0. /\ step = "insert" /\ idx > Len(hw) /\ step' = "collect" /\ idx' = 1
      /\ UNCHANGED <<hw, list, at, rescan, by, cur, is_new, to_remove, added, removed, history>>
  BY DEF InsertDone
<1>1. UNCHANGED <<old, raced, harm>> /\ (Good' <=> Good) /\ (Calm' <=> Calm)
  BY <1>0 DEF history, Good, Calm
<1>2. HwDistinct' /\ CallerWaits' /\ RacersOwe' /\ AtRest'
  <2>1. step' # "idle" /\ step # "idle"
    BY <1>0
  <2>. QED
    BY <1>0, <2>1, LoopKeeps DEF history
<1>3. TypeOK' /\ Locals' /\ ListDistinct'
  BY <1>0, <1>1 DEF TypeOK, Locals, ListDistinct, Steps
<1>4. Len(hw) \in Nat /\ Len(list) \in Nat /\ idx \in Nat
  BY IndexTypes
<1>5. ASSUME Good
      PROVE  /\ idx - 1 = Len(hw) /\ IsInjective(list) /\ Agree(Len(hw)) /\ to_remove = <<>>
  <2>1. /\ idx <= Len(hw) + 1 /\ IsInjective(list) /\ Agree(idx - 1) /\ to_remove = <<>>
    BY <1>0, <1>5 DEF Passes, InsertPass
  <2>2. idx - 1 = Len(hw)
    BY <1>0, <1>4, <2>1
  <2>. QED
    BY <2>1, <2>2
<1>6. CollectPass'
  <2>. SUFFICES ASSUME Good
                PROVE  CollectPass'
    BY <1>1 DEF CollectPass
  <2>1. Collected' = 0
    BY <1>0, <1>4 DEF Collected
  <2>2. Surplus(to_remove, 0)'
    BY <1>0, <1>5 DEF Surplus
  <2>3. Agree(Len(hw))'
    BY <1>0, <1>5 DEF Agree
  <2>. QED
    BY <1>0, <1>4, <1>5, <2>1, <2>2, <2>3 DEF CollectPass, Surplus
<1>7. CollectCalm'
  <2>. SUFFICES ASSUME Calm
                PROVE  CollectCalm'
    BY <1>1 DEF CollectCalm
  <2>0. Good /\ InHand = 0
    BY <1>0 DEF Good, Calm, InHand
  <2>1. /\ NewAmong(idx - 1)
        /\ ToSet(list) = ToSet(old) \cup {hw[i] : i \in 1..(idx - 1)}
        /\ Len(list) + InHand = Len(old) + Len(added)
        /\ removed = <<>>
    BY <1>0, <2>0 DEF Passes, InsertCalm
  <2>2. {hw[i] : i \in 1..Len(hw)} = ToSet(hw)
    <3>1. DOMAIN hw = 1..Len(hw)
      BY DEF TypeOK
    <3>. QED
      BY <3>1 DEF ToSet
  <2>3. NewAmong(Len(hw))
    BY <1>5, <2>0, <2>1
  <2>4. NewAmong(Len(hw))'
    BY <1>0, <1>1, <2>3 DEF NewAmong
  <2>5. Len(list) = Len(old) + Len(added)
    BY <1>4, <2>0, <2>1
  <2>6. ToSet(list') = ToSet(old') \cup ToSet(hw')
    BY <1>0, <1>1, <1>5, <2>0, <2>1, <2>2
  <2>7. to_remove' = <<>> /\ removed' = <<>> /\ Len(list') = Len(old') + Len(added')
    BY <1>0, <1>1, <1>5, <2>0, <2>1, <2>5
  <2>. QED
    BY <2>4, <2>6, <2>7 DEF CollectCalm
<1>8. Passes'
  BY <1>0, <1>6, <1>7 DEF Passes, InsertPass, InsertCalm, ErasePass, EraseCalm,
                          Finished, FinishedCalm, NotMissed
<1>. QED
  BY <1>2, <1>3, <1>8

\* In a list that begins with the hardware list, the hardware controllers are
\* those at its beginning.
LEMMA BehindIsSurplus ==
  ASSUME TypeOK, IsInjective(list), Agree(Len(hw)), NEW i \in 1..Len(list)
  PROVE  list[i] \in ToSet(hw) <=> i <= Len(hw)
<1>0. /\ Len(hw) \in Nat /\ Len(list) \in Nat /\ list \in Seq(Objects) /\ hw \in Seq(Objects)
  BY IndexTypes DEF TypeOK
<1>1. CASE i <= Len(hw)
  BY <1>0, <1>1, Elements, i \in 1..Len(hw) DEF Agree
<1>2. ASSUME ~(i <= Len(hw)), list[i] \in ToSet(hw)
      PROVE  FALSE
  <2>1. PICK j \in 1..Len(hw) : hw[j] = list[i]
    BY <1>0, <1>2, Elements
  <2>2. j \in 1..Len(list) /\ list[j] = list[i]
    BY <1>0, <2>1 DEF Agree
  <2>3. j = i
    BY <1>0, <2>2, Elements
  <2>. QED
    BY <1>0, <1>2, <2>1, <2>3
<1>. QED
  BY <1>1, <1>2

\* A pass of the second loop records a controller exactly if it is surplus.
LEMMA CollectStep ==
  ASSUME IInv, Collect
  PROVE  IInv'
<1>. USE DEF IInv
<1>. DEFINE c == list[idx]
            e == [index |-> idx, controller |-> c]
<1>0. /\ step = "collect" /\ idx <= Len(list) /\ idx' = idx + 1
      /\ UNCHANGED <<hw, list, at, rescan, step, by, cur, is_new, added, history>>
      /\ c \in ToSet(hw) => UNCHANGED <<to_remove, removed>>
      /\ c \notin ToSet(hw) => to_remove' = Append(to_remove, c) /\ removed' = Append(removed, e)
  BY DEF Collect, Collecting, WithSlot, Entry
<1>1. /\ Len(hw) \in Nat /\ Len(list) \in Nat /\ idx \in 1..Len(list)
      /\ Len(to_remove) \in Nat /\ hw \in Seq(Objects) /\ list \in Seq(Objects)
      /\ to_remove \in Seq(Objects) /\ removed \in Seq(Slots) /\ idx \in Nat \ {0}
  BY <1>0, IndexTypes DEF TypeOK
<1>2. UNCHANGED <<old, raced, harm>> /\ (Good' <=> Good) /\ (Calm' <=> Calm)
  BY <1>0 DEF history, Good, Calm
<1>3. HwDistinct' /\ CallerWaits' /\ RacersOwe' /\ AtRest'
  <2>1. step' # "idle" /\ step # "idle"
    BY <1>0
  <2>. QED
    BY <1>0, <2>1, LoopKeeps DEF history
<1>4. c \in Objects /\ e \in Slots /\ e.controller = c
  BY <1>1 DEF Slots
<1>. HIDE DEF c, e
<1>5. ASSUME c \notin ToSet(hw)
      PROVE  /\ to_remove' \in Seq(Objects) /\ Len(to_remove') = Len(to_remove) + 1
             /\ \A k \in 1..Len(to_remove) : to_remove'[k] = to_remove[k]
             /\ to_remove'[Len(to_remove) + 1] = c
             /\ removed' \in Seq(Slots) /\ Len(removed') = Len(removed) + 1
             /\ \A k \in 1..Len(removed) : removed'[k] = removed[k]
             /\ removed'[Len(removed) + 1] = e
  <2>1. to_remove' = Append(to_remove, c) /\ removed' = Append(removed, e)
    BY <1>0, <1>5
  <2>2. /\ to_remove' \in Seq(Objects) /\ Len(to_remove') = Len(to_remove) + 1
        /\ \A k \in 1..Len(to_remove) : to_remove'[k] = to_remove[k]
        /\ to_remove'[Len(to_remove) + 1] = c
    BY <1>1, <1>4, <2>1, AppendProperties
  <2>3. /\ removed' \in Seq(Slots) /\ Len(removed') = Len(removed) + 1
        /\ \A k \in 1..Len(removed) : removed'[k] = removed[k]
        /\ removed'[Len(removed) + 1] = e
    BY <1>1, <1>4, <2>1, AppendProperties
  <2>. QED
    BY <2>2, <2>3
<1>6. TypeOK' /\ Locals' /\ ListDistinct'
  <2>1. to_remove' \in Seq(Objects) /\ removed' \in Seq(Slots)
    BY <1>0, <1>1, <1>5
  <2>2. idx' \in Nat \ {0}
    BY <1>0, <1>1
  <2>. QED
    BY <1>0, <1>2, <2>1, <2>2 DEF TypeOK, Locals, ListDistinct
<1>7. CollectPass'
  <2>. SUFFICES ASSUME Good
                PROVE  CollectPass'
    BY <1>2 DEF CollectPass
  <2>1. IsInjective(list) /\ Agree(Len(hw)) /\ Surplus(to_remove, Collected)
    BY <1>0 DEF Passes, CollectPass
  <2>2. c \in ToSet(hw) <=> idx <= Len(hw)
    BY <1>1, <2>1, BehindIsSurplus DEF c
  <2>3. Surplus(to_remove, Collected)'
    <3>1. CASE idx <= Len(hw)
      <4>1. to_remove' = to_remove /\ Collected = 0 /\ Collected' = 0
        BY <1>0, <1>1, <2>2, <3>1 DEF Collected
      <4>. QED
        BY <1>0, <2>1, <4>1 DEF Surplus
    <3>2. CASE ~(idx <= Len(hw))
      <4>. DEFINE n == Collected
      <4>1. n = idx - 1 - Len(hw) /\ n \in Nat /\ Collected' = n + 1
        BY <1>0, <1>1, <3>2 DEF Collected
      <4>. HIDE DEF n
      <4>2. Len(to_remove) = n /\ \A k \in 1..n : to_remove[k] = list[Len(hw) + k]
        BY <2>1 DEF n, Surplus
      <4>3. Len(to_remove') = n + 1
        BY <1>5, <2>2, <3>2, <4>2
      <4>4. ASSUME NEW k \in 1..(n + 1)
            PROVE  to_remove'[k] = list[Len(hw) + k]
        <5>1. CASE k = n + 1
          <6>1. to_remove'[k] = c
            BY <1>5, <2>2, <3>2, <4>2, <5>1
          <6>2. Len(hw) + k = idx
            BY <1>1, <4>1, <5>1
          <6>. QED
            BY <6>1, <6>2 DEF c
        <5>2. CASE k # n + 1
          <6>1. k \in 1..n
            BY <4>1, <5>2
          <6>. QED
            BY <1>5, <2>2, <3>2, <4>2, <6>1
        <5>. QED
          BY <5>1, <5>2
      <4>. QED
        BY <1>0, <4>1, <4>3, <4>4 DEF Surplus
    <3>. QED
      BY <3>1, <3>2
  <2>4. Agree(Len(hw))' /\ idx' <= Len(list') + 1
    BY <1>0, <1>1, <2>1 DEF Agree
  <2>. QED
    BY <1>0, <2>1, <2>3, <2>4 DEF CollectPass
<1>8. CollectCalm'
  <2>. SUFFICES ASSUME Calm
                PROVE  CollectCalm'
    BY <1>2 DEF CollectCalm
  <2>1. /\ NewAmong(Len(hw))
        /\ ToSet(list) = ToSet(old) \cup ToSet(hw)
        /\ Len(list) = Len(old) + Len(added)
        /\ Len(removed) = Len(to_remove)
        /\ \A k \in 1..Len(removed) : removed[k].controller = to_remove[k]
    BY <1>0 DEF Passes, CollectCalm
  <2>2. NewAmong(Len(hw))'
    BY <1>0, <1>2, <2>1 DEF NewAmong
  <2>3. Len(removed') = Len(to_remove')
    BY <1>0, <1>5, <2>1
  <2>4. ASSUME NEW k \in 1..Len(removed')
        PROVE  removed'[k].controller = to_remove'[k]
    <3>1. CASE c \in ToSet(hw)
      BY <1>0, <2>1, <3>1
    <3>2. CASE c \notin ToSet(hw)
      <4>1. CASE k = Len(removed) + 1
        BY <1>4, <1>5, <2>1, <3>2, <4>1
      <4>2. CASE k # Len(removed) + 1
        <5>1. k \in 1..Len(removed)
          BY <1>1, <1>5, <2>1, <3>2, <4>2
        <5>. QED
          BY <1>5, <2>1, <3>2, <5>1
      <4>. QED
        BY <4>1, <4>2
    <3>. QED
      BY <3>1, <3>2
  <2>5. ToSet(list') = ToSet(old') \cup ToSet(hw') /\ Len(list') = Len(old') + Len(added')
    BY <1>0, <1>2, <2>1
  <2>. QED
    BY <2>2, <2>3, <2>4, <2>5 DEF CollectCalm
<1>9. Passes'
  BY <1>0, <1>7, <1>8 DEF Passes, InsertPass, InsertCalm, ErasePass, EraseCalm,
                          Finished, FinishedCalm, NotMissed
<1>. QED
  BY <1>3, <1>6, <1>9

\* After the last one the whole surplus is recorded.
LEMMA CollectDoneStep ==
  ASSUME IInv, CollectDone
  PROVE  IInv'
<1>. USE DEF IInv
<1>0. /\ step = "collect" /\ ~(idx <= Len(list)) /\ step' = "erase"
      /\ UNCHANGED <<hw, list, at, rescan, locals, history>>
  BY DEF CollectDone, Collecting
<1>1. UNCHANGED <<by, added, removed, to_remove, old, raced, harm>>
      /\ (Good' <=> Good) /\ (Calm' <=> Calm)
  BY <1>0 DEF history, locals, Good, Calm
<1>2. HwDistinct' /\ CallerWaits' /\ RacersOwe' /\ AtRest'
  <2>1. step' # "idle" /\ step # "idle"
    BY <1>0
  <2>. QED
    BY <1>0, <2>1, LoopKeeps DEF history, locals
<1>3. TypeOK' /\ Locals' /\ ListDistinct'
  BY <1>0, <1>1 DEF TypeOK, Locals, ListDistinct, Steps, locals
<1>4. /\ Len(hw) \in Nat /\ Len(list) \in Nat /\ idx \in Nat /\ Len(to_remove) \in Nat
      /\ hw \in Seq(Objects) /\ list \in Seq(Objects) /\ removed \in Seq(Slots)
      /\ Len(old) \in Nat /\ Len(added) \in Nat
  BY IndexTypes DEF TypeOK
<1>5. ASSUME Good
      PROVE  /\ IsInjective(list) /\ Agree(Len(hw)) /\ Len(hw) <= Len(list)
             /\ Surplus(to_remove, Len(list) - Len(hw))
             /\ Len(to_remove) = Len(list) - Len(hw)
  <2>1. /\ IsInjective(list) /\ idx <= Len(list) + 1
        /\ Agree(Len(hw)) /\ Surplus(to_remove, Collected)
    BY <1>0, <1>5 DEF Passes, CollectPass
  <2>2. Len(hw) <= Len(list)
    BY <2>1 DEF Agree
  <2>3. Collected = Len(list) - Len(hw)
    BY <1>0, <1>4, <2>1, <2>2 DEF Collected
  <2>. QED
    BY <2>1, <2>2, <2>3 DEF Surplus
<1>6. ErasePass'
  <2>. SUFFICES ASSUME Good
                PROVE  ErasePass'
    BY <1>1 DEF ErasePass
  <2>1. Agree(Len(hw))'
    BY <1>0, <1>5 DEF Agree
  <2>2. Surplus(to_remove, Len(to_remove))'
    BY <1>0, <1>1, <1>5 DEF Surplus
  <2>3. Len(hw') + Len(to_remove') <= Len(list')
    BY <1>0, <1>1, <1>4, <1>5
  <2>4. RemoteBehind(Len(hw) + Len(to_remove))'
    BY <1>0, <1>1, <1>4, <1>5 DEF RemoteBehind
  <2>. QED
    BY <1>0, <1>5, <2>1, <2>2, <2>3, <2>4 DEF ErasePass
<1>7. ASSUME Calm
      PROVE  /\ NewAmong(Len(hw)) /\ LostRecorded
             /\ Len(list) = Len(hw) + Len(to_remove)
  <2>0. Good
    BY <1>7 DEF Good, Calm
  <2>1. /\ NewAmong(Len(hw))
        /\ ToSet(list) = ToSet(old) \cup ToSet(hw)
        /\ Len(list) = Len(old) + Len(added)
        /\ Len(removed) = Len(to_remove)
        /\ \A k \in 1..Len(removed) : removed[k].controller = to_remove[k]
    BY <1>0, <1>7 DEF Passes, CollectCalm
  <2>2. /\ IsInjective(list) /\ Agree(Len(hw)) /\ Len(hw) <= Len(list)
        /\ Len(removed) = Len(list) - Len(hw)
        /\ \A k \in 1..Len(removed) : removed[k].controller = list[Len(hw) + k]
    <3>1. /\ IsInjective(list) /\ Agree(Len(hw)) /\ Len(hw) <= Len(list)
          /\ Surplus(to_remove, Len(list) - Len(hw))
          /\ Len(to_remove) = Len(list) - Len(hw)
      BY <1>5, <2>0
    <3>2. \A k \in 1..Len(removed) : to_remove[k] = list[Len(hw) + k]
      BY <2>1, <3>1 DEF Surplus
    <3>. QED
      BY <2>1, <3>1, <3>2
  <2>3. \A i \in 1..Len(list) : list[i] \in ToSet(hw) <=> i <= Len(hw)
    BY <2>2, BehindIsSurplus
  <2>4. ASSUME NEW e \in ToSet(removed)
        PROVE  e.controller \in ToSet(old) \ ToSet(hw)
    <3>1. PICK k \in 1..Len(removed) : removed[k] = e
      BY <1>4, Elements
    <3>2. /\ e.controller = list[Len(hw) + k] /\ Len(hw) + k \in 1..Len(list)
          /\ ~(Len(hw) + k <= Len(hw))
      BY <1>4, <2>2, <3>1
    <3>3. e.controller \in ToSet(list) /\ e.controller \notin ToSet(hw)
      BY <1>4, <2>3, <3>2, Elements
    <3>. QED
      BY <2>1, <3>3
  <2>5. ASSUME NEW c \in ToSet(old) \ ToSet(hw)
        PROVE  \E e \in ToSet(removed) : e.controller = c
    <3>1. PICK i \in 1..Len(list) : list[i] = c
      <4>1. list \in Seq(Objects) /\ c \in ToSet(list)
        BY <1>4, <2>1, <2>5
      <4>. QED
        BY <4>1, Elements
    <3>2. i > Len(hw)
      BY <1>4, <2>3, <2>5, <3>1
    <3>. DEFINE k == i - Len(hw)
    <3>3. k \in 1..Len(removed) /\ Len(hw) + k = i
      BY <1>4, <2>2, <3>2
    <3>. HIDE DEF k
    <3>4. removed[k].controller = c
      BY <2>2, <3>1, <3>3
    <3>5. removed[k] \in ToSet(removed)
      BY <1>4, <3>3, Elements
    <3>. QED
      BY <3>4, <3>5
  <2>6. {e.controller : e \in ToSet(removed)} = ToSet(old) \ ToSet(hw)
    BY <2>4, <2>5
  <2>7. Len(hw) = Len(old) + Len(added) - Len(removed)
    BY <1>4, <2>1, <2>2
  <2>8. Len(list) = Len(hw) + Len(to_remove)
    BY <1>4, <2>1, <2>2
  <2>. QED
    BY <2>1, <2>6, <2>7, <2>8 DEF LostRecorded
<1>8. EraseCalm'
  <2>. SUFFICES ASSUME Calm
                PROVE  EraseCalm'
    BY <1>1 DEF EraseCalm
  <2>1. NewAmong(Len(hw))' /\ LostRecorded'
    BY <1>0, <1>1, <1>7 DEF NewAmong, LostRecorded
  <2>. QED
    BY <1>0, <1>1, <1>7, <2>1 DEF EraseCalm
<1>9. Passes'
  BY <1>0, <1>6, <1>8 DEF Passes, InsertPass, InsertCalm, CollectPass, CollectCalm,
                          Finished, FinishedCalm, NotMissed
<1>. QED
  BY <1>2, <1>3, <1>9

\* A pass of the third loop erases the first controller behind the hardware
\* part.
LEMMA EraseStep ==
  ASSUME IInv, Erase
  PROVE  IInv'
<1>. USE DEF IInv
<1>. DEFINE c == Head(to_remove)
            m == Len(hw) + 1
<1>0. /\ step = "erase" /\ to_remove # <<>>
      /\ list' = RemoveFirst(list, c) /\ to_remove' = Tail(to_remove)
      /\ UNCHANGED <<hw, at, rescan, step, by, idx, cur, is_new, added, removed, history>>
  BY DEF Erase, Erased
<1>1. /\ Len(hw) \in Nat /\ Len(list) \in Nat /\ Len(to_remove) \in Nat
      /\ list \in Seq(Objects) /\ to_remove \in Seq(Objects)
  BY IndexTypes DEF TypeOK
<1>2. UNCHANGED <<old, raced, harm>> /\ (Good' <=> Good) /\ (Calm' <=> Calm)
  BY <1>0 DEF history, Good, Calm
<1>3. HwDistinct' /\ CallerWaits' /\ RacersOwe' /\ AtRest'
  <2>1. step' # "idle" /\ step # "idle"
    BY <1>0
  <2>. QED
    BY <1>0, <2>1, LoopKeeps DEF history
<1>4. /\ Len(to_remove) >= 1 /\ c = to_remove[1]
      /\ to_remove' \in Seq(Objects) /\ Len(to_remove') = Len(to_remove) - 1
      /\ \A k \in 1..Len(to_remove') : to_remove'[k] = to_remove[k + 1]
  BY <1>0, <1>1, EmptySeq, HeadTailProperties
<1>. HIDE DEF c
<1>5. TypeOK' /\ Locals' /\ ListDistinct'
  <2>1. list' \in Seq(Objects)
    BY <1>0, <1>1, RemoveFirstProperties
  <2>2. IsInjective(list) => IsInjective(list')
    BY <1>0, <1>1, RemoveFirstDistinct
  <2>. QED
    BY <1>0, <1>2, <1>4, <2>1, <2>2 DEF TypeOK, Locals, ListDistinct
<1>6. ASSUME Good
      PROVE  /\ IsInjective(list') /\ Len(list') = Len(list) - 1
             /\ Agree(Len(hw))' /\ Surplus(to_remove, Len(to_remove))'
             /\ Len(hw') + Len(to_remove') <= Len(list')
             /\ RemoteBehind(Len(hw) + Len(to_remove))'
  <2>1. /\ IsInjective(list) /\ Agree(Len(hw)) /\ Surplus(to_remove, Len(to_remove))
        /\ Len(hw) + Len(to_remove) <= Len(list)
        /\ RemoteBehind(Len(hw) + Len(to_remove))
    BY <1>0, <1>6 DEF Passes, ErasePass
  <2>2. m \in 1..Len(list) /\ list[m] = c
    BY <1>1, <1>4, <2>1 DEF Surplus
  <2>3. c \in ToSet(list)
    BY <1>1, <2>2, Elements
  <2>4. \E i \in 1..Len(list) :
           /\ list[i] = c
           /\ \A j \in 1..(i - 1) : list[j] # c
           /\ Len(RemoveFirst(list, c)) = Len(list) - 1
           /\ \A k \in 1..(Len(list) - 1) :
                 RemoveFirst(list, c)[k] = IF k < i THEN list[k] ELSE list[k + 1]
    BY <1>1, <2>3, FoundAndErased
  <2>5. PICK i \in 1..Len(list) :
            /\ list[i] = c
            /\ Len(list') = Len(list) - 1
            /\ \A k \in 1..(Len(list) - 1) : list'[k] = IF k < i THEN list[k] ELSE list[k + 1]
    BY <1>0, <2>4
  <2>6. i = m
    <3>1. \A j, k \in 1..Len(list) : list[j] = list[k] => j = k
      BY <1>1, <2>1, Elements
    <3>. QED
      BY <2>2, <2>5, <3>1
  <2>7. IsInjective(list')
    BY <1>0, <1>1, <2>1, RemoveFirstDistinct
  <2>8. Agree(Len(hw))'
    <3>1. ASSUME NEW k \in 1..Len(hw)
          PROVE  list'[k] = hw[k]
      <4>1. k < i /\ k \in 1..(Len(list) - 1)
        BY <1>1, <2>2, <2>6
      <4>. QED
        BY <2>1, <2>5, <4>1 DEF Agree
    <3>2. hw' = hw /\ Len(hw) <= Len(list')
      BY <1>0, <1>1, <2>2, <2>5
    <3>. QED
      BY <3>1, <3>2 DEF Agree
  <2>9. Surplus(to_remove, Len(to_remove))'
    <3>1. ASSUME NEW k \in 1..Len(to_remove')
          PROVE  to_remove'[k] = list'[Len(hw) + k]
      <4>1. k + 1 \in 1..Len(to_remove) /\ to_remove'[k] = to_remove[k + 1]
        BY <1>1, <1>4
      <4>2. to_remove[k + 1] = list[Len(hw) + (k + 1)]
        BY <2>1, <4>1 DEF Surplus
      <4>3. Len(hw) + k \in 1..(Len(list) - 1) /\ ~(Len(hw) + k < i)
        BY <1>1, <1>4, <2>1, <2>6
      <4>4. list'[Len(hw) + k] = list[Len(hw) + k + 1]
        BY <2>5, <4>3
      <4>. QED
        BY <1>1, <4>1, <4>2, <4>4
    <3>2. hw' = hw
      BY <1>0
    <3>. QED
      BY <3>1, <3>2 DEF Surplus
  <2>10. RemoteBehind(Len(hw) + Len(to_remove))'
    <3>1. ASSUME NEW k \in 1..Len(list'), k > Len(hw) + Len(to_remove')
          PROVE  list'[k] \in Remote
      <4>1. k \in 1..(Len(list) - 1) /\ ~(k < i) /\ k + 1 \in 1..Len(list)
            /\ k + 1 > Len(hw) + Len(to_remove)
        BY <1>1, <1>4, <2>5, <2>6, <3>1
      <4>2. list'[k] = list[k + 1]
        BY <2>5, <4>1
      <4>. QED
        BY <2>1, <4>1, <4>2 DEF RemoteBehind
    <3>2. hw' = hw
      BY <1>0
    <3>. QED
      BY <3>1, <3>2 DEF RemoteBehind
  <2>11. Len(hw') + Len(to_remove') <= Len(list')
    BY <1>0, <1>1, <1>4, <2>1, <2>5
  <2>. QED
    BY <2>5, <2>7, <2>8, <2>9, <2>10, <2>11
<1>7. ErasePass'
  BY <1>2, <1>6 DEF ErasePass
<1>8. EraseCalm'
  <2>. SUFFICES ASSUME Calm
                PROVE  EraseCalm'
    BY <1>2 DEF EraseCalm
  <2>0. Good
    BY DEF Good, Calm
  <2>1. /\ NewAmong(Len(hw)) /\ LostRecorded
        /\ Len(list) = Len(hw) + Len(to_remove)
    BY <1>0 DEF Passes, EraseCalm
  <2>2. NewAmong(Len(hw))' /\ LostRecorded'
    BY <1>0, <1>2, <2>1 DEF NewAmong, LostRecorded
  <2>3. Len(list') = Len(list) - 1
    BY <1>6, <2>0
  <2>4. Len(list') = Len(hw') + Len(to_remove')
    BY <1>0, <1>1, <1>4, <2>1, <2>3
  <2>. QED
    BY <2>2, <2>4 DEF EraseCalm
<1>9. Passes'
  BY <1>0, <1>7, <1>8 DEF Passes, InsertPass, InsertCalm, CollectPass, CollectCalm,
                          Finished, FinishedCalm, NotMissed
<1>. QED
  BY <1>3, <1>5, <1>9

\* With nothing left to erase nothing is left behind the hardware part.
LEMMA EraseDoneStep ==
  ASSUME IInv, EraseDone
  PROVE  IInv'
<1>. USE DEF IInv
<1>0. /\ step = "erase" /\ to_remove = <<>> /\ step' = "notify"
      /\ UNCHANGED <<hw, list, at, rescan, locals, history>>
  BY DEF EraseDone
<1>1. UNCHANGED <<by, added, removed, to_remove, old, raced, harm>>
      /\ (Good' <=> Good) /\ (Calm' <=> Calm)
  BY <1>0 DEF history, locals, Good, Calm
<1>2. HwDistinct' /\ CallerWaits' /\ RacersOwe' /\ AtRest'
  <2>1. step' # "idle" /\ step # "idle"
    BY <1>0
  <2>. QED
    BY <1>0, <2>1, LoopKeeps DEF history, locals
<1>3. TypeOK' /\ Locals' /\ ListDistinct'
  BY <1>0, <1>1 DEF TypeOK, Locals, ListDistinct, Steps, locals
<1>4. /\ Len(hw) \in Nat /\ Len(list) \in Nat
      /\ hw \in Seq(Objects) /\ list \in Seq(Objects) /\ Len(to_remove) = 0
  BY <1>0, IndexTypes DEF TypeOK
<1>5. ASSUME Good
      PROVE  Agree(Len(hw)) /\ RemoteBehind(Len(hw))
  <2>1. Agree(Len(hw)) /\ RemoteBehind(Len(hw) + Len(to_remove))
    BY <1>0, <1>5 DEF Passes, ErasePass
  <2>2. Len(hw) + Len(to_remove) = Len(hw)
    BY <1>4
  <2>. QED
    BY <2>1, <2>2
<1>6. Finished'
  BY <1>0, <1>1, <1>5 DEF Finished, Agree, RemoteBehind
<1>7. FinishedCalm'
  <2>. SUFFICES ASSUME Calm
                PROVE  FinishedCalm'
    BY <1>1 DEF FinishedCalm
  <2>1. /\ NewAmong(Len(hw)) /\ LostRecorded /\ Len(list) = Len(hw) + Len(to_remove)
    BY <1>0 DEF Passes, EraseCalm
  <2>2. list = hw
    <3>1. Good
      BY DEF Good, Calm
    <3>2. Len(list) = Len(hw) /\ \A i \in 1..Len(list) : list[i] = hw[i]
      BY <1>4, <1>5, <2>1, <3>1 DEF Agree
    <3>. QED
      BY <1>4, <3>2, SeqEqual
  <2>3. NewAmong(Len(hw))' /\ LostRecorded'
    BY <1>0, <1>1, <2>1 DEF NewAmong, LostRecorded
  <2>. QED
    BY <1>0, <2>2, <2>3 DEF FinishedCalm
<1>8. Passes'
  BY <1>0, <1>6, <1>7 DEF Passes, InsertPass, InsertCalm, CollectPass, CollectCalm,
                          ErasePass, EraseCalm, NotMissed
<1>. QED
  BY <1>2, <1>3, <1>8

\* The return of UpdateDeviceList takes its caller off the list of those who
\* owe one, and nobody else.
LEMMA StillOwed ==
  ASSUME IInv, Notify, OwedBeside(by)
  PROVE  OwedBeside("client")'
<1>1. \A c \in Controllers : c # by => at'[c] = at[c]
  BY DEF Notify
<1>2. by # "rescan" => rescan' = rescan
  BY DEF Notify, IInv, TypeOK
<1>3. \A c \in Controllers : c # "client"
  OBVIOUS
<1>. QED
  BY <1>1, <1>2, <1>3 DEF OwedBeside

\* The callbacks change no list.
LEMMA NotifyStep ==
  ASSUME IInv, Notify
  PROVE  IInv'
<1>. USE DEF IInv
<1>0. /\ step = "notify" /\ step' = "idle" /\ by' = "client" /\ idx' = 1
      /\ at' = [c \in Controllers |->
                   IF c # by THEN at[c] ELSE IF at[c] = "leaving" THEN "gone" ELSE "in"]
      /\ rescan' = (rescan /\ by # "rescan")
      /\ added' = <<>> /\ removed' = <<>> /\ old' = <<>>
      /\ UNCHANGED <<hw, list, cur, is_new, to_remove, raced, harm>>
  BY DEF Notify
<1>1. Len(hw) \in Nat /\ Len(list) \in Nat /\ hw \in Seq(Controllers)
  BY IndexTypes DEF TypeOK
<1>2. to_remove = <<>>
  BY <1>0 DEF Locals
<1>3. TypeOK'
  <2>1. at' \in [Controllers -> Places] /\ rescan' \in BOOLEAN
    BY <1>0 DEF TypeOK, Places
  <2>. QED
    BY <1>0, <2>1 DEF TypeOK, Steps
<1>4. Locals' /\ ListDistinct'
  BY <1>0, <1>2 DEF Locals, ListDistinct
<1>5. HwDistinct'
  <2>1. ASSUME NEW i \in 1..Len(hw)
        PROVE  at'[hw[i]] \in {"registering", "in"}
    <3>1. hw[i] \in Controllers /\ at[hw[i]] \in {"registering", "in"}
      BY <1>1 DEF HwDistinct
    <3>. QED
      BY <1>0, <3>1
  <2>. QED
    BY <1>0, <2>1 DEF HwDistinct
<1>6. CallerWaits'
  BY <1>0 DEF CallerWaits
<1>7. RacersOwe'
  BY <1>0, StillOwed DEF RacersOwe
<1>8. AtRest'
  <2>. SUFFICES ASSUME "shrunk" \notin harm, "drop" \notin raced, ~OwedBeside("client")'
                PROVE  (Agree(Len(hw)) /\ RemoteBehind(Len(hw)))'
    BY <1>0 DEF AtRest
  <2>1. raced \subseteq {"add"}
    BY StillOwed DEF RacersOwe, TypeOK, Writers
  <2>2. IsInjective(old)
    BY <1>0 DEF ListDistinct
  <2>3. Agree(Len(hw)) /\ RemoteBehind(Len(hw))
    BY <1>0, <2>1, <2>2 DEF Good, Passes, Finished
  <2>. QED
    BY <1>0, <2>3 DEF Agree, RemoteBehind
<1>9. Passes'
  BY <1>0 DEF Passes, InsertPass, InsertCalm, CollectPass, CollectCalm,
              ErasePass, EraseCalm, Finished, FinishedCalm, NotMissed
<1>. QED
  BY <1>3, <1>4, <1>5, <1>6, <1>7, <1>8, <1>9

\* The invariant holds at first.
LEMMA InitHolds == Init => IInv
<1>. SUFFICES ASSUME Init
              PROVE  IInv
  OBVIOUS
<1>1. TypeOK
  <2>1. <<>> \in Seq(Controllers) /\ <<>> \in Seq(Objects) /\ <<>> \in Seq(Slots)
    OBVIOUS
  <2>2. /\ hw = <<>> /\ list = <<>> /\ old = <<>> /\ to_remove = <<>>
        /\ added = <<>> /\ removed = <<>> /\ cur = <<>>
    BY DEF Init
  <2>3. /\ at \in [Controllers -> Places] /\ step \in Steps /\ idx \in Nat \ {0}
        /\ by \in Controllers \cup {"rescan", "client"}
    <3>1. /\ at = [c \in Controllers |-> "out"] /\ step = "idle" /\ idx = 1 /\ by = "client"
      BY DEF Init
    <3>. QED
      BY <3>1 DEF Steps, Places
  <2>4. rescan \in BOOLEAN /\ is_new \in BOOLEAN
    BY DEF Init
  <2>5. raced \in SUBSET Writers /\ harm \in SUBSET Harms
    BY DEF Init
  <2>. QED
    <3>1. /\ hw \in Seq(Controllers) /\ list \in Seq(Objects) /\ old \in Seq(Objects)
          /\ to_remove \in Seq(Objects) /\ added \in Seq(Slots) /\ removed \in Seq(Slots)
      BY <2>1, <2>2
    <3>2. cur \in Controllers \cup {<<>>}
      BY <2>2
    <3>. QED
      BY <2>3, <2>4, <2>5, <3>1, <3>2, Zenon DEF TypeOK
<1>2. IsInjective(<<>>) /\ Len(<<>>) = 0
  BY DEF IsInjective
<1>3. Locals /\ HwDistinct /\ ListDistinct /\ CallerWaits
  BY <1>2 DEF Init, Locals, HwDistinct, ListDistinct, CallerWaits
<1>4. Passes
  BY DEF Init, Passes, InsertPass, InsertCalm, CollectPass, CollectCalm,
         ErasePass, EraseCalm, Finished, FinishedCalm, NotMissed
<1>5. RacersOwe /\ AtRest
  BY <1>2 DEF Init, RacersOwe, AtRest, Agree, RemoteBehind
<1>. QED
  BY <1>1, <1>3, <1>4, <1>5 DEF IInv

\* Every step preserves it.
LEMMA StepHolds == IInv /\ [Next]_vars => IInv'
<1>. SUFFICES ASSUME IInv, [Next]_vars
              PROVE  IInv'
  OBVIOUS
<1>1. CASE UNCHANGED vars
  <2>. USE <1>1 DEF vars, locals, history
  <2>1. TypeOK' /\ Locals' /\ HwDistinct' /\ ListDistinct'
    BY DEF IInv, TypeOK, Locals, HwDistinct, ListDistinct, Holding
  <2>2. InsertPass' /\ CollectPass' /\ ErasePass' /\ Finished' /\ NotMissed'
    BY DEF IInv, Passes, InsertPass, CollectPass, ErasePass, Finished, NotMissed,
           Good, Agree, Holding, Surplus, Collected, RemoteBehind
  <2>3. InsertCalm'
    BY DEF IInv, Passes, InsertCalm, Calm, NewAmong, InHand
  <2>4. CollectCalm' /\ EraseCalm' /\ FinishedCalm'
    BY DEF IInv, Passes, CollectCalm, EraseCalm, FinishedCalm, Calm, NewAmong, LostRecorded
  <2>5. CallerWaits' /\ RacersOwe' /\ AtRest'
    BY DEF IInv, CallerWaits, RacersOwe, AtRest, OwedBeside, Agree, RemoteBehind
  <2>. QED
    BY <2>1, <2>2, <2>3, <2>4, <2>5 DEF IInv, Passes
<1>2. CASE Next
  <2>1. CASE UpdateDeviceList
    BY <2>1, LockStep, InsertStep, PlaceStep, InsertDoneStep, CollectStep, CollectDoneStep,
       EraseStep, EraseDoneStep, NotifyStep DEF UpdateDeviceList
  <2>2. CASE Write
    BY <2>2, RegisterStep, UnregisterStep, UnregisterShownStep, CleanupStep,
       AddRemoteStep, DropRemoteStep DEF Write
  <2>. QED
    BY <1>2, <2>1, <2>2 DEF Next
<1>. QED
  BY <1>1, <1>2

\* So it always holds.
LEMMA AlwaysIInv == Spec => []IInv
  BY InitHolds, StepHolds, PTL DEF Spec

-----------------------------------------------------------------------------
\* Whoever looks at the list in the middle of a rebuild finds no controller
\* twice, unless the hardware list shrank before an insertion, and in a rebuild
\* that nobody disturbs every controller that stays.
THEOREM ListIsSound == Spec => []SoundMidRebuild
<1>1. IInv => SoundMidRebuild
  <2>. SUFFICES ASSUME IInv
                PROVE  SoundMidRebuild
    OBVIOUS
  <2>. USE DEF IInv
  <2>0. hw \in Seq(Objects) /\ list \in Seq(Objects) /\ step \in Steps
    BY IndexTypes DEF TypeOK
  <2>1. Agree(Len(hw)) => ToSet(hw) \subseteq ToSet(list)
    <3>. SUFFICES ASSUME Agree(Len(hw)), NEW c \in ToSet(hw)
                  PROVE  c \in ToSet(list)
      OBVIOUS
    <3>1. PICK i \in 1..Len(hw) : hw[i] = c
      BY <2>0, Elements
    <3>2. i \in 1..Len(list) /\ list[i] = c
      BY <3>1, IndexTypes DEF Agree
    <3>. QED
      BY <2>0, <3>2, Elements
  <2>2. "shrunk" \notin harm => IsInjective(list)
    BY DEF ListDistinct
  <2>3. ASSUME Calm
        PROVE  /\ step # "broken"
               /\ step # "idle" =>
                      ToSet(old) \cap ToSet(hw) \subseteq
                          ToSet(list) \cup (IF step = "place" THEN {cur} ELSE {})
               /\ step \notin {"idle", "insert", "place"} => ToSet(hw) \subseteq ToSet(list)
    <3>1. Good /\ step # "broken"
      BY <2>3 DEF Good, Calm, Passes, NotMissed
    <3>2. step \in {"insert", "place"} =>
              ToSet(old) \subseteq ToSet(list) \cup (IF step = "place" THEN {cur} ELSE {})
      BY <2>3 DEF Passes, InsertCalm, InHand
    <3>3. step \in {"collect", "erase", "notify"} => ToSet(hw) \subseteq ToSet(list)
      BY <2>1, <3>1 DEF Passes, CollectPass, ErasePass, Finished
    <3>. QED
      BY <2>0, <3>1, <3>2, <3>3 DEF Steps
  <2>. QED
    BY <2>2, <2>3 DEF SoundMidRebuild
<1>. QED
  BY <1>1, AlwaysIInv, PTL

\* When the callbacks of an undisturbed rebuild run, what it recorded as added
\* and removed is the difference between the list before and after it, and the
\* lengths add up.
THEOREM DeltasRight == Spec => []DeltasComplete
<1>1. IInv => DeltasComplete
  <2>. SUFFICES ASSUME IInv, step = "notify", Calm
                PROVE  /\ ToSet(list) \ ToSet(old) = {e.controller : e \in ToSet(added)}
                       /\ ToSet(old) \ ToSet(list) = {e.controller : e \in ToSet(removed)}
                       /\ Len(list) = Len(old) + Len(added) - Len(removed)
                       /\ \A e \in ToSet(added) :
                              e.index \in DOMAIN list /\ list[e.index] = e.controller
    BY DEF DeltasComplete
  <2>1. TypeOK /\ list = hw /\ NewAmong(Len(hw)) /\ LostRecorded
    BY DEF IInv, Passes, FinishedCalm
  <2>2. list \in Seq(Objects) /\ DOMAIN list = 1..Len(list) /\ Len(list) \in Nat
    BY <2>1 DEF TypeOK
  <2>3. ASSUME NEW e \in ToSet(added)
        PROVE  /\ e.index \in DOMAIN list /\ list[e.index] = e.controller
               /\ e.controller \in ToSet(list) \ ToSet(old)
    BY <2>1, <2>2, Elements DEF NewAmong
  <2>4. ASSUME NEW c \in ToSet(list) \ ToSet(old)
        PROVE  \E e \in ToSet(added) : e.controller = c
    <3>1. PICK i \in 1..Len(list) : list[i] = c
      BY <2>2, Elements
    <3>. QED
      BY <2>1, <2>4, <3>1 DEF NewAmong
  <2>5. ToSet(list) \ ToSet(old) = {e.controller : e \in ToSet(added)}
    BY <2>3, <2>4
  <2>. QED
    BY <2>1, <2>3, <2>5 DEF LostRecorded
<1>. QED
  BY <1>1, AlwaysIInv, PTL

\* Once every writer has had its own UpdateDeviceList, the list begins with the
\* hardware list and has only controllers of network clients behind it,
\* whatever writers did to the rebuilds before, but for the two cases that
\* RacesHeal names.
THEOREM RacesAreHealed == Spec => []RacesHeal
<1>1. IInv => RacesHeal
  <2>. SUFFICES ASSUME IInv, Settled, "shrunk" \notin harm, "drop" \notin raced
                PROVE  /\ IsPrefix(hw, list)
                       /\ \A i \in DOMAIN list : i > Len(hw) => list[i] \in Remote
    BY DEF RacesHeal
  <2>. USE DEF IInv
  <2>0. /\ Len(hw) \in Nat /\ Len(list) \in Nat
        /\ list \in Seq(Objects) /\ hw \in Seq(Objects) /\ DOMAIN list = 1..Len(list)
    BY IndexTypes DEF TypeOK
  <2>1. ~OwedBeside("client")
    BY DEF Settled, OwedBeside
  <2>2. Agree(Len(hw)) /\ RemoteBehind(Len(hw))
    BY <2>1 DEF AtRest, Settled
  <2>3. IsPrefix(hw, list)
    <3>1. /\ SubSeq(list, 1, Len(hw)) \in Seq(Objects)
          /\ Len(SubSeq(list, 1, Len(hw))) = Len(hw)
          /\ \A k \in 1..Len(hw) : SubSeq(list, 1, Len(hw))[k] = list[k]
      <4>1. \A k \in 1..Len(hw) : list[k] \in Objects
        BY <2>0, <2>2 DEF Agree
      <4>. QED
        BY <2>0, <4>1, SubSeqProperties
    <3>2. hw = SubSeq(list, 1, Len(hw))
      BY <2>0, <2>2, <3>1, SeqEqual DEF Agree
    <3>. QED
      BY <2>0, <2>2, <3>2 DEF IsPrefix, Agree
  <2>. QED
    BY <2>0, <2>2, <2>3 DEF RemoteBehind
<1>. QED
  BY <1>1, AlwaysIInv, PTL

\* For whoever takes DeviceListChangeMutex the rebuild is one step from the old
\* list to the hardware list, if nobody writes a list meanwhile: DeviceList
\* implements ControllerList.
THEOREM OneStepForOutsiders == Spec => ShowsHardware
<1>. DEFINE shown     == IF step = "idle" THEN list ELSE old
            busy      == step # "idle"
            disturbed == step # "idle" /\ raced # {}
<1>1. Init => Promise!Init
  BY DEF Init, Promise!Init
<1>2. IInv /\ [Next]_vars => [Promise!Next]_<<hw, shown, busy, disturbed>>
  <2>. SUFFICES ASSUME IInv, [Next]_vars
                PROVE  [Promise!Next]_<<hw, shown, busy, disturbed>>
    OBVIOUS
  <2>0. /\ \A s, c : Promise!RemoveFirst(s, c) = RemoveFirst(s, c)
        /\ \A s : Promise!IsInjective(s) <=> IsInjective(s)
    BY DEF RemoveFirst, Promise!RemoveFirst, RemoveAt, Promise!RemoveAt,
           SelectInSeq, Promise!SelectInSeq, Min, Promise!Min,
           IsInjective, Promise!IsInjective
  <2>1. ASSUME step' = step, NEW writer, Race(writer)
        PROVE  Promise!Unlocked
    BY <2>1 DEF Race, Promise!Unlocked
  <2>2. ASSUME NEW c \in Controllers, Register(c)
        PROVE  Promise!WriteHw
    <3>1. Promise!Unlocked
      BY <2>1, <2>2 DEF Register
    <3>2. hw' = Append(hw, c) /\ UNCHANGED shown
      BY <2>2 DEF Register
    <3>. QED
      BY <3>1, <3>2 DEF Promise!WriteHw
  <2>3. ASSUME NEW c \in Controllers, Unregister(c)
        PROVE  Promise!WriteHw
    <3>1. Promise!Unlocked
      BY <2>1, <2>3 DEF Unregister
    <3>2. hw' = RemoveFirst(hw, c) /\ UNCHANGED shown
      BY <2>3 DEF Unregister
    <3>. QED
      BY <2>0, <3>1, <3>2 DEF Promise!WriteHw
  <2>4. ASSUME Cleanup
        PROVE  Promise!WriteHw
    <3>1. Promise!Unlocked
      BY <2>1, <2>4 DEF Cleanup
    <3>2. hw' = <<>> /\ UNCHANGED shown
      BY <2>4 DEF Cleanup
    <3>. QED
      BY <3>1, <3>2 DEF Promise!WriteHw
  <2>5. ASSUME NEW c \in Controllers, UnregisterShown(c)
        PROVE  Promise!WriteShown
    <3>1. Promise!Unlocked
      BY <2>1, <2>5 DEF UnregisterShown
    <3>2. hw' = hw /\ shown' = IF busy THEN shown ELSE RemoveFirst(shown, c)
      BY <2>5 DEF UnregisterShown
    <3>. QED
      BY <2>0, <3>1, <3>2 DEF Promise!WriteShown, Promise!ShownBecomes
  <2>6. ASSUME NEW r \in Remote, AddRemote(r)
        PROVE  Promise!WriteShown
    <3>1. Promise!Unlocked
      BY <2>1, <2>6 DEF AddRemote
    <3>2. hw' = hw /\ shown' = IF busy THEN shown ELSE Append(shown, r)
      BY <2>6 DEF AddRemote
    <3>. QED
      BY <3>1, <3>2 DEF Promise!WriteShown, Promise!ShownBecomes
  <2>7. ASSUME NEW r \in Remote, DropRemote(r)
        PROVE  Promise!WriteShown
    <3>1. Promise!Unlocked
      BY <2>1, <2>7 DEF DropRemote
    <3>2. hw' = hw /\ shown' = IF busy THEN shown ELSE RemoveFirst(shown, r)
      BY <2>7 DEF DropRemote
    <3>. QED
      BY <2>0, <3>1, <3>2 DEF Promise!WriteShown, Promise!ShownBecomes
  <2>8. ASSUME Lock
        PROVE  Promise!Begin
    BY <2>8 DEF Lock, Promise!Begin
  <2>9. ASSUME Notify
        PROVE  Promise!End
    <3>1. /\ busy /\ ~busy' /\ ~disturbed' /\ hw' = hw /\ shown' = list /\ shown = old
      BY <2>9 DEF Notify
    <3>2. ~disturbed /\ IsInjective(shown) => list = hw
      BY <2>9, <3>1 DEF Notify, IInv, Passes, FinishedCalm, Calm
    <3>3. list \in Seq(Objects) /\ Objects = Controllers \cup Remote
      BY DEF IInv, TypeOK, Objects
    <3>. QED
      BY <2>0, <3>1, <3>2, <3>3 DEF Promise!End
  <2>10. ASSUME UpdateDeviceList, ~Lock, ~Notify
         PROVE  UNCHANGED <<hw, shown, busy, disturbed>>
    <3>1. step # "idle" /\ step' # "idle" /\ UNCHANGED <<hw, old, raced>>
      BY <2>10 DEF UpdateDeviceList, Insert, Place, InsertDone, Collect, CollectDone,
                   Erase, EraseDone, history
    <3>. QED
      BY <3>1
  <2>11. ASSUME UNCHANGED vars
         PROVE  UNCHANGED <<hw, shown, busy, disturbed>>
    BY <2>11 DEF vars, history
  <2>. QED
    BY <2>2, <2>3, <2>4, <2>5, <2>6, <2>7, <2>8, <2>9, <2>10, <2>11
       DEF Next, Write, Promise!Next
<1>. QED
  BY <1>1, <1>2, AlwaysIInv, PTL DEF Spec, ShowsHardware, Promise!Spec, Promise!vars
=============================================================================
