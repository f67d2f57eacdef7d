-------------------------- MODULE DeviceCallProofs --------------------------
(***************************************************************************)
(* Theorems about DeviceCall, for any set of callers and any number of     *)
(* requests.                                                               *)
(*                                                                         *)
(* The inductive invariant IInv adds to TypeOK what the call thread relies *)
(* on: nobody uses the controller that is deleted (Left), nothing was      *)
(* requested before it started (Quiet), with                               *)
(* RESET_BEFORE_UPDATE it never clears a flag after an update              *)
(* (ClearsFirst), and data that it read and that are no longer the latest  *)
(* will be asked for again (Fetched).                                      *)
(***************************************************************************)
EXTENDS DeviceCall, TLAPS

\* The requests that NothingLost is about.
Ordinary == resetFirst /\ ~early /\ ~direct

\* A caller has changed data of kind k and is about to raise the flag.
Raising(k) == \E c \in Callers : kind[c] = k /\ pc[c] = "raise"

\* Before the thread starts nothing is requested.
Quiet ==
    ~early /\ pc[Thread] = "start" =>
        shown = want /\ \A c \in Callers : pc[c] = "idle"

\* Callers that do not write to the device only raise flags, and the thread
\* does not clear one after it wrote.
ClearsFirst ==
    /\ ~direct => \A c \in Callers : pc[c] \in {"idle", "raise"}
    /\ resetFirst => pc[Thread] # "done"

\* What the thread is about to write is the latest, or it will come again.
Fetched ==
    Ordinary /\ pc[Thread] = "write" =>
        LET k == kind[Thread]
        IN  buf[Thread] = want[k] \/ flag[k] \/ Raising(k)

\* A kind of data is asked for, on its way to the device, or shown.
Underway == Ordinary => \A k \in Kinds : flag[k] \/ Busy(k) \/ shown[k] = want[k]

\* Whoever is between the lock and the unlock of DeviceInitializeMutex owns it.
Owned == \A p \in Procs : pc[p] \in {"retest", "initialize"} => initOwner = p

\* DeviceInitialize was called once if the device is initialised or somebody is
\* in it, and not at all otherwise.
Counted ==
    /\ inits = IF inited \/ (\E p \in Procs : pc[p] = "initialize") THEN 1 ELSE 0
    /\ \A p \in Procs : pc[p] = "initialize" => ~inited
    /\ \A p \in Procs : pc[p] \in {"read", "write"} => inited

\* A controller is deleted when nobody uses it any more.
Left == life # "whole" => \A c \in Callers : pc[c] = "idle"

IInv == TypeOK /\ Left /\ Quiet /\ ClearsFirst /\ Fetched /\ Underway /\ Owned /\ Counted

-----------------------------------------------------------------------------
USE CallAssumption

LEMMA InitInv == Init => IInv
<1> SUFFICES ASSUME Init PROVE IInv
  OBVIOUS
<1>1. TypeOK
  BY DEF Init, TypeOK, Kinds, Procs, ThreadLabels, CallerLabels, DeviceLabels
<1>2. Left /\ Quiet /\ ClearsFirst /\ Fetched
  BY DEF Init, Left, Quiet, ClearsFirst, Fetched, Procs
<1>3. Underway /\ Owned /\ Counted
  BY DEF Init, Underway, Owned, Counted, Procs
<1>4. QED
  BY <1>1, <1>2, <1>3 DEF IInv

LEMMA TypeStep == IInv /\ [Next]_vars => TypeOK'
<1> SUFFICES ASSUME IInv, [Next]_vars PROVE TypeOK'
  OBVIOUS
<1> USE DEF TypeOK, Kinds, Procs, Goto, ready, fixed, ThreadLabels, CallerLabels, DeviceLabels
<1>0. TypeOK
  BY DEF IInv
<1>1. ASSUME NEW p \in Procs, EnsureTest(p) PROVE TypeOK'
  BY <1>0, <1>1 DEF EnsureTest
<1>2. ASSUME NEW p \in Procs, EnsureLock(p) PROVE TypeOK'
  BY <1>0, <1>2 DEF EnsureLock
<1>3. ASSUME NEW p \in Procs, EnsureRetest(p) PROVE TypeOK'
  BY <1>0, <1>3 DEF EnsureRetest
<1>4. ASSUME NEW p \in Procs, Initialize(p) PROVE TypeOK'
  BY <1>0, <1>4 DEF Initialize
<1>5. ASSUME NEW p \in Procs, Read(p) PROVE TypeOK'
  BY <1>0, <1>5 DEF Read
<1>6. ASSUME NEW p \in Procs, Write(p) PROVE TypeOK'
  BY <1>0, <1>6 DEF Write, Advance
<1>7. ASSUME NEW c \in Callers, NEW k \in Kinds, Set(c, k) PROVE TypeOK'
  <2>1. want' \in [Kinds -> Nat] /\ kind' \in [Procs -> Kinds]
    BY <1>0, <1>7 DEF Set
  <2>2. /\ pc' \in [Procs -> ThreadLabels \cup CallerLabels]
        /\ pc'[Thread] \in ThreadLabels
        /\ \A d \in Callers : pc'[d] \in CallerLabels
    BY <1>0, <1>7 DEF Set
  <2>3. early' \in BOOLEAN /\ direct' \in BOOLEAN
    BY <1>0, <1>7, Zenon DEF Set
  <2>4. QED
    BY <1>0, <1>7, <2>1, <2>2, <2>3 DEF Set
<1>8. ASSUME NEW c \in Callers, Raise(c) PROVE TypeOK'
  BY <1>0, <1>8 DEF Raise
<1>9. CASE Start
  BY <1>0, <1>9 DEF Start
<1>10. CASE Loop
  BY <1>0, <1>10 DEF Loop
<1>11. CASE Test
  BY <1>0, <1>11 DEF Test, Advance
<1>12. CASE Take
  BY <1>0, <1>12 DEF Take
<1>13. CASE Done
  BY <1>0, <1>13 DEF Done, Advance
<1>14. CASE DeleteDevice
  BY <1>0, <1>14 DEF DeleteDevice
<1>15. CASE StopThread
  BY <1>0, <1>15, ZenonT(40) DEF StopThread
<1>16. CASE Join
  BY <1>0, <1>16 DEF Join
<1>17. CASE Abort
  BY <1>0, <1>17 DEF Abort
<1>18. CASE UNCHANGED vars
  BY <1>0, <1>18 DEF vars
<1>19. QED
  BY <1>1, <1>2, <1>3, <1>4, <1>5, <1>6, <1>7, <1>8, <1>9, <1>10, <1>11, <1>12, <1>13, <1>14, <1>15, <1>16, <1>17, <1>18
     DEF Next, ThreadStep, Access, Procs

LEMMA QuietStep == IInv /\ [Next]_vars => Quiet'
<1> SUFFICES ASSUME IInv, [Next]_vars PROVE Quiet'
  OBVIOUS
<1> USE DEF Quiet, TypeOK, Procs, Goto, ready, fixed, ThreadLabels, CallerLabels, DeviceLabels
<1>0. Quiet /\ TypeOK
  BY DEF IInv
<1>1. ASSUME NEW p \in Procs, EnsureTest(p) PROVE Quiet'
  BY <1>0, <1>1 DEF EnsureTest
<1>2. ASSUME NEW p \in Procs, EnsureLock(p) PROVE Quiet'
  BY <1>0, <1>2 DEF EnsureLock
<1>3. ASSUME NEW p \in Procs, EnsureRetest(p) PROVE Quiet'
  BY <1>0, <1>3 DEF EnsureRetest
<1>4. ASSUME NEW p \in Procs, Initialize(p) PROVE Quiet'
  BY <1>0, <1>4 DEF Initialize
<1>5. ASSUME NEW p \in Procs, Read(p) PROVE Quiet'
  BY <1>0, <1>5 DEF Read
<1>6. ASSUME NEW p \in Procs, Write(p) PROVE Quiet'
  BY <1>0, <1>6 DEF Write, Advance
<1>7. ASSUME NEW c \in Callers, NEW k \in Kinds, Set(c, k) PROVE Quiet'
  BY <1>0, <1>7 DEF Set
<1>8. ASSUME NEW c \in Callers, Raise(c) PROVE Quiet'
  BY <1>0, <1>8 DEF Raise
<1>9. CASE Start
  BY <1>0, <1>9 DEF Start
<1>10. CASE Loop
  BY <1>0, <1>10 DEF Loop
<1>11. CASE Test
  BY <1>0, <1>11 DEF Test, Advance
<1>12. CASE Take
  BY <1>0, <1>12 DEF Take
<1>13. CASE Done
  BY <1>0, <1>13 DEF Done, Advance
<1>14. CASE DeleteDevice
  BY <1>0, <1>14 DEF DeleteDevice
<1>15. CASE StopThread
  BY <1>0, <1>15 DEF StopThread
<1>16. CASE Join
  BY <1>0, <1>16 DEF Join
<1>17. CASE Abort
  BY <1>0, <1>17 DEF Abort
<1>18. CASE UNCHANGED vars
  BY <1>0, <1>18 DEF vars
<1>19. QED
  BY <1>1, <1>2, <1>3, <1>4, <1>5, <1>6, <1>7, <1>8, <1>9, <1>10, <1>11, <1>12, <1>13, <1>14, <1>15, <1>16, <1>17, <1>18
     DEF Next, ThreadStep, Access, Procs

LEMMA LeftStep == IInv /\ [Next]_vars => Left'
<1> SUFFICES ASSUME IInv, [Next]_vars PROVE Left'
  OBVIOUS
<1> USE DEF Left, TypeOK, Procs, Goto, ready, fixed, ThreadLabels, CallerLabels, DeviceLabels
<1>0. Left /\ TypeOK
  BY DEF IInv
<1>1. ASSUME NEW p \in Procs, EnsureTest(p) PROVE Left'
  BY <1>0, <1>1 DEF EnsureTest
<1>2. ASSUME NEW p \in Procs, EnsureLock(p) PROVE Left'
  BY <1>0, <1>2 DEF EnsureLock
<1>3. ASSUME NEW p \in Procs, EnsureRetest(p) PROVE Left'
  BY <1>0, <1>3 DEF EnsureRetest
<1>4. ASSUME NEW p \in Procs, Initialize(p) PROVE Left'
  BY <1>0, <1>4 DEF Initialize
<1>5. ASSUME NEW p \in Procs, Read(p) PROVE Left'
  BY <1>0, <1>5 DEF Read
<1>6. ASSUME NEW p \in Procs, Write(p) PROVE Left'
  BY <1>0, <1>6 DEF Write, Advance
<1>7. ASSUME NEW c \in Callers, NEW k \in Kinds, Set(c, k) PROVE Left'
  BY <1>0, <1>7 DEF Set
<1>8. ASSUME NEW c \in Callers, Raise(c) PROVE Left'
  BY <1>0, <1>8 DEF Raise
<1>9. CASE Start
  BY <1>0, <1>9 DEF Start
<1>10. CASE Loop
  BY <1>0, <1>10 DEF Loop
<1>11. CASE Test
  BY <1>0, <1>11 DEF Test, Advance
<1>12. CASE Take
  BY <1>0, <1>12 DEF Take
<1>13. CASE Done
  BY <1>0, <1>13 DEF Done, Advance
<1>14. CASE DeleteDevice
  BY <1>0, <1>14 DEF DeleteDevice
<1>15. CASE StopThread
  BY <1>0, <1>15 DEF StopThread
<1>16. CASE Join
  BY <1>0, <1>16 DEF Join
<1>17. CASE Abort
  BY <1>0, <1>17 DEF Abort
<1>18. CASE UNCHANGED vars
  BY <1>0, <1>18 DEF vars
<1>19. QED
  BY <1>1, <1>2, <1>3, <1>4, <1>5, <1>6, <1>7, <1>8, <1>9, <1>10, <1>11, <1>12, <1>13, <1>14, <1>15, <1>16, <1>17, <1>18
     DEF Next, ThreadStep, Access, Procs

LEMMA ClearsFirstStep == IInv /\ [Next]_vars => ClearsFirst'
<1> SUFFICES ASSUME IInv, [Next]_vars PROVE ClearsFirst'
  OBVIOUS
<1> USE DEF ClearsFirst, TypeOK, Procs, Goto, ready, fixed, ThreadLabels, CallerLabels, DeviceLabels
<1>0. ClearsFirst /\ TypeOK
  BY DEF IInv
<1>1. ASSUME NEW p \in Procs, EnsureTest(p) PROVE ClearsFirst'
  BY <1>0, <1>1 DEF EnsureTest
<1>2. ASSUME NEW p \in Procs, EnsureLock(p) PROVE ClearsFirst'
  BY <1>0, <1>2 DEF EnsureLock
<1>3. ASSUME NEW p \in Procs, EnsureRetest(p) PROVE ClearsFirst'
  BY <1>0, <1>3 DEF EnsureRetest
<1>4. ASSUME NEW p \in Procs, Initialize(p) PROVE ClearsFirst'
  BY <1>0, <1>4 DEF Initialize
<1>5. ASSUME NEW p \in Procs, Read(p) PROVE ClearsFirst'
  BY <1>0, <1>5 DEF Read
<1>6. ASSUME NEW p \in Procs, Write(p) PROVE ClearsFirst'
  BY <1>0, <1>6 DEF Write, Advance
<1>7. ASSUME NEW c \in Callers, NEW k \in Kinds, Set(c, k) PROVE ClearsFirst'
  BY <1>0, <1>7 DEF Set
<1>8. ASSUME NEW c \in Callers, Raise(c) PROVE ClearsFirst'
  BY <1>0, <1>8 DEF Raise
<1>9. CASE Start
  BY <1>0, <1>9 DEF Start
<1>10. CASE Loop
  BY <1>0, <1>10 DEF Loop
<1>11. CASE Test
  BY <1>0, <1>11 DEF Test, Advance
<1>12. CASE Take
  BY <1>0, <1>12 DEF Take
<1>13. CASE Done
  BY <1>0, <1>13 DEF Done, Advance
<1>14. CASE DeleteDevice
  BY <1>0, <1>14 DEF DeleteDevice
<1>15. CASE StopThread
  BY <1>0, <1>15 DEF StopThread
<1>16. CASE Join
  BY <1>0, <1>16 DEF Join
<1>17. CASE Abort
  BY <1>0, <1>17 DEF Abort
<1>18. CASE UNCHANGED vars
  BY <1>0, <1>18 DEF vars
<1>19. QED
  BY <1>1, <1>2, <1>3, <1>4, <1>5, <1>6, <1>7, <1>8, <1>9, <1>10, <1>11, <1>12, <1>13, <1>14, <1>15, <1>16, <1>17, <1>18
     DEF Next, ThreadStep, Access, Procs

LEMMA FetchedStep == IInv /\ [Next]_vars => Fetched'
<1> SUFFICES ASSUME IInv, [Next]_vars PROVE Fetched'
  OBVIOUS
<1> USE DEF Fetched, Raising, Ordinary, ClearsFirst, TypeOK, Procs, Goto, ready, fixed, ThreadLabels, CallerLabels, DeviceLabels
<1>0. Fetched /\ ClearsFirst /\ TypeOK
  BY DEF IInv
<1>1. ASSUME NEW p \in Procs, EnsureTest(p) PROVE Fetched'
  BY <1>0, <1>1 DEF EnsureTest
<1>2. ASSUME NEW p \in Procs, EnsureLock(p) PROVE Fetched'
  BY <1>0, <1>2 DEF EnsureLock
<1>3. ASSUME NEW p \in Procs, EnsureRetest(p) PROVE Fetched'
  BY <1>0, <1>3 DEF EnsureRetest
<1>4. ASSUME NEW p \in Procs, Initialize(p) PROVE Fetched'
  BY <1>0, <1>4 DEF Initialize
<1>5. ASSUME NEW p \in Procs, Read(p) PROVE Fetched'
  BY <1>0, <1>5 DEF Read
<1>6. ASSUME NEW p \in Procs, Write(p) PROVE Fetched'
  BY <1>0, <1>6 DEF Write, Advance
<1>7. ASSUME NEW c \in Callers, NEW k \in Kinds, Set(c, k) PROVE Fetched'
  BY <1>0, <1>7 DEF Set
<1>8. ASSUME NEW c \in Callers, Raise(c) PROVE Fetched'
  BY <1>0, <1>8 DEF Raise
<1>9. CASE Start
  BY <1>0, <1>9 DEF Start
<1>10. CASE Loop
  BY <1>0, <1>10 DEF Loop
<1>11. CASE Test
  BY <1>0, <1>11 DEF Test, Advance
<1>12. CASE Take
  BY <1>0, <1>12 DEF Take
<1>13. CASE Done
  BY <1>0, <1>13 DEF Done, Advance
<1>14. CASE DeleteDevice
  BY <1>0, <1>14 DEF DeleteDevice
<1>15. CASE StopThread
  BY <1>0, <1>15 DEF StopThread
<1>16. CASE Join
  BY <1>0, <1>16 DEF Join
<1>17. CASE Abort
  BY <1>0, <1>17 DEF Abort
<1>18. CASE UNCHANGED vars
  BY <1>0, <1>18 DEF vars
<1>19. QED
  BY <1>1, <1>2, <1>3, <1>4, <1>5, <1>6, <1>7, <1>8, <1>9, <1>10, <1>11, <1>12, <1>13, <1>14, <1>15, <1>16, <1>17, <1>18
     DEF Next, ThreadStep, Access, Procs

LEMMA UnderwayStep == IInv /\ [Next]_vars => Underway'
<1> SUFFICES ASSUME IInv, [Next]_vars PROVE Underway'
  OBVIOUS
<1> USE DEF Underway, Busy, Ordinary, ClearsFirst, TypeOK, Procs, Goto, ready, fixed, ThreadLabels, CallerLabels, DeviceLabels
<1>0. Underway /\ Fetched /\ ClearsFirst /\ Quiet /\ TypeOK
  BY DEF IInv
<1>1. ASSUME NEW p \in Procs, EnsureTest(p) PROVE Underway'
  BY <1>0, <1>1 DEF EnsureTest
<1>2. ASSUME NEW p \in Procs, EnsureLock(p) PROVE Underway'
  BY <1>0, <1>2 DEF EnsureLock
<1>3. ASSUME NEW p \in Procs, EnsureRetest(p) PROVE Underway'
  BY <1>0, <1>3 DEF EnsureRetest
<1>4. ASSUME NEW p \in Procs, Initialize(p) PROVE Underway'
  BY <1>0, <1>4 DEF Initialize
<1>5. ASSUME NEW p \in Procs, Read(p) PROVE Underway'
  BY <1>0, <1>5 DEF Read
<1>6. ASSUME NEW p \in Procs, Write(p) PROVE Underway'
  <2> SUFFICES ASSUME Ordinary, NEW k \in Kinds
               PROVE  flag'[k] \/ Busy(k)' \/ shown'[k] = want'[k]
    BY <1>6 DEF Write, Underway, Ordinary
  <2>1. p = Thread
    BY <1>0, <1>6 DEF Write
  <2>2. CASE kind[Thread] = k
    <3>1. buf[Thread] = want[k] \/ flag[k] \/ Raising(k)
      BY <1>0, <1>6, <2>1, <2>2 DEF Write, Fetched
    <3>2. Raising(k) => Busy(k)'
      BY <1>0, <1>6, <2>1 DEF Write, Advance, Raising
    <3>3. shown'[k] = buf[Thread] /\ want'[k] = want[k] /\ flag'[k] = flag[k]
      BY <1>0, <1>6, <2>1, <2>2 DEF Write
    <3>4. QED
      BY <3>1, <3>2, <3>3
  <2>3. CASE kind[Thread] # k
    <3>1. flag[k] \/ Busy(k) \/ shown[k] = want[k]
      BY <1>0 DEF Underway
    <3>2. Busy(k) => Busy(k)'
      BY <1>0, <1>6, <2>1, <2>3 DEF Write, Advance
    <3>3. shown'[k] = shown[k] /\ want'[k] = want[k] /\ flag'[k] = flag[k]
      BY <1>0, <1>6, <2>1, <2>3 DEF Write
    <3>4. QED
      BY <3>1, <3>2, <3>3
  <2>4. QED
    BY <2>2, <2>3
<1>7. ASSUME NEW c \in Callers, NEW k \in Kinds, Set(c, k) PROVE Underway'
  BY <1>0, <1>7 DEF Set
<1>8. ASSUME NEW c \in Callers, Raise(c) PROVE Underway'
  BY <1>0, <1>8 DEF Raise
<1>9. CASE Start
  BY <1>0, <1>9 DEF Start, Quiet
<1>10. CASE Loop
  BY <1>0, <1>10 DEF Loop
<1>11. CASE Test
  BY <1>0, <1>11 DEF Test, Advance
<1>12. CASE Take
  BY <1>0, <1>12 DEF Take
<1>13. CASE Done
  BY <1>0, <1>13 DEF Done, Advance
<1>14. CASE DeleteDevice
  BY <1>0, <1>14 DEF DeleteDevice
<1>15. CASE StopThread
  BY <1>0, <1>15 DEF StopThread
<1>16. CASE Join
  BY <1>0, <1>16 DEF Join
<1>17. CASE Abort
  BY <1>0, <1>17 DEF Abort
<1>18. CASE UNCHANGED vars
  BY <1>0, <1>18 DEF vars
<1>19. QED
  BY <1>1, <1>2, <1>3, <1>4, <1>5, <1>6, <1>7, <1>8, <1>9, <1>10, <1>11, <1>12, <1>13, <1>14, <1>15, <1>16, <1>17, <1>18
     DEF Next, ThreadStep, Access, Procs

LEMMA OwnedStep == IInv /\ [Next]_vars => Owned'
<1> SUFFICES ASSUME IInv, [Next]_vars PROVE Owned'
  OBVIOUS
<1> USE DEF Owned, TypeOK, Procs, Goto, ready, fixed, ThreadLabels, CallerLabels, DeviceLabels
<1>0. Owned /\ TypeOK
  BY DEF IInv
<1>1. ASSUME NEW p \in Procs, EnsureTest(p) PROVE Owned'
  BY <1>0, <1>1 DEF EnsureTest
<1>2. ASSUME NEW p \in Procs, EnsureLock(p) PROVE Owned'
  BY <1>0, <1>2 DEF EnsureLock
<1>3. ASSUME NEW p \in Procs, EnsureRetest(p) PROVE Owned'
  BY <1>0, <1>3 DEF EnsureRetest
<1>4. ASSUME NEW p \in Procs, Initialize(p) PROVE Owned'
  BY <1>0, <1>4 DEF Initialize
<1>5. ASSUME NEW p \in Procs, Read(p) PROVE Owned'
  BY <1>0, <1>5 DEF Read
<1>6. ASSUME NEW p \in Procs, Write(p) PROVE Owned'
  BY <1>0, <1>6 DEF Write, Advance
<1>7. ASSUME NEW c \in Callers, NEW k \in Kinds, Set(c, k) PROVE Owned'
  BY <1>0, <1>7 DEF Set
<1>8. ASSUME NEW c \in Callers, Raise(c) PROVE Owned'
  BY <1>0, <1>8 DEF Raise
<1>9. CASE Start
  BY <1>0, <1>9 DEF Start
<1>10. CASE Loop
  BY <1>0, <1>10 DEF Loop
<1>11. CASE Test
  BY <1>0, <1>11 DEF Test, Advance
<1>12. CASE Take
  BY <1>0, <1>12 DEF Take
<1>13. CASE Done
  BY <1>0, <1>13 DEF Done, Advance
<1>14. CASE DeleteDevice
  BY <1>0, <1>14 DEF DeleteDevice
<1>15. CASE StopThread
  BY <1>0, <1>15 DEF StopThread
<1>16. CASE Join
  BY <1>0, <1>16 DEF Join
<1>17. CASE Abort
  BY <1>0, <1>17 DEF Abort
<1>18. CASE UNCHANGED vars
  BY <1>0, <1>18 DEF vars
<1>19. QED
  BY <1>1, <1>2, <1>3, <1>4, <1>5, <1>6, <1>7, <1>8, <1>9, <1>10, <1>11, <1>12, <1>13, <1>14, <1>15, <1>16, <1>17, <1>18
     DEF Next, ThreadStep, Access, Procs

LEMMA CountedStep == IInv /\ [Next]_vars => Counted'
<1> SUFFICES ASSUME IInv, [Next]_vars PROVE Counted'
  OBVIOUS
<1> USE DEF Counted, Owned, TypeOK, Procs, Goto, ready, fixed, ThreadLabels, CallerLabels, DeviceLabels
<1>0. Counted /\ Owned /\ TypeOK
  BY DEF IInv
<1>1. ASSUME NEW p \in Procs, EnsureTest(p) PROVE Counted'
  BY <1>0, <1>1 DEF EnsureTest
<1>2. ASSUME NEW p \in Procs, EnsureLock(p) PROVE Counted'
  BY <1>0, <1>2 DEF EnsureLock
<1>3. ASSUME NEW p \in Procs, EnsureRetest(p) PROVE Counted'
  BY <1>0, <1>3 DEF EnsureRetest
<1>4. ASSUME NEW p \in Procs, Initialize(p) PROVE Counted'
  BY <1>0, <1>4 DEF Initialize
<1>5. ASSUME NEW p \in Procs, Read(p) PROVE Counted'
  BY <1>0, <1>5 DEF Read
<1>6. ASSUME NEW p \in Procs, Write(p) PROVE Counted'
  BY <1>0, <1>6 DEF Write, Advance
<1>7. ASSUME NEW c \in Callers, NEW k \in Kinds, Set(c, k) PROVE Counted'
  BY <1>0, <1>7 DEF Set
<1>8. ASSUME NEW c \in Callers, Raise(c) PROVE Counted'
  BY <1>0, <1>8 DEF Raise
<1>9. CASE Start
  BY <1>0, <1>9 DEF Start
<1>10. CASE Loop
  BY <1>0, <1>10 DEF Loop
<1>11. CASE Test
  BY <1>0, <1>11 DEF Test, Advance
<1>12. CASE Take
  BY <1>0, <1>12 DEF Take
<1>13. CASE Done
  BY <1>0, <1>13 DEF Done, Advance
<1>14. CASE DeleteDevice
  BY <1>0, <1>14 DEF DeleteDevice
<1>15. CASE StopThread
  BY <1>0, <1>15 DEF StopThread
<1>16. CASE Join
  BY <1>0, <1>16 DEF Join
<1>17. CASE Abort
  BY <1>0, <1>17 DEF Abort
<1>18. CASE UNCHANGED vars
  BY <1>0, <1>18 DEF vars
<1>19. QED
  BY <1>1, <1>2, <1>3, <1>4, <1>5, <1>6, <1>7, <1>8, <1>9, <1>10, <1>11, <1>12, <1>13, <1>14, <1>15, <1>16, <1>17, <1>18
     DEF Next, ThreadStep, Access, Procs

LEMMA Invariance == Spec => []IInv
<1>1. IInv /\ [Next]_vars => IInv'
  BY TypeStep, LeftStep, QuietStep, ClearsFirstStep, FetchedStep, UnderwayStep,
     OwnedStep, CountedStep DEF IInv
<1>2. QED
  BY InitInv, <1>1, PTL DEF Spec

\* Every variable has its type.
THEOREM TypeCorrect == Spec => []TypeOK
<1>1. IInv => TypeOK
  BY DEF IInv
<1>2. QED
  BY Invariance, <1>1, PTL

\* With RESET_BEFORE_UPDATE no request made through a flag after the thread
\* has started is lost, however many callers make requests while it writes.
THEOREM NoRequestLost == Spec => []NothingLost
<1>1. IInv => NothingLost
  BY DEF IInv, Underway, Ordinary, NothingLost, Stale
<1>2. QED
  BY Invariance, <1>1, PTL

\* However callers and the call thread meet in EnsureInitializedForControl,
\* DeviceInitialize is called at most once, and before any access.
THEOREM InitializedExactlyOnce == Spec => []InitializedOnce
<1>1. IInv => InitializedOnce
  BY DEF IInv, Counted, InitializedOnce, TypeOK
<1>2. QED
  BY Invariance, <1>1, PTL

\* A controller that is deleted while no update is pending is torn down without
\* a call of what its device class has taken with it: nobody raises a flag any
\* more, and the thread does not find one up.
THEOREM TeardownQuiet == Spec => QuietTeardown
<1> DEFINE A == life = "base" /\ AtEase => life' # "aborted" /\ AtEase'
<1>1. IInv /\ [Next]_vars => [A]_vars
  <2> SUFFICES ASSUME IInv, [Next]_vars, life = "base", AtEase
               PROVE  life' # "aborted" /\ AtEase'
    OBVIOUS
  <2> USE DEF AtEase, TypeOK, Left, Kinds, Procs, Goto, ready, fixed, ThreadLabels,
              CallerLabels, DeviceLabels
  <2>0. TypeOK /\ Left
    BY DEF IInv
  <2>1. ASSUME NEW c \in Callers,
                  Raise(c) \/ EnsureTest(c) \/ EnsureLock(c) \/ EnsureRetest(c)
               \/ Initialize(c) \/ Read(c) \/ Write(c)
        PROVE  FALSE
    BY <2>0, <2>1 DEF Raise, EnsureTest, EnsureLock, EnsureRetest, Initialize, Read, Write
  <2>2. ASSUME NEW c \in Callers, NEW k \in Kinds, Set(c, k) PROVE FALSE
    BY <2>2 DEF Set
  <2>3. ASSUME Abort \/ EnsureTest(Thread) \/ EnsureLock(Thread) \/ EnsureRetest(Thread)
               \/ Initialize(Thread) \/ Read(Thread) \/ Write(Thread) \/ Take
        PROVE  FALSE
    BY <2>0, <2>3 DEF Abort, EnsureTest, EnsureLock, EnsureRetest, Initialize, Read,
        Write, Take
  <2>4. CASE Start
    BY <2>0, <2>4 DEF Start
  <2>5. CASE Loop
    BY <2>0, <2>5 DEF Loop
  <2>6. CASE Test
    BY <2>0, <2>6 DEF Test, Advance
  <2>7. CASE Done
    BY <2>0, <2>7 DEF Done, Advance
  <2>8. CASE DeleteDevice \/ StopThread \/ Join \/ UNCHANGED vars
    BY <2>0, <2>8 DEF DeleteDevice, StopThread, Join, vars
  <2> HIDE DEF AtEase, TypeOK, Left, Kinds, Procs, Goto, ready, fixed, ThreadLabels,
              CallerLabels, DeviceLabels
  <2>9. QED
    BY <2>1, <2>2, <2>3, <2>4, <2>5, <2>6, <2>7, <2>8 DEF Next, ThreadStep, Access
<1>2. QED
  BY Invariance, <1>1, PTL DEF Spec, QuietTeardown
=============================================================================
