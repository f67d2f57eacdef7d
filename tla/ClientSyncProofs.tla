-------------------------- MODULE ClientSyncProofs --------------------------
(***************************************************************************)
(* Theorems about ClientSync, for any devices, any number of connections   *)
(* and changes, and every choice of Races: the connection thread, the      *)
(* listeners, the stopping thread, the server and the client's own device  *)
(* list in every order, and connections lost at any point.                 *)
(*                                                                         *)
(* StoppedClean and the distinctness in NoDangling are only promised as    *)
(* long as no race happened (raced = {}), and then the two threads of the  *)
(* client take turns: at most one request or answer is on its way (Talk),  *)
(* whose turn it is follows from the flags they wait on (Number for the    *)
(* count, Progress for the controllers), and a lost connection (Lost) is   *)
(* torn down before the next one is opened (Offline, Connections). That    *)
(* controllers is a prefix of server_controllers (Shown) needs none of     *)
(* this, only that no two listeners are alive at a time and that the list  *)
(* is not rebuilt in the middle of AddToMaster, and holds through every    *)
(* other race.                                                             *)
(***************************************************************************)
EXTENDS ClientSync, SequenceTheorems, WellFoundedInduction, TLAPS

\* Listener k is past UninitializeServer and about to leave.
Ending(k) == lpc[k] \in {"closing", "closed", "delete"}
\* No connection was opened while a listener of an earlier one was alive, and
\* the list was not rebuilt while the copies were added to it.
NoOverlap == "overlap" \notin raced
\* UninitializeServer's values: nothing is requested, nothing was received.
Fresh ==
    /\ ~server_controller_count_requested /\ ~server_controller_count_received
    /\ requested_controllers = 0 /\ ~controller_data_requested
\* The controllers received.
Held == Len(server_controllers)
\* Where the listener of the connection is.
Listens == lpc[conn]
\* Nothing is on its way.
Silence == c2s = <<>> /\ s2c = <<>>
\* A controller was asked for and not yet taken.
Awaiting == controller_data_requested \/ cpc = "dataAsked"

\* Connections are opened one after the other by the connection thread, which
\* creates a connection's listener before it does anything else with it.
Connections ==
    /\ conns \in 0..MaxConns
    /\ conn \in {0, conns}
    /\ \A k \in Conns : k > conns => lpc[k] = "none"
    /\ cpc \in {"connected", "listen"} => conns # 0 /\ lpc[conns] = "none"
    /\ cpc \in {"connect", "connected"} => ~server_connected
    /\ NoOverlap => /\ \A j, k \in Conns : Alive(j) /\ Alive(k) => j = k
                    /\ cpc = "listen" => \A k \in Conns : ~Alive(k)

\* The application's list holds the first of the client's copies, in order, and
\* a listener that is alive sees to it that they are taken back.
Shown ==
    NoOverlap =>
    /\ IsPrefix(controllers, server_controllers)
    /\ server_controllers # <<>> => \E k \in Conns : Alive(k)
    /\ \A k \in Conns : lpc[k] \in {"changed", "uninit"} => server_controllers = <<>>
    /\ \A k \in Conns : Ending(k) => ~server_controller_count_received
    /\ cpc \in {"next", "prepare", "askData", "dataAsked", "check", "add"}
           => controllers = <<>>
    /\ cpc # "added" /\ controllers # <<>> =>
          ~server_connected \/ server_initialized \/ (\E k \in Conns : Ending(k))
    /\ cpc = "sync" /\ controllers # <<>> => \E k \in Conns : Ending(k)

\* StopClient waits for the last listener, the only one alive.
Stop ==
    raced = {} =>
    /\ \A k \in Conns : Alive(k) => k = ListenThread
    /\ upc \in {"joinConn", "stopped"} => ListenThread = 0
    /\ server_connected => upc = "idle"
    /\ upc = "idle" => client_active

\* Without a connection the client is as UninitializeServer left it.
Offline ==
    raced = {} /\ upc = "idle" /\ ~server_connected =>
    /\ Fresh
    /\ cpc \in {"top", "connect", "connected", "sync", "askCount"}
    /\ cpc = "connected" => conn # 0 /\ Silence /\ ~server_initialized
    /\ cpc # "connected" => conn = 0

\* A lost connection has a listener that is about to clean up after it.
Lost ==
    raced = {} /\ upc = "idle" /\ server_connected /\ conn = 0 =>
    /\ conns # 0
    /\ \/ /\ lpc[conns] \in {"recv", "reset", "closing"}
          /\ server_initialized /\ cpc = "top"
          /\ lpc[conns] = "closing" => Fresh
       \/ lpc[conns] = "closed" /\ Fresh /\ cpc \in {"top", "sync", "askCount"}

\* The number of controllers was asked for and is not received.
CountAwaited ==
    /\ cpc = "countAsked" \/ server_controller_count_requested
    /\ ~server_controller_count_received
    /\ cpc \in {"countAsked", "top", "sync"}

\* A controller was asked for and is not received.
DataAwaited ==
    /\ Awaiting /\ ~controller_data_received
    /\ server_controller_count_requested /\ server_controller_count_received
    /\ cpc \notin {"listen", "askCount", "countAsked", "prepare", "askData"}

\* m asks for, or answers, what the connection thread waits for.
Expected(m) ==
    \/ m.kind = "count" /\ CountAwaited
    \/ m.kind = "data" /\ m.n = requested_controllers /\ DataAwaited

\* Whose turn it is on a connection that works.
Talk ==
    /\ Listens \in {"recv", "count", "data", "changed", "uninit"} \/ cpc = "listen"
    /\ c2s # <<>> => Len(c2s) = 1 /\ s2c = <<>> /\ Listens = "recv" /\ Expected(c2s[1])
    /\ s2c # <<>> =>
          /\ Len(s2c) = 1 /\ Listens = "recv"
          /\ Expected(s2c[1]) \/ (s2c[1].kind = "changed" /\ server_initialized)
    /\ Listens \in {"changed", "uninit"} => server_initialized
    /\ Listens = "uninit" => Fresh
    /\ server_initialized => cpc = "top"
    /\ cpc \in {"prepare", "askData"} =>
          Silence /\ Listens = "recv" /\ ~controller_data_requested
    /\ cpc = "askData" => ~controller_data_received
    /\ cpc = "check" => controller_data_requested

\* From the request for the number to its answer.
CountPhase ==
    \/ cpc = "countAsked" \/ Listens = "count"
    \/ server_controller_count_requested /\ ~server_controller_count_received

\* The number of controllers is asked for once, before any of them.
Number ==
    /\ cpc \in {"listen", "askCount"} =>
          ~server_controller_count_requested /\ ~server_initialized
    /\ ~server_controller_count_requested /\ ~server_initialized /\ cpc # "countAsked" =>
          /\ Fresh /\ Held = 0 /\ Silence
          /\ Listens \in {"none", "recv"} /\ cpc \in {"listen", "top", "sync", "askCount"}
    /\ CountPhase =>
          /\ ~controller_data_requested /\ requested_controllers = 0 /\ Held = 0
          /\ cpc \in {"countAsked", "top", "sync"}
    /\ Listens = "count" => server_controller_count_received
    /\ server_controller_count_received =>
          server_controller_count_requested \/ cpc = "countAsked"
    /\ cpc \in {"next", "prepare", "askData", "dataAsked", "check", "add", "added"} =>
          server_controller_count_requested /\ server_controller_count_received

\* The controllers are asked for one after the other.
Progress ==
    /\ Listens = "data" => DataAwaited
    /\ Listens \notin {"changed", "uninit"} =>
          Held = IF Awaiting /\ (controller_data_received \/ Listens = "data")
                 THEN requested_controllers + 1 ELSE requested_controllers
    /\ Listens \in {"changed", "uninit"} => Held = 0

\* On a connection that works, all three.
Online ==
    raced = {} /\ upc = "idle" /\ server_connected /\ conn # 0 => Talk /\ Number /\ Progress

\* The copies are numbered as the server's controllers are.
Indices ==
    raced = {} => \A i \in 1..Len(server_controllers) : server_controllers[i].idx = i - 1

\* The server describes its devices.
Described == \A i \in 1..Len(s2c) : s2c[i].kind = "data" => s2c[i].dev \in Devices

\* The inductive invariant.
IInv ==
    /\ TypeOK /\ Connections /\ Shown /\ Stop /\ Offline /\ Lost /\ Online
    /\ Indices /\ Described

\* TypeOK in four parts, for proofs of their own.
Flags ==
    /\ announced \in BOOLEAN /\ client_active \in BOOLEAN /\ server_connected \in BOOLEAN
    /\ server_initialized \in BOOLEAN /\ server_controller_count_requested \in BOOLEAN
    /\ server_controller_count_received \in BOOLEAN
    /\ controller_data_requested \in BOOLEAN /\ controller_data_received \in BOOLEAN
    /\ wiped \in BOOLEAN

Numbers ==
    /\ srv \in Seq(Devices) /\ changes \in Nat
    /\ conn \in Conns \cup {0} /\ conns \in Nat
    /\ server_controller_count \in Nat /\ requested_controllers \in Nat
    /\ raced \subseteq {"race", "overlap"}
    /\ server_controllers \in Seq(Copies) /\ controllers \in Seq(Copies)

Labels ==
    /\ cpc \in ConnectionLabels /\ lpc \in [Conns -> ListenLabels]
    /\ ListenThread \in Conns \cup {0} /\ upc \in StopLabels

Channels == c2s \in Seq(Messages) /\ s2c \in Seq(Messages)

-----------------------------------------------------------------------------
(***************************************************************************)
(* Prefixes, and the loop that erases the elements of one sequence from    *)
(* another.                                                                *)
(***************************************************************************)

\* Every set of naturals that is not empty has a least element, which Min gives.
LEMMA LeastElement ==
  ASSUME NEW T, T \subseteq Nat, T # {}
  PROVE  Min(T) \in T /\ \A m \in T : Min(T) <= m
<1>. DEFINE R == OpToRel(<, Nat)
<1>1. IsWellFoundedOn(R, Nat)
  BY NatLessThanWellFounded
<1>2. \A m, n \in Nat : m < n => <<m, n>> \in R
  BY DEF OpToRel
<1>. HIDE DEF R
<1>3. PICK n \in T : \A m \in T : ~(<<m, n>> \in R)
  BY <1>1, WFMin
<1>4. ASSUME NEW m \in T
      PROVE  n <= m
  <2>1. m \in Nat /\ n \in Nat
    OBVIOUS
  <2>2. ~(m < n)
    BY <1>2, <1>3, <2>1
  <2>. QED
    BY <2>1, <2>2
<1>. QED
  BY <1>4 DEF Min

\* Induction over the first m numbers.
LEMMA UpTo ==
  ASSUME NEW m \in Nat, NEW T, 0 \in T, \A n \in 1..m : n - 1 \in T => n \in T
  PROVE  0..m \subseteq T
<1>. DEFINE U == {n \in 0..m : n \notin T}
<1>1. SUFFICES ASSUME U # {}
               PROVE  FALSE
  OBVIOUS
<1>2. PICK n \in U : \A k \in U : n <= k
  <2>. HIDE DEF U
  <2>1. U \subseteq Nat
    BY DEF U
  <2>. QED
    BY <1>1, <2>1, LeastElement
<1>3. n \in 1..m /\ n - 1 \notin U /\ n - 1 \in 0..m
  BY <1>2
<1>. QED
  BY <1>2, <1>3

\* To be a prefix, by index.
LEMMA PrefixElements ==
  ASSUME NEW S, NEW s \in Seq(S), NEW t \in Seq(S)
  PROVE  IsPrefix(s, t) <=> Len(s) <= Len(t) /\ \A i \in 1..Len(s) : s[i] = t[i]
<1>1. CASE Len(s) <= Len(t)
  <2>. DEFINE a == SubSeq(s, 1, Len(s))
              b == SubSeq(t, 1, Len(s))
  <2>1. \A i \in 1..Len(s) : s[i] \in S /\ t[i] \in S
    BY <1>1
  <2>2. a \in Seq(S) /\ Len(a) = Len(s) /\ \A i \in 1..Len(s) : a[i] = s[i]
    BY <2>1, SubSeqProperties
  <2>3. b \in Seq(S) /\ Len(b) = Len(s) /\ \A i \in 1..Len(s) : b[i] = t[i]
    BY <2>1, SubSeqProperties
  <2>4. IsPrefix(s, t) <=> a = b
    BY <1>1 DEF IsPrefix
  <2>. HIDE DEF a, b
  <2>5. a = b <=> \A i \in 1..Len(s) : a[i] = b[i]
    BY <2>2, <2>3, SeqEqual
  <2>. QED
    BY <1>1, <2>2, <2>3, <2>4, <2>5
<1>2. CASE ~(Len(s) <= Len(t))
  BY <1>2 DEF IsPrefix
<1>. QED
  BY <1>1, <1>2

\* Erasing the first occurrence of e (std::find, then erase) leaves a sequence,
\* the same one where e does not occur.
LEMMA RemoveFirstType ==
  ASSUME NEW S, NEW s \in Seq(S), NEW e
  PROVE  /\ RemoveFirst(s, e) \in Seq(S)
         /\ e \notin ToSet(s) => RemoveFirst(s, e) = s
<1>1. CASE e \notin ToSet(s)
  <2>1. ~ \E i \in 1..Len(s) : s[i] = e
    BY <1>1 DEF ToSet
  <2>. QED
    BY <1>1, <2>1 DEF RemoveFirst
<1>2. CASE e \in ToSet(s)
  <2>. DEFINE I == {i \in 1..Len(s) : s[i] = e}
              m == Min(I)
  <2>1. I \subseteq Nat /\ I # {}
    BY <1>2 DEF ToSet
  <2>2. m \in I
    <3>. HIDE DEF I
    <3>. QED
      BY <2>1, LeastElement
  <2>3. RemoveFirst(s, e) = SubSeq(s, 1, m - 1) \o SubSeq(s, m + 1, Len(s))
    BY <2>1 DEF RemoveFirst, SelectInSeq, RemoveAt
  <2>. HIDE DEF m
  <2>4. m \in 1..Len(s)
    BY <2>2
  <2>5. SubSeq(s, 1, m - 1) \in Seq(S)
    <3>1. \A k \in 1..(m - 1) : s[k] \in S
      BY <2>4
    <3>. QED
      BY <2>4, <3>1, SubSeqProperties, m - 1 \in Int
  <2>6. SubSeq(s, m + 1, Len(s)) \in Seq(S)
    <3>1. \A k \in (m + 1)..Len(s) : s[k] \in S
      BY <2>4
    <3>. QED
      BY <2>4, <3>1, SubSeqProperties, m + 1 \in Int, Len(s) \in Int
  <2>. QED
    BY <1>2, <2>3, <2>5, <2>6, ConcatProperties
<1>. QED
  BY <1>1, <1>2

\* Erasing the first element takes the head off.
LEMMA HeadRemoved ==
  ASSUME NEW S, NEW t \in Seq(S), NEW x, Len(t) >= 1, t[1] = x
  PROVE  /\ Len(RemoveFirst(t, x)) = Len(t) - 1
         /\ \A k \in 1..(Len(t) - 1) : RemoveFirst(t, x)[k] = t[k + 1]
<1>. DEFINE I == {i \in 1..Len(t) : t[i] = x}
            m == Min(I)
            b == SubSeq(t, 2, Len(t))
<1>1. 1 \in I /\ I \subseteq Nat
  OBVIOUS
<1>2. RemoveFirst(t, x) = RemoveAt(t, m)
  BY <1>1 DEF RemoveFirst, SelectInSeq
<1>3. m = 1
  <2>1. m \in I /\ m <= 1
    <3>. HIDE DEF I
    <3>. QED
      BY <1>1, LeastElement
  <2>. HIDE DEF m
  <2>. QED
    BY <2>1
<1>. HIDE DEF m
<1>4. RemoveAt(t, 1) = SubSeq(t, 1, 0) \o b
  BY DEF RemoveAt
<1>5. SubSeq(t, 1, 0) = <<>>
  <2>1. \A k \in 1..0 : t[k] \in S
    OBVIOUS
  <2>2. SubSeq(t, 1, 0) \in Seq(S) /\ Len(SubSeq(t, 1, 0)) = 0
    BY <2>1, SubSeqProperties
  <2>. QED
    BY <2>2, EmptySeq
<1>6. b \in Seq(S) /\ Len(b) = Len(t) - 1 /\ \A k \in 1..(Len(t) - 1) : b[k] = t[k + 1]
  <2>1. \A k \in 2..Len(t) : t[k] \in S
    OBVIOUS
  <2>2. /\ b \in Seq(S)
        /\ Len(b) = IF 2 <= Len(t) THEN Len(t) - 2 + 1 ELSE 0
        /\ \A k \in 1..(Len(t) - 2 + 1) : b[k] = t[2 + k - 1]
    BY <2>1, SubSeqProperties, 2 \in Int, Len(t) \in Int
  <2>. HIDE DEF b
  <2>3. Len(b) = Len(t) - 1
    <3>1. Len(b) = IF 2 <= Len(t) THEN Len(t) - 2 + 1 ELSE 0
      BY <2>2
    <3>2. Len(t) \in Nat /\ Len(t) >= 1
      OBVIOUS
    <3>3. \A n \in Nat : n >= 1 => (IF 2 <= n THEN n - 2 + 1 ELSE 0) = n - 1
      OBVIOUS
    <3>. QED
      BY <3>1, <3>2, <3>3
  <2>4. ASSUME NEW k \in 1..(Len(t) - 1)
        PROVE  b[k] = t[k + 1]
    <3>1. k \in 1..(Len(t) - 2 + 1) /\ 2 + k - 1 = k + 1
      BY Len(t) \in Nat
    <3>2. b[k] = t[2 + k - 1]
      BY <2>2, <3>1
    <3>. QED
      BY <3>1, <3>2
  <2>. QED
    BY <2>2, <2>3, <2>4
<1>. HIDE DEF b
<1>7. <<>> \o b = b
  BY <1>6
<1>. QED
  BY <1>2, <1>3, <1>4, <1>5, <1>6, <1>7

\* e[n] is c after the first n elements of s were removed from it, each once.
Removes(e, c, s) ==
    e = [n \in 0..Len(s) |-> IF n = 0 THEN c ELSE RemoveFirst(e[n - 1], s[n])]

\* For every c and s there is such a function: the recursive definition defines
\* it.
LEMMA RemovesEach ==
  ASSUME NEW c, NEW s, Len(s) \in Nat
  PROVE  \E e : Removes(e, c, s)
<1>. DEFINE R(n, t) == RemoveFirst(t, s[n])
            Upto(e, k) == e = [n \in 0..k |-> IF n = 0 THEN c ELSE R(n, e[n - 1])]
            T == {k \in 0..Len(s) : \E e : Upto(e, k)}
<1>. HIDE DEF R
<1>1. 0 \in T
  <2>. Upto([n \in 0..0 |-> c], 0)
    OBVIOUS
  <2>. HIDE DEF Upto
  <2>. QED
    BY 0 \in 0..Len(s)
<1>2. ASSUME NEW k \in 1..Len(s), k - 1 \in T
      PROVE  k \in T
  <2>1. PICK e : Upto(e, k - 1)
    BY <1>2
  <2>. DEFINE u == [n \in 0..k |-> IF n = k THEN R(k, e[k - 1]) ELSE e[n]]
  <2>2. ASSUME NEW n \in 0..k
        PROVE  u[n] = IF n = 0 THEN c ELSE R(n, u[n - 1])
    <3>1. CASE n = k
      <4>1. k - 1 \in 0..k /\ k - 1 # k /\ n # 0
        BY <3>1
      <4>. QED
        BY <3>1, <4>1
    <3>2. CASE n # k /\ n = 0
      <4>1. e[0] = c
        BY <2>1
      <4>. QED
        BY <3>2, <4>1
    <3>3. CASE n # k /\ n # 0
      <4>1. n \in 0..(k - 1) /\ n - 1 \in 0..k /\ n - 1 # k
        BY <3>3
      <4>2. e[n] = R(n, e[n - 1])
        BY <2>1, <3>3, <4>1
      <4>. QED
        BY <3>3, <4>1, <4>2
    <3>. QED
      BY <3>1, <3>2, <3>3
  <2>3. Upto(u, k)
    BY <2>2
  <2>. HIDE DEF Upto
  <2>. QED
    BY <2>3, k \in 0..Len(s)
<1>3. 0..Len(s) \subseteq T
  <2>. HIDE DEF T
  <2>. QED
    BY <1>1, <1>2, UpTo
<1>4. \E e : Upto(e, Len(s))
  <2>. HIDE DEF Upto
  <2>. QED
    BY <1>3, Len(s) \in 0..Len(s)
<1>. QED
  BY <1>4 DEF Removes, R

\* The same, one step at a time.
RemovesNext(e, c, s) ==
    e[0] = c /\ \A n \in 1..Len(s) : e[n] = RemoveFirst(e[n - 1], s[n])

\* Such a function's values are sequences, each the one before without the next
\* element of s.
LEMMA RemovesSteps ==
  ASSUME NEW S, NEW c \in Seq(S), NEW s, Len(s) \in Nat, NEW e, Removes(e, c, s)
  PROVE  e \in [0..Len(s) -> Seq(S)] /\ RemovesNext(e, c, s)
<1>. DEFINE Q == Seq(S)
            R(n, t) == RemoveFirst(t, s[n])
            T == {n \in 0..Len(s) : e[n] \in Q}
<1>1. c \in Q /\ \A n \in Nat, t \in Q : R(n, t) \in Q
  BY RemoveFirstType
<1>. HIDE DEF Q
<1>2. e[0] = c /\ \A n \in 1..Len(s) : e[n] = R(n, e[n - 1])
  <2>. HIDE DEF R
  <2>1. e = [n \in 0..Len(s) |-> IF n = 0 THEN c ELSE R(n, e[n - 1])]
    BY DEF Removes, R
  <2>2. \A n \in 1..Len(s) : n \in 0..Len(s) /\ n # 0
    OBVIOUS
  <2>. QED
    BY <2>1, <2>2, 0 \in 0..Len(s)
<1>. HIDE DEF R
<1>3. 0 \in T
  BY <1>1, <1>2
<1>4. ASSUME NEW n \in 1..Len(s), n - 1 \in T
      PROVE  n \in T
  <2>1. n \in Nat /\ n \in 0..Len(s) /\ e[n - 1] \in Q
    BY <1>4
  <2>2. e[n] \in Q
    BY <1>1, <1>2, <2>1
  <2>. QED
    BY <2>1, <2>2
<1>5. 0..Len(s) \subseteq T
  <2>. HIDE DEF T
  <2>. QED
    BY <1>3, <1>4, UpTo
<1>6. e = [n \in 0..Len(s) |-> e[n]]
  BY DEF Removes
<1>7. e \in [0..Len(s) -> Q]
  BY <1>5, <1>6
<1>. QED
  BY <1>2, <1>7 DEF Q, R, RemovesNext

\* A prefix of s is empty once all elements of s were removed from it,
\* duplicates and all.
LEMMA PrefixRemoved ==
  ASSUME NEW S, NEW c \in Seq(S), NEW s \in Seq(S), NEW e, Removes(e, c, s)
  PROVE  /\ e[Len(s)] \in Seq(S)
         /\ IsPrefix(c, s) => e[Len(s)] = <<>>
<1>1. e[Len(s)] \in Seq(S)
  BY RemovesSteps, Len(s) \in 0..Len(s)
<1>2. ASSUME IsPrefix(c, s)
      PROVE  e[Len(s)] = <<>>
  <2>. DEFINE m == Len(c)
              Left(t, n) == Len(t) = m - n /\ \A i \in 1..(m - n) : t[i] = c[n + i]
              T == {n \in 0..Len(s) : IF n <= m THEN Left(e[n], n) ELSE e[n] = <<>>}
  <2>1. /\ m \in Nat /\ Len(s) \in Nat
        /\ m <= Len(s)
        /\ \A i \in 1..m : c[i] = s[i]
    BY <1>2, PrefixElements
  <2>2. /\ e \in [0..Len(s) -> Seq(S)]
        /\ e[0] = c
        /\ \A n \in 1..Len(s) : e[n] = RemoveFirst(e[n - 1], s[n])
    BY RemovesSteps, Len(s) \in Nat DEF RemovesNext
  <2>3. Left(c, 0)
    OBVIOUS
  <2>. HIDE DEF m
  <2>4. 0 \in T
    BY <2>1, <2>2, <2>3
  <2>5. ASSUME NEW n \in 1..Len(s), n - 1 \in T
        PROVE  n \in T
    <3>. DEFINE t == e[n - 1]
                r == e[n]
    <3>0. /\ t \in Seq(S) /\ r = RemoveFirst(t, s[n])
          /\ IF n - 1 <= m THEN Left(t, n - 1) ELSE t = <<>>
      BY <2>2, <2>5
    <3>. HIDE DEF t, r
    <3>1. n \in 0..Len(s) /\ n \in Nat /\ n # 0
      BY <2>1
    <3>2. CASE n <= m
      <4>1. /\ Len(t) = m - (n - 1) /\ Len(t) >= 1
            /\ \A i \in 1..(m - (n - 1)) : t[i] = c[(n - 1) + i]
        <5>1. n - 1 <= m
          BY <2>1, <3>1, <3>2
        <5>2. Left(t, n - 1)
          <6>. HIDE DEF Left
          <6>. QED
            BY <3>0, <5>1
        <5>3. m - (n - 1) >= 1
          BY <2>1, <3>1, <3>2
        <5>4. Len(t) = m - (n - 1)
          BY <5>2
        <5>5. \A i \in 1..(m - (n - 1)) : t[i] = c[(n - 1) + i]
          BY <5>2
        <5>. QED
          BY <5>3, <5>4, <5>5
      <4>2. t[1] = s[n]
        <5>1. 1 \in 1..(m - (n - 1)) /\ (n - 1) + 1 = n /\ n \in 1..m
          BY <2>1, <3>1, <3>2
        <5>. QED
          BY <2>1, <4>1, <5>1
      <4>3. Len(r) = Len(t) - 1 /\ \A k \in 1..(Len(t) - 1) : r[k] = t[k + 1]
        BY <3>0, <4>1, <4>2, HeadRemoved
      <4>4. Left(r, n)
        <5>1. \A i \in 1..(m - n) : /\ i \in 1..(Len(t) - 1)
                                    /\ i + 1 \in 1..(m - (n - 1))
                                    /\ (n - 1) + (i + 1) = n + i
          BY <2>1, <3>1, <4>1
        <5>2. Len(r) = m - n
          BY <2>1, <3>1, <4>1, <4>3
        <5>. QED
          BY <4>1, <4>3, <5>1, <5>2
      <4>. QED
        BY <3>1, <3>2, <4>4 DEF r
    <3>3. CASE ~(n <= m)
      <4>1. Len(t) = 0
        <5>1. n - 1 <= m => n - 1 = m
          BY <2>1, <3>1, <3>3
        <5>2. n - 1 = m => Len(t) = 0
          BY <2>1, <3>0, <3>1
        <5>3. t = <<>> => Len(t) = 0
          BY EmptySeq
        <5>. QED
          BY <3>0, <5>1, <5>2, <5>3
      <4>2. t = <<>> /\ ToSet(t) = {}
        BY <3>0, <4>1, EmptySeq DEF ToSet
      <4>3. r = t
        BY <3>0, <4>2, RemoveFirstType
      <4>. QED
        BY <3>1, <3>3, <4>2, <4>3 DEF r
    <3>. QED
      BY <3>2, <3>3
  <2>6. Len(s) \in T
    <3>. HIDE DEF T
    <3>. QED
      BY <2>1, <2>4, <2>5, UpTo, Len(s) \in 0..Len(s)
  <2>7. CASE Len(s) = m
    <3>1. e[m] \in Seq(S) /\ Left(e[m], m)
      BY <2>1, <2>2, <2>6, <2>7
    <3>2. Len(e[m]) = 0
      BY <2>1, <3>1
    <3>. QED
      BY <2>7, <3>1, <3>2, EmptySeq
  <2>8. CASE Len(s) # m
    BY <2>1, <2>6, <2>8
  <2>. QED
    BY <2>7, <2>8
<1>. QED
  BY <1>1, <1>2

\* A prefix stays one when the longer sequence grows.
LEMMA PrefixExtends ==
  ASSUME NEW S, NEW s \in Seq(S), NEW t \in Seq(S), NEW x \in S, IsPrefix(s, t)
  PROVE  IsPrefix(s, Append(t, x))
<1>. DEFINE u == Append(t, x)
<1>1. Len(s) <= Len(t) /\ \A i \in 1..Len(s) : s[i] = t[i]
  BY PrefixElements
<1>2. u \in Seq(S) /\ Len(u) = Len(t) + 1 /\ \A i \in 1..Len(t) : u[i] = t[i]
  BY AppendProperties
<1>. HIDE DEF u
<1>3. Len(s) <= Len(u) /\ \A i \in 1..Len(s) : s[i] = u[i]
  BY <1>1, <1>2
<1>4. IsPrefix(s, u)
  BY <1>2, <1>3, PrefixElements
<1>. QED
  BY <1>4 DEF u

\* The empty sequence is a prefix of itself.
LEMMA EmptyPrefix == IsPrefix(<<>>, <<>>)
BY EmptySeq DEF IsPrefix

\* Head and tail of a sequence of one element.
LEMMA SingleElement ==
  ASSUME NEW S, NEW s \in Seq(S), Len(s) = 1
  PROVE  s # <<>> /\ Head(s) = s[1] /\ Tail(s) = <<>>
<1>1. s # <<>>
  BY EmptySeq
<1>2. Head(s) = s[1] /\ Tail(s) \in Seq(S) /\ Len(Tail(s)) = 0
  BY <1>1, HeadTailProperties
<1>. QED
  BY <1>1, <1>2, EmptySeq

\* Appending to the empty sequence.
LEMMA FirstElement ==
  ASSUME NEW S, NEW x \in S
  PROVE  LET s == Append(<<>>, x)
         IN  s \in Seq(S) /\ s # <<>> /\ Len(s) = 1 /\ s[1] = x
<1>1. <<>> \in Seq(S) /\ Len(<<>>) = 0
  BY EmptySeq
<1>. QED
  BY <1>1, AppendProperties

-----------------------------------------------------------------------------
USE SyncAssumption DEF SyncAssumption, server, wire, state, count, data, lists, threads,
    At, ListenerAt, Explored, Race, Conns

\* The listener's loop over server_controllers takes all copies out of
\* controllers if these are the first of them.
LEMMA AllErased ==
  ASSUME controllers \in Seq(Copies), server_controllers \in Seq(Copies)
  PROVE  /\ ErasedCopies[Len(server_controllers)] \in Seq(Copies)
         /\ IsPrefix(controllers, server_controllers)
                => ErasedCopies[Len(server_controllers)] = <<>>
<1>1. \E e : Removes(e, controllers, server_controllers)
  BY RemovesEach, Len(server_controllers) \in Nat
<1>2. Removes(ErasedCopies, controllers, server_controllers)
  BY <1>1 DEF Removes, ErasedCopies
<1>. QED
  BY <1>2, PrefixRemoved, Len(server_controllers) \in Nat

\* Without copies none is shown.
LEMMA NothingShown ==
  ASSUME TypeOK, IsPrefix(controllers, server_controllers), server_controllers = <<>>
  PROVE  controllers = <<>>
<1>1. controllers \in Seq(Copies) /\ server_controllers \in Seq(Copies) /\ Len(<<>>) = 0
  BY EmptySeq DEF TypeOK
<1>2. Len(controllers) <= 0
  BY <1>1, PrefixElements
<1>. QED
  BY <1>1, <1>2, EmptySeq

\* The server describes one of its devices with every answer about a
\* controller.
LEMMA ReceivedCopy ==
  ASSUME IInv, NEW k \in Conns, ReceiveData(k)
  PROVE  [dev |-> Head(s2c).dev, idx |-> Head(s2c).n] \in Copies
<1>1. s2c \in Seq(Messages) /\ s2c # <<>> /\ Head(s2c).kind = "data"
  BY DEF ReceiveData, Receive, IInv, TypeOK
<1>2. Head(s2c) \in Messages /\ Head(s2c) = s2c[1] /\ 1 \in 1..Len(s2c)
  BY <1>1
<1>. QED
  BY <1>1, <1>2 DEF IInv, Described, Messages, Copies

\* Every step preserves the types of the flags.
LEMMA FlagsStep ==
  ASSUME Flags, [Next]_vars
  PROVE  Flags'
<1>. USE DEF IInv, Flags
<1>1. CASE ServerChange
  BY <1>1 DEF ServerChange, Calm
<1>2. CASE ServerAnnounce
  BY <1>2 DEF ServerAnnounce, Message, Calm
<1>3. CASE ServerReply
  BY <1>3 DEF ServerReply, CountReply, Message
<1>4. CASE ConnectionLost
  BY <1>4 DEF ConnectionLost, Calm, Disconnect
<1>5. CASE Top
  BY <1>5 DEF Top
<1>6. CASE Connect
  BY <1>6 DEF Connect
<1>7. CASE Connected
  BY <1>7 DEF Connected
<1>8. CASE Listen
  BY <1>8 DEF Listen
<1>9. CASE Sync
  BY <1>9 DEF Sync
<1>10. CASE AskCount
  BY <1>10 DEF AskCount, Send, Message
<1>11. CASE CountAsked
  BY <1>11 DEF CountAsked
<1>12. CASE NextController
  BY <1>12 DEF NextController
<1>13. CASE Prepare
  BY <1>13 DEF Prepare
<1>14. CASE AskData
  BY <1>14 DEF AskData, Send, Message
<1>15. CASE DataAsked
  BY <1>15 DEF DataAsked, Check
<1>16. CASE CheckData
  BY <1>16 DEF CheckData, Check
<1>17. CASE AddToMaster
  BY <1>17 DEF AddToMaster
<1>18. CASE Added
  BY <1>18 DEF Added
<1>19. CASE StopClient
  BY <1>19 DEF StopClient, StopAt
<1>20. CASE StopActive
  BY <1>20 DEF StopActive, StopAt
<1>21. CASE StopShutdown
  BY <1>21 DEF StopShutdown, Disconnect, StopAt
<1>22. CASE StopDisconnect
  BY <1>22 DEF StopDisconnect, StopAt
<1>23. CASE JoinListen
  BY <1>23 DEF JoinListen, StopAt
<1>24. CASE JoinConnection
  BY <1>24 DEF JoinConnection, StopAt
<1>25. ASSUME NEW k \in Conns, ReceiveCount(k)
      PROVE  Flags'
  BY <1>25 DEF ReceiveCount, Receive
<1>26. ASSUME NEW k \in Conns, ReceiveData(k)
      PROVE  Flags'
  BY <1>26 DEF ReceiveData, Receive, WithCopy
<1>27. ASSUME NEW k \in Conns, ReceiveChanged(k)
      PROVE  Flags'
  BY <1>27 DEF ReceiveChanged, Receive, DeleteCopies
<1>28. ASSUME NEW k \in Conns, StartOver(k)
      PROVE  Flags'
  BY <1>28 DEF StartOver
<1>29. ASSUME NEW k \in Conns, DataReceived(k)
      PROVE  Flags'
  BY <1>29 DEF DataReceived
<1>30. ASSUME NEW k \in Conns, ListenDone(k)
      PROVE  Flags'
  BY <1>30 DEF ListenDone
<1>31. ASSUME NEW k \in Conns, ResetFlags(k)
      PROVE  Flags'
  BY <1>31 DEF ResetFlags
<1>32. ASSUME NEW k \in Conns, Uninitialize(k)
      PROVE  Flags'
  BY <1>32 DEF Uninitialize
<1>33. ASSUME NEW k \in Conns, Closed(k)
      PROVE  Flags'
  BY <1>33 DEF Closed
<1>34. ASSUME NEW k \in Conns, Delete(k)
      PROVE  Flags'
  BY <1>34 DEF Delete, DeleteCopies
<1>35. CASE UNCHANGED vars
  BY <1>35 DEF vars
<1>36. CASE AddUnderUpdate
  BY <1>36 DEF AddUnderUpdate
<1>37. CASE OwnUpdate
  BY <1>37 DEF OwnUpdate
<1>. QED
  BY <1>1, <1>2, <1>3, <1>4, <1>5, <1>6, <1>7, <1>8, <1>9, <1>10, <1>11,
     <1>12, <1>13, <1>14, <1>15, <1>16, <1>17, <1>18, <1>19, <1>20, <1>21,
     <1>22, <1>23, <1>24, <1>25, <1>26, <1>27, <1>28, <1>29, <1>30, <1>31,
     <1>32, <1>33, <1>34, <1>35, <1>36, <1>37
  DEF Next, ConnectionThread, Listener, Stopping

\* Every step preserves the types of the lists and numbers.
LEMMA NumbersStep ==
  ASSUME IInv, [Next]_vars
  PROVE  Numbers'
<1>. USE DEF IInv, TypeOK, Connections, Numbers
<1>1. CASE ServerChange
  <2>1. CASE srv' = <<>>
    BY <1>1, <2>1, EmptySeq DEF ServerChange
  <2>2. ASSUME NEW d \in Devices, srv' = Append(srv, d)
        PROVE  Numbers'
    BY <1>1, <2>2, AppendProperties DEF ServerChange
  <2>3. ASSUME NEW d, srv' = RemoveFirst(srv, d)
        PROVE  Numbers'
    BY <1>1, <2>3, RemoveFirstType DEF ServerChange
  <2>. QED
    BY <1>1, <2>1, <2>2, <2>3 DEF ServerChange
<1>2. CASE ServerAnnounce
  BY <1>2 DEF ServerAnnounce, Message, Calm
<1>3. CASE ServerReply
  BY <1>3 DEF ServerReply, CountReply, Message
<1>4. CASE ConnectionLost
  BY <1>4 DEF ConnectionLost, Calm, Disconnect
<1>5. CASE Top
  BY <1>5 DEF Top
<1>6. CASE Connect
  BY <1>6 DEF Connect
<1>7. CASE Connected
  BY <1>7 DEF Connected
<1>8. CASE Listen
  BY <1>8 DEF Listen
<1>9. CASE Sync
  BY <1>9 DEF Sync
<1>10. CASE AskCount
  BY <1>10 DEF AskCount, Send, Message
<1>11. CASE CountAsked
  BY <1>11 DEF CountAsked
<1>12. CASE NextController
  BY <1>12 DEF NextController
<1>13. CASE Prepare
  BY <1>13 DEF Prepare
<1>14. CASE AskData
  BY <1>14 DEF AskData, Send, Message
<1>15. CASE DataAsked
  BY <1>15 DEF DataAsked, Check
<1>16. CASE CheckData
  BY <1>16 DEF CheckData, Check
<1>17. CASE AddToMaster
  BY <1>17 DEF AddToMaster
<1>18. CASE Added
  BY <1>18 DEF Added
<1>19. CASE StopClient
  BY <1>19 DEF StopClient, StopAt
<1>20. CASE StopActive
  BY <1>20 DEF StopActive, StopAt
<1>21. CASE StopShutdown
  BY <1>21 DEF StopShutdown, Disconnect, StopAt
<1>22. CASE StopDisconnect
  BY <1>22 DEF StopDisconnect, StopAt
<1>23. CASE JoinListen
  BY <1>23 DEF JoinListen, StopAt
<1>24. CASE JoinConnection
  BY <1>24 DEF JoinConnection, StopAt
<1>25. ASSUME NEW k \in Conns, ReceiveCount(k)
      PROVE  Numbers'
  <2>1. s2c \in Seq(Messages) /\ s2c # <<>>
    BY <1>25 DEF ReceiveCount, Receive
  <2>2. Head(s2c).n \in Nat
    <3>1. Head(s2c) \in Messages
      BY <2>1, HeadTailProperties
    <3>. QED
      BY <3>1 DEF Messages
  <2>. QED
    BY <1>25, <2>2 DEF ReceiveCount, Receive
<1>26. ASSUME NEW k \in Conns, ReceiveData(k)
      PROVE  Numbers'
  <2>. DEFINE s == server_controllers
              m == [dev |-> Head(s2c).dev, idx |-> Head(s2c).n]
  <2>1. m \in Copies
    BY <1>26, ReceivedCopy
  <2>2. s' = s \/ s' = Append(s, m)
    BY <1>26 DEF ReceiveData, WithCopy
  <2>. HIDE DEF m
  <2>3. s' \in Seq(Copies)
    <3>1. Append(s, m) \in Seq(Copies)
      BY <2>1, AppendProperties
    <3>. QED
      BY <2>2, <3>1
  <2>. QED
    BY <1>26, <2>3 DEF ReceiveData, Receive
<1>27. ASSUME NEW k \in Conns, ReceiveChanged(k)
      PROVE  Numbers'
  <2>1. ErasedCopies[Len(server_controllers)] \in Seq(Copies) /\ <<>> \in Seq(Copies)
    BY AllErased, EmptySeq
  <2>. QED
    BY <1>27, <2>1 DEF ReceiveChanged, Receive, DeleteCopies
<1>28. ASSUME NEW k \in Conns, StartOver(k)
      PROVE  Numbers'
  BY <1>28 DEF StartOver
<1>29. ASSUME NEW k \in Conns, DataReceived(k)
      PROVE  Numbers'
  BY <1>29 DEF DataReceived
<1>30. ASSUME NEW k \in Conns, ListenDone(k)
      PROVE  Numbers'
  BY <1>30 DEF ListenDone
<1>31. ASSUME NEW k \in Conns, ResetFlags(k)
      PROVE  Numbers'
  BY <1>31 DEF ResetFlags
<1>32. ASSUME NEW k \in Conns, Uninitialize(k)
      PROVE  Numbers'
  BY <1>32 DEF Uninitialize
<1>33. ASSUME NEW k \in Conns, Closed(k)
      PROVE  Numbers'
  BY <1>33 DEF Closed
<1>34. ASSUME NEW k \in Conns, Delete(k)
      PROVE  Numbers'
  <2>1. ErasedCopies[Len(server_controllers)] \in Seq(Copies) /\ <<>> \in Seq(Copies)
    BY AllErased, EmptySeq
  <2>. QED
    BY <1>34, <2>1 DEF Delete, DeleteCopies
<1>35. CASE UNCHANGED vars
  BY <1>35 DEF vars
<1>36. CASE AddUnderUpdate
  <2>1. PICK n \in 1..(Len(server_controllers) - 1) :
           controllers' = SubSeq(server_controllers, n + 1, Len(server_controllers))
    BY <1>36 DEF AddUnderUpdate
  <2>2. \A i \in (n + 1)..Len(server_controllers) : server_controllers[i] \in Copies
    BY <2>1
  <2>3. SubSeq(server_controllers, n + 1, Len(server_controllers)) \in Seq(Copies)
    BY <2>2, SubSeqProperties, n + 1 \in Int, Len(server_controllers) \in Int
  <2>. QED
    BY <1>36, <2>1, <2>3 DEF AddUnderUpdate
<1>37. CASE OwnUpdate
  BY <1>37, EmptySeq DEF OwnUpdate
<1>. QED
  BY <1>1, <1>2, <1>3, <1>4, <1>5, <1>6, <1>7, <1>8, <1>9, <1>10, <1>11,
     <1>12, <1>13, <1>14, <1>15, <1>16, <1>17, <1>18, <1>19, <1>20, <1>21,
     <1>22, <1>23, <1>24, <1>25, <1>26, <1>27, <1>28, <1>29, <1>30, <1>31,
     <1>32, <1>33, <1>34, <1>35, <1>36, <1>37
  DEF Next, ConnectionThread, Listener, Stopping

\* Every step preserves the types of the threads' control points.
LEMMA LabelsStep ==
  ASSUME IInv, [Next]_vars
  PROVE  Labels'
<1>. USE DEF IInv, TypeOK, Connections, Labels, ConnectionLabels, ListenLabels, StopLabels
<1>1. CASE ServerChange
  BY <1>1 DEF ServerChange, Calm
<1>2. CASE ServerAnnounce
  BY <1>2 DEF ServerAnnounce, Message, Calm
<1>3. CASE ServerReply
  BY <1>3 DEF ServerReply, CountReply, Message
<1>4. CASE ConnectionLost
  BY <1>4 DEF ConnectionLost, Calm, Disconnect
<1>5. CASE Top
  BY <1>5 DEF Top
<1>6. CASE Connect
  BY <1>6 DEF Connect
<1>7. CASE Connected
  BY <1>7 DEF Connected
<1>8. CASE Listen
  BY <1>8 DEF Listen
<1>9. CASE Sync
  BY <1>9 DEF Sync
<1>10. CASE AskCount
  BY <1>10 DEF AskCount, Send, Message
<1>11. CASE CountAsked
  BY <1>11 DEF CountAsked
<1>12. CASE NextController
  BY <1>12 DEF NextController
<1>13. CASE Prepare
  BY <1>13 DEF Prepare
<1>14. CASE AskData
  BY <1>14 DEF AskData, Send, Message
<1>15. CASE DataAsked
  BY <1>15 DEF DataAsked, Check
<1>16. CASE CheckData
  BY <1>16 DEF CheckData, Check
<1>17. CASE AddToMaster
  BY <1>17 DEF AddToMaster
<1>18. CASE Added
  BY <1>18 DEF Added
<1>19. CASE StopClient
  BY <1>19 DEF StopClient, StopAt
<1>20. CASE StopActive
  BY <1>20 DEF StopActive, StopAt
<1>21. CASE StopShutdown
  BY <1>21 DEF StopShutdown, Disconnect, StopAt
<1>22. CASE StopDisconnect
  BY <1>22 DEF StopDisconnect, StopAt
<1>23. CASE JoinListen
  BY <1>23 DEF JoinListen, StopAt
<1>24. CASE JoinConnection
  BY <1>24 DEF JoinConnection, StopAt
<1>25. ASSUME NEW k \in Conns, ReceiveCount(k)
      PROVE  Labels'
  BY <1>25 DEF ReceiveCount, Receive
<1>26. ASSUME NEW k \in Conns, ReceiveData(k)
      PROVE  Labels'
  BY <1>26 DEF ReceiveData, Receive, WithCopy
<1>27. ASSUME NEW k \in Conns, ReceiveChanged(k)
      PROVE  Labels'
  BY <1>27 DEF ReceiveChanged, Receive, DeleteCopies
<1>28. ASSUME NEW k \in Conns, StartOver(k)
      PROVE  Labels'
  BY <1>28 DEF StartOver
<1>29. ASSUME NEW k \in Conns, DataReceived(k)
      PROVE  Labels'
  BY <1>29 DEF DataReceived
<1>30. ASSUME NEW k \in Conns, ListenDone(k)
      PROVE  Labels'
  BY <1>30 DEF ListenDone
<1>31. ASSUME NEW k \in Conns, ResetFlags(k)
      PROVE  Labels'
  BY <1>31 DEF ResetFlags
<1>32. ASSUME NEW k \in Conns, Uninitialize(k)
      PROVE  Labels'
  BY <1>32 DEF Uninitialize
<1>33. ASSUME NEW k \in Conns, Closed(k)
      PROVE  Labels'
  BY <1>33 DEF Closed
<1>34. ASSUME NEW k \in Conns, Delete(k)
      PROVE  Labels'
  BY <1>34 DEF Delete, DeleteCopies
<1>35. CASE UNCHANGED vars
  BY <1>35 DEF vars
<1>36. CASE AddUnderUpdate
  BY <1>36 DEF AddUnderUpdate
<1>37. CASE OwnUpdate
  BY <1>37 DEF OwnUpdate
<1>. QED
  BY <1>1, <1>2, <1>3, <1>4, <1>5, <1>6, <1>7, <1>8, <1>9, <1>10, <1>11,
     <1>12, <1>13, <1>14, <1>15, <1>16, <1>17, <1>18, <1>19, <1>20, <1>21,
     <1>22, <1>23, <1>24, <1>25, <1>26, <1>27, <1>28, <1>29, <1>30, <1>31,
     <1>32, <1>33, <1>34, <1>35, <1>36, <1>37
  DEF Next, ConnectionThread, Listener, Stopping

\* Every step puts whole messages on the wire, or takes one off.
LEMMA ChannelStep ==
  ASSUME IInv, [Next]_vars
  PROVE  (Channels /\ Described)'
<1>. USE DEF IInv, Channels, Described
<1>0. Channels
  BY DEF TypeOK
<1>1. ASSUME NEW m \in Messages, m.kind = "data" => m.dev \in Devices,
             s2c' = Append(s2c, m), c2s' \in Seq(Messages)
      PROVE  (Channels /\ Described)'
  BY <1>0, <1>1, AppendProperties
<1>2. CASE ServerAnnounce
  <2>. DEFINE m == Message("changed", 0, NoDevice)
  <2>1. m \in Messages /\ m.kind # "data"
    BY DEF Message, Messages
  <2>. HIDE DEF m
  <2>2. c2s' = c2s /\ (s2c' = s2c \/ s2c' = Append(s2c, m))
    BY <1>2 DEF ServerAnnounce, m
  <2>. QED
    BY <1>0, <1>1, <2>1, <2>2
<1>3. CASE ServerReply
  <2>. DEFINE n == Head(c2s).n
              m == Message("data", n, srv[n + 1])
  <2>1. c2s # <<>> /\ c2s' = Tail(c2s)
    BY <1>3 DEF ServerReply
  <2>2. Head(c2s) \in Messages /\ c2s' \in Seq(Messages)
    BY <1>0, <2>1, HeadTailProperties
  <2>3. CountReply \in Messages /\ CountReply.kind # "data"
    BY DEF CountReply, Message, Messages, TypeOK
  <2>4. \/ s2c' = s2c \/ s2c' = Append(s2c, CountReply)
        \/ n < Len(srv) /\ s2c' = Append(s2c, m)
    BY <1>3 DEF ServerReply
  <2>5. n \in Nat
    BY <2>2 DEF Messages
  <2>6. n < Len(srv) => m \in Messages /\ m.dev \in Devices
    BY <2>5 DEF Message, Messages, TypeOK
  <2>. HIDE DEF m, n
  <2>. QED
    BY <1>0, <1>1, <2>2, <2>3, <2>4, <2>6
<1>4. ASSUME AskCount \/ AskData
      PROVE  (Channels /\ Described)'
  <2>. DEFINE m1 == Message("count", 0, NoDevice)
              m2 == Message("data", requested_controllers, NoDevice)
  <2>1. m1 \in Messages /\ m2 \in Messages
    BY DEF Message, Messages, TypeOK
  <2>2. /\ s2c' = s2c
        /\ c2s' = c2s \/ c2s' = Append(c2s, m1) \/ c2s' = Append(c2s, m2)
    BY <1>4 DEF AskCount, AskData, Send
  <2>. HIDE DEF m1, m2
  <2>3. c2s' \in Seq(Messages)
    <3>1. Append(c2s, m1) \in Seq(Messages) /\ Append(c2s, m2) \in Seq(Messages)
      BY <1>0, <2>1, AppendProperties
    <3>. QED
      BY <1>0, <2>2, <3>1
  <2>. QED
    BY <1>0, <2>2, <2>3
<1>5. ASSUME NEW k \in Conns, ReceiveCount(k) \/ ReceiveData(k) \/ ReceiveChanged(k)
      PROVE  (Channels /\ Described)'
  <2>1. s2c # <<>> /\ s2c' = Tail(s2c) /\ c2s' = c2s
    BY <1>5 DEF ReceiveCount, ReceiveData, ReceiveChanged, Receive
  <2>2. /\ s2c' \in Seq(Messages) /\ Len(s2c') = Len(s2c) - 1
        /\ \A i \in 1..Len(s2c') : s2c'[i] = s2c[i + 1]
    BY <1>0, <2>1, HeadTailProperties
  <2>. QED
    BY <1>0, <2>1, <2>2
<1>. DEFINE Kept == UNCHANGED <<c2s, s2c>> \/ (c2s' = <<>> /\ s2c' = <<>>)
<1>6. ASSUME ServerChange \/ ConnectionLost
      PROVE  Kept
  BY <1>6 DEF ServerChange, ConnectionLost, Disconnect
<1>7. ASSUME Top \/ Connect \/ Connected \/ Listen \/ Sync \/ CountAsked
             \/ NextController \/ Prepare \/ DataAsked \/ CheckData \/ AddToMaster
             \/ AddUnderUpdate \/ Added \/ OwnUpdate
      PROVE  Kept
  BY <1>7 DEF Top, Connect, Connected, Listen, Sync, CountAsked, NextController, Prepare,
      DataAsked, Check, CheckData, AddToMaster, AddUnderUpdate, Added, OwnUpdate
<1>8. ASSUME StopClient \/ StopActive \/ StopShutdown \/ StopDisconnect
             \/ JoinListen \/ JoinConnection
      PROVE  Kept
  BY <1>8 DEF StopClient, StopAt, StopActive, StopShutdown, Disconnect, StopDisconnect,
      JoinListen, JoinConnection
<1>9. ASSUME NEW k \in Conns,
             \/ StartOver(k) \/ DataReceived(k) \/ ListenDone(k) \/ ResetFlags(k)
             \/ Uninitialize(k) \/ Closed(k) \/ Delete(k)
      PROVE  Kept
  BY <1>9 DEF StartOver, DataReceived, ListenDone, ResetFlags, Uninitialize, Closed, Delete
<1>10. ASSUME UNCHANGED vars
      PROVE  Kept
  BY <1>10 DEF vars
<1>11. ASSUME Kept
      PROVE  (Channels /\ Described)'
  <2>1. CASE UNCHANGED <<c2s, s2c>>
    BY <1>0, <2>1
  <2>2. CASE c2s' = <<>> /\ s2c' = <<>>
    BY <2>2, EmptySeq
  <2>. QED
    BY <1>11, <2>1, <2>2
<1>. QED
  BY <1>2, <1>3, <1>4, <1>5, <1>6, <1>7, <1>8, <1>9, <1>10, <1>11
  DEF Next, ConnectionThread, Listener, Stopping

\* Every step preserves Connections: a listener that ends wakes the connection
\* thread no earlier than the connection is lost.
LEMMA ConnectionsStep ==
  ASSUME IInv, [Next]_vars
  PROVE  Connections'
<1>. USE DEF IInv, TypeOK, Connections, Alive, NoOverlap, ListenLabels
<1>1. CASE ServerChange
  BY <1>1 DEF ServerChange, Calm
<1>2. CASE ServerAnnounce
  BY <1>2 DEF ServerAnnounce, Message, Calm
<1>3. CASE ServerReply
  BY <1>3 DEF ServerReply, CountReply, Message
<1>4. CASE ConnectionLost
  BY <1>4 DEF ConnectionLost, Calm, Disconnect
<1>5. CASE Top
  BY <1>5 DEF Top
<1>6. CASE Connect
  BY <1>6 DEF Connect
<1>7. CASE Connected
  BY <1>7 DEF Connected
<1>8. CASE Listen
  BY <1>8 DEF Listen
<1>9. CASE Sync
  BY <1>9 DEF Sync
<1>10. CASE AskCount
  BY <1>10 DEF AskCount, Send, Message
<1>11. CASE CountAsked
  BY <1>11 DEF CountAsked
<1>12. CASE NextController
  BY <1>12 DEF NextController
<1>13. CASE Prepare
  BY <1>13 DEF Prepare
<1>14. CASE AskData
  BY <1>14 DEF AskData, Send, Message
<1>15. CASE DataAsked
  BY <1>15 DEF DataAsked, Check
<1>16. CASE CheckData
  BY <1>16 DEF CheckData, Check
<1>17. CASE AddToMaster
  BY <1>17 DEF AddToMaster
<1>18. CASE Added
  BY <1>18 DEF Added
<1>19. CASE StopClient
  BY <1>19 DEF StopClient, StopAt
<1>20. CASE StopActive
  BY <1>20 DEF StopActive, StopAt
<1>21. CASE StopShutdown
  BY <1>21 DEF StopShutdown, Disconnect, StopAt
<1>22. CASE StopDisconnect
  BY <1>22 DEF StopDisconnect, StopAt
<1>23. CASE JoinListen
  BY <1>23 DEF JoinListen, StopAt
<1>24. CASE JoinConnection
  BY <1>24 DEF JoinConnection, StopAt
<1>25. ASSUME NEW k \in Conns, ReceiveCount(k)
      PROVE  Connections'
  BY <1>25 DEF ReceiveCount, Receive
<1>26. ASSUME NEW k \in Conns, ReceiveData(k)
      PROVE  Connections'
  BY <1>26 DEF ReceiveData, Receive
<1>27. ASSUME NEW k \in Conns, ReceiveChanged(k)
      PROVE  Connections'
  BY <1>27 DEF ReceiveChanged, Receive
<1>28. ASSUME NEW k \in Conns, StartOver(k)
      PROVE  Connections'
  BY <1>28 DEF StartOver
<1>29. ASSUME NEW k \in Conns, DataReceived(k)
      PROVE  Connections'
  BY <1>29 DEF DataReceived
<1>30. ASSUME NEW k \in Conns, ListenDone(k)
      PROVE  Connections'
  BY <1>30 DEF ListenDone
<1>31. ASSUME NEW k \in Conns, ResetFlags(k)
      PROVE  Connections'
  BY <1>31 DEF ResetFlags
<1>32. ASSUME NEW k \in Conns, Uninitialize(k)
      PROVE  Connections'
  BY <1>32 DEF Uninitialize
<1>33. ASSUME NEW k \in Conns, Closed(k)
      PROVE  Connections'
  BY <1>33 DEF Closed
<1>34. ASSUME NEW k \in Conns, Delete(k)
      PROVE  Connections'
  BY <1>34 DEF Delete, DeleteCopies
<1>35. CASE UNCHANGED vars
  BY <1>35 DEF vars
<1>36. CASE AddUnderUpdate
  BY <1>36 DEF AddUnderUpdate
<1>37. CASE OwnUpdate
  BY <1>37 DEF OwnUpdate
<1>. QED
  BY <1>1, <1>2, <1>3, <1>4, <1>5, <1>6, <1>7, <1>8, <1>9, <1>10, <1>11,
     <1>12, <1>13, <1>14, <1>15, <1>16, <1>17, <1>18, <1>19, <1>20, <1>21,
     <1>22, <1>23, <1>24, <1>25, <1>26, <1>27, <1>28, <1>29, <1>30, <1>31,
     <1>32, <1>33, <1>34, <1>35, <1>36, <1>37
  DEF Next, ConnectionThread, Listener, Stopping

\* Every step preserves Shown: copies are added by the connection thread once
\* all are received, and deleted by the listener.
LEMMA ShownStep ==
  ASSUME IInv, [Next]_vars
  PROVE  Shown'
<1>. USE DEF IInv, TypeOK, Connections, Shown, Alive, Ending, NoOverlap, ListenLabels
<1>1. CASE ServerChange
  BY <1>1 DEF ServerChange, Calm
<1>2. CASE ServerAnnounce
  BY <1>2 DEF ServerAnnounce, Message, Calm
<1>3. CASE ServerReply
  BY <1>3 DEF ServerReply, CountReply, Message
<1>4. CASE ConnectionLost
  BY <1>4 DEF ConnectionLost, Calm, Disconnect
<1>5. CASE Top
  BY <1>5 DEF Top
<1>6. CASE Connect
  BY <1>6 DEF Connect
<1>7. CASE Connected
  <2>. SUFFICES ASSUME NoOverlap'
                PROVE  Shown'
    BY DEF Shown
  <2>1. NoOverlap /\ \A j \in Conns : ~Alive(j)
    BY <1>7 DEF Connected
  <2>2. server_controllers = <<>> /\ controllers = <<>>
    BY <2>1, NothingShown
  <2>. QED
    BY <1>7, <2>1, <2>2 DEF Connected
<1>8. CASE Listen
  <2>. SUFFICES ASSUME NoOverlap'
                PROVE  Shown'
    BY DEF Shown
  <2>1. NoOverlap /\ \A j \in Conns : ~Alive(j)
    BY <1>8 DEF Listen
  <2>2. server_controllers = <<>> /\ controllers = <<>>
    BY <2>1, NothingShown
  <2>. QED
    BY <1>8, <2>1, <2>2 DEF Listen
<1>9. CASE Sync
  BY <1>9 DEF Sync
<1>10. CASE AskCount
  BY <1>10 DEF AskCount, Send, Message
<1>11. CASE CountAsked
  BY <1>11 DEF CountAsked
<1>12. CASE NextController
  BY <1>12 DEF NextController
<1>13. CASE Prepare
  BY <1>13 DEF Prepare
<1>14. CASE AskData
  BY <1>14 DEF AskData, Send, Message
<1>15. CASE DataAsked
  BY <1>15 DEF DataAsked, Check
<1>16. CASE CheckData
  BY <1>16 DEF CheckData, Check
<1>17. CASE AddToMaster
  <2>. SUFFICES ASSUME NoOverlap'
                PROVE  Shown'
    BY DEF Shown
  <2>1. NoOverlap /\ controllers = <<>>
    BY <1>17 DEF AddToMaster
  <2>2. controllers' = server_controllers /\ server_controllers' = server_controllers
    BY <1>17, <2>1 DEF AddToMaster
  <2>3. IsPrefix(controllers', server_controllers')
    BY <2>2, PrefixElements
  <2>. QED
    BY <1>17, <2>1, <2>2, <2>3 DEF AddToMaster
<1>18. CASE Added
  BY <1>18 DEF Added
<1>19. CASE StopClient
  BY <1>19 DEF StopClient, StopAt
<1>20. CASE StopActive
  BY <1>20 DEF StopActive, StopAt
<1>21. CASE StopShutdown
  BY <1>21 DEF StopShutdown, Disconnect, StopAt
<1>22. CASE StopDisconnect
  BY <1>22 DEF StopDisconnect, StopAt
<1>23. CASE JoinListen
  BY <1>23 DEF JoinListen, StopAt
<1>24. CASE JoinConnection
  BY <1>24 DEF JoinConnection, StopAt
<1>25. ASSUME NEW k \in Conns, ReceiveCount(k)
      PROVE  Shown'
  BY <1>25 DEF ReceiveCount, Receive
<1>26. ASSUME NEW k \in Conns, ReceiveData(k)
      PROVE  Shown'
  <2>. SUFFICES ASSUME NoOverlap'
                PROVE  Shown'
    BY DEF Shown
  <2>. DEFINE s == server_controllers
              m == [dev |-> Head(s2c).dev, idx |-> Head(s2c).n]
  <2>1. NoOverlap /\ lpc[k] = "recv" /\ lpc' = [lpc EXCEPT ![k] = "data"]
    BY <1>26 DEF ReceiveData, Receive
  <2>2. s' = s \/ s' = Append(s, m)
    BY <1>26 DEF ReceiveData, WithCopy
  <2>3. m \in Copies
    BY <1>26, ReceivedCopy
  <2>4. IsPrefix(controllers, s) /\ s \in Seq(Copies) /\ controllers \in Seq(Copies)
    BY <2>1
  <2>5. IsPrefix(controllers', server_controllers')
    <3>. HIDE DEF m
    <3>1. controllers' = controllers
      BY <1>26 DEF ReceiveData
    <3>2. IsPrefix(controllers, Append(s, m))
      BY <2>3, <2>4, PrefixExtends
    <3>. QED
      BY <2>2, <2>4, <3>1, <3>2
  <2>. HIDE DEF m
  <2>. QED
    BY <1>26, <2>1, <2>5 DEF ReceiveData, Receive
<1>27. ASSUME NEW k \in Conns, ReceiveChanged(k)
      PROVE  Shown'
  <2>. SUFFICES ASSUME NoOverlap'
                PROVE  Shown'
    BY DEF Shown
  <2>1. server_controllers' = <<>> /\ controllers' = <<>>
    BY <1>27, AllErased DEF ReceiveChanged, Receive, DeleteCopies
  <2>2. IsPrefix(controllers', server_controllers')
    BY <2>1, EmptyPrefix
  <2>3. \A j \in Conns : Ending(j)' => Ending(j)
    BY <1>27 DEF ReceiveChanged, Receive
  <2>. QED
    BY <1>27, <2>1, <2>2, <2>3 DEF ReceiveChanged, Receive
<1>28. ASSUME NEW k \in Conns, StartOver(k)
      PROVE  Shown'
  BY <1>28, SMTT(30) DEF StartOver
<1>29. ASSUME NEW k \in Conns, DataReceived(k)
      PROVE  Shown'
  <2>. SUFFICES ASSUME NoOverlap'
                PROVE  Shown'
    BY DEF Shown
  <2>1. /\ lpc[k] = "data" /\ lpc' = [lpc EXCEPT ![k] = "recv"]
        /\ UNCHANGED <<wire, state, count, lists, cpc, raced>>
    BY <1>29 DEF DataReceived
  <2>2. \A j \in Conns : (Alive(j)' <=> Alive(j)) /\ (Ending(j)' <=> Ending(j))
    BY <1>29, <2>1
  <2>3. \A j \in Conns : lpc'[j] \in {"changed", "uninit"} => lpc[j] \in {"changed", "uninit"}
    BY <1>29, <2>1
  <2>. QED
    BY <2>1, <2>2, <2>3
<1>30. ASSUME NEW k \in Conns, ListenDone(k)
      PROVE  Shown'
  BY <1>30 DEF ListenDone
<1>31. ASSUME NEW k \in Conns, ResetFlags(k)
      PROVE  Shown'
  BY <1>31, SMTT(30) DEF ResetFlags
<1>32. ASSUME NEW k \in Conns, Uninitialize(k)
      PROVE  Shown'
  <2>. SUFFICES ASSUME NoOverlap'
                PROVE  Shown'
    BY DEF Shown
  <2>1. CASE lpc[k] = "uninit"
    <3>1. controllers = <<>>
      BY <1>32, <2>1, NothingShown DEF Uninitialize
    <3>. QED
      BY <1>32, <2>1, <3>1 DEF Uninitialize
  <2>2. CASE lpc[k] = "closing"
    BY <1>32, <2>2 DEF Uninitialize
  <2>. QED
    BY <1>32, <2>1, <2>2 DEF Uninitialize
<1>33. ASSUME NEW k \in Conns, Closed(k)
      PROVE  Shown'
  BY <1>33 DEF Closed
<1>34. ASSUME NEW k \in Conns, Delete(k)
      PROVE  Shown'
  <2>. SUFFICES ASSUME NoOverlap'
                PROVE  Shown'
    BY DEF Shown
  <2>1. server_controllers' = <<>> /\ controllers' = <<>>
    BY <1>34, AllErased DEF Delete, DeleteCopies
  <2>2. IsPrefix(controllers', server_controllers')
    BY <2>1, EmptyPrefix
  <2>3. \A j \in Conns : Ending(j)' => Ending(j)
    BY <1>34 DEF Delete
  <2>. QED
    BY <1>34, <2>1, <2>2, <2>3 DEF Delete
<1>35. CASE UNCHANGED vars
  BY <1>35 DEF vars
<1>36. CASE AddUnderUpdate
  BY <1>36 DEF AddUnderUpdate
<1>37. CASE OwnUpdate
  <2>. SUFFICES ASSUME NoOverlap'
                PROVE  Shown'
    BY DEF Shown
  <2>1. controllers' = <<>> /\ server_controllers' = server_controllers
    BY <1>37 DEF OwnUpdate
  <2>2. IsPrefix(<<>>, server_controllers)
    <3>1. /\ <<>> \in Seq(Copies) /\ Len(<<>>) = 0
          /\ server_controllers \in Seq(Copies)
      BY EmptySeq
    <3>2. Len(<<>>) <= Len(server_controllers) /\ \A i \in 1..Len(<<>>) : FALSE
      BY <3>1
    <3>. QED
      BY <3>1, <3>2, PrefixElements
  <2>. QED
    BY <1>37, <2>1, <2>2 DEF OwnUpdate
<1>. QED
  BY <1>1, <1>2, <1>3, <1>4, <1>5, <1>6, <1>7, <1>8, <1>9, <1>10, <1>11,
     <1>12, <1>13, <1>14, <1>15, <1>16, <1>17, <1>18, <1>19, <1>20, <1>21,
     <1>22, <1>23, <1>24, <1>25, <1>26, <1>27, <1>28, <1>29, <1>30, <1>31,
     <1>32, <1>33, <1>34, <1>35, <1>36, <1>37
  DEF Next, ConnectionThread, Listener, Stopping

\* Every step preserves Stop: the joins return when the threads have ended.
LEMMA StopStep ==
  ASSUME IInv, [Next]_vars
  PROVE  Stop'
<1>. USE DEF IInv, TypeOK, Connections, Stop, Alive, NoOverlap, ListenLabels, StopLabels
<1>1. CASE ServerChange
  BY <1>1 DEF ServerChange, Calm
<1>2. CASE ServerAnnounce
  BY <1>2 DEF ServerAnnounce, Message, Calm
<1>3. CASE ServerReply
  BY <1>3 DEF ServerReply, CountReply, Message
<1>4. CASE ConnectionLost
  BY <1>4 DEF ConnectionLost, Calm, Disconnect
<1>5. CASE Top
  BY <1>5 DEF Top
<1>6. CASE Connect
  BY <1>6 DEF Connect
<1>7. CASE Connected
  BY <1>7 DEF Connected
<1>8. CASE Listen
  BY <1>8 DEF Listen
<1>9. CASE Sync
  BY <1>9 DEF Sync
<1>10. CASE AskCount
  BY <1>10 DEF AskCount, Send, Message
<1>11. CASE CountAsked
  BY <1>11 DEF CountAsked
<1>12. CASE NextController
  BY <1>12 DEF NextController
<1>13. CASE Prepare
  BY <1>13 DEF Prepare
<1>14. CASE AskData
  BY <1>14 DEF AskData, Send, Message
<1>15. CASE DataAsked
  BY <1>15 DEF DataAsked, Check
<1>16. CASE CheckData
  BY <1>16 DEF CheckData, Check
<1>17. CASE AddToMaster
  BY <1>17 DEF AddToMaster
<1>18. CASE Added
  BY <1>18 DEF Added
<1>19. CASE StopClient
  BY <1>19 DEF StopClient, StopAt
<1>20. CASE StopActive
  BY <1>20 DEF StopActive, StopAt
<1>21. CASE StopShutdown
  BY <1>21 DEF StopShutdown, Disconnect, StopAt
<1>22. CASE StopDisconnect
  BY <1>22 DEF StopDisconnect, StopAt
<1>23. CASE JoinListen
  BY <1>23 DEF JoinListen, StopAt
<1>24. CASE JoinConnection
  BY <1>24 DEF JoinConnection, StopAt
<1>25. ASSUME NEW k \in Conns, ReceiveCount(k)
      PROVE  Stop'
  BY <1>25 DEF ReceiveCount, Receive
<1>26. ASSUME NEW k \in Conns, ReceiveData(k)
      PROVE  Stop'
  BY <1>26 DEF ReceiveData, Receive, WithCopy
<1>27. ASSUME NEW k \in Conns, ReceiveChanged(k)
      PROVE  Stop'
  BY <1>27 DEF ReceiveChanged, Receive, DeleteCopies
<1>28. ASSUME NEW k \in Conns, StartOver(k)
      PROVE  Stop'
  BY <1>28 DEF StartOver
<1>29. ASSUME NEW k \in Conns, DataReceived(k)
      PROVE  Stop'
  BY <1>29 DEF DataReceived
<1>30. ASSUME NEW k \in Conns, ListenDone(k)
      PROVE  Stop'
  BY <1>30 DEF ListenDone
<1>31. ASSUME NEW k \in Conns, ResetFlags(k)
      PROVE  Stop'
  BY <1>31 DEF ResetFlags
<1>32. ASSUME NEW k \in Conns, Uninitialize(k)
      PROVE  Stop'
  BY <1>32 DEF Uninitialize
<1>33. ASSUME NEW k \in Conns, Closed(k)
      PROVE  Stop'
  BY <1>33 DEF Closed
<1>34. ASSUME NEW k \in Conns, Delete(k)
      PROVE  Stop'
  BY <1>34, SMTT(30) DEF Delete, DeleteCopies
<1>35. CASE UNCHANGED vars
  <2>1. UNCHANGED <<server, wire, state, count, data, lists, cpc, threads, raced>>
    BY <1>35 DEF vars
  <2>. HIDE DEF IInv, Connections
  <2>2. Stop' <=> Stop
    BY <2>1
  <2>. HIDE DEF TypeOK, Shown, Stop
  <2>3. Stop
    BY Zenon DEF IInv
  <2>. QED
    BY <2>2, <2>3
<1>36. CASE AddUnderUpdate
  BY <1>36 DEF AddUnderUpdate
<1>37. CASE OwnUpdate
  BY <1>37 DEF OwnUpdate
<1>. QED
  BY <1>1, <1>2, <1>3, <1>4, <1>5, <1>6, <1>7, <1>8, <1>9, <1>10, <1>11,
     <1>12, <1>13, <1>14, <1>15, <1>16, <1>17, <1>18, <1>19, <1>20, <1>21,
     <1>22, <1>23, <1>24, <1>25, <1>26, <1>27, <1>28, <1>29, <1>30, <1>31,
     <1>32, <1>33, <1>34, <1>35, <1>36, <1>37
  DEF Next, ConnectionThread, Listener, Stopping

\* Every step preserves what is known without a connection.
LEMMA OfflineStep ==
  ASSUME IInv, [Next]_vars
  PROVE  (Offline /\ Lost)'
<1>. USE DEF IInv, TypeOK, Connections, Stop, Offline, Lost, Online, Talk, Number, Progress,
    Fresh, Silence, Alive, Listens, Held, ListenLabels
<1>1. CASE ServerChange
  BY <1>1 DEF ServerChange, Calm
<1>2. CASE ServerAnnounce
  BY <1>2 DEF ServerAnnounce, Message, Calm
<1>3. CASE ServerReply
  BY <1>3 DEF ServerReply, CountReply, Message
<1>4. CASE ConnectionLost
  BY <1>4 DEF ConnectionLost, Calm, Disconnect
<1>5. CASE Top
  BY <1>5 DEF Top
<1>6. CASE Connect
  BY <1>6 DEF Connect
<1>7. CASE Connected
  BY <1>7 DEF Connected
<1>8. CASE Listen
  BY <1>8 DEF Listen
<1>9. CASE Sync
  BY <1>9 DEF Sync
<1>10. CASE AskCount
  BY <1>10 DEF AskCount, Send, Message
<1>11. CASE CountAsked
  BY <1>11 DEF CountAsked
<1>12. CASE NextController
  BY <1>12 DEF NextController
<1>13. CASE Prepare
  BY <1>13 DEF Prepare
<1>14. CASE AskData
  BY <1>14 DEF AskData, Send, Message
<1>15. CASE DataAsked
  BY <1>15 DEF DataAsked, Check
<1>16. CASE CheckData
  BY <1>16 DEF CheckData, Check
<1>17. CASE AddToMaster
  BY <1>17 DEF AddToMaster
<1>18. CASE Added
  BY <1>18 DEF Added
<1>19. CASE StopClient
  BY <1>19 DEF StopClient, StopAt
<1>20. CASE StopActive
  BY <1>20 DEF StopActive, StopAt
<1>21. CASE StopShutdown
  BY <1>21 DEF StopShutdown, Disconnect, StopAt
<1>22. CASE StopDisconnect
  BY <1>22 DEF StopDisconnect, StopAt
<1>23. CASE JoinListen
  BY <1>23 DEF JoinListen, StopAt
<1>24. CASE JoinConnection
  BY <1>24 DEF JoinConnection, StopAt
<1>25. ASSUME NEW k \in Conns, ReceiveCount(k)
      PROVE  (Offline /\ Lost)'
  BY <1>25 DEF ReceiveCount, Receive
<1>26. ASSUME NEW k \in Conns, ReceiveData(k)
      PROVE  (Offline /\ Lost)'
  BY <1>26 DEF ReceiveData, Receive, WithCopy
<1>27. ASSUME NEW k \in Conns, ReceiveChanged(k)
      PROVE  (Offline /\ Lost)'
  BY <1>27 DEF ReceiveChanged, Receive, DeleteCopies
<1>28. ASSUME NEW k \in Conns, StartOver(k)
      PROVE  (Offline /\ Lost)'
  BY <1>28, SMTT(30) DEF StartOver
<1>29. ASSUME NEW k \in Conns, DataReceived(k)
      PROVE  (Offline /\ Lost)'
  BY <1>29, SMTT(30) DEF DataReceived
<1>30. ASSUME NEW k \in Conns, ListenDone(k)
      PROVE  (Offline /\ Lost)'
  BY <1>30, SMTT(30) DEF ListenDone
<1>31. ASSUME NEW k \in Conns, ResetFlags(k)
      PROVE  (Offline /\ Lost)'
  BY <1>31, SMTT(30) DEF ResetFlags
<1>32. ASSUME NEW k \in Conns, Uninitialize(k)
      PROVE  (Offline /\ Lost)'
  <2>. SUFFICES ASSUME raced = {}, upc = "idle"
                PROVE  (Offline /\ Lost)'
    BY <1>32 DEF Uninitialize
  <2>1. CASE server_connected /\ conn = 0
    <3>1. k = conns
      <4>1. Alive(k) /\ NoOverlap
        BY <1>32 DEF Uninitialize, NoOverlap
      <4>2. conns \in Conns /\ Alive(conns)
        BY <2>1
      <4>. QED
        BY <4>1, <4>2
    <3>. QED
      BY <1>32, <2>1, <3>1 DEF Uninitialize
  <2>2. CASE ~(server_connected /\ conn = 0)
    BY <1>32, <2>2 DEF Uninitialize
  <2>. QED
    BY <2>1, <2>2
<1>33. ASSUME NEW k \in Conns, Closed(k)
      PROVE  (Offline /\ Lost)'
  <2>. SUFFICES ASSUME raced = {}, upc = "idle"
                PROVE  (Offline /\ Lost)'
    BY <1>33 DEF Closed
  <2>1. CASE server_connected /\ conn = 0
    <3>1. k = conns
      BY <1>33, <2>1 DEF Closed
    <3>. QED
      BY <1>33, <2>1, <3>1 DEF Closed
  <2>2. CASE server_connected /\ conn # 0
    <3>1. Alive(k) /\ cpc # "listen"
      BY <1>33 DEF Closed, NoOverlap
    <3>2. Alive(conn) /\ conn \in Conns
      BY <2>2, <3>1
    <3>3. k = conn
      BY <3>1, <3>2
    <3>. QED
      BY <1>33, <2>2, <3>1, <3>3 DEF Closed
  <2>3. CASE ~server_connected
    BY <1>33, <2>3 DEF Closed
  <2>. QED
    BY <2>1, <2>2, <2>3
<1>34. ASSUME NEW k \in Conns, Delete(k)
      PROVE  (Offline /\ Lost)'
  <2>. SUFFICES ASSUME raced = {}, upc = "idle"
                PROVE  (Offline /\ Lost)'
    BY <1>34 DEF Delete
  <2>1. /\ lpc[k] = "delete" /\ lpc' = [lpc EXCEPT ![k] = "ended"]
        /\ UNCHANGED <<wire, state, count, data, cpc, upc, raced>>
    BY <1>34 DEF Delete
  <2>2. Offline'
    BY <2>1
  <2>3. Lost'
    <3>. SUFFICES ASSUME server_connected, conn = 0
                  PROVE  Lost'
      BY <2>1
    <3>1. conns \in Conns /\ conns # k /\ lpc'[conns] = lpc[conns]
      BY <1>34, <2>1
    <3>. QED
      BY <2>1, <3>1
  <2>. QED
    BY <2>2, <2>3
<1>35. CASE UNCHANGED vars
  <2>1. UNCHANGED <<server, wire, state, count, data, lists, cpc, threads, raced>>
    BY <1>35 DEF vars
  <2>. HIDE DEF IInv, Connections, Stop, Online
  <2>2. Offline' <=> Offline
    BY <2>1
  <2>3. Lost' <=> Lost
    BY <2>1
  <2>. HIDE DEF TypeOK, Offline, Lost, Talk, Number, Progress
  <2>4. Offline /\ Lost
    BY Zenon DEF IInv
  <2>. QED
    BY <2>2, <2>3, <2>4
<1>36. CASE AddUnderUpdate
  BY <1>36 DEF AddUnderUpdate
<1>37. CASE OwnUpdate
  BY <1>37 DEF OwnUpdate
<1>. QED
  BY <1>1, <1>2, <1>3, <1>4, <1>5, <1>6, <1>7, <1>8, <1>9, <1>10, <1>11,
     <1>12, <1>13, <1>14, <1>15, <1>16, <1>17, <1>18, <1>19, <1>20, <1>21,
     <1>22, <1>23, <1>24, <1>25, <1>26, <1>27, <1>28, <1>29, <1>30, <1>31,
     <1>32, <1>33, <1>34, <1>35, <1>36, <1>37
  DEF Next, ConnectionThread, Listener, Stopping

\* Every step preserves the turns of the two threads and the server.
LEMMA OnlineStep ==
  ASSUME IInv, raced' = {}, upc' = "idle", server_connected', conn' # 0, [Next]_vars
  PROVE  (Talk /\ Number /\ Progress)'
<1>. USE DEF IInv, TypeOK, Connections, Stop, Offline, Lost, Online, Talk, Number, Progress,
    Fresh, Silence, Alive, Listens, Held, Awaiting, CountAwaited, DataAwaited, Expected,
    CountPhase, ListenLabels
<1>1. CASE ServerChange
  BY <1>1 DEF ServerChange, Calm
<1>2. CASE ServerAnnounce
  <2>. DEFINE m == Message("changed", 0, NoDevice)
  <2>1. Calm
    BY <1>2 DEF ServerAnnounce
  <2>2. server_initialized /\ cpc = "top" /\ Silence /\ Listens = "recv" /\ conn # 0
    BY <2>1, <1>2 DEF Calm, ServerAnnounce
  <2>3. s2c' = Append(<<>>, m) /\ m.kind = "changed"
    BY <1>2, <2>2 DEF ServerAnnounce, Message
  <2>. HIDE DEF m
  <2>4. Len(s2c') = 1 /\ s2c'[1].kind = "changed"
    BY <2>3, FirstElement
  <2>5. Talk /\ Number /\ Progress
    BY <1>2, <2>2 DEF ServerAnnounce
  <2>6. UNCHANGED <<conn, conns, c2s, state, count, data, lists, cpc, threads>>
    BY <1>2 DEF ServerAnnounce
  <2>. QED
    BY <2>2, <2>4, <2>5, <2>6
<1>3. CASE ServerReply
  <2>1. Talk /\ Number /\ Progress
    BY <1>3 DEF ServerReply
  <2>2. Len(c2s) = 1 /\ s2c = <<>> /\ Listens = "recv" /\ Expected(c2s[1])
    BY <1>3, <2>1 DEF ServerReply
  <2>3. Head(c2s) = c2s[1] /\ c2s' = <<>>
    BY <1>3, <2>2, SingleElement DEF ServerReply
  <2>4. s2c' = <<>> \/ \E m : s2c' = Append(<<>>, m) /\ Expected(m)
    BY <1>3, <2>2, <2>3 DEF ServerReply, CountReply, Message
  <2>5. s2c' # <<>> => Len(s2c') = 1 /\ Expected(s2c'[1])
    BY <2>4, FirstElement
  <2>. QED
    BY <1>3, <2>1, <2>2, <2>3, <2>5 DEF ServerReply
<1>4. CASE ConnectionLost
  BY <1>4 DEF ConnectionLost, Calm, Disconnect
<1>5. CASE Top
  BY <1>5 DEF Top
<1>6. CASE Connect
  BY <1>6 DEF Connect
<1>7. CASE Connected
  <2>1. server_controllers = <<>>
    BY <1>7 DEF Connected, Shown, NoOverlap
  <2>2. Held = 0
    BY <2>1, EmptySeq
  <2>. QED
    BY <1>7, <2>2 DEF Connected
<1>8. CASE Listen
  BY <1>8 DEF Listen
<1>9. CASE Sync
  BY <1>9 DEF Sync
<1>10. CASE AskCount
  BY <1>10 DEF AskCount, Send, Message
<1>11. CASE CountAsked
  BY <1>11 DEF CountAsked
<1>12. CASE NextController
  BY <1>12 DEF NextController
<1>13. CASE Prepare
  BY <1>13 DEF Prepare
<1>14. CASE AskData
  BY <1>14 DEF AskData, Send, Message
<1>15. CASE DataAsked
  BY <1>15 DEF DataAsked, Check
<1>16. CASE CheckData
  BY <1>16 DEF CheckData, Check
<1>17. CASE AddToMaster
  BY <1>17 DEF AddToMaster
<1>18. CASE Added
  BY <1>18 DEF Added
<1>19. CASE StopClient
  BY <1>19 DEF StopClient, StopAt
<1>20. CASE StopActive
  BY <1>20 DEF StopActive, StopAt
<1>21. CASE StopShutdown
  BY <1>21 DEF StopShutdown, Disconnect, StopAt
<1>22. CASE StopDisconnect
  BY <1>22 DEF StopDisconnect, StopAt
<1>23. CASE JoinListen
  BY <1>23 DEF JoinListen, StopAt
<1>24. CASE JoinConnection
  BY <1>24 DEF JoinConnection, StopAt
<1>25. ASSUME NEW k \in Conns, ReceiveCount(k)
      PROVE  (Talk /\ Number /\ Progress)'
  <2>1. Talk /\ Number /\ Progress /\ conn = k /\ lpc[k] = "recv"
    BY <1>25 DEF ReceiveCount, Receive
  <2>2. Len(s2c) = 1 /\ c2s = <<>>
    BY <1>25, <2>1 DEF ReceiveCount, Receive
  <2>3. Head(s2c) = s2c[1] /\ s2c' = <<>> /\ c2s' = <<>>
    BY <1>25, <2>2, SingleElement DEF ReceiveCount, Receive
  <2>4. CountAwaited
    BY <1>25, <2>1, <2>2, <2>3 DEF ReceiveCount, Receive
  <2>5. lpc' = [lpc EXCEPT ![k] = "count"] /\ conn' = conn
    BY <1>25 DEF ReceiveCount, Receive
  <2>. QED
    BY <1>25, <2>1, <2>2, <2>3, <2>4, <2>5 DEF ReceiveCount, Receive
<1>26. ASSUME NEW k \in Conns, ReceiveData(k)
      PROVE  (Talk /\ Number /\ Progress)'
  <2>1. Talk /\ Number /\ Progress /\ conn = k /\ lpc[k] = "recv"
    BY <1>26 DEF ReceiveData, Receive
  <2>2. Len(s2c) = 1 /\ c2s = <<>>
    BY <1>26, <2>1 DEF ReceiveData, Receive
  <2>3. Head(s2c) = s2c[1] /\ s2c' = <<>> /\ c2s' = <<>>
    BY <1>26, <2>2, SingleElement DEF ReceiveData, Receive
  <2>4. DataAwaited /\ Head(s2c).n = requested_controllers
    BY <1>26, <2>1, <2>2, <2>3 DEF ReceiveData, Receive
  <2>5. lpc' = [lpc EXCEPT ![k] = "data"] /\ conn' = conn
    BY <1>26 DEF ReceiveData, Receive
  <2>6. Held = requested_controllers
    BY <2>1, <2>4
  <2>7. Held' = Held + 1
    BY <1>26, <2>4, <2>6, AppendProperties DEF ReceiveData, WithCopy
  <2>. QED
    BY <1>26, <2>1, <2>2, <2>3, <2>4, <2>5, <2>6, <2>7 DEF ReceiveData, Receive
<1>27. ASSUME NEW k \in Conns, ReceiveChanged(k)
      PROVE  (Talk /\ Number /\ Progress)'
  <2>1. Talk /\ Number /\ Progress /\ conn = k /\ lpc[k] = "recv"
    BY <1>27 DEF ReceiveChanged, Receive
  <2>2. Len(s2c) = 1 /\ c2s = <<>>
    BY <1>27, <2>1 DEF ReceiveChanged, Receive
  <2>3. Head(s2c) = s2c[1] /\ s2c' = <<>> /\ c2s' = <<>>
    BY <1>27, <2>2, SingleElement DEF ReceiveChanged, Receive
  <2>4. server_initialized
    BY <1>27, <2>1, <2>2, <2>3 DEF ReceiveChanged, Receive
  <2>5. lpc' = [lpc EXCEPT ![k] = "changed"] /\ conn' = conn
    BY <1>27 DEF ReceiveChanged, Receive
  <2>6. Held' = 0
    BY <1>27, EmptySeq DEF ReceiveChanged, DeleteCopies
  <2>. QED
    BY <1>27, <2>1, <2>2, <2>3, <2>4, <2>5, <2>6 DEF ReceiveChanged, Receive
<1>28. ASSUME NEW k \in Conns, StartOver(k)
      PROVE  (Talk /\ Number /\ Progress)'
  BY <1>28, ZenonT(40) DEF StartOver
<1>29. ASSUME NEW k \in Conns, DataReceived(k)
      PROVE  (Talk /\ Number /\ Progress)'
  BY <1>29, ZenonT(40) DEF DataReceived
<1>30. ASSUME NEW k \in Conns, ListenDone(k)
      PROVE  (Talk /\ Number /\ Progress)'
  <2>1. Talk /\ Number /\ Progress
    BY <1>30 DEF ListenDone
  <2>2. conn \in Conns /\ conn # k /\ lpc'[conn] = lpc[conn]
    BY <1>30 DEF ListenDone
  <2>3. /\ Listens' = Listens
        /\ UNCHANGED <<server, wire, state, count, data, lists, cpc>>
    BY <1>30, <2>2 DEF ListenDone
  <2>. QED
    BY <2>1, <2>3
<1>31. ASSUME NEW k \in Conns, ResetFlags(k)
      PROVE  (Talk /\ Number /\ Progress)'
  BY <1>31 DEF ResetFlags
<1>32. ASSUME NEW k \in Conns, Uninitialize(k)
      PROVE  (Talk /\ Number /\ Progress)'
  BY <1>32, ZenonT(40) DEF Uninitialize
<1>33. ASSUME NEW k \in Conns, Closed(k)
      PROVE  (Talk /\ Number /\ Progress)'
  BY <1>33 DEF Closed
<1>34. ASSUME NEW k \in Conns, Delete(k)
      PROVE  (Talk /\ Number /\ Progress)'
  BY <1>34 DEF Delete, DeleteCopies
<1>35. CASE UNCHANGED vars
  BY <1>35 DEF vars
<1>36. CASE AddUnderUpdate
  BY <1>36 DEF AddUnderUpdate
<1>37. CASE OwnUpdate
  BY <1>37 DEF OwnUpdate
<1>. QED
  BY <1>1, <1>2, <1>3, <1>4, <1>5, <1>6, <1>7, <1>8, <1>9, <1>10, <1>11,
     <1>12, <1>13, <1>14, <1>15, <1>16, <1>17, <1>18, <1>19, <1>20, <1>21,
     <1>22, <1>23, <1>24, <1>25, <1>26, <1>27, <1>28, <1>29, <1>30, <1>31,
     <1>32, <1>33, <1>34, <1>35, <1>36, <1>37
  DEF Next, ConnectionThread, Listener, Stopping

\* The next controller received is the next one by number.
LEMMA IndicesStep ==
  ASSUME IInv, [Next]_vars
  PROVE  Indices'
<1>. USE DEF IInv, TypeOK, Indices
<1>1. ASSUME NEW k \in Conns, ReceiveData(k)
      PROVE  Indices'
  <2>. SUFFICES ASSUME raced' = {}
                PROVE  Indices'
    OBVIOUS
  <2>. DEFINE s == server_controllers
              m == [dev |-> Head(s2c).dev, idx |-> Head(s2c).n]
  <2>1. raced = {} /\ upc = "idle" /\ server_connected /\ conn = k /\ conn # 0
    BY <1>1 DEF ReceiveData, Receive, Stop
  <2>2. Talk /\ Number /\ Progress
    BY <2>1 DEF Online
  <2>3. /\ Len(s2c) = 1 /\ s2c # <<>> /\ lpc[k] = "recv"
        /\ Head(s2c) = s2c[1] /\ s2c[1].kind = "data"
    BY <1>1, <2>1, <2>2, SingleElement DEF ReceiveData, Receive, Talk, Listens
  <2>4. m.idx = Len(s)
    <3>1. s2c[1].n = requested_controllers /\ DataAwaited
      BY <2>2, <2>3 DEF Talk, Expected
    <3>. QED
      BY <2>1, <2>2, <2>3, <3>1 DEF DataAwaited, Awaiting, Progress, Listens, Held
  <2>5. s' = s \/ s' = Append(s, m)
    BY <1>1 DEF ReceiveData, WithCopy
  <2>6. ASSUME s' = Append(s, m)
        PROVE  /\ Len(s') = Len(s) + 1 /\ s'[Len(s) + 1] = m
               /\ \A i \in 1..Len(s) : s'[i] = s[i]
    BY <2>6
  <2>. HIDE DEF m
  <2>7. \A i \in 1..Len(s) : s[i].idx = i - 1
    BY <2>1
  <2>8. CASE s' = s
    BY <2>7, <2>8
  <2>9. CASE s' = Append(s, m)
    <3>. SUFFICES ASSUME NEW i \in 1..Len(s')
                  PROVE  s'[i].idx = i - 1
      OBVIOUS
    <3>1. CASE i <= Len(s)
      BY <2>6, <2>7, <2>9, <3>1
    <3>2. CASE ~(i <= Len(s))
      <4>1. i \in Nat /\ Len(s) \in Nat /\ i <= Len(s) + 1
        BY <2>6, <2>9
      <4>2. i = Len(s) + 1
        BY <3>2, <4>1
      <4>. QED
        BY <2>4, <2>6, <2>9, <4>2
    <3>. QED
      BY <3>1, <3>2
  <2>. QED
    BY <2>5, <2>8, <2>9
<1>2. ASSUME server_controllers' = <<>>
      PROVE  Indices'
  BY <1>2, EmptySeq
<1>3. ASSUME server_controllers' = server_controllers, raced' = {} => raced = {}
      PROVE  Indices'
  BY <1>3
<1>. DEFINE Kept == server_controllers' = server_controllers /\ (raced' = {} => raced = {})
<1>4. ASSUME ServerChange \/ ServerAnnounce \/ ServerReply \/ ConnectionLost
      PROVE  Kept
  BY <1>4 DEF ServerChange, ServerAnnounce, ServerReply, ConnectionLost, Disconnect
<1>5. ASSUME Top \/ Connect \/ Connected \/ Listen \/ Sync \/ AskCount
             \/ CountAsked \/ NextController \/ Prepare \/ AskData \/ DataAsked \/ CheckData
             \/ AddToMaster \/ AddUnderUpdate \/ Added \/ OwnUpdate
      PROVE  Kept
  BY <1>5 DEF Top, Connect, Connected, Listen, Sync, AskCount, Send, CountAsked,
      NextController, Prepare, AskData, DataAsked, Check, CheckData, AddToMaster,
      AddUnderUpdate, Added, OwnUpdate
<1>6. ASSUME StopClient \/ StopActive \/ StopShutdown \/ StopDisconnect
             \/ JoinListen \/ JoinConnection
      PROVE  Kept
  BY <1>6 DEF StopClient, StopAt, StopActive, StopShutdown, Disconnect, StopDisconnect,
      JoinListen, JoinConnection
<1>7. ASSUME NEW k \in Conns,
             \/ ReceiveCount(k) \/ StartOver(k) \/ DataReceived(k) \/ ListenDone(k)
             \/ ResetFlags(k) \/ Uninitialize(k) \/ Closed(k)
      PROVE  Kept
  BY <1>7 DEF ReceiveCount, StartOver, DataReceived, ListenDone, ResetFlags, Uninitialize,
      Closed, Receive
<1>8. ASSUME NEW k \in Conns, ReceiveChanged(k) \/ Delete(k)
      PROVE  server_controllers' = <<>>
  BY <1>8 DEF ReceiveChanged, Delete, DeleteCopies
<1>9. CASE UNCHANGED vars
  BY <1>9 DEF vars
<1>. QED
  BY <1>1, <1>2, <1>3, <1>4, <1>5, <1>6, <1>7, <1>8, <1>9
  DEF Next, ConnectionThread, Listener, Stopping

\* Every step preserves TypeOK.
LEMMA TypeStep ==
  ASSUME IInv, [Next]_vars
  PROVE  TypeOK'
<1>1. Flags /\ Numbers /\ Labels
  BY DEF IInv, TypeOK, Flags, Numbers, Labels
<1>2. (Flags /\ Numbers /\ Labels /\ Channels)'
  BY <1>1, FlagsStep, NumbersStep, LabelsStep, ChannelStep
<1>. QED
  BY <1>2 DEF TypeOK, Flags, Numbers, Labels, Channels

\* The client has not started: everything is empty.
LEMMA Initially ==
  ASSUME Init
  PROVE  IInv
<1>. USE DEF Init
<1>1. Numbers /\ Channels
  BY EmptySeq DEF Numbers, Channels
<1>2. Flags /\ Labels
  BY DEF Flags, Labels, ConnectionLabels, ListenLabels, StopLabels
<1>3. TypeOK
  BY <1>1, <1>2 DEF TypeOK, Flags, Numbers, Labels, Channels
<1>4. Connections /\ Stop /\ Offline /\ Lost /\ Online
  BY DEF Connections, Stop, Offline, Lost, Online, Fresh, Alive
<1>5. Shown
  BY EmptyPrefix DEF Shown, Ending
<1>6. Indices /\ Described
  BY EmptySeq DEF Indices, Described
<1>. QED
  BY <1>3, <1>4, <1>5, <1>6 DEF IInv

\* OnlineStep, as part of the invariant.
LEMMA OnlineKept ==
  ASSUME IInv, [Next]_vars
  PROVE  Online'
BY OnlineStep DEF Online

\* The invariant always holds.
LEMMA Invariance == Spec => []IInv
<1>1. Init => IInv
  BY Initially
<1>2. IInv /\ [Next]_vars => IInv'
  BY TypeStep, ConnectionsStep, ShownStep, StopStep, OfflineStep, OnlineKept, IndicesStep,
     ChannelStep DEF IInv
<1>. QED
  BY <1>1, <1>2, PTL DEF Spec

\* The application's list shows only controllers the client still owns, the
\* first of them in the server's order, as long as no connection is opened
\* while an old listener is alive and the list is not rebuilt while they are
\* added; without any race it shows each once.
THEOREM CopiesSafe == Spec => []NoDangling
<1>1. IInv => NoDangling
  <2>. SUFFICES ASSUME IInv
                PROVE  NoDangling
    OBVIOUS
  <2>1. controllers \in Seq(Copies) /\ server_controllers \in Seq(Copies)
    BY DEF IInv, TypeOK
  <2>2. "overlap" \notin raced => IsPrefix(controllers, server_controllers)
    BY DEF IInv, Shown, NoOverlap
  <2>3. ASSUME raced = {}
        PROVE  IsInjective(controllers)
    <3>1. /\ Len(controllers) <= Len(server_controllers)
          /\ \A i \in 1..Len(controllers) : controllers[i] = server_controllers[i]
      BY <2>1, <2>2, <2>3, PrefixElements
    <3>2. \A i \in 1..Len(controllers) : controllers[i].idx = i - 1
      BY <2>1, <2>3, <3>1 DEF IInv, Indices
    <3>3. \A i, j \in 1..Len(controllers) : controllers[i] = controllers[j] => i = j
      BY <2>1, <3>2
    <3>. QED
      BY <2>1, <3>3 DEF IsInjective
  <2>. QED
    BY <2>2, <2>3 DEF NoDangling, IInv
<1>. QED
  BY <1>1, Invariance, PTL

\* When StopClient returns and no race happened, no copy of a controller is
\* shown and no listener is alive.
THEOREM NothingLeftBehind == Spec => []StoppedClean
<1>1. IInv => StoppedClean
  <2>. SUFFICES ASSUME IInv, upc = "stopped", raced = {}
                PROVE  controllers = <<>> /\ \A k \in Conns : ~Alive(k)
    BY DEF StoppedClean
  <2>1. \A k \in Conns : ~Alive(k)
    BY DEF IInv, Stop
  <2>2. server_controllers = <<>> /\ IsPrefix(controllers, server_controllers)
    BY <2>1 DEF IInv, Shown, NoOverlap
  <2>. QED
    BY <2>1, <2>2, NothingShown DEF IInv
<1>. QED
  BY <1>1, Invariance, PTL

=============================================================================
