------------------------ MODULE ServerClientsProofs ------------------------
(***************************************************************************)
(* Theorems about ServerClients, for any number of sockets, starts and     *)
(* clients, on every system.                                               *)
(*                                                                         *)
(* RecordsSound is the visible part of an ownership discipline: a record   *)
(* belongs to the connection thread that prepares it (Preparing) until it  *)
(* is put into the list, then to its listener, and what the list and the   *)
(* set of live records disagree on is deleted by the one thread that holds *)
(* ServerClientsMutex (OneHolder, Listing).  OnlineIsServed and            *)
(* ListeningEnds are inductive as they stand.  ToldUnlessShifted needs     *)
(* that the index of the broadcast stays inside a list that only grew      *)
(* (Inside).                                                               *)
(***************************************************************************)
EXTENDS ServerClients, SequenceTheorems, TLAPS

\* One thread at most is between lock and unlock of ServerClientsMutex.
OneHolder ==
    /\ \A t, u \in Threads : cpc[t] = "spawned" /\ cpc[u] = "spawned" => t = u
    /\ \A c, d \in Records : lpc[c] = "deleted" /\ lpc[d] = "deleted" => c = d
    /\ \A t \in Threads, c \in Records : cpc[t] = "spawned" => lpc[c] # "deleted"
    /\ upc = "deleted" => /\ \A t \in Threads : cpc[t] # "spawned"
                          /\ \A c \in Records : lpc[c] # "deleted"

\* A connection thread prepares a record of its own, alive and not yet in the list; its
\* listener does not exist before the thread holds the mutex, and cannot take it then.
Preparing ==
    /\ \A t \in Threads : cpc[t] \in {"accepted", "spawned"}
           => accepted[t] \in live /\ accepted[t] \notin Listed
    /\ \A t \in Threads : cpc[t] = "accepted" => lpc[accepted[t]] = "none"
    /\ \A t \in Threads : cpc[t] = "spawned" => lpc[accepted[t]] \in {"recv", "done"}
    /\ \A t \in Threads : cpc[t] \notin {"accepted", "spawned"} => accepted[t] = NoClient
    /\ \A t, u \in Threads : accepted[t] = accepted[u] => t = u \/ accepted[t] = NoClient

\* The list has each record once, with a listener; a listed record is alive, but for the
\* time in which the thread that deleted it still holds the mutex.
Listing ==
    /\ IsInjective(ServerClients)
    /\ \A c \in Listed : lpc[c] \in {"recv", "done", "deleted"}
    /\ \A c \in Listed : c \in live \/ lpc[c] = "deleted" \/ upc = "deleted"
    /\ \A c \in Records : lpc[c] = "deleted" => c \in Listed /\ c \notin live
    /\ upc = "deleted" => Listed \cap live = {}

\* A record that is alive is in the list or prepared, and a working listener has a
\* record unless StopServer took it.
Owned ==
    /\ \A c \in live \ Listed : \E t \in Threads : accepted[t] = c
    /\ \A c \in Records : lpc[c] \in {"recv", "done"} => c \in live \cup orphans

\* While nothing was removed, the broadcast has passed members of the list only.
Inside == ~shifted => next <= Len(ServerClients) + 1

\* The flags, apart from the other types: they are shown Boolean by first-order reasoning.
FlagsOK ==
    /\ windows \in BOOLEAN /\ server_online \in BOOLEAN
    /\ server_listening \in BOOLEAN /\ shifted \in BOOLEAN

\* The threads of a start that has not happened do not exist.
Unstarted == \A t \in Threads : t[1] > starts => cpc[t] = "none"

IInv == TypeOK /\ Unstarted /\ OneHolder /\ Preparing /\ Listing /\ Owned

-----------------------------------------------------------------------------
(***************************************************************************)
(* The list of the clients as a sequence.                                  *)
(***************************************************************************)

\* StopServer clears ServerClients.
LEMMA Cleared == ToSet(<<>>) = {} /\ IsInjective(<<>>) /\ <<>> \in Seq(Records)
BY DEF ToSet, IsInjective

\* A record is pushed to the back of ServerClients.
LEMMA Pushed ==
    ASSUME NEW S, NEW s \in Seq(S), NEW e \in S
    PROVE  /\ Append(s, e) \in Seq(S)
           /\ ToSet(Append(s, e)) = ToSet(s) \cup {e}
           /\ IsInjective(s) /\ e \notin ToSet(s) => IsInjective(Append(s, e))
<1> DEFINE a == Append(s, e)
<1>1. /\ a \in Seq(S) /\ Len(a) = Len(s) + 1 /\ a[Len(s) + 1] = e
      /\ \A i \in 1..Len(s) : a[i] = s[i]
      /\ DOMAIN a = 1..(Len(s) + 1) /\ DOMAIN s = 1..Len(s) /\ Len(s) \in Nat
  OBVIOUS
<1> HIDE DEF a
<1>2. ToSet(a) = ToSet(s) \cup {e}
  BY <1>1 DEF ToSet
<1>3. ASSUME IsInjective(s), e \notin ToSet(s) PROVE IsInjective(a)
  BY <1>1, <1>3 DEF IsInjective, ToSet
<1>4. QED
  BY <1>1, <1>2, <1>3 DEF a

\* A record is erased from ServerClients at its place.
LEMMA Erased ==
    ASSUME NEW S, NEW s \in Seq(S), NEW n \in 1..Len(s), IsInjective(s)
    PROVE  /\ RemoveAt(s, n) \in Seq(S)
           /\ ToSet(RemoveAt(s, n)) = ToSet(s) \ {s[n]}
           /\ IsInjective(RemoveAt(s, n))
<1> DEFINE a == SubSeq(s, 1, n - 1)
           b == SubSeq(s, n + 1, Len(s))
           r == RemoveAt(s, n)
<1>1. /\ Len(s) \in Nat /\ n \in 1..Len(s) /\ DOMAIN s = 1..Len(s)
      /\ \A i \in 1..Len(s) : s[i] \in S
  OBVIOUS
<1>2. /\ a \in Seq(S) /\ Len(a) = n - 1
      /\ \A i \in 1..(n - 1) : a[i] = s[i]
  BY <1>1, SubSeqProperties
<1>3. /\ b \in Seq(S) /\ Len(b) = Len(s) - n
      /\ \A i \in 1..(Len(s) - n) : b[i] = s[n + i]
  <2>1. \A i \in (n + 1)..Len(s) : s[i] \in S
    BY <1>1
  <2>2. /\ b \in Seq(S) /\ Len(b) = IF n + 1 <= Len(s) THEN Len(s) - (n + 1) + 1 ELSE 0
        /\ \A i \in 1..(Len(s) - (n + 1) + 1) : b[i] = s[n + 1 + i - 1]
    BY <1>1, <2>1, SubSeqProperties
  <2>3. ASSUME NEW i \in 1..(Len(s) - n) PROVE n + 1 + i - 1 = n + i
    BY <1>1
  <2>4. CASE n = Len(s)
    BY <1>1, <2>2, <2>3, <2>4
  <2>5. CASE n < Len(s)
    <3>1. n + 1 <= Len(s) /\ Len(s) - (n + 1) + 1 = Len(s) - n
      BY <1>1, <2>5
    <3>2. QED
      BY <2>2, <2>3, <3>1
  <2>6. n = Len(s) \/ n < Len(s)
    <3>1. n \in Nat /\ Len(s) \in Nat /\ n <= Len(s)
      BY <1>1
    <3>2. QED
      BY <3>1
  <2>7. QED
    BY <2>4, <2>5, <2>6
<1>4. r = a \o b
  BY DEF RemoveAt
<1> HIDE DEF a, b, r
<1>5. /\ r \in Seq(S) /\ Len(r) = Len(s) - 1
      /\ \A i \in 1..(Len(s) - 1) : r[i] = IF i < n THEN s[i] ELSE s[i + 1]
  <2>1. /\ r \in Seq(S) /\ Len(r) = Len(a) + Len(b)
        /\ \A i \in 1..(Len(a) + Len(b)) :
               r[i] = IF i <= Len(a) THEN a[i] ELSE b[i - Len(a)]
    BY <1>2, <1>3, <1>4, ConcatProperties
  <2>2. ASSUME NEW i \in 1..(Len(s) - 1), i < n PROVE r[i] = s[i]
    <3>1. i <= Len(a) /\ i \in 1..(n - 1) /\ i \in 1..(Len(a) + Len(b))
      BY <1>1, <1>2, <1>3, <2>2
    <3>2. QED
      BY <1>2, <2>1, <3>1
  <2>3. ASSUME NEW i \in 1..(Len(s) - 1), ~(i < n) PROVE r[i] = s[i + 1]
    <3>1. ~(i <= Len(a)) /\ i \in 1..(Len(a) + Len(b))
      BY <1>1, <1>2, <1>3, <2>3
    <3>2. /\ i - Len(a) \in 1..(Len(s) - n)
          /\ n + (i - Len(a)) = i + 1
      BY <1>1, <1>2, <2>3
    <3>3. QED
      BY <1>3, <2>1, <3>1, <3>2
  <2>4. QED
    BY <1>1, <1>2, <1>3, <2>1, <2>2, <2>3
<1>6. DOMAIN r = 1..(Len(s) - 1)
  BY <1>5
<1>7. ToSet(r) = ToSet(s) \ {s[n]}
  <2>1. ASSUME NEW x \in ToSet(r) PROVE x \in ToSet(s) \ {s[n]}
    <3>1. PICK i \in 1..(Len(s) - 1) : x = r[i]
      BY <1>6 DEF ToSet
    <3>2. PICK j \in 1..Len(s) : x = s[j] /\ j # n
      BY <1>1, <1>5, <3>1
    <3>3. QED
      BY <1>1, <3>2 DEF ToSet, IsInjective
  <2>2. ASSUME NEW x \in ToSet(s) \ {s[n]} PROVE x \in ToSet(r)
    <3>1. PICK i \in 1..Len(s) : x = s[i] /\ i # n
      BY <1>1 DEF ToSet
    <3>2. CASE i < n
      <4>1. i \in 1..(Len(s) - 1) /\ r[i] = x
        BY <1>1, <1>5, <3>1, <3>2
      <4>2. QED
        BY <1>6, <4>1 DEF ToSet
    <3>3. CASE i > n
      <4>1. i - 1 \in 1..(Len(s) - 1) /\ r[i - 1] = x
        BY <1>1, <1>5, <3>1, <3>3
      <4>2. QED
        BY <1>6, <4>1 DEF ToSet
    <3>4. QED
      BY <1>1, <3>1, <3>2, <3>3
  <2>3. QED
    BY <2>1, <2>2
<1>8. IsInjective(r)
  <2>1. \A i, j \in 1..Len(s) : s[i] = s[j] => i = j
    BY <1>1 DEF IsInjective
  <2>2. \A i \in 1..(Len(s) - 1) :
           \E k \in 1..Len(s) : r[i] = s[k] /\ k = IF i < n THEN i ELSE i + 1
    <3>1. ASSUME NEW i \in 1..(Len(s) - 1)
          PROVE  \E k \in 1..Len(s) : r[i] = s[k] /\ k = IF i < n THEN i ELSE i + 1
      <4>1. r[i] = IF i < n THEN s[i] ELSE s[i + 1]
        BY <1>5
      <4>2. i \in 1..Len(s) /\ i + 1 \in 1..Len(s)
        BY <1>1
      <4>3. QED
        BY <4>1, <4>2
    <3>2. QED
      BY <3>1
  <2>3. \A i, j \in 1..(Len(s) - 1) : r[i] = r[j] => i = j
    BY <1>1, <2>1, <2>2
  <2>4. QED
    BY <1>6, <2>3 DEF IsInjective
<1>9. QED
  BY <1>5, <1>7, <1>8 DEF r

-----------------------------------------------------------------------------
(***************************************************************************)
(* One lemma per part of the invariant, one step per action.               *)
(***************************************************************************)

\* The flags stay Boolean: an action assigns a constant or an earlier value.
LEMMA FlagsStep ==
    ASSUME TypeOK, [Next]_vars
    PROVE  FlagsOK'
<1> USE ServerAssumption DEF TypeOK, FlagsOK, flags
<1>1. ASSUME NEW bound \in 0..NumSockets, StartServer(bound) PROVE FlagsOK'
  BY <1>1 DEF StartServer, CanBind, sockets, flags, accepting, records, broadcast
<1>2. ASSUME StopRequested PROVE FlagsOK'
  BY <1>2 DEF StopRequested, sockets, flags, accepting, records, broadcast
<1>3. ASSUME StopDeletes PROVE FlagsOK'
  BY <1>3 DEF StopDeletes, Shift, sockets, flags, accepting, records, broadcast
<1>4. ASSUME StopClears PROVE FlagsOK'
  BY <1>4 DEF StopClears, Shift, sockets, flags, accepting, records, broadcast
<1>5. ASSUME NEW t \in Threads, Select(t) PROVE FlagsOK'
  BY <1>5 DEF Select, Go, sockets, flags, accepting, records, broadcast
<1>6. ASSUME NEW t \in Threads, ConnectionLoop(t) PROVE FlagsOK'
  BY <1>6 DEF ConnectionLoop, Go, sockets, flags, accepting, records, broadcast
<1>7. ASSUME NEW t \in Threads, Listen(t) PROVE FlagsOK'
  BY <1>7 DEF Listen, Go, sockets, flags, accepting, records, broadcast
<1>8. ASSUME NEW t \in Threads, ListenFails(t) PROVE FlagsOK'
  BY <1>8 DEF ListenFails, Go, sockets, flags, accepting, records, broadcast
<1>9. ASSUME NEW t \in Threads, AcceptFails(t) PROVE FlagsOK'
  BY <1>9 DEF AcceptFails, NoSocket, Go, sockets, flags, accepting, records, broadcast
<1>10. ASSUME NEW t \in Threads, AcceptsInvalid(t) PROVE FlagsOK'
  BY <1>10 DEF AcceptsInvalid, NoSocket, Register, Go, sockets, flags, accepting, records, broadcast
<1>11. ASSUME NEW t \in Threads, NEW c \in Clients, Accept(t, c) PROVE FlagsOK'
  BY <1>11 DEF Accept, Register, Go, sockets, flags, accepting, records, broadcast
<1>12. ASSUME NEW t \in Threads, SpawnListener(t) PROVE FlagsOK'
  BY <1>12 DEF SpawnListener, Go, sockets, flags, accepting, records, broadcast
<1>13. ASSUME NEW t \in Threads, PushClient(t) PROVE FlagsOK'
  BY <1>13 DEF PushClient, Go, sockets, flags, accepting, records, broadcast
<1>14. ASSUME NEW t \in Threads, ConnectionExit(t) PROVE FlagsOK'
  BY <1>14 DEF ConnectionExit, Go, sockets, flags, accepting, records, broadcast
<1>15. ASSUME NEW c \in Records, StopReceiving(c) PROVE FlagsOK'
  BY <1>15 DEF StopReceiving, GoListener, sockets, flags, accepting, records, broadcast
<1>16. ASSUME NEW c \in Records, DeleteOwn(c) PROVE FlagsOK'
  <2>1. CASE c \in Listed
    BY <1>16, <2>1 DEF DeleteOwn, Shift, sockets
  <2>2. CASE c \notin Listed
    BY <1>16, <2>2 DEF DeleteOwn, sockets
  <2>3. QED
    BY <2>1, <2>2
<1>17. ASSUME NEW c \in Records, EraseOwn(c) PROVE FlagsOK'
  BY <1>17 DEF EraseOwn, GoListener, Shift, sockets, flags, accepting, records, broadcast
<1>18. ASSUME DeviceListChanged PROVE FlagsOK'
  BY <1>18 DEF DeviceListChanged, sockets, flags, accepting, records, broadcast
<1>19. ASSUME TellNext PROVE FlagsOK'
  BY <1>19 DEF TellNext, sockets, flags, accepting, records, broadcast
<1>20. ASSUME ToldAll PROVE FlagsOK'
  BY <1>20 DEF ToldAll, sockets, flags, accepting, records, broadcast
<1>21. ASSUME UNCHANGED vars PROVE FlagsOK'
  BY <1>21 DEF vars, sockets, flags, accepting, records, broadcast
<1>22. QED
  BY <1>1, <1>2, <1>3, <1>4, <1>5, <1>6, <1>7, <1>8, <1>9, <1>10, <1>11, <1>12, <1>13, <1>14, <1>15, <1>16, <1>17, <1>18, <1>19, <1>20, <1>21
  DEF Next, StopServer, ConnectionStep, ListenerStep, ReceiveFails, ClientLost, Tell, Records

\* Only StartServer makes threads, and only those of the start it counts.
LEMMA UnstartedStep ==
    ASSUME IInv, [Next]_vars
    PROVE  Unstarted'
<1> USE ServerAssumption DEF IInv, TypeOK, Unstarted, Threads, Indices
<1>1. ASSUME NEW bound \in 0..NumSockets, StartServer(bound) PROVE Unstarted'
  BY <1>1 DEF StartServer, CanBind, sockets, flags, accepting, records, broadcast
<1>2. ASSUME StopRequested PROVE Unstarted'
  BY <1>2 DEF StopRequested, sockets, flags, accepting, records, broadcast
<1>3. ASSUME StopDeletes PROVE Unstarted'
  BY <1>3 DEF StopDeletes, Shift, sockets, flags, accepting, records, broadcast
<1>4. ASSUME StopClears PROVE Unstarted'
  BY <1>4 DEF StopClears, Shift, sockets, flags, accepting, records, broadcast
<1>5. ASSUME NEW t \in Threads, Select(t) PROVE Unstarted'
  BY <1>5 DEF Select, Go, sockets, flags, accepting, records, broadcast
<1>6. ASSUME NEW t \in Threads, ConnectionLoop(t) PROVE Unstarted'
  BY <1>6 DEF ConnectionLoop, Go, sockets, flags, accepting, records, broadcast
<1>7. ASSUME NEW t \in Threads, Listen(t) PROVE Unstarted'
  BY <1>7 DEF Listen, Go, sockets, flags, accepting, records, broadcast
<1>8. ASSUME NEW t \in Threads, ListenFails(t) PROVE Unstarted'
  BY <1>8 DEF ListenFails, Go, sockets, flags, accepting, records, broadcast
<1>9. ASSUME NEW t \in Threads, AcceptFails(t) PROVE Unstarted'
  BY <1>9 DEF AcceptFails, NoSocket, Go, sockets, flags, accepting, records, broadcast
<1>10. ASSUME NEW t \in Threads, AcceptsInvalid(t) PROVE Unstarted'
  BY <1>10 DEF AcceptsInvalid, NoSocket, Register, Go, sockets, flags, accepting, records, broadcast
<1>11. ASSUME NEW t \in Threads, NEW c \in Clients, Accept(t, c) PROVE Unstarted'
  BY <1>11 DEF Accept, Register, Go, sockets, flags, accepting, records, broadcast
<1>12. ASSUME NEW t \in Threads, SpawnListener(t) PROVE Unstarted'
  BY <1>12 DEF SpawnListener, Go, sockets, flags, accepting, records, broadcast
<1>13. ASSUME NEW t \in Threads, PushClient(t) PROVE Unstarted'
  BY <1>13 DEF PushClient, Go, sockets, flags, accepting, records, broadcast
<1>14. ASSUME NEW t \in Threads, ConnectionExit(t) PROVE Unstarted'
  BY <1>14 DEF ConnectionExit, Go, sockets, flags, accepting, records, broadcast
<1>15. ASSUME NEW c \in Records, StopReceiving(c) PROVE Unstarted'
  BY <1>15 DEF StopReceiving, GoListener, sockets, flags, accepting, records, broadcast
<1>16. ASSUME NEW c \in Records, DeleteOwn(c) PROVE Unstarted'
  BY <1>16 DEF DeleteOwn, GoListener, Shift, sockets, flags, accepting, records, broadcast
<1>17. ASSUME NEW c \in Records, EraseOwn(c) PROVE Unstarted'
  BY <1>17 DEF EraseOwn, GoListener, Shift, sockets, flags, accepting, records, broadcast
<1>18. ASSUME DeviceListChanged PROVE Unstarted'
  BY <1>18 DEF DeviceListChanged, sockets, flags, accepting, records, broadcast
<1>19. ASSUME TellNext PROVE Unstarted'
  BY <1>19 DEF TellNext, sockets, flags, accepting, records, broadcast
<1>20. ASSUME ToldAll PROVE Unstarted'
  BY <1>20 DEF ToldAll, sockets, flags, accepting, records, broadcast
<1>21. ASSUME UNCHANGED vars PROVE Unstarted'
  BY <1>21 DEF vars, sockets, flags, accepting, records, broadcast
<1>22. QED
  BY <1>1, <1>2, <1>3, <1>4, <1>5, <1>6, <1>7, <1>8, <1>9, <1>10, <1>11, <1>12, <1>13, <1>14, <1>15, <1>16, <1>17, <1>18, <1>19, <1>20, <1>21
  DEF Next, StopServer, ConnectionStep, ListenerStep, ReceiveFails, ClientLost, Tell, Records

\* Types, in the form of one step each for values that take a fact of their own.
LEMMA TypeStep ==
    ASSUME IInv, FlagsOK', [Next]_vars
    PROVE  TypeOK'
<1> USE ServerAssumption DEF IInv, TypeOK, Records, Indices, FlagsOK, ConnectionLabels, ListenLabels
<1>1. ASSUME NEW bound \in 0..NumSockets, StartServer(bound) PROVE TypeOK'
  <2>1. /\ bound \in 0..NumSockets /\ starts < MaxStarts /\ starts' = starts + 1
        /\ socket_count' = bound
        /\ server_sock' = [i \in Indices |-> IF i <= bound THEN starts + 1 ELSE server_sock[i]]
        /\ open' = open \cup {<<starts + 1, i>> : i \in 1..bound}
        /\ cpc' = [u \in Threads |-> IF bound = NumSockets /\ u[1] = starts + 1
                                     THEN "loop" ELSE cpc[u]]
        /\ UNCHANGED <<fd, accepted, lastEnd, lpc, records, upc, next, told>>
    BY <1>1 DEF StartServer, accepting, broadcast
  <2>2. starts + 1 \in 0..MaxStarts /\ starts + 1 \in 1..MaxStarts
    BY <2>1
  <2>3. server_sock' \in [Indices -> 0..MaxStarts]
    BY <2>1, <2>2
  <2>4. open' \subseteq Threads
    BY <2>1, <2>2 DEF Threads
  <2>5. cpc' \in [Threads -> ConnectionLabels]
    BY <2>1
  <2>6. QED
    BY <2>1, <2>2, <2>3, <2>4, <2>5 DEF records
<1>2. ASSUME StopRequested PROVE TypeOK'
  BY <1>2 DEF StopRequested, sockets, flags, accepting, records, broadcast
<1>3. ASSUME StopDeletes PROVE TypeOK'
  <2>1. Listed \subseteq Records
    BY DEF Listed, ToSet
  <2>2. QED
    BY <1>3, <2>1 DEF StopDeletes, Shift, sockets, accepting
<1>4. ASSUME StopClears PROVE TypeOK'
  BY <1>4 DEF StopClears, Shift, sockets, flags, accepting, records, broadcast
<1>5. ASSUME NEW t \in Threads, Select(t) PROVE TypeOK'
  BY <1>5 DEF Select, Go, sockets, flags, accepting, records, broadcast
<1>6. ASSUME NEW t \in Threads, ConnectionLoop(t) PROVE TypeOK'
  BY <1>6 DEF ConnectionLoop, Go, sockets, flags, accepting, records, broadcast
<1>7. ASSUME NEW t \in Threads, Listen(t) PROVE TypeOK'
  BY <1>7 DEF Listen, Go, Threads, sockets, records, broadcast
<1>8. ASSUME NEW t \in Threads, ListenFails(t) PROVE TypeOK'
  BY <1>8 DEF ListenFails, Go, sockets, flags, accepting, records, broadcast
<1>9. ASSUME NEW t \in Threads, AcceptFails(t) PROVE TypeOK'
  BY <1>9 DEF AcceptFails, NoSocket, Go, sockets, flags, accepting, records, broadcast
<1>10. ASSUME NEW t \in Threads, AcceptsInvalid(t) PROVE TypeOK'
  BY <1>10 DEF AcceptsInvalid, NoSocket, Register, Go, sockets, flags, accepting, records, broadcast
<1>11. ASSUME NEW t \in Threads, NEW c \in Clients, Accept(t, c) PROVE TypeOK'
  BY <1>11 DEF Accept, Register, Go, sockets, flags, accepting, records, broadcast
<1>12. ASSUME NEW t \in Threads, SpawnListener(t) PROVE TypeOK'
  BY <1>12 DEF SpawnListener, Go, sockets, flags, accepting, records, broadcast
<1>13. ASSUME NEW t \in Threads, PushClient(t) PROVE TypeOK'
  <2>1. accepted[t] \in Records
    BY <1>13 DEF PushClient, Preparing
  <2>2. ServerClients' \in Seq(Records)
    BY <1>13, <2>1, Pushed DEF PushClient
  <2>3. QED
    BY <1>13, <2>2 DEF PushClient, Go, sockets, broadcast
<1>14. ASSUME NEW t \in Threads, ConnectionExit(t) PROVE TypeOK'
  BY <1>14 DEF ConnectionExit, Go, sockets, flags, accepting, records, broadcast
<1>15. ASSUME NEW c \in Records, StopReceiving(c) PROVE TypeOK'
  BY <1>15 DEF StopReceiving, GoListener, sockets, flags, accepting, records, broadcast
<1>16. ASSUME NEW c \in Records, DeleteOwn(c) PROVE TypeOK'
  BY <1>16 DEF DeleteOwn, GoListener, Shift, sockets, flags, accepting, records, broadcast
<1>17. ASSUME NEW c \in Records, EraseOwn(c) PROVE TypeOK'
  <2>1. ServerClients' \in Seq(Records)
    BY <1>17, Erased DEF EraseOwn, Listing
  <2>2. QED
    BY <1>17, <2>1 DEF EraseOwn, GoListener, Shift, sockets, accepting
<1>18. ASSUME DeviceListChanged PROVE TypeOK'
  BY <1>18 DEF DeviceListChanged, sockets, flags, accepting, records, broadcast
<1>19. ASSUME TellNext PROVE TypeOK'
  BY <1>19, SMTT(30) DEF TellNext, sockets, flags, accepting, records, broadcast
<1>20. ASSUME ToldAll PROVE TypeOK'
  BY <1>20 DEF ToldAll, sockets, flags, accepting, records, broadcast
<1>21. ASSUME UNCHANGED vars PROVE TypeOK'
  BY <1>21 DEF vars, sockets, flags, accepting, records, broadcast
<1>22. QED
  BY <1>1, <1>2, <1>3, <1>4, <1>5, <1>6, <1>7, <1>8, <1>9, <1>10, <1>11, <1>12, <1>13, <1>14, <1>15, <1>16, <1>17, <1>18, <1>19, <1>20, <1>21
  DEF Next, StopServer, ConnectionStep, ListenerStep, ReceiveFails, ClientLost, Tell, Records

\* ServerClientsMutex is taken only by a thread that finds it free.
LEMMA OneHolderStep ==
    ASSUME IInv, [Next]_vars
    PROVE  OneHolder'
<1> USE ServerAssumption DEF IInv, TypeOK, OneHolder, ServerClientsMutexFree
<1>1. ASSUME NEW bound \in 0..NumSockets, StartServer(bound) PROVE OneHolder'
  BY <1>1 DEF StartServer, CanBind, sockets, flags, accepting, records, broadcast
<1>2. ASSUME StopRequested PROVE OneHolder'
  BY <1>2 DEF StopRequested, sockets, flags, accepting, records, broadcast
<1>3. ASSUME StopDeletes PROVE OneHolder'
  BY <1>3 DEF StopDeletes, Shift, sockets, flags, accepting, records, broadcast
<1>4. ASSUME StopClears PROVE OneHolder'
  BY <1>4 DEF StopClears, Shift, sockets, flags, accepting, records, broadcast
<1>5. ASSUME NEW t \in Threads, Select(t) PROVE OneHolder'
  BY <1>5 DEF Select, Go, sockets, flags, accepting, records, broadcast
<1>6. ASSUME NEW t \in Threads, ConnectionLoop(t) PROVE OneHolder'
  BY <1>6 DEF ConnectionLoop, Go, sockets, flags, accepting, records, broadcast
<1>7. ASSUME NEW t \in Threads, Listen(t) PROVE OneHolder'
  BY <1>7 DEF Listen, Go, sockets, flags, accepting, records, broadcast
<1>8. ASSUME NEW t \in Threads, ListenFails(t) PROVE OneHolder'
  BY <1>8 DEF ListenFails, Go, sockets, flags, accepting, records, broadcast
<1>9. ASSUME NEW t \in Threads, AcceptFails(t) PROVE OneHolder'
  BY <1>9 DEF AcceptFails, NoSocket, Go, sockets, flags, accepting, records, broadcast
<1>10. ASSUME NEW t \in Threads, AcceptsInvalid(t) PROVE OneHolder'
  BY <1>10 DEF AcceptsInvalid, NoSocket, Register, Go, sockets, flags, accepting, records, broadcast
<1>11. ASSUME NEW t \in Threads, NEW c \in Clients, Accept(t, c) PROVE OneHolder'
  BY <1>11 DEF Accept, Register, Go, sockets, flags, accepting, records, broadcast
<1>12. ASSUME NEW t \in Threads, SpawnListener(t) PROVE OneHolder'
  BY <1>12 DEF SpawnListener, Go, sockets, flags, accepting, records, broadcast
<1>13. ASSUME NEW t \in Threads, PushClient(t) PROVE OneHolder'
  BY <1>13 DEF PushClient, Go, sockets, flags, accepting, records, broadcast
<1>14. ASSUME NEW t \in Threads, ConnectionExit(t) PROVE OneHolder'
  BY <1>14 DEF ConnectionExit, Go, sockets, flags, accepting, records, broadcast
<1>15. ASSUME NEW c \in Records, StopReceiving(c) PROVE OneHolder'
  BY <1>15 DEF StopReceiving, GoListener, sockets, flags, accepting, records, broadcast
<1>16. ASSUME NEW c \in Records, DeleteOwn(c) PROVE OneHolder'
  BY <1>16 DEF DeleteOwn, GoListener, Shift, sockets, flags, accepting, records, broadcast
<1>17. ASSUME NEW c \in Records, EraseOwn(c) PROVE OneHolder'
  BY <1>17 DEF EraseOwn, GoListener, Shift, sockets, flags, accepting, records, broadcast
<1>18. ASSUME DeviceListChanged PROVE OneHolder'
  BY <1>18 DEF DeviceListChanged, sockets, flags, accepting, records, broadcast
<1>19. ASSUME TellNext PROVE OneHolder'
  BY <1>19 DEF TellNext, sockets, flags, accepting, records, broadcast
<1>20. ASSUME ToldAll PROVE OneHolder'
  BY <1>20 DEF ToldAll, sockets, flags, accepting, records, broadcast
<1>21. ASSUME UNCHANGED vars PROVE OneHolder'
  BY <1>21 DEF vars, sockets, flags, accepting, records, broadcast
<1>22. QED
  BY <1>1, <1>2, <1>3, <1>4, <1>5, <1>6, <1>7, <1>8, <1>9, <1>10, <1>11, <1>12, <1>13, <1>14, <1>15, <1>16, <1>17, <1>18, <1>19, <1>20, <1>21
  DEF Next, StopServer, ConnectionStep, ListenerStep, ReceiveFails, ClientLost, Tell, Records

\* A connection thread keeps its record from accept_select to the end of push_back: no
\* other thread takes the record, and its listener finds the mutex held.
LEMMA PreparingStep ==
    ASSUME IInv, [Next]_vars
    PROVE  Preparing'
<1> USE ServerAssumption DEF IInv, TypeOK, Preparing, OneHolder, Listing, ServerClientsMutexFree, Records, Listed
<1>1. ASSUME NEW bound \in 0..NumSockets, StartServer(bound) PROVE Preparing'
  <2>1. /\ UNCHANGED <<accepted, live, Listed, lpc>>
        /\ cpc' = [t \in Threads |-> IF bound = NumSockets /\ t[1] = starts + 1
                                     THEN "loop" ELSE cpc[t]]
    BY <1>1 DEF StartServer, accepting, records
  <2>2. \A t \in Threads : t[1] = starts + 1 => cpc[t] = "none"
    BY DEF Unstarted, Threads, Indices
  <2>3. QED
    BY <2>1, <2>2
<1>2. ASSUME StopRequested PROVE Preparing'
  BY <1>2 DEF StopRequested, sockets, flags, accepting, records, broadcast
<1>3. ASSUME StopDeletes PROVE Preparing'
  BY <1>3 DEF StopDeletes, Shift, sockets, flags, accepting, records, broadcast
<1>4. ASSUME StopClears PROVE Preparing'
  BY <1>4, Cleared DEF StopClears, accepting
<1>5. ASSUME NEW t \in Threads, Select(t) PROVE Preparing'
  BY <1>5 DEF Select, Go, sockets, flags, accepting, records, broadcast
<1>6. ASSUME NEW t \in Threads, ConnectionLoop(t) PROVE Preparing'
  BY <1>6 DEF ConnectionLoop, Go, sockets, flags, accepting, records, broadcast
<1>7. ASSUME NEW t \in Threads, Listen(t) PROVE Preparing'
  BY <1>7 DEF Listen, Go, sockets, flags, accepting, records, broadcast
<1>8. ASSUME NEW t \in Threads, ListenFails(t) PROVE Preparing'
  BY <1>8 DEF ListenFails, Go, sockets, flags, accepting, records, broadcast
<1>9. ASSUME NEW t \in Threads, AcceptFails(t) PROVE Preparing'
  BY <1>9 DEF AcceptFails, NoSocket, Go, sockets, flags, accepting, records, broadcast
<1>10. ASSUME NEW t \in Threads, AcceptsInvalid(t) PROVE Preparing'
  BY <1>10 DEF AcceptsInvalid, NoSocket, Register, Go, sockets, flags, accepting, records, broadcast
<1>11. ASSUME NEW t \in Threads, NEW c \in Clients, Accept(t, c) PROVE Preparing'
  <2>1. /\ cpc' = [cpc EXCEPT ![t] = "accepted"]
        /\ accepted' = [accepted EXCEPT ![t] = c]
        /\ lpc' = [lpc EXCEPT ![c] = "none"] /\ live' = live \cup {c}
        /\ c \notin live /\ c \in Records /\ lpc[c] = "none"
        /\ UNCHANGED ServerClients
    BY <1>11 DEF Accept, Register, Go
  <2>2. c \notin Listed /\ Listed' = Listed /\ \A u \in Threads : accepted[u] # c
    BY <2>1
  <2>3. QED
    BY <2>1, <2>2
<1>12. ASSUME NEW t \in Threads, SpawnListener(t) PROVE Preparing'
  <2>1. /\ cpc' = [cpc EXCEPT ![t] = "spawned"] /\ cpc[t] = "accepted"
        /\ lpc' = [lpc EXCEPT ![accepted[t]] = "recv"]
        /\ UNCHANGED <<accepted, live, Listed>>
    BY <1>12 DEF SpawnListener, Go, accepting, records
  <2>2. accepted[t] \in Records /\ accepted[t] # NoClient
    BY <2>1 DEF Threads, Indices
  <2>3. \A u \in Threads : u # t /\ cpc[u] \in {"accepted", "spawned"}
            => accepted[u] # accepted[t] /\ accepted[u] \in Records
    BY <2>1, <2>2
  <2>4. QED
    BY <2>1, <2>2, <2>3
<1>13. ASSUME NEW t \in Threads, PushClient(t) PROVE Preparing'
  <2>1. /\ cpc' = [cpc EXCEPT ![t] = "loop"] /\ cpc[t] = "spawned"
        /\ accepted' = [accepted EXCEPT ![t] = NoClient]
        /\ ServerClients' = Append(ServerClients, accepted[t])
        /\ UNCHANGED <<live, lpc>>
    BY <1>13 DEF PushClient, Go
  <2>2. accepted[t] \in Records /\ accepted[t] # NoClient
    BY <2>1 DEF Threads, Indices
  <2>3. Listed' = Listed \cup {accepted[t]}
    BY <2>1, <2>2, Pushed
  <2>4. QED
    BY <2>1, <2>2, <2>3
<1>14. ASSUME NEW t \in Threads, ConnectionExit(t) PROVE Preparing'
  BY <1>14 DEF ConnectionExit, Go, sockets, flags, accepting, records, broadcast
<1>15. ASSUME NEW c \in Records, StopReceiving(c) PROVE Preparing'
  BY <1>15 DEF StopReceiving, GoListener, sockets, flags, accepting, records, broadcast
<1>16. ASSUME NEW c \in Records, DeleteOwn(c) PROVE Preparing'
  BY <1>16 DEF DeleteOwn, GoListener, Shift, sockets, flags, accepting, records, broadcast
<1>17. ASSUME NEW c \in Records, EraseOwn(c) PROVE Preparing'
  <2>1. /\ lpc' = [lpc EXCEPT ![c] = "ended"] /\ lpc[c] = "deleted"
        /\ \E i \in 1..Len(ServerClients) :
               ServerClients[i] = c /\ ServerClients' = RemoveAt(ServerClients, i)
        /\ UNCHANGED <<cpc, accepted, live>>
    BY <1>17 DEF EraseOwn, GoListener, accepting
  <2>2. Listed' = Listed \ {c}
    BY <2>1, Erased
  <2>3. QED
    BY <2>1, <2>2
<1>18. ASSUME DeviceListChanged PROVE Preparing'
  BY <1>18 DEF DeviceListChanged, sockets, flags, accepting, records, broadcast
<1>19. ASSUME TellNext PROVE Preparing'
  BY <1>19 DEF TellNext, sockets, flags, accepting, records, broadcast
<1>20. ASSUME ToldAll PROVE Preparing'
  BY <1>20 DEF ToldAll, sockets, flags, accepting, records, broadcast
<1>21. ASSUME UNCHANGED vars PROVE Preparing'
  BY <1>21 DEF vars, sockets, flags, accepting, records, broadcast
<1>22. QED
  BY <1>1, <1>2, <1>3, <1>4, <1>5, <1>6, <1>7, <1>8, <1>9, <1>10, <1>11, <1>12, <1>13, <1>14, <1>15, <1>16, <1>17, <1>18, <1>19, <1>20, <1>21
  DEF Next, StopServer, ConnectionStep, ListenerStep, ReceiveFails, ClientLost, Tell, Records

\* The threads that delete listed records hold the mutex until these are out of the list.
LEMMA ListingStep ==
    ASSUME IInv, [Next]_vars
    PROVE  Listing'
<1> USE ServerAssumption DEF IInv, TypeOK, Preparing, OneHolder, Listing, ServerClientsMutexFree, Records, Listed
<1>1. ASSUME NEW bound \in 0..NumSockets, StartServer(bound) PROVE Listing'
  BY <1>1 DEF StartServer, CanBind, sockets, flags, accepting, records, broadcast
<1>2. ASSUME StopRequested PROVE Listing'
  BY <1>2 DEF StopRequested, sockets, flags, accepting, records, broadcast
<1>3. ASSUME StopDeletes PROVE Listing'
  BY <1>3 DEF StopDeletes, Shift, sockets, flags, accepting, records, broadcast
<1>4. ASSUME StopClears PROVE Listing'
  BY <1>4, Cleared DEF StopClears, accepting
<1>5. ASSUME NEW t \in Threads, Select(t) PROVE Listing'
  BY <1>5 DEF Select, Go, sockets, flags, accepting, records, broadcast
<1>6. ASSUME NEW t \in Threads, ConnectionLoop(t) PROVE Listing'
  BY <1>6 DEF ConnectionLoop, Go, sockets, flags, accepting, records, broadcast
<1>7. ASSUME NEW t \in Threads, Listen(t) PROVE Listing'
  BY <1>7 DEF Listen, Go, sockets, flags, accepting, records, broadcast
<1>8. ASSUME NEW t \in Threads, ListenFails(t) PROVE Listing'
  BY <1>8 DEF ListenFails, Go, sockets, flags, accepting, records, broadcast
<1>9. ASSUME NEW t \in Threads, AcceptFails(t) PROVE Listing'
  BY <1>9 DEF AcceptFails, NoSocket, Go, sockets, flags, accepting, records, broadcast
<1>10. ASSUME NEW t \in Threads, AcceptsInvalid(t) PROVE Listing'
  <2>1. /\ lpc' = [lpc EXCEPT ![t] = "none"] /\ live' = live \cup {t}
        /\ lpc[t] \in {"none", "ended"} /\ t \notin live /\ t \in Records
        /\ UNCHANGED <<Listed, ServerClients, upc>>
    BY <1>10 DEF AcceptsInvalid, Register
  <2>2. t \notin Listed
    BY <2>1
  <2>3. QED
    BY <2>1, <2>2
<1>11. ASSUME NEW t \in Threads, NEW c \in Clients, Accept(t, c) PROVE Listing'
  <2>1. /\ lpc' = [lpc EXCEPT ![c] = "none"] /\ live' = live \cup {c}
        /\ lpc[c] = "none" /\ c \notin live /\ c \in Records
        /\ UNCHANGED <<Listed, ServerClients, upc>>
    BY <1>11 DEF Accept, Register
  <2>2. c \notin Listed
    BY <2>1
  <2>3. QED
    BY <2>1, <2>2
<1>12. ASSUME NEW t \in Threads, SpawnListener(t) PROVE Listing'
  BY <1>12 DEF SpawnListener, Go, sockets, flags, accepting, records, broadcast
<1>13. ASSUME NEW t \in Threads, PushClient(t) PROVE Listing'
  <2>1. /\ cpc' = [cpc EXCEPT ![t] = "loop"] /\ cpc[t] = "spawned"
        /\ accepted' = [accepted EXCEPT ![t] = NoClient]
        /\ ServerClients' = Append(ServerClients, accepted[t])
        /\ UNCHANGED <<live, lpc, orphans, upc>>
    BY <1>13 DEF PushClient, Go
  <2>2. /\ accepted[t] \in live /\ accepted[t] \in Records /\ accepted[t] \notin Listed
        /\ lpc[accepted[t]] \in {"recv", "done"} /\ upc # "deleted"
    BY <2>1
  <2>3. /\ Listed' = Listed \cup {accepted[t]}
        /\ IsInjective(ServerClients')
    BY <2>1, <2>2, Pushed
  <2>4. QED
    BY <2>1, <2>2, <2>3
<1>14. ASSUME NEW t \in Threads, ConnectionExit(t) PROVE Listing'
  BY <1>14 DEF ConnectionExit, Go, sockets, flags, accepting, records, broadcast
<1>15. ASSUME NEW c \in Records, StopReceiving(c) PROVE Listing'
  BY <1>15 DEF StopReceiving, GoListener, sockets, flags, accepting, records, broadcast
<1>16. ASSUME NEW c \in Records, DeleteOwn(c) PROVE Listing'
  <2>1. /\ lpc' = [lpc EXCEPT ![c] = IF c \in Listed THEN "deleted" ELSE "ended"]
        /\ live' = IF c \in Listed THEN live \ {c} ELSE live
        /\ lpc[c] = "done" /\ upc # "deleted" /\ \A d \in Records : lpc[d] # "deleted"
        /\ UNCHANGED <<Listed, ServerClients, upc>>
    BY <1>16 DEF DeleteOwn, GoListener
  <2>2. CASE c \in Listed
    BY <2>1, <2>2
  <2>3. CASE c \notin Listed
    BY <2>1, <2>3
  <2>4. QED
    BY <2>2, <2>3
<1>17. ASSUME NEW c \in Records, EraseOwn(c) PROVE Listing'
  <2>1. /\ lpc' = [lpc EXCEPT ![c] = "ended"] /\ lpc[c] = "deleted"
        /\ \E i \in 1..Len(ServerClients) :
               ServerClients[i] = c /\ ServerClients' = RemoveAt(ServerClients, i)
        /\ UNCHANGED <<cpc, accepted, live, orphans, upc>>
    BY <1>17 DEF EraseOwn, GoListener, accepting
  <2>2. Listed' = Listed \ {c} /\ IsInjective(ServerClients')
    BY <2>1, Erased
  <2>3. c \notin live
    BY <2>1
  <2>4. QED
    BY <2>1, <2>2, <2>3
<1>18. ASSUME DeviceListChanged PROVE Listing'
  BY <1>18 DEF DeviceListChanged, sockets, flags, accepting, records, broadcast
<1>19. ASSUME TellNext PROVE Listing'
  BY <1>19 DEF TellNext, sockets, flags, accepting, records, broadcast
<1>20. ASSUME ToldAll PROVE Listing'
  BY <1>20 DEF ToldAll, sockets, flags, accepting, records, broadcast
<1>21. ASSUME UNCHANGED vars PROVE Listing'
  BY <1>21 DEF vars, sockets, flags, accepting, records, broadcast
<1>22. QED
  BY <1>1, <1>2, <1>3, <1>4, <1>5, <1>6, <1>7, <1>8, <1>9, <1>10, <1>11, <1>12, <1>13, <1>14, <1>15, <1>16, <1>17, <1>18, <1>19, <1>20, <1>21
  DEF Next, StopServer, ConnectionStep, ListenerStep, ReceiveFails, ClientLost, Tell, Records

\* A record goes from the connection thread to the list in one step under the mutex.
LEMMA OwnedStep ==
    ASSUME IInv, [Next]_vars
    PROVE  Owned'
<1> USE ServerAssumption DEF IInv, TypeOK, Preparing, OneHolder, Listing, Owned, ServerClientsMutexFree, Records, Listed
<1>1. ASSUME NEW bound \in 0..NumSockets, StartServer(bound) PROVE Owned'
  BY <1>1 DEF StartServer, CanBind, sockets, flags, accepting, records, broadcast
<1>2. ASSUME StopRequested PROVE Owned'
  BY <1>2 DEF StopRequested, sockets, flags, accepting, records, broadcast
<1>3. ASSUME StopDeletes PROVE Owned'
  BY <1>3 DEF StopDeletes, Shift, sockets, flags, accepting, records, broadcast
<1>4. ASSUME StopClears PROVE Owned'
  BY <1>4 DEF StopClears, Shift, sockets, flags, accepting, records, broadcast
<1>5. ASSUME NEW t \in Threads, Select(t) PROVE Owned'
  BY <1>5 DEF Select, Go, sockets, flags, accepting, records, broadcast
<1>6. ASSUME NEW t \in Threads, ConnectionLoop(t) PROVE Owned'
  BY <1>6 DEF ConnectionLoop, Go, sockets, flags, accepting, records, broadcast
<1>7. ASSUME NEW t \in Threads, Listen(t) PROVE Owned'
  BY <1>7 DEF Listen, Go, sockets, flags, accepting, records, broadcast
<1>8. ASSUME NEW t \in Threads, ListenFails(t) PROVE Owned'
  BY <1>8 DEF ListenFails, Go, sockets, flags, accepting, records, broadcast
<1>9. ASSUME NEW t \in Threads, AcceptFails(t) PROVE Owned'
  BY <1>9 DEF AcceptFails, NoSocket, Go, sockets, flags, accepting, records, broadcast
<1>10. ASSUME NEW t \in Threads, AcceptsInvalid(t) PROVE Owned'
  <2>1. /\ lpc' = [lpc EXCEPT ![t] = "none"] /\ live' = live \cup {t}
        /\ accepted' = [accepted EXCEPT ![t] = t] /\ cpc[t] \notin {"accepted", "spawned"}
        /\ UNCHANGED <<Listed, orphans>>
    BY <1>10 DEF AcceptsInvalid, Register, NoSocket
  <2>2. accepted[t] = NoClient /\ NoClient \notin live
    BY <2>1 DEF Threads, Indices
  <2>3. QED
    BY <2>1, <2>2
<1>11. ASSUME NEW t \in Threads, NEW c \in Clients, Accept(t, c) PROVE Owned'
  <2>1. /\ lpc' = [lpc EXCEPT ![c] = "none"] /\ live' = live \cup {c}
        /\ accepted' = [accepted EXCEPT ![t] = c] /\ cpc[t] \notin {"accepted", "spawned"}
        /\ UNCHANGED <<Listed, orphans>>
    BY <1>11 DEF Accept, Register
  <2>2. accepted[t] = NoClient /\ NoClient \notin live
    BY <2>1 DEF Threads, Indices
  <2>3. QED
    BY <2>1, <2>2
<1>12. ASSUME NEW t \in Threads, SpawnListener(t) PROVE Owned'
  BY <1>12 DEF SpawnListener, Go, sockets, flags, accepting, records, broadcast
<1>13. ASSUME NEW t \in Threads, PushClient(t) PROVE Owned'
  <2>1. /\ cpc' = [cpc EXCEPT ![t] = "loop"] /\ cpc[t] = "spawned"
        /\ accepted' = [accepted EXCEPT ![t] = NoClient]
        /\ ServerClients' = Append(ServerClients, accepted[t])
        /\ UNCHANGED <<live, lpc, orphans, upc>>
    BY <1>13 DEF PushClient, Go
  <2>2. /\ accepted[t] \in live /\ accepted[t] \in Records /\ accepted[t] \notin Listed
        /\ lpc[accepted[t]] \in {"recv", "done"} /\ upc # "deleted"
    BY <2>1
  <2>3. /\ Listed' = Listed \cup {accepted[t]}
        /\ IsInjective(ServerClients')
    BY <2>1, <2>2, Pushed
  <2>4. QED
    BY <2>1, <2>2, <2>3
<1>14. ASSUME NEW t \in Threads, ConnectionExit(t) PROVE Owned'
  BY <1>14 DEF ConnectionExit, Go, sockets, flags, accepting, records, broadcast
<1>15. ASSUME NEW c \in Records, StopReceiving(c) PROVE Owned'
  BY <1>15 DEF StopReceiving, GoListener, sockets, flags, accepting, records, broadcast
<1>16. ASSUME NEW c \in Records, DeleteOwn(c) PROVE Owned'
  BY <1>16 DEF DeleteOwn, GoListener, Shift, sockets, flags, accepting, records, broadcast
<1>17. ASSUME NEW c \in Records, EraseOwn(c) PROVE Owned'
  <2>1. /\ lpc' = [lpc EXCEPT ![c] = "ended"] /\ lpc[c] = "deleted"
        /\ \E i \in 1..Len(ServerClients) :
               ServerClients[i] = c /\ ServerClients' = RemoveAt(ServerClients, i)
        /\ UNCHANGED <<cpc, accepted, live, orphans, upc>>
    BY <1>17 DEF EraseOwn, GoListener, accepting
  <2>2. Listed' = Listed \ {c} /\ IsInjective(ServerClients')
    BY <2>1, Erased
  <2>3. c \notin live
    BY <2>1
  <2>4. QED
    BY <2>1, <2>2, <2>3
<1>18. ASSUME DeviceListChanged PROVE Owned'
  BY <1>18 DEF DeviceListChanged, sockets, flags, accepting, records, broadcast
<1>19. ASSUME TellNext PROVE Owned'
  BY <1>19 DEF TellNext, sockets, flags, accepting, records, broadcast
<1>20. ASSUME ToldAll PROVE Owned'
  BY <1>20 DEF ToldAll, sockets, flags, accepting, records, broadcast
<1>21. ASSUME UNCHANGED vars PROVE Owned'
  BY <1>21 DEF vars, sockets, flags, accepting, records, broadcast
<1>22. QED
  BY <1>1, <1>2, <1>3, <1>4, <1>5, <1>6, <1>7, <1>8, <1>9, <1>10, <1>11, <1>12, <1>13, <1>14, <1>15, <1>16, <1>17, <1>18, <1>19, <1>20, <1>21
  DEF Next, StopServer, ConnectionStep, ListenerStep, ReceiveFails, ClientLost, Tell, Records

\* A connection thread that ends resets server_online, whatever start it belongs to.
LEMMA OnlineStep ==
    ASSUME TypeOK, OnlineIsServed, [Next]_vars
    PROVE  OnlineIsServed'
<1> USE ServerAssumption DEF TypeOK, OnlineIsServed, Threads, Indices
<1>1. ASSUME NEW bound \in 0..NumSockets, StartServer(bound) PROVE OnlineIsServed'
  BY <1>1 DEF StartServer, CanBind, sockets, flags, accepting, records, broadcast
<1>2. ASSUME StopRequested PROVE OnlineIsServed'
  BY <1>2 DEF StopRequested, sockets, flags, accepting, records, broadcast
<1>3. ASSUME StopDeletes PROVE OnlineIsServed'
  BY <1>3 DEF StopDeletes, Shift, sockets, flags, accepting, records, broadcast
<1>4. ASSUME StopClears PROVE OnlineIsServed'
  BY <1>4 DEF StopClears, Shift, sockets, flags, accepting, records, broadcast
<1>5. ASSUME NEW t \in Threads, Select(t) PROVE OnlineIsServed'
  BY <1>5, SMTT(30) DEF Select, Go, sockets, flags, accepting, records, broadcast
<1>6. ASSUME NEW t \in Threads, ConnectionLoop(t) PROVE OnlineIsServed'
  BY <1>6, SMTT(30) DEF ConnectionLoop, Go, sockets, flags, accepting, records, broadcast
<1>7. ASSUME NEW t \in Threads, Listen(t) PROVE OnlineIsServed'
  BY <1>7, SMTT(30) DEF Listen, Go, sockets, flags, accepting, records, broadcast
<1>8. ASSUME NEW t \in Threads, ListenFails(t) PROVE OnlineIsServed'
  BY <1>8 DEF ListenFails, Go, sockets, flags, accepting, records, broadcast
<1>9. ASSUME NEW t \in Threads, AcceptFails(t) PROVE OnlineIsServed'
  BY <1>9 DEF AcceptFails, NoSocket, Go, sockets, flags, accepting, records, broadcast
<1>10. ASSUME NEW t \in Threads, AcceptsInvalid(t) PROVE OnlineIsServed'
  BY <1>10, SMTT(30) DEF AcceptsInvalid, NoSocket, Register, Go, sockets, flags, accepting, records, broadcast
<1>11. ASSUME NEW t \in Threads, NEW c \in Clients, Accept(t, c) PROVE OnlineIsServed'
  BY <1>11, SMTT(30) DEF Accept, Register, Go, sockets, flags, accepting, records, broadcast
<1>12. ASSUME NEW t \in Threads, SpawnListener(t) PROVE OnlineIsServed'
  BY <1>12, SMTT(30) DEF SpawnListener, Go, sockets, flags, accepting, records, broadcast
<1>13. ASSUME NEW t \in Threads, PushClient(t) PROVE OnlineIsServed'
  BY <1>13, SMTT(30) DEF PushClient, Go, sockets, flags, accepting, records, broadcast
<1>14. ASSUME NEW t \in Threads, ConnectionExit(t) PROVE OnlineIsServed'
  BY <1>14 DEF ConnectionExit, Go, sockets, flags, accepting, records, broadcast
<1>15. ASSUME NEW c \in Records, StopReceiving(c) PROVE OnlineIsServed'
  BY <1>15 DEF StopReceiving, GoListener, sockets, flags, accepting, records, broadcast
<1>16. ASSUME NEW c \in Records, DeleteOwn(c) PROVE OnlineIsServed'
  BY <1>16 DEF DeleteOwn, GoListener, Shift, sockets, flags, accepting, records, broadcast
<1>17. ASSUME NEW c \in Records, EraseOwn(c) PROVE OnlineIsServed'
  BY <1>17 DEF EraseOwn, GoListener, Shift, sockets, flags, accepting, records, broadcast
<1>18. ASSUME DeviceListChanged PROVE OnlineIsServed'
  BY <1>18 DEF DeviceListChanged, sockets, flags, accepting, records, broadcast
<1>19. ASSUME TellNext PROVE OnlineIsServed'
  BY <1>19 DEF TellNext, sockets, flags, accepting, records, broadcast
<1>20. ASSUME ToldAll PROVE OnlineIsServed'
  BY <1>20 DEF ToldAll, sockets, flags, accepting, records, broadcast
<1>21. ASSUME UNCHANGED vars PROVE OnlineIsServed'
  BY <1>21 DEF vars, sockets, flags, accepting, records, broadcast
<1>22. QED
  BY <1>1, <1>2, <1>3, <1>4, <1>5, <1>6, <1>7, <1>8, <1>9, <1>10, <1>11, <1>12, <1>13, <1>14, <1>15, <1>16, <1>17, <1>18, <1>19, <1>20, <1>21
  DEF Next, StopServer, ConnectionStep, ListenerStep, ReceiveFails, ClientLost, Tell, Records

\* A connection thread that ends resets server_listening, or ends at listen.
LEMMA ListeningStep ==
    ASSUME TypeOK, ListeningEnds, [Next]_vars
    PROVE  ListeningEnds'
<1> USE ServerAssumption DEF TypeOK, ListeningEnds, Threads, Indices
<1>1. ASSUME NEW bound \in 0..NumSockets, StartServer(bound) PROVE ListeningEnds'
  BY <1>1 DEF StartServer, CanBind, sockets, flags, accepting, records, broadcast
<1>2. ASSUME StopRequested PROVE ListeningEnds'
  BY <1>2 DEF StopRequested, sockets, flags, accepting, records, broadcast
<1>3. ASSUME StopDeletes PROVE ListeningEnds'
  BY <1>3 DEF StopDeletes, Shift, sockets, flags, accepting, records, broadcast
<1>4. ASSUME StopClears PROVE ListeningEnds'
  BY <1>4 DEF StopClears, Shift, sockets, flags, accepting, records, broadcast
<1>5. ASSUME NEW t \in Threads, Select(t) PROVE ListeningEnds'
  BY <1>5 DEF Select, Go, sockets, flags, accepting, records, broadcast
<1>6. ASSUME NEW t \in Threads, ConnectionLoop(t) PROVE ListeningEnds'
  BY <1>6 DEF ConnectionLoop, Go, sockets, flags, accepting, records, broadcast
<1>7. ASSUME NEW t \in Threads, Listen(t) PROVE ListeningEnds'
  BY <1>7 DEF Listen, Go, sockets, flags, accepting, records, broadcast
<1>8. ASSUME NEW t \in Threads, ListenFails(t) PROVE ListeningEnds'
  BY <1>8 DEF ListenFails, Go, sockets, flags, accepting, records, broadcast
<1>9. ASSUME NEW t \in Threads, AcceptFails(t) PROVE ListeningEnds'
  BY <1>9 DEF AcceptFails, NoSocket, Go, sockets, flags, accepting, records, broadcast
<1>10. ASSUME NEW t \in Threads, AcceptsInvalid(t) PROVE ListeningEnds'
  BY <1>10 DEF AcceptsInvalid, NoSocket, Register, Go, sockets, flags, accepting, records, broadcast
<1>11. ASSUME NEW t \in Threads, NEW c \in Clients, Accept(t, c) PROVE ListeningEnds'
  BY <1>11 DEF Accept, Register, Go, sockets, flags, accepting, records, broadcast
<1>12. ASSUME NEW t \in Threads, SpawnListener(t) PROVE ListeningEnds'
  BY <1>12 DEF SpawnListener, Go, sockets, flags, accepting, records, broadcast
<1>13. ASSUME NEW t \in Threads, PushClient(t) PROVE ListeningEnds'
  BY <1>13 DEF PushClient, Go, sockets, flags, accepting, records, broadcast
<1>14. ASSUME NEW t \in Threads, ConnectionExit(t) PROVE ListeningEnds'
  BY <1>14 DEF ConnectionExit, Go, sockets, flags, accepting, records, broadcast
<1>15. ASSUME NEW c \in Records, StopReceiving(c) PROVE ListeningEnds'
  BY <1>15 DEF StopReceiving, GoListener, sockets, flags, accepting, records, broadcast
<1>16. ASSUME NEW c \in Records, DeleteOwn(c) PROVE ListeningEnds'
  BY <1>16 DEF DeleteOwn, GoListener, Shift, sockets, flags, accepting, records, broadcast
<1>17. ASSUME NEW c \in Records, EraseOwn(c) PROVE ListeningEnds'
  BY <1>17 DEF EraseOwn, GoListener, Shift, sockets, flags, accepting, records, broadcast
<1>18. ASSUME DeviceListChanged PROVE ListeningEnds'
  BY <1>18 DEF DeviceListChanged, sockets, flags, accepting, records, broadcast
<1>19. ASSUME TellNext PROVE ListeningEnds'
  BY <1>19 DEF TellNext, sockets, flags, accepting, records, broadcast
<1>20. ASSUME ToldAll PROVE ListeningEnds'
  BY <1>20 DEF ToldAll, sockets, flags, accepting, records, broadcast
<1>21. ASSUME UNCHANGED vars PROVE ListeningEnds'
  BY <1>21 DEF vars, sockets, flags, accepting, records, broadcast
<1>22. QED
  BY <1>1, <1>2, <1>3, <1>4, <1>5, <1>6, <1>7, <1>8, <1>9, <1>10, <1>11, <1>12, <1>13, <1>14, <1>15, <1>16, <1>17, <1>18, <1>19, <1>20, <1>21
  DEF Next, StopServer, ConnectionStep, ListenerStep, ReceiveFails, ClientLost, Tell, Records

\* A removal during a broadcast sets shifted; without one the list only grew.
LEMMA ToldStep ==
    ASSUME IInv, Inside, ToldUnlessShifted, [Next]_vars
    PROVE  (Inside /\ ToldUnlessShifted)'
<1> USE ServerAssumption DEF IInv, TypeOK, Inside, ToldUnlessShifted
<1>1. ASSUME NEW bound \in 0..NumSockets, StartServer(bound) PROVE (Inside /\ ToldUnlessShifted)'
  BY <1>1 DEF StartServer, CanBind, sockets, flags, accepting, records, broadcast
<1>2. ASSUME StopRequested PROVE (Inside /\ ToldUnlessShifted)'
  BY <1>2 DEF StopRequested, sockets, flags, accepting, records, broadcast
<1>3. ASSUME StopDeletes PROVE (Inside /\ ToldUnlessShifted)'
  <2>1. (next > 0 => shifted') /\ next' = next
    BY <1>3 DEF StopDeletes, Shift
  <2>2. UNCHANGED ServerClients \/ next > 0 \/ next = 0
    OBVIOUS
  <2>3. QED
    BY <2>1
<1>4. ASSUME StopClears PROVE (Inside /\ ToldUnlessShifted)'
  <2>1. (next > 0 => shifted') /\ next' = next
    BY <1>4 DEF StopClears, Shift
  <2>2. UNCHANGED ServerClients \/ next > 0 \/ next = 0
    OBVIOUS
  <2>3. QED
    BY <2>1
<1>5. ASSUME NEW t \in Threads, Select(t) PROVE (Inside /\ ToldUnlessShifted)'
  BY <1>5 DEF Select, Go, sockets, flags, accepting, records, broadcast
<1>6. ASSUME NEW t \in Threads, ConnectionLoop(t) PROVE (Inside /\ ToldUnlessShifted)'
  BY <1>6 DEF ConnectionLoop, Go, sockets, flags, accepting, records, broadcast
<1>7. ASSUME NEW t \in Threads, Listen(t) PROVE (Inside /\ ToldUnlessShifted)'
  BY <1>7 DEF Listen, Go, sockets, flags, accepting, records, broadcast
<1>8. ASSUME NEW t \in Threads, ListenFails(t) PROVE (Inside /\ ToldUnlessShifted)'
  BY <1>8 DEF ListenFails, Go, sockets, flags, accepting, records, broadcast
<1>9. ASSUME NEW t \in Threads, AcceptFails(t) PROVE (Inside /\ ToldUnlessShifted)'
  BY <1>9 DEF AcceptFails, NoSocket, Go, sockets, flags, accepting, records, broadcast
<1>10. ASSUME NEW t \in Threads, AcceptsInvalid(t) PROVE (Inside /\ ToldUnlessShifted)'
  BY <1>10 DEF AcceptsInvalid, NoSocket, Register, Go, sockets, flags, accepting, records, broadcast
<1>11. ASSUME NEW t \in Threads, NEW c \in Clients, Accept(t, c) PROVE (Inside /\ ToldUnlessShifted)'
  BY <1>11 DEF Accept, Register, Go, sockets, flags, accepting, records, broadcast
<1>12. ASSUME NEW t \in Threads, SpawnListener(t) PROVE (Inside /\ ToldUnlessShifted)'
  BY <1>12 DEF SpawnListener, Go, sockets, flags, accepting, records, broadcast
<1>13. ASSUME NEW t \in Threads, PushClient(t) PROVE (Inside /\ ToldUnlessShifted)'
  BY <1>13 DEF PushClient, Go, sockets, flags, accepting, records, broadcast
<1>14. ASSUME NEW t \in Threads, ConnectionExit(t) PROVE (Inside /\ ToldUnlessShifted)'
  BY <1>14 DEF ConnectionExit, Go, sockets, flags, accepting, records, broadcast
<1>15. ASSUME NEW c \in Records, StopReceiving(c) PROVE (Inside /\ ToldUnlessShifted)'
  BY <1>15 DEF StopReceiving, GoListener, sockets, flags, accepting, records, broadcast
<1>16. ASSUME NEW c \in Records, DeleteOwn(c) PROVE (Inside /\ ToldUnlessShifted)'
  <2>1. CASE c \in Listed
    <3>1. (next > 0 => shifted') /\ next' = next
      BY <1>16, <2>1 DEF DeleteOwn, Shift
    <3>2. QED
      BY <3>1
  <2>2. CASE c \notin Listed
    BY <1>16, <2>2 DEF DeleteOwn
  <2>3. QED
    BY <2>1, <2>2
<1>17. ASSUME NEW c \in Records, EraseOwn(c) PROVE (Inside /\ ToldUnlessShifted)'
  <2>1. (next > 0 => shifted') /\ next' = next
    BY <1>17 DEF EraseOwn, Shift
  <2>2. UNCHANGED ServerClients \/ next > 0 \/ next = 0
    OBVIOUS
  <2>3. QED
    BY <2>1
<1>18. ASSUME DeviceListChanged PROVE (Inside /\ ToldUnlessShifted)'
  BY <1>18 DEF DeviceListChanged, sockets, flags, accepting, records, broadcast
<1>19. ASSUME TellNext PROVE (Inside /\ ToldUnlessShifted)'
  BY <1>19 DEF TellNext, sockets, flags, accepting, records, broadcast
<1>20. ASSUME ToldAll PROVE (Inside /\ ToldUnlessShifted)'
  BY <1>20 DEF ToldAll, sockets, flags, accepting, records, broadcast
<1>21. ASSUME UNCHANGED vars PROVE (Inside /\ ToldUnlessShifted)'
  BY <1>21 DEF vars, sockets, flags, accepting, records, broadcast
<1>22. QED
  BY <1>1, <1>2, <1>3, <1>4, <1>5, <1>6, <1>7, <1>8, <1>9, <1>10, <1>11, <1>12, <1>13, <1>14, <1>15, <1>16, <1>17, <1>18, <1>19, <1>20, <1>21
  DEF Next, StopServer, ConnectionStep, ListenerStep, ReceiveFails, ClientLost, Tell, Records

-----------------------------------------------------------------------------
\* IInv is inductive.
LEMMA Inductive == IInv /\ [Next]_vars => IInv'
<1> SUFFICES ASSUME IInv, [Next]_vars PROVE IInv'
  OBVIOUS
<1>1. TypeOK'
  BY FlagsStep, TypeStep DEF IInv
<1>2. QED
  BY <1>1, UnstartedStep, OneHolderStep, PreparingStep, ListingStep, OwnedStep DEF IInv

\* Nothing exists in the initial state, and IInv is inductive.
LEMMA Invariance == Spec => []IInv
<1>1. Init => IInv
  <2> SUFFICES ASSUME Init PROVE IInv
    OBVIOUS
  <2> USE ServerAssumption DEF Init
  <2>1. TypeOK
    <3>1. windows \in BOOLEAN /\ server_online \in BOOLEAN /\ server_listening \in BOOLEAN
      OBVIOUS
    <3>2. shifted \in BOOLEAN
      OBVIOUS
    <3>3. QED
      BY <3>1, <3>2 DEF TypeOK, ConnectionLabels, ListenLabels
  <2>2. Unstarted
    BY DEF Unstarted
  <2>3. OneHolder
    BY DEF OneHolder
  <2>4. Preparing
    BY DEF Preparing
  <2>5. Listing
    BY Cleared DEF Listing, Listed
  <2>6. Owned
    BY DEF Owned
  <2>7. QED
    BY <2>1, <2>2, <2>3, <2>4, <2>5, <2>6 DEF IInv
<1>2. QED
  BY <1>1, Inductive, PTL DEF Spec

\* Every variable of the server keeps its type, whatever the order of the threads.
THEOREM TypeCorrect == Spec => []TypeOK
<1>1. IInv => TypeOK
  BY DEF IInv
<1>2. QED
  BY <1>1, Invariance, PTL

\* RecordsSound holds in every reachable state: ServerClients (NetworkServer.cpp:480) has
\* every client once and no deleted record when its mutex is free, and no listener loses
\* its record but to StopServer.
THEOREM RecordsAreSound == Spec => []RecordsSound
<1>1. IInv => RecordsSound
  <2> SUFFICES ASSUME IInv PROVE RecordsSound
    OBVIOUS
  <2>1. Listed \subseteq Records
    BY DEF IInv, TypeOK, Listed, ToSet
  <2>2. ServerClientsMutexFree => Listed \subseteq live
    BY <2>1 DEF IInv, Listing, ServerClientsMutexFree
  <2>3. QED
    BY <2>1, <2>2 DEF IInv, RecordsSound, Listing, Owned
<1>2. QED
  BY <1>1, Invariance, PTL

\* OnlineIsServed holds in every reachable state: whatever threads of earlier starts do to
\* the flags (NetworkServer.cpp:418), an online server has all its connection threads.
THEOREM OnlineServed == Spec => []OnlineIsServed
<1>1. Init => OnlineIsServed
  BY DEF Init, OnlineIsServed
<1>2. TypeOK /\ OnlineIsServed /\ [Next]_vars => OnlineIsServed'
  BY OnlineStep
<1>3. QED
  BY <1>1, <1>2, TypeCorrect, PTL DEF Spec

\* ListeningEnds holds in every reachable state: when all connection threads have ended
\* server_listening was reset, unless the last of them ended at listen
\* (NetworkServer.cpp:418), for any number of sockets and restarts.
THEOREM ListeningEnded == Spec => []ListeningEnds
<1>1. Init => ListeningEnds
  BY DEF Init, ListeningEnds
<1>2. TypeOK /\ ListeningEnds /\ [Next]_vars => ListeningEnds'
  BY ListeningStep
<1>3. QED
  BY <1>1, <1>2, TypeCorrect, PTL DEF Spec

\* ToldUnlessShifted holds in every reachable state: a broadcast (NetworkServer.cpp:105)
\* that no removal disturbs misses no client it has passed, although clients join meanwhile.
THEOREM EveryoneTold == Spec => []ToldUnlessShifted
<1>1. Init => Inside /\ ToldUnlessShifted
  BY DEF Init, Inside, ToldUnlessShifted
<1>2. IInv /\ Inside /\ ToldUnlessShifted /\ [Next]_vars => (Inside /\ ToldUnlessShifted)'
  BY ToldStep
<1>3. QED
  BY <1>1, <1>2, Invariance, PTL DEF Spec

=============================================================================
