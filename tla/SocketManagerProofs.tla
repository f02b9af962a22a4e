------------------------- MODULE SocketManagerProofs -------------------------
(***************************************************************************)
(* What SocketManager promises of sockets and wake-ups holds for every     *)
(* value of its constants: any ports, any number of addresses, events and  *)
(* bytes.                                                                  *)
(***************************************************************************)
EXTENDS SocketManager, FiniteSetTheorems, TLAPS

\* The part of the state the invariants are about.
Sorted ==
    /\ connected \in BOOLEAN /\ notified \in BOOLEAN
    /\ posted \in Nat /\ futile \in Nat
    /\ pc \in {"check", "config", "resolve", "create"}
              \cup Starting \cup Waiting \cup Connecting \cup Relaying

\* The attempt that a pending notification will cost is not made yet.
Unpaid == notified => futile = 0

Sockets == NoLeak /\ RelayBlocks
WakeUps == NoLostWakeUp /\ OneFutileAttempt /\ Unpaid

IInv == Sorted /\ Sockets /\ WakeUps

-----------------------------------------------------------------------------
\* The invariant holds when the device starts.
LEMMA InitIInv == Init => IInv
  <1>1. Init => Sorted
    <2>1. Init => posted \in Nat /\ futile \in Nat
      BY DEF Init
    <2>2. Init => connected \in BOOLEAN /\ notified \in BOOLEAN
      BY DEF Init
    <2> QED BY <2>1, <2>2 DEF Init, Sorted, Starting
  <1>2. Init => Sockets
    BY DEF Init, Sockets, NoLeak, RelayBlocks, Connecting, Relaying
  <1>3. Init => WakeUps
    BY DEF Init, WakeUps, Unpaid, NoLostWakeUp, OneFutileAttempt, Waiting
  <1> QED BY <1>1, <1>2, <1>3 DEF IInv

\* It says nothing of the other variables.
LEMMA Apart ==
  ASSUME IInv, UNCHANGED <<networkVars, pc, socketVars, futile>>
  PROVE  IInv'
  BY DEF IInv, Sorted, Sockets, WakeUps, Unpaid, NoLeak, RelayBlocks,
         NoLostWakeUp, OneFutileAttempt, networkVars, socketVars

\* What changes neither network nor count, and does not begin a wait, keeps the
\* wake-ups in order.
LEMMA WakeUpsKept ==
  ASSUME IInv, UNCHANGED <<networkVars, futile>>,
         pc' \in {"check", "config", "resolve", "create"}
                 \cup Starting \cup Connecting \cup Relaying
  PROVE  Sorted' /\ WakeUps'
  BY DEF IInv, Sorted, WakeUps, Unpaid, NoLostWakeUp, OneFutileAttempt,
         networkVars, Starting, Waiting, Connecting, Relaying

\* What leaves the socket alone and stays on one side of having one keeps the
\* sockets in order.
LEMMA SocketsKept ==
  ASSUME IInv, UNCHANGED socketVars,
         pc' \in Connecting \cup Relaying <=> pc \in Connecting \cup Relaying,
         pc' \in Relaying => pc \in Relaying
  PROVE  Sockets'
  BY DEF IInv, Sockets, NoLeak, RelayBlocks, socketVars

-----------------------------------------------------------------------------
\* Every step keeps the invariant.
LEMMA NextIInv == IInv /\ [Next]_vars => IInv'
  <1> SUFFICES ASSUME IInv, [Next]_vars PROVE IInv'
    OBVIOUS
  <1>1. CASE NetworkUp
    <2>1. Sorted' /\ WakeUps'
      BY <1>1 DEF NetworkUp, IInv, Sorted, WakeUps, Unpaid, NoLostWakeUp,
         OneFutileAttempt, networkVars, Starting, Waiting, Connecting,
         Relaying
    <2>2. Sockets'
      BY <1>1, SocketsKept DEF NetworkUp
    <2> QED BY <2>1, <2>2 DEF IInv
  <1>2. CASE NetworkDown
    <2>1. Sorted' /\ WakeUps'
      BY <1>2 DEF NetworkDown, IInv, Sorted, WakeUps, Unpaid, NoLostWakeUp,
         OneFutileAttempt, networkVars, Starting, Waiting, Connecting,
         Relaying
    <2>2. Sockets'
      BY <1>2, SocketsKept DEF NetworkDown
    <2> QED BY <2>1, <2>2 DEF IInv
  <1>3. CASE OnNetworkConnect
    <2>1. Sorted' /\ WakeUps'
      <3>1. posted' \in Nat /\ futile' = 0 /\ connected' = connected /\ pc' = pc
        BY <1>3 DEF OnNetworkConnect, IInv, Sorted
      <3>2. CASE pc = "boot"
        <4>1. notified' = notified
          BY <3>2, <1>3 DEF OnNetworkConnect
        <4> QED BY <3>1, <3>2, <4>1 DEF IInv, Sorted, WakeUps, Unpaid,
           NoLostWakeUp, OneFutileAttempt, Waiting
      <3>3. CASE pc # "boot"
        <4>1. notified' = TRUE
          BY <3>3, <1>3 DEF OnNetworkConnect, Pending
        <4> QED BY <3>1, <4>1 DEF IInv, Sorted, WakeUps, Unpaid, NoLostWakeUp,
           OneFutileAttempt
      <3> QED BY <3>2, <3>3
    <2>2. Sockets'
      BY <1>3, SocketsKept DEF OnNetworkConnect, Pending
    <2> QED BY <2>1, <2>2 DEF IInv
  <1>4. CASE Check
    <2>1. Sorted' /\ WakeUps'
      BY <1>4 DEF Check, MayTry, Attempt, IInv, Sorted, WakeUps, Unpaid,
         NoLostWakeUp, OneFutileAttempt, networkVars, Starting, Waiting,
         Connecting, Relaying
    <2>2. Sockets'
      BY <1>4, SocketsKept DEF Check, MayTry, Attempt, Starting, Waiting,
         Connecting, Relaying
    <2> QED BY <2>1, <2>2 DEF IInv
  <1>5. CASE Sleep
    <2>1. Sorted' /\ WakeUps'
      BY <1>5 DEF Sleep, IInv, Sorted, WakeUps, Unpaid, NoLostWakeUp,
         OneFutileAttempt, networkVars, Starting, Waiting, Connecting,
         Relaying
    <2>2. Sockets'
      BY <1>5, SocketsKept DEF Sleep, Starting, Waiting, Connecting, Relaying
    <2> QED BY <2>1, <2>2 DEF IInv
  <1>6. CASE Wake
    <2>1. Sorted' /\ WakeUps'
      <3>1. pc' = "config" /\ notified' = FALSE /\ connected' = connected /\ posted' = posted
        BY <1>6 DEF Wake, Attempt
      <3>2. futile' \in Nat /\ OneFutileAttempt'
        BY <1>6 DEF Wake, Attempt, IInv, Sorted, WakeUps, Unpaid,
           OneFutileAttempt
      <3>3. Sorted'
        BY <3>1, <3>2 DEF IInv, Sorted, Starting, Waiting, Connecting,
           Relaying
      <3>4. NoLostWakeUp'
        BY <3>1 DEF NoLostWakeUp, Starting, Waiting, Connecting, Relaying
      <3>5. Unpaid'
        BY <3>1 DEF Unpaid
      <3> QED BY <3>2, <3>3, <3>4, <3>5 DEF WakeUps
    <2>2. Sockets'
      BY <1>6, SocketsKept DEF Wake, Attempt, Starting, Waiting, Connecting,
         Relaying
    <2> QED BY <2>1, <2>2 DEF IInv
  <1>7. CASE RegisterHandler
    <2>1. Sorted' /\ WakeUps'
      BY <1>7, WakeUpsKept DEF RegisterHandler, Start, Starting, Waiting,
         Connecting, Relaying
    <2>2. Sockets'
      BY <1>7, SocketsKept DEF RegisterHandler, Start, Starting, Waiting,
         Connecting, Relaying
    <2> QED BY <2>1, <2>2 DEF IInv
  <1>8. CASE CreateTask
    <2>1. Sorted' /\ WakeUps'
      BY <1>8, WakeUpsKept DEF CreateTask, Start, Starting, Waiting,
         Connecting, Relaying
    <2>2. Sockets'
      BY <1>8, SocketsKept DEF CreateTask, Start, Starting, Waiting,
         Connecting, Relaying
    <2> QED BY <2>1, <2>2 DEF IInv
  <1>9. CASE ReadConfig
    <2>1. Sorted' /\ WakeUps'
      BY <1>9, WakeUpsKept DEF ReadConfig, Starting, Waiting, Connecting,
         Relaying
    <2>2. Sockets'
      BY <1>9, SocketsKept DEF ReadConfig, Starting, Waiting, Connecting,
         Relaying
    <2> QED BY <2>1, <2>2 DEF IInv
  <1>10. CASE Resolve
    <2>1. Sorted' /\ WakeUps'
      BY <1>10, WakeUpsKept DEF Resolve, GiveUp, Starting, Waiting,
         Connecting, Relaying
    <2>2. Sockets'
      BY <1>10, SocketsKept DEF Resolve, GiveUp, Starting, Waiting,
         Connecting, Relaying
    <2> QED BY <2>1, <2>2 DEF IInv
  <1>11. CASE CreateFails
    <2>1. Sorted' /\ WakeUps'
      BY <1>11, WakeUpsKept DEF CreateFails, NextAddress, GiveUp, Starting,
         Waiting, Connecting, Relaying
    <2>2. Sockets'
      BY <1>11, SocketsKept DEF CreateFails, NextAddress, GiveUp, Starting,
         Waiting, Connecting, Relaying
    <2> QED BY <2>1, <2>2 DEF IInv
  <1>12. CASE Dial
    <2>1. Sorted' /\ WakeUps'
      BY <1>12, WakeUpsKept DEF Dial, Starting, Waiting, Connecting, Relaying
    <2>2. Sockets'
      BY <1>12, SocketsKept DEF Dial, Starting, Waiting, Connecting, Relaying
    <2> QED BY <2>1, <2>2 DEF IInv
  <1>13. CASE Poll
    <2>1. Sorted' /\ WakeUps'
      BY <1>13, WakeUpsKept DEF Poll, Starting, Waiting, Connecting, Relaying
    <2>2. Sockets'
      BY <1>13, SocketsKept DEF Poll, Starting, Waiting, Connecting, Relaying
    <2> QED BY <2>1, <2>2 DEF IInv
  <1>14. CASE Read
    <2>1. Sorted' /\ WakeUps'
      BY <1>14, WakeUpsKept DEF Read, Starting, Waiting, Connecting, Relaying
    <2>2. Sockets'
      BY <1>14, SocketsKept DEF Read, Starting, Waiting, Connecting, Relaying
    <2> QED BY <2>1, <2>2 DEF IInv
  <1>15. CASE ReadFails
    <2>1. Sorted' /\ WakeUps'
      BY <1>15, WakeUpsKept DEF ReadFails, Starting, Waiting, Connecting,
         Relaying
    <2>2. Sockets'
      BY <1>15, SocketsKept DEF ReadFails, Starting, Waiting, Connecting,
         Relaying
    <2> QED BY <2>1, <2>2 DEF IInv
  <1>16. CASE Exchange
    <2>1. Sorted' /\ WakeUps'
      BY <1>16, WakeUpsKept DEF Exchange, Starting, Waiting, Connecting,
         Relaying
    <2>2. Sockets'
      BY <1>16, SocketsKept DEF Exchange, Starting, Waiting, Connecting,
         Relaying
    <2> QED BY <2>1, <2>2 DEF IInv
  <1>17. CASE Write
    <2>1. Sorted' /\ WakeUps'
      BY <1>17, WakeUpsKept DEF Write, Starting, Waiting, Connecting, Relaying
    <2>2. Sockets'
      BY <1>17, SocketsKept DEF Write, Starting, Waiting, Connecting, Relaying
    <2> QED BY <2>1, <2>2 DEF IInv
  <1>18. CASE Create
    <2>1. Sorted' /\ WakeUps'
      BY <1>18, WakeUpsKept DEF Create, Starting, Waiting, Connecting,
         Relaying
    <2>2. Sockets'
      BY <1>18 DEF Create, IInv, Sockets, NoLeak, RelayBlocks, socketVars,
         Starting, Waiting, Connecting, Relaying
    <2> QED BY <2>1, <2>2 DEF IInv
  <1>19. CASE Restore
    <2>1. Sorted' /\ WakeUps'
      BY <1>19, WakeUpsKept DEF Restore, Usable, Dropped, NextAddress, GiveUp,
         Starting, Waiting, Connecting, Relaying
    <2>2. Sockets'
      BY <1>19 DEF Restore, Usable, Dropped, NextAddress, GiveUp, IInv,
         Sockets, NoLeak, RelayBlocks, socketVars, Starting, Waiting,
         Connecting, Relaying
    <2> QED BY <2>1, <2>2 DEF IInv
  <1>20. CASE Close
    <2>1. Sorted' /\ WakeUps'
      BY <1>20, WakeUpsKept DEF Close, Starting, Waiting, Connecting, Relaying
    <2>2. Sockets'
      BY <1>20 DEF Close, IInv, Sockets, NoLeak, RelayBlocks, socketVars,
         Starting, Waiting, Connecting, Relaying
    <2> QED BY <2>1, <2>2 DEF IInv
  <1>21. CASE ServerSends
    BY <1>21, Apart DEF ServerSends
  <1>22. CASE ConnectionEnds
    BY <1>22, Apart DEF ConnectionEnds
  <1>23. CASE SetPort
    BY <1>23, Apart DEF SetPort
  <1>24. CASE UserExchanges
    BY <1>24, Apart DEF UserExchanges
  <1>25. CASE Reset
    <2>1. Sorted' /\ WakeUps'
      <3>1. Sorted'
        BY <1>25 DEF Reset, Sorted, Starting
      <3>2. WakeUps'
        BY <1>25 DEF Reset, WakeUps, Unpaid, NoLostWakeUp, OneFutileAttempt,
           Waiting
      <3> QED BY <3>1, <3>2
    <2>2. Sockets'
      BY <1>25 DEF Reset, IInv, Sockets, NoLeak, RelayBlocks, socketVars,
         Starting, Waiting, Connecting, Relaying
    <2> QED BY <2>1, <2>2 DEF IInv
  <1>26. CASE UNCHANGED vars
    BY <1>26, Apart DEF vars
  <1> QED
    BY <1>1, <1>2, <1>3, <1>4, <1>5, <1>6, <1>7, <1>8, <1>9, <1>10, <1>11,
       <1>12, <1>13, <1>14, <1>15, <1>16, <1>17, <1>18, <1>19, <1>20,
       <1>21, <1>22, <1>23, <1>24, <1>25, <1>26 DEF Next, TaskStep

\* The invariant holds in every reachable state.
THEOREM Invariance == Spec => []IInv
  BY InitIInv, NextIInv, PTL DEF Spec

\* Whatever fails on the way to a connection and on it: exactly the socket that
\* is used is open.
THEOREM NoSocketLeaks == Spec => []NoLeak
  <1>1. IInv => NoLeak
    BY DEF IInv, Sockets
  <1> QED BY <1>1, Invariance, PTL

\* The relay never reads from a socket that does not block.
THEOREM RelayAlwaysBlocks == Spec => []RelayBlocks
  <1>1. IInv => RelayBlocks
    BY DEF IInv, Sockets
  <1> QED BY <1>1, Invariance, PTL

\* The task never sleeps through a connection.
THEOREM NoWakeUpLost == Spec => []NoLostWakeUp
  <1>1. IInv => NoLostWakeUp
    BY DEF IInv, WakeUps
  <1> QED BY <1>1, Invariance, PTL

\* A stale notification costs a single attempt.
THEOREM FutileOnce == Spec => []OneFutileAttempt
  <1>1. IInv => OneFutileAttempt
    BY DEF IInv, WakeUps
  <1> QED BY <1>1, Invariance, PTL

-----------------------------------------------------------------------------
(* The relay.                                                              *)

\* The exchanges of the task among those on the cable, and which of them one is.
Mine(s) == {i \in DOMAIN s : s[i].by = "task"}
Nth(s, i) == Cardinality({j \in Mine(s) : j <= i})
Users(s) == {i \in DOMAIN s : s[i].by = "user"}

\* What went over the cable goes back in the same order.
InOrder ==
    \A i \in Mine(cable) :
        /\ cable[i].byte = Nth(cable, i)
        /\ Nth(cable, i) <= Len(answers) => answers[Nth(cable, i)] = i

\* The server waits for each answer before it sends another byte, so that one
\* byte at most is between any two of the four: sent, read, exchanged, answered.
Lockstep ==
    LET exchanged == Cardinality(Mine(cable))
    IN  /\ received <= asked /\ asked <= Len(answers) + 1
        /\ Len(answers) <= exchanged /\ exchanged <= received
        /\ pc = "read" => exchanged = received
        /\ pc = "exchange" => exchanged + 1 = received /\ rx = received
        /\ pc = "write" => /\ exchanged = received /\ Len(answers) + 1 = exchanged
                           /\ tx \in Mine(cable) /\ Nth(cable, tx) = exchanged
        /\ pc = "close" => exchanged = received

\* There are no bytes but between a connection and its end.
Quiet ==
    /\ pc \notin Relaying =>
          /\ cable = <<>> /\ answers = <<>>
          /\ rx = 0 /\ tx = 0 /\ received = 0
    /\ pc \notin Relaying \cup {"restore"} => conn = "none" /\ asked = 0

Around ==
    /\ posted \in 0 .. MaxEvents
    /\ text \in Texts \cup {NoText}
    /\ errno \in {"ERANGE", "other"}
    /\ port \in 0 .. PortMax
    /\ addresses \in 0 .. MaxAddresses
    /\ success \in BOOLEAN /\ blocking \in BOOLEAN

Exchanges == [by : {"task", "user"}, byte : 0 .. MaxBytes]

OnTheWay ==
    /\ rx \in 0 .. MaxBytes /\ asked \in 0 .. MaxBytes /\ received \in 0 .. MaxBytes
    /\ tx \in 0 .. MaxBytes + MaxTyped
    /\ conn \in {"none", "up", "closed", "vanished"}
    /\ answers \in Seq(1 .. MaxBytes + MaxTyped)
    /\ cable \in Seq(Exchanges)
    /\ Cardinality(Users(cable)) <= MaxTyped

RInv == OnTheWay /\ InOrder /\ Lockstep /\ Quiet

-----------------------------------------------------------------------------
(* Counting on the cable.                                                  *)

LEMMA Counted ==
    ASSUME NEW s \in Seq(Exchanges)
    PROVE  /\ IsFiniteSet(Mine(s)) /\ IsFiniteSet(Users(s))
           /\ Cardinality(Mine(s)) \in Nat /\ Cardinality(Users(s)) \in Nat
           /\ Len(s) = Cardinality(Mine(s)) + Cardinality(Users(s))
  <1>1. DOMAIN s = 1 .. Len(s) /\ Len(s) \in Nat
    OBVIOUS
  <1>2. IsFiniteSet(1 .. Len(s)) /\ Cardinality(1 .. Len(s)) = Len(s)
    BY <1>1, FS_Interval
  <1>3. Mine(s) \in SUBSET (1 .. Len(s)) /\ Users(s) \in SUBSET (1 .. Len(s))
    BY <1>1 DEF Mine, Users
  <1>4. IsFiniteSet(Mine(s)) /\ IsFiniteSet(Users(s))
    BY <1>2, <1>3, FS_Subset
  <1>5. Mine(s) \cup Users(s) = 1 .. Len(s) /\ Mine(s) \cap Users(s) = {}
    <2>1. ASSUME NEW i \in 1 .. Len(s)
          PROVE  s[i].by \in {"task", "user"}
      <3>1. s[i] \in Exchanges
        OBVIOUS
      <3> QED BY <3>1 DEF Exchanges
    <2> QED BY <2>1, <1>1 DEF Mine, Users
  <1>6. /\ Cardinality(Mine(s)) \in Nat /\ Cardinality(Users(s)) \in Nat
        /\ Cardinality(Mine(s) \cup Users(s)) =
             Cardinality(Mine(s)) + Cardinality(Users(s))
               - Cardinality(Mine(s) \cap Users(s))
    BY <1>4, FS_Union, FS_CardinalityType
  <1>7. Cardinality(Mine(s) \cap Users(s)) = 0
    BY <1>5, FS_EmptySet
  <1>8. Cardinality(Mine(s) \cup Users(s)) = Len(s)
    BY <1>2, <1>5
  <1>9. Len(s) = Cardinality(Mine(s)) + Cardinality(Users(s))
    BY <1>6, <1>7, <1>8
  <1> QED BY <1>4, <1>6, <1>9

\* The task's exchanges are numbered from 1 on, and each by another number.
LEMMA Numbered ==
    ASSUME NEW s \in Seq(Exchanges), NEW i \in Mine(s)
    PROVE  /\ Nth(s, i) \in 1 .. Cardinality(Mine(s))
           /\ \A j \in Mine(s) : Nth(s, i) = Cardinality(Mine(s)) => j <= i
  <1> DEFINE upTo == {j \in Mine(s) : j <= i}
  <1>1. IsFiniteSet(Mine(s)) /\ Cardinality(Mine(s)) \in Nat /\ i \in Int
    BY Counted DEF Mine
  <1>2. upTo \in SUBSET Mine(s) /\ i \in upTo
    BY <1>1
  <1>3. /\ IsFiniteSet(upTo) /\ Cardinality(upTo) <= Cardinality(Mine(s))
        /\ Cardinality(Mine(s)) = Cardinality(upTo) => Mine(s) = upTo
    BY <1>1, <1>2, FS_Subset
  <1>4. Cardinality(upTo) \in Nat /\ Cardinality(upTo) # 0
    BY <1>2, <1>3, FS_CardinalityType, FS_EmptySet
  <1>5. Nth(s, i) = Cardinality(upTo)
    BY DEF Nth
  <1> HIDE DEF upTo
  <1>6. Nth(s, i) \in 1 .. Cardinality(Mine(s))
    BY <1>1, <1>3, <1>4, <1>5
  <1>7. Nth(s, i) = Cardinality(Mine(s)) => Mine(s) = upTo
    BY <1>3, <1>5
  <1> QED BY <1>6, <1>7 DEF upTo

LEMMA AppendMine ==
    ASSUME NEW s \in Seq(Exchanges), NEW b \in 0 .. MaxBytes
    PROVE  LET t == Append(s, [by |-> "task", byte |-> b])
               n == Len(s) + 1
           IN  /\ t \in Seq(Exchanges) /\ Users(t) = Users(s)
               /\ Mine(t) = Mine(s) \cup {n} /\ n \notin Mine(s)
               /\ Cardinality(Mine(t)) = Cardinality(Mine(s)) + 1
               /\ \A i \in Mine(s) : t[i] = s[i] /\ Nth(t, i) = Nth(s, i)
               /\ t[n].byte = b /\ Nth(t, n) = Cardinality(Mine(t))
  <1> DEFINE e == [by |-> "task", byte |-> b]
             t == Append(s, e)
             n == Len(s) + 1
  <1>1. /\ e \in Exchanges /\ e.by = "task" /\ e.byte = b
        /\ t \in Seq(Exchanges) /\ Len(s) \in Nat /\ Len(t) = n
        /\ DOMAIN s = 1 .. Len(s) /\ DOMAIN t = 1 .. n
        /\ \A i \in 1 .. Len(s) : t[i] = s[i]
        /\ t[n] = e
    BY DEF Exchanges
  <1> HIDE DEF t, e
  <1>2. Mine(t) = Mine(s) \cup {n} /\ n \notin Mine(s) /\ Users(t) = Users(s)
    BY <1>1 DEF Mine, Users
  <1>3. Cardinality(Mine(t)) = Cardinality(Mine(s)) + 1
    BY <1>2, Counted, FS_AddElement
  <1>4. ASSUME NEW i \in Mine(s)
        PROVE  t[i] = s[i] /\ Nth(t, i) = Nth(s, i)
    <2>1. i \in 1 .. Len(s) /\ ~(n <= i)
      BY <1>1 DEF Mine
    <2>2. {j \in Mine(t) : j <= i} = {j \in Mine(s) : j <= i}
      BY <1>2, <2>1
    <2> QED BY <2>1, <2>2, <1>1 DEF Nth
  <1>5. Nth(t, n) = Cardinality(Mine(t))
    <2>1. \A j \in Mine(t) : j <= n
      BY <1>1 DEF Mine
    <2>2. {j \in Mine(t) : j <= n} = Mine(t)
      BY <2>1
    <2> QED BY <2>2 DEF Nth
  <1> QED BY <1>1, <1>2, <1>3, <1>4, <1>5 DEF t, e

LEMMA AppendUsers ==
    ASSUME NEW s \in Seq(Exchanges), NEW b \in 0 .. MaxBytes
    PROVE  LET t == Append(s, [by |-> "user", byte |-> b])
           IN  /\ t \in Seq(Exchanges) /\ Mine(t) = Mine(s)
               /\ Cardinality(Users(t)) = Cardinality(Users(s)) + 1
               /\ \A i \in Mine(s) : t[i] = s[i] /\ Nth(t, i) = Nth(s, i)
  <1> DEFINE e == [by |-> "user", byte |-> b]
             t == Append(s, e)
             n == Len(s) + 1
  <1>1. /\ e \in Exchanges /\ e.by = "user"
        /\ t \in Seq(Exchanges) /\ Len(s) \in Nat /\ Len(t) = n
        /\ DOMAIN s = 1 .. Len(s) /\ DOMAIN t = 1 .. n
        /\ \A i \in 1 .. Len(s) : t[i] = s[i]
        /\ t[n] = e
    BY DEF Exchanges
  <1> HIDE DEF t, e
  <1>2. Users(t) = Users(s) \cup {n} /\ n \notin Users(s) /\ Mine(t) = Mine(s)
    BY <1>1 DEF Mine, Users
  <1>3. Cardinality(Users(t)) = Cardinality(Users(s)) + 1
    BY <1>2, Counted, FS_AddElement
  <1>4. ASSUME NEW i \in Mine(s)
        PROVE  t[i] = s[i] /\ Nth(t, i) = Nth(s, i)
    BY <1>1, <1>2 DEF Mine, Nth
  <1> QED BY <1>1, <1>2, <1>3, <1>4 DEF t, e

-----------------------------------------------------------------------------
(* What is around the relay.                                               *)

\* Whatever is configured makes a port.
LEMMA PortOfType ==
    ASSUME NEW n \in Int, NEW err
    PROVE  PortOf(n, err) \in 0 .. PortMax
  <1>1. PortMax \in Nat /\ LongMax \in Nat /\ DefaultPort \in 0 .. PortMax
    BY PortAssumption
  <1>2. strtol(n) \in Int
    BY <1>1 DEF strtol, Fits
  <1>3. \A m \in Int : m % (PortMax + 1) \in 0 .. PortMax
    BY <1>1
  <1> QED BY <1>1, <1>2, <1>3 DEF PortOf, uint16

LEMMA AroundKept ==
    ASSUME Around, [Next]_vars
    PROVE  Around'
  <1>1. /\ MaxAddresses \in Nat /\ MaxEvents \in Nat /\ NoPort \in 0 .. PortMax
        /\ NoPort = 0 /\ 0 \in 0 .. MaxEvents /\ 0 \in 0 .. MaxAddresses
    BY PortAssumption, BoundsAssumption DEF NoPort
  <1>2. CASE UNCHANGED <<posted, text, callVars, blocking>>
    BY <1>2 DEF Around, callVars
  <1>3. ASSUME UNCHANGED <<posted, text, blocking>>, GiveUp \/ NextAddress,
               errno' \in {"ERANGE", "other"}
        PROVE  Around'
    <2>1. addresses \in 0 .. MaxAddresses
      BY DEF Around
    <2>2. addresses > 1 => addresses - 1 \in 0 .. MaxAddresses
      BY <1>1, <2>1
    <2>3. addresses' \in 0 .. MaxAddresses /\ port' \in 0 .. PortMax /\ success' \in BOOLEAN
      BY <1>1, <1>3, <2>2 DEF Around, GiveUp, NextAddress
    <2> QED BY <1>3, <2>3 DEF Around
  <1>4. CASE NetworkUp \/ OnNetworkConnect
    <2>1. posted' \in 0 .. MaxEvents
      BY <1>1, <1>4 DEF NetworkUp, OnNetworkConnect, Around
    <2> QED BY <2>1, <1>4 DEF NetworkUp, OnNetworkConnect, Around, callVars, socketVars
  <1>5. CASE ReadConfig
    <2>1. port' \in 0 .. PortMax /\ errno' \in {"ERANGE", "other"}
      BY <1>5, PortOfType, PortAssumption, TextsAssumption
         DEF ReadConfig, Around, errnoAfter
    <2> QED BY <2>1, <1>5 DEF ReadConfig, Around, networkVars, socketVars
  <1>6. CASE Resolve
    <2>1. CASE GiveUp
      BY <2>1, <1>3, <1>6 DEF Resolve, Around, networkVars, socketVars
    <2>2. CASE ~GiveUp
      <3>1. addresses' \in 0 .. MaxAddresses
        BY <1>1, <1>6, <2>2 DEF Resolve
      <3> QED BY <3>1, <1>6, <2>2 DEF Resolve, Around, networkVars, socketVars
    <2> QED BY <2>1, <2>2
  <1>7. CASE CreateFails
    BY <1>3, <1>7 DEF CreateFails, networkVars, socketVars
  <1>8. CASE Create
    BY <1>8 DEF Create, Around, networkVars, callVars
  <1>9. CASE Dial \/ Poll
    BY <1>9 DEF Dial, Poll, Around, networkVars, socketVars
  <1>10. CASE Restore
    <2>1. PICK restored \in BOOLEAN :
            /\ blocking' = restored
            /\ IF Usable(restored)
               THEN port' = NoPort /\ addresses' = 0 /\ UNCHANGED <<errno, success>>
               ELSE /\ errno' = IF restored THEN errno ELSE "other"
                    /\ NextAddress
      BY <1>10 DEF Restore
    <2>2. addresses \in 0 .. MaxAddresses /\ errno' \in {"ERANGE", "other"}
      BY <2>1 DEF Around
    <2>3. addresses > 1 => addresses - 1 \in 0 .. MaxAddresses
      BY <1>1, <2>2
    <2>4. addresses' \in 0 .. MaxAddresses /\ port' \in 0 .. PortMax /\ success' \in BOOLEAN
      BY <2>1, <2>3, <1>1 DEF Around, NextAddress, GiveUp
    <2> QED BY <2>1, <2>2, <2>4, <1>10 DEF Restore, Around, networkVars
  <1>11. CASE ReadFails \/ Write
    BY <1>11 DEF ReadFails, Write, Around, networkVars, socketVars, serverVars
  <1>12. CASE SetPort
    BY <1>12 DEF SetPort, Around, networkVars, callVars, socketVars
  <1>13. CASE Reset
    BY <1>1, <1>13 DEF Reset, Around
  <1>14. CASE \/ NetworkDown \/ RegisterHandler \/ CreateTask \/ Check \/ Sleep \/ Wake
              \/ Read \/ Exchange \/ Close \/ ServerSends \/ ConnectionEnds
              \/ UserExchanges \/ UNCHANGED vars
    BY <1>2, <1>14 DEF NetworkDown, RegisterHandler, CreateTask, Start, Check, Sleep,
       Wake, Read, Exchange, Close, ServerSends, ConnectionEnds, UserExchanges,
       networkVars, socketVars, vars
  <1> QED BY <1>4, <1>5, <1>6, <1>7, <1>8, <1>9, <1>10, <1>11, <1>12, <1>13, <1>14
      DEF Next, TaskStep

-----------------------------------------------------------------------------
(* The steps of the relay.                                                 *)

\* Steps that touch neither the bytes nor the connection, and those between two
\* connections.
LEMMA RelayApart ==
    ASSUME RInv, UNCHANGED <<relayVars, serverVars>>,
           \/ pc' = pc
           \/ {pc, pc'} \cap (Relaying \cup {"restore"}) = {}
    PROVE  RInv'
  <1>1. UNCHANGED <<rx, tx, received, cable, conn, asked, answers>>
    BY DEF relayVars, serverVars
  <1>2. OnTheWay' /\ InOrder'
    BY <1>1 DEF RInv, OnTheWay, InOrder, Users, Mine, Nth
  <1>3. CASE pc' = pc
    BY <1>1, <1>2, <1>3 DEF RInv, Lockstep, Quiet, Mine, Nth
  <1>4. CASE {pc, pc'} \cap (Relaying \cup {"restore"}) = {}
    <2>1. /\ pc \notin Relaying \cup {"restore"} /\ pc' \notin Relaying
          /\ pc' \notin {"restore", "read", "exchange", "write", "close"}
      BY <1>4 DEF Relaying
    <2>2. Lockstep'
      BY <1>1, <2>1 DEF RInv, Lockstep, Mine
    <2>3. Quiet'
      BY <1>1, <2>1 DEF RInv, Quiet
    <2> QED BY <1>2, <2>2, <2>3 DEF RInv
  <1> QED BY <1>3, <1>4

\* Where nothing is on the way.
Empty ==
    /\ cable = <<>> /\ answers = <<>> /\ rx = 0 /\ tx = 0 /\ received = 0 /\ asked = 0
    /\ conn \in {"none", "up"} /\ pc \notin Relaying
    /\ conn = "up" => pc = "restore"

LEMMA EmptyRelay == Empty => RInv
  <1> SUFFICES ASSUME Empty PROVE RInv
    OBVIOUS
  <1> USE DEF Empty
  <1>1. Mine(<<>>) = {} /\ Users(<<>>) = {} /\ Cardinality({}) = 0
    BY FS_EmptySet DEF Mine, Users
  <1>2. 0 \in 0 .. MaxBytes /\ 0 \in 0 .. MaxBytes + MaxTyped /\ 0 <= MaxTyped
    BY BoundsAssumption
  <1>3. OnTheWay
    <2>1. answers \in Seq(1 .. MaxBytes + MaxTyped) /\ cable \in Seq(Exchanges)
      OBVIOUS
    <2>2. Cardinality(Users(cable)) <= MaxTyped
      BY <1>1, <1>2
    <2> QED BY <1>2, <2>1, <2>2 DEF OnTheWay
  <1>4. InOrder
    BY <1>1 DEF InOrder
  <1>5. Lockstep
    BY <1>1 DEF Lockstep, Relaying
  <1>6. Quiet
    BY DEF Quiet
  <1> QED BY <1>3, <1>4, <1>5, <1>6 DEF RInv

LEMMA EmptyRelayNext == Empty' => RInv'
  BY EmptyRelay, PTL

\* A connection is made, given up or used.
LEMMA ConnectionSteps ==
    ASSUME RInv, Dial \/ Poll \/ Restore \/ Close \/ Reset
    PROVE  RInv'
  <1>1. CASE Dial \/ Poll
    <2>1. /\ cable = <<>> /\ answers = <<>> /\ rx = 0 /\ tx = 0 /\ received = 0
          /\ asked = 0 /\ conn = "none"
      BY <1>1 DEF RInv, Quiet, Dial, Poll, Relaying
    <2>2. /\ UNCHANGED <<rx, tx, received, cable, asked, answers>>
          /\ \/ conn' = "up" /\ pc' = "restore"
             \/ conn' = conn /\ pc' \in {"poll", "restore"}
      BY <1>1 DEF Dial, Poll, Accepted, relayVars, serverVars
    <2> QED BY <2>1, <2>2, EmptyRelayNext DEF Empty, Relaying
  <1>2. CASE Restore
    <2>1. /\ cable = <<>> /\ answers = <<>> /\ rx = 0 /\ tx = 0 /\ received = 0
          /\ pc = "restore" /\ UNCHANGED <<rx, tx, received, cable>>
      BY <1>2 DEF RInv, Quiet, Restore, Relaying, relayVars
    <2>2. CASE pc' = "read" /\ UNCHANGED serverVars
      <3>1. UNCHANGED <<rx, tx, received, cable, conn, asked, answers>>
        BY <2>1, <2>2 DEF serverVars
      <3>2. Mine(cable) = {} /\ Cardinality({}) = 0
        BY <2>1, FS_EmptySet DEF Mine
      <3>3. OnTheWay' /\ InOrder'
        BY <3>1 DEF RInv, OnTheWay, InOrder, Users, Mine, Nth
      <3>4. Lockstep'
        BY <2>1, <2>2, <3>1, <3>2 DEF RInv, Lockstep, Mine
      <3>5. Quiet'
        BY <2>2 DEF Quiet, Relaying
      <3> QED BY <3>3, <3>4, <3>5 DEF RInv
    <2>3. CASE pc' \in {"create", "check"} /\ Closed
      BY <2>1, <2>3, EmptyRelayNext DEF Empty, Closed, Relaying
    <2> QED BY <1>2, <2>2, <2>3 DEF Restore, NextAddress, GiveUp
  <1>3. CASE Close
    BY <1>3, EmptyRelayNext DEF Close, Closed, Empty, Relaying
  <1>4. CASE Reset
    BY <1>4, EmptyRelayNext DEF Reset, Closed, Empty, Relaying
  <1> QED BY <1>1, <1>2, <1>3, <1>4

\* The server sends, the connection ends or the task notices.
LEMMA ServerSteps ==
    ASSUME RInv, ServerSends \/ ConnectionEnds \/ Read \/ ReadFails
    PROVE  RInv'
  <1>1. /\ OnTheWay /\ InOrder /\ Lockstep /\ Quiet
        /\ Len(answers) \in Nat /\ Cardinality(Mine(cable)) \in Nat
    BY Counted DEF RInv, OnTheWay
  <1>2. CASE ServerSends
    <2>1. /\ UNCHANGED <<pc, rx, tx, received, cable, conn, answers>>
          /\ asked' = asked + 1 /\ asked < MaxBytes /\ Len(answers) = asked /\ conn = "up"
      BY <1>2 DEF ServerSends, relayVars
    <2>2. asked' \in 0 .. MaxBytes /\ received <= asked' /\ asked' <= Len(answers) + 1
      BY <1>1, <2>1, BoundsAssumption DEF OnTheWay, Lockstep
    <2>3. OnTheWay' /\ InOrder'
      BY <1>1, <2>1, <2>2 DEF OnTheWay, InOrder, Users, Mine, Nth
    <2>4. Lockstep'
      BY <1>1, <2>1, <2>2 DEF Lockstep, Mine, Nth
    <2>5. Quiet'
      BY <1>1, <2>1 DEF Quiet
    <2> QED BY <2>3, <2>4, <2>5 DEF RInv
  <1>3. CASE ConnectionEnds
    <2>1. /\ UNCHANGED <<pc, rx, tx, received, cable, asked, answers>>
          /\ conn # "none" /\ conn' \in {"closed", "vanished"}
      BY <1>3 DEF ConnectionEnds, relayVars
    <2>2. OnTheWay' /\ InOrder' /\ Lockstep'
      BY <1>1, <2>1 DEF OnTheWay, InOrder, Lockstep, Users, Mine, Nth
    <2>3. Quiet'
      BY <1>1, <2>1 DEF Quiet
    <2> QED BY <2>2, <2>3 DEF RInv
  <1>4. CASE Read
    <2>1. /\ pc = "read" /\ pc' = "exchange" /\ received < asked
          /\ received' = received + 1 /\ rx' = received + 1
          /\ UNCHANGED <<tx, cable, conn, asked, answers>>
      BY <1>4 DEF Read, serverVars
    <2>2. received + 1 \in 0 .. MaxBytes /\ received + 1 <= asked
      BY <1>1, <2>1, BoundsAssumption DEF OnTheWay
    <2>3. OnTheWay' /\ InOrder'
      BY <1>1, <2>1, <2>2 DEF OnTheWay, InOrder, Users, Mine, Nth
    <2>4. Lockstep'
      BY <1>1, <2>1, <2>2 DEF Lockstep, Mine
    <2>5. Quiet'
      BY <2>1 DEF Quiet, Relaying
    <2> QED BY <2>3, <2>4, <2>5 DEF RInv
  <1>5. CASE ReadFails
    <2>1. /\ pc = "read" /\ pc' = "close"
          /\ UNCHANGED <<rx, tx, received, cable, conn, asked, answers>>
      BY <1>5 DEF ReadFails, relayVars, serverVars
    <2>2. OnTheWay' /\ InOrder'
      BY <1>1, <2>1 DEF OnTheWay, InOrder, Users, Mine, Nth
    <2>3. Lockstep' /\ Quiet'
      BY <1>1, <2>1 DEF Lockstep, Mine, Quiet, Relaying
    <2> QED BY <2>2, <2>3 DEF RInv
  <1> QED BY <1>2, <1>3, <1>4, <1>5

\* A byte goes over the cable, and the one that came for it goes back.
LEMMA CableSteps ==
    ASSUME RInv, Exchange \/ UserExchanges
    PROVE  RInv'
  <1>1. /\ OnTheWay /\ InOrder /\ Lockstep /\ Quiet /\ cable \in Seq(Exchanges)
        /\ Len(answers) \in Nat /\ Cardinality(Mine(cable)) \in Nat
        /\ Cardinality(Users(cable)) \in Nat
        /\ Len(cable) = Cardinality(Mine(cable)) + Cardinality(Users(cable))
        /\ MaxBytes \in Nat /\ MaxTyped \in Nat
    BY Counted, BoundsAssumption DEF RInv, OnTheWay
  <1>2. CASE Exchange
    <2> DEFINE n == Len(cable) + 1
               m == Cardinality(Mine(cable))
    <2>1. /\ pc = "exchange" /\ pc' = "write" /\ tx' = n
          /\ cable' = Append(cable, [by |-> "task", byte |-> rx])
          /\ UNCHANGED <<rx, received, conn, asked, answers>>
          /\ rx = received /\ m + 1 = received /\ rx \in 0 .. MaxBytes
      BY <1>1, <1>2 DEF Exchange, Swap, serverVars, Lockstep, OnTheWay
    <2>2. /\ cable' \in Seq(Exchanges) /\ Users(cable') = Users(cable)
          /\ Mine(cable') = Mine(cable) \cup {n} /\ n \notin Mine(cable)
          /\ Cardinality(Mine(cable')) = m + 1
          /\ \A i \in Mine(cable) :
                cable'[i] = cable[i] /\ Nth(cable', i) = Nth(cable, i)
          /\ cable'[n].byte = rx /\ Nth(cable', n) = m + 1
      <3> DEFINE t == Append(cable, [by |-> "task", byte |-> rx])
      <3>1. /\ t \in Seq(Exchanges) /\ Users(t) = Users(cable)
            /\ Mine(t) = Mine(cable) \cup {n} /\ n \notin Mine(cable)
            /\ Cardinality(Mine(t)) = m + 1
            /\ \A i \in Mine(cable) : t[i] = cable[i] /\ Nth(t, i) = Nth(cable, i)
            /\ t[n].byte = rx /\ Nth(t, n) = Cardinality(Mine(t))
        BY <1>1, <2>1, AppendMine
      <3>2. cable' = t
        BY <2>1
      <3> HIDE DEF t
      <3> QED BY <3>1, <3>2
    <2>3. n \in 0 .. MaxBytes + MaxTyped
      <3>1. m + 1 <= MaxBytes /\ Cardinality(Users(cable)) <= MaxTyped
        BY <1>1, <2>1 DEF OnTheWay
      <3> QED BY <3>1, <1>1
    <2>4. Len(answers) = m
      BY <1>1, <2>1 DEF Lockstep, OnTheWay
    <2> HIDE DEF n, m
    <2>5. OnTheWay'
      BY <1>1, <2>1, <2>2, <2>3 DEF OnTheWay
    <2>6. InOrder'
      <3>1. ASSUME NEW i \in Mine(cable')
            PROVE  /\ cable'[i].byte = Nth(cable', i)
                   /\ Nth(cable', i) <= Len(answers') => answers'[Nth(cable', i)] = i
        <4>1. CASE i \in Mine(cable)
          BY <4>1, <1>1, <2>1, <2>2 DEF InOrder
        <4>2. CASE i = n
          <5>1. m \in Nat /\ ~(m + 1 <= Len(answers'))
            BY <1>1, <2>1, <2>4 DEF m
          <5> QED BY <4>2, <5>1, <2>1, <2>2
        <4> QED BY <3>1, <4>1, <4>2, <2>2
      <3> QED BY <3>1 DEF InOrder
    <2>7. Lockstep'
      BY <1>1, <2>1, <2>2, <2>4 DEF Lockstep
    <2>8. Quiet'
      BY <2>1 DEF Quiet, Relaying
    <2> QED BY <2>5, <2>6, <2>7, <2>8 DEF RInv
  <1>3. CASE UserExchanges
    <2>1. /\ pc \in Relaying /\ UNCHANGED <<pc, rx, tx, received, conn, asked, answers>>
          /\ cable' = Append(cable, [by |-> "user", byte |-> 0])
          /\ Cardinality(Users(cable)) < MaxTyped
      BY <1>3 DEF UserExchanges, Swap, serverVars, Users
    <2>2. /\ cable' \in Seq(Exchanges) /\ Mine(cable') = Mine(cable)
          /\ Cardinality(Users(cable')) = Cardinality(Users(cable)) + 1
          /\ \A i \in Mine(cable) :
                cable'[i] = cable[i] /\ Nth(cable', i) = Nth(cable, i)
      <3>1. 0 \in 0 .. MaxBytes
        BY <1>1
      <3> QED BY <3>1, <1>1, <2>1, AppendUsers
    <2>3. OnTheWay'
      BY <1>1, <2>1, <2>2 DEF OnTheWay
    <2>4. InOrder'
      BY <1>1, <2>1, <2>2 DEF InOrder
    <2>5. Lockstep'
      BY <1>1, <2>1, <2>2 DEF Lockstep
    <2>6. Quiet'
      BY <2>1 DEF Quiet, Relaying
    <2> QED BY <2>3, <2>4, <2>5, <2>6 DEF RInv
  <1> QED BY <1>2, <1>3

LEMMA WriteSteps ==
    ASSUME RInv, Write
    PROVE  RInv'
  <1> DEFINE m == Cardinality(Mine(cable))
  <1>1. /\ OnTheWay /\ InOrder /\ Lockstep /\ cable \in Seq(Exchanges)
        /\ Len(answers) \in Nat /\ m \in Nat
        /\ MaxBytes \in Nat /\ MaxTyped \in Nat
    BY Counted, BoundsAssumption DEF RInv, OnTheWay
  <1>2. /\ pc = "write" /\ pc' \in {"read", "close"} /\ rx' = 0 /\ tx' = 0
        /\ UNCHANGED <<received, cable, asked, conn>>
        /\ m = received /\ Len(answers) + 1 = m /\ tx \in Mine(cable)
        /\ Nth(cable, tx) = m
        /\ answers' = Append(answers, tx) \/ answers' = answers
    BY <1>1 DEF Write, Lockstep, serverVars
  <1>3. tx \in 1 .. MaxBytes + MaxTyped
    BY <1>1, <1>2 DEF OnTheWay, Mine
  <1>4. \A i \in Mine(cable) : Nth(cable, i) \in 1 .. m /\ (Nth(cable, i) = m => i = tx)
    <2>1. \A i \in Mine(cable) : i \in Int
      BY <1>1 DEF Mine
    <2> QED BY <2>1, <1>1, <1>2, Numbered
  <1> HIDE DEF m
  <1>5. /\ answers' \in Seq(1 .. MaxBytes + MaxTyped)
        /\ Len(answers') \in {Len(answers), Len(answers) + 1}
        /\ \A k \in 1 .. Len(answers) : answers'[k] = answers[k]
        /\ Len(answers') = Len(answers) + 1 => answers'[m] = tx
    <2>1. CASE answers' = Append(answers, tx)
      BY <2>1, <1>1, <1>2, <1>3 DEF OnTheWay
    <2>2. CASE answers' = answers
      BY <2>2, <1>1 DEF OnTheWay
    <2> QED BY <1>2, <2>1, <2>2
  <1>6. OnTheWay'
    BY <1>1, <1>2, <1>5 DEF OnTheWay
  <1>7. InOrder'
    <2>1. ASSUME NEW i \in Mine(cable), Nth(cable, i) <= Len(answers')
          PROVE  answers'[Nth(cable, i)] = i
      <3>1. CASE Nth(cable, i) <= Len(answers)
        BY <3>1, <1>1, <1>4, <1>5 DEF InOrder
      <3>2. CASE ~(Nth(cable, i) <= Len(answers))
        <4>1. Nth(cable, i) = m /\ Len(answers') = Len(answers) + 1
          BY <2>1, <3>2, <1>1, <1>2, <1>4, <1>5
        <4> QED BY <4>1, <1>4, <1>5
      <3> QED BY <3>1, <3>2
    <2> QED BY <2>1, <1>1, <1>2 DEF InOrder
  <1>8. Lockstep'
    BY <1>1, <1>2, <1>5 DEF Lockstep, OnTheWay, m
  <1>9. Quiet'
    BY <1>2 DEF Quiet, Relaying
  <1> QED BY <1>6, <1>7, <1>8, <1>9 DEF RInv

-----------------------------------------------------------------------------
LEMMA InitRInv == Init => Around /\ RInv
  <1> SUFFICES ASSUME Init PROVE Around /\ RInv
    OBVIOUS
  <1>1. /\ NoPort \in 0 .. PortMax /\ 0 \in 0 .. MaxEvents /\ 0 \in 0 .. MaxAddresses
    BY PortAssumption, BoundsAssumption DEF NoPort
  <1>2. Around
    BY <1>1 DEF Init, Around
  <1>3. Empty
    BY DEF Init, Empty, Relaying
  <1> QED BY <1>2, <1>3, EmptyRelay

LEMMA NextRInv == RInv /\ [Next]_vars => RInv'
  <1> SUFFICES ASSUME RInv, [Next]_vars PROVE RInv'
    OBVIOUS
  <1>1. CASE NetworkUp \/ NetworkDown \/ OnNetworkConnect \/ SetPort \/ UNCHANGED vars
    BY <1>1, RelayApart DEF NetworkUp, NetworkDown, OnNetworkConnect, SetPort, vars
  <1>2. CASE \/ RegisterHandler \/ CreateTask \/ Check \/ Sleep \/ Wake \/ ReadConfig
             \/ Resolve \/ CreateFails \/ Create
    BY <1>2, RelayApart DEF RegisterHandler, CreateTask, Start, Check, Sleep, Wake,
       Attempt, ReadConfig, Resolve, CreateFails, NextAddress, GiveUp, Create,
       Waiting, Relaying
  <1> QED BY <1>1, <1>2, ConnectionSteps, ServerSteps, CableSteps, WriteSteps
      DEF Next, TaskStep

\* The relay never loses, repeats or reorders a byte of a connection, and it is
\* never more than one behind, however many there are and whatever the user
\* sends in between.
THEOREM RelayInvariance == Spec => [](Around /\ RInv)
  <1>1. Around /\ [Next]_vars => Around'
    BY AroundKept
  <1> QED BY <1>1, InitRInv, NextRInv, PTL DEF Spec

\* Every byte of the server is answered by the byte that came for it.
THEOREM RelayIsExact == Spec => []RelayExact
  <1>1. RInv => RelayExact
    <2> SUFFICES ASSUME RInv PROVE RelayExact
      OBVIOUS
    <2>1. /\ Len(answers) <= Cardinality(Mine(cable))
          /\ Cardinality(Mine(cable)) <= Len(answers) + 1
      <3>1. /\ Len(answers) \in Nat /\ Cardinality(Mine(cable)) \in Nat
            /\ received \in Int /\ asked \in Int
        BY Counted DEF RInv, OnTheWay
      <3> QED BY <3>1 DEF RInv, Lockstep
    <2> QED BY <2>1 DEF RInv, InOrder, Mine, Nth, RelayExact
  <1> QED BY <1>1, RelayInvariance, PTL

\* Every value is one the code can have: any number that is configured makes a
\* port of 16 bits, and no address is tried that was not found.
THEOREM TypesCorrect == Spec => []TypeOK
  <1>1. IInv /\ Around /\ RInv => TypeOK
    <2> SUFFICES ASSUME IInv, Around, RInv PROVE TypeOK
      OBVIOUS
    <2>1. open \in Nat
      BY DEF IInv, Sockets, NoLeak
    <2> QED BY <2>1 DEF IInv, Sorted, Around, RInv, OnTheWay, Exchanges, TypeOK
  <1> QED BY <1>1, Invariance, RelayInvariance, PTL

\* A valid port that is configured is used, unless errno is left over from a
\* number that was out of the range of strtol: then it is the default.  That is
\* all that is wrong with the way the port is read.
PortUsedUnlessStale ==
    pc = "config" /\ pc' = "resolve" /\ text \in 1 .. PortMax =>
        port' = IF errno = "ERANGE" THEN DefaultPort ELSE text

THEOREM PortIsUsed == Spec => [][PortUsedUnlessStale]_vars
  <1>1. IInv /\ [Next]_vars => [PortUsedUnlessStale]_vars
    <2> SUFFICES ASSUME [Next]_vars, pc = "config", pc' = "resolve", text \in 1 .. PortMax
                 PROVE  port' = IF errno = "ERANGE" THEN DefaultPort ELSE text
      BY DEF PortUsedUnlessStale
    <2>1. ReadConfig
      BY DEF Next, NetworkUp, NetworkDown, OnNetworkConnect, RegisterHandler, CreateTask,
         Start, TaskStep, Check, Sleep, Wake, Attempt, Waiting, Resolve, CreateFails,
         Create, Dial, Poll, Restore, Read, ReadFails, Exchange, Write, Close,
         ServerSends, ConnectionEnds, SetPort, UserExchanges, Reset, vars
    <2>2. PortMax \in Nat /\ LongMax \in Nat /\ PortMax < LongMax /\ text \in Int
      BY PortAssumption
    <2>3. text # NoText
      BY <2>2, TextsAssumption
    <2>4. Fits(text) /\ strtol(text) = text
      BY <2>2 DEF Fits, strtol
    <2>5. uint16(text) = text
      BY <2>2 DEF uint16
    <2> QED BY <2>1, <2>2, <2>3, <2>4, <2>5 DEF ReadConfig, PortOf, errnoAfter
  <1> QED BY <1>1, Invariance, PTL DEF Spec
=============================================================================
