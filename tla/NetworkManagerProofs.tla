------------------------ MODULE NetworkManagerProofs ------------------------
(***************************************************************************)
(* What NetworkManager promises of the status, of the network to return to *)
(* and of the user's connections holds for every value of its constants:   *)
(* any networks, attempts, commands, slots of the history and any length   *)
(* of the queue.                                                           *)
(*                                                                         *)
(* The handlers lag behind the driver by what is queued, so the invariant  *)
(* says what the events in the queue still have to tell: the last one that *)
(* is about the link tells what is the case, and once there is none left   *)
(* the same holds of what the handlers have told the manager.              *)
(***************************************************************************)
EXTENDS NetworkManager, FiniteSetTheorems, TLAPS

DriverEvents == {"lost", "left", "got_ip"}

AllEvents == [id : NetworkEvents \cup DriverEvents,
              network : Networks \cup {NoNetwork}]

\* The last element of a queue that is an event of a kind, or that there is none.
LastOf(s, ids, i) ==
    /\ i \in 1 .. Len(s)
    /\ s[i].id \in ids
    /\ \A j \in i + 1 .. Len(s) : s[j].id \notin ids

NoneOf(s, ids) == \A i \in 1 .. Len(s) : s[i].id \notin ids

\* The types, as far as TypeOK does not give them to the provers.
Sorted ==
    /\ TypeOK
    /\ events \in Seq(AllEvents) /\ aps \in Seq(Saved)
    /\ handling = NoEvent \/ handling.id \in NetworkEvents

\* s_wifi_lock is held through the whole of a call, a call that has a network
\* to connect to keeps it, and the manager's calls always have one.
Exclusive == \A p \in Callers : pc[p] \notin {"idle", "lock"} => lock = p

Calls ==
    /\ \A p \in Callers :
          /\ pc[p] \in {"connect", "await"} => goal[p] # NoNetwork
          /\ pc[p] # "done" => attempt[p] < MaxAttempts
    /\ pc[manager] # "idle" => goal[manager] \in Saved

CallInv == Sorted /\ Exclusive /\ Calls

\* Whether the link is up is what the last event about it says, and what
\* wifi_is_connected says if there is none.
LastTells ==
    /\ \A i \in 1 .. Len(events) :
          LastOf(events, DriverEvents, i) =>
              (events[i].id = "got_ip" <=> link = "up")
    /\ NoneOf(events, DriverEvents) => (connected <=> link = "up")

\* Once no event about the link is left, the network the station is on is the
\* one a handler is about to post, or else that of the last CONNECTED in the
\* queue, or else the one the manager remembers.
LastConnected ==
    link = "up" /\ NoneOf(events, DriverEvents) =>
        /\ handling \in {NoEvent, Event("CONNECTED", ap)}
        /\ handling = NoEvent =>
              /\ \A i \in 1 .. Len(events) :
                    LastOf(events, {"CONNECTED"}, i) => events[i].network = ap
              /\ NoneOf(events, {"CONNECTED"}) => prev = ap

\* While the user's connection is there the manager is not in the part of
\* wifi_connect that ends connections.
Respected ==
    granted => link = "up" /\ connected /\ pc[manager] \in {"idle", "lock", "done"}

\* _disconnect waits without a timeout, and never for an event that is not on
\* its way: it has been posted, a handler is about to post it, or what makes a
\* handler do so is in the queue.
Coming ==
    \/ bits \cap Disconnection # {}
    \/ handling.id \in Disconnection
    \/ ~NoneOf(events, {"lost", "left"})

Awaited == \A p \in Callers : pc[p] = "left" => Coming

IInv == CallInv /\ LastTells /\ LastConnected /\ Respected /\ Awaited

-----------------------------------------------------------------------------
(* Queues.                                                                 *)

\* The first element of a queue is taken: the others keep their order.
LEMMA TailElements ==
    ASSUME NEW E, NEW s \in Seq(E), s # <<>>
    PROVE  /\ Tail(s) \in Seq(E)
           /\ Len(s) \in Nat /\ Len(Tail(s)) = Len(s) - 1
           /\ Head(s) = s[1] /\ Head(s) \in E /\ 1 \in 1 .. Len(s)
           /\ \A i \in 1 .. Len(Tail(s)) : Tail(s)[i] = s[i + 1]
  OBVIOUS

LEMMA TailLast ==
    ASSUME NEW E, NEW s \in Seq(E), s # <<>>, NEW ids,
           NEW i \in 1 .. Len(Tail(s)), LastOf(Tail(s), ids, i)
    PROVE  LastOf(s, ids, i + 1) /\ i + 1 \in 1 .. Len(s)
           /\ s[i + 1] = Tail(s)[i]
  <1>1. \A j \in i + 2 .. Len(s) : s[j].id \notin ids
    <2> TAKE j \in i + 2 .. Len(s)
    <2>1. j - 1 \in i + 1 .. Len(Tail(s)) /\ j - 1 \in 1 .. Len(Tail(s))
      BY TailElements
    <2>2. Tail(s)[j - 1] = s[j]
      BY <2>1, TailElements
    <2> QED BY <2>1, <2>2 DEF LastOf
  <1> QED BY <1>1, TailElements DEF LastOf

LEMMA TailNone ==
    ASSUME NEW E, NEW s \in Seq(E), s # <<>>, NEW ids, NoneOf(Tail(s), ids)
    PROVE  /\ Head(s).id \in ids => LastOf(s, ids, 1)
           /\ Head(s).id \notin ids => NoneOf(s, ids)
  <1>1. \A j \in 2 .. Len(s) : s[j].id \notin ids
    <2> TAKE j \in 2 .. Len(s)
    <2>1. j - 1 \in 1 .. Len(Tail(s)) /\ Tail(s)[j - 1] = s[j]
      BY TailElements
    <2> QED BY <2>1 DEF NoneOf
  <1> QED BY <1>1, TailElements DEF LastOf, NoneOf

\* Of the numbers in a set one is the least.
LEMMA Least ==
    ASSUME NEW T \in SUBSET Nat, T # {}
    PROVE  \E n \in T : \A m \in T : n <= m
  <1>1. PICK n \in T : \A m \in T : ~ (<<m, n>> \in OpToRel(<, Nat))
    BY NatLessThanWellFounded, WFMin
  <1>2. \A m \in T : ~ (m < n)
    BY <1>1 DEF OpToRel
  <1> QED BY <1>2

\* There is a last element of a kind if there is one at all: the nearest to the
\* end.
LEMMA SomeLast ==
    ASSUME NEW E, NEW s \in Seq(E), NEW ids, ~NoneOf(s, ids)
    PROVE  \E i \in 1 .. Len(s) : LastOf(s, ids, i)
  <1> DEFINE T == {n \in 0 .. Len(s) - 1 : s[Len(s) - n].id \in ids}
  <1>0. Len(s) \in Nat
    OBVIOUS
  <1>1. PICK k \in 1 .. Len(s) : s[k].id \in ids
    BY DEF NoneOf
  <1>2. Len(s) - k \in T
    BY <1>0, <1>1
  <1>3. PICK n \in T : \A m \in T : n <= m
    <2>1. T \in SUBSET Nat
      <3>1. \A n \in 0 .. Len(s) - 1 : n \in Nat
        BY <1>0
      <3> QED BY <3>1
    <2>2. T # {}
      BY <1>2
    <2> HIDE DEF T
    <2> QED BY <2>1, <2>2, Least
  <1>4. n \in Nat /\ n <= Len(s) - 1 /\ s[Len(s) - n].id \in ids
    BY <1>0, <1>3
  <1>5. \A j \in Len(s) - n + 1 .. Len(s) : s[j].id \notin ids
    <2> SUFFICES ASSUME NEW j \in Len(s) - n + 1 .. Len(s), s[j].id \in ids
                 PROVE  FALSE
      OBVIOUS
    <2>1. /\ Len(s) - j \in 0 .. Len(s) - 1 /\ Len(s) - (Len(s) - j) = j
          /\ Len(s) - j < n
      BY <1>0, <1>4
    <2>2. Len(s) - j \in T
      BY <2>1
    <2> QED BY <2>1, <2>2, <1>3, <1>4, <1>0
  <1>6. Len(s) - n \in 1 .. Len(s)
    BY <1>0, <1>4
  <1> QED BY <1>4, <1>5, <1>6 DEF LastOf

\* An element is added: it is the last of its kind, and no other kind changes.
LEMMA AppendElements ==
    ASSUME NEW E, NEW s \in Seq(E), NEW e \in E
    PROVE  /\ Append(s, e) \in Seq(E)
           /\ Len(s) \in Nat /\ Len(Append(s, e)) = Len(s) + 1
           /\ Append(s, e)[Len(s) + 1] = e
           /\ \A i \in 1 .. Len(s) : Append(s, e)[i] = s[i]
  OBVIOUS

LEMMA AppendHit ==
    ASSUME NEW E, NEW s \in Seq(E), NEW e \in E, NEW ids, e.id \in ids
    PROVE  /\ ~NoneOf(Append(s, e), ids)
           /\ \A i \in 1 .. Len(Append(s, e)) :
                LastOf(Append(s, e), ids, i) => Append(s, e)[i] = e
  BY AppendElements DEF LastOf, NoneOf

LEMMA AppendMiss ==
    ASSUME NEW E, NEW s \in Seq(E), NEW e \in E, NEW ids, e.id \notin ids
    PROVE  /\ NoneOf(Append(s, e), ids) <=> NoneOf(s, ids)
           /\ \A i \in 1 .. Len(Append(s, e)) :
                LastOf(Append(s, e), ids, i) =>
                    /\ i \in 1 .. Len(s) /\ LastOf(s, ids, i)
                    /\ Append(s, e)[i] = s[i]
  <1> DEFINE t == Append(s, e)
  <1>1. /\ Len(s) \in Nat /\ Len(t) = Len(s) + 1 /\ t[Len(s) + 1] = e
        /\ \A i \in 1 .. Len(s) : t[i] = s[i]
    BY AppendElements
  <1> HIDE DEF t
  <1>2. NoneOf(t, ids) <=> NoneOf(s, ids)
    BY <1>1 DEF NoneOf
  <1>3. ASSUME NEW i \in 1 .. Len(t), LastOf(t, ids, i)
        PROVE  i \in 1 .. Len(s) /\ LastOf(s, ids, i) /\ t[i] = s[i]
    BY <1>1, <1>3 DEF LastOf
  <1> QED BY <1>2, <1>3 DEF t

-----------------------------------------------------------------------------
(* What a step is to the Wi-Fi: a handler of the manager's takes an event, *)
(* a call begins, with a saved network if it is the manager's, or returns. *)

Takes(id) ==
    /\ IsNext(id)
    /\ events' = Tail(events)
    /\ prev' = prevSsid(id)
    /\ UNCHANGED <<driverVars, statusVars, callVars>>

Begins(p) ==
    \E network \in Networks \cup {NoNetwork} :
        Begin(p, network) /\ (p = manager => network \in Saved)

LEMMA WifiSteps ==
    ASSUME CallInv, Next
    PROVE  \/ Environment /\ prev' = prev
           \/ \E id \in NetworkEvents : Takes(id)
           \/ \E p \in Callers :
                 \/ Call(p) /\ prev' = prev
                 \/ Begins(p) /\ prev' = prev
                 \/ Return(p) /\ prev' = prev
           \/ UNCHANGED <<wifiVars, prev>>
  <1>1. CASE Seen(Environment)
    BY <1>1 DEF Seen, historyVars
  <1>2. ASSUME NEW id \in NetworkEvents, OnNetworkEvent(id)
        PROVE  Takes(id)
    BY <1>2 DEF OnNetworkEvent, Takes
  <1>3. ASSUME NEW p \in Callers, Seen(Call(p))
        PROVE  Call(p) /\ prev' = prev
    BY <1>3 DEF Seen, historyVars
  <1>4. ASSUME NEW network \in Saved, NEW trying, NEW skipped, prev' = prev,
               TryConnect(network, trying, skipped)
        PROVE  \/ \E p \in Callers : Begins(p) /\ prev' = prev
               \/ UNCHANGED <<wifiVars, prev>>
    BY <1>4, CallersAssumption, SavedAssumption DEF TryConnect, Begins
  <1>5. CASE TaskStep
    <2>1. CASE WakeUp \/ Loop \/ Scan \/ NoMoreNetworks
      BY <2>1 DEF WakeUp, Loop, Scan, NoMoreNetworks, historyVars
    <2>2. CASE TryPrev
      BY <2>2, <1>4 DEF TryPrev
    <2>3. CASE TryNext
      <3>1. Head(aps) \in Saved
        BY <2>3, TailElements DEF TryNext, CallInv, Sorted
      <3> QED BY <2>3, <3>1, <1>4 DEF TryNext
    <2>4. CASE Tried
      BY <2>4, CallersAssumption DEF Tried
    <2> QED BY <1>5, <2>1, <2>2, <2>3, <2>4 DEF TaskStep
  <1>6. CASE BlockExpires
    BY <1>6 DEF BlockExpires
  <1>7. CASE Command
    BY <1>7, CallersAssumption DEF Command, Begins, historyVars
  <1>8. CASE CommandReturns
    BY <1>8, CallersAssumption DEF CommandReturns, historyVars
  <1> QED BY <1>1, <1>2, <1>3, <1>5, <1>6, <1>7, <1>8 DEF Next

-----------------------------------------------------------------------------
(* Types, the lock and the calls.                                          *)

CallTypes ==
    /\ lock \in Callers \cup {Nobody}
    /\ pc \in [Callers -> {"idle", "lock", "clear", "leave", "left",
                           "connect", "await", "done"}]
    /\ goal \in [Callers -> Networks \cup {NoNetwork}]
    /\ attempt \in [Callers -> 0 .. MaxAttempts]
    /\ did \in [Callers -> BOOLEAN]

CallsInOrder == CallTypes /\ Exclusive /\ Calls

\* What the environment and the handlers leave alone.
LEMMA CallsApart ==
    ASSUME CallsInOrder, UNCHANGED callVars
    PROVE  CallsInOrder'
  BY DEF CallsInOrder, CallTypes, Exclusive, Calls, callVars

\* A step of a call that holds the lock, to a place where it still does.
LEMMA HolderMoves ==
    ASSUME CallsInOrder, NEW p \in Callers, NEW l,
           pc[p] \notin {"idle", "lock"}, Goto(p, l),
           l \in {"clear", "leave", "left", "connect", "await", "done"},
           UNCHANGED <<lock, goal>>,
           l \in {"connect", "await"} => goal[p] # NoNetwork,
           attempt' \in [Callers -> 0 .. MaxAttempts],
           \A q \in Callers \ {p} : attempt'[q] = attempt[q],
           l # "done" => attempt'[p] < MaxAttempts,
           did' \in [Callers -> BOOLEAN]
    PROVE  CallsInOrder'
  <1>1. CallTypes'
    BY DEF CallsInOrder, CallTypes, Goto
  <1>2. Exclusive'
    BY DEF CallsInOrder, CallTypes, Exclusive, Goto
  <1>3. Calls'
    BY CallersAssumption DEF CallsInOrder, CallTypes, Calls, Goto
  <1> QED BY <1>1, <1>2, <1>3 DEF CallsInOrder

LEMMA CallSteps ==
    ASSUME CallsInOrder, NEW p \in Callers, Call(p) \/ Begins(p) \/ Return(p)
    PROVE  CallsInOrder'
  <1> USE CallersAssumption, NobodyAssumption, NoNetworkAssumption,
          MaxAttemptsAssumption, SavedAssumption
  <1>0. /\ attempt[p] \in 0 .. MaxAttempts
        /\ attempt \in [Callers -> 0 .. MaxAttempts]
        /\ did \in [Callers -> BOOLEAN]
        /\ pc[p] # "done" => attempt[p] < MaxAttempts
    BY DEF CallsInOrder, CallTypes, Calls
  <1>1. CASE TakeLock(p, ByForce(p))
    <2>1. CallTypes'
      BY <1>1 DEF CallsInOrder, CallTypes, TakeLock, Goto
    <2>2. Exclusive'
      BY <1>1 DEF CallsInOrder, CallTypes, Exclusive, TakeLock, Goto
    <2>3. Calls'
      BY <1>1 DEF CallsInOrder, CallTypes, Calls, TakeLock, Goto
    <2> QED BY <2>1, <2>2, <2>3 DEF CallsInOrder
  <1>2. CASE Clear(p)
    BY <1>2, <1>0, HolderMoves DEF Clear
  <1>3. CASE Leave(p)
    BY <1>3, <1>0, HolderMoves DEF Leave, AfterDisconnect
  <1>4. CASE Left(p)
    BY <1>4, <1>0, HolderMoves DEF Left, AfterDisconnect
  <1>5. CASE Connect(p)
    <2>1. goal[p] # NoNetwork
      BY <1>5 DEF CallsInOrder, Calls, Connect
    <2> QED BY <2>1, <1>5, <1>0, HolderMoves DEF Connect
  <1>6. CASE Await(p)
    <2>1. /\ did' \in [Callers -> BOOLEAN]
          /\ attempt' \in [Callers -> 0 .. MaxAttempts]
          /\ \A q \in Callers \ {p} : attempt'[q] = attempt[q]
          /\ attempt'[p] = attempt[p] + 1
      BY <1>6, <1>0 DEF Await
    <2>2. CASE "CONNECTED" \in bits \/ attempt[p] + 1 = MaxAttempts
      BY <2>1, <2>2, <1>6, <1>0, HolderMoves DEF Await
    <2>3. CASE ~("CONNECTED" \in bits \/ attempt[p] + 1 = MaxAttempts)
      BY <2>1, <2>3, <1>6, <1>0, HolderMoves DEF Await
    <2> QED BY <2>2, <2>3
  <1>7. CASE Begins(p)
    <2> PICK network \in Networks \cup {NoNetwork} :
               Begin(p, network) /\ (p = manager => network \in Saved)
      BY <1>7 DEF Begins
    <2>1. CallTypes'
      BY DEF CallsInOrder, CallTypes, Begin, Goto
    <2>2. Exclusive'
      BY DEF CallsInOrder, CallTypes, Exclusive, Begin, Goto
    <2>3. Calls'
      BY DEF CallsInOrder, CallTypes, Calls, Begin, Goto
    <2> QED BY <2>1, <2>2, <2>3 DEF CallsInOrder
  <1>8. CASE Return(p)
    <2>1. CallTypes'
      BY <1>8 DEF CallsInOrder, CallTypes, Return, Goto
    <2>2. Exclusive'
      BY <1>8 DEF CallsInOrder, CallTypes, Exclusive, Return, Goto
    <2>3. Calls'
      BY <1>8 DEF CallsInOrder, CallTypes, Calls, Return, Goto
    <2> QED BY <2>1, <2>2, <2>3 DEF CallsInOrder
  <1> QED BY <1>1, <1>2, <1>3, <1>4, <1>5, <1>6, <1>7, <1>8 DEF Call, Proceed

StationTypes ==
    /\ link \in {"idle", "connecting", "up"}
    /\ ap \in Networks \cup {NoNetwork}
    /\ (link = "idle") = (ap = NoNetwork)
    /\ Len(events) <= MaxEvents
    /\ events \in Seq(AllEvents)
    /\ handling \in [id : NetworkEvents \cup {"none"},
                     network : Networks \cup {NoNetwork}]
    /\ handling = NoEvent \/ handling.id \in NetworkEvents
    /\ connected \in BOOLEAN
    /\ bits \subseteq NetworkEvents

LEMMA QueueElements ==
    ASSUME NEW E, NEW s \in Seq(E)
    PROVE  \A i \in DOMAIN s : s[i] \in E
  OBVIOUS

LEMMA WifiTypes ==
    StationTypes /\ CallTypes <=>
        /\ WifiTypeOK /\ events \in Seq(AllEvents)
        /\ handling = NoEvent \/ handling.id \in NetworkEvents
  <1>1. events \in Seq(AllEvents) => \A i \in DOMAIN events : events[i] \in AllEvents
    BY QueueElements
  <1> QED BY <1>1 DEF WifiTypeOK, StationTypes, CallTypes, AllEvents, DriverEvents

\* Whoever posts an event leaves the queue within its limit.
LEMMA Posted ==
    ASSUME StationTypes, NEW e \in AllEvents, Len(events) < MaxEvents,
           events' = Append(events, e)
    PROVE  events' \in Seq(AllEvents) /\ Len(events') <= MaxEvents
  <1>1. Len(events) \in Nat
    BY DEF StationTypes
  <1> QED BY <1>1, AppendElements, MaxEventsAssumption DEF StationTypes

LEMMA DriverPosted ==
    ASSUME StationTypes, NEW id \in DriverEvents, DriverPosts(id)
    PROVE  events' \in Seq(AllEvents) /\ Len(events') <= MaxEvents
  <1>1. Event(id, NoNetwork) \in AllEvents
    BY DEF Event, AllEvents
  <1>2. Len(events) < MaxEvents
    BY MaxEventsAssumption DEF StationTypes, DriverPosts
  <1> QED BY <1>1, <1>2, Posted DEF DriverPosts

LEMMA Taken ==
    ASSUME StationTypes, NEW id, IsNext(id), events' = Tail(events)
    PROVE  events' \in Seq(AllEvents) /\ Len(events') <= MaxEvents
  BY TailElements, MaxEventsAssumption DEF StationTypes, IsNext

LEMMA StationSteps ==
    ASSUME CallInv, StationTypes, Next
    PROVE  StationTypes'
  <1> USE NoNetworkAssumption, NobodyAssumption
  <1>1. CASE LinkUp
    <2>1. events' \in Seq(AllEvents) /\ Len(events') <= MaxEvents
      BY <1>1, DriverPosted DEF LinkUp, DriverEvents
    <2> QED BY <2>1, <1>1 DEF LinkUp, StationTypes, statusVars
  <1>2. CASE LinkLost
    <2>1. events' \in Seq(AllEvents) /\ Len(events') <= MaxEvents
      BY <1>2, DriverPosted DEF LinkLost, DriverEvents
    <2> QED BY <2>1, <1>2 DEF LinkLost, StationTypes, statusVars
  <1>3. ASSUME NEW id \in {"left", "lost"}, OnDisconnect(id)
        PROVE  StationTypes'
    <2>1. events' \in Seq(AllEvents) /\ Len(events') <= MaxEvents
      BY <1>3, Taken DEF OnDisconnect
    <2> QED BY <2>1, <1>3 DEF OnDisconnect, statusAfter, StationTypes,
            driverVars, Event, NetworkEvents
  <1>4. CASE OnConnect
    <2>1. events' \in Seq(AllEvents) /\ Len(events') <= MaxEvents
      BY <1>4, Taken DEF OnConnect
    <2>2. CASE link = "up"
      BY <2>1, <2>2, <1>4 DEF OnConnect, StationTypes, driverVars, Event,
         NetworkEvents
    <2>3. CASE link # "up"
      BY <2>1, <2>3, <1>4 DEF OnConnect, StationTypes, driverVars
    <2> QED BY <2>2, <2>3
  <1>5. CASE PostNetworkEvent
    <2>1. handling \in AllEvents /\ handling.id \in NetworkEvents
      BY <1>5 DEF PostNetworkEvent, StationTypes, AllEvents, NoEvent, Event
    <2>2. events' \in Seq(AllEvents) /\ Len(events') <= MaxEvents
      BY <2>1, <1>5, Posted DEF PostNetworkEvent
    <2> QED BY <2>1, <2>2, <1>5 DEF PostNetworkEvent, StationTypes, driverVars,
            NoEvent, Event
  <1>6. ASSUME NEW id \in NetworkEvents, Takes(id)
        PROVE  StationTypes'
    <2>1. events' \in Seq(AllEvents) /\ Len(events') <= MaxEvents
      BY <1>6, Taken DEF Takes
    <2> QED BY <2>1, <1>6 DEF Takes, StationTypes, driverVars, statusVars
  <1>7. ASSUME NEW p \in Callers, Call(p)
        PROVE  StationTypes'
    <2>1. CASE TakeLock(p, ByForce(p))
      BY <2>1 DEF TakeLock, StationTypes, driverVars, statusVars
    <2>2. CASE Clear(p) \/ Left(p) \/ Await(p)
      BY <2>2 DEF Clear, Left, Await, StationTypes, driverVars
    <2>3. CASE Leave(p)
      <3>1. events' \in Seq(AllEvents) /\ Len(events') <= MaxEvents
        BY <2>3, DriverPosted DEF Leave, DriverEvents, StationTypes
      <3> QED BY <3>1, <2>3 DEF Leave, StationTypes, driverVars, statusVars
    <2>4. CASE Connect(p)
      <3>1. goal[p] \in Networks
        BY <2>4 DEF Connect, CallInv, Sorted, TypeOK, WifiTypeOK, Calls
      <3> QED BY <3>1, <2>4 DEF Connect, StationTypes, driverVars
    <2> QED BY <1>7, <2>1, <2>2, <2>3, <2>4 DEF Call, Proceed
  <1>8. ASSUME NEW p \in Callers, Begins(p) \/ Return(p)
        PROVE  StationTypes'
    BY <1>8 DEF Begins, Begin, Return, StationTypes, driverVars, statusVars
  <1>9. CASE UNCHANGED wifiVars
    BY <1>9 DEF wifiVars, driverVars, statusVars, StationTypes
  <1> QED BY <1>1, <1>2, <1>3, <1>4, <1>5, <1>6, <1>7, <1>8, <1>9, WifiSteps
      DEF Environment

-----------------------------------------------------------------------------
(* The types of the manager.                                               *)

ManagerTypes == ManagerTypeOK /\ aps \in Seq(Saved)

\* A list of networks found is one of saved networks.
LEMMA ScanTypes ==
    ASSUME NEW found \in SUBSET Saved, NEW s \in SetToSeqs(found)
    PROVE  s \in Seq(Saved)
  <1>1. Cardinality(found) \in Nat
    BY SavedAssumption, FS_Subset, FS_CardinalityType
  <1>2. s \in [1 .. Cardinality(found) -> found]
    BY DEF SetToSeqs
  <1> QED BY <1>1, <1>2

LEMMA HistoryTypes ==
    ASSUME ManagerTypes, NEW network \in Networks \cup {NoNetwork},
           EnsureInfo(network) \/ Block(network)
    PROVE  /\ used' \in [Slots -> [network : Networks \cup {NoNetwork},
                                   blocked : BOOLEAN]]
           /\ next' \in Slots
  <1>1. used \in [Slots -> [network : Networks \cup {NoNetwork}, blocked : BOOLEAN]]
        /\ next \in Slots
    BY DEF ManagerTypes, ManagerTypeOK
  <1>2. \A b \in BOOLEAN : Info(network, b) \in
             [network : Networks \cup {NoNetwork}, blocked : BOOLEAN]
    BY DEF Info
  <1>3. Blocked(network) \in BOOLEAN
    BY DEF Blocked
  <1>4. NextIndex(network) \in Slots
    <2>1. (next + 1) % HistorySize \in Slots
      BY <1>1, HistorySizeAssumption DEF Slots
    <2> QED BY <2>1, <1>1 DEF NextIndex
  <1> QED BY <1>1, <1>2, <1>3, <1>4 DEF EnsureInfo, Block

LEMMA EmptyQueue ==
    ASSUME NEW E
    PROVE  <<>> \in Seq(E) /\ Len(<<>>) = 0
  OBVIOUS

LEMMA RangeTypes ==
    ASSUME NEW E, NEW s \in Seq(E)
    PROVE  Range(s) \subseteq E
  BY QueueElements DEF Range

LEMMA ManagerSteps ==
    ASSUME CallInv, ManagerTypes, Next
    PROVE  ManagerTypes'
  <1> USE RangeTypes DEF ManagerTypes, ManagerTypeOK
  <1>1. CASE Seen(Environment)
    BY <1>1 DEF Seen, taskVars, historyVars
  <1>2. ASSUME NEW id \in NetworkEvents, OnNetworkEvent(id)
        PROVE  ManagerTypes'
    <2>1. prev' \in Networks \cup {NoNetwork}
      <3>1. Head(events) \in AllEvents
        BY <1>2, TailElements DEF OnNetworkEvent, IsNext, CallInv, Sorted
      <3> QED BY <3>1, <1>2 DEF OnNetworkEvent, prevSsid, AllEvents
    <2> QED BY <2>1, <1>2 DEF OnNetworkEvent, userVars
  <1>3. ASSUME NEW p \in Callers, Seen(Call(p))
        PROVE  ManagerTypes'
    BY <1>3 DEF Seen, taskVars, historyVars
  <1>4. CASE WakeUp
    <2>1. used' \in [Slots -> [network : Networks \cup {NoNetwork},
                               blocked : BOOLEAN]] /\ next' \in Slots
      <3>1. CASE UNCHANGED <<used, next>>
        BY <3>1
      <3>2. CASE Block(prev)
        BY <3>2, HistoryTypes
      <3>3. CASE used' = NoHistory /\ next' = 0
        BY <3>3, HistorySizeAssumption DEF NoHistory, Info, Slots
      <3> QED BY <1>4, <3>1, <3>2, <3>3 DEF WakeUp
    <2>2. task' \in {"wait", "sleep"} /\ pending' = {} /\ UNCHANGED <<aps, prev, userVars>>
      BY <1>4 DEF WakeUp
    <2> QED BY <2>1, <2>2 DEF userVars
  <1>5. CASE Loop \/ NoMoreNetworks
    BY <1>5 DEF Loop, NoMoreNetworks, historyVars, userVars
  <1>6. CASE TryPrev
    <2>1. used' \in [Slots -> [network : Networks \cup {NoNetwork},
                               blocked : BOOLEAN]] /\ next' \in Slots
      BY <1>6, HistoryTypes DEF TryPrev, TryConnect
    <2>2. task' \in {"scan", "tryPrev"} /\ UNCHANGED <<pending, aps, prev, userVars>>
      BY <1>6 DEF TryPrev, TryConnect
    <2> QED BY <2>1, <2>2 DEF userVars
  <1>7. CASE Scan
    <2>1. CASE link = "connecting"
      BY <2>1, <1>7, EmptyQueue DEF Scan, historyVars, userVars
    <2>2. CASE link # "connecting"
      <3>1. PICK found \in SUBSET Saved : aps' \in SetToSeqs(found)
        BY <2>2, <1>7 DEF Scan
      <3>2. aps' \in Seq(Saved)
        BY <3>1, ScanTypes
      <3> QED BY <3>2, <1>7 DEF Scan, historyVars, userVars
    <2> QED BY <2>1, <2>2
  <1>8. CASE TryNext
    <2>1. Head(aps) \in Saved /\ Tail(aps) \in Seq(Saved)
      BY <1>8, TailElements DEF TryNext
    <2>2. used' \in [Slots -> [network : Networks \cup {NoNetwork},
                               blocked : BOOLEAN]] /\ next' \in Slots
      BY <2>1, <1>8, SavedAssumption, HistoryTypes DEF TryNext, TryConnect
    <2>3. task' \in {"auto", "tryNext"} /\ UNCHANGED <<pending, prev, userVars>>
      BY <1>8 DEF TryNext, TryConnect
    <2>4. aps' = Tail(aps)
      BY <1>8 DEF TryNext
    <2> QED BY <2>1, <2>2, <2>3, <2>4 DEF userVars
  <1>9. CASE Tried
    <2>1. goal[manager] \in Networks \cup {NoNetwork}
      BY CallersAssumption DEF CallInv, Sorted, TypeOK, WifiTypeOK
    <2>2. used' \in [Slots -> [network : Networks \cup {NoNetwork},
                               blocked : BOOLEAN]] /\ next' \in Slots
      BY <2>1, <1>9, HistoryTypes DEF Tried
    <2>3. task' \in {"wait", "scan", "auto"} /\ aps' \in {aps, <<>>}
          /\ UNCHANGED <<pending, prev, userVars>>
      BY <1>9 DEF Tried
    <2>4. aps' \in Seq(Saved)
      <3>1. <<>> \in Seq(Saved)
        BY EmptyQueue
      <3> QED BY <2>3, <3>1
    <2> QED BY <2>2, <2>3, <2>4 DEF userVars
  <1>10. CASE BlockExpires
    <2>1. used' \in [Slots -> [network : Networks \cup {NoNetwork},
                               blocked : BOOLEAN]]
      <3>1. PICK s \in Slots : used' = [used EXCEPT ![s].blocked = FALSE]
        BY <1>10 DEF BlockExpires
      <3>2. [used[s] EXCEPT !.blocked = FALSE] \in
               [network : Networks \cup {NoNetwork}, blocked : BOOLEAN]
        OBVIOUS
      <3> QED BY <3>1, <3>2
    <2> QED BY <2>1, <1>10 DEF BlockExpires, taskVars, userVars
  <1>11. CASE Command
    BY <1>11, MaxCommandsAssumption DEF Command, taskVars, historyVars
  <1>12. CASE CommandReturns
    BY <1>12, CallersAssumption DEF CommandReturns, taskVars, historyVars, CallInv, Sorted,
       TypeOK, WifiTypeOK
  <1> QED BY <1>1, <1>2, <1>3, <1>4, <1>5, <1>6, <1>7, <1>8, <1>9, <1>10,
      <1>11, <1>12 DEF Next, TaskStep

-----------------------------------------------------------------------------
LEMMA InitCallInv == Init => CallInv
  <1> SUFFICES ASSUME Init PROVE CallInv
    OBVIOUS
  <1> USE DEF Init, WifiInit
  <1>1. StationTypes
    <2>1. events \in Seq(AllEvents) /\ Len(events) <= MaxEvents
      BY EmptyQueue, MaxEventsAssumption
    <2>2. handling = NoEvent
          /\ handling \in [id : NetworkEvents \cup {"none"},
                           network : Networks \cup {NoNetwork}]
      BY DEF NoEvent, Event
    <2> QED BY <2>1, <2>2 DEF StationTypes
  <1>2. CallTypes
    BY MaxAttemptsAssumption DEF CallTypes
  <1>3. ManagerTypes
    <2>1. aps \in Seq(Saved)
      BY EmptyQueue
    <2>2. Range(aps) \subseteq Saved
      BY <2>1, RangeTypes
    <2>3. used \in [Slots -> [network : Networks \cup {NoNetwork}, blocked : BOOLEAN]]
          /\ next \in Slots
      BY HistorySizeAssumption DEF NoHistory, Info, Slots
    <2> QED BY <2>1, <2>2, <2>3, MaxCommandsAssumption
        DEF ManagerTypes, ManagerTypeOK, NetworkEvents
  <1>4. Exclusive /\ Calls
    BY CallersAssumption, MaxAttemptsAssumption DEF Exclusive, Calls
  <1> QED BY <1>1, <1>2, <1>3, <1>4, WifiTypes
      DEF CallInv, Sorted, TypeOK, ManagerTypes

LEMMA CallInvParts == CallInv <=> StationTypes /\ CallsInOrder /\ ManagerTypes
  BY WifiTypes DEF CallInv, CallsInOrder, Sorted, TypeOK, ManagerTypes

LEMMA NextCallInv ==
    ASSUME CallInv, [Next]_vars
    PROVE  (StationTypes /\ CallsInOrder /\ ManagerTypes)'
  <1>1. StationTypes /\ CallsInOrder /\ ManagerTypes
    BY CallInvParts
  <1>2. CASE Next
    <2>1. CallsInOrder'
      <3>1. CASE UNCHANGED callVars
        BY <3>1, <1>1, CallsApart
      <3>2. CASE \E p \in Callers : Call(p) \/ Begins(p) \/ Return(p)
        BY <3>2, <1>1, CallSteps
      <3> QED BY <3>1, <3>2, <1>2, WifiSteps DEF Environment, LinkUp, LinkLost,
          OnDisconnect, OnConnect, PostNetworkEvent, Takes, wifiVars
    <2> QED BY <2>1, <1>1, <1>2, StationSteps, ManagerSteps
  <1>3. CASE UNCHANGED vars
    BY <1>1, <1>3, CallsApart DEF vars, wifiVars, driverVars, statusVars,
       historyVars, taskVars, userVars, StationTypes, ManagerTypes, ManagerTypeOK
  <1> QED BY <1>2, <1>3

\* All the state is of the types it is meant to have; s_wifi_lock is held by one
\* caller at a time, from the moment a call has it until it returns.
THEOREM CallsCorrect == Spec => []CallInv
  <1>1. CallInv /\ [Next]_vars => (StationTypes /\ CallsInOrder /\ ManagerTypes)'
    BY NextCallInv
  <1> QED BY <1>1, InitCallInv, CallInvParts, PTL DEF Spec

\* The state of the Wi-Fi and of the manager stays within its types.
THEOREM TypesCorrect == Spec => []TypeOK
  <1>1. CallInv => TypeOK
    BY DEF CallInv, Sorted
  <1> QED BY <1>1, CallsCorrect, PTL

-----------------------------------------------------------------------------
(* What the queue tells.                                                   *)

\* A step of the driver or of a handler, or one that tells nothing.
Told == <<link, ap, events, handling, connected, prev>>

Posts(id) ==
    /\ events' = Append(events, Event(id, NoNetwork))
    /\ UNCHANGED <<handling, connected, prev>>

Drives ==
    \/ link' = "up" /\ Posts("got_ip")
    \/ link' # "up" /\ (Posts("lost") \/ Posts("left"))
    \/ link # "up" /\ link' # "up" /\ UNCHANGED <<events, handling, connected, prev>>

Handles ==
    \/ \E id \in {"left", "lost"} : OnDisconnect(id) /\ prev' = prev
    \/ OnConnect /\ prev' = prev
    \/ PostNetworkEvent /\ prev' = prev
    \/ \E id \in NetworkEvents : Takes(id)

LEMMA Tells ==
    ASSUME CallInv, [Next]_vars
    PROVE  Drives \/ Handles \/ UNCHANGED Told
  <1>1. CASE Environment /\ prev' = prev
    BY <1>1 DEF Environment, LinkUp, LinkLost, DriverPosts, statusVars, Drives,
       Posts, Handles
  <1>2. ASSUME NEW p \in Callers, Call(p) /\ prev' = prev
        PROVE  Drives \/ UNCHANGED Told
    <2>1. CASE TakeLock(p, ByForce(p)) \/ Clear(p) \/ Left(p) \/ Await(p)
      BY <2>1, <1>2 DEF TakeLock, Clear, Left, Await, driverVars, statusVars, Told
    <2>2. CASE Leave(p)
      BY <2>2, <1>2 DEF Leave, DriverPosts, driverVars, statusVars, Told, Drives,
         Posts
    <2>3. CASE Connect(p)
      BY <2>3, <1>2 DEF Connect, driverVars, statusVars, Told, Drives
    <2> QED BY <1>2, <2>1, <2>2, <2>3 DEF Call, Proceed
  <1>3. ASSUME NEW p \in Callers, Begins(p) \/ Return(p), prev' = prev
        PROVE  UNCHANGED Told
    BY <1>3 DEF Begins, Begin, Return, driverVars, statusVars, Told
  <1>4. CASE UNCHANGED <<wifiVars, prev>>
    BY <1>4 DEF wifiVars, driverVars, statusVars, Told
  <1>5. CASE UNCHANGED vars
    BY <1>5, <1>4 DEF vars, historyVars
  <1> QED BY <1>1, <1>2, <1>3, <1>4, <1>5, WifiSteps DEF Handles


LEMMA LastTellsKept ==
    ASSUME CallInv, LastTells, [Next]_vars
    PROVE  LastTells'
  <1> DEFINE E == AllEvents
             D == DriverEvents
  <1>0. events \in Seq(E) /\ link \in {"idle", "connecting", "up"}
    BY DEF CallInv, Sorted, TypeOK, WifiTypeOK
  <1>1. ASSUME NEW id \in D, Posts(id), id = "got_ip" <=> link' = "up"
        PROVE  LastTells'
    <2>1. Event(id, NoNetwork) \in E /\ Event(id, NoNetwork).id = id
      BY DEF Event, AllEvents
    <2>2. /\ ~NoneOf(events', D)
          /\ \A i \in 1 .. Len(events') :
               LastOf(events', D, i) => events'[i] = Event(id, NoNetwork)
      BY <1>0, <1>1, <2>1, AppendHit DEF Posts
    <2> QED BY <2>1, <2>2, <1>1 DEF LastTells
  <1>2. CASE Drives
    <2>1. CASE link # "up" /\ link' # "up" /\ UNCHANGED <<events, handling, connected, prev>>
      BY <2>1 DEF LastTells
    <2> QED BY <1>2, <2>1, <1>1 DEF Drives, DriverEvents
  <1>3. ASSUME NEW id, IsNext(id), events' = Tail(events), link' = link,
               id \in D /\ NoneOf(events', D) => (connected' <=> link = "up"),
               id \notin D => connected' = connected
        PROVE  LastTells'
    <2>1. events # <<>> /\ Head(events).id = id
      BY <1>3 DEF IsNext
    <2>2. ASSUME NEW i \in 1 .. Len(events'), LastOf(events', D, i)
          PROVE  events'[i].id = "got_ip" <=> link' = "up"
      BY <2>2, <2>1, <1>0, <1>3, TailLast DEF LastTells
    <2>3. ASSUME NoneOf(events', D)
          PROVE  connected' <=> link' = "up"
      BY <2>3, <2>1, <1>0, <1>3, TailNone DEF LastTells
    <2> QED BY <2>2, <2>3 DEF LastTells
  <1>4. ASSUME IsNext("got_ip"), NoneOf(Tail(events), D)
        PROVE  link = "up"
    BY <1>4, <1>0, TailNone, TailElements DEF IsNext, LastTells, DriverEvents
  <1>5. ASSUME NEW id \in {"left", "lost"}, IsNext(id), NoneOf(Tail(events), D)
        PROVE  link # "up"
    BY <1>5, <1>0, TailNone, TailElements DEF IsNext, LastTells, DriverEvents
  <1>6. ASSUME NEW id \in {"left", "lost"}, OnDisconnect(id)
        PROVE  LastTells'
    BY <1>6, <1>5, <1>3 DEF OnDisconnect, statusAfter, driverVars, DriverEvents
  <1>7. CASE OnConnect
    BY <1>7, <1>4, <1>3 DEF OnConnect, driverVars, DriverEvents
  <1>8. CASE PostNetworkEvent
    <2>1. handling \in E /\ handling.id \notin D
      BY <1>8 DEF PostNetworkEvent, CallInv, Sorted, TypeOK, WifiTypeOK,
         AllEvents, NetworkEvents, DriverEvents
    <2>2. /\ NoneOf(events', D) <=> NoneOf(events, D)
          /\ \A i \in 1 .. Len(events') :
               LastOf(events', D, i) =>
                  /\ i \in 1 .. Len(events) /\ LastOf(events, D, i)
                  /\ events'[i] = events[i]
      BY <1>0, <1>8, <2>1, AppendMiss DEF PostNetworkEvent
    <2> QED BY <1>8, <2>2 DEF PostNetworkEvent, driverVars, LastTells
  <1>9. ASSUME NEW id \in NetworkEvents, Takes(id)
        PROVE  LastTells'
    BY <1>9, <1>3 DEF Takes, driverVars, statusVars, NetworkEvents, DriverEvents
  <1>10. CASE UNCHANGED Told
    BY <1>10 DEF Told, LastTells
  <1> QED BY <1>2, <1>6, <1>7, <1>8, <1>9, <1>10, Tells DEF Handles

LEMMA LastConnectedKept ==
    ASSUME CallInv, LastTells, LastConnected, [Next]_vars
    PROVE  LastConnected'
  <1> DEFINE E == AllEvents
             D == DriverEvents
             C == {"CONNECTED"}
  <1>0. events \in Seq(E) /\ ap \in Networks \cup {NoNetwork}
    BY DEF CallInv, Sorted, TypeOK, WifiTypeOK
  <1>1. ASSUME NEW id \in D, Posts(id)
        PROVE  LastConnected'
    <2>1. Event(id, NoNetwork) \in E /\ Event(id, NoNetwork).id = id
      BY DEF Event, AllEvents
    <2>2. ~NoneOf(events', D)
      BY <1>0, <1>1, <2>1, AppendHit DEF Posts
    <2> QED BY <2>2 DEF LastConnected
  <1>2. CASE Drives
    <2>1. CASE link # "up" /\ link' # "up" /\ UNCHANGED <<events, handling, connected, prev>>
      BY <2>1 DEF LastConnected
    <2> QED BY <1>2, <2>1, <1>1 DEF Drives, DriverEvents
  <1>3. ASSUME NEW id, IsNext(id), events' = Tail(events)
        PROVE  /\ events # <<>> /\ Head(events).id = id /\ handling = NoEvent
               /\ id \notin D /\ NoneOf(events', D) => NoneOf(events, D)
               /\ \A i \in 1 .. Len(events') :
                     LastOf(events', C, i) =>
                        /\ i + 1 \in 1 .. Len(events) /\ LastOf(events, C, i + 1)
                        /\ events[i + 1] = events'[i]
               /\ NoneOf(events', C) =>
                     IF id \in C THEN 1 \in 1 .. Len(events) /\ LastOf(events, C, 1)
                                 ELSE NoneOf(events, C)
    <2>1. events # <<>> /\ Head(events).id = id /\ handling = NoEvent
      BY <1>3 DEF IsNext
    <2> QED BY <2>1, <1>0, <1>3, TailLast, TailNone, TailElements
  <1>4. ASSUME NEW id \in {"left", "lost"}, OnDisconnect(id)
        PROVE  LastConnected'
    <2>1. NoneOf(events', D) => link # "up"
      BY <1>4, <1>0, TailNone, TailElements DEF OnDisconnect, IsNext, LastTells,
         DriverEvents
    <2> QED BY <2>1, <1>4 DEF OnDisconnect, driverVars, LastConnected
  <1>5. CASE OnConnect
    <2>1. link = "up" => handling' = Event("CONNECTED", ap) /\ handling' # NoEvent
      BY <1>5 DEF OnConnect, NoEvent, Event
    <2> QED BY <2>1, <1>5 DEF OnConnect, driverVars, LastConnected
  <1>6. CASE PostNetworkEvent
    <2>1. handling \in E /\ handling.id \notin D
      BY <1>6 DEF PostNetworkEvent, CallInv, Sorted, TypeOK, WifiTypeOK,
         AllEvents, NetworkEvents, DriverEvents
    <2>2. NoneOf(events', D) <=> NoneOf(events, D)
      BY <1>0, <1>6, <2>1, AppendMiss DEF PostNetworkEvent
    <2>3. CASE link = "up" /\ NoneOf(events, D)
      <3>1. handling = Event("CONNECTED", ap) /\ handling.id \in C
        BY <2>3, <1>6 DEF LastConnected, PostNetworkEvent, Event
      <3>2. /\ ~NoneOf(events', C)
            /\ \A i \in 1 .. Len(events') :
                 LastOf(events', C, i) => events'[i] = handling
        BY <3>1, <2>1, <1>0, <1>6, AppendHit DEF PostNetworkEvent
      <3> QED BY <3>1, <3>2, <1>6 DEF LastConnected, PostNetworkEvent, driverVars,
              Event
    <2>4. CASE ~(link = "up" /\ NoneOf(events, D))
      BY <2>2, <2>4, <1>6 DEF LastConnected, PostNetworkEvent, driverVars
    <2> QED BY <2>3, <2>4
  <1>7. ASSUME NEW id \in NetworkEvents, Takes(id)
        PROVE  LastConnected'
    <2>1. id \notin D
      BY DEF NetworkEvents, DriverEvents
    <2>2. /\ IsNext(id) /\ events' = Tail(events) /\ handling' = handling
          /\ link' = link /\ ap' = ap
      BY <1>7 DEF Takes, driverVars, statusVars
    <2>3. CASE link = "up" /\ NoneOf(events', D)
      <3>1. /\ \A i \in 1 .. Len(events) : LastOf(events, C, i) => events[i].network = ap
            /\ NoneOf(events, C) => prev = ap
        BY <2>1, <2>2, <2>3, <1>3 DEF LastConnected
      <3>2. \A i \in 1 .. Len(events') : LastOf(events', C, i) => events'[i].network = ap
        BY <3>1, <2>2, <1>3
      <3>3. NoneOf(events', C) => prev' = ap
        <4>1. CASE id = "CONNECTED"
          <5>1. Head(events) = events[1]
            BY <2>2, <1>0, <1>3, TailElements
          <5>2. prev' = Head(events).network
            BY <4>1, <1>7 DEF Takes, prevSsid
          <5> QED BY <5>1, <5>2, <4>1, <3>1, <2>2, <1>3
        <4>2. CASE id # "CONNECTED"
          <5>1. prev' = prev
            BY <4>2, <1>7 DEF Takes, prevSsid
          <5> QED BY <5>1, <4>2, <3>1, <2>2, <1>3
        <4> QED BY <4>1, <4>2
      <3> QED BY <3>2, <3>3, <2>2, <1>3 DEF LastConnected
    <2>4. CASE ~(link = "up" /\ NoneOf(events', D))
      BY <2>2, <2>4 DEF LastConnected
    <2> QED BY <2>3, <2>4
  <1>8. CASE UNCHANGED Told
    BY <1>8 DEF Told, LastConnected
  <1> QED BY <1>2, <1>4, <1>5, <1>6, <1>7, <1>8, Tells DEF Handles

-----------------------------------------------------------------------------
(* The user's connection.                                                  *)

LEMMA RespectedKept ==
    ASSUME CallInv, Respected, [Next]_vars
    PROVE  Respected'
  <1> USE CallersAssumption
  <1> DEFINE Away == {"idle", "lock", "done"}
  <1>0. pc \in [Callers -> {"idle", "lock", "clear", "leave", "left",
                            "connect", "await", "done"}]
    BY DEF CallInv, Sorted, TypeOK, WifiTypeOK
  <1>1. CASE Seen(Environment)
    <2>1. pc' = pc
      BY <1>1 DEF Seen, Environment, LinkUp, LinkLost, OnDisconnect, OnConnect,
         PostNetworkEvent, callVars
    <2> QED BY <1>1, <2>1 DEF Seen, Respected
  <1>2. CASE \E id \in NetworkEvents : OnNetworkEvent(id)
    BY <1>2 DEF OnNetworkEvent, driverVars, statusVars, callVars, userVars,
       Respected
  <1>3. CASE Seen(Call(user))
    <2>1. pc'[manager] = pc[manager]
      BY <1>3, <1>0 DEF Seen, Call, TakeLock, Proceed, Clear, Leave, Left,
         Connect, Await, Goto
    <2> QED BY <1>3, <2>1 DEF Seen, Respected
  <1>4. CASE Seen(Call(manager))
    <2>1. CASE ~granted
      BY <1>4, <2>1 DEF Seen, Respected
    <2>2. CASE granted
      <3>1. connected /\ pc[manager] \in Away
        BY <2>2 DEF Respected
      <3>2. TakeLock(manager, FALSE)
        BY <3>1, <1>4 DEF Seen, Call, ByForce, Proceed, Clear, Leave, Left,
           Connect, Await
      <3>3. goal[manager] # NoNetwork
        BY <3>2, SavedAssumption, NoNetworkAssumption
           DEF TakeLock, CallInv, Calls
      <3>4. pc'[manager] = "done"
        BY <3>1, <3>2, <3>3, <1>0 DEF TakeLock, MayConnect, Goto
      <3> QED BY <1>4, <3>4 DEF Seen, Respected
    <2> QED BY <2>1, <2>2
  <1>5. CASE TaskStep
    <2>1. UNCHANGED <<link, connected, granted>>
      BY <1>5 DEF TaskStep, WakeUp, Loop, TryPrev, Scan, TryNext, TryConnect,
         NoMoreNetworks, Tried, Begin, Return, wifiVars, driverVars,
         statusVars, userVars
    <2>2. pc'[manager] \in {pc[manager], "lock", "idle"}
      BY <1>5, <1>0 DEF TaskStep, WakeUp, Loop, TryPrev, Scan, TryNext,
         TryConnect, NoMoreNetworks, Tried, Begin, Return, Goto, wifiVars,
         callVars
    <2> QED BY <2>1, <2>2 DEF Respected
  <1>6. CASE BlockExpires
    BY <1>6 DEF BlockExpires, wifiVars, driverVars, statusVars, callVars,
       userVars, Respected
  <1>7. CASE Command
    <2>1. pc'[manager] = pc[manager]
      BY <1>7, <1>0 DEF Command, Begin, Goto
    <2> QED BY <1>7, <2>1 DEF Command, Begin, driverVars, statusVars, Respected
  <1>8. CASE CommandReturns
    <2>1. pc[manager] \in {"idle", "lock"}
      BY <1>8 DEF CommandReturns, Return, CallInv, Exclusive
    <2>2. pc'[manager] = pc[manager]
      BY <1>8, <1>0 DEF CommandReturns, Return, Goto
    <2> QED BY <1>8, <2>1, <2>2 DEF CommandReturns, Return, driverVars, statusVars,
        Respected
  <1>9. CASE UNCHANGED vars
    BY <1>9 DEF vars, wifiVars, driverVars, statusVars, callVars, userVars,
       Respected
  <1> QED BY <1>1, <1>2, <1>3, <1>4, <1>5, <1>6, <1>7, <1>8, <1>9 DEF Next

-----------------------------------------------------------------------------
(* The wait of _disconnect.                                                *)

LEMMA AwaitedHandled ==
    ASSUME CallInv, Coming, Handles
    PROVE  Coming'
  <1> DEFINE E == AllEvents
             G == {"lost", "left"}
  <1>0. events \in Seq(E) /\ (handling = NoEvent \/ handling.id \in NetworkEvents)
    BY DEF CallInv, Sorted
  <1>1. ASSUME NEW id \in {"left", "lost"}, OnDisconnect(id)
        PROVE  Coming'
    BY <1>1 DEF OnDisconnect, Event, Coming, Disconnection
  <1>2. ASSUME NEW id, id \notin G, IsNext(id), events' = Tail(events),
               bits' = bits
        PROVE  Coming'
    <2>1. handling.id \notin Disconnection /\ events # <<>> /\ Head(events).id = id
      BY <1>2 DEF IsNext, NoEvent, Event, Disconnection
    <2>2. NoneOf(events', G) => NoneOf(events, G)
      BY <2>1, <1>0, <1>2, TailNone
    <2> QED BY <2>1, <2>2, <1>2 DEF Coming
  <1>3. CASE OnConnect
    BY <1>3, <1>2 DEF OnConnect
  <1>4. CASE PostNetworkEvent
    <2>1. handling \in E
      BY <1>4 DEF PostNetworkEvent, CallInv, Sorted, TypeOK, WifiTypeOK,
         AllEvents
    <2>2. handling.id \notin G
      BY <1>0, <1>4 DEF PostNetworkEvent, NetworkEvents
    <2>3. NoneOf(events', G) => NoneOf(events, G)
      BY <2>1, <2>2, <1>0, <1>4, AppendMiss DEF PostNetworkEvent
    <2> QED BY <2>3, <1>4 DEF PostNetworkEvent, Coming
  <1>5. ASSUME NEW id \in NetworkEvents, Takes(id)
        PROVE  Coming'
    BY <1>5, <1>2 DEF Takes, statusVars, NetworkEvents
  <1> QED BY <1>1, <1>3, <1>4, <1>5 DEF Handles

LEMMA ComingPosted ==
    ASSUME CallInv, Coming, NEW id \in DriverEvents, DriverPosts(id),
           UNCHANGED <<handling, bits>>
    PROVE  Coming'
  <1>1. events \in Seq(AllEvents) /\ Event(id, NoNetwork) \in AllEvents
    BY DEF CallInv, Sorted, AllEvents, Event
  <1>2. NoneOf(events', {"lost", "left"}) => NoneOf(events, {"lost", "left"})
    BY <1>1, AppendHit, AppendMiss DEF DriverPosts, Event
  <1> QED BY <1>2 DEF Coming

LEMMA AwaitedKept ==
    ASSUME CallInv, LastTells, Awaited, [Next]_vars
    PROVE  Awaited'
  <1>0. /\ pc \in [Callers -> {"idle", "lock", "clear", "leave", "left",
                               "connect", "await", "done"}]
        /\ events \in Seq(AllEvents) /\ link \in {"idle", "connecting", "up"}
    BY DEF CallInv, Sorted, TypeOK, WifiTypeOK
  <1>1. ASSUME pc' = pc, Coming => Coming'
        PROVE  Awaited'
    BY <1>1 DEF Awaited
  <1>2. CASE Handles /\ pc' = pc
    BY <1>2, <1>1, AwaitedHandled
  <1>3. CASE LinkUp \/ LinkLost
    BY <1>3, <1>1, ComingPosted DEF LinkUp, LinkLost, statusVars, callVars,
       DriverEvents
  <1>4. CASE Environment /\ prev' = prev
    <2>1. CASE LinkUp \/ LinkLost
      BY <2>1, <1>3
    <2>2. CASE ~(LinkUp \/ LinkLost)
      <3>1. Handles /\ pc' = pc
        BY <2>2, <1>4 DEF Environment, Handles, OnDisconnect, OnConnect,
           PostNetworkEvent, callVars
      <3> QED BY <3>1, <1>2
    <2> QED BY <2>1, <2>2
  <1>5. ASSUME NEW id \in NetworkEvents, Takes(id)
        PROVE  Awaited'
    BY <1>5, <1>2 DEF Handles, Takes, callVars
  \* Only Leave begins the wait.
  <1>6. ASSUME NEW p \in Callers, UNCHANGED <<events, handling, bits>>,
               NEW l, Goto(p, l), l # "left"
        PROVE  Awaited'
    BY <1>6, <1>0 DEF Awaited, Coming, Goto
  \* Who clears the bits holds the lock, so that nobody else waits.
  <1>7. ASSUME NEW p \in Callers, pc[p] \notin {"idle", "lock"},
               NEW l, Goto(p, l), l # "left"
        PROVE  Awaited'
    <2>1. \A q \in Callers : q # p => pc[q] # "left"
      BY <1>7 DEF CallInv, Exclusive
    <2> QED BY <2>1, <1>7, <1>0 DEF Awaited, Goto
  <1>8. ASSUME NEW p \in Callers, Leave(p)
        PROVE  Awaited'
    <2>1. CASE ~connected
      BY <2>1, <1>8, <1>7 DEF Leave, AfterDisconnect
    <2>2. CASE connected /\ link # "idle"
      <3>1. DriverPosts("left")
        BY <2>2, <1>8 DEF Leave
      <3>2. Event("left", NoNetwork) \in AllEvents
            /\ Event("left", NoNetwork).id \in {"lost", "left"}
        BY DEF Event, AllEvents, DriverEvents
      <3>3. Coming'
        BY <3>1, <3>2, <1>0, AppendHit DEF DriverPosts, Coming
      <3> QED BY <3>3 DEF Awaited
    <2>3. CASE connected /\ link = "idle"
      <3>1. UNCHANGED <<events, handling, bits>>
        BY <2>3, <1>8 DEF Leave, statusVars
      <3>2. ~NoneOf(events, DriverEvents)
        BY <2>3 DEF LastTells
      <3>3. ~NoneOf(events, {"lost", "left"})
        <4>1. PICK i \in 1 .. Len(events) : LastOf(events, DriverEvents, i)
          BY <3>2, <1>0, SomeLast
        <4>2. events[i].id # "got_ip"
          BY <4>1, <2>3 DEF LastTells
        <4> QED BY <4>1, <4>2 DEF LastOf, NoneOf, DriverEvents
      <3> QED BY <3>1, <3>3 DEF Awaited, Coming
    <2> QED BY <2>1, <2>2, <2>3, <1>0 DEF CallInv, Sorted, TypeOK, WifiTypeOK
  <1>9. ASSUME NEW p \in Callers, Call(p)
        PROVE  Awaited'
    <2>1. CASE TakeLock(p, ByForce(p))
      BY <2>1, <1>6 DEF TakeLock, statusVars
    <2>2. CASE Clear(p) \/ Left(p) \/ Connect(p) \/ Await(p)
      BY <2>2, <1>7 DEF Clear, Left, Connect, Await, AfterDisconnect
    <2> QED BY <2>1, <2>2, <1>8, <1>9 DEF Call, Proceed
  <1>10. ASSUME NEW p \in Callers, Begins(p) \/ Return(p)
         PROVE  Awaited'
    BY <1>10, <1>6 DEF Begins, Begin, Return, statusVars
  <1>11. CASE UNCHANGED wifiVars
    BY <1>11 DEF wifiVars, statusVars, callVars, Awaited, Coming
  <1> QED BY <1>4, <1>5, <1>9, <1>10, <1>11, WifiSteps DEF vars

-----------------------------------------------------------------------------
LEMMA InitIInv == Init => LastTells /\ LastConnected /\ Respected /\ Awaited
  <1> SUFFICES ASSUME Init PROVE LastTells /\ LastConnected /\ Respected /\ Awaited
    OBVIOUS
  <1>1. link = "idle" /\ events = <<>> /\ connected = FALSE /\ granted = FALSE
    BY DEF Init, WifiInit
  <1>2. 1 .. Len(events) = {}
    BY <1>1
  <1>3. Awaited
    BY DEF Init, WifiInit, Awaited
  <1> QED BY <1>1, <1>2, <1>3 DEF LastTells, LastConnected, Respected

\* In every state: the queue tells the truth about the link and the network, and
\* the manager stays away from the user's connection.
THEOREM Correct == Spec => []IInv
  <1>1. Init => IInv
    BY InitCallInv, InitIInv DEF IInv
  <1>2. IInv /\ [Next]_vars => (LastTells /\ LastConnected /\ Respected /\ Awaited)'
    BY LastTellsKept, LastConnectedKept, RespectedKept, AwaitedKept DEF IInv
  <1>3. IInv <=> CallInv /\ LastTells /\ LastConnected /\ Respected /\ Awaited
    BY DEF IInv
  <1> QED BY <1>1, <1>2, <1>3, CallsCorrect, PTL DEF Spec

LEMMA SettledQueue ==
    ASSUME Settled, NEW ids
    PROVE  NoneOf(events, ids) /\ handling = NoEvent
  BY DEF Settled, NoneOf

\* Once the handlers are done, wifi_is_connected says whether the link is up.
THEOREM StatusIsExact == Spec => []StatusExact
  <1>1. IInv => StatusExact
    BY SettledQueue DEF IInv, LastTells, StatusExact, CallInv, Sorted, TypeOK,
       WifiTypeOK
  <1> QED BY <1>1, Correct, PTL

\* ... and the network the manager would return to is the one the station is on.
THEOREM PrevIsTheNetwork == Spec => []PrevIsCurrent
  <1>1. IInv => PrevIsCurrent
    BY SettledQueue DEF IInv, LastConnected, PrevIsCurrent
  <1> QED BY <1>1, Correct, PTL

\* wifi_connect and wifi_disconnect never wait for a disconnection that nobody
\* will tell them of.
THEOREM NoEndlessWait == Spec => []Awaited
  <1>1. IInv => Awaited
    BY DEF IInv
  <1> QED BY <1>1, Correct, PTL

\* The manager never ends a connection the user was told of.
THEOREM UserOverridesManager == Spec => UserOverrides
  <1>1. IInv => [Leave(manager) /\ granted => link' = link]_vars
    BY DEF IInv, Respected, Leave
  <1> QED BY <1>1, Correct, PTL DEF UserOverrides
=============================================================================
