-------------------------- MODULE MatchmakingProofs --------------------------
(***************************************************************************)
(* GameServer implements Matchmaking, for any sets of connections,         *)
(* sessions and ids.                                                       *)
(*                                                                         *)
(* Of a step of the server Matchmaking only sees who is in which list and  *)
(* which sessions have ended.  There are three kinds of step: one that     *)
(* leaves this alone, one that ends a session, and one that adds a player. *)
(***************************************************************************)
EXTENDS GameServerProofs

\* Who has joined a live session is in its list, also while they leave.
Listed == \A c \in Clients, s \in Sessions :
             joined[c] = s /\ Live(s) => c \in Members(s)

Room(s) == Len(clients[s]) < 2

Keeps == UNCHANGED <<joined, clients, ended>> /\ Created' = Created

Ends(s) ==
    /\ s \in Sessions /\ Live(s)
    /\ ended' = [ended EXCEPT ![s] = TRUE]
    /\ clients' = [clients EXCEPT ![s] = <<>>]
    /\ joined' = joined /\ Created' = Created

\* The player joins the only list there is room in, or that of a new session.
Joins(c, s) ==
    /\ c \in Clients /\ s \in Sessions
    /\ joined[c] = NoSession
    /\ joined' = [joined EXCEPT ![c] = s]
    /\ clients' = [clients EXCEPT ![s] = Append(clients[s], c)]
    /\ ended' = ended /\ Created' = Created \cup {s}
    /\ ~ended[s] /\ Room(s)
    /\ \A t \in Sessions : Live(t) /\ Room(t) => t = s
    /\ s \notin Created => clients[s] = <<>>

-----------------------------------------------------------------------------
(* Every step is of one of these kinds.                                    *)

LEMMA FailEffect ==
    ASSUME IInv, NEW s \in Created, EndUnlessEnded(s), joined' = joined,
           Created' = Created
    PROVE  Keeps \/ Ends(s)
  BY DEF EndUnlessEnded, End, endVars, Keeps, Ends, Live, Created

LEMMA BeginEffect ==
    ASSUME IInv, NEW s \in Created, NEW k, Begin(s, k), joined' = joined
    PROVE  Keeps \/ Ends(s)
  <1>1. CASE Fail(s)
    <2>1. Created' = Created
      BY <1>1 DEF Fail, Created, IInv, TypeOK
    <2> QED BY <1>1, <2>1, FailEffect DEF Fail
  <1>2. CASE loop' = [loop EXCEPT ![s] = "awaiting"] /\ UNCHANGED endVars
    <2>1. Created' = Created
      BY <1>2 DEF Created, IInv, TypeOK
    <2> QED BY <1>2, <2>1 DEF endVars, Keeps
  <1> QED BY <1>1, <1>2 DEF Begin

LEMMA JoinExistingEffect ==
    ASSUME IInv, NEW c \in Clients, JoinExisting(c)
    PROVE  \E s \in Sessions : Joins(c, s)
  <1>1. PICK s \in Joinable : addClient(c, s)
    BY DEF JoinExisting
  <1>2. s \in Sessions /\ Live(s) /\ Room(s)
    <2>1. PICK i \in Ids : sessions[i] = s /\ s # NoSession
      BY DEF Joinable, Registered
    <2>2. Live(s) /\ s \in Sessions
      BY <2>1 DEF IInv, Seating, Registry, TypeOK
    <2>3. Len(clients[s]) \in Nat /\ ~(Len(clients[s]) >= 2)
      BY <2>2 DEF Joinable, isJoinable, requiredClientsHaveJoined,
                  RequiredClientCount, IInv, TypeOK
    <2> QED BY <2>2, <2>3 DEF Room
  <1>3. conn[c] = "none" /\ ended' = ended /\ Created' = Created
    BY DEF JoinExisting, runVars, Created
  <1>4. joined[c] = NoSession
    BY <1>3 DEF IInv, Seating, Seats
  <1>5. \A t \in Sessions : Live(t) /\ Room(t) => t = s
    BY <1>2 DEF IInv, Seating, OneWaiting, Room
  <1> QED BY <1>1, <1>2, <1>3, <1>4, <1>5 DEF addClient, Joins, Live

LEMMA JoinNewEffect ==
    ASSUME IInv, NEW c \in Clients, JoinNew(c)
    PROVE  \E s \in Sessions : Joins(c, s)
  <1>1. PICK s \in Sessions \ Created :
           loop' = [loop EXCEPT ![s] = "immediate"] /\ addClient(c, s)
    BY DEF JoinNew
  <1>2. conn[c] = "none" /\ Joinable = {} /\ ended' = ended
    BY DEF JoinNew
  <1>3. ~ended[s] /\ clients[s] = <<>> /\ Room(s)
    BY DEF IInv, Seating, Blank, Room
  <1>4. Created' = Created \cup {s}
    BY <1>1 DEF Created, IInv, TypeOK
  <1>5. ASSUME NEW t \in Sessions, Live(t), Room(t)
        PROVE  t = s
    <2>1. t \in Registered
      BY <1>5, NoSessionAssumption DEF Registered, IInv, Seating, Registry
    <2>2. ~(Len(clients[t]) >= 2)
      BY <1>5 DEF IInv, TypeOK, Room
    <2> QED BY <1>2, <1>5, <2>1, <2>2
            DEF Joinable, isJoinable, requiredClientsHaveJoined,
                RequiredClientCount, Live
  <1>6. joined[c] = NoSession
    BY <1>2 DEF IInv, Seating, Seats
  <1> QED BY <1>1, <1>2, <1>3, <1>4, <1>5, <1>6 DEF addClient, Joins

\* The end of a socket ends the session of its player.
LEMMA CloseEffect ==
    ASSUME IInv, NEW c \in Clients, CloseEvent(c)
    PROVE  Keeps \/ Ends(joined[c])
  <1>1. joined[c] \in Created /\ joined[c] \in Sessions
    BY DEF CloseEvent, IInv, Seating, Seats, Created
  <1>2. joined' = joined /\ Created' = Created
    BY DEF CloseEvent, peerVars, runVars, Created
  <1> QED BY <1>1, <1>2 DEF CloseEvent, Keeps, Ends, Live

LEMMA Effects ==
    ASSUME IInv, [Next]_vars
    PROVE  \/ Keeps
           \/ \E s \in Sessions : Ends(s)
           \/ \E c \in Clients, s \in Sessions : Joins(c, s)
  <1>1. ASSUME NEW c \in Clients, JoinExisting(c) \/ JoinNew(c)
        PROVE  \E s \in Sessions : Joins(c, s)
    BY <1>1, JoinExistingEffect, JoinNewEffect
  <1>2. ASSUME NEW c \in Clients,
               DataTimeout(c) \/ PeerCloses(c) \/ PeerVanishes(c)
        PROVE  Keeps
    BY <1>2 DEF DataTimeout, PeerCloses, PeerVanishes, peerVars, endVars,
                runVars, Keeps, Created
  <1>3. ASSUME NEW c \in Clients, CloseEvent(c)
        PROVE  Keeps \/ \E s \in Sessions : Ends(s)
    BY <1>3, CloseEffect DEF Ends
  <1>4. ASSUME NEW s \in Sessions, TickHandler(s) \/ NextPart(s) \/ ForwardAgain(s)
        PROVE  Keeps \/ Ends(s)
    <2>1. s \in Created
      BY <1>4 DEF TickHandler, NextPart, ForwardAgain, PartDone, Created
    <2>2. joined' = joined
      BY <1>4 DEF TickHandler, NextPart, ForwardAgain, peerVars
    <2> QED BY <1>4, <2>1, <2>2, BeginEffect DEF TickHandler, NextPart, ForwardAgain
  <1>5. ASSUME NEW s \in Sessions, TickWaiting(s) \/ FinishHandler(s) \/ Answer(s)
        PROVE  Keeps
    BY <1>5 DEF TickWaiting, FinishHandler, Answer, PartDone, peerVars, endVars,
                Keeps, Created, IInv, TypeOK
  <1>6. ASSUME NEW s \in Sessions, Reject(s)
        PROVE  Keeps \/ Ends(s)
    <2>1. Fail(s) /\ joined' = joined
      BY <1>6 DEF Reject, peerVars
    <2>2. s \in Created
      <3>1. PICK chain \in pending[s] : TRUE
        BY <1>6 DEF Reject
      <3>2. chain \in Seq(Clients) /\ 1 \in DOMAIN chain
        BY DEF IInv, TypeOK, Loops, Chained
      <3>3. joined[chain[1]] = s /\ chain[1] \in Clients
        BY <3>2 DEF IInv, Loops, Chained
      <3> QED BY <3>3, NoSessionAssumption DEF IInv, Seating, Seats
    <2>3. Created' = Created
      BY <2>1, <2>2 DEF Fail, Created, IInv, TypeOK
    <2> QED BY <2>1, <2>2, <2>3, FailEffect DEF Fail
  <1>7. CASE UNCHANGED vars
    BY <1>7 DEF vars, peerVars, endVars, runVars, Keeps, Created
  <1> QED BY <1>1, <1>2, <1>3, <1>4, <1>5, <1>6, <1>7 DEF Next, Tick, Continue

-----------------------------------------------------------------------------
(* Lists.                                                                  *)

LEMMA ListFacts ==
    ASSUME IInv
    PROVE  /\ \A s \in Sessions : Len(clients[s]) \in Nat /\ Members(s) \subseteq Clients
           /\ \A s \in Sessions : Members(s) = {} <=> Len(clients[s]) = 0
           /\ \A s \in Sessions : \A c \in Members(s) : joined[c] = s
           /\ \A s \in Sessions : clients[s] = <<>> => Members(s) = {}
  <1>1. \A s \in Sessions : clients[s] \in Seq(Clients)
    BY DEF IInv, TypeOK
  <1>2. \A list \in Seq(Clients) :
           /\ Len(list) \in Nat /\ DOMAIN list = 1 .. Len(list)
           /\ \A i \in DOMAIN list : list[i] \in Clients
    OBVIOUS
  <1>3. \A s \in Sessions : Len(clients[s]) \in Nat /\ Members(s) \subseteq Clients
    BY <1>1, <1>2 DEF Members
  <1>4. \A s \in Sessions : \A c \in Members(s) : joined[c] = s
    <2>1. \A s \in Sessions : \A i \in DOMAIN clients[s] : joined[clients[s][i]] = s
      BY DEF IInv, Seating, Seats
    <2> QED BY <2>1 DEF Members
  <1>5. ASSUME NEW s \in Sessions
        PROVE  Members(s) = {} <=> Len(clients[s]) = 0
    <2>1. Members(s) = {} <=> DOMAIN clients[s] = {}
      BY Zenon DEF Members
    <2>2. DOMAIN clients[s] = 1 .. Len(clients[s]) /\ Len(clients[s]) \in Nat
      BY <1>1, <1>2
    <2>3. \A n \in Nat : 1 .. n = {} <=> n = 0
      OBVIOUS
    <2> QED BY <2>1, <2>2, <2>3
  <1>6. Len(<<>>) = 0
    OBVIOUS
  <1> QED BY <1>3, <1>4, <1>5, <1>6

LEMMA EndedLists ==
    ASSUME IInv, NEW s, Ends(s)
    PROVE  \A t \in Sessions :
              /\ (Live(t))' <=> Live(t) /\ t # s
              /\ t # s => clients'[t] = clients[t] /\ Members(t)' = Members(t)
              /\ ended'[t] <=> ended[t] \/ t = s
  BY DEF Ends, Live, Members, IInv, TypeOK

LEMMA JoinedLists ==
    ASSUME IInv, NEW c, NEW s, Joins(c, s)
    PROVE  /\ \A t \in Sessions :
                 /\ (Live(t))' <=> Live(t) \/ t = s
                 /\ t # s => clients'[t] = clients[t] /\ Members(t)' = Members(t)
           /\ Members(s)' = Members(s) \cup {c}
           /\ Len(clients'[s]) = Len(clients[s]) + 1
           /\ \A d \in Clients : joined'[d] = IF d = c THEN s ELSE joined[d]
  <1> c \in Clients /\ s \in Sessions
    BY DEF Joins
  <1>1. \A t \in Sessions : (Live(t))' <=> Live(t) \/ t = s
    BY DEF Joins, Live
  <1>2. \A t \in Sessions : clients'[t] = IF t = s THEN Append(clients[s], c)
                                                   ELSE clients[t]
    BY DEF Joins, IInv, TypeOK
  <1>3. clients[s] \in Seq(Clients) /\ clients'[s] = Append(clients[s], c)
    BY <1>2 DEF IInv, TypeOK
  <1>4. LET n == Len(clients[s])
        IN  /\ n \in Nat /\ DOMAIN clients[s] = 1 .. n
            /\ DOMAIN clients'[s] = 1 .. n + 1
            /\ Len(clients'[s]) = n + 1
            /\ clients'[s][n + 1] = c
            /\ \A i \in 1 .. n : clients'[s][i] = clients[s][i]
    BY <1>3, AppendFacts
  <1>5. Members(s)' = {clients'[s][i] : i \in DOMAIN clients'[s]}
    BY DEF Members
  <1>6. Members(s)' = Members(s) \cup {c}
    <2>1. PICK n \in Nat :
             /\ DOMAIN clients[s] = 1 .. n /\ DOMAIN clients'[s] = 1 .. n + 1
             /\ clients'[s][n + 1] = c
             /\ \A i \in 1 .. n : clients'[s][i] = clients[s][i]
      BY <1>4
    <2>2. 1 .. n + 1 = 1 .. n \cup {n + 1}
      OBVIOUS
    <2> QED BY <1>5, <2>1, <2>2 DEF Members
  <1>7. \A d \in Clients : joined'[d] = IF d = c THEN s ELSE joined[d]
    BY DEF Joins, IInv, TypeOK
  <1> QED BY <1>1, <1>2, <1>4, <1>6, <1>7 DEF Members

-----------------------------------------------------------------------------
(* Listed is an invariant.                                                 *)

LEMMA InitListed == Init => Listed
  BY DEF Init, Listed, Live, Created

LEMMA StepListed ==
    ASSUME IInv, Listed, [Next]_vars
    PROVE  Listed'
  <1>1. CASE Keeps
    BY <1>1 DEF Keeps, Listed, Live, Members
  <1>2. ASSUME NEW s \in Sessions, Ends(s)
        PROVE  Listed'
    BY <1>2, EndedLists DEF Ends, Listed
  <1>3. ASSUME NEW c \in Clients, NEW s \in Sessions, Joins(c, s)
        PROVE  Listed'
    <2>1. \A d \in Clients : d # c /\ joined[d] = s => d \in Members(s)
      <3>1. ASSUME NEW d \in Clients, joined[d] = s PROVE Live(s)
        <4>1. s \in Created
          BY <3>1, NoSessionAssumption DEF IInv, Seating, Seats
        <4> QED BY <1>3, <4>1 DEF Joins, Live
      <3> QED BY <3>1 DEF Listed
    <2> QED BY <1>3, <2>1, JoinedLists DEF Listed
  <1> QED BY <1>1, <1>2, <1>3, Effects

-----------------------------------------------------------------------------
(* Every step is one of Matchmaking.                                       *)

\* Membership in what is substituted for the variables of Matchmaking.
Places ==
    /\ \A c : c \in Waiting <=>
          \E s \in Sessions : Live(s) /\ Room(s) /\ c \in Members(s)
    /\ \A g : g \in Games <=>
          \E s \in Sessions : Live(s) /\ ~Room(s) /\ g = Members(s)
    /\ \A c : c \in Gone <=> c \in Clients /\ \E s \in Sessions :
                                joined[c] = s /\ ended[s]

LEMMA AllPlaces == IInv => Places
  <1> SUFFICES ASSUME IInv
               PROVE  Places
    OBVIOUS
  <1>1. \A s \in Sessions : requiredClientsHaveJoined(s) <=> ~Room(s)
    BY ListFacts DEF requiredClientsHaveJoined, RequiredClientCount, Room
  <1> QED BY <1>1 DEF Waiting, Games, Gone, Places

LEMMA KeepsMatch == Keeps => UNCHANGED Matched!vars
  BY DEF Keeps, Matched!vars, Waiting, Games, Gone, Live, Members,
         requiredClientsHaveJoined

LEMMA EndMatches ==
    ASSUME IInv, Places, Places', Listed, NEW s \in Sessions, Ends(s)
    PROVE  Matched!Next \/ UNCHANGED Matched!vars
  <1> Live(s)
    BY DEF Ends
  <1>1. Gone' = Gone \cup Members(s)
    <2>1. \A c \in Clients : joined[c] = s <=> c \in Members(s)
      BY ListFacts DEF Listed
    <2>2. \A c : c \in Gone' <=> c \in Clients /\ \E t \in Sessions :
                                    joined'[c] = t /\ ended'[t]
      BY DEF Places
    <2>3. ASSUME NEW c \in Clients
          PROVE  (\E t \in Sessions : joined'[c] = t /\ ended'[t])
             <=> (\E t \in Sessions : joined[c] = t /\ ended[t]) \/ joined[c] = s
      <3>1. joined'[c] = joined[c]
        BY DEF Ends
      <3> QED BY <3>1, EndedLists
    <2>4. \A c : c \in Gone' <=> c \in Gone \/ (c \in Clients /\ joined[c] = s)
      BY <2>2, <2>3 DEF Places
    <2> QED BY <2>1, <2>4, ListFacts
  <1>2. \A t \in Sessions : (Live(t) /\ Room(t))' <=> Live(t) /\ Room(t) /\ t # s
    BY EndedLists DEF Room
  <1>3. \A t \in Sessions : (Live(t) /\ ~Room(t))' <=> Live(t) /\ ~Room(t) /\ t # s
    BY EndedLists DEF Room
  <1>4. \A c : c \in Waiting' <=>
           \E t \in Sessions : Live(t) /\ Room(t) /\ t # s /\ c \in Members(t)
    BY <1>2, EndedLists DEF Places
  <1>5. \A g : g \in Games' <=>
           \E t \in Sessions : Live(t) /\ ~Room(t) /\ t # s /\ g = Members(t)
    BY <1>3, EndedLists DEF Places
  <1>6. CASE Room(s)
    <2>1. \A t \in Sessions : Live(t) /\ Room(t) => t = s
      BY <1>6 DEF IInv, Seating, OneWaiting, Room
    <2>2. Waiting' = {}
      BY <1>4, <2>1
    <2>3. Waiting = Members(s)
      BY <1>6, <2>1 DEF Places
    <2>4. Games' = Games
      BY <1>5, <1>6 DEF Places
    <2>5. CASE Members(s) = {}
      BY <1>1, <2>2, <2>3, <2>4, <2>5 DEF Matched!vars
    <2>6. CASE Members(s) # {}
      <3>1. Matched!GiveUp
        BY <1>1, <2>2, <2>3, <2>4, <2>6 DEF Matched!GiveUp
      <3> QED BY <3>1 DEF Matched!Next
    <2> QED BY <2>5, <2>6
  <1>7. CASE ~Room(s)
    <2>1. Members(s) # {} /\ Members(s) \in Games
      BY <1>7, ListFacts DEF Room, Places
    <2>2. \A t \in Sessions : Members(t) = Members(s) => t = s
      BY <2>1, ListFacts
    <2>3. Games' = Games \ {Members(s)}
      BY <1>5, <2>2 DEF Places
    <2>4. Waiting' = Waiting
      BY <1>4, <1>7 DEF Places
    <2>5. Matched!Break(Members(s))
      BY <1>1, <2>3, <2>4 DEF Matched!Break
    <2> QED BY <2>1, <2>5 DEF Matched!Next
  <1> QED BY <1>6, <1>7

LEMMA JoinMatches ==
    ASSUME IInv, Places, Places', NEW c \in Clients, NEW s \in Sessions, Joins(c, s)
    PROVE  Matched!Next
  <1>1. Gone' = Gone
    <2>1. ~ended[s] /\ joined[c] = NoSession /\ ended' = ended
      BY DEF Joins
    <2>2. \A d \in Clients : (\E t \in Sessions : joined'[d] = t /\ ended'[t])
                         <=> (\E t \in Sessions : joined[d] = t /\ ended[t])
      BY <2>1, JoinedLists, NoSessionAssumption
    <2>3. \A d : d \in Gone' <=> d \in Clients /\ \E t \in Sessions :
                                    joined'[d] = t /\ ended'[t]
      BY DEF Places
    <2> QED BY <2>2, <2>3 DEF Places
  <1>2. Waiting = Members(s)
    <2>1. \A t \in Sessions : Live(t) /\ Room(t) => t = s
      BY DEF Joins
    <2>2. (Live(s) /\ Room(s)) \/ Members(s) = {}
      BY ListFacts DEF Joins, Live
    <2> QED BY <2>1, <2>2 DEF Places
  <1>3. c \notin Matched!Seated
    <2>1. \A t \in Sessions : c \notin Members(t)
      BY ListFacts, NoSessionAssumption DEF Joins
    <2>2. c \notin Waiting
      BY <2>1 DEF Places
    <2>3. c \notin UNION Games
      BY <2>1 DEF Places
    <2>4. c \notin Gone
      BY NoSessionAssumption DEF Joins, Places
    <2> QED BY <2>2, <2>3, <2>4 DEF Matched!Seated
  <1>4. \A t \in Sessions : t # s => /\ (Live(t))' <=> Live(t)
                                     /\ Room(t)' <=> Room(t)
                                     /\ Members(t)' = Members(t)
    BY JoinedLists DEF Room
  <1>5. (Live(s))' /\ Members(s)' = Members(s) \cup {c}
    BY JoinedLists
  <1>6. \A t \in Sessions : t # s => ~(Live(t) /\ Room(t))
    BY DEF Joins
  <1>7. \A d : d \in Waiting' <=> Room(s)' /\ d \in Members(s)'
    <2>1. \A d : d \in Waiting' <=>
             \E t \in Sessions : (Live(t))' /\ Room(t)' /\ d \in Members(t)'
      BY DEF Places
    <2> QED BY <1>4, <1>5, <1>6, <2>1
  <1>8. \A g : g \in Games' <=> g \in Games \/ (~Room(s)' /\ g = Members(s)')
    <2>1. \A t \in Sessions : (Live(t))' /\ ~Room(t)' <=>
             (t # s /\ Live(t) /\ ~Room(t)) \/ (t = s /\ ~Room(s)')
      BY <1>4, <1>5
    <2>2. Room(s)
      BY DEF Joins
    <2>3. ASSUME NEW g
          PROVE  (\E t \in Sessions : (Live(t))' /\ ~Room(t)' /\ g = Members(t)')
             <=> \/ \E t \in Sessions : Live(t) /\ ~Room(t) /\ g = Members(t)
                 \/ ~Room(s)' /\ g = Members(s)'
      BY <1>4, <2>1, <2>2
    <2> QED BY <2>3 DEF Places
  <1>9. CASE Members(s) = {}
    <2>1. Room(s)'
      BY <1>9, JoinedLists, ListFacts DEF Room
    <2>2. Waiting' = {c} /\ Games' = Games
      BY <1>5, <1>7, <1>8, <1>9, <2>1
    <2>3. Matched!Wait(c)
      BY <1>1, <1>2, <1>3, <1>9, <2>2 DEF Matched!Wait
    <2> QED BY <2>3 DEF Matched!Next
  <1>10. CASE Members(s) # {}
    <2>1. ~Room(s)'
      BY <1>10, JoinedLists, ListFacts DEF Room
    <2>2. Waiting' = {} /\ Games' = Games \cup {Waiting \cup {c}}
      BY <1>2, <1>5, <1>7, <1>8, <2>1
    <2>3. Matched!Pair(c)
      BY <1>1, <1>2, <1>3, <1>10, <2>2 DEF Matched!Pair
    <2> QED BY <2>3 DEF Matched!Next
  <1> QED BY <1>9, <1>10

LEMMA InitMatches == Init => Matched!Init
  <1> SUFFICES ASSUME Init
               PROVE  Matched!Init
    OBVIOUS
  <1>1. \A s \in Sessions : ~Live(s) /\ ~ended[s]
    BY DEF Init, Live, Created
  <1> QED BY <1>1 DEF Matched!Init, Waiting, Games, Gone

\* Players are paired in the order in which they come, and opponents stay
\* together, however many connections and games there are.
THEOREM ImplementsMatchmaking == Spec => MatchedSpec
  <1>1. IInv /\ Listed /\ [Next]_vars => Listed'
    BY StepListed
  <1>2. IInv /\ Places /\ Places' /\ Listed /\ [Next]_vars
           => [Matched!Next]_Matched!vars
    BY Effects, KeepsMatch, EndMatches, JoinMatches
  <1> QED BY InitListed, InitMatches, Invariance, AllPlaces, <1>1, <1>2, PTL
          DEF Spec, MatchedSpec, Matched!Spec

-----------------------------------------------------------------------------
(* What this means for the players.                                        *)

LEMMA StepOnePlace ==
    ASSUME Matched!OnePlace, [Matched!Next]_Matched!vars
    PROVE  Matched!OnePlace'
  <1> USE DEF Matched!OnePlace
  <1> HIDE DEF Waiting, Games, Gone
  <1>1. ASSUME NEW c \in Clients, Matched!Wait(c)
        PROVE  Matched!OnePlace'
    <2>1. c \notin Gone /\ \A g \in Games : c \notin g
      BY <1>1 DEF Matched!Wait, Matched!Seated
    <2> QED BY <1>1, <2>1 DEF Matched!Wait
  <1>2. ASSUME NEW c \in Clients, Matched!Pair(c)
        PROVE  Matched!OnePlace'
    <2>1. c \notin Gone /\ \A g \in Games : c \notin g
      BY <1>2 DEF Matched!Pair, Matched!Seated
    <2>2. Waiting' = {} /\ Gone' = Gone
          /\ \A g \in Games' : g \in Games \/ g = Waiting \cup {c}
      BY <1>2 DEF Matched!Pair
    <2>3. (Waiting \cup {c}) \cap Gone = {}
          /\ \A g \in Games : g \cap (Waiting \cup {c}) = {}
      BY <2>1
    <2> QED BY <2>2, <2>3
  <1>3. CASE Matched!GiveUp
    BY <1>3 DEF Matched!GiveUp
  <1>4. ASSUME NEW g \in Games, Matched!Break(g)
        PROVE  Matched!OnePlace'
    BY <1>4 DEF Matched!Break
  <1>5. CASE UNCHANGED Matched!vars
    BY <1>5 DEF Matched!vars
  <1> QED BY <1>1, <1>2, <1>3, <1>4, <1>5 DEF Matched!Next

\* A player is waiting, in one game, or gone, and never in two of these.
THEOREM EveryoneInOnePlace == Spec => []Matched!OnePlace
  <1>1. Matched!Init => Matched!OnePlace
    BY DEF Matched!Init, Matched!OnePlace
  <1>2. Matched!OnePlace /\ [Matched!Next]_Matched!vars => Matched!OnePlace'
    BY StepOnePlace
  <1> QED BY ImplementsMatchmaking, <1>1, <1>2, PTL DEF MatchedSpec, Matched!Spec

\* A game that ends is over for both players at once and for good, whichever of
\* them left.
THEOREM GamesEndForBoth == Spec => Matched!OverForBoth
  <1>1. [Matched!Next]_Matched!vars =>
           [\A g \in Games : g \notin Games' => g \subseteq Gone' /\ Gone \subseteq Gone']_Matched!vars
    <2> HIDE DEF Waiting, Games, Gone
    <2> QED BY DEF Matched!Next, Matched!Wait, Matched!Pair, Matched!GiveUp,
                   Matched!Break, Matched!vars
  <1> QED BY ImplementsMatchmaking, <1>1, PTL
          DEF MatchedSpec, Matched!Spec, Matched!OverForBoth
=============================================================================
