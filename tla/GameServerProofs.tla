-------------------------- MODULE GameServerProofs --------------------------
(***************************************************************************)
(* For any sets of connections, sessions and ids, the safety invariants of *)
(* GameServer hold.  None of them is inductive by itself; IInv is.         *)
(***************************************************************************)
EXTENDS GameServer, TLAPS

-----------------------------------------------------------------------------
(* The inductive invariant, in parts that different actions disturb.       *)

\* A session object that does not exist yet has no clients and has not ended.
Blank == \A s \in Sessions : s \notin Created => clients[s] = <<>> /\ ~ended[s]

\* The Map of server.ts and the ids of the live sessions agree.
Registry ==
    /\ \A s \in Sessions : Live(s) => id[s] \in Ids /\ sessions[id[s]] = s
    /\ \A i \in Ids : sessions[i] # NoSession =>
                        Live(sessions[i]) /\ id[sessions[i]] = i

\* Connections, the sessions they joined and the lists of those sessions.
Seats ==
    /\ \A c \in Clients : conn[c] = "none" <=> joined[c] = NoSession
    /\ \A c \in Clients : conn[c] # "none" => joined[c] \in Created
    /\ \A c \in Clients : conn[c] = "open" =>
          Live(joined[c]) /\ \E i \in DOMAIN clients[joined[c]] :
                                clients[joined[c]][i] = c
    /\ \A s \in Sessions : \A i \in DOMAIN clients[s] : joined[clients[s][i]] = s
    /\ \A s \in Sessions : \A i, j \in DOMAIN clients[s] :
          clients[s][i] = clients[s][j] => i = j
    /\ \A s \in Sessions : ended[s] => clients[s] = <<>>

\* Lists hold up to two players, and one live list at most is not full.
OneWaiting ==
    /\ \A s \in Sessions : Len(clients[s]) <= 2
    /\ \A s, t \in Sessions :
          /\ Live(s) /\ Len(clients[s]) < 2
          /\ Live(t) /\ Len(clients[t]) < 2
          => s = t

\* Where a run loop is, and in which state.
Running ==
    /\ \A s \in Sessions : loop[s] = "none" => state[s] = "WaitingForPlayers"
    /\ \A s \in Sessions : loop[s] = "awaiting" =>
          part[s] \in 1 .. Len(Parts[state[s]])

\* The exchanges a session awaits are with clients that joined it.
Chained ==
    \A s \in Sessions : \A chain \in pending[s] :
        chain # <<>> /\ \A i \in DOMAIN chain : joined[chain[i]] = s

\* What the connection handler and end() write, and what run() writes.
Seating == Blank /\ Registry /\ Seats /\ OneWaiting
Loops == Running /\ FullWhenPlaying /\ StoppedIsEnded /\ Chained

IInv == TypeOK /\ Seating /\ Loops

-----------------------------------------------------------------------------
(* The tables of the handlers, and sequences.                              *)

LEMMA PartsType ==
    /\ States = DOMAIN Parts
    /\ \A st \in States : /\ Parts[st] \in Seq({"all", "forward", "sleep"})
                          /\ Len(Parts[st]) \in 0 .. 3
                          /\ NextStates[st] \subseteq States \ {"WaitingForPlayers"}
                          /\ st # "WaitingForPlayers" => Len(Parts[st]) >= 1
  BY DEF States, Parts, NextStates

LEMMA WaitingParts == Len(Parts["WaitingForPlayers"]) = 0
  BY DEF States, Parts

LEMMA PartType ==
    ASSUME NEW st \in States, NEW k \in 1 .. Len(Parts[st])
    PROVE  Parts[st][k] \in {"all", "forward", "sleep"} /\ k \in 0 .. 3
  <1>1. /\ Parts[st] \in Seq({"all", "forward", "sleep"})
        /\ Len(Parts[st]) \in 0 .. 3
    BY PartsType
  <1>2. \A n \in 0 .. 3 : k \in 1 .. n => k \in 0 .. 3
    OBVIOUS
  <1>3. k \in DOMAIN Parts[st]
    BY <1>1
  <1> QED  BY <1>1, <1>2, <1>3

\* What a part awaits is a set of non-empty sequences of the list's members.
LEMMA ChainsType ==
    ASSUME NEW kind \in {"all", "forward", "sleep"},
           NEW members \in Seq(Clients),
           kind = "forward" => Len(members) = 2
    PROVE  \A chain \in Chains(kind, members) :
              /\ chain \in Seq(Clients)
              /\ chain # <<>>
              /\ \A i \in DOMAIN chain : \E j \in DOMAIN members :
                    chain[i] = members[j]
  <1>1. CASE kind = "all"
    <2> SUFFICES ASSUME NEW chain \in Chains(kind, members)
                 PROVE  /\ chain \in Seq(Clients)
                        /\ chain # <<>>
                        /\ \A i \in DOMAIN chain : \E j \in DOMAIN members :
                              chain[i] = members[j]
      OBVIOUS
    <2>1. Chains(kind, members) = {<<members[j]>> : j \in DOMAIN members}
      BY <1>1 DEF Chains
    <2>2. PICK j \in DOMAIN members : chain = <<members[j]>>
      BY <2>1
    <2>3. members[j] \in Clients
      OBVIOUS
    <2> QED  BY <2>2, <2>3
  <1>2. CASE kind = "forward"
    <2>1. 1 \in DOMAIN members /\ 2 \in DOMAIN members
      BY <1>2
    <2>2. Chains(kind, members) = {<<members[2], members[1]>>}
      BY <1>2 DEF Chains
    <2> QED
      <3> SUFFICES ASSUME NEW chain, chain = <<members[2], members[1]>>
                   PROVE  /\ chain \in Seq(Clients)
                          /\ chain # <<>>
                          /\ \A i \in DOMAIN chain : \E j \in DOMAIN members :
                                chain[i] = members[j]
        BY <2>2
      <3>1. members[1] \in Clients /\ members[2] \in Clients
        BY <2>1
      <3>2. chain \in Seq(Clients) /\ DOMAIN chain = {1, 2}
        BY <3>1
      <3> QED  BY <2>1, <3>2
  <1>3. CASE kind = "sleep"
    BY <1>3 DEF Chains
  <1> QED  BY <1>1, <1>2, <1>3

-----------------------------------------------------------------------------
(* Type correctness.                                                       *)

\* The halves of TypeOK that end() and run() write.
EndTypes ==
    /\ conn \in [Clients -> {"none", "open", "closing", "closed"}]
    /\ sessions \in [Ids -> Sessions \cup {NoSession}]
    /\ clients \in [Sessions -> Seq(Clients)]
    /\ ended \in [Sessions -> BOOLEAN]

RunTypes ==
    /\ state \in [Sessions -> States]
    /\ loop \in [Sessions -> {"none", "immediate", "awaiting", "stopped"}]
    /\ part \in [Sessions -> 0 .. 3]
    /\ pending \in [Sessions -> SUBSET Seq(Clients)]

LEMMA TypeParts ==
    TypeOK <=> /\ EndTypes /\ RunTypes
               /\ alive \in [Clients -> BOOLEAN]
               /\ joined \in [Clients -> Sessions \cup {NoSession}]
               /\ id \in [Sessions -> Ids \cup {NoId}]
  BY DEF TypeOK, EndTypes, RunTypes

LEMMA EndType ==
    ASSUME TypeOK, NEW s \in Sessions, EndUnlessEnded(s)
    PROVE  EndTypes'
  <1>1. CASE ended[s]
    BY <1>1 DEF TypeOK, EndTypes, EndUnlessEnded, endVars
  <1>2. CASE ~ended[s]
    <2>1. conn' \in [Clients -> {"none", "open", "closing", "closed"}]
      BY <1>2 DEF TypeOK, EndUnlessEnded, End, Disconnected
    <2>2. sessions' \in [Ids -> Sessions \cup {NoSession}]
      BY <1>2 DEF TypeOK, EndUnlessEnded, End
    <2>3. clients' \in [Sessions -> Seq(Clients)]
      <3>1. <<>> \in Seq(Clients)
        OBVIOUS
      <3> QED  BY <1>2, <3>1 DEF TypeOK, EndUnlessEnded, End
    <2>4. ended' \in [Sessions -> BOOLEAN]
      BY <1>2 DEF TypeOK, EndUnlessEnded, End
    <2> QED  BY <2>1, <2>2, <2>3, <2>4 DEF EndTypes
  <1> QED  BY <1>1, <1>2

LEMMA FailType ==
    ASSUME TypeOK, NEW s \in Sessions, Fail(s)
    PROVE  EndTypes' /\ RunTypes'
  <1>1. EndTypes'
    BY EndType DEF Fail
  <1>2. RunTypes'
    BY DEF TypeOK, RunTypes, Fail
  <1> QED  BY <1>1, <1>2

LEMMA BeginType ==
    ASSUME TypeOK, NEW s \in Sessions, NEW k \in 1 .. Len(Parts[state[s]]),
           Begin(s, k)
    PROVE  EndTypes' /\ RunTypes'
  <1> DEFINE kind == Parts[state[s]][k]
  <1>1. CASE kind = "forward" /\ Len(clients[s]) # RequiredClientCount
    BY <1>1, FailType DEF Begin
  <1>2. CASE ~(kind = "forward" /\ Len(clients[s]) # RequiredClientCount)
    <2>1. /\ loop' = [loop EXCEPT ![s] = "awaiting"]
          /\ part' = [part EXCEPT ![s] = k]
          /\ pending' = [pending EXCEPT ![s] = Chains(kind, clients[s])]
          /\ UNCHANGED <<state, endVars>>
      BY <1>2 DEF Begin
    <2>2. kind \in {"all", "forward", "sleep"} /\ k \in 0 .. 3
      BY PartType DEF TypeOK
    <2>3. Chains(kind, clients[s]) \subseteq Seq(Clients)
      BY <1>2, <2>2, ChainsType DEF TypeOK, RequiredClientCount
    <2>4. EndTypes'
      BY <2>1 DEF TypeOK, EndTypes, endVars
    <2>5. RunTypes'
      BY <2>1, <2>2, <2>3 DEF TypeOK, RunTypes
    <2> QED  BY <2>4, <2>5
  <1> QED  BY <1>1, <1>2

\* A new client of a session.
LEMMA AddClientType ==
    ASSUME TypeOK, NEW c \in Clients, NEW s \in Sessions, addClient(c, s)
    PROVE  /\ conn' \in [Clients -> {"none", "open", "closing", "closed"}]
           /\ joined' \in [Clients -> Sessions \cup {NoSession}]
           /\ clients' \in [Sessions -> Seq(Clients)]
  BY DEF TypeOK, addClient

LEMMA TypeStep ==
    ASSUME TypeOK, Running, Chained, [Next]_vars
    PROVE  TypeOK'
  <1> USE DEF vars, peerVars, endVars, runVars
  <1>1. ASSUME NEW c \in Clients, JoinExisting(c)
        PROVE  TypeOK'
    <2>1. PICK s \in Joinable : addClient(c, s)
      BY <1>1 DEF JoinExisting
    <2>2. s \in Sessions
      BY DEF Joinable, Registered, TypeOK
    <2> QED  BY <1>1, <2>1, <2>2, AddClientType DEF JoinExisting, TypeOK
  <1>2. ASSUME NEW c \in Clients, JoinNew(c)
        PROVE  TypeOK'
    <2>1. PICK s \in Sessions \ Created, i \in FreeIds :
             /\ id' = [id EXCEPT ![s] = i]
             /\ sessions' = [sessions EXCEPT ![i] = s]
             /\ loop' = [loop EXCEPT ![s] = "immediate"]
             /\ addClient(c, s)
      BY <1>2 DEF JoinNew
    <2>2. i \in Ids
      BY DEF FreeIds
    <2> QED  BY <1>2, <2>1, <2>2, AddClientType DEF JoinNew, TypeOK
  <1>3. ASSUME NEW s \in Sessions, TickWaiting(s)
        PROVE  TypeOK'
    BY <1>3 DEF TickWaiting, TypeOK, States
  <1>4. ASSUME NEW s \in Sessions, TickHandler(s)
        PROVE  TypeOK'
    <2>1. 1 \in 1 .. Len(Parts[state[s]])
      BY <1>4, PartsType DEF TickHandler, TypeOK
    <2>2. EndTypes' /\ RunTypes'
      BY <1>4, <2>1, BeginType DEF TickHandler
    <2> QED  BY <1>4, <2>2 DEF TickHandler, TypeOK, EndTypes, RunTypes
  <1>5. ASSUME NEW s \in Sessions, NextPart(s)
        PROVE  TypeOK'
    <2>1. part[s] + 1 \in 1 .. Len(Parts[state[s]])
      <3>1. state[s] \in States /\ part[s] \in 0 .. 3
        BY DEF TypeOK
      <3>2. Len(Parts[state[s]]) \in 0 .. 3
        BY <3>1, PartsType
      <3> QED  BY <1>5, <3>1, <3>2 DEF NextPart
    <2>2. EndTypes' /\ RunTypes'
      BY <1>5, <2>1, BeginType DEF NextPart
    <2> QED  BY <1>5, <2>2 DEF NextPart, TypeOK, EndTypes, RunTypes
  <1>6. ASSUME NEW s \in Sessions, ForwardAgain(s)
        PROVE  TypeOK'
    <2>1. part[s] \in 1 .. Len(Parts[state[s]])
      BY <1>6 DEF ForwardAgain, PartDone, Running
    <2>2. EndTypes' /\ RunTypes'
      BY <1>6, <2>1, BeginType DEF ForwardAgain
    <2> QED  BY <1>6, <2>2 DEF ForwardAgain, TypeOK, EndTypes, RunTypes
  <1>7. ASSUME NEW s \in Sessions, FinishHandler(s)
        PROVE  TypeOK'
    <2>1. NextStates[state[s]] \subseteq States
      BY PartsType DEF TypeOK
    <2> QED  BY <1>7, <2>1 DEF FinishHandler, TypeOK
  <1>8. ASSUME NEW s \in Sessions, Reject(s)
        PROVE  TypeOK'
    <2>1. EndTypes' /\ RunTypes'
      BY <1>8, FailType DEF Reject
    <2> QED  BY <1>8, <2>1 DEF Reject, TypeOK, EndTypes, RunTypes
  <1>9. ASSUME NEW c \in Clients, DataTimeout(c)
        PROVE  TypeOK'
    BY <1>9 DEF DataTimeout, TypeOK
  <1>10. ASSUME NEW c \in Clients, CloseEvent(c)
         PROVE  TypeOK'
    <2> DEFINE s == joined[c]
    <2>1. CASE ended[s]
      BY <1>10, <2>1 DEF CloseEvent, TypeOK
    <2>2. CASE ~ended[s]
      <3>1. /\ ended' = [ended EXCEPT ![s] = TRUE]
            /\ conn' = [Disconnected(Members(s)) EXCEPT ![c] = "closed"]
            /\ clients' = [clients EXCEPT ![s] = <<>>]
            /\ sessions' = [sessions EXCEPT ![id[s]] = NoSession]
            /\ UNCHANGED <<peerVars, id, runVars>>
        BY <1>10, <2>2 DEF CloseEvent
      <3>2. conn' \in [Clients -> {"none", "open", "closing", "closed"}]
        BY <3>1 DEF TypeOK, Disconnected
      <3>3. sessions' \in [Ids -> Sessions \cup {NoSession}]
        BY <3>1 DEF TypeOK
      <3>4. <<>> \in Seq(Clients)
        OBVIOUS
      <3>5. clients' \in [Sessions -> Seq(Clients)]
        BY <3>1, <3>4 DEF TypeOK
      <3> QED  BY <3>1, <3>2, <3>3, <3>5 DEF TypeOK
    <2> QED  BY <2>1, <2>2
  <1>11. ASSUME NEW s \in Sessions, Answer(s)
         PROVE  TypeOK'
    <2>1. PICK chain \in pending[s] :
             pending' = [pending EXCEPT ![s] = (@ \ {chain}) \cup
                 IF Len(chain) = 1 THEN {} ELSE {Tail(chain)}]
      BY <1>11 DEF Answer
    <2>2. chain \in Seq(Clients)
      BY DEF TypeOK
    <2>3. Tail(chain) \in Seq(Clients)
      BY <2>2 DEF Chained
    <2>4. pending' \in [Sessions -> SUBSET Seq(Clients)]
      BY <2>1, <2>3 DEF TypeOK
    <2> QED  BY <1>11, <2>4 DEF Answer, TypeOK
  <1>12. ASSUME NEW c \in Clients, PeerCloses(c)
         PROVE  TypeOK'
    BY <1>12 DEF PeerCloses, TypeOK
  <1>13. ASSUME NEW c \in Clients, PeerVanishes(c)
         PROVE  TypeOK'
    BY <1>13 DEF PeerVanishes, TypeOK
  <1>14. CASE UNCHANGED vars
    BY <1>14 DEF TypeOK
  <1> QED
    BY <1>1, <1>2, <1>3, <1>4, <1>5, <1>6, <1>7, <1>8, <1>9, <1>10, <1>11,
       <1>12, <1>13, <1>14 DEF Next, Tick, Continue

-----------------------------------------------------------------------------
(* Who sits where: Seating.                                                *)

\* Nobody joins and no session ends; sockets may be destroyed.
LEMMA SeatingSame ==
    ASSUME TypeOK, TypeOK', Seating,
           UNCHANGED <<joined, sessions, id, clients, ended>>,
           Created' = Created,
           \A c \in Clients : /\ conn'[c] = "none" <=> conn[c] = "none"
                              /\ conn'[c] = "open" => conn[c] = "open"
    PROVE  Seating'
  <1>1. Blank'
    BY DEF Seating, Blank
  <1>2. Registry'
    BY DEF Seating, Registry, Live
  <1>3. Seats'
    BY DEF Seating, Seats, Live
  <1>4. OneWaiting'
    BY DEF Seating, OneWaiting, Live
  <1> QED  BY <1>1, <1>2, <1>3, <1>4 DEF Seating

\* A live session ends, from the "close" event of a client or from run.
LEMMA SeatingEnd ==
    ASSUME TypeOK, TypeOK', Seating, NEW s \in Sessions, Live(s),
           ended' = [ended EXCEPT ![s] = TRUE],
           clients' = [clients EXCEPT ![s] = <<>>],
           sessions' = [sessions EXCEPT ![id[s]] = NoSession],
           UNCHANGED <<joined, id>>,
           Created' = Created,
           \A c \in Clients : /\ conn'[c] = "none" <=> conn[c] = "none"
                              /\ conn'[c] = "open" => conn[c] = "open"
                              /\ conn'[c] = "open" => c \notin Members(s)
    PROVE  Seating'
  <1>1. Blank'
    BY DEF Seating, Blank, Live, TypeOK
  <1>2. id[s] \in Ids /\ sessions[id[s]] = s
    BY DEF Seating, Registry
  <1>3. \A t \in Sessions : Live(t)' <=> Live(t) /\ t # s
    <2>1. ended \in [Sessions -> BOOLEAN]
      BY DEF TypeOK
    <2>2. \A t \in Sessions : ended'[t] <=> ended[t] \/ t = s
      BY <2>1
    <2> QED  BY <2>2 DEF Live
  <1>4. Registry'
    <2>1. ASSUME NEW t \in Sessions, Live(t)'
          PROVE  id'[t] \in Ids /\ sessions'[id'[t]] = t
      BY <1>2, <1>3, <2>1 DEF Seating, Registry, TypeOK
    <2>2. ASSUME NEW i \in Ids, sessions'[i] # NoSession
          PROVE  (Live(sessions[i]) /\ id[sessions[i]] = i)'
      <3>1. i # id[s] /\ sessions'[i] = sessions[i]
        BY <1>2, <2>2 DEF TypeOK
      <3>2. Live(sessions[i]) /\ id[sessions[i]] = i /\ sessions[i] \in Sessions
        BY <2>2, <3>1 DEF Seating, Registry, TypeOK
      <3>3. sessions[i] # s
        BY <3>1, <3>2
      <3>4. sessions[i] \in Created' /\ ~ended'[sessions[i]]
        BY <1>3, <3>2, <3>3 DEF Live
      <3> QED  BY <3>1, <3>2, <3>4 DEF Live
    <2> QED  BY <2>1, <2>2 DEF Registry
  <1>5. Seats'
    <2>1. ASSUME NEW c \in Clients, conn'[c] = "open"
          PROVE  (Live(joined[c]) /\ \E i \in DOMAIN clients[joined[c]] :
                                        clients[joined[c]][i] = c)'
      <3>1. /\ Live(joined[c])
            /\ \E i \in DOMAIN clients[joined[c]] : clients[joined[c]][i] = c
        BY <2>1 DEF Seating, Seats
      <3>2. joined[c] # s
        BY <2>1, <3>1 DEF Members
      <3>3. joined[c] \in Sessions
        BY <3>1 DEF Live, Created
      <3>4. joined[c] \in Created' /\ ~ended'[joined[c]]
        BY <1>3, <3>1, <3>2, <3>3 DEF Live
      <3>5. clients'[joined[c]] = clients[joined[c]]
        BY <3>2, <3>3 DEF TypeOK
      <3> QED  BY <3>1, <3>4, <3>5 DEF Live
    <2>2. \A t \in Sessions : clients'[t] = IF t = s THEN <<>> ELSE clients[t]
      BY DEF TypeOK
    <2>3. \A t \in Sessions : ended'[t] => clients'[t] = <<>>
      BY <2>2 DEF Seating, Seats, TypeOK
    <2>4. \A t \in Sessions : \A i \in DOMAIN clients'[t] :
             joined'[clients'[t][i]] = t
      BY <2>2 DEF Seating, Seats
    <2>5. \A t \in Sessions : \A i, j \in DOMAIN clients'[t] :
             clients'[t][i] = clients'[t][j] => i = j
      BY <2>2 DEF Seating, Seats
    <2>6. \A c \in Clients : /\ conn'[c] = "none" <=> joined'[c] = NoSession
                             /\ conn'[c] # "none" => joined'[c] \in Created'
      BY DEF Seating, Seats
    <2> QED  BY <2>1, <2>3, <2>4, <2>5, <2>6 DEF Seats
  <1>6. OneWaiting'
    <2>1. \A t \in Sessions : clients'[t] = IF t = s THEN <<>> ELSE clients[t]
      BY DEF TypeOK
    <2>2. Len(<<>>) = 0
      OBVIOUS
    <2>3. \A t \in Sessions : Len(clients'[t]) <= 2
      BY <2>1, <2>2 DEF Seating, OneWaiting
    <2>4. ASSUME NEW t \in Sessions, NEW u \in Sessions,
                 Live(t)', Len(clients'[t]) < 2, Live(u)', Len(clients'[u]) < 2
          PROVE  t = u
      BY <1>3, <2>1, <2>4 DEF Seating, OneWaiting
    <2> QED  BY <2>3, <2>4 DEF OneWaiting, Live
  <1> QED  BY <1>1, <1>4, <1>5, <1>6 DEF Seating

\* Whatever ends a session on behalf of run(), or leaves an ended one alone.
LEMMA SeatingFail ==
    ASSUME TypeOK, TypeOK', Seating, NEW s \in Created, EndUnlessEnded(s),
           UNCHANGED <<joined, id>>, Created' = Created
    PROVE  Seating'
  <1> s \in Sessions
    BY DEF Created
  <1>1. CASE ended[s]
    BY <1>1, SeatingSame DEF EndUnlessEnded, endVars
  <1>2. CASE ~ended[s]
    <2>1. Live(s)
      BY <1>2 DEF Live
    <2>2. End(s)
      BY <1>2 DEF EndUnlessEnded
    <2>3. ASSUME NEW c \in Clients
          PROVE  /\ conn'[c] = "none" <=> conn[c] = "none"
                 /\ conn'[c] = "open" => conn[c] = "open"
                 /\ conn'[c] = "open" => c \notin Members(s)
      BY <2>2 DEF End, Disconnected
    <2> QED  BY <2>1, <2>2, <2>3, SeatingEnd DEF End
  <1> QED  BY <1>1, <1>2

\* The list of the session a client joins grows by that client.
LEMMA AppendFacts ==
    ASSUME NEW old \in Seq(Clients), NEW c \in Clients
    PROVE  /\ Append(old, c) \in Seq(Clients)
           /\ Len(Append(old, c)) = Len(old) + 1
           /\ DOMAIN Append(old, c) = 1 .. Len(old) + 1
           /\ \A i \in DOMAIN old : Append(old, c)[i] = old[i]
           /\ Append(old, c)[Len(old) + 1] = c
           /\ DOMAIN old = 1 .. Len(old)
           /\ Len(old) \in Nat
  OBVIOUS

\* A client is added to a live session that has room for it, or to a new one.
LEMMA SeatingAdd ==
    ASSUME TypeOK, TypeOK', Seating, NEW c \in Clients, NEW s \in Sessions,
           conn[c] = "none", addClient(c, s), UNCHANGED ended,
           ~ended[s], Len(clients[s]) < 2,
           Created' = Created \cup {s},
           \A t \in Sessions : Live(t) /\ Len(clients[t]) < 2 => t = s,
           Registry'
    PROVE  Seating'
  <1>1. /\ joined[c] = NoSession
        /\ conn' = [conn EXCEPT ![c] = "open"]
        /\ joined' = [joined EXCEPT ![c] = s]
        /\ clients' = [clients EXCEPT ![s] = Append(clients[s], c)]
    BY DEF addClient, Seating, Seats
  <1>2. \A t \in Sessions : (Live(t))' <=> Live(t) \/ t = s
    BY DEF Live
  <1>3. \A t \in Sessions : clients[t] \in Seq(Clients)
    BY DEF TypeOK
  <1>4. \A t \in Sessions : clients'[t] = IF t = s THEN Append(clients[s], c)
                                                   ELSE clients[t]
    BY <1>1 DEF TypeOK
  <1>5. LET n == Len(clients[s])
        IN  /\ n \in Nat
            /\ DOMAIN clients[s] = 1 .. n
            /\ DOMAIN clients'[s] = 1 .. n + 1
            /\ Len(clients'[s]) = n + 1
            /\ clients'[s][n + 1] = c
            /\ \A i \in 1 .. n : clients'[s][i] = clients[s][i]
    <2>1. clients[s] \in Seq(Clients) /\ clients'[s] = Append(clients[s], c)
      BY <1>3, <1>4
    <2> QED  BY <2>1, AppendFacts
  <1>6. \A d \in Clients : joined'[d] = IF d = c THEN s ELSE joined[d]
    BY <1>1 DEF TypeOK
  <1>7. \A d \in Clients : conn'[d] = IF d = c THEN "open" ELSE conn[d]
    BY <1>1 DEF TypeOK
  <1>8. \A t \in Sessions : \A i \in DOMAIN clients[t] : clients[t][i] # c
    BY <1>1, NoSessionAssumption DEF Seating, Seats
  <1>9. Blank'
    BY <1>4 DEF Seating, Blank
  <1>10. Seats'
    <2>1. ASSUME NEW d \in Clients
          PROVE  /\ conn'[d] = "none" <=> joined'[d] = NoSession
                 /\ conn'[d] # "none" => joined'[d] \in Created'
      BY <1>5, <1>2, <1>6, <1>7, NoSessionAssumption DEF Seating, Seats, Live
    <2>2. ASSUME NEW d \in Clients, conn'[d] = "open"
          PROVE  (Live(joined[d]) /\ \E i \in DOMAIN clients[joined[d]] :
                                        clients[joined[d]][i] = d)'
      <3>1. CASE d = c
        <4>1. (Live(s))'
          BY <1>2
        <4>2. Len(clients[s]) + 1 \in DOMAIN clients'[s]
              /\ clients'[s][Len(clients[s]) + 1] = c
          BY <1>5
        <4> QED  BY <1>6, <3>1, <4>1, <4>2
      <3>2. CASE d # c
        <4>1. PICK i \in DOMAIN clients[joined[d]] :
                 Live(joined[d]) /\ clients[joined[d]][i] = d
          BY <1>7, <2>2, <3>2 DEF Seating, Seats
        <4>2. joined[d] \in Sessions /\ joined'[d] = joined[d]
          BY <1>6, <3>2, <4>1 DEF Live, Created
        <4>3. i \in DOMAIN clients'[joined[d]] /\ clients'[joined[d]][i] = d
          BY <1>5, <1>4, <4>1, <4>2
        <4> QED  BY <1>2, <4>1, <4>2, <4>3
      <3> QED  BY <3>1, <3>2
    <2>3. ASSUME NEW t \in Sessions, NEW i \in DOMAIN clients'[t]
          PROVE  joined'[clients'[t][i]] = t
      <3>1. CASE t = s /\ i = Len(clients[s]) + 1
        BY <1>5, <1>6, <3>1
      <3>2. CASE ~(t = s /\ i = Len(clients[s]) + 1)
        <4>1. i \in DOMAIN clients[t] /\ clients'[t][i] = clients[t][i]
          BY <1>5, <1>4, <2>3, <3>2
        <4>2. clients[t][i] \in Clients
          BY <1>3, <4>1
        <4> QED  BY <1>6, <1>8, <4>1, <4>2 DEF Seating, Seats
      <3> QED  BY <3>1, <3>2
    <2>4. ASSUME NEW t \in Sessions, NEW i \in DOMAIN clients'[t],
                 NEW j \in DOMAIN clients'[t], clients'[t][i] = clients'[t][j]
          PROVE  i = j
      <3>1. CASE t # s
        BY <1>4, <2>4, <3>1 DEF Seating, Seats
      <3>2. CASE t = s
        <4> DEFINE n == Len(clients[s])
        <4>1. /\ n \in Nat /\ DOMAIN clients[s] = 1 .. n
              /\ i \in 1 .. n + 1 /\ j \in 1 .. n + 1
              /\ clients'[s][n + 1] = c
              /\ \A k \in 1 .. n : clients'[s][k] = clients[s][k]
          BY <1>5, <2>4, <3>2
        <4>2. CASE i = n + 1 /\ j \in 1 .. n
          BY <1>8, <2>4, <3>2, <4>1, <4>2
        <4>3. CASE j = n + 1 /\ i \in 1 .. n
          BY <1>8, <2>4, <3>2, <4>1, <4>3
        <4>4. CASE i \in 1 .. n /\ j \in 1 .. n
          BY <2>4, <3>2, <4>1, <4>4 DEF Seating, Seats
        <4>5. CASE i = n + 1 /\ j = n + 1
          BY <4>5
        <4> QED  BY <4>1, <4>2, <4>3, <4>4, <4>5
      <3> QED  BY <3>1, <3>2
    <2>5. \A t \in Sessions : ended'[t] => clients'[t] = <<>>
      BY <1>5, <1>1, <1>4 DEF Live, Seating, Seats
    <2> QED  BY <2>1, <2>2, <2>3, <2>4, <2>5 DEF Seats
  <1>11. OneWaiting'
    <2>2. \A t \in Sessions : Len(clients'[t]) <= 2
      BY <1>5, <1>4 DEF Seating, OneWaiting
    <2>3. \A t \in Sessions :
             (Live(t))' /\ Len(clients'[t]) < 2 => t = s
      BY <1>5, <1>2, <1>4
    <2>4. \A t, u \in Sessions :
             /\ (Live(t))' /\ Len(clients'[t]) < 2
             /\ (Live(u))' /\ Len(clients'[u]) < 2
             => t = u
      BY <2>3
    <2> QED  BY <2>2, <2>4 DEF OneWaiting
  <1> QED  BY <1>9, <1>10, <1>11 DEF Seating

LEMMA SeatingJoinExisting ==
    ASSUME IInv, TypeOK', NEW c \in Clients, JoinExisting(c)
    PROVE  Seating'
  <1> USE DEF runVars
  <1>1. PICK s \in Joinable : addClient(c, s)
    BY DEF JoinExisting
  <1>2. s \in Sessions /\ Live(s) /\ Len(clients[s]) < 2
    <2>1. PICK i \in Ids : sessions[i] = s /\ s # NoSession
      BY DEF Joinable, Registered
    <2>2. Live(s) /\ s \in Sessions
      BY <2>1 DEF IInv, Seating, Registry, TypeOK
    <2>3. Len(clients[s]) \in Nat /\ ~(Len(clients[s]) >= 2)
      BY <2>2 DEF Joinable, isJoinable, requiredClientsHaveJoined,
                  RequiredClientCount, IInv, TypeOK
    <2> QED  BY <2>2, <2>3
  <1>3. conn[c] = "none" /\ UNCHANGED <<sessions, id, ended, loop>>
    BY DEF JoinExisting
  <1>4. Created' = Created
    BY <1>3 DEF Created
  <1>5. Registry'
    BY <1>3, <1>4 DEF IInv, Seating, Registry, Live
  <1> QED
    BY <1>1, <1>2, <1>3, <1>4, <1>5, SeatingAdd
       DEF IInv, Seating, OneWaiting, Live

LEMMA SeatingJoinNew ==
    ASSUME IInv, TypeOK', NEW c \in Clients, JoinNew(c)
    PROVE  Seating'
  <1>1. PICK s \in Sessions \ Created, i \in FreeIds :
           /\ id' = [id EXCEPT ![s] = i]
           /\ sessions' = [sessions EXCEPT ![i] = s]
           /\ loop' = [loop EXCEPT ![s] = "immediate"]
           /\ addClient(c, s)
    BY DEF JoinNew
  <1>2. conn[c] = "none" /\ Joinable = {} /\ UNCHANGED ended
    BY DEF JoinNew
  <1>3. i \in Ids /\ sessions[i] = NoSession
    BY DEF FreeIds
  <1>4. ~ended[s] /\ clients[s] = <<>> /\ Len(clients[s]) < 2
    BY DEF IInv, Seating, Blank
  <1>5. Created' = Created \cup {s}
    BY <1>1 DEF Created, IInv, TypeOK
  <1>6. ASSUME NEW t \in Sessions, Live(t), Len(clients[t]) < 2
        PROVE  t = s
    <2>1. t \in Registered
      BY <1>6, NoSessionAssumption DEF Registered, IInv, Seating, Registry
    <2>2. ~(Len(clients[t]) >= 2)
      BY <1>6 DEF IInv, TypeOK
    <2> QED
      BY <1>2, <1>6, <2>1, <2>2
         DEF Joinable, isJoinable, requiredClientsHaveJoined,
             RequiredClientCount, Live
  <1>7. Registry'
    <2>1. \A t \in Sessions : (Live(t))' <=> Live(t) \/ t = s
      BY <1>2, <1>4, <1>5 DEF Live
    <2>2. \A t \in Sessions : id'[t] = IF t = s THEN i ELSE id[t]
      BY <1>1 DEF IInv, TypeOK
    <2>3. \A k \in Ids : sessions'[k] = IF k = i THEN s ELSE sessions[k]
      BY <1>1 DEF IInv, TypeOK
    <2>4. ~Live(s)
      BY DEF Live
    <2>5. ASSUME NEW t \in Sessions, (Live(t))'
          PROVE  id'[t] \in Ids /\ sessions'[id'[t]] = t
      BY <1>3, <2>1, <2>2, <2>3, <2>5, NoSessionAssumption
         DEF IInv, Seating, Registry
    <2>6. ASSUME NEW k \in Ids, sessions'[k] # NoSession
          PROVE  (Live(sessions[k]) /\ id[sessions[k]] = k)'
      <3>1. CASE k = i
        BY <2>1, <2>2, <2>3, <3>1
      <3>2. CASE k # i
        <4>1. /\ sessions'[k] = sessions[k]
              /\ Live(sessions[k]) /\ id[sessions[k]] = k
          BY <2>3, <2>6, <3>2 DEF IInv, Seating, Registry
        <4>2. sessions[k] \in Sessions /\ sessions[k] # s
          BY <2>4, <4>1 DEF Live, Created
        <4>3. sessions[k] \in Created' /\ ~ended'[sessions[k]]
          BY <2>1, <4>1, <4>2 DEF Live
        <4> QED  BY <2>2, <4>1, <4>2, <4>3 DEF Live
      <3> QED  BY <3>1, <3>2
    <2> QED  BY <2>5, <2>6 DEF Registry
  <1> QED
    BY <1>1, <1>2, <1>4, <1>5, <1>6, <1>7, SeatingAdd DEF IInv

-----------------------------------------------------------------------------
(* Where the run loops are: Loops.                                         *)

\* A session ends, or none does; no loop moves and nobody joins.
LEMMA LoopsSame ==
    ASSUME TypeOK, TypeOK', Loops,
           UNCHANGED <<joined, state, loop, part, pending>>,
           \A t \in Sessions : ended[t] => ended'[t],
           \A t \in Sessions : ended'[t] \/ clients'[t] = clients[t]
    PROVE  Loops'
  <1>1. Running'
    BY DEF Loops, Running
  <1>2. FullWhenPlaying'
    BY DEF Loops, FullWhenPlaying, Live, Created
  <1>3. StoppedIsEnded'
    BY DEF Loops, StoppedIsEnded
  <1>4. Chained'
    BY DEF Loops, Chained
  <1> QED  BY <1>1, <1>2, <1>3, <1>4 DEF Loops

\* What end() leaves behind, whoever calls it.
LEMMA EndFacts ==
    ASSUME TypeOK, NEW s \in Sessions, EndUnlessEnded(s)
    PROVE  /\ ended'[s]
           /\ \A t \in Sessions : t # s => /\ ended'[t] = ended[t]
                                           /\ clients'[t] = clients[t]
  <1>1. CASE ended[s]
    BY <1>1 DEF EndUnlessEnded, endVars
  <1>2. CASE ~ended[s]
    BY <1>2 DEF EndUnlessEnded, End, TypeOK
  <1> QED  BY <1>1, <1>2

LEMMA LoopsFail ==
    ASSUME TypeOK, TypeOK', Loops, NEW s \in Created, Fail(s), UNCHANGED joined
    PROVE  Loops'
  <1> s \in Sessions
    BY DEF Created
  <1>1. /\ ended'[s]
        /\ \A t \in Sessions : t # s => /\ ended'[t] = ended[t]
                                        /\ clients'[t] = clients[t]
    BY EndFacts DEF Fail
  <1>2. \A t \in Sessions : /\ loop'[t] = IF t = s THEN "stopped" ELSE loop[t]
                            /\ pending'[t] = IF t = s THEN {} ELSE pending[t]
    BY DEF Fail, TypeOK
  <1>3. UNCHANGED <<state, part>>
    BY DEF Fail
  <1>4. Running'
    BY <1>2, <1>3 DEF Loops, Running
  <1>5. FullWhenPlaying'
    BY <1>1, <1>2, <1>3 DEF Loops, FullWhenPlaying, Live, Created
  <1>6. StoppedIsEnded'
    BY <1>1, <1>2 DEF Loops, StoppedIsEnded
  <1>7. Chained'
    BY <1>2 DEF Loops, Chained
  <1> QED  BY <1>4, <1>5, <1>6, <1>7 DEF Loops

LEMMA LoopsBegin ==
    ASSUME IInv, TypeOK', NEW s \in Created,
           NEW k \in 1 .. Len(Parts[state[s]]), Begin(s, k), UNCHANGED joined
    PROVE  Loops'
  <1> DEFINE kind == Parts[state[s]][k]
  <1> s \in Sessions
    BY DEF Created
  <1>1. CASE kind = "forward" /\ Len(clients[s]) # RequiredClientCount
    BY <1>1, LoopsFail DEF Begin, IInv
  <1>2. CASE ~(kind = "forward" /\ Len(clients[s]) # RequiredClientCount)
    <2>1. /\ loop' = [loop EXCEPT ![s] = "awaiting"]
          /\ part' = [part EXCEPT ![s] = k]
          /\ pending' = [pending EXCEPT ![s] = Chains(kind, clients[s])]
          /\ UNCHANGED <<state, conn, sessions, clients, ended>>
      BY <1>2 DEF Begin, endVars
    <2>2. \A t \in Sessions :
             /\ loop'[t] = IF t = s THEN "awaiting" ELSE loop[t]
             /\ part'[t] = IF t = s THEN k ELSE part[t]
             /\ pending'[t] = IF t = s THEN Chains(kind, clients[s])
                                       ELSE pending[t]
      BY <2>1 DEF IInv, TypeOK
    <2>3. ASSUME NEW chain \in Chains(kind, clients[s])
          PROVE  chain # <<>> /\ \A i \in DOMAIN chain : joined[chain[i]] = s
      <3>1. kind \in {"all", "forward", "sleep"}
        BY PartType DEF IInv, TypeOK
      <3>2. kind = "forward" => Len(clients[s]) = 2
        BY <1>2 DEF RequiredClientCount
      <3>3. clients[s] \in Seq(Clients)
        BY DEF IInv, TypeOK
      <3>4. /\ chain # <<>>
            /\ \A i \in DOMAIN chain : \E j \in DOMAIN clients[s] :
                  chain[i] = clients[s][j]
        BY <3>1, <3>2, <3>3, ChainsType
      <3> QED  BY <3>4 DEF IInv, Seating, Seats
    <2>4. Running'
      BY <2>1, <2>2 DEF IInv, Loops, Running
    <2>5. FullWhenPlaying'
      BY <2>1, <2>2 DEF IInv, Loops, FullWhenPlaying, Live, Created
    <2>6. StoppedIsEnded'
      BY <2>1, <2>2 DEF IInv, Loops, StoppedIsEnded
    <2>7. Chained'
      BY <2>2, <2>3 DEF IInv, Loops, Chained
    <2> QED  BY <2>4, <2>5, <2>6, <2>7 DEF Loops
  <1> QED  BY <1>1, <1>2

\* What is left of a chain whose first client has answered.
LEMMA TailFacts ==
    ASSUME NEW chain \in Seq(Clients), chain # <<>>
    PROVE  /\ Len(chain) # 1 => Tail(chain) # <<>>
           /\ \A i \in DOMAIN Tail(chain) :
                 i + 1 \in DOMAIN chain /\ Tail(chain)[i] = chain[i + 1]
  <1>1. /\ Len(chain) \in Nat /\ Len(chain) # 0
        /\ DOMAIN chain = 1 .. Len(chain)
    OBVIOUS
  <1>2. /\ Tail(chain) \in Seq(Clients)
        /\ Len(Tail(chain)) = Len(chain) - 1
        /\ \A i \in 1 .. Len(chain) - 1 : Tail(chain)[i] = chain[i + 1]
    BY <1>1
  <1>3. DOMAIN Tail(chain) = 1 .. Len(chain) - 1
    BY <1>2
  <1>4. Len(chain) # 1 => Tail(chain) # <<>>
    <2>1. \A n \in Nat : n # 0 /\ n # 1 => n - 1 # 0
      OBVIOUS
    <2>2. Len(<<>>) = 0
      OBVIOUS
    <2> QED  BY <1>1, <1>2, <2>1, <2>2
  <1> QED  BY <1>1, <1>2, <1>3, <1>4

\* Begin and Fail leave Created alone.
LEMMA BeginSeating ==
    ASSUME IInv, TypeOK', NEW s \in Created, NEW k, Begin(s, k),
           UNCHANGED <<joined, id>>
    PROVE  Seating'
  <1> s \in Sessions /\ loop[s] # "none"
    BY DEF Created
  <1>1. CASE Fail(s)
    <2>1. Created' = Created
      BY <1>1 DEF Fail, Created, IInv, TypeOK
    <2> QED  BY <1>1, <2>1, SeatingFail DEF Fail, IInv
  <1>2. CASE loop' = [loop EXCEPT ![s] = "awaiting"] /\ UNCHANGED endVars
    <2>1. Created' = Created
      BY <1>2 DEF Created, IInv, TypeOK
    <2> QED  BY <1>2, <2>1, SeatingSame DEF endVars, IInv
  <1> QED  BY <1>1, <1>2 DEF Begin

\* Joining changes nobody's exchanges, and no game under way.
LEMMA LoopsJoin ==
    ASSUME IInv, TypeOK', NEW c \in Clients, NEW s \in Sessions,
           conn[c] = "none", addClient(c, s),
           UNCHANGED <<ended, state, part, pending>>,
           \/ loop' = loop
           \/ s \notin Created /\ loop' = [loop EXCEPT ![s] = "immediate"],
           state[s] = "WaitingForPlayers"
    PROVE  Loops'
  <1>1. joined[c] = NoSession
    BY DEF IInv, Seating, Seats
  <1>2. \A t \in Sessions : t # s => clients'[t] = clients[t]
    BY DEF addClient, IInv, TypeOK
  <1>3. \A d \in Clients : d # c => joined'[d] = joined[d]
    BY DEF addClient, IInv, TypeOK
  <1>4. \A t \in Sessions :
           (loop'[t] = loop[t]) \/ (t = s /\ loop'[t] = "immediate")
    BY DEF IInv, TypeOK
  <1>5. Running'
    BY <1>4 DEF IInv, Loops, Running
  <1>6. FullWhenPlaying'
    BY <1>2, <1>4 DEF IInv, Loops, FullWhenPlaying, Live, Created
  <1>7. StoppedIsEnded'
    BY <1>4 DEF IInv, Loops, StoppedIsEnded
  <1>8. Chained'
    <2> SUFFICES ASSUME NEW t \in Sessions, NEW chain \in pending[t]
                 PROVE  chain # <<>> /\ \A i \in DOMAIN chain : joined'[chain[i]] = t
      BY DEF Chained
    <2>1. /\ chain # <<>> /\ \A i \in DOMAIN chain : joined[chain[i]] = t
          /\ chain \in Seq(Clients)
      BY DEF IInv, Loops, Chained, TypeOK
    <2> QED  BY <1>1, <1>3, <2>1, NoSessionAssumption
  <1> QED  BY <1>5, <1>6, <1>7, <1>8 DEF Loops

-----------------------------------------------------------------------------
(* Every step keeps the invariant.                                         *)

LEMMA InitIInv == Init => IInv
  <1> SUFFICES ASSUME Init
               PROVE  IInv
    OBVIOUS
  <1>1. Created = {} /\ \A s : ~Live(s)
    BY DEF Init, Created, Live
  <1>2. TypeOK
    BY DEF Init, TypeOK, States
  <1>3. Blank /\ Registry
    BY <1>1 DEF Init, Blank, Registry
  <1>4. Seats /\ OneWaiting
    BY <1>1 DEF Init, Seats, OneWaiting
  <1>5. Running /\ FullWhenPlaying /\ StoppedIsEnded /\ Chained
    BY <1>1 DEF Init, Running, FullWhenPlaying, StoppedIsEnded, Chained
  <1> QED  BY <1>2, <1>3, <1>4, <1>5 DEF IInv, Seating, Loops

LEMMA IInvStep ==
    ASSUME IInv, [Next]_vars
    PROVE  IInv'
  <1> USE DEF vars, peerVars, endVars, runVars
  <1>0. TypeOK'
    BY TypeStep DEF IInv, Loops
  <1> USE <1>0
  <1>1. ASSUME NEW c \in Clients, JoinExisting(c)
        PROVE  IInv'
    <2>1. Seating'
      BY <1>1, SeatingJoinExisting
    <2>2. PICK s \in Joinable : addClient(c, s)
      BY <1>1 DEF JoinExisting
    <2>3. s \in Sessions /\ Live(s)
      BY NoSessionAssumption
         DEF Joinable, Registered, IInv, Seating, Registry, TypeOK
    <2>4. state[s] = "WaitingForPlayers"
      BY <2>2, <2>3 DEF Joinable, isJoinable, requiredClientsHaveJoined,
                        RequiredClientCount, IInv, Loops, FullWhenPlaying
    <2>5. Loops'
      BY <1>1, <2>2, <2>3, <2>4, LoopsJoin DEF JoinExisting
    <2> QED  BY <2>1, <2>5 DEF IInv
  <1>2. ASSUME NEW c \in Clients, JoinNew(c)
        PROVE  IInv'
    <2>1. Seating'
      BY <1>2, SeatingJoinNew
    <2>2. PICK s \in Sessions \ Created :
             addClient(c, s) /\ loop' = [loop EXCEPT ![s] = "immediate"]
      BY <1>2 DEF JoinNew
    <2>3. state[s] = "WaitingForPlayers"
      BY DEF Created, IInv, Loops, Running
    <2>4. Loops'
      BY <1>2, <2>2, <2>3, LoopsJoin DEF JoinNew
    <2> QED  BY <2>1, <2>4 DEF IInv
  <1>3. ASSUME NEW s \in Sessions, TickWaiting(s)
        PROVE  IInv'
    <2>1. Seating'
      BY <1>3, SeatingSame DEF TickWaiting, IInv, Created
    <2>2. UNCHANGED <<loop, part, pending, ended, clients, joined>>
      BY <1>3 DEF TickWaiting
    <2>3. \A t \in Sessions : \/ state'[t] = state[t]
                              \/ t = s /\ Len(clients[s]) >= 2
      BY <1>3 DEF TickWaiting, requiredClientsHaveJoined, RequiredClientCount,
                  IInv, TypeOK
    <2>4. loop[s] = "immediate"
      BY <1>3 DEF TickWaiting
    <2>5. Running'
      BY <2>2, <2>3, <2>4 DEF IInv, Loops, Running
    <2>6. FullWhenPlaying'
      <3>1. Len(clients[s]) <= 2 /\ Len(clients[s]) \in Nat
        BY DEF IInv, Seating, OneWaiting, TypeOK
      <3>2. \A n \in Nat : n <= 2 /\ n >= 2 => n = 2
        OBVIOUS
      <3> QED  BY <2>2, <2>3, <3>1, <3>2 DEF IInv, Loops, FullWhenPlaying, Live,
                                       Created, RequiredClientCount
    <2>7. StoppedIsEnded' /\ Chained'
      BY <2>2 DEF IInv, Loops, StoppedIsEnded, Chained
    <2> QED  BY <2>1, <2>5, <2>6, <2>7 DEF IInv, Loops
  <1>4. ASSUME NEW s \in Sessions, TickHandler(s)
        PROVE  IInv'
    <2>1. s \in Created /\ 1 \in 1 .. Len(Parts[state[s]])
      BY <1>4, PartsType DEF TickHandler, IInv, TypeOK, Created
    <2> QED  BY <1>4, <2>1, BeginSeating, LoopsBegin DEF TickHandler, IInv
  <1>5. ASSUME NEW s \in Sessions, NextPart(s)
        PROVE  IInv'
    <2>1. s \in Created
      BY <1>5 DEF NextPart, PartDone, Created
    <2>2. part[s] + 1 \in 1 .. Len(Parts[state[s]])
      <3>1. part[s] \in 0 .. 3 /\ Len(Parts[state[s]]) \in 0 .. 3
        BY PartsType DEF IInv, TypeOK
      <3> QED  BY <1>5, <3>1 DEF NextPart
    <2> QED  BY <1>5, <2>1, <2>2, BeginSeating, LoopsBegin DEF NextPart, IInv
  <1>6. ASSUME NEW s \in Sessions, ForwardAgain(s)
        PROVE  IInv'
    <2>1. s \in Created /\ part[s] \in 1 .. Len(Parts[state[s]])
      BY <1>6 DEF ForwardAgain, PartDone, Created, IInv, Loops, Running
    <2> QED  BY <1>6, <2>1, BeginSeating, LoopsBegin DEF ForwardAgain, IInv
  <1>7. ASSUME NEW s \in Sessions, FinishHandler(s)
        PROVE  IInv'
    <2>1. \A t \in Sessions :
             /\ loop'[t] = IF t = s THEN "immediate" ELSE loop[t]
             /\ part'[t] = IF t = s THEN 0 ELSE part[t]
             /\ t # s => state'[t] = state[t]
      BY <1>7 DEF FinishHandler, IInv, TypeOK
    <2>2. /\ loop[s] = "awaiting"
          /\ UNCHANGED <<conn, joined, sessions, id, clients, ended, pending>>
      BY <1>7 DEF FinishHandler, PartDone
    <2>3. state[s] # "WaitingForPlayers"
      BY <2>2, WaitingParts DEF IInv, Loops, Running
    <2>4. Created' = Created
      BY <2>1, <2>2 DEF Created
    <2>5. Seating'
      BY <2>2, <2>4, SeatingSame DEF IInv
    <2>6. Running'
      BY <2>1 DEF IInv, Loops, Running
    <2>7. FullWhenPlaying'
      BY <2>1, <2>2, <2>3, <2>4 DEF IInv, Loops, FullWhenPlaying, Live
    <2>8. StoppedIsEnded' /\ Chained'
      BY <2>1, <2>2 DEF IInv, Loops, StoppedIsEnded, Chained
    <2> QED  BY <2>5, <2>6, <2>7, <2>8 DEF IInv, Loops
  <1>8. ASSUME NEW s \in Sessions, Reject(s)
        PROVE  IInv'
    <2>1. Fail(s) /\ UNCHANGED <<joined, id>>
      BY <1>8 DEF Reject
    <2>2. s \in Created
      <3>1. PICK chain \in pending[s] : TRUE
        BY <1>8 DEF Reject
      <3>2. chain \in Seq(Clients) /\ 1 \in DOMAIN chain
        BY DEF IInv, TypeOK, Loops, Chained
      <3>3. joined[chain[1]] = s /\ chain[1] \in Clients
        BY <3>2 DEF IInv, Loops, Chained
      <3> QED  BY <3>3, NoSessionAssumption DEF IInv, Seating, Seats
    <2>3. Created' = Created
      BY <2>1, <2>2 DEF Fail, Created, IInv, TypeOK
    <2> QED  BY <2>1, <2>2, <2>3, SeatingFail, LoopsFail DEF Fail, IInv
  <1>9. ASSUME NEW c \in Clients, DataTimeout(c)
        PROVE  IInv'
    BY <1>9, SeatingSame, LoopsSame DEF DataTimeout, IInv, TypeOK, Created
  <1>10. ASSUME NEW c \in Clients, CloseEvent(c)
         PROVE  IInv'
    <2> DEFINE s == joined[c]
    <2>1. s \in Created /\ s \in Sessions
      BY <1>10 DEF CloseEvent, IInv, Seating, Seats, Created
    <2>2. Created' = Created
      BY <1>10 DEF CloseEvent, Created
    <2>3. CASE ended[s]
      <3>1. /\ conn' = [conn EXCEPT ![c] = "closed"]
            /\ UNCHANGED <<joined, id, sessions, clients, ended, runVars>>
        BY <1>10, <2>3 DEF CloseEvent
      <3>2. conn[c] = "closing"
        BY <1>10 DEF CloseEvent
      <3>3. Seating'
        BY <2>2, <3>1, <3>2, SeatingSame DEF IInv, TypeOK
      <3> QED  BY <3>1, <3>3, LoopsSame DEF IInv
    <2>4. CASE ~ended[s]
      <3>1. /\ ended' = [ended EXCEPT ![s] = TRUE]
            /\ conn' = [Disconnected(Members(s)) EXCEPT ![c] = "closed"]
            /\ clients' = [clients EXCEPT ![s] = <<>>]
            /\ sessions' = [sessions EXCEPT ![id[s]] = NoSession]
            /\ UNCHANGED <<joined, id, runVars>>
            /\ conn[c] = "closing"
        BY <1>10, <2>4 DEF CloseEvent
      <3>2. \A d \in Clients : /\ conn'[d] = "none" <=> conn[d] = "none"
                               /\ conn'[d] = "open" => conn[d] = "open"
                               /\ conn'[d] = "open" => d \notin Members(s)
        BY <3>1 DEF Disconnected
      <3>3. Live(s)
        BY <2>1, <2>4 DEF Live
      <3>4. Seating'
        BY <2>1, <2>2, <3>1, <3>2, <3>3, SeatingEnd DEF IInv
      <3>5. \A t \in Sessions : /\ ended[t] => ended'[t]
                                /\ ended'[t] \/ clients'[t] = clients[t]
        BY <2>1, <3>1 DEF IInv, TypeOK
      <3> QED  BY <3>1, <3>4, <3>5, LoopsSame DEF IInv
    <2> QED  BY <2>3, <2>4
  <1>11. ASSUME NEW s \in Sessions, Answer(s)
         PROVE  IInv'
    <2>1. PICK chain \in pending[s] :
             pending' = [pending EXCEPT ![s] = (pending[s] \ {chain}) \cup
                 IF Len(chain) = 1 THEN {} ELSE {Tail(chain)}]
      BY <1>11 DEF Answer
    <2>2. UNCHANGED <<conn, alive, joined, sessions, id, clients, ended,
                      state, loop, part>>
      BY <1>11 DEF Answer
    <2>3. Seating'
      BY <2>2, SeatingSame DEF IInv, Created
    <2>4. Running' /\ FullWhenPlaying' /\ StoppedIsEnded'
      BY <2>2 DEF IInv, Loops, Running, FullWhenPlaying, StoppedIsEnded, Live,
                  Created
    <2>5. chain \in Seq(Clients) /\ chain # <<>>
      BY DEF IInv, TypeOK, Loops, Chained
    <2>6. /\ Len(chain) # 1 => Tail(chain) # <<>>
          /\ \A i \in DOMAIN Tail(chain) :
                i + 1 \in DOMAIN chain /\ Tail(chain)[i] = chain[i + 1]
      BY <2>5, TailFacts
    <2>7. Chained'
      <3> SUFFICES ASSUME NEW t \in Sessions, NEW ch \in pending'[t]
                   PROVE  ch # <<>> /\ \A i \in DOMAIN ch : joined[ch[i]] = t
        BY <2>2 DEF Chained
      <3>1. CASE ch \in pending[t]
        BY <3>1 DEF IInv, Loops, Chained
      <3>2. CASE t = s /\ ch = Tail(chain) /\ Len(chain) # 1
        BY <2>6, <3>2 DEF IInv, Loops, Chained
      <3> QED  BY <2>1, <3>1, <3>2 DEF IInv, TypeOK
    <2> QED  BY <2>3, <2>4, <2>7 DEF IInv, Loops
  <1>12. ASSUME NEW c \in Clients, PeerCloses(c)
         PROVE  IInv'
    BY <1>12, SeatingSame, LoopsSame DEF PeerCloses, IInv, TypeOK, Created
  <1>13. ASSUME NEW c \in Clients, PeerVanishes(c)
         PROVE  IInv'
    BY <1>13, SeatingSame, LoopsSame DEF PeerVanishes, IInv, Created
  <1>14. CASE UNCHANGED vars
    BY <1>14, SeatingSame, LoopsSame DEF IInv, Created
  <1> QED
    BY <1>1, <1>2, <1>3, <1>4, <1>5, <1>6, <1>7, <1>8, <1>9, <1>10, <1>11,
       <1>12, <1>13, <1>14 DEF Next, Tick, Continue

THEOREM Invariance == Spec => []IInv
  <1>1. IInv /\ [Next]_vars => IInv'
    BY IInvStep
  <1> QED  BY InitIInv, <1>1, PTL DEF Spec

-----------------------------------------------------------------------------
(* What follows from it.                                                   *)

\* Every variable of the server keeps its type.
THEOREM TypeCorrect == Spec => []TypeOK
  <1>1. IInv => TypeOK
    BY DEF IInv
  <1> QED  BY <1>1, Invariance, PTL

\* However many players come and go, at most one session waits for a second
\* player, so the first joinable session of the Map is the only one.
THEOREM OneJoinable == Spec => []AtMostOneJoinable
  <1>1. IInv => AtMostOneJoinable
    <2> SUFFICES ASSUME IInv, NEW s \in Joinable, NEW t \in Joinable
                 PROVE  s = t
      BY DEF AtMostOneJoinable
    <2>1. ASSUME NEW u \in Joinable
          PROVE  u \in Sessions /\ Live(u) /\ Len(clients[u]) < 2
      <3>1. u \in Sessions /\ Live(u)
        BY DEF Joinable, Registered, IInv, Seating, Registry, TypeOK
      <3>2. Len(clients[u]) \in Nat
        BY <3>1 DEF IInv, TypeOK
      <3> QED  BY <3>1, <3>2 DEF Joinable, isJoinable,
                     requiredClientsHaveJoined, RequiredClientCount
    <2> QED  BY <2>1 DEF IInv, Seating, OneWaiting
  <1> QED  BY <1>1, Invariance, PTL

\* The Map of server.ts holds the sessions that have not ended and no other,
\* although it is keyed by ids that are used again.
THEOREM ExactRegistry == Spec => []RegistryExact
  <1>1. IInv => RegistryExact
    <2> SUFFICES ASSUME IInv
                 PROVE  RegistryExact
      OBVIOUS
    <2>1. \A s \in Sessions : Live(s) => id[s] \in Ids /\ sessions[id[s]] = s
      BY DEF IInv, Seating, Registry
    <2>2. \A i \in Ids : sessions[i] # NoSession =>
             Live(sessions[i]) /\ sessions[i] \in Sessions
      BY DEF IInv, Seating, Registry, TypeOK
    <2> QED  BY <2>1, <2>2, NoSessionAssumption DEF RegistryExact, Registered
  <1> QED  BY <1>1, Invariance, PTL

\* Nobody stays connected to a server that has forgotten them, and nobody is
\* twice in a game.
THEOREM NobodyOrphaned == Spec => []NoOrphan
  <1>1. IInv => NoOrphan
    <2> SUFFICES ASSUME IInv, NEW c \in Clients, conn[c] = "open"
                 PROVE  /\ Live(joined[c])
                        /\ \E i \in DOMAIN clients[joined[c]] :
                              \A j \in DOMAIN clients[joined[c]] :
                                 clients[joined[c]][j] = c <=> j = i
      BY DEF NoOrphan
    <2>1. PICK i \in DOMAIN clients[joined[c]] :
             Live(joined[c]) /\ clients[joined[c]][i] = c
      BY DEF IInv, Seating, Seats
    <2>2. joined[c] \in Sessions
      BY <2>1 DEF Live, Created
    <2> QED  BY <2>1, <2>2 DEF IInv, Seating, Seats
  <1> QED  BY <1>1, Invariance, PTL

\* forwardClientBytes throws on behalf of ended sessions only.
THEOREM BothPlayersThere == Spec => []FullWhenPlaying
  <1>1. IInv => FullWhenPlaying
    BY DEF IInv, Loops
  <1> QED  BY <1>1, Invariance, PTL

\* A session that has ended waits for nothing but its own destroyed sockets.
THEOREM OwnExchanges == Spec => []ExchangesAreOwn
  <1>1. IInv => ExchangesAreOwn
    <2> SUFFICES ASSUME IInv, NEW s \in Sessions, NEW chain \in pending[s],
                        NEW i \in DOMAIN chain
                 PROVE  /\ joined[chain[i]] = s
                        /\ ended[s] => conn[chain[i]] \in {"closing", "closed"}
      BY DEF ExchangesAreOwn
    <2>1. joined[chain[i]] = s
      BY DEF IInv, Loops, Chained
    <2>2. chain[i] \in Clients
      BY DEF IInv, TypeOK
    <2>3. conn[chain[i]] # "none"
      BY <2>1, <2>2, NoSessionAssumption DEF IInv, Seating, Seats
    <2>4. ended[s] => conn[chain[i]] # "open"
      BY <2>1, <2>2 DEF IInv, Seating, Seats, Live
    <2> QED  BY <2>1, <2>2, <2>3, <2>4 DEF IInv, TypeOK
  <1> QED  BY <1>1, Invariance, PTL

\* No live session is left without a run loop.
THEOREM LiveIsRun == Spec => []StoppedIsEnded
  <1>1. IInv => StoppedIsEnded
    BY DEF IInv, Loops
  <1> QED  BY <1>1, Invariance, PTL
=============================================================================
