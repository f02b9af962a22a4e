----------------------------- MODULE GameServer -----------------------------
(***************************************************************************)
(* The link cable server: the connection handler of server.ts, the session *)
(* state machine of game-session.ts and, of games/tetris.ts, the order in  *)
(* which every state handler waits for its clients.                        *)
(*                                                                         *)
(* Node runs one callback at a time, to its next await: an action is one   *)
(* such callback.  What the bytes of an exchange say is left to            *)
(* TetrisSession; how one exchange works, to GameBoyClient.  Here an       *)
(* exchange, or a loop that polls one client until it answers as expected, *)
(* is pending on its client until that client has answered.                *)
(***************************************************************************)
EXTENDS Naturals, Sequences

CONSTANTS
    Clients,     \* TCP connections; a player who comes back is a new one
    Sessions,    \* TetrisGameSession objects, each created at most once
    Ids,         \* the strings generateSessionId can return
    NoSession, NoId

ASSUME NoSessionAssumption == NoSession \notin Sessions
ASSUME NoIdAssumption == NoId \notin Ids

RequiredClientCount == 2

States == {"WaitingForPlayers", "PlayersConnected", "DifficultySelection",
           "SendingInitializationData", "Playing", "RoundOver"}

VARIABLES
    conn,      \* the socket of a client: "none", "open", "closing" (destroyed
               \* here or by the peer, "close" not emitted yet) or "closed"
    alive,     \* is the Game Boy of a client still reachable?
    joined,    \* the session a client was added to
    sessions,  \* the Map of server.ts: session by id
    id,        \* GameSession.id
    clients,   \* GameSession.clients
    ended,     \* GameSession.ended
    state,     \* GameSession.state
    loop,      \* GameSession.run: "none" before the session exists,
               \* "immediate" when the next tick is scheduled, "awaiting"
               \* inside a handler, "stopped" once run's catch has run
    part,      \* which part of the handler it is in
    pending    \* the exchanges the part awaits: a set of chains, a chain being
               \* the sequence of clients that have to answer one by one

peerVars == <<alive, joined>>
endVars == <<conn, sessions, clients, ended>>
runVars == <<state, loop, part, pending>>
vars == <<peerVars, endVars, id, runVars>>

Created == {s \in Sessions : loop[s] # "none"}
Live(s) == s \in Created /\ ~ended[s]

(***************************************************************************)
(* What a handler awaits, in order: "all" is forAllClients, "forward" one  *)
(* round of a loop over forwardClientBytes, "sleep" a timer.               *)
(***************************************************************************)
Parts ==
    [WaitingForPlayers         |-> <<>>,
     PlayersConnected          |-> <<"all">>,
     DifficultySelection       |-> <<"forward", "all">>,
     SendingInitializationData |-> <<"all", "all">>,
     Playing                   |-> <<"sleep", "forward", "all">>,
     RoundOver                 |-> <<"sleep", "all">>]

NextStates ==
    [WaitingForPlayers         |-> {"PlayersConnected"},
     PlayersConnected          |-> {"DifficultySelection"},
     DifficultySelection       |-> {"SendingInitializationData"},
     SendingInitializationData |-> {"Playing"},
     Playing                   |-> {"RoundOver"},
     RoundOver                 |-> {"SendingInitializationData",
                                    "DifficultySelection"}]

\* The second client answers a forwarded byte first, then the first one.
Chains(kind, members) ==
    CASE kind = "all"     -> {<<members[i]>> : i \in DOMAIN members}
      [] kind = "forward" -> {<<members[2], members[1]>>}
      [] kind = "sleep"   -> {}

Members(s) == {clients[s][i] : i \in DOMAIN clients[s]}

TypeOK ==
    /\ conn \in [Clients -> {"none", "open", "closing", "closed"}]
    /\ alive \in [Clients -> BOOLEAN]
    /\ joined \in [Clients -> Sessions \cup {NoSession}]
    /\ sessions \in [Ids -> Sessions \cup {NoSession}]
    /\ id \in [Sessions -> Ids \cup {NoId}]
    /\ clients \in [Sessions -> Seq(Clients)]
    /\ ended \in [Sessions -> BOOLEAN]
    /\ state \in [Sessions -> States]
    /\ loop \in [Sessions -> {"none", "immediate", "awaiting", "stopped"}]
    /\ part \in [Sessions -> 0 .. 3]
    /\ pending \in [Sessions -> SUBSET Seq(Clients)]

Init ==
    /\ conn = [c \in Clients |-> "none"]
    /\ alive = [c \in Clients |-> TRUE]
    /\ joined = [c \in Clients |-> NoSession]
    /\ sessions = [i \in Ids |-> NoSession]
    /\ id = [s \in Sessions |-> NoId]
    /\ clients = [s \in Sessions |-> <<>>]
    /\ ended = [s \in Sessions |-> FALSE]
    /\ state = [s \in Sessions |-> "WaitingForPlayers"]
    /\ loop = [s \in Sessions |-> "none"]
    /\ part = [s \in Sessions |-> 0]
    /\ pending = [s \in Sessions |-> {}]

-----------------------------------------------------------------------------
(* GameSession.end and the "end" listener of server.ts, which run at once. *)

\* Mutant: end() forgets to disconnect the clients.
DisconnectedNobody(cs) == conn

Disconnected(cs) ==
    [c \in Clients |-> IF c \in cs /\ conn[c] = "open" THEN "closing"
                                                       ELSE conn[c]]

End(s) ==
    /\ ended' = [ended EXCEPT ![s] = TRUE]
    /\ conn' = Disconnected(Members(s))
    /\ clients' = [clients EXCEPT ![s] = <<>>]
    /\ sessions' = [sessions EXCEPT ![id[s]] = NoSession]

EndUnlessEnded(s) == IF ended[s] THEN UNCHANGED endVars ELSE End(s)

-----------------------------------------------------------------------------
(* The connection handler.                                                 *)

\* Mutant: one player is enough.
oneClientHasJoined(s) == Len(clients[s]) >= RequiredClientCount - 1

requiredClientsHaveJoined(s) == Len(clients[s]) >= RequiredClientCount

isJoinable(s) == ~ended[s] /\ ~requiredClientsHaveJoined(s)

Registered == {sessions[i] : i \in Ids} \ {NoSession}
Joinable == {s \in Registered : isJoinable(s)}

addClient(c, s) ==
    /\ conn' = [conn EXCEPT ![c] = "open"]
    /\ joined' = [joined EXCEPT ![c] = s]
    /\ clients' = [clients EXCEPT ![s] = Append(@, c)]

\* The handler takes the first joinable session of the Map.
JoinExisting(c) ==
    /\ conn[c] = "none"
    /\ \E s \in Joinable : addClient(c, s)
    /\ UNCHANGED <<alive, sessions, id, ended, runVars>>

\* Mutant: the id is not checked against the Map.
AnyIds == Ids

FreeIds == {i \in Ids : sessions[i] = NoSession}

\* Mutant: a new session for everyone, whether or not one could be joined.
JoinNewAlways(c) ==
    /\ conn[c] = "none"
    /\ \E s \in Sessions \ Created, i \in FreeIds :
         /\ id' = [id EXCEPT ![s] = i]
         /\ sessions' = [sessions EXCEPT ![i] = s]
         /\ loop' = [loop EXCEPT ![s] = "immediate"]
         /\ addClient(c, s)
    /\ UNCHANGED <<alive, ended, state, part, pending>>

\* The id is drawn until it is free.  run() is called before the client is
\* added, so its first tick finds nobody and schedules the next one.
JoinNew(c) ==
    /\ conn[c] = "none"
    /\ Joinable = {}
    /\ \E s \in Sessions \ Created, i \in FreeIds :
         /\ id' = [id EXCEPT ![s] = i]
         /\ sessions' = [sessions EXCEPT ![i] = s]
         /\ loop' = [loop EXCEPT ![s] = "immediate"]
         /\ addClient(c, s)
    /\ UNCHANGED <<alive, ended, state, part, pending>>

-----------------------------------------------------------------------------
(* GameSession.run.                                                        *)

\* Mutant: the next tick is scheduled after an error as well.
FailKeepsRunning(s) ==
    /\ loop' = [loop EXCEPT ![s] = "immediate"]
    /\ pending' = [pending EXCEPT ![s] = {}]
    /\ EndUnlessEnded(s)
    /\ UNCHANGED <<state, part>>

\* run's catch: the loop is not scheduled again.
Fail(s) ==
    /\ loop' = [loop EXCEPT ![s] = "stopped"]
    /\ pending' = [pending EXCEPT ![s] = {}]
    /\ EndUnlessEnded(s)
    /\ UNCHANGED <<state, part>>

\* The handler's code up to the first await of part k; forwardClientBytes
\* throws unless exactly the required clients are there.
Begin(s, k) ==
    LET kind == Parts[state[s]][k]
    IN  IF kind = "forward" /\ Len(clients[s]) # RequiredClientCount
        THEN Fail(s)
        ELSE /\ loop' = [loop EXCEPT ![s] = "awaiting"]
             /\ part' = [part EXCEPT ![s] = k]
             /\ pending' = [pending EXCEPT ![s] = Chains(kind, clients[s])]
             /\ UNCHANGED <<state, endVars>>

\* A tick of a session that still waits for players: nothing to await.
TickWaiting(s) ==
    /\ loop[s] = "immediate"
    /\ state[s] = "WaitingForPlayers"
    /\ state' = IF requiredClientsHaveJoined(s)
                THEN [state EXCEPT ![s] = "PlayersConnected"]
                ELSE state
    /\ UNCHANGED <<peerVars, endVars, id, loop, part, pending>>

\* A tick in any other state starts the handler.
TickHandler(s) ==
    /\ loop[s] = "immediate"
    /\ state[s] # "WaitingForPlayers"
    /\ Begin(s, 1)
    /\ UNCHANGED <<peerVars, id>>

PartDone(s) == loop[s] = "awaiting" /\ pending[s] = {}

NextPart(s) ==
    /\ PartDone(s)
    /\ part[s] < Len(Parts[state[s]])
    /\ Begin(s, part[s] + 1)
    /\ UNCHANGED <<peerVars, id>>

\* The loop over forwardClientBytes goes round once more.
ForwardAgain(s) ==
    /\ PartDone(s)
    /\ Parts[state[s]][part[s]] = "forward"
    /\ Begin(s, part[s])
    /\ UNCHANGED <<peerVars, id>>

FinishHandler(s) ==
    /\ PartDone(s)
    /\ part[s] = Len(Parts[state[s]])
    /\ \E next \in NextStates[state[s]] : state' = [state EXCEPT ![s] = next]
    /\ loop' = [loop EXCEPT ![s] = "immediate"]
    /\ part' = [part EXCEPT ![s] = 0]
    /\ UNCHANGED <<peerVars, endVars, id, pending>>

\* The exchange a chain waits for is rejected: its socket is gone.  The
\* other chains have nothing left to do but be rejected as well.
Reject(s) ==
    /\ \E chain \in pending[s] : conn[Head(chain)] # "open"
    /\ Fail(s)
    /\ UNCHANGED <<peerVars, id>>

Awaited(c) == \E s \in Sessions : \E chain \in pending[s] : Head(chain) = c

\* Mutant: the timer warns but does not disconnect.
DataTimeoutWarns(c) ==
    /\ conn[c] = "open"
    /\ Awaited(c)
    /\ UNCHANGED vars

\* exchangeByte gives up after dataTimeoutMs and destroys the socket.
DataTimeout(c) ==
    /\ conn[c] = "open"
    /\ Awaited(c)
    /\ conn' = [conn EXCEPT ![c] = "closing"]
    /\ UNCHANGED <<peerVars, sessions, clients, ended, id, runVars>>

\* Mutant: a client that leaves is taken off the list and the game goes on.
CloseEventKeepsGame(c) ==
    /\ conn[c] = "closing"
    /\ conn' = [conn EXCEPT ![c] = "closed"]
    /\ clients' = [clients EXCEPT ![joined[c]] =
                      SelectSeq(@, LAMBDA d : d # c)]
    /\ UNCHANGED <<peerVars, sessions, ended, id, runVars>>

\* The "close" event of a socket: GameBoyClient emits "disconnect", and the
\* session the client was added to ends.
CloseEvent(c) ==
    /\ conn[c] = "closing"
    /\ LET s == joined[c]
       IN  IF ended[s]
           THEN /\ conn' = [conn EXCEPT ![c] = "closed"]
                /\ UNCHANGED <<sessions, clients, ended>>
           ELSE /\ ended' = [ended EXCEPT ![s] = TRUE]
                /\ conn' = [Disconnected(Members(s)) EXCEPT ![c] = "closed"]
                /\ clients' = [clients EXCEPT ![s] = <<>>]
                /\ sessions' = [sessions EXCEPT ![id[s]] = NoSession]
    /\ UNCHANGED <<peerVars, id, runVars>>

-----------------------------------------------------------------------------
(* The players.                                                            *)

\* A client answers the last byte its chain waits for from it.
Answer(s) ==
    /\ \E chain \in pending[s] :
         /\ conn[Head(chain)] = "open"
         /\ alive[Head(chain)]
         /\ pending' = [pending EXCEPT ![s] = (@ \ {chain}) \cup
              IF Len(chain) = 1 THEN {} ELSE {Tail(chain)}]
    /\ UNCHANGED <<peerVars, endVars, id, state, loop, part>>

\* A player leaves and TCP says so.
PeerCloses(c) ==
    /\ conn[c] = "open"
    /\ alive[c]
    /\ conn' = [conn EXCEPT ![c] = "closing"]
    /\ UNCHANGED <<peerVars, sessions, clients, ended, id, runVars>>

\* A player drops out and nothing says so.
PeerVanishes(c) ==
    /\ conn[c] = "open"
    /\ alive[c]
    /\ alive' = [alive EXCEPT ![c] = FALSE]
    /\ UNCHANGED <<joined, endVars, id, runVars>>

Tick(s) == TickWaiting(s) \/ TickHandler(s)
Continue(s) == NextPart(s) \/ ForwardAgain(s) \/ FinishHandler(s)

Next ==
    \/ \E c \in Clients : \/ JoinExisting(c) \/ JoinNew(c)
                          \/ PeerCloses(c) \/ PeerVanishes(c)
                          \/ DataTimeout(c) \/ CloseEvent(c)
    \/ \E s \in Sessions : Tick(s) \/ Continue(s) \/ Reject(s) \/ Answer(s)

Spec == Init /\ [][Next]_vars

(***************************************************************************)
(* Node runs every callback that is due: the ticks, the continuations of   *)
(* resolved and rejected promises, the "close" events of destroyed sockets *)
(* and the timer of an exchange nobody answers any more.  Nothing is       *)
(* promised of the players: they need not come, answer or leave.           *)
(***************************************************************************)
Fairness ==
    /\ \A s \in Sessions : /\ WF_vars(Tick(s))
                           /\ WF_vars(Continue(s))
                           /\ WF_vars(Reject(s))
    /\ \A c \in Clients : /\ WF_vars(CloseEvent(c))
                          /\ WF_vars(DataTimeout(c) /\ ~alive[c])

FairSpec == Spec /\ Fairness

-----------------------------------------------------------------------------
(* Safety.                                                                 *)

\* At most one session waits for a second player: no two players can sit in
\* two half-empty games (server.ts looks for a joinable session before it
\* makes one).
AtMostOneJoinable == \A s, t \in Joinable : s = t

\* The Map holds exactly the sessions that have not ended, each under its
\* own id, so deleting by id at the end of one game never drops another.
RegistryExact ==
    /\ Registered = {s \in Sessions : Live(s)}
    /\ \A s \in Sessions : Live(s) => sessions[id[s]] = s

\* An open connection sits, once, in the client list of the live session it
\* joined: nobody is left connected to a server that has forgotten them.
NoOrphan ==
    \A c \in Clients : conn[c] = "open" =>
        /\ Live(joined[c])
        /\ \E i \in DOMAIN clients[joined[c]] :
              \A j \in DOMAIN clients[joined[c]] :
                 clients[joined[c]][j] = c <=> j = i

\* A game that is under way and not over has both its players, so that
\* forwardClientBytes throws only once the session has ended.
FullWhenPlaying ==
    \A s \in Sessions :
        Live(s) /\ state[s] # "WaitingForPlayers"
            => Len(clients[s]) = RequiredClientCount

\* Every exchange still awaited is with a player of that game, and in a game
\* that has ended it is with a socket already destroyed: nothing is ever sent
\* to a new game's players on behalf of an old one.
ExchangesAreOwn ==
    \A s \in Sessions : \A chain \in pending[s] : \A i \in DOMAIN chain :
        /\ joined[chain[i]] = s
        /\ ended[s] => conn[chain[i]] \in {"closing", "closed"}

\* A run loop stops only when the session has ended, whatever went wrong in
\* a handler: no live session is left without somebody running it.
StoppedIsEnded == \A s \in Sessions : loop[s] = "stopped" => ended[s]

-----------------------------------------------------------------------------
(* Liveness.                                                               *)

\* When a player leaves or is dropped, the game ends for everyone in it and
\* every socket of the game is closed.
DepartureEndsGame ==
    \A c \in Clients :
        conn[c] = "closing" ~>
            \E s \in Sessions :
                /\ joined[c] = s
                /\ ended[s]
                /\ \A d \in Clients : joined[d] = s => conn[d] = "closed"

\* A player who has dropped out silently is noticed once the game waits for
\* an answer from them: the exchange times out and the game ends.
SilentPlayerEndsGame ==
    \A s \in Sessions, c \in Clients :
        (~alive[c] /\ \E chain \in pending[s] : Head(chain) = c) ~> ended[s]

\* A session that ends while a game is under way stops running: the states
\* it still goes through with no clients lead to one that throws.
StartedLoopStops ==
    \A s \in Sessions :
        (ended[s] /\ state[s] # "WaitingForPlayers") ~> loop[s] = "stopped"

-----------------------------------------------------------------------------
(* The sessions implement Matchmaking: a live session is a game, or the    *)
(* place where one player waits.                                           *)

Waiting == UNION {Members(s) : s \in {t \in Sessions :
                                 Live(t) /\ ~requiredClientsHaveJoined(t)}}
Games == {Members(s) : s \in {t \in Sessions :
                                 Live(t) /\ requiredClientsHaveJoined(t)}}
Gone == {c \in Clients : \E s \in Sessions : joined[c] = s /\ ended[s]}

Matched == INSTANCE Matchmaking
               WITH waiting <- Waiting, games <- Games, gone <- Gone

\* Players are paired as Matchmaking promises, whatever the order in which
\* they come, fall silent, leave, and in which their sockets' events run.
MatchedSpec == Matched!Spec

-----------------------------------------------------------------------------
\* What run's comment takes for granted ("Socket errors will occur naturally
\* when the game ends"): the loop of an ended session stops.
EndedLoopStops == \A s \in Sessions : ended[s] ~> loop[s] = "stopped"
=============================================================================
