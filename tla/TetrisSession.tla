---------------------------- MODULE TetrisSession ----------------------------
(***************************************************************************)
(* One round after another of games/tetris.ts: the server plays the master *)
(* of two Game Boys that both take themselves for slaves.  Connections do  *)
(* not fail here (GameServer) and an exchange is one step (GameBoyClient). *)
(*                                                                         *)
(* The Game Boys are modelled from what tetris.ts expects of them: as on   *)
(* the cable, the byte a Game Boy answers was loaded before it hears the   *)
(* one it is sent.  A block of data (garbage, pieces, the start sequence)  *)
(* is one byte here.                                                       *)
(***************************************************************************)
EXTENDS Naturals, Sequences

CONSTANT WinsNeeded   \* 4: the wins that end a game

ASSUME WinsAssumption == WinsNeeded \in Nat \ {0}

Players == {1, 2}
Other(c) == 3 - c

VARIABLES
    state,       \* GameSession.state
    part,        \* the part of its handler that is awaited
    pos,         \* forAllClients: the step of its script each client is at
    forwarding,  \* forwardByte: whose exchange is next, 2 before 1
    lastReceivedByte,
    status,      \* client1StatusByte, client2StatusByte
    roundOver,
    wins,        \* client1WinCount, client2WinCount
    roundData,   \* which of two sets of random data was generated last
    gb           \* the Game Boys

serverVars == <<state, part, pos, forwarding, status, roundOver, wins, roundData>>
vars == <<serverVars, lastReceivedByte, gb>>

-----------------------------------------------------------------------------
(* The handlers: what each part does, in order.                            *)

Wait(tx, rx) == [op |-> "wait", tx |-> tx, rx |-> rx]
Send(tx) == [op |-> "send", tx |-> tx, rx |-> "any"]

Forward == <<[op |-> "forward", tx |-> "none", rx |-> "none"]>>
Sleep == <<[op |-> "sleep", tx |-> "none", rx |-> "none"]>>

\* A draw is announced in the bytes that poll for the end of the round.
roundEndPollByte == IF status[1] = status[2] THEN status[1] ELSE "poll"

NewRound == \A c \in Players : wins[c] < WinsNeeded

expectedByte == IF NewRound THEN "slave" ELSE "menu0"

Parts ==
    [PlayersConnected |->
        <<<<Wait("master", "slave"), Wait("music", "readyForMusic"),
            Send("confirmMusic")>>>>,
     DifficultySelection |-> <<Forward, <<Wait("confirmMenu", "slave")>>>>,
     SendingInitializationData |->
        <<<<Wait("master", "slave"), Send("garbage"),
            Wait("master", "slave"), Send("pieces")>>,
          <<Send("start")>>>>,
     Playing |->
        <<Sleep, Forward,
          <<Wait(roundEndPollByte, "readyForRoundEnd"), Send("begin")>>>>,
     RoundOver |->
        <<Sleep,
          <<Send("confirmMenu"), Wait("poll", "readyForRestart"),
            Wait("end", expectedByte)>>>>]

States == DOMAIN Parts

NextState ==
    CASE state = "PlayersConnected"          -> "DifficultySelection"
      [] state = "DifficultySelection"       -> "SendingInitializationData"
      [] state = "SendingInitializationData" -> "Playing"
      [] state = "Playing"                   -> "RoundOver"
      [] state = "RoundOver" -> IF NewRound THEN "SendingInitializationData"
                                            ELSE "DifficultySelection"

CurrentPart == Parts[state][part]

-----------------------------------------------------------------------------
(* The Game Boys.                                                          *)

Screens == {"title", "role", "music", "difficulty", "confirmed", "loaded",
            "armed", "frozen", "play", "losing", "winning", "over", "ready",
            "results", "restarting"}

Says(g) ==
    CASE g.screen = "role"                   -> {"idle", "slave"}
      [] g.screen = "music"                  -> {"idle", "readyForMusic"}
      [] g.screen = "difficulty"             -> {"menu0", "menu1"}
      [] g.screen \in {"confirmed", "loaded"} -> {"idle", "slave"}
      [] g.screen = "losing"                 -> {"lose"}
      [] g.screen = "winning"                -> {"win"}
      [] g.screen \in {"ready", "results"}   -> {"readyForRoundEnd"}
      [] g.screen = "restarting" -> {"readyForRoundEnd", "readyForRestart"}
      [] OTHER                               -> {"idle"}

To(g, screen) == [g EXCEPT !.screen = screen]
Decided(g, verdict) == [g EXCEPT !.screen = "over", !.verdict = verdict]

\* The round as this Game Boy has seen it, added to its own tally.
Tally(g) ==
    [g EXCEPT !.screen = "results",
              !.mine = IF g.verdict = "won" THEN @ + 1 ELSE @,
              !.theirs = IF g.verdict = "lost" THEN @ + 1 ELSE @]

Restart(g) ==
    IF g.mine < WinsNeeded /\ g.theirs < WinsNeeded
    THEN To(g, "confirmed")
    ELSE [g EXCEPT !.screen = "difficulty", !.mine = 0, !.theirs = 0]

\* What a byte does to a Game Boy: anything not listed is ignored.
Hears(g, byte) ==
    CASE g.screen = "losing"  -> Decided(g, "lost")
      [] g.screen = "winning" -> Decided(g, "won")
      [] g.screen = "title" /\ byte = "master"           -> To(g, "role")
      [] g.screen = "role" /\ byte = "music"             -> To(g, "music")
      [] g.screen = "music" /\ byte = "confirmMusic"     -> To(g, "difficulty")
      [] g.screen = "difficulty" /\ byte = "confirmMenu" -> To(g, "confirmed")
      [] g.screen = "confirmed" /\ byte = "garbage" ->
            [g EXCEPT !.screen = "loaded", !.garbage = roundData]
      [] g.screen = "loaded" /\ byte = "pieces" ->
            [g EXCEPT !.screen = "armed", !.pieces = roundData]
      [] g.screen = "armed" /\ byte = "start"            -> To(g, "frozen")
      [] g.screen = "play" /\ byte = "lose"              -> Decided(g, "won")
      [] g.screen = "play" /\ byte = "win"               -> Decided(g, "lost")
      [] g.screen \in {"over", "ready"} /\ \/ byte = "lose" /\ g.verdict = "lost"
                                           \/ byte = "win" /\ g.verdict = "won"
            -> [g EXCEPT !.verdict = "draw"]
      [] g.screen = "ready" /\ byte = "begin"            -> Tally(g)
      [] g.screen = "results" /\ byte = "confirmMenu"    -> To(g, "restarting")
      [] g.screen = "restarting" /\ byte = "end"         -> Restart(g)
      [] OTHER                                           -> g

\* exchangeByte with client c, as one step.
Exchange(c, tx, rx) ==
    /\ rx \in Says(gb[c])
    /\ gb' = [gb EXCEPT ![c] = Hears(@, tx)]
    /\ lastReceivedByte' = [lastReceivedByte EXCEPT ![c] = rx]

\* A Game Boy goes on by itself: the start is over, its player tops out or
\* clears 30 lines, and the end of a round has been shown.
GameBoyStep(c) ==
    /\ \E to \in Screens :
         /\ <<gb[c].screen, to>> \in {<<"frozen", "play">>, <<"play", "losing">>,
                                      <<"play", "winning">>, <<"over", "ready">>}
         /\ gb' = [gb EXCEPT ![c] = To(@, to)]
    /\ UNCHANGED <<serverVars, lastReceivedByte>>

-----------------------------------------------------------------------------
Bytes == {"master", "slave", "music", "readyForMusic", "confirmMusic", "menu0",
          "menu1", "confirmMenu", "garbage", "pieces", "start", "win", "lose",
          "poll", "readyForRoundEnd", "begin", "readyForRestart", "end",
          "idle", "none"}

TypeOK ==
    /\ state \in States
    /\ part \in 1 .. Len(Parts[state])
    /\ pos \in [Players -> 1 .. 5]
    /\ forwarding \in Players
    /\ lastReceivedByte \in [Players -> Bytes]
    /\ status \in [Players -> {"none", "win", "lose"}]
    /\ roundOver \in BOOLEAN
    /\ wins \in [Players -> 0 .. WinsNeeded]
    /\ roundData \in {0, 1}
    /\ gb \in [Players ->
                 [screen : Screens, verdict : {"none", "won", "lost", "draw"},
                  mine : 0 .. WinsNeeded, theirs : 0 .. WinsNeeded,
                  garbage : {0, 1}, pieces : {0, 1}]]

\* Both players have just joined; their Game Boys show the title screen.
Init ==
    /\ state = "PlayersConnected" /\ part = 1
    /\ pos = [c \in Players |-> 1]
    /\ forwarding = 2
    /\ lastReceivedByte = [c \in Players |-> "idle"]
    /\ status = [c \in Players |-> "none"]
    /\ roundOver = FALSE
    /\ wins = [c \in Players |-> 0]
    /\ roundData = 0
    /\ gb = [c \in Players |->
               [screen |-> "title", verdict |-> "none", mine |-> 0,
                theirs |-> 0, garbage |-> 0, pieces |-> 0]]

-----------------------------------------------------------------------------
(* forAllClients.                                                          *)

InScript == CurrentPart \notin {Forward, Sleep}

Step(c) == CurrentPart[pos[c]]
Done(c) == pos[c] > Len(CurrentPart)

\* One exchange of the script of client c; a wait goes on until the answer
\* is the one it waits for.
ScriptStep(c) ==
    /\ InScript
    /\ ~Done(c)
    /\ \E rx \in Bytes :
         /\ Exchange(c, Step(c).tx, rx)
         /\ pos' = IF Step(c).op = "send" \/ rx = Step(c).rx
                   THEN [pos EXCEPT ![c] = @ + 1]
                   ELSE pos
    /\ UNCHANGED <<state, part, forwarding, status, roundOver, wins, roundData>>

-----------------------------------------------------------------------------
(* forwardClientBytes.                                                     *)

isGameEndingByte(b) == b \in {"win", "lose"}

\* The second client answers first; onTransfer then looks at its answer and
\* at the byte the first client sent one round earlier.
ForwardToSecond ==
    /\ CurrentPart = Forward
    /\ forwarding = 2
    /\ ~(state = "Playing" /\ roundOver)
    /\ \E rx \in Bytes :
         /\ Exchange(2, lastReceivedByte[1], rx)
         /\ IF state = "Playing"
            THEN /\ status' = [c \in Players |->
                      LET b == IF c = 1 THEN lastReceivedByte[1] ELSE rx
                      IN  IF isGameEndingByte(b) THEN b ELSE status[c]]
                 /\ roundOver' = (lastReceivedByte[1] = "readyForRoundEnd"
                                   /\ rx = "readyForRoundEnd")
            ELSE UNCHANGED <<status, roundOver>>
    /\ forwarding' = 1
    /\ UNCHANGED <<state, part, pos, wins, roundData>>

ForwardToFirst ==
    /\ CurrentPart = Forward
    /\ forwarding = 1
    /\ \E rx \in Bytes : Exchange(1, lastReceivedByte[2], rx)
    /\ forwarding' = 2
    /\ UNCHANGED <<state, part, pos, status, roundOver, wins, roundData>>

-----------------------------------------------------------------------------
(* The handlers' way from part to part.                                    *)

\* Mutant: a draw is a win for the second player.
CreditNoDraw ==
    IF status[1] = "win" \/ status[2] = "lose"
    THEN [wins EXCEPT ![1] = @ + 1]
    ELSE [wins EXCEPT ![2] = @ + 1]

\* Who is credited with the round, from the status bytes seen in it.
Credit ==
    IF status[1] = status[2]
    THEN wins
    ELSE IF status[1] = "win" \/ status[2] = "lose"
         THEN [wins EXCEPT ![1] = @ + 1]
         ELSE [wins EXCEPT ![2] = @ + 1]

\* Difficulty selection ends when nothing has changed for five seconds, a
\* round when both clients have said they are ready for its end.
ForwardDone ==
    /\ CurrentPart = Forward
    /\ forwarding = 2
    /\ state = "Playing" => roundOver

\* Mutant: no pause before the first byte of a round.
NoSleep == CurrentPart = Sleep

\* The pause before a round lasts as long as the Game Boys are deaf.
SleepDone ==
    /\ CurrentPart = Sleep
    /\ \A c \in Players : gb[c].screen # "frozen"

\* Mutant: the first client to finish takes both to the next part.
AnyDone == InScript /\ \E c \in Players : Done(c)

AllDone == InScript /\ \A c \in Players : Done(c)

NextPart ==
    /\ ForwardDone \/ SleepDone \/ AllDone
    /\ part < Len(Parts[state])
    /\ part' = part + 1
    /\ pos' = [c \in Players |-> 1]
    /\ wins' = IF state = "Playing" /\ CurrentPart = Forward THEN Credit ELSE wins
    /\ UNCHANGED <<state, forwarding, status, roundOver, roundData,
                   lastReceivedByte, gb>>

\* Mutant: the wins of a game are kept into the next one.
keptScore == wins

\* Mutant: only the winner's count is reset.
resetWinner == [c \in Players |-> IF wins[c] = WinsNeeded THEN 0 ELSE wins[c]]

reset == [c \in Players |-> 0]

newData == 1 - roundData

\* The next handler starts: reset of the wins, fresh data, fresh status.
NextHandler ==
    /\ AllDone
    /\ part = Len(Parts[state])
    /\ state' = NextState
    /\ part' = 1
    /\ pos' = [c \in Players |-> 1]
    /\ wins' = IF NextState = "DifficultySelection" THEN reset ELSE wins
    /\ roundData' = IF NextState = "SendingInitializationData" THEN newData
                                                               ELSE roundData
    /\ status' = IF NextState = "Playing" THEN [c \in Players |-> "none"]
                                          ELSE status
    /\ roundOver' = FALSE
    /\ UNCHANGED <<forwarding, lastReceivedByte, gb>>

Next ==
    \/ \E c \in Players : ScriptStep(c) \/ GameBoyStep(c)
    \/ ForwardToSecond \/ ForwardToFirst
    \/ NextPart \/ NextHandler

Spec == Init /\ [][Next]_vars

-----------------------------------------------------------------------------
\* The server and both Game Boys keep the same score, through wins, losses
\* and draws that cross on the wire: they never disagree on whether another
\* round follows.
ScoresAgree ==
    state = "RoundOver" /\ part = 1 =>
        \A c \in Players : /\ gb[c].mine = wins[c]
                           /\ gb[c].theirs = wins[Other(c)]

\* The screens on which a byte of a script means what the script wants.
Accepts(tx, st) ==
    CASE tx = "master" -> {"title", "role", "confirmed", "loaded"}
      [] tx = "music" -> {"role", "music"}
      [] tx = "confirmMusic" -> {"music"}
      [] tx = "confirmMenu" /\ st = "DifficultySelection"
            -> {"difficulty", "confirmed"}
      [] tx = "confirmMenu" /\ st = "RoundOver" -> {"results"}
      [] tx = "garbage" -> {"confirmed"}
      [] tx = "pieces" -> {"loaded"}
      [] tx = "start" -> {"armed"}
      [] tx = "begin" -> {"ready"}
      [] tx = "poll" /\ st = "RoundOver" -> {"restarting"}
      [] tx = "end" -> {"restarting"} \cup
            IF \E c \in Players : wins[c] = WinsNeeded THEN {"difficulty"}
                                                      ELSE {"confirmed"}
      [] OTHER -> {"over", "ready"}

\* Every byte of a script finds its Game Boy on a screen it is meant for, and
\* bytes are forwarded only while both are on the same kind of screen: no
\* client is ever a screen ahead of the other, and none is sent anything while
\* it would freeze.
InStep ==
    /\ InScript => \A c \in Players :
          ~Done(c) => gb[c].screen \in Accepts(Step(c).tx, state)
    /\ CurrentPart = Forward =>
          \/ \A c \in Players : gb[c].screen = "difficulty"
          \/ \A c \in Players :
                gb[c].screen \in {"play", "losing", "winning", "over", "ready"}

\* Both players play a round on the same garbage and with the same pieces,
\* the ones generated for this round.
SameRoundData ==
    state = "Playing" => \A c \in Players :
        gb[c].garbage = roundData /\ gb[c].pieces = roundData

\* A game starts from nothing, for the server and for both Game Boys, whoever
\* won the one before; no round is prepared or played once a player has the wins
\* that end the game; and only one of the two ever has them.
GameEnds ==
    /\ state = "DifficultySelection" => \A c \in Players :
          wins[c] = 0 /\ gb[c].mine = 0 /\ gb[c].theirs = 0
    /\ state = "SendingInitializationData" \/ (state = "Playing" /\ part <= 2) =>
          \A c \in Players : wins[c] < WinsNeeded
    /\ \E c \in Players : wins[c] < WinsNeeded

=============================================================================
