------------------------- MODULE TetrisSessionProofs -------------------------
(***************************************************************************)
(* What TetrisSession promises of the score, the data and the pace of a    *)
(* game holds for any number of wins that end it.                          *)
(*                                                                         *)
(* The invariant says, part by part of the handlers, which screens the     *)
(* Game Boys show, how their tallies relate to the wins of the server and, *)
(* while a round is decided, what each of them can have made of the bytes  *)
(* that have reached it.                                                   *)
(***************************************************************************)
EXTENDS TetrisSession, TLAPS

At(st, pt) == state = st /\ part = pt

GameBoys == [screen : Screens, verdict : {"none", "won", "lost", "draw"},
             mine : 0 .. WinsNeeded, theirs : 0 .. WinsNeeded,
             garbage : {0, 1}, pieces : {0, 1}]

\* The bytes a Game Boy says.
Said == {"idle", "slave", "readyForMusic", "menu0", "menu1", "lose", "win",
         "readyForRoundEnd", "readyForRestart"}

InPlay == {"play", "losing", "winning"}
Decision == {"over", "ready"}

Sorted ==
    /\ \/ At("PlayersConnected", 1)
       \/ At("DifficultySelection", 1) \/ At("DifficultySelection", 2)
       \/ At("SendingInitializationData", 1) \/ At("SendingInitializationData", 2)
       \/ At("Playing", 1) \/ At("Playing", 2) \/ At("Playing", 3)
       \/ At("RoundOver", 1) \/ At("RoundOver", 2)
    /\ pos \in [Players -> 1 .. 5]
    /\ forwarding \in Players
    /\ lastReceivedByte \in [Players -> Said]
    /\ status \in [Players -> {"none", "win", "lose"}]
    /\ roundOver \in BOOLEAN
    /\ wins \in [Players -> 0 .. WinsNeeded]
    /\ roundData \in {0, 1}
    /\ gb \in [Players -> GameBoys]

\* Where a Game Boy shows which screen.
AfterRound == IF NewRound THEN "confirmed" ELSE "difficulty"

Shows(c, place, screens) == pos[c] = place /\ gb[c].screen \in screens

Where(c) ==
    /\ At("PlayersConnected", 1) =>
          \/ Shows(c, 1, {"title", "role"}) \/ Shows(c, 2, {"role", "music"})
          \/ Shows(c, 3, {"music"}) \/ Shows(c, 4, {"difficulty"})
    /\ At("DifficultySelection", 1) => Shows(c, 1, {"difficulty"})
    /\ At("DifficultySelection", 2) =>
          \/ Shows(c, 1, {"difficulty", "confirmed"}) \/ Shows(c, 2, {"confirmed"})
    /\ At("SendingInitializationData", 1) =>
          \/ Shows(c, 1, {"confirmed"}) \/ Shows(c, 2, {"confirmed"})
          \/ Shows(c, 3, {"loaded"}) \/ Shows(c, 4, {"loaded"})
          \/ Shows(c, 5, {"armed"})
    /\ At("SendingInitializationData", 2) =>
          \/ Shows(c, 1, {"armed"}) \/ Shows(c, 2, {"frozen"} \cup InPlay)
    /\ At("Playing", 1) => Shows(c, 1, {"frozen"} \cup InPlay)
    /\ At("Playing", 2) => Shows(c, 1, InPlay \cup Decision)
    /\ At("Playing", 3) =>
          \/ Shows(c, 1, {"ready"}) \/ Shows(c, 2, {"ready"})
          \/ Shows(c, 3, {"results"})
    /\ At("RoundOver", 1) => Shows(c, 1, {"results"})
    /\ At("RoundOver", 2) =>
          \/ Shows(c, 1, {"results"}) \/ Shows(c, 2, {"restarting"})
          \/ Shows(c, 3, {"restarting", AfterRound}) \/ Shows(c, 4, {AfterRound})

\* The tally of a Game Boy is the score of the server, but for a round the
\* server has counted and the Game Boy has not, and a game that is over for the
\* Game Boy already.
Tallied(c) == gb[c].mine = wins[c] /\ gb[c].theirs = wins[Other(c)]

Draw == status[1] = status[2]

Score(c) ==
    IF At("Playing", 3) /\ gb[c].screen = "ready"
    THEN IF Draw
         THEN /\ Tallied(c)
              /\ \/ gb[c].verdict = "draw"
                 \/ pos[c] = 1 /\ status[1] = "lose" /\ gb[c].verdict = "lost"
                 \/ pos[c] = 1 /\ status[1] = "win" /\ gb[c].verdict = "won"
         ELSE \/ /\ gb[c].verdict = "won"
                 /\ gb[c].mine + 1 = wins[c] /\ gb[c].theirs = wins[Other(c)]
              \/ /\ gb[c].verdict = "lost"
                 /\ gb[c].mine = wins[c] /\ gb[c].theirs + 1 = wins[Other(c)]
    ELSE IF At("RoundOver", 2) /\ gb[c].screen = "difficulty"
         THEN gb[c].mine = 0 /\ gb[c].theirs = 0
         ELSE Tallied(c)

\* A Game Boy that has garbage or pieces has those of this round, and so do
\* both throughout the round.
Data(c) ==
    /\ gb[c].screen \in {"loaded", "armed", "frozen"} \cup InPlay \cup Decision =>
          gb[c].garbage = roundData
    /\ gb[c].screen \in {"armed", "frozen"} \cup InPlay \cup Decision =>
          gb[c].pieces = roundData
    /\ state = "Playing" => gb[c].garbage = roundData /\ gb[c].pieces = roundData

\* Nothing is forwarded at the start of a round but the answer to its start.
Quiet(c) ==
    (At("SendingInitializationData", 2) /\ pos[c] = 2) \/ At("Playing", 1) =>
        lastReceivedByte[c] = "idle"

ClientOK(c) == Where(c) /\ Score(c) /\ Data(c) /\ Quiet(c)

\* The score the rounds start from, and what is reset before them.
Limits ==
    /\ state \in {"PlayersConnected", "DifficultySelection"} =>
          wins = [c \in Players |-> 0]
    /\ state = "SendingInitializationData" \/ At("Playing", 1) \/ At("Playing", 2) =>
          NewRound
    /\ \E c \in Players : wins[c] < WinsNeeded
    /\ At("Playing", 1) => status = [c \in Players |-> "none"]
    /\ forwarding = 1 => At("DifficultySelection", 1) \/ At("Playing", 2)
    /\ roundOver => At("Playing", 2) \/ At("Playing", 3)

\* What a client has said of the end of the round, whether it is under way to
\* the other one, and what a client has heard.
Ending(c) == lastReceivedByte[c] \in {"win", "lose"}
Told(c) == IF c = 1 /\ Ending(1) THEN lastReceivedByte[1] ELSE status[c]
UnderWay(c) == Ending(c) /\ forwarding = Other(c)
Heard(c) == IF UnderWay(Other(c)) THEN "none" ELSE Told(Other(c))

\* What a Game Boy makes of the round.  That both have lost, or won, it only
\* notices when it hears so after it has said so.
Judges(verdict, told, heard) ==
    \/ verdict = "won" /\ told = "none" /\ heard = "lose"
    \/ verdict = "lost" /\ told = "none" /\ heard = "win"
    \/ verdict = "lost" /\ told = "lose"
    \/ verdict = "won" /\ told = "win"
    \/ verdict = "draw" /\ told # "none" /\ told = heard

Duelling(c) ==
    /\ IF gb[c].screen \in InPlay
       THEN Told(c) = "none" /\ Heard(c) = "none"
       ELSE Judges(gb[c].verdict, Told(c), Heard(c))
    /\ Ending(c) => lastReceivedByte[c] = Told(c)
    /\ lastReceivedByte[c] = "readyForRoundEnd" => gb[c].screen = "ready"

Duel ==
    At("Playing", 2) =>
        /\ \A c \in Players : Duelling(c)
        /\ forwarding = 1 => status[1] = Told(1)
        /\ roundOver => \A c \in Players : lastReceivedByte[c] = "readyForRoundEnd"

IInv == Sorted /\ (\A c \in Players : ClientOK(c)) /\ Limits /\ Duel

-----------------------------------------------------------------------------
(* The scripts, part by part.                                              *)

LEMMA PartsTable ==
    /\ Parts["PlayersConnected"] =
         <<<<Wait("master", "slave"), Wait("music", "readyForMusic"),
             Send("confirmMusic")>>>>
    /\ Parts["DifficultySelection"] = <<Forward, <<Wait("confirmMenu", "slave")>>>>
    /\ Parts["SendingInitializationData"] =
         <<<<Wait("master", "slave"), Send("garbage"),
             Wait("master", "slave"), Send("pieces")>>,
           <<Send("start")>>>>
    /\ Parts["Playing"] =
         <<Sleep, Forward,
           <<Wait(roundEndPollByte, "readyForRoundEnd"), Send("begin")>>>>
    /\ Parts["RoundOver"] =
         <<Sleep,
           <<Send("confirmMenu"), Wait("poll", "readyForRestart"),
             Wait("end", expectedByte)>>>>
    /\ States = {"PlayersConnected", "DifficultySelection",
                 "SendingInitializationData", "Playing", "RoundOver"}
  BY DEF Parts, States

LEMMA Kinds ==
    /\ Forward # Sleep
    /\ \A s : s[1].op \in {"wait", "send"} => s \notin {Forward, Sleep}
  <1>1. Forward[1].op = "forward" /\ Sleep[1].op = "sleep"
    BY DEF Forward, Sleep
  <1> QED BY <1>1

\* Where there is a script, and how it goes.
LEMMA MeetingScript ==
    ASSUME At("PlayersConnected", 1)
    PROVE  /\ Len(Parts[state]) = 1 /\ Len(CurrentPart) = 3 /\ InScript
           /\ CurrentPart \notin {Forward, Sleep}
           /\ CurrentPart[1] = Wait("master", "slave")
           /\ CurrentPart[2] = Wait("music", "readyForMusic")
           /\ CurrentPart[3] = Send("confirmMusic")
  <1>1. /\ Len(Parts[state]) = 1
        /\ CurrentPart = <<Wait("master", "slave"), Wait("music", "readyForMusic"),
                           Send("confirmMusic")>>
    BY PartsTable DEF At, CurrentPart
  <1>2. CurrentPart[1].op = "wait"
    BY <1>1 DEF Wait
  <1> QED BY <1>1, <1>2, Kinds DEF InScript

LEMMA MenuScript ==
    ASSUME At("DifficultySelection", 2)
    PROVE  /\ Len(Parts[state]) = 2 /\ Len(CurrentPart) = 1 /\ InScript
           /\ CurrentPart \notin {Forward, Sleep}
           /\ CurrentPart[1] = Wait("confirmMenu", "slave")
  <1>1. /\ Len(Parts[state]) = 2
        /\ CurrentPart = <<Wait("confirmMenu", "slave")>>
    BY PartsTable DEF At, CurrentPart
  <1>2. CurrentPart[1].op = "wait"
    BY <1>1 DEF Wait
  <1> QED BY <1>1, <1>2, Kinds DEF InScript

LEMMA DataScript ==
    ASSUME At("SendingInitializationData", 1)
    PROVE  /\ Len(Parts[state]) = 2 /\ Len(CurrentPart) = 4 /\ InScript
           /\ CurrentPart \notin {Forward, Sleep}
           /\ CurrentPart[1] = Wait("master", "slave")
           /\ CurrentPart[2] = Send("garbage")
           /\ CurrentPart[3] = Wait("master", "slave")
           /\ CurrentPart[4] = Send("pieces")
  <1>1. /\ Len(Parts[state]) = 2
        /\ CurrentPart = <<Wait("master", "slave"), Send("garbage"),
                           Wait("master", "slave"), Send("pieces")>>
    BY PartsTable DEF At, CurrentPart
  <1>2. CurrentPart[1].op = "wait"
    BY <1>1 DEF Wait
  <1> QED BY <1>1, <1>2, Kinds DEF InScript

LEMMA StartScript ==
    ASSUME At("SendingInitializationData", 2)
    PROVE  /\ Len(Parts[state]) = 2 /\ Len(CurrentPart) = 1 /\ InScript
           /\ CurrentPart \notin {Forward, Sleep}
           /\ CurrentPart[1] = Send("start")
  <1>1. /\ Len(Parts[state]) = 2
        /\ CurrentPart = <<Send("start")>>
    BY PartsTable DEF At, CurrentPart
  <1>2. CurrentPart[1].op = "send"
    BY <1>1 DEF Send
  <1> QED BY <1>1, <1>2, Kinds DEF InScript

LEMMA RoundEndScript ==
    ASSUME At("Playing", 3)
    PROVE  /\ Len(Parts[state]) = 3 /\ Len(CurrentPart) = 2 /\ InScript
           /\ CurrentPart \notin {Forward, Sleep}
           /\ CurrentPart[1] = Wait(roundEndPollByte, "readyForRoundEnd")
           /\ CurrentPart[2] = Send("begin")
  <1>1. /\ Len(Parts[state]) = 3
        /\ CurrentPart = <<Wait(roundEndPollByte, "readyForRoundEnd"), Send("begin")>>
    BY PartsTable DEF At, CurrentPart
  <1>2. CurrentPart[1].op = "wait"
    BY <1>1 DEF Wait
  <1> QED BY <1>1, <1>2, Kinds DEF InScript

LEMMA RestartScript ==
    ASSUME At("RoundOver", 2)
    PROVE  /\ Len(Parts[state]) = 2 /\ Len(CurrentPart) = 3 /\ InScript
           /\ CurrentPart \notin {Forward, Sleep}
           /\ CurrentPart[1] = Send("confirmMenu")
           /\ CurrentPart[2] = Wait("poll", "readyForRestart")
           /\ CurrentPart[3] = Wait("end", expectedByte)
  <1>1. /\ Len(Parts[state]) = 2
        /\ CurrentPart = <<Send("confirmMenu"), Wait("poll", "readyForRestart"),
                           Wait("end", expectedByte)>>
    BY PartsTable DEF At, CurrentPart
  <1>2. CurrentPart[1].op = "send"
    BY <1>1 DEF Send
  <1> QED BY <1>1, <1>2, Kinds DEF InScript

\* Where there is none.
LEMMA NoScript ==
    /\ At("DifficultySelection", 1) =>
          CurrentPart = Forward /\ ~InScript /\ Len(Parts[state]) = 2
    /\ At("Playing", 1) => CurrentPart = Sleep /\ ~InScript /\ Len(Parts[state]) = 3
    /\ At("Playing", 2) => CurrentPart = Forward /\ ~InScript /\ Len(Parts[state]) = 3
    /\ At("RoundOver", 1) => CurrentPart = Sleep /\ ~InScript /\ Len(Parts[state]) = 2
  BY PartsTable DEF At, CurrentPart, InScript

-----------------------------------------------------------------------------
(* The Game Boys.                                                          *)

\* h is g on another screen, or with another verdict too, and nothing else.
Rests(h, g) ==
    /\ h \in GameBoys
    /\ h.mine = g.mine /\ h.theirs = g.theirs
    /\ h.garbage = g.garbage /\ h.pieces = g.pieces

Becomes(h, g, screen) ==
    Rests(h, g) /\ h.screen = screen /\ h.verdict = g.verdict

Judged(h, g, screen, verdict) ==
    Rests(h, g) /\ h.screen = screen /\ h.verdict = verdict

LEMMA Same ==
    ASSUME NEW g \in GameBoys
    PROVE  Becomes(g, g, g.screen)
  BY DEF Becomes, Rests

LEMMA ToBecomes ==
    ASSUME NEW g \in GameBoys, NEW s \in Screens
    PROVE  Becomes(To(g, s), g, s)
  BY DEF To, GameBoys, Becomes, Rests

LEMMA DecidedBecomes ==
    ASSUME NEW g \in GameBoys, NEW v \in {"won", "lost"}
    PROVE  Judged(Decided(g, v), g, "over", v)
  BY DEF Decided, GameBoys, Judged, Rests, Screens

LEMMA DrawBecomes ==
    ASSUME NEW g \in GameBoys
    PROVE  Judged([g EXCEPT !.verdict = "draw"], g, g.screen, "draw")
  BY DEF GameBoys, Judged, Rests

\* What they hear, screen by screen, of the bytes that reach them there.
LEMMA HearsTable ==
    ASSUME NEW g \in GameBoys, NEW b
    PROVE  /\ g.screen \in {"title", "role"} /\ b = "master" =>
                 Becomes(Hears(g, b), g, "role")
           /\ g.screen \in {"role", "music"} /\ b = "music" =>
                 Becomes(Hears(g, b), g, "music")
           /\ g.screen = "music" /\ b = "confirmMusic" =>
                 Becomes(Hears(g, b), g, "difficulty")
           /\ g.screen \in {"difficulty", "confirmed"} /\ b = "confirmMenu" =>
                 Becomes(Hears(g, b), g, "confirmed")
           /\ g.screen = "difficulty" /\ b # "confirmMenu" => Hears(g, b) = g
           /\ g.screen = "confirmed" /\ b # "garbage" =>
                 Becomes(Hears(g, b), g, "confirmed")
           /\ g.screen = "loaded" /\ b = "master" =>
                 Becomes(Hears(g, b), g, "loaded")
           /\ g.screen = "armed" /\ b = "start" =>
                 Becomes(Hears(g, b), g, "frozen")
           /\ g.screen = "results" /\ b = "confirmMenu" =>
                 Becomes(Hears(g, b), g, "restarting")
           /\ g.screen = "restarting" /\ b = "poll" =>
                 Becomes(Hears(g, b), g, "restarting")
  <1>1. /\ g.screen = "title" /\ b = "master" => Hears(g, b) = To(g, "role")
        /\ g.screen = "role" /\ b = "master" => Hears(g, b) = g
        /\ g.screen = "role" /\ b = "music" => Hears(g, b) = To(g, "music")
        /\ g.screen = "music" /\ b = "music" => Hears(g, b) = g
        /\ g.screen = "music" /\ b = "confirmMusic" =>
              Hears(g, b) = To(g, "difficulty")
        /\ g.screen = "difficulty" /\ b = "confirmMenu" =>
              Hears(g, b) = To(g, "confirmed")
        /\ g.screen = "difficulty" /\ b # "confirmMenu" => Hears(g, b) = g
        /\ g.screen = "confirmed" /\ b # "garbage" => Hears(g, b) = g
        /\ g.screen = "loaded" /\ b = "master" => Hears(g, b) = g
        /\ g.screen = "armed" /\ b = "start" => Hears(g, b) = To(g, "frozen")
        /\ g.screen = "results" /\ b = "confirmMenu" =>
              Hears(g, b) = To(g, "restarting")
        /\ g.screen = "restarting" /\ b = "poll" => Hears(g, b) = g
    BY DEF Hears
  <1>2. Becomes(g, g, g.screen)
    BY Same
  <1>3. \A s \in {"role", "music", "difficulty", "confirmed", "frozen", "restarting"} :
           Becomes(To(g, s), g, s)
    BY ToBecomes DEF Screens
  <1> QED BY <1>1, <1>2, <1>3

\* ... of the random data,
LEMMA HearsData ==
    ASSUME NEW g \in GameBoys, roundData \in {0, 1}
    PROVE  /\ g.screen = "confirmed" =>
                 LET h == Hears(g, "garbage")
                 IN  /\ h \in GameBoys /\ h.screen = "loaded"
                     /\ h.mine = g.mine /\ h.theirs = g.theirs
                     /\ h.garbage = roundData
           /\ g.screen = "loaded" =>
                 LET h == Hears(g, "pieces")
                 IN  /\ h \in GameBoys /\ h.screen = "armed"
                     /\ h.mine = g.mine /\ h.theirs = g.theirs
                     /\ h.garbage = g.garbage /\ h.pieces = roundData
  <1>1. /\ g.screen = "confirmed" =>
              Hears(g, "garbage") = [g EXCEPT !.screen = "loaded", !.garbage = roundData]
        /\ g.screen = "loaded" =>
              Hears(g, "pieces") = [g EXCEPT !.screen = "armed", !.pieces = roundData]
    BY DEF Hears
  <1> QED BY <1>1 DEF GameBoys, Screens

\* ... of the end of a round, and of that of the break after it,
LEMMA HearsRoundEnd ==
    ASSUME NEW g \in GameBoys,
           g.verdict = "won" => g.mine < WinsNeeded,
           g.verdict = "lost" => g.theirs < WinsNeeded
    PROVE  g.screen = "ready" =>
              LET h == Hears(g, "begin")
              IN  /\ h \in GameBoys /\ h.screen = "results"
                  /\ h.mine = IF g.verdict = "won" THEN g.mine + 1 ELSE g.mine
                  /\ h.theirs = IF g.verdict = "lost" THEN g.theirs + 1 ELSE g.theirs
                  /\ h.garbage = g.garbage /\ h.pieces = g.pieces
  <1>1. g.screen = "ready" => Hears(g, "begin") = Tally(g)
    BY DEF Hears
  <1> DEFINE mine == IF g.verdict = "won" THEN g.mine + 1 ELSE g.mine
             theirs == IF g.verdict = "lost" THEN g.theirs + 1 ELSE g.theirs
  <1>2. mine \in 0 .. WinsNeeded /\ theirs \in 0 .. WinsNeeded
    BY WinsAssumption DEF GameBoys
  <1>3. Tally(g) = [g EXCEPT !.screen = "results", !.mine = mine, !.theirs = theirs]
    BY DEF Tally, GameBoys
  <1> HIDE DEF mine, theirs
  <1>4. LET h == Tally(g)
        IN  /\ h \in GameBoys /\ h.screen = "results"
            /\ h.mine = mine /\ h.theirs = theirs
            /\ h.garbage = g.garbage /\ h.pieces = g.pieces
    BY <1>2, <1>3 DEF GameBoys, Screens
  <1> QED BY <1>1, <1>4 DEF mine, theirs

LEMMA HearsRestart ==
    ASSUME NEW g \in GameBoys, g.screen = "restarting"
    PROVE  /\ g.mine < WinsNeeded /\ g.theirs < WinsNeeded =>
                 Becomes(Hears(g, "end"), g, "confirmed")
           /\ ~(g.mine < WinsNeeded /\ g.theirs < WinsNeeded) =>
                 LET h == Hears(g, "end")
                 IN  /\ h \in GameBoys /\ h.screen = "difficulty"
                     /\ h.mine = 0 /\ h.theirs = 0
  <1>1. Hears(g, "end") = Restart(g)
    BY DEF Hears
  <1>2. Becomes(To(g, "confirmed"), g, "confirmed")
    BY ToBecomes DEF Screens
  <1>3. LET h == [g EXCEPT !.screen = "difficulty", !.mine = 0, !.theirs = 0]
        IN  h \in GameBoys /\ h.screen = "difficulty" /\ h.mine = 0 /\ h.theirs = 0
    <2>1. 0 \in 0 .. WinsNeeded
      BY WinsAssumption
    <2> QED BY <2>1 DEF GameBoys, Screens
  <1> QED BY <1>1, <1>2, <1>3 DEF Restart

\* ... and of each other's bytes while a round is decided.
LEMMA HearsInPlay ==
    ASSUME NEW g \in GameBoys, NEW b
    PROVE  /\ g.screen = "losing" => Judged(Hears(g, b), g, "over", "lost")
           /\ g.screen = "winning" => Judged(Hears(g, b), g, "over", "won")
           /\ g.screen = "play" /\ b = "lose" => Judged(Hears(g, b), g, "over", "won")
           /\ g.screen = "play" /\ b = "win" => Judged(Hears(g, b), g, "over", "lost")
           /\ g.screen = "play" /\ b \notin {"win", "lose"} =>
                 Becomes(Hears(g, b), g, "play")
           /\ g.screen \in Decision /\ b # "begin" =>
                 Judged(Hears(g, b), g, g.screen,
                        IF \/ b = "lose" /\ g.verdict = "lost"
                           \/ b = "win" /\ g.verdict = "won"
                        THEN "draw" ELSE g.verdict)
  <1>1. /\ g.screen = "losing" => Hears(g, b) = Decided(g, "lost")
        /\ g.screen = "winning" => Hears(g, b) = Decided(g, "won")
        /\ g.screen = "play" /\ b = "lose" => Hears(g, b) = Decided(g, "won")
        /\ g.screen = "play" /\ b = "win" => Hears(g, b) = Decided(g, "lost")
        /\ g.screen = "play" /\ b \notin {"win", "lose"} => Hears(g, b) = g
        /\ g.screen \in Decision /\ b # "begin" =>
              Hears(g, b) =
                IF \/ b = "lose" /\ g.verdict = "lost"
                   \/ b = "win" /\ g.verdict = "won"
                THEN [g EXCEPT !.verdict = "draw"] ELSE g
    BY DEF Hears, Decision
  <1>2. Becomes(g, g, g.screen) /\ Judged(g, g, g.screen, g.verdict)
    BY Same DEF Becomes, Judged
  <1>3. \A v \in {"won", "lost"} : Judged(Decided(g, v), g, "over", v)
    BY DecidedBecomes
  <1>4. Judged([g EXCEPT !.verdict = "draw"], g, g.screen, "draw")
    BY DrawBecomes
  <1> QED BY <1>1, <1>2, <1>3, <1>4

LEMMA SaysTable ==
    ASSUME NEW g \in GameBoys
    PROVE  /\ Says(g) \subseteq Said
           /\ g.screen \in {"title", "difficulty", "armed", "frozen", "play", "over",
                            "results", "ready"} => "slave" \notin Says(g)
           /\ g.screen \in {"title", "armed", "frozen", "play", "over"} =>
                 Says(g) = {"idle"}
           /\ g.screen = "role" => Says(g) = {"idle", "slave"}
           /\ g.screen = "music" => Says(g) = {"idle", "readyForMusic"}
           /\ g.screen = "difficulty" => Says(g) = {"menu0", "menu1"}
           /\ g.screen \in {"confirmed", "loaded"} => Says(g) = {"idle", "slave"}
           /\ g.screen = "losing" => Says(g) = {"lose"}
           /\ g.screen = "winning" => Says(g) = {"win"}
           /\ g.screen \in {"ready", "results"} => Says(g) = {"readyForRoundEnd"}
           /\ g.screen = "restarting" =>
                 Says(g) = {"readyForRoundEnd", "readyForRestart"}
  <1>1. g.screen \in Screens
    BY DEF GameBoys
  <1> QED BY <1>1 DEF Says, Said, Screens

-----------------------------------------------------------------------------
(* A step of a script.                                                     *)

Exchanged(c, tx, rx, place) ==
    /\ rx \in Says(gb[c])
    /\ gb'[c] = Hears(gb[c], tx)
    /\ lastReceivedByte'[c] = rx
    /\ pos'[c] = place
    /\ UNCHANGED <<state, part, forwarding, status, roundOver, wins, roundData>>

LEMMA ScriptEffect ==
    ASSUME Sorted, NEW c \in Players, ScriptStep(c)
    PROVE  /\ ~Done(c)
           /\ \A tx, want : CurrentPart[pos[c]] = Wait(tx, want) =>
                 \E rx : Exchanged(c, tx, rx, IF rx = want THEN pos[c] + 1 ELSE pos[c])
           /\ \A tx : CurrentPart[pos[c]] = Send(tx) =>
                 \E rx : Exchanged(c, tx, rx, pos[c] + 1)
  <1>1. PICK rx \in Bytes :
          /\ Exchange(c, Step(c).tx, rx)
          /\ pos' = IF Step(c).op = "send" \/ rx = Step(c).rx
                    THEN [pos EXCEPT ![c] = @ + 1] ELSE pos
    BY DEF ScriptStep
  <1>2. /\ rx \in Says(gb[c])
        /\ gb'[c] = Hears(gb[c], Step(c).tx)
        /\ lastReceivedByte'[c] = rx
    BY <1>1 DEF Exchange, Sorted
  <1>3. /\ Step(c).op = "send" => pos'[c] = pos[c] + 1
        /\ Step(c).op # "send" =>
              pos'[c] = IF rx = Step(c).rx THEN pos[c] + 1 ELSE pos[c]
    BY <1>1 DEF Sorted
  <1>4. ~Done(c) /\ UNCHANGED <<state, part, forwarding, status, roundOver, wins, roundData>>
    BY DEF ScriptStep
  <1>5. ASSUME NEW tx, NEW want, CurrentPart[pos[c]] = Wait(tx, want)
        PROVE  Exchanged(c, tx, rx, IF rx = want THEN pos[c] + 1 ELSE pos[c])
    <2>1. Step(c).op = "wait" /\ Step(c).tx = tx /\ Step(c).rx = want
      BY <1>5 DEF Step, Wait
    <2> QED BY <2>1, <1>2, <1>3, <1>4 DEF Exchanged
  <1>6. ASSUME NEW tx, CurrentPart[pos[c]] = Send(tx)
        PROVE  Exchanged(c, tx, rx, pos[c] + 1)
    <2>1. Step(c).op = "send" /\ Step(c).tx = tx
      BY <1>6 DEF Step, Send
    <2> QED BY <2>1, <1>2, <1>3, <1>4 DEF Exchanged
  <1> QED BY <1>4, <1>5, <1>6

LEMMA ScriptKept ==
    ASSUME IInv, NEW c \in Players, ScriptStep(c), ClientOK(c)',
           gb'[c] \in GameBoys, pos'[c] \in 1 .. 5
    PROVE  IInv'
  <1>1. ~At("Playing", 2)
    BY NoScript DEF ScriptStep
  <1>2. PICK rx \in Bytes :
          /\ Exchange(c, Step(c).tx, rx)
          /\ pos' = IF Step(c).op = "send" \/ rx = Step(c).rx
                    THEN [pos EXCEPT ![c] = @ + 1] ELSE pos
    BY DEF ScriptStep
  <1>3. UNCHANGED <<state, part, forwarding, status, roundOver, wins, roundData>>
    BY DEF ScriptStep
  <1>4. /\ gb' \in [Players -> GameBoys] /\ lastReceivedByte' \in [Players -> Said]
        /\ pos' \in [Players -> 1 .. 5]
        /\ \A d \in Players : d # c =>
              /\ gb'[d] = gb[d] /\ pos'[d] = pos[d]
              /\ lastReceivedByte'[d] = lastReceivedByte[d]
    <2>1. rx \in Said
      BY <1>2, SaysTable DEF Exchange, IInv, Sorted
    <2> QED BY <1>2, <2>1 DEF Exchange, IInv, Sorted
  <1>5. Sorted'
    BY <1>3, <1>4 DEF IInv, Sorted, At
  <1>6. ASSUME NEW d \in Players, d # c
        PROVE  ClientOK(d)'
    BY <1>6, <1>3, <1>4 DEF IInv, ClientOK, Where, Shows, AfterRound, NewRound, Score,
       Tallied, Draw, Data, Quiet, At
  <1>7. Limits' /\ Duel'
    BY <1>1, <1>3 DEF IInv, Limits, Duel, At, NewRound
  <1> QED BY <1>5, <1>6, <1>7 DEF IInv

-----------------------------------------------------------------------------
(* The scripts.                                                            *)

LEMMA MeetingStep ==
    ASSUME IInv, NEW c \in Players, ScriptStep(c), At("PlayersConnected", 1)
    PROVE  ClientOK(c)' /\ gb'[c] \in GameBoys /\ pos'[c] \in 1 .. 5
  <1>1. gb[c] \in GameBoys /\ ClientOK(c) /\ Sorted
    BY DEF IInv, Sorted
  <1>2. /\ pos[c] \in {1, 2, 3, 4} /\ Tallied(c)
        /\ pos[c] = 1 => gb[c].screen \in {"title", "role"}
        /\ pos[c] = 2 => gb[c].screen \in {"role", "music"}
        /\ pos[c] = 3 => gb[c].screen = "music"
    BY <1>1 DEF ClientOK, Where, Shows, Score, At
  <1>3. pos[c] # 4
    <2>1. ~(pos[c] > 3)
      BY MeetingScript DEF ScriptStep, Done
    <2> QED BY <2>1
  <1>4. ASSUME NEW tx, NEW rx, NEW place \in {1, 2, 3, 4},
               Exchanged(c, tx, rx, place), NEW screen,
               Becomes(gb'[c], gb[c], screen),
               \/ place = 1 /\ screen \in {"title", "role"}
               \/ place = 2 /\ screen \in {"role", "music"}
               \/ place = 3 /\ screen = "music"
               \/ place = 4 /\ screen = "difficulty"
        PROVE  ClientOK(c)' /\ gb'[c] \in GameBoys /\ pos'[c] \in 1 .. 5
    BY <1>2, <1>4 DEF Exchanged, Becomes, Rests, ClientOK, Where, Shows, Score, Tallied,
       Data, Quiet, At, InPlay, Decision
  <1>5. CASE pos[c] = 1
    <2>1. PICK rx : Exchanged(c, "master", rx, IF rx = "slave" THEN 2 ELSE 1)
      BY <1>1, <1>5, MeetingScript, ScriptEffect
    <2>2. Becomes(gb'[c], gb[c], "role")
      BY <1>1, <1>2, <1>5, <2>1, HearsTable DEF Exchanged
    <2> QED BY <2>1, <2>2, <1>4
  <1>6. CASE pos[c] = 2
    <2>1. PICK rx : Exchanged(c, "music", rx, IF rx = "readyForMusic" THEN 3 ELSE 2)
      BY <1>1, <1>6, MeetingScript, ScriptEffect
    <2>2. Becomes(gb'[c], gb[c], "music")
      BY <1>1, <1>2, <1>6, <2>1, HearsTable DEF Exchanged
    <2> QED BY <2>1, <2>2, <1>4
  <1>7. CASE pos[c] = 3
    <2>1. PICK rx : Exchanged(c, "confirmMusic", rx, 4)
      BY <1>1, <1>7, MeetingScript, ScriptEffect
    <2>2. Becomes(gb'[c], gb[c], "difficulty")
      BY <1>1, <1>2, <1>7, <2>1, HearsTable DEF Exchanged
    <2> QED BY <2>1, <2>2, <1>4
  <1> QED BY <1>2, <1>3, <1>5, <1>6, <1>7

LEMMA MenuStep ==
    ASSUME IInv, NEW c \in Players, ScriptStep(c), At("DifficultySelection", 2)
    PROVE  ClientOK(c)' /\ gb'[c] \in GameBoys /\ pos'[c] \in 1 .. 5
  <1>1. gb[c] \in GameBoys /\ ClientOK(c) /\ Sorted
    BY DEF IInv, Sorted
  <1>2. /\ pos[c] \in {1, 2} /\ Tallied(c)
        /\ pos[c] = 1 => gb[c].screen \in {"difficulty", "confirmed"}
    BY <1>1 DEF ClientOK, Where, Shows, Score, At
  <1>3. pos[c] = 1
    <2>1. ~(pos[c] > 1)
      BY MenuScript DEF ScriptStep, Done
    <2> QED BY <2>1, <1>2
  <1>4. PICK rx : Exchanged(c, "confirmMenu", rx, IF rx = "slave" THEN 2 ELSE 1)
    BY <1>1, <1>3, MenuScript, ScriptEffect
  <1>5. Becomes(gb'[c], gb[c], "confirmed")
    BY <1>1, <1>2, <1>3, <1>4, HearsTable DEF Exchanged
  <1> QED BY <1>2, <1>4, <1>5 DEF Exchanged, Becomes, Rests, ClientOK, Where,
      Shows, Score, Tallied, Data, Quiet, At, InPlay, Decision

LEMMA DataStep ==
    ASSUME IInv, NEW c \in Players, ScriptStep(c), At("SendingInitializationData", 1)
    PROVE  ClientOK(c)' /\ gb'[c] \in GameBoys /\ pos'[c] \in 1 .. 5
  <1>1. gb[c] \in GameBoys /\ ClientOK(c) /\ Sorted /\ roundData \in {0, 1}
    BY DEF IInv, Sorted
  <1>2. /\ pos[c] \in {1, 2, 3, 4, 5} /\ Tallied(c)
        /\ pos[c] \in {1, 2} => gb[c].screen = "confirmed"
        /\ pos[c] \in {3, 4} => gb[c].screen = "loaded" /\ gb[c].garbage = roundData
    BY <1>1 DEF ClientOK, Where, Shows, Score, Data, At
  <1>3. pos[c] # 5
    <2>1. ~(pos[c] > 4)
      BY DataScript DEF ScriptStep, Done
    <2> QED BY <2>1
  <1>4. ASSUME NEW tx, NEW rx, NEW place \in {1, 2, 3, 4, 5},
               Exchanged(c, tx, rx, place), gb'[c] \in GameBoys,
               gb'[c].mine = gb[c].mine, gb'[c].theirs = gb[c].theirs,
               \/ place \in {1, 2} /\ gb'[c].screen = "confirmed"
               \/ place \in {3, 4} /\ gb'[c].screen = "loaded"
                                   /\ gb'[c].garbage = roundData
               \/ place = 5 /\ gb'[c].screen = "armed"
                            /\ gb'[c].garbage = roundData /\ gb'[c].pieces = roundData
        PROVE  ClientOK(c)' /\ gb'[c] \in GameBoys /\ pos'[c] \in 1 .. 5
    BY <1>2, <1>4 DEF Exchanged, ClientOK, Where, Shows, Score, Tallied, Data,
       Quiet, At, InPlay, Decision
  <1>5. CASE pos[c] = 1
    <2>1. PICK rx : Exchanged(c, "master", rx, IF rx = "slave" THEN 2 ELSE 1)
      BY <1>1, <1>5, DataScript, ScriptEffect
    <2>2. Becomes(gb'[c], gb[c], "confirmed")
      BY <1>1, <1>2, <1>5, <2>1, HearsTable DEF Exchanged
    <2> QED BY <2>1, <2>2, <1>4 DEF Becomes, Rests
  <1>6. CASE pos[c] = 2
    <2>1. PICK rx : Exchanged(c, "garbage", rx, 3)
      BY <1>1, <1>6, DataScript, ScriptEffect
    <2> QED BY <2>1, <1>1, <1>2, <1>6, <1>4, HearsData DEF Exchanged
  <1>7. CASE pos[c] = 3
    <2>1. PICK rx : Exchanged(c, "master", rx, IF rx = "slave" THEN 4 ELSE 3)
      BY <1>1, <1>7, DataScript, ScriptEffect
    <2>2. Becomes(gb'[c], gb[c], "loaded")
      BY <1>1, <1>2, <1>7, <2>1, HearsTable DEF Exchanged
    <2> QED BY <2>1, <2>2, <1>2, <1>7, <1>4 DEF Becomes, Rests
  <1>8. CASE pos[c] = 4
    <2>1. PICK rx : Exchanged(c, "pieces", rx, 5)
      BY <1>1, <1>8, DataScript, ScriptEffect
    <2> QED BY <2>1, <1>1, <1>2, <1>8, <1>4, HearsData DEF Exchanged
  <1> QED BY <1>2, <1>3, <1>5, <1>6, <1>7, <1>8

LEMMA StartStep ==
    ASSUME IInv, NEW c \in Players, ScriptStep(c), At("SendingInitializationData", 2)
    PROVE  ClientOK(c)' /\ gb'[c] \in GameBoys /\ pos'[c] \in 1 .. 5
  <1>1. gb[c] \in GameBoys /\ ClientOK(c) /\ Sorted
    BY DEF IInv, Sorted
  <1>2. pos[c] \in {1, 2} /\ Tallied(c)
    BY <1>1 DEF ClientOK, Where, Shows, Score, At
  <1>3. pos[c] = 1
    <2>1. ~(pos[c] > 1)
      BY StartScript DEF ScriptStep, Done
    <2> QED BY <2>1, <1>2
  <1>4. gb[c].screen = "armed" /\ gb[c].garbage = roundData /\ gb[c].pieces = roundData
    BY <1>1, <1>3 DEF ClientOK, Where, Shows, Data, At
  <1>5. PICK rx : Exchanged(c, "start", rx, 2)
    BY <1>1, <1>3, StartScript, ScriptEffect
  <1>6. Becomes(gb'[c], gb[c], "frozen") /\ rx = "idle"
    BY <1>1, <1>4, <1>5, HearsTable, SaysTable DEF Exchanged
  <1> QED BY <1>2, <1>4, <1>5, <1>6 DEF Exchanged, Becomes, Rests, ClientOK,
      Where, Shows, Score, Tallied, Data, Quiet, At, InPlay, Decision

LEMMA RoundEndStep ==
    ASSUME IInv, NEW c \in Players, ScriptStep(c), At("Playing", 3)
    PROVE  ClientOK(c)' /\ gb'[c] \in GameBoys /\ pos'[c] \in 1 .. 5
  <1>1. gb[c] \in GameBoys /\ ClientOK(c) /\ Sorted
    BY DEF IInv, Sorted
  <1>2. /\ pos[c] \in {1, 2, 3}
        /\ pos[c] \in {1, 2} => gb[c].screen = "ready"
        /\ gb[c].garbage = roundData /\ gb[c].pieces = roundData
    BY <1>1 DEF ClientOK, Where, Shows, Data, At
  <1>3. pos[c] # 3
    <2>1. ~(pos[c] > 2)
      BY RoundEndScript DEF ScriptStep, Done
    <2> QED BY <2>1
  <1>4. CASE pos[c] = 1
    <2>1. PICK rx : Exchanged(c, roundEndPollByte, rx,
                              IF rx = "readyForRoundEnd" THEN 2 ELSE 1)
      BY <1>1, <1>4, RoundEndScript, ScriptEffect
    <2>2. rx = "readyForRoundEnd" /\ pos'[c] = 2
      BY <2>1, <1>1, <1>2, <1>4, SaysTable DEF Exchanged
    <2>3. roundEndPollByte # "begin"
      BY <1>1 DEF roundEndPollByte, Sorted, Players
    <2>4. Judged(gb'[c], gb[c], "ready",
                 IF \/ roundEndPollByte = "lose" /\ gb[c].verdict = "lost"
                    \/ roundEndPollByte = "win" /\ gb[c].verdict = "won"
                 THEN "draw" ELSE gb[c].verdict)
      BY <2>1, <2>3, <1>1, <1>2, <1>4, HearsInPlay DEF Exchanged, Decision
    <2>5. /\ gb'[c] \in GameBoys /\ gb'[c].screen = "ready"
          /\ gb'[c].mine = gb[c].mine /\ gb'[c].theirs = gb[c].theirs
          /\ gb'[c].garbage = roundData /\ gb'[c].pieces = roundData
          /\ UNCHANGED <<state, part, status, wins, roundData>>
      BY <2>1, <2>4, <1>2 DEF Judged, Rests, Exchanged
    <2>6. CASE Draw
      <3>1. Tallied(c) /\ gb'[c].verdict = "draw"
        BY <1>1, <1>2, <1>4, <2>4, <2>6 DEF ClientOK, Score, Judged, Draw,
           roundEndPollByte, At
      <3> QED BY <3>1, <2>2, <2>5, <2>6 DEF ClientOK, Where, Shows, Score,
          Tallied, Draw, Data, Quiet, At
    <2>7. CASE ~Draw
      <3>1. gb'[c].verdict = gb[c].verdict
        BY <2>4, <2>7 DEF Judged, Draw, roundEndPollByte
      <3>2. Score(c)'
        BY <3>1, <1>1, <1>2, <1>4, <2>2, <2>5, <2>7
           DEF ClientOK, Score, Draw, At
      <3> QED BY <3>2, <2>2, <2>5 DEF ClientOK, Where, Shows, Data, Quiet, At
    <2> QED BY <2>6, <2>7
  <1>5. CASE pos[c] = 2
    <2>1. PICK rx : Exchanged(c, "begin", rx, 3)
      BY <1>1, <1>5, RoundEndScript, ScriptEffect
    <2>2. /\ gb[c].mine \in 0 .. WinsNeeded /\ gb[c].theirs \in 0 .. WinsNeeded
          /\ wins[c] \in 0 .. WinsNeeded /\ wins[Other(c)] \in 0 .. WinsNeeded
      BY <1>1 DEF GameBoys, Sorted, Players, Other
    <2>3. IF Draw
          THEN Tallied(c) /\ gb[c].verdict = "draw"
          ELSE \/ /\ gb[c].verdict = "won"
                  /\ gb[c].mine + 1 = wins[c] /\ gb[c].theirs = wins[Other(c)]
               \/ /\ gb[c].verdict = "lost"
                  /\ gb[c].mine = wins[c] /\ gb[c].theirs + 1 = wins[Other(c)]
      BY <1>1, <1>2, <1>5 DEF ClientOK, Score
    <2>4. /\ gb[c].verdict = "won" => gb[c].mine < WinsNeeded
          /\ gb[c].verdict = "lost" => gb[c].theirs < WinsNeeded
      BY <2>2, <2>3, WinsAssumption
    <2>5. /\ gb'[c] \in GameBoys /\ gb'[c].screen = "results"
          /\ gb'[c].mine = IF gb[c].verdict = "won" THEN gb[c].mine + 1
                                                    ELSE gb[c].mine
          /\ gb'[c].theirs = IF gb[c].verdict = "lost" THEN gb[c].theirs + 1
                                                       ELSE gb[c].theirs
          /\ gb'[c].garbage = roundData /\ gb'[c].pieces = roundData
      BY <2>1, <2>4, <1>1, <1>2, <1>5, HearsRoundEnd DEF Exchanged
    <2>6. gb'[c].mine = wins[c] /\ gb'[c].theirs = wins[Other(c)]
      BY <2>3, <2>5 DEF Tallied
    <2> QED BY <2>1, <2>5, <2>6 DEF Exchanged, ClientOK, Where, Shows, Score,
        Tallied, Data, Quiet, At
  <1> QED BY <1>2, <1>3, <1>4, <1>5

LEMMA RestartStep ==
    ASSUME IInv, NEW c \in Players, ScriptStep(c), At("RoundOver", 2)
    PROVE  ClientOK(c)' /\ gb'[c] \in GameBoys /\ pos'[c] \in 1 .. 5
  <1>1. gb[c] \in GameBoys /\ ClientOK(c) /\ Sorted
    BY DEF IInv, Sorted
  <1>2. /\ pos[c] \in {1, 2, 3, 4}
        /\ pos[c] = 1 => gb[c].screen = "results"
        /\ pos[c] = 2 => gb[c].screen = "restarting"
        /\ pos[c] = 3 => gb[c].screen \in {"restarting", AfterRound}
        /\ IF gb[c].screen = "difficulty" THEN gb[c].mine = 0 /\ gb[c].theirs = 0
                                          ELSE Tallied(c)
    BY <1>1 DEF ClientOK, Where, Shows, Score, At
  <1>3. pos[c] # 4
    <2>1. ~(pos[c] > 3)
      BY RestartScript DEF ScriptStep, Done
    <2> QED BY <2>1
  <1>4. AfterRound \in {"confirmed", "difficulty"}
    BY DEF AfterRound
  <1>5. ASSUME NEW tx, NEW rx, NEW place \in {2, 3, 4},
               Exchanged(c, tx, rx, place), gb'[c] \in GameBoys,
               \/ place = 2 /\ gb'[c].screen = "restarting"
               \/ place = 3 /\ gb'[c].screen \in {"restarting", AfterRound}
               \/ place = 4 /\ gb'[c].screen = AfterRound,
               IF gb'[c].screen = "difficulty"
               THEN gb'[c].mine = 0 /\ gb'[c].theirs = 0
               ELSE gb'[c].mine = wins[c] /\ gb'[c].theirs = wins[Other(c)]
        PROVE  ClientOK(c)' /\ gb'[c] \in GameBoys /\ pos'[c] \in 1 .. 5
    <2>1. AfterRound' = AfterRound
      BY <1>5 DEF Exchanged, AfterRound, NewRound
    <2> QED BY <1>4, <1>5, <2>1 DEF Exchanged, ClientOK, Where, Shows, Score,
        Tallied, Data, Quiet, At, InPlay, Decision
  <1>6. CASE pos[c] = 1
    <2>1. PICK rx : Exchanged(c, "confirmMenu", rx, 2)
      BY <1>1, <1>6, RestartScript, ScriptEffect
    <2>2. Becomes(gb'[c], gb[c], "restarting")
      BY <1>1, <1>2, <1>6, <2>1, HearsTable DEF Exchanged
    <2> QED BY <2>1, <2>2, <1>2, <1>6, <1>5 DEF Becomes, Rests, Tallied
  <1>7. CASE pos[c] = 2
    <2>1. PICK rx : Exchanged(c, "poll", rx, IF rx = "readyForRestart" THEN 3 ELSE 2)
      BY <1>1, <1>7, RestartScript, ScriptEffect
    <2>2. Becomes(gb'[c], gb[c], "restarting")
      BY <1>1, <1>2, <1>7, <2>1, HearsTable DEF Exchanged
    <2> QED BY <2>1, <2>2, <1>2, <1>7, <1>5 DEF Becomes, Rests, Tallied
  <1>8. CASE pos[c] = 3
    <2>1. PICK rx : Exchanged(c, "end", rx, IF rx = expectedByte THEN 4 ELSE 3)
      BY <1>1, <1>8, RestartScript, ScriptEffect
    <2>2. CASE gb[c].screen = "restarting"
      <3>1. rx # expectedByte
        BY <2>1, <2>2, <1>1, SaysTable DEF Exchanged, expectedByte
      <3>2. Tallied(c) /\ gb'[c] = Hears(gb[c], "end")
        BY <2>1, <2>2, <1>2 DEF Exchanged
      <3>3. NewRound <=> gb[c].mine < WinsNeeded /\ gb[c].theirs < WinsNeeded
        BY <3>2 DEF Tallied, NewRound, Players, Other
      <3>4. CASE NewRound
        <4>1. Becomes(gb'[c], gb[c], "confirmed") /\ AfterRound = "confirmed"
          BY <3>2, <3>3, <3>4, <2>2, <1>1, HearsRestart DEF AfterRound
        <4> QED BY <4>1, <3>1, <3>2, <2>1, <1>5 DEF Becomes, Rests, Tallied
      <3>5. CASE ~NewRound
        <4>1. /\ gb'[c] \in GameBoys /\ gb'[c].screen = "difficulty"
              /\ gb'[c].mine = 0 /\ gb'[c].theirs = 0 /\ AfterRound = "difficulty"
          BY <3>2, <3>3, <3>5, <2>2, <1>1, HearsRestart DEF AfterRound
        <4> QED BY <4>1, <3>1, <2>1, <1>5
      <3> QED BY <3>4, <3>5
    <2>3. CASE gb[c].screen = AfterRound
      <3>1. Becomes(gb'[c], gb[c], AfterRound)
        BY <2>1, <2>3, <1>1, <1>4, HearsTable, Same DEF Exchanged
      <3> QED BY <3>1, <2>1, <2>3, <1>2, <1>5 DEF Becomes, Rests, Tallied
    <2> QED BY <1>2, <1>8, <2>2, <2>3
  <1> QED BY <1>2, <1>3, <1>6, <1>7, <1>8

LEMMA ScriptSteps ==
    ASSUME IInv, NEW c \in Players, ScriptStep(c)
    PROVE  IInv'
  <1>1. \/ At("PlayersConnected", 1) \/ At("DifficultySelection", 2)
        \/ At("SendingInitializationData", 1) \/ At("SendingInitializationData", 2)
        \/ At("Playing", 3) \/ At("RoundOver", 2)
    BY NoScript DEF IInv, Sorted, ScriptStep
  <1> QED BY <1>1, MeetingStep, MenuStep, DataStep, StartStep, RoundEndStep,
      RestartStep, ScriptKept

-----------------------------------------------------------------------------
(* What a Game Boy does by itself.                                         *)

LEMMA GameBoySteps ==
    ASSUME IInv, NEW c \in Players, GameBoyStep(c)
    PROVE  IInv'
  <1>1. PICK to \in Screens :
          /\ <<gb[c].screen, to>> \in {<<"frozen", "play">>, <<"play", "losing">>,
                                       <<"play", "winning">>, <<"over", "ready">>}
          /\ gb' = [gb EXCEPT ![c] = To(@, to)]
    BY DEF GameBoyStep
  <1>2. /\ UNCHANGED <<state, part, pos, forwarding, status, roundOver, wins,
                       roundData, lastReceivedByte>>
        /\ Sorted /\ gb[c] \in GameBoys
    BY DEF GameBoyStep, serverVars, IInv, Sorted
  <1>3. /\ Becomes(gb'[c], gb[c], to) /\ gb' \in [Players -> GameBoys]
        /\ \A d \in Players : d # c => gb'[d] = gb[d]
    <2>1. Becomes(To(gb[c], to), gb[c], to)
      BY <1>2, ToBecomes
    <2> QED BY <2>1, <1>1, <1>2 DEF Becomes, Rests, Sorted
  <1>4. /\ gb[c].screen \in {"frozen", "play", "over"}
        /\ gb[c].screen = "frozen" => to = "play"
        /\ gb[c].screen = "play" => to \in {"losing", "winning"}
        /\ gb[c].screen = "over" => to = "ready"
    BY <1>1
  <1>5. Sorted'
    BY <1>2, <1>3 DEF Sorted, At
  <1>6. ASSUME NEW d \in Players, d # c
        PROVE  ClientOK(d)'
    BY <1>6, <1>2, <1>3 DEF IInv, ClientOK, Where, Shows, AfterRound, NewRound, Score,
       Tallied, Draw, Data, Quiet, At
  <1>7. ClientOK(c) /\ AfterRound \in {"confirmed", "difficulty"}
    BY DEF IInv, AfterRound
  <1>8. \/ At("SendingInitializationData", 2) /\ pos[c] = 2 /\ to \in InPlay
        \/ At("Playing", 1) /\ pos[c] = 1 /\ to \in InPlay
        \/ At("Playing", 2) /\ pos[c] = 1 /\ to \in InPlay \cup Decision
    BY <1>2, <1>4, <1>7 DEF Sorted, ClientOK, Where, Shows, At, InPlay, Decision
  <1>9. Tallied(c)
    BY <1>7, <1>8 DEF ClientOK, Score, At
  <1>10. ClientOK(c)'
    <2>1. gb'[c].screen = to /\ Tallied(c)'
      BY <1>2, <1>3, <1>9 DEF Becomes, Rests, Tallied
    <2>2. Where(c)' /\ Score(c)'
      BY <2>1, <1>2, <1>8 DEF Where, Shows, Score, At, InPlay
    <2>3. Data(c)' /\ Quiet(c)'
      BY <2>1, <1>2, <1>3, <1>4, <1>7 DEF ClientOK, Becomes, Rests, Data, Quiet, At, InPlay,
         Decision
    <2> QED BY <2>2, <2>3 DEF ClientOK
  <1>11. Limits'
    BY <1>2 DEF IInv, Limits, At, NewRound
  <1>12. Duel'
    <2> SUFFICES ASSUME At("Playing", 2) PROVE Duel'
      BY <1>2 DEF Duel, At
    <2>1. \A d \in Players : Duelling(d)
      BY DEF IInv, Duel
    <2>2. gb[c].screen \in InPlay <=> to \in InPlay
      BY <1>4, <1>7 DEF ClientOK, Where, Shows, InPlay, Decision
    <2>3. gb'[c].verdict = gb[c].verdict /\ gb'[c].screen = to
      BY <1>3 DEF Becomes
    <2>4. Duelling(c)'
      BY <2>1, <2>2, <2>3, <1>2, <1>4 DEF Duelling, Told, Heard, UnderWay, Ending, Other
    <2>5. \A d \in Players : d # c => Duelling(d)'
      BY <2>1, <1>2, <1>3 DEF Duelling, Told, Heard, UnderWay, Ending, Other
    <2> QED BY <2>4, <2>5, <1>2 DEF IInv, Duel, Told, Ending
  <1> QED BY <1>5, <1>6, <1>10, <1>11, <1>12 DEF IInv

-----------------------------------------------------------------------------
(* Bytes that are forwarded.                                               *)

\* Client c is sent the last byte of the other and answers rx.
Forwards(c, rx) ==
    /\ forwarding = c /\ forwarding' = Other(c)
    /\ rx \in Says(gb[c])
    /\ gb' = [gb EXCEPT ![c] = Hears(@, lastReceivedByte[Other(c)])]
    /\ lastReceivedByte' = [lastReceivedByte EXCEPT ![c] = rx]
    /\ UNCHANGED <<state, part, pos, wins, roundData>>

\* While the difficulty is selected that says nothing to a Game Boy.
LEMMA SelectionForwards ==
    ASSUME IInv, NEW c \in Players, NEW rx, Forwards(c, rx),
           UNCHANGED <<status, roundOver>>, At("DifficultySelection", 1)
    PROVE  IInv'
  <1>1. /\ Sorted /\ gb[c] \in GameBoys /\ lastReceivedByte[Other(c)] \in Said
        /\ gb[c].screen = "difficulty"
    BY DEF IInv, Sorted, ClientOK, Where, Shows, Players, Other
  <1>2. gb' = gb
    <2>1. Hears(gb[c], lastReceivedByte[Other(c)]) = gb[c]
      BY <1>1, HearsTable DEF Said
    <2> QED BY <2>1, <1>1 DEF Forwards, Sorted
  <1>3. lastReceivedByte' \in [Players -> Said]
    BY <1>1, SaysTable DEF Forwards, Sorted
  <1>4. Sorted'
    BY <1>1, <1>2, <1>3 DEF Forwards, Sorted, At, Players, Other
  <1>5. ASSUME NEW d \in Players
        PROVE  ClientOK(d)'
    BY <1>2 DEF IInv, Forwards, ClientOK, Where, Shows, AfterRound, NewRound, Score,
       Tallied, Draw, Data, Quiet, At
  <1>6. Limits' /\ Duel'
    BY DEF IInv, Forwards, Limits, Duel, At, NewRound
  <1> QED BY <1>4, <1>5, <1>6 DEF IInv

\* What a Game Boy makes of one byte b of the round while it answers rx: told
\* is what its client had said of the end before, and heard what it had heard.
LEMMA Verdict ==
    ASSUME NEW g \in GameBoys, NEW b \in Said, NEW rx \in Says(g),
           NEW told, NEW heard,
           g.screen \in InPlay \cup Decision,
           IF g.screen \in InPlay THEN told = "none" /\ heard = "none"
                                  ELSE Judges(g.verdict, told, heard),
           b \in {"win", "lose"} => heard = "none"
    PROVE  LET h == Hears(g, b)
               saidNow == IF rx \in {"win", "lose"} THEN rx ELSE told
               heardNow == IF b \in {"win", "lose"} THEN b ELSE heard
           IN  /\ Rests(h, g)
               /\ h.screen \in InPlay \cup Decision
               /\ IF h.screen \in InPlay
                  THEN saidNow = "none" /\ heardNow = "none"
                  ELSE Judges(h.verdict, saidNow, heardNow)
               /\ rx = "readyForRoundEnd" => h.screen = "ready"
               /\ rx \in {"win", "lose"} => g.screen \in InPlay
  <1> DEFINE h == Hears(g, b)
  <1>1. CASE g.screen \in {"losing", "winning"}
    <2>1. /\ g.screen = "losing" => rx = "lose" /\ Judged(h, g, "over", "lost")
          /\ g.screen = "winning" => rx = "win" /\ Judged(h, g, "over", "won")
      BY HearsInPlay, SaysTable
    <2> QED BY <1>1, <2>1 DEF Judged, Judges, InPlay, Decision
  <1>2. CASE g.screen = "play"
    <2>1. /\ rx = "idle"
          /\ b = "lose" => Judged(h, g, "over", "won")
          /\ b = "win" => Judged(h, g, "over", "lost")
          /\ b \notin {"win", "lose"} => Becomes(h, g, "play")
      BY <1>2, HearsInPlay, SaysTable
    <2> QED BY <1>2, <2>1 DEF Judged, Becomes, Judges, InPlay, Decision
  <1>3. CASE g.screen \in Decision
    <2>1. b # "begin"
      BY DEF Said
    <2>2. Judged(h, g, g.screen, IF \/ b = "lose" /\ g.verdict = "lost"
                                    \/ b = "win" /\ g.verdict = "won"
                                 THEN "draw" ELSE g.verdict)
      BY <1>3, <2>1, HearsInPlay
    <2>3. /\ rx \in {"idle", "readyForRoundEnd"}
          /\ rx = "readyForRoundEnd" => g.screen = "ready"
      BY <1>3, SaysTable DEF Decision
    <2>4. Judges(g.verdict, told, heard) /\ g.screen \notin InPlay
      BY <1>3 DEF Decision, InPlay
    <2>5. Judges(h.verdict, told, IF b \in {"win", "lose"} THEN b ELSE heard)
      BY <2>2, <2>4 DEF Judged, Judges
    <2> QED BY <1>3, <2>2, <2>3, <2>4, <2>5 DEF Judged
  <1> QED BY <1>1, <1>2, <1>3 DEF InPlay

\* What that does to what has been told and heard of the end.
LEMMA News ==
    ASSUME IInv, NEW c \in Players, NEW rx, Forwards(c, rx), At("Playing", 2),
           c = 1 => UNCHANGED <<status, roundOver>>,
           c = 2 => status' = [d \in Players |->
              LET b == IF d = 1 THEN lastReceivedByte[1] ELSE rx
              IN  IF isGameEndingByte(b) THEN b ELSE status[d]]
    PROVE  LET b == lastReceivedByte[Other(c)]
           IN  /\ b \in {"win", "lose"} => Heard(c) = "none"
               /\ Told(c)' = IF rx \in {"win", "lose"} THEN rx ELSE Told(c)
               /\ Heard(c)' = IF b \in {"win", "lose"} THEN b ELSE Heard(c)
               /\ Told(Other(c))' = Told(Other(c))
               /\ Heard(Other(c)) = Told(c)
               /\ Heard(Other(c))' = IF rx \in {"win", "lose"} THEN "none" ELSE Told(c)
               /\ forwarding' = 1 => status'[1] = Told(1)'
  <1>1. /\ lastReceivedByte \in [Players -> Said] /\ status \in [Players -> {"none", "win", "lose"}]
        /\ 1 \in Players /\ 2 \in Players
    BY DEF IInv, Sorted, Players
  <1>2. CASE c = 1
    <2>1. /\ forwarding = 1 /\ forwarding' = 2 /\ status' = status
          /\ lastReceivedByte'[1] = rx /\ lastReceivedByte'[2] = lastReceivedByte[2]
      BY <1>1, <1>2 DEF Forwards, Other
    <2>2. /\ Told(1) = status[1] /\ Told(2) = status[2]
          /\ Ending(2) => lastReceivedByte[2] = status[2]
      BY <2>1, <1>1 DEF IInv, Duel, Duelling, Told
    <2>3. /\ Told(1)' = IF rx \in {"win", "lose"} THEN rx ELSE Told(1)
          /\ Told(2)' = Told(2)
      BY <2>1, <2>2 DEF Told, Ending
    <2>4. /\ Heard(1) = IF Ending(2) THEN "none" ELSE Told(2)
          /\ Heard(1)' = Told(2)'
          /\ Heard(2) = Told(1)
          /\ Heard(2)' = IF rx \in {"win", "lose"} THEN "none" ELSE Told(1)'
      BY <2>1 DEF Heard, UnderWay, Other, Ending
    <2> QED BY <1>2, <2>1, <2>2, <2>3, <2>4 DEF Other, Ending
  <1>3. CASE c = 2
    <2>1. /\ forwarding = 2 /\ forwarding' = 1
          /\ status'[1] = IF Ending(1) THEN lastReceivedByte[1] ELSE status[1]
          /\ status'[2] = IF rx \in {"win", "lose"} THEN rx ELSE status[2]
          /\ lastReceivedByte'[2] = rx /\ lastReceivedByte'[1] = lastReceivedByte[1]
      BY <1>1, <1>3 DEF Forwards, Other, isGameEndingByte, Ending
    <2>2. Told(2) = status[2] /\ Told(2)' = status'[2]
      BY DEF Told
    <2>3. Told(1) = status'[1] /\ Told(1)' = status'[1]
      BY <2>1 DEF Told, Ending
    <2>4. /\ Heard(1) = Told(2)
          /\ Heard(1)' = IF rx \in {"win", "lose"} THEN "none" ELSE Told(2)'
          /\ Heard(2) = IF Ending(1) THEN "none" ELSE Told(1)
          /\ Heard(2)' = Told(1)'
      BY <2>1 DEF Heard, UnderWay, Other, Ending
    <2>5. Ending(1) => Told(1) = lastReceivedByte[1]
      BY DEF Told
    <2> QED BY <1>3, <2>1, <2>2, <2>3, <2>4, <2>5 DEF Other, Ending
  <1> QED BY <1>2, <1>3 DEF Players

LEMMA RoundForwards ==
    ASSUME IInv, NEW c \in Players, NEW rx, Forwards(c, rx), At("Playing", 2),
           c = 1 => UNCHANGED <<status, roundOver>>,
           c = 2 => /\ status' = [d \in Players |->
                          LET b == IF d = 1 THEN lastReceivedByte[1] ELSE rx
                          IN  IF isGameEndingByte(b) THEN b ELSE status[d]]
                    /\ roundOver' = (lastReceivedByte[1] = "readyForRoundEnd"
                                      /\ rx = "readyForRoundEnd")
    PROVE  IInv'
  <1> DEFINE o == Other(c)
             b == lastReceivedByte[o]
  <1>1. /\ Sorted /\ gb[c] \in GameBoys /\ o \in Players /\ b \in Said
        /\ \A d \in Players : d = c \/ d = o
        /\ o # c /\ rx \in Says(gb[c]) /\ rx \in Said /\ Other(o) = c
    BY SaysTable DEF IInv, Sorted, Forwards, Players, Other
  <1>2. /\ Duelling(c) /\ Duelling(o)
        /\ Where(c) /\ Score(c) /\ Data(c) /\ ClientOK(o)
    BY <1>1 DEF IInv, Duel, ClientOK
  <1>3. /\ gb[c].screen \in InPlay \cup Decision /\ pos[c] = 1
        /\ gb[c].garbage = roundData /\ gb[c].pieces = roundData
        /\ gb[c].mine = wins[c] /\ gb[c].theirs = wins[o]
    BY <1>2 DEF Where, Shows, Score, Tallied, Data, At
  <1>4. /\ b \in {"win", "lose"} => Heard(c) = "none"
        /\ Told(c)' = IF rx \in {"win", "lose"} THEN rx ELSE Told(c)
        /\ Heard(c)' = IF b \in {"win", "lose"} THEN b ELSE Heard(c)
        /\ Told(o)' = Told(o) /\ Heard(o) = Told(c)
        /\ Heard(o)' = IF rx \in {"win", "lose"} THEN "none" ELSE Told(c)
        /\ forwarding' = 1 => status'[1] = Told(1)'
    BY News
  <1>5. /\ gb'[c] = Hears(gb[c], b) /\ gb'[o] = gb[o]
        /\ lastReceivedByte'[c] = rx /\ lastReceivedByte'[o] = lastReceivedByte[o]
        /\ UNCHANGED <<state, part, pos, wins, roundData>>
    BY <1>1 DEF Forwards, Sorted
  <1> HIDE DEF o, b
  <1>6. IF gb[c].screen \in InPlay THEN Told(c) = "none" /\ Heard(c) = "none"
                                   ELSE Judges(gb[c].verdict, Told(c), Heard(c))
    BY <1>2 DEF Duelling
  <1>7. /\ Rests(gb'[c], gb[c])
        /\ gb'[c].screen \in InPlay \cup Decision
        /\ IF gb'[c].screen \in InPlay
           THEN Told(c)' = "none" /\ Heard(c)' = "none"
           ELSE Judges(gb'[c].verdict, Told(c)', Heard(c)')
        /\ rx = "readyForRoundEnd" => gb'[c].screen = "ready"
        /\ rx \in {"win", "lose"} => gb[c].screen \in InPlay
    <2>1. ASSUME NEW told, NEW heard,
                 IF gb[c].screen \in InPlay THEN told = "none" /\ heard = "none"
                                            ELSE Judges(gb[c].verdict, told, heard),
                 b \in {"win", "lose"} => heard = "none"
          PROVE  LET saidNow == IF rx \in {"win", "lose"} THEN rx ELSE told
                     heardNow == IF b \in {"win", "lose"} THEN b ELSE heard
                 IN  /\ Rests(gb'[c], gb[c])
                     /\ gb'[c].screen \in InPlay \cup Decision
                     /\ IF gb'[c].screen \in InPlay
                        THEN saidNow = "none" /\ heardNow = "none"
                        ELSE Judges(gb'[c].verdict, saidNow, heardNow)
                     /\ rx = "readyForRoundEnd" => gb'[c].screen = "ready"
                     /\ rx \in {"win", "lose"} => gb[c].screen \in InPlay
      <3> DEFINE g == gb[c]
      <3>1. /\ g \in GameBoys /\ b \in Said /\ rx \in Says(g)
            /\ g.screen \in InPlay \cup Decision
        BY <1>1, <1>3
      <3>2. gb'[c] = Hears(g, b)
        BY <1>5
      <3> HIDE DEF g
      <3>3. /\ IF g.screen \in InPlay THEN told = "none" /\ heard = "none"
                                      ELSE Judges(g.verdict, told, heard)
            /\ b \in {"win", "lose"} => heard = "none"
        BY <2>1 DEF g
      <3>4. LET h == Hears(g, b)
                saidNow == IF rx \in {"win", "lose"} THEN rx ELSE told
                heardNow == IF b \in {"win", "lose"} THEN b ELSE heard
            IN  /\ Rests(h, g)
                /\ h.screen \in InPlay \cup Decision
                /\ IF h.screen \in InPlay
                   THEN saidNow = "none" /\ heardNow = "none"
                   ELSE Judges(h.verdict, saidNow, heardNow)
                /\ rx = "readyForRoundEnd" => h.screen = "ready"
                /\ rx \in {"win", "lose"} => g.screen \in InPlay
        BY <3>1, <3>3, Verdict
      <3> QED BY <3>2, <3>4 DEF g
    <2> QED BY <2>1, <1>4, <1>6
  <1>8. Duelling(c)'
    BY <1>4, <1>5, <1>7 DEF Duelling, Ending
  <1>9. Duelling(o)'
    <2>1. Heard(o)' = Heard(o)
      BY <1>4, <1>6, <1>7
    <2> QED BY <2>1, <1>2, <1>4, <1>5 DEF Duelling, Ending
  <1>10. roundOver' => /\ rx = "readyForRoundEnd"
                       /\ lastReceivedByte[o] = "readyForRoundEnd"
    <2>1. CASE c = 1
      <3>1. roundOver => /\ lastReceivedByte[c] = "readyForRoundEnd"
                         /\ lastReceivedByte[o] = "readyForRoundEnd"
        BY <1>1 DEF IInv, Duel
      <3>2. roundOver => gb[c].screen = "ready"
        BY <3>1, <1>2 DEF Duelling
      <3>3. gb[c].screen = "ready" => rx = "readyForRoundEnd"
        BY <1>1, SaysTable
      <3>4. roundOver' => roundOver
        BY <2>1
      <3> QED BY <3>1, <3>2, <3>3, <3>4
    <2>2. CASE c = 2
      <3>1. o = 1
        BY <2>2 DEF o, Other
      <3>2. roundOver' <=> /\ lastReceivedByte[1] = "readyForRoundEnd"
                           /\ rx = "readyForRoundEnd"
        BY <2>2
      <3> QED BY <3>1, <3>2
    <2> QED BY <2>1, <2>2 DEF Players
  <1>11. Duel'
    BY <1>1, <1>4, <1>5, <1>8, <1>9, <1>10 DEF Duel
  <1>12. Sorted'
    <2>1. gb' \in [Players -> GameBoys] /\ lastReceivedByte' \in [Players -> Said]
      BY <1>1, <1>5, <1>7 DEF Sorted, Forwards, Rests
    <2>2. status' \in [Players -> {"none", "win", "lose"}] /\ roundOver' \in BOOLEAN
      BY <1>1 DEF Sorted, isGameEndingByte, Players
    <2>3. forwarding' \in Players
      BY <1>1 DEF Forwards, o
    <2> QED BY <2>1, <2>2, <2>3, <1>1, <1>5 DEF Sorted, At
  <1>13. ClientOK(c)'
    BY <1>1, <1>3, <1>5, <1>7 DEF ClientOK, Where, Shows, Score, Tallied, Data,
       Quiet, Rests, At, InPlay, Decision, o
  <1>14. ClientOK(o)'
    BY <1>1, <1>2, <1>5 DEF ClientOK, Where, Shows, Score, Tallied, Data, Quiet, At
  <1>15. Limits'
    BY <1>5 DEF IInv, Limits, At, NewRound
  <1> QED BY <1>1, <1>11, <1>12, <1>13, <1>14, <1>15 DEF IInv

LEMMA ForwardSteps ==
    ASSUME IInv, ForwardToSecond \/ ForwardToFirst
    PROVE  IInv'
  <1>1. CurrentPart = Forward
    BY DEF ForwardToSecond, ForwardToFirst
  <1>2. At("DifficultySelection", 1) \/ At("Playing", 2)
    BY <1>1, NoScript, MeetingScript, MenuScript, DataScript, StartScript,
       RoundEndScript, RestartScript, Kinds DEF IInv, Sorted
  <1>3. CASE ForwardToFirst
    <2>1. PICK rx \in Bytes : Exchange(1, lastReceivedByte[2], rx)
      BY <1>3 DEF ForwardToFirst
    <2>2. Other(1) = 2 /\ 1 \in Players
      BY DEF Other, Players
    <2>3. Forwards(1, rx) /\ UNCHANGED <<status, roundOver>>
      BY <1>3, <2>1, <2>2 DEF ForwardToFirst, Forwards, Exchange
    <2> QED BY <2>2, <2>3, <1>2, SelectionForwards, RoundForwards
  <1>4. CASE ForwardToSecond
    <2>1. PICK rx \in Bytes :
            /\ Exchange(2, lastReceivedByte[1], rx)
            /\ IF state = "Playing"
               THEN /\ status' = [c \in Players |->
                          LET b == IF c = 1 THEN lastReceivedByte[1] ELSE rx
                          IN  IF isGameEndingByte(b) THEN b ELSE status[c]]
                    /\ roundOver' = (lastReceivedByte[1] = "readyForRoundEnd"
                                      /\ rx = "readyForRoundEnd")
               ELSE UNCHANGED <<status, roundOver>>
      BY <1>4 DEF ForwardToSecond
    <2>2. Other(2) = 1 /\ 2 \in Players
      BY DEF Other, Players
    <2>3. Forwards(2, rx)
      BY <1>4, <2>1, <2>2 DEF ForwardToSecond, Forwards, Exchange
    <2>4. CASE At("DifficultySelection", 1)
      BY <2>1, <2>2, <2>3, <2>4, SelectionForwards DEF At
    <2>5. CASE At("Playing", 2)
      BY <2>1, <2>2, <2>3, <2>5, RoundForwards DEF At
    <2> QED BY <1>2, <2>4, <2>5
  <1> QED BY <1>3, <1>4

-----------------------------------------------------------------------------
(* From part to part.                                                      *)

LEMMA PartKept ==
    ASSUME IInv, UNCHANGED <<forwarding, lastReceivedByte, gb>>,
           pos' = [c \in Players |-> 1],
           \/ At("DifficultySelection", 1)' \/ At("DifficultySelection", 2)'
           \/ At("SendingInitializationData", 1)' \/ At("SendingInitializationData", 2)'
           \/ At("Playing", 1)' \/ At("Playing", 2)' \/ At("Playing", 3)'
           \/ At("RoundOver", 1)' \/ At("RoundOver", 2)',
           status' \in [Players -> {"none", "win", "lose"}], roundOver' \in BOOLEAN,
           wins' \in [Players -> 0 .. WinsNeeded], roundData' \in {0, 1}
    PROVE  Sorted'
  <1>1. pos' \in [Players -> 1 .. 5]
    OBVIOUS
  <1> QED BY <1>1 DEF IInv, Sorted

\* The round is over for both: each has made of it what the server credits.
LEMMA Credited ==
    ASSUME IInv, At("Playing", 2), forwarding = 2, roundOver, NEW c \in Players
    PROVE  /\ gb[c].screen = "ready"
           /\ Credit \in [Players -> 0 .. WinsNeeded]
           /\ Tallied(c)
           /\ IF Draw
              THEN /\ Credit = wins
                   /\ \/ gb[c].verdict = "draw"
                      \/ status[1] = "lose" /\ gb[c].verdict = "lost"
                      \/ status[1] = "win" /\ gb[c].verdict = "won"
              ELSE \/ /\ gb[c].verdict = "won"
                      /\ Credit[c] = wins[c] + 1 /\ Credit[Other(c)] = wins[Other(c)]
                   \/ /\ gb[c].verdict = "lost"
                      /\ Credit[c] = wins[c] /\ Credit[Other(c)] = wins[Other(c)] + 1
  <1>1. /\ Sorted /\ ClientOK(c) /\ Duelling(c)
        /\ \A d \in Players : lastReceivedByte[d] = "readyForRoundEnd"
        /\ Other(c) \in Players /\ 1 \in Players /\ 2 \in Players
    BY DEF IInv, Duel, Players, Other
  <1>2. gb[c].screen = "ready"
    BY <1>1 DEF Duelling
  <1>3. Judges(gb[c].verdict, status[c], status[Other(c)])
    <2>1. \A d \in Players : ~Ending(d) /\ Told(d) = status[d]
      BY <1>1 DEF Ending, Told
    <2>2. Heard(c) = status[Other(c)]
      BY <2>1, <1>1 DEF Heard, UnderWay
    <2> QED BY <2>1, <2>2, <1>1, <1>2 DEF Duelling, InPlay
  <1>4. Tallied(c)
    BY <1>1, <1>2 DEF ClientOK, Score, At
  <1>5. \A d \in Players : wins[d] \in 0 .. WinsNeeded /\ wins[d] + 1 \in 0 .. WinsNeeded
    BY <1>1, WinsAssumption DEF IInv, Limits, NewRound, Sorted
  <1>6. Credit \in [Players -> 0 .. WinsNeeded]
    BY <1>1, <1>5 DEF Credit, Sorted
  <1>7. CASE c = 1
    BY <1>1, <1>2, <1>3, <1>4, <1>6, <1>7 DEF Judges, Credit, Draw, Sorted, Other, Players
  <1>8. CASE c = 2
    BY <1>1, <1>2, <1>3, <1>4, <1>6, <1>8 DEF Judges, Credit, Draw, Sorted, Other, Players
  <1> QED BY <1>7, <1>8 DEF Players

LEMMA PartSteps ==
    ASSUME IInv, NextPart
    PROVE  IInv'
  <1>1. /\ ForwardDone \/ SleepDone \/ AllDone
        /\ part < Len(Parts[state]) /\ part' = part + 1
        /\ pos' = [c \in Players |-> 1]
        /\ wins' = IF state = "Playing" /\ CurrentPart = Forward THEN Credit ELSE wins
        /\ UNCHANGED <<state, forwarding, status, roundOver, roundData,
                       lastReceivedByte, gb>>
        /\ Sorted
    BY DEF NextPart, IInv
  <1>2. \A c \in Players : pos'[c] = 1 /\ ClientOK(c) /\ gb[c] \in GameBoys
    BY <1>1 DEF IInv, Sorted
  <1>3. CASE At("DifficultySelection", 1)
    <2>1. forwarding = 2 /\ At("DifficultySelection", 2)' /\ wins' = wins
      BY <1>1, <1>3, NoScript, Kinds DEF ForwardDone, SleepDone, AllDone, At
    <2>2. Sorted'
      BY <1>1, <2>1, PartKept DEF Sorted
    <2>3. ASSUME NEW c \in Players
          PROVE  ClientOK(c)'
      BY <1>1, <1>2, <1>3, <2>1 DEF ClientOK, Where, Shows, Score, Tallied, Data,
         Quiet, At, InPlay, Decision
    <2>4. Limits' /\ Duel'
      BY <1>1, <1>3, <2>1 DEF IInv, Limits, Duel, At
    <2> QED BY <2>2, <2>3, <2>4 DEF IInv
  <1>4. CASE At("SendingInitializationData", 1)
    <2>1. /\ \A c \in Players : pos[c] = 5
          /\ At("SendingInitializationData", 2)' /\ wins' = wins
      <3>1. AllDone
        BY <1>1, <1>4, DataScript DEF ForwardDone, SleepDone
      <3>2. \A c \in Players : pos[c] > 4
        BY <3>1, <1>4, DataScript DEF AllDone, Done
      <3>3. \A c \in Players : pos[c] \in 1 .. 5
        BY <1>1 DEF Sorted
      <3>4. \A c \in Players : pos[c] = 5
        BY <3>2, <3>3
      <3> QED BY <3>4, <1>1, <1>4 DEF At
    <2>2. Sorted'
      BY <1>1, <2>1, PartKept DEF Sorted
    <2>3. ASSUME NEW c \in Players
          PROVE  ClientOK(c)'
      BY <1>1, <1>2, <1>4, <2>1 DEF ClientOK, Where, Shows, Score, Tallied, Data,
         Quiet, At, InPlay, Decision
    <2>4. Limits' /\ Duel'
      BY <1>1, <1>4, <2>1 DEF IInv, Limits, Duel, At, NewRound
    <2> QED BY <2>2, <2>3, <2>4 DEF IInv
  <1>5. CASE At("Playing", 1)
    <2>1. /\ \A c \in Players : gb[c].screen \in InPlay
          /\ At("Playing", 2)' /\ wins' = wins
      <3>1. SleepDone /\ wins' = wins
        BY <1>1, <1>5, NoScript, Kinds DEF ForwardDone, AllDone
      <3>2. \A c \in Players : gb[c].screen \in {"frozen"} \cup InPlay
        BY <1>2, <1>5 DEF ClientOK, Where, Shows
      <3> QED BY <3>1, <3>2, <1>1, <1>5 DEF SleepDone, At
    <2>2. Sorted'
      BY <1>1, <2>1, PartKept DEF Sorted
    <2>3. ASSUME NEW c \in Players
          PROVE  ClientOK(c)'
      BY <1>1, <1>2, <1>5, <2>1 DEF ClientOK, Where, Shows, Score, Tallied, Data,
         Quiet, At, InPlay, Decision
    <2>4. Limits' /\ ~roundOver' /\ forwarding' # 1
      BY <1>1, <1>5, <2>1 DEF IInv, Limits, At, NewRound
    <2>5. ASSUME NEW c \in Players
          PROVE  lastReceivedByte'[c] = "idle" /\ status'[c] = "none"
      BY <1>1, <1>2, <1>5 DEF ClientOK, Quiet, IInv, Limits
    <2>6. Other(1) = 2 /\ Other(2) = 1 /\ Players = {1, 2}
      BY DEF Other, Players
    <2>7. \A c \in Players : ~Ending(c)' /\ Told(c)' = "none" /\ Heard(c)' = "none"
      BY <2>5, <2>6 DEF Ending, Told, Heard, UnderWay
    <2>8. Duel'
      BY <1>1, <2>1, <2>4, <2>5, <2>7 DEF Duel, Duelling
    <2> QED BY <2>2, <2>3, <2>4, <2>8 DEF IInv
  <1>6. CASE At("Playing", 2)
    <2>1. forwarding = 2 /\ roundOver /\ At("Playing", 3)' /\ wins' = Credit
      BY <1>1, <1>6, NoScript, Kinds DEF ForwardDone, SleepDone, AllDone, At
    <2>2. /\ Credit \in [Players -> 0 .. WinsNeeded]
          /\ \A c \in Players : gb[c].screen = "ready"
      BY <2>1, <1>6, Credited DEF Players
    <2>3. Sorted'
      BY <1>1, <2>1, <2>2, PartKept DEF Sorted
    <2>4. ASSUME NEW c \in Players
          PROVE  Score(c)'
      <3>1. /\ Tallied(c)
            /\ IF Draw
               THEN /\ Credit = wins
                    /\ \/ gb[c].verdict = "draw"
                       \/ status[1] = "lose" /\ gb[c].verdict = "lost"
                       \/ status[1] = "win" /\ gb[c].verdict = "won"
               ELSE \/ /\ gb[c].verdict = "won"
                       /\ Credit[c] = wins[c] + 1 /\ Credit[Other(c)] = wins[Other(c)]
                    \/ /\ gb[c].verdict = "lost"
                       /\ Credit[c] = wins[c] /\ Credit[Other(c)] = wins[Other(c)] + 1
        BY <2>1, <1>6, Credited
      <3>2. Draw' <=> Draw
        BY <1>1 DEF Draw
      <3>3. CASE Draw
        BY <3>1, <3>2, <3>3, <1>1, <1>2, <2>1, <2>2 DEF Score, Tallied
      <3>4. CASE ~Draw
        BY <3>1, <3>2, <3>4, <1>1, <1>2, <2>1, <2>2 DEF Score, Tallied
      <3> QED BY <3>3, <3>4
    <2>5. ASSUME NEW c \in Players
          PROVE  Where(c)' /\ Data(c)' /\ Quiet(c)'
      BY <1>1, <1>2, <1>6, <2>1, <2>2 DEF ClientOK, Where, Shows, Data, Quiet, At
    \* Only one of the two counts is raised, and both were low.
    <2>6. \E c \in Players : wins'[c] < WinsNeeded
      <3>1. 1 \in Players /\ Other(1) \in Players
        BY DEF Other, Players
      <3>2. \E c \in Players : Credit[c] = wins[c]
        BY <2>1, <1>6, <3>1, Credited
      <3>3. \A c \in Players : wins[c] < WinsNeeded
        BY <1>6 DEF IInv, Limits, NewRound
      <3> QED BY <2>1, <3>2, <3>3
    <2>7. Limits' /\ Duel'
      BY <1>1, <1>6, <2>1, <2>6 DEF IInv, Limits, Duel, At
    <2> QED BY <2>3, <2>4, <2>5, <2>7 DEF IInv, ClientOK
  <1>7. CASE At("RoundOver", 1)
    <2>1. At("RoundOver", 2)' /\ wins' = wins
      BY <1>1, <1>7 DEF At
    <2>2. Sorted'
      BY <1>1, <2>1, PartKept DEF Sorted
    <2>3. ASSUME NEW c \in Players
          PROVE  ClientOK(c)'
      BY <1>1, <1>2, <1>7, <2>1 DEF ClientOK, Where, Shows, Score, Tallied, Data,
         Quiet, At, InPlay, Decision
    <2>4. Limits' /\ Duel'
      BY <1>1, <1>7, <2>1 DEF IInv, Limits, Duel, At
    <2> QED BY <2>2, <2>3, <2>4 DEF IInv
  <1>8. /\ ~At("PlayersConnected", 1) /\ ~At("DifficultySelection", 2)
        /\ ~At("SendingInitializationData", 2)
        /\ ~At("Playing", 3) /\ ~At("RoundOver", 2)
    <2>1. \A n \in Nat : part = n /\ part < Len(Parts[state]) => Len(Parts[state]) # n
      OBVIOUS
    <2> QED BY <2>1, <1>1, MeetingScript, MenuScript, StartScript, RoundEndScript,
        RestartScript DEF At
  <1> QED BY <1>1, <1>3, <1>4, <1>5, <1>6, <1>7, <1>8 DEF Sorted

LEMMA HandlerSteps ==
    ASSUME IInv, NextHandler
    PROVE  IInv'
  <1>1. /\ AllDone /\ part = Len(Parts[state])
        /\ state' = NextState /\ part' = 1
        /\ pos' = [c \in Players |-> 1]
        /\ wins' = IF NextState = "DifficultySelection" THEN reset ELSE wins
        /\ roundData' = IF NextState = "SendingInitializationData" THEN newData
                                                                  ELSE roundData
        /\ status' = IF NextState = "Playing" THEN [c \in Players |-> "none"]
                                              ELSE status
        /\ roundOver' = FALSE
        /\ UNCHANGED <<forwarding, lastReceivedByte, gb>>
        /\ Sorted
    BY DEF NextHandler, IInv
  <1>2. \A c \in Players :
           /\ pos'[c] = 1 /\ ClientOK(c) /\ gb[c] \in GameBoys
           /\ pos[c] \in 1 .. 5 /\ pos[c] > Len(CurrentPart)
    BY <1>1 DEF IInv, Sorted, AllDone, Done
  <1>3. /\ roundData' \in {0, 1} /\ roundOver' \in BOOLEAN
        /\ status' \in [Players -> {"none", "win", "lose"}]
        /\ wins' \in [Players -> 0 .. WinsNeeded]
    <2>1. reset \in [Players -> 0 .. WinsNeeded]
      <3>1. 0 \in 0 .. WinsNeeded
        BY WinsAssumption
      <3> QED BY <3>1 DEF reset
    <2>2. newData \in {0, 1}
      BY <1>1 DEF newData, Sorted
    <2> QED BY <2>1, <2>2, <1>1 DEF Sorted
  <1>4. \/ At("PlayersConnected", 1) \/ At("DifficultySelection", 2)
        \/ At("SendingInitializationData", 2) \/ At("Playing", 3) \/ At("RoundOver", 2)
    <2>1. InScript
      BY <1>1 DEF AllDone
    <2>2. ~At("SendingInitializationData", 1)
      <3>1. part = 1 => Len(Parts[state]) # 2
        BY <1>1
      <3> QED BY <3>1, DataScript DEF At
    <2> QED BY <2>1, <2>2, <1>1, NoScript DEF Sorted
  \* To the selection of the difficulty, with the score of a new game.
  <1>5. ASSUME state' = "DifficultySelection", forwarding # 1,
               \A c \in Players : gb[c].screen = "difficulty" /\ gb[c].mine = 0
                                                             /\ gb[c].theirs = 0
        PROVE  IInv'
    <2>1. At("DifficultySelection", 1)' /\ wins' = reset
      BY <1>1, <1>5 DEF At
    <2>2. Sorted'
      BY <1>1, <1>3, <2>1, PartKept DEF Sorted
    <2>3. ASSUME NEW c \in Players
          PROVE  ClientOK(c)'
      <3>1. Other(c) \in Players
        BY DEF Other, Players
      <3>2. Tallied(c)'
        BY <1>1, <1>5, <2>1, <3>1 DEF Tallied, reset
      <3> QED BY <1>1, <1>2, <1>5, <2>1, <3>2 DEF ClientOK, Where, Shows, Score, Data,
          Quiet, At, InPlay, Decision
    <2>4. \E c \in Players : wins'[c] < WinsNeeded
      BY <2>1, WinsAssumption DEF reset, Players
    <2>5. Limits' /\ Duel'
      BY <1>1, <1>5, <2>1, <2>4 DEF Limits, Duel, At, reset
    <2> QED BY <2>2, <2>3, <2>5 DEF IInv
  \* To the data of a round.
  <1>6. ASSUME state' = "SendingInitializationData", forwarding # 1, NewRound,
               \A c \in Players : gb[c].screen = "confirmed" /\ Tallied(c)
        PROVE  IInv'
    <2>1. At("SendingInitializationData", 1)' /\ wins' = wins
      BY <1>1, <1>6 DEF At
    <2>2. Sorted'
      BY <1>1, <1>3, <2>1, PartKept DEF Sorted
    <2>3. ASSUME NEW c \in Players
          PROVE  ClientOK(c)'
      BY <1>1, <1>2, <1>6, <2>1 DEF ClientOK, Where, Shows, Score, Tallied, Data,
         Quiet, At, InPlay, Decision
    <2>4. Limits' /\ Duel'
      BY <1>1, <1>6, <2>1 DEF Limits, Duel, At, NewRound, Players
    <2> QED BY <2>2, <2>3, <2>4 DEF IInv
  <1>7. CASE At("PlayersConnected", 1)
    <2>1. state' = "DifficultySelection" /\ forwarding # 1
      BY <1>1, <1>7 DEF NextState, At, IInv, Limits
    <2>2. ASSUME NEW c \in Players
          PROVE  gb[c].screen = "difficulty" /\ gb[c].mine = 0 /\ gb[c].theirs = 0
      <3>1. pos[c] > 3
        BY <1>2, <1>7, MeetingScript
      <3>2. gb[c].screen = "difficulty" /\ Tallied(c)
        BY <3>1, <1>2, <1>7 DEF ClientOK, Where, Shows, Score, At
      <3> QED BY <3>2, <1>7 DEF Tallied, IInv, Limits, At, Players, Other
    <2> QED BY <2>1, <2>2, <1>5
  <1>8. CASE At("DifficultySelection", 2)
    <2>1. state' = "SendingInitializationData" /\ forwarding # 1
      BY <1>1, <1>8 DEF NextState, At, IInv, Limits
    <2>2. NewRound
      BY <1>8, WinsAssumption DEF IInv, Limits, At, NewRound
    <2>3. ASSUME NEW c \in Players
          PROVE  gb[c].screen = "confirmed" /\ Tallied(c)
      <3>1. pos[c] > 1
        BY <1>2, <1>8, MenuScript
      <3> QED BY <3>1, <1>2, <1>8 DEF ClientOK, Where, Shows, Score, At
    <2> QED BY <2>1, <2>2, <2>3, <1>6
  <1>9. CASE At("SendingInitializationData", 2)
    <2>1. /\ state' = "Playing" /\ forwarding # 1
          /\ UNCHANGED <<wins, roundData>> /\ status' = [c \in Players |-> "none"]
      BY <1>1, <1>9 DEF NextState, At, IInv, Limits
    <2>2. At("Playing", 1)'
      BY <1>1, <2>1 DEF At
    <2>3. Sorted'
      BY <1>1, <1>3, <2>2, PartKept DEF Sorted
    <2>4. ASSUME NEW c \in Players
          PROVE  ClientOK(c)'
      <3>1. pos[c] > 1
        BY <1>2, <1>9, StartScript
      <3>2. /\ pos[c] = 2 /\ gb[c].screen \in {"frozen"} \cup InPlay /\ Tallied(c)
            /\ gb[c].garbage = roundData /\ gb[c].pieces = roundData
            /\ lastReceivedByte[c] = "idle"
        BY <3>1, <1>2, <1>9 DEF ClientOK, Where, Shows, Score, Data, Quiet, At, InPlay,
           Decision
      <3> QED BY <3>2, <1>1, <1>2, <2>1, <2>2 DEF ClientOK, Where, Shows, Score,
          Tallied, Data, Quiet, At
    <2>5. Limits' /\ Duel'
      BY <1>1, <1>9, <2>1, <2>2 DEF IInv, Limits, Duel, At, NewRound
    <2> QED BY <2>3, <2>4, <2>5 DEF IInv
  <1>10. CASE At("Playing", 3)
    <2>1. /\ state' = "RoundOver" /\ forwarding # 1
          /\ UNCHANGED <<wins, roundData>>
      BY <1>1, <1>10 DEF NextState, At, IInv, Limits
    <2>2. At("RoundOver", 1)'
      BY <1>1, <2>1 DEF At
    <2>3. Sorted'
      BY <1>1, <1>3, <2>2, PartKept DEF Sorted
    <2>4. ASSUME NEW c \in Players
          PROVE  ClientOK(c)'
      <3>1. pos[c] > 2
        BY <1>2, <1>10, RoundEndScript
      <3>2. gb[c].screen = "results" /\ Tallied(c)
        BY <3>1, <1>2, <1>10 DEF ClientOK, Where, Shows, Score, At
      <3> QED BY <3>2, <1>1, <1>2, <2>1, <2>2 DEF ClientOK, Where, Shows, Score,
          Tallied, Data, Quiet, At, InPlay, Decision
    <2>5. Limits' /\ Duel'
      BY <1>1, <2>1, <2>2 DEF IInv, Limits, Duel, At
    <2> QED BY <2>3, <2>4, <2>5 DEF IInv
  <1>11. CASE At("RoundOver", 2)
    <2>1. forwarding # 1
      BY <1>11 DEF At, IInv, Limits
    <2>2. ASSUME NEW c \in Players
          PROVE  /\ gb[c].screen = AfterRound
                 /\ IF gb[c].screen = "difficulty"
                    THEN gb[c].mine = 0 /\ gb[c].theirs = 0 ELSE Tallied(c)
      <3>1. pos[c] > 3
        BY <1>2, <1>11, RestartScript
      <3> QED BY <3>1, <1>2, <1>11 DEF ClientOK, Where, Shows, Score, At
    <2>3. CASE NewRound
      <3>1. state' = "SendingInitializationData"
        BY <1>1, <1>11, <2>3 DEF NextState, At
      <3> QED BY <2>1, <2>2, <2>3, <3>1, <1>6 DEF AfterRound
    <2>4. CASE ~NewRound
      <3>1. state' = "DifficultySelection"
        BY <1>1, <1>11, <2>4 DEF NextState, At
      <3> QED BY <2>1, <2>2, <2>4, <3>1, <1>5 DEF AfterRound
    <2> QED BY <2>3, <2>4
  <1> QED BY <1>4, <1>7, <1>8, <1>9, <1>10, <1>11

LEMMA InitIInv == Init => IInv
  <1> SUFFICES ASSUME Init PROVE IInv
    OBVIOUS
  <1>1. 0 \in 0 .. WinsNeeded /\ 1 \in 1 .. 5 /\ 2 \in Players
    BY WinsAssumption DEF Players
  <1>2. /\ At("PlayersConnected", 1) /\ forwarding = 2 /\ roundOver = FALSE
        /\ wins = [c \in Players |-> 0] /\ roundData = 0
        /\ status = [c \in Players |-> "none"]
        /\ \A c \in Players :
              /\ pos[c] = 1 /\ gb[c].screen = "title" /\ Other(c) \in Players
              /\ gb[c].mine = 0 /\ gb[c].theirs = 0
    BY DEF Init, At, Other, Players
  <1>3. gb \in [Players -> GameBoys]
    BY <1>1 DEF Init, GameBoys, Screens
  <1>4. pos \in [Players -> 1 .. 5] /\ lastReceivedByte \in [Players -> Said]
    BY <1>1 DEF Init, Said
  <1>5. Sorted
    BY <1>1, <1>2, <1>3, <1>4 DEF Sorted
  <1>6. ASSUME NEW c \in Players
        PROVE  ClientOK(c)
    BY <1>2 DEF ClientOK, Where, Shows, Score, Tallied, Data, Quiet, At, InPlay,
       Decision
  <1>7. \E c \in Players : wins[c] < WinsNeeded
    BY <1>1, <1>2, WinsAssumption
  <1>8. Limits /\ Duel
    BY <1>2, <1>7 DEF Limits, Duel, At
  <1> QED BY <1>5, <1>6, <1>8 DEF IInv

LEMMA NextIInv == IInv /\ [Next]_vars => IInv'
  <1>1. ASSUME IInv, UNCHANGED vars
        PROVE  IInv'
    <2>1. UNCHANGED <<state, part, pos, forwarding, status, roundOver, wins,
                      roundData, lastReceivedByte, gb>>
      BY <1>1 DEF vars, serverVars
    <2>2. Sorted' /\ Limits' /\ Duel'
      BY <1>1, <2>1 DEF IInv, Sorted, Limits, NewRound, Duel, Duelling, Told, Heard,
         UnderWay, Ending, At
    <2>3. ASSUME NEW c \in Players
          PROVE  ClientOK(c)'
      BY <1>1, <2>1 DEF IInv, ClientOK, Where, Shows, AfterRound, NewRound, Score,
         Tallied, Draw, Data, Quiet, At
    <2> QED BY <2>2, <2>3 DEF IInv
  <1> QED BY <1>1, ScriptSteps, GameBoySteps, ForwardSteps, PartSteps, HandlerSteps
      DEF Next

-----------------------------------------------------------------------------
\* The invariant holds however many wins end a game: the screens, the scores
\* and the verdicts go together at every step of every round.
THEOREM Correct == Spec => []IInv
  <1>1. Init => IInv
    BY InitIInv
  <1>2. IInv /\ [Next]_vars => IInv'
    BY NextIInv
  <1> QED BY <1>1, <1>2, PTL DEF Spec

\* Every value is one the code can have; no count passes the wins that end a
\* game.
THEOREM TypesCorrect == Spec => []TypeOK
  <1>1. IInv => TypeOK
    <2> SUFFICES ASSUME IInv PROVE TypeOK
      OBVIOUS
    <2>1. state \in States /\ part \in 1 .. Len(Parts[state])
      <3>1. state \in States
        BY PartsTable DEF IInv, Sorted, At
      <3>2. PICK n \in {1, 2, 3} : Len(Parts[state]) = n /\ part \in 1 .. n
        BY MeetingScript, MenuScript, DataScript, StartScript, RoundEndScript,
           RestartScript, NoScript DEF IInv, Sorted, At
      <3> QED BY <3>1, <3>2
    <2>2. lastReceivedByte \in [Players -> Bytes]
      BY DEF IInv, Sorted, Said, Bytes
    <2> QED BY <2>1, <2>2 DEF IInv, Sorted, TypeOK, GameBoys
  <1> QED BY <1>1, Correct, PTL

\* The server and both Game Boys keep the same score through every round,
\* however its last bytes cross on the wire.
THEOREM ScoresStayEqual == Spec => []ScoresAgree
  <1>1. IInv => ScoresAgree
    BY DEF IInv, ClientOK, Where, Shows, Score, Tallied, ScoresAgree, At
  <1> QED BY <1>1, Correct, PTL

\* A byte of a script or a forwarded one never reaches a Game Boy on a screen
\* where it means something else.
THEOREM ClientsStayInStep == Spec => []InStep
  <1>1. IInv => InStep
    <2> SUFFICES ASSUME IInv PROVE InStep
      OBVIOUS
    <2>1. ASSUME NEW c \in Players, InScript, ~Done(c)
          PROVE  gb[c].screen \in Accepts(Step(c).tx, state)
      <3>1. Where(c) /\ pos[c] \in 1 .. 5 /\ ~(pos[c] > Len(CurrentPart))
        BY <2>1 DEF IInv, Sorted, ClientOK, Done
      <3>2. CASE At("PlayersConnected", 1)
        <4>1. /\ Wait("master", "slave").tx = "master"
              /\ Wait("music", "readyForMusic").tx = "music"
              /\ Send("confirmMusic").tx = "confirmMusic"
          BY DEF Wait, Send
        <4>2. /\ Accepts("master", state) = {"title", "role", "confirmed", "loaded"}
              /\ Accepts("music", state) = {"role", "music"}
              /\ Accepts("confirmMusic", state) = {"music"}
          BY DEF Accepts
        <4>3. pos[c] # 4
          <5>1. ~(pos[c] > 3)
            BY <3>1, <3>2, MeetingScript
          <5> QED BY <5>1
        <4> QED BY <3>1, <3>2, <4>1, <4>2, <4>3, MeetingScript DEF Where, Shows, Step
      <3>3. CASE At("DifficultySelection", 2)
        <4>1. Wait("confirmMenu", "slave").tx = "confirmMenu"
          BY DEF Wait
        <4>2. Accepts("confirmMenu", state) = {"difficulty", "confirmed"}
          BY <3>3 DEF Accepts, At
        <4>3. pos[c] # 2
          <5>1. ~(pos[c] > 1)
            BY <3>1, <3>3, MenuScript
          <5> QED BY <5>1
        <4> QED BY <3>1, <3>3, <4>1, <4>2, <4>3, MenuScript DEF Where, Shows, Step
      <3>4. CASE At("SendingInitializationData", 1)
        <4>1. /\ Wait("master", "slave").tx = "master"
              /\ Send("garbage").tx = "garbage" /\ Send("pieces").tx = "pieces"
          BY DEF Wait, Send
        <4>2. /\ Accepts("master", state) = {"title", "role", "confirmed", "loaded"}
              /\ Accepts("garbage", state) = {"confirmed"}
              /\ Accepts("pieces", state) = {"loaded"}
          BY DEF Accepts
        <4>3. pos[c] # 5
          <5>1. ~(pos[c] > 4)
            BY <3>1, <3>4, DataScript
          <5> QED BY <5>1
        <4> QED BY <3>1, <3>4, <4>1, <4>2, <4>3, DataScript DEF Where, Shows, Step
      <3>5. CASE At("SendingInitializationData", 2)
        <4>1. Send("start").tx = "start"
          BY DEF Send
        <4>2. Accepts("start", state) = {"armed"}
          BY DEF Accepts
        <4>3. pos[c] # 2
          <5>1. ~(pos[c] > 1)
            BY <3>1, <3>5, StartScript
          <5> QED BY <5>1
        <4> QED BY <3>1, <3>5, <4>1, <4>2, <4>3, StartScript DEF Where, Shows, Step
      <3>6. CASE At("Playing", 3)
        <4>1. /\ Wait(roundEndPollByte, "readyForRoundEnd").tx = roundEndPollByte
              /\ Send("begin").tx = "begin"
          BY DEF Wait, Send
        <4>2. roundEndPollByte \in {"none", "win", "lose", "poll"}
          BY DEF roundEndPollByte, IInv, Sorted, Players
        <4>3. /\ Accepts(roundEndPollByte, state) = {"over", "ready"}
              /\ Accepts("begin", state) = {"ready"}
          BY <3>6, <4>2 DEF Accepts, At
        <4>4. pos[c] # 3
          <5>1. ~(pos[c] > 2)
            BY <3>1, <3>6, RoundEndScript
          <5> QED BY <5>1
        <4> QED BY <3>1, <3>6, <4>1, <4>3, <4>4, RoundEndScript DEF Where, Shows, Step
      <3>7. CASE At("RoundOver", 2)
        <4>1. /\ Send("confirmMenu").tx = "confirmMenu"
              /\ Wait("poll", "readyForRestart").tx = "poll"
              /\ Wait("end", expectedByte).tx = "end"
          BY DEF Wait, Send
        <4>2. (\E d \in Players : wins[d] = WinsNeeded) <=> ~NewRound
          BY WinsAssumption DEF IInv, Sorted, NewRound
        <4>3. /\ Accepts("confirmMenu", state) = {"results"}
              /\ Accepts("poll", state) = {"restarting"}
              /\ Accepts("end", state) = {"restarting", AfterRound}
          BY <3>7, <4>2 DEF Accepts, At, AfterRound
        <4>4. pos[c] # 4
          <5>1. ~(pos[c] > 3)
            BY <3>1, <3>7, RestartScript
          <5> QED BY <5>1
        <4> QED BY <3>1, <3>7, <4>1, <4>3, <4>4, RestartScript DEF Where, Shows, Step
      <3> QED BY <2>1, <3>2, <3>3, <3>4, <3>5, <3>6, <3>7, NoScript DEF IInv, Sorted
    <2>2. ASSUME CurrentPart = Forward
          PROVE  \/ \A c \in Players : gb[c].screen = "difficulty"
                 \/ \A c \in Players :
                       gb[c].screen \in {"play", "losing", "winning", "over", "ready"}
      <3>1. At("DifficultySelection", 1) \/ At("Playing", 2)
        BY <2>2, NoScript, MeetingScript, MenuScript, DataScript, StartScript,
           RoundEndScript, RestartScript, Kinds DEF IInv, Sorted
      <3> QED BY <3>1 DEF IInv, ClientOK, Where, Shows, InPlay, Decision
    <2> QED BY <2>1, <2>2 DEF InStep
  <1> QED BY <1>1, Correct, PTL

\* A round is never played on the data of another one, nor by the two players
\* on different data.
THEOREM DataIsOfTheRound == Spec => []SameRoundData
  <1>1. IInv => SameRoundData
    BY DEF IInv, ClientOK, Data, SameRoundData
  <1> QED BY <1>1, Correct, PTL

\* A game starts from nothing, whoever won the one before; it ends with the wins
\* that end it, and they are only ever one player's.
THEOREM GamesEnd == Spec => []GameEnds
  <1>1. IInv => GameEnds
    <2> SUFFICES ASSUME IInv PROVE GameEnds
      OBVIOUS
    <2>1. ASSUME state = "DifficultySelection", NEW c \in Players
          PROVE  wins[c] = 0 /\ gb[c].mine = 0 /\ gb[c].theirs = 0
      <3>1. wins[c] = 0 /\ wins[Other(c)] = 0
        BY <2>1 DEF IInv, Limits, Other, Players
      <3>2. Tallied(c)
        BY <2>1 DEF IInv, ClientOK, Score, At
      <3> QED BY <3>1, <3>2 DEF Tallied
    <2>2. ASSUME state = "SendingInitializationData" \/ (state = "Playing" /\ part <= 2)
          PROVE  \A c \in Players : wins[c] < WinsNeeded
      BY <2>2 DEF IInv, Sorted, Limits, NewRound, At
    <2>3. \E c \in Players : wins[c] < WinsNeeded
      BY DEF IInv, Limits
    <2> QED BY <2>1, <2>2, <2>3 DEF GameEnds
  <1> QED BY <1>1, Correct, PTL

=============================================================================
