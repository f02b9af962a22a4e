---------------------------- MODULE Matchmaking ----------------------------
(***************************************************************************)
(* What the server promises its players, with no sessions, ids, sockets or *)
(* run loops: whoever comes first waits, whoever comes next plays against  *)
(* them, and a game that loses a player is over for both.                  *)
(***************************************************************************)
EXTENDS Naturals, FiniteSets

CONSTANTS Clients

VARIABLES
    waiting,   \* the player who waits for an opponent: at most one
    games,     \* the pairs of players in a game
    gone       \* the players whose game is over

vars == <<waiting, games, gone>>

Seated == waiting \cup (UNION games) \cup gone

Init == waiting = {} /\ games = {} /\ gone = {}

Wait(c) ==
    /\ c \notin Seated
    /\ waiting = {}
    /\ waiting' = {c}
    /\ UNCHANGED <<games, gone>>

Pair(c) ==
    /\ c \notin Seated
    /\ waiting # {}
    /\ games' = games \cup {waiting \cup {c}}
    /\ waiting' = {}
    /\ UNCHANGED gone

GiveUp ==
    /\ waiting # {}
    /\ gone' = gone \cup waiting
    /\ waiting' = {}
    /\ UNCHANGED games

Break(g) ==
    /\ games' = games \ {g}
    /\ gone' = gone \cup g
    /\ UNCHANGED waiting

Next == \/ \E c \in Clients : Wait(c) \/ Pair(c)
        \/ GiveUp
        \/ \E g \in games : Break(g)

Spec == Init /\ [][Next]_vars

-----------------------------------------------------------------------------
\* A player is in one place only: waiting, in a single game, or gone.
OnePlace ==
    /\ \A g \in games : g \cap (waiting \cup gone) = {}
    /\ \A g, h \in games : g # h => g \cap h = {}
    /\ waiting \cap gone = {}

\* Opponents stay together: a game ends for both players at once and neither
\* of them is ever in a game again.
OverForBoth ==
    [][\A g \in games : g \notin games' => g \subseteq gone' /\ gone \subseteq gone']_vars
=============================================================================
