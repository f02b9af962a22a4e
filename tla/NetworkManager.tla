--------------------------- MODULE NetworkManager ---------------------------
(***************************************************************************)
(* tasks/network_manager.c on top of Wifi: the task that reconnects, its   *)
(* handlers in the event loop, and the user of the console, whose commands *)
(* (commands.c) call wifi_connect and wifi_disconnect at any time.         *)
(*                                                                         *)
(* The five minutes of a block are over at any time, in no fixed order; a  *)
(* block is one bit of the history.                                        *)
(***************************************************************************)
EXTENDS Wifi, SequencesExt

CONSTANTS
    manager, user,
    Saved,        \* the networks wifi_get_saved_network finds
    HistorySize,  \* NETWORK_HISTORY_SIZE
    MaxCommands   \* a bound: the console's commands

ASSUME CallersAssumption == Callers = {manager, user} /\ manager # user
ASSUME SavedAssumption == Saved \subseteq Networks /\ IsFiniteSet(Saved)
ASSUME HistorySizeAssumption == HistorySize \in Nat \ {0}
ASSUME MaxCommandsAssumption == MaxCommands \in Nat

VARIABLES
    task,       \* where the manager's task is
    pending,    \* s_connection_event_group
    prev,       \* prev_ssid
    used,       \* used_networks
    next,       \* next_index
    aps,        \* what is left of the scan _try_autoconnect goes through
    commands,   \* how many commands were given
    left,       \* the user has ended a connection and not asked for one since
    granted     \* the user was told of a connection that has been there since,
                \* for the station as for wifi_is_connected

historyVars == <<prev, used, next>>
taskVars == <<task, pending, aps>>
userVars == <<commands, left, granted>>
vars == <<wifiVars, historyVars, taskVars, userVars>>

Slots == 0 .. HistorySize - 1
Info(network, blocked) == [network |-> network, blocked |-> blocked]
NoHistory == [i \in Slots |-> Info(NoNetwork, FALSE)]

ManagerTypeOK ==
    /\ task \in {"wait", "sleep", "prev", "scan", "auto",
                 "tryPrev", "tryNext"}
    /\ pending \subseteq NetworkEvents
    /\ prev \in Networks \cup {NoNetwork}
    /\ used \in [Slots -> [network : Networks \cup {NoNetwork}, blocked : BOOLEAN]]
    /\ next \in Slots
    /\ Range(aps) \subseteq Saved
    /\ commands \in 0 .. MaxCommands
    /\ left \in BOOLEAN /\ granted \in BOOLEAN

\* task_network_manager_start wakes the task up.
Init ==
    /\ WifiInit
    /\ task = "wait" /\ pending = {"DROPPED"} /\ aps = <<>>
    /\ prev = NoNetwork /\ used = NoHistory /\ next = 0
    /\ commands = 0 /\ left = FALSE /\ granted = FALSE

-----------------------------------------------------------------------------
(* _ensure_network_info and _block_network.                                *)

Known(network) == \E i \in Slots : used[i].network = network

\* The first entry of a network, or the slot of the ring that is next.
SlotOf(network) ==
    IF Known(network)
    THEN CHOOSE i \in Slots : /\ used[i].network = network
                              /\ \A j \in 0 .. i - 1 : used[j].network # network
    ELSE next

\* Mutant: the index does not wrap around.
NoWrap(network) == IF Known(network) THEN next ELSE next + 1

NextIndex(network) == IF Known(network) THEN next ELSE (next + 1) % HistorySize

Blocked(network) == Known(network) /\ used[SlotOf(network)].blocked

EnsureInfo(network) ==
    /\ used' = [used EXCEPT ![SlotOf(network)] = Info(network, Blocked(network))]
    /\ next' = NextIndex(network)

Block(network) ==
    /\ used' = [used EXCEPT ![SlotOf(network)] = Info(network, TRUE)]
    /\ next' = NextIndex(network)

\* NETWORK_BLOCK_MINUTES are over.
BlockExpires ==
    /\ \E i \in Slots : used[i].blocked /\ used' = [used EXCEPT ![i].blocked = FALSE]
    /\ UNCHANGED <<wifiVars, taskVars, prev, next, userVars>>

-----------------------------------------------------------------------------
(* The handlers of the network events.                                     *)

\* Mutant: only the first network is remembered.
firstSsid(id) ==
    IF id = "CONNECTED" /\ prev = NoNetwork THEN Head(events).network ELSE prev

prevSsid(id) == IF id = "CONNECTED" THEN Head(events).network ELSE prev

OnNetworkEvent(id) ==
    /\ IsNext(id)
    /\ events' = Tail(events)
    /\ pending' = pending \cup {id}
    /\ prev' = prevSsid(id)
    /\ UNCHANGED <<driverVars, statusVars, callVars, task, aps, used, next,
                   userVars>>

-----------------------------------------------------------------------------
(* The manager's task.                                                     *)

\* Mutant: a pending LEFT hides a DROPPED.
LeftFirst == "DROPPED" \in pending /\ "LEFT" \notin pending

Dropped == "DROPPED" \in pending

\* One wake-up handles one of the events it finds and clears them all.
WakeUp ==
    /\ task = "wait" /\ pending # {}
    /\ pending' = {}
    /\ IF Dropped
       THEN /\ task' = IF connected THEN "wait" ELSE "sleep"
            /\ UNCHANGED <<used, next>>
       ELSE /\ UNCHANGED task
            /\ IF "LEFT" \in pending
               THEN Block(prev)
               ELSE used' = NoHistory /\ next' = 0
    /\ UNCHANGED <<wifiVars, aps, prev, userVars>>

\* The loop that reconnects ends when there is a connection.  It sleeps
\* between two rounds, for no time before the first.
Loop ==
    /\ task = "sleep"
    /\ task' = IF connected THEN "wait" ELSE "prev"
    /\ UNCHANGED <<wifiVars, pending, aps, historyVars, userVars>>

\* _try_connect: skips a blocked network.
TryConnect(network, trying, skipped) ==
    /\ EnsureInfo(network)
    /\ IF Blocked(network)
       THEN task' = skipped /\ UNCHANGED wifiVars
       ELSE task' = trying /\ Begin(manager, network)

TryPrev ==
    /\ task = "prev"
    /\ IF prev \in Saved
       THEN TryConnect(prev, "tryPrev", "scan")
       ELSE task' = "scan" /\ UNCHANGED <<wifiVars, used, next>>
    /\ UNCHANGED <<pending, aps, prev, userVars>>

\* wifi_scan finds the networks in an order of its own, and none while the
\* station is connecting; those that are not saved are passed over.
Scan ==
    /\ task = "scan" /\ lock = Nobody
    /\ aps' \in IF link = "connecting"
                THEN {<<>>}
                ELSE UNION {SetToSeqs(found) : found \in SUBSET Saved}
    /\ task' = "auto"
    /\ UNCHANGED <<wifiVars, pending, historyVars, userVars>>

TryNext ==
    /\ task = "auto" /\ aps # <<>>
    /\ TryConnect(Head(aps), "tryNext", "auto")
    /\ aps' = Tail(aps)
    /\ UNCHANGED <<pending, prev, userVars>>

NoMoreNetworks ==
    /\ task = "auto" /\ aps = <<>>
    /\ task' = "sleep"
    /\ UNCHANGED <<wifiVars, pending, aps, historyVars, userVars>>

\* A network that could not be connected to is blocked.
Tried ==
    /\ Return(manager)
    /\ IF did[manager]
       THEN task' = "wait" /\ aps' = <<>> /\ UNCHANGED <<used, next>>
       ELSE /\ task' = IF task = "tryPrev" THEN "scan" ELSE "auto"
            /\ UNCHANGED aps
            /\ Block(goal[manager])
    /\ UNCHANGED <<pending, prev, userVars>>

-----------------------------------------------------------------------------
(* The user.                                                               *)

Command ==
    /\ commands < MaxCommands
    /\ \E network \in Networks \cup {NoNetwork} :
          /\ Begin(user, network)
          /\ left' = (left /\ network = NoNetwork)
    /\ commands' = commands + 1
    /\ UNCHANGED <<taskVars, historyVars, granted>>

CommandReturns ==
    /\ Return(user)
    /\ granted' = (did[user] /\ link = "up" /\ connected)
    /\ UNCHANGED <<taskVars, historyVars, commands, left>>

\* What a step of the others means for the user.
Seen(step) ==
    /\ step
    /\ granted' = (granted /\ link' = "up" /\ connected')
    /\ left' = (left \/ (pc[user] = "left" /\ pc'[user] = "done"))
    /\ UNCHANGED <<taskVars, historyVars, commands>>

ByForce(p) == p = user

Call(p) == TakeLock(p, ByForce(p)) \/ Proceed(p)

TaskStep ==
    \/ WakeUp \/ Loop \/ TryPrev \/ Scan \/ TryNext
    \/ NoMoreNetworks \/ Tried

Next ==
    \/ Seen(Environment)
    \/ \E id \in NetworkEvents : OnNetworkEvent(id)
    \/ \E p \in Callers : Seen(Call(p))
    \/ TaskStep \/ BlockExpires
    \/ Command \/ CommandReturns

Spec == Init /\ [][Next]_vars

(***************************************************************************)
(* The event loop and the tasks run, the driver ends an attempt to connect *)
(* one way or the other, and of the waiters for s_wifi_lock none waits     *)
(* forever.  Nothing is assumed of the user or of a connection.            *)
(***************************************************************************)
Fairness ==
    /\ WF_vars(Seen(OnDisconnect("left") \/ OnDisconnect("lost") \/ OnConnect
                    \/ PostNetworkEvent))
    /\ WF_vars(\E id \in NetworkEvents : OnNetworkEvent(id))
    /\ WF_vars(link = "connecting" /\ Seen(LinkUp \/ LinkLost))
    /\ \A p \in Callers : /\ WF_vars(Seen(Proceed(p)))
                          /\ SF_vars(Seen(TakeLock(p, ByForce(p))))
    /\ WF_vars(CommandReturns)
    /\ WF_vars(WakeUp \/ Loop \/ TryPrev \/ TryNext \/ NoMoreNetworks \/ Tried)
    /\ SF_vars(Scan)

FairSpec == Spec /\ Fairness

-----------------------------------------------------------------------------
TypeOK == WifiTypeOK /\ ManagerTypeOK

Settled == events = <<>> /\ handling = NoEvent

\* However late the handlers run, and whatever happened since the event they
\* handle: once they are done, wifi_is_connected says what is the case.
StatusExact == Settled => connected = (link = "up")

\* ... and the manager would reconnect to the network the station was on.
PrevIsCurrent == Settled /\ link = "up" => prev = ap

\* "User-initiated connections override the decisions of the manager": the
\* manager never ends a connection the user was told of, as long as
\* wifi_is_connected has not said otherwise in between.
UserOverrides == [][Leave(manager) /\ granted => link' = link]_vars

\* wifi_connect and wifi_disconnect return, though _disconnect waits for an
\* event without a timeout.
CallReturns == \A p \in Callers : pc[p] # "idle" ~> pc[p] = "idle"

\* Events that pile up are handled one per wake-up, and yet a connection that
\* was not ended by the user is never left down with the manager asleep.
NotForgotten == link # "up" ~> link = "up" \/ task # "wait" \/ left

\* "When a connection is established, the list of blocked networks is cleared."
BlocksCleared ==
    Settled /\ link = "up" /\ task = "wait" /\ pending = {} =>
        \A i \in Slots : ~used[i].blocked

\* When the user disconnects, "the manager will not try to reconnect to any
\* network".
LeaveRespected == [][left => ~(link = "idle" /\ link' = "connecting")]_vars
=============================================================================
