-------------------------------- MODULE Wifi --------------------------------
(***************************************************************************)
(* The connection half of hardware/wifi.c: wifi_connect, wifi_disconnect   *)
(* and the two handlers that keep s_is_connected and s_wifi_event_group.   *)
(* The handlers run in the task of the default event loop, the driver in   *)
(* one of its own and the callers in theirs: an action is what one of them *)
(* does between two accesses to what they share.  Saved networks are a     *)
(* module of their own, and wifi_scan is in NetworkManager.                *)
(***************************************************************************)
EXTENDS Naturals, Sequences

CONSTANTS
    Networks,    \* the networks in range, by SSID
    NoNetwork,
    Callers,     \* the tasks that call wifi_connect and wifi_disconnect
    Nobody,
    MaxAttempts, \* MAX_CONNECTION_RETRY_COUNT
    MaxEvents    \* what the queue of the event loop holds

ASSUME NoNetworkAssumption == NoNetwork \notin Networks
ASSUME NobodyAssumption == Nobody \notin Callers
ASSUME MaxAttemptsAssumption == MaxAttempts \in Nat \ {0}
ASSUME MaxEventsAssumption == MaxEvents \in Nat \ {0}

VARIABLES
    link,        \* the station: "idle", "connecting" or "up"
    ap,          \* the network the station is on or connecting to
    events,      \* the queue of the event loop
    handling,    \* the network event a handler is about to post, if any
    connected,   \* s_is_connected
    bits,        \* s_wifi_event_group
    lock,        \* who holds s_wifi_lock
    pc,          \* where each caller is in its call
    goal,        \* the network it wants, NoNetwork to disconnect; while it has
                 \* the lock, also that of esp_wifi_set_config
    attempt,     \* wifi_connect's i
    did          \* did_connect

driverVars == <<link, ap>>
statusVars == <<connected, bits, handling>>
callVars == <<lock, pc, goal, attempt, did>>
wifiVars == <<driverVars, events, statusVars, callVars>>

NetworkEvents == {"DROPPED", "LEFT", "CONNECTED"}
Event(id, network) == [id |-> id, network |-> network]
NoEvent == Event("none", NoNetwork)

WifiTypeOK ==
    /\ link \in {"idle", "connecting", "up"}
    /\ ap \in Networks \cup {NoNetwork}
    /\ (link = "idle") = (ap = NoNetwork)
    /\ Len(events) <= MaxEvents
    /\ \A i \in DOMAIN events :
          events[i] \in [id : NetworkEvents \cup {"lost", "left", "got_ip"},
                         network : Networks \cup {NoNetwork}]
    /\ handling \in [id : NetworkEvents \cup {"none"},
                     network : Networks \cup {NoNetwork}]
    /\ connected \in BOOLEAN
    /\ bits \subseteq NetworkEvents
    /\ lock \in Callers \cup {Nobody}
    /\ pc \in [Callers -> {"idle", "lock", "clear", "leave", "left",
                           "connect", "await", "done"}]
    /\ goal \in [Callers -> Networks \cup {NoNetwork}]
    /\ attempt \in [Callers -> 0 .. MaxAttempts]
    /\ did \in [Callers -> BOOLEAN]

\* As wifi_initialize leaves it.
WifiInit ==
    /\ link = "idle" /\ ap = NoNetwork
    /\ events = <<>> /\ handling = NoEvent
    /\ connected = FALSE /\ bits = {}
    /\ lock = Nobody
    /\ pc = [p \in Callers |-> "idle"]
    /\ goal = [p \in Callers |-> NoNetwork]
    /\ attempt = [p \in Callers |-> 0]
    /\ did = [p \in Callers |-> FALSE]

-----------------------------------------------------------------------------
(* The driver.  It leaves the handlers room for the event they post.       *)

DriverPosts(id) ==
    /\ Len(events) + 1 < MaxEvents
    /\ events' = Append(events, Event(id, NoNetwork))

\* The station is associated and has an address.
LinkUp ==
    /\ link = "connecting"
    /\ DriverPosts("got_ip")
    /\ link' = "up"
    /\ UNCHANGED <<ap, statusVars, callVars>>

\* The attempt fails, or the access point is lost.
LinkLost ==
    /\ link # "idle"
    /\ DriverPosts("lost")
    /\ link' = "idle" /\ ap' = NoNetwork
    /\ UNCHANGED <<statusVars, callVars>>

-----------------------------------------------------------------------------
(* The event loop.                                                         *)

IsNext(id) == handling = NoEvent /\ events # <<>> /\ Head(events).id = id

\* Mutant: leaving a network does not count as a disconnection.
onlyWhenLost(id) == connected /\ id = "left"

statusAfter(id) == FALSE

\* _on_disconnect.
OnDisconnect(id) ==
    /\ IsNext(id)
    /\ events' = Tail(events)
    /\ connected' = statusAfter(id)
    /\ handling' = Event(IF id = "left" THEN "LEFT" ELSE "DROPPED", NoNetwork)
    /\ UNCHANGED <<driverVars, bits, callVars>>

\* _on_connect does nothing when esp_wifi_sta_get_ap_info fails.
OnConnect ==
    /\ IsNext("got_ip")
    /\ events' = Tail(events)
    /\ IF link = "up"
       THEN /\ connected' = TRUE
            /\ handling' = Event("CONNECTED", ap)
       ELSE UNCHANGED <<connected, handling>>
    /\ UNCHANGED <<driverVars, bits, callVars>>

\* Both handlers end alike.
PostNetworkEvent ==
    /\ handling # NoEvent
    /\ Len(events) < MaxEvents
    /\ events' = Append(events, handling)
    /\ bits' = bits \cup {handling.id}
    /\ handling' = NoEvent
    /\ UNCHANGED <<driverVars, connected, callVars>>

-----------------------------------------------------------------------------
(* The callers.                                                            *)

Goto(p, l) == pc' = [pc EXCEPT ![p] = l]

\* wifi_connect, or wifi_disconnect when there is no network to connect to.
Begin(p, network) ==
    /\ pc[p] = "idle"
    /\ Goto(p, "lock")
    /\ goal' = [goal EXCEPT ![p] = network]
    /\ UNCHANGED <<driverVars, events, statusVars, lock, attempt, did>>

\* Mutant: every connection is forced.
Forced(force) == TRUE

MayConnect(force) == force \/ ~connected

\* Once it has the lock, only a forced call gives up an existing connection.
TakeLock(p, force) ==
    /\ pc[p] = "lock" /\ lock = Nobody
    /\ lock' = p
    /\ Goto(p, IF goal[p] = NoNetwork \/ MayConnect(force) THEN "clear"
                                                          ELSE "done")
    /\ UNCHANGED <<driverVars, events, statusVars, goal, attempt, did>>

\* _disconnect clears the bits, ...
Clear(p) ==
    /\ pc[p] = "clear"
    /\ bits' = {}
    /\ Goto(p, "leave")
    /\ UNCHANGED <<driverVars, events, connected, handling, lock, goal,
                   attempt, did>>

AfterDisconnect(p) == IF goal[p] = NoNetwork THEN "done" ELSE "connect"

\* ... disconnects if there is a connection ...
Leave(p) ==
    /\ pc[p] = "leave"
    /\ IF connected
       THEN /\ Goto(p, "left")
            /\ IF link # "idle"
               THEN /\ DriverPosts("left")
                    /\ link' = "idle" /\ ap' = NoNetwork
               ELSE UNCHANGED <<driverVars, events>>
       ELSE Goto(p, AfterDisconnect(p)) /\ UNCHANGED <<driverVars, events>>
    /\ UNCHANGED <<statusVars, lock, goal, attempt, did>>

\* Mutant: only a disconnection of our own ends the wait.
LeftOnly == {"LEFT"}

Disconnection == {"DROPPED", "LEFT"}

\* ... and waits for it without a timeout.
Left(p) ==
    /\ pc[p] = "left"
    /\ bits \cap Disconnection # {}
    /\ bits' = bits \ Disconnection
    /\ Goto(p, AfterDisconnect(p))
    /\ UNCHANGED <<driverVars, events, connected, handling, lock, goal,
                   attempt, did>>

\* The bits are cleared again for esp_wifi_connect.  A station that is not
\* idle goes on with what it does, whether the call is refused or not.
Connect(p) ==
    /\ pc[p] = "connect"
    /\ bits' = {}
    /\ IF link = "idle"
       THEN link' = "connecting" /\ ap' = goal[p] /\ Goto(p, "await")
       ELSE UNCHANGED driverVars /\ (Goto(p, "await") \/ Goto(p, "done"))
    /\ UNCHANGED <<events, connected, handling, lock, goal, attempt, did>>

\* The wait for an event, or CONNECTION_TIMEOUT_MS, ends an attempt.
Await(p) ==
    /\ pc[p] = "await"
    /\ did' = [did EXCEPT ![p] = "CONNECTED" \in bits]
    /\ bits' = {}
    /\ attempt' = [attempt EXCEPT ![p] = @ + 1]
    /\ Goto(p, IF "CONNECTED" \in bits \/ attempt[p] + 1 = MaxAttempts
               THEN "done" ELSE "clear")
    /\ UNCHANGED <<driverVars, events, connected, handling, lock, goal>>

\* Gives the lock back and returns did_connect.
Return(p) ==
    /\ pc[p] = "done"
    /\ lock' = Nobody
    /\ Goto(p, "idle")
    /\ goal' = [goal EXCEPT ![p] = NoNetwork]
    /\ attempt' = [attempt EXCEPT ![p] = 0]
    /\ did' = [did EXCEPT ![p] = FALSE]
    /\ UNCHANGED <<driverVars, events, statusVars>>

\* What the holder of the lock does next.
Proceed(p) ==
    Clear(p) \/ Leave(p) \/ Left(p) \/ Connect(p) \/ Await(p)

Environment ==
    \/ LinkUp \/ LinkLost
    \/ OnDisconnect("left") \/ OnDisconnect("lost") \/ OnConnect
    \/ PostNetworkEvent
=============================================================================
