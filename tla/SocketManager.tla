---------------------------- MODULE SocketManager ----------------------------
(***************************************************************************)
(* tasks/socket_manager.c with socket.c under it: the task that sleeps     *)
(* until there is a network, connects to the server and relays bytes       *)
(* between it and the Game Boy until an error, over and over.              *)
(*                                                                         *)
(* The network, the server, the Game Boy and the user, who sets the port   *)
(* and exchanges bytes of his own on the console, are around it.  Bytes    *)
(* are numbered within a connection: those of the server in the order it   *)
(* sends them, those of the Game Boy by the exchange they come from.       *)
(***************************************************************************)
EXTENDS Integers, Sequences, FiniteSets

CONSTANTS
    PortMax, LongMax,  \* UINT16_MAX and LONG_MAX
    DefaultPort,       \* DEFAULT_SERVER_PORT
    Texts, NoText,     \* what may be stored as server_port: a number, or nothing
    MaxAddresses,      \* a bound: the addresses of a host
    MaxEvents,         \* what the queue of the event loop holds
    MaxBytes,          \* a bound: the bytes the server sends on a connection
    MaxTyped           \* a bound: the bytes the user sends during one

ASSUME PortAssumption ==
    /\ PortMax \in Nat /\ LongMax \in Nat /\ PortMax < LongMax
    /\ DefaultPort \in 1 .. PortMax
ASSUME BoundsAssumption == {MaxAddresses, MaxEvents, MaxBytes, MaxTyped} \subseteq Nat
ASSUME TextsAssumption == Texts \subseteq Int /\ NoText \notin Int

VARIABLES
    connected,  \* wifi_is_connected
    posted,     \* NETWORK_EVENT_CONNECTED events that are not handled yet
    notified,   \* the task's notification is pending
    text,       \* server_port, in storage
    pc,         \* where the task is, and app_main before there is one
    errno,      \* the task's: "ERANGE", or "other"
    port,       \* server_port, in _connect_to_server
    addresses,  \* how many addresses socket_connect has left
    success,    \* success, in _connect_socket
    open,       \* how many descriptors are open
    blocking,   \* whether the last socket created blocks
    rx, tx,     \* of _handle_data_until_error
    conn,       \* the TCP connection: "none", "up", "closed" by the server or
                \* by an error, or "vanished" with nobody telling
    asked,      \* how many bytes the server has sent on it
    received,   \* how many of them the task has read
    answers,    \* the bytes the server got back
    cable,      \* the exchanges on the link cable during it
    futile      \* the attempts begun since there was last a sign of a network

networkVars == <<connected, posted, notified>>
callVars == <<errno, port, addresses, success>>
socketVars == <<open, blocking>>
relayVars == <<rx, tx, received, cable>>
serverVars == <<conn, asked, answers>>
vars == <<networkVars, text, pc, callVars, socketVars, relayVars, serverVars,
          futile>>

NoPort == 0
Starting == {"boot", "registered"}
Relaying == {"read", "exchange", "write", "close"}
Waiting == {"wait", "asleep"}
Connecting == {"dial", "poll", "restore"}

TypeOK ==
    /\ connected \in BOOLEAN /\ notified \in BOOLEAN
    /\ posted \in 0 .. MaxEvents
    /\ text \in Texts \cup {NoText}
    /\ pc \in {"check", "config", "resolve", "create"}
              \cup Starting \cup Waiting \cup Connecting \cup Relaying
    /\ errno \in {"ERANGE", "other"}
    /\ port \in 0 .. PortMax
    /\ addresses \in 0 .. MaxAddresses
    /\ success \in BOOLEAN /\ blocking \in BOOLEAN
    /\ open \in Nat
    /\ {rx, asked, received} \subseteq 0 .. MaxBytes
    /\ tx \in 0 .. MaxBytes + MaxTyped
    /\ conn \in {"none", "up", "closed", "vanished"}
    /\ answers \in Seq(1 .. MaxBytes + MaxTyped)
    /\ cable \in Seq([by : {"task", "user"}, byte : 0 .. MaxBytes])
    /\ futile \in Nat

\* app_main before task_socket_manager_start.  The console and the network
\* manager are there already, and so may a connection be soon.
Init ==
    /\ connected = FALSE /\ posted = 0 /\ notified = FALSE
    /\ text = NoText
    /\ pc = "boot" /\ errno = "other" /\ port = NoPort
    /\ addresses = 0 /\ success = TRUE
    /\ open = 0 /\ blocking = TRUE
    /\ rx = 0 /\ tx = 0 /\ received = 0 /\ cable = <<>>
    /\ conn = "none" /\ asked = 0 /\ answers = <<>>
    /\ futile = 0

-----------------------------------------------------------------------------
(* The network, as wifi.c tells it.                                        *)

\* _on_connect sets the status and posts the event, in one step here, each time
\* the device is given an address: it may be connected already.
NetworkUp ==
    /\ posted < MaxEvents
    /\ connected' = TRUE
    /\ posted' = posted + 1
    /\ futile' = 0
    /\ UNCHANGED <<notified, text, pc, callVars, socketVars, relayVars, serverVars>>

NetworkDown ==
    /\ connected
    /\ connected' = FALSE
    /\ UNCHANGED <<posted, notified, text, pc, callVars, socketVars, relayVars,
                   serverVars, futile>>

\* Mutant: the task is woken up if it is asleep, and else not notified.
OnlyAsleep == notified \/ pc = "asleep"

\* A notification stays pending, and stays a single one, until it is waited for.
Pending == TRUE

\* The event loop hands an event to _on_network_connect, or to nobody before it
\* is registered.  Before there is a task it fails an assertion of FreeRTOS
\* (xTaskNotify with a NULL handle), which is a Reset.
OnNetworkConnect ==
    /\ posted > 0 /\ pc # "registered"
    /\ posted' = posted - 1
    /\ notified' = IF pc = "boot" THEN notified ELSE Pending
    /\ futile' = 0
    /\ UNCHANGED <<connected, text, pc, callVars, socketVars, relayVars, serverVars>>

-----------------------------------------------------------------------------
(* task_socket_manager_start.                                              *)

Start(from, to) ==
    /\ pc = from
    /\ pc' = to
    /\ UNCHANGED <<networkVars, text, callVars, socketVars, relayVars, serverVars, futile>>

RegisterHandler == Start("boot", "registered")

CreateTask == Start("registered", "check")

-----------------------------------------------------------------------------
(* The loop of the task.                                                   *)

Attempt ==
    /\ pc' = "config"
    /\ futile' = IF connected \/ posted > 0 THEN 0 ELSE futile + 1

\* Mutant: the status is not asked for.
AlwaysTry == TRUE

MayTry == connected

Check ==
    /\ pc = "check"
    /\ IF MayTry THEN Attempt ELSE pc' = "wait" /\ UNCHANGED futile
    /\ UNCHANGED <<networkVars, text, callVars, socketVars, relayVars, serverVars>>

\* xTaskNotifyWait blocks if no notification is pending, ...
Sleep ==
    /\ pc = "wait" /\ ~notified
    /\ pc' = "asleep"
    /\ UNCHANGED <<networkVars, text, callVars, socketVars, relayVars, serverVars, futile>>

\* ... and returns when one is.
Wake ==
    /\ pc \in Waiting /\ notified
    /\ notified' = FALSE
    /\ Attempt
    /\ UNCHANGED <<connected, posted, text, callVars, socketVars, relayVars, serverVars>>

-----------------------------------------------------------------------------
(* _connect_to_server.                                                     *)

\* strtol: a number that does not fit is cut to one that does, and errno says
\* so.  errno is left alone otherwise.
Fits(n) == n \in -LongMax - 1 .. LongMax
strtol(n) == IF Fits(n) THEN n ELSE IF n > 0 THEN LongMax ELSE -LongMax - 1
errnoAfter(n) == IF Fits(n) THEN errno ELSE "ERANGE"

\* Mutant: the number is used as it is.
NoCast(n) == n

uint16(n) == n % (PortMax + 1)

\* The port is the default for a number that is called invalid.
PortOf(n, err) ==
    IF strtol(n) = 0 \/ err = "ERANGE" \/ strtol(n) > PortMax
    THEN DefaultPort ELSE uint16(strtol(n))

ReadConfig ==
    /\ pc = "config"
    /\ IF text = NoText
       THEN port' = DefaultPort /\ UNCHANGED errno
       ELSE errno' = errnoAfter(text) /\ port' = PortOf(text, errno')
    /\ pc' = "resolve"
    /\ UNCHANGED <<networkVars, text, addresses, success, socketVars, relayVars,
                   serverVars, futile>>

\* There is no socket: back to the loop.
GiveUp ==
    /\ pc' = "check"
    /\ port' = NoPort /\ addresses' = 0 /\ success' = TRUE

\* getaddrinfo, which reports its errors in its result.
Resolve ==
    /\ pc = "resolve"
    /\ \/ GiveUp
       \/ /\ addresses' \in 1 .. MaxAddresses
          /\ pc' = "create"
          /\ UNCHANGED <<port, success>>
    /\ UNCHANGED <<networkVars, text, errno, socketVars, relayVars, serverVars, futile>>

NextAddress ==
    IF addresses > 1
    THEN /\ addresses' = addresses - 1
         /\ pc' = "create" /\ success' = TRUE
         /\ UNCHANGED port
    ELSE GiveUp

\* _create_socket, up to the switch to non-blocking mode: a call that fails
\* after the socket was created closes it.
CreateFails ==
    /\ pc = "create"
    /\ errno' = "other"
    /\ NextAddress
    /\ UNCHANGED <<networkVars, text, socketVars, relayVars, serverVars, futile>>

Create ==
    /\ pc = "create"
    /\ open' = open + 1
    /\ blocking' = FALSE
    /\ pc' = "dial"
    /\ UNCHANGED <<networkVars, text, callVars, relayVars, serverVars, futile>>

\* The server has accepted.
Accepted == conn' = "up" /\ UNCHANGED <<asked, answers>>

\* connect() of _connect_socket succeeds at once, is in progress, or fails.
Dial ==
    /\ pc = "dial"
    /\ \/ Accepted /\ pc' = "restore" /\ UNCHANGED <<errno, success>>
       \/ errno' = "other" /\ pc' = "poll" /\ UNCHANGED <<success, serverVars>>
       \/ /\ errno' = "other" /\ success' = FALSE
          /\ pc' = "restore" /\ UNCHANGED serverVars
    /\ UNCHANGED <<networkVars, text, port, addresses, socketVars, relayVars, futile>>

\* _wait_for_socket_connect: the socket is writable, or the wait fails or is
\* over.  An interrupted poll is repeated.
Poll ==
    /\ pc = "poll"
    /\ \/ Accepted /\ UNCHANGED <<errno, success>>
       \/ errno' = "other" /\ success' = FALSE /\ UNCHANGED serverVars
    /\ pc' = "restore"
    /\ UNCHANGED <<networkVars, text, port, addresses, socketVars, relayVars, futile>>

Closed == conn' = "none" /\ asked' = 0 /\ answers' = <<>>

\* Mutant: what failed is not closed.
NotClosed == UNCHANGED open

Dropped == open' = open - 1

\* Mutant: it is enough that the connection was made.
ConnectedAtLast(restored) == success

Usable(restored) == success /\ restored

\* Back to blocking mode, or not; then the socket is returned or closed.
Restore ==
    /\ pc = "restore"
    /\ \E restored \in BOOLEAN :
          /\ blocking' = restored
          /\ IF Usable(restored)
             THEN /\ pc' = "read" /\ port' = NoPort /\ addresses' = 0
                  /\ UNCHANGED <<errno, success, open, serverVars>>
             ELSE /\ Dropped /\ Closed
                  /\ errno' = IF restored THEN errno ELSE "other"
                  /\ NextAddress
    /\ UNCHANGED <<networkVars, text, relayVars, futile>>

-----------------------------------------------------------------------------
(* _handle_data_until_error.                                               *)

\* socket_read blocks until there is a byte.
Read ==
    /\ pc = "read" /\ received < asked
    /\ received' = received + 1
    /\ rx' = received + 1
    /\ pc' = "exchange"
    /\ UNCHANGED <<networkVars, text, callVars, socketVars, tx, cable, serverVars, futile>>

\* Mutant: the end of the stream is not an error.
ReadZero ==
    /\ pc = "read" /\ conn = "closed"
    /\ pc' = "exchange"
    /\ UNCHANGED <<networkVars, text, callVars, socketVars, relayVars, serverVars, futile>>

\* Mutant: every error is an interruption.
ReadRetries ==
    /\ pc = "read" /\ conn = "closed"
    /\ UNCHANGED vars

ReadFails ==
    /\ pc = "read" /\ conn = "closed"
    /\ errno' \in {errno, "other"}
    /\ pc' = "close"
    /\ UNCHANGED <<networkVars, text, port, addresses, success, socketVars,
                   relayVars, serverVars, futile>>

\* A byte goes over the cable and another comes back.
Swap(who, byte) == cable' = Append(cable, [by |-> who, byte |-> byte])

\* spi_exchange_byte.
Exchange ==
    /\ pc = "exchange"
    /\ Swap("task", rx)
    /\ tx' = Len(cable) + 1
    /\ pc' = "write"
    /\ UNCHANGED <<networkVars, text, callVars, socketVars, rx, received, serverVars, futile>>

\* socket_write: what is sent to a server that has gone is lost.
Write ==
    /\ pc = "write"
    /\ \/ /\ answers' = IF conn = "up" THEN Append(answers, tx) ELSE answers
          /\ pc' = "read"
          /\ UNCHANGED <<errno, conn, asked>>
       \/ /\ conn = "closed"
          /\ errno' = "other"
          /\ pc' = "close"
          /\ UNCHANGED serverVars
    /\ rx' = 0 /\ tx' = 0
    /\ UNCHANGED <<networkVars, text, port, addresses, success, socketVars,
                   received, cable, futile>>

Close ==
    /\ pc = "close"
    /\ open' = open - 1
    /\ Closed
    /\ rx' = 0 /\ tx' = 0 /\ received' = 0 /\ cable' = <<>>
    /\ pc' = "check"
    /\ UNCHANGED <<networkVars, text, callVars, blocking, futile>>

-----------------------------------------------------------------------------
(* The server: client.ts sends a byte when it has the answer to the last.  *)

ServerSends ==
    /\ conn = "up" /\ Len(answers) = asked /\ asked < MaxBytes
    /\ asked' = asked + 1
    /\ UNCHANGED <<networkVars, text, pc, callVars, socketVars, relayVars, conn,
                   answers, futile>>

\* The connection is closed or reset, by the server or, after a while, because
\* nobody answers; or the server is just gone.
ConnectionEnds ==
    /\ \/ conn = "up" /\ conn' \in {"closed", "vanished"}
       \/ conn = "vanished" /\ conn' = "closed"
    /\ UNCHANGED <<networkVars, text, pc, callVars, socketVars, relayVars, asked,
                   answers, futile>>

-----------------------------------------------------------------------------
(* The user, at the console, and a reset of the device.                    *)

\* set and delete, for server_port.
SetPort ==
    /\ text' \in Texts \cup {NoText}
    /\ text' # text
    /\ UNCHANGED <<networkVars, pc, callVars, socketVars, relayVars, serverVars, futile>>

\* exchange, during a connection.
UserExchanges ==
    /\ pc \in Relaying
    /\ Cardinality({i \in DOMAIN cable : cable[i].by = "user"}) < MaxTyped
    /\ Swap("user", 0)
    /\ UNCHANGED <<networkVars, text, pc, callVars, socketVars, rx, tx, received,
                   serverVars, futile>>

\* Storage outlives a reset.
Reset ==
    /\ connected' = FALSE /\ posted' = 0 /\ notified' = FALSE
    /\ pc' = "boot" /\ errno' = "other" /\ port' = NoPort
    /\ addresses' = 0 /\ success' = TRUE
    /\ open' = 0 /\ blocking' = TRUE
    /\ rx' = 0 /\ tx' = 0 /\ received' = 0 /\ cable' = <<>>
    /\ Closed
    /\ futile' = 0
    /\ UNCHANGED text

TaskStep ==
    \/ Check \/ Sleep \/ Wake \/ ReadConfig \/ Resolve \/ CreateFails \/ Create
    \/ Dial \/ Poll \/ Restore \/ Read \/ ReadFails \/ Exchange \/ Write \/ Close

Next ==
    \/ NetworkUp \/ NetworkDown \/ OnNetworkConnect
    \/ RegisterHandler \/ CreateTask
    \/ TaskStep
    \/ ServerSends \/ ConnectionEnds
    \/ SetPort \/ UserExchanges \/ Reset

Spec == Init /\ [][Next]_vars

\* The task and the event loop run.  Nothing is assumed of the network, the
\* server and the user.
FairSpec == Spec /\ WF_vars(OnNetworkConnect) /\ WF_vars(TaskStep)

-----------------------------------------------------------------------------
\* Whatever fails on the way to a connection and on it: the socket that is
\* used is the only one that is open, and there is none otherwise.
NoLeak == open = IF pc \in Connecting \cup Relaying THEN 1 ELSE 0

\* The relay reads from a socket that waits, though connecting makes it one
\* that does not: else a server that takes its time would look like an error.
RelayBlocks == pc \in Relaying => blocking

\* The status is asked for and the wait begun in two steps, and yet the task
\* never sleeps through a connection made in between or before.
NoLostWakeUp == pc \in Waiting /\ connected => notified \/ posted > 0

\* While there is no network a notification left over from an earlier one costs
\* a single attempt, and then the task sleeps.
OneFutileAttempt == futile <= 1

\* Between a connection and its end every byte of the server goes over the
\* cable once and in order, and the answer that came with it goes back; only
\* the last one may be missing.  The user's bytes come in between.
RelayExact ==
    LET mine == {i \in DOMAIN cable : cable[i].by = "task"}
        nth(i) == Cardinality({j \in mine : j <= i})
    IN  /\ \A i \in mine :
              /\ cable[i].byte = nth(i)
              /\ nth(i) <= Len(answers) => answers[nth(i)] = i
        /\ Len(answers) <= Cardinality(mine)
        /\ Cardinality(mine) <= Len(answers) + 1

\* A connection that the server closes is given up, so that the task connects
\* again.
ClosedIsGivenUp == conn = "closed" ~> conn = "none"

\* A port from 1 to UINT16_MAX that is configured is used: the code calls
\* others invalid and uses the default for them.
ConfiguredPortUsed ==
    [][pc = "config" /\ pc' = "resolve" /\ text \in 1 .. PortMax => port' = text]_vars
=============================================================================
