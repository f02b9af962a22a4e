# A verification project for GBPlay

GBPlay lets two Game Boys play over the internet: a microcontroller on each
link cable (`esp/GBPlay`) relays bytes over TCP to a server (`server`), which
pairs the players and plays the link cable's master for both of them. Older
tools (`tools`, `arduino`) do the same from a PC, over a serial port or for the
BGB emulator.

This directory holds TLA+ models of the parts of it whose correctness depends on
the order of events, the TLC configurations that check them, and TLAPS proofs of
what matters most, for every value of the constants: of the server for any number
of players, of the path between the server and a Game Boy for any number of
bytes, of Tetris for any number of wins, and of the firmware's and the adapter's
parts. Every safety property that a passing run checks is also proved, and so
are the three refinements.

## The system

| part | code | state | operations | talks to |
| --- | --- | --- | --- | --- |
| connection handler | `server/src/server.ts` | `sessions`, a Map by id | connection, "end" of a session | creates and fills sessions |
| session | `server/src/game-session.ts` | `clients`, `ended`, `state`, the run loop | `addClient`, `run`, `end`, `forAllClients`, `forwardClientBytes` | disconnect callbacks of its clients, "end" to the server |
| Game Boy client | `server/src/client.ts` | socket, listeners, timer, `lastReceivedByte` | `exchangeByte` and what is built from it, `disconnect` | socket events |
| Tetris | `server/src/games/tetris.ts` | win counts, status bytes, data of the round | one handler per state | both Game Boys, through the session |
| Wi-Fi | `hardware/wifi.c` | `s_is_connected`, an event group, `s_wifi_lock` | `wifi_connect`, `wifi_disconnect`, `wifi_scan`, two handlers | driver, event loop, callers in several tasks |
| saved networks | `hardware/wifi.c`, `hardware/storage.c` | an array and a count, a blob in flash | save, forget, look up, list, load at start | console, manager |
| flash storage | `hardware/storage.c` | blobs and strings by key | set, delete, read | saved networks, console, socket manager |
| network manager | `tasks/network_manager.c` | event bits, history ring with blocks, `prev_ssid` | one task, three handlers | Wi-Fi, saved networks |
| socket manager | `tasks/socket_manager.c`, `socket.c`, `hardware/spi.c` | a socket | connect, relay bytes until an error | Wi-Fi events, server, Game Boy |
| console | `commands.c` | none | connect, disconnect, load, forget, set, delete, SPI exchange | Wi-Fi, saved networks, storage, SPI |
| BGB link | `tools/common`, `tools/bgb-serial-link` | the newest timestamp of the emulator | one handler per packet | BGB emulator, serial adapter |
| serial adapter | `arduino/gb_to_serial` | two shift registers | one byte over eight clocks | PC, Game Boy |
| serial bridge, trader | `tools` | two clients; a trade | relay, trade states | PC side only |

What makes it hard:

* **Callbacks.** In the server one promise is raced for by a timer, a close
  event, a data event and a write callback; a session may end in any callback
  and its loop only finds out at its next socket error.
* **Peers that vanish, answer late or speak unasked.** TCP reports none of it
  at the time.
* **Two sides that count.** Server and Game Boys keep the score separately,
  from bytes that cross on the wire.
* **Tasks, events and locks.** In the firmware events are queued, handled late,
  merged into bits, and the state they are about may be gone by then.
* **Resets** between a change in memory and the write to flash, and of an adapter
  in the middle of a byte.

What makes each part correct: a player is never left in a dead or overfull game
and never alone when somebody else waits (server, session); an answer belongs to
its byte, an exchange leaves nothing behind, and a byte of the server is exchanged
with the Game Boy once and in order (client and device); both Game Boys and the
server agree on screen, data and score (Tetris); the status the rest of the
firmware relies on is right once the events are handled, every call returns, a
lost connection is looked after, the user's decisions stand (Wi-Fi, manager);
no wake-up, byte or socket is lost (socket manager);
saving is all or nothing, and an index the user was shown means what it meant
(saved networks, console); emulator and Game Boy get each other's bytes, bit for
bit, and neither waits for ever (BGB link and adapter).

## Modules

| module | models | its actions |
| --- | --- | --- |
| `GameServer` | server.ts, game-session.ts and, of tetris.ts, what every handler waits for | `JoinExisting`, `JoinNew` (connection handler); `TickWaiting`, `TickHandler`, `NextPart`, `ForwardAgain`, `FinishHandler`, `Reject` (run and its handlers, from await to await); `Answer`, `DataTimeout`, `CloseEvent` (callbacks); `PeerCloses`, `PeerVanishes` (players) |
| `Matchmaking` | what the server promises: players are paired in order of arrival, a game is over for both at once | abstract |
| `GameServerProofs` | proofs about `GameServer` | |
| `MatchmakingProofs` | the proof that `GameServer` implements `Matchmaking` | |
| `GameBoyClient` | client.ts: one exchange after another over one socket | `Call`, `StartExchange`, `WriteDone`, `WriteFails`, `Timeout`, `DataEvent`, `CloseEvent`; the socket's `EmitBuffered`; `PeerAnswers`, `PeerGreets`, `PeerCloses` |
| `LinkCable` | `GameBoyClient`, the connection, and the relay and SPI bus of the device, or another peer, at its other end | `Read`, `ExchangeByte`, `WriteBack`, `RelayFails` (the relay), `DeviceGone`; `OtherAnswers`, `OtherGreets`; `Server`, which is any step of `GameBoyClient` but the peer's |
| `Cable` | what the server believes it has at the other end: a link cable | abstract |
| `LinkCableProofs` | proofs about `LinkCable` and `GameBoyClient` | |
| `TetrisSession` | tetris.ts against two Game Boys | `ScriptStep` (one exchange of forAllClients), `ForwardToSecond`, `ForwardToFirst` (forwardByte), `NextPart`, `NextHandler`, `GameBoyStep` |
| `Wifi` | the connection half of wifi.c | driver, handlers, and a call from `Begin` to `Return` |
| `NetworkManager` | network_manager.c and the user, on top of `Wifi` | `WakeUp`, `Loop`, `TryPrev`, `Scan`, `TryNext`, `NoMoreNetworks`, `Tried`, `OnNetworkEvent`, `BlockExpires`, `Command`, `CommandReturns` |
| `SocketManager` | socket_manager.c, socket.c and what they need of wifi.c, storage.c, spi.c | `RegisterHandler`, `CreateTask` (start-up); `Check`, `Sleep`, `Wake`, `ReadConfig`, `Resolve`, `Create`, `CreateFails`, `Dial`, `Poll`, `Restore`, `Read`, `ReadFails`, `Exchange`, `Write`, `Close` (the task); `OnNetworkConnect` (event loop); `NetworkUp`, `NetworkDown`, `ServerSends`, `ConnectionEnds`, `SetPort`, `UserExchanges`, `Reset` around it |
| `SocketManagerProofs` | proofs about `SocketManager` | |
| `TetrisSessionProofs`, `NetworkManagerProofs`, `ConsoleProofs`, `BgbSerialLinkProofs` | proofs about the module each is named after | |
| `NetworkStore` | what flash promises: strings, and a table of networks, changed as a whole or not at all | abstract |
| `SavedNetworks` | the array, the count, the strings and the flash behind them | `SaveNetwork`, `ForgetNetwork`, `StoreValue`, `SetItem`, `Commit`, `StoreReset` |
| `Console` | the commands of commands.c that change what is saved, on top of `SavedNetworks` | `Connect`, `ConnectReturns`, `List`, `Load`, `Forget`, `ChangeValue`, `Write`, `Reset` |
| `SerialLink` | gb_to_serial.ino and the Game Boy on its pins, bit by bit | `Setup`, `TakeByte`, `ClockLow`, `ClockHigh`, `GiveBack`, `Delay`; `GameBoyLoads`; `AdapterResets` |
| `BgbSerialLink` | bgb_serial_link.py with bgb_link_cable_server.py and serial_link_cable.py, on top of `SerialLink` | `OpenSerial`, `Accept`, `Recv`, `EndTransfer`, `RecvEnds`, `SerialFails`; BGB's `SendPlain`, `SendMasterByte`, `Receive`, `Hangup` |

An action is what happens between two points at which something else may run:
in Node one callback up to its next `await`, in the firmware the accesses to
shared state between two of another task. `PROJECT.json` maps each definition to
its lines.

How the server's three modules divide it: `GameServer` knows who is in which
session and which exchanges a handler waits for, but not the bytes;
`TetrisSession` knows the bytes and takes an exchange as one step with two
connected players; `LinkCable` shows what justifies that step: client, connection,
relay and SPI bus together implement `Cable`, where a byte is exchanged with the
Game Boy once, in order, and answered with what the Game Boy gave for it.
`GameBoyClient` numbers bytes by the calls they belong to, so that an answer that
comes for the wrong byte can be seen. `LinkCable` follows one connection;
`SocketManager` shows that the relay begins the next one afresh, and lets the user
exchange bytes of his own in between. Likewise `NetworkManager` takes the set
`Saved` as given, which `SavedNetworks` maintains.

Choices worth knowing:

* Time is not measured. A timer may fire whenever it is running, also early; a
  pause is over when what it waits for has happened (the 500 ms before a round
  are modelled as long enough for the Game Boys).
* `GameServer.JoinNew` needs a free id. With every id in use the loop of
  server.ts would not end; 456976 games would have to be under way.
* The Game Boys of `TetrisSession` are external: they are as tetris.ts and its
  sleep comments expect them, with every byte loaded before the one it crosses
  is heard. Blocks of data are one byte.
* In `Wifi` the driver and the event loop are external. `esp_wifi_connect` on a
  station that is not idle may succeed or be refused, without effect.
  `goal` also stands for the configuration passed to `esp_wifi_set_config`,
  which only the holder of the lock sets. Some adjacent steps are merged where
  nothing another task does in between makes a difference: taking the lock and
  the check after it, clearing the bits and `esp_wifi_connect`, and, in a handler,
  setting the bits and posting the event: only the event loop, which runs the
  handler, hands out what is posted.
* In `NetworkManager` unsaved networks of a scan are left out (the code passes
  over them), and a block is one bit that expires at any time.
* `SocketManager` takes the network as two facts wifi.c keeps, the status and the
  event that follows it. `NetworkUp` does both in one step and may come while the
  status is set already (each new address posts an event); the two are steps of
  their own in `Wifi`. Between them a task that is asleep would stay so for as long
  as the handler takes to post. An interrupted call is repeated by the code without a
  trace and is no step; of `errno` only `ERANGE` is told apart. The network may
  be down while a connection is up: TCP learns of it later. An exchange on the
  cable is one step; were two tasks to be in the SPI driver at once, which it is
  not made for, its assertion resets the device, and `Reset` may happen anywhere.
* `SocketManager` begins before its task is started, while the network manager
  and the console are already running. An event handled before the handler is
  registered is lost; one handled before there is a task fails an assertion of
  FreeRTOS, which is a reset. That the task asks for the status before it first
  waits is what keeps `NoLostWakeUp` true.
* In `LinkCable` the peer is either the firmware or a stranger. The firmware may be
  reset or lose its network at any point; the server is not told. A stranger may
  send bytes before it is spoken to. A device that is gone does not come back on
  the same connection.
* `Console` runs one command at a time, as esp_console does. SSIDs are sequences of
  characters, because two fields that differ by one in length meet here: the
  table keeps `WIFI_MAX_SSID_LENGTH` characters and the driver is given one less,
  as `snprintf` is passed the size of a field that needs no terminator. An SSID of
  exactly that length is thus dialled without its last character. Nothing in the
  repository says what should happen, so no property is about it.
* The Game Boy of `SerialLink` is external: a slave that shows a bit on a falling
  clock, takes one on a rising clock, and loads its next byte some time after the
  last bit, which the sketch waits for. In `BgbSerialLink` the emulator is
  external: it is the master and sends packets stamped with its clock.

## Runs

All passing runs finish within five minutes on two workers.

| run | instance | shows |
| --- | --- | --- |
| `game_server` | 3 connections, 2 sessions, 2 ids | `AtMostOneJoinable`, `RegistryExact`, `NoOrphan`, `FullWhenPlaying`, `ExchangesAreOwn`; that the server implements `Matchmaking`; `DepartureEndsGame`, `SilentPlayerEndsGame`, `StartedLoopStops` |
| `game_server_ended_loop` | 2 connections, 2 sessions | **violated**: the loop of a session that ends while it waits for players never stops |
| `gameboy_client` | 4 exchanges, 2 bytes sent unasked | with the device or a stranger at the other end: answers are paired with their bytes, or late by no more than the peer spoke out of turn (`Paired`), one byte is under way (`OneByteUnderWay`), nothing is left on the socket (`CleanedUp`), every exchange settles (`CallSettles`); that the link implements `Cable` |
| `tetris_session` | games to 4 wins, any draws, repeated | `ScoresAgree`, `InStep`, `SameRoundData`, `GameEnds` |
| `network_manager_safety` | 2 networks, 1 saved, 2 commands, 2 attempts, a queue of 2 | `StatusExact`, `PrevIsCurrent`, `UserOverrides` |
| `network_manager_liveness` | 1 network, 1 command | `CallReturns`, `NotForgotten` |
| `network_manager_clear` | a queue of 3 | **violated**: after a connection blocks may remain, and the new network may itself be blocked |
| `network_manager_leave` | a queue of 3 | **violated**: after the user left, the manager may reconnect |
| `console` | names of 1 to 3 characters in fields of 2, 3 slots, 2 passwords, 1 string, indexes from -1 to 3 | `Packed`, `ListedIndexHolds`, and that array, count and flash implement `NetworkStore` |
| `socket_manager` | 2 addresses, 3 bytes from the server, 2 typed, a queue of 2, 2 bits for a port | `NoLeak`, `RelayBlocks`, `NoLostWakeUp`, `OneFutileAttempt`, `RelayExact`, `ClosedIsGivenUp` |
| `socket_manager_port` | 1 byte of each | **violated**: a valid port may be called invalid |
| `bgb_serial_link` | bytes of 2 bits, 3 packets, a clock of 6 values that begins at 1 or at 4, 1 reset of the adapter | `CableKept`, `InSync`, `ServerEnds`, `TransferEnds` |

Why the bounds are enough to show the interesting cases: with three connections
one player waits, leaves or joins while two others play, and an ended session is
still running when its players' ids are used again; two games at once are beyond
this instance, and what it shows of them is proved instead, for all sizes (see
Proofs), except liveness. Four exchanges let an answer be late by more than one.
Four wins are the real number; rounds and games repeat
without a bound. One saved and one unsaved network with a ring of one entry have
the ratio of the code (as many entries as saved networks) and make the ring
evict; two commands are a connection and a disconnection, or two connections; a
queue of two or three holds an event of the driver behind one that is still
being handled. The queue of `NetworkManager` is bounded in the guards of the
driver (`MaxEvents`), the commands by `MaxCommands`, calls and greetings of
`GameBoyClient` by `MaxCalls` and `MaxGreetings`. Three bytes and two typed ones
let the user come in anywhere between bytes of the relay. A port of 2 bits and a
long of 4 keep the order of the code's (16 and 32 or 64 bits), and `MCTexts` has
a number of each kind: one that wraps, a port, one too large for a port, one too
large for a long. The names of `console` are short, as long as their field, and
too long for it, and there are more of them than slots. Two bits are enough for
first and last to differ in a byte; three packets are a transfer with another
packet before and one after it, or three transfers. The clock of 6 values does not
wrap around during three packets when it begins at 1, and wraps in the middle of
them when it begins at 4: `InSync` is thus asked of an answer that other packets
surround, and the clock's wrap happens too.
`MaxPackets` and `MaxResets` bound them. `MaxBytes`, `MaxTyped` and `MaxAddresses` bound a connection,
`MaxEvents` the queue; there may be any number of connections, resets and
settings.

Deadlock is not checked where the system may rightly stop: when all modelled
players have come and gone, when all exchanges are done, and when the user has
left the network and gives no further command, and when the emulator has hung up.

### Fairness

`GameServer`: Node runs what is scheduled, so callbacks whose event has happened
run, and a timer that is armed fires. Players owe nothing: they need not answer,
come or leave. `GameBoyClient`: timer and close event, nothing of the peer.
`NetworkManager`: the event loop and the tasks run, the driver ends an attempt to
connect one way or the other, `wifi_connect`'s wait ends by its timeout, and
`s_wifi_lock` is fair to its waiters (FreeRTOS hands a mutex to the waiter of
highest priority that waited longest), which is strong fairness of taking it.
Nothing is assumed of the user or that a connection lasts or is ever made. 
`SocketManager`: the task and the event loop run; every wait but the one for a
byte ends by itself. Nothing is assumed of server, network and user. `LinkCable`
takes the fairness of `GameBoyClient` and asks nothing of the device.
`BgbSerialLink`: the program, the sketch with its Game Boy, and the delivery of
packets; nothing of the emulator's sending, of resets or of failures. The other
specifications are checked for safety only.

### What the violated runs mean

* `game-session.ts:144` reschedules `run` without asking whether the session has
  ended, trusting that a socket error will stop it. In `WaitingForPlayers` there
  is no socket to fail: every player who leaves before being paired leaves a loop
  behind.
* `network_manager.c:177-204` clears all pending events and handles one of them:
  a LEFT hides the CONNECTED behind it and blocks the network just connected to.
* `network_manager.c:185` asks only whether there is a connection, not whether
  the user wants one.
* `socket_manager.c:49` looks at an `errno` that nobody has reset: after a port
  too large for a long, and as long as no socket call has failed since, a valid
  port is refused too.

Two more observations are not runs of their own, because no text of the
repository says otherwise; the properties are stated so as to leave them out, and
TLC finds them as soon as the condition is dropped. `InSync` holds only until the
emulator's clock wraps around (`bgb_link_cable_server.py:67` keeps the largest
timestamp, not the latest). `CableKept` holds only of an adapter that is not reset
(the byte `setup()` sends at `gb_to_serial.ino:14` is then taken for an answer, and
each answer after it for the next). A third is in `Paired`: a byte that a stranger
sends before it is asked is discarded only until the write callback
(`client.ts:96`), and one that arrives later shifts every answer after it.

One divergence needs no run: `tetris.ts:156-160` sends garbage first,
`docs/_game-protocols/Tetris.md` says tetrominoes first;
`docs/captures/tetris.csv` agrees with the code.

`UserOverrides` is stated with care: it protects a connection from the moment the
user is told until the station or `wifi_is_connected` says it is gone. Without
the second half TLC shows a window in which an event of a connection that was
lost and made again has not been handled yet, and the manager tears down the new
one.

## Proofs

`GameServerProofs` proves, for any sets of connections, sessions and ids (finite
or not), that every reachable state of `GameServer` satisfies `TypeOK`,
`AtMostOneJoinable`, `RegistryExact`, `NoOrphan`, `FullWhenPlaying`,
`ExchangesAreOwn` and `StoppedIsEnded`. The only assumptions are the two of
`GameServer`: `NoSession` and `NoId` are none of the sessions and ids. `TypeOK` and `StoppedIsEnded`, which say
little of their own, are proved and not listed in a run.

None of these is inductive by itself. The invariant `IInv` adds:

* `Blank`: a session not created yet has no clients and has not ended;
* `Registry`: the Map and the ids of the live sessions are inverse to each other,
  which is what makes a deletion by id safe;
* `Seats`: an open connection is in the list of the live session it joined, lists
  hold only clients that joined, each once, and that of an ended session is empty;
* `OneWaiting`: no list is longer than two, and of live sessions with fewer than
  two clients there is only one;
* `Running` and `Chained`: a loop that is awaiting is in a part its handler has,
  and what is pending are chains of clients that joined the session.

`NoOrphan` needs `Seats` because the handler of one client's close event ends a
session that another client is in; `FullWhenPlaying` needs it because nothing in
the handlers counts the players again; `AtMostOneJoinable` needs `OneWaiting`
because a new session is made on the strength of what the registry says.
The proof has one lemma
per part of the invariant where a step disturbs it (`End`, joining, starting a
part, answering) and then one step per action.

`MatchmakingProofs` proves from it that `GameServer` implements `Matchmaking`. One
more invariant is needed, `Listed`: who has joined a live session is in its list,
also while they are leaving; else the end of a session would not account for a
player whose socket is closing. Every step is shown to be of one of three kinds,
as far as lists and ends of sessions go (`Effects`): it leaves them alone, ends
one live session, or adds a player to the only list with room or to a new one.
The first is a stutter, the second `GiveUp` or `Break`, the third `Wait` or `Pair`.
Two theorems say what it means for the players: `EveryoneInOnePlace` and
`GamesEndForBoth`.

`SocketManagerProofs` proves `NoLeak`, `RelayBlocks`, `NoLostWakeUp` and
`OneFutileAttempt` of `SocketManager` for all its constants. The invariant adds
`Unpaid`, that a notification still pending has cost no attempt yet: without it
the count could go up twice. No assumption on the constants is used. Its
lemmas say which halves of the invariant a step cannot disturb: most steps of
the task leave the network alone, most others the socket.

A second invariant, `RInv`, is about the bytes, and `RelayExact` follows from it.
The user's exchanges are anywhere among those of the task, so that the *n*-th byte
of a connection is not the *n*-th on the cable: `InOrder` counts the exchanges of
the task up to each, `Lockstep` says how many bytes have been sent, read,
exchanged and answered at each place of the relay, and `Quiet` that there are none
outside it, which is what makes the next connection begin afresh. The assumption
is `BoundsAssumption`, that the bounds are numbers. `TypesCorrect` needs
`PortAssumption` and `TextsAssumption` (the port of 16 bits is less than a long;
what is stored is a number, or nothing), and `PortIsUsed` states what is left of
the property that `socket_manager_port` violates: a valid port is used, unless
`errno` is stale.

`LinkCableProofs` proves, for any `MaxCalls` and `MaxGreetings`, `LinkTypeOK`,
`Paired`, `CleanedUp` and `OneByteUnderWay` of `LinkCable`, and that it implements
`Cable`. The only assumption is `BoundsAssumption`, that the bounds are numbers. The inductive invariant follows the bytes:

* `Listening`: the listeners are those of the pending call, if there is one;
* `Phases`: what a phase says of the socket and of the write callback;
* `Bounded`: the bytes in both queues and in the device are no more than the one
  that is owed an answer and those sent unasked;
* `InOrder`: queues and device hold bytes of consecutive calls, the newest last;
* `Unheard`: a peer that has not read anything has everything still before it;
* `RelayOK`: what the relay has exchanged, and what is on its way to it, is what
  was sent, unless the relay is closed with no answer left.

`Paired` is not inductive without `InOrder`, which says of the byte at the head of
the queue what `Paired` says of the answer it becomes; `InOrder` needs `Bounded`,
and `Bounded` needs `Listening`, since only a listener takes a byte away in time.
For the refinement two lemmas carry the weight: with the firmware at the other
end the answer a call takes is to its own byte and was exchanged last
(`TakesTheAnswer`), and what the relay exchanges is the byte of the latest call,
for the first time (`ExchangesTheLatest`).

`TetrisSessionProofs` proves `TypeOK`, `ScoresAgree`, `InStep`, `SameRoundData` and
`GameEnds` of `TetrisSession` for every `WinsNeeded` (`WinsAssumption`: at least
one). `GameEnds` says that the two counts of the server and both tallies of the Game
Boys are zero when a game starts, that no round follows the one that ends it, and that
only one player ever has the wins for it. The scripts, which are data, become cases first: `PartsTable` lists what is
awaited in each part. The invariant then says of each client:

* `Where`: which screens its Game Boy can show at each place of each part;
* `Score`: its tally is the server's score, but for a round that one of the two has
  counted and the other has not, and a game that is over for the Game Boy already;
* `Data` and `Quiet`: what it has is of this round, and nothing of the last round is
  left to be forwarded into it;

and of both, `Limits` (what is reset before a game and a round, and that a round
credits one player at most) and `Duel`: while a round is
decided each Game Boy's verdict is one that follows from what it has said and what
has reached it (`Judges`), where a status byte is with the server for a whole
exchange before the other hears it (`Told`, `Heard`, `UnderWay`). Without `Duel` the
score would not be inductive: the server counts from the two status bytes, each
Game Boy from its own and the one it heard.

`NetworkManagerProofs` proves `TypeOK`, `StatusExact`, `PrevIsCurrent` and
`UserOverrides` of `NetworkManager` for any networks, attempts, commands, slots and
length of the queue. The assumptions are those of `Wifi` and `NetworkManager`: the
extra values are none of the real ones, there are two callers, the bounds are
positive numbers, and the saved networks are finitely many (the ring is searched
for the one used last). `StatusExact` and `PrevIsCurrent` speak of an empty queue
and are not inductive; the invariant says what a queue that is not empty still
has to tell:

* `CallInv`: the calls of wifi.c hold `s_wifi_lock` one at a time, from the check to
  the return;
* `LastTells`: the last event about the link says whether it is up, and if there is
  none, `wifi_is_connected` does;
* `LastConnected`: with the link up and no event about it left, the network it is on
  is the one a handler is about to post, else that of the last CONNECTED in the
  queue, else `prev_ssid`;
* `Respected`: while the user's connection stands the manager is not past the check
  in `wifi_connect`;
* `Awaited`: what `_disconnect` waits for is set, about to be posted, or in the
  queue.

`Awaited` is a theorem of its own, `NoEndlessWait`: the safety half of `CallReturns`.
`UserOverrides` is an action property and follows from `Respected`, before and
after the step.

`ConsoleProofs` proves `TypeOK`, `Packed` and `ListedIndexHolds` of `Console` and
`SavedNetworks`, and that they implement `NetworkStore`, for any names, lengths and
number of slots. The assumptions: names are sequences of characters and not
empty, lengths are positive, indexes are integers, and `NoValue`, `NoJob` and
`NoLine` are none of what they stand for the lack of. The invariant says of each
of the three tables (in memory, set, committed) that it is `Good`: packed, of
names that fit, and with the listed networks where they were listed; `Behind` says
by what they differ at each step of a write, and `Pending` that this is what was
asked for. `Packed` needs the names to be `Usable`, since a name that was cut in the
table would not be found there again. The loop of `wifi_forget_network` is a
recursive function over the slots. `ForgetLoop` proves that it is the shift of what
is behind the forgotten slot, by way of a least counterexample, and `SaveTable` and `ForgetTable` that an array
changed in place is the table that `NetworkStore` has after the operation.

`BgbSerialLinkProofs` proves `InSync` and `CableKept` of `BgbSerialLink` for bytes of
any number of bits, any clock, and any number of packets and resets, from
`BitsAssumption` and `ClockAssumption`. `SyncInv` says that the transfer under way is in
one place at most (`OnePlace`: its sync1 is on its way, or the handler is at work, or
its sync2 is on its way back) and that the packets come in the order of their
times until the clock wraps (`Timely`). `CableInv` follows the byte further while no
adapter was reset: it is asked for on the serial line, being shifted, or answered
(`Asked`, `Shifting`, `Answered`). Half-way through, `Low` and `High` say where its two
halves are: the first *i* bits of what leaves one shift register are the last *i* of
the other. That this is kept by a turn of the loop is arithmetic on powers of two,
about which the provers know nothing: lemmas derive it from the recursion of
`Weight` (`WeightSplits`, `Shift`, `NextBit`, and from them `LowToHigh`, `Rise`, `HighToLow`,
`HighToDone`), by the principle that a nonempty set of numbers has a least one.

What is only model-checked: the liveness properties, `DepartureEndsGame`,
`SilentPlayerEndsGame`, `StartedLoopStops`, `CallSettles`, `CallReturns`, `NotForgotten`,
`ClosedIsGivenUp`, `ServerEnds` and `TransferEnds`, since fairness and ENABLED are
beyond the prover. Where a definition is recursive (`Weight`, the
loop of `wifi_forget_network`) it is a function, and the proofs go through a
least counterexample, because the theorems of induction take an operator as a
parameter and cannot be used.

## Plan

In this order; what is done is above.

1. Proofs: the safety half of what the liveness properties rest on, as was done
   for `CallReturns` (`NoEndlessWait`): that a session that is left always has a
   callback pending that ends it, that a closed connection finds the task of the
   socket manager in a call that will notice, and that the BGB server is never
   left with a transfer that nothing is going to answer.
2. The tools that are left: `gb_tcp.py`'s two-client link, the slave mode of the
   BGB server, the trader's state machine on top of it.
3. The random generators of tetris.ts as operators against the original's rule.

## Not modelled

* Formatting, logging, help texts and the console's parsing; the LED, the status
  indicator and the HTTP client, which only put out.
* Lengths of passwords, keys and values, and a torn read of `prev_ssid`.
* `delete` of the key the saved networks are kept under: they would be gone from
  flash and stay in memory until the next save.
* The server's host name, which is read apart from its port.
* `wifi_deinitialize`, which `app_main` never reaches.
* The slave mode of the BGB server (`send_master_byte`), `stop()` from another
  thread, and `SerialLinkCableServer`: only trader.py and gb_tcp.py use them.
* The tools `gb_tcp.py`, its game protocols and `trader.py`; the random generators
  of tetris.ts; the site and the captures.

`PROJECT.json` lists every component and, under "hazards", what each part is
exposed to, with the properties that cover it or why none does.
