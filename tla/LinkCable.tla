------------------------------ MODULE LinkCable ------------------------------
(***************************************************************************)
(* The link cable end to end: exchangeByte of GameBoyClient, the           *)
(* connection, and at its other end the relay of socket_manager.c with the *)
(* Game Boy on its SPI bus.  Another peer may be there instead, one that   *)
(* is not in this repository: it answers, too, but may also speak before   *)
(* it is spoken to.                                                        *)
(*                                                                         *)
(* This is one connection, from the first byte to the last; that the relay *)
(* begins the next one afresh, and what the user's own exchanges do, is in *)
(* SocketManager.                                                          *)
(***************************************************************************)
EXTENDS GameBoyClient

VARIABLES
    peer,      \* "firmware" or "other"
    relay,     \* where _handle_data_until_error is
    held,      \* the byte it has: rx, and after the exchange tx
    exchanged  \* the bytes that went over the cable, in order

relayVars == <<relay, held, exchanged>>
linkVars == <<vars, peer, relayVars>>
clientVars == <<call, phase, callVars, writing, answers, socket, flowing, buffered>>

NoByte == 0

LinkTypeOK ==
    /\ TypeOK
    /\ peer \in {"firmware", "other"}
    /\ relay \in {"read", "exchange", "write", "closed"}
    /\ held \in Calls \cup {NoByte}
    /\ exchanged \in Seq(Calls)

LinkInit ==
    /\ Init
    /\ peer \in {"firmware", "other"}
    /\ relay = "read" /\ held = NoByte
    /\ exchanged = <<>>

-----------------------------------------------------------------------------
(* The firmware.                                                           *)

Firmware(from, to) ==
    /\ peer = "firmware"
    /\ relay = from
    /\ relay' = to
    /\ UNCHANGED <<clientVars, peer>>

\* socket_read.
Read ==
    /\ Firmware("read", "exchange")
    /\ toPeer # <<>>
    /\ held' = Head(toPeer)
    /\ toPeer' = Tail(toPeer)
    /\ received' = TRUE
    /\ UNCHANGED <<fromPeer, greetings, exchanged>>

\* Mutant: the exchange is repeated, as if the first had failed.
ExchangedTwice == exchanged \o <<held, held>>

OverCable == Append(exchanged, held)

\* spi_exchange_byte; what comes back is what the Game Boy gives for this byte.
ExchangeByte ==
    /\ Firmware("exchange", "write")
    /\ exchanged' = OverCable
    /\ UNCHANGED <<peerVars, held>>

\* socket_write.
WriteBack ==
    /\ Firmware("write", "read")
    /\ fromPeer' = Append(fromPeer, held)
    /\ held' = NoByte
    /\ UNCHANGED <<toPeer, received, greetings, exchanged>>

\* The connection has ended: the read or the write fails, and the relay closes
\* its socket, whatever had arrived on it.
RelayFails ==
    /\ socket # "open"
    /\ \E from \in {"read", "write"} : Firmware(from, "closed")
    /\ held' = NoByte
    /\ UNCHANGED <<peerVars, exchanged>>

\* The device is reset, or loses the network: the server is not told.
DeviceGone ==
    /\ \E from \in {"read", "exchange", "write"} : Firmware(from, "closed")
    /\ held' = NoByte
    /\ UNCHANGED <<peerVars, exchanged>>

-----------------------------------------------------------------------------
(* The other peer and the server.                                          *)

OtherAnswers ==
    /\ peer = "other"
    /\ PeerAnswers
    /\ UNCHANGED <<peer, relayVars>>

OtherGreets ==
    /\ peer = "other"
    /\ PeerGreets
    /\ UNCHANGED <<peer, relayVars>>

Server ==
    /\ \/ Call \/ StartExchange \/ EmitBuffered \/ WriteDone \/ WriteFails
       \/ \E c \in Calls : Timeout(c)
       \/ DataEvent \/ CloseEvent \/ PeerCloses
    /\ UNCHANGED <<peer, relayVars>>

LinkNext ==
    \/ Server
    \/ Read \/ ExchangeByte \/ WriteBack \/ RelayFails \/ DeviceGone
    \/ OtherAnswers \/ OtherGreets

\* The fairness of GameBoyClient: nothing is asked of the device.
LinkSpec == LinkInit /\ [][LinkNext]_linkVars /\ Fairness

-----------------------------------------------------------------------------
\* At most one byte is under way, in the connection or in the device, and only
\* during a call: the link runs in lock-step like the cable it stands for.
OneByteUnderWay ==
    greetings = 0 /\ socket = "open" =>
        Len(toPeer) + Len(fromPeer) + (IF held # NoByte THEN 1 ELSE 0)
            <= IF phase = "waiting" THEN 1 ELSE 0

\* With the firmware at the other end the server has a Cable: through timeouts,
\* a connection or a device that is lost between any two steps, and answers that
\* come too late.  Of another peer the mapping says nothing.
ByFirmware == peer = "firmware"

TheCable == INSTANCE Cable WITH
    call <- IF ByFirmware THEN call ELSE 0,
    state <- IF ~ByFirmware \/ phase = "idle" THEN "idle"
             ELSE IF phase = "rejected" THEN "failed" ELSE "asked",
    answers <- IF ByFirmware THEN answers ELSE [c \in Calls |-> NoAnswer]

CableSpec == TheCable!Spec
=============================================================================
