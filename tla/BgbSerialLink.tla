---------------------------- MODULE BgbSerialLink ----------------------------
(***************************************************************************)
(* bgb_serial_link.py: BGBLinkCableServer with a SerialLinkCableClient for *)
(* its master_data_handler, between the BGB emulator, which is the master, *)
(* and the Game Boy behind SerialLink.                                     *)
(*                                                                         *)
(* BGB is modelled from what the server expects of it: packets that carry  *)
(* the time of its clock, and one transfer after the other.  Every packet  *)
(* comes a unit of time after the one before.                              *)
(***************************************************************************)
EXTENDS SerialLink

CONSTANTS
    ClockSize,  \* the values of BGB's clock, which wraps around, ...
    FirstTimes, \* and the ones it may show when BGB connects
    MaxPackets  \* a bound: the packets BGB sends

ASSUME ClockAssumption ==
    /\ ClockSize \in Nat /\ FirstTimes \subseteq 0 .. ClockSize - 1
    /\ MaxPackets \in Nat

VARIABLES
    host,      \* where the program is: "boot", "accept", "recv", "serial" in
               \* the handler of a transfer, or "ended"
    conn,      \* BGB's connection: "none", "up" or "closed"
    last,      \* _last_received_timestamp
    toServer, toBgb,  \* the packets on the connection
    clock, wrapped,   \* BGB's clock, and whether it has wrapped around
    packets,   \* how many packets BGB has sent
    sent,      \* the bytes BGB has sent as master, ...
    askedAt,   \* when it sent the last, ...
    answers    \* and the bytes it was given for them

bgbVars == <<clock, wrapped, packets, sent, askedAt, answers>>
serverVars == <<host, conn, last, toServer, toBgb, bgbVars>>
vars == <<adapterVars, serverVars>>

\* What BGB sends: a packet of "other" is a joypad update, a sync2 or a wish to
\* disconnect; a "bad" one is cut short, unknown or of another version.  The
\* right version is answered as a status is.
Plain == {"status", "sync3", "other", "bad"}
Packet(kind, data, time) == [kind |-> kind, data |-> data, time |-> time]

Init ==
    /\ AdapterInit
    /\ host = "boot" /\ conn = "none" /\ last = 0
    /\ toServer = <<>> /\ toBgb = <<>>
    /\ clock \in FirstTimes /\ wrapped = FALSE /\ packets = 0
    /\ sent = <<>> /\ askedAt = 0 /\ answers = <<>>

-----------------------------------------------------------------------------
(* BGB.                                                                    *)

Sends(kind, data) ==
    /\ conn = "up" /\ packets < MaxPackets
    /\ packets' = packets + 1
    /\ toServer' = Append(toServer, Packet(kind, data, clock))
    /\ clock' = (clock + 1) % ClockSize
    /\ wrapped' = (wrapped \/ clock' = 0)
    /\ UNCHANGED <<adapterVars, host, conn, last, toBgb, answers>>

SendPlain == \E kind \in Plain : Sends(kind, 0) /\ UNCHANGED <<sent, askedAt>>

\* A transfer begins when the last one has been answered.
SendMasterByte ==
    /\ Len(answers) = Len(sent)
    /\ \E data \in Values : Sends("sync1", data) /\ sent' = Append(sent, data)
    /\ askedAt' = clock

Receive ==
    /\ toBgb # <<>>
    /\ toBgb' = Tail(toBgb)
    /\ answers' = IF Head(toBgb).kind = "sync2"
                  THEN Append(answers, Head(toBgb).data) ELSE answers
    /\ UNCHANGED <<adapterVars, host, conn, last, toServer, clock, wrapped,
                   packets, sent, askedAt>>

Hangup ==
    /\ conn = "up"
    /\ conn' = "closed"
    /\ UNCHANGED <<adapterVars, host, last, toServer, toBgb, bgbVars>>

-----------------------------------------------------------------------------
(* The program.                                                            *)

\* Mutant: the first byte of the adapter is not waited for.
NoWait == UNCHANGED toHost

BootByte == toHost # <<>> /\ toHost' = Tail(toHost)

\* SerialLinkCableClient waits until the adapter is ready.
OpenSerial ==
    /\ host = "boot"
    /\ BootByte
    /\ host' = "accept"
    /\ UNCHANGED <<toAdapter, adapter, pins, gameBoy, resets, conn, last,
                   toServer, toBgb, bgbVars>>

\* _send_packet: a packet that cannot be sent is dropped, and the loop goes on.
Reply(kind, data, time) ==
    toBgb' = IF conn = "up" THEN Append(toBgb, Packet(kind, data, time)) ELSE toBgb

\* BGB connects and is told the version.
Accept ==
    /\ host = "accept"
    /\ host' = "recv"
    /\ conn' = "up"
    /\ toBgb' = <<Packet("version", 0, last)>>
    /\ UNCHANGED <<adapterVars, last, toServer, bgbVars>>

\* Mutant: the comparison is the wrong way round.
Oldest(time) == IF time < last THEN time ELSE last

\* The newest timestamp.
Stamp(time) == IF time > last THEN time ELSE last

\* The loop takes a packet that one of the handlers answers at once.
AnswerPacket ==
    /\ \E kind \in {"status", "sync3", "other"} :
          /\ Head(toServer).kind = kind
          /\ IF kind = "other" THEN UNCHANGED toBgb ELSE Reply(kind, 0, last')
    /\ UNCHANGED <<host, conn, toAdapter>>

\* _handle_sync1: the byte goes to the adapter, and its answer is waited for.
StartTransfer ==
    /\ Head(toServer).kind = "sync1"
    /\ toAdapter' = Append(toAdapter, Head(toServer).data)
    /\ host' = "serial"
    /\ UNCHANGED <<conn, toBgb>>

\* What is wrong with a packet ends the loop and the connection with it.
GiveUp ==
    /\ host' = "ended"
    /\ conn' = "closed"
    /\ UNCHANGED <<toAdapter, toBgb>>

\* (Nothing is sent after a bad packet, so that its timestamp does not matter.)
Recv ==
    /\ host = "recv" /\ toServer # <<>>
    /\ toServer' = Tail(toServer)
    /\ last' = Stamp(Head(toServer).time)
    /\ \/ AnswerPacket
       \/ StartTransfer
       \/ Head(toServer).kind = "bad" /\ GiveUp
    /\ UNCHANGED <<toHost, adapter, pins, gameBoy, resets, bgbVars>>

\* Mutant: an answer of 0 is taken for none, as _handle_sync2 does.
UnlessZero(byte) == IF byte = 0 THEN UNCHANGED toBgb ELSE Reply("sync2", byte, last)

Answer(byte) == Reply("sync2", byte, last)

\* send() of the adapter returns, and BGB is sent its sync2.
EndTransfer ==
    /\ host = "serial" /\ toHost # <<>>
    /\ toHost' = Tail(toHost)
    /\ Answer(Head(toHost))
    /\ host' = "recv"
    /\ UNCHANGED <<toAdapter, adapter, pins, gameBoy, resets, conn, last,
                   toServer, bgbVars>>

\* Mutant: an end is only looked for where a packet is expected.
MidStream == conn = "closed" /\ toServer # <<>>

\* The end of the connection is found by recv, before or after what is left of
\* the packets, and by nothing else.
NoMoreData == conn = "closed"

RecvEnds ==
    /\ host = "recv" /\ NoMoreData
    /\ host' = "ended"
    /\ UNCHANGED <<adapterVars, conn, last, toServer, toBgb, bgbVars>>

\* The serial port is gone: an exception in the handler.
SerialFails ==
    /\ host = "serial"
    /\ GiveUp
    /\ UNCHANGED <<toHost, adapter, pins, gameBoy, resets, last, toServer, bgbVars>>

Server == OpenSerial \/ Accept \/ Recv \/ EndTransfer \/ RecvEnds

Adapter == AdapterStep /\ UNCHANGED serverVars

Next ==
    \/ SendPlain \/ SendMasterByte \/ Receive \/ Hangup
    \/ Server \/ SerialFails
    \/ Adapter \/ (AdapterResets /\ UNCHANGED serverVars)

\* The program, the sketch and the Game Boy run; the connection delivers.
FairSpec ==
    /\ Init /\ [][Next]_vars
    /\ WF_vars(Server) /\ WF_vars(Adapter) /\ WF_vars(Receive)

-----------------------------------------------------------------------------
\* The emulator and the Game Boy have a link cable between them: each of BGB's
\* bytes reaches the Game Boy, bit for bit and once, and BGB is given the byte
\* the Game Boy had loaded for it.  An adapter that is reset breaks this: the
\* byte that says that it is ready is taken for an answer.
CableKept ==
    resets = 0 =>
        /\ \A n \in DOMAIN got : n <= Len(sent) /\ got[n] = sent[n]
        /\ \A n \in DOMAIN answers : n <= Len(got) /\ answers[n] = given[n]

\* BGB is told that the answer to a byte is from the moment it sent it, however
\* long the Game Boy took and whatever BGB has sent since.  This ends when the
\* clock wraps around: the newest timestamp is then an old one.
InSync ==
    \A n \in DOMAIN toBgb :
        toBgb[n].kind = "sync2" /\ ~wrapped => toBgb[n].time = askedAt

\* A server whose client has gone ends, though nothing reads the flag that a
\* failed send sets.
ServerEnds == conn = "closed" ~> host = "ended"

\* BGB never waits for ever: the transfer is answered, whatever the adapter
\* does meanwhile, or the connection ends.
TransferEnds == Len(answers) < Len(sent) ~> Len(answers) = Len(sent) \/ conn = "closed"
=============================================================================
