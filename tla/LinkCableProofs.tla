--------------------------- MODULE LinkCableProofs ---------------------------
(***************************************************************************)
(* What GameBoyClient and LinkCable promise holds for any number of calls  *)
(* and of bytes that the peer sends unasked, and the link implements Cable.*)
(*                                                                         *)
(* The invariant follows the bytes: how many are under way, which calls    *)
(* they belong to, and how far the relay has come with them.               *)
(***************************************************************************)
EXTENDS LinkCable, SequenceTheorems, TLAPS

Queues == <<toPeer, fromPeer, received, greetings>>

\* A pending call, and nothing else, listens.
Pending == IF phase = "waiting" THEN {call} ELSE {}

Listening ==
    /\ dataListeners = Pending /\ closeListeners = Pending
    /\ timers \subseteq Pending

Phases ==
    /\ phase # "idle" => call # 0
    /\ phase = "waiting" => flowing /\ (writing <=> ~sentByte)
    /\ writing => phase = "waiting"
    /\ phase = "rejected" => socket # "open"

\* How many calls have sent their byte, and how many of them have no answer yet.
Unsent == IF phase = "delay" \/ (phase \in {"waiting", "rejected"} /\ ~sentByte)
          THEN 1 ELSE 0
Sent == call - Unsent
Owed == IF phase \in {"waiting", "rejected"} /\ sentByte THEN 1 ELSE 0

Holding == IF held = NoByte THEN 0 ELSE 1
Behind == Len(toPeer) + Holding  \* the bytes that are not answered
UnderWay == Behind + Len(fromPeer)

Bounded == UnderWay <= greetings + Owed

\* The bytes follow each other in the order of the calls, the newest last.
InOrder ==
    /\ \A n \in 1 .. Len(toPeer) : toPeer[n] = Sent - Len(toPeer) + n
    /\ held # NoByte => held = Sent - Len(toPeer)
    /\ \A n \in 1 .. Len(fromPeer) :
          /\ fromPeer[n] <= Sent
          /\ Sent <= fromPeer[n] + Behind + (Len(fromPeer) - n)

\* What is sent unasked comes before the first answer.
Unheard == ~received => Len(toPeer) = Sent /\ held = NoByte

QueuesOK == Bounded /\ InOrder /\ Unheard

Exchanging == IF relay = "exchange" THEN 1 ELSE 0
Taken == Len(exchanged) + Exchanging + Len(toPeer)

\* The relay has exchanged what was sent, but for what is on its way to it; once
\* closed it may have lost a byte, and then no answer is left.
RelayOK ==
    /\ held = NoByte <=> relay \in {"read", "closed"}
    /\ peer = "other" => relay = "read"
    /\ peer = "firmware" => greetings = 0
    /\ peer = "firmware" /\ (relay # "closed" \/ fromPeer # <<>>) => Taken = Sent

IInv == LinkTypeOK /\ Listening /\ Phases /\ QueuesOK /\ RelayOK /\ Paired

-----------------------------------------------------------------------------
\* The counts the invariant is about.
LEMMA Counts ==
  ASSUME LinkTypeOK
  PROVE  /\ call \in Nat /\ Sent \in Int /\ greetings \in Nat
         /\ Unsent \in {0, 1} /\ Owed \in {0, 1} /\ Holding \in {0, 1}
         /\ Len(toPeer) \in Nat /\ Len(fromPeer) \in Nat
         /\ Len(exchanged) \in Nat
         /\ Exchanging \in {0, 1} /\ Behind \in Int /\ Taken \in Int
  <1>1. call \in Nat /\ greetings \in Nat
    BY BoundsAssumption DEF LinkTypeOK, TypeOK
  <1>2. Unsent \in {0, 1} /\ Owed \in {0, 1} /\ Holding \in {0, 1}
    BY DEF Unsent, Owed, Holding
  <1>3. /\ Len(toPeer) \in Nat /\ Len(fromPeer) \in Nat
        /\ Len(exchanged) \in Nat
    BY DEF LinkTypeOK, TypeOK
  <1>4. Sent \in Int
    BY <1>1, <1>2 DEF Sent
  <1>5. Exchanging \in {0, 1} /\ Behind \in Int /\ Taken \in Int
    BY <1>2, <1>3 DEF Behind, Taken, Exchanging
  <1> QED BY <1>1, <1>2, <1>3, <1>4, <1>5

LEMMA Numbered ==
  ASSUME LinkTypeOK
  PROVE  \A n \in 1 .. Len(fromPeer) : fromPeer[n] \in Int
  BY BoundsAssumption DEF LinkTypeOK, TypeOK, Bytes, Calls, Greeting

-----------------------------------------------------------------------------
(* Types.                                                                  *)

LEMMA RestOfQueue ==
  ASSUME NEW S, NEW q \in Seq(S), NEW n \in 1 .. Len(q)
  PROVE  LET rest == SubSeq(q, n + 1, Len(q)) IN
           /\ rest \in Seq(S)
           /\ Len(rest) = Len(q) - n
           /\ \A j \in 1 .. Len(rest) : rest[j] = q[j + n]
           /\ SubSeq(q, 1, n) \in Seq(S)
           /\ SubSeq(q, 1, n)[1] = q[1]
  <1>1. Len(q) \in Nat /\ n \in Int /\ n + 1 \in Int
    OBVIOUS
  <1>2. \A j \in n + 1 .. Len(q) : q[j] \in S
    OBVIOUS
  <1>3. \A j \in 1 .. n : q[j] \in S
    OBVIOUS
  <1>4. /\ SubSeq(q, n + 1, Len(q)) \in Seq(S)
        /\ Len(SubSeq(q, n + 1, Len(q)))
             = IF n + 1 <= Len(q) THEN Len(q) - (n + 1) + 1 ELSE 0
        /\ \A j \in 1 .. Len(q) - (n + 1) + 1 :
              SubSeq(q, n + 1, Len(q))[j] = q[n + 1 + j - 1]
    BY <1>1, <1>2, SubSeqProperties
  <1>5. /\ SubSeq(q, 1, n) \in Seq(S)
        /\ \A j \in 1 .. n - 1 + 1 : SubSeq(q, 1, n)[j] = q[1 + j - 1]
    BY <1>1, <1>3, SubSeqProperties
  <1> QED BY <1>1, <1>4, <1>5

\* Zenon sees to the flags, SMT to the rest.
Flags == {writing, sentByte, flowing, received} \subseteq BOOLEAN

Data ==
    /\ call \in 0 .. MaxCalls /\ greetings \in 0 .. MaxGreetings
    /\ phase \in {"idle", "delay", "waiting", "rejected"}
    /\ timers \subseteq Calls
    /\ closeListeners \subseteq Calls /\ dataListeners \subseteq Calls
    /\ answers \in [Calls -> Bytes \cup {NoAnswer}]
    /\ socket \in {"open", "destroyed", "closed"}
    /\ buffered \in Seq(Bytes)
    /\ toPeer \in Seq(Calls) /\ fromPeer \in Seq(Bytes)
    /\ peer \in {"firmware", "other"}
    /\ relay \in {"read", "exchange", "write", "closed"}
    /\ held \in Calls \cup {NoByte} /\ exchanged \in Seq(Calls)

LEMMA Types == LinkTypeOK <=> Flags /\ Data
  BY DEF LinkTypeOK, TypeOK, Flags, Data

LEMMA InitIInv == LinkInit => IInv
  <1> SUFFICES ASSUME LinkInit PROVE IInv
    OBVIOUS
  <1> USE DEF LinkInit, Init, NoByte
  <1>1. LinkTypeOK
    <2>1. Flags
      BY DEF Flags
    <2>2. Data
      BY BoundsAssumption DEF Data, Bytes, Greeting, NoAnswer
    <2> QED BY <2>1, <2>2, Types
  <1>2. Listening /\ Phases
    BY DEF Listening, Pending, Phases
  <1>3. Unsent = 0 /\ Owed = 0 /\ Holding = 0
    BY DEF Unsent, Owed, Holding
  <1>4. Sent = 0 /\ Behind = 0
    BY <1>3 DEF Sent, Behind
  <1>5. QueuesOK
    BY <1>3, <1>4 DEF QueuesOK, Bounded, InOrder, Unheard, UnderWay
  <1>6. RelayOK
    BY <1>4 DEF RelayOK, Taken, Exchanging
  <1>7. Paired
    BY DEF Paired
  <1> QED BY <1>1, <1>2, <1>5, <1>6, <1>7 DEF IInv

LEMMA FlagsStep ==
  ASSUME LinkTypeOK, LinkNext
  PROVE  Flags'
  <1> USE DEF Flags, LinkTypeOK, TypeOK, callVars, peerVars, clientVars, cleanup
  <1>1. CASE Call \/ StartExchange \/ EmitBuffered
    BY <1>1 DEF Call, StartExchange, EmitBuffered
  <1>2. CASE WriteDone \/ WriteFails
    BY <1>2 DEF WriteDone, WriteFails
  <1>3. CASE (\E c \in Calls : Timeout(c)) \/ CloseEvent \/ PeerCloses
    BY <1>3 DEF Timeout, CloseEvent, PeerCloses
  <1>4. CASE DataEvent
    BY <1>4 DEF DataEvent, dataListener, settle
  <1>5. CASE Read \/ ExchangeByte \/ WriteBack \/ RelayFails \/ DeviceGone
    BY <1>5 DEF Read, ExchangeByte, WriteBack, RelayFails, DeviceGone, Firmware
  <1>6. CASE OtherAnswers \/ OtherGreets
    BY <1>6 DEF OtherAnswers, OtherGreets, PeerAnswers, PeerGreets
  <1> QED BY <1>1, <1>2, <1>3, <1>4, <1>5, <1>6 DEF LinkNext, Server

\* The call that a callback is about has been made.
LEMMA CallMade ==
  ASSUME LinkTypeOK, Phases, phase # "idle"
  PROVE  call \in Calls
  BY BoundsAssumption DEF LinkTypeOK, TypeOK, Phases, Calls

LEMMA DataStep ==
  ASSUME LinkTypeOK, Phases, RelayOK, LinkNext
  PROVE  Data'
  <1> USE DEF Data, callVars, peerVars, clientVars, relayVars, NoByte, cleanup
  <1> Data
    BY Types
  <1>1. phase # "idle" => call \in Calls
    BY CallMade
  <1>2. NoAnswer \in Nat
    BY BoundsAssumption DEF NoAnswer
  <1>3. CASE Server
    <2> UNCHANGED <<peer, relay, held, exchanged>>
      BY <1>3 DEF Server
    <2>1. CASE Call
      BY <2>1, BoundsAssumption DEF Call
    <2>2. CASE StartExchange
      BY <2>2, <1>1 DEF StartExchange
    <2>3. CASE EmitBuffered
      BY <2>3 DEF EmitBuffered
    <2>4. CASE WriteDone
      BY <2>4, <1>1 DEF WriteDone, Phases
    <2>5. CASE WriteFails
      BY <2>5 DEF WriteFails
    <2>6. ASSUME NEW c \in Calls, Timeout(c) PROVE Data'
      BY <2>6 DEF Timeout
    <2>7. CASE DataEvent
      <3>1. PICK n \in 1 .. Len(fromPeer) :
              /\ fromPeer' = SubSeq(fromPeer, n + 1, Len(fromPeer))
              /\ IF flowing
                 THEN /\ dataListener(SubSeq(fromPeer, 1, n))
                      /\ UNCHANGED buffered
                 ELSE /\ buffered' = buffered \o SubSeq(fromPeer, 1, n)
                      /\ UNCHANGED <<phase, callVars, answers>>
        BY <2>7 DEF DataEvent
      <3>2. /\ fromPeer' \in Seq(Bytes)
            /\ SubSeq(fromPeer, 1, n) \in Seq(Bytes)
            /\ SubSeq(fromPeer, 1, n)[1] \in Bytes
        BY <3>1, RestOfQueue
      <3>3. UNCHANGED <<call, socket, toPeer, greetings>>
        BY <2>7 DEF DataEvent
      <3>4. buffered' \in Seq(Bytes)
        <4>1. CASE flowing
          BY <3>1, <4>1
        <4>2. CASE ~flowing
          <5>1. buffered' = buffered \o SubSeq(fromPeer, 1, n)
            BY <3>1, <4>2
          <5> QED BY <5>1, <3>2
        <4> QED BY <4>1, <4>2
      <3>5. /\ timers' \subseteq timers /\ closeListeners' \subseteq closeListeners
            /\ dataListeners' \subseteq dataListeners
            /\ phase' \in {phase, "idle"}
            /\ answers' \in [Calls -> Bytes \cup {NoAnswer}]
        BY <3>1, <3>2 DEF dataListener, settle
      <3> QED BY <3>2, <3>3, <3>4, <3>5
    <2>8. CASE CloseEvent
      BY <2>8 DEF CloseEvent
    <2>9. CASE PeerCloses
      BY <2>9 DEF PeerCloses
    <2> QED BY <1>3, <2>1, <2>2, <2>3, <2>4, <2>5, <2>6, <2>7, <2>8, <2>9 DEF Server
  <1>4. CASE Read
    BY <1>4 DEF Read, Firmware
  <1>5. CASE ExchangeByte
    <2>1. held \in Calls
      BY <1>5 DEF RelayOK, ExchangeByte, Firmware
    <2> QED BY <1>5, <2>1 DEF ExchangeByte, OverCable, Firmware
  <1>6. CASE WriteBack
    BY <1>6 DEF WriteBack, Firmware, Bytes, Greeting
  <1>7. CASE RelayFails \/ DeviceGone
    BY <1>7 DEF RelayFails, DeviceGone, Firmware
  <1>8. CASE OtherAnswers
    BY <1>8 DEF OtherAnswers, PeerAnswers, Bytes
  <1>9. CASE OtherGreets
    BY <1>9, BoundsAssumption DEF OtherGreets, PeerGreets, Bytes
  <1> QED BY <1>3, <1>4, <1>5, <1>6, <1>7, <1>8, <1>9 DEF LinkNext

-----------------------------------------------------------------------------
(* Listeners and phases.                                                   *)

LEMMA ListeningKept ==
  ASSUME Listening, UNCHANGED <<call, phase, timers, closeListeners, dataListeners>>
  PROVE  Listening'
  BY DEF Listening, Pending

\* An answer settles the pending call, or nothing.
LEMMA Settles ==
  ASSUME Listening, NEW chunk, dataListener(chunk)
  PROVE  \/ /\ phase = "waiting" /\ sentByte
            /\ settle(call, chunk[1])
         \/ UNCHANGED <<phase, callVars, answers>>
  BY DEF dataListener, Listening, Pending

LEMMA ListeningStep ==
  ASSUME LinkTypeOK, Listening, Phases, LinkNext
  PROVE  Listening'
  <1> USE DEF callVars, cleanup
  <1>1. CASE Call
    BY <1>1 DEF Call, Listening, Pending
  <1>2. CASE StartExchange
    BY <1>2 DEF StartExchange, Listening, Pending
  <1>3. CASE WriteFails
    BY <1>3 DEF WriteFails, Listening, Pending, Phases
  <1>4. ASSUME NEW c \in Calls, Timeout(c) PROVE Listening'
    BY <1>4 DEF Timeout, Listening, Pending
  <1>5. CASE DataEvent
    <2>1. PICK chunk : dataListener(chunk) \/ UNCHANGED <<phase, callVars, answers>>
      BY <1>5 DEF DataEvent
    <2>2. UNCHANGED call
      BY <1>5 DEF DataEvent
    <2>3. CASE phase = "waiting" /\ settle(call, chunk[1])
      BY <2>2, <2>3 DEF settle, Listening, Pending
    <2>4. CASE UNCHANGED <<phase, callVars, answers>>
      BY <2>2, <2>4, ListeningKept
    <2> QED BY <2>1, <2>3, <2>4, Settles
  <1>6. CASE CloseEvent
    BY <1>6 DEF CloseEvent, Listening, Pending
  <1>7. CASE EmitBuffered \/ WriteDone \/ PeerCloses
    BY <1>7, ListeningKept DEF EmitBuffered, WriteDone, PeerCloses
  <1>8. CASE Read \/ ExchangeByte \/ WriteBack \/ RelayFails \/ DeviceGone
    BY <1>8, ListeningKept DEF Read, ExchangeByte, WriteBack, RelayFails,
                               DeviceGone, Firmware, clientVars
  <1>9. CASE OtherAnswers \/ OtherGreets
    BY <1>9, ListeningKept DEF OtherAnswers, OtherGreets, PeerAnswers, PeerGreets
  <1> QED BY <1>1, <1>2, <1>3, <1>4, <1>5, <1>6, <1>7, <1>8, <1>9 DEF LinkNext, Server

LEMMA PhasesKept ==
  ASSUME Phases, UNCHANGED <<call, phase, writing, sentByte, flowing>>,
         socket' = "open" => socket = "open"
  PROVE  Phases'
  BY DEF Phases

LEMMA PhasesStep ==
  ASSUME LinkTypeOK, Listening, Phases, LinkNext
  PROVE  Phases'
  <1> USE DEF callVars, cleanup
  <1>1. CASE Call
    <2>1. call' # 0
      BY <1>1, BoundsAssumption DEF Call, LinkTypeOK, TypeOK
    <2> QED BY <1>1, <2>1 DEF Call, Phases
  <1>2. CASE StartExchange
    BY <1>2 DEF StartExchange, Phases
  <1>3. CASE WriteDone
    BY <1>3 DEF WriteDone, Phases
  <1>4. CASE WriteFails
    BY <1>4 DEF WriteFails, Phases
  <1>5. ASSUME NEW c \in Calls, Timeout(c) PROVE Phases'
    BY <1>5, PhasesKept DEF Timeout
  <1>6. CASE DataEvent
    <2>1. PICK chunk : dataListener(chunk) \/ UNCHANGED <<phase, callVars, answers>>
      BY <1>6 DEF DataEvent
    <2>2. UNCHANGED <<call, writing, socket, flowing>>
      BY <1>6 DEF DataEvent
    <2>3. CASE phase = "waiting" /\ sentByte /\ settle(call, chunk[1])
      BY <2>2, <2>3 DEF settle, Phases
    <2>4. CASE UNCHANGED <<phase, callVars, answers>>
      BY <2>2, <2>4, PhasesKept
    <2> QED BY <2>1, <2>3, <2>4, Settles
  <1>7. CASE CloseEvent
    <2>1. CASE phase = "waiting"
      BY <1>7, <2>1 DEF CloseEvent, Listening, Pending, Phases
    <2>2. CASE phase # "waiting"
      BY <1>7, <2>2, PhasesKept DEF CloseEvent, Listening, Pending
    <2> QED BY <2>1, <2>2
  <1>8. CASE EmitBuffered \/ PeerCloses
    BY <1>8, PhasesKept DEF EmitBuffered, PeerCloses
  <1>9. CASE Read \/ ExchangeByte \/ WriteBack \/ RelayFails \/ DeviceGone
    BY <1>9, PhasesKept DEF Read, ExchangeByte, WriteBack, RelayFails,
                            DeviceGone, Firmware, clientVars
  <1>10. CASE OtherAnswers \/ OtherGreets
    BY <1>10, PhasesKept DEF OtherAnswers, OtherGreets, PeerAnswers, PeerGreets
  <1> QED BY <1>1, <1>2, <1>3, <1>4, <1>5, <1>6, <1>7, <1>8, <1>9, <1>10
          DEF LinkNext, Server

-----------------------------------------------------------------------------
(* The bytes.                                                              *)

LEMMA SentKept ==
  ASSUME UNCHANGED <<call, phase, sentByte>>
  PROVE  Sent' = Sent /\ Owed' = Owed
  BY DEF Sent, Unsent, Owed

LEMMA QueuesKept ==
  ASSUME LinkTypeOK, LinkTypeOK', QueuesOK, UNCHANGED Queues, held' = held,
         Sent' = Sent, Owed' >= Owed
  PROVE  QueuesOK'
  <1>1. Holding' = Holding /\ Behind' = Behind /\ UnderWay' = UnderWay
    BY DEF Queues, Holding, Behind, UnderWay
  <1>2. Bounded'
    <2>1. Owed' \in {0, 1} /\ greetings' = greetings
      BY DEF Owed, Queues
    <2> QED BY <1>1, <2>1, Counts DEF QueuesOK, Bounded, UnderWay, Behind
  <1>3. InOrder'
    BY <1>1 DEF QueuesOK, InOrder, Queues
  <1>4. Unheard'
    BY DEF QueuesOK, Unheard, Queues
  <1> QED BY <1>2, <1>3, <1>4 DEF QueuesOK

LEMMA RelayKept ==
  ASSUME RelayOK, UNCHANGED <<Queues, peer, relay, held, exchanged>>, Sent' = Sent
  PROVE  RelayOK'
  BY DEF RelayOK, Queues, Taken, Exchanging

\* Steps of the server that do not touch a byte.
Internal ==
    \/ Call \/ StartExchange \/ EmitBuffered \/ WriteFails
    \/ \E c \in Calls : Timeout(c)
    \/ CloseEvent \/ PeerCloses

LEMMA InternalSent ==
  ASSUME LinkTypeOK, Listening, Phases, Internal
  PROVE  Sent' = Sent /\ Owed' >= Owed /\ UNCHANGED Queues
  <1> USE DEF Queues, peerVars, callVars, cleanup
  <1>0. call \in Nat /\ Owed \in {0, 1} /\ Unsent \in {0, 1}
    BY Counts
  <1>1. CASE Call
    <2>1. Unsent = 0 /\ Unsent' = 1 /\ Owed = 0 /\ Owed' = 0 /\ call' = call + 1
      BY <1>1 DEF Call, Unsent, Owed
    <2>2. Sent' = Sent
      BY <1>0, <2>1 DEF Sent
    <2> QED BY <1>1, <2>1, <2>2 DEF Call
  <1>2. CASE StartExchange
    <2>1. Unsent = 1 /\ Unsent' = 1 /\ Owed = 0 /\ Owed' = 0 /\ call' = call
      BY <1>2 DEF StartExchange, Unsent, Owed
    <2>2. Sent' = Sent
      BY <2>1 DEF Sent
    <2> QED BY <1>2, <2>1, <2>2 DEF StartExchange
  <1>3. CASE WriteFails
    <2>1. Unsent' = Unsent /\ Owed' = Owed /\ call' = call
      BY <1>3 DEF WriteFails, Phases, Unsent, Owed
    <2>2. Sent' = Sent
      BY <2>1 DEF Sent
    <2> QED BY <1>0, <1>3, <2>1, <2>2 DEF WriteFails
  <1>4. CASE CloseEvent
    <2>1. Unsent' = Unsent /\ Owed' = Owed /\ call' = call
      BY <1>4 DEF CloseEvent, Listening, Pending, Unsent, Owed
    <2>2. Sent' = Sent
      BY <2>1 DEF Sent
    <2> QED BY <1>0, <1>4, <2>1, <2>2 DEF CloseEvent
  <1>5. CASE EmitBuffered \/ (\E c \in Calls : Timeout(c)) \/ PeerCloses
    <2>1. UNCHANGED <<call, phase, sentByte, Queues>>
      BY <1>5 DEF EmitBuffered, Timeout, PeerCloses
    <2> QED BY <1>0, <2>1, SentKept
  <1> QED BY <1>1, <1>2, <1>3, <1>4, <1>5 DEF Internal

\* The bytes on the connection after one is added to what goes to the peer.
LEMMA WriteDoneQueues ==
  ASSUME IInv, LinkTypeOK', WriteDone, UNCHANGED <<peer, relayVars>>
  PROVE  QueuesOK' /\ RelayOK'
  <1> USE DEF IInv
  <1>0. /\ call \in Nat /\ Sent \in Int /\ greetings \in Nat
        /\ Len(toPeer) \in Nat /\ Len(fromPeer) \in Nat /\ Len(exchanged) \in Nat
        /\ Holding \in {0, 1} /\ Exchanging \in {0, 1}
        /\ Behind \in Int /\ Taken \in Int
    BY Counts
  <1>1. /\ Unsent = 1 /\ Unsent' = 0 /\ Owed = 0 /\ Owed' = 1
        /\ call' = call /\ Holding' = Holding
    BY DEF WriteDone, Phases, Unsent, Owed, Holding, relayVars
  <1>2. Sent = call - 1 /\ Sent' = Sent + 1
    BY <1>1, <1>0 DEF Sent
  <1>3. /\ UNCHANGED <<fromPeer, greetings, held, relay, exchanged, peer>>
        /\ toPeer' = Append(toPeer, call)
    BY DEF WriteDone, relayVars
  <1>4. call \in Calls
    BY CallMade DEF WriteDone, Phases
  <1>5. /\ Len(toPeer') = Len(toPeer) + 1
        /\ \A n \in 1 .. Len(toPeer) : toPeer'[n] = toPeer[n]
        /\ toPeer'[Len(toPeer) + 1] = call
    BY <1>3, <1>4 DEF LinkTypeOK, TypeOK
  <1>6. Bounded'
    BY <1>1, <1>3, <1>5, <1>0 DEF QueuesOK, Bounded, UnderWay, Behind
  <1>7. InOrder'
    <2>1. \A n \in 1 .. Len(toPeer') : toPeer'[n] = Sent' - Len(toPeer') + n
      <3> SUFFICES ASSUME NEW n \in 1 .. Len(toPeer) + 1
                   PROVE  toPeer'[n] = Sent' - Len(toPeer') + n
        BY <1>5
      <3>1. CASE n = Len(toPeer) + 1
        BY <3>1, <1>2, <1>5, <1>0
      <3>2. CASE n \in 1 .. Len(toPeer)
        BY <3>2, <1>2, <1>5, <1>0 DEF QueuesOK, InOrder
      <3> QED BY <3>1, <3>2, <1>0
    <2>2. held' # NoByte => held' = Sent' - Len(toPeer')
      BY <1>2, <1>3, <1>5, <1>0 DEF QueuesOK, InOrder
    <2>3. Behind' = Behind + 1
      BY <1>1, <1>5, <1>0 DEF Behind
    <2>4. \A n \in 1 .. Len(fromPeer') :
             /\ fromPeer'[n] <= Sent'
             /\ Sent' <= fromPeer'[n] + Behind' + (Len(fromPeer') - n)
      <3> SUFFICES ASSUME NEW n \in 1 .. Len(fromPeer)
                   PROVE  /\ fromPeer[n] <= Sent + 1
                          /\ Sent + 1 <= fromPeer[n] + (Behind + 1) + (Len(fromPeer) - n)
        <4>1. fromPeer' = fromPeer
          BY <1>3
        <4> QED BY <1>2, <2>3, <4>1, <1>0
      <3> QED BY <1>0, Numbered DEF QueuesOK, InOrder
    <2> QED BY <2>1, <2>2, <2>4 DEF InOrder
  <1>8. Unheard'
    <2>1. received' = received
      BY DEF WriteDone
    <2>2. Len(toPeer) = Sent => Len(toPeer') = Sent'
      BY <1>2, <1>5
    <2> QED BY <1>3, <2>1, <2>2 DEF QueuesOK, Unheard
  <1>9. RelayOK'
    <2>1. Taken' = Taken + 1
      <3>1. Exchanging' = Exchanging /\ exchanged' = exchanged
        BY <1>3 DEF Exchanging
      <3> QED BY <3>1, <1>5, <1>0 DEF Taken
    <2> QED BY <1>2, <1>3, <2>1, <1>0 DEF RelayOK
  <1> QED BY <1>6, <1>7, <1>8, <1>9 DEF QueuesOK

\* A byte that has arrived is taken by the relay.
LEMMA ReadQueues ==
  ASSUME IInv, LinkTypeOK', Read
  PROVE  QueuesOK' /\ RelayOK'
  <1> USE DEF IInv
  <1>0. /\ Sent \in Int /\ greetings \in Nat /\ Owed \in {0, 1}
        /\ Len(toPeer) \in Nat /\ Len(fromPeer) \in Nat /\ Len(exchanged) \in Nat
        /\ Behind \in Int
    BY Counts
  <1>1. Sent' = Sent /\ Owed' = Owed
    BY SentKept DEF Read, Firmware, clientVars, callVars
  <1>2. /\ fromPeer' = fromPeer /\ greetings' = greetings
        /\ exchanged' = exchanged /\ peer' = peer
    BY DEF Read, Firmware
  <1>3. held = NoByte /\ Holding = 0 /\ Exchanging = 0 /\ Exchanging' = 1
    BY DEF RelayOK, Read, Firmware, Holding, Exchanging
  <1>4. /\ Len(toPeer') = Len(toPeer) - 1
        /\ \A n \in 1 .. Len(toPeer') : toPeer'[n] = toPeer[n + 1]
        /\ held' = toPeer[1] /\ Len(toPeer) >= 1 /\ held' \in Calls
    BY HeadTailProperties DEF Read, LinkTypeOK, TypeOK
  <1>5. held' # NoByte /\ Holding' = 1
    BY <1>4, BoundsAssumption DEF Calls, NoByte, Holding
  <1>6. Behind' = Behind /\ UnderWay' = UnderWay
    BY <1>0, <1>2, <1>3, <1>4, <1>5 DEF Behind, UnderWay
  <1>7. Bounded'
    BY <1>1, <1>2, <1>6 DEF QueuesOK, Bounded
  <1>8. InOrder'
    <2>1. \A n \in 1 .. Len(toPeer') : toPeer'[n] = Sent' - Len(toPeer') + n
      BY <1>0, <1>1, <1>4 DEF QueuesOK, InOrder
    <2>2. held' = Sent' - Len(toPeer')
      BY <1>0, <1>1, <1>4 DEF QueuesOK, InOrder
    <2> QED BY <1>1, <1>2, <1>6, <2>1, <2>2 DEF QueuesOK, InOrder
  <1>9. Unheard'
    BY DEF Unheard, Read
  <1>10. RelayOK'
    <2>1. Taken' = Taken
      BY <1>0, <1>2, <1>3, <1>4 DEF Taken
    <2> QED BY <1>1, <1>2, <1>5, <2>1 DEF RelayOK, Read, Firmware
  <1> QED BY <1>7, <1>8, <1>9, <1>10 DEF QueuesOK

LEMMA ExchangeQueues ==
  ASSUME IInv, LinkTypeOK', ExchangeByte
  PROVE  QueuesOK' /\ RelayOK'
  <1> USE DEF IInv
  <1>1. Sent' = Sent /\ Owed' = Owed
    BY SentKept DEF ExchangeByte, Firmware, clientVars, callVars
  <1>2. UNCHANGED <<Queues, held>>
    BY DEF ExchangeByte, Queues, peerVars
  <1>3. QueuesOK'
    BY <1>1, <1>2, QueuesKept, Counts
  <1>4. Taken' = Taken
    <2>1. Exchanging = 1 /\ Exchanging' = 0
      BY DEF ExchangeByte, Firmware, Exchanging
    <2>2. Len(exchanged') = Len(exchanged) + 1
      BY DEF ExchangeByte, OverCable, LinkTypeOK
    <2>3. toPeer' = toPeer
      BY <1>2 DEF Queues
    <2>4. Len(exchanged) \in Nat /\ Len(toPeer) \in Nat
      BY Counts
    <2> QED BY <2>1, <2>2, <2>3, <2>4 DEF Taken
  <1>5. RelayOK'
    BY <1>1, <1>2, <1>4 DEF RelayOK, ExchangeByte, Firmware, Queues
  <1> QED BY <1>3, <1>5

\* What was exchanged is sent back.
LEMMA WriteBackQueues ==
  ASSUME IInv, LinkTypeOK', WriteBack
  PROVE  QueuesOK' /\ RelayOK'
  <1> USE DEF IInv
  <1>0. /\ Sent \in Int /\ greetings \in Nat /\ Owed \in {0, 1}
        /\ Len(toPeer) \in Nat /\ Len(fromPeer) \in Nat
        /\ Behind \in Int
    BY Counts
  <1>1. Sent' = Sent /\ Owed' = Owed
    BY SentKept DEF WriteBack, Firmware, clientVars, callVars
  <1>2. /\ toPeer' = toPeer /\ greetings' = greetings
        /\ exchanged' = exchanged /\ peer' = peer
    BY DEF WriteBack, Firmware
  <1>3. /\ held # NoByte /\ held' = NoByte /\ Holding = 1 /\ Holding' = 0
        /\ Exchanging = 0 /\ Exchanging' = 0
    BY DEF RelayOK, WriteBack, Firmware, Holding, Exchanging
  <1>4. /\ Len(fromPeer') = Len(fromPeer) + 1
        /\ \A n \in 1 .. Len(fromPeer) : fromPeer'[n] = fromPeer[n]
        /\ fromPeer'[Len(fromPeer) + 1] = held
    <2>1. held \in Bytes
      BY <1>3 DEF LinkTypeOK, Bytes
    <2> QED BY <2>1 DEF WriteBack, LinkTypeOK, TypeOK
  <1>5. Behind' = Behind - 1 /\ UnderWay' = UnderWay /\ Behind = Len(toPeer) + 1
    BY <1>0, <1>2, <1>3, <1>4 DEF Behind, UnderWay
  <1>6. Bounded'
    BY <1>1, <1>2, <1>5 DEF QueuesOK, Bounded
  <1>7. InOrder'
    <2> SUFFICES ASSUME NEW n \in 1 .. Len(fromPeer) + 1
                 PROVE  /\ fromPeer'[n] <= Sent
                        /\ Sent <= fromPeer'[n] + (Behind - 1) + (Len(fromPeer) + 1 - n)
      BY <1>1, <1>2, <1>3, <1>4, <1>5 DEF QueuesOK, InOrder
    <2>1. CASE n = Len(fromPeer) + 1
      <3>1. held = Sent - Len(toPeer)
        BY <1>3 DEF QueuesOK, InOrder
      <3> QED BY <1>0, <1>4, <1>5, <2>1, <3>1
    <2>2. CASE n \in 1 .. Len(fromPeer)
      <3>1. /\ fromPeer[n] <= Sent /\ fromPeer[n] \in Int
            /\ Sent <= fromPeer[n] + Behind + (Len(fromPeer) - n)
        BY <2>2, Numbered DEF QueuesOK, InOrder
      <3> QED BY <1>0, <1>4, <2>2, <3>1
    <2> QED BY <1>0, <2>1, <2>2
  <1>8. Unheard'
    BY <1>3 DEF QueuesOK, Unheard, WriteBack
  <1>9. RelayOK'
    <2>1. Taken' = Taken
      BY <1>2, <1>3 DEF Taken
    <2> QED BY <1>1, <1>2, <1>3, <2>1 DEF RelayOK, WriteBack, Firmware
  <1> QED BY <1>6, <1>7, <1>8, <1>9 DEF QueuesOK

\* The relay ends.  If it holds a byte, that is the only one under way.
LEMMA RelayEnds ==
  ASSUME IInv, LinkTypeOK', RelayFails \/ DeviceGone
  PROVE  QueuesOK' /\ RelayOK'
  <1> USE DEF IInv
  <1>0. /\ Sent \in Int /\ Owed \in {0, 1} /\ Holding \in {0, 1}
        /\ Len(toPeer) \in Nat /\ Len(fromPeer) \in Nat
        /\ Behind \in Int
    BY Counts
  <1>1. Sent' = Sent /\ Owed' = Owed
    BY SentKept DEF RelayFails, DeviceGone, Firmware, clientVars, callVars
  <1>2. /\ toPeer' = toPeer /\ fromPeer' = fromPeer /\ greetings' = greetings
        /\ exchanged' = exchanged /\ peer' = peer /\ peer = "firmware"
        /\ held' = NoByte /\ relay' = "closed" /\ relay # "closed"
    BY DEF RelayFails, DeviceGone, Firmware, peerVars
  <1>3. Holding' = 0 /\ Exchanging' = 0
    BY <1>2 DEF Holding, Exchanging
  <1>4. CASE held = NoByte
    <2>1. Holding = 0 /\ Exchanging = 0
      BY <1>2, <1>4 DEF RelayOK, Holding, Exchanging
    <2>2. received' = received
      BY DEF RelayFails, DeviceGone, peerVars
    <2>3. QueuesOK'
      BY <1>0, <1>1, <1>2, <1>4, <2>2, QueuesKept DEF Queues
    <2>4. Taken' = Taken
      BY <1>2, <1>3, <2>1 DEF Taken
    <2>5. RelayOK'
      BY <1>1, <1>2, <2>4 DEF RelayOK
    <2> QED BY <2>3, <2>5
  <1>5. CASE held # NoByte
    <2>1. Holding = 1 /\ greetings = 0
      BY <1>2, <1>5 DEF RelayOK, Holding
    <2>2. Len(toPeer) = 0 /\ Len(fromPeer) = 0
      BY <1>0, <2>1 DEF QueuesOK, Bounded, UnderWay, Behind
    <2>3. Bounded'
      BY <1>0, <1>1, <1>2, <1>3, <2>1, <2>2 DEF Bounded, UnderWay, Behind
    <2>4. InOrder'
      BY <1>2, <2>2 DEF InOrder
    <2>5. Unheard'
      <3>1. received' = received
        BY DEF RelayFails, DeviceGone, peerVars
      <3> QED BY <1>5, <3>1 DEF QueuesOK, Unheard
    <2>6. RelayOK'
      <3>1. fromPeer' = <<>>
        BY <1>2, <2>2 DEF LinkTypeOK, TypeOK
      <3> QED BY <1>2, <2>1, <3>1 DEF RelayOK
    <2> QED BY <2>3, <2>4, <2>5, <2>6 DEF QueuesOK
  <1> QED BY <1>4, <1>5

\* Another peer's answer moves a byte from one queue to the other.
LEMMA OtherAnswersQueues ==
  ASSUME IInv, LinkTypeOK', OtherAnswers
  PROVE  QueuesOK' /\ RelayOK'
  <1> USE DEF IInv
  <1>0. /\ Sent \in Int /\ greetings \in Nat /\ Owed \in {0, 1}
        /\ Len(toPeer) \in Nat /\ Len(fromPeer) \in Nat
        /\ Behind \in Int
    BY Counts
  <1>1. Sent' = Sent /\ Owed' = Owed
    BY SentKept DEF OtherAnswers, PeerAnswers, callVars
  <1>2. /\ greetings' = greetings /\ peer' = peer /\ peer = "other"
        /\ relay' = relay /\ held' = held /\ exchanged' = exchanged
    BY DEF OtherAnswers, PeerAnswers, relayVars
  <1>3. held = NoByte /\ Holding = 0 /\ Holding' = 0
    BY <1>2 DEF RelayOK, Holding
  <1>4. /\ Len(toPeer') = Len(toPeer) - 1
        /\ \A n \in 1 .. Len(toPeer') : toPeer'[n] = toPeer[n + 1]
        /\ Len(toPeer) >= 1
        /\ Head(toPeer) = toPeer[1] /\ Head(toPeer) \in Calls
    BY HeadTailProperties DEF OtherAnswers, PeerAnswers, LinkTypeOK, TypeOK
  <1>5. /\ Len(fromPeer') = Len(fromPeer) + 1
        /\ \A n \in 1 .. Len(fromPeer) : fromPeer'[n] = fromPeer[n]
        /\ fromPeer'[Len(fromPeer) + 1] = toPeer[1]
    BY <1>4 DEF OtherAnswers, PeerAnswers, LinkTypeOK, TypeOK
  <1>6. Behind' = Behind - 1 /\ UnderWay' = UnderWay /\ Behind = Len(toPeer)
    BY <1>0, <1>3, <1>4, <1>5 DEF Behind, UnderWay
  <1>7. Bounded'
    BY <1>1, <1>2, <1>6 DEF QueuesOK, Bounded
  <1>8. InOrder'
    <2>1. \A n \in 1 .. Len(toPeer') : toPeer'[n] = Sent' - Len(toPeer') + n
      BY <1>0, <1>1, <1>4 DEF QueuesOK, InOrder
    <2> SUFFICES ASSUME NEW n \in 1 .. Len(fromPeer) + 1
                 PROVE  /\ fromPeer'[n] <= Sent
                        /\ Sent <= fromPeer'[n] + (Behind - 1) + (Len(fromPeer) + 1 - n)
      BY <1>1, <1>2, <1>3, <1>5, <1>6, <2>1 DEF InOrder
    <2>2. CASE n = Len(fromPeer) + 1
      <3>1. toPeer[1] = Sent - Len(toPeer) + 1
        BY <1>0, <1>4 DEF QueuesOK, InOrder
      <3> QED BY <1>0, <1>4, <1>5, <1>6, <2>2, <3>1
    <2>3. CASE n \in 1 .. Len(fromPeer)
      <3>1. /\ fromPeer[n] <= Sent /\ fromPeer[n] \in Int
            /\ Sent <= fromPeer[n] + Behind + (Len(fromPeer) - n)
        BY <2>3, Numbered DEF QueuesOK, InOrder
      <3> QED BY <1>0, <1>5, <2>3, <3>1
    <2> QED BY <1>0, <2>2, <2>3
  <1>9. Unheard'
    BY DEF Unheard, OtherAnswers, PeerAnswers
  <1>10. RelayOK'
    BY <1>2 DEF RelayOK
  <1> QED BY <1>7, <1>8, <1>9, <1>10 DEF QueuesOK

\* What another peer says unasked comes before every answer.
LEMMA OtherGreetsQueues ==
  ASSUME IInv, LinkTypeOK', OtherGreets
  PROVE  QueuesOK' /\ RelayOK'
  <1> USE DEF IInv
  <1>0. /\ Sent \in Int /\ greetings \in Nat /\ Owed \in {0, 1}
        /\ Len(toPeer) \in Nat /\ Len(fromPeer) \in Nat
        /\ Behind \in Int
    BY Counts
  <1>1. Sent' = Sent /\ Owed' = Owed
    BY SentKept DEF OtherGreets, PeerGreets, callVars
  <1>2. /\ toPeer' = toPeer /\ greetings' = greetings + 1
        /\ peer' = peer /\ peer = "other"
        /\ relay' = relay /\ held' = held /\ exchanged' = exchanged
    BY DEF OtherGreets, PeerGreets, relayVars
  <1>3. held = NoByte /\ Len(toPeer) = Sent
    BY DEF QueuesOK, Unheard, OtherGreets, PeerGreets
  <1>4. /\ Len(fromPeer') = Len(fromPeer) + 1
        /\ \A n \in 1 .. Len(fromPeer) : fromPeer'[n] = fromPeer[n]
        /\ fromPeer'[Len(fromPeer) + 1] = 0
    BY DEF OtherGreets, PeerGreets, LinkTypeOK, TypeOK, Bytes, Greeting
  <1>5. Holding = 0 /\ Holding' = 0
    BY <1>2, <1>3 DEF Holding
  <1>6. Behind' = Sent /\ Behind = Sent /\ UnderWay' = UnderWay + 1
    BY <1>0, <1>2, <1>3, <1>4, <1>5 DEF Behind, UnderWay
  <1>7. Bounded'
    <2>1. UnderWay \in Int
      BY <1>0 DEF UnderWay
    <2> QED BY <1>0, <1>1, <1>2, <1>6, <2>1 DEF QueuesOK, Bounded
  <1>8. InOrder'
    <2> SUFFICES ASSUME NEW n \in 1 .. Len(fromPeer) + 1
                 PROVE  /\ fromPeer'[n] <= Sent
                        /\ Sent <= fromPeer'[n] + Sent + (Len(fromPeer) + 1 - n)
      BY <1>1, <1>2, <1>3, <1>4, <1>6 DEF QueuesOK, InOrder
    <2>1. CASE n = Len(fromPeer) + 1
      BY <1>0, <1>3, <1>4, <2>1
    <2>2. CASE n \in 1 .. Len(fromPeer)
      <3>1. /\ fromPeer[n] <= Sent /\ fromPeer[n] \in Int
            /\ Sent <= fromPeer[n] + Sent + (Len(fromPeer) - n)
        BY <1>6, <2>2, Numbered DEF QueuesOK, InOrder
      <3> QED BY <1>0, <1>4, <2>2, <3>1
    <2> QED BY <1>0, <2>1, <2>2
  <1>9. Unheard'
    BY <1>1, <1>2, <1>3 DEF Unheard
  <1>10. RelayOK'
    BY <1>2 DEF RelayOK
  <1> QED BY <1>7, <1>8, <1>9, <1>10 DEF QueuesOK

\* Data is taken from the connection: as the answer to the pending call, which
\* is then no longer owed one, or for nothing.
LEMMA DataQueues ==
  ASSUME IInv, LinkTypeOK', DataEvent, UNCHANGED <<peer, relayVars>>
  PROVE  QueuesOK' /\ RelayOK' /\ Paired'
  <1> USE DEF IInv
  <1>0. /\ call \in Nat /\ Sent \in Int /\ greetings \in Nat
        /\ Owed \in {0, 1} /\ Owed' \in {0, 1}
        /\ Len(toPeer) \in Nat /\ Len(fromPeer) \in Nat
        /\ Behind \in Int
    BY Counts DEF Owed
  <1>1. PICK n \in 1 .. Len(fromPeer) :
          /\ fromPeer' = SubSeq(fromPeer, n + 1, Len(fromPeer))
          /\ \/ dataListener(SubSeq(fromPeer, 1, n))
             \/ UNCHANGED <<phase, callVars, answers>>
    BY DEF DataEvent
  <1>2. /\ toPeer' = toPeer /\ greetings' = greetings /\ held' = held
        /\ relay' = relay /\ exchanged' = exchanged /\ peer' = peer
        /\ call' = call
    BY DEF DataEvent, relayVars
  <1>3. received' = received
    BY DEF DataEvent
  <1>4. /\ Len(fromPeer') = Len(fromPeer) - n
        /\ \A j \in 1 .. Len(fromPeer') : fromPeer'[j] = fromPeer[j + n]
        /\ SubSeq(fromPeer, 1, n)[1] = fromPeer[1]
    BY <1>1, RestOfQueue DEF LinkTypeOK, TypeOK
  <1>5. Behind' = Behind /\ UnderWay' = UnderWay - n /\ UnderWay \in Int
    <2>1. Holding' = Holding
      BY <1>2 DEF Holding
    <2>2. Behind' = Behind
      BY <1>2, <2>1 DEF Behind
    <2> QED BY <1>0, <1>4, <2>2 DEF UnderWay
  <1>6. Sent' = Sent /\ Owed' >= Owed - 1 /\ Paired'
    <2>1. CASE phase = "waiting" /\ sentByte /\ settle(call, SubSeq(fromPeer, 1, n)[1])
      <3>1. Unsent = 0 /\ Unsent' = 0 /\ Owed = 1 /\ Owed' = 0
        BY <2>1 DEF settle, cleanup, Unsent, Owed
      <3>2. Sent = call /\ Sent' = call
        BY <1>0, <1>2, <3>1 DEF Sent
      <3>3. answers' = [answers EXCEPT ![call] = fromPeer[1]]
        BY <1>4, <2>1 DEF settle
      <3>4. fromPeer[1] <= call /\ call <= fromPeer[1] + greetings
        <4>1. fromPeer[1] \in Int /\ fromPeer[1] <= Sent
              /\ Sent <= fromPeer[1] + Behind + (Len(fromPeer) - 1)
          BY <1>0, Numbered DEF QueuesOK, InOrder
        <4>2. Behind + Len(fromPeer) <= greetings + 1
          BY <3>1 DEF QueuesOK, Bounded, UnderWay
        <4> QED BY <1>0, <3>2, <4>1, <4>2
      <3>5. Paired'
        <4> SUFFICES ASSUME NEW c \in Calls, answers'[c] # NoAnswer
                     PROVE  answers'[c] <= c /\ c <= answers'[c] + greetings
          BY <1>2 DEF Paired
        <4>1. CASE c = call
          BY <3>3, <3>4, <4>1 DEF LinkTypeOK, TypeOK
        <4>2. CASE c # call
          BY <3>3, <4>2 DEF Paired, LinkTypeOK, TypeOK
        <4> QED BY <4>1, <4>2
      <3> QED BY <3>1, <3>2, <3>5
    <2>2. CASE UNCHANGED <<phase, callVars, answers>>
      <3>1. Sent' = Sent /\ Owed' = Owed
        BY <1>2, <2>2, SentKept DEF callVars
      <3>2. Paired'
        BY <1>2, <2>2 DEF Paired
      <3> QED BY <1>0, <3>1, <3>2
    <2> QED BY <1>1, <2>1, <2>2, Settles
  <1>7. Bounded'
    <2>1. UnderWay <= greetings + Owed /\ Owed' >= Owed - 1 /\ n >= 1
      BY <1>6 DEF QueuesOK, Bounded
    <2>2. /\ UnderWay \in Int /\ n \in Int /\ greetings \in Int
          /\ Owed \in Int /\ Owed' \in Int
      BY <1>0, <1>5
    <2>3. UnderWay - n <= greetings + Owed'
      <3>1. \A u, k, g, o, p \in Int :
               u <= g + o /\ p >= o - 1 /\ k >= 1 => u - k <= g + p
        OBVIOUS
      <3> QED BY <2>1, <2>2, <3>1
    <2> QED BY <1>2, <1>5, <2>3 DEF Bounded
  <1>8. InOrder'
    <2> SUFFICES ASSUME NEW j \in 1 .. Len(fromPeer) - n
                 PROVE  /\ fromPeer'[j] <= Sent
                        /\ Sent <= fromPeer'[j] + Behind + ((Len(fromPeer) - n) - j)
      BY <1>2, <1>4, <1>5, <1>6 DEF QueuesOK, InOrder
    <2>1. j + n \in 1 .. Len(fromPeer)
      BY <1>0
    <2>2. /\ fromPeer[j + n] <= Sent /\ fromPeer[j + n] \in Int
          /\ Sent <= fromPeer[j + n] + Behind + (Len(fromPeer) - (j + n))
      BY <2>1, Numbered DEF QueuesOK, InOrder
    <2> QED BY <1>0, <1>4, <2>2
  <1>9. Unheard'
    BY <1>2, <1>3, <1>6 DEF QueuesOK, Unheard
  <1>10. RelayOK'
    <2>1. fromPeer # <<>>
      BY <1>1
    <2>2. Taken' = Taken
      BY <1>2 DEF Taken, Exchanging
    <2> QED BY <1>2, <1>6, <2>1, <2>2 DEF RelayOK
  <1> QED BY <1>6, <1>7, <1>8, <1>9, <1>10 DEF QueuesOK

-----------------------------------------------------------------------------
(* The theorems.                                                           *)

LEMMA QueuesStep ==
  ASSUME IInv, LinkTypeOK', LinkNext
  PROVE  QueuesOK' /\ RelayOK' /\ Paired'
  <1>1. CASE Server
    <2>1. UNCHANGED <<peer, relayVars>>
      BY <1>1 DEF Server
    <2>2. CASE WriteDone
      <3>1. Paired'
        BY <2>2 DEF IInv, Paired, WriteDone
      <3> QED BY <2>1, <2>2, <3>1, WriteDoneQueues
    <2>3. CASE DataEvent
      BY <2>1, <2>3, DataQueues
    <2>4. CASE Internal
      <3>1. Sent' = Sent /\ Owed' >= Owed /\ UNCHANGED Queues
        BY <2>4, InternalSent DEF IInv
      <3>2. QueuesOK'
        BY <2>1, <3>1, QueuesKept DEF IInv, relayVars
      <3>3. RelayOK'
        BY <2>1, <3>1, RelayKept DEF IInv, relayVars
      <3>4. answers' = answers
        BY <2>4 DEF Internal, Call, StartExchange, EmitBuffered, WriteFails,
                    Timeout, CloseEvent, PeerCloses
      <3>5. Paired'
        BY <3>1, <3>4 DEF IInv, Paired, Queues
      <3> QED BY <3>2, <3>3, <3>5
    <2> QED BY <1>1, <2>2, <2>3, <2>4 DEF Server, Internal
  <1>2. CASE Read \/ ExchangeByte \/ WriteBack \/ RelayFails \/ DeviceGone
    <2>1. answers' = answers /\ greetings' = greetings
      BY <1>2 DEF Read, ExchangeByte, WriteBack, RelayFails, DeviceGone, Firmware,
                  clientVars, peerVars
    <2>2. Paired'
      BY <2>1 DEF IInv, Paired
    <2> QED BY <1>2, <2>2, ReadQueues, ExchangeQueues, WriteBackQueues, RelayEnds
  <1>3. CASE OtherAnswers
    <2>1. Paired'
      BY <1>3 DEF IInv, Paired, OtherAnswers, PeerAnswers
    <2> QED BY <1>3, <2>1, OtherAnswersQueues
  <1>4. CASE OtherGreets
    <2>1. answers' = answers /\ greetings' = greetings + 1
      BY <1>4 DEF OtherGreets, PeerGreets
    <2>2. greetings \in Nat /\ \A c \in Calls : c \in Nat
      BY BoundsAssumption, Counts DEF IInv, Calls
    <2>3. Paired'
      <3> SUFFICES ASSUME NEW c \in Calls, answers[c] # NoAnswer
                   PROVE  answers[c] <= c /\ c <= answers[c] + (greetings + 1)
        BY <2>1 DEF Paired
      <3>1. answers[c] \in Nat
        BY BoundsAssumption DEF IInv, LinkTypeOK, TypeOK, Bytes, Greeting, Calls
      <3>2. answers[c] <= c /\ c <= answers[c] + greetings
        BY DEF IInv, Paired
      <3> QED BY <2>2, <3>1, <3>2
    <2> QED BY <1>4, <2>3, OtherGreetsQueues
  <1> QED BY <1>1, <1>2, <1>3, <1>4 DEF LinkNext

LEMMA StepIInv == IInv /\ [LinkNext]_linkVars => IInv'
  <1>1. ASSUME IInv, LinkNext PROVE IInv'
    <2>1. LinkTypeOK'
      <3>1. Flags'
        BY <1>1, FlagsStep DEF IInv
      <3>2. Data'
        BY <1>1, DataStep DEF IInv
      <3> QED BY <3>1, <3>2, Types, PTL
    <2>2. Listening' /\ Phases'
      BY <1>1, ListeningStep, PhasesStep DEF IInv
    <2> QED BY <1>1, <2>1, <2>2, QueuesStep DEF IInv
  <1>2. ASSUME IInv, UNCHANGED linkVars PROVE IInv'
    <2> USE <1>2 DEF IInv, linkVars, vars, callVars, peerVars, relayVars
    <2>1. LinkTypeOK'
      BY DEF LinkTypeOK, TypeOK
    <2>2. Listening' /\ Phases'
      BY ListeningKept, PhasesKept
    <2>3. Sent' = Sent /\ Owed' = Owed
      BY SentKept
    <2>4. UNCHANGED <<Queues, peer, relay, held, exchanged>>
      BY DEF Queues
    <2>5. Owed' >= Owed
      BY <2>3, Counts
    <2>6. QueuesOK' /\ RelayOK'
      BY <2>1, <2>3, <2>4, <2>5, QueuesKept, RelayKept
    <2>7. Paired'
      BY DEF Paired
    <2> QED BY <2>1, <2>2, <2>6, <2>7
  <1> QED BY <1>1, <1>2

\* The invariant holds for any number of calls and of bytes sent unasked.
THEOREM Invariance == LinkSpec => []IInv
  <1> QED BY InitIInv, StepIInv, PTL DEF LinkSpec

\* The client, the connection and the relay stay well formed.
THEOREM TypeCorrect == LinkSpec => []LinkTypeOK
  <1>1. IInv => LinkTypeOK
    BY DEF IInv
  <1> QED BY Invariance, <1>1, PTL

\* An answer is never to a later byte, and to an earlier one only by as much as
\* the peer spoke out of turn.
THEOREM AnswersPaired == LinkSpec => []Paired
  <1>1. IInv => Paired
    BY DEF IInv
  <1> QED BY Invariance, <1>1, PTL

\* Timers and listeners are those of the pending call.
THEOREM NothingLeftBehind == LinkSpec => []CleanedUp
  <1>1. IInv => CleanedUp
    BY DEF IInv, Listening, Pending, CleanedUp
  <1> QED BY Invariance, <1>1, PTL

\* The link runs in lock-step: no second byte is sent while one is under way.
THEOREM LockStep == LinkSpec => []OneByteUnderWay
  <1>1. ASSUME IInv PROVE OneByteUnderWay
    <2> SUFFICES ASSUME greetings = 0, socket = "open"
                 PROVE  Len(toPeer) + Len(fromPeer) + (IF held # NoByte THEN 1 ELSE 0)
                          <= IF phase = "waiting" THEN 1 ELSE 0
      BY DEF OneByteUnderWay
    <2>1. /\ Len(toPeer) \in Nat /\ Len(fromPeer) \in Nat
          /\ Holding \in {0, 1} /\ Owed \in {0, 1}
      BY <1>1, Counts DEF IInv
    <2>2. UnderWay <= Owed
      BY <1>1, <2>1 DEF IInv, QueuesOK, Bounded
    <2>3. Owed <= IF phase = "waiting" THEN 1 ELSE 0
      BY <1>1, <2>1 DEF IInv, Phases, Owed
    <2>4. Holding = IF held # NoByte THEN 1 ELSE 0
      BY DEF Holding
    <2> QED BY <2>1, <2>2, <2>3, <2>4 DEF UnderWay, Behind
  <1> QED BY Invariance, <1>1, PTL

-----------------------------------------------------------------------------
(* The link implements Cable.                                              *)

\* The answer that is taken is to the byte that was exchanged last.
LEMMA TakesTheAnswer ==
  ASSUME IInv, peer = "firmware", phase = "waiting", sentByte,
         NEW n \in 1 .. Len(fromPeer)
  PROVE  fromPeer[1] = call /\ Len(exchanged) = call
  <1> USE DEF IInv
  <1>0. /\ call \in Nat /\ Sent \in Int
        /\ Len(toPeer) \in Nat /\ Len(fromPeer) \in Nat /\ Len(exchanged) \in Nat
        /\ Holding \in {0, 1} /\ Behind \in Int
    BY Counts
  <1>1. Unsent = 0 /\ Owed = 1
    BY DEF Unsent, Owed
  <1>2. Sent = call
    BY <1>0, <1>1 DEF Sent
  <1>3. Len(fromPeer) = 1 /\ Len(toPeer) = 0 /\ Holding = 0 /\ Behind = 0
    <2>1. greetings = 0
      BY DEF RelayOK
    <2>2. UnderWay <= 1
      BY <1>1, <2>1 DEF QueuesOK, Bounded
    <2>3. Len(fromPeer) >= 1
      BY <1>0
    <2>4. Len(toPeer) + Holding + Len(fromPeer) <= 1
      BY <2>2 DEF UnderWay, Behind
    <2>5. \A a, b, c \in Nat : a + b + c <= 1 /\ c >= 1 => a = 0 /\ b = 0 /\ c = 1
      OBVIOUS
    <2>6. Holding \in Nat
      BY <1>0
    <2> QED BY <1>0, <2>3, <2>4, <2>5, <2>6 DEF Behind
  <1>4. fromPeer[1] <= call /\ call <= fromPeer[1]
    <2>1. fromPeer[1] \in Int /\ fromPeer[1] <= Sent
          /\ Sent <= fromPeer[1] + Behind + (Len(fromPeer) - 1)
      BY <1>3, Numbered DEF QueuesOK, InOrder
    <2> QED BY <1>0, <1>2, <1>3, <2>1
  <1>5. Exchanging = 0
    BY <1>3 DEF RelayOK, Holding, Exchanging
  <1>6. Taken = Sent
    BY <1>3 DEF RelayOK
  <1>7. Len(exchanged) = call
    BY <1>0, <1>2, <1>3, <1>5, <1>6 DEF Taken
  <1>8. fromPeer[1] \in Int
    BY <1>3, Numbered
  <1> QED BY <1>0, <1>4, <1>7, <1>8

\* What is exchanged is the byte of the latest call, for the first time.
LEMMA ExchangesTheLatest ==
  ASSUME IInv, ExchangeByte
  PROVE  /\ phase \in {"waiting", "rejected"}
         /\ held = call /\ Len(exchanged) = call - 1
  <1> USE DEF IInv
  <1>0. /\ call \in Nat /\ Sent \in Int /\ Owed \in {0, 1}
        /\ Len(toPeer) \in Nat /\ Len(fromPeer) \in Nat /\ Len(exchanged) \in Nat
    BY Counts
  <1>1. relay = "exchange" /\ peer = "firmware" /\ held # NoByte /\ greetings = 0
    BY DEF ExchangeByte, Firmware, RelayOK
  <1>2. Holding = 1 /\ Exchanging = 1
    BY <1>1 DEF Holding, Exchanging
  <1>3. Len(toPeer) = 0 /\ Owed = 1
    BY <1>0, <1>1, <1>2 DEF QueuesOK, Bounded, UnderWay, Behind
  <1>4. phase \in {"waiting", "rejected"} /\ Unsent = 0
    BY <1>3 DEF Owed, Unsent
  <1>5. Sent = call
    BY <1>0, <1>4 DEF Sent
  <1>6. held = call
    BY <1>0, <1>1, <1>3, <1>5 DEF QueuesOK, InOrder
  <1>7. Taken = Sent
    BY <1>1 DEF RelayOK
  <1>8. Len(exchanged) = call - 1
    BY <1>0, <1>2, <1>3, <1>5, <1>7 DEF Taken
  <1> QED BY <1>4, <1>6, <1>8

\* What Cable sees of the firmware's link.
Seen == <<call, phase, exchanged, answers, peer>>

LEMMA InitCable == LinkInit => TheCable!Init
  BY DEF LinkInit, Init, TheCable!Init, ByFirmware, Calls

LEMMA StepCable ==
  ASSUME IInv, [LinkNext]_linkVars
  PROVE  [TheCable!Next]_TheCable!vars
  <1> USE DEF IInv
  <1>1. CASE UNCHANGED Seen
    BY <1>1 DEF Seen, TheCable!vars, ByFirmware
  <1>2. CASE ByFirmware /\ Server
    <2> UNCHANGED <<peer, exchanged>>
      BY <1>2 DEF Server, relayVars
    <2>1. CASE Call
      <3>1. TheCable!Ask
        BY <1>2, <2>1 DEF Call, TheCable!Ask, ByFirmware
      <3> QED BY <3>1 DEF TheCable!Next
    <2>2. CASE StartExchange
      BY <1>2, <2>2 DEF StartExchange, TheCable!vars, ByFirmware
    <2>3. CASE WriteFails
      <3>1. TheCable!Fail
        BY <1>2, <2>3 DEF WriteFails, Phases, TheCable!Fail, ByFirmware
      <3> QED BY <3>1 DEF TheCable!Next
    <2>4. CASE CloseEvent
      <3>1. CASE closeListeners = {}
        BY <1>1, <2>4, <3>1 DEF CloseEvent, Seen
      <3>2. CASE closeListeners # {}
        <4>1. phase = "waiting"
          BY <3>2 DEF Listening, Pending
        <4>2. TheCable!Fail
          BY <1>2, <2>4, <3>2, <4>1 DEF CloseEvent, TheCable!Fail, ByFirmware
        <4> QED BY <4>2 DEF TheCable!Next
      <3> QED BY <3>1, <3>2
    <2>5. CASE DataEvent
      <3>1. PICK n \in 1 .. Len(fromPeer) :
              dataListener(SubSeq(fromPeer, 1, n)) \/ UNCHANGED <<phase, callVars, answers>>
        BY <2>5 DEF DataEvent
      <3>2. call' = call
        BY <2>5 DEF DataEvent
      <3>3. CASE UNCHANGED <<phase, answers>>
        BY <1>1, <3>2, <3>3 DEF Seen
      <3>4. CASE phase = "waiting" /\ sentByte /\ settle(call, SubSeq(fromPeer, 1, n)[1])
        <4>1. SubSeq(fromPeer, 1, n)[1] = fromPeer[1]
          BY RestOfQueue DEF LinkTypeOK, TypeOK
        <4>2. fromPeer[1] = call /\ Len(exchanged) = call
          BY <1>2, <3>4, TakesTheAnswer DEF ByFirmware
        <4>3. TheCable!Return
          BY <1>2, <3>2, <3>4, <4>1, <4>2 DEF settle, TheCable!Return, ByFirmware
        <4> QED BY <4>3 DEF TheCable!Next
      <3> QED BY <3>1, <3>3, <3>4, Settles
    <2>6. CASE EmitBuffered \/ WriteDone \/ (\E c \in Calls : Timeout(c)) \/ PeerCloses
      BY <1>1, <2>6 DEF EmitBuffered, WriteDone, Timeout, PeerCloses, Seen
    <2> QED BY <1>2, <2>1, <2>2, <2>3, <2>4, <2>5, <2>6 DEF Server
  <1>3. CASE ExchangeByte
    <2>1. ByFirmware /\ UNCHANGED <<call, phase, answers, peer>>
      BY <1>3 DEF ExchangeByte, Firmware, ByFirmware, clientVars
    <2>2. exchanged' = Append(exchanged, call)
      BY <1>3, ExchangesTheLatest DEF ExchangeByte, OverCable
    <2>3. phase \in {"waiting", "rejected"} /\ Len(exchanged) = call - 1
      BY <1>3, ExchangesTheLatest
    <2>4. TheCable!Exchange
      BY <2>1, <2>2, <2>3 DEF TheCable!Exchange, ByFirmware
    <2> QED BY <2>4 DEF TheCable!Next
  <1>4. CASE Read \/ WriteBack \/ RelayFails \/ DeviceGone
    BY <1>1, <1>4 DEF Read, WriteBack, RelayFails, DeviceGone, Firmware, clientVars, Seen
  <1>5. CASE ~ByFirmware /\ (Server \/ OtherAnswers \/ OtherGreets)
    <2>1. UNCHANGED <<peer, exchanged>>
      BY <1>5 DEF Server, OtherAnswers, OtherGreets, relayVars
    <2> QED BY <1>5, <2>1 DEF TheCable!vars, ByFirmware
  <1>6. CASE UNCHANGED linkVars
    BY <1>1, <1>6 DEF linkVars, vars, relayVars, Seen
  <1> QED BY <1>2, <1>3, <1>4, <1>5, <1>6
          DEF LinkNext, OtherAnswers, OtherGreets, ByFirmware

\* The server has a link cable at the other end of a GameBoyClient, however many
\* bytes it sends: exchanged once, in order, answered with what was given.
THEOREM ImplementsCable == LinkSpec => CableSpec
  <1> QED BY InitCable, StepCable, Invariance, PTL
          DEF LinkSpec, CableSpec, TheCable!Spec
=============================================================================
