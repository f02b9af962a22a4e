---------------------------- MODULE GameBoyClient ----------------------------
(***************************************************************************)
(* One GameBoyClient of client.ts: exchangeByte with the listeners and the *)
(* timer it leaves on its socket, the socket as Node runs it, and the peer *)
(* at the other end, which answers every byte it receives with one byte.   *)
(* LinkCable has the firmware for a peer.                                  *)
(*                                                                         *)
(* Callers exchange one byte after the other with a client, so the calls   *)
(* are numbered; a byte on the wire is the number of the call it belongs   *)
(* to, and Greeting is one the peer sends before it has received any.      *)
(***************************************************************************)
EXTENDS Naturals, Sequences

CONSTANTS
    MaxCalls,      \* bound: how many bytes are exchanged
    MaxGreetings   \* bound: how many bytes the peer sends unasked

ASSUME BoundsAssumption == MaxCalls \in Nat /\ MaxGreetings \in Nat

Calls == 1 .. MaxCalls
Greeting == 0
NoAnswer == MaxCalls + 1

VARIABLES
    call,       \* the number of the latest call of exchangeByte
    phase,      \* "idle": no call; "delay": in waitSendDelay; "waiting": its
                \* promise is pending; "rejected": the last call failed
    timers,     \* the calls whose timeout is set
    closeListeners, dataListeners,
                \* the calls whose listener is on the socket
    writing,    \* is the callback of socket.write still to come?
    sentByte,   \* the flag of the current call
    answers,    \* what each call has resolved to
    socket,     \* "open", "destroyed" ("close" not emitted yet), "closed"
    flowing,    \* has a "data" listener ever been added?  From then on data
                \* is emitted as it arrives, with or without listeners
    buffered,   \* data that arrived before that
    toPeer, fromPeer,  \* the two directions of the connection
    received,   \* has the peer received a byte?
    greetings   \* how many bytes the peer has sent before that

callVars == <<timers, closeListeners, dataListeners, sentByte>>
peerVars == <<toPeer, fromPeer, received, greetings>>
vars == <<call, phase, callVars, writing, answers, socket, flowing, buffered,
          peerVars>>

Bytes == Calls \cup {Greeting}

TypeOK ==
    /\ call \in 0 .. MaxCalls
    /\ phase \in {"idle", "delay", "waiting", "rejected"}
    /\ timers \subseteq Calls
    /\ closeListeners \subseteq Calls
    /\ dataListeners \subseteq Calls
    /\ writing \in BOOLEAN /\ sentByte \in BOOLEAN /\ flowing \in BOOLEAN
    /\ answers \in [Calls -> Bytes \cup {NoAnswer}]
    /\ socket \in {"open", "destroyed", "closed"}
    /\ buffered \in Seq(Bytes)
    /\ toPeer \in Seq(Calls) /\ fromPeer \in Seq(Bytes)
    /\ received \in BOOLEAN /\ greetings \in 0 .. MaxGreetings

Init ==
    /\ call = 0 /\ phase = "idle"
    /\ timers = {} /\ closeListeners = {} /\ dataListeners = {}
    /\ writing = FALSE /\ sentByte = FALSE
    /\ answers = [c \in Calls |-> NoAnswer]
    /\ socket = "open" /\ flowing = FALSE /\ buffered = <<>>
    /\ toPeer = <<>> /\ fromPeer = <<>>
    /\ received = FALSE /\ greetings = 0

-----------------------------------------------------------------------------
(* exchangeByte.                                                           *)

\* The session asks for the next byte.  It does so whatever has become of the
\* socket, but not once a call has failed: the session ends then.
Call ==
    /\ phase = "idle"
    /\ call < MaxCalls
    /\ call' = call + 1
    /\ phase' = "delay"
    /\ UNCHANGED <<callVars, writing, answers, socket, flowing, buffered, peerVars>>

\* The delay is over: timer, listeners and write, all in one callback.
StartExchange ==
    /\ phase = "delay"
    /\ phase' = "waiting"
    /\ timers' = timers \cup {call}
    /\ closeListeners' = closeListeners \cup {call}
    /\ dataListeners' = dataListeners \cup {call}
    /\ sentByte' = FALSE
    /\ writing' = TRUE
    /\ flowing' = TRUE
    /\ UNCHANGED <<call, answers, socket, buffered, peerVars>>

cleanup(c) ==
    /\ timers' = timers \ {c}
    /\ closeListeners' = closeListeners \ {c}
    /\ dataListeners' = dataListeners \ {c}
    /\ UNCHANGED sentByte

\* The first "data" listener makes the socket emit what it has buffered, on
\* the next tick and so before the write's callback: nothing has been sent.
EmitBuffered ==
    /\ flowing
    /\ buffered # <<>>
    /\ buffered' = <<>>
    /\ UNCHANGED <<call, phase, callVars, writing, answers, socket, flowing, peerVars>>

\* The byte is handed to the kernel.  Its callback runs before anything else
\* is read from the socket.
WriteDone ==
    /\ writing
    /\ socket = "open"
    /\ buffered = <<>>
    /\ writing' = FALSE
    /\ sentByte' = TRUE
    /\ toPeer' = Append(toPeer, call)
    /\ UNCHANGED <<call, phase, timers, closeListeners, dataListeners, answers,
                   socket, flowing, buffered, fromPeer, received, greetings>>

\* The socket is gone: the callback gets an error.
WriteFails ==
    /\ writing
    /\ socket # "open"
    /\ writing' = FALSE
    /\ cleanup(call)
    /\ phase' = "rejected"
    /\ UNCHANGED <<call, answers, socket, flowing, buffered, peerVars>>

\* Mutant: the call is given up, the connection is kept.
TimeoutRejects(c) ==
    /\ c \in timers
    /\ cleanup(c)
    /\ phase' = "idle"
    /\ UNCHANGED <<call, writing, answers, socket, flowing, buffered, peerVars>>

\* dataTimeoutMs have passed.  The call itself fails when "close" comes.
Timeout(c) ==
    /\ c \in timers
    /\ timers' = timers \ {c}
    /\ socket' = IF socket = "open" THEN "destroyed" ELSE socket
    /\ UNCHANGED <<call, phase, closeListeners, dataListeners, writing, sentByte,
                   answers, flowing, buffered, peerVars>>

\* Mutant: the answer is taken without clearing the timeout.
settleKeepsTimer(c, answer) ==
    /\ closeListeners' = closeListeners \ {c}
    /\ dataListeners' = dataListeners \ {c}
    /\ answers' = [answers EXCEPT ![c] = answer]
    /\ phase' = "idle"
    /\ UNCHANGED <<timers, sentByte>>

settle(c, answer) ==
    /\ cleanup(c)
    /\ answers' = [answers EXCEPT ![c] = answer]
    /\ phase' = "idle"

\* A chunk counts for its first byte, and only once the byte has been sent;
\* with no listener it is lost.
dataListener(chunk) ==
    IF dataListeners # {} /\ sentByte
    THEN settle(call, chunk[1])
    ELSE UNCHANGED <<phase, callVars, answers>>

\* The socket reads some of what has arrived.
DataEvent ==
    /\ socket = "open"
    /\ \E n \in 1 .. Len(fromPeer) :
         /\ fromPeer' = SubSeq(fromPeer, n + 1, Len(fromPeer))
         /\ IF flowing
            THEN /\ dataListener(SubSeq(fromPeer, 1, n))
                 /\ UNCHANGED buffered
            ELSE /\ buffered' = buffered \o SubSeq(fromPeer, 1, n)
                 /\ UNCHANGED <<phase, callVars, answers>>
    /\ UNCHANGED <<call, writing, socket, flowing, toPeer, received, greetings>>

\* Mutant: nothing listens for "close".
CloseUnheard ==
    /\ socket = "destroyed"
    /\ socket' = "closed"
    /\ UNCHANGED <<call, phase, callVars, writing, answers, flowing, buffered, peerVars>>

\* "close" is emitted: a pending call is rejected.
CloseEvent ==
    /\ socket = "destroyed"
    /\ socket' = "closed"
    /\ IF closeListeners # {}
       THEN /\ cleanup(call)
            /\ phase' = "rejected"
            /\ writing' = FALSE
       ELSE UNCHANGED <<phase, callVars, writing>>
    /\ UNCHANGED <<call, answers, flowing, buffered, peerVars>>

-----------------------------------------------------------------------------
(* The peer: a Game Boy behind its bridge.                                 *)

PeerAnswers ==
    /\ toPeer # <<>>
    /\ toPeer' = Tail(toPeer)
    /\ fromPeer' = Append(fromPeer, Head(toPeer))
    /\ received' = TRUE
    /\ UNCHANGED <<call, phase, callVars, writing, answers, socket, flowing,
                   buffered, greetings>>

PeerGreets ==
    /\ ~received
    /\ greetings < MaxGreetings
    /\ greetings' = greetings + 1
    /\ fromPeer' = Append(fromPeer, Greeting)
    /\ UNCHANGED <<call, phase, callVars, writing, answers, socket, flowing,
                   buffered, toPeer, received>>

PeerCloses ==
    /\ socket = "open"
    /\ socket' = "destroyed"
    /\ UNCHANGED <<call, phase, callVars, writing, answers, flowing, buffered, peerVars>>

Next ==
    \/ Call \/ StartExchange \/ EmitBuffered \/ WriteDone \/ WriteFails
    \/ \E c \in Calls : Timeout(c)
    \/ DataEvent \/ CloseEvent
    \/ PeerAnswers \/ PeerGreets \/ PeerCloses

Spec == Init /\ [][Next]_vars

\* Node runs the callbacks that are due; nothing is asked of the peer.
Fairness ==
    /\ WF_vars(StartExchange) /\ WF_vars(EmitBuffered)
    /\ WF_vars(WriteDone) /\ WF_vars(WriteFails)
    /\ \A c \in Calls : WF_vars(Timeout(c))
    /\ WF_vars(CloseEvent)

FairSpec == Spec /\ Fairness

-----------------------------------------------------------------------------
\* The answer to a byte is the one the peer gave to that very byte, through
\* any pattern of timeouts and closed sockets; or, with a peer that spoke before
\* it was spoken to, to one that is earlier by no more bytes than it said then.
Paired ==
    \A c \in Calls : answers[c] # NoAnswer =>
        answers[c] <= c /\ c <= answers[c] + greetings

\* A settled call leaves no timer and no listener behind: no old timer cuts a
\* healthy connection, no old listener takes a later answer.
CleanedUp ==
    timers \cup closeListeners \cup dataListeners
        \subseteq IF phase = "waiting" THEN {call} ELSE {}

\* Every exchange ends, whatever the peer does: answered or rejected.
CallSettles == phase \in {"delay", "waiting"} ~> phase \in {"idle", "rejected"}
=============================================================================
