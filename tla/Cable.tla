-------------------------------- MODULE Cable --------------------------------
(***************************************************************************)
(* What the server believes it has at the other end of a GameBoyClient: a  *)
(* link cable.  A byte that is sent is exchanged with the Game Boy once,   *)
(* in the order of the calls, and the answer is what the Game Boy gave in  *)
(* that exchange.  A call that fails is the last, and it is not known      *)
(* whether its byte gets to the Game Boy.                                  *)
(***************************************************************************)
EXTENDS Naturals, Sequences

CONSTANTS MaxCalls, NoAnswer

VARIABLES
    call,       \* how many bytes have been sent
    state,      \* "idle", "asked" or "failed"
    exchanged,  \* the bytes that went over the cable, by the call they are of
    answers     \* what each call has returned: the byte given for which call

vars == <<call, state, exchanged, answers>>

Init ==
    /\ call = 0 /\ state = "idle"
    /\ exchanged = <<>>
    /\ answers = [c \in 1 .. MaxCalls |-> NoAnswer]

Ask ==
    /\ state = "idle" /\ call < MaxCalls
    /\ call' = call + 1
    /\ state' = "asked"
    /\ UNCHANGED <<exchanged, answers>>

Exchange ==
    /\ state \in {"asked", "failed"}
    /\ Len(exchanged) = call - 1
    /\ exchanged' = Append(exchanged, call)
    /\ UNCHANGED <<call, state, answers>>

Return ==
    /\ state = "asked"
    /\ Len(exchanged) = call
    /\ answers' = [answers EXCEPT ![call] = call]
    /\ state' = "idle"
    /\ UNCHANGED <<call, exchanged>>

Fail ==
    /\ state = "asked"
    /\ state' = "failed"
    /\ UNCHANGED <<call, exchanged, answers>>

Next == Ask \/ Exchange \/ Return \/ Fail

Spec == Init /\ [][Next]_vars
=============================================================================
