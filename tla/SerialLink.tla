----------------------------- MODULE SerialLink -----------------------------
(***************************************************************************)
(* gb_to_serial.ino and the Game Boy on its pins: a byte that comes over   *)
(* the serial line is shifted out, most significant bit first, while the   *)
(* Game Boy's byte is shifted in, and goes back over the line.             *)
(*                                                                         *)
(* The Game Boy is a slave: on a falling clock it shows its top bit, on a  *)
(* rising one it takes a bit in, and after the last it loads its next      *)
(* byte.  That the delay at the end of loop() is long enough for that is   *)
(* the sketch's own assumption.  Who writes to the serial line is left to  *)
(* the module that extends this one.                                       *)
(***************************************************************************)
EXTENDS Naturals, Sequences

CONSTANTS
    Bits,      \* of a byte
    Values,    \* a bound: the bytes that the two sides choose from
    MaxResets  \* a bound: how often the adapter is reset

\* How many values so many bits have.
Weight[n \in 0 .. Bits] == IF n = 0 THEN 1 ELSE 2 * Weight[n - 1]
Byte == 0 .. Weight[Bits] - 1

ASSUME BitsAssumption ==
    Bits \in Nat \ {0} /\ Values \subseteq Byte /\ MaxResets \in Nat

VARIABLES
    toAdapter, toHost,  \* the serial line
    adapter,  \* where the sketch is: "setup", "loop", "low" and "high" in
              \* transfer_byte, "reply", "delay"
    tx, rx, i,   \* of transfer_byte
    so, si,      \* the levels of PIN_SO and PIN_SI
    sb,          \* the Game Boy's shift register, ...
    shifted,     \* how many bits of it have been shifted
    given, got,  \* the bytes it has loaded, and the bytes it has received
    resets

pins == <<tx, rx, i, so, si>>
gameBoy == <<sb, shifted, given, got>>
adapterVars == <<toAdapter, toHost, adapter, pins, gameBoy, resets>>

TopBit(byte) == byte \div Weight[Bits - 1]
ShiftLeft(byte, bit) == ((2 * byte) % Weight[Bits]) + bit
Ready == Len(given) = Len(got) + 1

AdapterInit ==
    /\ toAdapter = <<>> /\ toHost = <<>>
    /\ adapter = "setup"
    /\ tx = 0 /\ rx = 0 /\ i = 0 /\ so = 0 /\ si = 1
    /\ sb \in Values /\ shifted = 0
    /\ given = <<sb>> /\ got = <<>>
    /\ resets = 0

-----------------------------------------------------------------------------
Goto(from, to) == adapter = from /\ adapter' = to

\* setup() tells the host that it is ready; what came before is lost.
Setup ==
    /\ Goto("setup", "loop")
    /\ toHost' = Append(toHost, 0)
    /\ toAdapter' = <<>>
    /\ UNCHANGED <<pins, gameBoy, resets>>

\* loop() takes a byte.
TakeByte ==
    /\ Goto("loop", "low")
    /\ toAdapter # <<>>
    /\ tx' = Head(toAdapter) /\ rx' = 0 /\ i' = 0
    /\ toAdapter' = Tail(toAdapter)
    /\ UNCHANGED <<toHost, so, si, gameBoy, resets>>

\* The first half of a turn of transfer_byte.
ClockLow ==
    /\ Goto("low", "high")
    /\ so' = TopBit(tx)
    /\ tx' = ShiftLeft(tx, 0)
    /\ si' = TopBit(sb)
    /\ UNCHANGED <<toAdapter, toHost, rx, i, gameBoy, resets>>

LastTurn == i + 1 = Bits

\* A Game Boy that has not loaded its next byte does not see the clock.
GameBoyShifts ==
    IF Ready
    THEN /\ sb' = ShiftLeft(sb, so)
         /\ shifted' = (shifted + 1) % Bits
         /\ got' = IF shifted' = 0 THEN Append(got, sb') ELSE got
         /\ UNCHANGED given
    ELSE UNCHANGED gameBoy

\* The second half.
ClockHigh ==
    /\ Goto("high", IF LastTurn THEN "reply" ELSE "low")
    /\ rx' = ShiftLeft(rx, si)
    /\ i' = i + 1
    /\ GameBoyShifts
    /\ UNCHANGED <<toAdapter, toHost, tx, so, si, resets>>

GiveBack ==
    /\ Goto("reply", "delay")
    /\ toHost' = Append(toHost, rx)
    /\ UNCHANGED <<toAdapter, pins, gameBoy, resets>>

GameBoyLoads ==
    /\ ~Ready
    /\ sb' \in Values
    /\ given' = Append(given, sb')
    /\ UNCHANGED <<toAdapter, toHost, adapter, pins, shifted, got, resets>>

Delay ==
    /\ Goto("delay", "loop")
    /\ Ready
    /\ UNCHANGED <<toAdapter, toHost, pins, gameBoy, resets>>

\* What the sketch had read is lost, and the Game Boy may be left between bits.
AdapterResets ==
    /\ adapter # "setup"
    /\ resets < MaxResets
    /\ resets' = resets + 1
    /\ adapter' = "setup"
    /\ toAdapter' = <<>>
    /\ tx' = 0 /\ rx' = 0 /\ i' = 0
    /\ UNCHANGED <<toHost, so, si, gameBoy>>

AdapterStep ==
    \/ Setup \/ TakeByte \/ ClockLow \/ ClockHigh \/ GiveBack \/ Delay
    \/ GameBoyLoads
=============================================================================
