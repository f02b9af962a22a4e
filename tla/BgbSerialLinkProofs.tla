------------------------- MODULE BgbSerialLinkProofs -------------------------
(***************************************************************************)
(* The two safety properties of BgbSerialLink hold for bytes of any number *)
(* of bits, any clock and any number of packets and resets.                *)
(*                                                                         *)
(* InSync rests on there being one place at most where the transfer under  *)
(* way is, and on the times of the packets being in order until the clock  *)
(* wraps.  CableKept rests on the same places, followed through the        *)
(* adapter: half-way through a byte each shift register holds the end of   *)
(* the byte that leaves it and the beginning of the one that comes in.     *)
(***************************************************************************)
EXTENDS BgbSerialLink, WellFoundedInduction, TLAPS

Times == 0 .. ClockSize - 1
Requests == [kind : Plain \cup {"sync1"}, data : Nat, time : Times]
Replies == [kind : {"version", "status", "sync3", "sync2"}, data : Nat, time : Times]

Bytes ==
    /\ adapter \in {"setup", "loop", "low", "high", "reply", "delay"}
    /\ toAdapter \in Seq(Nat) /\ toHost \in Seq(Nat)
    /\ {tx, rx, i, so, si, sb, shifted} \subseteq Nat
    /\ given \in Seq(Nat) /\ got \in Seq(Nat)
    /\ resets \in Nat

Packets ==
    /\ host \in {"boot", "accept", "recv", "serial", "ended"}
    /\ conn \in {"none", "up", "closed"}
    /\ toServer \in Seq(Requests) /\ toBgb \in Seq(Replies)
    /\ {last, clock, askedAt} \subseteq Times
    /\ wrapped \in BOOLEAN /\ packets \in Nat
    /\ sent \in Seq(Nat) /\ answers \in Seq(Nat)

-----------------------------------------------------------------------------
(* The transfer under way is in one place.                                 *)

UnderWay == Len(sent) = Len(answers) + 1

NoSync1 == \A n \in DOMAIN toServer : toServer[n].kind # "sync1"
NoSync2 == \A n \in DOMAIN toBgb : toBgb[n].kind # "sync2"

OnePlace ==
    /\ Len(sent) \in {Len(answers), Len(answers) + 1}
    /\ \/ NoSync1
       \/ UnderWay /\ NoSync2 /\ host # "serial"
    /\ \A m, n \in DOMAIN toServer :
          toServer[m].kind = "sync1" /\ toServer[n].kind = "sync1" => m = n
    /\ NoSync2 \/ (UnderWay /\ host # "serial")
    /\ \A m, n \in DOMAIN toBgb :
          toBgb[m].kind = "sync2" /\ toBgb[n].kind = "sync2" => m = n
    /\ host = "serial" => UnderWay
    /\ host \in {"boot", "accept"} =>
          conn = "none" /\ toServer = <<>> /\ toBgb = <<>> /\ sent = <<>>
    /\ host = "ended" => conn = "closed"

\* The packets come in the order of their times.
Timely ==
    ~wrapped =>
        /\ last <= clock
        /\ \A n \in DOMAIN toServer :
              /\ last <= toServer[n].time /\ toServer[n].time <= clock
              /\ toServer[n].kind = "sync1" => toServer[n].time = askedAt
              /\ \A m \in DOMAIN toServer : m <= n => toServer[m].time <= toServer[n].time
        /\ host = "serial" => last = askedAt

SyncInv == Bytes /\ Packets /\ OnePlace /\ Timely /\ InSync

-----------------------------------------------------------------------------
(* Where a byte is on its way to the Game Boy and back.                    *)

\* So many bits of a byte, and the rest.
Parts(byte, n, hi, lo) ==
    /\ hi \in 0 .. Weight[n] - 1 /\ lo \in 0 .. Weight[Bits - n] - 1
    /\ byte = hi * Weight[Bits - n] + lo

\* x leaves the adapter and y the Game Boy: before the clock falls, ...
Low(x, y) ==
    \E hx, lx, hy, ly \in Byte :
        /\ Parts(x, i, hx, lx) /\ Parts(y, i, hy, ly)
        /\ tx = lx * Weight[i]
        /\ sb = ly * Weight[i] + hx
        /\ rx = hy

\* ... and before it rises, with a bit of each on the pins.
High(x, y) ==
    \E hx, lx, hy, ly \in Byte :
        /\ {so, si} \subseteq {0, 1}
        /\ {hx, hy} \subseteq 0 .. Weight[i] - 1
        /\ Parts(x, i + 1, 2 * hx + so, lx) /\ Parts(y, i + 1, 2 * hy + si, ly)
        /\ tx = lx * Weight[i + 1]
        /\ sb = (si * Weight[Bits - i - 1] + ly) * Weight[i] + hx
        /\ rx = hy

\* The Game Boy.
Loaded ==
    /\ Len(given) \in {Len(got), Len(got) + 1}
    /\ given \in Seq(Byte) /\ sent \in Seq(Byte)
    /\ adapter \in {"setup", "loop", "low", "high"} => Ready
    /\ adapter \notin {"low", "high"} => shifted = 0
    /\ adapter \notin {"low", "high"} /\ Ready => sb = given[Len(given)]

\* Nothing is on its way, ...
Calm == toAdapter = <<>> /\ toHost = <<>> /\ adapter \in {"loop", "delay"}

\* ... or the last byte: on the line, being shifted, or its answer is.
Asked ==
    /\ toAdapter = <<sent[Len(sent)]>> /\ toHost = <<>> /\ adapter \in {"loop", "delay"}
    /\ Len(got) = Len(answers)

Shifting ==
    /\ toAdapter = <<>> /\ toHost = <<>> /\ adapter \in {"low", "high"}
    /\ Len(got) = Len(answers)
    /\ i \in 0 .. Bits - 1 /\ shifted = i
    /\ \E x, y \in Byte :
          /\ x = sent[Len(sent)] /\ y = given[Len(given)]
          /\ IF adapter = "low" THEN Low(x, y) ELSE High(x, y)

Answered ==
    /\ toAdapter = <<>> /\ Len(got) = Len(sent)
    /\ \/ adapter = "reply" /\ toHost = <<>> /\ rx = given[Len(got)]
       \/ adapter \in {"loop", "delay"} /\ toHost = <<given[Len(got)]>>

Busy == (Asked \/ Shifting \/ Answered) /\ UnderWay /\ NoSync1 /\ NoSync2

Followed ==
    /\ Len(got) \in {Len(answers), Len(answers) + 1} /\ Len(got) <= Len(sent)
    /\ ~NoSync1 => Len(got) = Len(answers)
    /\ \A n \in DOMAIN toServer :
          toServer[n].kind = "sync1" => toServer[n].data = sent[Len(sent)]
    /\ \A n \in DOMAIN toBgb :
          toBgb[n].kind = "sync2" => /\ Len(got) = Len(sent)
                                     /\ toBgb[n].data = given[Len(got)]
    /\ host = "boot" => /\ toAdapter = <<>>
                        /\ \/ adapter = "setup" /\ toHost = <<>>
                           \/ adapter = "loop" /\ toHost = <<0>>
    /\ host \in {"accept", "recv"} => Calm
    /\ host = "serial" => Busy
    /\ host = "ended" => Calm \/ Busy

Kept ==
    /\ \A n \in 1 .. Len(got) : got[n] = sent[n]
    /\ \A n \in 1 .. Len(answers) : answers[n] = given[n]

CableInv == Loaded /\ Followed /\ Kept

IInv == SyncInv /\ (resets = 0 => CableInv)

-----------------------------------------------------------------------------
(* Bits.                                                                   *)

\* There is a first number of a kind.
LEMMA Least ==
    ASSUME NEW T \in SUBSET Nat, T # {}
    PROVE  \E n \in T : \A m \in T : n <= m
  <1>1. PICK n \in T : \A m \in T : ~ (<<m, n>> \in OpToRel(<, Nat))
    BY NatLessThanWellFounded, WFMin
  <1>2. \A m \in T : ~ (m < n)
    BY <1>1 DEF OpToRel
  <1> QED BY <1>2

\* The recursion of Weight has a solution as far as any number.
LEMMA Weights ==
    ASSUME NEW n \in Nat
    PROVE  \E f : f = [k \in 0 .. n |-> IF k = 0 THEN 1 ELSE 2 * f[k - 1]]
  <1> DEFINE Solved(m) == \E f : f = [k \in 0 .. m |-> IF k = 0 THEN 1 ELSE 2 * f[k - 1]]
             T == {m \in Nat : ~Solved(m)}
  <1> SUFFICES ASSUME ~Solved(n) PROVE FALSE
    OBVIOUS
  <1>1. PICK m \in T : \A k \in T : m <= k
    <2>1. T \in SUBSET Nat /\ n \in T
      OBVIOUS
    <2> HIDE DEF T
    <2> QED BY <2>1, Least
  <1>2. m # 0
    <2> DEFINE f == [k \in 0 .. 0 |-> 1]
    <2>1. f = [k \in 0 .. 0 |-> IF k = 0 THEN 1 ELSE 2 * f[k - 1]]
      OBVIOUS
    <2> HIDE DEF f
    <2>2. Solved(0)
      BY <2>1
    <2> QED BY <1>1, <2>2
  <1>3. m \in Nat /\ m - 1 \in Nat /\ m - 1 \notin T /\ Solved(m - 1)
    <2>1. m \in Nat
      BY <1>1
    <2> HIDE DEF Solved
    <2>2. m - 1 \in Nat /\ m - 1 \notin T
      BY <1>1, <1>2, <2>1
    <2> QED BY <2>1, <2>2
  <1>4. PICK f : f = [k \in 0 .. m - 1 |-> IF k = 0 THEN 1 ELSE 2 * f[k - 1]]
    BY <1>3
  <1> DEFINE g == [k \in 0 .. m |-> IF k = m THEN 2 * f[m - 1] ELSE f[k]]
  <1>5. g = [k \in 0 .. m |-> IF k = 0 THEN 1 ELSE 2 * g[k - 1]]
    <2>1. ASSUME NEW k \in 0 .. m
          PROVE  g[k] = IF k = 0 THEN 1 ELSE 2 * g[k - 1]
      <3>1. CASE k = m
        BY <1>2, <1>3, <3>1
      <3>2. CASE k # m
        <4>1. k \in 0 .. m - 1 /\ g[k] = f[k]
          BY <1>3, <3>2
        <4>2. k # 0 => k - 1 \in 0 .. m /\ k - 1 # m
          BY <4>1, <1>3
        <4> QED BY <1>4, <4>1, <4>2
      <3> QED BY <3>1, <3>2
    <2> QED BY <2>1
  <1> HIDE DEF g
  <1>6. Solved(m)
    BY <1>5
  <1> QED BY <1>1, <1>6

LEMMA WeightIs == Weight = [n \in 0 .. Bits |-> IF n = 0 THEN 1 ELSE 2 * Weight[n - 1]]
  <1>1. \E f : f = [n \in 0 .. Bits |-> IF n = 0 THEN 1 ELSE 2 * f[n - 1]]
    BY Weights, BitsAssumption
  <1>2. Weight = CHOOSE f : f = [n \in 0 .. Bits |-> IF n = 0 THEN 1 ELSE 2 * f[n - 1]]
    BY DEF Weight
  <1> QED BY <1>1, <1>2, Zenon

LEMMA WeightGrows ==
    /\ Weight[0] = 1
    /\ \A n \in 0 .. Bits : Weight[n] \in Nat \ {0}
    /\ \A n \in 1 .. Bits : Weight[n] = 2 * Weight[n - 1]
  <1>1. Bits \in Nat
    BY BitsAssumption
  <1>2. \A n \in 0 .. Bits : Weight[n] = IF n = 0 THEN 1 ELSE 2 * Weight[n - 1]
    BY WeightIs
  <1>3. ASSUME NEW n \in 0 .. Bits PROVE Weight[n] \in Nat \ {0}
    <2> DEFINE T == {k \in 0 .. Bits : Weight[k] \notin Nat \ {0}}
    <2> SUFFICES ASSUME n \in T PROVE FALSE
      OBVIOUS
    <2>1. PICK m \in T : \A k \in T : m <= k
      <3>1. T \in SUBSET Nat
        BY <1>1
      <3> HIDE DEF T
      <3> QED BY <3>1, Least
    <2>2. m # 0
      BY <1>1, <1>2, <2>1
    <2>3. m - 1 \in 0 .. Bits /\ m - 1 \notin T
      BY <1>1, <2>1, <2>2
    <2> QED BY <1>2, <2>1, <2>2, <2>3
  <1> QED BY <1>1, <1>2, <1>3

\* As many bits from the left as from the right.
LEMMA WeightSplits ==
    ASSUME NEW n \in 0 .. Bits
    PROVE  Weight[Bits - n] * Weight[n] = Weight[Bits]
  <1> DEFINE T == {k \in 0 .. Bits : Weight[Bits - k] * Weight[k] # Weight[Bits]}
  <1> SUFFICES ASSUME n \in T PROVE FALSE
    OBVIOUS
  <1>0. Bits \in Nat
    BY BitsAssumption
  <1>1. PICK m \in T : \A k \in T : m <= k
    <2>1. T \in SUBSET Nat
      BY <1>0
    <2> HIDE DEF T
    <2> QED BY <2>1, Least
  <1>2. m # 0
    BY <1>0, <1>1, WeightGrows
  <1>3. m \in 1 .. Bits /\ m - 1 \in 0 .. Bits /\ m - 1 \notin T
    BY <1>0, <1>1, <1>2
  <1>4. Weight[Bits - (m - 1)] * Weight[m - 1] = Weight[Bits]
    BY <1>3
  <1>5. Bits - (m - 1) \in 1 .. Bits /\ Bits - (m - 1) - 1 = Bits - m /\ Bits - m \in 0 .. Bits
    BY <1>0, <1>3
  <1>6. Weight[Bits - (m - 1)] = 2 * Weight[Bits - m] /\ Weight[m] = 2 * Weight[m - 1]
    BY <1>3, <1>5, WeightGrows
  <1>7. Weight[Bits - m] \in Nat /\ Weight[m - 1] \in Nat
    BY <1>3, <1>5, WeightGrows
  <1>8. Weight[Bits - m] * Weight[m] = Weight[Bits]
    BY <1>4, <1>6, <1>7
  <1> QED BY <1>1, <1>8

LEMMA Products ==
    ASSUME NEW q \in Nat, NEW r \in Nat, NEW l \in Nat, l < q, NEW e \in Nat, e < r
    PROVE  l * r + e \in Nat /\ l * r + e < q * r
  <1>1. l * r \in Nat /\ l * r <= (q - 1) * r
    OBVIOUS
  <1>2. (q - 1) * r = q * r - r
    OBVIOUS
  <1> QED BY <1>1, <1>2

LEMMA Divide ==
    ASSUME NEW h \in Nat, h > 0, NEW b \in {0, 1}, NEW r \in Nat, r < h
    PROVE  /\ (b * h + r) \div h = b
           /\ (2 * (b * h + r)) % (2 * h) = 2 * r
  <1>1. r \div h = 0 /\ (h + r) \div h = 1
    OBVIOUS
  <1> DEFINE w == 2 * h
             s == 2 * r
  <1>2. w \in Nat /\ w > 0 /\ s \in Nat /\ s < w /\ 2 * (h + r) = w + s
    OBVIOUS
  <1> HIDE DEF w, s
  <1>3. s % w = s /\ (w + s) % w = s
    BY <1>2
  <1>4. CASE b = 0
    <2>1. b * h + r = r
      BY <1>4
    <2> QED BY <1>1, <1>3, <1>4, <2>1 DEF w, s
  <1>5. CASE b = 1
    <2>1. b * h + r = h + r
      BY <1>5
    <2>2. (2 * (h + r)) % w = s
      BY <1>2, <1>3
    <2> QED BY <1>1, <1>5, <2>1, <2>2 DEF w, s
  <1> QED BY <1>4, <1>5

\* A shift register that has l at its left end, behind n bits that came in, e:
\* its top bit is that of l, and another bit comes in behind e.
LEMMA Shift ==
    ASSUME NEW n \in 0 .. Bits - 1, NEW b \in {0, 1},
           NEW l \in 0 .. Weight[Bits - n - 1] - 1, NEW e \in 0 .. Weight[n] - 1, NEW c \in Nat
    PROVE  LET byte == (b * Weight[Bits - n - 1] + l) * Weight[n] + e
           IN  TopBit(byte) = b /\ ShiftLeft(byte, c) = l * Weight[n + 1] + (2 * e + c)
  <1> DEFINE q == Weight[Bits - n - 1]
             r == Weight[n]
             h == Weight[Bits - 1]
             byte == (b * q + l) * r + e
  <1>0. Bits \in Nat /\ Bits - n \in 1 .. Bits /\ n + 1 \in 1 .. Bits /\ n \in 0 .. Bits
    BY BitsAssumption
  <1>1. q \in Nat \ {0} /\ r \in Nat \ {0} /\ h \in Nat \ {0}
    BY <1>0, WeightGrows
  <1>2. Weight[Bits] = 2 * h /\ Weight[n + 1] = 2 * r /\ Weight[Bits - n] = 2 * q
    BY <1>0, WeightGrows
  <1>3. q * r = h
    <2>1. (2 * q) * r = 2 * h
      BY <1>0, <1>2, WeightSplits
    <2> HIDE DEF q, r, h
    <2>2. (2 * q) * r = 2 * (q * r)
      BY <1>1
    <2> QED BY <1>1, <2>1, <2>2
  <1>4. l \in Nat /\ l < q /\ e \in Nat /\ e < r
    BY <1>1
  <1> HIDE DEF q, r, h
  <1>5. l * r + e \in Nat /\ l * r + e < h
    BY <1>1, <1>3, <1>4, Products
  <1>6. byte = b * h + (l * r + e)
    <2>1. (b * q + l) * r = b * (q * r) + l * r
      BY <1>1, <1>4
    <2> QED BY <1>1, <1>3, <1>4, <2>1
  <1> DEFINE s == l * r + e
  <1>7. (b * h + s) \div h = b /\ (2 * (b * h + s)) % (2 * h) = 2 * s
    <2>1. s \in Nat /\ s < h /\ h \in Nat /\ h > 0
      BY <1>1, <1>5
    <2> HIDE DEF s
    <2> QED BY <2>1, Divide, Zenon
  <1> HIDE DEF s
  <1> HIDE DEF byte
  <1>8. byte = b * h + s
    BY <1>6 DEF s
  <1>9. TopBit(byte) = b
    BY <1>7, <1>8 DEF TopBit, h
  <1>10. ShiftLeft(byte, c) = 2 * s + c
    BY <1>2, <1>7, <1>8 DEF ShiftLeft
  <1>11. 2 * s + c = l * (2 * r) + (2 * e + c)
    BY <1>1, <1>4 DEF s
  <1> QED BY <1>2, <1>9, <1>10, <1>11 DEF byte, q, r

\* One bit more of a byte.
LEMMA NextBit ==
    ASSUME NEW n \in 0 .. Bits - 1, NEW byte, NEW hi, NEW lo, Parts(byte, n, hi, lo)
    PROVE  \E b \in {0, 1}, l \in 0 .. Weight[Bits - n - 1] - 1 :
              lo = b * Weight[Bits - n - 1] + l /\ Parts(byte, n + 1, 2 * hi + b, l)
  <1> DEFINE q == Weight[Bits - n - 1]
             r == Weight[n]
  <1>0. Bits \in Nat /\ Bits - n \in 1 .. Bits /\ n + 1 \in 1 .. Bits /\ n \in 0 .. Bits
    BY BitsAssumption
  <1>1. /\ q \in Nat \ {0} /\ r \in Nat \ {0}
        /\ Weight[n + 1] = 2 * r /\ Weight[Bits - n] = 2 * q
    BY <1>0, WeightGrows
  <1>2. Bits - (n + 1) = Bits - n - 1
    BY <1>0
  <1>3. /\ hi \in 0 .. r - 1 /\ lo \in 0 .. 2 * q - 1 /\ byte = hi * (2 * q) + lo
    BY <1>1 DEF Parts
  <1> HIDE DEF q, r
  <1>4. PICK b \in {0, 1}, l \in 0 .. q - 1 : lo = b * q + l
    <2>1. CASE lo < q
      <3>1. lo \in 0 .. q - 1 /\ lo = 0 * q + lo
        BY <1>1, <1>3, <2>1
      <3> QED BY <3>1
    <2>2. CASE ~(lo < q)
      <3>1. lo - q \in 0 .. q - 1 /\ lo = 1 * q + (lo - q)
        BY <1>1, <1>3, <2>2
      <3> QED BY <3>1
    <2> QED BY <2>1, <2>2
  <1>5. 2 * hi + b \in 0 .. 2 * r - 1
    BY <1>1, <1>3
  <1>6. byte = (2 * hi + b) * q + l
    <2>1. hi * (2 * q) = (2 * hi) * q /\ (2 * hi + b) * q = (2 * hi) * q + b * q
      BY <1>1, <1>3
    <2>2. hi * (2 * q) \in Int /\ b * q \in Int
      BY <1>1, <1>3
    <2> QED BY <1>1, <1>3, <1>4, <2>1, <2>2
  <1>7. Parts(byte, n + 1, 2 * hi + b, l)
    BY <1>1, <1>2, <1>5, <1>6 DEF Parts, q
  <1> QED BY <1>4, <1>7 DEF q

LEMMA PartsAreBytes ==
    ASSUME NEW n \in 0 .. Bits, NEW k, k \in 0 .. Weight[n] - 1
    PROVE  k \in Byte
  <1>1. n \in 0 .. Bits /\ Bits - n \in 0 .. Bits /\ Bits \in 0 .. Bits
    BY BitsAssumption
  <1>2. Weight[n] \in Nat \ {0} /\ Weight[Bits - n] \in Nat \ {0} /\ Weight[Bits] \in Nat
    BY <1>1, WeightGrows
  <1>3. Weight[Bits - n] * Weight[n] = Weight[Bits]
    BY <1>1, WeightSplits
  <1>4. Weight[n] <= Weight[Bits - n] * Weight[n]
    BY <1>2
  <1>5. Weight[n] <= Weight[Bits]
    BY <1>3, <1>4
  <1> QED BY <1>2, <1>5 DEF Byte

\* The clock falls: a bit of each byte is on the pins.
LEMMA LowToHigh ==
    ASSUME i \in 0 .. Bits - 1, NEW x, NEW y, Low(x, y), ClockLow
    PROVE  High(x, y)'
  <1> DEFINE q == Weight[Bits - i - 1]
             r == Weight[i]
  <1>0. Bits \in Nat /\ i \in 0 .. Bits /\ Bits - i - 1 \in 0 .. Bits /\ i + 1 \in 0 .. Bits
    BY BitsAssumption
  <1>1. PICK hx \in Byte, lx \in Byte, hy \in Byte, ly \in Byte :
           /\ Parts(x, i, hx, lx) /\ Parts(y, i, hy, ly)
           /\ tx = lx * r /\ sb = ly * r + hx /\ rx = hy
    BY DEF Low
  <1>2. PICK bx \in {0, 1}, l \in 0 .. q - 1 :
           lx = bx * q + l /\ Parts(x, i + 1, 2 * hx + bx, l)
    BY <1>1, NextBit
  <1>3. PICK by \in {0, 1}, k \in 0 .. q - 1 :
           ly = by * q + k /\ Parts(y, i + 1, 2 * hy + by, k)
    BY <1>1, NextBit
  <1>4. /\ hx \in 0 .. r - 1 /\ hy \in 0 .. r - 1 /\ 0 \in 0 .. r - 1
        /\ q \in Nat \ {0} /\ r \in Nat \ {0} /\ Weight[i + 1] \in Nat
    BY <1>0, <1>1, WeightGrows DEF Parts
  <1>5. l \in Byte /\ k \in Byte
    BY <1>0, PartsAreBytes
  <1>6. TopBit(tx) = bx /\ ShiftLeft(tx, 0) = l * Weight[i + 1]
    <2>1. tx = (bx * q + l) * r + 0
      <3> HIDE DEF q, r
      <3> QED BY <1>1, <1>2, <1>4
    <2>2. TopBit(tx) = bx /\ ShiftLeft(tx, 0) = l * Weight[i + 1] + (2 * 0 + 0)
      BY <2>1, <1>4, Shift
    <2> QED BY <2>2, <1>4
  <1>7. TopBit(sb) = by
    <2>1. sb = (by * q + k) * r + hx
      BY <1>1, <1>3
    <2> QED BY <2>1, <1>4, Shift
  <1>8. /\ so' = bx /\ tx' = l * Weight[i + 1] /\ si' = by
        /\ rx' = rx /\ i' = i /\ sb' = sb
    BY <1>6, <1>7 DEF ClockLow, gameBoy
  <1>9. sb' = (by * q + k) * r + hx
    BY <1>1, <1>3, <1>8
  <1> HIDE DEF q, r
  <1>10. /\ {so', si'} \subseteq {0, 1} /\ {hx, hy} \subseteq 0 .. Weight[i'] - 1
         /\ Parts(x, i' + 1, 2 * hx + so', l) /\ Parts(y, i' + 1, 2 * hy + si', k)
         /\ tx' = l * Weight[i' + 1]
         /\ sb' = (si' * Weight[Bits - i' - 1] + k) * Weight[i'] + hx
         /\ rx' = hy
    BY <1>1, <1>2, <1>3, <1>4, <1>8, <1>9 DEF q, r
  <1> QED BY <1>5, <1>10 DEF High, Parts

\* The clock rises: each side takes the other's bit in.
LEMMA Rise ==
    ASSUME i \in 0 .. Bits - 1, NEW hx, NEW hy, NEW ly, {so, si} \subseteq {0, 1},
           {hx, hy} \subseteq 0 .. Weight[i] - 1, ly \in 0 .. Weight[Bits - i - 1] - 1,
           sb = (si * Weight[Bits - i - 1] + ly) * Weight[i] + hx, rx = hy
    PROVE  /\ ShiftLeft(sb, so) = ly * Weight[i + 1] + (2 * hx + so)
           /\ ShiftLeft(rx, si) = 2 * hy + si
  <1> DEFINE q == Weight[Bits - i - 1]
             r == Weight[i]
  <1>0. Bits \in Nat /\ i \in 0 .. Bits /\ Bits - i - 1 \in 0 .. Bits /\ i + 1 \in 0 .. Bits
    BY BitsAssumption
  <1>1. q \in Nat \ {0} /\ r \in Nat \ {0} /\ Weight[i + 1] \in Nat
    BY <1>0, WeightGrows
  <1>2. ShiftLeft(sb, so) = ly * Weight[i + 1] + (2 * hx + so)
    <2>1. so \in Nat /\ si \in {0, 1} /\ hx \in 0 .. r - 1
      OBVIOUS
    <2> QED BY <2>1, Shift
  <1>3. ShiftLeft(rx, si) = 2 * hy + si
    <2>1. si \in Nat /\ 0 \in {0, 1} /\ 0 \in 0 .. q - 1 /\ hy \in 0 .. r - 1
      BY <1>1
    <2>2. ShiftLeft((0 * q + 0) * r + hy, si) = 0 * Weight[i + 1] + (2 * hy + si)
      BY <2>1, Shift
    <2> HIDE DEF q, r
    <2>3. (0 * q + 0) * r + hy = hy /\ 0 * Weight[i + 1] + (2 * hy + si) = 2 * hy + si
      BY <1>1, <2>1
    <2> QED BY <2>2, <2>3
  <1> QED BY <1>2, <1>3

LEMMA HighToLow ==
    ASSUME i \in 0 .. Bits - 1, ~LastTurn, NEW x, NEW y, High(x, y), Ready, ClockHigh
    PROVE  Low(x, y)' /\ i' \in 0 .. Bits - 1
  <1>0. Bits \in Nat /\ i + 1 \in 0 .. Bits /\ i + 1 \in 0 .. Bits - 1
        /\ Bits - i - 1 \in 0 .. Bits /\ Bits - (i + 1) = Bits - i - 1
    BY BitsAssumption DEF LastTurn
  <1>1. PICK hx \in Byte, lx \in Byte, hy \in Byte, ly \in Byte :
           /\ {so, si} \subseteq {0, 1}
           /\ {hx, hy} \subseteq 0 .. Weight[i] - 1
           /\ Parts(x, i + 1, 2 * hx + so, lx) /\ Parts(y, i + 1, 2 * hy + si, ly)
           /\ tx = lx * Weight[i + 1]
           /\ sb = (si * Weight[Bits - i - 1] + ly) * Weight[i] + hx
           /\ rx = hy
    BY DEF High
  <1>2. /\ ly \in 0 .. Weight[Bits - i - 1] - 1
        /\ 2 * hx + so \in 0 .. Weight[i + 1] - 1 /\ 2 * hy + si \in 0 .. Weight[i + 1] - 1
    BY <1>0, <1>1 DEF Parts
  <1>3. /\ ShiftLeft(sb, so) = ly * Weight[i + 1] + (2 * hx + so)
        /\ ShiftLeft(rx, si) = 2 * hy + si
    BY <1>1, <1>2, Rise
  <1>4. /\ i' = i + 1 /\ tx' = tx /\ sb' = ly * Weight[i + 1] + (2 * hx + so)
        /\ rx' = 2 * hy + si
    BY <1>3 DEF ClockHigh, GameBoyShifts
  <1>5. 2 * hx + so \in Byte /\ 2 * hy + si \in Byte
    BY <1>0, <1>2, PartsAreBytes
  <1>6. /\ Parts(x, i', 2 * hx + so, lx) /\ Parts(y, i', 2 * hy + si, ly)
        /\ tx' = lx * Weight[i'] /\ sb' = ly * Weight[i'] + (2 * hx + so)
        /\ rx' = 2 * hy + si
    BY <1>1, <1>4
  <1> QED BY <1>0, <1>4, <1>5, <1>6 DEF Low, Parts

LEMMA HighToDone ==
    ASSUME i \in 0 .. Bits - 1, LastTurn, NEW x, NEW y, High(x, y), Ready, ClockHigh
    PROVE  sb' = x /\ rx' = y
  <1>0. Bits \in Nat /\ i + 1 = Bits /\ Bits - i - 1 = 0 /\ Bits - (i + 1) = 0
        /\ Weight[0] = 1 /\ Weight[Bits] \in Nat
    BY BitsAssumption, WeightGrows DEF LastTurn
  <1>1. PICK hx \in Byte, lx \in Byte, hy \in Byte, ly \in Byte :
           /\ {so, si} \subseteq {0, 1}
           /\ {hx, hy} \subseteq 0 .. Weight[i] - 1
           /\ Parts(x, i + 1, 2 * hx + so, lx) /\ Parts(y, i + 1, 2 * hy + si, ly)
           /\ tx = lx * Weight[i + 1]
           /\ sb = (si * Weight[Bits - i - 1] + ly) * Weight[i] + hx
           /\ rx = hy
    BY DEF High
  <1>2. /\ lx \in 0 .. Weight[0] - 1 /\ ly \in 0 .. Weight[0] - 1
        /\ 2 * hx + so \in Int /\ 2 * hy + si \in Int
        /\ x = (2 * hx + so) * Weight[0] + lx /\ y = (2 * hy + si) * Weight[0] + ly
    BY <1>0, <1>1 DEF Parts
  <1>3. lx = 0 /\ ly = 0 /\ x = 2 * hx + so /\ y = 2 * hy + si
    BY <1>0, <1>2
  <1>4. /\ ShiftLeft(sb, so) = ly * Weight[i + 1] + (2 * hx + so)
        /\ ShiftLeft(rx, si) = 2 * hy + si
    BY <1>0, <1>1, <1>2, Rise
  <1>5. ly * Weight[i + 1] = 0
    BY <1>0, <1>3
  <1>6. ShiftLeft(sb, so) = x /\ ShiftLeft(rx, si) = y
    BY <1>2, <1>3, <1>4, <1>5
  <1> QED BY <1>6 DEF ClockHigh, GameBoyShifts

-----------------------------------------------------------------------------
(* Packets and their times.                                                *)

LEMMA Appended ==
    ASSUME NEW E, NEW s \in Seq(E), NEW e \in E
    PROVE  /\ Append(s, e) \in Seq(E) /\ Len(s) \in Nat
           /\ DOMAIN s = 1 .. Len(s) /\ DOMAIN Append(s, e) = 1 .. Len(s) + 1
           /\ Len(Append(s, e)) = Len(s) + 1
           /\ \A n \in 1 .. Len(s) : Append(s, e)[n] = s[n] /\ s[n] \in E
           /\ Append(s, e)[Len(s) + 1] = e
  OBVIOUS

LEMMA Rest ==
    ASSUME NEW E, NEW s \in Seq(E), s # <<>>
    PROVE  /\ Tail(s) \in Seq(E) /\ Len(s) \in Nat \ {0} /\ Len(Tail(s)) = Len(s) - 1
           /\ DOMAIN s = 1 .. Len(s) /\ DOMAIN Tail(s) = 1 .. Len(s) - 1
           /\ Head(s) = s[1] /\ s[1] \in E /\ 1 \in 1 .. Len(s)
           /\ \A n \in 1 .. Len(s) - 1 : Tail(s)[n] = s[n + 1] /\ n + 1 \in 1 .. Len(s)
  OBVIOUS

LEMMA TimesAreNumbers == Times \subseteq Nat
  BY ClockAssumption DEF Times

LEMMA ClockTicks ==
    ASSUME Packets
    PROVE  /\ (clock + 1) % ClockSize \in Times
           /\ (clock + 1) % ClockSize # 0 => (clock + 1) % ClockSize = clock + 1
  <1>1. ClockSize \in Nat /\ ClockSize > 0 /\ clock \in 0 .. ClockSize - 1
    BY ClockAssumption DEF Packets, Times
  <1>2. CASE clock + 1 < ClockSize
    <2>1. (clock + 1) % ClockSize = clock + 1
      BY <1>1, <1>2
    <2> QED BY <1>1, <1>2, <2>1 DEF Times
  <1>3. CASE clock + 1 = ClockSize
    <2>1. ClockSize % ClockSize = 0
      BY <1>1
    <2> QED BY <1>1, <1>3, <2>1 DEF Times
  <1> QED BY <1>1, <1>2, <1>3

\* A packet of BGB's.
LEMMA SendsTypes ==
    ASSUME SyncInv, NEW kind \in Plain \cup {"sync1"}, NEW data \in Nat, Sends(kind, data)
    PROVE  /\ Bytes' /\ toServer' \in Seq(Requests) /\ clock' \in Times
           /\ wrapped' \in BOOLEAN /\ packets' \in Nat
           /\ DOMAIN toServer' = 1 .. Len(toServer) + 1 /\ DOMAIN toServer = 1 .. Len(toServer)
           /\ Len(toServer) \in Nat
           /\ \A n \in 1 .. Len(toServer) : toServer'[n] = toServer[n] /\ toServer[n] \in Requests
           /\ toServer'[Len(toServer) + 1].kind = kind
           /\ toServer'[Len(toServer) + 1].data = data
           /\ toServer'[Len(toServer) + 1].time = clock
           /\ ~wrapped' => ~wrapped /\ clock' = clock + 1
           /\ clock \in Nat
  <1> DEFINE p == Packet(kind, data, clock)
  <1>1. p \in Requests /\ p.kind = kind /\ p.data = data /\ p.time = clock
    BY DEF SyncInv, Packets, Requests, Packet
  <1> HIDE DEF p
  <1>2. toServer' = Append(toServer, p) /\ toServer \in Seq(Requests)
    BY DEF Sends, SyncInv, Packets, p
  <1>3. Bytes'
    BY DEF Sends, SyncInv, Bytes, adapterVars, pins, gameBoy
  <1>4. clock' \in Times /\ (clock' # 0 => clock' = clock + 1)
    BY ClockTicks DEF SyncInv, Sends
  <1>5. /\ packets' \in Nat /\ wrapped' \in BOOLEAN
        /\ ~wrapped' => ~wrapped /\ clock' # 0
    <2>1. /\ packets' = packets + 1 /\ packets \in Nat
          /\ wrapped' = (wrapped \/ clock' = 0) /\ wrapped \in BOOLEAN
      BY DEF SyncInv, Packets, Sends
    <2>2. packets' \in Nat
      BY <2>1
    <2>3. wrapped' \in BOOLEAN /\ (~wrapped' => ~wrapped /\ clock' # 0)
      BY <2>1, Zenon
    <2> QED BY <2>2, <2>3
  <1>6. clock \in Nat
    BY DEF SyncInv, Packets, Times
  <1> DEFINE s == toServer
  <1> HIDE DEF s
  <1>7. /\ Append(s, p) \in Seq(Requests) /\ Len(s) \in Nat
        /\ DOMAIN s = 1 .. Len(s) /\ DOMAIN Append(s, p) = 1 .. Len(s) + 1
        /\ \A n \in 1 .. Len(s) : Append(s, p)[n] = s[n] /\ s[n] \in Requests
        /\ Append(s, p)[Len(s) + 1] = p
    BY <1>1, <1>2, Appended DEF s
  <1> QED BY <1>1, <1>2, <1>3, <1>4, <1>5, <1>6, <1>7 DEF s

LEMMA SendPlainSync ==
    ASSUME SyncInv, NEW kind \in Plain, Sends(kind, 0), UNCHANGED <<sent, askedAt>>
    PROVE  SyncInv'
  <1> DEFINE top == Len(toServer) + 1
  <1>1. kind \in Plain \cup {"sync1"} /\ 0 \in Nat /\ kind # "sync1"
    BY DEF Plain
  <1>2. /\ Bytes' /\ toServer' \in Seq(Requests) /\ clock' \in Times
        /\ wrapped' \in BOOLEAN /\ packets' \in Nat
        /\ DOMAIN toServer' = 1 .. top /\ DOMAIN toServer = 1 .. Len(toServer)
        /\ Len(toServer) \in Nat
        /\ \A n \in 1 .. Len(toServer) : toServer'[n] = toServer[n] /\ toServer[n] \in Requests
        /\ toServer'[top].kind = kind /\ toServer'[top].time = clock
        /\ ~wrapped' => ~wrapped /\ clock' = clock + 1
        /\ clock \in Nat
    BY <1>1, SendsTypes
  <1>3. \A n \in 1 .. top : n = top \/ n \in 1 .. Len(toServer)
    BY <1>2
  <1>4. /\ host' = host /\ conn' = conn /\ last' = last /\ toBgb' = toBgb
        /\ answers' = answers /\ sent' = sent /\ askedAt' = askedAt /\ conn = "up"
    BY DEF Sends
  <1>5. Packets'
    BY <1>2, <1>4 DEF SyncInv, Packets
  <1>6. OnePlace'
    <2>1. host \notin {"boot", "accept"}
      BY <1>4 DEF SyncInv, OnePlace
    <2>2. \A n \in DOMAIN toServer' :
             toServer'[n].kind = "sync1" => n \in DOMAIN toServer /\ toServer[n].kind = "sync1"
      BY <1>1, <1>2, <1>3
    <2> QED BY <1>4, <2>1, <2>2 DEF SyncInv, OnePlace, NoSync1, NoSync2, UnderWay
  <1>7. Timely'
    <2> SUFFICES ASSUME ~wrapped'
                 PROVE  /\ last <= clock + 1
                        /\ \A n \in DOMAIN toServer' :
                              /\ last <= toServer'[n].time /\ toServer'[n].time <= clock + 1
                              /\ toServer'[n].kind = "sync1" => toServer'[n].time = askedAt
                              /\ \A m \in DOMAIN toServer' :
                                    m <= n => toServer'[m].time <= toServer'[n].time
                        /\ host = "serial" => last = askedAt
      BY <1>2, <1>4 DEF Timely
    <2>1. /\ last <= clock /\ last \in Nat /\ (host = "serial" => last = askedAt)
          /\ \A n \in 1 .. Len(toServer) :
                /\ last <= toServer[n].time /\ toServer[n].time <= clock
                /\ toServer[n].kind = "sync1" => toServer[n].time = askedAt
                /\ toServer[n].time \in Nat
                /\ \A m \in 1 .. Len(toServer) : m <= n => toServer[m].time <= toServer[n].time
      <3>1. last \in Nat /\ \A n \in 1 .. Len(toServer) : toServer[n].time \in Nat
        BY <1>2, TimesAreNumbers DEF SyncInv, Packets, Requests
      <3>2. ~wrapped
        BY <1>2
      <3> QED BY <1>2, <3>1, <3>2 DEF SyncInv, Timely
    <2>2. ASSUME NEW n \in 1 .. top
          PROVE  /\ last <= toServer'[n].time /\ toServer'[n].time <= clock
                 /\ toServer'[n].kind = "sync1" => toServer'[n].time = askedAt
                 /\ toServer'[n].time \in Nat
      BY <1>1, <1>2, <1>3, <2>1
    <2>3. ASSUME NEW n \in 1 .. top, NEW m \in 1 .. top, m <= n
          PROVE  toServer'[m].time <= toServer'[n].time
      <3>1. CASE n = top
        BY <1>2, <2>2, <3>1
      <3>2. CASE n # top
        <4>1. n \in 1 .. Len(toServer) /\ m \in 1 .. Len(toServer)
          BY <1>2, <2>3, <3>2
        <4> QED BY <1>2, <2>1, <2>3, <4>1
      <3> QED BY <3>1, <3>2
    <2>4. \A t \in Nat : t <= clock => t <= clock + 1
      BY <1>2
    <2> QED BY <1>2, <2>1, <2>2, <2>3, <2>4
  <1>8. InSync'
    BY <1>2, <1>4 DEF SyncInv, InSync
  <1> QED BY <1>2, <1>5, <1>6, <1>7, <1>8 DEF SyncInv

LEMMA SendMasterByteSync ==
    ASSUME SyncInv, SendMasterByte
    PROVE  SyncInv'
  <1> DEFINE top == Len(toServer) + 1
  <1>1. PICK data \in Values : Sends("sync1", data) /\ sent' = Append(sent, data)
    BY DEF SendMasterByte
  <1>2. data \in Nat
    BY <1>1, BitsAssumption, WeightGrows DEF Byte
  <1>3. /\ Bytes' /\ toServer' \in Seq(Requests) /\ clock' \in Times
        /\ wrapped' \in BOOLEAN /\ packets' \in Nat
        /\ DOMAIN toServer' = 1 .. top /\ DOMAIN toServer = 1 .. Len(toServer)
        /\ Len(toServer) \in Nat
        /\ \A n \in 1 .. Len(toServer) : toServer'[n] = toServer[n] /\ toServer[n] \in Requests
        /\ toServer'[top].kind = "sync1" /\ toServer'[top].time = clock
        /\ ~wrapped' => ~wrapped /\ clock' = clock + 1
        /\ clock \in Nat
    BY <1>1, <1>2, SendsTypes
  <1>4. \A n \in 1 .. top : n = top \/ n \in 1 .. Len(toServer)
    BY <1>3
  <1>5. /\ host' = host /\ conn' = conn /\ last' = last /\ toBgb' = toBgb
        /\ answers' = answers /\ askedAt' = clock /\ conn = "up"
        /\ Len(answers) = Len(sent)
    BY <1>1 DEF Sends, SendMasterByte
  <1>6. /\ sent' \in Seq(Nat) /\ Len(sent') = Len(sent) + 1 /\ Len(sent) \in Nat
    BY <1>1, <1>2 DEF SyncInv, Packets
  <1>7. ~UnderWay /\ UnderWay' /\ NoSync1 /\ NoSync2 /\ host # "serial"
    <2>1. ~UnderWay /\ UnderWay'
      BY <1>5, <1>6 DEF UnderWay
    <2> QED BY <2>1 DEF SyncInv, OnePlace
  <1>8. Packets'
    BY <1>3, <1>5, <1>6 DEF SyncInv, Packets
  <1>9. \A n \in 1 .. top : toServer'[n].kind = "sync1" => n = top
    BY <1>3, <1>4, <1>7 DEF NoSync1
  <1>10. OnePlace'
    <2>1. host \notin {"boot", "accept"} /\ host # "ended"
      BY <1>5 DEF SyncInv, OnePlace
    <2>2. NoSync2'
      BY <1>5, <1>7 DEF NoSync2
    <2>3. Len(sent') = Len(answers') + 1
      BY <1>5, <1>6
    <2>4. \A m, n \in DOMAIN toServer' :
             toServer'[m].kind = "sync1" /\ toServer'[n].kind = "sync1" => m = n
      BY <1>3, <1>9
    <2> QED BY <1>5, <1>7, <2>1, <2>2, <2>3, <2>4 DEF OnePlace, NoSync2
  <1>11. Timely'
    <2> SUFFICES ASSUME ~wrapped'
                 PROVE  /\ last <= clock + 1
                        /\ \A n \in DOMAIN toServer' :
                              /\ last <= toServer'[n].time /\ toServer'[n].time <= clock + 1
                              /\ toServer'[n].kind = "sync1" => toServer'[n].time = clock
                              /\ \A m \in DOMAIN toServer' :
                                    m <= n => toServer'[m].time <= toServer'[n].time
      BY <1>3, <1>5, <1>7 DEF Timely
    <2>1. /\ last <= clock /\ last \in Nat
          /\ \A n \in 1 .. Len(toServer) :
                /\ last <= toServer[n].time /\ toServer[n].time <= clock
                /\ toServer[n].time \in Nat
                /\ \A m \in 1 .. Len(toServer) : m <= n => toServer[m].time <= toServer[n].time
      <3>1. last \in Nat /\ \A n \in 1 .. Len(toServer) : toServer[n].time \in Nat
        BY <1>3, TimesAreNumbers DEF SyncInv, Packets, Requests
      <3>2. ~wrapped
        BY <1>3
      <3> QED BY <1>3, <3>1, <3>2 DEF SyncInv, Timely
    <2>2. ASSUME NEW n \in 1 .. top
          PROVE  /\ last <= toServer'[n].time /\ toServer'[n].time <= clock
                 /\ toServer'[n].kind = "sync1" => toServer'[n].time = clock
                 /\ toServer'[n].time \in Nat
      <3>1. CASE n = top
        BY <3>1, <1>3, <2>1
      <3>2. CASE n # top
        BY <3>2, <1>3, <1>4, <1>9, <2>1
      <3> QED BY <3>1, <3>2
    <2>3. ASSUME NEW n \in 1 .. top, NEW m \in 1 .. top, m <= n
          PROVE  toServer'[m].time <= toServer'[n].time
      <3>1. CASE n = top
        BY <1>3, <2>2, <3>1
      <3>2. CASE n # top
        <4>1. n \in 1 .. Len(toServer) /\ m \in 1 .. Len(toServer)
          BY <1>3, <2>3, <3>2
        <4> QED BY <1>3, <2>1, <2>3, <4>1
      <3> QED BY <3>1, <3>2
    <2>4. \A t \in Nat : t <= clock => t <= clock + 1
      BY <1>3
    <2> QED BY <1>3, <2>1, <2>2, <2>3, <2>4
  <1>12. InSync'
    BY <1>5, <1>7 DEF InSync, NoSync2
  <1> QED BY <1>3, <1>8, <1>10, <1>11, <1>12 DEF SyncInv

LEMMA ReceiveSync ==
    ASSUME SyncInv, Receive
    PROVE  SyncInv'
  <1>1. /\ toBgb \in Seq(Replies) /\ toBgb # <<>> /\ toBgb' = Tail(toBgb)
        /\ host' = host /\ conn' = conn /\ last' = last /\ toServer' = toServer
        /\ clock' = clock /\ wrapped' = wrapped /\ packets' = packets
        /\ sent' = sent /\ askedAt' = askedAt
    BY DEF SyncInv, Packets, Receive
  <1>2. Bytes'
    BY DEF SyncInv, Bytes, Receive, adapterVars, pins, gameBoy
  <1> DEFINE s == toBgb
  <1>3. /\ toBgb' \in Seq(Replies) /\ Len(s) \in Nat \ {0}
        /\ DOMAIN s = 1 .. Len(s) /\ DOMAIN toBgb' = 1 .. Len(s) - 1
        /\ Head(s) = s[1] /\ s[1] \in Replies /\ 1 \in 1 .. Len(s)
        /\ \A n \in 1 .. Len(s) - 1 : toBgb'[n] = s[n + 1] /\ n + 1 \in 1 .. Len(s)
    BY <1>1, Rest
  <1>4. InSync'
    BY <1>1, <1>3 DEF SyncInv, InSync
  <1>5. Timely'
    BY <1>1 DEF SyncInv, Timely
  <1>6. CASE s[1].kind = "sync2"
    <2>1. ~NoSync2
      BY <1>3, <1>6 DEF NoSync2
    <2>2. UnderWay /\ host # "serial" /\ NoSync1 /\ host \notin {"boot", "accept"}
      BY <1>1, <2>1 DEF SyncInv, OnePlace
    <2>3. s[1].data \in Nat
      BY <1>3 DEF Replies
    <2>4. answers' = Append(answers, s[1].data) /\ answers \in Seq(Nat) /\ sent \in Seq(Nat)
      BY <1>3, <1>6 DEF Receive, SyncInv, Packets
    <2>5. answers' \in Seq(Nat) /\ Len(answers') = Len(answers) + 1 /\ Len(answers) \in Nat
          /\ Len(sent) \in Nat
      BY <2>3, <2>4
    <2>6. \A n \in 1 .. Len(s) - 1 : toBgb'[n].kind # "sync2"
      <3>1. \A n \in 1 .. Len(s) - 1 : n + 1 # 1
        BY <1>3
      <3> QED BY <1>3, <1>6, <3>1 DEF SyncInv, OnePlace
    <2>7. NoSync2' /\ NoSync1'
      BY <1>1, <1>3, <2>2, <2>6 DEF NoSync1, NoSync2
    <2>8. Len(sent') = Len(answers')
      BY <1>1, <2>2, <2>5 DEF UnderWay
    <2>9. OnePlace'
      BY <1>1, <2>2, <2>7, <2>8 DEF SyncInv, OnePlace, NoSync1, NoSync2
    <2>10. Packets'
      BY <1>1, <1>3, <2>5 DEF SyncInv, Packets
    <2> QED BY <1>2, <1>4, <1>5, <2>9, <2>10 DEF SyncInv
  <1>7. CASE s[1].kind # "sync2"
    <2>1. answers' = answers
      BY <1>3, <1>7 DEF Receive
    <2>2. \A n \in DOMAIN toBgb' : n + 1 \in DOMAIN toBgb /\ toBgb'[n] = toBgb[n + 1]
      BY <1>3
    <2>3. NoSync2 => NoSync2'
      BY <2>2 DEF NoSync2
    <2>4. \A m, n \in DOMAIN toBgb' : toBgb'[m].kind = "sync2" /\ toBgb'[n].kind = "sync2" => m = n
      <3>1. \A m, n \in 1 .. Len(s) - 1 : m + 1 = n + 1 => m = n
        OBVIOUS
      <3> QED BY <1>3, <2>2, <3>1 DEF SyncInv, OnePlace
    <2>5. host \notin {"boot", "accept"}
      BY <1>1 DEF SyncInv, OnePlace
    <2>6. OnePlace'
      BY <1>1, <2>1, <2>3, <2>4, <2>5 DEF SyncInv, OnePlace, NoSync1, UnderWay
    <2>7. Packets'
      BY <1>1, <1>3, <2>1 DEF SyncInv, Packets
    <2> QED BY <1>2, <1>4, <1>5, <2>6, <2>7 DEF SyncInv
  <1> QED BY <1>6, <1>7

\* Of the steps that leave the packets where they are.
LEMMA StillSync ==
    ASSUME SyncInv, Bytes', conn' \in {"none", "up", "closed"},
           host' \in {"boot", "accept", "recv", "serial", "ended"},
           host' = "serial" => host = "serial",
           host' \in {"boot", "accept"} => host \in {"boot", "accept"} /\ conn' = conn,
           host' = "ended" => conn' = "closed",
           UNCHANGED <<last, toServer, toBgb, bgbVars>>
    PROVE  SyncInv'
  <1>1. /\ last' = last /\ toServer' = toServer /\ toBgb' = toBgb
        /\ clock' = clock /\ wrapped' = wrapped /\ packets' = packets
        /\ sent' = sent /\ askedAt' = askedAt /\ answers' = answers
    BY DEF bgbVars
  <1>2. Packets'
    BY <1>1 DEF SyncInv, Packets
  <1>3. OnePlace'
    BY <1>1 DEF SyncInv, OnePlace, NoSync1, NoSync2, UnderWay
  <1>4. Timely' /\ InSync'
    BY <1>1 DEF SyncInv, Timely, InSync
  <1> QED BY <1>2, <1>3, <1>4 DEF SyncInv

LEMMA HangupSync ==
    ASSUME SyncInv, Hangup
    PROVE  SyncInv'
  <1>1. Bytes'
    BY DEF SyncInv, Bytes, Hangup, adapterVars, pins, gameBoy
  <1>2. host' = host /\ conn' = "closed" /\ host \notin {"boot", "accept"}
    BY DEF Hangup, SyncInv, OnePlace
  <1>3. host \in {"boot", "accept", "recv", "serial", "ended"}
    BY DEF SyncInv, Packets
  <1> QED BY <1>1, <1>2, <1>3, StillSync DEF Hangup

LEMMA OpenSerialSync ==
    ASSUME SyncInv, OpenSerial
    PROVE  SyncInv'
  <1>1. Bytes'
    <2>1. toHost' \in Seq(Nat)
      <3>1. toHost \in Seq(Nat) /\ toHost # <<>> /\ toHost' = Tail(toHost)
        BY DEF OpenSerial, BootByte, SyncInv, Bytes
      <3> QED BY <3>1
    <2> QED BY <2>1 DEF SyncInv, Bytes, OpenSerial, pins, gameBoy
  <1>2. host = "boot" /\ host' = "accept" /\ conn' = conn /\ conn \in {"none", "up", "closed"}
    BY DEF OpenSerial, SyncInv, Packets
  <1> QED BY <1>1, <1>2, StillSync DEF OpenSerial

LEMMA AcceptSync ==
    ASSUME SyncInv, Accept
    PROVE  SyncInv'
  <1>1. /\ last' = last /\ toServer' = toServer /\ clock' = clock /\ wrapped' = wrapped
        /\ packets' = packets /\ sent' = sent /\ askedAt' = askedAt /\ answers' = answers
        /\ host = "accept" /\ host' = "recv" /\ conn' = "up"
        /\ toBgb' = <<Packet("version", 0, last)>>
    BY DEF Accept, bgbVars
  <1>2. Bytes'
    BY DEF SyncInv, Bytes, Accept, adapterVars, pins, gameBoy
  <1>3. toServer = <<>> /\ sent = <<>>
    BY <1>1 DEF SyncInv, OnePlace
  <1>4. Packet("version", 0, last) \in Replies /\ Packet("version", 0, last).kind = "version"
    BY DEF SyncInv, Packets, Replies, Packet
  <1>5. toBgb' \in Seq(Replies) /\ DOMAIN toBgb' = {1} /\ toBgb'[1].kind = "version"
    BY <1>1, <1>4
  <1>6. Packets'
    BY <1>1, <1>5 DEF SyncInv, Packets
  <1>7. NoSync1' /\ NoSync2'
    BY <1>1, <1>3, <1>5 DEF NoSync1, NoSync2
  <1>8. OnePlace'
    BY <1>1, <1>7 DEF SyncInv, OnePlace, NoSync1, NoSync2
  <1>9. Timely'
    BY <1>1 DEF SyncInv, Timely
  <1>10. InSync'
    BY <1>7 DEF InSync, NoSync2
  <1> QED BY <1>2, <1>6, <1>8, <1>9, <1>10 DEF SyncInv

\* A reply of some kind: it is not sent when BGB has gone.
LEMMA Replied ==
    ASSUME SyncInv, NEW kind \in {"status", "sync3", "sync2"}, NEW data \in Nat,
           NEW time \in Times, Reply(kind, data, time)
    PROVE  /\ toBgb' \in Seq(Replies)
           /\ DOMAIN toBgb \subseteq DOMAIN toBgb'
           /\ \A n \in DOMAIN toBgb' :
                 \/ n \in DOMAIN toBgb /\ toBgb'[n] = toBgb[n]
                 \/ /\ n = Len(toBgb) + 1 /\ n \notin DOMAIN toBgb
                    /\ toBgb'[n] = Packet(kind, data, time)
  <1> DEFINE p == Packet(kind, data, time)
  <1>1. p \in Replies /\ toBgb \in Seq(Replies)
    BY DEF SyncInv, Packets, Replies, Packet
  <1>2. toBgb' = IF conn = "up" THEN Append(toBgb, p) ELSE toBgb
    BY DEF Reply
  <1> HIDE DEF p
  <1> DEFINE s == toBgb
  <1> HIDE DEF s
  <1>3. /\ Append(s, p) \in Seq(Replies) /\ Len(s) \in Nat
        /\ DOMAIN s = 1 .. Len(s) /\ DOMAIN Append(s, p) = 1 .. Len(s) + 1
        /\ \A n \in 1 .. Len(s) : Append(s, p)[n] = s[n]
        /\ Append(s, p)[Len(s) + 1] = p
    BY <1>1, Appended DEF s
  <1>4. \A n \in 1 .. Len(s) + 1 : n \in 1 .. Len(s) \/ (n = Len(s) + 1 /\ n \notin 1 .. Len(s))
    BY <1>3
  <1>5. CASE conn = "up"
    BY <1>2, <1>3, <1>4, <1>5 DEF s, p
  <1>6. CASE conn # "up"
    BY <1>1, <1>2, <1>6
  <1> QED BY <1>5, <1>6

\* What the loop takes is the first packet, and the newest so far.
LEMMA Taken ==
    ASSUME SyncInv, Recv
    PROVE  LET p == toServer[1]
           IN  /\ p \in Requests /\ 1 \in DOMAIN toServer /\ Head(toServer) = p
               /\ toServer' \in Seq(Requests) /\ last' \in Times
               /\ \A n \in DOMAIN toServer' : /\ n + 1 \in DOMAIN toServer /\ n + 1 # 1
                                              /\ toServer'[n] = toServer[n + 1]
               /\ DOMAIN toServer' \subseteq Int
               /\ ~wrapped => last' = p.time
               /\ clock' = clock /\ wrapped' = wrapped /\ packets' = packets
               /\ sent' = sent /\ askedAt' = askedAt /\ answers' = answers
               /\ host = "recv"
  <1>1. /\ toServer \in Seq(Requests) /\ toServer # <<>> /\ toServer' = Tail(toServer)
        /\ last' = Stamp(Head(toServer).time) /\ host = "recv"
        /\ clock' = clock /\ wrapped' = wrapped /\ packets' = packets
        /\ sent' = sent /\ askedAt' = askedAt /\ answers' = answers
    BY DEF SyncInv, Packets, Recv, bgbVars
  <1> DEFINE s == toServer
             p == s[1]
  <1>2. /\ toServer' \in Seq(Requests) /\ Len(s) \in Nat \ {0}
        /\ DOMAIN s = 1 .. Len(s) /\ DOMAIN toServer' = 1 .. Len(s) - 1
        /\ Head(s) = p /\ p \in Requests /\ 1 \in 1 .. Len(s)
        /\ \A n \in 1 .. Len(s) - 1 : toServer'[n] = s[n + 1] /\ n + 1 \in 1 .. Len(s)
    BY <1>1, Rest
  <1>3. \A n \in 1 .. Len(s) - 1 : n + 1 # 1
    BY <1>2
  <1>4. p.time \in Times /\ last \in Times
    BY <1>2 DEF Requests, SyncInv, Packets
  <1>5. last' \in Times
    BY <1>1, <1>2, <1>4 DEF Stamp
  <1>6. ~wrapped => last' = p.time
    <2> SUFFICES ASSUME ~wrapped PROVE last' = p.time
      OBVIOUS
    <2>1. last <= p.time
      BY <1>2 DEF SyncInv, Timely
    <2>2. last \in Nat /\ p.time \in Nat
      BY <1>4, TimesAreNumbers
    <2>3. last' = IF p.time > last THEN p.time ELSE last
      BY <1>1, <1>2 DEF Stamp
    <2> HIDE DEF p
    <2> QED BY <2>1, <2>2, <2>3
  <1> QED BY <1>1, <1>2, <1>3, <1>5, <1>6

LEMMA RecvTimely ==
    ASSUME SyncInv, Recv, host' = "serial" => toServer[1].kind = "sync1"
    PROVE  Timely'
  <1> DEFINE p == toServer[1]
  <1>1. /\ 1 \in DOMAIN toServer /\ p \in Requests
        /\ \A n \in DOMAIN toServer' : /\ n + 1 \in DOMAIN toServer
                                       /\ toServer'[n] = toServer[n + 1]
        /\ DOMAIN toServer' \subseteq Int
        /\ ~wrapped => last' = p.time
        /\ clock' = clock /\ wrapped' = wrapped /\ askedAt' = askedAt
    BY Taken
  <1>2. \A n \in DOMAIN toServer' : 1 <= n + 1
    <2>1. toServer' \in Seq(Requests)
      BY Taken
    <2> QED BY <2>1
  <1> SUFFICES ASSUME ~wrapped
               PROVE  /\ p.time <= clock
                      /\ \A n \in DOMAIN toServer' :
                            /\ p.time <= toServer'[n].time /\ toServer'[n].time <= clock
                            /\ toServer'[n].kind = "sync1" => toServer'[n].time = askedAt
                            /\ \A m \in DOMAIN toServer' :
                                  m <= n => toServer'[m].time <= toServer'[n].time
                      /\ host' = "serial" => p.time = askedAt
    BY <1>1 DEF Timely
  <1>3. \A n \in DOMAIN toServer :
           /\ toServer[n].time <= clock
           /\ toServer[n].kind = "sync1" => toServer[n].time = askedAt
           /\ \A m \in DOMAIN toServer : m <= n => toServer[m].time <= toServer[n].time
    BY DEF SyncInv, Timely
  <1>4. \A n, m \in DOMAIN toServer' : m <= n => m + 1 <= n + 1
    BY <1>1
  <1> QED BY <1>1, <1>2, <1>3, <1>4

LEMMA RecvSync ==
    ASSUME SyncInv, Recv
    PROVE  SyncInv'
  <1> DEFINE p == toServer[1]
  <1>1. /\ p \in Requests /\ 1 \in DOMAIN toServer /\ Head(toServer) = p
        /\ toServer' \in Seq(Requests) /\ last' \in Times
        /\ \A n \in DOMAIN toServer' : /\ n + 1 \in DOMAIN toServer /\ n + 1 # 1
                                       /\ toServer'[n] = toServer[n + 1]
        /\ DOMAIN toServer' \subseteq Int
        /\ ~wrapped => last' = p.time
        /\ clock' = clock /\ wrapped' = wrapped /\ packets' = packets
        /\ sent' = sent /\ askedAt' = askedAt /\ answers' = answers
        /\ host = "recv"
    BY Taken
  <1>2. NoSync1 => NoSync1'
    BY <1>1 DEF NoSync1
  <1>3. \A m, n \in DOMAIN toServer' :
           toServer'[m].kind = "sync1" /\ toServer'[n].kind = "sync1" => m = n
    <2>1. \A m, n \in DOMAIN toServer' : m + 1 = n + 1 => m = n
      BY <1>1
    <2> QED BY <1>1, <2>1 DEF SyncInv, OnePlace
  <1>4. CASE AnswerPacket
    <2>1. PICK kind \in {"status", "sync3", "other"} :
             /\ p.kind = kind
             /\ IF kind = "other" THEN UNCHANGED toBgb ELSE Reply(kind, 0, last')
      BY <1>1, <1>4 DEF AnswerPacket
    <2>2. host' = host /\ conn' = conn
      BY <1>4 DEF AnswerPacket
    <2>3. /\ toBgb' \in Seq(Replies)
          /\ \A n \in DOMAIN toBgb' : \/ n \in DOMAIN toBgb /\ toBgb'[n] = toBgb[n]
                                      \/ toBgb'[n].kind # "sync2"
      <3>1. CASE kind = "other"
        BY <2>1, <3>1 DEF SyncInv, Packets
      <3>2. CASE kind # "other"
        <4>1. kind \in {"status", "sync3", "sync2"} /\ kind # "sync2" /\ 0 \in Nat
              /\ Reply(kind, 0, last')
          BY <2>1, <3>2
        <4>2. Packet(kind, 0, last').kind # "sync2"
          BY <4>1 DEF Packet
        <4> QED BY <1>1, <4>1, <4>2, Replied
      <3> QED BY <3>1, <3>2
    <2>4. NoSync2 => NoSync2'
      BY <2>3 DEF NoSync2
    <2>5. Bytes'
      BY <1>4 DEF SyncInv, Bytes, Recv, AnswerPacket, pins, gameBoy
    <2>6. Packets'
      BY <1>1, <2>2, <2>3 DEF SyncInv, Packets
    <2>7. OnePlace'
      <3>1. Len(sent') \in {Len(answers'), Len(answers') + 1} /\ (UnderWay => UnderWay')
        BY <1>1 DEF SyncInv, OnePlace, UnderWay
      <3>2. \A m, n \in DOMAIN toBgb' :
               toBgb'[m].kind = "sync2" /\ toBgb'[n].kind = "sync2" => m = n
        BY <2>3 DEF SyncInv, OnePlace
      <3>3. (NoSync1 \/ (UnderWay /\ NoSync2)) /\ (NoSync2 \/ UnderWay)
        BY DEF SyncInv, OnePlace
      <3> QED BY <1>1, <1>2, <1>3, <2>2, <2>4, <3>1, <3>2, <3>3 DEF OnePlace
    <2>8. Timely'
      BY <1>1, <2>2, RecvTimely
    <2>9. InSync'
      BY <1>1, <2>3 DEF SyncInv, InSync
    <2> QED BY <2>5, <2>6, <2>7, <2>8, <2>9 DEF SyncInv
  <1>5. CASE StartTransfer
    <2>1. /\ p.kind = "sync1" /\ toAdapter' = Append(toAdapter, p.data)
          /\ host' = "serial" /\ conn' = conn /\ toBgb' = toBgb
      BY <1>1, <1>5 DEF StartTransfer
    <2>2. p.data \in Nat
      BY <1>1 DEF Requests
    <2>3. Bytes'
      <3>1. toAdapter' \in Seq(Nat)
        BY <2>1, <2>2 DEF SyncInv, Bytes
      <3> QED BY <3>1 DEF SyncInv, Bytes, Recv, pins, gameBoy
    <2>4. Packets'
      BY <1>1, <2>1 DEF SyncInv, Packets
    <2>5. NoSync1'
      BY <1>1, <2>1 DEF NoSync1, SyncInv, OnePlace
    <2>6. UnderWay /\ NoSync2
      BY <1>1, <2>1 DEF NoSync1, SyncInv, OnePlace
    <2>7. UnderWay' /\ NoSync2'
      BY <1>1, <2>1, <2>6 DEF UnderWay, NoSync2
    <2>8. OnePlace'
      <3>1. Len(sent') \in {Len(answers'), Len(answers') + 1}
        BY <1>1 DEF SyncInv, OnePlace
      <3>2. \A m, n \in DOMAIN toBgb' :
               toBgb'[m].kind = "sync2" /\ toBgb'[n].kind = "sync2" => m = n
        BY <2>1 DEF SyncInv, OnePlace
      <3> QED BY <1>3, <2>1, <2>5, <2>7, <3>1, <3>2 DEF OnePlace
    <2>9. Timely'
      BY <2>1, RecvTimely
    <2>10. InSync'
      BY <1>1, <2>1 DEF SyncInv, InSync
    <2> QED BY <2>3, <2>4, <2>8, <2>9, <2>10 DEF SyncInv
  <1>6. CASE Head(toServer).kind = "bad" /\ GiveUp
    <2>1. host' = "ended" /\ conn' = "closed" /\ toBgb' = toBgb
      BY <1>6 DEF GiveUp
    <2>2. Bytes'
      BY <1>6 DEF SyncInv, Bytes, Recv, GiveUp, pins, gameBoy
    <2>3. Packets'
      BY <1>1, <2>1 DEF SyncInv, Packets
    <2>4. OnePlace'
      <3>1. Len(sent') \in {Len(answers'), Len(answers') + 1} /\ (UnderWay => UnderWay')
        BY <1>1 DEF SyncInv, OnePlace, UnderWay
      <3>2. /\ \A m, n \in DOMAIN toBgb' :
                 toBgb'[m].kind = "sync2" /\ toBgb'[n].kind = "sync2" => m = n
            /\ NoSync2 => NoSync2'
        BY <2>1 DEF SyncInv, OnePlace, NoSync2
      <3>3. (NoSync1 \/ (UnderWay /\ NoSync2)) /\ (NoSync2 \/ UnderWay)
        BY DEF SyncInv, OnePlace
      <3> QED BY <1>2, <1>3, <2>1, <3>1, <3>2, <3>3 DEF OnePlace
    <2>5. Timely'
      BY <2>1, RecvTimely
    <2>6. InSync'
      BY <1>1, <2>1 DEF SyncInv, InSync
    <2> QED BY <2>2, <2>3, <2>4, <2>5, <2>6 DEF SyncInv
  <1> QED BY <1>4, <1>5, <1>6 DEF Recv

\* The answer is sent: it is from the moment that BGB asked.
LEMMA EndTransferSync ==
    ASSUME SyncInv, EndTransfer
    PROVE  SyncInv'
  <1>1. /\ last' = last /\ toServer' = toServer /\ clock' = clock /\ wrapped' = wrapped
        /\ packets' = packets /\ sent' = sent /\ askedAt' = askedAt /\ answers' = answers
        /\ host = "serial" /\ host' = "recv" /\ conn' = conn
    BY DEF EndTransfer, bgbVars
  <1>2. toHost \in Seq(Nat) /\ toHost # <<>> /\ toHost' = Tail(toHost)
    BY DEF SyncInv, Bytes, EndTransfer
  <1>3. Head(toHost) \in Nat /\ toHost' \in Seq(Nat)
    BY <1>2
  <1>4. Bytes'
    BY <1>3 DEF SyncInv, Bytes, EndTransfer, pins, gameBoy
  <1>5. UnderWay /\ NoSync1 /\ NoSync2
    BY <1>1 DEF SyncInv, OnePlace
  <1> DEFINE byte == Head(toHost)
  <1>6. Reply("sync2", byte, last) /\ last \in Times
    BY DEF EndTransfer, Answer, SyncInv, Packets
  <1> HIDE DEF byte
  <1>7. /\ toBgb' \in Seq(Replies)
        /\ \A n \in DOMAIN toBgb' :
              \/ n \in DOMAIN toBgb /\ toBgb'[n] = toBgb[n]
              \/ n = Len(toBgb) + 1 /\ toBgb'[n] = Packet("sync2", byte, last)
    BY <1>3, <1>6, Replied DEF byte
  <1>8. \A n \in DOMAIN toBgb' :
           toBgb'[n].kind = "sync2" => n = Len(toBgb) + 1 /\ toBgb'[n].time = last
    <2>1. Packet("sync2", byte, last).time = last
      BY DEF Packet
    <2> QED BY <1>5, <1>7, <2>1 DEF NoSync2
  <1>9. Packets'
    BY <1>1, <1>7 DEF SyncInv, Packets
  <1>10. OnePlace'
    <2>1. Len(sent') \in {Len(answers'), Len(answers') + 1} /\ UnderWay' /\ NoSync1'
      BY <1>1, <1>5 DEF SyncInv, OnePlace, UnderWay, NoSync1
    <2>2. \A m, n \in DOMAIN toBgb' :
             toBgb'[m].kind = "sync2" /\ toBgb'[n].kind = "sync2" => m = n
      BY <1>8
    <2>3. \A m, n \in DOMAIN toServer' :
             toServer'[m].kind = "sync1" /\ toServer'[n].kind = "sync1" => m = n
      BY <2>1 DEF NoSync1
    <2> QED BY <1>1, <2>1, <2>2, <2>3 DEF OnePlace
  <1>11. Timely'
    BY <1>1 DEF SyncInv, Timely
  <1>12. InSync'
    BY <1>1, <1>8 DEF SyncInv, Timely, InSync
  <1> QED BY <1>4, <1>9, <1>10, <1>11, <1>12 DEF SyncInv

LEMMA RecvEndsSync ==
    ASSUME SyncInv, RecvEnds
    PROVE  SyncInv'
  <1>1. Bytes'
    BY DEF SyncInv, Bytes, RecvEnds, adapterVars, pins, gameBoy
  <1>2. host = "recv" /\ host' = "ended" /\ conn' = "closed"
    BY DEF RecvEnds, NoMoreData
  <1> QED BY <1>1, <1>2, StillSync DEF RecvEnds

LEMMA SerialFailsSync ==
    ASSUME SyncInv, SerialFails
    PROVE  SyncInv'
  <1>1. Bytes'
    BY DEF SyncInv, Bytes, SerialFails, GiveUp, pins, gameBoy
  <1>2. host' = "ended" /\ conn' = "closed"
    BY DEF SerialFails, GiveUp
  <1> QED BY <1>1, <1>2, StillSync DEF SerialFails, GiveUp

\* The shift registers hold numbers.
LEMMA Registers ==
    ASSUME NEW byte \in Nat, NEW bit \in Nat
    PROVE  ShiftLeft(byte, bit) \in Nat /\ TopBit(byte) \in Nat
  <1> DEFINE w == Weight[Bits]
             h == Weight[Bits - 1]
  <1>1. w \in Nat \ {0} /\ h \in Nat \ {0}
    <2>1. Bits \in 0 .. Bits /\ Bits - 1 \in 0 .. Bits
      BY BitsAssumption
    <2> QED BY <2>1, WeightGrows
  <1> HIDE DEF w, h
  <1>2. (2 * byte) % w \in Nat /\ byte \div h \in Nat
    BY <1>1
  <1>3. ((2 * byte) % w) + bit \in Nat
    BY <1>2
  <1> QED BY <1>2, <1>3 DEF ShiftLeft, TopBit, w, h

LEMMA ValuesAreBytes == Values \subseteq Byte /\ Byte \subseteq Nat
  BY BitsAssumption, WeightGrows DEF Byte

LEMMA AdapterBytes ==
    ASSUME Bytes, AdapterStep
    PROVE  Bytes'
  <1>1. CASE Setup
    BY <1>1 DEF Setup, Goto, Bytes, pins, gameBoy
  <1>2. CASE TakeByte
    <2>1. Head(toAdapter) \in Nat /\ Tail(toAdapter) \in Seq(Nat)
      BY <1>2 DEF TakeByte, Bytes
    <2> QED BY <1>2, <2>1 DEF TakeByte, Goto, Bytes, gameBoy
  <1>3. CASE ClockLow
    <2>1. TopBit(tx) \in Nat /\ TopBit(sb) \in Nat /\ ShiftLeft(tx, 0) \in Nat
      BY Registers DEF Bytes
    <2> QED BY <1>3, <2>1 DEF ClockLow, Goto, Bytes, gameBoy
  <1>4. CASE ClockHigh
    <2>1. ShiftLeft(rx, si) \in Nat /\ ShiftLeft(sb, so) \in Nat /\ i + 1 \in Nat
      <3>1. rx \in Nat /\ si \in Nat /\ sb \in Nat /\ so \in Nat /\ i \in Nat
        BY DEF Bytes
      <3>2. i + 1 \in Nat
        BY <3>1
      <3> QED BY <3>1, <3>2, Registers
    <2>2. rx' \in Nat /\ i' \in Nat /\ adapter' \in {"reply", "low"}
          /\ toAdapter' = toAdapter /\ toHost' = toHost /\ tx' = tx /\ so' = so /\ si' = si
          /\ resets' = resets
      BY <1>4, <2>1 DEF ClockHigh, Goto
    <2>3. sb' \in Nat /\ shifted' \in Nat /\ got' \in Seq(Nat) /\ given' = given
      <3>1. CASE Ready
        <4>1. sb' = ShiftLeft(sb, so) /\ shifted' = (shifted + 1) % Bits /\ given' = given
              /\ got' = IF shifted' = 0 THEN Append(got, sb') ELSE got
          BY <1>4, <3>1 DEF ClockHigh, GameBoyShifts
        <4>2. shifted' \in Nat
          <5>1. shifted + 1 \in Nat /\ Bits \in Nat \ {0}
            BY BitsAssumption DEF Bytes
          <5> QED BY <4>1, <5>1
        <4>3. got \in Seq(Nat)
          BY DEF Bytes
        <4> QED BY <2>1, <4>1, <4>2, <4>3
      <3>2. CASE ~Ready
        BY <1>4, <3>2 DEF ClockHigh, GameBoyShifts, gameBoy, Bytes
      <3> QED BY <3>1, <3>2
    <2> QED BY <2>2, <2>3 DEF Bytes
  <1>5. CASE GiveBack
    <2>1. Append(toHost, rx) \in Seq(Nat)
      BY DEF Bytes
    <2> QED BY <1>5, <2>1 DEF GiveBack, Goto, Bytes, pins, gameBoy
  <1>6. CASE Delay
    BY <1>6 DEF Delay, Goto, Bytes, pins, gameBoy
  <1>7. CASE GameBoyLoads
    <2>1. sb' \in Nat
      BY <1>7, ValuesAreBytes DEF GameBoyLoads
    <2>2. given' \in Seq(Nat)
      BY <1>7, <2>1 DEF GameBoyLoads, Bytes
    <2> QED BY <1>7, <2>1, <2>2 DEF GameBoyLoads, Bytes, pins
  <1> QED BY <1>1, <1>2, <1>3, <1>4, <1>5, <1>6, <1>7 DEF AdapterStep

LEMMA AdapterSync ==
    ASSUME SyncInv, AdapterStep \/ AdapterResets, UNCHANGED serverVars
    PROVE  SyncInv'
  <1>1. Bytes'
    <2>1. CASE AdapterResets
      BY <2>1 DEF SyncInv, Bytes, AdapterResets, gameBoy
    <2> QED BY <2>1, AdapterBytes DEF SyncInv
  <1>2. /\ host' = host /\ conn' = conn /\ UNCHANGED <<last, toServer, toBgb, bgbVars>>
        /\ conn \in {"none", "up", "closed"}
        /\ host \in {"boot", "accept", "recv", "serial", "ended"}
        /\ host = "ended" => conn = "closed"
    BY DEF serverVars, SyncInv, Packets, OnePlace
  <1> QED BY <1>1, <1>2, StillSync

LEMMA InitSync == Init => SyncInv
  <1> SUFFICES ASSUME Init PROVE SyncInv
    OBVIOUS
  <1>1. Bytes
    <2>1. sb \in Nat
      BY ValuesAreBytes DEF Init, AdapterInit
    <2>2. given \in Seq(Nat)
      BY <2>1 DEF Init, AdapterInit
    <2> QED BY <2>1, <2>2 DEF Init, AdapterInit, Bytes
  <1>2. clock \in Times /\ 0 \in Times /\ 0 <= clock
    BY ClockAssumption DEF Init, Times
  <1>3. Packets
    <2>1. /\ host = "boot" /\ conn = "none" /\ last \in Times /\ clock \in Times
          /\ askedAt \in Times /\ wrapped \in BOOLEAN /\ packets \in Nat
      BY <1>2 DEF Init
    <2>2. /\ toServer \in Seq(Requests) /\ toBgb \in Seq(Replies)
          /\ sent \in Seq(Nat) /\ answers \in Seq(Nat)
      BY DEF Init
    <2> QED BY <2>1, <2>2 DEF Packets
  <1>4. OnePlace
    BY DEF Init, OnePlace, NoSync1, NoSync2
  <1>5. Timely
    BY <1>2 DEF Init, Timely
  <1>6. InSync
    BY DEF Init, InSync
  <1> QED BY <1>1, <1>3, <1>4, <1>5, <1>6 DEF SyncInv

LEMMA NextSync == SyncInv /\ [Next]_vars => SyncInv'
  <1> SUFFICES ASSUME SyncInv, [Next]_vars PROVE SyncInv'
    OBVIOUS
  <1>1. CASE SendPlain
    BY <1>1, SendPlainSync DEF SendPlain
  <1>2. CASE SendMasterByte
    BY <1>2, SendMasterByteSync
  <1>3. CASE Receive
    BY <1>3, ReceiveSync
  <1>4. CASE Hangup
    BY <1>4, HangupSync
  <1>5. CASE Server
    BY <1>5, OpenSerialSync, AcceptSync, RecvSync, EndTransferSync, RecvEndsSync DEF Server
  <1>6. CASE SerialFails
    BY <1>6, SerialFailsSync
  <1>7. CASE Adapter \/ (AdapterResets /\ UNCHANGED serverVars)
    BY <1>7, AdapterSync DEF Adapter
  <1>8. CASE UNCHANGED vars
    <2>1. Bytes'
      BY <1>8 DEF vars, adapterVars, pins, gameBoy, SyncInv, Bytes
    <2>2. /\ host' = host /\ conn' = conn /\ UNCHANGED <<last, toServer, toBgb, bgbVars>>
          /\ conn \in {"none", "up", "closed"}
          /\ host \in {"boot", "accept", "recv", "serial", "ended"}
          /\ host = "ended" => conn = "closed"
      BY <1>8 DEF vars, serverVars, SyncInv, Packets, OnePlace
    <2> QED BY <2>1, <2>2, StillSync
  <1> QED BY <1>1, <1>2, <1>3, <1>4, <1>5, <1>6, <1>7, <1>8 DEF Next

-----------------------------------------------------------------------------
(* The byte on its way, while no adapter is reset.                         *)

LEMMA Lengths ==
    ASSUME SyncInv
    PROVE  /\ Len(got) \in Nat /\ Len(given) \in Nat /\ Len(sent) \in Nat
           /\ Len(answers) \in Nat
           /\ DOMAIN toServer \subseteq Int /\ DOMAIN toBgb \subseteq Int
  BY DEF SyncInv, Bytes, Packets

\* What does not change on the adapter's side.
LEMMA StillAtAdapter ==
    ASSUME UNCHANGED adapterVars, sent' = sent, answers' = answers
    PROVE  /\ Loaded => Loaded'
           /\ Calm => Calm'
           /\ Asked => Asked'
           /\ Shifting => Shifting'
           /\ Answered => Answered'
           /\ Kept => Kept'
           /\ UnderWay => UnderWay'
           /\ toAdapter' = toAdapter /\ toHost' = toHost /\ adapter' = adapter
           /\ got' = got /\ given' = given
  <1>1. /\ toAdapter' = toAdapter /\ toHost' = toHost /\ adapter' = adapter
        /\ tx' = tx /\ rx' = rx /\ i' = i /\ so' = so /\ si' = si
        /\ sb' = sb /\ shifted' = shifted /\ given' = given /\ got' = got
    BY DEF adapterVars, pins, gameBoy
  <1>2. (Loaded => Loaded') /\ (Kept => Kept') /\ (UnderWay => UnderWay')
    BY <1>1 DEF Loaded, Ready, Kept, UnderWay
  <1>3. (Calm => Calm') /\ (Asked => Asked') /\ (Answered => Answered')
    BY <1>1 DEF Calm, Asked, Answered
  <1>4. ASSUME NEW x, NEW y
        PROVE  (Low(x, y) => Low(x, y)') /\ (High(x, y) => High(x, y)')
    BY <1>1 DEF Low, High, Parts
  <1>5. Shifting => Shifting'
    <2> SUFFICES ASSUME Shifting PROVE Shifting'
      OBVIOUS
    <2>1. PICK x \in Byte, y \in Byte :
            /\ x = sent[Len(sent)] /\ y = given[Len(given)]
            /\ IF adapter = "low" THEN Low(x, y) ELSE High(x, y)
      BY DEF Shifting
    <2>2. /\ x = sent'[Len(sent')] /\ y = given'[Len(given')]
          /\ IF adapter' = "low" THEN Low(x, y)' ELSE High(x, y)'
      BY <1>1, <1>4, <2>1
    <2> QED BY <1>1, <2>1, <2>2 DEF Shifting
  <1> QED BY <1>1, <1>2, <1>3, <1>5

\* Of the steps of the host and of BGB that leave the adapter alone and neither
\* ask nor answer.
LEMMA StillCable ==
    ASSUME CableInv, UNCHANGED adapterVars, sent' = sent, answers' = answers,
           \A n \in DOMAIN toServer' :
              toServer'[n].kind = "sync1" => \E m \in DOMAIN toServer : toServer[m] = toServer'[n],
           \A n \in DOMAIN toBgb' :
              toBgb'[n].kind = "sync2" => \E m \in DOMAIN toBgb : toBgb[m] = toBgb'[n],
           \/ host' = host
           \/ host' = "ended" /\ host \in {"recv", "serial"}
           \/ host' = "recv" /\ host = "accept"
    PROVE  CableInv'
  <1>1. /\ Loaded' /\ Kept' /\ got' = got /\ given' = given
        /\ toAdapter' = toAdapter /\ toHost' = toHost /\ adapter' = adapter
        /\ Calm => Calm'
        /\ Asked \/ Shifting \/ Answered => (Asked \/ Shifting \/ Answered)'
        /\ UnderWay => UnderWay'
    BY StillAtAdapter DEF CableInv
  <1>2. (NoSync1 => NoSync1') /\ (NoSync2 => NoSync2')
    BY DEF NoSync1, NoSync2
  <1>3. Busy => Busy'
    BY <1>1, <1>2 DEF Busy
  <1>4. Followed'
    <2>1. /\ Len(got') \in {Len(answers'), Len(answers') + 1} /\ Len(got') <= Len(sent')
          /\ ~NoSync1' => Len(got') = Len(answers')
      BY <1>1, <1>2 DEF CableInv, Followed
    <2>2. /\ \A n \in DOMAIN toServer' :
                toServer'[n].kind = "sync1" => toServer'[n].data = sent'[Len(sent')]
          /\ \A n \in DOMAIN toBgb' :
                toBgb'[n].kind = "sync2" => /\ Len(got') = Len(sent')
                                            /\ toBgb'[n].data = given'[Len(got')]
      <3>1. ASSUME NEW n \in DOMAIN toServer', toServer'[n].kind = "sync1"
            PROVE  toServer'[n].data = sent'[Len(sent')]
        BY <3>1 DEF CableInv, Followed
      <3>2. ASSUME NEW n \in DOMAIN toBgb', toBgb'[n].kind = "sync2"
            PROVE  Len(got') = Len(sent') /\ toBgb'[n].data = given'[Len(got')]
        BY <1>1, <3>2 DEF CableInv, Followed
      <3> QED BY <3>1, <3>2
    <2>3. /\ host' = "boot" => /\ toAdapter' = <<>>
                               /\ \/ adapter' = "setup" /\ toHost' = <<>>
                                  \/ adapter' = "loop" /\ toHost' = <<0>>
          /\ host' \in {"accept", "recv"} => Calm'
          /\ host' = "serial" => Busy'
          /\ host' = "ended" => Calm' \/ Busy'
      BY <1>1, <1>3 DEF CableInv, Followed
    <2> QED BY <2>1, <2>2, <2>3 DEF Followed
  <1> QED BY <1>1, <1>4 DEF CableInv

LEMMA SendPlainCable ==
    ASSUME SyncInv, CableInv, NEW kind \in Plain, Sends(kind, 0), UNCHANGED <<sent, askedAt>>
    PROVE  CableInv'
  <1>1. kind \in Plain \cup {"sync1"} /\ 0 \in Nat /\ kind # "sync1"
    BY DEF Plain
  <1>2. /\ DOMAIN toServer' = 1 .. Len(toServer) + 1 /\ DOMAIN toServer = 1 .. Len(toServer)
        /\ Len(toServer) \in Nat
        /\ \A n \in 1 .. Len(toServer) : toServer'[n] = toServer[n]
        /\ toServer'[Len(toServer) + 1].kind = kind
    BY <1>1, SendsTypes
  <1>3. \A n \in 1 .. Len(toServer) + 1 : n = Len(toServer) + 1 \/ n \in 1 .. Len(toServer)
    BY <1>2
  <1>4. \A n \in DOMAIN toServer' :
           toServer'[n].kind = "sync1" => \E m \in DOMAIN toServer : toServer[m] = toServer'[n]
    BY <1>1, <1>2, <1>3
  <1>5. UNCHANGED adapterVars /\ answers' = answers /\ host' = host /\ toBgb' = toBgb
    BY DEF Sends
  <1> QED BY <1>4, <1>5, StillCable

LEMMA SendMasterByteCable ==
    ASSUME SyncInv, CableInv, SendMasterByte
    PROVE  CableInv'
  <1> DEFINE top == Len(toServer) + 1
  <1>1. PICK data \in Values : Sends("sync1", data) /\ sent' = Append(sent, data)
    BY DEF SendMasterByte
  <1>2. data \in Nat /\ data \in Byte
    BY <1>1, ValuesAreBytes
  <1>3. /\ DOMAIN toServer' = 1 .. top /\ DOMAIN toServer = 1 .. Len(toServer)
        /\ Len(toServer) \in Nat
        /\ \A n \in 1 .. Len(toServer) : toServer'[n] = toServer[n]
        /\ toServer'[top].kind = "sync1" /\ toServer'[top].data = data
    BY <1>1, <1>2, SendsTypes
  <1>4. \A n \in 1 .. top : n = top \/ n \in 1 .. Len(toServer)
    BY <1>3
  <1>5. /\ toAdapter' = toAdapter /\ toHost' = toHost /\ adapter' = adapter
        /\ sb' = sb /\ shifted' = shifted /\ given' = given /\ got' = got
        /\ host' = host /\ toBgb' = toBgb /\ answers' = answers /\ conn = "up"
        /\ Len(answers) = Len(sent)
    BY <1>1 DEF Sends, SendMasterByte, adapterVars, gameBoy
  <1>6. /\ Len(sent) \in Nat /\ Len(answers) \in Nat /\ Len(got) \in Nat
    BY Lengths
  <1>7. ~UnderWay
    BY <1>5, <1>6 DEF UnderWay
  <1>8. NoSync1 /\ NoSync2 /\ host = "recv"
    BY <1>5, <1>7 DEF SyncInv, OnePlace, Packets
  <1>9. Calm /\ Len(got) = Len(answers)
    BY <1>5, <1>6, <1>8 DEF CableInv, Followed
  <1>10. /\ sent' \in Seq(Byte) /\ Len(sent') = Len(sent) + 1 /\ sent'[Len(sent')] = data
         /\ \A n \in 1 .. Len(sent) : sent'[n] = sent[n]
    BY <1>1, <1>2, <1>6, Appended DEF CableInv, Loaded
  <1>11. Loaded'
    BY <1>5, <1>10 DEF CableInv, Loaded, Ready
  <1>12. Followed'
    <2>1. /\ Len(got') \in {Len(answers'), Len(answers') + 1} /\ Len(got') <= Len(sent')
          /\ Len(got') = Len(answers')
      BY <1>5, <1>6, <1>9, <1>10
    <2>2. \A n \in DOMAIN toServer' :
             toServer'[n].kind = "sync1" => toServer'[n].data = sent'[Len(sent')]
      BY <1>3, <1>4, <1>8, <1>10 DEF NoSync1
    <2>3. NoSync2' /\ Calm' /\ host' = "recv"
      BY <1>5, <1>8, <1>9 DEF NoSync2, Calm
    <2> QED BY <2>1, <2>2, <2>3 DEF Followed, NoSync2
  <1>13. Kept'
    BY <1>5, <1>6, <1>9, <1>10 DEF CableInv, Kept
  <1> QED BY <1>11, <1>12, <1>13 DEF CableInv

LEMMA ReceiveCable ==
    ASSUME SyncInv, CableInv, Receive
    PROVE  CableInv'
  <1>1. /\ toBgb \in Seq(Replies) /\ toBgb # <<>> /\ toBgb' = Tail(toBgb)
        /\ UNCHANGED adapterVars /\ host' = host /\ toServer' = toServer /\ sent' = sent
    BY DEF SyncInv, Packets, Receive
  <1> DEFINE s == toBgb
  <1>2. /\ DOMAIN s = 1 .. Len(s) /\ DOMAIN toBgb' = 1 .. Len(s) - 1 /\ Len(s) \in Nat
        /\ Head(s) = s[1] /\ s[1] \in Replies /\ 1 \in 1 .. Len(s)
        /\ \A n \in 1 .. Len(s) - 1 : toBgb'[n] = s[n + 1] /\ n + 1 \in 1 .. Len(s)
    BY <1>1, Rest
  <1>3. CASE s[1].kind # "sync2"
    <2>1. answers' = answers
      BY <1>2, <1>3 DEF Receive
    <2>2. \A n \in DOMAIN toBgb' : \E m \in DOMAIN toBgb : toBgb[m] = toBgb'[n]
      BY <1>2
    <2> QED BY <1>1, <2>1, <2>2, StillCable
  <1>4. CASE s[1].kind = "sync2"
    <2>1. /\ ~NoSync2 /\ UnderWay /\ host # "serial" /\ NoSync1
          /\ host \notin {"boot", "accept"} /\ host \in {"recv", "ended"}
      <3>1. ~NoSync2
        BY <1>2, <1>4 DEF NoSync2
      <3> QED BY <1>1, <3>1 DEF SyncInv, OnePlace, Packets
    <2>2. Calm
      BY <2>1 DEF CableInv, Followed, Busy
    <2>3. /\ Len(got) = Len(sent) /\ s[1].data = given[Len(got)]
          /\ Len(sent) = Len(answers) + 1
          /\ Len(got) \in Nat /\ Len(answers) \in Nat
      BY <1>2, <1>4, <2>1, Lengths DEF CableInv, Followed, UnderWay
    <2>4. s[1].data \in Nat /\ answers \in Seq(Nat)
      BY <1>2 DEF Replies, SyncInv, Packets
    <2>5. answers' = Append(answers, s[1].data)
      BY <1>2, <1>4 DEF Receive
    <2>6. /\ Len(answers') = Len(answers) + 1
          /\ \A n \in 1 .. Len(answers) : answers'[n] = answers[n]
          /\ answers'[Len(answers) + 1] = s[1].data
      BY <2>4, <2>5, Appended
    <2>7. /\ toAdapter' = toAdapter /\ toHost' = toHost /\ adapter' = adapter
          /\ sb' = sb /\ shifted' = shifted /\ given' = given /\ got' = got
      BY <1>1 DEF adapterVars, gameBoy
    <2>8. Loaded'
      BY <1>1, <2>7 DEF CableInv, Loaded, Ready
    <2>9. \A n \in 1 .. Len(s) - 1 : toBgb'[n].kind # "sync2"
      <3>1. \A n \in 1 .. Len(s) - 1 : n + 1 # 1
        BY <1>2
      <3> QED BY <1>2, <1>4, <3>1 DEF SyncInv, OnePlace
    <2>10. NoSync1' /\ NoSync2' /\ Calm' /\ host' \in {"recv", "ended"}
      BY <1>1, <1>2, <2>1, <2>2, <2>7, <2>9 DEF NoSync1, NoSync2, Calm
    <2>11. Followed'
      <3>1. /\ Len(got') \in {Len(answers'), Len(answers') + 1} /\ Len(got') <= Len(sent')
        BY <1>1, <2>3, <2>6, <2>7
      <3> QED BY <2>10, <3>1 DEF Followed, NoSync1, NoSync2
    <2>12. Kept'
      <3>1. \A n \in 1 .. Len(answers') : n \in 1 .. Len(answers) \/ n = Len(answers) + 1
        BY <2>3, <2>6
      <3>2. \A n \in 1 .. Len(answers') : answers'[n] = given[n]
        BY <2>3, <2>6, <3>1 DEF CableInv, Kept
      <3> QED BY <1>1, <2>7, <3>2 DEF CableInv, Kept
    <2> QED BY <2>8, <2>11, <2>12 DEF CableInv
  <1> QED BY <1>3, <1>4

LEMMA OpenSerialCable ==
    ASSUME SyncInv, CableInv, OpenSerial
    PROVE  CableInv'
  <1>1. /\ toHost # <<>> /\ toHost' = Tail(toHost) /\ host = "boot" /\ host' = "accept"
        /\ toAdapter' = toAdapter /\ adapter' = adapter /\ sb' = sb /\ shifted' = shifted
        /\ given' = given /\ got' = got /\ toServer' = toServer /\ toBgb' = toBgb
        /\ sent' = sent /\ answers' = answers
    BY DEF OpenSerial, BootByte, gameBoy, bgbVars
  <1>2. toAdapter = <<>> /\ adapter = "loop" /\ toHost = <<0>>
    BY <1>1 DEF CableInv, Followed
  <1>3. Calm' /\ host' = "accept"
    BY <1>1, <1>2 DEF Calm
  <1>4. Loaded' /\ Kept'
    BY <1>1 DEF CableInv, Loaded, Ready, Kept
  <1>5. Followed'
    BY <1>1, <1>3 DEF CableInv, Followed, NoSync1
  <1> QED BY <1>4, <1>5 DEF CableInv

LEMMA AcceptCable ==
    ASSUME SyncInv, CableInv, Accept
    PROVE  CableInv'
  <1>1. /\ UNCHANGED adapterVars /\ toServer' = toServer /\ sent' = sent
        /\ answers' = answers /\ host = "accept" /\ host' = "recv"
        /\ toBgb' = <<Packet("version", 0, last)>>
    BY DEF Accept, bgbVars
  <1>2. \A n \in DOMAIN toBgb' : toBgb'[n].kind # "sync2"
    BY <1>1 DEF Packet
  <1> QED BY <1>1, <1>2, StillCable

\* The packet is taken: what is not a transfer does not touch the adapter, and a
\* transfer puts its byte on the line.
LEMMA RecvCable ==
    ASSUME SyncInv, CableInv, Recv
    PROVE  CableInv'
  <1> DEFINE p == toServer[1]
  <1>1. /\ p \in Requests /\ 1 \in DOMAIN toServer /\ Head(toServer) = p
        /\ \A n \in DOMAIN toServer' : /\ n + 1 \in DOMAIN toServer /\ n + 1 # 1
                                       /\ toServer'[n] = toServer[n + 1]
        /\ last' \in Times /\ sent' = sent /\ answers' = answers /\ host = "recv"
    BY Taken
  <1>2. \A n \in DOMAIN toServer' : \E m \in DOMAIN toServer : toServer[m] = toServer'[n]
    BY <1>1
  <1>3. CASE AnswerPacket
    <2>1. PICK kind \in {"status", "sync3", "other"} :
             /\ p.kind = kind
             /\ IF kind = "other" THEN UNCHANGED toBgb ELSE Reply(kind, 0, last')
      BY <1>1, <1>3 DEF AnswerPacket
    <2>2. host' = host /\ UNCHANGED adapterVars
      BY <1>3 DEF AnswerPacket, Recv, adapterVars
    <2>3. \A n \in DOMAIN toBgb' :
             toBgb'[n].kind = "sync2" => \E m \in DOMAIN toBgb : toBgb[m] = toBgb'[n]
      <3>1. CASE kind = "other"
        BY <2>1, <3>1
      <3>2. CASE kind # "other"
        <4>1. kind \in {"status", "sync3", "sync2"} /\ kind # "sync2" /\ 0 \in Nat
              /\ Reply(kind, 0, last')
          BY <2>1, <3>2
        <4>2. Packet(kind, 0, last').kind # "sync2"
          BY <4>1 DEF Packet
        <4> QED BY <1>1, <4>1, <4>2, Replied
      <3> QED BY <3>1, <3>2
    <2> QED BY <1>1, <1>2, <2>2, <2>3, StillCable
  <1>4. CASE StartTransfer
    <2>1. /\ p.kind = "sync1" /\ toAdapter' = Append(toAdapter, p.data)
          /\ host' = "serial" /\ toBgb' = toBgb
          /\ toHost' = toHost /\ adapter' = adapter
          /\ sb' = sb /\ shifted' = shifted /\ given' = given /\ got' = got
      BY <1>1, <1>4 DEF StartTransfer, Recv, gameBoy
    <2>2. Calm /\ Len(got) = Len(answers) /\ p.data = sent[Len(sent)]
      <3>1. ~NoSync1
        BY <1>1, <2>1 DEF NoSync1
      <3> QED BY <1>1, <2>1, <3>1 DEF CableInv, Followed
    <2>3. NoSync1' /\ UnderWay /\ NoSync2
      BY <1>1, <2>1 DEF NoSync1, SyncInv, OnePlace
    <2>4. toAdapter' = <<p.data>>
      BY <2>1, <2>2 DEF Calm
    <2>5. Asked'
      BY <1>1, <2>1, <2>2, <2>4 DEF Asked, Calm
    <2>6. UnderWay' /\ NoSync2'
      BY <1>1, <2>1, <2>3 DEF UnderWay, NoSync2
    <2>7. Busy'
      BY <2>3, <2>5, <2>6 DEF Busy
    <2>8. Loaded' /\ Kept'
      BY <1>1, <2>1 DEF CableInv, Loaded, Ready, Kept
    <2>9. Followed'
      <3>1. Len(got') \in {Len(answers'), Len(answers') + 1} /\ Len(got') <= Len(sent')
        BY <1>1, <2>1 DEF CableInv, Followed
      <3> QED BY <2>1, <2>3, <2>6, <2>7, <3>1 DEF Followed, NoSync1, NoSync2
    <2> QED BY <2>8, <2>9 DEF CableInv
  <1>5. CASE Head(toServer).kind = "bad" /\ GiveUp
    <2>1. host' = "ended" /\ toBgb' = toBgb /\ UNCHANGED adapterVars
      BY <1>5 DEF GiveUp, Recv, adapterVars
    <2> QED BY <1>1, <1>2, <2>1, StillCable
  <1> QED BY <1>3, <1>4, <1>5 DEF Recv

\* The answer is what the Game Boy gave.
LEMMA EndTransferCable ==
    ASSUME SyncInv, CableInv, EndTransfer
    PROVE  CableInv'
  <1>1. /\ host = "serial" /\ host' = "recv" /\ toHost # <<>> /\ toHost' = Tail(toHost)
        /\ toAdapter' = toAdapter /\ adapter' = adapter /\ sb' = sb /\ shifted' = shifted
        /\ given' = given /\ got' = got /\ toServer' = toServer
        /\ sent' = sent /\ answers' = answers
    BY DEF EndTransfer, gameBoy, bgbVars
  <1>2. Busy
    BY <1>1 DEF CableInv, Followed
  <1>3. Answered /\ adapter \in {"loop", "delay"} /\ toHost = <<given[Len(got)]>>
    BY <1>1, <1>2 DEF Busy, Asked, Shifting, Answered
  <1>4. Head(toHost) = given[Len(got)] /\ toHost' = <<>>
    BY <1>1, <1>3
  <1>5. Calm'
    BY <1>1, <1>3, <1>4 DEF Calm, Answered
  <1>6. NoSync1' /\ NoSync2
    BY <1>1, <1>2 DEF Busy, NoSync1
  <1>7. \A n \in DOMAIN toBgb' : toBgb'[n].kind = "sync2" => toBgb'[n].data = given[Len(got)]
    <2> DEFINE byte == Head(toHost)
    <2>1. byte \in Nat /\ last \in Times /\ Reply("sync2", byte, last)
      <3>1. toHost \in Seq(Nat) /\ toHost # <<>>
        BY <1>1 DEF SyncInv, Bytes
      <3>2. byte \in Nat
        BY <3>1
      <3> QED BY <3>2 DEF SyncInv, Packets, EndTransfer, Answer
    <2> HIDE DEF byte
    <2>2. \A n \in DOMAIN toBgb' :
             \/ n \in DOMAIN toBgb /\ toBgb'[n] = toBgb[n]
             \/ toBgb'[n] = Packet("sync2", byte, last)
      BY <2>1, Replied
    <2>3. Packet("sync2", byte, last).data = byte
      BY DEF Packet
    <2>4. byte = given[Len(got)]
      BY <1>4 DEF byte
    <2>5. ASSUME NEW n \in DOMAIN toBgb', toBgb'[n].kind = "sync2"
          PROVE  toBgb'[n] = Packet("sync2", byte, last)
      BY <1>6, <2>2, <2>5 DEF NoSync2
    <2> QED BY <2>3, <2>4, <2>5
  <1>8. Loaded' /\ Kept'
    BY <1>1 DEF CableInv, Loaded, Ready, Kept
  <1>9. Followed'
    <2>1. Len(got') \in {Len(answers'), Len(answers') + 1} /\ Len(got') <= Len(sent')
          /\ Len(got') = Len(sent')
      BY <1>1, <1>3 DEF CableInv, Followed, Answered
    <2> QED BY <1>1, <1>5, <1>6, <1>7, <2>1 DEF Followed, NoSync1
  <1> QED BY <1>8, <1>9 DEF CableInv

LEMMA EndsCable ==
    ASSUME SyncInv, CableInv, Hangup \/ RecvEnds \/ SerialFails
    PROVE  CableInv'
  <1>1. /\ UNCHANGED adapterVars /\ toServer' = toServer /\ toBgb' = toBgb
        /\ sent' = sent /\ answers' = answers
        /\ host' = host \/ (host' = "ended" /\ host \in {"recv", "serial"})
    BY DEF Hangup, RecvEnds, SerialFails, GiveUp, bgbVars, adapterVars
  <1> QED BY <1>1, StillCable

-----------------------------------------------------------------------------
(* The adapter and the Game Boy.                                           *)

\* Where the adapter is says where the host is.
LEMMA AdapterAt ==
    ASSUME SyncInv, CableInv
    PROVE  /\ adapter = "setup" => host = "boot"
           /\ toAdapter # <<>> => Asked
           /\ adapter \in {"low", "high"} => Shifting
           /\ adapter = "reply" => Answered
           /\ toAdapter # <<>> \/ adapter \in {"low", "high", "reply"} =>
                 Busy /\ host \in {"serial", "ended"}
           /\ adapter = "delay" =>
                 \/ Calm /\ host \in {"accept", "recv", "ended"}
                 \/ Busy /\ host \in {"serial", "ended"}
  <1>1. host \in {"boot", "accept", "recv", "serial", "ended"}
    BY DEF SyncInv, Packets
  <1>2. \/ /\ host = "boot" /\ toAdapter = <<>> /\ adapter \in {"setup", "loop"}
        \/ Calm /\ host \in {"accept", "recv", "ended"}
        \/ Busy /\ host \in {"serial", "ended"}
    BY <1>1 DEF CableInv, Followed
  <1>3. Calm => toAdapter = <<>> /\ adapter \in {"loop", "delay"}
    BY DEF Calm
  <1>4. Busy => \/ Asked /\ adapter \in {"loop", "delay"}
                \/ Shifting /\ toAdapter = <<>> /\ adapter \in {"low", "high"}
                \/ Answered /\ toAdapter = <<>> /\ adapter \in {"reply", "loop", "delay"}
    BY DEF Busy, Asked, Shifting, Answered
  <1> QED BY <1>2, <1>3, <1>4

\* A step of the adapter takes the byte from one place to the next.
LEMMA AdapterCable ==
    ASSUME SyncInv, CableInv, UNCHANGED serverVars, Loaded', Kept',
           \/ /\ Busy /\ host \in {"serial", "ended"}
              /\ (Asked \/ Shifting \/ Answered)'
              /\ Len(got') \in {Len(answers), Len(answers) + 1}
           \/ /\ host = "boot" /\ got' = got /\ given' = given
              /\ toAdapter' = <<>> /\ adapter' = "loop" /\ toHost' = << 0 >>
           \/ /\ host \in {"accept", "recv", "ended"} /\ Calm'
              /\ got' = got /\ (Len(got) > 0 => given'[Len(got)] = given[Len(got)])
    PROVE  CableInv'
  <1>1. /\ host' = host /\ toServer' = toServer /\ toBgb' = toBgb
        /\ sent' = sent /\ answers' = answers
    BY DEF serverVars, bgbVars
  <1>2. /\ Len(answers) \in Nat /\ Len(sent) \in Nat
    BY Lengths
  <1>3. (NoSync1 <=> NoSync1') /\ (NoSync2 <=> NoSync2') /\ (UnderWay <=> UnderWay')
    BY <1>1 DEF NoSync1, NoSync2, UnderWay
  <1>4. CASE /\ Busy /\ host \in {"serial", "ended"}
             /\ (Asked \/ Shifting \/ Answered)'
             /\ Len(got') \in {Len(answers), Len(answers) + 1}
    <2>1. UnderWay /\ NoSync1 /\ NoSync2
      BY <1>4 DEF Busy
    <2>2. Busy'
      BY <1>3, <1>4, <2>1 DEF Busy
    <2>3. Len(got') <= Len(sent)
      BY <1>2, <1>4, <2>1 DEF UnderWay
    <2>4. Followed'
      BY <1>1, <1>3, <1>4, <2>1, <2>2, <2>3 DEF Followed, NoSync1, NoSync2
    <2> QED BY <2>4 DEF CableInv
  <1>5. CASE /\ host = "boot" /\ got' = got /\ given' = given
             /\ toAdapter' = <<>> /\ adapter' = "loop" /\ toHost' = <<0>>
    <2>1. Followed'
      BY <1>1, <1>3, <1>5 DEF CableInv, Followed
    <2> QED BY <2>1 DEF CableInv
  <1>6. CASE /\ host \in {"accept", "recv", "ended"} /\ Calm'
             /\ got' = got /\ (Len(got) > 0 => given'[Len(got)] = given[Len(got)])
    <2>1. ASSUME NEW n \in DOMAIN toBgb, toBgb[n].kind = "sync2"
          PROVE  Len(got') = Len(sent') /\ toBgb[n].data = given'[Len(got')]
      <3>1. Len(got) = Len(sent) /\ toBgb[n].data = given[Len(got)]
        BY <2>1 DEF CableInv, Followed
      <3>2. UnderWay
        BY <2>1 DEF NoSync2, SyncInv, OnePlace
      <3>3. Len(got) > 0
        BY <1>2, <3>1, <3>2 DEF UnderWay
      <3> QED BY <1>1, <1>6, <3>1, <3>3
    <2>2. /\ Len(got') \in {Len(answers'), Len(answers') + 1} /\ Len(got') <= Len(sent')
          /\ ~NoSync1' => Len(got') = Len(answers')
          /\ \A n \in DOMAIN toServer' :
                toServer'[n].kind = "sync1" => toServer'[n].data = sent'[Len(sent')]
      BY <1>1, <1>3, <1>6 DEF CableInv, Followed
    <2>3. Followed'
      BY <1>1, <1>6, <2>1, <2>2 DEF Followed
    <2> QED BY <2>3 DEF CableInv
  <1> QED BY <1>4, <1>5, <1>6

LEMMA SetupCable ==
    ASSUME SyncInv, CableInv, Setup, UNCHANGED serverVars
    PROVE  CableInv'
  <1>1. /\ adapter = "setup" /\ adapter' = "loop" /\ toHost' = Append(toHost, 0)
        /\ toAdapter' = <<>> /\ sb' = sb /\ shifted' = shifted
        /\ given' = given /\ got' = got
    BY DEF Setup, Goto, gameBoy
  <1>2. sent' = sent /\ answers' = answers
    BY DEF serverVars, bgbVars
  <1>3. host = "boot" /\ toHost = <<>>
    BY <1>1, AdapterAt DEF CableInv, Followed
  <1>4. toHost' = <<0>>
    BY <1>1, <1>3
  <1>5. Loaded' /\ Kept'
    BY <1>1, <1>2 DEF CableInv, Loaded, Ready, Kept
  <1> QED BY <1>1, <1>3, <1>4, <1>5, AdapterCable

\* The byte that comes is the last that was sent, and all of it is to be
\* shifted.
LEMMA TakeByteCable ==
    ASSUME SyncInv, CableInv, TakeByte, UNCHANGED serverVars
    PROVE  CableInv'
  <1>1. /\ adapter = "loop" /\ adapter' = "low" /\ toAdapter # <<>>
        /\ tx' = Head(toAdapter) /\ rx' = 0 /\ i' = 0 /\ toAdapter' = Tail(toAdapter)
        /\ toHost' = toHost /\ sb' = sb /\ shifted' = shifted
        /\ given' = given /\ got' = got
    BY DEF TakeByte, Goto, gameBoy
  <1>2. sent' = sent /\ answers' = answers
    BY DEF serverVars, bgbVars
  <1>3. Asked /\ Busy /\ host \in {"serial", "ended"}
    BY <1>1, AdapterAt
  <1>4. Ready /\ shifted = 0 /\ sb = given[Len(given)]
    BY <1>1 DEF CableInv, Loaded
  <1>5. /\ tx' = sent[Len(sent)] /\ toAdapter' = <<>> /\ toHost' = <<>>
        /\ Len(got) = Len(answers)
    BY <1>1, <1>3 DEF Asked
  <1>6. PICK x \in Byte, y \in Byte : x = sent[Len(sent)] /\ y = given[Len(given)]
    <2>1. Len(sent) \in 1 .. Len(sent) /\ Len(given) \in 1 .. Len(given)
      BY <1>3, <1>4, Lengths DEF Busy, UnderWay, Ready
    <2>2. sent \in Seq(Byte) /\ given \in Seq(Byte)
      BY DEF CableInv, Loaded
    <2> QED BY <2>1, <2>2
  <1>7. /\ Bits \in Nat \ {0} /\ 0 \in 0 .. Bits - 1 /\ Bits - 0 = Bits
        /\ Weight[0] = 1 /\ Weight[Bits] \in Nat \ {0} /\ Byte = 0 .. Weight[Bits] - 1
    BY BitsAssumption, WeightGrows DEF Byte
  <1>8. Parts(x, 0, 0, x) /\ Parts(y, 0, 0, y)
    BY <1>6, <1>7 DEF Parts
  <1>9. tx' = x * Weight[0] /\ sb' = y * Weight[0] + 0 /\ 0 \in Byte
    BY <1>1, <1>4, <1>5, <1>6, <1>7
  <1>10. Low(x, y)'
    <2>1. Parts(x, i', 0, x) /\ Parts(y, i', 0, y)
      BY <1>1, <1>8
    <2>2. tx' = x * Weight[i'] /\ sb' = y * Weight[i'] + 0 /\ rx' = 0 /\ 0 \in Byte
      BY <1>1, <1>9
    <2> QED BY <1>6, <2>1, <2>2 DEF Low, Parts
  <1>11. Shifting'
    BY <1>1, <1>2, <1>4, <1>5, <1>6, <1>7, <1>10 DEF Shifting
  <1>12. Loaded' /\ Kept'
    BY <1>1, <1>2, <1>4 DEF CableInv, Loaded, Ready, Kept
  <1>13. Len(got') = Len(answers)
    BY <1>1, <1>5
  <1> QED BY <1>3, <1>11, <1>12, <1>13, AdapterCable

LEMMA ClockLowCable ==
    ASSUME SyncInv, CableInv, ClockLow, UNCHANGED serverVars
    PROVE  CableInv'
  <1>1. /\ adapter = "low" /\ adapter' = "high" /\ i' = i
        /\ toAdapter' = toAdapter /\ toHost' = toHost /\ shifted' = shifted
        /\ given' = given /\ got' = got
    BY DEF ClockLow, Goto, gameBoy
  <1>2. sent' = sent /\ answers' = answers
    BY DEF serverVars, bgbVars
  <1>3. Shifting /\ Busy /\ host \in {"serial", "ended"}
    BY <1>1, AdapterAt
  <1>4. /\ i \in 0 .. Bits - 1 /\ shifted = i /\ Len(got) = Len(answers)
        /\ toAdapter = <<>> /\ toHost = <<>>
    BY <1>3 DEF Shifting
  <1>5. PICK x \in Byte, y \in Byte :
           x = sent[Len(sent)] /\ y = given[Len(given)] /\ Low(x, y)
    BY <1>1, <1>3 DEF Shifting
  <1>6. High(x, y)'
    BY <1>4, <1>5, LowToHigh
  <1>7. Shifting'
    BY <1>1, <1>2, <1>4, <1>5, <1>6 DEF Shifting
  <1>8. Loaded' /\ Kept'
    BY <1>1, <1>2 DEF CableInv, Loaded, Ready, Kept
  <1>9. Len(got') = Len(answers)
    BY <1>1, <1>4
  <1> QED BY <1>3, <1>7, <1>8, <1>9, AdapterCable

\* With its last bit the byte has arrived, and so has the Game Boy's.
LEMMA ClockHighCable ==
    ASSUME SyncInv, CableInv, ClockHigh, UNCHANGED serverVars
    PROVE  CableInv'
  <1>1. /\ adapter = "high" /\ adapter' = IF LastTurn THEN "reply" ELSE "low"
        /\ i' = i + 1 /\ toAdapter' = toAdapter /\ toHost' = toHost
    BY DEF ClockHigh, Goto
  <1>2. sent' = sent /\ answers' = answers
    BY DEF serverVars, bgbVars
  <1>3. Shifting /\ Busy /\ host \in {"serial", "ended"}
    BY <1>1, AdapterAt
  <1>4. /\ i \in 0 .. Bits - 1 /\ shifted = i /\ Len(got) = Len(answers)
        /\ toAdapter = <<>> /\ toHost = <<>> /\ Ready /\ UnderWay
        /\ Bits \in Nat \ {0}
    BY <1>1, <1>3, BitsAssumption DEF Shifting, Busy, CableInv, Loaded
  <1>5. PICK x \in Byte, y \in Byte :
           x = sent[Len(sent)] /\ y = given[Len(given)] /\ High(x, y)
    BY <1>1, <1>3 DEF Shifting
  <1>6. /\ given' = given /\ shifted' = (i + 1) % Bits
        /\ got' = IF shifted' = 0 THEN Append(got, sb') ELSE got
    BY <1>4 DEF ClockHigh, GameBoyShifts
  <1>7. CASE ~LastTurn
    <2>1. Low(x, y)' /\ i' \in 0 .. Bits - 1
      BY <1>4, <1>5, <1>7, HighToLow
    <2>2. i + 1 < Bits
      BY <1>4, <1>7 DEF LastTurn
    <2>3. (i + 1) % Bits = i + 1 /\ i + 1 # 0
      BY <1>4, <2>2
    <2>4. shifted' = i' /\ got' = got
      BY <1>1, <1>6, <2>3
    <2>5. adapter' = "low"
      BY <1>1, <1>7
    <2>6. Shifting'
      BY <1>1, <1>2, <1>4, <1>5, <1>6, <2>1, <2>4, <2>5 DEF Shifting
    <2>7. Loaded' /\ Kept'
      BY <1>2, <1>4, <1>6, <2>4, <2>5 DEF CableInv, Loaded, Ready, Kept
    <2>8. Len(got') = Len(answers)
      BY <1>4, <2>4
    <2> QED BY <1>3, <2>6, <2>7, <2>8, AdapterCable
  <1>8. CASE LastTurn
    <2>1. sb' = x /\ rx' = y
      BY <1>4, <1>5, <1>8, HighToDone
    <2>2. Bits % Bits = 0
      BY <1>4
    <2>3. shifted' = 0 /\ got' = Append(got, x)
      BY <1>6, <1>8, <2>1, <2>2 DEF LastTurn
    <2>4. adapter' = "reply"
      BY <1>1, <1>8
    <2>5. got \in Seq(Nat) /\ x \in Nat
      BY ValuesAreBytes DEF SyncInv, Bytes
    <2>6. /\ Len(got') = Len(got) + 1 /\ Len(got) \in Nat
          /\ \A n \in 1 .. Len(got) : got'[n] = got[n]
          /\ got'[Len(got) + 1] = x
      BY <2>3, <2>5, Appended
    <2>7. /\ Len(got') = Len(sent) /\ Len(given) = Len(got') /\ Len(sent) \in Nat
          /\ Len(answers) \in Nat
      BY <1>4, <2>6, Lengths DEF UnderWay, Ready
    <2>8. Answered'
      BY <1>1, <1>2, <1>4, <1>5, <1>6, <2>1, <2>4, <2>7 DEF Answered
    <2>9. Loaded'
      <3>1. ~Ready'
        BY <1>6, <2>7 DEF Ready
      <3> QED BY <1>2, <1>6, <2>3, <2>4, <2>7, <3>1 DEF CableInv, Loaded
    <2>10. Kept'
      <3>1. \A n \in 1 .. Len(got') : n \in 1 .. Len(got) \/ n = Len(got) + 1
        BY <2>6
      <3>2. \A n \in 1 .. Len(got') : got'[n] = sent[n]
        BY <1>5, <2>6, <2>7, <3>1 DEF CableInv, Kept
      <3> QED BY <1>2, <1>6, <3>2 DEF CableInv, Kept
    <2>11. Len(got') = Len(answers) + 1
      BY <1>4, <2>6
    <2> QED BY <1>3, <2>8, <2>9, <2>10, <2>11, AdapterCable
  <1> QED BY <1>7, <1>8

LEMMA GiveBackCable ==
    ASSUME SyncInv, CableInv, GiveBack, UNCHANGED serverVars
    PROVE  CableInv'
  <1>1. /\ adapter = "reply" /\ adapter' = "delay" /\ toHost' = Append(toHost, rx)
        /\ toAdapter' = toAdapter /\ sb' = sb /\ shifted' = shifted
        /\ given' = given /\ got' = got
    BY DEF GiveBack, Goto, gameBoy
  <1>2. sent' = sent /\ answers' = answers
    BY DEF serverVars, bgbVars
  <1>3. Answered /\ Busy /\ host \in {"serial", "ended"}
    BY <1>1, AdapterAt
  <1>4. toHost = <<>> /\ rx = given[Len(got)] /\ toAdapter = <<>> /\ Len(got) = Len(sent)
    BY <1>1, <1>3 DEF Answered
  <1>5. toHost' = <<given[Len(got)]>>
    BY <1>1, <1>4
  <1>6. Answered'
    BY <1>1, <1>2, <1>4, <1>5 DEF Answered
  <1>7. Loaded' /\ Kept'
    BY <1>1, <1>2 DEF CableInv, Loaded, Ready, Kept
  <1>8. Len(got') = Len(answers) + 1
    BY <1>1, <1>3, <1>4 DEF Busy, UnderWay
  <1> QED BY <1>3, <1>6, <1>7, <1>8, AdapterCable

LEMMA DelayCable ==
    ASSUME SyncInv, CableInv, Delay, UNCHANGED serverVars
    PROVE  CableInv'
  <1>1. /\ adapter = "delay" /\ adapter' = "loop" /\ Ready
        /\ toAdapter' = toAdapter /\ toHost' = toHost /\ sb' = sb /\ shifted' = shifted
        /\ given' = given /\ got' = got
    BY DEF Delay, Goto, gameBoy
  <1>2. sent' = sent /\ answers' = answers
    BY DEF serverVars, bgbVars
  <1>3. Loaded' /\ Kept'
    BY <1>1, <1>2 DEF CableInv, Loaded, Ready, Kept
  <1>4. CASE Calm /\ host \in {"accept", "recv", "ended"}
    <2>1. Calm'
      BY <1>1, <1>4 DEF Calm
    <2> QED BY <1>1, <1>3, <1>4, <2>1, AdapterCable
  <1>5. CASE Busy /\ host \in {"serial", "ended"}
    <2>1. Asked \/ Answered
      BY <1>1, <1>5 DEF Busy, Shifting
    <2>2. (Asked \/ Answered)'
      BY <1>1, <1>2, <2>1 DEF Asked, Answered
    <2>3. Len(got') \in {Len(answers), Len(answers) + 1}
      BY <1>1 DEF CableInv, Followed
    <2> QED BY <1>3, <1>5, <2>2, <2>3, AdapterCable
  <1> QED BY <1>1, <1>4, <1>5, AdapterAt

LEMMA GameBoyLoadsCable ==
    ASSUME SyncInv, CableInv, GameBoyLoads, UNCHANGED serverVars
    PROVE  CableInv'
  <1>1. /\ ~Ready /\ sb' \in Values /\ given' = Append(given, sb')
        /\ toAdapter' = toAdapter /\ toHost' = toHost /\ adapter' = adapter
        /\ rx' = rx /\ shifted' = shifted /\ got' = got
    BY DEF GameBoyLoads, pins
  <1>2. sent' = sent /\ answers' = answers
    BY DEF serverVars, bgbVars
  <1>3. adapter \in {"reply", "delay"} /\ Len(given) = Len(got)
    BY <1>1 DEF SyncInv, Bytes, CableInv, Loaded, Ready
  <1>4. sb' \in Byte /\ given \in Seq(Byte) /\ Len(got) \in Nat /\ Len(answers) \in Nat
    BY <1>1, ValuesAreBytes, Lengths DEF CableInv, Loaded
  <1>5. /\ given' \in Seq(Byte) /\ Len(given') = Len(given) + 1
        /\ \A n \in 1 .. Len(given) : given'[n] = given[n]
        /\ given'[Len(given) + 1] = sb'
    BY <1>1, <1>4, Appended
  <1>6. Loaded'
    BY <1>1, <1>2, <1>3, <1>5 DEF CableInv, Loaded, Ready
  <1>7. Len(got) > 0 => given'[Len(got)] = given[Len(got)]
    BY <1>3, <1>4, <1>5
  <1>8. Kept'
    <2>1. \A n \in 1 .. Len(answers) : n \in 1 .. Len(given)
      BY <1>3, <1>4 DEF CableInv, Followed
    <2> QED BY <1>1, <1>2, <1>5, <2>1 DEF CableInv, Kept
  <1>9. CASE Calm /\ host \in {"accept", "recv", "ended"}
    <2>1. Calm'
      BY <1>1, <1>9 DEF Calm
    <2> QED BY <1>1, <1>6, <1>7, <1>8, <1>9, <2>1, AdapterCable
  <1>10. CASE Busy /\ host \in {"serial", "ended"}
    <2>1. Asked \/ Answered
      BY <1>3, <1>10 DEF Busy, Shifting
    <2>2. Len(got') \in {Len(answers), Len(answers) + 1}
      BY <1>1 DEF CableInv, Followed
    <2>3. Asked => Asked'
      BY <1>1, <1>2 DEF Asked
    <2>4. Answered => Answered'
      <3> SUFFICES ASSUME Answered PROVE Answered'
        OBVIOUS
      <3>1. Len(got) > 0
        BY <1>4, <1>10, Lengths DEF Answered, Busy, UnderWay
      <3> QED BY <1>1, <1>2, <1>7, <3>1 DEF Answered
    <2> QED BY <1>6, <1>8, <1>10, <2>1, <2>2, <2>3, <2>4, AdapterCable
  <1> QED BY <1>3, <1>9, <1>10, AdapterAt

-----------------------------------------------------------------------------
(* All steps together.                                                     *)

LEMMA InitCable == Init => CableInv
  <1> SUFFICES ASSUME Init PROVE CableInv
    OBVIOUS
  <1>1. sb \in Byte /\ given = <<sb>> /\ got = <<>> /\ sent = <<>> /\ answers = <<>>
    BY ValuesAreBytes DEF Init, AdapterInit
  <1>2. Loaded
    <2>1. given \in Seq(Byte) /\ sent \in Seq(Byte)
      BY <1>1
    <2>2. Len(given) = 1 /\ Len(got) = 0 /\ given[1] = sb
      BY <1>1
    <2> QED BY <2>1, <2>2 DEF Init, AdapterInit, Loaded, Ready
  <1>3. Followed
    BY <1>1 DEF Init, AdapterInit, Followed, NoSync1
  <1>4. Kept
    BY <1>1 DEF Kept
  <1> QED BY <1>2, <1>3, <1>4 DEF CableInv

LEMMA NextCable ==
    ASSUME SyncInv, CableInv, [Next]_vars, resets' = resets
    PROVE  CableInv'
  <1>1. CASE SendPlain
    BY <1>1, SendPlainCable DEF SendPlain
  <1>2. CASE SendMasterByte
    BY <1>2, SendMasterByteCable
  <1>3. CASE Receive
    BY <1>3, ReceiveCable
  <1>4. CASE Hangup \/ RecvEnds \/ SerialFails
    BY <1>4, EndsCable
  <1>5. CASE OpenSerial \/ Accept \/ Recv \/ EndTransfer
    BY <1>5, OpenSerialCable, AcceptCable, RecvCable, EndTransferCable
  <1>6. CASE Adapter
    BY <1>6, SetupCable, TakeByteCable, ClockLowCable, ClockHighCable, GiveBackCable,
       DelayCable, GameBoyLoadsCable DEF Adapter, AdapterStep
  <1>7. ~AdapterResets
    BY DEF SyncInv, Bytes, AdapterResets
  <1>8. CASE UNCHANGED vars
    <2>1. /\ UNCHANGED adapterVars /\ sent' = sent /\ answers' = answers
          /\ toServer' = toServer /\ toBgb' = toBgb /\ host' = host
      BY <1>8 DEF vars, serverVars, bgbVars
    <2> QED BY <2>1, StillCable
  <1> QED BY <1>1, <1>2, <1>3, <1>4, <1>5, <1>6, <1>7, <1>8 DEF Next, Server

\* Only a reset counts.
LEMMA ResetsStay ==
    ASSUME SyncInv, [Next]_vars, resets' = 0
    PROVE  resets = 0 /\ resets' = resets
  <1>1. resets \in Nat
    BY DEF SyncInv, Bytes
  <1>2. CASE SendPlain \/ SendMasterByte \/ Receive \/ Hangup \/ SerialFails \/ Server
    BY <1>2 DEF SendPlain, SendMasterByte, Sends, Receive, Hangup, SerialFails, Server,
       OpenSerial, Accept, Recv, EndTransfer, RecvEnds, adapterVars
  <1>3. CASE Adapter
    BY <1>3 DEF Adapter, AdapterStep, Setup, TakeByte, ClockLow, ClockHigh, GiveBack,
       Delay, GameBoyLoads
  <1>4. ~AdapterResets
    BY <1>1 DEF AdapterResets
  <1>5. CASE UNCHANGED vars
    BY <1>5 DEF vars, adapterVars
  <1> QED BY <1>2, <1>3, <1>4, <1>5 DEF Next

LEMMA NextIInv == IInv /\ [Next]_vars => IInv'
  BY NextSync, NextCable, ResetsStay DEF IInv

-----------------------------------------------------------------------------
\* Wherever the packets, the byte under way and the shift registers are, they
\* belong to the transfer that BGB waits for.
THEOREM Correct == FairSpec => []IInv
  <1>1. Init => IInv
    BY InitSync, InitCable DEF IInv
  <1> QED BY <1>1, NextIInv, PTL DEF FairSpec

\* The sync2 that answers a byte carries the time at which BGB sent it, until
\* the clock wraps around: _last_received_timestamp is that of the sync1, since
\* the handler does not read on while it waits for the adapter.
THEOREM AnswersInSync == FairSpec => []InSync
  <1>1. IInv => InSync
    BY DEF IInv, SyncInv
  <1> QED BY <1>1, Correct, PTL

\* Without a reset of the adapter each byte of BGB's reaches the Game Boy, bit
\* for bit and once, and BGB is given the byte the Game Boy had loaded for it:
\* transfer_byte shifts both whatever the number of bits.
THEOREM CableIsKept == FairSpec => []CableKept
  <1>1. IInv => CableKept
    <2> SUFFICES ASSUME SyncInv, CableInv PROVE
            /\ \A n \in DOMAIN got : n <= Len(sent) /\ got[n] = sent[n]
            /\ \A n \in DOMAIN answers : n <= Len(got) /\ answers[n] = given[n]
      BY DEF IInv, CableKept
    <2>1. DOMAIN got = 1 .. Len(got) /\ DOMAIN answers = 1 .. Len(answers)
      BY DEF SyncInv, Bytes, Packets
    <2>2. Len(got) <= Len(sent) /\ Len(answers) <= Len(got)
      BY Lengths DEF CableInv, Followed
    <2> QED BY <2>1, <2>2, Lengths DEF CableInv, Kept
  <1> QED BY <1>1, Correct, PTL
=============================================================================
