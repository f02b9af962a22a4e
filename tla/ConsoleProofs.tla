---------------------------- MODULE ConsoleProofs ----------------------------
(***************************************************************************)
(* What Console and SavedNetworks promise of the saved networks, and that  *)
(* they implement NetworkStore, holds for any names, lengths and number of *)
(* slots.                                                                  *)
(*                                                                         *)
(* The array is packed because no name is cut: what is looked up is what   *)
(* is stored.  The loop of wifi_forget_network is a recursive function; it *)
(* is shown to be the shift that it computes.                              *)
(***************************************************************************)
EXTENDS Console, FiniteSetTheorems, WellFoundedInduction, TLAPS

\* The names that are ever saved: none of them is cut.
Usable == {name \in Names : Len(name) <= MaxSsid}

Cells == [ssid : Usable \cup {<<>>}, pass : Passwords \cup {NoPassword}]

Blobs == [networks : [Slots -> Cells], count : 0 .. MaxSaved,
          values : [Keys -> Values \cup {NoValue}]]

\* An array and its count.
Tidy(nets, n) ==
    /\ nets \in [Slots -> Cells] /\ n \in 0 .. MaxSaved
    /\ \A i \in Slots : IF i <= n THEN nets[i].ssid \in Usable /\ nets[i].pass \in Passwords
                                  ELSE nets[i] = Blank
    /\ \A i, j \in Slots : i < j /\ j <= n => nets[i].ssid # nets[j].ssid

\* The networks are where the user saw them.
Listed(nets, n) ==
    \A i \in DOMAIN listing : i <= n /\ nets[i].ssid = listing[i]

Good(nets, n) == Tidy(nets, n) /\ Listed(nets, n)

\* What is in memory and in flash differs by what is being written.
Behind ==
    /\ step # "commit" => written = flash
    /\ step = "none" \/ (step = "set" /\ job.kind = "value") =>
          networks = flash.networks /\ count = flash.count
    /\ step = "commit" => networks = written.networks /\ count = written.count

Sorted ==
    /\ flash \in Blobs /\ written \in Blobs
    /\ step \in {"none", "set", "commit"}
    /\ job \in IF step = "none" THEN {NoJob} ELSE Jobs
    /\ ended \in {"returned", "reset"}
    /\ line \in Lines \cup {NoLine}
    /\ line # NoLine => step = "none" /\ line.ssid \in Usable
    /\ listing \in Seq(Usable)

\* The table that an array is, by SSID.
TableOf(nets, n) ==
    LET used == {nets[i].ssid : i \in 1 .. n}
    IN  [s \in used |-> nets[First({i \in 1 .. n : nets[i].ssid = s})].pass]

\* What is being written is what was asked for.
Pending ==
    /\ step # "none" => TableOf(networks, count) = Store!Table(job)
    /\ step = "commit" => /\ TableOf(written.networks, written.count) = Store!Table(job)
                          /\ written.values = Store!Strings(job)

IInv ==
    /\ Sorted /\ Behind /\ Pending
    /\ Good(networks, count)
    /\ Good(flash.networks, flash.count)
    /\ Good(written.networks, written.count)

-----------------------------------------------------------------------------
(* Names and slots.                                                        *)

LEMMA UsableNames ==
    ASSUME NEW name \in Usable
    PROVE  Cut(name, MaxSsid) = name /\ name # <<>> /\ name \in Stored
  <1>1. name \in Seq(Chars) /\ Len(name) > 0 /\ Len(name) <= MaxSsid /\ name \in Names
    BY NamesAssumption DEF Usable
  <1>2. Cut(name, MaxSsid) = name
    <2>1. (IF Len(name) < MaxSsid THEN Len(name) ELSE MaxSsid) = Len(name)
      BY <1>1, LengthsAssumption
    <2> QED BY <1>1, <2>1 DEF Cut
  <1> QED BY <1>1, <1>2 DEF Stored

LEMMA BlankCell == Blank \in Cells /\ Blank.ssid = <<>> /\ <<>> \notin Usable
  <1>1. Blank \in Cells /\ Blank.ssid = <<>>
    BY DEF Blank, Entry, Cells
  <1> QED BY <1>1, UsableNames

\* The slot a name is looked up in is the only one that has it.
LEMMA FirstMatch ==
    ASSUME NEW nets, NEW n, Tidy(nets, n), NEW ssid, NEW k \in 1 .. n, nets[k].ssid = ssid
    PROVE  LET M == {i \in 1 .. n : nets[i].ssid = ssid} IN M = {k} /\ First(M) = k
  <1> DEFINE M == {i \in 1 .. n : nets[i].ssid = ssid}
  <1>1. M = {k}
    <2>1. n \in 0 .. MaxSaved /\ 1 .. n \subseteq Slots
      BY LengthsAssumption DEF Tidy, Slots
    <2>2. \A i \in 1 .. n : i # k => i < k \/ k < i
      BY <2>1
    <2> QED BY <2>1, <2>2 DEF Tidy
  <1>2. First({k}) = k
    <2>1. k \in Int
      OBVIOUS
    <2> QED BY <2>1 DEF First
  <1> HIDE DEF M
  <1>3. M = {k} /\ First(M) = k
    BY <1>1, <1>2
  <1> QED BY <1>3 DEF M

-----------------------------------------------------------------------------
(* What becomes of the array.                                              *)

\* A password is replaced: the names stay where they are.
LEMMA ReplaceTidy ==
    ASSUME NEW nets, NEW n, Tidy(nets, n), NEW k \in 1 .. n, NEW pass \in Passwords
    PROVE  LET new == [nets EXCEPT ![k].pass = pass]
           IN  /\ Tidy(new, n)
               /\ \A i \in Slots : /\ new[i].ssid = nets[i].ssid
                                   /\ new[i].pass = IF i = k THEN pass ELSE nets[i].pass
  <1> DEFINE new == [nets EXCEPT ![k].pass = pass]
  <1>1. n \in 0 .. MaxSaved /\ k \in Slots /\ nets \in [Slots -> Cells]
    BY LengthsAssumption DEF Tidy, Slots
  <1>2. new = [nets EXCEPT ![k] = [nets[k] EXCEPT !.pass = pass]]
    BY <1>1
  <1>3. LET cell == [nets[k] EXCEPT !.pass = pass]
        IN  cell \in Cells /\ cell.ssid = nets[k].ssid /\ cell.pass = pass
    <2>1. nets[k] \in Cells
      BY <1>1
    <2> QED BY <2>1 DEF Cells
  <1>4. /\ new \in [Slots -> Cells]
        /\ \A i \in Slots : /\ i # k => new[i] = nets[i]
                            /\ new[i].ssid = nets[i].ssid
                            /\ new[i].pass = IF i = k THEN pass ELSE nets[i].pass
    BY <1>1, <1>2, <1>3
  <1> HIDE DEF new
  <1>5. Tidy(new, n)
    <2>1. ASSUME NEW i \in Slots
          PROVE  IF i <= n THEN new[i].ssid \in Usable /\ new[i].pass \in Passwords
                           ELSE new[i] = Blank
      BY <1>1, <1>4 DEF Tidy
    <2>2. \A i, j \in Slots : i < j /\ j <= n => new[i].ssid # new[j].ssid
      BY <1>4 DEF Tidy
    <2> QED BY <1>1, <1>4, <2>1, <2>2 DEF Tidy
  <1> QED BY <1>4, <1>5 DEF new

\* A network is added.
LEMMA AddTidy ==
    ASSUME NEW nets, NEW n, Tidy(nets, n), n < MaxSaved,
           NEW ssid \in Usable, NEW pass \in Passwords,
           \A i \in 1 .. n : nets[i].ssid # ssid
    PROVE  LET new == [nets EXCEPT ![n + 1] = Entry(Cut(ssid, MaxSsid), pass)]
           IN  /\ Tidy(new, n + 1)
               /\ \A i \in 1 .. n : new[i] = nets[i]
               /\ new[n + 1].ssid = ssid /\ new[n + 1].pass = pass
  <1> DEFINE cell == Entry(Cut(ssid, MaxSsid), pass)
             new == [nets EXCEPT ![n + 1] = cell]
  <1>1. /\ n \in 0 .. MaxSaved /\ n + 1 \in Slots /\ nets \in [Slots -> Cells]
        /\ n + 1 \in 0 .. MaxSaved /\ Slots \subseteq Int
    BY LengthsAssumption DEF Tidy, Slots
  <1>2. cell \in Cells /\ cell.ssid = ssid /\ cell.pass = pass
    BY UsableNames DEF Entry, Cells
  <1> HIDE DEF cell
  <1>3. /\ new \in [Slots -> Cells] /\ new[n + 1] = cell
        /\ \A i \in Slots : i # n + 1 => new[i] = nets[i]
    BY <1>1, <1>2
  <1> HIDE DEF new
  <1>4. \A i \in Slots : (i <= n <=> i \in 1 .. n) /\ (i <= n + 1 <=> i <= n \/ i = n + 1)
    BY <1>1 DEF Slots
  <1>5. Tidy(new, n + 1)
    <2>1. ASSUME NEW i \in Slots
          PROVE  IF i <= n + 1 THEN new[i].ssid \in Usable /\ new[i].pass \in Passwords
                               ELSE new[i] = Blank
      <3>1. CASE i = n + 1
        BY <3>1, <1>2, <1>3, <1>4
      <3>2. CASE i # n + 1
        BY <3>2, <1>3, <1>4 DEF Tidy
      <3> QED BY <3>1, <3>2
    <2>2. ASSUME NEW i \in Slots, NEW j \in Slots, i < j, j <= n + 1
          PROVE  new[i].ssid # new[j].ssid
      <3>1. i # n + 1 /\ i <= n
        BY <2>2, <1>1
      <3>2. CASE j = n + 1
        BY <3>1, <3>2, <1>2, <1>3, <1>4
      <3>3. CASE j # n + 1
        BY <3>1, <3>3, <2>2, <1>3, <1>4 DEF Tidy
      <3> QED BY <3>2, <3>3
    <2> QED BY <1>1, <1>3, <2>1, <2>2 DEF Tidy
  <1>6. \A i \in 1 .. n : new[i] = nets[i]
    <2>1. \A i \in 1 .. n : i \in Slots /\ i # n + 1
      BY <1>1, LengthsAssumption DEF Slots
    <2> QED BY <2>1, <1>3
  <1> QED BY <1>2, <1>3, <1>5, <1>6 DEF new, cell

\* The network in slot k is forgotten, and the loop has got to slot i.
Shifted(nets, k, i) ==
    [j \in Slots |-> IF j < k THEN nets[j]
                     ELSE IF j < i THEN nets[j + 1]
                     ELSE IF j = i THEN Blank ELSE nets[j]]

LEMMA ShiftedTidy ==
    ASSUME NEW nets, NEW n, Tidy(nets, n), NEW k \in 1 .. n
    PROVE  Tidy(Shifted(nets, k, n), n - 1)
  <1> DEFINE new == Shifted(nets, k, n)
  <1>1. /\ n \in 0 .. MaxSaved /\ nets \in [Slots -> Cells] /\ n - 1 \in 0 .. MaxSaved
        /\ Slots = 1 .. MaxSaved /\ n \in Slots /\ MaxSaved \in Nat
    BY LengthsAssumption DEF Tidy, Slots
  <1>2. \A j \in Slots : j < n => j + 1 \in Slots
    BY <1>1
  <1>3. \A j \in Slots :
           /\ j < k => new[j] = nets[j]
           /\ ~(j < k) /\ j < n => new[j] = nets[j + 1]
           /\ j = n => new[j] = Blank
           /\ j > n => new[j] = nets[j]
    BY <1>1 DEF Shifted
  <1>4. new \in [Slots -> Cells]
    BY <1>1, <1>2, BlankCell DEF Shifted
  <1> HIDE DEF new
  <1>5. ASSUME NEW i \in Slots
        PROVE  IF i <= n - 1 THEN new[i].ssid \in Usable /\ new[i].pass \in Passwords
                             ELSE new[i] = Blank
    <2>1. CASE i < k
      BY <2>1, <1>1, <1>3 DEF Tidy
    <2>2. CASE ~(i < k) /\ i < n
      <3>1. i + 1 <= n /\ i <= n - 1 /\ i + 1 \in Slots
        BY <2>2, <1>1
      <3> QED BY <3>1, <2>2, <1>3 DEF Tidy
    <2>3. CASE i = n
      BY <2>3, <1>1, <1>3
    <2>4. CASE i > n
      <3>1. ~(i <= n) /\ ~(i <= n - 1)
        BY <2>4, <1>1
      <3> QED BY <3>1, <2>4, <1>3 DEF Tidy
    <2> QED BY <2>1, <2>2, <2>3, <2>4, <1>1
  <1>6. ASSUME NEW i \in Slots, NEW j \in Slots, i < j, j <= n - 1
        PROVE  new[i].ssid # new[j].ssid
    <2>1. j < n /\ i < n /\ j + 1 \in Slots /\ i + 1 \in Slots
      BY <1>6, <1>1
    <2>2. PICK from \in Slots, to \in Slots :
            new[i] = nets[from] /\ new[j] = nets[to] /\ from < to /\ to <= n
      <3>1. CASE j < k
        BY <3>1, <1>6, <1>3, <1>1
      <3>2. CASE ~(j < k) /\ i < k
        <4>1. new[i] = nets[i] /\ new[j] = nets[j + 1] /\ i < j + 1 /\ j + 1 <= n
          BY <3>2, <2>1, <1>3, <1>6, <1>1
        <4> QED BY <4>1, <2>1
      <3>3. CASE ~(i < k)
        <4>1. new[i] = nets[i + 1] /\ new[j] = nets[j + 1] /\ i + 1 < j + 1 /\ j + 1 <= n
          BY <3>3, <2>1, <1>3, <1>6, <1>1
        <4> QED BY <4>1, <2>1
      <3> QED BY <3>1, <3>2, <3>3
    <2> QED BY <2>2 DEF Tidy
  <1>7. Tidy(new, n - 1)
    BY <1>1, <1>4, <1>5, <1>6 DEF Tidy
  <1> QED BY <1>7 DEF new

\* The loop of wifi_forget_network, before slot i + 1: it has found the network
\* in slot k or has yet to.
Turn(nets, k, i) ==
    IF i < k THEN [found |-> FALSE, table |-> nets]
             ELSE [found |-> TRUE, table |-> Shifted(nets, k, i)]

LEMMA ForgetTurn ==
    ASSUME NEW nets, NEW n, Tidy(nets, n), NEW k \in 1 .. n, NEW i \in 1 .. n
    PROVE  ForgetSlot(Turn(nets, k, i - 1), i, nets[k].ssid) = Turn(nets, k, i)
  <1>1. /\ n \in 0 .. MaxSaved /\ nets \in [Slots -> Cells]
        /\ Slots = 1 .. MaxSaved /\ i \in Slots /\ k \in Slots /\ i <= n /\ k <= n
        /\ MaxSaved \in Nat /\ n \in Nat /\ i \in Nat /\ k \in Nat /\ 1 <= k
    BY LengthsAssumption DEF Tidy, Slots
  <1>2. CASE i < k
    <2>1. nets[i].ssid # nets[k].ssid
      BY <1>1, <1>2 DEF Tidy
    <2>2. i - 1 < k
      BY <1>1, <1>2
    <2> QED BY <1>2, <2>1, <2>2 DEF Turn, ForgetSlot
  <1>3. CASE i = k
    <2>1. i - 1 < k /\ ~(i < k)
      BY <1>1, <1>3
    <2>2. [nets EXCEPT ![i] = Blank] = Shifted(nets, k, i)
      <3>1. [nets EXCEPT ![i] = Blank] = [j \in Slots |-> IF j = i THEN Blank ELSE nets[j]]
        BY <1>1
      <3>2. \A j \in Slots : Shifted(nets, k, i)[j] = IF j = i THEN Blank ELSE nets[j]
        BY <1>1, <1>3 DEF Shifted
      <3> QED BY <3>1, <3>2 DEF Shifted
    <2> QED BY <1>3, <2>1, <2>2 DEF Turn, ForgetSlot
  <1>4. CASE i > k
    <2>1. ~(i - 1 < k) /\ ~(i < k) /\ i - 1 \in Slots
      BY <1>1, <1>4
    <2> DEFINE old == Shifted(nets, k, i - 1)
               new == Shifted(nets, k, i)
    <2>2. old = [j \in Slots |-> old[j]] /\ new = [j \in Slots |-> new[j]]
      BY DEF Shifted
    <2>3. old[i] = nets[i]
      BY <1>1, <1>4 DEF Shifted
    <2>4. \A j \in Slots : new[j] = IF j = i - 1 THEN nets[i]
                                    ELSE IF j = i THEN Blank ELSE old[j]
      BY <1>1, <1>4 DEF Shifted
    <2> HIDE DEF old, new
    <2>5. ShiftLeft(old, i) = new
      <3>1. [old EXCEPT ![i - 1] = old[i], ![i] = Blank]
               = [j \in Slots |-> IF j = i THEN Blank
                                  ELSE IF j = i - 1 THEN old[i] ELSE old[j]]
        BY <1>1, <2>1, <2>2
      <3>2. i # i - 1
        BY <1>1
      <3> QED BY <2>2, <2>3, <2>4, <3>1, <3>2 DEF ShiftLeft
    <2> DEFINE acc == [found |-> TRUE, table |-> old]
    <2>6. ForgetSlot(acc, i, nets[k].ssid) = [found |-> TRUE, table |-> ShiftLeft(old, i)]
      BY DEF ForgetSlot
    <2> QED BY <2>1, <2>5, <2>6 DEF Turn, old, new
  <1> QED BY <1>1, <1>2, <1>3, <1>4

\* There is a first number of a kind.
LEMMA Least ==
    ASSUME NEW T \in SUBSET Nat, T # {}
    PROVE  \E n \in T : \A m \in T : n <= m
  <1>1. PICK n \in T : \A m \in T : ~ (<<m, n>> \in OpToRel(<, Nat))
    BY NatLessThanWellFounded, WFMin
  <1>2. \A m \in T : ~ (m < n)
    BY <1>1 DEF OpToRel
  <1> QED BY <1>2

\* The loop goes through these turns.
LEMMA ForgetLoop ==
    ASSUME Tidy(networks, count), NEW k \in 1 .. count,
           NEW loop, loop = [i \in 0 .. count |->
                               IF i = 0 THEN [found |-> FALSE, table |-> networks]
                               ELSE ForgetSlot(loop[i - 1], i, networks[k].ssid)]
    PROVE  loop[count] = Turn(networks, k, count)
  <1> DEFINE Wrong == {i \in 0 .. count : loop[i] # Turn(networks, k, i)}
  <1>0. count \in Nat /\ 0 < k
    BY LengthsAssumption DEF Tidy
  <1> SUFFICES ASSUME loop[count] # Turn(networks, k, count) PROVE FALSE
    OBVIOUS
  <1>1. PICK i \in Wrong : \A j \in Wrong : i <= j
    <2>1. Wrong \in SUBSET Nat /\ count \in Wrong
      BY <1>0
    <2> HIDE DEF Wrong
    <2> QED BY <2>1, Least
  <1>2. CASE i = 0
    BY <1>0, <1>1, <1>2 DEF Turn
  <1>3. CASE i # 0
    <2>1. i \in 1 .. count /\ i - 1 \in 0 .. count /\ i - 1 \notin Wrong
      BY <1>0, <1>1, <1>3
    <2>2. loop[i] = ForgetSlot(loop[i - 1], i, networks[k].ssid)
      BY <1>3, <2>1
    <2>3. loop[i - 1] = Turn(networks, k, i - 1)
      BY <2>1
    <2> QED BY <1>1, <2>1, <2>2, <2>3, ForgetTurn
  <1> QED BY <1>2, <1>3

\* wifi_forget_network of the network in slot k.
LEMMA Forgets ==
    ASSUME Tidy(networks, count), NEW k \in 1 .. count, ForgetNetwork(networks[k].ssid)
    PROVE  Change(Shifted(networks, k, count), count - 1,
                  [kind |-> "forget", ssid |-> networks[k].ssid])
  <1> DEFINE turns == [i \in 0 .. count |-> Turn(networks, k, i)]
             loop == CHOOSE loop : loop = [i \in 0 .. count |->
                               IF i = 0 THEN [found |-> FALSE, table |-> networks]
                               ELSE ForgetSlot(loop[i - 1], i, networks[k].ssid)]
  <1>0. count \in Nat /\ 0 < k /\ k <= count /\ count \in 0 .. count
    BY LengthsAssumption DEF Tidy
  <1>1. turns = [i \in 0 .. count |->
                   IF i = 0 THEN [found |-> FALSE, table |-> networks]
                   ELSE ForgetSlot(turns[i - 1], i, networks[k].ssid)]
    <2>1. ASSUME NEW i \in 0 .. count
          PROVE  Turn(networks, k, i) = IF i = 0 THEN [found |-> FALSE, table |-> networks]
                   ELSE ForgetSlot(turns[i - 1], i, networks[k].ssid)
      <3>1. CASE i = 0
        BY <1>0, <3>1 DEF Turn
      <3>2. CASE i # 0
        <4>1. i \in 1 .. count /\ turns[i - 1] = Turn(networks, k, i - 1)
          BY <1>0, <3>2
        <4> QED BY <3>2, <4>1, ForgetTurn
      <3> QED BY <3>1, <3>2
    <2> QED BY <2>1
  <1>2. loop = [i \in 0 .. count |->
                   IF i = 0 THEN [found |-> FALSE, table |-> networks]
                   ELSE ForgetSlot(loop[i - 1], i, networks[k].ssid)]
    <2>1. \E f : f = [i \in 0 .. count |->
                   IF i = 0 THEN [found |-> FALSE, table |-> networks]
                   ELSE ForgetSlot(f[i - 1], i, networks[k].ssid)]
      <3> HIDE DEF turns
      <3> QED BY <1>1
    <2> QED BY <2>1, Zenon
  <1>3. /\ loop[count].found
        /\ Change(loop[count].table, count - 1,
                  [kind |-> "forget", ssid |-> networks[k].ssid])
    BY DEF ForgetNetwork
  <1> HIDE DEF loop
  <1>4. loop[count] = Turn(networks, k, count)
    BY <1>2, ForgetLoop
  <1>5. loop[count].table = Shifted(networks, k, count)
    BY <1>0, <1>4 DEF Turn
  <1> QED BY <1>3, <1>5

-----------------------------------------------------------------------------
(* The array as the table that NetworkStore has.                           *)

LEMMA TableEntries ==
    ASSUME NEW nets, NEW n, Tidy(nets, n)
    PROVE  /\ TableOf(nets, n) = [s \in {nets[i].ssid : i \in 1 .. n} |-> TableOf(nets, n)[s]]
           /\ \A k \in 1 .. n : TableOf(nets, n)[nets[k].ssid] = nets[k].pass
  <1>1. ASSUME NEW k \in 1 .. n
        PROVE  TableOf(nets, n)[nets[k].ssid] = nets[k].pass
    <2> DEFINE s == nets[k].ssid
    <2>1. First({i \in 1 .. n : nets[i].ssid = s}) = k
      BY FirstMatch
    <2>2. s \in {nets[i].ssid : i \in 1 .. n}
      OBVIOUS
    <2>3. TableOf(nets, n)[s] = nets[First({i \in 1 .. n : nets[i].ssid = s})].pass
      <3> HIDE DEF s
      <3> QED BY <2>2 DEF TableOf
    <2> QED BY <2>1, <2>3
  <1>2. TableOf(nets, n) = [s \in {nets[i].ssid : i \in 1 .. n} |-> TableOf(nets, n)[s]]
    BY DEF TableOf
  <1> QED BY <1>1, <1>2

LEMMA SameTable ==
    ASSUME NEW nets, NEW n, Tidy(nets, n), NEW T,
           T = [s \in {nets[i].ssid : i \in 1 .. n} |-> T[s]],
           \A k \in 1 .. n : T[nets[k].ssid] = nets[k].pass
    PROVE  TableOf(nets, n) = T
  <1> DEFINE U == TableOf(nets, n)
             used == {nets[i].ssid : i \in 1 .. n}
  <1>1. U = [s \in used |-> U[s]] /\ \A k \in 1 .. n : U[nets[k].ssid] = nets[k].pass
    BY TableEntries
  <1> HIDE DEF U
  <1>2. ASSUME NEW s \in used
        PROVE  U[s] = T[s]
    <2>1. PICK k \in 1 .. n : s = nets[k].ssid
      OBVIOUS
    <2> QED BY <1>1, <2>1
  <1> HIDE DEF used
  <1>3. T = [s \in used |-> T[s]]
    BY DEF used
  <1>4. U = T
    BY <1>1, <1>2, <1>3
  <1> QED BY <1>4 DEF U

\* What the table becomes.
With(T, ssid, pass) == [s \in DOMAIN T \cup {ssid} |-> IF s = ssid THEN pass ELSE T[s]]
Without(T, ssid) == [s \in DOMAIN T \ {ssid} |-> T[s]]

\* A network is saved, in the slot it has or in the next.
LEMMA SaveTable ==
    ASSUME NEW nets, NEW n, Tidy(nets, n), NEW new, NEW m, Tidy(new, m),
           NEW k \in 1 .. m, NEW ssid, NEW pass, m = n \/ (m = n + 1 /\ k = m),
           new[k].ssid = ssid, new[k].pass = pass,
           \A i \in 1 .. n : new[i].ssid = nets[i].ssid,
           \A i \in 1 .. n : i # k => new[i].pass = nets[i].pass
    PROVE  TableOf(new, m) = With(TableOf(nets, n), ssid, pass)
  <1> DEFINE T == TableOf(nets, n)
             U == With(T, ssid, pass)
  <1>0. n \in Nat /\ m \in Nat
    BY LengthsAssumption DEF Tidy
  <1>1. DOMAIN T = {nets[i].ssid : i \in 1 .. n} /\ \A i \in 1 .. n : T[nets[i].ssid] = nets[i].pass
    BY TableEntries DEF TableOf
  <1> HIDE DEF T
  <1>2. {new[i].ssid : i \in 1 .. m} = DOMAIN T \cup {ssid}
    <2>1. CASE m = n
      <3>1. {new[i].ssid : i \in 1 .. m} = {nets[i].ssid : i \in 1 .. n}
        BY <2>1
      <3> QED BY <1>1, <2>1, <3>1
    <2>2. CASE m = n + 1 /\ k = m
      <3>1. \A i \in 1 .. m : i \in 1 .. n \/ i = k
        BY <1>0, <2>2
      <3>2. 1 .. n \subseteq 1 .. m
        BY <1>0, <2>2
      <3> QED BY <1>1, <2>2, <3>1, <3>2
    <2> QED BY <2>1, <2>2
  <1>3. ASSUME NEW i \in 1 .. m PROVE U[new[i].ssid] = new[i].pass
    <2>1. CASE i = k
      BY <2>1, <1>2 DEF With
    <2>2. CASE i # k
      <3>1. i \in 1 .. n
        BY <2>2, <1>0
      <3>2. new[i].ssid # ssid
        <4>1. /\ i \in Slots /\ k \in Slots /\ i <= m /\ k <= m /\ (i < k \/ k < i)
          BY <2>2, <1>0, LengthsAssumption DEF Tidy, Slots
        <4> QED BY <4>1 DEF Tidy
      <3>3. new[i].ssid \in DOMAIN T \cup {ssid}
        BY <1>2
      <3>4. U[new[i].ssid] = T[new[i].ssid]
        BY <3>2, <3>3 DEF With
      <3> QED BY <2>2, <3>1, <3>4, <1>1
    <2> QED BY <2>1, <2>2
  <1>4. U = [s \in {new[i].ssid : i \in 1 .. m} |-> U[s]]
    BY <1>2 DEF With
  <1> HIDE DEF U
  <1>5. TableOf(new, m) = U
    BY <1>3, <1>4, SameTable
  <1> QED BY <1>5 DEF U, T

\* The network in slot k is forgotten.
LEMMA ForgetTable ==
    ASSUME NEW nets, NEW n, Tidy(nets, n), NEW k \in 1 .. n
    PROVE  TableOf(Shifted(nets, k, n), n - 1) = Without(TableOf(nets, n), nets[k].ssid)
  <1> DEFINE T == TableOf(nets, n)
             ssid == nets[k].ssid
             U == Without(T, ssid)
             new == Shifted(nets, k, n)
  <1>0. /\ n \in Nat /\ k \in Nat /\ k <= n /\ Slots = 1 .. MaxSaved /\ MaxSaved \in Nat
        /\ n <= MaxSaved /\ 1 <= k
    BY LengthsAssumption DEF Tidy, Slots
  <1>1. DOMAIN T = {nets[i].ssid : i \in 1 .. n} /\ \A i \in 1 .. n : T[nets[i].ssid] = nets[i].pass
    BY TableEntries DEF TableOf
  <1> HIDE DEF T
  <1>2. \A i \in 1 .. n - 1 : new[i] = IF i < k THEN nets[i] ELSE nets[i + 1]
    BY <1>0 DEF Shifted
  <1>3. Tidy(new, n - 1)
    BY ShiftedTidy
  <1> HIDE DEF new
  <1>4. \A i \in 1 .. n : i # k => nets[i].ssid # ssid
    <2>1. \A i \in 1 .. n : i # k => i \in Slots /\ k \in Slots /\ i <= n /\ (i < k \/ k < i)
      BY <1>0
    <2> QED BY <1>0, <2>1 DEF Tidy
  <1> DEFINE From(i) == IF i < k THEN i ELSE i + 1
  <1>5. \A i \in 1 .. n - 1 : From(i) \in 1 .. n /\ From(i) # k /\ new[i] = nets[From(i)]
    BY <1>0, <1>2
  <1>6. \A j \in 1 .. n : j # k => \E i \in 1 .. n - 1 : From(i) = j
    <2> SUFFICES ASSUME NEW j \in 1 .. n, j # k
                 PROVE  \E i \in 1 .. n - 1 : From(i) = j
      OBVIOUS
    <2>1. CASE j < k
      <3>1. j \in 1 .. n - 1 /\ From(j) = j
        BY <1>0, <2>1
      <3> QED BY <3>1
    <2>2. CASE ~(j < k)
      <3>1. j - 1 \in 1 .. n - 1 /\ From(j - 1) = j
        BY <1>0, <2>2
      <3> QED BY <3>1
    <2> QED BY <2>1, <2>2
  <1> HIDE DEF From
  <1>7. {new[i].ssid : i \in 1 .. n - 1} = DOMAIN T \ {ssid}
    <2>1. ASSUME NEW i \in 1 .. n - 1 PROVE new[i].ssid \in DOMAIN T \ {ssid}
      BY <1>1, <1>4, <1>5
    <2>2. ASSUME NEW s \in DOMAIN T \ {ssid} PROVE \E i \in 1 .. n - 1 : s = new[i].ssid
      <3>1. PICK j \in 1 .. n : s = nets[j].ssid
        BY <1>1
      <3>2. j # k
        BY <2>2, <3>1
      <3> QED BY <1>5, <1>6, <3>1, <3>2
    <2> QED BY <2>1, <2>2
  <1>8. ASSUME NEW i \in 1 .. n - 1 PROVE U[new[i].ssid] = new[i].pass
    <2>1. new[i].ssid \in DOMAIN T \ {ssid}
      BY <1>7
    <2>2. U[new[i].ssid] = T[new[i].ssid]
      BY <2>1 DEF Without
    <2> QED BY <1>1, <1>5, <2>2
  <1>9. U = [s \in {new[i].ssid : i \in 1 .. n - 1} |-> U[s]]
    BY <1>7 DEF Without
  <1> HIDE DEF U
  <1>10. TableOf(new, n - 1) = U
    BY <1>3, <1>8, <1>9, SameTable
  <1> QED BY <1>10 DEF U, T, new

-----------------------------------------------------------------------------
(* The invariant, action by action.                                        *)

LEMMA InitIInv == Init => IInv
  <1> SUFFICES ASSUME Init PROVE IInv
    OBVIOUS
  <1>1. /\ networks = [i \in Slots |-> Blank] /\ count = 0 /\ listing = <<>>
        /\ flash = Empty /\ written = Empty /\ job = NoJob /\ step = "none"
        /\ ended = "reset" /\ line = NoLine
    BY DEF Init, StoreInit, Empty
  <1>2. /\ Empty.networks = [i \in Slots |-> Blank] /\ Empty.count = 0 /\ 0 \in 0 .. MaxSaved
        /\ Empty \in Blobs
    BY BlankCell, LengthsAssumption DEF Empty, Blobs
  <1>3. Tidy(Empty.networks, 0)
    <2>1. \A i \in Slots : ~(i <= 0) /\ i \in Int
      BY LengthsAssumption DEF Slots
    <2>2. \A i, j \in Slots : ~(i < j /\ j <= 0)
      BY <2>1
    <2> QED BY <1>2, <2>1, <2>2, BlankCell DEF Tidy
  <1>4. Listed(Empty.networks, 0)
    BY <1>1 DEF Listed
  <1>5. Sorted
    BY <1>1, <1>2 DEF Sorted
  <1> QED BY <1>1, <1>2, <1>3, <1>4, <1>5 DEF IInv, Behind, Pending, Good

\* Nothing is being written at the prompt.
LEMMA Idle ==
    ASSUME IInv, job = NoJob
    PROVE  step = "none" /\ networks = flash.networks /\ count = flash.count
           /\ written = flash
  BY NoJobAssumption DEF IInv, Sorted, Behind

LEMMA Listings ==
    ASSUME NEW nets, NEW n, Tidy(nets, n)
    PROVE  /\ n \in Nat /\ n <= MaxSaved /\ 1 .. n \subseteq Slots
           /\ SubSeq(nets, 1, n) \in Seq(Cells) /\ Len(SubSeq(nets, 1, n)) = n
           /\ DOMAIN SubSeq(nets, 1, n) = 1 .. n
           /\ \A i \in 1 .. n : /\ SubSeq(nets, 1, n)[i] = nets[i]
                                /\ nets[i].ssid \in Usable /\ nets[i].pass \in Passwords
  <1>1. /\ n \in Nat /\ n <= MaxSaved /\ Slots = 1 .. MaxSaved /\ MaxSaved \in Nat
        /\ nets \in [1 .. MaxSaved -> Cells] /\ 1 .. n \subseteq Slots
    BY LengthsAssumption DEF Tidy, Slots
  <1>2. nets \in Seq(Cells) /\ Len(nets) = MaxSaved
    BY <1>1
  <1>3. /\ SubSeq(nets, 1, n) \in Seq(Cells) /\ Len(SubSeq(nets, 1, n)) = n
        /\ \A i \in 1 .. n : SubSeq(nets, 1, n)[i] = nets[i]
    BY <1>1, <1>2
  <1>4. DOMAIN SubSeq(nets, 1, n) = 1 .. n
    BY <1>1, <1>3
  <1>5. \A i \in 1 .. n : nets[i].ssid \in Usable /\ nets[i].pass \in Passwords
    BY <1>1 DEF Tidy
  <1> QED BY <1>1, <1>3, <1>4, <1>5

\* The table in flash.
LEMMA InFlash == FlashTable = TableOf(flash.networks, flash.count)
  BY DEF FlashTable, TableOf

LEMMA InFlashNext == FlashTable' = TableOf(flash'.networks, flash'.count)
  BY DEF FlashTable, TableOf

\* A command changes the array and begins to write it.
LEMMA ChangeIInv ==
    ASSUME IInv, step = "none", NEW new, NEW m, NEW j \in Jobs, Change(new, m, j),
           Tidy(new, m), TableOf(new, m) = Store!Table(j), line' = NoLine,
           j.kind = "value" => new = networks /\ m = count,
           \/ listing' = <<>>
           \/ listing' = listing /\ count <= m /\ m \in Int
              /\ \A i \in 1 .. count : new[i].ssid = networks[i].ssid
    PROVE  IInv'
  <1>1. /\ networks' = new /\ count' = m /\ job' = j /\ step' = "set"
        /\ flash' = flash /\ written' = written /\ ended' = ended
        /\ written = flash /\ count \in 0 .. MaxSaved
    BY DEF Change, Begin, IInv, Behind, Good, Tidy
  <1>2. Sorted'
    <2>1. listing' \in Seq(Usable)
      <3>1. listing \in Seq(Usable) /\ <<>> \in Seq(Usable)
        BY DEF IInv, Sorted
      <3> QED BY <3>1
    <2> QED BY <1>1, <2>1 DEF IInv, Sorted
  <1>3. Behind'
    BY <1>1 DEF IInv, Behind
  <1>4. Pending'
    <2>1. FlashTable' = FlashTable
      BY <1>1, InFlash, InFlashNext
    <2>2. Store!Table(job)' = Store!Table(j)
      BY <1>1, <2>1 DEF Store!Table
    <2>3. TableOf(networks', count') = Store!Table(job)'
      BY <1>1, <2>2
    <2> QED BY <1>1, <2>3 DEF Pending
  <1>5. Listed(flash.networks, flash.count)'
    BY <1>1 DEF IInv, Good, Listed
  <1>6. Listed(networks, count)'
    <2>1. CASE listing' = <<>>
      BY <2>1 DEF Listed
    <2>2. CASE /\ listing' = listing /\ count <= m /\ m \in Int
               /\ \A i \in 1 .. count : new[i].ssid = networks[i].ssid
      <3>1. \A i \in DOMAIN listing : i \in 1 .. count /\ networks[i].ssid = listing[i]
        BY <1>1, LengthsAssumption DEF IInv, Good, Listed, Sorted
      <3>2. \A i \in DOMAIN listing : i <= m /\ new[i].ssid = listing[i]
        BY <1>1, <2>2, <3>1, LengthsAssumption
      <3> QED BY <1>1, <2>2, <3>2 DEF Listed
    <2> QED BY <2>1, <2>2
  <1>7. Tidy(networks, count)' /\ Tidy(flash.networks, flash.count)'
    BY <1>1 DEF IInv, Good, Tidy, Slots
  <1> QED BY <1>1, <1>2, <1>3, <1>4, <1>5, <1>6, <1>7 DEF IInv, Good

\* What has no part in the array: the line and the listing.
LEMMA DialIInv ==
    ASSUME IInv, AtPrompt, NEW credentials \in Lines, Dial(credentials)
    PROVE  IInv'
  <1>1. step = "none"
    BY Idle DEF AtPrompt
  <1>2. /\ networks' = networks /\ count' = count /\ flash' = flash /\ written' = written
        /\ job' = job /\ step' = step /\ ended' = ended /\ listing' = listing
    BY DEF Dial, storeVars
  <1>3. line' = line \/ (line' = credentials /\ credentials.ssid \in Usable)
    BY DEF Dial, Accepts, Usable, Lines
  <1>4. Sorted'
    BY <1>1, <1>2, <1>3 DEF IInv, Sorted
  <1> QED BY <1>1, <1>2, <1>4 DEF IInv, Behind, Pending, Good, Tidy, Listed, Slots

LEMMA ConnectIInv ==
    ASSUME IInv, Connect
    PROVE  IInv'
  <1>1. PICK ssid \in Names, pass \in Passwords, save \in BOOLEAN :
          Dial(Line(ssid, pass, save))
    BY DEF Connect
  <1>2. Line(ssid, pass, save) \in Lines
    BY DEF Line, Lines
  <1> QED BY <1>1, <1>2, DialIInv DEF Connect

LEMMA LoadIInv ==
    ASSUME IInv, NEW index \in Indexes, Load(index)
    PROVE  IInv'
  <1> DEFINE ap == All[index + 1]
  <1>1. index + 1 \in 1 .. count /\ ap = networks[index + 1]
    BY Listings, IndexesAssumption DEF IInv, Good, Load, IsSaved, All
  <1>2. ap.ssid \in Names /\ ap.pass \in Passwords
    BY <1>1, Listings DEF IInv, Good, Usable
  <1>3. Dial(Line(ap.ssid, ap.pass, FALSE)) /\ AtPrompt
    BY DEF Load
  <1> HIDE DEF ap
  <1>4. Line(ap.ssid, ap.pass, FALSE) \in Lines
    BY <1>2 DEF Line, Lines
  <1> QED BY <1>3, <1>4, DialIInv

LEMMA ListIInv ==
    ASSUME IInv, List
    PROVE  IInv'
  <1>1. step = "none" /\ networks = flash.networks /\ count = flash.count /\ written = flash
    BY Idle DEF List, AtPrompt
  <1>2. /\ networks' = networks /\ count' = count /\ flash' = flash /\ written' = written
        /\ job' = job /\ step' = step /\ ended' = ended /\ line' = line
    BY DEF List, storeVars
  <1>3. /\ DOMAIN All = 1 .. count /\ count \in Nat
        /\ \A i \in 1 .. count : All[i] = networks[i] /\ networks[i].ssid \in Usable
    BY Listings DEF IInv, Good, All
  <1>4. listing' = [i \in 1 .. count |-> All[i].ssid]
    BY <1>3 DEF List
  <1> HIDE DEF All
  <1>5. listing' \in Seq(Usable) /\ \A i \in DOMAIN listing' : i <= count /\ networks[i].ssid = listing'[i]
    BY <1>3, <1>4
  <1>6. Sorted'
    BY <1>1, <1>2, <1>5 DEF IInv, Sorted
  <1>7. Listed(networks, count)' /\ Listed(flash.networks, flash.count)'
        /\ Listed(written.networks, written.count)'
    BY <1>1, <1>2, <1>5 DEF Listed
  <1> QED BY <1>1, <1>2, <1>6, <1>7 DEF IInv, Behind, Pending, Good, Tidy, Slots

\* The tables that Store!Table is of.
LEMMA StoreTables ==
    ASSUME NEW ssid, NEW pass
    PROVE  /\ Store!Table([kind |-> "save", ssid |-> ssid, pass |-> pass])
                = With(FlashTable, ssid, pass)
           /\ Store!Table([kind |-> "forget", ssid |-> ssid]) = Without(FlashTable, ssid)
  BY DEF Store!Table, With, Without

\* wifi_save_network keeps the array in order.
LEMMA SaveIInv ==
    ASSUME IInv, step = "none", NEW ssid \in Usable, NEW pass \in Passwords,
           SaveNetwork(ssid, pass), line' = NoLine, listing' = listing
    PROVE  IInv'
  <1> DEFINE request == [kind |-> "save", ssid |-> ssid, pass |-> pass]
  <1>1. /\ Tidy(networks, count) /\ count \in Nat /\ count <= MaxSaved
        /\ FlashTable = TableOf(networks, count)
    BY Listings, InFlash DEF IInv, Good, Behind
  <1>2. request \in Jobs /\ request.kind # "value"
    BY DEF Jobs, Usable
  <1>3. Store!Table(request) = With(TableOf(networks, count), ssid, pass)
    BY <1>1, StoreTables
  <1> HIDE DEF request
  <1>4. CASE Matches(ssid) # {}
    <2>1. PICK k \in 1 .. count : networks[k].ssid = ssid
      BY <1>4 DEF Matches
    <2>2. First(Matches(ssid)) = k
      BY <1>1, <2>1, FirstMatch DEF Matches
    <2> DEFINE new == [networks EXCEPT ![k].pass = pass]
    <2>3. Change(new, count, request)
      BY <1>4, <2>2 DEF SaveNetwork, request
    <2>4. /\ Tidy(new, count)
          /\ \A i \in Slots : /\ new[i].ssid = networks[i].ssid
                              /\ new[i].pass = IF i = k THEN pass ELSE networks[i].pass
      BY <1>1, ReplaceTidy
    <2> HIDE DEF new
    <2>5. \A i \in 1 .. count : /\ new[i].ssid = networks[i].ssid
                                /\ i # k => new[i].pass = networks[i].pass
      BY <1>1, <2>4, Listings
    <2>6. k \in Slots /\ new[k].ssid = ssid /\ new[k].pass = pass
      BY <1>1, <2>1, <2>4, Listings
    <2>7. TableOf(new, count) = With(TableOf(networks, count), ssid, pass)
      BY <1>1, <2>4, <2>5, <2>6, SaveTable
    <2> QED BY <1>1, <1>2, <1>3, <2>3, <2>4, <2>5, <2>7, ChangeIInv
  <1>5. CASE Matches(ssid) = {} /\ HasRoom
    <2> DEFINE new == [networks EXCEPT ![count + 1] = Entry(Cut(ssid, MaxSsid), pass)]
    <2>1. Change(new, count + 1, request)
      BY <1>5 DEF SaveNetwork, request
    <2>2. \A i \in 1 .. count : networks[i].ssid # ssid
      BY <1>5 DEF Matches
    <2>3. /\ Tidy(new, count + 1)
          /\ \A i \in 1 .. count : new[i] = networks[i]
          /\ new[count + 1].ssid = ssid /\ new[count + 1].pass = pass
      BY <1>1, <1>5, <2>2, AddTidy DEF HasRoom
    <2> HIDE DEF new
    <2>4. count + 1 \in 1 .. count + 1
      BY <1>1
    <2>5. TableOf(new, count + 1) = With(TableOf(networks, count), ssid, pass)
      BY <1>1, <2>3, <2>4, SaveTable
    <2>6. count <= count + 1 /\ count + 1 \in Int
      BY <1>1
    <2> QED BY <1>2, <1>3, <2>1, <2>3, <2>5, <2>6, ChangeIInv
  <1> QED BY <1>4, <1>5 DEF SaveNetwork

LEMMA StutterIInv ==
    ASSUME IInv, UNCHANGED storeVars, line' \in {line, NoLine}, listing' = listing
    PROVE  IInv'
  <1>1. /\ networks' = networks /\ count' = count /\ flash' = flash /\ written' = written
        /\ job' = job /\ step' = step /\ ended' = ended
    BY DEF storeVars
  <1>2. Sorted'
    BY <1>1 DEF IInv, Sorted
  <1>3. Pending'
    <2>1. FlashTable' = FlashTable
      BY <1>1, InFlash, InFlashNext
    <2>2. Store!Table(job)' = Store!Table(job) /\ Store!Strings(job)' = Store!Strings(job)
      BY <1>1, <2>1 DEF Store!Table, Store!Strings
    <2> QED BY <1>1, <2>2 DEF IInv, Pending
  <1> QED BY <1>1, <1>2, <1>3 DEF IInv, Behind, Good, Tidy, Listed, Slots

LEMMA ConnectReturnsIInv ==
    ASSUME IInv, ConnectReturns
    PROVE  IInv'
  <1>1. line \in Lines /\ line # NoLine /\ step = "none" /\ line.ssid \in Usable
    BY DEF IInv, Sorted, ConnectReturns
  <1>2. line.pass \in Passwords /\ line' = NoLine /\ listing' = listing
    BY <1>1 DEF ConnectReturns, Lines
  <1>3. CASE SaveNetwork(line.ssid, line.pass)
    BY <1>1, <1>2, <1>3, SaveIInv
  <1>4. CASE UNCHANGED storeVars
    BY <1>2, <1>4, StutterIInv
  <1> QED BY <1>3, <1>4 DEF ConnectReturns

\* Of a command at the prompt.
LEMMA NoLineAtPrompt ==
    ASSUME IInv, AtPrompt
    PROVE  /\ line = NoLine /\ step = "none" /\ Tidy(networks, count) /\ count \in Nat
           /\ FlashTable = TableOf(networks, count)
  BY Idle, InFlash, Listings DEF AtPrompt, IInv, Good

LEMMA ForgetIInv ==
    ASSUME IInv, NEW index \in Indexes, Forget(index)
    PROVE  IInv'
  <1> DEFINE k == index + 1
             request == [kind |-> "forget", ssid |-> networks[k].ssid]
             new == Shifted(networks, k, count)
  <1>1. /\ line = NoLine /\ step = "none" /\ Tidy(networks, count) /\ count \in Nat
        /\ FlashTable = TableOf(networks, count)
    BY NoLineAtPrompt DEF Forget
  <1>2. k \in 1 .. count /\ All[k] = networks[k]
    BY Listings, IndexesAssumption DEF IInv, Good, Forget, IsSaved, All
  <1>3. ForgetNetwork(networks[k].ssid) /\ line' = NoLine /\ listing' = <<>>
    BY <1>1, <1>2 DEF Forget
  <1> HIDE DEF k
  <1>4. Change(new, count - 1, request)
    BY <1>1, <1>2, <1>3, Forgets
  <1>5. Tidy(new, count - 1) /\ TableOf(new, count - 1) = Without(FlashTable, networks[k].ssid)
    BY <1>1, <1>2, ShiftedTidy, ForgetTable
  <1>6. Store!Table(request) = Without(FlashTable, networks[k].ssid)
    BY StoreTables
  <1>7. request \in Jobs /\ request.kind # "value"
    BY <1>1, <1>2, Listings DEF Jobs, Usable
  <1> HIDE DEF new, request
  <1> QED BY <1>1, <1>3, <1>4, <1>5, <1>6, <1>7, ChangeIInv

LEMMA ChangeValueIInv ==
    ASSUME IInv, ChangeValue
    PROVE  IInv'
  <1>1. /\ line = NoLine /\ step = "none" /\ Tidy(networks, count) /\ count \in Nat
        /\ FlashTable = TableOf(networks, count)
    BY NoLineAtPrompt DEF ChangeValue
  <1>2. PICK key \in Keys, value \in Values \cup {NoValue} : StoreValue(key, value)
    BY DEF ChangeValue
  <1> DEFINE request == [kind |-> "value", key |-> key, value |-> value]
  <1>3. request \in Jobs /\ Store!Table(request) = FlashTable
    BY DEF Jobs, Store!Table
  <1>4. Change(networks, count, request)
    BY <1>2 DEF StoreValue, Change
  <1> HIDE DEF request
  <1>5. line' = NoLine /\ listing' = listing
    BY <1>1 DEF ChangeValue
  <1>6. count <= count /\ count \in Int
    BY <1>1
  <1> QED BY <1>1, <1>3, <1>4, <1>5, <1>6, ChangeIInv

-----------------------------------------------------------------------------
(* The writes.                                                             *)

\* What is set is what was asked for.
LEMMA SetItemIInv ==
    ASSUME IInv, SetItem, UNCHANGED <<line, listing>>
    PROVE  IInv'
  <1>1. /\ networks' = networks /\ count' = count /\ flash' = flash /\ job' = job
        /\ step = "set" /\ step' = "commit" /\ ended' = ended
        /\ line' = line /\ listing' = listing /\ job \in Jobs /\ flash \in Blobs
    BY DEF SetItem, IInv, Sorted
  <1>2. FlashTable' = FlashTable /\ Store!Table(job)' = Store!Table(job)
    <2>1. FlashTable' = FlashTable
      BY <1>1, InFlash, InFlashNext
    <2> QED BY <1>1, <2>1 DEF Store!Table
  <1>3. Store!Strings(job)' = Store!Strings(job)
    BY <1>1 DEF Store!Strings
  <1>4. /\ written' \in Blobs
        /\ written'.networks = networks /\ written'.count = count
        /\ written'.values = Store!Strings(job)
    <2>1. CASE job.kind = "value"
      <3>1. networks = flash.networks /\ count = flash.count
        BY <1>1, <2>1 DEF IInv, Behind
      <3>2. job.key \in Keys /\ job.value \in Values \cup {NoValue}
        BY <1>1, <2>1 DEF Jobs
      <3>3. written' = [flash EXCEPT !.values = [flash.values EXCEPT ![job.key] = job.value]]
        BY <1>1, <2>1 DEF SetItem, Blobs
      <3>4. /\ written' \in Blobs /\ written'.networks = flash.networks
            /\ written'.count = flash.count
            /\ written'.values = [flash.values EXCEPT ![job.key] = job.value]
        <4> DEFINE strings == [flash.values EXCEPT ![job.key] = job.value]
        <4>1. strings \in [Keys -> Values \cup {NoValue}]
          BY <1>1, <3>2 DEF Blobs
        <4> HIDE DEF strings
        <4>2. written' = [flash EXCEPT !.values = strings]
          BY <3>3 DEF strings
        <4>3. /\ written' \in Blobs /\ written'.networks = flash.networks
              /\ written'.count = flash.count /\ written'.values = strings
          BY <1>1, <4>1, <4>2 DEF Blobs
        <4> QED BY <4>3 DEF strings
      <3> QED BY <2>1, <3>1, <3>4 DEF Store!Strings
    <2>2. CASE job.kind # "value"
      <3>1. written' = [flash EXCEPT !.networks = networks, !.count = count]
        BY <2>2 DEF SetItem
      <3>2. networks \in [Slots -> Cells] /\ count \in 0 .. MaxSaved
        BY DEF IInv, Good, Tidy
      <3> QED BY <1>1, <2>2, <3>1, <3>2 DEF Blobs, Store!Strings
    <2> QED BY <2>1, <2>2
  <1>5. Sorted'
    BY <1>1, <1>4 DEF IInv, Sorted, Blobs, Slots, Cells
  <1>6. Behind'
    BY <1>1, <1>4 DEF Behind
  <1>7. Pending'
    BY <1>1, <1>2, <1>3, <1>4 DEF IInv, Pending
  <1>8. Good(networks, count)' /\ Good(flash.networks, flash.count)'
        /\ Good(written.networks, written.count)'
    BY <1>1, <1>4 DEF IInv, Good, Tidy, Listed, Slots
  <1> QED BY <1>5, <1>6, <1>7, <1>8 DEF IInv

\* The write has ended, or a reset has cut it short: what is in flash is what
\* was there or what was set.
LEMMA EndIInv ==
    ASSUME IInv, flash' = flash \/ flash' = written,
           networks' = flash'.networks, count' = flash'.count, written' = flash',
           job' = NoJob, step' = "none", ended' \in {"returned", "reset"},
           line' \in {line, NoLine}, line' # NoLine => step = "none", listing' = listing
    PROVE  IInv'
  <1>1. Sorted'
    BY DEF IInv, Sorted, Blobs, Slots, Cells
  <1>2. Behind' /\ Pending'
    BY DEF Behind, Pending
  <1>3. Good(flash.networks, flash.count)'
    BY DEF IInv, Good, Tidy, Listed, Slots
  <1> QED BY <1>1, <1>2, <1>3 DEF IInv, Good, Tidy, Listed, Slots

LEMMA CommitIInv ==
    ASSUME IInv, Commit, UNCHANGED <<line, listing>>
    PROVE  IInv'
  <1>1. networks = written.networks /\ count = written.count /\ line = NoLine
    BY DEF Commit, IInv, Behind, Sorted
  <1> QED BY <1>1, EndIInv DEF Commit, Committed

LEMMA ResetIInv ==
    ASSUME IInv, Reset
    PROVE  IInv'
  BY EndIInv DEF Reset, StoreReset

LEMMA NextIInv == IInv /\ [Next]_vars => IInv'
  <1> SUFFICES ASSUME IInv, [Next]_vars PROVE IInv'
    OBVIOUS
  <1>1. CASE Connect
    BY <1>1, ConnectIInv
  <1>2. CASE ConnectReturns
    BY <1>2, ConnectReturnsIInv
  <1>3. CASE List
    BY <1>3, ListIInv
  <1>4. ASSUME NEW index \in Indexes, Load(index) \/ Forget(index)
        PROVE  IInv'
    BY <1>4, LoadIInv, ForgetIInv
  <1>5. CASE ChangeValue
    BY <1>5, ChangeValueIInv
  <1>6. CASE Write
    BY <1>6, SetItemIInv, CommitIInv DEF Write
  <1>7. CASE Reset
    BY <1>7, ResetIInv
  <1>8. CASE UNCHANGED vars
    BY <1>8, StutterIInv DEF vars
  <1> QED BY <1>1, <1>2, <1>3, <1>4, <1>5, <1>6, <1>7, <1>8 DEF Next

\* In every behaviour what is in memory, in flash and under way agree, the
\* arrays are in order and a name that is saved is a name that fits.
THEOREM Correct == Spec => []IInv
  BY InitIInv, NextIInv, PTL DEF Spec

-----------------------------------------------------------------------------
(* What the invariant says of a state.                                     *)

LEMMA IInvTypes == IInv => TypeOK
  <1> SUFFICES ASSUME IInv PROVE TypeOK
    OBVIOUS
  <1>1. Usable \subseteq Stored
    BY UsableNames
  <1>2. Cells \subseteq [ssid : Stored \cup {<<>>}, pass : Passwords \cup {NoPassword}]
    BY <1>1 DEF Cells
  <1>3. Blobs \subseteq Tables
    BY <1>2 DEF Blobs, Tables
  <1>4. flash \in Tables /\ written \in Tables
    BY <1>3 DEF IInv, Sorted
  <1>5. [flash EXCEPT !.networks = networks, !.count = count] \in Tables
    <2>1. networks \in [Slots -> Cells] /\ count \in 0 .. MaxSaved /\ flash \in Blobs
      BY DEF IInv, Good, Tidy, Sorted
    <2>2. [flash EXCEPT !.networks = networks, !.count = count] \in Blobs
      BY <2>1 DEF Blobs
    <2> QED BY <2>2, <1>3
  <1>6. listing \in Seq(Stored)
    <2>1. listing \in Seq(Usable)
      BY DEF IInv, Sorted
    <2> QED BY <2>1, <1>1
  <1> QED BY <1>4, <1>5, <1>6 DEF IInv, Sorted, TypeOK, StoreTypeOK

LEMMA TidyIsPacked ==
    ASSUME NEW nets, NEW n, Tidy(nets, n), NEW i \in Slots, NEW j \in Slots
    PROVE  /\ i <= n => nets[i].ssid # <<>>
           /\ i > n => nets[i] = Blank
           /\ i < j /\ j <= n => nets[i].ssid # nets[j].ssid
  <1>1. i > n => ~(i <= n)
    BY LengthsAssumption DEF Tidy, Slots
  <1> QED BY <1>1, BlankCell DEF Tidy

LEMMA IInvPacked == IInv => Packed
  <1> SUFFICES ASSUME IInv PROVE Packed
    OBVIOUS
  <1> DEFINE memory == [flash EXCEPT !.networks = networks, !.count = count]
  <1>1. memory.networks = networks /\ memory.count = count
    BY DEF IInv, Sorted, Blobs
  <1> HIDE DEF memory
  <1>2. ASSUME NEW table \in {memory, flash}, NEW i \in Slots, NEW j \in Slots
        PROVE  /\ i <= table.count => table.networks[i].ssid # <<>>
               /\ i > table.count => table.networks[i] = Blank
               /\ i < j /\ j <= table.count =>
                     table.networks[i].ssid # table.networks[j].ssid
    <2>1. Tidy(table.networks, table.count)
      BY <1>1 DEF IInv, Good
    <2> QED BY <2>1, TidyIsPacked
  <1> QED BY <1>2 DEF Packed, memory

LEMMA IInvListed == IInv => ListedIndexHolds
  BY DEF IInv, Good, Listed, ListedIndexHolds

\* Every variable has its type: no name in flash or in memory is longer than
\* its field, and there is a job exactly as long as something is being written.
THEOREM TypesCorrect == Spec => []TypeOK
  BY Correct, IInvTypes, PTL

\* The first slots hold different networks and the others nothing, in memory and
\* in flash, whatever is saved, forgotten and cut short by a reset.
THEOREM ArraysArePacked == Spec => []Packed
  BY Correct, IInvPacked, PTL

\* An index from the last listing is that of the network that was listed.
THEOREM IndexesHold == Spec => []ListedIndexHolds
  BY Correct, IInvListed, PTL

-----------------------------------------------------------------------------
(* The store that the array implements.                                    *)

LEMMA InitStore == Init => Store!Init
  <1> SUFFICES ASSUME Init PROVE Store!Init
    OBVIOUS
  <1>1. flash = Empty /\ job = NoJob /\ ended = "reset"
    BY DEF Init, StoreInit
  <1>2. flash.count = 0 /\ flash.values = [k \in Keys |-> NoValue]
    BY <1>1 DEF Empty
  <1>3. {flash.networks[i].ssid : i \in 1 .. flash.count} = {}
    BY <1>2
  <1>4. FlashTable = [s \in {} |-> s]
    BY <1>3 DEF FlashTable
  <1> QED BY <1>1, <1>2, <1>4 DEF Store!Init

\* There is a slot for each network of a table, ...
LEMMA TableSize ==
    ASSUME NEW nets, NEW n, Tidy(nets, n)
    PROVE  /\ Cardinality(DOMAIN TableOf(nets, n)) \in Nat
           /\ Cardinality(DOMAIN TableOf(nets, n)) <= n
  <1> DEFINE used == {nets[i].ssid : i \in 1 .. n}
             names == [i \in 1 .. n |-> nets[i].ssid]
  <1>1. n \in Nat /\ DOMAIN TableOf(nets, n) = used
    BY Listings DEF TableOf
  <1>2. names \in [1 .. n -> used] /\ \A s \in used : \E i \in 1 .. n : names[i] = s
    OBVIOUS
  <1> HIDE DEF used, names
  <1>3. names \in Surjection(1 .. n, used)
    BY <1>2 DEF Surjection
  <1>4. IsFiniteSet(1 .. n)
    BY <1>1, FS_Interval
  <1>5. Cardinality(used) \in Nat
    BY <1>3, <1>4, FS_Surjection, FS_CardinalityType
  <1>6. ExistsSurjection(1 .. n, used)
    BY <1>3 DEF ExistsSurjection
  <1> QED BY <1>1, <1>5, <1>6, FS_SurjCardinalityBound

\* NetworkStore has its own instance of FiniteSets.
LEMMA SameCardinality == \A S : Store!Cardinality(S) = Cardinality(S)
  BY DEF Store!Cardinality, Cardinality

\* ... so that what is asked of the array may be asked of the table.
LEMMA AskStore ==
    ASSUME IInv, step = "none", flash' = flash, ended' = ended, NEW j \in Jobs, job' = j,
           \/ j.kind = "save" /\ (Matches(j.ssid) # {} \/ HasRoom)
           \/ j.kind = "forget" /\ Matches(j.ssid) # {}
           \/ j.kind = "value"
    PROVE  Store!Next
  <1>1. /\ Tidy(networks, count) /\ count \in Nat /\ count <= MaxSaved
        /\ FlashTable = TableOf(networks, count) /\ job = NoJob
    BY Listings, InFlash DEF IInv, Good, Behind, Sorted
  <1>2. DOMAIN FlashTable = {networks[i].ssid : i \in 1 .. count}
    BY <1>1 DEF TableOf
  <1>3. ASSUME NEW ssid, Matches(ssid) # {} PROVE ssid \in DOMAIN FlashTable
    BY <1>2, <1>3 DEF Matches
  <1>4. HasRoom => Cardinality(DOMAIN FlashTable) < MaxSaved
    <2>1. /\ Cardinality(DOMAIN FlashTable) \in Nat
          /\ Cardinality(DOMAIN FlashTable) <= count
      BY <1>1, TableSize
    <2> QED BY <2>1, <1>1, LengthsAssumption DEF HasRoom
  <1>5. FlashTable' = FlashTable /\ flash.values' = flash.values
    BY InFlash, InFlashNext
  <1>6. Store!Possible(j)
    BY <1>3, <1>4, SameCardinality DEF Store!Possible
  <1>7. Store!Ask(j)
    BY <1>1, <1>5, <1>6 DEF Store!Ask
  <1>8. CASE j.kind = "save"
    <2>1. PICK s \in Names, p \in Passwords : j = [kind |-> "save", ssid |-> s, pass |-> p]
      BY <1>8 DEF Jobs
    <2> QED BY <1>7, <2>1 DEF Store!Next, Store!Save
  <1>9. CASE j.kind = "forget"
    <2>1. PICK s \in Names : j = [kind |-> "forget", ssid |-> s]
      BY <1>9 DEF Jobs
    <2> QED BY <1>7, <2>1 DEF Store!Next, Store!Forget
  <1>10. CASE j.kind = "value"
    <2>1. PICK k \in Keys, v \in Values \cup {NoValue} :
            j = [kind |-> "value", key |-> k, value |-> v]
      BY <1>10 DEF Jobs
    <2> QED BY <1>7, <2>1 DEF Store!Next, Store!SetValue
  <1> QED BY <1>8, <1>9, <1>10

\* What is written is what the store was asked for.
LEMMA StoreEffect ==
    ASSUME IInv, step = "commit", flash' = written
    PROVE  Store!Effect /\ job # NoJob
  <1>1. FlashTable' = Store!Table(job) /\ flash'.values = Store!Strings(job)
    BY InFlashNext DEF IInv, Pending
  <1> QED BY <1>1, NoJobAssumption DEF IInv, Sorted, Store!Effect

LEMMA StoreStutter ==
    ASSUME flash' = flash, job' = job, ended' = ended
    PROVE  UNCHANGED <<FlashTable, flash.values, job, ended>>
  BY InFlash, InFlashNext

LEMMA SaveStore ==
    ASSUME IInv, step = "none", NEW ssid \in Usable, NEW pass \in Passwords,
           SaveNetwork(ssid, pass)
    PROVE  Store!Next
  <1> DEFINE request == [kind |-> "save", ssid |-> ssid, pass |-> pass]
  <1>1. request \in Jobs /\ request.kind = "save" /\ request.ssid = ssid
    BY DEF Jobs, Usable
  <1>2. flash' = flash /\ ended' = ended /\ job' = request
    BY DEF SaveNetwork, Change, Begin
  <1>3. Matches(ssid) # {} \/ HasRoom
    BY DEF SaveNetwork
  <1> HIDE DEF request
  <1> QED BY <1>1, <1>2, <1>3, AskStore

LEMMA ForgetStore ==
    ASSUME IInv, NEW index \in Indexes, Forget(index)
    PROVE  Store!Next
  <1> DEFINE ssid == All[index + 1].ssid
             request == [kind |-> "forget", ssid |-> ssid]
  <1>1. index + 1 \in 1 .. count /\ All[index + 1] = networks[index + 1]
    BY Listings, IndexesAssumption DEF IInv, Good, Forget, IsSaved, All
  <1>2. ssid \in Names /\ Matches(ssid) # {}
    <2>1. networks[index + 1].ssid \in Usable
      BY <1>1, Listings DEF IInv, Good
    <2> QED BY <1>1, <2>1 DEF Matches, Usable
  <1>3. step = "none"
    BY Idle DEF Forget, AtPrompt
  <1>4. flash' = flash /\ ended' = ended /\ job' = request
    BY DEF Forget, ForgetNetwork, Change, Begin
  <1> HIDE DEF ssid
  <1>5. request \in Jobs /\ request.kind = "forget" /\ request.ssid = ssid
    BY <1>2 DEF Jobs
  <1> HIDE DEF request
  <1> QED BY <1>2, <1>3, <1>4, <1>5, AskStore

LEMMA ChangeValueStore ==
    ASSUME IInv, ChangeValue
    PROVE  Store!Next
  <1>1. PICK key \in Keys, value \in Values \cup {NoValue} : StoreValue(key, value)
    BY DEF ChangeValue
  <1> DEFINE request == [kind |-> "value", key |-> key, value |-> value]
  <1>2. request \in Jobs /\ request.kind = "value"
    BY DEF Jobs
  <1>3. step = "none"
    BY Idle DEF ChangeValue, AtPrompt
  <1>4. flash' = flash /\ ended' = ended /\ job' = request
    BY <1>1 DEF StoreValue, Begin
  <1> HIDE DEF request
  <1> QED BY <1>2, <1>3, <1>4, AskStore

\* A write that ends is the return of the call; a reset takes the change back
\* or lets it be, as a whole.
LEMMA WriteStore ==
    ASSUME IInv, SetItem \/ Commit
    PROVE  [Store!Next]_<<FlashTable, flash.values, job, ended>>
  <1>1. CASE SetItem
    BY <1>1, StoreStutter DEF SetItem
  <1>2. CASE Commit
    <2>1. step = "commit" /\ flash' = written /\ job' = NoJob /\ ended' = "returned"
      BY <1>2 DEF Commit, Committed
    <2>2. Store!Return
      BY <2>1, StoreEffect DEF Store!Return
    <2> QED BY <2>2 DEF Store!Next
  <1> QED BY <1>1, <1>2

LEMMA ResetStore ==
    ASSUME IInv, StoreReset
    PROVE  Store!Next
  <1>1. job' = NoJob /\ ended' = "reset"
    BY DEF StoreReset
  <1>2. Store!Reset
    <2>1. CASE flash' = flash
      <3>1. FlashTable' = FlashTable
        BY <2>1, InFlash, InFlashNext
      <3> QED BY <1>1, <2>1, <3>1 DEF Store!Reset
    <2>2. CASE step = "commit" /\ flash' = written
      BY <1>1, <2>2, StoreEffect DEF Store!Reset
    <2> QED BY <2>1, <2>2 DEF StoreReset
  <1> QED BY <1>2 DEF Store!Next

LEMMA StepStore == IInv /\ [Next]_vars => [Store!Next]_<<FlashTable, flash.values, job, ended>>
  <1> SUFFICES ASSUME IInv, [Next]_vars
               PROVE  [Store!Next]_<<FlashTable, flash.values, job, ended>>
    OBVIOUS
  <1> DEFINE Step == [Store!Next]_<<FlashTable, flash.values, job, ended>>
  <1>1. ASSUME UNCHANGED storeVars PROVE Step
    BY <1>1, StoreStutter DEF storeVars
  <1>2. CASE Connect
    <2>1. UNCHANGED storeVars
      BY <1>2 DEF Connect, Dial
    <2> QED BY <2>1, <1>1
  <1>3. CASE ConnectReturns
    <2>1. line \in Lines /\ step = "none" /\ line.ssid \in Usable
      BY <1>3 DEF IInv, Sorted, ConnectReturns
    <2>2. line.pass \in Passwords
      BY <2>1 DEF Lines
    <2>3. CASE SaveNetwork(line.ssid, line.pass)
      BY <2>1, <2>2, <2>3, SaveStore
    <2>4. CASE UNCHANGED storeVars
      BY <2>4, <1>1
    <2> QED BY <1>3, <2>3, <2>4 DEF ConnectReturns
  <1>4. CASE List
    BY <1>1, <1>4 DEF List
  <1>5. ASSUME NEW index \in Indexes, Load(index) PROVE Step
    <2>1. UNCHANGED storeVars
      BY <1>5 DEF Load, Dial
    <2> QED BY <2>1, <1>1
  <1>6. ASSUME NEW index \in Indexes, Forget(index) PROVE Step
    BY <1>6, ForgetStore
  <1>7. CASE ChangeValue
    BY <1>7, ChangeValueStore
  <1>8. CASE Write
    BY <1>8, WriteStore DEF Write
  <1>9. CASE Reset
    BY <1>9, ResetStore DEF Reset
  <1>10. CASE UNCHANGED vars
    BY <1>10, <1>1 DEF vars
  <1>11. ASSUME NEW index \in Indexes, Load(index) \/ Forget(index) PROVE Step
    BY <1>5, <1>6, <1>11
  <1> QED BY <1>2, <1>3, <1>4, <1>7, <1>8, <1>9, <1>10, <1>11 DEF Next

\* The array, its count, the shift of wifi_forget_network and the writes in two
\* steps are a table by name, every change of which takes effect as a whole
\* before the call returns, or not at all when a reset comes first.
THEOREM ImplementsNetworkStore == Spec => StoreSpec
  BY Correct, InitStore, StepStore, PTL DEF Spec, StoreSpec, Store!Spec
=============================================================================
