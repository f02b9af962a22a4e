---------------------------- MODULE NetworkStore ----------------------------
(***************************************************************************)
(* What hardware/storage.c and the saved networks of hardware/wifi.c       *)
(* promise: strings by key, and a table of at most MaxSaved passwords by   *)
(* SSID, that a reset does not lose.  A change takes effect at once as a   *)
(* whole, before the call that asked for it returns, or not at all when a  *)
(* reset comes first.                                                      *)
(***************************************************************************)
EXTENDS Naturals, FiniteSets

CONSTANTS Names, Passwords, MaxSaved, Keys, Values, NoValue, NoJob

VARIABLES
    saved,   \* the passwords by SSID
    values,  \* the strings
    job,     \* the change that is under way
    ended    \* how the last call ended: it "returned", or there was a "reset"

Save(s, p) == [kind |-> "save", ssid |-> s, pass |-> p]
Forget(s) == [kind |-> "forget", ssid |-> s]
SetValue(k, v) == [kind |-> "value", key |-> k, value |-> v]

\* The table once a change is in effect, ...
Table(j) ==
    CASE j.kind = "save" ->
            [s \in DOMAIN saved \cup {j.ssid} |->
                IF s = j.ssid THEN j.pass ELSE saved[s]]
      [] j.kind = "forget" -> [s \in DOMAIN saved \ {j.ssid} |-> saved[s]]
      [] OTHER -> saved

\* ... and the strings.
Strings(j) == IF j.kind = "value" THEN [values EXCEPT ![j.key] = j.value]
                                  ELSE values

Init ==
    /\ saved = [s \in {} |-> s] /\ values = [k \in Keys |-> NoValue]
    /\ job = NoJob /\ ended = "reset"

\* A network that is not saved yet needs room; one to forget has to be there.
Possible(j) ==
    /\ j.kind = "save" =>
          j.ssid \in DOMAIN saved \/ Cardinality(DOMAIN saved) < MaxSaved
    /\ j.kind = "forget" => j.ssid \in DOMAIN saved

Ask(j) ==
    /\ job = NoJob
    /\ Possible(j)
    /\ job' = j
    /\ UNCHANGED <<saved, values, ended>>

Effect == saved' = Table(job) /\ values' = Strings(job)

\* A call that returns has had its effect; one that a reset cuts short may.
Return ==
    /\ job # NoJob
    /\ Effect
    /\ job' = NoJob /\ ended' = "returned"

Reset ==
    /\ UNCHANGED <<saved, values>> \/ (job # NoJob /\ Effect)
    /\ job' = NoJob /\ ended' = "reset"

Next ==
    \/ \E s \in Names : Ask(Forget(s)) \/ \E p \in Passwords : Ask(Save(s, p))
    \/ \E k \in Keys, v \in Values \cup {NoValue} : Ask(SetValue(k, v))
    \/ Return \/ Reset

Spec == Init /\ [][Next]_<<saved, values, job, ended>>
=============================================================================
