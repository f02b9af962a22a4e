------------------------------- MODULE Console -------------------------------
(***************************************************************************)
(* The commands of commands.c that save, load and forget networks and set  *)
(* and delete values, on top of SavedNetworks.  The console runs one       *)
(* command at a time, and no other task changes what is saved.             *)
(*                                                                         *)
(* Of wifi_connect there is what becomes of the credentials; how it comes  *)
(* to its answer is in Wifi.  A line whose arguments do not parse, and the *)
(* commands that only print, change nothing.                               *)
(***************************************************************************)
EXTENDS SavedNetworks, Integers

CONSTANTS
    NoLine,
    Indexes  \* the indexes that are typed, counted from 0

ASSUME IndexesAssumption == Indexes \subseteq Int

VARIABLES
    line,     \* the credentials wifi_connect is busy with: [ssid, pass, save]
    listing   \* the SSIDs the user was last shown, as far as they still count

vars == <<storeVars, line, listing>>

Line(ssid, pass, save) == [ssid |-> ssid, pass |-> pass, save |-> save]
Lines == [ssid : Names, pass : Passwords, save : BOOLEAN]

ASSUME NoLineAssumption == NoLine \notin Lines

TypeOK ==
    /\ StoreTypeOK
    /\ line \in Lines \cup {NoLine}
    /\ listing \in Seq(Stored)

Init == StoreInit /\ line = NoLine /\ listing = <<>>

AtPrompt == line = NoLine /\ job = NoJob

-----------------------------------------------------------------------------
(* connect.                                                                *)

\* Mutant: names of any length are taken.
TakesAll(ssid) == TRUE

\* wifi_connect refuses what is longer than the field of the driver.  (Of what
\* fills the field the driver gets all but the last character.)
Accepts(ssid) == Len(ssid) <= MaxSsid

\* wifi_connect begins, or returns at once.
Dial(credentials) ==
    /\ line' = IF Accepts(credentials.ssid) THEN credentials ELSE line
    /\ UNCHANGED <<storeVars, listing>>

\* wifi_connect returns.  Credentials are saved once they have worked, if the
\* user asked for it and there is room.
ConnectReturns ==
    /\ line # NoLine
    /\ \E success \in BOOLEAN :
          IF success /\ line.save /\ CanSave(line.ssid)
          THEN SaveNetwork(line.ssid, line.pass)
          ELSE UNCHANGED storeVars
    /\ line' = NoLine
    /\ UNCHANGED listing

-----------------------------------------------------------------------------
(* load and forget: without an index they list what is saved; a wrong index *)
(* is refused.                                                             *)

List ==
    /\ AtPrompt
    /\ listing' = [i \in DOMAIN All |-> All[i].ssid]
    /\ UNCHANGED <<storeVars, line>>

IsSaved(index) == index >= 0 /\ index < Len(All)

Load(index) ==
    /\ AtPrompt /\ IsSaved(index)
    /\ LET ap == All[index + 1] IN Dial(Line(ap.ssid, ap.pass, FALSE))

\* The networks behind the forgotten one move up: the listing no longer counts.
Forget(index) ==
    /\ AtPrompt /\ IsSaved(index)
    /\ ForgetNetwork(All[index + 1].ssid)
    /\ listing' = <<>>
    /\ UNCHANGED line

Connect == AtPrompt /\ \E ssid \in Names, pass \in Passwords, save \in BOOLEAN :
                          Dial(Line(ssid, pass, save))

\* set-value and delete-value.
ChangeValue ==
    /\ AtPrompt
    /\ \E key \in Keys, value \in Values \cup {NoValue} : StoreValue(key, value)
    /\ UNCHANGED <<line, listing>>

-----------------------------------------------------------------------------
\* The write that a command has begun goes on, or the device is reset.
Write == (SetItem \/ Commit) /\ UNCHANGED <<line, listing>>

Reset == StoreReset /\ line' = NoLine /\ UNCHANGED listing

Next ==
    \/ Connect \/ ConnectReturns
    \/ List
    \/ \E index \in Indexes : Load(index) \/ Forget(index)
    \/ ChangeValue
    \/ Write \/ Reset

Spec == Init /\ [][Next]_vars

-----------------------------------------------------------------------------
\* An index means what it meant when the networks were listed, until one is
\* forgotten: saving and replacing leave the others in place, and so does a
\* reset, whatever was being written when it came.
ListedIndexHolds ==
    \A i \in DOMAIN listing : i <= count /\ networks[i].ssid = listing[i]
=============================================================================
