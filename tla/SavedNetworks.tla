---------------------------- MODULE SavedNetworks ----------------------------
(***************************************************************************)
(* What is in flash: the saved networks of hardware/wifi.c, an array of    *)
(* MaxSaved slots and a count in memory that are written as one blob after *)
(* every change and read back by wifi_initialize, and the strings of       *)
(* hardware/storage.c.  s_wifi_storage_lock is held from the change in     *)
(* memory to the end of the write, and only the console writes strings:    *)
(* nothing but a reset, or a write that fails and so aborts, comes in      *)
(* between.  Console has the commands that make the calls.                 *)
(*                                                                         *)
(* An SSID is a sequence of characters; a slot is [ssid, pass], zeroed     *)
(* when it is Blank; slots are numbered from 1.  Passwords, keys and       *)
(* values are within their lengths.                                        *)
(***************************************************************************)
EXTENDS Naturals, Sequences

CONSTANTS
    Chars,               \* of which SSIDs are made
    Names,               \* the SSIDs that are typed
    MaxSsid,             \* WIFI_MAX_SSID_LENGTH
    Passwords, NoPassword,
    MaxSaved,            \* WIFI_MAX_SAVED_NETWORKS
    Keys, Values, NoValue,  \* of the strings
    NoJob

ASSUME NamesAssumption == \A name \in Names : name \in Seq(Chars) /\ Len(name) > 0
ASSUME LengthsAssumption == MaxSsid \in Nat \ {0} /\ MaxSaved \in Nat \ {0}
ASSUME NoValueAssumption == NoValue \notin Values

VARIABLES
    networks,  \* s_saved_networks.networks
    count,     \* s_saved_networks.count
    flash,     \* what is in flash: [networks, count, values]
    written,   \* what was set but perhaps not committed
    job,       \* what is being written
    step,      \* where the write is: "none", "set" or "commit"
    ended      \* how the last write ended: "returned" or "reset"

storeVars == <<networks, count, flash, written, job, step, ended>>

Slots == 1 .. MaxSaved
Entry(s, p) == [ssid |-> s, pass |-> p]
Blank == Entry(<<>>, NoPassword)
Empty == [networks |-> [i \in Slots |-> Blank], count |-> 0,
          values |-> [k \in Keys |-> NoValue]]

\* TRUNCATED_STRING_COPY into, and snprintf of, a field of so many characters
\* without the terminator.
Cut(name, length) == SubSeq(name, 1, IF Len(name) < length THEN Len(name) ELSE length)

Stored == {Cut(name, MaxSsid) : name \in Names}

\* What a write may be for.
Jobs == [kind : {"save"}, ssid : Names, pass : Passwords]
        \cup [kind : {"forget"}, ssid : Names]
        \cup [kind : {"value"}, key : Keys, value : Values \cup {NoValue}]

ASSUME NoJobAssumption == NoJob \notin Jobs

Tables == [networks : [Slots -> [ssid : Stored \cup {<<>>},
                                 pass : Passwords \cup {NoPassword}]],
           count : 0 .. MaxSaved,
           values : [Keys -> Values \cup {NoValue}]]

StoreTypeOK ==
    /\ {flash, written} \subseteq Tables
    /\ [flash EXCEPT !.networks = networks, !.count = count] \in Tables
    /\ step \in {"none", "set", "commit"}
    /\ job \in IF step = "none" THEN {NoJob} ELSE Jobs
    /\ ended \in {"returned", "reset"}

StoreInit ==
    /\ networks = Empty.networks /\ count = 0
    /\ flash = Empty /\ written = Empty
    /\ job = NoJob /\ step = "none" /\ ended = "reset"

-----------------------------------------------------------------------------
\* _get_saved_network: the slots that match, the first of which is returned.
Matches(ssid) == {i \in 1 .. count : networks[i].ssid = ssid}
First(S) == CHOOSE i \in S : \A j \in S : i <= j

\* wifi_get_all_saved_networks.
All == SubSeq(networks, 1, count)

Begin(newJob) ==
    /\ job' = newJob
    /\ step' = "set"
    /\ UNCHANGED <<flash, written, ended>>

\* What a changed table leads to.
Change(newNetworks, newCount, newJob) ==
    /\ networks' = newNetworks
    /\ count' = newCount
    /\ Begin(newJob)

\* Mutant: one slot too many.
RoomForOneMore == count <= MaxSaved

HasRoom == count < MaxSaved

CanSave(ssid) == Matches(ssid) # {} \/ HasRoom

\* wifi_save_network, when there is room; else it does nothing.
SaveNetwork(ssid, pass) ==
    LET request == [kind |-> "save", ssid |-> ssid, pass |-> pass]
    IN  \/ /\ Matches(ssid) # {}
           /\ Change([networks EXCEPT ![First(Matches(ssid))].pass = pass],
                     count, request)
        \/ /\ Matches(ssid) = {} /\ HasRoom
           /\ Change([networks EXCEPT ![count + 1] = Entry(Cut(ssid, MaxSsid), pass)],
                     count + 1, request)

\* Mutant: the slots after the forgotten one stay where they are.
NoShift(table, i) == table

\* Slot i moves one to the left.
ShiftLeft(table, i) == [table EXCEPT ![i - 1] = table[i], ![i] = Blank]

\* One turn of the loop of wifi_forget_network.
ForgetSlot(acc, i, ssid) ==
    IF acc.found THEN [acc EXCEPT !.table = ShiftLeft(@, i)]
    ELSE IF acc.table[i].ssid = ssid
         THEN [found |-> TRUE, table |-> [acc.table EXCEPT ![i] = Blank]]
         ELSE acc

\* wifi_forget_network, of a network that is saved.
ForgetNetwork(ssid) ==
    LET loop[i \in 0 .. count] == IF i = 0 THEN [found |-> FALSE, table |-> networks]
                                  ELSE ForgetSlot(loop[i - 1], i, ssid)
    IN  /\ loop[count].found
        /\ Change(loop[count].table, count - 1, [kind |-> "forget", ssid |-> ssid])

\* storage_set_string, and storage_delete with NoValue.
StoreValue(key, value) ==
    /\ Begin([kind |-> "value", key |-> key, value |-> value])
    /\ UNCHANGED <<networks, count>>

-----------------------------------------------------------------------------
(* _wifi_flush_saved_networks, storage_set_blob and their like.            *)

\* nvs_set_blob, nvs_set_str or nvs_erase_key.
SetItem ==
    /\ step = "set"
    /\ written' = IF job.kind = "value"
                  THEN [flash EXCEPT !.values[job.key] = job.value]
                  ELSE [flash EXCEPT !.networks = networks, !.count = count]
    /\ step' = "commit"
    /\ UNCHANGED <<networks, count, flash, job, ended>>

\* Mutant: what is set is not committed.
Uncommitted == flash

Committed == written

\* nvs_commit; the call returns.
Commit ==
    /\ step = "commit"
    /\ flash' = Committed
    /\ job' = NoJob /\ step' = "none" /\ ended' = "returned"
    /\ UNCHANGED <<networks, count, written>>

\* A reset: what was set may or may not be in flash.  wifi_initialize copies
\* the blob that is there.
StoreReset ==
    /\ flash' \in IF step = "commit" THEN {flash, written} ELSE {flash}
    /\ networks' = flash'.networks
    /\ count' = flash'.count
    /\ written' = flash'
    /\ job' = NoJob /\ step' = "none" /\ ended' = "reset"

-----------------------------------------------------------------------------
\* The first count slots hold different networks and the others are zeroed,
\* in memory and in flash: no save hides behind another, and no forgotten
\* network comes back when the count grows again.  Looking a name up in full
\* and storing it cut would not keep it so; that no name is cut does.
Packed ==
    \A table \in {[flash EXCEPT !.networks = networks, !.count = count], flash} :
        \A i, j \in Slots :
            /\ i <= table.count => table.networks[i].ssid # <<>>
            /\ i > table.count => table.networks[i] = Blank
            /\ i < j /\ j <= table.count =>
                  table.networks[i].ssid # table.networks[j].ssid

\* The table in flash, by SSID.
FlashTable ==
    LET used == {flash.networks[i].ssid : i \in 1 .. flash.count}
    IN  [s \in used |->
           flash.networks[First({i \in 1 .. flash.count :
                                    flash.networks[i].ssid = s})].pass]

\* The array, the count and the writes are the store they promise to be: every
\* call has its effect as a whole or, if a reset comes first, none.
Store == INSTANCE NetworkStore WITH saved <- FlashTable, values <- flash.values
StoreSpec == Store!Spec
=============================================================================
