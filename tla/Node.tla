-------------------------------- MODULE Node --------------------------------
(***************************************************************************)
(* The firmware from power-up: the main thread that loads the              *)
(* configuration and starts uwb, and the shell thread whose commands       *)
(* change the configuration at the same time.                              *)
(*                                                                         *)
(*   src/src/main.c    main                                                *)
(*   src/src/cli.c     the `config' commands                               *)
(*   src/src/uwb.c     uwb_init's use of the configuration, uwb_start      *)
(*   src/src/config.c  config_init, config_erase, write_value, read_value  *)
(*                                                                         *)
(* The shell thread runs while main sleeps.  main has the higher priority: *)
(* it wakes up between any two instructions of the shell thread, and its   *)
(* read_buffer then overwrites what write_value was working on.            *)
(*                                                                         *)
(* What a buffer or the item holds is the map that ConfigStore implements  *)
(* for one caller, and what read_buffer in the middle of write_value can   *)
(* make of the chain of fields.                                            *)
(***************************************************************************)
EXTENDS Naturals, FiniteSets

CONSTANTS
  Modes,          \* the modes `config mode' can set
  Addresses,      \* the 8-byte addresses
  Coordinates,    \* the 32-bit coordinates
  Unset,          \* no value: not one of the above
  FlashFailures,  \* may the flash refuse a write?
  MaxExtra,       \* entries beside the four fields with which any field can still be
                  \* written: 8 of 10 bytes, the fields' 25 and 10 more make 115 of 118
  Commands,       \* the commands the user gives
  MaxRestarts     \* bound: restarts of the node

Values == Modes \cup Addresses \cup Coordinates
ASSUME ValuesAssumption == Unset \notin Values
ASSUME CommandsAssumption == Commands \subseteq {"erase", "mode", "address", "position"}
ASSUME EnvironmentAssumption == FlashFailures \in BOOLEAN /\ MaxRestarts \in Nat /\ MaxExtra \in Nat

Fields == {"MODE", "ADDRESS", "X", "Y"}
Maps   == [Fields -> Values \cup {Unset, "torn"}]
Empty  == [f \in Fields |-> Unset]
Zero   == [f \in Fields |-> "zero"]

\* What _buffer and the item hold; a value is "torn" when there is no telling which it
\* is.  A chain is "whole" when find_field sees every entry; "buried" when it begins
\* with the default item's CRC, whose second byte, 217, takes find_field past the end;
\* "spoilt" when there is no telling what find_field sees.  An extra entry is one that
\* find_field passes by: of no field, or a field's second.
Contents == [map : Maps, chain : {"whole", "buried", "spoilt"}, extra : 0 .. MaxExtra,
             crc : BOOLEAN]  \* crc: is it the one of what is before it?
Blank  == [map |-> Empty, chain |-> "whole", extra |-> 0, crc |-> FALSE]
Spoilt == [Blank EXCEPT !.chain = "spoilt"]

VARIABLES
  ram,      \* the contents of _buffer
  nvs,      \* the NVS item: [kind, content]; flash_init's dummy has no contents
  tlvSet,   \* config.c: is tlv.data set?
  main,     \* where main is
  uwb,      \* uwb.c: uwb_config, and whether the thread runs
  shell,    \* where the shell thread is
  mine,     \* what it has last put into _buffer, or taken from there: "overtaken" when
            \* main's read_buffer has come since, "stale" when it was config_init's
  page,     \* what nvs_write has copied from _buffer
  cmd,      \* the command in progress: what is still to be written, in order
  told,     \* history: what the user was last told was set, by a command given after
            \* config_init; Unset when a command has touched the field since
  restarts

vars == <<ram, nvs, tlvSet, main, uwb, shell, mine, page, cmd, told, restarts>>

NoItem   == [kind |-> "absent", content |-> Blank]
Dummy    == [kind |-> "dummy", content |-> Blank]
Full(c)  == [kind |-> "full", content |-> c]
NoCmd    == [name |-> "none", early |-> FALSE, set |-> Empty, todo |-> {}]
ConfigInit == {"boot", "read", "reread"}
MainPcs    == ConfigInit \cup {"uwb_init", "uwb_start", "returned", "gave_up"}
WritePcs   == {"write", "insert", "copy", "append", "tail", "length", "crc", "crc_store",
               "store", "storing", "reread"}

TypeOK ==
  /\ ram \in Contents /\ page \in Contents
  /\ nvs \in [kind : {"absent", "dummy", "full"}, content : Contents]
  /\ tlvSet \in BOOLEAN
  /\ main \in MainPcs
  /\ uwb \in [run : BOOLEAN, config : [Fields -> Values \cup {"zero", "dummy", "torn"}]]
  /\ shell \in WritePcs \cup {"idle", "verify", "fault"}
  /\ mine \in {"nothing", "field", "type", "entry", "tail", "length", "sum",
              "overtaken", "stale"}
  /\ cmd \in [name : Commands \cup {"none"}, early : BOOLEAN,
              set : Maps, todo : SUBSET Fields]
  /\ told \in Maps
  /\ restarts \in 0 .. MaxRestarts

Store == <<ram, nvs, tlvSet>>
Main  == <<main, uwb>>
Work  == <<shell, mine, page, cmd>>
Shell == <<Work, told>>

-----------------------------------------------------------------------------
(***************************************************************************)
(* The main thread.                                                        *)
(***************************************************************************)
\* A fault stops both threads.
Alive == shell # "fault"

\* config_init, up to the sleep before read_buffer: flash_init.
FlashInit ==
  /\ Alive /\ main = "boot"
  /\ \/ nvs.kind # "absent" /\ main' = "read" /\ UNCHANGED nvs
     \/ nvs.kind = "absent" /\ main' = "read" /\ nvs' = Dummy
     \/ nvs.kind = "absent" /\ FlashFailures /\ main' = "gave_up" /\ UNCHANGED nvs
  /\ UNCHANGED <<ram, tlvSet, uwb, Shell, restarts>>

CheckData == nvs.kind = "full" /\ nvs.content.crc

\* What read_buffer leaves in _buffer: the dummy is as short as the header.
Read == IF nvs.kind = "full" THEN nvs.content ELSE ram

\* config_init's read_buffer of an item, check_data, and write_defaults up to its sleep.
LoadConfig ==
  /\ nvs.kind # "absent"
  /\ tlvSet' = TRUE /\ mine' = IF shell = "idle" THEN mine ELSE "stale"
  /\ \/ CheckData /\ main' = "uwb_init" /\ ram' = Read /\ UNCHANGED nvs
     \/ /\ ~CheckData /\ ram' = [Read EXCEPT !.crc = TRUE]
        /\ \/ nvs' = Full(ram') /\ main' = "reread"
           \/ FlashFailures /\ main' = "gave_up" /\ UNCHANGED nvs

\* Mutant: config_init takes it for granted that the item is there.
ReadConfigWaits ==
  /\ Alive /\ main = "read" /\ LoadConfig
  /\ UNCHANGED <<uwb, shell, page, cmd, told, restarts>>

\* config_init after the sleep: read_buffer fails when the shell has erased the item.
ReadConfig ==
  /\ Alive /\ main = "read"
  /\ \/ nvs.kind = "absent" /\ main' = "gave_up" /\ UNCHANGED <<Store, mine>>
     \/ LoadConfig
  /\ UNCHANGED <<uwb, shell, page, cmd, told, restarts>>

\* What nvs_write, which takes _buffer word by word, has written when read_buffer has
\* come in between: all of it, the old item again, or a part of each.
Overtaken == IF shell = "storing" THEN {page, nvs.content, Spoilt} ELSE {page}

\* What read_buffer may leave of mine: the CRC of what the item holds, too, and what
\* depends on the length of the chain alone, if the item's is as long.
Entries(c) == [fields |-> {f \in Fields : c.map[f] # Unset}, chain |-> c.chain,
               extra |-> c.extra]
Undisturbed == \/ shell = "idle"
               \/ mine = "sum" /\ nvs.content = [ram EXCEPT !.crc = TRUE]
               \/ mine \in {"nothing", "length"} /\ Entries(nvs.content) = Entries(ram)
MayBeLeft   == shell # "idle" /\ mine \in {"nothing", "length"} /\ ram.chain # "whole"
Left == (IF Undisturbed \/ MayBeLeft THEN {mine} ELSE {})
        \cup (IF ~Undisturbed \/ MayBeLeft THEN {"overtaken"} ELSE {})

\* write_defaults after its sleep: read_buffer again, wherever the shell thread is, and
\* check_data.
RereadConfig ==
  /\ Alive /\ main = "reread"
  /\ \/ nvs.kind = "absent" /\ main' = "gave_up" /\ UNCHANGED <<ram, mine, page>>
     \/ /\ nvs.kind # "absent" /\ main' = IF CheckData THEN "uwb_init" ELSE "gave_up"
        /\ ram' = nvs.content /\ page' \in Overtaken
        /\ mine' \in Left
  /\ UNCHANGED <<nvs, tlvSet, uwb, shell, cmd, told, restarts>>

\* Mutant: no default is set.
OrUnset(v, default) == v

Or(v, default) == IF v = Unset THEN default ELSE v

\* What read_value may find: in a spoilt chain nothing, what the command has written, or
\* anything else, which matters of the mode.
Seen ==
  IF ram.chain # "spoilt" THEN {ram.map}
  ELSE {m \in Maps : \A f \in Fields :
          m[f] \in {Unset, cmd.set[f], "torn"} \cup (IF f = "MODE" THEN Modes ELSE {})}

\* Mutant: the address is read in anchor mode only, like the position.
UwbConfigAnchorOnly(m) ==
  LET anchor == m["MODE"] = "anchor" IN
  [f \in Fields |-> IF f = "MODE" THEN Or(m[f], "dummy")
                    ELSE IF anchor THEN Or(m[f], "zero") ELSE "zero"]

\* What uwb_init reads: the mode or "dummy", the address, and in anchor mode the
\* position.  A field that is not there leaves the zeros of a static variable.
UwbConfig(m) ==
  LET anchor == m["MODE"] = "anchor" IN
  [f \in Fields |-> IF f = "MODE" THEN Or(m[f], "dummy")
                    ELSE IF f = "ADDRESS" \/ anchor THEN Or(m[f], "zero") ELSE "zero"]

\* uwb_init: the SPI or the chip may fail, and main returns.
UwbInit ==
  /\ Alive /\ main = "uwb_init"
  /\ \/ main' = "gave_up" /\ UNCHANGED uwb
     \/ main' = "uwb_start" /\ \E m \in Seen : uwb' = [uwb EXCEPT !.config = UwbConfig(m)]
  /\ UNCHANGED <<Store, Shell, restarts>>

UwbStart ==
  /\ Alive /\ main = "uwb_start"
  /\ main' = "returned"
  /\ uwb' = [uwb EXCEPT !.run = TRUE]
  /\ UNCHANGED <<Store, Shell, restarts>>

-----------------------------------------------------------------------------
(***************************************************************************)
(* The shell thread.  A command whose arguments do not parse, or that only *)
(* reads, changes nothing.                                                 *)
(***************************************************************************)
Without(m, fs) == [f \in Fields |-> IF f \in fs THEN Unset ELSE m[f]]

\* A command that sets the fields fs to the values of m.
Begin(name, m) ==
  LET fs == {f \in Fields : m[f] # Unset} IN
  /\ shell = "idle" /\ name \in Commands
  /\ shell' = "write" /\ mine' = "nothing"
  /\ cmd' = [name |-> name, early |-> main \in ConfigInit,
             set |-> m, todo |-> fs]
  /\ told' = Without(told, fs)
  /\ UNCHANGED <<Store, Main, page, restarts>>

\* cmd_config_mode with an argument.
CmdMode == \E v \in Modes : Begin("mode", [Empty EXCEPT !["MODE"] = v])

\* cmd_config_address with at least eight bytes.
CmdAddress == \E v \in Addresses : Begin("address", [Empty EXCEPT !["ADDRESS"] = v])

CmdPosition ==
  \E x, y \in Coordinates :
    Begin("position", [Empty EXCEPT !["X"] = x, !["Y"] = y])

SetFields == {f \in Fields : cmd.set[f] # Unset}

\* The command returns to the prompt.
End(r) ==
  /\ shell' = "idle" /\ mine' = "nothing" /\ page' = Blank /\ cmd' = NoCmd
  /\ told' = [f \in Fields |-> IF r = "ok" /\ ~cmd.early /\ f \in SetFields
                                THEN cmd.set[f] ELSE told[f]]

\* cmd_config_erase: config_erase changes nothing when it fails, as it does before
\* nvs_mount.  RAM is left alone.
CmdErase ==
  /\ shell = "idle" /\ "erase" \in Commands
  /\ main # "boot" /\ nvs' = NoItem
  /\ told' = Empty
  /\ UNCHANGED <<ram, tlvSet, Main, Work, restarts>>

\* x is written before y.
Field == IF "X" \in cmd.todo THEN "X" ELSE CHOOSE f \in cmd.todo : TRUE

Found == ram.map[Field] # Unset
With(v) == IF ram.chain = "spoilt" THEN Spoilt
           ELSE [ram EXCEPT !.map[Field] = v, !.crc = FALSE]

\* The chain of the default item: no entry, and zeros behind the CRC.
NoEntry == ram.map = Empty /\ ram.extra = 0 /\ ram.chain = "whole"

\* find_field may be misled by what is in the chain, by a length or a tlv.data from
\* before read_buffer, and by what is behind the chain: the default item has zeros
\* there, and CONFIG_FIELD_MODE is 0.
Misled == \/ ram.chain = "spoilt"
          \/ mine \in {"stale", "overtaken"} /\ ~NoEntry
          \/ mine = "overtaken" /\ Field = "MODE"

\* write_value up to its result of find_field.  A chain that is not whole may have
\* filled the TLV area.
FindField ==
  /\ Alive /\ shell = "write"
  /\ \/ ram.chain # "whole" /\ End("failed")
     \/ /\ \/ shell' = "append" /\ (~Found \/ mine = "stale")
           \/ shell' = "insert" /\ (Found \/ Misled)
        /\ UNCHANGED <<mine, page, cmd, told>>
  /\ UNCHANGED <<Store, Main, restarts>>

\* What memcpy leaves of a value in the middle; the mode is one byte.
Partly == IF Field = "MODE" THEN ram.map[Field] ELSE "torn"

\* insert_value up to memcpy.  A field's size never changes.  Where there is no such
\* field the number of bytes to be moved comes from whatever is there: in the default
\* item it is a negative one, which takes memmove through all the memory.
InsertValue ==
  /\ Alive /\ shell = "insert"
  /\ \/ /\ ~Found \/ mine = "stale"
        /\ \/ shell' = "fault" /\ UNCHANGED ram
           \/ shell' = "crc" /\ ~NoEntry /\ ram' = Spoilt
        /\ UNCHANGED mine
     \/ Found /\ ram.map[Field] = cmd.set[Field] /\ shell' = "crc" /\ UNCHANGED <<ram, mine>>
     \/ /\ (Found /\ ram.map[Field] # cmd.set[Field]) \/ ram.chain = "spoilt"
        /\ shell' = "copy" /\ ram' = With(Partly) /\ mine' = "field"
  /\ UNCHANGED <<nvs, tlvSet, Main, page, cmd, told, restarts>>

\* memcpy is done, before, after or around read_buffer, and tlv_length, to which nothing
\* will be added, is loaded.
CopyValue ==
  /\ Alive /\ shell = "copy" /\ shell' = "length"
  /\ \/ mine = "field" /\ ram' = With(cmd.set[Field])
     \/ /\ mine = "overtaken" /\ Found
        /\ \E v \in {ram.map[Field], Partly, cmd.set[Field]} : ram' = With(v)
     \/ mine = "overtaken" /\ ~Found /\ UNCHANGED ram
  /\ mine' = "length"
  /\ UNCHANGED <<nvs, tlvSet, Main, page, cmd, told, restarts>>

\* append_value stores the field's number: without tlv.data, through a null pointer, and
\* with a tlv_length from before read_buffer, behind the chain or, when _buffer was
\* empty, over the first entry.
AppendField ==
  /\ Alive /\ shell = "append"
  /\ \/ (~tlvSet \/ mine = "stale") /\ shell' = "fault" /\ UNCHANGED <<ram, mine>>
     \/ tlvSet /\ shell' = "tail" /\ mine' = "type" /\ UNCHANGED ram
     \/ mine = "overtaken" /\ shell' = "tail" /\ UNCHANGED <<ram, mine>>
     \/ mine = "stale" /\ ~NoEntry /\ shell' = "tail" /\ mine' = "overtaken" /\ ram' = Spoilt
  /\ UNCHANGED <<nvs, tlvSet, Main, page, cmd, told, restarts>>

\* ... then its size and value, behind the number or behind a byte of the CRC, ...
AppendSizeAndValue ==
  /\ Alive /\ shell = "tail" /\ shell' = "length"
  /\ mine' = IF mine = "type" THEN "entry" ELSE "tail"
  /\ UNCHANGED <<Store, Main, page, cmd, told, restarts>>

\* One more entry that find_field passes by.
Longer == CASE ram.chain # "whole" -> ram
            [] ram.chain = "whole" /\ ram.extra < MaxExtra -> [ram EXCEPT !.extra = @ + 1]
            [] OTHER -> Spoilt

\* The bytes of a CRC as an entry's number, and as its size, too.
Numbered == IF NoEntry THEN {Longer} ELSE {Longer, Spoilt}
Buried   == IF NoEntry THEN [ram EXCEPT !.chain = "buried"] ELSE Spoilt

\* ... and takes them into the chain, or what read_buffer has put in their place.
StoreLength ==
  /\ Alive /\ shell = "length" /\ shell' = "crc"
  /\ ram' \in CASE mine = "length" -> {ram}
                [] mine = "entry" /\ ~Found /\ ram.chain = "whole" -> {With(cmd.set[Field])}
                [] mine = "entry" /\ (Found \/ ram.chain # "whole") -> {Longer}
                [] mine = "tail" -> Numbered
                [] OTHER -> {Buried}
  /\ mine' = "nothing"
  /\ UNCHANGED <<nvs, tlvSet, Main, page, cmd, told, restarts>>

\* write_crc: crc32_ieee ...
ComputeCrc ==
  /\ Alive /\ shell = "crc" /\ shell' = "crc_store" /\ mine' = "sum"
  /\ UNCHANGED <<Store, Main, page, cmd, told, restarts>>

\* ... and memcpy, over the CRC of what read_buffer has brought or somewhere behind it.
StoreCrc ==
  /\ Alive /\ shell = "crc_store" /\ shell' = "store" /\ mine' = "nothing"
  /\ \E crc \in IF mine = "sum" THEN {TRUE} ELSE {FALSE, ram.crc} :
       ram' = [ram EXCEPT !.crc = crc]
  /\ UNCHANGED <<nvs, tlvSet, Main, page, cmd, told, restarts>>

\* write_value's nvs_write copies _buffer ...
WriteItem ==
  /\ Alive /\ shell = "store" /\ shell' = "storing" /\ page' = ram
  /\ UNCHANGED <<Store, Main, mine, cmd, told, restarts>>

\* Mutant: a failing nvs_write counts as success.
StoreValueUnchecked ==
  /\ Alive /\ shell = "storing" /\ shell' = "reread"
  /\ nvs' = Full(page) \/ (FlashFailures /\ UNCHANGED nvs)
  /\ page' = Blank
  /\ UNCHANGED <<ram, tlvSet, Main, mine, cmd, told, restarts>>

\* ... and makes it the item.  When it fails RAM keeps the value.
StoreValue ==
  /\ Alive /\ shell = "storing"
  /\ \/ /\ nvs' = Full(page) /\ shell' = "reread" /\ page' = Blank
        /\ UNCHANGED <<mine, cmd, told>>
     \/ FlashFailures /\ UNCHANGED nvs /\ End("failed")
  /\ UNCHANGED <<ram, tlvSet, Main, restarts>>

\* write_value after its sleep: read_buffer.  main's sleep in write_defaults is as long
\* and has begun before, so it is over.
RereadValue ==
  /\ Alive /\ shell = "reread" /\ main # "reread"
  /\ ram' = nvs.content /\ mine' = "nothing"
  /\ cmd' = [cmd EXCEPT !.todo = @ \ {Field}]
  /\ shell' = IF cmd'.todo = {} THEN "verify" ELSE "write"
  /\ UNCHANGED <<nvs, tlvSet, Main, page, told, restarts>>

\* cmd_config_anchor_position and cmd_config_address read back, the former
\* compares.
Verify ==
  /\ Alive /\ shell = "verify"
  /\ \E m \in Seen :
       End(IF cmd.name = "position" /\ \E f \in {"X", "Y"} : m[f] # cmd.set[f]
             THEN "failed" ELSE "ok")
  /\ UNCHANGED <<Store, Main, restarts>>

-----------------------------------------------------------------------------
\* The node is reset, at any point.
Restart ==
  /\ restarts < MaxRestarts
  /\ restarts' = restarts + 1
  /\ ram' = Blank /\ tlvSet' = FALSE
  /\ main' = "boot"
  /\ uwb' = [run |-> FALSE, config |-> Zero]
  /\ shell' = "idle" /\ mine' = "nothing" /\ page' = Blank /\ cmd' = NoCmd
  /\ UNCHANGED <<nvs, told>>

Init ==
  /\ ram = Blank /\ nvs = NoItem /\ tlvSet = FALSE
  /\ main = "boot"
  /\ uwb = [run |-> FALSE, config |-> Zero]
  /\ shell = "idle" /\ mine = "nothing" /\ page = Blank /\ cmd = NoCmd
  /\ told = Empty
  /\ restarts = 0

MainStep  == FlashInit \/ ReadConfig \/ RereadConfig \/ UwbInit \/ UwbStart
Insert    == InsertValue \/ CopyValue
Append    == AppendField \/ AppendSizeAndValue
WriteCrc  == ComputeCrc \/ StoreCrc
NvsWrite  == WriteItem \/ StoreValue
Call      == \/ FindField \/ Insert \/ Append \/ StoreLength \/ WriteCrc \/ NvsWrite
             \/ RereadValue \/ Verify
ShellStep == CmdMode \/ CmdAddress \/ CmdPosition \/ CmdErase \/ Call
Next == MainStep \/ ShellStep \/ Restart
Spec == Init /\ [][Next]_vars

\* main is scheduled, having the higher priority; nothing is assumed of the shell
\* thread and of the user.
FairSpec == Spec /\ WF_vars(MainStep)

-----------------------------------------------------------------------------
(***************************************************************************)
(* Properties.                                                             *)
(***************************************************************************)
\* What a command given after config_init has confirmed is in the stored item, as long
\* as find_field sees every entry there: whatever main, failing writes, restarts and
\* commands that main overtakes do afterwards, until a command touches the field again.
ConfirmedIsStored ==
  nvs.content.chain = "whole" =>
    \A f \in Fields : told[f] # Unset => nvs.kind = "full" /\ nvs.content.map[f] = told[f]

\* uwb starts with these values, also with those confirmed before the last restart
\* and those confirmed just before uwb_init, under the same condition.
StartsWithConfirmed ==
  [][main = "uwb_init" /\ main' = "uwb_start" /\ ram.chain = "whole" =>
       \A f \in Fields :
         told[f] # Unset /\ (f \in {"X", "Y"} => uwb'.config["MODE"] = "anchor")
           => uwb'.config[f] = told[f]]_vars

\* main comes to its end, or a fault ends everything; what the shell does during
\* main's sleeps does not hang it.
BootEnds == <>[](main \in {"returned", "gave_up"} \/ shell = "fault")

\* "Set UWB mode to '%s'" (cli.c:93): every value that a command given after config_init
\* has confirmed is in the stored item, as far as it can be told what is stored.
SetMeansStored ==
  nvs.content.chain # "spoilt" =>
    \A f \in Fields : told[f] # Unset => nvs.kind = "full" /\ nvs.content.map[f] = told[f]

=============================================================================
