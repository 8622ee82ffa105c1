----------------------------- MODULE NodeProofs -----------------------------
(***************************************************************************)
(* What a confirmed command is worth, for every choice of modes,           *)
(* addresses, coordinates, commands and number of restarts, wherever main  *)
(* cuts the shell thread.                                                  *)
(***************************************************************************)
EXTENDS Node, TLAPS

\* The field being written is one of those still to be written.
LEMMA FieldInTodo ==
  ASSUME TypeOK, cmd.todo # {} PROVE Field \in cmd.todo /\ Field \in Fields
BY DEF Field, TypeOK

\* Each command that sets fields begins with a map that sets at least one.
LEMMA CommandsBegin ==
  ASSUME CmdMode \/ CmdAddress \/ CmdPosition
  PROVE  \E name \in Commands, m \in Maps :
           Begin(name, m) /\ \E f \in Fields : m[f] # Unset
<1> USE ValuesAssumption DEF Values, Maps, Empty, Fields
<1>1. CASE CmdMode
  <2> PICK v \in Modes : Begin("mode", [Empty EXCEPT !["MODE"] = v])
    BY <1>1 DEF CmdMode
  <2>1. "mode" \in Commands
    BY DEF Begin
  <2>2. [Empty EXCEPT !["MODE"] = v] \in Maps
    OBVIOUS
  <2>3. [Empty EXCEPT !["MODE"] = v]["MODE"] # Unset
    OBVIOUS
  <2> QED BY <2>1, <2>2, <2>3
<1>2. CASE CmdAddress
  <2> PICK v \in Addresses : Begin("address", [Empty EXCEPT !["ADDRESS"] = v])
    BY <1>2 DEF CmdAddress
  <2>1. "address" \in Commands
    BY DEF Begin
  <2>2. [Empty EXCEPT !["ADDRESS"] = v] \in Maps
    OBVIOUS
  <2>3. [Empty EXCEPT !["ADDRESS"] = v]["ADDRESS"] # Unset
    OBVIOUS
  <2> QED BY <2>1, <2>2, <2>3
<1>3. CASE CmdPosition
  <2> PICK x \in Coordinates, y \in Coordinates :
        Begin("position", [Empty EXCEPT !["X"] = x, !["Y"] = y])
    BY <1>3 DEF CmdPosition
  <2>1. "position" \in Commands
    BY DEF Begin
  <2>2. [Empty EXCEPT !["X"] = x, !["Y"] = y] \in Maps
    OBVIOUS
  <2>3. [Empty EXCEPT !["X"] = x, !["Y"] = y]["Y"] # Unset
    OBVIOUS
  <2> QED BY <2>1, <2>2, <2>3
<1> QED
  BY <1>1, <1>2, <1>3

-----------------------------------------------------------------------------
\* The types of the compound variables.
Uwb      == [run : BOOLEAN, config : [Fields -> Values \cup {"zero", "dummy", "torn"}]]
Items    == [kind : {"absent", "dummy", "full"}, content : Contents]
CmdTypes == [name : Commands \cup {"none"}, early : BOOLEAN, set : Maps, todo : SUBSET Fields]

\* The constant values have these types.
LEMMA ConstantTypes ==
  /\ Empty \in Maps
  /\ Blank \in Contents /\ Spoilt \in Contents /\ Spoilt.chain = "spoilt" /\ Blank.map = Empty
  /\ Blank.chain = "whole"
  /\ NoItem \in Items /\ Dummy \in Items /\ NoCmd \in CmdTypes
  /\ [run |-> FALSE, config |-> Zero] \in Uwb
<1>1. Empty \in Maps
  BY DEF Empty, Maps
<1>2. 0 \in 0 .. MaxExtra
  BY EnvironmentAssumption
<1>3. Blank \in Contents
  BY <1>1, <1>2 DEF Blank, Contents
<1> QED
  BY <1>1, <1>3 DEF Blank, Spoilt, Contents, NoItem, Dummy, Items, NoCmd, CmdTypes, Zero, Uwb

\* An item of contents.
LEMMA FullType ==
  ASSUME NEW c \in Contents
  PROVE  Full(c) \in Items /\ Full(c).kind = "full" /\ Full(c).content = c
BY DEF Full, Items

\* What the steps of write_value make of _buffer are contents.  Where it is a whole
\* chain, _buffer was one, and no other field of it has changed.
Touches(c) ==
  /\ c \in Contents
  /\ c.chain = "whole" =>
       ram.chain = "whole" /\ \A f \in Fields \ {Field} : c.map[f] = ram.map[f]

\* A store to the field's value does.
LEMMA WithTouches ==
  ASSUME TypeOK, Field \in Fields, NEW v \in Values \cup {Unset, "torn"}
  PROVE  Touches(With(v)) /\ (With(v).chain = "whole" => With(v).map[Field] = v)
<1>1. CASE ram.chain = "spoilt"
  BY <1>1, ConstantTypes DEF With, Touches
<1>2. CASE ram.chain # "spoilt"
  <2>1. With(v) = [ram EXCEPT !.map[Field] = v, !.crc = FALSE]
    BY <1>2 DEF With
  <2>2. [ram.map EXCEPT ![Field] = v] \in Maps
    BY DEF TypeOK, Contents, Maps
  <2>3. ram \in Contents
    BY DEF TypeOK
  <2>4. /\ With(v) \in Contents /\ With(v).chain = ram.chain
        /\ With(v).map = [ram.map EXCEPT ![Field] = v]
    BY <2>1, <2>2, <2>3 DEF Contents
  <2> QED BY <2>3, <2>4 DEF Touches, Contents, Maps
<1> QED BY <1>1, <1>2

\* So do the lengths that StoreLength may leave.
LEMMA LengthTouches ==
  ASSUME TypeOK PROVE /\ Touches(ram) /\ Touches(Spoilt) /\ Touches(Longer) /\ Touches(Buried)
                      /\ \A c \in Numbered : Touches(c)
                      /\ ram.chain # "whole" => Longer = ram
<1>1. Touches(ram)
  BY DEF Touches, TypeOK
<1>2. Touches(Spoilt)
  BY ConstantTypes DEF Touches
<1>3. Touches(Longer)
  <2>1. CASE ram.chain # "whole"
    BY <2>1, <1>1 DEF Longer
  <2>2. CASE ram.chain = "whole" /\ ram.extra < MaxExtra
    <3>1. ram.extra + 1 \in 0 .. MaxExtra
      BY <2>2, EnvironmentAssumption DEF TypeOK, Contents
    <3>2. Longer = [ram EXCEPT !.extra = ram.extra + 1]
      BY <2>2 DEF Longer
    <3> QED BY <2>2, <3>1, <3>2 DEF Touches, TypeOK, Contents
  <2>3. CASE ram.chain = "whole" /\ ~(ram.extra < MaxExtra)
    BY <2>3, <1>2 DEF Longer
  <2> QED BY <2>1, <2>2, <2>3
<1>4. Touches(Buried)
  BY <1>2 DEF Buried, Touches, TypeOK, Contents
<1>5. ram.chain # "whole" => Longer = ram
  BY DEF Longer
<1> QED
  BY <1>1, <1>2, <1>3, <1>4, <1>5 DEF Numbered

\* Each step of write_value before nvs_write.
LEMMA WriteTouches ==
  ASSUME TypeOK, Field \in Fields,
         InsertValue \/ CopyValue \/ AppendField \/ StoreLength \/ StoreCrc
  PROVE  Touches(ram')
<1>r. Touches(ram) /\ Touches(Spoilt)
  BY LengthTouches
<1>v. /\ cmd.set[Field] \in Values \cup {Unset, "torn"}
      /\ ram.map[Field] \in Values \cup {Unset, "torn"}
      /\ Partly \in Values \cup {Unset, "torn"}
  BY DEF TypeOK, Maps, Contents, Partly
<1>1. CASE InsertValue
  <2>1. ram' \in {ram, Spoilt, With(Partly)}
    BY <1>1 DEF InsertValue
  <2> QED BY <2>1, <1>r, <1>v, WithTouches
<1>2. CASE CopyValue
  <2>1. ram' \in {ram, With(cmd.set[Field]), With(ram.map[Field]), With(Partly)}
    BY <1>2 DEF CopyValue
  <2> QED BY <2>1, <1>r, <1>v, WithTouches
<1>3. CASE AppendField
  BY <1>3, <1>r DEF AppendField
<1>4. CASE StoreLength
  <2>1. ram' \in {ram, With(cmd.set[Field]), Longer, Buried} \cup Numbered
    BY <1>4 DEF StoreLength
  <2> QED BY <2>1, <1>v, WithTouches, LengthTouches
<1>5. CASE StoreCrc
  <2> PICK crc \in BOOLEAN : ram' = [ram EXCEPT !.crc = crc]
    BY <1>5 DEF StoreCrc, TypeOK, Contents
  <2> QED BY DEF Touches, TypeOK, Contents
<1> QED
  BY <1>1, <1>2, <1>3, <1>4, <1>5

-----------------------------------------------------------------------------
\* The command in progress: it has something to write until it verifies, it is
\* early for as long as config_init runs, and its fields are not among those of told.
\* main's read_buffer cuts no command but an early one.
CommandInv ==
  /\ shell = "idle" => cmd = NoCmd
  /\ shell \in WritePcs => cmd.todo # {}
  /\ shell = "verify" => cmd.todo = {} /\ SetFields # {}
  /\ cmd.todo \subseteq SetFields
  /\ main \in ConfigInit /\ SetFields # {} => cmd.early
  /\ \A f \in SetFields : told[f] = Unset
  /\ mine \in {"stale", "overtaken"} => cmd.early

\* The fields the command has written already.
Written == SetFields \ cmd.todo

\* No command is in progress when the shell is idle, so nothing is written.
LEMMA NothingWritten == ASSUME cmd = NoCmd PROVE SetFields = {} /\ Written = {}
BY DEF SetFields, Written, NoCmd, Empty

\* A step that leaves the command alone leaves its fields alone.
LEMMA SameCommand ==
  ASSUME UNCHANGED cmd PROVE SetFields' = SetFields /\ Written' = Written /\ Field' = Field
BY DEF SetFields, Written, Field

\* The fields of a command that begins.
LEMMA BegunCommand ==
  ASSUME NEW name, NEW m \in Maps, Begin(name, m), \E f \in Fields : m[f] # Unset
  PROVE  /\ SetFields' = {f \in Fields : m[f] # Unset} /\ SetFields' # {}
         /\ cmd'.todo = SetFields' /\ Written' = {} /\ cmd' # NoCmd
         /\ cmd'.early = (main \in ConfigInit) /\ shell' = "write" /\ mine' = "nothing"
         /\ \A f \in SetFields' : told'[f] = Unset
         /\ \A f \in Fields \ SetFields' : told'[f] = told[f]
         /\ UNCHANGED <<Store, Main>>
<1>1. SetFields' = {f \in Fields : m[f] # Unset}
  BY DEF Begin, SetFields
<1>2. cmd'.todo = SetFields' /\ cmd' # NoCmd
  BY <1>1 DEF Begin, NoCmd
<1> QED
  BY <1>1, <1>2 DEF Begin, Written, Without

-----------------------------------------------------------------------------
\* The CRC of contents may be marked as right.
LEMMA MarkedType == ASSUME NEW c \in Contents PROVE [c EXCEPT !.crc = TRUE] \in Contents
BY DEF Contents

\* The command's end.
LEMMA EndType ==
  ASSUME TypeOK, NEW r \in {"ok", "failed"}, End(r)
  PROVE  /\ shell' = "idle" /\ mine' = "nothing" /\ page' \in Contents /\ cmd' \in CmdTypes
         /\ told' \in Maps
<1>1. told' \in Maps
  BY DEF End, TypeOK, Maps
<1> QED
  BY <1>1, ConstantTypes DEF End

\* What uwb_init makes of what it reads.
LEMMA UwbType ==
  ASSUME TypeOK, NEW m \in Seen
  PROVE  UwbConfig(m) \in [Fields -> Values \cup {"zero", "dummy", "torn"}]
<1>1. m \in Maps
  BY DEF Seen, TypeOK, Contents
<1> QED
  BY <1>1 DEF UwbConfig, Or, Maps

\* Every step of the two threads keeps the variables in their types.
LEMMA TypeStep == TypeOK /\ CommandInv /\ [Next]_vars => TypeOK'
<1> SUFFICES ASSUME TypeOK, CommandInv, [Next]_vars PROVE TypeOK'
  OBVIOUS
<1> USE DEF TypeOK
<1>m. Items = [kind : {"absent", "dummy", "full"}, content : Contents]
      /\ CmdTypes = [name : Commands \cup {"none"}, early : BOOLEAN, set : Maps,
                     todo : SUBSET Fields]
      /\ Uwb = [run : BOOLEAN, config : [Fields -> Values \cup {"zero", "dummy", "torn"}]]
  BY DEF Items, CmdTypes, Uwb
<1>1. CASE FlashInit
  BY <1>1, <1>m, ConstantTypes DEF FlashInit, Shell, Work, MainPcs, ConfigInit
<1>2. CASE ReadConfig
  <2>1. CASE UNCHANGED <<Store, mine>> /\ main' = "gave_up"
    BY <1>2, <2>1 DEF ReadConfig, Store, MainPcs
  <2>2. CASE LoadConfig
    <3>1. Read \in Contents /\ [Read EXCEPT !.crc = TRUE] \in Contents
      BY MarkedType DEF Read
    <3>2. ram' \in Contents
      BY <2>2, <3>1 DEF LoadConfig
    <3>4. nvs' \in {nvs, Full(ram')}
      BY <2>2 DEF LoadConfig
    <3>5. nvs' \in Items
      BY <3>2, <3>4, <1>m, FullType
    <3>3. main' \in MainPcs /\ tlvSet' \in BOOLEAN /\ mine' \in {mine, "stale"}
      BY <2>2 DEF LoadConfig, MainPcs, ConfigInit
    <3> QED BY <1>2, <3>2, <3>3, <3>5, <1>m DEF ReadConfig
  <2> QED BY <1>2, <2>1, <2>2 DEF ReadConfig
<1>3. CASE RereadConfig
  <2>1. Left \subseteq {mine, "overtaken"} /\ Overtaken \subseteq Contents
    BY ConstantTypes DEF Left, Overtaken
  <2>2. ram' \in Contents /\ page' \in Contents /\ mine' \in {mine, "overtaken"}
        /\ main' \in MainPcs
    BY <1>3, <2>1 DEF RereadConfig, MainPcs, ConfigInit
  <2> QED BY <1>3, <2>2 DEF RereadConfig
<1>4. CASE UwbInit
  <2>1. uwb' \in Uwb
    BY <1>4, <1>m, UwbType DEF UwbInit
  <2> QED BY <1>4, <2>1, <1>m DEF UwbInit, Store, Shell, Work, MainPcs
<1>5. CASE UwbStart
  BY <1>5 DEF UwbStart, Store, Shell, Work, MainPcs
<1>6. CASE CmdMode \/ CmdAddress \/ CmdPosition
  <2> PICK name \in Commands, m \in Maps : Begin(name, m)
    BY <1>6, CommandsBegin
  <2>1. (main \in ConfigInit) \in BOOLEAN
    OBVIOUS
  <2>2. cmd' \in CmdTypes
    BY <2>1 DEF Begin, CmdTypes
  <2>3. told' \in Maps
    BY DEF Begin, Without, Maps
  <2> QED BY <2>2, <2>3, <1>m DEF Begin, Store, Main, WritePcs
<1>8. CASE CmdErase
  BY <1>8, <1>m, ConstantTypes DEF CmdErase, Main, Work
<1>e. ASSUME NEW r \in {"ok", "failed"}, End(r), UNCHANGED <<Store, Main, restarts>> PROVE TypeOK'
  BY <1>e, EndType, <1>m DEF Store, Main
<1>9. CASE FindField
  <2>1. CASE End("failed")
    BY <1>9, <2>1, <1>e DEF FindField
  <2>2. CASE shell' \in {"append", "insert"} /\ UNCHANGED <<mine, page, cmd, told>>
    BY <1>9, <2>2 DEF FindField, Store, Main, WritePcs
  <2> QED BY <1>9, <2>1, <2>2 DEF FindField
<1>10. CASE InsertValue \/ CopyValue \/ AppendField \/ StoreLength \/ StoreCrc
  <2>1. Field \in Fields
    BY <1>10, FieldInTodo DEF CommandInv, InsertValue, CopyValue, AppendField, StoreLength,
       StoreCrc, WritePcs
  <2>2. ram' \in Contents
    BY <1>10, <2>1, WriteTouches DEF Touches
  <2> QED BY <1>10, <2>2 DEF InsertValue, CopyValue, AppendField, StoreLength, StoreCrc,
           Main, WritePcs
<1>11. CASE AppendSizeAndValue \/ ComputeCrc \/ WriteItem
  BY <1>11 DEF AppendSizeAndValue, ComputeCrc, WriteItem, Store, Main, WritePcs
<1>12. CASE StoreValue
  <2>1. CASE nvs' = Full(page) /\ shell' = "reread" /\ page' = Blank
             /\ UNCHANGED <<mine, cmd, told>>
    BY <1>12, <2>1, <1>m, FullType, ConstantTypes DEF StoreValue, Main, WritePcs
  <2>2. CASE UNCHANGED nvs /\ End("failed")
    BY <1>12, <2>2, <1>e DEF StoreValue, Store
  <2> QED BY <1>12, <2>1, <2>2 DEF StoreValue
<1>13. CASE RereadValue
  BY <1>13 DEF RereadValue, Main, WritePcs
<1>14. CASE Verify
  BY <1>14, <1>e DEF Verify
<1>15. CASE Restart
  <2>1. restarts' \in 0 .. MaxRestarts
    BY <1>15, EnvironmentAssumption DEF Restart
  <2> QED BY <1>15, <2>1, <1>m, ConstantTypes DEF Restart, MainPcs, ConfigInit
<1>16. CASE UNCHANGED vars
  BY <1>16 DEF vars
<1> QED
  BY <1>1, <1>2, <1>3, <1>4, <1>5, <1>6, <1>8, <1>9, <1>10, <1>11, <1>12, <1>13, <1>14,
     <1>15, <1>16 DEF Next, MainStep, ShellStep, Call, Insert, Append, WriteCrc, NvsWrite

\* The shell thread takes one command at a time, and writes its fields one by one.
LEMMA CommandStep == TypeOK /\ CommandInv /\ [Next]_vars => CommandInv'
<1> SUFFICES ASSUME TypeOK, CommandInv, [Next]_vars PROVE CommandInv'
  OBVIOUS
<1> USE DEF CommandInv
<1>i. ASSUME shell' = "idle", mine' = "nothing", cmd' = NoCmd PROVE CommandInv'
  <2>1. SetFields' = {}
    BY <1>i DEF SetFields, NoCmd, Empty
  <2> QED BY <1>i, <2>1 DEF NoCmd, WritePcs
<1>1. CASE FlashInit \/ UwbInit \/ UwbStart
  BY <1>1, SameCommand DEF FlashInit, UwbInit, UwbStart, Shell, Work, ConfigInit
<1>2. CASE ReadConfig
  <2>1. mine' \in {mine, "stale"} /\ (shell = "idle" => mine' = mine)
    BY <1>2 DEF ReadConfig, LoadConfig
  <2>2. shell # "idle" /\ shell # "fault" => cmd.early
    BY <1>2 DEF ReadConfig, ConfigInit, TypeOK
  <2> QED BY <1>2, <2>1, <2>2, SameCommand DEF ReadConfig, LoadConfig, ConfigInit, Alive
<1>3. CASE RereadConfig
  <2>1. mine' \in {mine, "overtaken"} /\ (shell = "idle" => mine' = mine)
    BY <1>3 DEF RereadConfig, Left, Undisturbed, MayBeLeft
  <2>2. shell # "idle" /\ shell # "fault" => cmd.early
    BY <1>3 DEF RereadConfig, ConfigInit, TypeOK
  <2>3. UNCHANGED <<shell, cmd, told>> /\ main' \notin ConfigInit /\ shell # "fault"
    BY <1>3 DEF RereadConfig, ConfigInit, Alive
  <2> QED BY <2>1, <2>2, <2>3, SameCommand
<1>4. CASE CmdMode \/ CmdAddress \/ CmdPosition
  <2> PICK name \in Commands, m \in Maps : Begin(name, m) /\ \E f \in Fields : m[f] # Unset
    BY <1>4, CommandsBegin
  <2> QED BY BegunCommand DEF Main, WritePcs
<1>5. CASE CmdErase
  BY <1>5, SameCommand DEF CmdErase, Main, Work, Empty, SetFields
<1>6. CASE FindField
  <2>1. CASE UNCHANGED <<mine, page, cmd, told>> /\ shell' \in {"append", "insert"}
    BY <1>6, <2>1, SameCommand DEF FindField, Main, WritePcs
  <2> QED BY <1>6, <1>i, <2>1 DEF FindField, End
<1>7. CASE InsertValue \/ CopyValue \/ AppendField \/ AppendSizeAndValue \/ StoreLength
  BY <1>7, SameCommand DEF InsertValue, CopyValue, AppendField, AppendSizeAndValue, StoreLength,
     Main, WritePcs
<1>8. CASE ComputeCrc \/ StoreCrc \/ WriteItem
  BY <1>8, SameCommand DEF ComputeCrc, StoreCrc, WriteItem, Main, WritePcs
<1>9. CASE StoreValue
  BY <1>9, <1>i, SameCommand DEF StoreValue, End, Main, WritePcs
<1>10. CASE RereadValue
  <2>1. cmd'.set = cmd.set /\ cmd'.early = cmd.early /\ cmd'.todo = cmd.todo \ {Field}
    BY <1>10 DEF RereadValue, TypeOK
  <2>2. SetFields' = SetFields
    BY <2>1 DEF SetFields
  <2> QED BY <1>10, <2>1, <2>2 DEF RereadValue, Main, WritePcs
<1>11. CASE Verify
  BY <1>11, <1>i DEF Verify, End
<1>12. CASE Restart
  BY <1>12, <1>i DEF Restart
<1>13. CASE UNCHANGED vars
  BY <1>13, SameCommand DEF vars
<1> QED
  BY <1>1, <1>2, <1>3, <1>4, <1>5, <1>6, <1>7, <1>8, <1>9, <1>10, <1>11, <1>12, <1>13
     DEF Next, MainStep, ShellStep, Call, Insert, Append, WriteCrc, NvsWrite

\* Type correctness of the store, the two threads and the history.
THEOREM TypeCorrect == Spec => []TypeOK
<1>1. Init => TypeOK /\ CommandInv
  <2> SUFFICES ASSUME Init PROVE TypeOK /\ CommandInv
    OBVIOUS
  <2>1. restarts \in 0 .. MaxRestarts
    BY EnvironmentAssumption DEF Init
  <2>2. TypeOK
    BY <2>1, ConstantTypes DEF Init, TypeOK, MainPcs, ConfigInit, Items, CmdTypes, Uwb
  <2>3. CommandInv
    BY NothingWritten DEF Init, CommandInv, NoCmd, WritePcs
  <2> QED BY <2>2, <2>3
<1> QED
  BY <1>1, TypeStep, CommandStep, PTL DEF Spec

-----------------------------------------------------------------------------
\* Where tlv.data is set; until it is, nothing has been read or written.
TlvInv ==
  /\ main \in {"boot", "read"} => ~tlvSet
  /\ main \in {"reread", "uwb_init"} => tlvSet
  /\ ~tlvSet => /\ ram = Blank /\ mine = "nothing"
                /\ shell \in {"idle", "write", "append", "fault"}

\* A whole chain holds the values of told, ...
Keeps(c) == c.chain = "whole" => \A f \in Fields : told[f] # Unset => c.map[f] = told[f]

\* ... and those of the command for fs.
Holds(c, fs) == c.chain = "whole" => \A f \in fs : c.map[f] = cmd.set[f]

\* The item keeps what was confirmed, and so do _buffer, once something was read into
\* it, and what nvs_write is copying.
KeptInv ==
  /\ nvs.kind # "full" => told = Empty
  /\ Keeps(nvs.content)
  /\ tlvSet => Keeps(ram)
  /\ shell = "storing" => Keeps(page)

\* The field being written is in _buffer.
Placed == \/ shell \in {"crc", "crc_store", "store", "storing", "reread"}
          \/ shell = "length" /\ mine = "length"

\* It is being appended.
Appending == shell \in {"append", "tail"} \/ (shell = "length" /\ mine = "entry")

\* A command that is not early is not overtaken: the item and _buffer hold what it has
\* written, and _buffer what it is writing, which then goes to the item as it is.
WrittenInv ==
  ~cmd.early =>
    /\ shell = "copy" => mine = "field"
    /\ shell = "tail" => mine = "type"
    /\ shell = "length" => mine \in {"length", "entry"}
    /\ Written # {} => nvs.kind = "full"
    /\ Holds(nvs.content, Written) /\ Holds(ram, Written)
    /\ Placed => Holds(ram, {Field})
    /\ shell = "storing" => page = ram
    /\ shell = "reread" => nvs = Full(ram)
    /\ ram.chain = "whole" /\ Appending => ~Found
    /\ ram.chain = "whole" /\ shell = "insert" => Found

NodeInv == TlvInv /\ CommandInv /\ KeptInv /\ WrittenInv

\* tlv.data is set by config_init only, and only a restart takes it away.
LEMMA TlvStep == TypeOK /\ TlvInv /\ CommandInv /\ [Next]_vars => TlvInv'
<1> SUFFICES ASSUME TypeOK, TlvInv, CommandInv, [Next]_vars PROVE TlvInv'
  OBVIOUS
<1> USE DEF TlvInv
<1>1. CASE MainStep
  BY <1>1 DEF MainStep, FlashInit, ReadConfig, LoadConfig, RereadConfig, UwbInit, UwbStart,
     Store, Shell, Work
<1>2. CASE CmdMode \/ CmdAddress \/ CmdPosition
  <2> PICK name \in Commands, m \in Maps : Begin(name, m)
    BY <1>2, CommandsBegin
  <2> QED BY DEF Begin, Store, Main
<1>3. CASE CmdErase
  BY <1>3 DEF CmdErase, Main, Work
<1>4. CASE FindField
  <2>1. Field \in Fields
    BY <1>4, FieldInTodo DEF FindField, CommandInv, WritePcs
  <2>4. ~tlvSet => ~Found
    BY <2>1, ConstantTypes DEF Empty, Found
  <2>2. ~tlvSet => ~Misled /\ ram.chain = "whole"
    BY ConstantTypes DEF Misled
  <2> QED BY <1>4, <2>2, <2>4 DEF FindField, End, Store, Main
<1>5. CASE InsertValue \/ CopyValue \/ AppendField \/ AppendSizeAndValue \/ StoreLength
  BY <1>5 DEF InsertValue, CopyValue, AppendField, AppendSizeAndValue, StoreLength, Store, Main
<1>6. CASE ComputeCrc \/ StoreCrc \/ WriteItem \/ StoreValue \/ RereadValue \/ Verify
  BY <1>6 DEF ComputeCrc, StoreCrc, WriteItem, StoreValue, RereadValue, Verify, Store, Main
<1>7. CASE Restart
  BY <1>7 DEF Restart
<1>8. CASE UNCHANGED vars
  BY <1>8 DEF vars
<1> QED
  BY <1>1, <1>2, <1>3, <1>4, <1>5, <1>6, <1>7, <1>8
     DEF Next, ShellStep, Call, Insert, Append, WriteCrc, NvsWrite

\* _buffer keeps what is confirmed when a step of write_value changes it.
LEMMA TouchesKeeps ==
  ASSUME TypeOK, CommandInv, Field \in cmd.todo, NEW c, Touches(c), Keeps(ram)
  PROVE  Keeps(c)
<1>1. told[Field] = Unset
  BY DEF CommandInv
<1> QED
  BY <1>1 DEF Keeps, Touches, TypeOK

\* A value that is confirmed stays in the item and in _buffer: what read_buffer brings
\* holds it, and a command changes no field but its own.
LEMMA KeptStep == TypeOK /\ NodeInv /\ [Next]_vars => KeptInv'
<1> SUFFICES ASSUME TypeOK, NodeInv, [Next]_vars PROVE KeptInv'
  OBVIOUS
<1> USE DEF NodeInv, KeptInv
<1>t. \A f \in Fields : Empty[f] = Unset
  BY DEF Empty
<1>s. ASSUME UNCHANGED told,
             nvs' = nvs \/ (nvs'.kind = "full" /\ Keeps(nvs'.content)),
             tlvSet' /\ ~(tlvSet /\ ram' = ram) => Keeps(ram'),
             shell' = "storing" /\ ~(shell = "storing" /\ page' = page) => Keeps(page')
      PROVE  KeptInv'
  BY <1>s DEF Keeps
<1>1. CASE FlashInit
  <2>1. CASE UNCHANGED nvs
    BY <1>1, <2>1, <1>s DEF FlashInit, Shell, Work
  <2>2. CASE nvs.kind = "absent"
    <3>1. told = Empty
      BY <2>2
    <3> QED BY <1>1, <1>t, <3>1 DEF FlashInit, Shell, Work, TlvInv, Keeps
  <2> QED BY <1>1, <2>1, <2>2 DEF FlashInit
<1>2. CASE ReadConfig
  <2>1. CASE UNCHANGED <<Store, mine>>
    BY <1>2, <2>1, <1>s DEF ReadConfig, Store
  <2>2. CASE LoadConfig /\ nvs.kind = "full"
    <3>1. Keeps([nvs.content EXCEPT !.crc = TRUE]) /\ Read = nvs.content
      BY <2>2 DEF Keeps, Read, TypeOK, Contents
    <3>2. Keeps(ram') /\ (nvs' = nvs \/ nvs' = Full(ram'))
      BY <2>2, <3>1 DEF LoadConfig
    <3>3. nvs' = nvs \/ (nvs'.kind = "full" /\ Keeps(nvs'.content))
      BY <3>2 DEF Full
    <3> QED BY <1>2, <1>s, <3>2, <3>3 DEF ReadConfig
  <2>3. CASE LoadConfig /\ nvs.kind # "full"
    <3>1. told = Empty
      BY <2>3
    <3> QED BY <1>2, <1>t, <3>1 DEF ReadConfig, Keeps
  <2> QED BY <1>2, <2>1, <2>2, <2>3 DEF ReadConfig
<1>3. CASE RereadConfig
  <2>1. shell = "storing" => \A c \in Overtaken : Keeps(c)
    BY ConstantTypes DEF Overtaken, Keeps
  <2>2. CASE UNCHANGED <<ram, mine, page>>
    BY <1>3, <2>2, <1>s DEF RereadConfig
  <2>3. CASE ram' = nvs.content /\ page' \in Overtaken
    BY <1>3, <2>1, <2>3, <1>s DEF RereadConfig
  <2> QED BY <1>3, <2>2, <2>3 DEF RereadConfig
<1>4. CASE UwbInit \/ UwbStart
  BY <1>4, <1>s DEF UwbInit, UwbStart, Store, Shell, Work
<1>5. CASE CmdMode \/ CmdAddress \/ CmdPosition
  <2> PICK name \in Commands, m \in Maps : Begin(name, m) /\ \E f \in Fields : m[f] # Unset
    BY <1>5, CommandsBegin
  <2>1. told = Empty => told' = Empty
    BY DEF Begin, Without, Empty
  <2>2. \A f \in Fields : told'[f] # Unset => told'[f] = told[f]
    BY BegunCommand
  <2> QED BY <2>1, <2>2, BegunCommand DEF Store, Keeps
<1>6. CASE CmdErase
  BY <1>6, <1>t DEF CmdErase, Main, Work, Keeps
<1>e. ASSUME NEW r \in {"ok", "failed"}, End(r), UNCHANGED <<nvs, ram, tlvSet>>,
             r = "ok" => shell = "verify"
      PROVE  KeptInv'
  <2>2. CASE r = "ok" /\ ~cmd.early /\ SetFields # {}
    <3>1. Written = SetFields
      BY <1>e, <2>2 DEF Written, CommandInv
    <3>2. \A f \in Fields : told'[f] = IF f \in SetFields THEN cmd.set[f] ELSE told[f]
      BY <1>e, <2>2 DEF End
    <3>3. Holds(nvs.content, SetFields) /\ Holds(ram, SetFields) /\ nvs.kind = "full"
      BY <2>2, <3>1 DEF WrittenInv
    <3>4. shell' = "idle"
      BY <1>e DEF End
    <3> QED BY <1>e, <3>2, <3>3, <3>4 DEF Keeps, Holds
  <2>3. CASE ~(r = "ok" /\ ~cmd.early /\ SetFields # {})
    <3>1. told' = told
      BY <1>e, <2>3 DEF End, TypeOK, Maps
    <3> QED BY <1>e, <3>1 DEF End, Keeps
  <2> QED BY <2>2, <2>3
<1>7. CASE FindField
  <2>1. CASE End("failed")
    BY <1>7, <2>1, <1>e DEF FindField, Store
  <2>2. CASE shell' \in {"append", "insert"} /\ UNCHANGED <<mine, page, cmd, told>>
    BY <1>7, <2>2, <1>s DEF FindField, Store
  <2> QED BY <1>7, <2>1, <2>2 DEF FindField
<1>8. CASE InsertValue \/ CopyValue \/ AppendField \/ StoreLength \/ StoreCrc
  <2>1. Field \in cmd.todo /\ Field \in Fields
    BY <1>8, FieldInTodo DEF CommandInv, InsertValue, CopyValue, AppendField, StoreLength,
       StoreCrc, WritePcs
  <2>2. tlvSet => Keeps(ram')
    BY <1>8, <2>1, WriteTouches, TouchesKeeps
  <2>3. shell' # "storing" /\ UNCHANGED <<nvs, tlvSet, told>>
    BY <1>8 DEF InsertValue, CopyValue, AppendField, StoreLength, StoreCrc
  <2> QED BY <2>2, <2>3, <1>s
<1>9. CASE AppendSizeAndValue \/ ComputeCrc
  BY <1>9, <1>s DEF AppendSizeAndValue, ComputeCrc, Store
<1>10. CASE WriteItem
  <2>1. Keeps(ram)
    BY <1>10 DEF WriteItem, TlvInv
  <2> QED BY <1>10, <2>1, <1>s DEF WriteItem, Store
<1>11. CASE StoreValue
  <2>1. CASE nvs' = Full(page) /\ shell' = "reread" /\ UNCHANGED told
    BY <1>11, <2>1, <1>s DEF StoreValue, Full
  <2>2. CASE UNCHANGED nvs /\ End("failed")
    BY <1>11, <2>2, <1>e DEF StoreValue
  <2> QED BY <1>11, <2>1, <2>2 DEF StoreValue
<1>12. CASE RereadValue
  BY <1>12, <1>s DEF RereadValue
<1>13. CASE Verify
  BY <1>13, <1>e DEF Verify, Store
<1>14. CASE Restart
  BY <1>14, <1>s DEF Restart
<1>15. CASE UNCHANGED vars
  BY <1>15, <1>s DEF vars
<1> QED
  BY <1>1, <1>2, <1>3, <1>4, <1>5, <1>6, <1>7, <1>8, <1>9, <1>10, <1>11, <1>12, <1>13,
     <1>14, <1>15 DEF Next, MainStep, ShellStep, Call, Insert, Append, WriteCrc, NvsWrite

\* What a command that is not early has written stays where it is until it ends: main
\* no longer touches the store.
LEMMA WrittenStep == TypeOK /\ NodeInv /\ [Next]_vars => WrittenInv'
<1> SUFFICES ASSUME TypeOK, NodeInv, [Next]_vars PROVE WrittenInv'
  OBVIOUS
<1> USE DEF NodeInv
<1>i. ASSUME cmd' = NoCmd, shell' \in {"idle", "fault"} PROVE WrittenInv'
  <2>1. Written' = {}
    BY <1>i DEF Written, SetFields, NoCmd, Empty
  <2> QED BY <1>i, <2>1 DEF WrittenInv, Holds, Placed, Appending
<1>s. ASSUME UNCHANGED <<shell, mine, cmd, ram, nvs, page>> PROVE WrittenInv'
  BY <1>s, SameCommand DEF WrittenInv, Holds, Placed, Appending, Found
<1>w. ASSUME shell \in WritePcs PROVE Field \in cmd.todo /\ Field \in Fields /\ Field \notin Written
  BY <1>w, FieldInTodo DEF CommandInv, Written
<1>1. CASE FlashInit \/ ReadConfig \/ RereadConfig
  <2>1. UNCHANGED <<shell, cmd>> /\ main \in ConfigInit /\ shell # "fault"
    BY <1>1 DEF FlashInit, ReadConfig, RereadConfig, Shell, Work, ConfigInit, Alive
  <2>2. CASE cmd.early
    BY <2>1, <2>2 DEF WrittenInv
  <2>3. CASE ~cmd.early
    <3>1. shell = "idle"
      BY <2>1, <2>3 DEF CommandInv, TypeOK
    <3> QED BY <1>i, <2>1, <3>1 DEF CommandInv
  <2> QED BY <2>2, <2>3
<1>2. CASE UwbInit \/ UwbStart
  BY <1>2, <1>s DEF UwbInit, UwbStart, Store, Shell, Work
<1>3. CASE CmdMode \/ CmdAddress \/ CmdPosition
  <2> PICK name \in Commands, m \in Maps : Begin(name, m) /\ \E f \in Fields : m[f] # Unset
    BY <1>3, CommandsBegin
  <2> QED BY BegunCommand DEF WrittenInv, Holds, Placed, Appending
<1>4. CASE CmdErase
  BY <1>4, <1>i DEF CmdErase, CommandInv, Work
<1>5. CASE FindField
  <2>1. CASE End("failed")
    BY <2>1, <1>i DEF End
  <2>2. CASE shell' \in {"append", "insert"} /\ UNCHANGED <<mine, page, cmd, told>>
    <3>1. ~cmd.early => /\ shell' = "append" => ~Found
                        /\ ram.chain = "whole" /\ shell' = "insert" => Found
      BY <1>5, <2>2 DEF FindField, End, Misled, CommandInv
    <3> QED BY <1>5, <2>2, <3>1, SameCommand DEF FindField, Store, WrittenInv, Holds, Placed,
             Appending, Found
  <2> QED BY <1>5, <2>1, <2>2 DEF FindField
<1>6. CASE InsertValue \/ CopyValue \/ AppendField \/ StoreLength \/ StoreCrc
  <2> SUFFICES ASSUME ~cmd.early PROVE WrittenInv'
    BY <1>6 DEF InsertValue, CopyValue, AppendField, StoreLength, StoreCrc, WrittenInv
  <2>1. shell \in WritePcs /\ UNCHANGED <<nvs, page, cmd>>
    BY <1>6 DEF InsertValue, CopyValue, AppendField, StoreLength, StoreCrc, WritePcs
  <2>2. Holds(ram', Written)
    BY <1>6, <1>w, <2>1, WriteTouches DEF Holds, Touches, WrittenInv, Written, SetFields
  <2>3. mine \notin {"stale", "overtaken"}
    BY DEF CommandInv
  <2>v. /\ Touches(With(cmd.set[Field]))
        /\ With(cmd.set[Field]).chain = "whole" => With(cmd.set[Field]).map[Field] = cmd.set[Field]
    BY <1>w, <2>1, WithTouches DEF TypeOK, Maps
  <2>p. ASSUME ram'.chain = "whole", Placed' PROVE ram'.map[Field] = cmd.set[Field]
    <3>1. CASE InsertValue
      BY <2>p, <3>1, <2>3, ConstantTypes DEF InsertValue, Placed
    <3>2. CASE CopyValue
      BY <2>p, <3>2, <2>3, <2>v DEF CopyValue
    <3>3. CASE AppendField
      BY <2>p, <3>3 DEF AppendField, Placed
    <3>4. CASE StoreLength
      <4>1. mine \in {"length", "entry"}
        BY <3>4 DEF StoreLength, WrittenInv
      <4>2. CASE mine = "length"
        BY <2>p, <3>4, <4>2 DEF StoreLength, WrittenInv, Placed, Holds
      <4>3. CASE mine = "entry" /\ ram.chain = "whole"
        <5>1. ~Found
          BY <3>4, <4>3 DEF StoreLength, WrittenInv, Appending
        <5>2. ram' = With(cmd.set[Field])
          BY <3>4, <4>3, <5>1 DEF StoreLength
        <5> QED BY <2>p, <5>2, <2>v
      <4>4. CASE mine = "entry" /\ ram.chain # "whole"
        <5>1. ram' = Longer
          BY <3>4, <4>4 DEF StoreLength
        <5> QED BY <2>p, <4>4, <5>1, LengthTouches
      <4> QED BY <4>1, <4>2, <4>3, <4>4
    <3>5. CASE StoreCrc
      <4>1. ram'.map = ram.map /\ ram'.chain = ram.chain
        BY <3>5 DEF StoreCrc, TypeOK, Contents
      <4> QED BY <2>p, <3>5, <4>1 DEF StoreCrc, WrittenInv, Placed, Holds
    <3> QED BY <1>6, <3>1, <3>2, <3>3, <3>4, <3>5
  <2>4. Placed' => Holds(ram', {Field})
    BY <2>p DEF Holds
  <2>5. /\ shell' = "copy" => mine' = "field"
        /\ shell' = "tail" => mine' = "type"
        /\ shell' = "length" => mine' = "length"
        /\ shell' \notin {"storing", "reread", "insert"}
        /\ Appending' => shell' = "tail" /\ shell = "append" /\ ram' = ram
    BY <1>6, <2>3 DEF InsertValue, CopyValue, AppendField, StoreLength, StoreCrc, Appending
  <2>6. ram'.chain = "whole" /\ Appending' => ~Found'
    BY <2>1, <2>5, SameCommand DEF WrittenInv, Appending, Found
  <2> QED BY <2>1, <2>2, <2>4, <2>5, <2>6, SameCommand DEF WrittenInv, Holds
<1>7. CASE AppendSizeAndValue \/ ComputeCrc
  BY <1>7, SameCommand DEF AppendSizeAndValue, ComputeCrc, Store, WrittenInv, Holds, Placed,
     Appending, Found
<1>8. CASE WriteItem
  BY <1>8, SameCommand DEF WriteItem, Store, WrittenInv, Holds, Placed, Appending, Found
<1>9. CASE StoreValue
  <2>1. CASE nvs' = Full(page) /\ shell' = "reread" /\ UNCHANGED <<mine, cmd, told>>
    <3>1. ~cmd.early => nvs' = Full(ram) /\ nvs'.kind = "full" /\ nvs'.content = ram
      BY <1>9, <2>1 DEF StoreValue, WrittenInv, Full
    <3> QED BY <1>9, <2>1, <3>1, SameCommand DEF StoreValue, WrittenInv, Holds, Placed,
             Appending
  <2>2. CASE End("failed")
    BY <2>2, <1>i DEF End
  <2> QED BY <1>9, <2>1, <2>2 DEF StoreValue
<1>10. CASE RereadValue
  <2>1. cmd'.set = cmd.set /\ cmd'.early = cmd.early /\ cmd'.todo = cmd.todo \ {Field}
    BY <1>10 DEF RereadValue, TypeOK
  <2>2. Written' \subseteq Written \cup {Field}
    BY <2>1 DEF Written, SetFields
  <2>3. ~cmd.early => /\ ram' = ram /\ nvs.content = ram /\ nvs.kind = "full"
                      /\ Holds(ram, Written) /\ Holds(ram, {Field})
    BY <1>10 DEF RereadValue, WrittenInv, Placed, Full
  <2>4. shell' \in {"verify", "write"} /\ UNCHANGED nvs
    BY <1>10 DEF RereadValue
  <2> QED BY <2>1, <2>2, <2>3, <2>4 DEF WrittenInv, Holds, Placed, Appending
<1>11. CASE Verify
  BY <1>11, <1>i DEF Verify, End
<1>12. CASE Restart
  BY <1>12, <1>i DEF Restart
<1>13. CASE UNCHANGED vars
  BY <1>13, <1>s DEF vars
<1> QED
  BY <1>1, <1>2, <1>3, <1>4, <1>5, <1>6, <1>7, <1>8, <1>9, <1>10, <1>11, <1>12, <1>13
     DEF Next, MainStep, ShellStep, Call, Insert, Append, WriteCrc, NvsWrite

\* The invariant holds at power-up and is kept by every step.
LEMMA NodeInvariant == Spec => [](TypeOK /\ NodeInv)
<1>1. Init => NodeInv
  <2> SUFFICES ASSUME Init PROVE NodeInv
    OBVIOUS
  <2>1. SetFields = {} /\ Written = {}
    BY NothingWritten DEF Init
  <2>2. TlvInv /\ CommandInv
    BY <2>1 DEF Init, TlvInv, CommandInv, NoCmd, WritePcs
  <2>3. KeptInv /\ WrittenInv
    BY <2>1 DEF Init, KeptInv, Keeps, WrittenInv, Holds, Placed, Appending, Empty
  <2> QED BY <2>2, <2>3 DEF NodeInv
<1>2. TypeOK /\ NodeInv /\ [Next]_vars => NodeInv'
  BY TlvStep, CommandStep, KeptStep, WrittenStep DEF NodeInv
<1> QED
  BY <1>1, <1>2, TypeCorrect, TypeStep, PTL DEF Spec

\* What a command that is not early has confirmed stays in the stored item, as long as
\* its chain is whole, whatever main, failing writes, restarts and the commands that
\* main cuts do, until a command touches it.
THEOREM ConfirmedStaysStored == Spec => []ConfirmedIsStored
<1>1. NodeInv => ConfirmedIsStored
  BY DEF NodeInv, KeptInv, Keeps, ConfirmedIsStored, Empty
<1> QED
  BY <1>1, NodeInvariant, PTL

\* uwb_init gives uwb exactly these values, as long as find_field sees every entry.
THEOREM UwbStartsWithConfirmed == Spec => StartsWithConfirmed
<1>1. TypeOK /\ NodeInv /\ [Next]_vars
        => (main = "uwb_init" /\ main' = "uwb_start" /\ ram.chain = "whole" =>
              \A f \in Fields :
                told[f] # Unset /\ (f \in {"X", "Y"} => uwb'.config["MODE"] = "anchor")
                  => uwb'.config[f] = told[f])
  <2> SUFFICES ASSUME TypeOK, NodeInv, [Next]_vars, main = "uwb_init", main' = "uwb_start",
                      ram.chain = "whole", NEW f \in Fields, told[f] # Unset,
                      f \in {"X", "Y"} => uwb'.config["MODE"] = "anchor"
               PROVE  uwb'.config[f] = told[f]
    OBVIOUS
  <2>d. Call => UNCHANGED main
    BY DEF Call, Insert, Append, WriteCrc, NvsWrite, FindField, InsertValue, CopyValue,
       AppendField, AppendSizeAndValue, StoreLength, ComputeCrc, StoreCrc, WriteItem, StoreValue,
       RereadValue, Verify, Main
  <2>1. UwbInit
    BY <2>d, CommandsBegin DEF Next, MainStep, FlashInit, ReadConfig, LoadConfig, RereadConfig,
       UwbStart, ShellStep, Begin, CmdErase, Restart, Main, vars
  <2>2. uwb'.config = UwbConfig(ram.map)
    BY <2>1 DEF UwbInit, TypeOK, Seen
  <2>3. ram.map[f] = told[f] /\ told[f] # Unset
    BY DEF NodeInv, KeptInv, Keeps, TlvInv, TypeOK
  <2>4. Or(ram.map[f], "dummy") = told[f] /\ Or(ram.map[f], "zero") = told[f]
    BY <2>3 DEF Or
  <2>5. CASE f \in {"MODE", "ADDRESS"}
    BY <2>2, <2>3, <2>4, <2>5 DEF UwbConfig
  <2>6. CASE f \in {"X", "Y"}
    <3>1. Or(ram.map["MODE"], "dummy") = "anchor"
      BY <2>2, <2>6 DEF UwbConfig, Fields
    <3>2. ram.map["MODE"] = "anchor"
      BY <3>1 DEF Or
    <3> QED BY <2>2, <2>3, <2>4, <2>6, <3>2 DEF UwbConfig
  <2> QED BY <2>3, <2>5, <2>6 DEF Fields
<1> QED
  BY <1>1, NodeInvariant, PTL DEF Spec, StartsWithConfirmed
=============================================================================
