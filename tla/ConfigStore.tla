---------------------------- MODULE ConfigStore ----------------------------
(***************************************************************************)
(* src/src/config.c: the TLV buffer, its CRC and the NVS item it is kept   *)
(* in, from config_init to the shell's calls, with failing writes and with *)
(* a restart between any two steps.                                        *)
(*                                                                         *)
(* The TLV area is the sequence of its first tlv_length bytes.  Nothing    *)
(* reads the bytes behind it as long as the fields form a chain that ends  *)
(* at tlv_length (ChainWellFormed).  The CRC is the sequence it was        *)
(* computed from: two contents never share one.  The versions are          *)
(* constants and are left out.                                             *)
(***************************************************************************)
EXTENDS Integers, Sequences, FiniteSets

CONSTANTS
  Fields,         \* config_field_t
  Values,         \* the byte sequences written, one per type and value
  SIZE_TLV_MAX,   \* 118
  WriteFailures,  \* may nvs_write and nvs_delete fail?
  DamagedItems    \* items with a wrong CRC that may be found at the first start

ASSUME FieldsAssumption == Fields \subseteq Nat
ASSUME ValuesAssumption == Values \subseteq Seq(Nat) /\ <<>> \notin Values
ASSUME SizeAssumption   == SIZE_TLV_MAX \in Nat
ASSUME FailureAssumption == WriteFailures \in BOOLEAN

VARIABLES
  buffer,    \* _buffer: [magic, tlv, crc]
  tlvSet,    \* is tlv.data set?
  flash,     \* NVS item CONFIG_NVS_ID: [kind, magic, tlv, crc]
  pc,        \* where config_init or the call in progress is
  call,      \* the call in progress: [op, field, value]
  pos,       \* find_field: pos
  result,    \* what the last call returned
  failed     \* history: RAM holds a change that nvs_write refused

vars == <<buffer, tlvSet, flash, pc, call, pos, result, failed>>

NoCrc  == <<"zero">>   \* four zero bytes: no content has this CRC
Zeroed == [magic |-> FALSE, tlv |-> <<>>, crc |-> NoCrc]
Item(b) == [kind |-> "full", magic |-> b.magic, tlv |-> b.tlv, crc |-> b.crc]

\* flash_init's dummy item: four uninitialised bytes, which may look like a magic.
ShortItem(m) == [kind |-> "short", magic |-> m, tlv |-> <<>>, crc |-> NoCrc]
Absent       == [kind |-> "absent", magic |-> FALSE, tlv |-> <<>>, crc |-> NoCrc]

Results == {"none", "ok", "no_space", "not_stored", "not_read", "not_found",
            "too_long", "size_mismatch"}
Pcs == {"boot", "boot_read", "boot_check", "boot_defaults", "boot_reread", "ready",
        "find", "read_value", "insert", "append", "nvs_write", "reread", "fault"}

TypeOK ==
  /\ buffer.magic \in BOOLEAN /\ buffer.tlv \in Seq(Nat)
  /\ tlvSet \in BOOLEAN
  /\ flash.kind \in {"absent", "short", "full"} /\ flash.tlv \in Seq(Nat)
  /\ pc \in Pcs
  /\ call \in [op : {"read", "write"}, field : Fields, value : Values]
  /\ pos \in 0 .. SIZE_TLV_MAX
  /\ result \in Results
  /\ failed \in BOOLEAN

-----------------------------------------------------------------------------
(***************************************************************************)
(* The buffer.                                                             *)
(***************************************************************************)
tlv == buffer.tlv
tlv_length == Len(tlv)
Data(i) == tlv[i + 1]                  \* tlv.data[i]

\* check_data: the magic and the CRC; the length is within the buffer.
CheckData(b) == b.magic /\ b.crc = b.tlv

\* write_crc.
WithCrc(b) == [b EXCEPT !.crc = b.tlv]

\* read_buffer: a short item leaves everything behind its four bytes alone.
ReadBuffer ==
  /\ flash.kind # "absent"
  /\ buffer' = IF flash.kind = "short"
                 THEN [buffer EXCEPT !.magic = flash.magic]
                 ELSE [magic |-> flash.magic, tlv |-> flash.tlv, crc |-> flash.crc]

Bytes(f, v) == <<f, Len(v)>> \o v

-----------------------------------------------------------------------------
(***************************************************************************)
(* config_init.                                                            *)
(***************************************************************************)
\* flash_init: with no item, a dummy is written; on failure config_init gives
\* up before tlv.data is set.
FlashInit ==
  /\ pc = "boot"
  /\ \/ flash.kind # "absent" /\ pc' = "boot_read" /\ UNCHANGED flash
     \/ /\ flash.kind = "absent" /\ pc' = "boot_read"
        /\ \E m \in BOOLEAN : flash' = ShortItem(m)
     \/ /\ flash.kind = "absent" /\ WriteFailures
        /\ pc' = "ready" /\ UNCHANGED flash
  /\ UNCHANGED <<buffer, tlvSet, call, pos, result, failed>>

BootRead ==
  /\ pc = "boot_read"
  /\ ReadBuffer
  /\ tlvSet' = TRUE
  /\ pc' = "boot_check"
  /\ UNCHANGED <<flash, call, pos, result, failed>>

BootCheck ==
  /\ pc = "boot_check"
  /\ pc' = IF CheckData(buffer) THEN "ready" ELSE "boot_defaults"
  /\ UNCHANGED <<buffer, tlvSet, flash, call, pos, result, failed>>

\* write_defaults: magic, versions and CRC; the TLV area stays as it is.
WriteDefaults ==
  /\ pc = "boot_defaults"
  /\ buffer' = WithCrc([buffer EXCEPT !.magic = TRUE])
  /\ \/ flash' = Item(buffer') /\ pc' = "boot_reread"
     \/ WriteFailures /\ UNCHANGED flash /\ pc' = "ready"
  /\ failed' = (flash' = flash)
  /\ UNCHANGED <<tlvSet, call, pos, result>>

\* The check that follows cannot fail: the CRC has just been computed.
BootReread ==
  /\ pc = "boot_reread"
  /\ ReadBuffer
  /\ pc' = "ready"
  /\ UNCHANGED <<tlvSet, flash, call, pos, result, failed>>

\* A restart, by power or by a fault, at any point.
Restart ==
  /\ buffer' = Zeroed /\ tlvSet' = FALSE
  /\ pc' = "boot" /\ pos' = 0 /\ result' = "none" /\ failed' = FALSE
  /\ UNCHANGED <<flash, call>>

-----------------------------------------------------------------------------
(***************************************************************************)
(* write_value and read_value.                                             *)
(***************************************************************************)
Fits(v) == 2 + Len(v) <= SIZE_TLV_MAX - tlv_length

\* The call returns r; find_field's position is gone.
Return(r) == pc' = "ready" /\ result' = r /\ pos' = 0

\* write_value refuses before it looks whether the field is there already.
WriteRefused ==
  /\ pc = "ready"
  /\ \E f \in Fields, v \in Values :
       ~Fits(v) /\ call' = [op |-> "write", field |-> f, value |-> v]
  /\ Return("no_space")
  /\ UNCHANGED <<buffer, tlvSet, flash, failed>>

CallWrite ==
  /\ pc = "ready" /\ pc' = "find"
  /\ \E f \in Fields, v \in Values :
       Fits(v) /\ call' = [op |-> "write", field |-> f, value |-> v]
  /\ pos' = 0
  /\ UNCHANGED <<buffer, tlvSet, flash, result, failed>>

\* Only the size of call.value is an argument of read_value.
CallRead ==
  /\ pc = "ready" /\ pc' = "find"
  /\ \E f \in Fields, v \in Values : call' = [op |-> "read", field |-> f, value |-> v]
  /\ pos' = 0
  /\ UNCHANGED <<buffer, tlvSet, flash, result, failed>>

\* find_field, one turn of its loop.
FindNext ==
  /\ pc = "find" /\ pos < tlv_length /\ Data(pos) # call.field
  /\ pos' = pos + Data(pos + 1) + 2
  /\ UNCHANGED <<buffer, tlvSet, flash, pc, call, result, failed>>

FindHit ==
  /\ pc = "find" /\ pos < tlv_length /\ Data(pos) = call.field
  /\ pc' = IF call.op = "read" THEN "read_value" ELSE "insert"
  /\ UNCHANGED <<buffer, tlvSet, flash, call, pos, result, failed>>

\* Mutant: write_value tests pos > -2 and takes find_field's -1 for a position.
FindMissInserts ==
  /\ pc = "find" /\ pos >= tlv_length
  /\ IF call.op = "read" THEN Return("not_found")
     ELSE pc' = "insert" /\ pos' = -1 /\ UNCHANGED result
  /\ UNCHANGED <<buffer, tlvSet, flash, call, failed>>

FindMiss ==
  /\ pc = "find" /\ pos >= tlv_length
  /\ IF call.op = "read" THEN Return("not_found")
     ELSE pc' = "append" /\ pos' = 0 /\ UNCHANGED result
  /\ UNCHANGED <<buffer, tlvSet, flash, call, failed>>

Size == Len(call.value)

\* Mutant: a size smaller than the field's passes.
ReadValuePrefix ==
  /\ pc = "read_value"
  /\ Return(IF pos + 2 + Size >= SIZE_TLV_MAX THEN "too_long"
            ELSE IF Size > Data(pos + 1) THEN "size_mismatch" ELSE "ok")
  /\ UNCHANGED <<buffer, tlvSet, flash, call, failed>>

\* read_value with the field at pos.
ReadValue ==
  /\ pc = "read_value"
  /\ Return(IF pos + 2 + Size >= SIZE_TLV_MAX THEN "too_long"
            ELSE IF Size # Data(pos + 1) THEN "size_mismatch" ELSE "ok")
  /\ UNCHANGED <<buffer, tlvSet, flash, call, failed>>

\* Mutant: the rest of the TLV area does not move.
ReplacedUnmoved ==
  SubSeq(tlv, 1, pos) \o Bytes(call.field, call.value)
    \o SubSeq(tlv, pos + 2 + Len(call.value) + 1, tlv_length)

\* insert_value: the rest of the TLV area moves when the size changes.
Replaced ==
  SubSeq(tlv, 1, pos) \o Bytes(call.field, call.value)
    \o SubSeq(tlv, pos + 2 + Data(pos + 1) + 1, tlv_length)

\* Mutant: write_crc runs before insert_value.
InsertValueStaleCrc ==
  /\ pc = "insert" /\ pc' = "nvs_write"
  /\ buffer' = [WithCrc(buffer) EXCEPT !.tlv = Replaced]
  /\ pos' = 0
  /\ UNCHANGED <<tlvSet, flash, call, result, failed>>

\* Mutant: a replaced value counts as unchanged and is not stored.
InsertValueUnsaved ==
  /\ pc = "insert" /\ Return("ok")
  /\ buffer' = WithCrc([buffer EXCEPT !.tlv = Replaced])
  /\ UNCHANGED <<tlvSet, flash, call, failed>>

InsertValue ==
  /\ pc = "insert" /\ pc' = "nvs_write"
  /\ buffer' = WithCrc([buffer EXCEPT !.tlv = Replaced])
  /\ pos' = 0
  /\ UNCHANGED <<tlvSet, flash, call, result, failed>>

\* append_value stores through tlv.data, which is NULL when config_init gave up
\* early: a bus fault.
AppendValue ==
  /\ pc = "append"
  /\ \/ /\ tlvSet /\ pc' = "nvs_write"
        /\ buffer' = WithCrc([buffer EXCEPT !.tlv = tlv \o Bytes(call.field, call.value)])
     \/ ~tlvSet /\ pc' = "fault" /\ UNCHANGED buffer
  /\ UNCHANGED <<tlvSet, flash, call, pos, result, failed>>

\* write_value: nvs_write of the whole buffer.
NvsWrite ==
  /\ pc = "nvs_write" /\ pc' = "reread"
  /\ flash' = Item(buffer)
  /\ failed' = FALSE
  /\ UNCHANGED <<buffer, tlvSet, call, pos, result>>

NvsWriteFails ==
  /\ pc = "nvs_write" /\ WriteFailures
  /\ Return("not_stored")
  /\ failed' = TRUE
  /\ UNCHANGED <<buffer, tlvSet, flash, call>>

\* After the sleep, read_buffer.
Reread ==
  /\ pc = "reread"
  /\ ReadBuffer
  /\ Return("ok")
  /\ UNCHANGED <<tlvSet, flash, call, failed>>

-----------------------------------------------------------------------------
\* config_erase: nvs_delete.  The buffer is left alone.
ConfigErase ==
  /\ pc = "ready"
  /\ \/ flash' = Absent /\ result' = "ok"
     \/ WriteFailures /\ UNCHANGED flash /\ result' = "not_stored"
  /\ UNCHANGED <<buffer, tlvSet, pc, call, pos, failed>>

\* config_refresh: read_buffer, or -1 when there is no item.
ConfigRefresh ==
  /\ pc = "ready"
  /\ \/ ReadBuffer /\ result' = "ok" /\ failed' = (failed /\ flash.kind = "short")
     \/ flash.kind = "absent" /\ result' = "not_read" /\ UNCHANGED <<buffer, failed>>
  /\ UNCHANGED <<tlvSet, flash, pc, call, pos>>

\* A new chip, or one whose item has been damaged.
Init ==
  /\ buffer = Zeroed /\ tlvSet = FALSE
  /\ flash \in {Absent} \cup DamagedItems
  /\ pc = "boot"
  /\ call \in [op : {"read"}, field : Fields, value : Values]
  /\ pos = 0 /\ result = "none" /\ failed = FALSE

Boot == FlashInit \/ BootRead \/ BootCheck \/ WriteDefaults \/ BootReread
Find == FindNext \/ FindHit \/ FindMiss
Write == WriteRefused \/ CallWrite \/ InsertValue \/ AppendValue \/ NvsWrite
         \/ NvsWriteFails \/ Reread
Read == CallRead \/ ReadValue
Next == Boot \/ Restart \/ Find \/ Write \/ Read \/ ConfigErase \/ ConfigRefresh
Spec == Init /\ [][Next]_vars

-----------------------------------------------------------------------------
(***************************************************************************)
(* The fields of a TLV area, and the map they encode.                      *)
(***************************************************************************)
\* The fields from position i on, given those from every later one; -1 is among them
\* when the chain is broken.
FieldsFrom(t, i, chain) ==
  IF i = Len(t) THEN {}
  ELSE IF i + 1 = Len(t) \/ i + 2 + t[i + 2] > Len(t) THEN {-1}
  ELSE {i} \cup chain[i + 2 + t[i + 2]]

Starts(t) ==
  LET chain[i \in 0 .. Len(t)] == FieldsFrom(t, i, chain) IN chain[0]

WellFormed(t) ==
  /\ Len(t) <= SIZE_TLV_MAX
  /\ -1 \notin Starts(t)
  /\ \A p, q \in Starts(t) : t[p + 1] = t[q + 1] => p = q

ValueAt(t, p) == SubSeq(t, p + 3, p + 2 + t[p + 2])

FieldMap(t) ==
  [f \in Fields |->
     IF \E p \in Starts(t) : t[p + 1] = f
       THEN ValueAt(t, CHOOSE p \in Starts(t) : t[p + 1] = f)
       ELSE <<>>]

\* The damage has spared the chain.  Foreign content of the item is not modelled.
ASSUME DamageAssumption ==
  /\ DamagedItems \subseteq
       [kind : {"full"}, magic : BOOLEAN, tlv : Seq(Nat), crc : Seq(Nat)]
  /\ \A item \in DamagedItems :
       /\ WellFormed(item.tlv)
       /\ \A p \in Starts(item.tlv) : ValueAt(item.tlv, p) \in Values

-----------------------------------------------------------------------------
(***************************************************************************)
(* Properties.                                                             *)
(***************************************************************************)
\* However fields of different sizes replace each other, the buffer and the item
\* hold a chain of whole fields, none of them twice, inside the TLV area.
ChainWellFormed == WellFormed(buffer.tlv) /\ WellFormed(flash.tlv)

\* Whatever step a restart interrupts or a failing write cuts short, the stored
\* item passes check_crc, unless it is still the damaged one; and between calls it
\* is what the buffer holds, unless a write has failed.
FlashConsistent ==
  /\ flash.kind = "full" /\ flash \notin DamagedItems => flash.crc = flash.tlv
  /\ pc = "ready" /\ flash.kind = "full" /\ tlvSet /\ ~failed => Item(buffer) = flash

\* A read finds the field exactly when it is there, and returns its own bytes,
\* not bytes of a value that look like a field.
ReadReturnsField ==
  [][pc' = "ready" /\ pc \in {"find", "read_value"} =>
       LET value == FieldMap(tlv)[call.field]
       IN  /\ (result' = "not_found") <=> (value = <<>>)
           /\ result' = "ok" => SubSeq(tlv, pos + 3, pos + 2 + Size) = value]_vars

\* The store implements the abstract map: every write changes one field of the
\* working copy, and what is stored is the whole working copy.
Map == INSTANCE ConfigMap WITH
         Unset <- <<>>,
         ram <- FieldMap(buffer.tlv),
         nvs <- [present |-> flash.kind = "full", map |-> FieldMap(flash.tlv)],
         pending <- pc \in {"nvs_write", "boot_defaults"}
ImplementsMap == Map!Spec

=============================================================================
