----------------------------- MODULE DelayedTrx -----------------------------
(***************************************************************************)
(* Delayed transmission and reception against the DW1000's clock: the      *)
(* start time read from a 40-bit counter, extended, cut to 32 bits and     *)
(* rounded by the chip, while the clock runs on between any two SPI        *)
(* transactions.                                                           *)
(*                                                                         *)
(*   src/src/uwb_anchor.c                 send_tx_packet                   *)
(*   src/src/uwb_utils.c                  uwb_utils_timestamp_to_u64       *)
(*   src/dw1000/src/deca_device.c         dwt_setdelayedtrxtime,           *)
(*                                        dwt_starttx, dwt_rxenable        *)
(*                                                                         *)
(* UwbThread leaves it to a choice whether a start time was missed         *)
(* (TxInTime, TxLate); here the clock decides.  A time is a number of      *)
(* device time units modulo Period.                                        *)
(***************************************************************************)
EXTENDS Naturals

CONSTANTS
  Byte,     \* values of a byte: 2^8
  Bytes,    \* bytes of a timestamp: 5
  Ignored,  \* the chip ignores the low 9 bits of a start time: 2^9
  Delay,    \* 200000000 * 10 of send_tx_packet
  PowerUp,  \* how long before the start the transmitter must be told
  MaxLag,   \* bound: how long after its reading of the clock a caller gives its command
  RxModes   \* the delayed modes of dwt_rxenable that are used

\* The weight of a timestamp's byte: Byte^i.
Power[i \in 0 .. Bytes] == IF i = 0 THEN 1 ELSE Byte * Power[i - 1]

\* The counter, SYS_TIME, wraps after Byte^Bytes units.
Period == Power[Bytes]
Half   == Period \div 2

ASSUME DeviceTimeAssumption ==
  /\ Byte \in Nat \ {0, 1} /\ Bytes \in Nat \ {0}
  /\ Ignored \in Nat \ {0} /\ Ignored % Byte = 0 /\ Period % Ignored = 0

\* 2000000000 units are 31 ms; half a period is 8.6 s, which no caller loses.  A transmitter
\* that needs no time at all would take a start of this very unit for one a period ahead.
ASSUME DelayAssumption ==
  /\ Delay \in Nat /\ PowerUp \in Nat \ {0} /\ MaxLag \in Nat
  /\ PowerUp + Ignored < Delay /\ Delay < Half /\ MaxLag < Half

ASSUME RxModesAssumption == RxModes \subseteq {"DELAYED", "DELAYED | IDLE_ON_DLY_ERR"}

VARIABLES
  sysTime,  \* SYS_TIME
  dxTime,   \* DX_TIME
  radio,    \* "off", "txwait", "tx", "rxwait" or "rx"
  warned,   \* HPDWARN and TXPUTE, as the last command has set them
  pc,       \* the caller
  mode,     \* what it is about to do: "tx" or a mode of dwt_rxenable
  start,    \* its local start
  result,   \* what dwt_starttx or dwt_rxenable has returned
  elapsed   \* time since it has read the clock

caller == <<pc, mode, start, result>>
chip   == <<sysTime, dxTime, radio, warned>>
vars   == <<chip, caller, elapsed>>

Times == 0 .. Period - 1

TypeOK ==
  /\ sysTime \in Times /\ dxTime \in Times /\ start \in Times
  /\ radio \in {"off", "txwait", "tx", "rxwait", "rx"}
  /\ warned \subseteq {"HPDWARN", "TXPUTE"}
  /\ pc \in {"idle", "read", "set", "started", "enabled"}
  /\ mode \in {"tx"} \cup RxModes
  /\ result \in {"none", "success", "error"}
  /\ elapsed \in 0 .. Period

-----------------------------------------------------------------------------
(***************************************************************************)
(* Timestamps.                                                             *)
(***************************************************************************)
\* dwt_readsystime, dwt_readtxtimestamp, dwt_readrxtimestamp: five bytes, the lowest first.
ReadTimestamp(t) == [i \in 0 .. Bytes - 1 |-> (t \div Power[i]) % Byte]

\* Mutant: the loop starts at the byte below the highest.
ToU64LosesTopByte(b) ==
  LET ts[i \in 0 .. Bytes - 1] == IF i = Bytes - 1 THEN 0 ELSE ts[i + 1] * Byte + b[i]
  IN  ts[0]

\* uwb_utils_timestamp_to_u64.
ToU64(b) ==
  LET ts[i \in 0 .. Bytes] == IF i = Bytes THEN 0 ELSE ts[i + 1] * Byte + b[i]
  IN  ts[0]

\* dwt_setdelayedtrxtime writes 32 bits at offset 1 of DX_TIME.
DxTime(hi32) == hi32 * Byte

\* Mutant: the sum is shifted and not cut, as a wider variable would have it.
StartUncut(t) == (t + Delay) \div Byte

\* send_tx_packet: the 64-bit sum, shifted, and cut by the assignment to a uint32_t.
StartHi32(t) == ((t + Delay) \div Byte) % (Period \div Byte)

\* The time at which the chip starts: it ignores the low bits of DX_TIME.
StartsAt(dx) == dx - (dx % Ignored)

\* How far t lies ahead of the clock.
Ahead(t) == (t + Period - sysTime) % Period

-----------------------------------------------------------------------------
(***************************************************************************)
(* The chip.                                                               *)
(***************************************************************************)
\* A delayed command is late when its time lies more than half a period ahead.
Late == Ahead(StartsAt(dxTime)) >= Half

\* A transmitter needs time to power up.
TooCloseToSend == Ahead(StartsAt(dxTime)) < PowerUp

\* The clock advances, also while the frame is written to the chip, and the chip starts
\* what it has been told to start now.
Tick ==
  /\ pc # "idle" => elapsed < MaxLag
  /\ sysTime' = (sysTime + 1) % Period
  /\ elapsed' = IF elapsed < Period THEN elapsed + 1 ELSE elapsed
  /\ LET due == radio \in {"txwait", "rxwait"} /\ sysTime' = StartsAt(dxTime)
     IN  radio' = IF due THEN (IF radio = "txwait" THEN "tx" ELSE "rx") ELSE radio
  /\ UNCHANGED <<dxTime, warned, caller>>

\* The frame has been sent, or one has been received.
Stops ==
  /\ pc = "idle" /\ radio \in {"tx", "rx"}
  /\ radio' = "off"
  /\ UNCHANGED <<sysTime, dxTime, warned, caller, elapsed>>

-----------------------------------------------------------------------------
(***************************************************************************)
(* The caller.                                                             *)
(***************************************************************************)
\* start_next_event has turned the transceiver off, whatever it was waiting for.
ReadSysTime ==
  /\ pc = "idle"
  /\ \E m \in {"tx"} \cup RxModes : mode' = m
  /\ start' = ToU64(ReadTimestamp(sysTime))
  /\ radio' = "off"
  /\ pc' = "read" /\ result' = "none" /\ elapsed' = 0
  /\ UNCHANGED <<sysTime, dxTime, warned>>

SetDelayedTrxTime ==
  /\ pc = "read"
  /\ dxTime' = DxTime(StartHi32(start))
  /\ pc' = "set"
  /\ UNCHANGED <<sysTime, radio, warned, mode, start, result, elapsed>>

\* dwt_starttx: TXSTRT and TXDLYS are written.
StartTx ==
  /\ pc = "set" /\ mode = "tx"
  /\ warned' = (IF Late THEN {"HPDWARN"} ELSE {}) \cup (IF TooCloseToSend THEN {"TXPUTE"} ELSE {})
  /\ radio' = "txwait"
  /\ pc' = "started"
  /\ UNCHANGED <<sysTime, dxTime, mode, start, result, elapsed>>

\* Mutant: the check is left out.
TxErrNever == FALSE

\* SYS_STATUS_TXERR.
TxErr == warned # {}

\* dwt_starttx: with a warning set, the transmission is cancelled.
CheckTx ==
  /\ pc = "started"
  /\ IF TxErr
       THEN radio' = "off" /\ result' = "error"
       ELSE UNCHANGED radio /\ result' = "success"
  /\ pc' = "idle"
  /\ UNCHANGED <<sysTime, dxTime, warned, mode, start, elapsed>>

\* dwt_rxenable in a delayed mode.  A receiver whose time is now goes on.
RxEnable ==
  /\ pc = "set" /\ mode # "tx"
  /\ warned' = IF Late THEN {"HPDWARN"} ELSE {}
  /\ radio' = IF Ahead(StartsAt(dxTime)) = 0 THEN "rx" ELSE "rxwait"
  /\ pc' = "enabled"
  /\ UNCHANGED <<sysTime, dxTime, mode, start, result, elapsed>>

\* After dwt_forcetrxoff the receiver goes on at once, unless the caller wants it off.
WhenLate(m) == IF m = "DELAYED | IDLE_ON_DLY_ERR" THEN "off" ELSE "rx"

CheckRx ==
  /\ pc = "enabled"
  /\ IF "HPDWARN" \in warned
       THEN radio' = WhenLate(mode) /\ result' = "error"
       ELSE UNCHANGED radio /\ result' = "success"
  /\ pc' = "idle"
  /\ UNCHANGED <<sysTime, dxTime, warned, mode, start, elapsed>>

Init ==
  /\ sysTime \in Times /\ dxTime = 0 /\ radio = "off" /\ warned = {}
  /\ pc = "idle" /\ mode = "tx" /\ start = 0 /\ result = "none" /\ elapsed = 0

Call == ReadSysTime \/ SetDelayedTrxTime \/ StartTx \/ CheckTx \/ RxEnable \/ CheckRx
Next == Tick \/ Stops \/ Call
Spec == Init /\ [][Next]_vars

-----------------------------------------------------------------------------
(***************************************************************************)
(* Properties.                                                             *)
(***************************************************************************)
\* A frame goes on air, and a receiver goes on, Delay after the caller has read the
\* clock, less the bits that the chip ignores, wherever in the period that was: never
\* later, and never a period later.  (A command with a warning that the caller has yet
\* to look at is about to be cancelled: ResultIsTrue is about it.)
StartsWhenAsked ==
  [][(pc = "idle" \/ warned = {}) /\ radio \in {"txwait", "rxwait"} /\ radio' \in {"tx", "rx"}
       => elapsed' \in Delay - Ignored + 1 .. Delay]_vars

\* What dwt_starttx and dwt_rxenable return is true: after "success" the radio is on
\* or will be by the time asked for; an error means that the time was missed, or too
\* near for the transmitter, and leaves nothing armed that would go off a period later.
ResultIsTrue ==
  [][pc' = "idle" /\ pc \in {"started", "enabled"}
       => IF result' = "success"
            THEN radio' \in {"tx", "rx"} \/ elapsed + Ahead(StartsAt(dxTime)) <= Delay
            ELSE /\ elapsed > Delay - Ignored + 1 - PowerUp
                 /\ radio' = IF mode = "DELAYED" THEN "rx" ELSE "off"]_vars
=============================================================================
