# Verification of tdoa

`tdoa` is Zephyr firmware for a DWM1001 board: a tag and anchors for
time-difference-of-arrival positioning over the DW1000 UWB transceiver. This
directory models it in TLA+. TLC checks every module on small instances; TLAPS
proves the most important safety properties for every value of the constants.

- [1. Inventory](#1-inventory)
- [2. Plan](#2-plan)
- [3. Modules and code](#3-modules-and-code)
- [4. Runs](#4-runs)
- [5. Fairness](#5-fairness)
- [6. Proofs](#6-proofs)
- [7. Where the code and its texts disagree](#7-where-the-code-and-its-texts-disagree)
- [8. What is not modelled](#8-what-is-not-modelled)
- [9. How to run it](#9-how-to-run-it)

## 1. Inventory

### Parts

| Part | Code | State it keeps | Operations |
|---|---|---|---|
| uwb thread | `src/uwb.c` | `uwb_irq_sem`, `timeout_ms`, `algorithm`, `uwb_config` | `uwb_init`, `uwb_start`, `uwb_loop`, `uwb_isr`, four driver callbacks |
| algorithms | `src/uwb_tag.c`, `src/uwb_anchor.c`, `src/uwb_dummy.c` | the anchor's `ctx.next_tx_tick`, the static packets | `init`, `on_event` |
| DW1000 driver | `dw1000/src/deca_device.c` | `dw1000local` and the chip's registers | interrupt: `dwt_isr`, `dwt_checkirq`, `dwt_forcetrxoff`, `dwt_rxenable`, `dwt_starttx`; configuration: `dwt_initialise`, `dwt_configure`, sleep, OTP, clocks; settings, test modes, calibrations, range correction; much that the firmware does not call |
| driver's tables | `dw1000/src/deca_params_init.c`, `deca_range_tables.c` | none | lookups by channel, PRF, rate, PAC, distance |
| SPI | `dw1000/src/deca_spi.c` | two buffers of 255 bytes | `writetospi`, `readfromspi` |
| port | `dw1000/src/port.c`, `deca_mutex.c`, `deca_sleep.c` | the GPIO callback | rising-edge interrupt, sleeps; the mutex does nothing |
| configuration store | `src/config.c` | `_buffer`, `tlv.data`, one NVS item | `config_init`, `config_erase`, `config_refresh`, typed reads and writes |
| shell | `src/cli.c` | none | the `config ...` commands, in the shell thread |
| boot | `src/main.c` | none | `config_init`, `uwb_init`, `uwb_start` |
| frames | `include/mac.h`, `src/uwb_utils.c` | none | packet layout, 40-bit timestamps |

### How they interact

```
 user ── shell thread ── cli.c ──┐
                                 ├── config.c ── NVS item (flash)
 power-up ── main thread ────────┘
                 │ uwb_init, uwb_start
                 ▼
            uwb thread ── uwb_loop ── dwt_isr ── callbacks ─┐
                 ▲            └── timeout ──────────────────┤
            uwb_irq_sem                                     ▼
                 │                             algorithm->on_event
            uwb_isr (interrupt)                (tag, anchor, dummy)
                 ▲ rising edge                              │ driver calls
            DW1000 ◄───────────── SPI ──────────────────────┘
```

- **Shared state without a lock.** `main` and the shell thread share `_buffer`
  and the NVS item. Both sleep inside `config.c` (`k_msleep`), and `main` has the
  higher priority, so it wakes up between any two instructions of the shell's
  `write_value`, and its `read_buffer` overwrites what is there.
- **Callbacks.** The chip's events reach the algorithm by a chain: pin, GPIO
  interrupt, semaphore with a limit of one, `uwb_loop`, `dwt_isr`, callback,
  `on_event`. `on_event` calls the driver again from inside `dwt_isr`.
- **Time.** `uwb_loop` waits at most for the timeout that `on_event` returned. The
  callbacks throw their timeouts away. The anchor compares a 32-bit tick count
  with a 64-bit clock.
- **Flash and restarts.** What survives a restart is the NVS item only. It is
  guarded by a magic and a CRC.
- **The chip has a memory of its own.** The driver keeps copies of registers that
  the chip loses in a reset and restores, or not, when it wakes up. Of other
  registers there is no copy, and several calls write different bits of one.
- **The chip has a clock of its own.** 40 bits, 17 s to its wrap; start times are
  given in its high 32 bits and can be missed while the driver talks to the chip.
- **Two sides of a buffer.** With double buffering the chip fills one receive buffer
  while the host reads the other, each with a pointer of its own.

### What is hard, and what must hold

| Part | Hard behaviour | What makes it correct |
|---|---|---|
| interrupt path | edge-triggered pin against a driver that polls a level; saturated and stale semaphore counts; the chip acts between any two SPI transactions; one copy of `SYS_STATUS` tested in four branches | no event is lost, the mask comes back, a tag is never deaf, no one reads a buffer the receiver may overwrite |
| anchor's schedule | stale timeouts, cancelled frames, missed start times, wrap-around | frames keep their distance, none is overdue for long, an armed frame is sent |
| configuration store | shifting fields in place, a CRC computed apart from the change, refused writes, restarts | the chain of fields stays a chain, what is stored is what was written, damage is noticed |
| boot and shell | two threads on one buffer, commands too early or in a sleep | a confirmed value is stored and used |
| frames | length masks, a receive packet that is reused, SPI buffers smaller than frames | what is logged comes from the frame it is logged with; no transfer leaves its buffer |
| delayed start | truncations, wrap, a time missed between two transactions | what is returned is true; what is armed starts when asked |
| reception | two buffers, acknowledgements the chip sends alone, a stale copy of the status, wait-for-response that stays latched, sleep between clearing and reading | every frame is read once, in order; nobody waits for a callback that cannot come |
| settings and calibration | one register, several owners; save, change and restore; lookups and searches at their boundaries | a setting stays until it is changed; a search finds the best, a correction is monotonous |
| driver's calls | sequences of calls, sleeps and restarts nobody tested | copies match the chip, clocks are put back, sleep costs nothing |

The hazards, each at its line, are listed in `PROJECT.json`.

## 2. Plan

Done, in this order:

1. `UwbThread`: the interrupt path, the most important behaviour of the firmware,
   and `EventLoop`, the abstract loop that it implements (and `UwbThreadProofs`).
2. `AnchorTimer`: the schedule that `UwbThread` leaves to a choice (and
   `AnchorTimerProofs`).
3. `ConfigMap`, the abstract store, and `ConfigStore`, which implements it (and
   `ConfigStoreProofs`).
4. `Node`: `main` and the shell thread on one buffer (and `NodeProofs`).
5. `Frames`: bytes from the anchor's packet to the tag's.
6. `Dw1000Driver`: the calls an application may make (and `Dw1000DriverProofs`).
7. `DelayedTrx`: the start times that `UwbThread` leaves to a choice (and
   `DelayedTrxProofs`).
8. `Spi` under `Frames`, and the anchor's receive path (and `FramesProofs`).
9. `Receiver`: reception with the features the firmware leaves off (and
   `ReceiverProofs`).
10. `ChipSettings` over `Clocks`, `Tuning`, `Calibration` and `RangeBias`: the
    settings that share registers, and what the driver calculates (proofs in
    `Dw1000DriverProofs`, which extends both).

Left, in this order:

1. The OTP memory's contents: the retries of `dwt_otpwriteandverify`, the polling
   of `_dwt_otpprogword32`, the margin registers.
2. The failure paths of `uwb_init`.

## 3. Modules and code

Paths here are those from the root of the repository (`src/uwb.c`,
`dw1000/src/deca_device.c`); the modules and `PROJECT.json` put the `src/` in front
that the repository is checked out in.

### UwbThread and EventLoop

One step is one SPI transaction, one kernel call or one decision, so that the
chip (`ReceiverStops`, `TransmitterStarts`, `TransmitterStops`) and the
interrupt (`UwbIsr`) act between any two of the thread's.

| Model | Code |
|---|---|
| `radio`, `sysStatus`, `sysMask` | the transceiver, `SYS_STATUS`, `SYS_MASK` |
| `irqEdge` | a rising edge that the GPIO interrupt has yet to serve |
| `sem`, `timeout_ms`, `algorithm` | `uwb_irq_sem`, `timeout_ms`, `algorithm` of `uwb.c` |
| `status`, `mask`, `caller` | locals of `dwt_isr` and `dwt_forcetrxoff`, the return address |
| `AlgorithmInit`, `CreateThread` | `uwb_start` |
| `SemTake`, `SemTimeout`, `CheckIrq` | `uwb_loop` |
| `IsrReadStatus` ... `IsrRxError` | `dwt_isr`, one step per register access |
| `OffMask`, `OffTrx`, `OffClear`, `OffRestore` | `dwt_forcetrxoff` |
| `TagRestart`, `AnchorRestart`, `RxEnable`, `NotDue`, `StartTx`, `TxInTime`, `TxLate`, `DummyOnEvent` | `on_event`, `dwt_rxenable`, `dwt_starttx` |
| `Return` | who stores the timeout: `uwb_loop`, but not a callback |

`SetChip` is the interrupt line: an edge is what raises `irqEdge`, a level that
stays high does not. The status bits are grouped as the code groups them. An LDE
error may come with a good frame and is not in the interrupt mask, as in the code.

`EventLoop` is what is left of all this for an algorithm: what ends a reception or
a transmission has *happened* until `on_event` is called for it; one event at a
time is in hand; and only with an event in hand is the radio turned on or off, or
something that has happened forgotten (by the `dwt_forcetrxoff` with which an
algorithm starts anew). The refinement mapping reads this off `UwbThread`:

- `radio`: `RadioOf`, in which a start that is armed is a transmission;
- `handling`: `Handling`, by the point in the thread; an event is in hand from the
  write to `SYS_STATUS` that clears its bit;
- `happened`: the kinds of the bits in `SYS_STATUS` and of those in `dwt_isr`'s copy
  of it whose branch is still ahead (`Ahead`), without the timeout bits that the
  timeout's own `dwt_forcetrxoff` is about to clear (`InForceTrxOff`).

The refinement is one of safety. An LDE error that comes alone raises no interrupt
and may wait for ever, so `EventLoop` does not promise that every event is handled;
`EventServed` says which are.

### AnchorTimer

`start_next_event` of the anchor against the clock; a handler is one step. Times
are kernel ticks; `MsToTicks`, `MsToTicksCeil` and `TicksToMs` are the kernel's
conversions with their roundings, at a ratio of 3/2 instead of 32.768, so that
each rounding occurs. `NextTxTick` and `DelayToNext` are cut to `Wrap`
values, as `uint32_t` cuts them. The anchor's timeout error, reception error and
reception all lead to the same handler and share one event. The dropped timeouts
of the callbacks (`Wait`) and the ignored result of `send_tx_packet`
(`SendTxPacket`'s second disjunct) are as in the code. `quiet`, `lastStart` and
`startedBy` are history variables.

### ConfigMap and ConfigStore

`ConfigStore` has `_buffer` with its TLV area byte by byte, `tlv.data`'s being
set, the NVS item, and one step for each point at which a restart or a failing
flash makes a difference: `FlashInit`, `BootRead`, `BootCheck`, `WriteDefaults`,
`BootReread` are `config_init`; `CallWrite` or `CallRead`, the loop of
`find_field`, `InsertValue` or `AppendValue`, `NvsWrite`, `Reread` are
`write_value` and `read_value`. `Restart` is always possible.

`ConfigMap` says what a caller relies on: a working copy of a map, a stored
copy, puts that are followed by a store, which may fail. The refinement mapping
(`Map` in `ConfigStore`) reads the maps off the TLV areas (`FieldMap`); a change
is pending between the buffer and `nvs_write`. Every step of the TLV code is a
step of the map or a stutter. This is for one caller at a time. Two callers that
overwrite each other's work are `Node`'s subject, which uses the map where it may
and says where it may not.

The CRC is the sequence it was computed from: collisions are left out.

### Node

`main` and the shell thread from power-up. `config_init` is `FlashInit`,
`ReadConfig`, `RereadConfig`, cut where it sleeps. `write_value` is cut wherever
`main`'s `read_buffer` makes a difference when it comes there:

| Steps | Code |
|---|---|
| `FindField` | the capacity test and `find_field` |
| `InsertValue`, `CopyValue` | `insert_value` before and after its `memcpy` |
| `AppendField`, `AppendSizeAndValue` | `append_value`: line 430, lines 431 and 432 |
| `StoreLength` | the store of `tlv_length`, lines 414 and 433 |
| `ComputeCrc`, `StoreCrc` | `write_crc`: line 272, line 273 |
| `WriteItem`, `StoreValue` | `nvs_write`, which copies `_buffer` and then makes the copy the item |
| `RereadValue` | the sleep's end and `read_buffer` |

`ReadConfig` and `RereadConfig` may come between any two of them.

`_buffer` (`ram`), the item (`nvs`) and `nvs_write`'s copy (`page`) hold *contents*: the
map of the four fields and, since the chain may now be anything,

- `chain`: `"whole"` when `find_field` sees every entry; `"buried"` when the chain
  begins with the bytes of the default item's CRC (228, 217, 155, 65), the second of
  which, as a size, takes `find_field` past the area; `"spoilt"` when there is no
  telling what it sees (`Spoilt` forgets the rest);
- `extra`: the entries that `find_field` passes by, of no field or a field's second;
- `crc`: whether the CRC is the one of what is before it.

`mine` is what the shell thread has stored, loaded or computed last and still
relies on: a field's bytes, an entry behind the chain, the length, the CRC. `main`'s
read turns it into `"overtaken"` (`RereadConfig`), or `"stale"` (`ReadConfig`, before
which `tlv.data` was not set); what remains of it is `Left`, which keeps the cases in
which `read_buffer` brings the same bytes. Each step of `write_value` says what it does
with what it then finds: `StoreLength` takes into the chain the entry that was
written, or one whose size is a CRC byte (`Numbered`), or the CRC itself (`Buried`);
`InsertValue` for a field that is no longer there moves a number of bytes that comes
from whatever is there, perhaps a negative one, and then faults; `Misled` lists when
`find_field`, cut in its loop, may return something wrong. `RereadValue` waits until
`main`'s sleep is over, since it is as long and began before.

`UwbInit` reads the configuration as `uwb_init` does, mode first and the position
in anchor mode only; `uwb` and `cmd` are `uwb_config` and the command's progress.
`told` is what the user was last told was set by commands given after `config_init`.

Composed with the rest: `ConfigStore` implements the map for each caller alone, and
`Node` ends where `UwbThread` begins (`UwbStart`).

### Frames and Spi

The anchor's packet, the chip's buffers and the receivers' `rx_packet`, with the
real sizes. A byte is abstracted to the node it came from, because the properties
only ask whose byte is read. Frames may be lost; strangers send frames of any
length of the list. `TagReceives` is `tag_on_event`, whose packet is static,
`AnchorReceives` is `handle_rx_packet`, whose packet is on the stack:
`prev_sys_time` can take bytes no frame has brought (`"none"`), which the anchor
only logs.

`Spi` has the driver's register accessors as transactions, a header of one to
three bytes and a body, both of which go through `tx_buf` and `rx_buf`.
`transactions` holds those of the last step.

### DelayedTrx

The counter of the chip and one caller. A step is one SPI transaction, and `Tick`
lets any time up to `MaxLag` pass between two. `ReadSysTime` and
`SetDelayedTrxTime` are the anchor's `send_tx_packet`; `StartTx` and `CheckTx`
are `dwt_starttx`, `RxEnable` and `CheckRx` a delayed `dwt_rxenable`, which the
firmware does not use. `ReadTimestamp`, `ToU64`, `StartHi32`, `DxTime` and `StartsAt`
are the conversions, each with the bits that it loses. `Late` and `TooCloseToSend`
are the chip's half-period and power-up warnings. A receiver that is told to go
on at the very moment goes on; the transmitter needs `PowerUp` before.

### Receiver

`dwt_isr` and `dwt_lowpowerlistenisr` from the chip's receive buffers to the
callbacks, with what `UwbThread` has no need for: `icrbp` and `hsrbp`, the buffers
and their `RXFCG`, `AAT` with the acknowledgement it announces or, after a frame
not received properly, does not, `WAIT4RESP`, and a chip that falls asleep when
its status is cleared. `status` is the local of `dwt_isr`, `cbStatus` is
`cbData.status`. `asked` is what the application has asked for and not been told
the end of. The application is one that keeps to the API's documentation: it
turns the receiver on in `cbRxOk` unless `cbStatus` shows `AAT`, with
`DWT_NO_SYNC_PTRS` and before it reads the frame when there are two buffers.
`dwt_forcetrxoff` is one step, since `UwbThread` takes it apart. Two things are
assumed of the time on the air, and stated at `GoodFrame`: a frame that asks for
an acknowledgement comes after the transmission before it has been handled, which
a comment of `dwt_isr` assumes as well, and a frame does not end before the one in
its buffer has been read.

### ChipSettings, Clocks, Tuning, Calibration, RangeBias

`ChipSettings` has the registers that several calls write: `PMSC_CTRL0` and
`PMSC_CTRL1` as the sets of their bits, `GPIO_MODE` as a function of the pins, what
`RF_CONF` powers, and `tuning`. A call is one action; the two calibrations are
two, because what they save and restore is the point (`BeginMeasuring`,
`EndMeasuring`). `asked` records what the application has last asked for.
`SoftReset` is the reset; the test modes end with it. No definition has a name of
`Dw1000Driver`'s, so that `Dw1000DriverProofs` can extend both modules.

`Clocks` is `_dwt_enableclocks`, shared with `Dw1000Driver`. `Tuning` says which
table entry or which fields `dwt_configure` leaves in each register; entries are
named, not encoded. `Calibration` has the binary search for `PG_DELAY`, one
`SearchTurn` for each of the loop's seven turns, the distribution of a power
adjustment between attenuator and mixer, and the temperature conversions, with C's
divisions. `RangeBias` has the four tables of
`deca_range_tables.c` with all their values, and the search in them.

### Dw1000Driver

`deca_device.c` as an API: any order of the documented calls, with one call as
one step. State that the calls share: the driver's copies (`drv`), `SYS_CFG`,
the clock bits of `PMSC_CTRL0`, what AON loads on wake-up, whether microcode and
LDO tuning are in place. `Initialise` covers the reset, the OTP values, the
microcode and the wake-up path; a wake-up loses what `AON_WCFG` does not load.
`ready` is what the application may count on: it is lost with a chip that does
not answer, that wakes up without its configuration, or that a calibration has
sent to sleep. The documented order is in the guards: initialise first; after a
wake-up, pass `DWT_DW_WUP_NO_UCODE` exactly if the microcode was not loaded.

Two liberties of the hardware's description are fixed the way the driver relies
on them: the registers are saved when AON is uploaded, and a wake-up with
`DWT_CONFIG` brings all of `SYS_CFG` back.

## 4. Runs

| Run | Module, configuration | States | What it shows |
|---|---|---|---|
| `uwb_thread` | `MCUwbThread` | 37,789 | the interrupt path is correct in every interleaving, and live |
| `anchor_timer` | `MCAnchorTimer` | 971,574 | the schedule holds until `next_tx_tick` wraps |
| `config_store` | `MCConfigStore` | 94,485 | chain, CRC and item stay consistent; the store implements the map |
| `node` | `MCNode` | 1,004,882 | values confirmed after `config_init` are stored and used, as long as the chain is whole, wherever `main` cuts the shell thread; `main` ends |
| `frames` | `MCFrames` | 63,218 | no read outside packet, frame or SPI buffers; the address is the sender's |
| `driver` | `MCDw1000Driver` | 697,924 | copies, clocks, microcode through any sequence of calls |
| `delayed_trx` | `MCDelayedTrx` | 409,120 | start times hold wherever the counter wraps and however slow the caller is |
| `receiver` | `MCReceiver` | 88,085 | frames are read once and in order, the radio does what is asked |
| `settings` | `MCChipSettings` | 691,488 | settings stay, calibrations leave no trace, calculations hold |
| `node_set` | `MCNode`, `MCNodeSetMeansStored.cfg` | | violated, see section 7 |
| `frames_payload` | `MCFrames`, `MCFramesPayloadArrives.cfg` | | violated, see section 7 |
| `tx_power` | `MCChipSettings`, `MCTxPowerDaStopsAtMax.cfg` | | violated, see section 7 |

**Properties of the passing runs.**

- `uwb_thread`: `NoLostInterrupt` (while the pin is high somebody is going to
  look at it), `TagNeverDeaf`, `AnchorReadsSettledFrame`;
  `IsrKeepsTransmission` (a later branch of `dwt_isr` does not abort what an
  earlier one started, unless an LDE error was read along with it); the refinement
  `ImplementsEventLoop`; the liveness properties `EventServed`, `TagListensAgain`, `AnchorKeepsScheduling`.
- `anchor_timer`: `MinimumSpacing`, `OverdueBounded`, and `ArmedFrameIsSent`: a
  frame that a timeout has armed is sent, and in a quiet channel any frame.
- `config_store`: `ChainWellFormed`; `FlashConsistent` (the stored item passes
  its CRC wherever a restart falls, and is the buffer's unless a write has
  failed); `ReadReturnsField`; the refinement `ImplementsMap`.
- `node`: `ConfirmedIsStored` (what a command given after `config_init` has confirmed
  stays in the item) and `StartsWithConfirmed` (and is what `uwb` starts with). Both
  hold where the chain of the item, or of `_buffer`, is whole. Without the condition
  they are false, by one early command that `main` cuts: that is `node_set`. And
  `BootEnds` (liveness).
- `frames`: `ReadsWithinFrame`, `ReportsSender`, `SpiWithinBuffers`.
- `driver`: `CopyMatchesChip`, `ClocksPutBack`, `MicrocodeSurvives`.
- `delayed_trx`: `StartsWhenAsked` (on the air `Delay` after the clock was read,
  less the bits the chip ignores, never a period later) and `ResultIsTrue`
  (success and error of `dwt_starttx` and `dwt_rxenable` mean what they say, and
  an error leaves nothing armed).
- `receiver`: `FrameReported` (the frame read is the frame reported and the
  oldest unread one; a frame is dropped in one case only, see section 7),
  `NothingForgotten` (no frame is left behind the pointers), `RadioAsAsked`
  (nobody waits for a callback that cannot come, and no receiver is on unasked).
- `settings`: `SettingsStay`, a conjunction by register, which also states the
  two exceptions of section 7; `CalculationsHold`: the bandwidth found is the
  closest there is, the power changes by exactly the adjustment where the
  attenuator has the room, the range correction follows its table and keeps
  distances in order, a temperature survives the conversion to degrees and back to
  three units, wherever `dwt_convertdegtemptoraw`'s assertion lets it through.

Every module with a state has one type invariant, `TypeOK` (`SettingsTyped` in
`ChipSettings`), which its passing run checks; `ConfigMap` and `EventLoop` are
checked as refinements only.

**Bounds, and why they are enough.**

- `UwbThread` has no bound: all its variables are finite and the run covers all
  three algorithms and all receiver events.
- `AnchorTimer`: a `next_tx_tick` of 64 values wraps and the clock goes to 90, so
  the run reaches several transmissions before the wrap and several after it;
  delays of 7 and 8 ms are 10 and 12 ticks, of which both conversions lose
  something. `Latency` is one tick. The numbers are scaled, the order relations
  between them (frame shorter than delay, delay shorter than wrap) are the
  code's.
- `ConfigStore`: 9 bytes of TLV area instead of 118, three fields, values of one
  and of two bytes: three small fields fill the area to the last byte, a
  replacement grows and shrinks in front, middle and end, and the values' bytes
  are also field numbers and sizes, so a chain that is off by one is noticed.
- `Node`: one restart suffices to see what survives; two modes, since a field
  must be able to change; all commands, all failures. `MaxExtra` is one entry, and a
  second spoils the chain, which is the worst that can be said of it; the proofs have
  any number. With 118 bytes of TLV area eight entries of ten bytes at most leave
  room for all four fields. `node_set` needs no more than its counterexample: the
  mode alone, no restart, a flash that does not fail.
- `Frames`: the lengths at which a read changes; two anchors and a stranger are
  what a mixed report needs.
- `Dw1000Driver`: every setter; two PHY modes that change different bits.
- `DelayedTrx`: three bytes of four values instead of five of 256, so the counter
  has 64 values and starts at each of them; a delay of 21 is not a multiple of the
  8 that the chip ignores nor of a byte, and a lag of up to 31 goes past the start
  and half a period ahead, as far as the chip's warning can tell.
- `Receiver`: four frames fill both buffers twice; three transmissions leave a
  `wait4resp` behind and meet it again.
- `ChipSettings`: four configurations that differ in every table's index; a
  temperature at which the reference count is reached, one at which it is missed by
  less than `MaxDelta`, and one at which no setting comes near it; bytes of
  `TX_POWER` at both ends of attenuator and mixer; distances around the tables'
  first and last entries. The search is checked for its promise in full: `IsClosest`
  compares all 127 settings.

Deadlock is not checked in `anchor_timer`, whose clock stops at `MaxTime`, and in
the two runs of `Node`, where a fault after the last allowed restart is the end.

## 5. Fairness

- `UwbThread`: weak fairness of the thread's steps, of the interrupt, of the
  timeout unless it is `UWB_TIMEOUT_MAXIMUM`, and of the transmitter's start and
  end. The kernel runs a ready thread (nothing of a higher priority runs for ever
  here), a pending interrupt is taken, a finite `k_sem_take` expires, and a frame
  that was armed is sent by the hardware. Nothing is assumed of the receiver: a
  frame need never come.
- `Node`: weak fairness of `main`'s steps: nothing of a higher priority runs yet, and
  a sleep ends. Nothing is assumed of the shell thread and of the user.
- The other modules state no liveness.

## 6. Proofs

Thirty-seven theorems in eight modules, each for every value of the constants that
the named assumptions allow. TLC checked each inductive invariant before it was
proved, and evaluates the assumptions in every run.

| Theorem | Statement | Argument |
|---|---|---|
| `UwbThreadProofs!TypeCorrect` | `Spec => []TypeOK` | one step per action |
| `InterruptNeverLost` | `[]NoLostInterrupt` | inductive with `TypeOK` and `MaskInv`: the pin rises only with an edge, and the thread goes back to waiting only through `CheckIrq`, which saw it low |
| `MaskAlwaysRestored` | `[]MaskRestored` | `MaskInv`: while the mask is off, `dwt_forcetrxoff` holds the value it will restore. No run lists it: a mask that is lost shows in `EventServed` |
| `TagIsNeverDeaf` | `[]TagNeverDeaf` | `TagInv`: a tag whose receiver is off is on its way to `dwt_rxenable` or has an event set that raises the interrupt; with `NoLostInterrupt` such an event reaches the thread |
| `AnchorReadsSafely` | `[]AnchorReadsSettledFrame` | `AnchorInv`: the anchor turns its radio on only after `dwt_forcetrxoff` has cleared every event, so an event that is set, or that `dwt_isr` has read, means that the radio is off |
| `IsrSparesTransmission` | `IsrKeepsTransmission` | `StopInv`: as long as `dwt_isr` has still to handle a timeout or an error that it has read, no callback before it has turned the anchor's radio on again; `TransmitInv`: nobody but the anchor transmits |
| `ThreadImplementsEventLoop` | `Spec => ImplementsEventLoop` | each step is one of `EventLoop` or a stutter, below |
| `AnchorTimerProofs!TypeCorrect` | `Spec => []TypeOK` | the sums and remainders of a handler stay in range |
| `NeverOverdue` | `[]OverdueBounded` | `ScheduleInv`, below |
| `StartsAreSpaced` | `MinimumSpacing` | `ScheduleInv`: before the wrap `next_tx_tick` is the last start plus one of the delays, and a start comes after it |
| `ArmedFramesAreSent` | `ArmedFrameIsSent` | `ArmedInv`: the frame that a timeout has armed ends before the wait in progress does, and in a quiet channel the stored timeout would outlast the next frame as well |
| `ConfigStoreProofs!TypeCorrect` | `Spec => []TypeOK` | needs all of `Inv`, below: only in a chain of whole fields does `find_field` stay within the area |
| `ChainsStayWellFormed` | `[]ChainWellFormed` | `SoundInv` |
| `FlashStaysConsistent` | `[]FlashConsistent` | `StoredInv`: the item is the buffer, unless a change is still to be stored or could not be, and has the CRC of its own fields |
| `ReadsReturnTheField` | `ReadReturnsField` | `SearchInv`: `find_field` is at the start of a field, and no field before it is the one it looks for |
| `StoreImplementsMap` | `Spec => ImplementsMap` | each step is one of `ConfigMap` or a stutter; a splice changes `FieldMap` at one field |
| `NodeProofs!TypeCorrect` | `Spec => []TypeOK` | with `CommandInv`, below: the field being written is one of those still to be written |
| `ConfirmedStaysStored` | `[]ConfirmedIsStored` | `NodeInv`, below; says nothing of an item whose chain is not whole |
| `UwbStartsWithConfirmed` | `StartsWithConfirmed` | `NodeInv`: at `uwb_init` the copy in RAM, if its chain is whole, holds what was confirmed after `config_init` |
| `FramesProofs!TypeCorrect` | `Spec => []TypeOK` | conjunct of `FInv` |
| `ReadsStayInFrame` | `[]ReadsWithinFrame` | `FInv`: what is read is the length modulo 128, no more than the frame has brought |
| `TagReportsSender` | `[]ReportsSender` | `ReadInv`: the front of `rx_packet` is the last frame's, as far as it was read, and an anchor's frame is read past its address |
| `SpiStaysInBuffers` | `[]SpiWithinBuffers` | `TransactionsInv`: header and body of every transaction fit |
| `Dw1000DriverProofs!TypeCorrect` | `Spec => []TypeOK` | one step per action |
| `CopyAlwaysMatches` | `[]CopyMatchesChip` | `CopyInv`: the copy matches whenever the driver is ready, also while the chip sleeps, because what AON holds is what was saved |
| `SleepKeepsMicrocode` | `MicrocodeSurvives` | `LoadsInv`: what the driver and `AON_WCFG` are to load is what the chip has |
| `ClocksArePutBack` | `ClocksPutBack` | `ClocksInv`: only the bits 0, 1, 5 and 9 are ever left set between two calls, and 9 always, so `ENABLE_ALL_SEQ`, which clears the low byte and bit 8 only, restores the reset value |
| `SettingsTypeCorrect` | `SettingsSpec => []SettingsTyped` | one step per action; that a result fits its C type comes from the lemmas on the calculations |
| `SettingsAreKept` | `[]SettingsStay` | `SettingsInv`, below |
| `CalculationsAreRight` | `[]CalculationsHold` | a lemma for each calculation, below |
| `DelayedTrxProofs!TypeCorrect` | `Spec => []TypeOK` | five bytes put together by `uwb_utils_timestamp_to_u64` are the timestamp they came from (`ReadBack`), and a cut and shifted start fits `DX_TIME` |
| `StartsOnTime` | `StartsWhenAsked` | `DInv`, below |
| `ResultsAreTrue` | `ResultIsTrue` | `ArmedInv` and `WarnedInv` of `DInv`: a command without a warning has its start before it, one with a warning has not, or too near |
| `ReceiverProofs!TypeCorrect` | `Spec => []TypeOK` | one step per action |
| `NoneForgotten` | `[]NothingForgotten` | `BufferInv`, below: a frame in the other buffer needs one here that is not done with |
| `RadioKeepsToTheRequest` | `[]RadioAsAsked` | `RadioInv`: what the radio, the two buffers and the status may be for each thing the application has asked for |
| `ReadsTheReportedFrame` | `FrameReported` | `BufferInv` and `DueInv` for the read; `StopInv` for the drop: an abort still to come finds the radio off and no frame pending, unless the same status has `TXFRS` and `AAT` |

But for some of the type invariants none of these is inductive as it stands. The
strengthenings that say most about the code:

- **`UwbThread`.** For the refinement `Points` tabulates what is in hand and what is
  ahead at each point of the thread. A branch of `dwt_isr` then begins an event or,
  if its bit was not read, stutters (`IsrIsLoop`); `dwt_forcetrxoff` aborts and
  forgets (`ForceTrxOffIsLoop`), and forgets with the radio off (`OffInv`); a
  reception or a transmission ends (`ChipIsLoop`). `AnchorInv` and `TransmitInv`
  say that only the anchor transmits, and only with its radio off.
- **`Node`.** `ConfirmedIsStored` needs to know who may still overwrite the item.
  `CommandInv`: a command in progress which sets something while `config_init` runs
  counts as early, only such a command is ever cut by `main`, and its fields are not
  among the confirmed ones. `TlvInv`: `tlv.data` is set once `main` is past its first
  read. `KeptInv`: whatever may yet become the item (the item, `_buffer` once it is
  loaded, `nvs_write`'s copy) holds the confirmed fields, if its chain is whole.
  `WrittenInv`: what a command has written so far, unless it is early, is where it
  goes next, at each step of `write_value`. The steps before `nvs_write` never make a
  whole chain of one that was not, and change one field of a whole one
  (`WriteTouches`).
- **`AnchorTimer`.** `ScheduleInv`: `next_tx_tick` is where the last start put it,
  no timeout in force is longer than the longest delay, and the wait in progress
  ends within one such timeout after `next_tx_tick`. Under it lie the kernel's
  conversions, both roundings of which keep the order (`Conversions`,
  `RoundTrip`), and the 32-bit difference, in which the wrap does not show while the
  times are less than a wrap apart (`WrappedDifference`).
- **`ConfigStore`.** A chain is well formed when the positions that follow from its
  sizes end exactly with it; `StartsOfChain` and `ChainOfStarts` turn that into a
  set of field starts and back, `SplicedChain` says what a replacement or an
  insertion makes of them: the fields before it stay, those behind it move, and all
  keep their values. With `SoundInv` for both areas, a step of `find_field` is a
  step to the next start (`SearchInv`).
- **`ChipSettings`.** `SettingsStay` says nothing while a calibration runs.
  `SettingsInv` does: what no calibration touches is as asked then, too
  (`UntouchedAsAsked`), and what one takes away is, as asked for, in what it has
  saved (`SavedAsAsked`). Outside calibrations and test modes `AsAsked` goes through
  each call, by one lemma for each register that the call leaves alone.
- **The calculations.** Before a turn of the search that tries a bit of weight w
  all settings but those of an open interval of width 2w are decided, and the best
  of the decided ones is known (`SearchInv`, here with the width as a parameter). A
  turn halves the interval: since the counts fall, the half that is given up is
  farther from the target than the setting tried (`TurnHalves`). The tables of the
  range correction are `Orderly`, entry by entry: none falls, each ends with 255, no
  value below that comes four times. From that follow, for any distance, where the
  loop stops (`FirstNotExceeded`) and how far it gets for one unit more
  (`PassedByOneUnit`). The temperature loses three units at most to two
  truncating divisions and to the factor 22, itself truncated from 22.46
  (`TemperatureThereAndBack`), the power is a matter of where
  the two loops over `DaAttnChange` end (`TurnsReach`).
- **`DelayedTrx`.** `Target`: cutting, rounding and shifting a start time lose what
  `Lead` says, wherever in the period the clock was read. `DInv` adds how far the
  clock has come since (`ClockInv`), so that the chip's comparison modulo half a
  period is one of the two times themselves (`Warnings`).
- **`Receiver`.** `BufferInv` describes the buffers from the host's side: the
  pointers have parted exactly if the frame here is not done with and none is in the
  other buffer, or the reverse; `DueInv` lists the frames due from them. `RadioInv`
  has one part for each thing the application may have asked for, and one for the
  time between the end of a transmission or a reception and the callback that
  reports it. `StatusInv` says which bits of the status read at the beginning of
  `dwt_isr` still mean something at each later point of it, `StopInv` when a stale
  timeout or error may still lead to an abort. Low-power listening has a part of its
  own (`LowPowerInv`).

What each proof rests on: the modules' named assumptions and the library's facts.
The assumptions that say more than which set a constant is from are

- `Node`: `Unset` is not a value;
- `AnchorTimer`, `SpacingAssumption`: a transmission (31 ms) is shorter than the
  shortest delay between two (194 ms after its roundings), and the longest delay is
  no wrap of 36 hours;
- `ConfigStore`, `DamageAssumption`: an item that fails its CRC is still a chain of
  fields. Other content of the item is not modelled; the code does not check it
  either (`src/config.c:272`);
- `DelayedTrx`, `DeviceTimeAssumption` and `DelayAssumption`: what the chip ignores
  of a start time (2^9) is a multiple of a byte (2^8) and divides the period (2^40);
  the delay (31 ms) is longer than that and `PowerUp` together, and delay and lag
  stay below half a period (8.6 s);
- `ChipSettings`: configurations have the channels that `dwt_configure` asserts and
  fields of their types (`ArgumentsTyped`); at each temperature a higher `PG_DELAY`
  counts less, which is what makes a binary search sensible at all (`CountsFall`);
  temperatures are within the assertion of `dwt_convertdegtemptoraw`
  (`TempsConvertible`);
- `Frames`: a frame has a length of 0 to 1023, which is what the length field holds.

There is no axiom and no induction scheme: the recursive functions behind `Power`
(the weights of the bytes), `ToU64` and the starts of a chain are shown to exist,
and reasoned about, by the least number for which something fails (`Least`); the
search's seven turns are one after the other.

Three things the proofs found in the models and TLC had not: `DelayedTrx` needs
`PowerUp > 0`, since a transmitter that takes no time at all would take a start of
this very unit for one a period ahead; two arms of a CASE in `Receiver`'s `Sent`
overlapped, where TLA+ leaves open which one counts (it is an IF now); and
`Truncated` of `Calibration`, which is to be a C division, rounded negative
quotients down, because `-n \div d` is `-(n \div d)`: with C's division a
temperature comes back up to three units off, not two.

**Only model-checked.** The four liveness properties (`EventServed`,
`TagListensAgain`, `AnchorKeepsScheduling`, `BootEnds`), which need fairness and
`ENABLED`. Every safety invariant and action property of the runs that pass is
proved.

## 7. Where the code and its texts disagree

The first three have a run that TLC ends with a counterexample.

1. `node_set` (`src/config.c:433`): on the first boot `main` writes the default item
   and, after a sleep, rereads it (`src/config.c:241`), wherever the shell thread is.
   A command given in that sleep may have its value overwritten in the middle of
   `write_value` and be confirmed all the same. If the reread falls between
   `append_value`'s stores and the store of `tlv_length`, that command stores an item
   whose chain begins with the default item's CRC, under a CRC that is valid.
   `find_field` jumps from there past the end of the area. A command given later, when
   `config_init` is long over, appends its field behind that and is confirmed; neither
   `uwb_init` nor a later `config` command finds it, and no restart mends it, since
   the CRC is right. Only `config erase` and a restart do.
2. `frames_payload` (`src/uwb_tag.c:69`): the length mask keeps seven of ten bits;
   151 becomes 23, and two of the payload's 128 bytes are read.
3. `tx_power` (`dw1000/src/deca_device.c:3765`): `da_attn_change` starts at 0 and
   is decremented before it is compared with 0, so "DA is at max allowed" is never
   noticed, and the three-bit attenuation wraps from 0 to 7: half a dB more
   becomes 15 dB less. The firmware does not adjust its power.

Met while modelling and kept in the models as the code has them, or left out
where said; none has a run of its own:

- `src/config.c:330`: `read_value` refuses, as exceeding the TLV area, a field that
  ends exactly with it; `write_value` accepts it (`ReadValue`). The firmware's four
  fields take 25 of 118 bytes and do not meet this.
- `src/config.c:225`: an item that fails its CRC check is "replaced by defaults" with
  its damaged fields and a new, valid CRC (`WriteDefaults`).
- `src/config.c:116`: a command that writes before `config_init` has set `tlv.data`,
  or after it has failed, goes through a null pointer (`Node`'s `fault`).
- `src/config.c:349`: the capacity test comes before the search, so in a full TLV
  area a field cannot be replaced by one of the same size (`WriteRefused`).
- `src/config.c:139`: `config_erase` deletes the item and leaves `_buffer`, so the
  next write stores the erased fields again (`ConfigErase`; `docs/cli.md:23`).
- `src/config.c:374`: a refused `nvs_write` leaves the new value in RAM, and the next
  successful write stores it (`NvsWriteFails`, `StoreValue`).
- `src/cli.c:124`: the loop over the address's tokens stops after eight whether or
  not the string does; a ninth byte is ignored (not modelled).
- `src/uwb.c:135`: the message names a default address of ones, the static
  configuration holds zeros (`UwbConfig`).
- `src/uwb_tag.c:48`: the tag takes the payload's first eight bytes for x and y,
  where the anchor puts a 64-bit time (`src/uwb_anchor.c:53`), and with the mask of
  line 69 does not even read six of them.
- `src/uwb_anchor.c:114`: `next_tx_tick` has 32 bits: after 36.4 hours every event is
  due, and the anchor never listens again until it is restarted (`Due`).
- `dw1000/src/deca_device.c:211`: with `DWT_DW_WAKE_UP` and `DWT_READ_OTP_*` the OTP
  memory is read without the crystal's clock being forced (`InitialiseWoken`).
- `dw1000/src/deca_device.c:315`: the comment on `DWT_DW_WUP_NO_UCODE` says the
  opposite of the test below it (`SleepModeWoken`).
- `dw1000/src/deca_device.c:901`: `TX_FCTRL` is written from a copy that
  `dwt_initialise` (line 333) may have filled with an old frame length, which is
  then ORed with the new one (not modelled).
- `dw1000/src/deca_device.c:330`: `dblbuffon` is cleared although the chip may still
  be in double-buffer mode after a wake-up (not modelled).
- `dw1000/src/deca_device.c:1958`: `dwt_calibratesleepcnt` uploads AON with
  `SLP_EN` as it is; after `dwt_configuresleep` that puts the chip to sleep
  (`CalibrateSleepCnt`).
- `dw1000/src/deca_device.c:743`: at 110 kbps `dwt_configure` leaves `DRX_TUNE4H` as
  the configuration before had it, and no configuration takes back the gear of
  `dwt_configurefor64plen` (`Tune4h`, `TuningAsAsked`).
- `dw1000/src/deca_device.c:3232`: `dwt_rxreset`, after each timeout or error of the
  receiver, overwrites the byte of `PMSC_CTRL0` in which `dwt_setsniffmode` has set
  `PLL2_SEQ_EN` (`RxReset`, `SniffAsAsked`).
- `dw1000/src/deca_device.c:2491`: the chip may turn its receiver on after the
  acknowledgement of a response, and that reception end in an error or a timeout.
  When `dwt_isr` sees both in one copy of the status, `cbTxDone` has started a new
  reception by the time the error's branch comes, which aborts it
  (`FrameReported` says that this is the only case).

## 8. What is not modelled

| Part | Why |
|---|---|
| `port.c`, `deca_mutex.c`, `deca_sleep.c` | pure I/O; that the interrupt is edge triggered and the mutex empty is in `UwbThread` |
| SPI clock rates, header bits | no state that a property is about |
| GPIO direction and value, antenna delays, addresses, XTAL trim, event counters, diagnostics | each is one access to a register of its own |
| `PG_DELAY` and `TX_POWER` | the caller writes what a calibration returns |
| OTP contents, margin registers, retries of programming | values of a memory outside the code; planned |
| the effect of sleep on the registers of `ChipSettings` | `Dw1000Driver` has the sleep, `ChipSettings` the registers; the chip's description does not say of each bit whether it is restored |
| a reply started in `cbRxOk` with a response expected, while the same status has `TXFRS` and an `AAT` without an acknowledgement | `dwt_isr` would take it for an acknowledgement and abort it; the application of `Receiver` starts nothing but the receiver in a callback |
| floating point: voltages, the centimetres and metres of a range correction | whole units only |
| the bytes of `read` and `dump` commands, wording of messages | no state |
| lengths from foreign flash content beyond the buffer (`src/config.c:272`) | the TLV area is a sequence, which has no memory behind it |
| how far `find_field` has come in its loop when `main` cuts it | one step, whose wrong results are `Misled`; what a spoilt chain holds is left open |
| a `read_buffer` of the shell thread cut by `uwb_init`'s reads | `RereadValue` is one step: `uwb_init` sees the old content or the new |
| bytes of `_buffer` that a fault or a runaway `memmove` leaves | a fault ends both threads, the chain is spoilt otherwise |
| the thread object on `uwb_start`'s stack (`src/uwb.c:160`) | reuse of memory is not modelled |

## 9. How to run it

```
tlc -workers 2 -config MCUwbThread.cfg MCUwbThread.tla
tlapm UwbThreadProofs.tla
```

and likewise for each run of section 4 and each `*Proofs` module.
