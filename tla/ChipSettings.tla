----------------------------- MODULE ChipSettings -----------------------------
(***************************************************************************)
(* Settings of the DW1000 that the driver keeps no copy of: LEDs, pins,    *)
(* SNIFF mode, automatic sleep, the tuning for a channel, and the          *)
(* calibrations that take the chip's clocks and sequencer away for a while.*)
(* Many of them share a register, so that a call about one of them can     *)
(* undo another.                                                           *)
(*                                                                         *)
(*   src/dw1000/src/deca_device.c                                          *)
(*                                                                         *)
(* PMSC_CTRL0 and PMSC_CTRL1 are the sets of their bits, GPIO_MODE a       *)
(* function of the pins.  A call is one step, a calibration two.           *)
(* PG_DELAY and TX_POWER, which callers program with what a calibration    *)
(* returns, are left out.  No name is one of Dw1000Driver's, so that one   *)
(* module can speak of both.                                               *)
(***************************************************************************)
EXTENDS Clocks, Calibration, RangeBias, Tuning

CONSTANTS
  LnaPaModes,  \* which of LNA and PA dwt_setlnapamode is asked for together
  Configs,     \* configurations that dwt_configure is called with
  PgCounts,    \* at each of some temperatures, what the chip counts at each PG_DELAY
  PgDelays,    \* reference settings of PG_DELAY
  PowerBytes,  \* reference bytes of TX_POWER
  DeltaTemps,  \* changes of the temperature, in raw units
  RoomTemps,   \* raw temperatures at 23 degrees, as the OTP memory has them
  Distances,   \* distances to correct, in units of 25 cm
  NumSamples   \* NUM_SAMPLES of dwt_calcpgcount: 10

Configurations ==
  [chan : {1, 2, 3, 4, 5, 7}, prf : {16, 64}, dataRate : {"110K", "850K", "6M8"}, plen : Nat,
   pac : Nat, nsSfd : BOOLEAN, txCode : Nat, rxCode : Nat, sfdTO : Nat]

\* The channels of dwt_configure's assertion, and what fits the parameters' C types.
ArgumentsTyped ==
  /\ LnaPaModes \subseteq SUBSET {"LNA", "PA"}
  /\ Configs \subseteq Configurations
  /\ PowerBytes \subseteq 0 .. 255 /\ RoomTemps \subseteq 0 .. 255 /\ Distances \subseteq Int

\* A higher PG_DELAY counts less.
CountsFall ==
  /\ PgDelays \subseteq 129 .. 255
  /\ \A t \in DOMAIN PgCounts :
       /\ \A d \in 128 .. 255 : PgCounts[t][d] \in Nat
       /\ \A d, e \in 128 .. 255 : d < e => PgCounts[t][d] > PgCounts[t][e]
  /\ NumSamples \in Nat \ {0}

\* dwt_convertdegtemptoraw's assertion: more than -80 and less than 150 degrees.
TempsConvertible == DeltaTemps \subseteq -90 .. 111

ASSUME ArgumentsAssumption == ArgumentsTyped
ASSUME CountsAssumption == CountsFall
ASSUME TempsAssumption == TempsConvertible

VARIABLES
  pmsc0,   \* PMSC_CTRL0
  pmsc1,   \* PMSC_CTRL1
  gpio,    \* GPIO_MODE: the mode of each pin
  ledc,    \* is the LED blink enabled in PMSC_LEDC?
  sniff,   \* are there on and off times in RX_SNIFF?
  rfConf,  \* what RF_CONF powers
  tuning,  \* the registers of Tuning
  saved,   \* old_pmsc_ctrl0, old_pmsc_ctrl1 and old_rf_conf_txpow_mask
  calc,    \* the calculation in progress or just returned
  asked    \* what the application has last asked for

registers == <<pmsc0, pmsc1, gpio, ledc, sniff, rfConf, tuning>>
settingVars == <<registers, saved, calc, asked>>

\* Bits of PMSC_CTRL0.
GPCE == 16
GPRN == 17
GPDCE == 18
KHZCLEN == 23
PLL2_SEQ_EN == 24
SoftResetBits == 28 .. 31

\* Bits of PMSC_CTRL1.
PktSeq == {3, 4, 5, 8, 9, 10}
ATXSLP == 11
ARXSLP == 12
SNOZE == 13
LDERUNE == 17

LedPins == {2, 3}
PaPins  == {4, 5}
LnaPins == {6}
Pins    == LedPins \cup PaPins \cup LnaPins
PinsOf(mode) == (IF "LNA" \in mode THEN LnaPins ELSE {}) \cup (IF "PA" \in mode THEN PaPins ELSE {})

NoConfig  == [chan |-> 0]
NoCalc    == [fn |-> "none"]
NoneSaved == [pmsc0 |-> {}, pmsc1 |-> {}, rfConf |-> "auto"]
NoTuning  == [tune4h |-> "PRE128PLUS", usrSfd |-> "none", gear |-> "DEF"]

Requests ==
  [leds : BOOLEAN, lnaPa : SUBSET {"LNA", "PA"}, gpioClocks : BOOLEAN,
   sniff : {"off", "on", "reset"}, sleepAfterTx : BOOLEAN, listening : BOOLEAN,
   lde : BOOLEAN, test : BOOLEAN, config : Configs \cup {NoConfig},
   pre64 : BOOLEAN, gear64 : BOOLEAN]

Calculations ==
  {NoCalc}
  \cup [fn : {"measuring"}, for : {"count"}, count : Nat]
  \cup [fn : {"measuring"}, for : {"bandwidth"}, temp : DOMAIN PgCounts, target : Nat]
  \cup [fn : {"count"}, count : Nat, result : Int]
  \cup [fn : {"bandwidth"}, temp : DOMAIN PgCounts, target : Nat, result : 0 .. 255]
  \cup [fn : {"power"}, byte : 0 .. 255, adj : Int, result : 0 .. 255]
  \cup [fn : {"bias"}, range : Int, result : Int]
  \cup [fn : {"temperature"}, raw : 0 .. 255, result : 0 .. 255]

SettingsTyped ==
  /\ pmsc0 \subseteq 0 .. 31 /\ pmsc1 \subseteq 0 .. 31
  /\ gpio \in [Pins -> 0 .. 1]
  /\ ledc \in BOOLEAN /\ sniff \in BOOLEAN
  /\ rfConf \in {"auto", "cal", "txall"}
  /\ asked \in Requests
  /\ tuning \in IF asked.config = NoConfig THEN {NoTuning} ELSE Tunings
  /\ saved \in [pmsc0 : SUBSET (0 .. 7), pmsc1 : SUBSET (0 .. 15), rfConf : {"auto", "cal", "txall"}]
  /\ calc \in Calculations

-----------------------------------------------------------------------------
(***************************************************************************)
(* Writes to a part of a register.                                         *)
(***************************************************************************)
Bits(reg, first, last) == {b \in reg : b \in first .. last}

\* The bits from first to last are overwritten.
Write(reg, first, last, bits) == {b \in reg : b \notin first .. last} \cup bits

SetModes(pins, mode) == [p \in Pins |-> IF p \in pins THEN mode ELSE gpio[p]]

\* Bits set or cleared in a register that was read and is written back.
Switched(reg, bits, enable) == IF enable THEN reg \cup bits ELSE reg \ bits

-----------------------------------------------------------------------------
(***************************************************************************)
(* Settings.                                                               *)
(***************************************************************************)
NothingAsked ==
  [leds |-> FALSE, lnaPa |-> {}, gpioClocks |-> FALSE, sniff |-> "off",
   sleepAfterTx |-> FALSE, listening |-> FALSE, lde |-> FALSE, test |-> FALSE,
   config |-> NoConfig, pre64 |-> FALSE, gear64 |-> FALSE]

CanSet == calc = NoCalc /\ ~asked.test

Ask(field, value) == asked' = [asked EXCEPT ![field] = value]

\* dwt_softreset, and LDERUNE as dwt_initialise leaves it: cleared unless the
\* microcode was loaded.
SoftReset ==
  \E ucode \in BOOLEAN :
    /\ calc = NoCalc
    /\ pmsc0' = Sequenced \cup SoftResetBits
    /\ pmsc1' = Switched(PktSeq, {LDERUNE}, ucode)
    /\ gpio' = [p \in Pins |-> 0]
    /\ ledc' = FALSE /\ sniff' = FALSE /\ rfConf' = "auto"
    /\ tuning' = NoTuning
    /\ asked' = [NothingAsked EXCEPT !.lde = ucode]
    /\ UNCHANGED <<saved, calc>>

\* dwt_setleds.  Turned off, the LEDs keep their clocks.
SetLeds ==
  \E enable \in BOOLEAN :
    /\ CanSet /\ Ask("leds", enable)
    /\ gpio' = SetModes(LedPins, IF enable THEN 1 ELSE 0)
    /\ pmsc0' = IF enable THEN pmsc0 \cup {GPDCE, KHZCLEN} ELSE pmsc0
    /\ ledc' = (ledc \/ enable)
    /\ UNCHANGED <<pmsc1, sniff, rfConf, tuning, saved, calc>>

SetLnaPaMode ==
  \E mode \in LnaPaModes :
    /\ CanSet /\ Ask("lnaPa", mode)
    /\ gpio' = [p \in Pins |-> IF p \in LedPins THEN gpio[p]
                              ELSE IF p \in PinsOf(mode) THEN 1 ELSE 0]
    /\ UNCHANGED <<pmsc0, pmsc1, ledc, sniff, rfConf, tuning, saved, calc>>

EnableGpioClocks ==
  /\ CanSet /\ Ask("gpioClocks", TRUE)
  /\ pmsc0' = pmsc0 \cup {GPCE, GPRN}
  /\ UNCHANGED <<pmsc1, gpio, ledc, sniff, rfConf, tuning, saved, calc>>

SetSniffMode ==
  \E enable \in BOOLEAN :
    /\ CanSet /\ Ask("sniff", IF enable THEN "on" ELSE "off")
    /\ sniff' = enable
    /\ pmsc0' = Switched(pmsc0, {PLL2_SEQ_EN}, enable)
    /\ UNCHANGED <<pmsc1, gpio, ledc, rfConf, tuning, saved, calc>>

EnterSleepAfterTx ==
  \E enable \in BOOLEAN :
    /\ CanSet /\ Ask("sleepAfterTx", enable)
    /\ pmsc1' = Switched(pmsc1, {ATXSLP}, enable)
    /\ UNCHANGED <<pmsc0, gpio, ledc, sniff, rfConf, tuning, saved, calc>>

SetLowPowerListening ==
  \E enable \in BOOLEAN :
    /\ CanSet /\ Ask("listening", enable)
    /\ pmsc1' = Switched(pmsc1, {ARXSLP, SNOZE}, enable)
    /\ UNCHANGED <<pmsc0, gpio, ledc, sniff, rfConf, tuning, saved, calc>>

\* dwt_rxreset, after each timeout or error of the receiver: 0xE0, then 0xF0 to the
\* highest byte of PMSC_CTRL0, where PLL2_SEQ_EN is.
RxReset ==
  /\ CanSet
  /\ Ask("sniff", IF asked.sniff = "on" THEN "reset" ELSE asked.sniff)
  /\ pmsc0' = Write(Write(pmsc0, 24, 31, {29, 30, 31}), 24, 31, SoftResetBits)
  /\ UNCHANGED <<pmsc1, gpio, ledc, sniff, rfConf, tuning, saved, calc>>

ConfigureChannel ==
  \E c \in Configs :
    /\ CanSet
    /\ asked' = [asked EXCEPT !.config = c,
                    !.pre64 = IF c.dataRate = "110K" THEN @ ELSE c.plen = 64]
    /\ tuning' = Configured(c, tuning)
    /\ UNCHANGED <<pmsc0, pmsc1, gpio, ledc, sniff, rfConf, saved, calc>>

\* dwt_configurefor64plen, for the PRF that is configured.
ConfigureFor64Plen ==
  /\ CanSet /\ asked.config # NoConfig /\ Ask("gear64", TRUE)
  /\ tuning' = For64Plen(asked.config.prf, tuning)
  /\ UNCHANGED <<pmsc0, pmsc1, gpio, ledc, sniff, rfConf, saved, calc>>

-----------------------------------------------------------------------------
(***************************************************************************)
(* Test modes and calibrations take the sequencer away.                    *)
(***************************************************************************)
\* Mutant: all 32 bits of PMSC_CTRL1 are cleared.
NoSequencingAtAll(reg) == {}

\* PMSC_CTRL1 without sequencing: 16 bits are cleared.
NoSequencing(reg) == Write(reg, 0, 15, {})

\* dwt_configcwmode and dwt_configcontinuousframemode; dwt_initialise ends them.
ConfigCwMode ==
  /\ CanSet /\ asked.config # NoConfig /\ Ask("test", TRUE)
  /\ pmsc1' = NoSequencing(pmsc1)
  /\ tuning' = ForCw(asked.config.chan, tuning)
  /\ rfConf' = "txall"
  /\ pmsc0' = Write(EnableClocks(pmsc0, "FORCE_SYS_XTI"), 0, 15, {1, 5, 8, 9, 10})
  /\ UNCHANGED <<gpio, ledc, sniff, saved, calc>>

ContinuousFrameMode ==
  /\ CanSet /\ asked.config # NoConfig /\ Ask("test", TRUE)
  /\ pmsc1' = NoSequencing(pmsc1)
  /\ rfConf' = "txall"
  /\ pmsc0' = EnableClocks(EnableClocks(EnableClocks(pmsc0,
                 "FORCE_SYS_XTI"), "FORCE_SYS_PLL"), "FORCE_TX_PLL")
  /\ UNCHANGED <<gpio, ledc, sniff, tuning, saved, calc>>

\* Mutant: 32 bits of PMSC_CTRL1 are read and restored.
OldPmscCtrl1Wide(reg) == reg

\* old_pmsc_ctrl1.
OldPmscCtrl1(reg) == Bits(reg, 0, 15)

\* dwt_calcpgcount and dwt_calcbandwidthtempadj up to their loops.
BeginMeasuring(what) ==
  /\ CanSet /\ calc' = what
  /\ saved' = [pmsc0 |-> Bits(pmsc0, 0, 7), pmsc1 |-> OldPmscCtrl1(pmsc1), rfConf |-> rfConf]
  /\ pmsc0' = Write(Write(pmsc0, 0, 7, {0}), 0, 7, {1, 5})
  /\ pmsc1' = NoSequencing(pmsc1)
  /\ rfConf' = "cal"
  /\ UNCHANGED <<gpio, ledc, sniff, tuning, asked>>

CalcPgCount ==
  \E t \in DOMAIN PgCounts, d \in PgDelays :
    BeginMeasuring([fn |-> "measuring", for |-> "count", count |-> PgCounts[t][d]])

\* The reference may have been taken at another temperature than the present one.
CalcBandwidthTempAdj ==
  \E t, reference \in DOMAIN PgCounts, d \in PgDelays :
    BeginMeasuring([fn |-> "measuring", for |-> "bandwidth", temp |-> t,
                    target |-> PgCounts[reference][d]])

\* The average of NumSamples counts that are each off by one at most, or the search.
Measured ==
  IF calc.for = "count"
    THEN {[fn |-> "count", count |-> calc.count, result |-> sum \div NumSamples] :
            sum \in NumSamples * (calc.count - 1) .. NumSamples * (calc.count + 1)}
    ELSE {[fn |-> "bandwidth", temp |-> calc.temp, target |-> calc.target,
           result |-> BandwidthSearch(PgCounts[calc.temp], calc.target)]}

\* Their loops, and the registers restored.
EndMeasuring ==
  /\ calc.fn = "measuring"
  /\ pmsc0' = Write(pmsc0, 0, 7, saved.pmsc0)
  /\ pmsc1' = Write(pmsc1, 0, 15, saved.pmsc1)
  /\ rfConf' = saved.rfConf
  /\ saved' = NoneSaved
  /\ calc' \in Measured
  /\ UNCHANGED <<gpio, ledc, sniff, tuning, asked>>

-----------------------------------------------------------------------------
(***************************************************************************)
(* Calculations on a configured chip, which change no register.            *)
(***************************************************************************)
Calculate(result) ==
  /\ CanSet /\ asked.config # NoConfig
  /\ calc' = result
  /\ UNCHANGED <<registers, saved, asked>>

AdjustPower ==
  \E byte \in PowerBytes, delta \in DeltaTemps :
    Calculate([fn |-> "power", byte |-> byte, adj |-> PowerAdj(asked.config.chan, delta),
               result |-> CalcPowerTempAdj(asked.config.chan, byte, delta)])

CorrectRange ==
  \E range \in Distances :
    Calculate([fn |-> "bias", range |-> range,
               result |-> GetRangeBias(asked.config.chan, asked.config.prf, range)])

ConvertTemperature ==
  \E delta \in DeltaTemps, tempP \in RoomTemps :
    /\ tempP + delta \in 0 .. 255
    /\ Calculate([fn |-> "temperature", raw |-> tempP + delta,
                  result |-> DegTempToRaw(RawToTenths(tempP + delta, tempP), tempP)])

\* The caller uses the result.
Return ==
  /\ calc.fn \notin {"none", "measuring"}
  /\ calc' = NoCalc
  /\ UNCHANGED <<registers, saved, asked>>

SettingsInit ==
  /\ pmsc0 = Sequenced \cup SoftResetBits
  /\ pmsc1 = PktSeq \cup {LDERUNE}
  /\ gpio = [p \in Pins |-> 0]
  /\ ledc = FALSE /\ sniff = FALSE /\ rfConf = "auto"
  /\ tuning = NoTuning
  /\ saved = NoneSaved /\ calc = NoCalc
  /\ asked = [NothingAsked EXCEPT !.lde = TRUE]

Setting == \/ SetLeds \/ SetLnaPaMode \/ EnableGpioClocks \/ SetSniffMode
           \/ EnterSleepAfterTx \/ SetLowPowerListening \/ RxReset
           \/ ConfigureChannel \/ ConfigureFor64Plen
Measuring   == CalcPgCount \/ CalcBandwidthTempAdj \/ EndMeasuring
Calculation == AdjustPower \/ CorrectRange \/ ConvertTemperature \/ Return
SettingsNext == \/ SoftReset \/ Setting \/ ConfigCwMode \/ ContinuousFrameMode
        \/ Measuring \/ Calculation
SettingsSpec == SettingsInit /\ [][SettingsNext]_settingVars

-----------------------------------------------------------------------------
(***************************************************************************)
(* Properties.                                                             *)
(***************************************************************************)
PinsAsAsked ==
  {p \in Pins : gpio[p] = 1} = (IF asked.leds THEN LedPins ELSE {}) \cup PinsOf(asked.lnaPa)

ClocksAsAsked ==
  /\ asked.leds => ledc /\ {GPDCE, KHZCLEN} \subseteq pmsc0
  /\ asked.gpioClocks => {GPCE, GPRN} \subseteq pmsc0
  /\ Bits(pmsc0, 0, 15) = Sequenced /\ SoftResetBits \subseteq pmsc0

\* SNIFF mode keeps its times, but its PLL sequencing only until the receiver is reset.
SniffAsAsked ==
  /\ sniff <=> asked.sniff # "off"
  /\ PLL2_SEQ_EN \in pmsc0 <=> asked.sniff = "on"

\* In a value of PMSC_CTRL1.
SleepsAsAsked(reg) ==
  /\ PktSeq \subseteq reg
  /\ ATXSLP \in reg <=> asked.sleepAfterTx
  /\ asked.listening => {ARXSLP, SNOZE} \subseteq reg
  /\ ~asked.listening => {ARXSLP, SNOZE} \cap reg = {}

SequencerAsAsked ==
  /\ SleepsAsAsked(pmsc1) /\ rfConf = "auto"
  /\ LDERUNE \in pmsc1 <=> asked.lde

\* 110 kbps keeps the 64-symbol tuning of an earlier configuration, and no call but
\* dwt_initialise takes the 64-symbol gear back.
TuningAsAsked ==
  /\ asked.config # NoConfig => Agree(tuning, asked.config)
  /\ tuning.tune4h = "PRE64" <=> asked.pre64
  /\ tuning.gear = "64L" <=> asked.gear64

\* What the application has asked of the chip holds until it asks for something else:
\* no call about one setting disturbs another that shares its register, and a
\* calibration leaves no trace.  Outside the test modes.
SettingsStay ==
  ~asked.test /\ calc.fn # "measuring" =>
    PinsAsAsked /\ ClocksAsAsked /\ SniffAsAsked /\ SequencerAsAsked /\ TuningAsAsked

\* The bandwidth that dwt_calcbandwidthtempadj returns is the closest one there is at
\* the present temperature, and a count is as exact as its samples.
BandwidthRestored ==
  /\ calc.fn = "bandwidth" => IsClosest(PgCounts[calc.temp], calc.target, calc.result)
  /\ calc.fn = "count" => calc.result \in calc.count - 1 .. calc.count + 1

\* Where the attenuator has the room for it, the power changes by exactly the
\* adjustment, with the mixer gain between 4 and 20.
PowerAdjusted ==
  /\ calc.fn = "power" /\ calc.adj = 0 => calc.result = calc.byte
  /\ calc.fn = "power" /\ calc.adj # 0 /\ WithinAttenuator(calc.byte, calc.adj)
       => /\ Power(calc.result) = Power(calc.byte) + calc.adj
          /\ MixerGain(calc.result) \in 4 .. 20

\* The range correction grows by a centimetre for each entry of its table that a
\* distance passes, and so by less than the distance does: it puts no distance before
\* a shorter one.
CorrectionKeepsOrder ==
  calc.fn = "bias" =>
    LET table  == RangeTable(asked.config.chan, asked.config.prf)
        growth == GetRangeBias(asked.config.chan, asked.config.prf, calc.range + 1) - calc.result
    IN  /\ calc.range < 255 => growth = Cardinality({i \in DOMAIN table : table[i] = calc.range})
        /\ growth \in 0 .. 24

\* A raw temperature turned into degrees and back is the same to three units, wherever
\* dwt_convertdegtemptoraw accepts the degrees.
TemperatureSurvives == calc.fn = "temperature" => Abs(calc.result - calc.raw) <= 3

\* What the driver calculates, in whatever state the chip is.
CalculationsHold ==
  BandwidthRestored /\ PowerAdjusted /\ CorrectionKeepsOrder /\ TemperatureSurvives

\* deca_device.c:3767: "DA is at max allowed".  Where the attenuation has reached its
\* end, an adjustment to more power does not turn into less.
DaStopsAtMax ==
  calc.fn = "power" /\ calc.adj > 0 => Power(calc.result) >= Power(calc.byte)

-----------------------------------------------------------------------------
(***************************************************************************)
(* The inductive invariant behind SettingsStay.                            *)
(***************************************************************************)
\* What no calibration touches holds during one, too.
UntouchedAsAsked ==
  /\ PinsAsAsked /\ SniffAsAsked /\ TuningAsAsked
  /\ asked.leds => ledc /\ {GPDCE, KHZCLEN} \subseteq pmsc0
  /\ asked.gpioClocks => {GPCE, GPRN} \subseteq pmsc0
  /\ Bits(pmsc0, 8, 15) = Sequenced /\ SoftResetBits \subseteq pmsc0
  /\ LDERUNE \in pmsc1 <=> asked.lde

\* Of the rest a calibration has saved what was asked for.
SavedAsAsked == saved.pmsc0 = {} /\ saved.rfConf = "auto" /\ SleepsAsAsked(saved.pmsc1)

SettingsInv ==
  /\ asked.test => calc = NoCalc
  /\ ~asked.test => UntouchedAsAsked
  /\ ~asked.test /\ calc.fn # "measuring" => ClocksAsAsked /\ SequencerAsAsked
  /\ calc.fn = "measuring" => SavedAsAsked
=============================================================================
