---------------------------- MODULE Dw1000Driver ----------------------------
(***************************************************************************)
(* The DW1000 driver's API as the calls an application may make in any     *)
(* documented order: initialisation, configuration, OTP, sleep and         *)
(* wake-up.  What can go wrong is not one call but a sequence of them: the *)
(* driver keeps copies of registers that the chip loses or restores, and   *)
(* moves the chip's clocks while it reads the OTP memory.                  *)
(*                                                                         *)
(*   src/dw1000/src/deca_device.c                                          *)
(*                                                                         *)
(* A register is the set of its bits.  One call is one step: there is one  *)
(* caller.  Channel, gain and power values are left out, as are LDERUN and *)
(* the callbacks.                                                          *)
(***************************************************************************)
EXTENDS Naturals, Clocks

CONSTANTS
  PhyModes,  \* the rates and PHR modes of dwt_configure, as bits of SYS_CFG
  Setters    \* which of the calls that change SYS_CFG are made

ASSUME PhyModesAssumption == PhyModes \subseteq SUBSET {"PHR_MODE", "RXM110K"}
ASSUME SettersAssumption ==
  Setters \subseteq {"timeout", "filter", "autoack", "double", "smart"}

VARIABLES
  power,    \* "awake" or "asleep"
  clocks,   \* the bits of PMSC_CTRL0 that select clocks
  sysCfg,   \* SYS_CFG; in sleep its copy in the AON array
  wcfg,     \* AON_WCFG: what the chip loads on wake-up
  sleepEn,  \* AON_CFG0: SLEEP_EN
  wakeCs,   \* AON_CFG0: WAKE_SPI
  ucode,    \* is the LDE microcode in the chip's RAM?
  ldo,      \* has the LDO tuning been kicked?
  otpLdo,   \* is a value for it programmed in this chip's OTP memory?
  woken,    \* has the chip woken up since it was last reset?
  drv,      \* *pdw1000local
  ready,    \* may the application use the driver?
  call      \* the last call

chip == <<power, clocks, sysCfg, wcfg, sleepEn, wakeCs, ucode, ldo, woken>>
vars == <<chip, otpLdo, drv, ready, call>>

Flags   == {"LOADUCODE", "WAKE_UP", "NO_UCODE", "READ_OTP"}
OnWake  == {"LDC", "PRES_SLEEP", "LLDE", "LLDO"}
SysCfgBits == {"PHR_MODE", "RXM110K", "FFE", "AUTOACK", "DIS_DRXB", "RXWTOE", "DIS_STXP"}
Calls   == {"none", "initialise", "configure", "timeout", "filter", "autoack", "double",
            "smart", "otpread", "otpwrite", "acc", "opset", "tempvbat",
            "continuous", "sleepcnt", "calibrate", "sleepconfig", "sleep", "wakeup", "reset"}

\* 0x1200 after a reset: single buffer.
ResetSysCfg == {"DIS_DRXB"}
NoDriver  == [sleep_mode |-> {}, longFrames |-> FALSE, sysCfg |-> {}]

TypeOK ==
  /\ power \in {"awake", "asleep"}
  /\ clocks \subseteq 0 .. 15
  /\ sysCfg \subseteq SysCfgBits
  /\ wcfg \subseteq OnWake
  /\ sleepEn \in BOOLEAN /\ wakeCs \in BOOLEAN
  /\ ucode \in BOOLEAN /\ ldo \in BOOLEAN /\ otpLdo \in BOOLEAN
  /\ woken \in BOOLEAN /\ ready \in BOOLEAN
  /\ drv \in [sleep_mode : SUBSET {"LLDE", "LLDO"}, longFrames : BOOLEAN,
              sysCfg : SUBSET SysCfgBits]
  /\ call \in Calls

-----------------------------------------------------------------------------
(***************************************************************************)
(* Clocks.                                                                 *)
(***************************************************************************)
\* Mutant: the clocks are not put back.
ThenSequencedNot(which) == EnableClocks(clocks, which)

\* A piece of work done with some clocks forced, then with all sequenced again.
ThenSequenced(which) == EnableClocks(EnableClocks(clocks, which), "ENABLE_ALL_SEQ")

-----------------------------------------------------------------------------
(***************************************************************************)
(* dwt_initialise.                                                         *)
(***************************************************************************)
\* *pdw1000local at its end: the on-wake loads it has worked out, and SYS_CFG as
\* it has read it back.
ReadBack(loads, bits) ==
  [sleep_mode |-> loads, longFrames |-> "PHR_MODE" \in bits, sysCfg |-> bits]

\* The chip does not answer: DWT_ERROR, with the on-wake loads cleared.
InitialiseAsleep(config) ==
  /\ power = "asleep"
  /\ drv' = [drv EXCEPT !.sleep_mode = {}]
  /\ ready' = FALSE
  /\ UNCHANGED chip

\* SLEEP_EN when dwt_softreset uploads the AON array: it has cleared AON_CFG0.
SleepEnInReset == FALSE

\* Without DWT_DW_WAKE_UP: dwt_softreset, the OTP values read on the crystal's
\* clock, and the microcode if asked for.
InitialiseCold(config) ==
  /\ power = "awake" /\ "WAKE_UP" \notin config
  /\ wcfg' = {} /\ sleepEn' = FALSE /\ wakeCs' = FALSE
  /\ power' = IF SleepEnInReset THEN "asleep" ELSE "awake"
  /\ sysCfg' = ResetSysCfg
  /\ LET forced == EnableClocks(Sequenced, "FORCE_SYS_XTI")
         lde    == IF "LOADUCODE" \in config
                     THEN EnableClocks(EnableClocks(forced, "FORCE_LDE"), "ENABLE_ALL_SEQ")
                     ELSE forced
     IN  clocks' = EnableClocks(lde, "ENABLE_ALL_SEQ")
  /\ ucode' = ("LOADUCODE" \in config)
  /\ ldo' = otpLdo
  /\ woken' = FALSE
  /\ drv' = ReadBack((IF otpLdo THEN {"LLDO"} ELSE {})
                        \cup (IF "LOADUCODE" \in config THEN {"LLDE"} ELSE {}), sysCfg')
  /\ ready' = TRUE

\* Mutant: the on-wake loads are read back from AON_WCFG.
SleepModeWokenReadBack(config) == wcfg

\* Mutant: the on-wake loads are not worked out again.
SleepModeWokenEmpty(config) == {}

\* The on-wake loads of a chip that has woken up: LDOTUNE tells of the LDO, the
\* caller of the microcode.
SleepModeWoken(config) ==
  (IF ldo THEN {"LLDO"} ELSE {}) \cup (IF "NO_UCODE" \notin config THEN {"LLDE"} ELSE {})

\* With DWT_DW_WAKE_UP the clocks are forced unless OTP values are to be read.
\* The caller says NO_UCODE when it has not loaded the microcode.
InitialiseWoken(config) ==
  /\ power = "awake" /\ "WAKE_UP" \in config
  /\ woken /\ ("NO_UCODE" \in config <=> ~ucode)
  /\ LET forced == IF "READ_OTP" \in config THEN clocks
                     ELSE EnableClocks(clocks, "FORCE_SYS_XTI")
     IN  clocks' = EnableClocks(forced, "ENABLE_ALL_SEQ")
  /\ drv' = ReadBack(SleepModeWoken(config), sysCfg)
  /\ ready' = TRUE
  /\ UNCHANGED <<power, sysCfg, wcfg, sleepEn, wakeCs, ucode, ldo, woken>>

Initialise ==
  \E config \in SUBSET Flags :
    /\ call' = "initialise"
    /\ InitialiseAsleep(config) \/ InitialiseCold(config) \/ InitialiseWoken(config)
    /\ UNCHANGED otpLdo

-----------------------------------------------------------------------------
(***************************************************************************)
(* Configuration.                                                          *)
(***************************************************************************)
\* What the application may count on between the calls.
CanCall == ready /\ power = "awake"

Calling(name) == CanCall /\ call' = name

\* The driver's copy of SYS_CFG is changed and written to the chip.
FromCopy(set, clear) ==
  /\ drv' = [drv EXCEPT !.sysCfg = (@ \cup set) \ clear]
  /\ sysCfg' = drv'.sysCfg

\* SYS_CFG is read from the chip, changed, kept and written.
FromChip(set, clear) ==
  /\ sysCfg' = (sysCfg \cup set) \ clear
  /\ drv' = [drv EXCEPT !.sysCfg = sysCfg']

\* Mutant: the copy is not changed.
OnBothChipOnly(set, clear) ==
  /\ sysCfg' = (sysCfg \cup set) \ clear
  /\ UNCHANGED drv

\* The chip's byte and the driver's copy are changed each for itself.
OnBoth(set, clear) ==
  /\ sysCfg' = (sysCfg \cup set) \ clear
  /\ drv' = [drv EXCEPT !.sysCfg = (@ \cup set) \ clear]

Keep == UNCHANGED <<power, clocks, wcfg, sleepEn, wakeCs, ucode, ldo, woken,
                    otpLdo, ready>>

\* dwt_configure: the rate and the PHR mode go to SYS_CFG.
Configure ==
  \E set \in PhyModes :
    /\ Calling("configure")
    /\ drv' = [drv EXCEPT !.sysCfg = (@ \ {"PHR_MODE", "RXM110K"}) \cup set,
                          !.longFrames = "PHR_MODE" \in set]
    /\ sysCfg' = drv'.sysCfg
    /\ Keep

SetRxTimeout ==
  /\ "timeout" \in Setters /\ Calling("timeout")
  /\ OnBoth({"RXWTOE"}, {}) \/ OnBoth({}, {"RXWTOE"})
  /\ Keep

EnableFrameFilter ==
  /\ "filter" \in Setters /\ Calling("filter")
  /\ FromChip({"FFE"}, {}) \/ FromChip({}, {"FFE"})
  /\ Keep

SetSmartTxPower ==
  /\ "smart" \in Setters /\ Calling("smart")
  /\ FromChip({"DIS_STXP"}, {}) \/ FromChip({}, {"DIS_STXP"})
  /\ Keep

EnableAutoAck ==
  /\ "autoack" \in Setters /\ Calling("autoack")
  /\ FromCopy({"AUTOACK"}, {})
  /\ Keep

\* dwt_setdblrxbuffmode.
SetDblRxBuffMode ==
  /\ "double" \in Setters /\ Calling("double")
  /\ FromCopy({}, {"DIS_DRXB"}) \/ FromCopy({"DIS_DRXB"}, {})
  /\ Keep

-----------------------------------------------------------------------------
(***************************************************************************)
(* Calls that move the clocks.                                             *)
(***************************************************************************)
KeepButClocks == UNCHANGED <<power, sysCfg, wcfg, ucode, ldo, woken, otpLdo, drv, ready>>

OtpRead ==
  /\ Calling("otpread")
  /\ clocks' = ThenSequenced("FORCE_SYS_XTI")
  /\ UNCHANGED <<sleepEn, wakeCs>> /\ KeepButClocks

\* dwt_otpwriteandverify leaves the crystal's clock on.
OtpWriteAndVerify ==
  /\ Calling("otpwrite")
  /\ clocks' = EnableClocks(clocks, "FORCE_SYS_XTI")
  /\ UNCHANGED <<sleepEn, wakeCs>> /\ KeepButClocks

ReadAccData ==
  /\ Calling("acc")
  /\ clocks' = EnableClocks(EnableClocks(clocks, "READ_ACC_ON"), "READ_ACC_OFF")
  /\ UNCHANGED <<sleepEn, wakeCs>> /\ KeepButClocks

LoadOpsetTabFromOtp ==
  /\ Calling("opset")
  /\ clocks' = ThenSequenced("FORCE_LDE")
  /\ UNCHANGED <<sleepEn, wakeCs>> /\ KeepButClocks

\* dwt_readtempvbat changes the clock when the SPI is slow.
ReadTempVbat ==
  /\ Calling("tempvbat")
  /\ clocks' = ThenSequenced("FORCE_SYS_XTI") \/ UNCHANGED clocks
  /\ UNCHANGED <<sleepEn, wakeCs>> /\ KeepButClocks

\* dwt_configcontinuousframemode, after _dwt_disablesequencing.
ConfigContinuousFrameMode ==
  /\ Calling("continuous")
  /\ clocks' = EnableClocks(EnableClocks(EnableClocks(clocks,
                 "FORCE_SYS_XTI"), "FORCE_SYS_PLL"), "FORCE_TX_PLL")
  /\ UNCHANGED <<sleepEn, wakeCs>> /\ KeepButClocks

-----------------------------------------------------------------------------
(***************************************************************************)
(* Sleep.  An upload of the AON configuration with SLEEP_EN set puts the   *)
(* chip to sleep.                                                          *)
(***************************************************************************)
\* dwt_configuresleepcnt clears AON_CFG0 before it uploads.
ConfigureSleepCnt ==
  /\ Calling("sleepcnt")
  /\ clocks' = ThenSequenced("FORCE_SYS_XTI")
  /\ sleepEn' = FALSE /\ wakeCs' = FALSE
  /\ KeepButClocks

\* dwt_calibratesleepcnt does not clear it: with SLEEP_EN set its first upload puts
\* the chip to sleep and the rest is lost.  An application that does so can count
\* on nothing until it initialises the driver again.
CalibrateSleepCnt ==
  /\ Calling("calibrate")
  /\ \/ ~sleepEn /\ clocks' = ThenSequenced("FORCE_SYS_XTI") /\ UNCHANGED <<power, ready>>
     \/ sleepEn /\ power' = "asleep" /\ ready' = FALSE /\ UNCHANGED clocks
  /\ UNCHANGED <<sysCfg, wcfg, sleepEn, wakeCs, ucode, ldo, woken, otpLdo, drv>>

\* dwt_configuresleep adds the driver's on-wake loads to the caller's.
ConfigureSleep ==
  \E mode \in SUBSET {"LDC", "PRES_SLEEP"}, cs \in BOOLEAN :
    /\ Calling("sleepconfig")
    /\ wcfg' = mode \cup drv.sleep_mode
    /\ sleepEn' = TRUE /\ wakeCs' = cs
    /\ UNCHANGED <<power, clocks, sysCfg, ucode, ldo, woken, otpLdo, drv, ready>>

\* _dwt_aonarrayupload saves the registers.
Saved == sysCfg

\* dwt_entersleep.
EnterSleep ==
  /\ Calling("sleep")
  /\ power' = IF sleepEn THEN "asleep" ELSE "awake"
  /\ sysCfg' = IF sleepEn THEN Saved ELSE sysCfg
  /\ UNCHANGED <<clocks, wcfg, sleepEn, wakeCs, ucode, ldo, woken, otpLdo, drv, ready>>

\* The chip wakes up: what AON_WCFG does not load is lost.  Without DWT_CONFIG
\* the application must initialise the driver again.
ChipWakes ==
  /\ power' = "awake" /\ woken' = TRUE
  /\ clocks' = Sequenced
  /\ sysCfg' = IF "LDC" \in wcfg THEN sysCfg ELSE ResetSysCfg
  /\ ucode' = ("LLDE" \in wcfg)
  /\ ldo' = ("LLDO" \in wcfg /\ otpLdo)
  /\ sleepEn' = (sleepEn /\ "PRES_SLEEP" \in wcfg)
  /\ ready' = (ready /\ "LDC" \in wcfg)
  /\ UNCHANGED <<wcfg, wakeCs, otpLdo, drv>>

\* The WAKEUP pin, or the sleep counter.
WakeUp ==
  /\ power = "asleep"
  /\ call' = "wakeup"
  /\ ChipWakes

\* dwt_spicswakeup: nothing to do, a wake-up, or DWT_ERROR.
SpiCsWakeUp ==
  /\ call' = "wakeup"
  /\ \/ power = "asleep" /\ wakeCs /\ ChipWakes
     \/ /\ power = "awake" \/ ~wakeCs
        /\ UNCHANGED <<chip, otpLdo, drv, ready>>

-----------------------------------------------------------------------------
\* The microcontroller restarts, the chip does not.
HostRestarts ==
  /\ drv' = NoDriver /\ ready' = FALSE
  /\ call' = "none"
  /\ UNCHANGED <<chip, otpLdo>>

ResetChip ==
  /\ power' = "awake" /\ clocks' = Sequenced
  /\ sysCfg' = ResetSysCfg
  /\ wcfg' = {} /\ sleepEn' = FALSE /\ wakeCs' = FALSE
  /\ ucode' = FALSE /\ ldo' = FALSE /\ woken' = FALSE

\* The RSTn pin: the application initialises the chip again.
Reset ==
  /\ ResetChip /\ ready' = FALSE
  /\ call' = "reset"
  /\ UNCHANGED <<otpLdo, drv>>

Init ==
  /\ power = "awake" /\ clocks = Sequenced
  /\ sysCfg = ResetSysCfg
  /\ wcfg = {} /\ sleepEn = FALSE /\ wakeCs = FALSE
  /\ ucode = FALSE /\ ldo = FALSE /\ woken = FALSE
  /\ otpLdo \in BOOLEAN
  /\ drv = NoDriver /\ ready = FALSE /\ call = "none"

ConfigCall == \/ Configure \/ SetRxTimeout \/ EnableFrameFilter \/ SetSmartTxPower
              \/ EnableAutoAck \/ SetDblRxBuffMode
ClockCall  == \/ OtpRead \/ OtpWriteAndVerify \/ ReadAccData \/ LoadOpsetTabFromOtp
              \/ ReadTempVbat \/ ConfigContinuousFrameMode
SleepCall  == \/ ConfigureSleepCnt \/ CalibrateSleepCnt \/ ConfigureSleep \/ EnterSleep
              \/ SpiCsWakeUp
Next == Initialise \/ ConfigCall \/ ClockCall \/ SleepCall \/ WakeUp \/ HostRestarts \/ Reset
Spec == Init /\ [][Next]_vars

-----------------------------------------------------------------------------
(***************************************************************************)
(* Properties.                                                             *)
(***************************************************************************)
\* Whatever sequence of calls, sleeps and restarts led here: when the application
\* may use the driver, its copy of SYS_CFG and its longFrames say what the chip's
\* registers say, so that the next call that writes the copy undoes nothing.
CopyMatchesChip ==
  CanCall => drv.sysCfg = sysCfg /\ (drv.longFrames <=> "PHR_MODE" \in sysCfg)

\* The calls that force a clock for their work leave it as they should: sequenced,
\* or as it was.
ClocksPutBack ==
  [][/\ call' \in {"otpread", "opset", "sleepcnt"} => clocks' = Sequenced
     /\ call' = "initialise" /\ ready' => clocks' = Sequenced
     /\ call' \in {"acc", "calibrate"} => clocks' \in {clocks, Sequenced}]_vars

\* A sleep costs the chip neither the LDE microcode, without which no frame gets a
\* timestamp, nor the LDO tuning, in the tenth sleep as in the first.
MicrocodeSurvives ==
  [][power = "asleep" /\ call' = "wakeup" /\ power' = "awake"
       => ucode' = ucode /\ ldo' = ldo]_vars

=============================================================================
