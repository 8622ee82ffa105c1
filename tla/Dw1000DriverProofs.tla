------------------------ MODULE Dw1000DriverProofs ------------------------
(***************************************************************************)
(* The DW1000 driver, for every choice of setters, PHY modes and           *)
(* configurations: what holds of one call after another holds of every     *)
(* sequence of calls.                                                      *)
(*                                                                         *)
(* The first part is about Dw1000Driver, the driver's copies against the   *)
(* chip.  The second is about ChipSettings, what the driver keeps no copy  *)
(* of and what it calculates.                                              *)
(***************************************************************************)
EXTENDS Dw1000Driver, ChipSettings, FiniteSetTheorems, WellFoundedInduction, TLAPS

-----------------------------------------------------------------------------
\* While the application may use the driver the copy is right, also through a
\* sleep that keeps the registers.
CopyInv == ready => /\ drv.sysCfg = sysCfg
                    /\ drv.longFrames <=> "PHR_MODE" \in sysCfg

\* The driver starts with no copy that anyone may use.
LEMMA DriverInit == Init => TypeOK /\ CopyInv
<1> SUFFICES ASSUME Init PROVE TypeOK /\ CopyInv
  OBVIOUS
<1> USE DEF Init
<1>1. /\ sleepEn \in BOOLEAN /\ wakeCs \in BOOLEAN /\ ucode \in BOOLEAN
      /\ ldo \in BOOLEAN /\ otpLdo \in BOOLEAN /\ woken \in BOOLEAN /\ ready \in BOOLEAN
  OBVIOUS
<1>2. drv \in [sleep_mode : SUBSET {"LLDE", "LLDO"}, longFrames : BOOLEAN,
               sysCfg : SUBSET SysCfgBits]
  BY DEF NoDriver
<1>3. sysCfg \subseteq SysCfgBits
  BY DEF ResetSysCfg, SysCfgBits
<1> QED
  BY <1>1, <1>2, <1>3 DEF TypeOK, CopyInv, Sequenced, Calls

\* Every call and every event at the chip keeps the variables in their types.
LEMMA TypeStep == TypeOK /\ [Next]_vars => TypeOK'
<1> SUFFICES ASSUME TypeOK, [Next]_vars PROVE TypeOK'
  OBVIOUS
<1> USE DEF TypeOK
<1>c. ASSUME NEW c \in SUBSET (0 .. 15), NEW w \in {"ENABLE_ALL_SEQ", "FORCE_SYS_XTI",
                "FORCE_SYS_PLL", "READ_ACC_ON", "READ_ACC_OFF", "FORCE_TX_PLL", "FORCE_LDE"}
      PROVE EnableClocks(c, w) \in SUBSET (0 .. 15)
  BY DEF EnableClocks, AboveClocks
<1>t. ASSUME NEW w \in {"ENABLE_ALL_SEQ", "FORCE_SYS_XTI", "FORCE_LDE"}
      PROVE ThenSequenced(w) \in SUBSET (0 .. 15)
  BY <1>c DEF ThenSequenced
<1>s. Sequenced \in SUBSET (0 .. 15)
  BY DEF Sequenced
<1>r. ASSUME NEW m \in SUBSET {"LLDE", "LLDO"}, NEW b \in SUBSET SysCfgBits
      PROVE ReadBack(m, b) \in
              [sleep_mode : SUBSET {"LLDE", "LLDO"}, longFrames : BOOLEAN,
               sysCfg : SUBSET SysCfgBits]
  BY DEF ReadBack
<1>w. ASSUME ChipWakes
      PROVE /\ power' \in {"awake", "asleep"} /\ clocks' \subseteq 0 .. 15
            /\ sysCfg' \subseteq SysCfgBits /\ wcfg' \subseteq OnWake
            /\ sleepEn' \in BOOLEAN /\ wakeCs' \in BOOLEAN /\ ucode' \in BOOLEAN
            /\ ldo' \in BOOLEAN /\ otpLdo' \in BOOLEAN /\ woken' \in BOOLEAN
            /\ ready' \in BOOLEAN /\ UNCHANGED drv
  <2> USE <1>w DEF ChipWakes
  <2>1. ucode' \in BOOLEAN /\ ready' \in BOOLEAN
    <3>1. CASE "LLDE" \in wcfg
      BY <3>1
    <3>2. CASE "LLDE" \notin wcfg
      BY <3>2
    <3> QED BY <3>1, <3>2
  <2>2. ldo' \in BOOLEAN
    OBVIOUS
  <2>3. sleepEn' \in BOOLEAN
    OBVIOUS
  <2> QED BY <1>s, <2>1, <2>2, <2>3 DEF ResetSysCfg, SysCfgBits
<1>1. CASE Initialise
  <2> PICK config \in SUBSET Flags :
        /\ call' = "initialise"
        /\ InitialiseAsleep(config) \/ InitialiseCold(config) \/ InitialiseWoken(config)
        /\ UNCHANGED otpLdo
    BY <1>1 DEF Initialise
  <2>1. call' \in Calls
    BY DEF Calls
  <2>2. CASE InitialiseAsleep(config)
    BY <2>1, <2>2 DEF InitialiseAsleep, chip
  <2>3. CASE InitialiseCold(config)
    <3>1. clocks' \in SUBSET (0 .. 15)
      BY <1>c, <1>s, <2>3 DEF InitialiseCold
    <3>2. sysCfg' \in SUBSET SysCfgBits
      BY <2>3 DEF InitialiseCold, ResetSysCfg, SysCfgBits
    <3>3. drv' \in [sleep_mode : SUBSET {"LLDE", "LLDO"}, longFrames : BOOLEAN,
                    sysCfg : SUBSET SysCfgBits]
      BY <1>r, <2>3, <3>2 DEF InitialiseCold
    <3>5. ucode' \in BOOLEAN
      <4>1. CASE "LOADUCODE" \in config
        BY <2>3, <4>1 DEF InitialiseCold
      <4>2. CASE "LOADUCODE" \notin config
        BY <2>3, <4>2 DEF InitialiseCold
      <4> QED BY <4>1, <4>2
    <3>4. /\ ldo' \in BOOLEAN /\ otpLdo' \in BOOLEAN
          /\ sleepEn' \in BOOLEAN /\ wakeCs' \in BOOLEAN
          /\ woken' \in BOOLEAN /\ ready' \in BOOLEAN
      BY <2>3 DEF InitialiseCold
    <3> QED BY <2>1, <2>3, <3>1, <3>2, <3>3, <3>4, <3>5 DEF InitialiseCold, SleepEnInReset
  <2>4. CASE InitialiseWoken(config)
    <3>1. clocks' \in SUBSET (0 .. 15)
      BY <1>c, <2>4 DEF InitialiseWoken
    <3>2. SleepModeWoken(config) \in SUBSET {"LLDE", "LLDO"}
      BY DEF SleepModeWoken
    <3>3. drv' \in [sleep_mode : SUBSET {"LLDE", "LLDO"}, longFrames : BOOLEAN,
                    sysCfg : SUBSET SysCfgBits]
      BY <1>r, <2>4, <3>2 DEF InitialiseWoken
    <3> QED BY <2>1, <2>4, <3>1, <3>3 DEF InitialiseWoken
  <2> QED BY <2>2, <2>3, <2>4
<1>2. CASE ConfigCall
  <2> USE DEF Calling, CanCall, Keep, Calls
  <2>1. ASSUME NEW set \in SUBSET SysCfgBits, NEW clear \in SUBSET SysCfgBits,
               FromCopy(set, clear) \/ FromChip(set, clear) \/ OnBoth(set, clear)
        PROVE /\ sysCfg' \in SUBSET SysCfgBits
              /\ drv' \in [sleep_mode : SUBSET {"LLDE", "LLDO"}, longFrames : BOOLEAN,
                           sysCfg : SUBSET SysCfgBits]
    BY <2>1 DEF FromCopy, FromChip, OnBoth
  <2>2. CASE Configure
    <3> PICK set \in PhyModes :
          /\ Calling("configure")
          /\ drv' = [drv EXCEPT !.sysCfg = (@ \ {"PHR_MODE", "RXM110K"}) \cup set,
                                !.longFrames = "PHR_MODE" \in set]
          /\ sysCfg' = drv'.sysCfg
          /\ Keep
      BY <2>2 DEF Configure
    <3>1. set \in SUBSET SysCfgBits
      BY PhyModesAssumption DEF SysCfgBits
    <3>2. ("PHR_MODE" \in set) \in BOOLEAN
      OBVIOUS
    <3>3. drv' \in [sleep_mode : SUBSET {"LLDE", "LLDO"}, longFrames : BOOLEAN,
                    sysCfg : SUBSET SysCfgBits]
      BY <3>1, <3>2
    <3> QED BY <3>1, <3>3
  <2>3. {} \in SUBSET SysCfgBits /\ {"RXWTOE"} \in SUBSET SysCfgBits
        /\ {"FFE"} \in SUBSET SysCfgBits /\ {"DIS_STXP"} \in SUBSET SysCfgBits
        /\ {"AUTOACK"} \in SUBSET SysCfgBits /\ {"DIS_DRXB"} \in SUBSET SysCfgBits
    BY DEF SysCfgBits
  <2>4. CASE SetRxTimeout
    BY <2>1, <2>3, <2>4 DEF SetRxTimeout
  <2>5. CASE EnableFrameFilter
    BY <2>1, <2>3, <2>5 DEF EnableFrameFilter
  <2>6. CASE SetSmartTxPower
    BY <2>1, <2>3, <2>6 DEF SetSmartTxPower
  <2>7. CASE EnableAutoAck
    BY <2>1, <2>3, <2>7 DEF EnableAutoAck
  <2>8. CASE SetDblRxBuffMode
    BY <2>1, <2>3, <2>8 DEF SetDblRxBuffMode
  <2> QED BY <1>2, <2>2, <2>4, <2>5, <2>6, <2>7, <2>8 DEF ConfigCall
<1>3. CASE ClockCall
  <2> USE DEF KeepButClocks, Calling, CanCall, Calls
  <2>1. CASE OtpRead \/ OtpWriteAndVerify
    BY <1>c, <1>t, <2>1 DEF OtpRead, OtpWriteAndVerify
  <2>2. CASE ReadAccData \/ LoadOpsetTabFromOtp
    BY <1>c, <1>t, <2>2 DEF ReadAccData, LoadOpsetTabFromOtp
  <2>3. CASE ReadTempVbat
    BY <1>c, <1>t, <2>3 DEF ReadTempVbat
  <2>4. CASE ConfigContinuousFrameMode
    BY <1>c, <1>t, <2>4 DEF ConfigContinuousFrameMode
  <2> QED BY <1>3, <2>1, <2>2, <2>3, <2>4 DEF ClockCall
<1>4. CASE SleepCall
  <2> USE DEF Calling, CanCall, Calls
  <2>1. CASE ConfigureSleepCnt
    BY <1>t, <2>1 DEF ConfigureSleepCnt, KeepButClocks
  <2>2. CASE CalibrateSleepCnt
    BY <1>t, <2>2 DEF CalibrateSleepCnt
  <2>3. CASE ConfigureSleep
    BY <2>3 DEF ConfigureSleep, OnWake
  <2>4. CASE EnterSleep
    BY <2>4 DEF EnterSleep, Saved
  <2>5. CASE SpiCsWakeUp
    BY <1>w, <2>5 DEF SpiCsWakeUp, chip
  <2> QED BY <1>4, <2>1, <2>2, <2>3, <2>4, <2>5 DEF SleepCall
<1>5. CASE WakeUp
  BY <1>w, <1>5 DEF WakeUp, Calls
<1>6. CASE HostRestarts
  BY <1>6 DEF HostRestarts, chip, NoDriver, Calls
<1>7. CASE Reset
  BY <1>s, <1>7 DEF Reset, ResetChip, ResetSysCfg, SysCfgBits, Calls
<1>8. CASE UNCHANGED vars
  BY <1>8 DEF vars, chip
<1> QED
  BY <1>1, <1>2, <1>3, <1>4, <1>5, <1>6, <1>7, <1>8 DEF Next

\* Type correctness of the driver's copies and the chip's registers.
THEOREM TypeCorrect == Spec => []TypeOK
BY DriverInit, TypeStep, PTL DEF Spec
-----------------------------------------------------------------------------
\* A setter that starts from equal copies ends with equal copies.
LEMMA CopyStep == TypeOK /\ CopyInv /\ [Next]_vars => CopyInv'
<1> SUFFICES ASSUME TypeOK, CopyInv, [Next]_vars, ready'
             PROVE  /\ drv'.sysCfg = sysCfg'
                    /\ drv'.longFrames <=> "PHR_MODE" \in sysCfg'
  BY DEF CopyInv
<1> USE DEF TypeOK, CopyInv
<1>1. CASE Initialise
  <2> PICK config \in SUBSET Flags :
        InitialiseAsleep(config) \/ InitialiseCold(config) \/ InitialiseWoken(config)
    BY <1>1 DEF Initialise
  <2>1. CASE InitialiseAsleep(config)
    BY <2>1 DEF InitialiseAsleep
  <2>2. CASE InitialiseCold(config)
    BY <2>2 DEF InitialiseCold, ReadBack
  <2>3. CASE InitialiseWoken(config)
    BY <2>3 DEF InitialiseWoken, ReadBack
  <2> QED BY <2>1, <2>2, <2>3
<1>2. CASE ConfigCall
  <2> USE DEF Calling, CanCall
  <2>1. ASSUME NEW set, NEW clear, "PHR_MODE" \notin set, "PHR_MODE" \notin clear,
               CanCall, FromCopy(set, clear) \/ FromChip(set, clear) \/ OnBoth(set, clear)
        PROVE  /\ drv'.sysCfg = sysCfg'
               /\ drv'.longFrames <=> "PHR_MODE" \in sysCfg'
    BY <2>1 DEF FromCopy, FromChip, OnBoth
  <2>2. CASE Configure
    <3> PICK set \in PhyModes :
          /\ drv' = [drv EXCEPT !.sysCfg = (@ \ {"PHR_MODE", "RXM110K"}) \cup set,
                                !.longFrames = "PHR_MODE" \in set]
          /\ sysCfg' = drv'.sysCfg
      BY <2>2 DEF Configure
    <3>1. drv'.longFrames = ("PHR_MODE" \in set)
      OBVIOUS
    <3>2. sysCfg' = (drv.sysCfg \ {"PHR_MODE", "RXM110K"}) \cup set
      OBVIOUS
    <3>3. "PHR_MODE" \in sysCfg' <=> "PHR_MODE" \in set
      BY <3>2
    <3> QED BY <3>1, <3>3
  <2>3. CASE SetRxTimeout \/ EnableFrameFilter \/ SetSmartTxPower \/ EnableAutoAck
             \/ SetDblRxBuffMode
    BY <2>1, <2>3 DEF SetRxTimeout, EnableFrameFilter, SetSmartTxPower, EnableAutoAck,
       SetDblRxBuffMode
  <2> QED BY <1>2, <2>2, <2>3 DEF ConfigCall
<1>3. CASE ClockCall
  BY <1>3 DEF ClockCall, OtpRead, OtpWriteAndVerify, ReadAccData, LoadOpsetTabFromOtp,
     ReadTempVbat, ConfigContinuousFrameMode, KeepButClocks, Calling, CanCall
<1>4. CASE SleepCall
  <2>1. CASE ConfigureSleepCnt \/ CalibrateSleepCnt \/ ConfigureSleep \/ EnterSleep
    BY <2>1 DEF ConfigureSleepCnt, CalibrateSleepCnt, ConfigureSleep, EnterSleep,
       KeepButClocks, Calling, CanCall, Saved
  <2>2. CASE SpiCsWakeUp
    BY <2>2 DEF SpiCsWakeUp, ChipWakes, chip
  <2> QED BY <1>4, <2>1, <2>2 DEF SleepCall
<1>5. CASE WakeUp
  BY <1>5 DEF WakeUp, ChipWakes
<1>6. CASE HostRestarts \/ Reset
  BY <1>6 DEF HostRestarts, Reset
<1>7. CASE UNCHANGED vars
  BY <1>7 DEF vars, chip
<1> QED
  BY <1>1, <1>2, <1>3, <1>4, <1>5, <1>6, <1>7 DEF Next

\* Whatever sequence of calls, sleeps and restarts comes before a call: the copies
\* of SYS_CFG it starts from are the chip's.
THEOREM CopyAlwaysMatches == Spec => []CopyMatchesChip
<1>1. CopyInv => CopyMatchesChip
  BY DEF CopyInv, CopyMatchesChip, CanCall
<1> QED
  BY <1>1, DriverInit, TypeStep, CopyStep, PTL DEF Spec

-----------------------------------------------------------------------------
\* The set s of on-wake loads is that of a chip with this microcode and LDO tuning.
Loads(s) == /\ "LLDE" \in s <=> ucode
            /\ "LLDO" \in s <=> ldo

\* The driver's on-wake loads fit the chip, and so does what it has written to
\* AON_WCFG from the moment the chip can go to sleep.  Only a chip whose OTP memory
\* holds a value has its LDO tuned.
LoadsInv ==
  /\ ready => Loads(drv.sleep_mode)
  /\ power = "asleep" \/ sleepEn => Loads(wcfg)
  /\ ldo => otpLdo

\* The loads survive every call: dwt_initialise works them out from what the chip
\* still has, and waking up loads what was there.
LEMMA LoadsStep == TypeOK /\ LoadsInv /\ [Next]_vars => LoadsInv'
<1> SUFFICES ASSUME TypeOK, LoadsInv, [Next]_vars PROVE LoadsInv'
  OBVIOUS
<1> USE DEF TypeOK, LoadsInv, Loads
<1>1. CASE Initialise
  <2> PICK config \in SUBSET Flags :
        /\ InitialiseAsleep(config) \/ InitialiseCold(config) \/ InitialiseWoken(config)
        /\ UNCHANGED otpLdo
    BY <1>1 DEF Initialise
  <2>1. CASE InitialiseAsleep(config)
    BY <2>1 DEF InitialiseAsleep, chip
  <2>2. CASE InitialiseCold(config)
    <3>1. power' = "awake" /\ sleepEn' = FALSE /\ ldo' = otpLdo'
      BY <2>2 DEF InitialiseCold, SleepEnInReset
    <3>2. drv'.sleep_mode = (IF otpLdo THEN {"LLDO"} ELSE {})
                              \cup (IF "LOADUCODE" \in config THEN {"LLDE"} ELSE {})
      BY <2>2 DEF InitialiseCold, ReadBack
    <3>3. ucode' = ("LOADUCODE" \in config)
      BY <2>2 DEF InitialiseCold
    <3>4. "LLDE" \in drv'.sleep_mode <=> ucode'
      BY <3>2, <3>3
    <3>5. "LLDO" \in drv'.sleep_mode <=> ldo'
      BY <3>1, <3>2
    <3> QED BY <3>1, <3>4, <3>5
  <2>3. CASE InitialiseWoken(config)
    <3>1. drv'.sleep_mode = SleepModeWoken(config)
      BY <2>3 DEF InitialiseWoken, ReadBack
    <3>2. Loads(SleepModeWoken(config))
      BY <2>3 DEF InitialiseWoken, SleepModeWoken
    <3> QED BY <2>3, <3>1, <3>2 DEF InitialiseWoken
  <2> QED BY <2>1, <2>2, <2>3
<1>2. CASE ConfigCall
  <2>1. UNCHANGED drv.sleep_mode
    BY <1>2 DEF ConfigCall, Configure, SetRxTimeout, EnableFrameFilter, SetSmartTxPower,
       EnableAutoAck, SetDblRxBuffMode, FromCopy, FromChip, OnBoth
  <2>2. Keep
    BY <1>2 DEF ConfigCall, Configure, SetRxTimeout, EnableFrameFilter, SetSmartTxPower,
       EnableAutoAck, SetDblRxBuffMode
  <2> QED BY <2>1, <2>2 DEF Keep
<1>3. CASE ClockCall
  BY <1>3 DEF ClockCall, OtpRead, OtpWriteAndVerify, ReadAccData, LoadOpsetTabFromOtp,
     ReadTempVbat, ConfigContinuousFrameMode, KeepButClocks
<1>w. ASSUME ChipWakes, power = "asleep" PROVE LoadsInv'
  <2>1. ucode' = ucode /\ ldo' = ldo
    BY <1>w DEF ChipWakes
  <2> QED BY <1>w, <2>1 DEF ChipWakes
<1>4. CASE SleepCall
  <2>1. CASE ConfigureSleepCnt \/ CalibrateSleepCnt
    BY <2>1 DEF ConfigureSleepCnt, CalibrateSleepCnt, KeepButClocks, Calling, CanCall
  <2>2. CASE ConfigureSleep
    <3> PICK mode \in SUBSET {"LDC", "PRES_SLEEP"} :
          ready /\ wcfg' = mode \cup drv.sleep_mode
          /\ UNCHANGED <<power, ucode, ldo, otpLdo, drv, ready>>
      BY <2>2 DEF ConfigureSleep, Calling, CanCall
    <3> QED OBVIOUS
  <2>3. CASE EnterSleep
    BY <2>3 DEF EnterSleep, Calling, CanCall
  <2>4. CASE SpiCsWakeUp
    BY <1>w, <2>4 DEF SpiCsWakeUp, chip
  <2> QED BY <1>4, <2>1, <2>2, <2>3, <2>4 DEF SleepCall
<1>5. CASE WakeUp
  BY <1>w, <1>5 DEF WakeUp
<1>6. CASE HostRestarts
  BY <1>6 DEF HostRestarts, chip
<1>7. CASE Reset
  BY <1>7 DEF Reset, ResetChip
<1>8. CASE UNCHANGED vars
  BY <1>8 DEF vars, chip
<1> QED
  BY <1>1, <1>2, <1>3, <1>4, <1>5, <1>6, <1>7, <1>8 DEF Next

\* The calls other than a wake-up say so in call.
LEMMA NamedCalls ==
  ASSUME Next, call' = "wakeup" PROVE WakeUp \/ SpiCsWakeUp
BY DEF Next, Initialise, ConfigCall, Configure, SetRxTimeout, EnableFrameFilter,
   SetSmartTxPower, EnableAutoAck, SetDblRxBuffMode, ClockCall, OtpRead,
   OtpWriteAndVerify, ReadAccData, LoadOpsetTabFromOtp, ReadTempVbat,
   ConfigContinuousFrameMode, SleepCall, ConfigureSleepCnt, CalibrateSleepCnt,
   ConfigureSleep, EnterSleep, HostRestarts, Reset, Calling

\* However often the chip sleeps, it wakes up with the microcode and the LDO tuning
\* it fell asleep with.
THEOREM SleepKeepsMicrocode == Spec => MicrocodeSurvives
<1>1. Init => LoadsInv
  BY DEF Init, LoadsInv, NoDriver
<1>2. TypeOK /\ LoadsInv /\ [Next]_vars
        => (power = "asleep" /\ call' = "wakeup" /\ power' = "awake"
              => ucode' = ucode /\ ldo' = ldo)
  <2> SUFFICES ASSUME TypeOK, LoadsInv, [Next]_vars, power = "asleep",
                      call' = "wakeup", power' = "awake"
               PROVE  ucode' = ucode /\ ldo' = ldo
    OBVIOUS
  <2>1. Next
    BY DEF vars, chip
  <2>2. WakeUp \/ SpiCsWakeUp
    BY <2>1, NamedCalls
  <2>3. ChipWakes
    BY <2>2 DEF WakeUp, SpiCsWakeUp, chip
  <2> QED BY <2>3 DEF ChipWakes, LoadsInv, Loads, TypeOK
<1> QED
  BY <1>1, <1>2, DriverInit, TypeStep, LoadsStep, PTL DEF Spec, MicrocodeSurvives
-----------------------------------------------------------------------------
\* Between calls at most the system and the transmitter clock are forced, and the
\* bit that dwt_initialise and the others count on for the OTP memory is set.
ClocksInv == clocks \subseteq {0, 1, 5, 9} /\ 9 \in clocks

\* What each piece of work with forced clocks makes of such a choice of clocks.
LEMMA ClocksOfWork ==
  ASSUME ClocksInv
  PROVE  /\ \A w \in {"FORCE_SYS_XTI", "FORCE_LDE"} : ThenSequenced(w) = Sequenced
         /\ EnableClocks(clocks, "ENABLE_ALL_SEQ") = Sequenced
         /\ EnableClocks(EnableClocks(clocks, "READ_ACC_ON"), "READ_ACC_OFF") = clocks
BY DEF ClocksInv, ThenSequenced, EnableClocks, AboveClocks, Sequenced

\* dwt_initialise ends with every clock sequenced, cold or woken.
LEMMA InitialiseSequences ==
  ASSUME ClocksInv, NEW config,
         InitialiseCold(config) \/ InitialiseWoken(config)
  PROVE  clocks' = Sequenced
<1>s. ASSUME NEW c \in SUBSET {0, 1, 5, 8, 9}, 9 \in c
      PROVE  EnableClocks(c, "ENABLE_ALL_SEQ") = Sequenced
  BY <1>s DEF EnableClocks, Sequenced
<1>1. CASE InitialiseCold(config)
  <2>1. EnableClocks(Sequenced, "FORCE_SYS_XTI") = {0, 9}
    BY DEF EnableClocks, Sequenced
  <2>2. EnableClocks({0, 9}, "FORCE_LDE") = {0, 8, 9}
    BY DEF EnableClocks, AboveClocks
  <2>3. clocks' = EnableClocks(IF "LOADUCODE" \in config
                                 THEN EnableClocks({0, 8, 9}, "ENABLE_ALL_SEQ")
                                 ELSE {0, 9}, "ENABLE_ALL_SEQ")
    BY <1>1, <2>1, <2>2 DEF InitialiseCold
  <2>4. 9 \in Sequenced /\ Sequenced \in SUBSET {0, 1, 5, 8, 9}
    BY DEF Sequenced
  <2>5. EnableClocks({0, 8, 9}, "ENABLE_ALL_SEQ") = Sequenced
    BY <1>s
  <2>6. EnableClocks({0, 9}, "ENABLE_ALL_SEQ") = Sequenced
    BY <1>s
  <2>7. EnableClocks(Sequenced, "ENABLE_ALL_SEQ") = Sequenced
    BY <1>s, <2>4
  <2> QED BY <2>3, <2>5, <2>6, <2>7
<1>2. CASE InitialiseWoken(config)
  BY <1>2 DEF InitialiseWoken, EnableClocks, Sequenced, ClocksInv
<1> QED
  BY <1>1, <1>2

\* Calls that leave the crystal or the transmitter clock on keep ClocksInv, the
\* others keep the clocks or put every one of them back.
LEMMA ClocksStep ==
  ClocksInv /\ [Next]_vars
    => /\ ClocksInv'
       /\ call' \in {"otpread", "opset", "sleepcnt"} /\ ~UNCHANGED vars => clocks' = Sequenced
       /\ call' = "initialise" /\ ready' /\ ~UNCHANGED vars => clocks' = Sequenced
       /\ call' \in {"acc", "calibrate"} => clocks' \in {clocks, Sequenced}
<1> SUFFICES ASSUME ClocksInv, [Next]_vars
             PROVE  /\ ClocksInv'
                    /\ call' \in {"otpread", "opset", "sleepcnt"} /\ ~UNCHANGED vars
                         => clocks' = Sequenced
                    /\ call' = "initialise" /\ ready' /\ ~UNCHANGED vars => clocks' = Sequenced
                    /\ call' \in {"acc", "calibrate"} => clocks' \in {clocks, Sequenced}
  OBVIOUS
<1>s. ASSUME clocks' = Sequenced PROVE ClocksInv'
  BY <1>s DEF ClocksInv, Sequenced
<1>u. ASSUME UNCHANGED clocks PROVE ClocksInv'
  BY <1>u DEF ClocksInv
<1>1. CASE Initialise
  <2> PICK config \in SUBSET Flags :
        /\ call' = "initialise"
        /\ InitialiseAsleep(config) \/ InitialiseCold(config) \/ InitialiseWoken(config)
    BY <1>1 DEF Initialise
  <2>1. CASE InitialiseAsleep(config)
    BY <1>u, <2>1 DEF InitialiseAsleep, chip
  <2>2. CASE InitialiseCold(config) \/ InitialiseWoken(config)
    BY <1>s, <2>2, InitialiseSequences
  <2> QED BY <2>1, <2>2
<1>2. CASE ConfigCall
  BY <1>2, <1>u DEF ConfigCall, Configure, SetRxTimeout, EnableFrameFilter, SetSmartTxPower,
     EnableAutoAck, SetDblRxBuffMode, Calling, Keep
<1>3. CASE ClockCall
  <2>1. CASE OtpRead \/ LoadOpsetTabFromOtp
    BY <1>s, <2>1, ClocksOfWork DEF OtpRead, LoadOpsetTabFromOtp, Calling
  <2>2. CASE ReadAccData
    BY <1>u, <2>2, ClocksOfWork DEF ReadAccData, Calling
  <2>3. CASE ReadTempVbat
    BY <1>s, <1>u, <2>3, ClocksOfWork DEF ReadTempVbat, Calling
  <2>4. CASE OtpWriteAndVerify
    BY <2>4 DEF OtpWriteAndVerify, Calling, ClocksInv, EnableClocks
  <2>5. CASE ConfigContinuousFrameMode
    BY <2>5 DEF ConfigContinuousFrameMode, Calling, ClocksInv, EnableClocks
  <2> QED BY <1>3, <2>1, <2>2, <2>3, <2>4, <2>5 DEF ClockCall
<1>4. CASE SleepCall
  <2>1. CASE ConfigureSleepCnt
    BY <1>s, <2>1, ClocksOfWork DEF ConfigureSleepCnt, Calling
  <2>2. CASE CalibrateSleepCnt
    BY <1>s, <1>u, <2>2, ClocksOfWork DEF CalibrateSleepCnt, Calling
  <2>3. CASE ConfigureSleep \/ EnterSleep
    BY <1>u, <2>3 DEF ConfigureSleep, EnterSleep, Calling
  <2>4. CASE SpiCsWakeUp
    BY <1>s, <1>u, <2>4 DEF SpiCsWakeUp, ChipWakes, chip
  <2> QED BY <1>4, <2>1, <2>2, <2>3, <2>4 DEF SleepCall
<1>5. CASE WakeUp
  BY <1>s, <1>5 DEF WakeUp, ChipWakes
<1>6. CASE HostRestarts
  BY <1>u, <1>6 DEF HostRestarts, chip
<1>7. CASE Reset
  BY <1>s, <1>7 DEF Reset, ResetChip
<1>8. CASE UNCHANGED vars
  BY <1>u, <1>8 DEF vars, chip
<1> QED
  BY <1>1, <1>2, <1>3, <1>4, <1>5, <1>6, <1>7, <1>8 DEF Next

\* A call that forces clocks for its work leaves none of them forced, whatever
\* calls have left forced before it.
THEOREM ClocksArePutBack == Spec => ClocksPutBack
<1>1. Init => ClocksInv
  BY DEF Init, ClocksInv, Sequenced
<1>2. ClocksInv /\ [Next]_vars => ClocksInv'
  BY ClocksStep
<1>3. ClocksInv /\ [Next]_vars
        => [/\ call' \in {"otpread", "opset", "sleepcnt"} => clocks' = Sequenced
            /\ call' = "initialise" /\ ready' => clocks' = Sequenced
            /\ call' \in {"acc", "calibrate"} => clocks' \in {clocks, Sequenced}]_vars
  BY ClocksStep
<1> QED
  BY <1>1, <1>2, <1>3, PTL DEF Spec, ClocksPutBack

-----------------------------------------------------------------------------
(***************************************************************************)
(* ChipSettings: conversions of temperature, and the transmit power.       *)
(***************************************************************************)
\* A truncated quotient lies on the side of zero, less than one from the exact one.
LEMMA TruncatedBounds ==
  ASSUME NEW n \in Int, NEW d \in Int, d > 0
  PROVE  /\ Truncated(n, d) \in Int
         /\ n >= 0 => /\ d * Truncated(n, d) <= n /\ n < d * Truncated(n, d) + d
                       /\ Truncated(n, d) >= 0
         /\ n < 0 => /\ d * Truncated(n, d) >= n /\ n > d * Truncated(n, d) - d
                      /\ Truncated(n, d) <= 0
<1> DEFINE q(m) == m \div d
<1>1. ASSUME NEW m \in Nat
      PROVE q(m) \in Nat /\ d * q(m) <= m /\ m < d * q(m) + d
  OBVIOUS
<1>2. CASE n >= 0
  <2>1. n \in Nat /\ Truncated(n, d) = q(n)
    BY <1>2 DEF Truncated
  <2> QED BY <1>2, <1>1, <2>1
<1>3. CASE n < 0
  <2>1. -n \in Nat /\ Truncated(n, d) = -q(-n)
    BY <1>3 DEF Truncated
  <2>2. q(-n) \in Nat /\ d * q(-n) <= -n /\ -n < d * q(-n) + d
    BY <1>1, <2>1
  <2> HIDE DEF q
  <2>3. d * (-q(-n)) = -(d * q(-n))
    BY <2>2
  <2> QED BY <1>3, <2>1, <2>2, <2>3
<1> QED BY <1>2, <1>3

\* To degrees and back, two truncating divisions and the factor 22, itself truncated from
\* 22.46, lose three units together at most, and the sum stays in its byte.
LEMMA TemperatureThereAndBack ==
  ASSUME NEW tempP \in 0 .. 255, NEW delta \in -90 .. 111, tempP + delta \in 0 .. 255
  PROVE  LET back == DegTempToRaw(RawToTenths(tempP + delta, tempP), tempP)
         IN  back \in 0 .. 255 /\ Abs(back - (tempP + delta)) <= 3
<1> DEFINE a == Truncated(delta * 114, 10)
           t == Truncated((a + 5) * 22, 256)
<1>1. /\ a \in Int
      /\ delta >= 0 => 10 * a <= delta * 114 /\ delta * 114 < 10 * a + 10 /\ a >= 0
      /\ delta < 0 => 10 * a >= delta * 114 /\ delta * 114 > 10 * a - 10 /\ a <= 0
  BY TruncatedBounds
<1>2. /\ t \in Int
      /\ a + 5 >= 0 => 256 * t <= (a + 5) * 22 /\ (a + 5) * 22 < 256 * t + 256 /\ t >= 0
      /\ a + 5 < 0 => 256 * t >= (a + 5) * 22 /\ (a + 5) * 22 > 256 * t - 256 /\ t <= 0
  <2> HIDE DEF a
  <2>1. (a + 5) * 22 \in Int
    BY <1>1
  <2> QED BY <1>1, <2>1, TruncatedBounds
<1>3. DegTempToRaw(RawToTenths(tempP + delta, tempP), tempP) = (t + tempP) % 256
  <2>1. (tempP + delta) - tempP = delta
    OBVIOUS
  <2>2. RawToTenths(tempP + delta, tempP) = a + 230
    BY <2>1 DEF RawToTenths
  <2> HIDE DEF a
  <2>3. (a + 230) - 225 = a + 5
    BY <1>1
  <2>4. DegTempToRaw(a + 230, tempP) = (Truncated(((a + 230) - 225) * 22, 256) + tempP) % 256
    BY DEF DegTempToRaw, TempConv
  <2> QED BY <2>2, <2>3, <2>4
<1> HIDE DEF a, t
<1>4. /\ t - delta \in -3 .. 3
      /\ delta >= 0 => 0 <= t /\ t <= delta
      /\ delta < 0 => delta <= t /\ t <= 0
  <2>1. CASE delta >= 0
    <3>1. 256 * t <= (a + 5) * 22 /\ (a + 5) * 22 < 256 * t + 256 /\ t >= 0
      BY <1>1, <1>2, <2>1
    <3> QED BY <1>1, <1>2, <2>1, <3>1
  <2>2. CASE delta < 0 /\ a + 5 >= 0
    BY <1>1, <1>2, <2>2
  <2>3. CASE delta < 0 /\ a + 5 < 0
    BY <1>1, <1>2, <2>3
  <2> QED BY <1>1, <2>1, <2>2, <2>3
<1>5. t + tempP \in 0 .. 255
  BY <1>2, <1>4
<1>6. (t + tempP) % 256 = t + tempP
  BY <1>5
<1> QED BY <1>2, <1>3, <1>4, <1>5, <1>6 DEF Abs

\* The turns of a loop that takes step off n down to the bound.
LEMMA TurnsReach ==
  ASSUME NEW n \in Int, NEW bound \in Int
  PROVE  /\ Turns(n, bound, 5) \in Nat
         /\ n > bound => /\ n - 5 * Turns(n, bound, 5) <= bound
                         /\ bound <= n - 5 * Turns(n, bound, 5) + 4
         /\ n <= bound => Turns(n, bound, 5) = 0
<1> DEFINE k == Turns(n, bound, 5)
<1>1. CASE n > bound
  <2>1. k = (n - bound + 4) \div 5
    <3>1. n - bound + 5 - 1 = n - bound + 4
      OBVIOUS
    <3> QED BY <1>1, <3>1 DEF Turns
  <2>2. n - bound + 4 \in Nat
    BY <1>1
  <2>3. k \in Nat /\ 5 * k <= n - bound + 4 /\ n - bound + 4 < 5 * k + 5
    BY <2>1, <2>2
  <2> HIDE DEF k
  <2>4. n - 5 * k <= bound /\ bound <= n - 5 * k + 4
    BY <2>3
  <2> QED BY <1>1, <2>3, <2>4 DEF k
<1>2. CASE n <= bound
  BY <1>2 DEF Turns
<1> QED BY <1>1, <1>2

\* The attenuator takes no more than seven turns.
LEMMA SevenAtMost ==
  ASSUME NEW n \in Nat
  PROVE  Min({7, n}) \in 0 .. 7 /\ (n <= 7 => Min({7, n}) = n)
<1>1. \E x \in {7, n} : \A y \in {7, n} : x <= y
  OBVIOUS
<1>2. Min({7, n}) \in {7, n} /\ \A y \in {7, n} : Min({7, n}) <= y
  BY <1>1 DEF Min
<1> QED BY <1>2

\* The adjusted setting fits its byte; its power is the one asked for while the turns of
\* the mixer loops fit the attenuator, however the two carry into each other.
LEMMA PowerAfterAdjustment ==
  ASSUME NEW byte \in 0 .. 255, NEW adj \in Int
  PROVE  LET result == ComputeTxPowerSetting(byte, adj)
         IN  /\ result \in 0 .. 255
             /\ WithinAttenuator(byte, adj)
                => Power(result) = Power(byte) + adj /\ MixerGain(result) \in 4 .. 20
<1> DEFINE attn == byte \div 32
           gain == (byte % 32) + adj
           da   == DaAttnChange(byte, adj)
           x    == (attn + da) % 8
           y    == (gain + 5 * da) % 32
<1>1. attn \in 0 .. 7 /\ byte % 32 \in 0 .. 31 /\ gain \in Int
  OBVIOUS
<1>2. da = IF gain > 20 THEN -Turns(gain, 20, 5) ELSE Min({7, Turns(4, gain, 5)})
  BY DEF DaAttnChange, MixerGain, MixDaFactor
<1>3. /\ Turns(gain, 20, 5) \in Nat
      /\ gain > 20 => gain - 5 * Turns(gain, 20, 5) \in 16 .. 20
  <2> HIDE DEF gain
  <2>1. Turns(gain, 20, 5) \in Nat
    BY <1>1, TurnsReach
  <2>2. gain > 20 => /\ gain - 5 * Turns(gain, 20, 5) <= 20
                    /\ 20 <= gain - 5 * Turns(gain, 20, 5) + 4
    BY <1>1, TurnsReach
  <2> QED BY <1>1, <2>1, <2>2
<1>4. /\ Turns(4, gain, 5) \in Nat
      /\ 4 > gain => 4 - 5 * Turns(4, gain, 5) <= gain /\ gain <= 4 - 5 * Turns(4, gain, 5) + 4
      /\ 4 <= gain => Turns(4, gain, 5) = 0
  <2> HIDE DEF gain
  <2> QED BY <1>1, TurnsReach
<1>5. da \in Int
  <2>1. Min({7, Turns(4, gain, 5)}) \in Int
    BY <1>4, SevenAtMost
  <2> QED BY <1>2, <1>3, <2>1
<1>6. ComputeTxPowerSetting(byte, adj) = x * 32 + y
  BY DEF ComputeTxPowerSetting, DaAttn, MixerGain, MixDaFactor
<1> HIDE DEF attn, gain, da
<1>7. x \in 0 .. 7 /\ y \in 0 .. 31
  BY <1>1, <1>5
<1>8. ASSUME WithinAttenuator(byte, adj)
      PROVE  /\ Power(x * 32 + y) = Power(byte) + adj
             /\ MixerGain(x * 32 + y) \in 4 .. 20
  <2>1. attn + da \in 0 .. 7 /\ Turns(4, gain, 5) <= 7
    BY <1>8 DEF WithinAttenuator, DaAttn, MixerGain, MixDaFactor, attn, gain, da
  <2>2. gain + 5 * da \in 4 .. 20
    <3>1. CASE gain > 20
      BY <1>1, <1>2, <1>3, <3>1
    <3>2. CASE gain <= 20
      <4>1. da = Min({7, Turns(4, gain, 5)})
        BY <1>1, <1>2, <3>2
      <4>2. da = Turns(4, gain, 5)
        BY <1>4, <2>1, <4>1, SevenAtMost
      <4> QED BY <1>1, <1>4, <3>2, <4>2
    <3> QED BY <1>1, <3>1, <3>2
  <2>3. x = attn + da /\ y = gain + 5 * da
    BY <1>1, <1>5, <2>1, <2>2
  <2> HIDE DEF x, y
  <2>4. (x * 32 + y) \div 32 = x /\ (x * 32 + y) % 32 = y
    BY <1>7
  <2>5. Power(x * 32 + y) = y - 5 * x
    BY <2>4 DEF Power, DaAttn, MixerGain, MixDaFactor
  <2>6. Power(byte) = gain - adj - 5 * attn
    BY <1>1 DEF Power, DaAttn, MixerGain, MixDaFactor, attn, gain
  <2>7. y - 5 * x = (gain - adj - 5 * attn) + adj
    BY <1>1, <1>5, <2>3
  <2>8. MixerGain(x * 32 + y) \in 4 .. 20
    BY <2>2, <2>3, <2>4 DEF MixerGain
  <2> QED BY <2>5, <2>6, <2>7, <2>8
<1> HIDE DEF x, y
<1>9. x * 32 + y \in 0 .. 255
  BY <1>7
<1> QED BY <1>6, <1>8, <1>9

-----------------------------------------------------------------------------
(***************************************************************************)
(* The search for a bandwidth.                                             *)
(***************************************************************************)
\* The average of counts that are each off by one at most is.
LEMMA AverageIsClose ==
  ASSUME NEW n \in Nat \ {0}, NEW c \in Nat, NEW sum \in n * (c - 1) .. n * (c + 1)
  PROVE  sum \div n \in c - 1 .. c + 1
<1> DEFINE q == sum \div n
<1>1. n * (c - 1) \in Int /\ n * (c + 1) \in Int
  OBVIOUS
<1>2. sum \in Int /\ n * (c - 1) <= sum /\ sum <= n * (c + 1)
  BY <1>1
<1>3. q \in Int /\ n * q <= sum /\ sum < n * q + n
  BY <1>2
<1> HIDE DEF q
<1>4. ASSUME q > c + 1 PROVE FALSE
  <2>1. n * (q - (c + 2)) >= 0
    BY <1>3, <1>4
  <2>2. n * (q - (c + 2)) = n * q - n * (c + 1) - n
    BY <1>3
  <2> QED BY <1>1, <1>2, <1>3, <2>1, <2>2
<1>5. ASSUME q < c - 1 PROVE FALSE
  <2>1. n * ((c - 2) - q) >= 0
    BY <1>3, <1>5
  <2>2. n * ((c - 2) - q) = n * (c - 1) - n - n * q
    BY <1>3
  <2> QED BY <1>1, <1>2, <1>3, <2>1, <2>2
<1> QED BY <1>3, <1>4, <1>5 DEF q

\* A higher setting counts less: CountsFall for the counts at one temperature.
Falling(Count) ==
  /\ \A d \in 128 .. 255 : Count[d] \in Nat
  /\ \A d, e \in 128 .. 255 : d < e => Count[d] > Count[e]

\* How far a setting's count is from the target.
Distance(Count, target, d) == Abs(Count[d] - target)

\* Before a turn of the search the settings from s.bw + 1 to s.bw + w - 1 are undecided;
\* of all others s.best is the closest.
SearchInv(Count, target, s, w) ==
  /\ s.bw \in 128 .. 256 - w
  /\ s.best \in {0} \cup 129 .. 255
  /\ s.lowest \in 0 .. MaxDelta
  /\ s.best = 0 => s.lowest = MaxDelta
  /\ s.best # 0 => s.lowest = Distance(Count, target, s.best) /\ s.lowest < MaxDelta
  /\ \A d \in 129 .. 255 :
       d <= s.bw \/ s.bw + w <= d => s.lowest <= Distance(Count, target, d)

\* A turn keeps its bit where the count is still above the target, and the setting it
\* tried where that is the closest so far.
LEMMA TurnDecides ==
  ASSUME NEW Count, NEW target, NEW s, NEW bit
  PROVE  /\ Count[s.bw + bit] > target => SearchTurn(Count, target, s, bit).bw = s.bw + bit
         /\ ~(Count[s.bw + bit] > target) => SearchTurn(Count, target, s, bit).bw = s.bw
         /\ Distance(Count, target, s.bw + bit) < s.lowest
              => /\ SearchTurn(Count, target, s, bit).best = s.bw + bit
                 /\ SearchTurn(Count, target, s, bit).lowest = Distance(Count, target, s.bw + bit)
         /\ ~(Distance(Count, target, s.bw + bit) < s.lowest)
              => /\ SearchTurn(Count, target, s, bit).best = s.best
                 /\ SearchTurn(Count, target, s, bit).lowest = s.lowest
BY DEF SearchTurn, KeepBit, Distance

\* A turn halves them: on one side of the setting tried the counts move away from the target.
LEMMA TurnHalves ==
  ASSUME NEW Count, Falling(Count), NEW target \in Nat, NEW bit \in 1 .. 64, NEW s,
         SearchInv(Count, target, s, 2 * bit)
  PROVE  SearchInv(Count, target, SearchTurn(Count, target, s, bit), bit)
<1> DEFINE guess == s.bw + bit
           delta == Distance(Count, target, guess)
           next  == SearchTurn(Count, target, s, bit)
<1>1. s.bw \in 128 .. 255 /\ guess \in 129 .. 255 /\ guess + bit <= 256
  <2>1. s.bw \in 128 .. 256 - 2 * bit
    BY DEF SearchInv
  <2>2. s.bw \in Int /\ 128 <= s.bw /\ s.bw + bit + bit <= 256
    BY <2>1
  <2> QED BY <2>2
<1>2. Count[guess] \in Nat /\ \A d \in 129 .. 255 : Count[d] \in Nat
  <2>1. \A d \in 128 .. 255 : Count[d] \in Nat
    BY DEF Falling
  <2>2. guess \in 128 .. 255
    BY <1>1
  <2> HIDE DEF guess
  <2> QED BY <2>1, <2>2
<1>3. \A d \in 129 .. 255 : Distance(Count, target, d) \in Nat
  <2>1. ASSUME NEW count \in Nat PROVE Abs(count - target) \in Nat
    BY DEF Abs
  <2> QED BY <1>2, <2>1 DEF Distance
<1>4. /\ Count[guess] > target => next.bw = guess
      /\ ~(Count[guess] > target) => next.bw = s.bw
      /\ delta < s.lowest => next.best = guess /\ next.lowest = delta
      /\ ~(delta < s.lowest) => next.best = s.best /\ next.lowest = s.lowest
  BY TurnDecides
<1> HIDE DEF next
<1>5. /\ next.best \in {0} \cup 129 .. 255 /\ next.lowest \in 0 .. MaxDelta
      /\ next.best = 0 => next.lowest = MaxDelta
      /\ next.best # 0 => /\ next.lowest = Distance(Count, target, next.best)
                          /\ next.lowest < MaxDelta
      /\ next.lowest <= s.lowest /\ next.lowest <= delta
  <2>1. delta \in Nat
    BY <1>1, <1>3
  <2>2. /\ s.best \in {0} \cup 129 .. 255 /\ s.lowest \in 0 .. 300
        /\ s.best = 0 => s.lowest = 300
        /\ s.best # 0 => s.lowest = Distance(Count, target, s.best) /\ s.lowest < 300
    BY DEF SearchInv, MaxDelta
  <2>3. CASE delta < s.lowest
    <3>1. next.best = guess /\ next.lowest = delta
      BY <1>4, <2>3
    <3> QED BY <1>1, <2>1, <2>2, <2>3, <3>1 DEF MaxDelta
  <2>4. CASE ~(delta < s.lowest)
    <3>1. next.best = s.best /\ next.lowest = s.lowest
      BY <1>4, <2>4
    <3> QED BY <2>1, <2>2, <2>4, <3>1 DEF MaxDelta
  <2> QED BY <2>3, <2>4
<1>6. next.bw \in 128 .. 256 - bit
  BY <1>1, <1>4
<1>7. ASSUME NEW d \in 129 .. 255, d <= next.bw \/ next.bw + bit <= d
      PROVE  next.lowest <= Distance(Count, target, d)
  <2>f. ASSUME NEW x \in 128 .. 255, NEW y \in 128 .. 255, x < y PROVE Count[x] > Count[y]
    BY <2>f DEF Falling
  <2>1. CASE d <= s.bw \/ s.bw + 2 * bit <= d
    <3>1. s.lowest <= Distance(Count, target, d) /\ s.lowest \in Nat
      <4>1. /\ s.lowest \in 0 .. MaxDelta
            /\ \A x \in 129 .. 255 : x <= s.bw \/ s.bw + 2 * bit <= x
                                     => s.lowest <= Distance(Count, target, x)
        BY DEF SearchInv
      <4> QED BY <2>1, <4>1 DEF MaxDelta
    <3>2. next.lowest \in Nat /\ next.lowest <= s.lowest
      BY <1>5 DEF MaxDelta
    <3>3. Distance(Count, target, d) \in Nat
      BY <1>3
    <3> QED BY ONLY <3>1, <3>2, <3>3
  <2>2. CASE ~(d <= s.bw \/ s.bw + 2 * bit <= d)
    <3>1. CASE Count[guess] > target
      <4>1. d <= guess
        BY <1>1, <1>4, <1>7, <2>2, <3>1
      <4> HIDE DEF guess
      <4>2. ASSUME d # guess PROVE Count[d] > Count[guess]
        <5>1. d \in 128 .. 255 /\ guess \in 128 .. 255 /\ d < guess
          BY <1>1, <4>1, <4>2
        <5> QED BY <2>f, <5>1
      <4>3. Distance(Count, target, guess) <= Distance(Count, target, d)
        <5>1. Count[d] >= Count[guess]
          BY <1>2, <4>2
        <5> QED BY <1>2, <3>1, <5>1 DEF Distance, Abs
      <4>4. next.lowest \in Nat /\ next.lowest <= Distance(Count, target, guess)
        BY <1>5 DEF MaxDelta
      <4>5. Distance(Count, target, d) \in Nat /\ Distance(Count, target, guess) \in Nat
        BY <1>1, <1>3
      <4> QED BY <4>3, <4>4, <4>5
    <3>2. CASE ~(Count[guess] > target)
      <4>1. d >= guess
        BY <1>1, <1>4, <1>7, <2>2, <3>2
      <4> HIDE DEF guess
      <4>2. ASSUME d # guess PROVE Count[guess] > Count[d]
        <5>1. d \in 128 .. 255 /\ guess \in 128 .. 255 /\ guess < d
          BY <1>1, <4>1, <4>2
        <5> QED BY <2>f, <5>1
      <4>3. Distance(Count, target, guess) <= Distance(Count, target, d)
        <5>1. Count[d] <= Count[guess]
          BY <1>2, <4>2
        <5> QED BY <1>2, <3>2, <5>1 DEF Distance, Abs
      <4>4. next.lowest \in Nat /\ next.lowest <= Distance(Count, target, guess)
        BY <1>5 DEF MaxDelta
      <4>5. Distance(Count, target, d) \in Nat /\ Distance(Count, target, guess) \in Nat
        BY <1>1, <1>3
      <4> QED BY <4>3, <4>4, <4>5
    <3> QED BY <3>1, <3>2
  <2> QED BY <2>1, <2>2
<1> QED BY <1>5, <1>6, <1>7 DEF SearchInv, next

\* After the turn for the last bit nothing is undecided: the result is the closest.
LEMMA SearchFindsClosest ==
  ASSUME NEW Count, Falling(Count), NEW target \in Nat
  PROVE  /\ BandwidthSearch(Count, target) \in 0 .. 255
         /\ IsClosest(Count, target, BandwidthSearch(Count, target))
<1> DEFINE Inv(s, w) == s \in SearchStates /\ SearchInv(Count, target, s, w)
           f(bit) == [s \in SearchStates |-> SearchTurn(Count, target, s, bit)]
           s1 == f(64)[SearchStart]
           s2 == f(32)[s1]
           s3 == f(16)[s2]
           s4 == f(8)[s3]
           s5 == f(4)[s4]
           s6 == f(2)[s5]
           s7 == f(1)[s6]
<1>1. BandwidthSearch(Count, target) = s7.best
  BY DEF BandwidthSearch
<1>2. Inv(SearchStart, 128)
  BY DEF SearchInv, SearchStart, SearchStates, MaxDelta
<1>3. ASSUME NEW s, NEW bit \in 1 .. 64, Inv(s, 2 * bit) PROVE Inv(f(bit)[s], bit)
  <2> DEFINE next == SearchTurn(Count, target, s, bit)
  <2>1. f(bit)[s] = next
    BY <1>3
  <2>2. SearchInv(Count, target, next, bit)
    BY <1>3, TurnHalves
  <2>3. next = [bw |-> next.bw, best |-> next.best, lowest |-> next.lowest]
    BY DEF SearchTurn
  <2> HIDE DEF next
  <2>4. /\ next.bw \in 128 .. 255 /\ next.best \in 0 .. 255 /\ next.lowest \in 0 .. MaxDelta
    BY <2>2 DEF SearchInv
  <2> QED BY <2>1, <2>2, <2>3, <2>4 DEF SearchStates
<1> HIDE DEF f, Inv
<1>4. Inv(s1, 64)
  BY <1>2, <1>3
<1> HIDE DEF s1
<1>5. Inv(s2, 32)
  BY <1>3, <1>4
<1> HIDE DEF s2
<1>6. Inv(s3, 16)
  BY <1>3, <1>5
<1> HIDE DEF s3
<1>7. Inv(s4, 8)
  BY <1>3, <1>6
<1> HIDE DEF s4
<1>8. Inv(s5, 4)
  BY <1>3, <1>7
<1> HIDE DEF s5
<1>9. Inv(s6, 2)
  BY <1>3, <1>8
<1> HIDE DEF s6
<1>10. Inv(s7, 1)
  BY <1>3, <1>9
<1> HIDE DEF s7
<1>11. /\ s7.best \in {0} \cup 129 .. 255
       /\ s7.best = 0 => s7.lowest = MaxDelta
       /\ s7.best # 0 => s7.lowest = Distance(Count, target, s7.best) /\ s7.lowest < MaxDelta
       /\ \A d \in 129 .. 255 : s7.lowest <= Distance(Count, target, d)
  <2>1. SearchInv(Count, target, s7, 1)
    BY <1>10 DEF Inv
  <2>2. s7.bw \in 128 .. 255
    BY <2>1 DEF SearchInv
  <2>3. ASSUME NEW d \in 129 .. 255 PROVE s7.lowest <= Distance(Count, target, d)
    <3>1. d <= s7.bw \/ s7.bw + 1 <= d
      BY <2>2
    <3> QED BY <2>1, <3>1 DEF SearchInv
  <2> QED BY <2>1, <2>3 DEF SearchInv
<1>12. ASSUME NEW d \in 129 .. 255 PROVE Distance(Count, target, d) \in Nat
  <2>1. \A e \in 128 .. 255 : Count[e] \in Nat
    BY DEF Falling
  <2>2. Count[d] \in Nat
    BY <2>1
  <2> QED BY <2>2 DEF Distance, Abs
<1>13. IsClosest(Count, target, s7.best)
  <2> DEFINE near == {d \in 129 .. 255 : Distance(Count, target, d) < MaxDelta}
  <2>1. CASE near = {}
    <3>1. s7.best = 0
      BY <1>11, <2>1
    <3> QED BY <2>1, <3>1 DEF IsClosest, Distance
  <2>2. CASE near # {}
    <3>1. s7.best # 0
      BY <1>11, <1>12, <2>2 DEF MaxDelta
    <3>2. s7.best \in near
      BY <1>11, <3>1
    <3>3. \A d \in near : Distance(Count, target, s7.best) <= Distance(Count, target, d)
      BY <1>11, <3>1
    <3> QED BY <2>2, <3>2, <3>3 DEF IsClosest, Distance
  <2> QED BY <2>1, <2>2
<1> QED BY <1>1, <1>11, <1>13

-----------------------------------------------------------------------------
(***************************************************************************)
(* The range correction.                                                   *)
(***************************************************************************)
\* A set of naturals that is not empty has a least element.
LEMMA Least ==
  ASSUME NEW T \in SUBSET Nat, T # {}
  PROVE  \E x \in T : \A y \in T : x <= y
<1>1. PICK x \in T : \A y \in T : ~ (<<y, x>> \in OpToRel(<, Nat))
  BY NatLessThanWellFounded, WFMin
<1>2. ASSUME NEW y \in T PROVE x <= y
  <2>1. ~ (<<y, x>> \in OpToRel(<, Nat))
    BY <1>1
  <2>2. ~ (y < x)
    BY <2>1 DEF OpToRel
  <2> QED BY <2>2
<1> QED BY <1>2

\* What the proofs need of a table of distances: it does not fall, it ends with 255,
\* and before that no distance is in it more than three times.
Orderly(t, n) ==
  /\ DOMAIN t = 1 .. n /\ t[n] = 255
  /\ \A i \in 1 .. n : t[i] \in Nat
  /\ \A i \in 1 .. n - 1 : t[i] <= t[i + 1]
  /\ \A i \in 1 .. n - 3 : t[i] < 255 => t[i] < t[i + 3]

\* Each of the driver's twelve tables is orderly, its entries read one by one.
LEMMA Range25cm16PRFnbOrderly == \A row \in 1 .. 4 : Orderly(Range25cm16PRFnb[row], 37)
<1>1. Orderly(Range25cm16PRFnb[1], 37)
  BY DEF Range25cm16PRFnb, Orderly
<1>2. Orderly(Range25cm16PRFnb[2], 37)
  BY DEF Range25cm16PRFnb, Orderly
<1>3. Orderly(Range25cm16PRFnb[3], 37)
  BY DEF Range25cm16PRFnb, Orderly
<1>4. Orderly(Range25cm16PRFnb[4], 37)
  BY DEF Range25cm16PRFnb, Orderly
<1> QED BY <1>1, <1>2, <1>3, <1>4

\* Those of the wide band at 16 MHz.
LEMMA Range25cm16PRFwbOrderly == \A row \in 1 .. 2 : Orderly(Range25cm16PRFwb[row], 68)
<1>1. Orderly(Range25cm16PRFwb[1], 68)
  BY DEF Range25cm16PRFwb, Orderly
<1>2. Orderly(Range25cm16PRFwb[2], 68)
  BY DEF Range25cm16PRFwb, Orderly
<1> QED BY <1>1, <1>2

\* Those of the narrow band at 64 MHz.
LEMMA Range25cm64PRFnbOrderly == \A row \in 1 .. 4 : Orderly(Range25cm64PRFnb[row], 26)
<1>1. Orderly(Range25cm64PRFnb[1], 26)
  BY DEF Range25cm64PRFnb, Orderly
<1>2. Orderly(Range25cm64PRFnb[2], 26)
  BY DEF Range25cm64PRFnb, Orderly
<1>3. Orderly(Range25cm64PRFnb[3], 26)
  BY DEF Range25cm64PRFnb, Orderly
<1>4. Orderly(Range25cm64PRFnb[4], 26)
  BY DEF Range25cm64PRFnb, Orderly
<1> QED BY <1>1, <1>2, <1>3, <1>4

\* Those of the wide band at 64 MHz.
LEMMA Range25cm64PRFwbOrderly == \A row \in 1 .. 2 : Orderly(Range25cm64PRFwb[row], 59)
<1>1. Orderly(Range25cm64PRFwb[1], 59)
  BY DEF Range25cm64PRFwb, Orderly
<1>2. Orderly(Range25cm64PRFwb[2], 59)
  BY DEF Range25cm64PRFwb, Orderly
<1> QED BY <1>1, <1>2

\* Whatever the channel and the PRF, the row that is read is there and is orderly.
LEMMA TablesAreOrderly ==
  ASSUME NEW chan \in {1, 2, 3, 4, 5, 7}, NEW prf \in {16, 64}
  PROVE  \E n \in Nat \ {0} : Orderly(RangeTable(chan, prf), n)
<1>1. CASE prf = 16 /\ chan \in {4, 7}
  <2>1. ChanIdxWb[chan] + 1 \in 1 .. 2
    BY <1>1 DEF ChanIdxWb
  <2>2. RangeTable(chan, prf) = Range25cm16PRFwb[ChanIdxWb[chan] + 1]
    BY <1>1 DEF RangeTable, WideBand
  <2>3. Orderly(RangeTable(chan, prf), 68)
    BY ONLY <2>1, <2>2, Range25cm16PRFwbOrderly
  <2> QED BY <2>3
<1>2. CASE prf = 16 /\ chan \notin {4, 7}
  <2>1. ChanIdxNb[chan] + 1 \in 1 .. 4
    BY <1>2 DEF ChanIdxNb
  <2>2. RangeTable(chan, prf) = Range25cm16PRFnb[ChanIdxNb[chan] + 1]
    BY <1>2 DEF RangeTable, WideBand
  <2>3. Orderly(RangeTable(chan, prf), 37)
    BY ONLY <2>1, <2>2, Range25cm16PRFnbOrderly
  <2> QED BY <2>3
<1>3. CASE prf = 64 /\ chan \in {4, 7}
  <2>1. ChanIdxWb[chan] + 1 \in 1 .. 2
    BY <1>3 DEF ChanIdxWb
  <2>2. RangeTable(chan, prf) = Range25cm64PRFwb[ChanIdxWb[chan] + 1]
    BY <1>3 DEF RangeTable, WideBand
  <2>3. Orderly(RangeTable(chan, prf), 59)
    BY ONLY <2>1, <2>2, Range25cm64PRFwbOrderly
  <2> QED BY <2>3
<1>4. CASE prf = 64 /\ chan \notin {4, 7}
  <2>1. ChanIdxNb[chan] + 1 \in 1 .. 4
    BY <1>4 DEF ChanIdxNb
  <2>2. RangeTable(chan, prf) = Range25cm64PRFnb[ChanIdxNb[chan] + 1]
    BY <1>4 DEF RangeTable, WideBand
  <2>3. Orderly(RangeTable(chan, prf), 26)
    BY ONLY <2>1, <2>2, Range25cm64PRFnbOrderly
  <2> QED BY <2>3
<1> QED BY <1>1, <1>2, <1>3, <1>4

\* The loop of dwt_getrangebias stops at the first entry that is not exceeded.
LEMMA FirstNotExceeded ==
  ASSUME NEW n \in Nat \ {0}, NEW t, Orderly(t, n), NEW r \in Int, r <= 255
  PROVE  /\ IndexOf(t, r) \in Nat /\ IndexOf(t, r) + 1 \in 1 .. n /\ r <= t[IndexOf(t, r) + 1]
         /\ \A i \in 1 .. n : t[i] < r <=> i < IndexOf(t, r) + 1
<1>0. /\ DOMAIN t = 1 .. n /\ t[n] = 255
      /\ \A i \in 1 .. n : t[i] \in Nat
      /\ \A i \in 1 .. n - 1 : t[i] <= t[i + 1]
  BY DEF Orderly
<1> DEFINE N == {i \in 1 .. n : r <= t[i]}
<1>1. n \in N /\ N \in SUBSET Nat
  BY <1>0
<1>2. PICK m \in N : \A i \in N : m <= i
  <2> HIDE DEF N
  <2> QED BY <1>1, Least
<1>3. IndexOf(t, r) = m - 1
  <2>1. Min(N) = m
    <3>1. Min(N) \in N /\ \A i \in N : Min(N) <= i
      <4> HIDE DEF N
      <4> QED BY <1>2 DEF Min
    <3> QED BY <1>2, <3>1
  <2>2. N = {i \in DOMAIN t : r <= t[i]}
    BY <1>0
  <2> HIDE DEF N
  <2> QED BY <2>1, <2>2 DEF IndexOf
<1>4. m \in 1 .. n /\ r <= t[m]
  OBVIOUS
<1>5. ASSUME NEW i \in 1 .. n, i < m PROVE t[i] < r
  <2>1. i \notin N
    BY <1>2, <1>5
  <2> QED BY <1>0, <2>1
<1>6. ASSUME NEW i \in 1 .. n, i >= m PROVE ~(t[i] < r)
  <2> DEFINE Low == {k \in m .. n : t[k] < r}
  <2>1. Low \in SUBSET Nat
    OBVIOUS
  <2>2. CASE Low = {}
    BY <1>4, <1>6, <2>2
  <2>3. CASE Low # {}
    <3>1. PICK k \in Low : \A l \in Low : k <= l
      <4> HIDE DEF Low
      <4> QED BY <2>1, <2>3, Least
    <3>2. k \in m .. n /\ t[k] < r
      OBVIOUS
    <3>3. k # m
      BY <1>0, <1>4, <3>2
    <3>4. k - 1 \in m .. n /\ k - 1 \in 1 .. n - 1 /\ k - 1 \notin Low
      BY <1>4, <3>1, <3>2, <3>3
    <3>5. t[k - 1] <= t[(k - 1) + 1] /\ (k - 1) + 1 = k
      BY <1>0, <3>2, <3>4
    <3>6. t[k - 1] \in Nat /\ t[k] \in Nat
      BY <1>0, <1>4, <3>2, <3>4
    <3> QED BY <3>2, <3>4, <3>5, <3>6
  <2> QED BY <2>2, <2>3
<1> HIDE DEF N
<1> QED BY <1>3, <1>4, <1>5, <1>6

\* How often a distance is in a table.
Occurrences(t, r) == Cardinality({i \in DOMAIN t : t[i] = r})

\* One unit farther the loop passes what equals the distance.
LEMMA PassedByOneUnit ==
  ASSUME NEW n \in Nat \ {0}, NEW t, Orderly(t, n), NEW r \in Int, r < 255
  PROVE  LET growth == IndexOf(t, r + 1) - IndexOf(t, r)
         IN  growth \in 0 .. 3 /\ growth = Occurrences(t, r)
<1> DEFINE a == IndexOf(t, r) + 1
           b == IndexOf(t, r + 1) + 1
<1>0. DOMAIN t = 1 .. n /\ \A i \in 1 .. n : t[i] \in Nat
  BY DEF Orderly
<1>1. /\ a \in 1 .. n
      /\ \A i \in 1 .. n : t[i] < r <=> i < a
  BY FirstNotExceeded
<1>2. /\ b \in 1 .. n
      /\ \A i \in 1 .. n : t[i] < r + 1 <=> i < b
  BY FirstNotExceeded
<1>3. IndexOf(t, r + 1) - IndexOf(t, r) = b - a
  <2>1. IndexOf(t, r + 1) \in Int /\ IndexOf(t, r) \in Int
    BY FirstNotExceeded
  <2> QED BY <2>1
<1> HIDE DEF a, b
<1>4. a <= b
  BY <1>0, <1>1, <1>2
<1>5. ASSUME NEW i \in 1 .. n PROVE t[i] = r <=> i \in a .. b - 1
  <2>1. t[i] \in Nat /\ (t[i] < r <=> i < a) /\ (t[i] < r + 1 <=> i < b)
    BY <1>0, <1>1, <1>2
  <2>2. t[i] = r <=> ~(t[i] < r) /\ t[i] < r + 1
    BY <2>1
  <2> QED BY <1>1, <1>2, <2>1, <2>2
<1>6. {i \in DOMAIN t : t[i] = r} = a .. b - 1
  BY <1>0, <1>1, <1>2, <1>5
<1>7. Cardinality(a .. b - 1) = b - a
  BY <1>1, <1>2, <1>4, FS_Interval
<1>8. b - a <= 3
  <2> SUFFICES ASSUME b - a > 3 PROVE FALSE
    BY <1>1, <1>2
  <2>1. a \in 1 .. n - 3 /\ a \in a .. b - 1 /\ a + 3 \in a .. b - 1 /\ a + 3 \in 1 .. n
    BY <1>1, <1>2
  <2>2. t[a] = r /\ t[a + 3] = r
    BY <1>5, <2>1
  <2>3. t[a] < 255 => t[a] < t[a + 3]
    BY <2>1 DEF Orderly
  <2> QED BY <2>2, <2>3
<1>9. b - a \in 0 .. 3
  BY <1>1, <1>2, <1>4, <1>8
<1> QED BY <1>3, <1>6, <1>7, <1>9 DEF Occurrences

\* What CorrectionKeepsOrder says of a distance.
GrowsWithDistance(chan, prf, range) ==
  LET growth == GetRangeBias(chan, prf, range + 1) - GetRangeBias(chan, prf, range)
  IN  /\ GetRangeBias(chan, prf, range) \in Int
      /\ range < 255 => growth = Occurrences(RangeTable(chan, prf), range)
      /\ growth \in 0 .. 24

\* It holds of every distance: beyond the last entry dwt_getrangebias stops growing.
LEMMA CorrectionGrows ==
  ASSUME NEW chan \in {1, 2, 3, 4, 5, 7}, NEW prf \in {16, 64}, NEW range \in Int
  PROVE  GrowsWithDistance(chan, prf, range)
<1> DEFINE table == RangeTable(chan, prf)
           f(r) == IndexOf(table, r)
           c == CmOffset(chan, prf)
<1>1. PICK n \in Nat \ {0} : Orderly(table, n)
  BY TablesAreOrderly
<1>2. c \in Int
  BY DEF CmOffset, WideBand
<1> HIDE DEF table, c
<1>3. ASSUME NEW r \in Int, r <= 255 PROVE f(r) \in Int
  BY <1>1, <1>3, FirstNotExceeded
<1>4. CASE range < 255
  <2>1. /\ GetRangeBias(chan, prf, range) = f(range) + c
        /\ GetRangeBias(chan, prf, range + 1) = f(range + 1) + c
    BY <1>4 DEF GetRangeBias, table, c
  <2>2. f(range) \in Int /\ f(range + 1) \in Int
    BY <1>3, <1>4
  <2>3. /\ f(range + 1) - f(range) \in 0 .. 3
        /\ f(range + 1) - f(range) = Occurrences(table, range)
    BY <1>1, <1>4, PassedByOneUnit
  <2>4. (f(range + 1) + c) - (f(range) + c) = f(range + 1) - f(range)
    BY <1>2, <2>2
  <2> QED BY <1>2, <2>1, <2>2, <2>3, <2>4 DEF table, GrowsWithDistance
<1>5. CASE range >= 255
  <2>1. /\ GetRangeBias(chan, prf, range) = f(255) + c
        /\ GetRangeBias(chan, prf, range + 1) = f(255) + c
    BY <1>5 DEF GetRangeBias, table, c
  <2>2. f(255) \in Int
    BY <1>3
  <2> QED BY <1>2, <1>5, <2>1, <2>2 DEF GrowsWithDistance
<1> QED BY <1>4, <1>5

-----------------------------------------------------------------------------
(***************************************************************************)
(* Types, and what each calculation returns.                               *)
(***************************************************************************)
\* The counts at each temperature are as the search needs them.
LEMMA CountsTyped ==
  ASSUME NEW t \in DOMAIN PgCounts
  PROVE  Falling(PgCounts[t]) /\ \A d \in PgDelays : PgCounts[t][d] \in Nat
<1>1. Falling(PgCounts[t])
  BY CountsAssumption DEF CountsFall, Falling
<1>2. ASSUME NEW d \in PgDelays PROVE PgCounts[t][d] \in Nat
  <2>1. d \in 128 .. 255
    <3>1. PgDelays \subseteq 129 .. 255
      BY CountsAssumption DEF CountsFall
    <3> QED BY <3>1
  <2> QED BY <2>1, CountsAssumption DEF CountsFall
<1> QED BY <1>1, <1>2

\* The tables by channel have the channel's own entry.
LEMMA EntryOfChannel ==
  ASSUME NEW chan \in {1, 2, 3, 4, 5, 7}
  PROVE  EntryFor(chan) = NameOf(chan) /\ EntryFor(chan) \in Entries
BY DEF EntryFor, PerChannel, ChanIdx, NameOf, Entries

\* What dwt_configure writes agrees, whatever was there before.
LEMMA ConfiguredAgrees ==
  ASSUME NEW c \in Configurations, NEW before \in Tunings \cup {NoTuning}
  PROVE  Configured(c, before) \in Tunings /\ Agree(Configured(c, before), c)
<1> DEFINE new == Configured(c, before)
<1>1. /\ c.chan \in {1, 2, 3, 4, 5, 7} /\ c.prf \in {16, 64}
      /\ c.dataRate \in {"110K", "850K", "6M8"}
      /\ c.plen \in Nat /\ c.pac \in Nat /\ c.nsSfd \in BOOLEAN /\ c.txCode \in Nat
      /\ c.rxCode \in Nat /\ c.sfdTO \in Nat
  BY DEF Configurations
<1>2. /\ before.tune4h \in {"PRE64", "PRE128PLUS"} /\ before.gear \in {"DEF", "64L"}
      /\ before.usrSfd \in Rates \cup {"none"}
  BY DEF Tunings, NoTuning
<1>3. /\ new.ldeRepc = ReplicaCoeff(c) /\ new.ldeCfg2 = c.prf
      /\ new.fsPllCfg = EntryFor(c.chan) /\ new.fsPllTune = EntryFor(c.chan)
      /\ new.rxCtrlH = RxConfig[IF IsWide(c.chan) THEN 2 ELSE 1]
      /\ new.txCtrl = EntryFor(c.chan) /\ new.tune0b = <<c.dataRate, c.nsSfd>>
      /\ new.tune1a = c.prf /\ new.tune1b = Tune1b(c) /\ new.tune4h = Tune4h(c, before.tune4h)
      /\ new.tune2 = <<c.prf, c.pac>> /\ new.sfdTO = (IF c.sfdTO = 0 THEN 4161 ELSE c.sfdTO)
      /\ new.agc = c.prf /\ new.usrSfd = (IF c.nsSfd THEN c.dataRate ELSE before.usrSfd)
      /\ new.chanCtrl = ChanCtrl(c) /\ new.txFctrl = <<c.plen, c.prf, c.dataRate>>
      /\ new.gear = before.gear
  BY DEF Configured
<1>4. EntryFor(c.chan) = NameOf(c.chan) /\ EntryFor(c.chan) \in Entries
  BY <1>1, EntryOfChannel
<1>5. new.rxCtrlH \in {"NBW", "WBW"} /\ (new.rxCtrlH = "WBW" <=> c.chan \in {4, 7})
  BY <1>3 DEF RxConfig, IsWide
<1>6. /\ ReplicaCoeff(c) \in [code : Nat, shift : {0, 3}] /\ ReplicaCoeff(c).code = c.rxCode
      /\ ReplicaCoeff(c).shift = 3 <=> c.dataRate = "110K"
  BY <1>1 DEF ReplicaCoeff
<1>7. /\ Tune1b(c) \in {"110K", "6M8_PRE64", "850K_6M8"}
      /\ Tune1b(c) = "110K" <=> c.dataRate = "110K"
  BY <1>1 DEF Tune1b
<1>8. Tune4h(c, before.tune4h) \in {"PRE64", "PRE128PLUS"}
  BY <1>2 DEF Tune4h
<1>9. /\ ChanCtrl(c) \in [chan : Nat, prf : {16, 64}, txCode : Nat, rxCode : Nat,
                        ownSfd : BOOLEAN]
      /\ ChanCtrl(c).chan = c.chan /\ ChanCtrl(c).prf = c.prf /\ ChanCtrl(c).rxCode = c.rxCode
      /\ ChanCtrl(c).ownSfd = c.nsSfd
  BY <1>1 DEF ChanCtrl
<1>10. new \in Tunings
  <2>1. new = [ldeRepc |-> new.ldeRepc, ldeCfg2 |-> new.ldeCfg2, fsPllCfg |-> new.fsPllCfg,
               fsPllTune |-> new.fsPllTune, rxCtrlH |-> new.rxCtrlH, txCtrl |-> new.txCtrl,
               tune0b |-> new.tune0b, tune1a |-> new.tune1a, tune1b |-> new.tune1b,
               tune4h |-> new.tune4h, tune2 |-> new.tune2, sfdTO |-> new.sfdTO, agc |-> new.agc,
               usrSfd |-> new.usrSfd, chanCtrl |-> new.chanCtrl, txFctrl |-> new.txFctrl,
               gear |-> new.gear]
    BY DEF Configured
  <2> HIDE DEF new
  <2>2. new.tune0b \in Rates \X BOOLEAN /\ new.tune2 \in Prfs \X Nat
        /\ new.txFctrl \in Nat \X Prfs \X Rates
    BY <1>1, <1>3 DEF Rates, Prfs
  <2>3. new.usrSfd \in Rates \cup {"none"} /\ new.sfdTO \in Nat
    BY <1>1, <1>2, <1>3 DEF Rates
  <2>4. /\ new.ldeCfg2 \in Prfs /\ new.tune1a \in Prfs /\ new.agc \in Prfs
        /\ new.chanCtrl \in [chan : Nat, prf : Prfs, txCode : Nat, rxCode : Nat,
                          ownSfd : BOOLEAN]
    BY <1>1, <1>3, <1>9 DEF Prfs
  <2> QED BY <1>2, <1>3, <1>4, <1>5, <1>6, <1>7, <1>8, <2>1, <2>2, <2>3, <2>4 DEF Tunings
<1>11. Agree(new, c)
  <2> HIDE DEF new
  <2>1. {new.fsPllCfg, new.fsPllTune, new.txCtrl} = {NameOf(c.chan)}
    BY <1>3, <1>4
  <2>2. NameOf(c.chan) \in {"CH4", "CH7"} <=> c.chan \in {4, 7}
    BY <1>1 DEF NameOf
  <2>3. new.rxCtrlH = "WBW" <=> new.fsPllCfg \in {"CH4", "CH7"}
    BY <1>3, <1>4, <1>5, <2>2
  <2>4. new.tune2[1] = c.prf /\ new.txFctrl[2] = c.prf /\ new.tune0b[1] = c.dataRate
        /\ new.txFctrl[3] = c.dataRate
    BY <1>3
  <2>5. {new.ldeCfg2, new.tune1a, new.agc, new.tune2[1], new.txFctrl[2]} = {new.chanCtrl.prf}
    BY <1>3, <1>9, <2>4
  <2>6. new.chanCtrl.chan = c.chan /\ new.chanCtrl.prf = c.prf
        /\ new.ldeRepc.code = new.chanCtrl.rxCode
    BY <1>3, <1>6, <1>9
  <2>7. {new.tune0b[1], new.txFctrl[3]} = {c.dataRate}
    BY <2>4
  <2>8. (new.tune1b = "110K") <=> (new.ldeRepc.shift = 3)
    BY <1>3, <1>6, <1>7
  <2>9. new.chanCtrl.ownSfd => new.usrSfd = new.txFctrl[3]
    BY <1>3, <1>9, <2>4
  <2> QED BY <2>1, <2>3, <2>5, <2>6, <2>7, <2>8, <2>9 DEF Agree
<1> QED BY <1>10, <1>11

\* What the search and the average of counts return.
LEMMA MeasuredIsRight ==
  ASSUME calc \in Calculations, EndMeasuring
  PROVE  calc' \in Calculations /\ CalculationsHold'
<1>1. calc.fn = "measuring" /\ calc' \in Measured
  BY DEF EndMeasuring
<1>2. CASE calc.for = "count"
  <2>1. calc.count \in Nat
    BY <1>1, <1>2 DEF Calculations, NoCalc
  <2>2. PICK sum \in NumSamples * (calc.count - 1) .. NumSamples * (calc.count + 1) :
          calc' = [fn |-> "count", count |-> calc.count, result |-> sum \div NumSamples]
    BY <1>1, <1>2 DEF Measured
  <2>3. sum \div NumSamples \in calc.count - 1 .. calc.count + 1
    BY <2>1, AverageIsClose, CountsAssumption DEF CountsFall
  <2>4. calc' \in Calculations
    <3>1. sum \div NumSamples \in Int
      BY <2>1, <2>3
    <3> QED BY <2>1, <2>2, <3>1 DEF Calculations
  <2>5. calc'.fn = "count" /\ calc'.count = calc.count /\ calc'.result = sum \div NumSamples
    BY <2>2
  <2> QED
    BY <2>3, <2>4, <2>5 DEF CalculationsHold, BandwidthRestored, PowerAdjusted,
                            CorrectionKeepsOrder, TemperatureSurvives
<1>3. CASE calc.for # "count"
  <2>1. calc.temp \in DOMAIN PgCounts /\ calc.target \in Nat
    BY <1>1, <1>3 DEF Calculations, NoCalc
  <2> DEFINE bw == BandwidthSearch(PgCounts[calc.temp], calc.target)
  <2>2. calc' = [fn |-> "bandwidth", temp |-> calc.temp, target |-> calc.target, result |-> bw]
    BY <1>1, <1>3 DEF Measured
  <2>3. bw \in 0 .. 255 /\ IsClosest(PgCounts[calc.temp], calc.target, bw)
    BY <2>1, CountsTyped, SearchFindsClosest
  <2> HIDE DEF bw
  <2>4. calc' \in Calculations
    BY <2>1, <2>2, <2>3 DEF Calculations
  <2>5. /\ calc'.fn = "bandwidth" /\ calc'.temp = calc.temp /\ calc'.target = calc.target
        /\ calc'.result = bw
    BY <2>2
  <2> QED
    BY <2>3, <2>4, <2>5 DEF CalculationsHold, BandwidthRestored, PowerAdjusted,
                            CorrectionKeepsOrder, TemperatureSurvives
<1> QED BY <1>2, <1>3

\* What dwt_calcpowertempadj returns.
LEMMA AdjustedIsRight ==
  ASSUME AdjustPower
  PROVE  calc' \in Calculations /\ UNCHANGED <<registers, saved, asked>> /\ CalculationsHold'
<1>1. PICK byte \in PowerBytes, delta \in DeltaTemps :
        Calculate([fn |-> "power", byte |-> byte, adj |-> PowerAdj(asked.config.chan, delta),
                 result |-> CalcPowerTempAdj(asked.config.chan, byte, delta)])
  BY DEF AdjustPower
<1> DEFINE adj == PowerAdj(asked.config.chan, delta)
           result == CalcPowerTempAdj(asked.config.chan, byte, delta)
<1>2. byte \in 0 .. 255 /\ delta \in Int
  BY ArgumentsAssumption, TempsAssumption DEF ArgumentsTyped, TempsConvertible
<1>3. adj \in Int
  <2>1. TempCompFactor(asked.config.chan) \in Int
    BY DEF TempCompFactor
  <2>2. delta * TempCompFactor(asked.config.chan) \in Int
    BY <1>2, <2>1
  <2> QED BY <2>2, TruncatedBounds DEF PowerAdj
<1>4. /\ adj = 0 => result = byte
      /\ adj # 0 => result = ComputeTxPowerSetting(byte, adj)
  BY DEF CalcPowerTempAdj
<1>5. calc' = [fn |-> "power", byte |-> byte, adj |-> adj, result |-> result]
      /\ UNCHANGED <<registers, saved, asked>>
  BY <1>1 DEF Calculate
<1> HIDE DEF adj, result
<1>6. /\ result \in 0 .. 255
      /\ adj # 0 /\ WithinAttenuator(byte, adj)
           => Power(result) = Power(byte) + adj /\ MixerGain(result) \in 4 .. 20
  <2>1. CASE adj = 0
    BY <1>2, <1>4, <2>1
  <2>2. CASE adj # 0
    <3>1. result = ComputeTxPowerSetting(byte, adj)
      BY <1>4, <2>2
    <3> QED BY <1>2, <1>3, <3>1, PowerAfterAdjustment
  <2> QED BY <2>1, <2>2
<1>7. calc' \in Calculations
  <2>1. calc' \in [fn : {"power"}, byte : 0 .. 255, adj : Int, result : 0 .. 255]
    BY <1>2, <1>3, <1>5, <1>6
  <2> QED BY <2>1 DEF Calculations
<1>8. calc'.fn = "power" /\ calc'.byte = byte /\ calc'.adj = adj /\ calc'.result = result
  BY <1>5
<1>9. PowerAdjusted'
  BY <1>4, <1>6, <1>8 DEF PowerAdjusted
<1> QED
  BY <1>5, <1>7, <1>8, <1>9 DEF CalculationsHold, BandwidthRestored, CorrectionKeepsOrder,
                                TemperatureSurvives

\* What dwt_getrangebias returns.
LEMMA CorrectedIsRight ==
  ASSUME asked \in Requests, CorrectRange
  PROVE  calc' \in Calculations /\ UNCHANGED <<registers, saved, asked>> /\ CalculationsHold'
<1>1. PICK range \in Distances :
        Calculate([fn |-> "bias", range |-> range,
                 result |-> GetRangeBias(asked.config.chan, asked.config.prf, range)])
  BY DEF CorrectRange
<1> DEFINE ch == asked.config.chan
           prf == asked.config.prf
           result == GetRangeBias(ch, prf, range)
<1>2. /\ asked.config # NoConfig /\ UNCHANGED <<registers, saved, asked>>
      /\ calc' = [fn |-> "bias", range |-> range, result |-> result]
  BY <1>1 DEF Calculate
<1>3. ch \in {1, 2, 3, 4, 5, 7} /\ prf \in {16, 64} /\ range \in Int
  BY <1>2, ArgumentsAssumption DEF ArgumentsTyped, Configurations, Requests
<1>4. calc'.fn = "bias" /\ calc'.range = range /\ calc'.result = result /\ asked' = asked
  BY <1>2
<1> HIDE DEF ch, prf, result
<1>5. /\ result \in Int
      /\ range < 255 => GetRangeBias(ch, prf, range + 1) - result
                        = Occurrences(RangeTable(ch, prf), range)
      /\ GetRangeBias(ch, prf, range + 1) - result \in 0 .. 24
  <2>1. GrowsWithDistance(ch, prf, range)
    BY <1>3, CorrectionGrows
  <2> QED BY <2>1 DEF GrowsWithDistance, result
<1>6. calc' \in Calculations
  BY <1>2, <1>3, <1>5 DEF Calculations
<1>7. CorrectionKeepsOrder'
  BY <1>4, <1>5 DEF CorrectionKeepsOrder, Occurrences, ch, prf
<1> QED
  BY <1>2, <1>4, <1>6, <1>7 DEF CalculationsHold, BandwidthRestored, PowerAdjusted,
                                TemperatureSurvives

\* What dwt_convertrawtemperature and dwt_convertdegtemptoraw return one after the other.
LEMMA ConvertedIsRight ==
  ASSUME ConvertTemperature
  PROVE  calc' \in Calculations /\ UNCHANGED <<registers, saved, asked>> /\ CalculationsHold'
<1>1. PICK delta \in DeltaTemps, tempP \in RoomTemps :
        /\ tempP + delta \in 0 .. 255
        /\ Calculate([fn |-> "temperature", raw |-> tempP + delta,
                    result |-> DegTempToRaw(RawToTenths(tempP + delta, tempP), tempP)])
  BY DEF ConvertTemperature
<1> DEFINE result == DegTempToRaw(RawToTenths(tempP + delta, tempP), tempP)
<1>2. tempP \in 0 .. 255 /\ delta \in -90 .. 111
  BY ArgumentsAssumption, TempsAssumption DEF ArgumentsTyped, TempsConvertible
<1>3. result \in 0 .. 255 /\ Abs(result - (tempP + delta)) <= 3
  BY <1>1, <1>2, TemperatureThereAndBack
<1>4. calc' = [fn |-> "temperature", raw |-> tempP + delta, result |-> result]
      /\ UNCHANGED <<registers, saved, asked>>
  BY <1>1 DEF Calculate
<1> HIDE DEF result
<1>5. calc' \in Calculations
  BY <1>1, <1>3, <1>4 DEF Calculations
<1>6. calc'.fn = "temperature" /\ calc'.raw = tempP + delta /\ calc'.result = result
  BY <1>4
<1> QED
  BY <1>3, <1>4, <1>5, <1>6 DEF CalculationsHold, BandwidthRestored, PowerAdjusted,
                                CorrectionKeepsOrder, TemperatureSurvives

\* The chip after a reset has nothing asked of it but its microcode.
LEMMA InitialSettings == SettingsInit => SettingsTyped /\ SettingsInv
<1> SUFFICES ASSUME SettingsInit PROVE SettingsTyped /\ SettingsInv
  OBVIOUS
<1>1. asked = [leds |-> FALSE, lnaPa |-> {}, gpioClocks |-> FALSE, sniff |-> "off",
               sleepAfterTx |-> FALSE, listening |-> FALSE, lde |-> TRUE, test |-> FALSE,
               config |-> NoConfig, pre64 |-> FALSE, gear64 |-> FALSE]
  BY DEF SettingsInit, NothingAsked
<1>2. /\ pmsc0 = {9} \cup SoftResetBits /\ pmsc1 = PktSeq \cup {LDERUNE}
      /\ gpio = [p \in Pins |-> 0]
      /\ ledc = FALSE /\ sniff = FALSE /\ rfConf = "auto"
      /\ tuning = NoTuning /\ saved = NoneSaved /\ calc = NoCalc
  BY DEF SettingsInit, Sequenced
<1>3. SettingsTyped
  <2>1. asked \in Requests
    BY ONLY <1>1 DEF Requests
  <2>2. tuning \in IF asked.config = NoConfig THEN {NoTuning} ELSE Tunings
    BY ONLY <1>1, <1>2
  <2>3. calc \in Calculations
    BY ONLY <1>2 DEF Calculations
  <2>4. saved \in [pmsc0 : SUBSET (0 .. 7), pmsc1 : SUBSET (0 .. 15),
                   rfConf : {"auto", "cal", "txall"}]
    BY ONLY <1>2 DEF NoneSaved
  <2>5. pmsc0 \subseteq 0 .. 31 /\ pmsc1 \subseteq 0 .. 31
    BY ONLY <1>2 DEF SoftResetBits, PktSeq, LDERUNE
  <2>6. gpio \in [Pins -> 0 .. 1]
    BY ONLY <1>2
  <2>7. ledc \in BOOLEAN /\ sniff \in BOOLEAN /\ rfConf \in {"auto", "cal", "txall"}
    BY ONLY <1>2
  <2> QED BY ONLY <2>1, <2>2, <2>3, <2>4, <2>5, <2>6, <2>7 DEF SettingsTyped
<1>4. UntouchedAsAsked /\ ClocksAsAsked
  <2>1. PinsAsAsked
    BY ONLY <1>1, <1>2 DEF PinsAsAsked, PinsOf
  <2>2. SniffAsAsked
    BY ONLY <1>1, <1>2 DEF SniffAsAsked, PLL2_SEQ_EN, SoftResetBits
  <2>3. TuningAsAsked
    BY ONLY <1>1, <1>2 DEF TuningAsAsked, NoTuning
  <2>4. Bits(pmsc0, 0, 15) = Sequenced /\ Bits(pmsc0, 8, 15) = Sequenced
    BY ONLY <1>2 DEF Bits, Sequenced, SoftResetBits
  <2>5. LDERUNE \in pmsc1 <=> asked.lde
    BY ONLY <1>1, <1>2
  <2> QED BY ONLY <1>1, <1>2, <2>1, <2>2, <2>3, <2>4, <2>5
          DEF UntouchedAsAsked, ClocksAsAsked
<1>5. SequencerAsAsked
  BY ONLY <1>1, <1>2
  DEF SequencerAsAsked, SleepsAsAsked, PktSeq, LDERUNE, ATXSLP, ARXSLP, SNOZE
<1> QED
  BY ONLY <1>1, <1>2, <1>3, <1>4, <1>5 DEF SettingsInv, NoCalc

\* Every call keeps the variables in their types.
LEMMA SettingsTypeStep ==
  ASSUME SettingsTyped, [SettingsNext]_settingVars
  PROVE  SettingsTyped'
<1> DEFINE Registers == SUBSET (0 .. 31)
           TuningsOf(config) == IF config = NoConfig THEN {NoTuning} ELSE Tunings
           RfConfs == {"auto", "cal", "txall"}
           SavedValues == [pmsc0 : SUBSET (0 .. 7), pmsc1 : SUBSET (0 .. 15), rfConf : RfConfs]
<1>0. /\ pmsc0 \in Registers /\ pmsc1 \in Registers /\ gpio \in [Pins -> 0 .. 1]
      /\ ledc \in BOOLEAN /\ sniff \in BOOLEAN /\ rfConf \in RfConfs
      /\ asked \in Requests /\ tuning \in TuningsOf(asked.config)
      /\ saved \in SavedValues /\ calc \in Calculations
  BY DEF SettingsTyped
<1> SUFFICES /\ pmsc0' \in Registers /\ pmsc1' \in Registers /\ gpio' \in [Pins -> 0 .. 1]
             /\ ledc' \in BOOLEAN /\ sniff' \in BOOLEAN /\ rfConf' \in RfConfs
             /\ asked' \in Requests /\ tuning' \in TuningsOf(asked.config')
             /\ saved' \in SavedValues /\ calc' \in Calculations
  BY DEF SettingsTyped
<1>c. ASSUME NEW reg \in Registers,
             NEW w \in {"FORCE_SYS_XTI", "FORCE_SYS_PLL", "FORCE_TX_PLL"}
      PROVE  EnableClocks(reg, w) \in Registers
  BY DEF EnableClocks
<1>w. ASSUME NEW reg \in Registers, NEW first \in Nat, NEW last \in Nat,
             NEW bits \in Registers
      PROVE  Write(reg, first, last, bits) \in Registers
  BY DEF Write
<1>s. ASSUME NEW reg \in Registers, NEW bits \in Registers, NEW enable \in BOOLEAN
      PROVE  Switched(reg, bits, enable) \in Registers
  BY DEF Switched
<1>b. /\ Sequenced \cup SoftResetBits \in Registers /\ SoftResetBits \in Registers
      /\ PktSeq \in Registers /\ {LDERUNE} \in Registers /\ {PLL2_SEQ_EN} \in Registers
      /\ {ATXSLP} \in Registers /\ {ARXSLP, SNOZE} \in Registers
      /\ {GPDCE, KHZCLEN} \in Registers /\ {GPCE, GPRN} \in Registers
  BY DEF Sequenced, SoftResetBits, PktSeq, LDERUNE, PLL2_SEQ_EN, ATXSLP, ARXSLP, SNOZE, GPDCE,
         KHZCLEN, GPCE, GPRN
<1>m. ASSUME NEW pins, NEW mode \in 0 .. 1 PROVE SetModes(pins, mode) \in [Pins -> 0 .. 1]
  BY <1>0 DEF SetModes
<1>n. NoCalc \in Calculations
  BY DEF Calculations
<1> HIDE DEF Registers, TuningsOf, SavedValues, RfConfs
<1>1. CASE SoftReset
  <2>1. PICK loaded \in BOOLEAN :
          /\ pmsc0' = Sequenced \cup SoftResetBits
          /\ pmsc1' = Switched(PktSeq, {LDERUNE}, loaded)
          /\ gpio' = [p \in Pins |-> 0]
          /\ ledc' = FALSE /\ sniff' = FALSE /\ rfConf' = "auto" /\ tuning' = NoTuning
          /\ asked' = [NothingAsked EXCEPT !.lde = loaded]
          /\ saved' = saved /\ calc' = calc
    BY <1>1 DEF SoftReset
  <2>2. asked' = [leds |-> FALSE, lnaPa |-> {}, gpioClocks |-> FALSE, sniff |-> "off",
                  sleepAfterTx |-> FALSE, listening |-> FALSE, lde |-> loaded, test |-> FALSE,
                  config |-> NoConfig, pre64 |-> FALSE, gear64 |-> FALSE]
    BY <2>1 DEF NothingAsked
  <2>3. asked' \in Requests /\ asked'.config = NoConfig
    BY ONLY <2>2 DEF Requests
  <2>4. gpio' \in [Pins -> 0 .. 1]
    BY ONLY <2>1
  <2>5. pmsc1' \in Registers
    BY <1>b, <1>s, <2>1
  <2>6. rfConf' \in RfConfs /\ tuning' \in TuningsOf(asked'.config)
    BY <2>1, <2>3 DEF RfConfs, TuningsOf
  <2> QED BY ONLY <1>0, <1>b, <2>1, <2>3, <2>4, <2>5, <2>6
<1>a. ASSUME NEW field \in {"leds", "gpioClocks", "sleepAfterTx", "listening", "lde", "test",
                            "pre64", "gear64"}, NEW value \in BOOLEAN,
             asked' = [asked EXCEPT ![field] = value]
      PROVE  asked' \in Requests /\ asked'.config = asked.config
  BY <1>0, <1>a DEF Requests
<1>2. CASE SetLeds
  <2>1. PICK enable \in BOOLEAN :
          /\ asked' = [asked EXCEPT !["leds"] = enable]
          /\ gpio' = SetModes(LedPins, IF enable THEN 1 ELSE 0)
          /\ pmsc0' = IF enable THEN pmsc0 \cup {GPDCE, KHZCLEN} ELSE pmsc0
          /\ ledc' = (ledc \/ enable)
    BY <1>2 DEF SetLeds, Ask
  <2>2. UNCHANGED <<pmsc1, sniff, rfConf, tuning, saved, calc>>
    BY <1>2 DEF SetLeds
  <2>3. asked' \in Requests /\ asked'.config = asked.config
    BY <1>a, <2>1
  <2>4. gpio' \in [Pins -> 0 .. 1]
    BY <1>m, <2>1
  <2>5. pmsc0' \in Registers
    BY <1>0, <1>b, <2>1 DEF Registers
  <2>6. ledc' \in BOOLEAN
    BY <2>1
  <2> QED BY <1>0, <2>2, <2>3, <2>4, <2>5, <2>6
<1>3. CASE SetLnaPaMode
  <2>1. PICK mode \in LnaPaModes :
          /\ asked' = [asked EXCEPT !["lnaPa"] = mode]
          /\ gpio' = [p \in Pins |-> IF p \in LedPins THEN gpio[p]
                                  ELSE IF p \in PinsOf(mode) THEN 1 ELSE 0]
    BY <1>3 DEF SetLnaPaMode, Ask
  <2>2. UNCHANGED <<pmsc0, pmsc1, ledc, sniff, rfConf, tuning, saved, calc>>
    BY <1>3 DEF SetLnaPaMode
  <2>3. mode \in SUBSET {"LNA", "PA"}
    BY <2>1, ArgumentsAssumption DEF ArgumentsTyped
  <2>4. asked' \in Requests /\ asked'.config = asked.config
    BY <1>0, <2>1, <2>3 DEF Requests
  <2>5. gpio' \in [Pins -> 0 .. 1]
    BY <1>0, <2>1
  <2> QED BY <1>0, <2>2, <2>4, <2>5
<1>4. CASE EnableGpioClocks
  <2>1. /\ asked' = [asked EXCEPT !["gpioClocks"] = TRUE]
        /\ pmsc0' = pmsc0 \cup {GPCE, GPRN}
        /\ UNCHANGED <<pmsc1, gpio, ledc, sniff, rfConf, tuning, saved, calc>>
    BY <1>4 DEF EnableGpioClocks, Ask
  <2>2. asked' \in Requests /\ asked'.config = asked.config
    BY <1>a, <2>1
  <2>3. pmsc0' \in Registers
    BY <1>0, <1>b, <2>1 DEF Registers
  <2> QED BY <1>0, <2>1, <2>2, <2>3
<1>5. CASE SetSniffMode
  <2>1. PICK enable \in BOOLEAN :
          /\ asked' = [asked EXCEPT !["sniff"] = IF enable THEN "on" ELSE "off"]
          /\ sniff' = enable
          /\ pmsc0' = Switched(pmsc0, {PLL2_SEQ_EN}, enable)
    BY <1>5 DEF SetSniffMode, Ask
  <2>2. UNCHANGED <<pmsc1, gpio, ledc, rfConf, tuning, saved, calc>>
    BY <1>5 DEF SetSniffMode
  <2>3. asked' \in Requests /\ asked'.config = asked.config
    BY <1>0, <2>1 DEF Requests
  <2>4. pmsc0' \in Registers
    BY <1>0, <1>b, <1>s, <2>1
  <2> QED BY <1>0, <2>1, <2>2, <2>3, <2>4
<1>6. CASE EnterSleepAfterTx
  <2>1. PICK enable \in BOOLEAN : /\ asked' = [asked EXCEPT !["sleepAfterTx"] = enable]
                                  /\ pmsc1' = Switched(pmsc1, {ATXSLP}, enable)
    BY <1>6 DEF EnterSleepAfterTx, Ask
  <2>2. UNCHANGED <<pmsc0, gpio, ledc, sniff, rfConf, tuning, saved, calc>>
    BY <1>6 DEF EnterSleepAfterTx
  <2>3. asked' \in Requests /\ asked'.config = asked.config
    BY <1>a, <2>1
  <2>4. pmsc1' \in Registers
    BY <1>0, <1>b, <1>s, <2>1
  <2> QED BY <1>0, <2>2, <2>3, <2>4
<1>7. CASE SetLowPowerListening
  <2>1. PICK enable \in BOOLEAN : /\ asked' = [asked EXCEPT !["listening"] = enable]
                                  /\ pmsc1' = Switched(pmsc1, {ARXSLP, SNOZE}, enable)
    BY <1>7 DEF SetLowPowerListening, Ask
  <2>2. UNCHANGED <<pmsc0, gpio, ledc, sniff, rfConf, tuning, saved, calc>>
    BY <1>7 DEF SetLowPowerListening
  <2>3. asked' \in Requests /\ asked'.config = asked.config
    BY <1>a, <2>1
  <2>4. pmsc1' \in Registers
    BY <1>0, <1>b, <1>s, <2>1
  <2> QED BY <1>0, <2>2, <2>3, <2>4
<1>8. CASE RxReset
  <2>1. /\ asked' = [asked EXCEPT !["sniff"] = IF asked.sniff = "on" THEN "reset" ELSE asked.sniff]
        /\ pmsc0' = Write(Write(pmsc0, 24, 31, {29, 30, 31}), 24, 31, SoftResetBits)
        /\ UNCHANGED <<pmsc1, gpio, ledc, sniff, rfConf, tuning, saved, calc>>
    BY <1>8 DEF RxReset, Ask
  <2>2. asked' \in Requests /\ asked'.config = asked.config
    BY <1>0, <2>1 DEF Requests
  <2>3. {29, 30, 31} \in Registers
    BY DEF Registers
  <2>4. pmsc0' \in Registers
    BY <1>0, <1>b, <1>w, <2>1, <2>3
  <2> QED BY <1>0, <2>1, <2>2, <2>4
<1>9. CASE ConfigureChannel
  <2>1. PICK c \in Configs :
          /\ asked' = [asked EXCEPT !.config = c,
                          !.pre64 = IF c.dataRate = "110K" THEN @ ELSE c.plen = 64]
          /\ tuning' = Configured(c, tuning)
    BY <1>9 DEF ConfigureChannel
  <2>2. UNCHANGED <<pmsc0, pmsc1, gpio, ledc, sniff, rfConf, saved, calc>>
    BY <1>9 DEF ConfigureChannel
  <2>3. c \in Configurations /\ c # NoConfig
    BY <2>1, ArgumentsAssumption DEF ArgumentsTyped, Configurations, NoConfig
  <2>4. asked' \in Requests /\ asked'.config = c
    BY <1>0, <2>1 DEF Requests
  <2>5. tuning' \in Tunings
    BY <1>0, <2>1, <2>3, ConfiguredAgrees DEF TuningsOf
  <2> QED BY <1>0, <2>2, <2>3, <2>4, <2>5 DEF TuningsOf
<1>10. CASE ConfigureFor64Plen
  <2>1. /\ asked.config # NoConfig
        /\ asked' = [asked EXCEPT !["gear64"] = TRUE]
        /\ tuning' = For64Plen(asked.config.prf, tuning)
        /\ UNCHANGED <<pmsc0, pmsc1, gpio, ledc, sniff, rfConf, saved, calc>>
    BY <1>10 DEF ConfigureFor64Plen, Ask
  <2>2. asked' \in Requests /\ asked'.config = asked.config
    BY <1>a, <2>1
  <2>3. asked.config.prf \in {16, 64} /\ tuning \in Tunings
    BY <1>0, <2>1, ArgumentsAssumption DEF Requests, ArgumentsTyped, Configurations, TuningsOf
  <2>4. tuning' \in Tunings
    <3>1. <<asked.config.prf, 0>> \in Prfs \X Nat
      BY <2>3 DEF Prfs
    <3>2. tuning' = [tuning EXCEPT !.gear = "64L", !.tune2 = <<asked.config.prf, 0>>]
      BY <2>1 DEF For64Plen, UNCONF_SFD
    <3> QED BY <2>3, <3>1, <3>2 DEF Tunings
  <2> QED BY <1>0, <2>1, <2>2, <2>4 DEF TuningsOf
<1>11. CASE ConfigCwMode
  <2>1. /\ asked.config # NoConfig
        /\ asked' = [asked EXCEPT !["test"] = TRUE]
        /\ pmsc1' = NoSequencing(pmsc1)
        /\ tuning' = ForCw(asked.config.chan, tuning)
        /\ rfConf' = "txall"
        /\ pmsc0' = Write(EnableClocks(pmsc0, "FORCE_SYS_XTI"), 0, 15, {1, 5, 8, 9, 10})
        /\ UNCHANGED <<gpio, ledc, sniff, saved, calc>>
    BY <1>11 DEF ConfigCwMode, Ask
  <2>2. asked' \in Requests /\ asked'.config = asked.config
    BY <1>a, <2>1
  <2>3. asked.config.chan \in {1, 2, 3, 4, 5, 7} /\ tuning \in Tunings
    BY <1>0, <2>1, ArgumentsAssumption DEF Requests, ArgumentsTyped, Configurations, TuningsOf
  <2>4. tuning' \in Tunings
    <3>1. EntryFor(asked.config.chan) \in Entries
      BY <2>3, EntryOfChannel
    <3>2. ASSUME NEW t \in Tunings, NEW entry \in Entries
          PROVE  [t EXCEPT !.fsPllCfg = entry] \in Tunings
      BY DEF Tunings
    <3>3. ASSUME NEW t \in Tunings, NEW entry \in Entries
          PROVE  [t EXCEPT !.fsPllTune = entry] \in Tunings
      BY DEF Tunings
    <3>4. ASSUME NEW t \in Tunings, NEW entry \in Entries
          PROVE  [t EXCEPT !.txCtrl = entry] \in Tunings
      BY DEF Tunings
    <3> QED BY <2>1, <2>3, <3>1, <3>2, <3>3, <3>4 DEF ForCw
  <2>5. {1, 5, 8, 9, 10} \in Registers /\ {} \in Registers
    BY DEF Registers
  <2>6. pmsc0' \in Registers
    BY <1>0, <1>c, <1>w, <2>1, <2>5
  <2>7. pmsc1' \in Registers
    BY <1>0, <1>w, <2>1, <2>5 DEF NoSequencing
  <2> QED BY <1>0, <2>1, <2>2, <2>4, <2>6, <2>7 DEF TuningsOf, RfConfs
<1>12. CASE ContinuousFrameMode
  <2>1. /\ asked' = [asked EXCEPT !["test"] = TRUE]
        /\ pmsc1' = NoSequencing(pmsc1)
        /\ rfConf' = "txall"
        /\ pmsc0' = EnableClocks(EnableClocks(EnableClocks(pmsc0,
                    "FORCE_SYS_XTI"), "FORCE_SYS_PLL"), "FORCE_TX_PLL")
        /\ UNCHANGED <<gpio, ledc, sniff, tuning, saved, calc>>
    BY <1>12 DEF ContinuousFrameMode, Ask
  <2>2. asked' \in Requests /\ asked'.config = asked.config
    BY <1>a, <2>1
  <2>3. pmsc0' \in Registers
    BY <1>0, <1>c, <2>1
  <2>4. pmsc1' \in Registers
    <3>1. {} \in Registers
      BY DEF Registers
    <3> QED BY <1>0, <1>w, <2>1, <3>1 DEF NoSequencing
  <2> QED BY <1>0, <2>1, <2>2, <2>3, <2>4 DEF RfConfs
<1>13. CASE CalcPgCount \/ CalcBandwidthTempAdj
  <2>1. PICK what \in Calculations : BeginMeasuring(what)
    <3>1. CASE CalcPgCount
      <4>1. PICK t \in DOMAIN PgCounts, d \in PgDelays :
              BeginMeasuring([fn |-> "measuring", for |-> "count", count |-> PgCounts[t][d]])
        BY <3>1 DEF CalcPgCount
      <4>2. PgCounts[t][d] \in Nat
        BY CountsTyped
      <4> QED BY <4>1, <4>2 DEF Calculations
    <3>2. CASE CalcBandwidthTempAdj
      <4>1. PICK t \in DOMAIN PgCounts, reference \in DOMAIN PgCounts, d \in PgDelays :
              BeginMeasuring([fn |-> "measuring", for |-> "bandwidth", temp |-> t,
                            target |-> PgCounts[reference][d]])
        BY <3>2 DEF CalcBandwidthTempAdj
      <4>2. PgCounts[reference][d] \in Nat
        BY CountsTyped
      <4> QED BY <4>1, <4>2 DEF Calculations
    <3> QED BY <1>13, <3>1, <3>2
  <2>2. /\ calc' = what
        /\ saved' = [pmsc0 |-> Bits(pmsc0, 0, 7), pmsc1 |-> OldPmscCtrl1(pmsc1),
                     rfConf |-> rfConf]
        /\ pmsc0' = Write(Write(pmsc0, 0, 7, {0}), 0, 7, {1, 5})
        /\ pmsc1' = NoSequencing(pmsc1)
        /\ rfConf' = "cal"
        /\ UNCHANGED <<gpio, ledc, sniff, tuning, asked>>
    BY <2>1 DEF BeginMeasuring
  <2>3. {0} \in Registers /\ {1, 5} \in Registers /\ {} \in Registers
    BY DEF Registers
  <2>4. pmsc0' \in Registers /\ pmsc1' \in Registers
    BY <1>0, <1>w, <2>2, <2>3 DEF NoSequencing
  <2>6. saved' \in SavedValues
    BY <1>0, <2>2 DEF SavedValues, Bits, OldPmscCtrl1
  <2> QED BY <1>0, <2>1, <2>2, <2>4, <2>6 DEF RfConfs
<1>14. CASE EndMeasuring
  <2>1. /\ calc.fn = "measuring"
        /\ pmsc0' = Write(pmsc0, 0, 7, saved.pmsc0)
        /\ pmsc1' = Write(pmsc1, 0, 15, saved.pmsc1)
        /\ rfConf' = saved.rfConf
        /\ saved' = NoneSaved
        /\ calc' \in Measured
        /\ UNCHANGED <<gpio, ledc, sniff, tuning, asked>>
    BY <1>14 DEF EndMeasuring
  <2>2. saved.pmsc0 \in Registers /\ saved.pmsc1 \in Registers /\ saved.rfConf \in RfConfs
    BY <1>0 DEF SavedValues, Registers
  <2>3. pmsc0' \in Registers /\ pmsc1' \in Registers
    BY <1>0, <1>w, <2>1, <2>2
  <2>4. saved' \in SavedValues
    BY <2>1 DEF NoneSaved, SavedValues, RfConfs
  <2>5. calc' \in Calculations
    BY <1>0, <1>14, MeasuredIsRight
  <2> QED BY <1>0, <2>1, <2>2, <2>3, <2>4, <2>5
<1>15. CASE AdjustPower
  BY <1>0, <1>15, AdjustedIsRight DEF registers
<1>16. CASE CorrectRange
  BY <1>0, <1>16, CorrectedIsRight DEF registers
<1>17. CASE ConvertTemperature
  BY <1>0, <1>17, ConvertedIsRight DEF registers
<1>18. CASE Return \/ UNCHANGED settingVars
  BY <1>0, <1>18, <1>n DEF Return, settingVars, registers
<1> QED
  BY <1>1, <1>2, <1>3, <1>4, <1>5, <1>6, <1>7, <1>8, <1>9, <1>10, <1>11, <1>12, <1>13, <1>14,
     <1>15, <1>16, <1>17, <1>18 DEF SettingsNext, Setting, Measuring, Calculation

\* A call that is no calculation is made with none in progress, and leaves it at that.
LEMMA OtherCallsCalculateNothing ==
  ASSUME \/ SoftReset \/ Setting \/ ConfigCwMode \/ ContinuousFrameMode
  PROVE  calc = NoCalc /\ calc' = NoCalc
BY DEF SoftReset, Setting, SetLeds, SetLnaPaMode, EnableGpioClocks, SetSniffMode,
       EnterSleepAfterTx, SetLowPowerListening, RxReset, ConfigureChannel, ConfigureFor64Plen,
       ConfigCwMode, ContinuousFrameMode, CanSet

\* A result is right when it is returned, and no other call makes one.
LEMMA CalculationsStep ==
  ASSUME SettingsTyped, CalculationsHold, [SettingsNext]_settingVars
  PROVE  CalculationsHold'
<1>0. calc \in Calculations /\ asked \in Requests
  BY DEF SettingsTyped
<1>1. ASSUME calc'.fn \in {"none", "measuring"} PROVE CalculationsHold'
  BY <1>1 DEF CalculationsHold, BandwidthRestored, PowerAdjusted, CorrectionKeepsOrder,
              TemperatureSurvives
<1>2. CASE SoftReset \/ Setting \/ ConfigCwMode \/ ContinuousFrameMode
  <2>1. calc' = NoCalc
    BY <1>2, OtherCallsCalculateNothing
  <2> QED BY <1>1, <2>1 DEF NoCalc
<1>3. CASE CalcPgCount \/ CalcBandwidthTempAdj
  <2>1. calc'.fn = "measuring"
    BY <1>3 DEF CalcPgCount, CalcBandwidthTempAdj, BeginMeasuring
  <2> QED BY <1>1, <2>1
<1>4. CASE EndMeasuring
  BY <1>0, <1>4, MeasuredIsRight
<1>5. CASE AdjustPower
  BY <1>5, AdjustedIsRight
<1>6. CASE CorrectRange
  BY <1>0, <1>6, CorrectedIsRight
<1>7. CASE ConvertTemperature
  BY <1>7, ConvertedIsRight
<1>8. CASE Return
  <2>1. calc' = NoCalc
    BY <1>8 DEF Return
  <2> QED BY <1>1, <2>1 DEF NoCalc
<1>9. CASE UNCHANGED settingVars
  <2>1. calc' = calc /\ asked' = asked
    BY <1>9 DEF settingVars
  <2>2. BandwidthRestored' /\ PowerAdjusted' /\ TemperatureSurvives'
    BY <2>1 DEF CalculationsHold, BandwidthRestored, PowerAdjusted, TemperatureSurvives
  <2>3. CorrectionKeepsOrder'
    BY <2>1 DEF CalculationsHold, CorrectionKeepsOrder
  <2> QED BY <2>2, <2>3 DEF CalculationsHold
<1> QED
  BY <1>2, <1>3, <1>4, <1>5, <1>6, <1>7, <1>8, <1>9 DEF SettingsNext, Measuring, Calculation

\* Registers, saved values, requests and calculations keep their types: no register gets a
\* bit beyond its width, and what is put back fits the part that was read.
THEOREM SettingsTypeCorrect == SettingsSpec => []SettingsTyped
<1>1. SettingsTyped /\ [SettingsNext]_settingVars => SettingsTyped'
  BY SettingsTypeStep
<1> QED BY <1>1, InitialSettings, PTL DEF SettingsSpec

\* What the driver calculates is right for every configuration, count, byte, temperature
\* and distance: the bandwidth is the closest there is, the power changes by the adjustment,
\* the range correction keeps the order of distances, a temperature survives to three units.
THEOREM CalculationsAreRight == SettingsSpec => []CalculationsHold
<1>1. SettingsInit => CalculationsHold
  BY DEF SettingsInit, NoCalc, CalculationsHold, BandwidthRestored, PowerAdjusted,
         CorrectionKeepsOrder, TemperatureSurvives
<1>2. SettingsTyped /\ [SettingsNext]_settingVars => SettingsTyped'
  BY SettingsTypeStep
<1>3. SettingsTyped /\ CalculationsHold /\ [SettingsNext]_settingVars => CalculationsHold'
  BY CalculationsStep
<1> QED BY <1>1, <1>2, <1>3, InitialSettings, PTL DEF SettingsSpec

-----------------------------------------------------------------------------
(***************************************************************************)
(* What has been asked of the chip.                                        *)
(***************************************************************************)
\* What SettingsStay promises between the calls, with the chip in no test mode.
AsAsked ==
  PinsAsAsked /\ ClocksAsAsked /\ SniffAsAsked /\ SequencerAsAsked /\ TuningAsAsked

\* A setting holds as long as its registers and the request for it stay.
LEMMA PinsKept ==
  ASSUME PinsAsAsked, gpio' = gpio, asked'.leds = asked.leds, asked'.lnaPa = asked.lnaPa
  PROVE  PinsAsAsked'
BY DEF PinsAsAsked

\* Setting or clearing bits that no request is about leaves the clocks as asked for.
LEMMA ClocksKept ==
  ASSUME ClocksAsAsked, ledc' = ledc, asked'.leds = asked.leds,
         asked'.gpioClocks = asked.gpioClocks,
         Bits(pmsc0', 0, 15) = Bits(pmsc0, 0, 15),
         {b \in pmsc0 : b \in {16, 17, 18, 23} \cup SoftResetBits} \subseteq pmsc0'
  PROVE  ClocksAsAsked'
BY DEF ClocksAsAsked, GPCE, GPRN, GPDCE, KHZCLEN, SoftResetBits

\* SNIFF mode needs its times and its sequencing bit.
LEMMA SniffKept ==
  ASSUME SniffAsAsked, sniff' = sniff, asked'.sniff = asked.sniff,
         PLL2_SEQ_EN \in pmsc0' <=> PLL2_SEQ_EN \in pmsc0
  PROVE  SniffAsAsked'
BY DEF SniffAsAsked

\* The sequencer needs PMSC_CTRL1 and the power of the radio.
LEMMA SequencerKept ==
  ASSUME SequencerAsAsked, pmsc1' = pmsc1, rfConf' = rfConf, asked'.lde = asked.lde,
         asked'.sleepAfterTx = asked.sleepAfterTx, asked'.listening = asked.listening
  PROVE  SequencerAsAsked'
BY DEF SequencerAsAsked, SleepsAsAsked

\* The tuning stays while the configuration does.
LEMMA TuningKept ==
  ASSUME TuningAsAsked, tuning' = tuning, asked'.config = asked.config,
         asked'.pre64 = asked.pre64, asked'.gear64 = asked.gear64
  PROVE  TuningAsAsked'
BY DEF TuningAsAsked

\* What a calibration finds is at least what it leaves alone.
LEMMA AsAskedUntouched == AsAsked => UntouchedAsAsked
<1> SUFFICES ASSUME AsAsked PROVE UntouchedAsAsked
  OBVIOUS
<1>1. Bits(pmsc0, 8, 15) = Sequenced
  <2>1. Bits(pmsc0, 0, 15) = {9}
    BY DEF AsAsked, ClocksAsAsked, Sequenced
  <2> QED BY <2>1 DEF Bits, Sequenced
<1> QED BY <1>1 DEF AsAsked, UntouchedAsAsked, ClocksAsAsked, SequencerAsAsked

\* A call about one setting brings that about and disturbs no other: the registers they share
\* are written bit by bit, dwt_rxreset apart, whose price SniffAsAsked names.
LEMMA SetterKeepsSettings ==
  ASSUME SettingsTyped, AsAsked, ~asked.test, calc = NoCalc, Setting
  PROVE  AsAsked' /\ ~asked'.test
<1>0. /\ pmsc0 \subseteq 0 .. 31 /\ pmsc1 \subseteq 0 .. 31 /\ gpio \in [Pins -> 0 .. 1]
      /\ ledc \in BOOLEAN /\ sniff \in BOOLEAN /\ asked \in Requests
  BY DEF SettingsTyped
<1>1. PinsAsAsked /\ ClocksAsAsked /\ SniffAsAsked /\ SequencerAsAsked /\ TuningAsAsked
  BY DEF AsAsked
<1>2. CASE SetLeds
  <2>1. PICK enable \in BOOLEAN :
          /\ asked' = [asked EXCEPT !["leds"] = enable]
          /\ gpio' = SetModes(LedPins, IF enable THEN 1 ELSE 0)
          /\ pmsc0' = IF enable THEN pmsc0 \cup {GPDCE, KHZCLEN} ELSE pmsc0
          /\ ledc' = (ledc \/ enable)
    BY <1>2 DEF SetLeds, Ask
  <2>2. UNCHANGED <<pmsc1, sniff, rfConf, tuning, saved, calc>>
    BY <1>2 DEF SetLeds
  <2>3. asked'.leds = enable
    BY <1>0, <2>1 DEF Requests
  <2>4. PinsAsAsked'
    <3>1. ASSUME NEW p \in Pins
          PROVE  gpio'[p] = IF p \in LedPins THEN (IF enable THEN 1 ELSE 0) ELSE gpio[p]
      BY <2>1 DEF SetModes
    <3>2. LedPins \cap PinsOf(asked.lnaPa) = {} /\ LedPins \subseteq Pins
      BY DEF LedPins, PinsOf, LnaPins, PaPins, Pins
    <3>3. {p \in Pins : gpio[p] = 1}
          = (IF asked.leds THEN LedPins ELSE {}) \cup PinsOf(asked.lnaPa)
      BY <1>1 DEF PinsAsAsked
    <3>4. {p \in Pins : gpio'[p] = 1}
          = (IF enable THEN LedPins ELSE {}) \cup PinsOf(asked.lnaPa)
      BY ONLY <2>1, <3>1, <3>2, <3>3
    <3> QED BY <1>0, <2>1, <2>3, <3>4 DEF PinsAsAsked, Requests
  <2>5. ClocksAsAsked'
    <3>1. Bits(pmsc0', 0, 15) = Bits(pmsc0, 0, 15) /\ pmsc0 \subseteq pmsc0'
      BY <2>1 DEF Bits, GPDCE, KHZCLEN
    <3> QED BY <1>0, <1>1, <2>1, <2>3, <3>1 DEF ClocksAsAsked, Requests
  <2>6. SniffAsAsked'
    <3>1. PLL2_SEQ_EN \in pmsc0' <=> PLL2_SEQ_EN \in pmsc0
      BY <2>1 DEF PLL2_SEQ_EN, GPDCE, KHZCLEN
    <3> QED BY <1>0, <1>1, <2>1, <2>2, <3>1, SniffKept DEF Requests
  <2>7. SequencerAsAsked' /\ TuningAsAsked' /\ ~asked'.test
    BY <1>0, <1>1, <2>1, <2>2, SequencerKept, TuningKept DEF Requests
  <2> QED BY <2>4, <2>5, <2>6, <2>7 DEF AsAsked
<1>3. CASE SetLnaPaMode
  <2>1. PICK mode \in LnaPaModes :
          /\ asked' = [asked EXCEPT !["lnaPa"] = mode]
          /\ gpio' = [p \in Pins |-> IF p \in LedPins THEN gpio[p]
                                  ELSE IF p \in PinsOf(mode) THEN 1 ELSE 0]
    BY <1>3 DEF SetLnaPaMode, Ask
  <2>2. UNCHANGED <<pmsc0, pmsc1, ledc, sniff, rfConf, tuning, saved, calc>>
    BY <1>3 DEF SetLnaPaMode
  <2>3. asked'.lnaPa = mode /\ asked'.leds = asked.leds
    BY <1>0, <2>1 DEF Requests
  <2>4. PinsAsAsked'
    <3>1. LedPins \cap PinsOf(asked.lnaPa) = {} /\ LedPins \cap PinsOf(mode) = {}
          /\ LedPins \subseteq Pins /\ PinsOf(mode) \subseteq Pins
      BY DEF LedPins, PinsOf, LnaPins, PaPins, Pins
    <3>2. {p \in Pins : gpio[p] = 1}
          = (IF asked.leds THEN LedPins ELSE {}) \cup PinsOf(asked.lnaPa)
      BY <1>1 DEF PinsAsAsked
    <3>3. {p \in Pins : gpio'[p] = 1} = (IF asked.leds THEN LedPins ELSE {}) \cup PinsOf(mode)
      BY ONLY <2>1, <3>1, <3>2
    <3> QED BY <2>3, <3>3 DEF PinsAsAsked
  <2>5. ClocksAsAsked'
    BY <1>0, <1>1, <2>1, <2>2 DEF ClocksAsAsked, Requests
  <2>6. SniffAsAsked' /\ SequencerAsAsked' /\ TuningAsAsked' /\ ~asked'.test
    BY <1>0, <1>1, <2>1, <2>2, SniffKept, SequencerKept, TuningKept DEF Requests
  <2> QED BY <2>4, <2>5, <2>6 DEF AsAsked
<1>4. CASE EnableGpioClocks
  <2>1. /\ asked' = [asked EXCEPT !["gpioClocks"] = TRUE]
        /\ pmsc0' = pmsc0 \cup {GPCE, GPRN}
        /\ UNCHANGED <<pmsc1, gpio, ledc, sniff, rfConf, tuning, saved, calc>>
    BY <1>4 DEF EnableGpioClocks, Ask
  <2>2. ClocksAsAsked'
    <3>1. Bits(pmsc0', 0, 15) = Bits(pmsc0, 0, 15)
      BY <2>1 DEF Bits, GPCE, GPRN
    <3> QED BY <1>0, <1>1, <2>1, <3>1 DEF ClocksAsAsked, Requests
  <2>3. SniffAsAsked'
    <3>1. PLL2_SEQ_EN \in pmsc0' <=> PLL2_SEQ_EN \in pmsc0
      BY <2>1 DEF PLL2_SEQ_EN, GPCE, GPRN
    <3> QED BY <1>0, <1>1, <2>1, <3>1, SniffKept DEF Requests
  <2>4. PinsAsAsked' /\ SequencerAsAsked' /\ TuningAsAsked' /\ ~asked'.test
    BY <1>0, <1>1, <2>1, PinsKept, SequencerKept, TuningKept DEF Requests
  <2> QED BY <2>2, <2>3, <2>4 DEF AsAsked
<1>5. CASE SetSniffMode
  <2>1. PICK enable \in BOOLEAN :
          /\ asked' = [asked EXCEPT !["sniff"] = IF enable THEN "on" ELSE "off"]
          /\ sniff' = enable
          /\ pmsc0' = Switched(pmsc0, {PLL2_SEQ_EN}, enable)
    BY <1>5 DEF SetSniffMode, Ask
  <2>2. UNCHANGED <<pmsc1, gpio, ledc, rfConf, tuning, saved, calc>>
    BY <1>5 DEF SetSniffMode
  <2>3. ClocksAsAsked'
    <3>1. /\ Bits(pmsc0', 0, 15) = Bits(pmsc0, 0, 15)
          /\ \A b \in pmsc0 : b # 24 => b \in pmsc0'
      BY <2>1 DEF Bits, Switched, PLL2_SEQ_EN
    <3> QED
      BY <1>0, <1>1, <2>1, <2>2, <3>1
      DEF ClocksAsAsked, Requests, GPCE, GPRN, GPDCE, KHZCLEN, SoftResetBits
  <2>4. SniffAsAsked'
    BY <1>0, <2>1 DEF SniffAsAsked, Requests, Switched
  <2>5. PinsAsAsked' /\ SequencerAsAsked' /\ TuningAsAsked' /\ ~asked'.test
    BY <1>0, <1>1, <2>1, <2>2, PinsKept, SequencerKept, TuningKept DEF Requests
  <2> QED BY <2>3, <2>4, <2>5 DEF AsAsked
<1>6. CASE EnterSleepAfterTx
  <2>1. PICK enable \in BOOLEAN : /\ asked' = [asked EXCEPT !["sleepAfterTx"] = enable]
                                  /\ pmsc1' = Switched(pmsc1, {ATXSLP}, enable)
    BY <1>6 DEF EnterSleepAfterTx, Ask
  <2>2. UNCHANGED <<pmsc0, gpio, ledc, sniff, rfConf, tuning, saved, calc>>
    BY <1>6 DEF EnterSleepAfterTx
  <2>3. SequencerAsAsked'
    <3>1. /\ \A b \in 0 .. 31 : b # 11 => (b \in pmsc1' <=> b \in pmsc1)
          /\ 11 \in pmsc1' <=> enable
      BY <2>1 DEF Switched, ATXSLP
    <3> QED
      BY <1>0, <1>1, <2>1, <2>2, <3>1
      DEF SequencerAsAsked, SleepsAsAsked, Requests, PktSeq, LDERUNE, ATXSLP, ARXSLP, SNOZE
  <2>4. ClocksAsAsked'
    BY <1>0, <1>1, <2>1, <2>2 DEF ClocksAsAsked, Requests
  <2>5. PinsAsAsked' /\ SniffAsAsked' /\ TuningAsAsked' /\ ~asked'.test
    BY <1>0, <1>1, <2>1, <2>2, PinsKept, SniffKept, TuningKept DEF Requests
  <2> QED BY <2>3, <2>4, <2>5 DEF AsAsked
<1>7. CASE SetLowPowerListening
  <2>1. PICK enable \in BOOLEAN : /\ asked' = [asked EXCEPT !["listening"] = enable]
                                  /\ pmsc1' = Switched(pmsc1, {ARXSLP, SNOZE}, enable)
    BY <1>7 DEF SetLowPowerListening, Ask
  <2>2. UNCHANGED <<pmsc0, gpio, ledc, sniff, rfConf, tuning, saved, calc>>
    BY <1>7 DEF SetLowPowerListening
  <2>3. SequencerAsAsked'
    <3>1. /\ \A b \in 0 .. 31 : b \notin {12, 13} => (b \in pmsc1' <=> b \in pmsc1)
          /\ enable => {12, 13} \subseteq pmsc1'
          /\ ~enable => {12, 13} \cap pmsc1' = {}
      BY <2>1 DEF Switched, ARXSLP, SNOZE
    <3> QED
      BY <1>0, <1>1, <2>1, <2>2, <3>1
      DEF SequencerAsAsked, SleepsAsAsked, Requests, PktSeq, LDERUNE, ATXSLP, ARXSLP, SNOZE
  <2>4. ClocksAsAsked'
    BY <1>0, <1>1, <2>1, <2>2 DEF ClocksAsAsked, Requests
  <2>5. PinsAsAsked' /\ SniffAsAsked' /\ TuningAsAsked' /\ ~asked'.test
    BY <1>0, <1>1, <2>1, <2>2, PinsKept, SniffKept, TuningKept DEF Requests
  <2> QED BY <2>3, <2>4, <2>5 DEF AsAsked
<1>8. CASE RxReset
  <2>1. /\ asked' = [asked EXCEPT !["sniff"] = IF asked.sniff = "on" THEN "reset" ELSE asked.sniff]
        /\ pmsc0' = Write(Write(pmsc0, 24, 31, {29, 30, 31}), 24, 31, SoftResetBits)
        /\ UNCHANGED <<pmsc1, gpio, ledc, sniff, rfConf, tuning, saved, calc>>
    BY <1>8 DEF RxReset, Ask
  <2>2. /\ \A b \in 0 .. 23 : b \in pmsc0' <=> b \in pmsc0
        /\ SoftResetBits \subseteq pmsc0' /\ PLL2_SEQ_EN \notin pmsc0'
        /\ pmsc0' \subseteq 0 .. 31
    <3>1. \A b : b \in pmsc0' <=> b \in SoftResetBits \/ (b \in pmsc0 /\ b \notin 24 .. 31)
      BY <2>1 DEF Write
    <3>2. pmsc0' \subseteq 0 .. 31
      <4>1. SoftResetBits \subseteq 0 .. 31
        BY DEF SoftResetBits
      <4> QED BY <1>0, <3>1, <4>1
    <3>3. \A b \in 0 .. 23 : b \in pmsc0' <=> b \in pmsc0
      BY <3>1 DEF SoftResetBits
    <3>4. SoftResetBits \subseteq pmsc0' /\ PLL2_SEQ_EN \notin pmsc0'
      BY <3>1 DEF SoftResetBits, PLL2_SEQ_EN
    <3> QED BY <3>2, <3>3, <3>4
  <2>3. ClocksAsAsked'
    <3>1. Bits(pmsc0', 0, 15) = Bits(pmsc0, 0, 15)
      BY <1>0, <2>2 DEF Bits
    <3> QED
      BY <1>0, <1>1, <2>1, <2>2, <3>1
      DEF ClocksAsAsked, Requests, GPCE, GPRN, GPDCE, KHZCLEN
  <2>4. SniffAsAsked'
    BY <1>0, <1>1, <2>1, <2>2 DEF SniffAsAsked, Requests
  <2>5. PinsAsAsked' /\ SequencerAsAsked' /\ TuningAsAsked' /\ ~asked'.test
    BY <1>0, <1>1, <2>1, PinsKept, SequencerKept, TuningKept DEF Requests
  <2> QED BY <2>3, <2>4, <2>5 DEF AsAsked
<1>9. CASE ConfigureChannel
  <2>1. PICK c \in Configs :
          /\ asked' = [asked EXCEPT !.config = c,
                          !.pre64 = IF c.dataRate = "110K" THEN @ ELSE c.plen = 64]
          /\ tuning' = Configured(c, tuning)
    BY <1>9 DEF ConfigureChannel
  <2>2. UNCHANGED <<pmsc0, pmsc1, gpio, ledc, sniff, rfConf, saved, calc>>
    BY <1>9 DEF ConfigureChannel
  <2>3. TuningAsAsked'
    <3>1. /\ asked'.config = c /\ asked'.gear64 = asked.gear64
          /\ asked'.pre64 = IF c.dataRate = "110K" THEN asked.pre64 ELSE c.plen = 64
      BY <1>0, <2>1 DEF Requests
    <3>2. Agree(tuning', c)
      <4>1. c \in Configurations /\ tuning \in Tunings \cup {NoTuning}
        BY <2>1, ArgumentsAssumption DEF ArgumentsTyped, SettingsTyped
      <4> QED BY <2>1, <4>1, ConfiguredAgrees
    <3>3. tuning'.tune4h = Tune4h(c, tuning.tune4h) /\ tuning'.gear = tuning.gear
      BY <2>1 DEF Configured
    <3>4. tuning'.tune4h = "PRE64" <=> asked'.pre64
      BY <1>1, <3>1, <3>3 DEF TuningAsAsked, Tune4h
    <3> QED BY <1>1, <3>1, <3>2, <3>3, <3>4 DEF TuningAsAsked
  <2>4. ClocksAsAsked'
    BY <1>0, <1>1, <2>1, <2>2 DEF ClocksAsAsked, Requests
  <2>5. PinsAsAsked' /\ SniffAsAsked' /\ SequencerAsAsked' /\ ~asked'.test
    BY <1>0, <1>1, <2>1, <2>2, PinsKept, SniffKept, SequencerKept DEF Requests
  <2> QED BY <2>3, <2>4, <2>5 DEF AsAsked
<1>10. CASE ConfigureFor64Plen
  <2>1. /\ asked.config # NoConfig
        /\ asked' = [asked EXCEPT !["gear64"] = TRUE]
        /\ tuning' = For64Plen(asked.config.prf, tuning)
        /\ UNCHANGED <<pmsc0, pmsc1, gpio, ledc, sniff, rfConf, saved, calc>>
    BY <1>10 DEF ConfigureFor64Plen, Ask
  <2>2. TuningAsAsked'
    <3>1. /\ asked'.config = asked.config /\ asked'.pre64 = asked.pre64 /\ asked'.gear64 = TRUE
      BY <1>0, <2>1 DEF Requests
    <3>2. Agree(tuning, asked.config) /\ tuning \in Tunings
      BY <1>1, <2>1 DEF TuningAsAsked, SettingsTyped
    <3>3. /\ tuning'.gear = "64L" /\ tuning'.tune2 = <<asked.config.prf, UNCONF_SFD>>
          /\ \A r \in DOMAIN tuning \ {"gear", "tune2"} : tuning'[r] = tuning[r]
      BY <2>1, <3>2 DEF For64Plen, Tunings
    <3>4. tuning'.tune2[1] = asked.config.prf /\ tuning.chanCtrl.prf = asked.config.prf
      BY <3>2, <3>3 DEF Agree
    <3>5. Agree(tuning', asked.config)
      BY <3>2, <3>3, <3>4 DEF Agree, Tunings
    <3>6. tuning'.tune4h = tuning.tune4h
      BY <3>2, <3>3 DEF Tunings
    <3> QED BY <1>1, <3>1, <3>3, <3>5, <3>6 DEF TuningAsAsked
  <2>3. ClocksAsAsked'
    BY <1>0, <1>1, <2>1 DEF ClocksAsAsked, Requests
  <2>4. PinsAsAsked' /\ SniffAsAsked' /\ SequencerAsAsked' /\ ~asked'.test
    BY <1>0, <1>1, <2>1, PinsKept, SniffKept, SequencerKept DEF Requests
  <2> QED BY <2>2, <2>3, <2>4 DEF AsAsked
<1> QED
  BY <1>2, <1>3, <1>4, <1>5, <1>6, <1>7, <1>8, <1>9, <1>10 DEF Setting

\* A calibration begins with all as asked for, and leaves what it does not save alone.
LEMMA CalibrationKeepsTheRest ==
  ASSUME SettingsTyped, AsAsked, ~asked.test, NEW what, what.fn = "measuring", BeginMeasuring(what)
  PROVE  UntouchedAsAsked' /\ SavedAsAsked' /\ ~asked'.test /\ calc'.fn = "measuring"
<1>1. /\ saved' = [pmsc0 |-> Bits(pmsc0, 0, 7), pmsc1 |-> OldPmscCtrl1(pmsc1),
                   rfConf |-> rfConf]
      /\ pmsc0' = Write(Write(pmsc0, 0, 7, {0}), 0, 7, {1, 5})
      /\ pmsc1' = NoSequencing(pmsc1) /\ calc' = what
      /\ UNCHANGED <<gpio, ledc, sniff, tuning, asked>>
  BY DEF BeginMeasuring
<1>2. pmsc0 \subseteq 0 .. 31 /\ pmsc1 \subseteq 0 .. 31
  BY DEF SettingsTyped
<1>3. /\ PinsAsAsked /\ ClocksAsAsked /\ SniffAsAsked /\ SequencerAsAsked /\ TuningAsAsked
      /\ UntouchedAsAsked
  BY AsAskedUntouched DEF AsAsked
<1>4. \A b \in 8 .. 31 : b \in pmsc0' <=> b \in pmsc0
  BY <1>1 DEF Write
<1>5. \A b \in 16 .. 31 : b \in pmsc1' <=> b \in pmsc1
  BY <1>1 DEF Write, NoSequencing
<1>6. UntouchedAsAsked'
  <2>1. PinsAsAsked' /\ TuningAsAsked'
    BY <1>1, <1>3, PinsKept, TuningKept
  <2>2. SniffAsAsked'
    <3>1. PLL2_SEQ_EN \in pmsc0' <=> PLL2_SEQ_EN \in pmsc0
      BY <1>4 DEF PLL2_SEQ_EN
    <3> QED BY <1>1, <1>3, <3>1, SniffKept
  <2>3. Bits(pmsc0', 8, 15) = Sequenced
    <3>1. Bits(pmsc0', 8, 15) = Bits(pmsc0, 8, 15)
      BY <1>4 DEF Bits
    <3> QED BY <1>3, <3>1 DEF UntouchedAsAsked
  <2>4. SoftResetBits \subseteq pmsc0'
    BY <1>3, <1>4 DEF UntouchedAsAsked, SoftResetBits
  <2>5. LDERUNE \in pmsc1' <=> asked'.lde
    BY <1>1, <1>3, <1>5 DEF UntouchedAsAsked, LDERUNE
  <2>6. /\ asked'.leds => ledc' /\ {GPDCE, KHZCLEN} \subseteq pmsc0'
        /\ asked'.gpioClocks => {GPCE, GPRN} \subseteq pmsc0'
    BY <1>1, <1>3, <1>4 DEF UntouchedAsAsked, GPDCE, KHZCLEN, GPCE, GPRN
  <2> QED BY <2>1, <2>2, <2>3, <2>4, <2>5, <2>6 DEF UntouchedAsAsked
<1>7. SavedAsAsked'
  <2>1. saved'.pmsc0 = {}
    <3>1. Bits(pmsc0, 0, 15) = {9}
      BY <1>3 DEF ClocksAsAsked, Sequenced
    <3>2. Bits(pmsc0, 0, 7) = {}
      BY <3>1 DEF Bits
    <3> QED BY <1>1, <3>2
  <2>2. saved'.rfConf = "auto"
    BY <1>1, <1>3 DEF SequencerAsAsked
  <2>3. \A b \in 0 .. 15 : b \in saved'.pmsc1 <=> b \in pmsc1
    BY <1>1 DEF OldPmscCtrl1, Bits
  <2>4. SleepsAsAsked(saved.pmsc1)'
    BY <1>1, <1>3, <2>3
    DEF SequencerAsAsked, SleepsAsAsked, PktSeq, ATXSLP, ARXSLP, SNOZE
  <2> QED BY <2>1, <2>2, <2>4 DEF SavedAsAsked
<1> QED BY <1>1, <1>6, <1>7

\* What it has saved it puts back.
LEMMA CalibrationPutsBack ==
  ASSUME SettingsTyped, UntouchedAsAsked, SavedAsAsked, ~asked.test, EndMeasuring
  PROVE  AsAsked' /\ ~asked'.test
<1>1. /\ pmsc0' = Write(pmsc0, 0, 7, saved.pmsc0)
      /\ pmsc1' = Write(pmsc1, 0, 15, saved.pmsc1)
      /\ rfConf' = saved.rfConf
      /\ UNCHANGED <<gpio, ledc, sniff, tuning, asked>>
  BY DEF EndMeasuring
<1>2. saved.pmsc0 = {} /\ saved.rfConf = "auto" /\ SleepsAsAsked(saved.pmsc1)
  BY DEF SavedAsAsked
<1>3. saved.pmsc1 \subseteq 0 .. 15
  BY DEF SettingsTyped
<1>4. PinsAsAsked /\ SniffAsAsked /\ TuningAsAsked
  BY DEF UntouchedAsAsked
<1>5. \A b : b \in pmsc0' <=> b \in pmsc0 /\ b \notin 0 .. 7
  BY <1>1, <1>2 DEF Write
<1>6. PinsAsAsked' /\ TuningAsAsked'
  BY <1>1, <1>4, PinsKept, TuningKept
<1>7. SniffAsAsked'
  <2>1. PLL2_SEQ_EN \in pmsc0' <=> PLL2_SEQ_EN \in pmsc0
    BY <1>5 DEF PLL2_SEQ_EN
  <2> QED BY <1>1, <1>4, <2>1, SniffKept
<1>8. ClocksAsAsked'
  <2>1. Bits(pmsc0', 0, 15) = Bits(pmsc0, 8, 15)
    BY <1>5 DEF Bits
  <2>2. \A b \in pmsc0 : b \in {16, 17, 18, 23, 28, 29, 30, 31} => b \in pmsc0'
    BY <1>5
  <2>3. SoftResetBits \subseteq pmsc0'
    BY <2>2 DEF UntouchedAsAsked, SoftResetBits
  <2>4. /\ asked'.leds => ledc' /\ {GPDCE, KHZCLEN} \subseteq pmsc0'
        /\ asked'.gpioClocks => {GPCE, GPRN} \subseteq pmsc0'
    BY <1>1, <2>2 DEF UntouchedAsAsked, GPDCE, KHZCLEN, GPCE, GPRN
  <2> QED BY <2>1, <2>3, <2>4 DEF UntouchedAsAsked, ClocksAsAsked
<1>9. SequencerAsAsked'
  <2>1. \A b : b \in pmsc1' <=> b \in saved.pmsc1 \/ (b \in pmsc1 /\ b \notin 0 .. 15)
    BY <1>1 DEF Write
  <2>2. LDERUNE \in pmsc1' <=> LDERUNE \in pmsc1
    BY <1>3, <2>1 DEF LDERUNE
  <2>3. \A b \in 0 .. 15 : b \in pmsc1' <=> b \in saved.pmsc1
    BY <2>1
  <2>4. SleepsAsAsked(pmsc1)'
    BY <1>1, <1>2, <2>3 DEF SleepsAsAsked, PktSeq, ATXSLP, ARXSLP, SNOZE
  <2> QED BY <1>1, <1>2, <2>2, <2>4 DEF UntouchedAsAsked, SequencerAsAsked
<1> QED BY <1>1, <1>6, <1>7, <1>8, <1>9 DEF AsAsked

\* A reset chip has nothing asked of it but, perhaps, its microcode.
LEMMA ResetAsAsked ==
  ASSUME SoftReset
  PROVE  AsAsked' /\ ~asked'.test
<1>1. PICK loaded \in BOOLEAN :
        /\ pmsc0' = {9} \cup SoftResetBits
        /\ pmsc1' = Switched(PktSeq, {LDERUNE}, loaded)
        /\ gpio' = [p \in Pins |-> 0]
        /\ ledc' = FALSE /\ sniff' = FALSE /\ rfConf' = "auto" /\ tuning' = NoTuning
        /\ asked' = [leds |-> FALSE, lnaPa |-> {}, gpioClocks |-> FALSE, sniff |-> "off",
                     sleepAfterTx |-> FALSE, listening |-> FALSE, lde |-> loaded, test |-> FALSE,
                     config |-> NoConfig, pre64 |-> FALSE, gear64 |-> FALSE]
  BY DEF SoftReset, NothingAsked, Sequenced
<1>2. PinsAsAsked'
  BY ONLY <1>1 DEF PinsAsAsked, PinsOf
<1>3. SniffAsAsked'
  BY ONLY <1>1 DEF SniffAsAsked, PLL2_SEQ_EN, SoftResetBits
<1>4. TuningAsAsked'
  BY ONLY <1>1 DEF TuningAsAsked, NoTuning
<1>5. ClocksAsAsked'
  <2>1. Bits(pmsc0', 0, 15) = Sequenced
    BY ONLY <1>1 DEF Bits, Sequenced, SoftResetBits
  <2> QED BY ONLY <1>1, <2>1 DEF ClocksAsAsked
<1>6. SequencerAsAsked'
  BY ONLY <1>1
  DEF SequencerAsAsked, SleepsAsAsked, Switched, PktSeq, LDERUNE, ATXSLP, ARXSLP, SNOZE
<1> QED BY <1>1, <1>2, <1>3, <1>4, <1>5, <1>6 DEF AsAsked

\* Each call keeps the invariant; a calibration holds what it saved between its two steps.
LEMMA SettingsStep ==
  ASSUME SettingsTyped, SettingsInv, [SettingsNext]_settingVars
  PROVE  SettingsInv'
<1>1. AsAsked' => UntouchedAsAsked'
  BY AsAskedUntouched, PTL
<1>2. ASSUME AsAsked', ~asked'.test, calc'.fn # "measuring" PROVE SettingsInv'
  BY <1>1, <1>2 DEF SettingsInv, AsAsked
<1>3. ASSUME ~asked.test, calc.fn # "measuring" PROVE AsAsked
  BY <1>3 DEF SettingsInv, UntouchedAsAsked, AsAsked
<1>4. NoCalc.fn # "measuring"
  BY DEF NoCalc
<1>5. CASE SoftReset
  <2>1. calc' = NoCalc
    BY <1>5, OtherCallsCalculateNothing
  <2> QED BY <1>2, <1>4, <1>5, <2>1, ResetAsAsked
<1>6. CASE Setting
  <2>1. calc = NoCalc /\ calc' = NoCalc
    BY <1>6, OtherCallsCalculateNothing
  <2>2. ~asked.test
    BY <1>6
    DEF Setting, SetLeds, SetLnaPaMode, EnableGpioClocks, SetSniffMode, EnterSleepAfterTx,
        SetLowPowerListening, RxReset, ConfigureChannel, ConfigureFor64Plen, CanSet
  <2> QED BY <1>2, <1>3, <1>4, <1>6, <2>1, <2>2, SetterKeepsSettings
<1>7. CASE ConfigCwMode \/ ContinuousFrameMode
  <2>1. calc' = NoCalc
    BY <1>7, OtherCallsCalculateNothing
  <2>2. asked' = [asked EXCEPT !["test"] = TRUE]
    BY <1>7 DEF ConfigCwMode, ContinuousFrameMode, Ask
  <2>3. asked'.test
    BY <2>2 DEF SettingsTyped, Requests
  <2> QED BY <1>4, <2>1, <2>3 DEF SettingsInv
<1>8. CASE CalcPgCount \/ CalcBandwidthTempAdj
  <2>1. PICK what : what.fn = "measuring" /\ BeginMeasuring(what)
    <3>1. CASE CalcPgCount
      <4>1. PICK t \in DOMAIN PgCounts, d \in PgDelays :
              BeginMeasuring([fn |-> "measuring", for |-> "count", count |-> PgCounts[t][d]])
        BY <3>1 DEF CalcPgCount
      <4> QED BY <4>1
    <3>2. CASE CalcBandwidthTempAdj
      <4>1. PICK t \in DOMAIN PgCounts, reference \in DOMAIN PgCounts, d \in PgDelays :
              BeginMeasuring([fn |-> "measuring", for |-> "bandwidth", temp |-> t,
                            target |-> PgCounts[reference][d]])
        BY <3>2 DEF CalcBandwidthTempAdj
      <4> QED BY <4>1
    <3> QED BY <1>8, <3>1, <3>2
  <2>2. ~asked.test /\ calc = NoCalc
    BY <2>1 DEF BeginMeasuring, CanSet
  <2>3. UntouchedAsAsked' /\ SavedAsAsked' /\ ~asked'.test /\ calc'.fn = "measuring"
    BY <1>3, <1>4, <2>1, <2>2, CalibrationKeepsTheRest
  <2> QED BY <2>3 DEF SettingsInv
<1>9. CASE EndMeasuring
  <2>1. calc.fn = "measuring" /\ calc' \in Measured
    BY <1>9 DEF EndMeasuring
  <2>2. calc'.fn # "measuring"
    BY <2>1 DEF Measured
  <2>3. ~asked.test /\ UntouchedAsAsked /\ SavedAsAsked
    BY <1>4, <2>1 DEF SettingsInv
  <2> QED BY <1>2, <1>9, <2>2, <2>3, CalibrationPutsBack
<1>10. ASSUME registers' = registers /\ saved' = saved /\ asked' = asked
       PROVE  /\ AsAsked => AsAsked'
              /\ UntouchedAsAsked => UntouchedAsAsked'
              /\ SavedAsAsked => SavedAsAsked'
              /\ asked' = asked
  <2>1. /\ pmsc0' = pmsc0 /\ pmsc1' = pmsc1 /\ gpio' = gpio /\ ledc' = ledc /\ sniff' = sniff
        /\ rfConf' = rfConf /\ tuning' = tuning /\ saved' = saved /\ asked' = asked
    BY <1>10 DEF registers
  <2>2. SavedAsAsked => SavedAsAsked'
    BY <2>1 DEF SavedAsAsked, SleepsAsAsked
  <2>3. UntouchedAsAsked => UntouchedAsAsked'
    BY <2>1, PinsKept, SniffKept, TuningKept DEF UntouchedAsAsked
  <2>4. AsAsked => AsAsked'
    BY <2>1, PinsKept, SniffKept, SequencerKept, TuningKept DEF AsAsked, ClocksAsAsked
  <2> QED BY <2>1, <2>2, <2>3, <2>4
<1>11. CASE AdjustPower \/ CorrectRange \/ ConvertTemperature
  <2>1. PICK r : r.fn # "measuring" /\ Calculate(r)
    BY <1>11 DEF AdjustPower, CorrectRange, ConvertTemperature
  <2>2. /\ calc = NoCalc /\ ~asked.test /\ calc'.fn # "measuring"
        /\ registers' = registers /\ saved' = saved /\ asked' = asked
    BY <2>1 DEF Calculate, CanSet
  <2> QED BY <1>2, <1>3, <1>4, <1>10, <2>2
<1>12. CASE Return
  <2>1. /\ calc.fn # "measuring" /\ calc' = NoCalc
        /\ registers' = registers /\ saved' = saved /\ asked' = asked
    BY <1>12 DEF Return
  <2>2. CASE asked.test
    BY <1>4, <1>10, <2>1, <2>2 DEF SettingsInv
  <2>3. CASE ~asked.test
    BY <1>2, <1>3, <1>4, <1>10, <2>1, <2>3
  <2> QED BY <2>2, <2>3
<1>13. CASE UNCHANGED settingVars
  <2>1. calc' = calc /\ registers' = registers /\ saved' = saved /\ asked' = asked
    BY <1>13 DEF settingVars
  <2>2. ~asked.test /\ calc.fn # "measuring" => ClocksAsAsked' /\ SequencerAsAsked'
    BY <1>3, <1>10, <2>1 DEF AsAsked
  <2> QED BY <1>10, <2>1, <2>2 DEF SettingsInv
<1> QED
  BY <1>5, <1>6, <1>7, <1>8, <1>9, <1>11, <1>12, <1>13
  DEF SettingsNext, Measuring, Calculation

\* What the application has asked of the chip holds until it asks for something else,
\* whatever sequence of calls and calibrations comes between.
THEOREM SettingsAreKept == SettingsSpec => []SettingsStay
<1>1. SettingsTyped /\ [SettingsNext]_settingVars => SettingsTyped'
  BY SettingsTypeStep
<1>2. SettingsTyped /\ SettingsInv /\ [SettingsNext]_settingVars => SettingsInv'
  BY SettingsStep
<1>3. SettingsInv => SettingsStay
  BY DEF SettingsInv, SettingsStay, UntouchedAsAsked
<1> QED BY <1>1, <1>2, <1>3, InitialSettings, PTL DEF SettingsSpec
=============================================================================
