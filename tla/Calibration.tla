----------------------------- MODULE Calibration -----------------------------
(***************************************************************************)
(* What the DW1000 driver computes to hold bandwidth and transmit power    *)
(* steady while the temperature changes.                                   *)
(*                                                                         *)
(*   src/dw1000/src/deca_device.c         dwt_calcbandwidthtempadj,        *)
(*                                        _dwt_computetxpowersetting,      *)
(*                                        dwt_calcpowertempadj and the     *)
(*                                        temperature conversions          *)
(*   src/dw1000/include/deca_param_types.h  their factors                  *)
(***************************************************************************)
EXTENDS Integers, FiniteSetsExt

\* abs().
Abs(n) == IF n < 0 THEN -n ELSE n

\* A division of C integers, for a positive d: towards zero.
Truncated(n, d) == IF n < 0 THEN -((-n) \div d) ELSE n \div d

\* The highest k such that n - k * step <= bound: the turns of a loop that takes step off n.
Turns(n, bound, step) == IF n > bound THEN (n - bound + step - 1) \div step ELSE 0

-----------------------------------------------------------------------------
(***************************************************************************)
(* Bandwidth: a binary search for the PG_DELAY at which the pulse          *)
(* generator counts what it counted when the reference was taken.          *)
(***************************************************************************)
\* delta_lowest at the start: farther from the target no setting is taken.
MaxDelta == 300

\* Mutant: the bit under test stays set whatever was counted.
KeepBitAlways(raw, target) == TRUE

\* A count above the target asks for a higher PG_DELAY.
KeepBit(raw, target) == raw > target

SearchStart == [bw |-> 128, best |-> 0, lowest |-> MaxDelta]

\* A turn of the loop of dwt_calcbandwidthtempadj, which decides one more bit of the
\* setting.  Count[d] is what the chip counts at PG_DELAY d.
SearchTurn(Count, target, s, bit) ==
  LET guess == s.bw + bit
      delta == Abs(Count[guess] - target)
  IN  [bw     |-> IF KeepBit(Count[guess], target) THEN guess ELSE s.bw,
       best   |-> IF delta < s.lowest THEN guess ELSE s.best,
       lowest |-> IF delta < s.lowest THEN delta ELSE s.lowest]

SearchStates == [bw : 128 .. 255, best : 0 .. 255, lowest : 0 .. MaxDelta]

\* Its seven turns, from 0x80.
BandwidthSearch(Count, target) ==
  LET Turn(bit) == [s \in SearchStates |-> SearchTurn(Count, target, s, bit)]
      upper == Turn(16)[Turn(32)[Turn(64)[SearchStart]]]
      lower == Turn(1)[Turn(2)[Turn(4)[Turn(8)[upper]]]]
  IN  lower.best

\* What it promises: of the settings 0x81 to 0xFF the one that counts closest to the
\* target, and 0 when none comes nearer than MaxDelta.
IsClosest(Count, target, bw) ==
  LET Delta(d) == Abs(Count[d] - target)
      near     == {d \in 129 .. 255 : Delta(d) < MaxDelta}
  IN  IF near = {} THEN bw = 0
      ELSE bw \in near /\ \A d \in near : Delta(bw) <= Delta(d)

-----------------------------------------------------------------------------
(***************************************************************************)
(* Power.  A byte of TX_POWER is an attenuation, in steps of 2.5 dB, and a *)
(* mixer gain, in steps of 0.5 dB.                                         *)
(***************************************************************************)
DaAttn(byte)    == byte \div 32
MixerGain(byte) == byte % 32

MixDaFactor == 5

\* In steps of 0.5 dB, from the weakest to the strongest.
Power(byte) == MixerGain(byte) - MixDaFactor * DaAttn(byte)

\* Mutant: the attenuation is changed once at most.
DaAttnChangeOnce(byte, adj) ==
  LET gain == MixerGain(byte) + adj
  IN  IF gain > 20 THEN -1 ELSE IF gain < 4 THEN 1 ELSE 0

\* da_attn_change when the while loop ends: 2.5 dB from the mixer to the attenuator
\* in each turn until the gain lies in 4 .. 20.  The eighth turn that raises the
\* attenuation ends the loop; no turn that lowers it does, as da_attn_change is
\* compared with 0 after it was decremented.
DaAttnChange(byte, adj) ==
  LET gain == MixerGain(byte) + adj
  IN  IF gain > 20 THEN -Turns(gain, 20, MixDaFactor)
      ELSE Min({7, Turns(4, gain, MixDaFactor)})

\* _dwt_computetxpowersetting, for one of the register's four bytes.
ComputeTxPowerSetting(byte, adj) ==
  LET da   == DaAttnChange(byte, adj)
      gain == MixerGain(byte) + adj + MixDaFactor * da
  IN  ((DaAttn(byte) + da) % 8) * 32 + (gain % 32)

\* TEMP_COMP_FACTOR_CH2 and TEMP_COMP_FACTOR_CH5; other channels are not compensated.
TempCompFactor(chan) == CASE chan = 2 -> 327 [] chan = 5 -> 607 [] OTHER -> 0

\* The adjustment in steps of 0.5 dB for a change of the temperature, in raw units.
PowerAdj(chan, deltaTemp) == Truncated(deltaTemp * TempCompFactor(chan), 4096)

\* dwt_calcpowertempadj, for one of the register's four bytes.
CalcPowerTempAdj(chan, byte, deltaTemp) ==
  IF PowerAdj(chan, deltaTemp) = 0 THEN byte
  ELSE ComputeTxPowerSetting(byte, PowerAdj(chan, deltaTemp))

\* Is there an attenuation of 0 .. 7 for it?
WithinAttenuator(byte, adj) ==
  /\ DaAttn(byte) + DaAttnChange(byte, adj) \in 0 .. 7
  /\ Turns(4, MixerGain(byte) + adj, MixDaFactor) <= 7

-----------------------------------------------------------------------------
(***************************************************************************)
(* Temperatures, raw and in tenths of a degree.                            *)
(***************************************************************************)
\* DCELCIUS_TO_SAR_TEMP_CONV.
TempConv == 22

\* dwt_convertdegtemptoraw; tempP is the raw value at 23 degrees.
DegTempToRaw(tenths, tempP) == (Truncated((tenths - 225) * TempConv, 256) + tempP) % 256

\* dwt_convertrawtemperature, its float cut to a tenth of a degree.
RawToTenths(raw, tempP) == Truncated((raw - tempP) * 114, 10) + 230
=============================================================================
