---------------------------- MODULE MCChipSettings ----------------------------
(***************************************************************************)
(* Instances of ChipSettings for TLC: the firmware's own configuration,    *)
(* and others that differ from it in channel and bandwidth, PRF, rate,     *)
(* preamble and SFD, so that each stale register can show.                 *)
(***************************************************************************)
EXTENDS ChipSettings

Config(chan, prf, rate, plen, nsSfd) ==
  [chan |-> chan, prf |-> prf, dataRate |-> rate, plen |-> plen, pac |-> 8, nsSfd |-> nsSfd,
   txCode |-> IF prf = 64 THEN 9 ELSE 3, rxCode |-> IF prf = 64 THEN 9 ELSE 3,
   sfdTO |-> IF nsSfd THEN 129 ELSE 0]

FourConfigs == {Config(5, 64, "6M8", 128, TRUE), Config(2, 16, "6M8", 64, FALSE),
                Config(7, 64, "110K", 1024, TRUE), Config(4, 16, "850K", 256, FALSE)}

\* A pulse generator that counts more when it is colder; the third temperature is too
\* far away for any setting to reach the counts of the first.
ThreeTemperatures ==
  [t \in {0, 1, 2} |-> [d \in 0 .. 255 |-> 3000 - 4 * d + (CASE t = 0 -> 0 [] t = 1 -> 37 [] t = 2 -> 850)]]

SomeDelays    == {130, 201}
SomeBytes     == {0, 20, 31, 133, 224}
SomeDeltas    == {-90, 3, 14, 60}
SomeDistances == {-2, 0, 7, 84, 127, 254, 255, 300}
NoneOrBoth    == {{}, {"LNA", "PA"}}
=============================================================================
