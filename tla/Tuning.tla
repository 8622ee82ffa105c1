------------------------------- MODULE Tuning -------------------------------
(***************************************************************************)
(* What dwt_configure writes to the DW1000's registers, out of the tables  *)
(* of deca_params_init.c.                                                  *)
(*                                                                         *)
(*   src/dw1000/src/deca_device.c         dwt_configure, _dwt_configlde    *)
(*   src/dw1000/src/deca_params_init.c                                     *)
(*                                                                         *)
(* A register holds the name of a table entry or the fields it is made of, *)
(* not their encoding.  SYS_CFG is in Dw1000Driver.                        *)
(***************************************************************************)
EXTENDS Naturals, Sequences

\* chan_idx: tables by channel have no entries for the channels 0 and 6.
ChanIdx == <<0, 1, 2, 3, 4, 0, 5>>

\* fs_pll_cfg, fs_pll_tune and tx_config have their entries in this order.
PerChannel == <<"CH1", "CH2", "CH3", "CH4", "CH5", "CH7">>

\* rx_config.
RxConfig == <<"NBW", "WBW">>

\* Mutant: channel 7 only.
IsWideOnlySeven(chan) == chan = 7

\* bw of dwt_configure.
IsWide(chan) == chan \in {4, 7}

EntryFor(chan) == PerChannel[ChanIdx[chan] + 1]

\* lde_replicaCoeff, which 110 kbps divides by 8.
ReplicaCoeff(c) == [code |-> c.rxCode, shift |-> IF c.dataRate = "110K" THEN 3 ELSE 0]

\* DRX_TUNE1b.
Tune1b(c) ==
  CASE c.dataRate = "110K"                     -> "110K"
    [] c.dataRate # "110K" /\ c.plen = 64      -> "6M8_PRE64"
    [] c.dataRate # "110K" /\ c.plen # 64      -> "850K_6M8"

\* DRX_TUNE4H, which 110 kbps leaves as it was.
Tune4h(c, before) ==
  IF c.dataRate = "110K" THEN before
  ELSE IF c.plen = 64 THEN "PRE64" ELSE "PRE128PLUS"

\* CHAN_CTRL.
ChanCtrl(c) ==
  [chan |-> c.chan, prf |-> c.prf, txCode |-> c.txCode, rxCode |-> c.rxCode,
   ownSfd |-> c.nsSfd]

\* The registers after dwt_configure, when they were before.
Configured(c, before) ==
  [ldeRepc   |-> ReplicaCoeff(c),
   ldeCfg2   |-> c.prf,
   fsPllCfg  |-> EntryFor(c.chan),
   fsPllTune |-> EntryFor(c.chan),
   rxCtrlH   |-> RxConfig[IF IsWide(c.chan) THEN 2 ELSE 1],
   txCtrl    |-> EntryFor(c.chan),
   tune0b    |-> <<c.dataRate, c.nsSfd>>,
   tune1a    |-> c.prf,
   tune1b    |-> Tune1b(c),
   tune4h    |-> Tune4h(c, before.tune4h),
   tune2     |-> <<c.prf, c.pac>>,
   sfdTO     |-> IF c.sfdTO = 0 THEN 4161 ELSE c.sfdTO,
   agc       |-> c.prf,
   usrSfd    |-> IF c.nsSfd THEN c.dataRate ELSE before.usrSfd,
   chanCtrl  |-> ChanCtrl(c),
   txFctrl   |-> <<c.plen, c.prf, c.dataRate>>,
   gear      |-> before.gear]

\* In DRX_TUNE2, in the place of a PAC: no confirmed SFD.
UNCONF_SFD == 0

\* dwt_configurefor64plen, after it: CRTR_GEAR, and the byte of DRX_TUNE2.
For64Plen(prf, before) ==
  [before EXCEPT !.gear = "64L", !.tune2 = <<prf, UNCONF_SFD>>]

\* dwt_configcwmode moves the synthesiser and the transmitter only.
ForCw(chan, before) ==
  [before EXCEPT !.fsPllCfg = EntryFor(chan), !.fsPllTune = EntryFor(chan),
                 !.txCtrl = EntryFor(chan)]

Rates   == {"110K", "850K", "6M8"}
Entries == {"CH1", "CH2", "CH3", "CH4", "CH5", "CH7"}
Prfs    == {16, 64}

\* The registers of a chip that has been configured.
Tunings ==
  [ldeRepc : [code : Nat, shift : {0, 3}], ldeCfg2 : Prfs,
   fsPllCfg : Entries, fsPllTune : Entries, rxCtrlH : {"NBW", "WBW"}, txCtrl : Entries,
   tune0b : Rates \X BOOLEAN, tune1a : Prfs, tune1b : {"110K", "6M8_PRE64", "850K_6M8"},
   tune4h : {"PRE64", "PRE128PLUS"}, tune2 : Prfs \X Nat,
   sfdTO : Nat, agc : Prfs, usrSfd : Rates \cup {"none"},
   chanCtrl : [chan : Nat, prf : Prfs, txCode : Nat, rxCode : Nat, ownSfd : BOOLEAN],
   txFctrl : Nat \X Prfs \X Rates, gear : {"DEF", "64L"}]

-----------------------------------------------------------------------------
(***************************************************************************)
(* What the registers of a configured chip owe each other, whatever was    *)
(* configured before.                                                      *)
(***************************************************************************)
\* The entry that must be chosen for a channel.
NameOf(chan) == CASE chan = 1 -> "CH1" [] chan = 2 -> "CH2" [] chan = 3 -> "CH3"
                  [] chan = 4 -> "CH4" [] chan = 5 -> "CH5" [] chan = 7 -> "CH7"

\* How a configuration must look in the registers: the entries are the channel's, the
\* receiver is wide for the channels 4 and 7, every block has the same PRF and rate.
Agree(t, c) ==
  /\ {t.fsPllCfg, t.fsPllTune, t.txCtrl} = {NameOf(c.chan)}
  /\ t.rxCtrlH = "WBW" <=> t.fsPllCfg \in {"CH4", "CH7"}
  /\ {t.ldeCfg2, t.tune1a, t.agc, t.tune2[1], t.txFctrl[2]} = {t.chanCtrl.prf}
  /\ t.chanCtrl.chan = c.chan /\ t.chanCtrl.prf = c.prf
  /\ {t.tune0b[1], t.txFctrl[3]} = {c.dataRate}
  /\ (t.tune1b = "110K") <=> (t.ldeRepc.shift = 3)
  /\ t.ldeRepc.code = t.chanCtrl.rxCode
  /\ t.chanCtrl.ownSfd => t.usrSfd = t.txFctrl[3]
=============================================================================
