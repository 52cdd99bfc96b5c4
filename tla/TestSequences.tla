--------------------------- MODULE TestSequences ---------------------------
(***************************************************************************)
(* The commands of cmd.cpp that take a chip or a module through the tests: *)
(* oneroc and bare, and mt, which begins and ends with the power off.      *)
(***************************************************************************)
EXTENDS Tuning, Settings

\* CtrlReg of ROC r for large or small Vcal, in dacval as well.
SetRange(r) == SetBoth(r, "CtrlReg", New)

\* Analog current, CalDel for a pixel that responds, response map, VthrComp
\* for the target threshold, pulse height.
chip ==
    <<Call(setia), Maybe(<<Return>>), Keep("ctl", 0, "CtrlReg")>>
    \o SetRange(0)
    \o Some(<<Call(setcaldel(0))>>)
    \o <<Maybe(<<Return>>), Call(geteffmap)>>
    \o SetRange(0)
    \o <<Call(effvsdac(0, "Vcal")),
         Again(SetBoth(0, "VthrComp", New)
               \o <<Call(setcaldel(0)), Call(effvsdac(0, "Vcal"))>>)>>
    \o SetRange(0)
    \o <<Call(tunePH(0))>>

\* CtrlReg gets its value back.
endOfChip == SetBoth(0, "CtrlReg", Kept("ctl")) \o <<Flush>>

oneroc == chip \o SetRange(0) \o <<Call(dacscanroc("Vcal"))>> \o endOfChip

\* With or without the Hansen test of bump heights.
bare ==
    chip
    \o <<Either([h \in 1 .. 2 |->
          LET ifHansen(p) == IF h = 1 THEN p ELSE <<>> IN
          ifHansen(SetRange(0) \o <<Call(dacscanroc("Vcal"))>>)
          \o SetRange(0)
          \o <<Call(dacdac("CalDel", "VthrComp"))>>
          \o ifHansen(<<Call(dacscanroc("Vcal"))>>)
          \o <<Call(dacscanroc("VthrComp"))>>])>>
    \o endOfChip

-----------------------------------------------------------------------------
\* The module test.

CloseChannels == ForChannels(LAMBDA ch : <<Daq_Close(ch)>>)

\* Mutant: the sensor is biased longer than the chips have power.
PowerDownFirst == CloseChannels \o <<Poff, Flush, HVoff, Flush>>

PowerDown == CloseChannels \o <<HVoff, Flush, Poff, Flush>>

\* Delays, power, and the current of a module that is there.
mtBoard ==
    <<Flush, Sig_SetDelay("new"), SetPhase("new"), Pon, Flush, Ask,
      Maybe(<<Poff, Flush, Return>>)>>
    \o (IF 4 \in Rocs THEN <<Maybe(<<roc_I2cAddr(0), Send, roc_I2cAddr(4)>>)>> ELSE <<>>)
    \o <<Send, Flush>>

\* All ROCs are selected and get default values, the HV is switched on.
mtModule ==
    ForChannels(LAMBDA ch : <<Daq_Open(ch), Daq_Stop(ch)>>)
    \o <<Select(Rocs)>> \o EachDAC(SetDACallROCs)
    \o <<Flush, EachRoc([r \in Rocs |-> <<roc_I2cAddr(r), roc_ClrCal, roc_Chip_Mask>>]), Flush,
         HVon, Flush, Ask>>

\* CalDel of each ROC at large Vcal.
mtCalDel ==
    <<EachRoc([r \in Rocs |->
        <<roc_I2cAddr(r), Keep("ctl", r, "CtrlReg")>> \o SetRange(r)
        \o <<Call(setcaldel(r)), SetDAC("CtrlReg", Kept("ctl")), Flush,
             SetCopy(r, "CtrlReg", Kept("ctl"))>>])>>

mt ==
    LET unless(failed) == <<Maybe(failed \o <<Return>>)>> IN
    mtBoard \o mtModule \o unless(PowerDown)
    \o <<Pg_Stop, Pg_Single, Flush>>
    \o <<Either([b \in 1 .. 2 |->
          LET ifBB(p) == IF b = 1 THEN p ELSE <<>> IN
          ifBB(<<Call(setiamod)>> \o unless(PowerDown) \o <<Ask>> \o unless(PowerDown))
          \o <<Call(GetSdata), Maybe(<<Call(GetSdata)>>)>>
          \o mtCalDel \o unless(PowerDown)
          \o <<Call(ModMap)>>
          \o ifBB(<<Call(DacScanMod("VthrComp"))>>)])>>
    \o <<HVoff, Flush>> \o CloseChannels \o <<Poff, Flush>>
=============================================================================
