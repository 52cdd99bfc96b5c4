----------------------------- MODULE ModuleTests -----------------------------
(***************************************************************************)
(* The tests of a module in cmd.cpp: the selected ROCs are scanned by one  *)
(* loop of triggers, and their data come on several channels.              *)
(***************************************************************************)
EXTENDS RocTests

\* modtrm is loaded into the FPGA for each selected ROC.
LoadTrims ==
    <<EachRoc([r \in Rocs |-> <<roc_I2cAddr(r), SetTrimValues(r)>>]), Flush>>

StartChannels == ForChannels(LAMBDA ch : <<Daq_Start(ch)>>)

StopChannels == ForChannels(LAMBDA ch : <<Daq_Stop(ch)>>)

\* Mutant: the data of channel 0 for each channel.
ReadChannelsOfOne ==
    ForChannels(LAMBDA ch : <<Ask, Daq_Stop(ch), Try(ReadAll(0))>>)

\* Each channel is stopped and read; an exception ends the function.
ReadChannels ==
    ForChannels(LAMBDA ch : <<Ask, Daq_Stop(ch), Try(ReadAll(ch))>>)

\* The FPGA sends the data of a scan in blocks (while done == 0).
ScanBlocks(ds) ==
    Some(StartChannels \o <<Try(<<LoopMultiRoc(ds)>>)>> \o ReadChannels)

\* All pixels of the selected ROCs.
EnableSelected ==
    <<EachRoc([r \in Rocs |-> <<roc_I2cAddr(r), roc_ClrCal>> \o Arm]), Flush>>

modcaldel ==
    <<EachRoc([r \in Rocs |-> <<Call(setcaldel(r))>>])>>

\* One pixel of each ROC, the S-curve.
modpixsc ==
    <<EachRoc([r \in Rocs |-> <<roc_I2cAddr(r), SetDAC("CtrlReg", Scan)>> \o Arm]),
      Flush>>
    \o StartChannels
    \o <<Try(<<LoopMultiRoc({"Vcal"})>>)>>
    \o ReadChannels
    \o <<EachRoc([r \in Rocs |->
           <<roc_I2cAddr(r), Restore(r, "Vcal"), Restore(r, "CtrlReg")>> \o MaskRoc]),
         Flush>>

\* The last lines write the copy of DAC d into Vcal.
DacScanMod(d) ==
    LoadTrims
    \o ScanBlocks({d})
    \o <<EachRoc([r \in Rocs |->
           <<roc_I2cAddr(r), SetDAC("Vcal", Copy(r, d)), Restore(r, "CtrlReg")>>
           \o MaskRoc]),
         Flush>>

dacscanmod(ds) == <<AnyOf(ds, LAMBDA d : <<Call(DacScanMod(d))>>)>>

ModThrMap ==
    <<EachRoc([r \in Rocs |->
        <<roc_I2cAddr(r), SetDAC("CtrlReg", Scan), SetTrimValues(r)>>]), Flush>>
    \o ScanBlocks({"Vcal"})
    \o <<EachRoc([r \in Rocs |->
           <<roc_I2cAddr(r), Restore(r, "Vcal"), Restore(r, "CtrlReg")>> \o MaskRoc]),
         Flush>>

modthrmap == <<Call(ModThrMap)>>

ModPixelAlive == LoadTrims \o ScanBlocks({}) \o MaskSelected
ModMap == <<Call(ModPixelAlive)>>
modmap == <<Call(ModMap)>>
=============================================================================
