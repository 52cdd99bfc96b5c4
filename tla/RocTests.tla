------------------------------ MODULE RocTests ------------------------------
(***************************************************************************)
(* The tests of one ROC in cmd.cpp, as the calls they make (see Calls).    *)
(* Loops over columns, rows and points of a scan are cut down to Again;    *)
(* what the data say is a choice of the branch the program takes; the      *)
(* choice of the deserializer and the delays are left out.  ROC 0 stands   *)
(* where the code has the constant 0.                                      *)
(***************************************************************************)
EXTENDS Calls

Scannable == Dacs \ {"CtrlReg"}     \* PAR_INT( dac, 1, 32 ): no registers

-----------------------------------------------------------------------------
\* One pixel.

GetPixData(r) ==
    <<roc_I2cAddr(r)>> \o Arm
    \o <<roc_Pix_Cal, SetTrimValues(r), Daq_Start(ChannelOf(r)),
         LoopSingleRoc(r, {}), Daq_Stop(ChannelOf(r)), Ask,
         Daq_Read(ChannelOf(r))>>
    \o MaskPixel \o <<Flush>>

\* Mutant: the pixel stays on.
fireArmed == Arm \o <<roc_Pix_Cal, Daq_Start(0), Flush, Again(<<Pg_Single>>), Flush,
                      Daq_Stop(0), Ask, Daq_Read(0), Flush>>

fire == Arm \o <<roc_Pix_Cal, Daq_Start(0), Flush, Again(<<Pg_Single>>), Flush,
                 Daq_Stop(0), Ask, Daq_Read(0)>>
        \o MaskPixel \o <<Flush>>

fire2 == Arm \o <<roc_Pix_Cal, roc_Pix_Trim, roc_Pix_Cal, Daq_Start(0),
                  Again(<<Pg_Single>>), Daq_Stop(0), Ask, Daq_Read(0),
                  roc_Pix_Mask>>
         \o MaskPixel \o <<Flush>>

\* The scan of DAC d with one pixel of ROC r.  VD and VA (dac > 30) are
\* stepped by the program, the DACs of the ROC by the FPGA.
DacScanPix(r, d) ==
    LET ch == ChannelOf(r) IN
    <<roc_I2cAddr(r)>> \o Arm
    \o <<roc_Pix_Cal, SetTrimValues(r), Daq_Start(ch), Flush, Keep("val", r, d),
         Try(Some(<<LoopSingleRoc(r, {d})>>)),
         Daq_Stop(ch), Ask, Try(ReadAll(ch)), SetDAC(d, Kept("val"))>>
    \o MaskPixel \o <<Flush>>

\* The threshold is where the counts of the scan rise.
ThrPix(r, d) == DacScanPix(r, d)

\* Mutant: dacval gets the result and the chip does not.
setcaldelCopyOnly(r) ==
    <<Call(DacScanPix(r, "CalDel")),
      Either(<<<<SetCopy(r, "CalDel", New)>>, <<Restore(r, "CalDel")>>>>), Flush>>

\* A plateau wide enough is found, or the value goes back to what it was.
setcaldel(r) ==
    <<Call(DacScanPix(r, "CalDel")),
      Either(<<SetBoth(r, "CalDel", New), <<Restore(r, "CalDel")>>>>), Flush>>

caldel == <<Call(setcaldel(0))>>

caldelmap ==
    <<SetDAC("CtrlReg", Scan), SetDAC("Vcal", Scan)>>
    \o Some(<<roc_Col_Enable(1)>>
            \o Some(<<roc_Pix_Trim, Call(ThrPix(0, "Vcal")),
                      roc_Pix_Mask, roc_ClrCal, Flush>>)
            \o <<roc_Col_Enable(0), Flush>>)
    \o <<Restore(0, "Vcal"), Restore(0, "CalDel"), Restore(0, "CtrlReg"), Flush>>

phdac(r) == <<AnyOf(Scannable, LAMBDA d : <<Call(DacScanPix(r, d))>>)>>

calsdacOf(d) ==
    <<SetDAC("CtrlReg", Scan), Call(DacScanPix(0, d)), Restore(0, "CtrlReg"), Flush>>
calsdac == <<AnyOf(Scannable, calsdacOf)>>

effvsdac(r, d) == DacScanPix(r, d)
effdac(r) == <<AnyOf(Scannable, LAMBDA d : <<Call(effvsdac(r, d))>>)>>

thrdacOf(d) ==
    <<SetDAC("CtrlReg", Scan)>> \o Arm
    \o <<Flush>> \o Some(<<SetDAC(d, Scan), Flush, Call(ThrPix(0, "Vcal"))>>)
    \o <<roc_Col_Enable(0), roc_ClrCal, roc_Pix_Mask,
         Restore(0, d), Restore(0, "CtrlReg"), Flush>>
thrdac == <<AnyOf(Scannable, thrdacOf)>>

modthrdacOf(d) ==
    <<roc_I2cAddr(0), SetDAC("CtrlReg", Scan), Flush>>
    \o Some(<<SetDAC(d, Scan), Flush, Call(ThrPix(0, "Vcal"))>>)
    \o <<Restore(0, d), Restore(0, "CtrlReg"), Flush>>
modthrdac == <<AnyOf(Scannable, modthrdacOf)>>

-----------------------------------------------------------------------------
\* All pixels of ROC 0.

\* Behind the loop of triggers over all pixels; the DAQ runs already.
GetEff == <<Try(<<LoopSingleRoc(0, {})>>), Daq_Stop(0), Ask, Try(ReadAll(0))>>

GetRocData == <<Daq_Start(0)>> \o Arm \o <<Flush>> \o GetEff \o MaskRoc \o <<Flush>>

geteffmap == <<Call(GetRocData)>>
effmap == <<Call(geteffmap)>>
phmap == <<Call(GetRocData)>>
calsmap == <<Call(GetRocData)>>

\* Mutant: CtrlReg stays as it was for the test.
bbtestLeaves ==
    <<SetDAC("CtrlReg", Scan), SetDAC("Vcal", Scan), Flush, Call(GetRocData),
      Restore(0, "Vcal"), Flush>>

\* Mutant: dacval is changed for the time of the test.
bbtestInCopy ==
    <<Keep("ctl", 0, "CtrlReg")>> \o SetBoth(0, "CtrlReg", New)
    \o <<SetDAC("Vcal", Scan), Flush, Call(GetRocData), Restore(0, "Vcal")>>
    \o SetBoth(0, "CtrlReg", Kept("ctl")) \o <<Flush>>

\* Bump bonding: charge through the sensor.
bbtest ==
    <<SetDAC("CtrlReg", Scan), SetDAC("Vcal", Scan), Flush, Call(GetRocData),
      Restore(0, "Vcal"), Restore(0, "CtrlReg"), Flush>>

CalDelRoc ==
    Arm \o <<Flush>>
    \o Some(<<SetDAC("CalDel", Scan), Daq_Start(0), Flush, Call(GetEff)>>)
    \o MaskRoc
    \o <<Flush, Either(<<<<SetDAC("CalDel", New), Flush, SetCopy(0, "CalDel", New)>>,
                        <<Restore(0, "CalDel")>>>>)>>

caldelroc == <<Call(CalDelRoc)>>

vanaroc ==
    Arm \o <<Flush>>
    \o Some(<<SetDAC("Vana", Scan), Daq_Start(0), Flush, Call(GetEff), Ask>>)
    \o MaskRoc \o <<Flush, Restore(0, "Vana")>>

\* GetRocData starts the DAQ again.
gaindac ==
    Some(<<SetDAC("Vcal", Scan), Daq_Start(0), Flush, Call(GetRocData)>>)
    \o <<Restore(0, "Vcal"), Flush>>

\* The thresholds of ROC r, measured through ThrPix( 0, ... ).
RocThrMap(r) ==
    <<roc_I2cAddr(r), Flush>>
    \o Some(<<roc_Col_Enable(1)>>
            \o Some(<<roc_Pix_Trim, Call(ThrPix(0, "Vcal")), roc_Pix_Mask>>)
            \o <<roc_Col_Enable(0)>>)
    \o <<Restore(r, "Vcal"), Flush>>

thrmap ==
    <<EachRoc([r \in Rocs |->
        <<roc_I2cAddr(r), SetDAC("CtrlReg", Scan), Call(RocThrMap(r)),
          Restore(r, "CtrlReg"), Flush>>])>>

\* S-curves of all pixels, in blocks as large as the memory of the board.
thrmapsc ==
    <<SetDAC("CtrlReg", Scan)>> \o Arm \o <<Flush>>
    \o Some(<<Daq_Start(0), Try(<<LoopSingleRoc(0, {"Vcal"})>>), Ask, Daq_Stop(0),
              Try(ReadAll(0))>>)
    \o MaskRoc \o <<Restore(0, "Vcal"), Restore(0, "CtrlReg"), Flush>>

scanvthr ==
    <<roc_I2cAddr(0), SetDAC("CtrlReg", Scan), Flush>>
    \o Some(<<SetDAC("VthrComp", Scan), Call(RocThrMap(0))>>)
    \o <<Restore(0, "CtrlReg"), Restore(0, "VthrComp"), Restore(0, "Vcal"), Flush>>

\* With cals (nTrig < 0) the large Vcal is set.
dacscanroc(d) ==
    Arm
    \o <<Maybe(<<SetDAC("CtrlReg", Scan)>>), Flush>>
    \o Some(<<Daq_Start(0), Try(<<LoopSingleRoc(0, {d})>>), Daq_Stop(0), Ask,
              Try(ReadAll(0))>>)
    \o <<Restore(0, d), Restore(0, "CtrlReg")>> \o MaskRoc \o <<Flush>>

dacscanrocCommand == <<AnyOf(Scannable, LAMBDA d : <<Call(dacscanroc(d))>>)>>

\* The loop of dacdac scans both DACs; after the tornado plot (CalDel and
\* VthrComp) they are set to the working point.
dacdac(d1, d2) ==
    <<Daq_Start(0)>> \o Arm
    \o <<Flush, Try(<<LoopSingleRoc(0, {d1, d2})>>), Daq_Stop(0), Ask,
         Restore(0, d1), Restore(0, d2)>>
    \o MaskRoc \o <<Flush, Ask, Try(ReadAll(0)), Flush>>
    \o (IF d1 = "CalDel" /\ d2 = "VthrComp"
        THEN <<Maybe(SetBoth(0, d1, New) \o SetBoth(0, d2, New))>> ELSE <<>>)

dacdacCommand ==
    <<AnyOf({d \in Scannable \X Scannable : d[1] # d[2]},
            LAMBDA d : <<Call(dacdac(d[1], d[2]))>>)>>

readback ==
    <<Pg_Stop, Daq_Start(0), Again(<<Pg_Single>>), Daq_Stop(0), Daq_Read(0)>>
=============================================================================
