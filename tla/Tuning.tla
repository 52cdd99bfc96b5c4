------------------------------- MODULE Tuning -------------------------------
(***************************************************************************)
(* The procedures of cmd.cpp that search for the setting of a DAC or for   *)
(* trim bits.  A value tried on the way is Scan, the one settled upon New; *)
(* what is written to the chip has to go to dacval too.                    *)
(***************************************************************************)
EXTENDS ModuleTests

CONSTANT SeedResponds   \* TRUE: the pixel chosen responds at each Vcal, so
                        \* that tunePHmod does not give up

-----------------------------------------------------------------------------
\* Analog current.

setia ==
    <<Maybe(SetBoth(0, "Vana", New) \o <<Flush>>), Ask,
      Again(SetBoth(0, "Vana", New) \o <<Flush, Ask>>)>>

optia == <<Call(setia)>>

\* All 16 ROCs are set to 0, the selected ones back one after the other.
setiamod ==
    <<EveryRoc([r \in Rocs |-> <<roc_I2cAddr(r), SetDAC("Vana", Scan)>>]), Flush, Ask,
      EachRoc([r \in Rocs |->
          <<roc_I2cAddr(r), Restore(r, "Vana"), Flush, Ask,
            Again(<<SetDAC("Vana", New), Flush, Ask, SetCopy(r, "Vana", New)>>),
            SetDAC("Vana", Scan), Flush>>]),
      EachRoc([r \in Rocs |-> <<roc_I2cAddr(r), Restore(r, "Vana"), Flush>>])>>

optiamod == <<Call(setiamod)>>

-----------------------------------------------------------------------------
\* Thresholds of a module.

\* Trim bits are given to all pixels of the selected ROCs.
AllTrims ==
    <<EachRoc([r \in Rocs |-> <<roc_I2cAddr(r), NewTrims(r), SetTrimValues(r)>>]), Flush>>

modvthrcomp ==
    AllTrims
    \o <<Call(ModThrMap),
         EachRoc([r \in Rocs |->
           <<roc_I2cAddr(r), SetDAC("CtrlReg", Scan),
             Again(<<SetDAC("VthrComp", Scan), Flush, Call(ThrPix(r, "Vcal"))>>)>>
           \o SetBoth(r, "VthrComp", New)
           \o <<Restore(r, "CtrlReg"), Flush>>])>>

\* The hardest pixel has trim 0 meanwhile, and 15 again at the end.
modvtrim ==
    AllTrims
    \o <<Call(ModThrMap),
         EachRoc([r \in Rocs |->
           <<roc_I2cAddr(r), NewTrims(r), SetDAC("CtrlReg", Scan)>>
           \o Some(<<SetDAC("Vtrim", Scan), Flush, Call(ThrPix(r, "Vcal"))>>)
           \o SetBoth(r, "Vtrim", New)
           \o <<Restore(r, "CtrlReg"), NewTrims(r)>> \o MaskPixel \o <<Flush>>])>>

\* ROCs with thresholds below the target keep the trims.
modtrimscale ==
    AllTrims
    \o <<Call(ModThrMap), EachRoc([r \in Rocs |-> <<Maybe(<<NewTrims(r)>>)>>])>>
    \o LoadTrims

modtrimstep ==
    LoadTrims
    \o <<Call(ModThrMap), EachRoc([r \in Rocs |-> <<NewTrims(r)>>])>>
    \o LoadTrims

-----------------------------------------------------------------------------
\* Noise: pixels that answer random triggers.

\* A second of random triggers at a time; each channel is stopped, and the
\* data of channel 0 are read for each.
NoiseRun ==
    StartChannels \o <<Pg_Loop, Flush>>
    \o Some(<<Flush, Pg_Stop>>
            \o ForChannels(LAMBDA ch : <<Daq_Stop(ch), Daq_Read(0)>>)
            \o StartChannels \o <<Pg_Loop, Flush>>)
    \o <<Pg_Stop>> \o StopChannels \o <<Flush>>

\* The trim bits of a hot pixel are raised, or it is masked; one pixel of a
\* ROC stands for all of them.
RaiseTrims ==
    <<EachRoc([r \in Rocs |->
        <<Maybe(<<NewTrims(r), roc_I2cAddr(r),
                  Either(<<<<roc_Pix_Mask>>, <<roc_Pix_Trim>>>>)>>)>>]), Flush>>

modtrimbits == EnableSelected \o Some(NoiseRun \o RaiseTrims) \o MaskSelected

subtb == <<EachRoc([r \in Rocs |-> <<Maybe(<<NewTrims(r)>>)>>])>>

\* As modtrimbits; the bits of quiet pixels are lowered, too.
modnoise == EnableSelected \o Some(NoiseRun \o RaiseTrims) \o MaskSelected

-----------------------------------------------------------------------------
\* Pulse height: gain and offset bring it into the range of the ADC.

Tried(d) == <<SetDAC(d, New), Flush>>
AtVcal == <<SetDAC("Vcal", Scan), Flush>>

\* The scans of offset and gain with the seed pixel, at both ends of Vcal.
tunePHScans(r) ==
    <<SetDAC("PHScale", Scan), Flush, SetDAC("Vcal", Scan), Flush,
      Call(DacScanPix(r, "PHOffset")), SetDAC("Vcal", Scan), Flush,
      Call(DacScanPix(r, "PHOffset"))>> \o Tried("PHOffset")
    \o AtVcal \o <<Call(DacScanPix(r, "PHScale"))>>
    \o AtVcal \o <<Call(DacScanPix(r, "PHScale"))>> \o Tried("PHScale")

\* Overflows of any pixel, then underflows: the gain is lowered.
tunePHPixels ==
    AtVcal \o <<Again(<<Call(GetRocData)>> \o Tried("PHScale")), Call(GetRocData)>>
    \o AtVcal \o <<Again(<<Call(GetRocData)>> \o Tried("PHScale")), Call(GetRocData)>>

\* Fine tuning with the highest and the lowest pixel; then the values found
\* are taken over and what was changed for the test is set back.
tunePHEnd(r) ==
    LET measure == AtVcal \o <<Call(GetPixData(r))>> \o AtVcal \o <<Call(GetPixData(r))>>
    IN
    <<Again(measure \o <<Maybe(Tried("PHOffset"))>> \o Tried("PHScale"))>>
    \o measure
    \o <<SetCopy(r, "PHOffset", New), SetCopy(r, "PHScale", New),
         Restore(r, "Vcal"), Restore(r, "CtrlReg"), Flush>>

tunePH(r) ==
    <<Call(DacScanPix(r, "Vcal")), Maybe(<<Return>>)>>
    \o tunePHScans(r) \o tunePHPixels \o tunePHEnd(r)

tune == <<Call(tunePH(0))>>

\* ModPixelAlive leaves the address at the last of the selected ROCs; the
\* next DAC goes there unless DacScanPix has addressed r again.
tunePHmodPixels(r) ==
    AtVcal
    \o <<Again(<<Call(ModPixelAlive), Call(DacScanPix(r, "PHScale")),
                 Maybe(<<SetDAC("PHOffset", New)>>)>> \o Tried("PHScale")),
         Call(ModPixelAlive)>>
    \o AtVcal
    \o <<Again(<<Call(ModPixelAlive), Call(DacScanPix(r, "PHScale"))>> \o Tried("PHScale")),
         Call(ModPixelAlive)>>

tunePHmod(r) ==
    <<SetDAC("CtrlReg", Scan), Flush, Call(DacScanPix(r, "Vcal"))>>
    \o (IF SeedResponds THEN <<>> ELSE <<Maybe(<<Return>>)>>)
    \o tunePHScans(r) \o tunePHmodPixels(r) \o tunePHEnd(r)

\* Two maps of all ROCs, selected or not, look for sick pixels.
SickPixels(d) ==
    <<EveryRoc([r \in Rocs |->
        <<roc_I2cAddr(r)>> \o d
        \o <<SetDAC("Vcal", Scan), SetDAC("PHScale", Scan), SetDAC("PHOffset", Scan)>>]),
      Flush, Call(ModPixelAlive)>>

modtune ==
    SickPixels(<<SetDAC("CtrlReg", Scan)>>) \o SickPixels(<<>>)
    \o <<EveryRoc([r \in Rocs |->
           <<roc_I2cAddr(r), Restore(r, "PHOffset"), Restore(r, "PHScale"),
             Restore(r, "Vcal"), Restore(r, "CtrlReg")>>]), Flush,
         EveryRoc([r \in Rocs |-> <<roc_I2cAddr(r), Call(tunePHmod(r))>>])>>

-----------------------------------------------------------------------------
\* Thresholds of a single ROC.

\* The trim bits are changed, and changed back where that made it worse.
TrimStep ==
    <<NewTrims(0), Call(RocThrMap(0)), Maybe(<<NewTrims(0)>>)>>

\* VthrComp is moved until the threshold of the softest pixel is the target.
SearchVthrComp ==
    Arm \o <<Flush,
      Again(<<SetDAC("VthrComp", Scan), Flush, Call(ThrPix(0, "Vcal"))>>)>>
    \o SetBoth(0, "VthrComp", New)
    \o MaskPixel
    \o <<Flush, Restore(0, "CtrlReg"), Restore(0, "Vcal"), Flush>>

\* The softest of five pixels ...
vthrcomp5 ==
    <<roc_I2cAddr(0), SetDAC("CtrlReg", Scan), Flush>>
    \o Some(Arm \o <<Call(ThrPix(0, "Vcal")), roc_Pix_Mask, roc_Col_Enable(0)>>)
    \o <<Restore(0, "Vcal"), Flush>> \o SearchVthrComp

\* ... and of all pixels.
vthrcomp ==
    <<roc_I2cAddr(0), SetDAC("CtrlReg", Scan), Call(RocThrMap(0))>> \o SearchVthrComp

\* Vtrim is found with the hardest pixel, the trim bits in four steps.  The
\* FPGA gets roctrm, the bits before the last step.
trimStart == <<roc_I2cAddr(0), SetDAC("CtrlReg", Scan), NewTrims(0), Call(RocThrMap(0))>>

trimGoesOn ==
    <<NewTrims(0), roc_Col_Enable(1), Flush>>
    \o Some(<<SetDAC("Vtrim", Scan), Flush, Call(ThrPix(0, "Vcal"))>>)
    \o SetBoth(0, "Vtrim", New) \o MaskPixel \o <<Flush, NewTrims(0),
         Call(TrimStep), Call(TrimStep), Call(TrimStep), Call(TrimStep),
         SetOtherTrims(0), Restore(0, "CtrlReg"), Restore(0, "Vcal"), Flush>>

\* A threshold below the target, or none: CtrlReg stays as it is.
trim(skips) == trimStart \o (IF skips THEN <<Maybe(trimGoesOn)>> ELSE trimGoesOn)

\* Trim bits are raised until the pixel answers each trigger.
trimbits ==
    <<roc_I2cAddr(0), Call(GetRocData),
      Again(Some(<<NewTrims(0), SetTrimValues(0), Flush, Call(GetPixData(0))>>))>>
=============================================================================
