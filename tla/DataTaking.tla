----------------------------- MODULE DataTaking -----------------------------
(***************************************************************************)
(* The commands of cmd.cpp that take data, as the calls they make (see     *)
(* Calls).  They run until a key is pressed.  Between two readings the     *)
(* triggers and the DAQ are stopped, except with external triggers.        *)
(***************************************************************************)
EXTENDS ModuleTests

-----------------------------------------------------------------------------
\* By hand.

dopen == <<AnyOf(Channels, LAMBDA ch : <<Daq_Open(ch)>>)>>
\* Mutant: without a flush.
dcloseUnsent == ForChannels(LAMBDA ch : <<Daq_Close(ch)>>)

dclose == <<Either(<<ForChannels(LAMBDA ch : <<Daq_Close(ch)>>),
                     <<AnyOf(Channels, LAMBDA ch : <<Daq_Close(ch)>>)>>>>), Flush>>
dreset == <<Send, Flush>>   \* dreset, dmodres
dstart == <<AnyOf(Channels, LAMBDA ch : <<Daq_Start(ch)>>), Flush>>
dstop == <<Either(<<StopChannels, <<AnyOf(Channels, LAMBDA ch : <<Daq_Stop(ch)>>)>>>>), Flush>>
dsize == <<Ask>>
dread == <<Daq_Read(0)>>
dreadm == <<AnyOf(Channels, LAMBDA ch : <<Daq_Read(ch)>>)>>

-----------------------------------------------------------------------------
\* A ROC.

\* Mutant: the triggers go on while the data are read.
takedataPeriodLive(period) ==
    <<Daq_Start(0), IF period = 1 THEN Pg_Stop ELSE Pg_Loop, SetTimeout("short"), Flush,
      Again(<<Flush, Daq_Stop(0), Daq_Read(0), Daq_Start(0), Flush>>),
      Daq_Stop(0), Pg_Stop, SetTimeout("long"), Flush>>

\* With the pattern generator (period > 1) it is stopped, and the DAQ with
\* it, before the data are read; external triggers (period 1) come on.
takedataPeriod(period) ==
    LET ifloop(p) == IF period > 1 THEN p ELSE <<>> IN
    <<Daq_Start(0), IF period = 1 THEN Pg_Stop ELSE Pg_Loop, SetTimeout("short"), Flush,
      Again(<<Flush>> \o ifloop(<<Pg_Stop, Daq_Stop(0)>>)
            \o <<Daq_Read(0)>> \o ifloop(<<Daq_Start(0), Pg_Loop>>) \o <<Flush>>),
      Daq_Stop(0)>>
    \o ifloop(<<Pg_Stop>>) \o <<SetTimeout("long"), Flush>>

takedata == <<AnyOf({1, 2}, takedataPeriod)>>

\* Mutant: the short timeout stays.
tdscanShort ==
    <<Pg_Stop, SetTimeout("short"), Flush>>
    \o Some(<<SetDAC("VthrComp", Scan), Flush, Daq_Start(0), Again(<<Pg_Single>>), Flush,
              Daq_Stop(0), Ask, Daq_Read(0)>>)
    \o <<Daq_Stop(0), Restore(0, "VthrComp"), Flush>>

\* A number of triggers at each threshold.
tdscan ==
    <<Pg_Stop, SetTimeout("short"), Flush>>
    \o Some(<<SetDAC("VthrComp", Scan), Flush, Daq_Start(0), Again(<<Pg_Single>>), Flush,
              Daq_Stop(0), Ask, Daq_Read(0)>>)
    \o <<Daq_Stop(0), Restore(0, "VthrComp"), SetTimeout("long"), Flush>>

\* One pixel is pulsed.
onevst ==
    Arm
    \o <<roc_Pix_Cal, Daq_Start(0), Pg_Loop, SetTimeout("short"), Flush,
         Again(<<Pg_Stop, Daq_Stop(0), Daq_Read(0), Daq_Start(0), Pg_Loop, Flush>>),
         Daq_Stop(0), Pg_Stop, SetTimeout("long")>>
    \o MaskPixel \o <<Flush>>

-----------------------------------------------------------------------------
\* A module.

\* Random triggers of the pattern generator, or external ones.
modtdPeriod(period) ==
    LET ifloop(p) == IF period > 1 THEN p ELSE <<>> IN
    StartChannels \o ifloop(<<Pg_Loop>>)
    \o <<Flush,
         Again(<<Flush>> \o ifloop(<<Pg_Stop>> \o StopChannels)
               \o ForChannels(LAMBDA ch : <<Daq_Read(ch)>>)
               \o ifloop(StartChannels \o <<Pg_Loop, Flush>>))>>
    \o StopChannels \o <<Pg_Stop, Flush>>

modtd == <<AnyOf({1, 2}, modtdPeriod)>>

\* The phases of the TBM, one trigger at each; channel 0 is read for all.
tbmscan ==
    <<Pg_Stop>>
    \o Some(<<Pg_Stop, Send, Flush>> \o StartChannels \o <<Pg_Single>> \o StopChannels
            \o ForChannels(LAMBDA ch : <<Daq_Read(0)>>))
    \o StopChannels \o <<Flush>>

\* The same with random triggers and all pixels on.
tbmscant ==
    EnableSelected \o <<Pg_Stop>> \o StartChannels
    \o Some(<<Trigger_Select("other"), Send, Flush,
              Again(<<Flush>> \o ForChannels(LAMBDA ch : <<Daq_Read(ch)>>))>>)
    \o <<Trigger_Select("pg")>> \o StopChannels \o <<Flush>> \o MaskSelected
=============================================================================
