------------------------------ MODULE Settings ------------------------------
(***************************************************************************)
(* The commands of cmd.cpp that set up the board and the chips, as the     *)
(* calls they make (see Calls).  They are typed at the prompt, where       *)
(* DO_FLUSH sends what was asked for.  A setting of the board of which no  *)
(* test depends is a Send.  The supply voltages are not among the DACs.    *)
(***************************************************************************)
EXTENDS Calls

CONSTANT DacOrder   \* the DACs in the order in which they are set

ASSUME DacOrderAssumption ==
    DacOrder \in Seq(Dacs) /\ Dacs = {DacOrder[k] : k \in DOMAIN DacOrder}

\* DO_FLUSH at the prompt
Command(p) == p \o <<Flush>>
OnSelected(Of(_)) == EachRoc([r \in Rocs |-> <<roc_I2cAddr(r)>> \o Of(r)])
OnRoc(r, p) == EachRoc([q \in Rocs |-> IF q = r THEN p ELSE <<>>])

-----------------------------------------------------------------------------
\* The board.

\* Records of the file are sent until the board refuses one; what it counts
\* and writes into its flash is not modelled.
UpdateDTB ==
    <<Ask, Maybe(<<Return>>), Ask, Maybe(<<Ask, Return>>),
      Again(<<Ask, Maybe(<<Ask, Return>>)>>), Maybe(<<Return>>),
      Ask, Maybe(<<Ask, Return>>), Flush, Send, Flush>>
upgrade == <<Call(UpdateDTB)>>
information == Some(<<Ask>>)        \* rpcinfo, info, version, boardid
pauses == Command(<<Send>>)         \* udelay, mdelay

welcome == Command(<<Send>>)        \* welcome, setled
probes == Command(<<Send>>)         \* d1, d2, a1, a2, probeadc
clocks == Command(<<Send>>)         \* clksrc, fsel, stretch
levels == Command(<<Send>>)         \* clklvl, sdalvl, ctrlvl, tinlvl
modes == Command(<<Send>>)          \* clkmode, sdamode, ctrmode, tinmode
lines == Command(<<Send>>)          \* sigoffset, lvds, lcds
pon == Command(<<Pon>>)
poff == Command(<<Poff>>)
supplies == Command(<<Send>>)       \* va, vd, ia, id
meters == <<Ask>>                   \* getva, getvd, getia, getid
hvon == Command(<<HVon>>)
hvoff == Command(<<HVoff>>)         \* behind the voltage of the supply is 0
resets == Command(<<Send>>)         \* reson, resoff
addresses == Command(<<Send>>)      \* rocaddr, rowinvert
module == <<Send>>                  \* the format of the TBM, without a flush
selections == Command(<<Send>>)     \* dsel, dselmod, dselroca, dselsim, dseloff, deser
tbms == Command(<<Send>>)           \* tbmdis, tbmsel, modsel, modsel2, tbmset
tbmget == <<Ask>>
tbmgetraw == <<Send>> \o Some(<<Send, Ask>>)

\* The delays move together with the clock phase ...
clk == Command(<<Sig_SetDelay("new"), SetPhase("new")>>)
\* ... or one of them alone: sda, ctr, tin.
delays == Command(<<Sig_SetDelay("new")>>)

pgstop == Command(<<Pg_Stop>>)
pgtrig == Command(<<Pg_Single>>)    \* pgset, pgsingle, pgtrig
pgloop == Command(<<Pg_Loop>>)
trgsel == Command(<<AnyOf({"pg", "other"}, LAMBDA s : <<Trigger_Select(s)>>)>>)
triggers == Command(<<Send>>)       \* trgdel, trgtimeout, trgper, trgrand, trgsend

\* ROCs first .. last are the selected ones from now on; the FPGA has no
\* trim bits for them, whatever modtrm says.
select ==
    <<AnyOf({s \in SUBSET Rocs : s # {} /\ \A r \in Rocs :
                 (\E a, b \in s : a <= r /\ r <= b) => r \in s},
            LAMBDA s : <<Select(s)>>),
      Ask, OnSelected(LAMBDA r : <<SetOtherTrims(r)>>), AddrFirst, Flush>>

\* TBM 0 or 1 listens from now on, addressed by one of its ROCs.
seltbm == Command(<<AnyOf({0, 4} \cap Rocs, LAMBDA r : <<roc_I2cAddr(r)>>)>>)

-----------------------------------------------------------------------------
\* The delays of the clock and the phase of the deserializer, at all of
\* which the header of a ROC is looked for.

ScanPhases(trigger) ==
    Some(<<Sig_SetDelay("scan")>>
         \o Some(<<Daq_Start(0)>> \o trigger \o <<Daq_Stop(0), Ask, Daq_Read(0)>>))

\* The middle one of the good phases is taken, or the old one stays.
deser160 ==
    ScanPhases(<<Pg_Single>>) \o <<Maybe(<<SetPhase("new")>>), Sig_SetDelay("phase")>>

\* With external triggers, which stay selected.
deserext ==
    <<Trigger_Select("other")>> \o ScanPhases(<<>>)
    \o <<Maybe(<<SetPhase("new")>>), Sig_SetDelay("phase")>>

-----------------------------------------------------------------------------
\* The signals are digitized by the ADC of the board while a delay is
\* stepped through.  A sample that is not complete ends the scan.

Samples(trigger) ==
    Some(<<Sig_SetDelay("scan"), Daq_Start(0)>> \o trigger
         \o <<Daq_Stop(0), Daq_Read(0), Maybe(<<Return>>)>>)
    \o <<Sig_SetDelay("phase"), Flush>>

showclk == <<Pg_Stop>> \o Samples(<<Pg_Single>>)
showctr == <<Pg_Stop>> \o Samples(<<Pg_Single>>)
showsda == Samples(<<roc_Pix_Trim>>)

\* Here such a sample is skipped.
GetSdata ==
    <<Flush>>
    \o Some(<<Sig_SetDelay("scan"), Daq_Start(0), Pg_Single, Daq_Stop(0), Daq_Read(0)>>)
    \o <<Sig_SetDelay("phase"), Flush>>
sdata == <<Call(GetSdata)>>

\* The delays stay at the end of the scan.
decoding ==
    Some(<<Sig_SetDelay("scan")>>
         \o Some(<<Daq_Start(0), Pg_Single, Daq_Stop(0), Daq_Read(0)>>))

-----------------------------------------------------------------------------
\* The DACs of the chips.

\* Mutant: not only the selected ROCs.
SetDACeveryROC(d) ==
    <<EveryRoc([r \in Rocs |-> <<roc_I2cAddr(r)>> \o SetBoth(r, d, New)])>>

SetDACallROCs(d) == <<OnSelected(LAMBDA r : SetBoth(r, d, New))>>

\* One ROC if its number is given.
dac == Command(<<AnyOf(Dacs, LAMBDA d :
    <<Either(<<SetDACallROCs(d),
               <<AnyOf(Rocs, LAMBDA r : <<OnRoc(r, <<roc_I2cAddr(r)>> \o SetBoth(r, d, New))>>)>>>>)>>)>>)

\* vdig, vana, vtrim, vthr, subvthr, addvtrim, vcal, ctl, wbc
vdig == Command(<<AnyOf(Dacs, SetDACallROCs)>>)

EachDAC(Of(_)) == [k \in 1 .. Len(DacOrder) |-> Call(Of(DacOrder[k]))]

\* The file has the DACs of a number of ROCs, which are taken as 0, 1, ...
rddac ==
    <<AnyOf(Rocs, LAMBDA last :
        [r \in 1 .. last + 1 |->
            Call(<<roc_I2cAddr(r - 1)>> \o EachDAC(LAMBDA d : SetBoth(r - 1, d, New)))]),
      Flush>>

\* Currents while a DAC of ROC 0 is stepped.
daciOf(d) ==
    <<roc_I2cAddr(0), Keep("val", 0, d)>> \o Some(<<SetDAC(d, Scan), Flush, Ask>>)
    \o <<SetDAC(d, Kept("val")), Flush>>
daci == <<AnyOf(Dacs, daciOf)>>

\* VthrComp is set below the noise peak of the digital current.
vthrcompiOf(r) ==
    <<roc_I2cAddr(r)>> \o Arm \o <<Flush>>
    \o Some(<<SetDAC("VthrComp", Scan), Flush, Ask>>)
    \o MaskRoc
    \o <<Flush, SetDAC("VthrComp", New), Flush, SetCopy(r, "VthrComp", New)>>
vthrcompi == <<AnyOf(Rocs, vthrcompiOf)>>

-----------------------------------------------------------------------------
\* Trim bits.

\* Mutant: the FPGA keeps the old bits.
LoadTrimCopy(r) == <<roc_I2cAddr(r), NewTrims(r)>>

LoadTrim(r) == <<roc_I2cAddr(r), NewTrims(r), SetTrimValues(r)>>

\* From a file, and the same ones for all pixels.
rdtrim == <<EachRoc([r \in Rocs |-> LoadTrim(r) \o <<Flush>>])>>
setbits == <<EachRoc([r \in Rocs |-> LoadTrim(r)]), Flush>>
\* One pixel.
pixt == <<AnyOf(Rocs, LAMBDA r : <<OnRoc(r, LoadTrim(r) \o <<Flush>>)>>)>>

-----------------------------------------------------------------------------
\* Columns and pixels.

cole == Command(<<OnSelected(LAMBDA r : <<roc_Col_Enable(1)>>)>>)
cold == Command(<<AnyOf(Rocs, LAMBDA r : <<OnRoc(r, <<roc_I2cAddr(r), roc_Col_Enable(0)>>)>>)>>)
pixe == Command(<<OnSelected(LAMBDA r : <<Either(<<<<roc_Pix_Mask>>, <<roc_Pix_Trim>>>>)>>)>>)
arm == Command(<<OnSelected(LAMBDA r : Arm \o <<roc_Pix_Cal>>)>>)

\* pixd, pixm: the FPGA keeps the trim bits it has.
pixd == Command(<<AnyOf(Rocs, LAMBDA r :
    <<OnRoc(r, <<roc_I2cAddr(r), roc_Pix_Mask, NewTrims(r)>>)>>)>>)

cal == Command(<<OnSelected(LAMBDA r : <<roc_Pix_Cal>>)>>)   \* cal, cals
cald == Command(<<OnSelected(LAMBDA r : <<roc_ClrCal>>)>>)
mask == Command(<<OnSelected(LAMBDA r : <<roc_Chip_Mask>>)>>)
=============================================================================
