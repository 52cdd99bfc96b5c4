------------------------------- MODULE Calls -------------------------------
(***************************************************************************)
(* The vocabulary in which the procedures of cmd.cpp are written down: a   *)
(* procedure is a sequence of calls, and a call is a record that names a   *)
(* stub of CTestboard (pixel_dtb.h), an assignment to the state the        *)
(* commands share (dacval, modtrm, tbState), or a control structure of     *)
(* C++.  Procedures executes them.                                         *)
(*                                                                         *)
(* What is kept of the data is what tells a restored board from one left   *)
(* half way: which ROC the next call reaches, whether a DAC has the value  *)
(* the user set, one a test scans through, or one a tuning has found, and  *)
(* whether columns, pixels and calibrate injection are on.  A call that    *)
(* changes nothing of this (delays, probes, the pattern generator's        *)
(* program, TBM registers, the choice of the data source) is a Send, and   *)
(* is left out where another request of the same buffer follows.  The      *)
(* calls under #ifdef DAQOPENCLOSE, which cmd.cpp 45 leaves undefined, are *)
(* not compiled: the memory of the DAQ is opened by dopen and mt only.     *)
(***************************************************************************)
EXTENDS Naturals, Sequences

CONSTANTS
    MaxRoc,     \* 15: the ROCs of a module are 0 .. 15
    NChannels,  \* nChannels of cmd.cpp, the DAQ channels in use
    Dacs        \* names of DACs, pixel_dtb.h 27-50

ASSUME CallsAssumption ==
    /\ MaxRoc \in Nat /\ NChannels \in Nat \ {0}
    \* Layers 1 to 4 have 8, 4 or 2 channels for 16 ROCs.
    /\ \E n \in 1 .. MaxRoc + 1 : n * NChannels = MaxRoc + 1

\* The DACs that some procedure calls by name.
ASSUME NamesAssumption ==
    {"Vana", "Vcal", "Vtrim", "VthrComp", "PHOffset", "PHScale", "CalDel", "CtrlReg"}
        \subseteq Dacs

Rocs == 0 .. MaxRoc
Channels == 0 .. NChannels - 1

\* Mutant: off by one.
ChannelOfNext(r) == (r + 1) \div ((MaxRoc + 1) \div NChannels)

\* The channel that reads a ROC: roc / (16/nChannels).
ChannelOf(r) == r \div ((MaxRoc + 1) \div NChannels)

-----------------------------------------------------------------------------
\* Values of a DAC: the one set for this DAC of this ROC before the command,
\* one on the way of a test, the outcome of a tuning or of a setting.

Set(r, d) == <<"set", r, d>>
Scan == <<"scan">>
New == <<"new">>
Lost == <<"lost">>              \* the chip had no power
Values == {Set(r, d) : r \in Rocs, d \in Dacs} \cup {Scan, New, Lost}

\* Expressions that stand for a value when the call is made.

Copy(r, d) == <<"copy", r, d>>  \* dacval[r][d]
Kept(x) == <<"kept", x>>        \* the local variable x, see Keep

-----------------------------------------------------------------------------
\* Requests that need no answer.  They wait in the buffer for a flush.

Send == [do |-> "send"]
roc_I2cAddr(r) == [do |-> "roc_I2cAddr", roc |-> r]
AddrFirst == [do |-> "first"]       \* roc_I2cAddr of the first selected ROC
SetDAC(d, v) == [do |-> "SetDAC", dac |-> d, val |-> v]

Pixels(adds, drops) == [do |-> "pixels", adds |-> adds, drops |-> drops]
roc_Col_Enable(on) == IF on = 1 THEN Pixels({"column"}, {}) ELSE Pixels({}, {"column"})
roc_Pix_Trim == Pixels({"pixel"}, {})
roc_Pix_Mask == Pixels({}, {"pixel"})
roc_Chip_Mask == Pixels({}, {"pixel"})
roc_Pix_Cal == Pixels({"cal"}, {})
roc_ClrCal == Pixels({}, {"cal"})

Daq_Close(ch) == [do |-> "Daq_Close", ch |-> ch]
Daq_Start(ch) == [do |-> "Daq_Start", ch |-> ch]
Daq_Stop(ch) == [do |-> "Daq_Stop", ch |-> ch]

Switch(part, to) == [do |-> "switch", part |-> part, to |-> to]
Pg_Loop == Switch("loop", "on")
Pg_Stop == Switch("loop", "off")
Pg_Single == Send
Trigger_Select(s) == Switch("trigger", s)
Sig_SetDelay(v) == Switch("delay", v)   \* "phase": tbState.GetClockPhase()
Pon == Switch("lv", "on")
Poff == Switch("lv", "off")
HVon == Switch("hv", "on")
HVoff == Switch("hv", "off")

-----------------------------------------------------------------------------
\* Calls that wait: all that is in the buffer is sent, and they may throw.

Flush == [do |-> "flush"]       \* and every stub that only asks for a value
Ask == Flush
SetTrimValues(r) == [do |-> "SetTrimValues", roc |-> r, same |-> TRUE]
SetOtherTrims(r) == [do |-> "SetTrimValues", roc |-> r, same |-> FALSE]
Daq_Open(ch) == [do |-> "Daq_Open", ch |-> ch]
Daq_Read(ch) == [do |-> "Daq_Read", ch |-> ch]

\* The trigger loops of the firmware, LoopSingleRoc... for one ROC and
\* LoopMultiRoc... for the selected ones; ds are the DACs they scan.
LoopSingleRoc(r, ds) == [do |-> "LoopSingleRoc", roc |-> r, dacs |-> ds]
LoopMultiRoc(ds) == [do |-> "LoopMultiRoc", dacs |-> ds]

-----------------------------------------------------------------------------
\* The state of the program.

SetCopy(r, d, v) == [do |-> "dacval", roc |-> r, dac |-> d, val |-> v]
Keep(x, r, d) == [do |-> "keep", name |-> x, roc |-> r, dac |-> d]
NewTrims(r) == [do |-> "modtrm", roc |-> r]
SetPhase(v) == [do |-> "phase", val |-> v]
SetTimeout(t) == [do |-> "timeout", val |-> t]
Select(s) == [do |-> "select", of |-> s]

-----------------------------------------------------------------------------
\* Control: one of several ways; none or more times; for each selected ROC
\* in ascending order, as for( roc ) if( roclist[roc] ), or for all; a call;
\* a block whose exceptions are caught and make the function return; return.

Either(ways) == [do |-> "either", of |-> ways]
Maybe(p) == Either(<<p, <<>>>>)
AnyOf(S, Of(_)) == Either([x \in S |-> Of(x)])
Again(p) == [do |-> "again", of |-> <<p>>]
EachRoc(f) == [do |-> "each", of |-> f, roc |-> 0, all |-> FALSE]
EveryRoc(f) == [do |-> "each", of |-> f, roc |-> 0, all |-> TRUE]
Call(p) == [do |-> "call", of |-> <<p>>]
Try(p) == [do |-> "try", of |-> <<p>>]
Return == [do |-> "return"]
EndOfTry == [do |-> "end of try"]
EndOfCall == [do |-> "end of call"]

\* for( ch = 0; ch < nChannels; ++ch ), the channels being the first numbers
\* of ROCs.
ForChannels(Of(_)) == <<EveryRoc([r \in Rocs |-> IF r \in Channels THEN Of(r) ELSE <<>>])>>
Some(p) == p \o <<Again(p)>>    \* do p while

-----------------------------------------------------------------------------
\* Sequences of calls that many procedures share.

Arm == <<roc_Col_Enable(1), roc_Pix_Trim>>
MaskPixel == <<roc_Pix_Mask, roc_Col_Enable(0), roc_ClrCal>>
MaskRoc == <<roc_Col_Enable(0), roc_Chip_Mask, roc_ClrCal>>
MaskSelected == <<EachRoc([r \in Rocs |-> <<roc_I2cAddr(r)>> \o MaskRoc]), Flush>>

\* Blocks of data are read until none remain.
ReadAll(ch) == <<Daq_Read(ch), Again(<<Daq_Read(ch)>>)>>

\* dac r d takes the value v, on the chip and in dacval
SetBoth(r, d, v) == <<SetDAC(d, v), SetCopy(r, d, v)>>
Restore(r, d) == SetDAC(d, Copy(r, d))
=============================================================================
