---------------------------- MODULE MCProcedures ----------------------------
\* Instances of Procedures for TLC: all the commands, with two ROCs that are
\* read on two channels.
EXTENDS Commands, TLC

TheDacOrder == <<"Vana", "Vcal", "Vtrim", "VthrComp", "PHOffset", "PHScale", "CalDel", "CtrlReg">>

\* Tests and tunings with given arguments, to be typed again.  Those that
\* may give up at once do not clean up behind the first attempt.
Retried ==
    [c \in TheTests \ {"optia", "tune", "modtune", "oneroc", "bare", "mt"} |->
        CASE c = "takedata" -> takedataPeriod(2) [] c = "modtd" -> modtdPeriod(2)
          [] c = "daci" -> daciOf("Vcal") [] c = "vthrcompi" -> vthrcompiOf(0)
          [] c = "phdac" -> DacScanPix(0, "Vcal") [] c = "effdac" -> effvsdac(0, "Vcal")
          [] c = "calsdac" -> calsdacOf("Vcal") [] c = "thrdac" -> thrdacOf("VthrComp")
          [] c = "modthrdac" -> modthrdacOf("VthrComp")
          [] c = "dacscanroc" -> dacscanroc("VthrComp") [] c = "dacdac" -> dacdac("CalDel", "VthrComp")
          [] OTHER -> TheProcedure[c]]

\* The scan of any DAC of the selected ROCs.
OnlyDacScan == "dacscanmod" :> dacscanmod(Scannable)
NoPurpose == [c \in {"dacscanmod"} |-> {}]
=============================================================================
