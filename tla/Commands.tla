------------------------------ MODULE Commands ------------------------------
(***************************************************************************)
(* The commands of cmd.cpp: which procedure each of them is, for which     *)
(* chips it is meant and what it is there for.  The constants of           *)
(* Procedures take these values (TheTable).                                *)
(***************************************************************************)
EXTENDS Programs, DataTaking, TestSequences

\* Commands for the board and the chips as a whole.
SetUp ==
    [upgrade |-> upgrade, information |-> information, pauses |-> pauses,
     welcome |-> welcome, probes |-> probes, clocks |-> clocks, levels |-> levels,
     modes |-> modes, lines |-> lines, pon |-> pon, poff |-> poff,
     supplies |-> supplies, meters |-> meters, hvon |-> hvon, hvoff |-> hvoff,
     resets |-> resets, addresses |-> addresses, module |-> module,
     selections |-> selections, tbms |-> tbms, tbmget |-> tbmget,
     tbmgetraw |-> tbmgetraw, clk |-> clk, delays |-> delays, pgstop |-> pgstop,
     pgtrig |-> pgtrig, pgloop |-> pgloop, trgsel |-> trgsel, triggers |-> triggers,
     select |-> select, seltbm |-> seltbm, deserext |-> deserext, showclk |-> showclk,
     showctr |-> showctr, showsda |-> showsda, decoding |-> decoding, dac |-> dac,
     vdig |-> vdig, rddac |-> rddac, rdtrim |-> rdtrim, setbits |-> setbits,
     pixt |-> pixt, cole |-> cole, cold |-> cold, pixe |-> pixe, arm |-> arm,
     pixd |-> pixd, cal |-> cal, cald |-> cald, mask |-> mask, dopen |-> dopen,
     dclose |-> dclose, dreset |-> dreset, dstart |-> dstart, dstop |-> dstop,
     dsize |-> dsize, dread |-> dread, dreadm |-> dreadm]

\* Tests and tunings of a single chip, which never address it, of the
\* selected ROCs, and of all 16.
OneRoc ==
    [takedata |-> takedata, tdscan |-> tdscan, onevst |-> onevst, daci |-> daci,
     fire |-> fire, fire2 |-> fire2, caldel |-> caldel, caldelmap |-> caldelmap,
     calsdac |-> calsdac, thrdac |-> thrdac, effmap |-> effmap, phmap |-> phmap,
     calsmap |-> calsmap, bbtest |-> bbtest, caldelroc |-> caldelroc,
     vanaroc |-> vanaroc, gaindac |-> gaindac, thrmap |-> thrmap,
     thrmapsc |-> thrmapsc, scanvthr |-> scanvthr, dacscanroc |-> dacscanrocCommand,
     dacdac |-> dacdacCommand, readback |-> readback, optia |-> optia, tune |-> tune,
     vthrcomp5 |-> vthrcomp5, vthrcomp |-> vthrcomp, trim |-> trim(FALSE),
     trimbits |-> trimbits, oneroc |-> oneroc, bare |-> bare]
SelectedRocs ==
    [deser160 |-> deser160, sdata |-> sdata, modtd |-> modtd, tbmscan |-> tbmscan,
     tbmscant |-> tbmscant, vthrcompi |-> vthrcompi, modthrdac |-> modthrdac,
     phdac |-> <<AnyOf(Rocs, phdac)>>, effdac |-> <<AnyOf(Rocs, effdac)>>,
     modcaldel |-> modcaldel, modpixsc |-> modpixsc,
     dacscanmod |-> dacscanmod({"Vcal"}), modthrmap |-> modthrmap, modmap |-> modmap,
     modvthrcomp |-> modvthrcomp, modvtrim |-> modvtrim,
     modtrimscale |-> modtrimscale, modtrimstep |-> modtrimstep,
     modtrimbits |-> modtrimbits, subtb |-> subtb, modnoise |-> modnoise]
AllRocs == [optiamod |-> optiamod, modtune |-> modtune, mt |-> mt]

TheTests == DOMAIN OneRoc \cup DOMAIN SelectedRocs \cup DOMAIN AllRocs
TheProcedure ==
    [c \in DOMAIN SetUp \cup TheTests |->
        CASE c \in DOMAIN SetUp -> SetUp[c]
          [] c \in DOMAIN OneRoc -> OneRoc[c]
          [] c \in DOMAIN SelectedRocs -> SelectedRocs[c]
          [] c \in DOMAIN AllRocs -> AllRocs[c]]
TheForOneRoc == DOMAIN OneRoc
TheForAllRocs == DOMAIN AllRocs
TheNaming == {"dac", "rddac", "vthrcompi"}
TheReadingOne == {"tbmscan", "modtrimbits", "modnoise"}
TheTrimming ==
    {"setbits", "rdtrim", "pixt", "modvthrcomp", "modtrimscale", "modtrimstep", "trimbits"}
TheUnflushed ==
    {"module", "tbmgetraw", "deser160", "deserext", "vanaroc", "caldelroc", "dacdac"}
ThePurpose ==
    LET found == {"Vana", "CalDel", "VthrComp", "PHOffset", "PHScale", "CtrlReg"} IN
    [c \in DOMAIN TheProcedure |->
        CASE c \in {"caldel", "caldelroc", "modcaldel"} -> {"CalDel"}
          [] c = "dacdac" -> {"CalDel", "VthrComp"}
          [] c \in {"optia", "optiamod"} -> {"Vana"}
          [] c \in {"modvthrcomp", "vthrcomp", "vthrcomp5", "vthrcompi"} -> {"VthrComp"}
          [] c \in {"modvtrim", "trim"} -> {"Vtrim"}
          [] c \in {"tune", "modtune"} -> {"PHOffset", "PHScale"}
          [] c \in {"oneroc", "bare"} -> found
          [] c \in {"mt", "dac", "vdig", "rddac"} -> Dacs
          [] OTHER -> {}]

\* The constants of Procedures are those of cmd.cpp.
TheTable ==
    /\ Procedure = TheProcedure /\ Purpose = ThePurpose
    /\ ForOneRoc = TheForOneRoc /\ ForAllRocs = TheForAllRocs /\ Naming = TheNaming
    /\ Tests = TheTests /\ Trimming = TheTrimming /\ Unflushed = TheUnflushed
    /\ ReadingOne = TheReadingOne /\ PoweringDown = {"mt"}
=============================================================================
