-------------------------- MODULE MCAnalogCurrent --------------------------
\* setia with linear chips, whose current rises by 0.1 to 0.2 mA for a step
\* of Vana (the slope in the code is that of 40 mA for 255 steps, 0.157 mA),
\* with a pedestal of up to 2 mA; and with chips of another kind: steeper
\* ones, one without power, and one that jumps across the target.
EXTENDS AnalogCurrent

Linear(pedestal, gain) == [v \in 0 .. 255 |-> pedestal + (gain * v) \div 100]
Jump == [v \in 0 .. 255 |-> IF v < 100 THEN 0 ELSE 405]
TheGentle == {Linear(p, g) : p \in {0, 20}, g \in {100, 125, 157, 200}}
TheChips == TheGentle \cup {Linear(0, 0), Linear(0, 250), Linear(20, 400), Jump}
TheNoise == {-1, 0, 1}
=============================================================================
