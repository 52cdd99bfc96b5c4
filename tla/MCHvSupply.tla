----------------------------- MODULE MCHvSupply -----------------------------
\* Voltages of one digit and of two, of which one has the same digit twice.
EXTENDS HvSupply

TheZero == <<"0">>
TheVolts == {TheZero, <<"1", "5">>, <<"1", "1">>}
TheScans == {<<<<"1", "1">>, <<"1", "5">>>>}
=============================================================================
