-------------------------- MODULE MCCommandConfirm --------------------------
(* Small instances of CommandConfirm.                                       *)
EXTENDS CommandConfirm, TLC

Cmd(f, v) == [field |-> f, value |-> v]

\* Power is 0 or 1.
PowerCommands == {Cmd("power", 0), Cmd("power", 1)}

\* Brightness values two apart, the two colour channels, and the power-off
\* that outranks them all.
LightCommands ==
    {Cmd("brightness", 1), Cmd("brightness", 3), Cmd("color", 1), Cmd("color_temp", 1), Cmd("power", 0)}

LampOn   == [f \in Fields |-> IF f = "power" THEN 1 ELSE 0]
LampDim  == [f \in Fields |-> IF f \in {"power", "brightness"} THEN 1 ELSE 0]

\* One apart is within tolerance: 2 passes for both brightness values.
OneOff   == [f \in Fields |-> IF f = "brightness" THEN 1 ELSE 0]
AllZero  == [f \in Fields |-> 0]

NoReadings   == [f \in Fields |-> {}]
DimReadings  == [f \in Fields |-> IF f = "brightness" THEN {2} ELSE {}]

OnlyPower == {{"power"}}
OnlyDim   == {{"brightness"}}

CallSymmetry == Permutations(Calls)
=============================================================================
