-------------------------- MODULE MCCommandDispatch --------------------------
(* Small instances of CommandDispatch.                                      *)
EXTENDS CommandDispatch

Cmd(k, v) == [kind |-> k, value |-> v]
On  == Cmd("power", "on")
Off == Cmd("power", "off")

PowerCommands == {On, Off, Cmd("segment", "black")}
OnlyOn == {On}

DarkLamp == [power |-> "off", scene |-> "none", segment |-> "white"]
=============================================================================
