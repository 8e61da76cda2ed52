---------------------------- MODULE MCStateMerge ----------------------------
(* StateMerge for TLC: one colour and one white.                            *)
EXTENDS StateMerge

CONSTANTS white, warm
=============================================================================
