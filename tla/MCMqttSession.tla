---------------------------- MODULE MCMqttSession ----------------------------
(* MqttSession for TLC: loops are interchangeable.                          *)
EXTENDS MqttSession, TLC

CONSTANTS l1, l2
=============================================================================
