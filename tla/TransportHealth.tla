-------------------------- MODULE TransportHealth --------------------------
(***************************************************************************)
(* What is known of each channel to a device: whether it is usable, why    *)
(* not, and when something last came over it.  Reads and advertisements    *)
(* prove a channel, the poll ages it; the raw LAN pipe is never answered,  *)
(* so it goes by its gates and by what the socket says.  One device, one   *)
(* unit of time.  External: the device, its network and its radio.         *)
(***************************************************************************)
EXTENDS Naturals

CONSTANTS
    LanStale,       \* LAN_STALE_SECONDS
    BleStale,       \* BLE_STALE_SECONDS
    PushWindow,     \* REACHABLE_PUSH_WINDOW
    PollEvery,      \* the poll interval
    Cap             \* bound: ages are counted up to this

VARIABLES
    there, gone,    \* external: the device is on, and for how long it has not been
    health,         \* the entry of each channel: is_available, last_failure_reason
    age,            \* how long ago each last succeeded (Cap: never, or long ago)
    known,          \* last_success_ts is set
    onLan,          \* the device is in _lan_devices
    enrolled,       \* the device is in _ble_devices
    session,        \* the MQTT client: none, down, connected
    sincePoll

entries == <<health, age, known>>
links   == <<onLan, enrolled, session>>
vars    == <<there, gone, entries, links, sincePoll>>

Timed    == {"lan", "ble", "push"}
Channels == {"lan", "lan_udp", "ble", "mqtt"}
Reasons  == {"none", "stale", "no_presence", "send_failed", "disconnected", "not_configured"}

TypeOK ==
    /\ there \in BOOLEAN /\ gone \in 0..Cap
    /\ health \in [Channels -> [up : BOOLEAN, reason : Reasons]]
    /\ age \in [Timed -> 0..Cap] /\ known \subseteq Timed
    /\ onLan \in BOOLEAN /\ enrolled \in BOOLEAN /\ session \in {"none", "down", "up"}
    /\ sincePoll \in 0..PollEvery

Init ==
    /\ there = TRUE /\ gone = 0
    /\ health = [c \in Channels |-> [up |-> FALSE, reason |-> "none"]]
    /\ age = [t \in Timed |-> Cap] /\ known = {}
    /\ onLan = FALSE /\ enrolled = FALSE /\ session \in {"none", "down"} /\ sincePoll = 0
-----------------------------------------------------------------------------
Up   == [up |-> TRUE, reason |-> "none"]
Down(r) == [up |-> FALSE, reason |-> r]

\* mark_success, mark_send and mark_failure
Succeeds(c, t) == /\ health' = [health EXCEPT ![c] = Up]
                  /\ age' = [age EXCEPT ![t] = 0] /\ known' = known \cup {t}
Sends(c)    == health' = [health EXCEPT ![c] = Up] /\ UNCHANGED <<age, known>>
Fails(c, r) == health' = [health EXCEPT ![c] = Down(r)] /\ UNCHANGED <<age, known>>

Reads ==
    /\ there /\ onLan /\ Succeeds("lan", "lan")
    /\ UNCHANGED <<there, gone, links, sincePoll>>

\* An advertisement enrols the device for Bluetooth.
Advertises ==
    /\ there /\ enrolled' = TRUE /\ Succeeds("ble", "ble")
    /\ UNCHANGED <<there, gone, onLan, session, sincePoll>>

Pushes ==
    /\ there /\ session = "up" /\ Succeeds("mqtt", "push")
    /\ UNCHANGED <<there, gone, links, sincePoll>>

\* Commands: over Bluetooth to a device that is there, over MQTT to the broker,
\* over the LAN as far as the socket.
Commands ==
    /\ \/ enrolled /\ there /\ Sends("ble")
       \/ enrolled /\ Fails("ble", "send_failed")
       \/ session = "up" /\ (Sends("mqtt") \/ Fails("mqtt", "send_failed"))
       \/ onLan /\ Fails("lan", "send_failed")
       \/ onLan /\ Fails("lan_udp", "send_failed")
    /\ UNCHANGED <<there, gone, links, sincePoll>>

\* A datagram the socket took disproves send_failed, and nothing else.
RawSend ==
    /\ onLan /\ health["lan_udp"].reason = "send_failed" /\ Sends("lan_udp")
    /\ UNCHANGED <<there, gone, links, sincePoll>>
-----------------------------------------------------------------------------
(* The poll's passes.                                                       *)

MqttPass == IF session = "up" THEN Up ELSE Down(IF session = "none" THEN "not_configured" ELSE "disconnected")

BlePass ==
    IF ~enrolled THEN [health["ble"] EXCEPT !.up = FALSE]
    ELSE IF "ble" \in known /\ age["ble"] > BleStale THEN Down("stale") ELSE health["ble"]

\* Bug: a channel that answered once stays up while the device is correlated.
LanPassUnaged == IF ~onLan THEN Down("no_presence") ELSE health["lan"]

LanPass ==
    IF ~onLan THEN Down("no_presence")
    ELSE IF "lan" \in known /\ age["lan"] > LanStale THEN Down("stale") ELSE health["lan"]

\* Bug: the pass scores the gates, whatever the socket said.
UdpPassByGates == IF ~onLan THEN Down("no_presence") ELSE Up

\* The gates; what the socket said is left alone.
UdpPass ==
    IF ~onLan THEN Down("no_presence")
    ELSE IF health["lan_udp"].reason = "send_failed" THEN health["lan_udp"] ELSE Up

Poll ==
    /\ health' = [lan |-> LanPass, lan_udp |-> UdpPass, ble |-> BlePass, mqtt |-> MqttPass]
    /\ sincePoll' = 0
    /\ UNCHANGED <<there, gone, age, known, links>>

\* A poll is due at the latest when its interval has passed.
Tick ==
    /\ sincePoll < PollEvery /\ sincePoll' = sincePoll + 1
    /\ age' = [t \in Timed |-> IF age[t] < Cap THEN age[t] + 1 ELSE Cap]
    /\ gone' = IF there THEN 0 ELSE IF gone < Cap THEN gone + 1 ELSE Cap
    /\ UNCHANGED <<there, health, known, links>>
-----------------------------------------------------------------------------
Comes ==
    /\ there' = ~there /\ gone' = 0
    /\ UNCHANGED <<entries, links, sincePoll>>

Correlates ==
    /\ onLan' = ~onLan /\ (onLan' => there)
    /\ UNCHANGED <<there, gone, entries, enrolled, session, sincePoll>>

SessionChanges ==
    /\ session # "none" /\ session' = IF session = "up" THEN "down" ELSE "up"
    /\ UNCHANGED <<there, gone, entries, onLan, enrolled, sincePoll>>

Next == \/ Reads \/ Advertises \/ Pushes \/ Commands \/ RawSend \/ Poll \/ Tick
        \/ Comes \/ Correlates \/ SessionChanges

Spec == Init /\ [][Next]_vars
-----------------------------------------------------------------------------
\* device_reachable, without the cloud's own flag
Reachable == health["lan"].up \/ health["ble"].up \/ age["push"] <= PushWindow

Longest == IF PushWindow > BleStale THEN PushWindow ELSE BleStale

\* A device that is gone is found out: once every window and a poll have passed,
\* no channel of its own says it is there (coordinator.py 887-905, 4536-4552).
GoneIsFoundOut == gone > Longest + PollEvery => ~Reachable

\* The raw pipe is never shown usable with a failure on record, and a refused
\* datagram counts until one is accepted or the device has left the LAN
\* (lan_udp_health.py 60-96, 149-171).
RefusalHolds ==
    [][/\ health'["lan_udp"].up => health'["lan_udp"].reason = "none"
       /\ health["lan_udp"].reason = "send_failed" /\ health'["lan_udp"].up => RawSend]_vars
=============================================================================
