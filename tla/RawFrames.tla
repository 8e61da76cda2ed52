----------------------------- MODULE RawFrames -----------------------------
(***************************************************************************)
(* Raw frames go down the first pipe that takes them: repeated datagrams   *)
(* on the LAN, a plaintext Bluetooth link that is opened on demand and let *)
(* go after a pause, then MQTT; if none does, the caller has its cloud     *)
(* command.  A device's one link is shared by its writes, under a lock.    *)
(* External: the lamp's network, its radio, the broker, other centrals.    *)
(***************************************************************************)
EXTENDS Naturals, Sequences, SequencesExt

CONSTANTS
    Paints,         \* the writes made
    Copies,         \* LAN_WRITE_REPEATS
    Drop,           \* the disconnect of the idle timer or of the unload, as it waits for the lock
    MaxClients,     \* bound: links opened
    MaxUnloads      \* bound

VARIABLES
    gates,          \* the tiers whose gates are open: option, profile, presence, cooldown
    paint,          \* each write: the tier it is at, the copies tried there, or whether
                    \* it connected, and whether a copy went out
    used,           \* history: the tiers a write went out on
    client,         \* the link's _client (0: None)
    lock,           \* the link's _lock: who has it and who waits, in order
    timer,          \* the link's _idle is armed
    open,           \* external: the clients connected
    failing,        \* external: clients whose disconnect failed, yet to drop
    stray,          \* history: clients forgotten as a superseded one dropped, and the one that
                    \* the last write, cancelled, left without its timer
    clients, unloads

link  == <<client, lock, timer>>
radio == <<open, failing, stray, clients>>
vars  == <<gates, paint, used, link, radio, unloads>>

Tiers == {"lan", "ble", "mqtt"}

TypeOK ==
    /\ gates \subseteq Tiers
    /\ paint \in [Paints -> [at : Tiers \cup {"unmade", "done", "cloud"}, tries : 0..Copies, sent : BOOLEAN]]
    /\ used \in [Paints -> SUBSET Tiers]
    /\ client \in 0..MaxClients /\ timer \in BOOLEAN
    /\ (\A i \in DOMAIN lock : lock[i] \in Paints \cup {Drop})
    /\ open \subseteq 1..MaxClients /\ failing \subseteq open /\ stray \subseteq 1..MaxClients
    /\ clients \in 0..MaxClients /\ unloads \in 0..MaxUnloads

Init ==
    /\ gates = Tiers /\ paint = [w \in Paints |-> [at |-> "unmade", tries |-> 0, sent |-> FALSE]]
    /\ used = [w \in Paints |-> {}]
    /\ client = 0 /\ lock = <<>> /\ timer = FALSE
    /\ open = {} /\ failing = {} /\ stray = {} /\ clients = 0 /\ unloads = 0
-----------------------------------------------------------------------------
(* The route.                                                               *)

After == [lan |-> "ble", ble |-> "mqtt", mqtt |-> "cloud"]

At(w, t)    == paint' = [paint EXCEPT ![w] = [at |-> t, tries |-> 0, sent |-> FALSE]]
Falls(w)    == At(w, After[paint[w].at])
Took(w)     == used' = [used EXCEPT ![w] = @ \cup {paint[w].at}]
Accepted(w) == At(w, "done") /\ Took(w)

Paint(w) == paint[w].at = "unmade" /\ At(w, "lan") /\ UNCHANGED <<gates, used, link, radio, unloads>>

\* Gates open and close: an option, the correlation, the cooldown, the session.
GatesChange ==
    /\ \E g \in SUBSET Tiers : g # gates /\ gates' = g
    /\ UNCHANGED <<paint, used, link, radio, unloads>>

\* A tier whose gate is closed as the write comes to it is passed by.
PassedBy(w) ==
    /\ paint[w].at \in Tiers \ gates /\ paint[w].tries = 0 /\ ~Contains(lock, w) /\ Falls(w)
    /\ UNCHANGED <<gates, used, link, radio, unloads>>
-----------------------------------------------------------------------------
(* The LAN: the copies are redundant, so one that goes out is enough.       *)

\* Bug: the write counts as sent only if the last copy went out.
LastCopyCounts(p, ok) == ok

SentAfter(p, ok) == p.sent \/ ok

LanCopy(w) ==
    /\ paint[w].at = "lan" /\ paint[w].tries < Copies /\ (paint[w].tries = 0 => "lan" \in gates)
    /\ \E ok \in BOOLEAN :
         /\ paint' = [paint EXCEPT ![w].tries = @ + 1, ![w].sent = SentAfter(paint[w], ok)]
         /\ IF ok THEN Took(w) ELSE UNCHANGED used
    /\ UNCHANGED <<gates, link, radio, unloads>>

LanEnds(w) ==
    /\ paint[w].at = "lan" /\ paint[w].tries = Copies
    /\ IF paint[w].sent THEN Accepted(w) ELSE Falls(w) /\ UNCHANGED used
    /\ UNCHANGED <<gates, link, radio, unloads>>
-----------------------------------------------------------------------------
(* The link.                                                                *)

Holds(x) == lock # <<>> /\ Head(lock) = x

\* A write stops the timer before it waits for the lock.
LinkAsked(w) ==
    /\ paint[w].at = "ble" /\ "ble" \in gates /\ ~Contains(lock, w)
    /\ timer' = FALSE /\ lock' = Append(lock, w)
    /\ UNCHANGED <<gates, paint, used, client, radio, unloads>>

Live == client # 0 /\ client \in open

\* The live client serves; else a new one is opened.
Connects(w) ==
    /\ Holds(w) /\ paint[w].tries = 0 /\ paint' = [paint EXCEPT ![w].tries = 1]
    /\ IF Live THEN UNCHANGED <<client, open, clients>>
       ELSE /\ clients < MaxClients
            /\ clients' = clients + 1 /\ client' = clients' /\ open' = open \cup {clients'}
    /\ UNCHANGED <<gates, used, lock, timer, failing, stray, unloads>>

\* Every frame is written: the timer starts.
LinkWrites(w) ==
    /\ Holds(w) /\ paint[w].tries = 1 /\ Live
    /\ timer' = TRUE /\ lock' = Tail(lock) /\ Accepted(w) /\ stray' = stray \ {client}
    /\ UNCHANGED <<gates, client, open, failing, clients, unloads>>

\* The client is given up; the radio may keep it for a while.
LetGo ==
    /\ client' = 0
    /\ \/ open' = open \ {client} /\ UNCHANGED failing
       \/ client \in open /\ failing' = failing \cup {client} /\ UNCHANGED open

\* Bug: a write that fails leaves the link to the next one.
KeepsIt == UNCHANGED <<client, open, failing>>

\* What becomes of the link after a failed write.
AfterFailure == LetGo

\* No device in range, no connection, or a frame that fails.
LinkFails(w) ==
    /\ Holds(w) /\ AfterFailure /\ lock' = Tail(lock) /\ Falls(w)
    /\ UNCHANGED <<gates, used, timer, stray, clients, unloads>>

\* The call is cancelled as it waits or writes: only the lock is released.  (One
\* cancelled in the line leaves it as its turn comes.)
WriteCancelled(w) ==
    /\ Holds(w) /\ lock' = Tail(lock) /\ At(w, "done")
    /\ stray' = IF Live /\ ~timer /\ lock' = <<>> THEN stray \cup {client} ELSE stray
    /\ UNCHANGED <<gates, used, client, timer, open, failing, clients, unloads>>

IdleFires ==
    /\ timer /\ timer' = FALSE /\ lock' = Append(lock, Drop)
    /\ UNCHANGED <<gates, paint, used, client, radio, unloads>>

Unload ==
    /\ unloads < MaxUnloads /\ unloads' = unloads + 1
    /\ timer' = FALSE /\ lock' = Append(lock, Drop)
    /\ UNCHANGED <<gates, paint, used, client, radio>>

Dropped ==
    /\ Holds(Drop) /\ lock' = Tail(lock) /\ LetGo
    /\ UNCHANGED <<gates, paint, used, timer, stray, clients, unloads>>

\* The link drops from the other end, or at last after a failed disconnect: the
\* callback clears _client, whichever client it is of.
Disconnected(c) ==
    /\ c \in open /\ open' = open \ {c} /\ failing' = failing \ {c} /\ client' = 0
    /\ stray' = IF client \notin {0, c} THEN stray \cup {client} ELSE stray
    /\ UNCHANGED <<gates, paint, used, lock, timer, clients, unloads>>
-----------------------------------------------------------------------------
MqttPublishes(w) ==
    /\ paint[w].at = "mqtt" /\ "mqtt" \in gates
    /\ \/ Accepted(w)
       \/ Falls(w) /\ UNCHANGED used
    /\ UNCHANGED <<gates, link, radio, unloads>>

Next == \/ \E w \in Paints : \/ Paint(w) \/ PassedBy(w) \/ LanCopy(w) \/ LanEnds(w) \/ LinkAsked(w)
                             \/ Connects(w) \/ LinkWrites(w) \/ LinkFails(w) \/ WriteCancelled(w)
                             \/ MqttPublishes(w)
        \/ \E c \in open : Disconnected(c)
        \/ GatesChange \/ IdleFires \/ Unload \/ Dropped

Spec == Init /\ [][Next]_vars
-----------------------------------------------------------------------------
\* The lamp's one link is let go: a connected client is the link's own, in use or
\* with the timer running, however writes, the timer, the unload and drops
\* overlap, but for a client forgotten as one superseded dropped late, and for the
\* link whose last write was cancelled, until the next one (ble_raw_write.py
\* 55-63, 210-320).
LinkIsLetGo ==
    \A c \in open \ (failing \cup stray) : c = client /\ (timer \/ lock # <<>>)

\* Once a copy went out on the LAN no other pipe is tried: the caller's cloud
\* command would contradict it (lan_raw.py 150-187).
OnePipe == \A w \in Paints : "lan" \in used[w] => used[w] = {"lan"} /\ paint[w].at \in {"lan", "done"}

RawWritesAreRight == LinkIsLetGo /\ OnePipe
=============================================================================
