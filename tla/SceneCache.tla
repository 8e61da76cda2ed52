---------------------------- MODULE SceneCache -----------------------------
(***************************************************************************)
(* The scene catalogs of a device, dynamic and DIY, are fetched when an    *)
(* entity asks and kept for a day.  Askers that meet a fetch under way     *)
(* join it; it is shielded, so an asker that is cancelled does not take it *)
(* from the others.  Entities read a catalog once, as they are set up.     *)
(* External: Govee's catalogs, and the askers.                             *)
(***************************************************************************)
EXTENDS Naturals

CONSTANTS
    Kinds,          \* the two catalogs
    Askers,         \* entity setups, refresh buttons and service calls
    None,
    MaxScenes,      \* bound: scenes the user adds in the app
    MaxFetches      \* bound

VARIABLES
    catalog,        \* external: the scenes of each kind, as their number
    cache, fresh,   \* the cached catalog (None: none), and whether it is within its TTL
    inflight,       \* the task in _scene_inflight / _diy_scene_inflight (0: none)
    fetch,          \* the fetches made: where each is, and what it read or returned
    asker,          \* each asker: what it waits for, or what it got
    floor,          \* history: an answer as old as this is the oldest an asker may get
    fetches         \* the fetches made so far

vars == <<catalog, cache, fresh, inflight, fetch, asker, floor, fetches>>

Answer  == 0..MaxScenes
NoAsk   == [at |-> "idle", kind |-> None, task |-> 0, got |-> None]
NoFetch == [at |-> "unused", kind |-> None, began |-> 0, got |-> None]

TypeOK ==
    /\ catalog \in [Kinds -> Answer] /\ cache \in [Kinds -> Answer \cup {None}]
    /\ fresh \in [Kinds -> BOOLEAN] /\ inflight \in [Kinds -> 0..MaxFetches]
    /\ fetch \in [1..MaxFetches -> [at : {"unused", "asked", "read", "done"}, kind : Kinds \cup {None},
                                    began : Answer, got : Answer \cup {None}]]
    /\ asker \in [Askers -> [at : {"idle", "waits", "answered", "cancelled"}, kind : Kinds \cup {None},
                             task : 0..MaxFetches, got : Answer \cup {None}]]
    /\ floor \in [Askers -> Answer] /\ fetches \in 0..MaxFetches

Init ==
    /\ catalog = [k \in Kinds |-> 0] /\ cache = [k \in Kinds |-> None] /\ fresh = [k \in Kinds |-> FALSE]
    /\ inflight = [k \in Kinds |-> 0] /\ fetch = [n \in 1..MaxFetches |-> NoFetch]
    /\ asker = [s \in Askers |-> NoAsk] /\ floor = [s \in Askers |-> 0] /\ fetches = 0

UserAddsScene(k) ==
    /\ catalog[k] < MaxScenes /\ catalog' = [catalog EXCEPT ![k] = @ + 1]
    /\ UNCHANGED <<cache, fresh, inflight, fetch, asker, floor, fetches>>
-----------------------------------------------------------------------------
(* Asking.                                                                  *)

\* A setup is content with a catalog within its TTL; a refresh never is.
FromCache(s, k) ==
    /\ asker[s].at = "idle" /\ cache[k] # None /\ fresh[k]
    /\ asker' = [asker EXCEPT ![s] = [NoAsk EXCEPT !.at = "answered", !.kind = k, !.got = cache[k]]]
    /\ UNCHANGED <<catalog, cache, fresh, inflight, fetch, floor, fetches>>

Waits(s, k, n) == asker' = [asker EXCEPT ![s] = [NoAsk EXCEPT !.at = "waits", !.kind = k, !.task = n]]

\* Whoever meets a fetch under way shares its answer, a refresh as well.
Joins(s, k) ==
    /\ asker[s].at = "idle" /\ inflight[k] # 0
    /\ Waits(s, k, inflight[k])
    /\ floor' = [floor EXCEPT ![s] =
         IF fetch[inflight[k]].at = "done" THEN catalog[k] ELSE fetch[inflight[k]].began]
    /\ UNCHANGED <<catalog, cache, fresh, inflight, fetch, fetches>>

Fetches(s, k) ==
    /\ asker[s].at = "idle" /\ inflight[k] = 0 /\ fetches < MaxFetches
    /\ fetches' = fetches + 1 /\ inflight' = [inflight EXCEPT ![k] = fetches']
    /\ fetch' = [fetch EXCEPT ![fetches'] = [at |-> "asked", kind |-> k, began |-> catalog[k], got |-> None]]
    /\ Waits(s, k, fetches') /\ floor' = [floor EXCEPT ![s] = catalog[k]]
    /\ UNCHANGED <<catalog, cache, fresh>>

\* An entity removed while it is set up.
Cancelled(s) ==
    /\ asker[s].at = "waits" /\ asker' = [asker EXCEPT ![s].at = "cancelled"]
    /\ UNCHANGED <<catalog, cache, fresh, inflight, fetch, floor, fetches>>
-----------------------------------------------------------------------------
(* Fetching.                                                                *)

\* Bug: the asker that made the fetch forgets it, if it is still there.
ForgottenByAsker(n) ==
    IF \E s \in Askers : asker[s].at = "waits" /\ asker[s].task = n
    THEN [inflight EXCEPT ![fetch[n].kind] = 0] ELSE inflight

\* _forget_when_done: a finished task is in nobody's way, whoever awaited it.
Forgotten(n) ==
    [inflight EXCEPT ![fetch[n].kind] = IF @ = n THEN 0 ELSE @]

CatalogRead(n) ==
    /\ fetch[n].at = "asked"
    /\ fetch' = [fetch EXCEPT ![n].at = "read", ![n].got = catalog[fetch[n].kind]]
    /\ UNCHANGED <<catalog, cache, fresh, inflight, asker, floor, fetches>>

Answered(n) ==
    LET k == fetch[n].kind
    IN  /\ fetch[n].at = "read" /\ fetch' = [fetch EXCEPT ![n].at = "done"]
        /\ cache' = [cache EXCEPT ![k] = fetch[n].got] /\ fresh' = [fresh EXCEPT ![k] = TRUE]
        /\ inflight' = Forgotten(n)
        /\ UNCHANGED <<catalog, asker, floor, fetches>>

\* A fetch that fails answers with what the cache holds, or with nothing.
Fails(n) ==
    LET k == fetch[n].kind
    IN  /\ fetch[n].at = "asked"
        /\ fetch' = [fetch EXCEPT ![n].at = "done", ![n].got = cache[k]]
        /\ floor' = [s \in Askers |-> IF asker[s].task = n THEN 0 ELSE floor[s]]
        /\ inflight' = Forgotten(n)
        /\ UNCHANGED <<catalog, cache, fresh, asker, fetches>>

Receives(s) ==
    /\ asker[s].at = "waits" /\ fetch[asker[s].task].at = "done"
    /\ asker' = [asker EXCEPT ![s].at = "answered", ![s].got = fetch[asker[s].task].got]
    /\ UNCHANGED <<catalog, cache, fresh, inflight, fetch, floor, fetches>>

Expires(k) ==
    /\ fresh[k] /\ fresh' = [fresh EXCEPT ![k] = FALSE]
    /\ UNCHANGED <<catalog, cache, inflight, fetch, asker, floor, fetches>>
-----------------------------------------------------------------------------
Next == \/ \E k \in Kinds : UserAddsScene(k) \/ Expires(k)
        \/ \E s \in Askers, k \in Kinds : FromCache(s, k) \/ Joins(s, k) \/ Fetches(s, k)
        \/ \E s \in Askers : Cancelled(s) \/ Receives(s)
        \/ \E n \in 1..fetches : CatalogRead(n) \/ Answered(n) \/ Fails(n)

Spec == Init /\ [][Next]_vars
-----------------------------------------------------------------------------
\* An asker that waited gets a catalog no older than the fetch under way when
\* it asked, never the answer of one that had ended; and a device has one fetch
\* of a kind under way (scene_cache.py 22-41, 139-151).
CatalogsAreCurrent ==
    /\ \A s \in Askers : asker[s].at = "answered" /\ asker[s].task # 0 /\ asker[s].got # None
                           => asker[s].got >= floor[s]
    /\ \A k \in Kinds : \A n, o \in 1..fetches :
         {fetch[n].at, fetch[o].at} \cap {"unused", "done"} = {} /\ fetch[n].kind = k /\ fetch[o].kind = k
           => n = o
=============================================================================
