----------------------------- MODULE KettleState -----------------------------
(***************************************************************************)
(* The brew mode of one H7175 kettle.  A mode is a work mode, and for the  *)
(* custom ones a slot; the cloud reports the work mode only, and late.  So *)
(* what a push or a command set is kept over the reads that disagree, the  *)
(* slot is remembered, also through a restart, and the kettle is read      *)
(* again some times after a command.  External: the kettle, the cloud.     *)
(***************************************************************************)
EXTENDS Naturals, FiniteSets

CONSTANTS
    Nothing,                    \* None
    Followups,                  \* the number of KETTLE_FOLLOWUP_DELAYS
    Protect,                    \* KETTLE_PROTECT_SECONDS, in the unit of time
    Lag,                        \* how long the cloud may lag the kettle
    MaxKettleMoves, MaxKettleBoots      \* bounds

Modes == {"c1", "c2", "brew"}           \* two custom slots and a built-in mode
Work(m) == IF m = "brew" THEN "brew" ELSE "custom"
Slot(m) == IF m = "brew" THEN Nothing ELSE m

VARIABLES
    running,        \* the entry is loaded
    mode,           \* state.work_mode, mode_value, kettle_mode_value
    protected,      \* _protected: the fields kept, the mode they are kept at, and for how long they have been
    gen,            \* _followup_generation, -1 being Nothing
    chains,         \* the follow-up chains: generation, next delay, and whether a timer or a read is awaited
    handle,         \* _followups: the generation whose timer the stored canceller cancels
    reads,          \* "poll" and "follow": the cloud reads under way
    kettle,         \* external: the mode it is in
    cloudSays,      \* external: the mode the cloud knows
    behind,         \* external: for how long the cloud has lagged
    kept,           \* external: the slot in the entities' stored data
    unheard,        \* history: the kettle's last change was neither commanded nor pushed, or a load met a
                    \* lagging cloud, or the entry was unloaded again before its first read
    reordered,      \* history: two reads were under way at once, or one older than a command agreed with it
    moves, boots

kcounts == <<moves, boots>>
vars    == <<running, mode, protected, gen, chains, handle, reads, kettle, cloudSays, behind, kept,
             unheard, reordered, kcounts>>

Fields  == {"work", "value", "slot"}
Unknown == [work |-> Nothing, value |-> Nothing, slot |-> Nothing]
NoRead  == [open |-> FALSE, says |-> Nothing, aged |-> FALSE, older |-> FALSE]
Free    == [left |-> {}, at |-> "brew", age |-> 0]

TypeOK ==
    /\ running \in BOOLEAN
    /\ mode \in [work : {"brew", "custom", Nothing}, value : {"c1", "c2", Nothing}, slot : {"c1", "c2", Nothing}]
    /\ protected \in [left : SUBSET Fields, at : Modes, age : 0..Protect + 1]
    /\ gen \in 0..MaxKettleMoves \cup {Nothing} /\ handle \in 0..MaxKettleMoves \cup {Nothing}
    /\ chains \subseteq [gen : 0..MaxKettleMoves, next : 1..Followups, reads : BOOLEAN]
    /\ reads \in [{"poll", "follow"} -> [open : BOOLEAN, says : {"brew", "custom", Nothing}, aged : BOOLEAN, older : BOOLEAN]]
    /\ kettle \in Modes /\ cloudSays \in Modes /\ behind \in 0..Lag /\ kept \in {"c1", "c2", Nothing}
    /\ unheard \in BOOLEAN /\ reordered \in BOOLEAN /\ moves \in 0..MaxKettleMoves /\ boots \in 0..MaxKettleBoots

Init ==
    /\ running = TRUE /\ mode = Unknown /\ protected = Free /\ gen = 0 /\ chains = {} /\ handle = Nothing
    /\ reads = [r \in {"poll", "follow"} |-> NoRead]
    /\ kettle = "brew" /\ cloudSays = "brew" /\ behind = 0 /\ kept = Nothing
    /\ unheard = FALSE /\ reordered = FALSE /\ moves = 0 /\ boots = 0
-----------------------------------------------------------------------------
(* Commands, pushes and the kettle.                                         *)

SetTo(m) == mode' = [work |-> Work(m), value |-> Slot(m), slot |-> Slot(m)]

\* The fields it set are protected; the reads under way are older.
Protects(m) == /\ protected' = [left |-> Fields, at |-> m, age |-> 0]
               /\ reads' = [r \in DOMAIN reads |-> [reads[r] EXCEPT !.older = reads[r].open]]

\* A newer command cancels the pending timer and starts a chain of its own.
Schedules ==
    /\ gen' = gen + 1 /\ handle' = gen + 1
    /\ chains' = {c \in chains : c.reads \/ c.gen # handle} \cup {[gen |-> gen + 1, next |-> 1, reads |-> FALSE]}

KettleMoves(m) == kettle' = m /\ moves < MaxKettleMoves /\ moves' = moves + 1

Command(m) ==
    /\ running /\ KettleMoves(m) /\ SetTo(m) /\ Protects(m) /\ Schedules /\ unheard' = FALSE
    /\ UNCHANGED <<running, cloudSays, behind, kept, reordered, boots>>

\* The app or the button changes the mode; the push may be lost, or find nobody.
Changed(m, heard) ==
    /\ KettleMoves(m) /\ (heard => running)
    /\ IF heard THEN SetTo(m) /\ Protects(m) ELSE UNCHANGED <<mode, protected, reads>>
    /\ unheard' = ~heard
    /\ UNCHANGED <<running, gen, chains, handle, cloudSays, behind, kept, reordered, boots>>

CloudLearns ==
    /\ cloudSays # kettle /\ cloudSays' = kettle /\ behind' = 0
    /\ UNCHANGED <<running, mode, protected, gen, chains, handle, reads, kettle, kept, unheard, reordered, kcounts>>

\* Time passes; the cloud lags, and a read takes, no longer than their bounds.
Tick ==
    /\ cloudSays # kettle => behind < Lag
    /\ \A r \in DOMAIN reads : ~reads[r].aged
    /\ behind' = IF cloudSays # kettle THEN behind + 1 ELSE 0
    /\ reads' = [r \in DOMAIN reads |-> [reads[r] EXCEPT !.aged = reads[r].open]]
    /\ protected' = [protected EXCEPT !.age = IF protected.left # {} /\ @ <= Protect THEN @ + 1 ELSE @]
    /\ UNCHANGED <<running, mode, gen, chains, handle, kettle, cloudSays, kept, unheard, reordered, kcounts>>
-----------------------------------------------------------------------------
(* Cloud reads.                                                             *)

Asks(r) ==
    /\ ~reads[r].open
    /\ reads' = [reads EXCEPT ![r] = [open |-> TRUE, says |-> Work(cloudSays), aged |-> FALSE, older |-> FALSE]]
    /\ reordered' = (reordered \/ \E o \in DOMAIN reads : reads[o].open)

\* Bug: the slot is the one the read reports.
CarriedNever(work) == Nothing

\* The remembered slot belongs to the work mode it was seen in.
Carried(work) == IF work = mode.work THEN mode.slot ELSE Nothing

\* Bug: a cloud read that disagrees replaces what a command set.
KeptNone(f, polled) == FALSE

\* A protected field is put back, until a read agrees or the time is up.
Kept(f, polled) ==
    /\ f \in protected.left /\ protected.age <= Protect
    /\ polled[f] # [work |-> Work(protected.at), value |-> Slot(protected.at), slot |-> Slot(protected.at)][f]

Answered(r) ==
    /\ reads[r].open /\ running
    /\ LET says == reads[r].says
           polled == [work |-> says, value |-> Nothing, slot |-> Carried(says)]
       IN /\ mode' = [work  |-> IF Kept("work", polled) THEN Work(protected.at) ELSE polled.work,
                      value |-> IF Kept("value", polled) THEN Slot(protected.at) ELSE polled.value,
                      slot  |-> IF Kept("slot", polled) THEN Slot(protected.at) ELSE
                                IF polled.slot = Nothing /\ mode = Unknown /\ says = "custom" THEN kept
                                ELSE polled.slot]
          /\ LET left == {f \in protected.left : Kept(f, polled)}
             IN /\ protected' = IF left = {} THEN Free ELSE [protected EXCEPT !.left = left]
                /\ reordered' = (reordered \/ (reads[r].older /\ left # protected.left))
    /\ reads' = [reads EXCEPT ![r] = NoRead]

PollAsks == running /\ Asks("poll")
            /\ UNCHANGED <<running, mode, protected, gen, chains, handle, kettle, cloudSays, behind, kept,
                           unheard, kcounts>>

PollAnswered == Answered("poll")
                /\ UNCHANGED <<running, gen, chains, handle, kettle, cloudSays, behind, kept, unheard, kcounts>>

\* The timer of a chain fires: a read, unless a poll runs or the budget is spent.
Fires(c) ==
    /\ c \in chains /\ ~c.reads /\ ~reads["follow"].open
    /\ chains' = (chains \ {c}) \cup {[c EXCEPT !.reads = TRUE]}
    /\ \/ ~reads["poll"].open /\ Asks("follow")
       \/ UNCHANGED <<reads, reordered>>
    /\ UNCHANGED <<running, mode, protected, gen, handle, kettle, cloudSays, behind, kept, unheard, kcounts>>

FollowAnswered ==
    /\ Answered("follow")
    /\ UNCHANGED <<running, gen, chains, handle, kettle, cloudSays, behind, kept, unheard, kcounts>>

\* Bug: the chain goes on whichever command is the newest.
GoesOnAnyway(c) == TRUE

\* A newer command, or the entry unloading, ends this chain.
GoesOn(c) == c.gen = gen

\* The read and the status query after it are done.
Read(c) ==
    /\ c \in chains /\ c.reads /\ (running => ~reads["follow"].open)
    /\ LET on == GoesOn(c) /\ c.next < Followups
       IN /\ chains' = (chains \ {c}) \cup (IF on THEN {[c EXCEPT !.next = @ + 1, !.reads = FALSE]} ELSE {})
          /\ handle' = IF on THEN c.gen ELSE IF GoesOn(c) THEN Nothing ELSE handle
    /\ UNCHANGED <<running, mode, protected, gen, reads, kettle, cloudSays, behind, kept, unheard, reordered, kcounts>>
-----------------------------------------------------------------------------
(* Unload and restart.                                                      *)

\* selected_mode: the mode the entities show.
Selected == IF mode.work # "custom" THEN mode.work
            ELSE IF mode.value # Nothing THEN mode.value ELSE mode.slot

Unload ==
    /\ running /\ boots < MaxKettleBoots /\ boots' = boots + 1 /\ running' = FALSE
    /\ kept' = IF Selected \in {"c1", "c2"} THEN Selected ELSE Nothing
    /\ IF handle # Nothing
       THEN gen' = Nothing /\ handle' = Nothing /\ chains' = {c \in chains : c.reads \/ c.gen # handle}
       ELSE UNCHANGED <<gen, handle, chains>>
    /\ reads' = [r \in DOMAIN reads |-> NoRead] /\ unheard' = (unheard \/ (mode = Unknown /\ kept # Nothing))
    /\ UNCHANGED <<mode, protected, kettle, cloudSays, behind, reordered, moves>>

Load ==
    /\ ~running /\ chains = {} /\ running' = TRUE /\ mode' = Unknown /\ protected' = Free
    /\ gen' = 0 /\ handle' = Nothing /\ unheard' = (unheard \/ cloudSays # kettle)
    /\ UNCHANGED <<chains, reads, kettle, cloudSays, behind, kept, reordered, kcounts>>
-----------------------------------------------------------------------------
Next == \/ \E m \in Modes : Command(m) \/ \E heard \in BOOLEAN : Changed(m, heard)
        \/ CloudLearns \/ Tick \/ PollAsks \/ PollAnswered \/ FollowAnswered
        \/ \E c \in chains : Fires(c) \/ Read(c)
        \/ Unload \/ Load

Spec == Init /\ [][Next]_vars
-----------------------------------------------------------------------------
\* The mode shown is the one the kettle is in, through lagging reads and restarts,
\* when its last change was commanded or pushed.
ModeIsRight == running /\ mode # Unknown /\ ~unheard /\ ~reordered => Selected = kettle

\* At most one chain waits for its timer, none once the entry is unloaded.
ChainIsOne == Cardinality({c \in chains : ~c.reads}) <= IF running THEN 1 ELSE 0

\* The kettle's mode and its follow-ups (manager.py 200-345, modes.py 44-108).
KettleIsRight == ModeIsRight /\ ChainIsOne
=============================================================================
