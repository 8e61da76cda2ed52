------------------------------- MODULE DiyDraft ------------------------------
(***************************************************************************)
(* The DIY effect of a two-zone lamp.  It is one document: its fields are  *)
(* staged by an entity each, restored one by one after a restart, and the  *)
(* whole is uploaded by a button, or replaced and uploaded by a service,   *)
(* in several copies.  Nothing can be read back.  External: the lamp, and  *)
(* Home Assistant's store of entity states.                                *)
(***************************************************************************)
EXTENDS Naturals, Sequences, FiniteSets

CONSTANTS
    DiyZones,                       \* diy.zones
    Off, Glow, Raw,                 \* MODE_NONE, a mode of the table, a number the table does not name
    Empty, Palette,                 \* no colours, some colours
    Lost, Any,                      \* "unknown" or "unavailable" as a stored state; whatever it is
    DiyCopies,                      \* LAN_WRITE_REPEATS
    MaxStages, MaxUploads, MaxDiyBoots      \* bounds

Fields == {"mode", "colors"}
Value(f) == IF f = "mode" THEN {Off, Glow, Raw} ELSE {Empty, Palette}
Default == [mode |-> Off, colors |-> Empty]
Record  == [mode : Value("mode"), colors : Value("colors")]

VARIABLES
    draft,          \* DiyStateStore._params
    added,          \* the staging entities that were added: <<zone, field>>
    uploads,        \* the uploads between two copies: the document, and the copies left
    lampDoc,        \* external: the document the lamp holds, and the one that was meant
    reach,          \* whether the lamp is reached, over the LAN and at all
    states,         \* external: the stored states
    meant,          \* history: what the user last gave each field
    stages, sent, diyBoots

vars == <<draft, added, uploads, lampDoc, reach, states, meant, stages, sent, diyBoots>>

Slots == DiyZones \X Fields

TypeOK ==
    /\ draft \in [DiyZones -> Record] /\ added \subseteq Slots /\ reach \in BOOLEAN
    /\ \A i \in DOMAIN uploads : uploads[i].left \in 1..DiyCopies
    /\ states \in [DiyZones -> [mode : {Off, Glow, Lost}, colors : {Palette, Lost}]]
    /\ meant \in [DiyZones -> [mode : Value("mode") \cup {Any}, colors : Value("colors") \cup {Any}]]
    /\ stages \in 0..MaxStages /\ sent \in 0..MaxUploads /\ diyBoots \in 0..MaxDiyBoots

Init ==
    /\ draft = [z \in DiyZones |-> Default] /\ added = Slots /\ uploads = <<>>
    /\ lampDoc = [doc |-> Any, whole |-> Any] /\ reach = TRUE
    /\ states = [z \in DiyZones |-> [mode |-> Off, colors |-> Lost]]
    /\ meant = [z \in DiyZones |-> Default] /\ stages = 0 /\ sent = 0 /\ diyBoots = 0
-----------------------------------------------------------------------------
(* Staging.                                                                 *)

Stage(z, f, v) ==
    /\ <<z, f>> \in added /\ stages < MaxStages /\ stages' = stages + 1
    /\ v # Raw
    /\ draft' = [draft EXCEPT ![z][f] = v] /\ meant' = [meant EXCEPT ![z][f] = v]
    /\ UNCHANGED <<added, uploads, lampDoc, reach, states, sent, diyBoots>>
-----------------------------------------------------------------------------
(* Uploads.                                                                 *)

\* effects: a zone whose mode is off is the empty record.
Effects(d) == [z \in DiyZones |-> IF d[z].mode = Off THEN Default ELSE d[z]]

\* A zone with a mode needs colours, and one zone a mode.
Encodable(d) == /\ \A z \in DiyZones : d[z].mode # Off => d[z].colors # Empty
                /\ \E z \in DiyZones : d[z].mode # Off

Known(d) == \A z \in DiyZones : \A f \in Fields : d[z][f] # Any

\* The first copy goes out at once; an upload that cannot be encoded or sent raises.
Uploads(d, whole) ==
    IF Encodable(d) /\ reach
    THEN LET doc == [doc |-> Effects(d), whole |-> IF Known(whole) THEN Effects(whole) ELSE Any]
         IN /\ lampDoc' = doc
            /\ uploads' = IF DiyCopies = 1 THEN uploads
                          ELSE Append(uploads, [doc |-> doc, left |-> DiyCopies - 1])
    ELSE UNCHANGED <<lampDoc, uploads>>

\* The button may be there before the staging entities are: a draft restored in part is not checked.
Press ==
    /\ sent < MaxUploads /\ sent' = sent + 1
    /\ Uploads(draft, IF added = Slots THEN meant ELSE [z \in DiyZones |-> [f \in Fields |-> Any]])
    /\ UNCHANGED <<draft, added, reach, states, meant, stages, diyBoots>>

\* Bug: what the call leaves out stays as it was staged.
RecordedOver(z, r) == IF r.mode = Off THEN [draft[z] EXCEPT !.mode = Off]
                      ELSE [r EXCEPT !.colors = IF @ = Empty THEN draft[z].colors ELSE @]

\* A zone that is not named is switched off; a named one gets every field.
Recorded(z, r) == IF r.mode = Off THEN [draft[z] EXCEPT !.mode = Off] ELSE r

\* The service replaces the draft and uploads it; what it sets before an entity is
\* added is set again by that entity's restore.
Service(rec) ==
    /\ sent < MaxUploads /\ sent' = sent + 1
    /\ LET new == [z \in DiyZones |-> Recorded(z, rec[z])]
       IN /\ draft' = new /\ Uploads(new, rec)
          /\ meant' = [z \in DiyZones |-> [f \in Fields |->
                         IF <<z, f>> \notin added THEN Any
                         ELSE IF rec[z].mode = Off /\ f = "colors" THEN meant[z][f] ELSE rec[z][f]]]
    /\ UNCHANGED <<added, reach, states, stages, diyBoots>>

\* Bug: each copy is made from the draft as it is then.
CopyNow(u) == [u.doc EXCEPT !.doc = Effects(draft)]

\* The copies are one document, made when it was asked for.
CopyOf(u) == u.doc

Copy ==
    /\ uploads # <<>>
    /\ LET u == Head(uploads)
       IN /\ lampDoc' = CopyOf(u)
          /\ uploads' = IF u.left = 1 THEN Tail(uploads) ELSE Append(Tail(uploads), [u EXCEPT !.left = @ - 1])
    /\ UNCHANGED <<draft, added, reach, states, meant, stages, sent, diyBoots>>
-----------------------------------------------------------------------------
(* Restart.                                                                 *)

Reaches ==
    /\ reach' = ~reach /\ UNCHANGED <<draft, added, uploads, lampDoc, states, meant, stages, sent, diyBoots>>

\* The state of an entity: none for a mode without a name or an empty palette, nor while it is unavailable.
Shown(z, f) == IF ~reach \/ draft[z][f] \in {Raw, Empty} THEN Lost ELSE draft[z][f]

Restart ==
    /\ diyBoots < MaxDiyBoots /\ diyBoots' = diyBoots + 1 /\ uploads' = <<>>
    /\ states' = [z \in DiyZones |-> [f \in Fields |-> IF <<z, f>> \in added THEN Shown(z, f) ELSE states[z][f]]]
    /\ draft' = [z \in DiyZones |-> Default] /\ added' = {}
    /\ meant' = [z \in DiyZones |-> [f \in Fields |->
                   IF <<z, f>> \in added /\ Shown(z, f) = Lost /\ draft[z][f] # Default[f] THEN Any ELSE meant[z][f]]]
    /\ UNCHANGED <<lampDoc, reach, stages, sent>>

\* Bug: the restored field replaces the record.
RestoredAlone(z, f) == IF states[z][f] = Lost THEN draft[z] ELSE [Default EXCEPT ![f] = states[z][f]]

\* A restored field is written into the record; nothing is when nothing was stored.
Restored(z, f) == IF states[z][f] = Lost THEN draft[z] ELSE [draft[z] EXCEPT ![f] = states[z][f]]

Add(z, f) ==
    /\ <<z, f>> \notin added /\ added' = added \cup {<<z, f>>}
    /\ draft' = [draft EXCEPT ![z] = Restored(z, f)]
    /\ UNCHANGED <<uploads, lampDoc, reach, states, meant, stages, sent, diyBoots>>
-----------------------------------------------------------------------------
Next == \/ \E z \in DiyZones, f \in Fields : Add(z, f) \/ \E v \in Value(f) : Stage(z, f, v)
        \/ Press \/ (\E rec \in [DiyZones -> Record] : Service(rec)) \/ Copy \/ Reaches \/ Restart

Spec == Init /\ [][Next]_vars
-----------------------------------------------------------------------------
\* Every entity shows what was last given to its field, through restarts, and the
\* lamp holds a document as it was meant as a whole: the draft as the button was
\* pressed, or the record of the service's call (diy_state.py 80-319, services.py 344-374).
DraftIsKept ==
    /\ \A z \in DiyZones : \A f \in Fields : <<z, f>> \in added /\ meant[z][f] # Any => draft[z][f] = meant[z][f]
    /\ lampDoc.whole # Any => lampDoc.doc = lampDoc.whole
=============================================================================
