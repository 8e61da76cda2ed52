---------------------------- MODULE MCLamps_proof ----------------------------
(***************************************************************************)
(* Theorems of MCLamps, for any zones, segments, colours, copies and        *)
(* bounds: the ring of a ceiling lamp, the readback of a strip, the zones   *)
(* of a lamp and the draft of its effect each keep what they were given or  *)
(* what the lamp has; and so does the sum they are checked in, with the     *)
(* control path (CommandDispatch_proof) in it.                              *)
(***************************************************************************)
EXTENDS MCLamps, CommandDispatch_proof, FiniteSetTheorems, WellFoundedInduction

-----------------------------------------------------------------------------
(* The draft of an effect (DiyDraft).                                       *)

Documents == [DiyZones -> Diy!Record] \cup {Any}
WholeDocs == {d \in [doc : Documents, whole : Documents] : d.whole # Any => d.doc = d.whole}
Uploaded  == [doc : WholeDocs, left : 1..DiyCopies]
StoredRecord == [mode : {Off, Glow, Lost}, colors : {Palette, Lost}]
MeantRecord  == [mode : Diy!Value("mode") \cup {Any}, colors : Diy!Value("colors") \cup {Any}]

DiyTyped ==
    /\ draft \in [DiyZones -> Diy!Record] /\ diyAdded \subseteq Diy!Slots /\ diyReach \in BOOLEAN
    /\ diyStates \in [DiyZones -> StoredRecord] /\ diyMeant \in [DiyZones -> MeantRecord]
    /\ diyStages \in 0..MaxStages /\ diySent \in 0..MaxUploads /\ diyBoots \in 0..MaxDiyBoots

\* An entity that was added shows what was meant; one that was not will restore it.
FieldKept(k, f) ==
    diyMeant[k][f] # Any =>
        IF <<k, f>> \in diyAdded THEN draft[k][f] = diyMeant[k][f]
        ELSE IF diyStates[k][f] = Lost THEN draft[k][f] = Diy!Default[f] /\ diyMeant[k][f] = Diy!Default[f]
        ELSE diyStates[k][f] = diyMeant[k][f]

FieldsKept == \A k \in DiyZones : \A f \in Diy!Fields : FieldKept(k, f)

DocsWhole == lampDoc \in [doc : Documents, whole : Documents] /\ lampDoc \in WholeDocs /\ diyUploads \in Seq(Uploaded)

DiyInv == DiyTyped /\ FieldsKept /\ DocsWhole

LEMMA FieldNames == Diy!Fields = {"mode", "colors"}
  BY DEF Diy!Fields

LEMMA FieldTypes ==
    ASSUME NEW f \in Diy!Fields
    PROVE  /\ \A r \in Diy!Record : r[f] \in Diy!Value(f)
           /\ \A r \in StoredRecord : r[f] # Lost => r[f] \in Diy!Value(f)
           /\ \A r \in Diy!Record : \A v \in Diy!Value(f) : [r EXCEPT ![f] = v] \in Diy!Record
           /\ \A r \in MeantRecord : \A v \in Diy!Value(f) : [r EXCEPT ![f] = v] \in MeantRecord
  BY DEF Diy!Fields, Diy!Record, Diy!Value, StoredRecord, MeantRecord

LEMMA DefaultTyped == Diy!Default \in Diy!Record /\ Diy!Default \in MeantRecord
  BY DEF Diy!Default, Diy!Record, Diy!Value, MeantRecord

LEMMA EffectsTyped ==
    ASSUME NEW d \in [DiyZones -> Diy!Record]
    PROVE  Diy!Effects(d) \in [DiyZones -> Diy!Record]
  BY DefaultTyped DEF Diy!Effects

\* What the copies carry, and what the lamp gets, is whole.
LEMMA UploadKeeps ==
    ASSUME DiyInv, NEW d \in [DiyZones -> Diy!Record], NEW whole, Diy!Uploads(d, whole),
           Diy!Encodable(d) /\ Diy!Known(whole) => Diy!Effects(whole) = Diy!Effects(d)
    PROVE  DocsWhole'
<1>1. CASE ~(Diy!Encodable(d) /\ diyReach)
  <2>1. UNCHANGED <<lampDoc, diyUploads>>
    BY <1>1 DEF Diy!Uploads
  <2> QED BY <2>1 DEF DiyInv, DocsWhole
<1>2. CASE Diy!Encodable(d) /\ diyReach
  <2> DEFINE doc == [doc |-> Diy!Effects(d), whole |-> IF Diy!Known(whole) THEN Diy!Effects(whole) ELSE Any]
  <2>1. /\ lampDoc' = doc
        /\ diyUploads' = IF DiyCopies = 1 THEN diyUploads ELSE Append(diyUploads, [doc |-> doc, left |-> DiyCopies - 1])
    BY <1>2 DEF Diy!Uploads
  <2>2. doc \in WholeDocs
    BY <1>2, EffectsTyped DEF WholeDocs, Documents
  <2>3. DiyCopies # 1 => [doc |-> doc, left |-> DiyCopies - 1] \in Uploaded
    BY <2>2, CopiesAssumption DEF Uploaded
  <2>4. diyUploads' \in Seq(Uploaded)
    <3> HIDE DEF doc
    <3> QED BY <2>1, <2>3 DEF DiyInv, DocsWhole
  <2> QED BY <2>1, <2>2, <2>4 DEF DocsWhole, WholeDocs
<1> QED BY <1>1, <1>2

LEMMA DiyStarts == Diy!Init => DiyInv
<1> SUFFICES ASSUME Diy!Init PROVE DiyInv
  OBVIOUS
<1>1. DiyTyped
  <2>1. [mode |-> Off, colors |-> Lost] \in StoredRecord
    BY DEF StoredRecord
  <2> QED BY <2>1, CopiesAssumption, DefaultTyped DEF Diy!Init, DiyTyped
<1>2. FieldsKept
  BY FieldTypes, DefaultTyped DEF Diy!Init, FieldsKept, FieldKept, Diy!Slots
<1>3. DocsWhole
  BY DEF Diy!Init, DocsWhole, WholeDocs, Documents
<1> QED BY <1>1, <1>2, <1>3 DEF DiyInv

LEMMA StageKeeps ==
    ASSUME DiyInv, NEW k \in DiyZones, NEW f \in Diy!Fields, NEW v \in Diy!Value(f), Diy!Stage(k, f, v)
    PROVE  DiyInv'
<1>1. /\ <<k, f>> \in diyAdded /\ diyStages < MaxStages /\ diyStages' = diyStages + 1
      /\ draft' = [draft EXCEPT ![k][f] = v] /\ diyMeant' = [diyMeant EXCEPT ![k][f] = v]
      /\ UNCHANGED <<diyAdded, diyUploads, lampDoc, diyReach, diyStates, diySent, diyBoots>>
  BY DEF Diy!Stage
<1>2. draft \in [DiyZones -> Diy!Record] /\ diyMeant \in [DiyZones -> MeantRecord]
  BY DEF DiyInv, DiyTyped
<1>3. [draft[k] EXCEPT ![f] = v] \in Diy!Record /\ [diyMeant[k] EXCEPT ![f] = v] \in MeantRecord
  BY <1>2, FieldTypes
<1>4. DiyTyped'
  BY <1>1, <1>2, <1>3, CopiesAssumption DEF DiyInv, DiyTyped
<1>5. ASSUME NEW o \in DiyZones, NEW g \in Diy!Fields PROVE FieldKept(o, g)'
  <2>1. CASE o = k /\ g = f
    <3>1. draft'[k][f] = v /\ diyMeant'[k][f] = v
      BY <1>1, <1>2 DEF Diy!Record, MeantRecord, Diy!Fields
    <3> QED BY <1>1, <2>1, <3>1 DEF FieldKept
  <2>2. CASE ~(o = k /\ g = f)
    <3>1. draft'[o][g] = draft[o][g] /\ diyMeant'[o][g] = diyMeant[o][g]
      BY <1>1, <1>2, <2>2 DEF Diy!Record, MeantRecord, Diy!Fields
    <3>2. FieldKept(o, g)
      BY DEF DiyInv, FieldsKept
    <3> QED BY <1>1, <3>1, <3>2 DEF FieldKept
  <2> QED BY <2>1, <2>2
<1>6. DocsWhole'
  BY <1>1 DEF DiyInv, DocsWhole
<1> QED BY <1>4, <1>5, <1>6 DEF DiyInv, FieldsKept

LEMMA PressKeeps ==
    ASSUME DiyInv, Diy!Press
    PROVE  DiyInv'
<1> DEFINE whole == IF diyAdded = Diy!Slots THEN diyMeant ELSE [k \in DiyZones |-> [f \in Diy!Fields |-> Any]]
<1>1. /\ diySent < MaxUploads /\ diySent' = diySent + 1 /\ Diy!Uploads(draft, whole)
      /\ UNCHANGED <<draft, diyAdded, diyReach, diyStates, diyMeant, diyStages, diyBoots>>
  BY DEF Diy!Press
<1>2. draft \in [DiyZones -> Diy!Record] /\ diyMeant \in [DiyZones -> MeantRecord]
  BY DEF DiyInv, DiyTyped
<1>3. ASSUME Diy!Encodable(draft), Diy!Known(whole) PROVE Diy!Effects(whole) = Diy!Effects(draft)
  <2>1. PICK k \in DiyZones : draft[k].mode # Off
    BY <1>3 DEF Diy!Encodable
  <2>2. diyAdded = Diy!Slots
    BY <1>3, <2>1 DEF Diy!Known, Diy!Fields
  <2>3. ASSUME NEW o \in DiyZones, NEW f \in Diy!Fields PROVE draft[o][f] = diyMeant[o][f]
    <3>1. diyMeant[o][f] # Any
      BY <1>3, <2>2 DEF Diy!Known
    <3>2. <<o, f>> \in diyAdded
      BY <2>2 DEF Diy!Slots
    <3> QED BY <3>1, <3>2 DEF DiyInv, FieldsKept, FieldKept
  <2>4. \A o \in DiyZones : draft[o] = diyMeant[o]
    BY <1>2, <2>3 DEF Diy!Fields, Diy!Record, MeantRecord
  <2> QED BY <2>2, <2>4 DEF Diy!Effects
<1>4. DocsWhole'
  <2> HIDE DEF whole
  <2> QED BY <1>1, <1>2, <1>3, UploadKeeps
<1>5. DiyTyped'
  BY <1>1, CopiesAssumption DEF DiyInv, DiyTyped
<1>6. FieldsKept'
  BY <1>1 DEF DiyInv, FieldsKept, FieldKept
<1> QED BY <1>4, <1>5, <1>6 DEF DiyInv

LEMMA ServiceKeeps ==
    ASSUME DiyInv, NEW rec \in [DiyZones -> Diy!Record], Diy!Service(rec)
    PROVE  DiyInv'
<1> DEFINE new == [k \in DiyZones |-> Diy!Recorded(k, rec[k])]
<1>1. /\ diySent < MaxUploads /\ diySent' = diySent + 1 /\ draft' = new /\ Diy!Uploads(new, rec)
      /\ diyMeant' = [k \in DiyZones |-> [f \in Diy!Fields |->
                        IF <<k, f>> \notin diyAdded THEN Any
                        ELSE IF rec[k].mode = Off /\ f = "colors" THEN diyMeant[k][f] ELSE rec[k][f]]]
      /\ UNCHANGED <<diyAdded, diyReach, diyStates, diyStages, diyBoots>>
  BY DEF Diy!Service
<1>2. draft \in [DiyZones -> Diy!Record] /\ diyMeant \in [DiyZones -> MeantRecord]
  BY DEF DiyInv, DiyTyped
<1>3. new \in [DiyZones -> Diy!Record]
  BY <1>2 DEF Diy!Recorded, Diy!Record, Diy!Value
<1>4. Diy!Effects(rec) = Diy!Effects(new)
  BY <1>2 DEF Diy!Effects, Diy!Recorded, Diy!Record
<1>5. DocsWhole'
  <2> HIDE DEF new
  <2> QED BY <1>1, <1>3, <1>4, UploadKeeps
<1>6. \A k \in DiyZones : diyMeant'[k] \in MeantRecord
  BY <1>1, <1>2 DEF Diy!Record, MeantRecord, Diy!Fields, Diy!Value
<1>7. DiyTyped'
  <2>1. diyMeant' \in [DiyZones -> MeantRecord]
    BY <1>1, <1>6
  <2>2. draft' \in [DiyZones -> Diy!Record]
    BY <1>1, <1>3
  <2>3. diySent' \in 0..MaxUploads
    BY <1>1, CopiesAssumption DEF DiyInv, DiyTyped
  <2> HIDE DEF new
  <2> QED BY <1>1, <2>1, <2>2, <2>3 DEF DiyInv, DiyTyped
<1>8. ASSUME NEW k \in DiyZones, NEW f \in Diy!Fields PROVE FieldKept(k, f)'
  <2>1. /\ diyMeant'[k][f] = IF <<k, f>> \notin diyAdded THEN Any
                             ELSE IF rec[k].mode = Off /\ f = "colors" THEN diyMeant[k][f] ELSE rec[k][f]
        /\ draft'[k] = Diy!Recorded(k, rec[k])
    BY <1>1
  <2>2. CASE <<k, f>> \notin diyAdded
    BY <1>1, <2>1, <2>2 DEF FieldKept
  <2>3. CASE <<k, f>> \in diyAdded /\ rec[k].mode # Off
    BY <1>1, <2>1, <2>3 DEF FieldKept, Diy!Recorded
  <2>4. CASE <<k, f>> \in diyAdded /\ rec[k].mode = Off /\ f = "mode"
    BY <1>1, <1>2, <2>1, <2>4 DEF FieldKept, Diy!Recorded, Diy!Record
  <2>5. CASE <<k, f>> \in diyAdded /\ rec[k].mode = Off /\ f = "colors"
    <3>1. draft'[k][f] = draft[k][f] /\ diyMeant'[k][f] = diyMeant[k][f]
      BY <1>1, <1>2, <2>1, <2>5 DEF Diy!Recorded, Diy!Record
    <3>2. FieldKept(k, f)
      BY DEF DiyInv, FieldsKept
    <3> QED BY <1>1, <2>5, <3>1, <3>2 DEF FieldKept
  <2> QED BY <2>2, <2>3, <2>4, <2>5, FieldNames
<1> QED BY <1>5, <1>7, <1>8 DEF DiyInv, FieldsKept

LEMMA CopyKeeps ==
    ASSUME DiyInv, Diy!Copy
    PROVE  DiyInv'
<1> DEFINE u == Head(diyUploads)
<1>1. /\ diyUploads # <<>> /\ lampDoc' = u.doc
      /\ diyUploads' = IF u.left = 1 THEN Tail(diyUploads) ELSE Append(Tail(diyUploads), [u EXCEPT !.left = @ - 1])
      /\ UNCHANGED <<draft, diyAdded, diyReach, diyStates, diyMeant, diyStages, diySent, diyBoots>>
  BY DEF Diy!Copy, Diy!CopyOf
<1>2. diyUploads \in Seq(Uploaded)
  BY DEF DiyInv, DocsWhole
<1>3. u \in Uploaded /\ Tail(diyUploads) \in Seq(Uploaded)
  BY <1>1, <1>2
<1>4. u.left # 1 => [u EXCEPT !.left = @ - 1] \in Uploaded
  <2> HIDE DEF u
  <2>1. u.left \in 1..DiyCopies /\ u.doc \in WholeDocs
    BY <1>3 DEF Uploaded
  <2>2. u.left # 1 => u.left - 1 \in 1..DiyCopies
    BY <2>1, CopiesAssumption
  <2>3. u = [doc |-> u.doc, left |-> u.left]
    BY <1>3 DEF Uploaded
  <2> QED BY <2>1, <2>2, <2>3 DEF Uploaded
<1>5. DocsWhole'
  <2> HIDE DEF u
  <2> QED BY <1>1, <1>3, <1>4 DEF DocsWhole, Uploaded, WholeDocs
<1> QED BY <1>1, <1>5 DEF DiyInv, DiyTyped, FieldsKept, FieldKept

LEMMA AddKeeps ==
    ASSUME DiyInv, NEW k \in DiyZones, NEW f \in Diy!Fields, Diy!Add(k, f)
    PROVE  DiyInv'
<1>1. /\ <<k, f>> \notin diyAdded /\ diyAdded' = diyAdded \cup {<<k, f>>}
      /\ draft' = [draft EXCEPT ![k] = Diy!Restored(k, f)]
      /\ UNCHANGED <<diyUploads, lampDoc, diyReach, diyStates, diyMeant, diyStages, diySent, diyBoots>>
  BY DEF Diy!Add
<1>2. draft \in [DiyZones -> Diy!Record] /\ diyStates \in [DiyZones -> StoredRecord]
  BY DEF DiyInv, DiyTyped
<1>3. Diy!Restored(k, f) \in Diy!Record
  BY <1>2, FieldTypes DEF Diy!Restored
<1>4. DiyTyped'
  BY <1>1, <1>2, <1>3 DEF DiyInv, DiyTyped, Diy!Slots
<1>5. ASSUME NEW o \in DiyZones, NEW g \in Diy!Fields PROVE FieldKept(o, g)'
  <2>1. FieldKept(o, g)
    BY DEF DiyInv, FieldsKept
  <2>2. CASE o = k /\ g = f
    <3>1. draft'[k][f] = IF diyStates[k][f] = Lost THEN draft[k][f] ELSE diyStates[k][f]
      BY <1>1, <1>2 DEF Diy!Restored, Diy!Record, Diy!Fields
    <3> QED BY <1>1, <2>1, <2>2, <3>1 DEF FieldKept
  <2>3. CASE ~(o = k /\ g = f)
    <3>1. draft'[o][g] = draft[o][g] /\ (<<o, g>> \in diyAdded' <=> <<o, g>> \in diyAdded)
      BY <1>1, <1>2, <2>3 DEF Diy!Restored, Diy!Record, Diy!Fields
    <3> QED BY <1>1, <2>1, <3>1 DEF FieldKept
  <2> QED BY <2>2, <2>3
<1>6. DocsWhole'
  BY <1>1 DEF DiyInv, DocsWhole
<1> QED BY <1>4, <1>5, <1>6 DEF DiyInv, FieldsKept

LEMMA RestartKeeps ==
    ASSUME DiyInv, Diy!Restart
    PROVE  DiyInv'
<1>1. /\ diyBoots < MaxDiyBoots /\ diyBoots' = diyBoots + 1 /\ diyUploads' = <<>>
      /\ diyStates' = [k \in DiyZones |-> [f \in Diy!Fields |->
                         IF <<k, f>> \in diyAdded THEN Diy!Shown(k, f) ELSE diyStates[k][f]]]
      /\ draft' = [k \in DiyZones |-> Diy!Default] /\ diyAdded' = {}
      /\ diyMeant' = [k \in DiyZones |-> [f \in Diy!Fields |->
                        IF <<k, f>> \in diyAdded /\ Diy!Shown(k, f) = Lost /\ draft[k][f] # Diy!Default[f]
                        THEN Any ELSE diyMeant[k][f]]]
      /\ UNCHANGED <<lampDoc, diyReach, diyStages, diySent>>
  BY DEF Diy!Restart
<1>2. /\ draft \in [DiyZones -> Diy!Record] /\ diyStates \in [DiyZones -> StoredRecord]
      /\ diyMeant \in [DiyZones -> MeantRecord]
  BY DEF DiyInv, DiyTyped
<1>3. ASSUME NEW k \in DiyZones PROVE diyStates'[k] \in StoredRecord /\ diyMeant'[k] \in MeantRecord
  BY <1>1, <1>2 DEF Diy!Shown, Diy!Record, Diy!Value, Diy!Fields, StoredRecord, MeantRecord
<1>4. DiyTyped'
  <2>1. diyStates' \in [DiyZones -> StoredRecord] /\ diyMeant' \in [DiyZones -> MeantRecord]
    BY <1>1, <1>3
  <2> QED BY <1>1, <2>1, DefaultTyped, CopiesAssumption DEF DiyInv, DiyTyped
<1>5. ASSUME NEW k \in DiyZones, NEW f \in Diy!Fields PROVE FieldKept(k, f)'
  <2>1. FieldKept(k, f)
    BY DEF DiyInv, FieldsKept
  <2>2. /\ diyStates'[k][f] = IF <<k, f>> \in diyAdded THEN Diy!Shown(k, f) ELSE diyStates[k][f]
        /\ diyMeant'[k][f] = IF <<k, f>> \in diyAdded /\ Diy!Shown(k, f) = Lost /\ draft[k][f] # Diy!Default[f]
                             THEN Any ELSE diyMeant[k][f]
        /\ draft'[k] = Diy!Default /\ <<k, f>> \notin diyAdded'
    BY <1>1
  <2>3. Diy!Shown(k, f) \in {Lost, draft[k][f]}
    BY DEF Diy!Shown
  <2> QED BY <2>1, <2>2, <2>3 DEF FieldKept
<1>6. DocsWhole'
  BY <1>1 DEF DiyInv, DocsWhole
<1> QED BY <1>4, <1>5, <1>6 DEF DiyInv, FieldsKept

LEMMA DiyGoesOn == DiyInv /\ [Diy!Next]_(Diy!vars) => DiyInv'
<1> SUFFICES ASSUME DiyInv, [Diy!Next]_(Diy!vars) PROVE DiyInv'
  OBVIOUS
<1>1. CASE UNCHANGED Diy!vars
  BY <1>1 DEF Diy!vars, DiyInv, DiyTyped, FieldsKept, FieldKept, DocsWhole
<1>2. CASE Diy!Reaches
  <2>1. diyReach' \in BOOLEAN
    BY <1>2 DEF Diy!Reaches
  <2> QED BY <1>2, <2>1 DEF Diy!Reaches, DiyInv, DiyTyped, FieldsKept, FieldKept, DocsWhole
<1> QED BY <1>1, <1>2, StageKeeps, PressKeeps, ServiceKeeps, CopyKeeps, AddKeeps, RestartKeeps DEF Diy!Next

LEMMA DiyIsRight == DiyInv => Diy!TypeOK /\ Diy!DraftIsKept
<1> SUFFICES ASSUME DiyInv PROVE Diy!TypeOK /\ Diy!DraftIsKept
  OBVIOUS
<1>1. \A i \in DOMAIN diyUploads : diyUploads[i].left \in 1..DiyCopies
  <2>1. diyUploads \in Seq(Uploaded)
    BY DEF DiyInv, DocsWhole
  <2>2. \A i \in DOMAIN diyUploads : diyUploads[i] \in Uploaded
    BY <2>1
  <2> QED BY <2>2 DEF Uploaded
<1>2. Diy!TypeOK
  BY <1>1 DEF DiyInv, DiyTyped, Diy!TypeOK, StoredRecord, MeantRecord
<1>3. Diy!DraftIsKept
  BY DEF DiyInv, FieldsKept, FieldKept, DocsWhole, WholeDocs, Diy!DraftIsKept
<1> QED BY <1>2, <1>3

\* For any zones and copies: an effect's draft comes back as it was given, and
\* the lamp holds it whole (diy_state.py 80-319, services.py 344-374).
THEOREM DraftKept == Diy!Spec => []Diy!DraftIsKept
<1> QED BY DiyStarts, DiyGoesOn, DiyIsRight, PTL DEF Diy!Spec
-----------------------------------------------------------------------------
(* The ring of a ceiling lamp (CeilingRing).                                *)

CallRecord == [at : {"idle", "writes", "landed", "replays"}, light : Ring!Lights, left : SUBSET Ring!Replay]

RingTyped ==
    /\ ringMode \in {"segments", "groups"} /\ ringRing \in [Segments -> Ring!Lights] /\ ringLit \in BOOLEAN
    /\ ringTrack \in [Segments -> Ring!Lights \cup {NoColour}] /\ ringShows \in [Segments -> Ring!Lights]
    /\ ringRgb \in [Ring!Owners -> Ring!Lights] /\ ringPowering \in [Ring!Owners -> Ring!Lights \cup {NoColour}]
    /\ ringPanel \in [Panels -> CallRecord] /\ ringQueue \in Seq(Ring!Command)
    /\ ringLanded \in BOOLEAN /\ (ringLanded => ringQueue # <<>>)
    /\ ringGoingOff \in BOOLEAN /\ ringSpoilt \in [Segments -> BOOLEAN] /\ ringOvertaken \in [Segments -> BOOLEAN]
    /\ ringTurns \in 0..MaxTurns /\ ringLosses \in 0..MaxLosses

\* A replay has one command in the queue at a time, while its panel's call
\* waits; an entity's command is for its own segments.
Waits(q, asked) ==
    /\ \A i \in DOMAIN q : IF q[i].by \in Panels THEN asked[q[i].by].at = "replays" ELSE q[i].segs = Ring!Of(q[i].by)
    /\ \A i, j \in DOMAIN q : q[i].by = q[j].by /\ q[i].by \in Panels => i = j

\* The last command of the queue for a segment is of this colour.
LastOf(q, s, v) ==
    \A i \in DOMAIN q :
        s \in q[i].segs /\ (\A j \in DOMAIN q : j > i => s \notin q[j].segs) => q[i].light = v

\* One of the queue, from the n-th on, is still to reach the segment.
ToCome(q, n, s) == \E i \in DOMAIN q : i >= n /\ s \in q[i].segs
First == IF ringLanded THEN 2 ELSE 1

Left(s)  == \E p \in Panels : ringPanel[p].at = "replays" /\ \E item \in ringPanel[p].left : s \in item.segs
Wiped(s) == \E p \in Panels : ringPanel[p].at = "landed" /\ ringRing[s] = ringPanel[p].light

\* A segment with nothing to come shows what is tracked, or a panel's write that will be made good.
SegmentKept(s) ==
    ~ringSpoilt[s] /\ ringTrack[s] # NoColour =>
        /\ LastOf(ringQueue, s, ringTrack[s])
        /\ ToCome(ringQueue, First, s) \/ Left(s) \/ ringRing[s] = ringTrack[s] \/ Wiped(s)

\* The commands that calls of the entities wait with, for a segment.
Asks(q, i, s) == q[i].by \in Ring!Owners /\ s \in q[i].segs
Asked(q, s)   == \E i \in DOMAIN q : Asks(q, i, s)
OneAsks(q, s) == \A i, j \in DOMAIN q : Asks(q, i, s) /\ Asks(q, j, s) => i = j

\* What such a command gives is tracked, and is what its entity holds.
Recorded(q, s) == \A i \in DOMAIN q : Asks(q, i, s) =>
    /\ ringTrack[s] = q[i].light
    /\ q[i].light # "black" => ringRgb[q[i].by] = q[i].light

\* A call that powers the lamp on holds its colour, and no other call is under way.
Raises(e, s) == e \in Ring!Owners /\ ringPowering[e] # NoColour /\ s \in Ring!Of(e)
Raised(q, s) == \A e : Raises(e, s) =>
    /\ ringRgb[e] = ringPowering[e] /\ ~Asked(q, s)
    /\ \A f : Raises(f, s) => e = f

\* What is left to replay is what is tracked.
LeftIsTracked(s) ==
    \A p \in Panels : ringPanel[p].at = "replays" =>
        \A item \in ringPanel[p].left : s \in item.segs => item.light = ringTrack[s]

\* The call of a segment that met no other one: what it tracks is what it will show.
Told(s) == ~ringOvertaken[s] =>
    /\ OneAsks(ringQueue, s) /\ Recorded(ringQueue, s) /\ Raised(ringQueue, s) /\ LeftIsTracked(s)
    /\ ~Asked(ringQueue, s) /\ (\A e : ~Raises(e, s)) => ringTrack[s] = ringShows[s]

RingInv ==
    /\ RingTyped /\ Waits(ringQueue, ringPanel) /\ (\A s \in Segments : SegmentKept(s))
    /\ ringMode = "segments" => \A s \in Segments : Told(s)

LEMMA SegsOf == \A e \in Ring!Owners : Ring!Of(e) \in SUBSET Segments /\ e \notin Panels
  BY RingAssumption DEF Ring!Owners, Ring!Of

LEMMA RingStarts == Ring!Init => RingInv
<1> SUFFICES ASSUME Ring!Init PROVE RingInv
  OBVIOUS
<1>1. Ring!NoCall \in CallRecord /\ Ring!NoCall.at = "idle"
  BY DEF Ring!NoCall, CallRecord, Ring!Lights
<1>2. RingTyped
  <2>1. "white" \in Ring!Lights /\ <<>> \in Seq(Ring!Command)
    BY DEF Ring!Lights
  <2>2. ringTrack \in [Segments -> Ring!Lights \cup {NoColour}]
    BY <2>1 DEF Ring!Init
  <2>3. ringSpoilt \in [Segments -> BOOLEAN] /\ ringOvertaken \in [Segments -> BOOLEAN]
    BY Zenon DEF Ring!Init
  <2>4. ringLit \in BOOLEAN /\ ringGoingOff \in BOOLEAN /\ ringLanded \in BOOLEAN /\ ~ringLanded
    BY Zenon DEF Ring!Init
  <2>5. ringPanel \in [Panels -> CallRecord] /\ ringRing \in [Segments -> Ring!Lights] /\ ringShows \in [Segments -> Ring!Lights]
    BY <1>1, <2>1 DEF Ring!Init
  <2>6. ringRgb \in [Ring!Owners -> Ring!Lights] /\ ringPowering \in [Ring!Owners -> Ring!Lights \cup {NoColour}]
    BY <2>1 DEF Ring!Init
  <2>7. ringMode \in {"segments", "groups"} /\ ringQueue = <<>> /\ ringTurns = 0 /\ ringLosses = 0
    BY DEF Ring!Init
  <2> QED BY <2>1, <2>2, <2>3, <2>4, <2>5, <2>6, <2>7, RingAssumption DEF RingTyped
<1>3. Waits(ringQueue, ringPanel) /\ \A s \in Segments : SegmentKept(s)
  BY DEF Ring!Init, Waits, SegmentKept, LastOf
<1>4. ASSUME ringMode = "segments", NEW s \in Segments PROVE Told(s)
  <2>1. ringTrack[s] = ringShows[s] /\ (\A e : ~Raises(e, s)) /\ \A p \in Panels : ringPanel[p].at # "replays"
    BY <1>1, <1>4 DEF Ring!Init, Raises
  <2> QED BY <2>1 DEF Ring!Init, Told, OneAsks, Recorded, Raised, LeftIsTracked
<1> QED BY <1>2, <1>3, <1>4 DEF RingInv

----------------------------------------------------------------------------
(* The queue.                                                               *)

LEMMA Appended ==
    ASSUME NEW q \in Seq(Ring!Command), NEW c \in Ring!Command
    PROVE  /\ Append(q, c) \in Seq(Ring!Command) /\ Append(q, c) # <<>>
           /\ \A n \in {1, 2} : \A s : ToCome(q, n, s) => ToCome(Append(q, c), n, s)
           /\ \A n \in {1, 2} : \A s : s \in c.segs /\ (n = 2 => q # <<>>) => ToCome(Append(q, c), n, s)
           /\ \A s, v : (s \in c.segs => c.light = v) /\ (s \notin c.segs => LastOf(q, s, v)) => LastOf(Append(q, c), s, v)
           /\ \A asked : /\ Waits(q, asked)
                         /\ IF c.by \in Panels THEN asked[c.by].at = "replays" /\ \A i \in DOMAIN q : q[i].by # c.by
                            ELSE c.segs = Ring!Of(c.by)
                         => Waits(Append(q, c), asked)
           /\ \A s : Asked(Append(q, c), s) <=> Asked(q, s) \/ (c.by \in Ring!Owners /\ s \in c.segs)
           /\ \A s : OneAsks(q, s) /\ (c.by \in Ring!Owners /\ s \in c.segs => ~Asked(q, s)) => OneAsks(Append(q, c), s)
           /\ \A i \in DOMAIN Append(q, c) : (i \in DOMAIN q /\ Append(q, c)[i] = q[i]) \/ Append(q, c)[i] = c
<1> DEFINE grown == Append(q, c)
<1>1. /\ grown \in Seq(Ring!Command) /\ Len(q) \in Nat /\ DOMAIN q = 1..Len(q) /\ DOMAIN grown = 1..(Len(q) + 1)
      /\ grown[Len(q) + 1] = c /\ \A i \in 1..Len(q) : grown[i] = q[i]
  OBVIOUS
<1>0. grown # <<>> /\ (q # <<>> => Len(q) >= 1)
  <2>1. q # <<>> => Len(q) >= 1
    OBVIOUS
  <2>2. Len(grown) = Len(q) + 1
    OBVIOUS
  <2>3. grown # <<>>
    BY ONLY <1>1, <2>2
  <2> QED BY <2>1, <2>3
<1> HIDE DEF grown
<1>2. \A i \in DOMAIN grown : (i \in DOMAIN q /\ grown[i] = q[i]) \/ (i = Len(q) + 1 /\ grown[i] = c)
  BY <1>1
<1>3. ASSUME NEW n \in {1, 2}, NEW s PROVE ToCome(q, n, s) => ToCome(grown, n, s)
  BY <1>1 DEF ToCome
<1>4. ASSUME NEW n \in {1, 2}, NEW s, s \in c.segs, n = 2 => q # <<>> PROVE ToCome(grown, n, s)
  <2>1. Len(q) + 1 \in DOMAIN grown /\ Len(q) + 1 >= n
    BY <1>0, <1>1, <1>4
  <2> QED BY <1>1, <1>4, <2>1 DEF ToCome
<1>5. ASSUME NEW s, NEW v, s \in c.segs => c.light = v, s \notin c.segs => LastOf(q, s, v)
      PROVE  LastOf(grown, s, v)
  <2> SUFFICES ASSUME NEW i \in DOMAIN grown, s \in grown[i].segs,
                      \A j \in DOMAIN grown : j > i => s \notin grown[j].segs
               PROVE  grown[i].light = v
    BY DEF LastOf
  <2>1. CASE i = Len(q) + 1
    BY <1>1, <1>5, <2>1
  <2>2. CASE i \in 1..Len(q)
    <3>1. s \notin c.segs /\ s \in q[i].segs /\ grown[i] = q[i] /\ i \in DOMAIN q
      BY <1>1, <2>2
    <3>2. \A j \in DOMAIN q : j > i => s \notin q[j].segs
      BY <1>1, <2>2
    <3> QED BY <1>5, <3>1, <3>2 DEF LastOf
  <2> QED BY <1>1, <2>1, <2>2
<1>6. ASSUME NEW asked, Waits(q, asked),
             IF c.by \in Panels THEN asked[c.by].at = "replays" /\ \A i \in DOMAIN q : q[i].by # c.by
             ELSE c.segs = Ring!Of(c.by)
      PROVE  Waits(grown, asked)
  <2>1. \A i \in DOMAIN grown :
          IF grown[i].by \in Panels THEN asked[grown[i].by].at = "replays" ELSE grown[i].segs = Ring!Of(grown[i].by)
    BY <1>2, <1>6 DEF Waits
  <2>2. \A i, j \in DOMAIN grown : grown[i].by = grown[j].by /\ grown[i].by \in Panels => i = j
    BY <1>2, <1>6 DEF Waits
  <2> QED BY <2>1, <2>2 DEF Waits
<1>7. ASSUME NEW s PROVE Asked(grown, s) <=> Asked(q, s) \/ (c.by \in Ring!Owners /\ s \in c.segs)
  BY <1>1, <1>2 DEF Asked, Asks
<1>8. ASSUME NEW s, OneAsks(q, s), c.by \in Ring!Owners /\ s \in c.segs => ~Asked(q, s) PROVE OneAsks(grown, s)
  BY <1>1, <1>2, <1>8 DEF OneAsks, Asked, Asks
<1> QED BY <1>0, <1>1, <1>2, <1>3, <1>4, <1>5, <1>6, <1>7, <1>8 DEF grown

LEMMA Tailed ==
    ASSUME NEW q \in Seq(Ring!Command), q # <<>>
    PROVE  /\ Tail(q) \in Seq(Ring!Command) /\ Head(q) \in Ring!Command /\ Head(q) = q[1] /\ 1 \in DOMAIN q
           /\ \A s : ToCome(q, 2, s) => ToCome(Tail(q), 1, s)
           /\ \A s : ToCome(q, 1, s) /\ s \notin Head(q).segs => ToCome(Tail(q), 1, s)
           /\ \A s, v : LastOf(q, s, v) => LastOf(Tail(q), s, v)
           /\ \A s, v : LastOf(q, s, v) /\ s \in Head(q).segs /\ ~ToCome(q, 2, s) => Head(q).light = v
           /\ \A asked : Waits(q, asked) =>
                /\ Waits(Tail(q), asked)
                /\ Head(q).by \in Panels => \A i \in DOMAIN Tail(q) : Tail(q)[i].by # Head(q).by
           /\ \A s : Asked(Tail(q), s) => Asked(q, s)
           /\ \A s : Asked(q, s) /\ ~Asks(q, 1, s) => Asked(Tail(q), s)
           /\ \A s : OneAsks(q, s) => OneAsks(Tail(q), s) /\ (Asks(q, 1, s) => ~Asked(Tail(q), s))
           /\ \A i \in DOMAIN Tail(q) : i + 1 \in DOMAIN q /\ Tail(q)[i] = q[i + 1]
<1> DEFINE rest == Tail(q)
<1>1. /\ rest \in Seq(Ring!Command) /\ Len(q) \in Nat /\ Len(q) >= 1 /\ DOMAIN q = 1..Len(q)
      /\ DOMAIN rest = 1..(Len(q) - 1) /\ Head(q) = q[1] /\ q[1] \in Ring!Command
      /\ \A i \in 1..(Len(q) - 1) : rest[i] = q[i + 1]
  OBVIOUS
<1> HIDE DEF rest
<1>2. \A i \in DOMAIN rest : i + 1 \in DOMAIN q /\ i + 1 > 1 /\ rest[i] = q[i + 1]
  BY <1>1
<1>3. \A i \in DOMAIN q : i > 1 => i - 1 \in DOMAIN rest /\ rest[i - 1] = q[i]
  BY <1>1
<1>4. ASSUME NEW s PROVE /\ ToCome(q, 2, s) => ToCome(rest, 1, s)
                         /\ ToCome(q, 1, s) /\ s \notin Head(q).segs => ToCome(rest, 1, s)
  <2>1. \A i \in DOMAIN q : i > 1 /\ s \in q[i].segs => ToCome(rest, 1, s)
    BY <1>1, <1>3 DEF ToCome
  <2>2. \A i \in DOMAIN q : i >= 2 \/ (s \notin Head(q).segs /\ s \in q[i].segs) => i > 1
    BY <1>1
  <2> QED BY <2>1, <2>2 DEF ToCome
<1>5. ASSUME NEW s, NEW v, LastOf(q, s, v) PROVE LastOf(rest, s, v)
  <2> SUFFICES ASSUME NEW i \in DOMAIN rest, s \in rest[i].segs,
                      \A j \in DOMAIN rest : j > i => s \notin rest[j].segs
               PROVE  rest[i].light = v
    BY DEF LastOf
  <2>1. \A j \in DOMAIN q : j > i + 1 => s \notin q[j].segs
    BY <1>1, <1>3
  <2> QED BY <1>1, <1>2, <1>5, <2>1 DEF LastOf
<1>6. ASSUME NEW s, NEW v, LastOf(q, s, v), s \in Head(q).segs, ~ToCome(q, 2, s) PROVE Head(q).light = v
  BY <1>1, <1>6 DEF LastOf, ToCome
<1>7. ASSUME NEW asked, Waits(q, asked)
      PROVE  Waits(rest, asked) /\ (Head(q).by \in Panels => \A i \in DOMAIN rest : rest[i].by # Head(q).by)
  <2>1. \A i, j \in DOMAIN rest : i + 1 = j + 1 => i = j
    BY <1>1
  <2>2. Waits(rest, asked)
    BY <1>2, <1>7, <2>1 DEF Waits
  <2>3. Head(q).by \in Panels => \A i \in DOMAIN rest : rest[i].by # Head(q).by
    BY <1>1, <1>2, <1>7 DEF Waits
  <2> QED BY <2>2, <2>3
<1>8. ASSUME NEW s PROVE /\ Asked(rest, s) => Asked(q, s)
                         /\ Asked(q, s) /\ ~Asks(q, 1, s) => Asked(rest, s)
  <2>1. Asked(rest, s) => Asked(q, s)
    BY <1>2 DEF Asked, Asks
  <2>2. ASSUME NEW i \in DOMAIN q, Asks(q, i, s), ~Asks(q, 1, s) PROVE Asked(rest, s)
    <3>1. i > 1
      BY <1>1, <2>2
    <3> QED BY <1>3, <2>2, <3>1 DEF Asked, Asks
  <2> QED BY <2>1, <2>2 DEF Asked
<1>9. ASSUME NEW s, OneAsks(q, s) PROVE OneAsks(rest, s) /\ (Asks(q, 1, s) => ~Asked(rest, s))
  <2>1. \A i \in DOMAIN rest : Asks(rest, i, s) => Asks(q, i + 1, s) /\ i + 1 \in DOMAIN q /\ i + 1 # 1
    BY <1>1, <1>2 DEF Asks
  <2>2. \A i, j \in DOMAIN rest : i + 1 = j + 1 => i = j
    BY <1>1
  <2> QED BY <1>1, <1>9, <2>1, <2>2 DEF OneAsks, Asked
<1> QED BY <1>1, <1>2, <1>4, <1>5, <1>6, <1>7, <1>8, <1>9 DEF rest

LEMMA OverColours ==
    ASSUME NEW segs \in SUBSET Segments, NEW v \in Ring!Lights
    PROVE  /\ \A f \in [Segments -> Ring!Lights] : Ring!Over(f, segs, v) \in [Segments -> Ring!Lights]
           /\ \A f \in [Segments -> Ring!Lights \cup {NoColour}] :
                /\ Ring!Over(f, segs, v) \in [Segments -> Ring!Lights \cup {NoColour}]
                /\ \A s \in Segments : Ring!Over(f, segs, v)[s] = IF s \in segs THEN v ELSE f[s]
  BY DEF Ring!Over

LEMMA OverFlags ==
    ASSUME NEW segs, NEW v \in BOOLEAN, NEW f \in [Segments -> BOOLEAN]
    PROVE  /\ Ring!Over(f, segs, v) \in [Segments -> BOOLEAN]
           /\ \A s \in Segments : Ring!Over(f, segs, v)[s] = IF s \in segs THEN v ELSE f[s]
  BY Zenon DEF Ring!Over

----------------------------------------------------------------------------
(* The ring's entities.                                                     *)

\* A call that records and queues its command, of entity e.
LEMMA DispatchKeeps ==
    ASSUME RingInv, NEW e \in Ring!Owners, NEW light \in Ring!Lights, Ring!Dispatched(e, light),
           UNCHANGED <<ringMode, ringRing, ringPanel, ringLanded, ringShows>>,
           \A f \in Ring!Owners : f # e => ringRgb'[f] = ringRgb[f] /\ ringPowering'[f] = ringPowering[f],
           \A s \in Segments : ringMode = "segments" /\ ~ringOvertaken'[s] =>
               IF s \in Ring!Of(e)
               THEN /\ ~Asked(ringQueue, s) /\ (\A p \in Panels : ringPanel[p].at # "replays")
                    /\ (\A f : ~Raises(f, s)') /\ (light # "black" => ringRgb'[e] = light)
               ELSE ~ringOvertaken[s]
    PROVE  /\ ringTrack' \in [Segments -> Ring!Lights \cup {NoColour}] /\ ringSpoilt' \in [Segments -> BOOLEAN]
           /\ ringQueue' \in Seq(Ring!Command) /\ ringQueue' # <<>> /\ Waits(ringQueue, ringPanel)'
           /\ \A s \in Segments : SegmentKept(s)'
           /\ ringMode' = "segments" => \A s \in Segments : Told(s)'
<1> DEFINE c == [light |-> light, segs |-> Ring!Of(e), by |-> e]
           segs == Ring!Of(e)
<1>1. /\ ringTrack' = Ring!Over(ringTrack, segs, light) /\ ringSpoilt' = Ring!Over(ringSpoilt, segs, FALSE)
      /\ ringQueue' = Append(ringQueue, c)
  BY DEF Ring!Dispatched
<1>2. /\ c \in Ring!Command /\ c.light = light /\ c.segs = segs /\ c.by = e /\ e \notin Panels /\ segs \in SUBSET Segments
      /\ c.segs = Ring!Of(e)
  BY SegsOf DEF Ring!Command, Ring!Lights
<1> HIDE DEF c
<1>3. /\ ringTrack \in [Segments -> Ring!Lights \cup {NoColour}] /\ ringSpoilt \in [Segments -> BOOLEAN]
      /\ ringQueue \in Seq(Ring!Command) /\ Waits(ringQueue, ringPanel) /\ (ringLanded => ringQueue # <<>>)
  BY DEF RingInv, RingTyped
<1>4. FALSE \in BOOLEAN
  BY Zenon
<1>5. /\ ringTrack' \in [Segments -> Ring!Lights \cup {NoColour}]
      /\ \A s \in Segments : ringTrack'[s] = IF s \in segs THEN light ELSE ringTrack[s]
  <2>1. ringTrack' \in [Segments -> Ring!Lights \cup {NoColour}]
    BY <1>1, <1>2, <1>3, OverColours
  <2>2. \A s \in Segments : ringTrack'[s] = IF s \in segs THEN light ELSE ringTrack[s]
    BY <1>1, <1>3 DEF Ring!Over
  <2> QED BY <2>1, <2>2
<1>6. /\ ringSpoilt' \in [Segments -> BOOLEAN]
      /\ \A s \in Segments : ringSpoilt'[s] = IF s \in segs THEN FALSE ELSE ringSpoilt[s]
  <2>1. ringSpoilt' \in [Segments -> BOOLEAN]
    BY <1>1, <1>3, <1>4, OverFlags, Zenon
  <2>2. \A s \in Segments : ringSpoilt'[s] = IF s \in segs THEN FALSE ELSE ringSpoilt[s]
    BY <1>1, <1>3 DEF Ring!Over
  <2> QED BY <2>1, <2>2
<1>7. /\ ringQueue' \in Seq(Ring!Command) /\ ringQueue' # <<>>
      /\ \A n \in {1, 2} : \A s : ToCome(ringQueue, n, s) => ToCome(ringQueue', n, s)
      /\ \A n \in {1, 2} : \A s : s \in segs /\ (n = 2 => ringQueue # <<>>) => ToCome(ringQueue', n, s)
      /\ \A s, v : (s \in segs => light = v) /\ (s \notin segs => LastOf(ringQueue, s, v)) => LastOf(ringQueue', s, v)
      /\ \A s : Asked(ringQueue', s) <=> Asked(ringQueue, s) \/ s \in segs
      /\ \A s : OneAsks(ringQueue, s) /\ (s \in segs => ~Asked(ringQueue, s)) => OneAsks(ringQueue', s)
      /\ \A i \in DOMAIN ringQueue' : (i \in DOMAIN ringQueue /\ ringQueue'[i] = ringQueue[i]) \/ ringQueue'[i] = c
  BY <1>1, <1>2, <1>3, Appended
<1>8. Waits(ringQueue, ringPanel)'
  BY <1>1, <1>2, <1>3, Appended
<1>9. First \in {1, 2} /\ First' = First /\ (First = 2 => ringQueue # <<>>)
  BY <1>3 DEF First
<1>10. ASSUME NEW s \in Segments PROVE SegmentKept(s)'
  <2>1. CASE s \in segs
    BY <1>5, <1>7, <1>9, <2>1 DEF SegmentKept
  <2>2. CASE s \notin segs
    <3>1. SegmentKept(s)
      BY DEF RingInv
    <3>2. (Left(s)' <=> Left(s)) /\ (Wiped(s)' <=> Wiped(s))
      BY DEF Left, Wiped
    <3>3. ringTrack'[s] = ringTrack[s] /\ ringSpoilt'[s] = ringSpoilt[s]
      BY <1>5, <1>6, <2>2
    <3> QED BY <1>7, <1>9, <2>2, <3>1, <3>2, <3>3 DEF SegmentKept
  <2> QED BY <2>1, <2>2
<1>11. ASSUME ringMode = "segments", NEW s \in Segments, ~ringOvertaken'[s]
       PROVE  /\ OneAsks(ringQueue, s)' /\ Recorded(ringQueue, s)' /\ Raised(ringQueue, s)' /\ LeftIsTracked(s)'
              /\ Asked(ringQueue, s)' \/ (\E e1 : Raises(e1, s))' \/ ringTrack'[s] = ringShows'[s]
  <2>1. CASE s \in segs
    <3>1. ~Asked(ringQueue, s) /\ (\A p \in Panels : ringPanel[p].at # "replays") /\ (\A f : ~Raises(f, s)')
          /\ (light # "black" => ringRgb'[e] = light)
      BY <1>11, <2>1
    <3>2. OneAsks(ringQueue', s) /\ Asked(ringQueue', s)
      BY <1>7, <2>1, <3>1 DEF OneAsks, Asked
    <3>3. \A i \in DOMAIN ringQueue' : Asks(ringQueue', i, s) => ringQueue'[i] = c
      BY <1>7, <3>1 DEF Asked, Asks
    <3>4. Recorded(ringQueue, s)'
      BY <1>2, <1>5, <2>1, <3>1, <3>3 DEF Recorded
    <3>5. Raised(ringQueue, s)' /\ LeftIsTracked(s)'
      BY <3>1 DEF Raised, LeftIsTracked
    <3> QED BY <3>2, <3>4, <3>5
  <2>2. CASE s \notin segs
    <3>1. Told(s) /\ ~ringOvertaken[s]
      BY <1>11, <2>2 DEF RingInv
    <3>2. OneAsks(ringQueue', s) /\ (Asked(ringQueue', s) <=> Asked(ringQueue, s))
      BY <1>7, <2>2, <3>1 DEF Told
    <3>3. \A i \in DOMAIN ringQueue' : Asks(ringQueue', i, s) =>
            i \in DOMAIN ringQueue /\ ringQueue'[i] = ringQueue[i] /\ Asks(ringQueue, i, s) /\ ringQueue[i].by # e
      <4>1. \A i \in DOMAIN ringQueue : Asks(ringQueue, i, s) => ringQueue[i].by # e
        BY <1>2, <1>3, <2>2, SegsOf DEF Waits, Asks
      <4> QED BY <1>2, <1>7, <2>2, <4>1 DEF Asks
    <3>4. ringTrack'[s] = ringTrack[s]
      BY <1>5, <2>2
    <3>5. Recorded(ringQueue, s)'
      <4>1. Recorded(ringQueue, s)
        BY <3>1 DEF Told
      <4>2. \A i \in DOMAIN ringQueue : Asks(ringQueue, i, s) /\ ringQueue[i].by # e => ringRgb'[ringQueue[i].by] = ringRgb[ringQueue[i].by]
        BY DEF Asks
      <4> QED BY <3>3, <3>4, <4>1, <4>2 DEF Recorded
    <3>6. \A f : Raises(f, s)' <=> Raises(f, s)
      BY <2>2 DEF Raises
    <3>7. Raised(ringQueue, s)'
      <4>1. \A f : Raises(f, s) => ringRgb'[f] = ringRgb[f] /\ ringPowering'[f] = ringPowering[f]
        BY <2>2 DEF Raises
      <4> QED BY <3>1, <3>2, <3>6, <4>1 DEF Told, Raised
    <3>8. LeftIsTracked(s)'
      BY <3>1, <3>4 DEF Told, LeftIsTracked
    <3> QED BY <3>1, <3>2, <3>4, <3>5, <3>6, <3>7, <3>8 DEF Told
  <2> QED BY <2>1, <2>2
<1> QED BY <1>5, <1>6, <1>7, <1>8, <1>10, <1>11 DEF Told

\* A call that begins counts, and meets a call or a replay or neither.
LEMMA BeginsCounts ==
    ASSUME RingInv, NEW e, Ring!Begins(e)
    PROVE  /\ ringTurns' \in 0..MaxTurns /\ ringOvertaken' \in [Segments -> BOOLEAN] /\ ringPowering[e] = NoColour
           /\ \A s \in Segments : ~ringOvertaken'[s] =>
               IF s \in Ring!Of(e)
               THEN /\ ~Asked(ringQueue, s) /\ (\A p \in Panels : ringPanel[p].at # "replays") /\ (\A f : ~Raises(f, s))
               ELSE ~ringOvertaken[s]
<1>1. /\ ringTurns < MaxTurns /\ ringTurns' = ringTurns + 1 /\ ringPowering[e] = NoColour
      /\ ringOvertaken' = [s \in Segments |-> IF s \in Ring!Of(e) THEN Ring!Calling(s) \/ Ring!Replaying ELSE ringOvertaken[s]]
  BY DEF Ring!Begins
<1>2. ringTurns' \in 0..MaxTurns
  BY <1>1, RingAssumption DEF RingInv, RingTyped
<1>3. ringOvertaken' \in [Segments -> BOOLEAN]
  <2>1. ringOvertaken \in [Segments -> BOOLEAN]
    BY DEF RingInv, RingTyped
  <2> QED BY <1>1, <2>1, Zenon
<1>4. ASSUME NEW s \in Segments, ~ringOvertaken'[s], s \in Ring!Of(e)
      PROVE  ~Ring!Calling(s) /\ ~Ring!Replaying
  BY <1>1, <1>4
<1>5. ASSUME NEW s \in Segments, ~ringOvertaken'[s], s \notin Ring!Of(e)
      PROVE  ~ringOvertaken[s]
  BY <1>1, <1>5
<1>6. \A s : ~Ring!Calling(s) => ~Asked(ringQueue, s) /\ \A f : ~Raises(f, s)
  BY DEF Ring!Calling, Asked, Asks, Raises
<1> QED BY <1>1, <1>2, <1>3, <1>4, <1>5, <1>6 DEF Ring!Replaying

LEMMA TurnOnKeeps ==
    ASSUME RingInv, NEW e \in Ring!Owners, NEW light \in Ring!Lights, Ring!TurnOn(e, light)
    PROVE  RingInv'
<1>1. /\ Ring!Begins(e) /\ ringRgb' = [ringRgb EXCEPT ![e] = light]
      /\ \/ Ring!Dispatched(e, light) /\ UNCHANGED ringPowering
         \/ ringPowering' = [ringPowering EXCEPT ![e] = light] /\ UNCHANGED <<ringTrack, ringSpoilt, ringQueue>>
      /\ UNCHANGED <<ringMode, ringRing, ringLit, ringShows, ringPanel, ringLanded, ringGoingOff, ringLosses>>
  BY DEF Ring!TurnOn, Ring!fixture
<1>2. /\ ringTurns' \in 0..MaxTurns /\ ringOvertaken' \in [Segments -> BOOLEAN] /\ ringPowering[e] = NoColour
      /\ \A s \in Segments : ~ringOvertaken'[s] =>
          IF s \in Ring!Of(e)
          THEN /\ ~Asked(ringQueue, s) /\ (\A p \in Panels : ringPanel[p].at # "replays") /\ (\A f : ~Raises(f, s))
          ELSE ~ringOvertaken[s]
  BY <1>1, BeginsCounts
<1>3. /\ ringRgb' \in [Ring!Owners -> Ring!Lights] /\ ringRgb'[e] = light
      /\ \A f \in Ring!Owners : f # e => ringRgb'[f] = ringRgb[f]
  BY <1>1 DEF RingInv, RingTyped
<1>4. CASE Ring!Dispatched(e, light) /\ UNCHANGED ringPowering
  <2>1. \A f, s : Raises(f, s)' <=> Raises(f, s)
    BY <1>4 DEF Raises
  <2>2. \A s \in Segments : ~ringOvertaken'[s] =>
          IF s \in Ring!Of(e)
          THEN /\ ~Asked(ringQueue, s) /\ (\A p \in Panels : ringPanel[p].at # "replays")
               /\ (\A f : ~Raises(f, s)') /\ (light # "black" => ringRgb'[e] = light)
          ELSE ~ringOvertaken[s]
    BY <1>2, <1>3, <2>1
  <2>3. /\ ringTrack' \in [Segments -> Ring!Lights \cup {NoColour}] /\ ringSpoilt' \in [Segments -> BOOLEAN]
        /\ ringQueue' \in Seq(Ring!Command) /\ ringQueue' # <<>> /\ Waits(ringQueue, ringPanel)'
        /\ \A s \in Segments : SegmentKept(s)'
        /\ ringMode' = "segments" => \A s \in Segments : Told(s)'
    BY <1>1, <1>3, <1>4, <2>2, DispatchKeeps
  <2>4. RingTyped'
    BY <1>1, <1>2, <1>3, <1>4, <2>3 DEF RingInv, RingTyped
  <2> QED BY <2>3, <2>4 DEF RingInv
<1>5. CASE ringPowering' = [ringPowering EXCEPT ![e] = light] /\ UNCHANGED <<ringTrack, ringSpoilt, ringQueue>>
  <2>1. /\ ringPowering' \in [Ring!Owners -> Ring!Lights \cup {NoColour}] /\ ringPowering'[e] = light
        /\ \A f \in Ring!Owners : f # e => ringPowering'[f] = ringPowering[f]
    BY <1>5 DEF RingInv, RingTyped
  <2>2. RingTyped'
    BY <1>1, <1>2, <1>3, <1>5, <2>1 DEF RingInv, RingTyped
  <2>3. ASSUME NEW s \in Segments PROVE SegmentKept(s)'
    <3>1. SegmentKept(s) /\ (Left(s)' <=> Left(s)) /\ (Wiped(s)' <=> Wiped(s)) /\ First' = First
      BY <1>1 DEF RingInv, Left, Wiped, First
    <3> QED BY <1>1, <1>5, <3>1 DEF SegmentKept
  <2>4. ASSUME ringMode = "segments", NEW s \in Segments, ~ringOvertaken'[s]
        PROVE  /\ OneAsks(ringQueue, s)' /\ Recorded(ringQueue, s)' /\ Raised(ringQueue, s)' /\ LeftIsTracked(s)'
               /\ Asked(ringQueue, s)' \/ (\E f : Raises(f, s))' \/ ringTrack'[s] = ringShows'[s]
    <3>1. CASE s \in Ring!Of(e)
      <4>1. ~Asked(ringQueue, s) /\ (\A p \in Panels : ringPanel[p].at # "replays") /\ (\A f : ~Raises(f, s))
        BY <1>2, <2>4, <3>1
      <4>2. (OneAsks(ringQueue, s) /\ Recorded(ringQueue, s))' /\ ~Asked(ringQueue, s)'
        BY <1>5, <4>1 DEF OneAsks, Recorded, Asked, Asks
      <4>3. \A f : Raises(f, s)' => f = e
        BY <2>1, <4>1 DEF Raises
      <4>4. Raises(e, s)'
        BY <2>1, <3>1, RingAssumption DEF Raises
      <4>5. Raised(ringQueue, s)'
        BY <1>3, <2>1, <4>2, <4>3 DEF Raised
      <4>6. LeftIsTracked(s)'
        BY <1>1, <4>1 DEF LeftIsTracked
      <4> QED BY <4>2, <4>4, <4>5, <4>6
    <3>2. CASE s \notin Ring!Of(e)
      <4>1. Told(s) /\ ~ringOvertaken[s]
        BY <1>2, <2>4, <3>2 DEF RingInv
      <4>2. \A f : (Raises(f, s)' <=> Raises(f, s))
                   /\ (Raises(f, s) => ringRgb'[f] = ringRgb[f] /\ ringPowering'[f] = ringPowering[f])
        BY <1>3, <2>1, <3>2 DEF Raises
      <4>3. Recorded(ringQueue, s)'
        <5>1. \A i \in DOMAIN ringQueue : Asks(ringQueue, i, s) => ringQueue[i].by # e /\ ringQueue[i].by \in Ring!Owners
          BY <3>2, SegsOf DEF RingInv, Waits, Asks
        <5> QED BY <1>3, <1>5, <4>1, <5>1 DEF Told, Recorded, Asks
      <4>4. Raised(ringQueue, s)'
        BY <1>5, <4>1, <4>2 DEF Told, Raised, Asked, Asks
      <4>5. LeftIsTracked(s)' /\ OneAsks(ringQueue, s)'
        BY <1>1, <1>5, <4>1 DEF Told, LeftIsTracked, OneAsks, Asks
      <4> QED BY <1>1, <1>5, <4>1, <4>2, <4>3, <4>4, <4>5 DEF Told, Asked, Asks
    <3> QED BY <3>1, <3>2
  <2>5. Waits(ringQueue, ringPanel)'
    BY <1>1, <1>5 DEF RingInv, Waits
  <2> QED BY <1>1, <2>2, <2>3, <2>4, <2>5 DEF RingInv, Told
<1> QED BY <1>1, <1>4, <1>5

LEMMA TurnOffKeeps ==
    ASSUME RingInv, NEW e \in Ring!Owners, Ring!TurnOff(e)
    PROVE  RingInv'
<1>1. /\ Ring!Begins(e) /\ Ring!Dispatched(e, "black") /\ "black" \in Ring!Lights
      /\ UNCHANGED <<ringMode, ringRing, ringLit, ringRgb, ringShows, ringPowering, ringPanel, ringLanded, ringGoingOff, ringLosses>>
  BY DEF Ring!TurnOff, Ring!fixture, Ring!entity, Ring!Lights
<1>2. /\ ringTurns' \in 0..MaxTurns /\ ringOvertaken' \in [Segments -> BOOLEAN]
      /\ \A s \in Segments : ~ringOvertaken'[s] =>
          IF s \in Ring!Of(e)
          THEN /\ ~Asked(ringQueue, s) /\ (\A p \in Panels : ringPanel[p].at # "replays") /\ (\A f : ~Raises(f, s))
          ELSE ~ringOvertaken[s]
  BY <1>1, BeginsCounts
<1>3. \A f, s : Raises(f, s)' <=> Raises(f, s)
  BY <1>1 DEF Raises
<1>4. /\ ringTrack' \in [Segments -> Ring!Lights \cup {NoColour}] /\ ringSpoilt' \in [Segments -> BOOLEAN]
      /\ ringQueue' \in Seq(Ring!Command) /\ ringQueue' # <<>> /\ Waits(ringQueue, ringPanel)'
      /\ \A s \in Segments : SegmentKept(s)'
      /\ ringMode' = "segments" => \A s \in Segments : Told(s)'
  <2>1. \A s \in Segments : ~ringOvertaken'[s] =>
          IF s \in Ring!Of(e)
          THEN /\ ~Asked(ringQueue, s) /\ (\A p \in Panels : ringPanel[p].at # "replays")
               /\ (\A f : ~Raises(f, s)') /\ ("black" # "black" => ringRgb'[e] = "black")
          ELSE ~ringOvertaken[s]
    BY <1>2, <1>3
  <2> QED BY <1>1, <2>1, DispatchKeeps
<1>5. RingTyped'
  BY <1>1, <1>2, <1>4 DEF RingInv, RingTyped
<1> QED BY <1>4, <1>5 DEF RingInv

LEMMA PoweredUpKeeps ==
    ASSUME RingInv, NEW e \in Ring!Owners, Ring!PoweredUp(e)
    PROVE  RingInv'
<1> DEFINE light == ringPowering[e]
<1>1. /\ light # NoColour /\ ringPowering' = [ringPowering EXCEPT ![e] = NoColour] /\ ringLit' \in {ringLit, TRUE}
      /\ \/ /\ Ring!Dispatched(e, light)
            /\ ringOvertaken' = [s \in Segments |-> ringOvertaken[s] \/ (s \in Ring!Of(e) /\ Ring!Replaying)]
            /\ UNCHANGED ringLosses
         \/ /\ ringLosses < MaxLosses /\ ringLosses' = ringLosses + 1
            /\ ringOvertaken' = Ring!Over(ringOvertaken, Ring!Of(e), TRUE) /\ UNCHANGED <<ringTrack, ringSpoilt, ringQueue>>
      /\ UNCHANGED <<ringMode, ringRing, ringRgb, ringShows, ringPanel, ringLanded, ringGoingOff, ringTurns>>
  BY DEF Ring!PoweredUp
<1>2. /\ ringPowering' \in [Ring!Owners -> Ring!Lights \cup {NoColour}] /\ ringPowering'[e] = NoColour
      /\ light \in Ring!Lights /\ ringOvertaken \in [Segments -> BOOLEAN]
      /\ \A f \in Ring!Owners : f # e => ringPowering'[f] = ringPowering[f]
  BY <1>1 DEF RingInv, RingTyped
<1>3. \A f, s : Raises(f, s)' <=> Raises(f, s) /\ f # e
  BY <1>2 DEF Raises
<1>l. ringLit' \in BOOLEAN
  <2>1. ringLit \in BOOLEAN
    BY DEF RingInv, RingTyped
  <2> QED BY <1>1, <2>1, Zenon
<1> HIDE DEF light
<1>4. CASE /\ Ring!Dispatched(e, light) /\ UNCHANGED ringLosses
           /\ ringOvertaken' = [s \in Segments |-> ringOvertaken[s] \/ (s \in Ring!Of(e) /\ Ring!Replaying)]
  <2>1. \A s \in Segments : ~ringOvertaken'[s] => ~ringOvertaken[s] /\ (s \in Ring!Of(e) => ~Ring!Replaying)
    BY <1>4
  <2>2. ASSUME ringMode = "segments", NEW s \in Segments, ~ringOvertaken'[s], s \in Ring!Of(e)
        PROVE  /\ ~Asked(ringQueue, s) /\ (\A p \in Panels : ringPanel[p].at # "replays")
               /\ (\A f : ~Raises(f, s)') /\ ringRgb'[e] = light
    <3>1. Raises(e, s) /\ Raised(ringQueue, s)
      BY <1>1, <2>1, <2>2 DEF RingInv, Told, Raises, light
    <3> QED BY <1>1, <1>3, <2>1, <2>2, <3>1 DEF Raised, Ring!Replaying, light
  <2>3. /\ ringTrack' \in [Segments -> Ring!Lights \cup {NoColour}] /\ ringSpoilt' \in [Segments -> BOOLEAN]
        /\ ringQueue' \in Seq(Ring!Command) /\ ringQueue' # <<>> /\ Waits(ringQueue, ringPanel)'
        /\ \A s \in Segments : SegmentKept(s)'
        /\ ringMode' = "segments" => \A s \in Segments : Told(s)'
    BY <1>1, <1>2, <1>4, <2>1, <2>2, DispatchKeeps
  <2>4. ringOvertaken' \in [Segments -> BOOLEAN]
    BY <1>2, <1>4, Zenon
  <2>5. RingTyped'
    BY <1>1, <1>2, <1>4, <1>l, <2>3, <2>4 DEF RingInv, RingTyped
  <2> QED BY <2>3, <2>5 DEF RingInv
<1>5. CASE /\ ringLosses < MaxLosses /\ ringLosses' = ringLosses + 1
           /\ ringOvertaken' = Ring!Over(ringOvertaken, Ring!Of(e), TRUE) /\ UNCHANGED <<ringTrack, ringSpoilt, ringQueue>>
  <2>1. ringOvertaken' \in [Segments -> BOOLEAN]
    <3>1. TRUE \in BOOLEAN
      BY Zenon
    <3> QED BY <1>2, <1>5, <3>1, OverFlags, Zenon
  <2>2. \A s \in Segments : ~ringOvertaken'[s] => ~ringOvertaken[s] /\ s \notin Ring!Of(e)
    BY <1>2, <1>5 DEF Ring!Over
  <2>3. RingTyped'
    <3>1. ringLosses' \in 0..MaxLosses
      BY <1>5, RingAssumption DEF RingInv, RingTyped
    <3> QED BY <1>1, <1>2, <1>5, <1>l, <2>1, <3>1 DEF RingInv, RingTyped
  <2>4. ASSUME NEW s \in Segments PROVE SegmentKept(s)'
    <3>1. SegmentKept(s) /\ (Left(s)' <=> Left(s)) /\ (Wiped(s)' <=> Wiped(s)) /\ First' = First
      BY <1>1 DEF RingInv, Left, Wiped, First
    <3> QED BY <1>1, <1>5, <3>1 DEF SegmentKept
  <2>5. ASSUME ringMode = "segments", NEW s \in Segments PROVE Told(s)'
    <3> SUFFICES ASSUME ~ringOvertaken'[s]
                 PROVE  /\ OneAsks(ringQueue, s)' /\ Recorded(ringQueue, s)' /\ Raised(ringQueue, s)' /\ LeftIsTracked(s)'
                        /\ Asked(ringQueue, s)' \/ (\E f : Raises(f, s))' \/ ringTrack'[s] = ringShows'[s]
      BY DEF Told
    <3>1. Told(s) /\ ~ringOvertaken[s] /\ s \notin Ring!Of(e)
      BY <2>2, <2>5 DEF RingInv
    <3>2. \A f : (Raises(f, s)' <=> Raises(f, s)) /\ (Raises(f, s) => ringPowering'[f] = ringPowering[f])
      BY <1>2, <1>3, <3>1 DEF Raises
    <3>3. Raised(ringQueue, s)'
      BY <1>1, <1>5, <3>1, <3>2 DEF Told, Raised, Asked, Asks
    <3>4. OneAsks(ringQueue, s)' /\ Recorded(ringQueue, s)' /\ LeftIsTracked(s)'
      BY <1>1, <1>5, <3>1 DEF Told, OneAsks, Recorded, LeftIsTracked, Asks
    <3> QED BY <1>1, <1>5, <3>1, <3>2, <3>3, <3>4 DEF Told, Asked, Asks
  <2>6. Waits(ringQueue, ringPanel)'
    BY <1>1, <1>5 DEF RingInv, Waits
  <2> QED BY <1>1, <2>3, <2>4, <2>5, <2>6 DEF RingInv
<1> QED BY <1>1, <1>4, <1>5

\* A turn-off that ends, sent or left out: what it records and what it shows.
LEMMA OffRecords ==
    ASSUME RingTyped, NEW e \in Ring!Owners
    PROVE  /\ Ring!RecordedWhenOff(e) \in [Segments -> Ring!Lights \cup {NoColour}]
           /\ \A s \in Segments : Ring!RecordedWhenOff(e)[s] =
                IF ringMode = "segments" /\ s \in Ring!Of(e) THEN "black" ELSE ringTrack[s]
<1>1. ringTrack \in [Segments -> Ring!Lights \cup {NoColour}] /\ "black" \in Ring!Lights /\ Ring!Of(e) \in SUBSET Segments
  BY SegsOf DEF RingTyped, Ring!Lights
<1>2. CASE ringMode = "segments"
  <2>1. Ring!RecordedWhenOff(e) = Ring!Over(ringTrack, Ring!Of(e), "black")
    BY <1>2 DEF Ring!RecordedWhenOff
  <2>2. Ring!Over(ringTrack, Ring!Of(e), "black") \in [Segments -> Ring!Lights \cup {NoColour}]
    BY <1>1, OverColours
  <2> QED BY <1>1, <1>2, <2>1, <2>2 DEF Ring!Over
<1>3. CASE ringMode # "segments"
  BY <1>1, <1>3 DEF Ring!RecordedWhenOff
<1> QED BY <1>2, <1>3

LEMMA HandsOver ==
    ASSUME RingTyped, NEW e \in Ring!Owners, NEW light \in Ring!Lights
    PROVE  /\ Ring!Mirrored(e) \in [Ring!Owners -> Ring!Lights] /\ Ring!Shown(e, light) \in [Segments -> Ring!Lights]
           /\ \A f \in Ring!Owners : Ring!Mirrored(e)[f] =
                IF ringMode = "segments" /\ f \in Ring!Of(e) THEN ringRgb[e] ELSE ringRgb[f]
           /\ \A s \in Segments : Ring!Shown(e, light)[s] =
                IF ringMode = "segments" /\ s \in Ring!Of(e)
                THEN (IF light = "black" THEN "black" ELSE ringRgb[e]) ELSE ringShows[s]
<1>1. /\ ringRgb \in [Ring!Owners -> Ring!Lights] /\ ringRgb[e] \in Ring!Lights
      /\ ringShows \in [Segments -> Ring!Lights] /\ "black" \in Ring!Lights
  BY DEF RingTyped, Ring!Lights
<1>2. \A s : s \in Ring!Signalled(e) <=> ringMode = "segments" /\ s \in Ring!Of(e)
  BY DEF Ring!Signalled
<1> QED BY <1>1, <1>2 DEF Ring!Mirrored, Ring!Shown, Ring!Over

LEMMA LeftOutKeeps ==
    ASSUME RingInv, NEW e \in Ring!Owners, Ring!LeftOut(e)
    PROVE  RingInv'
<1>1. /\ Ring!Begins(e) /\ ringTrack' = Ring!RecordedWhenOff(e) /\ ringRgb' = Ring!Mirrored(e)
      /\ ringShows' = Ring!Shown(e, "black") /\ "black" \in Ring!Lights
      /\ ringSpoilt' = (IF ringMode = "segments" THEN Ring!Over(ringSpoilt, Ring!Of(e), TRUE) ELSE ringSpoilt)
      /\ UNCHANGED <<ringMode, ringRing, ringLit, ringPowering, ringPanel, ringQueue, ringLanded, ringGoingOff, ringLosses>>
  BY DEF Ring!LeftOut, Ring!fixture, Ring!lock, Ring!Lights
<1>2. /\ ringTurns' \in 0..MaxTurns /\ ringOvertaken' \in [Segments -> BOOLEAN]
      /\ \A s \in Segments : ~ringOvertaken'[s] =>
          IF s \in Ring!Of(e)
          THEN /\ ~Asked(ringQueue, s) /\ (\A p \in Panels : ringPanel[p].at # "replays") /\ (\A f : ~Raises(f, s))
          ELSE ~ringOvertaken[s]
  BY <1>1, BeginsCounts
<1>3. /\ ringTrack' \in [Segments -> Ring!Lights \cup {NoColour}]
      /\ \A s \in Segments : ringTrack'[s] = IF ringMode = "segments" /\ s \in Ring!Of(e) THEN "black" ELSE ringTrack[s]
  BY <1>1, OffRecords DEF RingInv
<1>4. /\ ringRgb' \in [Ring!Owners -> Ring!Lights] /\ ringShows' \in [Segments -> Ring!Lights]
      /\ \A f \in Ring!Owners : ringMode # "segments" \/ f \notin Ring!Of(e) => ringRgb'[f] = ringRgb[f]
      /\ \A s \in Segments : ringMode = "segments" =>
           ringShows'[s] = IF s \in Ring!Of(e) THEN "black" ELSE ringShows[s]
  BY <1>1, HandsOver DEF RingInv
<1>5. /\ ringSpoilt' \in [Segments -> BOOLEAN]
      /\ \A s \in Segments : ~ringSpoilt'[s] => ~ringSpoilt[s] /\ (ringMode = "segments" => s \notin Ring!Of(e))
  <2>1. ringSpoilt \in [Segments -> BOOLEAN] /\ TRUE \in BOOLEAN
    BY Zenon DEF RingInv, RingTyped
  <2>2. CASE ringMode = "segments"
    <3>1. ringSpoilt' \in [Segments -> BOOLEAN]
      BY <1>1, <2>1, <2>2, OverFlags, Zenon
    <3> QED BY <1>1, <2>1, <2>2, <3>1 DEF Ring!Over
  <2> QED BY <1>1, <2>1, <2>2
<1>6. RingTyped'
  BY <1>1, <1>2, <1>3, <1>4, <1>5 DEF RingInv, RingTyped
<1>7. ASSUME NEW s \in Segments PROVE SegmentKept(s)'
  <2>1. SegmentKept(s) /\ (Left(s)' <=> Left(s)) /\ (Wiped(s)' <=> Wiped(s)) /\ First' = First
    BY <1>1 DEF RingInv, Left, Wiped, First
  <2> QED BY <1>1, <1>3, <1>5, <2>1 DEF SegmentKept
<1>8. ASSUME ringMode = "segments", NEW s \in Segments, ~ringOvertaken'[s]
      PROVE  /\ OneAsks(ringQueue, s)' /\ Recorded(ringQueue, s)' /\ Raised(ringQueue, s)' /\ LeftIsTracked(s)'
             /\ Asked(ringQueue, s)' \/ (\E f : Raises(f, s))' \/ ringTrack'[s] = ringShows'[s]
  <2>0. \A f : Raises(f, s)' <=> Raises(f, s)
    BY <1>1 DEF Raises
  <2>1. CASE s \in Ring!Of(e)
    <3>1. ~Asked(ringQueue, s) /\ (\A p \in Panels : ringPanel[p].at # "replays") /\ (\A f : ~Raises(f, s))
      BY <1>2, <1>8, <2>1
    <3>2. (OneAsks(ringQueue, s) /\ Recorded(ringQueue, s))'
      BY <1>1, <3>1 DEF OneAsks, Recorded, Asked, Asks
    <3>3. Raised(ringQueue, s)' /\ LeftIsTracked(s)'
      BY <1>1, <2>0, <3>1 DEF LeftIsTracked, Raised
    <3> QED BY <1>3, <1>4, <1>8, <2>1, <3>2, <3>3
  <2>2. CASE s \notin Ring!Of(e)
    <3>1. Told(s) /\ ~ringOvertaken[s] /\ ringTrack'[s] = ringTrack[s] /\ ringShows'[s] = ringShows[s]
      BY <1>2, <1>3, <1>4, <1>8, <2>2 DEF RingInv
    <3>2. \A f \in Ring!Owners : s \in Ring!Of(f) => ringRgb'[f] = ringRgb[f]
      BY <1>4, <2>2, RingAssumption DEF Ring!Of, Ring!Owners
    <3>3. Recorded(ringQueue, s)'
      <4>1. \A i \in DOMAIN ringQueue : Asks(ringQueue, i, s) => ringRgb'[ringQueue[i].by] = ringRgb[ringQueue[i].by]
        BY <3>2, SegsOf DEF RingInv, Waits, Asks
      <4> QED BY <1>1, <3>1, <4>1 DEF Told, Recorded, Asks
    <3>4. Raised(ringQueue, s)'
      <4>1. \A f : Raises(f, s) => ringRgb'[f] = ringRgb[f]
        BY <3>2 DEF Raises
      <4> QED BY <1>1, <2>0, <3>1, <4>1 DEF Told, Raised, Asked, Asks
    <3>5. LeftIsTracked(s)' /\ OneAsks(ringQueue, s)'
      BY <1>1, <3>1 DEF Told, LeftIsTracked, OneAsks, Asks
    <3> QED BY <1>1, <2>0, <3>1, <3>3, <3>4, <3>5 DEF Told, Asked, Asks
  <2> QED BY <2>1, <2>2
<1>9. Waits(ringQueue, ringPanel)'
  BY <1>1 DEF RingInv, Waits
<1> QED BY <1>1, <1>6, <1>7, <1>8, <1>9 DEF RingInv, Told

LEMMA RingRestarts ==
    ASSUME RingInv, Ring!Restart
    PROVE  RingInv'
<1>1. /\ ringLosses < MaxLosses /\ ringLosses' = ringLosses + 1
      /\ ringTrack' = Ring!Restored /\ ringRgb' \in Ring!Remembered
      /\ ringPowering' = [e \in Ring!Owners |-> NoColour]
      /\ ringPanel' = [p \in Panels |-> Ring!NoCall] /\ ringQueue' = <<>> /\ ringLanded' = FALSE /\ ringGoingOff' = FALSE
      /\ ringSpoilt' = (IF ringQueue = <<>> /\ (\A p \in Panels : ringPanel[p].at = "idle") /\ ringTrack = Ring!Restored
                        THEN ringSpoilt ELSE [s \in Segments |-> TRUE])
      /\ ringOvertaken' = [s \in Segments |-> FALSE]
      /\ UNCHANGED <<ringMode, ringRing, ringLit, ringShows, ringTurns>>
  BY DEF Ring!Restart, Ring!fixture
<1>2. Ring!NoCall \in CallRecord /\ Ring!NoCall.at = "idle"
  BY DEF Ring!NoCall, CallRecord, Ring!Lights
<1>3. /\ ringTrack' \in [Segments -> Ring!Lights \cup {NoColour}] /\ ringRgb' \in [Ring!Owners -> Ring!Lights]
      /\ \A s \in Segments : ringTrack'[s] = IF ringMode = "segments" THEN ringShows[s] ELSE NoColour
  BY <1>1 DEF RingInv, RingTyped, Ring!Restored, Ring!Remembered
<1>4. RingTyped'
  <2>1. ringSpoilt' \in [Segments -> BOOLEAN] /\ ringOvertaken' \in [Segments -> BOOLEAN]
    <3>1. ringSpoilt \in [Segments -> BOOLEAN]
      BY DEF RingInv, RingTyped
    <3> QED BY <1>1, <3>1, Zenon
  <2>2. ringPanel' \in [Panels -> CallRecord] /\ ringPowering' \in [Ring!Owners -> Ring!Lights \cup {NoColour}]
    BY <1>1, <1>2
  <2>3. ringLosses' \in 0..MaxLosses
    BY <1>1, RingAssumption DEF RingInv, RingTyped
  <2>4. ringGoingOff' \in BOOLEAN /\ ringLanded' \in BOOLEAN /\ ~ringLanded'
    BY <1>1, Zenon
  <2>5. ringQueue' \in Seq(Ring!Command)
    BY <1>1
  <2> QED BY <1>1, <1>3, <2>1, <2>2, <2>3, <2>4, <2>5 DEF RingInv, RingTyped
<1>5. ASSUME NEW s \in Segments PROVE SegmentKept(s)'
  <2> SUFFICES ASSUME ~ringSpoilt'[s], ringTrack'[s] # NoColour PROVE ringRing'[s] = ringTrack'[s]
    BY <1>1 DEF SegmentKept, LastOf
  <2>1. /\ ringQueue = <<>> /\ (\A p \in Panels : ringPanel[p].at = "idle") /\ ringTrack' = ringTrack /\ ~ringSpoilt[s]
    BY <1>1
  <2>2. SegmentKept(s) /\ ~Left(s) /\ ~Wiped(s) /\ ~ToCome(ringQueue, First, s)
    BY <2>1 DEF RingInv, Left, Wiped, ToCome
  <2> QED BY <1>1, <2>1, <2>2 DEF SegmentKept
<1>6. ASSUME ringMode = "segments", NEW s \in Segments PROVE Told(s)'
  <2>1. ringTrack'[s] = ringShows'[s] /\ (\A f : ~Raises(f, s)')
    BY <1>1, <1>3, <1>6 DEF Raises
  <2> QED BY <1>1, <1>2, <2>1 DEF Told, OneAsks, Recorded, Raised, LeftIsTracked
<1>7. Waits(ringQueue, ringPanel)'
  BY <1>1 DEF Waits
<1> QED BY <1>1, <1>4, <1>5, <1>6, <1>7 DEF RingInv

----------------------------------------------------------------------------
(* The panel.                                                               *)

\* The panel of a call that replays the commands of left, after the queue q:
\* what has to hold of a segment for its next step.
KeptBut(p, left, q, was, n, s) ==
    ~was[s] /\ ringTrack[s] # NoColour =>
        /\ LastOf(q, s, ringTrack[s])
        /\ \/ ToCome(q, n, s) \/ (\E item \in left : s \in item.segs) \/ ringRing[s] = ringTrack[s]
           \/ \E r \in Panels \ {p} : ringPanel[r].at = "replays" /\ \E item \in ringPanel[r].left : s \in item.segs
           \/ \E r \in Panels \ {p} : ringPanel[r].at = "landed" /\ ringRing[s] = ringPanel[r].light
ToldBut(p, left, q, s) == ~ringOvertaken[s] =>
    /\ OneAsks(q, s) /\ Recorded(q, s) /\ Raised(q, s)
    /\ \A item \in left : s \in item.segs => item.light = ringTrack[s]
    /\ \A r \in Panels \ {p} : ringPanel[r].at = "replays" =>
         \A item \in ringPanel[r].left : s \in item.segs => item.light = ringTrack[s]
    /\ Asked(q, s) \/ (\E f : Raises(f, s)) \/ ringTrack[s] = ringShows[s]

LEMMA ReplaysKeeps ==
    ASSUME RingTyped, NEW p \in Panels, NEW left \in SUBSET Ring!Replay, NEW q \in Seq(Ring!Command),
           NEW was \in [Segments -> BOOLEAN],
           Waits(q, ringPanel), \A i \in DOMAIN q : q[i].by # p, ringLanded' => q # <<>>,
           \A s \in Segments : KeptBut(p, left, q, was, First', s),
           ringMode = "segments" => \A s \in Segments : ToldBut(p, left, q, s),
           Ring!Replays(p, left, q, was),
           UNCHANGED <<ringMode, ringRing, ringRgb, ringShows, ringPowering, ringOvertaken>>
    PROVE  /\ ringPanel' \in [Panels -> CallRecord] /\ ringQueue' \in Seq(Ring!Command) /\ (ringLanded' => ringQueue' # <<>>)
           /\ ringTrack' \in [Segments -> Ring!Lights \cup {NoColour}] /\ ringSpoilt' \in [Segments -> BOOLEAN]
           /\ Waits(ringQueue, ringPanel)' /\ (\A s \in Segments : SegmentKept(s)')
           /\ ringMode' = "segments" => \A s \in Segments : Told(s)'
<1>1. /\ ringPanel \in [Panels -> CallRecord] /\ ringPanel[p] \in CallRecord
      /\ Ring!NoCall \in CallRecord /\ Ring!NoCall.at = "idle"
      /\ ringTrack \in [Segments -> Ring!Lights \cup {NoColour}]
  BY DEF RingTyped, Ring!NoCall, CallRecord, Ring!Lights
<1>2. \A f, s : Raises(f, s)' <=> Raises(f, s)
  BY DEF Raises
<1>3. First' \in {1, 2} /\ (First' = 2 => q # <<>>)
  BY DEF First
<1>4. CASE left = {}
  <2>1. /\ ringPanel' = [ringPanel EXCEPT ![p] = Ring!NoCall] /\ ringQueue' = q /\ ringSpoilt' = was
        /\ ringTrack' = ringTrack
    BY <1>4 DEF Ring!Replays
  <2>2. /\ ringPanel' \in [Panels -> CallRecord] /\ ringPanel'[p].at = "idle"
        /\ \A r \in Panels : r # p => ringPanel'[r] = ringPanel[r]
    BY <1>1, <2>1
  <2>3. Waits(ringQueue, ringPanel)'
    BY <2>1, <2>2 DEF Waits
  <2>4. ASSUME NEW s \in Segments PROVE SegmentKept(s)'
    <3>1. KeptBut(p, left, q, was, First', s)
      OBVIOUS
    <3> QED BY <1>4, <2>1, <2>2, <3>1 DEF KeptBut, SegmentKept, Left, Wiped
  <2>5. ASSUME ringMode = "segments", NEW s \in Segments PROVE Told(s)'
    <3>1. ToldBut(p, left, q, s)
      BY <2>5
    <3>2. ~ringOvertaken[s] => /\ OneAsks(ringQueue, s)' /\ Recorded(ringQueue, s)' /\ Raised(ringQueue, s)'
                               /\ Asked(ringQueue, s)' <=> Asked(q, s)
      BY <1>2, <2>1, <3>1 DEF ToldBut, OneAsks, Recorded, Raised, Asked, Asks
    <3>3. ~ringOvertaken[s] => LeftIsTracked(s)'
      BY <2>1, <2>2, <3>1 DEF ToldBut, LeftIsTracked
    <3> QED BY <1>2, <2>1, <3>1, <3>2, <3>3 DEF ToldBut, Told
  <2>6. ringTrack' \in [Segments -> Ring!Lights \cup {NoColour}] /\ ringSpoilt' \in [Segments -> BOOLEAN]
    BY <1>1, <2>1
  <2>7. ringQueue' \in Seq(Ring!Command) /\ (ringLanded' => ringQueue' # <<>>)
    BY <2>1
  <2> QED BY <2>2, <2>3, <2>4, <2>5, <2>6, <2>7
<1>5. CASE left # {}
  <2>1. PICK next \in left :
          /\ ringPanel' = [ringPanel EXCEPT ![p].at = "replays", ![p].left = left \ {next}]
          /\ ringTrack' = Ring!Over(ringTrack, next.segs, next.light)
          /\ ringQueue' = Append(q, [light |-> next.light, segs |-> next.segs, by |-> p])
          /\ ringSpoilt' = Ring!Over(was, next.segs, FALSE)
    BY <1>5 DEF Ring!Replays
  <2> DEFINE c == [light |-> next.light, segs |-> next.segs, by |-> p]
  <2>2. /\ c \in Ring!Command /\ c.light = next.light /\ c.segs = next.segs /\ c.by = p /\ p \notin Ring!Owners
        /\ next.segs \in SUBSET Segments /\ next.light \in Ring!Lights /\ next.light # NoColour
    BY RingAssumption, SegsOf DEF Ring!Command, Ring!Replay
  <2>3. ringQueue' = Append(q, c)
    BY <2>1
  <2> HIDE DEF c
  <2>4. /\ ringPanel' \in [Panels -> CallRecord] /\ ringPanel'[p].at = "replays" /\ ringPanel'[p].left = left \ {next}
        /\ \A r \in Panels : r # p => ringPanel'[r] = ringPanel[r]
    <3>1. left \ {next} \in SUBSET Ring!Replay
      OBVIOUS
    <3> QED BY <1>1, <2>1, <3>1 DEF CallRecord
  <2>5. ringTrack' \in [Segments -> Ring!Lights \cup {NoColour}]
    BY <1>1, <2>1, <2>2, OverColours
  <2>6. \A s \in Segments : ringTrack'[s] = IF s \in next.segs THEN next.light ELSE ringTrack[s]
    BY <1>1, <2>1 DEF Ring!Over
  <2>7. ringSpoilt' \in [Segments -> BOOLEAN]
    <3>1. FALSE \in BOOLEAN
      BY Zenon
    <3> QED BY <2>1, <3>1, OverFlags, Zenon
  <2>8. \A s \in Segments : ringSpoilt'[s] = IF s \in next.segs THEN FALSE ELSE was[s]
    BY <2>1 DEF Ring!Over
  <2>9. /\ ringQueue' \in Seq(Ring!Command) /\ ringQueue' # <<>>
        /\ \A n \in {1, 2} : \A s : ToCome(q, n, s) => ToCome(ringQueue', n, s)
        /\ \A n \in {1, 2} : \A s : s \in next.segs /\ (n = 2 => q # <<>>) => ToCome(ringQueue', n, s)
        /\ \A s, v : (s \in next.segs => next.light = v) /\ (s \notin next.segs => LastOf(q, s, v)) => LastOf(ringQueue', s, v)
        /\ \A s : Asked(ringQueue', s) <=> Asked(q, s)
        /\ \A s : OneAsks(q, s) => OneAsks(ringQueue', s)
        /\ \A i \in DOMAIN ringQueue' : (i \in DOMAIN q /\ ringQueue'[i] = q[i]) \/ ringQueue'[i] = c
    BY <2>2, <2>3, Appended
  <2>10. Waits(ringQueue, ringPanel)'
    <3>1. Waits(q, ringPanel')
      BY <2>4 DEF Waits
    <3>2. Waits(Append(q, c), ringPanel')
      BY <2>2, <2>4, <3>1, Appended
    <3> QED BY <2>3, <3>2
  <2>11. ASSUME NEW s \in Segments PROVE SegmentKept(s)'
    <3>1. CASE s \in next.segs
      BY <1>3, <2>6, <2>9, <3>1 DEF SegmentKept
    <3>2. CASE s \notin next.segs
      <4>1. KeptBut(p, left, q, was, First', s) /\ ringTrack'[s] = ringTrack[s] /\ ringSpoilt'[s] = was[s]
        BY <2>6, <2>8, <3>2
      <4>2. (\E item \in left : s \in item.segs) => Left(s)'
        <5>1. \A item \in left : s \in item.segs => item \in left \ {next}
          BY <3>2
        <5> QED BY <2>4, <5>1 DEF Left
      <4>3. /\ (\E r \in Panels \ {p} : ringPanel[r].at = "replays" /\ \E item \in ringPanel[r].left : s \in item.segs) => Left(s)'
            /\ (\E r \in Panels \ {p} : ringPanel[r].at = "landed" /\ ringRing[s] = ringPanel[r].light) => Wiped(s)'
        BY <2>4 DEF Left, Wiped
      <4>4. ~was[s] /\ ringTrack[s] # NoColour => LastOf(ringQueue', s, ringTrack[s])
        BY <2>9, <3>2, <4>1 DEF KeptBut
      <4> QED BY <1>3, <2>9, <4>1, <4>2, <4>3, <4>4 DEF KeptBut, SegmentKept
    <3> QED BY <3>1, <3>2
  <2>12. ASSUME ringMode = "segments", NEW s \in Segments, ~ringOvertaken[s]
         PROVE  /\ OneAsks(ringQueue, s)' /\ Recorded(ringQueue, s)' /\ Raised(ringQueue, s)' /\ LeftIsTracked(s)'
                /\ Asked(ringQueue, s)' \/ (\E f : Raises(f, s))' \/ ringTrack'[s] = ringShows'[s]
    <3>1. ToldBut(p, left, q, s)
      BY <2>12
    <3>2. ringTrack'[s] = ringTrack[s]
      <4>1. \A item \in left : s \in item.segs => item.light = ringTrack[s]
        BY <2>12, <3>1 DEF ToldBut
      <4> QED BY <2>6, <4>1
    <3>3. OneAsks(ringQueue, s)' /\ (Asked(ringQueue, s)' <=> Asked(q, s))
      BY <2>9, <2>12, <3>1 DEF ToldBut
    <3>4. Recorded(ringQueue, s)'
      <4>1. \A i \in DOMAIN ringQueue' : Asks(ringQueue', i, s) => i \in DOMAIN q /\ ringQueue'[i] = q[i] /\ Asks(q, i, s)
        BY <2>2, <2>9 DEF Asks
      <4> QED BY <2>12, <3>1, <3>2, <4>1 DEF ToldBut, Recorded
    <3>5. Raised(ringQueue, s)'
      BY <1>2, <2>12, <3>1, <3>3 DEF ToldBut, Raised
    <3>6. LeftIsTracked(s)'
      <4>1. ASSUME NEW r \in Panels, ringPanel'[r].at = "replays", NEW item \in ringPanel'[r].left, s \in item.segs
            PROVE  item.light = ringTrack[s]
        <5>1. CASE r = p
          BY <2>4, <2>12, <3>1, <4>1, <5>1 DEF ToldBut
        <5>2. CASE r # p
          BY <2>4, <2>12, <3>1, <4>1, <5>2 DEF ToldBut
        <5> QED BY <5>1, <5>2
      <4> QED BY <3>2, <4>1 DEF LeftIsTracked
    <3> QED BY <1>2, <2>12, <3>1, <3>2, <3>3, <3>4, <3>5, <3>6 DEF ToldBut
  <2> QED BY <2>4, <2>5, <2>7, <2>9, <2>10, <2>11, <2>12 DEF Told
<1> QED BY <1>4, <1>5

\* The panel's writes leave the queue and what is tracked alone.
LEMMA StaysTold ==
    ASSUME RingInv, NEW s \in Segments, ringMode = "segments",
           UNCHANGED <<ringTrack, ringRgb, ringShows, ringPowering, ringQueue, ringOvertaken>>,
           \A p \in Panels : ringPanel'[p].at = "replays" => ringPanel'[p] = ringPanel[p]
    PROVE  Told(s)'
<1>1. Told(s)
  BY DEF RingInv
<1>2. LeftIsTracked(s) => LeftIsTracked(s)'
  BY DEF LeftIsTracked
<1>3. \A f : Raises(f, s)' <=> Raises(f, s)
  BY DEF Raises
<1>4. /\ OneAsks(ringQueue, s) => OneAsks(ringQueue, s)'
      /\ Recorded(ringQueue, s) => Recorded(ringQueue, s)'
      /\ Raised(ringQueue, s) => Raised(ringQueue, s)'
      /\ Asked(ringQueue, s) <=> Asked(ringQueue, s)'
  BY <1>3 DEF OneAsks, Recorded, Raised, Asked, Asks
<1> QED BY <1>1, <1>2, <1>3, <1>4 DEF Told

LEMMA PanelKeeps ==
    ASSUME RingInv, NEW p \in Panels,
           (\E light \in {"white", "black"} : Ring!PanelWrites(p, light)) \/ Ring!PanelLands(p) \/ Ring!PanelRefused(p)
    PROVE  RingInv'
<1>1. ringPanel \in [Panels -> CallRecord] /\ ringPanel[p] \in CallRecord /\ ringSpoilt \in [Segments -> BOOLEAN]
  BY DEF RingInv, RingTyped
<1>2. \E r \in CallRecord :
        /\ ringPanel' = [ringPanel EXCEPT ![p] = r] /\ ringPanel[p].at # "replays" /\ r.at # "replays"
        /\ ringRing' \in [Segments -> Ring!Lights] /\ ringSpoilt' \in [Segments -> BOOLEAN] /\ ringTurns' \in 0..MaxTurns
        /\ \A s \in Segments :
             \/ ringRing'[s] = ringRing[s] /\ ringSpoilt'[s] = ringSpoilt[s] /\ ringPanel[p].at # "landed"
             \/ r.at = "landed" /\ ringRing'[s] = r.light /\ ringSpoilt'[s] = ringSpoilt[s]
             \/ ringSpoilt'[s]
        /\ UNCHANGED <<ringMode, ringLit, ringTrack, ringRgb, ringShows, ringPowering, ringQueue, ringLanded, ringGoingOff,
                       ringOvertaken, ringLosses>>
  <2>1. ASSUME NEW light \in {"white", "black"}, Ring!PanelWrites(p, light),
               NEW at \in {"writes", "landed"}, ringPanel' = [ringPanel EXCEPT ![p] = [at |-> at, light |-> light, left |-> {}]]
        PROVE  /\ [at |-> at, light |-> light, left |-> {}] \in CallRecord
               /\ ringPanel[p].at = "idle" /\ ringTurns' \in 0..MaxTurns
               /\ UNCHANGED <<ringMode, ringRing, ringLit, ringTrack, ringRgb, ringShows, ringPowering, ringQueue, ringLanded,
                              ringGoingOff, ringSpoilt, ringOvertaken, ringLosses>>
    <3>1. [at |-> at, light |-> light, left |-> {}] \in CallRecord
      BY DEF CallRecord, Ring!Lights
    <3>2. ringPanel[p].at = "idle" /\ ringTurns' = ringTurns + 1 /\ ringTurns < MaxTurns
          /\ UNCHANGED <<ringMode, ringRing, ringLit, ringTrack, ringRgb, ringShows, ringPowering, ringQueue, ringLanded,
                         ringGoingOff, ringSpoilt, ringOvertaken, ringLosses>>
      BY <2>1 DEF Ring!PanelWrites, Ring!fixture, Ring!entity, Ring!lock
    <3>3. ringTurns' \in 0..MaxTurns
      BY <3>2, RingAssumption DEF RingInv, RingTyped
    <3> QED BY <3>1, <3>2, <3>3
  <2>2. CASE \E light \in {"white", "black"} : Ring!PanelWrites(p, light)
    <3>1. PICK light \in {"white", "black"} : Ring!PanelWrites(p, light)
      BY <2>2
    <3>2. PICK at \in {"writes", "landed"} : ringPanel' = [ringPanel EXCEPT ![p] = [at |-> at, light |-> light, left |-> {}]]
      BY <3>1 DEF Ring!PanelWrites
    <3> DEFINE r == [at |-> at, light |-> light, left |-> {}]
    <3>3. /\ r \in CallRecord /\ r.at \in {"writes", "landed"} /\ ringPanel' = [ringPanel EXCEPT ![p] = r]
          /\ ringPanel[p].at = "idle" /\ ringTurns' \in 0..MaxTurns
          /\ UNCHANGED <<ringMode, ringRing, ringLit, ringTrack, ringRgb, ringShows, ringPowering, ringQueue, ringLanded,
                         ringGoingOff, ringSpoilt, ringOvertaken, ringLosses>>
      BY <2>1, <3>1, <3>2
    <3> HIDE DEF r
    <3>4. ringRing' \in [Segments -> Ring!Lights] /\ ringSpoilt' \in [Segments -> BOOLEAN]
      BY <3>3 DEF RingInv, RingTyped
    <3> QED BY <3>3, <3>4
  <2>3. CASE Ring!PanelLands(p)
    <3> DEFINE r == [at |-> "landed", light |-> ringPanel[p].light, left |-> ringPanel[p].left]
    <3>1. r \in CallRecord /\ r.at = "landed" /\ r.light = ringPanel[p].light
      BY <1>1 DEF CallRecord
    <3>2. ringPanel' = [ringPanel EXCEPT ![p] = r]
      <4>1. ringPanel' = [ringPanel EXCEPT ![p].at = "landed"]
        BY <2>3 DEF Ring!PanelLands
      <4>2. [ringPanel[p] EXCEPT !.at = "landed"] = r
        BY <1>1 DEF CallRecord
      <4> QED BY <4>1, <4>2
    <3> HIDE DEF r
    <3>3. /\ ringPanel[p].at \in {"writes", "landed"} /\ ringRing' = [s \in Segments |-> r.light]
          /\ UNCHANGED <<ringMode, ringLit, ringTrack, ringRgb, ringShows, ringPowering, ringQueue, ringLanded, ringGoingOff,
                         ringSpoilt, ringOvertaken, ringTurns, ringLosses>>
      BY <2>3, <3>1 DEF Ring!PanelLands, Ring!entity, Ring!lock, Ring!counts
    <3>4. ringRing' \in [Segments -> Ring!Lights] /\ ringSpoilt' \in [Segments -> BOOLEAN] /\ ringTurns' \in 0..MaxTurns
      BY <3>1, <3>3 DEF CallRecord, RingInv, RingTyped
    <3> QED BY <3>1, <3>2, <3>3, <3>4
  <2>4. CASE Ring!PanelRefused(p)
    <3>1. /\ ringPanel[p].at \in {"writes", "landed"} /\ ringPanel' = [ringPanel EXCEPT ![p] = Ring!NoCall]
          /\ ringSpoilt' = [s \in Segments |-> ringSpoilt[s] \/ ringPanel[p].at = "landed"]
          /\ UNCHANGED <<ringMode, ringRing, ringLit, ringTrack, ringRgb, ringShows, ringPowering, ringQueue, ringLanded,
                         ringGoingOff, ringOvertaken, ringTurns, ringLosses>>
      BY <2>4 DEF Ring!PanelRefused, Ring!fixture, Ring!entity, Ring!lock, Ring!counts
    <3>2. Ring!NoCall \in CallRecord /\ Ring!NoCall.at = "idle"
      BY DEF Ring!NoCall, CallRecord, Ring!Lights
    <3>3. ringSpoilt' \in [Segments -> BOOLEAN]
      BY <1>1, <3>1, Zenon
    <3>4. \A s \in Segments : (ringPanel[p].at # "landed" /\ ringSpoilt'[s] = ringSpoilt[s]) \/ ringSpoilt'[s]
      <4>1. CASE ringPanel[p].at = "landed"
        BY <3>1, <4>1
      <4>2. CASE ringPanel[p].at # "landed"
        <5>1. \A s \in Segments : ringSpoilt[s] \in BOOLEAN
          BY <1>1
        <5>2. \A s \in Segments : ringSpoilt'[s] = (ringSpoilt[s] \/ ringPanel[p].at = "landed")
          BY <3>1, Zenon
        <5> QED BY <4>2, <5>1, <5>2, Zenon
      <4> QED BY <4>1, <4>2
    <3>5. ringRing' \in [Segments -> Ring!Lights] /\ ringTurns' \in 0..MaxTurns
      BY <3>1 DEF RingInv, RingTyped
    <3>6. ringPanel[p].at # "replays" /\ ringRing' = ringRing
      BY <3>1
    <3> QED BY <3>1, <3>2, <3>3, <3>4, <3>5, <3>6
  <2> QED BY <2>2, <2>3, <2>4
<1>3. PICK r \in CallRecord :
        /\ ringPanel' = [ringPanel EXCEPT ![p] = r] /\ ringPanel[p].at # "replays" /\ r.at # "replays"
        /\ ringRing' \in [Segments -> Ring!Lights] /\ ringSpoilt' \in [Segments -> BOOLEAN] /\ ringTurns' \in 0..MaxTurns
        /\ \A s \in Segments :
             \/ ringRing'[s] = ringRing[s] /\ ringSpoilt'[s] = ringSpoilt[s] /\ ringPanel[p].at # "landed"
             \/ r.at = "landed" /\ ringRing'[s] = r.light /\ ringSpoilt'[s] = ringSpoilt[s]
             \/ ringSpoilt'[s]
        /\ UNCHANGED <<ringMode, ringLit, ringTrack, ringRgb, ringShows, ringPowering, ringQueue, ringLanded, ringGoingOff,
                       ringOvertaken, ringLosses>>
  BY <1>2
<1>4. /\ ringPanel' \in [Panels -> CallRecord] /\ ringPanel'[p] = r
      /\ \A o \in Panels : o # p => ringPanel'[o] = ringPanel[o]
      /\ \A o \in Panels : ringPanel'[o].at = "replays" <=> ringPanel[o].at = "replays"
      /\ \A o \in Panels : ringPanel'[o].at = "replays" => ringPanel'[o] = ringPanel[o]
  BY <1>1, <1>3
<1>5. RingTyped'
  BY <1>3, <1>4 DEF RingInv, RingTyped
<1>6. Waits(ringQueue, ringPanel)'
  BY <1>3, <1>4 DEF RingInv, Waits
<1>7. ASSUME NEW s \in Segments PROVE SegmentKept(s)'
  <2>1. SegmentKept(s)
    BY DEF RingInv
  <2>2. (Left(s)' <=> Left(s)) /\ First' = First
    BY <1>3, <1>4 DEF Left, First
  <2>3. CASE ringRing'[s] = ringRing[s] /\ ringSpoilt'[s] = ringSpoilt[s] /\ ringPanel[p].at # "landed"
    <3>1. Wiped(s) => Wiped(s)'
      BY <1>4, <2>3 DEF Wiped
    <3> QED BY <1>3, <2>1, <2>2, <2>3, <3>1 DEF SegmentKept
  <2>4. CASE r.at = "landed" /\ ringRing'[s] = r.light /\ ringSpoilt'[s] = ringSpoilt[s]
    <3>1. Wiped(s)'
      BY <1>4, <2>4 DEF Wiped
    <3> QED BY <1>3, <2>1, <2>2, <2>4, <3>1 DEF SegmentKept
  <2>5. CASE ringSpoilt'[s]
    BY <2>5 DEF SegmentKept
  <2> QED BY <1>3, <2>3, <2>4, <2>5
<1>8. ringMode = "segments" => \A s \in Segments : Told(s)'
  BY <1>3, <1>4, StaysTold
<1> QED BY <1>3, <1>5, <1>6, <1>7, <1>8 DEF RingInv

LEMMA ResentKeeps ==
    ASSUME RingInv, NEW light \in {"white", "black"}, Ring!PanelResent(light)
    PROVE  RingInv'
<1>1. /\ ringLosses < MaxLosses /\ ringLosses' = ringLosses + 1
      /\ ringRing' = [s \in Segments |-> light] /\ ringSpoilt' = [s \in Segments |-> TRUE]
      /\ UNCHANGED <<ringMode, ringLit, ringTrack, ringRgb, ringShows, ringPowering, ringPanel, ringQueue, ringLanded,
                     ringGoingOff, ringOvertaken, ringTurns>>
  BY DEF Ring!PanelResent, Ring!entity, Ring!lock
<1>2. RingTyped'
  <2>1. ringSpoilt' \in [Segments -> BOOLEAN]
    BY <1>1, Zenon
  <2>2. ringRing' \in [Segments -> Ring!Lights]
    BY <1>1 DEF Ring!Lights
  <2>3. ringLosses' \in 0..MaxLosses
    BY <1>1, RingAssumption DEF RingInv, RingTyped
  <2> QED BY <1>1, <2>1, <2>2, <2>3 DEF RingInv, RingTyped
<1>3. \A s \in Segments : SegmentKept(s)'
  BY <1>1 DEF SegmentKept
<1>4. Waits(ringQueue, ringPanel)'
  BY <1>1 DEF RingInv, Waits
<1>5. ringMode = "segments" => \A s \in Segments : Told(s)'
  BY <1>1, StaysTold
<1> QED BY <1>1, <1>2, <1>3, <1>4, <1>5 DEF RingInv

LEMMA ReassertsKeeps ==
    ASSUME RingInv, NEW p \in Panels, Ring!Reasserts(p)
    PROVE  RingInv'
<1>1. /\ ringPanel[p].at = "landed"
      /\ \/ /\ ~ringGoingOff /\ ~Ring!NeedsNone(p) /\ Ring!Replays(p, Ring!ByColour, ringQueue, ringSpoilt) /\ UNCHANGED ringLosses
         \/ /\ ringGoingOff \/ Ring!NeedsNone(p)
            /\ ringPanel' = [ringPanel EXCEPT ![p] = Ring!NoCall] /\ UNCHANGED <<ringTrack, ringQueue, ringLosses>>
            /\ ringSpoilt' = [s \in Segments |-> ringSpoilt[s] \/ ringGoingOff \/ s \notin Ring!Tracked]
         \/ /\ ringLosses < MaxLosses /\ ringLosses' = ringLosses + 1
            /\ ringPanel' = [ringPanel EXCEPT ![p] = Ring!NoCall] /\ UNCHANGED <<ringTrack, ringQueue>>
            /\ ringSpoilt' = [s \in Segments |-> TRUE]
      /\ UNCHANGED <<ringMode, ringRing, ringLit, ringRgb, ringShows, ringPowering, ringLanded, ringGoingOff, ringOvertaken, ringTurns>>
  BY DEF Ring!Reasserts, Ring!fixture, Ring!entity
<1>2. /\ RingTyped /\ ringPanel \in [Panels -> CallRecord] /\ Ring!NoCall \in CallRecord /\ Ring!NoCall.at = "idle"
      /\ Waits(ringQueue, ringPanel) /\ ringQueue \in Seq(Ring!Command) /\ (ringLanded' => ringQueue # <<>>)
  BY <1>1 DEF RingInv, RingTyped, Ring!NoCall, CallRecord, Ring!Lights
<1>3. First' = First
  BY <1>1 DEF First
<1>4. ringSpoilt \in [Segments -> BOOLEAN]
  BY DEF RingInv, RingTyped
<1>5. CASE /\ ~ringGoingOff /\ ~Ring!NeedsNone(p) /\ Ring!Replays(p, Ring!ByColour, ringQueue, ringSpoilt) /\ UNCHANGED ringLosses
  <2> DEFINE left == Ring!ByColour
  <2>1. /\ left \in SUBSET Ring!Replay
        /\ \A s \in Segments : ringTrack[s] # NoColour => \E item \in left : s \in item.segs
        /\ \A item \in left : \A s \in item.segs : item.light = ringTrack[s]
    <3>1. \A s \in Ring!Tracked : s \in Segments /\ ringTrack[s] \in Ring!Lights
      BY <1>2 DEF Ring!Tracked, RingTyped
    <3>2. \A item \in left : /\ item \in Ring!Replay
                             /\ \A s \in item.segs : item.light = ringTrack[s]
      BY <3>1 DEF Ring!ByColour, Ring!Replay
    <3>3. ASSUME NEW s \in Segments, ringTrack[s] # NoColour PROVE \E item \in left : s \in item.segs
      <4> DEFINE item == [light |-> ringTrack[s], segs |-> {t \in Ring!Tracked : ringTrack[t] = ringTrack[s]}]
      <4>1. s \in Ring!Tracked
        BY <3>3 DEF Ring!Tracked
      <4>2. item \in left /\ s \in item.segs
        BY <4>1 DEF Ring!ByColour
      <4> QED BY <4>2
    <3> QED BY <3>2, <3>3
  <2> HIDE DEF left
  <2>2. \A i \in DOMAIN ringQueue : ringQueue[i].by # p
    BY <1>1, <1>2 DEF Waits
  <2>3. ASSUME NEW s \in Segments PROVE KeptBut(p, left, ringQueue, ringSpoilt, First', s)
    <3>1. SegmentKept(s)
      BY DEF RingInv
    <3>2. Left(s) => \E r \in Panels \ {p} : ringPanel[r].at = "replays" /\ \E item \in ringPanel[r].left : s \in item.segs
      BY <1>1 DEF Left
    <3> QED BY <1>3, <2>1, <3>1, <3>2 DEF KeptBut, SegmentKept
  <2>4. ASSUME ringMode = "segments", NEW s \in Segments PROVE ToldBut(p, left, ringQueue, s)
    <3>1. Told(s)
      BY <2>4 DEF RingInv
    <3> QED BY <2>1, <3>1 DEF Told, ToldBut, LeftIsTracked
  <2>5. Ring!Replays(p, left, ringQueue, ringSpoilt)
    BY <1>5 DEF left
  <2>6. /\ ringPanel' \in [Panels -> CallRecord] /\ ringQueue' \in Seq(Ring!Command) /\ (ringLanded' => ringQueue' # <<>>)
        /\ ringTrack' \in [Segments -> Ring!Lights \cup {NoColour}] /\ ringSpoilt' \in [Segments -> BOOLEAN]
        /\ Waits(ringQueue, ringPanel)' /\ (\A s \in Segments : SegmentKept(s)')
        /\ ringMode' = "segments" => \A s \in Segments : Told(s)'
    BY <1>1, <1>2, <1>4, <2>1, <2>2, <2>3, <2>4, <2>5, ReplaysKeeps
  <2>7. RingTyped'
    BY <1>1, <1>2, <1>5, <2>6 DEF RingTyped
  <2> QED BY <2>6, <2>7 DEF RingInv
<1>6. CASE /\ ringPanel' = [ringPanel EXCEPT ![p] = Ring!NoCall] /\ UNCHANGED <<ringTrack, ringQueue>>
           /\ \/ /\ ringGoingOff \/ Ring!NeedsNone(p)
                 /\ UNCHANGED ringLosses
                 /\ ringSpoilt' = [s \in Segments |-> ringSpoilt[s] \/ ringGoingOff \/ s \notin Ring!Tracked]
              \/ /\ ringLosses < MaxLosses /\ ringLosses' = ringLosses + 1
                 /\ ringSpoilt' = [s \in Segments |-> TRUE]
  <2>1. /\ ringPanel' \in [Panels -> CallRecord] /\ ringPanel'[p].at = "idle"
        /\ \A r \in Panels : r # p => ringPanel'[r] = ringPanel[r]
    BY <1>2, <1>6
  <2>2. /\ ringSpoilt' \in [Segments -> BOOLEAN] /\ ringLosses' \in 0..MaxLosses
        /\ \A s \in Segments : ~ringSpoilt'[s] => ~ringSpoilt[s] /\ ~ringGoingOff /\ s \in Ring!Tracked /\ Ring!NeedsNone(p)
    <3>1. CASE /\ ringGoingOff \/ Ring!NeedsNone(p)
               /\ UNCHANGED ringLosses
               /\ ringSpoilt' = [s \in Segments |-> ringSpoilt[s] \/ ringGoingOff \/ s \notin Ring!Tracked]
      <4>1. ringSpoilt' \in [Segments -> BOOLEAN]
        BY <1>4, <3>1, Zenon
      <4>2. \A s \in Segments : ~ringSpoilt'[s] => ~ringSpoilt[s] /\ ~ringGoingOff /\ s \in Ring!Tracked /\ Ring!NeedsNone(p)
        BY <3>1
      <4>3. ringLosses' \in 0..MaxLosses
        BY <1>2, <3>1 DEF RingTyped
      <4> QED BY <4>1, <4>2, <4>3
    <3>2. CASE /\ ringLosses < MaxLosses /\ ringLosses' = ringLosses + 1
               /\ ringSpoilt' = [s \in Segments |-> TRUE]
      <4>1. ringSpoilt' \in [Segments -> BOOLEAN]
        BY <3>2, Zenon
      <4>2. ringLosses' \in 0..MaxLosses
        BY <1>2, <3>2, RingAssumption DEF RingTyped
      <4> QED BY <3>2, <4>1, <4>2
    <3> QED BY <1>6, <3>1, <3>2
  <2>3. RingTyped'
    BY <1>1, <1>2, <1>6, <2>1, <2>2 DEF RingTyped
  <2>4. ASSUME NEW s \in Segments PROVE SegmentKept(s)'
    <3> SUFFICES ASSUME ~ringSpoilt'[s], ringTrack[s] # NoColour
                 PROVE  /\ LastOf(ringQueue, s, ringTrack[s])
                        /\ ToCome(ringQueue, First, s) \/ Left(s)' \/ ringRing[s] = ringTrack[s] \/ Wiped(s)'
      BY <1>1, <1>3, <1>6 DEF SegmentKept
    <3>1. SegmentKept(s) /\ ~ringSpoilt[s] /\ s \in Ring!Tracked /\ Ring!NeedsNone(p)
      BY <2>2 DEF RingInv
    <3>2. Left(s) => Left(s)'
      BY <1>1, <2>1 DEF Left
    <3>3. Wiped(s) => Wiped(s)' \/ ringRing[s] = ringPanel[p].light
      BY <1>1, <2>1 DEF Wiped
    <3>4. ringPanel[p].light = "black" /\ ringTrack[s] = "black"
      BY <3>1 DEF Ring!NeedsNone
    <3> QED BY <3>1, <3>2, <3>3, <3>4 DEF SegmentKept
  <2>5. ringMode = "segments" => \A s \in Segments : Told(s)'
    BY <1>1, <1>6, <2>1, StaysTold
  <2>6. Waits(ringQueue, ringPanel)'
    BY <1>1, <1>2, <1>6, <2>1 DEF Waits
  <2> QED BY <1>1, <2>3, <2>4, <2>5, <2>6 DEF RingInv
<1> QED BY <1>1, <1>5, <1>6

----------------------------------------------------------------------------
(* The lock.                                                                *)

LEMMA RingLandsKeeps ==
    ASSUME RingInv, Ring!RingLands
    PROVE  RingInv'
<1>1. /\ ringQueue # <<>> /\ ~ringLanded /\ ringLanded' = TRUE
      /\ ringRing' = Ring!Over(ringRing, Head(ringQueue).segs, Head(ringQueue).light)
      /\ UNCHANGED <<ringMode, ringLit, ringTrack, ringRgb, ringShows, ringPowering, ringPanel, ringQueue, ringGoingOff, ringSpoilt,
                     ringOvertaken, ringTurns, ringLosses>>
  BY DEF Ring!RingLands, Ring!entity, Ring!counts
<1>2. /\ ringQueue \in Seq(Ring!Command) /\ ringRing \in [Segments -> Ring!Lights]
      /\ Head(ringQueue) \in Ring!Command
      /\ \A s : ToCome(ringQueue, 1, s) /\ s \notin Head(ringQueue).segs => ToCome(Tail(ringQueue), 1, s)
      /\ \A s, v : LastOf(ringQueue, s, v) /\ s \in Head(ringQueue).segs /\ ~ToCome(ringQueue, 2, s) => Head(ringQueue).light = v
  BY <1>1, Tailed DEF RingInv, RingTyped
<1>3. Head(ringQueue).segs \in SUBSET Segments /\ Head(ringQueue).light \in Ring!Lights
  BY <1>2 DEF Ring!Command
<1>4. RingTyped'
  <2>1. ringRing' \in [Segments -> Ring!Lights]
    BY <1>1, <1>2, <1>3, OverColours
  <2>2. ringLanded' \in BOOLEAN
    BY <1>1, Zenon
  <2> QED BY <1>1, <2>1, <2>2 DEF RingInv, RingTyped
<1>5. ASSUME NEW s \in Segments PROVE SegmentKept(s)'
  <2>1. SegmentKept(s) /\ (Left(s)' <=> Left(s))
    BY <1>1 DEF RingInv, Left
  <2>2. ringRing'[s] = IF s \in Head(ringQueue).segs THEN Head(ringQueue).light ELSE ringRing[s]
    BY <1>1, <1>2 DEF Ring!Over
  <2>3. First' = 2 /\ First = 1
    BY <1>1 DEF First
  <2>4. CASE s \in Head(ringQueue).segs
    BY <1>1, <1>2, <2>1, <2>2, <2>3, <2>4 DEF SegmentKept
  <2>5. CASE s \notin Head(ringQueue).segs
    <3>1. ToCome(ringQueue, 1, s) => ToCome(ringQueue, 2, s)
      <4>1. Head(ringQueue) = ringQueue[1] /\ DOMAIN ringQueue \subseteq Nat /\ \A i \in DOMAIN ringQueue : i >= 1
        BY <1>1, <1>2
      <4> QED BY <2>5, <4>1 DEF ToCome
    <3>2. Wiped(s)' <=> Wiped(s)
      BY <1>1, <2>2, <2>5 DEF Wiped
    <3> QED BY <1>1, <2>1, <2>2, <2>3, <2>5, <3>1, <3>2 DEF SegmentKept
  <2> QED BY <2>4, <2>5
<1>6. ringMode = "segments" => \A s \in Segments : Told(s)'
  BY <1>1, StaysTold
<1>7. Waits(ringQueue, ringPanel)'
  BY <1>1 DEF RingInv, Waits
<1> QED BY <1>1, <1>4, <1>5, <1>6, <1>7 DEF RingInv

\* The first of the queue is done: what is left of the queue keeps what the queue kept.
LEMMA HeadDone ==
    ASSUME RingInv, ringQueue # <<>>, NEW s \in Segments, NEW was \in [Segments -> BOOLEAN], ~was[s] => ~ringSpoilt[s],
           ringLanded \/ s \notin Head(ringQueue).segs \/ was[s], ringLanded' = FALSE
    PROVE  ~was[s] /\ ringTrack[s] # NoColour =>
             /\ LastOf(Tail(ringQueue), s, ringTrack[s])
             /\ ToCome(Tail(ringQueue), First', s) \/ Left(s) \/ ringRing[s] = ringTrack[s] \/ Wiped(s)
<1>1. /\ ringQueue \in Seq(Ring!Command) /\ ringLanded \in BOOLEAN
      /\ ToCome(ringQueue, 2, s) => ToCome(Tail(ringQueue), 1, s)
      /\ ToCome(ringQueue, 1, s) /\ s \notin Head(ringQueue).segs => ToCome(Tail(ringQueue), 1, s)
      /\ \A v : LastOf(ringQueue, s, v) => LastOf(Tail(ringQueue), s, v)
  BY Tailed DEF RingInv, RingTyped
<1>2. First' = 1 /\ First = IF ringLanded THEN 2 ELSE 1
  BY DEF First
<1>3. SegmentKept(s)
  BY DEF RingInv
<1> QED BY <1>1, <1>2, <1>3 DEF SegmentKept

LEMMA HeadGone ==
    ASSUME RingInv, ringQueue # <<>>, NEW s \in Segments, ringMode = "segments", ~ringOvertaken[s]
    PROVE  /\ OneAsks(Tail(ringQueue), s) /\ Recorded(Tail(ringQueue), s) /\ Raised(Tail(ringQueue), s) /\ LeftIsTracked(s)
           /\ Asks(ringQueue, 1, s) =>
                /\ ~Asked(Tail(ringQueue), s) /\ (\A f : ~Raises(f, s)) /\ ringTrack[s] = Head(ringQueue).light
                /\ Head(ringQueue).light # "black" => ringRgb[Head(ringQueue).by] = Head(ringQueue).light
           /\ ~Asks(ringQueue, 1, s) =>
                Asked(Tail(ringQueue), s) \/ (\E f : Raises(f, s)) \/ ringTrack[s] = ringShows[s]
<1>1. /\ ringQueue \in Seq(Ring!Command) /\ Head(ringQueue) = ringQueue[1] /\ 1 \in DOMAIN ringQueue
      /\ Asked(Tail(ringQueue), s) => Asked(ringQueue, s)
      /\ Asked(ringQueue, s) /\ ~Asks(ringQueue, 1, s) => Asked(Tail(ringQueue), s)
      /\ OneAsks(ringQueue, s) => OneAsks(Tail(ringQueue), s) /\ (Asks(ringQueue, 1, s) => ~Asked(Tail(ringQueue), s))
      /\ \A i \in DOMAIN Tail(ringQueue) : i + 1 \in DOMAIN ringQueue /\ Tail(ringQueue)[i] = ringQueue[i + 1]
  BY Tailed DEF RingInv, RingTyped
<1>2. /\ OneAsks(ringQueue, s) /\ Recorded(ringQueue, s) /\ Raised(ringQueue, s) /\ LeftIsTracked(s)
      /\ ~Asked(ringQueue, s) /\ (\A f : ~Raises(f, s)) => ringTrack[s] = ringShows[s]
  BY DEF RingInv, Told
<1>3. Recorded(Tail(ringQueue), s)
  BY <1>1, <1>2 DEF Recorded, Asks
<1>4. Raised(Tail(ringQueue), s)
  BY <1>1, <1>2 DEF Raised
<1>5. Asks(ringQueue, 1, s) => Asked(ringQueue, s)
  BY <1>1 DEF Asked
<1>6. Asks(ringQueue, 1, s) => /\ ringTrack[s] = Head(ringQueue).light
                               /\ Head(ringQueue).light # "black" => ringRgb[Head(ringQueue).by] = Head(ringQueue).light
  BY <1>1, <1>2 DEF Recorded
<1> QED BY <1>1, <1>2, <1>3, <1>4, <1>5, <1>6 DEF Raised

\* A replay goes on when its command is done.
LEMMA GoesOnKeeps ==
    ASSUME RingInv, ringQueue # <<>>, NEW p \in Panels, Head(ringQueue).by = p,
           NEW was \in [Segments -> BOOLEAN], \A s \in Segments : ~was[s] => ~ringSpoilt[s],
           \A s \in Segments : ringLanded \/ s \notin Head(ringQueue).segs \/ was[s],
           ringLanded' = FALSE, Ring!Replays(p, ringPanel[p].left, Tail(ringQueue), was),
           UNCHANGED <<ringMode, ringRing, ringLit, ringRgb, ringShows, ringPowering, ringGoingOff, ringOvertaken, ringTurns>>,
           ringLosses' \in 0..MaxLosses
    PROVE  RingInv'
<1> DEFINE left == ringPanel[p].left
           q == Tail(ringQueue)
<1>1. /\ RingTyped /\ ringQueue \in Seq(Ring!Command) /\ ringPanel[p] \in CallRecord /\ Waits(ringQueue, ringPanel)
  BY DEF RingInv, RingTyped
<1>2. /\ q \in Seq(Ring!Command) /\ Head(ringQueue) = ringQueue[1] /\ 1 \in DOMAIN ringQueue
      /\ Waits(q, ringPanel) /\ \A i \in DOMAIN q : q[i].by # p
  BY <1>1, Tailed
<1>3. left \in SUBSET Ring!Replay /\ ringPanel[p].at = "replays"
  BY <1>1, <1>2 DEF CallRecord, Waits
<1>4. \A s : ~Asks(ringQueue, 1, s)
  BY <1>2, SegsOf DEF Asks
<1> HIDE DEF left, q
<1>5. ASSUME NEW s \in Segments PROVE KeptBut(p, left, q, was, First', s)
  <2>1. ~was[s] /\ ringTrack[s] # NoColour =>
          /\ LastOf(q, s, ringTrack[s])
          /\ ToCome(q, First', s) \/ Left(s) \/ ringRing[s] = ringTrack[s] \/ Wiped(s)
    BY HeadDone DEF q
  <2>2. Left(s) => \/ \E item \in left : s \in item.segs
                   \/ \E r \in Panels \ {p} : ringPanel[r].at = "replays" /\ \E item \in ringPanel[r].left : s \in item.segs
    BY DEF Left, left
  <2>3. Wiped(s) => \E r \in Panels \ {p} : ringPanel[r].at = "landed" /\ ringRing[s] = ringPanel[r].light
    BY <1>3 DEF Wiped
  <2> QED BY <2>1, <2>2, <2>3 DEF KeptBut
<1>6. ASSUME ringMode = "segments", NEW s \in Segments PROVE ToldBut(p, left, q, s)
  <2>1. ~ringOvertaken[s] => /\ OneAsks(q, s) /\ Recorded(q, s) /\ Raised(q, s) /\ LeftIsTracked(s)
                             /\ Asked(q, s) \/ (\E f : Raises(f, s)) \/ ringTrack[s] = ringShows[s]
    BY <1>4, <1>6, HeadGone DEF q
  <2> QED BY <1>3, <2>1 DEF ToldBut, LeftIsTracked, left
<1>7. Ring!Replays(p, left, q, was) /\ (ringLanded' => q # <<>>)
  BY DEF left, q
<1>8. /\ ringPanel' \in [Panels -> CallRecord] /\ ringQueue' \in Seq(Ring!Command) /\ (ringLanded' => ringQueue' # <<>>)
      /\ ringTrack' \in [Segments -> Ring!Lights \cup {NoColour}] /\ ringSpoilt' \in [Segments -> BOOLEAN]
      /\ Waits(ringQueue, ringPanel)' /\ (\A s \in Segments : SegmentKept(s)')
      /\ ringMode' = "segments" => \A s \in Segments : Told(s)'
  BY <1>1, <1>2, <1>3, <1>5, <1>6, <1>7, ReplaysKeeps
<1>9. RingTyped'
  <2>1. ringLanded' \in BOOLEAN
    BY Zenon
  <2> QED BY <1>1, <1>8, <2>1 DEF RingTyped
<1> QED BY <1>8, <1>9 DEF RingInv

LEMMA EntityReturnsKeeps ==
    ASSUME RingInv, ringQueue # <<>>, ringLanded, ringLanded' = FALSE, NEW e \in Ring!Owners, NEW light \in Ring!Lights,
           Head(ringQueue).by = e, Head(ringQueue).light = light, Ring!EntityReturns(e, light),
           UNCHANGED <<ringMode, ringRing, ringLit, ringPowering, ringGoingOff, ringOvertaken, ringTurns, ringLosses>>
    PROVE  RingInv'
<1> DEFINE q == Tail(ringQueue)
<1>1. /\ RingTyped /\ ringQueue \in Seq(Ring!Command) /\ Waits(ringQueue, ringPanel) /\ ringSpoilt \in [Segments -> BOOLEAN]
  BY DEF RingInv, RingTyped
<1>2. /\ q \in Seq(Ring!Command) /\ Head(ringQueue) = ringQueue[1] /\ 1 \in DOMAIN ringQueue /\ Waits(q, ringPanel)
      /\ Head(ringQueue).segs = Ring!Of(e)
  BY <1>1, Tailed, SegsOf DEF Waits
<1>3. /\ ringQueue' = q /\ ringRgb' = Ring!Mirrored(e) /\ ringShows' = Ring!Shown(e, light) /\ ringPanel' = ringPanel
      /\ IF light = "black" /\ ringMode = "segments"
         THEN /\ ringTrack' = Ring!RecordedWhenOff(e)
              /\ ringSpoilt' = [s \in Segments |-> ringSpoilt[s] \/ (s \in Ring!Of(e) /\ ringTrack[s] # "black")]
         ELSE UNCHANGED <<ringTrack, ringSpoilt>>
  BY DEF Ring!EntityReturns
<1> HIDE DEF q
<1>4. /\ ringRgb' \in [Ring!Owners -> Ring!Lights] /\ ringShows' \in [Segments -> Ring!Lights]
      /\ \A f \in Ring!Owners : f \notin Ring!Of(e) => ringRgb'[f] = ringRgb[f]
      /\ \A s \in Segments : ringMode = "segments" =>
           ringShows'[s] = IF s \in Ring!Of(e) THEN (IF light = "black" THEN "black" ELSE ringRgb[e]) ELSE ringShows[s]
  BY <1>1, <1>3, HandsOver
<1>5. /\ ringTrack' \in [Segments -> Ring!Lights \cup {NoColour}] /\ ringSpoilt' \in [Segments -> BOOLEAN]
      /\ \A s \in Segments : ~ringSpoilt'[s] => ~ringSpoilt[s] /\ ringTrack'[s] = ringTrack[s]
      /\ \A s \in Segments : s \notin Ring!Of(e) => ringTrack'[s] = ringTrack[s]
      /\ \A s \in Segments : s \in Ring!Of(e) /\ ringTrack[s] = light => ringTrack'[s] = ringTrack[s]
  <2>1. CASE light = "black" /\ ringMode = "segments"
    <3>1. /\ ringTrack' \in [Segments -> Ring!Lights \cup {NoColour}]
          /\ \A s \in Segments : ringTrack'[s] = IF s \in Ring!Of(e) THEN "black" ELSE ringTrack[s]
      BY <1>1, <1>3, <2>1, OffRecords
    <3>2. ringSpoilt' \in [Segments -> BOOLEAN]
      BY <1>1, <1>3, <2>1, Zenon
    <3>3. \A s \in Segments : ~ringSpoilt'[s] => ~ringSpoilt[s] /\ (s \in Ring!Of(e) => ringTrack[s] = "black")
      BY <1>3, <2>1
    <3> QED BY <2>1, <3>1, <3>2, <3>3
  <2>2. CASE ~(light = "black" /\ ringMode = "segments")
    BY <1>1, <1>3, <2>2 DEF RingTyped
  <2> QED BY <2>1, <2>2
<1>6. RingTyped'
  <2>1. ringLanded' \in BOOLEAN
    BY Zenon
  <2> QED BY <1>1, <1>2, <1>3, <1>4, <1>5, <2>1 DEF RingTyped
<1>7. ASSUME NEW s \in Segments PROVE SegmentKept(s)'
  <2>1. ~ringSpoilt[s] /\ ringTrack[s] # NoColour =>
          /\ LastOf(q, s, ringTrack[s])
          /\ ToCome(q, First', s) \/ Left(s) \/ ringRing[s] = ringTrack[s] \/ Wiped(s)
    BY <1>1, HeadDone DEF q
  <2>2. (Left(s)' <=> Left(s)) /\ (Wiped(s)' <=> Wiped(s))
    BY <1>3 DEF Left, Wiped
  <2> QED BY <1>3, <1>5, <2>1, <2>2 DEF SegmentKept
<1>8. ASSUME ringMode = "segments", NEW s \in Segments, ~ringOvertaken[s]
      PROVE  /\ OneAsks(ringQueue, s)' /\ Recorded(ringQueue, s)' /\ Raised(ringQueue, s)' /\ LeftIsTracked(s)'
             /\ Asked(ringQueue, s)' \/ (\E f : Raises(f, s))' \/ ringTrack'[s] = ringShows'[s]
  <2>0. \A f : Raises(f, s)' <=> Raises(f, s)
    BY DEF Raises
  <2>1. /\ OneAsks(q, s) /\ Recorded(q, s) /\ Raised(q, s) /\ LeftIsTracked(s)
        /\ Asks(ringQueue, 1, s) =>
             /\ ~Asked(q, s) /\ (\A f : ~Raises(f, s)) /\ ringTrack[s] = light
             /\ light # "black" => ringRgb[e] = light
        /\ ~Asks(ringQueue, 1, s) => Asked(q, s) \/ (\E f : Raises(f, s)) \/ ringTrack[s] = ringShows[s]
    BY <1>8, HeadGone DEF q
  <2>2. Asks(ringQueue, 1, s) <=> s \in Ring!Of(e)
    BY <1>2 DEF Asks
  <2>3. CASE s \in Ring!Of(e)
    <3>1. ~Asked(q, s) /\ (\A f : ~Raises(f, s)) /\ ringTrack'[s] = ringTrack[s] /\ ringTrack[s] = light
      BY <1>5, <2>1, <2>2, <2>3
    <3>2. ringShows'[s] = light
      BY <1>4, <1>8, <2>1, <2>2, <2>3
    <3>3. (OneAsks(ringQueue, s) /\ Recorded(ringQueue, s))'
      BY <1>3, <3>1 DEF OneAsks, Recorded, Asked, Asks
    <3>4. Raised(ringQueue, s)' /\ LeftIsTracked(s)'
      BY <1>3, <2>0, <2>1, <3>1 DEF Raised, LeftIsTracked
    <3> QED BY <3>1, <3>2, <3>3, <3>4
  <2>4. CASE s \notin Ring!Of(e)
    <3>1. ringTrack'[s] = ringTrack[s] /\ ringShows'[s] = ringShows[s]
      BY <1>4, <1>5, <1>8, <2>4
    <3>2. \A f \in Ring!Owners : s \in Ring!Of(f) => ringRgb'[f] = ringRgb[f]
      BY <1>4, <2>4, RingAssumption DEF Ring!Of, Ring!Owners
    <3>3. Recorded(ringQueue, s)'
      <4>1. \A i \in DOMAIN q : Asks(q, i, s) => ringRgb'[q[i].by] = ringRgb[q[i].by]
        BY <1>2, <3>2, SegsOf DEF Waits, Asks
      <4> QED BY <1>3, <2>1, <3>1, <4>1 DEF Recorded, Asks
    <3>4. Raised(ringQueue, s)'
      <4>1. \A f : Raises(f, s) => ringRgb'[f] = ringRgb[f]
        BY <3>2 DEF Raises
      <4> QED BY <1>3, <2>0, <2>1, <4>1 DEF Raised, Asked, Asks
    <3>5. LeftIsTracked(s)' /\ OneAsks(ringQueue, s)'
      BY <1>3, <2>1, <3>1 DEF LeftIsTracked, OneAsks, Asks
    <3> QED BY <1>3, <2>0, <2>1, <2>2, <2>4, <3>1, <3>3, <3>4, <3>5 DEF Asked, Asks
  <2> QED BY <2>3, <2>4
<1>9. Waits(ringQueue, ringPanel)'
  BY <1>2, <1>3 DEF Waits
<1> QED BY <1>6, <1>7, <1>8, <1>9 DEF RingInv, Told

LEMMA RingReturnsKeeps ==
    ASSUME RingInv, Ring!RingReturns
    PROVE  RingInv'
<1> DEFINE c == Head(ringQueue)
<1>1. /\ ringQueue # <<>> /\ ringLanded /\ ringLanded' = FALSE
      /\ IF c.by \in Panels
         THEN Ring!Replays(c.by, ringPanel[c.by].left, Tail(ringQueue), ringSpoilt) /\ UNCHANGED <<ringRgb, ringShows>>
         ELSE Ring!EntityReturns(c.by, c.light)
      /\ UNCHANGED <<ringMode, ringRing, ringLit, ringPowering, ringGoingOff, ringOvertaken, ringTurns, ringLosses>>
  BY DEF Ring!RingReturns, Ring!fixture, Ring!counts
<1>2. c \in Ring!Command /\ ringSpoilt \in [Segments -> BOOLEAN] /\ ringLosses \in 0..MaxLosses
  BY <1>1, Tailed DEF RingInv, RingTyped
<1>3. CASE c.by \in Panels
  BY <1>1, <1>2, <1>3, GoesOnKeeps
<1>4. CASE c.by \notin Panels
  <2>1. c.by \in Ring!Owners /\ c.light \in Ring!Lights
    BY <1>2, <1>4 DEF Ring!Command
  <2> QED BY <1>1, <1>4, <2>1, EntityReturnsKeeps
<1> QED BY <1>3, <1>4

LEMMA RefusedKeeps ==
    ASSUME RingInv, Ring!RingRefused
    PROVE  RingInv'
<1> DEFINE c   == Head(ringQueue)
           q   == Tail(ringQueue)
           was == Ring!Over(ringSpoilt, c.segs, TRUE)
<1>1. /\ ringQueue # <<>> /\ ringLosses < MaxLosses /\ ringLosses' = ringLosses + 1 /\ ringLanded' = FALSE
      /\ \/ /\ c.by \in Panels /\ Ring!Replays(c.by, ringPanel[c.by].left, q, was)
            /\ UNCHANGED <<ringRgb, ringShows, ringOvertaken>>
         \/ /\ c.by \in Panels /\ ringPanel' = [ringPanel EXCEPT ![c.by] = Ring!NoCall] /\ ringQueue' = q
            /\ ringSpoilt' = [s \in Segments |-> was[s] \/ \E r \in ringPanel[c.by].left : s \in r.segs]
            /\ UNCHANGED <<ringTrack, ringRgb, ringShows, ringOvertaken>>
         \/ /\ c.by \notin Panels /\ ringQueue' = q /\ ringSpoilt' = was
            /\ ringOvertaken' = Ring!Over(ringOvertaken, c.segs, TRUE)
            /\ UNCHANGED <<ringTrack, ringPanel, ringRgb, ringShows>>
      /\ UNCHANGED <<ringMode, ringRing, ringLit, ringPowering, ringGoingOff, ringTurns>>
  BY DEF Ring!RingRefused, Ring!fixture
<1>2. /\ RingTyped /\ ringQueue \in Seq(Ring!Command) /\ Waits(ringQueue, ringPanel) /\ ringSpoilt \in [Segments -> BOOLEAN]
      /\ ringOvertaken \in [Segments -> BOOLEAN] /\ ringPanel \in [Panels -> CallRecord]
      /\ Ring!NoCall \in CallRecord /\ Ring!NoCall.at = "idle"
  BY DEF RingInv, RingTyped, Ring!NoCall, CallRecord, Ring!Lights
<1>3. /\ c \in Ring!Command /\ q \in Seq(Ring!Command) /\ c = ringQueue[1] /\ 1 \in DOMAIN ringQueue /\ Waits(q, ringPanel)
      /\ c.by \in Panels => \A i \in DOMAIN q : q[i].by # c.by
  BY <1>1, <1>2, Tailed
<1>t. TRUE \in BOOLEAN
  BY Zenon
<1>4. was \in [Segments -> BOOLEAN]
  BY <1>2, <1>t, OverFlags, Zenon
<1>5. \A s \in Segments : was[s] <=> ringSpoilt[s] \/ s \in c.segs
  BY <1>2 DEF Ring!Over
<1>6. ringLosses' \in 0..MaxLosses
  BY <1>1, <1>2, RingAssumption DEF RingTyped
<1> HIDE DEF c, q, was
<1>7. CASE /\ c.by \in Panels /\ Ring!Replays(c.by, ringPanel[c.by].left, q, was)
           /\ UNCHANGED <<ringRgb, ringShows, ringOvertaken>>
  BY <1>1, <1>4, <1>5, <1>6, <1>7, GoesOnKeeps DEF c, q
<1>8. ASSUME ringQueue' = q, ringTrack' = ringTrack, ringRgb' = ringRgb, ringShows' = ringShows,
             ringPanel' \in [Panels -> CallRecord], ringSpoilt' \in [Segments -> BOOLEAN], ringOvertaken' \in [Segments -> BOOLEAN]
      PROVE  RingTyped'
  <2>1. ringLanded' \in BOOLEAN
    BY <1>1, Zenon
  <2> QED BY <1>1, <1>2, <1>3, <1>6, <1>8, <2>1 DEF RingTyped
<1>9. ASSUME NEW s \in Segments
      PROVE  ~was[s] /\ ringTrack[s] # NoColour =>
               /\ LastOf(q, s, ringTrack[s])
               /\ ToCome(q, First', s) \/ Left(s) \/ ringRing[s] = ringTrack[s] \/ Wiped(s)
  BY <1>1, <1>4, <1>5, HeadDone DEF c, q
<1>10. CASE /\ c.by \in Panels /\ ringPanel' = [ringPanel EXCEPT ![c.by] = Ring!NoCall] /\ ringQueue' = q
            /\ ringSpoilt' = [s \in Segments |-> was[s] \/ \E r \in ringPanel[c.by].left : s \in r.segs]
            /\ UNCHANGED <<ringTrack, ringRgb, ringShows, ringOvertaken>>
  <2>1. /\ ringPanel' \in [Panels -> CallRecord] /\ ringPanel'[c.by].at = "idle" /\ ringPanel[c.by].at = "replays"
        /\ \A r \in Panels : r # c.by => ringPanel'[r] = ringPanel[r]
    BY <1>2, <1>3, <1>10 DEF Waits
  <2>2. ringSpoilt' \in [Segments -> BOOLEAN]
    BY <1>4, <1>10, Zenon
  <2>3. RingTyped'
    BY <1>2, <1>8, <1>10, <2>1, <2>2
  <2>4. ASSUME NEW s \in Segments PROVE SegmentKept(s)'
    <3> SUFFICES ASSUME ~ringSpoilt'[s], ringTrack[s] # NoColour
                 PROVE  /\ LastOf(q, s, ringTrack[s])
                        /\ ToCome(q, First', s) \/ Left(s)' \/ ringRing[s] = ringTrack[s] \/ Wiped(s)'
      BY <1>1, <1>10 DEF SegmentKept
    <3>1. ~was[s] /\ \A r \in ringPanel[c.by].left : s \notin r.segs
      BY <1>10
    <3>2. Left(s) => Left(s)'
      BY <2>1, <3>1 DEF Left
    <3>3. Wiped(s) => Wiped(s)'
      BY <1>1, <2>1 DEF Wiped
    <3> QED BY <1>9, <3>1, <3>2, <3>3
  <2>5. ASSUME ringMode = "segments", NEW s \in Segments PROVE Told(s)'
    <3> SUFFICES ASSUME ~ringOvertaken[s]
                 PROVE  /\ OneAsks(ringQueue, s)' /\ Recorded(ringQueue, s)' /\ Raised(ringQueue, s)' /\ LeftIsTracked(s)'
                        /\ Asked(ringQueue, s)' \/ (\E f : Raises(f, s))' \/ ringTrack'[s] = ringShows'[s]
      BY <1>10 DEF Told
    <3>0. \A f : Raises(f, s)' <=> Raises(f, s)
      BY <1>1 DEF Raises
    <3>1. ~Asks(ringQueue, 1, s)
      BY <1>3, <1>10, SegsOf DEF Asks
    <3>2. /\ OneAsks(q, s) /\ Recorded(q, s) /\ Raised(q, s) /\ LeftIsTracked(s)
          /\ Asked(q, s) \/ (\E f : Raises(f, s)) \/ ringTrack[s] = ringShows[s]
      BY <1>1, <2>5, <3>1, HeadGone DEF q
    <3>3. (OneAsks(ringQueue, s) /\ Recorded(ringQueue, s) /\ Raised(ringQueue, s))'
      BY <1>1, <1>10, <3>0, <3>2 DEF OneAsks, Recorded, Raised, Asked, Asks
    <3>4. LeftIsTracked(s)'
      BY <1>10, <2>1, <3>2 DEF LeftIsTracked
    <3> QED BY <1>10, <3>0, <3>2, <3>3, <3>4 DEF Asked, Asks
  <2>6. Waits(ringQueue, ringPanel)'
    BY <1>3, <1>10, <2>1 DEF Waits
  <2> QED BY <1>1, <2>3, <2>4, <2>5, <2>6 DEF RingInv
<1>11. CASE /\ c.by \notin Panels /\ ringQueue' = q /\ ringSpoilt' = was
            /\ ringOvertaken' = Ring!Over(ringOvertaken, c.segs, TRUE)
            /\ UNCHANGED <<ringTrack, ringPanel, ringRgb, ringShows>>
  <2>1. ringOvertaken' \in [Segments -> BOOLEAN]
    BY <1>2, <1>11, <1>t, OverFlags, Zenon
  <2>2. \A s \in Segments : ~ringOvertaken'[s] => ~ringOvertaken[s] /\ s \notin c.segs
    BY <1>2, <1>11 DEF Ring!Over
  <2>3. RingTyped'
    BY <1>2, <1>4, <1>8, <1>11, <2>1
  <2>4. ASSUME NEW s \in Segments PROVE SegmentKept(s)'
    <3>1. (Left(s)' <=> Left(s)) /\ (Wiped(s)' <=> Wiped(s))
      BY <1>1, <1>11 DEF Left, Wiped
    <3> QED BY <1>1, <1>9, <1>11, <3>1 DEF SegmentKept
  <2>5. ASSUME ringMode = "segments", NEW s \in Segments PROVE Told(s)'
    <3> SUFFICES ASSUME ~ringOvertaken'[s]
                 PROVE  /\ OneAsks(ringQueue, s)' /\ Recorded(ringQueue, s)' /\ Raised(ringQueue, s)' /\ LeftIsTracked(s)'
                        /\ Asked(ringQueue, s)' \/ (\E f : Raises(f, s))' \/ ringTrack'[s] = ringShows'[s]
      BY DEF Told
    <3>0. \A f : Raises(f, s)' <=> Raises(f, s)
      BY <1>1 DEF Raises
    <3>1. ~Asks(ringQueue, 1, s) /\ ~ringOvertaken[s]
      BY <1>3, <2>2 DEF Asks
    <3>2. /\ OneAsks(q, s) /\ Recorded(q, s) /\ Raised(q, s) /\ LeftIsTracked(s)
          /\ Asked(q, s) \/ (\E f : Raises(f, s)) \/ ringTrack[s] = ringShows[s]
      BY <1>1, <2>5, <3>1, HeadGone DEF q
    <3>3. (OneAsks(ringQueue, s) /\ Recorded(ringQueue, s) /\ Raised(ringQueue, s))'
      BY <1>1, <1>11, <3>0, <3>2 DEF OneAsks, Recorded, Raised, Asked, Asks
    <3>4. LeftIsTracked(s)'
      BY <1>11, <3>2 DEF LeftIsTracked
    <3> QED BY <1>11, <3>0, <3>2, <3>3, <3>4 DEF Asked, Asks
  <2>6. Waits(ringQueue, ringPanel)'
    BY <1>3, <1>11 DEF Waits
  <2> QED BY <1>1, <2>3, <2>4, <2>5, <2>6 DEF RingInv
<1> QED BY <1>1, <1>7, <1>10, <1>11 DEF c, q, was

\* The power, and a step that is not the ring's.
LEMMA RingPowerKeeps ==
    ASSUME RingInv,
           Ring!PowerOff \/ Ring!PowerOffEnds \/ Ring!PowerOn \/ UNCHANGED Ring!vars
    PROVE  RingInv'
<1>1. /\ UNCHANGED <<ringMode, ringRing, ringTrack, ringRgb, ringShows, ringPowering, ringPanel, ringQueue, ringLanded, ringSpoilt,
                     ringOvertaken, ringLosses>>
      /\ ringTurns' \in 0..MaxTurns /\ ringLit' \in BOOLEAN /\ ringGoingOff' \in BOOLEAN
  <2>1. ringLit \in BOOLEAN /\ ringGoingOff \in BOOLEAN /\ ringTurns \in 0..MaxTurns /\ TRUE \in BOOLEAN /\ FALSE \in BOOLEAN
    <3>1. TRUE \in BOOLEAN /\ FALSE \in BOOLEAN
      BY Zenon
    <3> QED BY <3>1 DEF RingInv, RingTyped
  <2>2. CASE Ring!PowerOff
    <3>1. /\ ringTurns < MaxTurns /\ ringTurns' = ringTurns + 1 /\ ringGoingOff' = TRUE
          /\ UNCHANGED <<ringMode, ringRing, ringLit, ringTrack, ringRgb, ringShows, ringPowering, ringPanel, ringQueue, ringLanded,
                         ringSpoilt, ringOvertaken, ringLosses>>
      BY <2>2 DEF Ring!PowerOff, Ring!fixture, Ring!entity, Ring!lock
    <3> QED BY <2>1, <3>1, RingAssumption
  <2>3. CASE Ring!PowerOffEnds
    BY <2>1, <2>3 DEF Ring!PowerOffEnds, Ring!entity, Ring!lock, Ring!counts
  <2>4. CASE Ring!PowerOn
    BY <2>1, <2>4 DEF Ring!PowerOn, Ring!entity, Ring!lock, Ring!counts
  <2>5. CASE UNCHANGED Ring!vars
    BY <2>1, <2>5 DEF Ring!vars, Ring!fixture, Ring!entity, Ring!lock, Ring!counts
  <2> QED BY <2>2, <2>3, <2>4, <2>5
<1>2. RingTyped'
  BY <1>1 DEF RingInv, RingTyped
<1>3. ASSUME NEW s \in Segments PROVE SegmentKept(s)'
  <2>1. SegmentKept(s) /\ (Left(s)' <=> Left(s)) /\ (Wiped(s)' <=> Wiped(s)) /\ First' = First
    BY <1>1 DEF RingInv, Left, Wiped, First
  <2> QED BY <1>1, <2>1 DEF SegmentKept
<1>4. ringMode = "segments" => \A s \in Segments : Told(s)'
  BY <1>1, StaysTold
<1>5. Waits(ringQueue, ringPanel)'
  BY <1>1 DEF RingInv, Waits
<1> QED BY <1>1, <1>2, <1>3, <1>4, <1>5 DEF RingInv

LEMMA RingGoesOn == RingInv /\ [Ring!Next]_(Ring!vars) => RingInv'
<1> SUFFICES ASSUME RingInv, [Ring!Next]_(Ring!vars) PROVE RingInv'
  OBVIOUS
<1>1. CASE \E e \in Ring!Owners : \/ Ring!TurnOff(e) \/ Ring!LeftOut(e) \/ Ring!PoweredUp(e)
                                  \/ \E light \in Ring!Lights : Ring!TurnOn(e, light)
  BY <1>1, TurnOnKeeps, TurnOffKeeps, LeftOutKeeps, PoweredUpKeeps
<1>2. CASE \E p \in Panels : \/ \E light \in {"white", "black"} : Ring!PanelWrites(p, light)
                             \/ Ring!PanelLands(p) \/ Ring!PanelRefused(p) \/ Ring!Reasserts(p)
  BY <1>2, PanelKeeps, ReassertsKeeps
<1>3. CASE \E light \in {"white", "black"} : Ring!PanelResent(light)
  BY <1>3, ResentKeeps
<1> QED BY <1>1, <1>2, <1>3, RingLandsKeeps, RingReturnsKeeps, RefusedKeeps, RingRestarts, RingPowerKeeps DEF Ring!Next

LEMMA RingIsRight == RingInv => Ring!TypeOK /\ Ring!RingIsKept
<1> SUFFICES ASSUME RingInv PROVE Ring!TypeOK /\ Ring!RingIsKept
  OBVIOUS
<1>1. \A i \in DOMAIN ringQueue : ringQueue[i] \in Ring!Command
  BY DEF RingInv, RingTyped
<1>2. Ring!TypeOK
  BY <1>1 DEF RingInv, RingTyped, Ring!TypeOK, CallRecord
<1>3. ASSUME Ring!Quiet, NEW s \in Segments, ~ringSpoilt[s], ringTrack[s] # NoColour
      PROVE  ringRing[s] = ringTrack[s]
  BY <1>3 DEF RingInv, SegmentKept, Ring!Quiet, ToCome, Left, Wiped
<1>4. ASSUME ringMode = "segments", NEW s \in Segments, ~ringOvertaken[s], ~Ring!Calling(s)
      PROVE  ringTrack[s] = ringShows[s]
  <2>1. Told(s) /\ ~Asked(ringQueue, s) /\ \A e : ~Raises(e, s)
    BY <1>4 DEF RingInv, Ring!Calling, Asked, Asks, Raises
  <2> QED BY <1>4, <2>1 DEF Told
<1> QED BY <1>2, <1>3, <1>4 DEF Ring!RingIsKept, Ring!RingIsRestored, Ring!TrackIsShown

\* For any segments, panels and bounds: once its commands are done the ring shows
\* the colours tracked for it, and what is tracked is what the entities show,
\* however calls, replays and refusals overlap (coordinator.py 1294-1370,
\* segment.py 126-197).
THEOREM RingKept == Ring!Spec => []Ring!RingIsKept
<1> QED BY RingStarts, RingGoesOn, RingIsRight, PTL DEF Ring!Spec
-----------------------------------------------------------------------------
(* The zones of a lamp (ZoneLight).                                         *)

AskRecord  == [step : {"idle", "powers", "copies", "toggles"}, on : BOOLEAN, tinted : BOOLEAN, left : 0..Copies]
LampRecord == [on : BOOLEAN, lit : SUBSET Zone!Zones, tinted : SUBSET Zone!Zones]

ZoneTyped ==
    /\ zoneKind \in {"light", "switch"} /\ zoneKept \subseteq Zone!Zones /\ zoneTint \subseteq Zone!Zones
    /\ zoneLamp \in LampRecord /\ zoneLan \in BOOLEAN /\ zoneCloud \in BOOLEAN
    /\ zcall \in [Zone!Zones -> AskRecord] /\ zoneWire \in Seq(Zone!Zones)
    /\ zoneSaved \in [lit : SUBSET Zone!Zones, tinted : SUBSET Zone!Zones]
    /\ zoneOverlapped \in BOOLEAN /\ zoneUnsure \in BOOLEAN
    /\ zcalls \in 0..MaxZoneCalls /\ zfaults \in 0..MaxZoneFaults
    /\ zpowers \in 0..MaxZonePowers /\ zboots \in 0..MaxZoneBoots

\* What is between two copies waits once, with a copy left.
WireWaits ==
    /\ \A i \in DOMAIN zoneWire : zcall[zoneWire[i]].step = "copies"
    /\ \A i, j \in DOMAIN zoneWire : zoneWire[i] = zoneWire[j] => i = j
    /\ \A k \in Zone!Zones : zcall[k].step = "copies" => zcall[k].left \in 1..Copies

OneCall ==
    ~zoneOverlapped => \A k, o \in Zone!Zones : zcall[k].step # "idle" /\ zcall[o].step # "idle" => k = o

\* The lamp has what is recorded, or what will be once the copies are out.
ZonesKept ==
    ~zoneOverlapped /\ ~zoneUnsure =>
        /\ zoneTint \subseteq zoneLamp.tinted
        /\ \A k \in Zone!Zones : zcall[k].step = "copies" =>
             /\ zoneLamp.lit = Zone!Lit(k, zcall[k].on, zoneKept)
             /\ zcall[k].tinted => k \in zoneLamp.tinted
        /\ (\A k \in Zone!Zones : zcall[k].step # "copies") => zoneKept = zoneLamp.lit

ZoneInv == ZoneTyped /\ WireWaits /\ OneCall /\ ZonesKept
-----------------------------------------------------------------------------
LEMMA ZoneNames == Zone!Zones = {"downlight", "ripple", "ring"}
  BY DEF Zone!Zones, Zone!Order

LEMMA FewZones == IsFiniteSet(Zone!Zones)
<1>1. IsFiniteSet({}) /\ IsFiniteSet({} \cup {"downlight"})
  BY FS_EmptySet, FS_AddElement
<1>2. IsFiniteSet(({} \cup {"downlight"}) \cup {"ripple"})
  BY <1>1, FS_AddElement
<1>3. IsFiniteSet((({} \cup {"downlight"}) \cup {"ripple"}) \cup {"ring"})
  BY <1>2, FS_AddElement
<1>4. Zone!Zones = ((({} \cup {"downlight"}) \cup {"ripple"}) \cup {"ring"})
  BY ZoneNames
<1> QED BY <1>3, <1>4

\* The library's count, by its name in the module of the zones.
LEMMA SameCount == \A S : Zone!Cardinality(S) = Cardinality(S)
  BY DEF Zone!Cardinality, Cardinality

\* A copy of what the lamp took changes none of its zones.
LEMMA LitAgain ==
    ASSUME NEW z \in Zone!Zones, NEW on \in BOOLEAN, NEW lit \in SUBSET Zone!Zones
    PROVE  /\ Zone!Lit(z, on, lit) \in SUBSET Zone!Zones
           /\ Zone!Lit(z, on, Zone!Lit(z, on, lit)) = Zone!Lit(z, on, lit)
<1> DEFINE rivals(l, w) == {z} \cup {v \in l : Zone!Rank(v) >= Zone!Rank(w)}
           weak(l) == {w \in l \ {z} : Cardinality(rivals(l, w)) > Zone!Limit}
           left == (lit \cup {z}) \ weak(lit)
<1>1. ASSUME NEW l PROVE Zone!Lit(z, TRUE, l) = (l \cup {z}) \ weak(l) /\ Zone!Lit(z, FALSE, l) = l \ {z}
  <2>1. Zone!Lit(z, FALSE, l) = l \ {z}
    BY DEF Zone!Lit
  <2>2. Zone!Lit(z, TRUE, l) = (l \cup {z}) \ weak(l)
    BY SameCount DEF Zone!Lit
  <2> QED BY <2>1, <2>2
<1>2. left \in SUBSET Zone!Zones /\ z \in left
  OBVIOUS
<1>3. ASSUME NEW w \in weak(left) PROVE FALSE
  <2>1. w \in lit /\ w # z /\ w \notin weak(lit)
    OBVIOUS
  <2>2. rivals(lit, w) \in SUBSET Zone!Zones /\ rivals(left, w) \in SUBSET rivals(lit, w)
    OBVIOUS
  <2>3. IsFiniteSet(rivals(lit, w))
    <3> HIDE DEF rivals
    <3> QED BY <2>2, FewZones, FS_Subset
  <2>4. IsFiniteSet(rivals(left, w)) /\ Cardinality(rivals(left, w)) <= Cardinality(rivals(lit, w))
    <3> HIDE DEF rivals, left
    <3> QED BY <2>2, <2>3, FS_Subset
  <2>5. Cardinality(rivals(left, w)) \in Nat /\ Cardinality(rivals(lit, w)) \in Nat
    <3> HIDE DEF rivals, left
    <3> QED BY <2>3, <2>4, FS_CardinalityType
  <2>6. Cardinality(rivals(left, w)) > Zone!Limit /\ ~(Cardinality(rivals(lit, w)) > Zone!Limit)
    BY <2>1
  <2> QED
    <3> HIDE DEF rivals, left, weak
    <3> QED BY <2>4, <2>5, <2>6 DEF Zone!Limit
<1>4. (left \cup {z}) \ weak(left) = left
  <2> HIDE DEF weak, left
  <2> QED BY <1>2, <1>3
<1>5. CASE on = TRUE
  <2>1. Zone!Lit(z, on, lit) = left /\ Zone!Lit(z, on, left) = (left \cup {z}) \ weak(left)
    <3> HIDE DEF rivals, weak
    <3> QED BY <1>1, <1>5
  <2> HIDE DEF weak, left
  <2> QED BY <1>2, <1>4, <2>1
<1>6. CASE on = FALSE
  <2>1. \A l : Zone!Lit(z, on, l) = l \ {z}
    BY <1>1, <1>6
  <2> QED BY <2>1
<1> QED BY <1>5, <1>6

\* What is recorded is what the lamp keeps of what was recorded.
LEMMA AppliedIsLit ==
    ASSUME NEW z, NEW on \in BOOLEAN
    PROVE  Zone!Applied(z, on) = Zone!Lit(z, on, zoneKept)
<1>1. CASE on = TRUE
  BY <1>1 DEF Zone!Applied, Zone!Lit, Zone!Displaced
<1>2. CASE on = FALSE
  BY <1>2 DEF Zone!Applied, Zone!Lit
<1> QED BY <1>1, <1>2

\* What the lamp takes of a write.
LEMMA LampTakes ==
    ASSUME NEW z \in Zone!Zones, NEW ask, ask.on \in BOOLEAN, ask.tinted \in BOOLEAN, NEW l \in LampRecord
    PROVE  /\ Zone!Took(z, ask, l) \in LampRecord
           /\ l.on => /\ Zone!Took(z, ask, l).lit = Zone!Lit(z, ask.on, l.lit)
                      /\ ask.tinted => z \in Zone!Took(z, ask, l).tinted
           /\ l.tinted \subseteq Zone!Took(z, ask, l).tinted
<1>1. CASE l.on
  <2> DEFINE lits == Zone!Lit(z, ask.on, l.lit)  tinted == IF ask.tinted THEN l.tinted \cup {z} ELSE l.tinted
             m == [l EXCEPT !.lit = lits, !.tinted = tinted]
  <2>1. Zone!Took(z, ask, l) = m
    BY <1>1 DEF Zone!Took
  <2>2. lits \in SUBSET Zone!Zones
    <3>1. l.lit \in SUBSET Zone!Zones
      BY DEF LampRecord
    <3> QED BY <3>1, LitAgain
  <2>3. tinted \in SUBSET Zone!Zones /\ l.tinted \subseteq tinted /\ (ask.tinted => z \in tinted)
    BY DEF LampRecord
  <2>4. m \in LampRecord /\ m.lit = lits /\ m.tinted = tinted
    <3> HIDE DEF lits, tinted
    <3> QED BY <2>2, <2>3 DEF LampRecord
  <2> HIDE DEF m, tinted
  <2> QED BY <2>1, <2>3, <2>4
<1>2. CASE ~l.on
  BY <1>2 DEF Zone!Took
<1> QED BY <1>1, <1>2
-----------------------------------------------------------------------------
LEMMA ZonesStart == Zone!Init => ZoneInv
<1> SUFFICES ASSUME Zone!Init PROVE ZoneInv
  OBVIOUS
<1>1. Zone!Idle \in AskRecord /\ Zone!Idle.step = "idle"
  BY CopiesAssumption DEF Zone!Idle, AskRecord
<1>2. zcall \in [Zone!Zones -> AskRecord] /\ \A z \in Zone!Zones : zcall[z].step = "idle"
  BY <1>1 DEF Zone!Init
<1>3. ZoneTyped
  <2>1. zoneLamp \in LampRecord
    BY DEF Zone!Init, LampRecord
  <2>2. zoneSaved \in [lit : SUBSET Zone!Zones, tinted : SUBSET Zone!Zones] /\ zoneWire \in Seq(Zone!Zones)
    BY DEF Zone!Init
  <2>3. zcalls \in 0..MaxZoneCalls /\ zfaults \in 0..MaxZoneFaults /\ zpowers \in 0..MaxZonePowers /\ zboots \in 0..MaxZoneBoots
    BY CopiesAssumption DEF Zone!Init
  <2> QED BY <1>2, <2>1, <2>2, <2>3 DEF Zone!Init, ZoneTyped
<1>4. WireWaits
  BY <1>2 DEF Zone!Init, WireWaits
<1>5. OneCall
  BY <1>2 DEF OneCall
<1>6. ZonesKept
  <2>1. zoneKept = {} /\ zoneTint = {} /\ zoneLamp.lit = {} /\ zoneLamp.tinted = {}
    BY DEF Zone!Init
  <2> QED BY <1>2, <2>1 DEF ZonesKept
<1> QED BY <1>3, <1>4, <1>5, <1>6 DEF ZoneInv

\* A call that was idle or powered the lamp goes on, alone or not.
LEMMA CallGoesOn ==
    ASSUME ZoneInv, NEW z \in Zone!Zones, NEW ask, ask.on \in BOOLEAN, ask.tinted \in BOOLEAN,
           NEW l \in LampRecord, l.lit = zoneLamp.lit, l.tinted = zoneLamp.tinted, NEW reached \in BOOLEAN,
           zcall[z].step \in {"idle", "powers"}, Zone!Called(z, ask, l, reached),
           UNCHANGED <<zoneKept, zoneTint>>,
           zoneOverlapped' \in BOOLEAN,
           ~zoneOverlapped' => ~zoneOverlapped /\ \A w \in Zone!Zones \ {z} : zcall[w].step = "idle"
    PROVE  /\ zoneLamp' \in LampRecord /\ zcall' \in [Zone!Zones -> AskRecord] /\ zoneWire' \in Seq(Zone!Zones)
           /\ zoneUnsure' \in BOOLEAN /\ zfaults' \in 0..MaxZoneFaults
           /\ WireWaits' /\ OneCall' /\ ZonesKept'
<1> USE DEF ZoneInv
<1>1. CASE /\ reached /\ Copies > 1
           /\ zoneLamp' = Zone!Took(z, ask, l) /\ zoneUnsure' = (zoneUnsure \/ ~l.on)
           /\ zcall' = [zcall EXCEPT ![z] = [step |-> "copies", on |-> ask.on, tinted |-> ask.tinted, left |-> Copies - 1]]
           /\ zoneWire' = Append(zoneWire, z) /\ UNCHANGED zfaults
  <2> DEFINE c == [step |-> "copies", on |-> ask.on, tinted |-> ask.tinted, left |-> Copies - 1]
  <2>1. c \in AskRecord /\ c.step = "copies" /\ c.on = ask.on /\ c.tinted = ask.tinted /\ c.left \in 1..Copies
    BY <1>1, CopiesAssumption DEF AskRecord
  <2> HIDE DEF c
  <2>2. zcall \in [Zone!Zones -> AskRecord] /\ zcall' = [zcall EXCEPT ![z] = c]
    BY <1>1 DEF ZoneTyped, c
  <2>3. zcall' \in [Zone!Zones -> AskRecord] /\ zcall'[z] = c /\ \A w \in Zone!Zones \ {z} : zcall'[w] = zcall[w]
    BY <2>1, <2>2
  <2>4. zoneWire \in Seq(Zone!Zones) /\ zoneWire' \in Seq(Zone!Zones) /\ Len(zoneWire) \in Nat
    BY <1>1 DEF ZoneTyped
  <2>5. \A i \in DOMAIN zoneWire : zoneWire[i] \in Zone!Zones /\ zoneWire[i] # z
    BY <2>4 DEF WireWaits
  <2>6. /\ DOMAIN zoneWire' = 1..(Len(zoneWire) + 1) /\ DOMAIN zoneWire = 1..Len(zoneWire)
        /\ \A i \in DOMAIN zoneWire : zoneWire'[i] = zoneWire[i]
        /\ zoneWire'[Len(zoneWire) + 1] = z
    BY <1>1, <2>4
  <2>7. WireWaits'
    <3>1. \A i \in DOMAIN zoneWire' : zcall'[zoneWire'[i]].step = "copies"
      BY <2>1, <2>3, <2>4, <2>5, <2>6 DEF WireWaits
    <3>2. \A i, j \in DOMAIN zoneWire' : zoneWire'[i] = zoneWire'[j] => i = j
      BY <2>4, <2>5, <2>6 DEF WireWaits
    <3>3. \A k \in Zone!Zones : zcall'[k].step = "copies" => zcall'[k].left \in 1..Copies
      BY <2>1, <2>3 DEF WireWaits
    <3> QED BY <3>1, <3>2, <3>3 DEF WireWaits
  <2>8. OneCall'
    BY <2>3 DEF OneCall
  <2>9. /\ zoneLamp' \in LampRecord /\ l.tinted \subseteq zoneLamp'.tinted
        /\ l.on => zoneLamp'.lit = Zone!Lit(z, ask.on, l.lit) /\ (ask.tinted => z \in zoneLamp'.tinted)
    BY <1>1, LampTakes
  <2>10. ZonesKept'
    <3> SUFFICES ASSUME ~zoneOverlapped', ~zoneUnsure'
                 PROVE  /\ zoneTint' \subseteq zoneLamp'.tinted
                        /\ \A k \in Zone!Zones : zcall'[k].step = "copies" =>
                             /\ zoneLamp'.lit = Zone!Lit(k, zcall'[k].on, zoneKept')
                             /\ zcall'[k].tinted => k \in zoneLamp'.tinted
                        /\ (\A k \in Zone!Zones : zcall'[k].step # "copies") => zoneKept' = zoneLamp'.lit
      BY DEF ZonesKept
    <3>1. ~zoneOverlapped /\ ~zoneUnsure /\ l.on
      BY ONLY <1>1, ~zoneOverlapped', ~zoneUnsure', ~zoneOverlapped' => ~zoneOverlapped /\ \A w \in Zone!Zones \ {z} : zcall[w].step = "idle", Zenon
    <3>2. \A w \in Zone!Zones \ {z} : zcall[w].step = "idle"
      OBVIOUS
    <3>3. \A k \in Zone!Zones : zcall[k].step # "copies"
      BY <3>2
    <3>4. zoneKept = zoneLamp.lit /\ zoneTint \subseteq zoneLamp.tinted
      BY <3>1, <3>3 DEF ZonesKept
    <3> QED BY <2>1, <2>3, <2>9, <3>1, <3>2, <3>4
  <2>11. zoneUnsure' \in BOOLEAN
    BY ONLY <1>1, Zenon
  <2> QED BY <1>1, <2>3, <2>4, <2>7, <2>8, <2>9, <2>10, <2>11 DEF ZoneTyped
<1>2. CASE /\ IF reached THEN zfaults < MaxZoneFaults /\ zfaults' = zfaults + 1 ELSE UNCHANGED zfaults
           /\ zoneLamp' = l
           /\ zcall' = [zcall EXCEPT ![z] = [step |-> "toggles", on |-> ask.on, tinted |-> FALSE, left |-> 0]]
           /\ UNCHANGED <<zoneWire, zoneUnsure>>
  <2> DEFINE c == [step |-> "toggles", on |-> ask.on, tinted |-> FALSE, left |-> 0]
  <2>1. c \in AskRecord /\ c.step = "toggles"
    BY CopiesAssumption DEF AskRecord
  <2> HIDE DEF c
  <2>2. zcall \in [Zone!Zones -> AskRecord] /\ zcall' = [zcall EXCEPT ![z] = c]
    BY <1>2 DEF ZoneTyped, c
  <2>3. zcall' \in [Zone!Zones -> AskRecord] /\ zcall'[z] = c /\ \A w \in Zone!Zones \ {z} : zcall'[w] = zcall[w]
    BY <2>1, <2>2
  <2>4. WireWaits'
    <3>1. zoneWire \in Seq(Zone!Zones) /\ zoneWire' = zoneWire
      BY <1>2 DEF ZoneTyped
    <3>2. \A i \in DOMAIN zoneWire : zoneWire[i] \in Zone!Zones
      BY <3>1
    <3> QED BY <2>1, <2>3, <3>1, <3>2 DEF WireWaits
  <2>5. OneCall'
    BY <2>3 DEF OneCall
  <2>6. ZonesKept'
    BY <1>2, <2>1, <2>3 DEF ZonesKept
  <2>7. zfaults' \in 0..MaxZoneFaults
    BY <1>2, CopiesAssumption DEF ZoneTyped
  <2>8. zoneUnsure' \in BOOLEAN /\ zoneWire' \in Seq(Zone!Zones)
    BY <1>2 DEF ZoneTyped
  <2> QED BY <1>2, <2>3, <2>4, <2>5, <2>6, <2>7, <2>8
<1> QED BY <1>1, <1>2 DEF Zone!Called

LEMMA AskKeeps ==
    ASSUME ZoneInv, NEW z \in Zone!Zones, NEW ask \in Zone!Ask, Zone!Asked(z, ask)
    PROVE  ZoneInv'
<1> USE DEF ZoneInv
<1>1. /\ zcall[z].step = "idle" /\ zcalls < MaxZoneCalls /\ zcalls' = zcalls + 1
      /\ zoneOverlapped' = (zoneOverlapped \/ \E w \in Zone!Zones : zcall[w].step # "idle")
      /\ UNCHANGED <<zoneKind, zoneKept, zoneTint, zoneLan, zoneCloud, zoneSaved, zpowers, zboots>>
  BY DEF Zone!Asked
<1>2. ask.on \in BOOLEAN /\ ask.tinted \in BOOLEAN
  BY DEF Zone!Ask
<1>3. zcalls' \in 0..MaxZoneCalls
  BY <1>1, CopiesAssumption DEF ZoneTyped
<1>4. zoneOverlapped' \in BOOLEAN
  BY ONLY <1>1, Zenon
<1>5. ~zoneOverlapped' => ~zoneOverlapped /\ \A w \in Zone!Zones : zcall[w].step = "idle"
  BY <1>1
<1>6. CASE /\ zcall' = [zcall EXCEPT ![z] = [step |-> "powers", on |-> TRUE, tinted |-> ask.tinted, left |-> 0]]
           /\ UNCHANGED <<zoneLamp, zoneWire, zoneUnsure, zfaults>>
  <2> DEFINE c == [step |-> "powers", on |-> TRUE, tinted |-> ask.tinted, left |-> 0]
  <2>1. c \in AskRecord /\ c.step = "powers"
    BY <1>2, CopiesAssumption DEF AskRecord
  <2> HIDE DEF c
  <2>2. zcall \in [Zone!Zones -> AskRecord] /\ zcall' = [zcall EXCEPT ![z] = c]
    BY <1>6 DEF ZoneTyped, c
  <2>3. zcall' \in [Zone!Zones -> AskRecord] /\ zcall'[z] = c /\ \A w \in Zone!Zones \ {z} : zcall'[w] = zcall[w]
    BY <2>1, <2>2
  <2>4. WireWaits'
    <3>1. zoneWire \in Seq(Zone!Zones) /\ zoneWire' = zoneWire
      BY <1>6 DEF ZoneTyped
    <3>2. \A i \in DOMAIN zoneWire : zoneWire[i] \in Zone!Zones
      BY <3>1
    <3> QED BY <1>1, <2>1, <2>3, <3>1, <3>2 DEF WireWaits
  <2>5. OneCall'
    BY <1>5, <2>3 DEF OneCall
  <2>6. ZonesKept'
    BY <1>1, <1>5, <1>6, <2>1, <2>3 DEF ZonesKept
  <2>7. ZoneTyped'
    BY <1>1, <1>3, <1>4, <1>6, <2>3 DEF ZoneTyped
  <2> QED BY <2>4, <2>5, <2>6, <2>7
<1>7. CASE Zone!Called(z, ask, zoneLamp, zoneLan)
  <2>1. zoneLamp \in LampRecord /\ zoneLan \in BOOLEAN
    BY DEF ZoneTyped
  <2>2. /\ zoneLamp' \in LampRecord /\ zcall' \in [Zone!Zones -> AskRecord] /\ zoneWire' \in Seq(Zone!Zones)
        /\ zoneUnsure' \in BOOLEAN /\ zfaults' \in 0..MaxZoneFaults
        /\ WireWaits' /\ OneCall' /\ ZonesKept'
    BY <1>1, <1>2, <1>4, <1>5, <1>7, <2>1, CallGoesOn
  <2>3. ZoneTyped'
    BY <1>1, <1>3, <1>4, <2>2 DEF ZoneTyped
  <2> QED BY <2>2, <2>3
<1> QED BY <1>6, <1>7 DEF Zone!Asked

LEMMA PowerEnds ==
    ASSUME ZoneInv, NEW z \in Zone!Zones, NEW ok \in BOOLEAN, Zone!Powered(z, ok)
    PROVE  ZoneInv'
<1> USE DEF ZoneInv
<1> DEFINE l == [zoneLamp EXCEPT !.on = @ \/ ok]
<1>1. /\ zcall[z].step = "powers" /\ Zone!Called(z, zcall[z], l, zoneLan)
      /\ UNCHANGED <<zoneKind, zoneKept, zoneTint, zoneLan, zoneCloud, zoneSaved, zoneOverlapped, zcalls, zpowers, zboots>>
  BY DEF Zone!Powered
<1>2. zcall[z] \in AskRecord /\ zoneLamp \in LampRecord /\ zoneLan \in BOOLEAN /\ zoneOverlapped \in BOOLEAN
  BY DEF ZoneTyped
<1>3. zcall[z].on \in BOOLEAN /\ zcall[z].tinted \in BOOLEAN
  BY <1>2 DEF AskRecord
<1>4. l \in LampRecord /\ l.lit = zoneLamp.lit /\ l.tinted = zoneLamp.tinted
  <2>1. (zoneLamp.on \/ ok) \in BOOLEAN
    BY Zenon
  <2> QED BY <1>2, <2>1 DEF LampRecord
<1>5. ~zoneOverlapped' => ~zoneOverlapped /\ \A w \in Zone!Zones \ {z} : zcall[w].step = "idle"
  BY <1>1 DEF OneCall
<1>6. zoneOverlapped' \in BOOLEAN
  BY <1>1, <1>2
<1> HIDE DEF l
<1>7. /\ zoneLamp' \in LampRecord /\ zcall' \in [Zone!Zones -> AskRecord] /\ zoneWire' \in Seq(Zone!Zones)
      /\ zoneUnsure' \in BOOLEAN /\ zfaults' \in 0..MaxZoneFaults
      /\ WireWaits' /\ OneCall' /\ ZonesKept'
  BY <1>1, <1>2, <1>3, <1>4, <1>5, <1>6, CallGoesOn
<1>8. ZoneTyped'
  BY <1>1, <1>7 DEF ZoneTyped
<1> QED BY <1>7, <1>8

LEMMA ZoneCopyKeeps ==
    ASSUME ZoneInv, Zone!Copy
    PROVE  ZoneInv'
<1> USE DEF ZoneInv
<1> DEFINE z == Head(zoneWire)  c == zcall[z]  less == [c EXCEPT !.left = c.left - 1]
<1>1. zoneWire # <<>> /\ zoneWire \in Seq(Zone!Zones) /\ zcall \in [Zone!Zones -> AskRecord]
  BY DEF Zone!Copy, ZoneTyped
<1>2. z \in Zone!Zones /\ z = zoneWire[1] /\ 1 \in DOMAIN zoneWire
  BY <1>1
<1>3. c \in AskRecord /\ c.step = "copies" /\ c.left \in 1..Copies
  BY <1>1, <1>2 DEF WireWaits
<1>4. c.on \in BOOLEAN /\ c.tinted \in BOOLEAN /\ zoneLamp \in LampRecord
  BY <1>3 DEF AskRecord, ZoneTyped
<1>5. /\ zoneLamp' = Zone!Took(z, c, zoneLamp) /\ zoneUnsure' = (zoneUnsure \/ ~zoneLamp.on)
      /\ zoneWire' = IF c.left = 1 THEN Tail(zoneWire) ELSE Append(Tail(zoneWire), z)
      /\ zcall' = [zcall EXCEPT ![z] = IF c.left = 1 THEN Zone!Idle ELSE less]
      /\ zoneKept' = IF c.left = 1 THEN Zone!Applied(z, c.on) ELSE zoneKept
      /\ zoneTint' = IF c.left = 1 /\ c.tinted THEN zoneTint \cup {z} ELSE zoneTint
      /\ UNCHANGED <<zoneKind, zoneLan, zoneCloud, zoneSaved, zoneOverlapped, zcalls, zfaults, zpowers, zboots>>
  BY DEF Zone!Copy, Zone!zcounts
<1>6. /\ zoneLamp' \in LampRecord /\ zoneLamp.tinted \subseteq zoneLamp'.tinted
      /\ zoneLamp.on => zoneLamp'.lit = Zone!Lit(z, c.on, zoneLamp.lit) /\ (c.tinted => z \in zoneLamp'.tinted)
  <2> HIDE DEF c, z
  <2> QED BY <1>2, <1>4, <1>5, LampTakes
<1>7. zoneUnsure' \in BOOLEAN
  BY ONLY <1>5, Zenon
<1>8. zoneKept \in SUBSET Zone!Zones /\ zoneTint \in SUBSET Zone!Zones
  BY DEF ZoneTyped
<1>9. Zone!Applied(z, c.on) = Zone!Lit(z, c.on, zoneKept) /\ Zone!Lit(z, c.on, zoneKept) \in SUBSET Zone!Zones
  <2> HIDE DEF c, z
  <2> QED BY <1>2, <1>4, <1>8, LitAgain, AppliedIsLit
<1>10. less \in AskRecord /\ less.step = c.step /\ less.on = c.on /\ less.tinted = c.tinted /\ less.left = c.left - 1
  <2> HIDE DEF c, z
  <2> QED BY <1>3, CopiesAssumption DEF AskRecord
<1>11. Zone!Idle \in AskRecord /\ Zone!Idle.step = "idle"
  BY CopiesAssumption DEF Zone!Idle, AskRecord
<1>12. \A i \in 2..Len(zoneWire) : zoneWire[i] \in Zone!Zones /\ zoneWire[i] # z /\ zcall[zoneWire[i]].step = "copies"
  BY <1>1, <1>2 DEF WireWaits
<1>13. /\ Len(Tail(zoneWire)) = Len(zoneWire) - 1 /\ Len(zoneWire) \in Nat \ {0} /\ Tail(zoneWire) \in Seq(Zone!Zones)
       /\ \A i \in 1..(Len(zoneWire) - 1) : Tail(zoneWire)[i] = zoneWire[i + 1]
  BY <1>1
\* Before the lamp went dark or another call was open, the lamp had this call's zones.
<1>14. ~zoneOverlapped' /\ ~zoneUnsure' =>
         /\ zoneLamp.on /\ ~zoneOverlapped /\ ~zoneUnsure /\ zoneTint \subseteq zoneLamp'.tinted
         /\ \A w \in Zone!Zones \ {z} : zcall[w].step = "idle"
         /\ zoneLamp'.lit = Zone!Lit(z, c.on, zoneKept)
         /\ c.tinted => z \in zoneLamp'.tinted
  <2> SUFFICES ASSUME ~zoneOverlapped', ~zoneUnsure'
               PROVE  /\ zoneLamp.on /\ ~zoneOverlapped /\ ~zoneUnsure /\ zoneTint \subseteq zoneLamp'.tinted
                      /\ \A w \in Zone!Zones \ {z} : zcall[w].step = "idle"
                      /\ zoneLamp'.lit = Zone!Lit(z, c.on, zoneKept)
                      /\ c.tinted => z \in zoneLamp'.tinted
    OBVIOUS
  <2> HIDE DEF c, z, less
  <2>1. ~zoneUnsure /\ zoneLamp.on
    BY ONLY <1>5, ~zoneUnsure', Zenon
  <2>2. ~zoneOverlapped
    BY <1>5
  <2>3. \A w \in Zone!Zones \ {z} : zcall[w].step = "idle"
    BY <1>2, <1>3, <2>2 DEF OneCall, c
  <2>4. zoneLamp.lit = Zone!Lit(z, c.on, zoneKept) /\ zoneTint \subseteq zoneLamp.tinted
    BY <1>2, <1>3, <2>1, <2>2 DEF ZonesKept, c
  <2>5. zoneLamp'.lit = Zone!Lit(z, c.on, zoneKept)
    BY <1>2, <1>4, <1>6, <1>8, <2>1, <2>4, LitAgain
  <2> QED BY <1>6, <2>1, <2>2, <2>3, <2>4, <2>5
<1>15. CASE c.left = 1
  <2>1. /\ zoneWire' = Tail(zoneWire) /\ zcall' = [zcall EXCEPT ![z] = Zone!Idle]
        /\ zoneKept' = Zone!Applied(z, c.on) /\ zoneTint' = IF c.tinted THEN zoneTint \cup {z} ELSE zoneTint
    BY <1>5, <1>15
  <2> HIDE DEF c, z, less
  <2>2. zcall' \in [Zone!Zones -> AskRecord] /\ zcall'[z].step = "idle" /\ \A w \in Zone!Zones \ {z} : zcall'[w] = zcall[w]
    BY <1>1, <1>2, <1>11, <2>1
  <2>3. WireWaits'
    <3>1. DOMAIN zoneWire' = 1..(Len(zoneWire) - 1) /\ \A i \in DOMAIN zoneWire' : zoneWire'[i] = zoneWire[i + 1]
      BY <1>13, <2>1
    <3>2. \A i \in DOMAIN zoneWire' : i + 1 \in 2..Len(zoneWire) /\ i + 1 \in DOMAIN zoneWire
      BY <1>1, <1>13, <3>1
    <3>3. \A i \in DOMAIN zoneWire' : zcall'[zoneWire'[i]].step = "copies"
      BY <1>12, <2>2, <3>1, <3>2
    <3>4. \A i, j \in DOMAIN zoneWire' : zoneWire'[i] = zoneWire'[j] => i = j
      <4> SUFFICES ASSUME NEW i \in DOMAIN zoneWire', NEW j \in DOMAIN zoneWire', zoneWire'[i] = zoneWire'[j] PROVE i = j
        OBVIOUS
      <4>1. i + 1 = j + 1
        BY <3>1, <3>2 DEF WireWaits
      <4> QED BY <1>13, <3>1, <4>1
    <3>5. \A k \in Zone!Zones : zcall'[k].step = "copies" => zcall'[k].left \in 1..Copies
      BY <1>2, <2>2 DEF WireWaits
    <3> QED BY <3>3, <3>4, <3>5 DEF WireWaits
  <2>4. OneCall'
    BY <1>2, <1>5, <2>2 DEF OneCall
  <2>5. ZonesKept'
    <3> SUFFICES ASSUME ~zoneOverlapped', ~zoneUnsure'
                 PROVE  /\ zoneTint' \subseteq zoneLamp'.tinted
                        /\ \A k \in Zone!Zones : zcall'[k].step = "copies" =>
                             /\ zoneLamp'.lit = Zone!Lit(k, zcall'[k].on, zoneKept')
                             /\ zcall'[k].tinted => k \in zoneLamp'.tinted
                        /\ (\A k \in Zone!Zones : zcall'[k].step # "copies") => zoneKept' = zoneLamp'.lit
      BY DEF ZonesKept
    <3>1. \A k \in Zone!Zones : zcall'[k].step = "idle"
      BY <1>2, <1>14, <2>2
    <3> QED BY <1>9, <1>14, <2>1, <3>1
  <2>6. zoneKept' \subseteq Zone!Zones /\ zoneTint' \subseteq Zone!Zones /\ zoneWire' \in Seq(Zone!Zones)
    BY <1>2, <1>8, <1>9, <1>13, <2>1
  <2>7. ZoneTyped'
    BY <1>5, <1>6, <1>7, <2>2, <2>6 DEF ZoneTyped
  <2> QED BY <2>3, <2>4, <2>5, <2>7
<1>16. CASE c.left # 1
  <2>1. /\ zoneWire' = Append(Tail(zoneWire), z) /\ zcall' = [zcall EXCEPT ![z] = less]
        /\ zoneKept' = zoneKept /\ zoneTint' = zoneTint
    BY <1>5, <1>16
  <2>2. less.left \in 1..Copies
    <3> HIDE DEF c, z, less
    <3> QED BY <1>3, <1>10, <1>16, CopiesAssumption
  <2>3. zcall' \in [Zone!Zones -> AskRecord] /\ zcall'[z] = less /\ \A w \in Zone!Zones \ {z} : zcall'[w] = zcall[w]
    <3> HIDE DEF c, z, less
    <3> QED BY <1>1, <1>2, <1>10, <2>1
  <2>4. \A w \in Zone!Zones : zcall'[w].step = zcall[w].step /\ zcall'[w].on = zcall[w].on /\ zcall'[w].tinted = zcall[w].tinted
    <3>1. zcall'[z].step = zcall[z].step /\ zcall'[z].on = zcall[z].on /\ zcall'[z].tinted = zcall[z].tinted
      <4>1. less.step = zcall[z].step /\ less.on = zcall[z].on /\ less.tinted = zcall[z].tinted
        BY <1>10
      <4> HIDE DEF c, z, less
      <4> QED BY <2>3, <4>1
    <3> HIDE DEF c, z, less
    <3> QED BY <2>3, <3>1
  <2>5. WireWaits'
    <3> HIDE DEF c, z, less
    <3> DEFINE n == Len(zoneWire)
    <3>1. /\ n \in Nat \ {0} /\ DOMAIN zoneWire = 1..n /\ DOMAIN zoneWire' = 1..n
          /\ zoneWire'[n] = z /\ \A i \in 1..(n - 1) : zoneWire'[i] = zoneWire[i + 1]
      BY <1>1, <1>2, <1>13, <2>1
    <3> HIDE DEF n
    <3>2. \A i \in 1..n : i # n => i \in 1..(n - 1) /\ i + 1 \in 2..n /\ i + 1 \in 1..n
      BY <3>1
    <3>3. \A i \in 2..n : zoneWire[i] \in Zone!Zones /\ zoneWire[i] # z /\ zcall[zoneWire[i]].step = "copies"
      BY <1>12 DEF n
    <3>4. \A i \in 1..n : zcall'[zoneWire'[i]].step = "copies"
      BY <1>2, <1>3, <2>4, <3>1, <3>2, <3>3 DEF c
    <3>5. \A i, j \in 1..n : zoneWire'[i] = zoneWire'[j] => i = j
      <4> SUFFICES ASSUME NEW i \in 1..n, NEW j \in 1..n, zoneWire'[i] = zoneWire'[j] PROVE i = j
        OBVIOUS
      <4>1. CASE i = n \/ j = n
        BY <3>1, <3>2, <3>3, <4>1
      <4>2. CASE i # n /\ j # n
        <5>1. i + 1 = j + 1
          BY <3>1, <3>2, <4>2 DEF WireWaits
        <5> QED BY <3>1, <5>1
      <4> QED BY <4>1, <4>2
    <3>6. \A k \in Zone!Zones : zcall'[k].step = "copies" => zcall'[k].left \in 1..Copies
      BY <1>2, <2>2, <2>3 DEF WireWaits
    <3> QED BY <3>1, <3>4, <3>5, <3>6 DEF WireWaits
  <2>6. OneCall'
    BY <1>5, <2>4 DEF OneCall
  <2>7. ZonesKept'
    <3> HIDE DEF less
    <3> SUFFICES ASSUME ~zoneOverlapped', ~zoneUnsure'
                 PROVE  /\ zoneTint' \subseteq zoneLamp'.tinted
                        /\ \A k \in Zone!Zones : zcall'[k].step = "copies" =>
                             /\ zoneLamp'.lit = Zone!Lit(k, zcall'[k].on, zoneKept')
                             /\ zcall'[k].tinted => k \in zoneLamp'.tinted
                        /\ (\A k \in Zone!Zones : zcall'[k].step # "copies") => zoneKept' = zoneLamp'.lit
      BY DEF ZonesKept
    <3>1. \A k \in Zone!Zones : zcall'[k].step = "copies" => k = z
      BY <1>14, <2>4
    <3> QED BY <1>2, <1>3, <1>14, <2>1, <2>4, <3>1
  <2>8. zoneWire' \in Seq(Zone!Zones)
    <3> HIDE DEF c, z, less
    <3> QED BY <1>2, <1>13, <2>1
  <2>9. ZoneTyped'
    BY <1>5, <1>6, <1>7, <2>1, <2>3, <2>8 DEF ZoneTyped
  <2> QED BY <2>5, <2>6, <2>7, <2>9
<1> QED BY <1>15, <1>16

LEMMA ToggleKeeps ==
    ASSUME ZoneInv, NEW z \in Zone!Zones, NEW ok \in BOOLEAN, Zone!Toggled(z, ok)
    PROVE  ZoneInv'
<1> USE DEF ZoneInv
<1>1. /\ zcall[z].step = "toggles"
      /\ zoneLamp' = IF ok THEN Zone!Took(z, zcall[z], zoneLamp) ELSE zoneLamp
      /\ zoneUnsure' = (zoneUnsure \/ (ok /\ ~zoneLamp.on))
      /\ zoneKept' = IF ok THEN Zone!Applied(z, zcall[z].on) ELSE zoneKept
      /\ zcall' = [zcall EXCEPT ![z] = Zone!Idle]
      /\ UNCHANGED <<zoneKind, zoneTint, zoneLan, zoneCloud, zoneWire, zoneSaved, zoneOverlapped, zcalls, zfaults, zpowers, zboots>>
  BY DEF Zone!Toggled, Zone!zcounts
<1>2. zcall \in [Zone!Zones -> AskRecord] /\ zoneLamp \in LampRecord /\ zoneKept \in SUBSET Zone!Zones /\ zoneWire \in Seq(Zone!Zones)
  BY DEF ZoneTyped
<1>3. zcall[z].on \in BOOLEAN /\ zcall[z].tinted \in BOOLEAN
  BY <1>2 DEF AskRecord
<1>4. Zone!Idle \in AskRecord /\ Zone!Idle.step = "idle"
  BY CopiesAssumption DEF Zone!Idle, AskRecord
<1>5. zcall' \in [Zone!Zones -> AskRecord] /\ zcall'[z].step = "idle" /\ \A w \in Zone!Zones \ {z} : zcall'[w] = zcall[w]
  BY <1>1, <1>2, <1>4
<1>6. /\ zoneLamp' \in LampRecord /\ zoneLamp.tinted \subseteq zoneLamp'.tinted
      /\ ok /\ zoneLamp.on => zoneLamp'.lit = Zone!Lit(z, zcall[z].on, zoneLamp.lit)
      /\ ~ok => zoneLamp'.lit = zoneLamp.lit
  BY <1>1, <1>2, <1>3, LampTakes
<1>7. /\ zoneKept' \in SUBSET Zone!Zones
      /\ ok => zoneKept' = Zone!Lit(z, zcall[z].on, zoneKept)
  <2>1. Zone!Applied(z, zcall[z].on) = Zone!Lit(z, zcall[z].on, zoneKept)
    BY <1>3, AppliedIsLit
  <2>2. Zone!Lit(z, zcall[z].on, zoneKept) \in SUBSET Zone!Zones
    BY <1>2, <1>3, LitAgain
  <2> QED BY <1>1, <1>2, <2>1, <2>2
<1>8. zoneUnsure' \in BOOLEAN
  BY ONLY <1>1, Zenon
<1>9. ZoneTyped'
  BY <1>1, <1>5, <1>6, <1>7, <1>8 DEF ZoneTyped
<1>10. WireWaits'
  <2>1. \A i \in DOMAIN zoneWire : zoneWire[i] \in Zone!Zones /\ zoneWire[i] # z
    BY <1>1, <1>2 DEF WireWaits
  <2> QED BY <1>1, <1>5, <2>1 DEF WireWaits
<1>11. OneCall'
  BY <1>1, <1>5 DEF OneCall
<1>12. ZonesKept'
  <2> SUFFICES ASSUME ~zoneOverlapped', ~zoneUnsure'
               PROVE  /\ zoneTint' \subseteq zoneLamp'.tinted
                      /\ \A k \in Zone!Zones : zcall'[k].step = "idle"
                      /\ zoneKept' = zoneLamp'.lit
    BY DEF ZonesKept
  <2>1. ~zoneUnsure /\ (ok => zoneLamp.on)
    BY ONLY <1>1, ~zoneUnsure', Zenon
  <2>2. ~zoneOverlapped
    BY <1>1
  <2>3. \A w \in Zone!Zones \ {z} : zcall[w].step = "idle"
    BY <1>1, <2>2 DEF OneCall
  <2>4. \A w \in Zone!Zones : zcall[w].step # "copies"
    BY <1>1, <2>3
  <2>5. zoneKept = zoneLamp.lit /\ zoneTint \subseteq zoneLamp.tinted
    BY <2>1, <2>2, <2>4 DEF ZonesKept
  <2> QED BY <1>1, <1>5, <1>6, <1>7, <2>1, <2>3, <2>5
<1> QED BY <1>9, <1>10, <1>11, <1>12

\* Nothing that happens to the lamp or its network is about a call.
LEMMA OutsideKeeps ==
    ASSUME ZoneInv, Zone!LampPower \/ Zone!Reach \/ UNCHANGED zoneVars
    PROVE  ZoneInv'
<1> USE DEF ZoneInv
<1>1. UNCHANGED <<zoneKind, zoneKept, zoneTint, zcall, zoneWire, zoneSaved, zoneOverlapped, zoneUnsure, zcalls, zboots>>
  BY DEF Zone!LampPower, Zone!Reach, zoneVars
<1>2. zoneLamp' \in LampRecord /\ zoneLamp'.lit = zoneLamp.lit /\ zoneLamp'.tinted = zoneLamp.tinted
  <2>1. zoneLamp \in LampRecord
    BY DEF ZoneTyped
  <2>2. zoneLamp' = zoneLamp \/ zoneLamp' = [zoneLamp EXCEPT !.on = ~zoneLamp.on]
    BY DEF Zone!LampPower, Zone!Reach, zoneVars
  <2>3. (~zoneLamp.on) \in BOOLEAN
    BY Zenon
  <2> QED BY <2>1, <2>2, <2>3 DEF LampRecord
<1>3. zoneLan' \in BOOLEAN /\ zoneCloud' \in BOOLEAN
  <2>1. zoneLan \in BOOLEAN /\ zoneCloud \in BOOLEAN /\ (~zoneLan) \in BOOLEAN /\ (~zoneCloud) \in BOOLEAN
    BY Zenon DEF ZoneTyped
  <2> QED BY <2>1 DEF Zone!LampPower, Zone!Reach, zoneVars
<1>4. zpowers' \in 0..MaxZonePowers /\ zfaults' \in 0..MaxZoneFaults
  <2>1. zpowers \in 0..MaxZonePowers /\ zfaults \in 0..MaxZoneFaults
    BY DEF ZoneTyped
  <2>2. zpowers' = zpowers \/ (zpowers < MaxZonePowers /\ zpowers' = zpowers + 1)
    BY DEF Zone!LampPower, Zone!Reach, zoneVars
  <2>3. zfaults' = zfaults \/ (zfaults < MaxZoneFaults /\ zfaults' = zfaults + 1)
    BY DEF Zone!LampPower, Zone!Reach, zoneVars
  <2> QED BY <2>1, <2>2, <2>3, CopiesAssumption
<1>5. ZoneTyped'
  BY <1>1, <1>2, <1>3, <1>4 DEF ZoneTyped
<1>6. WireWaits' /\ OneCall'
  BY <1>1 DEF WireWaits, OneCall
<1>7. ZonesKept'
  BY <1>1, <1>2 DEF ZonesKept
<1> QED BY <1>5, <1>6, <1>7

LEMMA ZonesRestart ==
    ASSUME ZoneInv, Zone!Restart
    PROVE  ZoneInv'
<1> USE DEF ZoneInv
<1> DEFINE s == IF zoneLan \/ zoneCloud THEN [lit |-> zoneKept, tinted |-> IF zoneLamp.on THEN zoneTint \cap zoneKept ELSE {}]
                ELSE [lit |-> {}, tinted |-> {}]
<1>1. /\ zboots < MaxZoneBoots /\ zboots' = zboots + 1 /\ \A z \in Zone!Zones : zcall[z].step = "idle"
      /\ zoneSaved' = s /\ zoneKept' = s.lit /\ zoneTint' = s.tinted
      /\ zoneUnsure' = (zoneUnsure \/ ~(zoneLan \/ zoneCloud))
      /\ UNCHANGED <<zoneKind, zoneLamp, zoneLan, zoneCloud, zcall, zoneWire, zoneOverlapped, zcalls, zfaults, zpowers>>
  BY DEF Zone!Restart, Zone!Saved
<1>2. zoneKept \in SUBSET Zone!Zones /\ zoneTint \in SUBSET Zone!Zones
  BY DEF ZoneTyped
<1>3. /\ s \in [lit : SUBSET Zone!Zones, tinted : SUBSET Zone!Zones] /\ s.tinted \subseteq zoneTint
      /\ zoneLan \/ zoneCloud => s.lit = zoneKept
  BY <1>2
<1>4. zoneUnsure' \in BOOLEAN
  BY ONLY <1>1, Zenon
<1>5. ~zoneUnsure' => ~zoneUnsure /\ (zoneLan \/ zoneCloud)
  BY ONLY <1>1, Zenon
<1> HIDE DEF s
<1>6. zboots' \in 0..MaxZoneBoots
  BY <1>1, CopiesAssumption DEF ZoneTyped
<1>7. zoneKept' \subseteq Zone!Zones /\ zoneTint' \subseteq Zone!Zones
  BY <1>1, <1>3
<1>8. ZoneTyped'
  BY <1>1, <1>3, <1>4, <1>6, <1>7 DEF ZoneTyped
<1>9. WireWaits' /\ OneCall'
  BY <1>1 DEF WireWaits, OneCall
<1>10. ZonesKept'
  BY <1>1, <1>3, <1>5 DEF ZonesKept
<1> QED BY <1>8, <1>9, <1>10

LEMMA ZonesGoOn == ZoneInv /\ [Zone!Next]_zoneVars => ZoneInv'
<1> SUFFICES ASSUME ZoneInv, [Zone!Next]_zoneVars PROVE ZoneInv'
  OBVIOUS
<1>1. ASSUME NEW z \in Zone!Zones, NEW ask \in Zone!Ask, Zone!Asked(z, ask) PROVE ZoneInv'
  BY <1>1, AskKeeps
<1>2. ASSUME NEW z \in Zone!Zones, NEW ok \in BOOLEAN, Zone!Powered(z, ok) PROVE ZoneInv'
  BY <1>2, PowerEnds
<1>3. ASSUME NEW z \in Zone!Zones, NEW ok \in BOOLEAN, Zone!Toggled(z, ok) PROVE ZoneInv'
  BY <1>3, ToggleKeeps
<1>4. CASE Zone!Copy
  BY <1>4, ZoneCopyKeeps
<1>5. CASE Zone!Restart
  BY <1>5, ZonesRestart
<1>6. CASE Zone!LampPower \/ Zone!Reach \/ UNCHANGED zoneVars
  BY <1>6, OutsideKeeps
<1> QED BY <1>1, <1>2, <1>3, <1>4, <1>5, <1>6 DEF Zone!Next

\* The calls that wait are no more than the zones.
LEMMA FewWait ==
    ASSUME ZoneInv
    PROVE  zoneWire \in UNION {[1..n -> Zone!Zones] : n \in 0..Zone!Cardinality(Zone!Zones)}
<1>1. zoneWire \in Seq(Zone!Zones) /\ Len(zoneWire) \in Nat /\ zoneWire \in [1..Len(zoneWire) -> Zone!Zones]
  BY DEF ZoneInv, ZoneTyped
<1>2. \A i, j \in 1..Len(zoneWire) : zoneWire[i] = zoneWire[j] => i = j
  BY <1>1 DEF ZoneInv, WireWaits
<1>3. zoneWire \in Injection(1..Len(zoneWire), Zone!Zones)
  BY <1>1, <1>2 DEF Injection, IsInjective
<1>4. Cardinality(1..Len(zoneWire)) <= Cardinality(Zone!Zones)
  BY <1>3, FewZones, FS_Injection
<1>5. Cardinality(1..Len(zoneWire)) = Len(zoneWire)
  <2>1. 1 \in Int /\ Len(zoneWire) \in Int
    BY <1>1
  <2>2. Cardinality(1..Len(zoneWire)) = IF 1 > Len(zoneWire) THEN 0 ELSE Len(zoneWire) - 1 + 1
    BY <2>1, FS_Interval
  <2> QED BY <1>1, <2>2
<1>6. Cardinality(Zone!Zones) \in Nat
  BY FewZones, FS_CardinalityType
<1>7. Len(zoneWire) \in 0..Cardinality(Zone!Zones)
  BY <1>1, <1>4, <1>5, <1>6
<1> QED BY <1>1, <1>7, SameCount

LEMMA ZonesAreKept == ZoneInv => Zone!TypeOK /\ Zone!ZonesAreRight
<1> SUFFICES ASSUME ZoneInv PROVE Zone!TypeOK /\ Zone!ZonesAreRight
  OBVIOUS
<1>1. Zone!TypeOK
  BY FewWait DEF ZoneInv, ZoneTyped, Zone!TypeOK, AskRecord, LampRecord
<1>2. Zone!ZonesAreRight
  BY DEF ZoneInv, ZonesKept, Zone!ZonesAreRight, Zone!Settled
<1> QED BY <1>1, <1>2

\* For any copies and any overlap of calls: with none open, the zones recorded
\* are the ones the lamp lights (zone_state.py 141-219, zone_light.py 385-570).
THEOREM ZonesRight == Zone!Spec => []Zone!ZonesAreRight
<1>1. Zone!Init => ZoneInv
  BY ZonesStart
<1>2. ZoneInv /\ [Zone!Next]_(Zone!vars) => ZoneInv'
  BY ZonesGoOn DEF Zone!vars, Zone!zcounts, zoneVars
<1>3. ZoneInv => Zone!ZonesAreRight
  BY ZonesAreKept
<1> QED BY <1>1, <1>2, <1>3, PTL DEF Zone!Spec
-----------------------------------------------------------------------------
(* The readback of a strip (SegmentReadback).                               *)

Touch == [at : {"idle", "powers", "paints", "landed"}, asks : Readback!Lights, sends : Readback!Lights]
Push  == [of : [Readback!Segs -> Readback!Lights], frames : SUBSET Readback!Frames, changed : SUBSET Readback!Segs]

StripTyped ==
    /\ stripMode \in {"both", "groups"} /\ stripLamp \in [Readback!Segs -> Readback!Lights]
    /\ stripPowered \in BOOLEAN /\ stripLatched \in BOOLEAN
    /\ stripIsOn \in [Readback!Entities -> BOOLEAN] /\ stripRgb \in [Readback!Entities -> Colours]
    /\ stripGrace \in [Readback!Entities -> BOOLEAN]
    /\ stripCall \in [Readback!Entities -> Touch]
    /\ stripPushed \in Seq(Push) /\ Len(stripPushed) <= MaxPushes
    /\ stripPainter \in [Readback!Segs -> Readback!Entities \cup {Readback!App}]
    /\ stripUnsure \in [Readback!Entities -> BOOLEAN] /\ stripRaced \in [Readback!Entities -> BOOLEAN]
    /\ stripEvents \in 0..MaxEvents

\* What a call sends is what it asks, unless its entity was told something meanwhile.
SendsAsked(e) ==
    stripCall[e].at # "idle" =>
        /\ stripCall[e].asks = Readback!Black => stripCall[e].at # "powers" /\ stripCall[e].sends = Readback!Black
        /\ stripCall[e].asks # Readback!Black /\ ~stripRaced[e] =>
             stripRgb[e] = stripCall[e].asks /\ stripCall[e].sends = stripCall[e].asks

\* What a call that landed painted last shows what it sent.
PaintShows(e) ==
    \A s \in Readback!Members(e) :
        stripCall[e].at = "landed" /\ stripPainter[s] = e => stripLamp[s] = stripCall[e].sends

\* Where no change was made since, no reading on its way is an older one.
NoneOld(e) ==
    \/ stripGrace[e] \/ stripUnsure[e] \/ stripCall[e].at # "idle"
    \/ \A i \in DOMAIN stripPushed : ~Readback!Touches(e, stripPushed[i].changed)

ShowsTrue(e) ==
    stripCall[e].at = "idle" /\ ~stripUnsure[e] =>
        /\ stripIsOn[e] <=> Readback!Lit(e, stripLamp) # {}
        /\ stripIsOn[e] => stripRgb[e] = stripLamp[Readback!First(Readback!Lit(e, stripLamp))]

EntityKept(e) == SendsAsked(e) /\ PaintShows(e) /\ NoneOld(e) /\ ShowsTrue(e)

\* A reading holds what the bar shows where nothing changed since; a later one misses less.
PushesHold ==
    /\ \A i \in DOMAIN stripPushed : \A s \in Readback!Segs :
         s \notin stripPushed[i].changed => stripPushed[i].of[s] = stripLamp[s]
    /\ \A i, j \in DOMAIN stripPushed : i <= j => stripPushed[j].changed \subseteq stripPushed[i].changed

StripInv == StripTyped /\ (\A e \in Readback!Entities : EntityKept(e)) /\ PushesHold
-----------------------------------------------------------------------------

LEMMA LeastOf ==
    ASSUME NEW L \in SUBSET Nat, L # {}
    PROVE  \E x \in L : \A y \in L : x <= y
<1> DEFINE R == {ss \in Nat \X Nat : ss[1] < ss[2]}
<1>1. IsWellFoundedOn(R, Nat)
  BY NatLessThanWellFounded DEF OpToRel
<1>2. \E x \in L : \A y \in L : ~(<<y, x>> \in R)
  <2> HIDE DEF R
  <2> QED BY <1>1, WFMin
<1>3. PICK x \in L : \A y \in L : ~(<<y, x>> \in R)
  BY <1>2
<1>4. ASSUME NEW y \in L PROVE x <= y
  <2>1. <<y, x>> \in Nat \X Nat /\ <<y, x>>[1] = y /\ <<y, x>>[2] = x
    OBVIOUS
  <2> QED BY <1>3, <2>1
<1> QED BY <1>4

LEMMA FirstIsLit ==
    ASSUME NEW L \in SUBSET Readback!Segs, L # {}
    PROVE  Readback!First(L) \in L
<1>1. L \in SUBSET Nat
  BY ReadbackAssumption DEF Readback!Segs
<1>2. PICK x \in L : \A y \in L : x <= y
  <2> HIDE DEF Readback!Segs
  <2> QED BY <1>1, LeastOf
<1> QED BY <1>2 DEF Readback!First

LEMMA MembersAre ==
    ASSUME NEW e \in Readback!Entities
    PROVE  /\ Readback!Members(e) \in SUBSET Readback!Segs /\ Readback!Members(e) # {}
           /\ Readback!Members(Readback!All) = Readback!Segs
           /\ e # Readback!App
<1>1. Readback!Segs # {} /\ Readback!All \notin Readback!Segs
  <2>1. 1 \in Readback!Segs
    BY ReadbackAssumption DEF Readback!Segs
  <2> QED BY <2>1 DEF Readback!Segs, Readback!All
<1>2. e # Readback!App
  BY ReadbackAssumption DEF Readback!Entities, Readback!Group, Readback!App
<1> QED BY <1>1, <1>2 DEF Readback!Members

\* What an entity shows of readings that agree where it looks.
LEMMA LooksAlike ==
    ASSUME NEW e \in Readback!Entities, NEW of \in [Readback!Segs -> Readback!Lights],
           NEW was \in [Readback!Segs -> Readback!Lights], \A s \in Readback!Members(e) : of[s] = was[s]
    PROVE  /\ Readback!Lit(e, of) = Readback!Lit(e, was)
           /\ Readback!Lit(e, of) # {} =>
                /\ of[Readback!First(Readback!Lit(e, of))] = was[Readback!First(Readback!Lit(e, was))]
                /\ of[Readback!First(Readback!Lit(e, of))] \in Colours
<1>1. Readback!Members(e) \in SUBSET Readback!Segs
  BY MembersAre
<1>2. Readback!Lit(e, of) = Readback!Lit(e, was) /\ Readback!Lit(e, of) \in SUBSET Readback!Members(e)
  BY DEF Readback!Lit
<1>3. ASSUME Readback!Lit(e, of) # {} PROVE Readback!First(Readback!Lit(e, of)) \in Readback!Lit(e, of)
  BY <1>1, <1>2, <1>3, FirstIsLit
<1>4. ASSUME NEW s \in Readback!Lit(e, of) PROVE of[s] = was[s] /\ of[s] \in Colours
  BY <1>1 DEF Readback!Lit, Readback!Lights
<1> QED BY <1>2, <1>3, <1>4

LEMMA StripStarts == Readback!Init => StripInv
<1> SUFFICES ASSUME Readback!Init PROVE StripInv
  OBVIOUS
<1>1. PICK c \in Colours : stripLamp = [s \in Readback!Segs |-> c] /\ stripRgb = [e \in Readback!Entities |-> c]
  BY DEF Readback!Init
<1>2. Readback!NoCall \in Touch /\ Readback!NoCall.at = "idle"
  BY DEF Readback!NoCall, Touch, Readback!Lights
<1>3. /\ stripMode \in {"both", "groups"} /\ stripPowered \in BOOLEAN /\ stripLatched = FALSE
      /\ stripIsOn = [e \in Readback!Entities |-> TRUE] /\ stripGrace = [e \in Readback!Entities |-> FALSE]
      /\ stripCall = [e \in Readback!Entities |-> Readback!NoCall] /\ stripPushed = <<>>
      /\ stripPainter = [s \in Readback!Segs |-> Readback!App]
      /\ stripUnsure = [e \in Readback!Entities |-> FALSE] /\ stripRaced = [e \in Readback!Entities |-> FALSE]
      /\ stripEvents = 0
  BY DEF Readback!Init
<1>4. StripTyped
  <2>1. c \in Readback!Lights
    BY DEF Readback!Lights
  <2>2. stripPushed \in Seq(Push) /\ Len(stripPushed) = 0
    BY <1>3
  <2>3. stripCall \in [Readback!Entities -> Touch] /\ stripRgb \in [Readback!Entities -> Colours]
    BY <1>1, <1>2, <1>3
  <2>4. Len(stripPushed) <= MaxPushes /\ stripEvents \in 0..MaxEvents
    BY <1>3, <2>2, ReadbackAssumption
  <2>5. stripLamp \in [Readback!Segs -> Readback!Lights]
    BY <1>1, <2>1
  <2>6. /\ stripIsOn \in [Readback!Entities -> BOOLEAN] /\ stripGrace \in [Readback!Entities -> BOOLEAN]
        /\ stripUnsure \in [Readback!Entities -> BOOLEAN] /\ stripRaced \in [Readback!Entities -> BOOLEAN]
        /\ stripPainter \in [Readback!Segs -> Readback!Entities \cup {Readback!App}]
    BY <1>3
  <2> QED BY <1>3, <2>2, <2>3, <2>4, <2>5, <2>6 DEF StripTyped
<1>5. ASSUME NEW e \in Readback!Entities PROVE EntityKept(e)
  <2>1. stripCall[e].at = "idle" /\ stripIsOn[e] = TRUE /\ stripRgb[e] = c
    BY <1>1, <1>2, <1>3
  <2>2. Readback!Members(e) \in SUBSET Readback!Segs /\ Readback!Members(e) # {}
    BY MembersAre
  <2>3. Readback!Lit(e, stripLamp) = Readback!Members(e)
    BY <1>1, <2>2, ReadbackAssumption DEF Readback!Lit, Readback!Black
  <2>4. stripLamp[Readback!First(Readback!Members(e))] = c
    BY <1>1, <2>2, FirstIsLit
  <2>5. ShowsTrue(e)
    BY <2>1, <2>2, <2>3, <2>4 DEF ShowsTrue
  <2>6. NoneOld(e)
    BY <1>3 DEF NoneOld
  <2> QED BY <2>1, <2>5, <2>6 DEF EntityKept, SendsAsked, PaintShows
<1>6. PushesHold
  BY <1>3 DEF PushesHold
<1> QED BY <1>4, <1>5, <1>6 DEF StripInv
-----------------------------------------------------------------------------
(* A change of the bar.                                                     *)

LEMMA ChangeKeeps ==
    ASSUME StripInv, NEW segs \in SUBSET Readback!Segs, NEW c \in Readback!Lights,
           NEW by \in Readback!Entities \cup {Readback!App}, Readback!Changes(segs, c, by),
           UNCHANGED <<stripIsOn, stripRgb, stripGrace, stripRaced>>
    PROVE  /\ stripLamp' \in [Readback!Segs -> Readback!Lights]
           /\ stripPainter' \in [Readback!Segs -> Readback!Entities \cup {Readback!App}]
           /\ stripPushed' \in Seq(Push) /\ Len(stripPushed') <= MaxPushes
           /\ stripUnsure' \in [Readback!Entities -> BOOLEAN]
           /\ PushesHold'
           /\ \A s \in segs : stripLamp'[s] = c
           /\ \A f \in Readback!Entities : f # by /\ stripCall'[f] = stripCall[f] => EntityKept(f)'
<1> USE DEF StripInv
<1>1. /\ stripLamp' = [s \in Readback!Segs |-> IF s \in segs THEN c ELSE stripLamp[s]]
      /\ stripPainter' = [s \in Readback!Segs |-> IF s \in segs THEN by ELSE stripPainter[s]]
      /\ stripPushed' = [i \in DOMAIN stripPushed |-> [stripPushed[i] EXCEPT !.changed = stripPushed[i].changed \cup segs]]
      /\ stripUnsure' = [f \in Readback!Entities |-> stripUnsure[f] \/ (f # by /\ Readback!Touches(f, segs))]
  BY DEF Readback!Changes
<1>2. /\ stripLamp \in [Readback!Segs -> Readback!Lights] /\ stripPushed \in Seq(Push) /\ Len(stripPushed) <= MaxPushes
      /\ stripPainter \in [Readback!Segs -> Readback!Entities \cup {Readback!App}]
  BY DEF StripTyped
<1>3. /\ stripLamp' \in [Readback!Segs -> Readback!Lights] /\ \A s \in segs : stripLamp'[s] = c
      /\ \A s \in Readback!Segs \ segs : stripLamp'[s] = stripLamp[s]
  BY <1>1, <1>2
<1>4. /\ stripPainter' \in [Readback!Segs -> Readback!Entities \cup {Readback!App}]
      /\ \A s \in segs : stripPainter'[s] = by
      /\ \A s \in Readback!Segs \ segs : stripPainter'[s] = stripPainter[s]
  BY <1>1, <1>2
<1>5. /\ stripUnsure' \in [Readback!Entities -> BOOLEAN]
      /\ \A f \in Readback!Entities : stripUnsure'[f] <=> stripUnsure[f] \/ (f # by /\ Readback!Touches(f, segs))
  <2>1. ASSUME NEW f \in Readback!Entities PROVE (stripUnsure[f] \/ (f # by /\ Readback!Touches(f, segs))) \in BOOLEAN
    BY Zenon
  <2> QED BY <1>1, <2>1
<1>6. ASSUME NEW i \in DOMAIN stripPushed
      PROVE  /\ stripPushed[i] \in Push /\ stripPushed'[i] \in Push
             /\ stripPushed'[i].of = stripPushed[i].of /\ stripPushed'[i].changed = stripPushed[i].changed \cup segs
  <2>1. stripPushed[i] \in Push
    BY <1>2
  <2>2. stripPushed'[i] = [stripPushed[i] EXCEPT !.changed = stripPushed[i].changed \cup segs]
    BY <1>1
  <2> QED BY <2>1, <2>2 DEF Push
<1>7. DOMAIN stripPushed' = DOMAIN stripPushed /\ stripPushed' \in Seq(Push) /\ Len(stripPushed') = Len(stripPushed)
  <2>1. DOMAIN stripPushed = 1..Len(stripPushed) /\ Len(stripPushed) \in Nat
    BY <1>2
  <2>2. stripPushed' = [i \in 1..Len(stripPushed) |-> stripPushed'[i]]
    BY <1>1, <2>1
  <2>3. \A i \in 1..Len(stripPushed) : stripPushed'[i] \in Push
    BY <1>6, <2>1
  <2> QED BY <2>1, <2>2, <2>3
<1>8. PushesHold'
  <2>1. ASSUME NEW i \in DOMAIN stripPushed', NEW s \in Readback!Segs, s \notin stripPushed'[i].changed
        PROVE  stripPushed'[i].of[s] = stripLamp'[s]
    <3>1. i \in DOMAIN stripPushed /\ s \notin stripPushed[i].changed /\ s \notin segs
      BY <1>6, <1>7, <2>1
    <3> QED BY <1>3, <1>6, <3>1 DEF PushesHold
  <2>2. ASSUME NEW i \in DOMAIN stripPushed', NEW j \in DOMAIN stripPushed', i <= j
        PROVE  stripPushed'[j].changed \subseteq stripPushed'[i].changed
    <3>1. i \in DOMAIN stripPushed /\ j \in DOMAIN stripPushed
      BY <1>7
    <3>2. stripPushed[j].changed \subseteq stripPushed[i].changed
      BY <2>2, <3>1 DEF PushesHold
    <3> QED BY <1>6, <3>1, <3>2
  <2> QED BY <2>1, <2>2 DEF PushesHold
<1>9. ASSUME NEW f \in Readback!Entities, f # by, stripCall'[f] = stripCall[f] PROVE EntityKept(f)'
  <2>1. SendsAsked(f) /\ PaintShows(f) /\ NoneOld(f) /\ ShowsTrue(f)
    BY DEF EntityKept
  <2>2. Readback!Members(f) \in SUBSET Readback!Segs
    BY MembersAre
  <2>3. SendsAsked(f)'
    BY <1>9, <2>1 DEF SendsAsked
  <2>4. PaintShows(f)'
    <3> SUFFICES ASSUME NEW s \in Readback!Members(f), stripCall'[f].at = "landed", stripPainter'[s] = f
                 PROVE  stripLamp'[s] = stripCall'[f].sends
      BY DEF PaintShows
    <3>1. s \in Readback!Segs \ segs
      BY <1>4, <1>9, <2>2
    <3> QED BY <1>3, <1>4, <1>9, <2>1, <3>1 DEF PaintShows
  <2>5. NoneOld(f)'
    <3> SUFFICES ASSUME ~stripGrace'[f], ~stripUnsure'[f], stripCall'[f].at = "idle"
                 PROVE  \A i \in DOMAIN stripPushed' : ~Readback!Touches(f, stripPushed'[i].changed)
      BY DEF NoneOld
    <3>1. ~stripGrace[f] /\ ~stripUnsure[f] /\ stripCall[f].at = "idle" /\ ~Readback!Touches(f, segs)
      BY <1>5, <1>9
    <3>2. \A i \in DOMAIN stripPushed : ~Readback!Touches(f, stripPushed[i].changed)
      BY <2>1, <3>1 DEF NoneOld
    <3> QED BY <1>6, <1>7, <3>1, <3>2 DEF Readback!Touches
  <2>6. ShowsTrue(f)'
    <3> SUFFICES ASSUME stripCall'[f].at = "idle", ~stripUnsure'[f]
                 PROVE  /\ stripIsOn'[f] <=> Readback!Lit(f, stripLamp') # {}
                        /\ stripIsOn'[f] => stripRgb'[f] = stripLamp'[Readback!First(Readback!Lit(f, stripLamp'))]
      BY DEF ShowsTrue
    <3>1. ~stripUnsure[f] /\ stripCall[f].at = "idle" /\ ~Readback!Touches(f, segs)
      BY <1>5, <1>9
    <3>2. \A s \in Readback!Members(f) : stripLamp'[s] = stripLamp[s]
      BY <1>3, <2>2, <3>1 DEF Readback!Touches
    <3>3. /\ Readback!Lit(f, stripLamp') = Readback!Lit(f, stripLamp)
          /\ Readback!Lit(f, stripLamp') # {} =>
               stripLamp'[Readback!First(Readback!Lit(f, stripLamp'))] = stripLamp[Readback!First(Readback!Lit(f, stripLamp))]
      BY <1>2, <1>3, <3>2, LooksAlike
    <3>4. /\ stripIsOn[f] <=> Readback!Lit(f, stripLamp) # {}
          /\ stripIsOn[f] => stripRgb[f] = stripLamp[Readback!First(Readback!Lit(f, stripLamp))]
      BY <2>1, <3>1 DEF ShowsTrue
    <3> QED BY <3>3, <3>4
  <2> QED BY <2>3, <2>4, <2>5, <2>6 DEF EntityKept
<1> QED BY <1>2, <1>3, <1>4, <1>5, <1>7, <1>8, <1>9

LEMMA LandKeeps ==
    ASSUME StripInv, NEW e \in Readback!Entities, Readback!Lands(e)
    PROVE  StripInv'
<1> USE DEF StripInv
<1>1. /\ stripCall[e].at = "paints" /\ stripCall' = [stripCall EXCEPT ![e].at = "landed"]
      /\ Readback!Changes(Readback!Members(e), stripCall[e].sends, e)
      /\ UNCHANGED <<stripMode, stripPowered, stripLatched, stripIsOn, stripRgb, stripGrace, stripRaced, stripEvents>>
  BY DEF Readback!Lands, Readback!shown
<1>2. stripCall \in [Readback!Entities -> Touch] /\ stripCall[e] \in Touch
  BY DEF StripTyped
<1>3. stripCall[e].sends \in Readback!Lights
  BY <1>2 DEF Touch
<1>4. Readback!Members(e) \in SUBSET Readback!Segs
  BY MembersAre
<1>5. /\ stripLamp' \in [Readback!Segs -> Readback!Lights]
      /\ stripPainter' \in [Readback!Segs -> Readback!Entities \cup {Readback!App}]
      /\ stripPushed' \in Seq(Push) /\ Len(stripPushed') <= MaxPushes
      /\ stripUnsure' \in [Readback!Entities -> BOOLEAN]
      /\ PushesHold'
      /\ \A s \in Readback!Members(e) : stripLamp'[s] = stripCall[e].sends
      /\ \A f \in Readback!Entities : f # e /\ stripCall'[f] = stripCall[f] => EntityKept(f)'
  <2>1. e \in Readback!Entities \cup {Readback!App}
    OBVIOUS
  <2>2. StripInv /\ UNCHANGED <<stripIsOn, stripRgb, stripGrace, stripRaced>>
    BY <1>1
  <2> DEFINE segs == Readback!Members(e)  c == stripCall[e].sends
  <2>3. segs \in SUBSET Readback!Segs /\ c \in Readback!Lights /\ Readback!Changes(segs, c, e)
    BY <1>1, <1>3, <1>4
  <2> HIDE DEF segs, c
  <2>4. /\ stripLamp' \in [Readback!Segs -> Readback!Lights]
        /\ stripPainter' \in [Readback!Segs -> Readback!Entities \cup {Readback!App}]
        /\ stripPushed' \in Seq(Push) /\ Len(stripPushed') <= MaxPushes
        /\ stripUnsure' \in [Readback!Entities -> BOOLEAN]
        /\ PushesHold'
        /\ \A s \in segs : stripLamp'[s] = c
        /\ \A f \in Readback!Entities : f # e /\ stripCall'[f] = stripCall[f] => EntityKept(f)'
    BY <2>1, <2>2, <2>3, ChangeKeeps
  <2> QED BY <2>4 DEF segs, c
<1>6. /\ stripCall'[e] \in Touch /\ stripCall'[e].at = "landed"
      /\ stripCall'[e].asks = stripCall[e].asks /\ stripCall'[e].sends = stripCall[e].sends
  <2>1. stripCall'[e] = [stripCall[e] EXCEPT !.at = "landed"]
    BY <1>1, <1>2
  <2> QED BY <1>2, <2>1 DEF Touch
<1>7. stripCall' \in [Readback!Entities -> Touch] /\ \A f \in Readback!Entities \ {e} : stripCall'[f] = stripCall[f]
  <2>1. \A f \in Readback!Entities \ {e} : stripCall'[f] = stripCall[f] /\ stripCall[f] \in Touch
    BY <1>1, <1>2
  <2>2. stripCall' = [f \in Readback!Entities |-> stripCall'[f]]
    BY <1>1, <1>2
  <2> QED BY <1>6, <2>1, <2>2
<1>8. EntityKept(e)'
  <2>1. SendsAsked(e)
    BY DEF EntityKept
  <2> QED BY <1>1, <1>5, <1>6, <2>1 DEF EntityKept, SendsAsked, PaintShows, NoneOld, ShowsTrue
<1>9. StripTyped'
  BY <1>1, <1>5, <1>7 DEF StripTyped
<1> QED BY <1>5, <1>7, <1>8, <1>9

LEMMA AppKeeps ==
    ASSUME StripInv, NEW s \in Readback!Segs, NEW c \in Readback!Lights, Readback!AppPaints(s, c)
    PROVE  StripInv'
<1> USE DEF StripInv
<1>1. /\ stripEvents < MaxEvents /\ stripEvents' = stripEvents + 1
      /\ Readback!Changes({s}, c, Readback!App)
      /\ UNCHANGED <<stripMode, stripPowered, stripLatched, stripIsOn, stripRgb, stripGrace, stripCall, stripRaced>>
  BY DEF Readback!AppPaints, Readback!shown
<1>2. {s} \in SUBSET Readback!Segs
  OBVIOUS
<1>3. /\ stripLamp' \in [Readback!Segs -> Readback!Lights]
      /\ stripPainter' \in [Readback!Segs -> Readback!Entities \cup {Readback!App}]
      /\ stripPushed' \in Seq(Push) /\ Len(stripPushed') <= MaxPushes
      /\ stripUnsure' \in [Readback!Entities -> BOOLEAN]
      /\ PushesHold'
      /\ \A f \in Readback!Entities : f # Readback!App /\ stripCall'[f] = stripCall[f] => EntityKept(f)'
  BY <1>1, <1>2, ChangeKeeps
<1>4. \A f \in Readback!Entities : f # Readback!App /\ stripCall'[f] = stripCall[f]
  BY <1>1, MembersAre
<1>5. stripEvents' \in 0..MaxEvents
  BY <1>1, ReadbackAssumption DEF StripTyped
<1>6. StripTyped'
  BY <1>1, <1>3, <1>5 DEF StripTyped
<1> QED BY <1>3, <1>4, <1>6

LEMMA LostKeeps ==
    ASSUME StripInv, NEW e \in Readback!Entities, Readback!PaintLost(e)
    PROVE  StripInv'
<1> USE DEF StripInv
<1>1. /\ stripCall[e].at = "paints" /\ stripCall' = [stripCall EXCEPT ![e].at = "landed"]
      /\ stripEvents < MaxEvents /\ stripEvents' = stripEvents + 1
      /\ stripPainter' = [s \in Readback!Segs |-> IF s \in Readback!Members(e) THEN Readback!App ELSE stripPainter[s]]
      /\ UNCHANGED <<stripMode, stripLamp, stripPowered, stripLatched, stripIsOn, stripRgb, stripGrace, stripPushed,
                      stripUnsure, stripRaced>>
  BY DEF Readback!PaintLost, Readback!shown
<1>2. /\ stripCall \in [Readback!Entities -> Touch] /\ stripCall[e] \in Touch
      /\ stripPainter \in [Readback!Segs -> Readback!Entities \cup {Readback!App}]
  BY DEF StripTyped
<1>3. /\ stripCall'[e] \in Touch /\ stripCall'[e].at = "landed"
      /\ stripCall'[e].asks = stripCall[e].asks /\ stripCall'[e].sends = stripCall[e].sends
  <2>1. stripCall'[e] = [stripCall[e] EXCEPT !.at = "landed"]
    BY <1>1, <1>2
  <2> QED BY <1>2, <2>1 DEF Touch
<1>4. stripCall' \in [Readback!Entities -> Touch] /\ \A f \in Readback!Entities \ {e} : stripCall'[f] = stripCall[f]
  <2>1. \A f \in Readback!Entities \ {e} : stripCall'[f] = stripCall[f] /\ stripCall[f] \in Touch
    BY <1>1, <1>2
  <2>2. stripCall' = [f \in Readback!Entities |-> stripCall'[f]]
    BY <1>1, <1>2
  <2> QED BY <1>3, <2>1, <2>2
<1>5. ASSUME NEW f \in Readback!Entities PROVE PaintShows(f)'
  <2> SUFFICES ASSUME NEW s \in Readback!Members(f), stripCall'[f].at = "landed", stripPainter'[s] = f
               PROVE  stripLamp'[s] = stripCall'[f].sends
    BY DEF PaintShows
  <2>1. s \in Readback!Segs /\ f # Readback!App
    BY MembersAre
  <2>2. s \notin Readback!Members(e) /\ stripPainter[s] = f
    BY <1>1, <2>1
  <2>3. f # e
    BY <2>2
  <2>4. PaintShows(f)
    BY DEF EntityKept
  <2> QED BY <1>1, <1>4, <2>2, <2>3, <2>4 DEF PaintShows
<1>6. ASSUME NEW f \in Readback!Entities PROVE SendsAsked(f)' /\ NoneOld(f)' /\ ShowsTrue(f)'
  <2>1. SendsAsked(f) /\ NoneOld(f) /\ ShowsTrue(f)
    BY DEF EntityKept
  <2>2. CASE f = e
    BY <1>1, <1>3, <2>1, <2>2 DEF SendsAsked, NoneOld, ShowsTrue
  <2>3. CASE f # e
    BY <1>1, <1>4, <2>1, <2>3 DEF SendsAsked, NoneOld, ShowsTrue
  <2> QED BY <2>2, <2>3
<1>7. StripTyped'
  <2>1. stripEvents' \in 0..MaxEvents
    BY <1>1, ReadbackAssumption DEF StripTyped
  <2>2. stripPainter' \in [Readback!Segs -> Readback!Entities \cup {Readback!App}]
    BY <1>1, <1>2
  <2> QED BY <1>1, <1>4, <2>1, <2>2 DEF StripTyped
<1>8. PushesHold'
  BY <1>1 DEF PushesHold
<1> QED BY <1>5, <1>6, <1>7, <1>8 DEF EntityKept
-----------------------------------------------------------------------------
(* The calls.                                                               *)

LEMMA OnKeeps ==
    ASSUME StripInv, NEW e \in Readback!Entities, NEW c \in Colours, Readback!TurnOn(e, c)
    PROVE  StripInv'
<1> USE DEF StripInv
<1> DEFINE k == [at |-> IF stripPowered \/ stripLatched THEN "paints" ELSE "powers", asks |-> c, sends |-> c]
<1>1. /\ stripCall[e].at = "idle" /\ stripEvents < MaxEvents /\ stripEvents' = stripEvents + 1
      /\ stripRgb' = [stripRgb EXCEPT ![e] = c] /\ stripRaced' = [stripRaced EXCEPT ![e] = FALSE]
      /\ stripLatched' = (stripLatched \/ ~stripPowered) /\ stripCall' = [stripCall EXCEPT ![e] = k]
      /\ UNCHANGED <<stripMode, stripLamp, stripPowered, stripIsOn, stripGrace, stripPushed, stripPainter, stripUnsure>>
  BY DEF Readback!TurnOn
<1>2. /\ stripCall \in [Readback!Entities -> Touch] /\ stripRgb \in [Readback!Entities -> Colours]
      /\ stripRaced \in [Readback!Entities -> BOOLEAN]
  BY DEF StripTyped
<1>3. k \in Touch /\ k.at \in {"paints", "powers"} /\ k.asks = c /\ k.sends = c
  BY DEF Touch, Readback!Lights
<1> HIDE DEF k
<1>4. FALSE \in BOOLEAN
  BY Zenon
<1>5. /\ stripCall' \in [Readback!Entities -> Touch] /\ stripCall'[e] = k
      /\ stripRgb' \in [Readback!Entities -> Colours] /\ stripRgb'[e] = c
      /\ stripRaced' \in [Readback!Entities -> BOOLEAN] /\ stripRaced'[e] = FALSE
      /\ \A f \in Readback!Entities \ {e} : stripCall'[f] = stripCall[f] /\ stripRgb'[f] = stripRgb[f] /\ stripRaced'[f] = stripRaced[f]
  BY <1>1, <1>2, <1>3, <1>4
<1>6. EntityKept(e)'
  <2>1. c # Readback!Black
    BY ReadbackAssumption DEF Readback!Black
  <2> QED BY <1>3, <1>5, <2>1 DEF EntityKept, SendsAsked, PaintShows, NoneOld, ShowsTrue
<1>7. ASSUME NEW f \in Readback!Entities, f # e PROVE EntityKept(f)'
  <2>1. EntityKept(f)
    OBVIOUS
  <2> QED BY <1>1, <1>5, <1>7, <2>1 DEF EntityKept, SendsAsked, PaintShows, NoneOld, ShowsTrue
<1>8. StripTyped'
  <2>1. stripEvents' \in 0..MaxEvents
    BY <1>1, ReadbackAssumption DEF StripTyped
  <2>2. stripLatched' \in BOOLEAN
    BY ONLY <1>1, Zenon
  <2> QED BY <1>1, <1>5, <2>1, <2>2 DEF StripTyped
<1>9. PushesHold'
  BY <1>1 DEF PushesHold
<1> QED BY <1>6, <1>7, <1>8, <1>9

LEMMA OffKeeps ==
    ASSUME StripInv, NEW e \in Readback!Entities, Readback!TurnOff(e)
    PROVE  StripInv'
<1> USE DEF StripInv
<1> DEFINE k == [at |-> "paints", asks |-> Readback!Black, sends |-> Readback!Black]
<1>1. /\ stripCall[e].at = "idle" /\ stripEvents < MaxEvents /\ stripEvents' = stripEvents + 1
      /\ stripRaced' = [stripRaced EXCEPT ![e] = FALSE] /\ stripCall' = [stripCall EXCEPT ![e] = k]
      /\ UNCHANGED <<stripMode, stripLamp, stripPowered, stripLatched, stripIsOn, stripRgb, stripGrace, stripPushed,
                      stripPainter, stripUnsure>>
  BY DEF Readback!TurnOff, Readback!shown
<1>2. stripCall \in [Readback!Entities -> Touch] /\ stripRaced \in [Readback!Entities -> BOOLEAN]
  BY DEF StripTyped
<1>3. k \in Touch /\ k.at = "paints" /\ k.asks = Readback!Black /\ k.sends = Readback!Black
  BY DEF Touch, Readback!Lights
<1> HIDE DEF k
<1>4. FALSE \in BOOLEAN
  BY Zenon
<1>5. /\ stripCall' \in [Readback!Entities -> Touch] /\ stripCall'[e] = k
      /\ stripRaced' \in [Readback!Entities -> BOOLEAN]
      /\ \A f \in Readback!Entities \ {e} : stripCall'[f] = stripCall[f] /\ stripRaced'[f] = stripRaced[f]
  BY <1>1, <1>2, <1>3, <1>4
<1>6. EntityKept(e)'
  BY <1>3, <1>5 DEF EntityKept, SendsAsked, PaintShows, NoneOld, ShowsTrue
<1>7. ASSUME NEW f \in Readback!Entities, f # e PROVE EntityKept(f)'
  <2>1. EntityKept(f)
    OBVIOUS
  <2> QED BY <1>1, <1>5, <1>7, <2>1 DEF EntityKept, SendsAsked, PaintShows, NoneOld, ShowsTrue
<1>8. StripTyped'
  <2>1. stripEvents' \in 0..MaxEvents
    BY <1>1, ReadbackAssumption DEF StripTyped
  <2> QED BY <1>1, <1>5, <2>1 DEF StripTyped
<1>9. PushesHold'
  BY <1>1 DEF PushesHold
<1> QED BY <1>6, <1>7, <1>8, <1>9

LEMMA UpKeeps ==
    ASSUME StripInv, NEW e \in Readback!Entities, Readback!PoweredUp(e)
    PROVE  StripInv'
<1> USE DEF StripInv
<1>0. PICK c \in {stripRgb[e], stripCall[e].asks} :
        stripCall' = [stripCall EXCEPT ![e].at = "paints", ![e].sends = c]
  BY DEF Readback!PoweredUp, Readback!Sends
<1>1. /\ stripCall[e].at = "powers" /\ stripPowered' \in {TRUE, stripPowered}
      /\ stripCall' = [stripCall EXCEPT ![e].at = "paints", ![e].sends = c]
      /\ UNCHANGED <<stripMode, stripLamp, stripLatched, stripIsOn, stripRgb, stripGrace, stripPushed,
                      stripPainter, stripUnsure, stripRaced, stripEvents>>
  BY <1>0 DEF Readback!PoweredUp, Readback!shown, Readback!past
<1>2. stripCall \in [Readback!Entities -> Touch] /\ stripCall[e] \in Touch /\ c \in Readback!Lights
  BY DEF StripTyped, Touch, Readback!Lights
<1>3. /\ stripCall'[e].at = "paints" /\ stripCall'[e].sends = c /\ stripCall'[e].asks = stripCall[e].asks
      /\ \A f \in Readback!Entities \ {e} : stripCall'[f] = stripCall[f]
  BY <1>1, <1>2 DEF Touch
<1>4. stripCall'[e] \in Touch
  <2>1. stripCall'[e] = [[stripCall[e] EXCEPT !.at = "paints"] EXCEPT !.sends = c]
    BY <1>1, <1>2
  <2> QED BY <1>2, <2>1 DEF Touch
<1>5. stripCall' \in [Readback!Entities -> Touch]
  <2>1. stripCall' = [f \in Readback!Entities |-> stripCall'[f]]
    BY <1>1, <1>2
  <2>2. \A f \in Readback!Entities : stripCall'[f] \in Touch
    BY <1>2, <1>3, <1>4
  <2> QED BY <2>1, <2>2
<1>6. EntityKept(e)'
  <2>1. SendsAsked(e)
    BY DEF EntityKept
  <2> QED BY <1>1, <1>3, <2>1 DEF EntityKept, SendsAsked, PaintShows, NoneOld, ShowsTrue
<1>7. ASSUME NEW f \in Readback!Entities, f # e PROVE EntityKept(f)'
  <2>1. SendsAsked(f) /\ PaintShows(f) /\ NoneOld(f) /\ ShowsTrue(f)
    BY DEF EntityKept
  <2>2. stripCall'[f] = stripCall[f]
    BY <1>3, <1>7
  <2>3. SendsAsked(f)' /\ PaintShows(f)'
    BY <1>1, <2>1, <2>2 DEF SendsAsked, PaintShows
  <2>4. NoneOld(f)' /\ ShowsTrue(f)'
    BY <1>1, <2>1, <2>2 DEF NoneOld, ShowsTrue
  <2> QED BY <2>3, <2>4 DEF EntityKept
<1>8. StripTyped'
  <2>1. stripPowered' \in BOOLEAN
    BY <1>1 DEF StripTyped
  <2> QED BY <1>1, <1>5, <2>1 DEF StripTyped
<1>9. PushesHold'
  BY <1>1 DEF PushesHold
<1> QED BY <1>6, <1>7, <1>8, <1>9

LEMMA ReturnKeeps ==
    ASSUME StripInv, NEW e \in Readback!Entities, Readback!Returns(e)
    PROVE  StripInv'
<1> USE DEF StripInv
<1> DEFINE on == stripCall[e].asks # Readback!Black
           told == IF e = Readback!All THEN Readback!Segs \cup {Readback!All} ELSE {e}
<1>1. /\ stripCall[e].at = "landed" /\ stripCall' = [stripCall EXCEPT ![e] = Readback!NoCall]
      /\ stripIsOn' = [f \in Readback!Entities |-> IF f \in told THEN on ELSE stripIsOn[f]]
      /\ stripRgb' = [f \in Readback!Entities |-> IF f \in told THEN stripRgb[e] ELSE stripRgb[f]]
      /\ stripGrace' = [f \in Readback!Entities |-> f \in told \/ stripGrace[f]]
      /\ stripUnsure' = [f \in Readback!Entities |-> IF f \notin told THEN stripUnsure[f]
                            ELSE stripRaced[e] \/ \E s \in Readback!Members(f) : stripPainter[s] # e]
      /\ stripRaced' = [f \in Readback!Entities |-> stripRaced[f] \/ (f \in told \ {e} /\ stripCall[f].at # "idle")]
      /\ UNCHANGED <<stripMode, stripLamp, stripPowered, stripLatched, stripPushed, stripPainter, stripEvents>>
  BY DEF Readback!Returns, Readback!Tells, Readback!Told, Readback!Opens
<1>2. /\ stripCall \in [Readback!Entities -> Touch] /\ stripRgb \in [Readback!Entities -> Colours]
      /\ stripLamp \in [Readback!Segs -> Readback!Lights]
  BY DEF StripTyped
<1>3. e \in told /\ (\A f \in told \cap Readback!Entities : Readback!Members(f) \subseteq Readback!Members(e))
  <2>1. CASE e = Readback!All
    BY <2>1, MembersAre
  <2>2. CASE e # Readback!All
    BY <2>2
  <2> QED BY <2>1, <2>2
<1>4. Readback!NoCall \in Touch /\ Readback!NoCall.at = "idle"
  BY DEF Readback!NoCall, Touch, Readback!Lights
<1>5. on \in BOOLEAN
  BY Zenon
<1>6. /\ SendsAsked(e) /\ PaintShows(e)
  BY DEF EntityKept
<1> HIDE DEF told, on
<1>7. /\ stripCall' \in [Readback!Entities -> Touch] /\ stripCall'[e].at = "idle"
      /\ \A f \in Readback!Entities \ {e} : stripCall'[f] = stripCall[f]
  BY <1>1, <1>2, <1>4
<1>8. /\ stripIsOn' \in [Readback!Entities -> BOOLEAN] /\ stripRgb' \in [Readback!Entities -> Colours]
  BY <1>1, <1>2, <1>5 DEF StripTyped
<1>9. /\ stripGrace' \in [Readback!Entities -> BOOLEAN]
      /\ \A f \in Readback!Entities : stripGrace'[f] <=> f \in told \/ stripGrace[f]
  <2>1. ASSUME NEW f \in Readback!Entities PROVE (f \in told \/ stripGrace[f]) \in BOOLEAN
    BY Zenon
  <2> QED BY <1>1, <2>1
<1>10. /\ stripRaced' \in [Readback!Entities -> BOOLEAN]
       /\ \A f \in Readback!Entities : stripRaced'[f] <=> stripRaced[f] \/ (f \in told \ {e} /\ stripCall[f].at # "idle")
  <2>1. ASSUME NEW f \in Readback!Entities
        PROVE  (stripRaced[f] \/ (f \in told \ {e} /\ stripCall[f].at # "idle")) \in BOOLEAN
    BY Zenon
  <2> QED BY <1>1, <2>1
<1>11. /\ stripUnsure' \in [Readback!Entities -> BOOLEAN]
       /\ \A f \in Readback!Entities :
            IF f \in told THEN stripUnsure'[f] <=> stripRaced[e] \/ \E s \in Readback!Members(f) : stripPainter[s] # e
                          ELSE stripUnsure'[f] = stripUnsure[f]
  <2> DEFINE open(f) == stripRaced[e] \/ \E s \in Readback!Members(f) : stripPainter[s] # e
  <2>1. ASSUME NEW f PROVE open(f) \in BOOLEAN
    BY Zenon
  <2>2. \A f \in Readback!Entities : stripUnsure[f] \in BOOLEAN
    BY DEF StripTyped
  <2>3. stripUnsure' = [f \in Readback!Entities |-> IF f \notin told THEN stripUnsure[f] ELSE open(f)]
    BY <1>1
  <2>4. \A f \in Readback!Entities : IF f \in told THEN stripUnsure'[f] = open(f) ELSE stripUnsure'[f] = stripUnsure[f]
    <3> HIDE DEF open
    <3> QED BY <2>3
  <2>5. stripUnsure' \in [Readback!Entities -> BOOLEAN]
    <3> HIDE DEF open
    <3> QED BY <2>1, <2>2, <2>3
  <2> QED BY <2>4, <2>5
<1>12. StripTyped'
  BY <1>1, <1>7, <1>8, <1>9, <1>10, <1>11 DEF StripTyped
<1>13. PushesHold'
  BY <1>1 DEF PushesHold
<1>14. ASSUME NEW f \in Readback!Entities PROVE EntityKept(f)'
  <2>1. SendsAsked(f) /\ PaintShows(f) /\ NoneOld(f) /\ ShowsTrue(f)
    BY DEF EntityKept
  <2>2. CASE f \notin told
    <3>1. /\ f # e /\ stripCall'[f] = stripCall[f] /\ stripIsOn'[f] = stripIsOn[f] /\ stripRgb'[f] = stripRgb[f]
          /\ stripUnsure'[f] = stripUnsure[f] /\ (stripRaced'[f] <=> stripRaced[f]) /\ (stripGrace'[f] <=> stripGrace[f])
      BY <1>1, <1>3, <1>7, <1>9, <1>10, <1>11, <2>2
    <3>2. SendsAsked(f)' /\ PaintShows(f)'
      BY <1>1, <2>1, <3>1 DEF SendsAsked, PaintShows
    <3>3. NoneOld(f)' /\ ShowsTrue(f)'
      BY <1>1, <2>1, <3>1 DEF NoneOld, ShowsTrue
    <3> QED BY <3>2, <3>3 DEF EntityKept
  <2>3. CASE f \in told
    <3>1. stripIsOn'[f] = on /\ stripRgb'[f] = stripRgb[e] /\ stripGrace'[f]
      BY <1>1, <1>9, <2>3
    <3>2. NoneOld(f)'
      BY <3>1 DEF NoneOld
    <3>3. SendsAsked(f)' /\ PaintShows(f)'
      <4>1. CASE f = e
        BY <1>7, <4>1 DEF SendsAsked, PaintShows
      <4>2. CASE f # e
        <5>1. stripCall'[f] = stripCall[f] /\ (stripCall[f].at # "idle" => stripRaced'[f])
          BY <1>7, <1>10, <2>3, <4>2
        <5> QED BY <1>1, <2>1, <5>1 DEF SendsAsked, PaintShows
      <4> QED BY <4>1, <4>2
    <3>4. ShowsTrue(f)'
      <4> SUFFICES ASSUME ~stripUnsure'[f]
                   PROVE  /\ stripIsOn'[f] <=> Readback!Lit(f, stripLamp) # {}
                          /\ stripIsOn'[f] => stripRgb'[f] = stripLamp[Readback!First(Readback!Lit(f, stripLamp))]
        BY <1>1 DEF ShowsTrue
      <4>1. ~stripRaced[e] /\ \A s \in Readback!Members(f) : stripPainter[s] = e
        BY <1>11, <2>3
      <4>2. \A s \in Readback!Members(f) : s \in Readback!Segs /\ stripLamp[s] = stripCall[e].sends
        <5>1. Readback!Members(f) \subseteq Readback!Members(e) /\ Readback!Members(f) \in SUBSET Readback!Segs
          BY <1>3, <2>3, MembersAre
        <5> QED BY <1>1, <1>6, <4>1, <5>1 DEF PaintShows
      <4>3. Readback!Members(f) \in SUBSET Readback!Segs /\ Readback!Members(f) # {}
        BY MembersAre
      <4>4. CASE stripCall[e].asks = Readback!Black
        <5>1. stripCall[e].sends = Readback!Black /\ on = FALSE
          BY <1>1, <1>6, <4>4 DEF SendsAsked, on
        <5> QED BY <3>1, <4>2, <5>1 DEF Readback!Lit
      <4>5. CASE stripCall[e].asks # Readback!Black
        <5>1. stripRgb[e] = stripCall[e].asks /\ stripCall[e].sends = stripCall[e].asks /\ on = TRUE
          BY <1>1, <1>6, <4>1, <4>5 DEF SendsAsked, on
        <5>2. Readback!Lit(f, stripLamp) = Readback!Members(f)
          BY <4>2, <4>5, <5>1 DEF Readback!Lit
        <5>3. Readback!First(Readback!Members(f)) \in Readback!Members(f)
          BY <4>3, FirstIsLit
        <5> QED BY <3>1, <4>2, <4>3, <5>1, <5>2, <5>3
      <4> QED BY <4>4, <4>5
    <3> QED BY <3>2, <3>3, <3>4 DEF EntityKept
  <2> QED BY <2>2, <2>3
<1> QED BY <1>12, <1>13, <1>14

\* A call that is left out tells what a call's end tells, and leaves it open.
LEMMA LeavesOutKeeps ==
    ASSUME StripInv, NEW e \in Readback!Entities, Readback!LeftOut(e)
    PROVE  StripInv'
<1> USE DEF StripInv
<1> DEFINE told == IF e = Readback!All THEN Readback!Segs \cup {Readback!All} ELSE {e}
<1>1. /\ stripEvents < MaxEvents /\ stripEvents' = stripEvents + 1 /\ stripCall[e].at = "idle"
      /\ stripIsOn' = [f \in Readback!Entities |-> IF f \in told THEN FALSE ELSE stripIsOn[f]]
      /\ stripRgb' = [f \in Readback!Entities |-> IF f \in told THEN stripRgb[e] ELSE stripRgb[f]]
      /\ stripGrace' = [f \in Readback!Entities |-> f \in told \/ stripGrace[f]]
      /\ stripUnsure' = [f \in Readback!Entities |-> stripUnsure[f] \/ f \in told]
      /\ stripRaced' = [f \in Readback!Entities |-> stripRaced[f] \/ (f \in told \ {e} /\ stripCall[f].at # "idle")]
      /\ UNCHANGED <<stripMode, stripLamp, stripPowered, stripLatched, stripCall, stripPushed, stripPainter>>
  BY DEF Readback!LeftOut, Readback!Tells, Readback!Told, Readback!Opens
<1> HIDE DEF told
<1>2. e \in told
  BY DEF told
<1>3. FALSE \in BOOLEAN
  BY Zenon
<1>4. stripIsOn' \in [Readback!Entities -> BOOLEAN] /\ stripRgb' \in [Readback!Entities -> Colours]
  BY <1>1, <1>3 DEF StripTyped
<1>5. /\ stripGrace' \in [Readback!Entities -> BOOLEAN]
      /\ \A f \in Readback!Entities : stripGrace'[f] <=> f \in told \/ stripGrace[f]
  <2>1. ASSUME NEW f \in Readback!Entities PROVE (f \in told \/ stripGrace[f]) \in BOOLEAN
    BY Zenon
  <2> QED BY <1>1, <2>1
<1>6. /\ stripRaced' \in [Readback!Entities -> BOOLEAN]
      /\ \A f \in Readback!Entities : stripRaced'[f] <=> stripRaced[f] \/ (f \in told \ {e} /\ stripCall[f].at # "idle")
  <2>1. ASSUME NEW f \in Readback!Entities
        PROVE  (stripRaced[f] \/ (f \in told \ {e} /\ stripCall[f].at # "idle")) \in BOOLEAN
    BY Zenon
  <2> QED BY <1>1, <2>1
<1>7. /\ stripUnsure' \in [Readback!Entities -> BOOLEAN]
      /\ \A f \in Readback!Entities : stripUnsure'[f] <=> stripUnsure[f] \/ f \in told
  <2>1. ASSUME NEW f \in Readback!Entities PROVE (stripUnsure[f] \/ f \in told) \in BOOLEAN
    BY Zenon
  <2> QED BY <1>1, <2>1
<1>8. StripTyped'
  <2>1. stripEvents' \in 0..MaxEvents
    BY <1>1, ReadbackAssumption DEF StripTyped
  <2> QED BY <1>1, <1>4, <1>5, <1>6, <1>7, <2>1 DEF StripTyped
<1>9. PushesHold'
  BY <1>1 DEF PushesHold
<1>10. ASSUME NEW f \in Readback!Entities PROVE EntityKept(f)'
  <2>1. SendsAsked(f) /\ PaintShows(f) /\ NoneOld(f) /\ ShowsTrue(f)
    BY DEF EntityKept
  <2>2. PaintShows(f)'
    BY <1>1, <2>1 DEF PaintShows
  <2>3. CASE f \notin told
    <3>1. /\ stripIsOn'[f] = stripIsOn[f] /\ stripRgb'[f] = stripRgb[f] /\ (stripUnsure'[f] <=> stripUnsure[f])
          /\ (stripRaced'[f] <=> stripRaced[f]) /\ (stripGrace'[f] <=> stripGrace[f])
      BY <1>1, <1>5, <1>6, <1>7, <2>3
    <3>2. SendsAsked(f)'
      BY <1>1, <2>1, <3>1 DEF SendsAsked
    <3>3. NoneOld(f)' /\ ShowsTrue(f)'
      BY <1>1, <2>1, <3>1 DEF NoneOld, ShowsTrue
    <3> QED BY <2>2, <3>2, <3>3 DEF EntityKept
  <2>4. CASE f \in told
    <3>1. stripUnsure'[f] /\ stripGrace'[f] /\ (f # e /\ stripCall[f].at # "idle" => stripRaced'[f])
      BY <1>5, <1>6, <1>7, <2>4
    <3>2. SendsAsked(f)'
      BY <1>1, <2>1, <3>1 DEF SendsAsked
    <3> QED BY <2>2, <3>1, <3>2 DEF EntityKept, NoneOld, ShowsTrue
  <2> QED BY <2>3, <2>4
<1> QED BY <1>8, <1>9, <1>10

LEMMA RaisesKeeps ==
    ASSUME StripInv, NEW e \in Readback!Entities, Readback!Raises(e)
    PROVE  StripInv'
<1> USE DEF StripInv
<1>1. /\ stripEvents < MaxEvents /\ stripEvents' = stripEvents + 1
      /\ stripCall' = [stripCall EXCEPT ![e] = Readback!NoCall] /\ stripUnsure' = [stripUnsure EXCEPT ![e] = TRUE]
      /\ UNCHANGED <<stripMode, stripLamp, stripPowered, stripLatched, stripIsOn, stripRgb, stripGrace, stripPushed,
                      stripPainter, stripRaced>>
  BY DEF Readback!Raises, Readback!shown
<1>2. Readback!NoCall \in Touch /\ Readback!NoCall.at = "idle"
  BY DEF Readback!NoCall, Touch, Readback!Lights
<1>3. TRUE \in BOOLEAN
  BY Zenon
<1>4. /\ stripCall' \in [Readback!Entities -> Touch] /\ stripCall'[e].at = "idle"
      /\ stripUnsure' \in [Readback!Entities -> BOOLEAN] /\ stripUnsure'[e] = TRUE
      /\ \A f \in Readback!Entities \ {e} : stripCall'[f] = stripCall[f] /\ stripUnsure'[f] = stripUnsure[f]
  BY <1>1, <1>2, <1>3 DEF StripTyped
<1>5. StripTyped'
  <2>1. stripEvents' \in 0..MaxEvents
    BY <1>1, ReadbackAssumption DEF StripTyped
  <2> QED BY <1>1, <1>4, <2>1 DEF StripTyped
<1>6. PushesHold'
  BY <1>1 DEF PushesHold
<1>7. EntityKept(e)'
  BY <1>4 DEF EntityKept, SendsAsked, PaintShows, NoneOld, ShowsTrue
<1>8. ASSUME NEW f \in Readback!Entities, f # e PROVE EntityKept(f)'
  <2>1. SendsAsked(f) /\ PaintShows(f) /\ NoneOld(f) /\ ShowsTrue(f)
    BY DEF EntityKept
  <2>2. stripCall'[f] = stripCall[f] /\ stripUnsure'[f] = stripUnsure[f]
    BY <1>4, <1>8
  <2>3. SendsAsked(f)' /\ PaintShows(f)'
    BY <1>1, <2>1, <2>2 DEF SendsAsked, PaintShows
  <2>4. NoneOld(f)' /\ ShowsTrue(f)'
    BY <1>1, <2>1, <2>2 DEF NoneOld, ShowsTrue
  <2> QED BY <2>3, <2>4 DEF EntityKept
<1> QED BY <1>5, <1>6, <1>7, <1>8

LEMMA GraceKeeps ==
    ASSUME StripInv, NEW e \in Readback!Entities, Readback!GraceEnds(e)
    PROVE  StripInv'
<1> USE DEF StripInv
<1>1. /\ stripGrace' = [stripGrace EXCEPT ![e] = FALSE]
      /\ \A i \in DOMAIN stripPushed : ~Readback!Touches(e, stripPushed[i].changed)
      /\ UNCHANGED <<stripMode, stripLamp, stripPowered, stripLatched, stripIsOn, stripRgb, stripCall, stripPushed,
                      stripPainter, stripUnsure, stripRaced, stripEvents>>
  BY DEF Readback!GraceEnds, Readback!past
<1>2. FALSE \in BOOLEAN
  BY Zenon
<1>3. stripGrace' \in [Readback!Entities -> BOOLEAN] /\ \A f \in Readback!Entities \ {e} : stripGrace'[f] = stripGrace[f]
  BY <1>1, <1>2 DEF StripTyped
<1>4. StripTyped' /\ PushesHold'
  BY <1>1, <1>3 DEF StripTyped, PushesHold
<1>5. ASSUME NEW f \in Readback!Entities PROVE EntityKept(f)'
  <2>1. SendsAsked(f) /\ PaintShows(f) /\ NoneOld(f) /\ ShowsTrue(f)
    BY DEF EntityKept
  <2>2. SendsAsked(f)' /\ PaintShows(f)'
    BY <1>1, <2>1 DEF SendsAsked, PaintShows
  <2>3. ShowsTrue(f)'
    BY <1>1, <2>1 DEF ShowsTrue
  <2>4. NoneOld(f)'
    BY <1>1, <1>3, <2>1 DEF NoneOld
  <2> QED BY <2>2, <2>3, <2>4 DEF EntityKept
<1> QED BY <1>4, <1>5
-----------------------------------------------------------------------------
(* The readings.                                                            *)

LEMMA PushKeeps ==
    ASSUME StripInv, NEW frames \in SUBSET Readback!Frames, Readback!Pushes(frames)
    PROVE  StripInv'
<1> USE DEF StripInv
<1> DEFINE p == [of |-> stripLamp, frames |-> frames, changed |-> {}]
<1>1. /\ Len(stripPushed) < MaxPushes /\ stripPushed' = Append(stripPushed, p)
      /\ UNCHANGED <<stripMode, stripLamp, stripPowered, stripLatched, stripIsOn, stripRgb, stripGrace, stripCall,
                      stripPainter, stripUnsure, stripRaced, stripEvents>>
  BY DEF Readback!Pushes, Readback!shown, Readback!past
<1>2. p \in Push /\ p.of = stripLamp /\ p.changed = {}
  BY DEF Push, StripTyped
<1> HIDE DEF p
<1>3. stripPushed \in Seq(Push) /\ Len(stripPushed) \in Nat
  BY DEF StripTyped
<1>4. /\ stripPushed' \in Seq(Push) /\ Len(stripPushed') = Len(stripPushed) + 1
      /\ DOMAIN stripPushed' = 1..(Len(stripPushed) + 1) /\ DOMAIN stripPushed = 1..Len(stripPushed)
      /\ stripPushed'[Len(stripPushed) + 1] = p
      /\ \A i \in DOMAIN stripPushed : stripPushed'[i] = stripPushed[i]
  BY <1>1, <1>2, <1>3
<1>5. \A i \in DOMAIN stripPushed' : i \in DOMAIN stripPushed \/ stripPushed'[i] = p
  BY <1>3, <1>4
<1>6. PushesHold'
  <2>1. \A i \in DOMAIN stripPushed' : \A s \in Readback!Segs :
          s \notin stripPushed'[i].changed => stripPushed'[i].of[s] = stripLamp'[s]
    BY <1>1, <1>2, <1>4, <1>5 DEF PushesHold
  <2>2. ASSUME NEW i \in DOMAIN stripPushed', NEW j \in DOMAIN stripPushed', i <= j
        PROVE  stripPushed'[j].changed \subseteq stripPushed'[i].changed
    <3>1. CASE j = Len(stripPushed) + 1
      BY <1>2, <1>4, <3>1
    <3>2. CASE j # Len(stripPushed) + 1
      <4>1. i \in DOMAIN stripPushed /\ j \in DOMAIN stripPushed
        BY <1>3, <1>4, <2>2, <3>2
      <4> QED BY <1>4, <2>2, <4>1 DEF PushesHold
    <3> QED BY <3>1, <3>2
  <2> QED BY <2>1, <2>2 DEF PushesHold
<1>7. StripTyped'
  <2>1. Len(stripPushed') <= MaxPushes
    BY <1>1, <1>3, <1>4, ReadbackAssumption
  <2> QED BY <1>1, <1>4, <2>1 DEF StripTyped
<1>8. ASSUME NEW f \in Readback!Entities PROVE EntityKept(f)'
  <2>1. SendsAsked(f) /\ PaintShows(f) /\ NoneOld(f) /\ ShowsTrue(f)
    BY DEF EntityKept
  <2>2. SendsAsked(f)' /\ PaintShows(f)'
    BY <1>1, <2>1 DEF SendsAsked, PaintShows
  <2>3. ShowsTrue(f)'
    BY <1>1, <2>1 DEF ShowsTrue
  <2>4. NoneOld(f)'
    BY <1>1, <1>2, <1>4, <1>5, <2>1 DEF NoneOld, Readback!Touches
  <2> QED BY <2>2, <2>3, <2>4 DEF EntityKept
<1> QED BY <1>6, <1>7, <1>8

LEMMA ReadKeeps ==
    ASSUME StripInv, Readback!Readback
    PROVE  StripInv'
<1> USE DEF StripInv
<1> DEFINE push == Head(stripPushed)
           open(e) == ~(Readback!Members(e) \subseteq Readback!Readings(push))
                        \/ (stripUnsure[e] /\ Readback!Touches(e, push.changed))
<1>1. /\ stripPushed # <<>> /\ stripPushed' = Tail(stripPushed)
      /\ stripIsOn' = [e \in Readback!Entities |-> IF Readback!Reads(e, push) THEN Readback!LitIn(e, push) # {} ELSE stripIsOn[e]]
      /\ stripRgb' = [e \in Readback!Entities |-> IF Readback!Reads(e, push) /\ Readback!LitIn(e, push) # {}
                        THEN push.of[Readback!First(Readback!LitIn(e, push))] ELSE stripRgb[e]]
      /\ stripRaced' = [e \in Readback!Entities |-> stripRaced[e] \/ (Readback!Reads(e, push) /\ stripCall[e].at # "idle")]
      /\ stripUnsure' = [e \in Readback!Entities |-> IF Readback!Reads(e, push) THEN open(e) ELSE stripUnsure[e]]
      /\ UNCHANGED <<stripMode, stripLamp, stripPowered, stripLatched, stripGrace, stripCall, stripPainter, stripEvents>>
  BY DEF Readback!Readback
<1>2. stripPushed \in Seq(Push) /\ stripLamp \in [Readback!Segs -> Readback!Lights] /\ stripRgb \in [Readback!Entities -> Colours]
  BY DEF StripTyped
<1>3. push \in Push /\ push = stripPushed[1] /\ 1 \in DOMAIN stripPushed
  BY <1>1, <1>2
<1>4. push.of \in [Readback!Segs -> Readback!Lights]
  BY <1>3 DEF Push
<1>5. \A s \in Readback!Segs : s \notin push.changed => push.of[s] = stripLamp[s]
  BY <1>3 DEF PushesHold
<1>6. /\ Len(stripPushed') = Len(stripPushed) - 1 /\ Len(stripPushed) \in Nat \ {0} /\ stripPushed' \in Seq(Push)
      /\ DOMAIN stripPushed' = 1..(Len(stripPushed) - 1) /\ DOMAIN stripPushed = 1..Len(stripPushed)
      /\ \A i \in DOMAIN stripPushed' : stripPushed'[i] = stripPushed[i + 1]
  BY <1>1, <1>2
<1>7. \A i \in DOMAIN stripPushed' : i \in Int /\ i + 1 \in DOMAIN stripPushed /\ 1 <= i + 1
  BY <1>6
<1>8. \A i \in DOMAIN stripPushed' : stripPushed'[i].changed \subseteq push.changed
  BY <1>3, <1>6, <1>7 DEF PushesHold
<1> HIDE DEF push
<1>9. PushesHold'
  <2>1. ASSUME NEW i \in DOMAIN stripPushed', NEW s \in Readback!Segs, s \notin stripPushed'[i].changed
        PROVE  stripPushed'[i].of[s] = stripLamp'[s]
    BY <1>1, <1>6, <1>7, <2>1 DEF PushesHold
  <2>2. ASSUME NEW i \in DOMAIN stripPushed', NEW j \in DOMAIN stripPushed', i <= j
        PROVE  stripPushed'[j].changed \subseteq stripPushed'[i].changed
    <3>1. i + 1 <= j + 1
      BY <1>7, <2>2
    <3> QED BY <1>6, <1>7, <3>1 DEF PushesHold
  <2> QED BY <2>1, <2>2 DEF PushesHold
<1>10. \A e \in Readback!Entities : (Readback!LitIn(e, push) # {}) \in BOOLEAN
  BY Zenon
<1>11. stripIsOn' \in [Readback!Entities -> BOOLEAN]
  BY <1>1, <1>10 DEF StripTyped
<1>12. stripRgb' \in [Readback!Entities -> Colours]
  <2>1. ASSUME NEW e \in Readback!Entities, Readback!LitIn(e, push) # {}
        PROVE  push.of[Readback!First(Readback!LitIn(e, push))] \in Colours
    <3>1. Readback!LitIn(e, push) \in SUBSET Readback!Segs
      BY MembersAre DEF Readback!LitIn, Readback!Lit
    <3>2. Readback!First(Readback!LitIn(e, push)) \in Readback!LitIn(e, push)
      BY <2>1, <3>1, FirstIsLit
    <3> QED BY <1>4, <3>1, <3>2 DEF Readback!LitIn, Readback!Lit, Readback!Lights
  <2> QED BY <1>1, <1>2, <2>1
<1>13. /\ stripRaced' \in [Readback!Entities -> BOOLEAN]
       /\ \A e \in Readback!Entities : stripRaced'[e] <=> stripRaced[e] \/ (Readback!Reads(e, push) /\ stripCall[e].at # "idle")
  <2>1. ASSUME NEW e \in Readback!Entities
        PROVE  (stripRaced[e] \/ (Readback!Reads(e, push) /\ stripCall[e].at # "idle")) \in BOOLEAN
    BY Zenon
  <2> QED BY <1>1, <2>1
<1>14. /\ stripUnsure' \in [Readback!Entities -> BOOLEAN]
       /\ \A e \in Readback!Entities : IF Readback!Reads(e, push) THEN stripUnsure'[e] <=> open(e)
                                                                  ELSE stripUnsure'[e] = stripUnsure[e]
  <2>1. ASSUME NEW e PROVE open(e) \in BOOLEAN
    BY Zenon
  <2>2. \A e \in Readback!Entities : stripUnsure[e] \in BOOLEAN
    BY DEF StripTyped
  <2>3. stripUnsure' \in [Readback!Entities -> BOOLEAN]
    <3> HIDE DEF open
    <3> QED BY <1>1, <2>1, <2>2
  <2>4. \A e \in Readback!Entities : IF Readback!Reads(e, push) THEN stripUnsure'[e] = open(e)
                                                                ELSE stripUnsure'[e] = stripUnsure[e]
    <3> HIDE DEF open
    <3> QED BY <1>1
  <2> QED BY <2>3, <2>4
<1>15. StripTyped'
  <2>1. Len(stripPushed') <= MaxPushes
    BY <1>6, ReadbackAssumption DEF StripTyped
  <2> QED BY <1>1, <1>6, <1>11, <1>12, <1>13, <1>14, <2>1 DEF StripTyped
<1>16. ASSUME NEW e \in Readback!Entities PROVE EntityKept(e)'
  <2>1. SendsAsked(e) /\ PaintShows(e) /\ NoneOld(e) /\ ShowsTrue(e)
    BY DEF EntityKept
  <2>2. SendsAsked(e)'
    <3>1. CASE Readback!Reads(e, push) /\ stripCall[e].at # "idle"
      BY <1>1, <1>13, <2>1, <3>1 DEF SendsAsked
    <3>2. CASE ~Readback!Reads(e, push)
      BY <1>1, <1>13, <2>1, <3>2 DEF SendsAsked
    <3>3. CASE stripCall[e].at = "idle"
      BY <1>1, <3>3 DEF SendsAsked
    <3> QED BY <3>1, <3>2, <3>3
  <2>3. PaintShows(e)'
    BY <1>1, <2>1 DEF PaintShows
  <2>4. NoneOld(e)'
    <3> SUFFICES ASSUME ~stripGrace[e], ~stripUnsure'[e], stripCall[e].at = "idle"
                 PROVE  \A i \in DOMAIN stripPushed' : ~Readback!Touches(e, stripPushed'[i].changed)
      BY <1>1 DEF NoneOld
    <3>1. CASE stripUnsure[e]
      <4>1. ~Readback!Touches(e, push.changed)
        BY <1>14, <3>1
      <4> QED BY <1>8, <4>1 DEF Readback!Touches
    <3>2. CASE ~stripUnsure[e]
      <4>1. \A i \in DOMAIN stripPushed : ~Readback!Touches(e, stripPushed[i].changed)
        BY <2>1, <3>2 DEF NoneOld
      <4> QED BY <1>6, <1>7, <4>1
    <3> QED BY <3>1, <3>2
  <2>5. ShowsTrue(e)'
    <3> SUFFICES ASSUME stripCall[e].at = "idle", ~stripUnsure'[e]
                 PROVE  /\ stripIsOn'[e] <=> Readback!Lit(e, stripLamp) # {}
                        /\ stripIsOn'[e] => stripRgb'[e] = stripLamp[Readback!First(Readback!Lit(e, stripLamp))]
      BY <1>1 DEF ShowsTrue
    <3>1. CASE ~Readback!Reads(e, push)
      <4>1. stripIsOn'[e] = stripIsOn[e] /\ stripRgb'[e] = stripRgb[e] /\ ~stripUnsure[e]
        BY <1>1, <1>14, <3>1
      <4> QED BY <2>1, <4>1 DEF ShowsTrue
    <3>2. CASE Readback!Reads(e, push)
      <4>1. ~Readback!Touches(e, push.changed)
        <5>1. CASE stripUnsure[e]
          BY <1>14, <3>2, <5>1
        <5>2. CASE ~stripUnsure[e]
          <6>1. ~stripGrace[e]
            BY <3>2 DEF Readback!Reads
          <6> QED BY <1>3, <2>1, <5>2, <6>1 DEF NoneOld
        <5> QED BY <5>1, <5>2
      <4>2. \A s \in Readback!Members(e) : push.of[s] = stripLamp[s]
        BY <1>5, <4>1, MembersAre DEF Readback!Touches
      <4>3. Readback!LitIn(e, push) = Readback!Lit(e, push.of)
        <5>1. Readback!Members(e) \subseteq Readback!Readings(push)
          BY <1>14, <3>2
        <5> QED BY <5>1 DEF Readback!LitIn, Readback!Lit
      <4>4. /\ Readback!Lit(e, push.of) = Readback!Lit(e, stripLamp)
            /\ Readback!Lit(e, push.of) # {} =>
                 push.of[Readback!First(Readback!Lit(e, push.of))] = stripLamp[Readback!First(Readback!Lit(e, stripLamp))]
        BY <1>2, <1>4, <4>2, LooksAlike
      <4>5. stripIsOn'[e] = (Readback!LitIn(e, push) # {})
        BY <1>1, <3>2
      <4>6. Readback!LitIn(e, push) # {} => stripRgb'[e] = push.of[Readback!First(Readback!LitIn(e, push))]
        BY <1>1, <3>2
      <4> QED BY <4>3, <4>4, <4>5, <4>6
    <3> QED BY <3>1, <3>2
  <2> QED BY <2>2, <2>3, <2>4, <2>5 DEF EntityKept
<1> QED BY <1>9, <1>15, <1>16

LEMMA PowerKeeps ==
    ASSUME StripInv, Readback!LatchEnds \/ Readback!AppSwitchesOff \/ UNCHANGED readbackVars
    PROVE  StripInv'
<1> USE DEF StripInv
<1>1. UNCHANGED <<stripMode, stripLamp, stripIsOn, stripRgb, stripGrace, stripCall, stripPushed, stripPainter, stripUnsure,
                  stripRaced>>
  BY DEF Readback!LatchEnds, Readback!AppSwitchesOff, readbackVars, Readback!shown, Readback!past
<1>2. stripPowered' \in BOOLEAN /\ stripLatched' \in BOOLEAN
  <2>1. FALSE \in BOOLEAN
    BY Zenon
  <2> QED BY <2>1 DEF Readback!LatchEnds, Readback!AppSwitchesOff, readbackVars, StripTyped
<1>3. stripEvents' \in 0..MaxEvents
  <2>1. stripEvents' = stripEvents \/ (stripEvents < MaxEvents /\ stripEvents' = stripEvents + 1)
    BY DEF Readback!LatchEnds, Readback!AppSwitchesOff, readbackVars
  <2> QED BY <2>1, ReadbackAssumption DEF StripTyped
<1>4. StripTyped' /\ PushesHold'
  BY <1>1, <1>2, <1>3 DEF StripTyped, PushesHold
<1>5. ASSUME NEW f \in Readback!Entities PROVE EntityKept(f)'
  <2>1. SendsAsked(f) /\ PaintShows(f) /\ NoneOld(f) /\ ShowsTrue(f)
    BY DEF EntityKept
  <2> QED BY <1>1, <2>1 DEF EntityKept, SendsAsked, PaintShows, NoneOld, ShowsTrue
<1> QED BY <1>4, <1>5

LEMMA StripGoesOn == StripInv /\ [Readback!Next]_readbackVars => StripInv'
<1> SUFFICES ASSUME StripInv, [Readback!Next]_readbackVars PROVE StripInv'
  OBVIOUS
<1>1. ASSUME NEW e \in Readback!Entities, NEW c \in Colours, Readback!TurnOn(e, c) PROVE StripInv'
  BY <1>1, OnKeeps
<1>2. ASSUME NEW e \in Readback!Entities,
             Readback!TurnOff(e) \/ Readback!LeftOut(e) \/ Readback!Raises(e) \/ Readback!PoweredUp(e) \/ Readback!Lands(e)
               \/ Readback!PaintLost(e) \/ Readback!Returns(e) \/ Readback!GraceEnds(e)
      PROVE  StripInv'
  BY <1>2, OffKeeps, LeavesOutKeeps, RaisesKeeps, UpKeeps, LandKeeps, LostKeeps, ReturnKeeps, GraceKeeps
<1>3. ASSUME NEW s \in Readback!Segs, NEW c \in Readback!Lights, Readback!AppPaints(s, c) PROVE StripInv'
  BY <1>3, AppKeeps
<1>4. CASE (\E frames \in SUBSET Readback!Frames : Readback!Pushes(frames)) \/ Readback!Readback
  BY <1>4, PushKeeps, ReadKeeps
<1>5. CASE Readback!LatchEnds \/ Readback!AppSwitchesOff \/ UNCHANGED readbackVars
  BY <1>5, PowerKeeps
<1> QED BY <1>1, <1>2, <1>3, <1>4, <1>5 DEF Readback!Next

LEMMA StripIsTrue == StripInv => Readback!TypeOK /\ Readback!ReadbackIsTrue
<1> SUFFICES ASSUME StripInv PROVE Readback!TypeOK /\ Readback!ReadbackIsTrue
  OBVIOUS
<1>1. StripTyped
  BY DEF StripInv
<1>2. \A i \in DOMAIN stripPushed : stripPushed[i] \in Push
  BY <1>1 DEF StripTyped
<1>3. Readback!TypeOK
  BY <1>1, <1>2 DEF StripTyped, Readback!TypeOK, Touch, Push
<1>4. Readback!Present \subseteq Readback!Entities
  BY ReadbackAssumption DEF Readback!Present, Readback!Entities, Readback!Segs, Readback!Group, Readback!All
<1>5. Readback!ReadbackIsTrue
  BY <1>4 DEF StripInv, EntityKept, ShowsTrue, Readback!ReadbackIsTrue
<1> QED BY <1>3, <1>5

\* For any segments, groups and pushes: an entity no call of which is open shows
\* what its segments show, unless it was left unsure (segment.py 41-50, 244-318).
THEOREM ReadbackTrue == Readback!Spec => []Readback!ReadbackIsTrue
<1>1. StripInv /\ [Readback!Next]_(Readback!vars) => StripInv'
  BY StripGoesOn DEF Readback!vars, Readback!shown, Readback!past, readbackVars
<1> QED BY <1>1, StripStarts, StripIsTrue, PTL DEF Readback!Spec
-----------------------------------------------------------------------------
(* The sum.                                                                 *)

LEMMA LampParts ==
    ASSUME [PartsNext]_partsVars
    PROVE  /\ [DispatchNext]_dispatchVars /\ [Ring!Next]_(Ring!vars) /\ [Readback!Next]_(Readback!vars)
           /\ [Zone!Next]_(Zone!vars) /\ [Diy!Next]_(Diy!vars)
  BY DEF PartsNext, partsVars, powerVars, ringVars, readbackVars, zoneVars, diyVars, Ring!vars, Ring!fixture, Ring!entity,
     Ring!lock, Ring!counts,
     Readback!vars, Readback!shown, Readback!past, Zone!vars, Zone!zcounts, Diy!vars

\* The control path, the ring, the strip, the zones and the draft behave in the
\* sum as their own specifications say.
THEOREM LampPartsAreWhole == PartsSpec => DispatchSpec /\ Ring!Spec /\ Readback!Spec /\ Zone!Spec /\ Diy!Spec
<1>1. PartsInit => DispatchInit /\ Ring!Init /\ Readback!Init /\ Zone!Init /\ Diy!Init
  BY DEF PartsInit
<1> QED BY <1>1, LampParts, PTL DEF PartsSpec, DispatchSpec, Ring!Spec, Readback!Spec, Zone!Spec, Diy!Spec

\* In the sum, a lamp's ring, segments, zones and effect are kept as it has them,
\* or as they were given.
THEOREM LampsRight == PartsSpec => []LampsAreRight
<1>1. Ring!RingIsKept /\ Readback!ReadbackIsTrue /\ Zone!ZonesAreRight /\ Diy!DraftIsKept => LampsAreRight
  BY DEF LampsAreRight
<1> QED BY <1>1, LampPartsAreWhole, RingKept, ReadbackTrue, ZonesRight, DraftKept, PTL

\* The types of every part of the sum.
THEOREM LampsTyped == PartsSpec => []AllTypeOK
<1>1. DispatchSpec => []DispatchTypeOK
  BY DispatchCorrect, PTL
<1>2. Ring!Spec => []Ring!TypeOK
  BY RingStarts, RingGoesOn, RingIsRight, PTL DEF Ring!Spec
<1>3. Diy!Spec => []Diy!TypeOK
  BY DiyStarts, DiyGoesOn, DiyIsRight, PTL DEF Diy!Spec
<1>4. ZoneInv /\ [Zone!Next]_(Zone!vars) => ZoneInv'
  BY ZonesGoOn DEF Zone!vars, Zone!zcounts, zoneVars
<1>5. Zone!Spec => []Zone!TypeOK
  BY <1>4, ZonesStart, ZonesAreKept, PTL DEF Zone!Spec
<1>6. StripInv /\ [Readback!Next]_(Readback!vars) => StripInv'
  BY StripGoesOn DEF Readback!vars, Readback!shown, Readback!past, readbackVars
<1>7. Readback!Spec => []Readback!TypeOK
  BY <1>6, StripStarts, StripIsTrue, PTL DEF Readback!Spec
<1>8. DispatchTypeOK /\ Ring!TypeOK /\ Readback!TypeOK /\ Zone!TypeOK /\ Diy!TypeOK => AllTypeOK
  BY DEF AllTypeOK
<1> QED BY <1>1, <1>2, <1>3, <1>5, <1>7, <1>8, LampPartsAreWhole, PTL
=============================================================================
