----------------------------- MODULE OptionsFlow -----------------------------
(* The options flow (GoveeOptionsFlow, config_flow.py 741-1249): dialogs open  *)
(* side by side, each seeded from the options when its form was shown and      *)
(* saving all of them at its end, beside the repair that writes one option and *)
(* the reloads that take devices away under an open dialog.                    *)
EXTENDS Naturals

CONSTANTS
    Dialogs,        \* dialogs
    Lights,         \* devices with segments
    Kettles,        \* kettles with custom slots
    Modes,          \* segment modes; with its groups and count a mode is one value
    Labels,         \* slot labels of a kettle
    None,           \* no labels
    MaxInterval,    \* MAX_POLL_INTERVAL
    MaxReloads      \* bound: changes of what is loaded

VARIABLES
    options,        \* entry.options: the poll interval, the modes, the labels
    loaded,         \* the coordinator's devices
    registered,     \* kettles in the device registry
    at,             \* the form a dialog shows
    form,           \* the interval shown or entered (_global_options)
    walk,           \* the devices still to walk through
    edits,          \* _device_modes
    labels,         \* _slot_labels
    touched,        \* (history) what the dialog's user changed
    reloads

dialog == <<at, form, walk, edits, labels, touched>>
vars == <<options, loaded, registered, dialog, reloads>>

Options ==
    [interval : 1..MaxInterval, modes : [Lights -> Modes], labels : [Kettles -> Labels \cup {None}]]
NoEdits == [d \in {} |-> 0]
Over(f, g) == [d \in DOMAIN f |-> IF d \in DOMAIN g THEN g[d] ELSE f[d]]

Init ==
    /\ \E m \in Modes :
        options = [interval |-> 1, modes |-> [d \in Lights |-> m], labels |-> [k \in Kettles |-> None]]
    /\ loaded = Lights \cup Kettles /\ registered = Kettles
    /\ at = [f \in Dialogs |-> "new"] /\ form = [f \in Dialogs |-> 1]
    /\ walk = [f \in Dialogs |-> {}] /\ edits = [f \in Dialogs |-> NoEdits]
    /\ labels = [f \in Dialogs |-> NoEdits] /\ touched = [f \in Dialogs |-> {}]
    /\ reloads = 0

Shows(f, where) == at' = [at EXCEPT ![f] = where]

\* async_step_init and async_step_general: the form is seeded from the options.
OpenGeneral(f) ==
    /\ at[f] = "new"
    /\ form' = [form EXCEPT ![f] = options.interval]
    /\ Shows(f, "general")
    /\ UNCHANGED <<options, loaded, registered, walk, edits, labels, touched, reloads>>

\* _saved_slot_labels: only kettles gone from the registry lose theirs.
SavedLabels == [k \in Kettles |-> IF k \in registered THEN options.labels[k] ELSE None]

\* The menu offers the kettles that are loaded; the labels are taken now.
OpenKettles(f) ==
    /\ at[f] = "new" /\ loaded \cap Kettles # {}
    /\ walk' = [walk EXCEPT ![f] = loaded \cap Kettles]
    /\ labels' = [labels EXCEPT ![f] = SavedLabels]
    /\ Shows(f, "kettle")
    /\ UNCHANGED <<options, loaded, registered, form, edits, touched, reloads>>

-------------------------------------------------------------------------------

\* Bug: the saved modes of devices that were not walked through are dropped.
EditsAlone(f) == Over([d \in Lights |-> CHOOSE m \in Modes : TRUE], edits[f])

\* _options_with_segment_modes: the modes of now, with the dialog's edits.
WithModes(f) == Over(options.modes, edits'[f])

\* _async_finish: saving replaces all the options, so what this dialog is not about
\* is carried over as it is now.
SaveGeneral(f) ==
    /\ options' = [interval |-> form'[f], modes |-> WithModes(f), labels |-> SavedLabels]
    /\ Shows(f, "closed")

SaveOr(f, done, next) ==
    IF done THEN SaveGeneral(f) ELSE Shows(f, next) /\ UNCHANGED options

\* The general form is submitted; a bad LAN target only shows it again.
EnterGeneral(f, i) ==
    /\ at[f] = "general"
    /\ form' = [form EXCEPT ![f] = i]
    /\ UNCHANGED <<loaded, registered, walk, edits, labels, touched, reloads>>
    /\ SaveOr(f, loaded \cap Lights = {}, "select")

\* async_step_select_segment_devices: with none selected, the general options alone.
Select(f, chosen) ==
    /\ at[f] = "select" /\ chosen \subseteq loaded \cap Lights
    /\ walk' = [walk EXCEPT ![f] = chosen]
    /\ UNCHANGED <<loaded, registered, form, edits, labels, touched, reloads>>
    /\ SaveOr(f, chosen = {}, "device")

\* async_step_configure_device_mode: one device after the other, loaded or not.
EnterMode(f, d, m) ==
    /\ at[f] = "device" /\ d \in walk[f]
    /\ edits' = [edits EXCEPT ![f] = [x \in DOMAIN @ \cup {d} |-> IF x = d THEN m ELSE @[x]]]
    /\ touched' = [touched EXCEPT ![f] = @ \cup {d}]
    /\ walk' = [walk EXCEPT ![f] = @ \ {d}]
    /\ UNCHANGED <<loaded, registered, form, labels, reloads>>
    /\ SaveOr(f, walk'[f] = {}, "device")

\* async_step_kettle_slots: a kettle that is not loaded any more ends the dialog;
\* the last one saves the labels into the options of now.
EnterLabels(f, k, new) ==
    /\ at[f] = "kettle" /\ k \in walk[f] \cap loaded
    /\ labels' = [labels EXCEPT ![f] = [@ EXCEPT ![k] = new]]
    /\ touched' = [touched EXCEPT ![f] = @ \cup {k}]
    /\ walk' = [walk EXCEPT ![f] = @ \ {k}]
    /\ IF walk'[f] = {}
       THEN options' = [options EXCEPT !.labels = labels'[f]] /\ Shows(f, "closed")
       ELSE UNCHANGED <<options, at>>
    /\ UNCHANGED <<loaded, registered, form, edits, reloads>>

KettleGone(f) ==
    /\ at[f] = "kettle" /\ walk[f] \ loaded # {}
    /\ Shows(f, "closed")
    /\ UNCHANGED <<options, loaded, registered, form, walk, edits, labels, touched, reloads>>

-------------------------------------------------------------------------------

\* RateLimitRepairFlow: the interval doubles, the rest stays.
Repaired ==
    /\ options.interval < MaxInterval
    /\ options' = [options EXCEPT !.interval = IF 2 * @ < MaxInterval THEN 2 * @ ELSE MaxInterval]
    /\ UNCHANGED <<loaded, registered, dialog, reloads>>

\* A reload finds other devices, or none while it is under way; a kettle is removed.
Reloaded ==
    /\ reloads < MaxReloads /\ reloads' = reloads + 1
    /\ loaded' \in SUBSET (Lights \cup registered)
    /\ UNCHANGED <<options, registered, dialog>>

Removed(k) ==
    /\ reloads < MaxReloads /\ reloads' = reloads + 1
    /\ k \in registered \ loaded
    /\ registered' = registered \ {k}
    /\ UNCHANGED <<options, loaded, dialog>>

Next ==
    \/ \E f \in Dialogs :
        \/ OpenGeneral(f) \/ OpenKettles(f) \/ KettleGone(f)
        \/ \E i \in {form[f], MaxInterval} : EnterGeneral(f, i)
        \/ \E chosen \in SUBSET Lights : Select(f, chosen)
        \/ \E d \in Lights, m \in Modes : EnterMode(f, d, m)
        \/ \E k \in Kettles, new \in Labels \cup {None} : EnterLabels(f, k, new)
    \/ Repaired \/ Reloaded
    \/ \E k \in Kettles : Removed(k)

Spec == Init /\ [][Next]_vars

-------------------------------------------------------------------------------
(* Properties. *)

TypeOK ==
    /\ options \in Options
    /\ loaded \subseteq Lights \cup Kettles /\ registered \subseteq Kettles
    /\ \A f \in Dialogs :
        /\ at[f] \in {"new", "general", "select", "device", "kettle", "closed"}
        /\ form[f] \in 1..MaxInterval /\ walk[f] \subseteq Lights \cup Kettles
        /\ DOMAIN edits[f] \subseteq Lights /\ DOMAIN labels[f] \subseteq Kettles
        /\ touched[f] \subseteq Lights \cup Kettles
    /\ reloads \in 0..MaxReloads

\* A dialog that saves changes nothing but what its user went through, whatever was
\* saved while it was open: another light's mode and a registered kettle's labels
\* stay as they are now, and a labels dialog leaves the interval alone.
OthersKept(f) ==
    /\ \A d \in Lights \ touched'[f] : options'.modes[d] = options.modes[d]
    /\ at[f] = "kettle" => options'.interval = options.interval
    /\ at[f] # "kettle" => \A k \in registered : options'.labels[k] = options.labels[k]

EditsOfOthersKept == [][\A f \in Dialogs : at'[f] # at[f] => OthersKept(f)]_vars
==============================================================================
