---------------------------- MODULE ConfirmPromise ----------------------------
(***************************************************************************)
(* What the command confirmer promises, without tasks, reports or queries: *)
(* each field of a light has at most one command under watch, a command    *)
(* ends the watch of every field it makes stale as it is issued, and only  *)
(* a watched command may be sent a second time, once.                      *)
(***************************************************************************)
EXTENDS Sequences

CONSTANTS Calls, Fields, NoCall

VARIABLES
    asked,      \* the fields of the commands issued so far
    watch,      \* the command under watch for each field
    again       \* the commands that were sent a second time

Init == asked = <<>> /\ watch = [f \in Fields |-> NoCall] /\ again = {}

\* What a command of field f makes stale.
Stale(f) == {g \in Fields : f = "power" \/ g = f \/ {f, g} = {"color", "color_temp"}}

Forgotten(S) == [g \in Fields |-> IF g \in S THEN NoCall ELSE watch[g]]

Issue(f)    == asked' = Append(asked, f) /\ watch' = Forgotten(Stale(f)) /\ UNCHANGED again
Watch(f, c) == c \notin again /\ watch' = [watch EXCEPT ![f] = c] /\ UNCHANGED <<asked, again>>
Forget(S)   == watch' = Forgotten(S) /\ UNCHANGED <<asked, again>>
Resend(f)   ==
    /\ watch[f] \in Calls \ again
    /\ again' = again \cup {watch[f]}
    /\ UNCHANGED <<asked, watch>>

Next ==
    \/ \E f \in Fields : Issue(f) \/ Resend(f) \/ \E c \in Calls : Watch(f, c)
    \/ \E S \in SUBSET Fields : Forget(S)

Spec == Init /\ [][Next]_<<asked, watch, again>>
=============================================================================
