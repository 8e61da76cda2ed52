------------------------------ MODULE ConfigFlow ------------------------------
(* The config flow (config_flow.py): the flows that create, re-authenticate   *)
(* and reconfigure entries, each waiting for the API, the login and the user, *)
(* beside each other and beside the logins of the entries themselves.  An     *)
(* entry's data are its key, its account and the credentials of its last      *)
(* login; credentials are the account they are of and their serial number.    *)
EXTENDS Naturals

CONSTANTS
    Entries,        \* config entries there can be
    Flows,          \* flows
    Keys,           \* API keys
    Accounts,       \* accounts (email and password)
    None,           \* no key, account or credentials
    MaxLogins       \* bound: answered logins

VARIABLES
    data,           \* what each entry stores, None if there is no such entry
    at,             \* the form a flow shows or the answer it waits for
    kind,           \* "user", "reauth" or "reconfigure"
    target,         \* the entry a flow is about
    key,            \* the key entered
    choice,         \* the account entered
    typed,          \* _email and _password in the account form: kept when no code was sent
    draft,          \* new_data, taken before the login is awaited
    login,          \* per entry: the account its own login was begun with
    serial,         \* logins answered so far
    crossed,        \* (history) entries whose own login ended under another account
    overlapped      \* (history) keys that two flows were busy with at once

flow == <<at, kind, target, key, choice, typed, draft>>
vars == <<data, flow, login, serial, crossed, overlapped>>

Creds == [of : Accounts, n : 0..MaxLogins]
Data == [key : Keys, account : Accounts \cup {None}, creds : Creds \cup {None}]
Kinds == {"user", "reauth", "reconfigure"}
Exists(e) == data[e] # None
Waiting == {"validating", "login", "verifying"}

Init ==
    /\ data \in {[e \in Entries |-> IF e = first THEN [key |-> k, account |-> a, creds |-> [of |-> a, n |-> 0]] ELSE None] :
                    first \in Entries, k \in Keys, a \in Accounts}
    /\ at = [f \in Flows |-> "new"] /\ kind = [f \in Flows |-> "user"]
    /\ target = [f \in Flows |-> None] /\ key = [f \in Flows |-> None]
    /\ choice = [f \in Flows |-> None] /\ typed = [f \in Flows |-> None]
    /\ draft = [f \in Flows |-> None]
    /\ login = [e \in Entries |-> None] /\ serial = 0
    /\ crossed = {} /\ overlapped = {}

Goes(f, where) == at' = [at EXCEPT ![f] = where]
NewCreds(a) == [of |-> a, n |-> serial + 1]
Answered == serial < MaxLogins /\ serial' = serial + 1

-------------------------------------------------------------------------------
(* A flow begins: its form is filled in and the key is looked for. *)

\* Bug: any entry may take any key.
KeyUnchecked(k, own) == TRUE

\* _async_abort_entries_match and _abort_if_key_used_elsewhere
KeyFree(k, own) == \A e \in Entries \ {own} : Exists(e) => data[e].key # k

Busy(f, k) == at[f] \notin {"new", "closed"} /\ key[f] = k

\* The account a reconfigure names is fixed by the same form: one, none, or the
\* stored one left as it is ("kept").
Submit(f, how, own, k, a) ==
    /\ at[f] \in {"new", "form"}
    /\ at[f] = "form" => kind[f] = how /\ target[f] = own
    /\ how = "user" <=> own = None
    /\ how # "user" => Exists(own)
    /\ how # "reconfigure" => a = None
    /\ KeyFree(k, own)
    /\ kind' = [kind EXCEPT ![f] = how] /\ target' = [target EXCEPT ![f] = own]
    /\ key' = [key EXCEPT ![f] = k] /\ choice' = [choice EXCEPT ![f] = a]
    /\ overlapped' = overlapped \cup (IF \E g \in Flows \ {f} : Busy(g, k) THEN {k} ELSE {})
    /\ Goes(f, "validating")
    /\ UNCHANGED <<data, typed, draft, login, serial, crossed>>

\* A rejected key, an unreachable API, a refused or failed login: the form again.
Refused(f) ==
    /\ at[f] \in Waiting
    /\ Goes(f, CASE at[f] = "validating" -> "form"
                 [] at[f] = "login"      -> IF kind[f] = "user" THEN "account" ELSE "form"
                 [] at[f] = "verifying"  -> "code")
    /\ UNCHANGED <<data, kind, target, key, choice, typed, draft, login, serial, crossed, overlapped>>

-------------------------------------------------------------------------------
(* How a flow ends. *)

Closed(f) ==
    /\ Goes(f, "closed") /\ kind' = [kind EXCEPT ![f] = "user"] /\ target' = [target EXCEPT ![f] = None]
    /\ key' = [key EXCEPT ![f] = None] /\ choice' = [choice EXCEPT ![f] = None]
    /\ typed' = [typed EXCEPT ![f] = None] /\ draft' = [draft EXCEPT ![f] = None]

\* _create_entry, with the credentials the flow already has.
Create(f, a, creds) ==
    /\ \E e \in Entries :
        /\ ~Exists(e)
        /\ data' = [data EXCEPT ![e] = [key |-> key[f], account |-> a, creds |-> creds]]
    /\ Closed(f)

\* Bug: the draft still has the credentials of before (#178, #179).
Unsynced(new, creds) == new

\* _clear_mqtt_cache, _cache_iot_credentials and _sync_cached_creds: whatever the
\* draft was taken from, the credentials stored are the flow's own or none.
Synced(new, creds) == [new EXCEPT !.creds = creds]

Replace(f, new) ==
    /\ data' = [data EXCEPT ![target[f]] = new]
    /\ Closed(f)

-------------------------------------------------------------------------------
(* The answers. *)

\* validate_api_key: on to the account step.
UserKeyValid(f) ==
    /\ at[f] = "validating" /\ kind[f] = "user"
    /\ Goes(f, "account")
    /\ UNCHANGED <<data, kind, target, key, choice, typed, draft, login, serial, crossed, overlapped>>

\* Reauth: only the key changes (data_updates), and the entry reloads.
ReauthKeyValid(f) ==
    /\ at[f] = "validating" /\ kind[f] = "reauth"
    /\ Replace(f, [data[target[f]] EXCEPT !.key = key[f]])
    /\ UNCHANGED <<login, serial, crossed, overlapped>>

\* Reconfigure: the draft is the entry as it is now, and with a password the
\* login is awaited; without one the account is kept or removed at once.
Draft(f) == [data[target[f]] EXCEPT !.key = key[f]]

ReconfigureKeyValid(f) ==
    /\ at[f] = "validating" /\ kind[f] = "reconfigure" /\ choice[f] # None
    /\ draft' = [draft EXCEPT ![f] = Draft(f)]
    /\ Goes(f, "login")
    /\ UNCHANGED <<data, kind, target, key, choice, typed, login, serial, crossed, overlapped>>

ReconfigureWithoutLogin(f) ==
    /\ at[f] = "validating" /\ kind[f] = "reconfigure" /\ choice[f] = None
    /\ \E a \in {None, data[target[f]].account} :
        Replace(f, Synced([Draft(f) EXCEPT !.account = a], None))
    /\ UNCHANGED <<login, serial, crossed, overlapped>>

\* Without an account, or with the one a code could not be sent for: the flow
\* still has it, and no login answered for it.
AccountSkipped(f) ==
    /\ at[f] = "account"
    /\ Create(f, typed[f], None)
    /\ UNCHANGED <<login, serial, crossed, overlapped>>

AccountEntered(f, a) ==
    /\ at[f] = "account"
    /\ choice' = [choice EXCEPT ![f] = a]
    /\ Goes(f, "login")
    /\ UNCHANGED <<data, kind, target, key, typed, draft, login, serial, crossed, overlapped>>

\* Govee asks for a code, which is sent.
CodeWanted(f) ==
    /\ at[f] = "login"
    /\ Goes(f, "code")
    /\ UNCHANGED <<data, kind, target, key, choice, typed, draft, login, serial, crossed, overlapped>>

\* The code cannot be sent: the account form again, but the flow has kept the
\* account.  (A reconfigure does so too, and reads it only after a code: Refused.)
CodeNotSent(f) ==
    /\ at[f] = "login" /\ kind[f] = "user"
    /\ typed' = [typed EXCEPT ![f] = choice[f]]
    /\ Goes(f, "account")
    /\ UNCHANGED <<data, kind, target, key, choice, draft, login, serial, crossed, overlapped>>

CodeEntered(f) ==
    /\ at[f] = "code"
    /\ Goes(f, "verifying")
    /\ UNCHANGED <<data, kind, target, key, choice, typed, draft, login, serial, crossed, overlapped>>

\* The login is answered.  After a code the draft is taken anew.
LoggedIn(f) ==
    /\ at[f] \in {"login", "verifying"} /\ Answered
    /\ LET creds == NewCreds(choice[f])
           new == IF at[f] = "login" THEN draft[f] ELSE Draft(f)
       IN IF kind[f] = "user"
          THEN Create(f, choice[f], creds)
          ELSE Replace(f, Synced([new EXCEPT !.account = choice[f]], creds))
    /\ UNCHANGED <<login, crossed, overlapped>>

\* The user closes the dialog.
Dismiss(f) ==
    /\ at[f] \in {"form", "account", "code"}
    /\ Closed(f)
    /\ UNCHANGED <<data, login, serial, crossed, overlapped>>

-------------------------------------------------------------------------------
(* The entry's own logins: at setup without credentials, and when its token   *)
(* has expired.                                                               *)

OwnLogin(e) ==
    /\ Exists(e) /\ data[e].account # None /\ login[e] = None
    /\ login' = [login EXCEPT ![e] = data[e].account]
    /\ UNCHANGED <<data, flow, serial, crossed, overlapped>>

\* _persist_iot_credentials and _persist_refreshed_credentials write into the data
\* of then.
OwnLoginAnswered(e) ==
    /\ login[e] # None /\ Answered
    /\ data' = [data EXCEPT ![e].creds = NewCreds(login[e])]
    /\ crossed' = IF data[e].account # login[e] THEN crossed \cup {e} ELSE crossed
    /\ login' = [login EXCEPT ![e] = None]
    /\ UNCHANGED <<flow, overlapped>>

OwnLoginFails(e) ==
    /\ login[e] # None
    /\ login' = [login EXCEPT ![e] = None]
    /\ UNCHANGED <<data, flow, serial, crossed, overlapped>>

Next ==
    \/ \E f \in Flows, own \in Entries \cup {None}, k \in Keys, a \in Accounts \cup {None} :
        \E how \in Kinds : Submit(f, how, own, k, a)
    \/ \E f \in Flows :
        \/ Refused(f) \/ UserKeyValid(f) \/ ReauthKeyValid(f) \/ ReconfigureKeyValid(f)
        \/ ReconfigureWithoutLogin(f) \/ AccountSkipped(f) \/ CodeWanted(f) \/ CodeNotSent(f)
        \/ CodeEntered(f) \/ LoggedIn(f) \/ Dismiss(f)
    \/ \E f \in Flows, a \in Accounts : AccountEntered(f, a)
    \/ \E e \in Entries : OwnLogin(e) \/ OwnLoginAnswered(e) \/ OwnLoginFails(e)

Spec == Init /\ [][Next]_vars

-------------------------------------------------------------------------------
(* Properties. *)

TypeOK ==
    /\ \A e \in Entries : Exists(e) => data[e] \in Data
    /\ \A f \in Flows :
        /\ at[f] \in {"new", "closed", "form", "account", "code"} \cup Waiting
        /\ kind[f] \in Kinds /\ target[f] \in Entries \cup {None}
        /\ key[f] \in Keys \cup {None} /\ choice[f] \in Accounts \cup {None}
        /\ typed[f] \in Accounts \cup {None} /\ draft[f] # None => draft[f] \in Data
    /\ \A e \in Entries : login[e] \in Accounts \cup {None}
    /\ serial \in 0..MaxLogins /\ crossed \subseteq Entries /\ overlapped \subseteq Keys

\* The credentials an entry stores are of the account it names: a flow never
\* leaves the old account's beside the new.  (Only the entry's own login, begun
\* before and answered after, does.)
CredentialsMatch ==
    \A e \in Entries :
        (Exists(e) /\ data[e].creds # None /\ e \notin crossed) => data[e].creds.of = data[e].account

\* Two entries have one key only when two flows were busy with it at once.
KeysAreApart ==
    \A d, e \in Entries :
        (d # e /\ Exists(d) /\ Exists(e) /\ data[d].key = data[e].key) => data[d].key \in overlapped

\* Credentials are never replaced by those of an earlier login, whichever flow
\* or login ends last.
NewestCredentialsStay ==
    \A e \in Entries :
        (Exists(e) /\ data[e].creds # None /\ data'[e].creds # None) => data[e].creds.n <= data'[e].creds.n

DataAreSound == [](CredentialsMatch /\ KeysAreApart) /\ [][NewestCredentialsStay]_vars
===============================================================================
