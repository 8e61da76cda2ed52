-------------------------- MODULE MCEntryLifecycle --------------------------
(* One leak sensor and one light for TLC. *)
EXTENDS EntryLifecycle

CONSTANTS light, leaks
=============================================================================
