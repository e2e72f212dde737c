-------------------------- MODULE MCEntryProtection --------------------------
(* Instances of EntryProtection for TLC. *)
EXTENDS EntryProtection
=============================================================================
