---------------------------- MODULE NoteSyncMC -----------------------------
(* Two words to type, two visits to the note. *)
EXTENDS NoteSync
MCOwn == 1..2
MCVisits == 1..2
=============================================================================
