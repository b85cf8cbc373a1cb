---------------------------- MODULE RecordingMC ----------------------------
(* One recording; a note it may be aimed at, and a new one. *)
EXTENDS Recording
CONSTANTS r1, n1, new
MCRecs == {r1}
MCTargets == {n1, new}
=============================================================================
