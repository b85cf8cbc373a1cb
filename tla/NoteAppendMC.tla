----------------------------- MODULE NoteAppendMC -----------------------------
EXTENDS NoteAppend
=============================================================================
