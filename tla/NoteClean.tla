----------------------------- MODULE NoteClean -----------------------------
(***************************************************************************)
(* The rewrite of a whole note, from the tap to the words on the screen.   *)
(* The screen asks (useTidyList.ts, CleanedPanel.tsx), the server stamps   *)
(* the request and hands it to a worker (service/note_clean.go), the run   *)
(* reads the body, calls the model and writes the view on the note's row   *)
(* (pipeline/clean_note.go), and the screen, which was told nothing but    *)
(* "accepted", polls the note until the view differs from the one it had.  *)
(* A checklist's view is then written over the list itself, if the list is *)
(* still the one the view was made from.                                   *)
(***************************************************************************)
EXTENDS Integers, FiniteSets

CONSTANTS
  Typed,       \* words the person may type
  ProseModes,  \* what the Cleaned tab offers
  MaxCalls,    \* clean requests the screen makes
  MaxActs,     \* words typed, conversions, departures
  MaxMishaps,  \* lost reads, failed runs and hand-offs, lapsed stamps
  Windows      \* races a run lets happen: "torn", "glimpsed"

VARIABLES
  note,      \* the server's: body, version, view, stamp
  runs,      \* the worker's clean-note runs, by the order they were asked for
  copy,      \* the note as the screen's cache holds it
  editor,    \* draft, last saved, version, and the conflict it may be in
  save,      \* the PATCH in the air
  tidy,      \* the entry of `pending`
  panel,     \* the Cleaned tab's `queued`
  calls,     \* POST .../clean
  read,      \* GET of the note
  undo,      \* the toast's
  here,      \* the note is on the screen
  acts, mishaps,
  given,     \* history: words the person gave up in a conflict
  needless   \* history: a tidied list refused for a version the screen had seen

vars == <<note, runs, copy, editor, save, tidy, panel, calls, read, undo, here, acts, mishaps,
          given, needless>>

Modes == ProseModes \cup {"tasks"}
Runs == 1..(MaxCalls + 1)
Calls == 1..MaxCalls
Words == Typed \cup {"first", "spoken"}

\* A body is its words, those of them set out as items, and whether it is a list.
Bodies == [words : SUBSET Words, tidied : SUBSET Words, list : BOOLEAN]
NoBody == [words |-> {}, tidied |-> {}, list |-> FALSE]
NoView == [at |-> 0, by |-> 0, of |-> NoBody, mode |-> "none", stale |-> FALSE, error |-> FALSE]
NoStamp == [req |-> 0, mode |-> "none", young |-> FALSE]
Ended(st) == [mode |-> "none", st |-> st, of |-> NoBody, version |-> 0, ok |-> FALSE,
              moved |-> FALSE]
Unrun == Ended("unused")
NoSave == [st |-> "no", body |-> NoBody, version |-> 0, knew |-> 0, stamp |-> NoStamp,
           view |-> NoView, again |-> FALSE]
NoTidy == [on |-> FALSE, before |-> NoView, late |-> FALSE]
NoPanel == [st |-> "idle", before |-> NoView]
NoCall == [st |-> "unused", by |-> "none", mode |-> "none"]
NoUndo == [on |-> FALSE, written |-> NoBody, previous |-> NoBody]
NoTheirs == [body |-> NoBody, version |-> 0]
NoRead == [st |-> "no", got |-> [body |-> NoBody, version |-> 0, view |-> NoView], last |-> FALSE]

(* A list's view is the same words as items; a prose view is nobody's body. *)
Made(of, mode) == IF mode = "tasks" THEN [of EXCEPT !.tidied = of.words] ELSE NoBody
ViewIs(view, body) == view.of # NoBody /\ Made(view.of, view.mode) = body
Detail == [body |-> note.body, version |-> note.version, view |-> note.view]

-----------------------------------------------------------------------------
(* The server: the request, its stamp, and the run *)

EffectiveCleanMode == IF note.body.list THEN "tasks" ELSE "structured"
CheckCleanMode(mode) == (mode = "tasks") = note.body.list

(* MarkCleanedStale, or the view adopted as the body. *)
Marked(view, body) == [view EXCEPT !.stale = view.at # 0 /\ ~ViewIs(view, body)]

NextRun == CHOOSE r \in Runs : runs[r] = Unrun /\ \A q \in Runs : runs[q] = Unrun => r <= q
Queued(mode) == runs' = [runs EXCEPT ![NextRun] = [Unrun EXCEPT !.mode = mode, !.st = "queued"]]
InFlight(mode) == note.stamp.mode = mode /\ note.stamp.young
Stamped(mode) == [req |-> NextRun, mode |-> mode, young |-> TRUE]

\* cleanSettled: the view has moved, or carries a new error.
Settled(before, after) ==
  /\ after.at # 0
  /\ \/ before.at = 0
     \/ after.at # before.at
     \/ after.error /\ ~before.error
     \/ before.stale /\ ~after.stale

\* What the screen makes of the answer.  202: a panel begins to wait.  Anything
\* else ends the wait, whoever's it is.
Told(k, ok) ==
  /\ calls' = [calls EXCEPT ![k].st = "over"]
  /\ IF calls[k].by = "panel"
     THEN /\ panel' = IF panel.st # "asking" THEN panel
                      ELSE IF ok /\ ~Settled(panel.before, copy.view)
                      THEN [panel EXCEPT !.st = "queued"] ELSE NoPanel
          /\ UNCHANGED tidy
     ELSE tidy' = (IF ok THEN tidy ELSE NoTidy) /\ UNCHANGED panel

\* POST .../clean and its answer: joins a young run in the same mode, or
\* supersedes what is there.
Serve(k) ==
  LET mode == IF calls[k].mode = "none" THEN EffectiveCleanMode ELSE calls[k].mode
  IN /\ calls[k].st = "asked"
     /\ IF ~CheckCleanMode(mode) THEN Told(k, FALSE) /\ UNCHANGED <<note, runs, mishaps>>
        ELSE IF InFlight(mode) THEN Told(k, TRUE) /\ UNCHANGED <<note, runs, mishaps>>
        ELSE \/ /\ Told(k, TRUE) /\ Queued(mode)
                /\ note' = [note EXCEPT !.stamp = Stamped(mode)] /\ UNCHANGED mishaps
             \/ \* The hand-off fails: the stamp is taken back.
                /\ mishaps < MaxMishaps /\ mishaps' = mishaps + 1 /\ Told(k, FALSE)
                /\ runs' = [runs EXCEPT ![NextRun] = Ended("dead")]
                /\ note' = [note EXCEPT !.stamp = NoStamp]
     /\ UNCHANGED <<copy, editor, save, read, undo, here, acts, given, needless>>

Superseded(r) == note.stamp.mode # runs[r].mode \/ note.stamp.req # r

\* The row, then the body; or nothing, for a run replaced before it began.
RunReads(r) ==
  /\ runs[r].st = "queued"
  /\ runs' = [runs EXCEPT ![r] =
       IF Superseded(r) THEN Ended("yielded")
       ELSE [@ EXCEPT !.st = "read", !.of = note.body, !.version = note.version]]
  /\ UNCHANGED <<note, copy, editor, save, tidy, panel, calls, read, undo, here, acts, mishaps,
                 given, needless>>

\* The model answers, usably or not; then the body's ETag is read again.
RunAnswers(r, ok) ==
  /\ runs[r].st = "read"
  /\ runs' = [runs EXCEPT ![r].st = "answered", ![r].ok = ok,
                          ![r].moved = ok /\ note.body # runs[r].of]
  /\ UNCHANGED <<note, copy, editor, save, tidy, panel, calls, read, undo, here, acts, mishaps,
                 given, needless>>

Stale(r) == runs[r].moved \/ note.version # runs[r].version

Verdict(r) ==
  IF runs[r].ok
  THEN [at |-> r, by |-> r, of |-> runs[r].of, mode |-> runs[r].mode, stale |-> Stale(r),
        error |-> FALSE]
  ELSE IF note.view.of = NoBody
  THEN [NoView EXCEPT !.at = r, !.by = r, !.mode = runs[r].mode, !.error = TRUE]
  ELSE [note.view EXCEPT !.by = r, !.error = TRUE]

\* "torn": a run's write of the row between a save's write of the body and its
\* write of the row, which is then refused and marks nothing.
Untorn(r) == save.st # "half" \/ Superseded(r)

RunWrites(r) ==
  /\ runs[r].st = "answered"
  /\ "torn" \in Windows \/ Untorn(r)
  /\ IF Superseded(r)
     THEN runs' = [runs EXCEPT ![r] = Ended("yielded")] /\ UNCHANGED note
     ELSE /\ runs' = [runs EXCEPT ![r] = Ended("wrote")]
          /\ note' = [note EXCEPT !.view = Verdict(r), !.version = @ + 1]
  /\ UNCHANGED <<copy, editor, save, tidy, panel, calls, read, undo, here, acts, mishaps,
                 given, needless>>

\* ClearCleanStamp, if the stamp is still this run's; it may fail and linger.
RunClears(r) ==
  /\ runs[r].st = "wrote"
  /\ runs' = [runs EXCEPT ![r] = Ended("done")]
  /\ \/ /\ note' = [note EXCEPT !.stamp = IF @.req = r THEN NoStamp ELSE @]
        /\ UNCHANGED mishaps
     \/ mishaps < MaxMishaps /\ mishaps' = mishaps + 1 /\ UNCHANGED note
  /\ UNCHANGED <<copy, editor, save, tidy, panel, calls, read, undo, here, acts, given, needless>>

\* The invocation fails: delivered again, or given up.
RunFails(r) ==
  /\ runs[r].st \in {"queued", "read", "answered"}
  /\ mishaps < MaxMishaps /\ mishaps' = mishaps + 1
  /\ \/ runs' = [runs EXCEPT ![r] = [Ended("queued") EXCEPT !.mode = runs[r].mode]]
     \/ runs' = [runs EXCEPT ![r] = Ended("dead")]
  /\ UNCHANGED <<note, copy, editor, save, tidy, panel, calls, read, undo, here, acts, given,
                 needless>>

\* CleanNoteTimeout passes over a stamp.
StampAges ==
  /\ note.stamp.young /\ mishaps < MaxMishaps /\ mishaps' = mishaps + 1
  /\ note' = [note EXCEPT !.stamp.young = FALSE]
  /\ UNCHANGED <<runs, copy, editor, save, tidy, panel, calls, read, undo, here, acts, given,
                 needless>>

\* A recording's words land; a prose note that asks for it is cleaned again,
\* over whatever run is going.
Append ==
  /\ "spoken" \notin note.body.words \cup given
  /\ LET body == [note.body EXCEPT !.words = @ \cup {"spoken"}]
         moved == [note EXCEPT !.body = body, !.version = @ + 1, !.view = Marked(@, body)]
     IN IF body.list THEN note' = moved /\ UNCHANGED runs
        ELSE Queued("structured") /\ note' = [moved EXCEPT !.stamp = Stamped("structured")]
  /\ UNCHANGED <<copy, editor, save, tidy, panel, calls, read, undo, here, acts, mishaps, given,
                 needless>>

-----------------------------------------------------------------------------
(* The PATCH: version, body, row *)

PatchBody ==
  /\ save.st = "asked"
  /\ IF note.version # save.version
     THEN /\ save' = [save EXCEPT !.st = "refused"] /\ UNCHANGED note
          /\ needless' = (needless \/ save.knew = note.version)
     ELSE /\ note' = [note EXCEPT !.body = save.body]
          /\ save' = [save EXCEPT !.st = "half", !.stamp = note.stamp,
                        !.view = IF save.body = note.body THEN note.view
                                 ELSE Marked(note.view, save.body)]
          /\ UNCHANGED needless
  /\ UNCHANGED <<runs, copy, editor, tidy, panel, calls, read, undo, here, acts, mishaps, given>>

\* putCarryingStamp: a tap since the row was read keeps its stamp.
Carried(stamp) == note.stamp

PatchRow ==
  /\ save.st = "half"
  /\ IF note.version # save.version
     THEN save' = [save EXCEPT !.st = "refused"] /\ UNCHANGED note
     ELSE /\ note' = [note EXCEPT !.version = @ + 1, !.view = save.view,
                                  !.stamp = Carried(save.stamp)]
          /\ save' = [save EXCEPT !.st = "served", !.version = note.version + 1,
                                  !.stamp = NoStamp, !.knew = 0]
  /\ UNCHANGED <<runs, copy, editor, tidy, panel, calls, read, undo, here, acts, mishaps, given,
                 needless>>

-----------------------------------------------------------------------------
(* The screen: the editor, as far as a rewrite meets it *)

Dirty(e) == e.draft # e.saved
Sent(e) ==
  IF Dirty(e) /\ e.theirs.version = 0
  THEN [NoSave EXCEPT !.st = "asked", !.body = e.draft, !.version = e.version]
  ELSE NoSave

Edit(draft) == editor' = [editor EXCEPT !.draft = draft]
Settling == here /\ editor.theirs.version = 0

Type(w) ==
  /\ Settling /\ acts < MaxActs /\ acts' = acts + 1
  /\ w \notin editor.draft.words \cup note.body.words \cup given
  /\ Edit([editor.draft EXCEPT !.words = @ \cup {w}])
  /\ UNCHANGED <<note, runs, copy, save, tidy, panel, calls, read, undo, here, mishaps, given,
                 needless>>

\* The debounce, or a blur.
Autosave ==
  /\ save = NoSave /\ Sent(editor) # NoSave
  /\ save' = Sent(editor)
  /\ UNCHANGED <<note, runs, copy, editor, tidy, panel, calls, read, undo, here, acts, mishaps,
                 given, needless>>

(***************************************************************************)
(* A copy of the note reaches the screen.  The tidy's effect runs first,   *)
(* the editor's own after it.                                              *)
(***************************************************************************)

\* Mutant: what was typed while the model ran is not looked at.
TakesMutant(c, e) ==
  /\ ~c.view.error /\ e.draft.list /\ ~c.view.stale /\ c.view.mode = "tasks"
  /\ Made(c.view.of, "tasks") # e.draft

\* The answer is written over the list only while the list is what it was made from.
Takes(c, e) ==
  /\ ~c.view.error /\ e.draft.list /\ ~c.view.stale /\ c.view.mode = "tasks"
  /\ e.draft = c.body
  /\ Made(c.view.of, "tasks") # e.draft

\* The version moved without the words.
Adopt(c, e) == IF c.body = e.saved THEN [e EXCEPT !.version = c.version] ELSE e

Synced(c, e, free) ==
  IF c.version <= e.version THEN e
  ELSE IF free /\ ~Dirty(e) THEN [e EXCEPT !.draft = c.body, !.saved = c.body,
                                           !.version = c.version]
  ELSE IF free THEN Adopt(c, e) ELSE e

Applied(c, e) == [Adopt(c, e) EXCEPT !.draft = Made(c.view.of, "tasks")]

\* The last look has come, and this is it.
GivesUp(c) == read.last /\ tidy.late

\* `free`: no save is on the wire; `looked`: this is a read's answer.
Shown(c, e, free, looked) ==
  LET settles == tidy.on /\ Settled(tidy.before, c.view)
      replaces == settles /\ Takes(c, e)
  IN /\ copy' = c
     /\ editor' = IF replaces THEN Applied(c, e) ELSE Synced(c, e, free)
     /\ save' = IF ~free THEN save ELSE IF replaces THEN [Sent(Applied(c, e)) EXCEPT !.knew = c.version] ELSE NoSave
     /\ undo' = IF replaces THEN [on |-> TRUE, written |-> Made(c.view.of, "tasks"),
                                  previous |-> e.draft] ELSE undo
     /\ tidy' = IF settles \/ (looked /\ GivesUp(c)) THEN NoTidy ELSE tidy
     /\ panel' = IF panel.st = "queued" /\ Settled(panel.before, c.view) THEN NoPanel ELSE panel

SaveLands ==
  /\ save.st = "served"
  /\ LET c == [body |-> save.body, version |-> save.version, view |-> save.view]
     IN Shown(c, [editor EXCEPT !.saved = save.body, !.version = save.version,
                                !.carried = FALSE], TRUE, FALSE)
  /\ UNCHANGED <<note, runs, calls, read, here, acts, mishaps, given, needless>>

\* A lost version check: the draft is carried over once if only the version
\* moved; else the person is asked.
SaveRefused ==
  /\ save.st = "refused"
  /\ IF note.version > editor.version /\ ~editor.carried /\ note.body = editor.saved
     THEN LET e == [editor EXCEPT !.version = note.version, !.carried = TRUE]
          IN editor' = e /\ save' = [Sent(e) EXCEPT !.again = TRUE]
     ELSE /\ editor' = [editor EXCEPT !.theirs = [body |-> note.body, version |-> note.version]]
          /\ save' = NoSave
  /\ UNCHANGED <<note, runs, copy, tidy, panel, calls, read, undo, here, acts, mishaps, given,
                 needless>>

TakeTheirs ==
  /\ here /\ editor.theirs.version # 0
  /\ LET t == editor.theirs
     IN /\ given' = given \cup (editor.draft.words \ t.body.words)
        /\ editor' = [draft |-> t.body, saved |-> t.body, version |-> t.version,
                      theirs |-> NoTheirs, carried |-> FALSE]
  /\ UNCHANGED <<note, runs, copy, save, tidy, panel, calls, read, undo, here, acts, mishaps,
                 needless>>

KeepMine ==
  /\ here /\ editor.theirs.version # 0
  /\ LET t == editor.theirs
         e == [editor EXCEPT !.saved = t.body, !.version = t.version, !.theirs = NoTheirs,
                             !.carried = FALSE]
     IN /\ given' = given \cup (t.body.words \ editor.draft.words)
        /\ editor' = e /\ save' = Sent(e)
  /\ UNCHANGED <<note, runs, copy, tidy, panel, calls, read, undo, here, acts, mishaps, needless>>

-----------------------------------------------------------------------------
(* The screen: asking, polling, giving up *)

NextCall == CHOOSE k \in Calls : calls[k] = NoCall /\ \A j \in Calls : calls[j] = NoCall => k <= j
CanCall == \E k \in Calls : calls[k] = NoCall

\* The entry first, then what is unsaved, then the request.
StartTidy ==
  /\ CanCall /\ ~tidy.on
  /\ tidy' = [on |-> TRUE, before |-> copy.view, late |-> FALSE]
  /\ calls' = [calls EXCEPT ![NextCall] = [st |-> "waiting", by |-> "tidy", mode |-> "none"]]
  /\ save' = IF save = NoSave /\ here THEN Sent(editor) ELSE save

\* The menu's, a conversion's once it is stored, the toast's Try again and Tidy again.
Tidy ==
  /\ editor.draft.list /\ StartTidy
  /\ UNCHANGED <<note, runs, copy, editor, panel, read, undo, here, acts, mishaps, given, needless>>

\* saveNow has come to an end, well or not.
TidyAsks(k) ==
  /\ calls[k].st = "waiting" /\ (save.st = "no" \/ save.again)
  /\ calls' = [calls EXCEPT ![k].st = "asked"]
  /\ UNCHANGED <<note, runs, copy, editor, save, tidy, panel, read, undo, here, acts, mishaps,
                 given, needless>>

\* Prose into a list and back, body and kind in one PATCH.
Convert(list) ==
  /\ Settling /\ editor.draft.list # list /\ acts < MaxActs /\ acts' = acts + 1
  /\ Edit([editor.draft EXCEPT !.list = list, !.tidied = {}])
  /\ save' = IF save = NoSave THEN Sent([editor EXCEPT !.draft.list = list, !.draft.tidied = {}]) ELSE save
  /\ UNCHANGED <<note, runs, copy, tidy, panel, calls, read, undo, here, mishaps, given, needless>>

Regenerate(mode) ==
  /\ CanCall /\ here /\ ~copy.body.list /\ panel.st = "idle"
  /\ panel' = [st |-> "asking", before |-> copy.view]
  /\ calls' = [calls EXCEPT ![NextCall] = [st |-> "asked", by |-> "panel", mode |-> mode]]
  /\ UNCHANGED <<note, runs, copy, editor, save, tidy, read, undo, here, acts, mishaps, given,
                 needless>>

\* usePollNote, and the last look before giving up: a read is what the server
\* held when it was served.  "glimpsed": that is between a save's two writes, the
\* new body with the old view still marked current.
Poll(last) ==
  /\ here
  /\ "glimpsed" \in Windows \/ save.st # "half"
  /\ IF last THEN tidy.late /\ ~read.last
     ELSE read = NoRead /\ ((tidy.on /\ ~tidy.late) \/ panel.st = "queued")
  /\ read' = [st |-> "served", got |-> Detail, last |-> last]
  /\ UNCHANGED <<note, runs, copy, editor, save, tidy, panel, calls, undo, here, acts, mishaps,
                 given, needless>>

ReadLands ==
  /\ read.st = "served" /\ read' = NoRead
  /\ IF here THEN Shown(read.got, editor, save = NoSave, TRUE)
     ELSE copy' = read.got /\ UNCHANGED <<editor, save, tidy, panel, undo>>
  /\ UNCHANGED <<note, runs, calls, here, acts, mishaps, given, needless>>

ReadFails ==
  /\ read.st # "no" /\ mishaps < MaxMishaps /\ mishaps' = mishaps + 1
  /\ read' = NoRead
  /\ tidy' = IF read.last /\ tidy.late THEN NoTidy ELSE tidy
  /\ UNCHANGED <<note, runs, copy, editor, save, panel, calls, undo, here, acts, given, needless>>

\* CLEAN_POLL_TIMEOUT_MS
MinuteUp ==
  /\ \/ tidy.on /\ ~tidy.late /\ tidy' = [tidy EXCEPT !.late = TRUE] /\ UNCHANGED panel
     \/ panel.st = "queued" /\ panel' = NoPanel /\ UNCHANGED tidy
  /\ UNCHANGED <<note, runs, copy, editor, save, calls, read, undo, here, acts, mishaps, given,
                 needless>>

\* Only while the body is still the tidied one.
UndoTap ==
  /\ undo.on /\ here /\ undo' = NoUndo
  /\ IF editor.draft = undo.written
     THEN /\ Edit(undo.previous)
          /\ save' = IF save = NoSave
                     THEN Sent([editor EXCEPT !.draft = undo.previous]) ELSE save
     ELSE UNCHANGED <<editor, save>>
  /\ UNCHANGED <<note, runs, copy, tidy, panel, calls, read, here, acts, mishaps, given, needless>>

\* The note is left with nothing unsaved, its panel forgotten; the tidy is not.
Leave ==
  /\ here /\ acts < MaxActs /\ acts' = acts + 1 /\ here' = FALSE
  /\ ~Dirty(editor) /\ save = NoSave /\ editor.theirs.version = 0
  /\ panel' = NoPanel /\ undo' = NoUndo
  /\ UNCHANGED <<note, runs, copy, editor, save, tidy, calls, read, mishaps, given, needless>>

\* Opened again from the cache, and read.
Return ==
  /\ ~here /\ here' = TRUE
  /\ editor' = [draft |-> copy.body, saved |-> copy.body, version |-> copy.version,
                theirs |-> NoTheirs, carried |-> FALSE]
  /\ read' = IF read = NoRead THEN [NoRead EXCEPT !.st = "served", !.got = Detail] ELSE read
  /\ UNCHANGED <<note, runs, copy, save, tidy, panel, calls, undo, acts, mishaps, given, needless>>

-----------------------------------------------------------------------------
CleanInit ==
  \E list \in BOOLEAN :
    LET body == [words |-> {"first"}, tidied |-> {}, list |-> list]
    IN /\ note = [body |-> body, version |-> 1, view |-> NoView, stamp |-> NoStamp]
       /\ copy = [body |-> body, version |-> 1, view |-> NoView]
       /\ editor = [draft |-> body, saved |-> body, version |-> 1, theirs |-> NoTheirs,
                    carried |-> FALSE]
       /\ runs = [r \in Runs |-> Unrun] /\ calls = [k \in Calls |-> NoCall]
       /\ save = NoSave /\ tidy = NoTidy /\ panel = NoPanel /\ read = NoRead /\ undo = NoUndo
       /\ here = TRUE /\ acts = 0 /\ mishaps = 0 /\ given = {} /\ needless = FALSE

RunStep(r) == RunReads(r) \/ RunWrites(r) \/ RunClears(r) \/ \E ok \in BOOLEAN : RunAnswers(r, ok)
ScreenStep ==
  \/ Autosave \/ PatchBody \/ PatchRow \/ SaveLands \/ SaveRefused
  \/ \E k \in Calls : TidyAsks(k) \/ Serve(k)
  \/ \E last \in BOOLEAN : Poll(last)
  \/ ReadLands \/ MinuteUp

CleanNext ==
  \/ ScreenStep \/ Append \/ StampAges \/ ReadFails
  \/ \E r \in Runs : RunStep(r) \/ RunFails(r)
  \/ \E w \in Typed : Type(w)
  \/ \E list \in BOOLEAN : Convert(list)
  \/ \E mode \in ProseModes : Regenerate(mode)
  \/ Tidy \/ TakeTheirs \/ KeepMine \/ UndoTap \/ Leave \/ Return

CleanSpec == CleanInit /\ [][CleanNext]_vars

\* The network and the server answer, timers fire; a run may never come back.
CleanFairness ==
  /\ WF_vars(Autosave \/ PatchBody \/ PatchRow \/ SaveLands \/ SaveRefused)
  /\ WF_vars(ReadLands) /\ WF_vars(MinuteUp) /\ WF_vars(Poll(TRUE))
  /\ \A k \in Calls : WF_vars(TidyAsks(k) \/ Serve(k))
CleanFairSpec == CleanSpec /\ CleanFairness

-----------------------------------------------------------------------------
CleanTypeOK ==
  /\ note.body \in Bodies /\ note.version \in Nat /\ note.stamp.req \in 0..(MaxCalls + 1)
  /\ \A r \in Runs : runs[r].of \in Bodies /\ runs[r].mode \in Modes \cup {"none"}
  /\ editor.draft \in Bodies /\ editor.saved \in Bodies /\ given \subseteq Words
  /\ save.st \in {"no", "asked", "half", "served", "refused"}
  /\ read.st \in {"no", "served"} /\ panel.st \in {"idle", "asking", "queued"}

(* No word is lost to a tidy: what is typed stays on the screen and what the *)
(* server holds, dictation included, stays there, unless the person gave it  *)
(* up in a conflict.                                                         *)
NothingTidiedAway ==
  /\ here => editor.draft.words \subseteq editor'.draft.words \cup given'
  /\ note.body.words \subseteq note'.body.words \cup given'

(* A view not marked stale is of the note's body, or is the body. *)
ViewKeepsUp ==
  save.st # "half" /\ note.view.of # NoBody /\ ~note.view.stale =>
    note.body = note.view.of \/ ViewIs(note.view, note.body)

(* A run gives way only to a request made after its own: an accepted request *)
(* is not erased by a save of the note, so the screen's wait is not in vain. *)
YieldsToNewer ==
  \A r \in Runs : runs[r].st = "yielded" => \E q \in Runs : q > r /\ runs[q] # Unrun

(* The save of a tidied list is not refused for what brought it: it names the *)
(* version of the copy it was taken from.                                     *)
NoNeedlessConflict == ~needless

(* What the row says was asked for last stays: an older request's run never *)
(* writes its view or its verdict over a newer one's.                       *)
LatestWins == note'.view.by >= note.view.by

(* "Tidying..." and "Rewriting..." do not stay up on an open note. *)
NotTidying == ~tidy.on \/ ~here
NotQueued == panel.st # "queued"
WaitsEnd == []<>NotTidying /\ []<>NotQueued

-----------------------------------------------------------------------------
(* A rewrite of the note, among typing, dictation, saves and other rewrites:  *)
(* all of the above, in every state and every step.                           *)
CleanInv == CleanTypeOK /\ ViewKeepsUp /\ YieldsToNewer /\ NoNeedlessConflict
CleanStep == NothingTidiedAway /\ LatestWins
TidyIsSafe == []CleanInv /\ [][CleanStep]_vars
=============================================================================
