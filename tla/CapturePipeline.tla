---------------------------- MODULE CapturePipeline ----------------------------
(***************************************************************************)
(* One recording on its way through the worker, with everything the API,   *)
(* the reconcile task and the clock may do to its row meanwhile.           *)
(*                                                                         *)
(* A worker invocation reads the capture's row and walks the stages        *)
(* transcribe, route, destination, retranscribe, strip, clean and append.  *)
(* Each stage puts its artefact in S3 and writes the row under its         *)
(* version; an invocation that loses such a write concedes.  Lambda runs   *)
(* an invocation that returned an error again, and may run any of them     *)
(* twice.  A call to a provider, to S3 or to DynamoDB is one action.       *)
(*                                                                         *)
(* A version is only ever compared with the stored one, so what is kept of *)
(* it is who holds a copy of the current one.  An API operation reads the  *)
(* row, decides, and writes it under the version it read; a write that     *)
(* succeeds found the row unchanged, so the three are one action.          *)
(* The append's own protocol with the note is the module NoteAppend: here  *)
(* it is the claim, the paragraph landing, and the completion.             *)
(***************************************************************************)
EXTENDS Naturals, FiniteSets

CONSTANTS
    Deliveries,     \* worker invocations that may exist at once
    Requests,       \* API requests that may be handled at once
    Notes,          \* destinations
    OwnNote,        \* the one made for this capture: RoutedNoteID
    OtherLanguage,  \* notes that ask for a language other than the default
    None,           \* no note, no words
    Answers,        \* ways a provider may word one cleanup
    MaxAttempts,    \* runs Lambda gives one invocation
    MaxUploads,     \* PUTs and second deliveries of one event
    MaxAsks,        \* API operations on the capture
    MaxAgain,       \* Transcribe again
    MaxFaults,      \* failed calls and deaths
    Arrives,        \* what may come in: "audio", "oversize", "text"
    PeaksClaimed,   \* whether the row names a waveform the client may not send
    MayArchive,     \* whether notes go to the trash and beyond
    MayBeDeleted    \* whether a person deletes the recording

ASSUME NotesAssumption ==
    OwnNote \in Notes /\ OtherLanguage \subseteq Notes /\ None \notin Notes
ASSUME ActorsAssumption == Deliveries \cap Requests = {}
ASSUME BoundsAssumption ==
    /\ MaxAttempts \in Nat \ {0}
    /\ {MaxUploads, MaxAsks, MaxAgain, MaxFaults} \subseteq Nat
ASSUME FlagsAssumption == {PeaksClaimed, MayArchive, MayBeDeleted} \subseteq BOOLEAN
ASSUME ArrivesAssumption == Arrives \subseteq {"audio", "oversize", "text"}

VARIABLES
    row, current,          \* the capture row; who holds its current version
    obj,                   \* the capture's objects in S3
    note, landed,          \* the notes; the capture's paragraph in each
    pc, mem,               \* deliveries
    rpc, prior,            \* requests; the row each one read
    linkLive,              \* whether a PUT issued with the row may still land
    uploads, asks, faults  \* bounds

vars == <<row, current, obj, note, landed, pc, mem, rpc, prior, linkLive,
          uploads, asks, faults>>

Terminal == {"appended", "no_content", "needs_target", "failed"}
Pending  == {"uploaded", "transcribing", "transcribed", "routing", "cleaning",
             "cleaned", "appending"}
Gone     == {"unborn", "deleted"}

\* What a text in S3 or in a note says: which request to transcribe it
\* answers, in which language, and which wording a cleanup gave it.
Languages == {"default", "other"}
Words == [asked : 0 .. MaxAgain, lang : Languages, as : Answers \cup {None}]
NoWords == [asked |-> 0, lang |-> "none", as |-> None]
Text == Words \cup {NoWords}

\* "failed" stands for spend_capped too: both end the run and both may be
\* retried.  A key on the row is whether it is set; fresh is LastProgressAt
\* within CaptureStuckAfter, leased AppendClaimedAt within AppendClaimLease.
Row == [status : Terminal \cup Pending \cup Gone, audio : BOOLEAN, raw : BOOLEAN,
        lang : Languages \cup {"none"}, routed : BOOLEAN, clean : BOOLEAN,
        note : Notes \cup {None}, held : BOOLEAN, done : BOOLEAN,
        fresh : BOOLEAN, leased : BOOLEAN, asked : 0 .. MaxAgain, peaks : BOOLEAN]
NoRow == [status |-> "unborn", audio |-> FALSE, raw |-> FALSE, lang |-> "none",
          routed |-> FALSE, clean |-> FALSE, note |-> None, held |-> FALSE,
          done |-> FALSE, fresh |-> FALSE, leased |-> FALSE, asked |-> 0,
          peaks |-> FALSE]

Objects == [audio : BOOLEAN, processed : BOOLEAN, raw : Text, routed : Text,
            clean : Text, peaks : BOOLEAN]
NoObjects == [audio |-> FALSE, processed |-> FALSE, raw |-> NoWords,
              routed |-> NoWords, clean |-> NoWords, peaks |-> FALSE]

\* What an invocation keeps: its copy of the row, the text in hand (NoWords
\* until it has written or read one: captureTexts), the destination row as it
\* was last read (seenNote), how it was invoked and which attempt it is.
Memory == [copy : Row, text : Text, dest : Notes \cup {None},
           seen : {"unread", "active", "archived"},
           by : {"upload", "oversize", "api", "reap"}, attempt : 1 .. MaxAttempts]
NoMemory == [copy |-> NoRow, text |-> NoWords, dest |-> None, seen |-> "unread",
             by |-> "api", attempt |-> 1]

Stages == {"transcribe", "hear", "route", "ask", "destination", "strip", "clean",
           "tidy", "append", "claim", "land", "unclaim", "check", "complete",
           "write", "peaks"}
Running == Stages \cup {"finished", "failed", "conceded"}
RequestPC == {"idle", "putText", "discard", "invoke", "rollback", "cut", "unlink", "drop"}

RowTypes == row \in Row /\ current \subseteq Deliveries \cup Requests
NoteTypes ==
    /\ note \in [Notes -> {"absent", "active", "archived"}]
    /\ landed \in [Notes -> Text]
DeliveryTypes ==
    /\ pc \in [Deliveries -> Running \cup {"idle", "queued"}]
    /\ mem \in [Deliveries -> Memory]
RequestTypes == rpc \in [Requests -> RequestPC] /\ prior \in [Requests -> Row]
BoundTypes ==
    /\ linkLive \in BOOLEAN /\ uploads \in 0 .. MaxUploads
    /\ asks \in 0 .. MaxAsks /\ faults \in 0 .. MaxFaults

\* Every variable has its type: the row and every copy of it, the objects, the
\* notes, and what each invocation and each request has in hand.  No attempt
\* is numbered past the last that Lambda makes.
TypeOK ==
    RowTypes /\ obj \in Objects /\ NoteTypes /\ DeliveryTypes /\ RequestTypes /\ BoundTypes

Init ==
    /\ row = NoRow /\ current = {} /\ obj = NoObjects
    /\ note = [n \in Notes |-> IF n = OwnNote THEN "absent" ELSE "active"]
    /\ landed = [n \in Notes |-> NoWords]
    /\ pc = [d \in Deliveries |-> "idle"] /\ mem = [d \in Deliveries |-> NoMemory]
    /\ rpc = [r \in Requests |-> "idle"] /\ prior = [r \in Requests |-> NoRow]
    /\ linkLive = FALSE /\ uploads = 0 /\ asks = 0 /\ faults = 0

-----------------------------------------------------------------------------
(* The row, and what the stages share. *)

Exists == row.status \notin Gone
IsTerminal(c) == c.status \in Terminal
IsPending(c) == c.status \in Pending
LanguageOf(n) == IF n \in OtherLanguage THEN "other" ELSE "default"

\* service.CaptureStuck, of a pending row.
CaptureStuck(c) == ~c.fresh /\ ~(c.status = "appending" /\ c.leased)

\* resumeStatusFor
ResumeStatusFor(c) == IF c.clean THEN "cleaned" ELSE IF c.raw THEN "transcribed" ELSE "uploaded"

Goto(d, p) == pc' = [pc EXCEPT ![d] = p]
Remember(d, copy) == mem' = [mem EXCEPT ![d].copy = copy]
\* Nothing but the row is looked at once a run has its outcome.
Bare(d, copy) == [NoMemory EXCEPT !.copy = copy, !.by = mem[d].by, !.attempt = mem[d].attempt]
Leave(d, copy, p) == mem' = [mem EXCEPT ![d] = Bare(d, copy)] /\ Goto(d, p)

\* Mutant: the write without its condition.
PutCaptureMutant(a, new) == row' = new /\ current' = {a}

\* PutCapture: a write under the version of the copy it came from.
PutCapture(a, new) ==
    /\ a \in current
    /\ row' = new
    /\ current' = {a}

\* concede: the write was lost; reload and leave the row to its writer.
Concede(d) ==
    /\ d \notin current
    /\ UNCHANGED row
    /\ \/ /\ Exists
          /\ current' = current \cup {d}
          /\ Leave(d, row, "conceded")
       \/ /\ ~Exists
          /\ UNCHANGED current /\ Leave(d, mem[d].copy, "failed")

\* persist: write the copy with these changes, and go on at p.
Persist(d, new, p) ==
    /\ \/ /\ PutCapture(d, [new EXCEPT !.fresh = TRUE])
          /\ Remember(d, row') /\ Goto(d, p)
       \/ Concede(d)
    /\ UNCHANGED <<obj, note, landed, rpc, prior, linkLive, uploads, asks, faults>>

SetStatus(d, from, status, p) ==
    /\ pc[d] = from
    /\ Persist(d, [mem[d].copy EXCEPT !.status = status], p)

\* The text a stage works from: what the invocation has in hand, else what the
\* furthest key on its copy names.
Source(d) ==
    LET c == mem[d].copy IN
    IF mem[d].text # NoWords THEN mem[d].text
    ELSE IF c.clean THEN obj.clean ELSE IF c.routed THEN obj.routed ELSE obj.raw

\* A stage's answer, in memory: the copy, the text in hand and the next step.
\* "write" is a persist of the copy as it stands, a deferred one is the next
\* stage's own.
Answer(d, copy, text, p) ==
    /\ mem' = [mem EXCEPT ![d].copy = copy, ![d].text = text]
    /\ Goto(d, p)
Verdict(d, status) == Leave(d, [mem[d].copy EXCEPT !.status = status], "write")

Write(d) ==
    /\ pc[d] = "write"
    /\ Persist(d, mem[d].copy,
               IF IsTerminal(mem[d].copy) THEN "finished" ELSE "destination")

-----------------------------------------------------------------------------
(* An invocation begins. *)

End(d) ==
    /\ Goto(d, "idle")
    /\ mem' = [mem EXCEPT ![d] = NoMemory]

\* Lambda runs an invocation that returned an error again; after the last
\* attempt it is a dead letter.  The reconcile task is not run again: the next
\* pass is a new one.
Again(d) ==
    \/ /\ mem[d].by # "reap" /\ mem[d].attempt < MaxAttempts
       /\ Goto(d, "queued")
       /\ mem' = [mem EXCEPT ![d] = [NoMemory EXCEPT !.by = mem[d].by,
                                                      !.attempt = mem[d].attempt + 1]]
    \/ /\ mem[d].by = "reap" \/ mem[d].attempt = MaxAttempts
       /\ End(d)

Queue(d, by) ==
    /\ pc[d] = "idle"
    /\ Goto(d, "queued")
    /\ mem' = [mem EXCEPT ![d] = [NoMemory EXCEPT !.by = by]]

\* Mutant: a transcript in hand is routed, whatever note the row has.
FirstStageMutant(c) == IF ~c.raw THEN "transcribe" ELSE "route"

FirstStage(c) ==
    IF ~c.raw THEN "transcribe" ELSE IF c.note = None THEN "route" ELSE "destination"

\* A notification orphanObjectAfter old, as a retry's or a repeat's may be.
OldNotificationMutant(d) == FALSE
OldNotification(d) == mem[d].by = "upload"

StartRun(d) ==
    /\ pc[d] = "queued" /\ mem[d].by # "oversize"
    /\ \/ /\ Exists /\ IsPending(row)
          /\ Remember(d, row) /\ Goto(d, FirstStage(row))
          /\ current' = current \cup {d}
          /\ UNCHANGED obj
       \/ /\ Exists /\ IsTerminal(row)
          /\ End(d) /\ UNCHANGED <<current, obj>>
       \/ \* an upload whose row is gone
          /\ ~Exists /\ OldNotification(d)
          /\ obj' = [obj EXCEPT !.audio = FALSE, !.processed = FALSE]
          /\ End(d) /\ UNCHANGED current
       \/ /\ ~Exists /\ (OldNotification(d) => mem[d].attempt = 1)
          /\ Goto(d, "failed") /\ UNCHANGED <<mem, current, obj>>
    /\ UNCHANGED <<row, note, landed, rpc, prior, linkLive, uploads, asks, faults>>

\* RejectOversizedCapture: the object goes first, whatever the row says.
RejectOversized(d) ==
    /\ pc[d] = "queued" /\ mem[d].by = "oversize"
    /\ obj' = [obj EXCEPT !.audio = FALSE, !.processed = FALSE]
    /\ \/ /\ Exists /\ IsPending(row)
          /\ Remember(d, [row EXCEPT !.status = "failed"]) /\ Goto(d, "write")
          /\ current' = current \cup {d}
       \/ /\ ~Exists \/ IsTerminal(row)
          /\ End(d) /\ UNCHANGED current
    /\ UNCHANGED <<row, note, landed, rpc, prior, linkLive, uploads, asks, faults>>

-----------------------------------------------------------------------------
(* Transcribe. *)

Transcribe(d) == SetStatus(d, "transcribe", "transcribing", "hear")

\* transcriptionLanguage: the destination's, if the row names one that exists.
\* The read is remembered for the destination stage.
Reread(d) == mem[d].seen = "unread" \/ mem[d].dest # mem[d].copy.note
NoteThere(d) == mem[d].copy.note # None /\ (Reread(d) => note[mem[d].copy.note] # "absent")
TranscriptionLanguage(d) == IF NoteThere(d) THEN LanguageOf(mem[d].copy.note) ELSE "default"
Looked(d, m) ==
    IF NoteThere(d) /\ Reread(d)
    THEN [m EXCEPT !.dest = m.copy.note, !.seen = note[m.copy.note]]
    ELSE m

\* The provider's answer.  Of the gates, quiet ends the capture before a call
\* is made and hint_echo and no_speech after the transcript is stored.
Hear(d) ==
    LET c == mem[d].copy
        lang == TranscriptionLanguage(d)
        words == [asked |-> c.asked, lang |-> lang, as |-> None]
        heard == [c EXCEPT !.raw = TRUE, !.lang = lang, !.status = "transcribed"]
        Hearing(copy, text, p) ==
            /\ mem' = [mem EXCEPT ![d] = Looked(d, [@ EXCEPT !.copy = copy, !.text = text])]
            /\ Goto(d, p)
    IN  /\ pc[d] = "hear"
        /\ \/ /\ obj.audio /\ obj' = [obj EXCEPT !.raw = words]
              /\ Hearing(heard, words, IF c.note = None THEN "route" ELSE "write")
           \/ /\ obj.audio /\ obj' = [obj EXCEPT !.raw = words]
              /\ Leave(d, [heard EXCEPT !.status = "no_content"], "write")
           \/ /\ \E status \in {"no_content", "failed"} : Verdict(d, status)
              /\ UNCHANGED obj
        /\ UNCHANGED <<row, current, note, landed, rpc, prior, linkLive, uploads,
                       asks, faults>>

-----------------------------------------------------------------------------
(* Route. *)

Route(d) == SetStatus(d, "route", "routing", "ask")

\* decideTarget, routeToExisting and routeToNewNote: the words addressed to the
\* app are cut, and the capture has a note, old or new, or asks for one.
AskRouter(d) ==
    LET c == [mem[d].copy EXCEPT !.routed = TRUE]
        text == IF mem[d].text # NoWords THEN mem[d].text ELSE obj.raw
        FileInto(n, status) ==
            mem' = [mem EXCEPT ![d].copy = [c EXCEPT !.note = n, !.status = status],
                               ![d].text = text, ![d].dest = n, ![d].seen = "active"]
        Park == mem' = [mem EXCEPT ![d] = Bare(d, [c EXCEPT !.status = "needs_target"])]
    IN  /\ pc[d] = "ask" /\ text # NoWords
        /\ \/ \* the spend cap
              /\ Verdict(d, "failed") /\ UNCHANGED <<obj, note>>
           \/ /\ obj' = [obj EXCEPT !.routed = text]
              /\ Goto(d, "write")
              /\ \/ /\ \E n \in Notes : note[n] = "active" /\ FileInto(n, "transcribed")
                    /\ UNCHANGED note
                 \/ /\ (\E n \in Notes : note[n] = "active") \/ note[OwnNote] = "archived"
                    /\ Park /\ UNCHANGED note
                 \/ /\ note[OwnNote] = "absent"
                    /\ note' = [note EXCEPT ![OwnNote] = "active"]
                    /\ FileInto(OwnNote, "transcribed")
        /\ UNCHANGED <<row, current, landed, rpc, prior, linkLive, uploads, asks,
                       faults>>

-----------------------------------------------------------------------------
(* Destination, retranscribe, strip, clean. *)

WantsNoteLanguageMutant(c) == FALSE
\* wantsNoteLanguage, and the retranscribe stage's skip.
WantsNoteLanguage(c) == c.audio /\ ~c.clean /\ c.note \in OtherLanguage /\ c.lang # "other"

\* A note that is gone frees the capture for another; one in the trash does not.
FreesCapture(found) == found = "absent"

Destination(d) ==
    LET c == mem[d].copy
        found == IF Reread(d) THEN note[c.note] ELSE mem[d].seen
    IN  /\ pc[d] = "destination"
        /\ \/ /\ FreesCapture(found)
              /\ Leave(d, [c EXCEPT !.note = None, !.status = "needs_target"], "write")
           \/ /\ found = "archived"
              /\ Verdict(d, "failed")
           \/ /\ found = "active"
              /\ LET m == [mem[d] EXCEPT !.dest = c.note, !.seen = "active"] IN
                 IF WantsNoteLanguage(c)
                 THEN /\ mem' = [mem EXCEPT ![d] =
                            [m EXCEPT !.copy = [c EXCEPT !.raw = FALSE, !.routed = FALSE]]]
                      /\ Goto(d, "transcribe")
                 ELSE /\ mem' = [mem EXCEPT ![d] = m]
                      /\ Goto(d, IF c.clean THEN "append"
                                 ELSE IF c.routed THEN "clean" ELSE "strip")
        /\ UNCHANGED <<row, current, obj, note, landed, rpc, prior, linkLive, uploads,
                       asks, faults>>

\* stripInstructions: a call for a transcript with an instruction cue, whose
\* failure keeps the words as spoken.
Strip(d) ==
    /\ pc[d] = "strip" /\ Source(d) # NoWords
    /\ \/ Answer(d, mem[d].copy, Source(d), "clean") /\ UNCHANGED obj
       \/ /\ obj' = [obj EXCEPT !.routed = Source(d)]
          /\ Answer(d, [mem[d].copy EXCEPT !.routed = TRUE], Source(d), "clean")
       \/ Verdict(d, "failed") /\ UNCHANGED obj
    /\ UNCHANGED <<row, current, note, landed, rpc, prior, linkLive, uploads, asks,
                   faults>>

Clean(d) == SetStatus(d, "clean", "cleaning", "tidy")

\* The cleanup, by the model or by tidyDictation.
Tidy(d) ==
    /\ pc[d] = "tidy" /\ Source(d) # NoWords
    /\ \/ \E a \in Answers :
             LET words == [Source(d) EXCEPT !.as = a] IN
             /\ obj' = [obj EXCEPT !.clean = words]
             /\ Answer(d, [mem[d].copy EXCEPT !.clean = TRUE, !.status = "cleaned"],
                       words, "append")
       \/ /\ \E status \in {"no_content", "failed"} : Verdict(d, status)
          /\ UNCHANGED obj
    /\ UNCHANGED <<row, current, note, landed, rpc, prior, linkLive, uploads, asks,
                   faults>>

-----------------------------------------------------------------------------
(* Append: the claim, the paragraph, the completion. *)

Append(d) == SetStatus(d, "append", "appending", "claim")

\* Mutant: no claim is refused.
ClaimableMutant(c) == TRUE
Claimable(c) == ~c.held \/ (~c.done /\ ~c.leased)

\* ClaimCaptureAppend reads the row itself, so it is not held to the version
\* the delivery carries.  Every attempt computes the same token.
ClaimCaptureAppend(d) ==
    /\ pc[d] = "claim" /\ Exists /\ Source(d) # NoWords
    /\ \/ /\ Claimable(row)
          /\ row' = [row EXCEPT !.held = TRUE, !.leased = TRUE]
          /\ current' = {d}
          /\ Answer(d, row', Source(d), "land")
       \/ /\ ~Claimable(row)
          /\ UNCHANGED row /\ current' = current \cup {d}
          /\ IF row.done THEN Leave(d, row, "finished") ELSE Answer(d, row, Source(d), "check")
    /\ UNCHANGED <<obj, note, landed, rpc, prior, linkLive, uploads, asks, faults>>

\* stampNoteAppend and appendToNote.
Land(d) ==
    LET n == mem[d].dest IN
    /\ pc[d] = "land"
    /\ \/ /\ note[n] = "active"
          /\ landed' = [landed EXCEPT ![n] = mem[d].text]
          /\ Answer(d, mem[d].copy, NoWords, "complete")
       \/ /\ note[n] = "archived"
          /\ mem' = [mem EXCEPT ![d].seen = "archived"]
          /\ Goto(d, "unclaim") /\ UNCHANGED landed
       \/ /\ note[n] = "absent"
          /\ Goto(d, "unclaim") /\ UNCHANGED <<mem, landed>>
    /\ UNCHANGED <<row, current, obj, note, rpc, prior, linkLive, uploads, asks, faults>>

\* releaseAppendClaim, best effort, and then the archived verdict or the error.
ReleaseAppendClaim(d) ==
    LET free == [mem[d].copy EXCEPT !.held = FALSE, !.leased = FALSE]
        GoOn(copy) == IF mem[d].seen = "archived"
                       THEN Leave(d, [copy EXCEPT !.status = "failed"], "write")
                       ELSE Leave(d, copy, "failed")
    IN  /\ pc[d] = "unclaim"
        /\ \/ PutCapture(d, free) /\ GoOn(free)
           \/ d \notin current /\ UNCHANGED <<row, current>> /\ GoOn(mem[d].copy)
        /\ UNCHANGED <<obj, note, landed, rpc, prior, linkLive, uploads, asks, faults>>

\* Mutant: the marker alone is taken as proof.
CheckNoteMutant(d) ==
    /\ pc[d] = "check"
    /\ \/ landed[mem[d].dest] # NoWords /\ Answer(d, mem[d].copy, NoWords, "complete")
       \/ landed[mem[d].dest] = NoWords /\ Leave(d, mem[d].copy, "failed")
    /\ UNCHANGED <<row, current, obj, note, landed, rpc, prior, linkLive, uploads,
                   asks, faults>>

\* appendClaimRefused, with the token's holder unfinished inside its lease.
CheckNote(d) ==
    /\ pc[d] = "check"
    /\ \/ landed[mem[d].dest] = mem[d].text /\ Answer(d, mem[d].copy, NoWords, "complete")
       \/ landed[mem[d].dest] # mem[d].text /\ Leave(d, mem[d].copy, "failed")
    /\ UNCHANGED <<row, current, obj, note, landed, rpc, prior, linkLive, uploads,
                   asks, faults>>

\* finishAppend; CompleteCaptureAppend reads the row itself too.
CompleteCaptureAppend(d) ==
    /\ pc[d] = "complete"
    /\ \/ /\ note[mem[d].dest] # "absent" /\ row.held /\ ~row.done
          /\ row' = [row EXCEPT !.status = "appended", !.done = TRUE]
          /\ current' = {d}
          /\ Leave(d, row', "finished")
       \/ /\ note[mem[d].dest] # "absent" /\ row.held /\ row.done
          /\ UNCHANGED row /\ current' = current \cup {d}
          /\ Leave(d, row, "finished")
       \/ /\ note[mem[d].dest] = "absent" \/ ~row.held
          /\ UNCHANGED <<row, current>> /\ Leave(d, mem[d].copy, "failed")
    /\ UNCHANGED <<obj, note, landed, rpc, prior, linkLive, uploads, asks, faults>>

-----------------------------------------------------------------------------
(* An invocation ends. *)

\* Mutant: any run that ended lets the audio go.
MarkAudioProcessedMutant(d) ==
    obj' = [obj EXCEPT !.processed = @ \/ (obj.audio /\ mem[d].copy.audio)]

\* markAudioProcessedIfSafe, by the copy in memory.
MarkAudioProcessed(d) ==
    obj' = [obj EXCEPT !.processed =
        @ \/ (obj.audio /\ mem[d].by # "oversize" /\ mem[d].copy.audio /\ mem[d].copy.raw)]

Release(d) == current' = current \ {d}

Finish(d) ==
    /\ pc[d] = "finished"
    /\ MarkAudioProcessed(d)
    /\ IF mem[d].by # "oversize" /\ mem[d].copy.peaks /\ ~obj.peaks
       THEN Goto(d, "peaks") /\ UNCHANGED <<mem, current>>
       ELSE End(d) /\ Release(d)
    /\ UNCHANGED <<row, note, landed, rpc, prior, linkLive, uploads, asks, faults>>

\* verifyPeaks' write.  A lost one reloads the copy, and a run whose copy has
\* turned pending is an orphan to it (errCaptureOrphaned).
VerifyPeaks(d) ==
    /\ pc[d] = "peaks"
    /\ \/ /\ d \in current
          /\ row' = [mem[d].copy EXCEPT !.peaks = FALSE, !.fresh = TRUE]
          /\ current' = {}
          /\ End(d)
       \/ /\ d \notin current /\ ~IsPending(row)
          /\ UNCHANGED row /\ Release(d) /\ End(d)
       \/ /\ d \notin current /\ IsPending(row)
          /\ UNCHANGED <<row, current>>
          /\ Remember(d, row) /\ Goto(d, "failed")
    /\ UNCHANGED <<obj, note, landed, rpc, prior, linkLive, uploads, asks, faults>>

Conceded(d) ==
    /\ pc[d] = "conceded"
    /\ MarkAudioProcessed(d)
    /\ End(d) /\ Release(d)
    /\ UNCHANGED <<row, note, landed, rpc, prior, linkLive, uploads, asks, faults>>

\* The invocation returns its error.  The reconcile task answers it with
\* Reaper.fail: read again, and failed if still pending.
Failed(d) ==
    /\ pc[d] = "failed"
    /\ MarkAudioProcessed(d)
    /\ Again(d)
    /\ \/ /\ mem[d].by = "reap" /\ IsPending(row)
          /\ row' = [row EXCEPT !.status = "failed", !.fresh = TRUE] /\ current' = {}
       \/ /\ ~(mem[d].by = "reap" /\ IsPending(row))
          /\ UNCHANGED row /\ Release(d)
    /\ UNCHANGED <<note, landed, rpc, prior, linkLive, uploads, asks, faults>>

\* The object a stage reads is not there.
MissingObject(d) ==
    /\ pc[d] \in {"ask", "strip", "tidy", "claim"} /\ Source(d) = NoWords
    /\ Leave(d, mem[d].copy, "failed")
    /\ UNCHANGED <<row, current, obj, note, landed, rpc, prior, linkLive, uploads,
                   asks, faults>>

Fail == faults < MaxFaults /\ faults' = faults + 1

\* A call fails outright, or runs out of its stage's time.
Fault(d) ==
    /\ pc[d] \in (Stages \ {"unclaim", "peaks"}) \cup {"queued"}
    /\ Fail
    /\ IF pc[d] = "land" THEN Goto(d, "unclaim") /\ UNCHANGED mem
                         ELSE Leave(d, mem[d].copy, "failed")
    /\ UNCHANGED <<row, current, obj, note, landed, rpc, prior, linkLive, uploads,
                   asks>>

\* The invocation stops where it stands.
Crash(d) ==
    /\ pc[d] \in Running
    /\ Fail
    /\ Again(d) /\ Release(d)
    /\ UNCHANGED <<row, obj, note, landed, rpc, prior, linkLive, uploads, asks>>

Run(d) ==
    \/ StartRun(d) \/ RejectOversized(d) \/ Write(d)
    \/ Transcribe(d) \/ Hear(d) \/ Route(d) \/ AskRouter(d)
    \/ Destination(d) \/ Strip(d) \/ Clean(d) \/ Tidy(d)
    \/ Append(d) \/ ClaimCaptureAppend(d) \/ Land(d) \/ ReleaseAppendClaim(d)
    \/ CheckNote(d) \/ CompleteCaptureAppend(d)
    \/ MissingObject(d)
    \/ Finish(d) \/ VerifyPeaks(d) \/ Conceded(d) \/ Failed(d)

-----------------------------------------------------------------------------
(* The API. *)

NewRow == [NoRow EXCEPT !.fresh = TRUE]
Answered(r) == rpc' = [rpc EXCEPT ![r] = "idle"] /\ prior' = [prior EXCEPT ![r] = NoRow]
RowUnchanged == UNCHANGED <<row, current>>
EnvUnchanged == UNCHANGED <<note, landed, pc, mem, uploads, faults>>

\* newCaptureRow's destination is a note in use, or none.
Destinations == {n \in Notes : note[n] = "active"} \cup {None}

\* BeginCapture: the row, and the presigned PUTs.
BeginCapture ==
    /\ "audio" \in Arrives /\ row.status = "unborn"
    /\ \E n \in Destinations :
           row' = [NewRow EXCEPT !.status = "uploaded", !.audio = TRUE, !.note = n,
                                 !.peaks = PeaksClaimed]
    /\ linkLive' = TRUE
    /\ UNCHANGED <<current, obj, rpc, prior, asks>> /\ EnvUnchanged

\* IngestText: the row, then the object, then the worker.
IngestText(r) ==
    /\ "text" \in Arrives /\ row.status = "unborn" /\ rpc[r] = "idle"
    /\ \E n \in Destinations :
           row' = [NewRow EXCEPT !.status = "transcribed", !.raw = TRUE, !.note = n]
    /\ rpc' = [rpc EXCEPT ![r] = "putText"]
    /\ UNCHANGED <<current, obj, prior, linkLive, asks>> /\ EnvUnchanged

PutText(r) ==
    /\ rpc[r] = "putText"
    /\ \/ /\ obj' = [obj EXCEPT !.raw = [asked |-> 0, lang |-> "default", as |-> None]]
          /\ rpc' = [rpc EXCEPT ![r] = "invoke"]
          /\ UNCHANGED faults
       \/ Fail /\ rpc' = [rpc EXCEPT ![r] = "discard"] /\ UNCHANGED obj
    /\ UNCHANGED <<note, landed, pc, mem, prior, linkLive, uploads, asks>> /\ RowUnchanged

\* repository.DeleteCapture: whatever the row's version.
DropRow == row' = [NoRow EXCEPT !.status = "deleted"] /\ current' = {}

DiscardEmptyRow(r) ==
    /\ rpc[r] = "discard"
    /\ DropRow
    /\ Answered(r)
    /\ UNCHANGED <<obj, linkLive, asks>> /\ EnvUnchanged

\* An operation on the row: read, decided and written under one version, with
\* the worker's hand-off next.
Reset(r, new) ==
    /\ rpc[r] = "idle" /\ Exists /\ asks < MaxAsks
    /\ asks' = asks + 1
    /\ prior' = [prior EXCEPT ![r] = row]
    /\ row' = [new EXCEPT !.fresh = TRUE]
    /\ current' = {r}
    /\ rpc' = [rpc EXCEPT ![r] = "invoke"]
    /\ UNCHANGED <<obj, linkLive>> /\ UNCHANGED <<landed, pc, mem, uploads, faults>>

\* What each operation asks of a row that is still moving.
Idle(c) == IsTerminal(c) \/ (IsPending(c) /\ CaptureStuck(c))

RetryCapture(r) ==
    LET new == [row EXCEPT !.status = IF @ = "failed" THEN ResumeStatusFor(row) ELSE @] IN
    /\ row.status = "failed" \/ (IsPending(row) /\ CaptureStuck(row))
    /\ new.status = "uploaded" /\ row.audio => obj.audio
    /\ Reset(r, new) /\ UNCHANGED note

\* A note in use, or a new one under the capture's own id (noteForChosenTitle).
SetCaptureTarget(r) ==
    /\ row.note = None /\ Idle(row)
    /\ \E n \in Notes :
           /\ \/ note[n] = "active" /\ UNCHANGED note
              \/ /\ n = OwnNote /\ note[n] = "absent"
                 /\ note' = [note EXCEPT ![n] = "active"]
           /\ Reset(r, [row EXCEPT !.note = n, !.status = ResumeStatusFor(row)])

RetranscribeCapture(r) ==
    /\ row.asked < MaxAgain
    /\ Idle(row) /\ row.audio /\ obj.audio
    /\ row.note # None => note[row.note] # "archived"
    /\ Reset(r, [row EXCEPT !.raw = FALSE, !.routed = FALSE, !.clean = FALSE,
                            !.lang = "none", !.held = FALSE, !.leased = FALSE,
                            !.done = FALSE, !.status = "transcribing", !.asked = @ + 1])
    /\ UNCHANGED note

\* handOff: the worker is invoked, or the row is put back as it was.
Invoke(r) ==
    /\ rpc[r] = "invoke"
    /\ Answered(r)
    /\ \E d \in Deliveries : Queue(d, "api")
    /\ current' = current \ {r}
    /\ UNCHANGED <<row, obj, note, landed, linkLive, uploads, asks, faults>>

InvokeFails(r) ==
    /\ rpc[r] = "invoke" /\ Fail
    /\ rpc' = [rpc EXCEPT ![r] = IF prior[r] = NoRow THEN "idle" ELSE "rollback"]
    /\ UNCHANGED <<note, landed, pc, mem, prior, obj, linkLive, uploads, asks>>
    /\ RowUnchanged

Rollback(r) ==
    /\ rpc[r] = "rollback"
    /\ \/ r \in current /\ row' = prior[r] /\ current' = {}
       \/ r \notin current /\ RowUnchanged
    /\ Answered(r)
    /\ UNCHANGED <<obj, linkLive, asks>> /\ EnvUnchanged

\* DeleteCapture: the check, the paragraph, the objects, the row.
DeleteCapture(r) ==
    /\ MayBeDeleted /\ rpc[r] = "idle" /\ asks < MaxAsks
    /\ Exists /\ (IsPending(row) => CaptureStuck(row))
    /\ ~(row.status = "uploaded" /\ row.audio /\ linkLive /\ ~obj.audio)
    /\ asks' = asks + 1
    /\ prior' = [prior EXCEPT ![r] = row]
    /\ rpc' = [rpc EXCEPT ![r] = "cut"]
    /\ UNCHANGED <<obj, linkLive>> /\ EnvUnchanged /\ RowUnchanged

CutParagraph(r) ==
    /\ rpc[r] = "cut"
    /\ landed' = IF prior[r].note # None THEN [landed EXCEPT ![prior[r].note] = NoWords]
                                         ELSE landed
    /\ rpc' = [rpc EXCEPT ![r] = "unlink"]
    /\ UNCHANGED <<obj, note, pc, mem, prior, linkLive, uploads, asks, faults>>
    /\ RowUnchanged

Unlink(r) ==
    /\ rpc[r] = "unlink"
    /\ obj' = NoObjects
    /\ rpc' = [rpc EXCEPT ![r] = "drop"]
    /\ UNCHANGED <<prior, linkLive, asks>> /\ EnvUnchanged /\ RowUnchanged

DeleteRow(r) ==
    /\ rpc[r] = "drop"
    /\ DropRow
    /\ Answered(r)
    /\ UNCHANGED <<obj, linkLive, asks>> /\ EnvUnchanged

\* The request's Lambda stops where it stands, or a call of it fails.
RequestDies(r) ==
    /\ rpc[r] # "idle" /\ Fail
    /\ Answered(r)
    /\ current' = current \ {r}
    /\ UNCHANGED <<row, obj, note, landed, pc, mem, linkLive, uploads, asks>>

Handle(r) ==
    \/ PutText(r) \/ DiscardEmptyRow(r) \/ Invoke(r) \/ Rollback(r)
    \/ CutParagraph(r) \/ Unlink(r) \/ DeleteRow(r)

Operation(r) ==
    \/ IngestText(r) \/ RetryCapture(r) \/ SetCaptureTarget(r)
    \/ RetranscribeCapture(r) \/ DeleteCapture(r)

-----------------------------------------------------------------------------
(* The client's PUTs, the reconcile task, the notes and the clock. *)

\* The recording is written, or written again, and S3 says so.  Its size is
\* known only now.
UploadLands ==
    /\ linkLive /\ uploads < MaxUploads
    /\ uploads' = uploads + 1
    /\ obj' = [obj EXCEPT !.audio = TRUE, !.processed = FALSE]
    /\ \E d \in Deliveries :
           \/ Queue(d, "upload")
           \/ "oversize" \in Arrives /\ Queue(d, "oversize")
    /\ UNCHANGED <<note, landed, rpc, prior, linkLive, asks, faults>> /\ RowUnchanged

PeaksLand ==
    /\ linkLive /\ PeaksClaimed /\ ~obj.peaks
    /\ obj' = [obj EXCEPT !.peaks = TRUE]
    /\ UNCHANGED <<rpc, prior, linkLive, asks>> /\ EnvUnchanged /\ RowUnchanged

\* At least once: an event or a hand-off is delivered again.
Redeliver ==
    /\ uploads < MaxUploads /\ uploads' = uploads + 1
    /\ \E d \in Deliveries :
           \/ uploads > 0 /\ Queue(d, "upload")
           \/ asks > 0 /\ Queue(d, "api")
    /\ UNCHANGED <<obj, note, landed, rpc, prior, linkLive, asks, faults>> /\ RowUnchanged

\* Mutant: an upload that never came is left to its retry.
ReapMutant ==
    /\ IsPending(row) /\ CaptureStuck(row)
    /\ ~(row.status = "uploaded" /\ row.audio /\ ~obj.audio)
    /\ \E d \in Deliveries : Queue(d, "reap")
    /\ UNCHANGED <<obj, note, landed, rpc, prior, linkLive, uploads, asks, faults>>
    /\ RowUnchanged

\* reconcile.Run, every quarter of an hour: a stuck capture is run once more;
\* an upload that can no longer land is failed.
Reap ==
    /\ IsPending(row) /\ CaptureStuck(row)
    /\ \/ /\ row.status = "uploaded" /\ row.audio /\ ~obj.audio /\ ~linkLive
          /\ row' = [row EXCEPT !.status = "failed", !.fresh = TRUE]
          /\ current' = {}
          /\ UNCHANGED <<pc, mem>>
       \/ /\ ~(row.status = "uploaded" /\ row.audio /\ ~obj.audio)
          /\ \E d \in Deliveries : Queue(d, "reap")
          /\ RowUnchanged
    /\ UNCHANGED <<obj, note, landed, rpc, prior, linkLive, uploads, asks, faults>>

\* Time.  An invocation lives CaptureStuckAfter at most and a request seconds,
\* so none that is running sees a row it has written age, or a lease run out.
Quiet == (\A d \in Deliveries : pc[d] \notin Running) /\ (\A r \in Requests : rpc[r] = "idle")

Age ==
    /\ Exists /\ row.fresh /\ Quiet
    /\ row' = [row EXCEPT !.fresh = FALSE]
    /\ UNCHANGED <<current, obj, rpc, prior, linkLive, asks>> /\ EnvUnchanged

LeaseEnds ==
    /\ row.leased /\ Quiet
    /\ row' = [row EXCEPT !.leased = FALSE]
    /\ UNCHANGED <<current, obj, rpc, prior, linkLive, asks>> /\ EnvUnchanged

\* uploadTTL and its margin outlast CaptureStuckAfter.
LinkEnds ==
    /\ linkLive /\ ~row.fresh
    /\ linkLive' = FALSE
    /\ UNCHANGED <<obj, rpc, prior, asks>> /\ EnvUnchanged /\ RowUnchanged

\* The lifecycle rule, days later, if the object has the tag.
AudioExpires ==
    /\ obj.audio /\ obj.processed /\ Quiet /\ ~row.fresh
    /\ obj' = [obj EXCEPT !.audio = FALSE, !.processed = FALSE]
    /\ UNCHANGED <<rpc, prior, linkLive, asks>> /\ EnvUnchanged /\ RowUnchanged

ArchiveNote(n) ==
    /\ MayArchive /\ note[n] = "active"
    /\ note' = [note EXCEPT ![n] = "archived"]
    /\ UNCHANGED <<obj, landed, pc, mem, rpc, prior, linkLive, uploads, asks, faults>>
    /\ RowUnchanged

RestoreNote(n) ==
    /\ MayArchive /\ note[n] = "archived"
    /\ note' = [note EXCEPT ![n] = "active"]
    /\ UNCHANGED <<obj, landed, pc, mem, rpc, prior, linkLive, uploads, asks, faults>>
    /\ RowUnchanged

\* Delete forever takes the captures the note's index lists.  The index lags,
\* and a destination not yet written is not in it.
PurgeNote(n) ==
    /\ MayArchive /\ note[n] = "archived"
    /\ note' = [note EXCEPT ![n] = "absent"]
    /\ landed' = [landed EXCEPT ![n] = NoWords]
    /\ \/ RowUnchanged /\ UNCHANGED obj
       \/ row.note = n /\ DropRow /\ obj' = NoObjects
    /\ UNCHANGED <<pc, mem, rpc, prior, linkLive, uploads, asks, faults>>

Clock == Age \/ LeaseEnds \/ LinkEnds
Environment ==
    \/ UploadLands \/ PeaksLand \/ Redeliver \/ Reap \/ Clock \/ AudioExpires
    \/ \E n \in Notes : ArchiveNote(n) \/ RestoreNote(n) \/ PurgeNote(n)

Next ==
    \/ \E d \in Deliveries : Run(d) \/ Fault(d) \/ Crash(d)
    \/ BeginCapture
    \/ \E r \in Requests : Handle(r) \/ Operation(r) \/ InvokeFails(r) \/ RequestDies(r)
    \/ Environment

Spec == Init /\ [][Next]_vars

\* Running code goes on, time passes, and the reconcile task's rule fires.
Fairness ==
    /\ \A d \in Deliveries : WF_vars(Run(d))
    /\ \A r \in Requests : WF_vars(Handle(r))
    /\ WF_vars(Age) /\ WF_vars(LeaseEnds) /\ WF_vars(LinkEnds)
    /\ WF_vars(Reap)
FairSpec == Spec /\ Fairness

-----------------------------------------------------------------------------
(* Properties. *)

\* What a status is to the person who spoke, and the promise of CaptureLife.
LifeOf(status) ==
    CASE status = "unborn" -> "none"
      [] status = "deleted" -> "gone"
      [] status = "appended" -> "filed"
      [] status \in Terminal \ {"appended"} -> "stopped"
      [] OTHER -> "moving"

Life == INSTANCE CaptureLife WITH life <- LifeOf(row.status)

\* The pipeline keeps CaptureLife's promise: a filed capture is never turned
\* into one that stopped, and none that has ended moves again unless a person
\* asked, whatever redeliveries, reaper runs and late writes are in flight.
\* CaptureIsTerminal at the start of a run, the versioned writes and
\* Reaper.fail's second read hold this between them.
KeepsItsPromise == Life!Spec

\* A capture on its way gets somewhere: with running code going on, time
\* passing and the reconcile task coming round, no loss of an upload, an
\* invocation or a claim leaves it pending for good.
Settles == Life!Settles

\* A capture that says appended has its paragraph in its note, and the
\* paragraph is of the transcription last asked for: an attempt that finds the
\* marker of an earlier one does not take it for its own (append's comment on
\* the T7 bug).  Invocations may die and be run again, one after another.
FiledIsWhatWasAsked ==
    row.status = "appended" /\ note[row.note] # "absent" =>
        landed[row.note] # NoWords /\ landed[row.note].asked = row.asked

\* A recording filed into a note that asks for a language was transcribed in
\* it, whether the destination was known from the start, chosen by the router
\* or by a person after the first transcript.
LanguageHonoured ==
    row.status = "appended" /\ row.audio /\ row.note \in OtherLanguage
    /\ landed[row.note] # NoWords =>
        landed[row.note].lang = "other"

\* One recording dictates into one note: two deliveries that route it apart
\* do not both file it, and one whose note went to the trash is not sent to
\* another while its paragraph waits there to be restored.
OneParagraph ==
    \A m, n \in Notes : landed[m] # NoWords /\ landed[n] # NoWords => m = n

\* A key on the row names an object that is there, so every resume path finds
\* what it reads.  The object goes first in every stage.  (Not so while a text
\* is taken in or a capture deleted, where the row goes first or last.)
KeysNameObjects ==
    Exists =>
        /\ row.raw => obj.raw # NoWords
        /\ row.routed => obj.routed # NoWords
        /\ row.clean => obj.clean # NoWords

\* What has been achieved for one request is not undone by a write from an
\* older copy: neither the cleaned text nor the completed append.
ProgressIsKept ==
    [][Exists /\ row'.status \notin Gone /\ row'.asked = row.asked =>
           /\ row.clean => row'.clean
           /\ row.done => row'.done]_vars

\* Once an append is complete no attempt still in flight puts other words in a
\* note.  One may land late, after a duplicate found the paragraph there and
\* completed the claim it took over: it lands the words that are there.  (Here
\* "landed" is what attempts wrote: what a person made of it is not in it.)
SettledStays ==
    [][row.done /\ row'.done /\ row'.asked = row.asked =>
           \A n \in Notes : landed'[n] = landed[n] \/ landed'[n] = NoWords]_vars

\* What a capture has achieved is there, and stays: its keys name objects, its
\* progress is not undone, its settled paragraph keeps its words.
WhatIsDoneStays == []KeysNameObjects /\ ProgressIsKept /\ SettledStays

\* When the lifecycle rule takes a recording, its words are in S3.
WordsOutliveAudio ==
    [][obj.audio /\ obj.processed /\ ~obj'.audio /\ row'.status \notin Gone
           => obj'.raw # NoWords]_vars

\* Audio whose notification is still to be answered when its capture is gone
\* is removed, by that run or its retry.  (A recording written, and its run
\* over, between a delete's last two calls has no such notification left.)
OrphanIsRemoved ==
    row.status = "deleted" /\ obj.audio
    /\ (\E d \in Deliveries : pc[d] = "queued" /\ mem[d].by = "upload")
        ~> ~obj.audio

-----------------------------------------------------------------------------
(* What the repository says that the code does not keep. *)

\* docs/design/retention.md: audio the pipeline never processed is kept
\* whatever its age.  A retry of a row that names no transcript needs it.
AudioIsKept ==
    [][obj.audio /\ obj.processed /\ ~obj'.audio /\ row'.status \notin Gone
           => row.raw]_vars

\* RetranscribeCapture: a re-run that fails at the provider leaves no object
\* the row no longer names.
FailedRerunLeavesNoTranscript ==
    row.status = "failed" /\ row.asked > 0 /\ ~row.raw => obj.raw = NoWords

=============================================================================
