--------------------------- MODULE CaptureMachine ---------------------------
(***************************************************************************)
(* The capture state machine of the web app: a pure reducer from a model   *)
(* and an event to a model.  Every effect (the microphone, the recorder,   *)
(* the disk, the upload) is Recording's.  Clocks, byte counts and wording  *)
(* are left out: "audio" is "some bytes have arrived", "cap" is the tick   *)
(* or the chunk that reaches a limit, and the failure kinds that offer the *)
(* same ways out are one kind.                                             *)
(***************************************************************************)
CONSTANTS
    Recs,       \* the local ids recordings are minted with
    NoRec,      \* no local id
    Targets,    \* where a recording can be sent: notes, and "a new note"
    NewNote     \* the target nobody chose

ASSUME NoRecAssumption == NoRec \notin Recs
ASSUME NewNoteAssumption == NewNote \in Targets

States == {"idle", "requesting", "recording", "paused", "stopping", "review",
           "uploading", "uploaded", "failed"}

\* "device" is permission-denied, no-microphone and unsupported; "lost" is an
\* upload that failed with nothing left to resend.
Failures == {"none", "device", "recorder", "upload", "spend", "lost"}

\* row is the server's capture, by the order it was minted in; 0 is none.
InitialCapture ==
    [state |-> "idle", localId |-> NoRec, audio |-> FALSE, interrupted |-> FALSE,
     micTaken |-> FALSE, failure |-> "none", row |-> 0, target |-> NewNote]

RecordingStates == {"recording", "paused"}

IsLive(m) == m.state = "recording"

HasBufferedAudio(m) == m.audio /\ m.state \in {"review", "uploading", "failed"}

IsCaptureBusy(m) ==
    m.state \in {"requesting", "recording", "paused", "stopping", "uploading"}

Recoverable(m) == m.failure \in {"upload", "spend"}

CanRetryUpload(m) == m.state = "failed" /\ Recoverable(m) /\ m.audio

\* useResendOnReconnect: sent, failed for want of a connection, still here.
AwaitsConnection(m) == CanRetryUpload(m) /\ m.failure = "upload"

Fail(m, kind) == [m EXCEPT !.state = "failed", !.failure = kind]

\* The microphone: asked for, live, refused.
OnMicrophone(m, e) ==
    CASE e.type = "request" ->
           [InitialCapture EXCEPT !.state = "requesting", !.localId = e.rec,
                                  !.target = e.target]
      [] e.type = "streamReady" /\ m.state = "requesting" ->
           [m EXCEPT !.state = "recording"]
      [] e.type = "refused" -> Fail(m, "device")
      [] OTHER -> m

\* The take: chunks, the caps, pause, resume, stop.
OnTake(m, e) ==
    CASE e.type = "cap" /\ m.state = "recording" -> [m EXCEPT !.state = "stopping"]
      [] e.type = "data" /\ m.state \in RecordingStates \cup {"stopping"} ->
           [m EXCEPT !.audio = TRUE, !.state = IF e.full THEN "stopping" ELSE @]
      [] e.type = "pause" /\ m.state = "recording" -> [m EXCEPT !.state = "paused"]
      [] e.type = "resume" /\ m.state = "paused" ->
           [m EXCEPT !.state = "recording", !.micTaken = FALSE]
      [] e.type = "stop" /\ m.state \in RecordingStates ->
           [m EXCEPT !.state = "stopping", !.micTaken = FALSE]
      [] OTHER -> m

\* Mutant: the recorder's own end is heard only while it was wanted.
OnInterruptionMutant(m, e) ==
    CASE e.type = "finalised" /\ m.state \in RecordingStates ->
           IF m.audio THEN [m EXCEPT !.state = "review", !.interrupted = TRUE]
                      ELSE Fail(m, "recorder")
      [] e.type = "recorderError" ->
           IF m.audio THEN [m EXCEPT !.state = "review", !.interrupted = TRUE]
                      ELSE Fail(m, "recorder")
      [] e.type = "trackEnded" /\ m.state \in RecordingStates ->
           [m EXCEPT !.state = "stopping", !.interrupted = TRUE]
      [] OTHER -> m

\* What ends or suspends a take: the last chunk, an encoder or disk fault, the
\* OS taking the track away for good or for a while.
OnInterruption(m, e) ==
    CASE e.type = "finalised" /\ m.state \in RecordingStates ->
           IF m.audio THEN [m EXCEPT !.state = "review", !.interrupted = TRUE]
                      ELSE Fail(m, "recorder")
      [] e.type = "finalised" /\ m.state = "stopping" ->
           IF m.audio THEN [m EXCEPT !.state = "review"] ELSE Fail(m, "recorder")
      [] e.type = "recorderError" ->
           IF m.audio THEN [m EXCEPT !.state = "review", !.interrupted = TRUE]
                      ELSE Fail(m, "recorder")
      [] e.type = "trackEnded" /\ m.state \in RecordingStates ->
           [m EXCEPT !.state = "stopping", !.interrupted = TRUE]
      [] e.type = "trackMuted" /\ m.state = "recording" ->
           [m EXCEPT !.state = "paused", !.micTaken = TRUE]
      [] e.type = "trackUnmuted" /\ m.state = "paused" /\ m.micTaken ->
           [m EXCEPT !.state = "recording", !.micTaken = FALSE]
      [] OTHER -> m

\* The upload.  Note which arms look at the state and which do not.
OnUpload(m, e) ==
    CASE e.type = "uploadStart" /\ m.state \in {"review", "failed"} ->
           [m EXCEPT !.state = "uploading", !.failure = "none"]
      [] e.type = "captureCreated" -> [m EXCEPT !.row = e.row]
      [] e.type = "uploadDone" /\ m.state = "uploading" -> [m EXCEPT !.state = "uploaded"]
      [] e.type = "uploadFailed" -> Fail(m, IF e.recoverable THEN "upload" ELSE "lost")
      [] e.type = "spendCapped" -> Fail(m, "spend")
      [] e.type = "target" /\ m.state \notin {"idle", "uploading", "uploaded"} ->
           [m EXCEPT !.target = e.target]
      [] OTHER -> m

CaptureReducer(m, e) ==
    CASE e.type \in {"request", "streamReady", "refused"} -> OnMicrophone(m, e)
      [] e.type \in {"cap", "data", "pause", "resume", "stop"} -> OnTake(m, e)
      [] e.type \in {"finalised", "recorderError", "trackEnded", "trackMuted",
                     "trackUnmuted"} -> OnInterruption(m, e)
      [] e.type \in {"discard", "reset"} -> InitialCapture
      [] OTHER -> OnUpload(m, e)
=============================================================================
