----------------------------- MODULE Recording -----------------------------
(***************************************************************************)
(* Recording a thought and sending it: the recorder controller, the        *)
(* capture store that drives it, the buffer of chunks on the device, the   *)
(* uploader, and the two places that run it (the store, and the prompt     *)
(* that offers recordings an earlier page left behind), against the        *)
(* server as the uploader sees it.                                         *)
(*                                                                         *)
(* "app" is the page's memory and dies with it; "idb" is the device's      *)
(* disk; "srv" is the server; "truth" is history the properties compare    *)
(* with.  A chunk is a unit: a count of chunks is their content.  Every    *)
(* call of the disk may be refused, and what the code does then is a       *)
(* disjunct of the action: it swallows most refusals.                      *)
(***************************************************************************)
EXTENDS CaptureMachine, Naturals, FiniteSets

CONSTANTS
    MaxChunks,    \* bound: chunks handed over by all recordings together
    MaxRows,      \* bound: captures the server mints for one recording
    MaxFaults,    \* bound: failed disk writes, refused or unanswered calls
    MaxCrashes,   \* bound: times the page is killed and reopened
    MaxMoves,     \* bound: changes of target
    Windows       \* the narrow races let in; see the operators named after them

ASSUME BoundsAssumption ==
    /\ MaxChunks \in Nat \ {0} /\ MaxRows \in Nat \ {0}
    /\ MaxFaults \in Nat /\ MaxCrashes \in Nat /\ MaxMoves \in Nat
    /\ Windows \subseteq {"impatient", "arming", "rekeyed", "unknownRow", "lateMove",
                   "unanswered"}

VARIABLES app, idb, srv, truth, left
vars == <<app, idb, srv, truth, left>>

Rows == 1..MaxRows
Senders == {"store", "prompt"}

NoRecord == [row |-> 0, sent |-> FALSE, target |-> NewNote, kept |-> FALSE]
StoredCapture(m) == [row |-> 0, sent |-> FALSE, target |-> m.target, kept |-> TRUE]

NoUpload == [pc |-> "none", rec |-> NoRec, resume |-> 0, row |-> 0, blob |-> 0,
             target |-> NewNote]

\* A page just opened: the store's first state, no controller, nothing asked.
FreshPage ==
    [model     |-> InitialCapture,
     ctl       |-> [recorder |-> NoRec, stream |-> NoRec, stopping |-> FALSE, byMute |-> FALSE],
     rec       |-> [r \in Recs |-> "none"],
     open      |-> [r \in Recs |-> FALSE],
     starting  |-> [r \in Recs |-> "no"],
     writing   |-> [r \in Recs |-> 0],
     saves     |-> [r \in Recs |-> NoRecord],
     up        |-> [w \in Senders |-> NoUpload],
     sendWhenReviewed |-> FALSE,
     dropping  |-> [rec |-> NoRec, again |-> FALSE, on |-> FALSE],
     listing   |-> [r \in Recs |-> NoRecord],
     relist    |-> TRUE,
     online    |-> TRUE]

NoRow == [st |-> "none", stale |-> FALSE, blob |-> 0, target |-> NewNote]

Init ==
    /\ app = FreshPage
    /\ idb = [chunks |-> [r \in Recs |-> 0], records |-> [r \in Recs |-> NoRecord]]
    /\ srv = [r \in Recs |-> [i \in Rows |-> NoRow]]
    /\ truth = [heard |-> 0, wrote |-> [r \in Recs |-> 0],
                faulty |-> {}, dropped |-> {}, used |-> {}, cancelled |-> {},
                unsaved |-> {}, astray |-> {}, forgotten |-> {}, undropped |-> {},
                unconfirmed |-> {},
                aim |-> [r \in Recs |-> NewNote]]
    /\ left = [faults |-> MaxFaults, crashes |-> MaxCrashes, moves |-> MaxMoves]

(***************************************************************************)
(* The store's dispatch, the controller's methods                          *)
(***************************************************************************)

\* send: only a finished recording, and one upload of the store's at a time.
Send(a) ==
    IF a.model.state \in {"review", "failed"} /\ a.up["store"].pc = "none"
    THEN [a EXCEPT !.up["store"] =
             [NoUpload EXCEPT !.pc = "flush", !.rec = a.model.localId,
                              !.resume = a.model.row, !.target = a.model.target]]
    ELSE a

\* The capture record is rewritten, without a server id, when a take starts,
\* reaches review, is retargeted, or goes on behind a hidden page (which says
\* nothing new here).
Rewrites(b, m, e) ==
    \/ m.state = "recording" /\ b.state = "requesting"
    \/ m.state = "review" /\ b.state # "review"
    \/ e.type = "target" /\ m.state # "requesting"

\* The send asked for with the stop goes out, or is forgotten, as stopping ends.
HandedOff(a, b) ==
    LET c == [b EXCEPT !.sendWhenReviewed = FALSE]
    IN  IF ~(a.sendWhenReviewed /\ a.model.state = "stopping" /\ b.model.state # "stopping")
        THEN b
        ELSE IF b.model.state = "review" THEN Send(c) ELSE c

Moved(a, e, m) ==
    IF m = a.model THEN a
    ELSE HandedOff(a, [a EXCEPT !.model = m,
                                !.saves = IF Rewrites(a.model, m, e) /\ m.localId # NoRec
                                          THEN [@ EXCEPT ![m.localId] = StoredCapture(m)] ELSE @])

Reduced(a, e) == Moved(a, e, CaptureReducer(a.model, e))

Teardown(a) ==
    LET s == a.ctl.stream
    IN  [a EXCEPT !.open = IF s = NoRec THEN @ ELSE [@ EXCEPT ![s] = FALSE],
                  !.ctl.recorder = NoRec, !.ctl.stream = NoRec, !.ctl.byMute = FALSE]

\* stop: once; a recorder already inactive still owes its last chunk and onstop.
LetGo(a) ==
    LET r == a.ctl.recorder
    IN  IF r = NoRec THEN Teardown(Reduced(a, [type |-> "finalised"]))
        ELSE [a EXCEPT !.rec[r] = IF @ \in {"recording", "paused"} THEN "closing" ELSE @]

Stop(a) ==
    IF a.ctl.stopping THEN a
    ELSE LetGo(Reduced([a EXCEPT !.ctl.stopping = TRUE], [type |-> "stop"]))

\* A cap moves the machine to stopping; the store then tells the recorder.
Capped(a, e, b) ==
    IF e.type \in {"cap", "data"} /\ b.model.state = "stopping" /\ a.model.state # "stopping"
    THEN Stop(b) ELSE b

Dispatch(a, e) == Capped(a, e, Reduced(a, e))

\* cancel: every handler comes off before the recorder is stopped.
Cancel(a) ==
    LET r == a.ctl.recorder
        b == [a EXCEPT !.ctl.stopping = TRUE,
                       !.rec = IF r = NoRec THEN @ ELSE [@ EXCEPT ![r] = "none"]]
    IN  Teardown(b)

\* Reports an upload's event: the store's own goes to the machine, the prompt's
\* only to the prompt.
Report(a, who, e) == IF who = "store" THEN Dispatch(a, e) ELSE a

NoFault == UNCHANGED left
Fault == left.faults > 0 /\ left' = [left EXCEPT !.faults = @ - 1]

\* Race windows.  A person who records again before an abandoned request for
\* the microphone was answered; the OS acting on the track, or a chunk, while
\* the wake lock is awaited; a fault after a resend had to be re-keyed; another
\* device deleting a row the sender never learnt of, or could not ask about; a
\* recording moved when the prompt has listed it or an attempt has begun; a
\* landed row that could not be asked about once its credential was dead.
Patient(a) ==
    \/ "impatient" \in Windows
    \/ \A r \in Recs : a.starting[r] = "no" /\ a.rec[r] \notin {"closing", "closed"}
Settled(a, r) == "arming" \in Windows \/ a.starting[r] # "arming"
MayFail(i) == "rekeyed" \in Windows \/ i <= 1
KnowsRow(r, i) ==
    \/ "unknownRow" \in Windows
    \/ idb.records[r].row = i /\ (app.model.localId = r => app.model.row = i)

MayMove(r) ==
    \/ "lateMove" \in Windows
    \/ /\ ~app.listing[r].kept /\ srv[r][1].st = "none"
       /\ \A who \in Senders : app.up[who].rec # r
MayMiss(row) ==
    /\ "unknownRow" \in Windows \/ row.st # "deleted"
    /\ "unanswered" \in Windows \/ row.st # "filing" \/ ~row.stale

(***************************************************************************)
(* Recording                                                               *)
(***************************************************************************)

\* A tap takes longer than a flush, a send's or a discard's.
Taps == ~app.dropping.on /\ app.up["store"].pc # "flush"

Started(a, r, t) ==
    [Reduced(a, [type |-> "request", rec |-> r, target |-> t]) EXCEPT
        !.ctl.stopping = FALSE, !.starting[r] = "asking"]

\* Opening /capture, a hold of the disc, Try again after a refusal.
Arm(r, t) ==
    /\ Taps /\ r \notin truth.used /\ Patient(app)
    /\ ~HasBufferedAudio(app.model) /\ ~IsCaptureBusy(app.model)
    /\ app' = Started(app, r, t)
    /\ truth' = [truth EXCEPT !.used = @ \cup {r}, !.aim[r] = t]
    /\ UNCHANGED <<idb, srv, left>>

\* Mutant: a cancel during the permission prompt goes unseen.
MicrophoneOpensMutant(r) ==
    /\ app.starting[r] = "asking"
    /\ app' = [app EXCEPT !.starting[r] = "arming", !.open[r] = TRUE, !.rec[r] = "recording",
                          !.ctl.stream = r, !.ctl.recorder = r]
    /\ UNCHANGED <<idb, srv, truth, left>>

\* getUserMedia answers: a cancel raised meanwhile wins, as far as it is seen.
MicrophoneOpens(r) ==
    /\ app.starting[r] = "asking"
    /\ app' = IF app.ctl.stopping THEN [app EXCEPT !.starting[r] = "no"]
              ELSE [app EXCEPT !.starting[r] = "arming", !.open[r] = TRUE,
                               !.rec[r] = "recording",
                               !.ctl.stream = r, !.ctl.recorder = r]
    /\ UNCHANGED <<idb, srv, truth, left>>

MicrophoneRefused(r) ==
    /\ app.starting[r] = "asking"
    /\ app' = Dispatch([app EXCEPT !.starting[r] = "no"], [type |-> "refused"])
    /\ UNCHANGED <<idb, srv, truth, left>>

\* The wake lock is held: only now is it a recording.
Armed(r) ==
    /\ app.starting[r] = "arming"
    /\ LET a == [app EXCEPT !.starting[r] = "no"]
       IN  app' = IF a.ctl.stopping THEN Teardown(a)
                  ELSE Dispatch(a, [type |-> "streamReady"])
    /\ UNCHANGED <<idb, srv, truth, left>>

\* ondataavailable: the machine is told, and the chunk sets out for the disk.
HandOver(a, r, full) ==
    Dispatch([a EXCEPT !.writing[r] = @ + 1], [type |-> "data", full |-> full])

Hears ==
    /\ truth.heard < MaxChunks
    /\ truth' = [truth EXCEPT !.heard = @ + 1]

Chunk(r, full) ==
    /\ app.rec[r] = "recording" /\ Settled(app, r) /\ Hears
    /\ app' = HandOver(app, r, full)
    /\ UNCHANGED <<idb, srv, left>>

\* Writes of one recording reach the disk in the order they were asked for.
ChunkStored(r) ==
    /\ app.writing[r] > 0 /\ ~app.saves[r].kept
    /\ app' = [app EXCEPT !.writing[r] = @ - 1]
    /\ idb' = [idb EXCEPT !.chunks[r] = @ + 1]
    /\ truth' = [truth EXCEPT !.wrote[r] = @ + 1]
    /\ UNCHANGED <<srv, left>>

ChunkLost(r) ==
    /\ app.writing[r] > 0 /\ Fault
    /\ app' = Stop(Dispatch([app EXCEPT !.writing[r] = @ - 1], [type |-> "recorderError"]))
    /\ truth' = [truth EXCEPT !.faulty = @ \cup {r}]
    /\ UNCHANGED <<idb, srv>>

\* saveCaptureRecord: refused, the recording goes on with the record it had,
\* or with none, and nobody is told.
RecordSaved(r) ==
    /\ app.saves[r].kept
    /\ app' = [app EXCEPT !.saves[r] = NoRecord]
    /\ \/ /\ idb' = [idb EXCEPT !.records[r] = app.saves[r]]
          /\ truth' = [truth EXCEPT !.unsaved = @ \ {r}] /\ NoFault
       \/ /\ truth' = [truth EXCEPT !.unsaved = @ \cup {r}] /\ Fault
          /\ UNCHANGED idb
    /\ UNCHANGED srv

EncoderFault(r) ==
    /\ app.rec[r] \in {"recording", "paused"} /\ Settled(app, r) /\ Fault
    /\ app' = Stop(Dispatch([app EXCEPT !.rec[r] = "closing"], [type |-> "recorderError"]))
    /\ truth' = [truth EXCEPT !.faulty = @ \cup {r}]
    /\ UNCHANGED <<idb, srv>>

\* The platform ends the recorder itself: a page thawed after the screen locked.
PlatformStops(r) ==
    /\ app.rec[r] \in {"recording", "paused"} /\ Settled(app, r)
    /\ app' = [app EXCEPT !.rec[r] = "closing"]
    /\ UNCHANGED <<idb, srv, truth, left>>

FinalChunk(r) ==
    /\ app.rec[r] = "closing"
    /\ \/ /\ app' = HandOver([app EXCEPT !.rec[r] = "closed"], r, FALSE)
          /\ Hears
       \/ /\ app' = [app EXCEPT !.rec[r] = "closed"]
          /\ UNCHANGED truth
    /\ UNCHANGED <<idb, srv, left>>

RecorderStopped(r) ==
    /\ app.rec[r] = "closed"
    /\ app' = Teardown(Dispatch([app EXCEPT !.rec[r] = "none"], [type |-> "finalised"]))
    /\ UNCHANGED <<idb, srv, truth, left>>

TrackEnded(r) ==
    /\ app.open[r] /\ Settled(app, r)
    /\ app' = Stop(Dispatch(
                 [app EXCEPT !.open[r] = FALSE,
                             !.rec[r] = IF @ \in {"recording", "paused"} THEN "closing" ELSE @],
                 [type |-> "trackEnded"]))
    /\ UNCHANGED <<idb, srv, truth, left>>

\* A mute pauses the recorder, and only such a pause is undone by the unmute.
TrackMuted(r) ==
    /\ app.open[r] /\ Settled(app, r)
    /\ LET c == app.ctl.recorder
           held == c # NoRec /\ app.rec[c] = "recording"
           a == IF held THEN [app EXCEPT !.rec[c] = "paused", !.ctl.byMute = TRUE] ELSE app
       IN  app' = Dispatch(a, [type |-> "trackMuted"])
    /\ UNCHANGED <<idb, srv, truth, left>>

TrackUnmuted(r) ==
    /\ app.open[r] /\ Settled(app, r)
    /\ LET c == app.ctl.recorder
           held == c # NoRec /\ app.ctl.byMute /\ app.rec[c] = "paused"
           a == IF held THEN [app EXCEPT !.rec[c] = "recording"] ELSE app
       IN  app' = Dispatch([a EXCEPT !.ctl.byMute = FALSE], [type |-> "trackUnmuted"])
    /\ UNCHANGED <<idb, srv, truth, left>>

DurationCap ==
    /\ app.model.state = "recording"
    /\ app' = Dispatch(app, [type |-> "cap"])
    /\ UNCHANGED <<idb, srv, truth, left>>

Pause ==
    /\ Taps /\ app.model.state = "recording"
    /\ LET c == app.ctl.recorder
       IN  /\ c # NoRec /\ app.rec[c] = "recording"
           /\ app' = Dispatch([app EXCEPT !.rec[c] = "paused"], [type |-> "pause"])
    /\ UNCHANGED <<idb, srv, truth, left>>

Resume ==
    /\ Taps /\ app.model.state = "paused"
    /\ LET c == app.ctl.recorder
       IN  /\ c # NoRec /\ app.rec[c] = "paused"
           /\ app' = Dispatch([app EXCEPT !.rec[c] = "recording", !.ctl.byMute = FALSE],
                              [type |-> "resume"])
    /\ UNCHANGED <<idb, srv, truth, left>>

StopTap ==
    /\ Taps /\ app.model.state \in RecordingStates
    /\ app' = Stop(app)
    /\ UNCHANGED <<idb, srv, truth, left>>

\* handOff: Stop and Send from a live take, Send from a finished one, Retry.
SendTap ==
    /\ Taps
    /\ \/ /\ app.model.state \in RecordingStates
          /\ app' = Stop([app EXCEPT !.sendWhenReviewed = TRUE])
       \/ /\ app.model.state = "review" \/ CanRetryUpload(app.model)
          /\ app' = Send(app)
    /\ UNCHANGED <<idb, srv, truth, left>>

\* The chooser, open until the upload begins.
Retarget(t) ==
    /\ Taps /\ left.moves > 0 /\ t # app.model.target
    /\ app.model.state \in {"requesting", "recording", "paused", "stopping", "review"}
    /\ MayMove(app.model.localId)
    /\ app' = Dispatch(app, [type |-> "target", target |-> t])
    /\ left' = [left EXCEPT !.moves = @ - 1]
    /\ truth' = [truth EXCEPT !.aim[app.model.localId] = t]
    /\ UNCHANGED <<idb, srv>>

\* Cancel, Discard, Close, Re-record: the recorder is let go at once; the buffer
\* is dropped when the chunks on their way have landed.
DiscardTap(again) ==
    /\ Taps
    /\ app.model.state \in IF again THEN {"review"}
                           ELSE {"requesting", "recording", "paused", "review", "failed"}
    /\ LET a == Cancel(app)
       IN  app' = [a EXCEPT !.dropping = [rec |-> a.model.localId, again |-> again, on |-> TRUE]]
    /\ truth' = [truth EXCEPT !.dropped = @ \cup ({app.model.localId} \ {NoRec}),
                              !.cancelled = @ \cup ({app.model.localId} \ {NoRec})]
    /\ UNCHANGED <<idb, srv, left>>

\* Mutant: nobody waits for the chunks on their way.
FlushedMutant(a) == TRUE

Flushed(a) == \A r \in Recs : a.writing[r] = 0

DiscardCapture(r) ==
    idb' = IF r = NoRec THEN idb
           ELSE [idb EXCEPT !.chunks[r] = 0, !.records[r] = NoRecord]

\* The disk refuses it: the chunks stay, or they went and the record stays.
DiscardRefused(r) ==
    /\ r # NoRec /\ Fault
    /\ idb' \in {idb, [idb EXCEPT !.chunks[r] = 0]}

\* The take is gone from the screen; Re-record starts the next into its target.
\* Bound: no id may be left for it.
Gone(again, t) ==
    LET a == [Reduced(app, [type |-> "discard"]) EXCEPT !.dropping = FreshPage.dropping]
    IN  \/ /\ ~again \/ Recs \subseteq t.used
           /\ app' = a /\ truth' = t
        \/ \E r \in Recs \ t.used :
              /\ again
              /\ app' = Started(a, r, app.model.target)
              /\ truth' = [t EXCEPT !.used = @ \cup {r}, !.aim[r] = app.model.target]

\* discard: what the disk answers is swallowed.
DiscardDone ==
    /\ app.dropping.on /\ Flushed(app)
    /\ \A r \in Recs : r = app.dropping.rec => ~app.saves[r].kept
    /\ LET d == app.dropping
       IN  \/ /\ DiscardCapture(d.rec) /\ NoFault
              /\ Gone(d.again, [truth EXCEPT !.forgotten = @ \cup ({d.rec} \ {NoRec})])
           \/ /\ DiscardRefused(d.rec)
              /\ Gone(d.again, [truth EXCEPT !.undropped = @ \cup {d.rec}])
    /\ UNCHANGED srv

\* The finished capture is the filing row's: the screen that goes away, or the
\* row that takes over, releases the machine.
Release ==
    /\ app.model.state = "uploaded"
    /\ app' = Dispatch(app, [type |-> "reset"])
    /\ UNCHANGED <<idb, srv, truth, left>>

(***************************************************************************)
(* The unsent recordings prompt                                            *)
(***************************************************************************)

Unsent(r) == idb.records[r].kept /\ ~idb.records[r].sent

\* unconfirmedCaptures: records with audio are listed; empty ones past their
\* minute (no write lasts that long), and not the store's own, are dropped.
\* Read when the app opens and when asked for again.
ListUnsent ==
    /\ app.relist /\ \A r \in Recs : ~app.saves[r].kept
    /\ \E old \in BOOLEAN :
          idb' = [idb EXCEPT !.records = [r \in Recs |->
                    IF old /\ Unsent(r) /\ idb.chunks[r] = 0 /\ r # app.model.localId
                          /\ app.writing[r] = 0 /\ app.rec[r] = "none"
                    THEN NoRecord ELSE @[r]]]
    /\ app' = [app EXCEPT !.relist = FALSE, !.listing = [r \in Recs |->
                    IF Unsent(r) /\ idb.chunks[r] > 0 THEN idb.records[r] ELSE NoRecord]]
    /\ truth' = [truth EXCEPT !.astray = @ \cup truth.unsaved]
    /\ UNCHANGED <<srv, left>>

\* What the store is sending, has sent or may retry is the filing row's.
Owned(m) == IsCaptureBusy(m) \/ m.state \in {"uploaded", "failed"}

\* A list asked for again is awaited: a tap takes longer than the disk.
Offered(r) == ~app.relist /\ app.listing[r].kept /\ ~(Owned(app.model) /\ app.model.localId = r)

\* No flush here: a tap is taken to come after the take's last write landed.
PromptSend(r) ==
    /\ Offered(r) /\ app.up["prompt"].pc = "none" /\ app.writing[r] = 0
    /\ app' = [app EXCEPT !.up["prompt"] =
                 [NoUpload EXCEPT !.pc = "assemble", !.rec = r,
                                  !.resume = app.listing[r].row,
                                  !.target = app.listing[r].target]]
    /\ UNCHANGED <<idb, srv, truth, left>>

\* Refused, the list is not read again and goes on offering it.
PromptDiscard(r) ==
    /\ Offered(r) /\ app.up["prompt"].pc = "none"
    /\ \/ /\ DiscardCapture(r) /\ NoFault
          /\ app' = [app EXCEPT !.relist = TRUE]
          /\ truth' = [truth EXCEPT !.dropped = @ \cup {r}, !.forgotten = @ \cup {r}]
       \/ /\ DiscardRefused(r)
          /\ truth' = [truth EXCEPT !.dropped = @ \cup {r}]
          /\ UNCHANGED app
    /\ UNCHANGED srv

(***************************************************************************)
(* One upload, by either sender                                            *)
(***************************************************************************)

Goes(who, pc) == [app EXCEPT !.up[who].pc = pc]
\* The prompt reads its list again after a send; the filing row, once it landed.
Ends(who, e) ==
    Report([app EXCEPT !.up[who] = NoUpload,
                       !.relist = @ \/ who = "prompt" \/ e.type = "uploadDone"], who, e)
Retryable == [type |-> "uploadFailed", recoverable |-> TRUE]
Hopeless == [type |-> "uploadFailed", recoverable |-> FALSE]

\* The buffer is assembled when nothing is still on its way to it.  One that
\* cannot be read is given up on like an empty one, its chunks still there.
Assemble(who) ==
    /\ app.up[who].pc = "assemble" \/ (app.up[who].pc = "flush" /\ Flushed(app))
    /\ LET u == app.up[who]
           n == idb.chunks[u.rec]
           a == Report(app, who, [type |-> "uploadStart"])
       IN  \/ /\ IF n = 0 THEN NoFault ELSE Fault
              /\ app' = Report([a EXCEPT !.up[who] = NoUpload,
                                         !.relist = @ \/ who = "prompt"], who, Hopeless)
           \/ /\ n > 0 /\ NoFault
              /\ app' = [a EXCEPT !.up[who].blob = n,
                                  !.up[who].pc = IF u.resume = 0 THEN "create" ELSE "check"]
    /\ UNCHANGED <<idb, srv, truth>>

\* Mutant: a row that exists is taken for audio that landed.
CheckMutantLanded(who) ==
    /\ app.up[who].pc = "check"
    /\ LET u == app.up[who]
           st == srv[u.rec][u.resume].st
       IN  \/ /\ app.online /\ st # "deleted" /\ app' = Goes(who, "confirm") /\ NoFault
           \/ /\ app.online /\ st = "deleted" /\ app' = Goes(who, "rekey") /\ NoFault
    /\ UNCHANGED <<idb, srv, truth>>

\* landedState: a row past "uploaded" has the audio; a row deleted is re-keyed;
\* an unanswered question counts as "waiting".
Check(who) ==
    /\ app.up[who].pc = "check"
    /\ LET u == app.up[who]
           row == srv[u.rec][u.resume]
           st == row.st
       IN  \/ /\ app.online /\ st = "filing" /\ app' = Goes(who, "confirm") /\ NoFault
           \/ /\ app.online /\ st = "deleted" /\ app' = Goes(who, "rekey") /\ NoFault
           \/ /\ app.online /\ st = "uploaded" /\ app' = Goes(who, "create") /\ NoFault
           \/ /\ app' = Goes(who, "create") /\ MayMiss(row) /\ MayFail(u.resume) /\ Fault
           \/ /\ ~app.online /\ NoFault
              /\ app' = IF MayMiss(row) THEN Goes(who, "create") ELSE Ends(who, Retryable)
    /\ UNCHANGED <<idb, srv, truth>>

Minted(r, i, t) == [srv EXCEPT ![r][i] = [NoRow EXCEPT !.st = "uploaded", !.target = t]]

\* A fresh key: the next capture (MaxRows is the bound).
FreshRow(r, i) == i > 1 /\ srv[r][i].st = "none" /\ \A j \in 2..(i - 1) : srv[r][j].st # "none"

\* The client has the answer: the row is told to the machine, the record and
\* the library's memory of targeted captures follow.
Created(who, i) ==
    Report([app EXCEPT !.up[who].pc = "save", !.up[who].row = i], who,
           [type |-> "captureCreated", row |-> i])

\* createCapture under the local id: minted once, replayed ever after, its
\* credential included.  A resume handed a dead credential asks again, re-keyed.
\* What the browser has queued comes before any answer of the network.
Delivered(r) ==
    app.rec[r] \notin {"closing", "closed"} /\ app.writing[r] = 0 /\ ~app.saves[r].kept

Create(who) ==
    /\ app.up[who].pc = "create" /\ app.online /\ Delivered(app.up[who].rec)
    /\ LET u == app.up[who]
           r == u.rec
           known == srv[r][1].st # "none"
       IN  \/ /\ srv' = IF known THEN srv ELSE Minted(r, 1, u.target)
              /\ IF ~(known /\ srv[r][1].stale) THEN app' = Created(who, 1)
                 ELSE app' = IF u.resume = 0 THEN Ends(who, Retryable) ELSE Goes(who, "rekey")
              /\ NoFault
           \/ \* the answer is lost; the row may be there
              /\ srv' \in {srv, IF known THEN srv ELSE Minted(r, 1, u.target)}
              /\ app' = Ends(who, Retryable) /\ Fault
    /\ UNCHANGED <<idb, truth>>

Rekey(who) ==
    /\ app.up[who].pc = "rekey" /\ app.online
    /\ LET u == app.up[who]
       IN  \E i \in Rows :
              /\ FreshRow(u.rec, i)
              /\ srv' = Minted(u.rec, i, u.target)
              /\ app' = Created(who, i)
    /\ UNCHANGED <<idb, truth, left>>

\* The day's spend is reserved: a create is refused.
SpendCapped(who) ==
    /\ app.up[who].pc \in {"create", "rekey"} /\ app.online /\ Fault
    /\ app' = Ends(who, [type |-> "spendCapped"])
    /\ UNCHANGED <<idb, srv, truth>>

\* No connection: the create or the PUT gives up.
Disconnected(who) ==
    /\ app.up[who].pc \in {"create", "rekey", "put"} /\ ~app.online
    /\ app' = Ends(who, Retryable)
    /\ UNCHANGED <<idb, srv, truth, left>>

\* The record points at the server's capture before the bytes move; refused,
\* the upload goes on all the same.
SaveRow(who) ==
    /\ app.up[who].pc = "save"
    /\ LET u == app.up[who]
       IN  /\ ~app.saves[u.rec].kept
           /\ \/ /\ idb' = [idb EXCEPT !.records[u.rec] =
                           [row |-> u.row, sent |-> FALSE, target |-> u.target, kept |-> TRUE]]
                 /\ NoFault
              \/ /\ MayFail(u.row) /\ Fault
                 /\ UNCHANGED idb
    /\ app' = Goes(who, "put")
    /\ UNCHANGED <<srv, truth>>

\* An object for a deleted row is an orphan, and is removed.
Stored(r, i, n) == IF srv[r][i].st = "deleted" THEN srv ELSE [srv EXCEPT ![r][i].blob = n]

Put(who) ==
    /\ app.up[who].pc = "put" /\ app.online
    /\ LET u == app.up[who]
       IN  \/ /\ srv[u.rec][u.row].stale
              /\ app' = Ends(who, Retryable) /\ UNCHANGED srv /\ NoFault
           \/ /\ ~srv[u.rec][u.row].stale
              /\ srv' = Stored(u.rec, u.row, u.blob) /\ app' = Goes(who, "confirm") /\ NoFault
           \/ \* landed or not, no answer came
              /\ ~srv[u.rec][u.row].stale /\ MayFail(u.row)
              /\ srv' \in {srv, Stored(u.rec, u.row, u.blob)}
              /\ app' = Ends(who, Retryable) /\ Fault
    /\ UNCHANGED <<idb, truth>>

\* Nobody catches a refusal of confirm: the upload's promise rejects, no event
\* is emitted and no list is read again.  (The prompt's row is busy until it is
\* mounted again, which is taken to be at once.)
Unconfirmed(who) ==
    /\ Fault
    /\ app' = [app EXCEPT !.up[who] = NoUpload]
    /\ truth' = [truth EXCEPT !.unconfirmed = @ \cup {app.up[who].rec}]
    /\ UNCHANGED idb

\* confirmUploaded: the record is marked, then the chunks go.
Confirm(who) ==
    /\ app.up[who].pc = "confirm" /\ ~app.saves[app.up[who].rec].kept
    /\ LET r == app.up[who].rec
       IN  \/ /\ idb' = [idb EXCEPT !.records[r].sent = idb.records[r].kept]
              /\ app' = Goes(who, "prune") /\ NoFault /\ UNCHANGED truth
           \/ Unconfirmed(who)
    /\ UNCHANGED srv

Prune(who) ==
    /\ app.up[who].pc = "prune"
    /\ \/ /\ idb' = [idb EXCEPT !.chunks[app.up[who].rec] = 0]
          /\ app' = Ends(who, [type |-> "uploadDone"]) /\ NoFault /\ UNCHANGED truth
       \/ Unconfirmed(who)
    /\ UNCHANGED srv

(***************************************************************************)
(* The world                                                               *)
(***************************************************************************)

GoOffline ==
    /\ app.online /\ Fault /\ \A who \in Senders : MayFail(app.up[who].row)
    /\ app' = [app EXCEPT !.online = FALSE]
    /\ UNCHANGED <<idb, srv, truth>>

\* useResendOnReconnect: one attempt for a recording already sent.
GoOnline ==
    /\ ~app.online /\ Taps
    /\ LET a == [app EXCEPT !.online = TRUE]
       IN  app' = IF AwaitsConnection(a.model) THEN Send(a) ELSE a
    /\ UNCHANGED <<idb, srv, truth, left>>

\* The store event for the object starts the pipeline.
ObjectEvent(r, i) ==
    /\ srv[r][i].st = "uploaded" /\ srv[r][i].blob > 0
    /\ srv' = [srv EXCEPT ![r][i].st = "filing"]
    /\ UNCHANGED <<app, idb, truth, left>>

\* A credential lasts thirty minutes, and no PUT does: by then the event of an
\* object that landed has long since come.
Expire(r, i) ==
    /\ srv[r][i].st # "none" /\ ~srv[r][i].stale
    /\ srv[r][i].st = "uploaded" => srv[r][i].blob = 0
    /\ \A w \in Senders : app.up[w].rec # r
    /\ srv' = [srv EXCEPT ![r][i].stale = TRUE]
    /\ UNCHANGED <<app, idb, truth, left>>

\* Another device deletes the row of a recording that has not arrived.  While
\* an upload that has looked at the row is running, that gives the words up.
RowDeleted(r, i) ==
    /\ srv[r][i].st = "uploaded" /\ srv[r][i].blob = 0 /\ KnowsRow(r, i) /\ Fault
    /\ srv' = [srv EXCEPT ![r][i].st = "deleted"]
    /\ truth' = [truth EXCEPT !.dropped =
                   IF \E w \in Senders : app.up[w].rec = r THEN @ \cup {r} ELSE @]
    /\ UNCHANGED <<app, idb>>

\* The tab is reloaded, or the OS jettisons it: memory goes, the disk stays, and
\* a write on its way is lost with what it was to say.
Crash ==
    /\ left.crashes > 0 /\ \A who \in Senders : MayFail(app.up[who].row)
    /\ left' = [left EXCEPT !.crashes = @ - 1]
    /\ app' = FreshPage
    /\ truth' = [truth EXCEPT !.cancelled = @ \ {app.dropping.rec},
                              !.astray = @ \cup {r \in Recs : app.saves[r].kept}]
    /\ UNCHANGED <<idb, srv>>

UploadStep(who) ==
    \/ Assemble(who) \/ Check(who) \/ Create(who) \/ Rekey(who) \/ SaveRow(who)
    \/ Put(who) \/ Confirm(who) \/ Prune(who)

Next ==
    \/ \E r \in Recs, t \in Targets : Arm(r, t)
    \/ \E r \in Recs, full \in BOOLEAN : Chunk(r, full)
    \/ \E r \in Recs :
          \/ MicrophoneOpens(r) \/ MicrophoneRefused(r) \/ Armed(r)
          \/ ChunkStored(r) \/ ChunkLost(r) \/ RecordSaved(r) \/ EncoderFault(r)
          \/ PlatformStops(r) \/ FinalChunk(r) \/ RecorderStopped(r)
          \/ TrackEnded(r) \/ TrackMuted(r) \/ TrackUnmuted(r)
          \/ PromptSend(r) \/ PromptDiscard(r)
    \/ DurationCap \/ Pause \/ Resume \/ StopTap \/ SendTap
    \/ \E t \in Targets : Retarget(t)
    \/ \E again \in BOOLEAN : DiscardTap(again)
    \/ DiscardDone \/ Release \/ ListUnsent
    \/ \E who \in Senders : UploadStep(who) \/ SpendCapped(who) \/ Disconnected(who)
    \/ GoOffline \/ GoOnline \/ Crash
    \/ \E r \in Recs, i \in Rows : ObjectEvent(r, i) \/ Expire(r, i) \/ RowDeleted(r, i)

Spec == Init /\ [][Next]_vars

\* The browser delivers what it queued, the disk and the calls answer, and a
\* flush that is over lets its discard finish.
FairSpec ==
    /\ Spec
    /\ \A r \in Recs :
          /\ WF_vars(FinalChunk(r) \/ RecorderStopped(r))
          /\ WF_vars(ChunkStored(r) \/ ChunkLost(r) \/ RecordSaved(r))
    /\ WF_vars(DiscardDone)
    /\ \A who \in Senders : WF_vars(UploadStep(who) \/ Disconnected(who))

(***************************************************************************)
(* Properties                                                              *)
(***************************************************************************)

Uploads == [pc : {"none", "flush", "assemble", "check", "create", "rekey", "save",
                  "put", "confirm", "prune"},
            rec : Recs \cup {NoRec}, resume : 0..MaxRows, row : 0..MaxRows,
            blob : 0..MaxChunks, target : Targets]

Records == [row : 0..MaxRows, sent : BOOLEAN, target : Targets, kept : BOOLEAN]

\* The type of the state.
TypeOK ==
    /\ app.model \in [state : States, localId : Recs \cup {NoRec}, audio : BOOLEAN,
                      interrupted : BOOLEAN, micTaken : BOOLEAN, failure : Failures,
                      row : 0..MaxRows, target : Targets]
    /\ app.ctl \in [recorder : Recs \cup {NoRec}, stream : Recs \cup {NoRec},
                    stopping : BOOLEAN, byMute : BOOLEAN]
    /\ app.rec \in [Recs -> {"none", "recording", "paused", "closing", "closed"}]
    /\ app.open \in [Recs -> BOOLEAN]
    /\ app.starting \in [Recs -> {"no", "asking", "arming"}]
    /\ app.writing \in [Recs -> 0..MaxChunks] /\ app.saves \in [Recs -> Records]
    /\ app.up \in [Senders -> Uploads] /\ app.relist \in BOOLEAN /\ app.listing \in [Recs -> Records]
    /\ idb \in [chunks : [Recs -> 0..MaxChunks], records : [Recs -> Records]]
    /\ srv \in [Recs -> [Rows -> [st : {"none", "uploaded", "filing", "deleted"},
                                  stale : BOOLEAN, blob : 0..MaxChunks,
                                  target : Targets]]]

\* Where the words of a recording are.
Custody == [r \in Recs |->
    LET server == \E i \in Rows : srv[r][i].blob > 0 /\ srv[r][i].st # "deleted"
        device == idb.chunks[r] > 0
    IN  CASE r \in truth.dropped -> "dropped"
          [] server /\ device -> "both"
          [] server -> "server"
          [] device -> "device"
          [] OTHER -> "none"]

Promise == INSTANCE AudioCustody WITH custody <- Custody

\* The detailed machine keeps the abstract one's promise: words once on the
\* device never vanish, and leave it only when the server has them.
AudioSurvives == Promise!Spec

\* One recording is filed once, however often and from wherever it is resent.
SentOnce == \A r \in Recs : Cardinality({i \in Rows : srv[r][i].st = "filing"}) <= 1

\* What the server was given is every chunk that reached the disk, unless the
\* encoder or the disk failed under the take: a send waits for the last chunk.
SentWhole ==
    \A r \in Recs \ (truth.faulty \cup truth.dropped) : \A i \in Rows :
        srv[r][i].blob > 0 => srv[r][i].blob = truth.wrote[r]

\* The microphone is never left open: a live stream is the controller's to
\* close, and the screen shows its recording or its last chunk is due.
MicrophoneReleased ==
    \A r \in Recs : app.open[r] =>
        /\ app.ctl.stream = r
        /\ \/ app.model.localId = r /\ app.model.state \in
                  {"requesting", "recording", "paused", "stopping"}
           \/ app.rec[r] \in {"closing", "closed"}

\* The screen does not say Recording over a paused recorder, nor Paused over
\* one that runs.
ScreenTellsTruth ==
    LET c == app.ctl.recorder
    IN  c # NoRec =>
          /\ app.model.state = "recording" => app.rec[c] # "paused"
          /\ app.model.state = "paused" => app.rec[c] # "recording"

\* A discarded take leaves nothing on the disk, the chunk that was on its way
\* when Cancel was tapped included, unless the disk refused to let it go.
DiscardIsClean ==
    \A r \in truth.cancelled \ truth.undropped :
        ~(app.dropping.on /\ app.dropping.rec = r) =>
            idb.chunks[r] = 0 /\ app.writing[r] = 0

\* Audio on the disk can be found again, what a refused discard left there too:
\* a record names it, or is on its way, unless a discard took the record or the
\* disk refused the last one written.
AudioIsReachable ==
    \A r \in Recs \ (truth.unsaved \cup truth.forgotten) :
        idb.chunks[r] > 0 => idb.records[r].kept \/ app.saves[r].kept

\* The words arrive where the person last aimed them, whoever sends them, unless
\* they were sent from a record whose last rewrite never reached the disk.
ArrivesWhereChosen ==
    [][\A r \in Recs \ truth.astray, i \in Rows : srv[r][i].blob = 0 /\ srv'[r][i].blob > 0
          => srv[r][i].target = truth.aim[r]]_vars

\* The words are filed once and whole, where they were last aimed, also when the
\* record that holds the row's id or says they were sent could not be written.
SentAsMeant == [](SentOnce /\ SentWhole) /\ ArrivesWhereChosen

\* A take on the device: its audio can be found or is gone on purpose, the
\* screen says what the recorder does, and no microphone outlives its owner.
TakeInv ==
    /\ TypeOK /\ AudioIsReachable /\ DiscardIsClean
    /\ ScreenTellsTruth /\ MicrophoneReleased

\* A stop is answered, with a take to review or a failure that says so; and a
\* send is, offline or not, unless the disk refused what ends it (SendsEnd).
TakesEnd ==
    /\ []<>(app.model.state # "stopping")
    /\ []<>(app.model.state = "uploading" => app.model.localId \in truth.unconfirmed)

-----------------------------------------------------------------------------
(* What the repository says that the code does not keep. *)

\* store.ts, send: "Only a finished recording is sent", and never a buffer
\* "the recorder was still writing to".
OnlyFinishedIsSent ==
    \A who \in Senders, r \in Recs :
        (app.up[who].rec = r /\ app.up[who].pc \notin {"none", "flush"})
            => app.rec[r] \notin {"recording", "paused"}

\* uploader.ts, after the create: "A failed bookkeeping write must not abort a
\* good upload."  The last one does: a refused confirm rejects the upload's
\* promise, and the machine says Sending until the page goes.
SendsEnd == []<>(app.model.state # "uploading")
=============================================================================
