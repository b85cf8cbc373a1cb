# Chintan: models, checks and proofs

Chintan turns spoken recordings into notes. A phone records, uploads, and files a
recording; a worker transcribes it, finds the note it belongs to, cleans the text
and appends it; a person edits the same notes from several devices, online and off.
Everything that can go wrong here is about two writers of one thing: two deliveries
of one recording, a worker and an editor, two devices, a request and its retry.

This directory models those parts of the program in TLA+, checks the models on small
instances with TLC, and proves what matters most for every instance with TLAPS.
`PROJECT.json` ties every definition to the lines it stands for, lists the runs, the
hazards each property is for and the theorems.

    tlc -workers 4 -config Races.cfg NoteAppendMC           # any run: its cfg, its module
    tlc -workers 4 -config Duplicates.cfg CapturePipelineMC
    tlc -workers 4 -config Device.cfg AppMC
    tlapm NoteAppend_proofs.tla                             # any module named *_proofs

## The system

| Component | State | Operations | Hard because |
|---|---|---|---|
| Pipeline (`backend/internal/pipeline`) | one invocation's copy of a capture row and of its note | the stages transcribe, route, destination, retranscribe, strip, clean, append; each writes an artefact to S3, then the row | Lambda delivers at least once, kills at 15 minutes, retries twice; every row write may lose a version race |
| Capture operations (`service/capture*.go`, `upload`) | the capture row in DynamoDB; the audio, raw and clean objects in S3 | begin, confirm, retry, choose a note, transcribe again, delete, ingest text | each is a read, a decision and a conditional write beside a running delivery |
| Note operations (`service/notes*.go`, `note_markers.go`) | the note row (DynamoDB, versioned), the body (S3, ETag) | create, read, update, archive, restore, purge, move a recording, pin | two stores and no transaction between them |
| Cleaned view (`service/note_clean.go`, `pipeline/clean_note.go`, `regenerate.go`) | the request stamp and the cleaned body on the note row | ask for a view, generate it, clear the stamp, regenerate the captures | a request, its worker and every whole-row write meet on one row |
| Idempotency (`handler/idempotency.go`) | one claim row per Idempotency-Key | claim, complete, release, replay | retries while the first request is still running, or after it died |
| Spend, meter, breaker (`pipeline/spend.go`, `meter`, `breaker`) | daily counters, breaker states | reserve, call, settle; trip, half-open, close | concurrent invocations against one limit |
| Repository (`repository`) | DynamoDB items, S3 objects | conditional puts and updates | the promise everything above is built from |
| Recorder (`features/capture`) | the reducer's phase, the chunk buffer, the stored recordings | hold, record, pause, stop, file, upload | taps, permission prompts, interruptions and storage answers in any order |
| Offline store (`offline`) | IndexedDB: recordings, notes and queued edits | enqueue, replace, replay, retire, prefetch | a reload or a second tab at any step |
| Note editor (`features/notes`) | the draft, the saved copy, its version, a timer | edit, autosave, wait, conflict, rebase, add, queue | keystrokes while a save is in flight |
| Library (`api/queries`, `features/library`) | two cached lists, the rows of captures being filed | pin, colour, drag, archive, undo, poll, put away | a tap is shown before it is answered, over a copy that is already old |
| Session (`api`, `features/auth`) | tokens, one refresh in flight | sign in, refresh, sign out | many requests meet one expired token |
| Ask (`ask`, `pipeline/ask.go`, `features/ask`) | an ask row and its thread | ask, answer, poll | a worker's answer races the poll and the deadline |
| Touch (`hooks`) | one gesture per hook | swipe, hold, pull | four listeners, one finger |
| `chintanctl` | none of its own | export, backup, restore, reconcile, erase | long scans over rows that move |

They meet in four places. The API and the worker share DynamoDB rows, guarded by a
version each, and S3 objects, guarded by an ETag where it matters. The API invokes the
worker asynchronously, and S3 events do too. The client repeats requests under an
idempotency key. The client keeps copies of rows and texts and learns that they are old
from a 409.

What makes each correct:

- *append and save*: a recording's words land in its note exactly once, and stay until
  somebody who saw them takes them out; a save never loses another's acknowledged edit;
  the row ends up describing the body;
- *pipeline*: every capture ends appended, failed or waiting for a person; a paid call
  is not made twice for one artefact; a delivery never overwrites the verdict of another;
- *capture operations*: a retry never runs beside the attempt it replaces and never
  leaves a capture nobody will run; a deleted capture leaves no object behind;
- *editor and queue*: a keystroke is never dropped, whatever the answer to the save in
  flight; queued edits are replayed in order, over the newest copy, and never twice;
- *recorder*: audio that was recorded is stored or reported, never both lost and called saved;
- *session*: one refresh at a time, no token after sign-out;
- *what a screen says*: a row, a banner or a switch comes to say what the server holds, and
  nothing it says is under way is under way for good.

## The modules

| Module | Stands for | Checked by |
|---|---|---|
| `NoteAppend` (`NoteAppendMC`) | appends of recordings against saves of one note | `Races`, `Progress`, `TwoEditors`, `Patience`; `NoteAppend_proofs` |
| `CapturePipeline` (`CapturePipelineMC`) | one recording from its upload to its note, and the API's operations on it | `InTurn`, `Duplicates`, `Settling`; `CapturePipeline_proofs` |
| `CaptureLife` | abstract: what a status promises the person; `CapturePipeline` implements it | `Duplicates`, and proved |
| `CaptureMachine`, `Recording` (`RecordingMC`) | the recorder's reducer; the recorder, its store, the uploader and the unsent prompt | `Recording`, `UploadHangs`, `UnansweredResend` |
| `AudioCustody` | abstract: who holds the words; `Recording` implements it | `Recording` |
| `NoteModel`, `NoteSync` (`NoteSyncMC`) | the editor's save machine; one note's editors, its offline queue and the server | `NoteSync`, `RetiredEdit`, `WaitsMC`; `NoteSync_proofs` |
| `Session`, `DeviceNotes`, `NoteLists`, `Filing`, `Ask`, `Push` | what the device keeps, and says to the API | `Device`, `WaitsMC`; `Session_proofs`, `Push_proofs` |
| `NoteClean`, `Recordings`, `Player`, `Checklist`, `HoldToTalk`, `Touch` | what a note's screens do under a person's fingers | `Screens`, `WaitsMC`; `Player_proofs`, `Touch_proofs` |
| `AppMC` | all the parts of the last two rows; `Device.cfg` and `Screens.cfg` choose which | `Device`, `Screens`; `AppMC_proofs` |
| `WaitsMC` | those whose liveness is checked, under their fairness | `WaitsMC` |

`AppMC` and `WaitsMC` are sums: the parts share no state, so `part` says which
module a behaviour is of and that module's variables are the registers `r1`, `r2`, ... in the
order it declares them. Each part is an `INSTANCE` with its own bounds, and each property of
the sum is that part's invariants and action properties together.

## Runs

| Run | Instance | Shows |
|---|---|---|
| `Races` | `NoteAppendMC`: 1 recording, 2 deliveries, 1 editor, 2 saves, 1 Clean tap, the trash; 4.3 million states | `AppendedIsThere`, `NoSecondCopy`, `AckedEditsSurvive`, `SaveErasesOnlySeen`, `RowNeverRevived`: inside the lease no paragraph is erased unseen or written twice, no acknowledged edit is lost, no write from an older copy revives a row |
| `Progress` | `NoteAppendMC`: 2 recordings, 2 deliveries, 1 editor, 1 save, leases that run out, PUTs that report an error they did not have; fair; 908 290 | `OneHolder`, `StampCoversWrite`, `OnlyDeadStampedOver`, `DeliveryEnds`, `SaveIsAnswered`: one live holder of a claim, a stamp that names the capture being written, and everybody answered |
| `InTurn` | `CapturePipelineMC`: 1 invocation at a time, 2 attempts, 2 uploads, 2 operations of which 1 Transcribe again, 2 faults; audio, oversized audio and text; 5.5 million | `FiledIsWhatWasAsked`, `LanguageHonoured` |
| `Duplicates` | `CapturePipelineMC`: 2 deliveries, 2 uploads or redeliveries, 1 fault, 2 wordings of a cleanup, a waveform; 4.2 million | `OneParagraph`, `WhatIsDoneStays`, `WordsOutliveAudio`, `KeepsItsPromise` |
| `Settling` | `CapturePipelineMC`: 1 delivery, 1 upload, 3 attempts, 1 operation or delete, 1 fault, the trash; fair; 426 081 | `Settles`, `OrphanIsRemoved` |
| `Recording` | `RecordingMC`: 2 chunks, 2 rows, 1 fault, refusals of the disk among them, 1 crash of the page, 1 change of target; fair; 652 118 | `TakeInv`, `AudioSurvives`, `SentAsMeant`, `TakesEnd`: the audio is never lost and can be found, is filed once and whole where it was aimed, every stop is answered, and every send unless the disk refuses what confirms it |
| `NoteSync` | `NoteSyncMC`: 2 words, 2 visits, 1 attempt of a queued edit, 2 mishaps, 1 change elsewhere; 3.4 million | `WordsKept`, `NothingClobbered`, `SavedMeansStored`, `RetiredIsKept`: no typed word lost, no word of anyone's overwritten unseen, Saved means stored, a retired edit does not quietly go |
| `Device` | `AppMC`: six parts; 4.4 million | `SessionHolds`, `CacheKeepsUp`, `ListsAgree`, `FilingIsTold`, `AskedOnce`, `PushIsKept`: what the device holds and says stays true of the server |
| `Screens` | `AppMC`: six parts; 2.3 million | `PlayerIsTrue`, `TouchIsOneThing`, `TidyIsSafe`, `BatchesAreTold`, `ListKeepsItsWords`, `HoldIsKept`: no word, recording or tap is lost, doubled or misreported |
| `WaitsMC` | seven parts, fair, at smaller bounds; 410 682 | `WorkEnds`, `ScreensSettle`: everything the app says it is doing it finishes |

`AppendedIsThere` is `AppendedHasLanded` and `CompletedIsIndexed`; `WhatIsDoneStays` is
`KeysNameObjects`, `ProgressIsKept` and `SettledStays`. The composite properties of the sums
are spelled out, conjunct by conjunct, in the modules they come from (`SessionInv`,
`ListsInv`, `TouchIsOneThing`, ...).

Five more configurations look for a violation and find it, each within a minute or two. The
first two are runs and findings of `PROJECT.json`; the other three are kept to be run by hand.

| Configuration | Refutes | Because |
|---|---|---|
| `TwoEditors` | `AckedEditsSurvive`, with two devices | the second save's ETag is read after the first's body write and its row before the first's row write: both checks pass (`notes.go:458-459`) |
| `RetiredEdit` | `RetiredIsKept`, with the window `retired` open | the save of another field forgets the queued entry whatever its state (`useNoteEditor.ts:318-323`) though it merged it only if pending (`312`): the queue's promise (`queue.ts:166-170`) is that an edit it gave up on stays to be shown |
| `Patience` | `OnlyDeadStampedOver`, with three recordings and `PatienceRunsOut` | a waiter's ten seconds count from its own start (`append.go:260`), so one that spent them on a dead worker's stamp stamps over the next, live one at once (against `append.go:247-248`) |
| `UploadHangs` | `SendsEnd` | nobody catches a refusal of `confirmUploaded` (`uploader.ts:186`, `351`): the audio is on the server, no event is emitted, and the machine stays in `uploading`, with nothing to be recorded, until the page is reloaded; of the record write before it the code says that "A failed bookkeeping write must not abort a good upload" (`uploader.ts:287`) |
| `UnansweredResend` | `SentOnce`, with the window `unanswered` open | a question about the row that goes unanswered counts as `waiting` (`uploader.ts:121`); when the credential has died since, the resend is re-keyed, and a recording that had landed is filed twice, which is what the question is for (`uploader.ts:94-95`) |

With patient waiters and the windows closed the runs `Progress`, `NoteSync` and `Recording`
check the same properties, and the first two are proved.

All activity may end in every model, so the systems may stop: `CHECK_DEADLOCK FALSE`.

### Bounds

Two deliveries are a first attempt and its duplicate or retry. Two saves of one editor are a
save and the repeat of a save that died, or two edits on top of each other. Two recordings
give a note a second writer of the stamp. There are two notes in the pipeline, the one made for the
capture and one that asks for another language: enough for two deliveries to route apart and
for a destination to change the language. One fault is enough to separate any two calls of one
run; the second in `InTurn` lets the run that repairs the first die too. The worker attempts
an invocation three times (`MaximumRetryAttempts` 2): `Settling` has them all, the others two.
On the device, two of each actor (requests, tabs, lists, rows, captures, mounts of a screen)
make every race between two of them, and one or two mishaps put a failure between any two
steps. A queued edit is retired after one attempt in `NoteSync` (eight in the code, `MAX_ATTEMPTS`), so that
retired entries come up within the bound; the proofs have any number. Recording hands over two chunks, so a send can leave one behind, and the server may mint
two rows. A checklist of three lines, growing to four, at two depths has a parent, a child and
a stranger. Deliveries and requests are symmetric (`Symmetry`), which the fair runs do not use.

### Windows

Several modules have a constant `Windows`: the races a run lets happen by name, each explained
at the guard it opens. The configurations kept here leave them closed where a property
assumes so, because with the window open the code does break the property; what each does is
listed under *Where the code does something else* below. Windows are closed by a guard on the
step that would use them, never by weakening the property.

### Fairness

Running code goes on to its next call, timers fire, and the clock moves. Nothing assumes that
a call succeeds, that a person does anything, or that a provider answers well.

- `Progress`: each running delivery's next call, each save in flight, and the clock
  (`AgeStamp`, `LapseStamp`, `ExpireClaim`). Nothing makes a delivery start.
- `Settling`: each invocation's and each request's next call, the clock, and the reconcile
  task, whose rule fires every fifteen minutes. Faults and deaths are bounded, as a system
  whose every call fails settles nothing. Lambda need not deliver an S3 event.
- `Recording`: the recorder's events, the disk's answers and each step of an upload; the page
  need not be reopened and the person need not send.
- `WaitsMC`: the fairness each part states. A request is answered or lost, a poll is asked
  again while its screen is open, a wait has a timer, an announced append lands. `QueueDrains`
  and `DeadIsAsked` hold when the connection comes to stay (`<>[]online`); bounded mishaps
  stand for outages that end.

## NoteAppend

### What is modelled

One note. Its row (`version`, `stamp`, `stampAge`, `indexed`, `active`, `tap`), its body,
the rows of the captures filed into it (`cver`, `status`, `claim`, `appended`), the worker
deliveries running `Pipeline.append` (`pc`, `cap`, `resumed`, `mem`), the editors running
`UpdateNote` (`epc`, `ed`), and two history variables (`acked`: edits the API answered
200 for; `removed`: recordings' words taken out by a person who had them on screen).

Every call to DynamoDB or S3 is one action, because each is atomic at the store and
nothing larger is. A delivery goes

    StartDelivery, SetStatus, ClaimRead, ClaimPut, StampRead, StampPut, BodyRead,
    AppendToNote, RefreshReadRow, RefreshReadBody, RefreshPut, CompleteCaptureAppend,
    ClearStamp

with `ClaimRefused` and `CheckNote` when the claim is somebody's (`appendClaimRefused`),
`ReleaseStamp` and `ReleaseClaim` when it is handed back (`releaseAppendClaim`), `MarkFailed`
for a note in the trash, `Fault` for a call that fails outright and `Crash` for the end of
the invocation at any point. A save goes SaveReadBody (ETag and body), SaveReadRow (trash,
stamp and version checks, in the code's order), WriteNoteBody (the markers carried, the
conditional PUT), PutCarryingStamp (the row), PutReread (the second try).

Abstractions, and why they lose nothing the properties are about:

- A body is four sets: the captures whose marker is in it, those whose words stand under
  their marker, those whose words stand in the user's own text, and the edits it holds.
  Two bodies with the same sets have the same ETag. S3's ETag of an SSE-S3 object is
  the MD5 of its content, so equal content really has equal ETags.
- `tap` counts Clean taps: the clean stamp is a fresh time at every tap.
- The claim's lease is a third value, `stale`; the stamp's age is 0, 1 (past the ten
  seconds a waiter gives it) or 2 (past the twenty minutes a save gives it). The order of
  these bounds is the guard of `ExpireClaim`, `AgeStamp` and `LapseStamp`: a worker lives
  fifteen minutes, so a lease expires on no live holder, and a span from stamp to completion
  is milliseconds, so a stamp ages on no live holder unless a waiter's patience, which
  the code counts from the waiter's own start, is switched on (`PatienceRunsOut`).
- A duplicate that finishes a dead holder's append while the lease runs out is left out:
  it takes milliseconds of twenty minutes. A delivery parked before its claim while a lease
  runs out stands for one that starts afterwards; the two have the same state.
- Five lost races in a row and one are the same to the model: after any lost race the
  delivery may try again or give up.
- The client's rebase and its conflict prompt are a reload. It gives up repeating a save
  after a number of refusals and offers Try again; the model repeats at once.
- Not modelled here: titles, tags, pins; the checklist form of an append; transcribing
  again (a capture's text is the same at every attempt).

### Where the code does something else than its comments say

- `TwoEditors` (a run, and a finding in `PROJECT.json`). The second save reads the ETag
  after the first's body write and the row before its row write. Both checks pass, and an
  edit whose PATCH is answered 200 is overwritten.
- *Takeover of the same bytes* (`LeaseRunsOut`, an editor saving, `AppendedHasLanded`). A takeover
  past the lease rewrites the same bytes: the ETag does not move, and a save let through by
  the lapsed stamp erases a paragraph its author never saw (`notes.go:475-476` calls any
  body write in between a conflict).
- *Patience* (the configuration `Patience`: three recordings, `PatienceRunsOut`,
  `OnlyDeadStampedOver`). A waiter whose ten seconds went to one recording's stamp stamps over
  the next one's at once, while it is being written (`append.go:247-248`: only a holder that died
  is ever stamped over). With patient waiters, which `Progress` has, the property says that an
  aged stamp's holder is the only one stamped over; that a live holder is never slower than the
  ten seconds is assumed (the guard of `AgeStamp`), as the code's comment does.
- *Blind PUT* (`BlindFaults`, two saves, `NoSecondCopy`). The body PUT lands and reports an
  error; the claim is handed back; a person reworks the paragraph; the retry appends it again.
- *Metadata save*. A save that writes the row alone carries the append stamp of its own read;
  the stamp is cleared; both row writes fail, and the client is told of a conflict at the
  version it already has (`notes.go:724-731`).

The others are reached by this module under the settings named; but for `Patience` the
configurations kept here leave those switches off where a property assumes so.

### Proofs

`NoteAppend_proofs` proves `Spec => []TypeOK` and then, for any number of recordings,
deliveries and editors and any setting of the flags:

- `ClaimIsMutex`: `Spec => []OneHolder`. `OneHolder` needs one fact more to be inductive: a
  delivery that resumes a dead attempt (`resumed`) can only finish, so it never reaches
  the calls that hand a claim back and cannot free a claim it does not hold.
- `RowIsNeverRevived`: `Spec => RowNeverRevived`. The invariant is `CopiesFresh`: a copy of
  the row that a delivery or a save is about to write back, if its version still stands,
  agrees with the row on everything but the index, the tap and a cleared or aged stamp.
  The lemma `RowMoves` carries it: every step of the system moves the version or leaves
  that much of the row alone.

and, assuming `~PatienceRunsOut` (without it both are false: *Patience*, above):

- `StampIsKept`: `Spec => []StampCoversWrite`. The invariant `StampInv` adds, to the two
  above, that a stamp is written only after a look that found no live one
  (`StampsAfterLooking`), that an aged stamp has nobody writing behind it, and that only a
  finished append is cleared as finished.
- `LiveStampIsRespected`: `Spec => OnlyDeadStampedOver`, from the same invariant.

The rest is about the body. Its assumption `Calm` switches off the three
flags under which the code does break these promises: the lease runs out on a live span, a
waiter's patience runs out on a live holder, a body PUT lands behind an error. With any
number of deliveries, recordings, saves *and devices*:

- `WordsLandOnce`: `Spec => []NoSecondCopy`, and `AppendedHasLandedAlways`:
  `Spec => []AppendedHasLanded`. The invariant `WordsInv` says where a recording's words may
  be at each point of its append: nowhere before the first body PUT that succeeds; after it,
  in the note or in `removed`, with the claim held or complete, so that whoever reads the body
  next under that claim finds the marker, or may only finish.

and with `OneDevice` (any two editors are the same one) besides:

- `AppendedIsThereAlways`, `AckedEditsAreKept`, `NothingIsErasedUnseen`: the invariants
  `AppendedIsThere`, `AckedEditsSurvive` and `SaveErasesOnlySeen`. `DeviceInv` relates a save
  in flight to the store: the copy a save was made of, the ETag and version it will be judged
  by, and what may have changed since. A conditional PUT that succeeds replaces the very body
  the save saw, and a row write that succeeds describes the body that stands, or belongs to a
  delivery that will yet refresh it. A second device breaks each of them (`TwoEditors` shows
  it for one), so the hypothesis is the code's own limit and not a convenience.

The assumptions on the constants are otherwise that `None` is no capture, the bounds are
naturals and the flags are Booleans. The liveness properties stay with TLC.

## CapturePipeline

### What is modelled

One recording. Its row (`row`), its objects in S3 (`obj`: the audio and its `processed`
tag, the raw transcript, the routed text, the clean text, the waveform), the notes it may go
to and its paragraph in each (`note`, `landed`), the worker invocations (`pc`, `mem`), the
API requests on it (`rpc`, `prior`), and whether a presigned PUT may still land (`linkLive`).
`uploads`, `asks` and `faults` count what the bounds limit.

A row version is only ever compared with the stored one, so the model keeps, instead of a
number, the set `current` of those who hold a copy of the version that stands. A conditional
write needs its writer in `current` and leaves nobody else there.

| Code | Actions |
|---|---|
| `Worker.Handle`, Lambda's retries, S3 events | `UploadLands`, `Redeliver`, `Queue`, `Again`, `Crash`, `Fault` |
| `runCapture` | `StartRun`, `RejectOversized`, `Finish`, `VerifyPeaks`, `Conceded`, `Failed` |
| `setStatus`, `persist`, `concede` | `SetStatus`, `Persist`, `Concede`, `Write` |
| `transcribe`, `retranscribe` | `Transcribe`, `Hear` |
| `route`, `decideTarget` | `Route`, `AskRouter` |
| `destination`, `strip`, `clean` | `Destination`, `Strip`, `Clean`, `Tidy` |
| `append` and its claim | `Append`, `ClaimCaptureAppend`, `Land`, `ReleaseAppendClaim`, `CheckNote`, `CompleteCaptureAppend` |
| an artefact that is not there | `MissingObject` |
| `BeginCapture`, `IngestText`, `RetryCapture`, `SetCaptureTarget`, `RetranscribeCapture`, `handOff` | the actions of those names, `Invoke`, `InvokeFails`, `Rollback`, `RequestDies` |
| `DeleteCapture` | `DeleteCapture`, `CutParagraph`, `Unlink`, `DeleteRow` |
| the reconcile task | `Reap`, and `Failed` for an invocation of its own |
| time | `Age`, `LeaseEnds`, `LinkEnds`, `AudioExpires` |
| the trash | `ArchiveNote`, `RestoreNote`, `PurgeNote` |

Abstractions:

- A text is which request to transcribe it answers, the language it was heard in, and the
  wording a cleanup gave it. Two cleanups of one transcript may differ (`Answers`), which is
  what a retry between two attempts can tell apart.
- A key on the row is whether it is set; the key names follow from the capture's id. The
  append token is a function of the id and the clean key, so every attempt has the same one,
  and `held` is all there is to know of it. Captures here are plain dictation: a checklist or
  a verbatim note adds a second token and nothing to the order of the steps.
- `failed` stands for `spend_capped` too: both end the run and both may be retried.
- Time is three facts, `fresh` (progress within `CaptureStuckAfter`), `leased` (claimed within
  `AppendClaimLease`) and `linkLive`. An invocation lives as long as `CaptureStuckAfter` and a
  request seconds, so the clock moves on while nothing runs (`Quiet`). The backoff
  between two attempts is the wait between `queued` and `StartRun`.
- The whole of `NoteAppend`'s protocol is the claim, the paragraph landing and the completion;
  what goes wrong inside it is that module's subject.
- The `processed` tag is put with the end of a run, the reconcile task's verdict is a read and
  a write in one, a delete removes its objects in one step, and a request that reads, decides
  and writes under the version it read is one step when it succeeds: nothing in between can
  move the row without failing it.
- A note's language is fixed. A capture's own `RequestedLanguage`, `IngestAudio` (a Begin whose
  PUT the API makes) and moving a recording to another note are left out.

`KeysNameObjects` is checked where audio arrives: a text is taken in row first and a delete
goes row last. `FiledIsWhatWasAsked` is not checked with purge: a purge in the middle of an
append takes the paragraph and may leave the row.

### The abstract specification

`CaptureLife` is what a status means to the person who spoke: a recording comes in and is
moving; it is filed, or it stops with something to do about it; from either it moves again
only when somebody asks; filed never turns into stopped; gone stays gone. `CapturePipeline`
implements it with `life` read off the row's status (`KeepsItsPromise`), and, with fairness,
never leaves a capture moving for good (`Settles`).

### Where the code does something else than its comments say

Two are formulas at the end of the module, checked by no run kept here:

- `AudioIsKept`. The transcript's row write fails. The run's own copy still names the
  transcript, the audio is tagged as processed by that copy and expires; a later run starts at
  transcribe and has nothing to hear.
- `FailedRerunLeavesNoTranscript`. Transcribe again fails at the provider: the row names no
  transcript and the old one is still in S3.

And orders of steps the model has, stated as no property:

- A delivery of the earlier transcription, still on its way to the claim, check or completion
  when Transcribe again frees them, takes them: same token, same marker. The capture is marked
  appended with the old text. `InTurn` has one delivery at a time for this reason.
- Two deliveries store their transcripts under one key before either learns it lost the row:
  a late one, in the default language, may replace the one recorded in the note's language.
- A delivery that finds its claim completed by another ends like one that completed it
  (`append.go:196-239`, `pipeline.go:408-412`), so both announce the filing.
- `verifyPeaks` reloads the run's copy after a lost write. A Retry in between makes it pending,
  and the finished run returns `errCaptureOrphaned` and is run again.
- When the reconcile task's own run returns an error, `Reaper.fail` puts its verdict over any
  pending status, that of a delivery that has begun to append included; the append still
  completes, so the capture shows failed for a moment and then appended.
- A delete checks `CaptureStuck` once. A run that was queued starts after the check and may land
  the paragraph after the cut; its completion finds no row and the text stays in the note.
- A second PUT whose run ends between a delete's last two calls leaves audio without a row.
- A purge in the middle of an append leaves the claim held until the lease ends.
- An attempt that lost its claim to another, which found the paragraph there and completed it,
  may still land: it replaces the paragraph under the marker (`append.go:87-89`). The words are
  the same, so `SettledStays` holds, but what a person made of the paragraph between the
  completion and that write is overwritten. `landed` is what attempts wrote and has no person's
  text in it, so no property here sees this.
- A destination chosen after the first was purged keeps the cleaned text
  (`resumeStatusFor`, `capture.go:626`), so the recording is filed in the language of the note
  that went, not transcribed again in the new one's. `LanguageHonoured` is checked without purge.

### Proofs

`CapturePipeline_proofs` proves, for any number of invocations, requests and notes and any
bounds, from the module's five named assumptions and nothing else:

- `Typing`: `Spec => []TypeOK`, one lemma for the runs, one for the requests and one for
  the rest, over lemmas on what the row, a memory and the objects remain when a field changes.
- `ImplementsLife`: `Spec => KeepsItsPromise`, the safety half of the refinement. Its fairness
  half, `Settles`, is liveness and stays with TLC.

The refinement does not follow step by step from the types. A write from a copy is a step of
`CaptureLife` only if the copy still describes the row, so the proof needs to know what the
holder of the current version knows. `PromiseInv` says it:

- `CopyAgrees`: an invocation that holds the current version found the row pending if it is
  at a stage; has the row's status in its copy if it is about to release a claim or ended;
  and, if about to write a verdict, is not writing over `appended`;
- `ResetStands`: a request that holds it left the row pending, and what a rollback would
  put back was a row that existed;
- `FiledIsDone`: `appended` implies a claim held and complete, so `ClaimCaptureAppend` and
  `CompleteCaptureAppend`, which go by the row itself and not by a version, refuse it;
- `GoneIsBare`: a row that is not there has no holder and nothing to complete.

Every action keeps `PromiseInv` and makes a `LifeStep`, a disjunction over what a step does to
`row.status` and `asks` (`PromiseRun`, `PromiseRequest`, `PromiseEnvironment`), and
`LifeStepIsLife` maps each disjunct to an action of `CaptureLife` or a stutter. A few shapes
carry the cases: a step that looks on, one that writes the row and takes every other copy's
place, one that loses its write and concedes, a row that goes.

Two more invariants of the same system:

- `WordsAreHeldAlways`: `Spec => WordsOutliveAudio`, assuming `~MayBeDeleted`. A run tags the
  audio by its own copy of the row, which may be old; `HeldInv` says that whoever may still
  tag it, or has, follows a raw transcript or a routed text in S3, and that nothing takes
  those away. A delete of the recording itself does, its row last, so the property is stated
  of recordings nobody deletes.
- `OneParagraphAlways`: `Spec /\ [][NotesKept]_note => []OneParagraph`, where `NotesKept` says
  that no note is purged. Two deliveries may route one recording apart and each believe its
  note; what keeps one of them from writing is that `note` is set once on the row and the
  claim is taken of the version that set it. `OneInv` says so: everybody past the claim aims
  where the row does (`OneAim`), a rollback aims where it found the row (`RollbackAims`), and
  a paragraph stands only in a note a claim was taken for. A purge lets a capture be filed
  again while a holder of the first claim is still to land, which is why it is left out.

The last follows the words, where invocations come one after another
(`InTurn`: there is one delivery, run any number of times), nobody deletes the recording and no
note is purged:

- `FiledIsWhatWasAskedAlways` and `LanguageIsHonoured`: `Spec /\ [][NotesKept]_note` implies
  `[]FiledIsWhatWasAsked` and `[]LanguageHonoured`, for any number of requests, notes, attempts,
  faults and transcriptions asked for again. `SaysInv` is the invariant. A key on the row, or on
  a row a request may yet put back, names a text made for it (`Keyed`): of its last request, in
  the language it has on record. So does the copy an invocation works from, with the text it has
  in hand (`InHand`). From the first write of a stage to its end nobody else has a copy
  (`Alone`), so a text replaced there is nobody else's. A rollback is what needs care: it
  puts back keys whose texts a run that began in between might have replaced, and has not,
  because that run's next write would have come first (`Abreast`).

`WhatIsDoneStays` has three parts, and each is proved as far as it is true:

- `ProgressIsKeptAlways`: `Spec => ProgressIsKept`, with no hypothesis. `InSync` says that whoever
  holds the current version, or would put back a row of the same request, has a copy with the
  row's claim and with the cleaned text if the row names it (`Heir`).
- `KeysNameObjectsAlways`: `Spec => []KeysNameObjects`, assuming `~MayBeDeleted` and
  `"text" \notin Arrives`: a text's row goes before its object and a deleted capture's row after
  them. Copies are written however old, so `AllNamed` says it of every copy and every row that
  may be put back.
- `WhatIsDoneStaysAlways`: `Spec /\ [][NotesKept]_note => WhatIsDoneStays`, under the same
  assumptions and `MaxAgain = 0`. The claim alone does not keep a settled paragraph: when
  its holder dies, or stops between the paragraph and the completion for as long as the lease,
  another is given it and lands the paragraph again, or finds it there and completes while the
  first is still to land. `SettledStays` says that the words are then the same words; whether a
  person has edited them since is not in `landed`. `SettleInv` says why that does no harm. One at a time is at the note, under the
  row's claim (`ClaimStands`); the row names the cleaned text before anybody is (`CleanFirst`);
  once the paragraph is in the note, and somebody may land it again, every invocation is past the
  cleanup and has the cleaned text in hand or will read it (`AllLate`), so nobody replaces that
  text and all land the same words (`SameWords`). A transcription asked for again starts the
  capture over while an invocation of the earlier one may be left, and a purge cuts what has
  landed, hence the last two hypotheses.

With two deliveries `FiledIsWhatWasAsked` is false, in the order of steps given first above. A
delete cuts the paragraph before the row goes, and a purge takes it and may leave the row, so
neither property is stated with them.

## Recording

`CaptureMachine` is `machine.ts`, the pure reducer, as one function on the model and the
event. `Recording` is everything it drives: the recorder controller (`recorder.ts`), the
capture store (`store.ts`), the buffer of chunks (`offline/buffer.ts`), the uploader
(`uploader.ts`) and the prompt that offers recordings an earlier page left. `app` is the
page's memory and dies in `Crash`; `idb` is the disk; `srv` the server as the uploader sees it.

| Code | Actions |
|---|---|
| `start`, the permission prompt, the wake lock | `Arm`, `MicrophoneOpens`, `MicrophoneRefused`, `Armed`, `Release` |
| the MediaRecorder's events, the two caps | `Chunk`, `FinalChunk`, `RecorderStopped`, `EncoderFault`, `PlatformStops`, `DurationCap` |
| the track's events | `TrackEnded`, `TrackMuted`, `TrackUnmuted` |
| the disk's answers | `ChunkStored`, `ChunkLost`, `RecordSaved` |
| the buttons | `Pause`, `Resume`, `StopTap`, `SendTap`, `DiscardTap`, `Retarget` |
| `uploadCapture`, one step per await | `UploadStep`, `SpendCapped`, `Disconnected` |
| the unsent prompt | `ListUnsent`, `PromptSend`, `PromptDiscard` |
| the server and the lifecycle rule | `ObjectEvent`, `Expire`, `RowDeleted` |

A chunk is a unit, so a count of chunks is their content. `Custody` reads off who holds a
recording's words, and `AudioSurvives` says that this machine implements `AudioCustody`: words
once on the device never vanish, and leave it only when the server has them.

The disk may refuse any call. The code reports some of these refusals, swallows others and does
not catch the rest, and the actions do what it does; the history variable `truth` remembers
which recording a refusal touched, and the properties except exactly those:

| Refused | The code | The model | What no longer holds of that recording |
|---|---|---|---|
| a chunk (`recorder.ts:250-266`) | stops the take and says so | `ChunkLost`, `faulty` | `SentWhole` |
| the record, or its rewrite with a new destination (`store.ts:155`) | goes on | `RecordSaved`, `unsaved`; once such a record was listed, or a write under way died with the page, `astray` | `AudioIsReachable` (`unsaved`); `ArrivesWhereChosen` (`astray`) |
| the read of the chunks (`uploader.ts:159-166`) | says they cannot be read | `Assemble`, the audio still there | nothing: only Discard is left on this page, and the prompt offers it after a reload |
| the row's id on the record (`uploader.ts:285`) | goes on | `SaveRow` | nothing: a resend replays the create |
| the record marked as sent, or the prune (`uploader.ts:186`, `351`) | rejects | `Confirm`, `Prune`, `unconfirmed` | the second half of `TakesEnd` (`UploadHangs`) |
| a discard, by the screen (`store.ts:232`) or the prompt (`ResumePrompt.tsx:157`) | swallows it, or rejects | `DiscardDone` and `PromptDiscard`, through `DiscardRefused`; `undropped` | `DiscardIsClean` |

A discard that went through (`forgotten`) may be followed by nothing that names the recording.
`SentAsMeant`, `AudioSurvives` and `TakeInv` are checked with one refusal anywhere, beside the
crash and the change of destination. What a refusal leaves that nobody comes back for: audio
whose prune was refused stays on the disk, marked as sent and offered by no list. The prompt's
row stays busy after its send rejects; the model takes it to be mounted again at once. The
idempotency record lasts a day: a resend later than that, from a record whose row id was not
saved, mints a second capture, which is left out.

## NoteSync

`NoteModel` holds the functions of `noteModel.ts` on a draft (a set of words per field) and its
saved copy; `NoteSync` runs them: `useNoteEditor.ts` with its debounce and its one save in
flight, `offline/queue.ts` and `editQueue.ts` with the pass that flushes them, the copy of the
note a screen opens from, and the server with the worker's append and another device.

| Code | Actions |
|---|---|
| typing, the debounce, a save | `Type`, `Debounce`, `WaitOver`, `SaveNow`, `Arrive`, `Unreachable`, `Disturbed` |
| the answer, by kind | `Stored`, `Queue`, `Failed`, `Deferred`, `Refused` |
| the conflict prompt | `TakeTheirsTap`, `KeepTap` |
| a retired edit read back | `AskBack`, `AnswerBack` |
| the queue's pass | `ReadQueue`, `FlushStart`, `FlushArrive`, `FlushDisturbed`, `FlushSettle` |
| coming and going | `Visit`, `Leave`, `Reload`, `Fetch`, `GoOffline`, `GoOnline` |
| the server's other writers | `StampNote`, `FileParagraph`, `EditElsewhere`, `CleanBump` |

A PATCH carries the fields that changed, and `Upon` lays it over a draft, as the server, the
queue and the screen each do. `NothingClobbered` here and `AckedEditsSurvive` in `NoteAppend`
are the two ends of one promise: the server refuses what names an old version, and the client
never answers a refusal by naming the new version over text it has not merged. The note is not
purged under its editor here, so the queue's own branch for a note that is gone
(`queue.ts:266-270`, which drops the entry) is left out.

### Proofs

`NoteSync_proofs` proves `Typing`, `Spec => []TypeOK`, with any windows open, and, for any
number of words, visits, attempts, waits, mishaps and changes elsewhere, assuming
`Windows = {}`:

- `NothingClobberedAlways`: `Spec => []NothingClobbered`;
- `WordsKeptAlways`: `Spec => []WordsKept`;
- `SavedMeansStoredAlways`: `Spec => []SavedMeansStored`;
- `RetiredIsKeptAlways`: `Spec => RetiredIsKept`, an action property.

They are read off one invariant, `Inv`. None of them is inductive: whether a save may go out
depends on what the screen believes of the server and the queue, and that on where its copy
came from. The parts of `Core`:

| Part | Says | Needed because |
|---|---|---|
| `OneScreen`, `Screens` | one screen acts at a time; what it shows, holds as saved and believes of the server are related to the note at its version (`Good`), and what is on the wire to what it was made of (`Flies`) | a 200 makes the copy sent the new base; a 409 must find what to merge over |
| `DeviceInv`, `KeysInv` | nothing on the device is newer than the note; one key names one queued edit wherever it was read to | the queue is judged by a key read some renders ago |
| `Aware` | a cached copy, or a queued edit, at the note's version knows all the note's words | either may go out next, and at that version the server takes it |
| `CacheInv` | a cached word is on the note, in the queue, given up, or being sent by the open screen | a screen is opened from the cache and calls it saved |
| `FlushInv` | the pass over the queue holds an edit that is stored, or would overwrite nothing | an answer is settled against a queue that may have changed |
| `FromSomebody`, `NewWords` | every word has a source, and the next typed is new | otherwise a word typed twice could stand for its own copy |
| `AllKept`, `OnServer` | where each typed word is, and that landed ones are on the note | the properties themselves |

The second disjunct, `Words \subseteq Given`, is the model's way of closing `overtaken`: once a
screen whose copy moved past the draft it is queuing has queued it, no word is counted any
more, and nothing is claimed. The other windows are guards on the steps named there.
`held`, `retired` and `unread` let a save settle an entry of the queue that it did not carry
(`Fits`), which is what `Replaces`, in `Flies`, excludes; the rest are explained at their guards.

## The device

| Module | Code | State | What it promises |
|---|---|---|---|
| `Session` | `api/session.ts`, `api/client.ts`, `features/auth` | tokens in memory and storage, the generation, refreshes in the air, requests, the sign-in flow | a session signed out of never comes back; one kept is lost only to a sign-out or Cognito's refusal; concurrent 401s make one refresh; a write resent acts once; signed out, no note is left on the device |
| `DeviceNotes` | `offline/notesCache.ts`, `useNotesCache.ts` | the notes in IndexedDB, answers on their way, the prefetch's pass | a body is given up only for a newer note, a purge or a sign-out; a pass at rest has asked for every row; what was wiped is not written back |
| `NoteLists` | `api/queries/notes.ts`, `NoteRow`, `NoteActions`, `PinnedGroup` | two cached lists and their reads, the mutations in flight, the toast | no write refused for this device's own move; a note in one list; an Undo puts it back in its place; rows come to be the server's |
| `Filing` | `FilingRow`, `filing/`, `FilingBanner`, `api/queries/captures.ts`, `dismissed.ts` | the server's rows, Home's list and poll, the note's copy, the rows put away | a recording is never nowhere between Send and its row; put away stays away; "added" only over a body that has it; the note's banner settles |
| `Ask` | `thread.ts`, `useAskThread.ts`, `AskPanel.tsx`, `queries/ask.ts` | the thread in memory and in sessionStorage, posts in flight, the server's key records | one question waited for; a key never carries two bodies; Try again does not pay twice; an answer kept once |
| `Push` | `settings/push.ts`, `NotificationsCard.tsx`, `usePushResync.ts` | the browser's subscription, the server's rows, each tab's job | tabs enrolling at once do not drop each other's subscription; off stays off |

Their actions are one per tap, per request served and per answer landed: `Serve` and
`Answered` in `NoteLists`, `PollAsks`, `PollServed`, `PollLands` in `Filing`, `Arrives`,
`Accepted`, `Conflict`, `Lost` in `Ask`, and so on; the guards are the code's early returns. The
server is external in each, with what the API's own code promises: a version moves with
every write, a key acts once, a poll returns what was stored when it was served. A request of
`Session` has one key, made with the request as in `client.ts`: that a write resent acts once
is checked of the resends, and rests on the key for the rest. A 2xx that is no row (`NotARow`,
`thread.ts:151`) fails the turn as lost; Try again then asks afresh if no row was ever seen,
and may pay twice: `NotPaidTwice` excepts it, beside a question that is too old or was answered
with an error.

### Proofs

`Session_proofs`, with the four bounds natural numbers and nothing else assumed, for any number
of requests:

- `SessionIsSound`: `Spec => []Kept /\ [][SessionStep]_vars`, every part of `SessionHolds` but
  `LeavesNothing`, with every window open. `IInv` has five parts. `AirInv` is the one that
  matters: at most one refresh is unanswered, and it is the session's own, of its generation, or
  there is no session; so an answer that arrives after a sign-out finds a generation that is not
  its own, and one that arrives in time finds the session it was begun for. `FlowInv` says the
  same of a sign-in: one under way is of a new number, never of an ended one, and nobody is
  signed in meanwhile. `ReqInv` ties a request to the one key it is sent under and to a refresh
  that has not landed.
- `SessionAlwaysHolds`: `Spec => SessionHolds`, assuming `Windows = {}`. With `late_read` an
  answer writes notes after the wipe, and with `interrupted` the wipe may never end, so
  `LeavesNothing` needs both closed; it is inductive beside `IInv`.

`Push_proofs`, with `MaxEnds` a natural number, for any number of tabs:

- `WorkingIsNeverDropped`: `PushSpec => [][WorkingIsNotDropped]_pushVars`, with every window open.
  `LockInv`: one actor is past the lock, and what it was told the server lists still has what the
  browser holds, if the server lists that at all, because rows are added and endpoints coined
  past the lock alone. Without it (`UnlockedMutant`) the second to enrol drops the first's.
- `PushIsAlwaysKept`: `PushSpec => PushIsKept`, assuming `Windows = {}`. `OffInv`: nobody enrols
  while somebody turns off, what is being turned off is what the browser holds, and once off it
  is remembered as off, so that no launch takes it for wanted. Two tabs that cross, one turning
  off while the other enrols, do break it (`crossing`, `stale_card`).

Both inductive invariants were checked by TLC at the bounds of the run before they were proved.

`AppMC_proofs` carries the theorems of the session, the push subscription, the player and the
touch over to the module the runs check (`SessionStands`, `PushStands`, `PlayerStands`,
`TouchStands`): each invariant, under `part = ...`, is kept by every step of the sum, whichever
parts are let in and for every value of the constants, because a step of the sum is a step of
its part and the part never changes (`PartSteps`).

## The screens

| Module | Code | State | What it promises |
|---|---|---|---|
| `NoteClean` | `useTidyList.ts`, `CleanedPanel.tsx`, `service/note_clean.go`, `pipeline/clean_note.go` | the note's body, view and stamp, the runs, the screen's copy and editor, the tidy, the panel | no word lost to a tidy; a view not marked stale is of the body; a run yields only to a newer request; no verdict of an older run over a newer one's |
| `Recordings` | `Recordings.tsx`, `MoveSheet.tsx`, "Wrong note?" on Home, the two mutations | the selection, the dialog, the batches, the server's places | those moved into one new note make one note; a refusal, of some or of all, is said where it was asked; a batch said to have gone well has moved or removed all it was asked to |
| `Player` | `RecordingRow.tsx`, `artifacts.ts`, `usePlayer.ts` | the open row, the cached artifacts, the audio element and the hook | a settled row shows its own run's transcript; the controls say what the element does; only what the store let go is called lost |
| `Checklist` | `checklist.ts`, `ChecklistEditor.tsx`, `ChecklistRow.tsx`, `useDragReorder.ts`, `Toast.tsx` | the lines, the rows held after a tick, the drag, the toast | words leave only by the act that names them; what is written is read back; a done line hides no open one; the drag holds its row and its preview is what the release writes |
| `HoldToTalk` | `holdGesture.ts`, `useHoldToTalk.ts`, `swallowNextClick.ts`, `CaptureScreen.tsx` | the gesture, what is down, the take, the click to come, the screen | an open microphone is under a finger or on the capture screen; one press, one recording; a long message goes only on purpose |
| `Touch` | `useHorizontalSwipe`, `useSwipeActions` and `SwipeRow`, `useLongPress`, `usePullToRefresh` | each touch and its owner, the trays, the holds, the panel, the pull | a touch does one thing; one tray open; nothing stands out of place without a finger; a tap is a tap |

`Checklist` models the pure edits as operators on the sequence of lines (`blockOf`,
`moveItem`, `joinItem`, `pasteItems`, `deleteDone`, ...) and the editor's handlers as actions
over them; a word is a number written once, so a lost or a moved one is seen.

### Proofs

`Player_proofs`, for any number of recordings, answers, runs and mishaps, with `flaky` closed:
`PlayerIsAlwaysTrue`, `PlayerSpec => []PlayerIsTrue`. Held artifacts are of the row's run
because they are kept under its version, so `Inv` says what a version means: `RowsAreOld` (the
rows shown are the server's of some moment, at one version one run) and `HeldIsOfRow` (what is
held was asked for under a version the row has had). `ElementIsDrawn` says that the element is
the open row's, at the URL it has, and heard by the hook, which is what makes the controls its
own. Keying by the id alone (`IdAloneMutant`) breaks `HeldIsOfRow`.

`Touch_proofs`, for any number of rows, tabs, touches and moves: `TouchIsAlwaysOneThing`,
`TouchSpec => []TouchIsOneThing`, with `amid_hold` and `interrupted` closed. Four hooks hear a
touch and none asks the others, so what excludes them is indirect, and `Holds` spells it out:

- `Alone`, `HeldTouch`: a touch that has stayed still, or is held, is the only one down, no
  tray is open under it and its click will be swallowed; the hold's timer runs for such a
  touch only (`Presses`);
- `RowGestures`, `RegionGesture`: a drag of a row or of the panel is of a finger that owns its
  pointer, the panel's of one the panel took; the panel's gesture ends with its touch, a row's
  need not (`NeverDeaf` is false), and then hears nothing;
- `PullGesture`: a pull under way is of a moving finger nobody owns and the panel has let be;
- `DoneSoFar`: before it lifts a touch has done nothing but select what it holds;
- `Taps`: nothing waits to swallow the click of a tap that is still down.

With these a lift, which ends every gesture at once, can do one thing at most (`AtMostOne`).

## What is proved and what is left to TLC

| Run | Proved for every value of the constants | Model-checked only |
|---|---|---|
| `Races` | all five | |
| `Progress` | `OneHolder`, `StampCoversWrite`, `OnlyDeadStampedOver` | `DeliveryEnds`, `SaveIsAnswered` |
| `InTurn` | both | |
| `Duplicates` | all four | |
| `Settling` | | `Settles`, `OrphanIsRemoved` |
| `Recording` | | `TakeInv`, `AudioSurvives`, `SentAsMeant`, `TakesEnd` |
| `NoteSync` | all four | |
| `Device` | `SessionHolds`, `PushIsKept` | `CacheKeepsUp`, `ListsAgree`, `FilingIsTold`, `AskedOnce` |
| `Screens` | `PlayerIsTrue`, `TouchIsOneThing` | `TidyIsSafe`, `BatchesAreTold`, `ListKeepsItsWords`, `HoldIsKept` |
| `WaitsMC` | | `WorkEnds`, `ScreensSettle` |

Liveness needs fairness and `ENABLED` and is out of the prover's reach: the `Settles`,
`OrphanIsRemoved`, `...Ends` and `WaitsMC` properties stay with TLC. So does every module
without a proof module. `ListKeepsItsWords` is about operators on sequences of lines whose
results are sequences built by filtering and moving blocks; what they compute for every list
is an induction over data. `AudioSurvives` and `SentAsMeant` for `Recording` stay with TLC for
another reason: an inductive invariant for them has to say that what is sent is finished
(`OnlyFinishedIsSent`). That holds of one recording, but not of two with three chunks and three
faults, where TLC finds the order of steps the table below gives; a hypothesis that rules it
out would name the very step the code forgets.

## Where the code does something else than its comments say, on the device

Each is a formula under *What the repository says that the code does not keep* at the end of
its module, or a window of that module. The configurations `RetiredEdit`, `UploadHangs` and
`UnansweredResend` show the rows that name them; the others are checked by none kept here.

| Module | Formula or window | What happens |
|---|---|---|
| `Touch` | `NeverDeaf` | the panel takes the pointer in the move that committed the row; the row is told nothing and keeps its gesture (`useSwipeActions.ts:261-270`, `useHorizontalSwipe.ts:298-303`) |
| `Touch` | `amid_hold`, `interrupted` | a second finger, or a move, while a hold's row is being selected (`useLongPress.ts:84`); a touch the system takes while a refresh runs |
| `DeviceNotes` | `NewerWins` | a row of an older version may replace a detail-less newer one (`notesCache.ts:22` against `50-70`) |
| `DeviceNotes` | `apart`, `late` | another write fits between a put's get and its put; an answer or a prefetch lands after the purge or the sign-out |
| `Filing` | `CrossKeepsFiled` | the cross on a row drawn as stuck deletes a recording filed since (`FilingItem.tsx:188`) |
| `Filing` | `AskedStaysInView` | a row put away while it failed stays away when it comes to ask which note (`FilingItem.tsx:400-403`) |
| `Filing` | `unseen`, `left` | a poll or a note's read lands on a screen that has gone, and what it found new is told to nobody |
| `Recordings` | `NotMovedTwice`, `SelectedWasPicked`, `overlap` | a sheet asks again for what a partly failed batch moved (`FilingRow.tsx:316-330`, `captures.ts:493-499`); a selection keeps ids whose rows left and came back (`Recordings.tsx:133-137`); a second batch beside one in flight |
| `Player` | `PlayStarts`, `flaky` | a play tapped on a row whose audio is not there yet is spent (`RecordingRow.tsx:124-127`); a failed read over an artifact that is held |
| `HoldToTalk` | `PressingIsDown`, `eager` | a gesture stays pressing with nothing down (`holdGesture.ts:84`); a press while the discarded take is still going |
| `Ask` | `LostIsPolledAgain`, `InFlightIsResent` | Try again on a turn whose connection was lost fails before it asks (`thread.ts:206-216`); a replay still in flight after its tries cannot be sent again (`useAskThread.ts:27-33`, `151`) |
| `Ask` | `offline`, `meanwhile`, `resave`, `late` | a resend that fails at once; a question asked while a save is out; Home reopened during a save; an answer to a Home that has gone |
| `Push` | `HintIsTrue`, `crossing`, `stale_card` | the card says lost of a subscription that works (`NotificationsCard.tsx:41-45`); turning off in one tab while another enrols; a card that read an endpoint since replaced |
| `Session` | `late_read`, `interrupted` | an answer in the air writes notes after the wipe; a reload or a sign-in in the middle of a sign-out |
| `NoteClean` | `torn`, `glimpsed` | a run writes the row between a save's body and its row write (`note_clean.go:29-31`, `service/notes.go:576`); a poll sees the new body with the old view (`useTidyList.ts:28-32`) |
| `NoteLists` | `behind`, `amid`, `run`, `half` | a tap on a row known to be old; a colour amid a move; two colours at once; an Undo whose pin fails after its restore |
| `Checklist` | `NeverTorn` | an item moved down past a parent lands between it and its sub-items, which become the moved item's (`checklist.ts:386`) |
| `Checklist` | `done_paste`, `beat` | done lines pasted over open sub-items; an act in the 220 ms a ticked row stays where it was |
| `Recording` | `OnlyFinishedIsSent` | an upload's events do not say which recording they are of, and `uploadFailed` is taken in any state (`store.ts:288`, `machine.ts:464`): one that fails after Re-record fails the machine that records, whose Retry sends an unfinished buffer |
| `Recording` | `SendsEnd` | a refused confirm rejects the upload and the machine stays in `uploading` (`uploader.ts:186`, `351`; `UploadHangs`) |
| `Recording` | `unanswered` | a landed row that cannot be asked about once its credential is dead is filed again (`uploader.ts:121`; `UnansweredResend`) |
| `Recording` | `impatient`, `arming`, `rekeyed`, `unknownRow`, `lateMove` | a second start during an abandoned prompt (`start` clears `stopping`, `recorder.ts:127`); a mute while the wake lock is awaited; a fault after a re-keyed row; a row deleted that the sender never learnt of; a move after the prompt listed it |
| `NoteSync` | `retired` | a retired edit's fields, shown as saved, are left out of the save that forgets it (`useNoteEditor.ts:312-323`; run `RetiredEdit`) |
| `NoteSync` | `held`, `left`, `recover`, `answers`, `unread`, `reopened`, `overtaken`, `resent` | each explained at its guard: a queued edit the draft does not show, a screen left before its save came back, words typed while a retired edit is read back, a write whose answer is lost, a queue not yet read, a note reopened too early, a copy that moved past the draft being queued (`useNoteEditor.ts:383`), a retired edit sent again from a screen that is left before the answer |

## Not modelled

Spend, the meter and the breaker are daily counters beside every provider call; their refusals
are among the outcomes a stage may have in `CapturePipeline`. Providers, prompts and the
parsing of a model's answer are text: the route taken and the words it leaves are choices.
The idempotency handler is used by `Session` and `Ask` as what it promises, one effect per
key; its lease and expiry are not modelled. Regenerating a note's captures, discarding a note,
tags, device keys and settings are single-row edits. Search is a scan of strings. Sending a
push is best effort and nothing depends on it. `chintanctl` is run by hand over a quiescent
table. Templates, workflows and scripts set the constants of the models. Layout, theme and
navigation keep no protocol state.
