-------------------------------- MODULE Player --------------------------------
(***************************************************************************)
(* The open row of the Recordings tab: which row is open                   *)
(* (features/notes/Recordings.tsx), what it fetches for it (artifacts.ts,  *)
(* RecordingRow.tsx), the audio element it puts in the document and the    *)
(* hook that follows that element's events (usePlayer.ts).  A row's state  *)
(* outlives its element: the hook keeps what it last heard.  The pipeline, *)
(* the store and the browser's cache are external.                         *)
(***************************************************************************)
EXTENDS Integers, FiniteSets

CONSTANTS
  Captures,
  MaxReads,     \* answers with presigned URLs
  MaxRuns,      \* times a recording is transcribed again
  MaxEvents,    \* faults of the network, jumps of the clock, looks away
  Windows       \* races a run lets happen: "flaky"

VARIABLES
  server,       \* each capture: settled or moving, its transcript's run, its version, its audio
  rows,         \* the note's captures as the device has them
  open, auto,   \* the row that is open, the row whose play was tapped while it was closed
  art,          \* the artifacts in the cache, by the key they were asked for under
  read, err,    \* each row's request, and how its last one failed
  want,         \* a request is due: the row was opened, or the window came back
  el, heard,    \* the audio element in the document; the hook listens to it
  hook,         \* what each row's hook last heard
  reads, events

playerVars == <<server, rows, open, auto, art, read, err, want, el, heard, hook, reads, events>>

Versions == 1..(2 * MaxRuns + 1)
None == 0
NoArt == [st |-> "none", run |-> 0, url |-> 0, old |-> FALSE]
NoRead == [on |-> FALSE, ver |-> 0]
NoElement == [of |-> None, url |-> 0, loaded |-> FALSE, playing |-> FALSE, time |-> 0]
Silent == [playing |-> FALSE, time |-> 0, ready |-> FALSE]

Event == events < MaxEvents /\ events' = events + 1

-----------------------------------------------------------------------------
(* What a row shows *)

(* Keyed on the version as well: transcribing again replaces what is behind the id. *)
IdAloneMutant(c) == 1
Key(c) == rows[c].ver
Held(c) == art[c][Key(c)]
Url(c) == Held(c).url
Asks(c) == open = c /\ rows[c].st = "settled"

(* Offline, the row says it needs a connection, and not that its audio is gone. *)
Unreachable(c) == err[c] = "offline"
SaysNotStored(c) == Asks(c) /\ ~Unreachable(c) /\ Held(c).st = "held" /\ Url(c) = 0
Mounts(c) == Asks(c) /\ ~Unreachable(c) /\ Url(c) # 0

Fresh(c, url) == [NoElement EXCEPT !.of = c, !.url = url]

(* The element stays as long as the row keeps drawing it; another URL loads it again. *)
NextElement(was, c, mounts, url) ==
  IF ~mounts THEN NoElement ELSE IF was.of = c /\ was.url = url THEN was ELSE Fresh(c, url)

(* Subscribed again when the URL changes, or the row opens or closes. *)
Resubscribes(url, newUrl, active, newActive) == url # newUrl \/ active # newActive

(* Every step ends by drawing the rows, from the element as the step left it. *)
Draw(was) ==
  \E c \in Captures \cup {None} :
    /\ c = open'
    /\ IF c = None THEN el' = NoElement /\ heard' = FALSE
       ELSE /\ el' = NextElement(was, c, Mounts(c)', Url(c)')
            /\ heard' = /\ Mounts(c)'
                        /\ \/ Resubscribes(Url(c), Url(c)', open = c, TRUE)
                           \/ heard /\ el.of = c /\ Mounts(c)

(* The tapped row has reported its metadata once: start it.  `ready` is the *)
(* hook's, and a row that was open before has heard one already.            *)
Starts(c) == auto = c /\ open = c /\ hook[c].ready
EffectsRan == auto # None => ~Starts(auto)

-----------------------------------------------------------------------------
(* The person *)

Opens(c) ==
  /\ open' = c
  /\ want' = IF c = None THEN want
             ELSE [want EXCEPT ![c] = ~read[c].on /\ (Held(c).old \/ err[c] # "none")]

Toggle(c) ==
  /\ EffectsRan
  /\ Opens(IF open = c THEN None ELSE c)
  /\ UNCHANGED <<server, rows, auto, art, read, err, hook, reads, events>>
  /\ Draw(el)

(* Toggling acts on the element in the document, if there is one. *)
Flipped == IF el = NoElement THEN el ELSE [el EXCEPT !.playing = ~@]
Heard(e) ==
  IF heard /\ e # NoElement
  THEN [hook EXCEPT ![e.of] = [@ EXCEPT !.playing = e.playing, !.time = e.time]]
  ELSE hook

PlayTapped(c) ==
  /\ EffectsRan /\ ~Unreachable(c)
  /\ IF open = c
     THEN hook' = Heard(Flipped) /\ UNCHANGED <<open, auto, want>>
     ELSE Opens(c) /\ auto' = c /\ UNCHANGED hook
  /\ UNCHANGED <<server, rows, art, read, err, reads, events>>
  /\ Draw(IF open = c THEN Flipped ELSE el)

Autoplay(c) ==
  /\ Starts(c) /\ auto' = None
  /\ UNCHANGED <<server, rows, open, art, read, err, want, reads, events>>
  /\ Draw(Flipped) /\ hook' = Heard(Flipped)

(* A line of the transcript, or the scrubber: shown before the element says so. *)
Seek(c) ==
  /\ EffectsRan /\ el.of = c /\ el.loaded
  /\ hook' = [hook EXCEPT ![c] = [@ EXCEPT !.time = 1]]
  /\ UNCHANGED <<server, rows, open, auto, art, read, err, want, reads, events>>
  /\ Draw([el EXCEPT !.time = 1])

SelectingStarts ==
  /\ EffectsRan /\ open # None /\ Opens(None)
  /\ UNCHANGED <<server, rows, auto, art, read, err, hook, reads, events>>
  /\ Draw(el)

(* The 202 carries the capture back, and the row wears it at once. *)
Retranscribe(c) ==
  /\ EffectsRan /\ rows[c].st = "settled" /\ server[c].st = "settled" /\ server[c].audio
  /\ server[c].ver + 2 \in Versions
  /\ server' = [server EXCEPT ![c].st = "moving", ![c].ver = @ + 1]
  /\ rows' = [rows EXCEPT ![c] = [server'[c] EXCEPT !.audio = TRUE]]
  /\ UNCHANGED <<open, auto, art, read, err, want, hook, reads, events>>
  /\ Draw(el)

-----------------------------------------------------------------------------
(* What it fetches *)

Needs(c) == Asks(c) /\ ~read[c].on /\ (want[c] \/ (Held(c).st = "none" /\ err[c] = "none"))

Begins(c) ==
  /\ EffectsRan /\ Needs(c)
  /\ read' = [read EXCEPT ![c] = [on |-> TRUE, ver |-> Key(c)]]
  /\ want' = [want EXCEPT ![c] = FALSE]
  /\ UNCHANGED <<server, rows, open, auto, art, err, hook, reads, events>>
  /\ Draw(el)

(* A purged recording is an expected 404: no audio, and the rest of the row. *)
NextUrl(c) == reads + 1
Answers(c) ==
  /\ EffectsRan /\ read[c].on /\ reads < MaxReads /\ reads' = reads + 1
  /\ art' = [art EXCEPT ![c][read[c].ver] =
       [st |-> "held", run |-> server[c].run, url |-> IF server[c].audio THEN NextUrl(c) ELSE 0,
        old |-> FALSE]]
  /\ read' = [read EXCEPT ![c] = NoRead]
  /\ err' = IF read[c].ver = Key(c) THEN [err EXCEPT ![c] = "none"] ELSE err
  /\ UNCHANGED <<server, rows, open, auto, want, hook, events>>
  /\ Draw(el)

(* Any other failure is the query's own: what was held stays held. *)
Kept(c) == art
Fails(c, how) ==
  /\ EffectsRan /\ read[c].on /\ Event
  /\ ((how = "other" /\ Unreachable(c) /\ Url(c) # 0) => "flaky" \in Windows)
  /\ art' = Kept(c)
  /\ read' = [read EXCEPT ![c] = NoRead]
  /\ err' = IF read[c].ver = Key(c) THEN [err EXCEPT ![c] = how] ELSE err
  /\ UNCHANGED <<server, rows, open, auto, want, hook, reads>>
  /\ Draw(el)

(* Five minutes: what is held is old, and what no row is keyed on is forgotten. *)
FiveMinutes ==
  /\ EffectsRan /\ Event
  /\ art' = [c \in Captures |-> [v \in Versions |->
       IF v = Key(c) THEN [art[c][v] EXCEPT !.old = art[c][v].st = "held"] ELSE NoArt]]
  /\ UNCHANGED <<server, rows, open, auto, read, err, want, hook, reads>>
  /\ Draw(el)

(* The window comes back: an old answer, or a failed one, is asked again. *)
Focus ==
  /\ EffectsRan /\ Event /\ open # None
  /\ want' = [want EXCEPT ![open] = ~read[open].on /\ (Held(open).old \/ err[open] # "none")]
  /\ UNCHANGED <<server, rows, open, auto, art, read, err, hook, reads>>
  /\ Draw(el)

-----------------------------------------------------------------------------
(* The element's own events *)

(* Read from the element, not carried over from the one before it. *)
FromElement(c) == [playing |-> el.playing, time |-> el.time, ready |-> TRUE]

Loaded(c) ==
  /\ EffectsRan /\ el.of = c /\ ~el.loaded
  /\ hook' = IF heard THEN [hook EXCEPT ![c] = FromElement(c)] ELSE hook
  /\ UNCHANGED <<server, rows, open, auto, art, read, err, want, reads, events>>
  /\ Draw([el EXCEPT !.loaded = TRUE])

Advances(c) ==
  /\ EffectsRan /\ el.of = c /\ el.loaded /\ el.playing /\ el.time = 0
  /\ hook' = Heard([el EXCEPT !.time = 1])
  /\ UNCHANGED <<server, rows, open, auto, art, read, err, want, reads, events>>
  /\ Draw([el EXCEPT !.time = 1])

Ended(c) ==
  /\ EffectsRan /\ el.of = c /\ el.loaded /\ el.playing /\ el.time = 1
  /\ hook' = Heard([el EXCEPT !.playing = FALSE, !.time = 0])
  /\ UNCHANGED <<server, rows, open, auto, art, read, err, want, reads, events>>
  /\ Draw([el EXCEPT !.playing = FALSE, !.time = 0])

-----------------------------------------------------------------------------
(* The server, and the note read again *)

Finishes(c) ==
  /\ EffectsRan /\ server[c].st = "moving"
  /\ server' = [server EXCEPT ![c].st = "settled", ![c].run = @ + 1, ![c].ver = @ + 1]
  /\ UNCHANGED <<rows, open, auto, art, read, err, want, hook, reads, events>>
  /\ Draw(el)

(* Retention takes the audio and leaves the words. *)
Purged(c) ==
  /\ EffectsRan /\ Event /\ server[c].st = "settled" /\ server[c].audio
  /\ server' = [server EXCEPT ![c].audio = FALSE]
  /\ UNCHANGED <<rows, open, auto, art, read, err, want, hook, reads>>
  /\ Draw(el)

Fetched(c) == [server[c] EXCEPT !.audio = TRUE]
JustLanded(c) == rows[c].st = "moving" /\ server[c].st = "settled"

(* A recording that has just landed opens itself. *)
NoteRead ==
  /\ EffectsRan /\ \E c \in Captures : rows[c] # Fetched(c)
  /\ rows' = [c \in Captures |-> Fetched(c)]
  /\ err' = [c \in Captures |-> IF rows[c].ver = server[c].ver THEN err[c] ELSE "none"]
  /\ IF \E c \in Captures : JustLanded(c)
     THEN \E c \in Captures : JustLanded(c) /\ open' = c
     ELSE UNCHANGED open
  /\ UNCHANGED <<server, auto, art, read, want, hook, reads, events>>
  /\ Draw(el)

PlayerInit ==
  /\ server = [c \in Captures |-> [st |-> "settled", run |-> 1, ver |-> 1, audio |-> TRUE]]
  /\ rows = server /\ open = None /\ auto = None
  /\ art = [c \in Captures |-> [v \in Versions |-> NoArt]]
  /\ read = [c \in Captures |-> NoRead] /\ err = [c \in Captures |-> "none"]
  /\ want = [c \in Captures |-> FALSE]
  /\ el = NoElement /\ heard = FALSE /\ hook = [c \in Captures |-> Silent]
  /\ reads = 0 /\ events = 0

PlayerNext ==
  \/ \E c \in Captures :
       \/ Toggle(c) \/ PlayTapped(c) \/ Autoplay(c) \/ Seek(c) \/ Retranscribe(c)
       \/ Begins(c) \/ Answers(c) \/ Fails(c, "offline") \/ Fails(c, "other")
       \/ Loaded(c) \/ Advances(c) \/ Ended(c) \/ Finishes(c) \/ Purged(c)
  \/ SelectingStarts \/ FiveMinutes \/ Focus \/ NoteRead

PlayerSpec == PlayerInit /\ [][PlayerNext]_playerVars

-----------------------------------------------------------------------------
(* What must hold *)

PlayerTypeOK ==
  /\ open \in Captures \cup {None} /\ auto \in Captures \cup {None}
  /\ \A c \in Captures : Key(c) \in Versions /\ err[c] \in {"none", "offline", "other"}
  /\ reads \in 0..MaxReads /\ events \in 0..MaxEvents

(* Under a settled row is the transcript of the run it settled from, or of a *)
(* later one: never the one that run replaced.                               *)
TranscriptIsThisRun ==
  \A c \in Captures : Asks(c) /\ Held(c).st = "held" => Held(c).run >= rows[c].run

(* What the controls say is what the element in the document does, from its *)
(* metadata on: not what the one before it did, and not nothing at all.     *)
ControlsTellTheTruth ==
  el.loaded => hook[el.of].playing = el.playing /\ hook[el.of].time = el.time

(* Only a recording the store has let go is said to be no longer stored. *)
NeverCalledLost == \A c \in Captures : SaysNotStored(c) => ~server[c].audio

-----------------------------------------------------------------------------
(* What a recording's row shows of its transcript and its audio: all of the   *)
(* above, in every state.                                                     *)
PlayerIsTrue == PlayerTypeOK /\ TranscriptIsThisRun /\ ControlsTellTheTruth /\ NeverCalledLost

-----------------------------------------------------------------------------
(* What the repository says that the code does not keep. *)

(* A tap on Play waits for the audio and starts it: it is not spent on a row *)
(* with no audio in it yet.                                                   *)
PlayStarts ==
  [][\A c \in Captures : Starts(c) /\ auto' = None => el.of = c]_playerVars
=============================================================================
